------------------------------ MODULE MCJobLogs ------------------------------
(* An instance of JobLogs for TLC. *)
EXTENDS JobLogs

\* Two lines share the first timestamp, two share the second.
SharedStamps == <<1, 1, 2, 2>>
=============================================================================
