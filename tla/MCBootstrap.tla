----------------------------- MODULE MCBootstrap -----------------------------
(* An instance of Bootstrap for TLC. *)
EXTENDS Bootstrap

\* A release, the pre-release of the next one, and that one.
SomeVersions ==
    {[core |-> 1, pre |-> FALSE], [core |-> 2, pre |-> TRUE], [core |-> 2, pre |-> FALSE]}
=============================================================================
