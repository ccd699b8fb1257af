----------------------------- MODULE MCServices -----------------------------
(* An instance of Services for TLC. *)
EXTENDS Services

\* Installs that configure MAS, of all three services.
MainRequests ==
    {[kind |-> "minio", mas |-> TRUE], [kind |-> "rook", mas |-> TRUE],
     [kind |-> "mailpit", relay |-> None], [kind |-> "mailpit", relay |-> "r1"]}

\* Two of MinIO, or Mailpit beside it.
SomeOverlaps == {{"minio"}, {"minio", "mailpit"}}

SomePasswords == {"p1", "p2", "p3", "p4", "p5", "p6"}
=============================================================================
