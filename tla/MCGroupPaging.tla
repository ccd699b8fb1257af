---------------------------- MODULE MCGroupPaging ----------------------------
(* Instances of GroupPaging for TLC. *)
EXTENDS GroupPaging

CONSTANTS a, b

TwoGroups == <<a, b>>
=============================================================================
