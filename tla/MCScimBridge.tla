---------------------------- MODULE MCScimBridge ----------------------------
(* Instances of ScimBridge for TLC. *)
EXTENDS ScimBridgeSync, TLC

CONSTANTS u1, u2, n1, n2, v1, v2, p1, p2

\* The groups are set and the bridge writes; or any configuration, at each start.
LiveConfig == {[groupMode |-> TRUE, allowUpdates |-> TRUE, dryRun |-> FALSE]}
AnyConfig  == Config

\* Two users with names of their own.
TwoNames == u1 :> n1 @@ u2 :> n2
Realm(places) ==
    [u \in Users |-> [where |-> places[u], enabled |-> TRUE, val |-> v1, profile |-> p1]]

\* Both users start in scope.
BothIn  == {Realm([u \in Users |-> "in"])}
\* A MAS without users, or with accounts made by hand before the bridge.
NoAccounts == [i \in MasIds |-> Unissued]
ByHand(n)  == [name |-> n, ext |-> NoExt, val |-> v2, active |-> TRUE]
EmptyMas   == {NoAccounts}
SomeMas    == {NoAccounts, [NoAccounts EXCEPT ![1] = ByHand(n1)],
               [NoAccounts EXCEPT ![1] = ByHand(n1), ![2] = ByHand(n1)]}

\* No state file, or one in the legacy format that maps u1 to its account.
NoFile == {[u \in Users |-> NoEntry]}
LegacyFile == {[u \in Users |-> IF u = u1 THEN OkEntry(1, p1, NoSnap) ELSE NoEntry]}
LegacyMas  == {[NoAccounts EXCEPT ![1] = ByHand(n1)]}
=============================================================================
