--------------------------- MODULE ScimBridgeSync ---------------------------
(***************************************************************************)
(* ScimBridge implements UserSync: the directory is MAS, the links and the *)
(* removals are what the state file says.                                  *)
(***************************************************************************)
EXTENDS ScimBridge

\* What MAS shows of an account.
Side(a) ==
    CASE a = Unissued -> "unissued"
      [] a = Gone     -> "gone"
      [] OTHER        -> IF a.active THEN "active" ELSE "inactive"

Shown(a) ==
    [name |-> IF a \in {Unissued, Gone} THEN NoId ELSE a.name, side |-> Side(a)]

\* The account an entry names, if MAS issued its id.
LinkOf(e) == IF e # NoEntry /\ e.id \in MasIds THEN e.id ELSE NoId

Tombstoned(e) == e # NoEntry /\ e.status = "deactivated"

Sync == INSTANCE UserSync WITH
    Ids     <- MasIds,
    None    <- NoId,
    account <- [i \in MasIds |-> Shown(mas[i])],
    link    <- [u \in Users |-> LinkOf(file[u])],
    removed <- {u \in Users : Tombstoned(file[u])}

\* In live mode the bridge keeps the promise of UserSync through crashes, lost
\* and retried calls, failed writes and edits: the file never forgets a link or
\* moves it and links an account of the user's own name only, MAS accounts change
\* on behalf of a linked user only, and a tombstone is written only when the
\* account is off (executor.go:42-155, 186-240; state/store.go:102-121).
ImplementsUserSync == Sync!Spec
=============================================================================
