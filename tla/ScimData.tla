------------------------------ MODULE ScimData ------------------------------
(***************************************************************************)
(* The data of the SCIM bridge and the pure operators on it: what Keycloak *)
(* says of a user, what MAS holds for an account, what the bridge writes   *)
(* in its state store, and the diff between two snapshots.                 *)
(*                                                                         *)
(* The fields a sync compares one by one (given name, family name, e-mail) *)
(* are bundled in one value val; "active" is kept apart because removal,   *)
(* reactivation and the tombstone are about it.  User names do not change. *)
(***************************************************************************)
EXTENDS Integers, FiniteSets

CONSTANTS
    Users,        \* Keycloak user ids
    Names,        \* user names
    NameOf,       \* the user name of each Keycloak id
    Vals,         \* values of the compared profile fields
    Profiles,     \* MAS SCIM profile ids
    MaxAccounts,  \* bound: accounts MAS issues in a behaviour
    Unmapped,     \* a masProfile label the resolver rejects
    NoUser,       \* a user outside the resolved scope
    NoEntry,      \* no entry in the state store
    NoSnap,       \* the zero Snapshot
    NoExt,        \* a MAS account without externalId
    Unissued,     \* a MAS id not handed out yet
    Gone          \* a MAS account that was deleted

MasIds == 1..MaxAccounts

\* An empty MASID, and the id "dryrun-<user>" MAS never issued.
NoId == 0
DryRunId == -1

-----------------------------------------------------------------------------
(* Keycloak. *)

\* The Keycloak account before its creation, outside the configured scope,
\* inside it (group member that passes the filters), or deleted.
Places == {"absent", "out", "in", "deleted"}

\* The masProfile attribute is kept as the profile it resolves to.
KcUser == [where: Places, enabled: BOOLEAN, val: Vals,
           profile: Profiles \cup {Unmapped}]

Exists(k) == k.where \in {"out", "in"}

-----------------------------------------------------------------------------
(* The state store. *)

Snapshot == [val: Vals, active: BOOLEAN]

Entry == [id: MasIds \cup {NoId, DryRunId}, profile: Profiles,
          status: {"ok", "error", "deactivated"},
          snap: Snapshot \cup {NoSnap}]

\* The document the bridge sends for a user, and the snapshot it records of it.
Desired(k) == [val |-> k.val, active |-> k.enabled]

OkEntry(i, p, s) == [id |-> i, profile |-> p, status |-> "ok", snap |-> s]

\* Mutant: the failed create is stored as a success without an id.
FailedCreateOk(p) == OkEntry(NoId, p, NoSnap)

\* A create or a conflict that failed: no MAS id, no snapshot.
FailedCreate(p) ==
    [id |-> NoId, profile |-> p, status |-> "error", snap |-> NoSnap]

\* Mutant: the error is recorded without the id.
FailedUpdateForgets(e) == [e EXCEPT !.id = NoId, !.status = "error"]

\* A failed PATCH or PUT keeps the id and the snapshot of the last success.
FailedUpdate(e) == [e EXCEPT !.status = "error"]

\* Mutant: the mismatch is recorded without the correlation.
MismatchedForgets(e) == [e EXCEPT !.id = NoId, !.status = "error", !.snap = NoSnap]

\* A profile mismatch keeps the id and the old profile, and drops the snapshot.
Mismatched(e) == [e EXCEPT !.status = "error", !.snap = NoSnap]

\* Mutant: field values are made up for a zero snapshot.
FabricatedSnapshot(s) ==
    IF s = NoSnap THEN [val |-> CHOOSE v \in Vals : TRUE, active |-> FALSE]
    ELSE [s EXCEPT !.active = FALSE]

\* A zero snapshot stays zero; any other one records the account inactive.
DeactivatedSnapshot(s) == IF s = NoSnap THEN NoSnap ELSE [s EXCEPT !.active = FALSE]

Tombstone(e) ==
    [e EXCEPT !.status = "deactivated", !.snap = DeactivatedSnapshot(@)]

-----------------------------------------------------------------------------
(* The MAS accounts. *)

Account == [name: Names, ext: Users \cup {NoExt}, val: Vals, active: BOOLEAN]

NewAccount(u, d) ==
    [name |-> NameOf[u], ext |-> u, val |-> d.val, active |-> d.active]

\* The compared fields in which two snapshots differ: the PATCH operations.
Diff(prev, next) == {f \in {"val", "active"} : prev[f] # next[f]}

\* MAS applies the operations of a PATCH and leaves the other fields alone.
Patched(a, ops, d) ==
    [a EXCEPT !.val    = IF "val" \in ops THEN d.val ELSE @,
              !.active = IF "active" \in ops THEN d.active ELSE @]

-----------------------------------------------------------------------------
ASSUME DataAssumption ==
    /\ NameOf \in [Users -> Names]
    /\ MaxAccounts \in Nat
    /\ NoUser \notin Users \cup KcUser
    /\ NoExt \notin Users
    /\ Unmapped \notin Profiles
    /\ NoEntry \notin Entry
    /\ NoSnap \notin Snapshot
    /\ {Unissued, Gone} \cap Account = {}
    /\ Unissued # Gone
=============================================================================
