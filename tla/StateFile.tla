------------------------------ MODULE StateFile ------------------------------
(***************************************************************************)
(* The state file of the SCIM bridge and who writes it: a bridge process   *)
(* in mode poll or backfill, which loads the file once and writes its      *)
(* whole map at every Save, and the cleanup tool, which loads the file,    *)
(* deletes the accounts of the entries in error and writes the rest back.  *)
(*                                                                         *)
(* WriteToFile writes a temporary file and renames it; a process may die   *)
(* between the two.                                                        *)
(* ScimBridge has the poll cycle in full; here only its Saves count.       *)
(***************************************************************************)
EXTENDS Integers, FiniteSets

CONSTANTS
    Users,        \* Keycloak user ids
    MaxAccounts,  \* bound: accounts MAS issues
    NoEntry,      \* no entry in the map
    Torn,         \* a state file that is not JSON
    NoUser,       \* no user's Save is in progress
    Unissued,     \* a MAS id not handed out yet
    Gone,         \* a deleted MAS account
    FaultKinds,   \* the faults of the environment
    MaxFaults,    \* bound: faults in a behaviour
    MaxCleanups   \* bound: runs of the cleanup tool

Ids   == 1..MaxAccounts
NoId  == 0
Entry == [id: Ids \cup {NoId}, status: {"ok", "error", "deactivated"}]
Map   == [Users -> Entry \cup {NoEntry}]

\* An account carries the user name of its user, and the externalId unless it
\* was made by hand.
Account == [user: Users, ext: BOOLEAN]

ASSUME StateFileAssumption ==
    /\ MaxAccounts \in Nat /\ MaxFaults \in Nat /\ MaxCleanups \in Nat
    /\ NoEntry \notin Entry /\ Torn \notin Map /\ NoUser \notin Users
    /\ {Unissued, Gone} \cap Account = {} /\ Unissued # Gone
    /\ FaultKinds \subseteq {"crash", "disk", "reject", "search"}

VARIABLES
    \* MAS
    acct,
    \* the volume
    file,      \* the state file, as a process reads it
    litter,    \* temporary files left behind
    \* the bridge process
    bpc, mode, mem,
    todo,      \* users the backfill has not come to
    cur, pend, \* the Save in progress: its user and its entry
    strict,    \* the caller of that Save looks at its error
    \* the cleanup tool
    cpc,
    left,      \* its map
    doomed,    \* entries in error it has not come to
    refused,   \* entries whose account MAS would not delete
    \* history and bounds
    cleanups, faults, crashes, overlapped

bridgeVars  == <<bpc, mode, mem, todo, cur, pend, strict>>
cleanupVars == <<cpc, left, doomed, refused, cleanups>>
diskVars    == <<file, litter>>
vars == <<acct, diskVars, bridgeVars, cleanupVars, faults, crashes, overlapped>>

NoMap == [u \in Users |-> NoEntry]

Init ==
    /\ acct \in [Ids -> {Unissued} \cup [user: Users, ext: {FALSE}]]
    /\ \A i, j \in Ids : i < j /\ acct[j] # Unissued => acct[i] # Unissued
    /\ file = NoMap /\ litter = 0
    /\ bpc = "down" /\ mode = "poll" /\ mem = NoMap
    /\ todo = {} /\ cur = NoUser /\ pend = NoEntry /\ strict = FALSE
    /\ cpc = "off" /\ left = NoMap /\ doomed = {} /\ refused = {}
    /\ cleanups = 0 /\ faults = 0 /\ crashes = 0 /\ overlapped = FALSE

-----------------------------------------------------------------------------
(* Helpers. *)

Fault(kind) ==
    /\ kind \in FaultKinds /\ faults < MaxFaults
    /\ faults' = faults + 1
    /\ crashes' = crashes + (IF kind = "crash" THEN 1 ELSE 0)

NoFault == UNCHANGED <<faults, crashes>>

Live(i) == i \in Ids /\ acct[i] \notin {Unissued, Gone}
ByExt(u)  == {i \in Ids : Live(i) /\ acct[i].user = u /\ acct[i].ext}
ByName(u) == {i \in Ids : Live(i) /\ acct[i].user = u}

Ok(i)      == [id |-> i, status |-> "ok"]
Unknown    == [id |-> NoId, status |-> "error"]
As(e, s)   == [e EXCEPT !.status = s]

\* Both processes are there at once: neither knows of what the other one writes.
Meets == overlapped' = (overlapped \/ (bpc' # "down" /\ cpc' # "off"))

\* Mutant: the file itself is opened, truncated and written.
WriteInPlace == file' = Torn /\ UNCHANGED litter

\* The temporary file is created, written and closed; the state file is as it was.
WriteTemp == UNCHANGED diskVars

\* The deferred os.Remove after a write or a rename that failed.
RemoveTemp == UNCHANGED litter

\* The rename is atomic.
Rename(m) == file' = m /\ UNCHANGED litter

-----------------------------------------------------------------------------
(* The bridge process. *)

Exit ==
    /\ bpc' = "down" /\ mem' = NoMap
    /\ todo' = {} /\ cur' = NoUser /\ pend' = NoEntry /\ strict' = FALSE
    /\ UNCHANGED mode

\* NewStore loads the file; one that is not JSON ends the process.
Start ==
    /\ bpc = "down" /\ file # Torn
    /\ mode' \in {"poll", "backfill"}
    /\ mem' = file
    /\ bpc' = "run"
    /\ todo' = (IF mode' = "backfill" THEN Users ELSE {})
    /\ UNCHANGED <<acct, diskVars, cur, pend, strict, cleanupVars, faults, crashes>>
    /\ Meets

\* The outcome e of user u is saved next; s tells if the error of Save counts.
Record(u, e, s) ==
    /\ bpc' = "save" /\ cur' = u /\ pend' = e /\ strict' = s
    /\ todo' = todo \ {u}
    /\ UNCHANGED <<diskVars, mode, mem, cleanupVars, overlapped>>

Polling(u) == bpc = "run" /\ mode = "poll"

\* Create: the account is new, or adopted after a conflict, or MAS refuses.
PollCreate(u) ==
    /\ Polling(u) /\ mem[u] = NoEntry
    /\ \/ /\ ByName(u) = {} /\ NoFault
          /\ \E i \in Ids :
                /\ acct[i] = Unissued /\ \A j \in 1..(i - 1) : acct[j] # Unissued
                /\ acct' = [acct EXCEPT ![i] = [user |-> u, ext |-> TRUE]]
                /\ Record(u, Ok(i), TRUE)
       \/ /\ ByName(u) # {} /\ NoFault
          /\ IF Cardinality(ByName(u)) = 1
             THEN \E i \in ByName(u) : Record(u, Ok(i), TRUE)
             ELSE Record(u, Unknown, FALSE)
          /\ UNCHANGED acct
       \/ Fault("reject") /\ Record(u, Unknown, FALSE) /\ UNCHANGED acct

\* Update and deactivation keep the id, whether MAS accepts or refuses; a
\* profile mismatch is recorded without a look at the error of Save.
PollUpdate(u) ==
    /\ Polling(u) /\ mem[u] # NoEntry /\ mem[u].id # NoId
    /\ \/ mem[u].status # "error" /\ Record(u, As(mem[u], "ok"), TRUE) /\ NoFault
       \/ mem[u].status # "deactivated" /\ Record(u, As(mem[u], "deactivated"), TRUE) /\ NoFault
       \/ Record(u, As(mem[u], "error"), TRUE) /\ Fault("reject")
       \/ Record(u, As(mem[u], "error"), FALSE) /\ NoFault
    /\ UNCHANGED acct

\* One match is the account of the user; none or several are an error without id.
Unique(S) == IF Cardinality(S) = 1 THEN Ok(CHOOSE i \in S : TRUE) ELSE Unknown

Filling(u) == bpc = "run" /\ mode = "backfill" /\ u \in todo

\* By externalId, and by user name when that finds nothing; whatever entry the
\* user had is overwritten.
Backfill(u) ==
    /\ Filling(u)
    /\ Record(u, IF ByExt(u) # {} THEN Unique(ByExt(u)) ELSE Unique(ByName(u)), FALSE)
    /\ UNCHANGED acct /\ NoFault

\* The search by externalId fails: the one by name decides.
BackfillByName(u) ==
    /\ Filling(u) /\ Fault("search")
    /\ Record(u, Unique(ByName(u)), FALSE)
    /\ UNCHANGED acct

\* Users out of scope or without a mapped profile are passed over.
BackfillSkips(u) ==
    /\ Filling(u)
    /\ todo' = todo \ {u}
    /\ UNCHANGED <<acct, diskVars, bpc, mode, mem, cur, pend, strict, cleanupVars,
                   faults, crashes, overlapped>>

\* The last search fails as well, a 401 included, or there is nothing left to do.
BackfillEnds ==
    /\ bpc = "run" /\ mode = "backfill"
    /\ \/ todo = {} /\ NoFault
       \/ todo # {} /\ Fault("search")
    /\ Exit
    /\ UNCHANGED <<acct, diskVars, cleanupVars, overlapped>>

\* The pod is replaced between two cycles, to run in another mode.
Redeploy ==
    /\ bpc = "run" /\ mode = "poll"
    /\ Exit
    /\ UNCHANGED <<acct, diskVars, cleanupVars, faults, crashes, overlapped>>

\* Save changes the map in memory, then writes all of it.
Save ==
    /\ bpc = "save"
    /\ mem' = [mem EXCEPT ![cur] = pend]
    /\ WriteTemp
    /\ bpc' = "rename"
    /\ UNCHANGED <<acct, mode, todo, cur, pend, strict, cleanupVars, faults, crashes,
                   overlapped>>

Saved ==
    /\ bpc = "rename"
    /\ Rename(mem)
    /\ bpc' = "run" /\ cur' = NoUser /\ pend' = NoEntry /\ strict' = FALSE
    /\ UNCHANGED <<acct, mode, mem, todo, cleanupVars, faults, crashes, overlapped>>

\* The write or the rename fails: the map in memory has changed all the same.
SaveFails ==
    /\ bpc \in {"save", "rename"} /\ Fault("disk")
    /\ RemoveTemp
    /\ IF strict
       THEN Exit
       ELSE /\ mem' = [mem EXCEPT ![cur] = pend]
            /\ bpc' = "run" /\ cur' = NoUser /\ pend' = NoEntry /\ strict' = FALSE
            /\ UNCHANGED <<mode, todo>>
    /\ UNCHANGED <<acct, file, cleanupVars, overlapped>>

\* Killed; a temporary file may be left behind.
BridgeDies ==
    /\ bpc # "down" /\ Fault("crash")
    /\ litter' = litter + (IF bpc = "rename" THEN 1 ELSE 0)
    /\ Exit
    /\ UNCHANGED <<acct, file, cleanupVars, overlapped>>

-----------------------------------------------------------------------------
(* The cleanup tool, run with --delete. *)

\* Mutant: the status is not looked at.
AllEntries(m) == {u \in Users : m[u] # NoEntry}

InError(m) == {u \in Users : m[u] # NoEntry /\ m[u].status = "error"}

\* Without an entry in error the tool ends at once.
Load ==
    /\ cpc = "off" /\ cleanups < MaxCleanups
    /\ file # Torn /\ InError(file) # {}
    /\ cleanups' = cleanups + 1
    /\ left' = file /\ doomed' = InError(file) /\ refused' = {}
    /\ cpc' = "delete"
    /\ UNCHANGED <<acct, diskVars, bridgeVars, faults, crashes>>
    /\ Meets

Deleting(u) == cpc = "delete" /\ u \in doomed

\* Mutant: the entry goes although its account could not be deleted.
DeletedAnyway(u) == left' = [left EXCEPT ![u] = NoEntry] /\ UNCHANGED refused

Kept(u) == refused' = refused \cup {u} /\ UNCHANGED left

\* Mutant: an account that is gone already counts as a failure.
GoneKept(u) ==
    IF Live(left[u].id) THEN left' = [left EXCEPT ![u] = NoEntry] /\ UNCHANGED refused
    ELSE UNCHANGED <<left, refused>>

\* MAS has deleted the account, or has no such account, which is as good.
Removed(u) == left' = [left EXCEPT ![u] = NoEntry] /\ UNCHANGED refused

MasDeletes(u) ==
    IF Live(left[u].id) THEN acct' = [acct EXCEPT ![left[u].id] = Gone]
    ELSE UNCHANGED acct

DeleteEntry(u) ==
    /\ Deleting(u) /\ left[u].id # NoId
    /\ MasDeletes(u)
    /\ Removed(u)
    /\ doomed' = doomed \ {u}
    /\ UNCHANGED <<diskVars, bridgeVars, cpc, cleanups, faults, crashes, overlapped>>

\* An entry without an id asks MAS to delete nothing in particular: it is told
\* that there is no such thing, or that this is not allowed.
DeleteNoId(u) ==
    /\ Deleting(u) /\ left[u].id = NoId
    /\ Removed(u) \/ Kept(u)
    /\ doomed' = doomed \ {u}
    /\ UNCHANGED <<acct, diskVars, bridgeVars, cpc, cleanups, faults, crashes, overlapped>>

DeleteFails(u) ==
    /\ Deleting(u) /\ left[u].id # NoId
    /\ Fault("reject")
    /\ Kept(u)
    /\ doomed' = doomed \ {u}
    /\ UNCHANGED <<acct, diskVars, bridgeVars, cpc, cleanups, overlapped>>

\* The map is written back whole, deleted entries or not.
WriteBack ==
    /\ cpc = "delete" /\ doomed = {}
    /\ WriteTemp
    /\ cpc' = "rename"
    /\ UNCHANGED <<acct, bridgeVars, left, doomed, refused, cleanups, faults, crashes,
                   overlapped>>

WrittenBack ==
    /\ cpc = "rename"
    /\ Rename(left)
    /\ cpc' = "done"
    /\ UNCHANGED <<acct, bridgeVars, left, doomed, refused, cleanups, faults, crashes,
                   overlapped>>

\* It printed what it did and is gone.
CleanupOff ==
    /\ cpc' = "off" /\ left' = NoMap /\ doomed' = {} /\ refused' = {}
    /\ UNCHANGED cleanups

CleanupEnds ==
    /\ cpc = "done" /\ CleanupOff
    /\ UNCHANGED <<acct, diskVars, bridgeVars, faults, crashes, overlapped>>

WriteBackFails ==
    /\ cpc = "rename" /\ Fault("disk")
    /\ RemoveTemp /\ CleanupOff
    /\ UNCHANGED <<acct, file, bridgeVars, overlapped>>

CleanupDies ==
    /\ cpc \in {"delete", "rename"} /\ Fault("crash")
    /\ litter' = litter + (IF cpc = "rename" THEN 1 ELSE 0)
    /\ CleanupOff
    /\ UNCHANGED <<acct, file, bridgeVars, overlapped>>

-----------------------------------------------------------------------------
Bridge ==
    \/ Start \/ Redeploy \/ BackfillEnds \/ Save \/ Saved \/ SaveFails \/ BridgeDies
    \/ \E u \in Users :
          PollCreate(u) \/ PollUpdate(u) \/ Backfill(u) \/ BackfillByName(u) \/ BackfillSkips(u)

Cleanup ==
    \/ Load \/ WriteBack \/ WrittenBack \/ CleanupEnds \/ WriteBackFails \/ CleanupDies
    \/ \E u \in Users : DeleteEntry(u) \/ DeleteNoId(u) \/ DeleteFails(u)

Next == Bridge \/ Cleanup

Spec == Init /\ [][Next]_vars

-----------------------------------------------------------------------------
(* Properties. *)

TypeOK ==
    /\ acct \in [Ids -> Account \cup {Unissued, Gone}]
    /\ file \in Map \cup {Torn} /\ litter \in 0..MaxFaults
    /\ bpc \in {"down", "run", "save", "rename"} /\ mode \in {"poll", "backfill"}
    /\ mem \in Map /\ todo \subseteq Users
    /\ cur \in Users \cup {NoUser} /\ pend \in Entry \cup {NoEntry} /\ strict \in BOOLEAN
    /\ cpc \in {"off", "delete", "rename", "done"} /\ left \in Map
    /\ doomed \subseteq Users /\ refused \subseteq Users
    /\ cleanups \in 0..MaxCleanups /\ faults \in 0..MaxFaults /\ crashes \in 0..faults
    /\ overlapped \in BOOLEAN

\* Wherever a process is killed, of both that write it at once too, the file is
\* one the next process can load.
FileLoads == file # Torn

Names(m, u, i) == m # Torn /\ m[u] # NoEntry /\ m[u].id = i

\* The file forgets which account a user has only when the cleanup deleted that
\* account, or a backfill looked for it and did not find exactly this one; if
\* only one process at a time has the file.
CorrelationKept ==
    [][\A u \in Users, i \in Ids :
          Names(file, u, i) /\ ~Names(file', u, i) /\ ~overlapped =>
             \/ acct[i] = Gone
             \/ mode = "backfill" /\ ByExt(u) # {i}]_vars

\* The cleanup deletes no account that an entry in order or a tombstone stands
\* for, as long as it has the file to itself.
DeletesErrorsOnly ==
    [][\A i \in Ids : Live(i) /\ acct'[i] = Gone /\ ~overlapped =>
          \E u \in Users : Names(file, u, i) /\ file[u].status = "error"]_vars

\* A cleanup that ends well leaves an entry in error only where MAS refused: also
\* when an earlier one had deleted the account and failed to write the file.
CleanupComplete == cpc = "done" /\ ~overlapped => InError(file) \subseteq refused

\* Temporary files are left behind by killed processes only, one each.
LitterOnlyByCrash == litter <= crashes

\* Whoever dies and whatever fails, the directory of the file is in order.
FileIsSound == TypeOK /\ FileLoads /\ LitterOnlyByCrash
=============================================================================
