-------------------------- MODULE ScimBridge_proofs --------------------------
(***************************************************************************)
(* Proofs about the poll cycle, for every value of the constants.  The     *)
(* inductive invariant has two layers: ProcInv speaks of the process and   *)
(* its state file alone, MasInv adds the MAS accounts.  Each action of the *)
(* executor ends in Exit, Skip, Goto or Record, so the layers are proved   *)
(* for these four shapes first and the actions are instances of them.  The *)
(* next part is the refinement: ScimBridge implements UserSync.  The last  *)
(* one has a third layer, SyncInv, for what holds in a good world only.    *)
(***************************************************************************)
EXTENDS ScimBridgeSync, TLAPS

-----------------------------------------------------------------------------
(* The operators on entries. *)

LEMMA OkEntryType ==
    ASSUME NEW i \in MasIds \cup {NoId, DryRunId}, NEW p \in Profiles,
           NEW s \in Snapshot \cup {NoSnap}
    PROVE  /\ OkEntry(i, p, s) \in Entry
           /\ OkEntry(i, p, s).id = i
           /\ OkEntry(i, p, s).profile = p
           /\ OkEntry(i, p, s).status = "ok"
BY DEF OkEntry, Entry

LEMMA FailedCreateType ==
    ASSUME NEW p \in Profiles
    PROVE  /\ FailedCreate(p) \in Entry
           /\ FailedCreate(p).status = "error"
BY DEF FailedCreate, Entry

\* The three outcomes that start from an entry keep its id and its profile.
LEMMA OutcomeType ==
    ASSUME NEW e \in Entry
    PROVE  /\ FailedUpdate(e) \in Entry
           /\ FailedUpdate(e).id = e.id
           /\ FailedUpdate(e).profile = e.profile
           /\ FailedUpdate(e).status = "error"
           /\ Mismatched(e) \in Entry
           /\ Mismatched(e).id = e.id
           /\ Mismatched(e).profile = e.profile
           /\ Mismatched(e).status = "error"
           /\ Tombstone(e) \in Entry
           /\ Tombstone(e).id = e.id
           /\ Tombstone(e).profile = e.profile
           /\ Tombstone(e).status = "deactivated"
<1>1. DeactivatedSnapshot(e.snap) \in Snapshot \cup {NoSnap}
  BY DEF DeactivatedSnapshot, Entry, Snapshot
<1> QED
  BY <1>1 DEF FailedUpdate, Mismatched, Tombstone, Entry

LEMMA DesiredType ==
    ASSUME NEW k \in KcUser
    PROVE  Desired(k) \in Snapshot
BY DEF Desired, KcUser, Snapshot

-----------------------------------------------------------------------------
(* The invariant of the process: where the cycle stands decides what its   *)
(* list of users may hold, and memory never loses what the file knows.     *)

\* Plan has let the user through: a create, or an update of an entry in order.
CanSync(u) ==
    /\ scope[u] \in KcUser
    /\ scope[u].profile \in Profiles
    /\ mem[u] # NoEntry => mem[u].status # "error" /\ mem[u].profile = scope[u].profile

\* PlanRemovals has let the user through.
CanRemove(u) ==
    /\ GroupMode
    /\ scope[u] = NoUser
    /\ mem[u] # NoEntry /\ mem[u].id # NoId

AllSync   == \A u \in todo : CanSync(u)
AllRemove == \A u \in todo : CanRemove(u)

Searching == {"byExt", "byName", "byNameAgain"}
Saving    == {"save", "note"}

\* The outcome e does not replace the correlation of the entry o.
Continues(e, o) == o # NoEntry => e.id = o.id /\ e.profile = o.profile

Control ==
    /\ pc \in {"down", "idle", "resolve", "plan"} => todo = {}
    /\ pc \in {"sync", "put"} \cup Searching => AllSync
    /\ pc = "remove" => AllRemove
    /\ pc \in {"put"} \cup Searching \cup Saving => cur \in todo
    /\ pc \in Searching => mem[cur] = NoEntry
    /\ pc = "put" => mem[cur] # NoEntry /\ Writes
    /\ pc \in Saving => /\ AllSync \/ AllRemove
                        /\ pend \in Entry
                        /\ Continues(pend, mem[cur])
    /\ pc = "note" => pend.status = "error"
    /\ pc \notin Saving => pend = NoEntry

\* Memory knows every correlation of the state file.
MemoryKeepsFile ==
    \A u \in Users : file[u] # NoEntry /\ file[u].id # NoId =>
        mem[u] # NoEntry /\ Continues(mem[u], file[u])

ProcInv ==
    /\ ProcTypeOK
    /\ Control
    /\ MemoryKeepsFile
    /\ TrackedHaveId
    /\ OnlyErrorsUnsaved

procState == <<file, mem, config, pc, refreshed, scope, todo, cur, pend>>

USE DataAssumption, BridgeAssumption DEF Config, GroupMode, AllowUpdates, DryRun

-----------------------------------------------------------------------------
(* The four shapes of a step keep it. *)

LEMMA StayKeeps == ProcInv /\ UNCHANGED procState => ProcInv'
BY DEF ProcInv, ProcTypeOK, Control, MemoryKeepsFile, TrackedHaveId, OnlyErrorsUnsaved,
       EntriesOf, Writes, AllSync, AllRemove, CanSync, CanRemove, Continues, procState

LEMMA ExitKeeps == ProcInv /\ Exit => ProcInv'
<1> SUFFICES ASSUME ProcInv, Exit PROVE ProcInv'
  OBVIOUS
<1> USE DEF ProcInv, Exit
<1>1. ProcTypeOK'
  BY DEF ProcTypeOK, NoScope, Phases
<1>2. Control'
  BY DEF Control, AllSync, AllRemove, Searching, Saving
<1>3. MemoryKeepsFile' /\ OnlyErrorsUnsaved'
  BY DEF MemoryKeepsFile, OnlyErrorsUnsaved, Continues
<1>4. TrackedHaveId'
  BY NoUser \notin Users DEF TrackedHaveId, EntriesOf
<1> QED
  BY <1>1, <1>2, <1>3, <1>4

\* The loop a user of the list belongs to.
LEMMA LoopOf ==
    ASSUME NEW u \in todo, AllSync \/ AllRemove
    PROVE  \/ AllSync /\ Loop(u) = "sync"
           \/ AllRemove /\ Loop(u) = "remove"
BY DEF AllSync, AllRemove, CanSync, CanRemove, Loop

LEMMA SkipKeeps ==
    ASSUME ProcInv, NEW u \in todo, AllSync \/ AllRemove, Skip(u)
    PROVE  ProcInv'
<1> USE DEF ProcInv, Skip, procVars
<1>1. \/ AllSync /\ pc' = "sync"
      \/ AllRemove /\ pc' = "remove"
  BY LoopOf
<1>2. ProcTypeOK'
  BY <1>1 DEF ProcTypeOK, Phases
<1>3. Control'
  BY <1>1 DEF Control, AllSync, AllRemove, CanSync, CanRemove, Searching, Saving
<1>4. MemoryKeepsFile' /\ OnlyErrorsUnsaved'
  BY DEF MemoryKeepsFile, OnlyErrorsUnsaved, Continues
<1>5. TrackedHaveId'
  BY DEF TrackedHaveId, EntriesOf
<1> QED
  BY <1>2, <1>3, <1>4, <1>5

LEMMA GotoKeeps ==
    ASSUME ProcInv, NEW u \in todo, AllSync, NEW p \in {"put"} \cup Searching, Goto(u, p),
           IF p = "put" THEN mem[u] # NoEntry /\ Writes ELSE mem[u] = NoEntry,
           pc \notin Saving
    PROVE  ProcInv'
<1> USE DEF ProcInv, Goto, procVars
<1>1. ProcTypeOK'
  BY DEF ProcTypeOK, Phases, Searching
<1>2. Control'
  BY DEF Control, AllSync, AllRemove, CanSync, CanRemove, Searching, Saving, Writes
<1>3. MemoryKeepsFile' /\ OnlyErrorsUnsaved'
  BY DEF MemoryKeepsFile, OnlyErrorsUnsaved, Continues
<1>4. TrackedHaveId'
  BY DEF TrackedHaveId, EntriesOf, Control
<1> QED
  BY <1>1, <1>2, <1>3, <1>4

LEMMA RecordKeeps ==
    ASSUME ProcInv, NEW u \in todo, AllSync \/ AllRemove,
           NEW e \in Entry, Continues(e, mem[u]),
           e.status # "error" => e.id # NoId,
           NEW p \in Saving, p = "note" => e.status = "error",
           Record(u, e, p)
    PROVE  ProcInv'
<1> USE DEF ProcInv, Record, procVars
<1>1. ProcTypeOK'
  BY DEF ProcTypeOK, Phases, Saving
<1>2. Control'
  BY DEF Control, AllSync, AllRemove, CanSync, CanRemove, Searching, Saving, Continues
<1>3. MemoryKeepsFile' /\ OnlyErrorsUnsaved'
  BY DEF MemoryKeepsFile, OnlyErrorsUnsaved, Continues
<1>4. TrackedHaveId'
  BY DEF TrackedHaveId, EntriesOf
<1> QED
  BY <1>1, <1>2, <1>3, <1>4

\* The entry of the user in progress enters the memory; the file follows, or
\* the entry is an error.
LEMMA StoreKeeps ==
    ASSUME ProcInv, pc \in Saving,
           mem' = [mem EXCEPT ![cur] = pend],
           file' = mem' \/ (file' = file /\ pc = "note"),
           pc' = Loop(cur), todo' = todo \ {cur}, cur' = NoUser, pend' = NoEntry,
           UNCHANGED procVars
    PROVE  ProcInv'
<1> USE DEF ProcInv, procVars
<1>1. /\ cur \in todo /\ cur \in Users /\ pend \in Entry
      /\ AllSync \/ AllRemove
      /\ pc = "note" => pend.status = "error"
      /\ Continues(pend, mem[cur])
  BY DEF Control, ProcTypeOK
<1>2. \/ AllSync /\ pc' = "sync"
      \/ AllRemove /\ pc' = "remove"
  BY <1>1, LoopOf
<1>3. mem' \in [Users -> Entry \cup {NoEntry}] /\ mem'[cur] = pend
      /\ \A v \in Users \ {cur} : mem'[v] = mem[v]
  BY <1>1 DEF ProcTypeOK
<1>4. ProcTypeOK'
  BY <1>2, <1>3 DEF ProcTypeOK, Phases
<1>5. Control'
  BY <1>2, <1>3 DEF Control, AllSync, AllRemove, CanSync, CanRemove, Searching, Saving, ProcTypeOK
<1>6. MemoryKeepsFile'
  BY <1>1, <1>3 DEF MemoryKeepsFile, Continues
<1>7. OnlyErrorsUnsaved'
  BY <1>1, <1>3 DEF OnlyErrorsUnsaved
<1>8. TrackedHaveId'
  <2> SUFFICES ASSUME NEW v \in Users, NEW e \in EntriesOf(v)'
               PROVE  e.status # "error" => e.id # NoId
    BY DEF TrackedHaveId
  <2>1. (e = pend /\ v = cur) \/ (e \in {mem[v], file[v]} /\ e # NoEntry)
    BY <1>1, <1>3 DEF EntriesOf
  <2>2. e \in EntriesOf(v)
    BY <1>1, <2>1 DEF EntriesOf
  <2> QED
    BY <2>2 DEF TrackedHaveId
<1> QED
  BY <1>4, <1>5, <1>6, <1>7, <1>8

-----------------------------------------------------------------------------
(* The initial states and the steps of the cycle. *)

LEMMA ProcInit == Init => ProcInv
<1> SUFFICES ASSUME Init PROVE ProcInv
  OBVIOUS
<1>1. ProcTypeOK
  BY DEF Init, ProcTypeOK, NoScope, Phases
<1>2. Control
  BY DEF Init, Control, AllSync, AllRemove, Searching, Saving
<1>3. MemoryKeepsFile /\ OnlyErrorsUnsaved
  BY DEF Init, MemoryKeepsFile, OnlyErrorsUnsaved, Continues
<1>4. TrackedHaveId
  BY InitialAssumption DEF Init, TrackedHaveId, EntriesOf
<1> QED
  BY <1>1, <1>2, <1>3, <1>4 DEF ProcInv

LEMMA StartKeeps == ProcInv /\ Start => ProcInv'
<1> SUFFICES ASSUME ProcInv, Start PROVE ProcInv'
  OBVIOUS
<1> USE DEF ProcInv, Start
<1>1. ProcTypeOK' /\ Control'
  BY DEF ProcTypeOK, Control, Phases, AllSync, AllRemove, Searching, Saving
<1>2. MemoryKeepsFile' /\ OnlyErrorsUnsaved'
  BY DEF MemoryKeepsFile, OnlyErrorsUnsaved, Continues
<1>3. TrackedHaveId'
  BY DEF TrackedHaveId, EntriesOf
<1> QED
  BY <1>1, <1>2, <1>3

\* A step that moves only the program counter, the flag of the retry and the
\* scope, between the phases without a list of users.
LEMMA AdvanceKeeps ==
    ASSUME ProcInv, pc \in {"idle", "resolve"}, pc' \in {"resolve", "plan"},
           refreshed' \in BOOLEAN, scope' \in [Users -> KcUser \cup {NoUser}],
           UNCHANGED <<file, mem, config, todo, cur, pend>>
    PROVE  ProcInv'
<1> USE DEF ProcInv
<1>1. ProcTypeOK' /\ Control'
  BY DEF ProcTypeOK, Control, Phases, AllSync, AllRemove, Searching, Saving
<1>2. MemoryKeepsFile' /\ OnlyErrorsUnsaved'
  BY DEF MemoryKeepsFile, OnlyErrorsUnsaved, Continues
<1>3. TrackedHaveId'
  BY DEF TrackedHaveId, EntriesOf
<1> QED
  BY <1>1, <1>2, <1>3

LEMMA ResolveKeeps == ProcInv /\ kc \in [Users -> KcUser] /\ Resolve => ProcInv'
<1> SUFFICES ASSUME ProcInv, kc \in [Users -> KcUser], Resolve PROVE ProcInv'
  OBVIOUS
<1>1. scope' \in [Users -> KcUser \cup {NoUser}]
  BY DEF Resolve
<1> QED
  BY <1>1, AdvanceKeeps DEF Resolve, ProcInv, ProcTypeOK

LEMMA TickKeeps == ProcInv /\ Tick => ProcInv'
BY AdvanceKeeps DEF Tick, ProcInv, ProcTypeOK

\* Plan writes errors only, and lets through what the executor may act on.
LEMMA PlanKeeps ==
    ASSUME ProcInv, NEW W \in SUBSET Mismatches, PlanWith(W)
    PROVE  ProcInv'
<1> USE DEF ProcInv
<1>1. /\ Mismatches \subseteq Users /\ Planned \subseteq Users
      /\ \A u \in Mismatches : mem[u] \in Entry
      /\ \A u \in Planned : /\ u \notin Mismatches
                            /\ scope[u] \in KcUser
                            /\ scope[u].profile \in Profiles
                            /\ mem[u] # NoEntry => /\ mem[u].status # "error"
                                                   /\ mem[u].profile = scope[u].profile
  BY DEF Mismatches, Mapped, Planned, ProcTypeOK, KcUser
<1>2. /\ mem' \in [Users -> Entry \cup {NoEntry}]
      /\ \A u \in Mismatches : /\ mem'[u] \in Entry
                               /\ mem'[u].id = mem[u].id
                               /\ mem'[u].profile = mem[u].profile
                               /\ mem'[u].status = "error"
      /\ \A u \in Users \ Mismatches : mem'[u] = mem[u]
  BY <1>1, OutcomeType DEF PlanWith, ProcTypeOK
<1>3. \A u \in Users : file'[u] \in {file[u], mem[u], mem'[u]}
  BY DEF PlanWith
<1>4. \A u \in Users \ Mismatches : file'[u] \in {file[u], mem'[u]}
  BY <1>2, <1>3
<1>5. ProcTypeOK'
  <2>1. file' \in [Users -> Entry \cup {NoEntry}]
    BY <1>2 DEF PlanWith, ProcTypeOK
  <2> QED
    BY <1>1, <1>2, <2>1 DEF PlanWith, ProcTypeOK, Phases, procVars
<1>6. Control'
  BY <1>1, <1>2 DEF PlanWith, Control, AllSync, AllRemove, CanSync, Searching, Saving, procVars
<1>7. MemoryKeepsFile'
  BY <1>2, <1>3 DEF MemoryKeepsFile, Continues
<1>8. OnlyErrorsUnsaved'
  BY <1>2, <1>4 DEF OnlyErrorsUnsaved
<1>9. TrackedHaveId'
  <2> SUFFICES ASSUME NEW v \in Users, NEW e \in EntriesOf(v)'
               PROVE  e.status # "error" => e.id # NoId
    BY DEF TrackedHaveId
  <2>1. e \in EntriesOf(v) \/ (v \in Mismatches /\ e = mem'[v])
    BY <1>2, <1>3 DEF EntriesOf, PlanWith
  <2> QED
    BY <1>2, <2>1 DEF TrackedHaveId
<1> QED
  BY <1>5, <1>6, <1>7, <1>8, <1>9

LEMMA DoneKeeps == ProcInv /\ (SyncDone \/ RemovalsDone) => ProcInv'
<1> SUFFICES ASSUME ProcInv, SyncDone \/ RemovalsDone PROVE ProcInv'
  OBVIOUS
<1> USE DEF ProcInv, SyncDone, RemovalsDone, procVars
<1>1. ProcTypeOK'
  BY DEF ProcTypeOK, Phases, PlanRemovals
<1>2. Control'
  BY DEF Control, AllSync, AllRemove, CanSync, CanRemove, PlanRemovals, Searching, Saving
<1>3. MemoryKeepsFile' /\ OnlyErrorsUnsaved'
  BY DEF MemoryKeepsFile, OnlyErrorsUnsaved, Continues
<1>4. TrackedHaveId'
  BY DEF TrackedHaveId, EntriesOf
<1> QED
  BY <1>1, <1>2, <1>3, <1>4

LEMMA SaveKeeps == ProcInv /\ (Save \/ SaveFails) => ProcInv'
BY StoreKeeps, ExitKeeps DEF Save, SaveFails, Saving

LEMMA UnauthorizedKeeps == ProcInv /\ Unauthorized => ProcInv'
<1> SUFFICES ASSUME ProcInv, Unauthorized PROVE ProcInv'
  OBVIOUS
<1>1. CASE Exit
  BY <1>1, ExitKeeps
<1>2. CASE ~Exit
  <2> USE DEF ProcInv
  <2>1. /\ pc' = "resolve" /\ refreshed' = TRUE /\ scope' = NoScope /\ todo' = {}
        /\ cur' = NoUser /\ pend' = NoEntry
        /\ UNCHANGED <<file, mem, config>>
    BY <1>2 DEF Unauthorized
  <2>2. ProcTypeOK' /\ Control'
    BY <2>1 DEF ProcTypeOK, Control, NoScope, Phases, AllSync, AllRemove, Searching, Saving
  <2>3. MemoryKeepsFile' /\ OnlyErrorsUnsaved'
    BY <2>1 DEF MemoryKeepsFile, OnlyErrorsUnsaved, Continues
  <2>4. TrackedHaveId'
    BY <2>1 DEF TrackedHaveId, EntriesOf
  <2> QED
    BY <2>2, <2>3, <2>4
<1> QED
  BY <1>1, <1>2

-----------------------------------------------------------------------------
(* The steps of the executor. *)

\* Control says what the action in progress may rely on.
LEMMA SyncingFacts ==
    ASSUME ProcInv, NEW u, Syncing(u)
    PROVE  /\ u \in todo /\ u \in Users /\ AllSync /\ CanSync(u)
           /\ pc \notin Saving
           /\ mem[u] \in Entry \cup {NoEntry}
BY DEF ProcInv, ProcTypeOK, Control, Syncing, AllSync, Saving

LEMMA CallingFacts ==
    ASSUME ProcInv, NEW u, NEW p \in {"put"} \cup Searching, Calling(u, p)
    PROVE  /\ u \in todo /\ u \in Users /\ AllSync /\ CanSync(u)
           /\ pc \notin Saving
           /\ mem[u] \in Entry \cup {NoEntry}
           /\ IF p = "put" THEN mem[u] # NoEntry /\ Writes ELSE mem[u] = NoEntry
BY DEF ProcInv, ProcTypeOK, Control, Calling, AllSync, Searching, Saving

LEMMA RemovingFacts ==
    ASSUME ProcInv, NEW u, Removing(u)
    PROVE  /\ u \in todo /\ u \in Users /\ AllRemove
           /\ mem[u] \in Entry /\ mem[u].id # NoId
BY DEF ProcInv, ProcTypeOK, Control, Removing, AllRemove, CanRemove

\* An entry written after a call that succeeded, for a user let through.
LEMMA CreatedFacts ==
    ASSUME NEW u, CanSync(u), NEW i \in MasIds \cup {DryRunId}
    PROVE  /\ Created(u, i) \in Entry
           /\ Created(u, i).id = i /\ i # NoId
           /\ Created(u, i).profile = scope[u].profile
           /\ Created(u, i).status = "ok"
BY OkEntryType, DesiredType DEF Created, CanSync, MasIds, NoId, DryRunId

LEMMA CreateKeeps == ASSUME ProcInv, NEW u \in Users, Create(u) PROVE ProcInv'
<1>1. CASE Creating(u)
  <2>1. /\ u \in todo /\ AllSync /\ CanSync(u) /\ pc \notin Saving /\ mem[u] = NoEntry
    BY <1>1, SyncingFacts DEF Creating
  <2>2. CASE CreateDryRun(u)
    BY <2>1, <2>2, CreatedFacts, RecordKeeps DEF CreateDryRun, Continues, Saving
  <2>3. CASE CreateAccepted(u)
    <3>1. PICK i \in MasIds : Record(u, Created(u, i), "save")
      BY <2>3 DEF CreateAccepted
    <3> QED
      BY <2>1, <3>1, CreatedFacts, RecordKeeps DEF Continues, Saving
  <2>4. CASE CreateConflict(u) \/ CreateRetried(u)
    BY <2>1, <2>4, GotoKeeps DEF CreateConflict, CreateRetried, Searching
  <2>5. CASE CreateRejected(u) \/ CreateReplyLost(u)
    <3>1. scope[u].profile \in Profiles /\ Record(u, FailedCreate(scope[u].profile), "note")
      BY <2>1, <2>5 DEF CreateRejected, CreateReplyLost, CanSync
    <3> QED
      BY <2>1, <3>1, FailedCreateType, RecordKeeps DEF Continues, Saving
  <2>6. CASE CreateUndecodable(u)
    BY <2>6, ExitKeeps DEF CreateUndecodable
  <2> QED
    BY <2>2, <2>3, <2>4, <2>5, <2>6 DEF Create
<1> QED
  BY <1>1 DEF Create, CreateDryRun, CreateAccepted, CreateConflict, CreateRetried,
     CreateRejected, CreateReplyLost, CreateUndecodable, Posting

LEMMA SettleKeeps ==
    ASSUME ProcInv, NEW u \in todo, AllSync, CanSync(u), mem[u] = NoEntry,
           NEW matches \in SUBSET MasIds, Settle(u, matches)
    PROVE  ProcInv'
<1>1. CASE \E i \in matches : Record(u, Created(u, i), "save")
  <2>1. PICK i \in matches : Record(u, Created(u, i), "save")
    BY <1>1
  <2> QED
    BY <2>1, CreatedFacts, RecordKeeps DEF Continues, Saving
<1>2. CASE Record(u, FailedCreate(scope[u].profile), "note")
  BY <1>2, FailedCreateType, RecordKeeps DEF Continues, Saving, CanSync
<1> QED
  BY <1>1, <1>2 DEF Settle

LEMMA HandleConflictKeeps ==
    ASSUME ProcInv, NEW u \in Users, HandleConflict(u) PROVE ProcInv'
<1>1. PICK p \in Searching : Calling(u, p)
  BY DEF HandleConflict, SearchByExt, SearchByExtFails, SearchByName,
     SearchByNameFails, SearchByNameAgain, Searching
<1>2. u \in todo /\ AllSync /\ CanSync(u) /\ pc \notin Saving /\ mem[u] = NoEntry
  BY <1>1, CallingFacts DEF Searching
<1>3. MatchExt(u) \in SUBSET MasIds /\ MatchName(u) \in SUBSET MasIds /\ {} \in SUBSET MasIds
  BY DEF MatchExt, MatchName
<1>4. CASE \E q \in Searching : Goto(u, q)
  BY <1>2, <1>4, GotoKeeps DEF Searching
<1>5. CASE \E matches \in SUBSET MasIds : Settle(u, matches)
  BY <1>2, <1>5, SettleKeeps
<1>6. CASE Skip(u)
  BY <1>2, <1>6, SkipKeeps
<1> QED
  BY <1>3, <1>4, <1>5, <1>6 DEF HandleConflict, SearchByExt, SearchByExtFails,
     SearchByName, SearchByNameFails, SearchByNameAgain, Searching

LEMMA UpdateKeeps == ASSUME ProcInv, NEW u \in Users, Update(u) PROVE ProcInv'
<1>1. CASE Updating(u) \/ Calling(u, "put")
  <2>1. /\ u \in todo /\ AllSync /\ CanSync(u) /\ pc \notin Saving
        /\ mem[u] \in Entry /\ mem[u].status # "error"
        /\ mem[u].profile = scope[u].profile
    BY <1>1, SyncingFacts, CallingFacts DEF Updating, CanSync
  <2>2. mem[u].id # NoId /\ mem[u].id \in MasIds \cup {DryRunId} /\ mem[u] # NoEntry
        /\ mem[u].snap \in Snapshot \cup {NoSnap}
    BY <2>1 DEF ProcInv, TrackedHaveId, EntriesOf, Entry
  <2>3. CASE UpdateSkipped(u)
    BY <2>1, <2>3, SkipKeeps DEF UpdateSkipped
  <2>4. CASE UpdateClearsTombstone(u)
    <3> DEFINE e == OkEntry(mem[u].id, scope[u].profile, mem[u].snap)
    <3>1. Record(u, e, "save")
      BY <2>4 DEF UpdateClearsTombstone
    <3>2. e \in Entry /\ Continues(e, mem[u]) /\ e.id # NoId /\ e.status = "ok"
      BY <2>1, <2>2, OkEntryType DEF Continues, CanSync
    <3> QED
      BY <2>1, <3>1, <3>2, RecordKeeps DEF Saving
  <2>5. CASE UpdateWithoutSnapshot(u) \/ PatchMissing(u)
    BY <2>1, <2>2, <2>5, GotoKeeps DEF UpdateWithoutSnapshot, PatchMissing, Patching
  <2>6. CASE PatchApplied(u) \/ PutApplied(u)
    <3>1. Record(u, Created(u, mem[u].id), "save")
      BY <2>6 DEF PatchApplied, PutApplied
    <3>2. /\ Created(u, mem[u].id) \in Entry
          /\ Continues(Created(u, mem[u].id), mem[u])
          /\ Created(u, mem[u].id).id # NoId
          /\ Created(u, mem[u].id).status = "ok"
      BY <2>1, <2>2, CreatedFacts DEF Continues
    <3> QED
      BY <2>1, <3>1, <3>2, RecordKeeps DEF Saving
  <2>7. CASE PatchFails(u) \/ PutFails(u)
    <3>1. Record(u, FailedUpdate(mem[u]), "save")
      BY <2>7 DEF PatchFails, PutFails
    <3> QED
      BY <2>1, <3>1, OutcomeType, RecordKeeps DEF Continues, Saving
  <2> QED
    BY <2>3, <2>4, <2>5, <2>6, <2>7 DEF Update
<1> QED
  BY <1>1 DEF Update, UpdateSkipped, UpdateClearsTombstone, UpdateWithoutSnapshot,
     PatchApplied, PatchMissing, PatchFails, PutApplied, PutFails, Patching

LEMMA DeactivateKeeps == ASSUME ProcInv, NEW u \in Users, Deactivate(u) PROVE ProcInv'
<1>1. Removing(u)
  BY DEF Deactivate, DeactivateSkipped, DeactivateDryRun, DeactivateApplied,
     DeactivateFails, Deactivating
<1>2. u \in todo /\ AllRemove /\ mem[u] \in Entry /\ mem[u].id # NoId
  BY <1>1, RemovingFacts
<1>3. CASE Skip(u)
  BY <1>2, <1>3, SkipKeeps
<1>4. CASE Record(u, Tombstone(mem[u]), "save")
  BY <1>2, <1>4, OutcomeType, RecordKeeps DEF Continues, Saving
<1>5. CASE Record(u, FailedUpdate(mem[u]), "save")
  BY <1>2, <1>5, OutcomeType, RecordKeeps DEF Continues, Saving
<1> QED
  BY <1>3, <1>4, <1>5 DEF Deactivate, DeactivateSkipped, DeactivateDryRun,
     DeactivateApplied, DeactivateFails

-----------------------------------------------------------------------------
(* The types of the environment. *)

LEMMA NewAccountType ==
    ASSUME NEW u \in Users, NEW d \in Snapshot
    PROVE  NewAccount(u, d) \in Account
BY DEF NewAccount, Account, Snapshot

LEMMA PatchedType ==
    ASSUME NEW a \in Account, NEW ops, NEW d \in Snapshot
    PROVE  /\ Patched(a, ops, d) \in Account
           /\ Patched(a, ops, d).name = a.name
           /\ Patched(a, ops, d).ext = a.ext
BY DEF Patched, Account, Snapshot

LEMMA FaultType == ASSUME faults \in 0..MaxFaults, NEW k, Fault(k) PROVE faults' \in 0..MaxFaults
BY DEF Fault

\* What one step may do to the MAS accounts: nothing, issue an id to a scoped
\* user, patch an account, put a document, deactivate, or delete.
MasChange(u) ==
    \/ UNCHANGED mas
    \/ CanSync(u) /\ \E i \in MasIds : Issues(u, i)
    \/ CanSync(u) /\ mem[u] \in Entry /\ (MasPatch(u) \/ MasPut(u))
    \/ mem[u] \in Entry /\ MasDeactivate(u)

LEMMA ExecuteChangesMas ==
    ASSUME ProcInv, NEW u \in Users, Execute(u)
    PROVE  MasChange(u)
<1>1. CASE Create(u)
  <2>1. CASE Creating(u)
    BY <1>1, <2>1, SyncingFacts DEF Create, CreateDryRun, CreateAccepted, CreateConflict,
       CreateRetried, CreateRejected, CreateReplyLost, CreateUndecodable, Creating, MasChange
  <2> QED
    BY <1>1, <2>1 DEF Create, CreateDryRun, CreateAccepted, CreateConflict,
       CreateRetried, CreateRejected, CreateReplyLost, CreateUndecodable, Posting
<1>2. CASE HandleConflict(u)
  BY <1>2 DEF HandleConflict, SearchByExt, SearchByExtFails, SearchByName,
     SearchByNameFails, SearchByNameAgain, MasChange
<1>3. CASE Update(u)
  <2>1. CASE Updating(u) \/ Calling(u, "put")
    <3>1. CanSync(u) /\ mem[u] \in Entry
      BY <2>1, SyncingFacts, CallingFacts DEF Updating
    <3> QED
      BY <1>3, <3>1 DEF Update, UpdateSkipped, UpdateClearsTombstone, UpdateWithoutSnapshot,
         PatchApplied, PatchMissing, PatchFails, PutApplied, PutFails, MasChange
  <2> QED
    BY <1>3, <2>1 DEF Update, UpdateSkipped, UpdateClearsTombstone, UpdateWithoutSnapshot,
       PatchApplied, PatchMissing, PatchFails, PutApplied, PutFails, Patching
<1>4. CASE Deactivate(u)
  <2>1. Removing(u)
    BY <1>4 DEF Deactivate, DeactivateSkipped, DeactivateDryRun, DeactivateApplied,
       DeactivateFails, Deactivating
  <2>2. mem[u] \in Entry
    BY <2>1, RemovingFacts
  <2> QED
    BY <1>4, <2>2 DEF Deactivate, DeactivateSkipped, DeactivateDryRun, DeactivateApplied,
       DeactivateFails, MasChange
<1> QED
  BY <1>1, <1>2, <1>3, <1>4 DEF Execute

LEMMA ChangeType ==
    ASSUME mas \in [MasIds -> Account \cup {Unissued, Gone}], NEW u \in Users, MasChange(u)
    PROVE  mas' \in [MasIds -> Account \cup {Unissued, Gone}]
<1>1. CanSync(u) => Desired(scope[u]) \in Snapshot
  BY DesiredType DEF CanSync
<1>2. CASE UNCHANGED mas
  BY <1>2
<1>3. CASE CanSync(u) /\ \E i \in MasIds : Issues(u, i)
  BY <1>1, <1>3, NewAccountType DEF Issues
<1>4. CASE CanSync(u) /\ MasPut(u)
  BY <1>1, <1>4, NewAccountType DEF MasPut, Wanted
<1>5. CASE CanSync(u) /\ MasPatch(u)
  <2>1. mas[mem[u].id] \in Account
    BY <1>5 DEF MasPatch, Live
  <2> QED
    BY <1>1, <1>5, <2>1, PatchedType DEF MasPatch, Wanted
<1>6. CASE MasDeactivate(u)
  <2>1. mas[mem[u].id] \in Account
    BY <1>6 DEF MasDeactivate, Live
  <2>2. [mas[mem[u].id] EXCEPT !.active = FALSE] \in Account
    BY <2>1 DEF Account
  <2> QED
    BY <1>6, <2>2 DEF MasDeactivate
<1> QED
  BY <1>2, <1>3, <1>4, <1>5, <1>6 DEF MasChange

\* The steps of the cycle and of the crash leave Keycloak and MAS alone.
LEMMA CycleFrame == Cycle \/ Crash \/ ExpireToken => UNCHANGED <<kc, edits, mas>>
BY DEF Cycle, Start, Tick, Resolve, ResolveFails, Plan, PlanUnsaved, PlanWith, SyncDone,
   RemovalsDone, Save, SaveFails, Unauthorized, Crash, ExpireToken, envVars

LEMMA ExecuteFrame ==
    ASSUME NEW u, Execute(u)
    PROVE  /\ UNCHANGED <<kc, edits, tokenOK>>
           /\ UNCHANGED faults \/ \E k \in AllFaults : Fault(k)
<1>1. CASE Create(u)
  BY <1>1 DEF Create, CreateDryRun, CreateAccepted, CreateConflict, CreateRetried,
     CreateRejected, CreateReplyLost, CreateUndecodable, envVars, AllFaults
<1>2. CASE HandleConflict(u)
  BY <1>2 DEF HandleConflict, SearchByExt, SearchByExtFails, SearchByName,
     SearchByNameFails, SearchByNameAgain, envVars, AllFaults, NoFault
<1>3. CASE Update(u)
  BY <1>3 DEF Update, UpdateSkipped, UpdateClearsTombstone, UpdateWithoutSnapshot,
     PatchApplied, PatchMissing, PatchFails, PutApplied, PutFails, envVars, AllFaults, NoFault
<1>4. CASE Deactivate(u)
  BY <1>4 DEF Deactivate, DeactivateSkipped, DeactivateDryRun, DeactivateApplied,
     DeactivateFails, envVars, AllFaults
<1> QED
  BY <1>1, <1>2, <1>3, <1>4 DEF Execute

\* An edit changes the realm or deletes an account; the process is not touched.
LEMMA EditFrame ==
    ASSUME EnvTypeOK,
           \/ \E u \in Users : MoveUser(u) \/ EditUser(u)
           \/ \E i \in MasIds : DeleteAccount(i)
    PROVE  /\ EnvTypeOK'
           /\ UNCHANGED procState
           /\ UNCHANGED <<tokenOK, faults>>
           /\ UNCHANGED mas \/ \E i \in MasIds : Live(i) /\ mas' = [mas EXCEPT ![i] = Gone]
<1> USE DEF EnvTypeOK, Edit, procState
<1>1. CASE \E u \in Users : MoveUser(u)
  <2>1. PICK u \in Users : MoveUser(u)
    BY <1>1
  <2>2. \A p \in Places : [kc[u] EXCEPT !.where = p] \in KcUser
    BY DEF KcUser
  <2>3. kc' \in [Users -> KcUser]
    BY <2>1, <2>2 DEF MoveUser, Places
  <2> QED
    BY <2>1, <2>3 DEF MoveUser
<1>2. CASE \E u \in Users : EditUser(u)
  <2>1. PICK u \in Users : EditUser(u)
    BY <1>2
  <2>2. /\ \A b \in BOOLEAN : [kc[u] EXCEPT !.enabled = b] \in KcUser
        /\ \A v \in Vals : [kc[u] EXCEPT !.val = v] \in KcUser
        /\ \A p \in Profiles \cup {Unmapped} : [kc[u] EXCEPT !.profile = p] \in KcUser
    BY DEF KcUser
  <2>3. (~kc[u].enabled) \in BOOLEAN
    OBVIOUS
  <2>4. [kc[u] EXCEPT !.enabled = ~kc[u].enabled] \in KcUser
    BY <2>2, <2>3, Zenon
  <2>5. kc' \in [Users -> KcUser]
    BY <2>1, <2>2, <2>4 DEF EditUser
  <2> QED
    BY <2>1, <2>5 DEF EditUser
<1>3. CASE \E i \in MasIds : DeleteAccount(i)
  <2>1. PICK i \in MasIds : DeleteAccount(i)
    BY <1>3
  <2>2. Live(i) /\ mas' = [mas EXCEPT ![i] = Gone] /\ UNCHANGED kc
    BY <2>1 DEF DeleteAccount
  <2>3. edits' \in 0..MaxEdits /\ UNCHANGED procState /\ UNCHANGED <<tokenOK, faults>>
    BY <2>1 DEF DeleteAccount
  <2> QED
    BY <2>2, <2>3
<1> QED
  BY <1>1, <1>2, <1>3

LEMMA EnvKeeps == TypeOK /\ ProcInv /\ [Next]_vars => EnvTypeOK'
<1> SUFFICES ASSUME TypeOK, ProcInv, [Next]_vars PROVE EnvTypeOK'
  OBVIOUS
<1>1. CASE Cycle \/ Crash \/ ExpireToken
  <2>1. UNCHANGED <<kc, edits, mas>>
    BY <1>1, CycleFrame
  <2>2. UNCHANGED faults \/ \E k \in AllFaults : Fault(k)
    BY <1>1 DEF Cycle, Start, Tick, Resolve, ResolveFails, Plan, PlanUnsaved, PlanWith,
       SyncDone, RemovalsDone, Save, SaveFails, Unauthorized, Crash, ExpireToken, NoFault, AllFaults
  <2>3. tokenOK' \in BOOLEAN
    BY <1>1 DEF Cycle, Start, Tick, Resolve, ResolveFails, Plan, PlanUnsaved, PlanWith,
       SyncDone, RemovalsDone, Save, SaveFails, Unauthorized, Crash, ExpireToken, Fetched,
       TypeOK, EnvTypeOK
  <2> QED
    BY <2>1, <2>2, <2>3, FaultType DEF TypeOK, EnvTypeOK
<1>2. CASE \E u \in Users : Execute(u)
  <2>1. PICK u \in Users : Execute(u)
    BY <1>2
  <2>2. mas' \in [MasIds -> Account \cup {Unissued, Gone}]
    BY <2>1, ExecuteChangesMas, ChangeType DEF TypeOK, EnvTypeOK
  <2> QED
    BY <2>1, <2>2, ExecuteFrame, FaultType DEF TypeOK, EnvTypeOK
<1>3. CASE \E u \in Users : MoveUser(u) \/ EditUser(u)
  BY <1>3, EditFrame DEF TypeOK
<1>4. CASE \E i \in MasIds : DeleteAccount(i)
  BY <1>4, EditFrame DEF TypeOK
<1>5. CASE UNCHANGED vars
  BY <1>5 DEF vars, TypeOK, EnvTypeOK
<1> QED
  BY <1>1, <1>2, <1>3, <1>4, <1>5 DEF Next, Bridge, Environment

LEMMA ProcStep == EnvTypeOK /\ ProcInv /\ [Next]_vars => ProcInv'
<1> SUFFICES ASSUME EnvTypeOK, ProcInv, [Next]_vars PROVE ProcInv'
  OBVIOUS
<1>1. CASE Cycle
  <2>1. CASE Plan \/ PlanUnsaved
    BY <2>1, PlanKeeps DEF Plan, PlanUnsaved
  <2>2. CASE ResolveFails
    BY <2>2, ExitKeeps DEF ResolveFails
  <2> QED
    BY <1>1, <2>1, <2>2, StartKeeps, TickKeeps, ResolveKeeps, DoneKeeps, SaveKeeps,
       UnauthorizedKeeps DEF Cycle, EnvTypeOK
<1>2. CASE \E u \in Users : Execute(u)
  BY <1>2, CreateKeeps, HandleConflictKeeps, UpdateKeeps, DeactivateKeeps DEF Execute
<1>3. CASE Crash
  BY <1>3, ExitKeeps DEF Crash
<1>4. CASE ExpireToken
  BY <1>4, StayKeeps DEF ExpireToken, procState
<1>5. CASE \E u \in Users : MoveUser(u) \/ EditUser(u)
  BY <1>5, EditFrame, StayKeeps
<1>6. CASE \E i \in MasIds : DeleteAccount(i)
  BY <1>6, EditFrame, StayKeeps
<1>7. CASE UNCHANGED vars
  BY <1>7, StayKeeps DEF vars, procState
<1> QED
  BY <1>1, <1>2, <1>3, <1>4, <1>5, <1>6, <1>7 DEF Next, Bridge, Environment

\* The process layer and the types are an invariant of the bridge.
THEOREM ProcessSound == Spec => [](TypeOK /\ ProcInv)
<1>1. Init => TypeOK /\ ProcInv
  <2>1. Init => EnvTypeOK
    BY DEF Init, EnvTypeOK
  <2> QED
    BY <2>1, ProcInit DEF TypeOK, ProcInv
<1>2. (TypeOK /\ ProcInv) /\ [Next]_vars => (TypeOK /\ ProcInv)'
  BY EnvKeeps, ProcStep DEF TypeOK, ProcInv
<1> QED
  BY <1>1, <1>2, PTL DEF Spec

\* TypeOK holds for every number of users, accounts, faults and edits.
THEOREM TypeCorrect == Spec => []TypeOK
BY ProcessSound, PTL

\* No cycle ends in the "missing MAS ID" errors of executor.go:98 and 123.
THEOREM TrackedIdsKnown == Spec => []TrackedHaveId
<1>1. ProcInv => TrackedHaveId
  BY DEF ProcInv
<1> QED
  BY <1>1, ProcessSound, PTL

\* Only error entries can be lost in a crash.
THEOREM CheckedSaves == Spec => []OnlyErrorsUnsaved
<1>1. ProcInv => OnlyErrorsUnsaved
  BY DEF ProcInv
<1> QED
  BY <1>1, ProcessSound, PTL

-----------------------------------------------------------------------------
(* Steps that write the state file. *)

LEMMA FileStep ==
    [Next]_vars => \/ UNCHANGED file
                   \/ Save
                   \/ \E W \in SUBSET Mismatches : PlanWith(W)
<1> SUFFICES ASSUME [Next]_vars
             PROVE  \/ UNCHANGED file
                    \/ Save
                    \/ \E W \in SUBSET Mismatches : PlanWith(W)
  OBVIOUS
<1>1. CASE Cycle
  BY <1>1 DEF Cycle, Start, Tick, Resolve, ResolveFails, Plan, PlanUnsaved, SyncDone,
     RemovalsDone, SaveFails, Unauthorized, Exit
<1>2. ASSUME NEW u \in Users, Execute(u) PROVE UNCHANGED file
  <2> USE DEF Record, Goto, Skip, Exit, Settle
  <2>1. CASE Create(u)
    BY <2>1 DEF Create, CreateDryRun, CreateAccepted, CreateConflict, CreateRetried,
       CreateRejected, CreateReplyLost, CreateUndecodable
  <2>2. CASE HandleConflict(u)
    BY <2>2 DEF HandleConflict, SearchByExt, SearchByExtFails, SearchByName,
       SearchByNameFails, SearchByNameAgain
  <2>3. CASE Update(u)
    BY <2>3 DEF Update, UpdateSkipped, UpdateClearsTombstone, UpdateWithoutSnapshot,
       PatchApplied, PatchMissing, PatchFails, PutApplied, PutFails
  <2>4. CASE Deactivate(u)
    BY <2>4 DEF Deactivate, DeactivateSkipped, DeactivateDryRun, DeactivateApplied,
       DeactivateFails
  <2> QED
    BY <1>2, <2>1, <2>2, <2>3, <2>4 DEF Execute
<1>3. CASE Environment
  BY <1>3 DEF Environment, Crash, Exit, ExpireToken, MoveUser, EditUser, DeleteAccount, Edit
<1>4. CASE UNCHANGED vars
  BY <1>4 DEF vars
<1> QED
  BY <1>1, <1>2, <1>3, <1>4 DEF Next, Bridge

\* A correlation in the state file is never dropped, moved to another account
\* or to another profile.
THEOREM CorrelationsAreFixed == Spec => CorrelationFixed
<1>1. TypeOK /\ ProcInv /\ [Next]_vars
      => [\A u \in Users : file[u] # NoEntry /\ file[u].id # NoId =>
             /\ file'[u] # NoEntry
             /\ file'[u].id = file[u].id
             /\ file'[u].profile = file[u].profile]_vars
  <2> SUFFICES ASSUME ProcInv, [Next]_vars, NEW u \in Users,
                      file[u] # NoEntry, file[u].id # NoId
               PROVE  /\ file'[u] # NoEntry
                      /\ file'[u].id = file[u].id
                      /\ file'[u].profile = file[u].profile
    OBVIOUS
  <2>1. mem[u] # NoEntry /\ Continues(mem[u], file[u]) /\ mem[u] \in Entry
    BY DEF ProcInv, MemoryKeepsFile, ProcTypeOK
  <2>2. CASE Save
    <3>1. cur \in Users /\ pend \in Entry /\ Continues(pend, mem[cur])
      BY <2>2 DEF Save, Saving, ProcInv, Control, ProcTypeOK
    <3>2. file'[u] = IF u = cur THEN pend ELSE mem[u]
      BY <2>2, <3>1 DEF Save, ProcInv, ProcTypeOK
    <3> QED
      BY <2>1, <3>1, <3>2 DEF Continues
  <2>3. CASE \E W \in SUBSET Mismatches : PlanWith(W)
    <3>1. file'[u] \in {file[u], mem[u], Mismatched(mem[u])}
      BY <2>3 DEF PlanWith
    <3> QED
      BY <2>1, <3>1, OutcomeType DEF Continues
  <2> QED
    BY <2>2, <2>3, FileStep
<1> QED
  BY <1>1, ProcessSound, PTL DEF Spec, CorrelationFixed

-----------------------------------------------------------------------------
(* The second layer of the invariant: how the entries of the bridge relate *)
(* to the MAS accounts, and what the bridge may do to an account.          *)

\* The externalId of an account goes with the name of its user.
ExtNamed ==
    \A i \in MasIds : Live(i) /\ mas[i].ext \in Users => mas[i].name = NameOf[mas[i].ext]

\* A tombstone waits for its Save only after the deactivation was applied.
TombstoneDone ==
    /\ pc = "save" /\ pend # NoEntry /\ pend.status = "deactivated"
    /\ ~DryRun /\ Live(pend.id)
    => ~mas[pend.id].active

MasInv == ExtNamed /\ CorrelationIsOwn /\ TombstoneDone

\* Accounts change in place: an id once issued stays issued, a deleted account
\* stays deleted, and no account changes its name.
NamesKept ==
    \A i \in MasIds : mas[i] # Unissued =>
        /\ mas'[i] # Unissued
        /\ mas'[i] # Gone => mas[i] # Gone /\ mas'[i].name = mas[i].name

LEMMA ChangeKeepsNames ==
    ASSUME EnvTypeOK, ProcInv, MasInv, NEW u \in Users, MasChange(u)
    PROVE  NamesKept /\ ExtNamed'
<1> USE DEF EnvTypeOK, MasInv, NamesKept, ExtNamed, Live
<1>1. CASE UNCHANGED mas
  BY <1>1
<1>2. CASE CanSync(u) /\ \E i \in MasIds : Issues(u, i)
  BY <1>2 DEF Issues, NewAccount
<1>3. CASE CanSync(u) /\ mem[u] \in Entry /\ MasPatch(u)
  <2>1. /\ mas[mem[u].id] \in Account /\ mem[u].id \in MasIds
        /\ Wanted(u) \in Snapshot
    BY <1>3, DesiredType DEF MasPatch, Wanted, CanSync
  <2> DEFINE a == Patched(mas[mem[u].id], Diff(mem[u].snap, Wanted(u)), Wanted(u))
  <2>2. a \in Account /\ a.name = mas[mem[u].id].name /\ a.ext = mas[mem[u].id].ext
    BY <2>1, PatchedType
  <2>3. mas' = [mas EXCEPT ![mem[u].id] = a]
    BY <1>3 DEF MasPatch
  <2> HIDE DEF a
  <2> QED
    BY <2>1, <2>2, <2>3
<1>4. CASE CanSync(u) /\ mem[u] \in Entry /\ MasPut(u)
  <2>1. mem[u] \in EntriesOf(u)
    BY <1>4 DEF EntriesOf
  <2>2. mas[mem[u].id].name = NameOf[u]
    BY <1>4, <2>1 DEF CorrelationIsOwn, OwnAccount, MasPut
  <2> DEFINE a == NewAccount(u, Wanted(u))
  <2>3. a \in Account /\ a.name = NameOf[u] /\ a.ext = u
    BY <1>4, DesiredType, NewAccountType DEF NewAccount, Wanted, CanSync
  <2>4. mas' = [mas EXCEPT ![mem[u].id] = a]
    BY <1>4 DEF MasPut
  <2>5. mem[u].id \in MasIds /\ mas[mem[u].id] \in Account
    BY <1>4 DEF MasPut
  <2> HIDE DEF a
  <2> QED
    BY <2>2, <2>3, <2>4, <2>5
<1>5. CASE mem[u] \in Entry /\ MasDeactivate(u)
  <2>1. mas[mem[u].id] \in Account /\ mem[u].id \in MasIds
    BY <1>5 DEF MasDeactivate
  <2>2. /\ [mas[mem[u].id] EXCEPT !.active = FALSE].name = mas[mem[u].id].name
        /\ [mas[mem[u].id] EXCEPT !.active = FALSE].ext = mas[mem[u].id].ext
        /\ [mas[mem[u].id] EXCEPT !.active = FALSE] \in Account
    BY <2>1 DEF Account
  <2> QED
    BY <1>5, <2>1, <2>2 DEF MasDeactivate
<1> QED
  BY <1>1, <1>2, <1>3, <1>4, <1>5 DEF MasChange

\* Every entry after the step has the id of an earlier one, or an own account.
IdsKnown ==
    \A v \in Users : \A e \in EntriesOf(v)' :
        \/ \E o \in EntriesOf(v) : o.id = e.id
        \/ e.id \in MasIds => mas'[e.id] # Unissued /\ (mas'[e.id] # Gone => mas'[e.id].name = NameOf[v])

LEMMA OwnStep ==
    ASSUME CorrelationIsOwn, NamesKept, IdsKnown
    PROVE  CorrelationIsOwn'
BY DEF CorrelationIsOwn, NamesKept, IdsKnown, OwnAccount

\* Shapes that bring no new entry for a user.
LEMMA OldIds ==
    ASSUME \A v \in Users : mem'[v] \in {mem[v], file[v]} /\ file'[v] \in {mem[v], file[v]},
           cur' = NoUser \/ UNCHANGED <<cur, pend>> \/ pend' = NoEntry
    PROVE  IdsKnown
BY DEF IdsKnown, EntriesOf

LEMMA RecordIds ==
    ASSUME NEW u \in Users, NEW e, NEW p, Record(u, e, p),
           \/ mem[u] # NoEntry /\ e.id = mem[u].id
           \/ e.id \in MasIds => mas'[e.id] # Unissued /\ (mas'[e.id] # Gone => mas'[e.id].name = NameOf[u])
    PROVE  IdsKnown
<1> SUFFICES ASSUME NEW v \in Users, NEW x \in EntriesOf(v)'
             PROVE  \/ \E o \in EntriesOf(v) : o.id = x.id
                    \/ x.id \in MasIds => mas'[x.id] # Unissued
                                          /\ (mas'[x.id] # Gone => mas'[x.id].name = NameOf[v])
  BY DEF IdsKnown
<1>1. x \in EntriesOf(v) \/ (v = u /\ x = e)
  BY DEF EntriesOf, Record
<1>2. mem[u] # NoEntry => mem[u] \in EntriesOf(u)
  BY DEF EntriesOf
<1> QED
  BY <1>1, <1>2

-----------------------------------------------------------------------------
(* The steps of the executor. *)

LEMMA CreateIds ==
    ASSUME EnvTypeOK, ProcInv, NEW u \in Users, Create(u)
    PROVE  IdsKnown
<1>1. Creating(u)
  BY DEF Create, CreateDryRun, CreateAccepted, CreateConflict, CreateRetried,
     CreateRejected, CreateReplyLost, CreateUndecodable, Posting
<1>2. CanSync(u) /\ pc \notin Saving
  BY <1>1, SyncingFacts DEF Creating
<1>3. pend = NoEntry
  BY <1>2 DEF ProcInv, Control
<1>4. CASE CreateDryRun(u)
  <2>1. Created(u, DryRunId).id \notin MasIds
    BY <1>2, CreatedFacts DEF DryRunId, MasIds
  <2> QED
    BY <1>4, <2>1, RecordIds DEF CreateDryRun
<1>5. CASE CreateAccepted(u)
  <2>1. PICK i \in MasIds : Issues(u, i) /\ Record(u, Created(u, i), "save")
    BY <1>5 DEF CreateAccepted
  <2>2. mas'[i] \in Account /\ mas'[i].name = NameOf[u]
    BY <1>2, <2>1, DesiredType, NewAccountType DEF Issues, NewAccount, CanSync, EnvTypeOK
  <2> QED
    BY <1>2, <2>1, <2>2, CreatedFacts, RecordIds
<1>6. CASE CreateConflict(u) \/ CreateRetried(u)
  BY <1>3, <1>6, OldIds DEF CreateConflict, CreateRetried, Goto
<1>7. CASE CreateRejected(u) \/ CreateReplyLost(u)
  <2>1. FailedCreate(scope[u].profile).id \notin MasIds
    BY DEF FailedCreate, NoId, MasIds
  <2> QED
    BY <1>7, <2>1, RecordIds DEF CreateRejected, CreateReplyLost
<1>8. CASE CreateUndecodable(u)
  BY <1>8, OldIds DEF CreateUndecodable, Exit
<1> QED
  BY <1>4, <1>5, <1>6, <1>7, <1>8 DEF Create

\* The searches find own accounts only.
LEMMA MatchesAreOwn ==
    ASSUME ExtNamed, NEW u \in Users, NEW i \in MatchExt(u) \cup MatchName(u)
    PROVE  i \in MasIds /\ OwnAccount(mas, u, i)
BY DEF ExtNamed, MatchExt, MatchName, OwnAccount, Live

LEMMA SettleIds ==
    ASSUME ExtNamed, NEW u \in Users, CanSync(u), UNCHANGED mas,
           NEW matches \in SUBSET (MatchExt(u) \cup MatchName(u)), Settle(u, matches)
    PROVE  IdsKnown
<1>1. CASE \E i \in matches : Record(u, Created(u, i), "save")
  <2>1. PICK i \in matches : Record(u, Created(u, i), "save")
    BY <1>1
  <2>2. i \in MasIds /\ OwnAccount(mas, u, i)
    BY MatchesAreOwn
  <2> QED
    BY <2>1, <2>2, CreatedFacts, RecordIds DEF OwnAccount
<1>2. CASE Record(u, FailedCreate(scope[u].profile), "note")
  <2>1. FailedCreate(scope[u].profile).id \notin MasIds
    BY DEF FailedCreate, NoId, MasIds
  <2> QED
    BY <1>2, <2>1, RecordIds
<1> QED
  BY <1>1, <1>2 DEF Settle

LEMMA HandleConflictIds ==
    ASSUME ProcInv, ExtNamed, NEW u \in Users, HandleConflict(u)
    PROVE  IdsKnown
<1>1. PICK p \in Searching : Calling(u, p)
  BY DEF HandleConflict, SearchByExt, SearchByExtFails, SearchByName,
     SearchByNameFails, SearchByNameAgain, Searching
<1>2. CanSync(u) /\ pc \notin Saving
  BY <1>1, CallingFacts
<1>3. pend = NoEntry /\ UNCHANGED mas
  BY <1>2 DEF ProcInv, Control, HandleConflict, SearchByExt, SearchByExtFails, SearchByName,
     SearchByNameFails, SearchByNameAgain
<1>4. CASE \E q \in Searching : Goto(u, q)
  BY <1>3, <1>4, OldIds DEF Goto
<1>5. CASE \E matches \in SUBSET (MatchExt(u) \cup MatchName(u)) : Settle(u, matches)
  BY <1>2, <1>3, <1>5, SettleIds
<1>6. CASE Skip(u)
  BY <1>6, OldIds DEF Skip
<1>7. /\ MatchExt(u) \in SUBSET (MatchExt(u) \cup MatchName(u))
      /\ MatchName(u) \in SUBSET (MatchExt(u) \cup MatchName(u))
      /\ {} \in SUBSET (MatchExt(u) \cup MatchName(u))
  OBVIOUS
<1> QED
  BY <1>4, <1>5, <1>6, <1>7 DEF HandleConflict, SearchByExt, SearchByExtFails,
     SearchByName, SearchByNameFails, SearchByNameAgain, Searching

LEMMA UpdateIds ==
    ASSUME ProcInv, NEW u \in Users, Update(u)
    PROVE  IdsKnown
<1>1. Updating(u) \/ Calling(u, "put")
  BY DEF Update, UpdateSkipped, UpdateClearsTombstone, UpdateWithoutSnapshot,
     PatchApplied, PatchMissing, PatchFails, PutApplied, PutFails, Patching
<1>2. CanSync(u) /\ mem[u] \in Entry /\ mem[u] # NoEntry /\ pc \notin Saving
  BY <1>1, SyncingFacts, CallingFacts DEF Updating
<1>3. pend = NoEntry
  BY <1>2 DEF ProcInv, Control
<1>4. CASE Skip(u) \/ Goto(u, "put")
  BY <1>3, <1>4, OldIds DEF Skip, Goto
<1>5. CASE \E e \in {Created(u, mem[u].id), FailedUpdate(mem[u]),
                      OkEntry(mem[u].id, scope[u].profile, mem[u].snap)} : Record(u, e, "save")
  <2>1. /\ Created(u, mem[u].id).id = mem[u].id
        /\ FailedUpdate(mem[u]).id = mem[u].id
        /\ OkEntry(mem[u].id, scope[u].profile, mem[u].snap).id = mem[u].id
    BY <1>2, OutcomeType DEF Created, OkEntry
  <2> QED
    BY <1>2, <1>5, <2>1, RecordIds
<1> QED
  BY <1>4, <1>5 DEF Update, UpdateSkipped, UpdateClearsTombstone, UpdateWithoutSnapshot,
     PatchApplied, PatchMissing, PatchFails, PutApplied, PutFails

LEMMA DeactivateIds ==
    ASSUME ProcInv, NEW u \in Users, Deactivate(u)
    PROVE  IdsKnown
<1>1. Removing(u)
  BY DEF Deactivate, DeactivateSkipped, DeactivateDryRun, DeactivateApplied,
     DeactivateFails, Deactivating
<1>2. mem[u] \in Entry /\ mem[u] # NoEntry
  BY <1>1, RemovingFacts
<1>3. CASE Skip(u)
  BY <1>3, OldIds DEF Skip
<1>4. CASE \E e \in {Tombstone(mem[u]), FailedUpdate(mem[u])} : Record(u, e, "save")
  BY <1>2, <1>4, OutcomeType, RecordIds
<1> QED
  BY <1>3, <1>4 DEF Deactivate, DeactivateSkipped, DeactivateDryRun, DeactivateApplied,
     DeactivateFails

-----------------------------------------------------------------------------
(* The remaining steps, and tombstones waiting for their Save. *)

LEMMA CycleIds ==
    ASSUME ProcInv, Cycle \/ Crash \/ ExpireToken
    PROVE  IdsKnown
<1>1. CASE Save \/ SaveFails
  <2>1. CASE Exit
    BY <2>1, OldIds DEF Exit
  <2>2. CASE /\ pc \in Saving /\ mem' = [mem EXCEPT ![cur] = pend]
             /\ file' = mem' \/ UNCHANGED file
             /\ cur' = NoUser
    <3> SUFFICES ASSUME NEW v \in Users, NEW e \in EntriesOf(v)'
                 PROVE  e \in EntriesOf(v)
      BY DEF IdsKnown
    <3>1. cur \in Users /\ pend \in Entry
      BY <2>2 DEF ProcInv, Control, ProcTypeOK
    <3>2. mem'[v] = IF v = cur THEN pend ELSE mem[v]
      BY <2>2, <3>1 DEF ProcInv, ProcTypeOK
    <3> QED
      BY <2>2, <3>1, <3>2 DEF EntriesOf
  <2> QED
    BY <1>1, <2>1, <2>2 DEF Save, SaveFails, Saving
<1>2. CASE Plan \/ PlanUnsaved
  <2> SUFFICES ASSUME NEW v \in Users, NEW e \in EntriesOf(v)'
               PROVE  \E o \in EntriesOf(v) : o.id = e.id
    BY DEF IdsKnown
  <2>1. PICK W \in SUBSET Mismatches : PlanWith(W)
    BY <1>2 DEF Plan, PlanUnsaved
  <2>2. e \in EntriesOf(v) \/ (v \in Mismatches /\ e = Mismatched(mem[v]))
    BY <2>1 DEF PlanWith, EntriesOf
  <2>3. v \in Mismatches => /\ mem[v] \in Entry /\ mem[v] \in EntriesOf(v)
                            /\ Mismatched(mem[v]).id = mem[v].id
    BY OutcomeType DEF Mismatches, EntriesOf, ProcInv, ProcTypeOK
  <2> QED
    BY <2>2, <2>3
<1>3. CASE Start \/ Tick \/ Resolve \/ ResolveFails \/ SyncDone \/ RemovalsDone
           \/ Unauthorized \/ Crash \/ ExpireToken
  BY <1>3, OldIds DEF Start, Tick, Resolve, ResolveFails, SyncDone, RemovalsDone,
     Unauthorized, Crash, ExpireToken, Exit, procVars
<1> QED
  BY <1>1, <1>2, <1>3 DEF Cycle

\* A step that does not end in the Save of a new tombstone.
LEMMA NoTombstone ==
    ASSUME pc' # "save" \/ (pend'.status # "deactivated" /\ pend' # NoEntry)
    PROVE  TombstoneDone'
BY DEF TombstoneDone

LEMMA ExecuteTombstones ==
    ASSUME EnvTypeOK, ProcInv, NEW u \in Users, Execute(u)
    PROVE  TombstoneDone'
<1>1. CASE Create(u) \/ HandleConflict(u)
  <2>1. \A i : Created(u, i).status = "ok"
    BY DEF Created, OkEntry
  <2>2. FailedCreate(scope[u].profile).status = "error"
    BY DEF FailedCreate
  <2>3. \/ pc' # "save"
        \/ \E i : pend' = Created(u, i)
    <3> USE DEF Record, Goto, Skip, Exit, Settle, Loop
    <3>1. CASE Create(u)
      BY <3>1 DEF Create, CreateDryRun, CreateAccepted, CreateConflict, CreateRetried,
         CreateRejected, CreateReplyLost, CreateUndecodable
    <3>2. CASE HandleConflict(u)
      BY <3>2 DEF HandleConflict, SearchByExt, SearchByExtFails, SearchByName,
         SearchByNameFails, SearchByNameAgain
    <3> QED
      BY <1>1, <3>1, <3>2
  <2> QED
    BY <2>1, <2>3 DEF TombstoneDone
<1>2. CASE Update(u)
  <2>1. Updating(u) \/ Calling(u, "put")
    BY <1>2 DEF Update, UpdateSkipped, UpdateClearsTombstone, UpdateWithoutSnapshot,
       PatchApplied, PatchMissing, PatchFails, PutApplied, PutFails, Patching
  <2>2. mem[u] \in Entry
    BY <2>1, SyncingFacts, CallingFacts DEF Updating
  <2>3. /\ \A i : Created(u, i).status = "ok"
        /\ FailedUpdate(mem[u]).status = "error"
        /\ OkEntry(mem[u].id, scope[u].profile, mem[u].snap).status = "ok"
    BY <2>2, OutcomeType DEF Created, OkEntry
  <2>4. \/ pc' # "save"
        \/ pend' \in {Created(u, mem[u].id), FailedUpdate(mem[u]),
                      OkEntry(mem[u].id, scope[u].profile, mem[u].snap)}
    BY <1>2 DEF Update, UpdateSkipped, UpdateClearsTombstone, UpdateWithoutSnapshot,
       PatchApplied, PatchMissing, PatchFails, PutApplied, PutFails, Record, Goto, Skip, Loop
  <2> QED
    BY <2>3, <2>4 DEF TombstoneDone
<1>3. CASE Deactivate(u)
  <2>1. Removing(u)
    BY <1>3 DEF Deactivate, DeactivateSkipped, DeactivateDryRun, DeactivateApplied,
       DeactivateFails, Deactivating
  <2>2. mem[u] \in Entry
    BY <2>1, RemovingFacts
  <2>3. CASE DeactivateSkipped(u)
    BY <2>3 DEF DeactivateSkipped, Skip, Loop, TombstoneDone
  <2>4. CASE DeactivateDryRun(u)
    BY <2>4 DEF DeactivateDryRun, Record, procVars, TombstoneDone
  <2>5. CASE DeactivateApplied(u)
    <3>1. pend' = Tombstone(mem[u]) /\ pend'.id = mem[u].id
      BY <2>2, <2>5, OutcomeType DEF DeactivateApplied, Record
    <3>2. CASE MasDeactivate(u)
      <4>1. mem[u].id \in MasIds /\ mas[mem[u].id] \in Account
        BY <3>2 DEF MasDeactivate, Live, EnvTypeOK
      <4>2. [mas[mem[u].id] EXCEPT !.active = FALSE].active = FALSE
        BY <4>1 DEF Account
      <4>3. mas'[mem[u].id] = [mas[mem[u].id] EXCEPT !.active = FALSE]
        BY <3>2, <4>1 DEF MasDeactivate, EnvTypeOK
      <4> QED
        BY <3>1, <4>2, <4>3 DEF TombstoneDone
    <3>3. CASE ~Live(mem[u].id) /\ UNCHANGED mas
      BY <3>1, <3>3 DEF TombstoneDone, Live
    <3> QED
      BY <2>5, <3>2, <3>3 DEF DeactivateApplied
  <2>6. CASE DeactivateFails(u)
    BY <2>2, <2>6, OutcomeType DEF DeactivateFails, Record, TombstoneDone
  <2> QED
    BY <1>3, <2>3, <2>4, <2>5, <2>6 DEF Deactivate
<1> QED
  BY <1>1, <1>2, <1>3 DEF Execute

LEMMA CycleTombstones ==
    ASSUME ProcInv, TombstoneDone, Cycle \/ Crash \/ ExpireToken
    PROVE  TombstoneDone'
<1>1. CASE ExpireToken
  BY <1>1 DEF ExpireToken, TombstoneDone, Live
<1>2. CASE Cycle \/ Crash
  <2>1. pc' # "save"
    BY <1>2 DEF Cycle, Start, Tick, Resolve, ResolveFails, Plan, PlanUnsaved, PlanWith,
       SyncDone, RemovalsDone, Save, SaveFails, Unauthorized, Crash, Exit, Loop
  <2> QED
    BY <2>1, NoTombstone
<1> QED
  BY <1>1, <1>2

-----------------------------------------------------------------------------
(* The invariant of both layers. *)

LEMMA MasInit == Init => MasInv
<1> SUFFICES ASSUME Init PROVE MasInv
  OBVIOUS
<1>1. mas \in InitialMas /\ file \in InitialFile /\ mem = file /\ cur = NoUser /\ pc = "down"
  BY DEF Init
<1>2. ExtNamed
  BY <1>1, InitialAssumption DEF ExtNamed, Live
<1>3. CorrelationIsOwn
  BY <1>1, InitialAssumption DEF CorrelationIsOwn, EntriesOf
<1> QED
  BY <1>1, <1>2, <1>3 DEF MasInv, TombstoneDone

LEMMA MasStep == TypeOK /\ ProcInv /\ MasInv /\ [Next]_vars => MasInv'
<1> SUFFICES ASSUME EnvTypeOK, ProcInv, MasInv, [Next]_vars PROVE MasInv'
  BY DEF TypeOK
<1> USE DEF MasInv
<1>1. CASE Cycle \/ Crash \/ ExpireToken
  <2>1. UNCHANGED mas
    BY <1>1, CycleFrame
  <2>2. NamesKept /\ ExtNamed'
    BY <2>1 DEF NamesKept, ExtNamed, Live
  <2> QED
    BY <1>1, <2>2, CycleIds, OwnStep, CycleTombstones
<1>2. CASE \E u \in Users : Execute(u)
  <2>1. PICK u \in Users : Execute(u)
    BY <1>2
  <2>2. NamesKept /\ ExtNamed'
    BY <2>1, ExecuteChangesMas, ChangeKeepsNames
  <2>3. IdsKnown
    BY <2>1, CreateIds, HandleConflictIds, UpdateIds, DeactivateIds DEF Execute
  <2> QED
    BY <2>1, <2>2, <2>3, OwnStep, ExecuteTombstones
<1>3. CASE \/ \E u \in Users : MoveUser(u) \/ EditUser(u)
           \/ \E i \in MasIds : DeleteAccount(i)
  <2>1. /\ UNCHANGED procState
        /\ UNCHANGED mas \/ \E i \in MasIds : Live(i) /\ mas' = [mas EXCEPT ![i] = Gone]
    BY <1>3, EditFrame
  <2>2. \A i \in MasIds : mas'[i] = mas[i] \/ (Live(i) /\ mas'[i] = Gone)
    BY <2>1 DEF EnvTypeOK
  <2>3. NamesKept /\ ExtNamed'
    BY <2>2 DEF NamesKept, ExtNamed, Live
  <2>4. IdsKnown
    BY <2>1, OldIds DEF procState
  <2>5. TombstoneDone'
    BY <2>1, <2>2 DEF TombstoneDone, Live, procState
  <2> QED
    BY <2>3, <2>4, <2>5, OwnStep
<1>4. CASE UNCHANGED vars
  BY <1>4 DEF vars, ExtNamed, CorrelationIsOwn, TombstoneDone, Live, EntriesOf, OwnAccount
<1> QED
  BY <1>1, <1>2, <1>3, <1>4 DEF Next, Bridge, Environment

\* Both layers and the types are an invariant of the bridge.
THEOREM BridgeSound == Spec => [](TypeOK /\ ProcInv /\ MasInv)
<1>1. TypeOK /\ ProcInv /\ MasInv /\ [Next]_vars => MasInv'
  BY MasStep
<1> QED
  BY <1>1, MasInit, ProcessSound, PTL DEF Spec

\* No step, fault or crash links a Keycloak user to an account of another name.
THEOREM CorrelationsAreOwn == Spec => []CorrelationIsOwn
<1>1. MasInv => CorrelationIsOwn
  BY DEF MasInv
<1> QED
  BY <1>1, BridgeSound, PTL

\* A live bridge writes a tombstone only over an account that is inactive.
THEOREM TombstonesAreTrue == Spec => TombstoneOnlyInactive
<1>1. TypeOK /\ ProcInv /\ MasInv /\ [Next]_vars
      => [\A u \in Users :
             /\ file'[u] # NoEntry /\ file'[u].status = "deactivated"
             /\ file[u] = NoEntry \/ file[u].status # "deactivated"
             /\ ~DryRun
             => (Live(file'[u].id) => ~mas[file'[u].id].active)]_vars
  <2> SUFFICES ASSUME ProcInv, MasInv, [Next]_vars, NEW u \in Users,
                      file'[u] # NoEntry, file'[u].status = "deactivated",
                      file[u] = NoEntry \/ file[u].status # "deactivated",
                      ~DryRun, Live(file'[u].id)
               PROVE  ~mas[file'[u].id].active
    OBVIOUS
  <2>1. mem[u] \in Entry \cup {NoEntry} /\ (file[u] # mem[u] => mem[u].status = "error")
    BY DEF ProcInv, ProcTypeOK, OnlyErrorsUnsaved
  <2>2. CASE Save
    <3>1. cur \in Users /\ pend \in Entry /\ (pc = "note" => pend.status = "error")
      BY <2>2 DEF Save, Saving, ProcInv, Control, ProcTypeOK
    <3>2. file'[u] = IF u = cur THEN pend ELSE mem[u]
      BY <2>2, <3>1 DEF Save, ProcInv, ProcTypeOK
    <3>3. u = cur /\ pc = "save" /\ file'[u] = pend
      BY <2>1, <2>2, <3>1, <3>2 DEF Save
    <3> QED
      BY <3>1, <3>3 DEF MasInv, TombstoneDone
  <2>3. CASE \E W \in SUBSET Mismatches : PlanWith(W)
    <3>1. file'[u] \in {file[u], mem[u]}
          \/ (mem[u] # NoEntry /\ file'[u] = Mismatched(mem[u]))
      BY <2>3 DEF PlanWith, Mismatches
    <3> QED
      BY <2>1, <3>1, OutcomeType
  <2> QED
    BY <2>2, <2>3, FileStep
<1> QED
  BY <1>1, BridgeSound, PTL DEF Spec, TombstoneOnlyInactive

-----------------------------------------------------------------------------
(* What the bridge may do to an account. *)

\* Which accounts a step of the bridge changes, and under which switches.
LEMMA AccountChanges ==
    ASSUME EnvTypeOK, ProcInv, [Next]_vars, NEW i \in MasIds, Live(i),
           mas'[i] # mas[i], mas'[i] # Gone
    PROVE  /\ AllowUpdates /\ ~DryRun
           /\ \E u \in Users :
                 /\ mem[u] \in Entry /\ mem[u].id = i
                 /\ \/ CanRemove(u)
                    \/ CanSync(u) /\ (MasPatch(u) \/ MasPut(u))
<1> USE DEF EnvTypeOK
<1>1. CASE Cycle \/ Crash \/ ExpireToken
  BY <1>1, CycleFrame
<1>2. CASE \E u \in Users : Execute(u)
  <2>1. PICK u \in Users : Execute(u)
    BY <1>2
  <2>2. CASE Create(u)
    <3>1. UNCHANGED mas \/ \E j \in MasIds : Issues(u, j)
      BY <2>2 DEF Create, CreateDryRun, CreateAccepted, CreateConflict, CreateRetried,
         CreateRejected, CreateReplyLost, CreateUndecodable
    <3> QED
      BY <3>1 DEF Issues, Live
  <2>3. CASE HandleConflict(u)
    BY <2>3 DEF HandleConflict, SearchByExt, SearchByExtFails, SearchByName,
       SearchByNameFails, SearchByNameAgain
  <2>4. CASE Update(u)
    <3>1. (Patching(u) /\ MasPatch(u)) \/ (Calling(u, "put") /\ MasPut(u))
      BY <2>4 DEF Update, UpdateSkipped, UpdateClearsTombstone, UpdateWithoutSnapshot,
         PatchApplied, PatchMissing, PatchFails, PutApplied, PutFails
    <3>2. Writes /\ CanSync(u) /\ mem[u] \in Entry
      BY <3>1, SyncingFacts, CallingFacts DEF Patching, Updating
    <3>3. mem[u].id = i
      BY <3>1, <3>2 DEF MasPatch, MasPut, Live
    <3> QED
      BY <3>1, <3>2, <3>3 DEF Writes
  <2>5. CASE Deactivate(u)
    <3>1. Deactivating(u) /\ MasDeactivate(u)
      BY <2>5 DEF Deactivate, DeactivateSkipped, DeactivateDryRun, DeactivateApplied,
         DeactivateFails
    <3>2. Writes /\ CanRemove(u) /\ mem[u] \in Entry
      BY <3>1, RemovingFacts DEF Deactivating, Removing, AllRemove
    <3>3. mem[u].id = i
      BY <3>1, <3>2 DEF MasDeactivate, Live
    <3> QED
      BY <3>2, <3>3 DEF Writes
  <2> QED
    BY <2>1, <2>2, <2>3, <2>4, <2>5 DEF Execute
<1>3. CASE \/ \E u \in Users : MoveUser(u) \/ EditUser(u)
           \/ \E j \in MasIds : DeleteAccount(j)
  <2>1. UNCHANGED mas \/ \E j \in MasIds : Live(j) /\ mas' = [mas EXCEPT ![j] = Gone]
    BY <1>3, EditFrame
  <2> QED
    BY <2>1
<1>4. CASE UNCHANGED vars
  BY <1>4 DEF vars
<1> QED
  BY <1>1, <1>2, <1>3, <1>4 DEF Next, Bridge, Environment

\* With updates disabled no account is changed, in any phase of the cycle.
THEOREM CreateOnly == Spec => UpdatesDisabled
<1>1. TypeOK /\ ProcInv /\ [Next]_vars
      => [~AllowUpdates => \A i \in MasIds : Live(i) => mas'[i] \in {mas[i], Gone}]_vars
  BY AccountChanges DEF TypeOK
<1> QED
  BY <1>1, ProcessSound, PTL DEF Spec, UpdatesDisabled

\* An account is deactivated for its tracked user only, who is disabled, or out
\* of the scope in group mode.
THEOREM RemovalsAreJustified == Spec => DeactivationJustified
<1>1. TypeOK /\ ProcInv /\ [Next]_vars
      => [\A i \in MasIds : Deactivates(i) =>
             \E u \in Users :
                /\ mem[u] # NoEntry /\ mem[u].id = i
                /\ \/ GroupMode /\ scope[u] = NoUser
                   \/ scope[u] # NoUser /\ ~scope[u].enabled]_vars
  <2> SUFFICES ASSUME EnvTypeOK, ProcInv, [Next]_vars, NEW i \in MasIds, Deactivates(i)
               PROVE  \E u \in Users :
                         /\ mem[u] # NoEntry /\ mem[u].id = i
                         /\ \/ GroupMode /\ scope[u] = NoUser
                            \/ scope[u] # NoUser /\ ~scope[u].enabled
    BY DEF TypeOK
  <2>1. PICK u \in Users :
             /\ mem[u] \in Entry /\ mem[u].id = i
             /\ CanRemove(u) \/ (CanSync(u) /\ (MasPatch(u) \/ MasPut(u)))
    BY AccountChanges DEF Deactivates
  <2>2. CASE CanRemove(u)
    BY <2>1, <2>2 DEF CanRemove
  <2>3. CASE CanSync(u) /\ (MasPatch(u) \/ MasPut(u))
    <3>1. /\ mas[i] \in Account /\ scope[u] # NoUser
          /\ Wanted(u).active = scope[u].enabled /\ mas[i].active /\ ~mas'[i].active
      BY <2>3 DEF Deactivates, Live, EnvTypeOK, CanSync, Wanted, Desired
    <3>2. CASE MasPatch(u)
      <4> DEFINE a == Patched(mas[i], Diff(mem[u].snap, Wanted(u)), Wanted(u))
      <4>1. mas'[i] = a
        BY <2>1, <3>2 DEF MasPatch, EnvTypeOK
      <4>2. a.active = mas[i].active \/ a.active = Wanted(u).active
        BY <3>1 DEF Patched, Account
      <4> HIDE DEF a
      <4> QED
        BY <2>1, <3>1, <4>1, <4>2 DEF Deactivates
    <3>3. CASE MasPut(u)
      <4>1. mas'[i] = NewAccount(u, Wanted(u))
        BY <2>1, <3>3 DEF MasPut, EnvTypeOK
      <4>2. NewAccount(u, Wanted(u)).active = Wanted(u).active
        BY DEF NewAccount
      <4> QED
        BY <2>1, <3>1, <4>1, <4>2 DEF Deactivates
    <3> QED
      BY <2>3, <3>2, <3>3
  <2> QED
    BY <2>1, <2>2, <2>3
<1> QED
  BY <1>1, ProcessSound, PTL DEF Spec, DeactivationJustified

\* No user name is ever given to a second Keycloak id.  (A user who is deleted and
\* created anew under the old name is a second id, and shares the account.)
OwnNames == \A u, v \in Users : NameOf[u] = NameOf[v] => u = v

\* Where names are never reused, a scoped, enabled user in order is not deactivated,
\* on behalf of no entry at all: an account belongs to one entry, its own.
THEOREM ScopedIsKept ==
    ASSUME OwnNames
    PROVE  Spec => ScopedStaysActive
<1> DEFINE Justified ==
      \A i \in MasIds : Deactivates(i) =>
          \E u \in Users :
             /\ mem[u] # NoEntry /\ mem[u].id = i
             /\ \/ GroupMode /\ scope[u] = NoUser
                \/ scope[u] # NoUser /\ ~scope[u].enabled
<1> DEFINE Spared ==
      \A i \in MasIds, u \in Users :
          /\ Deactivates(i)
          /\ mem[u] # NoEntry /\ mem[u].id = i /\ mem[u].status = "ok"
          => scope[u] = NoUser \/ ~scope[u].enabled
<1>1. CorrelationIsOwn /\ [Justified]_vars => [Spared]_vars
  <2> SUFFICES ASSUME CorrelationIsOwn, Justified, NEW i \in MasIds, NEW u \in Users,
                      Deactivates(i), mem[u] # NoEntry, mem[u].id = i
               PROVE  scope[u] = NoUser \/ ~scope[u].enabled
    OBVIOUS
  <2>1. PICK w \in Users : /\ mem[w] # NoEntry /\ mem[w].id = i
                           /\ scope[w] = NoUser \/ ~scope[w].enabled
    OBVIOUS
  <2>2. mas[i].name = NameOf[u] /\ mas[i].name = NameOf[w]
    BY <2>1 DEF CorrelationIsOwn, EntriesOf, OwnAccount, Deactivates, Live
  <2> QED
    BY <2>1, <2>2, OwnNames DEF OwnNames
<1>2. Spec => [][Justified]_vars
  BY RemovalsAreJustified, PTL DEF DeactivationJustified
<1>3. Spec => []CorrelationIsOwn
  BY CorrelationsAreOwn
<1> QED
  BY <1>1, <1>2, <1>3, PTL DEF ScopedStaysActive

\* A process in dry run changes no account and creates none.
THEOREM DryRunIsQuiet == Spec => DryRunCallsNothing
<1>1. TypeOK /\ ProcInv /\ [Next]_vars
      => [DryRun /\ pc # "down" /\ edits' = edits => mas' = mas]_vars
  <2> SUFFICES ASSUME EnvTypeOK, ProcInv, [Next]_vars, DryRun, edits' = edits
               PROVE  mas' = mas
    BY DEF TypeOK
  <2>1. CASE Cycle \/ Crash \/ ExpireToken
    BY <2>1, CycleFrame
  <2>2. ASSUME NEW u \in Users, Execute(u) PROVE mas' = mas
    <3>1. CASE Create(u)
      BY <3>1 DEF Create, CreateDryRun, CreateAccepted, CreateConflict, CreateRetried,
         CreateRejected, CreateReplyLost, CreateUndecodable, Posting
    <3>2. CASE HandleConflict(u)
      BY <3>2 DEF HandleConflict, SearchByExt, SearchByExtFails, SearchByName,
         SearchByNameFails, SearchByNameAgain
    <3>3. CASE Update(u)
      <4>1. ~Calling(u, "put") /\ ~Patching(u)
        BY CallingFacts DEF Patching, Writes
      <4> QED
        BY <3>3, <4>1 DEF Update, UpdateSkipped, UpdateClearsTombstone, UpdateWithoutSnapshot,
           PatchApplied, PatchMissing, PatchFails, PutApplied, PutFails
    <3>4. CASE Deactivate(u)
      BY <3>4 DEF Deactivate, DeactivateSkipped, DeactivateDryRun, DeactivateApplied,
         DeactivateFails, Deactivating, Writes
    <3> QED
      BY <2>2, <3>1, <3>2, <3>3, <3>4 DEF Execute
  <2>3. CASE \E u \in Users : MoveUser(u) \/ EditUser(u)
    BY <2>3 DEF MoveUser, EditUser
  <2>4. CASE \E i \in MasIds : DeleteAccount(i)
    BY <2>4 DEF DeleteAccount, Edit, EnvTypeOK
  <2>5. CASE UNCHANGED vars
    BY <2>5 DEF vars
  <2> QED
    BY <2>1, <2>2, <2>3, <2>4, <2>5 DEF Next, Bridge, Environment
<1> QED
  BY <1>1, ProcessSound, PTL DEF Spec, DryRunCallsNothing

-----------------------------------------------------------------------------
(* ScimBridge implements UserSync: the initial states map to initial       *)
(* states, and every step maps to a step of UserSync or to a stutter.      *)

-----------------------------------------------------------------------------
(* The links of the memory are those of the file: what is unsaved is an    *)
(* error, and an error links nothing new.                                  *)

\* What is saved of a user without an entry is not a tombstone.
NewIsOpen == pc \in Saving /\ mem[cur] = NoEntry => pend.status # "deactivated"

LinksSaved ==
    /\ \A u \in Users : LinkOf(mem[u]) = LinkOf(file[u])
    /\ pc = "note" => pend.id = NoId
    /\ NewIsOpen

LEMMA NoIdUnlinked == NoId \notin MasIds
BY DEF NoId, MasIds

\* Which steps change the memory, and how an unchecked save begins.
LEMMA MemoryStep ==
    [Next]_vars => \/ UNCHANGED mem
                   \/ mem' = file /\ file' = file
                   \/ Save \/ SaveFails
                   \/ \E W \in SUBSET Mismatches : PlanWith(W)
<1> SUFFICES ASSUME [Next]_vars
             PROVE  \/ UNCHANGED mem
                    \/ mem' = file /\ file' = file
                    \/ Save \/ SaveFails
                    \/ \E W \in SUBSET Mismatches : PlanWith(W)
  OBVIOUS
<1>1. CASE Cycle
  BY <1>1 DEF Cycle, Start, Tick, Resolve, ResolveFails, Plan, PlanUnsaved, SyncDone,
     RemovalsDone, Unauthorized, Exit
<1>2. ASSUME NEW u \in Users, Execute(u) PROVE UNCHANGED mem \/ (mem' = file /\ file' = file)
  <2> USE DEF Record, Goto, Skip, Exit, Settle
  <2>1. CASE Create(u)
    BY <2>1 DEF Create, CreateDryRun, CreateAccepted, CreateConflict, CreateRetried,
       CreateRejected, CreateReplyLost, CreateUndecodable
  <2>2. CASE HandleConflict(u)
    BY <2>2 DEF HandleConflict, SearchByExt, SearchByExtFails, SearchByName,
       SearchByNameFails, SearchByNameAgain
  <2>3. CASE Update(u)
    BY <2>3 DEF Update, UpdateSkipped, UpdateClearsTombstone, UpdateWithoutSnapshot,
       PatchApplied, PatchMissing, PatchFails, PutApplied, PutFails
  <2>4. CASE Deactivate(u)
    BY <2>4 DEF Deactivate, DeactivateSkipped, DeactivateDryRun, DeactivateApplied,
       DeactivateFails
  <2> QED
    BY <1>2, <2>1, <2>2, <2>3, <2>4 DEF Execute
<1>3. CASE Environment
  BY <1>3 DEF Environment, Crash, Exit, ExpireToken, MoveUser, EditUser, DeleteAccount, Edit
<1>4. CASE UNCHANGED vars
  BY <1>4 DEF vars
<1> QED
  BY <1>1, <1>2, <1>3, <1>4 DEF Next, Bridge

LEMMA NotesUnlinked ==
    ASSUME [Next]_vars, pc = "note" => pend.id = NoId
    PROVE  pc' = "note" => pend'.id = NoId
<1>1. CASE Cycle \/ Crash
  <2>1. pc' # "note"
    BY <1>1 DEF Cycle, Start, Tick, Resolve, ResolveFails, Plan, PlanUnsaved, PlanWith,
       SyncDone, RemovalsDone, Save, SaveFails, Unauthorized, Crash, Exit, Loop
  <2> QED
    BY <2>1
<1>2. ASSUME NEW u \in Users, Execute(u) PROVE pc' = "note" => pend'.id = NoId
  <2> USE DEF Record, Goto, Skip, Exit, Settle, Loop
  <2>1. FailedCreate(scope[u].profile).id = NoId
    BY DEF FailedCreate
  <2>2. CASE Create(u)
    BY <2>1, <2>2 DEF Create, CreateDryRun, CreateAccepted, CreateConflict, CreateRetried,
       CreateRejected, CreateReplyLost, CreateUndecodable
  <2>3. CASE HandleConflict(u)
    BY <2>1, <2>3 DEF HandleConflict, SearchByExt, SearchByExtFails, SearchByName,
       SearchByNameFails, SearchByNameAgain
  <2>4. CASE Update(u)
    BY <2>4 DEF Update, UpdateSkipped, UpdateClearsTombstone, UpdateWithoutSnapshot,
       PatchApplied, PatchMissing, PatchFails, PutApplied, PutFails
  <2>5. CASE Deactivate(u)
    BY <2>5 DEF Deactivate, DeactivateSkipped, DeactivateDryRun, DeactivateApplied,
       DeactivateFails
  <2> QED
    BY <1>2, <2>2, <2>3, <2>4, <2>5 DEF Execute
<1>3. CASE Environment
  BY <1>1, <1>3 DEF Environment, ExpireToken, MoveUser, EditUser, DeleteAccount, Edit
<1>4. CASE UNCHANGED vars
  BY <1>4 DEF vars
<1> QED
  BY <1>1, <1>2, <1>3, <1>4 DEF Next, Bridge

LEMMA NewStaysOpen ==
    ASSUME ProcInv, [Next]_vars, NewIsOpen
    PROVE  NewIsOpen'
<1> USE DEF Saving
<1>1. CASE Cycle \/ Crash
  <2>1. pc' \notin Saving
    BY <1>1 DEF Cycle, Start, Tick, Resolve, ResolveFails, Plan, PlanUnsaved, PlanWith,
       SyncDone, RemovalsDone, Save, SaveFails, Unauthorized, Crash, Exit, Loop
  <2> QED
    BY <2>1 DEF NewIsOpen
<1>2. ASSUME NEW u \in Users, Execute(u) PROVE NewIsOpen'
  <2> USE DEF Record, Goto, Skip, Exit, Settle, Loop, NewIsOpen
  <2>1. /\ FailedCreate(scope[u].profile).status = "error"
        /\ \A i : Created(u, i).status = "ok"
    BY DEF FailedCreate, Created, OkEntry
  <2>2. CASE Create(u)
    BY <2>1, <2>2 DEF Create, CreateDryRun, CreateAccepted, CreateConflict, CreateRetried,
       CreateRejected, CreateReplyLost, CreateUndecodable
  <2>3. CASE HandleConflict(u)
    BY <2>1, <2>3 DEF HandleConflict, SearchByExt, SearchByExtFails, SearchByName,
       SearchByNameFails, SearchByNameAgain
  <2>4. CASE Update(u)
    <3>1. Updating(u) \/ Calling(u, "put")
      BY <2>4 DEF Update, UpdateSkipped, UpdateClearsTombstone, UpdateWithoutSnapshot,
         PatchApplied, PatchMissing, PatchFails, PutApplied, PutFails, Patching
    <3>2. mem[u] # NoEntry
      BY <3>1, CallingFacts DEF Updating
    <3>3. UNCHANGED mem /\ (pc' \notin Saving \/ cur' = u)
      BY <2>4 DEF Update, UpdateSkipped, UpdateClearsTombstone, UpdateWithoutSnapshot,
         PatchApplied, PatchMissing, PatchFails, PutApplied, PutFails
    <3> QED
      BY <3>2, <3>3
  <2>5. CASE Deactivate(u)
    <3>1. Removing(u)
      BY <2>5 DEF Deactivate, DeactivateSkipped, DeactivateDryRun, DeactivateApplied,
         DeactivateFails, Deactivating
    <3>2. mem[u] # NoEntry
      BY <3>1, RemovingFacts
    <3>3. UNCHANGED mem /\ (pc' \notin Saving \/ cur' = u)
      BY <2>5 DEF Deactivate, DeactivateSkipped, DeactivateDryRun, DeactivateApplied,
         DeactivateFails
    <3> QED
      BY <3>2, <3>3
  <2> QED
    BY <1>2, <2>2, <2>3, <2>4, <2>5 DEF Execute
<1>3. CASE Environment
  BY <1>1, <1>3 DEF Environment, ExpireToken, MoveUser, EditUser, DeleteAccount, Edit, NewIsOpen
<1>4. CASE UNCHANGED vars
  BY <1>4 DEF vars, NewIsOpen
<1> QED
  BY <1>1, <1>2, <1>3, <1>4 DEF Next, Bridge

LEMMA LinksInit == Init => LinksSaved
BY DEF Init, LinksSaved, NewIsOpen, Saving

\* An entry that continues another one keeps its link.
LEMMA ContinuedLink ==
    ASSUME NEW e \in Entry, NEW o \in Entry, Continues(e, o)
    PROVE  LinkOf(e) = LinkOf(o)
BY DEF LinkOf, Continues

LEMMA MismatchedLink ==
    ASSUME NEW e \in Entry
    PROVE  Mismatched(e) \in Entry /\ LinkOf(Mismatched(e)) = LinkOf(e)
BY OutcomeType DEF LinkOf

LEMMA LinksStep == ProcInv /\ LinksSaved /\ [Next]_vars => LinksSaved'
<1> SUFFICES ASSUME ProcInv, LinksSaved, [Next]_vars PROVE LinksSaved'
  OBVIOUS
<1>1. pc' = "note" => pend'.id = NoId
  BY NotesUnlinked DEF LinksSaved
<1>3. NewIsOpen'
  BY NewStaysOpen DEF LinksSaved
<1>2. \A u \in Users : LinkOf(mem'[u]) = LinkOf(file'[u])
  <2>1. CASE UNCHANGED file /\ UNCHANGED mem
    BY <2>1 DEF LinksSaved
  <2>2. CASE mem' = file /\ file' = file
    BY <2>2
  <2>3. CASE Save
    BY <2>3 DEF Save
  <2>4. CASE SaveFails
    <3>1. CASE Exit
      BY <3>1 DEF Exit
    <3>2. CASE ~Exit
      <4>1. pc = "note" /\ mem' = [mem EXCEPT ![cur] = pend] /\ file' = file
        BY <2>4, <3>2 DEF SaveFails
      <4>2. cur \in Users /\ pend \in Entry /\ Continues(pend, mem[cur])
            /\ pend.id = NoId /\ mem \in [Users -> Entry \cup {NoEntry}]
        BY <4>1 DEF ProcInv, Control, Saving, ProcTypeOK, LinksSaved
      <4>3. LinkOf(pend) = LinkOf(mem[cur])
        BY <4>2, NoIdUnlinked DEF LinkOf, Continues
      <4> QED
        BY <4>1, <4>2, <4>3 DEF LinksSaved
    <3> QED
      BY <3>1, <3>2
  <2>5. CASE \E W \in SUBSET Mismatches : PlanWith(W)
    <3> SUFFICES ASSUME NEW u \in Users PROVE LinkOf(mem'[u]) = LinkOf(file'[u])
      OBVIOUS
    <3>1. /\ mem'[u] = IF u \in Mismatches THEN Mismatched(mem[u]) ELSE mem[u]
          /\ file'[u] \in {file[u], mem[u], mem'[u]}
      BY <2>5 DEF PlanWith
    <3>2. u \in Mismatches => mem[u] \in Entry
      BY DEF Mismatches, ProcInv, ProcTypeOK
    <3>3. LinkOf(mem'[u]) = LinkOf(mem[u])
      BY <3>1, <3>2, MismatchedLink
    <3> QED
      BY <3>1, <3>3 DEF LinksSaved
  <2> QED
    BY <2>1, <2>2, <2>3, <2>4, <2>5, MemoryStep, FileStep
<1> QED
  BY <1>1, <1>2, <1>3 DEF LinksSaved

-----------------------------------------------------------------------------
(* The steps. *)

\* A step on the state file: links stay or appear, and at most one user, the one
\* whose entry is saved, gets a link or a tombstone.
LEMMA FileMaps ==
    ASSUME EnvTypeOK, ProcInv, MasInv, LinksSaved, ~DryRun, UNCHANGED mas,
           Save \/ \E W \in SUBSET Mismatches : PlanWith(W)
    PROVE  [Sync!Next]_(Sync!vars)
<1> DEFINE tombs == {u \in Users : Tombstoned(file[u])}
           links == [u \in Users |-> LinkOf(file[u])]
<1>1. CASE Save
  <2>1. /\ cur \in Users /\ pend \in Entry /\ Continues(pend, mem[cur])
        /\ mem \in [Users -> Entry \cup {NoEntry}] /\ pc \in Saving
        /\ pc = "note" => pend.status = "error"
    BY <1>1 DEF Save, Saving, ProcInv, Control, ProcTypeOK
  <2>2. \A v \in Users : file'[v] = IF v = cur THEN pend ELSE mem[v]
    BY <1>1, <2>1 DEF Save
  <2>3. \A v \in Users : Tombstoned(mem[v]) => Tombstoned(file[v])
    BY DEF Tombstoned, ProcInv, OnlyErrorsUnsaved
  <2>4. \A v \in Users \ {cur} : /\ links'[v] = links[v]
                                 /\ v \in tombs' => v \in tombs
    BY <2>2, <2>3 DEF LinksSaved
  <2>5. links'[cur] = LinkOf(pend) /\ links[cur] = LinkOf(mem[cur])
    BY <2>1, <2>2 DEF LinksSaved
  <2>6. pend \in EntriesOf(cur)
    BY <2>1 DEF EntriesOf
  <2>7. CASE links'[cur] # links[cur]
    <3>1. links[cur] = NoId /\ links'[cur] = pend.id /\ pend.id \in MasIds /\ mem[cur] = NoEntry
      <4>1. mem[cur] = NoEntry
        BY <2>1, <2>5, <2>7, ContinuedLink
      <4> QED
        BY <2>5, <2>7, <4>1 DEF LinkOf
    <3>2. OwnAccount(mas, cur, pend.id)
      BY <2>1, <2>6, <3>1 DEF MasInv, CorrelationIsOwn
    <3>3. pend.status # "deactivated"
      BY <2>1, <3>1 DEF LinksSaved, NewIsOpen
    <3>4. tombs' \in SUBSET (tombs \ {cur})
      BY <2>2, <2>4, <3>3 DEF Tombstoned
    <3>5. links' = [links EXCEPT ![cur] = pend.id]
      BY <2>1, <2>4, <3>1
    <3>6. /\ Shown(mas[pend.id]).side # "unissued"
          /\ Sync!Live(pend.id) => Shown(mas[pend.id]).name = NameOf[cur]
      BY <3>1, <3>2 DEF OwnAccount, Shown, Side, Sync!Live
    <3>7. Sync!Link(cur, pend.id)
      BY <3>1, <3>4, <3>5, <3>6 DEF Sync!Link
    <3> QED
      BY <2>1, <3>1, <3>7 DEF Sync!Next
  <2>8. CASE links'[cur] = links[cur] /\ ~(cur \in tombs' /\ cur \notin tombs)
    <3>1. links' = links /\ tombs' \in SUBSET tombs
      BY <2>4, <2>8
    <3> QED
      BY <3>1 DEF Sync!Next, Sync!Reopen
  <2>9. CASE links'[cur] = links[cur] /\ cur \in tombs' /\ cur \notin tombs
    <3>1. links' = links /\ \E R \in SUBSET tombs : tombs' = R \cup {cur}
      <4>1. tombs' \ {cur} \in SUBSET tombs /\ tombs' = (tombs' \ {cur}) \cup {cur}
        BY <2>4, <2>9
      <4> QED
        BY <2>4, <2>9, <4>1
    <3>2. pend.status = "deactivated" /\ pc = "save"
      BY <2>1, <2>2, <2>9 DEF Tombstoned, Saving
    <3>3. pend \in Entry /\ (Live(pend.id) => ~mas[pend.id].active)
      BY <2>1, <3>2 DEF MasInv, TombstoneDone
    <3>4. links[cur] # NoId => links[cur] = pend.id /\ pend.id \in MasIds
      BY <2>5, <2>9 DEF LinkOf
    <3>5. links[cur] # NoId => Shown(mas[links[cur]]).side # "active"
      BY <3>3, <3>4 DEF Shown, Side, Live
    <3>6. Sync!Remove(cur)
      BY <2>1, <3>1, <3>4, <3>5 DEF Sync!Remove
    <3> QED
      BY <2>1, <3>6 DEF Sync!Next
  <2> QED
    BY <2>7, <2>8, <2>9
<1>2. CASE \E W \in SUBSET Mismatches : PlanWith(W)
  <2>1. ASSUME NEW v \in Users
        PROVE  links'[v] = links[v] /\ (v \in tombs' => v \in tombs)
    <3>1. file'[v] \in {file[v], mem[v]}
          \/ (v \in Mismatches /\ file'[v] = Mismatched(mem[v]))
      BY <1>2 DEF PlanWith
    <3>2. v \in Mismatches => mem[v] \in Entry
      BY DEF Mismatches, ProcInv, ProcTypeOK
    <3>3. LinkOf(file'[v]) = LinkOf(file[v])
      BY <3>1, <3>2, MismatchedLink DEF LinksSaved
    <3>4. Tombstoned(mem[v]) => Tombstoned(file[v])
      BY DEF Tombstoned, ProcInv, OnlyErrorsUnsaved
    <3>5. Tombstoned(file'[v]) => Tombstoned(file[v])
      BY <3>1, <3>2, <3>4, OutcomeType DEF Tombstoned
    <3> QED
      BY <3>3, <3>5
  <2>2. links' = links /\ tombs' \in SUBSET tombs
    BY <2>1
  <2> QED
    BY <2>2 DEF Sync!Next, Sync!Reopen
<1> QED
  BY <1>1, <1>2

LEMMA ShownAccount ==
    ASSUME NEW a \in Account
    PROVE  /\ a \notin {Unissued, Gone}
           /\ Shown(a) = [name |-> a.name, side |-> IF a.active THEN "active" ELSE "inactive"]
           /\ a.name \in Names
<1>1. a \notin {Unissued, Gone} /\ a.name \in Names
  BY DEF Account
<1> QED
  BY <1>1 DEF Shown, Side

\* A step of the bridge on the accounts: one is issued, or one a user is linked
\* to changes sides.
LEMMA ChangeMaps ==
    ASSUME EnvTypeOK, EnvTypeOK', ProcInv, MasInv, LinksSaved, NamesKept, UNCHANGED file,
           NEW u \in Users, MasChange(u)
    PROVE  [Sync!Next]_(Sync!vars)
<1> USE DEF EnvTypeOK
<1> DEFINE accounts == [i \in MasIds |-> Shown(mas[i])]
           links == [v \in Users |-> LinkOf(file[v])]
<1>0. links' = links /\ {v \in Users : Tombstoned(file[v])}' = {v \in Users : Tombstoned(file[v])}
  OBVIOUS
<1>1. CASE UNCHANGED mas
  BY <1>1 DEF Sync!vars
<1>2. ASSUME NEW i \in MasIds, CanSync(u), Issues(u, i) PROVE Sync!Issue(u, i)
  <2>1. /\ mas[i] = Unissued /\ mas' = [mas EXCEPT ![i] = NewAccount(u, Desired(scope[u]))]
        /\ NewAccount(u, Desired(scope[u])) \in Account
        /\ NewAccount(u, Desired(scope[u])).name = NameOf[u]
    BY <1>2, DesiredType, NewAccountType DEF Issues, NewAccount, CanSync
  <2> DEFINE n == NewAccount(u, Desired(scope[u]))
  <2>2. accounts' = [accounts EXCEPT ![i] = Shown(n)]
    BY <2>1
  <2>3. \E s \in {"active", "inactive"} : Shown(n) = [name |-> NameOf[u], side |-> s]
    BY <2>1, ShownAccount
  <2>4. accounts[i].side = "unissued"
    BY <2>1 DEF Shown, Side
  <2>5. \A j \in MasIds : Sync!Live(j) => accounts[j].name # NameOf[u]
    <3> SUFFICES ASSUME NEW j \in MasIds, accounts[j].side \in {"active", "inactive"}
                 PROVE  accounts[j].name # NameOf[u]
      BY DEF Sync!Live
    <3>1. mas[j] \notin {Unissued, Gone}
      BY DEF Shown, Side
    <3>2. accounts[j].name = mas[j].name
      BY <3>1, ShownAccount
    <3> QED
      BY <1>2, <3>1, <3>2 DEF Issues, Taken, MatchName, Live
  <2> QED
    BY <1>0, <2>2, <2>3, <2>4, <2>5 DEF Sync!Issue
<1>3. ASSUME mem[u] \in Entry, NEW a \in Account, Live(mem[u].id),
             mas' = [mas EXCEPT ![mem[u].id] = a]
      PROVE  Sync!Switch(u)
  <2> DEFINE i == mem[u].id
  <2>1. i \in MasIds /\ mas[i] \in Account /\ mas'[i] = a /\ a.name = mas[i].name
    BY <1>3, ShownAccount DEF Live, NamesKept
  <2>2. links[u] = i /\ i # NoId
    BY <1>3, <2>1, NoIdUnlinked DEF LinksSaved, LinkOf
  <2>3. accounts' = [accounts EXCEPT ![i] = Shown(a)]
    BY <1>3, <2>1
  <2>4. accounts[i] = [name |-> a.name, side |-> accounts[i].side] /\ Sync!Live(i)
    BY <2>1, ShownAccount DEF Sync!Live
  <2>5. PICK s \in {"active", "inactive"} : Shown(a) = [accounts[i] EXCEPT !.side = s]
    BY <2>4, ShownAccount
  <2> HIDE DEF i
  <2> QED
    BY <1>0, <2>2, <2>3, <2>4, <2>5 DEF Sync!Switch
<1>4. CASE CanSync(u) /\ mem[u] \in Entry /\ MasPatch(u)
  <2>1. mas[mem[u].id] \in Account /\ Wanted(u) \in Snapshot
    BY <1>4, DesiredType DEF MasPatch, Live, Wanted, CanSync
  <2>2. Patched(mas[mem[u].id], Diff(mem[u].snap, Wanted(u)), Wanted(u)) \in Account
    BY <2>1, PatchedType
  <2> QED
    BY <1>3, <1>4, <2>2 DEF MasPatch, Sync!Next
<1>5. CASE CanSync(u) /\ mem[u] \in Entry /\ MasPut(u)
  <2>1. NewAccount(u, Wanted(u)) \in Account
    BY <1>5, DesiredType, NewAccountType DEF Wanted, CanSync
  <2> QED
    BY <1>3, <1>5, <2>1 DEF MasPut, Sync!Next
<1>6. CASE mem[u] \in Entry /\ MasDeactivate(u)
  <2>1. mas[mem[u].id] \in Account
    BY <1>6 DEF MasDeactivate, Live
  <2>2. [mas[mem[u].id] EXCEPT !.active = FALSE] \in Account
    BY <2>1 DEF Account
  <2> QED
    BY <1>3, <1>6, <2>2 DEF MasDeactivate, Sync!Next
<1>7. CASE CanSync(u) /\ \E i \in MasIds : Issues(u, i)
  BY <1>2, <1>7 DEF Sync!Next
<1> QED
  BY <1>1, <1>4, <1>5, <1>6, <1>7 DEF MasChange

LEMMA DeleteMaps ==
    ASSUME EnvTypeOK, UNCHANGED file,
           NEW i \in MasIds, Live(i), mas' = [mas EXCEPT ![i] = Gone]
    PROVE  Sync!Delete(i)
<1> DEFINE accounts == [j \in MasIds |-> Shown(mas[j])]
<1>1. mas[i] \in Account /\ Shown(Gone) = [name |-> NoId, side |-> "gone"]
  BY DEF Live, EnvTypeOK, Shown, Side
<1>2. accounts' = [accounts EXCEPT ![i] = Shown(Gone)]
  BY DEF EnvTypeOK
<1>3. Sync!Live(i)
  BY <1>1, ShownAccount DEF Sync!Live
<1> QED
  BY <1>1, <1>2, <1>3 DEF Sync!Delete

LEMMA InitMaps == Init => Sync!Init
<1> SUFFICES ASSUME Init PROVE Sync!Init
  OBVIOUS
<1>1. /\ mas \in [MasIds -> Account \cup {Unissued, Gone}] /\ mas \in InitialMas
      /\ file \in [Users -> Entry \cup {NoEntry}] /\ file \in InitialFile
  BY DEF Init
<1>2. \A i \in MasIds : Shown(mas[i]) \in [name : Names \cup {NoId}, side : Sync!Sides]
  <2> SUFFICES ASSUME NEW i \in MasIds
               PROVE  Shown(mas[i]) \in [name : Names \cup {NoId}, side : Sync!Sides]
    OBVIOUS
  <2>1. CASE mas[i] \in Account
    BY <2>1, ShownAccount DEF Sync!Sides
  <2>2. CASE mas[i] \in {Unissued, Gone}
    BY <2>2 DEF Shown, Side, Sync!Sides
  <2> QED
    BY <1>1, <2>1, <2>2
<1>3. ASSUME NEW u \in Users
      PROVE  /\ LinkOf(file[u]) \in MasIds \cup {NoId}
             /\ LinkOf(file[u]) # NoId => mas[LinkOf(file[u])] # Unissued
  <2>1. file[u] # NoEntry /\ file[u].id \in MasIds => OwnAccount(mas, u, file[u].id)
    BY <1>1, InitialAssumption
  <2> QED
    BY <2>1 DEF LinkOf, OwnAccount
<1>4. \A i \in MasIds : mas[i] # Unissued => Shown(mas[i]).side # "unissued"
  BY DEF Shown, Side
<1> QED
  BY <1>2, <1>3, <1>4, NoIdUnlinked DEF Sync!Init

LEMMA StepMaps ==
    ASSUME TypeOK, TypeOK', ProcInv, MasInv, LinksSaved, ~DryRun, [Next]_vars
    PROVE  [Sync!Next]_(Sync!vars)
<1> USE DEF TypeOK
<1>1. CASE UNCHANGED file /\ UNCHANGED mas
  BY <1>1 DEF Sync!vars
<1>2. CASE Save \/ \E W \in SUBSET Mismatches : PlanWith(W)
  <2>1. UNCHANGED mas
    BY <1>2 DEF Save, PlanWith
  <2> QED
    BY <1>2, <2>1, FileMaps
<1>3. ASSUME UNCHANGED file, NEW u \in Users, Execute(u) PROVE [Sync!Next]_(Sync!vars)
  BY <1>3, ExecuteChangesMas, ChangeKeepsNames, ChangeMaps
<1>4. CASE /\ UNCHANGED file
           /\ \/ \E u \in Users : MoveUser(u) \/ EditUser(u)
              \/ \E i \in MasIds : DeleteAccount(i)
  <2>1. UNCHANGED mas \/ \E i \in MasIds : Live(i) /\ mas' = [mas EXCEPT ![i] = Gone]
    BY <1>4, EditFrame
  <2> QED
    BY <1>1, <1>4, <2>1, DeleteMaps DEF Sync!Next
<1>5. CASE UNCHANGED file /\ (Cycle \/ Crash \/ ExpireToken \/ UNCHANGED vars)
  BY <1>1, <1>5, CycleFrame DEF vars
<1> QED
  BY <1>2, <1>3, <1>4, <1>5, FileStep DEF Next, Bridge, Environment

\* A bridge that is never started in dry run keeps the promise of UserSync, for
\* any users, accounts, faults and edits.
THEOREM BridgeKeepsPromise ==
    ASSUME \A c \in Configs : ~c.dryRun
    PROVE  Spec => ImplementsUserSync
<1>1. Init => LinksSaved /\ Sync!Init
  BY LinksInit, InitMaps
<1>2. TypeOK /\ ProcInv /\ LinksSaved /\ [Next]_vars => LinksSaved'
  BY LinksStep
<1>3. TypeOK /\ TypeOK' /\ ProcInv /\ MasInv /\ LinksSaved /\ [Next]_vars
      => [Sync!Next]_(Sync!vars)
  <2>1. TypeOK => ~DryRun
    BY DEF TypeOK, ProcTypeOK
  <2> QED
    BY <2>1, StepMaps
<1> QED
  BY <1>1, <1>2, <1>3, BridgeSound, PTL DEF Spec, Sync!Spec, ImplementsUserSync

-----------------------------------------------------------------------------
(* What MAS holds is what the bridge believes, in a world without reuse of *)
(* names, crashes, full disks and calls applied without a good answer.     *)

\* Every fault is answered: the bridge knows what a call did, and saves it.
AnsweredFaults == FaultKinds \cap {"crash", "disk", "lost", "retried", "decode"} = {}

\* No process starts in dry run.
NoDryRun == \A c \in Configs : ~c.dryRun

\* At the first start the file knows every account of a user's name, its snapshots
\* are what MAS holds, and its tombstones are over inactive accounts.
TrueFiles ==
    \A m \in InitialMas, f \in InitialFile :
        /\ \A i \in MasIds, u \in Users :
              m[i] \notin {Unissued, Gone} /\ m[i].name = NameOf[u] =>
                 f[u] # NoEntry /\ f[u].id = i
        /\ \A u \in Users :
              f[u] # NoEntry /\ f[u].id \in MasIds /\ m[f[u].id] \notin {Unissued, Gone} =>
                 /\ f[u].snap # NoSnap => Diff(f[u].snap, m[f[u].id]) = {}
                 /\ f[u].status = "deactivated" => ~m[f[u].id].active

GoodWorld == OwnNames /\ AnsweredFaults /\ NoDryRun /\ TrueFiles

\* The entry of a user that counts: the one about to be saved, or the one in memory.
AtSave(u) == pc \in Saving /\ cur = u
Newest(u) == IF AtSave(u) THEN pend ELSE mem[u]

\* What an entry says of its account is so.
TrueEntry(e) ==
    Live(e.id) => /\ e.snap # NoSnap => Diff(e.snap, mas[e.id]) = {}
                  /\ e.status = "deactivated" => ~mas[e.id].active

AllTrue == \A u \in Users : Newest(u) # NoEntry => TrueEntry(Newest(u))

\* The account of a user's name is the one the user is linked to, so no create meets
\* a conflict.
AllTracked ==
    \A i \in MasIds, u \in Users : Live(i) /\ mas[i].name = NameOf[u] =>
        Newest(u) # NoEntry /\ Newest(u).id = i

\* The entry was brought in line: an update leaves the account as wanted, a removal
\* leaves it inactive, unless an error stands or the account is gone.
InLine(u, e) ==
    e # NoEntry /\ e.status # "error" /\ Live(e.id) =>
        /\ u \in Mapped => Diff(Desired(scope[u]), mas[e.id]) = {}
        /\ scope[u] = NoUser => ~mas[e.id].active

\* The user's action of this loop is done; the loop is the one of the removals.
Acted(u) == u \notin todo \/ AtSave(u)
Late     == pc \in {"remove", "idle"} \/ (pc \in Saving /\ scope[cur] = NoUser)

SyncedSoFar ==
    Writes /\ pc \in {"sync", "put", "remove", "idle"} \cup Saving =>
        \A u \in Users : Acted(u) /\ (scope[u] # NoUser \/ (GroupMode /\ Late))
                            => InLine(u, Newest(u))

SyncInv ==
    /\ mem = file
    /\ pc \notin Searching
    /\ AllTrue /\ AllTracked /\ SyncedSoFar

-----------------------------------------------------------------------------
(* Entries and accounts. *)

LEMMA DiffNone ==
    ASSUME NEW a, NEW b
    PROVE  Diff(a, b) = {} <=> a.val = b.val /\ a.active = b.active
BY DEF Diff

\* Applying the diff to an account that holds the snapshot gives the wanted document.
LEMMA PatchReaches ==
    ASSUME NEW a \in Account, NEW s \in Snapshot, NEW d \in Snapshot, Diff(s, a) = {}
    PROVE  LET b == Patched(a, Diff(s, d), d)
           IN  b.val = d.val /\ b.active = d.active
<1>1. s.val = a.val /\ s.active = a.active
  BY DiffNone
<1>2. /\ "val" \in Diff(s, d) <=> s.val # d.val
      /\ "active" \in Diff(s, d) <=> s.active # d.active
  BY DEF Diff
<1> QED
  BY <1>1, <1>2 DEF Patched, Account

\* Nobody has an account before it is tracked.
LEMMA Untaken ==
    ASSUME MasInv, AllTracked, pc \notin Saving, NEW u \in Users, mem[u] = NoEntry
    PROVE  ~Taken(u)
<1> SUFFICES ASSUME NEW i \in MatchName(u) \cup MatchExt(u) PROVE FALSE
  BY DEF Taken
<1>1. i \in MasIds /\ Live(i) /\ mas[i].name = NameOf[u]
  BY MatchesAreOwn DEF MasInv, OwnAccount, Live, MatchName, MatchExt
<1> QED
  BY <1>1 DEF AllTracked, Newest, AtSave

-----------------------------------------------------------------------------
(* The shapes of a step. *)

\* Accounts stay as they are, or go.
AccountsStay == \A i \in MasIds : mas'[i] \in {mas[i], Gone}

LEMMA EntriesStay ==
    ASSUME AllTrue, AllTracked, AccountsStay, \A u \in Users : Newest(u)' = Newest(u)
    PROVE  AllTrue' /\ AllTracked'
<1>1. AllTrue'
  <2> SUFFICES ASSUME NEW u \in Users, Newest(u)' # NoEntry
               PROVE  TrueEntry(Newest(u))'
    BY DEF AllTrue
  <2> DEFINE e == Newest(u)
  <2>1. TrueEntry(e) /\ Newest(u)' = e
    BY DEF AllTrue
  <2> QED
    BY <2>1 DEF TrueEntry, AccountsStay, Live
<1>2. AllTracked'
  BY DEF AllTracked, AccountsStay, Live
<1> QED
  BY <1>1, <1>2

\* Steps that leave the entries as they are and go on to a part of the cycle that
\* SyncedSoFar does not speak of.
LEMMA AwayKeeps ==
    ASSUME SyncInv, AccountsStay, pc \notin Saving, mem' = mem, file' = file,
           pc' \in {"down", "resolve", "plan"}
    PROVE  SyncInv'
<1>1. \A u \in Users : Newest(u)' = Newest(u)
  BY DEF Newest, AtSave, Saving
<1>2. AllTrue' /\ AllTracked'
  BY <1>1, EntriesStay DEF SyncInv
<1>3. SyncedSoFar'
  BY DEF SyncedSoFar, Saving
<1> QED
  BY <1>2, <1>3 DEF SyncInv, Searching

\* Steps beside the process: only accounts may go.
LEMMA BesideKeeps ==
    ASSUME SyncInv, AccountsStay, UNCHANGED procState
    PROVE  SyncInv'
<1> USE DEF procState
<1>1. \A u \in Users : Newest(u)' = Newest(u)
  BY DEF Newest, AtSave
<1>2. AllTrue' /\ AllTracked'
  BY <1>1, EntriesStay DEF SyncInv
<1>3. SyncedSoFar'
  <2> SUFFICES ASSUME Writes', (pc \in {"sync", "put", "remove", "idle"} \cup Saving)',
                      NEW u \in Users, Acted(u)',
                      (scope[u] # NoUser \/ (GroupMode /\ Late))'
               PROVE  InLine(u, Newest(u))'
    BY DEF SyncedSoFar
  <2> DEFINE e == Newest(u)
  <2>1. InLine(u, e)
    BY DEF SyncInv, SyncedSoFar, Writes, Acted, AtSave, Late
  <2>2. Newest(u)' = e /\ scope' = scope
    BY <1>1
  <2> QED
    BY <2>1, <2>2 DEF InLine, AccountsStay, Live, Mapped
<1> QED
  BY <1>2, <1>3 DEF SyncInv

\* The process ends between a save and the next call: nothing is lost.
LEMMA LeaveKeeps ==
    ASSUME SyncInv, UNCHANGED mas, pc \notin Saving,
           Exit \/ (pc' = "resolve" /\ UNCHANGED <<file, mem>>)
    PROVE  SyncInv'
<1>1. mem' = mem /\ file' = file /\ pc' \in {"down", "resolve"}
  BY DEF Exit, SyncInv
<1>2. AccountsStay
  BY DEF AccountsStay
<1> QED
  BY <1>1, <1>2, AwayKeeps

\* What is true of u when its action is over.
DoneWell(u, e) == TrueEntry(e) /\ (Writes => InLine(u, e))

\* The action of u ends without an outcome, or goes on.
LEMMA PassKeeps ==
    ASSUME ProcInv, SyncInv, NEW u \in todo, UNCHANGED mas, pc \in {"sync", "remove"},
           \/ Skip(u) /\ (Writes => InLine(u, mem[u]))
           \/ Goto(u, "put") /\ pc = "sync"
    PROVE  SyncInv'
<1> USE DEF Skip, Goto, procVars
<1>1. u \in Users /\ (AllSync \/ AllRemove)
  BY DEF ProcInv, ProcTypeOK, Control
<1>2. pc = "remove" <=> Loop(u) = "remove"
  BY <1>1 DEF ProcInv, Control, AllSync, AllRemove, CanSync, CanRemove, Loop
<1>3. pc' \in {"sync", "put", "remove"} /\ (pc' = "remove" <=> pc = "remove")
  BY <1>1, <1>2 DEF Loop
<1>4. \A v \in Users : Newest(v)' = Newest(v) /\ Newest(v) = mem[v]
  BY <1>3 DEF Newest, AtSave, Saving
<1>5. AllTrue' /\ AllTracked'
  BY <1>4, EntriesStay DEF SyncInv, AccountsStay
<1>6. SyncedSoFar'
  <2> SUFFICES ASSUME Writes', NEW v \in Users, Acted(v)',
                      (scope[v] # NoUser \/ (GroupMode /\ Late))'
               PROVE  InLine(v, Newest(v))'
    BY DEF SyncedSoFar
  <2>1. InLine(v, mem[v])
    <3>1. Writes /\ (scope[v] # NoUser \/ (GroupMode /\ Late))
      BY <1>3 DEF Writes, Late, Saving
    <3>2. CASE v = u /\ Skip(u)
      BY <3>1, <3>2
    <3>3. CASE ~(v = u /\ Skip(u))
      <4>1. v \notin todo
        BY <1>3, <3>3 DEF Acted, AtSave, Saving
      <4> QED
        BY <1>4, <3>1, <4>1 DEF SyncInv, SyncedSoFar, Acted
    <3> QED
      BY <3>2, <3>3
  <2>2. mem' = mem /\ scope' = scope /\ Newest(v)' = mem[v]
    BY <1>4
  <2> QED
    BY <2>1, <2>2 DEF InLine, Live, Mapped
<1>7. pc' \notin Searching /\ mem' = file'
  BY <1>3 DEF Searching, SyncInv
<1> QED
  BY <1>5, <1>6, <1>7 DEF SyncInv

\* The action of u has an outcome, which is true of what the call has done; no other
\* account was touched.
LEMMA OutcomeKeeps ==
    ASSUME OwnNames, ProcInv, SyncInv, CorrelationIsOwn', NEW u \in todo, NEW e \in Entry,
           NEW p \in Saving, Record(u, e, p), pc \in {"sync", "put", "remove"},
           \A i \in MasIds : i # e.id => mas'[i] = mas[i],
           mem[u] # NoEntry => e.id = mem[u].id,
           DoneWell(u, e)'
    PROVE  SyncInv'
<1> USE DEF Record, procVars
<1>1. u \in Users /\ (AllSync \/ AllRemove) /\ e # NoEntry
  BY DEF ProcInv, ProcTypeOK, Control
<1>2. pc = "remove" <=> scope[u] = NoUser
  BY <1>1 DEF ProcInv, Control, AllSync, AllRemove, CanSync, CanRemove
<1>3. /\ Newest(u)' = e
      /\ \A v \in Users \ {u} : Newest(v)' = mem[v]
      /\ \A v \in Users : Newest(v) = mem[v]
  BY <1>1 DEF Newest, AtSave, Saving
<1>4. ASSUME NEW v \in Users \ {u}, mem[v] # NoEntry, Live(mem[v].id)'
      PROVE  mem[v].id # e.id /\ Live(mem[v].id) /\ mas'[mem[v].id] = mas[mem[v].id]
  <2>1. mem[v] \in EntriesOf(v)' /\ e \in EntriesOf(u)'
    BY <1>1, <1>4 DEF EntriesOf
  <2>2. mem[v].id # e.id
    BY <1>1, <1>4, <2>1 DEF OwnNames, CorrelationIsOwn, OwnAccount, Live
  <2> QED
    BY <1>4, <2>2 DEF Live
<1>5. AllTrue'
  <2> SUFFICES ASSUME NEW v \in Users, Newest(v)' # NoEntry
               PROVE  TrueEntry(Newest(v))'
    BY DEF AllTrue
  <2>1. CASE v = u
    BY <1>3, <2>1 DEF DoneWell, TrueEntry
  <2>2. CASE v # u
    <3>1. PICK f : f = mem[v]
      OBVIOUS
    <3>2. TrueEntry(f) /\ f # NoEntry /\ Newest(v)' = f
      BY <1>3, <2>2, <3>1 DEF SyncInv, AllTrue
    <3>3. Live(f.id)' => Live(f.id) /\ mas'[f.id] = mas[f.id]
      BY <1>4, <2>2, <3>1, <3>2 DEF Live
    <3>4. TrueEntry(f)'
      BY <3>2, <3>3 DEF TrueEntry
    <3> QED
      BY <3>2, <3>4 DEF TrueEntry, Live
  <2> QED
    BY <2>1, <2>2
<1>6. AllTracked'
  <2> SUFFICES ASSUME NEW i \in MasIds, NEW v \in Users, Live(i)', mas'[i].name = NameOf[v]
               PROVE  Newest(v)' # NoEntry /\ (Newest(v)').id = i
    BY DEF AllTracked
  <2>1. CASE i = e.id
    <3>1. mas'[i].name = NameOf[u]
      BY <1>1, <2>1 DEF CorrelationIsOwn, EntriesOf, OwnAccount, Live
    <3> QED
      BY <1>1, <1>3, <2>1, <3>1 DEF OwnNames
  <2>2. CASE i # e.id
    <3>1. mem[v] # NoEntry /\ mem[v].id = i
      BY <1>3, <2>2 DEF SyncInv, AllTracked, Live
    <3>2. v # u
      BY <2>2, <3>1
    <3> QED
      BY <1>3, <3>1, <3>2
  <2> QED
    BY <2>1, <2>2
<1>7. SyncedSoFar'
  <2> SUFFICES ASSUME Writes', NEW v \in Users, Acted(v)',
                      (scope[v] # NoUser \/ (GroupMode /\ Late))'
               PROVE  InLine(v, Newest(v))'
    BY DEF SyncedSoFar
  <2>1. CASE v = u
    BY <1>3, <2>1 DEF DoneWell, InLine
  <2>2. CASE v # u
    <3>0. PICK f : f = mem[v]
      OBVIOUS
    <3>1. Writes /\ (scope[v] # NoUser \/ (GroupMode /\ Late)) /\ v \notin todo
      BY <1>2, <2>2 DEF Writes, Late, Acted, AtSave, Saving
    <3>2. InLine(v, f) /\ Newest(v)' = f
      BY <1>3, <2>2, <3>0, <3>1 DEF SyncInv, SyncedSoFar, Acted
    <3>3. f # NoEntry /\ Live(f.id)' => Live(f.id) /\ mas'[f.id] = mas[f.id]
      BY <1>4, <2>2, <3>0 DEF Live
    <3>4. InLine(v, f)'
      BY <3>2, <3>3 DEF InLine, Mapped
    <3> QED
      BY <3>2, <3>4 DEF InLine, Live
  <2> QED
    BY <2>1, <2>2
<1>8. pc' \notin Searching /\ mem' = file'
  BY DEF Searching, Saving, SyncInv
<1> QED
  BY <1>5, <1>6, <1>7, <1>8 DEF SyncInv

-----------------------------------------------------------------------------
(* The steps of the cycle. *)

LEMMA WorldFacts ==
    ASSUME GoodWorld, TypeOK
    PROVE  /\ OwnNames /\ ~DryRun
           /\ \A k \in {"crash", "disk", "lost", "retried", "decode"} : ~Fault(k)
BY DEF GoodWorld, AnsweredFaults, NoDryRun, TypeOK, ProcTypeOK, Fault

LEMMA SyncInit == Init /\ GoodWorld => SyncInv
<1> SUFFICES ASSUME Init, GoodWorld PROVE SyncInv
  OBVIOUS
<1>1. /\ mas \in InitialMas /\ file \in InitialFile /\ mem = file /\ pc = "down"
      /\ file \in [Users -> Entry \cup {NoEntry}]
  BY DEF Init
<1>2. \A u \in Users : Newest(u) = file[u]
  BY <1>1 DEF Newest, AtSave, Saving
<1>3. AllTrue
  BY <1>1, <1>2 DEF AllTrue, TrueEntry, GoodWorld, TrueFiles, Live
<1>4. AllTracked
  BY <1>1, <1>2 DEF AllTracked, GoodWorld, TrueFiles, Live
<1> QED
  BY <1>1, <1>3, <1>4 DEF SyncInv, SyncedSoFar, Saving, Searching

\* The plan records mismatches, which say nothing of the account.
LEMMA PlanSyncs ==
    ASSUME ProcInv, SyncInv, PlanWith(Mismatches)
    PROVE  SyncInv'
<1> USE DEF PlanWith, procVars
<1>1. /\ pc = "plan" /\ pc' = "sync" /\ mas' = mas /\ scope' = scope
      /\ \A u \in Users : Newest(u) = mem[u] /\ Newest(u)' = mem'[u]
  BY DEF Newest, AtSave, Saving
<1>2. ASSUME NEW u \in Users
      PROVE  \/ mem'[u] = mem[u] /\ u \notin Mismatches
             \/ /\ u \in Mismatches /\ mem[u] \in Entry /\ mem'[u] \in Entry
                /\ mem'[u].id = mem[u].id /\ mem'[u].snap = NoSnap /\ mem'[u].status = "error"
  <2>1. mem[u] \in Entry \cup {NoEntry}
    BY DEF ProcInv, ProcTypeOK
  <2>2. CASE u \in Mismatches
    <3>1. mem[u] \in Entry /\ mem'[u] = Mismatched(mem[u])
      BY <2>1, <2>2 DEF Mismatches
    <3>2. Mismatched(mem[u]).snap = NoSnap
      BY <3>1 DEF Mismatched, Entry
    <3> QED
      BY <2>2, <3>1, <3>2, OutcomeType
  <2> QED
    BY <2>2
<1>3. AllTrue'
  <2> SUFFICES ASSUME NEW u \in Users, Newest(u)' # NoEntry
               PROVE  TrueEntry(Newest(u))'
    BY DEF AllTrue
  <2>1. PICK e : e = mem'[u] /\ e = Newest(u)' /\ e # NoEntry
    BY <1>1
  <2>2. CASE mem'[u] = mem[u]
    <3>1. TrueEntry(e)
      BY <1>1, <2>1, <2>2 DEF SyncInv, AllTrue
    <3> QED
      BY <1>1, <2>1, <3>1 DEF TrueEntry, Live
  <2>3. CASE e.snap = NoSnap /\ e.status = "error"
    BY <2>1, <2>3 DEF TrueEntry
  <2> QED
    BY <1>2, <2>1, <2>2, <2>3
<1>4. AllTracked'
  <2> SUFFICES ASSUME NEW i \in MasIds, NEW u \in Users, Live(i)', mas'[i].name = NameOf[u]
               PROVE  mem'[u] # NoEntry /\ mem'[u].id = i
    BY <1>1 DEF AllTracked
  <2>1. mem[u] # NoEntry /\ mem[u].id = i
    BY <1>1 DEF SyncInv, AllTracked, Live
  <2> QED
    BY <1>2, <2>1
<1>5. SyncedSoFar'
  <2> SUFFICES ASSUME NEW u \in Users, Acted(u)', (scope[u] # NoUser \/ (GroupMode /\ Late))'
               PROVE  InLine(u, Newest(u))'
    BY <1>1 DEF SyncedSoFar
  <2>1. u \notin Planned /\ scope[u] # NoUser
    BY <1>1 DEF Acted, AtSave, Saving, Late
  <2>2. u \in Mapped => mem'[u] # NoEntry /\ mem'[u].status = "error"
    BY <1>2, <2>1 DEF Planned
  <2> QED
    BY <1>1, <2>1, <2>2 DEF InLine, Mapped
<1>6. mem' = file'
  <2>1. mem \in [Users -> Entry \cup {NoEntry}] /\ mem = file
    BY DEF ProcInv, ProcTypeOK, SyncInv
  <2>2. Mismatches = {} => mem' = mem
    BY <2>1
  <2>3. Mismatches # {} => file' = mem'
    OBVIOUS
  <2> QED
    BY <2>1, <2>2, <2>3
<1> QED
  BY <1>1, <1>3, <1>4, <1>5, <1>6 DEF SyncInv, Searching

\* When removal detection begins, whoever it passes over is inactive or has no account.
LEMMA DoneSyncs ==
    ASSUME ProcInv, SyncInv, SyncDone \/ RemovalsDone
    PROVE  SyncInv'
<1>1. /\ mas' = mas /\ scope' = scope /\ mem' = mem /\ file' = file /\ config' = config
      /\ pc \in {"sync", "remove"} /\ pc' \in {"remove", "idle"} /\ todo = {}
      /\ pc = "sync" => \/ GroupMode /\ pc' = "remove" /\ todo' = PlanRemovals
                        \/ ~GroupMode
  BY DEF SyncDone, RemovalsDone, procVars
<1>2. \A u \in Users : Newest(u) = mem[u] /\ Newest(u)' = mem[u]
  BY <1>1 DEF Newest, AtSave, Saving
<1>3. AllTrue' /\ AllTracked'
  BY <1>1, <1>2, EntriesStay DEF SyncInv, AccountsStay
<1>4. SyncedSoFar'
  <2> SUFFICES ASSUME Writes', NEW u \in Users, Acted(u)',
                      (scope[u] # NoUser \/ (GroupMode /\ Late))'
               PROVE  InLine(u, mem[u])
    BY <1>1, <1>2 DEF SyncedSoFar, InLine, Live, Mapped
  <2>1. Writes /\ Acted(u)
    BY <1>1 DEF Writes, Acted
  <2>2. CASE scope[u] # NoUser \/ pc = "remove"
    BY <1>1, <1>2, <2>1, <2>2 DEF SyncInv, SyncedSoFar, Late
  <2>3. CASE scope[u] = NoUser /\ pc = "sync"
    <3>1. u \notin PlanRemovals
      BY <1>1, <2>3 DEF Acted, AtSave, Saving
    <3>2. mem[u] = NoEntry \/ mem[u].status = "deactivated" \/ mem[u].id = NoId
      BY <2>3, <3>1 DEF PlanRemovals
    <3>3. mem[u] # NoEntry => TrueEntry(mem[u])
      BY <1>2 DEF SyncInv, AllTrue
    <3>4. u \notin Mapped /\ ~Live(NoId)
      BY <2>3 DEF Mapped, Live, NoId, MasIds
    <3> QED
      BY <3>2, <3>3, <3>4 DEF InLine, TrueEntry
  <2> QED
    BY <1>1, <2>2, <2>3
<1> QED
  BY <1>1, <1>3, <1>4 DEF SyncInv, Searching

\* A save makes the outcome the entry in memory and on disk.
LEMMA SaveSyncs ==
    ASSUME ProcInv, SyncInv, Save
    PROVE  SyncInv'
<1> USE DEF Save, procVars
<1>1. /\ pc \in Saving /\ cur \in todo /\ cur \in Users /\ (AllSync \/ AllRemove)
      /\ mem \in [Users -> Entry \cup {NoEntry}]
  BY DEF ProcInv, ProcTypeOK, Control, Saving
<1>2. pc' \in {"sync", "remove"} /\ (pc' = "remove" <=> scope[cur] = NoUser)
  BY DEF Loop
<1>3. \A u \in Users : Newest(u)' = Newest(u)
  BY <1>1, <1>2 DEF Newest, AtSave, Saving
<1>4. AllTrue' /\ AllTracked'
  BY <1>3, EntriesStay DEF SyncInv, AccountsStay
<1>5. SyncedSoFar'
  <2> SUFFICES ASSUME Writes', NEW u \in Users, Acted(u)',
                      (scope[u] # NoUser \/ (GroupMode /\ Late))'
               PROVE  InLine(u, Newest(u))'
    BY DEF SyncedSoFar
  <2> DEFINE e == Newest(u)
  <2>1. Writes /\ Acted(u) /\ (scope[u] # NoUser \/ (GroupMode /\ Late))
    BY <1>1, <1>2 DEF Writes, Acted, AtSave, Late, Saving
  <2>2. InLine(u, e) /\ Newest(u)' = e
    BY <1>1, <1>3, <2>1 DEF SyncInv, SyncedSoFar
  <2> QED
    BY <2>2 DEF InLine, Live, Mapped
<1> QED
  BY <1>2, <1>4, <1>5 DEF SyncInv, Searching

LEMMA CycleSyncs ==
    ASSUME GoodWorld, TypeOK, ProcInv, SyncInv, Cycle \/ Crash \/ ExpireToken
    PROVE  SyncInv'
<1>1. \A k \in {"crash", "disk", "lost", "retried", "decode"} : ~Fault(k)
  BY WorldFacts
<1>2. AccountsStay /\ UNCHANGED mas
  BY CycleFrame DEF AccountsStay
<1>3. CASE Start \/ Tick \/ Resolve
  BY <1>2, <1>3, AwayKeeps DEF Start, Tick, Resolve, Saving, SyncInv
<1>4. CASE ResolveFails \/ Unauthorized
  <2>1. pc \notin Saving
    BY <1>4 DEF ResolveFails, Unauthorized, AtMasCall, Creating, Updating, Removing, Syncing,
       Saving
  <2> QED
    BY <1>2, <1>4, <2>1, LeaveKeeps DEF ResolveFails, Unauthorized
<1>5. CASE Plan
  BY <1>5, PlanSyncs DEF Plan
<1>6. CASE SyncDone \/ RemovalsDone
  BY <1>6, DoneSyncs
<1>7. CASE Save
  BY <1>7, SaveSyncs
<1>8. CASE ExpireToken
  BY <1>2, <1>8, BesideKeeps DEF ExpireToken, procState
<1>9. ~PlanUnsaved /\ ~SaveFails /\ ~Crash
  BY <1>1 DEF PlanUnsaved, SaveFails, Crash
<1> QED
  BY <1>3, <1>4, <1>5, <1>6, <1>7, <1>8, <1>9 DEF Cycle

-----------------------------------------------------------------------------
(* The steps of the executor. *)

\* The outcome of a call that left the account as wanted.
LEMMA CreatedIsTrue ==
    ASSUME NEW u \in Users, CanSync(u), NEW i \in MasIds, NEW e, e = Created(u, i),
           mas'[i].val = Wanted(u).val, mas'[i].active = Wanted(u).active, scope' = scope
    PROVE  DoneWell(u, e)'
<1>1. e.id = i /\ e.status = "ok" /\ e.snap = Wanted(u) /\ scope[u] # NoUser
  BY DEF Created, OkEntry, Wanted, CanSync
<1>2. Diff(Wanted(u), mas'[i]) = {}
  BY DiffNone
<1> QED
  BY <1>1, <1>2 DEF DoneWell, TrueEntry, InLine, Wanted

\* An error that keeps id and snapshot, of an account that was left alone.
LEMMA FailedIsTrue ==
    ASSUME NEW u \in Users, NEW e, mem[u] \in Entry, e = FailedUpdate(mem[u]),
           TrueEntry(mem[u]), mas' = mas
    PROVE  DoneWell(u, e)'
<1>1. e.id = mem[u].id /\ e.status = "error" /\ e.snap = mem[u].snap
  BY OutcomeType DEF FailedUpdate, Entry
<1> QED
  BY <1>1 DEF DoneWell, TrueEntry, InLine, Live

LEMMA CreateSyncs ==
    ASSUME GoodWorld, TypeOK, ProcInv, MasInv, MasInv', SyncInv, NEW u \in Users, Create(u)
    PROVE  SyncInv'
<1>1. /\ OwnNames /\ ~DryRun
      /\ \A k \in {"crash", "disk", "lost", "retried", "decode"} : ~Fault(k)
  BY WorldFacts
<1>2. Creating(u)
  BY DEF Create, CreateDryRun, CreateAccepted, CreateConflict, CreateRetried,
     CreateRejected, CreateReplyLost, CreateUndecodable, Posting
<1>3. /\ u \in todo /\ CanSync(u) /\ pc = "sync" /\ pc \notin Saving /\ mem[u] = NoEntry
      /\ scope[u].profile \in Profiles /\ Wanted(u) \in Snapshot
  BY <1>2, SyncingFacts, DesiredType DEF Creating, Syncing, CanSync, Wanted
<1>4. ~Taken(u)
  BY <1>1, <1>3, Untaken DEF SyncInv
<1>5. CASE CreateAccepted(u)
  <2>1. PICK i \in MasIds : Issues(u, i) /\ Record(u, Created(u, i), "save")
    BY <1>5 DEF CreateAccepted
  <2>2. /\ mas'[i] = NewAccount(u, Wanted(u))
        /\ \A j \in MasIds : j # i => mas'[j] = mas[j]
    BY <2>1 DEF Issues, Wanted, TypeOK, EnvTypeOK
  <2>3. scope' = scope
    BY <2>1 DEF Record, procVars
  <2>4. PICK e \in Entry : e = Created(u, i)
    BY <1>3, CreatedFacts
  <2>5. e.id = i /\ Record(u, e, "save") /\ "save" \in Saving
    BY <1>3, <2>1, <2>4, CreatedFacts DEF Saving
  <2>6. mas'[i].val = Wanted(u).val /\ mas'[i].active = Wanted(u).active
    BY <2>2 DEF NewAccount
  <2>7. DoneWell(u, e)'
    BY <1>3, <2>3, <2>4, <2>6, CreatedIsTrue
  <2> QED
    BY <1>1, <1>3, <2>2, <2>5, <2>7, OutcomeKeeps DEF MasInv
<1>6. CASE CreateRejected(u)
  <2>1. PICK e \in Entry : e = FailedCreate(scope[u].profile)
    BY <1>3, FailedCreateType
  <2>2. e.id \notin MasIds /\ e.status = "error"
    BY <2>1 DEF FailedCreate, NoId, MasIds
  <2>3. Record(u, e, "note") /\ mas' = mas /\ "note" \in Saving
    BY <1>6, <2>1 DEF CreateRejected, Saving
  <2>4. DoneWell(u, e)'
    BY <2>2 DEF DoneWell, TrueEntry, InLine, Live
  <2> QED
    BY <1>1, <1>3, <2>3, <2>4, OutcomeKeeps DEF MasInv
<1>7. /\ ~CreateDryRun(u) /\ ~CreateConflict(u) /\ ~CreateRetried(u)
      /\ ~CreateReplyLost(u) /\ ~CreateUndecodable(u)
  BY <1>1, <1>4 DEF CreateDryRun, CreateConflict, CreateRetried, CreateReplyLost,
     CreateUndecodable
<1> QED
  BY <1>5, <1>6, <1>7 DEF Create

LEMMA UpdateSyncs ==
    ASSUME GoodWorld, TypeOK, ProcInv, MasInv, MasInv', SyncInv, NEW u \in Users, Update(u)
    PROVE  SyncInv'
<1>1. OwnNames /\ ~Fault("lost")
  BY WorldFacts
<1>2. Updating(u) \/ Calling(u, "put")
  BY DEF Update, UpdateSkipped, UpdateClearsTombstone, UpdateWithoutSnapshot,
     PatchApplied, PatchMissing, PatchFails, PutApplied, PutFails, Patching
<1>3. /\ u \in todo /\ CanSync(u) /\ pc \in {"sync", "put"} /\ pc \notin Saving
      /\ mem[u] \in Entry /\ mem[u] # NoEntry
      /\ Wanted(u) \in Snapshot /\ scope[u].profile \in Profiles
      /\ scope[u] # NoUser
  BY <1>2, SyncingFacts, CallingFacts, DesiredType
     DEF Updating, Syncing, Calling, CanSync, Wanted
<1>4. TrueEntry(mem[u])
  BY <1>3 DEF SyncInv, AllTrue, Newest, AtSave
<1>5. mem[u].snap \in Snapshot \cup {NoSnap} /\ mem[u].status # "error"
  BY <1>3 DEF Entry, CanSync
<1>6. CASE UpdateSkipped(u)
  <2>1. Writes => InLine(u, mem[u])
    BY <1>3, <1>4, <1>6 DEF UpdateSkipped, NothingToPatch, InLine, TrueEntry, Wanted
  <2> QED
    BY <1>3, <1>6, <2>1, PassKeeps DEF UpdateSkipped, Updating, Syncing
<1>7. CASE UpdateWithoutSnapshot(u) \/ PatchMissing(u)
  <2>1. pc = "sync" /\ Goto(u, "put") /\ UNCHANGED mas
    BY <1>7 DEF UpdateWithoutSnapshot, PatchMissing, Patching, Updating, Syncing
  <2> QED
    BY <1>3, <2>1, PassKeeps
<1>8. CASE UpdateClearsTombstone(u)
  <2>1. mem[u].id \in MasIds \cup {NoId, DryRunId}
    BY <1>3 DEF Entry
  <2>2. PICK e \in Entry : e = OkEntry(mem[u].id, scope[u].profile, mem[u].snap)
    BY <1>3, <1>5, <2>1, OkEntryType
  <2>3. /\ Record(u, e, "save") /\ mas' = mas /\ "save" \in Saving
        /\ mem[u].snap = Wanted(u) /\ scope' = scope
    BY <1>8, <2>2 DEF UpdateClearsTombstone, NothingToPatch, Record, procVars, Saving
  <2>4. e.id = mem[u].id /\ e.status = "ok" /\ e.snap = Wanted(u)
    BY <2>2, <2>3 DEF OkEntry
  <2>5. Live(e.id) => Diff(Wanted(u), mas[e.id]) = {}
    BY <1>3, <1>4, <2>3, <2>4 DEF TrueEntry
  <2>6. DoneWell(u, e)'
    BY <1>3, <2>3, <2>4, <2>5 DEF DoneWell, TrueEntry, InLine, Live, Wanted
  <2> QED
    BY <1>1, <1>3, <2>3, <2>4, <2>6, OutcomeKeeps DEF MasInv
<1>9. CASE PatchApplied(u) \/ PutApplied(u)
  <2> DEFINE i == mem[u].id
  <2>1. /\ Record(u, Created(u, i), "save") /\ Live(i) /\ scope' = scope
        /\ (MasPatch(u) /\ mem[u].snap # NoSnap) \/ MasPut(u)
    BY <1>9 DEF PatchApplied, PutApplied, Patching, Record, procVars, MasPatch, MasPut
  <2>2. i \in MasIds /\ mas[i] \in Account
    BY <2>1 DEF Live, TypeOK, EnvTypeOK
  <2>3. \A j \in MasIds : j # i => mas'[j] = mas[j]
    BY <2>1, <2>2 DEF MasPatch, MasPut, TypeOK, EnvTypeOK
  <2>4. mas'[i].val = Wanted(u).val /\ mas'[i].active = Wanted(u).active
    <3>1. CASE MasPatch(u) /\ mem[u].snap # NoSnap
      <4>1. mas'[i] = Patched(mas[i], Diff(mem[u].snap, Wanted(u)), Wanted(u))
        BY <2>2, <3>1 DEF MasPatch, TypeOK, EnvTypeOK
      <4>2. mem[u].snap \in Snapshot /\ Diff(mem[u].snap, mas[i]) = {}
        BY <1>4, <1>5, <2>1, <3>1 DEF TrueEntry
      <4> QED
        BY <1>3, <2>2, <4>1, <4>2, PatchReaches
    <3>2. CASE MasPut(u)
      <4>1. mas'[i] = NewAccount(u, Wanted(u))
        BY <2>2, <3>2 DEF MasPut, TypeOK, EnvTypeOK
      <4> QED
        BY <4>1 DEF NewAccount
    <3> QED
      BY <2>1, <3>1, <3>2
  <2>5. PICK e \in Entry : e = Created(u, i)
    BY <1>3, <2>2, CreatedFacts
  <2>6. e.id = i /\ Record(u, e, "save") /\ "save" \in Saving
    BY <1>3, <2>1, <2>2, <2>5, CreatedFacts DEF Saving
  <2>7. DoneWell(u, e)'
    BY <1>3, <2>1, <2>2, <2>4, <2>5, CreatedIsTrue
  <2> QED
    BY <1>1, <1>3, <2>3, <2>6, <2>7, OutcomeKeeps DEF MasInv
<1>10. CASE PatchFails(u) \/ PutFails(u)
  <2>1. PICK e \in Entry : e = FailedUpdate(mem[u])
    BY <1>3, OutcomeType
  <2>2. Record(u, e, "save") /\ mas' = mas /\ "save" \in Saving
    BY <1>1, <1>10, <2>1 DEF PatchFails, PutFails, Saving
  <2>3. e.id = mem[u].id /\ DoneWell(u, e)'
    BY <1>3, <1>4, <2>1, <2>2, OutcomeType, FailedIsTrue
  <2> QED
    BY <1>1, <1>3, <2>2, <2>3, OutcomeKeeps DEF MasInv
<1> QED
  BY <1>6, <1>7, <1>8, <1>9, <1>10 DEF Update

LEMMA DeactivateSyncs ==
    ASSUME GoodWorld, TypeOK, ProcInv, MasInv, MasInv', SyncInv, NEW u \in Users, Deactivate(u)
    PROVE  SyncInv'
<1>1. OwnNames /\ ~DryRun /\ ~Fault("lost")
  BY WorldFacts
<1>2. Removing(u)
  BY DEF Deactivate, DeactivateSkipped, DeactivateDryRun, DeactivateApplied,
     DeactivateFails, Deactivating
<1>3. /\ u \in todo /\ pc = "remove" /\ pc \notin Saving /\ scope[u] = NoUser
      /\ mem[u] \in Entry /\ mem[u] # NoEntry
  BY <1>2, RemovingFacts DEF Removing, AllRemove, CanRemove, Saving
<1>4. TrueEntry(mem[u])
  BY <1>3 DEF SyncInv, AllTrue, Newest, AtSave
<1>5. CASE DeactivateSkipped(u)
  BY <1>3, <1>5, PassKeeps DEF DeactivateSkipped, Writes
<1>6. CASE DeactivateApplied(u)
  <2> DEFINE i == mem[u].id
  <2>1. PICK e \in Entry : e = Tombstone(mem[u])
    BY <1>3, OutcomeType
  <2>2. /\ Record(u, e, "save") /\ "save" \in Saving /\ scope' = scope
        /\ MasDeactivate(u) \/ (~Live(i) /\ mas' = mas)
    BY <1>6, <2>1 DEF DeactivateApplied, Record, procVars, Saving
  <2>3. /\ e.id = i /\ e.status = "deactivated" /\ u \notin Mapped'
        /\ e.snap = DeactivatedSnapshot(mem[u].snap)
    BY <1>3, <2>1, <2>2 DEF Tombstone, Entry, Mapped
  <2>4. CASE ~Live(i) /\ mas' = mas
    <3>1. DoneWell(u, e)'
      BY <2>3, <2>4 DEF DoneWell, TrueEntry, InLine, Live
    <3> QED
      BY <1>1, <1>3, <2>2, <2>3, <2>4, <3>1, OutcomeKeeps DEF MasInv
  <2>5. CASE MasDeactivate(u)
    <3>1. i \in MasIds /\ mas[i] \in Account /\ Live(i)
      BY <2>5 DEF MasDeactivate, Live, TypeOK, EnvTypeOK
    <3>2. /\ mas'[i] = [mas[i] EXCEPT !.active = FALSE]
          /\ \A j \in MasIds : j # i => mas'[j] = mas[j]
      BY <2>5, <3>1 DEF MasDeactivate, TypeOK, EnvTypeOK
    <3>3. mas'[i].active = FALSE /\ mas'[i].val = mas[i].val
      BY <3>1, <3>2 DEF Account
    <3>4. e.snap # NoSnap => Diff(e.snap, mas'[i]) = {}
      <4> SUFFICES ASSUME e.snap # NoSnap PROVE e.snap.val = mas'[i].val /\ e.snap.active = mas'[i].active
        BY DiffNone
      <4>1. mem[u].snap \in Snapshot /\ e.snap = [mem[u].snap EXCEPT !.active = FALSE]
        BY <1>3, <2>3 DEF DeactivatedSnapshot, Entry
      <4>2. mem[u].snap # NoSnap /\ mem[u].snap.val = mas[i].val
        BY <1>4, <3>1, <4>1, DiffNone DEF TrueEntry
      <4> QED
        BY <3>3, <4>1, <4>2 DEF Snapshot
    <3>5. DoneWell(u, e)'
      BY <2>3, <3>3, <3>4 DEF DoneWell, TrueEntry, InLine
    <3> QED
      BY <1>1, <1>3, <2>2, <2>3, <3>2, <3>5, OutcomeKeeps DEF MasInv
  <2> QED
    BY <2>2, <2>4, <2>5
<1>7. CASE DeactivateFails(u)
  <2>1. PICK e \in Entry : e = FailedUpdate(mem[u])
    BY <1>3, OutcomeType
  <2>2. Record(u, e, "save") /\ mas' = mas /\ "save" \in Saving
    BY <1>1, <1>7, <2>1 DEF DeactivateFails, Saving
  <2>3. e.id = mem[u].id /\ DoneWell(u, e)'
    BY <1>3, <1>4, <2>1, <2>2, OutcomeType, FailedIsTrue
  <2> QED
    BY <1>1, <1>3, <2>2, <2>3, OutcomeKeeps DEF MasInv
<1>8. ~DeactivateDryRun(u)
  BY <1>1 DEF DeactivateDryRun
<1> QED
  BY <1>5, <1>6, <1>7, <1>8 DEF Deactivate

-----------------------------------------------------------------------------
(* The theorems. *)

LEMMA SyncStep ==
    GoodWorld /\ TypeOK /\ ProcInv /\ MasInv /\ MasInv' /\ SyncInv /\ [Next]_vars => SyncInv'
<1> SUFFICES ASSUME GoodWorld, TypeOK, ProcInv, MasInv, MasInv', SyncInv, [Next]_vars
             PROVE  SyncInv'
  OBVIOUS
<1>1. CASE Cycle \/ Crash \/ ExpireToken
  BY <1>1, CycleSyncs
<1>2. CASE \E u \in Users : Execute(u)
  <2>1. PICK u \in Users : Execute(u)
    BY <1>2
  <2>2. ~HandleConflict(u)
    BY DEF SyncInv, Searching, HandleConflict, SearchByExt, SearchByExtFails, SearchByName,
       SearchByNameFails, SearchByNameAgain, Calling
  <2> QED
    BY <2>1, <2>2, CreateSyncs, UpdateSyncs, DeactivateSyncs DEF Execute
<1>3. CASE \/ \E u \in Users : MoveUser(u) \/ EditUser(u)
           \/ \E i \in MasIds : DeleteAccount(i)
  <2>1. /\ UNCHANGED procState
        /\ UNCHANGED mas \/ \E i \in MasIds : Live(i) /\ mas' = [mas EXCEPT ![i] = Gone]
    BY <1>3, EditFrame DEF TypeOK
  <2>2. AccountsStay
    BY <2>1 DEF AccountsStay, TypeOK, EnvTypeOK
  <2> QED
    BY <2>1, <2>2, BesideKeeps
<1>4. CASE UNCHANGED vars
  BY <1>4, BesideKeeps DEF vars, procState, AccountsStay
<1> QED
  BY <1>1, <1>2, <1>3, <1>4 DEF Next, Bridge, Environment

LEMMA GoodWorldSound == ASSUME GoodWorld PROVE Spec => []SyncInv
<1>1. Init => SyncInv
  BY SyncInit
<1>2. TypeOK /\ ProcInv /\ MasInv /\ MasInv' /\ SyncInv /\ [Next]_vars => SyncInv'
  BY SyncStep
<1> QED
  BY <1>1, <1>2, BridgeSound, PTL DEF Spec

\* In a good world the recorded snapshots are what MAS holds, between any two cycles and
\* whatever calls MAS rejects, tokens expire, accounts are deleted and users are edited.
THEOREM SnapshotsAreSound ==
    ASSUME GoodWorld
    PROVE  Spec => []SnapshotSound
<1>1. SyncInv => SnapshotSound
  BY DEF SyncInv, AllTrue, TrueEntry, SnapshotSound, Newest, AtSave, Saving
<1> QED
  BY <1>1, GoodWorldSound, PTL

\* In a good world every cycle that ends has brought the accounts of its users in line:
\* what was planned was done and nothing needed was left out.
THEOREM CyclesSync ==
    ASSUME GoodWorld
    PROVE  Spec => []SyncedAtIdle
<1>1. TypeOK /\ ProcInv /\ SyncInv => SyncedAtIdle
  <2> SUFFICES ASSUME ProcInv, SyncInv, pc = "idle", Writes, NEW u \in Users,
                      mem[u] # NoEntry, mem[u].status # "error", Live(mem[u].id)
               PROVE  /\ u \in Mapped => Diff(Desired(scope[u]), mas[mem[u].id]) = {}
                      /\ GroupMode /\ scope[u] = NoUser => ~mas[mem[u].id].active
    BY DEF SyncedAtIdle
  <2>1. Acted(u) /\ Late /\ Newest(u) = mem[u]
    BY DEF ProcInv, Control, Acted, Late, Newest, AtSave, Saving
  <2>2. u \in Mapped => scope[u] # NoUser
    BY DEF Mapped
  <2> QED
    BY <2>1, <2>2 DEF SyncInv, SyncedSoFar, InLine
<1> QED
  BY <1>1, GoodWorldSound, ProcessSound, PTL
=============================================================================
