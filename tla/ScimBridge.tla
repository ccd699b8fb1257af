----------------------------- MODULE ScimBridge -----------------------------
(***************************************************************************)
(* The poll cycle of the SCIM bridge: resolve the scope in Keycloak, plan  *)
(* against the state store, execute creates and updates against MAS, then  *)
(* deactivate the tracked users that left the scope.                       *)
(*                                                                         *)
(* One bridge process runs at a time (one replica, strategy Recreate).     *)
(* Between any two of its steps Keycloak may be edited, a MAS account      *)
(* deleted, the token may expire and the process may crash.  A MAS call    *)
(* and the Save of its outcome are separate steps.                         *)
(***************************************************************************)
EXTENDS ScimData

CONSTANTS
    Configs,       \* the configurations a process may be started with
    CanRefresh,    \* MAS_API_TOKEN_NAME and MAS_API_TOKEN_VALUE are set
    StaticToken,   \* MAS_TOKEN is set
    InitialKc,     \* possible initial Keycloak realms
    InitialMas,    \* possible initial MAS registries
    InitialFile,   \* possible state files at the first start
    FaultKinds,    \* the faults the environment may inject
    MaxFaults,     \* bound: faults in a behaviour
    EditKinds,     \* the edits administrators may make
    MaxEdits       \* bound: edits in a behaviour

VARIABLES
    \* the environment
    kc,         \* the Keycloak realm
    mas,        \* the MAS accounts
    tokenOK,    \* MAS accepts the token the process holds
    edits, faults,
    \* the disk
    file,       \* the state file
    \* the bridge process
    mem,        \* the items of the store, in memory
    config,     \* the configuration of this process
    pc,         \* where the cycle stands
    refreshed,  \* this cycle is the retry after a token refresh
    scope,      \* the scoped Keycloak users, as they were read
    todo,       \* users whose planned action is not executed yet
    cur,        \* the user whose action is in progress
    pend        \* the entry that action is about to save

envVars  == <<kc, edits>>
procVars == <<config, refreshed, scope>>
vars     == <<kc, mas, tokenOK, edits, faults, file, mem, config, pc,
              refreshed, scope, todo, cur, pend>>

\* The switches of the process, which a redeployment changes: group mode
\* (SCIM_BRIDGE_INCLUDE_GROUPS is set), ALLOW_UPDATES and DRY_RUN.
Config == [groupMode: BOOLEAN, allowUpdates: BOOLEAN, dryRun: BOOLEAN]

GroupMode    == config.groupMode
AllowUpdates == config.allowUpdates
DryRun       == config.dryRun

\* "save" checks the error of Save, "note" ignores it.
Phases == {"down", "idle", "resolve", "plan", "sync", "byExt", "byName",
           "byNameAgain", "put", "save", "note", "remove"}

AllFaults == {"crash", "disk", "keycloak", "expire", "refresh", "denied",
              "reject", "search", "retried", "lost", "decode"}
AllEdits  == {"move", "enable", "val", "profile", "account"}

ASSUME BridgeAssumption ==
    /\ Configs \subseteq Config /\ Configs # {}
    /\ CanRefresh \in BOOLEAN /\ StaticToken \in BOOLEAN
    /\ CanRefresh \/ StaticToken
    /\ FaultKinds \subseteq AllFaults /\ MaxFaults \in Nat
    /\ EditKinds \subseteq AllEdits /\ MaxEdits \in Nat
    /\ InitialKc \subseteq [Users -> KcUser]
    /\ InitialMas \subseteq [MasIds -> Account \cup {Unissued, Gone}]
    /\ InitialFile \subseteq [Users -> Entry \cup {NoEntry}]

\* A registry says whose an account is by its externalId, and the state file an
\* earlier bridge left names accounts of its own users.
OwnAccount(m, u, i) == m[i] # Unissued /\ (m[i] # Gone => m[i].name = NameOf[u])

ASSUME InitialAssumption ==
    \A m \in InitialMas :
        /\ \A i \in MasIds : m[i] \notin {Unissued, Gone} /\ m[i].ext \in Users
                                => m[i].name = NameOf[m[i].ext]
        /\ \A f \in InitialFile, u \in Users : f[u] # NoEntry =>
               /\ f[u].status # "error" => f[u].id # NoId
               /\ f[u].id \in MasIds => OwnAccount(m, u, f[u].id)

NoScope == [u \in Users |-> NoUser]

Init ==
    /\ kc \in InitialKc
    /\ mas \in InitialMas
    /\ file \in InitialFile
    /\ tokenOK = TRUE
    /\ edits = 0 /\ faults = 0
    /\ mem = file
    /\ config \in Configs
    /\ pc = "down"
    /\ refreshed = FALSE
    /\ scope = NoScope
    /\ todo = {}
    /\ cur = NoUser
    /\ pend = NoEntry

-----------------------------------------------------------------------------
(* Helpers. *)

\* One fault of the given kind happens in this step.
Fault(kind) ==
    /\ kind \in FaultKinds
    /\ faults < MaxFaults
    /\ faults' = faults + 1

NoFault == UNCHANGED faults

Live(i) == i \in MasIds /\ mas[i] \notin {Unissued, Gone}

MatchExt(u)  == {i \in MasIds : Live(i) /\ mas[i].ext = u}
\* Mutant: the search by name is sent without its filter.
MatchAny(u)  == {i \in MasIds : Live(i)}
MatchName(u) == {i \in MasIds : Live(i) /\ mas[i].name = NameOf[u]}

\* The process is gone, its memory with it; the state file stays.
Exit ==
    /\ pc' = "down"
    /\ mem' = file
    /\ refreshed' = FALSE
    /\ scope' = NoScope
    /\ todo' = {}
    /\ cur' = NoUser
    /\ pend' = NoEntry
    /\ UNCHANGED <<file, config>>

\* The loop over the planned actions u belongs to: only users outside the
\* scope are deactivated, only users inside it are created or updated.
Loop(u) == IF scope[u] = NoUser THEN "remove" ELSE "sync"

\* The action of u is done without touching the store.
Skip(u) ==
    /\ pc' = Loop(u)
    /\ todo' = todo \ {u}
    /\ cur' = NoUser
    /\ pend' = NoEntry
    /\ UNCHANGED <<file, mem, procVars>>

\* The action of u goes on with another MAS call.
Goto(u, p) ==
    /\ pc' = p
    /\ cur' = u
    /\ UNCHANGED <<todo, pend, file, mem, procVars>>

\* The action of u has its outcome e, saved in the next step.
Record(u, e, p) ==
    /\ pc' = p
    /\ cur' = u
    /\ pend' = e
    /\ UNCHANGED <<todo, file, mem, procVars>>

-----------------------------------------------------------------------------
(* The process and the cycle. *)

\* A token fetched from the MAS API is good, or MAS may refuse it on SCIM calls.
Fetched == IF "denied" \in FaultKinds THEN BOOLEAN ELSE {TRUE}

\* Run loads the state file and starts the first cycle at once.  A static
\* token may be stale; without one the token is fetched.
Start ==
    /\ pc = "down"
    /\ pc' = "resolve"
    /\ mem' = file
    /\ config' \in Configs
    /\ tokenOK' \in (IF StaticToken THEN BOOLEAN ELSE Fetched)
    /\ UNCHANGED <<envVars, mas, faults, file, refreshed, scope, todo, cur, pend>>

\* The poll ticker fires.
Tick ==
    /\ pc = "idle"
    /\ pc' = "resolve"
    /\ refreshed' = FALSE
    /\ UNCHANGED <<envVars, mas, tokenOK, faults, file, mem, config, scope,
                   todo, cur, pend>>

\* Group mode reads the whole membership; otherwise one page of the realm.
Candidates ==
    LET inScope == {u \in Users : kc[u].where = "in"}
    IN  IF GroupMode THEN {inScope} ELSE SUBSET inScope

Resolve ==
    /\ pc = "resolve"
    /\ \E S \in Candidates :
          scope' = [u \in Users |-> IF u \in S THEN kc[u] ELSE NoUser]
    /\ pc' = "plan"
    /\ UNCHANGED <<envVars, mas, tokenOK, faults, file, mem, config,
                   refreshed, todo, cur, pend>>

\* A Keycloak error or an unknown group aborts the cycle and the process.
ResolveFails ==
    /\ pc = "resolve"
    /\ Fault("keycloak")
    /\ Exit
    /\ UNCHANGED <<envVars, mas, tokenOK>>

\* Mutant of Mapped: the verdict of the resolver is not looked at.
MappedUnchecked == {u \in Users : scope[u] # NoUser}

\* Scoped users with a mapped profile, and those of them whose entry was
\* written for another profile.
Mapped == {u \in Users : scope[u] # NoUser /\ scope[u].profile # Unmapped}
Mismatches ==
    {u \in Mapped : mem[u] # NoEntry /\ mem[u].profile # scope[u].profile}

\* Plan records a mismatch as an error and skips the user; every other mapped
\* user is created or updated, except after an earlier MAS error.
Planned == {u \in Mapped \ Mismatches : mem[u] = NoEntry \/ mem[u].status # "error"}

\* The writes of the mismatches in W reach the disk: each writes the whole map.
PlanWith(W) ==
    /\ pc = "plan"
    /\ mem' = [u \in Users |-> IF u \in Mismatches THEN Mismatched(mem[u]) ELSE mem[u]]
    /\ file' = IF W = {} THEN file
               ELSE [u \in Users |-> IF u \in Mismatches \ W THEN mem[u] ELSE mem'[u]]
    /\ todo' = Planned
    /\ pc' = "sync"
    /\ UNCHANGED <<envVars, mas, tokenOK, procVars, cur, pend>>

Plan == PlanWith(Mismatches) /\ NoFault

PlanUnsaved ==
    \E W \in SUBSET Mismatches : W # Mismatches /\ PlanWith(W) /\ Fault("disk")

\* Mutants: scoped users are removed too; only entries in order are removed.
RemovalsOfAll ==
    {u \in Users : /\ mem[u] # NoEntry
                   /\ mem[u].status # "deactivated"
                   /\ mem[u].id # NoId}
RemovalsInOrder ==
    {u \in Users : /\ scope[u] = NoUser
                   /\ mem[u] # NoEntry
                   /\ mem[u].status = "ok"}

\* Tracked in the store, absent from the scope, not tombstoned, known to MAS.
PlanRemovals ==
    {u \in Users : /\ scope[u] = NoUser
                   /\ mem[u] # NoEntry
                   /\ mem[u].status # "deactivated"
                   /\ mem[u].id # NoId}

\* Mutant: removal detection is not gated on group mode.
SyncDoneUngated ==
    /\ pc = "sync" /\ todo = {}
    /\ pc' = "remove" /\ todo' = PlanRemovals
    /\ UNCHANGED <<envVars, mas, tokenOK, faults, file, mem, procVars, cur, pend>>

\* Removal detection runs in group mode only, after every create and update.
SyncDone ==
    /\ pc = "sync" /\ todo = {}
    /\ IF GroupMode
       THEN pc' = "remove" /\ todo' = PlanRemovals
       ELSE pc' = "idle" /\ UNCHANGED todo
    /\ UNCHANGED <<envVars, mas, tokenOK, faults, file, mem, procVars, cur, pend>>

RemovalsDone ==
    /\ pc = "remove" /\ todo = {}
    /\ pc' = "idle"
    /\ UNCHANGED <<envVars, mas, tokenOK, faults, file, mem, procVars, todo, cur, pend>>

-----------------------------------------------------------------------------
(* Executor: create. *)

\* In live mode every MAS call needs a valid token.
Calling(u, p) == pc = p /\ cur = u /\ tokenOK

Syncing(u)  == pc = "sync" /\ u \in todo
Creating(u) == Syncing(u) /\ mem[u] = NoEntry
Posting(u)  == Creating(u) /\ ~DryRun /\ tokenOK

Created(u, i) == OkEntry(i, scope[u].profile, Desired(scope[u]))

\* Dry run saves an entry with a made-up id.
CreateDryRun(u) ==
    /\ Creating(u) /\ DryRun
    /\ Record(u, Created(u, DryRunId), "save")
    /\ UNCHANGED <<envVars, mas, tokenOK, faults>>

\* MAS refuses a second account for a user.
Taken(u) == MatchName(u) \cup MatchExt(u) # {}

\* MAS issues its ids in order.
Issues(u, i) ==
    /\ ~Taken(u)
    /\ i \in MasIds /\ mas[i] = Unissued
    /\ \A j \in 1..(i - 1) : mas[j] # Unissued
    /\ mas' = [mas EXCEPT ![i] = NewAccount(u, Desired(scope[u]))]

CreateAccepted(u) ==
    /\ Posting(u)
    /\ \E i \in MasIds : Issues(u, i) /\ Record(u, Created(u, i), "save")
    /\ UNCHANGED <<envVars, tokenOK, faults>>

\* Mutant: the conflict is logged and left alone.
ConflictLogged(u) ==
    /\ Posting(u) /\ Taken(u)
    /\ Skip(u)
    /\ UNCHANGED <<envVars, mas, tokenOK, faults>>

CreateConflict(u) ==
    /\ Posting(u) /\ Taken(u)
    /\ Goto(u, "byExt")
    /\ UNCHANGED <<envVars, mas, tokenOK, faults>>

\* The reply of a POST that succeeded is lost; its retry finds the account.
CreateRetried(u) ==
    /\ Posting(u)
    /\ \E i \in MasIds : Issues(u, i)
    /\ Fault("retried")
    /\ Goto(u, "byExt")
    /\ UNCHANGED <<envVars, tokenOK>>

\* Any other MAS error, after the retries, is recorded without an id.
CreateRejected(u) ==
    /\ Posting(u)
    /\ Fault("reject")
    /\ Record(u, FailedCreate(scope[u].profile), "note")
    /\ UNCHANGED <<envVars, mas, tokenOK>>

\* The same outcome for the bridge, but the POST was applied.
CreateReplyLost(u) ==
    /\ Posting(u)
    /\ \E i \in MasIds : Issues(u, i)
    /\ Fault("lost")
    /\ Record(u, FailedCreate(scope[u].profile), "note")
    /\ UNCHANGED <<envVars, tokenOK>>

\* A 201 whose body has no id is not a ResponseError: the cycle aborts.
CreateUndecodable(u) ==
    /\ Posting(u)
    /\ \E i \in MasIds : Issues(u, i)
    /\ Fault("decode")
    /\ Exit
    /\ UNCHANGED <<envVars, tokenOK>>

-----------------------------------------------------------------------------
(* Executor: handleConflict. *)

\* Exactly one match is adopted; none or several are recorded as an error.
Settle(u, matches) ==
    IF Cardinality(matches) = 1
    THEN \E i \in matches : Record(u, Created(u, i), "save")
    ELSE Record(u, FailedCreate(scope[u].profile), "note")

SearchByExt(u) ==
    /\ Calling(u, "byExt")
    /\ IF MatchExt(u) = {} THEN Goto(u, "byNameAgain") ELSE Settle(u, MatchExt(u))
    /\ UNCHANGED <<envVars, mas, tokenOK, faults>>

SearchByExtFails(u) ==
    /\ Calling(u, "byExt")
    /\ Fault("search")
    /\ Goto(u, "byName")
    /\ UNCHANGED <<envVars, mas, tokenOK>>

\* The fallback after a failed search; an empty result is searched once more.
SearchByName(u) ==
    /\ Calling(u, "byName")
    /\ IF MatchName(u) = {} THEN Goto(u, "byNameAgain") ELSE Settle(u, MatchName(u))
    /\ UNCHANGED <<envVars, mas, tokenOK, faults>>

\* Both searches failed: the conflict is left for the next cycle.
SearchByNameFails(u) ==
    /\ Calling(u, "byName")
    /\ Fault("search")
    /\ Skip(u)
    /\ UNCHANGED <<envVars, mas, tokenOK>>

\* The fallback after an empty result; a failure counts as no match.
SearchByNameAgain(u) ==
    /\ Calling(u, "byNameAgain")
    /\ \/ Settle(u, MatchName(u)) /\ NoFault
       \/ Settle(u, {}) /\ Fault("search")
    /\ UNCHANGED <<envVars, mas, tokenOK>>

-----------------------------------------------------------------------------
(* Executor: updateWithPatch and performPut. *)

\* Mutants of Writes: one of the two switches is not tested.
WritesInDryRun == AllowUpdates
WritesAlways   == ~DryRun

Updating(u) == Syncing(u) /\ mem[u] # NoEntry
Writes      == AllowUpdates /\ ~DryRun
Wanted(u)   == Desired(scope[u])
NothingToPatch(u) == mem[u].snap = Wanted(u)

\* Updates disabled, dry run, or nothing changed since the last sync.
UpdateSkipped(u) ==
    /\ Updating(u)
    /\ \/ ~Writes
       \/ NothingToPatch(u) /\ mem[u].status # "deactivated"
    /\ Skip(u)
    /\ UNCHANGED <<envVars, mas, tokenOK, faults>>

\* A user back in scope who needs no change loses the tombstone.
UpdateClearsTombstone(u) ==
    /\ Updating(u) /\ Writes
    /\ NothingToPatch(u) /\ mem[u].status = "deactivated"
    /\ Record(u, OkEntry(mem[u].id, scope[u].profile, mem[u].snap), "save")
    /\ UNCHANGED <<envVars, mas, tokenOK, faults>>

\* Without a snapshot the whole document is PUT.
UpdateWithoutSnapshot(u) ==
    /\ Updating(u) /\ Writes
    /\ mem[u].snap = NoSnap
    /\ Goto(u, "put")
    /\ UNCHANGED <<envVars, mas, tokenOK, faults>>

Patching(u) ==
    /\ Updating(u) /\ Writes /\ tokenOK
    /\ mem[u].snap # NoSnap /\ ~NothingToPatch(u)

MasPatch(u) ==
    /\ Live(mem[u].id)
    /\ mas' = [mas EXCEPT ![mem[u].id] =
                  Patched(@, Diff(mem[u].snap, Wanted(u)), Wanted(u))]

PatchApplied(u) ==
    /\ Patching(u)
    /\ MasPatch(u)
    /\ Record(u, Created(u, mem[u].id), "save")
    /\ UNCHANGED <<envVars, tokenOK, faults>>

PatchMissing(u) ==
    /\ Patching(u)
    /\ ~Live(mem[u].id)
    /\ Goto(u, "put")
    /\ UNCHANGED <<envVars, mas, tokenOK, faults>>

\* Mutant: the failure of the PATCH is not noticed.
PatchUnnoticed(u) ==
    /\ Patching(u)
    /\ \/ Fault("reject") /\ UNCHANGED mas
       \/ Fault("lost") /\ MasPatch(u)
    /\ Record(u, Created(u, mem[u].id), "save")
    /\ UNCHANGED <<envVars, tokenOK>>

\* A failed PATCH is recorded; it may have been applied without a reply.
PatchFails(u) ==
    /\ Patching(u)
    /\ \/ Fault("reject") /\ UNCHANGED mas
       \/ Fault("lost") /\ MasPatch(u)
    /\ Record(u, FailedUpdate(mem[u]), "save")
    /\ UNCHANGED <<envVars, tokenOK>>

MasPut(u) ==
    /\ Live(mem[u].id)
    /\ mas' = [mas EXCEPT ![mem[u].id] = NewAccount(u, Wanted(u))]

PutApplied(u) ==
    /\ Calling(u, "put")
    /\ MasPut(u)
    /\ Record(u, Created(u, mem[u].id), "save")
    /\ UNCHANGED <<envVars, tokenOK, faults>>

PutFails(u) ==
    /\ Calling(u, "put")
    /\ \/ ~Live(mem[u].id) /\ UNCHANGED mas /\ NoFault
       \/ Fault("reject") /\ UNCHANGED mas
       \/ Fault("lost") /\ MasPut(u)
    /\ Record(u, FailedUpdate(mem[u]), "save")
    /\ UNCHANGED <<envVars, tokenOK>>

-----------------------------------------------------------------------------
(* Executor: deactivate. *)

Removing(u) == pc = "remove" /\ u \in todo

DeactivateSkipped(u) ==
    /\ Removing(u) /\ ~AllowUpdates
    /\ Skip(u)
    /\ UNCHANGED <<envVars, mas, tokenOK, faults>>

\* Dry run writes the tombstone without a MAS call.
DeactivateDryRun(u) ==
    /\ Removing(u) /\ AllowUpdates /\ DryRun
    /\ Record(u, Tombstone(mem[u]), "save")
    /\ UNCHANGED <<envVars, mas, tokenOK, faults>>

Deactivating(u) == Removing(u) /\ Writes /\ tokenOK

MasDeactivate(u) ==
    /\ Live(mem[u].id)
    /\ mas' = [mas EXCEPT ![mem[u].id].active = FALSE]

\* An account that is gone is tombstoned too.
DeactivateApplied(u) ==
    /\ Deactivating(u)
    /\ \/ MasDeactivate(u)
       \/ ~Live(mem[u].id) /\ UNCHANGED mas
    /\ Record(u, Tombstone(mem[u]), "save")
    /\ UNCHANGED <<envVars, tokenOK, faults>>

\* Mutant: the failed deactivation is tombstoned.
DeactivateUnnoticed(u) ==
    /\ Deactivating(u)
    /\ \/ Fault("reject") /\ UNCHANGED mas
       \/ Fault("lost") /\ MasDeactivate(u)
    /\ Record(u, Tombstone(mem[u]), "save")
    /\ UNCHANGED <<envVars, tokenOK>>

\* A failed deactivation must not tombstone.
DeactivateFails(u) ==
    /\ Deactivating(u)
    /\ \/ Fault("reject") /\ UNCHANGED mas
       \/ Fault("lost") /\ MasDeactivate(u)
    /\ Record(u, FailedUpdate(mem[u]), "save")
    /\ UNCHANGED <<envVars, tokenOK>>

-----------------------------------------------------------------------------
(* Save, and a MAS call answered 401. *)

Save ==
    /\ pc \in {"save", "note"}
    /\ mem' = [mem EXCEPT ![cur] = pend]
    /\ file' = mem'
    /\ pc' = Loop(cur)
    /\ todo' = todo \ {cur}
    /\ cur' = NoUser
    /\ pend' = NoEntry
    /\ UNCHANGED <<envVars, mas, tokenOK, faults, procVars>>

\* Mutant: the error of Save is ignored everywhere.
SaveUnchecked ==
    /\ Fault("disk")
    /\ pc \in {"save", "note"}
    /\ mem' = [mem EXCEPT ![cur] = pend]
    /\ pc' = Loop(cur)
    /\ todo' = todo \ {cur}
    /\ cur' = NoUser
    /\ pend' = NoEntry
    /\ UNCHANGED <<file, procVars, envVars, mas, tokenOK>>

\* The write fails after the map in memory was changed.  A checked error
\* aborts the process; an ignored one leaves memory ahead of the file.
SaveFails ==
    /\ Fault("disk")
    /\ \/ pc = "save" /\ Exit
       \/ /\ pc = "note"
          /\ mem' = [mem EXCEPT ![cur] = pend]
          /\ pc' = Loop(cur)
          /\ todo' = todo \ {cur}
          /\ cur' = NoUser
          /\ pend' = NoEntry
          /\ UNCHANGED <<file, procVars>>
    /\ UNCHANGED <<envVars, mas, tokenOK>>

\* The next thing the process does is a MAS call.
AtMasCall ==
    \/ pc \in {"byExt", "byName", "byNameAgain", "put"}
    \/ \E u \in todo :
          \/ Creating(u) /\ ~DryRun
          \/ Updating(u) /\ Writes /\ mem[u].snap # NoSnap /\ ~NothingToPatch(u)
          \/ Removing(u) /\ Writes

\* Mutant: the token is refreshed without a limit.
UnauthorizedForever ==
    /\ AtMasCall /\ ~tokenOK
    /\ CanRefresh
    /\ tokenOK' \in Fetched
    /\ pc' = "resolve"
    /\ scope' = NoScope
    /\ todo' = {}
    /\ cur' = NoUser
    /\ pend' = NoEntry
    /\ UNCHANGED <<envVars, mas, faults, file, mem, config, refreshed>>

\* A 401 ends the cycle; once, and with credentials at hand, the token is
\* fetched anew and the whole cycle runs again.
Unauthorized ==
    /\ AtMasCall /\ ~tokenOK
    /\ \/ /\ CanRefresh /\ ~refreshed
          /\ tokenOK' \in Fetched
          /\ refreshed' = TRUE
          /\ pc' = "resolve"
          /\ scope' = NoScope
          /\ todo' = {}
          /\ cur' = NoUser
          /\ pend' = NoEntry
          /\ NoFault
          /\ UNCHANGED <<file, mem, config>>
       \/ /\ CanRefresh /\ ~refreshed
          /\ Fault("refresh")
          /\ Exit
          /\ UNCHANGED tokenOK
       \/ /\ ~CanRefresh \/ refreshed
          /\ Exit
          /\ NoFault
          /\ UNCHANGED tokenOK
    /\ UNCHANGED <<envVars, mas>>

-----------------------------------------------------------------------------
(* The environment. *)

\* The process is killed between two steps.
Crash ==
    /\ pc # "down"
    /\ Fault("crash")
    /\ Exit
    /\ UNCHANGED <<envVars, mas, tokenOK>>

ExpireToken ==
    /\ tokenOK
    /\ Fault("expire")
    /\ tokenOK' = FALSE
    /\ UNCHANGED <<envVars, mas, file, mem, config, pc, refreshed, scope, todo, cur, pend>>

Edit(kind) ==
    /\ kind \in EditKinds
    /\ edits < MaxEdits
    /\ edits' = edits + 1
    /\ UNCHANGED <<tokenOK, faults, file, mem, config, pc, refreshed, scope, todo, cur, pend>>

\* A user is created, joins or leaves the scope, or is deleted for good;
\* a user name belongs to one existing user.
MoveUser(u) ==
    /\ Edit("move")
    /\ \E p \in {"in", "out", "deleted"} \ {kc[u].where} :
          /\ kc[u].where # "deleted"
          /\ kc[u].where = "absent" => p = "in"
          /\ p # "deleted" => \A v \in Users \ {u} : NameOf[v] = NameOf[u] => ~Exists(kc[v])
          /\ kc' = [kc EXCEPT ![u].where = p]
    /\ UNCHANGED mas

EditUser(u) ==
    /\ Exists(kc[u])
    /\ \/ Edit("enable") /\ kc' = [kc EXCEPT ![u].enabled = ~@]
       \/ /\ Edit("val")
          /\ \E v \in Vals \ {kc[u].val} : kc' = [kc EXCEPT ![u].val = v]
       \/ /\ Edit("profile")
          /\ \E p \in (Profiles \cup {Unmapped}) \ {kc[u].profile} :
                kc' = [kc EXCEPT ![u].profile = p]
    /\ UNCHANGED mas

\* A MAS administrator deletes an account.
DeleteAccount(i) ==
    /\ Edit("account")
    /\ Live(i)
    /\ mas' = [mas EXCEPT ![i] = Gone]
    /\ UNCHANGED kc

-----------------------------------------------------------------------------
Create(u) ==
    \/ CreateDryRun(u)  \/ CreateAccepted(u)  \/ CreateConflict(u)
    \/ CreateRetried(u) \/ CreateRejected(u)  \/ CreateReplyLost(u)
    \/ CreateUndecodable(u)

HandleConflict(u) ==
    \/ SearchByExt(u)  \/ SearchByExtFails(u)
    \/ SearchByName(u) \/ SearchByNameFails(u) \/ SearchByNameAgain(u)

Update(u) ==
    \/ UpdateSkipped(u) \/ UpdateClearsTombstone(u) \/ UpdateWithoutSnapshot(u)
    \/ PatchApplied(u)  \/ PatchMissing(u)          \/ PatchFails(u)
    \/ PutApplied(u)    \/ PutFails(u)

Deactivate(u) ==
    \/ DeactivateSkipped(u) \/ DeactivateDryRun(u)
    \/ DeactivateApplied(u) \/ DeactivateFails(u)

Execute(u) == Create(u) \/ HandleConflict(u) \/ Update(u) \/ Deactivate(u)

Cycle ==
    \/ Start \/ Tick \/ Resolve \/ ResolveFails \/ Plan \/ PlanUnsaved
    \/ SyncDone \/ RemovalsDone \/ Save \/ SaveFails \/ Unauthorized

Bridge == Cycle \/ \E u \in Users : Execute(u)

Environment ==
    \/ Crash \/ ExpireToken
    \/ \E u \in Users : MoveUser(u) \/ EditUser(u)
    \/ \E i \in MasIds : DeleteAccount(i)

Next == Bridge \/ Environment

Spec == Init /\ [][Next]_vars

\* The pod is restarted and the ticker fires: the bridge never stops for good.
FairSpec == Spec /\ WF_vars(Bridge)

-----------------------------------------------------------------------------
(* Properties. *)

EnvTypeOK ==
    /\ kc \in [Users -> KcUser]
    /\ mas \in [MasIds -> Account \cup {Unissued, Gone}]
    /\ tokenOK \in BOOLEAN
    /\ edits \in 0..MaxEdits /\ faults \in 0..MaxFaults

ProcTypeOK ==
    /\ file \in [Users -> Entry \cup {NoEntry}]
    /\ mem \in [Users -> Entry \cup {NoEntry}]
    /\ config \in Configs
    /\ pc \in Phases
    /\ refreshed \in BOOLEAN
    /\ scope \in [Users -> KcUser \cup {NoUser}]
    /\ todo \subseteq Users
    /\ cur \in Users \cup {NoUser}
    /\ pend \in Entry \cup {NoEntry}

\* Every variable keeps its type; in particular every entry the bridge holds has
\* one of the three statuses of store.go:23-30 and a configured profile.
TypeOK == EnvTypeOK /\ ProcTypeOK

\* The entries the bridge holds or is about to hold for a user.
EntriesOf(u) ==
    {e \in {mem[u], file[u]} \cup (IF cur = u THEN {pend} ELSE {}) : e # NoEntry}

\* An entry that is not an error names a MAS account, so the "missing MAS ID"
\* errors of Execute and deactivate, which end the process at every cycle from
\* then on, are never returned (executor.go:98-100, 123-125).
TrackedHaveId ==
    \A u \in Users : \A e \in EntriesOf(u) : e.status # "error" => e.id # NoId

\* A correlation points at an account MAS has issued, and that account bears
\* the user's own name: adoption, PUT and a crash between a create and its Save
\* never link a Keycloak user to somebody else's account.
CorrelationIsOwn ==
    \A u \in Users : \A e \in EntriesOf(u) : e.id \in MasIds => OwnAccount(mas, u, e.id)

\* While the bridge runs, memory is ahead of the state file only in error
\* entries: a correlation, a new snapshot or a tombstone whose write failed
\* stops the process, so none of them is acted on and later forgotten.
OnlyErrorsUnsaved ==
    \A u \in Users : file[u] # mem[u] =>
        mem[u] # NoEntry /\ mem[u].status = "error"

\* In live mode a tombstone reaches the state file only when the account it
\* names is inactive or gone: no failed, lost or unauthorized deactivation is
\* taken for a done one, whatever failed in between (executor.go:118-121).
TombstoneOnlyInactive ==
    [][\A u \in Users :
          /\ file'[u] # NoEntry /\ file'[u].status = "deactivated"
          /\ file[u] = NoEntry \/ file[u].status # "deactivated"
          /\ ~DryRun
          => (Live(file'[u].id) => ~mas[file'[u].id].active)]_vars

\* The account turns inactive in this step.
Deactivates(i) == Live(i) /\ mas[i].active /\ mas'[i] # Gone /\ ~mas'[i].active

\* The bridge deactivates an account only for a user it tracks there, who is
\* disabled in Keycloak as it was read, or, in group mode alone, is out of the
\* scope: never because of a partial user page or a failed Keycloak call.
DeactivationJustified ==
    [][\A i \in MasIds : Deactivates(i) =>
          \E u \in Users :
             /\ mem[u] # NoEntry /\ mem[u].id = i
             /\ \/ GroupMode /\ scope[u] = NoUser
                \/ scope[u] # NoUser /\ ~scope[u].enabled]_vars

\* A scoped, enabled user whose entry is fine is never deactivated in MAS, not
\* even on behalf of another entry of the store.
ScopedStaysActive ==
    [][\A i \in MasIds, u \in Users :
          /\ Deactivates(i)
          /\ mem[u] # NoEntry /\ mem[u].id = i /\ mem[u].status = "ok"
          => scope[u] = NoUser \/ ~scope[u].enabled]_vars

\* An entry of the state file that names a MAS account keeps that account and
\* its profile for good, whatever fails or restarts in between: no account is
\* orphaned by its own entry, and none is written under another profile.
CorrelationFixed ==
    [][\A u \in Users : file[u] # NoEntry /\ file[u].id # NoId =>
          /\ file'[u] # NoEntry
          /\ file'[u].id = file[u].id
          /\ file'[u].profile = file[u].profile]_vars

\* A process started in dry run changes no MAS account, in no branch of the
\* executor ("skip MAS API calls", cmd/scim-bridge/main.go:58).
DryRunCallsNothing ==
    [][DryRun /\ pc # "down" /\ edits' = edits => mas' = mas]_vars

\* With updates disabled the bridge creates accounts and changes none, neither
\* one it made, nor one it adopted, nor that of a user who left the scope.
UpdatesDisabled ==
    [][~AllowUpdates => \A i \in MasIds : Live(i) => mas'[i] \in {mas[i], Gone}]_vars

\* At the end of a cycle the account of every user in order holds what Keycloak
\* said when the cycle read it, and that of every user out of the scope whose
\* removal did not fail is inactive.
SyncedAtIdle ==
    pc = "idle" /\ Writes =>
        \A u \in Users : mem[u] # NoEntry /\ mem[u].status # "error" /\ Live(mem[u].id) =>
            /\ u \in Mapped =>
                  Diff(Desired(scope[u]), mas[mem[u].id]) = {}
            /\ GroupMode /\ scope[u] = NoUser => ~mas[mem[u].id].active

\* Between two cycles the recorded snapshot is what MAS holds, so the diff of
\* the next cycle misses nothing ("the last applied SCIM fields", store.go:166).
SnapshotSound ==
    pc = "idle" =>
        \A u \in Users :
            /\ mem[u] # NoEntry /\ mem[u].status # "error"
            /\ mem[u].snap # NoSnap /\ Live(mem[u].id)
            => Diff(mem[u].snap, mas[mem[u].id]) = {}

\* Every cycle comes to an end.  In particular a MAS that answers 401 to each
\* new token ends the process and does not keep it refreshing (app.go:127-138).
EveryCycleEnds == pc = "resolve" ~> pc \in {"idle", "down"}

\* A user who stays in the scope with a mapped profile is enrolled for good,
\* through crashes and lost replies: an account created just before a crash is
\* found again by the conflict search of a later cycle.  Or an error stands, or
\* MAS goes on refusing the token.
ScopedIsEnrolled ==
    \A u \in Users :
        <>[](kc[u].where = "in" /\ kc[u].profile # Unmapped /\ tokenOK)
        => <>[](/\ mem[u] # NoEntry
                /\ mem[u].status # "error" => MatchExt(u) \subseteq {mem[u].id})

\* A tracked user who leaves the scope for good ends up inactive in MAS: a
\* deactivation that failed is planned again by every cycle (executor.go:118),
\* as long as MAS accepts the token.
RemovedIsDeactivated ==
    \A u \in Users :
        <>[](kc[u].where # "in" /\ tokenOK)
        => <>[](mem[u] # NoEntry /\ Live(mem[u].id) => ~mas[mem[u].id].active)

\* What Keycloak says of a user who stays in the scope reaches MAS, unless an
\* error stands in the user's entry or MAS goes on refusing the token.
ScopedIsSynced ==
    \A u \in Users :
        <>[](kc[u].where = "in" /\ kc[u].profile # Unmapped /\ tokenOK)
        => <>[](/\ mem[u] # NoEntry
                /\ mem[u].status # "error" /\ Live(mem[u].id)
                   => Diff(Desired(kc[u]), mas[mem[u].id]) = {})
=============================================================================
