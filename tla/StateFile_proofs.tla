-------------------------- MODULE StateFile_proofs --------------------------
(***************************************************************************)
(* The file the bridge and the cleanup tool share, for any number of       *)
(* users, accounts, faults and cleanups: it can always be loaded, and one  *)
(* process alone neither forgets an account nor deletes one in use.        *)
(***************************************************************************)
EXTENDS StateFile, FiniteSetTheorems, TLAPS

USE StateFileAssumption

-----------------------------------------------------------------------------
(* The strengthening of the properties. *)

\* Ids that entries hold were issued.
Issued(e) == e # NoEntry /\ e.id # NoId => acct[e.id] # Unissued
KnownIds ==
    /\ \A u \in Users : Issued(file[u]) /\ Issued(mem[u]) /\ Issued(left[u])
    /\ Issued(pend)

\* An account with an externalId is the only one of its user.
SoleOwner == \A i \in Ids : Live(i) /\ acct[i].ext => ByName(acct[i].user) = {i}

\* As long as they have not met, one of the two is not there.
Alone == overlapped \/ bpc = "down" \/ cpc = "off"

\* What a backfill may forget.
Forgets(u, i) == mode = "backfill" /\ ByExt(u) # {i}

\* Memory has what the file has, and so has the entry that is saved next.
MemoryKeeps ==
    ~overlapped /\ bpc # "down" =>
        \A u \in Users, i \in Ids : Names(file, u, i) => Names(mem, u, i) \/ Forgets(u, i)
PendKeeps ==
    /\ bpc \in {"save", "rename"} => cur \in Users /\ pend # NoEntry
    /\ bpc = "rename" => mem[cur] = pend
    /\ ~overlapped /\ bpc = "save" =>
           \A i \in Ids : Names(mem, cur, i) => pend.id = i \/ Forgets(cur, i)

\* The cleanup holds the file, but for entries whose accounts it has deleted.
LeftKeeps ==
    ~overlapped /\ cpc # "off" =>
        \A u \in Users :
            /\ left[u] # NoEntry => left[u] = file[u]
            /\ left[u] = NoEntry => \A i \in Ids : Names(file, u, i) => acct[i] = Gone

\* It comes to every entry in error, and to no other one.
LeftWork ==
    /\ doomed \subseteq InError(left)
    /\ InError(left) \subseteq doomed \cup refused \/ cpc = "off"
    /\ cpc \in {"rename", "done"} => doomed = {}
    /\ cpc = "done" /\ ~overlapped => file = left

IInv ==
    /\ FileIsSound /\ KnownIds /\ SoleOwner /\ Alone /\ MemoryKeeps /\ PendKeeps
    /\ LeftKeeps /\ LeftWork

-----------------------------------------------------------------------------
(* The directory: FileIsSound, in three parts. *)

Maps == acct \in [Ids -> Account \cup {Unissued, Gone}] /\ file \in Map /\ mem \in Map /\ left \in Map

Places ==
    /\ bpc \in {"down", "run", "save", "rename"} /\ mode \in {"poll", "backfill"}
    /\ todo \subseteq Users
    /\ cur \in Users \cup {NoUser} /\ pend \in Entry \cup {NoEntry} /\ strict \in BOOLEAN
    /\ cpc \in {"off", "delete", "rename", "done"}
    /\ doomed \subseteq Users /\ refused \subseteq Users
    /\ overlapped \in BOOLEAN

Counts ==
    /\ litter \in Nat /\ litter <= crashes
    /\ cleanups \in 0..MaxCleanups /\ faults \in 0..MaxFaults /\ crashes \in 0..faults

LEMMA SoundParts == FileIsSound <=> Maps /\ Places /\ Counts
<1>1. FileIsSound => Maps /\ Places
  BY DEF FileIsSound, TypeOK, FileLoads, Maps, Places
<1>2. FileIsSound => Counts
  BY DEF FileIsSound, TypeOK, LitterOnlyByCrash, Counts
<1>3. Counts => LitterOnlyByCrash /\ litter \in 0..MaxFaults
  BY DEF Counts, LitterOnlyByCrash
<1>4. Maps => FileLoads
  BY DEF Maps, FileLoads
<1>5. Counts => /\ litter \in 0..MaxFaults /\ cleanups \in 0..MaxCleanups
               /\ faults \in 0..MaxFaults /\ crashes \in 0..faults
  BY <1>3 DEF Counts
<1>6. Maps /\ Places /\ Counts => TypeOK
  BY <1>5 DEF Maps, Places, TypeOK
<1> QED
  BY <1>1, <1>2, <1>3, <1>4, <1>6 DEF FileIsSound

LEMMA NoMapType == NoMap \in Map
BY DEF NoMap, Map

LEMMA MapSet ==
    ASSUME NEW m \in Map, NEW u, NEW e \in Entry \cup {NoEntry}
    PROVE  [m EXCEPT ![u] = e] \in Map
BY DEF Map

\* One match is found as such.
LEMMA UniqueFinds ==
    ASSUME NEW S \in SUBSET Ids
    PROVE  /\ Unique(S) \in Entry
           /\ Unique(S).id # NoId => S = {Unique(S).id}
           /\ \A i \in Ids : S = {i} => Unique(S).id = i
<1>1. IsFiniteSet(S)
  <2>1. IsFiniteSet(Ids)
    BY FS_Interval DEF Ids
  <2> QED
    BY <2>1, FS_Subset
<1>2. CASE Cardinality(S) = 1
  <2>1. PICK i : S = {i}
    BY <1>1, <1>2, FS_Singleton
  <2>2. Unique(S) = Ok(i)
    BY <1>2, <2>1 DEF Unique
  <2> QED
    BY <2>1, <2>2 DEF Ok, Entry
<1>3. CASE Cardinality(S) # 1
  <2>1. \A i \in Ids : S # {i}
    BY <1>3, FS_Singleton
  <2> QED
    BY <1>3, <2>1 DEF Unique, Unknown, Entry
<1> QED
  BY <1>2, <1>3

LEMMA InitSound == Init => Maps /\ Places /\ Counts
<1> SUFFICES ASSUME Init PROVE Maps /\ Places /\ Counts
  OBVIOUS
<1>1. Maps
  BY NoMapType DEF Init, Maps, Account
<1>2. Places
  BY DEF Init, Places
<1>3. Counts
  BY DEF Init, Counts
<1> QED
  BY <1>1, <1>2, <1>3

\* Faults are counted, and each crash leaves at most one file behind.
LEMMA FaultCounts ==
    ASSUME Counts, UNCHANGED cleanups,
           \/ NoFault /\ UNCHANGED litter
           \/ \E kind : Fault(kind) /\ UNCHANGED litter
           \/ Fault("crash") /\ litter' \in {litter, litter + 1}
    PROVE  Counts'
BY DEF Counts, NoFault, Fault

LEMMA ExitPlaces ==
    ASSUME Maps, Places, Exit
    PROVE  /\ mem' \in Map /\ todo' \subseteq Users /\ cur' \in Users \cup {NoUser}
           /\ bpc' = "down" /\ mode' \in {"poll", "backfill"}
           /\ pend' \in Entry \cup {NoEntry} /\ strict' \in BOOLEAN
BY NoMapType DEF Exit, Places

LEMMA StartSound ==
    ASSUME Maps, Places, Counts, Start
    PROVE  Maps' /\ Places' /\ Counts'
<1>1. Maps'
  BY DEF Start, Maps, diskVars, cleanupVars
<1>2. Places'
  BY DEF Start, Places, Meets, cleanupVars
<1>3. Counts'
  BY FaultCounts DEF Start, diskVars, cleanupVars, NoFault
<1> QED
  BY <1>1, <1>2, <1>3

LEMMA StopSound ==
    ASSUME Maps, Places, Counts, Redeploy \/ BackfillEnds
    PROVE  Maps' /\ Places' /\ Counts'
<1>1. Exit /\ UNCHANGED <<acct, diskVars, cleanupVars, overlapped>>
  BY DEF Redeploy, BackfillEnds
<1>2. Maps'
  BY <1>1, ExitPlaces DEF Maps, diskVars, cleanupVars
<1>3. Places'
  BY <1>1, ExitPlaces DEF Places, cleanupVars
<1>4. Counts'
  BY FaultCounts DEF Redeploy, BackfillEnds, diskVars, cleanupVars, NoFault
<1> QED
  BY <1>2, <1>3, <1>4

LEMMA SkipSound ==
    ASSUME Maps, Places, Counts, NEW u \in Users, BackfillSkips(u)
    PROVE  Maps' /\ Places' /\ Counts'
<1>1. Maps'
  BY DEF BackfillSkips, Maps, diskVars, cleanupVars
<1>2. Places'
  BY DEF BackfillSkips, Places, cleanupVars
<1>3. Counts'
  BY FaultCounts DEF BackfillSkips, diskVars, cleanupVars, NoFault
<1> QED
  BY <1>1, <1>2, <1>3

\* What a Save is going to write is an entry.
LEMMA Recorded ==
    ASSUME Maps, NEW u \in Users,
           PollCreate(u) \/ PollUpdate(u) \/ Backfill(u) \/ BackfillByName(u)
    PROVE  \E e \in Entry, s \in BOOLEAN : Record(u, e, s)
<1>1. Unknown \in Entry /\ \A i \in Ids : Ok(i) \in Entry
  BY DEF Unknown, Ok, Entry
<1>2. \A e \in Entry, s \in {"ok", "error", "deactivated"} : As(e, s) \in Entry
  BY DEF As, Entry
<1>3. mem[u] \in Entry \cup {NoEntry}
  BY DEF Maps, Map
<1>4. ByExt(u) \in SUBSET Ids /\ ByName(u) \in SUBSET Ids
  BY DEF ByExt, ByName
<1>5. CASE PollCreate(u)
  BY <1>1, <1>4, <1>5 DEF PollCreate
<1>6. CASE PollUpdate(u)
  BY <1>2, <1>3, <1>6 DEF PollUpdate
<1>7. CASE Backfill(u) \/ BackfillByName(u)
  BY <1>4, <1>7, UniqueFinds DEF Backfill, BackfillByName
<1> QED
  BY <1>5, <1>6, <1>7

LEMMA RecordsSound ==
    ASSUME Maps, Places, Counts, NEW u \in Users,
           PollCreate(u) \/ PollUpdate(u) \/ Backfill(u) \/ BackfillByName(u)
    PROVE  Maps' /\ Places' /\ Counts'
<1>1. PICK e \in Entry, s \in BOOLEAN : Record(u, e, s)
  BY Recorded
<1>2. acct' \in [Ids -> Account \cup {Unissued, Gone}]
  <2>1. \A i \in Ids : [acct EXCEPT ![i] = [user |-> u, ext |-> TRUE]]
                          \in [Ids -> Account \cup {Unissued, Gone}]
    BY DEF Maps, Account
  <2> QED
    BY <2>1 DEF Maps, PollCreate, PollUpdate, Backfill, BackfillByName
<1>3. Maps'
  BY <1>1, <1>2 DEF Maps, Record, diskVars, cleanupVars
<1>4. Places'
  BY <1>1 DEF Places, Record, cleanupVars
<1>5. NoFault \/ \E kind : Fault(kind)
  BY DEF PollCreate, PollUpdate, Backfill, BackfillByName
<1>6. UNCHANGED <<litter, cleanups>>
  BY <1>1 DEF Record, diskVars, cleanupVars
<1>7. Counts'
  BY <1>5, <1>6, FaultCounts
<1> QED
  BY <1>3, <1>4, <1>7

LEMMA SavesSound ==
    ASSUME Maps, Places, Counts, Save \/ Saved \/ SaveFails \/ BridgeDies
    PROVE  Maps' /\ Places' /\ Counts'
<1>1. [mem EXCEPT ![cur] = pend] \in Map
  BY MapSet DEF Maps, Places
<1>2. Maps'
  BY <1>1, ExitPlaces DEF Maps, Save, Saved, SaveFails, BridgeDies, WriteTemp, Rename, diskVars,
     cleanupVars
<1>3. Places'
  <2>1. CASE Save \/ Saved
    BY <2>1 DEF Places, Save, Saved, cleanupVars
  <2>2. CASE SaveFails /\ ~strict
    BY <2>2 DEF Places, SaveFails, cleanupVars
  <2>3. CASE (SaveFails /\ strict) \/ BridgeDies
    BY <2>3, ExitPlaces DEF Places, SaveFails, BridgeDies, cleanupVars
  <2> QED
    BY <2>1, <2>2, <2>3
<1>4. Counts'
  <2>1. CASE Save \/ Saved
    BY <2>1, FaultCounts DEF Save, Saved, WriteTemp, Rename, NoFault, diskVars, cleanupVars
  <2>2. CASE SaveFails
    BY <2>2, FaultCounts DEF SaveFails, RemoveTemp, cleanupVars
  <2>3. CASE BridgeDies
    <3>1. litter' \in {litter, litter + 1}
      BY <2>3 DEF BridgeDies, Counts
    <3> QED
      BY <2>3, <3>1, FaultCounts DEF BridgeDies, cleanupVars
  <2> QED
    BY <2>1, <2>2, <2>3
<1> QED
  BY <1>2, <1>3, <1>4

LEMMA CleanupSound ==
    ASSUME Maps, Places, Counts,
           Load \/ WriteBack \/ WrittenBack \/ CleanupEnds \/ WriteBackFails \/ CleanupDies
    PROVE  Maps' /\ Places' /\ Counts'
<1>1. Maps'
  BY NoMapType DEF Maps, Load, WriteBack, WriteTemp, WrittenBack, Rename, CleanupEnds, WriteBackFails,
     CleanupDies, CleanupOff, diskVars, bridgeVars
<1>2. Places'
  BY DEF Places, Load, InError, Meets, WriteBack, WrittenBack, CleanupEnds, WriteBackFails, CleanupDies,
     CleanupOff, bridgeVars
<1>3. Counts'
  <2>1. CASE Load
    <3>1. UNCHANGED <<litter, faults, crashes>> /\ cleanups < MaxCleanups /\ cleanups' = cleanups + 1
      BY <2>1 DEF Load, diskVars
    <3> QED
      BY <3>1 DEF Counts
  <2>2. CASE WriteBack \/ WrittenBack \/ CleanupEnds
    BY <2>2, FaultCounts DEF WriteBack, WriteTemp, WrittenBack, Rename, CleanupEnds, CleanupOff, NoFault,
       diskVars
  <2>3. CASE WriteBackFails
    BY <2>3, FaultCounts DEF WriteBackFails, RemoveTemp, CleanupOff
  <2>4. CASE CleanupDies
    <3>1. litter' \in {litter, litter + 1}
      BY <2>4 DEF CleanupDies, Counts
    <3> QED
      BY <2>4, <3>1, FaultCounts DEF CleanupDies, CleanupOff
  <2> QED
    BY <2>1, <2>2, <2>3, <2>4
<1> QED
  BY <1>1, <1>2, <1>3

LEMMA DeletesSound ==
    ASSUME Maps, Places, Counts, NEW u \in Users, DeleteEntry(u) \/ DeleteNoId(u) \/ DeleteFails(u)
    PROVE  Maps' /\ Places' /\ Counts'
<1>1. [left EXCEPT ![u] = NoEntry] \in Map
  BY MapSet DEF Maps
<1>2. acct' \in [Ids -> Account \cup {Unissued, Gone}]
  BY DEF Maps, DeleteEntry, DeleteNoId, DeleteFails, MasDeletes
<1>3. Maps'
  BY <1>1, <1>2 DEF Maps, DeleteEntry, DeleteNoId, DeleteFails, Removed, Kept, diskVars, bridgeVars
<1>4. Places'
  BY DEF Places, DeleteEntry, DeleteNoId, DeleteFails, Removed, Kept, bridgeVars
<1>5. Counts'
  BY FaultCounts DEF DeleteEntry, DeleteNoId, DeleteFails, NoFault, diskVars
<1> QED
  BY <1>3, <1>4, <1>5

LEMMA NextSound == FileIsSound /\ [Next]_vars => FileIsSound'
<1> SUFFICES ASSUME Maps, Places, Counts, [Next]_vars PROVE Maps' /\ Places' /\ Counts'
  BY SoundParts, PTL
<1>1. CASE UNCHANGED vars
  BY <1>1 DEF vars, Maps, Places, Counts, diskVars, bridgeVars, cleanupVars
<1>2. CASE Bridge
  BY <1>2, StartSound, StopSound, SkipSound, RecordsSound, SavesSound DEF Bridge
<1>3. CASE Cleanup
  BY <1>3, CleanupSound, DeletesSound DEF Cleanup
<1> QED
  BY <1>1, <1>2, <1>3 DEF Next

-----------------------------------------------------------------------------
(* Accounts and the entries that name them. *)

LEMMA NoIdApart == NoId \notin Ids
BY DEF NoId, Ids

LEMMA InitIInv == Init => IInv
<1> SUFFICES ASSUME Init PROVE IInv
  OBVIOUS
<1>1. FileIsSound
  BY InitSound, SoundParts
<1>2. KnownIds
  BY DEF Init, NoMap, KnownIds, Issued
<1>3. SoleOwner
  BY DEF Init, SoleOwner, Live
<1>4. Alone /\ MemoryKeeps /\ PendKeeps /\ LeftKeeps /\ LeftWork
  BY DEF Init, NoMap, Alone, MemoryKeeps, PendKeeps, LeftKeeps, LeftWork, InError
<1> QED
  BY <1>1, <1>2, <1>3, <1>4 DEF IInv

\* Steps that leave MAS and the cleanup tool alone keep what is said of them.
LEMMA MasAloneKeeps ==
    ASSUME SoleOwner, UNCHANGED acct
    PROVE  SoleOwner'
BY DEF SoleOwner, Live, ByName

\* The bridge runs on its own: what the cleanup tool holds is as before.
LEMMA BridgeAloneKeeps ==
    ASSUME Alone, LeftKeeps, LeftWork, bpc # "down" \/ UNCHANGED file, UNCHANGED cleanupVars,
           overlapped => overlapped',
           \A i \in Ids : acct[i] = Gone => acct'[i] = Gone
    PROVE  LeftKeeps' /\ LeftWork'
<1>1. UNCHANGED <<cpc, left, doomed, refused>>
  BY DEF cleanupVars
<1>2. CASE UNCHANGED file
  BY <1>1, <1>2 DEF LeftKeeps, LeftWork, InError, Names
<1>3. CASE bpc # "down" /\ ~overlapped
  BY <1>1, <1>3, NoIdApart DEF Alone, LeftKeeps, LeftWork, InError
<1>4. CASE overlapped
  BY <1>1, <1>4 DEF LeftKeeps, LeftWork, InError
<1> QED
  BY <1>2, <1>3, <1>4

LEMMA StartKeeps ==
    ASSUME IInv, Start
    PROVE  IInv'
<1>1. FileIsSound'
  BY StartSound, SoundParts, PTL DEF IInv
<1>2. SoleOwner'
  BY MasAloneKeeps DEF IInv, Start
<1>3. KnownIds'
  BY DEF IInv, KnownIds, Issued, Start, diskVars, cleanupVars
<1>4. LeftKeeps' /\ LeftWork'
  BY BridgeAloneKeeps DEF IInv, Start, diskVars, Meets
<1>5. Alone' /\ PendKeeps'
  BY DEF IInv, Alone, PendKeeps, Start, Meets, cleanupVars
<1>6. MemoryKeeps'
  BY DEF IInv, MemoryKeeps, Start, Names, diskVars
<1> QED
  BY <1>1, <1>2, <1>3, <1>4, <1>5, <1>6 DEF IInv

LEMMA ExitKeeps ==
    ASSUME IInv, Exit, UNCHANGED <<acct, file, cleanupVars, overlapped>>, FileIsSound'
    PROVE  IInv'
<1>1. SoleOwner'
  BY MasAloneKeeps DEF IInv
<1>2. KnownIds'
  BY DEF IInv, KnownIds, Issued, Exit, NoMap, cleanupVars
<1>3. LeftKeeps' /\ LeftWork'
  BY BridgeAloneKeeps DEF IInv
<1>4. Alone' /\ PendKeeps' /\ MemoryKeeps'
  BY DEF IInv, Alone, PendKeeps, MemoryKeeps, Exit
<1> QED
  BY <1>1, <1>2, <1>3, <1>4 DEF IInv

LEMMA SkipKeeps ==
    ASSUME IInv, NEW u \in Users, BackfillSkips(u)
    PROVE  IInv'
<1>1. FileIsSound'
  BY SkipSound, SoundParts, PTL DEF IInv
<1>2. UNCHANGED <<acct, file, bpc, mode, mem, cur, pend, cleanupVars, overlapped>>
  BY DEF BackfillSkips, diskVars
<1>3. SoleOwner' /\ LeftKeeps' /\ LeftWork'
  BY <1>2, MasAloneKeeps, BridgeAloneKeeps DEF IInv
<1>4. KnownIds'
  BY <1>2 DEF IInv, KnownIds, Issued, cleanupVars
<1>5. Alone' /\ PendKeeps' /\ MemoryKeeps'
  BY <1>2 DEF IInv, Alone, PendKeeps, MemoryKeeps, Forgets, ByExt, Live, Names, cleanupVars
<1> QED
  BY <1>1, <1>3, <1>4, <1>5 DEF IInv

\* An entry is put down to be saved, after a call that may have made an account.
LEMMA RecordKeeps ==
    ASSUME IInv, FileIsSound', SoleOwner', bpc = "run",
           NEW u \in Users, NEW e \in Entry, NEW s \in BOOLEAN, Record(u, e, s),
           \A i \in Ids : acct'[i] = acct[i] \/ acct[i] = Unissued,
           mode = "backfill" => UNCHANGED acct,
           e.id # NoId => acct'[e.id] # Unissued,
           \A i \in Ids : Names(mem, u, i) => e.id = i \/ Forgets(u, i)
    PROVE  IInv'
<1>1. /\ UNCHANGED <<file, mode, mem, cpc, left, doomed, refused, overlapped>>
      /\ bpc' = "save" /\ cur' = u /\ pend' = e
  BY DEF Record, diskVars, cleanupVars
<1>2. e # NoEntry
  OBVIOUS
<1>3. \A i \in Ids : acct[i] # Unissued => acct'[i] # Unissued
  OBVIOUS
<1>4. \A i \in Ids : acct[i] = Gone => acct'[i] = Gone
  OBVIOUS
<1>5. \A x \in Entry \cup {NoEntry} : Issued(x) => Issued(x)'
  BY <1>3 DEF Issued, Entry
<1>6. \A v \in Users : {file[v], mem[v], left[v]} \subseteq Entry \cup {NoEntry}
  BY SoundParts DEF IInv, Maps, Map
<1>7. KnownIds'
  <2>1. Issued(pend)'
    BY <1>1 DEF Issued
  <2>2. \A v \in Users : Issued(file[v])' /\ Issued(mem[v])' /\ Issued(left[v])'
    <3> SUFFICES ASSUME NEW v \in Users PROVE Issued(file[v])' /\ Issued(mem[v])' /\ Issued(left[v])'
      OBVIOUS
    <3>1. UNCHANGED <<file[v], mem[v], left[v]>>
      BY <1>1
    <3> QED
      BY <1>3, <1>6, <3>1 DEF IInv, KnownIds, Issued, Entry
  <2> QED
    BY <2>1, <2>2 DEF KnownIds
<1>8. LeftKeeps' /\ LeftWork'
  BY <1>1, <1>4, BridgeAloneKeeps DEF IInv, Record
<1>9. Alone'
  BY <1>1 DEF IInv, Alone
<1>10. \A v \in Users, i \in Ids : Forgets(v, i) => Forgets(v, i)'
  BY <1>1 DEF Forgets, ByExt, Live
<1>11. MemoryKeeps'
  BY <1>1, <1>10 DEF IInv, MemoryKeeps, Names
<1>12. PendKeeps'
  BY <1>1, <1>2, <1>10 DEF PendKeeps, Names
<1> QED
  BY <1>7, <1>8, <1>9, <1>11, <1>12 DEF IInv

LEMMA PollCreateKeeps ==
    ASSUME IInv, NEW u \in Users, PollCreate(u)
    PROVE  IInv'
<1>1. FileIsSound'
  BY RecordsSound, SoundParts, PTL DEF IInv
<1>2. bpc = "run" /\ mode = "poll" /\ mem[u] = NoEntry
  BY DEF PollCreate, Polling
<1>3. \A i \in Ids : ~Names(mem, u, i)
  BY <1>2 DEF Names
<1>4. /\ Unknown \in Entry /\ Unknown.id = NoId
      /\ \A i \in Ids : Ok(i) \in Entry /\ Ok(i).id = i
  BY DEF Unknown, Ok, Entry
<1>5. CASE \E i \in Ids :
              /\ ByName(u) = {} /\ acct[i] = Unissued
              /\ acct' = [acct EXCEPT ![i] = [user |-> u, ext |-> TRUE]]
              /\ Record(u, Ok(i), TRUE)
  <2>1. PICK i \in Ids :
              /\ ByName(u) = {} /\ acct[i] = Unissued
              /\ acct' = [acct EXCEPT ![i] = [user |-> u, ext |-> TRUE]]
              /\ Record(u, Ok(i), TRUE)
    BY <1>5
  <2>2. acct'[i] = [user |-> u, ext |-> TRUE] /\ \A j \in Ids \ {i} : acct'[j] = acct[j]
    BY <2>1, SoundParts DEF IInv, Maps
  <2>3. acct'[i] \notin {Unissued, Gone}
    <3>1. [user |-> u, ext |-> TRUE] \in Account
      BY DEF Account
    <3> QED
      BY <2>2, <3>1
  <2>4. \A j \in Ids : Live(j)' => j = i \/ (Live(j) /\ acct'[j] = acct[j] /\ acct[j].user # u)
    BY <2>1, <2>2 DEF Live, ByName
  <2>5. SoleOwner'
    <3> SUFFICES ASSUME NEW j \in Ids, Live(j)', acct'[j].ext PROVE ByName(acct[j].user)' = {j}
      BY DEF SoleOwner
    <3>1. CASE j = i
      BY <2>2, <2>3, <2>4, <3>1 DEF ByName, Live
    <3>2. CASE j # i
      <4>1. Live(j) /\ acct'[j] = acct[j] /\ acct[j].user # u /\ acct[j].ext
        BY <2>4, <3>2
      <4>2. ByName(acct[j].user) = {j}
        BY <4>1 DEF IInv, SoleOwner
      <4> QED
        BY <2>2, <2>4, <4>1, <4>2 DEF ByName, Live
    <3> QED
      BY <3>1, <3>2
  <2> QED
    BY <1>1, <1>2, <1>3, <1>4, <2>1, <2>2, <2>3, <2>5, RecordKeeps
<1>6. CASE \E i \in ByName(u) : Record(u, Ok(i), TRUE) /\ UNCHANGED acct
  <2>1. PICK i \in ByName(u) : Record(u, Ok(i), TRUE) /\ UNCHANGED acct
    BY <1>6
  <2>2. i \in Ids /\ acct[i] # Unissued
    BY <2>1 DEF ByName, Live
  <2>3. SoleOwner'
    BY <2>1, MasAloneKeeps DEF IInv
  <2> QED
    BY <1>1, <1>2, <1>3, <1>4, <2>1, <2>2, <2>3, RecordKeeps
<1>7. CASE Record(u, Unknown, FALSE) /\ UNCHANGED acct
  <2>1. SoleOwner'
    BY <1>7, MasAloneKeeps DEF IInv
  <2> QED
    BY <1>1, <1>2, <1>3, <1>4, <1>7, <2>1, RecordKeeps
<1> QED
  BY <1>5, <1>6, <1>7 DEF PollCreate

LEMMA PollUpdateKeeps ==
    ASSUME IInv, NEW u \in Users, PollUpdate(u)
    PROVE  IInv'
<1>1. FileIsSound'
  BY RecordsSound, SoundParts, PTL DEF IInv
<1>2. bpc = "run" /\ mode = "poll" /\ mem[u] \in Entry /\ UNCHANGED acct
  BY SoundParts DEF PollUpdate, Polling, IInv, Maps, Map
<1>3. \A s \in {"ok", "error", "deactivated"} :
         As(mem[u], s) \in Entry /\ As(mem[u], s).id = mem[u].id
  BY <1>2 DEF As, Entry
<1>4. mem[u].id # NoId => acct[mem[u].id] # Unissued
  BY <1>2 DEF IInv, KnownIds, Issued
<1>5. \E s \in {"ok", "error", "deactivated"}, b \in BOOLEAN : Record(u, As(mem[u], s), b)
  BY DEF PollUpdate
<1>6. SoleOwner'
  BY <1>2, MasAloneKeeps DEF IInv
<1>7. PICK e \in Entry, b \in BOOLEAN : Record(u, e, b) /\ e.id = mem[u].id
  BY <1>3, <1>5
<1>8. \A i \in Ids : Names(mem, u, i) => e.id = i
  BY <1>7 DEF Names
<1> QED
  BY <1>1, <1>2, <1>4, <1>6, <1>7, <1>8, RecordKeeps

LEMMA BackfillKeeps ==
    ASSUME IInv, NEW u \in Users, Backfill(u) \/ BackfillByName(u)
    PROVE  IInv'
<1>1. FileIsSound'
  BY RecordsSound, SoundParts, PTL DEF IInv
<1>2. bpc = "run" /\ mode = "backfill" /\ UNCHANGED acct
  BY DEF Backfill, BackfillByName, Filling
<1>3. ByExt(u) \in SUBSET Ids /\ ByName(u) \in SUBSET Ids
  BY DEF ByExt, ByName
<1>4. \A i \in Ids : ByExt(u) = {i} => ByName(u) = {i}
  <2> SUFFICES ASSUME NEW i \in Ids, ByExt(u) = {i} PROVE ByName(u) = {i}
    OBVIOUS
  <2>1. Live(i) /\ acct[i].user = u /\ acct[i].ext
    BY DEF ByExt
  <2> QED
    BY <2>1 DEF IInv, SoleOwner
<1>5. PICK S \in {ByExt(u), ByName(u)} : Record(u, Unique(S), FALSE)
  BY DEF Backfill, BackfillByName
<1>6. Unique(S) \in Entry /\ \A i \in Ids : ByExt(u) = {i} => Unique(S).id = i
  BY <1>3, <1>4, <1>5, UniqueFinds
<1>7. Unique(S).id # NoId => acct[Unique(S).id] # Unissued
  BY <1>3, <1>5, UniqueFinds DEF ByExt, ByName, Live
<1>8. \A i \in Ids : Names(mem, u, i) => Unique(S).id = i \/ Forgets(u, i)
  BY <1>2, <1>6 DEF Forgets
<1>9. SoleOwner'
  BY <1>2, MasAloneKeeps DEF IInv
<1> QED
  BY <1>1, <1>2, <1>5, <1>6, <1>7, <1>8, <1>9, RecordKeeps

\* Memory takes the entry over.
LEMMA MemoryTakesOver ==
    ASSUME IInv, FileIsSound', bpc \in {"save", "rename"}, UNCHANGED <<acct, file, mode, overlapped>>,
           mem'[cur] = pend, \A u \in Users \ {cur} : mem'[u] = mem[u]
    PROVE  MemoryKeeps'
<1>0. \A u \in Users, i \in Ids : Forgets(u, i) => Forgets(u, i)'
  BY DEF Forgets, ByExt, Live
<1> SUFFICES ASSUME ~overlapped, NEW u \in Users, NEW i \in Ids, Names(file, u, i), ~Forgets(u, i)
             PROVE  Names(mem', u, i)
  BY <1>0 DEF MemoryKeeps, Names
<1>1. Names(mem, u, i)
  BY DEF IInv, MemoryKeeps
<1>2. mem' # Torn
  <2>1. Maps'
    BY SoundParts, PTL
  <2> QED
    BY <2>1 DEF Maps
<1>3. CASE u # cur
  BY <1>1, <1>2, <1>3 DEF Names
<1>4. CASE u = cur
  <2>1. pend # NoEntry /\ pend.id = i
    BY <1>1, <1>4 DEF IInv, PendKeeps, Names
  <2> QED
    BY <1>2, <1>4, <2>1 DEF Names
<1> QED
  BY <1>3, <1>4

\* Save puts the entry into memory, and later into the file.
LEMMA SaveKeeps ==
    ASSUME IInv, Save
    PROVE  IInv'
<1>1. FileIsSound'
  BY SavesSound, SoundParts, PTL DEF IInv
<1>2. /\ UNCHANGED <<acct, file, mode, cur, pend, cleanupVars, overlapped>>
      /\ bpc = "save" /\ bpc' = "rename" /\ mem' = [mem EXCEPT ![cur] = pend]
  BY DEF Save, WriteTemp, diskVars
<1>3. cur \in Users /\ pend # NoEntry
  BY <1>2 DEF IInv, PendKeeps
<1>4. mem'[cur] = pend /\ \A u \in Users \ {cur} : mem'[u] = mem[u]
  BY <1>2, <1>3, SoundParts DEF IInv, Maps, Map
<1>5. SoleOwner' /\ LeftKeeps' /\ LeftWork'
  BY <1>2, MasAloneKeeps, BridgeAloneKeeps DEF IInv
<1>6. KnownIds'
  BY <1>2, <1>4 DEF IInv, KnownIds, Issued, cleanupVars
<1>7. Alone' /\ PendKeeps'
  BY <1>2, <1>3, <1>4 DEF IInv, Alone, PendKeeps, cleanupVars
<1>8. MemoryKeeps'
  BY <1>1, <1>2, <1>4, MemoryTakesOver
<1> QED
  BY <1>1, <1>5, <1>6, <1>7, <1>8 DEF IInv

LEMMA SavedKeeps ==
    ASSUME IInv, Saved
    PROVE  IInv'
<1>1. FileIsSound'
  BY SavesSound, SoundParts, PTL DEF IInv
<1>2. /\ UNCHANGED <<acct, mode, mem, cleanupVars, overlapped>> /\ file' = mem
      /\ bpc = "rename" /\ bpc' = "run" /\ pend' = NoEntry
  BY DEF Saved, Rename
<1>3. SoleOwner' /\ LeftKeeps' /\ LeftWork'
  BY <1>2, MasAloneKeeps, BridgeAloneKeeps DEF IInv
<1>4. KnownIds'
  BY <1>2 DEF IInv, KnownIds, Issued, cleanupVars
<1>5. Alone' /\ PendKeeps' /\ MemoryKeeps'
  BY <1>2 DEF IInv, Alone, PendKeeps, MemoryKeeps, Names, cleanupVars
<1> QED
  BY <1>1, <1>3, <1>4, <1>5 DEF IInv

LEMMA SaveFailsKeeps ==
    ASSUME IInv, SaveFails
    PROVE  IInv'
<1>1. FileIsSound'
  BY SavesSound, SoundParts, PTL DEF IInv
<1>2. UNCHANGED <<acct, file, cleanupVars, overlapped>> /\ bpc \in {"save", "rename"}
  BY DEF SaveFails
<1>3. CASE strict
  BY <1>1, <1>2, <1>3, ExitKeeps DEF SaveFails
<1>4. CASE ~strict
  <2>1. /\ UNCHANGED mode /\ mem' = [mem EXCEPT ![cur] = pend]
        /\ bpc' = "run" /\ pend' = NoEntry
    BY <1>4 DEF SaveFails
  <2>2. cur \in Users /\ pend # NoEntry
    BY <1>2 DEF IInv, PendKeeps
  <2>3. mem'[cur] = pend /\ \A u \in Users \ {cur} : mem'[u] = mem[u]
    BY <2>1, <2>2, SoundParts DEF IInv, Maps, Map
  <2>4. SoleOwner' /\ LeftKeeps' /\ LeftWork'
    BY <1>2, MasAloneKeeps, BridgeAloneKeeps DEF IInv
  <2>5. KnownIds'
    BY <1>2, <2>1, <2>3 DEF IInv, KnownIds, Issued, cleanupVars
  <2>6. Alone' /\ PendKeeps'
    BY <1>2, <2>1 DEF IInv, Alone, PendKeeps, cleanupVars
  <2>7. MemoryKeeps'
    BY <1>1, <1>2, <2>1, <2>3, MemoryTakesOver
  <2> QED
    BY <1>1, <2>4, <2>5, <2>6, <2>7 DEF IInv
<1> QED
  BY <1>3, <1>4

LEMMA BridgeKeeps ==
    ASSUME IInv, Bridge
    PROVE  IInv'
<1>1. CASE Redeploy \/ BackfillEnds
  <2>1. Exit /\ UNCHANGED <<acct, file, cleanupVars, overlapped>>
    BY <1>1 DEF Redeploy, BackfillEnds, diskVars
  <2> QED
    BY <1>1, <2>1, ExitKeeps, StopSound, SoundParts, PTL DEF IInv
<1>2. CASE BridgeDies
  <2>1. Exit /\ UNCHANGED <<acct, file, cleanupVars, overlapped>>
    BY <1>2 DEF BridgeDies
  <2> QED
    BY <1>2, <2>1, ExitKeeps, SavesSound, SoundParts, PTL DEF IInv
<1> QED
  BY <1>1, <1>2, StartKeeps, SkipKeeps, PollCreateKeeps, PollUpdateKeeps, BackfillKeeps, SaveKeeps,
     SavedKeeps, SaveFailsKeeps DEF Bridge

-----------------------------------------------------------------------------
(* The cleanup tool. *)

LEMMA LoadKeeps ==
    ASSUME IInv, Load
    PROVE  IInv'
<1>1. FileIsSound'
  BY CleanupSound, SoundParts, PTL DEF IInv
<1>2. /\ UNCHANGED <<acct, file, bridgeVars>>
      /\ left' = file /\ doomed' = InError(file) /\ cpc' = "delete"
      /\ overlapped' = (overlapped \/ (bpc' # "down" /\ cpc' # "off"))
  BY DEF Load, diskVars, Meets
<1>3. SoleOwner'
  BY <1>2, MasAloneKeeps DEF IInv
<1>4. KnownIds'
  BY <1>2 DEF IInv, KnownIds, Issued, bridgeVars
<1>5. Alone' /\ LeftKeeps'
  BY <1>2 DEF Alone, LeftKeeps, Names, bridgeVars
<1>6. LeftWork'
  BY <1>2 DEF LeftWork, InError
<1>7. MemoryKeeps' /\ PendKeeps'
  BY <1>2 DEF IInv, MemoryKeeps, PendKeeps, Forgets, ByExt, Live, Names, bridgeVars
<1> QED
  BY <1>1, <1>3, <1>4, <1>5, <1>6, <1>7 DEF IInv

LEMMA WriteBackKeeps ==
    ASSUME IInv, WriteBack
    PROVE  IInv'
<1>1. FileIsSound'
  BY CleanupSound, SoundParts, PTL DEF IInv
<1>2. /\ UNCHANGED <<acct, file, bridgeVars, left, doomed, refused, overlapped>>
      /\ cpc = "delete" /\ cpc' = "rename" /\ doomed = {}
  BY DEF WriteBack, WriteTemp, diskVars
<1>3. SoleOwner'
  BY <1>2, MasAloneKeeps DEF IInv
<1>4. KnownIds'
  BY <1>2 DEF IInv, KnownIds, Issued, bridgeVars
<1>5. Alone' /\ LeftKeeps' /\ LeftWork'
  BY <1>2 DEF IInv, Alone, LeftKeeps, LeftWork, InError, Names, bridgeVars
<1>6. MemoryKeeps' /\ PendKeeps'
  BY <1>2 DEF IInv, MemoryKeeps, PendKeeps, Forgets, ByExt, Live, Names, bridgeVars
<1> QED
  BY <1>1, <1>3, <1>4, <1>5, <1>6 DEF IInv

LEMMA WrittenBackKeeps ==
    ASSUME IInv, WrittenBack
    PROVE  IInv'
<1>1. FileIsSound'
  BY CleanupSound, SoundParts, PTL DEF IInv
<1>2. /\ UNCHANGED <<acct, bridgeVars, left, doomed, refused, overlapped>> /\ file' = left
      /\ cpc = "rename" /\ cpc' = "done"
  BY DEF WrittenBack, Rename
<1>3. SoleOwner'
  BY <1>2, MasAloneKeeps DEF IInv
<1>4. KnownIds'
  BY <1>2 DEF IInv, KnownIds, Issued, bridgeVars
<1>5. Alone' /\ LeftKeeps'
  BY <1>2 DEF IInv, Alone, LeftKeeps, Names, bridgeVars
<1>6. LeftWork'
  BY <1>2 DEF IInv, LeftWork, InError
<1>7. PendKeeps'
  BY <1>2 DEF IInv, PendKeeps, Forgets, ByExt, Live, Names, bridgeVars
<1>8. MemoryKeeps'
  BY <1>2 DEF IInv, Alone, MemoryKeeps, bridgeVars
<1> QED
  BY <1>1, <1>3, <1>4, <1>5, <1>6, <1>7, <1>8 DEF IInv

LEMMA CleanupOffKeeps ==
    ASSUME IInv, CleanupEnds \/ WriteBackFails \/ CleanupDies
    PROVE  IInv'
<1>1. FileIsSound'
  BY CleanupSound, SoundParts, PTL DEF IInv
<1>2. /\ UNCHANGED <<acct, file, bridgeVars, overlapped>>
      /\ cpc' = "off" /\ left' = NoMap /\ doomed' = {}
  BY DEF CleanupEnds, WriteBackFails, CleanupDies, CleanupOff, diskVars
<1>3. SoleOwner'
  BY <1>2, MasAloneKeeps DEF IInv
<1>4. KnownIds'
  BY <1>2 DEF IInv, KnownIds, Issued, NoMap, bridgeVars
<1>5. Alone' /\ LeftKeeps' /\ LeftWork'
  BY <1>2 DEF IInv, Alone, LeftKeeps, LeftWork, bridgeVars
<1>6. MemoryKeeps' /\ PendKeeps'
  BY <1>2 DEF IInv, MemoryKeeps, PendKeeps, Forgets, ByExt, Live, Names, bridgeVars
<1> QED
  BY <1>1, <1>3, <1>4, <1>5, <1>6 DEF IInv

\* An account deleted makes no other one a user's only one.
LEMMA DeleteKeepsOwner ==
    ASSUME SoleOwner, acct \in [Ids -> Account \cup {Unissued, Gone}],
           NEW i \in Ids, acct' = [acct EXCEPT ![i] = Gone]
    PROVE  SoleOwner'
<1>1. \A j \in Ids : Live(j)' => Live(j) /\ acct'[j] = acct[j]
  BY DEF Live
<1>2. ASSUME NEW j \in Ids, Live(j)', acct'[j].ext PROVE ByName(acct[j].user)' = {j}
  <2>1. Live(j) /\ acct'[j] = acct[j] /\ ByName(acct[j].user) = {j}
    BY <1>1, <1>2 DEF SoleOwner
  <2> QED
    BY <1>1, <1>2, <2>1 DEF ByName
<1> QED
  BY <1>2 DEF SoleOwner

LEMMA DeletesKeep ==
    ASSUME IInv, NEW u \in Users, DeleteEntry(u) \/ DeleteNoId(u) \/ DeleteFails(u)
    PROVE  IInv'
<1>1. FileIsSound'
  BY DeletesSound, SoundParts, PTL DEF IInv
<1>2. /\ UNCHANGED <<file, bridgeVars, cpc, overlapped>> /\ doomed' = doomed \ {u}
      /\ cpc = "delete" /\ u \in doomed
  BY DEF DeleteEntry, DeleteNoId, DeleteFails, Deleting, diskVars
<1>3. left[u] # NoEntry /\ left[u].status = "error" /\ left[u] \in Entry
  BY <1>2, SoundParts DEF IInv, Maps, Map, LeftWork, InError
<1>4. acct \in [Ids -> Account \cup {Unissued, Gone}]
  BY SoundParts DEF IInv, Maps
<1>5. \/ UNCHANGED acct
      \/ /\ left[u].id \in Ids /\ acct' = [acct EXCEPT ![left[u].id] = Gone]
         /\ left' = [left EXCEPT ![u] = NoEntry]
  BY DEF DeleteEntry, DeleteNoId, DeleteFails, MasDeletes, Removed, Live
<1>6. SoleOwner'
  BY <1>4, <1>5, MasAloneKeeps, DeleteKeepsOwner DEF IInv
<1>7. \/ UNCHANGED left /\ refused' = refused \cup {u}
      \/ left' = [left EXCEPT ![u] = NoEntry] /\ UNCHANGED refused
  BY DEF DeleteEntry, DeleteNoId, DeleteFails, Removed, Kept
<1>8. left \in Map /\ \A v \in Users : left'[v] = left[v] \/ (v = u /\ left'[v] = NoEntry)
  BY <1>7, SoundParts DEF IInv, Maps, Map
<1>9. \A i \in Ids : acct[i] # Unissued => acct'[i] # Unissued
  BY <1>4, <1>5
<1>10. \A i \in Ids : acct[i] = Gone => acct'[i] = Gone
  BY <1>4, <1>5
<1>11. KnownIds'
  <2>1. \A x \in Entry \cup {NoEntry} : Issued(x) => Issued(x)'
    BY <1>9 DEF Issued, Entry
  <2>2. \A v \in Users : file[v] \in Entry \cup {NoEntry} /\ mem[v] \in Entry \cup {NoEntry}
                         /\ left[v] \in Entry \cup {NoEntry}
    BY SoundParts DEF IInv, Maps, Map
  <2>3. pend \in Entry \cup {NoEntry}
    BY SoundParts DEF IInv, Places
  <2>4. \A v \in Users : Issued(file[v])' /\ Issued(mem[v])' /\ Issued(left[v])'
    BY <1>2, <1>8, <1>9, <2>2 DEF IInv, KnownIds, Issued, Entry, bridgeVars
  <2>5. Issued(pend)'
    BY <1>2, <1>9, <2>3 DEF IInv, KnownIds, Issued, Entry, bridgeVars
  <2> QED
    BY <2>4, <2>5 DEF KnownIds
<1>12. Alone'
  BY <1>2 DEF IInv, Alone, bridgeVars
<1>13. LeftWork'
  <2>1. doomed \subseteq InError(left) /\ InError(left) \subseteq doomed \cup refused
    BY <1>2 DEF IInv, LeftWork
  <2>2. doomed' \subseteq InError(left')
    BY <1>2, <1>8, <2>1 DEF InError
  <2>3. InError(left') \subseteq doomed' \cup refused'
    <3>1. CASE UNCHANGED left /\ refused' = refused \cup {u}
      BY <1>2, <2>1, <3>1
    <3>2. CASE left' = [left EXCEPT ![u] = NoEntry] /\ UNCHANGED refused
      <4>1. u \notin InError(left') /\ InError(left') \subseteq InError(left)
        BY <1>8, <3>2 DEF InError, Map
      <4> QED
        BY <1>2, <2>1, <3>2, <4>1
    <3> QED
      BY <1>7, <3>1, <3>2
  <2> QED
    BY <1>2, <2>2, <2>3 DEF LeftWork, InError
<1>14. MemoryKeeps' /\ PendKeeps'
  <2>1. overlapped \/ bpc = "down"
    BY <1>2 DEF IInv, Alone
  <2> QED
    BY <1>2, <2>1 DEF IInv, MemoryKeeps, PendKeeps, bridgeVars
<1>15. LeftKeeps'
  <2> SUFFICES ASSUME ~overlapped, NEW v \in Users
               PROVE  /\ left'[v] # NoEntry => left'[v] = file[v]
                      /\ left'[v] = NoEntry => \A i \in Ids : Names(file, v, i) => acct'[i] = Gone
    BY <1>2 DEF LeftKeeps, Names
  <2>1. CASE left'[v] = left[v]
    BY <1>2, <1>10, <2>1 DEF IInv, LeftKeeps
  <2>2. CASE v = u /\ left'[u] = NoEntry
    <3>1. left[u] = file[u]
      BY <1>2, <1>3 DEF IInv, LeftKeeps
    <3>2. ASSUME NEW i \in Ids, left[u].id = i PROVE acct'[i] = Gone
      <4>1. i # NoId /\ DeleteEntry(u)
        BY <1>3, <1>7, <2>2, <3>2, NoIdApart DEF DeleteEntry, DeleteNoId, DeleteFails, Kept
      <4>2. acct[i] # Unissued
        BY <1>3, <3>2, <4>1 DEF IInv, KnownIds, Issued
      <4> QED
        BY <1>4, <3>2, <4>1, <4>2 DEF DeleteEntry, MasDeletes, Live
    <3> QED
      BY <2>2, <3>1, <3>2 DEF Names
  <2> QED
    BY <1>8, <2>1, <2>2
<1> QED
  BY <1>1, <1>6, <1>11, <1>12, <1>13, <1>14, <1>15 DEF IInv

-----------------------------------------------------------------------------
(* The theorems. *)

LEMMA NextIInv == IInv /\ [Next]_vars => IInv'
<1> SUFFICES ASSUME IInv, [Next]_vars PROVE IInv'
  OBVIOUS
<1>1. CASE UNCHANGED vars
  <2>1. FileIsSound'
    BY <1>1, NextSound DEF IInv
  <2>2. KnownIds' /\ SoleOwner' /\ Alone'
    BY <1>1 DEF IInv, KnownIds, Issued, SoleOwner, Live, ByName, Alone, vars, diskVars, bridgeVars,
       cleanupVars
  <2>3. MemoryKeeps' /\ PendKeeps'
    BY <1>1 DEF IInv, MemoryKeeps, PendKeeps, Forgets, ByExt, Live, Names, vars, diskVars, bridgeVars
  <2>4. LeftKeeps' /\ LeftWork'
    BY <1>1 DEF IInv, LeftKeeps, LeftWork, InError, Names, vars, diskVars, cleanupVars
  <2> QED
    BY <2>1, <2>2, <2>3, <2>4 DEF IInv
<1>2. CASE Cleanup
  BY <1>2, LoadKeeps, WriteBackKeeps, WrittenBackKeeps, CleanupOffKeeps, DeletesKeep DEF Cleanup
<1> QED
  BY <1>1, <1>2, BridgeKeeps DEF Next

THEOREM Invariance == Spec => []IInv
BY InitIInv, NextIInv, PTL DEF Spec

\* Whoever is killed and whatever fails, with both processes there at once too,
\* the next process can load the file (state/store.go:229-258).
THEOREM DirectorySound == Spec => []FileIsSound
<1>1. IInv => FileIsSound
  BY DEF IInv
<1> QED
  BY Invariance, <1>1, PTL

\* A cleanup that had the file to itself leaves an entry in error only where MAS
\* refused (cmd/scim-bridge-cleanup/main.go:54-95).
THEOREM CleanupsComplete == Spec => []CleanupComplete
<1>1. IInv => CleanupComplete
  BY DEF IInv, LeftWork, CleanupComplete
<1> QED
  BY Invariance, <1>1, PTL

\* The file is replaced by a Save or at the end of a cleanup only.
LEMMA FileReplaced ==
    ASSUME [Next]_vars
    PROVE  UNCHANGED file \/ Saved \/ WrittenBack
<1>1. CASE UNCHANGED vars
  BY <1>1 DEF vars, diskVars
<1>2. CASE Cleanup
  BY <1>2 DEF Cleanup, Load, WriteBack, WriteTemp, CleanupEnds, WriteBackFails, CleanupDies, DeleteEntry,
     DeleteNoId, DeleteFails, diskVars
<1>3. CASE Bridge
  BY <1>3 DEF Bridge, Start, Redeploy, BackfillEnds, Save, WriteTemp, SaveFails, BridgeDies, PollCreate,
     PollUpdate, Backfill, BackfillByName, BackfillSkips, Record, diskVars
<1> QED
  BY <1>1, <1>2, <1>3 DEF Next

\* One process alone forgets no account it has no reason to forget.
THEOREM CorrelationsKept == Spec => CorrelationKept
<1> DEFINE A == \A u \in Users, i \in Ids :
                   Names(file, u, i) /\ ~Names(file', u, i) /\ ~overlapped =>
                       \/ acct[i] = Gone
                       \/ mode = "backfill" /\ ByExt(u) # {i}
<1>1. ASSUME IInv, IInv', [Next]_vars PROVE A
  <2> SUFFICES ASSUME NEW u \in Users, NEW i \in Ids, Names(file, u, i), ~Names(file', u, i), ~overlapped
               PROVE  acct[i] = Gone \/ Forgets(u, i)
    BY DEF Forgets
  <2>1. CASE Saved
    BY <1>1, <2>1 DEF IInv, MemoryKeeps, Saved, Rename
  <2>2. CASE WrittenBack
    <3>1. file' = left /\ cpc # "off"
      BY <2>2 DEF WrittenBack, Rename
    <3>2. left[u] = NoEntry
      BY <1>1, <3>1 DEF IInv, LeftKeeps, Names, FileIsSound, FileLoads
    <3> QED
      BY <1>1, <3>1, <3>2 DEF IInv, LeftKeeps
  <2>3. CASE UNCHANGED file
    BY <2>3
  <2> QED
    BY <1>1, <2>1, <2>2, <2>3, FileReplaced
<1> HIDE DEF A
<1>2. Spec => [][A]_vars
  BY Invariance, <1>1, PTL DEF Spec
<1> QED
  BY <1>2 DEF A, CorrelationKept

\* A cleanup that has the file to itself deletes accounts of entries in error only.
THEOREM ErrorsDeletedOnly == Spec => DeletesErrorsOnly
<1> DEFINE A == \A i \in Ids : Live(i) /\ acct'[i] = Gone /\ ~overlapped =>
                   \E u \in Users : Names(file, u, i) /\ file[u].status = "error"
<1>1. ASSUME IInv, [Next]_vars PROVE A
  <2> SUFFICES ASSUME NEW i \in Ids, Live(i), acct'[i] = Gone, ~overlapped
               PROVE  \E u \in Users : Names(file, u, i) /\ file[u].status = "error"
    OBVIOUS
  <2>1. acct[i] # Gone /\ acct \in [Ids -> Account \cup {Unissued, Gone}]
    BY <1>1, SoundParts DEF IInv, Maps, Live
  <2>2. PICK u \in Users : DeleteEntry(u) /\ left[u].id = i
    <3>1. CASE UNCHANGED acct
      BY <2>1, <3>1
    <3>2. CASE \E u \in Users : PollCreate(u)
      <4>1. PICK u \in Users : PollCreate(u)
        BY <3>2
      <4>2. [user |-> u, ext |-> TRUE] \in Account
        BY DEF Account
      <4> QED
        BY <2>1, <4>1, <4>2 DEF PollCreate
    <3>3. CASE \E u \in Users : DeleteEntry(u)
      BY <2>1, <3>3 DEF DeleteEntry, MasDeletes
    <3>4. CASE Bridge /\ ~\E u \in Users : PollCreate(u)
      <4>1. UNCHANGED acct
        BY <3>4 DEF Bridge, Start, Redeploy, BackfillEnds, Save, Saved, SaveFails, BridgeDies,
           PollUpdate, Backfill, BackfillByName, BackfillSkips
      <4> QED
        BY <2>1, <4>1
    <3>5. CASE Cleanup /\ ~\E u \in Users : DeleteEntry(u)
      <4>1. UNCHANGED acct
        BY <3>5 DEF Cleanup, Load, WriteBack, WrittenBack, CleanupEnds, WriteBackFails, CleanupDies,
           DeleteNoId, DeleteFails
      <4> QED
        BY <2>1, <4>1
    <3> QED
      BY <1>1, <3>1, <3>2, <3>3, <3>4, <3>5 DEF Next, vars
  <2>3. left[u] # NoEntry /\ left[u].status = "error" /\ left[u] = file[u]
    BY <1>1, <2>2 DEF IInv, LeftWork, LeftKeeps, InError, DeleteEntry, Deleting
  <2> QED
    BY <1>1, <2>2, <2>3 DEF IInv, FileIsSound, FileLoads, Names
<1> HIDE DEF A
<1>2. Spec => [][A]_vars
  BY Invariance, <1>1, PTL DEF Spec
<1> QED
  BY <1>2 DEF A, DeletesErrorsOnly
=============================================================================
