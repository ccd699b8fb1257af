-------------------------- MODULE Bootstrap_proofs --------------------------
(***************************************************************************)
(* The swap of the runtime, for any number of bootstraps, versions,        *)
(* failures and kills, any number of them at once: what is launched is     *)
(* whole, a bootstrap alone ends with its own version and is not stopped   *)
(* by what others left behind, and an update that is not forced takes      *)
(* nothing away that is as new as what it brings, and was there before.    *)
(***************************************************************************)
EXTENDS Bootstrap, TLAPS

USE BootstrapAssumption

-----------------------------------------------------------------------------
(* The strengthening of the properties. *)

\* What is staged, by the place of the bootstrap.
Staged ==
    /\ staging = [b \in Boots |-> staging[b]]
    /\ \A b \in Boots :
          /\ pc[b] \in {"off", "check", "swap", "done", "failed"} => staging[b] = None
          /\ pc[b] = "stage" => staging[b] \subseteq Parts
          /\ pc[b] \in {"launcher", "remove", "unlink", "install"} => staging[b] = Parts
          /\ pc[b] = "killed" => staging[b] \in {None, {}}

\* A runtime is whole until somebody takes it away, and when he stops, cut.
RuntimeWhole == runtime # None => runtime.parts = Parts \/ cut \/ \E b \in Boots : pc[b] = "remove"

\* A new launcher has somebody who wrote it and will rename or remove it.
LauncherOwned ==
    tmp \in Versions =>
        \E b \in Boots : pc[b] \in {"remove", "unlink", "install", "swap", "killed"}

\* A bootstrap beside which no other one ran is alone, and so is what it left.
Apart ==
    /\ \A b \in Busy : version[b] \in Versions
    /\ \A b \in Boots \ met :
          /\ b \in Busy => Busy = {b}
          /\ pc[b] = "done" /\ version[b] # None => Busy = {}

\* What it finds and makes is its own.
OwnWay(b) ==
    /\ pc[b] \in {"stage", "launcher"} /\ ~forced[b] => runtime = None
    /\ pc[b] \in {"unlink", "install"} => runtime = None
    /\ pc[b] \in {"remove", "unlink", "install", "swap"} => tmp = version[b]
    /\ pc[b] = "swap" => runtime = [version |-> version[b], parts |-> Parts]

AloneOwnWay == \A b \in Boots \ met : OwnWay(b)

\* Unless another runtime was installed since it looked, an update that looked for a
\* newer release brings one.
Ahead == {"check", "stage", "launcher", "remove"}

BringsNewer ==
    \A b \in Boots \ over :
        how[b] = "newer" /\ pc[b] \in Ahead /\ runtime # None => Newer(version[b], runtime.version)

IInv ==
    /\ TypeOK /\ Staged /\ RuntimeWhole /\ LauncherOwned /\ Apart /\ AloneOwnWay
    /\ BringsNewer /\ OneVersion

-----------------------------------------------------------------------------
(* Types, in two parts, and what a step of one bootstrap leaves to others. *)

Places == Ended \cup {"check", "stage", "launcher", "remove", "unlink", "install", "swap"}

HostOK ==
    /\ runtime = None \/ runtime \in Runtimes
    /\ launcher \in Versions \cup {None, Partial} /\ tmp \in Versions \cup {None, Partial}
    /\ over \subseteq Boots /\ cut \in BOOLEAN /\ faults \in 0..MaxFaults

BootsOK ==
    /\ pc \in [Boots -> Places] /\ version \in [Boots -> Versions \cup {None}]
    /\ forced \in [Boots -> BOOLEAN] /\ how \in [Boots -> {"asked", "newer"}]
    /\ met \subseteq Boots

LEMMA TypeParts == Staged => (TypeOK <=> HostOK /\ BootsOK)
<1> SUFFICES ASSUME Staged PROVE TypeOK <=> HostOK /\ BootsOK
  OBVIOUS
<1>1. BootsOK => /\ \A b \in Boots : staging[b] = None \/ staging[b] \subseteq Parts
                 /\ \A b \in Boots : pc[b] \in {"remove", "unlink", "install"} => staging[b] = Parts
  BY DEF Staged, BootsOK, Places, Ended
<1> QED
  BY <1>1 DEF TypeOK, HostOK, BootsOK, Places

\* Somebody is busy: who is alone is he, and who ended alone is forgotten.
LEMMA OthersQuiet ==
    ASSUME Apart, NEW b \in Busy, NEW c \in Boots \ met, c # b
    PROVE  c \notin Busy /\ ~(pc[c] = "done" /\ version[c] # None)
BY DEF Apart

\* Bootstrap b goes to s.
Moves(b, s) ==
    /\ pc' \in [Boots -> Places] /\ pc'[b] = s /\ \A c \in Boots \ {b} : pc'[c] = pc[c]
    /\ UNCHANGED <<version, forced, how, met>>

LEMMA GoesMoves ==
    ASSUME BootsOK, NEW b \in Boots, NEW s \in Places, Goes(b, s),
           UNCHANGED <<version, forced, how, met>>
    PROVE  Moves(b, s) /\ BootsOK'
BY DEF BootsOK, Goes, Moves

LEMMA StaysMoves ==
    ASSUME BootsOK, NEW b \in Boots, UNCHANGED <<pc, version, forced, how, met>>
    PROVE  Moves(b, pc[b]) /\ BootsOK'
BY DEF BootsOK, Moves

LEMMA StepApart ==
    ASSUME BootsOK, Apart, NEW b \in Busy, NEW s \in Places, Moves(b, s)
    PROVE  Apart'
<1>1. b \in Boots
  BY DEF Busy
<1>2. \A c \in Boots \ {b} : c \in Busy' <=> c \in Busy
  BY DEF Moves, Busy
<1>3. ASSUME NEW c \in Boots \ met' PROVE /\ c \in Busy' => Busy' = {c}
                                          /\ pc'[c] = "done" /\ version'[c] # None => Busy' = {}
  <2>1. CASE c = b
    <3>1. Busy = {b}
      BY <1>3, <2>1 DEF Apart, Moves
    <3>2. \A d \in Boots \ {b} : d \notin Busy'
      BY <1>2, <3>1
    <3>3. Busy' \subseteq {b}
      BY <3>2 DEF Busy
    <3> QED
      BY <2>1, <3>3 DEF Busy, Ended
  <2>2. CASE c # b
    <3>1. c \notin Busy /\ ~(pc[c] = "done" /\ version[c] # None)
      BY <1>3, <2>2, OthersQuiet DEF Moves
    <3> QED
      BY <1>2, <1>3, <2>2, <3>1 DEF Moves
  <2> QED
    BY <2>1, <2>2
<1>4. \A c \in Busy' : version'[c] \in Versions
  BY <1>2 DEF Apart, Moves, Busy
<1> QED
  BY <1>3, <1>4 DEF Apart

LEMMA StepOwnWay ==
    ASSUME BootsOK, Apart, AloneOwnWay, NEW b \in Busy, NEW s \in Places, Moves(b, s),
           b \notin met => OwnWay(b)'
    PROVE  AloneOwnWay'
<1>1. ASSUME NEW c \in Boots \ met, c # b PROVE OwnWay(c)'
  <2>1. pc'[c] = pc[c] /\ pc[c] \in Ended
    BY <1>1, OthersQuiet DEF Moves, Busy
  <2> QED
    BY <1>1, <2>1 DEF OwnWay, Busy, Ended
<1> QED
  BY <1>1 DEF AloneOwnWay, Moves

LEMMA StepOneVersion ==
    ASSUME BootsOK, Apart, OneVersion, NEW b \in Busy, NEW s \in Places, Moves(b, s),
           b \notin met /\ s = "done" =>
               runtime' = [version |-> version[b], parts |-> Parts] /\ launcher' = version[b]
    PROVE  OneVersion'
<1>1. ASSUME NEW c \in Boots \ met, c # b PROVE ~(version'[c] # None /\ pc'[c] = "done")
  BY <1>1, OthersQuiet DEF Moves
<1> QED
  BY <1>1 DEF OneVersion, Moves

\* A step leaves the runtime of that version, or none.
SameRuntime == runtime' = None \/ (runtime # None /\ runtime'.version = runtime.version)

LEMMA StepBringsNewer ==
    ASSUME BringsNewer, NEW b \in Boots, NEW s, Moves(b, s), s \in Ahead => pc[b] \in Ahead,
           SameRuntime, UNCHANGED over
    PROVE  BringsNewer'
<1> SUFFICES ASSUME NEW c \in Boots \ over, how'[c] = "newer", pc'[c] \in Ahead, runtime' # None
             PROVE  Newer(version'[c], runtime'.version)
  BY DEF BringsNewer
<1>1. how[c] = "newer" /\ pc[c] \in Ahead /\ version'[c] = version[c]
  BY DEF Moves
<1>2. runtime # None /\ runtime'.version = runtime.version
  BY DEF SameRuntime
<1> QED
  BY <1>1, <1>2 DEF BringsNewer

LEMMA InitIInv == Init => IInv
<1> SUFFICES ASSUME Init PROVE IInv
  OBVIOUS
<1>1. TypeOK
  <2>1. HostOK
    <3>1. runtime = None \/ runtime \in Runtimes
      BY DEF Init, Runtimes
    <3>2. launcher \in Versions \cup {None, Partial} /\ tmp \in Versions \cup {None, Partial}
      BY DEF Init
    <3>3. cut \in BOOLEAN /\ over \subseteq Boots
      BY DEF Init
    <3>4. faults \in 0..MaxFaults
      <4>1. faults = 0
        BY DEF Init
      <4> QED
        BY <4>1, BootstrapAssumption DEF BootstrapAssumption
    <3> QED
      BY <3>1, <3>2, <3>3, <3>4 DEF HostOK
  <2>2. BootsOK
    BY DEF Init, BootsOK, Places, Ended
  <2>3. Staged
    BY DEF Init, Staged
  <2> QED
    BY <2>1, <2>2, <2>3, TypeParts
<1>2. Staged /\ RuntimeWhole /\ LauncherOwned
  BY DEF Init, Staged, RuntimeWhole, LauncherOwned
<1>3. Apart /\ AloneOwnWay /\ BringsNewer /\ OneVersion
  BY DEF Init, Apart, AloneOwnWay, OwnWay, BringsNewer, Ahead, OneVersion, Busy, Ended
<1> QED
  BY <1>1, <1>2, <1>3 DEF IInv

-----------------------------------------------------------------------------
(* Every action preserves it. *)

LEMMA BeginKeeps ==
    ASSUME IInv, NEW b \in Boots, NEW v \in Versions, NEW f \in BOOLEAN,
           NEW h \in {"asked", "newer"}, Begin(b, v, f, h),
           h = "newer" /\ runtime # None => Newer(v, runtime.version),
           UNCHANGED <<runtime, launcher, tmp, staging, cut, faults>>
    PROVE  IInv'
<1>1. HostOK /\ BootsOK /\ Staged
  BY TypeParts DEF IInv
<1>2. /\ pc[b] = "off" /\ pc'[b] = "check" /\ \A c \in Boots \ {b} : pc'[c] = pc[c]
      /\ pc' \in [Boots -> Places]
  BY <1>1 DEF Begin, Goes, BootsOK, Places
<1>3. BootsOK'
  <2>1. version' \in [Boots -> Versions \cup {None}]
    BY <1>1 DEF Begin, BootsOK
  <2>2. forced' \in [Boots -> BOOLEAN] /\ how' \in [Boots -> {"asked", "newer"}]
    BY <1>1 DEF Begin, BootsOK
  <2>3. met' \subseteq Boots
    BY <1>1 DEF Begin, BootsOK, Busy
  <2> QED
    BY <1>2, <2>1, <2>2, <2>3 DEF BootsOK
<1>4. HostOK'
  <2>1. over' \subseteq Boots
    BY DEF Begin, Busy
  <2> QED
    BY <1>1, <2>1 DEF HostOK
<1>5. Staged'
  BY <1>1, <1>2 DEF Staged
<1>6. RuntimeWhole' /\ LauncherOwned'
  BY <1>2 DEF IInv, RuntimeWhole, LauncherOwned
<1>7. ASSUME NEW c \in Boots \ met', c # b
      PROVE  c \notin Busy' /\ version'[c] = None
  <2>1. c \notin Busy
    BY <1>1, <1>7 DEF Begin
  <2> QED
    BY <1>2, <1>7, <2>1 DEF Begin, Busy
<1>8. ASSUME b \notin met' PROVE Busy' \subseteq {b}
  <2>1. Busy = {}
    BY <1>8 DEF Begin
  <2> QED
    BY <1>2, <2>1 DEF Busy
<1>9. Apart' /\ OneVersion'
  <2>1. \A c \in Busy' : version'[c] \in Versions
    BY <1>2 DEF IInv, Apart, Begin, Busy
  <2>2. \A c \in Boots \ met' : /\ c \in Busy' => Busy' = {c}
                               /\ ~(pc'[c] = "done" /\ version'[c] # None)
    BY <1>2, <1>7, <1>8 DEF Busy
  <2> QED
    BY <2>1, <2>2 DEF Apart, OneVersion
<1>10. version'[b] = v /\ how'[b] = h
  BY <1>1 DEF Begin
<1>11. AloneOwnWay'
  BY <1>2, <1>7, <1>10 DEF AloneOwnWay, OwnWay, Busy, Ended
<1>12. BringsNewer'
  <2> SUFFICES ASSUME NEW c \in Boots \ over', how'[c] = "newer", pc'[c] \in Ahead, runtime # None
               PROVE  Newer(version'[c], runtime.version)
    BY DEF BringsNewer
  <2>1. CASE c = b
    BY <1>10, <2>1
  <2>2. CASE c # b
    <3>1. pc[c] \in Ahead
      BY <1>2, <2>2
    <3>2. c \in Busy
      BY <3>1 DEF Busy, Ended, Ahead
    <3>3. c \notin over /\ how[c] = "newer" /\ version'[c] = version[c]
      BY <2>2, <3>2 DEF Begin
    <3> QED
      BY <3>1, <3>3 DEF IInv, BringsNewer
  <2> QED
    BY <2>1, <2>2
<1> QED
  BY <1>3, <1>4, <1>5, <1>6, <1>9, <1>11, <1>12, TypeParts, PTL DEF IInv

LEMMA CheckKeeps ==
    ASSUME IInv, NEW b \in Boots, Check(b)
    PROVE  IInv'
<1>1. HostOK /\ BootsOK /\ Staged
  BY TypeParts DEF IInv
<1>2. b \in Busy /\ pc[b] = "check"
  BY DEF Check, Busy, Ended
<1>3. PICK s \in {"failed", "stage"} :
         /\ Moves(b, s) /\ BootsOK' /\ (s = "stage" => ~Exists(b) /\ staging' = [staging EXCEPT ![b] = {}])
         /\ s = "failed" => UNCHANGED staging
  BY <1>1, GoesMoves DEF Check, Places, Ended
<1>4. UNCHANGED <<runtime, launcher, tmp, over, cut, faults>>
  BY DEF Check
<1>5. HostOK'
  BY <1>1, <1>4 DEF HostOK
<1>6. Staged'
  BY <1>1, <1>2, <1>3 DEF Staged, Moves
<1>7. RuntimeWhole' /\ LauncherOwned'
  BY <1>2, <1>3, <1>4 DEF IInv, RuntimeWhole, LauncherOwned, Moves
<1>8. ASSUME b \notin met PROVE OwnWay(b)'
  <2>1. OwnWay(b)
    BY <1>8 DEF IInv, AloneOwnWay
  <2> QED
    BY <1>2, <1>3, <1>4, <2>1 DEF OwnWay, Exists, Moves, Busy, Ended
<1>9. Apart' /\ AloneOwnWay' /\ OneVersion'
  BY <1>1, <1>2, <1>3, <1>8, StepApart, StepOwnWay, StepOneVersion DEF IInv, Places, Ended
<1>10. BringsNewer'
  <2>1. SameRuntime /\ UNCHANGED over
    BY <1>2, <1>3, <1>4 DEF SameRuntime
  <2> QED
    BY <1>2, <1>3, <2>1, StepBringsNewer DEF IInv, Ahead, Busy
<1> QED
  BY <1>3, <1>5, <1>6, <1>7, <1>9, <1>10, TypeParts, PTL DEF IInv

LEMMA StageKeeps ==
    ASSUME IInv, NEW b \in Boots, Stage(b)
    PROVE  IInv'
<1>1. HostOK /\ BootsOK /\ Staged
  BY TypeParts DEF IInv
<1>2. b \in Busy /\ pc[b] = "stage"
  BY DEF Stage, Busy, Ended
<1>3. PICK s \in {"stage", "launcher"} :
         /\ Moves(b, s) /\ BootsOK'
         /\ s = "launcher" => staging[b] = Parts /\ UNCHANGED staging
         /\ s = "stage" => \E p \in Parts : staging' = [staging EXCEPT ![b] = @ \cup {p}]
  <2>1. CASE AllStaged(b)
    <3>1. Moves(b, "launcher") /\ BootsOK'
      BY <1>1, <2>1, GoesMoves DEF Stage, Places
    <3> QED
      BY <2>1, <3>1 DEF Stage, AllStaged
  <2>2. CASE ~AllStaged(b)
    <3>1. Moves(b, "stage") /\ BootsOK'
      BY <1>1, <1>2, <2>2, StaysMoves DEF Stage
    <3> QED
      BY <2>2, <3>1 DEF Stage
  <2> QED
    BY <2>1, <2>2
<1>4. UNCHANGED <<runtime, launcher, tmp, over, cut, faults>>
  BY DEF Stage
<1>5. HostOK'
  BY <1>1, <1>4 DEF HostOK
<1>6. Staged'
  BY <1>1, <1>2, <1>3 DEF Staged, Moves
<1>7. RuntimeWhole' /\ LauncherOwned'
  BY <1>2, <1>3, <1>4 DEF IInv, RuntimeWhole, LauncherOwned, Moves
<1>8. ASSUME b \notin met PROVE OwnWay(b)'
  <2>1. OwnWay(b)
    BY <1>8 DEF IInv, AloneOwnWay
  <2> QED
    BY <1>2, <1>3, <1>4, <2>1 DEF OwnWay, Moves, Busy, Ended
<1>9. Apart' /\ AloneOwnWay' /\ OneVersion'
  BY <1>1, <1>2, <1>3, <1>8, StepApart, StepOwnWay, StepOneVersion DEF IInv, Places, Ended
<1>10. BringsNewer'
  <2>1. SameRuntime /\ UNCHANGED over
    BY <1>2, <1>3, <1>4 DEF SameRuntime
  <2> QED
    BY <1>2, <1>3, <2>1, StepBringsNewer DEF IInv, Ahead, Busy
<1> QED
  BY <1>3, <1>5, <1>6, <1>7, <1>9, <1>10, TypeParts, PTL DEF IInv

LEMMA WriteLauncherKeeps ==
    ASSUME IInv, NEW b \in Boots, WriteLauncher(b)
    PROVE  IInv'
<1>1. HostOK /\ BootsOK /\ Staged
  BY TypeParts DEF IInv
<1>2. b \in Busy /\ pc[b] = "launcher"
  BY DEF WriteLauncher, Busy, Ended
<1>3. PICK s \in {"remove", "install"} : Moves(b, s) /\ BootsOK' /\ (s = "install" => ~forced[b])
  BY <1>1, GoesMoves DEF WriteLauncher, Places
<1>4. UNCHANGED <<runtime, launcher, staging, over, cut, faults>> /\ tmp' = version[b]
  BY DEF WriteLauncher, Written
<1>5. HostOK'
  BY <1>1, <1>4 DEF HostOK, BootsOK
<1>6. Staged'
  BY <1>1, <1>2, <1>3, <1>4 DEF Staged, Moves
<1>7. RuntimeWhole'
  BY <1>2, <1>3, <1>4 DEF IInv, RuntimeWhole, Moves
<1>8. LauncherOwned'
  BY <1>3 DEF LauncherOwned, Moves
<1>9. ASSUME b \notin met PROVE OwnWay(b)'
  <2>1. OwnWay(b)
    BY <1>9 DEF IInv, AloneOwnWay
  <2> QED
    BY <1>2, <1>3, <1>4, <2>1 DEF OwnWay, Moves, Busy, Ended
<1>10. Apart' /\ AloneOwnWay' /\ OneVersion'
  BY <1>1, <1>2, <1>3, <1>9, StepApart, StepOwnWay, StepOneVersion DEF IInv, Places, Ended
<1>11. BringsNewer'
  <2>1. SameRuntime /\ UNCHANGED over
    BY <1>2, <1>3, <1>4 DEF SameRuntime
  <2> QED
    BY <1>2, <1>3, <2>1, StepBringsNewer DEF IInv, Ahead, Busy
<1> QED
  BY <1>3, <1>5, <1>6, <1>7, <1>8, <1>10, <1>11, TypeParts, PTL DEF IInv

\* A runtime loses a part, keeps its version, and goes when nothing is left of it.
LEMMA RemoveRuntimeKeeps ==
    ASSUME IInv, NEW b \in Boots, RemoveRuntime(b)
    PROVE  IInv'
<1>1. HostOK /\ BootsOK /\ Staged
  BY TypeParts DEF IInv
<1>2. b \in Busy /\ pc[b] = "remove"
  BY DEF RemoveRuntime, Busy, Ended
<1>3. PICK s \in {"remove", "unlink"} : Moves(b, s) /\ BootsOK' /\ (s = "unlink" => runtime' = None)
  <2>1. CASE UNCHANGED pc /\ runtime # None
    <3>1. Moves(b, "remove") /\ BootsOK'
      BY <1>1, <1>2, <2>1, StaysMoves DEF RemoveRuntime
    <3> QED
      BY <3>1
  <2>2. CASE Goes(b, "unlink") /\ runtime' = None
    <3>1. Moves(b, "unlink") /\ BootsOK'
      BY <1>1, <2>2, GoesMoves DEF RemoveRuntime, Places
    <3> QED
      BY <2>2, <3>1
  <2> QED
    BY <2>1, <2>2 DEF RemoveRuntime
<1>4. UNCHANGED <<launcher, tmp, staging, over, cut, faults>>
  BY DEF RemoveRuntime
<1>5. runtime' = None \/ (runtime # None /\ runtime' \in Runtimes /\ runtime'.version = runtime.version)
  <2>1. ASSUME runtime # None, NEW p PROVE /\ [runtime EXCEPT !.parts = @ \ {p}] \in Runtimes
                            /\ [runtime EXCEPT !.parts = @ \ {p}].version = runtime.version
    BY <1>1, <2>1 DEF HostOK, Runtimes
  <2> QED
    BY <2>1 DEF RemoveRuntime
<1>6. HostOK'
  BY <1>1, <1>4, <1>5 DEF HostOK
<1>7. Staged'
  BY <1>1, <1>2, <1>3, <1>4 DEF Staged, Moves
<1>8. RuntimeWhole'
  BY <1>3 DEF RuntimeWhole, Moves
<1>9. LauncherOwned'
  BY <1>3, <1>4 DEF LauncherOwned, Moves
<1>10. ASSUME b \notin met PROVE OwnWay(b)'
  <2>1. OwnWay(b)
    BY <1>10 DEF IInv, AloneOwnWay
  <2> QED
    BY <1>2, <1>3, <1>4, <1>5, <2>1 DEF OwnWay, Moves, Busy, Ended
<1>11. Apart' /\ AloneOwnWay' /\ OneVersion'
  BY <1>1, <1>2, <1>3, <1>10, StepApart, StepOwnWay, StepOneVersion DEF IInv, Places, Ended
<1>12. BringsNewer'
  <2>1. SameRuntime /\ UNCHANGED over
    BY <1>2, <1>3, <1>4, <1>5 DEF SameRuntime
  <2> QED
    BY <1>2, <1>3, <2>1, StepBringsNewer DEF IInv, Ahead, Busy
<1> QED
  BY <1>3, <1>6, <1>7, <1>8, <1>9, <1>11, <1>12, TypeParts, PTL DEF IInv

LEMMA RemoveLauncherKeeps ==
    ASSUME IInv, NEW b \in Boots, RemoveLauncher(b)
    PROVE  IInv'
<1>1. HostOK /\ BootsOK /\ Staged
  BY TypeParts DEF IInv
<1>2. b \in Busy /\ pc[b] = "unlink"
  BY DEF RemoveLauncher, Busy, Ended
<1>3. Moves(b, "install") /\ BootsOK'
  BY <1>1, GoesMoves DEF RemoveLauncher, Places
<1>4. UNCHANGED <<runtime, tmp, staging, over, cut, faults>> /\ launcher' = None
  BY DEF RemoveLauncher
<1>5. HostOK'
  BY <1>1, <1>4 DEF HostOK
<1>6. Staged'
  BY <1>1, <1>2, <1>3, <1>4 DEF Staged, Moves
<1>7. RuntimeWhole' /\ LauncherOwned'
  BY <1>2, <1>3, <1>4 DEF IInv, RuntimeWhole, LauncherOwned, Moves
<1>8. ASSUME b \notin met PROVE OwnWay(b)'
  <2>1. OwnWay(b)
    BY <1>8 DEF IInv, AloneOwnWay
  <2> QED
    BY <1>2, <1>3, <1>4, <2>1 DEF OwnWay, Moves, Busy, Ended
<1>9. Apart' /\ AloneOwnWay' /\ OneVersion'
  BY <1>1, <1>2, <1>3, <1>8, StepApart, StepOwnWay, StepOneVersion DEF IInv, Places
<1>10. BringsNewer'
  <2>1. SameRuntime /\ UNCHANGED over
    BY <1>2, <1>3, <1>4 DEF SameRuntime
  <2> QED
    BY <1>2, <1>3, <2>1, StepBringsNewer DEF IInv, Ahead, Busy
<1> QED
  BY <1>3, <1>5, <1>6, <1>7, <1>9, <1>10, TypeParts, PTL DEF IInv

LEMMA InstallRuntimeKeeps ==
    ASSUME IInv, NEW b \in Boots, InstallRuntime(b)
    PROVE  IInv'
<1>1. HostOK /\ BootsOK /\ Staged
  BY TypeParts DEF IInv
<1>2. b \in Busy /\ pc[b] = "install"
  BY DEF InstallRuntime, Busy, Ended
<1>3. Moves(b, "swap") /\ BootsOK'
  BY <1>1, GoesMoves DEF InstallRuntime, Places
<1>4. /\ UNCHANGED <<launcher, tmp, faults>> /\ cut' = FALSE
      /\ runtime' = [version |-> version[b], parts |-> Parts]
      /\ staging' = [staging EXCEPT ![b] = None]
  BY <1>1, <1>2 DEF InstallRuntime, Staged
<1>5. HostOK'
  <2>1. version[b] \in Versions => runtime' \in Runtimes
    BY <1>4 DEF Runtimes
  <2>2. version[b] \in Versions
    BY <1>2 DEF IInv, Apart
  <2>3. over' \subseteq Boots
    BY DEF InstallRuntime, Busy
  <2> QED
    BY <1>1, <1>4, <2>1, <2>2, <2>3 DEF HostOK
<1>6. Staged'
  BY <1>1, <1>2, <1>3, <1>4 DEF Staged, Moves
<1>7. RuntimeWhole' /\ LauncherOwned'
  BY <1>2, <1>3, <1>4 DEF IInv, RuntimeWhole, LauncherOwned, Moves
<1>8. ASSUME b \notin met PROVE OwnWay(b)'
  <2>1. OwnWay(b)
    BY <1>8 DEF IInv, AloneOwnWay
  <2> QED
    BY <1>2, <1>3, <1>4, <2>1 DEF OwnWay, Moves, Busy, Ended
<1>9. Apart' /\ AloneOwnWay' /\ OneVersion'
  BY <1>1, <1>2, <1>3, <1>8, StepApart, StepOwnWay, StepOneVersion DEF IInv, Places
<1>10. BringsNewer'
  <2> SUFFICES ASSUME NEW c \in Boots \ over', how[c] = "newer", pc'[c] \in Ahead PROVE FALSE
    BY DEF BringsNewer, InstallRuntime
  <2>1. c # b
    BY <1>1, <1>3 DEF Moves, Ahead
  <2>2. c \in Busy
    BY <1>3, <2>1 DEF Moves, Busy, Ended, Ahead
  <2> QED
    BY <2>1, <2>2 DEF InstallRuntime
<1> QED
  BY <1>3, <1>5, <1>6, <1>7, <1>9, <1>10, TypeParts, PTL DEF IInv

LEMMA InstallLauncherKeeps ==
    ASSUME IInv, NEW b \in Boots, InstallLauncher(b)
    PROVE  IInv'
<1>1. HostOK /\ BootsOK /\ Staged
  BY TypeParts DEF IInv
<1>2. b \in Busy /\ pc[b] = "swap"
  BY DEF InstallLauncher, Busy, Ended
<1>3. Moves(b, "done") /\ BootsOK'
  BY <1>1, GoesMoves DEF InstallLauncher, Places, Ended
<1>4. UNCHANGED <<runtime, staging, over, cut, faults>> /\ launcher' = tmp /\ tmp' = None
  BY DEF InstallLauncher
<1>5. HostOK'
  BY <1>1, <1>4 DEF HostOK
<1>6. Staged'
  BY <1>1, <1>2, <1>3, <1>4 DEF Staged, Moves
<1>7. RuntimeWhole' /\ LauncherOwned'
  BY <1>2, <1>3, <1>4 DEF IInv, RuntimeWhole, LauncherOwned, Moves
<1>8. ASSUME b \notin met
      PROVE  /\ OwnWay(b)'
             /\ runtime' = [version |-> version[b], parts |-> Parts] /\ launcher' = version[b]
  <2>1. OwnWay(b)
    BY <1>8 DEF IInv, AloneOwnWay
  <2> QED
    BY <1>2, <1>3, <1>4, <2>1 DEF OwnWay, Moves, Busy, Ended
<1>9. Apart' /\ AloneOwnWay' /\ OneVersion'
  BY <1>1, <1>2, <1>3, <1>8, StepApart, StepOwnWay, StepOneVersion DEF IInv, Places, Ended
<1>10. BringsNewer'
  <2>1. SameRuntime /\ UNCHANGED over
    BY <1>2, <1>3, <1>4 DEF SameRuntime
  <2> QED
    BY <1>2, <1>3, <2>1, StepBringsNewer DEF IInv, Ahead, Busy
<1> QED
  BY <1>3, <1>5, <1>6, <1>7, <1>9, <1>10, TypeParts, PTL DEF IInv

\* It ends before its time: a launcher of its own is removed by the deferred call.
LEMMA StopsKeep ==
    ASSUME IInv, NEW b \in Boots, Fails(b) \/ Killed(b)
    PROVE  IInv'
<1>1. HostOK /\ BootsOK /\ Staged
  BY TypeParts DEF IInv
<1>2. b \in Busy
  BY DEF Fails, Killed
<1>3. PICK s \in {"failed", "killed"} :
         /\ Moves(b, s) /\ BootsOK'
         /\ s = "failed" => Defers(b)
         /\ s = "killed" => /\ tmp' \in (IF pc[b] = "launcher" THEN {tmp, Partial} ELSE {tmp})
                            /\ staging' = [staging EXCEPT ![b] = IF @ = None THEN None ELSE {}]
  BY <1>1, GoesMoves DEF Fails, Killed, Places, Ended
<1>4. UNCHANGED <<runtime, launcher, over>> /\ cut' = (cut \/ pc[b] = "remove")
  BY DEF Fails, Killed
<1>5. HostOK'
  <2>1. faults' \in 0..MaxFaults
    <3>1. MaxFaults \in Nat
      OBVIOUS
    <3> QED
      BY <1>1, <3>1 DEF HostOK, Fails, Killed, Fault
  <2>2. tmp' \in Versions \cup {None, Partial}
    BY <1>1, <1>3 DEF HostOK, Defers
  <2>3. cut' \in BOOLEAN
    BY <1>1, <1>4 DEF HostOK
  <2> QED
    BY <1>1, <1>4, <2>1, <2>2, <2>3 DEF HostOK
<1>6. Staged'
  BY <1>1, <1>2, <1>3 DEF Staged, Moves, Defers
<1>7. RuntimeWhole'
  BY <1>2, <1>3, <1>4 DEF IInv, RuntimeWhole, Moves
<1>8. LauncherOwned'
  <2>1. CASE s = "killed"
    BY <1>3, <2>1 DEF LauncherOwned, Moves
  <2>2. CASE s = "failed" /\ pc[b] \in {"check", "stage", "launcher"}
    BY <1>3, <2>2 DEF IInv, LauncherOwned, Moves, Defers
  <2>3. CASE s = "failed" /\ pc[b] \notin {"check", "stage", "launcher"}
    <3>1. tmp' = None
      BY <1>3, <2>3 DEF Defers
    <3> QED
      BY <3>1 DEF LauncherOwned
  <2> QED
    BY <2>1, <2>2, <2>3
<1>9. ASSUME b \notin met PROVE OwnWay(b)'
  BY <1>3 DEF OwnWay, Moves, Busy, Ended
<1>10. Apart' /\ AloneOwnWay' /\ OneVersion'
  BY <1>1, <1>2, <1>3, <1>9, StepApart, StepOwnWay, StepOneVersion DEF IInv, Places, Ended
<1>11. BringsNewer'
  <2>1. SameRuntime /\ UNCHANGED over
    BY <1>2, <1>3, <1>4 DEF SameRuntime
  <2> QED
    BY <1>2, <1>3, <2>1, StepBringsNewer DEF IInv, Ahead, Busy
<1> QED
  BY <1>3, <1>5, <1>6, <1>7, <1>8, <1>10, <1>11, TypeParts, PTL DEF IInv

LEMMA StartKeeps ==
    ASSUME IInv, NEW b \in Boots, Bootstrap(b) \/ Update(b)
    PROVE  IInv'
<1>1. CASE Bootstrap(b)
  <2>1. PICK v \in Versions, f \in BOOLEAN : Begin(b, v, f, "asked")
    BY <1>1 DEF Bootstrap
  <2> QED
    BY <1>1, <2>1, BeginKeeps DEF Bootstrap
<1>2. CASE Update(b)
  <2>1. PICK v \in Versions, force \in BOOLEAN :
            /\ force \/ Forward(v)
            /\ Begin(b, v, TRUE, IF force THEN "asked" ELSE "newer")
    BY <1>2 DEF Update
  <2>2. v \in Versions
    BY <2>1, TypeParts DEF IInv, HostOK
  <2>3. PICK h \in {"asked", "newer"} :
            Begin(b, v, TRUE, h) /\ (h = "newer" => Newer(v, runtime.version))
    BY <2>1 DEF Forward
  <2> QED
    BY <1>2, <2>2, <2>3, BeginKeeps DEF Update
<1> QED
  BY <1>1, <1>2

LEMMA NextIInv == IInv /\ [Next]_vars => IInv'
<1> SUFFICES ASSUME IInv, [Next]_vars PROVE IInv'
  OBVIOUS
<1>1. CASE UNCHANGED vars
  <2>1. TypeOK' /\ Staged'
    BY <1>1 DEF IInv, TypeOK, Staged, vars, bootVars
  <2>2. RuntimeWhole' /\ LauncherOwned' /\ OneVersion'
    BY <1>1 DEF IInv, RuntimeWhole, LauncherOwned, OneVersion, vars, bootVars
  <2>3. Apart' /\ AloneOwnWay' /\ BringsNewer'
    BY <1>1 DEF IInv, Apart, AloneOwnWay, OwnWay, BringsNewer, Busy, vars, bootVars
  <2> QED
    BY <2>1, <2>2, <2>3 DEF IInv
<1>2. CASE \E b \in Boots : Bootstrap(b) \/ Update(b) \/ Step(b) \/ Killed(b)
  BY <1>2, StartKeeps, CheckKeeps, StageKeeps, WriteLauncherKeeps, RemoveRuntimeKeeps,
     RemoveLauncherKeeps, InstallRuntimeKeeps, InstallLauncherKeeps, StopsKeep DEF Step
<1> QED
  BY <1>1, <1>2 DEF Next

LEMMA Invariance == Spec => []IInv
BY InitIInv, NextIInv, PTL DEF Spec

-----------------------------------------------------------------------------
(* The theorems. *)

\* Whatever stops whichever bootstraps, the directory starts all of a runtime or
\* says that there is none (bootstrap.go:94-158).
THEOREM HostStaysSound == Spec => []HostIsSound
<1>1. ASSUME IInv PROVE HostIsSound
  <2>1. LaunchesWhole
    BY <1>1 DEF IInv, RuntimeWhole, LaunchesWhole, Launches
  <2>2. LitterOnlyByKill
    BY <1>1 DEF IInv, Staged, LauncherOwned, LitterOnlyByKill, Busy, Ended
  <2> QED
    BY <1>1, <2>1, <2>2 DEF IInv, HostIsSound
<1> QED
  BY Invariance, <1>1, PTL

\* A bootstrap that ended well, alone, has left its own version.
THEOREM OwnVersionLeft == Spec => []OneVersion
<1>1. IInv => OneVersion
  BY DEF IInv
<1> QED
  BY Invariance, <1>1, PTL

\* A bootstrap alone gets through, whatever others have left.
THEOREM AloneGetsThrough == Spec => []AloneNotBlocked
<1>1. ASSUME IInv PROVE AloneNotBlocked
  <2> SUFFICES ASSUME NEW b \in Boots, Blocked(b), b \notin met PROVE FALSE
    BY DEF AloneNotBlocked
  <2>1. OwnWay(b)
    BY <1>1 DEF IInv, AloneOwnWay
  <2>2. pc[b] = "swap" => version[b] \in Versions
    BY <1>1 DEF IInv, Apart, Busy, Ended
  <2> QED
    BY <2>1, <2>2 DEF OwnWay, Blocked
<1> QED
  BY Invariance, <1>1, PTL

\* An update that took the newest release, and was not forced, takes away nothing
\* that is as new but what was installed since it looked (update.go:107).
THEOREM UpdatesGoForward == Spec => OnlyForward
<1> DEFINE A == \A b \in Boots :
                   how[b] = "newer" /\ TakesAway(b) =>
                       Newer(version[b], runtime.version) \/ b \in over
<1>1. ASSUME IInv PROVE A
  BY <1>1 DEF IInv, BringsNewer, Ahead, TakesAway
<1> HIDE DEF A
<1>2. Spec => [][A]_vars
  BY Invariance, <1>1, PTL
<1> QED
  BY <1>2 DEF A, OnlyForward
=============================================================================
