--------------------------- MODULE Install_proofs ---------------------------
(***************************************************************************)
(* Only people launch Jobs, for every value of the constants: the pod of a *)
(* Job runs the command with --local, so it never gets to where a Job is   *)
(* looked up, let alone created.                                           *)
(*                                                                         *)
(* What a Job installs is what its user confirmed, for every request and   *)
(* any number of users, Jobs and failures. A configuration is resolved     *)
(* twice: on the user's machine, and in the pod out of the flags and the   *)
(* Secret the Job was given. So resolving must be idempotent, and what is  *)
(* left out of the flags must not matter.                                  *)
(*                                                                         *)
(* What a run sets up can work: an identity provider comes after the       *)
(* service behind it, a class the run has chosen can bind volumes.         *)
(***************************************************************************)
EXTENDS Install, SequenceTheorems, WellFoundedInduction, TLAPS

USE InstallAssumption

-----------------------------------------------------------------------------
(* The strengthening of JobsFromPeople. *)

\* Runs and Jobs are records of these fields, whatever the fields hold.
IsRun(x) ==
    x = [pc |-> x.pc, conf |-> x.conf, mode |-> x.mode, eff |-> x.eff, told |-> x.told,
         uid |-> x.uid, from |-> x.from, done |-> x.done]
IsJob(x) ==
    x = [args |-> x.args, keys |-> x.keys, phase |-> x.phase, by |-> x.by, wanted |-> x.wanted]

Shaped ==
    /\ run = [r \in Runs |-> run[r]] /\ \A r \in Runs : IsRun(run[r])
    /\ job = [j \in Uids |-> job[j]] /\ \A j \in Uids : IsJob(job[j])

\* A pod is at no step of launching a Job, and what it resolves is --local.
PodPlaces == {"idle", "resolve", "phase", "refused", "cancelled", "failed", "complete"}
PodsLocal ==
    \A j \in Uids :
        /\ run[j].pc \in PodPlaces
        /\ run[j].pc = "resolve" => run[j].mode = PodMode

IInv == Shaped /\ PodsLocal /\ JobsFromPeople

LEMMA InitIInv == Init => IInv
<1> SUFFICES ASSUME Init PROVE IInv
  OBVIOUS
<1>1. IsRun(Idle) /\ Idle.pc = "idle" /\ IsJob(NoJob) /\ NoJob.phase = "none"
  BY DEF IsRun, Idle, IsJob, NoJob
<1>2. Shaped
  BY <1>1 DEF Init, Shaped
<1>3. PodsLocal /\ JobsFromPeople
  BY <1>1 DEF Init, PodsLocal, PodPlaces, JobsFromPeople, IsA, Runs
<1> QED
  BY <1>2, <1>3 DEF IInv

\* A run that only gets to another place keeps everything else.
LEMMA GoesKeeps ==
    ASSUME Shaped, NEW r \in Runs, NEW s, Goes(r, s)
    PROVE  /\ run' = [q \in Runs |-> run'[q]] /\ \A q \in Runs : IsRun(run'[q])
           /\ run'[r].pc = s /\ run'[r].mode = run[r].mode
           /\ \A q \in Runs \ {r} : run'[q] = run[q]
BY DEF Shaped, IsRun, Goes

\* A person's step, whatever it sets, does not touch the pods.
LEMMA PersonKeepsPods ==
    ASSUME Shaped, PodsLocal, NEW u \in Users, NEW x,
           run' = [run EXCEPT ![u] = x]
    PROVE  PodsLocal'
BY DEF Shaped, PodsLocal, Runs

-----------------------------------------------------------------------------
(* Every action preserves it. *)

LEMMA LaunchStep ==
    ASSUME IInv, NEW u \in Users, Launch(u)
    PROVE  IInv'
<1>1. PICK c \in Requests[u], m \in Modes[u] :
          run' = [run EXCEPT ![u].pc = "resolve", ![u].conf = c, ![u].mode = m]
  BY DEF Launch
<1>2. UNCHANGED job
  BY DEF Launch
<1>3. Shaped'
  BY <1>1, <1>2 DEF IInv, Shaped, IsRun, IsJob, Runs
<1>4. PodsLocal'
  BY <1>1 DEF IInv, Shaped, PodsLocal, Runs
<1> QED
  BY <1>2, <1>3, <1>4 DEF IInv, JobsFromPeople, IsA

LEMMA ResolveStep ==
    ASSUME IInv, NEW r \in Runs, Resolve(r) \/ Stop(r)
    PROVE  IInv'
<1>1. run[r].pc = "resolve" /\ UNCHANGED job
  BY DEF Resolve, Stop
<1>2. CASE \E s \in {"refused", "cancelled"} : Goes(r, s)
  <2>1. PICK s \in {"refused", "cancelled"} : Goes(r, s)
    BY <1>2
  <2>2. PodsLocal'
    BY <2>1, GoesKeeps DEF IInv, PodsLocal, PodPlaces, Runs
  <2> QED
    BY <1>1, <2>1, <2>2, GoesKeeps DEF IInv, Shaped, JobsFromPeople, IsA
<1>3. CASE run' = [run EXCEPT ![r].pc = IF InCluster(r) THEN "look" ELSE "phase",
                              ![r].eff = Resolved(run[r].conf)]
  <2>1. Shaped'
    BY <1>1, <1>3 DEF IInv, Shaped, IsRun, IsJob
  <2>2. ASSUME r \in Uids PROVE ~InCluster(r)
    BY <1>1, <2>2 DEF IInv, PodsLocal, PodMode, InCluster
  <2>3. /\ run'[r].mode = run[r].mode
        /\ run'[r].pc = IF InCluster(r) THEN "look" ELSE "phase"
        /\ \A q \in Runs \ {r} : run'[q] = run[q]
    <3>1. run = [q \in Runs |-> run[q]] /\ IsRun(run[r])
      BY DEF IInv, Shaped
    <3> QED
      BY <1>3, <3>1 DEF IsRun
  <2>4. PodsLocal'
    BY <2>2, <2>3 DEF IInv, PodsLocal, PodPlaces, Runs
  <2> QED
    BY <1>1, <2>1, <2>4 DEF IInv, JobsFromPeople, IsA
<1> QED
  BY <1>2, <1>3 DEF Resolve, Stop

\* The steps of launching a Job are a person's.
LEMMA LaunchingStep ==
    ASSUME IInv, NEW r \in Runs,
           \/ LookUp(r) \/ Replace(r) \/ Keep(r) \/ ApplySecret(r) \/ CreateJob(r)
           \/ JobThere(r) \/ LaunchFails(r) \/ Report(r) \/ Detach(r)
    PROVE  IInv'
<1>1. r \in Users
  BY DEF IInv, PodsLocal, PodPlaces, Runs, LookUp, Replace, Keep, ApplySecret, CreateJob,
     JobThere, LaunchFails, Report, Detach
<1>2. CASE UNCHANGED job /\ \E s : Goes(r, s)
  <2>1. PICK s : Goes(r, s)
    BY <1>2
  <2>2. PodsLocal'
    BY <1>1, <2>1, PersonKeepsPods DEF IInv, Goes
  <2> QED
    BY <1>2, <2>1, <2>2, GoesKeeps DEF IInv, Shaped, JobsFromPeople, IsA
<1>3. CASE UNCHANGED job /\ \E s, t : run' = [run EXCEPT ![r].pc = "ask", ![r].told = t]
  <2>1. PICK t : run' = [run EXCEPT ![r].pc = "ask", ![r].told = t]
    BY <1>3
  <2>2. Shaped'
    BY <1>3, <2>1 DEF IInv, Shaped, IsRun, IsJob
  <2>3. PodsLocal'
    BY <1>1, <2>1 DEF IInv, Shaped, PodsLocal, Runs
  <2> QED
    BY <1>3, <2>2, <2>3 DEF IInv, JobsFromPeople, IsA
<1>4. CASE UNCHANGED job /\ \E j : run' = [run EXCEPT ![r].pc = "follow", ![r].uid = j]
  <2>1. PICK j : run' = [run EXCEPT ![r].pc = "follow", ![r].uid = j]
    BY <1>4
  <2>2. Shaped'
    BY <1>4, <2>1 DEF IInv, Shaped, IsRun, IsJob
  <2>3. PodsLocal'
    BY <1>1, <2>1 DEF IInv, Shaped, PodsLocal, Runs
  <2> QED
    BY <1>4, <2>2, <2>3 DEF IInv, JobsFromPeople, IsA
<1>5. CASE CreateJob(r)
  <2>1. PICK j \in Uids : /\ job' = [job EXCEPT ![j] = Manifest(r)]
                          /\ run' = [run EXCEPT ![r].pc = "follow", ![r].uid = j]
    BY <1>5 DEF CreateJob
  <2>2. IsJob(Manifest(r)) /\ Manifest(r).by = r
    BY DEF Manifest, IsJob
  <2>3. Shaped'
    BY <2>1, <2>2 DEF IInv, Shaped, IsRun
  <2>4. PodsLocal'
    BY <1>1, <2>1 DEF IInv, Shaped, PodsLocal, Runs
  <2>5. JobsFromPeople'
    BY <1>1, <2>1, <2>2 DEF IInv, Shaped, JobsFromPeople, IsA
  <2> QED
    BY <2>3, <2>4, <2>5 DEF IInv
<1>6. CASE LookUp(r)
  BY <1>2, <1>3, <1>6 DEF LookUp
<1>7. CASE JobThere(r)
  BY <1>2, <1>4, <1>7 DEF JobThere
<1>8. CASE Replace(r) \/ Keep(r) \/ ApplySecret(r) \/ LaunchFails(r) \/ Report(r) \/ Detach(r)
  BY <1>2, <1>8 DEF Replace, Keep, ApplySecret, LaunchFails, Report, Detach
<1> QED
  BY <1>5, <1>6, <1>7, <1>8

LEMMA PhaseStep ==
    ASSUME IInv, NEW r \in Runs, Phase(r) \/ PhaseFails(r) \/ Complete(r)
    PROVE  IInv'
<1>1. UNCHANGED job
  BY DEF Phase, PhaseFails, Complete
<1>2. CASE Phase(r)
  <2>1. run[r].pc = "phase" /\ run' = [run EXCEPT ![r].done = Append(@, NextPhase(r))]
    BY <1>2 DEF Phase, Working
  <2>2. Shaped'
    BY <1>1, <2>1 DEF IInv, Shaped, IsRun, IsJob
  <2>3. PodsLocal'
    BY <2>1 DEF IInv, Shaped, PodsLocal, Runs, IsRun
  <2> QED
    BY <1>1, <2>2, <2>3 DEF IInv, JobsFromPeople, IsA
<1>3. CASE PhaseFails(r) \/ Complete(r)
  <2>1. PICK s \in {"failed", "complete"} : Goes(r, s)
    BY <1>3 DEF PhaseFails, Complete
  <2>2. PodsLocal'
    BY <2>1, GoesKeeps DEF IInv, PodsLocal, PodPlaces, Runs
  <2> QED
    BY <1>1, <2>1, <2>2, GoesKeeps DEF IInv, Shaped, JobsFromPeople, IsA
<1> QED
  BY <1>2, <1>3

\* The cluster moves a Job on, and never to another owner.
LEMMA JobMoves ==
    ASSUME IInv, NEW j \in Uids, NEW phase, ~IsA(j, "none"), JobGoes(j, phase)
    PROVE  /\ job' = [i \in Uids |-> job'[i]] /\ \A i \in Uids : IsJob(job'[i])
           /\ JobsFromPeople'
<1>1. IsJob(job'[j]) /\ job'[j].by = job[j].by
  BY DEF IInv, Shaped, IsJob, JobGoes
<1>2. \A i \in Uids \ {j} : job'[i] = job[i]
  BY DEF IInv, Shaped, JobGoes
<1>3. job' = [i \in Uids |-> job'[i]]
  BY DEF IInv, Shaped, JobGoes
<1> QED
  BY <1>1, <1>2, <1>3 DEF IInv, Shaped, JobsFromPeople, IsA

LEMMA ClusterStep ==
    ASSUME IInv, NEW j \in Uids, Cluster(j)
    PROVE  IInv'
<1>1. PICK phase : ~IsA(j, "none") /\ JobGoes(j, phase)
  BY DEF Cluster, Schedule, PodStarts, JobEnds, PodDies, IsA, Active
<1>2. CASE UNCHANGED run
  BY <1>1, <1>2, JobMoves DEF IInv, Shaped, PodsLocal
<1>3. CASE Goes(j, "failed")
  <2>1. PodsLocal'
    BY <1>3, GoesKeeps DEF IInv, PodsLocal, PodPlaces, Runs
  <2>2. Shaped'
    BY <1>1, <1>3, JobMoves, GoesKeeps DEF IInv, Shaped, Runs
  <2> QED
    BY <1>1, <2>1, <2>2, JobMoves DEF IInv
<1>4. CASE run' = [run EXCEPT ![j].pc = "resolve", ![j].conf = PodConf(j), ![j].mode = PodMode,
                              ![j].from = secret.by]
  <2>1. run' = [r \in Runs |-> run'[r]] /\ \A r \in Runs : IsRun(run'[r])
    BY <1>4 DEF IInv, Shaped, IsRun, Runs
  <2>2. j \in Runs
    BY DEF Runs
  <2>3. run'[j].pc = "resolve" /\ run'[j].mode = PodMode
    BY <1>4, <2>2 DEF IInv, Shaped, IsRun, Runs
  <2>4. \A q \in Uids \ {j} : run'[q] = run[q]
    BY <1>4 DEF IInv, Shaped, Runs
  <2>5. PodsLocal'
    BY <2>3, <2>4 DEF IInv, PodsLocal, PodPlaces
  <2> QED
    BY <1>1, <2>1, <2>5, JobMoves DEF IInv, Shaped
<1> QED
  BY <1>2, <1>3, <1>4 DEF Cluster, Schedule, PodStarts, JobEnds, PodDies

LEMMA NextIInv == IInv /\ [Next]_vars => IInv'
<1> SUFFICES ASSUME IInv, [Next]_vars PROVE IInv'
  OBVIOUS
<1>1. CASE UNCHANGED vars
  BY <1>1 DEF vars, IInv, Shaped, PodsLocal, JobsFromPeople, IsA
<1> QED
  BY <1>1, LaunchStep, ResolveStep, LaunchingStep, PhaseStep, ClusterStep DEF Next, Command

\* Whatever users ask for, in whatever order things happen, a Job launches no Job
\* (install_incluster.go:632-637).
THEOREM NoJobsFromJobs == Spec => []JobsFromPeople
<1>1. IInv => JobsFromPeople
  BY DEF IInv
<1> QED
  BY InitIInv, NextIInv, <1>1, PTL DEF Spec

-----------------------------------------------------------------------------
(* Resolving twice is resolving once. *)

\* Resolved, with x for the class recommended.
With(c, x) == DefaultAuth(DefaultCore([c EXCEPT !.comps = Normalized(@), !.class = Or(@, x)]))

LEMMA ResolvedWith == ASSUME NEW c PROVE Resolved(c) = With(c, Recommended(classes))
BY DEF Resolved, With

\* The instance of a namespace has that namespace.
LEMMA InstanceHasCore ==
    ASSUME NEW ns PROVE InstanceIn(ns) = Blank \/ CoreNamespace(InstanceIn(ns)) = ns
<1>1. CASE ns \in Range(CoreOf)
  <2>1. \E i \in DOMAIN CoreOf : CoreOf[i] = ns
    BY <1>1 DEF Range
  <2>2. CoreOf[InstanceIn(ns)] = ns
    BY <1>1, <2>1 DEF InstanceIn
  <2> QED
    BY <2>2 DEF CoreNamespace
<1> QED
  BY <1>1 DEF InstanceIn

LEMMA NormalizedTwice == ASSUME NEW S PROVE Normalized(Normalized(S)) = Normalized(S)
BY DEF Normalized

\* Two fields set.
LEMMA SetCompsClass ==
    ASSUME NEW c, IsConf(c), NEW y, NEW z
    PROVE  [c EXCEPT !.comps = y, !.class = z] =
               [comps |-> y, url |-> c.url, token |-> c.token, pass |-> c.pass,
                workspace |-> c.workspace, inst |-> c.inst, core |-> c.core,
                authInst |-> c.authInst, authCore |-> c.authCore, relay |-> c.relay,
                class |-> z, auth |-> c.auth, providers |-> c.providers, skip |-> c.skip,
                wipe |-> c.wipe]
<1> DEFINE d == [c EXCEPT !.comps = y]
<1>1. d = [comps |-> y, url |-> c.url, token |-> c.token, pass |-> c.pass,
           workspace |-> c.workspace, inst |-> c.inst, core |-> c.core,
           authInst |-> c.authInst, authCore |-> c.authCore, relay |-> c.relay,
           class |-> c.class, auth |-> c.auth, providers |-> c.providers,
           skip |-> c.skip, wipe |-> c.wipe]
  BY DEF IsConf
<1>2. [c EXCEPT !.comps = y, !.class = z] = [d EXCEPT !.class = z]
  OBVIOUS
<1> HIDE DEF d
<1> QED
  BY <1>1, <1>2

LEMMA SetCore ==
    ASSUME NEW c, IsConf(c), NEW y, NEW z
    PROVE  [c EXCEPT !.core = y, !.inst = z] =
               [comps |-> c.comps, url |-> c.url, token |-> c.token, pass |-> c.pass,
                workspace |-> c.workspace, inst |-> z, core |-> y,
                authInst |-> c.authInst, authCore |-> c.authCore, relay |-> c.relay,
                class |-> c.class, auth |-> c.auth, providers |-> c.providers,
                skip |-> c.skip, wipe |-> c.wipe]
<1> DEFINE d == [c EXCEPT !.core = y]
<1>1. d = [comps |-> c.comps, url |-> c.url, token |-> c.token, pass |-> c.pass,
           workspace |-> c.workspace, inst |-> c.inst, core |-> y,
           authInst |-> c.authInst, authCore |-> c.authCore, relay |-> c.relay,
           class |-> c.class, auth |-> c.auth, providers |-> c.providers,
           skip |-> c.skip, wipe |-> c.wipe]
  BY DEF IsConf
<1>2. [c EXCEPT !.core = y, !.inst = z] = [d EXCEPT !.inst = z]
  OBVIOUS
<1> HIDE DEF d
<1> QED
  BY <1>1, <1>2

LEMMA SetAuth ==
    ASSUME NEW c, IsConf(c), NEW y, NEW z
    PROVE  [c EXCEPT !.authCore = y, !.authInst = z] =
               [comps |-> c.comps, url |-> c.url, token |-> c.token, pass |-> c.pass,
                workspace |-> c.workspace, inst |-> c.inst, core |-> c.core,
                authInst |-> z, authCore |-> y, relay |-> c.relay, class |-> c.class,
                auth |-> c.auth, providers |-> c.providers, skip |-> c.skip,
                wipe |-> c.wipe]
<1> DEFINE d == [c EXCEPT !.authCore = y]
<1>1. d = [comps |-> c.comps, url |-> c.url, token |-> c.token, pass |-> c.pass,
           workspace |-> c.workspace, inst |-> c.inst, core |-> c.core,
           authInst |-> c.authInst, authCore |-> y, relay |-> c.relay,
           class |-> c.class, auth |-> c.auth, providers |-> c.providers,
           skip |-> c.skip, wipe |-> c.wipe]
  BY DEF IsConf
<1>2. [c EXCEPT !.authCore = y, !.authInst = z] = [d EXCEPT !.authInst = z]
  OBVIOUS
<1> HIDE DEF d
<1> QED
  BY <1>1, <1>2

CoreFor(c)     == Or(c.core, CoreNamespace(c.inst))
InstFor(c)     == Or(c.inst, InstanceIn(c.core))
AuthFor(c)     == Or(c.authInst, InstFor(c))
AuthCoreFor(c) == Or(Or(c.authCore, CoreFor(c)), CoreNamespace(AuthFor(c)))

\* What resolving does to each field.
LEMMA WithFields ==
    ASSUME NEW c, IsConf(c), NEW x
    PROVE  With(c, x) = [comps |-> Normalized(c.comps), url |-> c.url, token |-> c.token,
                         pass |-> c.pass, workspace |-> c.workspace, inst |-> InstFor(c),
                         core |-> CoreFor(c), authInst |-> Or(AuthFor(c), InstanceIn(AuthCoreFor(c))),
                         authCore |-> AuthCoreFor(c), relay |-> c.relay, class |-> Or(c.class, x),
                         auth |-> c.auth, providers |-> c.providers, skip |-> c.skip,
                         wipe |-> c.wipe]
<1> DEFINE d == [c EXCEPT !.comps = Normalized(@), !.class = Or(@, x)]
           e == DefaultCore(d)
<1>1. d = [comps |-> Normalized(c.comps), url |-> c.url, token |-> c.token,
           pass |-> c.pass, workspace |-> c.workspace, inst |-> c.inst,
           core |-> c.core, authInst |-> c.authInst, authCore |-> c.authCore,
           relay |-> c.relay, class |-> Or(c.class, x), auth |-> c.auth,
           providers |-> c.providers, skip |-> c.skip, wipe |-> c.wipe]
  BY SetCompsClass
<1>2. IsConf(d)
  BY <1>1 DEF IsConf
<1>3. With(c, x) = DefaultAuth(e)
  BY DEF With
<1> HIDE DEF d
<1>4. e = [comps |-> Normalized(c.comps), url |-> c.url, token |-> c.token,
           pass |-> c.pass, workspace |-> c.workspace, inst |-> InstFor(c),
           core |-> CoreFor(c), authInst |-> c.authInst, authCore |-> c.authCore,
           relay |-> c.relay, class |-> Or(c.class, x), auth |-> c.auth,
           providers |-> c.providers, skip |-> c.skip, wipe |-> c.wipe]
  <2>1. e = [d EXCEPT !.core = CoreFor(c), !.inst = InstFor(c)]
    BY <1>1 DEF DefaultCore, CoreFor, InstFor
  <2> HIDE DEF e
  <2> QED
    BY <1>1, <1>2, <2>1, SetCore
<1> HIDE DEF e
<1>5. IsConf(e)
  BY <1>2, <1>4, <1>1 DEF IsConf
<1>6. DefaultAuth(e) = [e EXCEPT !.authCore = AuthCoreFor(c),
                                 !.authInst = Or(AuthFor(c), InstanceIn(AuthCoreFor(c)))]
  BY <1>4 DEF DefaultAuth, AuthFor, AuthCoreFor
<1> QED
  BY <1>3, <1>4, <1>5, <1>6, SetAuth

\* The four fields that are worked out of each other stay as they came out.
LEMMA CoreTwice ==
    ASSUME NEW c, NEW d, d.core = CoreFor(c), d.inst = InstFor(c)
    PROVE  CoreFor(d) = d.core /\ InstFor(d) = d.inst
<1>1. CoreNamespace(Blank) = Blank
  BY DEF CoreNamespace
<1>2. InstanceIn(c.core) = Blank \/ CoreNamespace(InstanceIn(c.core)) = c.core
  BY InstanceHasCore
<1> QED
  BY <1>1, <1>2 DEF CoreFor, InstFor, Or

LEMMA AuthTwice ==
    ASSUME NEW c, NEW d, d.core = CoreFor(c), d.inst = InstFor(c),
           d.authCore = AuthCoreFor(c), d.authInst = Or(AuthFor(c), InstanceIn(AuthCoreFor(c)))
    PROVE  AuthCoreFor(d) = d.authCore /\ Or(AuthFor(d), InstanceIn(AuthCoreFor(d))) = d.authInst
<1>1. CoreNamespace(Blank) = Blank
  BY DEF CoreNamespace
<1>2. CoreFor(d) = d.core /\ InstFor(d) = d.inst
  BY CoreTwice
<1>3. \A ns : InstanceIn(ns) = Blank \/ CoreNamespace(InstanceIn(ns)) = ns
  BY InstanceHasCore
<1>4. AuthFor(d) = d.authInst
  BY <1>2 DEF AuthFor, Or
<1>5. AuthCoreFor(d) = d.authCore
  BY <1>1, <1>2, <1>3, <1>4 DEF AuthCoreFor, Or
<1> QED
  BY <1>4, <1>5 DEF Or

LEMMA ResolvedTwice ==
    ASSUME NEW c, IsConf(c), NEW x
    PROVE  IsConf(With(c, x)) /\ With(With(c, x), x) = With(c, x)
<1> DEFINE d == With(c, x)
<1>1. IsConf(d)
  BY WithFields DEF IsConf
<1>2. /\ d.core = CoreFor(c) /\ d.inst = InstFor(c) /\ d.authCore = AuthCoreFor(c)
      /\ d.authInst = Or(AuthFor(c), InstanceIn(AuthCoreFor(c)))
      /\ d.comps = Normalized(c.comps) /\ d.class = Or(c.class, x)
  BY WithFields
<1> HIDE DEF d
<1>3. /\ CoreFor(d) = d.core /\ InstFor(d) = d.inst /\ AuthCoreFor(d) = d.authCore
      /\ Or(AuthFor(d), InstanceIn(AuthCoreFor(d))) = d.authInst
  BY <1>2, CoreTwice, AuthTwice
<1>4. Normalized(d.comps) = d.comps /\ Or(d.class, x) = d.class
  BY <1>2, NormalizedTwice DEF Or
<1>5. With(d, x) = d
  BY <1>1, <1>3, <1>4, WithFields DEF IsConf
<1> QED
  BY <1>1, <1>5 DEF d

-----------------------------------------------------------------------------
(* What a Job is given is enough. *)

\* Flags and Secret in one record.
GivenTo(c, t, q) ==
    [comps |-> c.comps, url |-> IfSet("scim" \in c.comps, c.url), token |-> t, pass |-> q,
     workspace |-> c.workspace, inst |-> c.inst, core |-> c.core,
     authInst |-> IfSet(c.auth, c.authInst), authCore |-> IfSet(c.auth, c.authCore),
     relay |-> IfSet("smtp" \in c.comps, c.relay), class |-> c.class, auth |-> c.auth,
     providers |-> IF c.auth THEN c.providers ELSE {}, skip |-> c.skip /\ "s3" \in c.comps,
     wipe |-> FALSE]

LEMMA JobArgsGiven ==
    ASSUME NEW c, IsConf(c), NEW t, NEW q
    PROVE  [JobArgs(c) EXCEPT !.token = t, !.pass = q] = GivenTo(c, t, q)
<1> DEFINE U == IfSet("scim" \in c.comps, c.url)
           M == IfSet("smtp" \in c.comps, c.relay)
           K == c.skip /\ "s3" \in c.comps
           P == IF c.auth THEN c.providers ELSE {}
           A == IfSet(c.auth, c.authInst)
           N == IfSet(c.auth, c.authCore)
           W == FALSE
           R(url, token, pass, workspace, relay, skip, providers, authInst, authCore, wipe) ==
               [comps |-> c.comps, url |-> url, token |-> token, pass |-> pass,
                workspace |-> workspace, inst |-> c.inst, core |-> c.core, authInst |-> authInst,
                authCore |-> authCore, relay |-> relay, class |-> c.class, auth |-> c.auth,
                providers |-> providers, skip |-> skip, wipe |-> wipe]
           d1 == [c EXCEPT !.url = IfSet("scim" \in c.comps, @)]
           d2 == [d1 EXCEPT !.token = Blank]
           d3 == [d2 EXCEPT !.pass = Blank]
           d4 == [d3 EXCEPT !.workspace = WorkspaceArg(c)]
           d5 == [d4 EXCEPT !.relay = IfSet("smtp" \in c.comps, @)]
           d6 == [d5 EXCEPT !.skip = @ /\ "s3" \in c.comps]
           d7 == [d6 EXCEPT !.providers = IF c.auth THEN @ ELSE {}]
           d8 == [d7 EXCEPT !.authInst = IfSet(c.auth, @)]
           d9 == [d8 EXCEPT !.authCore = IfSet(c.auth, @)]
           d10 == [d9 EXCEPT !.wipe = W]
           d11 == [d10 EXCEPT !.token = t]
           d12 == [d11 EXCEPT !.pass = q]
<1>0. [JobArgs(c) EXCEPT !.token = t, !.pass = q] = d12
  BY DEF JobArgs
<1> HIDE DEF W, K
<1>1. d1 = R(U, c.token, c.pass, c.workspace, c.relay, c.skip, c.providers,
             c.authInst, c.authCore, c.wipe)
  BY DEF IsConf
<1> HIDE DEF d1
<1>2. d2 = R(U, Blank, c.pass, c.workspace, c.relay, c.skip, c.providers, c.authInst, c.authCore, c.wipe)
  BY <1>1
<1> HIDE DEF d2
<1>3. d3 = R(U, Blank, Blank, c.workspace, c.relay, c.skip, c.providers, c.authInst, c.authCore, c.wipe)
  BY <1>2
<1> HIDE DEF d3
<1>4. d4 = R(U, Blank, Blank, c.workspace, c.relay, c.skip, c.providers, c.authInst, c.authCore, c.wipe)
  BY <1>3 DEF WorkspaceArg
<1> HIDE DEF d4
<1>5. d5 = R(U, Blank, Blank, c.workspace, M, c.skip, c.providers, c.authInst, c.authCore, c.wipe)
  BY <1>4
<1> HIDE DEF d5
<1>6. d6 = R(U, Blank, Blank, c.workspace, M, K, c.providers, c.authInst, c.authCore, c.wipe)
  <2>1. d5.skip = c.skip
    BY <1>5
  <2>2. d6 = [d5 EXCEPT !.skip = K]
    BY <2>1 DEF K
  <2> HIDE DEF d6
  <2> QED
    BY <1>5, <2>2
<1> HIDE DEF d6
<1>7. d7 = R(U, Blank, Blank, c.workspace, M, K, P, c.authInst, c.authCore, c.wipe)
  BY <1>6
<1> HIDE DEF d7
<1>8. d8 = R(U, Blank, Blank, c.workspace, M, K, P, A, c.authCore, c.wipe)
  BY <1>7
<1> HIDE DEF d8
<1>9. d9 = R(U, Blank, Blank, c.workspace, M, K, P, A, N, c.wipe)
  BY <1>8
<1> HIDE DEF d9
<1>10. d10 = R(U, Blank, Blank, c.workspace, M, K, P, A, N, W)
  BY <1>9
<1> HIDE DEF d10
<1>11. d11 = R(U, t, Blank, c.workspace, M, K, P, A, N, W)
  BY <1>10
<1> HIDE DEF d11
<1>12. d12 = R(U, t, q, c.workspace, M, K, P, A, N, W)
  BY <1>11
<1> HIDE DEF d12
<1> QED
  BY <1>0, <1>12 DEF GivenTo, W, K

LEMMA GivenIsConf ==
    ASSUME NEW c, IsConf(c), NEW t, NEW q
    PROVE  IsConf(GivenTo(c, t, q))
<1> DEFINE p == GivenTo(c, t, q)
<1>1. p = [comps |-> p.comps, url |-> p.url, token |-> p.token, pass |-> p.pass,
           workspace |-> p.workspace, inst |-> p.inst, core |-> p.core,
           authInst |-> p.authInst, authCore |-> p.authCore, relay |-> p.relay,
           class |-> p.class, auth |-> p.auth, providers |-> p.providers,
           skip |-> p.skip, wipe |-> p.wipe]
  BY DEF GivenTo
<1>2. p.auth \in BOOLEAN /\ p.skip \in BOOLEAN /\ p.wipe \in BOOLEAN
  BY DEF GivenTo, IsConf
<1> HIDE DEF p
<1>3. IsConf(p)
  BY <1>1, <1>2 DEF IsConf
<1> QED
  BY <1>3 DEF p

\* The pod resolves what it is given to what matters of what was resolved.
LEMMA RoundTrip ==
    ASSUME NEW w, IsConf(w), NEW x, With(w, x) = w, ~w.wipe, NEW t, NEW q
    PROVE  LET e == With(GivenTo(w, t, q), x) IN
           /\ Wanted(e) = Wanted(w) /\ e.token = t /\ e.pass = q
           /\ Valid(w) /\ (t = Blank => w.token = Blank) => Valid(e)
<1> DEFINE p == GivenTo(w, t, q)
           e == With(p, x)
<1>1. IsConf(p)
  BY GivenIsConf
<1>2. /\ p.comps = w.comps /\ p.inst = w.inst /\ p.core = w.core /\ p.class = w.class
      /\ p.url = IfSet("scim" \in w.comps, w.url) /\ p.workspace = w.workspace
      /\ p.relay = IfSet("smtp" \in w.comps, w.relay)
      /\ p.auth = w.auth /\ p.providers = IF w.auth THEN w.providers ELSE {}
      /\ p.authInst = IfSet(w.auth, w.authInst) /\ p.authCore = IfSet(w.auth, w.authCore)
      /\ p.token = t /\ p.pass = q
  BY DEF GivenTo
<1>3. p.skip = (w.skip /\ "s3" \in w.comps) /\ p.wipe = FALSE
  BY DEF GivenTo
<1>4. /\ w.comps = Normalized(w.comps) /\ w.class = Or(w.class, x)
      /\ w.core = CoreFor(w) /\ w.inst = InstFor(w) /\ w.authCore = AuthCoreFor(w)
      /\ w.authInst = Or(AuthFor(w), InstanceIn(AuthCoreFor(w)))
  BY WithFields
<1> HIDE DEF p
<1>5. /\ e.comps = Normalized(p.comps) /\ e.class = Or(p.class, x)
      /\ e.core = CoreFor(p) /\ e.inst = InstFor(p) /\ e.authCore = AuthCoreFor(p)
      /\ e.authInst = Or(AuthFor(p), InstanceIn(AuthCoreFor(p)))
      /\ e.url = p.url /\ e.token = p.token /\ e.pass = p.pass /\ e.workspace = p.workspace
      /\ e.relay = p.relay /\ e.auth = p.auth /\ e.providers = p.providers
      /\ e.skip = p.skip /\ e.wipe = p.wipe
  BY <1>1, WithFields
<1> HIDE DEF e
<1>6. e.comps = w.comps /\ e.class = w.class /\ e.core = w.core /\ e.inst = w.inst
  BY <1>2, <1>4, <1>5 DEF CoreFor, InstFor
<1>7. w.auth => e.authCore = w.authCore /\ e.authInst = w.authInst
  <2> HAVE w.auth
  <2>1. p.authInst = w.authInst /\ p.authCore = w.authCore
    BY <1>2 DEF IfSet
  <2>2. CoreFor(p) = CoreFor(w) /\ InstFor(p) = InstFor(w)
    BY <1>2 DEF CoreFor, InstFor
  <2> QED
    BY <1>4, <1>5, <2>1, <2>2 DEF AuthFor, AuthCoreFor
<1>8. w.auth \in BOOLEAN /\ w.skip \in BOOLEAN
  BY DEF IsConf
<1>9. e.auth = w.auth /\ e.workspace = w.workspace
  BY <1>2, <1>5
<1>10. Phases(e) = Phases(w)
  BY <1>3, <1>5, <1>6, <1>9 DEF Phases
<1>11. Wanted(e) = Wanted(w)
  <2>1. (IF "scim" \in e.comps THEN <<e.url, e.workspace>> ELSE <<>>)
          = IF "scim" \in w.comps THEN <<w.url, w.workspace>> ELSE <<>>
    BY <1>2, <1>5, <1>6, <1>9 DEF IfSet
  <2>2. ("s3" \in e.comps /\ ~e.skip) <=> ("s3" \in w.comps /\ ~w.skip)
    BY <1>3, <1>5, <1>6, <1>8
  <2>3. (IF "smtp" \in e.comps THEN <<e.relay>> ELSE <<>>)
          = IF "smtp" \in w.comps THEN <<w.relay>> ELSE <<>>
    BY <1>2, <1>5, <1>6 DEF IfSet
  <2>4. w.auth => AuthProviders(e) = AuthProviders(w)
    BY <1>2, <1>5 DEF AuthProviders
  <2> QED
    BY <1>6, <1>7, <1>9, <1>10, <2>1, <2>2, <2>3, <2>4 DEF Wanted
<1>12. Valid(w) /\ (t = Blank => w.token = Blank) => Valid(e)
  <2> HAVE Valid(w) /\ (t = Blank => w.token = Blank)
  <2>1. "scim" \in e.comps => Blank \notin {e.url, e.token, e.workspace}
    BY <1>2, <1>5, <1>6, <1>9 DEF Valid, IfSet
  <2>2. "s3" \in e.comps /\ ~e.skip => {e.inst, e.core} # {Blank}
    BY <1>3, <1>5, <1>6, <1>8 DEF Valid
  <2>3. w.auth => BackendsChosen(e)
    BY <1>2, <1>5, <1>6 DEF Valid, BackendsChosen, AuthProviders
  <2>4. w.auth => {e.authInst, e.authCore, e.inst, e.core} # {Blank}
    BY <1>6, <1>7 DEF Valid
  <2>5. e.comps # {} /\ (w.auth => e.workspace # Blank \/ "scim" \in e.comps)
    BY <1>6, <1>9 DEF Valid
  <2> QED
    BY <1>9, <2>1, <2>2, <2>3, <2>4, <2>5 DEF Valid
<1>13. e.token = t /\ e.pass = q
  BY <1>2, <1>5
<1> QED
  BY <1>11, <1>12, <1>13 DEF e, p

-----------------------------------------------------------------------------
(* The invariant. *)

\* Resolved, valid, and no uninstall: what a user's run launches a Job with.
Decided(c) == IsConf(c) /\ Resolved(c) = c /\ Valid(c) /\ ~c.wipe

Deciding == {"idle", "resolve"}
UserOK(u) ==
    /\ run[u].pc = "resolve" => IsConf(run[u].conf)
    /\ run[u].pc \in {"look", "ask", "secret", "create"} => Decided(run[u].eff)

\* The Secret has what the run that wrote it last has put in.
SecretOK ==
    secret.by \in Users =>
        /\ run[secret.by].pc \notin Deciding
        /\ run[secret.by].eff.token # Blank => secret.token = run[secret.by].eff.token
        /\ run[secret.by].eff.pass # Blank => secret.pass = run[secret.by].eff.pass

\* A Job is for what its user has decided on.
JobOK(j) ==
    ~IsA(j, "none") =>
        /\ job[j].by \in Users /\ run[job[j].by].pc \notin Deciding
        /\ job[j].wanted = run[job[j].by].eff /\ Decided(job[j].wanted)
        /\ job[j].args = JobArgs(job[j].wanted) /\ job[j].keys = SecretKeys(job[j].wanted)

\* A pod got that, with the credentials the Secret had.
Given(j) ==
    LET c == run[j].conf  w == job[j].wanted IN
    /\ ~IsA(j, "none")
    /\ c = GivenTo(w, c.token, c.pass)
    /\ c.token = Blank => w.token = Blank
    /\ run[j].from = job[j].by => c.token = w.token /\ c.pass = w.pass

PodOK(j) ==
    /\ run[j].pc = "idle" => run[j].eff = None
    /\ job[j].phase \in {"none", "created", "scheduled"} => run[j].pc = "idle"
    /\ run[j].pc = "resolve" \/ run[j].eff # None => Given(j)
    /\ run[j].eff # None => run[j].eff = Resolved(run[j].conf)
    /\ faults = 0 => run[j].pc # "refused"

JInv ==
    /\ \A u \in Users : UserOK(u)
    /\ \A j \in Uids : JobOK(j) /\ PodOK(j)
    /\ SecretOK /\ faults \in Nat

LEMMA InitJInv == Init => JInv
<1> SUFFICES ASSUME Init PROVE JInv
  OBVIOUS
<1>1. \A r \in Runs : run[r].pc = "idle" /\ run[r].eff = None
  BY DEF Init, Idle
<1>2. \A j \in Uids : job[j].phase = "none"
  BY DEF Init, NoJob
<1>3. \A u \in Users : UserOK(u)
  BY <1>1 DEF UserOK, Runs
<1>4. \A j \in Uids : JobOK(j) /\ PodOK(j)
  BY <1>1, <1>2 DEF JobOK, PodOK, IsA, Runs
<1>5. SecretOK
  <2>1. secret.by = None
    BY DEF Init, NoSecret
  <2>2. None \notin Users
    BY InstallAssumption DEF InstallAssumption, Runs
  <2> QED
    BY <2>1, <2>2 DEF SecretOK
<1>6. faults \in Nat
  BY DEF Init
<1> QED
  BY <1>3, <1>4, <1>5, <1>6 DEF JInv


\* Only r moves; a failure is counted.
Moves(r) == \A q \in Runs \ {r} : run'[q] = run[q]
Counts   == UNCHANGED classes /\ faults' \in Nat /\ (faults' = 0 => faults = 0)

LEMMA UsersKeep ==
    ASSUME JInv, NEW u \in Users, run'[u] = run[u], UNCHANGED classes
    PROVE  UserOK(u)'
BY DEF JInv, UserOK, Decided, Resolved

LEMMA JobKeeps ==
    ASSUME JInv, NEW j \in Uids, UNCHANGED classes,
           IsA(j, "none")' = IsA(j, "none"),
           job'[j].by = job[j].by, job'[j].wanted = job[j].wanted,
           job'[j].args = job[j].args, job'[j].keys = job[j].keys,
           \A u \in Users : run[u].pc \notin Deciding =>
               run'[u].pc \notin Deciding /\ run'[u].eff = run[u].eff
    PROVE  JobOK(j)'
BY DEF JInv, JobOK, Decided, Resolved

LEMMA PodKeeps ==
    ASSUME JInv, NEW j \in Uids, Counts, run'[j] = run[j], job'[j] = job[j]
    PROVE  PodOK(j)'
<1>1. Given(j) => Given(j)'
  BY DEF Given, IsA
<1>2. PodOK(j)
  BY DEF JInv
<1> QED
  BY <1>1, <1>2 DEF PodOK, Counts, Resolved

LEMMA SecretKeeps ==
    ASSUME JInv, UNCHANGED secret,
           \A u \in Users : run[u].pc \notin Deciding =>
               run'[u].pc \notin Deciding /\ run'[u].eff = run[u].eff
    PROVE  SecretOK'
BY DEF JInv, SecretOK

-----------------------------------------------------------------------------
(* The steps of a user's run. *)

\* A step of a user past the decision that touches no Job and no Secret.
LEMMA PersonMoves ==
    ASSUME IInv, JInv, NEW u \in Users, Moves(u), Counts, UNCHANGED <<job, secret>>,
           run[u].pc \notin Deciding => run'[u].pc \notin Deciding /\ run'[u].eff = run[u].eff,
           UserOK(u)'
    PROVE  JInv'
<1>1. \A v \in Users \ {u} : run'[v] = run[v]
  BY DEF Moves, Runs
<1>2. \A j \in Uids : run'[j] = run[j]
  BY InstallAssumption DEF Moves, Runs, InstallAssumption
<1>3. \A v \in Users : UserOK(v)'
  BY <1>1, UsersKeep DEF Counts
<1>4. \A v \in Users : run[v].pc \notin Deciding =>
          run'[v].pc \notin Deciding /\ run'[v].eff = run[v].eff
  BY <1>1
<1>5. \A j \in Uids : JobOK(j)' /\ PodOK(j)'
  BY <1>2, <1>4, JobKeeps, PodKeeps DEF Counts, IsA
<1>6. SecretOK'
  BY <1>4, SecretKeeps
<1> QED
  BY <1>3, <1>5, <1>6 DEF JInv, Counts

\* What a run has become.
LEMMA RunSet ==
    ASSUME IInv, NEW r \in Runs, NEW x, run' = [run EXCEPT ![r] = x]
    PROVE  run'[r] = x /\ Moves(r)
BY DEF IInv, Shaped, Moves

LEMMA RunGoes ==
    ASSUME IInv, NEW r \in Runs, NEW s, Goes(r, s)
    PROVE  /\ run'[r].pc = s /\ run'[r].eff = run[r].eff /\ run'[r].conf = run[r].conf
           /\ run'[r].from = run[r].from
           /\ Moves(r)
<1>1. run = [q \in Runs |-> run[q]] /\ IsRun(run[r])
  BY DEF IInv, Shaped
<1> QED
  BY <1>1 DEF Goes, IsRun, Moves

LEMMA FaultCounts == ASSUME JInv, Fault, UNCHANGED classes PROVE Counts /\ faults' # 0
BY DEF JInv, Fault, Counts
LEMMA QuietCounts == ASSUME JInv, UNCHANGED <<classes, faults>> PROVE Counts
BY DEF JInv, Counts

LEMMA LaunchJ ==
    ASSUME IInv, JInv, NEW u \in Users, Launch(u)
    PROVE  JInv'
<1>1. PICK c \in Requests[u], m \in Modes[u] :
          run' = [run EXCEPT ![u].pc = "resolve", ![u].conf = c, ![u].mode = m]
  BY DEF Launch
<1>2. run[u].pc = "idle" /\ Counts /\ UNCHANGED <<job, secret>>
  BY QuietCounts DEF Launch
<1>3. run'[u].pc = "resolve" /\ run'[u].conf = c /\ Moves(u)
  <2>1. run = [q \in Runs |-> run[q]] /\ IsRun(run[u]) /\ u \in Runs
    BY DEF IInv, Shaped, Runs
  <2> QED
    BY <1>1, <2>1 DEF IsRun, Moves
<1>4. UserOK(u)'
  BY <1>3, InstallAssumption DEF InstallAssumption, UserOK
<1> QED
  BY <1>2, <1>3, <1>4, PersonMoves DEF Deciding

\* The decision, of a user or in a pod.
LEMMA Resolves ==
    ASSUME IInv, NEW r \in Runs, Resolve(r)
    PROVE  \/ Refused(r) /\ Goes(r, "refused")
           \/ /\ ~Refused(r)
              /\ run'[r].pc = IF InCluster(r) THEN "look" ELSE "phase"
              /\ run'[r].eff = Resolved(run[r].conf)
              /\ run'[r].conf = run[r].conf /\ run'[r].from = run[r].from
              /\ Moves(r)
<1>1. run = [q \in Runs |-> run[q]] /\ IsRun(run[r])
  BY DEF IInv, Shaped
<1>2. CASE Refused(r)
  BY <1>2 DEF Resolve
<1>3. CASE ~Refused(r)
  <2>1. run' = [run EXCEPT ![r].pc = IF InCluster(r) THEN "look" ELSE "phase",
                           ![r].eff = Resolved(run[r].conf)]
    BY <1>3 DEF Resolve
  <2> QED
    BY <1>1, <1>3, <2>1 DEF IsRun, Moves
<1> QED
  BY <1>2, <1>3

LEMMA PersonResolves ==
    ASSUME IInv, JInv, NEW u \in Users, Resolve(u) \/ Stop(u)
    PROVE  JInv'
<1>1. u \in Runs /\ run[u].pc = "resolve" /\ Counts /\ UNCHANGED <<job, secret>>
  BY QuietCounts, FaultCounts DEF Resolve, Stop, Runs
<1>2. CASE \E s \in {"refused", "cancelled"} : Goes(u, s)
  <2>1. PICK s \in {"refused", "cancelled"} : Goes(u, s)
    BY <1>2
  <2>2. Moves(u) /\ UserOK(u)'
    BY <1>1, <2>1, RunGoes DEF UserOK
  <2> QED
    BY <1>1, <2>2, PersonMoves DEF Deciding
<1>3. CASE Resolve(u) /\ ~Refused(u)
  <2>1. /\ run'[u].pc = IF InCluster(u) THEN "look" ELSE "phase"
        /\ run'[u].eff = Resolved(run[u].conf) /\ Moves(u)
    BY <1>1, <1>3, Resolves, RunGoes
  <2>2. IsConf(run[u].conf)
    BY <1>1 DEF JInv, UserOK
  <2>3. ASSUME InCluster(u) PROVE Decided(Resolved(run[u].conf))
    <3>1. Valid(Resolved(run[u].conf)) /\ ~run[u].conf.wipe
      BY <1>3, <2>3 DEF Refused, MayWipe
    <3>2. /\ IsConf(Resolved(run[u].conf))
          /\ Resolved(Resolved(run[u].conf)) = Resolved(run[u].conf)
      BY <2>2, ResolvedWith, ResolvedTwice
    <3>3. Resolved(run[u].conf).wipe = run[u].conf.wipe
      BY <2>2, ResolvedWith, WithFields
    <3> QED
      BY <3>1, <3>2, <3>3 DEF Decided
  <2>4. InCluster(u) => Decided(run[u].eff)'
    <3> DEFINE e == Resolved(run[u].conf)
    <3>1. run'[u].eff = e /\ (InCluster(u) => Decided(e)) /\ UNCHANGED classes
      BY <1>1, <2>1, <2>3 DEF Counts
    <3> HIDE DEF e
    <3> QED
      BY <3>1 DEF Decided, Resolved
  <2>5. UserOK(u)'
    BY <2>1, <2>4 DEF UserOK
  <2> QED
    BY <1>1, <2>1, <2>5, PersonMoves DEF Deciding
<1> QED
  BY <1>1, <1>2, <1>3, Resolves DEF Stop

\* Steps that only go on, among those that launch a Job or to an end.
LEMMA LaunchingMoves ==
    ASSUME IInv, JInv, NEW u \in Users, Moves(u), Counts, UNCHANGED job,
           run[u].pc \notin Deciding, run'[u].pc \notin Deciding, run'[u].eff = run[u].eff,
           run'[u].pc \in {"look", "ask", "secret", "create"} =>
               run[u].pc \in {"look", "ask", "secret", "create"}
    PROVE  UserOK(u)' /\ (UNCHANGED secret => JInv')
<1>1. UserOK(u)'
  BY DEF JInv, UserOK, Deciding, Decided, Resolved, Counts
<1> QED
  BY <1>1, PersonMoves

LEMMA SecretApplied ==
    ASSUME IInv, JInv, NEW u \in Users, ApplySecret(u)
    PROVE  JInv'
<1>1. /\ run[u].pc = "secret" /\ Counts /\ UNCHANGED job /\ u \in Runs
      /\ run'[u].pc = "create" /\ run'[u].eff = run[u].eff /\ Moves(u)
  BY RunGoes, QuietCounts DEF ApplySecret, Runs
<1>2. UserOK(u)'
  BY <1>1, LaunchingMoves DEF Deciding
<1>3. \A v \in Users : run[v].pc \notin Deciding =>
          run'[v].pc \notin Deciding /\ run'[v].eff = run[v].eff
  BY <1>1 DEF Moves, Runs, Deciding
<1>4. \A v \in Users : UserOK(v)'
  BY <1>1, <1>2, UsersKeep DEF Moves, Runs, Counts
<1>5. \A j \in Uids : JobOK(j)' /\ PodOK(j)'
  <2> TAKE j \in Uids
  <2>1. run'[j] = run[j]
    BY <1>1, InstallAssumption DEF Moves, Runs, InstallAssumption
  <2> QED
    BY <1>1, <1>3, <2>1, JobKeeps, PodKeeps DEF Counts, IsA
<1>6. SecretOK'
  <2> DEFINE c == run[u].eff
  <2>1. CASE SecretKeys(c) = {}
    BY <1>1, <1>3, <2>1, SecretKeeps DEF ApplySecret
  <2>2. CASE SecretKeys(c) # {}
    <3>1. secret' = [token |-> Or(c.token, secret.token), pass |-> Or(c.pass, secret.pass),
                     by |-> u]
      BY <2>2 DEF ApplySecret
    <3> QED
      BY <1>1, <3>1 DEF SecretOK, Deciding, Or
  <2> QED
    BY <2>1, <2>2
<1> QED
  BY <1>1, <1>4, <1>5, <1>6 DEF JInv, Counts

LEMMA JobCreated ==
    ASSUME IInv, JInv, NEW u \in Users, CreateJob(u)
    PROVE  JInv'
<1>1. PICK i \in Uids :
          /\ IsA(i, "none") /\ job' = [job EXCEPT ![i] = Manifest(u)]
          /\ run' = [run EXCEPT ![u].pc = "follow", ![u].uid = i]
  BY DEF CreateJob
<1>2. run[u].pc = "create" /\ Counts /\ UNCHANGED secret /\ u \in Runs
  BY QuietCounts DEF CreateJob, Runs
<1>3. run'[u].pc = "follow" /\ run'[u].eff = run[u].eff /\ Moves(u)
  <2>1. run = [q \in Runs |-> run[q]] /\ IsRun(run[u])
    BY <1>2 DEF IInv, Shaped
  <2> QED
    BY <1>1, <1>2, <2>1 DEF IsRun, Moves
<1>4. UserOK(u)'
  BY <1>3 DEF UserOK
<1>5. \A v \in Users : UserOK(v)'
  BY <1>2, <1>3, <1>4, UsersKeep DEF Moves, Runs, Counts
<1>6. \A v \in Users : run[v].pc \notin Deciding =>
          run'[v].pc \notin Deciding /\ run'[v].eff = run[v].eff
  BY <1>3 DEF Moves, Runs, Deciding
<1>7. \A j \in Uids : run'[j] = run[j]
  BY <1>3, InstallAssumption DEF Moves, Runs, InstallAssumption
<1>8. job'[i] = Manifest(u) /\ \A j \in Uids \ {i} : job'[j] = job[j]
  BY <1>1 DEF IInv, Shaped
<1>9. \A j \in Uids \ {i} : JobOK(j)' /\ PodOK(j)'
  BY <1>2, <1>6, <1>7, <1>8, JobKeeps, PodKeeps DEF Counts, IsA
<1>10. JobOK(i)'
  <2>1. Decided(run[u].eff)
    BY <1>2 DEF JInv, UserOK
  <2>2. /\ job'[i].by = u /\ job'[i].wanted = run[u].eff /\ job'[i].args = JobArgs(run[u].eff)
        /\ job'[i].keys = SecretKeys(run[u].eff)
    BY <1>8 DEF Manifest
  <2> QED
    BY <1>2, <1>3, <2>1, <2>2 DEF JobOK, Deciding, Decided, Resolved, Counts
<1>11. PodOK(i)'
  <2>1. run[i].pc = "idle" /\ run[i].eff = None
    BY <1>1 DEF JInv, PodOK, IsA
  <2> QED
    BY <1>7, <2>1 DEF PodOK
<1>12. SecretOK'
  BY <1>2, <1>6, SecretKeeps
<1> QED
  BY <1>2, <1>5, <1>9, <1>10, <1>11, <1>12 DEF JInv, Counts

LEMMA LaunchingJ ==
    ASSUME IInv, JInv, NEW r \in Runs,
           \/ LookUp(r) \/ Replace(r) \/ Keep(r) \/ ApplySecret(r) \/ CreateJob(r)
           \/ JobThere(r) \/ LaunchFails(r) \/ Report(r) \/ Detach(r)
    PROVE  JInv'
<1>1. r \in Users
  BY DEF IInv, PodsLocal, PodPlaces, Runs, LookUp, Replace, Keep, ApplySecret, CreateJob,
     JobThere, LaunchFails, Report, Detach
<1>2. run = [q \in Runs |-> run[q]] /\ IsRun(run[r])
  BY DEF IInv, Shaped
<1>3. CASE LookUp(r)
  <2>1. run[r].pc = "look" /\ Counts /\ UNCHANGED <<job, secret>>
    BY <1>3, QuietCounts DEF LookUp
  <2>2. /\ run'[r].pc \in {"secret", "failed", "ask"} /\ run'[r].eff = run[r].eff /\ Moves(r)
    <3>1. CASE \E s \in {"secret", "failed"} : Goes(r, s)
      BY <3>1, RunGoes
    <3>2. CASE \E t : run' = [run EXCEPT ![r].pc = "ask", ![r].told = t]
      BY <1>2, <3>2 DEF IsRun, Moves
    <3> QED
      BY <1>3, <3>1, <3>2 DEF LookUp
  <2> QED
    BY <1>1, <2>1, <2>2, LaunchingMoves DEF Deciding
<1>4. CASE Replace(r) \/ Keep(r) \/ LaunchFails(r) \/ Report(r) \/ Detach(r)
  <2>1. /\ run[r].pc \in {"look", "ask", "secret", "create", "follow"} /\ Counts
        /\ UNCHANGED <<job, secret>>
    BY <1>4, QuietCounts, FaultCounts DEF Replace, Keep, LaunchFails, Report, Detach
  <2>2. PICK s : /\ Goes(r, s) /\ s \in {"secret", "cancelled", "failed", "complete", "detached"}
                 /\ s = "secret" => run[r].pc = "ask"
    BY <1>4 DEF Replace, Keep, LaunchFails, Report, Detach
  <2>3. run'[r].pc = s /\ run'[r].eff = run[r].eff /\ Moves(r)
    BY <2>2, RunGoes
  <2> QED
    BY <1>1, <2>1, <2>2, <2>3, LaunchingMoves DEF Deciding
<1>5. CASE JobThere(r)
  <2>1. run[r].pc = "create" /\ Counts /\ UNCHANGED <<job, secret>>
    BY <1>5, QuietCounts DEF JobThere
  <2>2. /\ run'[r].pc \in {"follow", "failed"} /\ run'[r].eff = run[r].eff /\ Moves(r)
    <3>1. CASE Goes(r, "failed")
      BY <3>1, RunGoes
    <3>2. CASE \E j : run' = [run EXCEPT ![r].pc = "follow", ![r].uid = j]
      BY <1>2, <3>2 DEF IsRun, Moves
    <3> QED
      BY <1>5, <3>1, <3>2 DEF JobThere
  <2> QED
    BY <1>1, <2>1, <2>2, LaunchingMoves DEF Deciding
<1> QED
  BY <1>1, <1>3, <1>4, <1>5, SecretApplied, JobCreated

-----------------------------------------------------------------------------
(* The phases, and the pods. *)

\* A step of r that leaves Jobs, other runs and the decisions of users alone.
LEMMA WorkKeeps ==
    ASSUME IInv, JInv, NEW r \in Runs, Moves(r), Counts, UNCHANGED job,
           secret' = secret \/ secret' = NoSecret,
           r \in Users => /\ run[r].pc \notin Deciding /\ run'[r].pc \notin Deciding
                          /\ run'[r].eff = run[r].eff /\ UserOK(r)',
           r \in Uids => PodOK(r)'
    PROVE  JInv'
<1>1. \A u \in Users : run[u].pc \notin Deciding =>
          run'[u].pc \notin Deciding /\ run'[u].eff = run[u].eff
  BY DEF Moves, Runs
<1>2. \A u \in Users : UserOK(u)'
  BY UsersKeep DEF Moves, Runs, Counts
<1>3. \A j \in Uids : JobOK(j)'
  BY <1>1, JobKeeps DEF Counts, IsA
<1>4. \A j \in Uids : PodOK(j)'
  BY PodKeeps DEF Moves, Runs
<1>5. SecretOK'
  <2>1. CASE secret' = NoSecret
    <3>1. None \notin Users
      BY InstallAssumption DEF InstallAssumption, Runs
    <3> QED
      BY <2>1, <3>1 DEF SecretOK, NoSecret
  <2> QED
    BY <1>1, <2>1, SecretKeeps
<1> QED
  BY <1>2, <1>3, <1>4, <1>5 DEF JInv, Counts

LEMMA PhaseJ ==
    ASSUME IInv, JInv, NEW r \in Runs, Phase(r) \/ PhaseFails(r) \/ Complete(r)
    PROVE  JInv'
<1>1. run[r].pc = "phase" /\ Counts /\ UNCHANGED job
  BY QuietCounts, FaultCounts DEF Phase, PhaseFails, Complete, Working
<1>2. secret' = secret \/ secret' = NoSecret
  BY DEF Phase, PhaseFails, Complete
<1>3. /\ run'[r].pc \in {"phase", "failed", "complete"} /\ run'[r].eff = run[r].eff
      /\ run'[r].conf = run[r].conf /\ run'[r].from = run[r].from /\ Moves(r)
  <2>1. CASE Phase(r)
    <3>1. run' = [run EXCEPT ![r].done = Append(@, NextPhase(r))]
      BY <2>1 DEF Phase
    <3>2. run = [q \in Runs |-> run[q]] /\ IsRun(run[r])
      BY DEF IInv, Shaped
    <3> QED
      BY <1>1, <3>1, <3>2 DEF IsRun, Moves
  <2>2. CASE PhaseFails(r) \/ Complete(r)
    <3>1. PICK s \in {"failed", "complete"} : Goes(r, s)
      BY <2>2 DEF PhaseFails, Complete
    <3> QED
      BY <3>1, RunGoes
  <2> QED
    BY <2>1, <2>2
<1>4. UserOK(r)'
  BY <1>3 DEF UserOK
<1>5. ASSUME r \in Uids PROVE PodOK(r)'
  <2>1. PodOK(r)
    BY <1>5 DEF JInv
  <2>2. Given(r) => Given(r)'
    BY <1>1, <1>3 DEF Given, IsA
  <2> QED
    BY <1>1, <1>3, <2>1, <2>2 DEF PodOK, Counts, Resolved
<1> QED
  BY <1>1, <1>2, <1>3, <1>4, <1>5, WorkKeeps DEF Deciding

\* A pod refuses nothing that its user's run has let through.
LEMMA PodAccepts ==
    ASSUME JInv, NEW j \in Uids, Given(j)
    PROVE  /\ ~Refused(j)
           /\ Wanted(Resolved(run[j].conf)) = Wanted(job[j].wanted)
           /\ Resolved(run[j].conf).token = run[j].conf.token
           /\ Resolved(run[j].conf).pass = run[j].conf.pass
<1> DEFINE w == job[j].wanted
           c == run[j].conf
           x == Recommended(classes)
<1>1. Decided(w)
  BY DEF JInv, JobOK, Given
<1>2. IsConf(w) /\ With(w, x) = w /\ ~w.wipe /\ Valid(w)
  BY <1>1, ResolvedWith DEF Decided
<1>3. c = GivenTo(w, c.token, c.pass) /\ (c.token = Blank => w.token = Blank)
  BY DEF Given
<1>4. c.wipe = FALSE
  BY <1>3 DEF GivenTo
<1>5. Resolved(c) = With(c, x)
  BY ResolvedWith
<1> HIDE DEF w, x, c
<1>6. /\ Wanted(With(c, x)) = Wanted(w) /\ With(c, x).token = c.token
      /\ With(c, x).pass = c.pass /\ Valid(With(c, x))
  BY <1>2, <1>3, RoundTrip
<1> QED
  BY <1>4, <1>5, <1>6 DEF c, w, Refused

LEMMA PodResolves ==
    ASSUME IInv, JInv, NEW j \in Uids, Resolve(j) \/ Stop(j)
    PROVE  JInv'
<1>1. j \in Runs /\ run[j].pc = "resolve" /\ Counts /\ UNCHANGED <<job, secret>>
  BY QuietCounts, FaultCounts DEF Resolve, Stop, Runs
<1>2. PodOK(j) /\ Given(j)
  BY <1>1 DEF JInv, PodOK
<1>3. j \notin Users
  BY InstallAssumption DEF InstallAssumption
<1>4. PodOK(j)'
  <2>1. CASE Resolve(j)
    <3>1. /\ run'[j].pc \in {"look", "phase"} /\ run'[j].eff = Resolved(run[j].conf)
          /\ run'[j].conf = run[j].conf /\ run'[j].from = run[j].from
      BY <1>1, <1>2, <2>1, Resolves, PodAccepts
    <3>2. Given(j)'
      BY <1>1, <1>2, <3>1 DEF Given, IsA
    <3> QED
      BY <1>1, <1>2, <3>1, <3>2 DEF PodOK, Counts, Resolved
  <2>2. CASE Stop(j)
    <3>1. PICK s \in {"refused", "cancelled"} : Goes(j, s) /\ (s = "refused" => faults' # 0)
      BY <2>2, FaultCounts DEF Stop
    <3>2. /\ run'[j].pc = s /\ run'[j].eff = run[j].eff
          /\ run'[j].conf = run[j].conf /\ run'[j].from = run[j].from
      BY <1>1, <3>1, RunGoes
    <3>3. Given(j)'
      BY <1>1, <1>2, <3>2 DEF Given, IsA
    <3> QED
      BY <1>1, <1>2, <3>1, <3>2, <3>3 DEF PodOK, Counts, Resolved
  <2> QED
    BY <2>1, <2>2
<1>5. Moves(j)
  BY <1>1, Resolves, RunGoes DEF Resolve, Stop
<1> QED
  BY <1>1, <1>3, <1>4, <1>5, WorkKeeps

-----------------------------------------------------------------------------
(* The cluster. *)

\* The cluster moves one Job on, to another phase.
LEMMA ClusterKeeps ==
    ASSUME IInv, JInv, NEW j \in Uids, NEW phase, JobGoes(j, phase), phase # "none",
           ~IsA(j, "none"), Moves(j), Counts, UNCHANGED secret, PodOK(j)'
    PROVE  JInv'
<1>1. /\ job'[j].by = job[j].by /\ job'[j].wanted = job[j].wanted
      /\ job'[j].args = job[j].args /\ job'[j].keys = job[j].keys /\ job'[j].phase = phase
      /\ \A i \in Uids \ {j} : job'[i] = job[i]
  BY DEF IInv, Shaped, IsJob, JobGoes
<1>2. \A u \in Users : run'[u] = run[u]
  BY InstallAssumption DEF InstallAssumption, Moves, Runs
<1>3. \A u \in Users : UserOK(u)'
  BY <1>2, UsersKeep DEF Counts
<1>4. \A i \in Uids : JobOK(i)'
  BY <1>1, <1>2, JobKeeps DEF Counts, IsA
<1>5. \A i \in Uids : PodOK(i)'
  BY <1>1, PodKeeps DEF Moves, Runs
<1>6. SecretOK'
  BY <1>2, SecretKeeps
<1> QED
  BY <1>3, <1>4, <1>5, <1>6 DEF JInv, Counts

\* The pod starts with flags and Secret.
LEMMA PodGiven ==
    ASSUME IInv, JInv, NEW j \in Uids, PodStarts(j)
    PROVE  JInv'
<1>1. /\ j \in Runs /\ IsA(j, "scheduled") /\ JobGoes(j, "running") /\ Counts
      /\ UNCHANGED secret /\ \A k \in job[j].keys : secret[k] # Blank
  BY QuietCounts DEF PodStarts, Runs
<1>2. /\ job'[j].by = job[j].by /\ job'[j].wanted = job[j].wanted /\ job'[j].phase = "running"
  BY <1>1 DEF IInv, Shaped, IsJob, JobGoes
<1>3. /\ run'[j].pc = "resolve" /\ run'[j].conf = PodConf(j) /\ run'[j].from = secret.by
      /\ run'[j].eff = run[j].eff /\ Moves(j)
  <2>1. run = [q \in Runs |-> run[q]] /\ IsRun(run[j])
    BY <1>1 DEF IInv, Shaped
  <2>2. run' = [run EXCEPT ![j].pc = "resolve", ![j].conf = PodConf(j), ![j].mode = PodMode,
                           ![j].from = secret.by]
    BY DEF PodStarts
  <2> QED
    BY <1>1, <2>1, <2>2 DEF IsRun, Moves
<1>4. run[j].eff = None
  BY <1>1 DEF JInv, PodOK, IsA
<1> DEFINE w == job[j].wanted
           t == IfSet("token" \in job[j].keys, secret.token)
           q == IfSet("pass" \in job[j].keys, secret.pass)
<1>5. JobOK(j) /\ ~IsA(j, "none")
  BY <1>1 DEF JInv, IsA
<1>6. /\ job[j].args = JobArgs(w) /\ job[j].keys = SecretKeys(w) /\ IsConf(w)
      /\ job[j].by \in Users /\ w = run[job[j].by].eff
  BY <1>5 DEF JobOK, Decided
<1>7. PodConf(j) = [job[j].args EXCEPT !.token = t, !.pass = q]
  BY DEF PodConf
<1>8. /\ "token" \in job[j].keys <=> w.token # Blank
      /\ "pass" \in job[j].keys <=> w.pass # Blank
  BY <1>6 DEF SecretKeys
<1>9. t = Blank => w.token = Blank
  BY <1>1, <1>8 DEF IfSet
<1>10. secret.by = job[j].by => t = w.token /\ q = w.pass
  <2> HAVE secret.by = job[j].by
  <2>1. /\ w.token # Blank => secret.token = w.token
        /\ w.pass # Blank => secret.pass = w.pass
    BY <1>6 DEF JInv, SecretOK
  <2> QED
    BY <1>8, <2>1 DEF IfSet
<1> HIDE DEF w, t, q
<1>11. PodConf(j) = GivenTo(w, t, q)
  <2>1. PodConf(j) = [JobArgs(w) EXCEPT !.token = t, !.pass = q]
    BY <1>6, <1>7
  <2>2. [JobArgs(w) EXCEPT !.token = t, !.pass = q] = GivenTo(w, t, q)
    <3>1. IsConf(w)
      BY <1>6
    <3> QED
      BY <3>1, JobArgsGiven
  <2> QED
    BY <2>1, <2>2
<1>12. PodConf(j).token = t /\ PodConf(j).pass = q
  BY <1>11 DEF GivenTo
<1>13. Given(j)'
  <2>1. run'[j].conf = GivenTo(w, t, q) /\ run'[j].conf.token = t /\ run'[j].conf.pass = q
    BY <1>3, <1>11, <1>12
  <2>2. job'[j].wanted = w /\ job'[j].by = job[j].by /\ job'[j].phase # "none"
    BY <1>2 DEF w
  <2> QED
    BY <1>3, <1>9, <1>10, <2>1, <2>2 DEF Given, IsA
<1>14. PodOK(j)'
  BY <1>2, <1>3, <1>4, <1>13 DEF PodOK
<1> QED
  BY <1>1, <1>3, <1>5, <1>14, ClusterKeeps

LEMMA ClusterJ ==
    ASSUME IInv, JInv, NEW j \in Uids, Cluster(j)
    PROVE  JInv'
<1>1. j \in Runs /\ PodOK(j)
  BY DEF JInv, Runs
<1>2. CASE Schedule(j) \/ JobEnds(j)
  <2>1. PICK phase \in {"scheduled", "complete", "failed"} :
            /\ JobGoes(j, phase) /\ ~IsA(j, "none")
            /\ phase = "scheduled" => IsA(j, "created")
    BY <1>2 DEF Schedule, JobEnds, IsA
  <2>2. Counts /\ UNCHANGED <<run, secret>> /\ Moves(j)
    BY <1>2, QuietCounts DEF Schedule, JobEnds, Moves
  <2>3. job'[j].phase = phase /\ job'[j].wanted = job[j].wanted /\ job'[j].by = job[j].by
    BY <2>1 DEF IInv, Shaped, IsJob, JobGoes
  <2>4. Given(j) => Given(j)'
    BY <2>2, <2>3 DEF Given, IsA
  <2>5. PodOK(j)'
    BY <1>1, <2>1, <2>2, <2>3, <2>4 DEF PodOK, IsA, Counts, Resolved
  <2> QED
    BY <2>1, <2>2, <2>5, ClusterKeeps
<1>3. CASE PodDies(j)
  <2>1. JobGoes(j, "failed") /\ ~IsA(j, "none") /\ UNCHANGED secret
    BY <1>3 DEF PodDies, IsA, Active
  <2>2. Counts
    BY <1>3, QuietCounts, FaultCounts DEF PodDies
  <2>3. /\ run'[j].pc = run[j].pc \/ run'[j].pc = "failed"
        /\ run'[j].eff = run[j].eff /\ run'[j].conf = run[j].conf /\ run'[j].from = run[j].from
        /\ Moves(j)
    <3>1. CASE UNCHANGED run
      BY <3>1 DEF Moves
    <3>2. CASE Goes(j, "failed")
      BY <1>1, <3>2, RunGoes
    <3> QED
      BY <1>3, <3>1, <3>2 DEF PodDies
  <2>4. job'[j].phase = "failed" /\ job'[j].wanted = job[j].wanted /\ job'[j].by = job[j].by
    BY <2>1 DEF IInv, Shaped, IsJob, JobGoes
  <2>5. Given(j) => Given(j)'
    BY <2>3, <2>4 DEF Given, IsA
  <2>6. PodOK(j)'
    BY <1>1, <2>2, <2>3, <2>4, <2>5 DEF PodOK, Counts, Resolved
  <2> QED
    BY <2>1, <2>2, <2>3, <2>6, ClusterKeeps
<1> QED
  BY <1>2, <1>3, PodGiven DEF Cluster

LEMMA NextJInv == IInv /\ JInv /\ [Next]_vars => JInv'
<1> SUFFICES ASSUME IInv, JInv, [Next]_vars PROVE JInv'
  OBVIOUS
<1>1. CASE UNCHANGED vars
  <2>1. Counts /\ UNCHANGED <<run, job, secret>>
    BY <1>1, QuietCounts DEF vars
  <2>2. \A j \in Uids : JobOK(j)' /\ PodOK(j)'
    BY <2>1, JobKeeps, PodKeeps DEF Counts, IsA
  <2>3. (\A u \in Users : UserOK(u)') /\ SecretOK'
    BY <2>1, UsersKeep, SecretKeeps DEF Counts
  <2> QED
    BY <2>1, <2>2, <2>3 DEF JInv, Counts
<1>2. ASSUME NEW r \in Runs, Command(r) PROVE JInv'
  <2>1. CASE Resolve(r) \/ Stop(r)
    BY <2>1, PersonResolves, PodResolves DEF Runs
  <2> QED
    BY <1>2, <2>1, LaunchingJ, PhaseJ DEF Command
<1> QED
  BY <1>1, <1>2, LaunchJ, ClusterJ DEF Next

-----------------------------------------------------------------------------
(* The theorems. *)

\* Whatever is asked for, and however many install into one namespace at once, a
\* pod installs what its user confirmed, with that user's credentials unless
\* another run has written the Secret, and it refuses nothing that was let
\* through before (install_incluster.go:638-692).
THEOREM JobsDoAsConfirmed == Spec => []JobAsConfirmed
<1>1. ASSUME JInv PROVE JobAsConfirmed
  <2> SUFFICES ASSUME NEW j \in Uids
               PROVE  /\ faults = 0 => run[j].pc # "refused"
                      /\ run[j].eff # None =>
                            /\ Wanted(run[j].eff) = Wanted(job[j].wanted)
                            /\ run[j].from = job[j].by =>
                                 <<run[j].eff.token, run[j].eff.pass>>
                                   = <<job[j].wanted.token, job[j].wanted.pass>>
    BY DEF JobAsConfirmed
  <2>1. PodOK(j)
    BY <1>1 DEF JInv
  <2>2. ASSUME run[j].eff # None
        PROVE  /\ Wanted(run[j].eff) = Wanted(job[j].wanted)
               /\ run[j].from = job[j].by =>
                    run[j].eff.token = job[j].wanted.token /\ run[j].eff.pass = job[j].wanted.pass
    <3>1. Given(j) /\ run[j].eff = Resolved(run[j].conf)
      BY <2>1, <2>2 DEF PodOK
    <3>2. /\ Wanted(run[j].eff) = Wanted(job[j].wanted)
          /\ run[j].eff.token = run[j].conf.token /\ run[j].eff.pass = run[j].conf.pass
      BY <1>1, <3>1, PodAccepts
    <3> QED
      BY <3>1, <3>2 DEF Given
  <2> QED
    BY <2>1, <2>2 DEF PodOK
<1>2. Spec => []JInv
  BY InitIInv, NextIInv, InitJInv, NextJInv, PTL DEF Spec
<1> QED
  BY <1>1, <1>2, PTL

-----------------------------------------------------------------------------
(* A class is recommended if one can hand out volumes: there is a first one. *)

HIDE InstallAssumption

LEMMA LeastNumber ==
    ASSUME NEW S, S \subseteq Nat, S # {}
    PROVE  \E m \in S : \A n \in S : m <= n
<1> DEFINE R == {ss \in Nat \X Nat : ss[1] < ss[2]}
<1>1. IsWellFoundedOn(R, Nat)
  BY NatLessThanWellFounded DEF OpToRel
<1>2. \A m, n \in Nat : n < m => <<n, m>> \in R
  OBVIOUS
<1> HIDE DEF R
<1>3. PICK m \in S : \A n \in S : ~(<<n, m>> \in R)
  BY <1>1, WFMin
<1>4. \A n \in S : ~(n < m)
  BY <1>2, <1>3
<1> QED
  BY <1>4

LEMMA RankType == ASSUME NEW c, NEW cs PROVE Rank(c, cs) \in 1..6
BY DEF Rank

LEMMA FirstClass ==
    ASSUME NEW cs, NEW S, S # {}, \A c \in S : c.name \in Nat
    PROVE  \E c \in S : \A d \in S : Before(c, d, cs)
<1> DEFINE Ranks == {Rank(c, cs) : c \in S}
<1>1. Ranks \subseteq Nat /\ Ranks # {}
  BY RankType
<1> HIDE DEF Ranks
<1>2. PICK k \in Ranks : \A n \in Ranks : k <= n
  BY <1>1, LeastNumber
<1> DEFINE Best  == {c \in S : Rank(c, cs) = k}
           Names == {c.name : c \in Best}
<1>3. Best # {} /\ \A d \in S : k <= Rank(d, cs)
  BY <1>2 DEF Ranks
<1>4. Names \subseteq Nat /\ Names # {}
  BY <1>3
<1> HIDE DEF Names
<1>5. PICK m \in Names : \A n \in Names : m <= n
  BY <1>4, LeastNumber
<1>6. PICK c \in Best : c.name = m
  BY <1>5 DEF Names
<1>7. ASSUME NEW d \in S PROVE Before(c, d, cs)
  <2>1. Rank(d, cs) \in 1..6 /\ Rank(c, cs) = k /\ k \in 1..6 /\ k <= Rank(d, cs)
    BY <1>3, <1>6, RankType
  <2>2. CASE Rank(d, cs) = k
    <3>1. d.name \in Names
      BY <2>2 DEF Names
    <3> QED
      BY <1>5, <1>6, <2>1, <2>2, <3>1 DEF Before
  <2>3. CASE Rank(d, cs) # k
    BY <2>1, <2>3 DEF Before
  <2> QED
    BY <2>2, <2>3
<1> QED
  BY <1>6, <1>7

LEMMA RecommendedBinds ==
    ASSUME NEW cs \in Clusters, Recommended(cs) # Blank
    PROVE  \E c \in cs : c.name = Recommended(cs) /\ ~c.static
<1> DEFINE choices == Provisionable(cs)
<1>1. choices # {} /\ choices \subseteq cs /\ \A c \in choices : c.name \in Nat /\ ~c.static
  BY ClustersAssumption DEF Recommended, Provisionable
<1>2. Recommended(cs) = (CHOOSE c \in choices : \A d \in choices : Before(c, d, cs)).name
  BY <1>1 DEF Recommended
<1> HIDE DEF choices
<1>3. \E c \in choices : \A d \in choices : Before(c, d, cs)
  BY <1>1, FirstClass
<1> DEFINE x == CHOOSE c \in choices : \A d \in choices : Before(c, d, cs)
<1>4. x \in choices
  BY <1>3
<1> QED
  BY <1>1, <1>2, <1>4

-----------------------------------------------------------------------------
(* The phases of a valid configuration: the services, then authentication. *)

PhaseNames == {"wipe", "core", "s3", "smtp", "auth"}

LEMMA MayAppend ==
    ASSUME NEW t \in Seq(PhaseNames), NEW b, NEW x \in PhaseNames
    PROVE  /\ t \o (IF b THEN <<x>> ELSE <<>>) \in Seq(PhaseNames)
           /\ Len(t \o (IF b THEN <<x>> ELSE <<>>)) = IF b THEN Len(t) + 1 ELSE Len(t)
           /\ \A k \in 1..Len(t) : (t \o (IF b THEN <<x>> ELSE <<>>))[k] = t[k]
           /\ b => (t \o (IF b THEN <<x>> ELSE <<>>))[Len(t) + 1] = x
<1>1. CASE b
  <2> DEFINE u == <<x>>
  <2>1. u \in Seq(PhaseNames) /\ Len(u) = 1 /\ u[1] = x
    OBVIOUS
  <2>2. (IF b THEN <<x>> ELSE <<>>) = u
    BY <1>1
  <2> HIDE DEF u
  <2>3. /\ t \o u \in Seq(PhaseNames) /\ Len(t \o u) = Len(t) + 1
        /\ \A k \in 1..(Len(t) + 1) : (t \o u)[k] = IF k <= Len(t) THEN t[k] ELSE u[k - Len(t)]
    BY <2>1, ConcatProperties
  <2>4. \A k \in 1..Len(t) : (t \o u)[k] = t[k]
    BY <2>3, LenProperties
  <2>5. (t \o u)[Len(t) + 1] = x
    BY <2>1, <2>3, LenProperties
  <2> QED
    BY <1>1, <2>2, <2>3, <2>4, <2>5
<1>2. CASE ~b
  BY <1>2, ConcatEmptySeq
<1> QED
  BY <1>1, <1>2

LEMMA PhasesOf ==
    ASSUME NEW c, Valid(c)
    PROVE  /\ Phases(c) \in Seq(PhaseNames)
           /\ \A k \in 1..Len(Phases(c)) : Phases(c)[k] = "auth" =>
                 /\ BackendsChosen(c)
                 /\ \E m \in 1..(k - 1) : Phases(c)[m] = "core"
<1> DEFINE core == c.comps \cap {"ldap", "keycloak", "scim"} # {}
           p1 == IF c.wipe THEN <<"wipe">> ELSE <<>>
           p2 == p1 \o (IF core THEN <<"core">> ELSE <<>>)
           p3 == p2 \o (IF "s3" \in c.comps THEN <<"s3">> ELSE <<>>)
           p4 == p3 \o (IF "smtp" \in c.comps THEN <<"smtp">> ELSE <<>>)
           p5 == p4 \o (IF c.auth THEN <<"auth">> ELSE <<>>)
<1>1. /\ p1 \in Seq(PhaseNames) /\ Len(p1) \in {0, 1} /\ \A k \in 1..Len(p1) : p1[k] = "wipe"
  BY DEF PhaseNames
<1>2. Phases(c) = p5
  BY DEF Phases
<1> HIDE DEF p1
<1>3. /\ p2 \in Seq(PhaseNames) /\ Len(p2) = IF core THEN Len(p1) + 1 ELSE Len(p1)
      /\ \A k \in 1..Len(p1) : p2[k] = p1[k]
      /\ core => p2[Len(p1) + 1] = "core"
  BY <1>1, MayAppend DEF PhaseNames
<1> HIDE DEF p2
<1>4. /\ p3 \in Seq(PhaseNames) /\ Len(p3) = IF "s3" \in c.comps THEN Len(p2) + 1 ELSE Len(p2)
      /\ \A k \in 1..Len(p2) : p3[k] = p2[k]
      /\ "s3" \in c.comps => p3[Len(p2) + 1] = "s3"
  BY <1>3, MayAppend DEF PhaseNames
<1> HIDE DEF p3
<1>5. /\ p4 \in Seq(PhaseNames) /\ Len(p4) = IF "smtp" \in c.comps THEN Len(p3) + 1 ELSE Len(p3)
      /\ \A k \in 1..Len(p3) : p4[k] = p3[k]
      /\ "smtp" \in c.comps => p4[Len(p3) + 1] = "smtp"
  BY <1>4, MayAppend DEF PhaseNames
<1> HIDE DEF p4
<1>6. /\ p5 \in Seq(PhaseNames) /\ Len(p5) = IF c.auth THEN Len(p4) + 1 ELSE Len(p4)
      /\ \A k \in 1..Len(p4) : p5[k] = p4[k]
      /\ c.auth => p5[Len(p4) + 1] = "auth"
  BY <1>5, MayAppend DEF PhaseNames
<1> HIDE DEF p5
<1>7. Len(p1) \in Nat /\ Len(p2) \in Nat /\ Len(p3) \in Nat /\ Len(p4) \in Nat
  BY <1>1, <1>3, <1>4, <1>5
<1>8. \A k \in 1..Len(p2) : p2[k] \in {"wipe", "core"}
  BY <1>1, <1>3, <1>7
<1>9. \A k \in 1..Len(p3) : p3[k] \in {"wipe", "core", "s3"}
  BY <1>4, <1>7, <1>8
<1>10. \A k \in 1..Len(p4) : p4[k] \in {"wipe", "core", "s3", "smtp"}
  BY <1>5, <1>7, <1>9
<1>11. ASSUME NEW k \in 1..Len(p5), p5[k] = "auth" PROVE c.auth /\ k = Len(p4) + 1
  BY <1>6, <1>7, <1>10, <1>11
<1>12. ASSUME c.auth PROVE BackendsChosen(c) /\ core
  <2>1. BackendsChosen(c)
    BY <1>12 DEF Valid
  <2>2. AuthProviders(c) # {}
    BY DEF AuthProviders, Providers
  <2>3. PICK p \in AuthProviders(c) : Backend(p) \in c.comps
    BY <2>1, <2>2 DEF BackendsChosen
  <2> QED
    BY <2>1, <2>3 DEF Backend
<1>13. core => LET m == Len(p1) + 1 IN m \in 1..Len(p4) /\ p5[m] = "core"
  BY <1>3, <1>4, <1>5, <1>6, <1>7
<1> QED
  BY <1>2, <1>6, <1>7, <1>11, <1>12, <1>13

-----------------------------------------------------------------------------
(* The invariant: what a run has done are the first of its phases. *)

DoneOf(r) ==
    LET todo == Phases(run[r].eff)
    IN  /\ Valid(run[r].eff) /\ run[r].done \in Seq(PhaseNames) /\ Len(run[r].done) <= Len(todo)
        /\ \A k \in 1..Len(run[r].done) : run[r].done[k] = todo[k]

FitOK(r) ==
    /\ run[r].pc \in Deciding => run[r].done = <<>> /\ run[r].eff = None
    /\ run[r].done = <<>> \/ DoneOf(r)
    /\ run[r].pc = "phase" => DoneOf(r)
    /\ r \in Users /\ run[r].eff # None /\ run[r].conf.class = Blank =>
          run[r].eff.class = Recommended(classes)

FitInv == classes \in Clusters /\ \A r \in Runs : FitOK(r)

LEMMA InitFit == Init => FitInv
<1>1. Idle.pc = "idle" /\ Idle.eff = None /\ Idle.done = <<>>
  BY DEF Idle
<1> QED
  BY <1>1 DEF Init, FitInv, FitOK

\* A run that has decided, or ends, and does no phase.
LEMMA FitKept ==
    ASSUME FitInv, UNCHANGED classes, NEW r \in Runs, Moves(r),
           run'[r].pc \notin Deciding \cup {"phase"} \/
              (run[r].pc \in Deciding /\ run'[r].pc = "resolve") \/ run'[r].pc = run[r].pc,
           run'[r].eff = run[r].eff, run'[r].done = run[r].done,
           run'[r].conf = run[r].conf \/ run[r].eff = None
    PROVE  FitInv'
<1>1. \A q \in Runs \ {r} : run'[q] = run[q]
  BY DEF Moves
<1>2. \A q \in Runs \ {r} : FitOK(q)'
  BY <1>1 DEF FitInv, FitOK, DoneOf
<1>3. DoneOf(r) => DoneOf(r)'
  BY DEF DoneOf
<1>4. FitOK(r)'
  BY <1>3 DEF FitInv, FitOK, Deciding
<1> QED
  BY <1>2, <1>4 DEF FitInv

LEMMA LaunchFit ==
    ASSUME IInv, FitInv, NEW u \in Users, Launch(u)
    PROVE  FitInv'
<1>1. PICK c \in Requests[u], m \in Modes[u] :
          run' = [run EXCEPT ![u].pc = "resolve", ![u].conf = c, ![u].mode = m]
  BY DEF Launch
<1>2. run[u].pc = "idle" /\ UNCHANGED classes /\ u \in Runs
  BY DEF Launch, Runs
<1>3. run[u].eff = None
  BY <1>2 DEF FitInv, FitOK, Deciding
<1>4. /\ run'[u].pc = "resolve" /\ run'[u].eff = run[u].eff /\ run'[u].done = run[u].done
      /\ Moves(u)
  <2>1. run = [q \in Runs |-> run[q]] /\ IsRun(run[u])
    BY <1>2 DEF IInv, Shaped
  <2> QED
    BY <1>1, <1>2, <2>1 DEF IsRun, Moves
<1> QED
  BY <1>2, <1>3, <1>4, FitKept DEF Deciding

LEMMA GoesFit ==
    ASSUME IInv, FitInv, NEW r \in Runs, NEW s, s \notin Deciding \cup {"phase"}, Goes(r, s),
           UNCHANGED classes
    PROVE  FitInv'
<1>1. run = [q \in Runs |-> run[q]] /\ IsRun(run[r])
  BY DEF IInv, Shaped
<1>2. /\ run'[r].pc = s /\ run'[r].eff = run[r].eff /\ run'[r].done = run[r].done
      /\ run'[r].conf = run[r].conf /\ Moves(r)
  BY <1>1 DEF Goes, IsRun, Moves
<1> QED
  BY <1>2, FitKept

LEMMA DecideFit ==
    ASSUME IInv, JInv, FitInv, NEW r \in Runs, Resolve(r)
    PROVE  FitInv'
<1>1. CASE Refused(r)
  BY <1>1, GoesFit DEF Resolve, Deciding
<1>2. CASE ~Refused(r)
  <2>1. /\ run[r].pc = "resolve" /\ UNCHANGED classes
        /\ run' = [run EXCEPT ![r].pc = IF InCluster(r) THEN "look" ELSE "phase",
                              ![r].eff = Resolved(run[r].conf)]
    BY <1>2 DEF Resolve
  <2>2. run = [q \in Runs |-> run[q]] /\ IsRun(run[r])
    BY DEF IInv, Shaped
  <2>3. /\ run'[r].pc \in {"look", "phase"} /\ run'[r].eff = Resolved(run[r].conf)
        /\ run'[r].done = run[r].done /\ run'[r].conf = run[r].conf /\ Moves(r)
    BY <2>1, <2>2 DEF IsRun, Moves
  <2>4. Valid(run'[r].eff) /\ run'[r].done = <<>>
    BY <1>2, <2>1, <2>3 DEF Refused, FitInv, FitOK, Deciding
  <2>5. DoneOf(r)'
    <3>1. Phases(run'[r].eff) \in Seq(PhaseNames)
      BY <2>4, PhasesOf
    <3>2. Len(<<>>) <= Len(Phases(run'[r].eff)) /\ <<>> \in Seq(PhaseNames) /\ Len(<<>>) = 0
      BY <3>1, LenProperties, EmptySeq
    <3> QED
      BY <2>4, <3>2 DEF DoneOf
  <2>6. ASSUME r \in Users, run[r].conf.class = Blank
        PROVE  run'[r].eff.class = Recommended(classes)
    <3>1. IsConf(run[r].conf)
      BY <2>1, <2>6 DEF JInv, UserOK
    <3> QED
      BY <2>3, <2>6, <3>1, ResolvedWith, WithFields DEF Or
  <2>7. FitOK(r)'
    BY <2>1, <2>3, <2>4, <2>5, <2>6 DEF FitOK, Deciding
  <2>8. ASSUME NEW q \in Runs \ {r} PROVE FitOK(q)'
    <3>1. run'[q] = run[q] /\ classes' = classes /\ FitOK(q)
      BY <2>1, <2>3 DEF Moves, FitInv
    <3> QED
      BY <3>1 DEF FitOK, DoneOf
  <2> QED
    BY <2>1, <2>7, <2>8 DEF FitInv
<1> QED
  BY <1>1, <1>2

LEMMA LaunchingFit ==
    ASSUME IInv, FitInv, NEW r \in Runs,
           \/ LookUp(r) \/ Replace(r) \/ Keep(r) \/ ApplySecret(r) \/ CreateJob(r)
           \/ JobThere(r) \/ LaunchFails(r) \/ Report(r) \/ Detach(r)
    PROVE  FitInv'
<1>1. UNCHANGED classes
  BY DEF LookUp, Replace, Keep, ApplySecret, CreateJob, JobThere, LaunchFails, Report, Detach
<1>2. run = [q \in Runs |-> run[q]] /\ IsRun(run[r])
  BY DEF IInv, Shaped
<1>3. CASE \E s \in {"secret", "failed", "cancelled", "create", "complete", "detached"} : Goes(r, s)
  BY <1>1, <1>3, GoesFit DEF Deciding
<1>4. CASE \E t : run' = [run EXCEPT ![r].pc = "ask", ![r].told = t]
  <2>1. PICK t : run' = [run EXCEPT ![r].pc = "ask", ![r].told = t]
    BY <1>4
  <2>2. /\ run'[r].pc = "ask" /\ run'[r].eff = run[r].eff /\ run'[r].done = run[r].done
        /\ run'[r].conf = run[r].conf /\ Moves(r)
    BY <1>2, <2>1 DEF IsRun, Moves
  <2> QED
    BY <1>1, <2>2, FitKept DEF Deciding
<1>5. CASE \E j : run' = [run EXCEPT ![r].pc = "follow", ![r].uid = j]
  <2>1. PICK j : run' = [run EXCEPT ![r].pc = "follow", ![r].uid = j]
    BY <1>5
  <2>2. /\ run'[r].pc = "follow" /\ run'[r].eff = run[r].eff /\ run'[r].done = run[r].done
        /\ run'[r].conf = run[r].conf /\ Moves(r)
    BY <1>2, <2>1 DEF IsRun, Moves
  <2> QED
    BY <1>1, <2>2, FitKept DEF Deciding
<1> QED
  BY <1>3, <1>4, <1>5 DEF LookUp, Replace, Keep, ApplySecret, CreateJob, JobThere, LaunchFails,
     Report, Detach

LEMMA PhaseFit ==
    ASSUME IInv, FitInv, NEW r \in Runs, Phase(r)
    PROVE  FitInv'
<1>1. /\ Working(r) /\ UNCHANGED classes
      /\ run' = [run EXCEPT ![r].done = Append(@, NextPhase(r))]
  BY DEF Phase
<1>2. run = [q \in Runs |-> run[q]] /\ IsRun(run[r])
  BY DEF IInv, Shaped
<1>3. /\ run'[r].pc = run[r].pc /\ run'[r].eff = run[r].eff /\ run'[r].conf = run[r].conf
      /\ run'[r].done = Append(run[r].done, NextPhase(r)) /\ Moves(r)
  BY <1>1, <1>2 DEF IsRun, Moves
<1>4. DoneOf(r) /\ run[r].pc = "phase" /\ Len(run[r].done) < Len(Phases(run[r].eff))
  BY <1>1 DEF Working, FitInv, FitOK
<1> DEFINE d == run[r].done
           t == Phases(run[r].eff)
           x == NextPhase(r)
<1>5. /\ d \in Seq(PhaseNames) /\ t \in Seq(PhaseNames) /\ Len(d) \in Nat /\ Len(t) \in Nat
      /\ Len(d) < Len(t) /\ \A k \in 1..Len(d) : d[k] = t[k]
  BY <1>4, PhasesOf, LenProperties DEF DoneOf
<1>6. x = t[Len(d) + 1]
  BY DEF NextPhase
<1> HIDE DEF d, t, x
<1>7. x \in PhaseNames
  BY <1>5, <1>6, ElementOfSeq
<1>8. /\ Append(d, x) \in Seq(PhaseNames) /\ Len(Append(d, x)) = Len(d) + 1
      /\ \A k \in 1..Len(d) : Append(d, x)[k] = d[k]
      /\ Append(d, x)[Len(d) + 1] = x
  BY <1>5, <1>7, AppendProperties
<1>9. /\ Append(d, x) \in Seq(PhaseNames) /\ Len(Append(d, x)) <= Len(t)
      /\ \A k \in 1..Len(Append(d, x)) : Append(d, x)[k] = t[k]
  BY <1>5, <1>6, <1>8
<1>10. DoneOf(r)'
  BY <1>3, <1>4, <1>9 DEF DoneOf, d, t, x
<1>11. FitOK(r)'
  BY <1>1, <1>3, <1>4, <1>10 DEF FitInv, FitOK, Deciding
<1>12. \A q \in Runs \ {r} : FitOK(q)'
  BY <1>1, <1>3 DEF Moves, FitInv, FitOK, DoneOf
<1> QED
  BY <1>1, <1>11, <1>12 DEF FitInv

LEMMA ClusterFit ==
    ASSUME IInv, JInv, FitInv, NEW j \in Uids, Cluster(j)
    PROVE  FitInv'
<1>1. UNCHANGED classes /\ j \in Runs
  BY DEF Cluster, Schedule, PodStarts, JobEnds, PodDies, Runs
<1>2. CASE UNCHANGED run
  BY <1>1, <1>2 DEF FitInv, FitOK, DoneOf
<1>3. CASE Goes(j, "failed")
  BY <1>1, <1>3, GoesFit DEF Deciding
<1>4. CASE PodStarts(j)
  <2>1. run[j].pc = "idle"
    BY <1>4 DEF PodStarts, IsA, JInv, PodOK
  <2>2. run[j].eff = None
    BY <1>1, <2>1 DEF FitInv, FitOK, Deciding
  <2>3. run = [q \in Runs |-> run[q]] /\ IsRun(run[j])
    BY <1>1 DEF IInv, Shaped
  <2>4. /\ run'[j].pc = "resolve" /\ run'[j].eff = run[j].eff /\ run'[j].done = run[j].done
        /\ Moves(j)
    BY <1>1, <1>4, <2>3 DEF PodStarts, IsRun, Moves
  <2> QED
    BY <1>1, <2>1, <2>2, <2>4, FitKept DEF Deciding
<1> QED
  BY <1>2, <1>3, <1>4 DEF Cluster, Schedule, JobEnds, PodDies

LEMMA NextFit == IInv /\ JInv /\ FitInv /\ [Next]_vars => FitInv'
<1> SUFFICES ASSUME IInv, JInv, FitInv, [Next]_vars PROVE FitInv'
  OBVIOUS
<1>1. CASE UNCHANGED vars
  BY <1>1 DEF vars, FitInv, FitOK, DoneOf
<1>2. ASSUME NEW r \in Runs, Command(r) PROVE FitInv'
  <2>1. CASE Resolve(r)
    BY <2>1, DecideFit
  <2>2. CASE Stop(r)
    BY <2>2, GoesFit DEF Stop, Deciding
  <2>3. CASE Phase(r)
    BY <2>3, PhaseFit
  <2>4. CASE PhaseFails(r) \/ Complete(r)
    BY <2>4, GoesFit DEF PhaseFails, Complete, Deciding
  <2> QED
    BY <1>2, <2>1, <2>2, <2>3, <2>4, LaunchingFit DEF Command
<1> QED
  BY <1>1, <1>2, LaunchFit, ClusterFit DEF Next

\* Whatever is asked for: a run sets up an identity provider only after it has installed
\* the service behind it, and a class it has chosen itself can bind volumes
\* (install.go:256-363, preflight.go:520-533).
THEOREM FitToRunHolds == Spec => []FitToRun
<1>1. ASSUME FitInv PROVE FitToRun
  <2>1. ASSUME NEW r \in Runs, "auth" \in Range(run[r].done)
        PROVE  /\ "core" \in Range(run[r].done)
               /\ \A p \in AuthProviders(run[r].eff) : Backend(p) \in run[r].eff.comps
    <3> DEFINE d == run[r].done
               t == Phases(run[r].eff)
    <3>1. FitOK(r)
      BY <1>1 DEF FitInv
    <3>2. PICK k \in DOMAIN d : d[k] = "auth"
      BY <2>1 DEF Range
    <3>3. d # <<>>
      BY <3>2
    <3>4. DoneOf(r)
      BY <3>1, <3>3 DEF FitOK
    <3>5. /\ Valid(run[r].eff) /\ d \in Seq(PhaseNames) /\ t \in Seq(PhaseNames)
          /\ Len(d) <= Len(t) /\ \A n \in 1..Len(d) : d[n] = t[n]
      BY <3>4, PhasesOf DEF DoneOf
    <3>6. DOMAIN d = 1..Len(d) /\ Len(d) \in Nat /\ Len(t) \in Nat
      BY <3>5, LenProperties
    <3>7. k \in 1..Len(t) /\ t[k] = "auth"
      BY <3>2, <3>5, <3>6
    <3>8. BackendsChosen(run[r].eff) /\ \E m \in 1..(k - 1) : t[m] = "core"
      BY <3>5, <3>7, PhasesOf
    <3>9. PICK m \in 1..(k - 1) : t[m] = "core"
      BY <3>8
    <3>10. m \in DOMAIN d /\ d[m] = "core"
      BY <3>2, <3>5, <3>6, <3>9
    <3> QED
      BY <3>8, <3>10 DEF Range, BackendsChosen
  <2>2. ASSUME NEW u \in Users, run[u].eff # None, run[u].conf.class = Blank, run[u].eff.class # Blank
        PROVE  \E c \in classes : c.name = run[u].eff.class /\ ~c.static
    <3>1. run[u].eff.class = Recommended(classes) /\ classes \in Clusters
      BY <1>1, <2>2 DEF FitInv, FitOK, Runs
    <3> QED
      BY <2>2, <3>1, RecommendedBinds
  <2> QED
    BY <2>1, <2>2 DEF FitToRun, AuthHasBackend, VolumesCanBind
<1>2. Spec => []FitInv
  BY InitIInv, NextIInv, InitJInv, NextJInv, InitFit, NextFit, PTL DEF Spec
<1> QED
  BY <1>1, <1>2, PTL
=============================================================================
