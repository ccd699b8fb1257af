------------------------------- MODULE Install -------------------------------
(***************************************************************************)
(* The install command. A run resolves its configuration, checks it and    *)
(* installs from the user's machine, phase after phase, or hands the       *)
(* configuration to a Job of the cluster, whose pod runs the same command  *)
(* once more: from the Job's arguments, a shared Secret and the defaults.  *)
(* Several users may install into one namespace at once.                   *)
(***************************************************************************)
EXTENDS Naturals, Sequences, Functions

CONSTANTS
    Users,       \* each starts one run
    Requests,    \* per user: what flags, environment and answers may ask for
    Modes,       \* per user: [inter, local, yes: BOOLEAN, name: a Job's name]
    Clusters,    \* the sets of storage classes a cluster may have, names numbered in order
    CoreOf,      \* per MAS instance: its core namespace, mas-<instance>-core
    MaxJobs,     \* bound: Jobs ever created
    MaxFaults,   \* bound: failures
    Blank, None

DefaultName == "mas-est-install"
Providers   == {"ldap", "oidc", "saml"}
Uids        == 1..MaxJobs
Runs        == Users \cup Uids    \* a Job's pod is the run with the Job's uid

\* A configuration is a record of these fields, whatever texts are in most.
IsConf(c) ==
    /\ c = [comps |-> c.comps, url |-> c.url, token |-> c.token, pass |-> c.pass,
            workspace |-> c.workspace, inst |-> c.inst, core |-> c.core,
            authInst |-> c.authInst, authCore |-> c.authCore, relay |-> c.relay,
            class |-> c.class, auth |-> c.auth, providers |-> c.providers,
            skip |-> c.skip, wipe |-> c.wipe]
    /\ {c.auth, c.skip, c.wipe} \subseteq BOOLEAN

ASSUME InstallAssumption ==
    /\ {MaxJobs, MaxFaults} \subseteq Nat /\ IsInjective(CoreOf)
    /\ Users \cap Uids = {} /\ None \notin Runs
    /\ \A u \in Users : \A c \in Requests[u] : IsConf(c)

ASSUME ClustersAssumption == \A cs \in Clusters : \A c \in cs : c.name \in Nat

VARIABLES
    run,      \* per run: where it is, what it was given and what it resolved
    job,      \* per uid: the Job, in no phase before it is created
    named,    \* per name: the uid of the Job the API knows by it, or None
    secret,   \* the Secret mas-est-install-credentials, and who wrote it last
    classes,  \* the storage classes of the cluster
    faults

vars == <<run, job, named, secret, classes, faults>>

NoSecret == [token |-> Blank, pass |-> Blank, by |-> None]
NoJob == [args |-> None, keys |-> {}, phase |-> "none", by |-> None, wanted |-> None]
Idle == [pc |-> "idle", conf |-> None, mode |-> None, eff |-> None, told |-> None,
         uid |-> None, from |-> None, done |-> <<>>]

Init ==
    /\ run = [r \in Runs |-> Idle]
    /\ job = [j \in Uids |-> NoJob]
    /\ named \in [{DefaultName, "other"} -> {None}]
    /\ secret = NoSecret
    /\ classes \in Clusters
    /\ faults = 0

Fault == faults < MaxFaults /\ faults' = faults + 1
Goes(r, s) == run' = [run EXCEPT ![r].pc = s]

-----------------------------------------------------------------------------
(* The configuration. *)

Or(x, y) == IF x = Blank THEN y ELSE x

Normalized(comps) ==
    comps \cup (IF "scim" \in comps THEN {"keycloak"} ELSE {})
          \cup (IF comps \cap {"scim", "keycloak"} # {} THEN {"ldap"} ELSE {})

CoreNamespace(i) == IF i = Blank THEN Blank ELSE CoreOf[i]
InstanceIn(ns)   == IF ns \in Range(CoreOf) THEN CHOOSE i \in DOMAIN CoreOf : CoreOf[i] = ns
                                            ELSE Blank

DefaultCore(c) ==
    [c EXCEPT !.core = Or(@, CoreNamespace(c.inst)), !.inst = Or(@, InstanceIn(c.core))]

DefaultAuth(c) ==
    LET i  == Or(c.authInst, c.inst)
        ns == Or(Or(c.authCore, c.core), CoreNamespace(i))
    IN  [c EXCEPT !.authCore = ns, !.authInst = Or(i, InstanceIn(ns))]

AuthProviders(c) == IF c.providers = {} THEN Providers ELSE c.providers

\* The service of this installation that a provider logs in with.
Backend(p) == IF p = "ldap" THEN "ldap" ELSE "keycloak"

\* Mutant: the components of the providers are not asked for.
AnyBackend(c) == c.comps # {}
BackendsChosen(c) == \A p \in AuthProviders(c) : Backend(p) \in c.comps

Valid(c) ==
    /\ c.comps # {}
    /\ "scim" \in c.comps => Blank \notin {c.url, c.token, c.workspace}
    /\ "s3" \in c.comps /\ ~c.skip => {c.inst, c.core} # {Blank}
    /\ c.auth =>
         /\ BackendsChosen(c)
         /\ {c.authInst, c.authCore, c.inst, c.core} # {Blank}
         /\ c.workspace # Blank \/ "scim" \in c.comps

\* A static class has no volume to hand out. The others rank by kind, then by name.
Provisionable(cs) == {c \in cs : ~c.static}

DefaultClass(cs) ==
    LET marked == {c \in cs : c.default}
    IN  IF marked = {} THEN Blank
        ELSE (CHOOSE c \in marked : \A d \in marked : d.name <= c.name).name

Rank(c, cs) == CASE c.kind = "rbd"              -> 1
                 [] c.kind = "external-rbd"     -> 2
                 [] c.kind = "rook"             -> 3
                 [] c.kind = "block"            -> 4
                 [] c.name = DefaultClass(cs)   -> 5
                 [] OTHER                       -> 6

Before(c, d, cs) ==
    \/ Rank(c, cs) < Rank(d, cs)
    \/ Rank(c, cs) = Rank(d, cs) /\ c.name <= d.name

Recommended(cs) ==
    LET choices == Provisionable(cs)
    IN  IF choices = {} THEN Blank
        ELSE (CHOOSE c \in choices : \A d \in choices : Before(c, d, cs)).name

Resolved(c) ==
    DefaultAuth(DefaultCore([c EXCEPT !.comps = Normalized(@),
                                      !.class = Or(@, Recommended(classes))]))

-----------------------------------------------------------------------------
(* What a Job is given. *)

IfSet(cond, x) == IF cond THEN x ELSE Blank

\* Mutant: the workspace is taken for a setting of scim.
WorkspaceOfScim(c) == IfSet("scim" \in c.comps, c.workspace)
WorkspaceArg(c) == c.workspace

\* The flags. A value without its component is left out, and so are secrets.
JobArgs(c) ==
    [c EXCEPT !.url   = IfSet("scim" \in c.comps, @),
              !.token = Blank, !.pass = Blank, !.workspace = WorkspaceArg(c),
              !.relay = IfSet("smtp" \in c.comps, @),
              !.skip  = @ /\ "s3" \in c.comps,
              !.providers = IF c.auth THEN @ ELSE {},
              !.authInst = IfSet(c.auth, @), !.authCore = IfSet(c.auth, @),
              !.wipe  = FALSE]

\* The keys of the Secret.
SecretKeys(c) == (IF c.token = Blank THEN {} ELSE {"token"}) \cup
                 (IF c.pass  = Blank THEN {} ELSE {"pass"})

\* Mutant: --local is left out.
PodModeDefault == [inter |-> FALSE, local |-> FALSE, yes |-> FALSE, name |-> DefaultName]
\* What the pod's own run is started with. --job-name is not among the flags.
PodMode == [inter |-> FALSE, local |-> TRUE, yes |-> FALSE, name |-> DefaultName]

PodConf(j) == [job[j].args EXCEPT
    !.token = IfSet("token" \in job[j].keys, secret.token),
    !.pass  = IfSet("pass" \in job[j].keys, secret.pass)]

-----------------------------------------------------------------------------
(* A run, up to its decision. *)

Launch(u) ==
    /\ run[u].pc = "idle"
    /\ \E c \in Requests[u], m \in Modes[u] :
          run' = [run EXCEPT ![u].pc = "resolve", ![u].conf = c, ![u].mode = m]
    /\ UNCHANGED <<job, named, secret, classes, faults>>

InCluster(r) == ~run[r].mode.local

\* The uninstall would delete the Job that runs it; without prompts it needs --yes.
MayWipe(r) == ~InCluster(r) /\ (run[r].mode.inter \/ run[r].mode.yes)

Refused(r) ==
    \/ ~Valid(Resolved(run[r].conf))
    \/ run[r].conf.wipe /\ ~MayWipe(r)

Resolve(r) ==
    /\ run[r].pc = "resolve"
    /\ IF Refused(r)
       THEN Goes(r, "refused")
       ELSE run' = [run EXCEPT ![r].pc = IF InCluster(r) THEN "look" ELSE "phase",
                               ![r].eff = Resolved(run[r].conf)]
    /\ UNCHANGED <<job, named, secret, classes, faults>>

\* A check of the preflight fails, or the user declines the summary.
Stop(r) ==
    /\ run[r].pc = "resolve"
    /\ \/ Fault /\ Goes(r, "refused")
       \/ run[r].mode.inter /\ Goes(r, "cancelled") /\ UNCHANGED faults
    /\ UNCHANGED <<job, named, secret, classes>>

-----------------------------------------------------------------------------
(* Launching a Job. *)

Name(r) == run[r].mode.name

IsA(j, phase) == job[j].phase = phase

\* status.active: the controller has made the pod and it has not ended.
Active(j) == job[j].phase \in {"scheduled", "running"}

\* The Job of that name is looked up: none, or one to ask about.
LookUp(r) ==
    /\ run[r].pc = "look"
    /\ IF named[Name(r)] = None
       THEN Goes(r, "secret")
       ELSE IF ~run[r].mode.inter THEN Goes(r, "failed")
       ELSE run' = [run EXCEPT ![r].pc = "ask",
                    ![r].told = IF Active(named[Name(r)]) THEN "running" ELSE "finished"]
    /\ UNCHANGED <<job, named, secret, classes, faults>>

\* Yes: whatever Job has the name now is deleted; its pod is collected later.
Replace(r) ==
    /\ run[r].pc = "ask"
    /\ named' = [named EXCEPT ![Name(r)] = None]
    /\ Goes(r, "secret")
    /\ UNCHANGED <<job, secret, classes, faults>>

Keep(r) ==
    /\ run[r].pc = "ask"
    /\ Goes(r, "cancelled")
    /\ UNCHANGED <<job, named, secret, classes, faults>>

\* The Secret keeps the keys that this run does not set.
ApplySecret(r) ==
    /\ run[r].pc = "secret"
    /\ LET c == run[r].eff
       IN  secret' = IF SecretKeys(c) = {} THEN secret
                     ELSE [token |-> Or(c.token, secret.token),
                           pass |-> Or(c.pass, secret.pass), by |-> r]
    /\ Goes(r, "create")
    /\ UNCHANGED <<job, named, classes, faults>>

\* The Job, and what it is for: who launched it and wanted what.
Manifest(r) ==
    [args |-> JobArgs(run[r].eff), keys |-> SecretKeys(run[r].eff), phase |-> "created",
     by |-> r, wanted |-> run[r].eff]

CreateJob(r) ==
    /\ run[r].pc = "create" /\ named[Name(r)] = None
    /\ \E j \in Uids :
          /\ IsA(j, "none") /\ \A i \in 1..(j - 1) : ~IsA(i, "none")
          /\ job' = [job EXCEPT ![j] = Manifest(r)]
          /\ named' = [named EXCEPT ![Name(r)] = j]
          /\ run' = [run EXCEPT ![r].pc = "follow", ![r].uid = j]
    /\ UNCHANGED <<secret, classes, faults>>

\* Another run was faster: an equal Job is taken for one's own, the template of
\* another one cannot be changed.
JobThere(r) ==
    /\ run[r].pc = "create" /\ named[Name(r)] # None
    /\ LET j == named[Name(r)]
       IN  IF job[j].args = JobArgs(run[r].eff) /\ job[j].keys = SecretKeys(run[r].eff)
           THEN run' = [run EXCEPT ![r].pc = "follow", ![r].uid = j]
           ELSE Goes(r, "failed")
    /\ UNCHANGED <<job, named, secret, classes, faults>>

LaunchFails(r) ==
    /\ run[r].pc \in {"look", "ask", "secret", "create"}
    /\ Fault /\ Goes(r, "failed")
    /\ UNCHANGED <<job, named, secret, classes>>

\* The result is that of the Job that has the name by then.
Report(r) ==
    /\ run[r].pc = "follow" /\ named[Name(r)] # None
    /\ LET phase == job[named[Name(r)]].phase
       IN  phase \in {"complete", "failed"} /\ Goes(r, phase)
    /\ UNCHANGED <<job, named, secret, classes, faults>>

\* Ctrl-C, a stream that keeps dropping, or no result in time.
Detach(r) ==
    /\ run[r].pc = "follow"
    /\ Goes(r, "detached")
    /\ UNCHANGED <<job, named, secret, classes, faults>>

-----------------------------------------------------------------------------
(* The phases, on the user's machine or in the pod. *)

Phases(c) ==
    (IF c.wipe THEN <<"wipe">> ELSE <<>>)
    \o (IF c.comps \cap {"ldap", "keycloak", "scim"} # {} THEN <<"core">> ELSE <<>>)
    \o (IF "s3" \in c.comps THEN <<"s3">> ELSE <<>>)
    \o (IF "smtp" \in c.comps THEN <<"smtp">> ELSE <<>>)
    \o (IF c.auth THEN <<"auth">> ELSE <<>>)

Working(r) == run[r].pc = "phase" /\ Len(run[r].done) < Len(Phases(run[r].eff))
NextPhase(r) == Phases(run[r].eff)[Len(run[r].done) + 1]

Phase(r) ==
    /\ Working(r)
    /\ run' = [run EXCEPT ![r].done = Append(@, NextPhase(r))]
    /\ IF NextPhase(r) = "wipe"    \* the namespace goes with all that is in it
       THEN named' = [n \in DOMAIN named |-> None] /\ secret' = NoSecret
       ELSE UNCHANGED <<named, secret>>
    /\ UNCHANGED <<job, classes, faults>>

PhaseFails(r) ==
    /\ Working(r)
    /\ Fault /\ Goes(r, "failed")
    /\ UNCHANGED <<job, named, secret, classes>>

Complete(r) ==
    /\ run[r].pc = "phase" /\ ~Working(r)
    /\ Goes(r, "complete")
    /\ UNCHANGED <<job, named, secret, classes, faults>>

-----------------------------------------------------------------------------
(* The cluster. *)

JobGoes(j, phase) == job' = [job EXCEPT ![j].phase = phase]
Deleted(j) == j \notin Range(named)

Schedule(j) ==
    /\ IsA(j, "created") /\ ~Deleted(j)
    /\ JobGoes(j, "scheduled")
    /\ UNCHANGED <<run, named, secret, classes, faults>>

\* The container reads the Secret when it starts, and waits for its keys.
PodStarts(j) ==
    /\ IsA(j, "scheduled") /\ \A k \in job[j].keys : secret[k] # Blank
    /\ JobGoes(j, "running")
    /\ run' = [run EXCEPT ![j].pc = "resolve", ![j].conf = PodConf(j), ![j].mode = PodMode,
                          ![j].from = secret.by]
    /\ UNCHANGED <<named, secret, classes, faults>>

Ended(r) == run[r].pc \in {"refused", "cancelled", "failed", "detached", "complete"}

JobEnds(j) ==
    /\ IsA(j, "running") /\ Ended(j)
    /\ JobGoes(j, IF run[j].pc = "complete" THEN "complete" ELSE "failed")
    /\ UNCHANGED <<run, named, secret, classes, faults>>

\* An image without --local, an eviction, the deadline; or the Job was deleted.
PodDies(j) ==
    /\ Active(j) \/ (IsA(j, "created") /\ Deleted(j))
    /\ IF Deleted(j) THEN UNCHANGED faults ELSE Fault
    /\ JobGoes(j, "failed")
    /\ IF Ended(j) THEN UNCHANGED run ELSE Goes(j, "failed")
    /\ UNCHANGED <<named, secret, classes>>

-----------------------------------------------------------------------------
Cluster(j) == Schedule(j) \/ PodStarts(j) \/ JobEnds(j) \/ PodDies(j)

Command(r) ==
    \/ Resolve(r) \/ Stop(r) \/ LookUp(r) \/ Replace(r) \/ Keep(r)
    \/ ApplySecret(r) \/ CreateJob(r) \/ JobThere(r) \/ LaunchFails(r)
    \/ Report(r) \/ Detach(r)
    \/ Phase(r) \/ PhaseFails(r) \/ Complete(r)

Next ==
    \/ \E u \in Users : Launch(u)
    \/ \E r \in Runs : Command(r)
    \/ \E j \in Uids : Cluster(j)

Spec == Init /\ [][Next]_vars

-----------------------------------------------------------------------------
(* Properties. *)

\* All that matters to the phases, but for credentials and, without scim, the
\* URL of MAS, which a Job finds out by itself.
Wanted(c) ==
    [phases |-> Phases(c), comps |-> c.comps, class |-> c.class,
     scim |-> IF "scim" \in c.comps THEN <<c.url, c.workspace>> ELSE <<>>,
     s3   |-> IF "s3" \in c.comps /\ ~c.skip THEN <<c.inst, c.core>> ELSE <<>>,
     smtp |-> IF "smtp" \in c.comps THEN <<c.relay>> ELSE <<>>,
     auth |-> IF c.auth THEN <<AuthProviders(c), c.authInst, c.authCore, c.workspace>>
                        ELSE <<>>]

\* What a pod installs, after flags, Secret, defaults and validation all over
\* again (install_incluster.go:638-692), is what its user confirmed; with that
\* user's credentials, unless another run has written the shared Secret since.
JobAsConfirmed ==
    \A j \in Uids :
        LET pod == run[j]
        IN  /\ faults = 0 => pod.pc # "refused"
            /\ pod.eff # None =>
                /\ Wanted(pod.eff) = Wanted(job[j].wanted)
                /\ pod.from = job[j].by =>
                     <<pod.eff.token, pod.eff.pass>> = <<job[j].wanted.token, job[j].wanted.pass>>

\* An identity provider is set up in MAS only after the same run has installed
\* the service behind it (install.go:256-363, config/install.go:226-239).
AuthHasBackend ==
    \A r \in Runs : "auth" \in Range(run[r].done) =>
        /\ "core" \in Range(run[r].done)
        /\ \A p \in AuthProviders(run[r].eff) : Backend(p) \in run[r].eff.comps

\* Only people launch Jobs: the command inside a Job does not launch another one
\* (install_incluster.go:632-637).
JobsFromPeople == \A j \in Uids : ~IsA(j, "none") => job[j].by \in Users

\* A class nobody named can bind new volumes (preflight.go:520-533).
VolumesCanBind ==
    \A u \in Users : run[u].eff # None /\ run[u].conf.class = Blank /\ run[u].eff.class # Blank =>
        \E c \in classes : c.name = run[u].eff.class /\ ~c.static

\* What an install sets up can work: its providers and its volumes.
FitToRun == AuthHasBackend /\ VolumesCanBind

\* install_incluster.go:106-107: "reconcileExistingJob refuses to silently replace
\* a Job of the same name: a running one may be somebody else's install": a run
\* deletes a running Job only if its user was told that the Job is running.
RunningAskedFor ==
    [][\A r \in Runs : Replace(r) /\ named[Name(r)] # None /\ Active(named[Name(r)])
          => run[r].told = "running"]_vars
=============================================================================
