------------------------------ MODULE Services ------------------------------
(***************************************************************************)
(* The services mas-est runs for MAS: MinIO, or a Rook Ceph store, for S3  *)
(* and Mailpit for mail. An install is a sequence of calls to the cluster, *)
(* each of which may fail; nothing is undone, the user runs it again. The  *)
(* cluster starts pods and jobs beside it, and two installs may overlap.   *)
(*                                                                         *)
(* The password of MinIO is random and lives in a Secret, the root secret. *)
(* A pod reads it when it starts and never again; the bucket job does too. *)
(***************************************************************************)
EXTENDS Naturals, Sequences

CONSTANTS
    Installers,   \* those who run the command
    Requests,     \* what they may ask for
    Overlaps,     \* bound: the sets of kinds that may be installed at once
    Relays,       \* the upstream servers Mailpit may relay to
    Passwords,    \* bound: a new one is drawn from those not in use
    None,
    MaxInstalls,  \* bound: installs, those that repeat a failed one not counted
    MaxFaults,    \* bound: failed or lost calls, misread answers, lost pods
    OldInstalls   \* may a MinIO of a release before Recreate be there?

Request == [kind: {"minio", "rook"}, mas: BOOLEAN]
             \cup [kind: {"mailpit"}, relay: Relays \cup {None}]

Deployment == [strategy: {"RollingUpdate", "Recreate"}, domain: BOOLEAN]
Pod == [password: Passwords, domain: BOOLEAN]

ASSUME ServicesAssumption ==
    /\ Passwords # {} /\ Passwords \cap {"new", "done", "rook"} = {} /\ "capture" \notin Relays
    /\ None \notin Passwords \cup Relays \cup {"new", "done", "rook", "capture", "relay"}
    /\ None \notin Deployment /\ None \notin Pod /\ None \notin Request
    /\ {MaxInstalls, MaxFaults} \subseteq Nat
    /\ Requests \subseteq Request /\ OldInstalls \in BOOLEAN

VARIABLES
    \* MinIO
    root,      \* the password in the root secret
    dep,       \* the Deployment: None, or its strategy and with MINIO_DOMAIN or not
    pod,       \* the running pod: None, or the password it read and its domain
    job,       \* the bucket job: None, "new", the password it tries, or "done"
    buckets,
    \* Mailpit
    relay,     \* the server in the relay Secret
    mdep,      \* the Deployment: None, "relay" when the Secret is mounted, or "capture"
    mpod,      \* the running pod: None, the server it relays to, or "capture"
    \* MAS and what users read
    masCred,   \* per provider: the password in the Secret MAS uses
    cfg,       \* the provider the ObjectStorageCfg names
    conn,      \* per provider: the password in the connection Secret
    mconn,     \* the server that the connection ConfigMap of Mailpit names
    details,   \* the groups of keys in the connection details Secret
    \* the installs
    state, req, todo,
    key,       \* the S3 password an install has read
    found,     \* the details it has read
    \* history and bounds
    met,       \* the services others have worked on beside an install
    clean,     \* per service: the last request, when it ended well and alone
    misread,   \* an error has been taken for a missing root secret
    raced,     \* two installs of an S3 store have been there at once
    begun, faults

minioVars == <<root, dep, pod, job, buckets>>
mailVars  == <<relay, mdep, mpod>>
masVars   == <<masCred, cfg, conn, mconn, details>>
history   == <<req, met, clean, misread, raced, begun>>
vars == <<minioVars, mailVars, masVars, state, todo, key, found, history, faults>>

Providers == {"minio", "rook"}
Service(r) == IF r.kind = "mailpit" THEN "mail" ELSE "s3"

Init ==
    /\ \/ root = None /\ dep = None /\ pod = None /\ buckets = FALSE
       \/ /\ OldInstalls /\ root = (CHOOSE p \in Passwords : TRUE) /\ buckets \in BOOLEAN
          /\ dep = [strategy |-> "RollingUpdate", domain |-> FALSE]
          /\ pod = [password |-> root, domain |-> FALSE]
    /\ job = None /\ relay = None /\ mdep = None /\ mpod = None
    /\ masCred = [p \in Providers |-> None] /\ cfg = None
    /\ conn = [p \in Providers |-> None] /\ mconn = None /\ details = {}
    /\ state = [i \in Installers |-> "off"] /\ req = [i \in Installers |-> None]
    /\ todo = [i \in Installers |-> <<>>]
    /\ key = [i \in Installers |-> None] /\ found = [i \in Installers |-> {}]
    /\ met = [i \in Installers |-> {}]
    /\ clean = [s \in {"s3", "mail"} |-> None] /\ misread = FALSE /\ raced = FALSE
    /\ begun = 0 /\ faults = 0

-----------------------------------------------------------------------------
(* The steps of an install. Calls that write what no property tells apart, *)
(* namespace, volume claim, Services and routes, are part of the next one. *)

MasSteps(r) == IF r.mas THEN <<"masSecret", "masCfg", "masReady">> ELSE <<>>

LastSteps == <<"readDetails", "writeDetails", "connection">>

MinioSteps(r) ==
    <<"readRoot", "writeRoot", "migrate", "deploy", "rollout", "deleteJob", "startJob",
      "awaitJob", "domain", "reroll", "readKey">> \o MasSteps(r) \o LastSteps

RookSteps(r) == <<"store", "awaitStore">> \o MasSteps(r) \o LastSteps

MailpitSteps(r) ==
    (IF r.relay = None THEN <<>> ELSE <<"relay">>) \o <<"mdeploy", "mrollout">> \o LastSteps

Steps(r) == CASE r.kind = "minio"   -> MinioSteps(r)
              [] r.kind = "rook"    -> RookSteps(r)
              [] r.kind = "mailpit" -> MailpitSteps(r)

Running(i) == state[i] = "run" /\ todo[i] # <<>>
At(i, s)   == Running(i) /\ Head(todo[i]) = s

Fault == faults < MaxFaults /\ faults' = faults + 1

Goes(i)  == todo' = [todo EXCEPT ![i] = Tail(@)] /\ UNCHANGED <<state, faults>>
Stops(i) == todo' = [todo EXCEPT ![i] = <<>>] /\ state' = [state EXCEPT ![i] = "failed"]

\* A call that has been done. When its answer is lost, the install fails.
Done(i) == UNCHANGED <<key, found, history>> /\ (Goes(i) \/ (Stops(i) /\ Fault))

\* A step that finds what it waits for or reads.
Waited(i) == Goes(i) /\ UNCHANGED <<minioVars, mailVars, masVars, history>>

\* A password no one holds.
InUse == {root, job} \cup {masCred[p] : p \in Providers} \cup {conn[p] : p \in Providers}
           \cup {key[i] : i \in Installers} \cup (IF pod = None THEN {} ELSE {pod.password})
Fresh == CHOOSE p \in Passwords : p \notin InUse

-----------------------------------------------------------------------------
(* MinIO. *)

\* A root secret that can be read is kept.
KeepRoot(i) ==
    /\ At(i, "readRoot") /\ root # None
    /\ todo' = [todo EXCEPT ![i] = Tail(Tail(@))]
    /\ UNCHANGED <<minioVars, mailVars, masVars, state, key, found, history, faults>>

\* Mutant: a new one is made at every install.
AlwaysMissing(i) == At(i, "readRoot")

RootMissing(i) == At(i, "readRoot") /\ root = None

\* Any error counts as a missing one.
NeedRoot(i) ==
    \/ RootMissing(i) /\ Waited(i) /\ UNCHANGED <<key, found>>
    \/ /\ At(i, "readRoot") /\ root # None /\ Fault /\ misread' = TRUE
       /\ todo' = [todo EXCEPT ![i] = Tail(@)]
       /\ UNCHANGED <<minioVars, mailVars, masVars, state, key, found, req, met, clean, raced,
                      begun>>

WriteRoot(i) ==
    /\ At(i, "writeRoot") /\ ~(Passwords \subseteq InUse)
    /\ root' = Fresh
    /\ Done(i)
    /\ UNCHANGED <<dep, pod, job, buckets, mailVars, masVars>>

\* Mutant: the strategy is left to the apply that follows.
NotMigrated(d) == d

Migrated(d) == [d EXCEPT !.strategy = "Recreate"]

\* No Deployment and one that cannot be read are the same.
Migrate(i) ==
    /\ At(i, "migrate")
    /\ \/ dep' = (IF dep = None THEN None ELSE Migrated(dep)) /\ Done(i)
       \/ /\ dep # None /\ Fault /\ todo' = [todo EXCEPT ![i] = Tail(@)]
          /\ UNCHANGED <<dep, state, key, found, history>>
    /\ UNCHANGED <<root, pod, job, buckets, mailVars, masVars>>

\* An apply cannot take away the fields of the old strategy.
Rejected(i) ==
    (At(i, "deploy") \/ At(i, "domain")) /\ dep # None /\ dep.strategy = "RollingUpdate"

\* First without MINIO_DOMAIN, also over one that has it.
Deploy(i) ==
    /\ \E domain \in BOOLEAN :
          /\ At(i, IF domain THEN "domain" ELSE "deploy")
          /\ dep' = [strategy |-> "Recreate", domain |-> domain]
    /\ ~Rejected(i)
    /\ Done(i)
    /\ UNCHANGED <<root, pod, job, buckets, mailVars, masVars>>

\* Mutant: any pod will do.
PodThere == pod # None

RolledOut == pod # None /\ dep # None /\ pod.domain = dep.domain

Rollout(i) == (At(i, "rollout") \/ At(i, "reroll")) /\ RolledOut /\ Waited(i) /\ UNCHANGED <<key, found>>

DeleteJob(i) ==
    /\ At(i, "deleteJob")
    /\ job' = None
    /\ Done(i)
    /\ UNCHANGED <<root, dep, pod, buckets, mailVars, masVars>>

\* An apply of the same job changes nothing.
StartJob(i) ==
    /\ At(i, "startJob")
    /\ job' = (IF job = None THEN "new" ELSE job)
    /\ Done(i)
    /\ UNCHANGED <<root, dep, pod, buckets, mailVars, masVars>>

AwaitJob(i) == At(i, "awaitJob") /\ job = "done" /\ Waited(i) /\ UNCHANGED <<key, found>>

\* The job is gone, or tries a password the pod does not have: it tries for ever.
JobHopeless(i) ==
    /\ At(i, "awaitJob")
    /\ job = None \/ (job \in Passwords /\ RolledOut /\ pod.password # job)

ReadKey(i) ==
    /\ At(i, "readKey") /\ root # None
    /\ key' = [key EXCEPT ![i] = root]
    /\ Waited(i) /\ UNCHANGED found

-----------------------------------------------------------------------------
(* Rook and Mailpit. *)

\* The operator of Rook is outside the model; the key it hands out is fixed.
Store(i) == At(i, "store") /\ Done(i) /\ UNCHANGED <<minioVars, mailVars, masVars>>

\* The gateway, the key of the bucket and the certificate are there.
AwaitStore(i) ==
    /\ At(i, "awaitStore")
    /\ key' = [key EXCEPT ![i] = "rook"]
    /\ Waited(i) /\ UNCHANGED found

Relay(i) ==
    /\ At(i, "relay")
    /\ relay' = req[i].relay
    /\ Done(i)
    /\ UNCHANGED <<minioVars, mdep, mpod, masVars>>

\* Without a relay the Secret of an earlier one stays, but is not mounted.
MDeploy(i) ==
    /\ At(i, "mdeploy")
    /\ mdep' = (IF req[i].relay = None THEN "capture" ELSE "relay")
    /\ Done(i)
    /\ UNCHANGED <<minioVars, relay, mpod, masVars>>

MRolledOut == mpod # None /\ (mpod = "capture") = (mdep = "capture")

MRollout(i) == At(i, "mrollout") /\ MRolledOut /\ Waited(i) /\ UNCHANGED <<key, found>>

-----------------------------------------------------------------------------
(* MAS and the connection data. *)

MasSecret(i) ==
    /\ At(i, "masSecret")
    /\ masCred' = [masCred EXCEPT ![req[i].kind] = key[i]]
    /\ Done(i)
    /\ UNCHANGED <<minioVars, mailVars, cfg, conn, mconn, details>>

\* MinIO and Rook write the same ObjectStorageCfg.
MasCfg(i) ==
    /\ At(i, "masCfg")
    /\ cfg' = req[i].kind
    /\ Done(i)
    /\ UNCHANGED <<minioVars, mailVars, masCred, conn, mconn, details>>

\* The condition may still be that of the configuration before.
MasReady(i) == At(i, "masReady") /\ Waited(i) /\ UNCHANGED <<key, found>>

ReadDetails(i) ==
    /\ At(i, "readDetails")
    /\ found' = [found EXCEPT ![i] = details]
    /\ Waited(i) /\ UNCHANGED key

Group(r) == CASE r.kind = "minio" -> {"s3"}
              [] r.kind = "mailpit" -> {"smtp"} \cup (IF r.relay = None THEN {} ELSE {"relay"})
              [] OTHER -> {}

\* Mutant: the Secret is written with the keys of this service alone.
OwnGroup(old, r) == Group(r)

\* Keys that are there stay, those of a relay that is no longer used too.
Merged(old, r) == old \cup Group(r)

\* Rook has a details Secret of its own, in the namespace of MAS.
WriteDetails(i) ==
    /\ At(i, "writeDetails")
    /\ details' = (IF req[i].kind = "rook" THEN details ELSE Merged(found[i], req[i]))
    /\ Done(i)
    /\ UNCHANGED <<minioVars, mailVars, masCred, cfg, conn, mconn>>

Connection(i) ==
    /\ At(i, "connection")
    /\ IF req[i].kind = "mailpit"
       THEN mconn' = req[i].relay /\ UNCHANGED conn
       ELSE conn' = [conn EXCEPT ![req[i].kind] = key[i]] /\ UNCHANGED mconn
    /\ Done(i)
    /\ UNCHANGED <<minioVars, mailVars, masCred, cfg, details>>

-----------------------------------------------------------------------------
(* The installs. *)

Others(i) == {j \in Installers \ {i} : state[j] = "run"}

Begin(i, r) ==
    /\ Others(i) = {} \/ {r.kind} \cup {req[j].kind : j \in Others(i)} \in Overlaps
    /\ state' = [state EXCEPT ![i] = "run"] /\ req' = [req EXCEPT ![i] = r]
    /\ todo' = [todo EXCEPT ![i] = Steps(r)]
    /\ key' = [key EXCEPT ![i] = None] /\ found' = [found EXCEPT ![i] = {}]
    /\ met' = [j \in Installers |-> IF j = i THEN {Service(req[k]) : k \in Others(i)}
                                    ELSE IF j \in Others(i) THEN met[j] \cup {Service(r)}
                                    ELSE met[j]]
    /\ raced' = (raced \/ (Service(r) = "s3" /\ \E j \in Others(i) : Service(req[j]) = "s3"))
    /\ clean' = [clean EXCEPT ![Service(r)] = None]
    /\ UNCHANGED <<minioVars, mailVars, masVars, misread, faults>>

Start(i) ==
    /\ state[i] # "run" /\ begun < MaxInstalls /\ begun' = begun + 1
    /\ \E r \in Requests : Begin(i, r)

\* The same once more, after a failure.
Again(i) == state[i] = "failed" /\ Begin(i, req[i]) /\ UNCHANGED begun

\* A call is refused, a wait times out, the command is killed.
Fails(i) ==
    /\ Running(i)
    /\ Stops(i)
    /\ \/ Fault
       \/ (JobHopeless(i) \/ Rejected(i) \/ At(i, "awaitStore")) /\ UNCHANGED faults
    /\ UNCHANGED <<minioVars, mailVars, masVars, key, found, history>>

Ends(i) ==
    /\ state[i] = "run" /\ todo[i] = <<>>
    /\ state' = [state EXCEPT ![i] = "done"]
    /\ LET s == Service(req[i]) IN
          clean' = (IF s \in met[i] THEN clean ELSE [clean EXCEPT ![s] = req[i]])
    /\ UNCHANGED <<minioVars, mailVars, masVars, todo, key, found, req, met, misread, raced, begun,
                   faults>>

Step(i) ==
    \/ KeepRoot(i) \/ NeedRoot(i) \/ WriteRoot(i) \/ Migrate(i) \/ Deploy(i) \/ Rollout(i)
    \/ DeleteJob(i) \/ StartJob(i) \/ AwaitJob(i) \/ ReadKey(i) \/ Store(i) \/ AwaitStore(i)
    \/ Relay(i) \/ MDeploy(i) \/ MRollout(i) \/ MasSecret(i) \/ MasCfg(i) \/ MasReady(i)
    \/ ReadDetails(i) \/ WriteDetails(i) \/ Connection(i) \/ Fails(i) \/ Ends(i)

-----------------------------------------------------------------------------
(* The cluster. *)

Elsewhere == UNCHANGED <<mailVars, masVars, state, todo, key, found, history, root, dep>>

\* The old pod goes before the new one comes.
PodStops ==
    /\ pod # None /\ dep # None /\ pod.domain # dep.domain
    /\ pod' = None
    /\ Elsewhere /\ UNCHANGED <<job, buckets, faults>>

PodStarts ==
    /\ pod = None /\ dep # None /\ root # None
    /\ pod' = [password |-> root, domain |-> dep.domain]
    /\ Elsewhere /\ UNCHANGED <<job, buckets, faults>>

PodLost ==
    /\ pod # None /\ Fault
    /\ pod' = None
    /\ Elsewhere /\ UNCHANGED <<job, buckets>>

JobStarts ==
    /\ job = "new" /\ root # None
    /\ job' = root
    /\ Elsewhere /\ UNCHANGED <<pod, buckets, faults>>

JobCompletes ==
    /\ job \in Passwords /\ pod # None /\ pod.password = job
    /\ job' = "done" /\ buckets' = TRUE
    /\ Elsewhere /\ UNCHANGED <<pod, faults>>

\* The relay Secret is read when the pod starts.
MPodStarts ==
    /\ mdep # None /\ ~MRolledOut
    /\ mpod' = (IF mdep = "relay" THEN relay ELSE "capture")
    /\ UNCHANGED <<minioVars, relay, mdep, masVars, state, todo, key, found, history, faults>>

Cluster == PodStops \/ PodStarts \/ JobStarts \/ JobCompletes \/ MPodStarts

Next == Cluster \/ PodLost \/ \E i \in Installers : Start(i) \/ Again(i) \/ Step(i)

Spec == Init /\ [][Next]_vars

\* The cluster acts and an install goes on; a user who saw it fail tries again when
\* the bound on overlaps lets him.
FairSpec ==
    /\ Spec /\ WF_vars(Cluster)
    /\ \A i \in Installers : WF_vars(Step(i)) /\ SF_vars(Again(i))

-----------------------------------------------------------------------------
(* Properties. *)

TypeOK ==
    /\ root \in Passwords \cup {None} /\ buckets \in BOOLEAN
    /\ dep = None \/ dep \in Deployment
    /\ pod = None \/ pod \in Pod
    /\ job \in Passwords \cup {None, "new", "done"}
    /\ relay \in Relays \cup {None} /\ mdep \in {None, "relay", "capture"}
    /\ mpod \in Relays \cup {None, "capture"} /\ mconn \in Relays \cup {None}
    /\ masCred \in [Providers -> Passwords \cup {None, "rook"}]
    /\ conn \in [Providers -> Passwords \cup {None, "rook"}]
    /\ cfg \in Providers \cup {None} /\ details \subseteq {"s3", "smtp", "relay"}
    /\ state \in [Installers -> {"off", "run", "done", "failed"}]
    /\ \A i \in Installers : req[i] = None \/ req[i] \in Request
    /\ key \in [Installers -> Passwords \cup {None, "rook"}]
    /\ \A i \in Installers : At(i, "masSecret") => key[i] # None
    /\ found \in [Installers -> SUBSET {"s3", "smtp", "relay"}]
    /\ met \in [Installers -> SUBSET {"s3", "mail"}]
    /\ \A s \in {"s3", "mail"} : clean[s] = None \/ clean[s] \in Request
    /\ misread \in BOOLEAN /\ raced \in BOOLEAN
    /\ begun \in 0..MaxInstalls /\ faults \in 0..MaxFaults

\* After an install of MinIO that ended well, alone, its Secrets and pod hold one
\* password, the buckets are there and it answers to bucket host names, whatever
\* earlier installs left half done; until the next install of an S3 store.
S3Agree ==
    LET r == clean["s3"] IN
    r # None => IF r.kind = "minio"
                THEN /\ root # None /\ conn["minio"] = root /\ buckets
                     /\ pod # None => pod.password = root /\ pod.domain
                     /\ r.mas => masCred["minio"] = root /\ cfg = "minio"
                ELSE r.mas => masCred["rook"] = "rook" /\ cfg = "rook"

\* No install, however it fails, locks MAS or users with the connection Secret
\* out of MinIO; unless an error was taken for a missing Secret, or two overlapped.
AccessKept ==
    ~misread /\ ~raced =>
        \A p \in {masCred["minio"], conn["minio"]} \ {None} :
            root = p /\ (pod # None => pod.password = p)

\* After an install of Mailpit that ended well, alone, mail is relayed if and only
\* if that was asked for and users are told so.
MailAgrees ==
    LET r == clean["mail"] IN
    r # None => /\ mconn = r.relay
                /\ mpod # None /\ (mpod = "capture") = (r.relay = None)

\* An install that ended well took effect, in all that was set up for its users.
ServicesAgree == TypeOK /\ S3Agree /\ MailAgrees

\* No install takes the details of another service away, unless they overlapped.
DetailsKept ==
    [][\A k \in details \ details' :
          \E i \in Installers : At(i, "writeDetails") /\ met[i] # {}]_vars

GaveUp(i)  == state[i] = "failed" /\ req[i].kind # "rook"
Settled(i) == state[i] = "done" \/ (req[i] # None /\ req[i].kind = "rook")

\* A user who repeats a failed install of MinIO or Mailpit gets there, or turns to
\* Rook, which nothing here brings up, whatever was left half done; unless an error
\* was taken for a missing Secret, or two overlapped.
RerunSucceeds ==
    \A i \in Installers :
        []~(misread \/ raced) => (GaveUp(i) ~> Settled(i))
=============================================================================
