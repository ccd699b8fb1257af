------------------------------- MODULE MasAuth -------------------------------
(***************************************************************************)
(* mas-auth apply and mas-auth delete: the installer sets up LDAP, OIDC    *)
(* and SAML as login providers of MAS, in Keycloak, in MAS and in Secrets  *)
(* of its own namespace, one call after the other, and nothing undoes a    *)
(* run that stops half way. Several runs, one after the other or at once.  *)
(*                                                                         *)
(* What an object holds is the run that wrote it: the client secret of a   *)
(* run is random, so two objects agree when the same run wrote them.       *)
(***************************************************************************)
EXTENDS Naturals, FiniteSets, Sequences

CONSTANTS
    MaxRuns,     \* bound: runs of apply
    Requests,    \* the provider sets a run may be asked for
    Together,    \* bound: those of runs that may be there at once
    None,        \* an object that is not there
    Absent,      \* a Suite without podTemplates
    MaxFaults    \* bound: failed, lost and killed calls

Runs      == 1..MaxRuns
Providers == {"ldap", "oidc", "saml"}

\* kc: the client in Keycloak; mappers: its attribute mappers; selfreg: a key of
\* the self-registration ConfigMap; cfg, cred, meta: the IDPCfg of MAS, its
\* credentials and its IdP metadata; details, conn: the connection Secrets.
Kinds   == {"kc", "mappers", "selfreg", "cfg", "cred", "meta", "details", "conn"}
Objects == Kinds \X Providers

StepKinds == {"read", "patch", "kc", "mappers", "selfreg", "crd", "cred", "cr", "put", "meta",
              "wait", "details", "conn"}

Templates == {"idpcfg", "other"}

ASSUME MasAuthAssumption ==
    /\ MaxRuns \in Nat \ {0} /\ MaxFaults \in Nat
    /\ Requests \subseteq (SUBSET Providers) \ {{}} /\ Together \subseteq Requests
    /\ None \notin Runs /\ \A S \in SUBSET Templates : Absent # S

VARIABLES
    \* the cluster
    obj,        \* the run that wrote each object, or None
    templates,  \* the podTemplates of the Suite
    hasOIDC,    \* MAS knows OIDC providers (9.1 and later)
    \* the runs of apply
    state, req, todo, seen,
    \* the run of delete
    dstate, dtodo, dreq, dignore, dfailed,
    \* history and bounds
    followed,   \* runs whose work on a provider another run came across
    raced,      \* runs between whose read and patch the Suite got a template
    drefused,   \* deletions MAS refused
    drivals,    \* runs of apply that were there with the delete or came after it
    faults

runVars    == <<state, req, todo, seen>>
deleteVars == <<dstate, dtodo, dreq, dignore, dfailed, drefused>>
vars == <<obj, templates, hasOIDC, runVars, deleteVars, followed, raced, drivals, faults>>

NoRequest == [providers |-> {}, cr |-> FALSE]

Init ==
    /\ obj = [o \in Objects |-> None]
    /\ templates \in {Absent, {}, {"other"}} /\ hasOIDC \in BOOLEAN
    /\ state = [r \in Runs |-> "off"] /\ req = [r \in Runs |-> NoRequest]
    /\ todo = [r \in Runs |-> <<>>] /\ seen = [r \in Runs |-> {}]
    /\ dstate = "off" /\ dtodo = <<>> /\ dreq = {} /\ dignore = FALSE /\ dfailed = FALSE
    /\ followed = [s \in Providers \cup {"selfreg"} |-> {}]
    /\ raced = {} /\ drefused = {} /\ drivals = {} /\ faults = 0

-----------------------------------------------------------------------------
(* The steps of a run, in the order of the code. *)

\* The steps for one provider, if it is asked for.
Only(kinds, p, P) == IF p \in P THEN [i \in 1..Len(kinds) |-> <<kinds[i], p>>] ELSE <<>>

\* One provider after the other.
Each(kinds, P) == Only(kinds, "ldap", P) \o Only(kinds, "oidc", P) \o Only(kinds, "saml", P)
For(kind, P) == Each(<<kind>>, P)

\* The memory of the pod that sets providers up.
MemorySteps == << <<"read", "-">>, <<"patch", "-">> >>

\* One script in the Keycloak pod does the clients. The SAML metadata are read
\* after it: a run that fails at that has done what one has that fails next.
KeycloakSteps(P) ==
    For("kc", P \cap {"oidc"}) \o Each(<<"kc", "mappers">>, P \cap {"saml"})

\* SAML takes two calls, and is waited for after both. Linking the SCIM users
\* follows: it neither stops the run nor touches these objects.
AdminSteps(P) ==
    << <<"selfreg", "-">> >> \o Each(<<"put", "wait">>, P \cap {"ldap", "oidc"})
      \o Each(<<"put", "meta", "wait">>, P \cap {"saml"})

\* With --use-cr-apply.
CRSteps(P) ==
    For("crd", P \cap {"oidc"}) \o Each(<<"cred", "cr">>, P \cap {"ldap", "oidc"})
      \o For("cr", P \cap {"saml"}) \o For("wait", P)

\* Mutant: the Secrets are written before MAS is asked.
StepsEarly(P, cr) ==
    MemorySteps \o KeycloakSteps(P) \o << <<"details", "-">> >> \o For("conn", P)
      \o (IF cr THEN CRSteps(P) ELSE AdminSteps(P))

Steps(P, cr) ==
    MemorySteps \o KeycloakSteps(P) \o (IF cr THEN CRSteps(P) ELSE AdminSteps(P))
      \o << <<"details", "-">> >> \o For("conn", P)

Running(r) == state[r] = "run" /\ todo[r] # <<>>
Step(r)    == Head(todo[r])

\* Mutant: an error of any call to MAS is only a warning.
OptionalAll(s) == s[1] \in {"read", "patch", "put", "meta"}

\* A failure of these is only a warning.
Optional(s) == s[1] \in {"read", "patch"}

\* The objects a step writes besides the ConfigMap.
Written(s, P) ==
    CASE s[1] = "put"     -> {"cfg", "cred"} \X {s[2]}
      [] s[1] = "cr"      -> {<<"cfg", s[2]>>} \cup (IF s[2] = "saml" THEN {<<"meta", "saml">>} ELSE {})
      [] s[1] = "details" -> {"details"} \X P
      [] OTHER            -> {s} \cap Objects

\* The ConfigMap is applied as a whole: keys of other providers go.
SelfReg(r, o) == IF o[1] # "selfreg" THEN obj[o]
                 ELSE IF o[2] \in req[r].providers THEN r ELSE None

\* Mappers that are there stay as they are.
After(r, s) ==
    [o \in Objects |->
        IF s[1] = "selfreg" THEN SelfReg(r, o)
        ELSE IF o \notin Written(s, req[r].providers) THEN obj[o]
        ELSE IF s[1] = "mappers" /\ obj[o] # None THEN obj[o] ELSE r]

\* The others that have begun to work on what this step writes.
Across(r, s) ==
    LET slots == IF s[1] = "selfreg" THEN {"selfreg"}
                 ELSE {o[2] : o \in Written(s, req[r].providers)}
        begun(x) == {q \in Runs \ {r} : state[q] # "off"
                                          /\ (x = "selfreg" \/ x \in req[q].providers)}
    IN  followed' = [x \in Providers \cup {"selfreg"} |->
                        followed[x] \cup (IF x \in slots THEN begun(x) ELSE {})]

Fault == faults < MaxFaults /\ faults' = faults + 1

Next1(r) == todo' = [todo EXCEPT ![r] = Tail(@)]
Stop(r, s) == state' = [state EXCEPT ![r] = s] /\ todo' = [todo EXCEPT ![r] = <<>>]

\* MAS 9.0 has no OIDC providers: 404, or a CRD without spec.oidc.
Missing(s) == s \in {<<"put", "oidc">>, <<"crd", "oidc">>} /\ ~hasOIDC

-----------------------------------------------------------------------------
(* Runs of apply. *)

\* What is being worked on. Bound: two at once, both among Together.
Current == {<<r, req[r].providers>> : r \in {r \in Runs : state[r] = "run"}}
             \cup (IF dstate = "run" THEN {<<0, dreq>>} ELSE {})
MayJoin(P) ==
    \/ Current = {}
    \/ Cardinality(Current) = 1 /\ {P} \cup {c[2] : c \in Current} \subseteq Together

\* Flags, routes and credentials are in order. Runs are numbered as they start.
Start(r) ==
    /\ state[r] = "off" /\ \A q \in 1..(r - 1) : state[q] # "off"
    /\ \E P \in Requests, cr \in BOOLEAN :
          /\ MayJoin(P)
          /\ req' = [req EXCEPT ![r] = [providers |-> P, cr |-> cr]]
          /\ todo' = [todo EXCEPT ![r] = Steps(P, cr)]
    /\ state' = [state EXCEPT ![r] = "run"]
    /\ drivals' = (IF dstate = "off" THEN drivals ELSE drivals \cup {r})
    /\ UNCHANGED <<obj, templates, hasOIDC, seen, deleteVars, followed, raced, faults>>

\* No list is the same as an empty one.
Existing(T) == IF T = Absent THEN {} ELSE T

ReadTemplates(r) ==
    /\ Running(r) /\ Step(r)[1] = "read"
    /\ seen' = [seen EXCEPT ![r] = Existing(templates)]
    /\ Next1(r)
    /\ UNCHANGED <<obj, templates, hasOIDC, state, req, deleteVars, followed, raced, drivals, faults>>

\* Runs between their read and their patch.
Between == {r \in Runs : Running(r) /\ Step(r)[1] = "patch"}

\* Mutant: only the template of this pod is sent.
OwnTemplate(S) == {"idpcfg"}

\* The whole list is sent, with the template of this pod added or replaced.
Patched(S) == S \cup {"idpcfg"}

\* A JSON patch replaces only what is there.
PatchTemplates(r) ==
    /\ Running(r) /\ Step(r)[1] = "patch"
    /\ templates' = (IF templates = Absent THEN Absent ELSE Patched(seen[r]))
    /\ seen' = [seen EXCEPT ![r] = {}]
    /\ raced' = (raced \cup (IF "other" \in Existing(templates') \ Existing(templates)
                            THEN Between ELSE {})) \ {r}
    /\ Next1(r)
    /\ UNCHANGED <<obj, hasOIDC, state, req, deleteVars, followed, drivals, faults>>

StepDone(r) ==
    /\ Running(r) /\ Step(r)[1] \notin {"read", "patch", "wait"} /\ ~Missing(Step(r))
    /\ obj' = After(r, Step(r)) /\ Across(r, Step(r))
    /\ Next1(r)
    /\ UNCHANGED <<templates, hasOIDC, state, req, seen, deleteVars, raced, drivals, faults>>

StepMissing(r) ==
    /\ Running(r) /\ Missing(Step(r))
    /\ Stop(r, "failed")
    /\ UNCHANGED <<obj, templates, hasOIDC, req, seen, deleteVars, followed, raced, drivals, faults>>

\* Refused, or not sent at all; without the read there is no patch.
StepFails(r) ==
    /\ Running(r) /\ Fault
    /\ IF Optional(Step(r))
       THEN /\ todo' = [todo EXCEPT ![r] = IF Step(r)[1] = "read" THEN Tail(Tail(@)) ELSE Tail(@)]
            /\ UNCHANGED state
       ELSE Stop(r, "failed")
    /\ UNCHANGED <<obj, templates, hasOIDC, req, seen, deleteVars, followed, raced, drivals>>

\* Done, but the answer is lost: the run fails.
StepLost(r) ==
    /\ Running(r) /\ ~Optional(Step(r)) /\ Step(r)[1] # "wait" /\ ~Missing(Step(r)) /\ Fault
    /\ obj' = After(r, Step(r)) /\ Across(r, Step(r))
    /\ Stop(r, "failed")
    /\ UNCHANGED <<templates, hasOIDC, req, seen, deleteVars, raced, drivals>>

\* MAS says Ready, at once or at a later poll.
Ready(r) ==
    /\ Running(r) /\ Step(r)[1] = "wait"
    /\ Next1(r)
    /\ UNCHANGED <<obj, templates, hasOIDC, state, req, seen, deleteVars, followed, raced,
                   drivals, faults>>

\* The deadline passes; a provider someone deleted is polled until then.
WaitTimesOut(r) ==
    /\ Running(r) /\ Step(r)[1] = "wait"
    /\ Stop(r, "failed")
    /\ UNCHANGED <<obj, templates, hasOIDC, req, seen, deleteVars, followed, raced, drivals, faults>>

Killed(r) ==
    /\ Running(r) /\ Fault
    /\ Stop(r, "failed")
    /\ UNCHANGED <<obj, templates, hasOIDC, req, seen, deleteVars, followed, raced, drivals>>

RunEnds(r) ==
    /\ state[r] = "run" /\ todo[r] = <<>>
    /\ Stop(r, "done")
    /\ UNCHANGED <<obj, templates, hasOIDC, req, seen, deleteVars, followed, raced, drivals, faults>>

\* An administrator adds a template to the Suite. Bound: only while a run stands
\* between its read and its patch, the only place where it matters.
EditSuite ==
    /\ Between # {}
    /\ LET now == Existing(templates) IN
          "other" \notin now /\ templates' = now \cup {"other"}
    /\ raced' = Between
    /\ UNCHANGED <<obj, hasOIDC, runVars, deleteVars, followed, drivals, faults>>

-----------------------------------------------------------------------------
(* The run of delete. *)

StartDelete ==
    /\ dstate = "off"
    /\ dreq' \in Requests /\ MayJoin(dreq') /\ dignore' \in BOOLEAN
    /\ dtodo' = For("delete", dreq')
    /\ dstate' = "run"
    /\ drivals' = {r \in Runs : state[r] = "run"}
    /\ UNCHANGED <<obj, templates, hasOIDC, runVars, dfailed, drefused, followed, raced, faults>>

Deleting == dstate = "run" /\ dtodo # <<>>
Next2(bad) == dtodo' = Tail(dtodo) /\ dfailed' = (dfailed \/ bad)

\* Keycloak, the ConfigMap and the Secrets are left as they are.
DeleteDone ==
    /\ Deleting
    /\ LET p == Head(dtodo)[2] IN
          /\ obj[<<"cfg", p>>] # None
          /\ obj' = [o \in Objects |-> IF o \in {"cfg", "cred", "meta"} \X {p} THEN None ELSE obj[o]]
          /\ followed' = [followed EXCEPT ![p] = Runs]
    /\ Next2(FALSE)
    /\ UNCHANGED <<templates, hasOIDC, runVars, dstate, dreq, dignore, drefused, raced, drivals, faults>>

\* 404 counts unless --ignore-missing.
DeleteMissing ==
    /\ Deleting /\ obj[<<"cfg", Head(dtodo)[2]>>] = None
    /\ Next2(~dignore)
    /\ UNCHANGED <<obj, templates, hasOIDC, runVars, dstate, dreq, dignore, drefused, followed,
                   raced, drivals, faults>>

\* Mutant: a refusal is printed and forgotten.
Forgiven == Next2(FALSE)

Noted == Next2(TRUE)

\* The others are still deleted.
DeleteRefused ==
    /\ Deleting /\ Fault
    /\ Noted
    /\ drefused' = drefused \cup {Head(dtodo)[2]}
    /\ UNCHANGED <<obj, templates, hasOIDC, runVars, dstate, dreq, dignore, followed, raced, drivals>>

DeleteEnds ==
    /\ dstate = "run" /\ dtodo = <<>>
    /\ dstate' = (IF dfailed THEN "failed" ELSE "done")
    /\ UNCHANGED <<obj, templates, hasOIDC, runVars, dtodo, dreq, dignore, dfailed, drefused,
                   followed, raced, drivals, faults>>

DeleteKilled ==
    /\ Deleting /\ Fault
    /\ dstate' = "killed"
    /\ UNCHANGED <<obj, templates, hasOIDC, runVars, dtodo, dreq, dignore, dfailed, drefused,
                   followed, raced, drivals>>

-----------------------------------------------------------------------------
Apply(r) ==
    \/ Start(r) \/ ReadTemplates(r) \/ PatchTemplates(r) \/ StepDone(r) \/ StepMissing(r)
    \/ StepFails(r) \/ StepLost(r) \/ Ready(r) \/ WaitTimesOut(r) \/ Killed(r) \/ RunEnds(r)

Delete ==
    \/ StartDelete \/ DeleteDone \/ DeleteMissing \/ DeleteRefused \/ DeleteEnds \/ DeleteKilled

Next == EditSuite \/ Delete \/ \E r \in Runs : Apply(r)

Spec == Init /\ [][Next]_vars

-----------------------------------------------------------------------------
(* Properties. *)

TypeOK ==
    /\ obj \in [Objects -> Runs \cup {None}]
    /\ (templates = Absent \/ templates \subseteq Templates) /\ hasOIDC \in BOOLEAN
    /\ state \in [Runs -> {"off", "run", "done", "failed"}]
    /\ req \in [Runs -> [providers: SUBSET Providers, cr: BOOLEAN]]
    /\ todo \in [Runs -> Seq(StepKinds \X (Providers \cup {"-"}))]
    /\ seen \in [Runs -> SUBSET Templates]
    /\ dstate \in {"off", "run", "done", "failed", "killed"}
    /\ dreq \subseteq Providers /\ dignore \in BOOLEAN /\ dfailed \in BOOLEAN
    /\ followed \in [Providers \cup {"selfreg"} -> SUBSET Runs]
    /\ raced \subseteq Runs /\ drefused \subseteq Providers /\ drivals \subseteq Runs
    /\ faults \in 0..MaxFaults

\* What belongs together for one provider.
Parts(p) ==
    {"cfg", "details", "conn"}
      \cup (IF p = "saml" THEN {"meta"} ELSE {"cred"})
      \cup (IF p = "ldap" THEN {} ELSE {"kc"})

\* After a run that ended well, Keycloak, MAS and the connection Secrets hold the
\* values of that run for every provider it was asked for, whatever earlier runs
\* had left half done; until another run or a delete came across it.
AppliedAgree ==
    \A r \in Runs : state[r] = "done" =>
        /\ \A p \in req[r].providers : r \notin followed[p] =>
              /\ \A k \in Parts(p) : obj[<<k, p>>] = r
              /\ p = "saml" => obj[<<"mappers", p>>] # None
        /\ ~req[r].cr /\ r \notin followed["selfreg"] =>
              \A p \in req[r].providers : obj[<<"selfreg", p>>] = r

\* A connection Secret never shows values of a run that MAS has not taken.
ConnectionIsApplied ==
    \A r \in Runs, p \in Providers :
        obj[<<"conn", p>>] = r /\ r \notin followed[p] => obj[<<"cfg", p>>] = r

\* What users read in the connection Secrets is what MAS works with.
ConnectionsSound == TypeOK /\ ConnectionIsApplied

\* A delete that ends without an error has left none of its providers, and one
\* that ends with an error only those MAS refused; except what an apply beside it
\* or after it has made.
DeleteComplete ==
    /\ dstate = "done" => drefused = {}
    /\ dstate \in {"done", "failed"} =>
          \A p \in dreq \ drefused : obj[<<"cfg", p>>] \in drivals \cup {None}

\* The memory bump takes no other template out of the Suite, unless that was
\* put in between its read and its patch.
TemplatesKept ==
    [][templates # Absent /\ "other" \in templates /\ "other" \notin templates' =>
          raced \cap Between # {}]_vars
=============================================================================
