--------------------------- MODULE Services_proofs ---------------------------
(***************************************************************************)
(* Proofs about Services: whatever installs of MinIO, Rook and Mailpit     *)
(* there are, wherever they fail and whatever is repeated, one that ended  *)
(* well alone took effect, none takes the details of another service away, *)
(* and none locks MAS or users out of MinIO.                               *)
(***************************************************************************)
EXTENDS Services, SequenceTheorems, TLAPS

-----------------------------------------------------------------------------
(* Lists of steps: each step comes once, in the order of the code. *)

MinioNames ==
    {"readRoot", "writeRoot", "migrate", "deploy", "rollout", "deleteJob", "startJob",
     "awaitJob", "domain", "reroll", "readKey"}
RookNames == {"store", "awaitStore"}
MailNames == {"relay", "mdeploy", "mrollout"}
MasNames  == {"masSecret", "masCfg", "masReady"}
EndNames  == {"readDetails", "writeDetails", "connection"}
StepNames == MinioNames \cup RookNames \cup MailNames \cup MasNames \cup EndNames

Rank == [s \in StepNames |->
    CASE s = "readRoot" -> 1 [] s = "writeRoot" -> 2 [] s = "migrate" -> 3 [] s = "deploy" -> 4
      [] s = "rollout" -> 5 [] s = "deleteJob" -> 6 [] s = "startJob" -> 7
      [] s = "awaitJob" -> 8 [] s = "domain" -> 9 [] s = "reroll" -> 10 [] s = "readKey" -> 11
      [] s = "store" -> 1 [] s = "awaitStore" -> 2
      [] s = "relay" -> 1 [] s = "mdeploy" -> 2 [] s = "mrollout" -> 3
      [] s = "masSecret" -> 12 [] s = "masCfg" -> 13 [] s = "masReady" -> 14
      [] s = "readDetails" -> 15 [] s = "writeDetails" -> 16 [] s = "connection" -> 17]

Sorted(t) ==
    /\ t \in Seq(StepNames)
    /\ \A m, n \in 1..Len(t) : m < n => Rank[t[m]] < Rank[t[n]]

In(t, s) == \E n \in 1..Len(t) : t[n] = s

\* The steps of an install.
Needed(r) ==
    (IF r.kind = "minio" THEN MinioNames
     ELSE IF r.kind = "rook" THEN RookNames
     ELSE {"mdeploy", "mrollout"} \cup (IF r.relay = None THEN {} ELSE {"relay"}))
    \cup (IF r.kind # "mailpit" /\ r.mas THEN MasNames ELSE {}) \cup EndNames

-----------------------------------------------------------------------------
(* The inductive invariant. *)

Run(i)     == state[i] = "run"
Left(i, s) == In(todo[i], s)

PlanOK(i) ==
    Run(i) => /\ req[i] \in Request /\ Sorted(todo[i])
              /\ todo[i] # <<>> => \A s \in StepNames :
                    Left(i, s) <=> s \in Needed(req[i]) /\ Rank[Head(todo[i])] <= Rank[s]
              /\ At(i, "readRoot") => Tail(todo[i]) # <<>> /\ Head(Tail(todo[i])) = "writeRoot"

\* Installs that run together know of each other.
MetOK ==
    \A i, j \in Installers : i # j /\ Run(i) /\ Run(j) =>
        /\ Service(req[j]) \in met[i]
        /\ ~raced => Service(req[i]) # "s3" \/ Service(req[j]) # "s3"

KeyOK(i) ==
    Run(i) => /\ req[i].kind = "minio" => Left(i, "readKey") \/ key[i] # None
              /\ req[i].kind = "rook" => Left(i, "awaitStore") \/ key[i] = "rook"

\* What an install of MinIO that is alone has done, or has yet to do. The pod it
\* waits for last was not there before it set MINIO_DOMAIN.
MinioOK(i) ==
    Run(i) /\ req[i].kind = "minio" /\ "s3" \notin met[i] =>
        /\ \/ Left(i, "deploy")
           \/ dep # None /\ dep.domain = (IF Left(i, "domain") THEN FALSE ELSE TRUE)
        /\ \/ Left(i, "rollout") \/ pod = None \/ pod.domain = FALSE
           \/ ~Left(i, "domain") /\ pod.password = root
        /\ Left(i, "reroll") \/ pod = None \/ (pod.domain = TRUE /\ pod.password = root)
        /\ Left(i, "awaitJob") \/ buckets
        /\ Left(i, "readKey") \/ (root # None /\ key[i] = root)
        /\ req[i].mas => /\ Left(i, "masSecret") \/ masCred["minio"] = root
                         /\ Left(i, "masCfg") \/ cfg = "minio"
        /\ Left(i, "connection") \/ conn["minio"] = root

RookOK(i) ==
    Run(i) /\ req[i].kind = "rook" /\ "s3" \notin met[i] /\ req[i].mas =>
        /\ Left(i, "masSecret") \/ masCred["rook"] = "rook"
        /\ Left(i, "masCfg") \/ cfg = "rook"

Mode(r) == IF r.relay = None THEN "capture" ELSE "relay"

MailOK(i) ==
    Run(i) /\ req[i].kind = "mailpit" /\ "mail" \notin met[i] =>
        /\ Left(i, "mdeploy") \/ mdep = Mode(req[i])
        /\ Left(i, "mrollout") \/ (mpod # None /\ (mpod = "capture" <=> req[i].relay = None))
        /\ Left(i, "connection") \/ mconn = req[i].relay

\* What lasts until the next install of the service begins.
CleanS3 ==
    LET r == clean["s3"] IN
    r # None => /\ r \in Request /\ r.kind # "mailpit"
                /\ \A i \in Installers : Run(i) => Service(req[i]) # "s3"
                /\ r.kind = "minio" => dep # None /\ dep.domain = TRUE

CleanMail ==
    LET r == clean["mail"] IN
    r # None => /\ r \in Request /\ r.kind = "mailpit" /\ mdep = Mode(r)
                /\ \A i \in Installers : Run(i) => Service(req[i]) # "mail"

\* There has been one password, ever.
OnePassword ==
    ~misread /\ ~raced =>
        /\ pod # None => pod.password = root
        /\ {masCred["minio"], conn["minio"]} \subseteq {None, root}
        /\ \A i \in Installers : Run(i) /\ req[i].kind = "minio" =>
              /\ key[i] \in {None, root}
              /\ At(i, "writeRoot") => root = None

\* Alone, an install has found all the details there are.
FoundOK(i) ==
    Run(i) /\ met[i] = {} =>
        Left(i, "readDetails") \/ ~Left(i, "writeDetails") \/ details \subseteq found[i]

Shape ==
    /\ todo \in [Installers -> Seq(StepNames)]
    /\ req \in [Installers -> Request \cup {None}]
    /\ clean \in [{"s3", "mail"} -> Request \cup {None}]
    /\ \A i \in Installers : state[i] = "failed" => req[i] \in Request
    /\ job = "done" => buckets

IInv ==
    /\ TypeOK /\ Shape /\ MetOK /\ S3Agree /\ CleanS3 /\ MailAgrees /\ CleanMail /\ OnePassword
    /\ \A i \in Installers :
          PlanOK(i) /\ KeyOK(i) /\ MinioOK(i) /\ RookOK(i) /\ MailOK(i) /\ FoundOK(i)

-----------------------------------------------------------------------------
(* The lists. *)

LEMMA RankType ==
    /\ \A s \in StepNames : Rank[s] \in 1..17
    /\ \A s \in StepNames \ {"readRoot", "store", "relay"} : Rank[s] > 1
    /\ \A s \in MasNames : Rank[s] \in 12..14
    /\ \A s \in EndNames : Rank[s] \in 15..17
    /\ \A s \in MinioNames \cup RookNames \cup MailNames : Rank[s] \in 1..11
BY DEF Rank, StepNames, MinioNames, RookNames, MailNames, MasNames, EndNames

LEMMA Ranks ==
    /\ Rank["readRoot"] = 1 /\ Rank["writeRoot"] = 2 /\ Rank["migrate"] = 3 /\ Rank["deploy"] = 4
    /\ Rank["rollout"] = 5 /\ Rank["deleteJob"] = 6 /\ Rank["startJob"] = 7
    /\ Rank["awaitJob"] = 8 /\ Rank["domain"] = 9 /\ Rank["reroll"] = 10 /\ Rank["readKey"] = 11
    /\ Rank["store"] = 1 /\ Rank["awaitStore"] = 2
    /\ Rank["relay"] = 1 /\ Rank["mdeploy"] = 2 /\ Rank["mrollout"] = 3
    /\ Rank["masSecret"] = 12 /\ Rank["masCfg"] = 13 /\ Rank["masReady"] = 14
    /\ Rank["readDetails"] = 15 /\ Rank["writeDetails"] = 16 /\ Rank["connection"] = 17
BY DEF Rank, StepNames, MinioNames, RookNames, MailNames, MasNames, EndNames

LEMMA RankInt == ASSUME NEW s \in StepNames PROVE Rank[s] \in Int
<1>1. Rank[s] \in 1..17
  BY RankType
<1> QED
  BY <1>1

LEMMA SortedEmpty == Sorted(<<>>) /\ \A s : ~In(<<>>, s)
BY DEF Sorted, In

LEMMA SortedTail ==
    ASSUME NEW t, Sorted(t), t # <<>>
    PROVE  /\ Sorted(Tail(t)) /\ Head(t) \in StepNames /\ In(t, Head(t))
           /\ \A s : In(Tail(t), s) <=> In(t, s) /\ s # Head(t)
           /\ \A s : In(t, s) => s \in StepNames /\ Rank[Head(t)] <= Rank[s]
<1> DEFINE u == Tail(t)
<1>1. t \in Seq(StepNames) /\ Len(t) \in Nat \ {0}
  BY EmptySeq DEF Sorted
<1>2. /\ u \in Seq(StepNames) /\ Len(u) = Len(t) - 1 /\ Head(t) = t[1]
      /\ \A i \in 1..Len(u) : u[i] = t[i + 1]
  BY <1>1, HeadTailProperties
<1>3. /\ \A n \in 1..Len(t) : t[n] \in StepNames /\ Rank[t[n]] \in Int
      /\ \A n \in 1..Len(t) : n # 1 => Rank[t[1]] < Rank[t[n]]
  BY <1>1, ElementOfSeq, RankType DEF Sorted
<1> HIDE DEF u
<1>4. Sorted(u)
  <2>1. ASSUME NEW m \in 1..Len(u), NEW n \in 1..Len(u), m < n
        PROVE  Rank[u[m]] < Rank[u[n]]
    <3>1. m + 1 \in 1..Len(t) /\ n + 1 \in 1..Len(t) /\ m + 1 < n + 1
      BY <1>1, <1>2, <2>1
    <3> QED
      BY <1>2, <3>1 DEF Sorted
  <2> QED
    BY <1>2, <2>1 DEF Sorted
<1>5. 1 \in 1..Len(t)
  BY <1>1
<1>6. \A n \in 1..Len(t) : n = 1 \/ (n - 1 \in 1..Len(u) /\ u[n - 1] = t[n])
  BY <1>1, <1>2
<1>7. ASSUME NEW n \in 1..Len(u)
      PROVE  n + 1 \in 1..Len(t) /\ u[n] = t[n + 1] /\ u[n] # t[1]
  <2>1. n + 1 \in 1..Len(t) /\ n + 1 # 1
    BY <1>1, <1>2
  <2>2. Rank[t[1]] < Rank[t[n + 1]] /\ Rank[t[1]] \in Int
    BY <1>3, <1>5, <2>1
  <2> QED
    BY <1>2, <2>1, <2>2
<1>8. \A s : In(u, s) <=> In(t, s) /\ s # t[1]
  BY <1>5, <1>6, <1>7 DEF In
<1>9. \A s : In(t, s) => s \in StepNames /\ Rank[t[1]] <= Rank[s]
  BY <1>3, <1>5 DEF In
<1> QED
  BY <1>2, <1>3, <1>4, <1>5, <1>8, <1>9 DEF u, In

LEMMA Below ==
    ASSUME NEW m \in Int, NEW n \in Int, NEW k \in Int, m < n, n <= k
    PROVE  m < k /\ m <= k /\ m # k
OBVIOUS

\* The next step is what comes after the first.
LEMMA SortedNext ==
    ASSUME NEW t, Sorted(t), t # <<>>, NEW u, u = Tail(t), u # <<>>, NEW x, x = Head(u)
    PROVE  /\ x \in StepNames /\ x # Head(t) /\ In(t, x) /\ Rank[Head(t)] < Rank[x]
           /\ \A s \in StepNames : In(u, s) <=> In(t, s) /\ Rank[x] <= Rank[s]
<1> DEFINE h == Head(t)
<1>1. /\ Sorted(u) /\ h \in StepNames /\ \A s : In(u, s) <=> In(t, s) /\ s # h
      /\ x \in StepNames /\ In(u, x) /\ \A s : In(u, s) => Rank[x] <= Rank[s]
  BY SortedTail
<1>2. PICK n \in 1..Len(t) : t[n] = x
  BY <1>1 DEF In
<1>3. t \in Seq(StepNames) /\ Len(t) \in Nat /\ h = t[1]
  BY HeadTailProperties, LenProperties DEF Sorted
<1> HIDE DEF h
<1>4. 1 \in 1..Len(t) /\ (n # 1 => 1 < n)
  BY <1>2, <1>3
<1>5. x # h /\ In(t, x)
  BY <1>1
<1>6. Rank[h] < Rank[x]
  BY <1>2, <1>3, <1>4, <1>5 DEF Sorted
<1>7. Rank[h] \in Int /\ Rank[x] \in Int
  BY <1>1, RankInt
<1>8. ASSUME NEW s \in StepNames, Rank[x] <= Rank[s] PROVE s # h
  <2>1. Rank[s] \in Int
    BY RankInt
  <2> QED
    BY <1>6, <1>7, <1>8, <2>1, Below
<1> QED
  BY <1>1, <1>5, <1>6, <1>8 DEF h

LEMMA SortedConcat ==
    ASSUME NEW t, NEW u, Sorted(t), Sorted(u),
           \A m \in 1..Len(t), n \in 1..Len(u) : Rank[t[m]] < Rank[u[n]]
    PROVE  Sorted(t \o u) /\ \A s : In(t \o u, s) <=> In(t, s) \/ In(u, s)
<1>1. t \in Seq(StepNames) /\ u \in Seq(StepNames) /\ Len(t) \in Nat /\ Len(u) \in Nat
  BY LenProperties DEF Sorted
<1>2. /\ Len(t \o u) = Len(t) + Len(u) /\ t \o u \in Seq(StepNames)
      /\ \A i \in 1..Len(t) + Len(u) : (t \o u)[i] = IF i <= Len(t) THEN t[i] ELSE u[i - Len(t)]
  BY <1>1, ConcatProperties
<1> DEFINE w == t \o u
<1> HIDE DEF w
<1>3. ASSUME NEW m \in 1..Len(w), NEW n \in 1..Len(w), m < n
      PROVE  Rank[w[m]] < Rank[w[n]]
  <2>1. CASE n <= Len(t)
    <3>1. m \in 1..Len(t) /\ n \in 1..Len(t) /\ w[m] = t[m] /\ w[n] = t[n]
      BY <1>1, <1>2, <1>3, <2>1 DEF w
    <3> QED
      BY <1>3, <3>1 DEF Sorted
  <2>2. CASE m > Len(t)
    <3>1. /\ m - Len(t) \in 1..Len(u) /\ n - Len(t) \in 1..Len(u) /\ m - Len(t) < n - Len(t)
          /\ w[m] = u[m - Len(t)] /\ w[n] = u[n - Len(t)]
      BY <1>1, <1>2, <1>3, <2>2 DEF w
    <3> QED
      BY <3>1 DEF Sorted
  <2>3. CASE m <= Len(t) /\ n > Len(t)
    <3>1. m \in 1..Len(t) /\ n - Len(t) \in 1..Len(u) /\ w[m] = t[m] /\ w[n] = u[n - Len(t)]
      BY <1>1, <1>2, <1>3, <2>3 DEF w
    <3> QED
      BY <3>1
  <2>4. m \in Int /\ n \in Int
    BY <1>1, <1>2 DEF w
  <2> QED
    BY <1>1, <2>1, <2>2, <2>3, <2>4
<1>4. ASSUME NEW s PROVE In(w, s) <=> In(t, s) \/ In(u, s)
  <2>1. ASSUME NEW n \in 1..Len(t) PROVE n \in 1..Len(w) /\ w[n] = t[n]
    BY <1>1, <1>2 DEF w
  <2>2. ASSUME NEW n \in 1..Len(u) PROVE Len(t) + n \in 1..Len(w) /\ w[Len(t) + n] = u[n]
    BY <1>1, <1>2 DEF w
  <2>3. ASSUME NEW n \in 1..Len(w)
        PROVE  (n \in 1..Len(t) /\ w[n] = t[n]) \/ (n - Len(t) \in 1..Len(u) /\ w[n] = u[n - Len(t)])
    BY <1>1, <1>2 DEF w
  <2> QED
    BY <2>1, <2>2, <2>3 DEF In
<1> QED
  BY <1>2, <1>3, <1>4 DEF w, Sorted

LEMMA OneName ==
    ASSUME NEW x \in StepNames
    PROVE  Sorted(<<x>>) /\ \A s : In(<<x>>, s) <=> s = x
BY DEF Sorted, In

\* A name put before a list.
LEMMA SortedCons ==
    ASSUME NEW x \in StepNames, NEW u, Sorted(u), \A s : In(u, s) => Rank[x] < Rank[s]
    PROVE  Sorted(<<x>> \o u) /\ \A s : In(<<x>> \o u, s) <=> s = x \/ In(u, s)
<1>1. Sorted(<<x>>) /\ \A s : In(<<x>>, s) <=> s = x
  BY OneName
<1>2. \A m \in 1..Len(<<x>>), n \in 1..Len(u) : Rank[<<x>>[m]] < Rank[u[n]]
  BY DEF In
<1> QED
  BY <1>1, <1>2, SortedConcat

LEMMA LastList ==
    Sorted(LastSteps) /\ \A s : In(LastSteps, s) <=> s \in EndNames
<1>1. LastSteps \in Seq(StepNames)
  BY DEF LastSteps, StepNames, EndNames
<1>2. \A m, n \in 1..Len(LastSteps) : m < n => Rank[LastSteps[m]] < Rank[LastSteps[n]]
  BY Ranks DEF LastSteps
<1>3. \A s : In(LastSteps, s) <=> s \in EndNames
  BY DEF LastSteps, In, EndNames
<1> QED
  BY <1>1, <1>2, <1>3 DEF Sorted

LEMMA MasList ==
    ASSUME NEW r
    PROVE  Sorted(MasSteps(r)) /\ \A s : In(MasSteps(r), s) <=> r.mas /\ s \in MasNames
<1>1. CASE r.mas
  <2> DEFINE t == <<"masSecret", "masCfg", "masReady">>
  <2>1. t \in Seq(StepNames)
    BY DEF StepNames, MasNames
  <2>2. \A m, n \in 1..Len(t) : m < n => Rank[t[m]] < Rank[t[n]]
    BY Ranks
  <2>3. \A s : In(t, s) <=> s \in MasNames
    BY DEF In, MasNames
  <2>4. MasSteps(r) = t
    BY <1>1 DEF MasSteps
  <2> QED
    BY <1>1, <2>1, <2>2, <2>3, <2>4 DEF Sorted
<1>2. CASE ~r.mas
  BY <1>2, SortedEmpty DEF MasSteps
<1> QED
  BY <1>1, <1>2

\* A list of names below those of the last steps, then the last ones.
LEMMA WithEnd ==
    ASSUME NEW t, Sorted(t), \A s : In(t, s) => Rank[s] <= 14
    PROVE  Sorted(t \o LastSteps) /\ \A s : In(t \o LastSteps, s) <=> In(t, s) \/ s \in EndNames
<1>1. ASSUME NEW m \in 1..Len(t), NEW n \in 1..Len(LastSteps)
      PROVE  Rank[t[m]] < Rank[LastSteps[n]]
  <2>1. In(t, t[m]) /\ In(LastSteps, LastSteps[n])
    BY DEF In
  <2>2. t[m] \in StepNames /\ LastSteps[n] \in EndNames /\ Rank[t[m]] <= 14
    BY <2>1, LastList, ElementOfSeq DEF Sorted
  <2>3. Rank[t[m]] \in Int
    BY <2>2, RankInt
  <2>4. Rank[LastSteps[n]] \in 15..17
    BY <2>2, RankType
  <2> QED
    BY <2>2, <2>3, <2>4
<1> QED
  BY <1>1, LastList, SortedConcat

LEMMA WithMas ==
    ASSUME NEW r, NEW t, Sorted(t), \A s : In(t, s) => Rank[s] <= 11
    PROVE  /\ Sorted((t \o MasSteps(r)) \o LastSteps)
           /\ \A s : In((t \o MasSteps(r)) \o LastSteps, s)
                        <=> In(t, s) \/ (r.mas /\ s \in MasNames) \/ s \in EndNames
<1>1. ASSUME NEW m \in 1..Len(t), NEW n \in 1..Len(MasSteps(r))
      PROVE  Rank[t[m]] < Rank[MasSteps(r)[n]]
  <2>1. In(t, t[m]) /\ In(MasSteps(r), MasSteps(r)[n])
    BY DEF In
  <2>2. t[m] \in StepNames /\ MasSteps(r)[n] \in MasNames /\ Rank[t[m]] <= 11
    BY <2>1, MasList, ElementOfSeq DEF Sorted
  <2>3. Rank[t[m]] \in Int
    BY <2>2, RankInt
  <2>4. Rank[MasSteps(r)[n]] \in 12..14
    BY <2>2, RankType
  <2> QED
    BY <2>2, <2>3, <2>4
<1>2. /\ Sorted(t \o MasSteps(r))
      /\ \A s : In(t \o MasSteps(r), s) <=> In(t, s) \/ (r.mas /\ s \in MasNames)
  BY <1>1, MasList, SortedConcat
<1>3. ASSUME NEW s, In(t \o MasSteps(r), s) PROVE Rank[s] <= 14
  <2>1. In(t, s) => Rank[s] <= 14 /\ s \in StepNames
    <3>1. In(t, s) => s \in StepNames
      BY ElementOfSeq DEF In, Sorted
    <3> QED
      BY <3>1, RankType
  <2> QED
    BY <1>2, <1>3, <2>1, RankType
<1> QED
  BY <1>2, <1>3, WithEnd

MinioList ==
    <<"readRoot", "writeRoot", "migrate", "deploy", "rollout", "deleteJob", "startJob",
      "awaitJob", "domain", "reroll", "readKey">>

LEMMA MinioListSorted ==
    Sorted(MinioList) /\ \A s : In(MinioList, s) <=> s \in MinioNames
<1>1. MinioList \in Seq(StepNames)
  BY DEF MinioList, StepNames, MinioNames
<1>2. \A m, n \in 1..Len(MinioList) : m < n => Rank[MinioList[m]] < Rank[MinioList[n]]
  <2>1. \A m \in 1..11 : Rank[MinioList[m]] = m
    BY Ranks DEF MinioList
  <2>2. Len(MinioList) = 11
    BY DEF MinioList
  <2> QED
    BY <2>1, <2>2
<1>3. \A s : In(MinioList, s) <=> s \in MinioNames
  BY DEF MinioList, In, MinioNames
<1> QED
  BY <1>1, <1>2, <1>3 DEF Sorted

LEMMA StepsList ==
    ASSUME NEW r \in Request
    PROVE  /\ Sorted(Steps(r)) /\ Steps(r) # <<>>
           /\ \A s : In(Steps(r), s) <=> s \in Needed(r)
           /\ Head(Steps(r)) = "readRoot" =>
                 Tail(Steps(r)) # <<>> /\ Head(Tail(Steps(r))) = "writeRoot"
<1>0. /\ r.kind \in {"minio", "rook", "mailpit"}
      /\ Steps(r) = IF r.kind = "minio" THEN MinioSteps(r)
                    ELSE IF r.kind = "rook" THEN RookSteps(r) ELSE MailpitSteps(r)
      /\ r.kind # "mailpit" => r.mas \in BOOLEAN
  BY DEF Request, Steps
<1>1. CASE r.kind = "minio"
  <2>1. Steps(r) = (MinioList \o MasSteps(r)) \o LastSteps
    BY <1>0, <1>1 DEF MinioSteps, MinioList
  <2>2. \A s : In(MinioList, s) => Rank[s] <= 11
    BY MinioListSorted, RankType DEF StepNames
  <2>3. Sorted(Steps(r)) /\ \A s : In(Steps(r), s) <=> s \in Needed(r)
    BY <1>1, <2>1, <2>2, MinioListSorted, WithMas DEF Needed
  <2>4. Steps(r) # <<>> /\ Len(Steps(r)) \in Nat /\ Steps(r) \in Seq(StepNames)
    BY <2>3, EmptySeq, LenProperties DEF Needed, EndNames, In, Sorted
  <2>5. Steps(r)[1] = "readRoot" /\ Steps(r)[2] = "writeRoot" /\ Len(Steps(r)) > 1
    <3>1. /\ MinioList \in Seq(StepNames) /\ MasSteps(r) \in Seq(StepNames)
          /\ LastSteps \in Seq(StepNames)
      BY MinioListSorted, MasList, LastList DEF Sorted
    <3>2. Len(MinioList) = 11 /\ MinioList[1] = "readRoot" /\ MinioList[2] = "writeRoot"
      BY DEF MinioList
    <3> DEFINE v == MinioList \o MasSteps(r)
    <3>3. v \in Seq(StepNames) /\ Len(v) > 1 /\ v[1] = "readRoot" /\ v[2] = "writeRoot"
      <4> HIDE DEF v
      <4>1. Len(MasSteps(r)) \in Nat
        BY <3>1, LenProperties
      <4>2. /\ v \in Seq(StepNames) /\ Len(v) = Len(MinioList) + Len(MasSteps(r))
            /\ \A i \in 1..Len(MinioList) + Len(MasSteps(r)) :
                  v[i] = IF i <= Len(MinioList) THEN MinioList[i]
                         ELSE MasSteps(r)[i - Len(MinioList)]
        BY <3>1, ConcatProperties DEF v
      <4> QED
        BY <3>2, <4>1, <4>2
    <3> HIDE DEF v
    <3>4. Len(v) \in Nat /\ Len(LastSteps) \in Nat
      BY <3>1, <3>3, LenProperties
    <3>5. /\ Len(v \o LastSteps) = Len(v) + Len(LastSteps)
          /\ (v \o LastSteps)[1] = v[1] /\ (v \o LastSteps)[2] = v[2]
      BY <3>1, <3>3, <3>4, ConcatProperties
    <3> QED
      BY <2>1, <3>3, <3>4, <3>5 DEF v
  <2>6. Tail(Steps(r)) # <<>> /\ Head(Tail(Steps(r))) = "writeRoot"
    <3>1. /\ Len(Tail(Steps(r))) = Len(Steps(r)) - 1 /\ Tail(Steps(r)) \in Seq(StepNames)
          /\ \A i \in 1..Len(Tail(Steps(r))) : Tail(Steps(r))[i] = Steps(r)[i + 1]
      BY <2>4, HeadTailProperties
    <3>2. 1 \in 1..Len(Tail(Steps(r))) /\ Tail(Steps(r))[1] = "writeRoot"
      BY <2>4, <2>5, <3>1
    <3>3. Tail(Steps(r)) # <<>>
      BY <2>4, <2>5, <3>1, EmptySeq
    <3>4. Head(Tail(Steps(r))) = Tail(Steps(r))[1]
      BY <3>1, <3>3, HeadTailProperties
    <3> QED
      BY <3>2, <3>3, <3>4
  <2> QED
    BY <2>3, <2>4, <2>6
<1>2. CASE r.kind = "rook"
  <2> DEFINE t == <<"store", "awaitStore">>
  <2>1. Sorted(t) /\ \A s : In(t, s) <=> s \in RookNames
    <3>1. t \in Seq(StepNames)
      BY DEF StepNames, RookNames
    <3>2. \A m, n \in 1..Len(t) : m < n => Rank[t[m]] < Rank[t[n]]
      BY Ranks
    <3>3. \A s : In(t, s) <=> s \in RookNames
      BY DEF In, RookNames
    <3> QED
      BY <3>1, <3>2, <3>3 DEF Sorted
  <2>2. Steps(r) = (t \o MasSteps(r)) \o LastSteps
    BY <1>0, <1>2 DEF RookSteps
  <2> HIDE DEF t
  <2>3. \A s : In(t, s) => Rank[s] <= 11
    BY <2>1, RankType DEF StepNames
  <2>4. Sorted(Steps(r)) /\ \A s : In(Steps(r), s) <=> s \in Needed(r)
    BY <1>2, <2>1, <2>2, <2>3, WithMas DEF Needed
  <2>5. "readRoot" \notin Needed(r)
    BY <1>2 DEF Needed, RookNames, MasNames, EndNames
  <2>6. Steps(r) # <<>>
    BY <2>4, SortedEmpty DEF Needed, EndNames
  <2> QED
    BY <2>4, <2>5, <2>6, SortedTail
<1>3. CASE r.kind = "mailpit"
  <2> DEFINE two == <<"mdeploy", "mrollout">>
             t == (IF r.relay = None THEN <<>> ELSE <<"relay">>) \o two
  <2>1. Sorted(two) /\ \A s : In(two, s) <=> s \in {"mdeploy", "mrollout"}
    <3>1. two \in Seq(StepNames)
      BY DEF StepNames, MailNames
    <3>2. \A m, n \in 1..Len(two) : m < n => Rank[two[m]] < Rank[two[n]]
      BY Ranks
    <3>3. \A s : In(two, s) <=> s \in {"mdeploy", "mrollout"}
      BY DEF In
    <3> QED
      BY <3>1, <3>2, <3>3 DEF Sorted
  <2>2. Steps(r) = t \o LastSteps
    BY <1>0, <1>3 DEF MailpitSteps
  <2> HIDE DEF two
  <2>3. Sorted(t) /\ \A s : In(t, s) <=> \/ s \in {"mdeploy", "mrollout"}
                                         \/ r.relay # None /\ s = "relay"
    <3>1. CASE r.relay = None
      <4>1. t = two
        BY <3>1, <2>1, ConcatEmptySeq DEF Sorted
      <4> QED
        BY <2>1, <3>1, <4>1
    <3>2. CASE r.relay # None
      <4>1. t = <<"relay">> \o two
        BY <3>2
      <4>2. "relay" \in StepNames /\ \A s : In(two, s) => Rank["relay"] < Rank[s]
        BY <2>1, Ranks DEF StepNames, MailNames
      <4> HIDE DEF t
      <4> QED
        BY <2>1, <3>2, <4>1, <4>2, SortedCons
    <3> QED
      BY <3>1, <3>2
  <2> HIDE DEF t
  <2>4. \A s : In(t, s) => Rank[s] <= 14
    BY <2>3, Ranks
  <2>5. Sorted(Steps(r)) /\ \A s : In(Steps(r), s) <=> s \in Needed(r)
    BY <1>3, <2>2, <2>3, <2>4, WithEnd DEF Needed
  <2>6. "readRoot" \notin Needed(r)
    BY <1>3 DEF Needed, EndNames
  <2>7. Steps(r) # <<>>
    BY <2>5, SortedEmpty DEF Needed, EndNames
  <2> QED
    BY <2>5, <2>6, <2>7, SortedTail
<1> QED
  BY <1>0, <1>1, <1>2, <1>3

-----------------------------------------------------------------------------
(* An install goes through its list. *)

LEMMA Position ==
    ASSUME IInv, NEW i \in Installers, NEW h, At(i, h)
    PROVE  /\ Run(i) /\ req[i] \in Request /\ h \in StepNames /\ h \in Needed(req[i])
           /\ Sorted(todo[i]) /\ todo[i] # <<>> /\ Head(todo[i]) = h
           /\ \A s \in StepNames : Left(i, s) <=> s \in Needed(req[i]) /\ Rank[h] <= Rank[s]
<1>1. PlanOK(i)
  BY DEF IInv
<1>2. /\ Run(i) /\ req[i] \in Request /\ Sorted(todo[i]) /\ todo[i] # <<>> /\ Head(todo[i]) = h
      /\ \A s \in StepNames : Left(i, s) <=> s \in Needed(req[i]) /\ Rank[h] <= Rank[s]
  BY <1>1 DEF PlanOK, At, Running, Run
<1>3. h \in StepNames /\ Left(i, h)
  BY <1>2, SortedTail DEF Left
<1> QED
  BY <1>2, <1>3

\* It has done the step h, or has failed.
Advance(i, h) ==
    /\ \A j \in Installers \ {i} : state'[j] = state[j] /\ todo'[j] = todo[j]
    /\ state'[i] \in {"run", "failed"}
    /\ Run(i)' => \A s : s # "writeRoot" \/ h # "readRoot" => (Left(i, s)' <=> Left(i, s) /\ s # h)

PlansOK ==
    /\ todo \in [Installers -> Seq(StepNames)]
    /\ state \in [Installers -> {"off", "run", "done", "failed"}]
    /\ \A i \in Installers : PlanOK(i)
    /\ \A i \in Installers : state[i] = "failed" => req[i] \in Request

LEMMA TypedPlans == ASSUME IInv PROVE PlansOK
BY DEF IInv, Shape, TypeOK, PlansOK

LEMMA StopsAdvance ==
    ASSUME IInv, NEW i \in Installers, NEW h, At(i, h), Stops(i), UNCHANGED req
    PROVE  Advance(i, h) /\ PlansOK' /\ ~Run(i)'
<1>1. PlansOK
  BY TypedPlans
<1>2. /\ state'[i] = "failed" /\ todo' \in [Installers -> Seq(StepNames)]
      /\ state' \in [Installers -> {"off", "run", "done", "failed"}]
      /\ \A j \in Installers \ {i} : state'[j] = state[j] /\ todo'[j] = todo[j]
  BY <1>1, EmptySeq DEF PlansOK, Stops
<1>3. \A j \in Installers \ {i} : PlanOK(j)'
  BY <1>1, <1>2 DEF PlansOK, PlanOK, Run, Left, At, Running
<1>4. PlanOK(i)' /\ ~Run(i)'
  BY <1>2 DEF PlanOK, Run
<1>5. req'[i] \in Request
  BY Position
<1> QED
  BY <1>1, <1>2, <1>3, <1>4, <1>5 DEF PlansOK, Advance

LEMMA TailAdvances ==
    ASSUME IInv, NEW i \in Installers, NEW h, At(i, h),
           todo' = [todo EXCEPT ![i] = Tail(@)], UNCHANGED <<state, req>>
    PROVE  /\ Advance(i, h) /\ PlansOK' /\ Run(i)'
           /\ \A s : Left(i, s)' <=> Left(i, s) /\ s # h
<1>1. PlansOK /\ Sorted(todo[i]) /\ todo[i] # <<>> /\ Head(todo[i]) = h /\ Run(i)
      /\ req[i] \in Request /\ h \in StepNames
      /\ \A s \in StepNames : Left(i, s) <=> s \in Needed(req[i]) /\ Rank[h] <= Rank[s]
  BY TypedPlans, Position
<1> DEFINE u == Tail(todo[i])
<1>2. /\ todo'[i] = u /\ \A j \in Installers \ {i} : todo'[j] = todo[j]
  BY <1>1 DEF PlansOK
<1>3. Sorted(u) /\ \A s : In(u, s) <=> In(todo[i], s) /\ s # h
  BY <1>1, SortedTail
<1>4. \A s : Left(i, s)' <=> Left(i, s) /\ s # h
  BY <1>2, <1>3 DEF Left
<1> HIDE DEF u
<1>5. ASSUME u # <<>>
      PROVE  /\ \A s \in StepNames :
                   In(u, s) <=> s \in Needed(req[i]) /\ Rank[Head(u)] <= Rank[s]
             /\ Head(u) # "readRoot"
  <2> DEFINE x == Head(u)
  <2> HIDE DEF x
  <2>1. /\ x \in StepNames /\ Rank[h] < Rank[x]
        /\ \A s \in StepNames : In(u, s) <=> In(todo[i], s) /\ Rank[x] <= Rank[s]
    BY <1>1, <1>5, SortedNext DEF u, x
  <2>2. Rank[h] \in Int /\ Rank[x] \in Int
    BY <1>1, <2>1, RankInt
  <2>3. ASSUME NEW s \in StepNames
        PROVE  In(u, s) <=> s \in Needed(req[i]) /\ Rank[x] <= Rank[s]
    <3>1. Rank[s] \in Int
      BY RankInt
    <3>2. Rank[x] <= Rank[s] => Rank[h] <= Rank[s]
      BY <2>1, <2>2, <3>1, Below
    <3> QED
      BY <1>1, <2>1, <3>2 DEF Left
  <2>4. x # "readRoot"
    <3>1. Rank[h] \in 1..17
      BY <1>1, RankType
    <3>2. Rank[x] > 1
      BY <2>1, <2>2, <3>1
    <3> QED
      BY <3>2, Ranks
  <2> QED
    BY <2>3, <2>4 DEF x
<1>6. PlanOK(i)'
  BY <1>1, <1>2, <1>3, <1>5 DEF PlanOK, Run, At, Running, Left
<1>7. \A j \in Installers \ {i} : PlanOK(j)'
  BY <1>1, <1>2 DEF PlansOK, PlanOK, Run, Left, At, Running
<1>8. todo' \in [Installers -> Seq(StepNames)]
  BY <1>1, <1>3 DEF PlansOK, Sorted, u
<1> QED
  BY <1>1, <1>2, <1>4, <1>6, <1>7, <1>8 DEF PlansOK, Advance, Run

\* With a root secret, writing one is left out.
LEMMA KeepAdvances ==
    ASSUME IInv, NEW i \in Installers, At(i, "readRoot"),
           todo' = [todo EXCEPT ![i] = Tail(Tail(@))], UNCHANGED <<state, req>>
    PROVE  Advance(i, "readRoot") /\ PlansOK' /\ Run(i)' /\ ~At(i, "writeRoot")'
<1>1. PlansOK /\ Sorted(todo[i]) /\ todo[i] # <<>> /\ Head(todo[i]) = "readRoot" /\ Run(i)
      /\ req[i] \in Request
      /\ \A s \in StepNames : Left(i, s) <=> s \in Needed(req[i]) /\ Rank["readRoot"] <= Rank[s]
  BY TypedPlans, Position
<1> DEFINE u == Tail(todo[i])
           w == Tail(u)
<1>2. u # <<>> /\ Head(u) = "writeRoot"
  BY <1>1 DEF PlansOK, PlanOK
<1>3. todo'[i] = w /\ \A j \in Installers \ {i} : todo'[j] = todo[j]
  BY <1>1 DEF PlansOK
<1>4. Sorted(u) /\ \A s : In(u, s) <=> In(todo[i], s) /\ s # "readRoot"
  BY <1>1, SortedTail
<1> HIDE DEF u
<1>5. Sorted(w) /\ \A s : In(w, s) <=> In(u, s) /\ s # "writeRoot"
  BY <1>2, <1>4, SortedTail
<1> HIDE DEF w
<1>6. \A s : In(w, s) <=> In(todo[i], s) /\ s \notin {"readRoot", "writeRoot"}
  BY <1>4, <1>5
<1>12. ASSUME w # <<>>
       PROVE  \A s \in StepNames : In(w, s) <=> In(todo[i], s) /\ Rank[Head(w)] <= Rank[s]
  <2>1. /\ Rank["writeRoot"] < Rank[Head(w)] /\ Head(w) \in StepNames
        /\ \A s \in StepNames : In(w, s) <=> In(u, s) /\ Rank[Head(w)] <= Rank[s]
    BY <1>2, <1>4, <1>12, SortedNext DEF w
  <2>2. Rank[Head(w)] \in Int
    BY <2>1, RankInt
  <2>3. ~(Rank[Head(w)] <= Rank["readRoot"])
    BY <2>1, <2>2, Ranks
  <2> QED
    BY <1>4, <2>1, <2>3
<1>7. ASSUME w # <<>>
      PROVE  /\ \A s \in StepNames : In(w, s) <=> s \in Needed(req[i]) /\ Rank[Head(w)] <= Rank[s]
             /\ Head(w) \notin {"readRoot", "writeRoot"}
  <2>1. Head(w) \in StepNames /\ In(w, Head(w))
    BY <1>5, <1>7, SortedTail
  <2>2. Head(w) \notin {"readRoot", "writeRoot"}
    BY <1>6, <2>1
  <2>3. Rank[Head(w)] \in 1..17 /\ Rank["readRoot"] = 1
    BY <2>1, RankType, Ranks
  <2>4. ASSUME NEW s \in StepNames, Rank[Head(w)] <= Rank[s] PROVE Rank["readRoot"] <= Rank[s]
    <3>1. Rank[s] \in 1..17
      BY RankType
    <3> QED
      BY <2>3, <3>1
  <2> QED
    BY <1>1, <1>7, <1>12, <2>2, <2>4 DEF Left
<1>8. PlanOK(i)' /\ ~At(i, "writeRoot")'
  BY <1>1, <1>3, <1>5, <1>7 DEF PlanOK, Run, Left, At, Running
<1>9. \A j \in Installers \ {i} : PlanOK(j)'
  BY <1>1, <1>3 DEF PlansOK, PlanOK, Run, Left, At, Running
<1>10. todo' \in [Installers -> Seq(StepNames)]
  BY <1>1, <1>3, <1>5 DEF PlansOK, Sorted
<1>11. Advance(i, "readRoot")
  BY <1>1, <1>3, <1>6 DEF Advance, Run, Left
<1> QED
  BY <1>1, <1>8, <1>9, <1>10, <1>11 DEF PlansOK, Run

-----------------------------------------------------------------------------
(* What a step of an install leaves alone. *)

USE ServicesAssumption DEF ServicesAssumption

LEMMA FaultCounts == ASSUME IInv, Fault \/ UNCHANGED faults PROVE faults' \in 0..MaxFaults
<1>1. faults \in 0..MaxFaults /\ MaxFaults \in Nat
  BY DEF IInv, TypeOK
<1> QED
  BY <1>1 DEF Fault

\* A call that was made, or a step that waits or reads.
LEMMA DoneAdvances ==
    ASSUME IInv, NEW i \in Installers, NEW h, At(i, h), Goes(i) \/ (Stops(i) /\ Fault), UNCHANGED req
    PROVE  Advance(i, h) /\ PlansOK' /\ faults' \in 0..MaxFaults
<1>1. CASE Goes(i)
  BY <1>1, TailAdvances, FaultCounts DEF Goes
<1>2. CASE Stops(i) /\ Fault
  BY <1>2, StopsAdvance, FaultCounts
<1> QED
  BY <1>1, <1>2

\* The calls that change the cluster, each with what it changes.
S3Call(i) ==
    \/ WriteRoot(i) \/ Deploy(i) \/ DeleteJob(i) \/ StartJob(i) \/ Store(i)
    \/ MasSecret(i) \/ MasCfg(i)
MailCall(i) == Relay(i) \/ MDeploy(i)
Call(i) == S3Call(i) \/ MailCall(i) \/ WriteDetails(i) \/ Connection(i)

S3Wait(i) ==
    \/ RootMissing(i) /\ NeedRoot(i) /\ UNCHANGED faults
    \/ Rollout(i) \/ AwaitJob(i) \/ ReadKey(i) \/ AwaitStore(i) \/ MasReady(i)
Wait(i) == S3Wait(i) \/ MRollout(i) \/ ReadDetails(i)

S3Vars   == <<root, dep, pod, buckets, masCred, cfg, conn>>
MailKept == <<mdep, mpod, mconn>>

AtS3(i)   == \E h \in MinioNames \cup RookNames \cup MasNames : At(i, h)
AtMail(i) == \E h \in MailNames : At(i, h)

LEMMA Places ==
    ASSUME IInv, NEW i \in Installers
    PROVE  /\ AtS3(i) => Run(i) /\ req[i] \in Request /\ Service(req[i]) = "s3"
           /\ AtMail(i) => Run(i) /\ req[i] \in Request /\ Service(req[i]) = "mail"
<1>1. ASSUME NEW h, At(i, h)
      PROVE  Run(i) /\ req[i] \in Request /\ h \in Needed(req[i])
  BY <1>1, Position
<1>2. ASSUME NEW h \in MinioNames \cup RookNames \cup MasNames, h \in Needed(req[i])
      PROVE  Service(req[i]) = "s3"
  BY <1>2 DEF Needed, Service, MinioNames, RookNames, MasNames, EndNames
<1>3. ASSUME NEW h \in MailNames, h \in Needed(req[i]), req[i] \in Request
      PROVE  Service(req[i]) = "mail"
  BY <1>3 DEF Needed, Service, MinioNames, RookNames, MasNames, EndNames, MailNames, Request
<1> QED
  BY <1>1, <1>2, <1>3 DEF AtS3, AtMail

LEMMA CallPlaces ==
    ASSUME NEW i \in Installers
    PROVE  /\ S3Call(i) \/ S3Wait(i) \/ KeepRoot(i) \/ NeedRoot(i) \/ Migrate(i) => AtS3(i)
           /\ MailCall(i) \/ MRollout(i) => AtMail(i)
BY DEF AtS3, AtMail, MinioNames, RookNames, MasNames, MailNames, S3Call, MailCall, S3Wait, KeepRoot,
   NeedRoot, Migrate, WriteRoot, Deploy, DeleteJob, StartJob, Store, MasSecret, MasCfg, Relay,
   MDeploy, MRollout, Rollout, AwaitJob, ReadKey, AwaitStore, MasReady, RootMissing

LEMMA CallDone ==
    ASSUME NEW i \in Installers, Call(i)
    PROVE  Done(i) /\ \E h : At(i, h)
BY DEF Call, S3Call, MailCall, WriteRoot, Deploy, DeleteJob, StartJob, Store, MasSecret, MasCfg,
   Relay, MDeploy, WriteDetails, Connection

LEMMA WaitGoes ==
    ASSUME NEW i \in Installers, Wait(i)
    PROVE  /\ Goes(i) /\ UNCHANGED <<minioVars, mailVars, masVars, history>> /\ \E h : At(i, h)
           /\ UNCHANGED key \/ \E k : key' = [key EXCEPT ![i] = k]
           /\ UNCHANGED found \/ \E f : found' = [found EXCEPT ![i] = f]
BY DEF Wait, S3Wait, NeedRoot, Rollout, AwaitJob, ReadKey, AwaitStore, MasReady, MRollout,
   ReadDetails, Waited, RootMissing, Goes

\* The steps that neither call nor wait.
LEMMA OtherSteps ==
    ASSUME NEW i \in Installers, Step(i), ~Ends(i)
    PROVE  Call(i) \/ Wait(i) \/ KeepRoot(i) \/ NeedRoot(i) \/ Migrate(i) \/ Fails(i)
BY DEF Step, Call, S3Call, MailCall, Wait, S3Wait

LEMMA Moving ==
    ASSUME IInv, NEW i \in Installers, Step(i), ~Ends(i)
    PROVE  /\ Run(i) /\ req[i] \in Request /\ PlansOK' /\ faults' \in 0..MaxFaults
           /\ \E h : At(i, h) /\ Advance(i, h)
           /\ UNCHANGED <<req, met, clean, raced, begun>>
           /\ \A j \in Installers \ {i} : key'[j] = key[j] /\ found'[j] = found[j]
<1>1. /\ key \in [Installers -> Passwords \cup {None, "rook"}]
      /\ found \in [Installers -> SUBSET {"s3", "smtp", "relay"}]
  BY DEF IInv, TypeOK
<1>2. CASE Call(i)
  <2>1. Done(i) /\ \E h : At(i, h)
    BY <1>2, CallDone
  <2>2. PICK h : At(i, h)
    BY <2>1
  <2>3. Advance(i, h) /\ PlansOK' /\ faults' \in 0..MaxFaults
    BY <2>1, <2>2, DoneAdvances DEF Done, history
  <2> QED
    BY <2>1, <2>2, <2>3, Position DEF Done, history
<1>3. CASE Wait(i)
  <2>1. /\ Goes(i) /\ UNCHANGED <<minioVars, mailVars, masVars, history>> /\ \E h : At(i, h)
        /\ UNCHANGED key \/ \E k : key' = [key EXCEPT ![i] = k]
        /\ UNCHANGED found \/ \E f : found' = [found EXCEPT ![i] = f]
    BY <1>3, WaitGoes
  <2>2. PICK h : At(i, h)
    BY <2>1
  <2>3. Advance(i, h) /\ PlansOK' /\ faults' \in 0..MaxFaults
    BY <2>1, <2>2, DoneAdvances DEF history
  <2> QED
    BY <1>1, <2>1, <2>2, <2>3, Position DEF history
<1>4. CASE KeepRoot(i)
  <2>1. Advance(i, "readRoot") /\ PlansOK' /\ At(i, "readRoot")
    BY <1>4, KeepAdvances DEF KeepRoot, history
  <2> QED
    BY <1>4, <2>1, Position, FaultCounts DEF KeepRoot, history
<1>5. CASE NeedRoot(i) /\ ~Wait(i)
  <2>1. /\ At(i, "readRoot") /\ todo' = [todo EXCEPT ![i] = Tail(@)] /\ Fault
        /\ UNCHANGED <<state, key, found, req, met, clean, raced, begun>>
    BY <1>5 DEF NeedRoot, Wait, S3Wait, Waited, Goes, RootMissing
  <2> QED
    BY <2>1, TailAdvances, Position, FaultCounts
<1>6. CASE Migrate(i)
  <2>1. At(i, "migrate")
    BY <1>6 DEF Migrate
  <2>2. CASE Done(i)
    BY <2>1, <2>2, DoneAdvances, Position DEF Done, history
  <2>3. CASE ~Done(i)
    <3>1. Fault /\ todo' = [todo EXCEPT ![i] = Tail(@)] /\ UNCHANGED <<state, key, found, history>>
      BY <1>6, <2>3 DEF Migrate
    <3> QED
      BY <2>1, <3>1, TailAdvances, Position, FaultCounts DEF history
  <2> QED
    BY <2>2, <2>3
<1>7. CASE Fails(i)
  <2>1. /\ Running(i) /\ Stops(i) /\ (Fault \/ UNCHANGED faults)
        /\ UNCHANGED <<key, found, history>>
    BY <1>7 DEF Fails
  <2>2. At(i, Head(todo[i]))
    BY <2>1 DEF At
  <2> QED
    BY <2>1, <2>2, StopsAdvance, Position, FaultCounts DEF history
<1> QED
  BY <1>2, <1>3, <1>4, <1>5, <1>6, <1>7, OtherSteps

LEMMA Touches ==
    ASSUME IInv, NEW i \in Installers, Step(i), ~Ends(i)
    PROVE  /\ Service(req[i]) = "mail" =>
                 UNCHANGED <<S3Vars, job>> /\ UNCHANGED <<misread>> /\ ~AtS3(i)
           /\ Service(req[i]) = "s3" => UNCHANGED MailKept /\ UNCHANGED relay /\ ~AtMail(i)
           /\ Service(req[i]) \in {"s3", "mail"}
<1>1. Service(req[i]) \in {"s3", "mail"}
  BY DEF Service
<1>2. ASSUME Service(req[i]) = "mail" PROVE UNCHANGED <<S3Vars, job>> /\ UNCHANGED misread /\ ~AtS3(i)
  <2>1. ~AtS3(i)
    BY <1>2, Places
  <2>2. Wait(i) \/ Fails(i) \/ MailCall(i) \/ WriteDetails(i) \/ Connection(i)
    BY <2>1, CallPlaces, OtherSteps DEF Call
  <2>3. req[i].kind = "mailpit"
    BY <1>2 DEF Service
  <2>4. CASE Wait(i)
    BY <2>1, <2>4, WaitGoes DEF minioVars, masVars, history, S3Vars
  <2>5. CASE Fails(i)
    BY <2>1, <2>5 DEF Fails, minioVars, masVars, history, S3Vars
  <2>6. CASE MailCall(i) \/ WriteDetails(i) \/ Connection(i)
    BY <2>1, <2>3, <2>6 DEF MailCall, Relay, MDeploy, WriteDetails, Connection, Done, minioVars,
       masVars, history, S3Vars
  <2> QED
    BY <2>2, <2>4, <2>5, <2>6
<1>3. ASSUME Service(req[i]) = "s3" PROVE UNCHANGED MailKept /\ UNCHANGED relay /\ ~AtMail(i)
  <2>1. ~AtMail(i)
    BY <1>3, Places
  <2>2. ~MailCall(i) /\ ~MRollout(i)
    BY <2>1, CallPlaces
  <2>3. req[i].kind # "mailpit"
    BY <1>3 DEF Service
  <2>4. CASE Wait(i)
    BY <2>1, <2>4, WaitGoes DEF mailVars, masVars, MailKept
  <2>5. CASE Fails(i) \/ KeepRoot(i) \/ NeedRoot(i) \/ Migrate(i)
    BY <2>1, <2>5 DEF Fails, KeepRoot, NeedRoot, Migrate, Waited, mailVars, masVars, MailKept
  <2>6. CASE S3Call(i) \/ WriteDetails(i) \/ Connection(i)
    BY <2>1, <2>3, <2>6 DEF S3Call, WriteRoot, Deploy, DeleteJob, StartJob, Store, MasSecret,
       MasCfg, WriteDetails, Connection, mailVars, masVars, MailKept
  <2> QED
    BY <2>2, <2>4, <2>5, <2>6, OtherSteps DEF Call
<1> QED
  BY <1>1, <1>2, <1>3

\* A step that goes well is the one whose turn it is.
LEMMA AtStep ==
    ASSUME IInv, NEW i \in Installers, Step(i), ~Ends(i), Run(i)'
    PROVE  /\ At(i, "readKey") => ReadKey(i)
           /\ At(i, "awaitStore") => AwaitStore(i)
           /\ At(i, "masSecret") => MasSecret(i)
           /\ At(i, "masCfg") => MasCfg(i)
           /\ At(i, "readDetails") => ReadDetails(i)
           /\ At(i, "readRoot") => KeepRoot(i) \/ NeedRoot(i)
<1>1. ~Fails(i)
  <2>1. ASSUME Fails(i) PROVE FALSE
    <3>1. Running(i) /\ Stops(i) /\ UNCHANGED req
      BY <2>1 DEF Fails, history
    <3>2. At(i, Head(todo[i]))
      BY <3>1 DEF At
    <3> QED
      BY <3>1, <3>2, StopsAdvance
  <2> QED
    BY <2>1
<1>2. PICK h : At(i, h)
  BY Moving
<1>3. \A g : At(i, g) => g = h
  BY <1>2 DEF At
<1>4. CASE Call(i)
  BY <1>3, <1>4 DEF Call, S3Call, MailCall, WriteRoot, Deploy, DeleteJob, StartJob, Store,
     MasSecret, MasCfg, Relay, MDeploy, WriteDetails, Connection
<1>5. CASE Wait(i)
  BY <1>3, <1>5 DEF Wait, S3Wait, Rollout, AwaitJob, ReadKey, AwaitStore, MasReady, MRollout,
     ReadDetails, RootMissing
<1>6. CASE KeepRoot(i) \/ NeedRoot(i) \/ Migrate(i)
  BY <1>3, <1>6 DEF KeepRoot, NeedRoot, Migrate, RootMissing
<1> QED
  BY <1>1, <1>4, <1>5, <1>6, OtherSteps

-----------------------------------------------------------------------------
(* S3: the steps of installs. *)

LEMMA MinioPos ==
    ASSUME IInv, NEW i \in Installers, NEW h, At(i, h), req[i].kind = "minio"
    PROVE  /\ h \in MinioNames \cup MasNames \cup EndNames
           /\ Left(i, "deploy") <=> Rank[h] <= 4
           /\ Left(i, "rollout") <=> Rank[h] <= 5
           /\ Left(i, "awaitJob") <=> Rank[h] <= 8
           /\ Left(i, "domain") <=> Rank[h] <= 9
           /\ Left(i, "reroll") <=> Rank[h] <= 10
           /\ Left(i, "readKey") <=> Rank[h] <= 11
           /\ req[i].mas => /\ Left(i, "masSecret") <=> Rank[h] <= 12
                            /\ Left(i, "masCfg") <=> Rank[h] <= 13
           /\ Left(i, "connection") <=> Rank[h] <= 17
           /\ Left(i, "writeRoot") <=> Rank[h] <= 2
<1>1. /\ h \in Needed(req[i]) /\ h \in StepNames
      /\ \A s \in StepNames : Left(i, s) <=> s \in Needed(req[i]) /\ Rank[h] <= Rank[s]
  BY Position
<1>2. /\ {"deploy", "rollout", "awaitJob", "domain", "reroll", "readKey", "connection", "writeRoot"}
           \subseteq StepNames \cap Needed(req[i])
      /\ {"masSecret", "masCfg"} \subseteq StepNames
      /\ req[i].mas => {"masSecret", "masCfg"} \subseteq Needed(req[i])
      /\ Needed(req[i]) \subseteq MinioNames \cup MasNames \cup EndNames
  BY DEF StepNames, Needed, MinioNames, MasNames, EndNames
<1> QED
  BY <1>1, <1>2, Ranks

\* What is still to do after a step that went well.
LEMMA MinioAfter ==
    ASSUME IInv, NEW i \in Installers, NEW h, At(i, h), Advance(i, h), Run(i)',
           req[i].kind = "minio"
    PROVE  \A s \in {"deploy", "rollout", "awaitJob", "domain", "reroll", "readKey", "masSecret",
                      "masCfg", "connection"} : Left(i, s)' <=> Left(i, s) /\ s # h
BY DEF Advance

LEMMA MinioQuiet ==
    ASSUME IInv, NEW i \in Installers, NEW h, At(i, h), Advance(i, h),
           UNCHANGED <<req, met>>, UNCHANGED <<root, pod, buckets, masCred, cfg, conn>>,
           key'[i] = key[i], dep' = dep \/ (dep # None /\ dep' # None /\ dep'.domain = dep.domain),
           h \notin {"deploy", "rollout", "awaitJob", "domain", "reroll", "readKey", "masSecret",
                      "masCfg", "connection"}
    PROVE  MinioOK(i)'
<1> SUFFICES ASSUME Run(i)', req[i].kind = "minio", "s3" \notin met[i] PROVE MinioOK(i)'
  BY DEF MinioOK
<1>1. \A s \in {"deploy", "rollout", "awaitJob", "domain", "reroll", "readKey", "masSecret",
                 "masCfg", "connection"} : Left(i, s)' <=> Left(i, s)
  BY MinioAfter
<1>2. MinioOK(i) /\ Run(i)
  BY Position DEF IInv
<1> QED
  BY <1>1, <1>2 DEF MinioOK

\* Facts about an install of MinIO that is alone.
LEMMA DeploymentIs ==
    ASSUME NEW s \in {"RollingUpdate", "Recreate"}, NEW d \in BOOLEAN
    PROVE  /\ [strategy |-> s, domain |-> d] \in Deployment
           /\ [strategy |-> s, domain |-> d] # None
BY DEF Deployment

LEMMA MigratedIs ==
    ASSUME NEW d \in Deployment
    PROVE  Migrated(d) \in Deployment /\ Migrated(d) # None /\ Migrated(d).domain = d.domain
<1>1. Migrated(d) \in Deployment /\ Migrated(d).domain = d.domain
  BY DEF Migrated, Deployment
<1> QED
  BY <1>1

LEMMA S3Types ==
    ASSUME IInv
    PROVE  /\ dep = None \/ dep.domain \in BOOLEAN
           /\ pod = None \/ pod.domain \in BOOLEAN
           /\ key \in [Installers -> Passwords \cup {None, "rook"}]
           /\ masCred \in [Providers -> Passwords \cup {None, "rook"}]
           /\ conn \in [Providers -> Passwords \cup {None, "rook"}]
           /\ job = "done" => buckets
<1>1. TypeOK /\ (job = "done" => buckets)
  BY DEF IInv, Shape
<1>2. dep = None \/ dep.domain \in BOOLEAN
  BY <1>1 DEF TypeOK, Deployment
<1>3. pod = None \/ pod.domain \in BOOLEAN
  BY <1>1 DEF TypeOK, Pod
<1> QED
  BY <1>1, <1>2, <1>3 DEF TypeOK

LEMMA MinioMoves ==
    ASSUME IInv, NEW i \in Installers, Step(i), ~Ends(i)
    PROVE  MinioOK(i)'
<1> SUFFICES ASSUME Run(i)', req[i].kind = "minio", "s3" \notin met[i] PROVE MinioOK(i)'
  BY Moving DEF MinioOK
<1>1. PICK h : At(i, h) /\ Advance(i, h)
  BY Moving
<1>2. /\ UNCHANGED <<req, met>> /\ MinioOK(i) /\ Run(i) /\ Service(req[i]) = "s3"
  BY Moving DEF IInv, Service
<1>3. /\ \A s \in {"deploy", "rollout", "awaitJob", "domain", "reroll", "readKey", "masSecret",
                    "masCfg", "connection"} : Left(i, s)' <=> Left(i, s) /\ s # h
  BY <1>1, MinioAfter
<1>4. \A g : At(i, g) => g = h
  BY <1>1 DEF At
<1>5. CASE KeepRoot(i) \/ NeedRoot(i) \/ Migrate(i) \/ DeleteJob(i) \/ StartJob(i) \/ MasReady(i)
           \/ ReadDetails(i) \/ WriteDetails(i)
  <2>1. h \in {"readRoot", "migrate", "deleteJob", "startJob", "masReady", "readDetails",
               "writeDetails"}
    BY <1>4, <1>5 DEF KeepRoot, NeedRoot, RootMissing, Migrate, DeleteJob, StartJob, MasReady,
       ReadDetails, WriteDetails
  <2>2. UNCHANGED <<root, pod, buckets, masCred, cfg, conn, key>>
    BY <1>5 DEF KeepRoot, NeedRoot, Migrate, DeleteJob, StartJob, MasReady, ReadDetails,
       WriteDetails, Waited, Done, minioVars, masVars
  <2>3. dep' = dep \/ (dep # None /\ dep' # None /\ dep'.domain = dep.domain)
    <3>1. CASE Migrate(i)
      <4>1. dep = None \/ dep \in Deployment
        BY DEF IInv, TypeOK
      <4> QED
        BY <3>1, <4>1, MigratedIs DEF Migrate
    <3>2. CASE ~Migrate(i)
      BY <1>5, <3>2 DEF KeepRoot, NeedRoot, DeleteJob, StartJob, MasReady, ReadDetails,
         WriteDetails, Waited, minioVars
    <3> QED
      BY <3>1, <3>2
  <2> QED
    BY <1>1, <1>2, <2>1, <2>2, <2>3, MinioQuiet
<1>6. CASE WriteRoot(i)
  <2>1. h = "writeRoot"
    BY <1>4, <1>6 DEF WriteRoot
  <2>2. \A s \in {"deploy", "rollout", "awaitJob", "domain", "reroll", "readKey", "connection"} :
            Left(i, s)'
    BY <1>1, <1>3, <2>1, MinioPos, Ranks
  <2>3. req[i].mas => Left(i, "masSecret")' /\ Left(i, "masCfg")'
    BY <1>1, <1>3, <2>1, MinioPos, Ranks
  <2> QED
    BY <1>2, <2>2, <2>3 DEF MinioOK
<1>7. CASE Deploy(i) /\ h = "deploy"
  <2>1. dep' = [strategy |-> "Recreate", domain |-> FALSE]
        /\ UNCHANGED <<root, pod, buckets, masCred, cfg, conn, key>>
    BY <1>4, <1>7 DEF Deploy, Done, masVars
  <2>2. \A s \in {"rollout", "awaitJob", "domain", "reroll", "readKey", "connection"} :
            Left(i, s)'
    BY <1>1, <1>3, <1>7, MinioPos, Ranks
  <2>3. req[i].mas => Left(i, "masSecret")' /\ Left(i, "masCfg")'
    BY <1>1, <1>3, <1>7, MinioPos, Ranks
  <2>4. dep' # None /\ dep'.domain = FALSE
    BY <2>1, DeploymentIs
  <2> QED
    BY <1>2, <2>2, <2>3, <2>4 DEF MinioOK
<1>8. CASE Deploy(i) /\ h = "domain"
  <2>1. dep' = [strategy |-> "Recreate", domain |-> TRUE]
        /\ UNCHANGED <<root, pod, buckets, masCred, cfg, conn, key>>
    BY <1>4, <1>8 DEF Deploy, Done, masVars
  <2>2. /\ \A s \in {"reroll", "readKey", "connection"} : Left(i, s)'
        /\ ~Left(i, "rollout") /\ ~Left(i, "domain")' /\ Left(i, "domain")
        /\ ~Left(i, "awaitJob")
    BY <1>1, <1>3, <1>8, MinioPos, Ranks
  <2>3. req[i].mas => Left(i, "masSecret")' /\ Left(i, "masCfg")'
    BY <1>1, <1>3, <1>8, MinioPos, Ranks
  <2>4. dep' # None /\ dep'.domain = TRUE
    BY <2>1, DeploymentIs
  <2>5. pod = None \/ pod.domain = FALSE
    BY <1>2, <2>2 DEF MinioOK
  <2>6. buckets
    BY <1>2, <2>2 DEF MinioOK
  <2> QED
    BY <1>2, <2>1, <2>2, <2>3, <2>4, <2>5, <2>6 DEF MinioOK
<1>9. CASE Rollout(i)
  <2>1. /\ h \in {"rollout", "reroll"} /\ UNCHANGED <<S3Vars, key>>
        /\ pod # None /\ dep # None /\ pod.domain = dep.domain
    BY <1>4, <1>9 DEF Rollout, RolledOut, Waited, minioVars, masVars, S3Vars
  <2>2. CASE h = "rollout"
    <3>1. ~Left(i, "deploy") /\ Left(i, "domain") /\ Left(i, "domain")' /\ Left(i, "reroll")'
          /\ ~Left(i, "deploy")'
      BY <1>1, <1>3, <2>2, MinioPos, Ranks
    <3>2. pod.domain = FALSE
      BY <1>2, <2>1, <3>1 DEF MinioOK
    <3>3. \A s \in {"awaitJob", "readKey", "masSecret", "masCfg", "connection"} :
              Left(i, s)' <=> Left(i, s)
      BY <1>3, <2>2
    <3> QED
      BY <1>2, <2>1, <3>1, <3>2, <3>3 DEF MinioOK, S3Vars
  <2>3. CASE h = "reroll"
    <3>1. ~Left(i, "deploy") /\ ~Left(i, "domain") /\ ~Left(i, "rollout") /\ ~Left(i, "domain")'
          /\ ~Left(i, "deploy")'
      BY <1>1, <1>3, <2>3, MinioPos, Ranks
    <3>2. pod.domain = TRUE
      BY <1>2, <2>1, <3>1 DEF MinioOK
    <3>3. pod.password = root
      BY <1>2, <2>1, <3>1, <3>2 DEF MinioOK
    <3>4. \A s \in {"awaitJob", "readKey", "masSecret", "masCfg", "connection"} :
              Left(i, s)' <=> Left(i, s)
      BY <1>3, <2>3
    <3> QED
      BY <1>2, <2>1, <3>1, <3>2, <3>3, <3>4 DEF MinioOK, S3Vars
  <2> QED
    BY <2>1, <2>2, <2>3
<1>10. CASE AwaitJob(i)
  <2>1. h = "awaitJob" /\ UNCHANGED <<S3Vars, key>> /\ buckets
    BY <1>4, <1>10, S3Types DEF AwaitJob, Waited, minioVars, masVars, S3Vars
  <2>2. \A s \in {"deploy", "rollout", "domain", "reroll", "readKey", "masSecret", "masCfg",
                   "connection"} : Left(i, s)' <=> Left(i, s)
    BY <1>3, <2>1
  <2> QED
    BY <1>2, <2>1, <2>2 DEF MinioOK, S3Vars
<1>11. CASE ReadKey(i)
  <2>1. h = "readKey" /\ UNCHANGED S3Vars /\ root # None /\ key'[i] = root
    BY <1>4, <1>11, S3Types DEF ReadKey, Waited, minioVars, masVars, S3Vars
  <2>2. \A s \in {"deploy", "rollout", "domain", "reroll", "awaitJob", "masSecret", "masCfg",
                   "connection"} : Left(i, s)' <=> Left(i, s)
    BY <1>3, <2>1
  <2> QED
    BY <1>2, <2>1, <2>2 DEF MinioOK, S3Vars
<1>12. CASE MasSecret(i)
  <2>1. h = "masSecret" /\ UNCHANGED <<root, dep, pod, buckets, cfg, conn, key>>
        /\ masCred'["minio"] = key[i]
    BY <1>4, <1>12, S3Types DEF MasSecret, Done, minioVars, Providers
  <2>2. \A s \in {"deploy", "rollout", "domain", "reroll", "awaitJob", "readKey", "masCfg",
                   "connection"} : Left(i, s)' <=> Left(i, s)
    BY <1>3, <2>1
  <2>3. ~Left(i, "readKey")
    BY <1>1, <2>1, MinioPos, Ranks
  <2>4. key[i] = root
    BY <1>2, <2>3 DEF MinioOK
  <2> QED
    BY <1>2, <2>1, <2>2, <2>4 DEF MinioOK
<1>13. CASE MasCfg(i)
  <2>1. h = "masCfg" /\ UNCHANGED <<root, dep, pod, buckets, masCred, conn, key>>
        /\ cfg' = "minio"
    BY <1>4, <1>13 DEF MasCfg, Done, minioVars
  <2>2. \A s \in {"deploy", "rollout", "domain", "reroll", "awaitJob", "readKey", "masSecret",
                   "connection"} : Left(i, s)' <=> Left(i, s)
    BY <1>3, <2>1
  <2> QED
    BY <1>2, <2>1, <2>2 DEF MinioOK
<1>14. CASE Connection(i)
  <2>1. h = "connection" /\ UNCHANGED <<root, dep, pod, buckets, masCred, cfg, key>>
        /\ conn'["minio"] = key[i]
    BY <1>4, <1>14, S3Types DEF Connection, Done, minioVars, Providers
  <2>2. \A s \in {"deploy", "rollout", "domain", "reroll", "awaitJob", "readKey", "masSecret",
                   "masCfg"} : Left(i, s)' <=> Left(i, s)
    BY <1>3, <2>1
  <2>3. ~Left(i, "readKey")
    BY <1>1, <2>1, MinioPos, Ranks
  <2>4. key[i] = root
    BY <1>2, <2>3 DEF MinioOK
  <2> QED
    BY <1>2, <2>1, <2>2, <2>4 DEF MinioOK
<1>15. CASE Fails(i)
  <2>1. ~Run(i)'
    <3>1. Stops(i) /\ UNCHANGED req /\ At(i, h)
      BY <1>1, <1>15 DEF Fails, history
    <3> QED
      BY <3>1, StopsAdvance
  <2> QED
    BY <2>1
<1>16. h \in MinioNames \cup MasNames \cup EndNames
  BY <1>1, MinioPos
<1>17. ~AtMail(i) /\ h \notin RookNames
  BY <1>1, <1>2, <1>16, Places DEF MinioNames, MasNames, EndNames, RookNames
<1>18. ~Relay(i) /\ ~MDeploy(i) /\ ~MRollout(i) /\ ~Store(i) /\ ~AwaitStore(i)
  BY <1>4, <1>17, CallPlaces DEF Store, AwaitStore, RookNames, MailCall
<1>19. Deploy(i) => h \in {"deploy", "domain"}
  BY <1>4 DEF Deploy
<1> QED
  BY <1>5, <1>6, <1>7, <1>8, <1>9, <1>10, <1>11, <1>12, <1>13, <1>14, <1>15, <1>18, <1>19 DEF Step

LEMMA KeyKept ==
    ASSUME IInv, NEW i \in Installers, Step(i), ~Ends(i), ~ReadKey(i), ~AwaitStore(i)
    PROVE  UNCHANGED key
BY OtherSteps DEF Call, S3Call, MailCall, Wait, S3Wait, Done, Waited, KeepRoot, NeedRoot, Migrate, Fails,
   WriteRoot, Deploy, DeleteJob, StartJob, Store, MasSecret, MasCfg, Relay, MDeploy, WriteDetails,
   Connection, Rollout, AwaitJob, MasReady, MRollout, ReadDetails, RootMissing

LEMMA RookPos ==
    ASSUME IInv, NEW i \in Installers, NEW h, At(i, h), req[i].kind = "rook"
    PROVE  /\ h \in RookNames \cup MasNames \cup EndNames
           /\ Left(i, "awaitStore") <=> Rank[h] <= 2
           /\ req[i].mas => /\ Left(i, "masSecret") <=> Rank[h] <= 12
                            /\ Left(i, "masCfg") <=> Rank[h] <= 13
<1>1. /\ h \in Needed(req[i]) /\ h \in StepNames
      /\ \A s \in StepNames : Left(i, s) <=> s \in Needed(req[i]) /\ Rank[h] <= Rank[s]
  BY Position
<1>2. /\ {"awaitStore", "masSecret", "masCfg"} \subseteq StepNames
      /\ "awaitStore" \in Needed(req[i])
      /\ req[i].mas => {"masSecret", "masCfg"} \subseteq Needed(req[i])
      /\ Needed(req[i]) \subseteq RookNames \cup MasNames \cup EndNames
  BY DEF StepNames, Needed, RookNames, MasNames, EndNames
<1> QED
  BY <1>1, <1>2, Ranks

LEMMA KeyMoves ==
    ASSUME IInv, NEW i \in Installers, Step(i), ~Ends(i)
    PROVE  KeyOK(i)'
<1> SUFFICES ASSUME Run(i)' PROVE KeyOK(i)'
  BY DEF KeyOK
<1>1. PICK h : At(i, h) /\ Advance(i, h)
  BY Moving
<1>2. UNCHANGED req /\ KeyOK(i) /\ Run(i)
  BY Moving DEF IInv
<1>3. \A s \in {"readKey", "awaitStore"} : Left(i, s)' <=> Left(i, s) /\ s # h
  BY <1>1 DEF Advance
<1>4. \A g : At(i, g) => g = h
  BY <1>1 DEF At
<1>5. CASE ReadKey(i)
  <2>1. h = "readKey" /\ key'[i] = root /\ root # None
    BY <1>4, <1>5, S3Types DEF ReadKey
  <2>2. req[i].kind # "rook"
    BY <1>1, <2>1, RookPos DEF RookNames, MasNames, EndNames
  <2> QED
    BY <1>2, <2>1, <2>2 DEF KeyOK
<1>6. CASE AwaitStore(i)
  <2>1. h = "awaitStore" /\ key'[i] = "rook"
    BY <1>4, <1>6, S3Types DEF AwaitStore
  <2> QED
    BY <1>2, <2>1 DEF KeyOK
<1>7. CASE ~ReadKey(i) /\ ~AwaitStore(i)
  <2>1. UNCHANGED key
    BY <1>7, KeyKept
  <2>2. h \notin {"readKey", "awaitStore"}
    BY <1>1, <1>7, AtStep
  <2> QED
    BY <1>2, <1>3, <2>1, <2>2 DEF KeyOK
<1> QED
  BY <1>5, <1>6, <1>7

LEMMA RookMoves ==
    ASSUME IInv, NEW i \in Installers, Step(i), ~Ends(i)
    PROVE  RookOK(i)'
<1> SUFFICES ASSUME Run(i)', req[i].kind = "rook", "s3" \notin met[i], req[i].mas PROVE RookOK(i)'
  BY Moving DEF RookOK
<1>1. PICK h : At(i, h) /\ Advance(i, h)
  BY Moving
<1>2. UNCHANGED <<req, met>> /\ RookOK(i) /\ KeyOK(i) /\ Run(i)
  BY Moving DEF IInv
<1>3. \A s \in {"masSecret", "masCfg"} : Left(i, s)' <=> Left(i, s) /\ s # h
  BY <1>1 DEF Advance
<1>4. \A g : At(i, g) => g = h
  BY <1>1 DEF At
<1>5. h \in RookNames \cup MasNames \cup EndNames
  BY <1>1, RookPos
<1>6. CASE MasSecret(i)
  <2>1. h = "masSecret" /\ masCred'["rook"] = key[i] /\ cfg' = cfg
    BY <1>4, <1>6, S3Types DEF MasSecret, Providers
  <2>2. ~Left(i, "awaitStore")
    BY <1>1, <2>1, RookPos, Ranks
  <2> QED
    BY <1>2, <1>3, <2>1, <2>2 DEF RookOK, KeyOK
<1>7. CASE MasCfg(i)
  <2>1. h = "masCfg" /\ masCred' = masCred /\ cfg' = "rook"
    BY <1>4, <1>7 DEF MasCfg
  <2> QED
    BY <1>2, <1>3, <2>1 DEF RookOK
<1>8. CASE ~MasSecret(i) /\ ~MasCfg(i)
  <2>1. UNCHANGED <<masCred, cfg>>
    BY <1>8, OtherSteps DEF Call, S3Call, MailCall, Wait, S3Wait, Waited, KeepRoot, NeedRoot, Migrate,
       Fails, WriteRoot, Deploy, DeleteJob, StartJob, Store, Relay, MDeploy, WriteDetails,
       Connection, Rollout, AwaitJob, ReadKey, AwaitStore, MasReady, MRollout, ReadDetails,
       RootMissing, masVars
  <2>2. h \notin {"masSecret", "masCfg"}
    BY <1>1, <1>8, AtStep
  <2> QED
    BY <1>2, <1>3, <2>1, <2>2 DEF RookOK
<1> QED
  BY <1>6, <1>7, <1>8

\* The other installs.
LEMMA S3Others ==
    ASSUME IInv, NEW i \in Installers, Step(i), ~Ends(i), NEW j \in Installers \ {i}
    PROVE  MinioOK(j)' /\ RookOK(j)' /\ KeyOK(j)'
<1>1. /\ Run(i) /\ UNCHANGED <<req, met>> /\ key'[j] = key[j]
      /\ state'[j] = state[j] /\ todo'[j] = todo[j]
  BY Moving DEF Advance
<1>2. MinioOK(j) /\ RookOK(j) /\ KeyOK(j)
  BY DEF IInv
<1>3. KeyOK(j)'
  BY <1>1, <1>2 DEF KeyOK, Run, Left
<1>4. CASE Service(req[i]) = "mail"
  <2>1. UNCHANGED S3Vars
    BY <1>4, Touches
  <2> QED
    BY <1>1, <1>2, <1>3, <2>1 DEF MinioOK, RookOK, Run, Left, S3Vars
<1>5. CASE Service(req[i]) # "mail"
  <2>1. Service(req[i]) = "s3"
    BY <1>5 DEF Service
  <2>2. Run(j) => "s3" \in met[j]
    BY <1>1, <2>1 DEF IInv, MetOK
  <2> QED
    BY <1>1, <1>3, <2>2 DEF MinioOK, RookOK, Run
<1> QED
  BY <1>4, <1>5

LEMMA S3CleanMoves ==
    ASSUME IInv, NEW i \in Installers, Step(i), ~Ends(i)
    PROVE  S3Agree' /\ CleanS3'
<1>1. /\ Run(i) /\ UNCHANGED <<req, clean>> /\ S3Agree /\ CleanS3
      /\ \A j \in Installers : Run(j)' => Run(j)
  BY Moving DEF IInv, Advance, Run
<1>2. CASE clean["s3"] = None
  BY <1>1, <1>2 DEF S3Agree, CleanS3
<1>3. CASE clean["s3"] # None
  <2>1. Service(req[i]) # "s3"
    BY <1>1, <1>3 DEF CleanS3
  <2>2. UNCHANGED S3Vars
    BY <2>1, Touches
  <2> QED
    BY <1>1, <2>2 DEF S3Agree, CleanS3, S3Vars
<1> QED
  BY <1>2, <1>3

-----------------------------------------------------------------------------
(* Mail: the steps of installs. *)

LEMMA MailPos ==
    ASSUME IInv, NEW i \in Installers, NEW h, At(i, h), req[i].kind = "mailpit"
    PROVE  /\ h \in MailNames \cup EndNames
           /\ Left(i, "mdeploy") <=> Rank[h] <= 2
           /\ Left(i, "mrollout") <=> Rank[h] <= 3
           /\ Left(i, "connection") <=> Rank[h] <= 17
<1>1. /\ h \in Needed(req[i]) /\ h \in StepNames
      /\ \A s \in StepNames : Left(i, s) <=> s \in Needed(req[i]) /\ Rank[h] <= Rank[s]
  BY Position
<1>2. /\ {"mdeploy", "mrollout", "connection"} \subseteq StepNames \cap Needed(req[i])
      /\ Needed(req[i]) \subseteq MailNames \cup EndNames
  BY DEF StepNames, Needed, MailNames, EndNames
<1> QED
  BY <1>1, <1>2, Ranks

LEMMA MailMoves ==
    ASSUME IInv, NEW i \in Installers, Step(i), ~Ends(i)
    PROVE  MailOK(i)'
<1> SUFFICES ASSUME Run(i)', req[i].kind = "mailpit", "mail" \notin met[i] PROVE MailOK(i)'
  BY Moving DEF MailOK
<1>1. PICK h : At(i, h) /\ Advance(i, h)
  BY Moving
<1>2. /\ UNCHANGED <<req, met>> /\ MailOK(i) /\ Run(i) /\ Service(req[i]) = "mail"
  BY Moving DEF IInv, Service
<1>3. \A s \in {"mdeploy", "mrollout", "connection"} : Left(i, s)' <=> Left(i, s) /\ s # h
  BY <1>1 DEF Advance
<1>4. \A g : At(i, g) => g = h
  BY <1>1 DEF At
<1>5. CASE Relay(i) \/ ReadDetails(i) \/ WriteDetails(i)
  <2>1. h \in {"relay", "readDetails", "writeDetails"} /\ UNCHANGED MailKept
    BY <1>4, <1>5 DEF Relay, ReadDetails, WriteDetails, Waited, mailVars, masVars, MailKept
  <2> QED
    BY <1>2, <1>3, <2>1 DEF MailOK, MailKept
<1>6. CASE MDeploy(i)
  <2>1. h = "mdeploy" /\ mdep' = Mode(req[i])
    BY <1>4, <1>6 DEF MDeploy, Mode
  <2>2. Left(i, "mrollout")' /\ Left(i, "connection")'
    BY <1>1, <1>3, <2>1, MailPos, Ranks
  <2> QED
    BY <1>2, <2>1, <2>2 DEF MailOK
<1>7. CASE MRollout(i)
  <2>1. h = "mrollout" /\ UNCHANGED MailKept /\ mpod # None /\ ((mpod = "capture") = (mdep = "capture"))
    BY <1>4, <1>7 DEF MRollout, MRolledOut, Waited, mailVars, masVars, MailKept
  <2>2. ~Left(i, "mdeploy")
    BY <1>1, <2>1, MailPos, Ranks
  <2>3. mpod = "capture" <=> req[i].relay = None
    BY <1>2, <2>1, <2>2 DEF MailOK, Mode
  <2> QED
    BY <1>2, <1>3, <2>1, <2>3 DEF MailOK, MailKept
<1>8. CASE Connection(i)
  <2>1. h = "connection" /\ UNCHANGED <<mdep, mpod>> /\ mconn' = req[i].relay
    BY <1>4, <1>8 DEF Connection, mailVars
  <2> QED
    BY <1>2, <1>3, <2>1 DEF MailOK
<1>9. ~Fails(i)
  <2>1. ASSUME Fails(i) PROVE FALSE
    <3>1. Stops(i) /\ UNCHANGED req
      BY <2>1 DEF Fails, history
    <3> QED
      BY <1>1, <3>1, StopsAdvance
  <2> QED
    BY <2>1
<1>10. /\ ~S3Call(i) /\ ~S3Wait(i) /\ ~KeepRoot(i) /\ ~NeedRoot(i) /\ ~Migrate(i)
  BY <1>2, Touches, CallPlaces
<1> QED
  BY <1>5, <1>6, <1>7, <1>8, <1>9, <1>10, OtherSteps DEF Call, MailCall, Wait

LEMMA MailOthers ==
    ASSUME IInv, NEW i \in Installers, Step(i), ~Ends(i), NEW j \in Installers \ {i}
    PROVE  MailOK(j)'
<1>1. /\ Run(i) /\ UNCHANGED <<req, met>> /\ state'[j] = state[j] /\ todo'[j] = todo[j]
  BY Moving DEF Advance
<1>2. MailOK(j)
  BY DEF IInv
<1>3. CASE Service(req[i]) = "s3"
  <2>1. UNCHANGED MailKept
    BY <1>3, Touches
  <2> QED
    BY <1>1, <1>2, <2>1 DEF MailOK, Run, Left, MailKept
<1>4. CASE Service(req[i]) # "s3"
  <2>1. Service(req[i]) = "mail"
    BY <1>4 DEF Service
  <2>2. Run(j) => "mail" \in met[j]
    BY <1>1, <2>1 DEF IInv, MetOK
  <2> QED
    BY <1>1, <2>2 DEF MailOK, Run
<1> QED
  BY <1>3, <1>4

LEMMA MailCleanMoves ==
    ASSUME IInv, NEW i \in Installers, Step(i), ~Ends(i)
    PROVE  MailAgrees' /\ CleanMail'
<1>1. /\ Run(i) /\ UNCHANGED <<req, clean>> /\ MailAgrees /\ CleanMail
      /\ \A j \in Installers : Run(j)' => Run(j)
  BY Moving DEF IInv, Advance, Run
<1>2. CASE clean["mail"] = None
  BY <1>1, <1>2 DEF MailAgrees, CleanMail
<1>3. CASE clean["mail"] # None
  <2>1. Service(req[i]) = "s3"
    BY <1>1, <1>3 DEF CleanMail, Service
  <2>2. UNCHANGED MailKept
    BY <2>1, Touches
  <2> QED
    BY <1>1, <2>2 DEF MailAgrees, CleanMail, MailKept
<1> QED
  BY <1>2, <1>3

-----------------------------------------------------------------------------
(* One password, and the details an install has found. *)

\* Only a step that writes the root secret, or passes over it, comes to it.
LEMMA PastRoot ==
    ASSUME IInv, NEW i \in Installers, NEW h, At(i, h), Advance(i, h), h # "readRoot",
           req[i].kind = "minio", UNCHANGED req, PlansOK'
    PROVE  ~At(i, "writeRoot")'
<1> SUFFICES ASSUME At(i, "writeRoot")' PROVE FALSE
  OBVIOUS
<1>1. Run(i)' /\ todo'[i] \in Seq(StepNames) /\ todo'[i] # <<>> /\ Head(todo'[i]) = "writeRoot"
  BY DEF At, Running, Run, PlansOK
<1>2. Sorted(todo'[i])
  BY <1>1 DEF PlansOK, PlanOK
<1>3. In(todo'[i], "writeRoot")
  BY <1>1, <1>2, SortedTail
<1>4. Left(i, "writeRoot") /\ h # "writeRoot"
  BY <1>1, <1>3 DEF Advance, Left
<1>5. Rank[h] <= 2 /\ h \in MinioNames \cup MasNames \cup EndNames
  BY <1>4, MinioPos
<1>6. h \in {"readRoot", "writeRoot"}
  BY <1>5, Ranks DEF MinioNames, MasNames, EndNames
<1> QED
  BY <1>4, <1>6

LEMMA RootKept ==
    ASSUME IInv, NEW i \in Installers, Step(i), ~Ends(i)
    PROVE  /\ UNCHANGED pod /\ misread \in BOOLEAN
           /\ ~WriteRoot(i) => UNCHANGED root
           /\ ~MasSecret(i) => UNCHANGED masCred
           /\ ~Connection(i) => UNCHANGED conn
           /\ misread' = misread \/ (misread' = TRUE /\ NeedRoot(i))
<1>1. misread \in BOOLEAN
  BY DEF IInv, TypeOK
<1>2. CASE Call(i)
  <2>1. UNCHANGED misread
    BY <1>2, CallDone DEF Done, history
  <2>2. UNCHANGED pod /\ (~WriteRoot(i) => UNCHANGED root)
    BY <1>2 DEF Call, S3Call, MailCall, WriteRoot, Deploy, DeleteJob, StartJob, Store, MasSecret,
       MasCfg, Relay, MDeploy, WriteDetails, Connection, minioVars
  <2>3. (~MasSecret(i) => UNCHANGED masCred) /\ (~Connection(i) => UNCHANGED conn)
    BY <1>2 DEF Call, S3Call, MailCall, WriteRoot, Deploy, DeleteJob, StartJob, Store, MasSecret,
       MasCfg, Relay, MDeploy, WriteDetails, Connection, masVars
  <2> QED
    BY <1>1, <2>1, <2>2, <2>3
<1>3. CASE Wait(i)
  BY <1>1, <1>3, WaitGoes DEF minioVars, masVars, history
<1>4. CASE KeepRoot(i) \/ NeedRoot(i) \/ Migrate(i) \/ Fails(i)
  BY <1>1, <1>4 DEF KeepRoot, NeedRoot, Migrate, Fails, Waited, Done, minioVars, masVars, history
<1> QED
  BY <1>2, <1>3, <1>4, OtherSteps

LEMMA PasswordMoves ==
    ASSUME IInv, NEW i \in Installers, Step(i), ~Ends(i)
    PROVE  OnePassword'
<1> SUFFICES ASSUME ~misread', ~raced' PROVE OnePassword'
  BY DEF OnePassword
<1>1. PICK h : At(i, h) /\ Advance(i, h)
  BY Moving
<1>2. \A g : At(i, g) => g = h
  BY <1>1 DEF At
<1>3. /\ Run(i) /\ req[i] \in Request /\ UNCHANGED <<req, met, raced>> /\ PlansOK'
      /\ \A j \in Installers \ {i} : /\ key'[j] = key[j] /\ state'[j] = state[j]
                                     /\ todo'[j] = todo[j]
  BY Moving DEF Advance
<1>4. /\ ~misread /\ ~raced /\ UNCHANGED pod
  BY <1>3, RootKept
<1>5. /\ pod # None => pod.password = root
      /\ {masCred["minio"], conn["minio"]} \subseteq {None, root}
      /\ \A j \in Installers : Run(j) /\ req[j].kind = "minio" =>
            /\ key[j] \in {None, root}
            /\ At(j, "writeRoot") => root = None
  BY <1>4 DEF IInv, OnePassword
<1>6. Service(req[i]) = "s3" =>
          \A j \in Installers \ {i} : Run(j)' => req[j].kind # "minio"
  BY <1>3, <1>4 DEF IInv, MetOK, Run, Service
<1>7. CASE WriteRoot(i)
  <2>1. h = "writeRoot" /\ UNCHANGED <<key, masCred, conn>>
    BY <1>2, <1>7 DEF WriteRoot, Done, masVars
  <2>2. req[i].kind = "minio" /\ Service(req[i]) = "s3"
    <3>1. "writeRoot" \in Needed(req[i])
      BY <1>1, <2>1, Position
    <3> QED
      BY <3>1 DEF Needed, RookNames, MasNames, EndNames, Service
  <2>3. root = None
    BY <1>1, <1>3, <1>5, <2>1, <2>2
  <2>4. pod = None
    <3>1. pod = None \/ pod.password \in Passwords
      BY DEF IInv, TypeOK, Pod
    <3> QED
      BY <1>5, <2>3, <3>1
  <2>5. ~At(i, "writeRoot")'
    BY <1>1, <1>3, <2>1, <2>2, PastRoot
  <2>6. key[i] = None
    BY <1>3, <1>5, <2>2, <2>3
  <2> QED
    BY <1>3, <1>4, <1>5, <1>6, <2>1, <2>2, <2>3, <2>4, <2>5, <2>6 DEF OnePassword
<1>8. CASE ~WriteRoot(i)
  <2>1. UNCHANGED root
    BY <1>8, RootKept
  <2>2. masCred'["minio"] \in {None, root}
    <3>1. CASE MasSecret(i) /\ req[i].kind = "minio"
      BY <1>3, <1>5, <3>1, S3Types DEF MasSecret, Providers
    <3>2. CASE MasSecret(i) /\ req[i].kind # "minio"
      BY <1>5, <3>2, S3Types DEF MasSecret, Providers
    <3>3. CASE ~MasSecret(i)
      BY <1>5, <3>3, RootKept
    <3> QED
      BY <3>1, <3>2, <3>3
  <2>3. conn'["minio"] \in {None, root}
    <3>1. CASE Connection(i) /\ req[i].kind = "minio"
      BY <1>3, <1>5, <3>1, S3Types DEF Connection, Providers
    <3>2. CASE Connection(i) /\ req[i].kind # "minio"
      BY <1>5, <3>2, S3Types DEF Connection, Providers
    <3>3. CASE ~Connection(i)
      BY <1>5, <3>3, RootKept
    <3> QED
      BY <3>1, <3>2, <3>3
  <2>4. ASSUME Run(i)', req[i].kind = "minio"
        PROVE  key'[i] \in {None, root} /\ (At(i, "writeRoot")' => root = None)
    <3>1. key[i] \in {None, root}
      BY <1>3, <1>5, <2>4
    <3>2. key'[i] \in {None, root}
      <4>1. ~AwaitStore(i)
        BY <1>1, <1>2, <2>4, MinioPos DEF AwaitStore, MinioNames, MasNames, EndNames
      <4>2. CASE ReadKey(i)
        BY <4>2, S3Types DEF ReadKey
      <4>3. CASE ~ReadKey(i)
        BY <3>1, <4>1, <4>3, KeyKept
      <4> QED
        BY <4>2, <4>3
    <3>3. CASE h # "readRoot"
      BY <1>1, <1>3, <2>4, <3>2, <3>3, PastRoot
    <3>4. CASE h = "readRoot" /\ KeepRoot(i)
      <4>1. ~At(i, "writeRoot")'
        BY <1>1, <3>4, KeepAdvances DEF KeepRoot, history
      <4> QED
        BY <3>2, <4>1
    <3>5. CASE h = "readRoot" /\ NeedRoot(i)
      BY <1>4, <3>2, <3>5 DEF NeedRoot, RootMissing
    <3> QED
      BY <1>1, <2>4, <3>3, <3>4, <3>5, AtStep
  <2>5. ASSUME NEW j \in Installers \ {i}, Run(j)', req[j].kind = "minio"
        PROVE  key'[j] \in {None, root} /\ (At(j, "writeRoot")' => root = None)
    BY <1>3, <1>5, <2>5 DEF Run, At, Running
  <2> QED
    BY <1>3, <1>4, <1>5, <2>1, <2>2, <2>3, <2>4, <2>5 DEF OnePassword
<1> QED
  BY <1>7, <1>8

LEMMA DetailsUnlessWritten ==
    ASSUME IInv, NEW i \in Installers, Step(i), ~Ends(i)
    PROVE  /\ ~WriteDetails(i) => UNCHANGED details
           /\ ~ReadDetails(i) => UNCHANGED found
<1>1. CASE Call(i)
  <2>1. UNCHANGED found
    BY <1>1, CallDone DEF Done
  <2>2. ~WriteDetails(i) => UNCHANGED details
    BY <1>1 DEF Call, S3Call, MailCall, WriteRoot, Deploy, DeleteJob, StartJob, Store, MasSecret,
       MasCfg, Relay, MDeploy, Connection, masVars
  <2> QED
    BY <2>1, <2>2
<1>2. CASE Wait(i)
  <2>1. UNCHANGED details
    BY <1>2, WaitGoes DEF masVars
  <2>2. ~ReadDetails(i) => UNCHANGED found
    BY <1>2 DEF Wait, S3Wait, Rollout, AwaitJob, ReadKey, AwaitStore, MasReady, MRollout, NeedRoot,
       RootMissing
  <2> QED
    BY <2>1, <2>2
<1>3. CASE KeepRoot(i) \/ NeedRoot(i) \/ Migrate(i) \/ Fails(i)
  BY <1>3 DEF KeepRoot, NeedRoot, Migrate, Fails, Waited, Done, masVars
<1> QED
  BY <1>1, <1>2, <1>3, OtherSteps

LEMMA FoundMoves ==
    ASSUME IInv, NEW i \in Installers, Step(i), ~Ends(i), NEW j \in Installers
    PROVE  FoundOK(j)'
<1> SUFFICES ASSUME Run(j)', met[j] = {} PROVE FoundOK(j)'
  BY Moving DEF FoundOK
<1>1. PICK h : At(i, h) /\ Advance(i, h)
  BY Moving
<1>2. Run(i) /\ FoundOK(i) /\ found \in [Installers -> SUBSET {"s3", "smtp", "relay"}]
  BY Moving DEF IInv, TypeOK
<1>3. j = i
  BY <1>1, <1>2 DEF IInv, MetOK, Advance, Run
<1>4. \A s \in {"readDetails", "writeDetails"} : Left(i, s)' <=> Left(i, s) /\ s # h
  BY <1>1, <1>3 DEF Advance
<1>5. \A g : At(i, g) => g = h
  BY <1>1 DEF At
<1>6. UNCHANGED met
  BY Moving
<1>7. CASE ReadDetails(i)
  <2>1. found'[i] = details /\ UNCHANGED details
    BY <1>2, <1>7 DEF ReadDetails, Waited, masVars
  <2> QED
    BY <1>3, <2>1 DEF FoundOK
<1>8. CASE WriteDetails(i)
  <2>1. h = "writeDetails"
    BY <1>5, <1>8 DEF WriteDetails
  <2> QED
    BY <1>3, <1>4, <2>1 DEF FoundOK
<1>9. CASE ~ReadDetails(i) /\ ~WriteDetails(i)
  <2>1. UNCHANGED <<details, found>>
    BY <1>9, DetailsUnlessWritten
  <2>2. h # "readDetails"
    BY <1>1, <1>3, <1>9, AtStep
  <2> QED
    BY <1>2, <1>3, <1>4, <1>6, <2>1, <2>2 DEF FoundOK
<1> QED
  BY <1>7, <1>8, <1>9

-----------------------------------------------------------------------------
(* A step of an install keeps the invariant. *)

Typed ==
    /\ root \in Passwords \cup {None} /\ buckets \in BOOLEAN
    /\ dep = None \/ dep \in Deployment
    /\ pod = None \/ pod \in Pod
    /\ job \in Passwords \cup {None, "new", "done"}
    /\ relay \in Relays \cup {None} /\ mdep \in {None, "relay", "capture"}
    /\ mpod \in Relays \cup {None, "capture"} /\ mconn \in Relays \cup {None}
    /\ masCred \in [Providers -> Passwords \cup {None, "rook"}]
    /\ conn \in [Providers -> Passwords \cup {None, "rook"}]
    /\ cfg \in Providers \cup {None} /\ details \subseteq {"s3", "smtp", "relay"}
    /\ key \in [Installers -> Passwords \cup {None, "rook"}]
    /\ found \in [Installers -> SUBSET {"s3", "smtp", "relay"}]
    /\ misread \in BOOLEAN
    /\ job = "done" => buckets

LEMMA FreshPassword == ASSUME ~(Passwords \subseteq InUse) PROVE Fresh \in Passwords
BY DEF Fresh

LEMMA ServiceKind ==
    ASSUME NEW r \in Request
    PROVE  /\ Service(r) = "s3" => r.kind \in Providers
           /\ r.kind \in {"minio", "rook", "mailpit"}
           /\ r.kind = "mailpit" => r.relay \in Relays \cup {None}
           /\ Group(r) \subseteq {"s3", "smtp", "relay"}
BY DEF Request, Service, Providers, Group

LEMMA TypeMoves ==
    ASSUME IInv, NEW i \in Installers, Step(i), ~Ends(i)
    PROVE  Typed'
<1>1. Typed
  BY DEF IInv, TypeOK, Shape, Typed
<1>2. req[i] \in Request
  BY Moving
<1>3. \A v \in {"new", "done", "rook"} : v \notin Passwords /\ v # None
  OBVIOUS
<1>4. CASE Wait(i)
  <2>1. UNCHANGED <<minioVars, mailVars, masVars, history>>
    BY <1>4, WaitGoes
  <2>2. key' \in [Installers -> Passwords \cup {None, "rook"}]
    <3>1. CASE ReadKey(i)
      BY <1>1, <3>1 DEF ReadKey, Typed
    <3>2. CASE AwaitStore(i)
      BY <1>1, <3>2 DEF AwaitStore, Typed
    <3>3. CASE ~ReadKey(i) /\ ~AwaitStore(i)
      BY <1>1, <3>3, KeyKept DEF Typed
    <3> QED
      BY <3>1, <3>2, <3>3
  <2>3. found' \in [Installers -> SUBSET {"s3", "smtp", "relay"}]
    <3>1. CASE ReadDetails(i)
      BY <1>1, <3>1 DEF ReadDetails, Typed
    <3>2. CASE ~ReadDetails(i)
      BY <1>1, <3>2, DetailsUnlessWritten DEF Typed
    <3> QED
      BY <3>1, <3>2
  <2> QED
    BY <1>1, <2>1, <2>2, <2>3 DEF Typed, minioVars, mailVars, masVars, history
<1>5. CASE WriteRoot(i)
  BY <1>1, <1>5, FreshPassword DEF WriteRoot, Done, mailVars, masVars, history, Typed
<1>6. CASE Deploy(i)
  <2>1. PICK d \in BOOLEAN : dep' = [strategy |-> "Recreate", domain |-> d]
    BY <1>6 DEF Deploy
  <2>2. dep' \in Deployment
    BY <2>1, DeploymentIs
  <2> QED
    BY <1>1, <1>6, <2>2 DEF Deploy, Done, mailVars, masVars, history, Typed
<1>7. CASE DeleteJob(i)
  BY <1>1, <1>3, <1>7 DEF DeleteJob, Done, mailVars, masVars, history, Typed
<1>8. CASE StartJob(i)
  BY <1>1, <1>3, <1>8 DEF StartJob, Done, mailVars, masVars, history, Typed
<1>9. CASE Store(i)
  BY <1>1, <1>9 DEF Store, Done, minioVars, mailVars, masVars, history, Typed
<1>10. CASE MasSecret(i)
  <2>1. masCred' \in [Providers -> Passwords \cup {None, "rook"}]
    BY <1>1, <1>10 DEF MasSecret, Typed
  <2> QED
    BY <1>1, <1>10, <2>1 DEF MasSecret, Done, minioVars, mailVars, history, Typed
<1>11. CASE MasCfg(i)
  <2>1. AtS3(i)
    BY <1>11, CallPlaces DEF S3Call
  <2>2. req[i].kind \in Providers
    BY <1>2, <2>1, Places, ServiceKind
  <2> QED
    BY <1>1, <1>11, <2>2 DEF MasCfg, Done, minioVars, mailVars, history, Typed
<1>12. CASE Relay(i)
  <2>1. AtMail(i)
    BY <1>12, CallPlaces DEF MailCall
  <2>2. req[i].kind = "mailpit"
    BY <1>2, <2>1, Places DEF Service
  <2> QED
    BY <1>1, <1>2, <1>12, <2>2, ServiceKind DEF Relay, Done, minioVars, masVars, history, Typed
<1>13. CASE MDeploy(i)
  BY <1>1, <1>13 DEF MDeploy, Done, minioVars, masVars, history, Typed
<1>14. CASE WriteDetails(i)
  <2>1. details' \subseteq {"s3", "smtp", "relay"}
    BY <1>1, <1>2, <1>14, ServiceKind DEF WriteDetails, Merged, Typed
  <2> QED
    BY <1>1, <1>14, <2>1 DEF WriteDetails, Done, minioVars, mailVars, history, Typed
<1>15. CASE Connection(i)
  <2>1. mconn' \in Relays \cup {None} /\ conn' \in [Providers -> Passwords \cup {None, "rook"}]
    BY <1>1, <1>2, <1>15, ServiceKind DEF Connection, Typed
  <2> QED
    BY <1>1, <1>15, <2>1 DEF Connection, Done, minioVars, mailVars, history, Typed
<1>16. CASE KeepRoot(i) \/ NeedRoot(i) \/ Fails(i)
  BY <1>1, <1>16 DEF KeepRoot, NeedRoot, Fails, Waited, minioVars, mailVars, masVars, history, Typed
<1>17. CASE Migrate(i)
  <2>1. dep' = None \/ dep' \in Deployment
    BY <1>1, <1>17, MigratedIs DEF Migrate, Typed
  <2> QED
    BY <1>1, <1>17, <2>1 DEF Migrate, Done, mailVars, masVars, history, Typed
<1> QED
  BY <1>4, <1>5, <1>6, <1>7, <1>8, <1>9, <1>10, <1>11, <1>12, <1>13, <1>14, <1>15, <1>16, <1>17,
     OtherSteps DEF Call, S3Call, MailCall

\* The key is there when MAS is given it.
LEMMA KeyGiven ==
    ASSUME NEW i \in Installers, PlanOK(i)', KeyOK(i)', At(i, "masSecret")'
    PROVE  key'[i] # None
<1>1. /\ Run(i)' /\ req'[i] \in Request
      /\ \A s \in StepNames : Left(i, s)' <=> s \in Needed(req'[i]) /\ Rank["masSecret"] <= Rank[s]
  BY DEF PlanOK, At, Running, Run
<1>2. {"masSecret", "readKey", "awaitStore"} \subseteq StepNames
  BY DEF StepNames, MinioNames, RookNames, MasNames
<1>3. Sorted(todo'[i]) /\ todo'[i] # <<>> /\ Head(todo'[i]) = "masSecret"
  BY <1>1 DEF PlanOK, At, Running
<1>4. Left(i, "masSecret")'
  BY <1>3, SortedTail DEF Left
<1>5. "masSecret" \in Needed(req'[i])
  BY <1>1, <1>2, <1>4
<1>6. req'[i].kind \in {"minio", "rook"}
  BY <1>1, <1>5, ServiceKind DEF Needed, MinioNames, RookNames, EndNames
<1>7. ~Left(i, "readKey")' /\ ~Left(i, "awaitStore")'
  BY <1>1, <1>2, Ranks
<1> QED
  BY <1>1, <1>6, <1>7 DEF KeyOK

LEMMA StepKeeps ==
    ASSUME IInv, NEW i \in Installers, Step(i), ~Ends(i)
    PROVE  IInv'
<1>1. /\ PlansOK' /\ UNCHANGED <<req, met, clean, raced, begun>> /\ faults' \in 0..MaxFaults
      /\ \A j \in Installers : Run(j)' => Run(j)
  BY Moving DEF Advance, Run
<1>2. Typed'
  BY TypeMoves
<1>3. \A j \in Installers : PlanOK(j)'
  BY <1>1 DEF PlansOK
<1>4. \A j \in Installers : KeyOK(j)' /\ MinioOK(j)' /\ RookOK(j)' /\ MailOK(j)' /\ FoundOK(j)'
  BY KeyMoves, MinioMoves, RookMoves, MailMoves, FoundMoves, S3Others, MailOthers
<1>5. MetOK'
  BY <1>1 DEF IInv, MetOK
<1>6. Shape'
  BY <1>1, <1>2 DEF IInv, Shape, PlansOK, Typed
<1>7. TypeOK'
  BY <1>1, <1>2, <1>3, <1>4, KeyGiven DEF IInv, TypeOK, PlansOK, Typed
<1> QED
  BY <1>3, <1>4, <1>5, <1>6, <1>7, PasswordMoves, S3CleanMoves, MailCleanMoves DEF IInv

-----------------------------------------------------------------------------
(* An install begins. *)

LEMMA BeginFacts ==
    ASSUME IInv, NEW i \in Installers, NEW r \in Request, Begin(i, r), state[i] # "run"
    PROVE  /\ Run(i)' /\ req'[i] = r /\ todo'[i] = Steps(r) /\ key'[i] = None /\ found'[i] = {}
           /\ \A j \in Installers \ {i} :
                 /\ state'[j] = state[j] /\ req'[j] = req[j] /\ todo'[j] = todo[j]
                 /\ key'[j] = key[j] /\ found'[j] = found[j]
                 /\ met[j] \subseteq met'[j]
                 /\ Run(j) => Service(r) \in met'[j] /\ Service(req[j]) \in met'[i]
           /\ ~raced' => /\ ~raced
                         /\ Service(r) = "s3" =>
                               \A j \in Installers \ {i} : Run(j) => Service(req[j]) # "s3"
           /\ clean' = [clean EXCEPT ![Service(r)] = None]
           /\ UNCHANGED <<minioVars, mailVars, masVars, misread, faults>>
<1>1. /\ state \in [Installers -> {"off", "run", "done", "failed"}]
      /\ todo \in [Installers -> Seq(StepNames)] /\ req \in [Installers -> Request \cup {None}]
      /\ key \in [Installers -> Passwords \cup {None, "rook"}]
      /\ found \in [Installers -> SUBSET {"s3", "smtp", "relay"}] /\ raced \in BOOLEAN
  BY DEF IInv, TypeOK, Shape
<1>2. \A j \in Installers \ {i} : Run(j) <=> j \in Others(i)
  BY DEF Others, Run
<1>3. met' = [j \in Installers |-> IF j = i THEN {Service(req[k]) : k \in Others(i)}
                                   ELSE IF j \in Others(i) THEN met[j] \cup {Service(r)}
                                   ELSE met[j]]
  BY DEF Begin
<1>4. \A j \in Installers \ {i} : /\ met[j] \subseteq met'[j]
                                  /\ Run(j) => Service(r) \in met'[j] /\ Service(req[j]) \in met'[i]
  BY <1>2, <1>3
<1>5. ~raced' => /\ ~raced
                 /\ Service(r) = "s3" =>
                       \A j \in Installers \ {i} : Run(j) => Service(req[j]) # "s3"
  BY <1>1, <1>2 DEF Begin
<1> QED
  BY <1>1, <1>4, <1>5 DEF Begin, Run

LEMMA BeginPlans ==
    ASSUME IInv, NEW i \in Installers, NEW r \in Request, Begin(i, r), state[i] # "run"
    PROVE  /\ PlansOK' /\ ~At(i, "writeRoot")' /\ ~At(i, "masSecret")'
           /\ \A s \in StepNames : Left(i, s)' <=> s \in Needed(r)
<1>1. /\ Run(i)' /\ req'[i] = r /\ todo'[i] = Steps(r)
      /\ \A j \in Installers \ {i} :
            state'[j] = state[j] /\ req'[j] = req[j] /\ todo'[j] = todo[j]
  BY BeginFacts
<1>2. PlansOK
  BY TypedPlans
<1> DEFINE t == Steps(r)
<1>3. /\ Sorted(t) /\ t # <<>> /\ \A s : In(t, s) <=> s \in Needed(r)
      /\ Head(t) = "readRoot" => Tail(t) # <<>> /\ Head(Tail(t)) = "writeRoot"
  BY StepsList
<1> HIDE DEF t
<1>4. /\ Head(t) \in StepNames /\ In(t, Head(t))
      /\ \A s : In(t, s) => s \in StepNames /\ Rank[Head(t)] <= Rank[s]
  BY <1>3, SortedTail
<1>5. todo' \in [Installers -> Seq(StepNames)]
      /\ state' \in [Installers -> {"off", "run", "done", "failed"}]
  BY <1>2, <1>3 DEF Begin, PlansOK, Sorted, t
<1>6. PlanOK(i)' /\ \A s \in StepNames : Left(i, s)' <=> s \in Needed(r)
  BY <1>1, <1>3, <1>4 DEF PlanOK, Left, At, Running, t
<1>7. \A j \in Installers \ {i} : PlanOK(j)'
  BY <1>1, <1>2 DEF PlansOK, PlanOK, Run, Left, At, Running
<1>8. \A j \in Installers : state'[j] = "failed" => req'[j] \in Request
  BY <1>1, <1>2 DEF PlansOK
<1>9. Head(t) \notin {"writeRoot", "masSecret"}
  <2>1. Rank["writeRoot"] = 2 /\ Rank["masSecret"] = 12 /\ Rank["readRoot"] = 1 /\ Rank["store"] = 1
    BY Ranks
  <2>2. "writeRoot" \in Needed(r) => "readRoot" \in Needed(r)
    BY DEF Needed, MinioNames, RookNames, MasNames, EndNames
  <2>3. "masSecret" \in Needed(r) => "readRoot" \in Needed(r) \/ "store" \in Needed(r)
    BY ServiceKind DEF Needed, MinioNames, RookNames, MasNames, EndNames
  <2> QED
    BY <1>3, <1>4, <2>1, <2>2, <2>3
<1> QED
  BY <1>1, <1>5, <1>6, <1>7, <1>8, <1>9 DEF PlansOK, At, t

LEMMA BeginKeeps ==
    ASSUME IInv, NEW i \in Installers, NEW r \in Request, Begin(i, r), state[i] # "run",
           begun' \in 0..MaxInstalls
    PROVE  IInv'
<1>1. /\ Run(i)' /\ req'[i] = r /\ todo'[i] = Steps(r) /\ key'[i] = None /\ found'[i] = {}
      /\ ~Run(i)
      /\ clean' = [clean EXCEPT ![Service(r)] = None]
      /\ UNCHANGED <<root, dep, pod, job, buckets, masCred, cfg, conn, relay, mdep, mpod, mconn,
                     details, misread, faults>>
  BY BeginFacts DEF minioVars, mailVars, masVars, Run
<1>2. \A j \in Installers \ {i} :
          /\ state'[j] = state[j] /\ req'[j] = req[j] /\ todo'[j] = todo[j]
          /\ key'[j] = key[j] /\ found'[j] = found[j] /\ met[j] \subseteq met'[j]
          /\ Run(j) => Service(r) \in met'[j] /\ Service(req[j]) \in met'[i]
  BY BeginFacts
<1>3. ~raced' => /\ ~raced
                 /\ Service(r) = "s3" =>
                       \A j \in Installers \ {i} : Run(j) => Service(req[j]) # "s3"
  BY BeginFacts
<1>4. /\ PlansOK' /\ ~At(i, "writeRoot")' /\ ~At(i, "masSecret")'
      /\ \A s \in StepNames : Left(i, s)' <=> s \in Needed(r)
  BY BeginPlans
<1>5. \A j \in Installers \ {i} : Run(j)' <=> Run(j)
  BY <1>2 DEF Run
<1>6. r.kind = "minio" =>
          \A s \in {"deploy", "rollout", "awaitJob", "domain", "reroll", "readKey", "connection"} :
              Left(i, s)'
  BY <1>4 DEF Needed, StepNames, MinioNames, RookNames, MasNames, EndNames
<1>7. r.kind # "mailpit" /\ r.mas => Left(i, "masSecret")' /\ Left(i, "masCfg")'
  BY <1>4 DEF Needed, StepNames, MasNames
<1>8. r.kind = "rook" => Left(i, "awaitStore")'
  BY <1>4 DEF Needed, StepNames, RookNames
<1>9. r.kind = "mailpit" => Left(i, "mdeploy")' /\ Left(i, "mrollout")' /\ Left(i, "connection")'
  BY <1>4 DEF Needed, StepNames, MailNames, EndNames
<1>10. Left(i, "readDetails")'
  BY <1>4 DEF Needed, StepNames, EndNames
<1>11. KeyOK(i)' /\ MinioOK(i)' /\ RookOK(i)' /\ MailOK(i)' /\ FoundOK(i)'
  BY <1>1, <1>6, <1>7, <1>8, <1>9, <1>10 DEF KeyOK, MinioOK, RookOK, MailOK, FoundOK
<1>12. ASSUME NEW j \in Installers \ {i}
       PROVE  KeyOK(j)' /\ MinioOK(j)' /\ RookOK(j)' /\ MailOK(j)' /\ FoundOK(j)'
  <2>1. KeyOK(j) /\ MinioOK(j) /\ RookOK(j) /\ MailOK(j)
    BY DEF IInv
  <2>2. KeyOK(j)' /\ RookOK(j)' /\ MailOK(j)'
    BY <1>1, <1>2, <1>5, <2>1 DEF KeyOK, RookOK, MailOK, Left
  <2>3. MinioOK(j)'
    BY <1>1, <1>2, <1>5, <2>1 DEF MinioOK, Left
  <2>4. FoundOK(j)'
    BY <1>2, <1>5 DEF FoundOK
  <2> QED
    BY <2>2, <2>3, <2>4
<1>13. MetOK'
  <2>1. ASSUME NEW j \in Installers, NEW k \in Installers, j # k, Run(j)', Run(k)'
        PROVE  /\ Service(req'[k]) \in met'[j]
               /\ ~raced' => Service(req'[j]) # "s3" \/ Service(req'[k]) # "s3"
    <3>1. CASE j # i /\ k # i
      BY <1>2, <1>3, <1>5, <2>1, <3>1 DEF IInv, MetOK
    <3>2. CASE j = i
      BY <1>1, <1>2, <1>3, <1>5, <2>1, <3>2
    <3>3. CASE k = i
      BY <1>1, <1>2, <1>3, <1>5, <2>1, <3>3
    <3> QED
      BY <3>1, <3>2, <3>3
  <2> QED
    BY <2>1 DEF MetOK, Service
<1>14. clean \in [{"s3", "mail"} -> Request \cup {None}]
  BY DEF IInv, Shape
<1>15. S3Agree' /\ CleanS3'
  <2>1. CASE Service(r) = "s3"
    BY <1>1, <1>14, <2>1 DEF S3Agree, CleanS3
  <2>2. CASE Service(r) # "s3"
    <3>1. clean'["s3"] = clean["s3"]
      BY <1>1, <1>14, <2>2
    <3>2. \A j \in Installers : Run(j)' => j = i \/ (Run(j) /\ req'[j] = req[j])
      BY <1>2, <1>5
    <3> QED
      BY <1>1, <2>2, <3>1, <3>2 DEF IInv, S3Agree, CleanS3, Service
  <2> QED
    BY <2>1, <2>2
<1>16. MailAgrees' /\ CleanMail'
  <2>1. CASE Service(r) = "mail"
    BY <1>1, <1>14, <2>1 DEF MailAgrees, CleanMail
  <2>2. CASE Service(r) # "mail"
    <3>1. clean'["mail"] = clean["mail"]
      BY <1>1, <1>14, <2>2
    <3>2. \A j \in Installers : Run(j)' => j = i \/ (Run(j) /\ req'[j] = req[j])
      BY <1>2, <1>5
    <3> QED
      BY <1>1, <2>2, <3>1, <3>2 DEF IInv, MailAgrees, CleanMail, Service
  <2> QED
    BY <2>1, <2>2
<1>17. OnePassword'
  <2> SUFFICES ASSUME ~misread', ~raced' PROVE OnePassword'
    BY DEF OnePassword
  <2>1. OnePassword /\ ~misread /\ ~raced
    BY <1>1, <1>3 DEF IInv
  <2>2. \A j \in Installers \ {i} : At(j, "writeRoot")' <=> At(j, "writeRoot")
    BY <1>2 DEF At, Running
  <2> QED
    BY <1>1, <1>2, <1>4, <1>5, <2>1, <2>2 DEF OnePassword
<1>18. Shape'
  <2>1. req' \in [Installers -> Request \cup {None}] /\ clean' \in [{"s3", "mail"} -> Request \cup {None}]
    BY <1>14 DEF IInv, Shape, Begin
  <2> QED
    BY <1>1, <1>4, <2>1 DEF IInv, Shape, PlansOK
<1>19. TypeOK'
  <2>1. TypeOK
    BY DEF IInv
  <2>2. met' \in [Installers -> SUBSET {"s3", "mail"}]
    BY <2>1 DEF TypeOK, Begin, Service
  <2>3. raced' \in BOOLEAN
    BY <2>1 DEF TypeOK, Begin
  <2>4. /\ key' \in [Installers -> Passwords \cup {None, "rook"}]
        /\ found' \in [Installers -> SUBSET {"s3", "smtp", "relay"}]
    BY <2>1 DEF TypeOK, Begin
  <2>5. \A j \in Installers : At(j, "masSecret")' => key'[j] # None
    BY <1>2, <1>4, <2>1 DEF TypeOK, At, Running
  <2>6. /\ \A j \in Installers : req'[j] = None \/ req'[j] \in Request
        /\ \A s \in {"s3", "mail"} : clean'[s] = None \/ clean'[s] \in Request
    BY <1>18 DEF Shape
  <2> QED
    BY <1>1, <1>4, <2>1, <2>2, <2>3, <2>4, <2>5, <2>6 DEF TypeOK, PlansOK
<1> QED
  BY <1>4, <1>11, <1>12, <1>13, <1>15, <1>16, <1>17, <1>18, <1>19 DEF IInv, PlansOK

-----------------------------------------------------------------------------
(* An install ends well. *)

\* Nothing is left to do.
LEMMA NothingLeft ==
    ASSUME NEW i \in Installers, todo[i] = <<>>
    PROVE  \A s : ~Left(i, s)
BY SortedEmpty DEF Left

LEMMA EndsKeeps ==
    ASSUME IInv, NEW i \in Installers, Ends(i)
    PROVE  IInv'
<1> DEFINE r == req[i]
<1>1. /\ state \in [Installers -> {"off", "run", "done", "failed"}]
      /\ todo \in [Installers -> Seq(StepNames)]
      /\ clean \in [{"s3", "mail"} -> Request \cup {None}]
  BY DEF IInv, TypeOK, Shape
<1>2. /\ Run(i) /\ ~Run(i)' /\ todo[i] = <<>> /\ r \in Request
      /\ \A j \in Installers \ {i} : state'[j] = state[j]
      /\ UNCHANGED <<root, dep, pod, job, buckets, masCred, cfg, conn, relay, mdep, mpod, mconn,
                     details, todo, key, found, req, met, misread, raced, begun, faults>>
  BY <1>1 DEF Ends, Run, minioVars, mailVars, masVars, IInv, PlanOK
<1>3. \A j \in Installers : Run(j)' <=> Run(j) /\ j # i
  BY <1>2 DEF Run
<1>4. clean' = IF Service(r) \in met[i] THEN clean ELSE [clean EXCEPT ![Service(r)] = r]
  BY DEF Ends
<1>5. \A s : ~Left(i, s)
  BY <1>2, NothingLeft
<1>6. ASSUME NEW j \in Installers
      PROVE  /\ PlanOK(j)' /\ KeyOK(j)' /\ MinioOK(j)' /\ RookOK(j)' /\ MailOK(j)' /\ FoundOK(j)'
             /\ ~At(i, "writeRoot")' /\ ~At(i, "masSecret")'
             /\ \A s : At(j, s)' => At(j, s)
  <2>1. /\ PlanOK(j) /\ KeyOK(j) /\ MinioOK(j) /\ RookOK(j) /\ MailOK(j) /\ FoundOK(j)
    BY DEF IInv
  <2>2. PlanOK(j)' /\ KeyOK(j)'
    BY <1>2, <1>3, <2>1 DEF PlanOK, KeyOK, Left, At, Running, Run
  <2>3. MinioOK(j)'
    BY <1>2, <1>3, <2>1 DEF MinioOK, Left
  <2>4. RookOK(j)' /\ MailOK(j)' /\ FoundOK(j)'
    BY <1>2, <1>3, <2>1 DEF RookOK, MailOK, FoundOK, Left
  <2>5. ~At(i, "writeRoot")' /\ ~At(i, "masSecret")' /\ \A s : At(j, s)' => At(j, s)
    BY <1>2, <1>3 DEF At, Running, Run
  <2> QED
    BY <2>2, <2>3, <2>4, <2>5
<1>7. MetOK'
  BY <1>2, <1>3 DEF IInv, MetOK
<1>8. \A j \in Installers : Run(j)' /\ Service(r) \notin met[i] => Service(req[j]) # Service(r)
  BY <1>2, <1>3 DEF IInv, MetOK
<1>9. S3Agree' /\ CleanS3'
  <2>1. S3Agree /\ CleanS3
    BY DEF IInv
  <2>2. CASE Service(r) = "s3" /\ "s3" \notin met[i]
    <3>1. clean'["s3"] = r
      BY <1>1, <1>4, <2>2
    <3>2. r.kind # "mailpit" /\ \A j \in Installers : Run(j)' => Service(req'[j]) # "s3"
      BY <1>2, <1>8, <2>2 DEF Service
    <3>3. CASE r.kind = "minio"
      <4>1. MinioOK(i)
        BY DEF IInv
      <4>2. /\ dep # None /\ dep.domain = TRUE
            /\ pod = None \/ (pod.domain = TRUE /\ pod.password = root)
            /\ buckets /\ root # None
            /\ r.mas => masCred["minio"] = root /\ cfg = "minio"
            /\ conn["minio"] = root
        BY <1>2, <1>5, <2>2, <3>3, <4>1 DEF MinioOK
      <4> QED
        BY <1>2, <3>1, <3>2, <3>3, <4>2 DEF S3Agree, CleanS3
    <3>4. CASE r.kind # "minio"
      <4>1. r.mas => masCred["rook"] = "rook" /\ cfg = "rook"
        BY <1>2, <1>5, <2>2, <3>2, <3>4, ServiceKind DEF IInv, RookOK
      <4> QED
        BY <1>2, <3>1, <3>2, <3>4, <4>1 DEF S3Agree, CleanS3
    <3> QED
      BY <3>3, <3>4
  <2>3. CASE ~(Service(r) = "s3" /\ "s3" \notin met[i])
    <3>1. clean'["s3"] = clean["s3"]
      BY <1>1, <1>4, <2>3
    <3> QED
      BY <1>2, <1>3, <2>1, <3>1 DEF S3Agree, CleanS3
  <2> QED
    BY <2>2, <2>3
<1>10. MailAgrees' /\ CleanMail'
  <2>1. MailAgrees /\ CleanMail
    BY DEF IInv
  <2>2. CASE Service(r) = "mail" /\ "mail" \notin met[i]
    <3>1. clean'["mail"] = r
      BY <1>1, <1>4, <2>2
    <3>2. r.kind = "mailpit" /\ \A j \in Installers : Run(j)' => Service(req'[j]) # "mail"
      BY <1>2, <1>8, <2>2 DEF Service
    <3>3. /\ mdep = Mode(r) /\ mpod # None /\ (mpod = "capture" <=> r.relay = None)
          /\ mconn = r.relay
      BY <1>2, <1>5, <2>2, <3>2 DEF IInv, MailOK
    <3> QED
      BY <1>2, <3>1, <3>2, <3>3 DEF MailAgrees, CleanMail
  <2>3. CASE ~(Service(r) = "mail" /\ "mail" \notin met[i])
    <3>1. clean'["mail"] = clean["mail"]
      BY <1>1, <1>4, <2>3
    <3> QED
      BY <1>2, <1>3, <2>1, <3>1 DEF MailAgrees, CleanMail
  <2> QED
    BY <2>2, <2>3
<1>11. OnePassword'
  BY <1>2, <1>3, <1>6 DEF IInv, OnePassword
<1>12. clean' \in [{"s3", "mail"} -> Request \cup {None}]
  BY <1>1, <1>2, <1>4
<1>13. state' \in [Installers -> {"off", "run", "done", "failed"}]
       /\ \A j \in Installers : state'[j] = "failed" => state[j] = "failed"
  BY <1>1, <1>2 DEF Ends
<1>14. Shape'
  BY <1>2, <1>12, <1>13 DEF IInv, Shape
<1>15. TypeOK'
  <2>1. TypeOK
    BY DEF IInv
  <2>2. \A s \in {"s3", "mail"} : clean'[s] = None \/ clean'[s] \in Request
    BY <1>12
  <2> QED
    BY <1>2, <1>6, <1>13, <2>1, <2>2 DEF TypeOK
<1> QED
  BY <1>6, <1>7, <1>9, <1>10, <1>11, <1>14, <1>15 DEF IInv

-----------------------------------------------------------------------------
(* The cluster. *)

\* What the cluster leaves alone keeps what is said of plans and details.
Still == UNCHANGED <<root, dep, masCred, cfg, conn, relay, mdep, mconn, details, state, req, todo,
                     key, found, met, clean, misread, raced, begun>>

\* The pods and the bucket job are as good as they were, or as new.
PodsFit ==
    /\ pod = None \/ pod \in Pod
    /\ mpod \in Relays \cup {None, "capture"}
    /\ job \in Passwords \cup {None, "new", "done"} /\ (job = "done" => buckets)
    /\ buckets \in BOOLEAN /\ faults \in 0..MaxFaults

LEMMA StillKeeps ==
    ASSUME IInv, Still, PodsFit', buckets => buckets',
           pod' = pod \/ pod' = None \/
                 (dep # None /\ root # None /\ pod' = [password |-> root, domain |-> dep.domain]),
           mpod' = mpod \/ (mdep # None /\ ~MRolledOut)
    PROVE  IInv'
<1>1. ASSUME NEW j \in Installers
      PROVE  /\ Run(j)' = Run(j) /\ \A s : (Left(j, s)' <=> Left(j, s)) /\ (At(j, s)' <=> At(j, s))
             /\ PlanOK(j)' /\ KeyOK(j)' /\ RookOK(j)' /\ FoundOK(j)'
  <2>1. PlanOK(j) /\ KeyOK(j) /\ RookOK(j) /\ FoundOK(j)
    BY DEF IInv
  <2>2. Run(j)' = Run(j) /\ \A s : (Left(j, s)' <=> Left(j, s)) /\ (At(j, s)' <=> At(j, s))
    BY DEF Still, Run, Left, At, Running
  <2> QED
    BY <2>1, <2>2 DEF Still, PlanOK, KeyOK, RookOK, FoundOK
<1>2. pod' = pod \/ pod' = None \/
          (dep # None /\ pod' # None /\ pod'.password = root /\ pod'.domain = dep.domain)
  <2>1. ASSUME pod' = [password |-> root, domain |-> dep.domain], dep # None, root # None
        PROVE  pod' # None
    <3>1. dep.domain \in BOOLEAN /\ root \in Passwords
      BY <2>1 DEF IInv, TypeOK, Deployment
    <3>2. pod' \in Pod
      BY <2>1, <3>1 DEF Pod
    <3> QED
      BY <3>2
  <2> QED
    BY <2>1
<1>3. ASSUME NEW j \in Installers, Run(j), req[j].kind = "minio"
      PROVE  /\ ~Left(j, "rollout") => ~Left(j, "deploy")
             /\ ~Left(j, "reroll") => ~Left(j, "deploy") /\ ~Left(j, "domain")
  <2>1. CASE todo[j] = <<>>
    BY <2>1, NothingLeft
  <2>2. CASE todo[j] # <<>>
    <3>1. At(j, Head(todo[j]))
      BY <1>3, <2>2 DEF At, Running, Run
    <3>2. Head(todo[j]) \in StepNames
      BY <3>1, Position
    <3>3. Rank[Head(todo[j])] \in Int
      BY <3>2, RankInt
    <3> QED
      BY <1>3, <3>1, <3>3, MinioPos
  <2> QED
    BY <2>1, <2>2
<1>4. ASSUME NEW j \in Installers PROVE MinioOK(j)'
  <2> SUFFICES ASSUME Run(j), req[j].kind = "minio", "s3" \notin met[j] PROVE MinioOK(j)'
    BY <1>1 DEF Still, MinioOK
  <2>1. MinioOK(j)
    BY DEF IInv
  <2>2. \/ Left(j, "deploy")
        \/ dep # None /\ dep.domain = (IF Left(j, "domain") THEN FALSE ELSE TRUE)
    BY <2>1 DEF MinioOK
  <2>3. \/ Left(j, "rollout") \/ pod' = None \/ pod'.domain = FALSE
        \/ ~Left(j, "domain") /\ pod'.password = root
    BY <1>2, <1>3, <2>1, <2>2 DEF MinioOK
  <2>4. Left(j, "reroll") \/ pod' = None \/ (pod'.domain = TRUE /\ pod'.password = root)
    BY <1>2, <1>3, <2>1, <2>2 DEF MinioOK
  <2>5. Left(j, "awaitJob") \/ buckets'
    BY <2>1 DEF MinioOK
  <2> QED
    BY <1>1, <2>1, <2>2, <2>3, <2>4, <2>5 DEF Still, MinioOK
<1>5. ASSUME NEW j \in Installers, Run(j), req[j].kind = "mailpit"
      PROVE  ~Left(j, "mrollout") => ~Left(j, "mdeploy")
  <2>1. CASE todo[j] = <<>>
    BY <2>1, NothingLeft
  <2>2. CASE todo[j] # <<>>
    <3>1. At(j, Head(todo[j]))
      BY <1>5, <2>2 DEF At, Running, Run
    <3>2. Head(todo[j]) \in StepNames
      BY <3>1, Position
    <3>3. Rank[Head(todo[j])] \in Int
      BY <3>2, RankInt
    <3> QED
      BY <1>5, <3>1, <3>3, MailPos
  <2> QED
    BY <2>1, <2>2
<1>6. ASSUME NEW j \in Installers PROVE MailOK(j)'
  <2> SUFFICES ASSUME Run(j), req[j].kind = "mailpit", "mail" \notin met[j] PROVE MailOK(j)'
    BY <1>1 DEF Still, MailOK
  <2>1. MailOK(j)
    BY DEF IInv
  <2>2. ASSUME ~Left(j, "mrollout") PROVE mpod' = mpod
    <3>1. mdep = Mode(req[j]) /\ mpod # None /\ (mpod = "capture" <=> req[j].relay = None)
      BY <1>5, <2>1, <2>2 DEF MailOK
    <3> QED
      BY <3>1 DEF Mode, MRolledOut
  <2> QED
    BY <1>1, <2>1, <2>2 DEF Still, MailOK
<1>7. MetOK'
  BY <1>1 DEF Still, IInv, MetOK
<1>8. S3Agree' /\ CleanS3'
  <2>1. S3Agree /\ CleanS3
    BY DEF IInv
  <2>2. CleanS3'
    BY <1>1, <2>1 DEF Still, CleanS3
  <2>3. S3Agree'
    BY <1>2, <2>1 DEF Still, S3Agree, CleanS3
  <2> QED
    BY <2>2, <2>3
<1>9. MailAgrees' /\ CleanMail'
  <2>1. MailAgrees /\ CleanMail
    BY DEF IInv
  <2>2. CleanMail'
    BY <1>1, <2>1 DEF Still, CleanMail
  <2>3. clean["mail"] # None => mpod' = mpod
    BY <2>1 DEF MailAgrees, CleanMail, Mode, MRolledOut
  <2>4. MailAgrees'
    BY <2>1, <2>3 DEF Still, MailAgrees
  <2> QED
    BY <2>2, <2>4
<1>10. OnePassword'
  BY <1>1, <1>2 DEF Still, IInv, OnePassword
<1>11. Shape' /\ TypeOK'
  <2>1. Shape /\ TypeOK
    BY DEF IInv
  <2> QED
    BY <1>1, <2>1 DEF Still, PodsFit, Shape, TypeOK
<1> QED
  BY <1>1, <1>4, <1>6, <1>7, <1>8, <1>9, <1>10, <1>11 DEF IInv

LEMMA ClusterKeeps == ASSUME IInv, Cluster \/ PodLost PROVE IInv'
<1>1. PodsFit
  BY DEF IInv, TypeOK, Shape, PodsFit
<1>2. \A v \in {"new", "done"} : v \notin Passwords /\ v # None
  OBVIOUS
<1>3. root # None => root \in Passwords
  BY DEF IInv, TypeOK
<1>4. CASE PodStops
  BY <1>1, <1>4, StillKeeps DEF PodStops, Elsewhere, Still, PodsFit, mailVars, masVars, history
<1>5. CASE PodStarts
  <2>1. pod' \in Pod
    BY <1>3, <1>5 DEF PodStarts, IInv, TypeOK, Deployment, Pod
  <2>2. Still /\ PodsFit' /\ UNCHANGED <<buckets, mpod>>
    BY <1>1, <1>5, <2>1 DEF PodStarts, Elsewhere, Still, PodsFit, mailVars, masVars, history
  <2> QED
    BY <1>5, <2>2, StillKeeps DEF PodStarts
<1>6. CASE PodLost
  <2>1. faults' \in 0..MaxFaults
    BY <1>6, FaultCounts DEF PodLost
  <2> QED
    BY <1>1, <1>6, <2>1, StillKeeps DEF PodLost, Elsewhere, Still, PodsFit, mailVars, masVars, history
<1>7. CASE JobStarts
  BY <1>1, <1>2, <1>3, <1>7, StillKeeps DEF JobStarts, Elsewhere, Still, PodsFit, mailVars,
     masVars, history
<1>8. CASE JobCompletes
  BY <1>1, <1>2, <1>8, StillKeeps DEF JobCompletes, Elsewhere, Still, PodsFit, mailVars,
     masVars, history
<1>9. CASE MPodStarts
  <2>1. mpod' \in Relays \cup {None, "capture"}
    BY <1>9 DEF MPodStarts, IInv, TypeOK
  <2> QED
    BY <1>1, <1>9, <2>1, StillKeeps DEF MPodStarts, Still, PodsFit, minioVars, masVars, history
<1> QED
  BY <1>4, <1>5, <1>6, <1>7, <1>8, <1>9 DEF Cluster

-----------------------------------------------------------------------------
(* The invariant. *)

LEMMA InitIInv == Init => IInv
<1> SUFFICES ASSUME Init PROVE IInv
  OBVIOUS
<1>1. \A i \in Installers : ~Run(i) /\ state[i] = "off" /\ todo[i] = <<>> /\ req[i] = None
  BY DEF Init, Run
<1>2. \A i \in Installers : \A s : ~At(i, s)
  BY <1>1 DEF At, Running, Run
<1>3. root \in Passwords \cup {None}
  BY DEF Init
<1>4. dep = None \/ dep \in Deployment
  BY DeploymentIs DEF Init
<1>5. pod = None \/ (pod \in Pod /\ pod.password = root)
  <2>1. ASSUME root = (CHOOSE p \in Passwords : TRUE), pod = [password |-> root, domain |-> FALSE]
        PROVE  pod \in Pod /\ pod.password = root
    <3>1. root \in Passwords
      BY <2>1
    <3> QED
      BY <2>1, <3>1 DEF Pod
  <2> QED
    BY <2>1 DEF Init
<1>6. todo \in [Installers -> Seq(StepNames)]
  BY EmptySeq DEF Init
<1>7. None \notin {"done", "new"} /\ 0 \in 0..MaxInstalls /\ 0 \in 0..MaxFaults
  OBVIOUS
<1>8. TypeOK
  BY <1>1, <1>2, <1>3, <1>4, <1>5, <1>7 DEF Init, TypeOK
<1>9. Shape
  BY <1>1, <1>6, <1>7 DEF Init, Shape
<1>10. OnePassword
  BY <1>1, <1>5 DEF Init, OnePassword, Providers
<1>11. MetOK /\ S3Agree /\ CleanS3 /\ MailAgrees /\ CleanMail
  BY <1>1 DEF Init, MetOK, S3Agree, CleanS3, MailAgrees, CleanMail
<1>12. \A i \in Installers :
          PlanOK(i) /\ KeyOK(i) /\ MinioOK(i) /\ RookOK(i) /\ MailOK(i) /\ FoundOK(i)
  BY <1>1 DEF PlanOK, KeyOK, MinioOK, RookOK, MailOK, FoundOK
<1> QED
  BY <1>8, <1>9, <1>10, <1>11, <1>12 DEF IInv

LEMMA NextIInv == IInv /\ [Next]_vars => IInv'
<1> SUFFICES ASSUME IInv, [Next]_vars PROVE IInv'
  OBVIOUS
<1>1. CASE Cluster \/ PodLost
  BY <1>1, ClusterKeeps
<1>2. begun \in 0..MaxInstalls /\ MaxInstalls \in Nat
  BY DEF IInv, TypeOK
<1>3. ASSUME NEW i \in Installers, Start(i) PROVE IInv'
  <2>1. PICK r \in Requests : Begin(i, r)
    BY <1>3 DEF Start
  <2>2. r \in Request /\ state[i] # "run" /\ begun' \in 0..MaxInstalls
    BY <1>2, <1>3 DEF Start
  <2> QED
    BY <2>1, <2>2, BeginKeeps
<1>4. ASSUME NEW i \in Installers, Again(i) PROVE IInv'
  <2>1. req[i] \in Request /\ Begin(i, req[i]) /\ state[i] # "run" /\ begun' \in 0..MaxInstalls
    BY <1>2, <1>4 DEF Again, IInv, Shape
  <2> QED
    BY <2>1, BeginKeeps
<1>5. ASSUME NEW i \in Installers, Step(i) PROVE IInv'
  BY <1>5, StepKeeps, EndsKeeps
<1>6. CASE UNCHANGED vars
  <2>1. Still /\ UNCHANGED <<pod, job, buckets, mpod, faults>>
    BY <1>6 DEF vars, minioVars, mailVars, masVars, history, Still
  <2>2. PodsFit'
    BY <2>1 DEF IInv, TypeOK, Shape, PodsFit
  <2> QED
    BY <2>1, <2>2, StillKeeps
<1> QED
  BY <1>1, <1>3, <1>4, <1>5, <1>6 DEF Next

LEMMA IInvHolds == Spec => []IInv
BY InitIInv, NextIInv, PTL DEF Spec

-----------------------------------------------------------------------------
(* The theorems. *)

\* An install that ended well, alone, took effect: the Secrets and the pod of MinIO hold
\* one password, MAS is given it, and mail is relayed if that was asked for.
THEOREM ServicesAgreeHolds == Spec => []ServicesAgree
<1>1. IInv => ServicesAgree
  BY DEF IInv, ServicesAgree
<1> QED
  BY <1>1, IInvHolds, PTL

\* No install, however it fails, locks MAS or users out of MinIO; unless an error was
\* taken for a missing Secret, or two installs of a store overlapped.
THEOREM AccessKeptHolds == Spec => []AccessKept
<1>1. ASSUME IInv PROVE AccessKept
  <2> SUFFICES ASSUME ~misread, ~raced, NEW p \in {masCred["minio"], conn["minio"]} \ {None}
               PROVE  root = p /\ (pod # None => pod.password = p)
    BY DEF AccessKept
  <2> QED
    BY <1>1 DEF IInv, OnePassword
<1> QED
  BY <1>1, IInvHolds, PTL

\* No install takes the details of another service away, unless the two overlapped.
THEOREM DetailsKeptHolds == Spec => DetailsKept
<1> DEFINE Kept == \A k \in details \ details' :
                      \E i \in Installers : At(i, "writeDetails") /\ met[i] # {}
<1>1. ASSUME IInv, [Next]_vars PROVE [Kept]_vars
  <2> SUFFICES ASSUME NEW k \in details, k \notin details'
               PROVE  \E i \in Installers : At(i, "writeDetails") /\ met[i] # {}
    OBVIOUS
  <2>1. PICK i \in Installers : Step(i) /\ ~Ends(i)
    <3>1. ~(Cluster \/ PodLost)
      BY DEF Cluster, PodLost, PodStops, PodStarts, JobStarts, JobCompletes, MPodStarts, Elsewhere,
         masVars
    <3>2. ASSUME NEW i \in Installers PROVE ~Start(i) /\ ~Again(i) /\ ~Ends(i)
      BY DEF Start, Again, Begin, Ends, masVars
    <3>3. ~UNCHANGED vars
      BY DEF vars, masVars
    <3> QED
      BY <1>1, <3>1, <3>2, <3>3 DEF Next
  <2>2. WriteDetails(i)
    BY <1>1, <2>1, DetailsUnlessWritten
  <2>3. At(i, "writeDetails") /\ req[i].kind # "rook" /\ details' = Merged(found[i], req[i])
    BY <2>2 DEF WriteDetails
  <2>4. k \notin found[i]
    BY <2>3 DEF Merged
  <2>5. Run(i) /\ Left(i, "writeDetails") /\ ~Left(i, "readDetails")
    <3>1. /\ Run(i) /\ "writeDetails" \in StepNames
          /\ "writeDetails" \in Needed(req[i])
          /\ \A s \in StepNames :
                Left(i, s) <=> s \in Needed(req[i]) /\ Rank["writeDetails"] <= Rank[s]
      BY <1>1, <2>3, Position
    <3>2. "readDetails" \in StepNames
      BY DEF StepNames, EndNames
    <3> QED
      BY <3>1, <3>2, Ranks
  <2>6. met[i] # {}
    BY <1>1, <2>4, <2>5 DEF IInv, FoundOK
  <2> QED
    BY <2>3, <2>6
<1> QED
  BY <1>1, IInvHolds, PTL DEF Spec, DetailsKept
=============================================================================
