---------------------------- MODULE MasAuth_proofs ----------------------------
(***************************************************************************)
(* Proofs about MasAuth: whatever runs of apply and delete there are, in   *)
(* whichever order and wherever they stop, what a run that ended well has  *)
(* set up agrees, a delete leaves none of its providers, and the Suite     *)
(* keeps its templates.                                                    *)
(***************************************************************************)
EXTENDS MasAuth, SequenceTheorems, TLAPS

-----------------------------------------------------------------------------
(* Lists of steps. *)

Items == StepKinds \X (Providers \cup {"-"})

Has(t, s) == \E n \in 1..Len(t) : t[n] = s

LEMMA ConcatHas ==
    ASSUME NEW S, NEW t \in Seq(S), NEW u \in Seq(S), NEW s, Has(t, s) \/ Has(u, s)
    PROVE  Has(t \o u, s)
<1>1. Len(t) \in Nat /\ Len(u) \in Nat
  BY LenProperties
<1>2. /\ Len(t \o u) = Len(t) + Len(u)
      /\ \A i \in 1..Len(t) + Len(u) : (t \o u)[i] = IF i <= Len(t) THEN t[i] ELSE u[i - Len(t)]
  BY ConcatProperties
<1>3. CASE Has(t, s)
  <2>1. PICK n \in 1..Len(t) : t[n] = s
    BY <1>3 DEF Has
  <2>2. n \in 1..Len(t \o u) /\ (t \o u)[n] = s
    BY <1>1, <1>2, <2>1
  <2> QED
    BY <2>2 DEF Has
<1>4. CASE Has(u, s)
  <2>1. PICK n \in 1..Len(u) : u[n] = s
    BY <1>4 DEF Has
  <2>2. Len(t) + n \in 1..Len(t \o u) /\ (t \o u)[Len(t) + n] = s
    BY <1>1, <1>2, <2>1
  <2> QED
    BY <2>2 DEF Has
<1> QED
  BY <1>3, <1>4

LEMMA OnlyType ==
    ASSUME NEW K, NEW kinds \in Seq(K), NEW p \in Providers, NEW P
    PROVE  Only(kinds, p, P) \in Seq(K \X (P \cap Providers))
<1>1. Len(kinds) \in Nat /\ \A i \in 1..Len(kinds) : kinds[i] \in K
  BY LenProperties, ElementOfSeq
<1>2. CASE p \in P
  <2>1. \A i \in 1..Len(kinds) : <<kinds[i], p>> \in K \X (P \cap Providers)
    BY <1>1, <1>2
  <2>2. [i \in 1..Len(kinds) |-> <<kinds[i], p>>] \in Seq(K \X (P \cap Providers))
    BY <1>1, <2>1, IsASeq
  <2> QED
    BY <1>2, <2>2 DEF Only
<1> QED
  BY <1>2 DEF Only

LEMMA OnlyHas ==
    ASSUME NEW K, NEW kinds \in Seq(K), NEW p \in Providers, NEW P, p \in P,
           NEW n \in 1..Len(kinds)
    PROVE  Has(Only(kinds, p, P), <<kinds[n], p>>)
<1>1. Len(kinds) \in Nat
  BY LenProperties
<1>2. Only(kinds, p, P) = [i \in 1..Len(kinds) |-> <<kinds[i], p>>]
  BY DEF Only
<1>3. Len(Only(kinds, p, P)) = Len(kinds) /\ Only(kinds, p, P)[n] = <<kinds[n], p>>
  BY <1>1, <1>2
<1> QED
  BY <1>3 DEF Has

LEMMA EachType ==
    ASSUME NEW K, NEW kinds \in Seq(K), NEW P
    PROVE  Each(kinds, P) \in Seq(K \X (P \cap Providers))
<1>1. /\ Only(kinds, "ldap", P) \in Seq(K \X (P \cap Providers))
      /\ Only(kinds, "oidc", P) \in Seq(K \X (P \cap Providers))
      /\ Only(kinds, "saml", P) \in Seq(K \X (P \cap Providers))
  BY OnlyType DEF Providers
<1>2. Only(kinds, "ldap", P) \o Only(kinds, "oidc", P) \in Seq(K \X (P \cap Providers))
  BY <1>1, ConcatProperties
<1> QED
  BY <1>1, <1>2, ConcatProperties DEF Each

LEMMA EachHasNth ==
    ASSUME NEW K, NEW kinds \in Seq(K), NEW P, NEW p \in P \cap Providers,
           NEW n \in 1..Len(kinds)
    PROVE  Has(Each(kinds, P), <<kinds[n], p>>)
<1> DEFINE S == K \X (P \cap Providers)
           l == Only(kinds, "ldap", P)
           o == Only(kinds, "oidc", P)
           m == Only(kinds, "saml", P)
<1>1. l \in Seq(S) /\ o \in Seq(S) /\ m \in Seq(S) /\ l \o o \in Seq(S)
  BY OnlyType, ConcatProperties DEF Providers
<1>2. Has(Only(kinds, p, P), <<kinds[n], p>>)
  BY OnlyHas
<1>3. \/ Has(l, <<kinds[n], p>>) \/ Has(o, <<kinds[n], p>>) \/ Has(m, <<kinds[n], p>>)
  BY <1>2 DEF Providers
<1>4. Each(kinds, P) = (l \o o) \o m
  BY DEF Each
<1> HIDE DEF l, o, m, S
<1>5. Has(l, <<kinds[n], p>>) \/ Has(o, <<kinds[n], p>>) => Has(l \o o, <<kinds[n], p>>)
  BY <1>1, ConcatHas
<1>6. Has(l \o o, <<kinds[n], p>>) \/ Has(m, <<kinds[n], p>>)
                          => Has((l \o o) \o m, <<kinds[n], p>>)
  BY <1>1, ConcatHas
<1> QED
  BY <1>3, <1>4, <1>5, <1>6

LEMMA EachHas ==
    ASSUME NEW kinds \in Seq(StepKinds), NEW kind, Has(kinds, kind), NEW P, NEW p \in P,
           p \in Providers
    PROVE  Has(Each(kinds, P), <<kind, p>>)
<1>1. PICK n \in 1..Len(kinds) : kinds[n] = kind
  BY DEF Has
<1> QED
  BY <1>1, EachHasNth

LEMMA EachItems ==
    ASSUME NEW kinds \in Seq(StepKinds), NEW P PROVE Each(kinds, P) \in Seq(Items)
<1>1. Each(kinds, P) \in Seq(StepKinds \X (P \cap Providers))
  BY EachType
<1>2. StepKinds \X (P \cap Providers) \subseteq Items
  BY DEF Items
<1> QED
  BY <1>1, <1>2, SeqMonotonic

\* The list of a run, up to its last part, the connection Secrets.
BeforeConn(P, cr) ==
    MemorySteps \o KeycloakSteps(P) \o (IF cr THEN CRSteps(P) ELSE AdminSteps(P))
      \o << <<"details", "-">> >>

Plain == StepKinds \ {"read", "patch", "conn"}
Sane(P) == Plain \X ((P \cap Providers) \cup {"-"})

\* Every list of one call for some providers is part of the plan.
LEMMA EachSane ==
    ASSUME NEW kinds \in Seq(Plain), NEW P, NEW Q, P \subseteq Q
    PROVE  Each(kinds, P) \in Seq(Sane(Q))
<1>1. Each(kinds, P) \in Seq(Plain \X (P \cap Providers))
  BY EachType
<1>2. Plain \X (P \cap Providers) \subseteq Sane(Q)
  BY DEF Sane
<1> QED
  BY <1>1, <1>2, SeqMonotonic

LEMMA KeycloakSane == ASSUME NEW P PROVE KeycloakSteps(P) \in Seq(Sane(P))
<1>1. /\ For("kc", P \cap {"oidc"}) \in Seq(Sane(P))
      /\ Each(<<"kc", "mappers">>, P \cap {"saml"}) \in Seq(Sane(P))
  <2>1. <<"kc">> \in Seq(Plain) /\ <<"kc", "mappers">> \in Seq(Plain)
    BY DEF Plain, StepKinds
  <2> QED
    BY <2>1, EachSane DEF For
<1> QED
  BY <1>1, ConcatProperties DEF KeycloakSteps

LEMMA AdminSane == ASSUME NEW P PROVE AdminSteps(P) \in Seq(Sane(P))
<1>1. << <<"selfreg", "-">> >> \in Seq(Sane(P))
  BY DEF Sane, Plain, StepKinds
<1>2. /\ Each(<<"put", "wait">>, P \cap {"ldap", "oidc"}) \in Seq(Sane(P))
      /\ Each(<<"put", "meta", "wait">>, P \cap {"saml"}) \in Seq(Sane(P))
  <2>1. /\ <<"put", "wait">> \in Seq(Plain)
        /\ <<"put", "meta", "wait">> \in Seq(Plain)
    BY DEF Plain, StepKinds
  <2> QED
    BY <2>1, EachSane
<1>3. << <<"selfreg", "-">> >> \o Each(<<"put", "wait">>, P \cap {"ldap", "oidc"}) \in Seq(Sane(P))
  BY <1>1, <1>2, ConcatProperties
<1> QED
  BY <1>2, <1>3, ConcatProperties DEF AdminSteps

LEMMA CRSane == ASSUME NEW P PROVE CRSteps(P) \in Seq(Sane(P))
<1> DEFINE a == For("crd", P \cap {"oidc"})
           b == Each(<<"cred", "cr">>, P \cap {"ldap", "oidc"})
           c == For("cr", P \cap {"saml"})
           d == For("wait", P)
<1>1. a \in Seq(Sane(P)) /\ b \in Seq(Sane(P)) /\ c \in Seq(Sane(P)) /\ d \in Seq(Sane(P))
  <2>1. /\ <<"crd">> \in Seq(Plain) /\ <<"cred", "cr">> \in Seq(Plain)
        /\ <<"cr">> \in Seq(Plain) /\ <<"wait">> \in Seq(Plain)
    BY DEF Plain, StepKinds
  <2> QED
    BY <2>1, EachSane DEF For
<1>2. CRSteps(P) = ((a \o b) \o c) \o d
  BY DEF CRSteps
<1> HIDE DEF a, b, c, d
<1>3. a \o b \in Seq(Sane(P))
  BY <1>1, ConcatProperties
<1>4. (a \o b) \o c \in Seq(Sane(P))
  BY <1>1, <1>3, ConcatProperties
<1> QED
  BY <1>1, <1>2, <1>4, ConcatProperties

\* A list that begins with the pod's memory and has no connection Secret.
Begun(t, P) ==
    /\ t \in Seq((StepKinds \ {"conn"}) \X (P \cup {"-"}))
    /\ Len(t) > 1 /\ t[1] = <<"read", "-">> /\ t[2] = <<"patch", "-">>
    /\ \A n \in 3..Len(t) : t[n][1] \notin {"read", "patch"}

LEMMA BegunOn ==
    ASSUME NEW P \in SUBSET Providers, NEW t, Begun(t, P), NEW u \in Seq(Sane(P))
    PROVE  Begun(t \o u, P)
<1> DEFINE T == (StepKinds \ {"conn"}) \X (P \cup {"-"})
<1>1. t \in Seq(T) /\ u \in Seq(T)
  <2>1. Sane(P) \subseteq T
    BY DEF Sane, Plain
  <2> QED
    BY <2>1, SeqMonotonic DEF Begun
<1>2. /\ Len(t) \in Nat /\ Len(u) \in Nat /\ Len(t \o u) = Len(t) + Len(u) /\ t \o u \in Seq(T)
      /\ \A n \in 1..Len(t) + Len(u) : (t \o u)[n] = IF n <= Len(t) THEN t[n] ELSE u[n - Len(t)]
  BY <1>1, LenProperties, ConcatProperties
<1>3. \A n \in 1..Len(u) : u[n][1] \notin {"read", "patch"}
  <2>1. \A n \in 1..Len(u) : u[n] \in Sane(P)
    BY ElementOfSeq
  <2> QED
    BY <2>1 DEF Sane, Plain
<1>4. \A n \in 3..Len(t \o u) : (t \o u)[n][1] \notin {"read", "patch"}
  BY <1>2, <1>3 DEF Begun
<1>5. (t \o u)[1] = t[1] /\ (t \o u)[2] = t[2] /\ Len(t \o u) > 1
  BY <1>2 DEF Begun
<1> HIDE DEF T
<1> QED
  BY <1>2, <1>4, <1>5 DEF Begun, T

LEMMA BeforeConnBegun ==
    ASSUME NEW P \in SUBSET Providers, NEW cr \in BOOLEAN
    PROVE  Begun(BeforeConn(P, cr), P)
<1> DEFINE w == IF cr THEN CRSteps(P) ELSE AdminSteps(P)
           e == << <<"details", "-">> >>
<1>1. Begun(MemorySteps, P) /\ e \in Seq(Sane(P))
  BY DEF MemorySteps, Begun, Sane, Plain, StepKinds
<1>2. KeycloakSteps(P) \in Seq(Sane(P)) /\ w \in Seq(Sane(P))
  BY KeycloakSane, CRSane, AdminSane
<1>3. BeforeConn(P, cr) = ((MemorySteps \o KeycloakSteps(P)) \o w) \o e
  BY DEF BeforeConn
<1> HIDE DEF w, e
<1>4. Begun(MemorySteps \o KeycloakSteps(P), P)
  BY <1>1, <1>2, BegunOn
<1>5. Begun((MemorySteps \o KeycloakSteps(P)) \o w, P)
  BY <1>2, <1>4, BegunOn
<1> QED
  BY <1>1, <1>3, <1>5, BegunOn

LEMMA KeycloakHas ==
    ASSUME NEW P
    PROVE  /\ "oidc" \in P => Has(KeycloakSteps(P), <<"kc", "oidc">>)
           /\ "saml" \in P => /\ Has(KeycloakSteps(P), <<"kc", "saml">>)
                              /\ Has(KeycloakSteps(P), <<"mappers", "saml">>)
<1> DEFINE one == <<"kc">>
           two == <<"kc", "mappers">>
           a == Each(one, P \cap {"oidc"})
           b == Each(two, P \cap {"saml"})
<1>1. /\ one \in Seq(StepKinds) /\ Has(one, "kc")
      /\ two \in Seq(StepKinds) /\ Has(two, "kc") /\ Has(two, "mappers")
  BY DEF StepKinds, Has
<1>2. KeycloakSteps(P) = a \o b
  BY DEF KeycloakSteps, For
<1> HIDE DEF one, two
<1>3. a \in Seq(Items) /\ b \in Seq(Items)
  BY <1>1, EachItems
<1>4. "oidc" \in P => Has(a, <<"kc", "oidc">>)
  BY <1>1, EachHas DEF Providers
<1>5. "saml" \in P => Has(b, <<"kc", "saml">>) /\ Has(b, <<"mappers", "saml">>)
  BY <1>1, EachHas DEF Providers
<1> HIDE DEF a, b
<1> QED
  BY <1>2, <1>3, <1>4, <1>5, ConcatHas

LEMMA AdminHas ==
    ASSUME NEW P \in SUBSET Providers
    PROVE  /\ Has(AdminSteps(P), <<"selfreg", "-">>)
           /\ \A p \in P : Has(AdminSteps(P), <<"put", p>>)
           /\ "saml" \in P => Has(AdminSteps(P), <<"meta", "saml">>)
<1> DEFINE a == << <<"selfreg", "-">> >>
           two == <<"put", "wait">>
           three == <<"put", "meta", "wait">>
           b == Each(two, P \cap {"ldap", "oidc"})
           c == Each(three, P \cap {"saml"})
<1>1. /\ two \in Seq(StepKinds) /\ Has(two, "put")
      /\ three \in Seq(StepKinds) /\ Has(three, "put") /\ Has(three, "meta")
      /\ a \in Seq(Items) /\ Has(a, <<"selfreg", "-">>)
  BY DEF StepKinds, Items, Has
<1>2. AdminSteps(P) = (a \o b) \o c
  BY DEF AdminSteps
<1> HIDE DEF a, two, three
<1>3. b \in Seq(Items) /\ c \in Seq(Items)
  BY <1>1, EachItems
<1>4. \A p \in P \cap {"ldap", "oidc"} : Has(b, <<"put", p>>)
  BY <1>1, EachHas
<1>5. "saml" \in P => Has(c, <<"put", "saml">>) /\ Has(c, <<"meta", "saml">>)
  BY <1>1, EachHas DEF Providers
<1> HIDE DEF b, c
<1>6. a \o b \in Seq(Items)
  BY <1>1, <1>3, ConcatProperties
<1>7. \A s : Has(a, s) \/ Has(b, s) => Has(a \o b, s)
  BY <1>1, <1>3, ConcatHas
<1>8. \A s : Has(a \o b, s) \/ Has(c, s) => Has((a \o b) \o c, s)
  BY <1>3, <1>6, ConcatHas
<1> QED
  BY <1>1, <1>2, <1>4, <1>5, <1>7, <1>8 DEF Providers

LEMMA CRHas ==
    ASSUME NEW P \in SUBSET Providers
    PROVE  /\ \A p \in P : Has(CRSteps(P), <<"cr", p>>)
           /\ \A p \in P \cap {"ldap", "oidc"} : Has(CRSteps(P), <<"cred", p>>)
<1> DEFINE one == <<"crd">>
           two == <<"cred", "cr">>
           three == <<"cr">>
           four == <<"wait">>
           a == Each(one, P \cap {"oidc"})
           b == Each(two, P \cap {"ldap", "oidc"})
           c == Each(three, P \cap {"saml"})
           d == Each(four, P)
<1>1. /\ two \in Seq(StepKinds) /\ Has(two, "cred") /\ Has(two, "cr")
      /\ three \in Seq(StepKinds) /\ Has(three, "cr")
      /\ one \in Seq(StepKinds) /\ four \in Seq(StepKinds)
  BY DEF StepKinds, Has
<1>2. CRSteps(P) = ((a \o b) \o c) \o d
  BY DEF CRSteps, For
<1> HIDE DEF one, two, three, four
<1>3. a \in Seq(Items) /\ b \in Seq(Items) /\ c \in Seq(Items) /\ d \in Seq(Items)
  BY <1>1, EachItems
<1>4. \A p \in P \cap {"ldap", "oidc"} : Has(b, <<"cred", p>>) /\ Has(b, <<"cr", p>>)
  BY <1>1, EachHas
<1>5. "saml" \in P => Has(c, <<"cr", "saml">>)
  BY <1>1, EachHas DEF Providers
<1> HIDE DEF a, b, c, d
<1>6. a \o b \in Seq(Items)
  BY <1>3, ConcatProperties
<1>7. (a \o b) \o c \in Seq(Items)
  BY <1>3, <1>6, ConcatProperties
<1>8. \A s : Has(b, s) \/ Has(c, s) => Has((a \o b) \o c, s)
  BY <1>3, <1>6, ConcatHas
<1>9. \A s : Has(b, s) \/ Has(c, s) => Has(((a \o b) \o c) \o d, s)
  BY <1>3, <1>7, <1>8, ConcatHas
<1> QED
  BY <1>2, <1>4, <1>5, <1>9 DEF Providers

-----------------------------------------------------------------------------
(* What is known of the list of a run for the providers P. *)

Plan(t, P) ==
    /\ t \in Seq(StepKinds \X (P \cup {"-"}))
    /\ \A m, n \in 1..Len(t) : m <= n /\ t[m][1] = "conn" => t[n][1] = "conn"
    /\ \A n \in 2..Len(t) : /\ t[n][1] # "read"
                            /\ t[n][1] = "patch" <=> n = 2 /\ t[1][1] = "read"
    /\ Len(t) > 0 /\ t[1][1] = "read" => Len(t) > 1

\* Some step of the list writes the object.
Pending(t, P, o) == \E n \in 1..Len(t) : o \in Written(t[n], P)

LEMMA StepsPlan ==
    ASSUME NEW P \in SUBSET Providers, NEW cr \in BOOLEAN
    PROVE  Plan(Steps(P, cr), P) /\ Head(Steps(P, cr))[1] = "read"
<1> DEFINE b == BeforeConn(P, cr)
           c == For("conn", P)
           T == StepKinds \X (P \cup {"-"})
<1>1. Begun(b, P) /\ b \in Seq(T)
  <2>1. (StepKinds \ {"conn"}) \X (P \cup {"-"}) \subseteq T
    OBVIOUS
  <2>2. Begun(b, P)
    BY BeforeConnBegun
  <2>3. b \in Seq((StepKinds \ {"conn"}) \X (P \cup {"-"}))
    BY <2>2 DEF Begun
  <2> QED
    BY <2>1, <2>2, <2>3, SeqMonotonic
<1>2. c \in Seq({"conn"} \X P) /\ c \in Seq(T)
  <2>1. {"conn"} \X (P \cap Providers) = {"conn"} \X P /\ {"conn"} \X P \subseteq T
    BY DEF StepKinds
  <2>2. <<"conn">> \in Seq({"conn"})
    OBVIOUS
  <2>3. c \in Seq({"conn"} \X P)
    BY <2>1, <2>2, EachType DEF For
  <2> QED
    BY <2>1, <2>3, SeqMonotonic
<1>3. Steps(P, cr) = b \o c
  BY DEF Steps, BeforeConn
<1>4. /\ Len(b) \in Nat /\ Len(c) \in Nat /\ Len(b \o c) = Len(b) + Len(c) /\ b \o c \in Seq(T)
      /\ \A n \in 1..Len(b) + Len(c) : (b \o c)[n] = IF n <= Len(b) THEN b[n] ELSE c[n - Len(b)]
  BY <1>1, <1>2, LenProperties, ConcatProperties
<1>5. /\ \A n \in 1..Len(b) : b[n][1] # "conn"
      /\ \A n \in 1..Len(c) : c[n][1] = "conn"
  <2>1. \A n \in 1..Len(b) : b[n] \in (StepKinds \ {"conn"}) \X (P \cup {"-"})
    BY <1>1, ElementOfSeq DEF Begun
  <2>2. \A n \in 1..Len(c) : c[n] \in {"conn"} \X P
    BY <1>2, ElementOfSeq
  <2> QED
    BY <2>1, <2>2
<1> HIDE DEF b, c
<1>6. \A m, n \in 1..Len(b \o c) : m <= n /\ (b \o c)[m][1] = "conn" => (b \o c)[n][1] = "conn"
  BY <1>4, <1>5
<1>7. /\ \A n \in 3..Len(b \o c) : (b \o c)[n][1] \notin {"read", "patch"}
      /\ Len(b \o c) > 1 /\ (b \o c)[1] = <<"read", "-">> /\ (b \o c)[2] = <<"patch", "-">>
  BY <1>1, <1>4, <1>5 DEF Begun
<1>8. \A n \in 2..Len(b \o c) : /\ (b \o c)[n][1] # "read"
                                /\ (b \o c)[n][1] = "patch" <=> n = 2 /\ (b \o c)[1][1] = "read"
  <2>1. \A n \in 2..Len(b \o c) : n = 2 \/ n \in 3..Len(b \o c)
    BY <1>4
  <2> QED
    BY <1>7, <2>1
<1>9. Head(b \o c)[1] = "read"
  BY <1>4, <1>7
<1> HIDE DEF T
<1> QED
  BY <1>3, <1>4, <1>6, <1>7, <1>8, <1>9 DEF Plan, T

\* Every step of every part is on the list.
LEMMA StepsHas ==
    ASSUME NEW P \in SUBSET Providers, NEW cr \in BOOLEAN, NEW s,
           \/ Has(KeycloakSteps(P), s) \/ Has(IF cr THEN CRSteps(P) ELSE AdminSteps(P), s)
           \/ s = <<"details", "-">> \/ \E p \in P : s = <<"conn", p>>
    PROVE  Has(Steps(P, cr), s)
<1> DEFINE k == KeycloakSteps(P)
           w == IF cr THEN CRSteps(P) ELSE AdminSteps(P)
           e == << <<"details", "-">> >>
           one == <<"conn">>
           c == Each(one, P)
<1>1. /\ k \in Seq(Items) /\ w \in Seq(Items) /\ e \in Seq(Items)
      /\ MemorySteps \in Seq(Items)
  <2>1. Sane(P) \subseteq Items
    BY DEF Sane, Plain, Items
  <2> QED
    BY <2>1, KeycloakSane, CRSane, AdminSane, SeqMonotonic DEF MemorySteps, Items, StepKinds
<1>2. one \in Seq(StepKinds) /\ Has(one, "conn") /\ Has(e, <<"details", "-">>)
  BY DEF StepKinds, Has
<1>3. Steps(P, cr) = (((MemorySteps \o k) \o w) \o e) \o c
  BY DEF Steps, For
<1> HIDE DEF k, w, e, one
<1>4. c \in Seq(Items) /\ \A p \in P : Has(c, <<"conn", p>>)
  BY <1>2, EachItems, EachHas
<1> HIDE DEF c
<1>5. /\ MemorySteps \o k \in Seq(Items)
      /\ Has(k, s) => Has(MemorySteps \o k, s)
  BY <1>1, ConcatProperties, ConcatHas
<1>6. /\ (MemorySteps \o k) \o w \in Seq(Items)
      /\ Has(k, s) \/ Has(w, s) => Has((MemorySteps \o k) \o w, s)
  BY <1>1, <1>5, ConcatProperties, ConcatHas
<1>7. /\ ((MemorySteps \o k) \o w) \o e \in Seq(Items)
      /\ Has(k, s) \/ Has(w, s) \/ Has(e, s) => Has(((MemorySteps \o k) \o w) \o e, s)
  BY <1>1, <1>6, ConcatProperties, ConcatHas
<1>8. Has(k, s) \/ Has(w, s) \/ Has(e, s) \/ Has(c, s) => Has(Steps(P, cr), s)
  BY <1>3, <1>4, <1>7, ConcatHas
<1> QED
  BY <1>2, <1>4, <1>8 DEF k, w

LEMMA StepsPending ==
    ASSUME NEW P \in SUBSET Providers, NEW cr \in BOOLEAN
    PROVE  /\ \A p \in P : \A k \in Parts(p) : Pending(Steps(P, cr), P, <<k, p>>)
           /\ "saml" \in P => Has(Steps(P, cr), <<"mappers", "saml">>)
           /\ ~cr => Has(Steps(P, cr), <<"selfreg", "-">>)
<1>1. \A s : Has(Steps(P, cr), s) => \A o \in Written(s, P) : Pending(Steps(P, cr), P, o)
  BY DEF Has, Pending
<1>2. /\ "oidc" \in P => Has(Steps(P, cr), <<"kc", "oidc">>)
      /\ "saml" \in P => Has(Steps(P, cr), <<"kc", "saml">>)
                          /\ Has(Steps(P, cr), <<"mappers", "saml">>)
  BY KeycloakHas, StepsHas
<1>3. /\ Has(Steps(P, cr), <<"details", "-">>)
      /\ \A p \in P : Has(Steps(P, cr), <<"conn", p>>)
  BY StepsHas
<1>4. ~cr => /\ Has(Steps(P, cr), <<"selfreg", "-">>)
             /\ \A p \in P : Has(Steps(P, cr), <<"put", p>>)
             /\ "saml" \in P => Has(Steps(P, cr), <<"meta", "saml">>)
  BY AdminHas, StepsHas
<1>5. cr => /\ \A p \in P : Has(Steps(P, cr), <<"cr", p>>)
            /\ \A p \in P \cap {"ldap", "oidc"} : Has(Steps(P, cr), <<"cred", p>>)
  BY CRHas, StepsHas
<1>6. ASSUME NEW p \in P, NEW k \in Parts(p)
      PROVE  Pending(Steps(P, cr), P, <<k, p>>)
  <2>1. CASE k = "kc"
    <3>1. <<"kc", p>> \in Written(<<"kc", p>>, P) /\ p # "ldap"
      BY <2>1 DEF Written, Objects, Kinds, Parts
    <3> QED
      BY <1>1, <1>2, <2>1, <3>1 DEF Providers
  <2>2. CASE k = "details"
    <3>1. <<"details", p>> \in Written(<<"details", "-">>, P)
      BY DEF Written
    <3> QED
      BY <1>1, <1>3, <2>2, <3>1
  <2>3. CASE k = "conn"
    <3>1. <<"conn", p>> \in Written(<<"conn", p>>, P)
      BY DEF Written, Objects, Kinds
    <3> QED
      BY <1>1, <1>3, <2>3, <3>1
  <2>4. CASE k = "cfg"
    <3>1. <<"cfg", p>> \in Written(<<"put", p>>, P) /\ <<"cfg", p>> \in Written(<<"cr", p>>, P)
      BY DEF Written
    <3> QED
      BY <1>1, <1>4, <1>5, <2>4, <3>1
  <2>5. CASE k = "cred"
    <3>1. /\ <<"cred", p>> \in Written(<<"put", p>>, P)
          /\ <<"cred", p>> \in Written(<<"cred", p>>, P)
          /\ p # "saml"
      BY <2>5 DEF Written, Objects, Kinds, Parts
    <3> QED
      BY <1>1, <1>4, <1>5, <2>5, <3>1 DEF Providers
  <2>6. CASE k = "meta"
    <3>1. p = "saml"
      BY <2>6 DEF Parts
    <3>2. /\ <<"meta", "saml">> \in Written(<<"meta", "saml">>, P)
          /\ <<"meta", "saml">> \in Written(<<"cr", "saml">>, P)
      BY DEF Written, Objects, Kinds, Providers
    <3> QED
      BY <1>1, <1>4, <1>5, <2>6, <3>1, <3>2
  <2> QED
    BY <2>1, <2>2, <2>3, <2>4, <2>5, <2>6 DEF Parts
<1> QED
  BY <1>2, <1>4, <1>6

-----------------------------------------------------------------------------
(* The inductive invariant. *)

\* What a run that goes on or ended well has set up, or has yet to do.
RunOK(r) ==
    LET P == req[r].providers IN
    /\ Plan(todo[r], P)
    /\ todo[r] # <<>> => state[r] = "run"
    /\ state[r] \in {"run", "done"} =>
         /\ \A p \in P : r \notin followed[p] =>
               \A k \in Parts(p) : obj[<<k, p>>] = r \/ Pending(todo[r], P, <<k, p>>)
         /\ "saml" \in P => \/ obj[<<"mappers", "saml">>] # None
                            \/ Has(todo[r], <<"mappers", "saml">>)
         /\ ~req[r].cr /\ r \notin followed["selfreg"] =>
               \A p \in P : obj[<<"selfreg", p>>] = r \/ Has(todo[r], <<"selfreg", "-">>)

\* A run that stands before its patch has seen the template of the others.
SeenOK(r) ==
    r \in Between \ raced /\ templates # Absent /\ "other" \in templates => "other" \in seen[r]

\* Whoever wrote an object had begun, and was asked for its provider.
Owned(o) == obj[o] # None => state[obj[o]] # "off" /\ o[2] \in req[obj[o]].providers

DeleteOK ==
    /\ dtodo \in Seq({"delete"} \X Providers)
    /\ dstate # "off" => \A r \in Runs : state[r] = "run" => r \in drivals
    /\ drefused # {} => dfailed
    /\ dstate = "done" => ~dfailed
    /\ dstate \in {"done", "failed"} => dtodo = <<>>
    /\ dstate \in {"run", "done", "failed"} =>
         \A p \in dreq \ drefused : \/ obj[<<"cfg", p>>] \in drivals \cup {None}
                                    \/ Has(dtodo, <<"delete", p>>)

IInv ==
    /\ TypeOK /\ ConnectionIsApplied /\ DeleteOK
    /\ \A r \in Runs : RunOK(r) /\ SeenOK(r)
    /\ \A o \in Objects : Owned(o)

-----------------------------------------------------------------------------
(* Lists that get shorter, and what a step writes. *)

LEMMA PlanEmpty == ASSUME NEW P PROVE Plan(<<>>, P)
BY DEF Plan

LEMMA PlanTail ==
    ASSUME NEW P, NEW t, Plan(t, P), t # <<>>
    PROVE  /\ Plan(Tail(t), P) /\ Head(t) = t[1] /\ 1 \in 1..Len(t)
           /\ Head(t) \in StepKinds \X (P \cup {"-"})
           /\ \A o : Pending(t, P, o) => o \in Written(Head(t), P) \/ Pending(Tail(t), P, o)
           /\ \A s : Has(t, s) => s = Head(t) \/ Has(Tail(t), s)
           /\ Head(t)[1] = "read" => Tail(t) # <<>>
           /\ Tail(t) # <<>> => /\ Head(Tail(t))[1] # "read"
                                /\ Head(Tail(t))[1] = "patch" <=> Head(t)[1] = "read"
<1> DEFINE T == StepKinds \X (P \cup {"-"})
           u == Tail(t)
<1>1. t \in Seq(T) /\ Len(t) \in Nat \ {0}
  BY EmptySeq DEF Plan
<1>2. /\ u \in Seq(T) /\ Len(u) = Len(t) - 1 /\ \A i \in 1..Len(u) : u[i] = t[i + 1]
  BY <1>1, HeadTailProperties
<1>3. Head(t) = t[1] /\ t[1] \in T
  BY <1>1, ElementOfSeq
<1> HIDE DEF T, u
<1>4. \A m, n \in 1..Len(u) : m <= n /\ u[m][1] = "conn" => u[n][1] = "conn"
  <2>1. ASSUME NEW m \in 1..Len(u), NEW n \in 1..Len(u), m <= n, u[m][1] = "conn"
        PROVE  u[n][1] = "conn"
    <3>1. /\ m + 1 \in 1..Len(t) /\ n + 1 \in 1..Len(t) /\ m + 1 <= n + 1
          /\ t[m + 1] = u[m] /\ t[n + 1] = u[n]
      BY <1>1, <1>2, <2>1
    <3>2. \A i, j \in 1..Len(t) : i <= j /\ t[i][1] = "conn" => t[j][1] = "conn"
      BY DEF Plan
    <3> QED
      BY <2>1, <3>1, <3>2
  <2> QED
    BY <2>1
<1>5. ASSUME NEW n \in 1..Len(u)
      PROVE  u[n][1] # "read" /\ (u[n][1] = "patch" <=> n = 1 /\ t[1][1] = "read")
  <2>1. n + 1 \in 2..Len(t) /\ u[n] = t[n + 1] /\ (n + 1 = 2 <=> n = 1)
    BY <1>1, <1>2
  <2> QED
    BY <2>1 DEF Plan
<1>10. \A n \in 2..Len(u) : 1 \in 1..Len(u) /\ u[1][1] # "read" /\ u[n][1] # "patch"
  <2>1. ASSUME NEW n \in 2..Len(u)
        PROVE  1 \in 1..Len(u) /\ n \in 1..Len(u) /\ n # 1
    BY <1>1, <1>2
  <2> QED
    BY <2>1, <1>5
<1>11. Head(t)[1] = "read" => u # <<>>
  BY <1>1, <1>2, <1>3 DEF Plan
<1>12. u # <<>> => 1 \in 1..Len(u) /\ Head(u) = u[1]
  BY <1>1, <1>2, EmptySeq
<1>6. Plan(u, P)
  BY <1>1, <1>2, <1>4, <1>5, <1>10 DEF Plan, T
<1>7. \A n \in 1..Len(t) : n = 1 \/ (n - 1 \in 1..Len(u) /\ u[n - 1] = t[n])
  BY <1>1, <1>2
<1>8. \A o : Pending(t, P, o) => o \in Written(Head(t), P) \/ Pending(u, P, o)
  BY <1>3, <1>7 DEF Pending
<1>9. \A s : Has(t, s) => s = Head(t) \/ Has(u, s)
  BY <1>3, <1>7 DEF Has
<1>13. u # <<>> => /\ Head(u)[1] # "read"
                   /\ Head(u)[1] = "patch" <=> Head(t)[1] = "read"
  <2>1. u # <<>> => u[1][1] # "read" /\ (u[1][1] = "patch" <=> t[1][1] = "read")
    BY <1>5, <1>12
  <2> QED
    BY <1>3, <1>12, <2>1
<1>14. 1 \in 1..Len(t)
  BY <1>1
<1> QED
  BY <1>3, <1>6, <1>8, <1>9, <1>11, <1>13, <1>14 DEF u, T

\* What a step writes belongs to a provider the run was asked for.
LEMMA WrittenOwn ==
    ASSUME NEW P \in SUBSET Providers, NEW s \in StepKinds \X (P \cup {"-"}),
           NEW o \in Objects, s[1] # "selfreg", o \in Written(s, P)
    PROVE  /\ o[2] \in P /\ o[1] # "selfreg" /\ (o[1] = "mappers") = (s[1] = "mappers")
           /\ o[1] = "conn" => s[1] = "conn"
           /\ s[1] = "conn" => o[1] = "conn"
           /\ s[1] = "mappers" => o = s
           /\ s[1] \notin {"read", "patch", "wait"}
<1>1. /\ o = <<o[1], o[2]>> /\ o[1] \in Kinds /\ o[2] \in Providers
      /\ s = <<s[1], s[2]>> /\ s[1] \in StepKinds /\ s[2] \in P \cup {"-"}
      /\ "-" \notin Providers
  BY DEF Objects, Providers
<1>2. CASE s[1] = "put"
  <2>1. o[1] \in {"cfg", "cred"} /\ o[2] = s[2]
    BY <1>2 DEF Written
  <2> QED
    BY <1>1, <1>2, <2>1
<1>3. CASE s[1] = "cr"
  <2>1. o[1] \in {"cfg", "meta"} /\ o[2] = s[2]
    BY <1>3 DEF Written
  <2> QED
    BY <1>1, <1>3, <2>1
<1>4. CASE s[1] = "details"
  <2>1. o[1] = "details" /\ o[2] \in P
    BY <1>4 DEF Written
  <2> QED
    BY <1>4, <2>1
<1>5. CASE s[1] \notin {"put", "cr", "details"}
  <2>1. o = s
    BY <1>5 DEF Written
  <2>2. o[1] \in Kinds /\ o[2] \in P
    BY <1>1, <2>1
  <2> QED
    BY <1>1, <1>5, <2>1, <2>2 DEF Kinds
<1> QED
  BY <1>2, <1>3, <1>4, <1>5

LEMMA RunFacts ==
    ASSUME IInv, NEW r \in Runs
    PROVE  /\ req[r].providers \in SUBSET Providers /\ req[r].cr \in BOOLEAN
           /\ Plan(todo[r], req[r].providers) /\ RunOK(r) /\ SeenOK(r)
           /\ r \in Nat /\ r # None
           /\ Running(r) => state[r] = "run" /\ todo[r] # <<>>
                            /\ Step(r) \in StepKinds \X (req[r].providers \cup {"-"})
<1>1. req[r] \in [providers: SUBSET Providers, cr: BOOLEAN] /\ RunOK(r) /\ SeenOK(r)
  BY DEF IInv, TypeOK
<1>2. r \in Nat /\ r # None
  BY MasAuthAssumption DEF Runs, MasAuthAssumption
<1>3. Running(r) => Step(r) \in StepKinds \X (req[r].providers \cup {"-"})
  BY <1>1, PlanTail DEF RunOK, Running, Step
<1> QED
  BY <1>1, <1>2, <1>3 DEF RunOK, Running

-----------------------------------------------------------------------------
(* What a step does to the runs. *)

\* Nothing a run has set up is undone, unless it is followed from now on.
Steady(q) ==
    LET P == req[q].providers IN
    /\ \A p \in P : q \notin followed'[p] =>
          /\ q \notin followed[p]
          /\ \A k \in Parts(p) : obj[<<k, p>>] = q => obj'[<<k, p>>] = q
    /\ obj[<<"mappers", "saml">>] # None => obj'[<<"mappers", "saml">>] # None
    /\ q \notin followed'["selfreg"] =>
          /\ q \notin followed["selfreg"]
          /\ \A p \in P : obj[<<"selfreg", p>>] = q => obj'[<<"selfreg", p>>] = q

LEMMA RunKeeps ==
    ASSUME NEW q, RunOK(q), state[q] # "off" => Steady(q),
           todo'[q] = todo[q], req'[q] = req[q],
           state'[q] = state[q] \/ (todo[q] = <<>> /\ state[q] = "run" /\ state'[q] = "done")
    PROVE  RunOK(q)'
BY DEF RunOK, Steady

\* It has done the first of its steps.
LEMMA RunDoes ==
    ASSUME NEW q, RunOK(q), Steady(q), state[q] = "run", todo[q] # <<>>,
           todo'[q] = Tail(todo[q]), req'[q] = req[q], state'[q] = state[q],
           \A p \in req[q].providers : \A k \in Parts(p) :
               <<k, p>> \in Written(Head(todo[q]), req[q].providers) => obj'[<<k, p>>] = q,
           Head(todo[q]) = <<"mappers", "saml">> => obj'[<<"mappers", "saml">>] # None,
           Head(todo[q]) = <<"selfreg", "-">> =>
               \A p \in req[q].providers : obj'[<<"selfreg", p>>] = q
    PROVE  RunOK(q)'
<1> DEFINE P == req[q].providers
           t == todo[q]
<1>1. /\ Plan(Tail(t), P)
      /\ \A o : Pending(t, P, o) => o \in Written(Head(t), P) \/ Pending(Tail(t), P, o)
      /\ \A s : Has(t, s) => s = Head(t) \/ Has(Tail(t), s)
  BY PlanTail DEF RunOK
<1> QED
  BY <1>1 DEF RunOK, Steady

LEMMA RunStops ==
    ASSUME NEW q, todo'[q] = <<>>, state'[q] = "failed" PROVE RunOK(q)'
BY PlanEmpty DEF RunOK


-----------------------------------------------------------------------------
(* A step writes its objects. *)

Writes(r) ==
    /\ Running(r) /\ Step(r)[1] \notin {"read", "patch", "wait"}
    /\ obj' = After(r, Step(r)) /\ Across(r, Step(r))

LEMMA AfterFacts ==
    ASSUME IInv, NEW r \in Runs, Writes(r), NEW o \in Objects
    PROVE  /\ Step(r)[1] = "selfreg" =>
                /\ o[1] # "selfreg" => obj'[o] = obj[o]
                /\ o[1] = "selfreg" => obj'[o] = IF o[2] \in req[r].providers THEN r ELSE None
           /\ Step(r)[1] # "selfreg" /\ o \notin Written(Step(r), req[r].providers)
                => obj'[o] = obj[o]
           /\ Step(r)[1] # "selfreg" /\ o \in Written(Step(r), req[r].providers) =>
                /\ Step(r)[1] # "mappers" => obj'[o] = r
                /\ obj'[o] = r \/ (obj[o] # None /\ obj'[o] = obj[o])
BY DEF Writes, After, SelfReg

LEMMA AcrossFacts ==
    ASSUME IInv, NEW r \in Runs, Writes(r), NEW q \in Runs
    PROVE  /\ \A x \in Providers \cup {"selfreg"} : q \notin followed'[x] => q \notin followed[x]
           /\ Step(r)[1] = "selfreg" /\ q # r /\ state[q] # "off" => q \in followed'["selfreg"]
           /\ \A o \in Objects :
                 /\ Step(r)[1] # "selfreg" /\ o \in Written(Step(r), req[r].providers)
                 /\ q # r /\ state[q] # "off" /\ o[2] \in req[q].providers
                 => q \in followed'[o[2]]
<1> DEFINE P == req[r].providers
           s == Step(r)
           slots == IF s[1] = "selfreg" THEN {"selfreg"} ELSE {o[2] : o \in Written(s, P)}
           begun(x) == {z \in Runs \ {r} : state[z] # "off"
                                            /\ (x = "selfreg" \/ x \in req[z].providers)}
<1>1. followed' = [x \in Providers \cup {"selfreg"} |->
                       followed[x] \cup (IF x \in slots THEN begun(x) ELSE {})]
  BY DEF Writes, Across
<1>2. \A x \in Providers \cup {"selfreg"} :
          followed'[x] = followed[x] \cup (IF x \in slots THEN begun(x) ELSE {})
  BY <1>1
<1>3. s[1] = "selfreg" => "selfreg" \in slots
  OBVIOUS
<1>4. ASSUME NEW o \in Objects, s[1] # "selfreg", o \in Written(s, P)
      PROVE  o[2] \in slots /\ o[2] \in Providers
  BY <1>4 DEF Objects
<1>5. q # r /\ state[q] # "off" => q \in begun("selfreg")
  OBVIOUS
<1>6. ASSUME NEW x, q # r, state[q] # "off", x \in req[q].providers
      PROVE  q \in begun(x)
  BY <1>6
<1> HIDE DEF slots, begun
<1> QED
  BY <1>2, <1>3, <1>4, <1>5, <1>6 DEF s, P

LEMMA PartObjects ==
    ASSUME NEW p \in Providers
    PROVE  /\ \A k \in Parts(p) : /\ <<k, p>> \in Objects
                                  /\ k \notin {"selfreg", "mappers"}
           /\ "cfg" \in Parts(p) /\ "conn" \in Parts(p)
           /\ <<"selfreg", p>> \in Objects /\ <<"conn", p>> \in Objects
           /\ <<"cfg", p>> \in Objects /\ <<"mappers", "saml">> \in Objects
BY DEF Parts, Objects, Kinds, Providers

LEMMA WriteSteady ==
    ASSUME IInv, NEW r \in Runs, Writes(r), NEW q \in Runs, state[q] # "off"
    PROVE  Steady(q)
<1> DEFINE P == req[q].providers
           s == Step(r)
<1>1. /\ s \in StepKinds \X (req[r].providers \cup {"-"}) /\ P \subseteq Providers
      /\ req[r].providers \in SUBSET Providers /\ r # None /\ q # None
  BY RunFacts DEF Writes
<1>2. ASSUME NEW p \in P, q \notin followed'[p], NEW k \in Parts(p), obj[<<k, p>>] = q
      PROVE  obj'[<<k, p>>] = q
  <2>1. <<k, p>> \in Objects /\ k # "selfreg" /\ k # "mappers"
    BY <1>1, PartObjects
  <2>2. CASE s[1] = "selfreg" \/ <<k, p>> \notin Written(s, req[r].providers)
    BY <1>2, <2>1, <2>2, AfterFacts
  <2>3. CASE s[1] # "selfreg" /\ <<k, p>> \in Written(s, req[r].providers)
    <3>1. q = r
      BY <1>2, <2>1, <2>3, AcrossFacts
    <3>2. s[1] # "mappers"
      BY <1>1, <2>1, <2>3, WrittenOwn
    <3> QED
      BY <2>1, <2>3, <3>1, <3>2, AfterFacts
  <2> QED
    BY <2>2, <2>3
<1>3. ASSUME obj[<<"mappers", "saml">>] # None
      PROVE  obj'[<<"mappers", "saml">>] # None
  <2>1. <<"mappers", "saml">> \in Objects
    BY DEF Objects, Kinds, Providers
  <2> QED
    BY <1>1, <1>3, <2>1, AfterFacts
<1>4. ASSUME q \notin followed'["selfreg"], NEW p \in P, obj[<<"selfreg", p>>] = q
      PROVE  obj'[<<"selfreg", p>>] = q
  <2>1. <<"selfreg", p>> \in Objects
    BY <1>1, PartObjects
  <2>2. CASE s[1] = "selfreg"
    <3>1. q = r
      BY <1>4, <2>2, AcrossFacts
    <3> QED
      BY <2>1, <2>2, <3>1, AfterFacts
  <2>3. CASE s[1] # "selfreg"
    <3>1. <<"selfreg", p>> \notin Written(s, req[r].providers)
      BY <1>1, <2>1, <2>3, WrittenOwn
    <3> QED
      BY <1>4, <2>1, <2>3, <3>1, AfterFacts
  <2> QED
    BY <2>2, <2>3
<1>5. \A x \in Providers \cup {"selfreg"} : q \notin followed'[x] => q \notin followed[x]
  BY AcrossFacts
<1>6. P \subseteq Providers
  BY <1>1
<1> HIDE DEF P
<1> QED
  BY <1>2, <1>3, <1>4, <1>5, <1>6 DEF Steady, P

\* What the step has done for the run itself.
LEMMA WriteDoes ==
    ASSUME IInv, NEW r \in Runs, Writes(r)
    PROVE  /\ \A p \in req[r].providers : \A k \in Parts(p) :
                 <<k, p>> \in Written(Head(todo[r]), req[r].providers) => obj'[<<k, p>>] = r
           /\ Head(todo[r]) = <<"mappers", "saml">> => obj'[<<"mappers", "saml">>] # None
           /\ Head(todo[r]) = <<"selfreg", "-">> =>
                 \A p \in req[r].providers : obj'[<<"selfreg", p>>] = r
<1> DEFINE P == req[r].providers
           s == Step(r)
<1>1. /\ s \in StepKinds \X (P \cup {"-"}) /\ P \in SUBSET Providers /\ r # None
      /\ s = Head(todo[r])
  BY RunFacts DEF Writes, Step
<1>2. ASSUME NEW p \in P, NEW k \in Parts(p), <<k, p>> \in Written(s, P)
      PROVE  obj'[<<k, p>>] = r
  <2>1. <<k, p>> \in Objects /\ k # "selfreg" /\ k # "mappers"
    BY <1>1, PartObjects
  <2>2. s[1] # "selfreg"
    BY <1>2, <2>1 DEF Written
  <2>3. s[1] # "mappers"
    BY <1>1, <1>2, <2>1, <2>2, WrittenOwn
  <2> QED
    BY <1>2, <2>1, <2>2, <2>3, AfterFacts
<1>3. ASSUME s = <<"mappers", "saml">> PROVE obj'[<<"mappers", "saml">>] # None
  <2>1. <<"mappers", "saml">> \in Objects
    BY DEF Objects, Kinds, Providers
  <2>2. <<"mappers", "saml">> \in Written(s, P)
    BY <1>3, <2>1 DEF Written
  <2> QED
    BY <1>1, <1>3, <2>1, <2>2, AfterFacts
<1>4. ASSUME s = <<"selfreg", "-">>, NEW p \in P PROVE obj'[<<"selfreg", p>>] = r
  <2>1. <<"selfreg", p>> \in Objects
    BY <1>1, PartObjects
  <2> QED
    BY <1>4, <2>1, AfterFacts
<1> QED
  BY <1>1, <1>2, <1>3, <1>4

LEMMA WriteOwned ==
    ASSUME IInv, NEW r \in Runs, Writes(r), req' = req,
           \A x \in Runs : state[x] # "off" => state'[x] # "off"
    PROVE  \A o \in Objects : Owned(o)' /\ obj'[o] \in Runs \cup {None}
<1> SUFFICES ASSUME NEW o \in Objects PROVE Owned(o)' /\ obj'[o] \in Runs \cup {None}
  OBVIOUS
<1> DEFINE P == req[r].providers
           s == Step(r)
<1>1. /\ s \in StepKinds \X (P \cup {"-"}) /\ P \in SUBSET Providers
      /\ r # None /\ state[r] = "run"
  BY RunFacts DEF Writes
<1>2. obj[o] \in Runs \cup {None} /\ Owned(o)
  BY DEF IInv, TypeOK
<1>3. obj'[o] = obj[o] \/ (obj'[o] = r /\ o[2] \in P) \/ obj'[o] = None
  <2>1. CASE s[1] = "selfreg"
    BY <2>1, AfterFacts
  <2>2. CASE s[1] # "selfreg" /\ o \notin Written(s, P)
    BY <2>2, AfterFacts
  <2>3. CASE s[1] # "selfreg" /\ o \in Written(s, P)
    <3>1. o[2] \in P
      BY <1>1, <2>3, WrittenOwn
    <3> QED
      BY <2>3, <3>1, AfterFacts
  <2> QED
    BY <2>1, <2>2, <2>3
<1>4. state'[r] # "off"
  BY <1>1
<1> QED
  BY <1>2, <1>3, <1>4 DEF Owned

\* By the time a connection Secret is written, the IDPCfg is.
LEMMA WriteConnection ==
    ASSUME IInv, NEW r \in Runs, Writes(r), NEW q \in Runs, NEW p \in Providers,
           obj'[<<"conn", p>>] = q, q \notin followed'[p]
    PROVE  obj'[<<"cfg", p>>] = q
<1> DEFINE P == req[r].providers
           s == Step(r)
           c == <<"conn", p>>
           g == <<"cfg", p>>
<1>1. /\ s \in StepKinds \X (P \cup {"-"}) /\ P \in SUBSET Providers /\ r # None /\ q # None
      /\ c \in Objects /\ g \in Objects /\ q \notin followed[p]
      /\ state[r] = "run" /\ todo[r] # <<>> /\ Plan(todo[r], P) /\ RunOK(r)
  BY RunFacts, AcrossFacts, PartObjects DEF Writes
<1>2. CASE s[1] # "selfreg" /\ c \in Written(s, P)
  <2>1. s[1] = "conn" /\ p \in P
    BY <1>1, <1>2, WrittenOwn
  <2>2. q = r
    BY <1>1, <1>2, <2>1, AfterFacts
  <2>3. \A n \in 1..Len(todo[r]) : todo[r][n][1] = "conn"
    BY <1>1, <2>1, PlanTail DEF Plan, Step
  <2>4. ~Pending(todo[r], P, g)
    <3> SUFFICES ASSUME NEW n \in 1..Len(todo[r]), g \in Written(todo[r][n], P) PROVE FALSE
      BY DEF Pending
    <3>1. todo[r][n] \in StepKinds \X (P \cup {"-"})
      BY <1>1, ElementOfSeq DEF Plan
    <3>2. todo[r][n][1] = "conn"
      BY <2>3
    <3> QED
      BY <1>1, <3>1, <3>2, WrittenOwn
  <2>5. obj[g] = r
    BY <1>1, <2>1, <2>2, <2>4, PartObjects DEF RunOK
  <2>6. g \notin Written(s, P)
    BY <1>1, <1>2, <2>1, WrittenOwn
  <2> QED
    BY <1>1, <1>2, <2>2, <2>5, <2>6, AfterFacts
<1>3. CASE ~(s[1] # "selfreg" /\ c \in Written(s, P))
  <2>1. obj[c] = q
    BY <1>1, <1>3, AfterFacts
  <2>2. obj[g] = q
    BY <1>1, <2>1 DEF IInv, ConnectionIsApplied
  <2>3. state[q] # "off" /\ p \in req[q].providers
    BY <1>1, <2>1 DEF IInv, Owned
  <2>4. Steady(q)
    BY <2>3, WriteSteady
  <2> QED
    BY <2>2, <2>3, <2>4, PartObjects DEF Steady
<1> QED
  BY <1>2, <1>3

-----------------------------------------------------------------------------
(* Steps of a run keep the invariant. *)

LEMMA WriteFollowed ==
    ASSUME IInv, NEW r \in Runs, Writes(r)
    PROVE  followed' \in [Providers \cup {"selfreg"} -> SUBSET Runs]
<1>1. followed \in [Providers \cup {"selfreg"} -> SUBSET Runs]
  BY DEF IInv, TypeOK
<1> QED
  BY <1>1 DEF Writes, Across

LEMMA WriteType ==
    ASSUME IInv, NEW r \in Runs, Writes(r), req' = req,
           \A x \in Runs : state[x] # "off" => state'[x] # "off"
    PROVE  obj' \in [Objects -> Runs \cup {None}]
<1>1. \A o \in Objects : obj'[o] \in Runs \cup {None}
  BY WriteOwned
<1>2. obj' = [o \in Objects |-> obj'[o]]
  BY DEF Writes, After
<1> QED
  BY <1>1, <1>2

\* The configuration a delete looks at was written by a run it knows of.
LEMMA WriteRival ==
    ASSUME IInv, NEW r \in Runs, Writes(r), NEW p \in Providers
    PROVE  obj'[<<"cfg", p>>] \in {obj[<<"cfg", p>>], r}
<1>1. <<"cfg", p>> \in Objects /\ <<"cfg", p>>[1] # "selfreg"
  BY PartObjects
<1> QED
  BY <1>1, AfterFacts

LEMMA DeleteKeeps ==
    ASSUME IInv, UNCHANGED <<dstate, dtodo, dreq, drefused, dfailed, drivals>>,
           \A q \in Runs : state'[q] = "run" => state[q] = "run",
           \A p \in Providers :
               obj'[<<"cfg", p>>] \in {obj[<<"cfg", p>>], None} \cup {q \in Runs : state[q] = "run"}
    PROVE  DeleteOK'
<1>1. DeleteOK /\ dreq \subseteq Providers
  BY DEF IInv, TypeOK
<1>2. ASSUME dstate \in {"run", "done", "failed"}, NEW p \in dreq \ drefused
      PROVE  \/ obj'[<<"cfg", p>>] \in drivals \cup {None} \/ Has(dtodo, <<"delete", p>>)
  <2>1. \/ obj[<<"cfg", p>>] \in drivals \cup {None} \/ Has(dtodo, <<"delete", p>>)
    BY <1>1, <1>2 DEF DeleteOK
  <2>2. \A q \in Runs : state[q] = "run" => q \in drivals
    BY <1>1, <1>2 DEF DeleteOK
  <2> QED
    BY <1>1, <2>1, <2>2
<1> QED
  BY <1>1, <1>2 DEF DeleteOK

LEMMA SeenKeeps ==
    ASSUME IInv, NEW q \in Runs, UNCHANGED <<templates, seen, raced>>,
           q \in Between' => q \in Between
    PROVE  SeenOK(q)'
<1>1. SeenOK(q)
  BY DEF IInv
<1> QED
  BY <1>1 DEF SeenOK

\* One step of the run r, whatever it is.
LEMMA RunStep ==
    ASSUME IInv, NEW r \in Runs, state[r] = "run", NEW t, NEW s \in {"run", "failed", "done"},
           todo' = [todo EXCEPT ![r] = t], state' = [state EXCEPT ![r] = s],
           UNCHANGED <<req, hasOIDC, deleteVars, drivals>>,
           Writes(r) \/ UNCHANGED <<obj, followed>>,
           RunOK(r)', \A q \in Runs : SeenOK(q)',
           templates' = Absent \/ templates' \subseteq Templates,
           seen' \in [Runs -> SUBSET Templates], raced' \subseteq Runs, faults' \in 0..MaxFaults
    PROVE  IInv'
<1>1. TypeOK
  BY DEF IInv
<1>2. /\ todo'[r] = t /\ \A q \in Runs \ {r} : todo'[q] = todo[q]
      /\ state'[r] = s /\ \A q \in Runs \ {r} : state'[q] = state[q]
      /\ req' = req /\ state' \in [Runs -> {"off", "run", "done", "failed"}]
  BY <1>1 DEF TypeOK
<1>3. /\ \A x \in Runs : state[x] # "off" => state'[x] # "off"
      /\ \A x \in Runs : state'[x] = "run" => state[x] = "run"
  BY <1>2
<1>4. \A q \in Runs : state[q] # "off" => Steady(q)
  BY WriteSteady DEF Steady
<1>5. \A q \in Runs : RunOK(q)'
  <2>1. SUFFICES ASSUME NEW q \in Runs \ {r} PROVE RunOK(q)'
    OBVIOUS
  <2>2. RunOK(q)
    BY DEF IInv
  <2> QED
    BY <1>2, <1>4, <2>2, RunKeeps
<1>6. \A o \in Objects : Owned(o)' /\ obj'[o] \in Runs \cup {None}
  <2>1. CASE Writes(r)
    BY <1>2, <1>3, <2>1, WriteOwned
  <2>2. CASE UNCHANGED obj
    BY <1>1, <1>2, <1>3, <2>2 DEF IInv, TypeOK, Owned
  <2> QED
    BY <2>1, <2>2
<1>7. ConnectionIsApplied'
  <2>1. CASE Writes(r)
    BY <2>1, WriteConnection DEF ConnectionIsApplied
  <2>2. CASE UNCHANGED <<obj, followed>>
    BY <2>2 DEF IInv, ConnectionIsApplied
  <2> QED
    BY <2>1, <2>2
<1>8. DeleteOK'
  <2>1. \A p \in Providers :
            obj'[<<"cfg", p>>] \in {obj[<<"cfg", p>>], None} \cup {q \in Runs : state[q] = "run"}
    BY WriteRival
  <2> QED
    BY <1>3, <2>1, DeleteKeeps DEF deleteVars
<1>9. TypeOK'
  <2>1. /\ obj' \in [Objects -> Runs \cup {None}]
        /\ followed' \in [Providers \cup {"selfreg"} -> SUBSET Runs]
    BY <1>1, <1>2, <1>3, WriteType, WriteFollowed DEF TypeOK
  <2>2. todo' \in [Runs -> Seq(StepKinds \X (Providers \cup {"-"}))]
    <3>1. req[r].providers \subseteq Providers
      BY RunFacts
    <3>2. t \in Seq(StepKinds \X (req[r].providers \cup {"-"}))
      BY <1>2 DEF RunOK, Plan
    <3>3. t \in Seq(StepKinds \X (Providers \cup {"-"}))
      BY <3>1, <3>2, SeqMonotonic
    <3> QED
      BY <1>1, <3>3 DEF TypeOK
  <2> QED
    BY <1>1, <1>2, <2>1, <2>2 DEF TypeOK, deleteVars
<1> QED
  BY <1>5, <1>6, <1>7, <1>8, <1>9 DEF IInv

\* A run that stops, for whatever reason.
LEMMA StopStep ==
    ASSUME IInv, NEW r \in Runs, state[r] = "run", NEW s \in {"failed", "done"},
           s = "done" => todo[r] = <<>>, Stop(r, s),
           UNCHANGED <<req, hasOIDC, deleteVars, drivals, templates, seen, raced>>,
           (s = "failed" /\ Writes(r)) \/ UNCHANGED <<obj, followed>>, faults' \in 0..MaxFaults
    PROVE  IInv'
<1>1. TypeOK
  BY DEF IInv
<1>2. /\ todo' = [todo EXCEPT ![r] = <<>>] /\ state' = [state EXCEPT ![r] = s]
      /\ todo'[r] = <<>> /\ \A q \in Runs \ {r} : todo'[q] = todo[q]
      /\ state'[r] = s /\ \A q \in Runs \ {r} : state'[q] = state[q]
  BY <1>1 DEF TypeOK, Stop
<1>3. RunOK(r)'
  <2>1. CASE s = "failed"
    BY <1>2, <2>1, RunStops
  <2>2. CASE s = "done"
    <3>1. RunOK(r) /\ Steady(r)
      BY <2>2, RunFacts DEF Steady
    <3> QED
      BY <1>2, <2>2, <3>1, RunKeeps
  <2> QED
    BY <2>1, <2>2
<1>4. ASSUME NEW q \in Runs PROVE SeenOK(q)'
  <2>1. q \in Between' => q \in Between
    BY <1>2 DEF Between, Running, Step
  <2> QED
    BY <2>1, SeenKeeps
<1>5. /\ templates' = Absent \/ templates' \subseteq Templates
      /\ seen' \in [Runs -> SUBSET Templates] /\ raced' \subseteq Runs
  BY <1>1 DEF TypeOK
<1> QED
  BY <1>2, <1>3, <1>4, <1>5, RunStep

\* Between its read and its patch is only a run that has just read.
LEMMA TailBetween ==
    ASSUME IInv, NEW r \in Runs, Running(r), todo' = [todo EXCEPT ![r] = Tail(@)], state' = state,
           NEW q \in Runs, q \in Between'
    PROVE  (q \in Between /\ q # r) \/ (q = r /\ Step(r)[1] = "read")
<1>1. TypeOK /\ Plan(todo[r], req[r].providers)
  BY RunFacts DEF IInv
<1>2. todo'[r] = Tail(todo[r]) /\ \A x \in Runs \ {r} : todo'[x] = todo[x]
  BY <1>1 DEF TypeOK
<1>3. q # r => q \in Between
  BY <1>2 DEF Between, Running, Step
<1>4. ASSUME q = r PROVE Step(r)[1] = "read"
  <2>1. Tail(todo[r]) # <<>> /\ Head(Tail(todo[r]))[1] = "patch" /\ todo[r] # <<>>
    BY <1>2, <1>4 DEF Between, Running, Step
  <2> QED
    BY <1>1, <2>1, PlanTail DEF Step
<1> QED
  BY <1>3, <1>4

\* A run that does the first of its steps.
LEMMA TailStep ==
    ASSUME IInv, NEW r \in Runs, Running(r), Next1(r),
           UNCHANGED <<state, req, hasOIDC, deleteVars, drivals>>,
           \/ Writes(r)
           \/ Step(r)[1] \in {"read", "patch", "wait"} /\ UNCHANGED <<obj, followed>>,
           \A q \in Runs : SeenOK(q)',
           templates' = Absent \/ templates' \subseteq Templates,
           seen' \in [Runs -> SUBSET Templates], raced' \subseteq Runs, faults' \in 0..MaxFaults
    PROVE  IInv'
<1>1. TypeOK /\ RunOK(r) /\ req[r].providers \in SUBSET Providers
      /\ Step(r) \in StepKinds \X (req[r].providers \cup {"-"})
  BY RunFacts DEF IInv
<1>2. /\ todo' = [todo EXCEPT ![r] = Tail(todo[r])] /\ todo'[r] = Tail(todo[r])
      /\ state' = [state EXCEPT ![r] = "run"] /\ state[r] = "run" /\ todo[r] # <<>>
  BY <1>1 DEF TypeOK, Next1, Running
<1>3. Steady(r)
  BY <1>2, WriteSteady DEF Steady
<1>4. /\ \A p \in req[r].providers : \A k \in Parts(p) :
            <<k, p>> \in Written(Head(todo[r]), req[r].providers) => obj'[<<k, p>>] = r
      /\ Head(todo[r]) = <<"mappers", "saml">> => obj'[<<"mappers", "saml">>] # None
      /\ Head(todo[r]) = <<"selfreg", "-">> =>
            \A p \in req[r].providers : obj'[<<"selfreg", p>>] = r
  <2>1. CASE Writes(r)
    BY <2>1, WriteDoes
  <2>2. CASE Step(r)[1] \in {"read", "patch", "wait"}
    <3>1. \A o \in Objects : o \notin Written(Step(r), req[r].providers)
      BY <1>1, <2>2, WrittenOwn
    <3>2. \A p \in req[r].providers : \A k \in Parts(p) : <<k, p>> \in Objects
      BY <1>1, PartObjects
    <3>3. Head(todo[r]) # <<"mappers", "saml">> /\ Head(todo[r]) # <<"selfreg", "-">>
      BY <2>2 DEF Step
    <3> QED
      BY <3>1, <3>2, <3>3 DEF Step
  <2> QED
    BY <2>1, <2>2
<1>5. RunOK(r)'
  BY <1>1, <1>2, <1>3, <1>4, RunDoes
<1> QED
  BY <1>2, <1>5, RunStep

LEMMA StartStep ==
    ASSUME IInv, NEW r \in Runs, Start(r) PROVE IInv'
<1>1. PICK P \in Requests, cr \in BOOLEAN :
          /\ req' = [req EXCEPT ![r] = [providers |-> P, cr |-> cr]]
          /\ todo' = [todo EXCEPT ![r] = Steps(P, cr)]
  BY DEF Start
<1>2. TypeOK /\ P \in SUBSET Providers /\ Plan(Steps(P, cr), P) /\ r # None
      /\ Head(Steps(P, cr))[1] = "read"
  BY StepsPlan, RunFacts, MasAuthAssumption DEF IInv, MasAuthAssumption
<1>3. /\ state[r] = "off" /\ state' = [state EXCEPT ![r] = "run"]
      /\ drivals' = (IF dstate = "off" THEN drivals ELSE drivals \cup {r})
      /\ UNCHANGED <<obj, templates, hasOIDC, seen, deleteVars, followed, raced, faults>>
  BY DEF Start
<1>4. /\ req'[r] = [providers |-> P, cr |-> cr] /\ todo'[r] = Steps(P, cr) /\ state'[r] = "run"
      /\ \A q \in Runs \ {r} : req'[q] = req[q] /\ todo'[q] = todo[q] /\ state'[q] = state[q]
      /\ req' \in [Runs -> [providers: SUBSET Providers, cr: BOOLEAN]]
      /\ state' \in [Runs -> {"off", "run", "done", "failed"}]
  BY <1>1, <1>2, <1>3 DEF TypeOK
<1>5. ASSUME NEW q \in Runs PROVE RunOK(q)'
  <2>1. CASE q = r
    <3>1. /\ \A p \in P : \A k \in Parts(p) : Pending(Steps(P, cr), P, <<k, p>>)
          /\ "saml" \in P => Has(Steps(P, cr), <<"mappers", "saml">>)
          /\ ~cr => Has(Steps(P, cr), <<"selfreg", "-">>)
      BY <1>2, StepsPending
    <3> QED
      BY <1>2, <1>4, <2>1, <3>1 DEF RunOK
  <2>2. CASE q # r
    <3>1. RunOK(q) /\ Steady(q)
      BY <1>3, RunFacts DEF Steady
    <3> QED
      BY <1>4, <2>2, <3>1, RunKeeps
  <2> QED
    BY <2>1, <2>2
<1>6. ASSUME NEW q \in Runs PROVE SeenOK(q)'
  <2>1. q \in Between' => q \in Between
    BY <1>2, <1>4 DEF Between, Running, Step
  <2> QED
    BY <1>3, <2>1, SeenKeeps
<1>7. \A o \in Objects : Owned(o)'
  <2>1. SUFFICES ASSUME NEW o \in Objects, obj[o] # None
        PROVE  state'[obj[o]] # "off" /\ o[2] \in req'[obj[o]].providers
    BY <1>3 DEF Owned
  <2>2. obj[o] \in Runs /\ state[obj[o]] # "off" /\ o[2] \in req[obj[o]].providers
    BY <2>1 DEF IInv, TypeOK, Owned
  <2> QED
    BY <1>3, <1>4, <2>2
<1>8. ConnectionIsApplied'
  BY <1>3 DEF IInv, ConnectionIsApplied
<1>9. DeleteOK'
  <2>1. DeleteOK
    BY DEF IInv
  <2> QED
    BY <1>3, <1>4, <2>1 DEF DeleteOK, deleteVars
<1>10. TypeOK'
  <2>1. Steps(P, cr) \in Seq(StepKinds \X (Providers \cup {"-"}))
    <3>1. Steps(P, cr) \in Seq(StepKinds \X (P \cup {"-"}))
      BY <1>2 DEF Plan
    <3> QED
      BY <1>2, <3>1, SeqMonotonic
  <2>2. todo' \in [Runs -> Seq(StepKinds \X (Providers \cup {"-"}))]
    BY <1>1, <1>2, <2>1 DEF TypeOK
  <2>3. drivals' \subseteq Runs
    BY <1>2, <1>3 DEF TypeOK
  <2> QED
    BY <1>2, <1>3, <1>4, <2>2, <2>3 DEF TypeOK, deleteVars
<1> QED
  BY <1>5, <1>6, <1>7, <1>8, <1>9, <1>10 DEF IInv

LEMMA ReadStep ==
    ASSUME IInv, NEW r \in Runs, ReadTemplates(r) PROVE IInv'
<1>1. /\ Running(r) /\ Step(r)[1] = "read" /\ Next1(r)
      /\ seen' = [seen EXCEPT ![r] = Existing(templates)]
      /\ UNCHANGED <<obj, templates, hasOIDC, state, req, deleteVars, followed, raced, drivals,
                     faults>>
  BY DEF ReadTemplates
<1>2. TypeOK /\ Existing(templates) \in SUBSET Templates
  BY DEF IInv, TypeOK, Existing
<1>3. ASSUME NEW q \in Runs PROVE SeenOK(q)'
  <2>1. q \in Between' => (q \in Between /\ q # r) \/ q = r
    BY <1>1, TailBetween DEF Next1
  <2>2. CASE q = r
    <3>1. seen'[r] = Existing(templates)
      BY <1>1, <1>2 DEF TypeOK
    <3> QED
      BY <1>1, <2>2, <3>1 DEF SeenOK, Existing
  <2>3. CASE q # r
    <3>1. seen'[q] = seen[q] /\ SeenOK(q)
      BY <1>1, <1>2, <2>3 DEF IInv, TypeOK
    <3> QED
      BY <1>1, <2>1, <2>3, <3>1 DEF SeenOK
  <2> QED
    BY <2>2, <2>3
<1>4. seen' \in [Runs -> SUBSET Templates]
  BY <1>1, <1>2 DEF TypeOK
<1> QED
  BY <1>1, <1>2, <1>3, <1>4, TailStep DEF TypeOK

LEMMA PatchStep ==
    ASSUME IInv, NEW r \in Runs, PatchTemplates(r) PROVE IInv'
<1>1. /\ Running(r) /\ Step(r)[1] = "patch" /\ Next1(r)
      /\ templates' = (IF templates = Absent THEN Absent ELSE Patched(seen[r]))
      /\ seen' = [seen EXCEPT ![r] = {}]
      /\ raced' = (raced \cup (IF "other" \in Existing(templates') \ Existing(templates)
                               THEN Between ELSE {})) \ {r}
      /\ UNCHANGED <<obj, hasOIDC, state, req, deleteVars, followed, drivals, faults>>
  BY DEF PatchTemplates
<1>2. TypeOK /\ seen[r] \in SUBSET Templates
  BY DEF IInv, TypeOK
<1>3. ASSUME NEW q \in Runs PROVE SeenOK(q)'
  <2>1. SUFFICES ASSUME q \in Between', q \notin raced', templates' # Absent,
                        "other" \in templates'
                 PROVE  "other" \in seen'[q]
    BY DEF SeenOK
  <2>2. q \in Between /\ q # r
    BY <1>1, <2>1, TailBetween DEF Next1
  <2>3. templates # Absent
    BY <1>1, <2>1
  <2>4. "other" \in Existing(templates') /\ Existing(templates) = templates
    BY <2>1, <2>3 DEF Existing
  <2>5. "other" \in templates /\ q \notin raced
    BY <1>1, <2>1, <2>2, <2>4
  <2>6. "other" \in seen[q]
    BY <2>2, <2>3, <2>5 DEF IInv, SeenOK
  <2> QED
    BY <1>1, <1>2, <2>2, <2>6 DEF TypeOK
<1>4. /\ seen' \in [Runs -> SUBSET Templates] /\ raced' \subseteq Runs
      /\ templates' = Absent \/ templates' \subseteq Templates
  BY <1>1, <1>2 DEF TypeOK, Patched, Templates, Between
<1> QED
  BY <1>1, <1>2, <1>3, <1>4, TailStep DEF TypeOK

\* The steps that leave the memory of the pod alone.
LEMMA QuietSeen ==
    ASSUME IInv, NEW r \in Runs, Running(r), Next1(r), Step(r)[1] # "read",
           UNCHANGED <<state, templates, seen, raced>>
    PROVE  \A q \in Runs : SeenOK(q)'
<1> SUFFICES ASSUME NEW q \in Runs PROVE SeenOK(q)'
  OBVIOUS
<1>1. q \in Between' => q \in Between
  BY TailBetween DEF Next1
<1> QED
  BY <1>1, SeenKeeps

LEMMA DoneStep ==
    ASSUME IInv, NEW r \in Runs, StepDone(r) \/ Ready(r) PROVE IInv'
<1>1. /\ Running(r) /\ Next1(r) /\ Step(r)[1] \notin {"read", "patch"}
      /\ UNCHANGED <<templates, hasOIDC, state, req, seen, deleteVars, raced, drivals, faults>>
      /\ Writes(r) \/ (Step(r)[1] = "wait" /\ UNCHANGED <<obj, followed>>)
  BY DEF StepDone, Ready, Writes
<1>2. \A q \in Runs : SeenOK(q)'
  BY <1>1, QuietSeen
<1>3. /\ templates' = Absent \/ templates' \subseteq Templates
      /\ seen' \in [Runs -> SUBSET Templates] /\ raced' \subseteq Runs /\ faults' \in 0..MaxFaults
  BY <1>1 DEF IInv, TypeOK
<1> QED
  BY <1>1, <1>2, <1>3, TailStep

LEMMA FaultType == ASSUME IInv, Fault PROVE faults' \in 0..MaxFaults
<1>1. MaxFaults \in Nat /\ faults \in 0..MaxFaults
  BY MasAuthAssumption DEF IInv, TypeOK, MasAuthAssumption
<1> QED
  BY <1>1 DEF Fault

LEMMA EndStep ==
    ASSUME IInv, NEW r \in Runs,
           \/ StepMissing(r) \/ StepLost(r) \/ WaitTimesOut(r) \/ Killed(r) \/ RunEnds(r)
    PROVE  IInv'
<1>1. faults' \in 0..MaxFaults
  BY FaultType DEF StepMissing, StepLost, WaitTimesOut, Killed, RunEnds, IInv, TypeOK
<1>2. CASE StepMissing(r) \/ WaitTimesOut(r) \/ Killed(r)
  BY <1>1, <1>2, StopStep DEF StepMissing, WaitTimesOut, Killed, Running
<1>3. CASE StepLost(r)
  <2>1. Writes(r)
    BY <1>3 DEF StepLost, Writes, Optional
  <2> QED
    BY <1>1, <1>3, <2>1, StopStep DEF StepLost, Running
<1>4. CASE RunEnds(r)
  BY <1>1, <1>4, StopStep DEF RunEnds
<1> QED
  BY <1>2, <1>3, <1>4

LEMMA FailStep ==
    ASSUME IInv, NEW r \in Runs, StepFails(r) PROVE IInv'
<1>1. /\ Running(r) /\ faults' \in 0..MaxFaults
      /\ UNCHANGED <<obj, templates, hasOIDC, req, seen, deleteVars, followed, raced, drivals>>
  BY FaultType DEF StepFails
<1>2. CASE ~Optional(Step(r))
  <2>1. Stop(r, "failed")
    BY <1>2 DEF StepFails
  <2> QED
    BY <1>1, <2>1, StopStep DEF Running
<1>3. CASE Optional(Step(r)) /\ Step(r)[1] # "read"
  <2>1. Next1(r) /\ UNCHANGED state /\ Step(r)[1] = "patch"
    BY <1>3 DEF StepFails, Next1, Optional
  <2>2. \A q \in Runs : SeenOK(q)'
    BY <1>1, <2>1, QuietSeen
  <2> QED
    BY <1>1, <2>1, <2>2, TailStep DEF IInv, TypeOK
<1>4. CASE Step(r)[1] = "read"
  <2> DEFINE t == todo[r]
             P == req[r].providers
             w == Tail(Tail(t))
  <2>1. TypeOK /\ RunOK(r) /\ P \in SUBSET Providers /\ Plan(t, P)
        /\ Step(r) \in StepKinds \X (P \cup {"-"}) /\ t # <<>>
    BY <1>1, RunFacts DEF IInv
  <2>2. todo' = [todo EXCEPT ![r] = w] /\ state' = state /\ todo'[r] = w /\ state[r] = "run"
    BY <1>1, <1>4, <2>1 DEF StepFails, Optional, TypeOK, Running
  <2>3. /\ Plan(Tail(t), P) /\ Tail(t) # <<>> /\ Head(Tail(t))[1] = "patch" /\ Step(r) = Head(t)
        /\ \A o : Pending(t, P, o) => o \in Written(Head(t), P) \/ Pending(Tail(t), P, o)
        /\ \A s : Has(t, s) => s = Head(t) \/ Has(Tail(t), s)
    BY <1>4, <2>1, PlanTail DEF Step
  <2>4. /\ Plan(w, P) /\ Head(Tail(t)) \in StepKinds \X (P \cup {"-"})
        /\ w # <<>> => Head(w)[1] # "patch"
        /\ \A o : Pending(Tail(t), P, o) => o \in Written(Head(Tail(t)), P) \/ Pending(w, P, o)
        /\ \A s : Has(Tail(t), s) => s = Head(Tail(t)) \/ Has(w, s)
    BY <2>3, PlanTail
  <2>5. \A o \in Objects : o \notin Written(Head(t), P) /\ o \notin Written(Head(Tail(t)), P)
    BY <1>4, <2>1, <2>3, <2>4, WrittenOwn
  <2>6. \A o \in Objects : Pending(t, P, o) => Pending(w, P, o)
    BY <2>3, <2>4, <2>5
  <2>7. /\ Has(t, <<"mappers", "saml">>) => Has(w, <<"mappers", "saml">>)
        /\ Has(t, <<"selfreg", "-">>) => Has(w, <<"selfreg", "-">>)
    BY <1>4, <2>3, <2>4
  <2> HIDE DEF w, t
  <2>8. RunOK(r)'
    <3>1. \A p \in P : \A k \in Parts(p) : Pending(t, P, <<k, p>>) => Pending(w, P, <<k, p>>)
      BY <2>1, <2>6, PartObjects
    <3> QED
      BY <1>1, <2>1, <2>2, <2>4, <2>7, <3>1 DEF RunOK, t
  <2>9. ASSUME NEW q \in Runs PROVE SeenOK(q)'
    <3>1. q # r => todo'[q] = todo[q] /\ state'[q] = state[q]
      BY <2>1, <2>2 DEF TypeOK
    <3>2. q \in Between' => q \in Between
      BY <2>2, <2>4, <3>1 DEF Between, Running, Step
    <3> QED
      BY <1>1, <3>2, SeenKeeps
  <2>10. state' = [state EXCEPT ![r] = "run"]
    BY <2>1, <2>2 DEF TypeOK
  <2> QED
    BY <1>1, <2>1, <2>2, <2>8, <2>9, <2>10, RunStep DEF TypeOK
<1> QED
  BY <1>2, <1>3, <1>4 DEF Optional

-----------------------------------------------------------------------------
(* Steps of the administrator and of the delete keep the invariant. *)

LEMMA EditStep == ASSUME IInv, EditSuite PROVE IInv'
<1>1. /\ raced' = Between /\ templates' = Existing(templates) \cup {"other"}
      /\ UNCHANGED <<obj, hasOIDC, runVars, deleteVars, followed, drivals, faults>>
  BY DEF EditSuite
<1>2. Between' = Between /\ Between \subseteq Runs
  BY <1>1 DEF Between, Running, Step, runVars
<1>3. TypeOK'
  BY <1>1, <1>2 DEF IInv, TypeOK, runVars, deleteVars, Existing, Templates
<1>4. ASSUME NEW q \in Runs PROVE RunOK(q)' /\ SeenOK(q)'
  <2>1. RunOK(q) /\ Steady(q)
    BY <1>1, RunFacts DEF Steady
  <2> QED
    BY <1>1, <1>2, <2>1, RunKeeps DEF SeenOK, runVars
<1>5. ConnectionIsApplied' /\ DeleteOK' /\ \A o \in Objects : Owned(o)'
  BY <1>1 DEF IInv, ConnectionIsApplied, DeleteOK, Owned, runVars, deleteVars
<1> QED
  BY <1>3, <1>4, <1>5 DEF IInv

\* What is left to show of a step of the delete.
LEMMA DeleteStep ==
    ASSUME IInv, UNCHANGED <<templates, hasOIDC, runVars, raced>>,
           UNCHANGED <<obj, followed>> \/ DeleteDone, DeleteOK',
           dstate' \in {"off", "run", "done", "failed", "killed"}, dreq' \subseteq Providers,
           dignore' \in BOOLEAN, dfailed' \in BOOLEAN, drefused' \subseteq Providers,
           drivals' \subseteq Runs, faults' \in 0..MaxFaults
    PROVE  IInv'
<1>1. TypeOK /\ \A q \in Runs : RunOK(q) /\ SeenOK(q)
  BY DEF IInv
<1>2. CASE UNCHANGED <<obj, followed>>
  <2>1. \A q \in Runs : Steady(q)
    BY <1>2 DEF Steady
  <2>2. \A q \in Runs : RunOK(q)'
    BY <1>1, <2>1, RunKeeps DEF runVars
  <2>3. \A q \in Runs : SeenOK(q)'
    BY <1>1 DEF SeenOK, Between, Running, Step, runVars
  <2>4. ConnectionIsApplied' /\ \A o \in Objects : Owned(o)'
    BY <1>2 DEF IInv, ConnectionIsApplied, Owned, runVars
  <2>5. TypeOK'
    BY <1>1, <1>2 DEF TypeOK, runVars
  <2> QED
    BY <2>2, <2>3, <2>4, <2>5 DEF IInv
<1>3. CASE DeleteDone
  <2> DEFINE p == Head(dtodo)[2]
             gone == {"cfg", "cred", "meta"} \X {p}
  <2>1. /\ obj' = [o \in Objects |-> IF o \in gone THEN None ELSE obj[o]]
        /\ followed' = [followed EXCEPT ![p] = Runs] /\ p \in Providers
    <3>1. dtodo \in Seq({"delete"} \X Providers) /\ dtodo # <<>>
      BY <1>3 DEF IInv, DeleteOK, DeleteDone, Deleting
    <3>2. Head(dtodo) \in {"delete"} \X Providers
      BY <3>1, EmptySeq, HeadTailProperties
    <3> QED
      BY <1>3, <3>2 DEF DeleteDone
  <2>2. /\ followed'[p] = Runs
        /\ \A x \in Providers \cup {"selfreg"} : x # p => followed'[x] = followed[x]
        /\ followed' \in [Providers \cup {"selfreg"} -> SUBSET Runs]
        /\ p # "selfreg"
    BY <1>1, <2>1 DEF TypeOK, Providers
  <2>3. ASSUME NEW x \in Providers, NEW k \in Kinds,
               x # p \/ k \notin {"cfg", "cred", "meta"}
        PROVE  obj'[<<k, x>>] = obj[<<k, x>>]
    <3>1. <<k, x>> \in Objects /\ <<k, x>> \notin gone
      BY <2>3 DEF Objects
    <3> QED
      BY <2>1, <3>1
  <2>4. ASSUME NEW q \in Runs PROVE Steady(q)
    <3>1. req[q].providers \subseteq Providers
      BY RunFacts
    <3>2. ASSUME NEW x \in req[q].providers, q \notin followed'[x], NEW k \in Parts(x)
          PROVE  q \notin followed[x] /\ obj'[<<k, x>>] = obj[<<k, x>>]
      <4>1. x # p /\ x \in Providers /\ k \in Kinds
        BY <2>2, <3>1, <3>2 DEF Parts, Kinds
      <4> QED
        BY <2>2, <2>3, <3>2, <4>1
    <3>3. q \notin followed'["selfreg"] => q \notin followed["selfreg"]
      BY <2>2
    <3>4. /\ obj'[<<"mappers", "saml">>] = obj[<<"mappers", "saml">>]
          /\ \A x \in req[q].providers : obj'[<<"selfreg", x>>] = obj[<<"selfreg", x>>]
      BY <2>3, <3>1 DEF Kinds, Providers
    <3>5. \A x \in req[q].providers : q \notin followed'[x] => q \notin followed[x]
      BY <2>2, <3>1
    <3> QED
      BY <3>2, <3>3, <3>4, <3>5 DEF Steady
  <2>5. \A q \in Runs : RunOK(q)'
    BY <1>1, <2>4, RunKeeps DEF runVars
  <2>6. \A q \in Runs : SeenOK(q)'
    BY <1>1 DEF SeenOK, Between, Running, Step, runVars
  <2>7. \A o \in Objects : Owned(o)'
    BY <2>1 DEF IInv, Owned, runVars
  <2>8. ConnectionIsApplied'
    <3> SUFFICES ASSUME NEW q \in Runs, NEW x \in Providers, obj'[<<"conn", x>>] = q,
                        q \notin followed'[x]
                 PROVE  obj'[<<"cfg", x>>] = q
      BY DEF ConnectionIsApplied
    <3>1. x # p
      BY <2>2
    <3>2. obj'[<<"conn", x>>] = obj[<<"conn", x>>] /\ obj'[<<"cfg", x>>] = obj[<<"cfg", x>>]
      BY <2>3, <3>1 DEF Kinds
    <3> QED
      BY <2>2, <3>1, <3>2 DEF IInv, ConnectionIsApplied
  <2>9. TypeOK'
    <3>1. obj' \in [Objects -> Runs \cup {None}]
      BY <1>1, <2>1 DEF TypeOK
    <3> QED
      BY <1>1, <2>2, <3>1 DEF TypeOK, runVars
  <2> QED
    BY <2>5, <2>6, <2>7, <2>8, <2>9 DEF IInv
<1> QED
  BY <1>2, <1>3

LEMMA StartDeleteStep == ASSUME IInv, StartDelete PROVE IInv'
<1>1. /\ dstate = "off" /\ dreq' \in Requests /\ dignore' \in BOOLEAN
      /\ dtodo' = For("delete", dreq') /\ dstate' = "run"
      /\ drivals' = {r \in Runs : state[r] = "run"}
      /\ UNCHANGED <<obj, templates, hasOIDC, runVars, dfailed, drefused, followed, raced, faults>>
  BY DEF StartDelete
<1>2. TypeOK /\ DeleteOK /\ dreq' \in SUBSET Providers
  BY <1>1, MasAuthAssumption DEF IInv, MasAuthAssumption
<1> DEFINE one == <<"delete">>
<1>3. one \in Seq({"delete"}) /\ 1 \in 1..Len(one) /\ one[1] = "delete"
  OBVIOUS
<1>4. dtodo' = Each(one, dreq')
  BY <1>1 DEF For
<1> HIDE DEF one
<1>5. dtodo' \in Seq({"delete"} \X Providers)
  <2>1. dtodo' \in Seq({"delete"} \X (dreq' \cap Providers))
    BY <1>3, <1>4, EachType
  <2> QED
    BY <2>1, SeqMonotonic
<1>6. \A p \in dreq' : Has(dtodo', <<"delete", p>>)
  BY <1>2, <1>3, <1>4, EachHasNth
<1>7. DeleteOK'
  <2>1. \A p \in dreq' \ drefused' :
            obj'[<<"cfg", p>>] \in drivals' \cup {None} \/ Has(dtodo', <<"delete", p>>)
    BY <1>6
  <2>2. \A r \in Runs : state'[r] = "run" => r \in drivals'
    BY <1>1 DEF runVars
  <2>3. drefused' # {} => dfailed'
    BY <1>1, <1>2 DEF DeleteOK
  <2> QED
    BY <1>1, <1>5, <2>1, <2>2, <2>3 DEF DeleteOK, Has
<1> QED
  BY <1>1, <1>2, <1>7, DeleteStep DEF TypeOK

\* One provider is done with: deleted, not there, or refused.
LEMMA NextDelete ==
    ASSUME IInv, Deleting, NEW bad \in BOOLEAN, Next2(bad),
           UNCHANGED <<dstate, dreq, state, drivals>>, drefused \subseteq drefused',
           drefused' # {} => bad \/ dfailed,
           obj'[<<"cfg", Head(dtodo)[2]>>] = None \/ Head(dtodo)[2] \in drefused',
           \A p \in Providers : obj'[<<"cfg", p>>] \in {obj[<<"cfg", p>>], None}
    PROVE  DeleteOK' /\ dfailed' \in BOOLEAN /\ Head(dtodo)[2] \in Providers
<1>1. DeleteOK /\ TypeOK /\ dstate = "run" /\ dtodo # <<>> /\ dtodo \in Seq({"delete"} \X Providers)
  BY DEF IInv, Deleting, DeleteOK
<1> DEFINE u == Tail(dtodo)
<1>2. /\ Head(dtodo) = dtodo[1] /\ Head(dtodo) \in {"delete"} \X Providers
      /\ u \in Seq({"delete"} \X Providers) /\ Len(dtodo) \in Nat /\ Len(u) = Len(dtodo) - 1
      /\ \A i \in 1..Len(u) : u[i] = dtodo[i + 1]
  BY <1>1, EmptySeq, HeadTailProperties, LenProperties
<1>3. dtodo' = u /\ dfailed' = (dfailed \/ bad)
  BY DEF Next2
<1> HIDE DEF u
<1>4. \A s : Has(dtodo, s) => s = Head(dtodo) \/ Has(u, s)
  <2>1. \A n \in 1..Len(dtodo) : n = 1 \/ (n - 1 \in 1..Len(u) /\ u[n - 1] = dtodo[n])
    BY <1>2
  <2> QED
    BY <1>2, <2>1 DEF Has
<1>5. ASSUME NEW p \in dreq' \ drefused'
      PROVE  obj'[<<"cfg", p>>] \in drivals \cup {None} \/ Has(u, <<"delete", p>>)
  <2>1. p \in Providers /\ p \in dreq \ drefused
    BY <1>1, <1>5 DEF TypeOK
  <2>2. CASE obj[<<"cfg", p>>] \in drivals \cup {None}
    BY <2>1, <2>2
  <2>3. CASE Has(dtodo, <<"delete", p>>)
    <3>1. Has(u, <<"delete", p>>) \/ Head(dtodo)[2] = p
      BY <1>4, <2>3
    <3> QED
      BY <1>5, <3>1
  <2> QED
    BY <1>1, <2>1, <2>2, <2>3 DEF DeleteOK
<1>6. DeleteOK'
  <2>1. dstate' = "run" /\ drivals' = drivals /\ state' = state
    BY <1>1
  <2> QED
    BY <1>1, <1>2, <1>3, <1>5, <2>1 DEF DeleteOK
<1> QED
  BY <1>1, <1>2, <1>3, <1>6 DEF TypeOK

LEMMA DeletesStep ==
    ASSUME IInv, DeleteDone \/ DeleteMissing \/ DeleteRefused PROVE IInv'
<1>1. TypeOK /\ Deleting /\ UNCHANGED <<templates, hasOIDC, runVars, dstate, dreq, dignore, raced, drivals>>
  BY DEF IInv, DeleteDone, DeleteMissing, DeleteRefused
<1> DEFINE p == Head(dtodo)[2]
<1>2. p \in Providers
  <2>1. dtodo \in Seq({"delete"} \X Providers) /\ dtodo # <<>>
    BY <1>1 DEF IInv, DeleteOK, Deleting
  <2>2. Head(dtodo) \in {"delete"} \X Providers
    BY <2>1, EmptySeq, HeadTailProperties
  <2> QED
    BY <2>2
<1>3. CASE DeleteDone
  <2>1. /\ Next2(FALSE) /\ UNCHANGED <<drefused, faults>>
        /\ obj' = [o \in Objects |-> IF o \in {"cfg", "cred", "meta"} \X {p} THEN None ELSE obj[o]]
    BY <1>3 DEF DeleteDone
  <2>2. /\ obj'[<<"cfg", p>>] = None
        /\ \A x \in Providers : obj'[<<"cfg", x>>] \in {obj[<<"cfg", x>>], None}
    BY <1>2, <2>1 DEF Objects, Kinds
  <2>3. drefused # {} => dfailed
    BY DEF IInv, DeleteOK
  <2>4. DeleteOK' /\ dfailed' \in BOOLEAN
    BY <1>1, <2>1, <2>2, <2>3, NextDelete DEF runVars
  <2> QED
    BY <1>1, <1>3, <2>1, <2>4, DeleteStep DEF TypeOK
<1>4. CASE DeleteMissing
  <2>1. /\ Next2(~dignore) /\ UNCHANGED <<drefused, faults, obj, followed>>
        /\ obj[<<"cfg", p>>] = None /\ (~dignore) \in BOOLEAN
    BY <1>1, <1>4 DEF DeleteMissing, TypeOK
  <2>2. drefused # {} => dfailed
    BY DEF IInv, DeleteOK
  <2>3. DeleteOK' /\ dfailed' \in BOOLEAN
    BY <1>1, <2>1, <2>2, NextDelete DEF runVars
  <2> QED
    BY <1>1, <2>1, <2>3, DeleteStep DEF TypeOK
<1>5. CASE DeleteRefused
  <2>1. /\ Next2(TRUE) /\ UNCHANGED <<obj, followed>> /\ drefused' = drefused \cup {p}
        /\ faults' \in 0..MaxFaults
    BY <1>5, FaultType DEF DeleteRefused, Noted
  <2>2. DeleteOK' /\ dfailed' \in BOOLEAN
    BY <1>1, <2>1, NextDelete DEF runVars
  <2> QED
    BY <1>1, <1>2, <2>1, <2>2, DeleteStep DEF TypeOK
<1> QED
  BY <1>3, <1>4, <1>5

LEMMA DeleteEndsStep ==
    ASSUME IInv, DeleteEnds \/ DeleteKilled PROVE IInv'
<1>1. /\ dstate = "run" /\ TypeOK /\ DeleteOK
      /\ UNCHANGED <<obj, templates, hasOIDC, runVars, dtodo, dreq, dignore, dfailed, drefused,
                     followed, raced, drivals>>
  BY DEF DeleteEnds, DeleteKilled, Deleting, IInv
<1>2. faults' \in 0..MaxFaults
  BY <1>1, FaultType DEF DeleteEnds, DeleteKilled, TypeOK
<1>3. \/ dstate' = "killed"
      \/ dtodo = <<>> /\ dstate' = (IF dfailed THEN "failed" ELSE "done")
  BY DEF DeleteEnds, DeleteKilled
<1>4. DeleteOK'
  BY <1>1, <1>3 DEF DeleteOK, runVars
<1>5. dstate' \in {"off", "run", "done", "failed", "killed"}
  BY <1>3
<1> QED
  BY <1>1, <1>2, <1>4, <1>5, DeleteStep DEF TypeOK

-----------------------------------------------------------------------------
(* The theorems. *)

LEMMA InitIInv == Init => IInv
<1> SUFFICES ASSUME Init PROVE IInv
  OBVIOUS
<1>1. TypeOK
  <2>1. <<>> \in Seq(StepKinds \X (Providers \cup {"-"}))
    BY EmptySeq
  <2>2. todo \in [Runs -> Seq(StepKinds \X (Providers \cup {"-"}))]
    BY <2>1 DEF Init
  <2>3. req \in [Runs -> [providers: SUBSET Providers, cr: BOOLEAN]]
    BY DEF Init, NoRequest
  <2>4. templates = Absent \/ templates \subseteq Templates
    BY DEF Init, Templates
  <2>5. faults \in 0..MaxFaults
    BY MasAuthAssumption DEF Init, MasAuthAssumption
  <2> QED
    BY <2>2, <2>3, <2>4, <2>5 DEF Init, TypeOK
<1>2. \A r \in Runs : RunOK(r) /\ SeenOK(r)
  BY PlanEmpty DEF Init, RunOK, SeenOK, Between, Running
<1>3. \A o \in Objects : Owned(o)
  BY DEF Init, Owned
<1>4. ConnectionIsApplied
  <2>1. \A r \in Runs : r # None
    BY MasAuthAssumption DEF MasAuthAssumption
  <2> QED
    BY <2>1, PartObjects DEF Init, ConnectionIsApplied
<1>5. DeleteOK
  BY DEF Init, DeleteOK
<1> QED
  BY <1>1, <1>2, <1>3, <1>4, <1>5 DEF IInv

LEMMA NextIInv == IInv /\ [Next]_vars => IInv'
<1> SUFFICES ASSUME IInv, [Next]_vars PROVE IInv'
  OBVIOUS
<1>1. CASE EditSuite
  BY <1>1, EditStep
<1>2. CASE Delete
  BY <1>2, StartDeleteStep, DeletesStep, DeleteEndsStep DEF Delete
<1>3. ASSUME NEW r \in Runs, Apply(r) PROVE IInv'
  BY <1>3, StartStep, ReadStep, PatchStep, DoneStep, EndStep, FailStep DEF Apply
<1>4. CASE UNCHANGED vars
  BY <1>4 DEF vars, runVars, deleteVars, IInv, TypeOK, ConnectionIsApplied, DeleteOK, RunOK,
     SeenOK, Owned, Between, Running, Step
<1> QED
  BY <1>1, <1>2, <1>3, <1>4 DEF Next

LEMMA AlwaysIInv == Spec => []IInv
BY InitIInv, NextIInv, PTL DEF Spec

\* Whatever runs of apply and delete there are and wherever they stop, a run that
\* ended well has left its own values in Keycloak, in MAS and in the Secrets, until
\* another run or a delete came across it.
THEOREM AppliedAgreeHolds == Spec => []AppliedAgree
<1>1. IInv => AppliedAgree
  <2> SUFFICES ASSUME IInv, NEW r \in Runs, state[r] = "done"
               PROVE  /\ \A p \in req[r].providers : r \notin followed[p] =>
                            /\ \A k \in Parts(p) : obj[<<k, p>>] = r
                            /\ p = "saml" => obj[<<"mappers", p>>] # None
                      /\ ~req[r].cr /\ r \notin followed["selfreg"] =>
                            \A p \in req[r].providers : obj[<<"selfreg", p>>] = r
    BY DEF AppliedAgree
  <2>1. RunOK(r) /\ todo[r] = <<>>
    BY RunFacts DEF RunOK
  <2>2. \A P, o : ~Pending(<<>>, P, o)
    BY DEF Pending
  <2>3. \A s : ~Has(<<>>, s)
    BY DEF Has
  <2> QED
    BY <2>1, <2>2, <2>3 DEF RunOK
<1> QED
  BY <1>1, AlwaysIInv, PTL

\* A connection Secret shows the values of a run only when MAS has taken them, at
\* every moment of that run and of all others.
THEOREM ConnectionsSoundHolds == Spec => []ConnectionsSound
<1>1. IInv => ConnectionsSound
  BY DEF IInv, ConnectionsSound
<1> QED
  BY <1>1, AlwaysIInv, PTL

\* A delete that ended has left no provider that MAS did not refuse to delete and no
\* apply has set up beside it, and told of the refused ones.
THEOREM DeleteCompleteHolds == Spec => []DeleteComplete
<1>1. IInv => DeleteComplete
  <2> SUFFICES ASSUME IInv PROVE DeleteComplete
    OBVIOUS
  <2>1. DeleteOK
    BY DEF IInv
  <2>2. \A s : ~Has(<<>>, s)
    BY DEF Has
  <2> QED
    BY <2>1, <2>2 DEF DeleteOK, DeleteComplete
<1> QED
  BY <1>1, AlwaysIInv, PTL

\* The patch of the memory takes a template out of the Suite only if it was put in
\* after that run had read the Suite.
THEOREM TemplatesKeptHolds == Spec => TemplatesKept
<1>1. IInv /\ [Next]_vars =>
          [templates # Absent /\ "other" \in templates /\ "other" \notin templates' =>
              raced \cap Between # {}]_vars
  <2> SUFFICES ASSUME IInv, Next, templates # Absent, "other" \in templates,
                      "other" \notin templates'
               PROVE  raced \cap Between # {}
    BY DEF Next
  <2>1. templates' # templates
    OBVIOUS
  <2>2. ~EditSuite /\ ~Delete
    BY <2>1 DEF EditSuite, Delete, StartDelete, DeleteDone, DeleteMissing, DeleteRefused,
       DeleteEnds, DeleteKilled
  <2>3. PICK r \in Runs : Apply(r)
    BY <2>2 DEF Next
  <2>4. PatchTemplates(r)
    BY <2>1, <2>3 DEF Apply, Start, ReadTemplates, StepDone, StepMissing, StepFails, StepLost,
       Ready, WaitTimesOut, Killed, RunEnds
  <2>5. r \in Between /\ "other" \notin seen[r]
    BY <2>4 DEF PatchTemplates, Patched, Between
  <2>6. SeenOK(r)
    BY RunFacts
  <2> QED
    BY <2>5, <2>6 DEF SeenOK
<1> QED
  BY <1>1, AlwaysIInv, PTL DEF Spec, TemplatesKept
=====
