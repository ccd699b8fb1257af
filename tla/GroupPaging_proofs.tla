------------------------- MODULE GroupPaging_proofs -------------------------
(***************************************************************************)
(* Proofs about GroupPaging: however many users, groups and changes there  *)
(* are and whatever the size of a page, reading by offsets misses no       *)
(* stable member as long as nobody leaves, and finds nobody wrongly.       *)
(***************************************************************************)
EXTENDS GroupPaging, FiniteSetTheorems, SequenceTheorems, TLAPS

-----------------------------------------------------------------------------
(* The inductive invariant. *)

Found == Range(found)

\* The groups that were read to the end are covered; of the group that is being
\* read, whoever is not found yet is still ahead.
Covered(g) == always[g] \ Federated \subseteq Found
Ahead(g)   == \A u \in always[g] \ Federated : u \in Found \/ Offset(u, g) >= first

Progress ==
    ~left =>
        /\ Reading => \A j \in 1..(k - 1) : Covered(Configured[j])
        /\ pc = "page" => Ahead(Configured[k])
        /\ pc = "done" => \A g \in Groups : Covered(g)

\* What happened while the scope was read.
History ==
    /\ \A g \in Groups : always[g] \subseteq member[g]
    /\ Reading => \A g \in Groups : member[g] \subseteq ever
    /\ Reading \/ pc = "done" => Found \subseteq ever \ Federated
    /\ pc = "start" => k = 1 /\ found = <<>>

IInv == TypeOK /\ IsInjective(found) /\ History /\ Progress

-----------------------------------------------------------------------------
(* Offsets and pages. *)

LEMMA GroupsRead ==
  /\ Len(Configured) \in Nat \ {0} /\ Configured \in Seq(Groups)
  /\ \A i \in 1..Len(Configured) : Configured[i] \in Groups
  /\ \A g \in Groups : \E i \in 1..Len(Configured) : Configured[i] = g
  /\ PageSize \in Nat \ {0}
<1>1. Configured \in Seq(Groups) /\ Configured # <<>> /\ PageSize \in Nat \ {0}
  BY PagingAssumption
<1>2. Len(Configured) \in Nat \ {0} /\ DOMAIN Configured = 1..Len(Configured)
  BY <1>1, EmptySeq
<1> QED BY <1>1, <1>2 DEF Groups, Range

LEMMA MembersFinite ==
  ASSUME TypeOK, NEW g \in Groups
  PROVE  /\ member[g] \subseteq Nat /\ IsFiniteSet(member[g])
         /\ \A u \in member[g] :
               /\ IsFiniteSet({v \in member[g] : v < u})
               /\ Offset(u, g) \in 0..(Cardinality(member[g]) - 1)
<1>1. member[g] \subseteq Users /\ Users \subseteq Nat /\ IsFiniteSet(Users)
  BY PagingAssumption DEF TypeOK
<1>2. member[g] \subseteq Nat /\ IsFiniteSet(member[g])
  BY <1>1, FS_Subset
<1>3. ASSUME NEW u \in member[g]
      PROVE  /\ IsFiniteSet({v \in member[g] : v < u})
             /\ Offset(u, g) \in 0..(Cardinality(member[g]) - 1)
  <2> DEFINE B == {v \in member[g] : v < u}
  <2>1. B \subseteq member[g] /\ u \notin B /\ B # member[g]
    BY <1>2
  <2>2. /\ IsFiniteSet(B) /\ Cardinality(B) \in Nat /\ Cardinality(member[g]) \in Nat
        /\ Cardinality(B) < Cardinality(member[g])
    <3> HIDE DEF B
    <3> QED BY <1>2, <2>1, FS_Subset, FS_CardinalityType
  <2> QED BY <2>2 DEF Offset
<1> QED BY <1>2, <1>3

LEMMA OffsetNat ==
  ASSUME TypeOK, NEW g \in Groups, NEW u \in member[g]
  PROVE  Offset(u, g) \in Nat
BY MembersFinite, FS_CardinalityType DEF Offset

\* The offsets follow the order of the listing, so no two members share one.
LEMMA OffsetsGrow ==
  ASSUME TypeOK, NEW g \in Groups, NEW u \in member[g], NEW v \in member[g], u < v
  PROVE  Offset(u, g) < Offset(v, g)
<1> DEFINE A == {w \in member[g] : w < u}
           B == {w \in member[g] : w < v}
<1>1. member[g] \subseteq Nat /\ IsFiniteSet(B)
  BY MembersFinite
<1>2. A \subseteq B /\ u \in B /\ u \notin A
  BY <1>1
<1>3. Cardinality(A) < Cardinality(B)
  <2> HIDE DEF A, B
  <2> QED BY <1>1, <1>2, FS_Subset, FS_CardinalityType
<1> QED BY <1>3 DEF Offset

\* A page that is not full holds all that was left: the offsets of the members
\* have no gap.
LEMMA ShortPage ==
  ASSUME TypeOK, NEW g \in Groups, NEW u \in member[g], Offset(u, g) >= first,
         Cardinality(Page(g)) < PageSize
  PROVE  u \in Page(g)
<1> DEFINE M == member[g]
           n == Cardinality(M)
           f == [v \in M |-> Offset(v, g)]
<1>1. /\ IsFiniteSet(M) /\ n \in Nat /\ M \subseteq Nat
      /\ \A v \in M : Offset(v, g) \in 0..(n - 1)
  BY MembersFinite, FS_CardinalityType
<1>2. f \in Injection(M, 0..(n - 1))
  <2>1. f \in [M -> 0..(n - 1)]
    BY <1>1
  <2>2. ASSUME NEW v \in M, NEW w \in M, f[v] = f[w] PROVE v = w
    <3>1. Offset(v, g) = Offset(w, g) /\ Offset(v, g) \in Nat
      BY <1>1, <2>2
    <3>2. ~(v < w) /\ ~(w < v)
      BY <3>1, <1>1, OffsetsGrow
    <3> QED BY <1>1, <3>2
  <2> QED BY <2>1, <2>2 DEF Injection, IsInjective
<1>3. f \in Surjection(M, 0..(n - 1))
  <2>1. IsFiniteSet(0..(n - 1)) /\ Cardinality(0..(n - 1)) = n
    BY <1>1, FS_Interval
  <2> HIDE DEF f
  <2> QED BY <1>2, <2>1, FS_Injection
<1>4. \A r \in 0..(n - 1) : \E v \in M : Offset(v, g) = r
  BY <1>3 DEF Surjection
<1>5. SUFFICES ASSUME u \notin Page(g) PROVE FALSE
  OBVIOUS
<1>6. first \in Nat /\ PageSize \in Nat \ {0} /\ Offset(u, g) >= first + PageSize
  BY <1>1, <1>5, GroupsRead DEF TypeOK, Page
<1> DEFINE W == first..(first + PageSize - 1)
           P == Page(g)
           h == [v \in P |-> Offset(v, g)]
<1>7. W \subseteq 0..(n - 1)
  BY <1>1, <1>6
<1>8. h \in Surjection(P, W)
  <2>1. h \in [P -> W]
    BY DEF Page
  <2>2. ASSUME NEW r \in W PROVE \E v \in P : h[v] = r
    <3>1. PICK v \in M : Offset(v, g) = r
      BY <1>4, <1>7
    <3>2. v \in P
      BY <3>1 DEF Page
    <3> QED BY <3>1, <3>2
  <2> QED BY <2>1, <2>2 DEF Surjection
<1>9. IsFiniteSet(P)
  BY <1>1, FS_Subset DEF Page
<1>10. Cardinality(W) <= Cardinality(P)
  <2> HIDE DEF h, W, P
  <2> QED BY <1>8, <1>9, FS_Surjection
<1>11. Cardinality(W) = PageSize
  BY <1>6, FS_Interval
<1> QED BY <1>6, <1>9, <1>10, <1>11, FS_CardinalityType

\* The fresh users of a page are listed once each.
LEMMA FreshListed ==
  ASSUME NEW page, page \subseteq Users, NEW s \in InOrder(page)
  PROVE  s \in Seq(Users) /\ Range(s) = page /\ IsInjective(s)
<1>1. /\ s \in [1..Cardinality(page) -> page] /\ Range(s) = page
      /\ \A i, j \in DOMAIN s : i < j => s[i] < s[j]
  BY DEF InOrder
<1>2. IsFiniteSet(page) /\ Cardinality(page) \in Nat /\ page \subseteq Nat
  BY PagingAssumption, FS_Subset, FS_CardinalityType
<1>3. s \in Seq(Users)
  <2> DEFINE n == Cardinality(page)
  <2>1. n \in Nat /\ s \in [1..n -> Users]
    BY <1>1, <1>2
  <2> HIDE DEF n
  <2> QED BY <2>1, SeqDef
<1>4. ASSUME NEW i \in DOMAIN s, NEW j \in DOMAIN s, s[i] = s[j] PROVE i = j
  <2> DEFINE n == Cardinality(page)
  <2>1. i \in Int /\ j \in Int /\ s[i] \in Nat /\ s[j] \in Nat
    <3>1. n \in Nat /\ s \in [1..n -> page] /\ i \in 1..n /\ j \in 1..n
      BY <1>1, <1>2
    <3> HIDE DEF n
    <3>2. s[i] \in page /\ s[j] \in page
      BY <3>1
    <3>3. page \subseteq Nat
      BY <1>2
    <3>4. s[i] \in Nat /\ s[j] \in Nat
      BY <3>2, <3>3, Zenon
    <3>5. i \in Int /\ j \in Int
      BY <3>1
    <3> QED BY <3>4, <3>5
  <2>2. ~(i < j) /\ ~(j < i)
    BY <1>1, <1>4, <2>1
  <2> QED BY <2>1, <2>2
<1> QED BY <1>1, <1>3, <1>4 DEF IsInjective

\* Appending users that were not found before keeps the result free of
\* duplicates.
LEMMA AppendFresh ==
  ASSUME NEW f \in Seq(Users), NEW s \in Seq(Users), IsInjective(f), IsInjective(s),
         Range(f) \cap Range(s) = {}
  PROVE  /\ f \o s \in Seq(Users) /\ IsInjective(f \o s)
         /\ Range(f \o s) = Range(f) \cup Range(s)
<1> DEFINE c == f \o s
           m == Len(f)
           n == Len(s)
<1>1. /\ c \in Seq(Users) /\ m \in Nat /\ n \in Nat /\ Len(c) = m + n
      /\ DOMAIN f = 1..m /\ DOMAIN s = 1..n /\ DOMAIN c = 1..(m + n)
      /\ \A i \in 1..(m + n) : c[i] = IF i <= m THEN f[i] ELSE s[i - m]
  BY ConcatProperties, LenProperties
<1> HIDE DEF c, m, n
<1>2. \A i \in 1..m : c[i] = f[i]
  BY <1>1
<1>3. \A i \in 1..n : i + m \in 1..(m + n) /\ c[i + m] = s[i]
  BY <1>1
<1>4. ASSUME NEW i \in 1..(m + n)
      PROVE  \/ i \in 1..m /\ c[i] = f[i]
             \/ i - m \in 1..n /\ c[i] = s[i - m]
  BY <1>1
<1>5. Range(c) = Range(f) \cup Range(s)
  <2>1. Range(c) \subseteq Range(f) \cup Range(s)
    BY <1>1, <1>4 DEF Range
  <2>2. Range(f) \subseteq Range(c)
    BY <1>1, <1>2 DEF Range
  <2>3. Range(s) \subseteq Range(c)
    BY <1>1, <1>3 DEF Range
  <2> QED BY <2>1, <2>2, <2>3
<1>6. ASSUME NEW i \in 1..(m + n), NEW j \in 1..(m + n), c[i] = c[j] PROVE i = j
  <2>1. CASE i \in 1..m /\ j \in 1..m
    BY <1>1, <1>2, <1>6, <2>1 DEF IsInjective
  <2>2. CASE i \notin 1..m /\ j \notin 1..m
    <3>1. i - m \in DOMAIN s /\ j - m \in DOMAIN s /\ s[i - m] = s[j - m]
      BY <1>1, <1>4, <1>6, <2>2
    <3>2. i - m = j - m
      BY <3>1 DEF IsInjective
    <3> QED BY <1>1, <3>2
  <2>3. CASE i \in 1..m /\ j \notin 1..m
    <3>1. c[i] \in Range(f) /\ c[j] \in Range(s)
      BY <1>1, <1>2, <1>4, <2>3 DEF Range
    <3> QED BY <1>6, <3>1
  <2>4. CASE i \notin 1..m /\ j \in 1..m
    <3>1. c[j] \in Range(f) /\ c[i] \in Range(s)
      BY <1>1, <1>2, <1>4, <2>4 DEF Range
    <3> QED BY <1>6, <3>1
  <2> QED BY <2>1, <2>2, <2>3, <2>4
<1>7. IsInjective(c)
  BY <1>1, <1>6 DEF IsInjective
<1> QED BY <1>1, <1>5, <1>7 DEF c

-----------------------------------------------------------------------------
(* The steps. *)

LEMMA InitOK == Init => IInv
<1> SUFFICES ASSUME Init PROVE IInv
  OBVIOUS
<1>1. TypeOK
  <2>1. 1 \in 1..Len(Configured) /\ MaxChanges \in Nat /\ <<>> \in Seq(Users)
    BY GroupsRead, PagingAssumption, EmptySeq
  <2>2. left \in BOOLEAN
    BY Zenon DEF Init
  <2>3. always \in [Groups -> SUBSET Users] /\ member \in [Groups -> SUBSET Users]
    BY DEF Init
  <2> QED BY <2>1, <2>2, <2>3 DEF Init, TypeOK
<1>2. IsInjective(found) /\ Found = {}
  BY DEF Init, IsInjective, Found, Range
<1>3. History /\ Progress
  BY <1>2 DEF Init, History, Progress, Reading
<1> QED BY <1>1, <1>2, <1>3 DEF IInv

LEMMA BeginStep ==
  ASSUME IInv, Begin
  PROVE  IInv'
<1> USE DEF IInv
<1>1. TypeOK'
  <2>1. ever' \subseteq Users
    BY DEF Begin, TypeOK
  <2> QED BY <2>1 DEF Begin, TypeOK, keycloakVars
<1>2. UNCHANGED <<found, k, member>> /\ pc' = "group" /\ k = 1 /\ found = <<>>
  BY DEF Begin, History, keycloakVars
<1>3. Found' = {} /\ IsInjective(found')
  BY <1>2 DEF Found, Range, IsInjective
<1>4. History'
  <2>1. \A g \in Groups : member[g] \subseteq ever'
    BY DEF Begin
  <2> QED BY <1>2, <1>3, <2>1 DEF Begin, History, Reading
<1>5. Progress'
  BY <1>2 DEF Progress, Reading
<1> QED BY <1>1, <1>3, <1>4, <1>5

LEMMA ResolveGroupStep ==
  ASSUME IInv, ResolveGroup
  PROVE  IInv'
<1> USE DEF IInv
<1>1. UNCHANGED <<member, deleted, changes, k, found, ever, always, left>> /\ Found' = Found
  BY DEF ResolveGroup, keycloakVars, historyVars, Found
<1>2. pc = "group" /\ pc' \in {"failed", "page"} /\ first' = 0
  BY DEF ResolveGroup
<1>3. TypeOK'
  BY <1>1, <1>2 DEF TypeOK
<1>4. IsInjective(found') /\ History'
  BY <1>1, <1>2 DEF History, Reading
<1>5. ASSUME pc' = "page" PROVE Ahead(Configured[k])'
  <2>1. Configured[k] \in Groups
    BY GroupsRead DEF TypeOK
  <2>2. \A u \in always[Configured[k]] : Offset(u, Configured[k]) \in Nat
    BY <2>1, OffsetNat DEF History
  <2> QED BY <1>1, <1>2, <2>2 DEF Ahead, Offset
<1>6. Progress'
  BY <1>1, <1>2, <1>5 DEF Progress, Reading, Covered
<1> QED BY <1>3, <1>4, <1>6

\* After a page whoever is not found is beyond it; after a short page nobody is.
LEMMA ReadPageStep ==
  ASSUME IInv, ReadPage
  PROVE  IInv'
<1> USE DEF IInv
<1> DEFINE g == Configured[k]
           P == Page(g)
<1>1. /\ UNCHANGED <<member, deleted, changes, ever, always, left>> /\ pc = "page"
      /\ \/ RawCount(P) < PageSize /\ NextGroup /\ UNCHANGED first
         \/ ~(RawCount(P) < PageSize) /\ first' = first + PageSize /\ UNCHANGED <<pc, k>>
  BY DEF ReadPage, keycloakVars, historyVars
<1>2. k \in 1..Len(Configured) /\ Len(Configured) \in Nat \ {0} /\ g \in Groups /\ first \in Nat
      /\ PageSize \in Nat \ {0}
  BY GroupsRead DEF TypeOK
<1>3. PICK fresh \in InOrder(Fresh(P)) : found' = found \o fresh
  BY DEF ReadPage
<1>4. P \subseteq member[g] /\ P \subseteq Users
  BY <1>2 DEF Page, TypeOK
<1> HIDE DEF g, P
<1>5. Fresh(P) = (P \ Federated) \ Found
  BY DEF Fresh, Found
<1>6. fresh \in Seq(Users) /\ Range(fresh) = Fresh(P) /\ IsInjective(fresh)
  BY <1>3, <1>4, <1>5, FreshListed
<1>7. found' \in Seq(Users) /\ IsInjective(found') /\ Found' = Found \cup (P \ Federated)
  <2>1. Range(found) \cap Range(fresh) = {}
    BY <1>5, <1>6 DEF Found
  <2>2. found \in Seq(Users)
    BY DEF TypeOK
  <2>3. found \o fresh \in Seq(Users) /\ IsInjective(found \o fresh)
        /\ Range(found \o fresh) = Range(found) \cup Range(fresh)
    BY <1>6, <2>1, <2>2, AppendFresh
  <2> QED BY <1>3, <1>5, <1>6, <2>3 DEF Found
<1>8. pc' \in {"page", "group", "done"} /\ k' \in 1..Len(Configured) /\ first' \in Nat
  BY <1>1, <1>2 DEF NextGroup
<1>9. TypeOK'
  BY <1>1, <1>7, <1>8 DEF TypeOK
<1>10. History'
  <2>1. P \subseteq ever
    BY <1>1, <1>2, <1>4 DEF History, Reading
  <2> QED BY <1>1, <1>7, <1>8, <2>1 DEF History, Reading
<1>11. ASSUME ~left
       PROVE  /\ \A j \in 1..(k - 1) : always[Configured[j]] \ Federated \subseteq Found'
              /\ Ahead(g)
  BY <1>1, <1>7, <1>11 DEF Progress, Reading, Covered, g
<1>12. CASE RawCount(P) < PageSize
  <2>1. NextGroup /\ UNCHANGED first
    BY <1>1, <1>12
  <2>2. ASSUME ~left PROVE always[g] \ Federated \subseteq Found'
    <3>1. ASSUME NEW u \in always[g] \ Federated, u \notin Found PROVE u \in P
      <4>1. Offset(u, g) >= first /\ u \in member[g]
        BY <1>2, <1>11, <2>2, <3>1 DEF Ahead, History
      <4> QED BY <1>2, <1>12, <4>1, ShortPage DEF RawCount, P
    <3> QED BY <1>7, <3>1
  <2>3. ASSUME ~left, NEW j \in 1..k PROVE always[Configured[j]] \ Federated \subseteq Found'
    <3>1. CASE j = k
      BY <2>2, <2>3, <3>1 DEF g
    <3>2. CASE j # k
      BY <1>2, <1>11, <2>3, <3>2
    <3> QED BY <3>1, <3>2
  <2>4. CASE k = Len(Configured)
    <3>1. pc' = "done" /\ k' = k
      BY <2>1, <2>4 DEF NextGroup
    <3>2. ASSUME ~left, NEW h \in Groups PROVE always[h] \ Federated \subseteq Found'
      <4>1. PICK i \in 1..Len(Configured) : Configured[i] = h
        BY GroupsRead
      <4> QED BY <2>3, <2>4, <3>2, <4>1
    <3>3. Progress'
      BY <1>1, <3>1, <3>2 DEF Progress, Reading, Covered
    <3> QED BY <1>7, <1>9, <1>10, <3>3
  <2>5. CASE k # Len(Configured)
    <3>1. pc' = "group" /\ k' = k + 1
      BY <2>1, <2>5 DEF NextGroup
    <3>2. k' - 1 = k
      BY <1>2, <3>1
    <3>3. Progress'
      BY <1>1, <2>3, <3>1, <3>2 DEF Progress, Reading, Covered
    <3> QED BY <1>7, <1>9, <1>10, <3>3
  <2> QED BY <2>4, <2>5
<1>13. CASE ~(RawCount(P) < PageSize)
  <2>1. first' = first + PageSize /\ pc' = pc /\ k' = k
    BY <1>1, <1>13
  <2>2. ASSUME ~left, NEW u \in always[g] \ Federated
        PROVE  u \in Found' \/ Offset(u, g) >= first + PageSize
    <3>1. SUFFICES ASSUME u \notin Found' PROVE Offset(u, g) >= first + PageSize
      OBVIOUS
    <3>2. u \notin Found /\ u \notin P
      BY <1>7, <3>1
    <3>3. u \in member[g] /\ Offset(u, g) >= first
      BY <1>2, <1>11, <2>2, <3>2 DEF Ahead, History
    <3>4. Offset(u, g) \in Int
      BY <1>2, <3>3, OffsetNat
    <3>5. Offset(u, g) \notin first..(first + PageSize - 1)
      BY <3>2, <3>3 DEF P, Page
    <3> QED BY <1>2, <3>3, <3>4, <3>5
  <2>3. ASSUME ~left PROVE Ahead(Configured[k])'
    BY <1>1, <2>1, <2>2, <2>3 DEF Ahead, Offset, g
  <2>4. Progress'
    BY <1>1, <1>11, <2>1, <2>3 DEF Progress, Reading, Covered
  <2> QED BY <1>7, <1>9, <1>10, <2>4
<1> QED BY <1>12, <1>13

LEMMA RestStep ==
  ASSUME IInv, ReadFails \/ Again \/ UNCHANGED vars
  PROVE  IInv'
<1> USE DEF IInv
<1>1. CASE ReadFails
  <2>1. UNCHANGED <<member, deleted, changes, k, first, found, ever, always, left>> /\ pc' = "failed"
    BY <1>1 DEF ReadFails, keycloakVars, historyVars
  <2> QED BY <2>1 DEF TypeOK, History, Progress, Reading
<1>2. CASE Again
  <2>1. /\ UNCHANGED <<member, deleted, changes, ever, always, left>> /\ pc' = "start"
        /\ k' = 1 /\ first' = 0 /\ found' = <<>>
    BY <1>2 DEF Again, keycloakVars, historyVars
  <2>2. TypeOK'
    BY <2>1, GroupsRead, EmptySeq DEF TypeOK
  <2>3. IsInjective(found')
    BY <2>1 DEF IsInjective
  <2> QED BY <2>1, <2>2, <2>3 DEF History, Progress, Reading
<1>3. CASE UNCHANGED vars
  <2>1. UNCHANGED <<member, deleted, changes, pc, k, first, found, ever, always, left>>
    BY <1>3 DEF vars, keycloakVars, historyVars
  <2> QED BY <2>1 DEF TypeOK, History, Progress, Reading, Found, Covered, Ahead, Offset
<1> QED BY <1>1, <1>2, <1>3

LEMMA ChangeKeeps ==
  ASSUME IInv, NEW kind, Change(kind)
  PROVE  changes' \in 0..MaxChanges /\ UNCHANGED <<pc, k, first, found>> /\ Found' = Found
         /\ Reading' = Reading
BY PagingAssumption DEF Change, IInv, TypeOK, Found, Reading

\* A user who joins moves others back in the listing, and nobody forward.
LEMMA JoinStep ==
  ASSUME IInv, NEW h \in Groups, NEW w \in Users, Join(w, h)
  PROVE  IInv'
<1> USE DEF IInv
<1>1. changes' \in 0..MaxChanges /\ UNCHANGED <<pc, k, first, found>> /\ Found' = Found
      /\ Reading' = Reading
  BY ChangeKeeps DEF Join
<1>2. /\ member' = [member EXCEPT ![h] = @ \cup {w}] /\ UNCHANGED <<deleted, always, left>>
      /\ ever' = IF Reading THEN ever \cup {w} ELSE ever
  BY DEF Join
<1>3. /\ member \in [Groups -> SUBSET Users] /\ member' \in [Groups -> SUBSET Users]
      /\ \A g \in Groups : member[g] \subseteq member'[g] /\ member'[g] \subseteq member[g] \cup {w}
  BY <1>2 DEF TypeOK
<1>4. TypeOK'
  BY <1>1, <1>2, <1>3 DEF TypeOK
<1>5. ASSUME Reading PROVE \A g \in Groups : member'[g] \subseteq ever'
  BY <1>2, <1>3, <1>5 DEF History
<1>6. ASSUME Reading \/ pc = "done" PROVE Found' \subseteq ever' \ Federated
  BY <1>1, <1>2, <1>6 DEF History
<1>7. History'
  BY <1>1, <1>2, <1>3, <1>5, <1>6 DEF History
<1>8. ASSUME NEW g \in Groups, NEW u \in member[g] PROVE Offset(u, g)' >= Offset(u, g)
  <2> DEFINE A == {v \in member[g] : v < u}
             B == {v \in member'[g] : v < u}
  <2>1. IsFiniteSet(member'[g])
    BY <1>3, PagingAssumption, FS_Subset
  <2>2. A \subseteq B /\ B \subseteq member'[g]
    BY <1>3
  <2>3. Cardinality(A) <= Cardinality(B) /\ Cardinality(A) \in Nat /\ Cardinality(B) \in Nat
    <3> HIDE DEF A, B
    <3> QED BY <2>1, <2>2, FS_Subset, FS_CardinalityType
  <2> QED BY <2>3 DEF Offset
<1>9. ASSUME pc = "page", ~left PROVE Ahead(Configured[k])'
  <2>1. Configured[k] \in Groups
    BY GroupsRead DEF TypeOK
  <2>2. ASSUME NEW u \in always[Configured[k]] \ Federated, u \notin Found
        PROVE  Offset(u, Configured[k])' >= first
    <3>1. u \in member[Configured[k]] /\ Offset(u, Configured[k]) >= first
      BY <1>9, <2>1, <2>2 DEF History, Progress, Ahead
    <3>2. Offset(u, Configured[k])' >= Offset(u, Configured[k])
      <4>1. ASSUME NEW g \in Groups, u \in member[g] PROVE Offset(u, g)' >= Offset(u, g)
        BY <1>8, <4>1
      <4> QED BY <1>1, <2>1, <3>1, <4>1 DEF Offset
    <3>3. Offset(u, Configured[k]) \in Int /\ Offset(u, Configured[k])' \in Int /\ first \in Int
      <4>1. first \in Int
        BY DEF TypeOK
      <4>2. {v \in member'[Configured[k]] : v < u} \subseteq Users
        BY <1>3, <2>1
      <4>3. Cardinality({v \in member'[Configured[k]] : v < u}) \in Nat
        BY <4>2, PagingAssumption, FS_Subset, FS_CardinalityType
      <4> QED BY <1>1, <2>1, <3>1, <4>1, <4>3, OffsetNat DEF Offset
    <3> QED BY <3>1, <3>2, <3>3
  <2> QED BY <1>1, <1>2, <2>2 DEF Ahead
<1>10. Progress'
  BY <1>1, <1>2, <1>9 DEF Progress, Reading, Covered
<1> QED BY <1>1, <1>4, <1>7, <1>10

\* Who leaves is not a stable member any more.
LEMMA LeaveStep ==
  ASSUME IInv, NEW h \in Groups, (\E w \in Users : Leave(w, h)) \/ DeleteGroup(h)
  PROVE  IInv'
<1> USE DEF IInv
<1>1. changes' \in 0..MaxChanges /\ UNCHANGED <<pc, k, first, found>> /\ Found' = Found
      /\ Reading' = Reading
  BY ChangeKeeps DEF Leave, DeleteGroup
<1>2. PICK gone \in SUBSET Users :
         /\ member' = [member EXCEPT ![h] = @ \ gone]
         /\ always' = [always EXCEPT ![h] = @ \ gone]
         /\ left' = (left \/ Reading) /\ ever' = ever
         /\ deleted' \in {deleted, deleted \cup {h}}
  <2>1. CASE DeleteGroup(h)
    <3>1. member[h] \ Users = {} /\ always[h] \ Users = {}
      BY DEF TypeOK
    <3> QED BY <2>1, <3>1 DEF DeleteGroup
  <2>2. CASE \E w \in Users : Leave(w, h)
    <3>1. PICK w \in Users : Leave(w, h)
      BY <2>2
    <3>2. {w} \in SUBSET Users
      OBVIOUS
    <3> QED BY <3>1, <3>2 DEF Leave
  <2> QED BY <2>1, <2>2
<1>3. /\ member' \in [Groups -> SUBSET Users] /\ always' \in [Groups -> SUBSET Users]
      /\ \A g \in Groups : /\ always'[g] \subseteq always[g] /\ member'[g] \subseteq member[g]
                           /\ always'[g] \subseteq member'[g]
  BY <1>2 DEF TypeOK, History
<1>4. left' \in BOOLEAN /\ (~left' => ~left /\ ~Reading)
  BY <1>2 DEF TypeOK, Reading
<1>5. TypeOK'
  BY <1>1, <1>2, <1>3, <1>4 DEF TypeOK
<1>6. History'
  BY <1>1, <1>2, <1>3 DEF History
<1>7. Progress'
  BY <1>1, <1>3, <1>4 DEF Progress, Reading, Covered
<1> QED BY <1>1, <1>5, <1>6, <1>7

LEMMA NextOK == IInv /\ [Next]_vars => IInv'
<1> SUFFICES ASSUME IInv, [Next]_vars PROVE IInv'
  OBVIOUS
<1>1. CASE Resolver
  BY <1>1, BeginStep, ResolveGroupStep, ReadPageStep, RestStep DEF Resolver
<1>2. CASE Keycloak
  BY <1>2, JoinStep, LeaveStep DEF Keycloak
<1>3. CASE UNCHANGED vars
  BY <1>3, RestStep
<1> QED BY <1>1, <1>2, <1>3 DEF Next

LEMMA InvHolds == Spec => []IInv
BY InitOK, NextOK, PTL DEF Spec

\* However memberships grow while the scope is read, and however pages and
\* groups divide them: a member throughout is in the scope, so removal detection
\* deactivates no member (userScope.groupMembers and its use of rawCount).
THEOREM StableMembersAreFound == Spec => []StableMembersFound
<1>1. ASSUME IInv PROVE StableMembersFound
  <2>1. ASSUME pc = "done", ~left, NEW u \in Stable \cap Allowed PROVE u \in Range(Result)
    <3>1. PICK g \in Groups : u \in always[g] \ Federated
      <4>1. u \in UNION {always[h] : h \in Groups} /\ u \notin Federated
        BY <2>1 DEF Stable
      <4>2. PICK S \in {always[h] : h \in Groups} : u \in S
        BY <4>1
      <4> QED BY <4>1, <4>2
    <3>2. u \in Found
      BY <1>1, <2>1, <3>1 DEF IInv, Progress, Covered
    <3>3. PICK i \in DOMAIN found : found[i] = u
      BY <3>2 DEF Found, Range
    <3> QED BY <2>1, <3>3 DEF Result, Restrict, Range
  <2> QED BY <2>1 DEF StableMembersFound
<1> QED BY <1>1, InvHolds, PTL

\* Whatever administrators change while it is read, the scope holds nobody twice
\* and nobody who was in no configured group or passes no filter.
THEOREM ScopeStaysSound == Spec => []ScopeIsSound
<1>1. ASSUME IInv PROVE ScopeIsSound
  <2>1. NoDuplicates
    BY <1>1 DEF IInv, NoDuplicates, Result, Restrict, IsInjective
  <2>2. Range(Result) \subseteq Found \cap Allowed
    BY DEF Result, Restrict, Range, Found
  <2>3. OnlyMembers
    BY <1>1, <2>2 DEF IInv, History, OnlyMembers
  <2> QED BY <1>1, <2>1, <2>3 DEF IInv, ScopeIsSound
<1> QED BY <1>1, InvHolds, PTL
=============================================================================
