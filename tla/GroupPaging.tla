----------------------------- MODULE GroupPaging -----------------------------
(***************************************************************************)
(* The resolution of the scope from Keycloak groups: for every configured  *)
(* group its members are read page by page, by offset, while Keycloak may  *)
(* change the memberships between two requests.  The result is the union   *)
(* of the groups, each user once, narrowed by the user name filters.       *)
(***************************************************************************)
EXTENDS Integers, Sequences, FiniteSets, Functions

CONSTANTS
    Users,       \* users, numbered in the order in which Keycloak lists them
    Configured,  \* the configured groups, a sequence
    PageSize,    \* groupMembersPageSize
    Federated,   \* users Keycloak imported and the client filters out
    Allowed,     \* users that pass the user name filters
    ChangeKinds, \* what administrators may do: "join", "leave", "delete"
    MaxChanges   \* bound: changes in a behaviour

Groups == Range(Configured)

ASSUME PagingAssumption ==
    /\ Users \subseteq Nat /\ IsFiniteSet(Users)
    /\ Configured \in Seq(Groups) /\ Configured # <<>>
    /\ PageSize \in Nat \ {0}
    /\ Federated \subseteq Users /\ Allowed \subseteq Users
    /\ ChangeKinds \subseteq {"join", "leave", "delete"}
    /\ MaxChanges \in Nat

VARIABLES
    \* Keycloak
    member,   \* the members of every group
    deleted,  \* the groups that were deleted
    changes,
    \* the resolver
    pc,       \* "start", "group", "page", "done" or "failed"
    k,        \* the configured group being read
    first,    \* the offset of the next page
    found,    \* members: the users collected so far, in order
    \* what happened while the scope was read
    ever,     \* users seen in a configured group at some moment
    always,   \* users in one and the same configured group at every moment
    left      \* somebody left a group

keycloakVars == <<member, deleted, changes>>
historyVars  == <<ever, always, left>>
vars == <<keycloakVars, pc, k, first, found, historyVars>>

Init ==
    /\ member \in [Groups -> SUBSET Users]
    /\ deleted = {}
    /\ changes = 0
    /\ pc = "start"
    /\ k = 1 /\ first = 0
    /\ found = <<>>
    /\ ever = {} /\ always = [g \in Groups |-> {}] /\ left = FALSE

-----------------------------------------------------------------------------
(* The resolver. *)

\* A cycle starts to read the scope.
Begin ==
    /\ pc = "start"
    /\ pc' = "group"
    /\ ever' = UNION {member[g] : g \in Groups}
    /\ always' = member
    /\ left' = FALSE
    /\ UNCHANGED <<keycloakVars, k, first, found>>

\* The name of the group is looked up; an unknown name fails the cycle.
ResolveGroup ==
    /\ pc = "group"
    /\ pc' = IF Configured[k] \in deleted THEN "failed" ELSE "page"
    /\ first' = 0
    /\ UNCHANGED <<keycloakVars, k, found, historyVars>>

\* The offset of a user in Keycloak's listing of a group, and the page from
\* first on.
Offset(u, g) == Cardinality({v \in member[g] : v < u})
Page(g) == {u \in member[g] : Offset(u, g) \in first..(first + PageSize - 1)}

\* The users of a page in the order of the listing.
InOrder(page) ==
    {s \in [1..Cardinality(page) -> page] :
        Range(s) = page /\ \A i, j \in DOMAIN s : i < j => s[i] < s[j]}

\* Mutant: users seen before are kept.
Repeated(page) == page \ Federated

\* Federated users are dropped from the page, users seen before too.
Fresh(page) == (page \ Federated) \ Range(found)

\* Mutant: the page is measured after the filter.
ThinnedSize(page) == Cardinality(page \ Federated)

\* rawCount: the size of the page before the filter.
RawCount(page) == Cardinality(page)

NextGroup ==
    IF k = Len(Configured)
    THEN pc' = "done" /\ UNCHANGED k
    ELSE pc' = "group" /\ k' = k + 1

\* A full page is followed by the next one, a short page ends the group.
ReadPage ==
    /\ pc = "page" /\ Configured[k] \notin deleted
    /\ LET page == Page(Configured[k])
       IN  /\ \E fresh \in InOrder(Fresh(page)) : found' = found \o fresh
           /\ IF RawCount(page) < PageSize
              THEN NextGroup /\ UNCHANGED first
              ELSE first' = first + PageSize /\ UNCHANGED <<pc, k>>
    /\ UNCHANGED <<keycloakVars, historyVars>>

\* Keycloak answers a members request for a deleted group with an error.
ReadFails ==
    /\ pc = "page" /\ Configured[k] \in deleted
    /\ pc' = "failed"
    /\ UNCHANGED <<keycloakVars, k, first, found, historyVars>>

\* The result of the resolution, after the user name filters.
Result == Restrict(found, {i \in DOMAIN found : found[i] \in Allowed})

\* The next poll reads the scope anew.
Again ==
    /\ pc \in {"done", "failed"}
    /\ pc' = "start"
    /\ k' = 1 /\ first' = 0
    /\ found' = <<>>
    /\ UNCHANGED <<keycloakVars, historyVars>>

Resolver == Begin \/ ResolveGroup \/ ReadPage \/ ReadFails \/ Again

-----------------------------------------------------------------------------
(* Keycloak. *)

Reading == pc \in {"group", "page"}

Change(kind) ==
    /\ kind \in ChangeKinds
    /\ changes < MaxChanges
    /\ changes' = changes + 1
    /\ UNCHANGED <<pc, k, first, found>>

Join(u, g) ==
    /\ Change("join")
    /\ g \notin deleted /\ u \notin member[g]
    /\ member' = [member EXCEPT ![g] = @ \cup {u}]
    /\ ever' = IF Reading THEN ever \cup {u} ELSE ever
    /\ UNCHANGED <<deleted, always, left>>

Leave(u, g) ==
    /\ Change("leave")
    /\ u \in member[g]
    /\ member' = [member EXCEPT ![g] = @ \ {u}]
    /\ always' = [always EXCEPT ![g] = @ \ {u}]
    /\ left' = (left \/ Reading)
    /\ UNCHANGED <<deleted, ever>>

DeleteGroup(g) ==
    /\ Change("delete")
    /\ g \notin deleted
    /\ deleted' = deleted \cup {g}
    /\ member' = [member EXCEPT ![g] = {}]
    /\ always' = [always EXCEPT ![g] = {}]
    /\ left' = (left \/ Reading)
    /\ UNCHANGED ever

Keycloak ==
    \E g \in Groups :
        \/ \E u \in Users : Join(u, g) \/ Leave(u, g)
        \/ DeleteGroup(g)

Next == Resolver \/ Keycloak

Spec == Init /\ [][Next]_vars

-----------------------------------------------------------------------------
(* Properties. *)

TypeOK ==
    /\ member \in [Groups -> SUBSET Users]
    /\ deleted \subseteq Groups
    /\ changes \in 0..MaxChanges
    /\ pc \in {"start", "group", "page", "done", "failed"}
    /\ k \in 1..Len(Configured)
    /\ first \in Nat
    /\ found \in Seq(Users)
    /\ ever \subseteq Users
    /\ always \in [Groups -> SUBSET Users]
    /\ left \in BOOLEAN

Stable == (UNION {always[g] : g \in Groups}) \ Federated

\* No user is planned twice in a cycle, in whichever groups and pages the user
\* turns up while memberships shift (scope.go:62-63).
NoDuplicates == IsInjective(Result)

\* As long as nobody leaves a group while it is read, every user who is a member
\* throughout is in the scope, in spite of joins that shift the pages, of
\* federated users that thin them and of the end of a group on a full page:
\* otherwise removal detection would deactivate a member.
StableMembersFound ==
    pc = "done" /\ ~left => Stable \cap Allowed \subseteq Range(Result)

\* Nobody is in the scope who passes no filter or was in no configured group
\* since the read began.
OnlyMembers == Reading \/ pc = "done" =>
    Range(Result) \subseteq (ever \ Federated) \cap Allowed

\* The scope holds no user wrongly and none twice.
ScopeIsSound == TypeOK /\ NoDuplicates /\ OnlyMembers
=============================================================================
