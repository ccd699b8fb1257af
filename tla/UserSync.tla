------------------------------ MODULE UserSync ------------------------------
(***************************************************************************)
(* What the SCIM bridge promises about the accounts of a directory, with   *)
(* no cycle, store in memory, token or retry: a user is linked at most     *)
(* once, to an account of the user's name; an account changes sides only   *)
(* on behalf of a user linked to it; and a user is marked removed only     *)
(* while the account is off.                                               *)
(***************************************************************************)
CONSTANTS Users, Ids, Names, NameOf, None

VARIABLES
    account,  \* what each account of the directory is: its name and side
    link,     \* the account each user is linked to
    removed   \* users whose removal is done and not planned again

vars == <<account, link, removed>>

Sides == {"unissued", "active", "inactive", "gone"}

Init ==
    /\ account \in [Ids -> [name : Names \cup {None}, side : Sides]]
    /\ link \in [Users -> Ids \cup {None}]
    /\ removed \subseteq Users
    /\ \A u \in Users : link[u] # None => account[link[u]].side # "unissued"

Live(i) == account[i].side \in {"active", "inactive"}

\* A directory gives one account to a name.
Issue(u, i) ==
    /\ account[i].side = "unissued"
    /\ \A j \in Ids : Live(j) => account[j].name # NameOf[u]
    /\ \E s \in {"active", "inactive"} :
          account' = [account EXCEPT ![i] = [name |-> NameOf[u], side |-> s]]
    /\ UNCHANGED <<link, removed>>

\* The account of a new link bears the user's name, as long as it exists.  A
\* write may also reopen the removals of other users.
Link(u, i) ==
    /\ link[u] = None
    /\ account[i].side # "unissued"
    /\ Live(i) => account[i].name = NameOf[u]
    /\ link' = [link EXCEPT ![u] = i]
    /\ removed' \in SUBSET (removed \ {u})
    /\ UNCHANGED account

Switch(u) ==
    /\ link[u] # None /\ Live(link[u])
    /\ \E s \in {"active", "inactive"} : account' = [account EXCEPT ![link[u]].side = s]
    /\ UNCHANGED <<link, removed>>

\* The account of a removed user, if there is one, is off.
Remove(u) ==
    /\ link[u] # None => account[link[u]].side # "active"
    /\ \E R \in SUBSET removed : removed' = R \cup {u}
    /\ UNCHANGED <<account, link>>

\* The removals of some users become open again.
Reopen ==
    /\ removed' \in SUBSET removed
    /\ UNCHANGED <<account, link>>

\* Somebody deletes an account.
Delete(i) ==
    /\ Live(i)
    /\ account' = [account EXCEPT ![i] = [name |-> None, side |-> "gone"]]
    /\ UNCHANGED <<link, removed>>

Next ==
    \/ \E u \in Users : Switch(u) \/ Remove(u)
    \/ \E u \in Users, i \in Ids : Issue(u, i) \/ Link(u, i)
    \/ Reopen
    \/ \E i \in Ids : Delete(i)

Spec == Init /\ [][Next]_vars
=============================================================================
