------------------------------ MODULE MCInstall ------------------------------
(* An instance of Install for TLC. *)
EXTENDS Install, TLC

CONSTANTS ann, bob, i1, ns1, elsewhere, mas, key, pw, ws, relay

OneCore == [i \in {i1} |-> ns1]

Plain ==
    [comps |-> {"ldap"}, url |-> Blank, token |-> Blank, pass |-> Blank, workspace |-> Blank,
     inst |-> Blank, core |-> Blank, authInst |-> Blank, authCore |-> Blank, relay |-> Blank,
     class |-> Blank, auth |-> FALSE, providers |-> {}, skip |-> FALSE, wipe |-> FALSE]

ComponentSets == {{}, {"ldap"}, {"keycloak"}, {"scim"}, {"s3"}, {"ldap", "smtp"}}
ProviderSets  == {{}, {"oidc"}, {"ldap"}}

Auth(cs, ps) == [Plain EXCEPT !.comps = cs, !.auth = TRUE, !.providers = ps,
                              !.workspace = ws, !.inst = i1, !.url = mas, !.token = key]

\* Auth with every set of components and providers, every way to name MAS, and
\* without a workspace; uninstalls; storage and mail.
Wide ==
    {[Auth(cs, ps) EXCEPT !.inst = i, !.authCore = n] :
        cs \in ComponentSets, ps \in ProviderSets, i \in {i1, Blank}, n \in {ns1, elsewhere, Blank}}
    \cup {[Auth(cs, ps) EXCEPT !.workspace = Blank] : cs \in ComponentSets, ps \in ProviderSets}
    \cup {[Auth(cs, {}) EXCEPT !.wipe = TRUE] : cs \in ComponentSets}
    \cup {[Plain EXCEPT !.comps = cs, !.relay = h, !.pass = pw, !.core = n, !.skip = k, !.class = sc] :
            cs \in {{"s3"}, {"s3", "smtp"}}, h \in {relay, Blank}, n \in {ns1, Blank},
            k \in BOOLEAN, sc \in {7, Blank}}

Narrow ==
    {[Plain EXCEPT !.comps = {"keycloak"}, !.auth = TRUE, !.workspace = ws, !.inst = i1,
                   !.token = pw],
     [Plain EXCEPT !.wipe = TRUE]}

SomeRequests == (ann :> Wide) @@ (bob :> Narrow)

Mode(i, l, n) == [inter |-> i, local |-> l, yes |-> l, name |-> n]
SomeModes ==
    (ann :> {Mode(TRUE, FALSE, DefaultName), Mode(FALSE, FALSE, "other"), Mode(FALSE, TRUE, DefaultName)})
    @@ (bob :> {Mode(TRUE, FALSE, DefaultName), Mode(TRUE, TRUE, DefaultName)})

Class(n, k, d, s) == [name |-> n, kind |-> k, default |-> d, static |-> s]
SomeClusters ==
    {{Class(1, "block", FALSE, TRUE), Class(2, "plain", TRUE, FALSE), Class(3, "rook", FALSE, FALSE)},
     {Class(1, "plain", TRUE, TRUE)}}
=============================================================================
