------------------------------ MODULE MCMasAuth ------------------------------
(* An instance of MasAuth for TLC. *)
EXTENDS MasAuth

\* All at once, or one alone.
SomeRequests == {{"ldap", "oidc", "saml"}, {"oidc"}}

\* Runs at once are all about the provider with a secret of its own.
AtOnce == {{"oidc"}}
=============================================================================
