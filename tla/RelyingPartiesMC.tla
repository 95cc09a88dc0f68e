-------------------------- MODULE RelyingPartiesMC --------------------------
(***************************************************************************)
(* The two ways in which an application lets somebody else sign its users  *)
(* in, OpenID Connect and SAML. They share no state: a behaviour plays in  *)
(* one of them.                                                            *)
(***************************************************************************)
EXTENDS OAuthClient, SAML, TLC

VARIABLE protocol

\* SAML clocks that agree, and ones as far apart as the tolerances allow.
Offsets == {1 - AssertionLifetime - Leeway, 0, Leeway + Backdate}

\* RequestId and AssertionId are given the values of Session and Attempt, which keeps
\* the number of symmetries small.
Interchangeable == Permutations(Session) \cup Permutations(Attempt) \cup Permutations(Code)

LoginInit ==
  /\ protocol \in {"oidc", "saml"}
  /\ Init /\ SamlInit
  /\ protocol = "oidc" => ahead = 0

LoginNext ==
  /\ UNCHANGED protocol
  /\ \/ protocol = "oidc" /\ Next /\ UNCHANGED samlVars
     \/ protocol = "saml" /\ SamlNext /\ UNCHANGED vars

LoginSpec == LoginInit /\ [][LoginNext]_<<protocol, vars, samlVars>>
============================================================================
