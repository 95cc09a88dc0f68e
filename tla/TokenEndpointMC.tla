--------------------------- MODULE TokenEndpointMC ---------------------------
(***************************************************************************)
(* The two halves of a threaded token request: what comes before the grant *)
(* (TokenRequests) and the grant itself (ThreadedTokenEndpoint). The first *)
(* shares no state with the second: a behaviour plays in one of them.      *)
(***************************************************************************)
EXTENDS ThreadedTokenEndpoint, TokenRequests, TLC

VARIABLE half

MCClients ==
  [public |-> [method |-> "none", grant_types |-> {"code"}, require_dpop |-> TRUE],
   web    |-> [method |-> "client_secret", grant_types |-> {"code"}, require_dpop |-> FALSE],
   bank   |-> [method |-> "private_key_jwt", grant_types |-> {"code"}, require_dpop |-> FALSE],
   shop   |-> [method |-> "private_key_jwt", grant_types |-> {"code"}, require_dpop |-> FALSE],
   device |-> [method |-> "tls_client_auth", grant_types |-> {"code"}, require_dpop |-> FALSE]]

Assertion(c, jti, iat, exp) == [iss |-> c, aud |-> "issuer", jti |-> jti, iat |-> iat, exp |-> exp]
Proof(jti, iat) == [jti |-> jti, htu |-> "token", iat |-> iat]
Req(c, g, s, cert, a, p) ==
  [client |-> c, grant_type |-> g, secret |-> s, certificate |-> cert, assertion |-> a, proof |-> p]

\* A proof dated ahead of the clock; assertions of two clients with one jti between them;
\* a grant type that is not the client's.
MCTokenRequest ==
  {Req("public", "code", Absent, Absent, Absent, Proof("p1", 1)),
   Req("public", "code", Absent, Absent, Absent, Absent),
   Req("bank", "code", Absent, Absent, Assertion("bank", "j1", 0, 2), Proof("p1", 1)),
   Req("shop", "code", Absent, Absent, Assertion("shop", "j1", 1, 3), Absent),
   Req("bank", "other", Absent, Absent, Assertion("bank", "j2", 0, 1), Absent),
   Req("web", "code", "right", Absent, Absent, Absent),
   Req("device", "code", Absent, "thumbprint", Absent, Proof("p1", 1))}

EndpointInit == half \in {"before the grant", "grant"} /\ Init /\ RequestsInit

EndpointNext ==
  /\ UNCHANGED half
  /\ \/ half = "grant" /\ Next /\ UNCHANGED requestVars
     \/ half = "before the grant" /\ RequestsNext /\ UNCHANGED vars

EndpointSpec ==
  /\ EndpointInit /\ [][EndpointNext]_<<half, vars, requestVars>>
  /\ \A th \in Thread : WF_<<half, vars, requestVars>>(half = "grant" /\ Continue(th) /\ UNCHANGED <<half, requestVars>>)
============================================================================
