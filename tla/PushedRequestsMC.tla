-------------------------- MODULE PushedRequestsMC --------------------------
(* Registrations and symmetries for model checking PushedRequests.         *)
EXTENDS PushedRequests, TLC

CONSTANTS basic, signer

\* A client of the plain endpoint, and one under FAPI 2.0 with message signing.
Profiles == [c \in Client |-> CASE c = basic -> "none" [] c = signer -> "signing" [] OTHER -> "security"]

Interchangeable == Permutations(Jti) \cup Permutations(Uri) \cup Permutations(Response)
============================================================================
