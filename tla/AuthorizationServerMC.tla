----------------------- MODULE AuthorizationServerMC -----------------------
(* Registered clients and symmetries for model checking AuthorizationServer. *)
EXTENDS AuthorizationServer, TLC

CONSTANTS web, backend, rd, wr, u1

\* A single-page application: public, PKCE, rotation (the defaults of Client),
\* whose tokens are bound to a DPoP key.
Web == [scopes |-> {rd, wr}, redirect_uris |-> {u1}, is_public |-> TRUE, require_pkce |-> TRUE,
        require_dpop |-> TRUE, certificate_bound |-> FALSE, rotate_refresh_tokens |-> TRUE,
        grant_types |-> {"authorization_code", "refresh_token"}]

\* A confidential client with a certificate, registered without rotation, whose
\* users sign in through the device flow.
Backend == [scopes |-> {rd}, redirect_uris |-> {}, is_public |-> FALSE, require_pkce |-> FALSE,
            require_dpop |-> FALSE, certificate_bound |-> TRUE, rotate_refresh_tokens |-> FALSE,
            grant_types |-> {"device_code", "refresh_token", "client_credentials"}]

\* Rotation and revocation alone: one scope, no keys.
WebOnly == [c \in {web} |-> [Web EXCEPT !.scopes = {rd}, !.require_dpop = FALSE]]

WebAndBackend == [c \in {web, backend} |-> IF c = web THEN Web ELSE Backend]

\* random_token() values are interchangeable, and so are keys and users.
Fresh == Permutations(Code) \cup Permutations(RefreshId) \cup Permutations(AccessId)
           \cup Permutations(Family) \cup Permutations(Device) \cup Permutations(Jkt)
           \cup Permutations(X5t) \cup Permutations(Subject)
============================================================================
