-------------------------- MODULE ResourceServers --------------------------
(***************************************************************************)
(* What an API knows of the authorization server, and how old it may be.   *)
(* ResourceServer checks JWTs with a cached JWKSet (jose/jwks.py), which   *)
(* it refreshes when it meets an unknown kid; IntrospectingResourceServer  *)
(* asks about opaque tokens and caches the answers (resource_server.py).   *)
(*                                                                         *)
(* Tokens have the right issuer, audience and typ, and the caller proves   *)
(* possession where a token is bound. The rotation of keys is the IdP's    *)
(* procedure that the docstring of jwks.py describes.                      *)
(***************************************************************************)
EXTENDS Naturals

CONSTANTS
  ApiToken,      \* access tokens; the bound on their number
  Never,         \* the absent time
  Lifetime,
  Leeway,
  CacheTTL,      \* IntrospectingResourceServer.cache_ttl
  MaxRefreshes,  \* JWKSet.max_refreshes
  MaxRotations,  \* bound on key rotations
  MaxJunk,       \* bound on lookups of kids that are not published
  MaxApiTime     \* bound on the clock

ASSUME ResourceServersAssumption ==
  /\ Lifetime \in Nat
  /\ Leeway \in Nat
  /\ CacheTTL \in Nat
  /\ MaxRefreshes \in Nat
  /\ MaxRotations \in Nat
  /\ MaxJunk \in Nat
  /\ MaxApiTime \in Nat
  /\ Never \notin Nat

Kid == 0..MaxRotations

VARIABLES
  api_now,
  tokens,        \* Store.access_tokens, with the kid that signed the JWT
  signing_kid,   \* the key the IdP signs with; it counts the rotations
  published,     \* the IdP's JWKS
  keys,          \* JWKSet.keys
  refreshes,     \* JWKSet._refreshes
  junk,          \* history: lookups of kids that were not published
  cache          \* IntrospectingResourceServer._cache

apiVars == <<api_now, tokens, signing_kid, published, keys, refreshes, junk, cache>>

AccessToken == [kid : Kid, expires_at : Nat, revoked_at : Nat \cup {Never}]

ApiTypeOK ==
  /\ api_now \in Nat
  /\ DOMAIN tokens \subseteq ApiToken
  /\ tokens \in [DOMAIN tokens -> AccessToken]
  /\ signing_kid \in Kid
  /\ published \subseteq Kid
  /\ keys \subseteq Kid
  /\ refreshes \in 0..MaxRefreshes
  /\ junk \in Nat
  /\ DOMAIN cache \subseteq DOMAIN tokens
  /\ cache \in [DOMAIN cache -> [until : Nat, active : BOOLEAN]]

ApiInit ==
  /\ api_now = 0
  /\ tokens = <<>>
  /\ signing_kid = 0
  /\ published = {0}
  /\ keys = {0}
  /\ refreshes = 0
  /\ junk = 0
  /\ cache = <<>>

Put(f, key, value) == [k \in DOMAIN f \cup {key} |-> IF k = key THEN value ELSE f[k]]

----------------------------------------------------------------------------
(* The authorization server                                                *)

IssueToken(t) ==
  /\ t \notin DOMAIN tokens
  /\ tokens' = Put(tokens, t,
       [kid |-> signing_kid, expires_at |-> api_now + Lifetime, revoked_at |-> Never])
  /\ UNCHANGED <<api_now, signing_kid, published, keys, refreshes, junk, cache>>

Revoke(t) ==
  /\ tokens[t].revoked_at = Never
  /\ tokens' = [tokens EXCEPT ![t].revoked_at = api_now]
  /\ UNCHANGED <<api_now, signing_kid, published, keys, refreshes, junk, cache>>

\* introspect()
Active(t) == tokens[t].revoked_at = Never /\ api_now <= tokens[t].expires_at

\* The new key is published alongside the old ones and used from now on.
Rotate ==
  /\ signing_kid < MaxRotations
  /\ signing_kid' = signing_kid + 1
  /\ published' = published \cup {signing_kid'}
  /\ UNCHANGED <<api_now, tokens, keys, refreshes, junk, cache>>

\* An old key goes "only after every outstanding token has expired".
Retire(kid) ==
  /\ kid \in published \ {signing_kid}
  /\ \A t \in DOMAIN tokens : tokens[t].kid = kid => api_now > tokens[t].expires_at + Leeway
  /\ published' = published \ {kid}
  /\ UNCHANGED <<api_now, tokens, signing_kid, keys, refreshes, junk, cache>>

----------------------------------------------------------------------------
(* JWKSet.by_kid                                                           *)

\* Mutant: the fetched set replaces the known keys by the new one only.
RefreshedOneKey(kid) == {kid} \cap published

Refreshed(kid) == published

MayRefresh == refreshes < MaxRefreshes

\* Does the lookup find the key, after a refresh if need be?
Resolves(kid) == kid \in keys \/ (MayRefresh /\ kid \in Refreshed(kid))

\* ResourceServer.authenticate looks the key up before it reads any claim, so that
\* expired tokens and invented ones have this effect too.
Lookup(kid) ==
  /\ kid \notin keys
  /\ kid \in published \/ junk < MaxJunk
  /\ IF MayRefresh
     THEN refreshes' = refreshes + 1 /\ keys' = Refreshed(kid)
     ELSE UNCHANGED <<refreshes, keys>>
  /\ junk' = IF kid \in published THEN junk ELSE junk + 1
  /\ UNCHANGED <<api_now, tokens, signing_kid, published, cache>>

\* A kid that no key ever had
InventedKid == MaxRotations + 1

\* JWTValidator.validate; a JWT cannot be revoked.
JwtAccepted(t) == api_now <= tokens[t].expires_at + Leeway /\ Resolves(tokens[t].kid)

----------------------------------------------------------------------------
(* IntrospectingResourceServer.authenticate                                *)

\* Mutant: an answer is used for as long as it is in the cache.
AnsweredForEver(t) == t \in DOMAIN cache

Answered(t) == t \in DOMAIN cache /\ cache[t].until > api_now

OpaqueAccepted(t) == IF Answered(t) THEN cache[t].active ELSE Active(t)

Introspect(t) ==
  /\ CacheTTL > 0
  /\ ~Answered(t)
  /\ cache' = Put(cache, t, [until |-> api_now + CacheTTL, active |-> Active(t)])
  /\ UNCHANGED <<api_now, tokens, signing_kid, published, keys, refreshes, junk>>

ApiTick ==
  /\ api_now < MaxApiTime
  /\ api_now' = api_now + 1
  /\ UNCHANGED <<tokens, signing_kid, published, keys, refreshes, junk, cache>>

----------------------------------------------------------------------------

ApiNext ==
  \/ \E t \in ApiToken : IssueToken(t)
  \/ \E t \in DOMAIN tokens : Revoke(t) \/ Introspect(t) \/ Lookup(tokens[t].kid)
  \/ Lookup(InventedKid)
  \/ Rotate
  \/ \E kid \in Kid : Retire(kid)
  \/ ApiTick

ApiSpec == ApiInit /\ [][ApiNext]_apiVars

----------------------------------------------------------------------------
(* Properties.                                                             *)

\* With an introspection cache a dead token lives on for less than cache_ttl after
\* its revocation or its expiry, and without one "revocation is instant".
StalenessBounded ==
  \A t \in DOMAIN tokens : OpaqueAccepted(t) /\ ~Active(t) =>
    /\ tokens[t].revoked_at # Never => api_now < tokens[t].revoked_at + CacheTTL
    /\ api_now > tokens[t].expires_at => api_now < tokens[t].expires_at + CacheTTL

\* "To rotate without downtime": a token that has not expired is accepted, whatever
\* keys were rotated before and whatever kids were asked for.
RotationFollowed ==
  \A t \in DOMAIN tokens : api_now <= tokens[t].expires_at => JwtAccepted(t)

\* The same, as long as rotations and lookups of unpublished kids together stay
\* within max_refreshes: no key costs more than one refresh.
RotationFollowedWithinBudget == signing_kid + junk <= MaxRefreshes => RotationFollowed
============================================================================
