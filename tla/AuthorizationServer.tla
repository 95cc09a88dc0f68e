------------------------ MODULE AuthorizationServer ------------------------
(***************************************************************************)
(* authlab/oauth/authorization_server.py and models.py : the grants of the *)
(* authorization server and the records they leave in the Store.           *)
(*                                                                         *)
(* One action per call that changes the Store, called one at a time, as    *)
(* the drills and tests do. Requests that raise before touching the Store  *)
(* are the states where the action's guard is false. A call arrives with   *)
(* its client authenticated and with the values that the DPoP verifier and *)
(* the TLS layer report (a thumbprint or None).                            *)
(*                                                                         *)
(* Dictionaries are functions whose domain is the set of keys present.     *)
(* random_token() picks any identifier that is not in use; the sizes of    *)
(* Code, Device, RefreshId, AccessId and Family bound a behaviour.         *)
(* Names, nonces, amr and the token bytes are not told apart by any        *)
(* property and are left out; authorization_details travel with scope.     *)
(***************************************************************************)
EXTENDS Integers, FiniteSets

CONSTANTS
  Client, Subject, Scope, Resource, Uri,
  Verifier,          \* PKCE code verifiers
  Jkt,               \* DPoP key thumbprints
  X5t,               \* TLS certificate thumbprints
  Code, Device, RefreshId, AccessId, Family,
  None,
  Config,            \* Config[c] : the registered Client record
  DefaultResource,   \* known_resources[0]
  CodeLifetime, DeviceLifetime, AccessLifetime, RefreshLifetime,
  StartTime, MaxTime

GrantType == {"authorization_code", "refresh_token", "client_credentials", "device_code"}

ClientRec == [scopes : SUBSET Scope, redirect_uris : SUBSET Uri, is_public : BOOLEAN,
              require_pkce : BOOLEAN, require_dpop : BOOLEAN, certificate_bound : BOOLEAN,
              rotate_refresh_tokens : BOOLEAN, grant_types : SUBSET GrantType]

ASSUME ASAssumption ==
  /\ Config \in [Client -> ClientRec]
  /\ DefaultResource \in Resource
  /\ {CodeLifetime, DeviceLifetime, AccessLifetime, RefreshLifetime} \subseteq Nat
  /\ StartTime \in Nat \ {0} /\ MaxTime \in Nat /\ StartTime <= MaxTime
  /\ None \notin Subject \cup Jkt \cup X5t \cup RefreshId \cup Family \cup Code \cup Device
  /\ Code \cap Device = {}

VARIABLES
  now,             \* clock.now()
  codes,           \* Store.codes
  devices,         \* Store.device_codes
  refresh_tokens,  \* Store.refresh_tokens
  access_tokens,   \* Store.access_tokens
  replayed,        \* history: codes whose replay was detected
  compromised      \* history: families in which reuse was detected

vars == <<now, codes, devices, refresh_tokens, access_tokens, replayed, compromised>>

Optional(S) == S \cup {None}

Grant == Code \cup Device

\* code_challenge with its method. S256 hides the verifier, plain does not.
Challenge == [method : {"S256", "plain"}, of : Verifier]

CodeRec == [client_id : Client, subject : Subject, redirect_uri : Uri, scope : SUBSET Scope,
            expires_at : Nat, code_challenge : Optional(Challenge), resource : Optional(Resource),
            dpop_jkt : Optional(Jkt), used : BOOLEAN]

DeviceRec == [client_id : Client, scope : SUBSET Scope, expires_at : Nat, approved : BOOLEAN,
              denied : BOOLEAN, subject : Optional(Subject), last_polled_at : Nat]

\* grant is history: the code or device code that a token descends from.
RefreshRec == [client_id : Client, subject : Subject, scope : SUBSET Scope, expires_at : Nat,
               family_id : Family, used : BOOLEAN, revoked : BOOLEAN,
               rotated_to : Optional(RefreshId), cnf_jkt : Optional(Jkt), cnf_x5t : Optional(X5t),
               grant : Grant]

\* family is history: the refresh family issued with or used for the token.
AccessRec == [client_id : Client, subject : Optional(Subject), scope : SUBSET Scope,
              expires_at : Nat, audience : Resource, revoked : BOOLEAN, cnf_jkt : Optional(Jkt),
              cnf_x5t : Optional(X5t), family : Optional(Family), grant : Optional(Grant)]

Dict(dict, Key, Rec) == DOMAIN dict \subseteq Key /\ \A k \in DOMAIN dict : dict[k] \in Rec

TypeOK ==
  /\ now \in StartTime..MaxTime
  /\ Dict(codes, Code, CodeRec)
  /\ Dict(devices, Device, DeviceRec)
  /\ \A d \in DOMAIN devices : devices[d].approved => devices[d].subject \in Subject
  /\ Dict(refresh_tokens, RefreshId, RefreshRec)
  /\ Dict(access_tokens, AccessId, AccessRec)
  /\ replayed \subseteq Code
  /\ compromised \subseteq Family

Empty == [k \in {} |-> None]

Init ==
  /\ now = StartTime
  /\ codes = Empty
  /\ devices = Empty
  /\ refresh_tokens = Empty
  /\ access_tokens = Empty
  /\ replayed = {}
  /\ compromised = {}

----------------------------------------------------------------------------
(* Store helpers.                                                          *)

Put(dict, key, rec) == [k \in DOMAIN dict \cup {key} |-> IF k = key THEN rec ELSE dict[k]]

\* Python's "a or b" on optional values.
Or(a, b) == IF a # None THEN a ELSE b

\* revoke_access_for_family_subject
RevokeAccess(c, s) ==
  [a \in DOMAIN access_tokens |->
     IF access_tokens[a].client_id = c /\ access_tokens[a].subject = s
     THEN [access_tokens[a] EXCEPT !.revoked = TRUE] ELSE access_tokens[a]]

\* revoke_refresh_family
RevokeFamily(f) ==
  [t \in DOMAIN refresh_tokens |->
     IF refresh_tokens[t].family_id = f
     THEN [refresh_tokens[t] EXCEPT !.revoked = TRUE] ELSE refresh_tokens[t]]

\* The loop of the code replay branch.
RevokeRefreshOf(c, s) ==
  [t \in DOMAIN refresh_tokens |->
     IF refresh_tokens[t].client_id = c /\ refresh_tokens[t].subject = s
     THEN [refresh_tokens[t] EXCEPT !.revoked = TRUE] ELSE refresh_tokens[t]]

FreshRefreshIds == RefreshId \ DOMAIN refresh_tokens
FreshAccessIds == AccessId \ DOMAIN access_tokens
FreshFamilies == Family \ {refresh_tokens[t].family_id : t \in DOMAIN refresh_tokens}

----------------------------------------------------------------------------
(* The authorization endpoint.                                             *)

\* scopes = [] registers a client without a scope restriction.
MayRequest(c, scope) == Config[c].scopes # {} => scope \subseteq Config[c].scopes

PKCERequirement(c, challenge) ==
  Config[c].require_pkce \/ Config[c].is_public => challenge # None /\ challenge.method = "S256"

\* validate_authorization_request, then issue_authorization_code once the user
\* has signed in.
Authorize(c, s, scope, uri, challenge, resource, jkt, code) ==
  /\ code \in Code \ DOMAIN codes
  /\ uri \in Config[c].redirect_uris
  /\ MayRequest(c, scope)
  /\ PKCERequirement(c, challenge)
  /\ codes' = Put(codes, code,
       [client_id |-> c, subject |-> s, redirect_uri |-> uri, scope |-> scope,
        expires_at |-> now + CodeLifetime, code_challenge |-> challenge,
        resource |-> resource, dpop_jkt |-> jkt, used |-> FALSE])
  /\ UNCHANGED <<now, devices, refresh_tokens, access_tokens, replayed, compromised>>

----------------------------------------------------------------------------
(* The token endpoint.                                                     *)

\* token(): the grant type is registered for the client, and a client that
\* must use DPoP presented a proof.
TokenRequest(c, grant_type, jkt) ==
  /\ grant_type \in Config[c].grant_types
  /\ Config[c].require_dpop => jkt # None

\* cnf_x5t in token()
BoundCertificate(c, x5t) == IF Config[c].certificate_bound THEN x5t ELSE None

\* _issue_token_set, the access token
NewAccess(c, s, scope, aud, jkt, x5t, f, g) ==
  [client_id |-> c, subject |-> s, scope |-> scope, expires_at |-> now + AccessLifetime,
   audience |-> aud, revoked |-> FALSE, cnf_jkt |-> jkt, cnf_x5t |-> x5t, family |-> f, grant |-> g]

\* _issue_token_set, the refresh token
NewRefresh(c, s, scope, jkt, x5t, f, g) ==
  [client_id |-> c, subject |-> s, scope |-> scope, expires_at |-> now + RefreshLifetime,
   family_id |-> f, used |-> FALSE, revoked |-> FALSE, rotated_to |-> None,
   cnf_jkt |-> jkt, cnf_x5t |-> x5t, grant |-> g]

\* pkce.verify, or its absence: a challenge made with "plain" is always refused.
PKCEVerified(c, challenge, verifier) ==
  IF challenge # None
  THEN challenge.method = "S256" /\ challenge.of = verifier
  ELSE ~Config[c].is_public

\* Mutant: dpop_jkt is not compared.
CodeRedeemableAnyKey(c, code, uri, verifier, jkt) ==
  /\ code.client_id = c
  /\ now <= code.expires_at
  /\ uri = code.redirect_uri
  /\ PKCEVerified(c, code.code_challenge, verifier)

\* What _grant_authorization_code demands of an unused code.
CodeRedeemable(c, code, uri, verifier, jkt) ==
  /\ code.client_id = c
  /\ now <= code.expires_at
  /\ uri = code.redirect_uri
  /\ PKCEVerified(c, code.code_challenge, verifier)
  /\ code.dpop_jkt # None => code.dpop_jkt = jkt

\* Mutant: the code is not marked as used.
RedeemCodeUnmarked(c, k, uri, verifier, jkt, x5t, a, t, f) ==
  /\ TokenRequest(c, "authorization_code", jkt)
  /\ k \in DOMAIN codes
  /\ ~codes[k].used
  /\ CodeRedeemable(c, codes[k], uri, verifier, jkt)
  /\ access_tokens' = Put(access_tokens, a,
       NewAccess(c, codes[k].subject, codes[k].scope, Or(codes[k].resource, DefaultResource), jkt,
                 BoundCertificate(c, x5t), f, k))
  /\ refresh_tokens' = Put(refresh_tokens, t,
       NewRefresh(c, codes[k].subject, codes[k].scope, jkt, BoundCertificate(c, x5t), f, k))
  /\ UNCHANGED <<now, codes, devices, replayed, compromised>>

\* _grant_authorization_code
RedeemCode(c, k, uri, verifier, jkt, x5t, a, t, f) ==
  LET code == codes[k]
      x    == BoundCertificate(c, x5t)
  IN /\ TokenRequest(c, "authorization_code", jkt)
     /\ k \in DOMAIN codes
     /\ ~code.used
     /\ CodeRedeemable(c, code, uri, verifier, jkt)
     /\ codes' = [codes EXCEPT ![k].used = TRUE]
     /\ access_tokens' = Put(access_tokens, a,
          NewAccess(c, code.subject, code.scope, Or(code.resource, DefaultResource), jkt, x, f, k))
     /\ refresh_tokens' = Put(refresh_tokens, t,
          NewRefresh(c, code.subject, code.scope, jkt, x, f, k))
     /\ UNCHANGED <<now, devices, replayed, compromised>>

\* Mutant: the loop over the refresh tokens is forgotten.
ReplayCodeAccessOnly(c, k, jkt) ==
  /\ TokenRequest(c, "authorization_code", jkt)
  /\ k \in DOMAIN codes
  /\ codes[k].used
  /\ access_tokens' = RevokeAccess(codes[k].client_id, codes[k].subject)
  /\ replayed' = replayed \cup {k}
  /\ UNCHANGED <<now, codes, devices, refresh_tokens, compromised>>

\* _grant_authorization_code, the replay branch: it comes before the client
\* check, so any authenticated client can trigger it.
ReplayCode(c, k, jkt) ==
  /\ TokenRequest(c, "authorization_code", jkt)
  /\ k \in DOMAIN codes
  /\ codes[k].used
  /\ access_tokens' = RevokeAccess(codes[k].client_id, codes[k].subject)
  /\ refresh_tokens' = RevokeRefreshOf(codes[k].client_id, codes[k].subject)
  /\ replayed' = replayed \cup {k}
  /\ UNCHANGED <<now, codes, devices, compromised>>

\* Mutant: the scope is not compared.
RefreshRedeemableAnyScope(c, token, requested, jkt, x5t) ==
  /\ token.client_id = c
  /\ now <= token.expires_at
  /\ token.cnf_jkt # None => token.cnf_jkt = jkt
  /\ token.cnf_x5t # None => token.cnf_x5t = BoundCertificate(c, x5t)

\* What _grant_refresh_token demands of a token that is neither used nor revoked.
RefreshRedeemable(c, token, requested, jkt, x5t) ==
  /\ token.client_id = c
  /\ now <= token.expires_at
  /\ token.cnf_jkt # None => token.cnf_jkt = jkt
  /\ token.cnf_x5t # None => token.cnf_x5t = BoundCertificate(c, x5t)
  /\ requested \subseteq token.scope

NarrowedScope(token, requested) == IF requested # {} THEN requested ELSE token.scope

RefreshedAccess(c, token, requested, jkt, x5t) ==
  NewAccess(c, token.subject, NarrowedScope(token, requested), DefaultResource,
            Or(token.cnf_jkt, jkt), Or(token.cnf_x5t, BoundCertificate(c, x5t)),
            token.family_id, token.grant)

\* Mutant: the old token is not marked as used.
RotateUnmarked(c, t, requested, jkt, x5t, a, next) ==
  LET token == refresh_tokens[t]
  IN /\ TokenRequest(c, "refresh_token", jkt)
     /\ Config[c].rotate_refresh_tokens
     /\ t \in DOMAIN refresh_tokens
     /\ ~token.used /\ ~token.revoked
     /\ RefreshRedeemable(c, token, requested, jkt, x5t)
     /\ refresh_tokens' =
          Put([refresh_tokens EXCEPT ![t].rotated_to = next], next,
              NewRefresh(c, token.subject, NarrowedScope(token, requested),
                         Or(token.cnf_jkt, jkt), Or(token.cnf_x5t, BoundCertificate(c, x5t)),
                         token.family_id, token.grant))
     /\ access_tokens' = Put(access_tokens, a, RefreshedAccess(c, token, requested, jkt, x5t))
     /\ UNCHANGED <<now, codes, devices, replayed, compromised>>

\* _grant_refresh_token, rotating: the old token is spent, its successor joins
\* the family.
Rotate(c, t, requested, jkt, x5t, a, next) ==
  LET token == refresh_tokens[t]
  IN /\ TokenRequest(c, "refresh_token", jkt)
     /\ Config[c].rotate_refresh_tokens
     /\ t \in DOMAIN refresh_tokens
     /\ ~token.used /\ ~token.revoked
     /\ RefreshRedeemable(c, token, requested, jkt, x5t)
     /\ refresh_tokens' =
          Put([refresh_tokens EXCEPT ![t].used = TRUE, ![t].rotated_to = next], next,
              NewRefresh(c, token.subject, NarrowedScope(token, requested),
                         Or(token.cnf_jkt, jkt), Or(token.cnf_x5t, BoundCertificate(c, x5t)),
                         token.family_id, token.grant))
     /\ access_tokens' = Put(access_tokens, a, RefreshedAccess(c, token, requested, jkt, x5t))
     /\ UNCHANGED <<now, codes, devices, replayed, compromised>>

\* _grant_refresh_token for a client registered without rotation.
RefreshInPlace(c, t, requested, jkt, x5t, a) ==
  LET token == refresh_tokens[t]
  IN /\ TokenRequest(c, "refresh_token", jkt)
     /\ ~Config[c].rotate_refresh_tokens
     /\ t \in DOMAIN refresh_tokens
     /\ ~token.used /\ ~token.revoked
     /\ RefreshRedeemable(c, token, requested, jkt, x5t)
     /\ access_tokens' = Put(access_tokens, a, RefreshedAccess(c, token, requested, jkt, x5t))
     /\ UNCHANGED <<now, codes, devices, refresh_tokens, replayed, compromised>>

\* Mutant: the access tokens of the family stay alive.
ReuseRefreshKeepsAccess(c, t, jkt) ==
  LET token == refresh_tokens[t]
  IN /\ TokenRequest(c, "refresh_token", jkt)
     /\ t \in DOMAIN refresh_tokens
     /\ token.used \/ token.revoked
     /\ refresh_tokens' = RevokeFamily(token.family_id)
     /\ compromised' = compromised \cup {token.family_id}
     /\ UNCHANGED <<now, codes, devices, access_tokens, replayed>>

\* _grant_refresh_token, reuse detection: also ahead of the client check.
ReuseRefresh(c, t, jkt) ==
  LET token == refresh_tokens[t]
  IN /\ TokenRequest(c, "refresh_token", jkt)
     /\ t \in DOMAIN refresh_tokens
     /\ token.used \/ token.revoked
     /\ refresh_tokens' = RevokeFamily(token.family_id)
     /\ access_tokens' = RevokeAccess(token.client_id, token.subject)
     /\ compromised' = compromised \cup {token.family_id}
     /\ UNCHANGED <<now, codes, devices, replayed>>

\* _grant_client_credentials: no subject, no refresh token.
ClientCredentials(c, requested, jkt, x5t, a) ==
  LET scope == IF requested # {} THEN requested ELSE Config[c].scopes
  IN /\ TokenRequest(c, "client_credentials", jkt)
     /\ ~Config[c].is_public
     /\ MayRequest(c, scope)
     /\ access_tokens' = Put(access_tokens, a,
          NewAccess(c, None, scope, DefaultResource, jkt, BoundCertificate(c, x5t), None, None))
     /\ UNCHANGED <<now, codes, devices, refresh_tokens, replayed, compromised>>

----------------------------------------------------------------------------
(* The device flow.                                                        *)

\* device_authorization: neither the scope nor the grant type is checked here.
DeviceAuthorization(c, scope, d) ==
  /\ d \in Device \ DOMAIN devices
  /\ \A t \in DOMAIN refresh_tokens : refresh_tokens[t].grant # d
  /\ devices' = Put(devices, d,
       [client_id |-> c, scope |-> scope, expires_at |-> now + DeviceLifetime, approved |-> FALSE,
        denied |-> FALSE, subject |-> None, last_polled_at |-> 0])
  /\ UNCHANGED <<now, codes, refresh_tokens, access_tokens, replayed, compromised>>

\* approve_device: a second approval replaces the subject of the first.
ApproveDevice(d, s) ==
  /\ d \in DOMAIN devices
  /\ now <= devices[d].expires_at
  /\ devices' = [devices EXCEPT ![d].approved = TRUE, ![d].subject = s]
  /\ UNCHANGED <<now, codes, refresh_tokens, access_tokens, replayed, compromised>>

\* deny_device: accepted at any time, before or after an approval.
DenyDevice(d) ==
  /\ d \in DOMAIN devices
  /\ devices' = [devices EXCEPT ![d].denied = TRUE]
  /\ UNCHANGED <<now, codes, refresh_tokens, access_tokens, replayed, compromised>>

\* _grant_device_code, the checks ahead of the user's decision
DevicePolled(c, d, jkt) ==
  /\ TokenRequest(c, "device_code", jkt)
  /\ d \in DOMAIN devices
  /\ devices[d].client_id = c
  /\ now <= devices[d].expires_at
  /\ ~devices[d].denied

\* _grant_device_code while the user has not decided: slow_down and
\* authorization_pending both note the time of the poll.
PollDevice(c, d, jkt) ==
  /\ DevicePolled(c, d, jkt)
  /\ ~devices[d].approved
  /\ devices' = [devices EXCEPT ![d].last_polled_at = now]
  /\ UNCHANGED <<now, codes, refresh_tokens, access_tokens, replayed, compromised>>

\* _grant_device_code after approval: the device code is deleted.
RedeemDevice(c, d, jkt, x5t, a, t, f) ==
  LET device == devices[d]
      x      == BoundCertificate(c, x5t)
  IN /\ DevicePolled(c, d, jkt)
     /\ device.approved
     /\ devices' = [e \in DOMAIN devices \ {d} |-> devices[e]]
     /\ access_tokens' = Put(access_tokens, a,
          NewAccess(c, device.subject, device.scope, DefaultResource, jkt, x, f, d))
     /\ refresh_tokens' = Put(refresh_tokens, t,
          NewRefresh(c, device.subject, device.scope, jkt, x, f, d))
     /\ UNCHANGED <<now, codes, replayed, compromised>>

----------------------------------------------------------------------------
(* Revocation, introspection and time.                                     *)

\* revoke() of an access token: that token only.
RevokeAccessToken(c, a) ==
  /\ a \in DOMAIN access_tokens
  /\ access_tokens[a].client_id = c
  /\ access_tokens' = [access_tokens EXCEPT ![a].revoked = TRUE]
  /\ UNCHANGED <<now, codes, devices, refresh_tokens, replayed, compromised>>

\* revoke() of a refresh token: its family, but no access token.
RevokeRefreshToken(c, t) ==
  /\ t \in DOMAIN refresh_tokens
  /\ refresh_tokens[t].client_id = c
  /\ refresh_tokens' = RevokeFamily(refresh_tokens[t].family_id)
  /\ UNCHANGED <<now, codes, devices, access_tokens, replayed, compromised>>

\* introspect(): what {"active": true} means.
Active(a) ==
  /\ a \in DOMAIN access_tokens
  /\ ~access_tokens[a].revoked
  /\ now <= access_tokens[a].expires_at

Tick ==
  /\ now < MaxTime
  /\ now' = now + 1
  /\ UNCHANGED <<codes, devices, refresh_tokens, access_tokens, replayed, compromised>>

AuthorizeSome ==
  \E c \in Client, s \in Subject, scope \in SUBSET Scope, uri \in Uri,
     challenge \in Optional(Challenge), resource \in Optional(Resource), jkt \in Optional(Jkt),
     code \in Code :
    Authorize(c, s, scope, uri, challenge, resource, jkt, code)

CodeGrant ==
  \E c \in Client, k \in Code, jkt \in Optional(Jkt) :
    \/ ReplayCode(c, k, jkt)
    \/ \E uri \in Uri, verifier \in Optional(Verifier), x5t \in Optional(X5t),
          a \in FreshAccessIds, t \in FreshRefreshIds, f \in FreshFamilies :
         RedeemCode(c, k, uri, verifier, jkt, x5t, a, t, f)

RefreshGrant ==
  \E c \in Client, t \in RefreshId, jkt \in Optional(Jkt) :
    \/ ReuseRefresh(c, t, jkt)
    \/ \E requested \in SUBSET Scope, x5t \in Optional(X5t), a \in FreshAccessIds :
         \/ RefreshInPlace(c, t, requested, jkt, x5t, a)
         \/ \E next \in FreshRefreshIds : Rotate(c, t, requested, jkt, x5t, a, next)

ClientGrant ==
  \E c \in Client, requested \in SUBSET Scope, jkt \in Optional(Jkt), x5t \in Optional(X5t),
     a \in FreshAccessIds :
    ClientCredentials(c, requested, jkt, x5t, a)

DeviceGrant ==
  \E d \in Device :
    \/ DenyDevice(d)
    \/ \E s \in Subject : ApproveDevice(d, s)
    \/ \E c \in Client, scope \in SUBSET Scope : DeviceAuthorization(c, scope, d)
    \/ \E c \in Client, jkt \in Optional(Jkt) :
         \/ PollDevice(c, d, jkt)
         \/ \E x5t \in Optional(X5t), a \in FreshAccessIds, t \in FreshRefreshIds, f \in FreshFamilies :
              RedeemDevice(c, d, jkt, x5t, a, t, f)

Revocation ==
  \E c \in Client :
    \/ \E a \in AccessId : RevokeAccessToken(c, a)
    \/ \E t \in RefreshId : RevokeRefreshToken(c, t)

Next == AuthorizeSome \/ CodeGrant \/ RefreshGrant \/ ClientGrant \/ DeviceGrant \/ Revocation \/ Tick

Spec == Init /\ [][Next]_vars

----------------------------------------------------------------------------
(* Properties.                                                             *)

Usable(t) == ~refresh_tokens[t].used /\ ~refresh_tokens[t].revoked

\* Every token has a paper trail: a refresh token descends from a spent code or a
\* deleted device code, a family has one client and one user, and an access token
\* of a user belongs to a family with the same client, user and grant. The
\* revocation scans rely on it, since they select by client and user.
Provenance ==
  /\ \A t \in DOMAIN refresh_tokens :
       LET token == refresh_tokens[t]
       IN  /\ token.grant \notin DOMAIN devices
           /\ token.grant \in Code =>
                /\ token.grant \in DOMAIN codes /\ codes[token.grant].used
                /\ codes[token.grant].client_id = token.client_id
                /\ codes[token.grant].subject = token.subject
  /\ \A t, u \in DOMAIN refresh_tokens :
       refresh_tokens[t].family_id = refresh_tokens[u].family_id =>
         /\ refresh_tokens[t].client_id = refresh_tokens[u].client_id
         /\ refresh_tokens[t].subject = refresh_tokens[u].subject
  /\ \A a \in DOMAIN access_tokens :
       access_tokens[a].grant # None \/ access_tokens[a].family # None =>
         \E t \in DOMAIN refresh_tokens :
           /\ refresh_tokens[t].family_id = access_tokens[a].family
           /\ refresh_tokens[t].client_id = access_tokens[a].client_id
           /\ refresh_tokens[t].subject = access_tokens[a].subject
           /\ refresh_tokens[t].grant = access_tokens[a].grant

\* A code or device code is spent once: all refresh tokens that descend from it
\* belong to one family, through any mix of redemptions, rotations and replays.
OneFamilyPerGrant ==
  \A t, u \in DOMAIN refresh_tokens :
    refresh_tokens[t].grant = refresh_tokens[u].grant
      <=> refresh_tokens[t].family_id = refresh_tokens[u].family_id

\* Rotation leaves one holder: a family never has two refresh tokens that
\* _grant_refresh_token would accept.
OneUsableRefreshToken ==
  \A t, u \in DOMAIN refresh_tokens :
    refresh_tokens[t].family_id = refresh_tokens[u].family_id /\ Usable(t) /\ Usable(u) => t = u

\* "Assume the worst and revoke everything the code produced": once a replay of
\* a code has been seen, no token that descends from it is ever usable again,
\* and none is issued later.
ReplayedGrantDead ==
  \A k \in replayed :
    /\ \A t \in DOMAIN refresh_tokens : refresh_tokens[t].grant = k => refresh_tokens[t].revoked
    /\ \A a \in DOMAIN access_tokens : access_tokens[a].grant = k => ~Active(a)

\* "Kill the whole family": after reuse detection every token of the family,
\* refresh and access, stays dead.
CompromisedFamilyDead ==
  \A f \in compromised :
    /\ \A t \in DOMAIN refresh_tokens : refresh_tokens[t].family_id = f => refresh_tokens[t].revoked
    /\ \A a \in DOMAIN access_tokens : access_tokens[a].family = f => ~Active(a)

\* The two alarms fail closed: a code redeemed twice, or a spent refresh token
\* presented again, ends everything that was ever made from it.
MisuseEndsEverything == ReplayedGrantDead /\ CompromisedFamilyDead

\* However often it is refreshed, a grant never yields more scope than the user
\* approved at the authorization endpoint, nor more than the client registered.
ScopeNeverWidens ==
  /\ \A t \in DOMAIN refresh_tokens : refresh_tokens[t].grant \in Code =>
       refresh_tokens[t].scope \subseteq codes[refresh_tokens[t].grant].scope
  /\ \A a \in DOMAIN access_tokens : access_tokens[a].grant \in Code =>
       /\ access_tokens[a].scope \subseteq codes[access_tokens[a].grant].scope
       /\ MayRequest(access_tokens[a].client_id, access_tokens[a].scope)

\* A grant started with dpop_jkt only ever yields tokens for that key, and a
\* sender constraint is never dropped or exchanged by a rotation.
SenderConstraintKept ==
  /\ \A a \in DOMAIN access_tokens : access_tokens[a].grant \in Code =>
       LET k == codes[access_tokens[a].grant].dpop_jkt
       IN  k # None => access_tokens[a].cnf_jkt = k
  /\ \A t \in DOMAIN refresh_tokens :
       LET old == refresh_tokens[t]
           new == refresh_tokens[old.rotated_to]
       IN  old.rotated_to # None =>
             /\ old.cnf_jkt # None => new.cnf_jkt = old.cnf_jkt
             /\ old.cnf_x5t # None => new.cnf_x5t = old.cnf_x5t
============================================================================
