--------------------------- MODULE PushedRequests ---------------------------
(***************************************************************************)
(* The signed front channel: a client signs a Request Object (jar.py),     *)
(* pushes it for a request_uri (par.py, under the FAPI 2.0 profiles),      *)
(* sends the browser to the authorization endpoint with it, and gets the   *)
(* result back in a signed response (jarm.py). Each stage has its own      *)
(* deadline and its own replay defence; the browser and the client may     *)
(* repeat, delay and misdirect what passes through their hands.            *)
(*                                                                         *)
(* Signatures, issuers and audiences are taken to be right; clients and    *)
(* the server share a clock. The parameters of a request are reduced to    *)
(* its quality: "bad" fails validate_authorization_request, "plain" passes *)
(* it, "fapi" also has the shape that FAPI 2.0 demands.                    *)
(***************************************************************************)
EXTENDS Integers, FiniteSets

CONSTANTS
  Client,
  Jti,             \* Request Objects; the bound on their number
  Uri,             \* request_uri values; the bound on pushed requests
  Response,        \* JARM responses; the bound on their number
  None,
  Profile,         \* what a client's server puts in front of PAR: nothing,
                   \* FAPI2SecurityProfile, or also FAPI2MessageSigning
  MaximumLifetime, \* JWTAuthorizationRequests.maximum_lifetime
  ParLifetime,
  JarmLifetime,
  Future,          \* how far ahead nbf may be (60 s in the code)
  MaxTime          \* bound on the clock

ASSUME PushedRequestsAssumption ==
  /\ Profile \in [Client -> {"none", "security", "signing"}]
  /\ MaximumLifetime \in Nat
  /\ ParLifetime \in Nat
  /\ JarmLifetime \in Nat
  /\ Future \in Nat
  /\ MaxTime \in Nat
  /\ None \notin Jti

VARIABLES
  now,
  objects,         \* the Request Objects that clients have signed
  seen_jtis,       \* JWTAuthorizationRequests.seen_jtis
  requests,        \* PushedAuthorizationRequests.requests
  responses,       \* the JARM responses that the server has signed
  seen_responses,  \* JWTAuthorizationResponses.seen_jtis
  decided_at,      \* history: when a request_uri was resolved
  delivered        \* history: how often a response was accepted

vars == <<now, objects, seen_jtis, requests, responses, seen_responses, decided_at, delivered>>

Quality == {"bad", "plain", "fapi"}

RequestObject == [client_id : Client, quality : Quality, nbf : Int, exp : Nat]
PushedRequest == [client_id : Client, quality : Quality, jti : Jti \cup {None},
                  expires_at : Nat, used : BOOLEAN]
\* state names the request that the response answers
AuthorizationResponse == [aud : Client, state : Uri, exp : Nat]

TypeOK ==
  /\ now \in Nat
  /\ DOMAIN objects \subseteq Jti
  /\ objects \in [DOMAIN objects -> RequestObject]
  /\ seen_jtis \subseteq DOMAIN objects
  /\ DOMAIN requests \subseteq Uri
  /\ requests \in [DOMAIN requests -> PushedRequest]
  /\ DOMAIN responses \subseteq Response
  /\ responses \in [DOMAIN responses -> AuthorizationResponse]
  /\ seen_responses \subseteq DOMAIN responses
  /\ DOMAIN decided_at = {uri \in DOMAIN requests : requests[uri].used}
  /\ decided_at \in [DOMAIN decided_at -> Nat]
  /\ delivered \in [Response -> Nat]

Init ==
  /\ now = 0
  /\ objects = <<>>
  /\ seen_jtis = {}
  /\ requests = <<>>
  /\ responses = <<>>
  /\ seen_responses = {}
  /\ decided_at = <<>>
  /\ delivered = [r \in Response |-> 0]

Put(f, key, value) == [k \in DOMAIN f \cup {key} |-> IF k = key THEN value ELSE f[k]]

----------------------------------------------------------------------------
(* JWTAuthorizationRequests                                                *)

\* issue(): not_before is the caller's choice
Issue(j, c, quality, lifetime, not_before) ==
  /\ j \notin DOMAIN objects
  /\ lifetime \in 1..MaximumLifetime
  /\ objects' = Put(objects, j,
       [client_id |-> c, quality |-> quality, nbf |-> not_before, exp |-> now + lifetime])
  /\ UNCHANGED <<now, seen_jtis, requests, responses, seen_responses, decided_at, delivered>>

\* validate(), up to the replay test
ObjectValid(j, c) ==
  /\ objects[j].client_id = c
  /\ objects[j].nbf <= now + Future
  /\ objects[j].exp >= now
  /\ objects[j].exp >= objects[j].nbf
  /\ objects[j].exp - objects[j].nbf <= MaximumLifetime
  /\ j \notin seen_jtis

----------------------------------------------------------------------------
(* PushedAuthorizationRequests.push, called by the FAPI profile or directly *)

\* Mutant: the pushed request is not taken back when its shape is wrong.
AdmittedAnyShape(c, quality) == quality # "bad"

\* validate_authorization_request, and _validate_request_shape, after which the
\* request that was stored is deleted again
Admitted(c, quality) == IF Profile[c] = "none" THEN quality # "bad" ELSE quality = "fapi"

Stored(uri, c, quality, jti) ==
  requests' = Put(requests, uri,
    [client_id |-> c, quality |-> quality, jti |-> jti, expires_at |-> now + ParLifetime,
     used |-> FALSE])

\* Mutant: the identifier of the Request Object is not remembered.
PushSignedForgets(c, j, uri) ==
  /\ ObjectValid(j, c)
  /\ uri \notin DOMAIN requests
  /\ Admitted(c, objects[j].quality)
  /\ Stored(uri, c, objects[j].quality, j)
  /\ UNCHANGED <<now, objects, seen_jtis, responses, seen_responses, decided_at, delivered>>

PushSigned(c, j, uri) ==
  /\ ObjectValid(j, c)
  /\ uri \notin DOMAIN requests
  /\ Admitted(c, objects[j].quality)
  /\ seen_jtis' = seen_jtis \cup {j}
  /\ Stored(uri, c, objects[j].quality, j)
  /\ UNCHANGED <<now, objects, responses, seen_responses, decided_at, delivered>>

\* The object was validated, and so is spent, before its contents were refused.
PushSignedRefused(c, j) ==
  /\ ObjectValid(j, c)
  /\ ~Admitted(c, objects[j].quality)
  /\ seen_jtis' = seen_jtis \cup {j}
  /\ UNCHANGED <<now, objects, requests, responses, seen_responses, decided_at, delivered>>

PushUnsigned(c, quality, uri) ==
  /\ Profile[c] # "signing"
  /\ uri \notin DOMAIN requests
  /\ Admitted(c, quality)
  /\ Stored(uri, c, quality, None)
  /\ UNCHANGED <<now, objects, seen_jtis, responses, seen_responses, decided_at, delivered>>

----------------------------------------------------------------------------
(* PushedAuthorizationRequests.authorize                                   *)

\* Mutant: the lifetime of the reference is not looked at.
ResolvableForEver(c, uri) ==
  /\ ~requests[uri].used
  /\ c = requests[uri].client_id

Resolvable(c, uri) ==
  /\ ~requests[uri].used
  /\ now <= requests[uri].expires_at
  /\ c = requests[uri].client_id

\* The parameters were validated by push() and do not change, so that they pass
\* again here.
Authorize(c, uri) ==
  /\ Resolvable(c, uri)
  /\ requests' = [requests EXCEPT ![uri].used = TRUE]
  /\ decided_at' = Put(decided_at, uri, now)
  /\ UNCHANGED <<now, objects, seen_jtis, responses, seen_responses, delivered>>

----------------------------------------------------------------------------
(* JWTAuthorizationResponses                                               *)

\* authorization_response() and issue(), once the user has decided
Respond(uri, r) ==
  /\ requests[uri].used
  /\ r \notin DOMAIN responses
  /\ \A other \in DOMAIN responses : responses[other].state # uri
  /\ responses' = Put(responses, r,
       [aud |-> requests[uri].client_id, state |-> uri, exp |-> now + JarmLifetime])
  /\ UNCHANGED <<now, objects, seen_jtis, requests, seen_responses, decided_at, delivered>>

Acceptable(c, r, expected_state) ==
  /\ responses[r].aud = c
  /\ now <= responses[r].exp
  /\ r \notin seen_responses
  /\ responses[r].state = expected_state

\* Mutant: the identifier is burned before the state is compared.
ValidateBurnsFirst(c, r, expected_state) ==
  /\ responses[r].aud = c
  /\ now <= responses[r].exp
  /\ r \notin seen_responses
  /\ seen_responses' = seen_responses \cup {r}
  /\ delivered' = IF responses[r].state = expected_state
                  THEN [delivered EXCEPT ![r] = @ + 1] ELSE delivered
  /\ UNCHANGED <<now, objects, seen_jtis, requests, responses, decided_at>>

\* validate(), in the session that waits for expected_state
Validate(c, r, expected_state) ==
  /\ Acceptable(c, r, expected_state)
  /\ seen_responses' = seen_responses \cup {r}
  /\ delivered' = [delivered EXCEPT ![r] = @ + 1]
  /\ UNCHANGED <<now, objects, seen_jtis, requests, responses, decided_at>>

Tick ==
  /\ now < MaxTime
  /\ now' = now + 1
  /\ UNCHANGED <<objects, seen_jtis, requests, responses, seen_responses, decided_at, delivered>>

----------------------------------------------------------------------------

Next ==
  \/ \E j \in Jti, c \in Client, q \in Quality, lifetime \in 1..MaximumLifetime,
        not_before \in (now - 1)..(now + Future + 1) : Issue(j, c, q, lifetime, not_before)
  \/ \E c \in Client, j \in DOMAIN objects, uri \in Uri : PushSigned(c, j, uri)
  \/ \E c \in Client, j \in DOMAIN objects : PushSignedRefused(c, j)
  \/ \E c \in Client, q \in Quality, uri \in Uri : PushUnsigned(c, q, uri)
  \/ \E c \in Client, uri \in DOMAIN requests : Authorize(c, uri)
  \/ \E uri \in DOMAIN requests, r \in Response : Respond(uri, r)
  \/ \E c \in Client, r \in DOMAIN responses, uri \in Uri : Validate(c, r, uri)
  \/ Tick

Spec == Init /\ [][Next]_vars

----------------------------------------------------------------------------
(* Properties.                                                             *)

DecisionsFrom(j) == {uri \in DOMAIN decided_at : requests[uri].jti = j}

\* From end to end a Request Object leads to one authorization at most, however
\* often it is pushed and its request_uri is opened.
ObjectOnce ==
  INSTANCE OneTimeUse WITH
    Credential <- Jti, uses <- [j \in Jti |-> Cardinality(DecisionsFrom(j))]
RequestObjectUsedOnce == ObjectOnce!Spec

\* The deadlines add up: an authorization is decided no later than one PAR lifetime
\* after the Request Object has expired, and no earlier than its nbf allows.
DecisionTimely ==
  \A uri \in DOMAIN decided_at :
    LET j == requests[uri].jti
    IN  j # None => /\ decided_at[uri] <= objects[j].exp + ParLifetime
                    /\ decided_at[uri] >= objects[j].nbf - Future

\* Under the FAPI profile nothing but requests of its shape can be opened, and
\* with message signing nothing that the client had not signed itself.
ProfileHolds ==
  \A uri \in DOMAIN requests :
    LET c == requests[uri].client_id
    IN  /\ Profile[c] # "none" => requests[uri].quality = "fapi"
        /\ Profile[c] = "signing" => /\ requests[uri].jti # None
                                     /\ objects[requests[uri].jti].client_id = c

\* A response logs a session in once at most, and it is spent only by that: shown
\* to the wrong session or client, it is still good for the one that waits for it.
ResponseSpentByDelivery ==
  \A r \in DOMAIN responses : delivered[r] = IF r \in seen_responses THEN 1 ELSE 0

\* From the pushed request to the delivered response everything happens in time, in the
\* shape of the profile and once.
FlowSound == DecisionTimely /\ ProfileHolds /\ ResponseSpentByDelivery
============================================================================
