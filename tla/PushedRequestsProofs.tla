----------------------- MODULE PushedRequestsProofs -----------------------
(***************************************************************************)
(* For every registration of clients, all lifetimes and every order of     *)
(* pushes, openings and responses: a Request Object leads to one           *)
(* authorization at most, in time and in the shape of the profile, and a   *)
(* signed response is delivered once.                                      *)
(***************************************************************************)
EXTENDS PushedRequests, FiniteSetTheorems, TLAPS

\* What is stored for a Request Object: the object is spent and valid by now,
\* belongs to the same client and, while it lasted, was stored only once.
RequestsSound ==
  \A uri \in DOMAIN requests :
    LET j == requests[uri].jti
    IN  j # None =>
          /\ j \in seen_jtis
          /\ objects[j].client_id = requests[uri].client_id
          /\ objects[j].nbf <= now + Future
          /\ requests[uri].expires_at <= objects[j].exp + ParLifetime
          /\ \A other \in DOMAIN requests : requests[other].jti = j => other = uri

\* A response that does not exist yet has not been delivered.
FutureUndelivered == \A r \in Response \ DOMAIN responses : delivered[r] = 0

IInv == TypeOK /\ RequestsSound /\ FutureUndelivered /\ FlowSound

\* Put keeps a dictionary's type.
LEMMA PutType ==
  ASSUME NEW S, NEW f, f \in [DOMAIN f -> S], NEW key, NEW value \in S, NEW g, g = Put(f, key, value)
  PROVE  g \in [DOMAIN g -> S]
BY DEF Put

\* push() as far as it changes requests: what is stored under a new request_uri.
StoredFor(uri, c, quality, jti) ==
  /\ uri \notin DOMAIN requests /\ Admitted(c, quality)
  /\ DOMAIN requests' = DOMAIN requests \cup {uri}
  /\ \A k \in DOMAIN requests : requests'[k] = requests[k]
  /\ requests'[uri] = [client_id |-> c, quality |-> quality, jti |-> jti,
                       expires_at |-> now + ParLifetime, used |-> FALSE]
  /\ requests \in [DOMAIN requests -> PushedRequest] => requests' \in [DOMAIN requests' -> PushedRequest]
  /\ UNCHANGED <<now, objects, responses, seen_responses, decided_at, delivered>>

LEMMA PushSignedStores ==
  ASSUME TypeOK, NEW c \in Client, NEW j \in DOMAIN objects, NEW uri \in Uri, PushSigned(c, j, uri)
  PROVE  /\ StoredFor(uri, c, objects[j].quality, j)
         /\ ObjectValid(j, c) /\ seen_jtis' = seen_jtis \cup {j}
<1>. USE PushedRequestsAssumption
<1>1. /\ ObjectValid(j, c) /\ seen_jtis' = seen_jtis \cup {j}
      /\ uri \notin DOMAIN requests /\ Admitted(c, objects[j].quality)
      /\ UNCHANGED <<now, objects, responses, seen_responses, decided_at, delivered>>
  BY DEF PushSigned
<1>2. requests' = Put(requests, uri, [client_id |-> c, quality |-> objects[j].quality, jti |-> j,
                                      expires_at |-> now + ParLifetime, used |-> FALSE])
  BY DEF PushSigned, Stored
<1>3. [client_id |-> c, quality |-> objects[j].quality, jti |-> j, expires_at |-> now + ParLifetime,
       used |-> FALSE] \in PushedRequest
  <2>1. objects[j] \in RequestObject /\ j \in Jti /\ now + ParLifetime \in Nat
    BY DEF TypeOK
  <2>. QED BY <2>1 DEF RequestObject, PushedRequest
<1>4. requests \in [DOMAIN requests -> PushedRequest] => requests' \in [DOMAIN requests' -> PushedRequest]
  BY <1>2, <1>3, PutType
<1>5. /\ DOMAIN requests' = DOMAIN requests \cup {uri}
      /\ \A k \in DOMAIN requests : requests'[k] = requests[k]
      /\ requests'[uri] = [client_id |-> c, quality |-> objects[j].quality, jti |-> j,
                           expires_at |-> now + ParLifetime, used |-> FALSE]
  BY <1>1, <1>2 DEF Put
<1>. QED BY <1>1, <1>4, <1>5 DEF StoredFor

LEMMA PushUnsignedStores ==
  ASSUME TypeOK, NEW c \in Client, NEW q \in Quality, NEW uri \in Uri, PushUnsigned(c, q, uri)
  PROVE  StoredFor(uri, c, q, None) /\ Profile[c] # "signing" /\ seen_jtis' = seen_jtis
<1>. USE PushedRequestsAssumption
<1>1. /\ uri \notin DOMAIN requests /\ Admitted(c, q) /\ Profile[c] # "signing"
      /\ UNCHANGED <<now, objects, seen_jtis, responses, seen_responses, decided_at, delivered>>
  BY DEF PushUnsigned
<1>2. requests' = Put(requests, uri, [client_id |-> c, quality |-> q, jti |-> None,
                                      expires_at |-> now + ParLifetime, used |-> FALSE])
  BY DEF PushUnsigned, Stored
<1>3. [client_id |-> c, quality |-> q, jti |-> None, expires_at |-> now + ParLifetime,
       used |-> FALSE] \in PushedRequest
  <2>1. now + ParLifetime \in Nat
    BY DEF TypeOK
  <2>. QED BY <2>1 DEF PushedRequest
<1>4. requests \in [DOMAIN requests -> PushedRequest] => requests' \in [DOMAIN requests' -> PushedRequest]
  BY <1>2, <1>3, PutType
<1>5. /\ DOMAIN requests' = DOMAIN requests \cup {uri}
      /\ \A k \in DOMAIN requests : requests'[k] = requests[k]
      /\ requests'[uri] = [client_id |-> c, quality |-> q, jti |-> None,
                           expires_at |-> now + ParLifetime, used |-> FALSE]
  BY <1>1, <1>2 DEF Put
<1>. QED BY <1>1, <1>4, <1>5 DEF StoredFor

LEMMA IssueFacts ==
  ASSUME TypeOK, NEW j \in Jti, NEW c \in Client, NEW q \in Quality, NEW lifetime \in 1..MaximumLifetime,
         NEW not_before \in (now - 1)..(now + Future + 1), Issue(j, c, q, lifetime, not_before)
  PROVE  /\ j \notin DOMAIN objects /\ DOMAIN objects' = DOMAIN objects \cup {j}
         /\ \A k \in DOMAIN objects : objects'[k] = objects[k]
         /\ objects' \in [DOMAIN objects' -> RequestObject]
         /\ UNCHANGED <<now, seen_jtis, requests, responses, seen_responses, decided_at, delivered>>
<1>. USE PushedRequestsAssumption
<1>1. [client_id |-> c, quality |-> q, nbf |-> not_before, exp |-> now + lifetime] \in RequestObject
  <2>1. now + lifetime \in Nat /\ not_before \in Int
    BY DEF TypeOK
  <2>. QED BY <2>1 DEF RequestObject
<1>2. /\ j \notin DOMAIN objects
      /\ objects' = Put(objects, j, [client_id |-> c, quality |-> q, nbf |-> not_before, exp |-> now + lifetime])
      /\ UNCHANGED <<now, seen_jtis, requests, responses, seen_responses, decided_at, delivered>>
  BY DEF Issue
<1>3. objects \in [DOMAIN objects -> RequestObject]
  BY DEF TypeOK
<1>4. objects' \in [DOMAIN objects' -> RequestObject]
  BY <1>1, <1>2, <1>3, PutType
<1>5. DOMAIN objects' = DOMAIN objects \cup {j} /\ \A k \in DOMAIN objects : objects'[k] = objects[k]
  BY <1>2 DEF Put
<1>. QED BY <1>2, <1>4, <1>5

LEMMA AuthorizeFacts ==
  ASSUME TypeOK, NEW c \in Client, NEW uri \in DOMAIN requests, Authorize(c, uri)
  PROVE  /\ ~requests[uri].used /\ now <= requests[uri].expires_at
         /\ DOMAIN requests' = DOMAIN requests
         /\ \A k \in DOMAIN requests :
              /\ requests'[k].client_id = requests[k].client_id
              /\ requests'[k].quality = requests[k].quality
              /\ requests'[k].jti = requests[k].jti
              /\ requests'[k].expires_at = requests[k].expires_at
              /\ requests'[k].used = (requests[k].used \/ k = uri)
         /\ requests' \in [DOMAIN requests' -> PushedRequest]
         /\ uri \notin DOMAIN decided_at /\ DOMAIN decided_at' = DOMAIN decided_at \cup {uri}
         /\ decided_at'[uri] = now /\ \A k \in DOMAIN decided_at : decided_at'[k] = decided_at[k]
         /\ decided_at' \in [DOMAIN decided_at' -> Nat]
         /\ UNCHANGED <<now, objects, seen_jtis, responses, seen_responses, delivered>>
<1>1. /\ ~requests[uri].used /\ now <= requests[uri].expires_at
      /\ requests' = [requests EXCEPT ![uri].used = TRUE]
      /\ decided_at' = Put(decided_at, uri, now)
      /\ UNCHANGED <<now, objects, seen_jtis, responses, seen_responses, delivered>>
  BY DEF Authorize, Resolvable
<1>2. /\ \A k \in DOMAIN requests : requests[k] \in PushedRequest
      /\ uri \notin DOMAIN decided_at /\ now \in Nat /\ decided_at \in [DOMAIN decided_at -> Nat]
  BY <1>1 DEF TypeOK
<1>3. /\ requests'[uri] = [requests[uri] EXCEPT !.used = TRUE]
      /\ DOMAIN requests' = DOMAIN requests
      /\ \A k \in DOMAIN requests : k # uri => requests'[k] = requests[k]
  BY <1>1
<1>4. requests'[uri] \in PushedRequest /\ requests'[uri].used
      /\ requests'[uri].client_id = requests[uri].client_id
      /\ requests'[uri].quality = requests[uri].quality
      /\ requests'[uri].jti = requests[uri].jti
      /\ requests'[uri].expires_at = requests[uri].expires_at
  BY <1>2, <1>3 DEF PushedRequest
<1>5. requests' \in [DOMAIN requests' -> PushedRequest]
  BY <1>1, <1>2, <1>3, <1>4
<1>6. \A k \in DOMAIN requests : requests[k].used \in BOOLEAN
  BY <1>2 DEF PushedRequest
<1>7. \A k \in DOMAIN requests :
              /\ requests'[k].client_id = requests[k].client_id
              /\ requests'[k].quality = requests[k].quality
              /\ requests'[k].jti = requests[k].jti
              /\ requests'[k].expires_at = requests[k].expires_at
              /\ requests'[k].used = (requests[k].used \/ k = uri)
  BY <1>3, <1>4, <1>6
<1>8. /\ DOMAIN decided_at' = DOMAIN decided_at \cup {uri}
      /\ decided_at'[uri] = now /\ \A k \in DOMAIN decided_at : decided_at'[k] = decided_at[k]
      /\ decided_at' \in [DOMAIN decided_at' -> Nat]
  <2>1. decided_at' \in [DOMAIN decided_at' -> Nat]
    BY <1>1, <1>2, PutType
  <2>. QED BY <1>1, <1>2, <2>1 DEF Put
<1>. QED BY <1>1, <1>2, <1>3, <1>5, <1>7, <1>8

LEMMA RespondFacts ==
  ASSUME TypeOK, NEW uri \in DOMAIN requests, NEW r \in Response, Respond(uri, r)
  PROVE  /\ r \notin DOMAIN responses /\ DOMAIN responses' = DOMAIN responses \cup {r}
         /\ responses' \in [DOMAIN responses' -> AuthorizationResponse]
         /\ UNCHANGED <<now, objects, seen_jtis, requests, seen_responses, decided_at, delivered>>
<1>. USE PushedRequestsAssumption
<1>1. [aud |-> requests[uri].client_id, state |-> uri, exp |-> now + JarmLifetime] \in AuthorizationResponse
  <2>1. requests[uri].client_id \in Client /\ uri \in Uri /\ now + JarmLifetime \in Nat
    BY DEF TypeOK, PushedRequest
  <2>. QED BY <2>1 DEF AuthorizationResponse
<1>2. /\ r \notin DOMAIN responses
      /\ responses' = Put(responses, r, [aud |-> requests[uri].client_id, state |-> uri, exp |-> now + JarmLifetime])
      /\ UNCHANGED <<now, objects, seen_jtis, requests, seen_responses, decided_at, delivered>>
  BY DEF Respond
<1>3. responses \in [DOMAIN responses -> AuthorizationResponse]
  BY DEF TypeOK
<1>4. responses' \in [DOMAIN responses' -> AuthorizationResponse]
  BY <1>1, <1>2, <1>3, PutType
<1>5. DOMAIN responses' = DOMAIN responses \cup {r}
  BY <1>2 DEF Put
<1>. QED BY <1>2, <1>4, <1>5

LEMMA TypeStep == TypeOK /\ [Next]_vars => TypeOK'
<1>. SUFFICES ASSUME TypeOK, [Next]_vars PROVE TypeOK'
  OBVIOUS
<1>. USE PushedRequestsAssumption
<1>1. ASSUME NEW j \in Jti, NEW c \in Client, NEW q \in Quality, NEW lifetime \in 1..MaximumLifetime,
             NEW not_before \in (now - 1)..(now + Future + 1), Issue(j, c, q, lifetime, not_before)
      PROVE  TypeOK'
  <2>1. /\ DOMAIN objects' = DOMAIN objects \cup {j}
        /\ objects' \in [DOMAIN objects' -> RequestObject]
        /\ UNCHANGED <<now, seen_jtis, requests, responses, seen_responses, decided_at, delivered>>
    BY <1>1, IssueFacts
  <2>. QED BY <2>1 DEF TypeOK
<1>2. ASSUME NEW c \in Client, NEW q \in Quality, NEW uri \in Uri, NEW jti, StoredFor(uri, c, q, jti),
             seen_jtis' \subseteq DOMAIN objects
      PROVE  TypeOK'
  <2>1. \A k \in DOMAIN requests' : requests'[k].used => k \in DOMAIN requests /\ requests[k].used
    BY <1>2 DEF StoredFor
  <2>2. \A k \in DOMAIN requests : requests'[k] = requests[k] /\ k \in DOMAIN requests'
    BY <1>2 DEF StoredFor
  <2>3. {k \in DOMAIN requests' : requests'[k].used} = {k \in DOMAIN requests : requests[k].used}
    BY <2>1, <2>2
  <2>. QED BY <1>2, <2>3 DEF StoredFor, TypeOK
<1>3. ASSUME NEW c \in Client, NEW j \in DOMAIN objects, NEW uri \in Uri, PushSigned(c, j, uri) PROVE TypeOK'
  <2>1. objects[j].quality \in Quality
    BY DEF TypeOK, RequestObject
  <2>2. seen_jtis \cup {j} \subseteq DOMAIN objects
    BY DEF TypeOK
  <2>. QED BY <1>2, <1>3, <2>1, <2>2, PushSignedStores
<1>4. ASSUME NEW c \in Client, NEW j \in DOMAIN objects, PushSignedRefused(c, j) PROVE TypeOK'
  BY <1>4 DEF PushSignedRefused, TypeOK
<1>5. ASSUME NEW c \in Client, NEW q \in Quality, NEW uri \in Uri, PushUnsigned(c, q, uri) PROVE TypeOK'
  <2>1. seen_jtis \subseteq DOMAIN objects
    BY DEF TypeOK
  <2>. QED BY <1>2, <1>5, <2>1, PushUnsignedStores
<1>6. ASSUME NEW c \in Client, NEW uri \in DOMAIN requests, Authorize(c, uri) PROVE TypeOK'
  <2>1. /\ DOMAIN requests' = DOMAIN requests
        /\ \A k \in DOMAIN requests : requests'[k].used = (requests[k].used \/ k = uri)
        /\ requests' \in [DOMAIN requests' -> PushedRequest]
        /\ DOMAIN decided_at' = DOMAIN decided_at \cup {uri}
        /\ decided_at' \in [DOMAIN decided_at' -> Nat]
        /\ UNCHANGED <<now, objects, seen_jtis, responses, seen_responses, delivered>>
    BY <1>6, AuthorizeFacts
  <2>2. DOMAIN decided_at = {k \in DOMAIN requests : requests[k].used}
    BY DEF TypeOK
  <2>3. DOMAIN decided_at' = {k \in DOMAIN requests' : requests'[k].used}
    BY <2>1, <2>2
  <2>. QED BY <2>1, <2>3 DEF TypeOK
<1>7. ASSUME NEW uri \in DOMAIN requests, NEW r \in Response, Respond(uri, r) PROVE TypeOK'
  <2>1. /\ DOMAIN responses' = DOMAIN responses \cup {r}
        /\ responses' \in [DOMAIN responses' -> AuthorizationResponse]
        /\ UNCHANGED <<now, objects, seen_jtis, requests, seen_responses, decided_at, delivered>>
    BY <1>7, RespondFacts
  <2>. QED BY <2>1 DEF TypeOK
<1>8. ASSUME NEW c \in Client, NEW r \in DOMAIN responses, NEW uri \in Uri, Validate(c, r, uri) PROVE TypeOK'
  BY <1>8 DEF Validate, TypeOK
<1>9. CASE Tick
  BY <1>9 DEF Tick, TypeOK
<1>10. CASE UNCHANGED vars
  BY <1>10 DEF vars, TypeOK
<1>. QED BY <1>1, <1>3, <1>4, <1>5, <1>6, <1>7, <1>8, <1>9, <1>10 DEF Next

\* Whatever is stored is stored for a new reference, and for an object that no
\* other reference was stored for.
LEMMA StoredStep ==
  ASSUME TypeOK, RequestsSound, FlowSound, NEW c \in Client, NEW q, NEW uri \in Uri, NEW j,
         StoredFor(uri, c, q, j), seen_jtis \subseteq seen_jtis',
         j # None => /\ j \in DOMAIN objects /\ ObjectValid(j, c) /\ j \in seen_jtis',
         j = None => Profile[c] # "signing"
  PROVE  RequestsSound' /\ FlowSound'
<1>. USE PushedRequestsAssumption
<1>1. /\ uri \notin DOMAIN requests /\ Admitted(c, q)
      /\ DOMAIN requests' = DOMAIN requests \cup {uri}
      /\ \A k \in DOMAIN requests : requests'[k] = requests[k]
      /\ requests'[uri].client_id = c /\ requests'[uri].quality = q /\ requests'[uri].jti = j
      /\ requests'[uri].expires_at = now + ParLifetime
      /\ UNCHANGED <<now, objects, responses, seen_responses, decided_at, delivered>>
  BY DEF StoredFor
<1>2. \A k \in DOMAIN requests : j # None => requests[k].jti # j
  BY DEF RequestsSound, ObjectValid
<1>3. j # None => /\ objects[j].client_id = c
                  /\ objects[j].nbf <= now + Future
                  /\ now + ParLifetime <= objects[j].exp + ParLifetime
  <2>1. j # None => objects[j] \in RequestObject
    BY DEF TypeOK
  <2>2. j # None => objects[j].exp \in Nat
    BY <2>1 DEF RequestObject
  <2>3. now \in Nat
    BY DEF TypeOK
  <2>. QED BY <2>2, <2>3 DEF ObjectValid
<1>4. RequestsSound'
  <2>1. ASSUME NEW k \in DOMAIN requests', requests'[k].jti # None
        PROVE  /\ requests'[k].jti \in seen_jtis'
               /\ objects'[requests'[k].jti].client_id = requests'[k].client_id
               /\ objects'[requests'[k].jti].nbf <= now' + Future
               /\ requests'[k].expires_at <= objects'[requests'[k].jti].exp + ParLifetime
    <3>1. CASE k = uri
      BY <1>1, <1>3, <2>1, <3>1
    <3>2. CASE k # uri
      BY <1>1, <2>1, <3>2 DEF RequestsSound
    <3>. QED BY <3>1, <3>2
  <2>2. ASSUME NEW k \in DOMAIN requests', requests'[k].jti # None,
               NEW other \in DOMAIN requests', requests'[other].jti = requests'[k].jti
        PROVE  other = k
    BY <1>1, <1>2, <2>2 DEF RequestsSound
  <2>. QED BY <2>1, <2>2 DEF RequestsSound
<1>5. DOMAIN decided_at \subseteq DOMAIN requests
  BY DEF TypeOK
<1>6. DecisionTimely'
  BY <1>1, <1>5 DEF FlowSound, DecisionTimely
<1>7. ProfileHolds'
  <2>1. Profile[c] # "none" => q = "fapi"
    BY <1>1 DEF Admitted
  <2>2. Profile[c] = "signing" => j # None /\ objects[j].client_id = c
    BY <1>3
  <2>. QED BY <1>1, <2>1, <2>2 DEF FlowSound, ProfileHolds
<1>8. ResponseSpentByDelivery'
  BY <1>1 DEF FlowSound, ResponseSpentByDelivery
<1>. QED BY <1>4, <1>6, <1>7, <1>8 DEF FlowSound

LEMMA SoundStep ==
  TypeOK /\ RequestsSound /\ FutureUndelivered /\ FlowSound /\ [Next]_vars
  => RequestsSound' /\ FutureUndelivered' /\ FlowSound'
<1>. SUFFICES ASSUME TypeOK, RequestsSound, FutureUndelivered, FlowSound, [Next]_vars
              PROVE  RequestsSound' /\ FutureUndelivered' /\ FlowSound'
  OBVIOUS
<1>. USE PushedRequestsAssumption
<1>0. /\ now \in Nat /\ DOMAIN decided_at \subseteq DOMAIN requests /\ seen_jtis \subseteq DOMAIN objects
      /\ \A k \in DOMAIN requests : requests[k].expires_at \in Nat
      /\ \A j \in DOMAIN objects : objects[j].exp \in Nat /\ objects[j].nbf \in Int
  <2>1. \A k \in DOMAIN requests : requests[k] \in PushedRequest
    BY DEF TypeOK
  <2>2. \A j \in DOMAIN objects : objects[j] \in RequestObject
    BY DEF TypeOK
  <2>. QED BY <2>1, <2>2 DEF TypeOK, PushedRequest, RequestObject
<1>1. ASSUME NEW j \in Jti, NEW c \in Client, NEW q \in Quality, NEW lifetime \in 1..MaximumLifetime,
             NEW not_before \in (now - 1)..(now + Future + 1), Issue(j, c, q, lifetime, not_before)
      PROVE  RequestsSound' /\ FutureUndelivered' /\ FlowSound'
  <2>1. /\ DOMAIN objects' = DOMAIN objects \cup {j}
        /\ \A k \in DOMAIN objects : objects'[k] = objects[k]
        /\ UNCHANGED <<now, seen_jtis, requests, responses, seen_responses, decided_at, delivered>>
    BY <1>1, IssueFacts
  <2>2. \A k \in DOMAIN requests : requests[k].jti # None => requests[k].jti \in DOMAIN objects
    BY <1>0 DEF RequestsSound
  <2>3. RequestsSound'
    BY <2>1, <2>2 DEF RequestsSound
  <2>4. DecisionTimely'
    BY <1>0, <2>1, <2>2 DEF FlowSound, DecisionTimely
  <2>5. ProfileHolds'
    BY <2>1, <2>2 DEF FlowSound, ProfileHolds
  <2>. QED BY <2>1, <2>3, <2>4, <2>5 DEF FutureUndelivered, FlowSound, ResponseSpentByDelivery
<1>2. ASSUME NEW c \in Client, NEW j \in DOMAIN objects, NEW uri \in Uri, PushSigned(c, j, uri)
      PROVE  RequestsSound' /\ FutureUndelivered' /\ FlowSound'
  <2>1. StoredFor(uri, c, objects[j].quality, j) /\ ObjectValid(j, c) /\ seen_jtis' = seen_jtis \cup {j}
    BY <1>2, PushSignedStores
  <2>2. j # None
    BY DEF TypeOK
  <2>3. RequestsSound' /\ FlowSound'
    BY <2>1, <2>2, StoredStep
  <2>4. FutureUndelivered'
    BY <2>1 DEF FutureUndelivered, StoredFor
  <2>. QED BY <2>3, <2>4
<1>3. ASSUME NEW c \in Client, NEW j \in DOMAIN objects, PushSignedRefused(c, j)
      PROVE  RequestsSound' /\ FutureUndelivered' /\ FlowSound'
  <2>1. /\ seen_jtis' = seen_jtis \cup {j}
        /\ UNCHANGED <<now, objects, requests, responses, seen_responses, decided_at, delivered>>
    BY <1>3 DEF PushSignedRefused
  <2>. QED BY <2>1 DEF RequestsSound, FutureUndelivered, FlowSound, DecisionTimely, ProfileHolds,
                       ResponseSpentByDelivery
<1>4. ASSUME NEW c \in Client, NEW q \in Quality, NEW uri \in Uri, PushUnsigned(c, q, uri)
      PROVE  RequestsSound' /\ FutureUndelivered' /\ FlowSound'
  <2>1. StoredFor(uri, c, q, None) /\ Profile[c] # "signing" /\ seen_jtis' = seen_jtis
    BY <1>4, PushUnsignedStores
  <2>2. RequestsSound' /\ FlowSound'
    BY <2>1, StoredStep
  <2>3. FutureUndelivered'
    BY <2>1 DEF FutureUndelivered, StoredFor
  <2>. QED BY <2>2, <2>3
<1>5. ASSUME NEW c \in Client, NEW uri \in DOMAIN requests, Authorize(c, uri)
      PROVE  RequestsSound' /\ FutureUndelivered' /\ FlowSound'
  <2>1. /\ now <= requests[uri].expires_at
        /\ DOMAIN requests' = DOMAIN requests
        /\ \A k \in DOMAIN requests :
             /\ requests'[k].client_id = requests[k].client_id
             /\ requests'[k].quality = requests[k].quality
             /\ requests'[k].jti = requests[k].jti
             /\ requests'[k].expires_at = requests[k].expires_at
        /\ DOMAIN decided_at' = DOMAIN decided_at \cup {uri}
        /\ decided_at'[uri] = now /\ \A k \in DOMAIN decided_at : decided_at'[k] = decided_at[k]
        /\ UNCHANGED <<now, objects, seen_jtis, responses, seen_responses, delivered>>
    BY <1>5, AuthorizeFacts
  <2>2. RequestsSound'
    BY <2>1 DEF RequestsSound
  <2>3. ASSUME NEW k \in DOMAIN decided_at', requests'[k].jti # None
        PROVE  /\ decided_at'[k] <= objects'[requests'[k].jti].exp + ParLifetime
               /\ decided_at'[k] >= objects'[requests'[k].jti].nbf - Future
    <3>1. CASE k \in DOMAIN decided_at
      BY <1>0, <2>1, <2>3, <3>1 DEF FlowSound, DecisionTimely
    <3>2. CASE k = uri
      <4>1. /\ requests[uri].jti \in DOMAIN objects
            /\ objects[requests[uri].jti].nbf <= now + Future
            /\ requests[uri].expires_at <= objects[requests[uri].jti].exp + ParLifetime
        BY <1>0, <2>1, <2>3, <3>2 DEF RequestsSound
      <4>. QED BY <1>0, <2>1, <3>2, <4>1
    <3>. QED BY <2>1, <3>1, <3>2
  <2>4. DecisionTimely'
    BY <2>3 DEF DecisionTimely
  <2>5. ProfileHolds'
    BY <2>1 DEF FlowSound, ProfileHolds
  <2>. QED BY <2>1, <2>2, <2>4, <2>5 DEF FutureUndelivered, FlowSound, ResponseSpentByDelivery
<1>6. ASSUME NEW uri \in DOMAIN requests, NEW r \in Response, Respond(uri, r)
      PROVE  RequestsSound' /\ FutureUndelivered' /\ FlowSound'
  <2>1. /\ r \notin DOMAIN responses /\ DOMAIN responses' = DOMAIN responses \cup {r}
        /\ UNCHANGED <<now, objects, seen_jtis, requests, seen_responses, decided_at, delivered>>
    BY <1>6, RespondFacts
  <2>2. r \notin seen_responses /\ delivered[r] = 0
    BY <2>1 DEF TypeOK, FutureUndelivered
  <2>3. ResponseSpentByDelivery' /\ FutureUndelivered'
    BY <2>1, <2>2 DEF FlowSound, ResponseSpentByDelivery, FutureUndelivered
  <2>. QED BY <2>1, <2>3 DEF RequestsSound, FlowSound, DecisionTimely, ProfileHolds
<1>7. ASSUME NEW c \in Client, NEW r \in DOMAIN responses, NEW uri \in Uri, Validate(c, r, uri)
      PROVE  RequestsSound' /\ FutureUndelivered' /\ FlowSound'
  <2>1. /\ r \notin seen_responses /\ seen_responses' = seen_responses \cup {r}
        /\ delivered' = [delivered EXCEPT ![r] = @ + 1]
        /\ UNCHANGED <<now, objects, seen_jtis, requests, responses, decided_at>>
    BY <1>7 DEF Validate, Acceptable
  <2>2. delivered[r] = 0
    BY <2>1 DEF FlowSound, ResponseSpentByDelivery
  <2>3. delivered'[r] = 1 /\ \A p \in Response : p # r => delivered'[p] = delivered[p]
    BY <2>1, <2>2 DEF TypeOK
  <2>4. ResponseSpentByDelivery' /\ FutureUndelivered'
    BY <2>1, <2>3 DEF TypeOK, FlowSound, ResponseSpentByDelivery, FutureUndelivered
  <2>. QED BY <2>1, <2>4 DEF RequestsSound, FlowSound, DecisionTimely, ProfileHolds
<1>8. CASE Tick
  <2>1. now' = now + 1 /\ UNCHANGED <<objects, seen_jtis, requests, responses, seen_responses, decided_at, delivered>>
    BY <1>8 DEF Tick
  <2>2. \A k \in DOMAIN requests : requests[k].jti # None => requests[k].jti \in DOMAIN objects
    BY <1>0 DEF RequestsSound
  <2>3. RequestsSound'
    BY <1>0, <2>1, <2>2 DEF RequestsSound
  <2>. QED BY <2>1, <2>3 DEF FutureUndelivered, FlowSound, DecisionTimely, ProfileHolds, ResponseSpentByDelivery
<1>9. CASE UNCHANGED vars
  BY <1>9 DEF vars, RequestsSound, FutureUndelivered, FlowSound, DecisionTimely, ProfileHolds, ResponseSpentByDelivery
<1>. QED BY <1>1, <1>2, <1>3, <1>4, <1>5, <1>6, <1>7, <1>8, <1>9 DEF Next

LEMMA InitIInv == Init => IInv
<1>. SUFFICES ASSUME Init PROVE IInv
  OBVIOUS
<1>1. /\ DOMAIN objects = {} /\ DOMAIN requests = {} /\ DOMAIN responses = {} /\ DOMAIN decided_at = {}
      /\ objects \in [DOMAIN objects -> RequestObject] /\ requests \in [DOMAIN requests -> PushedRequest]
      /\ responses \in [DOMAIN responses -> AuthorizationResponse]
      /\ decided_at \in [DOMAIN decided_at -> Nat]
  BY DEF Init
<1>2. TypeOK
  BY <1>1 DEF Init, TypeOK
<1>3. RequestsSound /\ FutureUndelivered /\ FlowSound
  BY <1>1 DEF Init, RequestsSound, FutureUndelivered, FlowSound, DecisionTimely, ProfileHolds, ResponseSpentByDelivery
<1>. QED BY <1>2, <1>3 DEF IInv

LEMMA InductiveStep == IInv /\ [Next]_vars => IInv'
  BY TypeStep, SoundStep DEF IInv

\* The stores of the front channel stay well-formed.
THEOREM TypeCorrect == Spec => []TypeOK
<1>1. IInv => TypeOK
  BY DEF IInv
<1>. QED BY <1>1, InitIInv, InductiveStep, PTL DEF Spec

\* The deadlines add up, the profile cannot be gone round, and a response is spent
\* only by its delivery.
THEOREM FlowIsSound == Spec => []FlowSound
<1>1. IInv => FlowSound
  BY DEF IInv
<1>. QED BY <1>1, InitIInv, InductiveStep, PTL DEF Spec

\* The stages implement one-time use of Request Objects: a step decides for the
\* first time on an object, or on none.
THEOREM Refinement == Spec => RequestObjectUsedOnce
<1>. DEFINE Uses == [j \in Jti |-> Cardinality(DecisionsFrom(j))]
<1>1. Init => ObjectOnce!Init
  <2>1. ASSUME Init, NEW j \in Jti PROVE Cardinality(DecisionsFrom(j)) = 0
    <3>1. DecisionsFrom(j) = {}
      BY <2>1 DEF Init, DecisionsFrom
    <3>. QED BY <3>1, FS_EmptySet
  <2>. QED BY <2>1 DEF ObjectOnce!Init
<1>2. IInv /\ [Next]_vars => [ObjectOnce!Next]_Uses
  <2>. SUFFICES ASSUME IInv, [Next]_vars PROVE ObjectOnce!Next \/ UNCHANGED Uses
    OBVIOUS
  <2>0. TypeOK /\ RequestsSound /\ DOMAIN decided_at \subseteq DOMAIN requests
    BY DEF IInv, TypeOK
  <2>1. ASSUME NEW c \in Client, NEW uri \in DOMAIN requests, Authorize(c, uri)
        PROVE  ObjectOnce!Next \/ UNCHANGED Uses
    <3>1. /\ DOMAIN requests' = DOMAIN requests
          /\ \A k \in DOMAIN requests : requests'[k].jti = requests[k].jti
          /\ uri \notin DOMAIN decided_at /\ DOMAIN decided_at' = DOMAIN decided_at \cup {uri}
      BY <2>0, <2>1, AuthorizeFacts
    <3>2. \A j \in Jti : j # requests[uri].jti => DecisionsFrom(j)' = DecisionsFrom(j)
      BY <2>0, <3>1 DEF DecisionsFrom
    <3>3. CASE requests[uri].jti = None
      BY <3>2, <3>3, PushedRequestsAssumption
    <3>4. CASE requests[uri].jti # None
      <4>1. PICK k \in Jti : k = requests[uri].jti
        BY <2>0, <3>4 DEF TypeOK, PushedRequest
      <4>2. DecisionsFrom(k) = {}
        BY <2>0, <3>1, <3>4, <4>1 DEF RequestsSound, DecisionsFrom
      <4>3. DecisionsFrom(k)' = {uri}
        BY <2>0, <3>1, <3>4, <4>1, <4>2 DEF RequestsSound, DecisionsFrom
      <4>4. Cardinality(DecisionsFrom(k)) = 0 /\ Cardinality(DecisionsFrom(k)') = 1
        BY <4>2, <4>3, FS_EmptySet, FS_Singleton
      <4>5. \A i \in Jti : i # k => DecisionsFrom(i)' = DecisionsFrom(i)
        BY <3>2, <4>1
      <4>6. Uses[k] = 0 /\ Uses' = [Uses EXCEPT ![k] = 1]
        BY <4>4, <4>5
      <4>. QED BY <4>6 DEF ObjectOnce!Next, ObjectOnce!Accept
    <3>. QED BY <3>3, <3>4
  <2>2. ASSUME decided_at' = decided_at, \A k \in DOMAIN requests : requests'[k].jti = requests[k].jti
        PROVE  UNCHANGED Uses
    <3>1. \A j \in Jti : DecisionsFrom(j)' = DecisionsFrom(j)
      BY <2>0, <2>2 DEF DecisionsFrom
    <3>. QED BY <3>1
  <2>3. ASSUME NEW c \in Client, NEW j \in DOMAIN objects, NEW uri \in Uri, PushSigned(c, j, uri)
        PROVE  UNCHANGED Uses
    BY <2>0, <2>2, <2>3, PushSignedStores DEF StoredFor
  <2>4. ASSUME NEW c \in Client, NEW q \in Quality, NEW uri \in Uri, PushUnsigned(c, q, uri)
        PROVE  UNCHANGED Uses
    BY <2>0, <2>2, <2>4, PushUnsignedStores DEF StoredFor
  <2>5. ASSUME NEW j \in Jti, NEW c \in Client, NEW q \in Quality, NEW lifetime \in 1..MaximumLifetime,
               NEW not_before \in (now - 1)..(now + Future + 1), Issue(j, c, q, lifetime, not_before)
        PROVE  UNCHANGED Uses
    BY <2>2, <2>5 DEF Issue
  <2>6. ASSUME NEW c \in Client, NEW j \in DOMAIN objects, PushSignedRefused(c, j) PROVE UNCHANGED Uses
    BY <2>2, <2>6 DEF PushSignedRefused
  <2>7. ASSUME NEW uri \in DOMAIN requests, NEW r \in Response, Respond(uri, r) PROVE UNCHANGED Uses
    BY <2>2, <2>7 DEF Respond
  <2>8. ASSUME NEW c \in Client, NEW r \in DOMAIN responses, NEW uri \in Uri, Validate(c, r, uri)
        PROVE  UNCHANGED Uses
    BY <2>2, <2>8 DEF Validate
  <2>9. Tick \/ UNCHANGED vars => UNCHANGED Uses
    BY <2>2 DEF Tick, vars
  <2>. QED BY <2>1, <2>3, <2>4, <2>5, <2>6, <2>7, <2>8, <2>9 DEF Next
<1>. QED BY <1>1, <1>2, InitIInv, InductiveStep, PTL DEF Spec, RequestObjectUsedOnce, ObjectOnce!Spec
============================================================================
