--------------------- MODULE AuthorizationServerProofs ---------------------
(***************************************************************************)
(* Theorems about the authorization server, for every set of clients, any  *)
(* registration, any number of grants and any lifetimes.                   *)
(***************************************************************************)
EXTENDS AuthorizationServer, TLAPS

----------------------------------------------------------------------------
(* Dictionaries.                                                           *)

\* d[k] = r keeps a dictionary well-formed.
LEMMA PutTyped ==
  ASSUME NEW Key, NEW Rec, NEW dict, Dict(dict, Key, Rec), NEW key \in Key, NEW rec \in Rec
  PROVE  Dict(Put(dict, key, rec), Key, Rec)
  BY DEF Put, Dict

\* The three revocation loops keep keys and types, and only set a flag.
LEMMA RevokeAccessTyped ==
  ASSUME Dict(access_tokens, AccessId, AccessRec), NEW c, NEW s
  PROVE  Dict(RevokeAccess(c, s), AccessId, AccessRec)
<1>1. \A r \in AccessRec : [r EXCEPT !.revoked = TRUE] \in AccessRec
  BY DEF AccessRec
<1>. QED BY <1>1 DEF RevokeAccess, Dict

LEMMA RevokeFamilyTyped ==
  ASSUME Dict(refresh_tokens, RefreshId, RefreshRec), NEW f
  PROVE  Dict(RevokeFamily(f), RefreshId, RefreshRec)
<1>1. \A r \in RefreshRec : [r EXCEPT !.revoked = TRUE] \in RefreshRec
  BY DEF RefreshRec
<1>. QED BY <1>1 DEF RevokeFamily, Dict

LEMMA RevokeRefreshOfTyped ==
  ASSUME Dict(refresh_tokens, RefreshId, RefreshRec), NEW c, NEW s
  PROVE  Dict(RevokeRefreshOf(c, s), RefreshId, RefreshRec)
<1>1. \A r \in RefreshRec : [r EXCEPT !.revoked = TRUE] \in RefreshRec
  BY DEF RefreshRec
<1>. QED BY <1>1 DEF RevokeRefreshOf, Dict

\* _issue_token_set builds well-formed records.
LEMMA NewAccessTyped ==
  ASSUME TypeOK, NEW c \in Client, NEW s \in Optional(Subject), NEW scope \in SUBSET Scope,
         NEW aud \in Resource, NEW jkt \in Optional(Jkt), NEW x5t \in Optional(X5t),
         NEW f \in Optional(Family), NEW g \in Optional(Grant)
  PROVE  NewAccess(c, s, scope, aud, jkt, x5t, f, g) \in AccessRec
<1>1. now + AccessLifetime \in Nat
  BY ASAssumption DEF TypeOK
<1>. QED BY <1>1 DEF NewAccess, AccessRec

LEMMA NewRefreshTyped ==
  ASSUME TypeOK, NEW c \in Client, NEW s \in Subject, NEW scope \in SUBSET Scope,
         NEW jkt \in Optional(Jkt), NEW x5t \in Optional(X5t), NEW f \in Family, NEW g \in Grant
  PROVE  NewRefresh(c, s, scope, jkt, x5t, f, g) \in RefreshRec
<1>1. now + RefreshLifetime \in Nat
  BY ASAssumption DEF TypeOK
<1>. QED BY <1>1 DEF NewRefresh, RefreshRec, Optional

----------------------------------------------------------------------------
(* Type correctness.                                                       *)

\* The access and refresh tokens of one response.
LEMMA IssueTyped ==
  ASSUME TypeOK, NEW c \in Client, NEW s \in Subject, NEW scope \in SUBSET Scope,
         NEW aud \in Resource, NEW jkt \in Optional(Jkt), NEW x5t \in Optional(X5t),
         NEW f \in Family, NEW g \in Grant, NEW a \in AccessId, NEW t \in RefreshId,
         NEW rt, Dict(rt, RefreshId, RefreshRec)
  PROVE  /\ Dict(Put(access_tokens, a, NewAccess(c, s, scope, aud, jkt, x5t, f, g)), AccessId, AccessRec)
         /\ Dict(Put(rt, t, NewRefresh(c, s, scope, jkt, x5t, f, g)), RefreshId, RefreshRec)
<1>1. s \in Optional(Subject) /\ f \in Optional(Family) /\ g \in Optional(Grant)
  BY DEF Optional
<1>2. NewAccess(c, s, scope, aud, jkt, x5t, f, g) \in AccessRec
  BY <1>1, NewAccessTyped
<1>3. NewRefresh(c, s, scope, jkt, x5t, f, g) \in RefreshRec
  BY NewRefreshTyped
<1>4. Dict(access_tokens, AccessId, AccessRec)
  BY DEF TypeOK
<1>. QED BY <1>2, <1>3, <1>4, PutTyped

LEMMA TypeStep == TypeOK /\ [Next]_vars => TypeOK'
<1>. SUFFICES ASSUME TypeOK, [Next]_vars PROVE TypeOK'
  OBVIOUS
<1>. USE ASAssumption
<1>a. /\ now \in Nat
      /\ Dict(codes, Code, CodeRec) /\ Dict(devices, Device, DeviceRec)
      /\ \A d \in DOMAIN devices : devices[d].approved => devices[d].subject \in Subject
      /\ Dict(refresh_tokens, RefreshId, RefreshRec) /\ Dict(access_tokens, AccessId, AccessRec)
      /\ replayed \subseteq Code /\ compromised \subseteq Family
  BY DEF TypeOK
<1>b. ASSUME NEW c \in Client, NEW x5t \in Optional(X5t) PROVE BoundCertificate(c, x5t) \in Optional(X5t)
  BY DEF BoundCertificate, Optional
<1>1. ASSUME NEW c \in Client, NEW s \in Subject, NEW scope \in SUBSET Scope, NEW uri \in Uri,
             NEW challenge \in Optional(Challenge), NEW resource \in Optional(Resource),
             NEW jkt \in Optional(Jkt), NEW code \in Code,
             Authorize(c, s, scope, uri, challenge, resource, jkt, code)
      PROVE  TypeOK'
  <2>1. now + CodeLifetime \in Nat
    BY <1>a
  <2>2. [client_id |-> c, subject |-> s, redirect_uri |-> uri, scope |-> scope,
         expires_at |-> now + CodeLifetime, code_challenge |-> challenge,
         resource |-> resource, dpop_jkt |-> jkt, used |-> FALSE] \in CodeRec
    BY <2>1 DEF CodeRec
  <2>3. Dict(codes', Code, CodeRec)
    BY <1>1, <1>a, <2>2, PutTyped DEF Authorize
  <2>. QED BY <1>1, <2>3 DEF Authorize, TypeOK
<1>2. ASSUME NEW c \in Client, NEW k \in Code, NEW uri, NEW verifier, NEW jkt \in Optional(Jkt),
             NEW x5t \in Optional(X5t), NEW a \in FreshAccessIds, NEW t \in FreshRefreshIds,
             NEW f \in FreshFamilies, RedeemCode(c, k, uri, verifier, jkt, x5t, a, t, f)
      PROVE  TypeOK'
  <2>0. k \in DOMAIN codes /\ codes[k] \in CodeRec
    BY <1>2, <1>a DEF RedeemCode, Dict
  <2>1. Dict(codes', Code, CodeRec)
    <3>1. [codes[k] EXCEPT !.used = TRUE] \in CodeRec
      BY <2>0 DEF CodeRec
    <3>2. codes' = [codes EXCEPT ![k] = [codes[k] EXCEPT !.used = TRUE]]
      BY <1>2 DEF RedeemCode
    <3>. QED BY <1>a, <3>1, <3>2 DEF Dict
  <2>2. codes[k].subject \in Subject /\ codes[k].scope \in SUBSET Scope /\ k \in Grant
    BY <2>0 DEF CodeRec, Grant
  <2>3. Or(codes[k].resource, DefaultResource) \in Resource
    BY <2>0 DEF CodeRec, Or, Optional
  <2>4. a \in AccessId /\ t \in RefreshId /\ f \in Family
    BY DEF FreshAccessIds, FreshRefreshIds, FreshFamilies
  <2>5. Dict(access_tokens', AccessId, AccessRec) /\ Dict(refresh_tokens', RefreshId, RefreshRec)
    BY <1>2, <1>a, <1>b, <2>2, <2>3, <2>4, IssueTyped DEF RedeemCode
  <2>. QED BY <1>2, <2>1, <2>5 DEF RedeemCode, TypeOK
<1>3. ASSUME NEW c \in Client, NEW k \in Code, NEW jkt, ReplayCode(c, k, jkt)
      PROVE  TypeOK'
  BY <1>3, <1>a, RevokeAccessTyped, RevokeRefreshOfTyped DEF ReplayCode, TypeOK
<1>4. ASSUME NEW c \in Client, NEW t \in RefreshId, NEW requested \in SUBSET Scope,
             NEW jkt \in Optional(Jkt), NEW x5t \in Optional(X5t), NEW a \in FreshAccessIds,
             TokenRequest(c, "refresh_token", jkt), t \in DOMAIN refresh_tokens
      PROVE  /\ refresh_tokens[t] \in RefreshRec
             /\ refresh_tokens[t].subject \in Subject
             /\ NarrowedScope(refresh_tokens[t], requested) \in SUBSET Scope
             /\ Or(refresh_tokens[t].cnf_jkt, jkt) \in Optional(Jkt)
             /\ Or(refresh_tokens[t].cnf_x5t, BoundCertificate(c, x5t)) \in Optional(X5t)
             /\ refresh_tokens[t].family_id \in Family /\ refresh_tokens[t].grant \in Grant
  <2>1. refresh_tokens[t] \in RefreshRec
    BY <1>4, <1>a DEF Dict
  <2>. QED BY <2>1, <1>b DEF RefreshRec, NarrowedScope, Or, Optional
<1>5. ASSUME NEW c \in Client, NEW t \in RefreshId, NEW requested \in SUBSET Scope,
             NEW jkt \in Optional(Jkt), NEW x5t \in Optional(X5t), NEW a \in FreshAccessIds,
             NEW next \in FreshRefreshIds, Rotate(c, t, requested, jkt, x5t, a, next)
      PROVE  TypeOK'
  <2>. DEFINE token == refresh_tokens[t]
              spent == [token EXCEPT !.used = TRUE, !.rotated_to = next]
              rt == [refresh_tokens EXCEPT ![t] = spent]
  <2>0. t \in DOMAIN refresh_tokens /\ TokenRequest(c, "refresh_token", jkt)
    BY <1>5 DEF Rotate
  <2>1. a \in AccessId /\ next \in RefreshId
    BY DEF FreshAccessIds, FreshRefreshIds
  <2>2. spent \in RefreshRec
    <3>1. token \in RefreshRec /\ next \in Optional(RefreshId)
      BY <1>4, <2>0, <2>1 DEF Optional
    <3>. QED BY <3>1 DEF RefreshRec
  <2>3. Dict(rt, RefreshId, RefreshRec)
    BY <1>a, <2>2 DEF Dict
  <2>4. refresh_tokens' = Put(rt, next,
              NewRefresh(c, token.subject, NarrowedScope(token, requested), Or(token.cnf_jkt, jkt),
                         Or(token.cnf_x5t, BoundCertificate(c, x5t)), token.family_id, token.grant))
    BY <1>5 DEF Rotate
  <2>5. Dict(access_tokens', AccessId, AccessRec) /\ Dict(refresh_tokens', RefreshId, RefreshRec)
    <3>. HIDE DEF rt, spent
    <3>. QED BY <1>4, <1>5, <2>0, <2>1, <2>3, <2>4, IssueTyped DEF Rotate, RefreshedAccess
  <2>. QED BY <1>5, <2>5 DEF Rotate, TypeOK
<1>6. ASSUME NEW c \in Client, NEW t \in RefreshId, NEW requested \in SUBSET Scope,
             NEW jkt \in Optional(Jkt), NEW x5t \in Optional(X5t), NEW a \in FreshAccessIds,
             RefreshInPlace(c, t, requested, jkt, x5t, a)
      PROVE  TypeOK'
  <2>0. t \in DOMAIN refresh_tokens /\ TokenRequest(c, "refresh_token", jkt)
    BY <1>6 DEF RefreshInPlace
  <2>1. a \in AccessId
    BY DEF FreshAccessIds
  <2>2. Dict(access_tokens', AccessId, AccessRec)
    BY <1>4, <1>6, <1>a, <2>0, <2>1, IssueTyped DEF RefreshInPlace, RefreshedAccess
  <2>. QED BY <1>6, <2>2 DEF RefreshInPlace, TypeOK
<1>7. ASSUME NEW c \in Client, NEW t \in RefreshId, NEW jkt, ReuseRefresh(c, t, jkt)
      PROVE  TypeOK'
  <2>1. refresh_tokens[t].family_id \in Family
    <3>1. refresh_tokens[t] \in RefreshRec
      BY <1>7, <1>a DEF ReuseRefresh, Dict
    <3>. QED BY <3>1 DEF RefreshRec
  <2>. QED BY <1>7, <1>a, <2>1, RevokeAccessTyped, RevokeFamilyTyped DEF ReuseRefresh, TypeOK
<1>8. ASSUME NEW c \in Client, NEW requested \in SUBSET Scope, NEW jkt \in Optional(Jkt),
             NEW x5t \in Optional(X5t), NEW a \in FreshAccessIds,
             ClientCredentials(c, requested, jkt, x5t, a)
      PROVE  TypeOK'
  <2>1. Config[c].scopes \in SUBSET Scope
    <3>1. Config[c] \in ClientRec
      OBVIOUS
    <3>. QED BY <3>1 DEF ClientRec
  <2>2. a \in AccessId /\ None \in Optional(Subject) /\ None \in Optional(Family) /\ None \in Optional(Grant)
    BY DEF FreshAccessIds, Optional
  <2>. DEFINE scope == IF requested # {} THEN requested ELSE Config[c].scopes
  <2>3. scope \in SUBSET Scope
    BY <2>1
  <2>. DEFINE rec == NewAccess(c, None, scope, DefaultResource, jkt, BoundCertificate(c, x5t), None, None)
  <2>4. rec \in AccessRec
    <3>. HIDE DEF scope
    <3>. QED BY <1>b, <2>2, <2>3, NewAccessTyped
  <2>5. access_tokens' = Put(access_tokens, a, rec)
    BY <1>8 DEF ClientCredentials
  <2>6. Dict(access_tokens', AccessId, AccessRec)
    <3>. HIDE DEF rec
    <3>. QED BY <1>a, <2>2, <2>4, <2>5, PutTyped
  <2>. QED BY <1>8, <2>6 DEF ClientCredentials, TypeOK
<1>9. ASSUME NEW c \in Client, NEW scope \in SUBSET Scope, NEW d \in Device,
             DeviceAuthorization(c, scope, d)
      PROVE  TypeOK'
  <2>1. now + DeviceLifetime \in Nat
    BY <1>a
  <2>2. [client_id |-> c, scope |-> scope, expires_at |-> now + DeviceLifetime, approved |-> FALSE,
         denied |-> FALSE, subject |-> None, last_polled_at |-> 0] \in DeviceRec
    BY <2>1 DEF DeviceRec, Optional
  <2>3. Dict(devices', Device, DeviceRec)
    BY <1>9, <1>a, <2>2, PutTyped DEF DeviceAuthorization
  <2>4. \A e \in DOMAIN devices' : devices'[e].approved => devices'[e].subject \in Subject
    BY <1>9, <1>a DEF DeviceAuthorization, Put
  <2>. QED BY <1>9, <2>3, <2>4 DEF DeviceAuthorization, TypeOK
<1>10. ASSUME NEW d \in Device, d \in DOMAIN devices, NEW rec \in DeviceRec,
              rec.approved => rec.subject \in Subject,
              devices' = [devices EXCEPT ![d] = rec],
              UNCHANGED <<now, codes, refresh_tokens, access_tokens, replayed, compromised>>
       PROVE  TypeOK'
  <2>1. Dict(devices', Device, DeviceRec)
    BY <1>10, <1>a DEF Dict
  <2>2. \A e \in DOMAIN devices' : devices'[e].approved => devices'[e].subject \in Subject
    BY <1>10, <1>a
  <2>. QED BY <1>10, <2>1, <2>2 DEF TypeOK
<1>11. ASSUME NEW d \in Device, NEW s \in Subject, ApproveDevice(d, s) PROVE TypeOK'
  <2>1. devices[d] \in DeviceRec
    BY <1>11, <1>a DEF ApproveDevice, Dict
  <2>. DEFINE rec == [devices[d] EXCEPT !.approved = TRUE, !.subject = s]
  <2>2. rec \in DeviceRec
    BY <2>1 DEF DeviceRec, Optional
  <2>3. rec.approved => rec.subject \in Subject
    BY <1>11, <1>a, <2>1 DEF ApproveDevice, DeviceRec
  <2>4. d \in DOMAIN devices /\ devices' = [devices EXCEPT ![d] = rec]
    BY <1>11 DEF ApproveDevice
  <2>5. UNCHANGED <<now, codes, refresh_tokens, access_tokens, replayed, compromised>>
    BY <1>11 DEF ApproveDevice
  <2>. HIDE DEF rec
  <2>. QED BY <1>10, <2>2, <2>3, <2>4, <2>5
<1>12. ASSUME NEW d \in Device, DenyDevice(d) PROVE TypeOK'
  <2>1. devices[d] \in DeviceRec
    BY <1>12, <1>a DEF DenyDevice, Dict
  <2>. DEFINE rec == [devices[d] EXCEPT !.denied = TRUE]
  <2>2. rec \in DeviceRec
    BY <2>1 DEF DeviceRec
  <2>3. rec.approved => rec.subject \in Subject
    BY <1>12, <1>a, <2>1 DEF DenyDevice, DeviceRec
  <2>4. d \in DOMAIN devices /\ devices' = [devices EXCEPT ![d] = rec]
    BY <1>12 DEF DenyDevice
  <2>5. UNCHANGED <<now, codes, refresh_tokens, access_tokens, replayed, compromised>>
    BY <1>12 DEF DenyDevice
  <2>. HIDE DEF rec
  <2>. QED BY <1>10, <2>2, <2>3, <2>4, <2>5
<1>13. ASSUME NEW c \in Client, NEW d \in Device, NEW jkt, PollDevice(c, d, jkt) PROVE TypeOK'
  <2>1. devices[d] \in DeviceRec /\ d \in DOMAIN devices
    BY <1>13, <1>a DEF PollDevice, DevicePolled, Dict
  <2>. DEFINE rec == [devices[d] EXCEPT !.last_polled_at = now]
  <2>2. rec \in DeviceRec
    BY <1>a, <2>1 DEF DeviceRec
  <2>3. rec.approved => rec.subject \in Subject
    BY <1>13, <1>a, <2>1 DEF PollDevice, DeviceRec
  <2>4. d \in DOMAIN devices /\ devices' = [devices EXCEPT ![d] = rec]
    BY <1>13 DEF PollDevice, DevicePolled
  <2>5. UNCHANGED <<now, codes, refresh_tokens, access_tokens, replayed, compromised>>
    BY <1>13 DEF PollDevice
  <2>. HIDE DEF rec
  <2>. QED BY <1>10, <2>2, <2>3, <2>4, <2>5
<1>14. ASSUME NEW c \in Client, NEW d \in Device, NEW jkt \in Optional(Jkt),
              NEW x5t \in Optional(X5t), NEW a \in FreshAccessIds, NEW t \in FreshRefreshIds,
              NEW f \in FreshFamilies, RedeemDevice(c, d, jkt, x5t, a, t, f)
       PROVE  TypeOK'
  <2>0. d \in DOMAIN devices /\ devices[d].approved
    BY <1>14 DEF RedeemDevice, DevicePolled
  <2>1. devices[d] \in DeviceRec
    BY <1>a, <2>0 DEF Dict
  <2>2. devices[d].scope \in SUBSET Scope /\ devices[d].subject \in Subject /\ d \in Grant
    BY <1>a, <2>0, <2>1 DEF DeviceRec, Grant
  <2>3. a \in AccessId /\ t \in RefreshId /\ f \in Family
    BY DEF FreshAccessIds, FreshRefreshIds, FreshFamilies
  <2>4. Dict(access_tokens', AccessId, AccessRec) /\ Dict(refresh_tokens', RefreshId, RefreshRec)
    BY <1>14, <1>a, <1>b, <2>2, <2>3, IssueTyped DEF RedeemDevice
  <2>5. devices' = [e \in DOMAIN devices \ {d} |-> devices[e]]
    BY <1>14 DEF RedeemDevice
  <2>6. Dict(devices', Device, DeviceRec)
    BY <1>a, <2>5 DEF Dict
  <2>7. \A e \in DOMAIN devices' : devices'[e].approved => devices'[e].subject \in Subject
    BY <1>a, <2>5
  <2>. QED BY <1>14, <2>4, <2>6, <2>7 DEF RedeemDevice, TypeOK
<1>15. ASSUME NEW c \in Client, NEW a \in AccessId, RevokeAccessToken(c, a) PROVE TypeOK'
  <2>1. access_tokens[a] \in AccessRec
    BY <1>15, <1>a DEF RevokeAccessToken, Dict
  <2>2. [access_tokens[a] EXCEPT !.revoked = TRUE] \in AccessRec
    BY <2>1 DEF AccessRec
  <2>3. access_tokens' = [access_tokens EXCEPT ![a] = [access_tokens[a] EXCEPT !.revoked = TRUE]]
    BY <1>15 DEF RevokeAccessToken
  <2>4. Dict(access_tokens', AccessId, AccessRec)
    BY <1>a, <2>2, <2>3 DEF Dict
  <2>. QED BY <1>15, <2>4 DEF RevokeAccessToken, TypeOK
<1>16. ASSUME NEW c \in Client, NEW t \in RefreshId, RevokeRefreshToken(c, t) PROVE TypeOK'
  BY <1>16, <1>a, RevokeFamilyTyped DEF RevokeRefreshToken, TypeOK
<1>17. CASE Tick
  BY <1>17 DEF Tick, TypeOK
<1>18. CASE UNCHANGED vars
  BY <1>18 DEF vars, TypeOK
<1>. QED
  BY <1>1, <1>2, <1>3, <1>5, <1>6, <1>7, <1>8, <1>9, <1>11, <1>12, <1>13, <1>14, <1>15, <1>16, <1>17, <1>18
  DEF Next, AuthorizeSome, CodeGrant, RefreshGrant, ClientGrant, DeviceGrant, Revocation

\* Every record of the Store stays well-formed.
THEOREM TypeCorrect == Spec => []TypeOK
<1>1. Init => TypeOK
  BY ASAssumption DEF Init, Empty, TypeOK, Dict
<1>. QED BY <1>1, TypeStep, PTL DEF Spec

----------------------------------------------------------------------------
(* The shape of a step: what the fifteen actions can do to the Store, said *)
(* without naming an action.                                               *)

SameGrant(r, q) == q.client_id = r.client_id /\ q.subject = r.subject /\ q.grant = r.grant

KeptRefresh(r, q) ==
  /\ SameGrant(r, q) /\ q.family_id = r.family_id /\ q.scope = r.scope
  /\ r.revoked => q.revoked
  /\ r.used => q.used

KeptAccess(r, q) ==
  /\ SameGrant(r, q) /\ q.family = r.family /\ q.scope = r.scope
  /\ r.revoked => q.revoked

KeptCode(r, q) ==
  /\ q.client_id = r.client_id /\ q.subject = r.subject /\ q.scope = r.scope
  /\ r.used => q.used

\* Records are never lost, never change hands, and never come back to life.
Persists ==
  /\ \A t \in DOMAIN refresh_tokens : t \in DOMAIN refresh_tokens' /\ KeptRefresh(refresh_tokens[t], refresh_tokens'[t])
  /\ \A a \in DOMAIN access_tokens : a \in DOMAIN access_tokens' /\ KeptAccess(access_tokens[a], access_tokens'[a])
  /\ \A k \in DOMAIN codes : k \in DOMAIN codes' /\ KeptCode(codes[k], codes'[k])

\* A step that mints nothing but tokens for a client itself.
MintsNothing ==
  /\ DOMAIN refresh_tokens' = DOMAIN refresh_tokens
  /\ \A a \in DOMAIN access_tokens' \ DOMAIN access_tokens :
       access_tokens'[a].family = None /\ access_tokens'[a].grant = None

\* The first token set of grant g opens the family f.
MintsFirst(g, f, t, a) ==
  /\ t \notin DOMAIN refresh_tokens /\ DOMAIN refresh_tokens' = DOMAIN refresh_tokens \cup {t}
  /\ a \notin DOMAIN access_tokens /\ DOMAIN access_tokens' = DOMAIN access_tokens \cup {a}
  /\ \A u \in DOMAIN refresh_tokens : refresh_tokens[u].family_id # f
  /\ f \in Family /\ refresh_tokens'[t].family_id = f /\ refresh_tokens'[t].grant = g
  /\ access_tokens'[a].family = f /\ SameGrant(access_tokens'[a], refresh_tokens'[t])

SpendsCode(k, t, a) ==
  /\ k \in DOMAIN codes /\ ~codes[k].used /\ codes'[k].used
  /\ refresh_tokens'[t].client_id = codes[k].client_id
  /\ refresh_tokens'[t].subject = codes[k].subject
  /\ refresh_tokens'[t].scope = codes[k].scope /\ access_tokens'[a].scope = codes[k].scope

SpendsDevice(d) == d \in DOMAIN devices /\ d \notin DOMAIN devices'

\* A refresh: an access token, and with rotation (N is a singleton) a successor.
MintsFrom(t, N, a) ==
  /\ t \in DOMAIN refresh_tokens /\ ~refresh_tokens[t].used /\ ~refresh_tokens[t].revoked
  /\ DOMAIN refresh_tokens' = DOMAIN refresh_tokens \cup N /\ N \cap DOMAIN refresh_tokens = {}
  /\ \A m, n \in N : m = n
  /\ N # {} => refresh_tokens'[t].used
  /\ \A n \in N : /\ SameGrant(refresh_tokens[t], refresh_tokens'[n])
                   /\ refresh_tokens'[n].family_id = refresh_tokens[t].family_id
                   /\ refresh_tokens'[n].scope \subseteq refresh_tokens[t].scope
  /\ a \notin DOMAIN access_tokens /\ DOMAIN access_tokens' = DOMAIN access_tokens \cup {a}
  /\ SameGrant(refresh_tokens[t], access_tokens'[a])
  /\ access_tokens'[a].family = refresh_tokens[t].family_id
  /\ access_tokens'[a].scope \subseteq refresh_tokens[t].scope

Mints ==
  \/ MintsNothing
  \/ \E k \in Code, f \in Family, t \in RefreshId, a \in AccessId : MintsFirst(k, f, t, a) /\ SpendsCode(k, t, a)
  \/ \E d \in Device, f \in Family, t \in RefreshId, a \in AccessId : MintsFirst(d, f, t, a) /\ SpendsDevice(d)
  \/ \E t \in RefreshId, N \in SUBSET RefreshId, a \in AccessId : MintsFrom(t, N, a)

\* A device code enters the Store under a value that no grant has used.
DevicesFresh ==
  \A d \in DOMAIN devices' : d \in DOMAIN devices \/ \A t \in DOMAIN refresh_tokens : refresh_tokens[t].grant # d

CodesRegistered ==
  \A k \in DOMAIN codes' \ DOMAIN codes : MayRequest(codes'[k].client_id, codes'[k].scope)

\* What reaches the two history variables.
DetectsReplay(k) ==
  /\ MintsNothing /\ k \in DOMAIN codes /\ codes[k].used
  /\ replayed' = replayed \cup {k} /\ compromised' = compromised
  /\ \A t \in DOMAIN refresh_tokens :
       refresh_tokens[t].client_id = codes[k].client_id /\ refresh_tokens[t].subject = codes[k].subject
         => refresh_tokens'[t].revoked
  /\ \A a \in DOMAIN access_tokens :
       access_tokens[a].client_id = codes[k].client_id /\ access_tokens[a].subject = codes[k].subject
         => access_tokens'[a].revoked

DetectsReuse(t) ==
  /\ MintsNothing /\ t \in DOMAIN refresh_tokens
  /\ compromised' = compromised \cup {refresh_tokens[t].family_id} /\ replayed' = replayed
  /\ \A u \in DOMAIN refresh_tokens :
       refresh_tokens[u].family_id = refresh_tokens[t].family_id => refresh_tokens'[u].revoked
  /\ \A a \in DOMAIN access_tokens :
       access_tokens[a].client_id = refresh_tokens[t].client_id /\ access_tokens[a].subject = refresh_tokens[t].subject
         => access_tokens'[a].revoked

Detects ==
  \/ UNCHANGED <<replayed, compromised>>
  \/ \E k \in Code : DetectsReplay(k)
  \/ \E t \in RefreshId : DetectsReuse(t)

Shape == Persists /\ Mints /\ DevicesFresh /\ CodesRegistered /\ Detects

\* Setting a flag of a record keeps the rest of it.
LEMMA FlagsKept ==
  /\ \A r \in RefreshRec : KeptRefresh(r, r) /\ KeptRefresh(r, [r EXCEPT !.revoked = TRUE]) /\ [r EXCEPT !.revoked = TRUE].revoked
  /\ \A r \in RefreshRec, n \in RefreshId : KeptRefresh(r, [r EXCEPT !.used = TRUE, !.rotated_to = n]) /\ [r EXCEPT !.used = TRUE, !.rotated_to = n].used
  /\ \A r \in AccessRec : KeptAccess(r, r) /\ KeptAccess(r, [r EXCEPT !.revoked = TRUE]) /\ [r EXCEPT !.revoked = TRUE].revoked
  /\ \A r \in CodeRec : KeptCode(r, r) /\ KeptCode(r, [r EXCEPT !.used = TRUE]) /\ [r EXCEPT !.used = TRUE].used
<1>1. \A r \in RefreshRec : KeptRefresh(r, r) /\ KeptRefresh(r, [r EXCEPT !.revoked = TRUE]) /\ [r EXCEPT !.revoked = TRUE].revoked
  BY DEF RefreshRec, KeptRefresh, SameGrant
<1>2. \A r \in RefreshRec, n \in RefreshId : KeptRefresh(r, [r EXCEPT !.used = TRUE, !.rotated_to = n]) /\ [r EXCEPT !.used = TRUE, !.rotated_to = n].used
  BY DEF RefreshRec, KeptRefresh, SameGrant
<1>3. \A r \in AccessRec : KeptAccess(r, r) /\ KeptAccess(r, [r EXCEPT !.revoked = TRUE]) /\ [r EXCEPT !.revoked = TRUE].revoked
  BY DEF AccessRec, KeptAccess, SameGrant
<1>4. \A r \in CodeRec : KeptCode(r, r) /\ KeptCode(r, [r EXCEPT !.used = TRUE]) /\ [r EXCEPT !.used = TRUE].used
  BY DEF CodeRec, KeptCode
<1>. QED BY <1>1, <1>2, <1>3, <1>4

LEMMA StepShape == TypeOK /\ [Next]_vars => Shape
<1>. SUFFICES ASSUME TypeOK, [Next]_vars PROVE Shape
  OBVIOUS
<1>. DEFINE R == \A t \in DOMAIN refresh_tokens :
                   t \in DOMAIN refresh_tokens' /\ KeptRefresh(refresh_tokens[t], refresh_tokens'[t])
            A == \A a \in DOMAIN access_tokens :
                   a \in DOMAIN access_tokens' /\ KeptAccess(access_tokens[a], access_tokens'[a])
            C == \A k \in DOMAIN codes : k \in DOMAIN codes' /\ KeptCode(codes[k], codes'[k])
<1>a. /\ \A k \in DOMAIN codes : k \in Code /\ codes[k] \in CodeRec
      /\ \A t \in DOMAIN refresh_tokens : t \in RefreshId /\ refresh_tokens[t] \in RefreshRec
      /\ \A a \in DOMAIN access_tokens : a \in AccessId /\ access_tokens[a] \in AccessRec
  BY DEF TypeOK, Dict
<1>r. refresh_tokens' = refresh_tokens => R
  BY <1>a, FlagsKept
<1>t. access_tokens' = access_tokens => A
  BY <1>a, FlagsKept
<1>c. codes' = codes => C
  BY <1>a, FlagsKept
<1>p. ASSUME NEW a, a \notin DOMAIN access_tokens, NEW rec, access_tokens' = Put(access_tokens, a, rec)
      PROVE  A /\ DOMAIN access_tokens' = DOMAIN access_tokens \cup {a} /\ access_tokens'[a] = rec
  BY <1>a, <1>p, FlagsKept DEF Put
<1>q. ASSUME NEW t, t \notin DOMAIN refresh_tokens, NEW rec, refresh_tokens' = Put(refresh_tokens, t, rec)
      PROVE  R /\ DOMAIN refresh_tokens' = DOMAIN refresh_tokens \cup {t} /\ refresh_tokens'[t] = rec
  BY <1>a, <1>q, FlagsKept DEF Put
<1>u. ASSUME NEW c, NEW s, access_tokens' = RevokeAccess(c, s)
      PROVE  /\ A /\ DOMAIN access_tokens' = DOMAIN access_tokens
             /\ \A a \in DOMAIN access_tokens :
                  access_tokens[a].client_id = c /\ access_tokens[a].subject = s => access_tokens'[a].revoked
  BY <1>a, <1>u, FlagsKept DEF RevokeAccess
<1>v. ASSUME NEW f, refresh_tokens' = RevokeFamily(f)
      PROVE  /\ R /\ DOMAIN refresh_tokens' = DOMAIN refresh_tokens
             /\ \A t \in DOMAIN refresh_tokens : refresh_tokens[t].family_id = f => refresh_tokens'[t].revoked
  BY <1>a, <1>v, FlagsKept DEF RevokeFamily
<1>w. ASSUME NEW c, NEW s, refresh_tokens' = RevokeRefreshOf(c, s)
      PROVE  /\ R /\ DOMAIN refresh_tokens' = DOMAIN refresh_tokens
             /\ \A t \in DOMAIN refresh_tokens :
                  refresh_tokens[t].client_id = c /\ refresh_tokens[t].subject = s => refresh_tokens'[t].revoked
  BY <1>a, <1>w, FlagsKept DEF RevokeRefreshOf
<1>d. devices' = devices => DevicesFresh
  BY DEF DevicesFresh
<1>e. codes' = codes => CodesRegistered
  BY DEF CodesRegistered
<1>f. DOMAIN refresh_tokens' = DOMAIN refresh_tokens /\ DOMAIN access_tokens' = DOMAIN access_tokens => MintsNothing
  BY DEF MintsNothing
<1>g. R /\ A /\ C => Persists
  BY DEF Persists
<1>. HIDE DEF R, A, C
<1>1. ASSUME NEW c \in Client, NEW s \in Subject, NEW scope \in SUBSET Scope, NEW uri \in Uri,
             NEW challenge, NEW resource, NEW jkt, NEW code \in Code,
             Authorize(c, s, scope, uri, challenge, resource, jkt, code)
      PROVE  Shape
  <2>. DEFINE rec == [client_id |-> c, subject |-> s, redirect_uri |-> uri, scope |-> scope,
                      expires_at |-> now + CodeLifetime, code_challenge |-> challenge,
                      resource |-> resource, dpop_jkt |-> jkt, used |-> FALSE]
  <2>1. codes' = Put(codes, code, rec) /\ code \notin DOMAIN codes
    BY <1>1 DEF Authorize
  <2>2. rec.client_id = c /\ rec.scope = scope
    OBVIOUS
  <2>3. UNCHANGED <<devices, refresh_tokens, access_tokens, replayed, compromised>> /\ MayRequest(c, scope)
    BY <1>1 DEF Authorize
  <2>. HIDE DEF rec
  <2>4. C
    BY <1>a, <2>1, FlagsKept DEF C, Put
  <2>5. CodesRegistered
    BY <2>1, <2>2, <2>3 DEF CodesRegistered, Put
  <2>. QED BY <1>r, <1>t, <1>d, <1>f, <1>g, <2>3, <2>4, <2>5 DEF Shape, Mints, Detects
<1>2. ASSUME NEW c \in Client, NEW k \in Code, NEW uri, NEW verifier, NEW jkt, NEW x5t,
             NEW a \in FreshAccessIds, NEW t \in FreshRefreshIds, NEW f \in FreshFamilies,
             RedeemCode(c, k, uri, verifier, jkt, x5t, a, t, f)
      PROVE  Shape
  <2>. DEFINE ar == NewAccess(c, codes[k].subject, codes[k].scope, Or(codes[k].resource, DefaultResource), jkt,
                              BoundCertificate(c, x5t), f, k)
              rr == NewRefresh(c, codes[k].subject, codes[k].scope, jkt, BoundCertificate(c, x5t), f, k)
  <2>1. /\ k \in DOMAIN codes /\ ~codes[k].used /\ codes[k].client_id = c
        /\ codes' = [codes EXCEPT ![k] = [codes[k] EXCEPT !.used = TRUE]]
        /\ access_tokens' = Put(access_tokens, a, ar) /\ refresh_tokens' = Put(refresh_tokens, t, rr)
        /\ UNCHANGED <<devices, replayed, compromised>>
    BY <1>2 DEF RedeemCode, CodeRedeemable
  <2>2. /\ ar.client_id = c /\ ar.subject = codes[k].subject /\ ar.scope = codes[k].scope /\ ar.family = f /\ ar.grant = k
        /\ rr.client_id = c /\ rr.subject = codes[k].subject /\ rr.scope = codes[k].scope /\ rr.family_id = f /\ rr.grant = k
    BY DEF NewAccess, NewRefresh
  <2>3. /\ a \in AccessId /\ a \notin DOMAIN access_tokens /\ t \in RefreshId /\ t \notin DOMAIN refresh_tokens
        /\ f \in Family /\ \A u \in DOMAIN refresh_tokens : refresh_tokens[u].family_id # f
    BY DEF FreshAccessIds, FreshRefreshIds, FreshFamilies
  <2>. HIDE DEF ar, rr
  <2>4. C /\ DOMAIN codes' = DOMAIN codes /\ codes'[k].used
    BY <1>a, <2>1, FlagsKept DEF C
  <2>5. /\ R /\ DOMAIN refresh_tokens' = DOMAIN refresh_tokens \cup {t} /\ refresh_tokens'[t] = rr
        /\ A /\ DOMAIN access_tokens' = DOMAIN access_tokens \cup {a} /\ access_tokens'[a] = ar
    BY <1>p, <1>q, <2>1, <2>3
  <2>6. MintsFirst(k, f, t, a)
    BY <2>2, <2>3, <2>5 DEF MintsFirst, SameGrant
  <2>7. SpendsCode(k, t, a)
    BY <2>1, <2>2, <2>4, <2>5 DEF SpendsCode
  <2>8. CodesRegistered
    BY <2>4 DEF CodesRegistered
  <2>. QED BY <1>d, <1>g, <2>1, <2>3, <2>4, <2>5, <2>6, <2>7, <2>8 DEF Shape, Mints, Detects
<1>3. ASSUME NEW c \in Client, NEW k \in Code, NEW jkt, ReplayCode(c, k, jkt)
      PROVE  Shape
  <2>1. /\ k \in DOMAIN codes /\ codes[k].used
        /\ access_tokens' = RevokeAccess(codes[k].client_id, codes[k].subject)
        /\ refresh_tokens' = RevokeRefreshOf(codes[k].client_id, codes[k].subject)
        /\ replayed' = replayed \cup {k} /\ UNCHANGED <<codes, devices, compromised>>
    BY <1>3 DEF ReplayCode
  <2>2. MintsNothing /\ R /\ A
    BY <1>f, <1>u, <1>w, <2>1
  <2>3. DetectsReplay(k)
    BY <1>u, <1>w, <2>1, <2>2 DEF DetectsReplay
  <2>. QED BY <1>c, <1>d, <1>e, <1>g, <2>1, <2>2, <2>3 DEF Shape, Mints, Detects
<1>4. ASSUME NEW c, NEW t, NEW requested, NEW jkt, NEW x5t, t \in DOMAIN refresh_tokens,
             RefreshRedeemable(c, refresh_tokens[t], requested, jkt, x5t), NEW a \in FreshAccessIds,
             access_tokens' = Put(access_tokens, a, RefreshedAccess(c, refresh_tokens[t], requested, jkt, x5t))
      PROVE  /\ A /\ a \in AccessId /\ a \notin DOMAIN access_tokens
             /\ DOMAIN access_tokens' = DOMAIN access_tokens \cup {a}
             /\ NarrowedScope(refresh_tokens[t], requested) \subseteq refresh_tokens[t].scope
             /\ SameGrant(refresh_tokens[t], access_tokens'[a])
             /\ access_tokens'[a].family = refresh_tokens[t].family_id
             /\ access_tokens'[a].scope \subseteq refresh_tokens[t].scope
  <2>. DEFINE ar == RefreshedAccess(c, refresh_tokens[t], requested, jkt, x5t)
  <2>1. /\ ar.client_id = c /\ ar.subject = refresh_tokens[t].subject /\ ar.grant = refresh_tokens[t].grant
        /\ ar.family = refresh_tokens[t].family_id /\ ar.scope = NarrowedScope(refresh_tokens[t], requested)
    BY DEF RefreshedAccess, NewAccess
  <2>2. NarrowedScope(refresh_tokens[t], requested) \subseteq refresh_tokens[t].scope
    BY <1>4 DEF NarrowedScope, RefreshRedeemable
  <2>3. a \in AccessId /\ a \notin DOMAIN access_tokens
    BY DEF FreshAccessIds
  <2>4. access_tokens' = Put(access_tokens, a, ar)
    BY <1>4
  <2>. HIDE DEF ar
  <2>5. refresh_tokens[t].client_id = c
    BY <1>4 DEF RefreshRedeemable
  <2>. QED BY <1>4, <1>p, <2>1, <2>2, <2>3, <2>4, <2>5 DEF SameGrant
<1>5. ASSUME NEW c \in Client, NEW t \in RefreshId, NEW requested \in SUBSET Scope,
             NEW jkt, NEW x5t, NEW a \in FreshAccessIds,
             NEW next \in FreshRefreshIds, Rotate(c, t, requested, jkt, x5t, a, next)
      PROVE  Shape
  <2>. DEFINE token == refresh_tokens[t]
              spent == [token EXCEPT !.used = TRUE, !.rotated_to = next]
              rt == [refresh_tokens EXCEPT ![t] = spent]
              rr == NewRefresh(c, token.subject, NarrowedScope(token, requested), Or(token.cnf_jkt, jkt),
                         Or(token.cnf_x5t, BoundCertificate(c, x5t)), token.family_id, token.grant)
  <2>1. /\ t \in DOMAIN refresh_tokens /\ ~token.used /\ ~token.revoked
        /\ RefreshRedeemable(c, token, requested, jkt, x5t)
        /\ access_tokens' = Put(access_tokens, a, RefreshedAccess(c, token, requested, jkt, x5t))
        /\ UNCHANGED <<codes, devices, replayed, compromised>>
    BY <1>5 DEF Rotate
  <2>2. refresh_tokens' = Put(rt, next, rr)
    BY <1>5 DEF Rotate
  <2>3. next \in RefreshId /\ next \notin DOMAIN refresh_tokens
    BY DEF FreshRefreshIds
  <2>4. /\ DOMAIN rt = DOMAIN refresh_tokens /\ KeptRefresh(token, rt[t]) /\ rt[t].used
        /\ \A u \in DOMAIN refresh_tokens : u # t => rt[u] = refresh_tokens[u]
    <3>1. KeptRefresh(token, spent) /\ spent.used
      BY <1>a, <2>1, <2>3, FlagsKept
    <3>. HIDE DEF spent
    <3>. QED BY <2>1, <3>1
  <2>5. /\ rr.client_id = c /\ rr.subject = token.subject /\ rr.grant = token.grant
        /\ rr.family_id = token.family_id /\ rr.scope = NarrowedScope(token, requested)
    BY DEF NewRefresh
  <2>. HIDE DEF rt, rr, spent
  <2>6. /\ DOMAIN refresh_tokens' = DOMAIN refresh_tokens \cup {next} /\ refresh_tokens'[next] = rr
        /\ \A u \in DOMAIN refresh_tokens : refresh_tokens'[u] = rt[u]
    BY <2>2, <2>3, <2>4 DEF Put
  <2>7. R
    BY <1>a, <2>4, <2>6, FlagsKept DEF R
  <2>8. token.client_id = c
    BY <2>1 DEF RefreshRedeemable
  <2>9. /\ A /\ a \in AccessId /\ a \notin DOMAIN access_tokens
        /\ DOMAIN access_tokens' = DOMAIN access_tokens \cup {a}
        /\ NarrowedScope(token, requested) \subseteq token.scope
        /\ SameGrant(token, access_tokens'[a])
        /\ access_tokens'[a].family = token.family_id
        /\ access_tokens'[a].scope \subseteq token.scope
    BY <1>4, <2>1
  <2>10. SameGrant(token, refresh_tokens'[next])
    BY <2>5, <2>6, <2>8 DEF SameGrant
  <2>11. MintsFrom(t, {next}, a)
    BY <2>1, <2>3, <2>4, <2>5, <2>6, <2>9, <2>10 DEF MintsFrom
  <2>. QED BY <1>c, <1>d, <1>e, <1>g, <2>1, <2>3, <2>7, <2>9, <2>11 DEF Shape, Mints, Detects
<1>6. ASSUME NEW c \in Client, NEW t \in RefreshId, NEW requested \in SUBSET Scope,
             NEW jkt, NEW x5t, NEW a \in FreshAccessIds,
             RefreshInPlace(c, t, requested, jkt, x5t, a)
      PROVE  Shape
  <2>1. /\ t \in DOMAIN refresh_tokens /\ ~refresh_tokens[t].used /\ ~refresh_tokens[t].revoked
        /\ RefreshRedeemable(c, refresh_tokens[t], requested, jkt, x5t)
        /\ access_tokens' = Put(access_tokens, a, RefreshedAccess(c, refresh_tokens[t], requested, jkt, x5t))
    BY <1>6 DEF RefreshInPlace
  <2>0. UNCHANGED <<codes, devices, refresh_tokens, replayed, compromised>>
    BY <1>6 DEF RefreshInPlace
  <2>2. /\ A /\ a \in AccessId /\ a \notin DOMAIN access_tokens
        /\ DOMAIN access_tokens' = DOMAIN access_tokens \cup {a}
        /\ SameGrant(refresh_tokens[t], access_tokens'[a])
        /\ access_tokens'[a].family = refresh_tokens[t].family_id
        /\ access_tokens'[a].scope \subseteq refresh_tokens[t].scope
    BY <1>4, <2>1
  <2>3. MintsFrom(t, {}, a)
    BY <2>0, <2>1, <2>2 DEF MintsFrom
  <2>. QED BY <1>r, <1>c, <1>d, <1>e, <1>g, <2>0, <2>2, <2>3 DEF Shape, Mints, Detects
<1>7. ASSUME NEW c \in Client, NEW t \in RefreshId, NEW jkt, ReuseRefresh(c, t, jkt)
      PROVE  Shape
  <2>1. /\ t \in DOMAIN refresh_tokens
        /\ refresh_tokens' = RevokeFamily(refresh_tokens[t].family_id)
        /\ access_tokens' = RevokeAccess(refresh_tokens[t].client_id, refresh_tokens[t].subject)
        /\ compromised' = compromised \cup {refresh_tokens[t].family_id}
        /\ UNCHANGED <<codes, devices, replayed>>
    BY <1>7 DEF ReuseRefresh
  <2>2. MintsNothing /\ R /\ A
    BY <1>f, <1>u, <1>v, <2>1
  <2>3. DetectsReuse(t)
    BY <1>u, <1>v, <2>1, <2>2 DEF DetectsReuse
  <2>. QED BY <1>c, <1>d, <1>e, <1>g, <2>1, <2>2, <2>3 DEF Shape, Mints, Detects
<1>8. ASSUME NEW c \in Client, NEW requested \in SUBSET Scope, NEW jkt,
             NEW x5t, NEW a \in FreshAccessIds, ClientCredentials(c, requested, jkt, x5t, a)
      PROVE  Shape
  <2>. DEFINE scope == IF requested # {} THEN requested ELSE Config[c].scopes
              ar == NewAccess(c, None, scope, DefaultResource, jkt, BoundCertificate(c, x5t), None, None)
  <2>1. access_tokens' = Put(access_tokens, a, ar) /\ UNCHANGED <<codes, devices, refresh_tokens, replayed, compromised>>
    BY <1>8 DEF ClientCredentials
  <2>2. ar.family = None /\ ar.grant = None
    BY DEF NewAccess
  <2>3. a \notin DOMAIN access_tokens
    BY DEF FreshAccessIds
  <2>. HIDE DEF ar
  <2>4. A /\ MintsNothing
    BY <1>p, <2>1, <2>2, <2>3 DEF MintsNothing
  <2>. QED BY <1>r, <1>c, <1>d, <1>e, <1>g, <2>1, <2>4 DEF Shape, Mints, Detects
<1>9. ASSUME NEW c \in Client, NEW scope, NEW d \in Device, DeviceAuthorization(c, scope, d)
      PROVE  Shape
  <2>1. /\ DOMAIN devices' = DOMAIN devices \cup {d}
        /\ \A t \in DOMAIN refresh_tokens : refresh_tokens[t].grant # d
        /\ UNCHANGED <<codes, refresh_tokens, access_tokens, replayed, compromised>>
    BY <1>9 DEF DeviceAuthorization, Put
  <2>2. DevicesFresh
    BY <2>1 DEF DevicesFresh
  <2>. QED BY <1>r, <1>t, <1>c, <1>e, <1>f, <1>g, <2>1, <2>2 DEF Shape, Mints, Detects
<1>10. ASSUME DOMAIN devices' = DOMAIN devices, UNCHANGED <<codes, refresh_tokens, access_tokens, replayed, compromised>>
       PROVE  Shape
  <2>1. DevicesFresh
    BY <1>10 DEF DevicesFresh
  <2>. QED BY <1>10, <1>r, <1>t, <1>c, <1>e, <1>f, <1>g, <2>1 DEF Shape, Mints, Detects
<1>11. ASSUME NEW c \in Client, NEW d \in Device, NEW jkt, NEW x5t, NEW a \in FreshAccessIds,
              NEW t \in FreshRefreshIds, NEW f \in FreshFamilies, RedeemDevice(c, d, jkt, x5t, a, t, f)
       PROVE  Shape
  <2>. DEFINE ar == NewAccess(c, devices[d].subject, devices[d].scope, DefaultResource, jkt, BoundCertificate(c, x5t), f, d)
              rr == NewRefresh(c, devices[d].subject, devices[d].scope, jkt, BoundCertificate(c, x5t), f, d)
  <2>1. /\ d \in DOMAIN devices /\ DOMAIN devices' = DOMAIN devices \ {d}
        /\ access_tokens' = Put(access_tokens, a, ar) /\ refresh_tokens' = Put(refresh_tokens, t, rr)
        /\ UNCHANGED <<codes, replayed, compromised>>
    BY <1>11 DEF RedeemDevice, DevicePolled
  <2>2. /\ ar.client_id = c /\ ar.subject = devices[d].subject /\ ar.family = f /\ ar.grant = d
        /\ rr.client_id = c /\ rr.subject = devices[d].subject /\ rr.family_id = f /\ rr.grant = d
    BY DEF NewAccess, NewRefresh
  <2>3. /\ a \in AccessId /\ a \notin DOMAIN access_tokens /\ t \in RefreshId /\ t \notin DOMAIN refresh_tokens
        /\ f \in Family /\ \A u \in DOMAIN refresh_tokens : refresh_tokens[u].family_id # f
    BY DEF FreshAccessIds, FreshRefreshIds, FreshFamilies
  <2>. HIDE DEF ar, rr
  <2>4. R /\ A
    BY <1>p, <1>q, <2>1, <2>3
  <2>5. MintsFirst(d, f, t, a) /\ SpendsDevice(d) /\ DevicesFresh
    BY <1>p, <1>q, <2>1, <2>2, <2>3 DEF MintsFirst, SameGrant, SpendsDevice, DevicesFresh
  <2>. QED BY <1>c, <1>e, <1>g, <2>1, <2>3, <2>4, <2>5 DEF Shape, Mints, Detects
<1>12. ASSUME NEW c \in Client, NEW a \in AccessId, RevokeAccessToken(c, a) PROVE Shape
  <2>1. /\ access_tokens' = [access_tokens EXCEPT ![a] = [access_tokens[a] EXCEPT !.revoked = TRUE]]
        /\ UNCHANGED <<codes, devices, refresh_tokens, replayed, compromised>>
    BY <1>12 DEF RevokeAccessToken
  <2>2. A /\ DOMAIN access_tokens' = DOMAIN access_tokens
    BY <1>a, <2>1, FlagsKept DEF A
  <2>. QED BY <1>r, <1>c, <1>d, <1>e, <1>f, <1>g, <2>1, <2>2 DEF Shape, Mints, Detects
<1>13. ASSUME NEW c \in Client, NEW t \in RefreshId, RevokeRefreshToken(c, t) PROVE Shape
  <2>1. /\ refresh_tokens' = RevokeFamily(refresh_tokens[t].family_id)
        /\ UNCHANGED <<codes, devices, access_tokens, replayed, compromised>>
    BY <1>13 DEF RevokeRefreshToken
  <2>. QED BY <1>t, <1>v, <1>c, <1>d, <1>e, <1>f, <1>g, <2>1 DEF Shape, Mints, Detects
<1>14. ASSUME NEW d \in Device, NEW s, ApproveDevice(d, s) PROVE Shape
  BY <1>10, <1>14 DEF ApproveDevice
<1>15. ASSUME NEW d \in Device, DenyDevice(d) PROVE Shape
  BY <1>10, <1>15 DEF DenyDevice
<1>16. ASSUME NEW c, NEW d, NEW jkt, PollDevice(c, d, jkt) PROVE Shape
  BY <1>10, <1>16 DEF PollDevice
<1>17. CASE Tick \/ UNCHANGED vars
  BY <1>10, <1>17 DEF Tick, vars
<1>. QED
  BY <1>1, <1>2, <1>3, <1>5, <1>6, <1>7, <1>8, <1>9, <1>11, <1>12, <1>13, <1>14, <1>15, <1>16, <1>17
  DEF Next, AuthorizeSome, CodeGrant, RefreshGrant, ClientGrant, DeviceGrant, Revocation

----------------------------------------------------------------------------
(* The inductive invariant.                                                *)

\* ReplayedGrantDead with the facts that keep it: the code is spent, and its
\* tokens are revoked rather than merely expired.
ReplayedRevoked ==
  \A k \in replayed :
    /\ k \in DOMAIN codes /\ codes[k].used
    /\ \A t \in DOMAIN refresh_tokens : refresh_tokens[t].grant = k => refresh_tokens[t].revoked
    /\ \A a \in DOMAIN access_tokens : access_tokens[a].grant = k => access_tokens[a].revoked

\* CompromisedFamilyDead likewise: the family exists, so no new grant opens it.
CompromisedRevoked ==
  \A f \in compromised :
    /\ \E t \in DOMAIN refresh_tokens : refresh_tokens[t].family_id = f
    /\ \A t \in DOMAIN refresh_tokens : refresh_tokens[t].family_id = f => refresh_tokens[t].revoked
    /\ \A a \in DOMAIN access_tokens : access_tokens[a].family = f => access_tokens[a].revoked

IInv ==
  /\ TypeOK
  /\ Provenance
  /\ OneFamilyPerGrant
  /\ OneUsableRefreshToken
  /\ ReplayedRevoked
  /\ CompromisedRevoked

\* The typing facts that the steps below use.
LEMMA Typing ==
  ASSUME TypeOK
  PROVE  /\ \A t \in DOMAIN refresh_tokens :
              refresh_tokens[t].grant \in Grant /\ refresh_tokens[t].family_id \in Family
         /\ DOMAIN devices \subseteq Device
         /\ None \notin Grant /\ None \notin Family /\ Code \cap Device = {}
         /\ replayed \subseteq Code /\ compromised \subseteq Family
<1>1. \A t \in DOMAIN refresh_tokens : refresh_tokens[t] \in RefreshRec
  BY DEF TypeOK, Dict
<1>2. \A t \in DOMAIN refresh_tokens : refresh_tokens[t].grant \in Grant /\ refresh_tokens[t].family_id \in Family
  BY <1>1 DEF RefreshRec
<1>. QED BY <1>2, ASAssumption DEF TypeOK, Dict, Grant

LEMMA ProvenanceStep ==
  ASSUME TypeOK, TypeOK', Provenance, Shape
  PROVE  Provenance'
<1>. DEFINE P1 == \A t \in DOMAIN refresh_tokens :
                    LET token == refresh_tokens[t]
                    IN  /\ token.grant \notin DOMAIN devices
                        /\ token.grant \in Code =>
                             /\ token.grant \in DOMAIN codes /\ codes[token.grant].used
                             /\ codes[token.grant].client_id = token.client_id
                             /\ codes[token.grant].subject = token.subject
            P2 == \A t, u \in DOMAIN refresh_tokens :
                    refresh_tokens[t].family_id = refresh_tokens[u].family_id =>
                      /\ refresh_tokens[t].client_id = refresh_tokens[u].client_id
                      /\ refresh_tokens[t].subject = refresh_tokens[u].subject
            P3 == \A a \in DOMAIN access_tokens :
                    access_tokens[a].grant # None \/ access_tokens[a].family # None =>
                      \E t \in DOMAIN refresh_tokens :
                        /\ refresh_tokens[t].family_id = access_tokens[a].family
                        /\ refresh_tokens[t].client_id = access_tokens[a].client_id
                        /\ refresh_tokens[t].subject = access_tokens[a].subject
                        /\ refresh_tokens[t].grant = access_tokens[a].grant
<1>a. P1 /\ P2 /\ P3
  BY DEF Provenance
<1>b. /\ \A t \in DOMAIN refresh_tokens : t \in DOMAIN refresh_tokens' /\ KeptRefresh(refresh_tokens[t], refresh_tokens'[t])
      /\ \A a \in DOMAIN access_tokens : a \in DOMAIN access_tokens' /\ KeptAccess(access_tokens[a], access_tokens'[a])
      /\ \A k \in DOMAIN codes : k \in DOMAIN codes' /\ KeptCode(codes[k], codes'[k])
      /\ DevicesFresh
  BY DEF Shape, Persists
\* Old tokens keep their trail.
<1>1. \A t \in DOMAIN refresh_tokens :
        LET token == refresh_tokens'[t]
        IN  /\ token.grant \notin DOMAIN devices'
            /\ token.grant \in Code =>
                 /\ token.grant \in DOMAIN codes' /\ codes'[token.grant].used
                 /\ codes'[token.grant].client_id = token.client_id
                 /\ codes'[token.grant].subject = token.subject
  BY <1>a, <1>b DEF KeptRefresh, KeptCode, SameGrant, DevicesFresh
<1>2. \A t, u \in DOMAIN refresh_tokens :
        refresh_tokens'[t].family_id = refresh_tokens'[u].family_id =>
          /\ refresh_tokens'[t].client_id = refresh_tokens'[u].client_id
          /\ refresh_tokens'[t].subject = refresh_tokens'[u].subject
  BY <1>a, <1>b DEF KeptRefresh, SameGrant
<1>3. \A a \in DOMAIN access_tokens :
        access_tokens'[a].grant # None \/ access_tokens'[a].family # None =>
          \E t \in DOMAIN refresh_tokens' :
            /\ refresh_tokens'[t].family_id = access_tokens'[a].family
            /\ refresh_tokens'[t].client_id = access_tokens'[a].client_id
            /\ refresh_tokens'[t].subject = access_tokens'[a].subject
            /\ refresh_tokens'[t].grant = access_tokens'[a].grant
  BY <1>a, <1>b DEF KeptRefresh, KeptAccess, SameGrant
\* New tokens get theirs from the grant or from the token they replace.
<1>4. CASE MintsNothing
  <2>1. P1' /\ P2'
    BY <1>1, <1>2, <1>4 DEF MintsNothing
  <2>2. P3'
    BY <1>3, <1>4 DEF MintsNothing
  <2>. QED BY <2>1, <2>2 DEF Provenance
<1>5. ASSUME NEW g, NEW f, NEW t, NEW a, MintsFirst(g, f, t, a),
             g \notin DOMAIN devices',
             g \in Code => /\ g \in DOMAIN codes' /\ codes'[g].used
                          /\ codes'[g].client_id = refresh_tokens'[t].client_id
                          /\ codes'[g].subject = refresh_tokens'[t].subject
      PROVE  Provenance'
  <2>1. P1'
    BY <1>1, <1>5 DEF MintsFirst
  <2>2. \A u \in DOMAIN refresh_tokens : refresh_tokens'[u].family_id # f
    BY <1>5, <1>b DEF MintsFirst, KeptRefresh
  <2>3. P2'
    BY <1>2, <1>5, <2>2 DEF MintsFirst
  <2>4. P3'
    BY <1>3, <1>5 DEF MintsFirst, SameGrant
  <2>. QED BY <2>1, <2>3, <2>4 DEF Provenance
<1>6. ASSUME NEW k \in Code, NEW f, NEW t, NEW a, MintsFirst(k, f, t, a), SpendsCode(k, t, a)
      PROVE  Provenance'
  <2>1. /\ k \in DOMAIN codes' /\ codes'[k].used
        /\ codes'[k].client_id = refresh_tokens'[t].client_id /\ codes'[k].subject = refresh_tokens'[t].subject
    BY <1>6, <1>b DEF SpendsCode, KeptCode
  <2>2. k \notin DOMAIN devices'
    BY ASAssumption DEF TypeOK, Dict
  <2>. QED BY <1>5, <1>6, <2>1, <2>2
<1>7. ASSUME NEW d \in Device, NEW f, NEW t, NEW a, MintsFirst(d, f, t, a), SpendsDevice(d)
      PROVE  Provenance'
  BY <1>5, <1>7, Typing DEF SpendsDevice
<1>8. ASSUME NEW t, NEW N, NEW a, MintsFrom(t, N, a)
      PROVE  Provenance'
  <2>0. t \in DOMAIN refresh_tokens /\ t \in DOMAIN refresh_tokens' /\ KeptRefresh(refresh_tokens[t], refresh_tokens'[t])
    BY <1>8, <1>b DEF MintsFrom
  <2>a. \A n \in N : /\ SameGrant(refresh_tokens'[t], refresh_tokens'[n])
                     /\ refresh_tokens'[n].family_id = refresh_tokens'[t].family_id
    BY <1>8, <2>0 DEF MintsFrom, SameGrant, KeptRefresh
  <2>b. DOMAIN refresh_tokens' = DOMAIN refresh_tokens \cup N
    BY <1>8 DEF MintsFrom
  <2>1. P1'
    BY <1>1, <2>0, <2>a, <2>b DEF SameGrant
  <2>2. P2'
    BY <1>2, <2>0, <2>a, <2>b DEF SameGrant
  <2>3. P3'
    BY <1>3, <1>8, <2>0 DEF MintsFrom, SameGrant, KeptRefresh
  <2>. QED BY <2>1, <2>2, <2>3 DEF Provenance
<1>. QED BY <1>4, <1>6, <1>7, <1>8 DEF Shape, Mints

\* The facts of Shape about records that were there before, for the lemmas below.
LEMMA OldTokens ==
  ASSUME Shape
  PROVE  /\ \A t \in DOMAIN refresh_tokens :
              /\ t \in DOMAIN refresh_tokens'
              /\ SameGrant(refresh_tokens[t], refresh_tokens'[t])
              /\ refresh_tokens'[t].family_id = refresh_tokens[t].family_id
              /\ refresh_tokens[t].revoked => refresh_tokens'[t].revoked
              /\ refresh_tokens[t].used => refresh_tokens'[t].used
         /\ \A a \in DOMAIN access_tokens :
              /\ a \in DOMAIN access_tokens'
              /\ SameGrant(access_tokens[a], access_tokens'[a])
              /\ access_tokens'[a].family = access_tokens[a].family
              /\ access_tokens[a].revoked => access_tokens'[a].revoked
         /\ \A k \in DOMAIN codes : k \in DOMAIN codes' /\ (codes[k].used => codes'[k].used)
  BY DEF Shape, Persists, KeptRefresh, KeptAccess, KeptCode

LEMMA OneFamilyStep ==
  ASSUME TypeOK, Provenance, OneFamilyPerGrant, Shape
  PROVE  OneFamilyPerGrant'
<1>1. \A t, u \in DOMAIN refresh_tokens :
        refresh_tokens'[t].grant = refresh_tokens'[u].grant
          <=> refresh_tokens'[t].family_id = refresh_tokens'[u].family_id
  BY OldTokens DEF OneFamilyPerGrant, SameGrant
<1>2. CASE MintsNothing
  BY <1>1, <1>2 DEF MintsNothing, OneFamilyPerGrant
<1>3. ASSUME NEW g, NEW f, NEW t, NEW a, MintsFirst(g, f, t, a),
             \A u \in DOMAIN refresh_tokens : refresh_tokens[u].grant # g
      PROVE  OneFamilyPerGrant'
  <2>1. \A u \in DOMAIN refresh_tokens : refresh_tokens'[u].grant # g /\ refresh_tokens'[u].family_id # f
    BY <1>3, OldTokens DEF MintsFirst, SameGrant
  <2>. QED BY <1>1, <1>3, <2>1 DEF MintsFirst, OneFamilyPerGrant
<1>4. ASSUME NEW k \in Code, NEW f, NEW t, NEW a, MintsFirst(k, f, t, a), SpendsCode(k, t, a)
      PROVE  OneFamilyPerGrant'
  BY <1>3, <1>4 DEF Provenance, SpendsCode
<1>5. ASSUME NEW d \in Device, NEW f, NEW t, NEW a, MintsFirst(d, f, t, a), SpendsDevice(d)
      PROVE  OneFamilyPerGrant'
  BY <1>3, <1>5 DEF Provenance, SpendsDevice
<1>6. ASSUME NEW t, NEW N, NEW a, MintsFrom(t, N, a)
      PROVE  OneFamilyPerGrant'
  <2>1. /\ t \in DOMAIN refresh_tokens /\ DOMAIN refresh_tokens' = DOMAIN refresh_tokens \cup N
        /\ \A n \in N : /\ refresh_tokens'[n].grant = refresh_tokens'[t].grant
                         /\ refresh_tokens'[n].family_id = refresh_tokens'[t].family_id
    BY <1>6, OldTokens DEF MintsFrom, SameGrant
  <2>. QED BY <1>1, <2>1 DEF OneFamilyPerGrant
<1>. QED BY <1>2, <1>4, <1>5, <1>6 DEF Shape, Mints

\* Rotation spends the one usable token of the family, so its successor is alone.
LEMMA OneUsableStep ==
  ASSUME TypeOK, OneUsableRefreshToken, Shape
  PROVE  OneUsableRefreshToken'
<1>1. \A t, u \in DOMAIN refresh_tokens :
        refresh_tokens'[t].family_id = refresh_tokens'[u].family_id /\ Usable(t)' /\ Usable(u)' => t = u
  BY OldTokens DEF OneUsableRefreshToken, Usable
<1>2. CASE MintsNothing
  BY <1>1, <1>2 DEF MintsNothing, OneUsableRefreshToken
<1>3. ASSUME NEW g, NEW f, NEW t, NEW a, MintsFirst(g, f, t, a)
      PROVE  OneUsableRefreshToken'
  <2>1. \A u \in DOMAIN refresh_tokens : refresh_tokens'[u].family_id # f
    BY <1>3, OldTokens DEF MintsFirst
  <2>. QED BY <1>1, <1>3, <2>1 DEF MintsFirst, OneUsableRefreshToken
<1>4. ASSUME NEW t, NEW N, NEW a, MintsFrom(t, N, a)
      PROVE  OneUsableRefreshToken'
  <2>1. /\ t \in DOMAIN refresh_tokens /\ Usable(t)
        /\ DOMAIN refresh_tokens' = DOMAIN refresh_tokens \cup N /\ \A m, n \in N : m = n
        /\ \A n \in N : refresh_tokens'[n].family_id = refresh_tokens[t].family_id
    BY <1>4 DEF MintsFrom, Usable
  <2>2. N # {} => \A u \in DOMAIN refresh_tokens :
                    refresh_tokens[u].family_id = refresh_tokens[t].family_id => ~Usable(u)'
    <3>1. N # {} => refresh_tokens'[t].used
      BY <1>4 DEF MintsFrom
    <3>. QED BY <2>1, <3>1, OldTokens DEF OneUsableRefreshToken, Usable
  <2>3. \A u \in DOMAIN refresh_tokens, n \in N :
          refresh_tokens'[u].family_id = refresh_tokens'[n].family_id => ~Usable(u)'
    BY <2>1, <2>2, OldTokens
  <2>. QED BY <1>1, <2>1, <2>3 DEF OneUsableRefreshToken
<1>. QED BY <1>2, <1>3, <1>4 DEF Shape, Mints

\* A replay revokes everything that its code produced, and nothing can be added:
\* the code is spent, and no refresh token of the grant is usable.
LEMMA ReplayedStep ==
  ASSUME TypeOK, Provenance, ReplayedRevoked, Shape
  PROVE  ReplayedRevoked'
<1>. DEFINE Dead(k) ==
       /\ k \in DOMAIN codes /\ codes[k].used
       /\ \A t \in DOMAIN refresh_tokens : refresh_tokens[t].grant = k => refresh_tokens[t].revoked
       /\ \A a \in DOMAIN access_tokens : access_tokens[a].grant = k => access_tokens[a].revoked
     OldDead(k) ==
       /\ k \in DOMAIN codes' /\ codes'[k].used
       /\ \A t \in DOMAIN refresh_tokens : refresh_tokens'[t].grant = k => refresh_tokens'[t].revoked
       /\ \A a \in DOMAIN access_tokens : access_tokens'[a].grant = k => access_tokens'[a].revoked
<1>1. ASSUME NEW k \in replayed PROVE Dead(k)'
  <2>1. Dead(k) /\ k \in Code
    BY Typing DEF ReplayedRevoked
  <2>2. OldDead(k)
    BY <2>1, OldTokens DEF SameGrant
  <2>3. CASE MintsNothing
    BY <2>1, <2>2, <2>3, ASAssumption DEF MintsNothing
  <2>4. ASSUME NEW g, NEW f, NEW t, NEW a, MintsFirst(g, f, t, a), g # k PROVE Dead(k)'
    BY <2>2, <2>4 DEF MintsFirst, SameGrant
  <2>5. ASSUME NEW t, NEW N, NEW a, MintsFrom(t, N, a) PROVE Dead(k)'
    <3>1. t \in DOMAIN refresh_tokens /\ ~refresh_tokens[t].revoked
      BY <2>5 DEF MintsFrom
    <3>2. refresh_tokens[t].grant # k
      BY <2>1, <3>1
    <3>. QED BY <2>2, <2>5, <3>2 DEF MintsFrom, SameGrant
  <2>6. ASSUME NEW j \in Code, NEW f, NEW t, NEW a, MintsFirst(j, f, t, a), SpendsCode(j, t, a) PROVE Dead(k)'
    <3>1. j # k
      BY <2>1, <2>6 DEF SpendsCode
    <3>. QED BY <2>4, <2>6, <3>1
  <2>7. ASSUME NEW d \in Device, NEW f, NEW t, NEW a, MintsFirst(d, f, t, a) PROVE Dead(k)'
    <3>1. d # k
      BY <2>1, Typing
    <3>. QED BY <2>4, <2>7, <3>1
  <2>. QED BY <2>3, <2>5, <2>6, <2>7 DEF Shape, Mints
<1>2. ASSUME NEW k \in Code, DetectsReplay(k) PROVE Dead(k)'
  <2>1. k \in DOMAIN codes' /\ codes'[k].used
    BY <1>2, OldTokens DEF DetectsReplay
  <2>2. ASSUME NEW t \in DOMAIN refresh_tokens, refresh_tokens[t].grant = k PROVE refresh_tokens'[t].revoked
    BY <1>2, <2>2 DEF DetectsReplay, Provenance
  <2>3. ASSUME NEW a \in DOMAIN access_tokens, access_tokens[a].grant = k PROVE access_tokens'[a].revoked
    <3>1. access_tokens[a].grant # None
      BY <2>3, Typing DEF Grant
    <3>2. PICK t \in DOMAIN refresh_tokens :
            /\ refresh_tokens[t].client_id = access_tokens[a].client_id
            /\ refresh_tokens[t].subject = access_tokens[a].subject
            /\ refresh_tokens[t].grant = access_tokens[a].grant
      BY <3>1 DEF Provenance
    <3>3. codes[k].client_id = access_tokens[a].client_id /\ codes[k].subject = access_tokens[a].subject
      BY <2>3, <3>2 DEF Provenance
    <3>. QED BY <1>2, <3>3 DEF DetectsReplay
  <2>4. OldDead(k)
    BY <2>1, <2>2, <2>3, OldTokens DEF SameGrant
  <2>5. k # None
    BY Typing DEF Grant
  <2>. QED BY <1>2, <2>4, <2>5 DEF DetectsReplay, MintsNothing
<1>3. \A k \in replayed' : k \in replayed \/ (k \in Code /\ DetectsReplay(k))
  BY DEF Shape, Detects, DetectsReplay, DetectsReuse
<1>. QED BY <1>1, <1>2, <1>3 DEF ReplayedRevoked

\* Reuse detection does the same for a family.
LEMMA CompromisedStep ==
  ASSUME TypeOK, Provenance, CompromisedRevoked, Shape
  PROVE  CompromisedRevoked'
<1>. DEFINE Dead(f) ==
       /\ \E t \in DOMAIN refresh_tokens : refresh_tokens[t].family_id = f
       /\ \A t \in DOMAIN refresh_tokens : refresh_tokens[t].family_id = f => refresh_tokens[t].revoked
       /\ \A a \in DOMAIN access_tokens : access_tokens[a].family = f => access_tokens[a].revoked
     OldDead(f) ==
       /\ \E t \in DOMAIN refresh_tokens' : refresh_tokens'[t].family_id = f
       /\ \A t \in DOMAIN refresh_tokens : refresh_tokens'[t].family_id = f => refresh_tokens'[t].revoked
       /\ \A a \in DOMAIN access_tokens : access_tokens'[a].family = f => access_tokens'[a].revoked
<1>1. ASSUME NEW f \in compromised PROVE Dead(f)'
  <2>1. Dead(f) /\ f # None
    BY Typing DEF CompromisedRevoked
  <2>2. OldDead(f)
    BY <2>1, OldTokens
  <2>3. CASE MintsNothing
    BY <2>1, <2>2, <2>3 DEF MintsNothing
  <2>4. ASSUME NEW g, NEW h, NEW t, NEW a, MintsFirst(g, h, t, a) PROVE Dead(f)'
    <3>1. h # f
      BY <2>1, <2>4 DEF MintsFirst
    <3>. QED BY <2>2, <2>4, <3>1 DEF MintsFirst
  <2>5. ASSUME NEW t, NEW N, NEW a, MintsFrom(t, N, a) PROVE Dead(f)'
    <3>1. t \in DOMAIN refresh_tokens /\ ~refresh_tokens[t].revoked
      BY <2>5 DEF MintsFrom
    <3>2. refresh_tokens[t].family_id # f
      BY <2>1, <3>1
    <3>. QED BY <2>2, <2>5, <3>2 DEF MintsFrom
  <2>. QED BY <2>3, <2>4, <2>5 DEF Shape, Mints
<1>2. ASSUME NEW t \in RefreshId, DetectsReuse(t), NEW f \in Family, f = refresh_tokens[t].family_id
      PROVE  Dead(f)'
  <2>0. t \in DOMAIN refresh_tokens /\ f # None
    BY <1>2, Typing DEF DetectsReuse
  <2>1. \E u \in DOMAIN refresh_tokens' : refresh_tokens'[u].family_id = f
    BY <1>2, <2>0, OldTokens
  <2>2. \A u \in DOMAIN refresh_tokens : refresh_tokens[u].family_id = f => refresh_tokens'[u].revoked
    BY <1>2 DEF DetectsReuse
  <2>3. ASSUME NEW a \in DOMAIN access_tokens, access_tokens[a].family = f PROVE access_tokens'[a].revoked
    <3>1. PICK u \in DOMAIN refresh_tokens :
            /\ refresh_tokens[u].family_id = access_tokens[a].family
            /\ refresh_tokens[u].client_id = access_tokens[a].client_id
            /\ refresh_tokens[u].subject = access_tokens[a].subject
      BY <2>0, <2>3 DEF Provenance
    <3>2. /\ refresh_tokens[t].client_id = access_tokens[a].client_id
          /\ refresh_tokens[t].subject = access_tokens[a].subject
      BY <1>2, <2>0, <2>3, <3>1 DEF Provenance
    <3>. QED BY <1>2, <3>2 DEF DetectsReuse
  <2>4. OldDead(f)
    BY <2>1, <2>2, <2>3, OldTokens
  <2>. QED BY <1>2, <2>0, <2>4 DEF DetectsReuse, MintsNothing
<1>3. \A f \in compromised' : f \in compromised \/ (f \in Family /\ \E t \in RefreshId : DetectsReuse(t) /\ f = refresh_tokens[t].family_id)
  BY Typing DEF Shape, Detects, DetectsReplay, DetectsReuse
<1>. QED BY <1>1, <1>2, <1>3 DEF CompromisedRevoked

LEMMA InitIInv == Init => IInv
<1>. SUFFICES ASSUME Init PROVE IInv
  OBVIOUS
<1>1. TypeOK
  BY ASAssumption DEF Init, Empty, TypeOK, Dict
<1>2. DOMAIN refresh_tokens = {} /\ DOMAIN access_tokens = {} /\ replayed = {} /\ compromised = {}
  BY DEF Init, Empty
<1>. QED BY <1>1, <1>2 DEF IInv, Provenance, OneFamilyPerGrant, OneUsableRefreshToken, ReplayedRevoked, CompromisedRevoked

LEMMA InductiveStep == IInv /\ [Next]_vars => IInv'
  BY TypeStep, StepShape, ProvenanceStep, OneFamilyStep, OneUsableStep, ReplayedStep, CompromisedStep DEF IInv

LEMMA Invariance == Spec => []IInv
  BY InitIInv, InductiveStep, PTL DEF Spec

\* Every token can be traced to a spent grant of its own client and user.
THEOREM ProvenanceHolds == Spec => []Provenance
<1>1. IInv => Provenance
  BY DEF IInv
<1>. QED BY <1>1, Invariance, PTL

\* A code or device code yields one refresh family, ever.
THEOREM GrantsAreSingleUse == Spec => []OneFamilyPerGrant
<1>1. IInv => OneFamilyPerGrant
  BY DEF IInv
<1>. QED BY <1>1, Invariance, PTL

\* A family has at most one refresh token that the server would accept.
THEOREM RotationIsExclusive == Spec => []OneUsableRefreshToken
<1>1. IInv => OneUsableRefreshToken
  BY DEF IInv
<1>. QED BY <1>1, Invariance, PTL

\* A replayed code leaves nothing alive, for good.
THEOREM ReplayFailsClosed == Spec => []ReplayedGrantDead
<1>1. IInv => ReplayedGrantDead
  BY DEF IInv, ReplayedRevoked, ReplayedGrantDead, Active
<1>. QED BY <1>1, Invariance, PTL

\* A reused refresh token leaves nothing of its family alive, for good.
THEOREM ReuseFailsClosed == Spec => []CompromisedFamilyDead
<1>1. IInv => CompromisedFamilyDead
  BY DEF IInv, CompromisedRevoked, CompromisedFamilyDead, Active
<1>. QED BY <1>1, Invariance, PTL

\* Both alarms together, as the run checks them.
THEOREM MisuseFailsClosed == Spec => []MisuseEndsEverything
<1>1. ReplayedGrantDead /\ CompromisedFamilyDead => MisuseEndsEverything
  BY DEF MisuseEndsEverything
<1>. QED BY <1>1, ReplayFailsClosed, ReuseFailsClosed, PTL

----------------------------------------------------------------------------
(* Scopes: what a code allows bounds every token that descends from it.    *)

\* Every code was opened with a scope its client may ask for.
CodesWithinRegistration ==
  \A k \in DOMAIN codes : MayRequest(codes[k].client_id, codes[k].scope)

ScopeInv == ScopeNeverWidens /\ CodesWithinRegistration

LEMMA CodeScopesStep ==
  ASSUME CodesWithinRegistration, Shape
  PROVE  CodesWithinRegistration'
<1>1. \A k \in DOMAIN codes : MayRequest(codes'[k].client_id, codes'[k].scope)
  BY DEF Shape, Persists, KeptCode, CodesWithinRegistration
<1>. QED BY <1>1 DEF Shape, CodesRegistered, CodesWithinRegistration

\* A new token takes its scope from the code or from the token it replaces.
LEMMA TokenScopesStep ==
  ASSUME IInv, IInv', ScopeInv, Shape
  PROVE  /\ \A t \in DOMAIN refresh_tokens' : refresh_tokens'[t].grant \in Code =>
              refresh_tokens'[t].scope \subseteq codes'[refresh_tokens'[t].grant].scope
         /\ \A a \in DOMAIN access_tokens' : access_tokens'[a].grant \in Code =>
              access_tokens'[a].scope \subseteq codes'[access_tokens'[a].grant].scope
<1>. DEFINE Within(r) == r.grant \in Code => r.scope \subseteq codes'[r.grant].scope
            AllWithin == /\ \A t \in DOMAIN refresh_tokens' : Within(refresh_tokens'[t])
                         /\ \A a \in DOMAIN access_tokens' : Within(access_tokens'[a])
<1>a. Provenance /\ TypeOK /\ None \notin Grant /\ Code \cap Device = {}
  BY Typing DEF IInv
<1>b. /\ \A t \in DOMAIN refresh_tokens : t \in DOMAIN refresh_tokens' /\ KeptRefresh(refresh_tokens[t], refresh_tokens'[t])
      /\ \A a \in DOMAIN access_tokens : a \in DOMAIN access_tokens' /\ KeptAccess(access_tokens[a], access_tokens'[a])
      /\ \A k \in DOMAIN codes : k \in DOMAIN codes' /\ KeptCode(codes[k], codes'[k])
  BY DEF Shape, Persists
\* Old tokens and their codes keep their scopes.
<1>1. \A t \in DOMAIN refresh_tokens : Within(refresh_tokens'[t])
  BY <1>a, <1>b DEF ScopeInv, ScopeNeverWidens, Provenance, KeptRefresh, KeptCode, SameGrant
<1>2. \A a \in DOMAIN access_tokens : Within(access_tokens'[a])
  <2>1. ASSUME NEW a \in DOMAIN access_tokens, access_tokens[a].grant \in Code
        PROVE  access_tokens[a].grant \in DOMAIN codes
    <3>1. access_tokens[a].grant # None
      BY <2>1, ASAssumption
    <3>. QED BY <1>a, <2>1, <3>1 DEF Provenance
  <2>. QED BY <1>b, <2>1 DEF ScopeInv, ScopeNeverWidens, KeptAccess, KeptCode, SameGrant
<1>3. ASSUME MintsNothing PROVE AllWithin
  BY <1>1, <1>2, <1>3, ASAssumption DEF MintsNothing
<1>4. ASSUME NEW g, NEW f, NEW t, NEW a, MintsFirst(g, f, t, a),
             Within(refresh_tokens'[t]), Within(access_tokens'[a])
      PROVE  AllWithin
  <2>. HIDE DEF Within
  <2>. QED BY <1>1, <1>2, <1>4 DEF MintsFirst
<1>5. ASSUME NEW k \in Code, NEW f, NEW t, NEW a, MintsFirst(k, f, t, a), SpendsCode(k, t, a)
      PROVE  AllWithin
  <2>1. codes'[k].scope = codes[k].scope
    BY <1>5, <1>b DEF SpendsCode, KeptCode
  <2>2. /\ refresh_tokens'[t].grant = k /\ refresh_tokens'[t].scope = codes[k].scope
        /\ access_tokens'[a].grant = k /\ access_tokens'[a].scope = codes[k].scope
    BY <1>5 DEF MintsFirst, SpendsCode, SameGrant
  <2>3. Within(refresh_tokens'[t]) /\ Within(access_tokens'[a])
    BY <2>1, <2>2
  <2>. HIDE DEF Within, AllWithin
  <2>. QED BY <1>4, <1>5, <2>3
<1>6. ASSUME NEW d \in Device, NEW f, NEW t, NEW a, MintsFirst(d, f, t, a)
      PROVE  AllWithin
  <2>1. refresh_tokens'[t].grant = d /\ access_tokens'[a].grant = d
    BY <1>6 DEF MintsFirst, SameGrant
  <2>2. Within(refresh_tokens'[t]) /\ Within(access_tokens'[a])
    BY <1>a, <2>1
  <2>. HIDE DEF Within, AllWithin
  <2>. QED BY <1>4, <1>6, <2>2
<1>7. ASSUME NEW t, NEW N, NEW a, MintsFrom(t, N, a)
      PROVE  AllWithin
  <2>1. t \in DOMAIN refresh_tokens /\ Within(refresh_tokens'[t]) /\ KeptRefresh(refresh_tokens[t], refresh_tokens'[t])
    BY <1>1, <1>7, <1>b DEF MintsFrom
  <2>2. Within(access_tokens'[a]) /\ \A n \in N : Within(refresh_tokens'[n])
    BY <1>7, <2>1 DEF MintsFrom, SameGrant, KeptRefresh
  <2>. HIDE DEF Within
  <2>. QED BY <1>1, <1>2, <1>7, <2>2 DEF MintsFrom
<1>8. AllWithin
  <2>. HIDE DEF AllWithin
  <2>. QED BY <1>3, <1>5, <1>6, <1>7 DEF Shape, Mints
<1>. QED BY <1>8

LEMMA ScopeStep == IInv /\ ScopeInv /\ [Next]_vars => ScopeInv'
<1>. SUFFICES ASSUME IInv, ScopeInv, [Next]_vars PROVE ScopeInv'
  OBVIOUS
<1>1. IInv' /\ Shape
  BY InductiveStep, StepShape DEF IInv
<1>2. CodesWithinRegistration'
  BY <1>1, CodeScopesStep DEF ScopeInv
<1>3. ASSUME NEW a \in DOMAIN access_tokens', access_tokens'[a].grant \in Code
      PROVE  MayRequest(access_tokens'[a].client_id, access_tokens'[a].scope)
  <2>1. access_tokens'[a].grant # None
    BY <1>3, ASAssumption
  <2>2. /\ access_tokens'[a].grant \in DOMAIN codes'
        /\ codes'[access_tokens'[a].grant].client_id = access_tokens'[a].client_id
    BY <1>1, <1>3, <2>1 DEF IInv, Provenance
  <2>3. access_tokens'[a].scope \subseteq codes'[access_tokens'[a].grant].scope
    BY <1>1, <1>3, TokenScopesStep
  <2>. QED BY <1>2, <2>2, <2>3 DEF CodesWithinRegistration, MayRequest
<1>. QED BY <1>1, <1>2, <1>3, TokenScopesStep DEF ScopeInv, ScopeNeverWidens

\* However often it is refreshed, a code yields no more than the user approved and
\* the client registered.
THEOREM ScopeIsBounded == Spec => []ScopeNeverWidens
<1>1. Init => ScopeInv
  BY DEF Init, Empty, ScopeInv, ScopeNeverWidens, CodesWithinRegistration
<1>2. IInv /\ ScopeInv /\ [Next]_vars => ScopeInv'
  BY ScopeStep
<1>3. ScopeInv => ScopeNeverWidens
  BY DEF ScopeInv
<1>. QED BY <1>1, <1>2, <1>3, Invariance, PTL DEF Spec

----------------------------------------------------------------------------
(* Sender constraints: the keys and certificates that tokens are bound to. *)

\* The successor r |-> q keeps the constraints that r has; it may add one.
Succeeds(r, q) ==
  /\ r.cnf_jkt # None => q.cnf_jkt = r.cnf_jkt
  /\ r.cnf_x5t # None => q.cnf_x5t = r.cnf_x5t

KeptBinding(r, q) == q.cnf_jkt = r.cnf_jkt /\ q.cnf_x5t = r.cnf_x5t /\ q.grant = r.grant

\* Where a new token has its constraint from
Bound(q) ==
  \/ q.grant \notin Code
  \/ \E u \in DOMAIN refresh_tokens : q.grant = refresh_tokens[u].grant /\ Succeeds(refresh_tokens[u], q)
  \/ /\ q.grant \in DOMAIN codes
     /\ codes[q.grant].dpop_jkt # None => q.cnf_jkt = codes[q.grant].dpop_jkt

RefreshBindings ==
  /\ \A t \in DOMAIN refresh_tokens :
       /\ t \in DOMAIN refresh_tokens' /\ KeptBinding(refresh_tokens[t], refresh_tokens'[t])
       /\ \/ refresh_tokens'[t].rotated_to = refresh_tokens[t].rotated_to
          \/ /\ refresh_tokens'[t].rotated_to \in DOMAIN refresh_tokens'
             /\ Succeeds(refresh_tokens'[t], refresh_tokens'[refresh_tokens'[t].rotated_to])
  /\ \A t \in DOMAIN refresh_tokens' \ DOMAIN refresh_tokens :
       refresh_tokens'[t].rotated_to = None /\ Bound(refresh_tokens'[t])

AccessBindings ==
  /\ \A a \in DOMAIN access_tokens :
       a \in DOMAIN access_tokens' /\ KeptBinding(access_tokens[a], access_tokens'[a])
  /\ \A a \in DOMAIN access_tokens' \ DOMAIN access_tokens : Bound(access_tokens'[a])

CodeBindings ==
  \A k \in DOMAIN codes : k \in DOMAIN codes' /\ codes'[k].dpop_jkt = codes[k].dpop_jkt

\* Setting a flag changes neither a constraint nor a successor.
LEMMA FlagsUnbound ==
  /\ \A r \in RefreshRec : /\ KeptBinding(r, [r EXCEPT !.revoked = TRUE])
                           /\ [r EXCEPT !.revoked = TRUE].rotated_to = r.rotated_to
  /\ \A r \in AccessRec : KeptBinding(r, [r EXCEPT !.revoked = TRUE])
  /\ \A r \in CodeRec : [r EXCEPT !.used = TRUE].dpop_jkt = r.dpop_jkt
<1>1. \A r \in RefreshRec : /\ KeptBinding(r, [r EXCEPT !.revoked = TRUE])
                            /\ [r EXCEPT !.revoked = TRUE].rotated_to = r.rotated_to
  BY DEF RefreshRec, KeptBinding
<1>2. \A r \in AccessRec : KeptBinding(r, [r EXCEPT !.revoked = TRUE])
  BY DEF AccessRec, KeptBinding
<1>3. \A r \in CodeRec : [r EXCEPT !.used = TRUE].dpop_jkt = r.dpop_jkt
  BY DEF CodeRec
<1>. QED BY <1>1, <1>2, <1>3

\* What every step does to the constraints
LEMMA BindingShape == TypeOK /\ [Next]_vars => RefreshBindings /\ AccessBindings /\ CodeBindings
<1>. SUFFICES ASSUME TypeOK, [Next]_vars PROVE RefreshBindings /\ AccessBindings /\ CodeBindings
  OBVIOUS
<1>a. /\ \A k \in DOMAIN codes : codes[k] \in CodeRec
      /\ \A t \in DOMAIN refresh_tokens : refresh_tokens[t] \in RefreshRec
      /\ \A a \in DOMAIN access_tokens : access_tokens[a] \in AccessRec
  BY DEF TypeOK, Dict
<1>r. refresh_tokens' = refresh_tokens => RefreshBindings
  BY DEF RefreshBindings, KeptBinding
<1>t. access_tokens' = access_tokens => AccessBindings
  BY DEF AccessBindings, KeptBinding
<1>c. codes' = codes => CodeBindings
  BY DEF CodeBindings
<1>p. ASSUME NEW a \in FreshAccessIds, NEW rec, Bound(rec), access_tokens' = Put(access_tokens, a, rec)
      PROVE  AccessBindings
  BY <1>p DEF Put, AccessBindings, KeptBinding, FreshAccessIds
<1>q. ASSUME NEW t \in FreshRefreshIds, NEW rec, Bound(rec), rec.rotated_to = None,
             refresh_tokens' = Put(refresh_tokens, t, rec)
      PROVE  RefreshBindings
  BY <1>q DEF Put, RefreshBindings, KeptBinding, FreshRefreshIds
<1>u. ASSUME NEW c, NEW s, access_tokens' = RevokeAccess(c, s)
      PROVE  AccessBindings
  BY <1>a, <1>u, FlagsUnbound DEF RevokeAccess, AccessBindings, KeptBinding
<1>v. ASSUME NEW f, refresh_tokens' = RevokeFamily(f)
      PROVE  RefreshBindings
  BY <1>a, <1>v, FlagsUnbound DEF RevokeFamily, RefreshBindings, KeptBinding
<1>w. ASSUME NEW c, NEW s, refresh_tokens' = RevokeRefreshOf(c, s)
      PROVE  RefreshBindings
  BY <1>a, <1>w, FlagsUnbound DEF RevokeRefreshOf, RefreshBindings, KeptBinding
<1>1. ASSUME NEW c, NEW s, NEW scope, NEW uri, NEW challenge, NEW resource, NEW jkt, NEW code,
             Authorize(c, s, scope, uri, challenge, resource, jkt, code)
      PROVE  RefreshBindings /\ AccessBindings /\ CodeBindings
  <2>1. CodeBindings
    BY <1>1 DEF Authorize, Put, CodeBindings
  <2>. QED BY <1>1, <1>r, <1>t, <2>1 DEF Authorize
<1>2. ASSUME NEW c, NEW k \in Code, NEW uri, NEW verifier, NEW jkt, NEW x5t,
             NEW a \in FreshAccessIds, NEW t \in FreshRefreshIds, NEW f,
             RedeemCode(c, k, uri, verifier, jkt, x5t, a, t, f)
      PROVE  RefreshBindings /\ AccessBindings /\ CodeBindings
  <2>. DEFINE ar == NewAccess(c, codes[k].subject, codes[k].scope, Or(codes[k].resource, DefaultResource), jkt,
                              BoundCertificate(c, x5t), f, k)
              rr == NewRefresh(c, codes[k].subject, codes[k].scope, jkt, BoundCertificate(c, x5t), f, k)
  <2>1. /\ k \in DOMAIN codes /\ (codes[k].dpop_jkt # None => codes[k].dpop_jkt = jkt)
        /\ codes' = [codes EXCEPT ![k] = [codes[k] EXCEPT !.used = TRUE]]
        /\ access_tokens' = Put(access_tokens, a, ar) /\ refresh_tokens' = Put(refresh_tokens, t, rr)
    BY <1>2 DEF RedeemCode, CodeRedeemable
  <2>2. /\ ar.cnf_jkt = jkt /\ ar.grant = k
        /\ rr.cnf_jkt = jkt /\ rr.grant = k /\ rr.rotated_to = None
    BY DEF NewAccess, NewRefresh
  <2>. HIDE DEF ar, rr
  <2>3. Bound(ar) /\ Bound(rr)
    BY <2>1, <2>2 DEF Bound
  <2>4. CodeBindings
    BY <1>a, <2>1, FlagsUnbound DEF CodeBindings
  <2>. QED BY <1>p, <1>q, <2>1, <2>2, <2>3, <2>4
<1>3. ASSUME NEW c, NEW k, NEW jkt, ReplayCode(c, k, jkt)
      PROVE  RefreshBindings /\ AccessBindings /\ CodeBindings
  BY <1>3, <1>c, <1>u, <1>w DEF ReplayCode
<1>4. ASSUME NEW c, NEW t \in DOMAIN refresh_tokens, NEW requested, NEW jkt, NEW x5t, NEW a \in FreshAccessIds,
             access_tokens' = Put(access_tokens, a, RefreshedAccess(c, refresh_tokens[t], requested, jkt, x5t))
      PROVE  AccessBindings
  <2>. DEFINE ar == RefreshedAccess(c, refresh_tokens[t], requested, jkt, x5t)
  <2>1. ar.grant = refresh_tokens[t].grant /\ Succeeds(refresh_tokens[t], ar)
    BY DEF RefreshedAccess, NewAccess, Or, Succeeds
  <2>2. access_tokens' = Put(access_tokens, a, ar)
    BY <1>4
  <2>. HIDE DEF ar
  <2>3. Bound(ar)
    BY <2>1 DEF Bound
  <2>. QED BY <1>p, <2>2, <2>3
<1>5. ASSUME NEW c, NEW t, NEW requested, NEW jkt, NEW x5t, NEW a \in FreshAccessIds,
             NEW next \in FreshRefreshIds, Rotate(c, t, requested, jkt, x5t, a, next)
      PROVE  RefreshBindings /\ AccessBindings /\ CodeBindings
  <2>. DEFINE token == refresh_tokens[t]
              spent == [token EXCEPT !.used = TRUE, !.rotated_to = next]
              rt == [refresh_tokens EXCEPT ![t] = spent]
              rr == NewRefresh(c, token.subject, NarrowedScope(token, requested), Or(token.cnf_jkt, jkt),
                         Or(token.cnf_x5t, BoundCertificate(c, x5t)), token.family_id, token.grant)
  <2>1. /\ t \in DOMAIN refresh_tokens /\ codes' = codes
        /\ access_tokens' = Put(access_tokens, a, RefreshedAccess(c, token, requested, jkt, x5t))
    BY <1>5 DEF Rotate
  <2>2. refresh_tokens' = Put(rt, next, rr)
    BY <1>5 DEF Rotate
  <2>3. next \notin DOMAIN refresh_tokens
    BY DEF FreshRefreshIds
  <2>4. KeptBinding(token, spent) /\ spent.rotated_to = next
    BY <1>a, <2>1 DEF RefreshRec, KeptBinding
  <2>5. rr.grant = token.grant /\ rr.rotated_to = None /\ Succeeds(token, rr)
    BY DEF NewRefresh, Or, Succeeds
  <2>. HIDE DEF rr, spent
  <2>6. /\ DOMAIN refresh_tokens' = DOMAIN refresh_tokens \cup {next} /\ refresh_tokens'[next] = rr
        /\ refresh_tokens'[t] = spent
        /\ \A u \in DOMAIN refresh_tokens : u # t => refresh_tokens'[u] = refresh_tokens[u]
    BY <2>1, <2>2, <2>3 DEF Put
  <2>7. Bound(rr)
    BY <2>1, <2>5 DEF Bound
  <2>8. Succeeds(spent, rr)
    BY <2>4, <2>5 DEF Succeeds, KeptBinding
  <2>9. RefreshBindings
    BY <2>1, <2>4, <2>5, <2>6, <2>7, <2>8 DEF RefreshBindings, KeptBinding
  <2>. QED BY <1>c, <1>4, <2>1, <2>9
<1>6. ASSUME NEW c, NEW t, NEW requested, NEW jkt, NEW x5t, NEW a \in FreshAccessIds,
             RefreshInPlace(c, t, requested, jkt, x5t, a)
      PROVE  RefreshBindings /\ AccessBindings /\ CodeBindings
  BY <1>6, <1>c, <1>r, <1>4 DEF RefreshInPlace
<1>7. ASSUME NEW c, NEW t, NEW jkt, ReuseRefresh(c, t, jkt)
      PROVE  RefreshBindings /\ AccessBindings /\ CodeBindings
  BY <1>7, <1>c, <1>u, <1>v DEF ReuseRefresh
<1>8. ASSUME NEW c, NEW requested, NEW jkt, NEW x5t, NEW a \in FreshAccessIds,
             ClientCredentials(c, requested, jkt, x5t, a)
      PROVE  RefreshBindings /\ AccessBindings /\ CodeBindings
  <2>. DEFINE scope == IF requested # {} THEN requested ELSE Config[c].scopes
              ar == NewAccess(c, None, scope, DefaultResource, jkt, BoundCertificate(c, x5t), None, None)
  <2>1. access_tokens' = Put(access_tokens, a, ar) /\ UNCHANGED <<codes, refresh_tokens>>
    BY <1>8 DEF ClientCredentials
  <2>2. ar.grant = None
    BY DEF NewAccess
  <2>. HIDE DEF ar
  <2>3. Bound(ar)
    BY <2>2, ASAssumption DEF Bound
  <2>. QED BY <1>c, <1>p, <1>r, <2>1, <2>3
<1>9. ASSUME UNCHANGED <<codes, refresh_tokens, access_tokens>>
      PROVE  RefreshBindings /\ AccessBindings /\ CodeBindings
  BY <1>9, <1>r, <1>t, <1>c
<1>10. ASSUME NEW c, NEW d \in Device, NEW jkt, NEW x5t, NEW a \in FreshAccessIds,
              NEW t \in FreshRefreshIds, NEW f, RedeemDevice(c, d, jkt, x5t, a, t, f)
       PROVE  RefreshBindings /\ AccessBindings /\ CodeBindings
  <2>. DEFINE ar == NewAccess(c, devices[d].subject, devices[d].scope, DefaultResource, jkt, BoundCertificate(c, x5t), f, d)
              rr == NewRefresh(c, devices[d].subject, devices[d].scope, jkt, BoundCertificate(c, x5t), f, d)
  <2>1. codes' = codes /\ access_tokens' = Put(access_tokens, a, ar) /\ refresh_tokens' = Put(refresh_tokens, t, rr)
    BY <1>10 DEF RedeemDevice
  <2>2. ar.grant = d /\ rr.grant = d /\ rr.rotated_to = None
    BY DEF NewAccess, NewRefresh
  <2>. HIDE DEF ar, rr
  <2>3. Bound(ar) /\ Bound(rr)
    BY <2>2, ASAssumption DEF Bound
  <2>. QED BY <1>c, <1>p, <1>q, <2>1, <2>2, <2>3
<1>11. ASSUME NEW c, NEW a, RevokeAccessToken(c, a)
       PROVE  RefreshBindings /\ AccessBindings /\ CodeBindings
  <2>1. /\ access_tokens' = [access_tokens EXCEPT ![a] = [access_tokens[a] EXCEPT !.revoked = TRUE]]
        /\ UNCHANGED <<codes, refresh_tokens>>
    BY <1>11 DEF RevokeAccessToken
  <2>2. AccessBindings
    BY <1>a, <2>1, FlagsUnbound DEF AccessBindings, KeptBinding
  <2>. QED BY <1>c, <1>r, <2>1, <2>2
<1>12. ASSUME NEW c, NEW t, RevokeRefreshToken(c, t)
       PROVE  RefreshBindings /\ AccessBindings /\ CodeBindings
  BY <1>12, <1>c, <1>t, <1>v DEF RevokeRefreshToken
<1>13. CASE DeviceGrant
  <2>1. \/ UNCHANGED <<codes, refresh_tokens, access_tokens>>
        \/ \E d \in Device, c \in Client, jkt \in Optional(Jkt), x5t \in Optional(X5t), a \in FreshAccessIds,
              t \in FreshRefreshIds, f \in FreshFamilies : RedeemDevice(c, d, jkt, x5t, a, t, f)
    BY <1>13 DEF DeviceGrant, DenyDevice, ApproveDevice, DeviceAuthorization, PollDevice
  <2>. QED BY <1>9, <1>10, <2>1
<1>14. CASE Tick \/ UNCHANGED vars
  BY <1>9, <1>14 DEF Tick, vars
<1>. QED
  BY <1>1, <1>2, <1>3, <1>5, <1>6, <1>7, <1>8, <1>11, <1>12, <1>13, <1>14
  DEF Next, AuthorizeSome, CodeGrant, RefreshGrant, ClientGrant, Revocation

\* A record carries the key its code was opened with.
ForCodeKey(r) ==
  r.grant \in Code => (codes[r.grant].dpop_jkt # None => r.cnf_jkt = codes[r.grant].dpop_jkt)

BindingInv ==
  /\ SenderConstraintKept
  /\ \A t \in DOMAIN refresh_tokens : ForCodeKey(refresh_tokens[t])
  /\ \A t \in DOMAIN refresh_tokens :
       refresh_tokens[t].rotated_to # None => refresh_tokens[t].rotated_to \in DOMAIN refresh_tokens

\* A new record is bound as its code or its predecessor is.
LEMMA BoundForCodeKey ==
  ASSUME Provenance, BindingInv, CodeBindings, NEW q, Bound(q)
  PROVE  q.grant \in Code => (codes'[q.grant].dpop_jkt # None => q.cnf_jkt = codes'[q.grant].dpop_jkt)
<1>. SUFFICES ASSUME q.grant \in Code, codes'[q.grant].dpop_jkt # None
              PROVE  q.cnf_jkt = codes'[q.grant].dpop_jkt
  OBVIOUS
<1>1. ASSUME NEW u \in DOMAIN refresh_tokens, q.grant = refresh_tokens[u].grant, Succeeds(refresh_tokens[u], q)
      PROVE  q.cnf_jkt = codes'[q.grant].dpop_jkt
  <2>1. q.grant \in DOMAIN codes
    BY <1>1 DEF Provenance
  <2>2. codes'[q.grant].dpop_jkt = codes[q.grant].dpop_jkt
    BY <2>1 DEF CodeBindings
  <2>3. refresh_tokens[u].cnf_jkt = codes[q.grant].dpop_jkt
    BY <1>1, <2>2 DEF BindingInv, ForCodeKey
  <2>. QED BY <1>1, <2>2, <2>3 DEF Succeeds
<1>2. ASSUME q.grant \in DOMAIN codes, codes[q.grant].dpop_jkt # None => q.cnf_jkt = codes[q.grant].dpop_jkt
      PROVE  q.cnf_jkt = codes'[q.grant].dpop_jkt
  BY <1>2 DEF CodeBindings
<1>. QED BY <1>1, <1>2 DEF Bound

LEMMA BindingStep ==
  ASSUME Provenance, BindingInv, RefreshBindings, AccessBindings, CodeBindings
  PROVE  BindingInv'
<1>1. \A t \in DOMAIN refresh_tokens' : ForCodeKey(refresh_tokens[t])'
  <2>1. ASSUME NEW t \in DOMAIN refresh_tokens PROVE ForCodeKey(refresh_tokens[t])'
    <3>1. KeptBinding(refresh_tokens[t], refresh_tokens'[t]) /\ ForCodeKey(refresh_tokens[t])
      BY DEF RefreshBindings, BindingInv
    <3>2. refresh_tokens[t].grant \in Code => refresh_tokens[t].grant \in DOMAIN codes
      BY DEF Provenance
    <3>. QED BY <3>1, <3>2 DEF ForCodeKey, KeptBinding, CodeBindings
  <2>2. ASSUME NEW t \in DOMAIN refresh_tokens' \ DOMAIN refresh_tokens PROVE ForCodeKey(refresh_tokens[t])'
    BY BoundForCodeKey DEF RefreshBindings, ForCodeKey
  <2>. QED BY <2>1, <2>2
<1>2. \A t \in DOMAIN refresh_tokens' :
        refresh_tokens'[t].rotated_to # None =>
          /\ refresh_tokens'[t].rotated_to \in DOMAIN refresh_tokens'
          /\ Succeeds(refresh_tokens'[t], refresh_tokens'[refresh_tokens'[t].rotated_to])
  <2>1. ASSUME NEW t \in DOMAIN refresh_tokens, refresh_tokens[t].rotated_to # None,
               refresh_tokens'[t].rotated_to = refresh_tokens[t].rotated_to
        PROVE  /\ refresh_tokens'[t].rotated_to \in DOMAIN refresh_tokens'
               /\ Succeeds(refresh_tokens'[t], refresh_tokens'[refresh_tokens'[t].rotated_to])
    <3>. DEFINE n == refresh_tokens[t].rotated_to
    <3>1. n \in DOMAIN refresh_tokens /\ Succeeds(refresh_tokens[t], refresh_tokens[n])
      BY <2>1 DEF BindingInv, SenderConstraintKept, Succeeds
    <3>2. /\ n \in DOMAIN refresh_tokens' /\ KeptBinding(refresh_tokens[n], refresh_tokens'[n])
          /\ KeptBinding(refresh_tokens[t], refresh_tokens'[t])
      BY <3>1 DEF RefreshBindings
    <3>. QED BY <2>1, <3>1, <3>2 DEF Succeeds, KeptBinding
  <2>. QED BY <2>1 DEF RefreshBindings
<1>3. \A a \in DOMAIN access_tokens' : access_tokens'[a].grant \in Code =>
        (codes'[access_tokens'[a].grant].dpop_jkt # None =>
           access_tokens'[a].cnf_jkt = codes'[access_tokens'[a].grant].dpop_jkt)
  <2>1. ASSUME NEW a \in DOMAIN access_tokens, access_tokens'[a].grant \in Code,
               codes'[access_tokens'[a].grant].dpop_jkt # None
        PROVE  access_tokens'[a].cnf_jkt = codes'[access_tokens'[a].grant].dpop_jkt
    <3>1. KeptBinding(access_tokens[a], access_tokens'[a]) /\ access_tokens[a].grant \in Code
      BY <2>1 DEF AccessBindings, KeptBinding
    <3>2. access_tokens[a].grant \in DOMAIN codes
      BY <3>1, ASAssumption DEF Provenance
    <3>3. codes'[access_tokens[a].grant].dpop_jkt = codes[access_tokens[a].grant].dpop_jkt
      BY <3>2 DEF CodeBindings
    <3>. QED BY <2>1, <3>1, <3>3 DEF BindingInv, SenderConstraintKept, KeptBinding
  <2>2. ASSUME NEW a \in DOMAIN access_tokens' \ DOMAIN access_tokens, access_tokens'[a].grant \in Code,
               codes'[access_tokens'[a].grant].dpop_jkt # None
        PROVE  access_tokens'[a].cnf_jkt = codes'[access_tokens'[a].grant].dpop_jkt
    BY <2>2, BoundForCodeKey DEF AccessBindings
  <2>. QED BY <2>1, <2>2
<1>4. SenderConstraintKept'
  BY <1>2, <1>3 DEF SenderConstraintKept, Succeeds
<1>. QED BY <1>1, <1>2, <1>4 DEF BindingInv

\* A code opened with dpop_jkt yields tokens for that key only, and rotation neither
\* drops nor exchanges a key or a certificate.
THEOREM ConstraintsSurvive == Spec => []SenderConstraintKept
<1>1. Init => BindingInv
  BY DEF Init, Empty, BindingInv, SenderConstraintKept
<1>2. IInv /\ BindingInv /\ [Next]_vars => BindingInv'
  BY BindingShape, BindingStep DEF IInv
<1>3. BindingInv => SenderConstraintKept
  BY DEF BindingInv
<1>. QED BY <1>1, <1>2, <1>3, Invariance, PTL DEF Spec
============================================================================
