------------------------ MODULE ResourceServerProofs ------------------------
(***************************************************************************)
(* What an API checks: the DPoP verifier accepts a fresh proof only if it  *)
(* never did before, for every max_age, every set of proofs and all clock  *)
(* ticks between and within calls; what an API has cached of keys and      *)
(* introspection answers is never older than promised, for all lifetimes   *)
(* and budgets; a token is accepted only if the issuer signed it, for all  *)
(* keys and algorithms. Who may use it is decided by roles, policies and   *)
(* relations, and logged: the searches through nested groups and relation  *)
(* tuples find all there is within their depth limit, and nothing else;    *)
(* the parser of a directory's query filters takes what its rules derive   *)
(* and gives it that meaning, for filters of every length.                 *)
(***************************************************************************)
EXTENDS DPoPVerifier, ResourceServers, JOSE, RBAC, ABAC, DecisionLog, GroupResolution, ReBAC,
  ScimFilters, FiniteSetTheorems, WellFoundedInduction, TLAPS

(***************************************************************************)
(* The DPoP verifier.                                                      *)
(***************************************************************************)

\* A call keeps a reading of the clock by which its proof was fresh.
CallSound ==
  verifying # None =>
    LET p == verifying.proof IN
      /\ verifying.read <= now
      /\ p.iat <= verifying.read + MaxAge
      /\ verifying.read <= p.iat + MaxAge

\* A proof whose window had ended when it was accepted is never read as fresh
\* again, nor is it held by a call that read the clock before.
OvertakenIsPast ==
  \A p \in Proof :
    uses[<<p, "overtaken">>] > 0 =>
      /\ now > p.iat + MaxAge
      /\ verifying # None => verifying.proof # p

AcceptedOnceAMoment == \A u \in Use : uses[u] <= 1

\* The inductive invariant: the retention rule is what makes the count of fresh
\* acceptances stay at one, and it needs iat to be no further than max_age
\* ahead of the call's first reading; that calls do not overlap is what makes
\* the count of overtaken ones stay at one.
IInv == TypeOK /\ SeenCoversFreshness /\ CallSound /\ OvertakenIsPast /\ AcceptedOnceAMoment

\* The values that the invariant compares are numbers.
LEMMA Numbers ==
  ASSUME TypeOK
  PROVE  /\ now \in Nat /\ MaxAge \in Nat
         /\ \A p \in Proof : /\ p.iat \in Int /\ p.jti \in Jti
                             /\ uses[<<p, "fresh">>] \in Nat
                             /\ uses[<<p, "overtaken">>] \in Nat
         /\ verifying # None => verifying.proof \in Proof /\ verifying.read \in Nat
         /\ \A j \in DOMAIN seen : seen[j] \in Nat
<1>1. \A p \in Proof : p.iat \in Int /\ p.jti \in Jti
  BY DPoPAssumption DEF Proof
<1>2. \A p \in Proof : <<p, "fresh">> \in Use /\ <<p, "overtaken">> \in Use
  BY DEF Use
<1>. QED BY <1>1, <1>2, DPoPAssumption DEF TypeOK, Verification

\* What the iat test says of the clock that it reads.
LEMMA FreshMeans ==
  ASSUME NEW p \in Proof, p.iat \in Int, now \in Nat, MaxAge \in Nat, Fresh(p)
  PROVE  p.iat <= now + MaxAge /\ now <= p.iat + MaxAge
  BY DEF Fresh, Distance

\* A proof that verify() accepts is not in the purged cache, so if it is still
\* fresh the retention rule says that it was never accepted before; and if its
\* window has ended it was not accepted like that before.
LEMMA FirstAcceptance ==
  ASSUME IInv, verifying # None, verifying.proof.jti \notin DOMAIN Purged
  PROVE  /\ uses[<<verifying.proof, Moment(verifying.proof)>>] = 0
         /\ Moment(verifying.proof) = "fresh" => ~EverAccepted(verifying.proof)
<1>. DEFINE p == verifying.proof
<1>1. /\ p \in Proof /\ p.iat \in Int /\ p.jti \in Jti
      /\ uses[<<p, "fresh">>] \in Nat /\ uses[<<p, "overtaken">>] \in Nat
      /\ now \in Nat /\ MaxAge \in Nat
  BY Numbers DEF IInv
<1>2. uses[<<p, "overtaken">>] = 0
  BY <1>1 DEF IInv, OvertakenIsPast
<1>3. ASSUME now <= p.iat + MaxAge, EverAccepted(p) PROVE FALSE
  <2>1. p.jti \in DOMAIN seen /\ seen[p.jti] >= p.iat + MaxAge
    BY <1>1, <1>3 DEF IInv, SeenCoversFreshness
  <2>2. seen[p.jti] \in Nat
    BY <2>1, Numbers DEF IInv
  <2>3. ~(seen[p.jti] < now)
    BY <1>1, <1>3, <2>1, <2>2
  <2>. QED BY <2>1, <2>3 DEF Purged
<1>4. now <= p.iat + MaxAge => uses[<<p, "fresh">>] = 0
  BY <1>1, <1>3 DEF EverAccepted
<1>. QED BY <1>2, <1>3, <1>4 DEF Moment

\* Type correctness is inductive on its own.
LEMMA TypeStep == TypeOK /\ [Next]_vars => TypeOK'
<1>. SUFFICES ASSUME TypeOK, [Next]_vars PROVE TypeOK'
  OBVIOUS
<1>. USE DPoPAssumption
<1>0. ASSUME NEW p \in Proof, NEW req, ReadClock(p, req)
      PROVE  TypeOK'
  <2>1. [proof |-> p, read |-> now] \in Verification
    BY Numbers DEF Verification
  <2>. QED BY <1>0, <2>1 DEF ReadClock, TypeOK
<1>1. ASSUME NEW token, NEW jkt, VerifyAccepts(token, jkt)
      PROVE  TypeOK'
  <2>. DEFINE p == verifying.proof
  <2>1. p \in Proof /\ p.jti \in Jti /\ verifying.read \in Nat
    BY <1>1, Numbers DEF VerifyAccepts
  <2>2. verifying.read + MaxAge * 2 \in Nat
    BY <2>1
  <2>3. DOMAIN seen' = DOMAIN Purged \cup {p.jti} /\ DOMAIN Purged \subseteq DOMAIN seen
    BY <1>1 DEF VerifyAccepts, Remembered, Purged
  <2>4. \A j \in DOMAIN seen' : seen'[j] \in Nat
    BY <1>1, <2>2, <2>3 DEF VerifyAccepts, Remembered, Expiry, Purged, TypeOK
  <2>5. <<p, Moment(p)>> \in Use
    BY <2>1 DEF Moment, Use
  <2>6. uses' \in [Use -> Nat]
    BY <1>1, <2>5 DEF VerifyAccepts, TypeOK
  <2>. QED BY <1>1, <2>1, <2>3, <2>4, <2>6 DEF VerifyAccepts, TypeOK
<1>2. ASSUME NEW token, NEW jkt, VerifyRejects(token, jkt)
      PROVE  TypeOK'
  BY <1>2 DEF VerifyRejects, Purged, TypeOK
<1>3. CASE IssueNonce
  BY <1>3 DEF IssueNonce, TypeOK
<1>4. CASE Tick
  BY <1>4 DEF Tick, TypeOK
<1>5. CASE UNCHANGED vars
  BY <1>5 DEF vars, TypeOK
<1>. QED BY <1>0, <1>1, <1>2, <1>3, <1>4, <1>5 DEF Next, Verify

\* Every step preserves the retention rule and the counts.
LEMMA InductiveStep == IInv /\ [Next]_vars => IInv'
<1>. SUFFICES ASSUME IInv, [Next]_vars PROVE IInv'
  OBVIOUS
<1>0. TypeOK /\ SeenCoversFreshness /\ CallSound /\ OvertakenIsPast /\ AcceptedOnceAMoment /\ TypeOK'
  BY TypeStep DEF IInv
<1>a. now \in Nat /\ MaxAge \in Nat /\ \A q \in Proof : q.iat \in Int
  BY <1>0, Numbers
<1>b. \A q \in Proof : uses[<<q, "overtaken">>] \in Nat
  BY <1>0, Numbers
<1>1. ASSUME NEW p \in Proof, NEW req, ReadClock(p, req)
      PROVE  IInv'
  <2>1. verifying' = [proof |-> p, read |-> now] /\ UNCHANGED <<now, seen, uses>>
    BY <1>1 DEF ReadClock
  <2>2. p.iat <= now + MaxAge /\ now <= p.iat + MaxAge
    BY <1>1, <1>a, FreshMeans DEF ReadClock
  <2>3. CallSound'
    BY <1>a, <2>1, <2>2 DEF CallSound
  <2>4. OvertakenIsPast'
    BY <1>0, <1>a, <1>b, <2>1, <2>2 DEF OvertakenIsPast
  <2>. QED BY <1>0, <2>1, <2>3, <2>4 DEF IInv, SeenCoversFreshness, EverAccepted, AcceptedOnceAMoment
<1>2. ASSUME NEW token, NEW jkt, VerifyAccepts(token, jkt)
      PROVE  IInv'
  <2>. DEFINE p == verifying.proof
  <2>1. /\ verifying # None /\ verifying' = None /\ now' = now
        /\ p.jti \notin DOMAIN Purged
        /\ DOMAIN seen' = DOMAIN Purged \cup {p.jti}
        /\ seen'[p.jti] = verifying.read + MaxAge * 2
    BY <1>2 DEF VerifyAccepts, Remembered, Expiry
  <2>2. /\ p \in Proof /\ p.iat \in Int /\ verifying.read \in Nat
        /\ verifying.read <= now /\ p.iat <= verifying.read + MaxAge
    BY <1>0, <2>1, Numbers DEF CallSound
  <2>3. /\ uses[<<p, Moment(p)>>] = 0 /\ <<p, Moment(p)>> \in Use
        /\ uses' = [uses EXCEPT ![<<p, Moment(p)>>] = 1]
    <3>1. uses[<<p, Moment(p)>>] = 0
      BY <2>1, FirstAcceptance
    <3>2. <<p, Moment(p)>> \in Use
      BY <2>2 DEF Moment, Use
    <3>. QED BY <1>0, <1>2, <3>1, <3>2 DEF VerifyAccepts, TypeOK
  <2>4. AcceptedOnceAMoment'
    BY <1>0, <2>3 DEF AcceptedOnceAMoment, TypeOK
  <2>5. \A j \in DOMAIN Purged : j # p.jti => seen'[j] = seen[j]
    BY <1>2 DEF VerifyAccepts, Remembered, Purged
  <2>6. ASSUME NEW q \in Proof, q # p
        PROVE  /\ uses'[<<q, "fresh">>] = uses[<<q, "fresh">>]
               /\ uses'[<<q, "overtaken">>] = uses[<<q, "overtaken">>]
    <3>1. <<q, "fresh">> \in Use /\ <<q, "overtaken">> \in Use
      BY DEF Use
    <3>. QED BY <1>0, <2>3, <2>6, <3>1 DEF TypeOK
  <2>7. SeenCoversFreshness'
    <3>. SUFFICES ASSUME NEW q \in Proof, EverAccepted(q)', now' <= q.iat + MaxAge
                  PROVE  q.jti \in DOMAIN seen' /\ seen'[q.jti] >= q.iat + MaxAge
      BY DEF SeenCoversFreshness
    <3>1. CASE q = p
      BY <1>a, <2>1, <2>2, <3>1
    <3>2. CASE q # p
      <4>1. q.jti \in DOMAIN seen /\ seen[q.jti] >= q.iat + MaxAge
        BY <1>0, <2>1, <2>6, <3>2 DEF SeenCoversFreshness, EverAccepted
      <4>2. seen[q.jti] \in Nat
        BY <1>0, <4>1, Numbers
      <4>3. q.jti \in DOMAIN Purged
        BY <1>a, <2>1, <4>1, <4>2 DEF Purged
      <4>. QED BY <2>1, <2>5, <4>1, <4>3
    <3>. QED BY <3>1, <3>2
  <2>8. OvertakenIsPast'
    <3>. SUFFICES ASSUME NEW q \in Proof, uses'[<<q, "overtaken">>] > 0
                  PROVE  now > q.iat + MaxAge
      BY <2>1 DEF OvertakenIsPast
    <3>1. CASE q = p
      <4>1. CASE Moment(p) = "overtaken"
        BY <1>a, <2>2, <3>1, <4>1 DEF Moment
      <4>2. CASE Moment(p) = "fresh"
        <5>1. <<p, "overtaken">> \in Use /\ <<p, "overtaken">> # <<p, Moment(p)>>
          BY <2>2, <4>2 DEF Use
        <5>2. uses[<<p, "overtaken">>] > 0
          BY <1>0, <2>3, <3>1, <5>1 DEF TypeOK
        <5>. QED BY <1>0, <2>2, <3>1, <5>2 DEF OvertakenIsPast
      <4>. QED BY <4>1, <4>2 DEF Moment
    <3>2. CASE q # p
      BY <1>0, <2>6, <3>2 DEF OvertakenIsPast
    <3>. QED BY <3>1, <3>2
  <2>. QED BY <1>0, <2>1, <2>4, <2>7, <2>8 DEF IInv, CallSound
<1>3. ASSUME NEW token, NEW jkt, VerifyRejects(token, jkt)
      PROVE  IInv'
  <2>1. now' = now /\ uses' = uses /\ seen' = Purged /\ verifying' = None
    BY <1>3 DEF VerifyRejects
  <2>2. ASSUME NEW q \in Proof, EverAccepted(q)', now' <= q.iat + MaxAge
        PROVE  q.jti \in DOMAIN seen' /\ seen'[q.jti] >= q.iat + MaxAge
    <3>1. q.jti \in DOMAIN seen /\ seen[q.jti] >= q.iat + MaxAge
      BY <1>0, <2>1, <2>2 DEF SeenCoversFreshness, EverAccepted
    <3>2. seen[q.jti] \in Nat
      BY <1>0, <3>1, Numbers
    <3>. QED BY <1>a, <2>1, <2>2, <3>1, <3>2 DEF Purged
  <2>. QED BY <1>0, <2>1, <2>2
           DEF IInv, SeenCoversFreshness, CallSound, OvertakenIsPast, AcceptedOnceAMoment
<1>4. CASE IssueNonce \/ UNCHANGED vars
  <2>1. UNCHANGED <<now, seen, verifying, uses>>
    BY <1>4 DEF IssueNonce, vars
  <2>. QED BY <1>0, <2>1
           DEF IInv, SeenCoversFreshness, EverAccepted, CallSound, OvertakenIsPast, AcceptedOnceAMoment
<1>5. CASE Tick
  <2>1. now' = now + 1 /\ UNCHANGED <<seen, verifying, uses>>
    BY <1>5 DEF Tick
  <2>2. SeenCoversFreshness'
    BY <1>0, <1>a, <2>1 DEF SeenCoversFreshness, EverAccepted
  <2>3. CallSound'
    BY <1>0, <1>a, <2>1, Numbers DEF CallSound
  <2>4. OvertakenIsPast'
    BY <1>0, <1>a, <2>1 DEF OvertakenIsPast
  <2>. QED BY <1>0, <2>1, <2>2, <2>3, <2>4 DEF IInv, AcceptedOnceAMoment
<1>. QED BY <1>1, <1>2, <1>3, <1>4, <1>5 DEF Next, Verify

LEMMA InitIInv == Init => IInv
<1>1. \A p \in Proof : <<p, "fresh">> \in Use /\ <<p, "overtaken">> \in Use
  BY DEF Use
<1>2. ASSUME Init PROVE \A u \in Use : uses[u] = 0
  BY <1>2 DEF Init
<1>3. Init => TypeOK
  BY DPoPAssumption DEF Init, TypeOK
<1>. SUFFICES ASSUME Init PROVE IInv
  OBVIOUS
<1>4. verifying = None
  BY DEF Init
<1>5. \A p \in Proof : uses[<<p, "fresh">>] = 0 /\ uses[<<p, "overtaken">>] = 0
  BY <1>1, <1>2
<1>6. AcceptedOnceAMoment
  BY <1>2 DEF AcceptedOnceAMoment
<1>7. ASSUME NEW p \in Proof PROVE ~(uses[<<p, "overtaken">>] > 0) /\ ~EverAccepted(p)
  <2>1. uses[<<p, "overtaken">>] = 0 /\ uses[<<p, "fresh">>] = 0
    BY <1>5
  <2>. QED BY <2>1 DEF EverAccepted
<1>8. SeenCoversFreshness /\ OvertakenIsPast
  BY <1>7, Zenon DEF SeenCoversFreshness, OvertakenIsPast
<1>. QED BY <1>3, <1>4, <1>6, <1>8 DEF IInv, CallSound

\* The verifier's state stays well-formed.
THEOREM TypeCorrect == Spec => []TypeOK
<1>1. Init => TypeOK
  BY InitIInv DEF IInv
<1>. QED BY <1>1, TypeStep, PTL DEF Spec

\* While a used proof could still pass the clock check, verify() remembers it.
THEOREM RetentionCoversFreshness == Spec => []SeenCoversFreshness
<1>1. IInv => SeenCoversFreshness
  BY DEF IInv
<1>. QED BY <1>1, InitIInv, InductiveStep, PTL DEF Spec

\* What a step does to the count of acceptances: at most one of them grows, from
\* none, and if it is a fresh one the proof was not accepted before at all.
LEMMA CountStep ==
  ASSUME IInv, [Next]_vars
  PROVE  \/ UNCHANGED uses
         \/ \E p \in Proof :
              /\ <<p, Moment(p)>> \in Use
              /\ uses[<<p, Moment(p)>>] = 0
              /\ uses' = [uses EXCEPT ![<<p, Moment(p)>>] = 1]
              /\ Moment(p) = "fresh" => ~EverAccepted(p)
<1>1. ASSUME NEW token, NEW jkt, VerifyAccepts(token, jkt)
      PROVE  \E p \in Proof :
               /\ <<p, Moment(p)>> \in Use
               /\ uses[<<p, Moment(p)>>] = 0
               /\ uses' = [uses EXCEPT ![<<p, Moment(p)>>] = 1]
               /\ Moment(p) = "fresh" => ~EverAccepted(p)
  <2>. DEFINE p == verifying.proof
  <2>1. p \in Proof
    BY <1>1, Numbers DEF VerifyAccepts, IInv
  <2>2. <<p, Moment(p)>> \in Use
    BY <2>1 DEF Moment, Use
  <2>3. uses[<<p, Moment(p)>>] = 0 /\ (Moment(p) = "fresh" => ~EverAccepted(p))
    BY <1>1, FirstAcceptance DEF VerifyAccepts
  <2>4. uses' = [uses EXCEPT ![<<p, Moment(p)>>] = 1]
    BY <1>1, <2>2, <2>3 DEF VerifyAccepts, IInv, TypeOK
  <2>. QED BY <2>1, <2>2, <2>3, <2>4
<1>2. ASSUME NEW p \in Proof, NEW req, ReadClock(p, req)
      PROVE  UNCHANGED uses
  BY <1>2 DEF ReadClock
<1>3. ASSUME NEW token, NEW jkt, VerifyRejects(token, jkt)
      PROVE  UNCHANGED uses
  BY <1>3 DEF VerifyRejects
<1>4. IssueNonce \/ Tick \/ UNCHANGED vars => UNCHANGED uses
  BY DEF IssueNonce, Tick, vars
<1>. QED BY <1>1, <1>2, <1>3, <1>4 DEF Next, Verify

\* verify() accepts a fresh proof only if it never accepted that proof before.
THEOREM NoReplayWhileFresh == Spec => FreshIsFirst
<1>1. IInv /\ [Next]_vars =>
        [\A p \in Proof : uses'[<<p, "fresh">>] # uses[<<p, "fresh">>] => ~EverAccepted(p)]_vars
  <2>. SUFFICES ASSUME IInv, [Next]_vars, NEW p \in Proof,
                       uses'[<<p, "fresh">>] # uses[<<p, "fresh">>]
                PROVE  ~EverAccepted(p)
    OBVIOUS
  <2>1. PICK q \in Proof :
               /\ <<q, Moment(q)>> \in Use
               /\ uses' = [uses EXCEPT ![<<q, Moment(q)>>] = 1]
               /\ Moment(q) = "fresh" => ~EverAccepted(q)
    BY CountStep
  <2>2. <<p, "fresh">> \in Use
    BY DEF Use
  <2>3. <<q, Moment(q)>> = <<p, "fresh">>
    BY <2>1, <2>2 DEF IInv, TypeOK
  <2>. QED BY <2>1, <2>3
<1>. QED BY <1>1, InitIInv, InductiveStep, PTL DEF Spec, FreshIsFirst

\* The verifier implements one-time use as far as its clock lets it: each of
\* its steps is an abstract acceptance, of a fresh proof or of one that the
\* clock overtook, that did not occur before, or leaves the counts unchanged.
THEOREM Refinement == Spec => ImplementsOneTimeUse
<1>1. Init => OneTime!Init
  BY DEF Init, OneTime!Init
<1>2. IInv /\ [Next]_vars => [OneTime!Next]_uses
  BY CountStep DEF OneTime!Next, OneTime!Accept
<1>. QED BY <1>1, <1>2, InitIInv, InductiveStep, PTL DEF Spec, ImplementsOneTimeUse, OneTime!Spec

(***************************************************************************)
(* The caches.                                                             *)
(***************************************************************************)

\* A cached "active" was true cache_ttl before it runs out, and no answer was
\* given later than now.
AnswersWereTrue ==
  \A t \in DOMAIN cache :
    /\ cache[t].until <= api_now + CacheTTL
    /\ cache[t].active =>
         /\ cache[t].until <= tokens[t].expires_at + CacheTTL
         /\ tokens[t].revoked_at # Never => cache[t].until <= tokens[t].revoked_at + CacheTTL

\* The key of a token that has not expired is published, and so is the signing key.
KeysPublished ==
  /\ signing_kid \in published
  /\ \A kid \in published : kid <= signing_kid
  /\ \A t \in DOMAIN tokens : api_now <= tokens[t].expires_at => tokens[t].kid \in published

\* The API knows the published keys up to some rotation k, and no refresh was spent
\* but for a rotation up to k or for a kid that was not published.
KnownUpTo(k) ==
  /\ \A kid \in published : kid <= k => kid \in keys
  /\ refreshes <= k + junk

RefreshesPaid == \E k \in 0..signing_kid : KnownUpTo(k)

ApiInv == ApiTypeOK /\ AnswersWereTrue /\ KeysPublished /\ RefreshesPaid

LEMMA ApiInitially == ApiInit => ApiInv
<1>. SUFFICES ASSUME ApiInit PROVE ApiInv
  OBVIOUS
<1>. USE ResourceServersAssumption
<1>1. /\ api_now = 0 /\ signing_kid = 0 /\ published = {0} /\ keys = {0} /\ refreshes = 0 /\ junk = 0
      /\ tokens = <<>> /\ cache = <<>>
  BY DEF ApiInit
<1>2. DOMAIN tokens = {} /\ DOMAIN cache = {}
  BY <1>1
<1>3. /\ tokens \in [DOMAIN tokens -> AccessToken]
      /\ cache \in [DOMAIN cache -> [until : Nat, active : BOOLEAN]]
  BY <1>1, <1>2
<1>4. ApiTypeOK
  BY <1>1, <1>2, <1>3 DEF ApiTypeOK, Kid
<1>5. KnownUpTo(0) /\ 0 \in 0..signing_kid
  BY <1>1 DEF KnownUpTo
<1>. QED BY <1>1, <1>2, <1>4, <1>5 DEF ApiInv, AnswersWereTrue, KeysPublished, RefreshesPaid

\* What the numbers are.
LEMMA ApiNumbers ==
  ASSUME ApiTypeOK
  PROVE  /\ api_now \in Nat /\ signing_kid \in Nat /\ refreshes \in Nat /\ junk \in Nat
         /\ \A kid \in published : kid \in Nat
         /\ \A t \in DOMAIN tokens : /\ tokens[t] \in AccessToken /\ tokens[t].kid \in Kid
                                     /\ tokens[t].expires_at \in Nat
                                     /\ tokens[t].revoked_at \in Nat \cup {Never}
         /\ \A t \in DOMAIN cache : cache[t].until \in Nat /\ t \in DOMAIN tokens
BY ResourceServersAssumption DEF ApiTypeOK, Kid, AccessToken

LEMMA IssueTokenKeeps ==
  ASSUME ApiInv, NEW t \in ApiToken, IssueToken(t)
  PROVE  ApiInv'
<1>. USE ResourceServersAssumption DEF ApiInv
<1>. DEFINE new == [kid |-> signing_kid, expires_at |-> api_now + Lifetime, revoked_at |-> Never]
<1>1. new \in AccessToken /\ new.kid = signing_kid
  BY ApiNumbers DEF AccessToken, ApiTypeOK
<1>2. tokens' = Put(tokens, t, new)
  BY DEF IssueToken
<1>. HIDE DEF new
<1>3. /\ t \notin DOMAIN tokens
      /\ DOMAIN tokens' = DOMAIN tokens \cup {t} /\ tokens'[t] = new
      /\ \A u \in DOMAIN tokens : tokens'[u] = tokens[u]
      /\ tokens' = [u \in DOMAIN tokens' |-> tokens'[u]]
      /\ UNCHANGED <<api_now, signing_kid, published, keys, refreshes, junk, cache>>
  BY <1>2 DEF IssueToken, Put
<1>4. ApiTypeOK'
  <2>1. \A u \in DOMAIN tokens' : tokens'[u] \in AccessToken
    BY <1>1, <1>3 DEF ApiTypeOK
  <2>2. tokens' \in [DOMAIN tokens' -> AccessToken]
    BY <1>3, <2>1
  <2>. QED BY <1>3, <2>2 DEF ApiTypeOK
<1>5. AnswersWereTrue'
  BY <1>3, ApiNumbers DEF AnswersWereTrue
<1>6. KeysPublished'
  BY <1>1, <1>3 DEF KeysPublished
<1>7. RefreshesPaid'
  BY <1>3 DEF RefreshesPaid, KnownUpTo
<1>. QED BY <1>4, <1>5, <1>6, <1>7

LEMMA RevokeKeeps ==
  ASSUME ApiInv, NEW t \in DOMAIN tokens, Revoke(t)
  PROVE  ApiInv'
<1>. USE ResourceServersAssumption DEF ApiInv
<1>. DEFINE new == [tokens[t] EXCEPT !.revoked_at = api_now]
<1>1. /\ new \in AccessToken /\ new.kid = tokens[t].kid /\ new.expires_at = tokens[t].expires_at
      /\ new.revoked_at = api_now
  BY ApiNumbers DEF AccessToken
<1>2. tokens' = [tokens EXCEPT ![t] = new]
  BY DEF Revoke
<1>. HIDE DEF new
<1>3. /\ DOMAIN tokens' = DOMAIN tokens /\ tokens'[t] = new
      /\ \A u \in DOMAIN tokens : u # t => tokens'[u] = tokens[u]
      /\ tokens' \in [DOMAIN tokens -> AccessToken]
      /\ UNCHANGED <<api_now, signing_kid, published, keys, refreshes, junk, cache>>
  BY <1>1, <1>2 DEF Revoke, ApiTypeOK
<1>4. ApiTypeOK'
  BY <1>3 DEF ApiTypeOK
<1>5. AnswersWereTrue'
  BY <1>1, <1>3, ApiNumbers DEF AnswersWereTrue
<1>6. KeysPublished'
  BY <1>1, <1>3 DEF KeysPublished
<1>7. RefreshesPaid'
  BY <1>3 DEF RefreshesPaid, KnownUpTo
<1>. QED BY <1>4, <1>5, <1>6, <1>7

LEMMA IntrospectKeeps ==
  ASSUME ApiInv, NEW t \in DOMAIN tokens, Introspect(t)
  PROVE  ApiInv'
<1>. USE ResourceServersAssumption DEF ApiInv
<1>. DEFINE answer == [until |-> api_now + CacheTTL, active |-> Active(t)]
<1>1. /\ answer \in [until : Nat, active : BOOLEAN] /\ answer.until = api_now + CacheTTL
      /\ answer.active => tokens[t].revoked_at = Never /\ api_now <= tokens[t].expires_at
  <2>1. Active(t) \in BOOLEAN /\ (Active(t) => tokens[t].revoked_at = Never /\ api_now <= tokens[t].expires_at)
    BY DEF Active
  <2>2. api_now + CacheTTL \in Nat
    BY ApiNumbers
  <2>. QED BY <2>1, <2>2
<1>2. cache' = Put(cache, t, answer)
  BY DEF Introspect
<1>. HIDE DEF answer
<1>3. /\ DOMAIN cache' = DOMAIN cache \cup {t} /\ cache'[t] = answer
      /\ \A u \in DOMAIN cache : u # t => cache'[u] = cache[u]
      /\ cache' = [u \in DOMAIN cache' |-> cache'[u]]
      /\ UNCHANGED <<api_now, tokens, signing_kid, published, keys, refreshes, junk>>
  BY <1>2 DEF Introspect, Put
<1>4. ApiTypeOK'
  <2>1. \A u \in DOMAIN cache' : cache'[u] \in [until : Nat, active : BOOLEAN]
    BY <1>1, <1>3 DEF ApiTypeOK
  <2>2. cache' \in [DOMAIN cache' -> [until : Nat, active : BOOLEAN]]
    BY <1>3, <2>1
  <2>. QED BY <1>3, <2>2 DEF ApiTypeOK
<1>5. AnswersWereTrue'
  BY <1>1, <1>3, ApiNumbers DEF AnswersWereTrue
<1>6. KeysPublished' /\ RefreshesPaid'
  BY <1>3 DEF KeysPublished, RefreshesPaid, KnownUpTo
<1>. QED BY <1>4, <1>5, <1>6

\* A refresh for a published kid pays for the rotations since the last one.
LEMMA LookupKeeps ==
  ASSUME ApiInv, NEW kid \in Nat, Lookup(kid)
  PROVE  ApiInv'
<1>. USE ResourceServersAssumption DEF ApiInv
<1>0. PICK k \in 0..signing_kid : KnownUpTo(k)
  BY DEF RefreshesPaid
<1>1. /\ kid \notin keys /\ UNCHANGED <<api_now, tokens, signing_kid, published, cache>>
      /\ junk' = IF kid \in published THEN junk ELSE junk + 1
  BY DEF Lookup
<1>2. /\ junk' \in Nat /\ junk' >= junk /\ junk' = (IF kid \in published THEN junk ELSE junk + 1)
      /\ signing_kid \in Nat /\ refreshes \in Nat /\ junk \in Nat
  BY <1>1, ApiNumbers
<1>3. kid \in published => kid > k
  BY <1>0, <1>1, ApiNumbers DEF KnownUpTo
<1>4. CASE MayRefresh
  <2>1. refreshes' = refreshes + 1 /\ keys' = published
    BY <1>4 DEF Lookup, Refreshed
  <2>2. refreshes' \in 0..MaxRefreshes
    BY <1>2, <1>4, <2>1 DEF MayRefresh
  <2>3. ApiTypeOK'
    BY <1>1, <1>2, <2>1, <2>2 DEF ApiTypeOK
  <2>4. refreshes' <= signing_kid + junk'
    <3>1. CASE kid \in published
      <4>1. kid <= signing_kid /\ kid > k
        BY <1>3, <3>1 DEF KeysPublished
      <4>. QED BY <1>0, <1>2, <2>1, <4>1 DEF KnownUpTo
    <3>2. CASE kid \notin published
      BY <1>0, <1>2, <2>1, <3>2 DEF KnownUpTo
    <3>. QED BY <3>1, <3>2
  <2>5. KnownUpTo(signing_kid)' /\ signing_kid' \in 0..signing_kid'
    BY <1>1, <1>2, <2>1, <2>4 DEF KnownUpTo
  <2>6. RefreshesPaid'
    BY <1>1, <2>5 DEF RefreshesPaid, KnownUpTo
  <2>. QED BY <1>1, <2>3, <2>6 DEF AnswersWereTrue, KeysPublished
<1>5. CASE ~MayRefresh
  <2>1. UNCHANGED <<refreshes, keys>>
    BY <1>5 DEF Lookup
  <2>2. ApiTypeOK'
    BY <1>1, <1>2, <2>1 DEF ApiTypeOK
  <2>3. RefreshesPaid'
    BY <1>0, <1>1, <1>2, <2>1 DEF RefreshesPaid, KnownUpTo
  <2>. QED BY <1>1, <2>2, <2>3 DEF AnswersWereTrue, KeysPublished
<1>. QED BY <1>4, <1>5

LEMMA RotateKeeps ==
  ASSUME ApiInv, Rotate
  PROVE  ApiInv'
<1>. USE ResourceServersAssumption DEF ApiInv
<1>0. PICK k \in 0..signing_kid : KnownUpTo(k)
  BY DEF RefreshesPaid
<1>1. /\ signing_kid' = signing_kid + 1 /\ published' = published \cup {signing_kid + 1}
      /\ signing_kid + 1 \in Kid /\ signing_kid \in Nat
      /\ UNCHANGED <<api_now, tokens, keys, refreshes, junk, cache>>
  BY ApiNumbers DEF Rotate, ApiTypeOK, Kid
<1>2. ApiTypeOK' /\ AnswersWereTrue'
  BY <1>1 DEF ApiTypeOK, AnswersWereTrue
<1>3. KeysPublished'
  BY <1>1, ApiNumbers DEF KeysPublished
<1>4. RefreshesPaid'
  BY <1>0, <1>1 DEF RefreshesPaid, KnownUpTo
<1>. QED BY <1>2, <1>3, <1>4

LEMMA RetireKeeps ==
  ASSUME ApiInv, NEW kid \in Kid, Retire(kid)
  PROVE  ApiInv'
<1>. USE ResourceServersAssumption DEF ApiInv
<1>1. /\ kid # signing_kid /\ published' = published \ {kid}
      /\ \A t \in DOMAIN tokens : tokens[t].kid = kid => api_now > tokens[t].expires_at + Leeway
      /\ UNCHANGED <<api_now, tokens, signing_kid, keys, refreshes, junk, cache>>
  BY DEF Retire
<1>2. ApiTypeOK' /\ AnswersWereTrue'
  BY <1>1 DEF ApiTypeOK, AnswersWereTrue
<1>3. KeysPublished'
  BY <1>1, ApiNumbers DEF KeysPublished
<1>4. RefreshesPaid'
  BY <1>1 DEF RefreshesPaid, KnownUpTo
<1>. QED BY <1>2, <1>3, <1>4

LEMMA ApiStepKeeps == ApiInv /\ [ApiNext]_apiVars => ApiInv'
<1>. SUFFICES ASSUME ApiInv, [ApiNext]_apiVars PROVE ApiInv'
  OBVIOUS
<1>1. ASSUME NEW t \in ApiToken, IssueToken(t) PROVE ApiInv'
  BY <1>1, IssueTokenKeeps
<1>2. ASSUME NEW t \in DOMAIN tokens, Revoke(t) \/ Introspect(t) PROVE ApiInv'
  BY <1>2, RevokeKeeps, IntrospectKeeps
<1>3. ASSUME NEW t \in DOMAIN tokens, Lookup(tokens[t].kid) PROVE ApiInv'
  <2>1. tokens[t].kid \in Nat
    BY ApiNumbers DEF ApiInv, Kid
  <2>. QED BY <1>3, <2>1, LookupKeeps
<1>4. CASE Lookup(InventedKid)
  <2>1. InventedKid \in Nat
    BY ResourceServersAssumption DEF InventedKid
  <2>. QED BY <1>4, <2>1, LookupKeeps
<1>5. CASE Rotate
  BY <1>5, RotateKeeps
<1>6. ASSUME NEW kid \in Kid, Retire(kid) PROVE ApiInv'
  BY <1>6, RetireKeeps
<1>7. CASE ApiTick
  <2>1. /\ api_now' = api_now + 1
        /\ UNCHANGED <<tokens, signing_kid, published, keys, refreshes, junk, cache>>
    BY <1>7 DEF ApiTick
  <2>2. ApiTypeOK'
    BY <2>1 DEF ApiInv, ApiTypeOK
  <2>3. AnswersWereTrue' /\ KeysPublished'
    BY <2>1, ApiNumbers, ResourceServersAssumption DEF ApiInv, AnswersWereTrue, KeysPublished
  <2>4. RefreshesPaid'
    BY <2>1 DEF ApiInv, RefreshesPaid, KnownUpTo
  <2>. QED BY <2>2, <2>3, <2>4 DEF ApiInv
<1>8. CASE UNCHANGED apiVars
  BY <1>8
  DEF apiVars, ApiInv, ApiTypeOK, AnswersWereTrue, KeysPublished, RefreshesPaid, KnownUpTo
<1>. QED BY <1>1, <1>2, <1>3, <1>4, <1>5, <1>6, <1>7, <1>8 DEF ApiNext

\* Keys, tokens and cached answers keep their types.
THEOREM ApiTypeCorrect == ApiSpec => []ApiTypeOK
<1>1. ApiInv => ApiTypeOK
  BY DEF ApiInv
<1>. QED BY ApiInitially, ApiStepKeeps, <1>1, PTL DEF ApiSpec

\* Behind an introspection cache a dead token lives on for less than cache_ttl after its
\* revocation or its expiry; without one, not at all.
THEOREM DeadTokensDie == ApiSpec => []StalenessBounded
<1>1. ASSUME ApiInv PROVE StalenessBounded
  <2>1. SUFFICES ASSUME NEW t \in DOMAIN tokens, OpaqueAccepted(t), ~Active(t)
                 PROVE  /\ tokens[t].revoked_at # Never => api_now < tokens[t].revoked_at + CacheTTL
                        /\ api_now > tokens[t].expires_at => api_now < tokens[t].expires_at + CacheTTL
    BY DEF StalenessBounded
  <2>2. t \in DOMAIN cache /\ cache[t].until > api_now /\ cache[t].active
    BY <2>1 DEF OpaqueAccepted, Answered
  <2>. QED
    BY <1>1, <2>2, ApiNumbers, ResourceServersAssumption DEF ApiInv, AnswersWereTrue
<1>. QED BY ApiInitially, ApiStepKeeps, <1>1, PTL DEF ApiSpec

\* Rotations cost the API one refresh each at most: while they and the lookups of
\* unpublished kids stay within max_refreshes, every token that has not expired is accepted.
THEOREM RotationsFollowed == ApiSpec => []RotationFollowedWithinBudget
<1>1. ASSUME ApiInv PROVE RotationFollowedWithinBudget
  <2>1. SUFFICES ASSUME signing_kid + junk <= MaxRefreshes, NEW t \in DOMAIN tokens,
                        api_now <= tokens[t].expires_at
                 PROVE  JwtAccepted(t)
    BY DEF RotationFollowedWithinBudget, RotationFollowed
  <2>2. PICK k \in 0..signing_kid : KnownUpTo(k)
    BY <1>1 DEF ApiInv, RefreshesPaid
  <2>3. tokens[t].kid \in published /\ tokens[t].kid <= signing_kid /\ tokens[t].kid \in Nat
    BY <1>1, <2>1, ApiNumbers DEF ApiInv, KeysPublished
  <2>4. tokens[t].kid \notin keys => MayRefresh
    BY <1>1, <2>1, <2>2, <2>3, ApiNumbers, ResourceServersAssumption DEF ApiInv, KnownUpTo, MayRefresh
  <2>5. Resolves(tokens[t].kid)
    BY <2>3, <2>4 DEF Resolves, Refreshed
  <2>. QED
    BY <1>1, <2>1, <2>5, ApiNumbers, ResourceServersAssumption DEF ApiInv, JwtAccepted
<1>. QED BY ApiInitially, ApiStepKeeps, <1>1, PTL DEF ApiSpec

(***************************************************************************)
(* Signing and validating tokens.                                          *)
(***************************************************************************)

\* Issuer, validator and the two clocks; the model states no fairness.
JoseSpec == JoseInit /\ [][JoseNext]_joseVars

\* The keys that add() can hold, and what is left of them in a public set.
PrivateKeys == {Jwk(k, kid) : k \in SigningKey, kid \in KidArgument \cup {Nothing}}
PublicKeys == {Public(jwk) : jwk \in PrivateKeys}

\* The issuer has whole keys; the validator has loaded them or their public parts.
KeysSound == issuer_keys \in Seq(PrivateKeys) /\ loaded \in Seq(PrivateKeys \cup PublicKeys)

\* A key of a set says the type of the key it stands for, or is the empty rest of a secret.
Stands(jwk) ==
  \/ jwk.key \in SigningKey /\ jwk.kty = KeyType[jwk.key].kty /\ jwk.crv = KeyType[jwk.key].crv
  \/ jwk.key = Nothing /\ jwk.kty = "oct"

\* A token was made by issue() with the private part of a key that fits the algorithm.
IssuedWith(t, k) ==
  /\ t = [alg |-> t.alg, kid |-> t.kid, typ |-> "at+jwt", nominates |-> FALSE, claims |-> t.claims,
          signature |-> t.signature]
  /\ t.claims = [iss |-> "issuer", aud |-> {"api"}, iat |-> t.claims.iat, exp |-> t.claims.exp,
                 nbf |-> t.claims.nbf, nonce |-> t.claims.nonce]
  /\ t.alg \in DOMAIN ALGORITHMS /\ KeyFits(t.alg, KeyType[k])
  /\ t.signature = [alg |-> t.alg, key |-> Private(k), over |-> SigningInput(t)]
  /\ t.claims.iat \in Int /\ t.claims.exp \in Int
  /\ t.claims.nbf # Nothing => t.claims.nbf \in Int
  /\ t.claims.iat <= clock

\* What keeps NothingForgedAccepted: everything with an issuer's signature was issued as it is.
TokensSound == \A t \in jwts : \E k \in SigningKey : IssuedWith(t, k)

\* The inductive invariant
JoseInv == clock \in Int /\ skew \in Int /\ KeysSound /\ TokensSound

\* What the assumption says of a key's type.
LEMMA KeyTypes ==
  ASSUME NEW k \in SigningKey
  PROVE  /\ [kty |-> KeyType[k].kty, crv |-> KeyType[k].crv] = KeyType[k]
         /\ KeyType[k].kty = "OKP" => KeyType[k].crv = "Ed25519"
BY JOSEAssumption

\* What the assumption says of the numbers.
LEMMA JoseNumbers ==
  TokenLifetimes \subseteq Nat /\ TokenLeeway \in Nat /\ Skews \subseteq Int
BY JOSEAssumption

\* A key of the issuer is neither absent nor somebody else's.
LEMMA JoseNames == "own key" \notin SigningKey /\ Nothing \notin SigningKey
BY JOSEAssumption

\* A MAC takes a secret.
LEMMA MacTakesSecret ==
  ASSUME NEW alg, NEW type, KeyFits(alg, type), ALGORITHMS[alg].kind = "HMAC"
  PROVE  type.kty = "oct"
<1>1. RequiredType["HMAC"] = "oct"
  BY DEF RequiredType
<1>. QED BY <1>1 DEF KeyFits

\* The key type that a signature algorithm takes.
Type(jwk) == [kty |-> jwk.kty, crv |-> jwk.crv]

\* A whole key has the type that its constructor gave it.
LEMMA PrivateStands ==
  ASSUME NEW jwk \in PrivateKeys
  PROVE  /\ jwk.key \in SigningKey /\ jwk.kty = KeyType[jwk.key].kty /\ jwk.crv = KeyType[jwk.key].crv
         /\ Type(jwk) = KeyType[jwk.key]
<1>1. PICK k \in SigningKey, kid \in KidArgument \cup {Nothing} : jwk = Jwk(k, kid)
  BY DEF PrivateKeys
<1>2. jwk.key = k /\ jwk.kty = KeyType[k].kty /\ jwk.crv = KeyType[k].crv
  BY <1>1 DEF Jwk
<1>3. [kty |-> KeyType[k].kty, crv |-> KeyType[k].crv] = KeyType[k]
  BY KeyTypes
<1>. QED BY <1>2, <1>3 DEF Type

\* JWK.public keeps the type and, unless the key is a secret, what the key is.
LEMMA PublicStands ==
  ASSUME NEW jwk \in PrivateKeys
  PROVE  Stands(Public(jwk))
<1>1. PICK k \in SigningKey, kid \in KidArgument \cup {Nothing} : jwk = Jwk(k, kid)
  BY DEF PrivateKeys
<1>2. /\ Public(jwk).key = (IF jwk.kty = "oct" THEN Nothing ELSE jwk.key)
      /\ Public(jwk).kty = jwk.kty /\ Public(jwk).crv = jwk.crv
  BY <1>1 DEF Public, Jwk
<1>. QED BY <1>2, PrivateStands DEF Stands

\* So whatever the validator has loaded says the truth about its type.
LEMMA LoadedStand ==
  ASSUME KeysSound, NEW i \in DOMAIN loaded
  PROVE  Stands(loaded[i])
<1>1. loaded[i] \in PrivateKeys \cup PublicKeys
  BY DEF KeysSound
<1>. QED BY <1>1, PrivateStands, PublicStands DEF PublicKeys, Stands

\* by_kid() finds keys of the set only.
LEMMA FoundIsLoaded ==
  ASSUME KeysSound, NEW kid, NEW jwk \in by_kid(loaded, kid)
  PROVE  \E i \in DOMAIN loaded : jwk = loaded[i]
<1>1. DOMAIN loaded = 1..Len(loaded) /\ Len(loaded) \in Nat
  BY DEF KeysSound
<1>. QED BY <1>1 DEF by_kid

\* A signature that holds was made with the private part of one of the issuer's keys.
LEMMA SignerIsIssuer ==
  ASSUME KeysSound, NEW token, NEW allowed, VerifyJWS(token, allowed)
  PROVE  /\ token.signature # NoSignature
         /\ \E k \in SigningKey :
              token.signature = [alg |-> token.alg, key |-> Private(k), over |-> SigningInput(token)]
<1>1. token.signature # NoSignature /\ token.alg \in DOMAIN ALGORITHMS
  BY DEF VerifyJWS
<1>2. PICK jwk \in by_kid(loaded, token.kid) : HasMaterial(jwk) /\ SignatureHolds(token.alg, jwk, token)
  BY DEF VerifyJWS
<1>3. Stands(jwk)
  BY <1>2, FoundIsLoaded, LoadedStand
<1>4. ALGORITHMS[token.alg].kind = "HMAC" => jwk.kty = "oct"
  <2>1. KeyFits(token.alg, [kty |-> jwk.kty, crv |-> jwk.crv])
    BY <1>2 DEF SignatureHolds
  <2>2. [kty |-> jwk.kty, crv |-> jwk.crv].kty = jwk.kty
    OBVIOUS
  <2>. QED BY <2>1, <2>2, MacTakesSecret
<1>5. token.signature = [alg |-> token.alg, over |-> SigningInput(token), key |-> Private(jwk.key)]
  BY <1>2, <1>4 DEF SignatureHolds
<1>6. jwk.key \in SigningKey
  BY <1>2, <1>3 DEF HasMaterial, Stands
<1>. QED BY <1>1, <1>5, <1>6

\* A stretched token has the signature of the token it was, and a later end.
LEMMA TokenFields ==
  ASSUME JoseInv, NEW t \in jwts, NEW alg, NEW kid
  PROVE  /\ Stretched(t, alg, kid).signature = t.signature
         /\ Stretched(t, alg, kid).claims.exp = t.claims.exp + 9
<1>. DEFINE claims == t.claims
<1>1. /\ t = [alg |-> t.alg, kid |-> t.kid, typ |-> "at+jwt", nominates |-> FALSE, claims |-> claims,
              signature |-> t.signature]
      /\ claims = [iss |-> "issuer", aud |-> {"api"}, iat |-> claims.iat, exp |-> claims.exp,
                   nbf |-> claims.nbf, nonce |-> claims.nonce]
  BY DEF JoseInv, TokensSound, IssuedWith
<1>2. Longer(claims).exp = claims.exp + 9
  BY <1>1 DEF Longer
<1>. QED BY <1>1, <1>2 DEF Stretched

\* Nobody but the issuer has a private part of one of its keys.
LEMMA NothingForged == JoseInv => NothingForgedAccepted
<1>. SUFFICES ASSUME JoseInv, NEW token \in Altered \cup SelfMade, NEW allowed \in AllowedSets,
                     VerifyJWS(token, allowed)
              PROVE  FALSE
  BY DEF NothingForgedAccepted, Validate
<1>1. PICK k \in SigningKey :
        token.signature = [alg |-> token.alg, key |-> Private(k), over |-> SigningInput(token)]
  BY SignerIsIssuer DEF JoseInv
<1>2. ASSUME token \in Altered PROVE FALSE
  <2>1. PICK t \in jwts, alg \in DOMAIN ALGORITHMS \cup {"none"}, kid \in KidsInUse :
          token = Stretched(t, alg, kid)
    BY <1>2 DEF Altered
  <2>2. PICK by \in SigningKey : IssuedWith(t, by)
    BY DEF JoseInv, TokensSound
  <2>3. token.signature = t.signature /\ token.claims.exp = t.claims.exp + 9
    BY <2>1, TokenFields DEF JoseInv
  <2>4. SigningInput(token) = SigningInput(t)
    BY <1>1, <2>2, <2>3 DEF IssuedWith
  <2>5. token.claims = t.claims
    BY <2>4 DEF SigningInput
  <2>. QED BY <2>2, <2>3, <2>5 DEF IssuedWith
<1>3. ASSUME token \in SelfMade PROVE FALSE
  <2>1. token.signature = NoSignature \/ token.signature.key \in OthersKeys
    <3>1. ASSUME NEW t \in Blank PROVE t.signature = NoSignature
      <4>1. PICK nominates, alg, kid :
             t = [Unsigned(alg, kid, "at+jwt", OthersClaims) EXCEPT !.nominates = nominates]
        BY DEF Blank
      <4>. QED BY <4>1 DEF Unsigned
    <3>2. ASSUME NEW t \in Blank, NEW made_with PROVE Signed(t, made_with).signature.key = made_with
      <4>1. PICK nominates, alg, kid :
             t = [Unsigned(alg, kid, "at+jwt", OthersClaims) EXCEPT !.nominates = nominates]
        BY DEF Blank
      <4>. QED BY <4>1 DEF Unsigned, Signed
    <3>. QED BY <1>3, <3>1, <3>2 DEF SelfMade
  <2>2. token.signature # NoSignature
    BY SignerIsIssuer DEF JoseInv
  <2>3. token.signature.key = Private(k)
    BY <1>1
  <2>4. \A key : Private(k) # PublicBytes(key)
    BY DEF Private, PublicBytes
  <2>5. Private(k) # Private("own key")
    BY JoseNames DEF Private
  <2>. QED BY <2>1, <2>2, <2>3, <2>4, <2>5 DEF OthersKeys
<1>. QED BY <1>2, <1>3

\* by_kid() takes the first of the keys that it finds; there is one.
LEMMA LeastIndex ==
  ASSUME NEW S \in SUBSET Nat, S # {}
  PROVE  \E m \in S : \A j \in S : m <= j
<1>1. \E m \in S : \A j \in S : ~(<<j, m>> \in OpToRel(<, Nat))
  BY WFMin, NatLessThanWellFounded, Zenon
<1>2. \A m, j \in S : ~(<<j, m>> \in OpToRel(<, Nat)) => m <= j
  BY DEF OpToRel
<1>. QED BY <1>1, <1>2

\* by_kid() finds the key that alone has the kid.
LEMMA OnlyKeyFound ==
  ASSUME KeysSound, NEW kid, NEW i \in DOMAIN loaded,
         IF kid = Nothing THEN Len(loaded) = 1
         ELSE {loaded[j] : j \in {j \in DOMAIN loaded : loaded[j].kid = kid}} = {loaded[i]}
  PROVE  loaded[i] \in by_kid(loaded, kid)
<1>1. DOMAIN loaded = 1..Len(loaded) /\ Len(loaded) \in Nat
  BY DEF KeysSound
<1>2. CASE kid = Nothing
  BY <1>1, <1>2 DEF by_kid
<1>3. CASE kid # Nothing
  <2>. DEFINE Found == {j \in DOMAIN loaded : loaded[j].kid = kid}
  <2>1. \E j \in Found : TRUE
    <3>1. loaded[i] \in {loaded[j] : j \in Found}
      BY <1>3
    <3>. QED BY <3>1
  <2>2. Found \in SUBSET Nat /\ Found # {}
    BY <1>1, <2>1
  <2>3. PICK m \in Found : \A j \in Found : m <= j
    BY <2>2, LeastIndex
  <2>4. loaded[m] = loaded[i]
    BY <1>3, <2>3
  <2>. QED BY <1>3, <2>3, <2>4 DEF by_kid
<1>. QED BY <1>2, <1>3

\* What was issued is accepted in its time.
LEMMA OwnAccepted == JoseInv => OwnTokenAccepted
<1>. SUFFICES ASSUME JoseInv, NEW token \in jwts, NEW allowed \in AllowedSets, NEW i \in DOMAIN loaded,
                     token.signature.key = Private(loaded[i].key), token.alg \in allowed,
                     IF token.kid = Nothing THEN Len(loaded) = 1
                     ELSE {loaded[j] : j \in {j \in DOMAIN loaded : loaded[j].kid = token.kid}} = {loaded[i]},
                     skew \in -TokenLeeway..TokenLeeway, clock <= token.claims.exp,
                     token.claims.nbf # Nothing => clock >= token.claims.nbf
              PROVE  Validate(token, allowed, "api", token.claims.nonce)
  BY DEF OwnTokenAccepted
<1>. DEFINE jwk == loaded[i]
<1>1. PICK k \in SigningKey : IssuedWith(token, k)
  BY DEF JoseInv, TokensSound
<1>2. jwk.key = k
  BY <1>1 DEF IssuedWith, Private
<1>3. jwk.kty = KeyType[k].kty /\ jwk.crv = KeyType[k].crv
  BY <1>2, LoadedStand, JoseNames DEF JoseInv, Stands
<1>4. [kty |-> jwk.kty, crv |-> jwk.crv] = KeyType[k]
  BY <1>3, KeyTypes
<1>5. KeyFits(token.alg, [kty |-> jwk.kty, crv |-> jwk.crv])
  BY <1>1, <1>4 DEF IssuedWith
<1>6. HasMaterial(jwk)
  BY <1>2, <1>3, KeyTypes, JoseNames DEF HasMaterial
<1>7. SignatureHolds(token.alg, jwk, token)
  <2>1. ~(ALGORITHMS[token.alg].kind = "HMAC" /\ jwk.kty # "oct")
    <3>1. [kty |-> jwk.kty, crv |-> jwk.crv].kty = jwk.kty
      OBVIOUS
    <3>. QED BY <1>5, <3>1, MacTakesSecret
  <2>2. token.signature = [alg |-> token.alg, key |-> Private(jwk.key), over |-> SigningInput(token)]
    BY <1>1, <1>2 DEF IssuedWith
  <2>. QED BY <1>5, <2>1, <2>2 DEF SignatureHolds
<1>8. VerifyJWS(token, allowed)
  <2>1. token.signature # NoSignature
    BY <1>1 DEF IssuedWith, NoSignature, ALGORITHMS
  <2>2. jwk \in by_kid(loaded, token.kid)
    BY OnlyKeyFound DEF JoseInv
  <2>. QED BY <1>1, <1>6, <1>7, <2>1, <2>2 DEF VerifyJWS, IssuedWith
<1>9. Timely(token.claims, clock + skew)
  <2>1. /\ clock \in Int /\ skew \in Int /\ TokenLeeway \in Nat
        /\ token.claims.iat \in Int /\ token.claims.exp \in Int /\ token.claims.iat <= clock
        /\ token.claims.nbf # Nothing => token.claims.nbf \in Int
    BY <1>1, JoseNumbers DEF IssuedWith, JoseInv
  <2>. QED BY <2>1 DEF Timely
<1>. QED BY <1>1, <1>8, <1>9 DEF Validate, IssuedWith

\* Before the first key there is nothing to check.
LEMMA JoseInitially == JoseInit => JoseInv
BY DEF JoseInit, JoseInv, KeysSound, TokensSound

\* A token keeps what it was issued with while the clock goes on.
LEMMA TokensStay ==
  ASSUME TokensSound, clock \in Int, clock' \in Int, clock' >= clock, jwts' = jwts
  PROVE  TokensSound'
<1>1. ASSUME NEW t \in jwts, NEW k \in SigningKey, IssuedWith(t, k)
      PROVE  IssuedWith(t, k)'
  BY <1>1 DEF IssuedWith
<1>. QED BY <1>1 DEF TokensSound

\* Replacing the signature of a token.
LEMMA WithSignature ==
  ASSUME NEW a, NEW k, NEW y, NEW n, NEW c, NEW none, NEW s, NEW t,
         t = [alg |-> a, kid |-> k, typ |-> y, nominates |-> n, claims |-> c, signature |-> none]
  PROVE  [t EXCEPT !.signature = s] =
           [alg |-> a, kid |-> k, typ |-> y, nominates |-> n, claims |-> c, signature |-> s]
OBVIOUS

\* JWS.sign covers all other parts of the token.
LEMMA SignedAs ==
  ASSUME NEW t, NEW a, NEW k, NEW y, NEW n, NEW c, NEW by,
         t = [alg |-> a, kid |-> k, typ |-> y, nominates |-> n, claims |-> c, signature |-> NoSignature]
  PROVE  Signed(t, by) =
           [alg |-> a, kid |-> k, typ |-> y, nominates |-> n, claims |-> c,
            signature |-> [alg |-> a, key |-> by, over |-> <<a, k, y, n, c>>]]
<1>1. t.alg = a /\ SigningInput(t) = <<a, k, y, n, c>>
  BY DEF SigningInput
<1>2. PICK s : s = [alg |-> a, key |-> by, over |-> <<a, k, y, n, c>>]
  OBVIOUS
<1>3. Signed(t, by) = [t EXCEPT !.signature = s]
  BY <1>1, <1>2 DEF Signed
<1>4. [t EXCEPT !.signature = s] =
        [alg |-> a, kid |-> k, typ |-> y, nominates |-> n, claims |-> c, signature |-> s]
  BY WithSignature
<1>. QED BY <1>2, <1>3, <1>4

\* The token that issue() makes.
LEMMA SignedToken ==
  ASSUME NEW alg, NEW kid, NEW typ, NEW claims, NEW by
  PROVE  Signed(Unsigned(alg, kid, typ, claims), by) =
           [alg |-> alg, kid |-> kid, typ |-> typ, nominates |-> FALSE, claims |-> claims,
            signature |-> [alg |-> alg, key |-> by, over |-> <<alg, kid, typ, FALSE, claims>>]]
<1>1. PICK no : no = FALSE
  OBVIOUS
<1>2. Unsigned(alg, kid, typ, claims) =
        [alg |-> alg, kid |-> kid, typ |-> typ, nominates |-> no, claims |-> claims,
         signature |-> NoSignature]
  BY <1>1 DEF Unsigned
<1>3. Signed(Unsigned(alg, kid, typ, claims), by) =
        [alg |-> alg, kid |-> kid, typ |-> typ, nominates |-> no, claims |-> claims,
         signature |-> [alg |-> alg, key |-> by, over |-> <<alg, kid, typ, no, claims>>]]
  BY <1>2, SignedAs
<1>. QED BY <1>1, <1>3

\* issue() refuses a key that does not fit the algorithm, so its token is IssuedWith that key.
LEMMA IssueKeeps ==
  ASSUME JoseInv, NEW i \in DOMAIN issuer_keys, NEW alg \in DOMAIN ALGORITHMS, NEW named \in BOOLEAN,
         NEW lifetime \in TokenLifetimes, NEW not_before \in {Nothing, clock + 1}, NEW nonce,
         Issue(issuer_keys[i], alg, named, lifetime, not_before, nonce)
  PROVE  JoseInv'
<1>. DEFINE jwk == issuer_keys[i]
            kid == IF named THEN jwk.kid ELSE Nothing
            claims == [iss |-> "issuer", aud |-> {"api"}, iat |-> clock, exp |-> clock + lifetime,
                       nbf |-> not_before, nonce |-> nonce]
            t == Signed(Unsigned(alg, kid, "at+jwt", claims), Private(jwk.key))
<1>1. /\ jwts' = jwts \cup {t} /\ KeyFits(alg, [kty |-> jwk.kty, crv |-> jwk.crv])
      /\ UNCHANGED <<issuer_keys, loaded, clock, skew>>
  BY DEF Issue
<1>2. jwk \in PrivateKeys
  BY DEF JoseInv, KeysSound
<1>3. jwk.key \in SigningKey /\ KeyFits(alg, KeyType[jwk.key])
  BY <1>1, <1>2, PrivateStands DEF Type
<1>4. /\ claims = [iss |-> "issuer", aud |-> {"api"}, iat |-> claims.iat, exp |-> claims.exp,
                   nbf |-> claims.nbf, nonce |-> claims.nonce]
      /\ claims.iat = clock /\ claims.exp \in Int /\ clock \in Int
      /\ claims.nbf # Nothing => claims.nbf \in Int
  BY JoseNumbers DEF JoseInv
<1>. HIDE DEF claims, kid
<1>. DEFINE over == <<alg, kid, "at+jwt", FALSE, claims>>
<1>5. /\ t = [alg |-> alg, kid |-> kid, typ |-> "at+jwt", nominates |-> FALSE, claims |-> claims,
              signature |-> [alg |-> alg, key |-> Private(jwk.key), over |-> over]]
  BY SignedToken
<1>. HIDE DEF t, jwk
<1>6. SigningInput(t) = over
  BY <1>5 DEF SigningInput
<1>. HIDE DEF over
<1>7. IssuedWith(t, jwk.key)
  <2>1. /\ t.alg = alg /\ t.claims = claims
        /\ t.signature = [alg |-> t.alg, key |-> Private(jwk.key), over |-> SigningInput(t)]
        /\ t = [alg |-> t.alg, kid |-> t.kid, typ |-> "at+jwt", nominates |-> FALSE,
                claims |-> t.claims, signature |-> t.signature]
    BY <1>5, <1>6
  <2>. QED BY <1>3, <1>4, <2>1 DEF IssuedWith
<1>8. TokensSound'
  <2>1. ASSUME NEW u, NEW k, IssuedWith(u, k) PROVE IssuedWith(u, k)'
    BY <1>1, <2>1 DEF IssuedWith
  <2>2. \A u \in jwts' : u \in jwts \/ u = t
    BY <1>1
  <2>3. \A u \in jwts' : \E k \in SigningKey : IssuedWith(u, k)
    BY <1>3, <1>7, <2>2 DEF TokensSound, JoseInv
  <2>. QED BY <2>1, <2>3 DEF TokensSound
<1>. QED BY <1>1, <1>8 DEF JoseInv, KeysSound

\* Adding keys, issuing, loading either set and the clocks keep the invariant.
LEMMA JoseStep == JoseInv /\ [JoseNext]_joseVars => JoseInv'
<1>. SUFFICES ASSUME JoseInv, [JoseNext]_joseVars PROVE JoseInv'
  OBVIOUS
<1>1. ASSUME NEW k \in SigningKey, NEW kid \in KidArgument \cup {Nothing}, AddKey(k, kid) PROVE JoseInv'
  <2>1. Jwk(k, kid) \in PrivateKeys
    BY DEF PrivateKeys
  <2>2. KeysSound'
    BY <1>1, <2>1 DEF AddKey, JoseInv, KeysSound
  <2>. QED BY <1>1, <2>2, TokensStay DEF AddKey, JoseInv
<1>2. ASSUME NEW i \in DOMAIN issuer_keys, NEW alg \in DOMAIN ALGORITHMS, NEW named \in BOOLEAN,
             NEW lifetime \in TokenLifetimes, NEW not_before \in {Nothing, clock + 1},
             NEW nonce \in {Nothing, "n"},
             Issue(issuer_keys[i], alg, named, lifetime, not_before, nonce)
      PROVE  JoseInv'
  BY <1>2, IssueKeeps
<1>3. CASE Load
  <2>1. DOMAIN issuer_keys = 1..Len(issuer_keys) /\ Len(issuer_keys) \in Nat
    BY DEF JoseInv, KeysSound
  <2>2. \A i \in 1..Len(issuer_keys) : Public(issuer_keys[i]) \in PublicKeys
    BY DEF PublicKeys, JoseInv, KeysSound
  <2>3. loaded' \in Seq(PrivateKeys \cup PublicKeys)
    BY <1>3, <2>1, <2>2 DEF Load
  <2>. QED BY <1>3, <2>3, TokensStay DEF Load, JoseInv, KeysSound
<1>4. CASE LoadPrivate
  BY <1>4, TokensStay DEF LoadPrivate, JoseInv, KeysSound
<1>5. CASE Elapse
  BY <1>5, TokensStay DEF Elapse, JoseInv, KeysSound
<1>6. CASE Drift
  BY <1>6, TokensStay, JoseNumbers DEF Drift, JoseInv, KeysSound
<1>7. CASE UNCHANGED joseVars
  BY <1>7, TokensStay DEF joseVars, JoseInv, KeysSound
<1>. QED BY <1>1, <1>2, <1>3, <1>4, <1>5, <1>6, <1>7 DEF JoseNext

\* A validator accepts nothing that the issuer has not signed, whichever keys, kids and
\* algorithms are mixed (jws.py, no algorithm confusion), and within the leeway it accepts
\* everything that was issued for it, if the kid leads to one key.
THEOREM TokensValidated == JoseSpec => []ValidationExact
<1>1. JoseSpec => []JoseInv
  BY JoseInitially, JoseStep, PTL DEF JoseSpec
<1>2. JoseInv => ValidationExact
  BY NothingForged, OwnAccepted DEF ValidationExact
<1>. QED BY <1>1, <1>2, PTL
(***************************************************************************)
(* RBAC: the two work lists, for every hierarchy of roles.                 *)
(***************************************************************************)

\* The three facts about the closure: it holds the known names, it is closed, and it
\* is the least such set.
LEMMA ClosureFacts ==
  ASSUME NEW e, NEW names
  PROVE  LET C == ClosureOf(e, names)
             D == DOMAIN e.roles
         IN  /\ C \subseteq D /\ names \cap D \subseteq C
             /\ \A r \in C : \A s \in e.roles[r].inherits : s \in D => s \in C
             /\ \A S \in SUBSET D : Closed(e, names, S) => C \subseteq S
BY DEF ClosureOf, Closed

\* What _assert_acyclic knows of the path and the stack once the start was taken: entries
\* of the stack were pushed by roles of the path; an edge that was followed leads to a role
\* of the path, is the only one followed to it, and none leads back to the start; every
\* other role of the path was reached along an edge.
Followed(e, start, path, stack) ==
  /\ start \in path /\ path \subseteq ClosureOf(e, {start})
  /\ \A i \in stack : \E p \in path : \E r \in e.roles[p].inherits : i = <<p, r>>
  /\ \A p \in path : \A r \in e.roles[p].inherits :
       <<p, r>> \notin stack /\ r \in DOMAIN e.roles =>
         /\ r \in path /\ r # start
         /\ \A q \in path : q # p /\ r \in e.roles[q].inherits => <<q, r>> \in stack
  /\ \A r \in path : r # start =>
       \E p \in path : r \in e.roles[p].inherits /\ <<p, r>> \notin stack

CheckSound(e, check) ==
  \/ check.path = {} /\ check.stack = {<<"start", check.start>>}
  \/ Followed(e, check.start, check.path, check.stack)

\* The local variables of _assert_acyclic
IsCheck(check) ==
  \E start, path, stack :
    \/ check = [kind |-> "check", start |-> start, path |-> path, stack |-> stack, raised |-> FALSE]
    \/ check = [kind |-> "check", start |-> start, path |-> path, stack |-> stack, raised |-> TRUE]

\* Taking an unknown role off the stack follows no edge.
LEMMA SkipKeeps ==
  ASSUME NEW e, NEW start, NEW path, NEW stack, Followed(e, start, path, stack),
         NEW item \in stack, item[2] \notin DOMAIN e.roles
  PROVE  Followed(e, start, path, stack \ {item})
<1>1. \A q, r : r \in DOMAIN e.roles => <<q, r>> # item
  OBVIOUS
<1>2. \A p \in path : \A r \in e.roles[p].inherits :
        <<p, r>> \notin stack \ {item} /\ r \in DOMAIN e.roles =>
          /\ r \in path /\ r # start
          /\ \A q \in path : q # p /\ r \in e.roles[q].inherits => <<q, r>> \in stack \ {item}
  BY <1>1 DEF Followed
<1>. QED BY <1>2 DEF Followed

\* Taking a known role that is not on the path follows one edge, to that role.
LEMMA FollowKeeps ==
  ASSUME NEW e, NEW start, NEW path, NEW stack, Followed(e, start, path, stack),
         NEW item \in stack, item[2] \notin path, item[2] \in DOMAIN e.roles
  PROVE  Followed(e, start, path \cup {item[2]}, (stack \ {item}) \cup PushedBy(e, item[2]))
<1>. DEFINE C        == ClosureOf(e, {start})
            current  == item[2]
            rest     == stack \ {item}
            pushed   == PushedBy(e, current)
            newpath  == path \cup {current}
            newstack == rest \cup pushed
<1>1. /\ start \in path /\ path \subseteq C
      /\ \A i \in stack : \E p \in path : \E r \in e.roles[p].inherits : i = <<p, r>>
      /\ \A p \in path : \A r \in e.roles[p].inherits :
           <<p, r>> \notin stack /\ r \in DOMAIN e.roles =>
             /\ r \in path /\ r # start
             /\ \A q \in path : q # p /\ r \in e.roles[q].inherits => <<q, r>> \in stack
      /\ \A r \in path : r # start =>
           \E p \in path : r \in e.roles[p].inherits /\ <<p, r>> \notin stack
  BY DEF Followed
<1>2. /\ \A r : <<current, r>> \in pushed <=> r \in e.roles[current].inherits
      /\ \A i \in pushed : \E r \in e.roles[current].inherits : i = <<current, r>>
  BY DEF PushedBy
<1>3. PICK p0 \in path : item = <<p0, current>> /\ current \in e.roles[p0].inherits
  BY <1>1, <1>2
<1>4. current \in C
  BY <1>1, <1>2, <1>3, ClosureFacts
<1>. HIDE DEF pushed
<1>5. \A i \in newstack : \E p \in newpath : \E r \in e.roles[p].inherits : i = <<p, r>>
  BY <1>1, <1>2
<1>6. ASSUME NEW p \in newpath, NEW r \in e.roles[p].inherits, <<p, r>> \notin newstack,
             r \in DOMAIN e.roles
      PROVE  /\ r \in newpath /\ r # start
             /\ \A q \in newpath : q # p /\ r \in e.roles[q].inherits => <<q, r>> \in newstack
  <2>1. p # current
    BY <1>1, <1>2, <1>6
  <2>2. CASE <<p, r>> = item
    <3>1. p = p0 /\ r = current
      BY <1>3, <2>2
    <3>2. ASSUME NEW q \in newpath, q # p, r \in e.roles[q].inherits PROVE <<q, r>> \in newstack
      <4>1. CASE q = current
        BY <1>1, <1>2, <3>2, <4>1
      <4>2. CASE q # current
        <5>1. q \in path
          BY <4>2
        <5>2. <<q, r>> \in stack
          BY <1>1, <1>2, <3>1, <3>2, <5>1
        <5>3. <<q, r>> # item
          BY <2>2, <3>2
        <5>. QED BY <5>2, <5>3
      <4>. QED BY <4>1, <4>2
    <3>. QED BY <1>1, <1>2, <3>1, <3>2
  <2>3. CASE <<p, r>> # item
    <3>1. p \in path /\ <<p, r>> \notin stack
      BY <1>6, <2>1, <2>3
    <3>2. /\ r \in path /\ r # start
          /\ \A q \in path : q # p /\ r \in e.roles[q].inherits => <<q, r>> \in stack
      BY <1>1, <1>2, <1>6, <3>1
    <3>3. ASSUME NEW q \in newpath, q # p, r \in e.roles[q].inherits PROVE <<q, r>> \in newstack
      <4>1. CASE q = current
        BY <1>1, <1>2, <3>3, <4>1
      <4>2. CASE q # current
        <5>1. <<q, r>> \in stack
          BY <3>2, <3>3, <4>2
        <5>2. <<q, r>> # item
          BY <1>3, <3>2
        <5>. QED BY <5>1, <5>2
      <4>. QED BY <4>1, <4>2
    <3>. QED BY <3>2, <3>3
  <2>. QED BY <2>2, <2>3
<1>7. ASSUME NEW r \in newpath, r # start
      PROVE  \E p \in newpath : r \in e.roles[p].inherits /\ <<p, r>> \notin newstack
  <2>1. \A p \in path : \A s : <<p, s>> \notin pushed
    BY <1>1, <1>2
  <2>2. CASE r = current
    BY <1>3, <2>1, <2>2
  <2>3. CASE r # current
    <3>1. PICK p \in path : r \in e.roles[p].inherits /\ <<p, r>> \notin stack
      BY <1>1, <1>2, <1>7, <2>3
    <3>. QED BY <2>1, <3>1
  <2>. QED BY <2>2, <2>3
<1>8. start \in newpath /\ newpath \subseteq C
  BY <1>1, <1>2, <1>4
<1>. HIDE DEF newpath, newstack
<1>9. Followed(e, start, newpath, newstack)
  BY <1>5, <1>6, <1>7, <1>8 DEF Followed
<1>. QED BY <1>9 DEF newpath, newstack, pushed

\* Two edges of the closure into one role, or one into the start, tangle it.
LEMMA TangledBy ==
  ASSUME NEW e, NEW start, NEW p \in ClosureOf(e, {start}), NEW c \in ClosureOf(e, {start}),
         c \in e.roles[p].inherits,
         \/ c = start
         \/ \E q \in ClosureOf(e, {start}) : q # p /\ c \in e.roles[q].inherits
  PROVE  Tangled(e, start)
<1>. DEFINE E == Edges(e, ClosureOf(e, {start}))
<1>1. <<p, c>> \in E
  BY DEF Edges
<1>2. CASE c = start
  <2>1. <<p, c>>[2] = start
    BY <1>2
  <2>. QED BY <1>1, <2>1 DEF Tangled
<1>3. ASSUME NEW q \in ClosureOf(e, {start}), q # p, c \in e.roles[q].inherits PROVE Tangled(e, start)
  <2>1. <<q, c>> \in E
    BY <1>3 DEF Edges
  <2>2. <<p, c>> # <<q, c>> /\ <<p, c>>[2] = <<q, c>>[2]
    BY <1>3
  <2>. QED BY <1>1, <2>1, <2>2 DEF Tangled
<1>. QED BY <1>2, <1>3

\* A turn of the loop keeps that, or raises because of such an edge.
LEMMA TurnKeeps ==
  ASSUME NEW e, NEW check, IsCheck(check), ~check.raised, CheckSound(e, check),
         check.start \in DOMAIN e.roles, NEW item \in check.stack
  PROVE  LET next == Turn(e, check, item)
         IN  /\ IsCheck(next) /\ next.start = check.start
             /\ next.raised => Tangled(e, next.start)
             /\ ~next.raised => CheckSound(e, next)
<1>. DEFINE current == item[2]
            next    == Turn(e, check, item)
<1>1. PICK start, path, stack :
        check = [kind |-> "check", start |-> start, path |-> path, stack |-> stack, raised |-> FALSE]
  BY DEF IsCheck
<1>2. /\ start \in DOMAIN e.roles /\ item \in stack
      /\ \/ path = {} /\ stack = {<<"start", start>>}
         \/ Followed(e, start, path, stack)
  BY <1>1 DEF CheckSound
<1>3. start \in ClosureOf(e, {start})
  BY <1>2, ClosureFacts
<1>4. CASE current \in path
  <2>1. next = [check EXCEPT !.raised = TRUE]
    BY <1>1, <1>4 DEF Turn
  <2>2. next = [kind |-> "check", start |-> start, path |-> path, stack |-> stack, raised |-> TRUE]
    BY <1>1, <2>1
  <2>3. Followed(e, start, path, stack)
    BY <1>2, <1>4
  <2>4. path \subseteq ClosureOf(e, {start})
    BY <2>3 DEF Followed
  <2>5. PICK p \in path : item = <<p, current>> /\ current \in e.roles[p].inherits
    BY <1>2, <2>3 DEF Followed
  <2>6. ASSUME current # start
        PROVE  \E q \in ClosureOf(e, {start}) : q # p /\ current \in e.roles[q].inherits
    <3>1. PICK q \in path : current \in e.roles[q].inherits /\ <<q, current>> \notin stack
      BY <1>4, <2>3, <2>6 DEF Followed
    <3>. QED BY <1>2, <2>4, <2>5, <3>1
  <2>7. Tangled(e, start)
    BY <1>4, <2>4, <2>5, <2>6, TangledBy
  <2>8. IsCheck(next)
    BY <2>2 DEF IsCheck
  <2>9. next.start = start /\ check.start = start /\ next.raised
    BY <1>1, <2>2
  <2>. QED BY <2>7, <2>8, <2>9
<1>5. CASE current \notin path /\ current \notin DOMAIN e.roles
  <2>. DEFINE rest == stack \ {item}
  <2>1. next = [check EXCEPT !.stack = check.stack \ {item}]
    BY <1>1, <1>5 DEF Turn
  <2>2. next = [kind |-> "check", start |-> start, path |-> path, stack |-> rest, raised |-> FALSE]
    BY <1>1, <2>1
  <2>3. item # <<"start", start>>
    BY <1>2, <1>5
  <2>4. Followed(e, start, path, rest)
    BY <1>2, <1>5, <2>3, SkipKeeps
  <2>. HIDE DEF rest
  <2>5. IsCheck(next)
    BY <2>2 DEF IsCheck
  <2>6. /\ next.start = start /\ check.start = start /\ ~next.raised
        /\ next.path = path /\ next.stack = rest
    BY <1>1, <2>2
  <2>7. CheckSound(e, next)
    BY <2>4, <2>6 DEF CheckSound
  <2>. QED BY <2>5, <2>6, <2>7
<1>6. CASE current \notin path /\ current \in DOMAIN e.roles
  <2>. DEFINE newpath == path \cup {current} newstack == (stack \ {item}) \cup PushedBy(e, current)
  <2>1. next = [check EXCEPT !.stack = (check.stack \ {item}) \cup PushedBy(e, current),
                             !.path = @ \cup {current}]
    BY <1>1, <1>6 DEF Turn
  <2>2. next = [kind |-> "check", start |-> start, path |-> newpath, stack |-> newstack,
                raised |-> FALSE]
    BY <1>1, <2>1
  <2>3. Followed(e, start, newpath, newstack)
    <3>1. CASE Followed(e, start, path, stack)
      BY <1>2, <1>6, <3>1, FollowKeeps
    <3>2. CASE path = {} /\ stack = {<<"start", start>>}
      <4>1. current = start /\ newpath = {start} /\ newstack = PushedBy(e, start)
        BY <1>2, <3>2
      <4>. QED BY <1>3, <4>1 DEF Followed, PushedBy
    <3>. QED BY <1>2, <3>1, <3>2
  <2>. HIDE DEF newpath, newstack
  <2>5. IsCheck(next)
    BY <2>2 DEF IsCheck
  <2>6. /\ next.start = start /\ check.start = start /\ ~next.raised
        /\ next.path = newpath /\ next.stack = newstack
    BY <1>1, <2>2
  <2>7. CheckSound(e, next)
    BY <2>3, <2>6 DEF CheckSound
  <2>. QED BY <2>5, <2>6, <2>7
<1>. QED BY <1>1, <1>4, <1>5, <1>6

\* When the stack is empty every edge was followed, so that no two lead to one role and none
\* to the start.
LEMMA EndIsTree ==
  ASSUME NEW e, NEW check, CheckSound(e, check), check.stack = {}
  PROVE  ~Tangled(e, check.start)
<1>. DEFINE C == ClosureOf(e, {check.start})
<1>1. /\ check.start \in check.path /\ check.path \subseteq C
      /\ \A p \in check.path : \A r \in e.roles[p].inherits : r \in DOMAIN e.roles =>
           /\ r \in check.path /\ r # check.start
           /\ \A q \in check.path : q # p => r \notin e.roles[q].inherits
  BY DEF CheckSound, Followed
<1>2. check.path \subseteq DOMAIN e.roles /\ C \subseteq DOMAIN e.roles
  BY <1>1, ClosureFacts
<1>3. Closed(e, {check.start}, check.path)
  BY <1>1 DEF Closed
<1>4. C \subseteq check.path
  BY <1>2, <1>3, ClosureFacts
<1>5. \A edge \in Edges(e, C) : \E p, r \in C : edge = <<p, r>> /\ r \in e.roles[p].inherits
  BY DEF Edges
<1>6. ASSUME NEW edge \in Edges(e, C) PROVE edge[2] # check.start
  <2>1. PICK p, r \in C : edge = <<p, r>> /\ r \in e.roles[p].inherits
    BY <1>5
  <2>2. p \in check.path /\ r \in DOMAIN e.roles /\ edge[2] = r
    BY <1>2, <1>4, <2>1
  <2>. QED BY <1>1, <2>1, <2>2
<1>7. ASSUME NEW edge \in Edges(e, C), NEW other \in Edges(e, C), edge # other
      PROVE  edge[2] # other[2]
  <2>1. PICK p, r \in C : edge = <<p, r>> /\ r \in e.roles[p].inherits
    BY <1>5
  <2>2. PICK q, s \in C : other = <<q, s>> /\ s \in e.roles[q].inherits
    BY <1>5
  <2>3. ASSUME r = s PROVE FALSE
    BY <1>1, <1>2, <1>4, <1>7, <2>1, <2>2, <2>3
  <2>. QED BY <2>1, <2>2, <2>3
<1>. QED BY <1>6, <1>7 DEF Tangled

\* What effective_roles knows of its queue and its result, for the names it started from
Found(e, names, queue, result) ==
  LET C == ClosureOf(e, names)
  IN  /\ result \subseteq C
      /\ queue \cap DOMAIN e.roles \subseteq C
      /\ names \cap DOMAIN e.roles \subseteq result \cup queue
      /\ \A r \in result : \A s \in e.roles[r].inherits :
           s \in DOMAIN e.roles => s \in result \cup queue

WalkSound(e, walk) ==
  \E subject, queue, result :
    /\ walk = [kind |-> "resolve", subject |-> subject, queue |-> queue, result |-> result]
    /\ Found(e, DictGet(e.assignments, subject, {}), queue, result)

\* A name of the closure that is known adds itself and puts what it inherits on the queue.
LEMMA FoundMore ==
  ASSUME NEW e, NEW names, NEW queue, NEW result, Found(e, names, queue, result),
         NEW name \in queue, name \in DOMAIN e.roles
  PROVE  Found(e, names, (queue \ {name}) \cup e.roles[name].inherits, result \cup {name})
<1>1. name \in ClosureOf(e, names)
  BY DEF Found
<1>2. \A s \in e.roles[name].inherits : s \in DOMAIN e.roles => s \in ClosureOf(e, names)
  BY <1>1, ClosureFacts
<1>. QED BY <1>1, <1>2 DEF Found

\* A turn adds what the closure has, and puts off nothing but the queue.
LEMMA VisitKeeps ==
  ASSUME NEW e, NEW walk, WalkSound(e, walk), NEW name \in walk.queue
  PROVE  WalkSound(e, Visit(e, walk, name))
<1>. DEFINE next == Visit(e, walk, name)
<1>1. PICK subject, queue, result :
        /\ walk = [kind |-> "resolve", subject |-> subject, queue |-> queue, result |-> result]
        /\ Found(e, DictGet(e.assignments, subject, {}), queue, result)
  BY DEF WalkSound
<1>2. CASE name \in result \/ name \notin DOMAIN e.roles
  <2>1. next = [walk EXCEPT !.queue = walk.queue \ {name}]
    BY <1>1, <1>2 DEF Visit
  <2>2. next = [kind |-> "resolve", subject |-> subject, queue |-> queue \ {name}, result |-> result]
    BY <1>1, <2>1
  <2>3. Found(e, DictGet(e.assignments, subject, {}), queue \ {name}, result)
    BY <1>1, <1>2 DEF Found
  <2>. QED BY <2>2, <2>3 DEF WalkSound
<1>3. CASE ~(name \in result \/ name \notin DOMAIN e.roles)
  <2>. DEFINE newqueue == (queue \ {name}) \cup e.roles[name].inherits
              found    == result \cup {name}
  <2>1. next = [walk EXCEPT !.queue = (walk.queue \ {name}) \cup e.roles[name].inherits,
                            !.result = @ \cup {name}]
    BY <1>1, <1>3 DEF Visit
  <2>2. next = [kind |-> "resolve", subject |-> subject, queue |-> newqueue, result |-> found]
    BY <1>1, <2>1
  <2>3. Found(e, DictGet(e.assignments, subject, {}), newqueue, found)
    BY <1>1, <1>3, FoundMore
  <2>. HIDE DEF newqueue, found
  <2>. QED BY <2>2, <2>3 DEF WalkSound
<1>. QED BY <1>2, <1>3

\* With an empty queue the result is closed, so it is the closure.
LEMMA EndIsClosure ==
  ASSUME NEW e, NEW walk, WalkSound(e, walk), walk.queue = {}
  PROVE  walk.result = ClosureOf(e, DictGet(e.assignments, walk.subject, {}))
<1>. DEFINE Start == DictGet(e.assignments, walk.subject, {})
<1>0. Found(e, Start, {}, walk.result)
  BY DEF WalkSound
<1>1. Closed(e, Start, walk.result)
  BY <1>0 DEF Found, Closed
<1>2. walk.result \subseteq ClosureOf(e, Start) /\ walk.result \subseteq DOMAIN e.roles
  BY <1>0, ClosureFacts DEF Found
<1>. QED BY <1>1, <1>2, ClosureFacts

\* The inductive invariant: what the loop that is running knows
RbacInv ==
  \/ call = Idle
  \/ /\ IsCheck(call) /\ call.start \in DOMAIN roles
     /\ call.raised => Tangled(Engine, call.start)
     /\ ~call.raised => CheckSound(Engine, call)
  \/ WalkSound(Engine, call)

\* Every loop keeps its invariant; roles and assignments stand still while one runs.
LEMMA RbacStep == RbacInv /\ [RbacNext]_rbacVars => RbacInv'
<1>. SUFFICES ASSUME RbacInv, [RbacNext]_rbacVars PROVE RbacInv'
  OBVIOUS
<1>1. ASSUME NEW name, NEW permissions, NEW inherits, DefineRole(name, permissions, inherits)
      PROVE  RbacInv'
  <2>1. name \in DOMAIN roles'
    BY <1>1 DEF DefineRole, DictSet
  <2>2. /\ call' = [kind |-> "check", start |-> name, path |-> {}, stack |-> {<<"start", name>>},
                    raised |-> FALSE]
    BY <1>1 DEF DefineRole
  <2>. QED BY <2>1, <2>2 DEF RbacInv, IsCheck, CheckSound
<1>2. ASSUME NEW subject, NEW names, Assign(subject, names) \/ Unassign(subject, names)
      PROVE  RbacInv'
  BY <1>2 DEF Assign, Unassign, RbacInv
<1>3. ASSUME NEW subject, StartEffectiveRoles(subject) PROVE RbacInv'
  <2>. DEFINE walk == Walk(Engine, subject) Start == DictGet(assignments, subject, {})
  <2>1. /\ walk = [kind |-> "resolve", subject |-> subject, queue |-> Start, result |-> {}]
        /\ Engine.assignments = assignments
    BY DEF Walk, Engine
  <2>2. Start \cap DOMAIN Engine.roles \subseteq ClosureOf(Engine, Start)
    BY ClosureFacts
  <2>3. Found(Engine, Start, Start, {})
    BY <2>2 DEF Found
  <2>4. call' = walk /\ Engine' = Engine
    BY <1>3 DEF StartEffectiveRoles, Engine
  <2>. QED BY <2>1, <2>3, <2>4 DEF RbacInv, WalkSound
<1>4. CASE CheckTurn
  <2>1. PICK item \in call.stack : call' = Turn(Engine, call, item)
    BY <1>4 DEF CheckTurn
  <2>2. call.kind = "check" /\ ~call.raised /\ Engine' = Engine /\ roles' = roles
    BY <1>4 DEF CheckTurn, Engine
  <2>3. IsCheck(call) /\ call.start \in DOMAIN Engine.roles /\ CheckSound(Engine, call)
    BY <2>2 DEF RbacInv, Idle, WalkSound, Engine
  <2>4. /\ IsCheck(call') /\ call'.start = call.start
        /\ call'.raised => Tangled(Engine, call'.start)
        /\ ~call'.raised => CheckSound(Engine, call')
    BY <2>1, <2>2, <2>3, TurnKeeps
  <2>. QED BY <2>2, <2>3, <2>4 DEF RbacInv, Engine
<1>5. CASE ResolveTurn
  <2>1. PICK name \in call.queue : call' = Visit(Engine, call, name)
    BY <1>5 DEF ResolveTurn
  <2>2. call.kind = "resolve" /\ Engine' = Engine
    BY <1>5 DEF ResolveTurn, Engine
  <2>3. WalkSound(Engine, call)
    BY <2>2 DEF RbacInv, Idle, IsCheck
  <2>4. WalkSound(Engine, call')
    BY <2>1, <2>3, VisitKeeps
  <2>. QED BY <2>2, <2>4 DEF RbacInv
<1>6. CASE Return
  BY <1>6 DEF Return, RbacInv
<1>7. CASE UNCHANGED rbacVars
  BY <1>7 DEF rbacVars, RbacInv, Engine
<1>. QED BY <1>1, <1>2, <1>3, <1>4, <1>5, <1>6, <1>7 DEF RbacNext

\* define_role() refuses exactly the tangled definitions and effective_roles() returns exactly
\* what the hierarchy leads to, for all roles, known or not, and in whatever order the sets
\* are taken off the lists.
THEOREM RolesAreExact == RbacSpec => []RolesExact
<1>1. RbacInit => RbacInv
  BY DEF RbacInit, RbacInv
<1>2. RbacInv => RolesExact
  <2>. SUFFICES ASSUME RbacInv PROVE RolesExact
    OBVIOUS
  <2>1. HierarchyCheckExact
    <3>1. call.kind = "check" => /\ call.raised => Tangled(Engine, call.start)
                                 /\ ~call.raised => CheckSound(Engine, call)
      BY DEF RbacInv, Idle, WalkSound
    <3>. QED BY <3>1, EndIsTree DEF HierarchyCheckExact, Refused, Accepted
  <2>2. RolesResolved
    <3>. SUFFICES ASSUME Resolved, NEW p \in (UNION RolePermissions)
                  PROVE  LET Granting == {r \in ClosureOf(Engine, DictGet(assignments, call.subject, {})) :
                                            \E granted \in roles[r].permissions : Matches(granted, p)}
                         IN  /\ can(Engine, call.result, p) <=> Granting # {}
                             /\ Explained(Engine, call.result, p) = Granting
      BY DEF RolesResolved
    <3>1. WalkSound(Engine, call)
      BY DEF Resolved, RbacInv, Idle, IsCheck
    <3>2. Engine.assignments = assignments /\ Engine.roles = roles
      BY DEF Engine
    <3>3. call.result = ClosureOf(Engine, DictGet(assignments, call.subject, {}))
      BY <3>1, <3>2, EndIsClosure DEF Resolved
    <3>. QED BY <3>2, <3>3 DEF can, Explained, effective_permissions
  <2>. QED BY <2>1, <2>2 DEF RolesExact
<1>. QED BY <1>1, <1>2, RbacStep, PTL DEF RbacSpec

(***************************************************************************)
(* ABAC: a prohibition lasts.                                              *)
(***************************************************************************)

\* A policy that fires keeps its place when others are added behind it.
LEMMA FiredEarly ==
  ASSUME NEW ps \in Seq(Policies), NEW n \in DOMAIN ps, NEW effect, NEW request
  PROVE  FiredAt(SubSeq(ps, 1, n - 1), effect, request)
           = FiredAt(ps, effect, request) \cap 1..(n - 1)
<1>1. n \in 1..Len(ps) /\ Len(ps) \in Nat /\ DOMAIN ps = 1..Len(ps)
  OBVIOUS
<1>2. /\ DOMAIN SubSeq(ps, 1, n - 1) = 1..(n - 1)
      /\ \A i \in 1..(n - 1) : SubSeq(ps, 1, n - 1)[i] = ps[i]
  BY <1>1
<1>3. 1..(n - 1) \subseteq DOMAIN ps
  BY <1>1
<1>. QED BY <1>2, <1>3 DEF FiredAt

\* The list of matched names tells how many policies matched, so that it changes with
\* every policy that matches in addition.
LEMMA NamesGrow ==
  ASSUME NEW ps \in Seq(Policies), NEW n \in DOMAIN ps, NEW S \in SUBSET DOMAIN ps,
         NamesAt(SubSeq(ps, 1, n - 1), S \cap 1..(n - 1)) = NamesAt(ps, S)
  PROVE  S \subseteq 1..(n - 1)
<1>. DEFINE early == SubSeq(ps, 1, n - 1)
            T     == S \cap 1..(n - 1)
            Named(q, I, name) == {i \in I : q[i].name = name}
<1>1. n \in 1..Len(ps) /\ Len(ps) \in Nat /\ DOMAIN ps = 1..Len(ps)
  OBVIOUS
<1>2. \A i \in T : early[i] = ps[i]
  BY <1>1
<1>. SUFFICES ASSUME NEW i \in S PROVE i \in T
  OBVIOUS
<1>. DEFINE name == ps[i].name
<1>3. name \in DOMAIN NamesAt(ps, S) /\ name \in DOMAIN NamesAt(early, T)
  BY DEF NamesAt
<1>4. Cardinality(Named(ps, S, name)) = Cardinality(Named(early, T, name))
  BY <1>3 DEF NamesAt
<1>5. Named(early, T, name) = Named(ps, T, name)
  BY <1>2
<1>6. IsFiniteSet(Named(ps, S, name))
  <2>1. IsFiniteSet(1..Len(ps))
    BY <1>1, FS_Interval
  <2>2. Named(ps, S, name) \in SUBSET (1..Len(ps))
    BY <1>1
  <2>. QED BY <2>1, <2>2, FS_Subset
<1>7. Named(ps, T, name) \subseteq Named(ps, S, name)
  OBVIOUS
<1>8. Named(ps, T, name) = Named(ps, S, name)
  BY <1>4, <1>5, <1>6, <1>7, FS_Subset
<1>. QED BY <1>8

\* What a decision says, in terms of the policies that fired
LEMMA Decided ==
  ASSUME NEW ps, NEW request
  PROVE  LET denies == FiredAt(ps, "deny", request)
             allows == FiredAt(ps, "allow", request)
             d      == Evaluate(ps, request)
         IN  /\ d.effect = IF denies = {} /\ allows # {} THEN "allow" ELSE "deny"
             /\ DOMAIN d.matched = {ps[i].name : i \in denies \cup allows}
             /\ denies \cup allows # {} => d.matched = NamesAt(ps, denies \cup allows)
<1>. DEFINE denies == FiredAt(ps, "deny", request)
            allows == FiredAt(ps, "allow", request)
<1>. HIDE DEF denies, allows
<1>0. Evaluate(ps, request) =
        CASE denies # {} -> [effect |-> "deny", matched |-> NamesAt(ps, denies \cup allows)]
          [] denies = {} /\ allows # {} -> [effect |-> "allow", matched |-> NamesAt(ps, allows)]
          [] OTHER -> [effect |-> "deny", matched |-> <<>>]
  BY DEF Evaluate, denies, allows
<1>1. CASE denies # {}
  BY <1>0, <1>1 DEF NamesAt, denies, allows
<1>2. CASE denies = {} /\ allows # {}
  <2>1. denies \cup allows = allows
    BY <1>2
  <2>2. Evaluate(ps, request) = [effect |-> "allow", matched |-> NamesAt(ps, allows)]
    BY <1>0, <1>2
  <2>3. DOMAIN NamesAt(ps, allows) = {ps[i].name : i \in allows}
    BY DEF NamesAt
  <2>4. /\ Evaluate(ps, request).effect = IF denies = {} /\ allows # {} THEN "allow" ELSE "deny"
        /\ DOMAIN Evaluate(ps, request).matched = {ps[i].name : i \in denies \cup allows}
        /\ Evaluate(ps, request).matched = NamesAt(ps, denies \cup allows)
    BY <1>2, <2>1, <2>2, <2>3
  <2>. QED BY <2>4 DEF denies, allows
<1>3. CASE denies = {} /\ allows = {}
  <2>1. Evaluate(ps, request) = [effect |-> "deny", matched |-> <<>>]
    BY <1>0, <1>3
  <2>2. DOMAIN <<>> = {}
    OBVIOUS
  <2>. QED BY <1>3, <2>1, <2>2 DEF denies, allows
<1>. QED BY <1>1, <1>2, <1>3

\* Deny-overrides: for every set of policies, conditions that raise and policies of one
\* name included, no policy that is added lets through what a prohibition has refused,
\* and no decision changes without a policy that matched.
THEOREM ProhibitionsLast == AbacSpec => []ProhibitionLasts
<1>. DEFINE Inv == policies \in Seq(Policies)
<1>1. AbacInit => Inv
  BY DEF AbacInit
<1>2. Inv /\ [AbacNext]_abacVars => Inv'
  BY DEF AbacNext, Add, abacVars
<1>3. Inv => ProhibitionLasts
  <2>. SUFFICES ASSUME Inv, NEW request \in Requests, NEW n \in DOMAIN policies
                PROVE  LET before == Evaluate(Early(n - 1), request)
                           after  == Evaluate(policies, request)
                       IN  /\ before.effect = "deny" /\ DOMAIN before.matched # {} => after.effect = "deny"
                           /\ before.effect # after.effect => before.matched # after.matched
    BY DEF ProhibitionLasts
  <2>. DEFINE early  == Early(n - 1)
              early_denies == FiredAt(early, "deny", request)
              early_allows == FiredAt(early, "allow", request)
              denies == FiredAt(policies, "deny", request)
              allows == FiredAt(policies, "allow", request)
  <2>1. early_denies = denies \cap 1..(n - 1) /\ early_allows = allows \cap 1..(n - 1)
    BY FiredEarly DEF Early
  <2>2. denies \cup allows \in SUBSET DOMAIN policies
    BY DEF FiredAt
  <2>. DEFINE before == Evaluate(early, request)
              after  == Evaluate(policies, request)
  <2>3. /\ before.effect = IF early_denies = {} /\ early_allows # {} THEN "allow" ELSE "deny"
        /\ DOMAIN before.matched = {early[i].name : i \in early_denies \cup early_allows}
        /\ early_denies \cup early_allows # {} =>
             before.matched = NamesAt(early, early_denies \cup early_allows)
    BY Decided
  <2>4. /\ after.effect = IF denies = {} /\ allows # {} THEN "allow" ELSE "deny"
        /\ DOMAIN after.matched = {policies[i].name : i \in denies \cup allows}
        /\ denies \cup allows # {} => after.matched = NamesAt(policies, denies \cup allows)
    BY Decided
  <2>. HIDE DEF before, after, denies, allows, early_denies, early_allows
  <2>5. before.effect = "deny" /\ DOMAIN before.matched # {} => after.effect = "deny"
    BY <2>1, <2>3, <2>4
  <2>6. ASSUME before.matched = after.matched
        PROVE  before.effect = after.effect
    <3>1. CASE denies \cup allows = {}
      BY <2>1, <2>3, <2>4, <3>1
    <3>2. CASE denies \cup allows # {}
      <4>1. DOMAIN before.matched # {}
        BY <2>4, <2>6, <3>2
      <4>2. NamesAt(early, early_denies \cup early_allows) = NamesAt(policies, denies \cup allows)
        BY <2>3, <2>4, <2>6, <3>2, <4>1
      <4>3. early_denies \cup early_allows = (denies \cup allows) \cap 1..(n - 1)
        BY <2>1
      <4>4. denies \cup allows \subseteq 1..(n - 1)
        BY <2>2, <4>2, <4>3, NamesGrow DEF Early
      <4>5. early_denies = denies /\ early_allows = allows
        BY <2>1, <4>4
      <4>. QED BY <2>3, <2>4, <4>5
    <3>. QED BY <3>1, <3>2
  <2>. QED BY <2>5, <2>6 DEF before, after
<1>. QED BY <1>1, <1>2, <1>3, PTL DEF AbacSpec

(***************************************************************************)
(* The decision log: what it keeps, how long, and how it is found.         *)
(***************************************************************************)

TrailRecord == [call : LogCall, purged : Int]

\* The inductive invariant: an entry is a function of the call it was recorded by, and
\* it is there as long as that call's retention was not over in any later purge.
LogSound ==
  /\ trail \in Seq(TrailRecord)
  /\ DOMAIN entries = Retained
  /\ \A k \in DOMAIN entries : entries[k] = EntryFor(trail[k].call)

\* The times that the log compares are numbers.
LEMMA LogNumbers ==
  ASSUME trail \in Seq(TrailRecord)
  PROVE  /\ Retention \in Nat
         /\ \A k \in DOMAIN trail :
              /\ trail[k].call \in LogCall /\ trail[k].call.occurred_at \in Nat
              /\ trail[k].purged \in Int
<1>1. \A k \in DOMAIN trail : trail[k] \in TrailRecord
  OBVIOUS
<1>2. 0..MaxOccurred \subseteq Nat
  BY DecisionLogAssumption
<1>. QED BY <1>1, <1>2, DecisionLogAssumption DEF TrailRecord, LogCall

\* A record adds one entry that is retained, and a purge drops what is so no longer.
LEMMA LogStep == LogSound /\ [LogNext]_logVars => LogSound'
<1>. SUFFICES ASSUME LogSound, [LogNext]_logVars PROVE LogSound'
  OBVIOUS
<1>0. /\ trail \in Seq(TrailRecord)
      /\ DOMAIN entries = Retained
      /\ \A k \in DOMAIN entries : entries[k] = EntryFor(trail[k].call)
  BY DEF LogSound
<1>a. /\ Retention \in Nat /\ Retention > 0
      /\ \A k \in DOMAIN trail :
           /\ trail[k].call \in LogCall /\ trail[k].call.occurred_at \in Nat
           /\ trail[k].purged \in Int
  BY <1>0, LogNumbers, DecisionLogAssumption
<1>1. ASSUME NEW c \in LogCall, Record(c) PROVE LogSound'
  <2>. DEFINE k == Len(trail) + 1
              new == [call |-> c, purged |-> -1]
  <2>1. /\ trail' = Append(trail, new)
        /\ entries' = [i \in DOMAIN entries \cup {k} |-> IF i = k THEN EntryFor(c) ELSE entries[i]]
    BY <1>1 DEF Record
  <2>2. new \in TrailRecord
    BY DEF TrailRecord
  <2>3. trail' \in Seq(TrailRecord)
    BY <1>0, <2>1, <2>2
  <2>4. DOMAIN trail' = DOMAIN trail \cup {k} /\ trail'[k] = new
        /\ \A i \in DOMAIN trail : trail'[i] = trail[i] /\ i # k
    <3>. HIDE DEF new
    <3>. QED BY <1>0, <2>1
  <2>5. c.occurred_at \in Nat
    BY DecisionLogAssumption DEF LogCall
  <2>6. -1 < c.occurred_at + Retention
    BY <1>a, <2>5
  <2>7. Retained' = Retained \cup {k}
    BY <2>4, <2>6 DEF Retained
  <2>8. DOMAIN entries' = Retained'
    BY <1>0, <2>1, <2>7
  <2>9. ASSUME NEW i \in DOMAIN entries' PROVE entries'[i] = EntryFor(trail'[i].call)
    <3>1. CASE i = k
      <4>1. entries'[i] = EntryFor(c)
        BY <2>1, <3>1
      <4>. QED BY <2>4, <3>1, <4>1
    <3>2. CASE i # k
      <4>1. i \in DOMAIN entries /\ i \in DOMAIN trail /\ entries'[i] = entries[i]
        BY <1>0, <2>1, <3>2 DEF Retained
      <4>. QED BY <1>0, <2>4, <4>1
    <3>. QED BY <3>1, <3>2
  <2>. QED BY <2>3, <2>8, <2>9 DEF LogSound
<1>2. ASSUME NEW t \in Nat, Purge(t) PROVE LogSound'
  <2>. DEFINE later(k) == [trail[k] EXCEPT !.purged = IF t > trail[k].purged THEN t ELSE trail[k].purged]
  <2>1. /\ entries' = [k \in {i \in DOMAIN entries : Kept(entries[i], t)} |-> entries[k]]
        /\ trail' = [k \in DOMAIN trail |-> later(k)]
    BY <1>2 DEF Purge
  <2>2. \A k \in DOMAIN trail :
          /\ later(k) \in TrailRecord
          /\ later(k).call = trail[k].call
          /\ later(k).purged = IF t > trail[k].purged THEN t ELSE trail[k].purged
    <3>1. \A k \in DOMAIN trail : trail[k] \in TrailRecord
      BY <1>0
    <3>. QED BY <3>1 DEF TrailRecord
  <2>3. /\ DOMAIN trail' = DOMAIN trail
        /\ \A k \in DOMAIN trail :
             /\ trail'[k].call = trail[k].call
             /\ trail'[k].purged = IF t > trail[k].purged THEN t ELSE trail[k].purged
    BY <2>1, <2>2
  <2>4. trail' \in Seq(TrailRecord)
    <3>1. DOMAIN trail = 1..Len(trail) /\ Len(trail) \in Nat
      BY <1>0
    <3>2. \A k \in 1..Len(trail) : later(k) \in TrailRecord
      BY <2>2, <3>1
    <3>. HIDE DEF later
    <3>3. trail' \in [1..Len(trail) -> TrailRecord]
      BY <2>1, <3>1, <3>2
    <3>. QED BY <3>1, <3>3
  <2>5. \A k \in DOMAIN entries : Kept(entries[k], t) <=> trail[k].call.occurred_at + Retention > t
    BY <1>0 DEF Kept, EntryFor
  <2>6. Retained' = {k \in Retained : trail[k].call.occurred_at + Retention > t}
    <3>1. \A k \in DOMAIN trail :
            trail'[k].purged < trail'[k].call.occurred_at + Retention
              <=> /\ trail[k].purged < trail[k].call.occurred_at + Retention
                  /\ trail[k].call.occurred_at + Retention > t
      BY <1>a, <2>3
    <3>. QED BY <2>3, <3>1 DEF Retained
  <2>7. DOMAIN entries' = Retained'
    BY <1>0, <2>1, <2>5, <2>6
  <2>8. ASSUME NEW k \in DOMAIN entries' PROVE entries'[k] = EntryFor(trail'[k].call)
    <3>1. k \in DOMAIN entries /\ k \in DOMAIN trail /\ entries'[k] = entries[k]
      BY <1>0, <2>1 DEF Retained
    <3>2. trail'[k].call = trail[k].call
      BY <2>3, <3>1
    <3>. QED BY <1>0, <3>1, <3>2
  <2>. QED BY <2>4, <2>7, <2>8 DEF LogSound
<1>3. CASE UNCHANGED logVars
  BY <1>3 DEF logVars, LogSound, Retained
<1>4. 0..(MaxOccurred + Retention) \subseteq Nat
  BY DecisionLogAssumption
<1>. QED BY <1>1, <1>2, <1>3, <1>4 DEF LogNext

\* References are injective within a namespace and apart across namespaces.
LEMMA ReferencesApart ==
  ASSUME NEW v, NEW w, NEW n, NEW m
  PROVE  /\ Reference(n, v) = Reference(m, w) <=> n = m /\ v = w
         /\ Reference(n, v) # NoReference
  BY DEF Reference, NoReference

\* What a search for a reference finds, in terms of the calls.
LEMMA Searched ==
  ASSUME LogSound, NEW v
  PROVE  /\ EntriesAbout(Reference("subject", v)) = {i \in Retained : trail[i].call.request.subject_id = v}
         /\ EntriesAbout(Reference("resource", v)) = {i \in Retained : trail[i].call.request.resource_id = v}
         /\ EntriesAbout(Reference("policy", v)) =
              {i \in Retained : v \in trail[i].call.decision.determining_policies}
         /\ EntriesAbout(Reference("request", v)) =
              {i \in Retained : /\ HasRequest(trail[i].call.context)
                                /\ Printed(trail[i].call.context.request_id) = v}
<1>. DEFINE c(k) == trail[k].call
            refs(k) == {entries[k].subject_ref, entries[k].resource_ref, entries[k].request_ref}
                         \cup entries[k].policy_ids
<1>1. ASSUME NEW k \in DOMAIN entries
      PROVE  /\ entries[k].subject_ref = Reference("subject", c(k).request.subject_id)
             /\ entries[k].resource_ref = Reference("resource", c(k).request.resource_id)
             /\ entries[k].policy_ids = {Reference("policy", p) : p \in c(k).decision.determining_policies}
             /\ entries[k].request_ref = IF HasRequest(c(k).context)
                                         THEN Reference("request", Printed(c(k).context.request_id))
                                         ELSE NoReference
  <2>1. entries[k] = EntryFor(c(k))
    BY DEF LogSound
  <2>. QED BY <2>1 DEF EntryFor
<1>2. ASSUME NEW k \in DOMAIN entries
      PROVE  /\ Reference("subject", v) \in refs(k) <=> c(k).request.subject_id = v
             /\ Reference("resource", v) \in refs(k) <=> c(k).request.resource_id = v
             /\ Reference("policy", v) \in refs(k) <=> v \in c(k).decision.determining_policies
             /\ Reference("request", v) \in refs(k) <=>
                  HasRequest(c(k).context) /\ Printed(c(k).context.request_id) = v
  <2>. HIDE DEF c
  <2>1. CASE HasRequest(c(k).context)
    BY <1>1, <2>1, ReferencesApart
  <2>2. CASE ~HasRequest(c(k).context)
    BY <1>1, <2>2, ReferencesApart
  <2>. QED BY <2>1, <2>2
<1>3. DOMAIN entries = Retained
  BY DEF LogSound
<1>. QED BY <1>2, <1>3 DEF EntriesAbout

\* For all decisions, names and contexts and any order of records, purges and times, the
\* log answers for the calls it must retain and for no other.
THEOREM LogIsTraceable == LogSpec => []LogTraceable
<1>1. LogInit => LogSound
  BY DEF LogInit, LogSound, Retained
<1>2. LogSound => LogTraceable
  <2>. SUFFICES ASSUME LogSound PROVE LogTraceable
    OBVIOUS
  <2>1. DOMAIN entries = Retained
    BY DEF LogSound
  <2>2. ASSUME NEW k \in Retained
        PROVE  /\ entries[k].model = trail[k].call.decision.model
               /\ entries[k].effect = "allow" <=> trail[k].call.decision.allowed
               /\ entries[k].action = trail[k].call.request.action
               /\ entries[k].reason_code = trail[k].call.decision.reason_code
    <3>1. entries[k] = EntryFor(trail[k].call)
      BY <2>1 DEF LogSound
    <3>. QED BY <3>1 DEF EntryFor
  <2>. QED BY <2>1, <2>2, Searched DEF LogTraceable
<1>. QED BY <1>1, <1>2, LogStep, PTL DEF LogSpec

(***************************************************************************)
(* Induction over the natural numbers, with a set for the induction        *)
(* hypothesis: what is missing from the set would have a least member.     *)
(***************************************************************************)
LEMMA NumbersByInduction ==
  ASSUME NEW S, 0 \in S, \A n \in Nat : n \in S => n + 1 \in S
  PROVE  Nat \subseteq S
<1>. SUFFICES ASSUME Nat \ S # {} PROVE FALSE
  OBVIOUS
<1>1. \E m \in Nat \ S : \A n \in Nat \ S : ~ (<<n, m>> \in OpToRel(<, Nat))
  <2>1. Nat \ S \in SUBSET Nat
    OBVIOUS
  <2>2. QED BY <2>1, WFMin, NatLessThanWellFounded, Zenon
<1>2. PICK m \in Nat \ S : \A n \in Nat \ S : ~ (<<n, m>> \in OpToRel(<, Nat))
  BY <1>1
<1>3. \A n \in Nat \ S : ~ (n < m)
  BY <1>2 DEF OpToRel
<1>4. m # 0 /\ m - 1 \in Nat /\ m - 1 < m
  OBVIOUS
<1>5. m - 1 \in S
  BY <1>3, <1>4
<1>6. (m - 1) + 1 = m
  OBVIOUS
<1>7. QED BY <1>4, <1>5, <1>6

(***************************************************************************)
(* A function can be iterated: the finite beginnings of the sequence of    *)
(* its values exist, and agree with one another.                           *)
(***************************************************************************)
Beginnings(X, A, F, m) ==
  {f \in [0..m -> X] : f[0] = A /\ \A i \in 0..m : i < m => f[i + 1] = F[f[i]]}

LEMMA BeginningsExist ==
  ASSUME NEW X, NEW A \in X, NEW F \in [X -> X]
  PROVE  \A m \in Nat : Beginnings(X, A, F, m) # {}
<1>. DEFINE S == {m \in Nat : Beginnings(X, A, F, m) # {}}
<1>1. 0 \in S
  <2>. DEFINE f == [i \in 0..0 |-> A]
  <2>1. f \in Beginnings(X, A, F, 0)
    BY DEF Beginnings
  <2>2. QED BY <2>1
<1>2. ASSUME NEW m \in Nat, m \in S PROVE m + 1 \in S
  <2>1. PICK f \in Beginnings(X, A, F, m) : TRUE
    BY <1>2
  <2>. DEFINE g == [i \in 0..(m + 1) |-> IF i = m + 1 THEN F[f[m]] ELSE f[i]]
  <2>2. f \in [0..m -> X] /\ f[0] = A /\ \A i \in 0..m : i < m => f[i + 1] = F[f[i]]
    BY <2>1 DEF Beginnings
  <2>3. g \in [0..(m + 1) -> X]
    <3>1. ASSUME NEW i \in 0..(m + 1), i # m + 1 PROVE f[i] \in X
      <4>1. i \in 0..m BY <3>1
      <4>2. QED BY <4>1, <2>2
    <3>2. m \in 0..m OBVIOUS
    <3>3. f[m] \in X BY <3>2, <2>2
    <3>4. QED BY <3>1, <3>3
  <2>4. g[0] = A
    BY <2>2
  <2>5. ASSUME NEW i \in 0..(m + 1), i < m + 1 PROVE g[i + 1] = F[g[i]]
    <3>1. i + 1 \in 0..(m + 1) /\ i # m + 1 /\ i \in 0..m
      BY <2>5
    <3>2. g[i] = f[i]
      BY <3>1
    <3>3. CASE i = m
      BY <3>1, <3>2, <3>3
    <3>4. CASE i < m
      <4>1. i + 1 # m + 1 BY <3>4, <3>1
      <4>2. g[i + 1] = f[i + 1] BY <3>1, <4>1
      <4>3. QED BY <4>2, <3>1, <3>2, <3>4, <2>2
    <3>5. QED BY <3>3, <3>4, <3>1
  <2>6. m + 1 \in Nat OBVIOUS
  <2>. HIDE DEF g
  <2>7. g \in Beginnings(X, A, F, m + 1)
    BY <2>3, <2>4, <2>5 DEF Beginnings
  <2>8. QED BY <2>6, <2>7
<1>. HIDE DEF S
<1>3. Nat \subseteq S
  BY <1>1, <1>2, NumbersByInduction
<1>4. QED BY <1>3 DEF S

LEMMA BeginningsAgree ==
  ASSUME NEW X, NEW A \in X, NEW F \in [X -> X], NEW m \in Nat,
         NEW f \in Beginnings(X, A, F, m), NEW g \in Beginnings(X, A, F, m + 1)
  PROVE  f[m] = g[m]
<1>. DEFINE S == {i \in Nat : i <= m => f[i] = g[i]}
<1>1. 0 \in S
  BY DEF Beginnings
<1>2. ASSUME NEW i \in Nat, i \in S PROVE i + 1 \in S
  <2>1. CASE i < m
    <3>1. i \in 0..m /\ i \in 0..(m + 1) /\ i < m + 1
      BY <2>1
    <3>2. f[i + 1] = F[f[i]] /\ g[i + 1] = F[g[i]]
      BY <3>1, <2>1 DEF Beginnings
    <3>3. QED BY <3>2, <1>2, <2>1
  <2>2. CASE ~ (i < m)
    <3>1. ~ (i + 1 <= m) BY <2>2
    <3>2. QED BY <3>1
  <2>3. QED BY <2>1, <2>2
<1>. HIDE DEF S
<1>3. m \in S
  BY <1>1, <1>2, NumbersByInduction
<1>4. QED BY <1>3 DEF S

LEMMA IterationExists ==
  ASSUME NEW X, NEW A \in X, NEW F \in [X -> X]
  PROVE  \E g \in [Nat -> X] : g[0] = A /\ \A n \in Nat : g[n + 1] = F[g[n]]
<1>. DEFINE B(m) == CHOOSE f : f \in Beginnings(X, A, F, m)
            g == [n \in Nat |-> B(n)[n]]
<1>1. \A m \in Nat : B(m) \in Beginnings(X, A, F, m)
  BY BeginningsExist
<1>. HIDE DEF B
<1>2. \A m \in Nat : B(m)[m] \in X
  <2>. TAKE m \in Nat
  <2>1. m \in 0..m OBVIOUS
  <2>2. QED BY <1>1, <2>1 DEF Beginnings
<1>3. g \in [Nat -> X]
  BY <1>2
<1>4. g[0] = A
  BY <1>1 DEF Beginnings
<1>5. ASSUME NEW n \in Nat PROVE g[n + 1] = F[g[n]]
  <2>1. n + 1 \in Nat /\ n \in 0..(n + 1) /\ n < n + 1
    OBVIOUS
  <2>2. B(n + 1)[n + 1] = F[B(n + 1)[n]]
    BY <1>1, <2>1 DEF Beginnings
  <2>3. B(n)[n] = B(n + 1)[n]
    BY <1>1, <2>1, BeginningsAgree
  <2>4. QED BY <2>1, <2>2, <2>3
<1>. HIDE DEF g
<1>6. QED BY <1>3, <1>4, <1>5

(***************************************************************************)
(* What edges lead to.                                                     *)
(***************************************************************************)
LEMMA UpToUnfolds ==
  ASSUME NEW edges, NEW from
  PROVE  /\ UpTo(edges, from)[0] = from
         /\ \A n \in Nat : UpTo(edges, from)[n + 1] =
              UpTo(edges, from)[n] \cup UNION {Successors(edges, x) : x \in UpTo(edges, from)[n]}
<1>. DEFINE X == SUBSET (from \cup {edge[2] : edge \in edges})
            Step(S) == S \cup UNION {Successors(edges, x) : x \in S}
            F == [S \in X |-> Step(S)]
            Equation(g) == g = [n \in Nat |-> IF n = 0 THEN from ELSE Step(g[n - 1])]
<1>1. from \in X
  OBVIOUS
<1>2. F \in [X -> X]
  <2>1. ASSUME NEW S \in X PROVE Step(S) \in X
    BY DEF Successors
  <2>2. QED BY <2>1
<1>3. PICK g \in [Nat -> X] : g[0] = from /\ \A n \in Nat : g[n + 1] = F[g[n]]
  <2>. HIDE DEF X, F
  <2>1. QED BY <1>1, <1>2, IterationExists
<1>4. \A n \in Nat : g[n + 1] = Step(g[n])
  BY <1>3
<1>. HIDE DEF X, F, Step
<1>5. Equation(g)
  <2>1. \A n \in Nat : g[n] = IF n = 0 THEN from ELSE Step(g[n - 1])
    <3>. TAKE n \in Nat
    <3>1. CASE n = 0
      BY <1>3, <3>1
    <3>2. CASE n # 0
      <4>1. n - 1 \in Nat /\ (n - 1) + 1 = n
        BY <3>2
      <4>2. QED BY <1>4, <4>1, <3>2
    <3>3. QED BY <3>1, <3>2
  <2>2. QED BY <2>1
<1>6. Equation(UpTo(edges, from))
  <2>1. UpTo(edges, from) = CHOOSE h : Equation(h)
    BY DEF UpTo, Step
  <2>2. QED BY <1>5, <2>1
<1>7. UpTo(edges, from)[0] = from
  BY <1>6
<1>8. ASSUME NEW n \in Nat PROVE UpTo(edges, from)[n + 1] = Step(UpTo(edges, from)[n])
  <2>1. n + 1 \in Nat /\ n + 1 # 0 /\ (n + 1) - 1 = n
    OBVIOUS
  <2>2. QED BY <1>6, <2>1
<1>9. QED BY <1>7, <1>8 DEF Step

LEMMA UpToGrows ==
  ASSUME NEW edges, NEW from, NEW i \in Nat
  PROVE  \A j \in Nat : i <= j => UpTo(edges, from)[i] \subseteq UpTo(edges, from)[j]
<1>. DEFINE U == UpTo(edges, from)
            S == {j \in Nat : i <= j => U[i] \subseteq U[j]}
<1>1. \A n \in Nat : U[n] \subseteq U[n + 1]
  BY UpToUnfolds
<1>. HIDE DEF U
<1>2. 0 \in S
  OBVIOUS
<1>3. ASSUME NEW j \in Nat, j \in S PROVE j + 1 \in S
  <2>1. CASE i = j + 1
    BY <2>1
  <2>2. CASE i # j + 1
    BY <2>2, <1>1, <1>3
  <2>3. QED BY <2>1, <2>2
<1>. HIDE DEF S
<1>4. Nat \subseteq S
  BY <1>2, <1>3, NumbersByInduction
<1>5. QED BY <1>4 DEF S, U

LEMMA UpToSuccessor ==
  ASSUME NEW edges, NEW from, NEW n \in Nat, NEW x \in UpTo(edges, from)[n],
         NEW y \in Successors(edges, x)
  PROVE  y \in UpTo(edges, from)[n + 1]
BY UpToUnfolds

\* A set with the first nodes and all that its members lead to has all that can be reached
LEMMA UpToInClosed ==
  ASSUME NEW edges, NEW from, NEW S, from \subseteq S,
         \A x \in S : Successors(edges, x) \subseteq S
  PROVE  \A n \in Nat : UpTo(edges, from)[n] \subseteq S
<1>. DEFINE U == UpTo(edges, from)
            N == {n \in Nat : U[n] \subseteq S}
<1>1. 0 \in N
  BY UpToUnfolds
<1>2. ASSUME NEW n \in Nat, n \in N PROVE n + 1 \in N
  <2>1. U[n + 1] = U[n] \cup UNION {Successors(edges, x) : x \in U[n]}
    BY UpToUnfolds
  <2>2. QED BY <2>1, <1>2
<1>. HIDE DEF N
<1>3. Nat \subseteq N
  BY <1>1, <1>2, NumbersByInduction
<1>4. QED BY <1>3 DEF N

LEMMA ReachableHasFirst ==
  ASSUME NEW edges, NEW from
  PROVE  from \subseteq ReachableFrom(edges, from)
BY DEF ReachableFrom

LEMMA ReachableIsClosed ==
  ASSUME NEW edges, NEW from, NEW x \in ReachableFrom(edges, from), NEW y \in Successors(edges, x)
  PROVE  y \in ReachableFrom(edges, from)
BY DEF ReachableFrom, Successors

LEMMA ReachableIsLeast ==
  ASSUME NEW edges, NEW from, NEW S, from \subseteq S,
         \A x \in S : Successors(edges, x) \subseteq S
  PROVE  ReachableFrom(edges, from) \subseteq S
<1>. DEFINE Nodes == from \cup {edge[2] : edge \in edges}
            R == S \cap Nodes
<1>1. from \subseteq R /\ R \in SUBSET Nodes
  OBVIOUS
<1>2. \A x \in R : Successors(edges, x) \subseteq R
  BY DEF Successors
<1>3. QED BY <1>1, <1>2 DEF ReachableFrom

LEMMA UpToIsReachable ==
  ASSUME NEW edges, NEW from, NEW n \in Nat
  PROVE  UpTo(edges, from)[n] \subseteq ReachableFrom(edges, from)
<1>1. \A x \in ReachableFrom(edges, from) : Successors(edges, x) \subseteq ReachableFrom(edges, from)
  BY ReachableIsClosed
<1>2. QED BY <1>1, ReachableHasFirst, UpToInClosed

(***************************************************************************)
(* What the search has done and has still to do. A node is at the distance *)
(* n when n edges lead to it and fewer do not. An entry is on a shortest   *)
(* path when its depth is the distance of its node, and its path has only  *)
(* nodes that are nearer: such an entry is never dropped because of its    *)
(* path, and is within the limit whenever its node is. Everything within   *)
(* the limit is in Done or waits behind such an entry; what the search     *)
(* drops or visits along longer paths does not matter.                     *)
(***************************************************************************)
Nearer(edges, from, n) == IF n = 0 THEN {} ELSE UpTo(edges, from)[n - 1]

AtDistance(edges, from, x, n) == x \in UpTo(edges, from)[n] /\ x \notin Nearer(edges, from, n)

OnShortest(edges, from, entry, x, n) ==
  /\ entry.at = x /\ entry.depth = n
  /\ AtDistance(edges, from, x, n)
  /\ entry.path \subseteq Nearer(edges, from, n)

Covers(edges, from, limit, pending, Done) ==
  /\ \A x \in from : x \in Done \/ \E entry \in pending : OnShortest(edges, from, entry, x, 0)
  /\ \A n \in Nat : n + 1 <= limit => \A d \in Done : AtDistance(edges, from, d, n) =>
       \A y \in Successors(edges, d) :
         \/ y \in UpTo(edges, from)[n]
         \/ y \in Done
         \/ \E entry \in pending : OnShortest(edges, from, entry, y, n + 1)

\* Everything within the limit has been visited, or waits to be.
Covered(edges, from, limit, pending, Visited) ==
  \E Done \in SUBSET Visited : Covers(edges, from, limit, pending, Done)

LEMMA OneDistance ==
  ASSUME NEW edges, NEW from, NEW x, NEW i \in Nat, NEW j \in Nat,
         AtDistance(edges, from, x, i), AtDistance(edges, from, x, j)
  PROVE  i = j
<1>1. \A a, b \in Nat : AtDistance(edges, from, x, a) /\ AtDistance(edges, from, x, b) => ~ (a < b)
  <2>. SUFFICES ASSUME NEW a \in Nat, NEW b \in Nat, AtDistance(edges, from, x, a),
                       AtDistance(edges, from, x, b), a < b
                PROVE  FALSE
    OBVIOUS
  <2>1. b # 0 /\ b - 1 \in Nat /\ a <= b - 1
    OBVIOUS
  <2>2. UpTo(edges, from)[a] \subseteq UpTo(edges, from)[b - 1]
    BY <2>1, UpToGrows
  <2>3. QED BY <2>1, <2>2 DEF AtDistance, Nearer
<1>2. ~ (i < j) /\ ~ (j < i)
  BY <1>1
<1>3. QED BY <1>2

LEMMA HasDistance ==
  ASSUME NEW edges, NEW from, NEW n \in Nat, NEW x \in UpTo(edges, from)[n]
  PROVE  \E m \in Nat : m <= n /\ AtDistance(edges, from, x, m)
<1>. DEFINE S == {m \in Nat : \/ x \notin UpTo(edges, from)[m]
                              \/ \E k \in Nat : k <= m /\ AtDistance(edges, from, x, k)}
<1>1. 0 \in S
  BY DEF AtDistance, Nearer
<1>2. ASSUME NEW m \in Nat, m \in S PROVE m + 1 \in S
  <2>1. m + 1 # 0 /\ (m + 1) - 1 = m /\ m + 1 \in Nat
    OBVIOUS
  <2>2. CASE x \in UpTo(edges, from)[m]
    <3>1. PICK k \in Nat : k <= m /\ AtDistance(edges, from, x, k)
      BY <1>2, <2>2
    <3>2. k <= m + 1
      BY <3>1
    <3>3. QED BY <3>1, <3>2, <2>1
  <2>3. CASE x \notin UpTo(edges, from)[m]
    <3>1. Nearer(edges, from, m + 1) = UpTo(edges, from)[m]
      BY <2>1 DEF Nearer
    <3>2. x \in UpTo(edges, from)[m + 1] => AtDistance(edges, from, x, m + 1)
      BY <2>3, <3>1 DEF AtDistance
    <3>3. m + 1 <= m + 1
      OBVIOUS
    <3>4. QED BY <3>2, <3>3, <2>1
  <2>4. QED BY <2>2, <2>3
<1>. HIDE DEF S
<1>3. n \in S
  BY <1>1, <1>2, NumbersByInduction
<1>4. QED BY <1>3 DEF S

LEMMA SearchStarts ==
  ASSUME NEW edges, NEW from, NEW limit
  PROVE  Covers(edges, from, limit, {Entry(x, 0, {}) : x \in from}, {})
<1>1. ASSUME NEW x \in from PROVE OnShortest(edges, from, Entry(x, 0, {}), x, 0)
  BY UpToUnfolds DEF OnShortest, AtDistance, Nearer, Entry
<1>2. QED BY <1>1 DEF Covers

\* What is dropped was no entry on a shortest path within the limit.
LEMMA SearchDrops ==
  ASSUME NEW edges, NEW from, NEW limit \in Nat, NEW pending, NEW Done, NEW entry,
         Covers(edges, from, limit, pending, Done),
         entry.at \in entry.path \/ entry.depth > limit
  PROVE  Covers(edges, from, limit, pending \ {entry}, Done)
<1>1. ASSUME NEW x, NEW n \in Nat, n <= limit PROVE ~ OnShortest(edges, from, entry, x, n)
  <2>. SUFFICES ASSUME OnShortest(edges, from, entry, x, n) PROVE FALSE
    OBVIOUS
  <2>1. entry.at = x /\ entry.depth = n /\ x \notin Nearer(edges, from, n)
    BY DEF OnShortest, AtDistance
  <2>2. x \notin entry.path
    BY <2>1 DEF OnShortest
  <2>3. ~ (n > limit)
    BY <1>1
  <2>4. QED BY <2>1, <2>2, <2>3
<1>2. 0 <= limit /\ \A n \in Nat : n + 1 \in Nat
  OBVIOUS
<1>3. QED BY <1>1, <1>2 DEF Covers

\* An entry that is looked at is replaced by entries for its successors, the ones on
\* shortest paths among them.
LEMMA CoveredAfterExpansion ==
  ASSUME NEW edges, NEW from, NEW limit, NEW pending, NEW Visited, NEW entry \in pending,
         Covered(edges, from, limit, pending, Visited), entry.depth \in Nat
  PROVE  Covered(edges, from, limit,
                 (pending \ {entry}) \cup Further(entry, Successors(edges, entry.at)),
                 Visited \cup {entry.at})
<1>. DEFINE U == UpTo(edges, from)
            Shortest(e, x, n) == OnShortest(edges, from, e, x, n)
            Rest == (pending \ {entry}) \cup Further(entry, Successors(edges, entry.at))
<1>0. PICK Done \in SUBSET Visited : Covers(edges, from, limit, pending, Done)
  BY DEF Covered
<1>1. CASE \A x : \A n \in Nat : ~ Shortest(entry, x, n)
  <2>1. \A n \in Nat : n + 1 \in Nat
    OBVIOUS
  <2>2. Covers(edges, from, limit, Rest, Done)
    BY <1>0, <1>1, <2>1 DEF Covers
  <2>. HIDE DEF Rest
  <2>3. QED BY <2>2 DEF Covered, Rest
<1>2. CASE \E x : \E n \in Nat : Shortest(entry, x, n)
  <2>1. PICK x : \E n \in Nat : Shortest(entry, x, n)
    BY <1>2
  <2>2. PICK n \in Nat : Shortest(entry, x, n)
    BY <2>1
  <2>3. entry.at = x /\ entry.depth = n /\ AtDistance(edges, from, x, n)
    BY <2>2 DEF OnShortest
  <2>4. ASSUME NEW y \in Successors(edges, x), y \notin U[n]
        PROVE  \E e \in Rest : Shortest(e, y, n + 1)
    <3>. DEFINE e == Entry(y, n + 1, entry.path \cup {x})
    <3>1. e \in Rest
      BY <2>3 DEF Further
    <3>2. n + 1 # 0 /\ (n + 1) - 1 = n
      OBVIOUS
    <3>3. Nearer(edges, from, n + 1) = U[n]
      BY <3>2 DEF Nearer
    <3>4. y \in U[n + 1]
      BY <2>3, UpToSuccessor DEF AtDistance
    <3>5. Nearer(edges, from, n) \subseteq U[n]
      <4>1. CASE n = 0
        BY <4>1 DEF Nearer
      <4>2. CASE n # 0
        <5>1. n - 1 \in Nat /\ n - 1 <= n
          BY <4>2
        <5>2. QED BY <5>1, <4>2, UpToGrows DEF Nearer
      <4>3. QED BY <4>1, <4>2
    <3>6. entry.path \cup {x} \subseteq U[n]
      BY <2>2, <2>3, <3>5 DEF OnShortest, AtDistance
    <3>7. e.at = y /\ e.depth = n + 1 /\ e.path = entry.path \cup {x}
      BY DEF Entry
    <3>8. Shortest(e, y, n + 1)
      BY <2>4, <3>3, <3>4, <3>6, <3>7 DEF OnShortest, AtDistance
    <3>9. QED BY <3>1, <3>8
  <2>5. \A e \in pending : \A y : \A m \in Nat : Shortest(e, y, m) => e \in Rest \/ y = x
    BY <2>3 DEF OnShortest
  <2>6. ASSUME NEW z \in from
        PROVE  z \in Done \cup {x} \/ \E e \in Rest : Shortest(e, z, 0)
    BY <1>0, <2>5 DEF Covers
  <2>7. ASSUME NEW m \in Nat, m + 1 <= limit, NEW d \in Done \cup {x},
               AtDistance(edges, from, d, m), NEW y \in Successors(edges, d)
        PROVE  \/ y \in U[m]
               \/ y \in Done \cup {x}
               \/ \E e \in Rest : Shortest(e, y, m + 1)
    <3>1. CASE d = x
      <4>1. m = n
        BY <2>3, <2>7, <3>1, OneDistance
      <4>2. QED BY <2>4, <2>7, <3>1, <4>1
    <3>2. CASE d \in Done
      <4>1. \/ y \in U[m]
            \/ y \in Done
            \/ \E e \in pending : Shortest(e, y, m + 1)
        BY <1>0, <2>7, <3>2 DEF Covers
      <4>2. m + 1 \in Nat
        OBVIOUS
      <4>3. QED BY <4>1, <4>2, <2>5
    <3>3. QED BY <2>7, <3>1, <3>2
  <2>. HIDE DEF Rest
  <2>8. Covers(edges, from, limit, Rest, Done \cup {x})
    BY <2>6, <2>7 DEF Covers
  <2>9. QED BY <2>3, <2>8 DEF Covered, Rest
<1>3. QED BY <1>1, <1>2

LEMMA SearchEndsDone ==
  ASSUME NEW edges, NEW from, NEW limit \in Nat, NEW Done, Covers(edges, from, limit, {}, Done)
  PROVE  UpTo(edges, from)[limit] \subseteq Done
<1>. DEFINE U == UpTo(edges, from)
            S == {n \in Nat : n <= limit => U[n] \subseteq Done}
<1>1. 0 \in S
  BY UpToUnfolds DEF Covers
<1>2. ASSUME NEW n \in Nat, n \in S PROVE n + 1 \in S
  <2>. SUFFICES ASSUME n + 1 <= limit, NEW y \in U[n + 1], y \notin Done PROVE FALSE
    OBVIOUS
  <2>1. U[n] \subseteq Done
    BY <1>2
  <2>2. PICK d \in U[n] : y \in Successors(edges, d)
    BY <2>1, UpToUnfolds
  <2>3. PICK m \in Nat : m <= n /\ AtDistance(edges, from, d, m)
    BY <2>2, HasDistance
  <2>4. m + 1 <= limit
    BY <2>3
  <2>5. y \in U[m]
    BY <2>1, <2>2, <2>3, <2>4 DEF Covers
  <2>6. U[m] \subseteq U[n]
    BY <2>3, UpToGrows
  <2>7. QED BY <2>1, <2>5, <2>6
<1>. HIDE DEF S
<1>3. limit \in S
  BY <1>1, <1>2, NumbersByInduction
<1>4. QED BY <1>3 DEF S

LEMMA CoveredAtStart ==
  ASSUME NEW edges, NEW from, NEW limit
  PROVE  Covered(edges, from, limit, {Entry(x, 0, {}) : x \in from}, {})
BY SearchStarts DEF Covered

LEMMA CoveredAfterDrop ==
  ASSUME NEW edges, NEW from, NEW limit \in Nat, NEW pending, NEW Visited, NEW entry,
         Covered(edges, from, limit, pending, Visited),
         entry.at \in entry.path \/ entry.depth > limit
  PROVE  Covered(edges, from, limit, pending \ {entry}, Visited)
BY SearchDrops DEF Covered

LEMMA SearchEnds ==
  ASSUME NEW edges, NEW from, NEW limit \in Nat, NEW Visited,
         Covered(edges, from, limit, {}, Visited)
  PROVE  UpTo(edges, from)[limit] \subseteq Visited
BY SearchEndsDone DEF Covered

(***************************************************************************)
(* Nested groups: resolve_group.                                           *)
(***************************************************************************)
Waiting(r) == {entry.at : entry \in r.pending}

Flag == {"matched", "cycle_detected", "depth_limited"}

\* What is known of a running call, whose edges do not change.
EntrySound(edges, r, entry) ==
  \E at, depth, path :
    /\ entry = Entry(at, depth, path)
    /\ depth \in Nat
    /\ at \in UpTo(edges, DirectGroups(r.subject))[depth]
    /\ path \subseteq r.visited
    /\ \A p \in path : at \in ReachableFrom(edges, Parents(edges, p))

EntriesSound(edges, r) == \A entry \in r.pending : EntrySound(edges, r, entry)

VisitedSound(edges, r) ==
  /\ r.visited \subseteq Within(edges, r.subject, MaxRelationshipDepth)
  /\ "matched" \in r.flags <=> r.target \in r.visited
  /\ "cycle_detected" \in r.flags => \E h \in AllGroups(edges, r.subject) : OnCycle(edges, h)

NothingMissed(edges, r) == "matched" \notin r.flags =>
  Covered(edges, DirectGroups(r.subject), MaxRelationshipDepth, r.pending, r.visited)

NothingCut(edges, r) == "matched" \notin r.flags /\ "depth_limited" \notin r.flags =>
  /\ DirectGroups(r.subject) \subseteq r.visited \cup Waiting(r)
  /\ \A g \in r.visited : Parents(edges, g) \subseteq r.visited \cup Waiting(r)

Resolution(s, target, pending, visited, flags) ==
  [subject |-> s, target |-> target, pending |-> pending, visited |-> visited, flags |-> flags]

Exploring(edges, r) ==
  /\ r = Resolution(r.subject, r.target, r.pending, r.visited, r.flags) /\ r.flags \subseteq Flag
  /\ EntriesSound(edges, r)
  /\ VisitedSound(edges, r)
  /\ NothingMissed(edges, r)
  /\ NothingCut(edges, r)

GroupInv == resolution = NoResolution \/ Exploring(group_parents, resolution)

LEMMA ResolvingExplores ==
  ASSUME NEW edges, NEW s, NEW target
  PROVE  Exploring(edges, Resolving(s, target))
<1>. DEFINE from == DirectGroups(s)
            r == Resolving(s, target)
            pending == {Entry(g, 0, {}) : g \in from}
<1>1. r = Resolution(s, target, pending, {}, {})
  BY DEF Resolving, Resolution
<1>2. /\ r.subject = s /\ r.target = target /\ r.pending = pending
      /\ r.visited = {} /\ r.flags = {}
  BY <1>1 DEF Resolution
<1>3. EntriesSound(edges, r)
  <2>1. ASSUME NEW g \in from PROVE EntrySound(edges, r, Entry(g, 0, {}))
    <3>1. g \in UpTo(edges, from)[0]
      BY UpToUnfolds
    <3>2. /\ Entry(g, 0, {}) = Entry(g, 0, {}) /\ 0 \in Nat
          /\ g \in UpTo(edges, DirectGroups(r.subject))[0] /\ {} \subseteq r.visited
      BY <3>1, <1>2
    <3>3. QED BY <3>2 DEF EntrySound
  <2>. HIDE DEF r, from
  <2>2. QED BY <2>1, <1>2 DEF EntriesSound
<1>4. VisitedSound(edges, r)
  BY <1>2 DEF VisitedSound
<1>5. NothingMissed(edges, r)
  <2>1. Covered(edges, from, MaxRelationshipDepth, pending, {})
    BY CoveredAtStart
  <2>2. DirectGroups(r.subject) = from
    BY <1>2
  <2>. HIDE DEF r, from, pending
  <2>3. QED BY <2>1, <2>2, <1>2 DEF NothingMissed
<1>6. NothingCut(edges, r)
  <2>1. \A g \in from : Entry(g, 0, {}) \in pending /\ Entry(g, 0, {}).at = g
    BY DEF Entry
  <2>2. DirectGroups(r.subject) = from
    BY <1>2
  <2>. HIDE DEF r, from, pending
  <2>3. from \subseteq Waiting(r)
    BY <2>1, <1>2 DEF Waiting
  <2>4. QED BY <2>2, <2>3, <1>2 DEF NothingCut
<1>7. r = Resolution(r.subject, r.target, r.pending, r.visited, r.flags)
  BY <1>1, <1>2
<1>8. QED BY <1>2, <1>3, <1>4, <1>5, <1>6, <1>7 DEF Exploring

\* The four ways in which a turn can go
\* The fields of a call
LEMMA ResolutionFields ==
  ASSUME NEW r, NEW pending, NEW visited, NEW flags, NEW q,
         q = Resolution(r.subject, r.target, pending, visited, flags)
  PROVE  /\ q.subject = r.subject /\ q.target = r.target /\ q.pending = pending
         /\ q.visited = visited /\ q.flags = flags
         /\ q = Resolution(q.subject, q.target, q.pending, q.visited, q.flags)
BY DEF Resolution

LEMMA ResolveCases ==
  ASSUME NEW edges, NEW r, NEW entry, entry.depth \in Nat,
         r = Resolution(r.subject, r.target, r.pending, r.visited, r.flags),
         NEW q, q = Resolve(edges, r, entry)
  PROVE  /\ q.subject = r.subject /\ q.target = r.target
         /\ q = Resolution(q.subject, q.target, q.pending, q.visited, q.flags)
         /\ \/ /\ entry.at \in entry.path
               /\ q.pending = r.pending \ {entry} /\ q.visited = r.visited
               /\ q.flags = r.flags \cup {"cycle_detected"}
            \/ /\ entry.depth > MaxRelationshipDepth
               /\ q.pending = r.pending \ {entry} /\ q.visited = r.visited
               /\ q.flags = r.flags \cup {"depth_limited"}
            \/ /\ entry.depth <= MaxRelationshipDepth /\ entry.at = r.target
               /\ q.pending = r.pending \ {entry} /\ q.visited = r.visited \cup {entry.at}
               /\ q.flags = r.flags \cup {"matched"}
            \/ /\ entry.depth <= MaxRelationshipDepth /\ entry.at # r.target
               /\ q.pending = (r.pending \ {entry}) \cup Further(entry, Parents(edges, entry.at))
               /\ q.visited = r.visited \cup {entry.at}
               /\ q.flags = r.flags
<1>. DEFINE rest == r.pending \ {entry}
            next == rest \cup Further(entry, Parents(edges, entry.at))
<1>1. (entry.depth > MaxRelationshipDepth) = ~ (entry.depth <= MaxRelationshipDepth)
  BY GroupResolutionAssumption
<1>2. CASE entry.at \in entry.path
  <2>1. Resolve(edges, r, entry) = [r EXCEPT !.pending = rest, !.flags = @ \cup {"cycle_detected"}]
    BY <1>1, <1>2 DEF Resolve
  <2>2. q = Resolution(r.subject, r.target, rest, r.visited, r.flags \cup {"cycle_detected"})
    BY <2>1 DEF Resolution
  <2>. HIDE DEF rest, next
  <2>3. /\ q.subject = r.subject /\ q.target = r.target
        /\ q = Resolution(q.subject, q.target, q.pending, q.visited, q.flags)
        /\ q.pending = rest /\ q.visited = r.visited
        /\ q.flags = r.flags \cup {"cycle_detected"}
    BY <2>2, ResolutionFields
  <2>4. QED BY <1>2, <2>3 DEF rest, next
<1>3. CASE entry.at \notin entry.path /\ entry.depth > MaxRelationshipDepth
  <2>1. Resolve(edges, r, entry) = [r EXCEPT !.pending = rest, !.flags = @ \cup {"depth_limited"}]
    BY <1>1, <1>3 DEF Resolve
  <2>2. q = Resolution(r.subject, r.target, rest, r.visited, r.flags \cup {"depth_limited"})
    BY <2>1 DEF Resolution
  <2>. HIDE DEF rest, next
  <2>3. /\ q.subject = r.subject /\ q.target = r.target
        /\ q = Resolution(q.subject, q.target, q.pending, q.visited, q.flags)
        /\ q.pending = rest /\ q.visited = r.visited
        /\ q.flags = r.flags \cup {"depth_limited"}
    BY <2>2, ResolutionFields
  <2>4. QED BY <1>3, <2>3 DEF rest, next
<1>4. CASE entry.at \notin entry.path /\ entry.depth <= MaxRelationshipDepth /\ entry.at = r.target
  <2>1. Resolve(edges, r, entry) =
          [r EXCEPT !.pending = rest, !.visited = @ \cup {entry.at}, !.flags = @ \cup {"matched"}]
    BY <1>1, <1>4 DEF Resolve
  <2>2. q = Resolution(r.subject, r.target, rest, r.visited \cup {entry.at}, r.flags \cup {"matched"})
    BY <2>1 DEF Resolution
  <2>. HIDE DEF rest, next
  <2>3. /\ q.subject = r.subject /\ q.target = r.target
        /\ q = Resolution(q.subject, q.target, q.pending, q.visited, q.flags)
        /\ q.pending = rest /\ q.visited = r.visited \cup {entry.at}
        /\ q.flags = r.flags \cup {"matched"}
    BY <2>2 DEF Resolution
  <2>4. QED BY <1>4, <2>3 DEF rest, next
<1>5. CASE entry.at \notin entry.path /\ entry.depth <= MaxRelationshipDepth /\ entry.at # r.target
  <2>1. Resolve(edges, r, entry) = [r EXCEPT !.pending = next, !.visited = @ \cup {entry.at}]
    BY <1>1, <1>5 DEF Resolve
  <2>2. q = Resolution(r.subject, r.target, next, r.visited \cup {entry.at}, r.flags)
    BY <2>1 DEF Resolution
  <2>. HIDE DEF rest, next
  <2>3. /\ q.subject = r.subject /\ q.target = r.target
        /\ q = Resolution(q.subject, q.target, q.pending, q.visited, q.flags)
        /\ q.pending = next /\ q.visited = r.visited \cup {entry.at}
        /\ q.flags = r.flags
    BY <2>2, ResolutionFields
  <2>4. QED BY <1>5, <2>3 DEF rest, next
<1>6. QED BY <1>1, <1>2, <1>3, <1>4, <1>5

\* What is dropped leaves the other entries as they were.
LEMMA EntriesAfterDrop ==
  ASSUME NEW edges, NEW r, NEW q, EntriesSound(edges, r), q.subject = r.subject,
         q.pending \subseteq r.pending, r.visited \subseteq q.visited
  PROVE  EntriesSound(edges, q)
BY DEF EntriesSound, EntrySound

LEMMA EntriesAfterExpansion ==
  ASSUME NEW edges, NEW r, NEW q, NEW entry \in r.pending, EntriesSound(edges, r),
         q.subject = r.subject, q.visited = r.visited \cup {entry.at},
         q.pending = (r.pending \ {entry}) \cup Further(entry, Parents(edges, entry.at))
  PROVE  EntriesSound(edges, q)
<1>1. PICK at, depth, path :
        /\ entry = Entry(at, depth, path)
        /\ depth \in Nat
        /\ at \in UpTo(edges, DirectGroups(r.subject))[depth]
        /\ path \subseteq r.visited
        /\ \A p \in path : at \in ReachableFrom(edges, Parents(edges, p))
  BY DEF EntriesSound, EntrySound
<1>2. entry.at = at /\ entry.depth = depth /\ entry.path = path
  BY <1>1 DEF Entry
<1>3. ASSUME NEW e \in r.pending PROVE EntrySound(edges, q, e)
  BY <1>3 DEF EntriesSound, EntrySound
<1>4. ASSUME NEW g \in Parents(edges, at) PROVE EntrySound(edges, q, Entry(g, depth + 1, path \cup {at}))
  <2>1. depth + 1 \in Nat
    BY <1>1
  <2>2. g \in UpTo(edges, DirectGroups(q.subject))[depth + 1]
    BY <1>1, UpToSuccessor DEF Parents
  <2>3. path \cup {at} \subseteq q.visited
    BY <1>1, <1>2
  <2>4. ASSUME NEW p \in path \cup {at} PROVE g \in ReachableFrom(edges, Parents(edges, p))
    <3>1. CASE p = at
      BY <3>1, ReachableHasFirst
    <3>2. CASE p \in path
      BY <3>2, <1>1, ReachableIsClosed DEF Parents
    <3>3. QED BY <3>1, <3>2
  <2>5. QED BY <2>1, <2>2, <2>3, <2>4 DEF EntrySound
<1>5. \A e \in Further(entry, Parents(edges, entry.at)) :
        \E g \in Parents(edges, at) : e = Entry(g, depth + 1, path \cup {at})
  BY <1>2 DEF Further
<1>6. QED BY <1>3, <1>4, <1>5 DEF EntriesSound

LEMMA ResolveKeepsEntries ==
  ASSUME NEW edges, NEW r, NEW entry \in r.pending, Exploring(edges, r), entry.depth \in Nat
  PROVE  EntriesSound(edges, Resolve(edges, r, entry))
<1>. DEFINE q == Resolve(edges, r, entry)
<1>. HIDE DEF q
<1>1. r = Resolution(r.subject, r.target, r.pending, r.visited, r.flags) /\ EntriesSound(edges, r)
  BY DEF Exploring
<1>2. \/ /\ q.subject = r.subject /\ q.pending = r.pending \ {entry}
         /\ q.visited = r.visited \/ q.visited = r.visited \cup {entry.at}
      \/ /\ q.subject = r.subject /\ q.visited = r.visited \cup {entry.at}
         /\ q.pending = (r.pending \ {entry}) \cup Further(entry, Parents(edges, entry.at))
  BY <1>1, ResolveCases, ResolutionFields DEF q
<1>3. QED BY <1>1, <1>2, EntriesAfterDrop, EntriesAfterExpansion DEF q

LEMMA EntryIsSound ==
  ASSUME NEW edges, NEW r, NEW entry \in r.pending, EntriesSound(edges, r)
  PROVE  /\ entry.depth \in Nat
         /\ entry.at \in UpTo(edges, DirectGroups(r.subject))[entry.depth]
         /\ entry.path \subseteq r.visited
         /\ \A p \in entry.path : entry.at \in ReachableFrom(edges, Parents(edges, p))
<1>1. PICK at, depth, path :
        /\ entry = Entry(at, depth, path)
        /\ depth \in Nat
        /\ at \in UpTo(edges, DirectGroups(r.subject))[depth]
        /\ path \subseteq r.visited
        /\ \A p \in path : at \in ReachableFrom(edges, Parents(edges, p))
  BY DEF EntriesSound, EntrySound
<1>2. entry.at = at /\ entry.depth = depth /\ entry.path = path
  BY <1>1 DEF Entry
<1>3. QED BY <1>1, <1>2

\* An entry that closes its path shows a cycle.
LEMMA ResolveKeepsVisited ==
  ASSUME NEW edges, NEW r, NEW entry \in r.pending, Exploring(edges, r), "matched" \notin r.flags,
         NEW q, q = Resolve(edges, r, entry)
  PROVE  VisitedSound(edges, q)
<1>. DEFINE Limit == MaxRelationshipDepth
            Near == Within(edges, r.subject, Limit)
<1>1. /\ r = Resolution(r.subject, r.target, r.pending, r.visited, r.flags)
      /\ EntriesSound(edges, r) /\ VisitedSound(edges, r)
  BY DEF Exploring
<1>2. /\ entry.depth \in Nat
      /\ entry.at \in UpTo(edges, DirectGroups(r.subject))[entry.depth]
      /\ \A p \in entry.path : entry.at \in ReachableFrom(edges, Parents(edges, p))
  BY <1>1, EntryIsSound
<1>3. entry.depth <= Limit => entry.at \in Near
  BY <1>2, UpToGrows, GroupResolutionAssumption DEF Within
<1>4. entry.at \in entry.path => entry.at \in AllGroups(edges, r.subject) /\ OnCycle(edges, entry.at)
  BY <1>2, UpToIsReachable DEF AllGroups, OnCycle
<1>5. q.subject = r.subject /\ q.target = r.target
  BY <1>1, <1>2, ResolveCases
<1>6. /\ r.visited \subseteq Near /\ r.target \notin r.visited
      /\ "cycle_detected" \in r.flags => \E h \in AllGroups(edges, r.subject) : OnCycle(edges, h)
  BY <1>1 DEF VisitedSound
<1>. HIDE DEF Near
<1>7. q.visited \subseteq Near
  BY <1>1, <1>2, <1>3, <1>6, ResolveCases
<1>8. "matched" \in q.flags <=> r.target \in q.visited
  <2>1. CASE q.visited = r.visited /\ (q.flags = r.flags \cup {"cycle_detected"} \/ q.flags = r.flags \cup {"depth_limited"})
    BY <1>6, <2>1
  <2>2. CASE q.visited = r.visited \cup {entry.at} /\ entry.at = r.target /\ q.flags = r.flags \cup {"matched"}
    BY <2>2
  <2>3. CASE q.visited = r.visited \cup {entry.at} /\ entry.at # r.target /\ q.flags = r.flags
    BY <1>6, <2>3
  <2>4. QED BY <1>1, <1>2, <2>1, <2>2, <2>3, ResolveCases
<1>9. "cycle_detected" \in q.flags => "cycle_detected" \in r.flags \/ entry.at \in entry.path
  <2>1. \/ q.flags = r.flags \cup {"matched"} \/ q.flags = r.flags \cup {"depth_limited"}
        \/ q.flags = r.flags \/ entry.at \in entry.path
    BY <1>1, <1>2, ResolveCases
  <2>2. QED BY <2>1
<1>10. QED BY <1>4, <1>5, <1>6, <1>7, <1>8, <1>9 DEF VisitedSound, Near

LEMMA ResolveMissesNothing ==
  ASSUME NEW edges, NEW r, NEW entry \in r.pending, Exploring(edges, r), "matched" \notin r.flags,
         NEW q, q = Resolve(edges, r, entry)
  PROVE  NothingMissed(edges, q)
<1>. DEFINE Limit == MaxRelationshipDepth
            from == DirectGroups(r.subject)
<1>1. /\ r = Resolution(r.subject, r.target, r.pending, r.visited, r.flags)
      /\ EntriesSound(edges, r) /\ NothingMissed(edges, r)
  BY DEF Exploring
<1>2. entry.depth \in Nat /\ Limit \in Nat
  BY <1>1, EntryIsSound, GroupResolutionAssumption
<1>3. q.subject = r.subject
  BY <1>1, <1>2, ResolveCases
<1>4. Covered(edges, from, Limit, r.pending, r.visited)
  BY <1>1 DEF NothingMissed
<1>. HIDE DEF Limit, from
<1>5. CASE /\ entry.at \in entry.path \/ entry.depth > Limit
           /\ q.pending = r.pending \ {entry} /\ q.visited = r.visited
  <2>1. Covered(edges, from, Limit, q.pending, q.visited)
    BY <1>2, <1>4, <1>5, CoveredAfterDrop
  <2>2. QED BY <1>3, <2>1 DEF NothingMissed, from, Limit
<1>6. CASE q.flags = r.flags \cup {"matched"}
  BY <1>6 DEF NothingMissed
<1>7. CASE /\ q.pending = (r.pending \ {entry}) \cup Further(entry, Parents(edges, entry.at))
           /\ q.visited = r.visited \cup {entry.at}
  <2>1. Covered(edges, from, Limit, q.pending, q.visited)
    BY <1>2, <1>4, <1>7, CoveredAfterExpansion DEF Parents
  <2>2. QED BY <1>3, <2>1 DEF NothingMissed, from, Limit
<1>8. QED BY <1>1, <1>2, <1>5, <1>6, <1>7, ResolveCases DEF Limit

\* The node of an entry that closes its path has been visited before.
LEMMA ResolveCutsNothing ==
  ASSUME NEW edges, NEW r, NEW entry \in r.pending, Exploring(edges, r), "matched" \notin r.flags,
         NEW q, q = Resolve(edges, r, entry)
  PROVE  NothingCut(edges, q)
<1>. DEFINE Seen(x) == x.visited \cup Waiting(x)
<1>1. /\ r = Resolution(r.subject, r.target, r.pending, r.visited, r.flags)
      /\ EntriesSound(edges, r) /\ NothingCut(edges, r)
  BY DEF Exploring
<1>2. entry.depth \in Nat /\ entry.path \subseteq r.visited
  BY <1>1, EntryIsSound
<1>3. q.subject = r.subject
  BY <1>1, <1>2, ResolveCases
<1>4. "depth_limited" \notin r.flags =>
        /\ DirectGroups(r.subject) \subseteq Seen(r)
        /\ \A g \in r.visited : Parents(edges, g) \subseteq Seen(r)
  BY <1>1 DEF NothingCut
<1>5. CASE /\ entry.at \in entry.path
           /\ q.pending = r.pending \ {entry} /\ q.visited = r.visited
           /\ q.flags = r.flags \cup {"cycle_detected"}
  <2>1. Seen(r) \subseteq Seen(q)
    BY <1>2, <1>5 DEF Waiting
  <2>2. "depth_limited" \in r.flags => "depth_limited" \in q.flags
    BY <1>5
  <2>3. QED BY <1>3, <1>4, <1>5, <2>1, <2>2 DEF NothingCut
<1>6. CASE q.flags = r.flags \cup {"matched"} \/ q.flags = r.flags \cup {"depth_limited"}
  BY <1>6 DEF NothingCut
<1>7. CASE /\ q.pending = (r.pending \ {entry}) \cup Further(entry, Parents(edges, entry.at))
           /\ q.visited = r.visited \cup {entry.at}
           /\ q.flags = r.flags
  <2>1. Seen(r) \subseteq Seen(q)
    BY <1>7 DEF Waiting
  <2>2. ASSUME NEW g \in Parents(edges, entry.at) PROVE g \in Seen(q)
    <3>. DEFINE e == Entry(g, entry.depth + 1, entry.path \cup {entry.at})
    <3>1. e \in q.pending /\ e.at = g
      BY <1>7 DEF Further, Entry
    <3>. HIDE DEF e
    <3>2. QED BY <3>1 DEF Waiting
  <2>3. QED BY <1>3, <1>4, <1>7, <2>1, <2>2 DEF NothingCut
<1>8. QED BY <1>1, <1>2, <1>5, <1>6, <1>7, ResolveCases

LEMMA ResolveExplores ==
  ASSUME NEW edges, NEW r, NEW entry \in r.pending, Exploring(edges, r), "matched" \notin r.flags
  PROVE  Exploring(edges, Resolve(edges, r, entry))
<1>. DEFINE q == Resolve(edges, r, entry)
<1>. HIDE DEF q
<1>1. r = Resolution(r.subject, r.target, r.pending, r.visited, r.flags) /\ r.flags \subseteq Flag
  BY DEF Exploring
<1>2. entry.depth \in Nat
  BY EntryIsSound DEF Exploring
<1>3. q = Resolution(q.subject, q.target, q.pending, q.visited, q.flags)
  BY <1>1, <1>2, ResolveCases DEF q
<1>4. q.flags \subseteq Flag
  <2>1. \/ q.flags = r.flags \cup {"matched"} \/ q.flags = r.flags \cup {"depth_limited"}
        \/ q.flags = r.flags \/ q.flags = r.flags \cup {"cycle_detected"}
    BY <1>1, <1>2, ResolveCases DEF q
  <2>2. QED BY <1>1, <2>1 DEF Flag
<1>5. EntriesSound(edges, q)
  BY <1>2, ResolveKeepsEntries DEF q
<1>6. VisitedSound(edges, q) /\ NothingMissed(edges, q) /\ NothingCut(edges, q)
  BY ResolveKeepsVisited, ResolveMissesNothing, ResolveCutsNothing DEF q
<1>7. QED BY <1>3, <1>4, <1>5, <1>6 DEF Exploring, q

LEMMA RunningIsResolution ==
  ASSUME "returned" \notin resolution.flags
  PROVE  resolution # NoResolution
<1>1. NoResolution.flags = {"returned"}
  BY DEF NoResolution
<1>2. QED BY <1>1

LEMMA GroupInvInductive ==
  /\ GroupInit => GroupInv
  /\ GroupInv /\ [GroupNext]_groupVars => GroupInv'
<1>1. GroupInit => GroupInv
  BY DEF GroupInit, GroupInv
<1>2. ASSUME GroupInv, [GroupNext]_groupVars PROVE GroupInv'
  <2>1. CASE \E s \in DOMAIN Subjects \cup {"nobody"}, target \in Group : CallResolveGroup(s, target)
    <3>1. PICK s, target : CallResolveGroup(s, target)
      BY <2>1
    <3>2. resolution' = Resolving(s, target)
      BY <3>1 DEF CallResolveGroup
    <3>3. QED BY <3>2, ResolvingExplores DEF GroupInv
  <2>2. CASE ResolutionTurn
    <3>1. PICK entry \in resolution.pending : resolution' = Resolve(group_parents, resolution, entry)
      BY <2>2 DEF ResolutionTurn, Deepest
    <3>2. resolution # NoResolution /\ "matched" \notin resolution.flags /\ group_parents' = group_parents
      BY <2>2, RunningIsResolution DEF ResolutionTurn, ResolutionEnds
    <3>3. Exploring(group_parents, resolution)
      BY <1>2, <3>2 DEF GroupInv
    <3>4. QED BY <3>1, <3>2, <3>3, ResolveExplores DEF GroupInv
  <2>3. CASE ReturnResolution
    BY <2>3 DEF ReturnResolution, GroupInv
  <2>4. CASE \E edge \in GroupEdges : EditGroups(edge)
    BY <2>4 DEF EditGroups, GroupInv
  <2>5. CASE UNCHANGED groupVars
    BY <1>2, <2>5 DEF groupVars, GroupInv
  <2>6. QED BY <1>2, <2>1, <2>2, <2>3, <2>4, <2>5 DEF GroupNext
<1>3. QED BY <1>1, <1>2

LEMMA GroupInvSuffices == GroupInv => GroupResolutionExact
<1>. SUFFICES ASSUME GroupInv, ResolutionEnds(resolution) PROVE GroupResolutionExact
  BY DEF GroupResolutionExact
<1>. DEFINE r == resolution
            edges == group_parents
            Near == Within(edges, r.subject, MaxRelationshipDepth)
<1>1. r # NoResolution
  BY RunningIsResolution DEF ResolutionEnds
<1>2. VisitedSound(edges, r) /\ NothingMissed(edges, r) /\ NothingCut(edges, r)
  BY <1>1 DEF GroupInv, Exploring
<1>3. /\ r.visited \subseteq Near
      /\ "matched" \in r.flags <=> r.target \in r.visited
      /\ "cycle_detected" \in r.flags => \E h \in AllGroups(edges, r.subject) : OnCycle(edges, h)
  BY <1>2 DEF VisitedSound
<1>4. ASSUME "matched" \notin r.flags PROVE r.pending = {} /\ r.visited = Near
  <2>1. r.pending = {}
    BY <1>4 DEF ResolutionEnds
  <2>2. Covered(edges, DirectGroups(r.subject), MaxRelationshipDepth, {}, r.visited)
    BY <1>2, <1>4, <2>1 DEF NothingMissed
  <2>3. Near \subseteq r.visited
    BY <2>2, SearchEnds, GroupResolutionAssumption DEF Within
  <2>4. QED BY <1>3, <2>1, <2>3
<1>5. ASSUME "matched" \notin r.flags, "depth_limited" \notin r.flags
      PROVE  r.target \notin AllGroups(edges, r.subject)
  <2>1. Waiting(r) = {}
    BY <1>4, <1>5 DEF Waiting
  <2>2. /\ DirectGroups(r.subject) \subseteq r.visited
        /\ \A g \in r.visited : Successors(edges, g) \subseteq r.visited
    BY <1>2, <1>5, <2>1 DEF NothingCut, Parents
  <2>3. AllGroups(edges, r.subject) \subseteq r.visited
    BY <2>2, ReachableIsLeast DEF AllGroups
  <2>4. QED BY <1>3, <1>5, <2>3
<1>6. QED BY <1>3, <1>4, <1>5 DEF GroupResolutionExact

\* resolve_group() finds a membership exactly when a chain within max_relationship_depth
\* leads to it, and a "no" without depth_limited is final: for every dataset of groups, however
\* cyclic, every depth, and every order in which the parents are pushed.
THEOREM GroupsResolveExactly == GroupSpec => []GroupResolutionExact
<1>1. GroupInit => GroupInv
  BY GroupInvInductive
<1>2. GroupInv /\ [GroupNext]_groupVars => GroupInv'
  BY GroupInvInductive
<1>3. GroupInv => GroupResolutionExact
  BY GroupInvSuffices
<1>4. QED BY <1>1, <1>2, <1>3, PTL DEF GroupSpec

(***************************************************************************)
(* Relation tuples: check, expand and list_objects.                        *)
(***************************************************************************)
LEMMA CallsAreQuestions ==
  ASSUME NEW e, NEW question, NEW q \in Questions(e, question)
  PROVE  Calls(e, q) \subseteq Questions(e, question)
<1>. DEFINE O == Objects(e) \cup {question[1]}
            N == RelationNames(e) \cup {question[2]}
<1>1. q[1] \in O /\ q[2] \in N
  BY DEF Questions
<1>2. \A object, relation : \A u \in Direct(e, object, relation) :
        u.object \in O /\ u.relation \in N
  BY DEF Direct, Objects, RelationNames
<1>3. ASSUME NEW rule \in RewriteFor(e, q[1], q[2]), rule.kind # "this"
      PROVE  rule.relation \in N
  <2>1. \A other \in This : other.kind = "this"
    BY DEF This
  <2>2. rule \notin This
    BY <1>3, <2>1
  <2>3. /\ q[1][1] \in DOMAIN e.namespaces /\ q[2] \in DOMAIN e.namespaces[q[1][1]]
        /\ rule \in e.namespaces[q[1][1]][q[2]]
    BY <1>3, <2>2 DEF RewriteFor
  <2>4. rule \in Rules(e)
    BY <2>3 DEF Rules
  <2>5. QED BY <2>2, <2>4 DEF RelationNames
<1>. HIDE DEF O, N
<1>4. ASSUME NEW rule \in RewriteFor(e, q[1], q[2]), NEW c \in CallsFor(e, rule, q)
      PROVE  c \in O \X N
  <2>1. CASE rule.kind = "this"
    BY <1>2, <1>4, <2>1 DEF CallsFor
  <2>2. CASE rule.kind = "computed_userset"
    BY <1>1, <1>3, <1>4, <2>2 DEF CallsFor
  <2>3. CASE rule.kind = "tuple_to_userset"
    BY <1>2, <1>3, <1>4, <2>3 DEF CallsFor
  <2>4. CASE rule.kind \notin {"this", "computed_userset", "tuple_to_userset"}
    BY <1>4, <2>4 DEF CallsFor
  <2>5. QED BY <2>1, <2>2, <2>3, <2>4
<1>5. QED BY <1>4 DEF Calls, Questions, O, N

LEMMA SuccessorsAreCalls ==
  ASSUME NEW e, NEW question, NEW q \in Questions(e, question)
  PROVE  Successors(CallGraph(e, question), q) = Calls(e, q)
<1>1. ASSUME NEW y \in Calls(e, q) PROVE y \in Successors(CallGraph(e, question), q)
  <2>1. <<q, y>> \in CallGraph(e, question)
    BY DEF CallGraph
  <2>2. <<q, y>>[1] = q /\ <<q, y>>[2] = y
    OBVIOUS
  <2>3. QED BY <2>1, <2>2 DEF Successors
<1>2. ASSUME NEW y \in Successors(CallGraph(e, question), q) PROVE y \in Calls(e, q)
  <2>1. PICK edge \in CallGraph(e, question) : edge[1] = q /\ edge[2] = y
    BY <1>2 DEF Successors
  <2>2. PICK from \in Questions(e, question) : edge \in {from} \X Calls(e, from)
    BY <2>1 DEF CallGraph
  <2>3. edge[1] = from /\ edge[2] \in Calls(e, from)
    BY <2>2
  <2>4. QED BY <2>1, <2>3
<1>3. QED BY <1>1, <1>2

IsQuestion(question) == question = <<question[1], question[2]>>

LEMMA FirstIsQuestion ==
  ASSUME NEW e, NEW question, IsQuestion(question)
  PROVE  question \in Questions(e, question)
BY DEF IsQuestion, Questions

LEMMA LedToIsQuestion ==
  ASSUME NEW e, NEW question, IsQuestion(question)
  PROVE  \A n \in Nat : UpTo(CallGraph(e, question), {question})[n] \subseteq Questions(e, question)
<1>1. {question} \subseteq Questions(e, question)
  BY FirstIsQuestion
<1>2. \A q \in Questions(e, question) :
        Successors(CallGraph(e, question), q) \subseteq Questions(e, question)
  BY CallsAreQuestions, SuccessorsAreCalls
<1>3. QED BY <1>1, <1>2, UpToInClosed

\* What is known of a call of check or expand that runs on an engine e
Call(kind, question, user, pending, found) ==
  [kind |-> kind, question |-> question, user |-> user, pending |-> pending, found |-> found]

LedTo(e, c, n) == UpTo(CallGraph(e, c.question), {c.question})[n]

\* The questions whose hits are all found
Settled(e, c) == {q \in Questions(e, c.question) : Hits(e, c, q) \subseteq c.found}

Asking(e, c) ==
  /\ c = Call(c.kind, c.question, c.user, c.pending, c.found)
  /\ c.kind \in {"check", "expand"} /\ IsQuestion(c.question)
  /\ \A entry \in c.pending : entry.depth \in Nat /\ entry.at \in LedTo(e, c, entry.depth)
  /\ c.found \subseteq UNION {Hits(e, c, q) : q \in LedTo(e, c, e.max_depth)}
  /\ Covered(CallGraph(e, c.question), {c.question}, e.max_depth, c.pending, Settled(e, c))

LEMMA CallFields ==
  ASSUME NEW kind, NEW question, NEW user, NEW pending, NEW found, NEW c,
         c = Call(kind, question, user, pending, found)
  PROVE  /\ c.kind = kind /\ c.question = question /\ c.user = user
         /\ c.pending = pending /\ c.found = found
         /\ c = Call(c.kind, c.question, c.user, c.pending, c.found)
BY DEF Call

LEMMA CoveredByMore ==
  ASSUME NEW edges, NEW from, NEW limit, NEW pending, NEW Visited, NEW More,
         Covered(edges, from, limit, pending, Visited), Visited \subseteq More
  PROVE  Covered(edges, from, limit, pending, More)
BY DEF Covered

LEMMA CallingAsks ==
  ASSUME NEW e, NEW kind \in {"check", "expand"}, NEW question, NEW user, IsQuestion(question)
  PROVE  Asking(e, Calling(kind, question, user))
<1>. DEFINE c == Calling(kind, question, user)
            pending == {Entry(question, 0, {})}
            G == CallGraph(e, question)
<1>1. c = Call(kind, question, user, pending, {})
  BY DEF Calling, Call
<1>. HIDE DEF c, G
<1>2. /\ c.kind = kind /\ c.question = question /\ c.user = user
      /\ c.pending = pending /\ c.found = {}
      /\ c = Call(c.kind, c.question, c.user, c.pending, c.found)
  BY <1>1 DEF Call
<1>3. \A entry \in pending : entry.depth = 0 /\ entry.at = question
  BY DEF Entry
<1>4. question \in UpTo(G, {question})[0]
  BY UpToUnfolds
<1>5. Covered(G, {question}, e.max_depth, pending, {})
  <2>. DEFINE first == {Entry(x, 0, {}) : x \in {question}}
  <2>1. Covered(G, {question}, e.max_depth, first, {})
    BY CoveredAtStart
  <2>2. first = pending
    OBVIOUS
  <2>. HIDE DEF first, pending
  <2>3. QED BY <2>1, <2>2
<1>. HIDE DEF pending
<1>6. Covered(G, {question}, e.max_depth, pending, Settled(e, c))
  BY <1>5, CoveredByMore
<1>7. \A entry \in c.pending : entry.depth \in Nat /\ entry.at \in LedTo(e, c, entry.depth)
  BY <1>2, <1>3, <1>4 DEF LedTo, G
<1>8. QED BY <1>2, <1>6, <1>7 DEF Asking, G, c

LEMMA AskCases ==
  ASSUME NEW e, NEW c, NEW entry, NEW d, d = Ask(e, c, entry),
         c = Call(c.kind, c.question, c.user, c.pending, c.found)
  PROVE  /\ d.kind = c.kind /\ d.question = c.question /\ d.user = c.user
         /\ d = Call(d.kind, d.question, d.user, d.pending, d.found)
         /\ \/ /\ entry.at \in entry.path \/ entry.depth > e.max_depth
               /\ d.pending = c.pending \ {entry} /\ d.found = c.found
            \/ /\ ~ (entry.depth > e.max_depth)
               /\ d.pending = (c.pending \ {entry}) \cup Further(entry, Calls(e, entry.at))
               /\ d.found = c.found \cup Hits(e, c, entry.at)
<1>. DEFINE rest == c.pending \ {entry}
            next == rest \cup Further(entry, Calls(e, entry.at))
            more == c.found \cup Hits(e, c, entry.at)
<1>1. CASE TooDeep(e, entry.depth) \/ entry.at \in entry.path
  <2>1. d = [c EXCEPT !.pending = rest]
    BY <1>1 DEF Ask
  <2>. HIDE DEF rest
  <2>2. d = Call(c.kind, c.question, c.user, rest, c.found)
    BY <2>1 DEF Call
  <2>3. /\ d.kind = c.kind /\ d.question = c.question /\ d.user = c.user
        /\ d.pending = rest /\ d.found = c.found
        /\ d = Call(d.kind, d.question, d.user, d.pending, d.found)
    BY <2>2 DEF Call
  <2>4. QED BY <1>1, <2>3 DEF TooDeep, rest
<1>2. CASE ~ (TooDeep(e, entry.depth) \/ entry.at \in entry.path)
  <2>1. d = [c EXCEPT !.pending = next, !.found = @ \cup Hits(e, c, entry.at)]
    BY <1>2 DEF Ask
  <2>. HIDE DEF next
  <2>2. d = Call(c.kind, c.question, c.user, next, more)
    BY <2>1 DEF Call
  <2>. HIDE DEF more
  <2>3. /\ d.kind = c.kind /\ d.question = c.question /\ d.user = c.user
        /\ d.pending = next /\ d.found = more
        /\ d = Call(d.kind, d.question, d.user, d.pending, d.found)
    BY <2>2 DEF Call
  <2>4. QED BY <1>2, <2>3 DEF TooDeep, next, rest, more
<1>3. QED BY <1>1, <1>2

LEMMA SameHits ==
  ASSUME NEW e, NEW c, NEW d, d.kind = c.kind, d.user = c.user
  PROVE  \A q : Hits(e, d, q) = Hits(e, c, q)
BY DEF Hits

\* What is led to from an entry within the depth
LEMMA AskingEntry ==
  ASSUME NEW e, NEW c, Asking(e, c), NEW entry \in c.pending
  PROVE  /\ entry.depth \in Nat /\ entry.at \in LedTo(e, c, entry.depth)
         /\ entry.at \in Questions(e, c.question)
         /\ Successors(CallGraph(e, c.question), entry.at) = Calls(e, entry.at)
<1>1. entry.depth \in Nat /\ entry.at \in LedTo(e, c, entry.depth) /\ IsQuestion(c.question)
  BY DEF Asking
<1>2. entry.at \in Questions(e, c.question)
  BY <1>1, LedToIsQuestion DEF LedTo
<1>3. QED BY <1>1, <1>2, SuccessorsAreCalls

LEMMA AskKeepsAsking ==
  ASSUME NEW e, e.max_depth \in Nat, NEW c, Asking(e, c), NEW entry \in c.pending
  PROVE  Asking(e, Ask(e, c, entry))
<1>. DEFINE d == Ask(e, c, entry)
            G == CallGraph(e, c.question)
            At(n) == UpTo(G, {c.question})[n]
            Limit == e.max_depth
<1>. HIDE DEF d, G, At
<1>1. /\ c = Call(c.kind, c.question, c.user, c.pending, c.found)
      /\ c.kind \in {"check", "expand"} /\ IsQuestion(c.question)
      /\ \A other \in c.pending : other.depth \in Nat /\ other.at \in At(other.depth)
      /\ c.found \subseteq UNION {Hits(e, c, q) : q \in At(Limit)}
      /\ Covered(G, {c.question}, Limit, c.pending, Settled(e, c))
  BY DEF Asking, LedTo, G, At
<1>2. /\ entry.depth \in Nat /\ entry.at \in At(entry.depth)
      /\ entry.at \in Questions(e, c.question)
      /\ Successors(G, entry.at) = Calls(e, entry.at)
  BY AskingEntry DEF LedTo, G, At
<1>3. /\ d.kind = c.kind /\ d.question = c.question /\ d.user = c.user
      /\ d = Call(d.kind, d.question, d.user, d.pending, d.found)
  BY <1>1, AskCases DEF d
<1>4. \A q : Hits(e, d, q) = Hits(e, c, q)
  BY <1>3, SameHits
<1>5. \A n : LedTo(e, d, n) = At(n)
  BY <1>3 DEF LedTo, G, At
<1>6. ASSUME /\ \A other \in d.pending : other.depth \in Nat /\ other.at \in At(other.depth)
             /\ d.found \subseteq UNION {Hits(e, c, q) : q \in At(Limit)}
             /\ Covered(G, {c.question}, Limit, d.pending, Settled(e, d))
      PROVE  Asking(e, d)
  <2>1. UNION {Hits(e, d, q) : q \in LedTo(e, d, Limit)} = UNION {Hits(e, c, q) : q \in At(Limit)}
    BY <1>4, <1>5
  <2>2. QED BY <1>1, <1>3, <1>5, <1>6, <2>1 DEF Asking, G
<1>7. ASSUME /\ entry.at \in entry.path \/ entry.depth > Limit
             /\ d.pending = c.pending \ {entry} /\ d.found = c.found
      PROVE  Asking(e, d)
  <2>1. Settled(e, d) = Settled(e, c)
    BY <1>3, <1>4, <1>7 DEF Settled
  <2>2. Covered(G, {c.question}, Limit, d.pending, Settled(e, d))
    BY <1>1, <1>7, <2>1, CoveredAfterDrop
  <2>3. QED BY <1>1, <1>6, <1>7, <2>2
<1>8. ASSUME /\ ~ (entry.depth > Limit)
             /\ d.pending = (c.pending \ {entry}) \cup Further(entry, Calls(e, entry.at))
             /\ d.found = c.found \cup Hits(e, c, entry.at)
      PROVE  Asking(e, d)
  <2>1. Settled(e, c) \cup {entry.at} \subseteq Settled(e, d)
    BY <1>2, <1>3, <1>4, <1>8 DEF Settled
  <2>2. Covered(G, {c.question}, Limit, d.pending, Settled(e, c) \cup {entry.at})
    BY <1>1, <1>2, <1>8, CoveredAfterExpansion
  <2>3. Covered(G, {c.question}, Limit, d.pending, Settled(e, d))
    BY <2>1, <2>2, CoveredByMore
  <2>4. ASSUME NEW other \in d.pending PROVE other.depth \in Nat /\ other.at \in At(other.depth)
    <3>1. CASE other \in c.pending
      BY <1>1, <3>1
    <3>2. CASE other \in Further(entry, Calls(e, entry.at))
      <4>1. PICK x \in Calls(e, entry.at) :
              other.at = x /\ other.depth = entry.depth + 1
        BY <3>2 DEF Further, Entry
      <4>2. x \in At(entry.depth + 1)
        BY <1>2, <4>1, UpToSuccessor DEF At
      <4>3. QED BY <1>2, <4>1, <4>2
    <3>3. QED BY <1>8, <3>1, <3>2
  <2>5. entry.at \in At(Limit)
    <3>1. entry.depth <= Limit
      BY <1>2, <1>8
    <3>2. QED BY <1>2, <3>1, UpToGrows DEF At
  <2>6. d.found \subseteq UNION {Hits(e, c, q) : q \in At(Limit)}
    BY <1>1, <1>8, <2>5
  <2>7. QED BY <1>6, <2>3, <2>4, <2>6
<1>9. Asking(e, d)
  BY <1>1, <1>7, <1>8, AskCases DEF d
<1>10. QED BY <1>9 DEF d

\* With nothing pending the search has found what is implied.
LEMMA AskedToTheEnd ==
  ASSUME NEW e, e.max_depth \in Nat, NEW c, Asking(e, c), c.pending = {}
  PROVE  c.found = UNION {Hits(e, c, q) : q \in Implied(e, c.question)}
<1>1. Implied(e, c.question) = LedTo(e, c, e.max_depth)
  BY DEF Implied, LedTo
<1>2. LedTo(e, c, e.max_depth) \subseteq Settled(e, c)
  BY SearchEnds DEF Asking, LedTo
<1>3. QED BY <1>1, <1>2 DEF Asking, Settled

LEMMA CheckedExactly ==
  ASSUME NEW e, e.max_depth \in Nat, NEW c, Asking(e, c), c.kind = "check", Ended(c)
  PROVE  c.found # {} <=> Holds(e, c.question, c.user)
<1>1. \A q : Hits(e, c, q) = {user \in {c.user} : Grants(e, q, user)}
  BY DEF Hits
<1>2. ASSUME c.found # {} PROVE Holds(e, c.question, c.user)
  <2>1. PICK q \in Implied(e, c.question) : Hits(e, c, q) # {}
    BY <1>2 DEF Asking, LedTo, Implied
  <2>2. QED BY <1>1, <2>1 DEF Holds
<1>3. ASSUME c.found = {} PROVE ~ Holds(e, c.question, c.user)
  <2>1. c.pending = {}
    BY <1>3 DEF Ended
  <2>2. \A q \in Implied(e, c.question) : Hits(e, c, q) = {}
    BY <1>3, <2>1, AskedToTheEnd
  <2>3. QED BY <1>1, <2>2 DEF Holds
<1>4. QED BY <1>2, <1>3

(***************************************************************************)
(* The wildcard is the only user besides the one asked about that grants.  *)
(***************************************************************************)
LEMMA WildcardIsEveryone ==
  ASSUME NEW u \in [object : STRING \X STRING, relation : STRING], NEW id
  PROVE  (~ IsUserset(u) /\ (u = User(id) \/ WildcardFor(u, User(id)))) <=> u \in {User(id), Everyone}
<1>1. /\ User(id).relation = "" /\ User(id).object = <<"user", id>>
      /\ Everyone.relation = "" /\ Everyone.object = <<"user", "*">>
  BY DEF User, Everyone
<1>2. WildcardFor(u, User(id)) <=>
        u.relation = "" /\ u.object[2] = "*" /\ u.object[1] = "user"
  <2>1. User(id).object[1] = "user"
    BY DEF User
  <2>2. QED BY <2>1 DEF WildcardFor, IsUserset
<1>3. u = Everyone <=> u.relation = "" /\ u.object = <<"user", "*">>
  <2>1. u = [object |-> u.object, relation |-> u.relation]
    OBVIOUS
  <2>2. QED BY <1>1, <2>1 DEF Everyone
<1>4. u.object = <<"user", "*">> <=> u.object[2] = "*" /\ u.object[1] = "user"
  <2>1. u.object = <<u.object[1], u.object[2]>>
    OBVIOUS
  <2>2. QED BY <2>1
<1>5. QED BY <1>1, <1>2, <1>3, <1>4 DEF IsUserset

\* An object that no tuple puts anyone on grants nothing.
LEMMA GrantsNeedTuples ==
  ASSUME NEW e, e.max_depth \in Nat, NEW object, NEW relation, NEW user,
         Holds(e, <<object, relation>>, user)
  PROVE  object \in Objects(e)
<1>. SUFFICES ASSUME object \notin Objects(e) PROVE FALSE
  OBVIOUS
<1>. DEFINE question == <<object, relation>>
            S == {q \in Questions(e, question) : q[1] = object}
<1>1. \A other : Direct(e, object, other) = {}
  BY DEF Direct, Objects
<1>2. question \in S
  <2>1. IsQuestion(question) /\ question[1] = object
    BY DEF IsQuestion
  <2>2. QED BY <2>1, FirstIsQuestion
<1>3. ASSUME NEW q \in S PROVE Successors(CallGraph(e, question), q) \subseteq S
  <2>1. q \in Questions(e, question) /\ q[1] = object
    OBVIOUS
  <2>. HIDE DEF question
  <2>2. Successors(CallGraph(e, question), q) = Calls(e, q)
    BY <2>1, SuccessorsAreCalls
  <2>3. Calls(e, q) \subseteq Questions(e, question)
    BY <2>1, CallsAreQuestions
  <2>4. ASSUME NEW rule, NEW y \in CallsFor(e, rule, q) PROVE y[1] = object
    <3>1. CASE rule.kind = "computed_userset"
      BY <2>1, <2>4, <3>1 DEF CallsFor
    <3>2. CASE rule.kind # "computed_userset"
      BY <1>1, <2>1, <2>4, <3>2 DEF CallsFor
    <3>3. QED BY <3>1, <3>2
  <2>5. \A y \in Calls(e, q) : y[1] = object
    BY <2>4 DEF Calls
  <2>6. QED BY <2>2, <2>3, <2>5
<1>. HIDE DEF S, question
<1>4. UpTo(CallGraph(e, question), {question})[e.max_depth] \subseteq S
  BY <1>2, <1>3, UpToInClosed
<1>5. PICK q \in S : Grants(e, q, user)
  BY <1>4 DEF Holds, Implied, question
<1>6. UsersNamed(e, q) = {}
  BY <1>1 DEF UsersNamed, S
<1>7. QED BY <1>5, <1>6 DEF Grants

(***************************************************************************)
(* The engine of google_drive_model().                                     *)
(***************************************************************************)
Listing(user, relation, type, left, listed) ==
  [kind |-> "objects", user |-> user, relation |-> relation, type |-> type, left |-> left, listed |-> listed]

IsListing(l) == l = Listing(l.user, l.relation, l.type, l.left, l.listed)

\* The candidates that were checked are listed as they should be.
ListingSound ==
  /\ listing.left \subseteq Candidates(Drive, listing.type)
  /\ listing.listed \subseteq Candidates(Drive, listing.type)
  /\ \A object \in Candidates(Drive, listing.type) \ listing.left :
       object \in listing.listed <=> Holds(Drive, <<object, listing.relation>>, listing.user)
  /\ listing.listed \cap listing.left = {}

AskedForListing ==
  /\ asked.kind = "check" /\ asked.user = listing.user
  /\ asked.question[1] \in listing.left /\ asked.question = <<asked.question[1], listing.relation>>

RebacInv ==
  /\ tuples \subseteq DriveTuples
  /\ asked = NotAsked \/ Asking(Drive, asked)
  /\ listing = NotListing \/ (IsListing(listing) /\ ListingSound)
  /\ asked # NotAsked /\ listing # NotListing => AskedForListing

LEMMA DriveFields ==
  /\ Drive.max_depth = DriveDepth /\ Drive.max_depth \in Nat /\ Drive.tuples = tuples
  /\ (tuples' = tuples) => Drive' = Drive
<1>1. Drive.max_depth = DriveDepth /\ Drive.tuples = tuples
  BY DEF Drive
<1>2. (tuples' = tuples) => Drive' = Drive
  BY DEF Drive, DriveNamespaces, This, Union, Computed, Through
<1>3. QED BY <1>1, <1>2, RebacAssumption

LEMMA AskingIsAsked ==
  ASSUME NEW e, Asking(e, asked)
  PROVE  asked # NotAsked
<1>1. NotAsked.kind = "none"
  BY DEF NotAsked
<1>2. QED BY <1>1 DEF Asking

LEMMA ListingKinds ==
  /\ NotListing.kind = "none"
  /\ IsListing(listing) => listing.kind = "objects"
BY DEF NotListing, IsListing, Listing

LEMMA WritingKeeps ==
  ASSUME RebacInv, asked = NotAsked, listing = NotListing,
         tuples' \subseteq DriveTuples, UNCHANGED <<asked, listing>>
  PROVE  RebacInv'
BY DEF RebacInv

LEMMA StartAskingKeeps ==
  ASSUME RebacInv, NEW kind \in {"check", "expand"}, NEW question \in DriveQuestions, NEW user,
         StartAsking(kind, question, user)
  PROVE  RebacInv'
<1>1. /\ asked' = Calling(kind, question, user) /\ listing' = NotListing
      /\ tuples' = tuples
  BY DEF StartAsking
<1>2. IsQuestion(question)
  BY RebacAssumption DEF IsQuestion
<1>3. Asking(Drive, Calling(kind, question, user))
  BY <1>2, CallingAsks
<1>4. Drive' = Drive
  BY <1>1, DriveFields
<1>5. QED BY <1>1, <1>3, <1>4 DEF RebacInv

LEMMA AskTurnKeeps ==
  ASSUME RebacInv, AskTurn
  PROVE  RebacInv'
<1>1. PICK entry \in asked.pending : asked' = Ask(Drive, asked, entry)
  BY DEF AskTurn, Deepest
<1>2. tuples' = tuples /\ listing' = listing /\ Asking(Drive, asked) /\ asked # NotAsked
  BY DEF AskTurn, RebacInv
<1>3. Drive' = Drive
  BY <1>2, DriveFields
<1>4. Asking(Drive, asked')
  BY <1>1, <1>2, DriveFields, AskKeepsAsking
<1>5. asked'.kind = asked.kind /\ asked'.question = asked.question /\ asked'.user = asked.user
  BY <1>1, <1>2, AskCases DEF Asking
<1>6. ListingSound => ListingSound'
  BY <1>2, <1>3 DEF ListingSound
<1>7. AskedForListing => AskedForListing'
  BY <1>2, <1>5 DEF AskedForListing
<1>8. QED BY <1>2, <1>3, <1>4, <1>6, <1>7 DEF RebacInv

LEMMA StartListingKeeps ==
  ASSUME RebacInv, NEW user, NEW relation, NEW type, StartListing(user, relation, type)
  PROVE  RebacInv'
<1>1. /\ listing' = Listing(user, relation, type, Candidates(Drive, type), {})
      /\ tuples' = tuples /\ asked' = asked /\ asked = NotAsked
  BY DEF StartListing, Listing
<1>2. /\ listing'.user = user /\ listing'.relation = relation /\ listing'.type = type
      /\ listing'.left = Candidates(Drive, type) /\ listing'.listed = {}
  BY <1>1 DEF Listing
<1>3. Drive' = Drive
  BY <1>1, DriveFields
<1>4. IsListing(listing')
  BY <1>1, <1>2 DEF IsListing
<1>5. ListingSound'
  BY <1>2, <1>3 DEF ListingSound
<1>6. QED BY <1>1, <1>4, <1>5 DEF RebacInv

LEMMA CheckCandidateKeeps ==
  ASSUME RebacInv, CheckCandidate
  PROVE  RebacInv'
<1>1. PICK object \in listing.left :
        asked' = Calling("check", <<object, listing.relation>>, listing.user)
  BY DEF CheckCandidate
<1>2. tuples' = tuples /\ listing' = listing /\ listing.kind = "objects"
  BY DEF CheckCandidate
<1>3. Drive' = Drive
  BY <1>2, DriveFields
<1>4. IsQuestion(<<object, listing.relation>>)
  BY DEF IsQuestion
<1>5. Asking(Drive, asked')
  BY <1>1, <1>4, CallingAsks
<1>6. /\ asked'.kind = "check" /\ asked'.user = listing.user
      /\ asked'.question = <<object, listing.relation>>
  BY <1>1 DEF Calling
<1>7. AskedForListing'
  BY <1>2, <1>6 DEF AskedForListing
<1>8. ListingSound => ListingSound'
  BY <1>2, <1>3 DEF ListingSound
<1>9. QED BY <1>2, <1>3, <1>5, <1>7, <1>8 DEF RebacInv

LEMMA ListingUpdated ==
  ASSUME NEW l, NEW left, NEW listed, NEW m, IsListing(l),
         m = [l EXCEPT !.left = left, !.listed = listed]
  PROVE  m = Listing(l.user, l.relation, l.type, left, listed)
<1>1. DOMAIN l = {"kind", "user", "relation", "type", "left", "listed"} /\ l.kind = "objects"
  <2>. DEFINE k == Listing(l.user, l.relation, l.type, l.left, l.listed)
  <2>1. DOMAIN k = {"kind", "user", "relation", "type", "left", "listed"} /\ k.kind = "objects"
    BY DEF Listing
  <2>. HIDE DEF k
  <2>2. l = k
    BY DEF IsListing, k
  <2>3. QED BY <2>1, <2>2
<1>2. m = [kind |-> l.kind, user |-> l.user, relation |-> l.relation, type |-> l.type,
           left |-> left, listed |-> listed]
  BY <1>1
<1>3. QED BY <1>1, <1>2 DEF Listing

LEMMA TakeAnswerKeeps ==
  ASSUME RebacInv, TakeAnswer
  PROVE  RebacInv'
<1>. DEFINE object == asked.question[1]
            listed == IF asked.found # {} THEN listing.listed \cup {object} ELSE listing.listed
            left == listing.left \ {object}
            All == Candidates(Drive, listing.type)
            Right(x) == Holds(Drive, <<x, listing.relation>>, listing.user)
<1>1. tuples' = tuples /\ asked' = NotAsked /\ listing.kind = "objects" /\ Ended(asked)
  BY DEF TakeAnswer
<1>2. listing # NotListing /\ IsListing(listing) /\ ListingSound
  BY <1>1, ListingKinds DEF RebacInv
<1>3. asked # NotAsked
  <2>1. NotAsked.kind = "none"
    BY DEF NotAsked
  <2>2. QED BY <1>1, <2>1 DEF Ended
<1>4. Asking(Drive, asked) /\ AskedForListing
  BY <1>2, <1>3 DEF RebacInv
<1>5. listing' = Listing(listing.user, listing.relation, listing.type, left, listed)
  <2>1. listing' = [listing EXCEPT !.left = left, !.listed = listed]
    BY DEF TakeAnswer
  <2>. HIDE DEF left, listed
  <2>2. QED BY <1>2, <2>1, ListingUpdated
<1>6. asked.found # {} <=> Right(object)
  BY <1>1, <1>4, CheckedExactly, DriveFields DEF AskedForListing
<1>. HIDE DEF left, listed, object, Right, All
<1>7. /\ listing'.user = listing.user /\ listing'.relation = listing.relation
      /\ listing'.type = listing.type /\ listing'.left = left /\ listing'.listed = listed
  BY <1>5 DEF Listing
<1>8. IsListing(listing')
  BY <1>5, <1>7 DEF IsListing
<1>9. Drive' = Drive
  BY <1>1, DriveFields
<1>10. object \in listing.left
  BY <1>4 DEF AskedForListing, object
<1>11. /\ listing.left \subseteq All /\ listing.listed \subseteq All
       /\ \A x \in All \ listing.left : x \in listing.listed <=> Right(x)
       /\ listing.listed \cap listing.left = {}
  BY <1>2 DEF ListingSound, All, Right
<1>12. /\ left \subseteq All /\ listed \subseteq All /\ listed \cap left = {}
       /\ \A x \in All \ left : x \in listed <=> Right(x)
  BY <1>6, <1>10, <1>11 DEF left, listed
<1>13. ListingSound'
  BY <1>7, <1>9, <1>12 DEF ListingSound, All, Right
<1>14. QED BY <1>1, <1>8, <1>13 DEF RebacInv

LEMMA RebacInvInductive ==
  /\ RebacInit => RebacInv
  /\ RebacInv /\ [RebacNext]_rebacVars => RebacInv'
<1>1. RebacInit => RebacInv
  BY DEF RebacInit, RebacInv
<1>2. ASSUME RebacInv, [RebacNext]_rebacVars PROVE RebacInv'
  <2>1. CASE \E t \in DriveTuples : Write(t) \/ Delete(t)
    <3>1. /\ asked = NotAsked /\ listing = NotListing
          /\ tuples' \subseteq DriveTuples /\ UNCHANGED <<asked, listing>>
      BY <1>2, <2>1 DEF Write, Delete, RebacInv
    <3>2. QED BY <1>2, <3>1, WritingKeeps
  <2>2. CASE \E kind \in {"check", "expand"}, question \in DriveQuestions, id \in DriveUsers :
               StartAsking(kind, question, User(id))
    BY <1>2, <2>2, StartAskingKeeps
  <2>3. CASE \E id \in DriveUsers, question \in DriveQuestions :
               StartListing(User(id), question[2], question[1][1])
    BY <1>2, <2>3, StartListingKeeps
  <2>4. CASE AskTurn
    BY <1>2, <2>4, AskTurnKeeps
  <2>5. CASE ReturnAnswer
    BY <1>2, <2>5 DEF ReturnAnswer, RebacInv
  <2>6. CASE CheckCandidate
    BY <1>2, <2>6, CheckCandidateKeeps
  <2>7. CASE TakeAnswer
    BY <1>2, <2>7, TakeAnswerKeeps
  <2>8. CASE ReturnListing
    <3>1. /\ listing' = NotListing /\ asked' = NotAsked /\ tuples' = tuples
      BY <2>8 DEF ReturnListing, Listed
    <3>2. QED BY <1>2, <3>1 DEF RebacInv
  <2>9. CASE UNCHANGED rebacVars
    <3>1. tuples' = tuples /\ asked' = asked /\ listing' = listing
      BY <2>9 DEF rebacVars
    <3>2. Drive' = Drive
      BY <3>1, DriveFields
    <3>3. QED BY <1>2, <3>1, <3>2 DEF RebacInv, ListingSound, AskedForListing
  <2>10. QED BY <1>2, <2>1, <2>2, <2>3, <2>4, <2>5, <2>6, <2>7, <2>8, <2>9 DEF RebacNext
<1>3. QED BY <1>1, <1>2

LEMMA RebacInvSuffices == RebacInv => CheckIsClosure
<1>. SUFFICES ASSUME RebacInv PROVE CheckIsClosure
  OBVIOUS
<1>. DEFINE e == Drive
<1>1. e.max_depth \in Nat /\ tuples \subseteq DriveTuples /\ e.tuples = tuples
  BY DriveFields DEF RebacInv
<1>2. asked.kind \in {"check", "expand"} => Asking(e, asked)
  <2>1. NotAsked.kind = "none"
    BY DEF NotAsked
  <2>2. QED BY <2>1 DEF RebacInv
<1>. HIDE DEF e
<1>3. ASSUME asked.kind = "check", Ended(asked)
      PROVE  asked.found # {} <=> Holds(e, asked.question, asked.user)
  BY <1>1, <1>2, <1>3, CheckedExactly
<1>4. ASSUME asked.kind = "expand", Ended(asked)
      PROVE  /\ asked.found = UNION {UsersNamed(e, q) : q \in Implied(e, asked.question)}
             /\ \A id \in DriveUsers :
                  {User(id), Everyone} \cap asked.found # {} <=> Holds(e, asked.question, User(id))
  <2>1. asked.pending = {} /\ \A q : Hits(e, asked, q) = UsersNamed(e, q)
    BY <1>4 DEF Ended, Hits
  <2>2. asked.found = UNION {Hits(e, asked, q) : q \in Implied(e, asked.question)}
    BY <1>1, <1>2, <1>4, <2>1, AskedToTheEnd
  <2>3. asked.found = UNION {UsersNamed(e, q) : q \in Implied(e, asked.question)}
    BY <2>1, <2>2
  <2>4. \A q : \A u \in UsersNamed(e, q) :
          u \in [object : STRING \X STRING, relation : STRING] /\ ~ IsUserset(u)
    BY <1>1, RebacAssumption DEF UsersNamed, Direct, RelationTuple
  <2>5. ASSUME NEW id
        PROVE  \A q : Grants(e, q, User(id)) <=> {User(id), Everyone} \cap UsersNamed(e, q) # {}
    <3>. TAKE q
    <3>1. \A u \in UsersNamed(e, q) :
            (u = User(id) \/ WildcardFor(u, User(id))) <=> u \in {User(id), Everyone}
      BY <2>4, WildcardIsEveryone
    <3>2. QED BY <3>1 DEF Grants
  <2>6. ASSUME NEW id
        PROVE  {User(id), Everyone} \cap asked.found # {} <=> Holds(e, asked.question, User(id))
    BY <2>3, <2>5 DEF Holds
  <2>7. QED BY <2>3, <2>6
<1>5. ASSUME Listed, NEW object
      PROVE  object \in listing.listed <=>
               object[1] = listing.type /\ Holds(e, <<object, listing.relation>>, listing.user)
  <2>1. listing.kind = "objects" /\ listing.left = {}
    BY <1>5 DEF Listed
  <2>2. ListingSound
    BY <2>1, ListingKinds DEF RebacInv
  <2>3. /\ listing.listed \subseteq Candidates(e, listing.type)
        /\ \A o \in Candidates(e, listing.type) :
             o \in listing.listed <=> Holds(e, <<o, listing.relation>>, listing.user)
    BY <2>1, <2>2 DEF ListingSound, e
  <2>4. Candidates(e, listing.type) = {o \in Objects(e) : o[1] = listing.type}
    BY DEF Candidates, Objects
  <2>5. Holds(e, <<object, listing.relation>>, listing.user) => object \in Objects(e)
    BY <1>1, GrantsNeedTuples
  <2>6. QED BY <2>3, <2>4, <2>5
<1>6. QED BY <1>3, <1>4, <1>5 DEF CheckIsClosure, e

\* check(), list_users() and list_objects() agree with what the tuples imply within
\* max_depth, for all sets of tuples, cycles included, and every order of the search.
THEOREM ChecksFindTheClosure == RebacSpec => []CheckIsClosure
<1>1. RebacInit => RebacInv
  BY RebacInvInductive
<1>2. RebacInv /\ [RebacNext]_rebacVars => RebacInv'
  BY RebacInvInductive
<1>3. RebacInv => CheckIsClosure
  BY RebacInvSuffices
<1>4. QED BY <1>1, <1>2, <1>3, PTL DEF RebacSpec

(***************************************************************************)
(* Filters: the parser and the derivations, one step after the other.      *)
(***************************************************************************)
\* The words for where the parser stands, and the connectives, are distinct.
LEMMA ConstantsApart ==
  /\ "term" # "after" /\ "term" # "raised" /\ "after" # "raised" /\ "term" # "and" /\ "term" # "or"
  /\ "and" # "or" /\ "and" # ")" /\ "or" # ")" /\ "and" # "AND"
  /\ \A at \in {"operator", "value"} : at \notin {"term", "after", "raised"}
  /\ "operator" # "value"
OBVIOUS

Word == FilterToken \cup {"end"}

\* Lower case letters stay what they are.
LEMMA LowerCaseIs ==
  /\ \A token \in Word : LowerCase(token) \in Word
  /\ LowerCase("and") = "and" /\ LowerCase("or") = "or" /\ LowerCase(")") = ")" /\ LowerCase("end") = "end"
  /\ \A token : LowerCase(token) \in {")", "or"} => token = LowerCase(token)
BY DEF LowerCase, Word, FilterToken

LEMMA WordsArePeeked ==
  ASSUME NEW words \in Seq(FilterToken), NEW n \in Nat
  PROVE  Peek(words, n + 1) \in Word
BY DEF Peek, Word

\* Outcomes and how they are joined
LEMMA OutcomesJoined ==
  /\ "fails" \in Outcomes /\ "holds" \in Outcomes
  /\ \A a, b \in Outcomes : Both(a, b) \in Outcomes /\ Either(a, b) \in Outcomes
  /\ \A a : Both("holds", a) = a /\ Either("fails", a) = a
  /\ \A a, b, c \in Outcomes : Both(Both(a, b), c) = Both(a, Both(b, c))
BY DEF Outcomes, Both, Either

LEMMA ComparisonsHaveOutcomes ==
  ASSUME NEW attr, NEW operator, NEW value
  PROVE  Compare(attr, operator, value) \in Outcomes /\ Present(attr) \in Outcomes
<1>1. \A condition : Truth(condition) \in Outcomes
  BY DEF Truth, Outcomes
<1>2. Present(attr) \in Outcomes
  BY <1>1 DEF Present
<1>3. Compare(attr, operator, value) \in Outcomes
  BY <1>1, Zenon DEF Compare, Outcomes
<1>. QED BY <1>2, <1>3

Held == [any : Outcomes, all : Outcomes]

Levels == Seq(Held)

Standings ==
  [at : {"term", "operator", "value", "after", "raised"}, outer : Levels, any : Outcomes, all : Outcomes,
   attr : Word, operator : Word]

\* The fields of a standing
LEMMA StandingsAre ==
  ASSUME NEW at \in {"term", "after", "raised"}, NEW outer \in Levels,
         NEW any \in Outcomes, NEW all \in Outcomes
  PROVE  /\ Standing(at, outer, any, all) \in Standings
         /\ Standing(at, outer, any, all).at = at /\ Standing(at, outer, any, all).outer = outer
         /\ Standing(at, outer, any, all).any = any /\ Standing(at, outer, any, all).all = all
BY DEF Standing, Standings, Word

\* What the closing of a parenthesis takes apart,
LEMMA FrontAndLast ==
  ASSUME NEW T, NEW seq \in Seq(T), seq # <<>>
  PROVE  Len(seq) \in DOMAIN seq /\ seq[Len(seq)] \in T /\ SubSeq(seq, 1, Len(seq) - 1) \in Seq(T)
<1>1. Len(seq) \in Nat /\ Len(seq) # 0 /\ DOMAIN seq = 1..Len(seq)
  OBVIOUS
<1>2. \A i \in 1..Len(seq) : seq[i] \in T
  OBVIOUS
<1>3. SubSeq(seq, 1, Len(seq) - 1) \in Seq(T)
  BY <1>1, <1>2
<1>4. QED BY <1>1, <1>2, <1>3

\* and that it undoes the opening.
LEMMA FrontOfAppend ==
  ASSUME NEW T, NEW seq \in Seq(T), NEW x \in T
  PROVE  /\ Append(seq, x) \in Seq(T) /\ Append(seq, x) # <<>>
         /\ Append(seq, x)[Len(Append(seq, x))] = x
         /\ SubSeq(Append(seq, x), 1, Len(Append(seq, x)) - 1) = seq
<1>. DEFINE longer == Append(seq, x)
<1>1. longer \in Seq(T) /\ Len(longer) = Len(seq) + 1 /\ Len(seq) \in Nat
  OBVIOUS
<1>2. longer[Len(longer)] = x /\ \A i \in 1..Len(seq) : longer[i] = seq[i]
  OBVIOUS
<1>. HIDE DEF longer
<1>3. SubSeq(longer, 1, Len(longer) - 1) \in Seq(T) /\ Len(SubSeq(longer, 1, Len(longer) - 1)) = Len(seq)
  BY <1>1
<1>4. \A i \in 1..Len(seq) : SubSeq(longer, 1, Len(longer) - 1)[i] = seq[i]
  BY <1>1, <1>2
<1>5. SubSeq(longer, 1, Len(longer) - 1) = seq
  BY <1>1, <1>3, <1>4
<1>6. longer # <<>>
  BY <1>1
<1>7. QED BY <1>1, <1>2, <1>5, <1>6 DEF longer

\* No token leads the parser outside its standings,
LEMMA TurnStands ==
  ASSUME NEW s \in Standings, NEW token \in Word
  PROVE  ParserTurn(s, token) \in Standings
<1>0. s.outer \in Levels /\ s.any \in Outcomes /\ s.all \in Outcomes /\ LowerCase(token) \in Word
  BY LowerCaseIs DEF Standings
<1>1. Raised \in Standings
  <2>1. <<>> \in Levels
    BY DEF Levels
  <2>2. QED BY <2>1, OutcomesJoined, StandingsAre DEF Raised
<1>2. ReadTerm(s, token) \in Standings
  <2>1. Append(s.outer, [any |-> s.any, all |-> s.all]) \in Levels
    <3>1. [any |-> s.any, all |-> s.all] \in Held
      BY <1>0 DEF Held
    <3>2. QED BY <1>0, <3>1 DEF Levels
  <2>2. Standing("term", Append(s.outer, [any |-> s.any, all |-> s.all]), "fails", "holds") \in Standings
    BY <2>1, OutcomesJoined, StandingsAre
  <2>3. [s EXCEPT !.at = "operator", !.attr = LowerCase(token)] \in Standings
    BY <1>0 DEF Standings
  <2>4. QED BY <1>1, <2>2, <2>3 DEF ReadTerm
<1>3. ASSUME NEW outcome \in Outcomes PROVE Compared(s, outcome) \in Standings
  BY <1>0, OutcomesJoined, StandingsAre DEF Compared
<1>4. ReadOperator(s, token) \in Standings
  <2>1. [s EXCEPT !.at = "value", !.operator = LowerCase(token)] \in Standings
    BY <1>0 DEF Standings
  <2>2. QED BY <1>1, <1>3, <2>1, ComparisonsHaveOutcomes DEF ReadOperator
<1>5. ReadValue(s, token) \in Standings
  BY <1>1, <1>3, ComparisonsHaveOutcomes DEF ReadValue
<1>6. ASSUME s.outer # <<>> PROVE Close(s) \in Standings
  <2>1. Len(s.outer) \in DOMAIN s.outer /\ SubSeq(s.outer, 1, Len(s.outer) - 1) \in Levels
    BY <1>0, <1>6, FrontAndLast DEF Levels
  <2>2. s.outer[Len(s.outer)] \in Held
    BY <1>0, <1>6, FrontAndLast DEF Levels
  <2>. DEFINE level == s.outer[Len(s.outer)]
  <2>. DEFINE value == Both(level.all, Either(s.any, s.all))
  <2>3. level.any \in Outcomes /\ value \in Outcomes
    BY <1>0, <2>2, OutcomesJoined DEF Held
  <2>4. Close(s) = Standing("after", SubSeq(s.outer, 1, Len(s.outer) - 1), level.any, value)
    BY DEF Close
  <2>. HIDE DEF level, value
  <2>5. QED BY <2>1, <2>3, <2>4, StandingsAre
<1>7. ReadOn(s, token) \in Standings
  <2>1. Either(s.any, s.all) \in Outcomes
    BY <1>0, OutcomesJoined
  <2>2. Standing("term", s.outer, s.any, s.all) \in Standings /\ ReadOr(s) \in Standings
    BY <1>0, <2>1, OutcomesJoined, StandingsAre DEF ReadOr
  <2>3. QED BY <1>1, <1>6, <2>2 DEF ReadOn
<1>8. QED BY <1>1, <1>2, <1>4, <1>5, <1>7 DEF ParserTurn

Iterates(g, X, A, F) == g \in [Nat -> X] /\ g[0] = A /\ \A n \in Nat : g[n + 1] = F[g[n]]

LEMMA Iterations ==
  ASSUME NEW X, NEW A \in X, NEW F \in [X -> X]
  PROVE  \E g : Iterates(g, X, A, F)
<1>1. PICK g \in [Nat -> X] : g[0] = A /\ \A n \in Nat : g[n + 1] = F[g[n]]
  BY IterationExists
<1>2. Iterates(g, X, A, F)
  BY <1>1 DEF Iterates
<1>3. QED BY <1>2

\* so the recursive function Reading is defined, turn by turn.
LEMMA ReadingUnfolds ==
  ASSUME NEW words \in Seq(FilterToken)
  PROVE  /\ Reading(words)[0] = Begun
         /\ \A n \in Nat : Reading(words)[n] \in Standings
         /\ \A n \in Nat : Reading(words)[n + 1] = ParserTurn(Reading(words)[n], Peek(words, n + 1))
<1>. DEFINE Pairs == Standings \X Nat
            Step == [x \in Pairs |-> <<ParserTurn(x[1], Peek(words, x[2] + 1)), x[2] + 1>>]
            Equation(g) == g = [n \in Nat |-> IF n = 0 THEN Begun ELSE ParserTurn(g[n - 1], Peek(words, n))]
<1>. DEFINE start == <<Begun, 0>>
<1>1. start \in Pairs
  <2>1. <<>> \in Levels
    BY DEF Levels
  <2>2. Begun \in Standings
    BY <2>1, OutcomesJoined, StandingsAre DEF Begun
  <2>3. QED BY <2>2
<1>2. Step \in [Pairs -> Pairs]
  <2>1. ASSUME NEW x \in Pairs PROVE <<ParserTurn(x[1], Peek(words, x[2] + 1)), x[2] + 1>> \in Pairs
    <3>1. x[1] \in Standings /\ x[2] \in Nat
      OBVIOUS
    <3>2. ParserTurn(x[1], Peek(words, x[2] + 1)) \in Standings
      BY <3>1, TurnStands, WordsArePeeked
    <3>3. QED BY <3>1, <3>2
  <2>. HIDE DEF Pairs
  <2>2. QED BY <2>1
<1>0. PICK g : Iterates(g, Pairs, start, Step)
  <2>. HIDE DEF Pairs, Step, start
  <2>1. QED BY <1>1, <1>2, Iterations
<1>3. g \in [Nat -> Pairs] /\ g[0] = start /\ \A n \in Nat : g[n + 1] = Step[g[n]]
  BY <1>0 DEF Iterates
<1>. DEFINE h == [n \in Nat |-> g[n][1]]
<1>4. \A n \in Nat : g[n] \in Pairs /\ g[n + 1] = <<ParserTurn(g[n][1], Peek(words, g[n][2] + 1)), g[n][2] + 1>>
  <2>. HIDE DEF Pairs
  <2>1. QED BY <1>3
<1>5. \A n \in Nat : g[n][2] = n
  <2>. DEFINE S == {n \in Nat : g[n][2] = n}
  <2>1. 0 \in S
    BY <1>3
  <2>2. ASSUME NEW n \in Nat, n \in S PROVE n + 1 \in S
    <3>1. g[n][2] = n /\ n + 1 \in Nat
      BY <2>2
    <3>. DEFINE turn == ParserTurn(g[n][1], Peek(words, g[n][2] + 1))
    <3>2. g[n + 1] = <<turn, g[n][2] + 1>>
      BY <1>4
    <3>. HIDE DEF turn
    <3>3. g[n + 1][2] = n + 1
      BY <3>1, <3>2
    <3>4. QED BY <3>1, <3>3
  <2>. HIDE DEF S
  <2>3. Nat \subseteq S
    BY <2>1, <2>2, NumbersByInduction
  <2>4. QED BY <2>3 DEF S
<1>6. \A n \in Nat : h[n] \in Standings /\ h[n + 1] = ParserTurn(h[n], Peek(words, n + 1))
  <2>. TAKE n \in Nat
  <2>1. g[n] \in Pairs /\ g[n][2] = n
    BY <1>4, <1>5
  <2>0. h[n] = g[n][1] /\ h[n + 1] = g[n + 1][1]
    OBVIOUS
  <2>2. g[n][1] \in Standings
    BY <2>1
  <2>. DEFINE turn == ParserTurn(g[n][1], Peek(words, g[n][2] + 1))
  <2>3. g[n + 1] = <<turn, g[n][2] + 1>>
    BY <1>4
  <2>4. turn = ParserTurn(h[n], Peek(words, n + 1))
    BY <2>0, <2>1
  <2>. HIDE DEF turn, h, Pairs
  <2>5. g[n + 1][1] = turn
    BY <2>3
  <2>6. QED BY <2>0, <2>2, <2>4, <2>5
<1>7. h[0] = Begun
  BY <1>3
<1>8. DOMAIN h = Nat /\ h = [n \in Nat |-> h[n]]
  OBVIOUS
<1>. HIDE DEF h, Pairs, Step
<1>9. Equation(h)
  <2>1. \A n \in Nat : h[n] = IF n = 0 THEN Begun ELSE ParserTurn(h[n - 1], Peek(words, n))
    <3>. TAKE n \in Nat
    <3>1. CASE n = 0
      BY <1>7, <3>1
    <3>2. CASE n # 0
      <4>1. n - 1 \in Nat /\ (n - 1) + 1 = n
        BY <3>2
      <4>2. QED BY <1>6, <4>1, <3>2
    <3>3. QED BY <3>1, <3>2
  <2>2. QED BY <1>8, <2>1
<1>10. Equation(Reading(words))
  <2>1. Reading(words) = CHOOSE k : Equation(k)
    BY DEF Reading
  <2>2. QED BY <1>9, <2>1
<1>11. Reading(words) = h
  <2>. DEFINE r == Reading(words)
              S == {n \in Nat : r[n] = h[n]}
  <2>1. r[0] = Begun /\ \A n \in Nat : r[n + 1] = ParserTurn(r[n], Peek(words, n + 1))
    <3>1. r[0] = Begun
      BY <1>10
    <3>2. ASSUME NEW n \in Nat PROVE r[n + 1] = ParserTurn(r[n], Peek(words, n + 1))
      <4>1. n + 1 \in Nat /\ n + 1 # 0 /\ (n + 1) - 1 = n
        OBVIOUS
      <4>2. QED BY <1>10, <4>1
    <3>3. QED BY <3>1, <3>2
  <2>2. 0 \in S
    BY <1>7, <2>1
  <2>3. ASSUME NEW n \in Nat, n \in S PROVE n + 1 \in S
    BY <1>6, <2>1, <2>3
  <2>4. Nat \subseteq S
    <3>. HIDE DEF S
    <3>1. QED BY <2>2, <2>3, NumbersByInduction
  <2>5. r = [n \in Nat |-> r[n]]
    BY <1>10
  <2>6. \A n \in Nat : r[n] = h[n]
    BY <2>4
  <2>. HIDE DEF r, S
  <2>7. r = h
    BY <1>8, <2>5, <2>6
  <2>8. QED BY <2>7 DEF r
<1>12. QED BY <1>6, <1>7, <1>11

\* What a derivation may say of a sequence of tokens
Phrases(words) ==
  [kind : {"term", "and", "or"}, from : DOMAIN words, to : DOMAIN words, value : Outcomes]

\* The rules of the grammar, one by one
Rule(words, S, x) ==
  \/ \E i \in DOMAIN words : IsComparison(words, i) /\ x = Phrase("term", i, EndOf(words, i), MeaningOf(words, i))
  \/ \E f \in S : /\ f.kind = "or" /\ LowerCase(Peek(words, f.to + 1)) = ")" /\ f.from > 1 /\ words[f.from - 1] = "("
                  /\ x = Phrase("term", f.from - 1, f.to + 1, f.value)
  \/ \E f \in S : f.kind = "term" /\ x = Phrase("and", f.from, f.to, f.value)
  \/ \E f \in S : f.kind = "and" /\ x = Phrase("or", f.from, f.to, f.value)
  \/ \E f, g \in S : /\ f.kind = "and" /\ LowerCase(Peek(words, f.to + 1)) = "and" /\ g.kind = "term" /\ g.from = f.to + 2
                     /\ x = Phrase("and", f.from, g.to, Both(f.value, g.value))
  \/ \E f, g \in S : /\ f.kind = "or" /\ LowerCase(Peek(words, f.to + 1)) = "or" /\ g.kind = "and" /\ g.from = f.to + 2
                     /\ x = Phrase("or", f.from, g.to, Either(f.value, g.value))

\* Follows is the set of what the rules allow,
LEMMA FollowsByRules ==
  ASSUME NEW words, NEW S, NEW x
  PROVE  x \in Follows(words, S) <=> Rule(words, S, x)
<1>. DEFINE Kind(k) == {f \in S : f.kind = k}
            Before(k, word) == {f \in Kind(k) : LowerCase(Peek(words, f.to + 1)) = word}
            After(k, f) == {g \in Kind(k) : g.from = f.to + 2}
            Terms == {Phrase("term", i, EndOf(words, i), MeaningOf(words, i)) :
                        i \in {n \in DOMAIN words : IsComparison(words, n)}}
            Enclosed == {Phrase("term", f.from - 1, f.to + 1, f.value) :
                           f \in {g \in Before("or", ")") : g.from > 1 /\ words[g.from - 1] = "("}}
            Ands == {Phrase("and", f.from, f.to, f.value) : f \in Kind("term")}
            Ors == {Phrase("or", f.from, f.to, f.value) : f \in Kind("and")}
            AndJoined == UNION {{Phrase("and", f.from, g.to, Both(f.value, g.value)) : g \in After("term", f)} :
                               f \in Before("and", "and")}
            OrJoined == UNION {{Phrase("or", f.from, g.to, Either(f.value, g.value)) : g \in After("and", f)} :
                              f \in Before("or", "or")}
<1>1. Follows(words, S) = Terms \cup Enclosed \cup Ands \cup Ors \cup AndJoined \cup OrJoined
  BY DEF Follows
<1>2. x \in Terms <=>
        \E i \in DOMAIN words : IsComparison(words, i) /\ x = Phrase("term", i, EndOf(words, i), MeaningOf(words, i))
  BY Zenon
<1>3. x \in Enclosed <=>
        \E f \in S : /\ f.kind = "or" /\ LowerCase(Peek(words, f.to + 1)) = ")" /\ f.from > 1 /\ words[f.from - 1] = "("
                    /\ x = Phrase("term", f.from - 1, f.to + 1, f.value)
  BY Zenon
<1>4. x \in Ands <=> \E f \in S : f.kind = "term" /\ x = Phrase("and", f.from, f.to, f.value)
  BY Zenon
<1>5. x \in Ors <=> \E f \in S : f.kind = "and" /\ x = Phrase("or", f.from, f.to, f.value)
  BY Zenon
<1>6. x \in AndJoined <=>
        \E f, g \in S : /\ f.kind = "and" /\ LowerCase(Peek(words, f.to + 1)) = "and" /\ g.kind = "term" /\ g.from = f.to + 2
                       /\ x = Phrase("and", f.from, g.to, Both(f.value, g.value))
  OBVIOUS
<1>7. x \in OrJoined <=>
        \E f, g \in S : /\ f.kind = "or" /\ LowerCase(Peek(words, f.to + 1)) = "or" /\ g.kind = "and" /\ g.from = f.to + 2
                       /\ x = Phrase("or", f.from, g.to, Either(f.value, g.value))
  OBVIOUS
<1>. HIDE DEF Terms, Enclosed, Ands, Ors, AndJoined, OrJoined
<1>8. QED BY <1>1, <1>2, <1>3, <1>4, <1>5, <1>6, <1>7, Zenon DEF Rule

\* A comparison is two or three tokens of the filter.
LEMMA ComparisonSpans ==
  ASSUME NEW words \in Seq(FilterToken), NEW i \in DOMAIN words, IsComparison(words, i)
  PROVE  /\ i + 1 \in DOMAIN words /\ EndOf(words, i) \in DOMAIN words
         /\ words[i] \in FilterToken /\ words[i] \notin {"(", ")", "and", "or", "end"}
         /\ words[i + 1] # "end" /\ words[EndOf(words, i)] # "end"
         /\ EndOf(words, i) = IF LowerCase(words[i + 1]) = "pr" THEN i + 1 ELSE i + 2
         /\ MeaningOf(words, i) \in Outcomes
<1>1. DOMAIN words = 1..Len(words) /\ Len(words) \in Nat /\ \A j \in DOMAIN words : words[j] \in FilterToken
  OBVIOUS
<1>2. "end" \notin FilterToken
  BY DEF FilterToken
<1>3. EndOf(words, i) \in {i + 1, i + 2} /\ EndOf(words, i) <= Len(words)
  BY DEF IsComparison, EndOf
<1>4. i + 1 \in DOMAIN words /\ EndOf(words, i) \in DOMAIN words
  BY <1>1, <1>3
<1>5. Peek(words, i + 1) = words[i + 1]
  BY <1>1, <1>4 DEF Peek
<1>6. MeaningOf(words, i) \in Outcomes
  BY ComparisonsHaveOutcomes DEF MeaningOf
<1>7. words[i] \notin {"(", ")", "and", "or"}
  BY DEF IsComparison
<1>. QED BY <1>1, <1>2, <1>4, <1>5, <1>6, <1>7 DEF EndOf

\* The rules speak of positions in the filter only.
LEMMA RulesKeepPhrases ==
  ASSUME NEW words \in Seq(FilterToken), NEW S \in SUBSET Phrases(words)
  PROVE  Follows(words, S) \in SUBSET Phrases(words)
<1>. SUFFICES ASSUME NEW x, Rule(words, S, x) PROVE x \in Phrases(words)
  BY FollowsByRules
<1>1. DOMAIN words = 1..Len(words) /\ Len(words) \in Nat
  OBVIOUS
<1>2. ASSUME NEW f \in S
      PROVE  /\ f.kind \in {"term", "and", "or"} /\ f.from \in DOMAIN words /\ f.to \in DOMAIN words
             /\ f.value \in Outcomes
  BY DEF Phrases
<1>3. ASSUME NEW kind \in {"term", "and", "or"},
             NEW i \in DOMAIN words, NEW j \in DOMAIN words, NEW v \in Outcomes
      PROVE  Phrase(kind, i, j, v) \in Phrases(words)
  BY DEF Phrases, Phrase
<1>4. CASE \E i \in DOMAIN words : IsComparison(words, i) /\ x = Phrase("term", i, EndOf(words, i), MeaningOf(words, i))
  <2>1. PICK i \in DOMAIN words : IsComparison(words, i) /\ x = Phrase("term", i, EndOf(words, i), MeaningOf(words, i))
    BY <1>4
  <2>2. EndOf(words, i) \in DOMAIN words /\ MeaningOf(words, i) \in Outcomes
    BY <2>1, ComparisonSpans
  <2>3. QED BY <1>3, <2>1, <2>2
<1>5. CASE \E f \in S : /\ f.kind = "or" /\ LowerCase(Peek(words, f.to + 1)) = ")" /\ f.from > 1 /\ words[f.from - 1] = "("
                        /\ x = Phrase("term", f.from - 1, f.to + 1, f.value)
  <2>1. PICK f \in S : /\ f.kind = "or" /\ LowerCase(Peek(words, f.to + 1)) = ")" /\ f.from > 1 /\ words[f.from - 1] = "("
                       /\ x = Phrase("term", f.from - 1, f.to + 1, f.value)
    BY <1>5
  <2>2. f.to + 1 <= Len(words)
    BY <2>1, LowerCaseIs DEF Peek
  <2>3. f.from - 1 \in DOMAIN words /\ f.to + 1 \in DOMAIN words /\ f.value \in Outcomes
    BY <1>1, <1>2, <2>1, <2>2
  <2>4. QED BY <1>3, <2>1, <2>3
<1>6. CASE \E f \in S : f.kind = "term" /\ x = Phrase("and", f.from, f.to, f.value)
  BY <1>2, <1>3, <1>6
<1>7. CASE \E f \in S : f.kind = "and" /\ x = Phrase("or", f.from, f.to, f.value)
  BY <1>2, <1>3, <1>7
<1>8. CASE \E f, g \in S : /\ f.kind = "and" /\ LowerCase(Peek(words, f.to + 1)) = "and" /\ g.kind = "term" /\ g.from = f.to + 2
                           /\ x = Phrase("and", f.from, g.to, Both(f.value, g.value))
  <2>1. PICK f \in S, g \in S : x = Phrase("and", f.from, g.to, Both(f.value, g.value))
    BY <1>8
  <2>2. Both(f.value, g.value) \in Outcomes
    BY <1>2, OutcomesJoined
  <2>3. QED BY <1>2, <1>3, <2>1, <2>2
<1>9. CASE \E f, g \in S : /\ f.kind = "or" /\ LowerCase(Peek(words, f.to + 1)) = "or" /\ g.kind = "and" /\ g.from = f.to + 2
                           /\ x = Phrase("or", f.from, g.to, Either(f.value, g.value))
  <2>1. PICK f \in S, g \in S : x = Phrase("or", f.from, g.to, Either(f.value, g.value))
    BY <1>9
  <2>2. Either(f.value, g.value) \in Outcomes
    BY <1>2, OutcomesJoined
  <2>3. QED BY <1>2, <1>3, <2>1, <2>2
<1>10. QED BY <1>4, <1>5, <1>6, <1>7, <1>8, <1>9 DEF Rule

\* So the recursive function Derived is defined, one step upon the other,
LEMMA DerivationsUnfold ==
  ASSUME NEW words, \A S \in SUBSET Phrases(words) : Follows(words, S) \in SUBSET Phrases(words)
  PROVE  /\ Derived(words)[0] = {}
         /\ \A n \in Nat : Derived(words)[n] \in SUBSET Phrases(words)
         /\ \A n \in Nat : Derived(words)[n + 1] = Follows(words, Derived(words)[n])
<1>. DEFINE X == SUBSET Phrases(words)
            F == [S \in X |-> Follows(words, S)]
            Equation(g) == g = [n \in Nat |-> IF n = 0 THEN {} ELSE Follows(words, g[n - 1])]
            d == Derived(words)
            none == {}
<1>1. none \in X
  OBVIOUS
<1>2. F \in [X -> X]
  OBVIOUS
<1>3. PICK g \in [Nat -> X] : g[0] = none /\ \A n \in Nat : g[n + 1] = F[g[n]]
  <2>. HIDE DEF X, F, none
  <2>1. QED BY <1>1, <1>2, IterationExists
<1>4. \A n \in Nat : g[n] \in X /\ g[n + 1] = Follows(words, g[n])
  BY <1>3
<1>. HIDE DEF X, F
<1>5. Equation(g)
  <2>1. \A n \in Nat : g[n] = IF n = 0 THEN {} ELSE Follows(words, g[n - 1])
    <3>. TAKE n \in Nat
    <3>1. CASE n = 0
      BY <1>3, <3>1
    <3>2. CASE n # 0
      <4>1. n - 1 \in Nat /\ (n - 1) + 1 = n
        BY <3>2
      <4>2. QED BY <1>4, <4>1, <3>2
    <3>3. QED BY <3>1, <3>2
  <2>2. QED BY <2>1
<1>6. Equation(d)
  <2>1. d = CHOOSE h : Equation(h)
    BY DEF Derived
  <2>2. QED BY <1>5, <2>1
<1>7. d[0] = {}
  BY <1>6
<1>8. ASSUME NEW n \in Nat PROVE d[n + 1] = Follows(words, d[n])
  <2>1. n + 1 \in Nat /\ n + 1 # 0 /\ (n + 1) - 1 = n
    OBVIOUS
  <2>2. QED BY <1>6, <2>1
<1>9. \A n \in Nat : d[n] \in SUBSET Phrases(words)
  <2>. DEFINE S == {n \in Nat : d[n] \in SUBSET Phrases(words)}
  <2>1. 0 \in S
    BY <1>7
  <2>2. ASSUME NEW n \in Nat, n \in S PROVE n + 1 \in S
    BY <1>8, <2>2
  <2>. HIDE DEF S
  <2>3. Nat \subseteq S
    BY <2>1, <2>2, NumbersByInduction
  <2>4. QED BY <2>3 DEF S
<1>10. QED BY <1>7, <1>8, <1>9

\* for every filter,
LEMMA DerivedUnfolds ==
  ASSUME NEW words \in Seq(FilterToken)
  PROVE  /\ Derived(words)[0] = {}
         /\ \A n \in Nat : Derived(words)[n] \in SUBSET Phrases(words)
         /\ \A n \in Nat : Derived(words)[n + 1] = Follows(words, Derived(words)[n])
BY DerivationsUnfold, RulesKeepPhrases, Zenon

\* and more steps lose no phrase.
LEMMA DerivedGrows ==
  ASSUME NEW words \in Seq(FilterToken), NEW i \in Nat
  PROVE  \A j \in Nat : i <= j => Derived(words)[i] \subseteq Derived(words)[j]
<1>. DEFINE d == Derived(words)
            T == {n \in Nat : d[n] \subseteq d[n + 1]}
            S == {j \in Nat : i <= j => d[i] \subseteq d[j]}
<1>0. d[0] = {} /\ \A n \in Nat : d[n + 1] = Follows(words, d[n])
  BY DerivedUnfolds
<1>1. ASSUME NEW A, NEW B, A \subseteq B PROVE Follows(words, A) \subseteq Follows(words, B)
  <2>1. \A x : Rule(words, A, x) => Rule(words, B, x)
    BY <1>1, Zenon DEF Rule
  <2>2. QED BY <2>1, FollowsByRules
<1>2. Nat \subseteq T
  <2>1. 0 \in T
    BY <1>0
  <2>2. ASSUME NEW n \in Nat, n \in T PROVE n + 1 \in T
    <3>1. d[n] \subseteq d[n + 1]
      BY <2>2
    <3>. HIDE DEF d
    <3>2. d[n + 1] = Follows(words, d[n]) /\ d[(n + 1) + 1] = Follows(words, d[n + 1])
      BY <1>0
    <3>3. d[n + 1] \subseteq d[(n + 1) + 1]
      BY <1>1, <3>1, <3>2
    <3>4. QED BY <3>3
  <2>. HIDE DEF T
  <2>3. QED BY <2>1, <2>2, NumbersByInduction
<1>3. \A n \in Nat : d[n] \subseteq d[n + 1]
  BY <1>2
<1>. HIDE DEF d, T
<1>4. 0 \in S
  OBVIOUS
<1>5. ASSUME NEW j \in Nat, j \in S PROVE j + 1 \in S
  <2>1. CASE i = j + 1
    BY <2>1
  <2>2. CASE i # j + 1
    BY <2>2, <1>3, <1>5
  <2>3. QED BY <2>1, <2>2
<1>. HIDE DEF S
<1>6. Nat \subseteq S
  BY <1>4, <1>5, NumbersByInduction
<1>7. QED BY <1>6 DEF S, d

(***************************************************************************)
(* The parser reads every phrase as the grammar does.                      *)
(***************************************************************************)

\* From where a filter may begin the parser comes to its end with its value in hand.
ReadsFilter(words, i, j, v) == \A outer \in Levels :
  Reading(words)[i - 1] = Standing("term", outer, "fails", "holds") =>
    \E any \in Outcomes, all \in Outcomes :
      Either(any, all) = v /\ Reading(words)[j] = Standing("after", outer, any, all)

\* What is read as a term or conjunction is joined to the terms before it.
ReadsTerms(words, i, j, v) == \A outer \in Levels, any \in Outcomes, all \in Outcomes :
  Reading(words)[i - 1] = Standing("term", outer, any, all) =>
    \E after \in Outcomes :
      after = Both(all, v) /\ Reading(words)[j] = Standing("after", outer, any, after)

Reads(words, f) ==
  IF f.kind = "or" THEN ReadsFilter(words, f.from, f.to, f.value)
  ELSE ReadsTerms(words, f.from, f.to, f.value)

\* The parser's turn at a position of the filter
LEMMA TurnOfPosition ==
  ASSUME NEW words \in Seq(FilterToken), NEW n \in DOMAIN words
  PROVE  /\ n - 1 \in Nat /\ n \in Nat /\ Peek(words, n) = words[n]
         /\ Reading(words)[n] = ParserTurn(Reading(words)[n - 1], words[n])
<1>1. DOMAIN words = 1..Len(words) /\ Len(words) \in Nat
  OBVIOUS
<1>2. n - 1 \in Nat /\ (n - 1) + 1 = n /\ n <= Len(words) /\ n \in Nat
  BY <1>1
<1>3. Reading(words)[(n - 1) + 1] = ParserTurn(Reading(words)[n - 1], Peek(words, (n - 1) + 1))
  BY <1>2, ReadingUnfolds
<1>4. QED BY <1>2, <1>3 DEF Peek

\* The turns of the parser, one by one
LEMMA TurnOfAttribute ==
  ASSUME NEW s \in Standings, s.at = "term", NEW token, token \notin {"(", ")", "and", "or", "end"}
  PROVE  ParserTurn(s, token) = [s EXCEPT !.at = "operator", !.attr = LowerCase(token)]
BY DEF ParserTurn, ReadTerm

LEMMA TurnOfOperator ==
  ASSUME NEW s \in Standings, s.at = "operator", NEW token, token # "end"
  PROVE  ParserTurn(s, token) =
           IF LowerCase(token) = "pr" THEN Compared(s, Present(s.attr))
           ELSE [s EXCEPT !.at = "value", !.operator = LowerCase(token)]
BY ConstantsApart DEF ParserTurn, ReadOperator

LEMMA TurnOfValue ==
  ASSUME NEW s \in Standings, s.at = "value", NEW token, token # "end"
  PROVE  ParserTurn(s, token) = Compared(s, Compare(s.attr, s.operator, LowerCase(token)))
BY ConstantsApart DEF ParserTurn, ReadValue

LEMMA TurnOfOpening ==
  ASSUME NEW outer \in Levels, NEW any \in Outcomes, NEW all \in Outcomes
  PROVE  ParserTurn(Standing("term", outer, any, all), "(") =
           Standing("term", Append(outer, [any |-> any, all |-> all]), "fails", "holds")
<1>. DEFINE s == Standing("term", outer, any, all)
<1>1. s.at = "term" /\ s.outer = outer /\ s.any = any /\ s.all = all
  BY StandingsAre
<1>. HIDE DEF s
<1>2. QED BY <1>1 DEF ParserTurn, ReadTerm, s

LEMMA TurnOfAnd ==
  ASSUME NEW outer \in Levels, NEW any \in Outcomes, NEW all \in Outcomes,
         NEW token, LowerCase(token) = "and"
  PROVE  ParserTurn(Standing("after", outer, any, all), token) = Standing("term", outer, any, all)
<1>. DEFINE s == Standing("after", outer, any, all)
<1>1. s.at = "after" /\ s.outer = outer /\ s.any = any /\ s.all = all
  BY StandingsAre
<1>. HIDE DEF s
<1>2. ParserTurn(s, token) = ReadOn(s, token)
  BY <1>1, ConstantsApart DEF ParserTurn
<1>0. token # ")"
  BY LowerCaseIs, ConstantsApart
<1>3. ReadOn(s, token) = Standing("term", outer, any, all)
  BY <1>0, <1>1, ConstantsApart DEF ReadOn
<1>4. QED BY <1>2, <1>3 DEF s

LEMMA TurnOfOr ==
  ASSUME NEW outer \in Levels, NEW any \in Outcomes, NEW all \in Outcomes,
         NEW token, LowerCase(token) = "or"
  PROVE  ParserTurn(Standing("after", outer, any, all), token) =
           Standing("term", outer, Either(any, all), "holds")
<1>. DEFINE s == Standing("after", outer, any, all)
<1>1. s.at = "after" /\ s.outer = outer /\ s.any = any /\ s.all = all
  BY StandingsAre
<1>. HIDE DEF s
<1>2. ParserTurn(s, token) = ReadOn(s, token)
  BY <1>1, ConstantsApart DEF ParserTurn
<1>0. token # ")"
  BY LowerCaseIs, ConstantsApart
<1>3. ReadOn(s, token) = ReadOr(s)
  BY <1>0, ConstantsApart DEF ReadOn
<1>4. ReadOr(s) = Standing("term", outer, Either(any, all), "holds")
  BY <1>1 DEF ReadOr
<1>5. QED BY <1>2, <1>3, <1>4 DEF s

LEMMA TurnOfClosing ==
  ASSUME NEW outer \in Levels, NEW before \in Outcomes, NEW held \in Outcomes,
         NEW any \in Outcomes, NEW all \in Outcomes
  PROVE  ParserTurn(Standing("after", Append(outer, [any |-> before, all |-> held]), any, all), ")") =
           Standing("after", outer, before, Both(held, Either(any, all)))
<1>. DEFINE level == [any |-> before, all |-> held]
            inner == Append(outer, level)
            s == Standing("after", inner, any, all)
<1>1. level \in Held /\ level.any = before /\ level.all = held
  BY DEF Held
<1>. HIDE DEF level
<1>2. /\ inner \in Levels /\ inner # <<>>
      /\ inner[Len(inner)] = level /\ SubSeq(inner, 1, Len(inner) - 1) = outer
  BY <1>1, FrontOfAppend DEF Levels
<1>. HIDE DEF inner
<1>3. s.at = "after" /\ s.outer = inner /\ s.any = any /\ s.all = all
  BY <1>2, StandingsAre
<1>. HIDE DEF s
<1>4. ParserTurn(s, ")") = ReadOn(s, ")")
  BY <1>3, ConstantsApart DEF ParserTurn
<1>5. ReadOn(s, ")") = Close(s)
  BY <1>2, <1>3, LowerCaseIs, ConstantsApart DEF ReadOn
<1>6. Close(s) = Standing("after", outer, before, Both(held, Either(any, all)))
  BY <1>1, <1>2, <1>3 DEF Close
<1>7. QED BY <1>4, <1>5, <1>6 DEF s, inner, level

\* Each rule of the grammar is followed by the parser: a comparison,
LEMMA ComparisonIsRead ==
  ASSUME NEW words \in Seq(FilterToken), NEW i \in DOMAIN words, IsComparison(words, i)
  PROVE  ReadsTerms(words, i, EndOf(words, i), MeaningOf(words, i))
<1>. DEFINE R == Reading(words)
            v == MeaningOf(words, i)
<1>1. /\ i + 1 \in DOMAIN words /\ EndOf(words, i) \in DOMAIN words /\ (i + 1) - 1 = i /\ (i + 2) - 1 = i + 1
      /\ words[i] \notin {"(", ")", "and", "or", "end"} /\ words[i + 1] # "end"
      /\ words[EndOf(words, i)] # "end"
      /\ EndOf(words, i) = IF LowerCase(words[i + 1]) = "pr" THEN i + 1 ELSE i + 2
      /\ i \in Nat /\ v \in Outcomes /\ words[i] \in Word /\ words[i + 1] \in Word
  BY ComparisonSpans DEF Word
<1>2. R[i] = ParserTurn(R[i - 1], words[i]) /\ R[i + 1] = ParserTurn(R[i], words[i + 1])
  BY <1>1, TurnOfPosition
<1>3. EndOf(words, i) = i + 2 => words[i + 2] # "end" /\ R[i + 2] = ParserTurn(R[i + 1], words[i + 2])
  BY <1>1, TurnOfPosition
<1>. HIDE DEF R
<1>4. ASSUME NEW outer \in Levels, NEW any \in Outcomes, NEW all \in Outcomes,
             R[i - 1] = Standing("term", outer, any, all)
      PROVE  \E after \in Outcomes :
               after = Both(all, v) /\ R[EndOf(words, i)] = Standing("after", outer, any, after)
  <2>. DEFINE s == R[i - 1]
              attr == LowerCase(words[i])
              word == LowerCase(words[i + 1])
              o == [s EXCEPT !.at = "operator", !.attr = attr]
              w == [o EXCEPT !.at = "value", !.operator = word]
  <2>1. s \in Standings /\ s.at = "term" /\ s.outer = outer /\ s.any = any /\ s.all = all
    BY <1>4, StandingsAre
  <2>2. attr \in Word /\ word \in Word
    BY <1>1, LowerCaseIs
  <2>. HIDE DEF s, attr, word
  <2>3. /\ o \in Standings /\ o.at = "operator" /\ o.outer = outer /\ o.any = any /\ o.all = all
        /\ o.attr = attr
    BY <2>1, <2>2 DEF Standings
  <2>4. R[i] = o
    BY <1>1, <1>2, <2>1, TurnOfAttribute DEF s, attr
  <2>. HIDE DEF o
  <2>5. /\ w \in Standings /\ w.at = "value" /\ w.outer = outer /\ w.any = any /\ w.all = all
        /\ w.attr = attr /\ w.operator = word
    BY <2>2, <2>3 DEF Standings
  <2>. HIDE DEF w
  <2>6. Both(all, v) \in Outcomes
    BY <1>1, OutcomesJoined
  <2>7. CASE word = "pr"
    <3>1. R[i + 1] = Compared(o, Present(attr))
      BY <1>1, <1>2, <2>3, <2>4, <2>7, TurnOfOperator DEF word
    <3>2. EndOf(words, i) = i + 1 /\ v = Present(attr)
      BY <1>1, <2>7 DEF MeaningOf, word, attr
    <3>3. R[i + 1] = Standing("after", outer, any, Both(all, v))
      BY <2>3, <3>1, <3>2 DEF Compared
    <3>. QED BY <2>6, <3>2, <3>3
  <2>8. CASE word # "pr"
    <3>1. R[i + 1] = w
      BY <1>1, <1>2, <2>3, <2>4, <2>8, TurnOfOperator DEF word, w
    <3>2. EndOf(words, i) = i + 2 /\ v = Compare(attr, word, LowerCase(words[i + 2]))
      BY <1>1, <2>8 DEF MeaningOf, word, attr
    <3>3. R[i + 2] = Compared(w, v)
      BY <1>3, <2>5, <3>1, <3>2, TurnOfValue
    <3>4. R[i + 2] = Standing("after", outer, any, Both(all, v))
      BY <2>5, <3>3 DEF Compared
    <3>. QED BY <2>6, <3>2, <3>4
  <2>. QED BY <2>7, <2>8
<1>. QED BY <1>4 DEF R, ReadsTerms

\* a filter in parentheses, which is a level of its own and leaves those before it,
LEMMA EnclosedIsRead ==
  ASSUME NEW words \in Seq(FilterToken), NEW i \in DOMAIN words, NEW j \in DOMAIN words, NEW v \in Outcomes,
         ReadsFilter(words, i, j, v), LowerCase(Peek(words, j + 1)) = ")", i > 1, words[i - 1] = "("
  PROVE  ReadsTerms(words, i - 1, j + 1, v)
<1>. DEFINE R == Reading(words)
<1>0. DOMAIN words = 1..Len(words) /\ Len(words) \in Nat
  OBVIOUS
<1>1. j + 1 \in DOMAIN words /\ words[j + 1] = ")"
  BY <1>0, LowerCaseIs DEF Peek
<1>2. i - 1 \in DOMAIN words /\ (j + 1) - 1 = j
  BY <1>0
<1>3. R[i - 1] = ParserTurn(R[(i - 1) - 1], "(") /\ R[j + 1] = ParserTurn(R[j], ")")
  BY <1>1, <1>2, TurnOfPosition
<1>. HIDE DEF R
<1>4. ASSUME NEW outer \in Levels, NEW any \in Outcomes, NEW all \in Outcomes,
             R[(i - 1) - 1] = Standing("term", outer, any, all)
      PROVE  \E after \in Outcomes : after = Both(all, v) /\ R[j + 1] = Standing("after", outer, any, after)
  <2>. DEFINE inner == Append(outer, [any |-> any, all |-> all])
  <2>0. ParserTurn(Standing("term", outer, any, all), "(") = Standing("term", inner, "fails", "holds")
    BY TurnOfOpening
  <2>2. inner \in Levels
    <3>. DEFINE level == [any |-> any, all |-> all]
    <3>1. level \in Held
      BY DEF Held
    <3>. HIDE DEF level
    <3>2. Append(outer, level) \in Levels
      BY <3>1, FrontOfAppend DEF Levels
    <3>3. QED BY <3>2 DEF level
  <2>. HIDE DEF inner
  <2>1. R[i - 1] = Standing("term", inner, "fails", "holds")
    BY <1>3, <1>4, <2>0
  <2>3. PICK x \in Outcomes, y \in Outcomes : Either(x, y) = v /\ R[j] = Standing("after", inner, x, y)
    BY <2>1, <2>2 DEF ReadsFilter, R
  <2>. DEFINE after == Both(all, Either(x, y))
  <2>4. ParserTurn(Standing("after", inner, x, y), ")") = Standing("after", outer, any, after)
    BY TurnOfClosing DEF inner
  <2>5. after \in Outcomes /\ after = Both(all, v)
    BY <2>3, OutcomesJoined
  <2>. HIDE DEF after
  <2>6. QED BY <1>3, <2>3, <2>4, <2>5
<1>5. QED BY <1>4 DEF R, ReadsTerms

\* a conjunction and one more term,
LEMMA ConjunctionIsRead ==
  ASSUME NEW words \in Seq(FilterToken), NEW i \in DOMAIN words, NEW k \in DOMAIN words,
         NEW j \in DOMAIN words, NEW v \in Outcomes, NEW w \in Outcomes,
         ReadsTerms(words, i, k, v), LowerCase(Peek(words, k + 1)) = "and", ReadsTerms(words, k + 2, j, w)
  PROVE  ReadsTerms(words, i, j, Both(v, w))
<1>. DEFINE R == Reading(words)
            both == Both(v, w)
<1>0. DOMAIN words = 1..Len(words) /\ Len(words) \in Nat
  OBVIOUS
<1>1. k + 1 \in DOMAIN words /\ LowerCase(words[k + 1]) = "and" /\ (k + 1) - 1 = k /\ (k + 2) - 1 = k + 1
  BY <1>0, LowerCaseIs, ConstantsApart DEF Peek
<1>2. R[k + 1] = ParserTurn(R[k], words[k + 1])
  BY <1>1, TurnOfPosition
<1>. HIDE DEF R
<1>3. ASSUME NEW outer \in Levels, NEW any \in Outcomes, NEW all \in Outcomes,
             R[i - 1] = Standing("term", outer, any, all)
      PROVE  \E after \in Outcomes : after = Both(all, both) /\ R[j] = Standing("after", outer, any, after)
  <2>1. PICK x \in Outcomes : x = Both(all, v) /\ R[k] = Standing("after", outer, any, x)
    BY <1>3 DEF ReadsTerms, R
  <2>2. R[k + 1] = Standing("term", outer, any, x)
    BY <1>1, <1>2, <2>1, TurnOfAnd
  <2>3. PICK y \in Outcomes : y = Both(x, w) /\ R[j] = Standing("after", outer, any, y)
    BY <1>1, <2>2 DEF ReadsTerms, R
  <2>4. y = Both(all, both)
    BY <2>1, <2>3, OutcomesJoined
  <2>5. QED BY <2>3, <2>4
<1>4. QED BY <1>3 DEF R, ReadsTerms

\* a conjunction as a filter,
LEMMA AlternativeIsRead ==
  ASSUME NEW words \in Seq(FilterToken), NEW i \in DOMAIN words, NEW j \in DOMAIN words, NEW v \in Outcomes,
         ReadsTerms(words, i, j, v)
  PROVE  ReadsFilter(words, i, j, v)
<1>. DEFINE R == Reading(words)
<1>1. ASSUME NEW outer \in Levels, R[i - 1] = Standing("term", outer, "fails", "holds")
      PROVE  \E any \in Outcomes, all \in Outcomes : Either(any, all) = v /\ R[j] = Standing("after", outer, any, all)
  <2>1. PICK x \in Outcomes : x = Both("holds", v) /\ R[j] = Standing("after", outer, "fails", x)
    BY <1>1, OutcomesJoined DEF ReadsTerms
  <2>2. Either("fails", x) = v /\ "fails" \in Outcomes
    BY <2>1, OutcomesJoined
  <2>. HIDE DEF R
  <2>3. QED BY <2>1, <2>2
<1>2. QED BY <1>1 DEF ReadsFilter

\* and a filter with one more conjunction.
LEMMA DisjunctionIsRead ==
  ASSUME NEW words \in Seq(FilterToken), NEW i \in DOMAIN words, NEW k \in DOMAIN words,
         NEW j \in DOMAIN words, NEW v \in Outcomes, NEW w \in Outcomes,
         ReadsFilter(words, i, k, v), LowerCase(Peek(words, k + 1)) = "or", ReadsTerms(words, k + 2, j, w)
  PROVE  ReadsFilter(words, i, j, Either(v, w))
<1>. DEFINE R == Reading(words)
            either == Either(v, w)
<1>0. DOMAIN words = 1..Len(words) /\ Len(words) \in Nat
  OBVIOUS
<1>1. k + 1 \in DOMAIN words /\ LowerCase(words[k + 1]) = "or" /\ (k + 1) - 1 = k /\ (k + 2) - 1 = k + 1
  BY <1>0, LowerCaseIs, ConstantsApart DEF Peek
<1>2. R[k + 1] = ParserTurn(R[k], words[k + 1])
  BY <1>1, TurnOfPosition
<1>. HIDE DEF R
<1>3. ASSUME NEW outer \in Levels, R[i - 1] = Standing("term", outer, "fails", "holds")
      PROVE  \E any \in Outcomes, all \in Outcomes : Either(any, all) = either /\ R[j] = Standing("after", outer, any, all)
  <2>1. PICK x \in Outcomes, y \in Outcomes : Either(x, y) = v /\ R[k] = Standing("after", outer, x, y)
    BY <1>3 DEF ReadsFilter, R
  <2>. DEFINE z == Either(x, y)
  <2>2. ParserTurn(Standing("after", outer, x, y), words[k + 1]) = Standing("term", outer, z, "holds")
    BY <1>1, TurnOfOr
  <2>3. z \in Outcomes /\ z = v
    BY <2>1
  <2>. HIDE DEF z
  <2>0. R[k + 1] = Standing("term", outer, z, "holds")
    BY <1>2, <2>1, <2>2
  <2>4. PICK u \in Outcomes : u = Both("holds", w) /\ R[j] = Standing("after", outer, z, u)
    <3>1. ReadsTerms(words, k + 2, j, w) /\ R[(k + 2) - 1] = Standing("term", outer, z, "holds")
      BY <1>1, <2>0
    <3>2. QED BY <2>3, <3>1, OutcomesJoined DEF ReadsTerms, R
  <2>5. Either(z, u) = either
    BY <2>3, <2>4, OutcomesJoined
  <2>6. QED BY <2>3, <2>4, <2>5
<1>4. QED BY <1>3 DEF R, ReadsFilter

\* So it reads every phrase that has a derivation, of however many steps.
LEMMA PhrasesAreRead ==
  ASSUME NEW words \in Seq(FilterToken)
  PROVE  \A n \in Nat : \A f \in Derived(words)[n] : Reads(words, f)
<1>. DEFINE d == Derived(words)
            S == {n \in Nat : \A f \in d[n] : Reads(words, f)}
<1>1. 0 \in S
  BY DerivedUnfolds
<1>2. ASSUME NEW n \in Nat, n \in S PROVE n + 1 \in S
  <2>1. d[n] \in SUBSET Phrases(words) /\ d[n + 1] = Follows(words, d[n])
    BY DerivedUnfolds
  <2>2. \A f \in d[n] : Reads(words, f)
    BY <1>2
  <2>. HIDE DEF d
  <2>3. ASSUME NEW f \in d[n]
        PROVE  f.from \in DOMAIN words /\ f.to \in DOMAIN words /\ f.value \in Outcomes
    BY <2>1 DEF Phrases
  <2>4. ASSUME NEW x, Rule(words, d[n], x) PROVE Reads(words, x)
    <3>1. ASSUME NEW i, NEW j, NEW v
          PROVE  /\ Reads(words, Phrase("term", i, j, v)) = ReadsTerms(words, i, j, v)
                 /\ Reads(words, Phrase("and", i, j, v)) = ReadsTerms(words, i, j, v)
                 /\ Reads(words, Phrase("or", i, j, v)) = ReadsFilter(words, i, j, v)
      BY ConstantsApart DEF Reads, Phrase
    <3>2. ASSUME NEW f \in d[n]
          PROVE  /\ f.kind \in {"term", "and"} => ReadsTerms(words, f.from, f.to, f.value)
                 /\ f.kind = "or" => ReadsFilter(words, f.from, f.to, f.value)
      BY <2>2, ConstantsApart DEF Reads
    <3>3. CASE \E i \in DOMAIN words : IsComparison(words, i) /\ x = Phrase("term", i, EndOf(words, i), MeaningOf(words, i))
      BY <3>1, <3>3, ComparisonIsRead
    <3>4. CASE \E f \in d[n] : /\ f.kind = "or" /\ LowerCase(Peek(words, f.to + 1)) = ")" /\ f.from > 1
                               /\ words[f.from - 1] = "(" /\ x = Phrase("term", f.from - 1, f.to + 1, f.value)
      BY <2>3, <3>1, <3>2, <3>4, EnclosedIsRead
    <3>5. CASE \E f \in d[n] : f.kind = "term" /\ x = Phrase("and", f.from, f.to, f.value)
      BY <3>1, <3>2, <3>5
    <3>6. CASE \E f \in d[n] : f.kind = "and" /\ x = Phrase("or", f.from, f.to, f.value)
      BY <2>3, <3>1, <3>2, <3>6, AlternativeIsRead
    <3>7. CASE \E f, g \in d[n] : /\ f.kind = "and" /\ LowerCase(Peek(words, f.to + 1)) = "and" /\ g.kind = "term"
                                  /\ g.from = f.to + 2 /\ x = Phrase("and", f.from, g.to, Both(f.value, g.value))
      BY <2>3, <3>1, <3>2, <3>7, ConjunctionIsRead
    <3>8. CASE \E f, g \in d[n] : /\ f.kind = "or" /\ LowerCase(Peek(words, f.to + 1)) = "or" /\ g.kind = "and"
                                  /\ g.from = f.to + 2 /\ x = Phrase("or", f.from, g.to, Either(f.value, g.value))
      BY <2>3, <3>1, <3>2, <3>8, DisjunctionIsRead
    <3>9. QED BY <2>4, <3>3, <3>4, <3>5, <3>6, <3>7, <3>8 DEF Rule
  <2>5. \A f \in d[n + 1] : Reads(words, f)
    BY <2>1, <2>4, FollowsByRules
  <2>6. QED BY <2>5
<1>. HIDE DEF S
<1>3. Nat \subseteq S
  BY <1>1, <1>2, NumbersByInduction
<1>4. QED BY <1>3 DEF S

(***************************************************************************)
(* What the parser accepts is derived, in as few steps as Meanings allows. *)
(***************************************************************************)
IsPhrase(words, kind, i, j, steps) ==
  \E v \in Outcomes : Phrase(kind, i, j, v) \in Derived(words)[steps]

IsTerm(words, i, j) == IsPhrase(words, "term", i, j, 3 * (j - i) + 1)
IsAnd(words, i, j)  == IsPhrase(words, "and", i, j, 3 * (j - i) + 2)
IsOr(words, i, j)   == IsPhrase(words, "or", i, j, 3 * (j - i) + 3)

\* A rule adds one step at most to a derivation.
LEMMA RuleDerives ==
  ASSUME NEW words \in Seq(FilterToken), NEW n \in Nat, NEW m \in Nat, n + 1 <= m,
         NEW x, Rule(words, Derived(words)[n], x)
  PROVE  x \in Derived(words)[m]
<1>. DEFINE d == Derived(words)
<1>1. d[n + 1] = Follows(words, d[n])
  BY DerivedUnfolds
<1>2. d[n + 1] \subseteq d[m]
  BY DerivedGrows
<1>3. x \in Follows(words, d[n])
  BY FollowsByRules
<1>. HIDE DEF d
<1>4. QED BY <1>1, <1>2, <1>3 DEF d

\* The fields of a phrase
LEMMA PhraseFields ==
  ASSUME NEW kind, NEW i, NEW j, NEW v
  PROVE  /\ Phrase(kind, i, j, v).kind = kind /\ Phrase(kind, i, j, v).from = i
         /\ Phrase(kind, i, j, v).to = j /\ Phrase(kind, i, j, v).value = v
BY DEF Phrase

\* The rules again, with the lengths of their derivations
LEMMA ComparisonIsTerm ==
  ASSUME NEW words \in Seq(FilterToken), NEW i \in DOMAIN words, IsComparison(words, i)
  PROVE  IsTerm(words, i, EndOf(words, i))
<1>. DEFINE v == MeaningOf(words, i)
            j == EndOf(words, i)
            m == 3 * (j - i) + 1
<1>1. v \in Outcomes /\ j \in {i + 1, i + 2} /\ i \in Nat
  BY ComparisonSpans
<1>2. Rule(words, Derived(words)[0], Phrase("term", i, j, v))
  BY DEF Rule
<1>. HIDE DEF v, j
<1>3. m \in Nat /\ 0 + 1 <= m
  BY <1>1
<1>. HIDE DEF m
<1>4. Phrase("term", i, j, v) \in Derived(words)[m]
  BY <1>2, <1>3, RuleDerives
<1>5. QED BY <1>1, <1>4 DEF IsTerm, IsPhrase, m, j

LEMMA EnclosedIsTerm ==
  ASSUME NEW words \in Seq(FilterToken), NEW i \in DOMAIN words, NEW j \in DOMAIN words, i <= j,
         IsOr(words, i, j), i - 1 \in DOMAIN words, words[i - 1] = "(",
         j + 1 \in DOMAIN words, words[j + 1] = ")"
  PROVE  IsTerm(words, i - 1, j + 1)
<1>0. DOMAIN words = 1..Len(words) /\ Len(words) \in Nat /\ i \in Nat /\ j \in Nat
  OBVIOUS
<1>. DEFINE n == 3 * (j - i) + 3
            m == 3 * ((j + 1) - (i - 1)) + 1
<1>1. n \in Nat /\ m \in Nat /\ n + 1 <= m
  BY <1>0
<1>. HIDE DEF n, m
<1>2. PICK v \in Outcomes : Phrase("or", i, j, v) \in Derived(words)[n]
  BY DEF IsOr, IsPhrase, n
<1>. DEFINE f == Phrase("or", i, j, v)
<1>3. f.kind = "or" /\ f.from = i /\ f.to = j /\ f.value = v
  BY PhraseFields
<1>4. LowerCase(Peek(words, j + 1)) = ")" /\ i > 1
  BY <1>0, LowerCaseIs DEF Peek
<1>. HIDE DEF f
<1>5. Rule(words, Derived(words)[n], Phrase("term", i - 1, j + 1, v))
  BY <1>2, <1>3, <1>4 DEF Rule, f
<1>6. Phrase("term", i - 1, j + 1, v) \in Derived(words)[m]
  BY <1>1, <1>5, RuleDerives
<1>7. QED BY <1>6 DEF IsTerm, IsPhrase, m

LEMMA TermIsAnd ==
  ASSUME NEW words \in Seq(FilterToken), NEW i \in DOMAIN words, NEW j \in DOMAIN words, i <= j,
         IsTerm(words, i, j)
  PROVE  IsAnd(words, i, j)
<1>0. i \in Nat /\ j \in Nat
  OBVIOUS
<1>. DEFINE n == 3 * (j - i) + 1
            m == 3 * (j - i) + 2
<1>1. n \in Nat /\ m \in Nat /\ n + 1 <= m
  BY <1>0
<1>. HIDE DEF n, m
<1>2. PICK v \in Outcomes : Phrase("term", i, j, v) \in Derived(words)[n]
  BY DEF IsTerm, IsPhrase, n
<1>. DEFINE f == Phrase("term", i, j, v)
<1>3. f.kind = "term" /\ f.from = i /\ f.to = j /\ f.value = v
  BY PhraseFields
<1>. HIDE DEF f
<1>5. Rule(words, Derived(words)[n], Phrase("and", i, j, v))
  BY <1>2, <1>3 DEF Rule, f
<1>6. Phrase("and", i, j, v) \in Derived(words)[m]
  BY <1>1, <1>5, RuleDerives
<1>7. QED BY <1>6 DEF IsAnd, IsPhrase, m

LEMMA AndIsOr ==
  ASSUME NEW words \in Seq(FilterToken), NEW i \in DOMAIN words, NEW j \in DOMAIN words, i <= j,
         IsAnd(words, i, j)
  PROVE  IsOr(words, i, j)
<1>0. i \in Nat /\ j \in Nat
  OBVIOUS
<1>. DEFINE n == 3 * (j - i) + 2
            m == 3 * (j - i) + 3
<1>1. n \in Nat /\ m \in Nat /\ n + 1 <= m
  BY <1>0
<1>. HIDE DEF n, m
<1>2. PICK v \in Outcomes : Phrase("and", i, j, v) \in Derived(words)[n]
  BY DEF IsAnd, IsPhrase, n
<1>. DEFINE f == Phrase("and", i, j, v)
<1>3. f.kind = "and" /\ f.from = i /\ f.to = j /\ f.value = v
  BY PhraseFields
<1>. HIDE DEF f
<1>5. Rule(words, Derived(words)[n], Phrase("or", i, j, v))
  BY <1>2, <1>3 DEF Rule, f
<1>6. Phrase("or", i, j, v) \in Derived(words)[m]
  BY <1>1, <1>5, RuleDerives
<1>7. QED BY <1>6 DEF IsOr, IsPhrase, m

\* The lengths of two phrases and a connective between them
LEMMA StepsOfParts ==
  ASSUME NEW i \in Nat, NEW k \in Nat, NEW j \in Nat, i <= k, k + 2 <= j
  PROVE  /\ 3 * (k - i) + 2 \in Nat /\ 3 * (k - i) + 3 \in Nat
         /\ 3 * (j - (k + 2)) + 1 \in Nat /\ 3 * (j - (k + 2)) + 2 \in Nat
         /\ 3 * (j - i) + 1 \in Nat /\ 3 * (j - i) + 2 \in Nat /\ 3 * (j - i) + 3 \in Nat
         /\ 3 * (k - i) + 2 <= 3 * (j - i) + 1 /\ 3 * (j - (k + 2)) + 1 <= 3 * (j - i) + 1
         /\ 3 * (k - i) + 3 <= 3 * (j - i) + 2 /\ 3 * (j - (k + 2)) + 2 <= 3 * (j - i) + 2
         /\ (3 * (j - i) + 1) + 1 <= 3 * (j - i) + 2 /\ (3 * (j - i) + 2) + 1 <= 3 * (j - i) + 3
OBVIOUS

LEMMA AndThenTerm ==
  ASSUME NEW words \in Seq(FilterToken), NEW i \in DOMAIN words, NEW k \in DOMAIN words,
         NEW j \in DOMAIN words,
         i <= k, k + 2 <= j, IsAnd(words, i, k), LowerCase(words[k + 1]) = "and", IsTerm(words, k + 2, j)
  PROVE  IsAnd(words, i, j)
<1>0. DOMAIN words = 1..Len(words) /\ Len(words) \in Nat /\ i \in Nat /\ j \in Nat /\ k \in Nat
  OBVIOUS
<1>. DEFINE a == 3 * (k - i) + 2
            b == 3 * (j - (k + 2)) + 1
            n == 3 * (j - i) + 1
            m == 3 * (j - i) + 2
<1>1. a \in Nat /\ b \in Nat /\ n \in Nat /\ m \in Nat /\ a <= n /\ b <= n /\ n + 1 <= m
  BY <1>0, StepsOfParts, Zenon
<1>. HIDE DEF n, m, a, b
<1>2. PICK v \in Outcomes : Phrase("and", i, k, v) \in Derived(words)[a]
  BY DEF IsAnd, IsPhrase, a
<1>3. PICK w \in Outcomes : Phrase("term", k + 2, j, w) \in Derived(words)[b]
  BY DEF IsTerm, IsPhrase, b
<1>. DEFINE f == Phrase("and", i, k, v)
            g == Phrase("term", k + 2, j, w)
            both == Both(v, w)
<1>4. f \in Derived(words)[n] /\ g \in Derived(words)[n]
  BY <1>1, <1>2, <1>3, DerivedGrows
<1>5. /\ f.kind = "and" /\ f.from = i /\ f.to = k /\ f.value = v
      /\ g.kind = "term" /\ g.from = k + 2 /\ g.to = j /\ g.value = w
  BY PhraseFields
<1>6. LowerCase(Peek(words, k + 1)) = "and"
  BY <1>0 DEF Peek
<1>. HIDE DEF f, g
<1>7. Rule(words, Derived(words)[n], Phrase("and", i, j, both))
  <2>1. Phrase("and", f.from, g.to, Both(f.value, g.value)) = Phrase("and", i, j, both)
    BY <1>5
  <2>. HIDE DEF both
  <2>2. QED BY <1>4, <1>5, <1>6, <2>1 DEF Rule
<1>8. both \in Outcomes
  BY OutcomesJoined
<1>. HIDE DEF both
<1>9. Phrase("and", i, j, both) \in Derived(words)[m]
  BY <1>1, <1>7, RuleDerives
<1>10. QED BY <1>8, <1>9 DEF IsAnd, IsPhrase, m

LEMMA OrThenAnd ==
  ASSUME NEW words \in Seq(FilterToken), NEW i \in DOMAIN words, NEW k \in DOMAIN words,
         NEW j \in DOMAIN words,
         i <= k, k + 2 <= j, IsOr(words, i, k), LowerCase(words[k + 1]) = "or", IsAnd(words, k + 2, j)
  PROVE  IsOr(words, i, j)
<1>0. DOMAIN words = 1..Len(words) /\ Len(words) \in Nat /\ i \in Nat /\ j \in Nat /\ k \in Nat
  OBVIOUS
<1>. DEFINE a == 3 * (k - i) + 3
            b == 3 * (j - (k + 2)) + 2
            n == 3 * (j - i) + 2
            m == 3 * (j - i) + 3
<1>1. a \in Nat /\ b \in Nat /\ n \in Nat /\ m \in Nat /\ a <= n /\ b <= n /\ n + 1 <= m
  BY <1>0, StepsOfParts, Zenon
<1>. HIDE DEF n, m, a, b
<1>2. PICK v \in Outcomes : Phrase("or", i, k, v) \in Derived(words)[a]
  BY DEF IsOr, IsPhrase, a
<1>3. PICK w \in Outcomes : Phrase("and", k + 2, j, w) \in Derived(words)[b]
  BY DEF IsAnd, IsPhrase, b
<1>. DEFINE f == Phrase("or", i, k, v)
            g == Phrase("and", k + 2, j, w)
            either == Either(v, w)
<1>4. f \in Derived(words)[n] /\ g \in Derived(words)[n]
  BY <1>1, <1>2, <1>3, DerivedGrows
<1>5. /\ f.kind = "or" /\ f.from = i /\ f.to = k /\ f.value = v
      /\ g.kind = "and" /\ g.from = k + 2 /\ g.to = j /\ g.value = w
  BY PhraseFields
<1>6. LowerCase(Peek(words, k + 1)) = "or"
  BY <1>0 DEF Peek
<1>. HIDE DEF f, g
<1>7. Rule(words, Derived(words)[n], Phrase("or", i, j, either))
  <2>1. Phrase("or", f.from, g.to, Either(f.value, g.value)) = Phrase("or", i, j, either)
    BY <1>5
  <2>. HIDE DEF either
  <2>2. QED BY <1>4, <1>5, <1>6, <2>1 DEF Rule
<1>8. either \in Outcomes
  BY OutcomesJoined
<1>. HIDE DEF either
<1>9. Phrase("or", i, j, either) \in Derived(words)[m]
  BY <1>1, <1>7, RuleDerives
<1>10. QED BY <1>8, <1>9 DEF IsOr, IsPhrase, m

\* Where the parser expects a term, or has read one, after n tokens of a filter that begins at
\* `from`: q is where the running parse_and() began.
Conjunction(words, from, q) ==
  q = from \/ (q \in Nat /\ from + 2 <= q /\ LowerCase(words[q - 1]) = "or" /\ IsOr(words, from, q - 2))

Expecting(words, from, n) == \E q \in 1..(n + 1) :
  /\ from <= q /\ Conjunction(words, from, q)
  /\ q = n + 1 \/ (q + 1 <= n /\ LowerCase(words[n]) = "and" /\ IsAnd(words, q, n - 1))

HasRead(words, from, n) == \E q \in 1..n :
  from <= q /\ Conjunction(words, from, q) /\ IsAnd(words, q, n)

\* After each token that the parser accepts the phrases read so far are derived: a term,
LEMMA TermIsTaken ==
  ASSUME NEW words \in Seq(FilterToken), NEW from \in Nat, NEW n \in Nat, NEW j \in DOMAIN words,
         n + 1 <= j, Expecting(words, from, n), IsTerm(words, n + 1, j)
  PROVE  HasRead(words, from, j)
<1>0. DOMAIN words = 1..Len(words) /\ Len(words) \in Nat /\ j \in Nat
  OBVIOUS
<1>1. PICK q \in 1..(n + 1) : /\ from <= q /\ Conjunction(words, from, q)
                              /\ q = n + 1 \/ (q + 1 <= n /\ LowerCase(words[n]) = "and" /\ IsAnd(words, q, n - 1))
  BY DEF Expecting
<1>2. q \in 1..j /\ q \in DOMAIN words /\ n + 1 \in DOMAIN words
  BY <1>0
<1>3. IsAnd(words, q, j)
  <2>1. CASE q = n + 1
    BY <1>2, <2>1, TermIsAnd
  <2>2. CASE q # n + 1
    <3>. DEFINE k == n - 1
    <3>1. k \in DOMAIN words /\ k \in Nat /\ q <= k /\ k + 1 = n /\ k + 2 = n + 1 /\ k + 2 <= j
      BY <1>0, <1>1, <2>2
    <3>2. IsAnd(words, q, k) /\ LowerCase(words[k + 1]) = "and" /\ IsTerm(words, k + 2, j)
      BY <1>1, <2>2, <3>1
    <3>. HIDE DEF k
    <3>3. QED BY <1>2, <3>1, <3>2, AndThenTerm
  <2>3. QED BY <2>1, <2>2
<1>4. QED BY <1>1, <1>2, <1>3 DEF HasRead

\* the end of a filter,
LEMMA FilterIsRead ==
  ASSUME NEW words \in Seq(FilterToken), NEW from \in DOMAIN words, NEW n \in DOMAIN words,
         HasRead(words, from, n)
  PROVE  from <= n /\ IsOr(words, from, n)
<1>0. DOMAIN words = 1..Len(words) /\ Len(words) \in Nat /\ n \in Nat /\ from \in Nat
  OBVIOUS
<1>1. PICK q \in 1..n : from <= q /\ Conjunction(words, from, q) /\ IsAnd(words, q, n)
  BY DEF HasRead
<1>2. q \in DOMAIN words /\ q <= n /\ from <= n
  BY <1>0, <1>1
<1>3. CASE q = from
  BY <1>1, <1>2, <1>3, AndIsOr
<1>4. CASE q # from
  <2>. DEFINE k == q - 2
  <2>1. from + 2 <= q /\ LowerCase(words[q - 1]) = "or" /\ IsOr(words, from, q - 2)
    BY <1>1, <1>4 DEF Conjunction
  <2>2. k \in DOMAIN words /\ k \in Nat /\ from <= k /\ k + 1 = q - 1 /\ k + 2 = q
    BY <1>0, <1>2, <2>1
  <2>3. IsOr(words, from, k) /\ LowerCase(words[k + 1]) = "or" /\ IsAnd(words, k + 2, n) /\ k + 2 <= n
    BY <1>1, <1>2, <2>1, <2>2
  <2>. HIDE DEF k
  <2>4. IsOr(words, from, n)
    BY <2>2, <2>3, OrThenAnd
  <2>5. QED BY <1>2, <2>4
<1>5. QED BY <1>3, <1>4

\* a connective of terms,
LEMMA AndIsTaken ==
  ASSUME NEW words \in Seq(FilterToken), NEW from \in Nat, NEW n \in Nat,
         HasRead(words, from, n), LowerCase(words[n + 1]) = "and"
  PROVE  Expecting(words, from, n + 1)
<1>1. PICK q \in 1..n : from <= q /\ Conjunction(words, from, q) /\ IsAnd(words, q, n)
  BY DEF HasRead
<1>2. q \in 1..((n + 1) + 1) /\ q + 1 <= n + 1 /\ (n + 1) - 1 = n
  BY <1>1
<1>3. QED BY <1>1, <1>2 DEF Expecting

\* a connective of conjunctions,
LEMMA OrIsTaken ==
  ASSUME NEW words \in Seq(FilterToken), NEW from \in DOMAIN words, NEW n \in DOMAIN words,
         HasRead(words, from, n), LowerCase(words[n + 1]) = "or"
  PROVE  Expecting(words, from, n + 1)
<1>0. DOMAIN words = 1..Len(words) /\ Len(words) \in Nat /\ n \in Nat /\ from \in Nat
  OBVIOUS
<1>. DEFINE q == n + 2
<1>1. from <= n /\ IsOr(words, from, n)
  BY FilterIsRead
<1>2. q \in Nat /\ from + 2 <= q /\ q - 1 = n + 1 /\ q - 2 = n /\ q \in 1..((n + 1) + 1) /\ q = (n + 1) + 1 /\ from <= q
  BY <1>0, <1>1
<1>. HIDE DEF q
<1>3. Conjunction(words, from, q)
  BY <1>1, <1>2 DEF Conjunction
<1>4. QED BY <1>2, <1>3 DEF Expecting

\* and the beginning of a filter.
LEMMA FilterBegins ==
  ASSUME NEW words, NEW n \in Nat
  PROVE  Expecting(words, n + 1, n)
BY DEF Expecting, Conjunction

\* opens[k]: the position of the parenthesis behind which the calls of outer[k] wait
Begin(opens, k) == IF k = 1 THEN 1 ELSE opens[k - 1] + 1

\* The parentheses at these positions are open after n tokens, each within the filter before it.
Opened(words, opens, n) ==
  \A k \in 1..Len(opens) : /\ opens[k] \in 1..n /\ words[opens[k]] = "("
                           /\ Begin(opens, k) <= opens[k]
                           /\ Expecting(words, Begin(opens, k), opens[k] - 1)

\* The last of n tokens is the attribute of a comparison.
InComparison(words, from, n) ==
  n - 1 \in Nat /\ n \in DOMAIN words /\ words[n] \notin {"(", ")", "and", "or"} /\ Expecting(words, from, n - 1)

\* What the parser has read when it stands at s after n tokens is derived, level by level.
ReadSoundly(words, n, s) == s.at = "raised" \/
  \E opens \in Seq(Nat) :
    /\ Len(opens) = Len(s.outer) /\ Opened(words, opens, n)
    /\ s.at = "term" => Expecting(words, Begin(opens, Len(opens) + 1), n)
    /\ s.at = "operator" => InComparison(words, Begin(opens, Len(opens) + 1), n)
    /\ s.at = "value" => /\ n - 1 \in Nat /\ InComparison(words, Begin(opens, Len(opens) + 1), n - 1)
                        /\ LowerCase(words[n]) # "pr"
    /\ s.at = "after" => HasRead(words, Begin(opens, Len(opens) + 1), n)

\* A filter that waits begins within what has been read,
LEMMA BeginsAfterOpening ==
  ASSUME NEW words, NEW n \in Nat, NEW opens \in Seq(Nat), Opened(words, opens, n),
         NEW k \in 1..(Len(opens) + 1)
  PROVE  Begin(opens, k) \in 1..(n + 1)
<1>0. Len(opens) \in Nat
  OBVIOUS
<1>1. CASE k = 1
  BY <1>1 DEF Begin
<1>2. CASE k # 1
  <2>1. k - 1 \in 1..Len(opens)
    BY <1>0, <1>2
  <2>2. opens[k - 1] \in 1..n
    BY <2>1 DEF Opened
  <2>3. QED BY <1>2, <2>2 DEF Begin
<1>3. QED BY <1>1, <1>2

\* and waits on as more is read.
LEMMA OpenedLater ==
  ASSUME NEW words, NEW n \in Nat, NEW opens \in Seq(Nat), Opened(words, opens, n)
  PROVE  Opened(words, opens, n + 1)
<1>1. 1..n \subseteq 1..(n + 1)
  OBVIOUS
<1>2. QED BY <1>1 DEF Opened

\* A parenthesis opens a filter,
LEMMA OneMoreIsOpened ==
  ASSUME NEW words, NEW n \in Nat, NEW opens \in Seq(Nat), Opened(words, opens, n),
         words[n + 1] = "(", Expecting(words, Begin(opens, Len(opens) + 1), n)
  PROVE  /\ Opened(words, Append(opens, n + 1), n + 1)
         /\ Begin(Append(opens, n + 1), Len(Append(opens, n + 1)) + 1) = (n + 1) + 1
<1>. DEFINE m == Len(opens)
            longer == Append(opens, n + 1)
<1>1. m \in Nat /\ Len(longer) = m + 1 /\ longer[m + 1] = n + 1 /\ \A k \in 1..m : longer[k] = opens[k]
  OBVIOUS
<1>2. Begin(opens, m + 1) \in 1..(n + 1)
  BY <1>1, BeginsAfterOpening
<1>. HIDE DEF longer
<1>3. \A k \in 1..(m + 1) : Begin(longer, k) = Begin(opens, k)
  <2>. TAKE k \in 1..(m + 1)
  <2>1. k # 1 => k - 1 \in 1..m
    BY <1>1
  <2>2. QED BY <1>1, <2>1 DEF Begin
<1>4. ASSUME NEW k \in 1..(m + 1)
      PROVE  /\ longer[k] \in 1..(n + 1) /\ words[longer[k]] = "("
             /\ Begin(longer, k) <= longer[k]
             /\ Expecting(words, Begin(longer, k), longer[k] - 1)
  <2>1. CASE k = m + 1
    <3>1. longer[k] = n + 1 /\ (n + 1) - 1 = n /\ n + 1 \in 1..(n + 1)
      BY <1>1, <2>1
    <3>2. Begin(longer, k) = Begin(opens, m + 1)
      BY <1>3, <2>1
    <3>3. QED BY <1>2, <3>1, <3>2
  <2>2. CASE k # m + 1
    <3>1. k \in 1..m
      BY <1>1, <2>2
    <3>2. longer[k] = opens[k] /\ Begin(longer, k) = Begin(opens, k)
      BY <1>1, <1>3, <3>1
    <3>3. /\ opens[k] \in 1..n /\ words[opens[k]] = "(" /\ Begin(opens, k) <= opens[k]
          /\ Expecting(words, Begin(opens, k), opens[k] - 1)
      BY <3>1 DEF Opened
    <3>4. QED BY <3>2, <3>3
  <2>3. QED BY <2>1, <2>2
<1>5. Opened(words, longer, n + 1)
  BY <1>1, <1>4 DEF Opened
<1>6. Begin(longer, Len(longer) + 1) = (n + 1) + 1
  <2>1. (m + 1) + 1 # 1 /\ ((m + 1) + 1) - 1 = m + 1
    BY <1>1
  <2>2. QED BY <1>1, <2>1 DEF Begin
<1>7. QED BY <1>5, <1>6 DEF longer

\* and closing it returns to the one outside.
LEMMA OneLessIsOpened ==
  ASSUME NEW words, NEW n \in Nat, NEW opens \in Seq(Nat), Opened(words, opens, n), NEW m \in Nat,
         Len(opens) = m + 1
  PROVE  /\ SubSeq(opens, 1, m) \in Seq(Nat) /\ Len(SubSeq(opens, 1, m)) = m
         /\ Opened(words, SubSeq(opens, 1, m), n)
         /\ Begin(SubSeq(opens, 1, m), m + 1) = Begin(opens, m + 1)
<1>. DEFINE front == SubSeq(opens, 1, m)
<1>1. front \in Seq(Nat) /\ Len(front) = m /\ \A k \in 1..m : front[k] = opens[k]
  OBVIOUS
<1>. HIDE DEF front
<1>2. \A k \in 1..(m + 1) : Begin(front, k) = Begin(opens, k)
  <2>. TAKE k \in 1..(m + 1)
  <2>1. k # 1 => k - 1 \in 1..m
    OBVIOUS
  <2>2. QED BY <1>1, <2>1 DEF Begin
<1>3. \A k \in 1..m : k \in 1..(m + 1)
  OBVIOUS
<1>4. Opened(words, front, n)
  BY <1>1, <1>2, <1>3 DEF Opened
<1>5. m + 1 \in 1..(m + 1)
  OBVIOUS
<1>6. QED BY <1>1, <1>2, <1>4, <1>5 DEF front

\* What stands behind an open parenthesis up to a closing one is a term.
LEMMA EnclosedIsTaken ==
  ASSUME NEW words \in Seq(FilterToken), NEW n \in Nat, n + 1 \in DOMAIN words, words[n + 1] = ")",
         NEW opens \in Seq(Nat), Opened(words, opens, n), NEW m \in Nat, Len(opens) = m + 1,
         HasRead(words, Begin(opens, (m + 1) + 1), n)
  PROVE  HasRead(words, Begin(opens, m + 1), n + 1)
<1>0. DOMAIN words = 1..Len(words) /\ Len(words) \in Nat /\ m + 1 \in 1..Len(opens)
  OBVIOUS
<1>. DEFINE o == opens[m + 1]
            b == Begin(opens, m + 1)
            from == o + 1
<1>1. /\ o \in 1..n /\ words[o] = "(" /\ b <= o
      /\ Expecting(words, b, o - 1)
  BY <1>0 DEF Opened
<1>2. b \in 1..(n + 1)
  <2>1. m + 1 \in 1..(Len(opens) + 1)
    OBVIOUS
  <2>2. QED BY <2>1, BeginsAfterOpening
<1>3. Begin(opens, (m + 1) + 1) = from
  <2>1. (m + 1) + 1 # 1 /\ ((m + 1) + 1) - 1 = m + 1
    OBVIOUS
  <2>2. QED BY <2>1 DEF Begin
<1>. HIDE DEF o, b
<1>4. from \in DOMAIN words /\ n \in DOMAIN words /\ from - 1 = o /\ o \in Nat /\ b \in Nat /\ o - 1 \in Nat
  BY <1>0, <1>1, <1>2
<1>5. from <= n /\ IsOr(words, from, n)
  BY <1>3, <1>4, FilterIsRead
<1>6. IsTerm(words, o, n + 1)
  <2>1. from - 1 \in DOMAIN words /\ words[from - 1] = "("
    BY <1>0, <1>1, <1>4
  <2>. HIDE DEF from
  <2>2. IsTerm(words, from - 1, n + 1)
    BY <1>4, <1>5, <2>1, EnclosedIsTerm
  <2>3. QED BY <1>4, <2>2
<1>7. (o - 1) + 1 = o /\ (o - 1) + 1 <= n + 1
  BY <1>1
<1>8. HasRead(words, b, n + 1)
  BY <1>1, <1>4, <1>6, <1>7, TermIsTaken
<1>9. QED BY <1>8 DEF b

\* One turn of the parser keeps what it has read derived.
LEMMA TurnIsSound ==
  ASSUME NEW words \in Seq(FilterToken), NEW n \in Nat, n + 1 \in DOMAIN words,
         NEW s \in Standings, ReadSoundly(words, n, s)
  PROVE  ReadSoundly(words, n + 1, ParserTurn(s, words[n + 1]))
<1>. DEFINE token == words[n + 1]
            next == ParserTurn(s, token)
<1>. SUFFICES ReadSoundly(words, n + 1, next)
  OBVIOUS
<1>1. s.at \in {"term", "operator", "value", "after", "raised"} /\ s.outer \in Levels /\ s.any \in Outcomes /\ s.all \in Outcomes
  BY DEF Standings
<1>2. ASSUME NEW t, t = Raised PROVE ReadSoundly(words, n + 1, t)
  BY <1>2, StandingsAre DEF ReadSoundly, Raised, Standing
<1>3. CASE s.at = "raised"
  <2>1. next = Raised
    BY <1>3, ConstantsApart DEF ParserTurn
  <2>2. QED BY <1>2, <2>1
<1>4. CASE s.at # "raised"
  <2>1. PICK opens \in Seq(Nat) :
          /\ Len(opens) = Len(s.outer) /\ Opened(words, opens, n)
          /\ s.at = "term" => Expecting(words, Begin(opens, Len(opens) + 1), n)
          /\ s.at = "operator" => InComparison(words, Begin(opens, Len(opens) + 1), n)
          /\ s.at = "value" => /\ n - 1 \in Nat /\ InComparison(words, Begin(opens, Len(opens) + 1), n - 1)
                              /\ LowerCase(words[n]) # "pr"
          /\ s.at = "after" => HasRead(words, Begin(opens, Len(opens) + 1), n)
    BY <1>4 DEF ReadSoundly
  <2>. DEFINE m == Len(opens)
              b == Begin(opens, m + 1)
  <2>2. m \in Nat /\ m + 1 \in 1..(m + 1)
    OBVIOUS
  <2>3. b \in 1..(n + 1) /\ Opened(words, opens, n + 1)
    BY <2>1, <2>2, BeginsAfterOpening, OpenedLater
  <2>4. DOMAIN words = 1..Len(words) /\ Len(words) \in Nat
    OBVIOUS
  <2>5. b \in DOMAIN words /\ b \in Nat
    BY <2>3, <2>4
  <2>. HIDE DEF b, next, token, m
  <2>6. ASSUME NEW t \in Standings, t.at = "term", Len(t.outer) = m, Expecting(words, b, n + 1)
        PROVE  ReadSoundly(words, n + 1, t)
    <3>1. Expecting(words, Begin(opens, Len(opens) + 1), n + 1)
      BY <2>6 DEF b, m
    <3>2. Len(opens) = Len(t.outer)
      BY <2>6 DEF m
    <3>3. t.at \notin {"operator", "value", "after"}
      BY <2>6, ConstantsApart
    <3>4. QED BY <2>3, <3>1, <3>2, <3>3 DEF ReadSoundly
  <2>7. ASSUME NEW t \in Standings, t.at = "after", Len(t.outer) = m, HasRead(words, b, n + 1)
        PROVE  ReadSoundly(words, n + 1, t)
    <3>1. HasRead(words, Begin(opens, Len(opens) + 1), n + 1)
      BY <2>7 DEF b, m
    <3>2. Len(opens) = Len(t.outer)
      BY <2>7 DEF m
    <3>3. t.at \notin {"term", "operator", "value"}
      BY <2>7, ConstantsApart
    <3>4. QED BY <2>3, <3>1, <3>2, <3>3 DEF ReadSoundly
  <2>12. ASSUME NEW t \in Standings, Len(t.outer) = m,
                \/ t.at = "operator" /\ InComparison(words, b, n + 1)
                \/ t.at = "value" /\ InComparison(words, b, n) /\ LowerCase(token) # "pr"
         PROVE  ReadSoundly(words, n + 1, t)
    <3>1. Len(opens) = Len(t.outer) /\ Begin(opens, Len(opens) + 1) = b /\ (n + 1) - 1 = n
      BY <2>12 DEF b, m
    <3>2. t.at \notin {"term", "after"}
      BY <2>12, ConstantsApart
    <3>3. CASE t.at = "operator" /\ InComparison(words, b, n + 1)
      BY <2>3, <3>1, <3>2, <3>3, ConstantsApart DEF ReadSoundly
    <3>4. CASE t.at = "value" /\ InComparison(words, b, n) /\ LowerCase(token) # "pr"
      BY <2>3, <3>1, <3>2, <3>4, ConstantsApart DEF ReadSoundly, token
    <3>5. QED BY <2>12, <3>3, <3>4
  <2>13. token \in FilterToken /\ token \in Word /\ token # "end"
    BY <2>4 DEF token, Word, FilterToken
  <2>8. next \in Standings
    BY <2>13, TurnStands DEF next
  <2>9. CASE s.at = "term"
    <3>1. next = ReadTerm(s, token) /\ Expecting(words, b, n)
      BY <2>1, <2>9 DEF ParserTurn, next, b, m
    <3>2. CASE token \notin {"(", ")", "and", "or"}
      <4>1. next = [s EXCEPT !.at = "operator", !.attr = LowerCase(token)]
        BY <2>9, <2>13, <3>2, TurnOfAttribute DEF next
      <4>2. next.at = "operator" /\ next.outer = s.outer
        BY <4>1 DEF Standings
      <4>3. InComparison(words, b, n + 1)
        <5>1. (n + 1) - 1 = n
          OBVIOUS
        <5>2. QED BY <3>1, <3>2, <5>1 DEF InComparison, token
      <4>4. Len(next.outer) = m
        BY <2>1, <4>2 DEF m
      <4>5. QED BY <2>8, <2>12, <4>2, <4>3, <4>4
    <3>3. CASE token = "("
      <4>. DEFINE level == [any |-> s.any, all |-> s.all]
                  longer == Append(s.outer, level)
                  more == Append(opens, n + 1)
      <4>1. next = Standing("term", longer, "fails", "holds")
        BY <3>1, <3>3 DEF ReadTerm
      <4>2. level \in Held
        BY <1>1 DEF Held
      <4>. HIDE DEF level
      <4>3. longer \in Levels /\ Len(longer) = Len(s.outer) + 1
        BY <1>1, <4>2 DEF Levels
      <4>4. more \in Seq(Nat) /\ Len(more) = m + 1
        BY DEF m
      <4>5. Opened(words, more, n + 1) /\ Begin(more, Len(more) + 1) = (n + 1) + 1
        BY <2>1, <3>1, <3>3, OneMoreIsOpened DEF token, b, m
      <4>. HIDE DEF longer, more
      <4>6. next.at = "term" /\ next.outer = longer
        BY <4>1 DEF Standing
      <4>7. Expecting(words, (n + 1) + 1, n + 1)
        <5>1. n + 1 \in Nat
          OBVIOUS
        <5>2. QED BY <5>1, FilterBegins
      <4>8. Len(more) = Len(next.outer) /\ next.at \notin {"operator", "value", "after"}
        BY <2>1, <4>3, <4>4, <4>6, ConstantsApart DEF m
      <4>9. QED BY <4>4, <4>5, <4>7, <4>8 DEF ReadSoundly
    <3>4. CASE token \in {")", "and", "or"}
      <4>1. next = Raised
        BY <3>1, <3>4 DEF ReadTerm
      <4>2. QED BY <1>2, <4>1
    <3>5. QED BY <3>2, <3>3, <3>4
  <2>14. ASSUME NEW i \in Nat, InComparison(words, b, i), IsComparison(words, i), EndOf(words, i) = n + 1
         PROVE  HasRead(words, b, n + 1)
    <3>1. i - 1 \in Nat /\ (i - 1) + 1 = i /\ i \in DOMAIN words /\ Expecting(words, b, i - 1)
      BY <2>14 DEF InComparison
    <3>2. IsTerm(words, (i - 1) + 1, n + 1)
      BY <2>14, <3>1, ComparisonIsTerm
    <3>3. (i - 1) + 1 <= n + 1
      BY <2>14, <3>1, ComparisonSpans
    <3>4. QED BY <2>5, <3>1, <3>2, <3>3, TermIsTaken
  <2>15. CASE s.at = "operator"
    <3>1. InComparison(words, b, n) /\ n \in DOMAIN words /\ n \in Nat
      BY <2>1, <2>15, ConstantsApart DEF InComparison, b, m
    <3>2. Peek(words, n + 1) = token
      BY <2>4 DEF Peek, token
    <3>3. CASE LowerCase(token) = "pr"
      <4>1. next = Compared(s, Present(s.attr))
        BY <2>13, <2>15, <3>3, TurnOfOperator DEF next
      <4>2. next.at = "after" /\ next.outer = s.outer
        BY <4>1 DEF Compared, Standing
      <4>3. EndOf(words, n) = n + 1 /\ IsComparison(words, n)
        BY <2>4, <3>1, <3>2, <3>3 DEF EndOf, IsComparison, InComparison
      <4>4. HasRead(words, b, n + 1)
        BY <2>14, <3>1, <4>3
      <4>5. Len(next.outer) = m
        BY <2>1, <4>2 DEF m
      <4>6. QED BY <2>7, <2>8, <4>2, <4>4, <4>5
    <3>4. CASE LowerCase(token) # "pr"
      <4>1. next = [s EXCEPT !.at = "value", !.operator = LowerCase(token)]
        BY <2>13, <2>15, <3>4, TurnOfOperator DEF next
      <4>2. next.at = "value" /\ next.outer = s.outer
        BY <4>1 DEF Standings
      <4>3. Len(next.outer) = m
        BY <2>1, <4>2 DEF m
      <4>4. QED BY <2>8, <2>12, <3>1, <3>4, <4>2, <4>3
    <3>5. QED BY <3>3, <3>4
  <2>16. CASE s.at = "value"
    <3>. DEFINE i == n - 1
    <3>1. i \in Nat /\ InComparison(words, b, i) /\ LowerCase(words[n]) # "pr" /\ i + 1 = n /\ i + 2 = n + 1
      BY <2>1, <2>16, ConstantsApart DEF b, m
    <3>2. next = Compared(s, Compare(s.attr, s.operator, LowerCase(token)))
      BY <2>13, <2>16, TurnOfValue DEF next
    <3>3. next.at = "after" /\ next.outer = s.outer
      BY <3>2 DEF Compared, Standing
    <3>. HIDE DEF i
    <3>4. Peek(words, i + 1) = words[n]
      BY <2>4, <3>1 DEF Peek
    <3>5. EndOf(words, i) = n + 1 /\ IsComparison(words, i)
      BY <2>4, <3>1, <3>4 DEF EndOf, IsComparison, InComparison
    <3>6. HasRead(words, b, n + 1)
      BY <2>14, <3>1, <3>5
    <3>7. Len(next.outer) = m
      BY <2>1, <3>3 DEF m
    <3>8. QED BY <2>7, <2>8, <3>3, <3>6, <3>7
  <2>10. CASE s.at = "after"
    <3>1. next = ReadOn(s, token) /\ HasRead(words, b, n)
      BY <2>1, <2>10, ConstantsApart DEF ParserTurn, next, b, m
    <3>2. n \in DOMAIN words
      <4>1. n # 0
        BY <3>1 DEF HasRead
      <4>2. QED BY <2>4, <4>1
    <3>3. CASE LowerCase(token) = "and"
      <4>. DEFINE stood == Standing("term", s.outer, s.any, s.all)
      <4>7. token # ")"
        BY <3>3, LowerCaseIs, ConstantsApart
      <4>. HIDE DEF token
      <4>0. ReadOn(s, token) = stood
        BY <3>3, <4>7, ConstantsApart DEF ReadOn
      <4>1. next = stood
        BY <3>1, <4>0
      <4>2. next.at = "term" /\ next.outer = s.outer
        BY <1>1, <4>1, StandingsAre
      <4>3. Expecting(words, b, n + 1)
        BY <2>5, <3>1, <3>3, AndIsTaken DEF token
      <4>4. Len(next.outer) = m
        BY <2>1, <4>2 DEF m
      <4>5. QED BY <2>6, <2>8, <4>2, <4>3, <4>4
    <3>4. CASE LowerCase(token) = "or"
      <4>. DEFINE any == Either(s.any, s.all)
      <4>7. token # ")"
        BY <3>4, LowerCaseIs, ConstantsApart
      <4>. HIDE DEF token
      <4>0. ReadOn(s, token) = ReadOr(s)
        BY <3>4, <4>7, ConstantsApart DEF ReadOn
      <4>1. next = Standing("term", s.outer, any, "holds")
        BY <3>1, <4>0 DEF ReadOr
      <4>. HIDE DEF any
      <4>2. next.at = "term" /\ next.outer = s.outer
        BY <4>1 DEF Standing
      <4>3. Expecting(words, b, n + 1)
        BY <2>5, <3>1, <3>2, <3>4, OrIsTaken DEF token
      <4>4. Len(next.outer) = m
        BY <2>1, <4>2 DEF m
      <4>5. QED BY <2>6, <2>8, <4>2, <4>3, <4>4
    <3>5. CASE token = ")" /\ s.outer # <<>>
      <4>. DEFINE k == m - 1
                  front == SubSeq(opens, 1, k)
                  inner == SubSeq(s.outer, 1, k)
                  level == s.outer[m]
                  all == Both(level.all, Either(s.any, s.all))
      <4>1. k \in Nat /\ k + 1 = m /\ Len(s.outer) = m
        <5>1. Len(s.outer) # 0
          BY <1>1, <3>5 DEF Levels
        <5>2. QED BY <2>1, <2>2, <5>1 DEF m
      <4>2. level \in Held /\ inner \in Levels
        BY <1>1, <3>5, <4>1, FrontAndLast DEF Levels
      <4>3. level.any \in Outcomes /\ all \in Outcomes
        BY <1>1, <4>2, OutcomesJoined DEF Held
      <4>4. next = Standing("after", inner, level.any, all)
        BY <3>1, <3>5, <4>1, LowerCaseIs, ConstantsApart DEF ReadOn, Close
      <4>5. Len(inner) = k
        BY <1>1, <4>1 DEF Levels
      <4>. HIDE DEF level, all, inner, k
      <4>6. next.at = "after" /\ next.outer = inner
        BY <4>2, <4>3, <4>4, StandingsAre
      <4>7. HasRead(words, Begin(opens, k + 1), n + 1)
        BY <2>1, <3>1, <3>5, <4>1, EnclosedIsTaken DEF token, b, m
      <4>8. /\ front \in Seq(Nat) /\ Len(front) = k /\ Opened(words, front, n + 1)
            /\ Begin(front, k + 1) = Begin(opens, k + 1)
        BY <2>3, <4>1, OneLessIsOpened DEF m
      <4>. HIDE DEF front
      <4>9. Len(front) = Len(next.outer) /\ next.at \notin {"term", "operator", "value"}
        BY <4>5, <4>6, <4>8, ConstantsApart
      <4>10. HasRead(words, Begin(front, Len(front) + 1), n + 1)
        BY <4>7, <4>8
      <4>11. QED BY <4>8, <4>9, <4>10 DEF ReadSoundly
    <3>6. CASE LowerCase(token) \notin {"and", "or"} /\ ~(token = ")" /\ s.outer # <<>>)
      <4>1. next = Raised
        BY <3>1, <3>6 DEF ReadOn
      <4>2. QED BY <1>2, <4>1
    <3>7. QED BY <3>3, <3>4, <3>5, <3>6
  <2>11. QED BY <1>1, <1>4, <2>9, <2>10, <2>15, <2>16
<1>5. QED BY <1>3, <1>4

\* So whatever the parser has read is derived.
LEMMA ReadingIsSound ==
  ASSUME NEW words \in Seq(FilterToken)
  PROVE  ReadSoundly(words, Len(words), Reading(words)[Len(words)])
<1>. DEFINE r == Reading(words)
            length == Len(words)
            S == {n \in Nat : n <= length => ReadSoundly(words, n, r[n])}
<1>0. length \in Nat /\ DOMAIN words = 1..length
  OBVIOUS
<1>1. 0 \in S
  <2>. DEFINE opens == <<>>
  <2>1. r[0] = Begun /\ Begun.at = "term" /\ Begun.outer = opens
    BY ReadingUnfolds DEF Begun, Standing
  <2>2. opens \in Seq(Nat) /\ Len(opens) = 0 /\ Len(opens) + 1 = 1
    OBVIOUS
  <2>3. Opened(words, opens, 0)
    BY <2>2 DEF Opened
  <2>4. Begin(opens, Len(opens) + 1) = 0 + 1
    BY <2>2 DEF Begin
  <2>5. Expecting(words, 0 + 1, 0)
    BY FilterBegins
  <2>. HIDE DEF opens, r
  <2>6. ReadSoundly(words, 0, Begun)
    BY <2>1, <2>2, <2>3, <2>4, <2>5, ConstantsApart DEF ReadSoundly
  <2>7. QED BY <2>1, <2>6
<1>2. ASSUME NEW n \in Nat, n \in S PROVE n + 1 \in S
  <2>. SUFFICES ASSUME n + 1 <= length PROVE ReadSoundly(words, n + 1, r[n + 1])
    OBVIOUS
  <2>1. n + 1 \in DOMAIN words /\ n <= length
    BY <1>0
  <2>2. (n + 1) - 1 = n
    OBVIOUS
  <2>3. r[n] \in Standings /\ r[n + 1] = ParserTurn(r[n], words[n + 1])
    BY <2>1, <2>2, ReadingUnfolds, TurnOfPosition
  <2>4. ReadSoundly(words, n, r[n])
    BY <1>2, <2>1
  <2>. HIDE DEF r
  <2>5. QED BY <2>1, <2>3, <2>4, TurnIsSound
<1>3. Nat \subseteq S
  <2>. HIDE DEF S
  <2>1. QED BY <1>1, <1>2, NumbersByInduction
<1>4. QED BY <1>0, <1>3

\* What the parser accepts is a filter of the grammar,
LEMMA AcceptedIsMeant ==
  ASSUME NEW words \in Seq(FilterToken), Reading(words)[Len(words)].at = "after",
         Reading(words)[Len(words)].outer = <<>>
  PROVE  Meanings(words) # {}
<1>. DEFINE length == Len(words)
            end == Reading(words)[length]
<1>0. length \in Nat /\ DOMAIN words = 1..length
  OBVIOUS
<1>1. ReadSoundly(words, length, end) /\ end.at = "after" /\ end.outer = <<>>
  BY ReadingIsSound
<1>. HIDE DEF end
<1>2. PICK opens \in Seq(Nat) : Len(opens) = 0 /\ HasRead(words, Begin(opens, Len(opens) + 1), length)
  BY <1>1, ConstantsApart DEF ReadSoundly
<1>3. Begin(opens, Len(opens) + 1) = 1
  BY <1>2 DEF Begin
<1>4. HasRead(words, 1, length)
  BY <1>2, <1>3
<1>5. length # 0
  BY <1>4 DEF HasRead
<1>6. 1 \in DOMAIN words /\ length \in DOMAIN words
  BY <1>0, <1>5
<1>. HIDE DEF length
<1>7. IsOr(words, 1, length)
  BY <1>4, <1>6, FilterIsRead
<1>8. 3 * (length - 1) + 3 = 3 * length
  BY <1>0
<1>9. PICK v \in Outcomes : Phrase("or", 1, length, v) \in Derived(words)[3 * length]
  BY <1>7, <1>8 DEF IsOr, IsPhrase
<1>10. QED BY <1>9 DEF Meanings, length

\* and what the grammar derives is accepted with its meaning.
LEMMA MeantIsAccepted ==
  ASSUME NEW words \in Seq(FilterToken), NEW v \in Meanings(words)
  PROVE  /\ Reading(words)[Len(words)].at = "after" /\ Reading(words)[Len(words)].outer = <<>>
         /\ Either(Reading(words)[Len(words)].any, Reading(words)[Len(words)].all) = v
<1>. DEFINE length == Len(words)
            f == Phrase("or", 1, length, v)
            end == Reading(words)[length]
            none == <<>>
<1>0. length \in Nat /\ 3 * length \in Nat
  OBVIOUS
<1>1. v \in Outcomes /\ f \in Derived(words)[3 * length]
  BY DEF Meanings
<1>2. Reads(words, f)
  BY <1>0, <1>1, PhrasesAreRead
<1>3. ReadsFilter(words, 1, length, v)
  <2>1. f.kind = "or" /\ f.from = 1 /\ f.to = length /\ f.value = v
    BY PhraseFields
  <2>. HIDE DEF f
  <2>2. QED BY <1>2, <2>1 DEF Reads
<1>4. none \in Levels /\ Reading(words)[1 - 1] = Standing("term", none, "fails", "holds")
  <2>1. Reading(words)[0] = Begun
    BY ReadingUnfolds
  <2>2. 1 - 1 = 0
    OBVIOUS
  <2>3. none \in Levels
    BY DEF Levels
  <2>. HIDE DEF none
  <2>4. Begun = Standing("term", none, "fails", "holds")
    BY DEF Begun, none
  <2>5. QED BY <2>1, <2>2, <2>3, <2>4
<1>. HIDE DEF length, f, none
<1>5. PICK any \in Outcomes, all \in Outcomes : Either(any, all) = v /\ end = Standing("after", none, any, all)
  BY <1>3, <1>4 DEF ReadsFilter
<1>. HIDE DEF end
<1>6. end.at = "after" /\ end.outer = none /\ end.any = any /\ end.all = all
  BY <1>4, <1>5, StandingsAre
<1>7. Either(end.any, end.all) = v
  BY <1>5, <1>6, Zenon
<1>8. end.at = "after" /\ end.outer = <<>>
  BY <1>6 DEF none
<1>9. QED BY <1>7, <1>8, Zenon DEF end, length

\* Both directions together
LEMMA FiltersAreExact ==
  ASSUME NEW words \in Seq(FilterToken)
  PROVE  Meanings(words) = IF FilterResult(words) = "refused" THEN {} ELSE {FilterResult(words)}
<1>. DEFINE end == Reading(words)[Len(words)]
            M == Meanings(words)
            value == Either(end.any, end.all)
            accepted == end.at = "after" /\ end.outer = <<>>
<1>1. FilterResult(words) = IF accepted THEN value ELSE "refused"
  BY DEF FilterResult
<1>2. accepted => M # {}
  BY AcceptedIsMeant
<1>3. \A v \in M : accepted /\ value = v
  BY MeantIsAccepted
<1>4. \A v \in M : v # "refused"
  BY DEF Meanings, Outcomes
<1>. HIDE DEF end, M, value, accepted
<1>5. M = IF accepted THEN {value} ELSE {}
  BY <1>2, <1>3
<1>6. accepted => value # "refused"
  BY <1>2, <1>3, <1>4
<1>7. QED BY <1>1, <1>5, <1>6 DEF M

\* For filters of every length and every user: the parser takes exactly what the rules derive,
\* any word for an operator or a value included, and the predicate that it returns has the
\* meaning of the derivation (_parse_scim_filter, _scim_comparison).
THEOREM FiltersReadByRule == FilterSpec => []FilterMeansGrammar
<1>. DEFINE Filters == filter \in Seq(FilterToken)
<1>1. FilterInit => Filters
  BY DEF FilterInit
<1>2. Filters /\ [FilterNext]_filterVars => Filters'
  <2>. SUFFICES ASSUME Filters, FilterNext PROVE Filters'
    BY DEF filterVars
  <2>1. PICK piece \in FilterPieces : filter' = filter \o piece
    BY DEF FilterNext
  <2>2. piece \in Seq(FilterToken)
    BY FilterAssumption
  <2>3. QED BY <2>1, <2>2
<1>3. Filters => FilterMeansGrammar
  BY FiltersAreExact DEF FilterMeansGrammar
<1>4. QED BY <1>1, <1>2, <1>3, PTL DEF FilterSpec
=============================================================================
