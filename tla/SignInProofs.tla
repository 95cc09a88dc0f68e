---------------------------- MODULE SignInProofs ----------------------------
(***************************************************************************)
(* Signing in: OpenID Connect, SAML and the second factor, for any number  *)
(* of sessions, attempts, codes, requests and assertions, and for all      *)
(* lifetimes; and the accounts behind it: stored passwords, the memory     *)
(* that Argon2 fills for them, and the users of the directory.             *)
(***************************************************************************)
EXTENDS OAuthClient, SAML, OneTimePasswords, Passwords, Argon2, SCIM,
        FiniteSetTheorems, WellFoundedInduction, TLAPS

(***************************************************************************)
(* OpenID Connect.                                                         *)
(***************************************************************************)

\* A pending attempt has not been called back, and one that was has sent one request.
AttemptsSound ==
  /\ \A s \in Session : pending[s] # None => flight[pending[s]] = "new"
  /\ \A a \in Attempt :
       /\ exchanges[a] = (IF flight[a] = "new" THEN 0 ELSE 1)
       /\ flight[a] # "new" => owner[a] # None /\ spending[a] \in Code

\* A token response is there only for a code of the attempt.
OwnCode ==
  \A a \in Attempt : flight[a] \in {"validating", "logged_in"} => codes[spending[a]].attempt = a

\* Until two attempts overlap, the last nonce is that of the one under way.
NonceOfTheOne == ~overlapped => \A a \in Attempt : InFlight(a) => last_nonce = a

LoginInv == TypeOK /\ AttemptsSound /\ OwnCode /\ NonceOfTheOne

LEMMA LoginInitially == Init => LoginInv
<1>. SUFFICES ASSUME Init PROVE LoginInv
  OBVIOUS
<1>1. TypeOK
  BY DEF Init, TypeOK, Stage
<1>2. AttemptsSound /\ OwnCode /\ NonceOfTheOne
  BY DEF Init, AttemptsSound, OwnCode, NonceOfTheOne, InFlight
<1>. QED BY <1>1, <1>2 DEF LoginInv

LEMMA BeginKeeps ==
  ASSUME LoginInv, NEW s \in Session, NEW a \in Attempt, Begin(s, a)
  PROVE  LoginInv'
<1>. USE OAuthClientAssumption DEF LoginInv
<1>1. TypeOK'
  BY DEF TypeOK, Begin
<1>2. AttemptsSound'
  BY DEF TypeOK, Begin, AttemptsSound
<1>3. OwnCode' /\ NonceOfTheOne'
  BY DEF Begin, OwnCode, NonceOfTheOne, InFlight
<1>. QED BY <1>1, <1>2, <1>3

LEMMA AuthorizeKeeps ==
  ASSUME LoginInv, NEW c \in Code, NEW a \in Attempt, Authorize(c, a)
  PROVE  LoginInv'
<1>. USE OAuthClientAssumption DEF LoginInv
<1>1. TypeOK'
  BY DEF TypeOK, Authorize
<1>2. \A b \in Attempt : flight[b] \in {"validating", "logged_in"} => spending[b] # c
  BY DEF OwnCode, Authorize
<1>3. OwnCode'
  BY <1>2 DEF TypeOK, Authorize, OwnCode, AttemptsSound
<1>4. AttemptsSound' /\ NonceOfTheOne'
  BY DEF Authorize, AttemptsSound, NonceOfTheOne, InFlight
<1>. QED BY <1>1, <1>3, <1>4

LEMMA AbandonKeeps ==
  ASSUME LoginInv, NEW s \in Session, AbandonAttempt(s)
  PROVE  LoginInv'
<1>. USE DEF LoginInv
<1>1. TypeOK' /\ AttemptsSound'
  BY DEF TypeOK, AttemptsSound, AbandonAttempt
<1>2. OwnCode' /\ NonceOfTheOne'
  BY DEF AbandonAttempt, OwnCode, NonceOfTheOne, InFlight
<1>. QED BY <1>1, <1>2

LEMMA CallbackKeeps ==
  ASSUME LoginInv, NEW s \in Session, NEW a \in Attempt, NEW c \in Code, Callback(s, a, c)
  PROVE  LoginInv'
<1>. USE OAuthClientAssumption DEF LoginInv
<1>1. /\ pending[s] = a /\ a # None /\ flight[a] = "new" /\ exchanges[a] = 0 /\ owner[a] = s
  BY DEF Callback, InProgress, AttemptsSound, TypeOK
<1>2. /\ pending' = [pending EXCEPT ![s] = None] /\ last_nonce' = a
      /\ flight' = [flight EXCEPT ![a] = "exchanging"]
      /\ spending' = [spending EXCEPT ![a] = c]
      /\ exchanges' = [exchanges EXCEPT ![a] = exchanges[a] + 1]
      /\ overlapped' = (overlapped \/ \E b \in Attempt : InFlight(b))
      /\ UNCHANGED <<now, created_at, owner, codes>>
  BY DEF Callback
<1>3. TypeOK'
  BY <1>2 DEF TypeOK, Stage
<1>4. AttemptsSound'
  <2>1. ASSUME NEW t \in Session, pending'[t] # None PROVE flight'[pending'[t]] = "new"
    <3>1. t # s /\ pending'[t] = pending[t] /\ pending[t] # a
      BY <1>1, <1>2, <2>1 DEF TypeOK
    <3>. QED BY <1>2, <2>1, <3>1 DEF AttemptsSound, TypeOK
  <2>2. ASSUME NEW b \in Attempt
        PROVE  /\ exchanges'[b] = (IF flight'[b] = "new" THEN 0 ELSE 1)
               /\ flight'[b] # "new" => owner'[b] # None /\ spending'[b] \in Code
    <3>1. CASE b = a
      BY <1>1, <1>2, <3>1 DEF TypeOK
    <3>2. CASE b # a
      BY <1>2, <3>2 DEF TypeOK, AttemptsSound
    <3>. QED BY <3>1, <3>2
  <2>. QED BY <2>1, <2>2 DEF AttemptsSound
<1>5. OwnCode'
  BY <1>1, <1>2 DEF OwnCode, TypeOK
<1>6. NonceOfTheOne'
  BY <1>2 DEF NonceOfTheOne, InFlight, TypeOK
<1>. QED BY <1>3, <1>4, <1>5, <1>6

LEMMA ExchangeKeeps ==
  ASSUME LoginInv, NEW a \in Attempt, Exchange(a)
  PROVE  LoginInv'
<1>. USE DEF LoginInv
<1>1. /\ flight[a] = "exchanging" /\ spending[a] \in Code
      /\ codes' = codes \/ codes' = [codes EXCEPT ![spending[a]].used = TRUE]
      /\ \/ flight' = [flight EXCEPT ![a] = "validating"] /\ codes[spending[a]].attempt = a
         \/ flight' = [flight EXCEPT ![a] = "refused"]
      /\ UNCHANGED <<now, pending, last_nonce, created_at, owner, spending, exchanges, overlapped>>
  BY DEF Exchange, Exchangeable, AttemptsSound
<1>2. PICK k \in Code, r \in [attempt : Attempt \cup {None}, used : BOOLEAN] :
        codes' = [codes EXCEPT ![k] = r] /\ r.attempt = codes[k].attempt
  <2>1. codes[spending[a]] \in [attempt : Attempt \cup {None}, used : BOOLEAN]
    BY <1>1 DEF TypeOK
  <2>2. [codes[spending[a]] EXCEPT !.used = TRUE] \in [attempt : Attempt \cup {None}, used : BOOLEAN]
    BY <2>1
  <2>3. [codes[spending[a]] EXCEPT !.used = TRUE].attempt = codes[spending[a]].attempt
    BY <2>1
  <2>4. codes = [codes EXCEPT ![spending[a]] = codes[spending[a]]]
    BY <1>1 DEF TypeOK
  <2>. QED BY <1>1, <2>1, <2>2, <2>3, <2>4
<1>3. /\ codes' \in [Code -> [attempt : Attempt \cup {None}, used : BOOLEAN]]
      /\ \A j \in Code : codes'[j].attempt = codes[j].attempt
  BY <1>2 DEF TypeOK
<1>4. flight' \in [Attempt -> Stage] /\ \A b \in Attempt : b # a => flight'[b] = flight[b]
  BY <1>1 DEF TypeOK, Stage
<1>5. flight'[a] \in {"validating", "refused"} /\ (flight'[a] = "validating" => codes[spending[a]].attempt = a)
  BY <1>1 DEF TypeOK
<1>6. TypeOK'
  BY <1>1, <1>3, <1>4 DEF TypeOK
<1>7. AttemptsSound'
  BY <1>1, <1>4, <1>5 DEF AttemptsSound, TypeOK
<1>8. OwnCode'
  BY <1>1, <1>3, <1>4, <1>5 DEF OwnCode, AttemptsSound
<1>9. NonceOfTheOne'
  BY <1>1, <1>4, <1>5 DEF NonceOfTheOne, InFlight
<1>. QED BY <1>6, <1>7, <1>8, <1>9

LEMMA ValidateKeeps ==
  ASSUME LoginInv, NEW a \in Attempt, ValidateIdToken(a)
  PROVE  LoginInv'
<1>. USE DEF LoginInv
<1>1. /\ flight[a] = "validating"
      /\ flight' = [flight EXCEPT ![a] = "logged_in"] \/ flight' = [flight EXCEPT ![a] = "refused"]
      /\ UNCHANGED <<now, pending, last_nonce, created_at, owner, spending, codes, exchanges, overlapped>>
  BY DEF ValidateIdToken
<1>2. flight' \in [Attempt -> Stage] /\ \A b \in Attempt : b # a => flight'[b] = flight[b]
  BY <1>1 DEF TypeOK, Stage
<1>3. flight'[a] \in {"logged_in", "refused"}
  BY <1>1 DEF TypeOK
<1>4. TypeOK'
  BY <1>1, <1>2 DEF TypeOK
<1>5. AttemptsSound'
  BY <1>1, <1>2, <1>3 DEF AttemptsSound, TypeOK
<1>6. OwnCode' /\ NonceOfTheOne'
  BY <1>1, <1>2, <1>3 DEF OwnCode, NonceOfTheOne, InFlight
<1>. QED BY <1>4, <1>5, <1>6

LEMMA LoginStepKeeps == LoginInv /\ [Next]_vars => LoginInv'
<1>. SUFFICES ASSUME LoginInv, [Next]_vars PROVE LoginInv'
  OBVIOUS
<1>1. ASSUME NEW s \in Session, NEW a \in Attempt, Begin(s, a) PROVE LoginInv'
  BY <1>1, BeginKeeps
<1>2. ASSUME NEW c \in Code, NEW a \in Attempt, Authorize(c, a) PROVE LoginInv'
  BY <1>2, AuthorizeKeeps
<1>3. ASSUME NEW s \in Session, CallbackExpired(s) \/ CallbackError(s) PROVE LoginInv'
  BY <1>3, AbandonKeeps DEF CallbackExpired, CallbackError
<1>4. ASSUME NEW s \in Session, NEW a \in Attempt, NEW c \in Code, Callback(s, a, c) PROVE LoginInv'
  BY <1>4, CallbackKeeps
<1>5. ASSUME NEW a \in Attempt, Exchange(a) \/ ValidateIdToken(a) PROVE LoginInv'
  BY <1>5, ExchangeKeeps, ValidateKeeps
<1>6. CASE Tick \/ UNCHANGED vars
  BY <1>6 DEF Tick, vars, LoginInv, TypeOK, AttemptsSound, OwnCode, NonceOfTheOne, InFlight
<1>. QED BY <1>1, <1>2, <1>3, <1>4, <1>5, <1>6 DEF Next

\* Sessions, attempts and codes keep their types, and a session's attempt is its own.
THEOREM LoginTypeCorrect == Spec => []TypeOK
<1>1. LoginInv => TypeOK
  BY DEF LoginInv
<1>. QED BY LoginInitially, LoginStepKeeps, <1>1, PTL DEF Spec

\* A session is logged in only by a code that was issued for its own attempt, whose PKCE
\* verifier is sent once, whatever callbacks come back, in whatever order.
THEOREM LoginsAreOwn == Spec => []LoginFromOwnAttempt
<1>1. LoginInv => LoginFromOwnAttempt
  BY DEF LoginInv, AttemptsSound, OwnCode, LoginFromOwnAttempt
<1>. QED BY LoginInitially, LoginStepKeeps, <1>1, PTL DEF Spec

\* While one login at a time is past its callback, the nonce of the session's own attempt
\* passes the check against the shared client's last nonce.
THEOREM OwnNonceAccepted == Spec => OwnNonceAcceptedSerially
<1>1. LoginInv /\ [Next]_vars =>
        [\A a \in Attempt : ~overlapped /\ ValidateIdToken(a) /\ Nonce(a) = a => flight'[a] = "logged_in"]_vars
  BY DEF LoginInv, TypeOK, NonceOfTheOne, InFlight, ValidateIdToken, NonceMatches
<1>. QED BY LoginInitially, LoginStepKeeps, <1>1, PTL DEF Spec, OwnNonceAcceptedSerially

(***************************************************************************)
(* SAML.                                                                   *)
(***************************************************************************)

\* An assertion's times are those of its issue, read on the identity provider's clock,
\* and it answers a request that was made.
TimesOfIssue ==
  \A a \in DOMAIN assertions :
    /\ assertions[a].in_response_to \in requested
    /\ assertions[a].not_before = assertions[a].issued_at + ahead - Backdate
    /\ assertions[a].not_on_or_after = assertions[a].issued_at + ahead + AssertionLifetime

\* A request that may still be answered has not been, and none is answered twice.
PendingUnanswered ==
  /\ \A r \in RequestId : logins[r] \in {0, 1}
  /\ \A r \in RequestId : r \in DOMAIN sp_pending \/ r \notin requested => logins[r] = 0

\* An assertion that is remembered answers no pending request.
ConsumedAnswered ==
  \A a \in DOMAIN consumed : assertions[a].in_response_to \notin DOMAIN sp_pending

SamlInv == SamlTypeOK /\ TimesOfIssue /\ PendingUnanswered /\ ConsumedAnswered

LEMMA SamlInitially == SamlInit => SamlInv
<1>. SUFFICES ASSUME SamlInit PROVE SamlInv
  OBVIOUS
<1>1. /\ sp_pending = <<>> /\ consumed = <<>> /\ assertions = <<>> /\ requested = {}
      /\ sp_now = 0 /\ ahead \in IdPAhead /\ logins = [r \in RequestId |-> 0]
  BY DEF SamlInit
<1>2. DOMAIN sp_pending = {} /\ DOMAIN consumed = {} /\ DOMAIN assertions = {}
  BY <1>1
<1>3. /\ sp_pending \in [DOMAIN sp_pending -> Nat] /\ consumed \in [DOMAIN consumed -> Int]
      /\ assertions \in [DOMAIN assertions -> Assertion]
  BY <1>1, <1>2
<1>4. SamlTypeOK
  BY <1>1, <1>2, <1>3 DEF SamlTypeOK
<1>. QED
  BY <1>1, <1>2, <1>4 DEF SamlInv, TimesOfIssue, PendingUnanswered, ConsumedAnswered

LEMMA BuildAuthnRequestKeeps ==
  ASSUME SamlInv, NEW r \in RequestId, BuildAuthnRequest(r)
  PROVE  SamlInv'
<1>. USE DEF SamlInv
<1>1. /\ r \notin requested /\ requested' = requested \cup {r}
      /\ UNCHANGED <<sp_now, ahead, consumed, assertions, logins>>
      /\ DOMAIN sp_pending' = DOMAIN sp_pending \cup {r}
      /\ sp_pending'[r] = sp_now
      /\ \A q \in DOMAIN sp_pending : q # r => sp_pending'[q] = sp_pending[q]
      /\ sp_pending' = [q \in DOMAIN sp_pending' |-> sp_pending'[q]]
  BY DEF BuildAuthnRequest, Put
<1>2. SamlTypeOK'
  <2>1. \A q \in DOMAIN sp_pending' : sp_pending'[q] \in Nat
    BY <1>1 DEF SamlTypeOK
  <2>2. sp_pending' \in [DOMAIN sp_pending' -> Nat]
    BY <1>1, <2>1
  <2>. QED BY <1>1, <2>2 DEF SamlTypeOK
<1>3. TimesOfIssue' /\ ConsumedAnswered'
  BY <1>1 DEF TimesOfIssue, ConsumedAnswered, SamlTypeOK
<1>4. PendingUnanswered'
  BY <1>1 DEF PendingUnanswered
<1>. QED BY <1>2, <1>3, <1>4

LEMMA BuildResponseKeeps ==
  ASSUME SamlInv, NEW r \in RequestId, NEW a \in AssertionId, NEW addressed \in BOOLEAN,
         BuildResponse(r, a, addressed)
  PROVE  SamlInv'
<1>. USE DEF SamlInv
<1>. DEFINE assertion == Issued(r, addressed)
<1>1. /\ assertion \in Assertion /\ assertion.in_response_to = r
      /\ assertion.not_before = assertion.issued_at + ahead - Backdate
      /\ assertion.not_on_or_after = assertion.issued_at + ahead + AssertionLifetime
  BY SAMLAssumption DEF Issued, Assertion, SamlTypeOK
<1>2. assertions' = Put(assertions, a, assertion)
  BY DEF BuildResponse
<1>. HIDE DEF assertion
<1>3. /\ r \in requested /\ a \notin DOMAIN assertions
      /\ UNCHANGED <<sp_now, ahead, sp_pending, consumed, requested, logins>>
      /\ DOMAIN assertions' = DOMAIN assertions \cup {a}
      /\ assertions'[a] = assertion
      /\ \A b \in DOMAIN assertions : b # a => assertions'[b] = assertions[b]
      /\ assertions' = [b \in DOMAIN assertions' |-> assertions'[b]]
  BY <1>2 DEF BuildResponse, Put
<1>4. SamlTypeOK'
  <2>1. \A b \in DOMAIN assertions' : assertions'[b] \in Assertion
    BY <1>1, <1>3 DEF SamlTypeOK
  <2>2. assertions' \in [DOMAIN assertions' -> Assertion]
    BY <1>3, <2>1
  <2>. QED BY <1>3, <2>2 DEF SamlTypeOK
<1>5. TimesOfIssue'
  BY <1>1, <1>3 DEF TimesOfIssue
<1>6. PendingUnanswered' /\ ConsumedAnswered'
  BY <1>3 DEF PendingUnanswered, ConsumedAnswered, SamlTypeOK
<1>. QED BY <1>4, <1>5, <1>6

LEMMA ConsumeResponseKeeps ==
  ASSUME SamlInv, NEW a \in DOMAIN assertions, ConsumeResponse(a)
  PROVE  SamlInv' /\ RequestOnce!Next
<1>. USE DEF SamlInv
<1>. DEFINE r == assertions[a].in_response_to
<1>1. r \in RequestId /\ assertions[a].not_on_or_after \in Int /\ a \in AssertionId
  BY DEF SamlTypeOK, Assertion
<1>2. r \in DOMAIN sp_pending /\ logins[r] = 0
  BY <1>1 DEF ConsumeResponse, Acceptable, Answers, PendingUnanswered
<1>3. /\ UNCHANGED <<sp_now, ahead, requested, assertions>>
      /\ logins' = [logins EXCEPT ![r] = 1]
      /\ DOMAIN sp_pending' = DOMAIN sp_pending \ {r}
      /\ sp_pending' \in [DOMAIN sp_pending' -> Nat]
  BY <1>1, <1>2 DEF ConsumeResponse, Del, SamlTypeOK
<1>4. /\ DOMAIN Purged \subseteq DOMAIN consumed
      /\ \A b \in DOMAIN Purged : Purged[b] \in Int
  BY DEF Purged, SamlTypeOK
<1>5. consumed' = Put(Purged, a, assertions[a].not_on_or_after)
  BY DEF ConsumeResponse
<1>6. /\ DOMAIN consumed' \subseteq DOMAIN consumed \cup {a}
      /\ consumed' \in [DOMAIN consumed' -> Int]
  BY <1>1, <1>4, <1>5 DEF Put
<1>7. SamlTypeOK'
  BY <1>3, <1>6 DEF SamlTypeOK
<1>8. PendingUnanswered' /\ TimesOfIssue' /\ ConsumedAnswered'
  BY <1>1, <1>2, <1>3, <1>6 DEF PendingUnanswered, TimesOfIssue, ConsumedAnswered, SamlTypeOK
<1>9. RequestOnce!Next
  BY <1>1, <1>2, <1>3 DEF RequestOnce!Next, RequestOnce!Accept
<1>. QED BY <1>7, <1>8, <1>9

LEMMA RefuseOverdueKeeps ==
  ASSUME SamlInv, NEW a \in DOMAIN assertions, RefuseOverdue(a)
  PROVE  SamlInv'
<1>. USE DEF SamlInv
<1>1. /\ UNCHANGED <<sp_now, ahead, consumed, requested, assertions, logins>>
      /\ DOMAIN sp_pending' \subseteq DOMAIN sp_pending
      /\ sp_pending' \in [DOMAIN sp_pending' -> Nat]
  BY DEF RefuseOverdue, Del, SamlTypeOK
<1>. QED
  BY <1>1 DEF SamlTypeOK, PendingUnanswered, TimesOfIssue, ConsumedAnswered

\* Every step answers one request for the first time, or none.
LEMMA SamlStepKeeps == SamlInv /\ [SamlNext]_samlVars => SamlInv' /\ [RequestOnce!Next]_logins
<1>. SUFFICES ASSUME SamlInv, [SamlNext]_samlVars PROVE SamlInv' /\ [RequestOnce!Next]_logins
  OBVIOUS
<1>1. ASSUME NEW r \in RequestId, BuildAuthnRequest(r) PROVE SamlInv' /\ UNCHANGED logins
  BY <1>1, BuildAuthnRequestKeeps DEF BuildAuthnRequest
<1>2. ASSUME NEW r \in RequestId, NEW a \in AssertionId, NEW addressed \in BOOLEAN,
             BuildResponse(r, a, addressed)
      PROVE  SamlInv' /\ UNCHANGED logins
  BY <1>2, BuildResponseKeeps DEF BuildResponse
<1>3. ASSUME NEW a \in DOMAIN assertions, ConsumeResponse(a) PROVE SamlInv' /\ RequestOnce!Next
  BY <1>3, ConsumeResponseKeeps
<1>4. ASSUME NEW a \in DOMAIN assertions, RefuseOverdue(a) PROVE SamlInv' /\ UNCHANGED logins
  BY <1>4, RefuseOverdueKeeps DEF RefuseOverdue
<1>5. CASE SamlTick \/ UNCHANGED samlVars
  BY <1>5 DEF SamlTick, samlVars, SamlInv, SamlTypeOK, PendingUnanswered, TimesOfIssue, ConsumedAnswered
<1>. QED BY <1>1, <1>2, <1>3, <1>4, <1>5 DEF SamlNext

\* What an assertion says, what is pending and what is remembered keep their types.
THEOREM SamlTypeCorrect == SamlSpec => []SamlTypeOK
<1>1. SamlInv => SamlTypeOK
  BY DEF SamlInv
<1>. QED BY SamlInitially, SamlStepKeeps, <1>1, PTL DEF SamlSpec

\* Within the clock tolerances a response that comes at once and for the first time is
\* accepted, whatever was consumed, purged or refused before.
THEOREM PromptResponses == SamlSpec => []PromptResponseAccepted
<1>1. ASSUME SamlInv PROVE PromptResponseAccepted
  <2>1. SUFFICES ASSUME NEW a \in DOMAIN assertions,
                        ahead <= Leeway + Backdate, ahead + AssertionLifetime + Leeway > 0,
                        assertions[a].issued_at = sp_now, assertions[a].addressed,
                        assertions[a].in_response_to \in DOMAIN sp_pending,
                        sp_now - sp_pending[assertions[a].in_response_to] <= RequestTTL
                 PROVE  Acceptable(a)
    BY DEF PromptResponseAccepted
  <2>2. sp_now \in Nat /\ ahead \in Int /\ Leeway \in Nat /\ Backdate \in Nat
        /\ AssertionLifetime \in Nat /\ RequestTTL \in Nat
        /\ sp_pending[assertions[a].in_response_to] \in Nat
    BY <1>1, <2>1, SAMLAssumption DEF SamlInv, SamlTypeOK
  <2>3. WithinConditions(a)
    BY <1>1, <2>1, <2>2 DEF SamlInv, TimesOfIssue, WithinConditions
  <2>4. a \notin DOMAIN Purged
    BY <1>1, <2>1 DEF SamlInv, ConsumedAnswered, Purged
  <2>. QED BY <2>1, <2>2, <2>3, <2>4 DEF Acceptable, Answers, Overdue
<1>. QED BY SamlInitially, SamlStepKeeps, <1>1, PTL DEF SamlSpec

\* The service provider implements one-time use of its requests: an AuthnRequest yields
\* one login, however many assertions answer it and however often they are replayed.
THEOREM SamlRefinement == SamlSpec => RequestAnsweredOnce
<1>1. SamlInit => RequestOnce!Init
  BY DEF SamlInit, RequestOnce!Init
<1>. QED BY SamlInitially, SamlStepKeeps, <1>1, PTL DEF SamlSpec, RequestAnsweredOnce, RequestOnce!Spec

(***************************************************************************)
(* The second factor.                                                      *)
(***************************************************************************)

OtpSpec == OtpInit /\ [][OtpNext]_otpVars

OtpType ==
  /\ current \in 0..MaxStep
  /\ last_step \in TimeStep \cup {-1}
  /\ used \subseteq DOMAIN Recovery
  /\ step_uses \in [TimeStep -> Nat]
  /\ DOMAIN spent = Typed

(* last_step has passed every step that let the user in, and a recovery code has let the *)
(* user in once for each burned slot of it.                                              *)
OtpInv ==
  /\ OtpType
  /\ \A t \in TimeStep : step_uses[t] > 0 => t <= last_step
  /\ \A c \in Typed : spent[c] = Cardinality(Slots(c) \cap used)

(***************************************************************************)
(* The two loops find what they look for: a set of numbers has a least     *)
(* member.                                                                 *)
(***************************************************************************)
LEMMA LeastExists ==
  ASSUME NEW S \in SUBSET Nat, S # {}
  PROVE  LET m == CHOOSE s \in S : \A t \in S : s <= t IN m \in S /\ \A t \in S : m <= t
<1>1. \E s \in S : \A t \in S : ~ (<<t, s>> \in OpToRel(<, Nat))
  BY WFMin, NatLessThanWellFounded, Zenon
<1>2. \A s, t \in S : ~ (<<t, s>> \in OpToRel(<, Nat)) => s <= t
  BY DEF OpToRel
<1>3. QED BY <1>1, <1>2

LEMMA FirstMatchMatches ==
  ASSUME OtpType, NEW code \in Typed, Matching(code) # {}
  PROVE  FirstMatch(code) \in Matching(code) /\ FirstMatch(code) \in TimeStep
<1>1. Matching(code) \in SUBSET Nat
  BY OneTimePasswordsAssumption DEF Matching, InWindow, OtpType
<1>2. FirstMatch(code) \in Matching(code)
  BY <1>1, LeastExists DEF FirstMatch
<1>3. Matching(code) \subseteq TimeStep
  BY OneTimePasswordsAssumption DEF Matching, InWindow, OtpType, TimeStep
<1>4. QED BY <1>2, <1>3

LEMMA SlotsFinite ==
  \A c : Slots(c) \in SUBSET Nat /\ IsFiniteSet(Slots(c)) /\ Slots(c) \subseteq DOMAIN Recovery
<1>1. Len(Recovery) \in Nat /\ DOMAIN Recovery = 1..Len(Recovery)
  BY OneTimePasswordsAssumption
<1>2. IsFiniteSet(1..Len(Recovery))
  BY <1>1, FS_Interval
<1>3. QED BY <1>1, <1>2, FS_Subset DEF Slots

(***************************************************************************)
(* consume() burns one slot of the code that was typed, and of no other.   *)
(***************************************************************************)
LEMMA BurnBurnsOne ==
  ASSUME NEW code, Slots(code) \ used # {}, Burn(code)
  PROVE  \E i \in Slots(code) \ used : used' = used \cup {i}
<1>1. Slots(code) \ used \in SUBSET Nat
  BY SlotsFinite
<1>2. QED BY <1>1, LeastExists DEF Burn

LEMMA CountsAfterBurn ==
  ASSUME NEW code, NEW c, NEW i \in Slots(code) \ used, used' = used \cup {i}
  PROVE  Cardinality(Slots(c) \cap used') =
           Cardinality(Slots(c) \cap used) + (IF c = code THEN 1 ELSE 0)
<1>1. IsFiniteSet(Slots(c) \cap used)
  BY SlotsFinite, FS_Intersection
<1>2. CASE c = code
  <2>1. Slots(c) \cap used' = (Slots(c) \cap used) \cup {i} /\ i \notin Slots(c) \cap used
    BY <1>2
  <2>2. QED BY <1>1, <1>2, <2>1, FS_AddElement
<1>3. CASE c # code
  <2>1. Slots(c) \cap used' = Slots(c) \cap used
    BY <1>3 DEF Slots
  <2>2. Cardinality(Slots(c) \cap used) \in Nat
    BY <1>1, FS_CardinalityType
  <2>3. QED BY <1>3, <2>1, <2>2
<1>4. QED BY <1>2, <1>3

LEMMA OtpInitially == OtpInit => OtpInv
<1> SUFFICES ASSUME OtpInit PROVE OtpInv
  OBVIOUS
<1>1. OtpType
  BY OneTimePasswordsAssumption DEF OtpInit, OtpType
<1>2. \A c \in Typed : Cardinality(Slots(c) \cap used) = 0
  BY FS_EmptySet DEF OtpInit
<1>3. QED BY <1>1, <1>2 DEF OtpInit, OtpInv

(***************************************************************************)
(* Each step keeps the invariant and is what the property allows.          *)
(***************************************************************************)
Allowed ==
  /\ \A s, t \in TimeStep : step_uses'[s] > step_uses[s] /\ step_uses[t] > 0 => t < s
  /\ \A c \in Typed : spent'[c] = Cardinality(Slots(c) \cap used')

LEMMA VerifyKeeps ==
  ASSUME OtpInv, NEW code \in Typed, VerifyTotp(code)
  PROVE  OtpInv' /\ Allowed
<1> DEFINE m == FirstMatch(code)
<1>1. m \in TimeStep /\ m > last_step /\ last_step' = m
  BY FirstMatchMatches DEF OtpInv, VerifyTotp, TotpAccepts, NotBurned
<1>2. /\ step_uses' = [step_uses EXCEPT ![m] = @ + 1]
      /\ UNCHANGED <<current, used, spent>>
  BY DEF VerifyTotp
<1>3. TimeStep \subseteq Int /\ last_step \in Int
  BY OneTimePasswordsAssumption DEF TimeStep, OtpInv, OtpType
<1> HIDE DEF m
<1>4. OtpType'
  BY <1>1, <1>2 DEF OtpInv, OtpType
<1>5. \A t \in TimeStep : step_uses'[t] > 0 => t <= last_step'
  BY <1>1, <1>2, <1>3 DEF OtpInv, OtpType
<1>6. \A s, t \in TimeStep : step_uses'[s] > step_uses[s] /\ step_uses[t] > 0 => t < s
  BY <1>1, <1>2, <1>3 DEF OtpInv, OtpType
<1>7. QED BY <1>2, <1>4, <1>5, <1>6 DEF OtpInv, Allowed, Slots

LEMMA ConsumeKeeps ==
  ASSUME OtpInv, NEW code \in Typed, Consume(code)
  PROVE  OtpInv' /\ Allowed
<1>1. PICK i \in Slots(code) \ used : used' = used \cup {i}
  BY BurnBurnsOne DEF Consume
<1>2. /\ spent' = [spent EXCEPT ![code] = @ + 1]
      /\ UNCHANGED <<current, last_step, step_uses>>
  BY DEF Consume
<1>3. \A c \in Typed : Cardinality(Slots(c) \cap used) \in Nat
  BY SlotsFinite, FS_Intersection, FS_CardinalityType
<1>4. ASSUME NEW c \in Typed
      PROVE  Cardinality(Slots(c) \cap used') =
               Cardinality(Slots(c) \cap used) + (IF c = code THEN 1 ELSE 0)
  BY <1>1, CountsAfterBurn
<1>5. \A c \in Typed : spent'[c] = Cardinality(Slots(c) \cap used')
  <2>1. SUFFICES ASSUME NEW c \in Typed PROVE spent'[c] = Cardinality(Slots(c) \cap used')
    OBVIOUS
  <2>2. spent[c] = Cardinality(Slots(c) \cap used) /\ spent[c] \in Nat
    BY <1>3 DEF OtpInv
  <2>3. spent'[c] = IF c = code THEN spent[c] + 1 ELSE spent[c]
    BY <1>2 DEF OtpInv, OtpType
  <2>4. QED BY <1>4, <2>2, <2>3
<1>6. OtpType'
  BY <1>1, <1>2, SlotsFinite DEF OtpInv, OtpType
<1>7. QED BY <1>2, <1>5, <1>6 DEF OtpInv, Allowed, OtpType, Slots

LEMMA OtpStepKeeps == OtpInv /\ [OtpNext]_otpVars => OtpInv' /\ (Allowed \/ UNCHANGED otpVars)
<1> SUFFICES ASSUME OtpInv, [OtpNext]_otpVars PROVE OtpInv' /\ (Allowed \/ UNCHANGED otpVars)
  OBVIOUS
<1>1. CASE NextStep
  BY <1>1, OneTimePasswordsAssumption DEF NextStep, OtpInv, OtpType, Allowed, Slots
<1>2. ASSUME NEW code \in Typed, VerifyTotp(code) PROVE OtpInv' /\ Allowed
  BY <1>2, VerifyKeeps
<1>3. ASSUME NEW code \in Typed, Consume(code) PROVE OtpInv' /\ Allowed
  BY <1>3, ConsumeKeeps
<1>4. CASE UNCHANGED otpVars
  BY <1>4 DEF otpVars, OtpInv, OtpType, Slots
<1>5. QED BY <1>1, <1>2, <1>3, <1>4 DEF OtpNext

\* No step of TOTP.verify lets a user in at or below a step that has let her in before, and
\* RecoveryCodes.consume admits a code once for every slot that holds it (totp.py:141,
\* recovery.py), whatever the codes are and however often they coincide.
THEOREM FactorsAreSpent == OtpSpec => FactorsSpentByUse
<1>1. OtpInv /\ [OtpNext]_otpVars => [Allowed]_otpVars
  BY OtpStepKeeps
<1>2. QED BY OtpInitially, OtpStepKeeps, <1>1, PTL DEF OtpSpec, FactorsSpentByUse, Allowed
----------------------------------------------------------------------------
(* Passwords: an old hash verifies with its own settings.                  *)

PasswordSpec == PasswordInit /\ [][PasswordNext]_passwordVars

\* A hash of this hasher for the password w under the pepper k.
OwnHash(p, salt, w, k) == Encode(p, salt, Derive(p, <<w, k>>, salt))

\* A stored string is a hash of the password that was chosen last, or imported.
FromChoice(encoded, choice) ==
  /\ choice = [password |-> choice.password, pepper |-> choice.pepper]
  /\ \/ encoded \in Foreign /\ choice.password = ""
     \/ \E p \in Settings : encoded = OwnHash(p, "salt", choice.password, choice.pepper)

HashesSound ==
  /\ DOMAIN chosen = DOMAIN stored
  /\ \A account \in DOMAIN stored : FromChoice(stored[account], chosen[account])

PasswordInv == hasher.params \in Settings /\ HashesSound

\* What parse_hash() finds in a hash that was written with settings p.
Reads(parsed, p, salt, digest) ==
  /\ parsed.ok /\ parsed.algorithm = p.name /\ parsed.version = p.version
  /\ parsed.params = p.cost /\ parsed.salt = salt /\ parsed.digest = digest

\* parse_hash() reads back what encode() wrote.
LEMMA ParseEncode ==
  ASSUME NEW p \in Settings, NEW salt, NEW digest
  PROVE  Reads(parse_hash(Encode(p, salt, digest)), p, salt, digest)
<1>. DEFINE A == Field("algorithm", p.name)
            V == Field("v", p.version)
            C == Field("params", p.cost)
            S == Field("salt", salt)
            D == Field("digest", digest)
            encoded == Encode(p, salt, digest)
<1>1. /\ A.value = p.name /\ V.value = p.version /\ C.value = p.cost /\ S.value = salt /\ D.value = digest
      /\ V.kind = "v"
  BY DEF Field
<1>2. CASE p.version = 0
  <2>1. encoded = <<A, C, S, D>>
    BY <1>2 DEF Encode
  <2>. HIDE DEF A, V, C, S, D, encoded
  <2>2. /\ Len(encoded) = 4 /\ Len(encoded) # 5
        /\ encoded[1].value = p.name /\ encoded[2].value = p.cost
        /\ encoded[3].value = salt /\ encoded[4].value = digest
    BY <1>1, <2>1
  <2>3. parse_hash(encoded) =
          [ok |-> TRUE, algorithm |-> encoded[1].value, version |-> 0, params |-> encoded[2].value,
           salt |-> encoded[3].value, digest |-> encoded[4].value]
    <3>1. parse_hash(encoded) =
            [ok |-> TRUE, algorithm |-> encoded[1].value, version |-> 0, params |-> encoded[2].value,
             salt |-> encoded[2 + 1].value, digest |-> encoded[2 + 2].value]
      BY <2>2, Zenon DEF parse_hash
    <3>. QED BY <3>1
  <2>4. Reads(parse_hash(encoded), p, salt, digest)
    BY <1>2, <2>2, <2>3 DEF Reads
  <2>. QED BY <2>4 DEF encoded
<1>3. CASE p.version # 0
  <2>1. encoded = <<A, V, C, S, D>>
    BY <1>3 DEF Encode
  <2>. HIDE DEF A, V, C, S, D, encoded
  <2>2. /\ Len(encoded) = 5
        /\ encoded[1].value = p.name /\ encoded[2].kind = "v" /\ encoded[2].value = p.version
        /\ encoded[3].value = p.cost /\ encoded[4].value = salt /\ encoded[5].value = digest
    BY <1>1, <2>1
  <2>3. encoded[1].value \in Argon2Variant
    BY <1>3, <2>2, PasswordsAssumption
  <2>4. parse_hash(encoded) =
          [ok |-> TRUE, algorithm |-> encoded[1].value, version |-> encoded[2].value,
           params |-> encoded[3].value, salt |-> encoded[4].value, digest |-> encoded[5].value]
    <3>1. parse_hash(encoded) =
            [ok |-> TRUE, algorithm |-> encoded[1].value, version |-> encoded[2].value,
             params |-> encoded[3].value, salt |-> encoded[3 + 1].value, digest |-> encoded[3 + 2].value]
      BY <2>2, <2>3, Zenon DEF parse_hash
    <3>. QED BY <3>1
  <2>5. Reads(parse_hash(encoded), p, salt, digest)
    BY <2>2, <2>4 DEF Reads
  <2>. QED BY <2>5 DEF encoded
<1>. QED BY <1>2, <1>3

\* verify() derives with the settings that the hash was written with.
LEMMA WorkOfOwn ==
  ASSUME NEW p \in Settings, NEW salt, NEW w, NEW k
  PROVE  Work(OwnHash(p, salt, w, k)) = {p}
<1>. DEFINE digest == Derive(p, <<w, k>>, salt)
            parsed == parse_hash(Encode(p, salt, digest))
<1>1. digest.with = p
  BY DEF Derive
<1>. HIDE DEF digest
<1>2. Reads(parsed, p, salt, digest)
  BY ParseEncode
<1>. HIDE DEF parsed
<1>3. ParamsKnown(parsed)
  BY <1>2, PasswordsAssumption DEF Reads, ParamsKnown
<1>4. ParamsOf(parsed) = p
  BY <1>1, <1>2, PasswordsAssumption DEF Reads, ParamsOf
<1>5. Work(OwnHash(p, salt, w, k)) = {ParamsOf(parsed)}
  BY <1>2, <1>3 DEF Reads, Work, OwnHash, parsed, digest
<1>. QED BY <1>4, <1>5

\* A hash verifies with its password and its pepper, where its settings can be run.
LEMMA VerifyOwn ==
  ASSUME NEW p \in Settings, NEW w, NEW k, NEW typed
  PROVE  verify(typed, OwnHash(p, "salt", w, k)) <=>
           Derivable(p) /\ Nfkc[typed] = w /\ hasher.pepper = k
<1>. DEFINE digest == Derive(p, <<w, k>>, "salt")
            parsed == parse_hash(Encode(p, "salt", digest))
<1>1. parsed.salt = "salt" /\ parsed.digest = digest
  BY ParseEncode DEF Reads
<1>2. Work(Encode(p, "salt", digest)) = {p}
  BY WorkOfOwn DEF OwnHash
<1>3. Derive(p, Prepare(typed), "salt") = digest <=> Nfkc[typed] = w /\ hasher.pepper = k
  BY DEF Derive, Prepare
<1>. HIDE DEF digest
<1>4. verify(typed, Encode(p, "salt", digest)) <=> Derivable(p) /\ Derive(p, Prepare(typed), "salt") = digest
  BY <1>1, <1>2 DEF verify
<1>. QED BY <1>3, <1>4 DEF OwnHash, digest

\* A hash needs no upgrade exactly where its name, version and cost are those of the settings.
LEMMA RehashOfOwn ==
  ASSUME NEW p \in Settings, NEW w, NEW k
  PROVE  needs_rehash(OwnHash(p, "salt", w, k)) <=>
           \/ p.name # hasher.params.name \/ p.version # hasher.params.version
           \/ p.cost # hasher.params.cost
<1>1. Reads(parse_hash(OwnHash(p, "salt", w, k)), p, "salt", Derive(p, <<w, k>>, "salt"))
  BY ParseEncode DEF OwnHash
<1>. QED BY <1>1 DEF Reads, needs_rehash

\* A string with nothing to derive needs an upgrade.
LEMMA RehashOfForeign ==
  ASSUME NEW encoded, Work(encoded) = {}, hasher.params \in Settings
  PROVE  needs_rehash(encoded)
<1>. DEFINE parsed == parse_hash(encoded)
<1>1. ~parsed.ok \/ ~ParamsKnown(parsed)
  BY DEF Work
<1>. HIDE DEF parsed
<1>2. ASSUME parsed.algorithm = hasher.params.name, parsed.version = hasher.params.version
      PROVE  ParamsKnown(parsed)
  BY <1>2, PasswordsAssumption DEF ParamsKnown
<1>. QED BY <1>1, <1>2 DEF needs_rehash, parsed

\* What hash() returns, in the words of the invariant.
LEMMA HashIsOwn ==
  ASSUME NEW typed
  PROVE  hash(typed) = OwnHash(hasher.params, "salt", Nfkc[typed], hasher.pepper)
BY DEF hash, OwnHash, Prepare

\* A record of two fields is told by its fields.
LEMMA SameChoice ==
  ASSUME NEW choice, choice = [password |-> choice.password, pepper |-> choice.pepper], NEW w, NEW k
  PROVE  choice = [password |-> w, pepper |-> k] <=> choice.password = w /\ choice.pepper = k
OBVIOUS

LEMMA StoreKeeps ==
  ASSUME PasswordInv, NEW account, NEW typed, Store(account, typed)
  PROVE  PasswordInv'
<1>. DEFINE own == hash(typed)
            choice == [password |-> Nfkc[typed], pepper |-> hasher.pepper]
<1>1. own = OwnHash(hasher.params, "salt", choice.password, choice.pepper)
  BY HashIsOwn
<1>2. choice = [password |-> choice.password, pepper |-> choice.pepper]
  OBVIOUS
<1>3. /\ stored' = Assigned(stored, account, own) /\ chosen' = Assigned(chosen, account, choice)
      /\ hasher' = hasher
  BY DEF Store
<1>. HIDE DEF own, choice
<1>4. DOMAIN chosen' = DOMAIN stored'
  BY <1>3 DEF Assigned, PasswordInv, HashesSound
<1>5. ASSUME NEW other \in DOMAIN stored'
      PROVE  FromChoice(stored'[other], chosen'[other])
  <2>1. CASE other = account
    <3>1. stored'[other] = own /\ chosen'[other] = choice
      BY <1>3, <2>1 DEF Assigned
    <3>. QED BY <1>1, <1>2, <3>1 DEF PasswordInv, FromChoice
  <2>2. CASE other # account
    <3>1. other \in DOMAIN stored /\ stored'[other] = stored[other] /\ chosen'[other] = chosen[other]
      BY <1>3, <2>2 DEF Assigned, PasswordInv, HashesSound
    <3>. QED BY <3>1 DEF PasswordInv, HashesSound
  <2>. QED BY <2>1, <2>2
<1>. QED BY <1>3, <1>4, <1>5 DEF PasswordInv, HashesSound

LEMMA ImportKeeps ==
  ASSUME PasswordInv, NEW account, NEW encoded \in Foreign, Import(account, encoded)
  PROVE  PasswordInv'
<1>. DEFINE choice == [password |-> "", pepper |-> ""]
<1>2. choice = [password |-> choice.password, pepper |-> choice.pepper] /\ choice.password = ""
  OBVIOUS
<1>3. /\ stored' = Assigned(stored, account, encoded) /\ chosen' = Assigned(chosen, account, choice)
      /\ hasher' = hasher
  BY DEF Import
<1>. HIDE DEF choice
<1>4. DOMAIN chosen' = DOMAIN stored'
  BY <1>3 DEF Assigned, PasswordInv, HashesSound
<1>5. ASSUME NEW other \in DOMAIN stored'
      PROVE  FromChoice(stored'[other], chosen'[other])
  <2>1. CASE other = account
    <3>1. stored'[other] = encoded /\ chosen'[other] = choice
      BY <1>3, <2>1 DEF Assigned
    <3>. QED BY <1>2, <3>1 DEF FromChoice
  <2>2. CASE other # account
    <3>1. other \in DOMAIN stored /\ stored'[other] = stored[other] /\ chosen'[other] = chosen[other]
      BY <1>3, <2>2 DEF Assigned, PasswordInv, HashesSound
    <3>. QED BY <3>1 DEF PasswordInv, HashesSound
  <2>. QED BY <2>1, <2>2
<1>. QED BY <1>3, <1>4, <1>5 DEF PasswordInv, HashesSound

LEMMA PasswordInitInv == PasswordInit => PasswordInv
<1>. SUFFICES ASSUME PasswordInit PROVE PasswordInv
  OBVIOUS
<1>1. hasher.params \in Settings
  <2>1. DefaultParams \in Settings
    BY PasswordsAssumption
  <2>. QED BY <2>1 DEF PasswordInit
<1>2. stored = <<>> /\ chosen = <<>>
  BY DEF PasswordInit
<1>3. DOMAIN stored = {} /\ DOMAIN chosen = {}
  BY <1>2
<1>. QED BY <1>1, <1>3 DEF PasswordInv, HashesSound

LEMMA PasswordStep == PasswordInv /\ [PasswordNext]_passwordVars => PasswordInv'
<1>. SUFFICES ASSUME PasswordInv, [PasswordNext]_passwordVars PROVE PasswordInv'
  OBVIOUS
<1>1. ASSUME NEW account \in Account, NEW typed \in Spelling,
             SetPassword(account, typed) \/ Login(account, typed)
      PROVE  PasswordInv'
  BY <1>1, StoreKeeps DEF SetPassword, Login
<1>2. ASSUME NEW account \in Account, NEW encoded \in Foreign, Import(account, encoded)
      PROVE  PasswordInv'
  BY <1>2, ImportKeeps
<1>3. ASSUME NEW params \in Settings, NEW pepper \in Pepper, NEW installed \in {"cffi", "pure"},
             Configure(params, pepper, installed)
      PROVE  PasswordInv'
  <2>1. hasher'.params = params /\ stored' = stored /\ chosen' = chosen
    BY <1>3 DEF Configure
  <2>. QED BY <2>1 DEF PasswordInv, HashesSound
<1>4. CASE UNCHANGED passwordVars
  BY <1>4 DEF passwordVars, PasswordInv, HashesSound
<1>. QED BY <1>1, <1>2, <1>3, <1>4 DEF PasswordNext

\* A stored hash, with the choice it was made from.
LEMMA StoredHash ==
  ASSUME PasswordInv, NEW account \in DOMAIN stored
  PROVE  \/ Work(stored[account]) = {} /\ chosen[account].password = ""
         \/ \E p \in Settings :
              /\ stored[account] =
                   OwnHash(p, "salt", chosen[account].password, chosen[account].pepper)
              /\ Work(stored[account]) = {p} /\ WrittenWith(account) = p
<1>1. CASE stored[account] \in Foreign /\ chosen[account].password = ""
  BY <1>1, PasswordsAssumption
<1>2. ASSUME NEW p \in Settings,
             stored[account] = OwnHash(p, "salt", chosen[account].password, chosen[account].pepper)
      PROVE  Work(stored[account]) = {p} /\ WrittenWith(account) = p
  <2>1. Work(stored[account]) = {p}
    BY <1>2, WorkOfOwn
  <2>2. \A q \in Settings : Work(stored[account]) = {q} => q = p
    BY <2>1
  <2>. QED BY <2>1, <2>2 DEF WrittenWith
<1>. QED BY <1>1, <1>2 DEF PasswordInv, HashesSound, FromChoice

LEMMA PasswordInvHashes == PasswordInv => HashesAgeWell
<1>. SUFFICES ASSUME PasswordInv PROVE HashesAgeWell
  OBVIOUS
<1>1. ASSUME NEW account \in DOMAIN stored, NEW typed \in Spelling
      PROVE  verify(typed, stored[account]) <=>
               /\ chosen[account] = [password |-> Nfkc[typed], pepper |-> hasher.pepper]
               /\ Derivable(WrittenWith(account))
  <2>. DEFINE choice == chosen[account]
  <2>1. choice = [password |-> choice.password, pepper |-> choice.pepper]
    BY DEF PasswordInv, HashesSound, FromChoice
  <2>2. CASE Work(stored[account]) = {} /\ choice.password = ""
    <3>1. ~verify(typed, stored[account])
      BY <2>2 DEF verify
    <3>2. choice # [password |-> Nfkc[typed], pepper |-> hasher.pepper]
      <4>1. Nfkc[typed] # ""
        BY PasswordsAssumption
      <4>. HIDE DEF choice
      <4>. QED BY <2>1, <2>2, <4>1, SameChoice
    <3>. QED BY <3>1, <3>2
  <2>3. ASSUME NEW p \in Settings, stored[account] = OwnHash(p, "salt", choice.password, choice.pepper),
               WrittenWith(account) = p
        PROVE  verify(typed, stored[account]) <=>
                 /\ choice = [password |-> Nfkc[typed], pepper |-> hasher.pepper]
                 /\ Derivable(WrittenWith(account))
    <3>1. verify(typed, stored[account]) <=>
            Derivable(p) /\ Nfkc[typed] = choice.password /\ hasher.pepper = choice.pepper
      BY <2>3, VerifyOwn
    <3>2. choice = [password |-> Nfkc[typed], pepper |-> hasher.pepper] <=>
            Nfkc[typed] = choice.password /\ hasher.pepper = choice.pepper
      BY <2>1, SameChoice
    <3>. QED BY <2>3, <3>1, <3>2
  <2>. QED BY <2>2, <2>3, StoredHash
<1>2. ASSUME NEW typed \in Spelling, Derivable(hasher.params)
      PROVE  verify(typed, hash(typed)) /\ ~needs_rehash(hash(typed))
  BY <1>2, HashIsOwn, VerifyOwn, RehashOfOwn DEF PasswordInv
<1>3. ASSUME NEW account \in DOMAIN stored, ~needs_rehash(stored[account]),
             WrittenWith(account).dklen = hasher.params.dklen
      PROVE  Work(dummy) = Work(stored[account])
  <2>1. Work(dummy) = {hasher.params}
    <3>1. dummy = OwnHash(hasher.params, "zeros", "zeros", "")
      BY DEF dummy, OwnHash
    <3>. QED BY <3>1, WorkOfOwn DEF PasswordInv
  <2>2. Work(stored[account]) # {}
    BY <1>3, RehashOfForeign DEF PasswordInv
  <2>3. PICK p \in Settings :
          /\ stored[account] = OwnHash(p, "salt", chosen[account].password, chosen[account].pepper)
          /\ Work(stored[account]) = {p} /\ WrittenWith(account) = p
    BY <2>2, StoredHash
  <2>4. p.name = hasher.params.name /\ p.version = hasher.params.version /\ p.cost = hasher.params.cost
    BY <1>3, <2>3, RehashOfOwn
  <2>5. p = hasher.params
    BY <1>3, <2>3, <2>4, PasswordsAssumption DEF PasswordInv
  <2>. QED BY <2>1, <2>3, <2>5
<1>. QED BY <1>1, <1>2, <1>3 DEF HashesAgeWell, LoginsSurviveUpgrades, UnknownUserCostsTheSame

\* Through any sequence of changed settings, peppers, backends and imported strings, a login
\* of hasher.py succeeds with the password that was chosen and with no other, an upgraded
\* hash is good and needs no further upgrade, and an unknown user costs what a known one does.
THEOREM HashesAge == PasswordSpec => []HashesAgeWell
<1>1. PasswordSpec => []PasswordInv
  BY PasswordInitInv, PasswordStep, PTL DEF PasswordSpec
<1>. QED BY <1>1, PasswordInvHashes, PTL

(***************************************************************************)
(* Argon2: the order in which argon2() fills its memory. Which block was   *)
(* filled when follows from the loops, and so what a step may refer to.    *)
(***************************************************************************)
\* One call of argon2(); the model states no fairness.
ArgonSpec == ArgonInit /\ [][ArgonNext]_argonVars

\* What is filled when lane ln has filled i blocks of slice s; block r of slice k of lane l.
FilledAt(s, ln, i, l, k, r) ==
  \/ k < s
  \/ k = s /\ (l < ln \/ (l = ln /\ r < i))

\* The slice, counted over all passes, in which that block was filled last
FillOf(p, s, ln, i, l, k, r) ==
  IF FilledAt(s, ln, i, l, k, r) THEN 4 * p + k
  ELSE IF p > 0 THEN 4 * p - 4 + k
  ELSE IF k = 0 /\ r < 2 THEN 0 ELSE -1

ContextSound ==
  /\ ctx.lanes \in Nat \ {0}
  /\ ctx.segment \in Nat /\ ctx.segment >= 2
  /\ ctx.columns = 4 * ctx.segment
  /\ ctx.passes \in Nat \ {0}

LoopsSound ==
  /\ pass_number \in Nat /\ slice_number \in 0..3 /\ lane \in Lane
  /\ index_in_segment \in First(pass_number, slice_number)..ctx.segment
  /\ phase = "fill" => pass_number < ctx.passes
  /\ phase = "done" => pass_number = ctx.passes /\ slice_number = 0 /\ lane = 0 /\ index_in_segment = 0

MemorySound ==
  memory = [l \in Lane |-> [c \in Column |->
              FillOf(pass_number, slice_number, lane, index_in_segment, l, c \div ctx.segment, c % ctx.segment)]]

\* The addresses of a segment are used in the order of its blocks.
AddressesSound ==
  address_counter = IF use_independent /\ index_in_segment > First(pass_number, slice_number)
                    THEN ((index_in_segment - 1) \div WordsPerBlock) + 1 ELSE 0

ArgonInv ==
  \/ /\ phase = "idle"
     /\ pass_number = 0 /\ slice_number = 0 /\ lane = 0 /\ index_in_segment = 0 /\ address_counter = 0
  \/ phase \in {"fill", "done"} /\ ContextSound /\ LoopsSound /\ MemorySound /\ AddressesSound

----------------------------------------------------------------------------
\* The four slices of a lane
LEMMA SliceBounds ==
  ASSUME NEW seg \in Nat, seg >= 2, NEW c \in 0..(4 * seg - 1)
  PROVE  \/ c < seg /\ c \div seg = 0
         \/ seg <= c /\ c < 2 * seg /\ c \div seg = 1
         \/ 2 * seg <= c /\ c < 3 * seg /\ c \div seg = 2
         \/ 3 * seg <= c /\ c < 4 * seg /\ c \div seg = 3
OBVIOUS

\* A column is a block of a slice.
LEMMA Coordinates ==
  ASSUME NEW seg \in Nat, seg >= 2, NEW c \in 0..(4 * seg - 1)
  PROVE  \E k \in 0..3, r \in 0..(seg - 1) :
           /\ k = c \div seg /\ r = c % seg /\ c = k * seg + r
           /\ \A s \in 0..3, i \in 0..(seg - 1) : c = s * seg + i <=> s = k /\ i = r
<1>1. /\ c \div seg \in 0..3 /\ c % seg \in 0..(seg - 1)
      /\ c = (c \div seg) * seg + (c % seg)
  <2>1. c \div seg \in 0..3
    BY SliceBounds
  <2>2. c % seg \in 0..(seg - 1) /\ c = seg * (c \div seg) + (c % seg)
    OBVIOUS
  <2>. QED BY <2>1, <2>2
<1>2. PICK k \in 0..3, r \in 0..(seg - 1) : k = c \div seg /\ r = c % seg
  BY <1>1
<1>3. c = k * seg + r
  BY <1>1, <1>2
<1>4. ASSUME NEW s \in 0..3, NEW i \in 0..(seg - 1), c = s * seg + i
      PROVE  s = k /\ i = r
  <2>1. CASE s = 0
    BY <1>3, <1>4, <2>1
  <2>2. CASE s = 1
    BY <1>3, <1>4, <2>2
  <2>3. CASE s = 2
    BY <1>3, <1>4, <2>3
  <2>4. CASE s = 3
    BY <1>3, <1>4, <2>4
  <2>. QED BY <2>1, <2>2, <2>3, <2>4
<1>. QED BY <1>1, <1>2, <1>3, <1>4

\* Remainders of numbers that are at most once too large or too small
LEMMA Remainder ==
  ASSUME NEW n \in Nat \ {0}, NEW a \in Int
  PROVE  /\ 0 <= a /\ a < n => a % n = a
         /\ n <= a /\ a < 2 * n => a % n = a - n
         /\ a = -1 => a % n = n - 1
<1>1. 0 <= a /\ a < n => a % n = a
  OBVIOUS
<1>2. n <= a /\ a < 2 * n => a % n = a - n
  OBVIOUS
<1>3. a = -1 => a % n = n - 1
  OBVIOUS
<1>. QED BY <1>1, <1>2, <1>3

\* Rounding the memory down
LEMMA Rounded ==
  ASSUME NEW m \in Nat, NEW p \in Nat \ {0}, m >= 8 * p
  PROVE  /\ m \div (4 * p) \in Nat /\ m \div (4 * p) >= 2
         /\ ((m \div (4 * p)) * (4 * p)) \div p = 4 * (m \div (4 * p))
         /\ (4 * (m \div (4 * p))) \div 4 = m \div (4 * p)
<1>. DEFINE q == m \div (4 * p)
<1>1. q \in Nat /\ (4 * p) * q <= m /\ m < (4 * p) * q + 4 * p
  OBVIOUS
<1>2. q >= 2
  BY <1>1
<1>. HIDE DEF q
<1>3. (q * (4 * p)) \div p = 4 * q
  <2>1. q * (4 * p) = (4 * q) * p
    BY <1>1
  <2>2. \A r \in Nat : (r * p) \div p = r
    OBVIOUS
  <2>. QED BY <1>1, <2>1, <2>2
<1>4. (4 * q) \div 4 = q
  BY <1>1
<1>. QED BY <1>1, <1>2, <1>3, <1>4 DEF q

\* The parameters that argon2() does not refuse make four slices of at least two blocks.
LEMMA ContextMade ==
  ASSUME NEW m \in MemoryCosts, NEW p \in Parallelisms, NEW t \in TimeCosts, NEW v, m >= 8 * p,
         ctx' = Context(m, p, t, v)
  PROVE  ContextSound'
<1>1. m \in Nat /\ p \in Nat \ {0} /\ t \in Nat \ {0}
  BY Argon2Assumption
<1>2. PICK q \in Nat : q = m \div (4 * p) /\ q >= 2 /\ (q * (4 * p)) \div p = 4 * q /\ (4 * q) \div 4 = q
  BY <1>1, Rounded
<1>3. ctx' = [lanes |-> p, columns |-> 4 * q, segment |-> q, passes |-> t, variant |-> v]
  BY <1>2 DEF Context, SYNC_POINTS
<1>. QED BY <1>1, <1>2, <1>3 DEF ContextSound

\* The first two blocks of each lane come from H0, and nothing else is filled.
LEMMA BeginFillingKeeps ==
  ASSUME ArgonInv, NEW m \in MemoryCosts, NEW p \in Parallelisms, NEW t \in TimeCosts, NEW v,
         BeginFilling(m, p, t, v)
  PROVE  ArgonInv'
<1>1. /\ pass_number = 0 /\ slice_number = 0 /\ lane = 0 /\ address_counter = 0
      /\ UNCHANGED <<pass_number, slice_number, lane, address_counter>>
      /\ m >= 8 * p /\ ctx' = Context(m, p, t, v) /\ index_in_segment' = First(0, 0) /\ phase' = "fill"
      /\ memory' = [l \in Lane' |-> [c \in Column' |-> IF c \in {0, 1} THEN 0 ELSE -1]]
  BY DEF ArgonInv, BeginFilling
<1>2. ContextSound'
  BY <1>1, ContextMade
<1>3. First(0, 0) = 2 /\ First(pass_number', slice_number') = 2
  BY <1>1 DEF First
<1>4. LoopsSound'
  BY <1>1, <1>2, <1>3 DEF LoopsSound, ContextSound, Lane
<1>5. MemorySound'
  <2>1. Lane' \subseteq Nat /\ ctx'.segment \in Nat /\ ctx'.segment >= 2 /\ Column' = 0..(4 * ctx'.segment - 1)
    BY <1>2 DEF ContextSound, Column, Lane
  <2>2. ASSUME NEW l \in Lane', NEW c \in Column'
        PROVE  FillOf(0, 0, 0, 2, l, c \div ctx'.segment, c % ctx'.segment) = IF c \in {0, 1} THEN 0 ELSE -1
    <3>1. PICK seg \in Nat : seg = ctx'.segment /\ seg >= 2 /\ c \in 0..(4 * seg - 1)
      BY <2>1
    <3>2. PICK k \in 0..3, r \in 0..(seg - 1) :
            /\ k = c \div seg /\ r = c % seg /\ c = k * seg + r
            /\ \A s \in 0..3, i \in 0..(seg - 1) : c = s * seg + i <=> s = k /\ i = r
      BY <3>1, Coordinates
    <3>3. c \in {0, 1} <=> k = 0 /\ r < 2
      <4>1. (c = 0 <=> k = 0 /\ r = 0) /\ (c = 1 <=> k = 0 /\ r = 1)
        <5>1. 0 * seg + 0 = 0 /\ 0 * seg + 1 = 1 /\ 0 \in 0..(seg - 1) /\ 1 \in 0..(seg - 1)
          BY <3>1
        <5>. QED BY <3>2, <5>1
      <4>. QED BY <4>1
    <3>4. FillOf(0, 0, 0, 2, l, k, r) = IF c \in {0, 1} THEN 0 ELSE -1
      BY <2>1, <3>3 DEF FillOf, FilledAt
    <3>. QED BY <3>1, <3>2, <3>4
  <2>. QED BY <1>1, <1>3, <2>2 DEF MemorySound
<1>6. AddressesSound'
  BY <1>1, <1>3 DEF AddressesSound
<1>. QED BY <1>1, <1>2, <1>4, <1>5, <1>6 DEF ArgonInv

\* The stream of addresses goes on by one word.
LEMMA NextWord ==
  ASSUME NEW w \in Nat, w > 2, NEW i \in Nat
  PROVE  /\ i > 0 => i \div w = ((i - 1) \div w) + (IF i % w = 0 THEN 1 ELSE 0)
         /\ i \in {0, 2} => i \div w = 0
<1>1. i \in {0, 2} => i \div w = 0
  OBVIOUS
<1>2. PICK q \in Nat, r \in 0..(w - 1) : q = i \div w /\ r = i % w /\ i = w * q + r
  <2>1. i \div w \in Nat /\ i % w \in 0..(w - 1) /\ i = w * (i \div w) + (i % w)
    OBVIOUS
  <2>. QED BY <2>1
<1>3. CASE i > 0 /\ r = 0
  <2>1. \A n \in Nat : n > 0 => (w * n - 1) \div w = n - 1
    OBVIOUS
  <2>2. q > 0 /\ i = w * q
    BY <1>2, <1>3
  <2>3. (i - 1) \div w = q - 1
    BY <2>1, <2>2
  <2>. QED BY <1>1, <1>2, <1>3, <2>3
<1>4. CASE i > 0 /\ r # 0
  <2>1. \A n \in Nat, k \in 0..(w - 1) : (w * n + k) \div w = n
    OBVIOUS
  <2>2. i - 1 = w * q + (r - 1) /\ r - 1 \in 0..(w - 1)
    BY <1>2, <1>4
  <2>3. (i - 1) \div w = q
    BY <2>1, <2>2
  <2>. QED BY <1>1, <1>2, <1>4, <2>3
<1>. QED BY <1>1, <1>2, <1>3, <1>4

\* Fill marks one block with the present slice and takes one word of the addresses.
LEMMA FillKeeps ==
  ASSUME ArgonInv, Fill
  PROVE  ArgonInv'
<1>1. /\ phase = "fill" /\ index_in_segment < ctx.segment
      /\ address_counter' = next_counter
      /\ memory' = [memory EXCEPT ![lane][column] = Slice]
      /\ index_in_segment' = index_in_segment + 1
      /\ UNCHANGED <<ctx, pass_number, slice_number, lane, phase>>
      /\ ContextSound /\ LoopsSound /\ MemorySound /\ AddressesSound
  BY DEF Fill, ArgonInv
<1>2. /\ ctx.segment \in Nat /\ ctx.segment >= 2 /\ ctx.lanes \in Nat \ {0} /\ ctx.columns = 4 * ctx.segment
      /\ pass_number \in Nat /\ slice_number \in 0..3 /\ lane \in Lane /\ lane \in Nat
      /\ index_in_segment \in 0..(ctx.segment - 1)
  BY <1>1 DEF ContextSound, LoopsSound, Lane, First
<1>3. ContextSound' /\ LoopsSound'
  BY <1>1, <1>2 DEF ContextSound, LoopsSound, Lane, First
<1>4. MemorySound'
  <2>. DEFINE F(i, l, c) == FillOf(pass_number, slice_number, lane, i, l, c \div ctx.segment, c % ctx.segment)
  <2>1. Lane \subseteq Nat /\ Column = 0..(4 * ctx.segment - 1)
    BY <1>2 DEF Lane, Column
  <2>2. ASSUME NEW l \in Lane, NEW c \in Column
        PROVE  F(index_in_segment + 1, l, c)
                 = IF l = lane /\ c = column THEN Slice ELSE F(index_in_segment, l, c)
    <3>1. PICK p \in Nat, s \in 0..3, ln \in Nat, seg \in Nat :
            p = pass_number /\ s = slice_number /\ ln = lane /\ seg = ctx.segment
      BY <1>2
    <3>2. PICK i \in 0..(seg - 1) : i = index_in_segment
      BY <1>2, <3>1
    <3>3. seg >= 2 /\ c \in 0..(4 * seg - 1)
      BY <1>2, <2>1, <3>1
    <3>4. PICK k \in 0..3, r \in 0..(seg - 1) :
            /\ k = c \div seg /\ r = c % seg /\ c = k * seg + r
            /\ \A s1 \in 0..3, i1 \in 0..(seg - 1) : c = s1 * seg + i1 <=> s1 = k /\ i1 = r
      BY <3>3, Coordinates
    <3>5. column = s * seg + i /\ Slice = 4 * p + s
      BY <3>1, <3>2 DEF column, Slice, SYNC_POINTS
    <3>6. FillOf(p, s, ln, i + 1, l, k, r) = IF l = ln /\ s = k /\ i = r THEN 4 * p + s ELSE FillOf(p, s, ln, i, l, k, r)
      BY <2>1 DEF FillOf, FilledAt
    <3>. QED BY <3>1, <3>4, <3>5, <3>6, <3>2
  <2>3. memory = [l \in Lane |-> [c \in Column |-> F(index_in_segment, l, c)]]
    BY <1>1 DEF MemorySound
  <2>4. Lane' = Lane /\ Column' = Column
    BY <1>1 DEF Lane, Column
  <2>. HIDE DEF F
  <2>5. memory' = [l \in Lane |-> [c \in Column |-> F(index_in_segment + 1, l, c)]]
    BY <1>1, <1>2, <2>2, <2>3
  <2>6. /\ ctx' = ctx /\ pass_number' = pass_number /\ slice_number' = slice_number /\ lane' = lane
        /\ index_in_segment' = index_in_segment + 1
    BY <1>1
  <2>. QED BY <2>4, <2>5, <2>6 DEF MemorySound, F
<1>5. AddressesSound'
  <2>1. use_independent' = use_independent
    BY <1>1 DEF use_independent
  <2>2. PICK u \in BOOLEAN : u = use_independent
    BY DEF use_independent
  <2>3. PICK f \in {0, 2} : f = First(pass_number, slice_number)
    BY DEF First
  <2>4. index_in_segment >= f /\ First(pass_number', slice_number') = f
    BY <1>1, <1>2, <2>3 DEF LoopsSound
  <2>5. PICK i \in Nat : i = index_in_segment
    BY <1>2
  <2>6. PICK a, b, r \in Int : /\ a = i \div WordsPerBlock /\ r = i % WordsPerBlock
                               /\ b = (i - 1) \div WordsPerBlock
                               /\ i > 0 => b >= 0
                               /\ i > 0 => a = b + (IF r = 0 THEN 1 ELSE 0)
                               /\ i \in {0, 2} => a = 0
    <3>1. ASSUME NEW w \in Nat, w > 2
          PROVE  /\ i \div w \in Int /\ i % w \in Int /\ (i - 1) \div w \in Int
                 /\ i > 0 => (i - 1) \div w >= 0
      BY <3>1, <2>5
    <3>2. WordsPerBlock \in Nat /\ WordsPerBlock > 2
      BY Argon2Assumption
    <3>3. WordsPerBlock \in Nat /\ WordsPerBlock > 2
          => /\ i > 0 => i \div WordsPerBlock = ((i - 1) \div WordsPerBlock) + (IF i % WordsPerBlock = 0 THEN 1 ELSE 0)
             /\ i \in {0, 2} => i \div WordsPerBlock = 0
      BY <2>5, NextWord
    <3>. QED BY <3>1, <3>2, <3>3
  <2>7. i = 0 => r = 0
    BY <2>5, <2>6, Argon2Assumption
  <2>8. /\ i > 0 => b >= 0 /\ a = b + (IF r = 0 THEN 1 ELSE 0)
        /\ i = 0 => r = 0 /\ a = 0
        /\ i = 2 => a = 0
    BY <2>6, <2>7
  <2>9. address_counter = IF u /\ i > f THEN b + 1 ELSE 0
    BY <1>1, <2>2, <2>3, <2>4, <2>5, <2>6 DEF AddressesSound
  <2>10. address_counter' = IF u /\ (r = 0 \/ address_counter = 0) THEN address_counter + 1 ELSE address_counter
    BY <1>1, <2>2, <2>5, <2>6 DEF next_counter
  <2>11. address_counter' = IF u THEN a + 1 ELSE 0
    BY <2>3, <2>4, <2>5, <2>8, <2>9, <2>10
  <2>12. index_in_segment' - 1 = i /\ index_in_segment' > f
    BY <1>1, <2>3, <2>4, <2>5
  <2>. QED BY <2>1, <2>2, <2>4, <2>6, <2>11, <2>12 DEF AddressesSound
<1>. QED BY <1>1, <1>3, <1>4, <1>5 DEF ArgonInv

\* The next lane, slice or pass finds the memory as the loops say.
LEMMA EndSegmentKeeps ==
  ASSUME ArgonInv, EndSegment
  PROVE  ArgonInv'
<1>1. /\ phase = "fill" /\ index_in_segment = ctx.segment
      /\ address_counter' = 0
      /\ lane' = IF lane < ctx.lanes - 1 THEN lane + 1 ELSE 0
      /\ slice_number' = IF lane < ctx.lanes - 1 THEN slice_number ELSE (slice_number + 1) % 4
      /\ pass_number' = IF lane = ctx.lanes - 1 /\ slice_number = 3 THEN pass_number + 1 ELSE pass_number
      /\ phase' = IF pass_number' = ctx.passes THEN "done" ELSE "fill"
      /\ index_in_segment' = First(pass_number', slice_number')
      /\ ctx' = ctx /\ memory' = memory
      /\ ContextSound /\ LoopsSound /\ MemorySound
  BY DEF EndSegment, ArgonInv, SYNC_POINTS
<1>2. /\ ctx.segment \in Nat /\ ctx.segment >= 2 /\ ctx.lanes \in Nat \ {0} /\ ctx.columns = 4 * ctx.segment
      /\ ctx.passes \in Nat \ {0}
      /\ pass_number \in Nat /\ slice_number \in 0..3 /\ lane \in 0..(ctx.lanes - 1)
      /\ pass_number < ctx.passes
  BY <1>1 DEF ContextSound, LoopsSound, Lane
<1>3. Lane' = Lane /\ Column' = Column /\ ContextSound'
  BY <1>1 DEF ContextSound, Lane, Column
<1>4. \/ lane < ctx.lanes - 1 /\ lane' = lane + 1 /\ slice_number' = slice_number /\ pass_number' = pass_number
      \/ lane = ctx.lanes - 1 /\ lane' = 0 /\ slice_number < 3 /\ slice_number' = slice_number + 1 /\ pass_number' = pass_number
      \/ lane = ctx.lanes - 1 /\ lane' = 0 /\ slice_number = 3 /\ slice_number' = 0 /\ pass_number' = pass_number + 1
  BY <1>1, <1>2
<1>5. index_in_segment' \in {0, 2} /\ (slice_number' # 0 \/ pass_number' # 0 => index_in_segment' = 0)
  BY <1>1 DEF First
<1>6. LoopsSound'
  BY <1>1, <1>2, <1>3, <1>4, <1>5 DEF LoopsSound, Lane
<1>7. MemorySound'
  <2>1. Lane = 0..(ctx.lanes - 1) /\ Column = 0..(4 * ctx.segment - 1)
    BY <1>2 DEF Lane, Column
  <2>2. ASSUME NEW l \in Lane, NEW c \in Column
        PROVE  FillOf(pass_number', slice_number', lane', index_in_segment', l, c \div ctx.segment, c % ctx.segment)
                 = FillOf(pass_number, slice_number, lane, index_in_segment, l, c \div ctx.segment, c % ctx.segment)
    <3>1. l \in Nat /\ c \in 0..(4 * ctx.segment - 1) /\ l <= ctx.lanes - 1
      BY <1>2, <2>1
    <3>2. PICK p \in Nat, s \in 0..3, ln \in Nat, seg \in Nat :
            p = pass_number /\ s = slice_number /\ ln = lane /\ seg = ctx.segment
      <4>1. lane \in Nat
        BY <1>2
      <4>. QED BY <1>2, <4>1
    <3>3. seg >= 2 /\ c \in 0..(4 * seg - 1)
      BY <1>2, <3>1, <3>2
    <3>4. PICK k \in 0..3, r \in 0..(seg - 1) :
            /\ k = c \div seg /\ r = c % seg /\ c = k * seg + r
            /\ \A s1 \in 0..3, i1 \in 0..(seg - 1) : c = s1 * seg + i1 <=> s1 = k /\ i1 = r
      BY <3>3, Coordinates
    <3>5. CASE lane < ctx.lanes - 1
      <4>1. FillOf(p, s, ln + 1, First(p, s), l, k, r) = FillOf(p, s, ln, seg, l, k, r)
        BY <3>1, <3>3 DEF FillOf, FilledAt, First
      <4>2. pass_number' = p /\ slice_number' = s /\ lane' = ln + 1 /\ index_in_segment' = First(p, s)
        BY <1>1, <1>2, <1>4, <3>2, <3>5
      <4>. QED BY <1>1, <3>2, <3>4, <4>1, <4>2
    <3>6. CASE lane = ctx.lanes - 1
      <4>1. index_in_segment' = 0 /\ l <= ln
        BY <1>2, <1>4, <1>5, <3>1, <3>2, <3>6
      <4>2. s < 3 => FillOf(p, s + 1, 0, 0, l, k, r) = FillOf(p, s, ln, seg, l, k, r)
        BY <3>1, <3>3, <4>1 DEF FillOf, FilledAt
      <4>3. s = 3 => FillOf(p + 1, 0, 0, 0, l, k, r) = FillOf(p, s, ln, seg, l, k, r)
        BY <3>1, <3>3, <4>1 DEF FillOf, FilledAt
      <4>4. \/ s < 3 /\ pass_number' = p /\ slice_number' = s + 1 /\ lane' = 0
            \/ s = 3 /\ pass_number' = p + 1 /\ slice_number' = 0 /\ lane' = 0
        BY <1>2, <1>4, <3>2, <3>6
      <4>. QED BY <1>1, <3>2, <3>4, <4>1, <4>2, <4>3, <4>4
    <3>. QED BY <1>2, <3>5, <3>6
  <2>. QED BY <1>1, <1>3, <2>2 DEF MemorySound
<1>8. AddressesSound'
  BY <1>1, <1>5 DEF AddressesSound, First
<1>. QED BY <1>1, <1>3, <1>6, <1>7, <1>8 DEF ArgonInv

\* Every step of argon2() keeps the invariant.
LEMMA ArgonStep == ArgonInv /\ [ArgonNext]_argonVars => ArgonInv'
<1>1. SUFFICES ASSUME ArgonInv, [ArgonNext]_argonVars
               PROVE  ArgonInv'
  OBVIOUS
<1>2. CASE UNCHANGED argonVars
  BY <1>1, <1>2 DEF argonVars, ArgonInv, ContextSound, LoopsSound, MemorySound, AddressesSound, Lane, Column, First,
                    use_independent
<1>3. CASE ArgonNext
  BY <1>1, <1>3, BeginFillingKeeps, FillKeeps, EndSegmentKeeps DEF ArgonNext
<1>. QED BY <1>1, <1>2, <1>3

\* The blocks in the order in which they are filled, from the oldest one that may be referred to
Rank(c) == IF c >= start THEN c - start ELSE c - start + ctx.columns

\* While blocks are filled
Filling == ArgonInv /\ phase = "fill" /\ index_in_segment < ctx.segment

\* The types and bounds that the arithmetic below rests on
LEMMA FillingFacts ==
  ASSUME Filling
  PROVE  /\ ctx.segment \in Nat /\ ctx.segment >= 2 /\ ctx.columns = 4 * ctx.segment
         /\ pass_number \in Nat /\ slice_number \in 0..3 /\ lane \in Lane /\ Lane \subseteq Nat
         /\ index_in_segment \in 0..(ctx.segment - 1)
         /\ pass_number = 0 /\ slice_number = 0 => index_in_segment >= 2
         /\ Column = 0..(4 * ctx.segment - 1)
<1>1. ContextSound /\ LoopsSound /\ index_in_segment < ctx.segment
  BY DEF Filling, ArgonInv
<1>2. Lane \subseteq Nat /\ Column = 0..(4 * ctx.segment - 1)
  BY <1>1 DEF ContextSound, Lane, Column
<1>. QED BY <1>1, <1>2 DEF ContextSound, LoopsSound, First

\* Where a column lies, with the multiples of the segment written out
LEMMA Located ==
  ASSUME NEW seg \in Nat, seg >= 2, NEW c \in 0..(4 * seg - 1)
  PROVE  \E k \in 0..3, r \in 0..(seg - 1) :
           /\ k = c \div seg /\ r = c % seg
           /\ k = 0 => c = r
           /\ k = 1 => c = seg + r
           /\ k = 2 => c = 2 * seg + r
           /\ k = 3 => c = 3 * seg + r
<1>1. PICK k \in 0..3, r \in 0..(seg - 1) : k = c \div seg /\ r = c % seg /\ c = k * seg + r
  BY Coordinates
<1>2. /\ k = 0 => c = r
      /\ k = 1 => c = seg + r
      /\ k = 2 => c = 2 * seg + r
      /\ k = 3 => c = 3 * seg + r
  BY <1>1
<1>. QED BY <1>1, <1>2

\* What a block holds
LEMMA Held ==
  ASSUME Filling, NEW l \in Lane, NEW c \in Column
  PROVE  \E k \in 0..3, r \in 0..(ctx.segment - 1), m \in Int :
           /\ m = memory[l][c]
           /\ m = IF k < slice_number \/ (k = slice_number /\ (l < lane \/ (l = lane /\ r < index_in_segment)))
                  THEN 4 * pass_number + k
                  ELSE IF pass_number > 0 THEN 4 * pass_number - 4 + k
                  ELSE IF k = 0 /\ r < 2 THEN 0 ELSE -1
           /\ k = 0 => c = r
           /\ k = 1 => c = ctx.segment + r
           /\ k = 2 => c = 2 * ctx.segment + r
           /\ k = 3 => c = 3 * ctx.segment + r
<1>1. PICK k \in 0..3, r \in 0..(ctx.segment - 1) :
           /\ k = c \div ctx.segment /\ r = c % ctx.segment
           /\ k = 0 => c = r
           /\ k = 1 => c = ctx.segment + r
           /\ k = 2 => c = 2 * ctx.segment + r
           /\ k = 3 => c = 3 * ctx.segment + r
  BY FillingFacts, Located
<1>2. memory[l][c] = FillOf(pass_number, slice_number, lane, index_in_segment, l, k, r)
  BY <1>1 DEF Filling, ArgonInv, MemorySound
<1>3. PICK m : m = FillOf(pass_number, slice_number, lane, index_in_segment, l, k, r)
  OBVIOUS
<1>4. m = IF k < slice_number \/ (k = slice_number /\ (l < lane \/ (l = lane /\ r < index_in_segment)))
                  THEN 4 * pass_number + k
                  ELSE IF pass_number > 0 THEN 4 * pass_number - 4 + k
                  ELSE IF k = 0 /\ r < 2 THEN 0 ELSE -1
  BY <1>3 DEF FillOf, FilledAt
<1>5. m \in Int
  BY <1>4, FillingFacts
<1>. QED BY <1>1, <1>2, <1>3, <1>4, <1>5

\* There is always a block to refer to, and never as many as there are columns.
LEMMA AreaBounds ==
  ASSUME Filling, NEW l \in reference_lanes
  PROVE  l \in Lane /\ area(l) \in 1..(ctx.columns - 1) /\ start \in Column
<1>1. PICK p \in Nat, s \in 0..3, seg \in Nat : p = pass_number /\ s = slice_number /\ seg = ctx.segment
  BY FillingFacts
<1>2. PICK i \in 0..(seg - 1) : i = index_in_segment
  BY <1>1, FillingFacts
<1>3. /\ seg >= 2 /\ ctx.columns = 4 * seg /\ (p = 0 /\ s = 0 => i >= 2) /\ Column = 0..(4 * seg - 1)
      /\ l \in Lane /\ (p = 0 /\ s = 0 => l = lane)
  BY <1>1, <1>2, FillingFacts DEF reference_lanes
<1>4. area(l) = IF p = 0 THEN IF l = lane THEN s * seg + i - 1 ELSE s * seg - (IF i = 0 THEN 1 ELSE 0)
                ELSE IF l = lane THEN 3 * seg + i - 1 ELSE 3 * seg - (IF i = 0 THEN 1 ELSE 0)
  BY <1>1, <1>2, <1>3 DEF area
<1>5. start = IF p = 0 \/ s = 3 THEN 0 ELSE (s + 1) * seg
  BY <1>1 DEF start, SYNC_POINTS
<1>6. CASE s = 0
  BY <1>3, <1>4, <1>5, <1>6
<1>7. CASE s = 1
  BY <1>3, <1>4, <1>5, <1>7
<1>8. CASE s = 2
  BY <1>3, <1>4, <1>5, <1>8
<1>9. CASE s = 3
  BY <1>3, <1>4, <1>5, <1>9
<1>. QED BY <1>6, <1>7, <1>8, <1>9

\* What the loops say, in numbers: the block before this one, the first column of the order
\* of filling, and the size of the area.
LEMMA Positions ==
  ASSUME Filling, NEW l \in reference_lanes
  PROVE  \A v, st, a, sl :
           v = previous /\ st = start /\ a = area(l) /\ sl = Slice =>
           /\ v \in Int /\ st \in Int /\ a \in Int /\ sl \in Int
           /\ sl = 4 * pass_number + slice_number
           /\ slice_number = 0 =>
                /\ v = IF index_in_segment = 0 THEN 4 * ctx.segment - 1 ELSE index_in_segment - 1
                /\ st = IF pass_number = 0 THEN 0 ELSE ctx.segment
           /\ slice_number = 1 =>
                /\ v = ctx.segment + index_in_segment - 1
                /\ st = IF pass_number = 0 THEN 0 ELSE 2 * ctx.segment
           /\ slice_number = 2 =>
                /\ v = 2 * ctx.segment + index_in_segment - 1
                /\ st = IF pass_number = 0 THEN 0 ELSE 3 * ctx.segment
           /\ slice_number = 3 =>
                /\ v = 3 * ctx.segment + index_in_segment - 1
                /\ st = 0
           /\ pass_number = 0 =>
                /\ slice_number = 0 => l = lane /\ a = index_in_segment - 1 /\ index_in_segment >= 2
                /\ slice_number = 1 =>
                     a = ctx.segment + (IF l = lane THEN index_in_segment - 1 ELSE IF index_in_segment = 0 THEN -1 ELSE 0)
                /\ slice_number = 2 =>
                     a = 2 * ctx.segment + (IF l = lane THEN index_in_segment - 1 ELSE IF index_in_segment = 0 THEN -1 ELSE 0)
                /\ slice_number = 3 =>
                     a = 3 * ctx.segment + (IF l = lane THEN index_in_segment - 1 ELSE IF index_in_segment = 0 THEN -1 ELSE 0)
           /\ pass_number > 0 =>
                a = 3 * ctx.segment + (IF l = lane THEN index_in_segment - 1 ELSE IF index_in_segment = 0 THEN -1 ELSE 0)
<1>1. PICK p \in Nat, s \in 0..3, seg \in Nat : p = pass_number /\ s = slice_number /\ seg = ctx.segment
  BY FillingFacts
<1>2. PICK i \in 0..(seg - 1) : i = index_in_segment
  BY <1>1, FillingFacts
<1>3. /\ seg >= 2 /\ ctx.columns = 4 * seg /\ (p = 0 /\ s = 0 => i >= 2)
      /\ l \in Lane /\ (p = 0 /\ s = 0 => l = lane)
  BY <1>1, <1>2, FillingFacts DEF reference_lanes
<1>4. TAKE v, st, a, sl
<1>. HAVE v = previous /\ st = start /\ a = area(l) /\ sl = Slice
<1>5. a = IF p = 0 THEN IF l = lane THEN s * seg + i - 1 ELSE s * seg - (IF i = 0 THEN 1 ELSE 0)
          ELSE IF l = lane THEN 3 * seg + i - 1 ELSE 3 * seg - (IF i = 0 THEN 1 ELSE 0)
  BY <1>1, <1>2, <1>3 DEF area
<1>6. st = IF p = 0 \/ s = 3 THEN 0 ELSE (s + 1) * seg
  BY <1>1 DEF start, SYNC_POINTS
<1>7. v = (s * seg + i - 1) % (4 * seg) /\ sl = 4 * p + s
  <2>1. column = s * seg + i /\ sl = 4 * p + s
    BY <1>1, <1>2 DEF column, Slice, SYNC_POINTS
  <2>2. v = (column - 1) % (4 * seg)
    BY <1>3 DEF previous
  <2>. QED BY <2>1, <2>2
<1>8. v = IF s = 0 /\ i = 0 THEN 4 * seg - 1 ELSE s * seg + i - 1
  <2>1. PICK n \in Nat \ {0} : n = 4 * seg
    BY <1>3
  <2>2. PICK x \in Int : x = s * seg + i - 1
    OBVIOUS
  <2>3. IF s = 0 /\ i = 0 THEN x = -1 ELSE 0 <= x /\ x < n
    <3>1. CASE s = 0
      BY <1>3, <2>1, <2>2, <3>1
    <3>2. CASE s = 1
      BY <1>3, <2>1, <2>2, <3>2
    <3>3. CASE s = 2
      BY <1>3, <2>1, <2>2, <3>3
    <3>4. CASE s = 3
      BY <1>3, <2>1, <2>2, <3>4
    <3>. QED BY <3>1, <3>2, <3>3, <3>4
  <2>4. v = x % n
    BY <1>7, <2>1, <2>2
  <2>5. v = IF x = -1 THEN n - 1 ELSE x
    BY <2>3, <2>4, Remainder
  <2>. QED BY <2>1, <2>2, <2>3, <2>5
<1>9. CASE s = 0
  BY <1>1, <1>2, <1>3, <1>5, <1>6, <1>7, <1>8, <1>9
<1>10. CASE s = 1
  <2>1. s * seg = seg /\ (s + 1) * seg = 2 * seg
    BY <1>10
  <2>2. /\ v = seg + i - 1 /\ st = (IF p = 0 THEN 0 ELSE 2 * seg) /\ sl = 4 * p + s
        /\ a = IF p = 0 THEN IF l = lane THEN seg + i - 1 ELSE seg - (IF i = 0 THEN 1 ELSE 0)
               ELSE IF l = lane THEN 3 * seg + i - 1 ELSE 3 * seg - (IF i = 0 THEN 1 ELSE 0)
    BY <1>5, <1>6, <1>7, <1>8, <1>10, <2>1
  <2>. QED BY <1>1, <1>2, <1>3, <1>10, <2>2
<1>11. CASE s = 2
  BY <1>1, <1>2, <1>3, <1>5, <1>6, <1>7, <1>8, <1>11
<1>12. CASE s = 3
  BY <1>1, <1>2, <1>3, <1>5, <1>6, <1>7, <1>8, <1>12
<1>. QED BY <1>9, <1>10, <1>11, <1>12

\* The window is the first area(l) blocks of the order of filling.
LEMMA WindowIsPrefix ==
  ASSUME Filling, NEW l \in reference_lanes, NEW c \in Column
  PROVE  c \in ReferenceWindow(l) <=> Rank(c) < area(l)
<1>1. PICK p \in Nat, s \in 0..3, ln \in Nat, seg \in Nat : p = pass_number /\ s = slice_number /\ ln = lane /\ seg = ctx.segment
  <2>1. lane \in Nat
    BY FillingFacts
  <2>. QED BY <2>1, FillingFacts
<1>2. PICK i \in 0..(seg - 1) : i = index_in_segment
  BY <1>1, FillingFacts
<1>3. seg >= 2 /\ ctx.columns = 4 * seg /\ c \in 0..(4 * seg - 1) /\ l \in Lane /\ l \in Nat
  BY <1>1, FillingFacts, AreaBounds
<1>4. PICK k \in 0..3, r \in 0..(seg - 1), m \in Int :
           /\ m = memory[l][c]
           /\ m = IF k < s \/ (k = s /\ (l < ln \/ (l = ln /\ r < i)))
                  THEN 4 * p + k
                  ELSE IF p > 0 THEN 4 * p - 4 + k
                  ELSE IF k = 0 /\ r < 2 THEN 0 ELSE -1
           /\ k = 0 => c = r
           /\ k = 1 => c = seg + r
           /\ k = 2 => c = 2 * seg + r
           /\ k = 3 => c = 3 * seg + r
  BY <1>1, <1>2, <1>3, Held
<1>5. PICK v, st, a, sl \in Int :
           /\ v = previous /\ st = start /\ a = area(l) /\ sl = Slice
           /\ sl = 4 * p + s
           /\ s = 0 => v = (IF i = 0 THEN 4 * seg - 1 ELSE i - 1) /\ st = (IF p = 0 THEN 0 ELSE seg)
           /\ s = 1 => v = seg + i - 1 /\ st = (IF p = 0 THEN 0 ELSE 2 * seg)
           /\ s = 2 => v = 2 * seg + i - 1 /\ st = (IF p = 0 THEN 0 ELSE 3 * seg)
           /\ s = 3 => v = 3 * seg + i - 1 /\ st = 0
           /\ p = 0 =>
                /\ s = 0 => l = ln /\ a = i - 1 /\ i >= 2
                /\ s = 1 => a = seg + (IF l = ln THEN i - 1 ELSE IF i = 0 THEN -1 ELSE 0)
                /\ s = 2 => a = 2 * seg + (IF l = ln THEN i - 1 ELSE IF i = 0 THEN -1 ELSE 0)
                /\ s = 3 => a = 3 * seg + (IF l = ln THEN i - 1 ELSE IF i = 0 THEN -1 ELSE 0)
           /\ p > 0 => a = 3 * seg + (IF l = ln THEN i - 1 ELSE IF i = 0 THEN -1 ELSE 0)
  <2>1. PICK v, st, a, sl : v = previous /\ st = start /\ a = area(l) /\ sl = Slice
    OBVIOUS
  <2>. QED BY <1>1, <1>2, <2>1, Positions
<1>6. c \in ReferenceWindow(l) <=> m >= 0 /\ m >= sl - 3 /\ (l # ln => m < sl) /\ (l = ln \/ i = 0 => c # v)
  <2>1. c \in ReferenceWindow(l)
          <=> /\ memory[l][c] >= 0 /\ memory[l][c] >= Slice - (4 - 1)
              /\ l # lane => memory[l][c] < Slice
              /\ l = lane \/ index_in_segment = 0 => c # previous
    BY DEF ReferenceWindow, SYNC_POINTS
  <2>2. memory[l][c] = m /\ Slice = sl /\ previous = v /\ lane = ln /\ index_in_segment = i /\ sl - (4 - 1) = sl - 3
    BY <1>1, <1>2, <1>4, <1>5
  <2>. QED BY <2>1, <2>2
<1>7. Rank(c) = IF c >= st THEN c - st ELSE c - st + 4 * seg
  BY <1>3, <1>5 DEF Rank
<1>8. m >= 0 /\ m >= sl - 3 /\ (l # ln => m < sl) /\ (l = ln \/ i = 0 => c # v)
        <=> (IF c >= st THEN c - st ELSE c - st + 4 * seg) < a
  <2>1. CASE s = 0
    BY <1>3, <1>4, <1>5, <2>1
  <2>2. CASE s = 1
    BY <1>3, <1>4, <1>5, <2>2
  <2>3. CASE s = 2
    BY <1>3, <1>4, <1>5, <2>3
  <2>4. CASE s = 3
    BY <1>3, <1>4, <1>5, <2>4
  <2>. QED BY <2>1, <2>2, <2>3, <2>4
<1>. QED BY <1>5, <1>6, <1>7, <1>8

\* Within the window, what comes first in the order of filling is older.
LEMMA OlderFirst ==
  ASSUME Filling, NEW l \in reference_lanes, NEW c \in Column, NEW d \in Column,
         Rank(c) < Rank(d), Rank(d) < area(l)
  PROVE  Older(l, c, d)
<1>1. PICK p \in Nat, s \in 0..3, ln \in Nat, seg \in Nat : p = pass_number /\ s = slice_number /\ ln = lane /\ seg = ctx.segment
  <2>1. lane \in Nat
    BY FillingFacts
  <2>. QED BY <2>1, FillingFacts
<1>2. PICK i \in 0..(seg - 1) : i = index_in_segment
  BY <1>1, FillingFacts
<1>3. /\ seg >= 2 /\ ctx.columns = 4 * seg /\ c \in 0..(4 * seg - 1) /\ d \in 0..(4 * seg - 1)
      /\ l \in Lane /\ l \in Nat
  BY <1>1, FillingFacts, AreaBounds
<1>4. PICK k \in 0..3, r \in 0..(seg - 1), m \in Int :
           /\ m = memory[l][c]
           /\ m = IF k < s \/ (k = s /\ (l < ln \/ (l = ln /\ r < i)))
                  THEN 4 * p + k
                  ELSE IF p > 0 THEN 4 * p - 4 + k
                  ELSE IF k = 0 /\ r < 2 THEN 0 ELSE -1
           /\ k = 0 => c = r
           /\ k = 1 => c = seg + r
           /\ k = 2 => c = 2 * seg + r
           /\ k = 3 => c = 3 * seg + r
  BY <1>1, <1>2, <1>3, Held
<1>5. PICK k2 \in 0..3, r2 \in 0..(seg - 1), m2 \in Int :
           /\ m2 = memory[l][d]
           /\ m2 = IF k2 < s \/ (k2 = s /\ (l < ln \/ (l = ln /\ r2 < i)))
                   THEN 4 * p + k2
                   ELSE IF p > 0 THEN 4 * p - 4 + k2
                   ELSE IF k2 = 0 /\ r2 < 2 THEN 0 ELSE -1
           /\ k2 = 0 => d = r2
           /\ k2 = 1 => d = seg + r2
           /\ k2 = 2 => d = 2 * seg + r2
           /\ k2 = 3 => d = 3 * seg + r2
  BY <1>1, <1>2, <1>3, Held
<1>6. PICK st, a \in Int :
           /\ st = start /\ a = area(l)
           /\ s = 0 => st = (IF p = 0 THEN 0 ELSE seg)
           /\ s = 1 => st = (IF p = 0 THEN 0 ELSE 2 * seg)
           /\ s = 2 => st = (IF p = 0 THEN 0 ELSE 3 * seg)
           /\ s = 3 => st = 0
           /\ p = 0 =>
                /\ s = 0 => l = ln /\ a = i - 1 /\ i >= 2
                /\ s = 1 => a = seg + (IF l = ln THEN i - 1 ELSE IF i = 0 THEN -1 ELSE 0)
                /\ s = 2 => a = 2 * seg + (IF l = ln THEN i - 1 ELSE IF i = 0 THEN -1 ELSE 0)
                /\ s = 3 => a = 3 * seg + (IF l = ln THEN i - 1 ELSE IF i = 0 THEN -1 ELSE 0)
           /\ p > 0 => a = 3 * seg + (IF l = ln THEN i - 1 ELSE IF i = 0 THEN -1 ELSE 0)
  <2>1. PICK v, st, a, sl : v = previous /\ st = start /\ a = area(l) /\ sl = Slice
    OBVIOUS
  <2>. QED BY <1>1, <1>2, <2>1, Positions
<1>7. PICK x, y \in Int : /\ x = Rank(c) /\ x = IF c >= st THEN c - st ELSE c - st + 4 * seg
                          /\ y = Rank(d) /\ y = IF d >= st THEN d - st ELSE d - st + 4 * seg
  BY <1>3, <1>6 DEF Rank
<1>8. x < y /\ y < a
  BY <1>6, <1>7
<1>9. m < m2 \/ (m = m2 /\ c < d)
  <2>1. CASE s = 0
    BY <1>3, <1>4, <1>5, <1>6, <1>7, <1>8, <2>1
  <2>2. CASE s = 1
    BY <1>3, <1>4, <1>5, <1>6, <1>7, <1>8, <2>2
  <2>3. CASE s = 2
    BY <1>3, <1>4, <1>5, <1>6, <1>7, <1>8, <2>3
  <2>4. CASE s = 3
    BY <1>3, <1>4, <1>5, <1>6, <1>7, <1>8, <2>4
  <2>. QED BY <2>1, <2>2, <2>3, <2>4
<1>. QED BY <1>4, <1>5, <1>9 DEF Older

\* Numbering the columns of a circle from st on
LEMMA Circle ==
  ASSUME NEW n \in Nat \ {0}, NEW st \in 0..(n - 1)
  PROVE  /\ \A x \in 0..(n - 1) :
              /\ (st + x) % n \in 0..(n - 1)
              /\ x = IF (st + x) % n >= st THEN ((st + x) % n) - st ELSE ((st + x) % n) - st + n
         /\ \A c \in 0..(n - 1), d \in 0..(n - 1) :
              /\ (IF c >= st THEN c - st ELSE c - st + n) \in 0..(n - 1)
              /\ (IF c >= st THEN c - st ELSE c - st + n) = (IF d >= st THEN d - st ELSE d - st + n) => c = d
<1>1. ASSUME NEW x \in 0..(n - 1)
      PROVE  /\ (st + x) % n \in 0..(n - 1)
             /\ x = IF (st + x) % n >= st THEN ((st + x) % n) - st ELSE ((st + x) % n) - st + n
  <2>1. (st + x) % n = IF st + x < n THEN st + x ELSE st + x - n
    <3>1. PICK y \in Int : y = st + x /\ 0 <= y /\ y < 2 * n
      OBVIOUS
    <3>2. y % n = IF y < n THEN y ELSE y - n
      <4>1. \A z \in Int : (0 <= z /\ z < n => z % n = z) /\ (n <= z /\ z < 2 * n => z % n = z - n)
        BY Remainder
      <4>. QED BY <3>1, <4>1
    <3>. QED BY <3>1, <3>2
  <2>. QED BY <2>1
<1>. QED BY <1>1

\* The columns by their ranks
LEMMA Ranks ==
  ASSUME Filling, NEW l \in reference_lanes
  PROVE  /\ \A x \in 0..(ctx.columns - 1) :
              (start + x) % ctx.columns \in Column /\ Rank((start + x) % ctx.columns) = x
         /\ \A c \in Column : Rank(c) \in 0..(ctx.columns - 1)
         /\ \A c, d \in Column : Rank(c) = Rank(d) => c = d
<1>1. ctx.columns \in Nat \ {0} /\ Column = 0..(ctx.columns - 1) /\ start \in Column
  BY FillingFacts, AreaBounds
<1>2. PICK n \in Nat \ {0} : n = ctx.columns
  BY <1>1
<1>3. PICK st \in 0..(n - 1) : st = start
  BY <1>1, <1>2
<1>4. \A c : Rank(c) = IF c >= st THEN c - st ELSE c - st + n
  BY <1>2, <1>3 DEF Rank
<1>5. Column = 0..(n - 1)
  BY <1>1, <1>2
<1>6. \A x \in 0..(n - 1) :
        /\ (st + x) % n \in 0..(n - 1)
        /\ x = IF (st + x) % n >= st THEN ((st + x) % n) - st ELSE ((st + x) % n) - st + n
  BY Circle
<1>7. \A c \in 0..(n - 1), d \in 0..(n - 1) :
        /\ (IF c >= st THEN c - st ELSE c - st + n) \in 0..(n - 1)
        /\ (IF c >= st THEN c - st ELSE c - st + n) = (IF d >= st THEN d - st ELSE d - st + n) => c = d
  BY Circle
<1>8. \A c \in Column : Rank(c) \in 0..(n - 1)
  BY <1>4, <1>5, <1>7
<1>9. \A c, d \in Column : Rank(c) = Rank(d) => c = d
  BY <1>4, <1>5, <1>7
<1>10. \A x \in 0..(n - 1) : (st + x) % n \in Column /\ Rank((st + x) % n) = x
  BY <1>4, <1>5, <1>6
<1>. QED BY <1>2, <1>3, <1>8, <1>9, <1>10

\* The rank that a word picks: any of the area, the newest for zero and the oldest for the
\* largest word.
LEMMA Picked ==
  ASSUME NEW size \in Nat \ {0}
  PROVE  /\ \A j \in 0..(WordRange - 1) : relative(j, size) \in 0..(size - 1)
         /\ relative(0, size) = size - 1
         /\ 2 * size <= WordRange => relative(WordRange - 1, size) = 0
<1>1. PICK W \in Nat \ {0} : W = WordRange
  BY Argon2Assumption
<1>2. ASSUME NEW j \in 0..(W - 1)
      PROVE  (size * ((j * j) \div W)) \div W \in 0..(size - 1)
  <2>1. PICK x \in 0..(W - 1) : x = (j * j) \div W
    OBVIOUS
  <2>2. (size * x) \div W \in 0..(size - 1)
    OBVIOUS
  <2>. QED BY <2>1, <2>2
<1>3. (size * ((0 * 0) \div W)) \div W = 0
  OBVIOUS
<1>4. 2 * size <= W => (size * (((W - 1) * (W - 1)) \div W)) \div W = size - 1
  <2>1. SUFFICES ASSUME 2 * size <= W
                 PROVE  (size * (((W - 1) * (W - 1)) \div W)) \div W = size - 1
    OBVIOUS
  <2>2. ((W - 1) * (W - 1)) \div W = W - 2
    BY <2>1
  <2>3. (size * (W - 2)) \div W = size - 1
    BY <2>1
  <2>. QED BY <2>2, <2>3
<1>5. \A j \in 0..(W - 1) : relative(j, size) \in 0..(size - 1)
  BY <1>1, <1>2 DEF relative
<1>6. relative(0, size) = size - 1
  BY <1>1, <1>3 DEF relative
<1>7. 2 * size <= W => relative(W - 1, size) = 0
  BY <1>1, <1>4 DEF relative
<1>. QED BY <1>1, <1>5, <1>6, <1>7

\* The number of elements of a set that can be numbered
LEMMA Numbered ==
  ASSUME NEW n \in Nat, NEW S, NEW f \in Bijection(0..(n - 1), S)
  PROVE  Cardinality(S) = n
<1>1. IsFiniteSet(0..(n - 1)) /\ Cardinality(0..(n - 1)) = n
  BY FS_Interval
<1>. QED BY <1>1, FS_Bijection DEF ExistsBijection

\* The ranks number the window from 0 to area(l) - 1.
LEMMA WindowSize ==
  ASSUME Filling, NEW l \in reference_lanes
  PROVE  Cardinality(ReferenceWindow(l)) = area(l)
<1>. DEFINE at(x) == (start + x) % ctx.columns
            f == [x \in 0..(area(l) - 1) |-> at(x)]
<1>1. area(l) \in 1..(ctx.columns - 1) /\ ctx.columns \in Nat
  BY AreaBounds, FillingFacts
<1>2. \A x \in 0..(area(l) - 1) : at(x) \in Column /\ Rank(at(x)) = x
  BY <1>1, Ranks
<1>3. \A c \in Column : Rank(c) \in 0..(ctx.columns - 1) /\ \A d \in Column : Rank(c) = Rank(d) => c = d
  BY Ranks
<1>4. ReferenceWindow(l) \subseteq Column
  BY DEF ReferenceWindow
<1>5. \A c \in Column : c \in ReferenceWindow(l) <=> Rank(c) < area(l)
  BY WindowIsPrefix
<1>6. PICK n \in Nat : n = area(l)
  BY <1>1
<1>. HIDE DEF at
<1>7. f \in Bijection(0..(n - 1), ReferenceWindow(l))
  <2>1. f \in [0..(n - 1) -> ReferenceWindow(l)]
    BY <1>2, <1>5, <1>6
  <2>2. \A x, y \in 0..(n - 1) : f[x] = f[y] => x = y
    BY <1>2, <1>6
  <2>3. \A c \in ReferenceWindow(l) : \E x \in 0..(n - 1) : f[x] = c
    <3>1. TAKE c \in ReferenceWindow(l)
    <3>2. c \in Column /\ Rank(c) \in 0..(n - 1)
      BY <1>3, <1>4, <1>5, <1>6
    <3>3. f[Rank(c)] = c
      BY <1>2, <1>3, <1>6, <3>2
    <3>. QED BY <3>2, <3>3
  <2>4. DOMAIN f = 0..(n - 1)
    BY <1>6
  <2>. HIDE DEF f
  <2>. QED BY <2>1, <2>2, <2>3, <2>4 DEF Bijection, Injection, Surjection, IsInjective
<1>. QED BY <1>6, <1>7, Numbered

\* Every word refers into the window, and the extreme words reach its ends.
LEMMA WindowReached ==
  ASSUME Filling, NEW l \in reference_lanes
  PROVE  /\ area(l) = Cardinality(ReferenceWindow(l))
         /\ \A j1 \in 0..(WordRange - 1) : reference_column(j1, l) \in ReferenceWindow(l)
         /\ \A c \in ReferenceWindow(l) :
              /\ c = reference_column(0, l) \/ Older(l, c, reference_column(0, l))
              /\ 2 * area(l) <= WordRange =>
                   c = reference_column(WordRange - 1, l) \/ Older(l, reference_column(WordRange - 1, l), c)
<1>. DEFINE a == area(l)
<1>1. a \in Nat \ {0} /\ a \in 1..(ctx.columns - 1) /\ ctx.columns \in Nat
  BY AreaBounds, FillingFacts
<1>2. \A j \in 0..(WordRange - 1) : relative(j, a) \in 0..(a - 1)
  BY <1>1, Picked
<1>3. relative(0, a) = a - 1 /\ (2 * a <= WordRange => relative(WordRange - 1, a) = 0)
  BY <1>1, Picked
<1>. HIDE DEF a
<1>4. \A j \in 0..(WordRange - 1) :
        reference_column(j, l) \in Column /\ Rank(reference_column(j, l)) = relative(j, a)
  BY <1>1, <1>2, Ranks DEF reference_column, a
<1>5. ReferenceWindow(l) \subseteq Column /\ \A c \in Column : c \in ReferenceWindow(l) <=> Rank(c) < a
  BY WindowIsPrefix DEF ReferenceWindow, a
<1>6. \A c \in Column : Rank(c) \in Nat /\ \A d \in Column : Rank(c) = Rank(d) => c = d
  BY <1>1, Ranks
<1>7. \A c, d \in Column : Rank(c) < Rank(d) /\ Rank(d) < a => Older(l, c, d)
  BY OlderFirst DEF a
<1>8. 0 \in 0..(WordRange - 1) /\ WordRange - 1 \in 0..(WordRange - 1)
  BY Argon2Assumption
<1>9. \A j \in 0..(WordRange - 1) : reference_column(j, l) \in ReferenceWindow(l)
  BY <1>1, <1>2, <1>4, <1>5
<1>10. ASSUME NEW c \in ReferenceWindow(l)
       PROVE  /\ c = reference_column(0, l) \/ Older(l, c, reference_column(0, l))
              /\ 2 * a <= WordRange =>
                   c = reference_column(WordRange - 1, l) \/ Older(l, reference_column(WordRange - 1, l), c)
  <2>1. c \in Column /\ Rank(c) \in Nat /\ Rank(c) < a
    BY <1>5, <1>6
  <2>2. PICK u, v : u = reference_column(0, l) /\ v = reference_column(WordRange - 1, l)
    OBVIOUS
  <2>3. u \in Column /\ v \in Column /\ Rank(u) = a - 1 /\ (2 * a <= WordRange => Rank(v) = 0)
    BY <1>3, <1>4, <1>8, <2>2
  <2>4. c = u \/ Older(l, c, u)
    BY <1>1, <1>6, <1>7, <2>1, <2>3
  <2>5. 2 * a <= WordRange => c = v \/ Older(l, v, c)
    BY <1>1, <1>6, <1>7, <2>1, <2>3
  <2>. QED BY <2>2, <2>4, <2>5
<1>. QED BY <1>9, <1>10, WindowSize DEF a

\* The counter and the remainder are the two digits of the block's own number.
LEMMA OwnBlocks ==
  ASSUME ArgonInv
  PROVE  EveryBlockItsOwn
<1>1. ASSUME phase = "fill", use_independent, index_in_segment > First(pass_number, slice_number)
      PROVE  (address_counter - 1) * WordsPerBlock + ((index_in_segment - 1) % WordsPerBlock)
               = index_in_segment - 1
  <2>1. ContextSound /\ LoopsSound /\ AddressesSound
    BY <1>1 DEF ArgonInv
  <2>2. PICK x \in Nat : x = index_in_segment - 1
    BY <1>1, <2>1 DEF LoopsSound, ContextSound, First
  <2>3. address_counter = (x \div WordsPerBlock) + 1
    BY <1>1, <2>1, <2>2 DEF AddressesSound
  <2>4. PICK w \in Nat \ {0} : w = WordsPerBlock
    BY Argon2Assumption
  <2>5. PICK q \in Int : q = x \div w
    OBVIOUS
  <2>6. q * w + (x % w) = x
    BY <2>5
  <2>7. address_counter - 1 = q
    BY <2>3, <2>4, <2>5
  <2>. QED BY <2>2, <2>4, <2>6, <2>7
<1>2. ASSUME phase = "done", NEW l \in Lane, NEW c \in Column
      PROVE  memory[l][c] = SYNC_POINTS * (ctx.passes - 1) + c \div ctx.segment
  <2>1. ContextSound /\ LoopsSound /\ MemorySound
    BY <1>2 DEF ArgonInv
  <2>2. l \in Nat /\ c \in 0..(4 * ctx.segment - 1)
    BY <2>1 DEF ContextSound, Lane, Column
  <2>3. PICK k \in 0..3, r \in 0..(ctx.segment - 1) : k = c \div ctx.segment /\ r = c % ctx.segment
    BY <2>1, <2>2, Located DEF ContextSound
  <2>4. memory[l][c] = FillOf(ctx.passes, 0, 0, 0, l, k, r)
    BY <1>2, <2>1, <2>3 DEF MemorySound, LoopsSound
  <2>5. FillOf(ctx.passes, 0, 0, 0, l, k, r) = 4 * ctx.passes - 4 + k
    BY <2>1, <2>2 DEF FillOf, FilledAt, ContextSound
  <2>6. 4 * ctx.passes - 4 + k = 4 * (ctx.passes - 1) + k
    BY <2>1 DEF ContextSound
  <2>. QED BY <2>3, <2>4, <2>5, <2>6 DEF SYNC_POINTS
<1>. QED BY <1>1, <1>2 DEF EveryBlockItsOwn

\* For every number of lanes, slices of every size, every number of passes and every word,
\* _reference_index refers to a block of the window that RFC 9106 allows, every block of the
\* window is in reach of the rank that its age gives it, and each block has an address of its
\* own (argon2.py, _reference_index and argon2).
THEOREM BlocksFilled == ArgonSpec => []FillingExact
<1>1. ArgonInit => ArgonInv
  BY DEF ArgonInit, ArgonInv
<1>2. ArgonInv => FillingExact
  <2>1. ASSUME ArgonInv
        PROVE  ReferencesInWindow
    BY <2>1, WindowReached DEF ReferencesInWindow, Filling
  <2>. QED BY <2>1, OwnBlocks DEF FillingExact
<1>. QED BY <1>1, <1>2, ArgonStep, PTL DEF ArgonSpec

(***************************************************************************)
(* The directory.                                                          *)
(***************************************************************************)

\* The provider and one paging client; the model states no fairness.
ScimSpec == ScimInit /\ [][ScimNext]_scimVars

\* The dictionary: every user has a place and one last event.
DirectorySound ==
  /\ users = [u \in DOMAIN users |-> users[u]] /\ DOMAIN users \subseteq DOMAIN place
  /\ place = [u \in DOMAIN place |-> place[u]] /\ DOMAIN place \subseteq UserId
  /\ \A u \in DOMAIN place : place[u] \in 1..Cardinality(DOMAIN place)
  /\ \A u, v \in DOMAIN place : place[u] = place[v] => u = v
  /\ reported = [u \in DOMAIN users |-> reported[u]]

\* The list that the client pages through.
List == InList(users, walk.filter)

\* Whom the client has gone past without seeing him.
Missed == {u \in walk.expected \ walk.listed : ListIndex(List, u) < walk.start_index}

\* One user is missed at most for each that dropped out behind the client.
WalkSound ==
  /\ walk \in [start_index : Nat, filter : Filter, expected : SUBSET UserId,
               listed : SUBSET UserId, lost : Nat]
  /\ walk.expected \subseteq List
  /\ Cardinality(Missed) <= walk.lost

\* The inductive invariant
ScimInv == DirectorySound /\ WalkSound /\ AccountsTraceable

\* Users with places of their own
Placed(S) ==
  /\ IsFiniteSet(S)
  /\ \A u \in S : place[u] \in Nat
  /\ \A u, v \in S : place[u] = place[v] => u = v

UpTo(S, u) == {v \in S : place[v] <= place[u]}

\* An index counts the users up to one's own place.
LEMMA IndexType ==
  ASSUME NEW S, Placed(S), NEW u \in S
  PROVE  /\ IsFiniteSet(UpTo(S, u)) /\ ListIndex(S, u) = Cardinality(UpTo(S, u))
         /\ ListIndex(S, u) \in Nat /\ ListIndex(S, u) >= 1
<1>1. IsFiniteSet(UpTo(S, u)) /\ ListIndex(S, u) = Cardinality(UpTo(S, u))
  BY FS_Subset DEF Placed, UpTo, ListIndex
<1>2. u \in UpTo(S, u)
  BY DEF Placed, UpTo
<1>3. Cardinality(UpTo(S, u)) \in Nat /\ Cardinality(UpTo(S, u)) # 0
  BY <1>1, <1>2, FS_CardinalityType, FS_EmptySet
<1>. QED BY <1>1, <1>3

\* Who comes later has a larger index.
LEMMA IndexOrder ==
  ASSUME NEW S, Placed(S), NEW u \in S, NEW v \in S, place[u] < place[v]
  PROVE  ListIndex(S, u) < ListIndex(S, v)
<1>1. place[u] \in Nat /\ place[v] \in Nat /\ \A w \in S : place[w] \in Nat
  BY DEF Placed
<1>2. UpTo(S, u) \in SUBSET (UpTo(S, v) \ {v}) /\ v \in UpTo(S, v)
  BY <1>1 DEF UpTo
<1>3. IsFiniteSet(UpTo(S, v)) /\ Cardinality(UpTo(S, v)) \in Nat
  BY IndexType
<1>4. IsFiniteSet(UpTo(S, v) \ {v}) /\ Cardinality(UpTo(S, v) \ {v}) = Cardinality(UpTo(S, v)) - 1
  BY <1>2, <1>3, FS_RemoveElement
<1>5. Cardinality(UpTo(S, u)) <= Cardinality(UpTo(S, v) \ {v})
  BY <1>2, <1>4, FS_Subset
<1>. QED BY <1>3, <1>4, <1>5, IndexType

LEMMA IndexInjective ==
  ASSUME NEW S, Placed(S), NEW u \in S, NEW v \in S, ListIndex(S, u) = ListIndex(S, v)
  PROVE  u = v
<1>1. place[u] \in Nat /\ place[v] \in Nat /\ (place[u] = place[v] => u = v)
  BY DEF Placed
<1>2. ListIndex(S, u) \in Nat /\ ListIndex(S, v) \in Nat
  BY IndexType
<1>3. ~(place[u] < place[v])
  BY <1>2, IndexOrder
<1>4. ~(place[v] < place[u])
  BY <1>2, IndexOrder
<1>. QED BY <1>1, <1>3, <1>4

\* Who comes into the list moves the others away from its beginning.
LEMMA IndexGrows ==
  ASSUME NEW T, Placed(T), NEW S \in SUBSET T, NEW u \in S
  PROVE  Placed(S) /\ ListIndex(S, u) <= ListIndex(T, u)
<1>1. Placed(S)
  BY FS_Subset DEF Placed
<1>2. UpTo(S, u) \in SUBSET UpTo(T, u)
  BY DEF UpTo
<1>3. Cardinality(UpTo(S, u)) <= Cardinality(UpTo(T, u))
  BY <1>2, IndexType, FS_Subset
<1>. QED BY <1>1, <1>3, IndexType

\* Who leaves the list moves those behind him by one.
LEMMA IndexWithout ==
  ASSUME NEW S, Placed(S), NEW w \in S, NEW u \in S \ {w}
  PROVE  ListIndex(S \ {w}, u) =
           IF place[w] < place[u] THEN ListIndex(S, u) - 1 ELSE ListIndex(S, u)
<1>1. Placed(S \ {w}) /\ IsFiniteSet(UpTo(S, u)) /\ Cardinality(UpTo(S, u)) \in Nat
  BY IndexGrows, IndexType
<1>2. place[u] \in Nat /\ place[w] \in Nat /\ place[u] # place[w]
  BY DEF Placed
<1>3. UpTo(S \ {w}, u) = UpTo(S, u) \ {w} /\ (w \in UpTo(S, u) <=> place[w] < place[u])
  BY <1>2 DEF UpTo
<1>4. Cardinality(UpTo(S, u) \ {w}) =
        IF w \in UpTo(S, u) THEN Cardinality(UpTo(S, u)) - 1 ELSE Cardinality(UpTo(S, u))
  BY <1>1, FS_RemoveElement
<1>. QED BY <1>1, <1>3, <1>4, IndexType

\* Users with indexes in an interval are no more than it has numbers.
LEMMA IndexCount ==
  ASSUME NEW S, Placed(S), NEW a \in Nat, NEW b \in Nat, NEW R \in SUBSET S,
         \A u \in R : ListIndex(S, u) \in a..b
  PROVE  IsFiniteSet(R) /\ Cardinality(R) <= Cardinality(a..b)
<1>. DEFINE f == [u \in R |-> ListIndex(S, u)]
<1>1. f \in [R -> a..b]
  OBVIOUS
<1>2. \A u, v \in R : f[u] = f[v] => u = v
  BY IndexInjective
<1>3. f \in Injection(R, a..b)
  BY <1>1, <1>2 DEF Injection, IsInjective
<1>4. IsFiniteSet(a..b)
  BY FS_Interval
<1>. QED BY <1>3, <1>4, FS_Injection

\* The indexes have no gap: if nobody's is in the page, everybody's is before it.
LEMMA IndexDense ==
  ASSUME NEW S, Placed(S), NEW s \in Nat, s >= 1, Page(S, s) = {}, NEW u \in S
  PROVE  ListIndex(S, u) < s
<1>. SUFFICES ASSUME ListIndex(S, u) >= s PROVE FALSE
  BY IndexType
<1>. DEFINE R == {n \in Nat : n >= s /\ \E v \in S : ListIndex(S, v) = n}
<1>1. R \in SUBSET Nat /\ R # {}
  BY IndexType
<1>2. PICK m \in R : \A n \in R : m <= n
  BY <1>1, LeastExists
<1>3. PICK v \in S : ListIndex(S, v) = m
  OBVIOUS
<1>4. m \in Nat /\ m >= s
  OBVIOUS
<1>5. m # s
  BY <1>3, ScimAssumption DEF Page
<1>6. \A w \in UpTo(S, v) \ {v} : ListIndex(S, w) \in 1..(s - 1)
  <2>. TAKE w \in UpTo(S, v) \ {v}
  <2>1. w \in S /\ place[w] < place[v]
    BY DEF UpTo, Placed
  <2>2. ListIndex(S, w) < m /\ ListIndex(S, w) \in Nat /\ ListIndex(S, w) >= 1
    BY <1>3, <2>1, IndexOrder, IndexType
  <2>3. ListIndex(S, w) \notin R
    BY <1>2, <1>4, <2>2
  <2>. QED BY <2>1, <2>2, <2>3
<1>7. UpTo(S, v) \ {v} \in SUBSET S /\ v \in UpTo(S, v)
  BY DEF UpTo, Placed
<1>8. Cardinality(UpTo(S, v) \ {v}) <= Cardinality(1..(s - 1))
  <2>1. 1 \in Nat /\ s - 1 \in Nat
    OBVIOUS
  <2>. QED BY <1>6, <1>7, <2>1, IndexCount
<1>9. Cardinality(1..(s - 1)) = s - 1
  BY FS_Interval
<1>10. Cardinality(UpTo(S, v) \ {v}) = m - 1
  <2>1. IsFiniteSet(UpTo(S, v)) /\ Cardinality(UpTo(S, v)) = m
    BY <1>3, IndexType
  <2>. QED BY <1>4, <1>7, <2>1, FS_RemoveElement
<1>. QED BY <1>4, <1>5, <1>8, <1>9, <1>10

\* The users of the directory have places of their own.
LEMMA DirectoryPlaced ==
  ASSUME DirectorySound, NEW S \in SUBSET DOMAIN place
  PROVE  Placed(S) /\ IsFiniteSet(DOMAIN place) /\ Cardinality(DOMAIN place) \in Nat
<1>1. IsFiniteSet(DOMAIN place) /\ IsFiniteSet(S) /\ Cardinality(DOMAIN place) \in Nat
  <2>1. IsFiniteSet(DOMAIN place)
    BY ScimAssumption, FS_Subset DEF DirectorySound
  <2>. QED BY <2>1, FS_Subset, FS_CardinalityType
<1>2. \A u \in S : place[u] \in Nat
  BY <1>1 DEF DirectorySound
<1>. QED BY <1>1, <1>2 DEF DirectorySound, Placed

LEMMA ListPlaced ==
  ASSUME DirectorySound
  PROVE  \A filter : InList(users, filter) \in SUBSET DOMAIN place /\ Placed(InList(users, filter))
<1>1. \A filter : InList(users, filter) \in SUBSET DOMAIN place
  BY DEF DirectorySound, InList
<1>. QED BY <1>1, DirectoryPlaced

\* An empty directory and no client.
LEMMA ScimInitially == ScimInit => ScimInv
<1>. SUFFICES ASSUME ScimInit PROVE ScimInv
  OBVIOUS
<1>1. DOMAIN users = {} /\ DOMAIN place = {} /\ users = <<>> /\ reported = <<>> /\ place = <<>>
  BY DEF ScimInit
<1>2. /\ users = [u \in DOMAIN users |-> users[u]] /\ reported = [u \in DOMAIN users |-> reported[u]]
      /\ place = [u \in DOMAIN place |-> place[u]]
  BY <1>1
<1>3. DirectorySound
  BY <1>1, <1>2 DEF DirectorySound
<1>4. WalkSound
  <2>1. walk.expected = {} /\ walk.lost = 0 /\ Missed = {}
    BY DEF ScimInit, NoWalk, Missed
  <2>2. walk \in [start_index : Nat, filter : Filter, expected : SUBSET UserId,
                  listed : SUBSET UserId, lost : Nat]
    BY DEF ScimInit, NoWalk, Filter
  <2>. QED BY <2>1, <2>2, FS_EmptySet DEF WalkSound
<1>5. AccountsTraceable
  BY <1>1 DEF AccountsTraceable, NamesForkOnlyByRename, EventsTellActive
<1>. QED BY <1>3, <1>4, <1>5 DEF ScimInv

\* What an event prints tells whether an account is active, but for the text "False".
LEMMA TextTells ==
  \A active : (EventText(active) = "True") # IsTrue(active) => active = "False_text"
BY DEF EventText, IsTrue, Null

\* A client that has not begun is owed nothing.
LEMMA IdleWalk ==
  /\ NoWalk \in [start_index : Nat, filter : Filter, expected : SUBSET UserId,
                 listed : SUBSET UserId, lost : Nat]
  /\ NoWalk.expected = {} /\ NoWalk.lost = 0 /\ Cardinality({}) = 0
BY FS_EmptySet DEF NoWalk, Filter

\* A set that has one element at most beyond another
LEMMA OneMore ==
  ASSUME NEW A, IsFiniteSet(A), NEW B, \A u, v \in B \ A : u = v
  PROVE  IsFiniteSet(B) /\ Cardinality(B) <= Cardinality(A) + 1
<1>1. Cardinality(A) \in Nat
  BY FS_CardinalityType
<1>2. CASE B \in SUBSET A
  BY <1>1, <1>2, FS_Subset, FS_CardinalityType
<1>3. CASE \E u : u \in B \ A
  <2>1. PICK u : u \in B \ A
    BY <1>3
  <2>2. IsFiniteSet(A \cup {u}) /\ Cardinality(A \cup {u}) = Cardinality(A) + 1
    BY <2>1, FS_AddElement
  <2>3. B \in SUBSET (A \cup {u})
    BY <2>1
  <2>. QED BY <2>2, <2>3, FS_Subset
<1>. QED BY <1>2, <1>3

\* A change of one user disturbs the client by no more than it is counted.
LEMMA FollowedKeeps ==
  ASSUME DirectorySound, WalkSound, NEW id \in DOMAIN users, place' = place,
         DOMAIN users' \subseteq DOMAIN users, walk' = Followed(users'),
         \A u \in DOMAIN users : u # id => u \in DOMAIN users' /\ users'[u] = users[u]
  PROVE  WalkSound'
<1>. DEFINE M == InList(users, walk.filter)
            N == InList(users', walk.filter)
            first_unread == walk.start_index
            behind == {u \in M \ N : ListIndex(M, u) < first_unread}
            passed == {u \in (walk.expected \ (M \ N)) \ walk.listed : ListIndex(N, u) < first_unread}
<1>1. /\ first_unread \in Nat /\ walk.lost \in Nat /\ walk.filter \in Filter
      /\ walk.expected \in SUBSET UserId /\ walk.listed \in SUBSET UserId /\ walk.expected \in SUBSET M
  BY DEF WalkSound, List
<1>2. /\ walk' = [walk EXCEPT !.expected = @ \ (M \ N), !.lost = @ + Cardinality(behind)]
      /\ walk'.start_index = first_unread /\ walk'.filter = walk.filter /\ walk'.listed = walk.listed
      /\ walk'.expected = walk.expected \ (M \ N) /\ walk'.lost = walk.lost + Cardinality(behind)
  BY DEF Followed, WalkSound
<1>3. /\ M \in SUBSET DOMAIN place /\ Placed(M) /\ N \in SUBSET DOMAIN place /\ Placed(N)
      /\ \A u : u # id => (u \in M <=> u \in N)
  <2>1. N \in SUBSET DOMAIN place
    BY DEF DirectorySound, InList
  <2>2. \A u : u # id => (u \in M <=> u \in N)
    BY DEF InList
  <2>. QED BY <2>1, <2>2, DirectoryPlaced, ListPlaced
<1>4. List' = N /\ Missed' = passed
  BY <1>2 DEF List, Missed, ListIndex
<1>5. IsFiniteSet(Missed) /\ Cardinality(Missed) \in Nat /\ Cardinality(Missed) <= walk.lost
  <2>1. Missed \in SUBSET M /\ IsFiniteSet(M)
    BY <1>1, <1>3 DEF Missed, Placed
  <2>. QED BY <2>1, FS_Subset, FS_CardinalityType DEF WalkSound
<1>6. passed \in SUBSET N /\ passed \in SUBSET M
  BY <1>1
<1>. HIDE DEF M, N, first_unread
<1>7. /\ Cardinality(behind) \in Nat /\ IsFiniteSet(passed)
      /\ Cardinality(passed) \in Nat /\ Cardinality(passed) <= walk.lost + Cardinality(behind)
  <2>1. CASE id \in M \ N /\ ListIndex(M, id) < first_unread
    <3>1. N = M \ {id} /\ behind = {id} /\ Cardinality(behind) = 1
      <4>1. N = M \ {id} /\ behind = {id}
        BY <1>3, <2>1
      <4>. QED BY <4>1, FS_Singleton
    <3>2. ASSUME NEW u \in passed \ Missed PROVE ListIndex(M, u) = first_unread
      <4>1. u \in M \ {id} /\ ListIndex(N, u) < first_unread /\ ListIndex(M, u) \in Nat /\ ~(ListIndex(M, u) < first_unread)
        BY <1>3, <1>4, <1>6, <3>1, IndexType DEF Missed, List, M, first_unread
      <4>2. ListIndex(N, u) \in {ListIndex(M, u) - 1, ListIndex(M, u)}
        BY <1>3, <2>1, <3>1, <4>1, IndexWithout
      <4>. QED BY <1>1, <4>1, <4>2
    <3>3. \A u, v \in passed \ Missed : u = v
      BY <1>3, <1>6, <3>2, IndexInjective
    <3>4. IsFiniteSet(passed) /\ Cardinality(passed) <= Cardinality(Missed) + 1
      BY <1>5, <3>3, OneMore
    <3>. QED BY <1>1, <1>5, <3>1, <3>4, FS_CardinalityType
  <2>2. CASE id \in M \ N /\ ~(ListIndex(M, id) < first_unread)
    <3>1. N = M \ {id} /\ behind = {} /\ Cardinality(behind) = 0
      BY <1>3, <2>2, FS_EmptySet
    <3>2. ASSUME NEW u \in passed PROVE u \in Missed
      <4>1. u \in M \ {id} /\ ListIndex(N, u) < first_unread /\ ListIndex(M, u) \in Nat /\ ListIndex(M, id) \in Nat
        BY <1>3, <1>6, <2>2, <3>1, IndexType
      <4>2. ListIndex(N, u) = IF place[id] < place[u] THEN ListIndex(M, u) - 1 ELSE ListIndex(M, u)
        BY <1>3, <2>2, <3>1, <4>1, IndexWithout
      <4>3. place[id] < place[u] => ListIndex(M, id) < ListIndex(M, u)
        BY <1>3, <2>2, <4>1, IndexOrder
      <4>4. ListIndex(M, u) < first_unread
        BY <1>1, <2>2, <4>1, <4>2, <4>3
      <4>. QED BY <4>4 DEF Missed, List, M, first_unread
    <3>3. passed \in SUBSET Missed
      BY <3>2
    <3>4. IsFiniteSet(passed) /\ Cardinality(passed) \in Nat /\ Cardinality(passed) <= Cardinality(Missed)
      BY <1>5, <3>3, FS_Subset, FS_CardinalityType
    <3>. QED BY <1>1, <1>5, <3>1, <3>4
  <2>3. CASE id \notin M \ N
    <3>1. M \in SUBSET N /\ behind = {} /\ Cardinality(behind) = 0
      BY <1>3, <2>3, FS_EmptySet
    <3>2. ASSUME NEW u \in passed PROVE u \in Missed
      <4>1. u \in M /\ ListIndex(N, u) < first_unread /\ ListIndex(M, u) \in Nat /\ ListIndex(N, u) \in Nat
        BY <1>3, <1>6, IndexType
      <4>2. ListIndex(M, u) <= ListIndex(N, u)
        BY <1>3, <3>1, <4>1, IndexGrows
      <4>3. ListIndex(M, u) < first_unread
        BY <1>1, <4>1, <4>2
      <4>. QED BY <4>3 DEF Missed, List, M, first_unread
    <3>3. passed \in SUBSET Missed
      BY <3>2
    <3>4. IsFiniteSet(passed) /\ Cardinality(passed) \in Nat /\ Cardinality(passed) <= Cardinality(Missed)
      BY <1>5, <3>3, FS_Subset, FS_CardinalityType
    <3>. QED BY <1>1, <1>5, <3>1, <3>4
  <2>. QED BY <2>1, <2>2, <2>3
<1>8. walk'.expected \in SUBSET N
  BY <1>1, <1>2
<1>9. walk' \in [start_index : Nat, filter : Filter, expected : SUBSET UserId,
                 listed : SUBSET UserId, lost : Nat]
  <2>. HIDE DEF behind, passed
  <2>1. walk.expected \ (M \ N) \in SUBSET UserId /\ walk.lost + Cardinality(behind) \in Nat
    BY <1>1, <1>7
  <2>2. walk \in [start_index : Nat, filter : Filter, expected : SUBSET UserId,
                  listed : SUBSET UserId, lost : Nat]
    BY DEF WalkSound
  <2>. QED BY <1>2, <2>1, <2>2
<1>. QED BY <1>2, <1>4, <1>7, <1>8, <1>9 DEF WalkSound

\* POST: the id is new and gets the last place; the name is nobody's.
LEMMA CreateKeeps ==
  ASSUME ScimInv, NEW id \in UserId, NEW name \in UserName, NEW active, create_user(id, name, active)
  PROVE  ScimInv'
<1>1. DirectorySound /\ WalkSound /\ NamesForkOnlyByRename /\ EventsTellActive
  BY DEF ScimInv, AccountsTraceable
<1>2. PICK user : user = [user_name |-> name, active |-> IF active = NotGiven THEN "true" ELSE active]
  OBVIOUS
<1>3. /\ id \notin DOMAIN place /\ ~NameTaken(name) /\ users' = With(users, id, user)
      /\ place' = With(place, id, Cardinality(DOMAIN place) + 1)
      /\ reported' = With(reported, id, EventText(users'[id].active))
      /\ unreported' = unreported /\ renamed' = renamed /\ walk' = walk
  BY <1>2 DEF create_user
<1>4. id \notin DOMAIN users
  BY <1>1, <1>3 DEF DirectorySound
<1>5. /\ DOMAIN users' = DOMAIN users \cup {id} /\ users' = [u \in DOMAIN users' |-> users'[u]]
      /\ users'[id] = user /\ user.user_name = name
      /\ \A u \in DOMAIN users : users'[u] = users[u]
  BY <1>2, <1>3, <1>4 DEF With
<1>6. /\ reported' = [u \in DOMAIN users' |-> reported'[u]]
      /\ reported'[id] = EventText(user.active) /\ \A u \in DOMAIN users : reported'[u] = reported[u]
  <2>1. DOMAIN reported = DOMAIN users
    BY <1>1 DEF DirectorySound
  <2>. QED BY <1>3, <1>4, <1>5, <2>1 DEF With
<1>7. /\ IsFiniteSet(DOMAIN place) /\ Cardinality(DOMAIN place) \in Nat
      /\ DOMAIN place' = DOMAIN place \cup {id} /\ place' = [u \in DOMAIN place' |-> place'[u]]
      /\ Cardinality(DOMAIN place') = Cardinality(DOMAIN place) + 1
      /\ place'[id] = Cardinality(DOMAIN place) + 1 /\ \A u \in DOMAIN place : place'[u] = place[u]
  <2>1. IsFiniteSet(DOMAIN place) /\ Cardinality(DOMAIN place) \in Nat
    BY <1>1, DirectoryPlaced
  <2>2. /\ DOMAIN place' = DOMAIN place \cup {id} /\ place' = [u \in DOMAIN place' |-> place'[u]]
        /\ place'[id] = Cardinality(DOMAIN place) + 1 /\ \A u \in DOMAIN place : place'[u] = place[u]
    BY <1>3 DEF With
  <2>. QED BY <1>3, <2>1, <2>2, FS_AddElement
<1>8. DirectorySound'
  <2>1. \A u \in DOMAIN place : place[u] \in 1..Cardinality(DOMAIN place)
    BY <1>1 DEF DirectorySound
  <2>2. \A u \in DOMAIN place' : place'[u] \in 1..Cardinality(DOMAIN place')
    BY <1>7, <2>1
  <2>3. \A u, v \in DOMAIN place' : place'[u] = place'[v] => u = v
    BY <1>1, <1>7, <2>1 DEF DirectorySound
  <2>4. DOMAIN users' \subseteq DOMAIN place' /\ DOMAIN place' \subseteq UserId
    BY <1>1, <1>5, <1>7 DEF DirectorySound
  <2>. QED BY <1>5, <1>6, <1>7, <2>2, <2>3, <2>4 DEF DirectorySound
<1>9. WalkSound'
  <2>. DEFINE N == InList(users', walk.filter)
  <2>1. List \in SUBSET N /\ List \in SUBSET DOMAIN users /\ \A u \in N : u \in List \/ u = id
    BY <1>5 DEF List, InList
  <2>2. Placed(List) /\ IsFiniteSet(List) /\ \A u \in List : place[u] \in Nat
    BY <1>1, ListPlaced DEF List, Placed
  <2>3. List' = N
    BY <1>3 DEF List
  <2>4. ASSUME NEW u \in List
        PROVE  Cardinality({v \in N : place'[v] <= place'[u]}) = ListIndex(List, u)
    <3>1. place'[u] = place[u] /\ place[u] \in 1..Cardinality(DOMAIN place) /\ \A v \in List : place'[v] = place[v]
      BY <1>1, <1>7, <2>1 DEF DirectorySound
    <3>2. ~(place'[id] <= place'[u])
      BY <1>7, <3>1
    <3>3. {v \in N : place'[v] <= place'[u]} = {v \in List : place[v] <= place[u]}
      BY <2>1, <3>1, <3>2
    <3>. QED BY <3>3 DEF ListIndex
  <2>5. walk.expected \in SUBSET List
    BY <1>1 DEF WalkSound
  <2>6. Missed' = {u \in walk.expected \ walk.listed :
                    Cardinality({v \in N : place'[v] <= place'[u]}) < walk.start_index}
    BY <1>3, <2>3 DEF Missed, ListIndex
  <2>7. Missed' = Missed
    BY <2>4, <2>5, <2>6 DEF Missed
  <2>. QED BY <1>1, <1>3, <2>1, <2>3, <2>5, <2>7 DEF WalkSound
<1>10. NamesForkOnlyByRename'
  <2>1. \A u \in DOMAIN users : users[u].user_name # Null /\ Lower[users[u].user_name] # Lower[name]
    BY <1>3 DEF NameTaken
  <2>. QED BY <1>1, <1>3, <1>5, <2>1 DEF NamesForkOnlyByRename
<1>11. EventsTellActive'
  BY <1>1, <1>3, <1>5, <1>6, TextTells DEF EventsTellActive, is_active
<1>. QED BY <1>8, <1>9, <1>10, <1>11 DEF ScimInv, AccountsTraceable

\* A change of one user that is either reported or remembered as unreported.
LEMMA EditKeeps ==
  ASSUME ScimInv, NEW id \in DOMAIN users, NEW user,
         users' = [users EXCEPT ![id] = user],
         \/ reported' = [reported EXCEPT ![id] = EventText(user.active)] /\ unreported' = unreported \ {id}
         \/ user = users[id] /\ reported' = reported /\ unreported' = unreported
         \/ reported' = reported /\ unreported' = unreported \cup {id},
         renamed' = renamed \cup {id} \/ (renamed' = renamed /\ user.user_name = users[id].user_name),
         place' = place, walk' = Followed(users')
  PROVE  ScimInv'
<1>1. DirectorySound /\ WalkSound /\ NamesForkOnlyByRename /\ EventsTellActive
  BY DEF ScimInv, AccountsTraceable
<1>2. /\ DOMAIN users' = DOMAIN users /\ users'[id] = user
      /\ users' = [u \in DOMAIN users' |-> users'[u]]
      /\ \A u \in DOMAIN users : u # id => users'[u] = users[u]
  BY <1>1 DEF DirectorySound
<1>3. DOMAIN reported = DOMAIN users /\ reported = [u \in DOMAIN users |-> reported[u]]
  BY <1>1 DEF DirectorySound
<1>4. DirectorySound'
  <2>1. reported' = [u \in DOMAIN users' |-> reported'[u]]
    BY <1>2, <1>3
  <2>. QED BY <1>1, <1>2, <2>1 DEF DirectorySound
<1>5. NamesForkOnlyByRename'
  BY <1>1, <1>2 DEF NamesForkOnlyByRename
<1>6. EventsTellActive'
  BY <1>1, <1>2, <1>3, TextTells DEF EventsTellActive, is_active
<1>7. WalkSound'
  BY <1>1, <1>2, FollowedKeeps
<1>. QED BY <1>4, <1>5, <1>6, <1>7 DEF ScimInv, AccountsTraceable

\* PUT writes its event after the assignments.
LEMMA ReplaceKeeps ==
  ASSUME ScimInv, NEW id \in DOMAIN users, NEW name, NEW active, replace_user(id, name, active)
  PROVE  ScimInv'
<1>1. PICK user : user = Replaced(users[id], name, active)
  OBVIOUS
<1>2. users' = [users EXCEPT ![id] = user]
  BY <1>1 DEF replace_user
<1>3. users'[id] = user
  BY <1>2 DEF ScimInv, DirectorySound
<1>4. reported' = [reported EXCEPT ![id] = EventText(user.active)] /\ unreported' = unreported \ {id}
  BY <1>3 DEF replace_user
<1>5. renamed' = renamed \cup {id} \/ (renamed' = renamed /\ user.user_name = users[id].user_name)
  BY <1>3 DEF replace_user
<1>. QED BY <1>2, <1>4, <1>5, EditKeeps DEF replace_user

\* PATCH, whatever its operations do: it reports the result, or raises and is unreported.
LEMMA PatchKeeps ==
  ASSUME ScimInv, NEW id \in DOMAIN users, NEW operations, patch_user(id, operations)
  PROVE  ScimInv'
<1>1. PICK result : result = Patched(users[id], operations)
  OBVIOUS
<1>. DEFINE user == result.user
<1>2. users' = [users EXCEPT ![id] = user]
  BY <1>1 DEF patch_user
<1>3. \/ reported' = [reported EXCEPT ![id] = EventText(user.active)] /\ unreported' = unreported \ {id}
      \/ user = users[id] /\ reported' = reported /\ unreported' = unreported
      \/ reported' = reported /\ unreported' = unreported \cup {id}
  BY <1>1 DEF patch_user
<1>4. renamed' = renamed \cup {id} \/ (renamed' = renamed /\ user.user_name = users[id].user_name)
  BY <1>1 DEF patch_user
<1>5. place' = place /\ walk' = Followed(users')
  BY DEF patch_user
<1>. QED BY <1>2, <1>3, <1>4, <1>5, EditKeeps

\* DELETE pulls those behind the user towards the pages that the client has read.
LEMMA DeleteKeeps ==
  ASSUME ScimInv, NEW id \in DOMAIN users, delete_user(id)
  PROVE  ScimInv'
<1>1. DirectorySound /\ WalkSound /\ NamesForkOnlyByRename /\ EventsTellActive
  BY DEF ScimInv, AccountsTraceable
<1>2. /\ users' = [u \in DOMAIN users \ {id} |-> users[u]]
      /\ reported' = [u \in DOMAIN reported \ {id} |-> reported[u]]
      /\ unreported' = unreported \ {id} /\ renamed' = renamed \ {id}
      /\ place' = place /\ walk' = Followed(users')
  BY DEF delete_user
<1>3. DOMAIN users' = DOMAIN users \ {id} /\ users' = [u \in DOMAIN users' |-> users'[u]]
      /\ reported' = [u \in DOMAIN users' |-> reported'[u]]
      /\ \A u \in DOMAIN users' : users'[u] = users[u] /\ reported'[u] = reported[u]
  <2>1. DOMAIN reported = DOMAIN users
    BY <1>1 DEF DirectorySound
  <2>. QED BY <1>2, <2>1
<1>4. DirectorySound'
  BY <1>1, <1>2, <1>3 DEF DirectorySound
<1>5. WalkSound'
  <2>1. DOMAIN users' \subseteq DOMAIN users
        /\ \A u \in DOMAIN users : u # id => u \in DOMAIN users' /\ users'[u] = users[u]
    BY <1>3
  <2>. QED BY <1>1, <1>2, <2>1, FollowedKeeps
<1>6. NamesForkOnlyByRename'
  BY <1>1, <1>2, <1>3 DEF NamesForkOnlyByRename
<1>7. EventsTellActive'
  BY <1>1, <1>2, <1>3 DEF EventsTellActive, is_active
<1>. QED BY <1>4, <1>5, <1>6, <1>7 DEF ScimInv, AccountsTraceable

\* The client advances by what it was given, and nobody on the page is missed.
LEMMA NextPageKeeps ==
  ASSUME ScimInv, NextPage
  PROVE  ScimInv'
<1>1. PICK page : page = Page(List, walk.start_index)
  OBVIOUS
<1>2. /\ walk' = IF page = {} THEN NoWalk
                 ELSE [walk EXCEPT !.start_index = @ + Cardinality(page), !.listed = @ \cup page]
      /\ UNCHANGED <<users, place, reported, unreported, renamed>>
  BY <1>1 DEF NextPage, List
<1>3. DirectorySound /\ WalkSound /\ Placed(List) /\ List \in SUBSET UserId
  BY ListPlaced DEF ScimInv, List, DirectorySound
<1>4. WalkSound'
  <2>1. CASE page = {}
    BY <1>2, <2>1, IdleWalk DEF WalkSound, Missed
  <2>2. CASE page # {}
    <3>. DEFINE first_unread == walk.start_index
                next == first_unread + Cardinality(page)
    <3>1. first_unread \in Nat /\ walk.lost \in Nat /\ Cardinality(Missed) <= walk.lost
          /\ walk.expected \in SUBSET List
      BY <1>3 DEF WalkSound
    <3>2. page \in SUBSET List /\ \A u \in page : ListIndex(List, u) \in first_unread..(first_unread + PageSize - 1)
      BY <1>1 DEF Page
    <3>3. IsFiniteSet(page) /\ Cardinality(page) \in Nat /\ Cardinality(page) <= PageSize
      <4>1. first_unread + PageSize - 1 \in Nat /\ Cardinality(first_unread..(first_unread + PageSize - 1)) = PageSize
        <5>1. first_unread + PageSize - 1 \in Nat /\ first_unread \in Int /\ first_unread + PageSize - 1 \in Int
              /\ first_unread <= first_unread + PageSize - 1 /\ (first_unread + PageSize - 1) - first_unread + 1 = PageSize
          BY <3>1, ScimAssumption
        <5>. QED BY <5>1, FS_Interval
      <4>2. IsFiniteSet(page) /\ Cardinality(page) <= Cardinality(first_unread..(first_unread + PageSize - 1))
        BY <1>3, <3>1, <3>2, <4>1, IndexCount
      <4>. QED BY <4>1, <4>2, FS_CardinalityType
    <3>4. /\ walk'.start_index = next /\ walk'.listed = walk.listed \cup page
          /\ walk'.filter = walk.filter /\ walk'.expected = walk.expected /\ walk'.lost = walk.lost
      BY <1>2, <1>3, <2>2 DEF WalkSound
    <3>5. walk' \in [start_index : Nat, filter : Filter, expected : SUBSET UserId,
                     listed : SUBSET UserId, lost : Nat]
      <4>1. next \in Nat /\ walk.listed \cup page \in SUBSET UserId
        BY <1>3, <3>1, <3>2, <3>3 DEF WalkSound
      <4>2. walk \in [start_index : Nat, filter : Filter, expected : SUBSET UserId,
                      listed : SUBSET UserId, lost : Nat]
        BY <1>3 DEF WalkSound
      <4>. QED BY <1>2, <2>2, <4>1, <4>2
    <3>6. List' = List
      BY <1>2, <3>4 DEF List
    <3>7. Missed' = {u \in walk.expected \ (walk.listed \cup page) : ListIndex(List, u) < next}
      BY <1>2, <3>4, <3>6 DEF Missed, ListIndex
    <3>8. ASSUME NEW u \in Missed' PROVE u \in Missed
      <4>1. /\ u \in walk.expected /\ u \notin walk.listed /\ u \notin page /\ u \in List
            /\ ListIndex(List, u) < next /\ ListIndex(List, u) \in Nat
        BY <1>3, <3>1, <3>7, IndexType
      <4>2. ListIndex(List, u) \notin first_unread..(first_unread + PageSize - 1)
        BY <1>1, <4>1 DEF Page
      <4>3. ListIndex(List, u) < first_unread
        BY <3>1, <3>3, <4>1, <4>2, ScimAssumption
      <4>. QED BY <4>1, <4>3 DEF Missed
    <3>9. IsFiniteSet(Missed) /\ Cardinality(Missed) \in Nat
      <4>1. Missed \in SUBSET List /\ IsFiniteSet(List)
        BY <1>3, <3>1 DEF Missed, Placed
      <4>. QED BY <4>1, FS_Subset, FS_CardinalityType
    <3>10. Missed' \in SUBSET Missed
      BY <3>8
    <3>11. Cardinality(Missed') \in Nat /\ Cardinality(Missed') <= Cardinality(Missed)
      BY <3>9, <3>10, FS_Subset, FS_CardinalityType
    <3>12. Cardinality(Missed') <= walk.lost
      BY <3>1, <3>9, <3>11
    <3>. QED BY <3>1, <3>4, <3>5, <3>6, <3>12 DEF WalkSound
  <2>. QED BY <2>1, <2>2
<1>. QED BY <1>2, <1>4
     DEF ScimInv, DirectorySound, AccountsTraceable, NamesForkOnlyByRename, EventsTellActive, is_active

\* Every request and every page keep the invariant.
LEMMA ScimStep == ScimInv /\ [ScimNext]_scimVars => ScimInv'
<1>. SUFFICES ASSUME ScimInv, [ScimNext]_scimVars PROVE ScimInv'
  OBVIOUS
<1>1. ASSUME NEW id \in UserId, NEW name \in UserName, NEW active, create_user(id, name, active)
      PROVE  ScimInv'
  BY <1>1, CreateKeeps
<1>2. ASSUME NEW id \in DOMAIN users, NEW name, NEW active, replace_user(id, name, active)
      PROVE  ScimInv'
  BY <1>2, ReplaceKeeps
<1>3. ASSUME NEW id \in DOMAIN users, NEW operations, patch_user(id, operations) PROVE ScimInv'
  BY <1>3, PatchKeeps
<1>4. ASSUME NEW id \in DOMAIN users, delete_user(id) PROVE ScimInv'
  BY <1>4, DeleteKeeps
<1>5. ASSUME NEW filter \in Filter, StartWalk(filter) PROVE ScimInv'
  <2>1. walk' = [start_index |-> 1, filter |-> filter, expected |-> InList(users, filter),
                 listed |-> {}, lost |-> 0]
        /\ UNCHANGED <<users, place, reported, unreported, renamed>>
    BY <1>5 DEF StartWalk
  <2>2. InList(users, filter) \in SUBSET UserId /\ Placed(InList(users, filter))
    BY ListPlaced DEF ScimInv, DirectorySound
  <2>3. List' = InList(users, filter)
    BY <2>1 DEF List
  <2>4. Missed' = {}
    <3>1. \A u \in InList(users, filter) : ~(ListIndex(InList(users, filter), u) < 1)
      BY <2>2, IndexType
    <3>. QED BY <2>1, <2>3, <3>1 DEF Missed, ListIndex
  <2>5. WalkSound'
    BY <2>1, <2>2, <2>3, <2>4, FS_EmptySet DEF WalkSound
  <2>. QED BY <2>1, <2>5
         DEF ScimInv, DirectorySound, AccountsTraceable, NamesForkOnlyByRename, EventsTellActive, is_active
<1>6. CASE NextPage
  BY <1>6, NextPageKeeps
<1>7. CASE UNCHANGED scimVars
  BY <1>7 DEF scimVars, ScimInv, DirectorySound, WalkSound, List, Missed, ListIndex, AccountsTraceable,
              NamesForkOnlyByRename, EventsTellActive, is_active
<1>. QED BY <1>1, <1>2, <1>3, <1>4, <1>5, <1>6, <1>7 DEF ScimNext

\* An empty page means that start_index is behind the last user, so that whoever was not
\* listed was missed.
LEMMA WalkSees == ScimInv => WalkSeesEveryUser
<1>. SUFFICES ASSUME ScimInv, walk.start_index > 0, Page(List, walk.start_index) = {}
              PROVE  Cardinality(walk.expected \ walk.listed) <= walk.lost
  BY DEF WalkSeesEveryUser, List
<1>1. /\ walk.start_index \in Nat /\ walk.start_index >= 1 /\ walk.expected \in SUBSET List
      /\ Cardinality(Missed) <= walk.lost
  BY DEF ScimInv, WalkSound
<1>2. Placed(List)
  BY ListPlaced DEF ScimInv, List
<1>3. \A u \in List : ListIndex(List, u) < walk.start_index
  BY <1>1, <1>2, IndexDense
<1>4. walk.expected \ walk.listed = Missed
  BY <1>1, <1>3 DEF Missed
<1>. QED BY <1>1, <1>4

\* A user's last event tells whether the account is active, but for PATCHes refused half-way
\* and for accounts that a POST or PUT has given the text "False", and two users share a
\* name only if one of them was renamed (scim.py, create_user to delete_user), for any users
\* and any PATCH.
THEOREM AccountsFollowed == ScimSpec => []AccountsTraceable
<1>1. ScimInv => AccountsTraceable
  BY DEF ScimInv
<1>. QED BY <1>1, ScimInitially, ScimStep, PTL DEF ScimSpec

\* For every page size a client that pages to the end, with a filter or without, has missed
\* no more users of those that were in its list all the time than dropped out of the pages
\* that it had read (list_users, delete_user).
THEOREM PagingMissesNobody == ScimSpec => []WalkSeesEveryUser
BY ScimInitially, ScimStep, WalkSees, PTL DEF ScimSpec
=============================================================================
