-------------------------------- MODULE SAML --------------------------------
(***************************************************************************)
(* Web browser single sign-on of saml/protocol.py: a ServiceProvider sends *)
(* the browser away with an AuthnRequest and consumes the Response that    *)
(* comes back. The browser may post a Response late, twice or not at all,  *)
(* and may show an AuthnRequest to the IdentityProvider more than once.    *)
(* AuthnRequests are not signed: another site can put our request's ID     *)
(* into a request of its own, so the IdP also issues assertions that       *)
(* answer our request but are addressed elsewhere.                         *)
(*                                                                         *)
(* An assertion on the wire is one that verify_signature() has accepted as *)
(* the only assertion of its document; the others are refused before any   *)
(* state is read.                                                          *)
(***************************************************************************)
EXTENDS Integers

CONSTANTS
  RequestId,      \* the values of random_token; the bound on requests
  AssertionId,    \* likewise; the bound on responses
  AssertionLifetime,       \* IdentityProvider.assertion_lifetime
  Backdate,       \* NotBefore is this much before IssueInstant (30 s in the code)
  Leeway,
  RequestTTL,
  IdPAhead,       \* what the IdP's clock minus the service provider's may be
  MaxSamlTime         \* bound on the clock

ASSUME SAMLAssumption ==
  /\ AssertionLifetime \in Nat
  /\ Backdate \in Nat
  /\ Leeway \in Nat
  /\ RequestTTL \in Nat
  /\ IdPAhead \subseteq Int
  /\ MaxSamlTime \in Nat

VARIABLES
  sp_now,         \* the service provider's clock
  ahead,          \* the IdP's clock minus sp_now
  sp_pending,     \* ServiceProvider.pending: request id -> issued at
  consumed,       \* ServiceProvider.consumed: assertion id -> expiry
  requested,      \* the AuthnRequests that browsers have carried away
  assertions,     \* the signed assertions in circulation
  logins          \* history: how many logins have answered each request

samlVars == <<sp_now, ahead, sp_pending, consumed, requested, assertions, logins>>

\* addressed: are Recipient, Destination and Audience ours?
Assertion == [in_response_to : RequestId, addressed : BOOLEAN, issued_at : Nat,
              not_before : Int, not_on_or_after : Int]

SamlTypeOK ==
  /\ sp_now \in Nat
  /\ ahead \in IdPAhead
  /\ DOMAIN sp_pending \subseteq requested
  /\ sp_pending \in [DOMAIN sp_pending -> Nat]
  /\ DOMAIN consumed \subseteq DOMAIN assertions
  /\ consumed \in [DOMAIN consumed -> Int]
  /\ requested \subseteq RequestId
  /\ DOMAIN assertions \subseteq AssertionId
  /\ assertions \in [DOMAIN assertions -> Assertion]
  /\ logins \in [RequestId -> Nat]

SamlInit ==
  /\ sp_now = 0
  /\ ahead \in IdPAhead
  /\ sp_pending = <<>>
  /\ consumed = <<>>
  /\ requested = {}
  /\ assertions = <<>>
  /\ logins = [r \in RequestId |-> 0]

----------------------------------------------------------------------------

Put(f, key, value) == [k \in DOMAIN f \cup {key} |-> IF k = key THEN value ELSE f[k]]
Del(f, key) == [k \in DOMAIN f \ {key} |-> f[k]]

\* ServiceProvider.build_authn_request
BuildAuthnRequest(r) ==
  /\ r \notin requested
  /\ sp_pending' = Put(sp_pending, r, sp_now)
  /\ requested' = requested \cup {r}
  /\ UNCHANGED <<sp_now, ahead, consumed, assertions, logins>>

\* The assertion that build_response() makes at this moment. Conditions and
\* SubjectConfirmationData have the same NotOnOrAfter.
Issued(r, addressed) ==
  [in_response_to |-> r, addressed |-> addressed, issued_at |-> sp_now,
   not_before |-> sp_now + ahead - Backdate, not_on_or_after |-> sp_now + ahead + AssertionLifetime]

\* IdentityProvider.parse_authn_request and build_response
BuildResponse(r, a, addressed) ==
  /\ r \in requested
  /\ a \notin DOMAIN assertions
  /\ assertions' = Put(assertions, a, Issued(r, addressed))
  /\ UNCHANGED <<sp_now, ahead, sp_pending, consumed, requested, logins>>

----------------------------------------------------------------------------
(* ServiceProvider.consume_response                                        *)

\* Step 6
Answers(a) ==
  /\ assertions[a].addressed
  /\ assertions[a].in_response_to \in DOMAIN sp_pending

Overdue(a) == sp_now - sp_pending[assertions[a].in_response_to] > RequestTTL

\* Mutant: the leeway has the wrong sign.
WithinConditionsStrict(a) ==
  /\ sp_now + Leeway < assertions[a].not_on_or_after
  /\ sp_now - Leeway >= assertions[a].not_before

\* Steps 6 and 7, of SubjectConfirmationData and of Conditions
WithinConditions(a) ==
  /\ sp_now - Leeway < assertions[a].not_on_or_after
  /\ sp_now + Leeway >= assertions[a].not_before

\* ServiceProvider._purge_consumed
Purged == [a \in {b \in DOMAIN consumed : consumed[b] >= sp_now} |-> consumed[a]]

Acceptable(a) ==
  /\ Answers(a)
  /\ ~Overdue(a)
  /\ WithinConditions(a)
  /\ a \notin DOMAIN Purged

\* Mutant: the request stays pending, and only consumed guards against replay.
ConsumeResponseKeepsPending(a) ==
  /\ Acceptable(a)
  /\ consumed' = Put(Purged, a, assertions[a].not_on_or_after)
  /\ logins' = [logins EXCEPT ![assertions[a].in_response_to] = @ + 1]
  /\ UNCHANGED <<sp_now, ahead, sp_pending, requested, assertions>>

\* The assertion is remembered, and its request is no longer pending. Since a
\* replayed assertion answers a request that is gone, the branch "assertion
\* replay detected" is never taken: it is a second line of defence.
ConsumeResponse(a) ==
  /\ Acceptable(a)
  /\ consumed' = Put(Purged, a, assertions[a].not_on_or_after)
  /\ sp_pending' = Del(sp_pending, assertions[a].in_response_to)
  /\ logins' = [logins EXCEPT ![assertions[a].in_response_to] = @ + 1]
  /\ UNCHANGED <<sp_now, ahead, requested, assertions>>

\* "the corresponding AuthnRequest has expired": the one refusal that changes
\* anything.
RefuseOverdue(a) ==
  /\ Answers(a)
  /\ Overdue(a)
  /\ sp_pending' = Del(sp_pending, assertions[a].in_response_to)
  /\ UNCHANGED <<sp_now, ahead, consumed, requested, assertions, logins>>

SamlTick ==
  /\ sp_now < MaxSamlTime
  /\ sp_now' = sp_now + 1
  /\ UNCHANGED <<ahead, sp_pending, consumed, requested, assertions, logins>>

----------------------------------------------------------------------------

SamlNext ==
  \/ \E r \in RequestId : BuildAuthnRequest(r)
  \/ \E r \in RequestId, a \in AssertionId, addressed \in BOOLEAN : BuildResponse(r, a, addressed)
  \/ \E a \in DOMAIN assertions : ConsumeResponse(a) \/ RefuseOverdue(a)
  \/ SamlTick

SamlSpec == SamlInit /\ [][SamlNext]_samlVars

----------------------------------------------------------------------------
(* Properties.                                                             *)

\* "so a captured assertion cannot be replayed": an AuthnRequest yields one login,
\* by one assertion, even when the IdP has answered it twice and although an
\* assertion is accepted for Leeway longer than consumed remembers it.
RequestOnce == INSTANCE OneTimeUse WITH Credential <- RequestId, uses <- logins
RequestAnsweredOnce == RequestOnce!Spec

\* When the clocks are no further apart than the tolerances allow, a response
\* that arrives at once, in time and for the first time, is accepted.
PromptResponseAccepted ==
  \A a \in DOMAIN assertions :
    /\ ahead <= Leeway + Backdate
    /\ ahead + AssertionLifetime + Leeway > 0
    /\ assertions[a].issued_at = sp_now
    /\ assertions[a].addressed
    /\ assertions[a].in_response_to \in DOMAIN sp_pending
    /\ sp_now - sp_pending[assertions[a].in_response_to] <= RequestTTL
    => Acceptable(a)
============================================================================
