---------------------------- MODULE TokenRequests ----------------------------
(***************************************************************************)
(* What AuthorizationServer.token() does before it reaches a grant:        *)
(* authenticate_client() with client assertions (_verify_client_assertion) *)
(* and DPoPVerifier.verify(), both of which spend a one-time identifier.   *)
(* server.py runs every request on a thread of its own and nothing takes a *)
(* lock, so the test of an identifier and its recording are steps apart,   *)
(* and _purge() walks a dictionary that other threads change.              *)
(*                                                                         *)
(* Signatures are abstracted to the claims they vouch for. Whether the     *)
(* grant itself succeeds is AuthorizationServer's business and is left     *)
(* open here.                                                              *)
(***************************************************************************)
EXTENDS Integers

CONSTANTS
  Requester,           \* threads that serve requests
  Clients,             \* Store.clients: [method, grant_types, require_dpop] by client_id
  TokenRequest,        \* the requests clients send
  Absent,              \* a parameter that is missing
  AssertionLifetimeMax, \* an assertion may live so long (300 s)
  IatSkew,             \* and be dated so far ahead (60 s)
  MaxAge,              \* DPoPVerifier.max_age
  MaxRequestTime       \* bound on the clock

ASSUME TokenRequestsAssumption ==
  /\ AssertionLifetimeMax \in Nat /\ IatSkew \in Nat /\ MaxAge \in Nat /\ MaxRequestTime \in Nat
  /\ \A r \in TokenRequest :
       /\ r.assertion = Absent \/ {r.assertion.iat, r.assertion.exp} \subseteq Int
       /\ r.proof = Absent \/ r.proof.iat \in Int

\* A client draws a new jti for each proof.
ASSUME ProofJtiFresh ==
  \A r, s \in TokenRequest :
    r.proof # Absent /\ s.proof # Absent /\ r.proof.jti = s.proof.jti => r.proof.iat = s.proof.iat

VARIABLES
  at,                  \* where each thread is in token()
  request,             \* what it serves
  read_now,            \* the clock as its verify() has read it
  stale,               \* the keys that _purge() has collected
  seen_jtis,           \* Store.seen_jtis, which is never purged
  seen_proofs,         \* DPoPVerifier.seen: jti -> expiry
  request_now,         \* the clock
  mine,                \* history: identifiers the thread's request has recorded
  ended,               \* history: identifiers recorded by requests that have ended
  before,              \* history: the value of ended when the thread's request began
  tested_at            \* history: the clock when the thread's proof passed the jti test

locals == <<request, read_now, stale, mine, before, tested_at>>
shared == <<seen_jtis, seen_proofs, request_now>>
requestVars == <<at, locals, shared, ended>>

RequestsInit ==
  /\ at = [t \in Requester |-> "idle"]
  /\ request = [t \in Requester |-> Absent]
  /\ read_now = [t \in Requester |-> 0]
  /\ stale = [t \in Requester |-> {}]
  /\ seen_jtis = {}
  /\ seen_proofs = <<>>
  /\ request_now = 0
  /\ mine = [t \in Requester |-> {}]
  /\ ended = {}
  /\ before = [t \in Requester |-> {}]
  /\ tested_at = [t \in Requester |-> 0]

----------------------------------------------------------------------------
(* How a step ends: at the next label, or with an answer that ends the     *)
(* request. A refusal, a grant and an uncaught exception end it alike.     *)

Go(t, label) ==
  /\ at' = [at EXCEPT ![t] = label]
  /\ UNCHANGED ended

Answer(t) ==
  /\ at' = [at EXCEPT ![t] = "idle"]
  /\ ended' = ended \cup mine[t]
  /\ request' = [request EXCEPT ![t] = Absent]
  /\ read_now' = [read_now EXCEPT ![t] = 0]
  /\ tested_at' = [tested_at EXCEPT ![t] = 0]
  /\ stale' = [stale EXCEPT ![t] = {}]
  /\ mine' = [mine EXCEPT ![t] = {}]
  /\ before' = [before EXCEPT ![t] = {}]

----------------------------------------------------------------------------
(* authenticate_client                                                     *)

\* _verify_client_assertion up to the lifetime; the signature is by a registered key.
AssertionHolds(c, a) ==
  /\ a # Absent
  /\ a.iss = c
  /\ a.aud = "issuer"
  /\ a.iat <= request_now + IatSkew
  /\ a.exp >= request_now
  /\ a.exp >= a.iat
  /\ a.exp - a.iat <= AssertionLifetimeMax

\* The assertion of a private_key_jwt client, with a jti that has not been seen
AssertionPasses(r) ==
  /\ Clients[r.client].method = "private_key_jwt"
  /\ AssertionHolds(r.client, r.assertion)
  /\ r.assertion.jti \notin seen_jtis

\* The methods that leave nothing behind
Authenticated(r) ==
  CASE Clients[r.client].method = "none"            -> r.secret = Absent
    [] Clients[r.client].method = "tls_client_auth" -> r.certificate # Absent
    [] Clients[r.client].method = "client_secret"   -> r.secret = "right"
    [] OTHER                                        -> FALSE

\* token() up to the end of authenticate_client, or up to the recording of an
\* assertion's jti. A request without grant_type, of an unknown client or with the wrong
\* credential is refused and leaves nothing behind.
Arrive(t, r) ==
  /\ at[t] = "idle"
  /\ r.grant_type # Absent
  /\ r.client \in DOMAIN Clients
  /\ \/ AssertionPasses(r) /\ Go(t, "note assertion")
     \/ Authenticated(r) /\ Go(t, "authenticated")
  /\ request' = [request EXCEPT ![t] = r]
  /\ before' = [before EXCEPT ![t] = ended]
  /\ UNCHANGED <<read_now, stale, mine, tested_at, shared>>

\* Mutant: only the last identifier is kept.
NoteAssertionLastOnly(t) ==
  LET jti == request[t].assertion.jti IN
  /\ at[t] = "note assertion"
  /\ seen_jtis' = {jti}
  /\ mine' = [mine EXCEPT ![t] = @ \cup {<<"assertion", jti>>}]
  /\ Go(t, "authenticated")
  /\ UNCHANGED <<request, read_now, stale, before, tested_at, seen_proofs, request_now>>

\* self.store.seen_jtis[jti] = claims["exp"]; the expiry is never read.
NoteAssertion(t) ==
  LET jti == request[t].assertion.jti IN
  /\ at[t] = "note assertion"
  /\ seen_jtis' = seen_jtis \cup {jti}
  /\ mine' = [mine EXCEPT ![t] = @ \cup {<<"assertion", jti>>}]
  /\ Go(t, "authenticated")
  /\ UNCHANGED <<request, read_now, stale, before, tested_at, seen_proofs, request_now>>

----------------------------------------------------------------------------
(* The grant type and the DPoP proof                                       *)

\* token() after authentication, without a proof
WithoutProof(t) ==
  LET c == Clients[request[t].client] IN
  /\ at[t] = "authenticated"
  /\ request[t].proof = Absent
  /\ IF request[t].grant_type \in c.grant_types /\ ~c.require_dpop
     THEN Go(t, "grant") /\ UNCHANGED locals
     ELSE Answer(t)
  /\ UNCHANGED shared

\* With one: verify() up to its test of iat
ReadProof(t) ==
  LET proof == request[t].proof IN
  /\ at[t] = "authenticated"
  /\ proof # Absent
  /\ IF /\ request[t].grant_type \in Clients[request[t].client].grant_types
        /\ proof.htu = "token"
        /\ proof.iat \in (request_now - MaxAge)..(request_now + MaxAge)
     THEN /\ Go(t, "purge")
          /\ read_now' = [read_now EXCEPT ![t] = request_now]
          /\ UNCHANGED <<request, stale, mine, before, tested_at>>
     ELSE Answer(t)
  /\ UNCHANGED shared

\* _purge reads the clock again, and its comprehension collects the keys whose time has
\* passed by then.
CollectStale(t) ==
  /\ at[t] = "purge"
  /\ stale' = [stale EXCEPT ![t] = {j \in DOMAIN seen_proofs : seen_proofs[j] < request_now}]
  /\ Go(t, "drop")
  /\ UNCHANGED <<request, read_now, mine, before, tested_at, shared>>

\* RuntimeError: a thread that is about to add or drop a key does so while this one
\* iterates. The request dies without an answer.
CollectAborted(t) ==
  /\ at[t] = "purge"
  /\ \E u \in Requester \ {t} : at[u] = "record proof" \/ stale[u] # {}
  /\ Answer(t)
  /\ UNCHANGED shared

\* The loop of _purge deletes one key a turn; a key that another thread has deleted
\* raises KeyError.
DropStale(t, j) ==
  /\ at[t] = "drop"
  /\ j \in stale[t]
  /\ IF j \in DOMAIN seen_proofs
     THEN /\ seen_proofs' = [k \in DOMAIN seen_proofs \ {j} |-> seen_proofs[k]]
          /\ stale' = [stale EXCEPT ![t] = @ \ {j}]
          /\ UNCHANGED <<at, ended, request, read_now, mine, before, tested_at>>
     ELSE Answer(t) /\ UNCHANGED seen_proofs
  /\ UNCHANGED <<seen_jtis, request_now>>

\* "if jti in self.seen"
TestProof(t) ==
  /\ at[t] = "drop"
  /\ stale[t] = {}
  /\ IF request[t].proof.jti \in DOMAIN seen_proofs
     THEN Answer(t)
     ELSE /\ Go(t, "record proof")
          /\ tested_at' = [tested_at EXCEPT ![t] = request_now]
          /\ UNCHANGED <<request, read_now, stale, mine, before>>
  /\ UNCHANGED shared

\* Mutant: kept for one window from now.
ProofExpiryOneWindow(t) == read_now[t] + MaxAge

ProofExpiry(t) == read_now[t] + 2 * MaxAge

\* self.seen[jti] = now + self.max_age * 2
RecordProof(t) ==
  LET jti == request[t].proof.jti IN
  /\ at[t] = "record proof"
  /\ seen_proofs' = [k \in DOMAIN seen_proofs \cup {jti} |->
                       IF k = jti THEN ProofExpiry(t) ELSE seen_proofs[k]]
  /\ mine' = [mine EXCEPT ![t] = @ \cup {<<"proof", jti>>}]
  /\ Go(t, "grant")
  /\ UNCHANGED <<request, read_now, stale, before, tested_at, seen_jtis, request_now>>

\* The grant handler issues tokens or raises; either way the request is over and what it
\* spent is spent.
Grant(t) ==
  /\ at[t] = "grant"
  /\ Answer(t)
  /\ UNCHANGED shared

RequestTick ==
  /\ request_now < MaxRequestTime
  /\ request_now' = request_now + 1
  /\ UNCHANGED <<at, locals, ended, seen_jtis, seen_proofs>>

RequestsNext ==
  \/ \E t \in Requester :
       \/ \E r \in TokenRequest : Arrive(t, r)
       \/ NoteAssertion(t)
       \/ WithoutProof(t)
       \/ ReadProof(t)
       \/ CollectStale(t)
       \/ CollectAborted(t)
       \/ \E j \in stale[t] : DropStale(t, j)
       \/ TestProof(t)
       \/ RecordProof(t)
       \/ Grant(t)
  \/ RequestTick

----------------------------------------------------------------------------

\* What an earlier request had recorded, and had ended, before this one began
SpentBefore(t, kind, token) == token # Absent /\ <<kind, token.jti>> \in before[t]

\* Client assertions and DPoP proofs under token() on threads, where the tests and the
\* recordings of _verify_client_assertion() and verify() come apart and a grant may fail
\* after both were spent. Requests that do not overlap never reach their grants with the
\* same assertion, also not with another client's of the same jti, and not with the same
\* proof either, however many keys have been purged in between. There is one exception:
\* verify() tests iat by a clock reading that its _purge(), or another thread's, no longer
\* shares; when the clock moves before the jti is tested, an entry can be dropped that the
\* first reading still needed.
SpentIsSpent ==
  \A t \in Requester : at[t] = "grant" =>
    /\ Clients[request[t].client].method = "private_key_jwt" =>
         ~SpentBefore(t, "assertion", request[t].assertion)
    /\ SpentBefore(t, "proof", request[t].proof) => read_now[t] < tested_at[t]
============================================================================
