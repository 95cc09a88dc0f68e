--------------------------- MODULE DPoPVerifier ---------------------------
(***************************************************************************)
(* authlab/oauth/dpop.py : the server side of DPoP (RFC 9449).             *)
(*                                                                         *)
(* A proof is abstracted to the claims that verify() compares: who signed  *)
(* it, for which request, when, its jti, and the optional nonce and ath.   *)
(* Parsing, the typ and alg headers and the signature itself are left out: *)
(* a proof that fails them is rejected before any state is touched.        *)
(* verify() reads the clock twice: once for the iat test, and again inside *)
(* _purge(). A call is therefore two steps, ReadClock and the rest, and    *)
(* the clock may move on between them.                                     *)
(* Proofs are made by clients whose clocks need not agree with the         *)
(* verifier's, so iat ranges over all of IssueTime.                        *)
(***************************************************************************)
EXTENDS Integers

CONSTANTS
  Jti,          \* proof identifiers
  Jkt,          \* key thumbprints
  Request,      \* (method, normalised url) pairs
  Token,        \* access tokens a proof can be bound to through ath
  None,         \* an absent optional value
  IssueTime,    \* the iat values that occur
  MaxAge,       \* DEFAULT_MAX_AGE
  RequireNonce, \* DPoPVerifier.require_nonce
  MaxTime,      \* bound on the clock
  MaxNonce      \* bound on the number of nonces the server hands out

ASSUME DPoPAssumption ==
  /\ MaxAge \in Nat
  /\ MaxTime \in Nat
  /\ MaxNonce \in Nat
  /\ IssueTime \subseteq Int
  /\ RequireNonce \in BOOLEAN

VARIABLES
  now,           \* clock.now()
  seen,          \* DPoPVerifier.seen : jti -> expiry
  current_nonce, \* DPoPVerifier.current_nonce; 0 stands for None, n for the
                 \* n-th random_token(16)
  verifying,     \* the call of verify() that is running, past its iat test
  uses           \* history: how often each proof has been accepted, and when

vars == <<now, seen, current_nonce, verifying, uses>>

Proof == [jti : Jti, jkt : Jkt, htu : Request, iat : IssueTime,
          nonce : {None} \cup (1..MaxNonce), ath : {None} \cup Token]

\* A call keeps the proof and its own reading of the clock.
Verification == [proof : Proof, read : Nat]

\* An acceptance counts as "fresh" while the clock is within max_age of the
\* iat, and as "overtaken" when it has passed that since the call read it.
Use == Proof \X {"fresh", "overtaken"}

TypeOK ==
  /\ now \in 0..MaxTime
  /\ DOMAIN seen \subseteq Jti
  /\ \A j \in DOMAIN seen : seen[j] \in Nat
  /\ current_nonce \in 0..MaxNonce
  /\ verifying = None \/ verifying \in Verification
  /\ uses \in [Use -> Nat]

Init ==
  /\ now = 0
  /\ seen = [j \in {} |-> 0]
  /\ current_nonce = 0
  /\ verifying = None
  /\ uses = [u \in Use |-> 0]

----------------------------------------------------------------------------
(* The pieces of verify().                                                 *)

Distance(a, b) == IF a > b THEN a - b ELSE b - a

\* abs(now - iat) <= max_age
Fresh(p) == Distance(now, p.iat) <= MaxAge

\* Mutant: an entry is dropped at its expiry instead of after it.
PurgedAtExpiry == [j \in {k \in DOMAIN seen : ~(seen[k] <= now)} |-> seen[j]]

\* _purge(): entries whose expiry has passed are dropped, by the clock of now
Purged == [j \in {k \in DOMAIN seen : ~(seen[k] < now)} |-> seen[j]]

Remembered(dict, j, expiry) ==
  [k \in DOMAIN dict \cup {j} |-> IF k = j THEN expiry ELSE dict[k]]

\* Mutant: an accepted jti is kept for one window only.
ExpiryOneWindow(read) == read + MaxAge

\* How long an accepted jti is kept: seen[jti] = now + self.max_age * 2, where
\* the local variable now still holds the first reading.
Expiry(read) == read + MaxAge * 2

\* The nonce, ath and key checks, which come after the purge and the jti test.
PassesLateChecks(p, token, jkt) ==
  /\ RequireNonce => p.nonce # None /\ p.nonce = current_nonce
  /\ token # None => p.ath = token
  /\ jkt # None => p.jkt = jkt

\* verify() gets past the htu and iat tests; a call that does not leaves no
\* trace. The clock it has read stays with it.
ReadClock(p, req) ==
  /\ verifying = None
  /\ p.htu = req
  /\ Fresh(p)
  /\ verifying' = [proof |-> p, read |-> now]
  /\ UNCHANGED <<now, seen, current_nonce, uses>>

\* When a proof is accepted: its timestamp may have left the window since.
Moment(p) == IF now <= p.iat + MaxAge THEN "fresh" ELSE "overtaken"

\* The rest of verify() returns a thumbprint.
VerifyAccepts(token, jkt) ==
  /\ verifying # None
  /\ LET p == verifying.proof IN
       /\ p.jti \notin DOMAIN Purged
       /\ PassesLateChecks(p, token, jkt)
       /\ seen' = Remembered(Purged, p.jti, Expiry(verifying.read))
       /\ uses' = [uses EXCEPT ![<<p, Moment(p)>>] = @ + 1]
  /\ verifying' = None
  /\ UNCHANGED <<now, current_nonce>>

\* verify() raises after _purge(): a replay, a stale nonce, a wrong ath or key.
\* The purge stays; the jti is not recorded.
VerifyRejects(token, jkt) ==
  /\ verifying # None
  /\ \/ verifying.proof.jti \in DOMAIN Purged
     \/ ~PassesLateChecks(verifying.proof, token, jkt)
  /\ seen' = Purged
  /\ verifying' = None
  /\ UNCHANGED <<now, current_nonce, uses>>

\* issue_nonce(): a fresh random value replaces the current one.
IssueNonce ==
  /\ verifying = None
  /\ current_nonce < MaxNonce
  /\ current_nonce' = current_nonce + 1
  /\ UNCHANGED <<now, seen, verifying, uses>>

\* The clock only moves forward, during a call too.
Tick ==
  /\ now < MaxTime
  /\ now' = now + 1
  /\ UNCHANGED <<seen, current_nonce, verifying, uses>>

\* The token and the key that the caller names are looked at after the purge.
Verify ==
  \/ \E p \in Proof, req \in Request : ReadClock(p, req)
  \/ \E token \in Token \cup {None}, jkt \in Jkt \cup {None} :
       VerifyAccepts(token, jkt) \/ VerifyRejects(token, jkt)

Next == Verify \/ IssueNonce \/ Tick

Spec == Init /\ [][Next]_vars

----------------------------------------------------------------------------
(* Properties.                                                             *)

EverAccepted(p) == uses[<<p, "fresh">>] > 0 \/ uses[<<p, "overtaken">>] > 0

\* The retention rule behind "seen": as long as the clock would still let an
\* accepted proof through, its jti is remembered, and for long enough. The
\* cache forgets after 2 * max_age, counted from the first clock reading of the
\* accepting call, while a proof stays fresh for max_age after an iat that may
\* itself lie max_age ahead.
SeenCoversFreshness ==
  \A p \in Proof :
    EverAccepted(p) /\ now <= p.iat + MaxAge =>
      /\ p.jti \in DOMAIN seen
      /\ seen[p.jti] >= p.iat + MaxAge

OneTime == INSTANCE OneTimeUse WITH Credential <- Use

\* The verifier implements the one-time-use specification as far as its clock
\* lets it: while a proof is fresh it is accepted at most once, however calls,
\* nonces and clock ticks interleave. verify() tests the iat by one reading of
\* the clock and purges by a later one, so a call that the end of the proof's
\* window overtakes between the two may accept the proof again; that, too,
\* happens at most once to a proof.
ImplementsOneTimeUse == OneTime!Spec

\* Whatever the calls before it did, an acceptance of a fresh proof is the
\* first acceptance of that proof.
FreshIsFirst ==
  [][\A p \in Proof : uses'[<<p, "fresh">>] # uses[<<p, "fresh">>] => ~EverAccepted(p)]_vars
============================================================================
