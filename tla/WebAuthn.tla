------------------------------ MODULE WebAuthn ------------------------------
(***************************************************************************)
(* The relying party of webauthn/relying_party.py and the authenticators   *)
(* of webauthn/authenticator.py. Responses reach any session, at any time. *)
(*                                                                         *)
(* An assertion is what the signature covers: the challenge and the        *)
(* counter, under a key. The credential id that comes with it is not       *)
(* signed, and a registration with attestation "none" is not signed at     *)
(* all: it may claim any credential id for any key. Origin, rpIdHash and   *)
(* flags are stateless checks that are taken to have passed.               *)
(***************************************************************************)
EXTENDS Naturals, Sequences, FiniteSets

CONSTANTS
  Session,
  User,
  Key,             \* credential keys; a credential id is named by the key it was made for
  Synced,          \* the keys of syncable passkeys, which always report 0
  Challenge,       \* the values of random_bytes; the bound on ceremonies
  InitialCount,    \* counters that authenticators report at registration
  ChallengeTTL,
  MaxCount,        \* bound on the counters
  MaxTime          \* bound on the clock

ASSUME WebAuthnAssumption ==
  /\ Synced \subseteq Key
  /\ InitialCount \subseteq Nat
  /\ ChallengeTTL \in Nat
  /\ MaxCount \in Nat
  /\ MaxTime \in Nat

VARIABLES
  now,
  pending,         \* RelyingParty.pending
  issued,          \* the challenges that were ever sent out
  credentials,     \* RelyingParty.credentials, all users together
  counter,         \* StoredCredential.sign_count on the authenticator and on a clone
  cloned,          \* the keys of which a clone exists
  assertions,      \* signed assertions in circulation
  successes,       \* history: ceremonies that a challenge has completed
  accepted         \* history: the counters accepted for a credential id, in order

vars == <<now, pending, issued, credentials, counter, cloned, assertions, successes, accepted>>

Ceremony == {"webauthn.create", "webauthn.get"}
Copy == {"original", "clone"}

Pending == [challenge : Challenge, issued_at : Nat, ceremony : Ceremony]
RegisteredCredential ==
  [credential_id : Key, public_key : Key, user_handle : User, sign_count : Nat,
   registered_with : Nat]    \* history: sign_count at registration
Assertion == [challenge : Challenge, key : Key, sign_count : Nat]

TypeOK ==
  /\ now \in Nat
  /\ DOMAIN pending \subseteq Session
  /\ pending \in [DOMAIN pending -> Pending]
  /\ issued \subseteq Challenge
  /\ credentials \subseteq RegisteredCredential
  /\ counter \in [Key \X Copy -> Nat]
  /\ cloned \subseteq Key
  /\ assertions \subseteq Assertion
  /\ successes \in [Challenge -> Nat]
  /\ accepted \in [Key -> Seq(Nat)]

Init ==
  /\ now = 0
  /\ pending = <<>>
  /\ issued = {}
  /\ credentials = {}
  /\ counter = [kc \in Key \X Copy |-> 0]
  /\ cloned = {}
  /\ assertions = {}
  /\ successes = [ch \in Challenge |-> 0]
  /\ accepted = [id \in Key |-> <<>>]

----------------------------------------------------------------------------
(* registration_options, authentication_options and create_challenge       *)

Options(s, ceremony, ch) ==
  /\ ch \notin issued
  /\ issued' = issued \cup {ch}
  /\ pending' = [t \in DOMAIN pending \cup {s} |->
       IF t = s THEN [challenge |-> ch, issued_at |-> now, ceremony |-> ceremony] ELSE pending[t]]
  /\ UNCHANGED <<now, credentials, counter, cloned, assertions, successes, accepted>>

\* Mutant: the challenge is looked up and stays in place.
ChallengeKept(s) == UNCHANGED pending

\* pending.pop(session_id), before anything else is looked at
ChallengeTaken(s) == pending' = [t \in DOMAIN pending \ {s} |-> pending[t]]

\* _take_challenge has returned ch: right ceremony, not expired
Taken(s, ceremony, ch) ==
  /\ s \in DOMAIN pending
  /\ pending[s].ceremony = ceremony
  /\ now - pending[s].issued_at <= ChallengeTTL
  /\ pending[s].challenge = ch

\* Either verification, with a response that fails a check.
CeremonyFails(s) ==
  /\ s \in DOMAIN pending
  /\ ChallengeTaken(s)
  /\ UNCHANGED <<now, issued, credentials, counter, cloned, assertions, successes, accepted>>

----------------------------------------------------------------------------
(* RelyingParty.verify_registration                                        *)

\* Mutant: only the user's own credentials are searched for the id.
UnclaimedByUser(id, u) ==
  \A c \in credentials : c.user_handle = u => c.credential_id # id

Unclaimed(id, u) ==
  /\ \A c \in credentials : c.user_handle = u => c.credential_id # id
  /\ \A c \in credentials : c.user_handle # u => c.credential_id # id

VerifyRegistration(s, u, id, k, count) ==
  /\ s \in DOMAIN pending
  /\ Taken(s, "webauthn.create", pending[s].challenge)
  /\ Unclaimed(id, u)
  /\ credentials' = credentials \cup
       {[credential_id |-> id, public_key |-> k, user_handle |-> u, sign_count |-> count,
         registered_with |-> count]}
  /\ successes' = [successes EXCEPT ![pending[s].challenge] = @ + 1]
  /\ ChallengeTaken(s)
  /\ UNCHANGED <<now, issued, counter, cloned, assertions, accepted>>

----------------------------------------------------------------------------
(* Authenticators                                                          *)

\* VirtualAuthenticator.get_assertion, for any challenge that is known
GetAssertion(k, copy, ch) ==
  /\ ch \in issued
  /\ copy = "clone" => k \in cloned
  /\ IF k \in Synced
     THEN /\ assertions' = assertions \cup {[challenge |-> ch, key |-> k, sign_count |-> 0]}
          /\ UNCHANGED counter
     ELSE /\ counter[<<k, copy>>] < MaxCount
          /\ counter' = [counter EXCEPT ![<<k, copy>>] = @ + 1]
          /\ assertions' = assertions \cup
               {[challenge |-> ch, key |-> k, sign_count |-> counter'[<<k, copy>>]]}
  /\ UNCHANGED <<now, pending, issued, credentials, cloned, successes, accepted>>

\* Somebody extracts the key from the device, with its counter.
Clone(k) ==
  /\ k \notin cloned \cup Synced
  /\ cloned' = cloned \cup {k}
  /\ counter' = [counter EXCEPT ![<<k, "clone">>] = counter[<<k, "original">>]]
  /\ UNCHANGED <<now, pending, issued, credentials, assertions, successes, accepted>>

----------------------------------------------------------------------------
(* RelyingParty.verify_authentication                                      *)

\* Mutant: syncable passkeys are forgotten.
CounterAdvancesAlways(stored, presented) == presented > stored

\* _check_sign_count
CounterAdvances(stored, presented) ==
  \/ stored = 0 /\ presented = 0
  \/ presented > stored

\* Mutant: the new counter is not saved.
UpdatedKeepsCount(c, presented) == c

\* The record afterwards; the code returns early when both counters are 0.
Updated(c, presented) == [c EXCEPT !.sign_count = presented]

\* c is the record that _find_credential returned for the rawId of the response.
VerifyAuthentication(s, a, c) ==
  /\ Taken(s, "webauthn.get", a.challenge)
  /\ a.key = c.public_key
  /\ CounterAdvances(c.sign_count, a.sign_count)
  /\ credentials' = (credentials \ {c}) \cup {Updated(c, a.sign_count)}
  /\ accepted' = [accepted EXCEPT ![c.credential_id] = Append(@, a.sign_count)]
  /\ successes' = [successes EXCEPT ![a.challenge] = @ + 1]
  /\ ChallengeTaken(s)
  /\ UNCHANGED <<now, issued, counter, cloned, assertions>>

Tick ==
  /\ now < MaxTime
  /\ now' = now + 1
  /\ UNCHANGED <<pending, issued, credentials, counter, cloned, assertions, successes, accepted>>

----------------------------------------------------------------------------

Next ==
  \/ \E s \in Session, ceremony \in Ceremony, ch \in Challenge : Options(s, ceremony, ch)
  \/ \E s \in Session : CeremonyFails(s)
  \/ \E s \in Session, u \in User, id, k \in Key, count \in InitialCount :
       VerifyRegistration(s, u, id, k, count)
  \/ \E k \in Key, copy \in Copy, ch \in Challenge : GetAssertion(k, copy, ch)
  \/ \E k \in Key : Clone(k)
  \/ \E s \in Session, a \in assertions, c \in credentials : VerifyAuthentication(s, a, c)
  \/ Tick

Spec == Init /\ [][Next]_vars

----------------------------------------------------------------------------
(* Properties.                                                             *)

\* "single use: pop, not get": a challenge completes one ceremony at most, of
\* either kind, in whichever session its response is posted, and how often.
ChallengeOnce == INSTANCE OneTimeUse WITH Credential <- Challenge, uses <- successes
ChallengeUsedOnce == ChallengeOnce!Spec

\* "the same credential id must not be claimable by a second account": the search
\* of _find_credential has one possible result.
CredentialIdOwnedOnce ==
  \A c, d \in credentials : c.credential_id = d.credential_id => c = d

\* Once a credential has shown a counter, every later accepted assertion has a
\* higher one: an original and its clone are never both accepted with the same
\* count, and an old assertion is not accepted after a newer one.
CountersIncrease ==
  \A id \in Key : \A i, j \in 1..Len(accepted[id]) :
    i < j /\ accepted[id][i] > 0 => accepted[id][j] > accepted[id][i]

\* A syncable passkey that was registered with 0 is never refused for its counter,
\* whatever else was registered or accepted before.
SyncedPasskeyAccepted ==
  \A a \in assertions, c \in credentials :
    a.key = c.public_key /\ a.key \in Synced /\ c.registered_with = 0
      => CounterAdvances(c.sign_count, a.sign_count)

\* A credential belongs to one account, its counter tells a clone, and a passkey without
\* a counter is no clone.
CredentialsSound == CredentialIdOwnedOnce /\ CountersIncrease /\ SyncedPasskeyAccepted
============================================================================
