---------------------------- MODULE OAuthClient ----------------------------
(***************************************************************************)
(* The relying party of oauth/client.py, logging several browser sessions  *)
(* in at once. begin() draws state, nonce and PKCE verifier together, so   *)
(* an attempt stands for all three. Between handle_callback(), the token   *)
(* request and validate_id_token() other sessions make progress: the three *)
(* are separate calls on one shared OAuthClient object.                    *)
(*                                                                         *)
(* A callback URL is only a string: any state of any attempt may come back *)
(* with any code, in any session, any number of times.                     *)
(***************************************************************************)
EXTENDS Naturals

CONSTANTS
  Session,
  Attempt,     \* the values of begin()'s random tokens; the bound on attempts
  Code,        \* authorization codes; the bound on authorizations
  None,
  StateTTL,
  MaxTime      \* bound on the clock

ASSUME OAuthClientAssumption ==
  /\ StateTTL \in Nat
  /\ MaxTime \in Nat
  /\ None \notin Session \cup Attempt \cup Code

VARIABLES
  now,
  pending,     \* OAuthClient.pending, session -> attempt
  last_nonce,  \* OAuthClient._last_nonce
  created_at,  \* PendingAuthorization.created_at
  owner,       \* history: the session that began an attempt
  flight,      \* how far the attempt has come
  spending,    \* the code that the attempt's callback carried
  codes,       \* the authorization server's codes: whose challenge and nonce, used?
  exchanges,   \* history: token requests sent with the attempt's verifier
  overlapped   \* history: two attempts were past the callback at the same time

vars == <<now, pending, last_nonce, created_at, owner, flight, spending, codes, exchanges, overlapped>>

\* new         no such attempt yet, or still at the authorization server
\* exchanging  handle_callback() has returned the token request
\* validating  the token response is there
Stage == {"new", "exchanging", "validating", "logged_in", "refused"}

TypeOK ==
  /\ now \in Nat
  /\ pending \in [Session -> Attempt \cup {None}]
  /\ last_nonce \in Attempt \cup {None}
  /\ created_at \in [Attempt -> Nat]
  /\ owner \in [Attempt -> Session \cup {None}]
  /\ flight \in [Attempt -> Stage]
  /\ spending \in [Attempt -> Code \cup {None}]
  /\ codes \in [Code -> [attempt : Attempt \cup {None}, used : BOOLEAN]]
  /\ exchanges \in [Attempt -> Nat]
  /\ overlapped \in BOOLEAN
  /\ \A s \in Session : pending[s] # None => owner[pending[s]] = s

Init ==
  /\ now = 0
  /\ pending = [s \in Session |-> None]
  /\ last_nonce = None
  /\ created_at = [a \in Attempt |-> 0]
  /\ owner = [a \in Attempt |-> None]
  /\ flight = [a \in Attempt |-> "new"]
  /\ spending = [a \in Attempt |-> None]
  /\ codes = [c \in Code |-> [attempt |-> None, used |-> FALSE]]
  /\ exchanges = [a \in Attempt |-> 0]
  /\ overlapped = FALSE

----------------------------------------------------------------------------
(* OAuthClient.begin                                                       *)

\* Mutant: begin() already notes the nonce as the last one.
BeginNotesNonce(s, a) ==
  /\ owner[a] = None
  /\ owner' = [owner EXCEPT ![a] = s]
  /\ pending' = [pending EXCEPT ![s] = a]
  /\ created_at' = [created_at EXCEPT ![a] = now]
  /\ last_nonce' = a
  /\ UNCHANGED <<now, flight, spending, codes, exchanges, overlapped>>

\* A second begin() in a session replaces the attempt that was pending.
Begin(s, a) ==
  /\ owner[a] = None
  /\ owner' = [owner EXCEPT ![a] = s]
  /\ pending' = [pending EXCEPT ![s] = a]
  /\ created_at' = [created_at EXCEPT ![a] = now]
  /\ UNCHANGED <<now, last_nonce, flight, spending, codes, exchanges, overlapped>>

\* The authorization endpoint binds a code to the challenge and the nonce of the
\* request, whoever is signed in there. The URL may be opened more than once.
Authorize(c, a) ==
  /\ owner[a] # None
  /\ codes[c].attempt = None
  /\ codes' = [codes EXCEPT ![c].attempt = a]
  /\ UNCHANGED <<now, pending, last_nonce, created_at, owner, flight, spending, exchanges, overlapped>>

----------------------------------------------------------------------------
(* OAuthClient.handle_callback                                             *)

InProgress(s) == pending[s] # None

Expired(s) == now - created_at[pending[s]] > StateTTL

\* An expired attempt, and an error response whatever its state, end the attempt.
AbandonAttempt(s) ==
  /\ InProgress(s)
  /\ pending' = [pending EXCEPT ![s] = None]
  /\ UNCHANGED <<now, last_nonce, created_at, owner, flight, spending, codes, exchanges, overlapped>>

CallbackExpired(s) == InProgress(s) /\ Expired(s) /\ AbandonAttempt(s)

CallbackError(s) == InProgress(s) /\ ~Expired(s) /\ AbandonAttempt(s)

InFlight(a) == flight[a] \in {"exchanging", "validating"}

Callback(s, state, c) ==
  /\ InProgress(s)
  /\ ~Expired(s)
  /\ state = pending[s]
  /\ pending' = [pending EXCEPT ![s] = None]
  /\ last_nonce' = state
  /\ flight' = [flight EXCEPT ![state] = "exchanging"]
  /\ spending' = [spending EXCEPT ![state] = c]
  /\ exchanges' = [exchanges EXCEPT ![state] = @ + 1]
  /\ overlapped' = (overlapped \/ \E a \in Attempt : InFlight(a))
  /\ UNCHANGED <<now, created_at, owner, codes>>

----------------------------------------------------------------------------
(* The token request                                                       *)

\* Mutant: the authorization server does not check the PKCE verifier.
ExchangeableWithoutPKCE(a) == ~codes[spending[a]].used

\* _grant_authorization_code: unused, and the verifier matches the challenge
Exchangeable(a) ==
  /\ ~codes[spending[a]].used
  /\ codes[spending[a]].attempt = a

Exchange(a) ==
  /\ flight[a] = "exchanging"
  /\ IF Exchangeable(a)
     THEN /\ codes' = [codes EXCEPT ![spending[a]].used = TRUE]
          /\ flight' = [flight EXCEPT ![a] = "validating"]
     ELSE /\ flight' = [flight EXCEPT ![a] = "refused"]
          /\ UNCHANGED codes
  /\ UNCHANGED <<now, pending, last_nonce, created_at, owner, spending, exchanges, overlapped>>

----------------------------------------------------------------------------
(* OAuthClient.validate_id_token                                           *)

\* The ID token carries the nonce of the request that the code answered.
Nonce(a) == codes[spending[a]].attempt

\* The caller passes no nonce, so the last one that a callback has seen is used.
NonceMatches(a) == Nonce(a) = last_nonce

ValidateIdToken(a) ==
  /\ flight[a] = "validating"
  /\ flight' = [flight EXCEPT ![a] = IF NonceMatches(a) THEN "logged_in" ELSE "refused"]
  /\ UNCHANGED <<now, pending, last_nonce, created_at, owner, spending, codes, exchanges, overlapped>>

Tick ==
  /\ now < MaxTime
  /\ now' = now + 1
  /\ UNCHANGED <<pending, last_nonce, created_at, owner, flight, spending, codes, exchanges, overlapped>>

----------------------------------------------------------------------------

Next ==
  \/ \E s \in Session, a \in Attempt : Begin(s, a)
  \/ \E c \in Code, a \in Attempt : Authorize(c, a)
  \/ \E s \in Session : CallbackExpired(s) \/ CallbackError(s)
  \/ \E s \in Session, a \in Attempt, c \in Code : codes[c].attempt # None /\ Callback(s, a, c)
  \/ \E a \in Attempt : Exchange(a) \/ ValidateIdToken(a)
  \/ Tick

Spec == Init /\ [][Next]_vars

----------------------------------------------------------------------------
(* Properties.                                                             *)

\* A session is logged in only by a code that was issued for the very attempt
\* which that session began: no callback made up from somebody else's attempt
\* changes who the user is. "The verifier is consumed here and only here": it is sent in
\* one token request, however often a callback is repeated and reloaded.
LoginFromOwnAttempt ==
  \A a \in Attempt :
    /\ flight[a] = "logged_in" => codes[spending[a]].attempt = a
    /\ exchanges[a] <= 1

\* The nonce is "keyed to the browser session": an ID token that carries the nonce
\* of the session's own attempt passes the nonce check, as long as one login at a
\* time is past its callback. (The nonce is one attribute of the shared client.)
OwnNonceAcceptedSerially ==
  [][\A a \in Attempt :
       ~overlapped /\ ValidateIdToken(a) /\ Nonce(a) = a => flight'[a] = "logged_in"]_vars
============================================================================
