-------------------------------- MODULE CIBA --------------------------------
(***************************************************************************)
(* The backchannel authentication service of oauth/ciba.py. A client       *)
(* starts a request, the user approves or denies it on another device, and *)
(* the client polls for tokens, is pinged and then fetches them, or has    *)
(* them pushed. The decision, the deadline and the polls race.             *)
(*                                                                         *)
(* authenticate_client() has identified the client of every call. A token  *)
(* set is represented by a delivery: what _issue_token_set was told.       *)
(***************************************************************************)
EXTENDS Naturals, Sequences, FiniteSets

CONSTANTS
  RequestId,    \* the values random_token can yield; the bound on requests
  Client,
  User,
  Certificate,  \* thumbprints of TLS client certificates
  None,
  Mode,         \* Client.backchannel_token_delivery_mode
  CertBound,    \* Client.tls_client_certificate_bound_access_tokens
  Lifetime,
  Interval,
  BackOff,      \* by how much slow_down raises the interval (5 in the code)
  MaxTime,      \* bound on the clock
  MaxPolls      \* bound on the polls of a request

ASSUME CIBAAssumption ==
  /\ Mode \in [Client -> {"poll", "ping", "push"}]
  /\ CertBound \in [Client -> BOOLEAN]
  /\ Lifetime \in Nat \ {0}
  /\ Interval \in Nat
  /\ BackOff \in Nat
  /\ MaxTime \in Nat
  /\ MaxPolls \in Nat
  /\ None \notin User \cup Certificate \cup Nat

VARIABLES
  now,
  requests,     \* the records of CIBAService.requests
  deliveries,   \* history: the token sets issued
  polls         \* history: when a request was polled before approval, and the answer

vars == <<now, requests, deliveries, polls>>

BackchannelAuthentication ==
  [client_id : Client, mode : {"poll", "ping", "push"}, expires_at : Nat, interval : Nat,
   x5t : Certificate \cup {None}, subject : User \cup {None}, denied : BOOLEAN, used : BOOLEAN,
   last_polled_at : Nat \cup {None}]

Delivery == [id : RequestId, subject : User, x5t : Certificate \cup {None},
             presented : Certificate \cup {None}, at : Nat]

TypeOK ==
  /\ now \in Nat
  /\ DOMAIN requests \subseteq RequestId
  /\ requests \in [DOMAIN requests -> BackchannelAuthentication]
  /\ deliveries \in Seq(Delivery)
  /\ polls \in [RequestId -> Seq([at : Nat, answer : {"pending", "slow_down"}])]

Init ==
  /\ now = 0
  /\ requests = <<>>
  /\ deliveries = <<>>
  /\ polls = [id \in RequestId |-> <<>>]

----------------------------------------------------------------------------
(* CIBAService.start                                                       *)

Start(id, c, cert, requested_expiry) ==
  /\ id \notin DOMAIN requests
  /\ requests' = [i \in DOMAIN requests \cup {id} |->
       IF i = id
       THEN [client_id |-> c, mode |-> Mode[c], expires_at |-> now + requested_expiry,
             interval |-> Interval, x5t |-> cert, subject |-> None, denied |-> FALSE,
             used |-> FALSE, last_polled_at |-> None]
       ELSE requests[i]]
  /\ UNCHANGED <<now, deliveries, polls>>

----------------------------------------------------------------------------
(* CIBAService._record: the guard of every later call                      *)

Record(id) ==
  /\ id \in DOMAIN requests
  /\ ~requests[id].used
  /\ now <= requests[id].expires_at

----------------------------------------------------------------------------
(* CIBAService._tokens                                                     *)

SameCertificate(id, cert) ==
  CertBound[requests[id].client_id] => cert = requests[id].x5t

\* Mutant: the request is not marked as used.
TokensKept(id, record, cert) ==
  /\ SameCertificate(id, cert)
  /\ requests' = [requests EXCEPT ![id] = record]
  /\ deliveries' = Append(deliveries,
       [id |-> id, subject |-> record.subject, presented |-> cert, at |-> now,
        x5t |-> IF CertBound[record.client_id] THEN record.x5t ELSE None])

\* Mutant: the certificate of the token request is the one that is bound.
TokensRebound(id, record, cert) ==
  /\ requests' = [requests EXCEPT ![id] = [record EXCEPT !.used = TRUE]]
  /\ deliveries' = Append(deliveries,
       [id |-> id, subject |-> record.subject, presented |-> cert, at |-> now,
        x5t |-> IF CertBound[record.client_id] THEN cert ELSE None])

\* record is the request as approve() has left it.
Tokens(id, record, cert) ==
  /\ SameCertificate(id, cert)
  /\ requests' = [requests EXCEPT ![id] = [record EXCEPT !.used = TRUE]]
  /\ deliveries' = Append(deliveries,
       [id |-> id, subject |-> record.subject, presented |-> cert, at |-> now,
        x5t |-> IF CertBound[record.client_id] THEN record.x5t ELSE None])

----------------------------------------------------------------------------
(* The user's device                                                       *)

\* approve() in poll and ping mode; a second approval replaces the first.
Approve(id, u) ==
  /\ Record(id)
  /\ requests[id].mode # "push"
  /\ requests' = [requests EXCEPT ![id].subject = u]
  /\ UNCHANGED <<now, deliveries, polls>>

\* approve() in push mode delivers at once, and does not look at denied.
ApproveAndPush(id, u) ==
  /\ Record(id)
  /\ requests[id].mode = "push"
  /\ Tokens(id, [requests[id] EXCEPT !.subject = u], requests[id].x5t)
  /\ UNCHANGED <<now, polls>>

Deny(id) ==
  /\ Record(id)
  /\ requests' = [requests EXCEPT ![id].denied = TRUE]
  /\ UNCHANGED <<now, deliveries, polls>>

----------------------------------------------------------------------------
(* CIBAService.token                                                       *)

\* Mutant: the user's denial is not looked at.
MayAskDenied(id, c) ==
  /\ Record(id)
  /\ requests[id].client_id = c
  /\ requests[id].mode # "push"

MayAsk(id, c) ==
  /\ Record(id)
  /\ requests[id].client_id = c
  /\ requests[id].mode # "push"
  /\ ~requests[id].denied

TooFast(id) ==
  /\ requests[id].last_polled_at # None
  /\ now - requests[id].last_polled_at < requests[id].interval

\* Mutant: a poll answered with slow_down does not restart the wait.
PollForgotten(id, c) ==
  /\ MayAsk(id, c)
  /\ requests[id].subject = None
  /\ Len(polls[id]) < MaxPolls
  /\ requests' = IF TooFast(id)
                 THEN [requests EXCEPT ![id].interval = @ + BackOff]
                 ELSE [requests EXCEPT ![id].last_polled_at = now]
  /\ polls' = [polls EXCEPT ![id] =
       Append(@, [at |-> now, answer |-> IF TooFast(id) THEN "slow_down" ELSE "pending"])]
  /\ UNCHANGED <<now, deliveries>>

\* Not approved yet: authorization_pending, or slow_down and a longer interval.
Poll(id, c) ==
  /\ MayAsk(id, c)
  /\ requests[id].subject = None
  /\ Len(polls[id]) < MaxPolls
  /\ requests' = [requests EXCEPT
       ![id].interval = IF TooFast(id) THEN @ + BackOff ELSE @,
       ![id].last_polled_at = now]
  /\ polls' = [polls EXCEPT ![id] =
       Append(@, [at |-> now, answer |-> IF TooFast(id) THEN "slow_down" ELSE "pending"])]
  /\ UNCHANGED <<now, deliveries>>

Redeem(id, c, cert) ==
  /\ MayAsk(id, c)
  /\ requests[id].subject # None
  /\ Tokens(id, requests[id], cert)
  /\ UNCHANGED <<now, polls>>

Tick ==
  /\ now < MaxTime
  /\ now' = now + 1
  /\ UNCHANGED <<requests, deliveries, polls>>

----------------------------------------------------------------------------

Next ==
  \/ \E id \in RequestId, c \in Client, cert \in Certificate \cup {None}, ttl \in 1..Lifetime :
       Start(id, c, cert, ttl)
  \/ \E id \in RequestId, u \in User : Approve(id, u) \/ ApproveAndPush(id, u)
  \/ \E id \in RequestId : Deny(id)
  \/ \E id \in RequestId, c \in Client : Poll(id, c)
  \/ \E id \in RequestId, c \in Client, cert \in Certificate \cup {None} : Redeem(id, c, cert)
  \/ Tick

Spec == Init /\ [][Next]_vars

----------------------------------------------------------------------------
(* Properties.                                                             *)

DeliveriesOf(id) == {i \in 1..Len(deliveries) : deliveries[i].id = id}

\* An auth_req_id is good for one token set, whichever way it is delivered and
\* however polls, approvals and refused certificates are interleaved.
OneDelivery ==
  INSTANCE OneTimeUse WITH
    Credential <- RequestId, uses <- [id \in RequestId |-> Cardinality(DeliveriesOf(id))]
ImplementsOneTimeUse == OneDelivery!Spec

\* A poll or ping client gets nothing for a request that the user has denied, be
\* it after an approval, and a request that has yielded tokens cannot be denied.
DeniedGetsNothing ==
  \A id \in DOMAIN requests :
    requests[id].denied /\ requests[id].mode # "push" => DeliveriesOf(id) = {}

\* What is delivered was agreed to: it comes before the deadline, for the user who
\* approved last, and a certificate-bound client's tokens carry the certificate with
\* which the request was started and were fetched with it.
DeliveredAsAgreed ==
  \A i \in 1..Len(deliveries) :
    LET d == deliveries[i]
        r == requests[d.id]
    IN  /\ d.at <= r.expires_at
        /\ d.subject = r.subject
        /\ CertBound[r.client_id] => d.x5t = r.x5t /\ d.presented = r.x5t

SlowDowns(id, n) == Cardinality({k \in 1..n : polls[id][k].answer = "slow_down"})

\* A poll is answered with authorization_pending only after a wait, counted from
\* the previous poll, of the interval and one increment per slow_down ever given.
PollingPaced ==
  \A id \in RequestId : \A k \in 2..Len(polls[id]) :
    polls[id][k].answer = "pending" =>
      polls[id][k].at - polls[id][k - 1].at >= Interval + BackOff * SlowDowns(id, k)

\* The user's decision and the agreed pace rule every answer to the client.
AnswersAsAgreed == DeniedGetsNothing /\ DeliveredAsAgreed /\ PollingPaced
============================================================================
