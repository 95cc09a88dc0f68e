---------------------------- MODULE CIBAProofs ----------------------------
(***************************************************************************)
(* For every registration of clients, every lifetime and every interval:   *)
(* a backchannel request yields one token set at most, on the terms the    *)
(* user agreed to, and is polled no faster than it was told.               *)
(***************************************************************************)
EXTENDS CIBA, FiniteSetTheorems, TLAPS

\* A token set belongs to a used request, and to no other token set's request.
DeliveriesSound ==
  \A i \in 1..Len(deliveries) :
    /\ deliveries[i].id \in DOMAIN requests
    /\ requests[deliveries[i].id].used
    /\ \A j \in 1..Len(deliveries) : deliveries[j].id = deliveries[i].id => j = i

\* The slow_down answers of a history, counted up to its nth poll.
SlowIn(history, n) == {k \in 1..n : history[k].answer = "slow_down"}

\* The record of a request knows its last poll, and has grown its interval by
\* one increment for each slow_down given.
PollsSound ==
  \A id \in RequestId :
    /\ id \notin DOMAIN requests => polls[id] = <<>>
    /\ id \in DOMAIN requests =>
         /\ requests[id].interval = Interval + BackOff * Cardinality(SlowIn(polls[id], Len(polls[id])))
         /\ polls[id] # <<>> => requests[id].last_polled_at = polls[id][Len(polls[id])].at

IInv == TypeOK /\ DeliveriesSound /\ PollsSound /\ AnswersAsAgreed

\* What a request keeps when tokens are issued for it.
SameTerms(r, q) ==
  /\ r.client_id = q.client_id /\ r.mode = q.mode /\ r.expires_at = q.expires_at /\ r.x5t = q.x5t
  /\ r.denied = q.denied /\ r.interval = q.interval /\ r.last_polled_at = q.last_polled_at

\* A step of _tokens: request id is used up by the delivery d.
Delivered(id, d) ==
  /\ Record(id)
  /\ requests[id].denied => requests[id].mode = "push"
  /\ DOMAIN requests' = DOMAIN requests
  /\ \A i \in DOMAIN requests : i # id => requests'[i] = requests[i]
  /\ requests'[id] \in BackchannelAuthentication
  /\ requests'[id].used /\ SameTerms(requests'[id], requests[id])
  /\ d \in Delivery
  /\ d.id = id /\ d.subject = requests'[id].subject /\ d.at = now
  /\ CertBound[requests[id].client_id] => d.x5t = requests[id].x5t /\ d.presented = requests[id].x5t
  /\ deliveries' = Append(deliveries, d)
  /\ UNCHANGED <<now, polls>>

\* Both ways of delivery are such a step.
LEMMA TokensDeliver ==
  ASSUME TypeOK, NEW id \in RequestId, NEW u \in User, NEW cert \in Certificate \cup {None},
         Record(id), requests[id].denied => requests[id].mode = "push",
         Tokens(id, [requests[id] EXCEPT !.subject = u], cert), UNCHANGED <<now, polls>>
  PROVE  \E d : Delivered(id, d)
<1>. USE CIBAAssumption
<1>. DEFINE record == [requests[id] EXCEPT !.subject = u]
            d == [id |-> id, subject |-> record.subject, presented |-> cert, at |-> now,
                  x5t |-> IF CertBound[record.client_id] THEN record.x5t ELSE None]
<1>1. id \in DOMAIN requests /\ requests[id] \in BackchannelAuthentication
  BY DEF Record, TypeOK
<1>2. /\ record \in BackchannelAuthentication /\ record.subject = u /\ record.used = requests[id].used
      /\ SameTerms(record, requests[id])
  BY <1>1 DEF BackchannelAuthentication, SameTerms
<1>3. requests' = [requests EXCEPT ![id] = [record EXCEPT !.used = TRUE]]
  BY DEF Tokens
<1>4. /\ [record EXCEPT !.used = TRUE] \in BackchannelAuthentication
      /\ [record EXCEPT !.used = TRUE].used
      /\ [record EXCEPT !.used = TRUE].subject = u
      /\ SameTerms([record EXCEPT !.used = TRUE], requests[id])
  BY <1>2 DEF BackchannelAuthentication, SameTerms
<1>5. /\ DOMAIN requests' = DOMAIN requests
      /\ requests'[id] = [record EXCEPT !.used = TRUE]
      /\ \A i \in DOMAIN requests : i # id => requests'[i] = requests[i]
  BY <1>1, <1>3
<1>6. d \in Delivery
  BY <1>1, <1>2 DEF Delivery, TypeOK, BackchannelAuthentication
<1>7. deliveries' = Append(deliveries, d)
  BY DEF Tokens
<1>8. d.id = id /\ d.subject = u /\ d.at = now
  BY <1>2
<1>9. CertBound[requests[id].client_id] => d.x5t = requests[id].x5t /\ d.presented = requests[id].x5t
  BY <1>2 DEF Tokens, SameCertificate, SameTerms
<1>10. Delivered(id, d)
  <2>. HIDE DEF record, d
  <2>. QED BY <1>4, <1>5, <1>6, <1>7, <1>8, <1>9 DEF Delivered
<1>. QED BY <1>10

LEMMA PushDelivers ==
  ASSUME TypeOK, NEW id \in RequestId, NEW u \in User, ApproveAndPush(id, u)
  PROVE  \E d : Delivered(id, d)
<1>1. requests[id].x5t \in Certificate \cup {None}
  BY DEF ApproveAndPush, Record, TypeOK, BackchannelAuthentication
<1>. QED BY <1>1, TokensDeliver DEF ApproveAndPush

LEMMA RedeemDelivers ==
  ASSUME TypeOK, NEW id \in RequestId, NEW c \in Client, NEW cert \in Certificate \cup {None},
         Redeem(id, c, cert)
  PROVE  \E d : Delivered(id, d)
<1>1. requests[id] \in BackchannelAuthentication /\ requests[id].subject # None
  BY DEF Redeem, MayAsk, Record, TypeOK
<1>2. /\ requests[id].subject \in User
      /\ [requests[id] EXCEPT !.subject = requests[id].subject] = requests[id]
  BY <1>1 DEF BackchannelAuthentication
<1>3. Tokens(id, [requests[id] EXCEPT !.subject = requests[id].subject], cert)
  BY <1>2 DEF Redeem
<1>. QED BY <1>2, <1>3, TokensDeliver DEF Redeem, MayAsk

\* The other steps on a request: they deliver nothing and keep it unused.
LEMMA StartStep ==
  ASSUME NEW id, NEW c, NEW cert, NEW ttl, Start(id, c, cert, ttl)
  PROVE  /\ id \notin DOMAIN requests
         /\ DOMAIN requests' = DOMAIN requests \cup {id}
         /\ \A i \in DOMAIN requests : requests'[i] = requests[i]
         /\ requests'[id] = [client_id |-> c, mode |-> Mode[c], expires_at |-> now + ttl,
                             interval |-> Interval, x5t |-> cert, subject |-> None, denied |-> FALSE,
                             used |-> FALSE, last_polled_at |-> None]
         /\ UNCHANGED <<now, deliveries, polls>>
BY DEF Start

LEMMA DecisionStep ==
  ASSUME TypeOK, NEW id \in RequestId, (\E u \in User : Approve(id, u)) \/ Deny(id)
  PROVE  /\ Record(id)
         /\ DOMAIN requests' = DOMAIN requests
         /\ \A i \in DOMAIN requests : i # id => requests'[i] = requests[i]
         /\ requests'[id] \in BackchannelAuthentication
         /\ ~requests'[id].used
         /\ requests'[id].mode = requests[id].mode
         /\ requests'[id].interval = requests[id].interval
         /\ requests'[id].last_polled_at = requests[id].last_polled_at
         /\ UNCHANGED <<now, deliveries, polls>>
<1>1. CASE \E u \in User : Approve(id, u)
  <2>1. PICK u \in User : Approve(id, u)
    BY <1>1
  <2>2. id \in DOMAIN requests /\ requests[id] \in BackchannelAuthentication /\ ~requests[id].used
    BY <2>1 DEF Approve, Record, TypeOK
  <2>3. requests'[id] = [requests[id] EXCEPT !.subject = u]
    BY <2>1, <2>2 DEF Approve
  <2>. QED BY <2>1, <2>2, <2>3 DEF Approve, BackchannelAuthentication
<1>2. CASE Deny(id)
  <2>2. id \in DOMAIN requests /\ requests[id] \in BackchannelAuthentication /\ ~requests[id].used
    BY <1>2 DEF Deny, Record, TypeOK
  <2>3. requests'[id] = [requests[id] EXCEPT !.denied = TRUE]
    BY <1>2, <2>2 DEF Deny
  <2>. QED BY <1>2, <2>2, <2>3 DEF Deny, BackchannelAuthentication
<1>. QED BY <1>1, <1>2

Answer(id) == [at |-> now, answer |-> IF TooFast(id) THEN "slow_down" ELSE "pending"]

LEMMA PollStep ==
  ASSUME TypeOK, NEW id \in RequestId, NEW c \in Client, Poll(id, c)
  PROVE  /\ Record(id) /\ ~requests[id].denied
         /\ DOMAIN requests' = DOMAIN requests
         /\ \A i \in DOMAIN requests : i # id => requests'[i] = requests[i]
         /\ requests'[id] \in BackchannelAuthentication
         /\ ~requests'[id].used /\ ~requests'[id].denied
         /\ requests'[id].interval = IF TooFast(id) THEN requests[id].interval + BackOff
                                     ELSE requests[id].interval
         /\ requests'[id].last_polled_at = now
         /\ Answer(id) \in [at : Nat, answer : {"pending", "slow_down"}]
         /\ polls' = [polls EXCEPT ![id] = Append(@, Answer(id))]
         /\ UNCHANGED <<now, deliveries>>
<1>. USE CIBAAssumption
<1>1. id \in DOMAIN requests /\ requests[id] \in BackchannelAuthentication /\ ~requests[id].used
  BY DEF Poll, MayAsk, Record, TypeOK
<1>2. requests' = [requests EXCEPT
       ![id].interval = IF TooFast(id) THEN @ + BackOff ELSE @,
       ![id].last_polled_at = now]
  BY DEF Poll
<1>3. DOMAIN requests' = DOMAIN requests /\ \A i \in DOMAIN requests : i # id => requests'[i] = requests[i]
  BY <1>1, <1>2
<1>4. requests'[id] = [requests[id] EXCEPT
        !.interval = IF TooFast(id) THEN requests[id].interval + BackOff ELSE requests[id].interval,
        !.last_polled_at = now]
  BY <1>1, <1>2
<1>. DEFINE n == IF TooFast(id) THEN requests[id].interval + BackOff ELSE requests[id].interval
<1>5. now \in Nat /\ requests[id].interval \in Nat /\ n \in Nat
  BY <1>1 DEF TypeOK, BackchannelAuthentication
<1>6. /\ requests'[id] \in BackchannelAuthentication
      /\ requests'[id].used = requests[id].used
      /\ requests'[id].denied = requests[id].denied
      /\ requests'[id].interval = n
      /\ requests'[id].last_polled_at = now
  <2>1. requests'[id] = [requests[id] EXCEPT !.interval = n, !.last_polled_at = now]
    BY <1>4
  <2>. HIDE DEF n
  <2>. QED BY <1>1, <1>5, <2>1 DEF BackchannelAuthentication
<1>7. Answer(id) \in [at : Nat, answer : {"pending", "slow_down"}]
  BY <1>5 DEF Answer
<1>. QED BY <1>1, <1>3, <1>6, <1>7 DEF Poll, MayAsk, Answer

LEMMA TypeStep == TypeOK /\ [Next]_vars => TypeOK'
<1>. SUFFICES ASSUME TypeOK, [Next]_vars PROVE TypeOK'
  OBVIOUS
<1>. USE CIBAAssumption
<1>0. /\ now \in Nat /\ DOMAIN requests \subseteq RequestId
      /\ \A i \in DOMAIN requests : requests[i] \in BackchannelAuthentication
      /\ deliveries \in Seq(Delivery)
  BY DEF TypeOK
<1>1. ASSUME NEW id \in RequestId, NEW c \in Client, NEW cert \in Certificate \cup {None}, NEW ttl \in 1..Lifetime,
             Start(id, c, cert, ttl)
      PROVE  TypeOK'
  <2>1. requests'[id] \in BackchannelAuthentication
    <3>1. now + ttl \in Nat
      BY <1>0
    <3>2. requests'[id] = [client_id |-> c, mode |-> Mode[c], expires_at |-> now + ttl,
                           interval |-> Interval, x5t |-> cert, subject |-> None, denied |-> FALSE,
                           used |-> FALSE, last_polled_at |-> None]
      BY <1>1, StartStep
    <3>3. Mode[c] \in {"poll", "ping", "push"}
      OBVIOUS
    <3>. QED BY <3>1, <3>2, <3>3 DEF BackchannelAuthentication
  <2>2. DOMAIN requests' = DOMAIN requests \cup {id} /\ \A i \in DOMAIN requests : requests'[i] = requests[i]
    BY <1>1, StartStep
  <2>3. requests' \in [DOMAIN requests' -> BackchannelAuthentication]
    <3>1. requests' = [i \in DOMAIN requests' |-> requests'[i]]
      BY <1>1 DEF Start
    <3>. QED BY <1>0, <2>1, <2>2, <3>1
  <2>. QED BY <1>1, <2>2, <2>3 DEF Start, TypeOK
<1>2. ASSUME NEW id \in RequestId, NEW d, Delivered(id, d), requests' = [i \in DOMAIN requests' |-> requests'[i]]
      PROVE  TypeOK'
  <2>1. requests' \in [DOMAIN requests' -> BackchannelAuthentication]
    BY <1>0, <1>2 DEF Delivered
  <2>2. deliveries' \in Seq(Delivery)
    BY <1>0, <1>2 DEF Delivered
  <2>. QED BY <1>0, <1>2, <2>1, <2>2 DEF Delivered, TypeOK
<1>3. ASSUME NEW id \in RequestId, (\E u \in User : Approve(id, u)) \/ Deny(id) PROVE TypeOK'
  <2>1. /\ DOMAIN requests' = DOMAIN requests
        /\ \A i \in DOMAIN requests : i # id => requests'[i] = requests[i]
        /\ requests'[id] \in BackchannelAuthentication
        /\ UNCHANGED <<now, deliveries, polls>>
    BY <1>3, DecisionStep
  <2>2. requests' = [i \in DOMAIN requests' |-> requests'[i]]
    BY <1>3 DEF Approve, Deny
  <2>3. requests' \in [DOMAIN requests' -> BackchannelAuthentication]
    BY <1>0, <2>1, <2>2
  <2>. QED BY <1>0, <2>1, <2>3 DEF TypeOK
<1>4. ASSUME NEW id \in RequestId, NEW c \in Client, Poll(id, c) PROVE TypeOK'
  <2>1. /\ DOMAIN requests' = DOMAIN requests
        /\ \A i \in DOMAIN requests : i # id => requests'[i] = requests[i]
        /\ requests'[id] \in BackchannelAuthentication
        /\ Answer(id) \in [at : Nat, answer : {"pending", "slow_down"}]
        /\ polls' = [polls EXCEPT ![id] = Append(@, Answer(id))]
        /\ UNCHANGED <<now, deliveries>>
    BY <1>4, PollStep
  <2>2. requests' = [i \in DOMAIN requests' |-> requests'[i]]
    BY <1>4 DEF Poll
  <2>3. requests' \in [DOMAIN requests' -> BackchannelAuthentication]
    BY <1>0, <2>1, <2>2
  <2>4. polls' \in [RequestId -> Seq([at : Nat, answer : {"pending", "slow_down"}])]
    BY <2>1 DEF TypeOK
  <2>. QED BY <1>0, <2>1, <2>3, <2>4 DEF TypeOK
<1>5. CASE Tick \/ UNCHANGED vars
  BY <1>5 DEF Tick, vars, TypeOK
<1>6. ASSUME NEW id \in RequestId, NEW u \in User, ApproveAndPush(id, u) PROVE TypeOK'
  <2>1. requests' = [i \in DOMAIN requests' |-> requests'[i]]
    BY <1>6 DEF ApproveAndPush, Tokens
  <2>. QED BY <1>2, <1>6, <2>1, PushDelivers
<1>7. ASSUME NEW id \in RequestId, NEW c \in Client, NEW cert \in Certificate \cup {None}, Redeem(id, c, cert)
      PROVE  TypeOK'
  <2>1. requests' = [i \in DOMAIN requests' |-> requests'[i]]
    BY <1>7 DEF Redeem, Tokens
  <2>. QED BY <1>2, <1>7, <2>1, RedeemDelivers
<1>. QED BY <1>1, <1>3, <1>4, <1>5, <1>6, <1>7 DEF Next

----------------------------------------------------------------------------
(* Deliveries.                                                             *)

\* Every step delivers for an unused request, or leaves the deliveries alone;
\* then the requests that have been used keep their records.
LEMMA DeliverOrNot ==
  ASSUME TypeOK, [Next]_vars
  PROVE  \/ \E id \in RequestId : \E d : Delivered(id, d)
         \/ /\ deliveries' = deliveries
            /\ DOMAIN requests \subseteq DOMAIN requests'
            /\ \A i \in DOMAIN requests : requests[i].used => requests'[i] = requests[i]
<1>. DEFINE Kept == /\ deliveries' = deliveries
                    /\ DOMAIN requests \subseteq DOMAIN requests'
                    /\ \A i \in DOMAIN requests : requests[i].used => requests'[i] = requests[i]
<1>1. ASSUME NEW id \in RequestId, NEW c \in Client, NEW cert \in Certificate \cup {None}, NEW ttl \in 1..Lifetime,
             Start(id, c, cert, ttl)
      PROVE  Kept
  BY <1>1, StartStep
<1>2. ASSUME NEW id \in RequestId, (\E u \in User : Approve(id, u)) \/ Deny(id) PROVE Kept
  BY <1>2, DecisionStep DEF Record
<1>3. ASSUME NEW id \in RequestId, NEW c \in Client, Poll(id, c) PROVE Kept
  BY <1>3, PollStep DEF Record
<1>4. Tick \/ UNCHANGED vars => Kept
  BY DEF Tick, vars
<1>. QED BY <1>1, <1>2, <1>3, <1>4, PushDelivers, RedeemDelivers DEF Next

\* What a delivery does to the list of deliveries.
LEMMA Appended ==
  ASSUME TypeOK, NEW id \in RequestId, NEW d, Delivered(id, d)
  PROVE  /\ Len(deliveries) \in Nat /\ Len(deliveries') = Len(deliveries) + 1
         /\ deliveries'[Len(deliveries) + 1] = d
         /\ \A i \in 1..Len(deliveries) : deliveries'[i] = deliveries[i]
<1>1. deliveries \in Seq(Delivery) /\ d \in Delivery /\ deliveries' = Append(deliveries, d)
  BY DEF TypeOK, Delivered
<1>. QED BY <1>1

LEMMA DeliveriesStep == TypeOK /\ DeliveriesSound /\ [Next]_vars => DeliveriesSound'
<1>. SUFFICES ASSUME TypeOK, DeliveriesSound, [Next]_vars PROVE DeliveriesSound'
  OBVIOUS
<1>1. ASSUME NEW id \in RequestId, NEW d, Delivered(id, d) PROVE DeliveriesSound'
  <2>1. /\ Len(deliveries) \in Nat /\ Len(deliveries') = Len(deliveries) + 1
        /\ deliveries'[Len(deliveries) + 1] = d
        /\ \A i \in 1..Len(deliveries) : deliveries'[i] = deliveries[i]
    BY <1>1, Appended
  <2>2. \A i \in 1..Len(deliveries) : deliveries[i].id # id
    BY <1>1 DEF Delivered, Record, DeliveriesSound
  <2>3. ASSUME NEW i \in 1..Len(deliveries')
        PROVE  deliveries'[i].id \in DOMAIN requests' /\ requests'[deliveries'[i].id].used
    <3>1. CASE i = Len(deliveries) + 1
      BY <1>1, <2>1, <3>1 DEF Delivered, Record
    <3>2. CASE i # Len(deliveries) + 1
      <4>1. i \in 1..Len(deliveries)
        BY <2>1, <3>2
      <4>. QED BY <1>1, <2>1, <2>2, <4>1 DEF Delivered, DeliveriesSound
    <3>. QED BY <3>1, <3>2
  <2>4. ASSUME NEW i \in 1..Len(deliveries'), NEW j \in 1..Len(deliveries'),
               deliveries'[j].id = deliveries'[i].id
        PROVE  j = i
    <3>1. \A k \in 1..Len(deliveries') : k \in 1..Len(deliveries) \/ k = Len(deliveries) + 1
      BY <2>1
    <3>2. d.id = id
      BY <1>1 DEF Delivered
    <3>. QED BY <2>1, <2>2, <2>4, <3>1, <3>2 DEF DeliveriesSound
  <2>. QED BY <2>3, <2>4 DEF DeliveriesSound
<1>2. ASSUME /\ deliveries' = deliveries
             /\ DOMAIN requests \subseteq DOMAIN requests'
             /\ \A i \in DOMAIN requests : requests[i].used => requests'[i] = requests[i]
      PROVE  DeliveriesSound'
  BY <1>2 DEF DeliveriesSound
<1>. QED BY <1>1, <1>2, DeliverOrNot

\* A request that is not used has no delivery.
LEMMA UnusedUndelivered ==
  ASSUME DeliveriesSound, NEW id, id \in DOMAIN requests => ~requests[id].used
  PROVE  DeliveriesOf(id) = {}
BY DEF DeliveriesSound, DeliveriesOf

LEMMA AgreedStep ==
  /\ TypeOK /\ DeliveriesSound /\ DeniedGetsNothing /\ DeliveredAsAgreed /\ [Next]_vars
  => DeniedGetsNothing' /\ DeliveredAsAgreed'
<1>. SUFFICES ASSUME TypeOK, DeliveriesSound, DeniedGetsNothing, DeliveredAsAgreed, [Next]_vars
              PROVE  DeniedGetsNothing' /\ DeliveredAsAgreed'
  OBVIOUS
<1>1. ASSUME NEW id \in RequestId, NEW d, Delivered(id, d)
      PROVE  DeniedGetsNothing' /\ DeliveredAsAgreed'
  <2>1. /\ Len(deliveries) \in Nat /\ Len(deliveries') = Len(deliveries) + 1
        /\ deliveries'[Len(deliveries) + 1] = d
        /\ \A i \in 1..Len(deliveries) : deliveries'[i] = deliveries[i]
    BY <1>1, Appended
  <2>2. \A i \in 1..Len(deliveries) : deliveries[i].id # id /\ deliveries[i].id \in DOMAIN requests
    BY <1>1 DEF Delivered, Record, DeliveriesSound
  <2>3. \A k \in 1..Len(deliveries') : k \in 1..Len(deliveries) \/ k = Len(deliveries) + 1
    BY <2>1
  <2>4. /\ DOMAIN requests' = DOMAIN requests
        /\ \A i \in DOMAIN requests : i # id => requests'[i] = requests[i]
        /\ d.id = id
    BY <1>1 DEF Delivered
  <2>5. ASSUME NEW i \in DOMAIN requests', requests'[i].denied, requests'[i].mode # "push"
        PROVE  DeliveriesOf(i)' = {}
    <3>1. i # id
      BY <1>1, <2>5 DEF Delivered, SameTerms
    <3>2. DeliveriesOf(i) = {}
      BY <2>4, <2>5, <3>1 DEF DeniedGetsNothing
    <3>. QED BY <2>1, <2>3, <2>4, <3>1, <3>2 DEF DeliveriesOf
  <2>6. ASSUME NEW i \in 1..Len(deliveries')
        PROVE  /\ deliveries'[i].at <= requests'[deliveries'[i].id].expires_at
               /\ deliveries'[i].subject = requests'[deliveries'[i].id].subject
               /\ CertBound[requests'[deliveries'[i].id].client_id] =>
                    /\ deliveries'[i].x5t = requests'[deliveries'[i].id].x5t
                    /\ deliveries'[i].presented = requests'[deliveries'[i].id].x5t
    <3>1. CASE i \in 1..Len(deliveries)
      BY <2>1, <2>2, <2>4, <3>1 DEF DeliveredAsAgreed
    <3>2. CASE i = Len(deliveries) + 1
      BY <1>1, <2>1, <3>2 DEF Delivered, SameTerms, Record
    <3>. QED BY <2>3, <3>1, <3>2
  <2>. QED BY <2>5, <2>6 DEF DeniedGetsNothing, DeliveredAsAgreed
<1>2. ASSUME /\ deliveries' = deliveries
             /\ DOMAIN requests \subseteq DOMAIN requests'
             /\ \A i \in DOMAIN requests : requests[i].used => requests'[i] = requests[i]
      PROVE  DeniedGetsNothing' /\ DeliveredAsAgreed'
  <2>1. DeliveriesSound'
    BY DeliveriesStep
  <2>2. ASSUME NEW i \in DOMAIN requests', requests'[i].denied, requests'[i].mode # "push"
        PROVE  DeliveriesOf(i) = {}
    <3>1. CASE i \in DOMAIN requests /\ requests[i].used
      BY <1>2, <2>2, <3>1 DEF DeniedGetsNothing
    <3>2. CASE ~(i \in DOMAIN requests /\ requests[i].used)
      BY <3>2, UnusedUndelivered
    <3>. QED BY <3>1, <3>2
  <2>3. DeniedGetsNothing'
    BY <1>2, <2>2 DEF DeniedGetsNothing, DeliveriesOf
  <2>4. \A i \in 1..Len(deliveries) : requests'[deliveries[i].id] = requests[deliveries[i].id]
    BY <1>2 DEF DeliveriesSound
  <2>5. DeliveredAsAgreed'
    BY <1>2, <2>4 DEF DeliveredAsAgreed
  <2>. QED BY <2>3, <2>5
<1>. QED BY <1>1, <1>2, DeliverOrNot

----------------------------------------------------------------------------
(* Polls.                                                                  *)

LEMMA SlowInFinite ==
  ASSUME NEW history, NEW n \in Nat
  PROVE  IsFiniteSet(SlowIn(history, n)) /\ Cardinality(SlowIn(history, n)) \in Nat
<1>1. IsFiniteSet(1..n) /\ SlowIn(history, n) \in SUBSET (1..n)
  BY FS_Interval DEF SlowIn
<1>2. IsFiniteSet(SlowIn(history, n))
  BY <1>1, FS_Subset
<1>. QED BY <1>2, FS_CardinalityType

\* One more answer, one more slow_down if it is one; earlier counts stay.
LEMMA SlowInAppend ==
  ASSUME NEW A, NEW history \in Seq(A), NEW answer \in A
  PROVE  /\ \A n \in 0..Len(history) : SlowIn(Append(history, answer), n) = SlowIn(history, n)
         /\ Cardinality(SlowIn(Append(history, answer), Len(history) + 1)) =
              IF answer.answer = "slow_down" THEN Cardinality(SlowIn(history, Len(history))) + 1
              ELSE Cardinality(SlowIn(history, Len(history)))
<1>. DEFINE new == Append(history, answer)
            len == Len(history)
<1>1. len \in Nat /\ new[len + 1] = answer /\ \A k \in 1..len : new[k] = history[k]
  OBVIOUS
<1>2. \A n \in 0..len : SlowIn(new, n) = SlowIn(history, n)
  BY <1>1 DEF SlowIn
<1>3. SlowIn(new, len + 1) = IF answer.answer = "slow_down" THEN SlowIn(history, len) \cup {len + 1}
                             ELSE SlowIn(history, len)
  <2>1. \A k : k \in 1..(len + 1) <=> k \in 1..len \/ k = len + 1
    BY <1>1
  <2>. HIDE DEF new, len
  <2>. QED BY <1>1, <2>1 DEF SlowIn
<1>4. len + 1 \notin SlowIn(history, len)
  BY <1>1 DEF SlowIn
<1>5. IsFiniteSet(SlowIn(history, len))
  BY <1>1, SlowInFinite
<1>6. Cardinality(SlowIn(history, len) \cup {len + 1}) = Cardinality(SlowIn(history, len)) + 1
  <2>. HIDE DEF len
  <2>. QED BY <1>4, <1>5, FS_AddElement
<1>. QED BY <1>2, <1>3, <1>6

\* A history is paced, and interval is what the next poll has to wait.
PacedHistory(history) ==
  \A k \in 2..Len(history) :
    history[k].answer = "pending" =>
      history[k].at - history[k - 1].at >= Interval + BackOff * Cardinality(SlowIn(history, k))

\* One more poll keeps a history paced and grows the interval as the record does.
LEMMA PacedAppend ==
  ASSUME NEW history \in Seq([at : Nat, answer : {"pending", "slow_down"}]), PacedHistory(history),
         NEW t \in Nat, NEW interval \in Nat, NEW fast \in BOOLEAN,
         interval = Interval + BackOff * Cardinality(SlowIn(history, Len(history))),
         history # <<>> /\ ~fast => t - history[Len(history)].at >= interval,
         NEW answer, answer = [at |-> t, answer |-> IF fast THEN "slow_down" ELSE "pending"]
  PROVE  /\ PacedHistory(Append(history, answer))
         /\ (IF fast THEN interval + BackOff ELSE interval) =
              Interval + BackOff * Cardinality(SlowIn(Append(history, answer), Len(Append(history, answer))))
<1>. USE CIBAAssumption
<1>. DEFINE new == Append(history, answer)
            len == Len(history)
<1>1. answer \in [at : Nat, answer : {"pending", "slow_down"}] /\ len \in Nat
  OBVIOUS
<1>2. Len(new) = len + 1 /\ new[len + 1] = answer /\ \A k \in 1..len : new[k] = history[k]
  BY <1>1
<1>3. /\ \A n \in 0..len : SlowIn(new, n) = SlowIn(history, n)
      /\ Cardinality(SlowIn(new, len + 1)) =
           IF fast THEN Cardinality(SlowIn(history, len)) + 1 ELSE Cardinality(SlowIn(history, len))
  <2>. DEFINE A == [at : Nat, answer : {"pending", "slow_down"}]
  <2>0. history \in Seq(A) /\ answer \in A
    BY <1>1
  <2>. HIDE DEF A
  <2>1. /\ \A n \in 0..len : SlowIn(new, n) = SlowIn(history, n)
        /\ Cardinality(SlowIn(new, len + 1)) =
             IF answer.answer = "slow_down" THEN Cardinality(SlowIn(history, len)) + 1
             ELSE Cardinality(SlowIn(history, len))
    BY <2>0, SlowInAppend
  <2>2. answer.answer = "slow_down" <=> fast
    OBVIOUS
  <2>. HIDE DEF new, len
  <2>. QED BY <2>1, <2>2
<1>4. Cardinality(SlowIn(history, len)) \in Nat
  BY <1>1, SlowInFinite
<1>5. (IF fast THEN interval + BackOff ELSE interval) = Interval + BackOff * Cardinality(SlowIn(new, len + 1))
  <2>1. \A n \in Nat : BackOff * (n + 1) = BackOff * n + BackOff
    OBVIOUS
  <2>2. \A n \in Nat : BackOff * n \in Nat
    OBVIOUS
  <2>0. interval = Interval + BackOff * Cardinality(SlowIn(history, len))
    OBVIOUS
  <2>. HIDE DEF new, len
  <2>3. CASE fast
    <3>1. BackOff * Cardinality(SlowIn(new, len + 1)) = BackOff * Cardinality(SlowIn(history, len)) + BackOff
      BY <1>3, <1>4, <2>1, <2>3
    <3>. QED BY <1>4, <2>2, <2>3, <2>0, <3>1
  <2>4. CASE ~fast
    BY <1>3, <2>4, <2>0
  <2>. QED BY <2>3, <2>4
<1>6. ASSUME NEW k \in 2..Len(new), new[k].answer = "pending"
      PROVE  new[k].at - new[k - 1].at >= Interval + BackOff * Cardinality(SlowIn(new, k))
  <2>1. CASE k \in 2..len
    <3>1. k \in 0..len /\ k \in 1..len /\ k - 1 \in 1..len
      BY <1>1, <2>1
    <3>. HIDE DEF new, len
    <3>. QED BY <1>2, <1>3, <1>6, <2>1, <3>1 DEF PacedHistory, len
  <2>2. CASE k = len + 1
    <3>1. len \in 1..len /\ len + 1 - 1 = len /\ history # <<>>
      BY <1>1, <1>2, <1>6, <2>2
    <3>2. ~fast /\ new[k].at = t
      BY <1>2, <1>6, <2>2
    <3>3. new[k - 1] = history[len]
      BY <1>2, <2>2, <3>1
    <3>4. t - history[len].at >= interval
      BY <3>1, <3>2
    <3>5. interval = Interval + BackOff * Cardinality(SlowIn(new, k))
      BY <1>5, <2>2, <3>2
    <3>. HIDE DEF new, len
    <3>. QED BY <3>2, <3>3, <3>4, <3>5
  <2>3. k \in 2..len \/ k = len + 1
    BY <1>1, <1>2, <1>6
  <2>. QED BY <2>1, <2>2, <2>3
<1>. QED BY <1>2, <1>5, <1>6 DEF PacedHistory

\* Steps that are no polls and change no record's pace.
LEMMA SamePolls ==
  ASSUME PollsSound, PollingPaced, polls' = polls, DOMAIN requests' = DOMAIN requests,
         \A i \in DOMAIN requests : /\ requests'[i].interval = requests[i].interval
                                    /\ requests'[i].last_polled_at = requests[i].last_polled_at
  PROVE  PollsSound' /\ PollingPaced'
<1>1. PollsSound'
  BY DEF PollsSound
<1>2. PollingPaced'
  BY DEF PollingPaced, SlowDowns
<1>. QED BY <1>1, <1>2

LEMMA PollsStep ==
  TypeOK /\ PollsSound /\ PollingPaced /\ [Next]_vars => PollsSound' /\ PollingPaced'
<1>. SUFFICES ASSUME TypeOK, PollsSound, PollingPaced, [Next]_vars PROVE PollsSound' /\ PollingPaced'
  OBVIOUS
<1>. USE CIBAAssumption
<1>1. ASSUME NEW id \in RequestId, NEW c \in Client, NEW cert \in Certificate \cup {None}, NEW ttl \in 1..Lifetime,
             Start(id, c, cert, ttl)
      PROVE  PollsSound' /\ PollingPaced'
  <2>1. /\ id \notin DOMAIN requests
        /\ DOMAIN requests' = DOMAIN requests \cup {id}
        /\ \A i \in DOMAIN requests : requests'[i] = requests[i]
        /\ requests'[id].interval = Interval
        /\ polls' = polls
    BY <1>1 DEF Start
  <2>2. polls[id] = <<>> /\ Len(polls[id]) = 0
    BY <2>1 DEF PollsSound
  <2>3. Cardinality(SlowIn(polls[id], 0)) = 0
    <3>1. SlowIn(polls[id], 0) = {}
      BY DEF SlowIn
    <3>. QED BY <3>1, FS_EmptySet
  <2>4. requests'[id].interval = Interval + BackOff * Cardinality(SlowIn(polls[id], Len(polls[id])))
    BY <2>1, <2>2, <2>3
  <2>5. PollsSound'
    BY <2>1, <2>2, <2>4 DEF PollsSound
  <2>6. PollingPaced'
    BY <2>1 DEF PollingPaced, SlowDowns
  <2>. QED BY <2>5, <2>6
<1>2. ASSUME NEW id \in RequestId, NEW c \in Client, Poll(id, c) PROVE PollsSound' /\ PollingPaced'
  <2>1. /\ Record(id)
        /\ DOMAIN requests' = DOMAIN requests
        /\ \A i \in DOMAIN requests : i # id => requests'[i] = requests[i]
        /\ requests'[id].interval = IF TooFast(id) THEN requests[id].interval + BackOff
                                    ELSE requests[id].interval
        /\ requests'[id].last_polled_at = now
        /\ Answer(id) \in [at : Nat, answer : {"pending", "slow_down"}]
        /\ polls' = [polls EXCEPT ![id] = Append(@, Answer(id))]
        /\ UNCHANGED <<now, deliveries>>
    BY <1>2, PollStep
  <2>2. /\ id \in DOMAIN requests /\ requests[id].interval \in Nat /\ now \in Nat
        /\ polls[id] \in Seq([at : Nat, answer : {"pending", "slow_down"}])
    BY <2>1 DEF Record, TypeOK, BackchannelAuthentication
  <2>3. requests[id].interval = Interval + BackOff * Cardinality(SlowIn(polls[id], Len(polls[id])))
    BY <2>2 DEF PollsSound
  <2>4. PacedHistory(polls[id])
    BY DEF PollingPaced, PacedHistory, SlowDowns, SlowIn
  <2>5. polls[id] # <<>> /\ ~TooFast(id) => now - polls[id][Len(polls[id])].at >= requests[id].interval
    <3>1. SUFFICES ASSUME polls[id] # <<>>, ~TooFast(id)
                   PROVE  now - polls[id][Len(polls[id])].at >= requests[id].interval
      OBVIOUS
    <3>2. requests[id].last_polled_at = polls[id][Len(polls[id])].at
      BY <2>2, <3>1 DEF PollsSound
    <3>3. Len(polls[id]) \in 1..Len(polls[id])
      BY <2>2, <3>1
    <3>4. polls[id][Len(polls[id])] \in [at : Nat, answer : {"pending", "slow_down"}]
      <4>1. \A A : \A h \in Seq(A) : Len(h) \in 1..Len(h) => h[Len(h)] \in A
        OBVIOUS
      <4>. QED BY <2>2, <3>3, <4>1
    <3>5. polls[id][Len(polls[id])].at \in Nat
      BY <3>4
    <3>. QED BY <2>2, <3>1, <3>2, <3>5 DEF TooFast
  <2>6. TooFast(id) \in BOOLEAN
    BY DEF TooFast
  <2>7. /\ PacedHistory(Append(polls[id], Answer(id)))
        /\ (IF TooFast(id) THEN requests[id].interval + BackOff ELSE requests[id].interval) =
             Interval + BackOff * Cardinality(SlowIn(Append(polls[id], Answer(id)),
                                                     Len(Append(polls[id], Answer(id)))))
    <3>1. Answer(id) = [at |-> now, answer |-> IF TooFast(id) THEN "slow_down" ELSE "pending"]
      BY DEF Answer
    <3>. QED BY <2>2, <2>3, <2>4, <2>5, <2>6, <3>1, PacedAppend
  <2>8. /\ polls'[id] = Append(polls[id], Answer(id))
        /\ \A i \in RequestId : i # id => polls'[i] = polls[i]
    BY <2>1 DEF TypeOK
  <2>9. polls'[id][Len(polls'[id])].at = now
    BY <2>2, <2>8 DEF Answer
  <2>10. PollingPaced'
    <3>1. ASSUME NEW i \in RequestId PROVE PacedHistory(polls'[i])
      <4>1. CASE i = id
        BY <2>7, <2>8, <4>1
      <4>2. CASE i # id
        BY <2>8, <4>2 DEF PollingPaced, PacedHistory, SlowDowns, SlowIn
      <4>. QED BY <4>1, <4>2
    <3>. QED BY <3>1 DEF PollingPaced, PacedHistory, SlowDowns, SlowIn
  <2>11. PollsSound'
    <3>1. ASSUME NEW i \in RequestId
          PROVE  /\ i \notin DOMAIN requests' => polls'[i] = <<>>
                 /\ i \in DOMAIN requests' =>
                      /\ requests'[i].interval =
                           Interval + BackOff * Cardinality(SlowIn(polls'[i], Len(polls'[i])))
                      /\ polls'[i] # <<>> => requests'[i].last_polled_at = polls'[i][Len(polls'[i])].at
      <4>1. CASE i = id
        BY <2>1, <2>2, <2>7, <2>8, <2>9, <4>1
      <4>2. CASE i # id
        BY <2>1, <2>8, <4>2 DEF PollsSound
      <4>. QED BY <4>1, <4>2
    <3>. QED BY <3>1 DEF PollsSound
  <2>. QED BY <2>10, <2>11
<1>3. ASSUME NEW id \in RequestId, (\E u \in User : Approve(id, u)) \/ Deny(id)
      PROVE  PollsSound' /\ PollingPaced'
  <2>1. /\ DOMAIN requests' = DOMAIN requests
        /\ \A i \in DOMAIN requests : i # id => requests'[i] = requests[i]
        /\ requests'[id].interval = requests[id].interval
        /\ requests'[id].last_polled_at = requests[id].last_polled_at
        /\ polls' = polls
    BY <1>3, DecisionStep
  <2>2. \A i \in DOMAIN requests : /\ requests'[i].interval = requests[i].interval
                                   /\ requests'[i].last_polled_at = requests[i].last_polled_at
    BY <2>1
  <2>. QED BY <2>1, <2>2, SamePolls
<1>4. ASSUME NEW id \in RequestId, NEW d, Delivered(id, d) PROVE PollsSound' /\ PollingPaced'
  <2>1. /\ DOMAIN requests' = DOMAIN requests
        /\ \A i \in DOMAIN requests : i # id => requests'[i] = requests[i]
        /\ requests'[id].interval = requests[id].interval
        /\ requests'[id].last_polled_at = requests[id].last_polled_at
        /\ polls' = polls
    BY <1>4 DEF Delivered, SameTerms
  <2>2. \A i \in DOMAIN requests : /\ requests'[i].interval = requests[i].interval
                                   /\ requests'[i].last_polled_at = requests[i].last_polled_at
    BY <2>1
  <2>. QED BY <2>1, <2>2, SamePolls
<1>5. CASE Tick \/ UNCHANGED vars
  BY <1>5, SamePolls DEF Tick, vars
<1>. QED BY <1>1, <1>2, <1>3, <1>4, <1>5, PushDelivers, RedeemDelivers DEF Next

----------------------------------------------------------------------------
(* The theorems.                                                           *)

LEMMA InitIInv == Init => IInv
<1>. SUFFICES ASSUME Init PROVE IInv
  OBVIOUS
<1>1. /\ DOMAIN requests = {} /\ requests \in [DOMAIN requests -> BackchannelAuthentication]
      /\ Len(deliveries) = 0 /\ deliveries \in Seq(Delivery)
      /\ \A id \in RequestId : polls[id] = <<>> /\ Len(polls[id]) = 0
  BY DEF Init
<1>2. TypeOK
  BY <1>1 DEF Init, TypeOK
<1>3. DeliveriesSound /\ PollsSound /\ AnswersAsAgreed
  BY <1>1 DEF DeliveriesSound, PollsSound, AnswersAsAgreed, DeniedGetsNothing, DeliveredAsAgreed, PollingPaced
<1>. QED BY <1>2, <1>3 DEF IInv

LEMMA InductiveStep == IInv /\ [Next]_vars => IInv'
  BY TypeStep, DeliveriesStep, AgreedStep, PollsStep DEF IInv, AnswersAsAgreed

\* The records of the service stay well-formed.
THEOREM TypeCorrect == Spec => []TypeOK
<1>1. IInv => TypeOK
  BY DEF IInv
<1>. QED BY <1>1, InitIInv, InductiveStep, PTL DEF Spec

\* A denial is final, tokens are issued on the terms of the request, and polls
\* are paced, in whichever order the device, the polls and the clock come.
THEOREM AnswersAgreed == Spec => []AnswersAsAgreed
<1>1. IInv => AnswersAsAgreed
  BY DEF IInv
<1>. QED BY <1>1, InitIInv, InductiveStep, PTL DEF Spec

\* The service implements one-time use of auth_req_ids: a step issues the first
\* token set of one request, or none.
THEOREM Refinement == Spec => ImplementsOneTimeUse
<1>. DEFINE Uses == [id \in RequestId |-> Cardinality(DeliveriesOf(id))]
<1>1. Init => OneDelivery!Init
  <2>1. ASSUME Init, NEW id \in RequestId PROVE Cardinality(DeliveriesOf(id)) = 0
    <3>1. DeliveriesOf(id) = {}
      BY <2>1 DEF Init, DeliveriesOf
    <3>. QED BY <3>1, FS_EmptySet
  <2>. QED BY <2>1 DEF OneDelivery!Init
<1>2. IInv /\ [Next]_vars => [OneDelivery!Next]_Uses
  <2>. SUFFICES ASSUME IInv, [Next]_vars PROVE OneDelivery!Next \/ UNCHANGED Uses
    OBVIOUS
  <2>0. TypeOK /\ DeliveriesSound
    BY DEF IInv
  <2>1. ASSUME NEW id \in RequestId, NEW d, Delivered(id, d) PROVE OneDelivery!Next
    <3>1. DeliveriesOf(id) = {}
      BY <2>0, <2>1, UnusedUndelivered DEF Delivered, Record
    <3>2. /\ Len(deliveries) \in Nat /\ Len(deliveries') = Len(deliveries) + 1
          /\ deliveries'[Len(deliveries) + 1] = d /\ d.id = id
          /\ \A i \in 1..Len(deliveries) : deliveries'[i] = deliveries[i]
      BY <2>0, <2>1, Appended DEF Delivered
    <3>3. \A k : k \in 1..Len(deliveries') <=> k \in 1..Len(deliveries) \/ k = Len(deliveries) + 1
      BY <3>2
    <3>4. DeliveriesOf(id)' = {Len(deliveries) + 1}
      BY <3>1, <3>2, <3>3 DEF DeliveriesOf
    <3>5. \A i \in RequestId : i # id => DeliveriesOf(i)' = DeliveriesOf(i)
      BY <3>2, <3>3 DEF DeliveriesOf
    <3>6. Cardinality(DeliveriesOf(id)) = 0 /\ Cardinality(DeliveriesOf(id)') = 1
      BY <3>1, <3>4, FS_EmptySet, FS_Singleton
    <3>7. Uses[id] = 0 /\ Uses' = [Uses EXCEPT ![id] = 1]
      BY <3>5, <3>6
    <3>. QED BY <3>7 DEF OneDelivery!Next, OneDelivery!Accept
  <2>2. deliveries' = deliveries => UNCHANGED Uses
    BY DEF DeliveriesOf
  <2>. QED BY <2>0, <2>1, <2>2, DeliverOrNot
<1>. QED BY <1>1, <1>2, InitIInv, InductiveStep, PTL DEF Spec, ImplementsOneTimeUse, OneDelivery!Spec
============================================================================
