-------------------------- MODULE KerberosProofs --------------------------
(***************************************************************************)
(* For every set of clients with every set of clocks, every ticket         *)
(* lifetime and clock skew: a service accepts an authenticator of a client *)
(* whose clock is not ahead at most once, a session ends with the login it *)
(* began with, and a client whose clock is not slow is never refused.      *)
(***************************************************************************)
EXTENDS Kerberos, TLAPS

\* The KDC made the ticket in the past, and it ends one lifetime after the
\* login at the latest.
TicketSound(ticket) ==
  /\ ticket.start_time <= now
  /\ ticket.auth_time <= now
  /\ ticket.end_time <= ticket.auth_time + TicketLifetime

\* Tickets are held by the client they name, on the wire as well as in a cache,
\* and an authenticator bears the time of its client's clock.
TicketsSound ==
  /\ \A c \in Client : tgt[c] # None => TicketSound(tgt[c]) /\ tgt[c].client = c
  /\ \A c \in Client, s \in Service :
       service_tickets[c][s] # None =>
         TicketSound(service_tickets[c][s]) /\ service_tickets[c][s].client = c
  /\ \A q \in DOMAIN sent :
       /\ TicketSound(sent[q].ticket)
       /\ sent[q].ticket.client = sent[q].client
       /\ sent[q].timestamp = sent[q].built_at + ClientAhead[sent[q].client]
       /\ sent[q].built_at <= now

Punctual(q) == ClientAhead[sent[q].client] <= 0

\* What has been accepted from a punctual client was accepted once, and while
\* its timestamp would still pass, the service has it in the replay cache with
\* an expiry no earlier than the last moment at which it would pass.
RetentionCoversSkew ==
  \A q \in Sequence :
    uses[q] > 0 =>
      /\ q \in DOMAIN sent
      /\ Punctual(q) =>
           /\ uses[q] = 1
           /\ now <= sent[q].timestamp + ClockSkew =>
                LET cache == replay_cache[sent[q].service]
                IN  EntryOf(q) \in DOMAIN cache /\ cache[EntryOf(q)] >= sent[q].timestamp + ClockSkew

IInv == TypeOK /\ TicketsSound /\ RetentionCoversSkew /\ PromptRequestAccepted

\* The ticket that a client sends, from its cache or new from the KDC.
TicketSent(c, s) == IF Cached(c, s) THEN service_tickets[c][s] ELSE ServiceTicket(c)

\* A ticket of the KDC ends no later than the TGT it was obtained with, and no
\* earlier than now.
LEMMA TicketSentSound ==
  ASSUME TypeOK, TicketsSound, NEW c \in Client, NEW s \in Service, Cached(c, s) \/ TGSGranted(c)
  PROVE  /\ TicketSent(c, s) \in TicketRec
         /\ TicketSound(TicketSent(c, s))
         /\ TicketSent(c, s).client = c
         /\ ClientAhead[c] >= 0 => now <= TicketSent(c, s).end_time
<1>. USE KerberosAssumption
<1>0. now \in Time /\ now \in Nat /\ TicketLifetime \in Nat /\ ClientAhead[c] \in Int
  BY DEF TypeOK, Time
<1>1. CASE Cached(c, s)
  <2>1. TicketSent(c, s) = service_tickets[c][s] /\ service_tickets[c][s] # None
    BY <1>1 DEF TicketSent, Cached
  <2>2. service_tickets[c][s] \in TicketRec
    BY <2>1 DEF TypeOK
  <2>3. TicketSound(service_tickets[c][s]) /\ service_tickets[c][s].client = c
    BY <2>1 DEF TicketsSound
  <2>4. ClientAhead[c] >= 0 => now <= service_tickets[c][s].end_time
    BY <1>0, <1>1, <2>2 DEF Cached, ClientNow, TicketRec
  <2>. QED BY <2>1, <2>2, <2>3, <2>4
<1>2. CASE ~Cached(c, s)
  <2>1. TicketSent(c, s) = ServiceTicket(c) /\ TGSGranted(c)
    BY <1>2 DEF TicketSent
  <2>2. tgt[c] \in TicketRec /\ tgt[c] # None /\ now <= tgt[c].end_time
    BY <2>1 DEF TypeOK, TGSGranted
  <2>3. TicketSound(tgt[c]) /\ tgt[c].client = c
    BY <2>2 DEF TicketsSound
  <2>4. tgt[c].end_time \in Nat /\ tgt[c].auth_time \in Time /\ tgt[c].auth_time \in Nat
    BY <2>2 DEF TicketRec, Time
  <2>5. /\ Earlier(now + TicketLifetime, tgt[c].end_time) \in Nat
        /\ Earlier(now + TicketLifetime, tgt[c].end_time) <= tgt[c].end_time
        /\ now <= Earlier(now + TicketLifetime, tgt[c].end_time)
    BY <1>0, <2>2, <2>4 DEF Earlier
  <2>6. ServiceTicket(c) \in TicketRec
    BY <1>0, <2>3, <2>4, <2>5 DEF ServiceTicket, TicketRec
  <2>7. TicketSound(ServiceTicket(c))
    BY <1>0, <2>3, <2>4, <2>5 DEF ServiceTicket, TicketSound
  <2>. QED BY <2>1, <2>3, <2>5, <2>6, <2>7 DEF ServiceTicket
<1>. QED BY <1>1, <1>2

\* What SendApReq puts on the wire.
LEMMA SentRequest ==
  ASSUME TypeOK, TicketsSound, NEW c \in Client, NEW s \in Service, NEW q \in Sequence, SendApReq(c, s, q)
  PROVE  /\ q \notin DOMAIN sent
         /\ DOMAIN sent' = DOMAIN sent \cup {q}
         /\ \A p \in DOMAIN sent : sent'[p] = sent[p]
         /\ sent'[q] = [service |-> s, ticket |-> TicketSent(c, s), client |-> c,
                        timestamp |-> ClientNow(c), built_at |-> now]
         /\ service_tickets' = [service_tickets EXCEPT ![c][s] = TicketSent(c, s)]
BY DEF SendApReq, TicketSent, Put

LEMMA TypeStep == TypeOK /\ TicketsSound /\ [Next]_vars => TypeOK'
<1>. SUFFICES ASSUME TypeOK, TicketsSound, [Next]_vars PROVE TypeOK'
  OBVIOUS
<1>. USE KerberosAssumption
<1>0. now \in Time /\ now \in Nat
  BY DEF TypeOK, Time
<1>1. ASSUME NEW c \in Client, Kinit(c) PROVE TypeOK'
  <2>1. [client |-> c, auth_time |-> now, start_time |-> now, end_time |-> now + TicketLifetime] \in TicketRec
    BY <1>0 DEF TicketRec
  <2>. QED BY <1>1, <2>1 DEF Kinit, TypeOK
<1>2. ASSUME NEW c \in Client, NEW s \in Service, NEW q \in Sequence, SendApReq(c, s, q) PROVE TypeOK'
  <2>0. /\ q \notin DOMAIN sent
        /\ DOMAIN sent' = DOMAIN sent \cup {q}
        /\ \A p \in DOMAIN sent : sent'[p] = sent[p]
        /\ sent'[q] = [service |-> s, ticket |-> TicketSent(c, s), client |-> c,
                       timestamp |-> ClientNow(c), built_at |-> now]
        /\ service_tickets' = [service_tickets EXCEPT ![c][s] = TicketSent(c, s)]
    BY <1>2, SentRequest
  <2>1. TicketSent(c, s) \in TicketRec
    BY <1>2, TicketSentSound DEF SendApReq
  <2>2. service_tickets' \in [Client -> [Service -> TicketRec \cup {None}]]
    BY <2>0, <2>1 DEF TypeOK
  <2>3. sent'[q] \in Request
    BY <1>0, <2>0, <2>1 DEF Request, ClientNow
  <2>4. Dict(sent', Sequence, Request)
    BY <2>0, <2>3 DEF Dict, TypeOK
  <2>. QED BY <1>2, <2>2, <2>4 DEF SendApReq, TypeOK
<1>3. ASSUME NEW q \in DOMAIN sent, ApReqAccepted(q) PROVE TypeOK'
  <2>1. q \in Sequence /\ sent[q] \in Request
    BY DEF TypeOK, Dict
  <2>2. sent[q].service \in Service /\ sent[q].client \in Client
    BY <2>1 DEF Request
  <2>3. EntryOf(q) \in Entry \cup [client : Client, timestamp : Int, sequence_number : Sequence]
    BY <2>1 DEF EntryOf, Request
  <2>4. ReplayExpiry \in Nat
    BY <1>0 DEF ReplayExpiry
  <2>5. Dict(Purged(sent[q].service), Entry, Nat)
    BY <2>2 DEF Purged, Dict, TypeOK
  <2>6. Dict(Put(Purged(sent[q].service), EntryOf(q), ReplayExpiry), Entry, Nat)
    BY <2>3, <2>4, <2>5 DEF Dict, Put, Entry
  <2>7. /\ DOMAIN replay_cache' = Service
        /\ \A s \in Service : Dict(replay_cache'[s], Entry, Nat)
    BY <1>3, <2>2, <2>6 DEF ApReqAccepted, TypeOK
  <2>8. uses' \in [Sequence -> Nat]
    BY <1>3, <2>1 DEF ApReqAccepted, TypeOK
  <2>. QED BY <1>3, <2>7, <2>8 DEF ApReqAccepted, TypeOK
<1>4. ASSUME NEW q \in DOMAIN sent, ApReqRepeated(q) PROVE TypeOK'
  <2>1. sent[q].service \in Service
    BY DEF TypeOK, Dict, Request
  <2>2. Dict(Purged(sent[q].service), Entry, Nat)
    BY <2>1 DEF Purged, Dict, TypeOK
  <2>. QED BY <1>4, <2>1, <2>2 DEF ApReqRepeated, TypeOK
<1>5. CASE Tick
  BY <1>0, <1>5 DEF Tick, TypeOK, Time
<1>6. CASE UNCHANGED vars
  BY <1>6 DEF vars, TypeOK
<1>. QED BY <1>1, <1>2, <1>3, <1>4, <1>5, <1>6 DEF Next, Send, Deliver

\* A ticket stays sound while time passes.
LEMMA TicketStaysSound ==
  ASSUME TypeOK, NEW ticket \in TicketRec, TicketSound(ticket), now' \in Int, now' >= now
  PROVE  /\ ticket.start_time <= now'
         /\ ticket.auth_time <= now'
         /\ ticket.end_time <= ticket.auth_time + TicketLifetime
BY KerberosAssumption DEF TypeOK, Time, TicketRec, TicketSound

LEMMA TicketsSoundStep == TypeOK /\ TicketsSound /\ [Next]_vars => TicketsSound'
<1>. SUFFICES ASSUME TypeOK, TicketsSound, [Next]_vars PROVE TicketsSound'
  OBVIOUS
<1>. USE KerberosAssumption
<1>0. now \in Time /\ now \in Nat
  BY DEF TypeOK, Time
<1>1. ASSUME NEW c \in Client, Kinit(c) PROVE TicketsSound'
  <2>1. UNCHANGED <<now, service_tickets, sent>>
    BY <1>1 DEF Kinit
  <2>2. ASSUME NEW d \in Client, tgt'[d] # None PROVE TicketSound(tgt[d])' /\ tgt'[d].client = d
    <3>1. CASE d = c
      <4>1. tgt'[d] = [client |-> c, auth_time |-> now, start_time |-> now, end_time |-> now + TicketLifetime]
        BY <1>1, <3>1 DEF Kinit, TypeOK
      <4>. QED BY <1>0, <2>1, <3>1, <4>1 DEF TicketSound
    <3>2. CASE d # c
      BY <1>1, <2>1, <2>2, <3>2 DEF Kinit, TypeOK, TicketsSound, TicketSound
    <3>. QED BY <3>1, <3>2
  <2>. QED BY <2>1, <2>2 DEF TicketsSound, TicketSound
<1>2. ASSUME NEW c \in Client, NEW s \in Service, NEW q \in Sequence, SendApReq(c, s, q) PROVE TicketsSound'
  <2>0. /\ q \notin DOMAIN sent
        /\ DOMAIN sent' = DOMAIN sent \cup {q}
        /\ \A p \in DOMAIN sent : sent'[p] = sent[p]
        /\ sent'[q] = [service |-> s, ticket |-> TicketSent(c, s), client |-> c,
                       timestamp |-> ClientNow(c), built_at |-> now]
        /\ service_tickets' = [service_tickets EXCEPT ![c][s] = TicketSent(c, s)]
    BY <1>2, SentRequest
  <2>1. UNCHANGED <<now, tgt>>
    BY <1>2 DEF SendApReq
  <2>2. TicketSound(TicketSent(c, s)) /\ TicketSent(c, s).client = c
    BY <1>2, TicketSentSound DEF SendApReq
  <2>3. ASSUME NEW d \in Client, NEW t \in Service, service_tickets'[d][t] # None
        PROVE  TicketSound(service_tickets[d][t])' /\ service_tickets'[d][t].client = d
    <3>1. CASE d = c /\ t = s
      <4>1. service_tickets'[d][t] = TicketSent(c, s)
        BY <2>0, <3>1 DEF TypeOK
      <4>. QED BY <2>1, <2>2, <3>1, <4>1 DEF TicketSound
    <3>2. CASE ~(d = c /\ t = s)
      <4>1. service_tickets'[d][t] = service_tickets[d][t]
        BY <2>0, <3>2 DEF TypeOK
      <4>. QED BY <2>1, <2>3, <4>1 DEF TicketsSound, TicketSound
    <3>. QED BY <3>1, <3>2
  <2>4. ASSUME NEW p \in DOMAIN sent'
        PROVE  /\ TicketSound(sent[p].ticket)'
               /\ sent'[p].ticket.client = sent'[p].client
               /\ sent'[p].timestamp = sent'[p].built_at + ClientAhead[sent'[p].client]
               /\ sent'[p].built_at <= now'
    <3>1. CASE p = q
      <4>1. sent'[p] = [service |-> s, ticket |-> TicketSent(c, s), client |-> c,
                        timestamp |-> ClientNow(c), built_at |-> now]
        BY <2>0, <3>1
      <4>. QED BY <1>0, <2>1, <2>2, <4>1 DEF TicketSound, ClientNow
    <3>2. CASE p # q
      <4>1. p \in DOMAIN sent /\ sent'[p] = sent[p]
        BY <2>0, <2>4, <3>2
      <4>. QED BY <2>1, <4>1 DEF TicketsSound, TicketSound
    <3>. QED BY <3>1, <3>2
  <2>. QED BY <2>1, <2>3, <2>4 DEF TicketsSound, TicketSound
<1>3. CASE Deliver \/ UNCHANGED vars
  <2>1. UNCHANGED <<now, tgt, service_tickets, sent>>
    BY <1>3 DEF Deliver, ApReqAccepted, ApReqRepeated, vars
  <2>. QED BY <2>1 DEF TicketsSound, TicketSound
<1>4. CASE Tick
  <2>1. now' = now + 1 /\ UNCHANGED <<tgt, service_tickets, sent>>
    BY <1>4 DEF Tick
  <2>2. now' \in Int /\ now' >= now
    BY <1>0, <2>1
  <2>3. ASSUME NEW c \in Client, tgt[c] # None PROVE TicketSound(tgt[c])' /\ tgt'[c].client = c
    <3>1. tgt[c] \in TicketRec /\ TicketSound(tgt[c]) /\ tgt[c].client = c
      BY <2>3 DEF TypeOK, TicketsSound
    <3>. QED BY <2>1, <2>2, <3>1, TicketStaysSound DEF TicketSound
  <2>4. ASSUME NEW c \in Client, NEW s \in Service, service_tickets[c][s] # None
        PROVE  TicketSound(service_tickets[c][s])' /\ service_tickets'[c][s].client = c
    <3>1. service_tickets[c][s] \in TicketRec
      BY <2>4 DEF TypeOK
    <3>2. TicketSound(service_tickets[c][s]) /\ service_tickets[c][s].client = c
      BY <2>4 DEF TicketsSound
    <3>. QED BY <2>1, <2>2, <3>1, <3>2, TicketStaysSound DEF TicketSound
  <2>5. ASSUME NEW q \in DOMAIN sent PROVE TicketSound(sent[q].ticket)' /\ sent'[q].built_at <= now'
    <3>1. sent[q] \in Request
      BY DEF TypeOK, Dict
    <3>2. sent[q].ticket \in TicketRec /\ sent[q].built_at \in Nat
      BY <3>1 DEF Request, Time
    <3>3. TicketSound(sent[q].ticket) /\ sent[q].built_at <= now
      BY DEF TicketsSound
    <3>. QED BY <1>0, <2>1, <2>2, <3>2, <3>3, TicketStaysSound DEF TicketSound
  <2>. QED BY <2>1, <2>3, <2>4, <2>5 DEF TicketsSound
<1>. QED BY <1>1, <1>2, <1>3, <1>4 DEF Next, Send

\* A service that accepts an authenticator of a punctual client has not accepted
\* it before: the replay cache would still have it.
LEMMA FirstAcceptance ==
  ASSUME TypeOK, TicketsSound, RetentionCoversSkew, NEW q \in DOMAIN sent, Punctual(q), ApReqAccepted(q)
  PROVE  uses[q] = 0 /\ sent[q].timestamp <= now /\ now <= sent[q].timestamp + ClockSkew
<1>. USE KerberosAssumption
<1>1. q \in Sequence /\ sent[q] \in Request
  BY DEF TypeOK, Dict
<1>2. /\ sent[q].service \in Service /\ sent[q].client \in Client
      /\ sent[q].timestamp \in Int /\ sent[q].built_at \in Nat /\ now \in Nat /\ uses[q] \in Nat
  BY <1>1 DEF Request, Time, TypeOK
<1>3. sent[q].timestamp <= now
  <2>1. sent[q].timestamp = sent[q].built_at + ClientAhead[sent[q].client] /\ sent[q].built_at <= now
    BY DEF TicketsSound
  <2>. QED BY <1>2, <2>1 DEF Punctual
<1>4. now <= sent[q].timestamp + ClockSkew
  BY <1>2 DEF ApReqAccepted, TicketAndAuthenticatorValid, WithinSkew
<1>5. ASSUME uses[q] > 0 PROVE FALSE
  <2>1. /\ EntryOf(q) \in DOMAIN replay_cache[sent[q].service]
        /\ replay_cache[sent[q].service][EntryOf(q)] >= sent[q].timestamp + ClockSkew
    BY <1>1, <1>4, <1>5 DEF RetentionCoversSkew
  <2>2. replay_cache[sent[q].service][EntryOf(q)] \in Nat
    BY <1>2, <2>1 DEF TypeOK, Dict
  <2>3. EntryOf(q) \in DOMAIN Purged(sent[q].service)
    BY <1>2, <1>4, <2>1, <2>2 DEF Purged
  <2>. QED BY <2>3 DEF ApReqAccepted
<1>. QED BY <1>2, <1>3, <1>4, <1>5

\* Purging a cache drops no entry whose expiry lies ahead.
LEMMA PurgeKeepsRetention ==
  ASSUME TypeOK, RetentionCoversSkew, NEW p \in Sequence, uses[p] > 0, Punctual(p),
         now <= sent[p].timestamp + ClockSkew
  PROVE  /\ p \in DOMAIN sent
         /\ EntryOf(p) \in DOMAIN Purged(sent[p].service)
         /\ Purged(sent[p].service)[EntryOf(p)] >= sent[p].timestamp + ClockSkew
<1>. USE KerberosAssumption
<1>1. /\ p \in DOMAIN sent
      /\ EntryOf(p) \in DOMAIN replay_cache[sent[p].service]
      /\ replay_cache[sent[p].service][EntryOf(p)] >= sent[p].timestamp + ClockSkew
  BY DEF RetentionCoversSkew
<1>2. sent[p] \in Request
  BY <1>1 DEF TypeOK, Dict
<1>3. sent[p].service \in Service /\ sent[p].timestamp \in Int /\ now \in Nat
  BY <1>2 DEF Request, TypeOK, Time
<1>4. replay_cache[sent[p].service][EntryOf(p)] \in Nat
  BY <1>1, <1>3 DEF TypeOK, Dict
<1>. QED BY <1>1, <1>3, <1>4 DEF Purged

\* What a service does that has purged its cache: every entry that still counts
\* is kept by every service.
LEMMA RetentionStep ==
  TypeOK /\ TicketsSound /\ RetentionCoversSkew /\ [Next]_vars => RetentionCoversSkew'
<1>. SUFFICES ASSUME TypeOK, TicketsSound, RetentionCoversSkew, [Next]_vars,
                     NEW p \in Sequence, uses'[p] > 0
              PROVE  /\ p \in DOMAIN sent'
                     /\ Punctual(p)' =>
                          /\ uses'[p] = 1
                          /\ now' <= sent'[p].timestamp + ClockSkew =>
                               /\ EntryOf(p)' \in DOMAIN replay_cache'[sent'[p].service]
                               /\ replay_cache'[sent'[p].service][EntryOf(p)'] >= sent'[p].timestamp + ClockSkew
  BY DEF RetentionCoversSkew
<1>. USE KerberosAssumption
<1>0. now \in Nat /\ uses[p] \in Nat
  BY DEF TypeOK, Time
<1>1. CASE (\E c \in Client : Kinit(c)) \/ UNCHANGED vars
  <2>1. UNCHANGED <<now, sent, replay_cache, uses>>
    BY <1>1 DEF Kinit, vars
  <2>. QED BY <2>1 DEF RetentionCoversSkew, Punctual, EntryOf
<1>2. ASSUME NEW c \in Client, NEW s \in Service, NEW q \in Sequence, SendApReq(c, s, q)
      PROVE  /\ p \in DOMAIN sent' /\ p \in DOMAIN sent /\ sent'[p] = sent[p]
             /\ UNCHANGED <<now, replay_cache, uses>>
  <2>1. UNCHANGED <<now, replay_cache, uses>>
    BY <1>2 DEF SendApReq
  <2>2. p \in DOMAIN sent
    BY <2>1 DEF RetentionCoversSkew
  <2>. QED BY <1>2, <2>1, <2>2, SentRequest
<1>3. CASE Send
  <2>1. /\ p \in DOMAIN sent' /\ p \in DOMAIN sent /\ sent'[p] = sent[p]
        /\ UNCHANGED <<now, replay_cache, uses>>
    BY <1>2, <1>3 DEF Send
  <2>. QED BY <2>1 DEF RetentionCoversSkew, Punctual, EntryOf
<1>4. ASSUME NEW q \in DOMAIN sent, ApReqAccepted(q)
      PROVE  /\ p \in DOMAIN sent'
             /\ Punctual(p)' =>
                  /\ uses'[p] = 1
                  /\ now' <= sent'[p].timestamp + ClockSkew =>
                       /\ EntryOf(p)' \in DOMAIN replay_cache'[sent'[p].service]
                       /\ replay_cache'[sent'[p].service][EntryOf(p)'] >= sent'[p].timestamp + ClockSkew
  <2>1. UNCHANGED <<now, sent>>
    BY <1>4 DEF ApReqAccepted
  <2>2. q \in Sequence /\ sent[q] \in Request
    BY DEF TypeOK, Dict
  <2>3. sent[q].service \in Service /\ sent[q].timestamp \in Int /\ sent[q].client \in Client
    BY <2>2 DEF Request
  <2>4. uses' = [uses EXCEPT ![q] = @ + 1]
    BY <1>4 DEF ApReqAccepted
  <2>5. /\ replay_cache'[sent[q].service] = Put(Purged(sent[q].service), EntryOf(q), ReplayExpiry)
        /\ \A s \in Service : s # sent[q].service => replay_cache'[s] = replay_cache[s]
    BY <1>4, <2>3 DEF ApReqAccepted, TypeOK
  <2>6. CASE p = q
    <3>1. Punctual(q) => uses[q] = 0 /\ sent[q].timestamp <= now
      BY <1>4, FirstAcceptance
    <3>2. Punctual(q) => uses'[q] = 1
      BY <2>2, <2>4, <3>1 DEF TypeOK
    <3>3. /\ EntryOf(q) \in DOMAIN replay_cache'[sent[q].service]
          /\ replay_cache'[sent[q].service][EntryOf(q)] = now + ClockSkew
      BY <2>5 DEF Put, ReplayExpiry
    <3>4. EntryOf(q)' = EntryOf(q) /\ Punctual(q)' = Punctual(q)
      BY <2>1 DEF EntryOf, Punctual
    <3>. QED BY <1>0, <2>1, <2>3, <2>6, <3>1, <3>2, <3>3, <3>4
  <2>7. CASE p # q
    <3>1. uses[p] > 0 /\ uses'[p] = uses[p]
      BY <2>4, <2>7 DEF TypeOK
    <3>2. p \in DOMAIN sent /\ (Punctual(p) => uses[p] = 1)
      BY <3>1 DEF RetentionCoversSkew
    <3>3. sent[p] \in Request
      BY <3>2 DEF TypeOK, Dict
    <3>4. sent[p].service \in Service
      BY <3>3 DEF Request
    <3>5. EntryOf(p) # EntryOf(q)
      BY <2>7 DEF EntryOf
    <3>6. EntryOf(p)' = EntryOf(p) /\ Punctual(p)' = Punctual(p)
      BY <2>1 DEF EntryOf, Punctual
    <3>7. ASSUME Punctual(p), now <= sent[p].timestamp + ClockSkew
          PROVE  /\ EntryOf(p) \in DOMAIN replay_cache'[sent[p].service]
                 /\ replay_cache'[sent[p].service][EntryOf(p)] >= sent[p].timestamp + ClockSkew
      <4>1. /\ EntryOf(p) \in DOMAIN Purged(sent[p].service)
            /\ Purged(sent[p].service)[EntryOf(p)] >= sent[p].timestamp + ClockSkew
        BY <3>1, <3>7, PurgeKeepsRetention
      <4>2. CASE sent[p].service = sent[q].service
        BY <2>5, <3>5, <4>1, <4>2 DEF Put
      <4>3. CASE sent[p].service # sent[q].service
        BY <2>5, <3>1, <3>4, <3>7, <4>3 DEF RetentionCoversSkew
      <4>. QED BY <4>2, <4>3
    <3>. QED BY <2>1, <3>1, <3>2, <3>6, <3>7
  <2>. QED BY <2>6, <2>7
<1>5. ASSUME NEW q \in DOMAIN sent, ApReqRepeated(q)
      PROVE  /\ p \in DOMAIN sent'
             /\ Punctual(p)' =>
                  /\ uses'[p] = 1
                  /\ now' <= sent'[p].timestamp + ClockSkew =>
                       /\ EntryOf(p)' \in DOMAIN replay_cache'[sent'[p].service]
                       /\ replay_cache'[sent'[p].service][EntryOf(p)'] >= sent'[p].timestamp + ClockSkew
  <2>1. UNCHANGED <<now, sent, uses>>
    BY <1>5 DEF ApReqRepeated
  <2>2. p \in DOMAIN sent /\ (Punctual(p) => uses[p] = 1)
    BY <2>1 DEF RetentionCoversSkew
  <2>3. sent[p] \in Request /\ sent[q] \in Request
    BY <2>2 DEF TypeOK, Dict
  <2>4. sent[p].service \in Service /\ sent[q].service \in Service
    BY <2>3 DEF Request
  <2>5. EntryOf(p)' = EntryOf(p) /\ Punctual(p)' = Punctual(p)
    BY <2>1 DEF EntryOf, Punctual
  <2>6. /\ replay_cache'[sent[q].service] = Purged(sent[q].service)
        /\ \A s \in Service : s # sent[q].service => replay_cache'[s] = replay_cache[s]
    BY <1>5, <2>4 DEF ApReqRepeated, TypeOK
  <2>7. ASSUME Punctual(p), now <= sent[p].timestamp + ClockSkew
        PROVE  /\ EntryOf(p) \in DOMAIN replay_cache'[sent[p].service]
               /\ replay_cache'[sent[p].service][EntryOf(p)] >= sent[p].timestamp + ClockSkew
    <3>1. /\ EntryOf(p) \in DOMAIN Purged(sent[p].service)
          /\ Purged(sent[p].service)[EntryOf(p)] >= sent[p].timestamp + ClockSkew
      BY <2>1, <2>7, PurgeKeepsRetention
    <3>2. CASE sent[p].service = sent[q].service
      BY <2>6, <3>1, <3>2
    <3>3. CASE sent[p].service # sent[q].service
      BY <2>1, <2>4, <2>6, <2>7, <3>3 DEF RetentionCoversSkew
    <3>. QED BY <3>2, <3>3
  <2>. QED BY <2>1, <2>2, <2>5, <2>7
<1>6. CASE Tick
  <2>1. now' = now + 1 /\ UNCHANGED <<sent, replay_cache, uses>>
    BY <1>6 DEF Tick
  <2>2. p \in DOMAIN sent
    BY <2>1 DEF RetentionCoversSkew
  <2>3. sent[p].timestamp \in Int
    BY <2>2 DEF TypeOK, Dict, Request
  <2>4. now' <= sent[p].timestamp + ClockSkew => now <= sent[p].timestamp + ClockSkew
    BY <1>0, <2>1, <2>3
  <2>. QED BY <2>1, <2>2, <2>4 DEF RetentionCoversSkew, Punctual, EntryOf
<1>. QED BY <1>1, <1>3, <1>4, <1>5, <1>6 DEF Next, Deliver

\* A request that has just been built is in order: the client took a ticket that
\* its own clock, which is not slow, found to be valid.
LEMMA PromptStep ==
  TypeOK /\ TicketsSound /\ PromptRequestAccepted /\ [Next]_vars => PromptRequestAccepted'
<1>. SUFFICES ASSUME TypeOK, TicketsSound, PromptRequestAccepted, [Next]_vars,
                     NEW p \in DOMAIN sent', sent'[p].built_at = now',
                     ClientAhead[sent'[p].client] \in 0..ClockSkew
              PROVE  TicketAndAuthenticatorValid(p)'
  BY DEF PromptRequestAccepted
<1>. USE KerberosAssumption
<1>0. now \in Nat
  BY DEF TypeOK, Time
<1>1. CASE (\E c \in Client : Kinit(c)) \/ Deliver \/ UNCHANGED vars
  <2>1. UNCHANGED <<now, sent>>
    BY <1>1 DEF Kinit, Deliver, ApReqAccepted, ApReqRepeated, vars
  <2>. QED BY <2>1 DEF PromptRequestAccepted, TicketAndAuthenticatorValid, WithinSkew
<1>2. ASSUME NEW c \in Client, NEW s \in Service, NEW q \in Sequence, SendApReq(c, s, q)
      PROVE  TicketAndAuthenticatorValid(p)'
  <2>1. now' = now
    BY <1>2 DEF SendApReq
  <2>2. /\ DOMAIN sent' = DOMAIN sent \cup {q}
        /\ \A r \in DOMAIN sent : sent'[r] = sent[r]
        /\ sent'[q] = [service |-> s, ticket |-> TicketSent(c, s), client |-> c,
                       timestamp |-> ClientNow(c), built_at |-> now]
    BY <1>2, SentRequest
  <2>3. CASE p \in DOMAIN sent
    BY <2>1, <2>2, <2>3 DEF PromptRequestAccepted, TicketAndAuthenticatorValid, WithinSkew
  <2>4. CASE p \notin DOMAIN sent
    <3>1. p = q /\ ClientAhead[c] \in 0..ClockSkew
      BY <2>2, <2>4
    <3>2. /\ TicketSent(c, s) \in TicketRec
          /\ TicketSound(TicketSent(c, s))
          /\ TicketSent(c, s).client = c
          /\ now <= TicketSent(c, s).end_time
      BY <1>2, <3>1, TicketSentSound DEF SendApReq
    <3>3. TicketSent(c, s).start_time <= now + ClockSkew
      BY <1>0, <3>2 DEF TicketSound, TicketRec, Time
    <3>4. ClientNow(c) - now <= ClockSkew /\ now - ClientNow(c) <= ClockSkew
      BY <1>0, <3>1 DEF ClientNow
    <3>. QED BY <2>1, <2>2, <3>1, <3>2, <3>3, <3>4 DEF TicketAndAuthenticatorValid, WithinSkew
  <2>. QED BY <2>3, <2>4
<1>3. CASE Tick
  <2>1. now' = now + 1 /\ sent' = sent
    BY <1>3 DEF Tick
  <2>2. sent[p].built_at \in Nat /\ sent[p].built_at <= now
    BY <2>1 DEF TypeOK, Dict, Request, Time, TicketsSound
  <2>. QED BY <1>0, <2>1, <2>2
<1>. QED BY <1>1, <1>2, <1>3 DEF Next, Send

LEMMA InitIInv == Init => IInv
<1>. SUFFICES ASSUME Init PROVE IInv
  OBVIOUS
<1>1. DOMAIN Empty = {}
  BY DEF Empty
<1>2. TypeOK
  BY <1>1, KerberosAssumption DEF Init, TypeOK, Time, Dict
<1>3. TicketsSound /\ RetentionCoversSkew /\ PromptRequestAccepted
  BY <1>1 DEF Init, TicketsSound, RetentionCoversSkew, PromptRequestAccepted
<1>. QED BY <1>2, <1>3 DEF IInv

LEMMA InductiveStep == IInv /\ [Next]_vars => IInv'
  BY TypeStep, TicketsSoundStep, RetentionStep, PromptStep DEF IInv

\* The state of the realm stays well-formed.
THEOREM TypeCorrect == Spec => []TypeOK
<1>1. IInv => TypeOK
  BY DEF IInv
<1>. QED BY <1>1, InitIInv, InductiveStep, PTL DEF Spec

\* A client whose clock is not slow never sends a request that the service
\* refuses on the spot.
THEOREM PromptRequests == Spec => []PromptRequestAccepted
<1>1. IInv => PromptRequestAccepted
  BY DEF IInv
<1>. QED BY <1>1, InitIInv, InductiveStep, PTL DEF Spec

\* No acceptance comes later than one ticket lifetime after the kinit() it goes
\* back to, through however many tickets and caches.
THEOREM SessionsEnd == Spec => SessionEndsWithLogin
<1>1. IInv /\ [Next]_vars =>
        [\A q \in Sequence : uses'[q] > uses[q] => now <= sent[q].ticket.auth_time + TicketLifetime]_vars
  <2>. SUFFICES ASSUME IInv, Next, NEW q \in Sequence, uses'[q] > uses[q]
                PROVE  now <= sent[q].ticket.auth_time + TicketLifetime
    OBVIOUS
  <2>0. TypeOK /\ TicketsSound /\ now \in Nat /\ uses[q] \in Nat
    BY DEF IInv, TypeOK, Time
  <2>a. uses' # uses
    BY <2>0
  <2>1. PICK r \in DOMAIN sent : ApReqAccepted(r)
    BY <2>a DEF Next, Kinit, Send, SendApReq, Deliver, ApReqRepeated, Tick
  <2>2. q = r
    BY <2>0, <2>1 DEF ApReqAccepted, TypeOK
  <2>3. now <= sent[q].ticket.end_time /\ TicketSound(sent[q].ticket)
    BY <2>0, <2>1, <2>2 DEF ApReqAccepted, TicketAndAuthenticatorValid, TicketsSound
  <2>4. sent[q].ticket \in TicketRec
    BY <2>0, <2>1, <2>2 DEF TypeOK, Dict, Request
  <2>. QED BY <2>0, <2>3, <2>4, KerberosAssumption DEF TicketSound, TicketRec, Time
<1>. QED BY <1>1, InitIInv, InductiveStep, PTL DEF Spec, SessionEndsWithLogin

\* For clients whose clock is not ahead the service implements one-time use: each
\* step is one abstract acceptance of an unused authenticator, or none.
THEOREM Refinement == Spec => AuthenticatorUsedOnce
<1>1. Init => OneTime!Init
  <2>1. DOMAIN Empty = {}
    BY DEF Empty
  <2>. QED BY <2>1 DEF Init, OneTime!Init, PunctualUses
<1>2. IInv /\ [Next]_vars => [OneTime!Next]_PunctualUses
  <2>. SUFFICES ASSUME IInv, [Next]_vars PROVE [OneTime!Next]_PunctualUses
    OBVIOUS
  <2>0. TypeOK /\ TicketsSound /\ RetentionCoversSkew
    BY DEF IInv
  <2>1. ASSUME NEW c \in Client, NEW s \in Service, NEW q \in Sequence, SendApReq(c, s, q)
        PROVE  UNCHANGED PunctualUses
    <3>1. /\ q \notin DOMAIN sent
          /\ DOMAIN sent' = DOMAIN sent \cup {q}
          /\ \A p \in DOMAIN sent : sent'[p] = sent[p]
      BY <2>0, <2>1, SentRequest
    <3>2. uses' = uses /\ uses[q] = 0
      BY <2>0, <2>1, <3>1 DEF SendApReq, RetentionCoversSkew, TypeOK
    <3>. QED BY <3>1, <3>2 DEF PunctualUses
  <2>2. ASSUME NEW q \in DOMAIN sent, ApReqAccepted(q)
        PROVE  OneTime!Next \/ UNCHANGED PunctualUses
    <3>1. q \in Sequence /\ sent' = sent /\ uses' = [uses EXCEPT ![q] = @ + 1]
      BY <2>0, <2>2 DEF ApReqAccepted, TypeOK, Dict
    <3>2. CASE Punctual(q)
      <4>1. uses[q] = 0
        BY <2>0, <2>2, <3>2, FirstAcceptance
      <4>2. PunctualUses[q] = 0
        BY <3>1, <4>1 DEF PunctualUses
      <4>3. PunctualUses' = [PunctualUses EXCEPT ![q] = 1]
        <5>1. uses'[q] = 1 /\ \A p \in Sequence : p # q => uses'[p] = uses[p]
          BY <2>0, <3>1, <4>1 DEF TypeOK
        <5>. QED BY <3>1, <3>2, <5>1 DEF PunctualUses, Punctual
      <4>. QED BY <3>1, <4>2, <4>3 DEF OneTime!Next, OneTime!Accept
    <3>3. CASE ~Punctual(q)
      BY <2>0, <3>1, <3>3 DEF PunctualUses, Punctual, TypeOK
    <3>. QED BY <3>2, <3>3
  <2>3. (\E c \in Client : Kinit(c)) \/ (\E q \in DOMAIN sent : ApReqRepeated(q)) \/ Tick \/ UNCHANGED vars
        => UNCHANGED PunctualUses
    BY DEF Kinit, ApReqRepeated, Tick, vars, PunctualUses
  <2>. QED BY <2>1, <2>2, <2>3 DEF Next, Send, Deliver
<1>. QED BY <1>1, <1>2, InitIInv, InductiveStep, PTL DEF Spec, AuthenticatorUsedOnce, OneTime!Spec
============================================================================
