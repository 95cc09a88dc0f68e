----------------------------- MODULE Kerberos -----------------------------
(***************************************************************************)
(* authlab/kerberos : the KDC (kdc.py), clients with their ticket caches   *)
(* (client.py) and services with their replay caches (service.py).         *)
(*                                                                         *)
(* An AP-REQ that has been built travels over a network that may deliver   *)
(* it at any later time, or more than once. KDC and services share one     *)
(* clock; the clock of client c runs ClientAhead[c] ahead of it (behind    *)
(* it, when negative). Encryption is represented by who can do what: only  *)
(* the KDC makes tickets, and an authenticator is tied to the ticket whose *)
(* session key encrypts it. The attack helpers of the drills (golden       *)
(* tickets, imported tickets, offline cracking) are left out.              *)
(***************************************************************************)
EXTENDS Integers

CONSTANTS
  Client, Service,
  Sequence,        \* Authenticator.sequence_number, random per authenticator;
                   \* the bound on the number of AP-REQs
  None,
  ClientAhead,
  RequirePreauth,  \* Principal.require_preauth
  TicketLifetime,  \* KDC.ticket_lifetime
  ClockSkew,       \* clock_skew of the KDC and of the services
  MaxTime

ASSUME KerberosAssumption ==
  /\ ClientAhead \in [Client -> Int]
  /\ RequirePreauth \in [Client -> BOOLEAN]
  /\ TicketLifetime \in Nat /\ ClockSkew \in Nat /\ MaxTime \in Nat

VARIABLES
  now,              \* the clock of the KDC and the services
  tgt,              \* KerberosClient.tgt
  service_tickets,  \* KerberosClient.service_tickets
  sent,             \* sequence number -> AP-REQ, everything ever put on the wire
  replay_cache,     \* KerberizedService.replay_cache : entry -> expiry
  uses              \* history: how often each authenticator was accepted

vars == <<now, tgt, service_tickets, sent, replay_cache, uses>>

Time == 0..MaxTime

\* EncTicketPart. The session key is identified with the ticket.
TicketRec == [client : Client, auth_time : Time, start_time : Time, end_time : Nat]

\* An AP-REQ: the ticket, and the authenticator made with its session key.
Request == [service : Service, ticket : TicketRec, client : Client, timestamp : Int, built_at : Time]

\* The key of a replay cache entry.
Entry == [client : Client, timestamp : Int, sequence_number : Sequence]

Dict(dict, Key, Rec) == DOMAIN dict \subseteq Key /\ \A k \in DOMAIN dict : dict[k] \in Rec

TypeOK ==
  /\ now \in Time
  /\ tgt \in [Client -> TicketRec \cup {None}]
  /\ service_tickets \in [Client -> [Service -> TicketRec \cup {None}]]
  /\ Dict(sent, Sequence, Request)
  /\ DOMAIN replay_cache = Service
  /\ \A s \in Service : Dict(replay_cache[s], Entry, Nat)
  /\ uses \in [Sequence -> Nat]

Empty == [k \in {} |-> None]

Init ==
  /\ now = 0
  /\ tgt = [c \in Client |-> None]
  /\ service_tickets = [c \in Client |-> [s \in Service |-> None]]
  /\ sent = Empty
  /\ replay_cache = [s \in Service |-> Empty]
  /\ uses = [q \in Sequence |-> 0]

Put(dict, key, val) == [k \in DOMAIN dict \cup {key} |-> IF k = key THEN val ELSE dict[k]]

Earlier(a, b) == IF a < b THEN a ELSE b

\* abs(now - timestamp) <= clock_skew
WithinSkew(timestamp) == timestamp - now <= ClockSkew /\ now - timestamp <= ClockSkew

ClientNow(c) == now + ClientAhead[c]

----------------------------------------------------------------------------
(* The AS exchange.                                                        *)

\* kinit() with the right password, and as_req()
Kinit(c) ==
  /\ RequirePreauth[c] => WithinSkew(ClientNow(c))
  /\ tgt' = [tgt EXCEPT ![c] = [client |-> c, auth_time |-> now, start_time |-> now,
                                end_time |-> now + TicketLifetime]]
  /\ UNCHANGED <<now, service_tickets, sent, replay_cache, uses>>

----------------------------------------------------------------------------
(* The TGS exchange and the AP-REQ.                                        *)

\* Mutant: the end time of a cached ticket is not looked at.
CachedForEver(c, s) == service_tickets[c][s] # None

\* get_service_ticket(): a cached ticket is used as long as the client's own
\* clock says so. kinit() does not clear the cache.
Cached(c, s) == service_tickets[c][s] # None /\ ClientNow(c) < service_tickets[c][s].end_time

\* get_service_ticket() up to tgs_req(), and the checks of tgs_req()
TGSGranted(c) ==
  /\ tgt[c] # None
  /\ ClientNow(c) <= tgt[c].end_time
  /\ now <= tgt[c].end_time
  /\ WithinSkew(ClientNow(c))

\* Mutant: every service ticket gets a full lifetime.
ServiceTicketOutlivesTGT(c) ==
  [client |-> tgt[c].client, auth_time |-> tgt[c].auth_time, start_time |-> now,
   end_time |-> now + TicketLifetime]

\* tgs_req(): the service ticket ends with the TGT at the latest.
ServiceTicket(c) ==
  [client |-> tgt[c].client, auth_time |-> tgt[c].auth_time, start_time |-> now,
   end_time |-> Earlier(now + TicketLifetime, tgt[c].end_time)]

\* KerberosClient.ap_req(): the ticket, from the cache or the KDC, and a new
\* authenticator. Any later delivery takes it from the wire.
SendApReq(c, s, q) ==
  /\ q \notin DOMAIN sent
  /\ Cached(c, s) \/ TGSGranted(c)
  /\ LET ticket == IF Cached(c, s) THEN service_tickets[c][s] ELSE ServiceTicket(c)
     IN  /\ service_tickets' = [service_tickets EXCEPT ![c][s] = ticket]
         /\ sent' = Put(sent, q, [service |-> s, ticket |-> ticket, client |-> c,
                                  timestamp |-> ClientNow(c), built_at |-> now])
  /\ UNCHANGED <<now, tgt, replay_cache, uses>>

----------------------------------------------------------------------------
(* The service.                                                            *)

EntryOf(q) == [client |-> sent[q].client, timestamp |-> sent[q].timestamp, sequence_number |-> q]

\* The checks of KerberizedService.ap_req() ahead of the replay cache.
TicketAndAuthenticatorValid(q) ==
  /\ now <= sent[q].ticket.end_time
  /\ sent[q].ticket.start_time <= now + ClockSkew
  /\ sent[q].client = sent[q].ticket.client
  /\ WithinSkew(sent[q].timestamp)

\* Mutant: an entry is dropped at its expiry instead of after it.
PurgedAtExpiry(s) == [e \in {x \in DOMAIN replay_cache[s] : ~(replay_cache[s][x] <= now)} |-> replay_cache[s][e]]

\* _purge_replay_cache()
Purged(s) == [e \in {x \in DOMAIN replay_cache[s] : ~(replay_cache[s][x] < now)} |-> replay_cache[s][e]]

\* replay_cache[key] = now + self.clock_skew
ReplayExpiry == now + ClockSkew

\* ap_req() returns the authenticated client.
ApReqAccepted(q) ==
  LET s == sent[q].service
  IN  /\ TicketAndAuthenticatorValid(q)
      /\ EntryOf(q) \notin DOMAIN Purged(s)
      /\ replay_cache' = [replay_cache EXCEPT ![s] = Put(Purged(s), EntryOf(q), ReplayExpiry)]
      /\ uses' = [uses EXCEPT ![q] = @ + 1]
      /\ UNCHANGED <<now, tgt, service_tickets, sent>>

\* ap_req() raises KRB_AP_ERR_REPEAT.
ApReqRepeated(q) ==
  LET s == sent[q].service
  IN  /\ TicketAndAuthenticatorValid(q)
      /\ EntryOf(q) \in DOMAIN Purged(s)
      /\ replay_cache' = [replay_cache EXCEPT ![s] = Purged(s)]
      /\ UNCHANGED <<now, tgt, service_tickets, sent, uses>>

Tick ==
  /\ now < MaxTime
  /\ now' = now + 1
  /\ UNCHANGED <<tgt, service_tickets, sent, replay_cache, uses>>

Deliver == \E q \in DOMAIN sent : ApReqAccepted(q) \/ ApReqRepeated(q)

Send == \E c \in Client, s \in Service, q \in Sequence : SendApReq(c, s, q)

Next == (\E c \in Client : Kinit(c)) \/ Send \/ Deliver \/ Tick

Spec == Init /\ [][Next]_vars

----------------------------------------------------------------------------
(* Properties.                                                             *)

\* The acceptances of authenticators whose client's clock is not ahead.
PunctualUses ==
  [q \in Sequence |-> IF q \in DOMAIN sent /\ ClientAhead[sent[q].client] <= 0 THEN uses[q] ELSE 0]

OneTime == INSTANCE OneTimeUse WITH Credential <- Sequence, uses <- PunctualUses

\* An authenticator "may be used once": for clients whose clock is not ahead, the
\* service implements one-time use, no matter how often and how late the network
\* delivers an AP-REQ, and which entries other requests have purged meanwhile.
AuthenticatorUsedOnce == OneTime!Spec

\* "Entries older than that can be dropped because the timestamp check would reject
\* them anyway": whatever the client's clock, no authenticator is accepted twice.
AcceptedAtMostOnce == \A q \in Sequence : uses[q] <= 1

\* One password login is good for one ticket lifetime: no chain of cached
\* tickets and TGS exchanges gets a client in later than that after its kinit().
SessionEndsWithLogin ==
  [][\A q \in Sequence : uses'[q] > uses[q] =>
       now <= sent[q].ticket.auth_time + TicketLifetime]_vars

\* A client whose clock is not slow never sends a request that is doomed: as
\* long as no time passes, the service accepts it.
PromptRequestAccepted ==
  \A q \in DOMAIN sent :
    /\ sent[q].built_at = now
    /\ ClientAhead[sent[q].client] \in 0..ClockSkew
    => TicketAndAuthenticatorValid(q)
============================================================================
