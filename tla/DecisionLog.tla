----------------------------- MODULE DecisionLog -----------------------------
(***************************************************************************)
(* authlab/authz/policy_comparison.py : PrivacyPreservingDecisionLog, the  *)
(* pseudonymised log of decisions with bounded retention.                  *)
(*                                                                         *)
(* The list of entries is a function from the numbers of the records: the  *)
(* code appends and filters only, so the list has them in that order.      *)
(* Every time is the caller's, who may pass them in any order.             *)
(***************************************************************************)
EXTENDS Integers, Sequences

CONSTANTS
  LogDecisions,   \* ComparisonDecision: model, allowed, reason_code, determining_policies
  LogRequests,    \* AccessRequest: subject_id, action, resource_id
  LogContexts,    \* the optional context: a function from some keys to Python values
  Retention,      \* retention_seconds
  MaxOccurred,    \* bound on occurred_at
  MaxRecords      \* bound on the calls of record()

ASSUME DecisionLogAssumption ==
  Retention \in Nat \ {0} /\ MaxOccurred \in Nat /\ MaxRecords \in Nat

VARIABLES
  entries,        \* PrivacyPreservingDecisionLog.entries
  trail           \* history: every recorded call, and the latest time a later
                  \* purge was given (-1 when there was none)

logVars == <<entries, trail>>

LogInit == entries = <<>> /\ trail = <<>>

\* Mutant: one namespace for everything.
ReferenceUndivided(namespace, value) == <<"hmac-sha256", value>>

\* _reference: a keyed digest of namespace:value, taken to be injective; no
\* namespace has a colon.
Reference(namespace, value) == <<"hmac-sha256", namespace, value>>

NoReference == <<>>

RiskBuckets == {"low", "medium", "high"}

\* context.get("request_id") is not None
HasRequest(context) == "request_id" \in DOMAIN context

\* str(): the number 1 and the text "1" are printed alike.
Printed(value) == value.text

\* The dict lookup in a set of texts: only an equal text is found.
RiskBucket(context) ==
  IF /\ "risk_bucket" \in DOMAIN context
     /\ context.risk_bucket.type = "str"
     /\ context.risk_bucket.text \in RiskBuckets
  THEN context.risk_bucket.text
  ELSE ""

\* A list or a dict cannot be looked up in a set: record() raises, before it appends.
Unhashable(context) ==
  "risk_bucket" \in DOMAIN context /\ context.risk_bucket.type = "list"

\* DecisionLogEntry, as record() derives it; the order of the policies is left out.
EntryFor(c) ==
  [occurred_at |-> c.occurred_at,
   expires_at |-> c.occurred_at + Retention,
   model |-> c.decision.model,
   effect |-> IF c.decision.allowed THEN "allow" ELSE "deny",
   subject_ref |-> Reference("subject", c.request.subject_id),
   resource_ref |-> Reference("resource", c.request.resource_id),
   action |-> c.request.action,
   reason_code |-> c.decision.reason_code,
   policy_ids |-> {Reference("policy", p) : p \in c.decision.determining_policies},
   request_ref |-> IF HasRequest(c.context)
                   THEN Reference("request", Printed(c.context.request_id))
                   ELSE NoReference,
   risk_bucket |-> RiskBucket(c.context)]

LogCall ==
  [decision : LogDecisions, request : LogRequests, context : LogContexts, occurred_at : 0..MaxOccurred]

Record(c) ==
  /\ Len(trail) < MaxRecords
  /\ ~Unhashable(c.context)
  /\ LET k == Len(trail) + 1 IN
       entries' = [i \in DOMAIN entries \cup {k} |-> IF i = k THEN EntryFor(c) ELSE entries[i]]
  /\ trail' = Append(trail, [call |-> c, purged |-> -1])

\* Mutant: an entry survives the second at which it expires.
KeptAtExpiry(entry, now) == entry.expires_at >= now

\* The filter of purge().
Kept(entry, now) == entry.expires_at > now

Purge(now) ==
  /\ entries' = [k \in {i \in DOMAIN entries : Kept(entries[i], now)} |-> entries[k]]
  /\ trail' = [k \in DOMAIN trail |->
                 [trail[k] EXCEPT !.purged = IF now > @ THEN now ELSE @]]

LogNext ==
  \/ \E c \in LogCall : Record(c)
  \/ \E now \in 0..(MaxOccurred + Retention) : Purge(now)

LogSpec == LogInit /\ [][LogNext]_logVars

----------------------------------------------------------------------------
(* Properties                                                              *)

\* What somebody who searches the log for a reference finds.
EntriesAbout(ref) ==
  {k \in DOMAIN entries :
     ref \in {entries[k].subject_ref, entries[k].resource_ref, entries[k].request_ref}
               \cup entries[k].policy_ids}

\* The calls of record() that the log must still answer for: no purge since then was
\* given a time at which their retention had ended.
Retained == {k \in DOMAIN trail : trail[k].purged < trail[k].call.occurred_at + Retention}

\* The log serves incident response, and no longer than it may. Whatever was recorded
\* and purged, with times in any order: the entries are those of the calls retained, each
\* with that call's verdict, and a search for a subject, a resource, a policy or a
\* printed request id finds exactly the retained decisions about it. A subject, a
\* resource, a policy and a request of the same name are never confounded.
LogTraceable ==
  /\ DOMAIN entries = Retained
  /\ \A k \in Retained :
       LET c == trail[k].call
       IN  /\ entries[k].model = c.decision.model
           /\ entries[k].effect = "allow" <=> c.decision.allowed
           /\ entries[k].action = c.request.action
           /\ entries[k].reason_code = c.decision.reason_code
  /\ \A k \in Retained :
       LET c == trail[k].call
       IN  /\ EntriesAbout(Reference("subject", c.request.subject_id)) =
                {i \in Retained : trail[i].call.request.subject_id = c.request.subject_id}
           /\ EntriesAbout(Reference("resource", c.request.resource_id)) =
                {i \in Retained : trail[i].call.request.resource_id = c.request.resource_id}
           /\ \A p \in c.decision.determining_policies :
                EntriesAbout(Reference("policy", p)) =
                  {i \in Retained : p \in trail[i].call.decision.determining_policies}
           /\ HasRequest(c.context) =>
                EntriesAbout(Reference("request", Printed(c.context.request_id))) =
                  {i \in Retained :
                     /\ HasRequest(trail[i].call.context)
                     /\ Printed(trail[i].call.context.request_id) = Printed(c.context.request_id)}
=============================================================================
