-------------------------------- MODULE ABAC --------------------------------
(***************************************************************************)
(* authlab/authz/abac.py : policies with an effect, a target and a         *)
(* condition, combined by deny-overrides with a default of deny, and the   *)
(* combinators that conditions are written with.                           *)
(*                                                                         *)
(* An attribute value carries its Python type, since the combinators react *)
(* to it, and its str(): [type, text], an int with its number, a list with *)
(* the set of its items. A condition is a callable: a function of the      *)
(* request that yields "true" or "false", or "raises".                     *)
(***************************************************************************)
EXTENDS Naturals, Sequences, FiniteSets

CONSTANTS
  Policies,       \* the policies that may be added
  Requests,       \* the requests that are asked
  PartOf,         \* pairs of texts, the first of which is a proper part of the second
  MaxPolicies     \* bound on the length of ABAC.policies

VARIABLE policies \* ABAC.policies

abacVars == <<policies>>

AbacInit == policies = <<>>

\* dict.get() of a key that is not there
Absent == [type |-> "none", text |-> "None"]

Attribute(request, bag, key) ==
  IF key \in DOMAIN request[bag] THEN request[bag][key] ELSE Absent

\* Truth of a Python value: None, 0, "" and the empty list are false.
Truthy(x) ==
  CASE x.type = "none" -> FALSE
    [] x.type = "int"  -> x.number # 0
    [] x.type = "str"  -> x.text # ""
    [] x.type = "list" -> x.items # {}

Outcome(b) == IF b THEN "true" ELSE "false"

----------------------------------------------------------------------------
(* Condition combinators                                                   *)

\* attr_equals, attr_in
AttrIn(bag, key, values) == [r \in Requests |-> Outcome(Attribute(r, bag, key) \in values)]

\* attr_contains: "in" asks a list for a member and a text for a part, which only a text
\* can be; any other attribute raises, unless it is false anyway.
AttrContains(bag, key, value) ==
  [r \in Requests |->
     LET x == Attribute(r, bag, key)
     IN  CASE ~Truthy(x) -> "false"
           [] Truthy(x) /\ x.type = "list" -> Outcome(value \in x.items)
           [] Truthy(x) /\ x.type = "str" /\ value.type = "str" ->
                Outcome(value.text = x.text \/ <<value.text, x.text>> \in PartOf)
           [] OTHER -> "raises"]

\* attr_lte
AttrLte(bag, key, limit) ==
  [r \in Requests |->
     LET x == Attribute(r, bag, key) IN Outcome(x.type = "int" /\ x.number <= limit)]

\* subject_matches_resource_owner: as they print, so 7 owns what "7" owns.
OwnerMatches ==
  [r \in Requests |->
     LET subject == Attribute(r, "subject", "sub")
         owner   == Attribute(r, "resource", "owner")
     IN  Outcome(Truthy(subject) /\ Truthy(owner) /\ subject.text = owner.text)]

\* time_between
TimeBetween(start, end) ==
  [r \in Requests |->
     LET hour == Attribute(r, "environment", "hour")
     IN  Outcome(hour.type = "int" /\ start <= hour.number /\ hour.number < end)]

\* ip_in_cidr, a network being the set of its addresses; text that is no address is
\* in none.
IpInCidr(network) ==
  [r \in Requests |->
     LET ip == Attribute(r, "environment", "ip") IN Outcome(Truthy(ip) /\ ip.text \in network)]

\* all() and any() stop at the first member that decides; an exception met before
\* that one escapes.
FirstNot(outcomes, neutral) ==
  LET Deciding == {i \in DOMAIN outcomes : outcomes[i] # neutral}
  IN  IF Deciding = {} THEN neutral
      ELSE outcomes[CHOOSE i \in Deciding : \A j \in Deciding : i <= j]

AllOf(conditions) ==
  [r \in Requests |-> FirstNot([i \in DOMAIN conditions |-> conditions[i][r]], "true")]

AnyOf(conditions) ==
  [r \in Requests |-> FirstNot([i \in DOMAIN conditions |-> conditions[i][r]], "false")]

Negate(condition) ==
  [r \in Requests |->
     IF condition[r] = "raises" THEN "raises" ELSE Outcome(condition[r] = "false")]

----------------------------------------------------------------------------
(* Policy and ABAC                                                         *)

\* applies_to
AppliesTo(policy, request) ==
  /\ policy.actions \cap {"*", request.action} # {}
  /\ policy.resource_types \cap {"*", request.resource_type} # {}

\* Policy.evaluate; a policy without a condition has the empty all_of.
Fires(policy, request) == policy.condition[request] = "true"

\* The places in ABAC.policies of those of an effect that match a request
FiredAt(ps, effect, request) ==
  {i \in DOMAIN ps : ps[i].effect = effect /\ AppliesTo(ps[i], request) /\ Fires(ps[i], request)}

\* The list of their names, as a bag: two policies may have one name.
NamesAt(ps, places) ==
  [name \in {ps[i].name : i \in places} |-> Cardinality({i \in places : ps[i].name = name})]

\* Mutant: allow overrides deny.
EvaluateAllowOverrides(ps, request) ==
  LET denies == FiredAt(ps, "deny", request)
      allows == FiredAt(ps, "allow", request)
  IN  IF allows # {} THEN [effect |-> "allow", matched |-> NamesAt(ps, allows)]
      ELSE [effect |-> "deny", matched |-> NamesAt(ps, denies)]

\* ABAC.evaluate
Evaluate(ps, request) ==
  LET denies == FiredAt(ps, "deny", request)
      allows == FiredAt(ps, "allow", request)
  IN  CASE denies # {} -> [effect |-> "deny", matched |-> NamesAt(ps, denies \cup allows)]
        [] denies = {} /\ allows # {} -> [effect |-> "allow", matched |-> NamesAt(ps, allows)]
        [] OTHER -> [effect |-> "deny", matched |-> <<>>]

Add(policy) ==
  /\ Len(policies) < MaxPolicies
  /\ policies' = Append(policies, policy)

AbacNext == \E policy \in Policies : Add(policy)

AbacSpec == AbacInit /\ [][AbacNext]_abacVars

----------------------------------------------------------------------------
(* Properties                                                              *)

\* The engine as it was when it had n policies
Early(n) == SubSeq(policies, 1, n)

\* "A targeted exception cannot be undone by a broad grant somewhere else": once a
\* prohibition has matched a request, no policy added later lets the request
\* through; and a decision changes only because of a policy that matched. (A policy
\* whose condition raises is passed over, a prohibition too.)
ProhibitionLasts ==
  \A request \in Requests, n \in DOMAIN policies :
    LET before == Evaluate(Early(n - 1), request)
        after  == Evaluate(policies, request)
    IN  /\ before.effect = "deny" /\ DOMAIN before.matched # {} => after.effect = "deny"
        /\ before.effect # after.effect => before.matched # after.matched
============================================================================
