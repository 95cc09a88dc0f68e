-------------------------- MODULE PolicyComparison --------------------------
(***************************************************************************)
(* authlab/authz/policy_comparison.py : one dataset decided by five policy *)
(* models.                                                                 *)
(*                                                                         *)
(* The RBAC and ReBAC adapters turn the dataset into roles and tuples when *)
(* they are constructed; the other three read it at every decision. The    *)
(* dataset is edited in place, so that the former may be out of date until *)
(* a new PolicyComparison is built.                                        *)
(***************************************************************************)
EXTENDS RBAC, ABAC, ReBAC, GroupResolution

CONSTANTS
  Resources,      \* PolicyDataset.resources : id -> [tenant, owner, reader_group, locked]
  None

VARIABLE
  built_from      \* group_parents when the adapters were constructed, None before that

ComparisonInit == built_from = None

----------------------------------------------------------------------------
(* The calls that an adapter makes, each run to its end                    *)

RECURSIVE ResolvedFully(_, _)
ResolvedFully(edges, r) ==
  IF ResolutionEnds(r) THEN r
  ELSE ResolvedFully(edges, Resolve(edges, r, CHOOSE entry \in Deepest(r.pending) : TRUE))

matches(edges, s, target) == "matched" \in ResolvedFully(edges, Resolving(s, target)).flags

RECURSIVE AskedFully(_, _)
AskedFully(e, asking) ==
  IF Ended(asking) THEN asking
  ELSE AskedFully(e, Ask(e, asking, CHOOSE entry \in Deepest(asking.pending) : TRUE))

check(e, object, relation, user) == AskedFully(e, Calling("check", <<object, relation>>, user)).found # {}

\* effective_roles of the RBAC engine
RECURSIVE Walked(_, _)
Walked(e, walk) ==
  IF walk.queue = {} THEN walk.result
  ELSE Walked(e, Visit(e, walk, CHOOSE name \in walk.queue : TRUE))

effective_roles(e, subject) == Walked(e, Walk(e, subject))

----------------------------------------------------------------------------
(* The adapters                                                            *)

InReaderGroup(edges, s, r) ==
  Resources[r].reader_group # None /\ matches(edges, s, Resources[r].reader_group)

Deny(code, by) == [allowed |-> FALSE, reason_code |-> code, policies |-> by]
Allow(code, by) == [allowed |-> TRUE, reason_code |-> code, policies |-> by]

ReadOrWrite == {"read", "write"}

CrossTenant(q) == Subjects[q.subject].tenant # Resources[q.resource].tenant
Locked(q) == Resources[q.resource].locked
IsAdmin(q) == Subjects[q.subject].tenant_admin
IsOwner(q) == q.subject = Resources[q.resource].owner

Known(q) == q.subject \in DOMAIN Subjects /\ q.resource \in DOMAIN Resources

\* RBACAdapter.__init__: roles per resource and tenant, nested groups flattened into them
RolesOf(edges) ==
  LET R == DOMAIN Resources
      Admins == {<<"tenant-admin", Resources[r].tenant>> : r \in R}
      Granted(role) ==
        CASE role[1] = "owner"  -> {role[2]} \X ReadOrWrite
          [] role[1] = "reader" -> {role[2]} \X {"read"}
          [] OTHER -> {r \in R : Resources[r].tenant = role[2]} \X ReadOrWrite
      Assigned(s) ==
        {<<"owner", r>> : r \in {r \in R : Resources[r].owner = s}}
          \cup {<<"reader", r>> : r \in {r \in R : InReaderGroup(edges, s, r)}}
          \cup (IF Subjects[s].tenant_admin THEN {<<"tenant-admin", Subjects[s].tenant>>} ELSE {})
  IN  [roles |-> [role \in ({"owner", "reader"} \X R) \cup Admins |->
                    [permissions |-> Granted(role), inherits |-> {}]],
       assignments |-> [s \in DOMAIN Subjects |-> Assigned(s)]]

RBACAdapter(e, q) ==
  IF ~Known(q) THEN Deny("unknown-entity", {})
  ELSE IF CrossTenant(q) THEN Deny("tenant-boundary", {"application-tenant-guard"})
  ELSE IF Locked(q) THEN Deny("explicit-deny", {"application-locked-guard"})
  ELSE IF q.action \in ReadOrWrite /\ can(e, effective_roles(e, q.subject), <<q.resource, q.action>>)
  THEN Allow("materialized-role", effective_roles(e, q.subject))
  ELSE Deny("default-deny", {})

\* A policy of ABACAdapter.__init__, of whose condition one request is asked
Rule(name, effect, actions, request, holds) ==
  [name |-> name, effect |-> effect, actions |-> actions, resource_types |-> {"*"},
   condition |-> [r \in {request} |-> Outcome(holds)]]

\* Mutant: the reader group is looked up among the direct groups only.
EffectiveGroupsDirect(edges, s) == Subjects[s].direct_groups

\* effective_groups in ABACAdapter.decide
EffectiveGroups(edges, s) ==
  {g \in UNION {{e[1], e[2]} : e \in edges} : matches(edges, s, g)}
    \cup Subjects[s].direct_groups

ABACAdapter(edges, q) ==
  IF ~Known(q) THEN Deny("unknown-entity", {})
  ELSE LET request == [action |-> q.action, resource_type |-> ""]
           d == Evaluate(
             <<Rule("deny-cross-tenant", "deny", {"*"}, request, CrossTenant(q)),
               Rule("deny-locked", "deny", {"*"}, request, Locked(q)),
               Rule("allow-tenant-admin", "allow", ReadOrWrite, request, IsAdmin(q) /\ ~CrossTenant(q)),
               Rule("allow-owner", "allow", ReadOrWrite, request, IsOwner(q)),
               Rule("allow-reader-group", "allow", {"read"}, request,
                    Resources[q.resource].reader_group \in EffectiveGroups(edges, q.subject))>>,
             request)
           by == DOMAIN d.matched
       IN  IF d.effect = "allow" THEN Allow("attribute-policy", by)
           ELSE IF "deny-cross-tenant" \in by THEN Deny("tenant-boundary", by)
           ELSE IF "deny-locked" \in by THEN Deny("explicit-deny", by)
           ELSE Deny("default-deny", by)

\* ReBACAdapter.__init__
TuplesOf(edges) ==
  [namespaces |->
     [group    |-> [member |-> This],
      tenant   |-> [admin |-> This],
      document |-> [owner  |-> This,
                    editor |-> Union({This, Computed("owner")}),
                    reader |-> This,
                    viewer |-> Union({This, Computed("editor"), Computed("reader")})]],
   max_depth |-> MaxRelationshipDepth,
   tuples |->
     UNION {{Relate(<<"group", g>>, "member", User(s)) : g \in Subjects[s].direct_groups} :
              s \in DOMAIN Subjects}
     \cup {Relate(<<"tenant", Subjects[s].tenant>>, "admin", User(s)) :
              s \in {s \in DOMAIN Subjects : Subjects[s].tenant_admin}}
     \cup {Relate(<<"group", e[2]>>, "member", UsersetOf(<<"group", e[1]>>, "member")) : e \in edges}
     \cup {Relate(<<"document", r>>, "owner", User(Resources[r].owner)) : r \in DOMAIN Resources}
     \cup {Relate(<<"document", r>>, "reader",
                  UsersetOf(<<"group", Resources[r].reader_group>>, "member")) :
              r \in {r \in DOMAIN Resources : Resources[r].reader_group # None}}]

ReBACAdapter(e, q) ==
  LET relation == IF q.action = "read" THEN "viewer" ELSE "editor"
  IN  IF ~Known(q) THEN Deny("unknown-entity", {})
      ELSE IF CrossTenant(q) THEN Deny("tenant-boundary", {"application-tenant-guard"})
      ELSE IF Locked(q) THEN Deny("explicit-deny", {"application-locked-guard"})
      ELSE IF q.action \notin ReadOrWrite THEN Deny("default-deny", {})
      ELSE IF check(e, <<"tenant", Subjects[q.subject].tenant>>, "admin", User(q.subject))
      THEN Allow("relationship-path", {"tenant-admin"})
      ELSE IF check(e, <<"document", q.resource>>, relation, User(q.subject))
      THEN Allow("relationship-path", {relation})
      ELSE Deny("default-deny", {})

\* The permit rules that the Cedar and the Rego policy have in common
Permits(edges, q) ==
  (IF q.action \in ReadOrWrite /\ IsAdmin(q) THEN {"tenant-admin"} ELSE {})
    \cup (IF q.action \in ReadOrWrite /\ IsOwner(q) THEN {"owner"} ELSE {})
    \cup (IF q.action = "read" /\ InReaderGroup(edges, q.subject, q.resource)
          THEN {"reader-group"} ELSE {})

CedarAdapter(edges, q) ==
  IF ~Known(q) THEN Deny("unknown-entity", {})
  ELSE LET forbids == (IF CrossTenant(q) THEN {"forbid-cross-tenant"} ELSE {})
                        \cup (IF Locked(q) THEN {"forbid-locked"} ELSE {})
       IN  IF "forbid-cross-tenant" \in forbids THEN Deny("tenant-boundary", forbids)
           ELSE IF forbids # {} THEN Deny("explicit-deny", forbids)
           ELSE IF Permits(edges, q) # {} THEN Allow("cedar-permit", Permits(edges, q))
           ELSE Deny("default-deny", {})

RegoAdapter(edges, q) ==
  IF ~Known(q) THEN Deny("unknown-entity", {})
  ELSE IF CrossTenant(q) \/ Locked(q)
  THEN Deny(IF CrossTenant(q) THEN "tenant-boundary" ELSE "explicit-deny", {"deny"})
  ELSE IF Permits(edges, q) # {} THEN Allow("rego-permit", Permits(edges, q))
  ELSE Deny("default-deny", {})

\* What PolicyComparison.__init__ leaves in the adapters
Adapters == [roles |-> RolesOf(built_from), tuples |-> TuplesOf(built_from)]

\* decide_all
decide_all(adapters, q) ==
  [RBAC  |-> RBACAdapter(adapters.roles, q),
   ABAC  |-> ABACAdapter(group_parents, q),
   ReBAC |-> ReBACAdapter(adapters.tuples, q),
   Cedar |-> CedarAdapter(group_parents, q),
   Rego  |-> RegoAdapter(group_parents, q)]

\* list_objects_all, for one model
list_objects_all(adapters, s, action, model) ==
  {r \in DOMAIN Resources :
     decide_all(adapters, [subject |-> s, action |-> action, resource |-> r])[model].allowed}

\* PolicyComparison.__init__, and edits of the dataset that it was built from
\* (assign raises KeyError for an administrator whose tenant has no resource).
Construct ==
  /\ \A s \in DOMAIN Subjects : Subjects[s].tenant_admin =>
       \E r \in DOMAIN Resources : Resources[r].tenant = Subjects[s].tenant
  /\ built_from' = group_parents
  /\ UNCHANGED groupVars

\* Edits of the dataset (EditGroups) leave what was built from it as it is.
ComparisonNext ==
  \/ Construct
  \/ (\E edge \in GroupEdges : EditGroups(edge)) /\ UNCHANGED built_from

----------------------------------------------------------------------------
(* Properties                                                              *)

\* The reader group lies within max_relationship_depth, but not with the two links
\* that the ReBAC schema puts in front of it (viewer, reader).
BeyondReBAC(edges, s, r) ==
  /\ InReaderGroup(edges, s, r)
  /\ Resources[r].reader_group \notin Within(edges, s, MaxRelationshipDepth - 2)

SameAnswer(a, b) == a.allowed = b.allowed /\ (~a.allowed => a.reason_code = b.reason_code)

\* The five models make the same decision for the same reason, and list the same
\* objects: those that read the dataset among themselves, those built from a snapshot
\* as of that snapshot, and all of them when it is current. The one exception is a
\* reader group so deeply nested that the ReBAC adapter's own two links exhaust the
\* depth limit: there it denies.
ComparisonExact == built_from # None =>
  LET adapters == Adapters
  IN  /\ \A s \in DOMAIN Subjects \cup {"nobody"}, action \in ReadOrWrite \cup {"delete"},
            r \in DOMAIN Resources :
           LET q    == [subject |-> s, action |-> action, resource |-> r]
               d    == decide_all(adapters, q)
               then == CedarAdapter(built_from, q)
           IN  /\ SameAnswer(d.ABAC, d.Cedar) /\ SameAnswer(d.Rego, d.Cedar)
               /\ SameAnswer(d.RBAC, then)
               /\ IF then.policies = {"reader-group"} /\ BeyondReBAC(built_from, s, r)
                  THEN ~d.ReBAC.allowed
                  ELSE SameAnswer(d.ReBAC, then)
      /\ built_from = group_parents =>
           \A s \in DOMAIN Subjects, action \in ReadOrWrite :
             list_objects_all(adapters, s, action, "RBAC") = list_objects_all(adapters, s, action, "Rego")
============================================================================
