-------------------------- MODULE GroupResolution --------------------------
(***************************************************************************)
(* authlab/authz/policy_comparison.py : PolicyDataset.resolve_group, the   *)
(* search for a nested group membership, turn by turn.                     *)
(***************************************************************************)
EXTENDS PathSearch

CONSTANTS
  Subjects,             \* PolicyDataset.subjects : id -> [tenant, tenant_admin, direct_groups]
  Group,
  GroupEdges,           \* <<child, parent>> pairs that group_parents may hold
  MaxRelationshipDepth  \* PolicyDataset.max_relationship_depth

ASSUME GroupResolutionAssumption ==
  /\ MaxRelationshipDepth \in Nat
  /\ \A s \in DOMAIN Subjects : Subjects[s].direct_groups \subseteq Group
  /\ GroupEdges \subseteq Group \X Group

VARIABLES
  group_parents,  \* PolicyDataset.group_parents
  resolution      \* the call of resolve_group that is running, with its local variables

groupVars == <<group_parents, resolution>>

NoResolution == [subject |-> "", target |-> "", pending |-> {}, visited |-> {}, flags |-> {"returned"}]

GroupInit == group_parents = {} /\ resolution = NoResolution

----------------------------------------------------------------------------
(* resolve_group                                                           *)

Parents(edges, group) == Successors(edges, group)

\* A subject that is not known is in no group, which gives the same answer.
DirectGroups(s) == IF s \in DOMAIN Subjects THEN Subjects[s].direct_groups ELSE {}

\* The flags are the fields of the RelationshipResolution that are True.
Resolving(s, target) ==
  [subject |-> s, target |-> target, pending |-> {Entry(g, 0, {}) : g \in DirectGroups(s)},
   visited |-> {}, flags |-> {}]

\* Mutant: a group that was visited on any path is not visited again.
ResolveOnce(edges, r, entry) ==
  LET rest == r.pending \ {entry}
  IN  CASE entry.at \in r.visited -> [r EXCEPT !.pending = rest, !.flags = @ \cup {"cycle_detected"}]
        [] entry.at \notin r.visited /\ entry.depth > MaxRelationshipDepth ->
             [r EXCEPT !.pending = rest, !.flags = @ \cup {"depth_limited"}]
        [] entry.at \notin r.visited /\ entry.depth <= MaxRelationshipDepth /\ entry.at = r.target ->
             [r EXCEPT !.pending = rest, !.visited = @ \cup {entry.at}, !.flags = @ \cup {"matched"}]
        [] OTHER -> [r EXCEPT !.pending = rest \cup Further(entry, Parents(edges, entry.at)),
                              !.visited = @ \cup {entry.at}]

\* One turn of the loop
Resolve(edges, r, entry) ==
  LET rest == r.pending \ {entry}
  IN  CASE entry.at \in entry.path -> [r EXCEPT !.pending = rest, !.flags = @ \cup {"cycle_detected"}]
        [] entry.at \notin entry.path /\ entry.depth > MaxRelationshipDepth ->
             [r EXCEPT !.pending = rest, !.flags = @ \cup {"depth_limited"}]
        [] entry.at \notin entry.path /\ entry.depth <= MaxRelationshipDepth /\ entry.at = r.target ->
             [r EXCEPT !.pending = rest, !.visited = @ \cup {entry.at}, !.flags = @ \cup {"matched"}]
        [] OTHER -> [r EXCEPT !.pending = rest \cup Further(entry, Parents(edges, entry.at)),
                              !.visited = @ \cup {entry.at}]

\* The loop ends at the target or with nothing pending.
ResolutionEnds(r) == "returned" \notin r.flags /\ ("matched" \in r.flags \/ r.pending = {})

CallResolveGroup(s, target) ==
  /\ resolution = NoResolution
  /\ resolution' = Resolving(s, target)
  /\ UNCHANGED group_parents

ResolutionTurn ==
  /\ "returned" \notin resolution.flags /\ ~ResolutionEnds(resolution)
  /\ \E entry \in Deepest(resolution.pending) : resolution' = Resolve(group_parents, resolution, entry)
  /\ UNCHANGED group_parents

ReturnResolution ==
  /\ ResolutionEnds(resolution)
  /\ resolution' = NoResolution
  /\ UNCHANGED group_parents

\* The dataset is edited in place.
EditGroups(edge) ==
  /\ resolution = NoResolution
  /\ group_parents' = IF edge \in group_parents THEN group_parents \ {edge} ELSE group_parents \cup {edge}
  /\ UNCHANGED resolution

GroupNext ==
  \/ \E s \in DOMAIN Subjects \cup {"nobody"}, target \in Group : CallResolveGroup(s, target)
  \/ ResolutionTurn \/ ReturnResolution
  \/ \E edge \in GroupEdges : EditGroups(edge)

GroupSpec == GroupInit /\ [][GroupNext]_groupVars

----------------------------------------------------------------------------
(* Properties                                                              *)

Within(edges, s, n) == UpTo(edges, DirectGroups(s))[n]

AllGroups(edges, s) == ReachableFrom(edges, DirectGroups(s))

OnCycle(edges, g) == g \in ReachableFrom(edges, Parents(edges, g))

\* resolve_group() finds a nested membership exactly when some chain of at most
\* max_relationship_depth links leads to it, however cyclic the graph is and whatever
\* longer chain the search met first ("path-local, not global"); an answer of "no"
\* without depth_limited is final, and cycle_detected tells of a real cycle.
GroupResolutionExact == ResolutionEnds(resolution) =>
  LET s == resolution.subject
      g == resolution.target
  IN  /\ "matched" \in resolution.flags <=> g \in Within(group_parents, s, MaxRelationshipDepth)
      /\ "matched" \notin resolution.flags =>
           /\ resolution.visited = Within(group_parents, s, MaxRelationshipDepth)
           /\ "depth_limited" \notin resolution.flags => g \notin AllGroups(group_parents, s)
      /\ "cycle_detected" \in resolution.flags =>
           \E h \in AllGroups(group_parents, s) : OnCycle(group_parents, h)
=============================================================================
