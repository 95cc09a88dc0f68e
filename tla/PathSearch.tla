----------------------------- MODULE PathSearch -----------------------------
(***************************************************************************)
(* What resolve_group() of policy_comparison.py and check() and expand()   *)
(* of rebac.py have in common: a depth-first search that keeps with every  *)
(* entry its depth and the path that led to it, and no set of what has     *)
(* been seen on other paths. And what such a search is measured by: what   *)
(* the edges of a graph, pairs of nodes, lead to.                          *)
(***************************************************************************)
EXTENDS Naturals

Entry(at, depth, path) == [at |-> at, depth |-> depth, path |-> path]

\* What is pushed when an entry has been looked at: one entry for each next node
Further(entry, next) == {Entry(x, entry.depth + 1, entry.path \cup {entry.at}) : x \in next}

\* The last entries pushed are taken first, and a node's successors come in some order.
\* What was pushed last is what is deepest.
Deepest(pending) == {entry \in pending : \A other \in pending : other.depth <= entry.depth}

----------------------------------------------------------------------------
(* Reference definitions                                                   *)

Successors(edges, x) == {edge[2] : edge \in {edge \in edges : edge[1] = x}}

\* UpTo(edges, from)[n]: the nodes that at most n edges lead to
UpTo(edges, from) ==
  LET upto[n \in Nat] ==
        IF n = 0 THEN from
        ELSE LET Before == upto[n - 1] IN Before \cup UNION {Successors(edges, x) : x \in Before}
  IN  upto

\* The nodes that any number of edges leads to: the least set that has the first ones
\* and all that its members lead to
ReachableFrom(edges, from) ==
  LET Nodes == from \cup {edge[2] : edge \in edges}
  IN  {x \in Nodes : \A S \in SUBSET Nodes :
         from \subseteq S /\ (\A y \in S : Successors(edges, y) \subseteq S) => x \in S}
=============================================================================
