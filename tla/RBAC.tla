-------------------------------- MODULE RBAC --------------------------------
(***************************************************************************)
(* authlab/authz/rbac.py : roles that inherit from one another, and their  *)
(* assignment to subjects. An engine is the record of its two              *)
(* dictionaries, so that the adapter in PolicyComparison can build its own.*)
(*                                                                         *)
(* A permission "resource:action" is a pair; the bare "*" is a 1-tuple.    *)
(***************************************************************************)
EXTENDS Naturals, Sequences, FiniteSets

CONSTANTS
  Role,            \* role names, defined or not
  RoleSubject,
  RolePermissions  \* the permission sets that a definition may carry

VARIABLES
  roles,           \* RBAC.roles
  assignments,     \* RBAC.assignments
  call             \* the loop that is running, with its local variables

rbacVars == <<roles, assignments, call>>

Idle == [kind |-> "idle"]

RbacInit == roles = <<>> /\ assignments = <<>> /\ call = Idle

Engine == [roles |-> roles, assignments |-> assignments]

DictSet(dict, key, value) == [k \in DOMAIN dict \cup {key} |-> IF k = key THEN value ELSE dict[k]]

DictGet(dict, key, default) == IF key \in DOMAIN dict THEN dict[key] ELSE default

----------------------------------------------------------------------------
(* Definition and assignment                                               *)

\* define_role stores the role first: the ValueError of _assert_acyclic leaves it there.
DefineRole(name, permissions, inherits) ==
  /\ call = Idle
  /\ roles' = DictSet(roles, name, [permissions |-> permissions, inherits |-> inherits])
  /\ call' = [kind |-> "check", start |-> name, path |-> {}, stack |-> {<<"start", name>>},
              raised |-> FALSE]
  /\ UNCHANGED assignments

\* assign: an unknown name refuses the whole call.
Assign(subject, names) ==
  /\ call = Idle
  /\ names \subseteq DOMAIN roles
  /\ assignments' = DictSet(assignments, subject, DictGet(assignments, subject, {}) \cup names)
  /\ UNCHANGED <<roles, call>>

Unassign(subject, names) ==
  /\ call = Idle
  /\ subject \in DOMAIN assignments
  /\ assignments' = [assignments EXCEPT ![subject] = @ \ names]
  /\ UNCHANGED <<roles, call>>

----------------------------------------------------------------------------
(* _assert_acyclic                                                         *)

\* An entry of the stack is a name with the role that pushed it, which tells two
\* entries of one name apart. A set is pushed in any order and the last entry is
\* popped: the model pops any entry, which includes every order the code can take.
PushedBy(e, name) == {<<name, inherited>> : inherited \in e.roles[name].inherits}

\* Mutant: a role that was seen is skipped before the path is looked at.
TurnSeenFirst(e, check, item) ==
  LET current == item[2]
      rest    == check.stack \ {item}
  IN  IF current \in check.path \/ current \notin DOMAIN e.roles THEN [check EXCEPT !.stack = rest]
      ELSE [check EXCEPT !.stack = rest \cup PushedBy(e, current), !.path = @ \cup {current}]

\* One turn of the loop. The path is never shortened, so it holds every role seen so
\* far, and the test of seen that follows has nothing left to skip.
Turn(e, check, item) ==
  LET current == item[2]
      rest    == check.stack \ {item}
  IN  CASE current \in check.path -> [check EXCEPT !.raised = TRUE]
        [] current \notin check.path /\ current \notin DOMAIN e.roles -> [check EXCEPT !.stack = rest]
        [] OTHER -> [check EXCEPT !.stack = rest \cup PushedBy(e, current), !.path = @ \cup {current}]

CheckTurn ==
  /\ call.kind = "check" /\ ~call.raised
  /\ \E item \in call.stack : call' = Turn(Engine, call, item)
  /\ UNCHANGED <<roles, assignments>>

Refused == call.kind = "check" /\ call.raised

Accepted == call.kind = "check" /\ ~call.raised /\ call.stack = {}

----------------------------------------------------------------------------
(* effective_roles                                                         *)

\* Mutant: inherited roles are added without what they inherit.
VisitOneLevel(e, walk, name) ==
  [walk EXCEPT !.queue = @ \ {name},
               !.result = @ \cup (({name} \cup (IF name \in DOMAIN e.roles THEN e.roles[name].inherits
                                                 ELSE {})) \cap DOMAIN e.roles)]

\* One turn of the loop; the queue is the set of names in it, of which any is popped:
\* a name that is met again is skipped.
Visit(e, walk, name) ==
  IF name \in walk.result \/ name \notin DOMAIN e.roles THEN [walk EXCEPT !.queue = @ \ {name}]
  ELSE [walk EXCEPT !.queue = (@ \ {name}) \cup e.roles[name].inherits, !.result = @ \cup {name}]

Walk(e, subject) ==
  [kind |-> "resolve", subject |-> subject, queue |-> DictGet(e.assignments, subject, {}), result |-> {}]

StartEffectiveRoles(subject) ==
  /\ call = Idle
  /\ call' = Walk(Engine, subject)
  /\ UNCHANGED <<roles, assignments>>

ResolveTurn ==
  /\ call.kind = "resolve"
  /\ \E name \in call.queue : call' = Visit(Engine, call, name)
  /\ UNCHANGED <<roles, assignments>>

Resolved == call.kind = "resolve" /\ call.queue = {}

Return ==
  /\ Refused \/ Accepted \/ Resolved
  /\ call' = Idle
  /\ UNCHANGED <<roles, assignments>>

RbacNext ==
  \/ \E name \in Role, permissions \in RolePermissions, inherits \in SUBSET Role :
       DefineRole(name, permissions, inherits)
  \/ \E subject \in RoleSubject, names \in SUBSET Role \ {{}} :
       Assign(subject, names) \/ Unassign(subject, names)
  \/ \E subject \in RoleSubject : StartEffectiveRoles(subject)
  \/ CheckTurn \/ ResolveTurn \/ Return

RbacSpec == RbacInit /\ [][RbacNext]_rbacVars

----------------------------------------------------------------------------
(* What the roles that effective_roles() has returned permit               *)

effective_permissions(e, held) == UNION {e.roles[name].permissions : name \in held}

\* _matches
Matches(granted, required) ==
  \/ granted = <<"*">>
  \/ granted = required
  \/ /\ Len(granted) = 2 /\ Len(required) = 2
     /\ granted[1] \in {"*", required[1]}
     /\ granted[2] \in {"*", required[2]}

can(e, held, permission) ==
  \E granted \in effective_permissions(e, held) : Matches(granted, permission)

\* The roles that explain() may name after ALLOW; it names the first in sorted order.
\* None of them means DENY.
Explained(e, held, permission) ==
  {name \in held : \E granted \in e.roles[name].permissions : Matches(granted, permission)}

----------------------------------------------------------------------------
(* Properties                                                              *)

\* The roles that inheritance leads to from some names: the least set that has the
\* known ones among them and what its members inherit
Closed(e, names, S) ==
  /\ names \cap DOMAIN e.roles \subseteq S
  /\ \A r \in S : e.roles[r].inherits \cap DOMAIN e.roles \subseteq S

ClosureOf(e, names) ==
  {r \in DOMAIN e.roles : \A S \in SUBSET DOMAIN e.roles : Closed(e, names, S) => r \in S}

Edges(e, R) == {edge \in R \X R : edge[2] \in e.roles[edge[1]].inherits}

\* What role r inherits is no tree: a cycle leads back to it, or two ways to some role.
Tangled(e, r) ==
  LET E == Edges(e, ClosureOf(e, {r}))
  IN  \/ \E edge \in E : edge[2] = r
      \/ \E edge, other \in E : edge # other /\ edge[2] = other[2]

\* define_role accepts a role exactly when what it inherits is a tree: every cycle
\* is refused, wherever it was closed ("a cycle would make resolution never
\* finish"), and so is a role that is reached in two ways.
HierarchyCheckExact ==
  /\ Refused => Tangled(Engine, call.start)
  /\ Accepted => ~Tangled(Engine, call.start)

\* A subject may do what the closure of its roles grants, also when a refused
\* definition has left a cycle behind, a role is redefined after its assignment
\* or an inherited role is unknown; can() and explain() give the same answer.
RolesResolved == Resolved =>
  \A p \in (UNION RolePermissions) :
    LET Granting == {r \in ClosureOf(Engine, DictGet(assignments, call.subject, {})) :
                       \E granted \in roles[r].permissions : Matches(granted, p)}
    IN  /\ can(Engine, call.result, p) <=> Granting # {}
        /\ Explained(Engine, call.result, p) = Granting

\* Roles are decided as their inheritance graph says, at definition and at use.
RolesExact == HierarchyCheckExact /\ RolesResolved
============================================================================
