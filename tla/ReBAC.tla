------------------------------- MODULE ReBAC -------------------------------
(***************************************************************************)
(* authlab/authz/rebac.py : relation tuples, userset rewrites, and the     *)
(* questions check, list_users (over expand) and list_objects. An engine   *)
(* is the record of its schema, its tuples and its depth limit.            *)
(*                                                                         *)
(* "document:budget" is the pair <<"document", "budget">>. The user of a   *)
(* tuple names an object and a relation, which is "" for a plain user.     *)
(* check() and expand() are recursive and walk the same questions          *)
(* depth-first; the calls still to be made are kept as entries. expand()   *)
(* builds a tree for display, of which list_users() reads off the users.   *)
(***************************************************************************)
EXTENDS PathSearch, Sequences, FiniteSets

CONSTANTS
  DriveTuples,     \* the tuples that may be written
  DriveUsers,      \* the plain users that are asked about
  DriveQuestions,  \* the pairs of an object and a relation that are asked
  DriveDepth       \* ReBAC.max_depth

\* An object is a type and an id; both the object and the user of a tuple name one.
RelationTuple ==
  [object : STRING \X STRING, relation : STRING, user : [object : STRING \X STRING, relation : STRING]]

ASSUME RebacAssumption ==
  /\ DriveTuples \subseteq RelationTuple
  /\ DriveQuestions \subseteq (STRING \X STRING) \X STRING
  /\ DriveDepth \in Nat

VARIABLES
  tuples,    \* ReBAC.tuples of the engine that google_drive_model() returns
  asked,     \* the call of check or expand that is running
  listing    \* the call of list_objects that is running

rebacVars == <<tuples, asked, listing>>

\* A user of a tuple
User(id) == [object |-> <<"user", id>>, relation |-> ""]

NotAsked == [kind |-> "none", question |-> <<>>, user |-> User(""), pending |-> {}, found |-> {}]

NotListing == [kind |-> "none", user |-> User(""), relation |-> "", type |-> "", left |-> {}, listed |-> {}]

RebacInit == tuples = {} /\ asked = NotAsked /\ listing = NotListing

----------------------------------------------------------------------------
(* Tuples and rewrite rules                                                *)

Relate(object, relation, user) == [object |-> object, relation |-> relation, user |-> user]

UsersetOf(object, relation) == [object |-> object, relation |-> relation]

IsUserset(user) == user.relation # ""

\* candidate.endswith(":*") and user.startswith(candidate[:-1])
WildcardFor(candidate, user) ==
  ~IsUserset(candidate) /\ candidate.object[2] = "*" /\ candidate.object[1] = user.object[1]

\* A rewrite rule is the set of its alternatives, one of which suffices: a union is those
\* of its children.
This == {[kind |-> "this"]}
Computed(relation) == {[kind |-> "computed_userset", relation |-> relation]}
Through(tupleset, relation) ==
  {[kind |-> "tuple_to_userset", tupleset_relation |-> tupleset, relation |-> relation]}
Union(children) == UNION children

\* namespaces[type][relation]; whatever is not defined is "this".
RewriteFor(e, object, relation) ==
  IF object[1] \in DOMAIN e.namespaces /\ relation \in DOMAIN e.namespaces[object[1]]
  THEN e.namespaces[object[1]][relation] ELSE This

Direct(e, object, relation) ==
  {t.user : t \in {t \in e.tuples : t.object = object /\ t.relation = relation}}

----------------------------------------------------------------------------
(* check and expand                                                        *)

\* Mutant: the depth limit is reached one level early.
TooDeepEarly(e, depth) == depth >= e.max_depth

TooDeep(e, depth) == depth > e.max_depth

\* The recursive calls of _check_userset and of _expand_userset for a question, an object
\* with a relation
CallsFor(e, rule, question) ==
  CASE rule.kind = "this" ->
         {<<u.object, u.relation>> : u \in {u \in Direct(e, question[1], question[2]) : IsUserset(u)}}
    [] rule.kind = "computed_userset" -> {<<question[1], rule.relation>>}
    [] rule.kind = "tuple_to_userset" ->
         {<<u.object, rule.relation>> : u \in Direct(e, question[1], rule.tupleset_relation)}
    [] OTHER -> {}

Calls(e, question) ==
  UNION {CallsFor(e, rule, question) : rule \in RewriteFor(e, question[1], question[2])}

\* What the alternative "this" itself finds: the user for check, the plain users for expand
UsersNamed(e, question) ==
  IF This \subseteq RewriteFor(e, question[1], question[2])
  THEN {u \in Direct(e, question[1], question[2]) : ~IsUserset(u)} ELSE {}

Grants(e, question, user) == \E u \in UsersNamed(e, question) : u = user \/ WildcardFor(u, user)

Hits(e, call, question) ==
  IF call.kind = "expand" THEN UsersNamed(e, question)
  ELSE {user \in {call.user} : Grants(e, question, user)}

Calling(kind, question, user) ==
  [kind |-> kind, question |-> question, user |-> user, pending |-> {Entry(question, 0, {})}, found |-> {}]

\* One call: the depth limit and the questions on the current path end it without a result.
Ask(e, call, entry) ==
  LET rest == call.pending \ {entry}
  IN  IF TooDeep(e, entry.depth) \/ entry.at \in entry.path THEN [call EXCEPT !.pending = rest]
      ELSE [call EXCEPT !.pending = rest \cup Further(entry, Calls(e, entry.at)),
                        !.found = @ \cup Hits(e, call, entry.at)]

\* any() stops a check at the first user found; an expansion goes on to the end.
Ended(call) ==
  \/ call.kind = "check" /\ (call.found # {} \/ call.pending = {})
  \/ call.kind = "expand" /\ call.pending = {}

Candidates(e, type) ==
  {o \in {t.object : t \in e.tuples} \cup {t.user.object : t \in e.tuples} : o[1] = type}

----------------------------------------------------------------------------
(* google_drive_model                                                      *)

DriveNamespaces ==
  [group    |-> [member |-> This],
   folder   |-> [owner  |-> This,
                 editor |-> Union({This, Computed("owner")}),
                 viewer |-> Union({This, Computed("editor")})],
   document |-> [parent |-> This,
                 owner  |-> This,
                 editor |-> Union({This, Computed("owner"), Through("parent", "editor")}),
                 viewer |-> Union({This, Computed("editor"), Through("parent", "viewer")})]]

Drive == [namespaces |-> DriveNamespaces, tuples |-> tuples, max_depth |-> DriveDepth]

Write(t) ==
  /\ asked = NotAsked /\ listing = NotListing
  /\ tuples' = tuples \cup {t}
  /\ UNCHANGED <<asked, listing>>

Delete(t) ==
  /\ asked = NotAsked /\ listing = NotListing
  /\ tuples' = tuples \ {t}
  /\ UNCHANGED <<asked, listing>>

\* check(), and expand() for list_users()
StartAsking(kind, question, user) ==
  /\ asked = NotAsked /\ listing = NotListing
  /\ asked' = Calling(kind, question, user)
  /\ UNCHANGED <<tuples, listing>>

AskTurn ==
  /\ asked # NotAsked /\ ~Ended(asked)
  /\ \E entry \in Deepest(asked.pending) : asked' = Ask(Drive, asked, entry)
  /\ UNCHANGED <<tuples, listing>>

ReturnAnswer ==
  /\ Ended(asked) /\ listing = NotListing
  /\ asked' = NotAsked
  /\ UNCHANGED <<tuples, listing>>

\* list_objects: a check for each candidate
StartListing(user, relation, type) ==
  /\ asked = NotAsked /\ listing = NotListing
  /\ listing' = [kind |-> "objects", user |-> user, relation |-> relation, type |-> type,
                 left |-> Candidates(Drive, type), listed |-> {}]
  /\ UNCHANGED <<tuples, asked>>

CheckCandidate ==
  /\ listing.kind = "objects" /\ asked = NotAsked
  /\ \E object \in listing.left : asked' = Calling("check", <<object, listing.relation>>, listing.user)
  /\ UNCHANGED <<tuples, listing>>

TakeAnswer ==
  /\ listing.kind = "objects" /\ Ended(asked)
  /\ listing' = [listing EXCEPT !.left = @ \ {asked.question[1]},
                                !.listed = IF asked.found # {} THEN @ \cup {asked.question[1]} ELSE @]
  /\ asked' = NotAsked
  /\ UNCHANGED tuples

Listed == listing.kind = "objects" /\ listing.left = {} /\ asked = NotAsked

ReturnListing ==
  /\ Listed
  /\ listing' = NotListing
  /\ UNCHANGED <<tuples, asked>>

RebacNext ==
  \/ \E t \in DriveTuples : Write(t) \/ Delete(t)
  \/ \E kind \in {"check", "expand"}, question \in DriveQuestions, id \in DriveUsers :
       StartAsking(kind, question, User(id))
  \/ \E id \in DriveUsers, question \in DriveQuestions :
       StartListing(User(id), question[2], question[1][1])
  \/ AskTurn \/ ReturnAnswer \/ CheckCandidate \/ TakeAnswer \/ ReturnListing

RebacSpec == RebacInit /\ [][RebacNext]_rebacVars

----------------------------------------------------------------------------
(* Properties                                                              *)

\* The questions that can come up: all objects with all relations
Objects(e) == {t.object : t \in e.tuples} \cup {t.user.object : t \in e.tuples}

Rules(e) ==
  UNION UNION {{e.namespaces[type][r] : r \in DOMAIN e.namespaces[type]} : type \in DOMAIN e.namespaces}

RelationNames(e) ==
  {t.user.relation : t \in e.tuples} \cup {rule.relation : rule \in Rules(e) \ This}

Questions(e, question) ==
  (Objects(e) \cup {question[1]}) \X (RelationNames(e) \cup {question[2]})

CallGraph(e, question) == UNION {{q} \X Calls(e, q) : q \in Questions(e, question)}

\* The questions that at most max_depth steps of rewriting lead to, and the users that
\* a tuple puts there
Implied(e, question) == UpTo(CallGraph(e, question), {question})[e.max_depth]

Holds(e, question, user) == \E q \in Implied(e, question) : Grants(e, q, user)

Everyone == [object |-> <<"user", "*">>, relation |-> ""]

\* check() finds every grant that has a derivation within max_depth and no other,
\* although the tuples hold cycles and the search prunes by the current path; the
\* sharing dialog (list_users) and the page of visible objects (list_objects) show
\* exactly what check() enforces, the wildcard standing for every user.
CheckIsClosure ==
  /\ asked.kind = "check" /\ Ended(asked) =>
       (asked.found # {} <=> Holds(Drive, asked.question, asked.user))
  /\ asked.kind = "expand" /\ Ended(asked) =>
       /\ asked.found = UNION {UsersNamed(Drive, q) : q \in Implied(Drive, asked.question)}
       /\ \A id \in DriveUsers :
            {User(id), Everyone} \cap asked.found # {} <=> Holds(Drive, asked.question, User(id))
  /\ Listed =>
       \A object \in {t.object : t \in DriveTuples} \cup {t.user.object : t \in DriveTuples} :
         object \in listing.listed <=>
           object[1] = listing.type /\ Holds(Drive, <<object, listing.relation>>, listing.user)
============================================================================
