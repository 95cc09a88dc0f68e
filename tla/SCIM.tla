-------------------------------- MODULE SCIM --------------------------------
(***************************************************************************)
(* authlab/directory/scim.py : the users of a SCIM service provider, their *)
(* provisioning by PUT, PATCH and DELETE, and a client that pages through  *)
(* them. (Filters are in ScimFilters.)                                     *)
(*                                                                         *)
(* externalId, name and emails are carried along like userName and decide  *)
(* nothing; groups are never touched by the code. Of the event log the     *)
(* last entry of each user is kept.                                        *)
(***************************************************************************)
EXTENDS Naturals, Sequences, FiniteSets

CONSTANTS
  UserId,        \* random_token() values; the bound on the number of users
  UserName,      \* userName values
  Lower,         \* str.lower() : UserName -> UserName
  PatchRequests, \* Operations lists that a PATCH may carry
  PageSize,      \* count, as the paging client sends it
  MaxLost        \* bound on the users that drop out behind a paging client

\* None, as a null in a body or a removed attribute leaves it
Null == "null"

\* A key that a body does not have
NotGiven == "absent"

ASSUME ScimAssumption == PageSize \in Nat \ {0} /\ IsFiniteSet(UserId) /\ MaxLost \in Nat

VARIABLES
  users,         \* SCIMServer.users : id -> [user_name, active]
  place,         \* history: for every id ever given out, the how-manieth it was; the
                 \* order of the dictionary
  reported,      \* history: active as the last event of a user prints it
  unreported,    \* history: users whose last change was a PATCH that failed half-way
  renamed,       \* history: users whose userName a PUT or PATCH has changed
  walk           \* the paging client; expected are the users that its list has had from
                 \* the start on, and lost counts those that left the pages it has read

scimVars == <<users, place, reported, unreported, renamed, walk>>

NoWalk == [start_index |-> 0, filter |-> "none", expected |-> {}, listed |-> {}, lost |-> 0]

ScimInit ==
  /\ users = <<>>
  /\ place = <<>>
  /\ reported = <<>>
  /\ unreported = {}
  /\ renamed = {}
  /\ walk = NoWalk

With(f, key, value) == [k \in DOMAIN f \cup {key} |-> IF k = key THEN value ELSE f[k]]

----------------------------------------------------------------------------
(* Listing                                                                 *)

\* The filters of the paging client: none, and `active eq true`, the one that offboarding
\* asks for. A value that is not a boolean is compared by its text.
Filter == {"none", "active_only"}

Listable(user, filter) == filter = "active_only" => user.active = "true"

InList(directory, filter) == {u \in DOMAIN directory : Listable(directory[u], filter)}

\* The 1-based index of a user in the list of those that match.
ListIndex(matching, u) == Cardinality({v \in matching : place[v] <= place[u]})

\* Mutant: the index is taken for 0-based.
PageFromZero(matching, start_index) ==
  {u \in matching : ListIndex(matching, u) \in (start_index + 1)..(start_index + PageSize)}

\* list_users: start_index is 1-based, and a slice ends where the list does.
Page(matching, start_index) ==
  {u \in matching : ListIndex(matching, u) \in start_index..(start_index + PageSize - 1)}

\* What a change of the directory means for the client: who leaves the list is not
\* expected any more, and pulls those after him towards the pages that were read.
Followed(changed) ==
  LET before == InList(users, walk.filter)
      gone == before \ InList(changed, walk.filter)
  IN  [walk EXCEPT !.expected = @ \ gone,
                   !.lost = @ + Cardinality({u \in gone : ListIndex(before, u) < walk.start_index})]

----------------------------------------------------------------------------
(* Provisioning                                                            *)

\* Mutant: userName is compared as it is spelled.
NameTakenExactly(name) == \E u \in DOMAIN users : users[u].user_name = name

\* The loop of create_user; lower() of a userName that was removed raises.
NameTaken(name) ==
  \E u \in DOMAIN users : users[u].user_name = Null \/ Lower[users[u].user_name] = Lower[name]

\* str(active), as the event of a change ends with it
EventText(active) ==
  IF active = "true" THEN "True" ELSE IF active = Null THEN "None" ELSE "False"

\* create_user keeps what the body has for "active", whatever its type.
create_user(id, name, active) ==
  /\ id \notin DOMAIN place
  /\ ~NameTaken(name)
  /\ users' = With(users, id, [user_name |-> name, active |-> IF active = NotGiven THEN "true" ELSE active])
  /\ place' = With(place, id, Cardinality(DOMAIN place) + 1)
  /\ reported' = With(reported, id, EventText(users'[id].active))
  /\ UNCHANGED <<unreported, renamed, walk>>

\* A body of PUT: an absent userName stays and an absent "active" becomes true; what is
\* there is taken as it is, a null too.
Replaced(user, name, active) ==
  [user_name |-> IF name = NotGiven THEN user.user_name ELSE name,
   active |-> IF active = NotGiven THEN "true" ELSE active]

\* Mutant: the event is written before the assignments.
replace_user_logged_first(id, name, active) ==
  /\ users' = [users EXCEPT ![id] = Replaced(@, name, active)]
  /\ reported' = [reported EXCEPT ![id] = EventText(users[id].active)]
  /\ unreported' = unreported \ {id}
  /\ renamed' = IF users'[id].user_name = users[id].user_name THEN renamed ELSE renamed \cup {id}
  /\ walk' = Followed(users')
  /\ UNCHANGED place

replace_user(id, name, active) ==
  /\ users' = [users EXCEPT ![id] = Replaced(@, name, active)]
  /\ reported' = [reported EXCEPT ![id] = EventText(users'[id].active)]
  /\ unreported' = unreported \ {id}
  /\ renamed' = IF users'[id].user_name = users[id].user_name THEN renamed ELSE renamed \cup {id}
  /\ walk' = Followed(users')
  /\ UNCHANGED place

\* bool(): the text "False" is true.
IsTrue(value) == value \in {"true", "False_text"}

\* _set_attribute; unknown attributes are ignored.
SetAttribute(user, attribute, value) ==
  CASE attribute = "active"   -> [user EXCEPT !.active = IF IsTrue(value) THEN "true" ELSE "false"]
    [] attribute = "username" -> [user EXCEPT !.user_name = value]
    [] OTHER -> user

\* _apply_patch; without a path the value is a list of attributes to set, whatever
\* the op.
ApplyPatch(user, operation) ==
  LET pairs == operation.value
      after[n \in 0..Len(pairs)] ==
        IF n = 0 THEN user ELSE SetAttribute(after[n - 1], pairs[n][1], pairs[n][2])
  IN  IF operation.path = "" THEN after[Len(pairs)]
      ELSE SetAttribute(user, operation.path, IF operation.op = "remove" THEN Null ELSE operation.value)

\* The loop of patch_user: an unsupported op raises, with the operations before it applied.
Patched(user, operations) ==
  LET after[n \in 0..Len(operations)] ==
        CASE n = 0 -> [user |-> user, raised |-> FALSE]
          [] n > 0 /\ after[n - 1].raised -> after[n - 1]
          [] n > 0 /\ ~after[n - 1].raised ->
               IF operations[n].op \in {"add", "remove", "replace"}
               THEN [after[n - 1] EXCEPT !.user = ApplyPatch(@, operations[n])]
               ELSE [after[n - 1] EXCEPT !.raised = TRUE]
  IN  after[Len(operations)]

\* patch_user; deactivate_user is the PATCH that sets active to false.
patch_user(id, operations) ==
  LET result == Patched(users[id], operations)
  IN  /\ users' = [users EXCEPT ![id] = result.user]
      /\ IF result.raised
         THEN /\ unreported' = IF result.user = users[id] THEN unreported ELSE unreported \cup {id}
              /\ UNCHANGED reported
         ELSE /\ unreported' = unreported \ {id}
              /\ reported' = [reported EXCEPT ![id] = EventText(result.user.active)]
      /\ renamed' = IF result.user.user_name = users[id].user_name THEN renamed ELSE renamed \cup {id}
      /\ walk' = Followed(users')
      /\ UNCHANGED place

delete_user(id) ==
  /\ users' = [u \in DOMAIN users \ {id} |-> users[u]]
  /\ reported' = [u \in DOMAIN reported \ {id} |-> reported[u]]
  /\ unreported' = unreported \ {id}
  /\ renamed' = renamed \ {id}
  /\ walk' = Followed(users')
  /\ UNCHANGED place

is_active(id) == IF id \in DOMAIN users THEN IsTrue(users[id].active) ELSE FALSE

----------------------------------------------------------------------------
(* Paging                                                                  *)

StartWalk(filter) ==
  /\ walk = NoWalk
  /\ walk' = [start_index |-> 1, filter |-> filter, expected |-> InList(users, filter),
              listed |-> {}, lost |-> 0]
  /\ UNCHANGED <<users, place, reported, unreported, renamed>>

\* The next page starts after the last one; the walk ends with an empty page.
NextPage ==
  LET page == Page(InList(users, walk.filter), walk.start_index)
  IN  /\ walk.start_index > 0
      /\ walk' = IF page = {} THEN NoWalk
                 ELSE [walk EXCEPT !.start_index = @ + Cardinality(page), !.listed = @ \cup page]
      /\ UNCHANGED <<users, place, reported, unreported, renamed>>

\* What a body may have for "active"; true says what leaving it out says, as does the old
\* userName in a PUT, and a null says what false says.
ActiveValue == {"false", "False_text", NotGiven}

ScimNext ==
  \/ \E id \in UserId, name \in UserName, active \in ActiveValue : create_user(id, name, active)
  \/ \E id \in DOMAIN users :
       /\ walk.lost < MaxLost
       /\ \/ \E name \in (UserName \cup {Null, NotGiven}) \ {users[id].user_name}, active \in ActiveValue :
               replace_user(id, name, active)
          \/ \E operations \in PatchRequests : patch_user(id, operations)
          \/ delete_user(id)
  \/ \E filter \in Filter : StartWalk(filter)
  \/ NextPage

----------------------------------------------------------------------------
(* Properties                                                              *)

\* "userName is unique per RFC 7643": two users have names that differ in case only, or
\* not at all, only if a PUT or a PATCH renamed one of them; no order of creations and
\* deletions forks a user.
NamesForkOnlyByRename ==
  \A u, v \in DOMAIN users :
    u # v /\ users[u].user_name # Null /\ users[v].user_name # Null
      /\ Lower[users[u].user_name] = Lower[users[v].user_name] => {u, v} \cap renamed # {}

\* The event log can be trusted for offboarding as far as this: the last event of a user
\* tells whether the account is active now, unless a PATCH refused half-way has changed
\* the account and written no event, or the account was given the text "False" by a POST
\* or PUT, which is printed as False and counts as active.
EventsTellActive ==
  \A u \in DOMAIN users :
    (reported[u] = "True") # is_active(u) => u \in unreported \/ users[u].active = "False_text"

\* Joiners and leavers can be followed: a person has one account, and its last event tells
\* whether it is active, with the exceptions above.
AccountsTraceable == NamesForkOnlyByRename /\ EventsTellActive

\* "A reliable source of 'the last user is missing' bugs": a client pages, with a filter or
\* without, by the startIndex and itemsPerPage it is given. When it gets an empty page it
\* has missed, of those that were in its list all the time, no more than dropped out of
\* the pages it had read, by a deletion or a change. Users created meanwhile, coming into
\* the list or leaving the pages yet to be read do no harm.
WalkSeesEveryUser ==
  walk.start_index > 0 /\ Page(InList(users, walk.filter), walk.start_index) = {}
    => Cardinality(walk.expected \ walk.listed) <= walk.lost
=============================================================================
