-------------------------- MODULE IdentityServicesMC --------------------------
(***************************************************************************)
(* The parts of the library that keep their own state and share none: the  *)
(* access control models, the directories, password storage, one-time      *)
(* passwords and token signing. A behaviour belongs to one of them, chosen *)
(* at the start.                                                           *)
(***************************************************************************)
EXTENDS PolicyComparison, DecisionLog, SCIM, ScimFilters, LDAP, Passwords, Argon2, OneTimePasswords, JOSE, TLC

VARIABLE component

RoleNames == Permutations(Role) \cup Permutations(UserId)

\* RBAC: all roles permit the same, and are told apart by explain()
MCRolePermissions == {{<<"invoice", "read">>, <<"*", "write">>}}

\* ABAC: values with their types. Roles given as one text, of which "auditor" is a part;
\* an owner's number as a number and as a text
Str(v) == [type |-> "str", text |-> v]
Num(v) == [type |-> "int", text |-> ToString(v), number |-> v]
Lst(v) == [type |-> "list", text |-> ToString(v), items |-> v]
MCPartOf == {<<"auditor", "auditors">>}

HasRole(role) == AttrContains("subject", "roles", Str(role))

MCPolicies ==
  {[name |-> "own", effect |-> "allow", actions |-> {"read"}, resource_types |-> {"*"}, condition |-> OwnerMatches],
   [name |-> "staff", effect |-> "allow", actions |-> {"*"}, resource_types |-> {"invoice"},
    condition |-> AnyOf(<<AllOf(<<TimeBetween(9, 17), IpInCidr({"10.0.0.1"})>>), HasRole("auditor")>>)],
   [name |-> "large", effect |-> "deny", actions |-> {"*"}, resource_types |-> {"*"},
    condition |-> Negate(AttrLte("resource", "amount", 100))],
   [name |-> "no-contractors", effect |-> "deny", actions |-> {"read"}, resource_types |-> {"invoice"},
    condition |-> HasRole("contractor")],
   [name |-> "everything", effect |-> "allow", actions |-> {"*"}, resource_types |-> {"*"},
    condition |-> AllOf(<<>>)]}

MCRequests ==
  {[subject |-> [sub |-> Str("alice"), roles |-> held],
    resource |-> [owner |-> Str(owner), amount |-> Num(amount)],
    environment |-> [hour |-> Num(hour), ip |-> Str("10.0.0.1")],
    action |-> "read", resource_type |-> "invoice"] :
     held \in {Lst({Str("auditor")}), Lst({Str("contractor")}), Str("auditors"), Num(7)}, owner \in {"alice", "bob"},
     amount \in {50, 500}, hour \in {8, 9, 17}}
  \cup {[subject |-> [sub |-> Str("alice")], resource |-> [owner |-> Str("alice")],
         environment |-> <<>>, action |-> "write", resource_type |-> "memo"],
        [subject |-> [sub |-> Num(7), roles |-> Lst({})], resource |-> [owner |-> Str("7")],
         environment |-> <<>>, action |-> "read", resource_type |-> "memo"]}

\* ReBAC: a folder shared with groups that contain one another
F == <<"folder", "plans">>
D == <<"document", "budget">>
G(g) == <<"group", g>>
MCDriveTuples ==
  {Relate(G("a"), "member", UsersetOf(G("b"), "member")),
   Relate(G("b"), "member", UsersetOf(G("c"), "member")),
   Relate(G("c"), "member", UsersetOf(G("a"), "member")),
   Relate(G("c"), "member", User("bob")),
   Relate(F, "viewer", UsersetOf(G("a"), "member")),
   Relate(F, "owner", UsersetOf(G("b"), "member")),
   Relate(D, "parent", [object |-> F, relation |-> ""]),
   Relate(D, "viewer", Everyone)}
MCDriveQuestions == {<<D, "viewer">>, <<F, "editor">>, <<G("a"), "member">>}

\* canonical_dataset(), with a second reader and more groups to nest
MCSubjects ==
  [alice   |-> [tenant |-> "blue", tenant_admin |-> FALSE, direct_groups |-> {"platform"}],
   bob     |-> [tenant |-> "blue", tenant_admin |-> FALSE, direct_groups |-> {}],
   root    |-> [tenant |-> "blue", tenant_admin |-> TRUE, direct_groups |-> {}],
   carol   |-> [tenant |-> "red", tenant_admin |-> FALSE, direct_groups |-> {}],
   mallory |-> [tenant |-> "blue", tenant_admin |-> FALSE, direct_groups |-> {"ops"}]]
Res(tenant, owner, locked) ==
  [tenant |-> tenant, owner |-> owner, reader_group |-> "eng", locked |-> locked]
MCResources ==
  [budget |-> Res("blue", "bob", FALSE), locked |-> Res("blue", "bob", TRUE),
   red_plan |-> Res("red", "carol", FALSE)]
MCGroupEdges ==
  {<<"platform", "eng">>, <<"platform", "infra">>, <<"infra", "ops">>, <<"ops", "eng">>,
   <<"infra", "eng">>, <<"eng", "infra">>}
MCGroup == {"platform", "infra", "ops", "eng"}

\* The decision log: names that coincide, a request id given as a number and as a text,
\* risk buckets outside the fixed three and one that cannot be looked up
Verdict(model, allowed, reason, by) ==
  [model |-> model, allowed |-> allowed, reason_code |-> reason, determining_policies |-> by]
MCLogDecisions ==
  {Verdict("RBAC", TRUE, "owner", {"owner:bob"}), Verdict("Cedar", FALSE, "default_deny", {})}
MCLogRequests ==
  {[subject_id |-> "bob", action |-> "write", resource_id |-> "budget"],
   [subject_id |-> "alice", action |-> "read", resource_id |-> "bob"]}
Given(type, printed) == [type |-> type, text |-> printed]
MCLogContexts ==
  {<<>>, [request_id |-> Given("str", "bob")], [request_id |-> Given("int", "1")],
   [request_id |-> Given("str", "1"), risk_bucket |-> Given("str", "high")],
   [risk_bucket |-> Given("str", "alice@example")], [risk_bucket |-> Given("list", "")]}

\* SCIM
MCLower == [n \in {"bob", "Bob", "eve"} |-> IF n = "eve" THEN n ELSE "bob"]
Op(op, path, value) == [op |-> op, path |-> path, value |-> value]
MCPatchRequests ==
  {<<Op("replace", "active", "false")>>,
   <<Op("remove", "username", "")>>,
   <<Op("replace", "", <<<<"username", "bob">>, <<"active", "False_text">>>>)>>,
   <<Op("replace", "active", "false"), Op("move", "username", "Bob")>>}

\* Filters: one user; words that cannot be told from connectives, an operator that is not
\* known, of a text and of a boolean, and an attribute that is not there
MCAttributes ==
  [username |-> [type |-> "str", text |-> "bob"], active |-> [type |-> "bool", text |-> "true"]]
MCFilterPieces ==
  {<<"(">>, <<")">>, <<"AND">>, <<"active", "like">>, <<"username", "pr">>,
   <<"or", "nickname", "pr">>, <<"and", "username", "like", "bob">>}

\* LDAP
MCChar == {"a", "*", "(", ")", "\\", ",", " ", "tab", "=", "#"}
MCDirectoryNames == {<<"a">>, <<"*">>, <<"a", "*">>, <<"a", ",", "b">>, <<"a", " ">>}

\* Passwords: cheaper and dearer settings, other algorithms and versions, a longer digest
Set(name, cost, version, dklen) == [name |-> name, cost |-> cost, version |-> version, dklen |-> dklen]
MCSettings ==
  {Set("scrypt", [n |-> 1], 0, 32), Set("scrypt", [n |-> 2], 0, 32), Set("scrypt", [n |-> 2], 0, 64),
   Set("pbkdf2", [i |-> 1], 0, 32), Set("argon2id", [m |-> 1], 19, 32),
   Set("argon2id", [m |-> 2], 19, 32), Set("argon2i", [m |-> 1], 16, 32)}
MCDefaultParams == Set("scrypt", [n |-> 2], 0, 32)
MCNfkc == [t \in {"composed", "decomposed", "other"} |-> IF t = "other" THEN "other" ELSE "word"]
ForeignDigest(name) ==
  [of |-> <<"word", "">>, with |-> Set(name, [m |-> 1], 19, 32), salt |-> "salt"]
MCForeign ==
  {<<Field("algorithm", "argon2id"), Field("params", [m |-> 1]), Field("salt", "salt"),
     Field("digest", ForeignDigest("argon2id"))>>,
   <<Field("algorithm", "scrypt"), Field("v", 19), Field("params", [n |-> 1]), Field("salt", "salt"),
     Field("digest", ForeignDigest("scrypt"))>>,
   <<Field("algorithm", "md5"), Field("params", <<>>), Field("salt", "salt"),
     Field("digest", ForeignDigest("md5"))>>,
   <<Field("algorithm", "scrypt")>>}

\* One-time passwords: steps 1 and 2, and 0 and 5, share a code; one recovery code was
\* generated twice.
Colliding == [s \in TimeStep |-> CASE s \in {1, 2} -> "a" [] s \in {0, 5} -> "b"
                                   [] s = 3 -> "c" [] s = 4 -> "d" [] OTHER -> "e"]
TwiceTheSame == <<"a", "f", "a">>

\* JOSE
MCKeyType ==
  [rsa |-> [kty |-> "RSA", crv |-> ""], p256 |-> [kty |-> "EC", crv |-> "P-256"],
   p384 |-> [kty |-> "EC", crv |-> "P-384"], ed |-> [kty |-> "OKP", crv |-> "Ed25519"],
   hs |-> [kty |-> "oct", crv |-> ""]]
MCSkews == {-1, 1}

Init ==
  /\ component \in
       {"rbac", "abac", "rebac", "groups", "comparison", "log", "scim", "filter", "ldap", "text", "passwords", "argon2", "otp", "jose"}
  /\ RbacInit /\ AbacInit /\ RebacInit /\ GroupInit /\ ComparisonInit /\ LogInit /\ ScimInit /\ FilterInit /\ LdapInit /\ TextInit /\ PasswordInit /\ ArgonInit /\ OtpInit /\ JoseInit

all == <<component, rbacVars, abacVars, rebacVars, groupVars, built_from, logVars, scimVars, filterVars, ldapVars, textVars, passwordVars, argonVars, otpVars, joseVars>>

Next ==
  /\ UNCHANGED component
  /\ \/ component = "rbac" /\ RbacNext
          /\ UNCHANGED <<abacVars, rebacVars, groupVars, built_from, logVars, scimVars, filterVars, ldapVars, textVars, passwordVars, argonVars, otpVars, joseVars>>
     \/ component = "abac" /\ AbacNext
          /\ UNCHANGED <<rbacVars, rebacVars, groupVars, built_from, logVars, scimVars, filterVars, ldapVars, textVars, passwordVars, argonVars, otpVars, joseVars>>
     \/ component = "rebac" /\ RebacNext
          /\ UNCHANGED <<rbacVars, abacVars, groupVars, built_from, logVars, scimVars, filterVars, ldapVars, textVars, passwordVars, argonVars, otpVars, joseVars>>
     \/ component = "groups" /\ GroupNext
          /\ UNCHANGED <<rbacVars, abacVars, rebacVars, built_from, logVars, scimVars, filterVars, ldapVars, textVars, passwordVars, argonVars, otpVars, joseVars>>
     \/ component = "comparison" /\ ComparisonNext
          /\ UNCHANGED <<rbacVars, abacVars, rebacVars, logVars, scimVars, filterVars, ldapVars, textVars, passwordVars, argonVars, otpVars, joseVars>>
     \/ component = "log" /\ LogNext
          /\ UNCHANGED <<rbacVars, abacVars, rebacVars, groupVars, built_from, scimVars, filterVars, ldapVars, textVars, passwordVars, argonVars, otpVars, joseVars>>
     \/ component = "scim" /\ ScimNext
          /\ UNCHANGED <<rbacVars, abacVars, rebacVars, groupVars, built_from, logVars, filterVars, ldapVars, textVars, passwordVars, argonVars, otpVars, joseVars>>
     \/ component = "filter" /\ FilterNext
          /\ UNCHANGED <<rbacVars, abacVars, rebacVars, groupVars, built_from, logVars, scimVars, ldapVars, textVars, passwordVars, argonVars, otpVars, joseVars>>
     \/ component = "ldap" /\ LdapNext
          /\ UNCHANGED <<rbacVars, abacVars, rebacVars, groupVars, built_from, logVars, scimVars, filterVars, textVars, passwordVars, argonVars, otpVars, joseVars>>
     \/ component = "text" /\ TextNext
          /\ UNCHANGED <<rbacVars, abacVars, rebacVars, groupVars, built_from, logVars, scimVars, filterVars, ldapVars, passwordVars, argonVars, otpVars, joseVars>>
     \/ component = "passwords" /\ PasswordNext
          /\ UNCHANGED <<rbacVars, abacVars, rebacVars, groupVars, built_from, logVars, scimVars, filterVars, ldapVars, textVars, argonVars, otpVars, joseVars>>
     \/ component = "argon2" /\ ArgonNext
          /\ UNCHANGED <<rbacVars, abacVars, rebacVars, groupVars, built_from, logVars, scimVars, filterVars, ldapVars, textVars, passwordVars, otpVars, joseVars>>
     \/ component = "otp" /\ OtpNext
          /\ UNCHANGED <<rbacVars, abacVars, rebacVars, groupVars, built_from, logVars, scimVars, filterVars, ldapVars, textVars, passwordVars, argonVars, joseVars>>
     \/ component = "jose" /\ JoseNext
          /\ UNCHANGED <<rbacVars, abacVars, rebacVars, groupVars, built_from, logVars, scimVars, filterVars, ldapVars, textVars, passwordVars, argonVars, otpVars>>

Spec == Init /\ [][Next]_all
============================================================================
