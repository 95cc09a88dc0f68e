# auth-lab in TLA+

Models, model-checking configurations and machine-checked proofs for
`authlab`, the Python implementation of authentication and authorization
protocols in this repository. The code is single-process and keeps everything
in memory; what makes it hard to get right is *order*: tokens that are rotated,
replayed and revoked in any sequence, caches that must forget neither too early
nor too late, clocks that disagree, and an HTTP server that runs handlers on
threads. Those are the subject here. Cryptography is represented by who can
produce which message.

## Inventory

| Part of the code | State it keeps | Operations | What makes it correct | Status |
|---|---|---|---|---|
| `oauth/dpop.py` `DPoPVerifier` | `seen` (jti to expiry), `current_nonce` | `verify`, `_purge`, `issue_nonce` | a fresh proof is accepted once although `seen` forgets; a refused proof is not burned; nonces retire | modelled, alone and on threads; proved |
| `oauth/authorization_server.py`, `oauth/models.py` | `Store`: clients, codes, device codes, access and refresh tokens, `seen_jtis` | `/authorize`, client authentication, four grants, device approval, `revoke`, `introspect` | single use, one usable token per family, misuse fails closed, scope and key bindings survive rotation | modelled but for ID token contents and metadata; proved |
| `server.py` | one `AuthorizationServer` shared by threads | `do_POST` per request | the above under interleaving | modelled for `/token` and `/revoke`; proved but for liveness |
| `kerberos/` | client: TGT, ticket cache; service: `replay_cache` | `kinit`, `get_service_ticket`, `ap_req`, `as_req`, `tgs_req` | an authenticator is used once, a login lasts one ticket lifetime | modelled; a finding; proved |
| `oauth/client.py` | `pending` per session, `_last_nonce` | `begin`, `handle_callback`, `validate_id_token` | a verifier is sent once, a login comes from the session's own attempt | modelled; proved |
| `oauth/ciba.py` | requests with decision, poll interval, `used` | `start`, `approve`, `deny`, `token` | one delivery per request, as agreed, none after a denial; pollers are paced | modelled; proved |
| `oauth/par.py`, `jar.py`, `jarm.py`, `rar.py` | request URIs, Request Object jtis | `push`, `authorize`, `validate` | one decision per Request Object, in time; responses are spent by delivery only | modelled but for `rar.py`; proved |
| `oauth/fapi2_*.py` | none of their own | profile checks | only conforming, signed requests can be opened | modelled in front of PAR; proved with it |
| `oauth/resource_server.py` | introspection cache | `authenticate`, `require_*` | bound tokens are not downgraded, staleness is bounded | modelled but for proof of possession; proved |
| `saml/protocol.py` | `pending`, `consumed` | `build_authn_request`, `consume_response` | a request is answered by one login; refused responses do no harm; skewed clocks are tolerated | modelled; proved |
| `webauthn/relying_party.py` | `pending`, `credentials`, counters | registration, authentication | challenges are single use, ids have one owner, counters catch clones | modelled; proved |
| `mfa/` | `last_step`, used recovery codes | `verify`, `consume` | no code is accepted twice | modelled; proved |
| `jose/` | `JWKSet.keys`, `_refreshes` | `add`, `by_kid`, `select`, `verify`, `validate` | only what the issuer signed is accepted, and all of it; rotation is followed within the refresh budget | modelled; proved |
| `authz/` | roles and assignments, policies, relation tuples, a dataset, a decision log | editing, `can`, `evaluate`, `check`, `expand`, `list_*`, `decide`, `record`, `purge` | decisions agree with a declarative closure and the five models with each other; a prohibition lasts; the log finds what it retains, and retains no longer than it may | modelled; proved but for the comparison of the models |
| `directory/scim.py` | users, event log | POST, PUT, PATCH, DELETE, list, filter | names stay unique, events tell the truth, paging misses nobody, with the exceptions found | modelled but for groups; proved |
| `directory/ldap.py` | entries | `add`, `search`, `authenticate`, parsing, escaping | a name means itself in a filter and in a DN, as stored and parsed again | modelled |
| `passwords/` | stored hashes, settings | `hash`, `verify`, `needs_rehash`, `login` | old hashes verify, upgrades end, unknown users cost the same | modelled; proved |
| `passwords/argon2.py` | the block matrix | `argon2` | every block refers to one it may refer to | fill order modelled and proved, compression abstracted |
| `saml/c14n.py`, `saml/signature.py`, `webauthn/cose.py`, `crypto/*`, `mtls/tls.py` | none, or sockets | parsing, number theory, I/O | published test vectors | not modelled |

How the parts interact. The token endpoint calls the DPoP verifier and takes a
certificate thumbprint from the TLS layer; both end up in the `cnf` of the
tokens it stores. PAR, JAR and the FAPI profiles sit in front of
`validate_authorization_request`; CIBA mints through the same
`_issue_token_set`. Resource servers see either a signed JWT or the answer of
`introspect()`. `server.py` puts threads underneath all of it. Kerberos, SAML
and WebAuthn are independent subsystems with replay caches of the same shape. The
access control models, the directories, the password hashes, the second factors and
the JOSE layer keep state of their own and share none; `policy_comparison.py` builds on
the three engines of `authz/`.
Every component reads time through an injected `Clock`, in whole seconds.

Which behaviours are hard is recorded line by line in `PROJECT.json` under
`hazards`.

## Modules

| Module | Models | Run by |
|---|---|---|
| `OneTimeUse` | the abstract promise of every replay defence: a credential is accepted at most once | refined by `DPoPVerifier`, `Kerberos`, `CIBA`, `SAML`, `WebAuthn` and `PushedRequests` |
| `AuthorizationServer` | the grants and the `Store` | `AuthorizationServerMC` |
| `AuthorizationServerProofs` | theorems about it | |
| `DPoPVerifier` | `DPoPVerifier` in `dpop.py` | itself |
| `TokenRequests` | what `token()` does before the grant, on threads: client authentication with `seen_jtis`, `DPoPVerifier.verify()` step by step | `TokenEndpointMC` |
| `ThreadedTokenEndpoint` | the grants split at their accesses to shared records, one request per thread | `TokenEndpointMC` |
| `TokenEndpointProofs` | theorems about these two | |
| `Kerberos` | KDC, clients and services | `KerberosMC` |
| `KerberosProofs` | theorems about it | |
| `CIBA` | `CIBAService` | `CIBAMC` |
| `CIBAProofs` | theorems about it | |
| `SAML` | `ServiceProvider` and `IdentityProvider` | `RelyingPartiesMC` |
| `OAuthClient` | one `OAuthClient` object shared by browser sessions | `RelyingPartiesMC` |
| `WebAuthn` | `RelyingParty` and authenticators | `WebAuthnMC` |
| `WebAuthnProofs` | theorems about it | |
| `PushedRequests` | JAR, PAR, JARM and the FAPI 2.0 profiles in front of PAR | `PushedRequestsMC` |
| `PushedRequestsProofs` | theorems about it | |
| `ResourceServers` | `JWKSet` and `IntrospectingResourceServer` against rotation, revocation and expiry | `ResourceServersMC` |
| `ResourceServerProofs` | theorems about it and about `DPoPVerifier`, `JOSE`, `RBAC`, `ABAC`, `DecisionLog`, `GroupResolution`, `ReBAC` and `ScimFilters` | |
| `RBAC` | `RBAC`, the cycle check and the resolution of roles | `IdentityServicesMC` |
| `ABAC` | conditions, policies and deny-overrides with a default of deny | `IdentityServicesMC` |
| `PathSearch` | the depth-first search that the next two share, and what the edges of a graph lead to | |
| `ReBAC` | relation tuples, rewrite rules, `check`, `expand`, `list_users`, `list_objects` | `IdentityServicesMC` |
| `GroupResolution` | `resolve_group`, the nested groups of a dataset | `IdentityServicesMC` |
| `PolicyComparison` | the five adapters over one dataset; extends `RBAC`, `ABAC`, `ReBAC` and `GroupResolution` | `IdentityServicesMC` |
| `DecisionLog` | `PrivacyPreservingDecisionLog`: entries, references, retention | `IdentityServicesMC` |
| `SCIM` | users and their events, paging | `IdentityServicesMC` |
| `ScimFilters` | the filter parser and the predicate it returns | `IdentityServicesMC` |
| `LDAP` | DNs, filters, both escapes, search and bind | `IdentityServicesMC` |
| `Passwords` | encoded hashes and `PasswordHasher` over years of settings | `IdentityServicesMC` |
| `Argon2` | the loops of `argon2()` and the reference of each block | `IdentityServicesMC` |
| `OneTimePasswords` | `TOTP.verify` and `RecoveryCodes` | `IdentityServicesMC` |
| `JOSE` | key sets, JWS verification, claim validation | `IdentityServicesMC` |
| `SignInProofs` | theorems about `OAuthClient`, `SAML`, `OneTimePasswords`, `Passwords`, `SCIM` and `Argon2` | |

`TokenEndpointMC`, `RelyingPartiesMC` and `IdentityServicesMC` put modules that share no
state side by side: a variable says which of them a behaviour is about.

A definition whose comment begins with *Mutant:* is the one after it with a
plausible mistake; `PROJECT.json` says which property must notice.

### DPoPVerifier

A proof is the record of the claims `verify()` compares. `verify()` reads the clock for
the test of `iat` (dpop.py:234) and `_purge()` reads it again (:184), so a call is two
steps between which the clock may tick: `ReadClock`, up to the test of `iat`, after which
`verifying` holds the proof and the reading, and `VerifyAccepts` or `VerifyRejects`. Both
purge `seen` first, by the clock of then, and only acceptance records the jti, with an expiry
counted from the first reading (:266). A call that fails before or at the test of `iat` changes
nothing and is no step. One call runs at a time here; `TokenRequests` has threads. `iat` is
chosen freely from `IssueTime`: client clocks are not the verifier's. `current_nonce` is a
counter because `random_token` never repeats.

`uses` is a history variable. It counts the acceptances of a proof in two classes
(`Moment`): *fresh*, when the clock at the acceptance is within `max_age` of `iat`, and
*overtaken*, when the window has ended since the call read the clock. "No proof is ever
accepted twice" is false of this code: a proof dated ahead is accepted, its entry expires in
its last fresh second, and a call that reads the clock in that second and purges in the next
accepts it again. `ImplementsOneTimeUse` says that this is the only way and that it happens
once: each proof is accepted at most once as fresh and at most once as overtaken. The theorem
`NoReplayWhileFresh` adds that an acceptance as fresh is the first of all
(`FreshIsFirst`).

### AuthorizationServer

Each dictionary of `Store` is a function from the keys present to records with
the code's field names. Every call is one action, because without threads a
call runs to completion; `ReplayCode` and `ReuseRefresh` are the branches of
`_grant_authorization_code` and `_grant_refresh_token` that raise after having
revoked tokens, and they come before the client check, as in the code. Requests
that raise without touching the Store are the negations of the guards. A client
arrives authenticated, together with the DPoP thumbprint and the certificate
thumbprint that `token()` was handed. The fields `grant` and `family`, and the
variables `replayed` and `compromised`, are history: no guard reads them,
except that fresh identifiers avoid those in use.

Two code facts a reader might overlook are kept. The replay branch selects
tokens by client *and user*, so a replay of one code also revokes the tokens of
other authorizations of the same pair; and `revoke()` of a refresh token leaves
the access tokens of the family alone.

### TokenRequests and ThreadedTokenEndpoint

`server.py` uses `ThreadingHTTPServer`, and nothing in `AuthorizationServer`
takes a lock. `TokenRequests` is the part of `token()` before the grant. Its steps are
the accesses to `seen_jtis` and `DPoPVerifier.seen` and the two readings of the clock:
`Arrive` (`authenticate_client` up to the test of the assertion's jti), `NoteAssertion`,
`ReadProof` (up to the test of `iat`), `CollectStale` and `DropStale` (the two halves of
`_purge`), `TestProof`, `RecordProof`, `Grant`. `CollectAborted` is the interpreter's
`RuntimeError` for a dictionary that changes under a comprehension, and `DropStale` of a
key that another thread has deleted is the `KeyError`; both end the request. Whether the
grant succeeds is left open, because the identifiers are spent either way.

Here too the two clock readings are steps of their own: when the clock ticks in between, the
purge may drop an entry that the first reading still needs, and a proof is accepted a second
time in its last fresh second. `SpentIsSpent` names this case, `read_now < tested_at`, as the
only exception. Two more facts: the jti namespace of client assertions is shared by all clients,
and `seen_jtis` is never purged (it grows with every login; no reader of it can go wrong).

`ThreadedTokenEndpoint` cuts the grants where they read or write a shared record:
the test of `used`, its assignment, the insertion of the access token, the
insertion of the refresh token, and each turn of a revocation loop. The
dictionaries are sequences, since they only grow and are iterated in insertion
order. `AbortScan` is the interpreter's own rule that an iterator raises
`RuntimeError` when its dictionary has changed size; `do_POST` catches
`OAuthError` only, so such a request ends without a response. Approval of the
device code has no HTTP route and has happened before the requests start.

### Kerberos

KDC and services share a clock, clients have an offset. Everything a client
sends to a service stays on the wire (`sent`) and may be delivered at any later
time and more than once. `SendApReq` is `KerberosClient.ap_req()` with the
ticket lookup or TGS exchange it performs. A ticket carries the `auth_time` of the
login behind it; nothing else distinguishes session keys. `AuthenticatorUsedOnce`
speaks of the clients whose clock is not ahead (`PunctualUses`); the finding below
is why.

### CIBA

`Start`, `Approve`, `ApproveAndPush`, `Deny`, `Poll` and `Redeem` are the calls of
`CIBAService`, all of them behind `_record()` (present, unused, in time). `Poll` is
the part of `token()` that raises `authorization_pending` or `slow_down` and has
changed `last_polled_at` and `interval` by then. A token set is represented by the
arguments of `_issue_token_set`, kept in the history `deliveries`. `approve()` in
push mode does not look at `denied`, so a push request that was denied and is then
approved yields tokens; `AnswersAsAgreed` speaks here of poll and ping requests for
this reason.

### SAML

The service provider's `pending` and `consumed` are modelled as they are, the
identity provider by the assertions it signs. AuthnRequests are unsigned, so that
an assertion may answer our request and be addressed to somebody else. The offset
`ahead` between the two clocks is chosen once per behaviour. `_purge_consumed`
drops an assertion at `NotOnOrAfter`, while it is accepted until
`NotOnOrAfter + leeway`; what keeps it single use is that its request is no longer
pending. The branch that reports an assertion replay is therefore unreachable.

### WebAuthn

Credential ids are not covered by the assertion's signature and attestation
"none" signs nothing, so a registration may claim any id for any key. `Clone` copies
a key with its counter; original and clone then count on their own.
`CeremonyFails` is any verification that raises after `_take_challenge`: the
challenge is gone all the same.

### PushedRequests

Four stages with a deadline each: a Request Object is signed (`Issue`), pushed
(`PushSigned`, or `PushUnsigned` without one), opened at the authorization endpoint
(`Authorize`) and answered (`Respond`, `Validate`). Parameters are reduced to
whether they pass `validate_authorization_request` and the shape test of the FAPI
profile. `PushSignedRefused` keeps a detail of the code: validating the object burns
its `jti`, also when the request inside is then refused. The profile deletes the
stored request again when its shape is wrong; nothing happens between the two, so
`Admitted` combines them. The clock is read once per call here and several times in the
code, so the deadlines of `FlowSound` hold to the tick only where a call does not straddle one;
that the profile cannot be gone round is said of requests that come through it.

### OAuthClient

`begin()` draws state, nonce and verifier together; an *attempt* is the three of
them. `Callback`, `Exchange` and `ValidateIdToken` are separate steps because
callers make them separately on one shared object. A callback may carry any code
in any session. `_last_nonce` is one attribute for all sessions: with two logins
past their callback, the earlier one's ID token is refused although its nonce is
right. `OwnNonceAcceptedSerially` states what holds.

### ResourceServers

Key rotation and retirement follow the procedure in the docstring of `jwks.py`
(publish, sign, retire when all tokens have expired) and are marked external.
`Lookup` is `by_kid()` with an unknown kid, including kids that were never
published. `_refreshes` is never reset, so that the limit is a lifetime total; once
it is used up a rotation goes unnoticed. `RotationFollowedWithinBudget` states what
holds. `IntrospectingResourceServer` does not look at `cnf`; proof of possession is
not part of this module.

### RBAC, ABAC, ReBAC

`call` holds the loop that is running, `_assert_acyclic()` or `effective_roles()`, with its
local variables, and one action is one turn of it. The code pops the last entry of a list
to which sets were added in any order; here any entry may be popped. `can()` and `explain()`
are read off the roles that `effective_roles()` has returned.
`define_role()` stores a role and then looks for a cycle, so a refused definition stays
in the dictionary; `RolesResolved` holds in spite of that. The search shares one path
between its branches: a role that is inherited in two ways is refused as a cycle as well
(`HierarchyCheckExact` says so), which a diamond of harmless roles meets. ABAC
conditions are callables in the code and functions of the request here, which the
combinators build from one another; they have three outcomes, because they may raise:
`attr_contains` of a number. An attribute value is its Python type and its `str()`:
`attr_contains` looks for a member in a list and for a part in a text (`PartOf`), and
`subject_matches_resource_owner` compares the printed values, so that the number 7 owns what
"7" owns. The names that a decision
reports are a bag, since the code lists them and two policies may share one. `evaluate()` passes over a policy that raises, a
prohibition too, so that `ProhibitionLasts` is about prohibitions that have matched.

`check()` and `expand()` are recursive functions that walk the same questions, an object with
a relation, depth-first. `asked` keeps the calls still to be made, each with its depth and with
the questions on its path, which the code passes down as `path`; `Ask` is one call, and any
of the deepest may come next (`Deepest`), because what was called last is looked at first and
the tuples of a question come in some order. A call ends
without a result when it is too deep or when its question is on its own path; nothing is
remembered of other paths. `expand()` builds a tree for display, of which `list_users()` reads
the plain users, and these are kept. `list_objects()` is a check for each object that a tuple
mentions. The reference, `Implied`, knows neither order nor paths: it is what at most
`max_depth` rewriting steps lead to. `resolve_group()` in `GroupResolution` is a loop
of the same shape, with an explicit stack.

### PolicyComparison and DecisionLog

`Construct` builds the adapters, which copies the dataset into roles and tuples for two
of them; `EditGroups` changes `group_parents` afterwards. The calls that an adapter makes are the
turns of `GroupResolution`, `ReBAC` and `RBAC`, run to their end. `ComparisonExact` compares each
adapter with the reference at its own time. One disagreement is stated as what it is: the
ReBAC schema spends two links of the same depth limit on `viewer` and `reader`, so it
denies a reader group that the other four still find (`BeyondReBAC`). In `DecisionLog` the
list of entries is a function from the numbers of the records, because `record()` appends and
`purge()` filters. All fields of an entry are there; the order of the policy references is not.
`_reference` is an injective function of namespace and value, but what it is given is not
injective: `str(request_id)` prints the number 1 and the text "1" alike (`Printed`). A
risk bucket of a type that cannot be looked up in a set raises, and nothing is recorded
(`Unhashable`). `trail` is history: every call, and the latest time that a purge after it was
given; `occurred_at` and the times of purges come from the callers in any order.
`LogTraceable` relates the two: the entries are those of the calls retained, and a search finds
exactly the retained decisions about what is searched for.

### SCIM and LDAP

The SCIM model keeps what can be lost: `user_name` (which PATCH or a null in a PUT can
remove, after which `create_user` raises), `active`, the event log reduced to each user's last
event, and a client that walks the pages of the whole list or of `active eq true`. POST and PUT
store `active` as it comes, PATCH converts it: `ActiveValue` has the text "False", which is
printed as `False` in the event and counts as active. `unreported` and `renamed`
are history and delimit what the code does not promise: a PATCH that fails half-way has
changed the user and logs nothing, and PUT and PATCH do not look for other users of the new
name. A user who drops out of the pages already read, by a deletion or because the filter does
not match him any more, pulls another one over the edge; `walk.lost` counts these, and
`WalkSeesEveryUser` says that no more users are missed. In `ScimFilters`, filters are sequences
of tokens, and a predicate has three outcomes, since it may raise. The three nested functions of
the code are unrolled into the turns that they take together, one per token (`ParserTurn`): where
the parser stands, the attribute and operator it has read, the `left` of the running `parse_or`
and `parse_and`, and in `outer` the same for each call that waits behind an open parenthesis,
which is what Python's stack holds. `parse_term` takes any token but `)`, `and` and `or` in small
letters for an attribute and any token at all for an operator or a value, `(` and `and`
included; an operator that is not known raises only when the predicate meets a text. The result is
compared with the derivations of the rules that the code follows, the least set that they close
(`Follows`, `Derived`). These rules are laxer than the grammar of RFC 7644; see the findings.

LDAP text is the exception to names as atoms, because escaping is what the properties are
about: `text` is typed character by character from the special characters, white space and
one ordinary letter, and rendered, escaped and parsed as the code does. `entries_of` is keyed by
the DN as the code stores it, parsed and printed (`PrintedDN`), and `search` parses it once
more. That round trip is not the identity: `strip()` takes an escaped space off its
backslash, which then escapes the comma. `LosesItsSpace` names the names this happens to; an entry
of such a name is below no base, so nobody logs in to it. `unescape_filter_value` reads
two characters after a backslash, or the only one left, and `chr(int(.., 16))` raises for what is
no number (`Chr`); escaped names never come to that.

### Passwords and Argon2

A hash string is a sequence of fields; `ParamsOf` splits it the way `verify` does.
Digests are injective in the prepared password, the settings and the salt. `Configure`
changes settings, pepper and installed backend; `Import` stores hashes of other
systems, of the kinds that `verify()` gives up on (`PasswordsAssumption`): a string it can
derive is a hash this hasher wrote. `needs_rehash()` does not look at the digest length, the pepper or the backend,
which the two properties state as their conditions. `Argon2` fills the memory as the four
loops do; the words `j1` and `j2` range over all values, so its properties hold whatever
the compression function returns. `WordRange` stands for 2^32. The mapping of a word to a
block rounds, so that `FillingExact` says of windows of at most half as many blocks as there
are words that the oldest block can be reached; the newest always can.

### OneTimePasswords

The code of a step is any function `Hotp`, with collisions: a six-digit code may belong
to two steps of one window. `step_uses` and `spent` count successful logins.

### JOSE

Keys, key sets and tokens are records; a signature is who made it over which input.
`Altered` and `SelfMade` are what somebody without a private key can put together,
including MACs keyed with public key bytes. `AddKey`, `Load` and `LoadPrivate` let the issuer's
set and a validator's diverge; `Drift` changes the difference of their clocks.

## Runs

| Run | Distinct states | Shows |
|---|---|---|
| `as_rotation` | 43,214 | two codes, one or two users, rotation, replay, reuse, revocation, expiry |
| `as_grants` | 186,661 | all grants of a DPoP-bound rotating client and a certificate-bound one without rotation, with any scope and key |
| `dpop_replay` | 60,316 | one-time use with iat before and after the clock, through a purge and beyond, retries after a refusal, the clock ticking inside a call |
| `token_endpoint` | 418,628 | three concurrent requests against the grants, two threads before them: what survives without locks |
| `kerberos_replay` | 1,519,171 | a fast, an exact and a slow client: one-time use, no doomed request, sessions end |
| `kerberos_early_purge` | violation | a fast clock: an authenticator accepted twice |
| `ciba_delivery` | 1,692,756 | two requests, two users; decision, deadline, polls and certificates in any order |
| `webauthn_ceremonies` | 334,172 | two sessions, two users, a cloned key and a syncable passkey |
| `pushed_requests` | 322,536 | a Request Object, two request URIs, a plain and a FAPI client |
| `relying_parties` | 345,783 | an OAuth client with two sessions, three attempts, three codes; a SAML service provider with two requests, three assertions, three clock offsets |
| `api_staleness` | 2,366,557 | two tokens, three keys, an invented kid, a refresh budget of two, a cache |
| `identity_services` | 163,094 | the modules without common state, each against its reference definition |

**Bounds.** Lifetimes and windows are shrunk to one, two or three ticks and the
clock runs past the largest of them, so that every expiry is reached on both
sides of its boundary: `DPoPVerifier.cfg` ends after the last proof has gone
stale, `Kerberos.cfg` after the end of a ticket and of a second login's,
`RelyingParties.cfg` after an assertion and its leeway. `as_grants` is the exception: its properties do
not depend on time and its clock stands still, which `as_rotation` makes up for.
Identifier sets are the bound on the length of a behaviour. Three refresh tokens
allow a grant, a rotation and a second rotation, or two grants and a rotation;
the properties compare two tokens of a family, and a third is what a reuse in the
middle of a chain needs. Two codes are needed for a replay that hits another
authorization of the same user. Three threads are the smallest number with a
winner, a replay and a third party that observes. CIBA needs an interval of two
and three polls for a `slow_down` whose wait could be forgotten. WebAuthn needs
three challenges: a registration and two assertions. PAR needs two request URIs
for one Request Object to be pushed twice. `ResourceServers` needs a refresh
budget smaller than the rotations and the invented kid together. Fresh identifiers
are interchangeable, hence the symmetry sets; the run with a liveness property
uses none. The clock only moves forward: `SystemClock` could be set back by an
administrator, which no code here handles. Type invariants are stated in every
module; those of the modules that keep protocol state are theorems.

`token_endpoint` needs two assertions of different clients with one jti between them, and
a proof that both threads can present. `identity_services`: three roles are enough for a
cycle behind a cycle and for an inheritance in two ways, and permit the same, since what
the loops look at is inheritance; the relation tuples hold
a cycle of groups and a chain as long as the depth limit; of the group edges every subset
is reached, so every graph of four groups over six edges; filters are put together
from pieces of one to four tokens (`FilterPieces`) and go up to eight tokens,
which is a parenthesised disjunction inside a conjunction, or a comparison made of a
connective and two parentheses; one user drops out behind a paging client (`MaxLost`), which is
enough to pull one over the edge, and two decisions are logged (`MaxRecords`), which is enough
for two names to coincide and for one entry to outlive another; names up to four
characters, so that an escaped character has neighbours and an asterisk is met twice; memory costs
include ones that are no multiple of `4 * lanes`, and three passes wrap the window
around twice. Several properties of this and of other runs are conjunctions of named
parts, one question each (`CredentialsSound`, `FlowSound`, `AnswersAsAgreed`,
`HashesAgeWell`, ...).

**Deadlock** checking is off: every behaviour ends when its identifiers or its
clock are used up.

**Fairness.** Only `token_endpoint` states liveness (`EveryRequestEnds`). It assumes weak
fairness of `Continue(th)` for each thread: the interpreter keeps switching
between runnable threads, and no handler blocks on anything. Arrival of
requests is not assumed to be fair.

## Findings

`kerberos_early_purge`: `replay_cache` entries expire at the service's
`now + clock_skew`; an authenticator stamped in the (tolerated) future passes the
skew test for longer than that, and is accepted a second time after the purge.

Further places where the code does less than its comments suggest were met
while modelling. They have no run of their own; the passing runs delimit them.

1. Two threads pass the test of `code.used` (authorization_server.py:414) before
   either assigns it (:452), and each receives a token family. `SafeWhenSerial`
   holds for requests that do not overlap.
2. A replay, or a reuse, detected after the winner has marked the credential and
   before it has stored its tokens (a window that contains a signature): the scan
   misses them and they live on. Again `SafeWhenSerial`.
3. `_last_nonce` is shared by all sessions (client.py:134). See
   `OwnNonceAcceptedSerially`.
4. `JWKSet._refreshes` is never reset (jwks.py:291). See
   `RotationFollowedWithinBudget`.
5. Two clock readings in `verify()` (dpop.py:234 and :184): when the clock ticks between them
   a proof dated ahead is accepted a second time, single-threaded too. See `DPoPVerifier` and
   `TokenRequests`. Two threads that purge at once can abort each other (:186), after the
   client assertion was spent.
6. Refused role definitions stay, and diamonds are refused (rbac.py:59); a prohibition
   whose condition raises does not prohibit (abac.py:78); see above.
7. A PATCH that fails half-way changes a user without an event, and renames are not
   checked for uniqueness (scim.py:181). See `AccountsTraceable`.
8. POST and PUT store `active` without converting it (scim.py:133 and :156): the text "False"
   is logged as `active=False` while `is_active()` returns True. See `AccountsTraceable`.
9. docs/07_ldap_scim.md:71-73 says that unbalanced parentheses, dangling operators and unknown
   operators are all `invalidFilter`. The parser takes `userName eq (`, `userName or active` and
   `active foo true` (scim.py:305-316); an unknown operator is refused only when the predicate
   meets a text (:353), and for a boolean it means `ne` (:341). See `FilterMeansGrammar`.
10. An entry whose name ends in a space, escaped as `escape_dn` does it, is stored with a DN of
   one RDN and is below no base, so that nobody can log in to it; other white space at the
   ends of a name is stripped, so that two names can come to one entry (ldap.py:104, :162, :248).
   See `NamesMeanThemselves`.
11. `_unescape_filter_value` raises `ValueError`, which is no `LDAPError`, for a backslash that no
   hexadecimal digits follow (ldap.py:357).
12. `record()` refers to the request ids 1 and "1" by one reference (policy_comparison.py:630) and
   raises `TypeError` for a risk bucket that cannot be looked up in a set (:636).

## Proofs

The eight proof modules are checked by TLAPS without unproved leaves. The only
assumptions are the `ASSUME`s of the specifications: natural-number lifetimes,
well-formed registrations, a null that is none of the identifiers, and some that say
more. `ProofJtiFresh`: a jti belongs to the proofs of one `iat`, because a client
draws it at random for each proof. `PasswordsAssumption`: only the Argon2 settings carry a
version, no password is empty, and imported strings are of the kinds that `verify()` gives
up on. `ASAssumption` lists what the registration of a client guarantees, `JOSEAssumption`
the key types that the constructors of `jwk.py` make. `Argon2Assumption`: there are lanes and
passes, because `argon2()` refuses zero of either, and a block has more than two words.
`ScimAssumption` excludes pages without users and says that there are finitely many ids,
`DecisionLogAssumption` excludes a retention of nothing, as the code does, and
`FilterAssumption` says that filters are put together from tokens. The bounds on
clocks and counters are constants as well: the theorems hold for each value of them.

Each proof has the same three parts: the initial states satisfy an inductive invariant
(`IInv`, `LoginInv`, `SamlInv`, ...), each action preserves it (a lemma per action, and
below it a step per conjunct that the action can disturb), and it implies the property.
For the six refinements the same invariant shows that a step is one acceptance of an
unused credential, as `OneTimeUse` allows it, or leaves `uses` alone. Most inductive
invariants were invariants of a run before they were proved.

**AuthorizationServerProofs.** Fifteen actions and six invariants would make
ninety cases. Instead lemma `StepShape` classifies every step: tokens persist
(`Persists`: keys stay, histories and bindings do not change, `used` and
`revoked` are never cleared), a step mints at most one refresh and one access
token in one of three ways (`Mints`), fresh device codes are not ancestors
(`DevicesFresh`), code records keep their owner (`CodesRegistered`), and whoever
adds to `replayed` or `compromised` has revoked what it must (`Detects`). The inductive
invariant is the conjunction of `TypeOK`, `Provenance`, `OneFamilyPerGrant`,
`OneUsableRefreshToken` and the revocation facts `ReplayedRevoked` and
`CompromisedRevoked`. `Provenance` is what makes it inductive: the scans select
by client and user, so that they reach a descendant of the code only because
every descendant carries the client and the user of the code; and a new token in a dead
family would need an unrevoked parent in it. From it follow
`GrantsAreSingleUse`, `RotationIsExclusive` and `MisuseFailsClosed` (its halves are
`ReplayFailsClosed` and `ReuseFailsClosed`) for any number of clients, users, codes and tokens, any
registration and any lifetimes. On top of that invariant stand two more.
`ScopeIsBounded` needs that every code was opened with a scope its client may ask for, and
`Provenance` to carry the client from the code to the token. `ConstraintsSurvive` needs
what `StepShape` leaves out, so lemma `BindingShape` classifies the steps once more: `cnf`
and `dpop_jkt` of a stored record never change, and a new token is bound by its code or by
a token of the same grant (`Bound`). Its invariant adds that refresh tokens, too, carry the
key of their code; without it a rotation could not know what to keep.

**ResourceServerProofs, the DPoP verifier.** `TypeCorrect`; then `RetentionCoversFreshness`: an
acceptance has read a clock of at least `iat - max_age` (`CallSound`), so that its expiry is at
least `iat + max_age`, and a purge only drops what is below the clock. So a proof that was
accepted and is still fresh is in `seen` after the purge, and `VerifyAccepts` is disabled for it:
`NoReplayWhileFresh`. For the acceptances that the window has overtaken, `OvertakenIsPast`: a
proof accepted so is never read as fresh again, because the clock has passed its window, and no
call that read the clock before holds it, because calls do not overlap. `Refinement`
maps each acceptance, with its moment, to an `Accept` of `OneTimeUse` and every other step to a
stutter.

**ResourceServerProofs, the caches.** `DeadTokensDie` rests on `AnswersWereTrue`: a cached
"active" was true at `until - cache_ttl`. `RotationsFollowed` rests on `RefreshesPaid`. That
every refresh is paid for by a rotation or by an unknown kid cannot be said by counting,
because a rotation that nobody looked up costs nothing; so the invariant says that there is
some rotation `k` up to which the API knows every published key, and that no more than
`k + junk` refreshes were spent. A lookup of a published kid above `k` moves `k` to the newest.

**ResourceServerProofs, tokens.** `TokensValidated` rests on `JoseInv`: every token that was
issued is `IssuedWith` a key that fits its algorithm, whatever the issuer does with its keys
later (`TokensSound`), and the two key sets hold keys of the issuer or their public parts only
(`KeysSound`). So a signature that holds was made with the private part of one of them
(`SignerIsIssuer`): an asymmetric signature says so itself, and a MAC is taken with keys of type
`oct` only, which are nobody's public part (`MacTakesSecret`); this is what keeps a public key's
bytes from being taken for a secret. That `by_kid()` takes the first key with a kid needs
`LeastIndex`.

**ResourceServerProofs, roles.** `RolesAreExact`: both loops end with what the inheritance graph
says, for graphs of any size and any order of popping. `ClosureOf` is the least closed set of roles.
`Found` says that what a role of the result inherits is in the result or in the queue, so that
an empty queue leaves a closed set, and the closure is no larger. `Followed` says that an edge which
was followed is the only one followed to its role, and none leads to the start. A role that is popped
again shows a second edge (`TangledBy`); with an empty stack there is none (`EndIsTree`). That the
loops end is not proved.

**ResourceServerProofs, decisions.** `ProhibitionsLast` says of any sequence of policies that
those which fire among the first `n` are the first of those which fire (`FiredEarly`), and
that the bag of names counts them (`NamesGrow`), so that it cannot stay the same when one
more fires. `LogIsTraceable` rests on `LogSound`: an entry is the function `EntryFor` of the call it
was recorded by, and it is there exactly as long as no later purge was given a time at which
its retention had ended; `ReferencesApart` and `Searched` say that equal references come from
equal names of one kind.

**ResourceServerProofs, searches.** `GroupsResolveExactly` and `ChecksFindTheClosure`: a search
that prunes by its current path and by depth finds what the reference leads to within the
depth limit, and nothing else. What is found is in the reference because the depth of an entry
bounds a number of steps that lead there. The converse is the hard half: a branch that is cut
might have been the only one that was short enough. It is not, since the invariant
(`GroupInv`, `RebacInv`) speaks of shortest ways only. Some of what has been looked at is done
(`Covers`): where a search starts is done or waits at depth 0, and what a done node at distance `n` leads
to is no farther than `n`, or done, or waits at depth `n + 1` on a path of nodes that are all
nearer to the start than itself (`OnShortest`). The path test never drops such an entry,
because the node is not among nodes nearer than itself; and the depth test drops it only beyond the
limit. When nothing waits, all within the limit is done (`Covered`). For a "no" without `depth_limited`, what was visited is
closed under the edges, so it contains everything reachable. The distance is defined by
`UpTo`, a recursive function; that it unfolds (`UpToUnfolds`) is proved from scratch: finite
beginnings of it exist (`BeginningsExist`) and agree, by the least number for which they would not, as the
library's induction theorems are out of reach. Neither theorem assumes the graph or the tuples finite.

**ResourceServerProofs, filters.** `FiltersReadByRule` needs no strengthening of the
state (a filter is a sequence of tokens) but two inductions, each along a recursive
function that is first shown to unfold (`ReadingUnfolds`, `DerivedUnfolds`). `PhrasesAreRead`, along the
derivations: from wherever the parser expects a term it comes to the end of a derived phrase with
its value, whatever the levels outside. `ReadingIsSound`, along the tokens: what has been
read is derived at every open level, as a conjunction in progress behind a finished
filter and an "or" (`Expecting`, `HasRead`), possibly with a comparison begun (`InComparison`),
in as few steps as `Meanings` looks at
(`IsTerm`, `IsAnd`, `IsOr`). So a filter has one meaning at most, and one exactly if it is accepted.

**TokenEndpointProofs, the grants.** The invariant has two halves. `IndSound` holds under
any interleaving: what the local variables say at each label (`RequestsSound`), that a family
is named by the request that opened it, which has ended before a token of it exists
(`FamiliesFounded`), and that `del` of a device code lets one request through
(`DeviceRedeemedOnce`); `DeviceCodeOnce` follows. `Serially` is what the unlocked handlers keep
in addition while one request at a time is in flight: the code is unused when it is
marked, a family under rotation has no usable token until the new one is stored, and a loop
has revoked whatever it has gone past. `SerialRequestsSafe` follows; once
requests overlap it promises nothing.

**TokenEndpointProofs, before the grant.** `SpentStaysSpent`: the invariant `SpentIsSpent` for any set of
threads and requests. An entry of `seen_proofs` expires `2 * MaxAge` after the
clock reading that the recording thread compared `iat` with, so it covers `iat + MaxAge`
(`EntryCoversFreshness`). What another thread has collected for dropping
belongs to proofs that were stale when it looked (`CollectedAreStale`), however late the
drop comes. So when the jti test of a proof that was used before finds nothing, the clock
has passed the proof's last fresh second since `iat` was compared, which is the race
`SpentIsSpent` excepts. One lemma per action keeps the nine conjuncts of `RequestsInv`.

**KerberosProofs.** `RetentionCoversSkew` is the inductive form of one-time use: while a
timestamp of a punctual client would still pass, the replay cache holds it, until its last
passing moment at least. It needs `TicketsSound`: who holds a ticket is whom it names, so that
the timestamp in the cache is the one of the client's clock. `SessionsEnd` needs the same
conjunct: `end_time` never exceeds `auth_time` by more than one lifetime, through TGT and
service ticket. The theorem excepts clients whose clock is ahead; for those the run
`kerberos_early_purge` shows the counterexample.

**CIBAProofs.** `PollsSound` ties the stored interval to the history: it has grown by one
increment for each `slow_down`, which a sum over the history states as a cardinality. The
two ways of delivery, polling and pushing, are one lemma shape (`Delivered`), and
`DeliveriesSound` makes it the first delivery of its request.

**WebAuthnProofs.** `ChallengesSound`: a challenge waits in one session and has completed
nothing. `CountersRecorded` says that the stored counter is the last accepted one, without
which `CountersIncrease` is not inductive, and `PasskeysStayAtZero` that a syncable passkey
keeps 0 on both sides.

**PushedRequestsProofs.** `RequestsSound` carries what JAR has checked through PAR: the
object behind a request URI is spent, of the same client, valid by now, and stored under
one URI only. The deadline of `FlowSound` is the sum that follows from it.

**SignInProofs.** `LoginsAreOwn`: `OwnCode` says that a token response is there only for a
code of the attempt, since the verifier of another attempt does not fit; `NonceOfTheOne`
gives `OwnNonceAccepted`. `PromptResponses` is arithmetic over `TimesOfIssue`, the times as
the identity provider's clock stamped them, and over `ConsumedAnswered`: what is remembered
answers no pending request, so no first response is taken for a replay. `HashesAge`: every
stored string is `OwnHash` of the chosen password with some settings, or imported
(`HashesSound`); `ParseEncode` says that `parse_hash` reads back what `encode` wrote, and
`WorkOfOwn` that `verify` derives with the settings of the hash.
`FactorsAreSpent`: the action property `FactorsSpentByUse`
for every code function, collisions included, every window and every list of recovery codes,
repetitions included. Two facts are inductive: `last_step` bounds every step that let
the user in, and the logins by a recovery code are the burned slots that match it.
The two loops of the code are a `CHOOSE` of the least match, so the proof rests on the
least-member lemma `LeastExists`; `BurnBurnsOne` and `CountsAfterBurn` say that a login burns
exactly one slot.

**SignInProofs, the directory.** `AccountsTraceable` is inductive together with
`DirectorySound`: every user has a place of his own and one last event. PATCH operations stay
opaque; what counts is whether the patched user is reported. `PagingMissesNobody` rests on
`WalkSound`: of those expected and standing before `start_index`, no more are unlisted than
`lost` counts (`Missed`). An index is the number of users who match up to one's own place, so
that the slice is an interval of indices (`IndexDense`, `IndexCount`). A user who comes into
the list pushes others away from the pages read; one who leaves it moves those behind him by one
(`IndexWithout`), so at most one of them crosses `start_index`, and then he himself stood before
it, which `FollowedKeeps` says for every edit at once.

**SignInProofs, Argon2.** `BlocksFilled`: `MemorySound` gives for each block the slice, counted
over all passes, in which it was filled last, from the loop counters alone, without any history.
The window that `argon2()` computes is a prefix of the order of filling (`Rank`), so that its
size follows from a bijection with an interval, and `j1` picks a rank in it. That no two blocks
share an address (`AddressesSound`) is the uniqueness of quotient and remainder: the counter and
the place in the address block are the two digits of the block's number. Nothing is said of what
the compression function returns.

**Only model-checked.** Liveness (`EveryRequestEnds`), which the prover does not handle, and
two invariants: `ComparisonExact`, which runs the searches to their end inside
a state predicate (each is proved by itself, as a loop, but a loop that is run by a
recursive operator cannot be taken up in a proof), and `NamesMeanThemselves`,
whose parsers are recursive operators and whose correctness is an induction over the text.

**What the proofs changed.** The branches of `RevokeOne` in `ThreadedTokenEndpoint` were a
`CASE` with guards that overlapped. TLC takes the first one that holds, the language any;
the proof attempt failed on the difference, and the branches now exclude each other. The loops
of `RBAC`, of `resolve_group()` and of `check()` and `expand()` were recursive operators, which hid
their local variables from an invariant; now they are actions, of which `RolesExact`,
`GroupResolutionExact` and `CheckIsClosure` state what holds when they return. With that the order of the
search became a choice of the model, as the code's sets have no order. The parser of `ScimFilters`
was a recursive operator too; as a sequence of turns its stack can be spoken of.

## Not modelled

- `crypto/`, and the hash functions everywhere: number theory and bytes. A signature,
  digest or ciphertext is who made it and from what.
- `saml/c14n.py`, `saml/signature.py`, `webauthn/cose.py`: serialisation of unbounded
  trees and byte layouts, without state. What they vouch for is an input of `SAML` and `WebAuthn`.
- `mtls/tls.py` and HTTP parsing: sockets. The thumbprint is an input.
- `oauth/rar.py`, ID token contents, server metadata, FAPI message signatures: shapes and
  wording without state; a request either passes them or not.
- SCIM groups: stored, and never read or changed by the code.
- Scripts, labs and their output.

## Plan

The state-keeping parts of the library are modelled, and the properties of those with a
protocol are proved. What is left is proof: `NamesMeanThemselves`, with LDAP's
parsers turn by turn as that of `ScimFilters` is now.

## Checking

    tlc -config ASRotation.cfg AuthorizationServerMC
    tlapm AuthorizationServerProofs.tla
