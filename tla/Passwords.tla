----------------------------- MODULE Passwords -----------------------------
(***************************************************************************)
(* authlab/passwords/hasher.py : hashes that carry their own parameters,   *)
(* verified and replaced while the settings, the pepper and the available  *)
(* Argon2 backend change.                                                  *)
(*                                                                         *)
(* A key derivation is injective here: a digest is the record of what it   *)
(* was derived from. A stored string is the sequence of the fields between *)
(* its dollar signs. The caller follows the module's docstring: it hashes  *)
(* again after a successful login when needs_rehash() asks for it.         *)
(***************************************************************************)
EXTENDS Integers, Sequences, FiniteSets

CONSTANTS
  Account,        \* users
  Spelling,       \* passwords as they are typed
  Nfkc,           \* unicodedata.normalize : Spelling -> passwords
  Settings,       \* ScryptParams, Pbkdf2Params and Argon2Params in use over the years
  DefaultParams,  \* the member of Settings that PasswordHasher() takes
  Pepper,         \* peppers; "" for none
  Foreign,        \* strings of other systems that are imported as hashes
  TeachingMax,    \* TEACHING_MAX_MEMORY_KIB
  Argon2Version   \* argon2.VERSION

VARIABLES
  stored,         \* account -> the encoded hash
  hasher,         \* PasswordHasher: [params, pepper]
  backend,        \* ARGON2_BACKEND of the running process
  chosen          \* history: account -> [password, pepper] of its last hash, "" if imported

passwordVars == <<stored, hasher, backend, chosen>>

PasswordInit ==
  /\ stored = <<>>
  /\ hasher = [params |-> DefaultParams, pepper |-> ""]
  /\ backend = "pure"
  /\ chosen = <<>>

Assigned(f, key, value) == [k \in DOMAIN f \cup {key} |-> IF k = key THEN value ELSE f[k]]

----------------------------------------------------------------------------
(* Parameters and derivation                                               *)

Argon2Variant == {"argon2id", "argon2i", "argon2d"}

\* derive(): raises where FALSE. The binding runs every version; the pure
\* implementation one version, and little memory.
Derivable(params) ==
  params.name \in Argon2Variant /\ backend = "pure" =>
    params.version = Argon2Version /\ params.cost.m <= TeachingMax

Derive(params, prepared, salt) == [of |-> prepared, with |-> params, salt |-> salt]

\* _prepare
Prepare(typed) == <<Nfkc[typed], hasher.pepper>>

Field(kind, value) == [kind |-> kind, value |-> value]

\* PasswordHash.encode, after params.encode(): the length of the digest is not written.
Encode(params, salt, digest) ==
  LET algorithm == Field("algorithm", params.name)
      version   == Field("v", params.version)
      cost      == Field("params", params.cost)
  IN  IF params.version = 0
      THEN <<algorithm, cost, Field("salt", salt), Field("digest", digest)>>
      ELSE <<algorithm, version, cost, Field("salt", salt), Field("digest", digest)>>

\* parse_hash; ok is FALSE where it raises
parse_hash(encoded) ==
  LET versioned == Len(encoded) = 5 /\ encoded[2].kind = "v"
      Read(version, i) ==
        [ok |-> TRUE, algorithm |-> encoded[1].value, version |-> version,
         params |-> encoded[i].value, salt |-> encoded[i + 1].value, digest |-> encoded[i + 2].value]
  IN  IF versioned /\ encoded[1].value \in Argon2Variant THEN Read(encoded[2].value, 3)
      ELSE IF ~versioned /\ Len(encoded) = 4 THEN Read(0, 2)
      ELSE [ok |-> FALSE]

\* _params_from_encoded: an Argon2 hash must have a version; verify() takes the
\* length from the digest.
ParamsKnown(parsed) ==
  \/ parsed.algorithm \in {"scrypt", "pbkdf2"}
  \/ parsed.algorithm \in Argon2Variant /\ parsed.version # 0

ParamsOf(parsed) ==
  [name |-> parsed.algorithm, cost |-> parsed.params, version |-> parsed.version,
   dklen |-> parsed.digest.with.dklen]

----------------------------------------------------------------------------
(* PasswordHasher                                                          *)

hash(typed) ==
  Encode(hasher.params, "salt", Derive(hasher.params, Prepare(typed), "salt"))

\* The parameters with which verify() derives, {} where it gives up before
Work(encoded) ==
  LET parsed == parse_hash(encoded)
  IN  IF parsed.ok /\ ParamsKnown(parsed) THEN {ParamsOf(parsed)} ELSE {}

\* Only the Argon2 settings have a version, and "" is no password. Foreign strings are
\* those that verify() gives up on: what it can derive is a hash of this hasher.
ASSUME PasswordsAssumption ==
  /\ DefaultParams \in Settings
  /\ \A p \in Settings :
       /\ p = [name |-> p.name, cost |-> p.cost, version |-> p.version, dklen |-> p.dklen]
       /\ \/ p.name \in {"scrypt", "pbkdf2"} /\ p.version = 0
          \/ p.name \in Argon2Variant /\ p.version # 0
  /\ \A typed \in Spelling : Nfkc[typed] # ""
  /\ \A encoded \in Foreign : Work(encoded) = {}

\* Mutant: the cost is the one of today.
verify_today(typed, encoded) ==
  LET parsed == parse_hash(encoded)
  IN  \E params \in Work(encoded) :
        /\ Derivable(hasher.params)
        /\ Derive(hasher.params, Prepare(typed), parsed.salt) = parsed.digest

verify(typed, encoded) ==
  LET parsed == parse_hash(encoded)
  IN  \E params \in Work(encoded) :
        /\ Derivable(params)
        /\ Derive(params, Prepare(typed), parsed.salt) = parsed.digest

needs_rehash(encoded) ==
  LET parsed == parse_hash(encoded)
  IN  \/ ~parsed.ok
      \/ parsed.algorithm # hasher.params.name
      \/ parsed.version # hasher.params.version
      \/ parsed.params # hasher.params.cost

\* fake_verify derives from a dummy of this hasher's settings; the salt and the digest
\* are zeros.
dummy ==
  Encode(hasher.params, "zeros", Derive(hasher.params, <<"zeros", "">>, "zeros"))

----------------------------------------------------------------------------
(* The years                                                               *)

Store(account, typed) ==
  /\ Derivable(hasher.params)
  /\ stored' = Assigned(stored, account, hash(typed))
  /\ chosen' = Assigned(chosen, account, [password |-> Nfkc[typed], pepper |-> hasher.pepper])
  /\ UNCHANGED <<hasher, backend>>

\* A new account, or a changed password
SetPassword(account, typed) == Store(account, typed)

\* A login that succeeds, and hashes again
Login(account, typed) ==
  /\ account \in DOMAIN stored
  /\ verify(typed, stored[account])
  /\ needs_rehash(stored[account])
  /\ Store(account, typed)

Import(account, encoded) ==
  /\ stored' = Assigned(stored, account, encoded)
  /\ chosen' = Assigned(chosen, account, [password |-> "", pepper |-> ""])
  /\ UNCHANGED <<hasher, backend>>

\* PasswordHasher.__init__, at the next start
Configure(params, pepper, installed) ==
  /\ hasher' = [params |-> params, pepper |-> pepper]
  /\ backend' = installed
  /\ UNCHANGED <<stored, chosen>>

PasswordNext ==
  \/ \E account \in Account, typed \in Spelling : SetPassword(account, typed) \/ Login(account, typed)
  \/ \E account \in Account, encoded \in Foreign : Import(account, encoded)
  \/ \E params \in Settings, pepper \in Pepper, installed \in {"cffi", "pure"} :
       Configure(params, pepper, installed)

----------------------------------------------------------------------------
(* Properties                                                              *)

\* The settings a hash was written with
WrittenWith(account) == CHOOSE p \in Settings : Work(stored[account]) = {p}

\* "One hasher verifies hashes written years ago at other settings": through any sequence
\* of changed settings and upgrades a login succeeds with the chosen password, in any
\* spelling, and with no other, as long as the pepper is the one it was hashed with and the
\* old settings can still be run. An upgrade leaves a hash that is good and needs no further
\* one.
LoginsSurviveUpgrades ==
  \A account \in DOMAIN stored, typed \in Spelling :
    /\ verify(typed, stored[account]) <=>
         /\ chosen[account] = [password |-> Nfkc[typed], pepper |-> hasher.pepper]
         /\ Derivable(WrittenWith(account))
    /\ verify(typed, stored[account]) /\ Derivable(hasher.params) =>
         verify(typed, hash(typed)) /\ ~needs_rehash(hash(typed))

\* "The dummy must use this hasher's algorithm and cost": a login of an unknown user costs
\* what a login of a known one does, once the hash of the known one needs no upgrade and
\* has a digest of the present length (which needs_rehash() does not look at).
UnknownUserCostsTheSame ==
  \A account \in DOMAIN stored :
    ~needs_rehash(stored[account]) /\ WrittenWith(account).dklen = hasher.params.dklen
      => Work(dummy) = Work(stored[account])

\* Hashes age well: old ones verify, and new settings do not tell known users from unknown.
HashesAgeWell == LoginsSurviveUpgrades /\ UnknownUserCostsTheSame
============================================================================
