-------------------------------- MODULE JOSE --------------------------------
(***************************************************************************)
(* authlab/jose : an issuer that signs JWTs and publishes its keys, and a  *)
(* validator that has loaded a published key set.                          *)
(*                                                                         *)
(* A signature is the record of the key it was made with, of the algorithm *)
(* and of the signing input. Everybody can make signatures with keys of    *)
(* their own, and MACs with the bytes of a published key as the secret.    *)
(* (ResourceServers models a key set that is refreshed.)                   *)
(***************************************************************************)
EXTENDS Integers, Sequences, FiniteSets

CONSTANTS
  Nothing,         \* an absent kid, nbf, nonce or secret
  SigningKey,      \* the issuer's keys
  KeyType,         \* key -> [kty, crv]; crv is "" for RSA and oct
  KidArgument,     \* explicit kid arguments
  AllowedSets,     \* allowed_algorithms arguments
  TokenLifetimes,  \* lifetime arguments
  TokenLeeway,     \* JWTValidator.leeway
  Skews,           \* the validator's clock minus the issuer's
  MaxKeys, MaxIssued, MaxClock  \* bounds

ASSUME JOSEAssumption ==
  /\ \A k \in SigningKey :
       /\ KeyType[k] \in [kty : {"RSA", "EC", "OKP", "oct"},
                           crv : {"", "P-256", "P-384", "P-521", "Ed25519"}]
       /\ KeyType[k].kty = "OKP" => KeyType[k].crv = "Ed25519"
  /\ "own key" \notin SigningKey /\ Nothing \notin SigningKey
  /\ TokenLifetimes \subseteq Nat
  /\ TokenLeeway \in Nat
  /\ Skews \subseteq Int
  /\ MaxClock \in Nat

VARIABLES
  issuer_keys,     \* the issuer's JWKSet.keys, a sequence
  loaded,          \* the validator's JWKSet.keys
  jwts,            \* every token issued
  clock,           \* the issuer's clock
  skew             \* how far the validator's clock is ahead

joseVars == <<issuer_keys, loaded, jwts, clock, skew>>

JoseInit ==
  /\ issuer_keys = <<>>
  /\ loaded = <<>>
  /\ jwts = {}
  /\ clock = 0
  /\ skew = 0

----------------------------------------------------------------------------
(* jws.py: algorithms                                                      *)

Algo(kind, curve) == [kind |-> kind, curve |-> curve]

\* "Note what is deliberately absent: none"
ALGORITHMS ==
  [HS256 |-> Algo("HMAC", ""), RS256 |-> Algo("RSA", ""), ES256 |-> Algo("ECDSA", "P-256"),
   ES384 |-> Algo("ECDSA", "P-384"), EdDSA |-> Algo("EdDSA", "")]

\* The kty whose key_material() an algorithm takes; everything else raises.
RequiredType == [HMAC |-> "oct", RSA |-> "RSA", ECDSA |-> "EC", EdDSA |-> "OKP"]

\* Mutant: the type of the key is not looked at.
KeyFitsAny(alg, type) ==
  ALGORITHMS[alg].curve # "" => type.crv = ALGORITHMS[alg].curve

\* The isinstance tests of Algorithm.sign and verify, with _require_curve
KeyFits(alg, type) ==
  /\ type.kty = RequiredType[ALGORITHMS[alg].kind]
  /\ ALGORITHMS[alg].curve # "" => type.crv = ALGORITHMS[alg].curve

\* What a signature is made with: the private part of a key, or the bytes of a public one
Private(k) == <<"private", k>>
PublicBytes(k) == <<"public bytes", k>>

\* An empty third segment
NoSignature == [alg |-> "none", key |-> Nothing, over |-> Nothing]

SigningInput(token) == <<token.alg, token.kid, token.typ, token.nominates, token.claims>>

\* JWS.sign
Signed(token, made_with) ==
  [token EXCEPT !.signature = [alg |-> token.alg, key |-> made_with, over |-> SigningInput(token)]]

\* Algorithm.verify
SignatureHolds(alg, jwk, token) ==
  /\ KeyFits(alg, [kty |-> jwk.kty, crv |-> jwk.crv])
  /\ token.signature =
       [alg |-> alg, over |-> SigningInput(token),
        key |-> IF ALGORITHMS[alg].kind = "HMAC" /\ jwk.kty # "oct"
                THEN PublicBytes(jwk.key) ELSE Private(jwk.key)]

----------------------------------------------------------------------------
(* jwks.py                                                                 *)

\* JWK.from_rsa_private and its like; a key without a kid is named by its thumbprint,
\* which covers the public members only.
Jwk(k, kid) ==
  [kty |-> KeyType[k].kty, crv |-> KeyType[k].crv, key |-> k, secret |-> TRUE,
   kid |-> IF kid = Nothing THEN <<"thumbprint", k>> ELSE <<"kid", kid>>]

\* JWK.public: for an oct key nothing is left.
Public(jwk) == [jwk EXCEPT !.secret = FALSE, !.key = IF jwk.kty = "oct" THEN Nothing ELSE @]

\* key_material: raises for a curve that cannot sign and for an oct key without k
HasMaterial(jwk) ==
  /\ jwk.kty = "OKP" => jwk.crv = "Ed25519"
  /\ jwk.kty = "oct" => jwk.key # Nothing

\* by_kid, without a refresh
by_kid(keys, kid) ==
  LET Found == {i \in DOMAIN keys : keys[i].kid = kid}
  IN  IF kid = Nothing THEN (IF Len(keys) = 1 THEN {keys[1]} ELSE {})
      ELSE {keys[i] : i \in {i \in Found : \A j \in Found : i <= j}}

----------------------------------------------------------------------------
(* JWS.verify and JWTValidator.validate                                    *)

VerifyJWS(token, allowed) ==
  /\ ~token.nominates
  /\ token.alg \in allowed
  /\ token.alg \in DOMAIN ALGORITHMS
  /\ token.signature # NoSignature
  /\ \E jwk \in by_kid(loaded, token.kid) :
       HasMaterial(jwk) /\ SignatureHolds(token.alg, jwk, token)

\* Mutant: the leeway is taken off at the end as well.
TimelyStrict(claims, now) ==
  /\ now <= claims.exp - TokenLeeway
  /\ claims.nbf # Nothing => now + TokenLeeway >= claims.nbf
  /\ claims.iat <= now + TokenLeeway

Timely(claims, now) ==
  /\ now <= claims.exp + TokenLeeway
  /\ claims.nbf # Nothing => now + TokenLeeway >= claims.nbf
  /\ claims.iat <= now + TokenLeeway

Validate(token, allowed, audience, nonce) ==
  /\ VerifyJWS(token, allowed)
  /\ token.typ = "at+jwt"
  /\ token.claims.iss = "issuer"
  /\ audience \in token.claims.aud
  /\ Timely(token.claims, clock + skew)
  /\ nonce # Nothing => token.claims.nonce = nonce

----------------------------------------------------------------------------
(* The issuer and the validator                                            *)

\* JWKSet.add; from_secret asks for a kid.
AddKey(k, kid) ==
  /\ Len(issuer_keys) < MaxKeys
  /\ KeyType[k].kty = "oct" => kid # Nothing
  /\ issuer_keys' = Append(issuer_keys, Jwk(k, kid))
  /\ UNCHANGED <<loaded, jwts, clock, skew>>

\* public_set() at the one end, from_json() at the other
Load ==
  /\ loaded' = [i \in DOMAIN issuer_keys |-> Public(issuer_keys[i])]
  /\ UNCHANGED <<issuer_keys, jwts, clock, skew>>

\* A validator inside the issuer, or one that shares its secrets, has the keys themselves.
LoadPrivate ==
  /\ loaded' = issuer_keys
  /\ UNCHANGED <<issuer_keys, jwts, clock, skew>>

Unsigned(alg, kid, typ, claims) ==
  [alg |-> alg, kid |-> kid, typ |-> typ, nominates |-> FALSE, claims |-> claims,
   signature |-> NoSignature]

\* JWT.issue
Issue(jwk, alg, named, lifetime, not_before, nonce) ==
  LET claims == [iss |-> "issuer", aud |-> {"api"}, iat |-> clock, exp |-> clock + lifetime,
                 nbf |-> not_before, nonce |-> nonce]
      kid    == IF named THEN jwk.kid ELSE Nothing
  IN  /\ Cardinality(jwts) < MaxIssued
      /\ KeyFits(alg, [kty |-> jwk.kty, crv |-> jwk.crv])
      /\ jwts' = jwts \cup {Signed(Unsigned(alg, kid, "at+jwt", claims), Private(jwk.key))}
      /\ UNCHANGED <<issuer_keys, loaded, clock, skew>>

Elapse ==
  /\ clock < MaxClock
  /\ clock' = clock + 1
  /\ UNCHANGED <<issuer_keys, loaded, jwts, skew>>

Drift ==
  /\ skew' \in Skews
  /\ UNCHANGED <<issuer_keys, loaded, jwts, clock>>

JoseNext ==
  \/ \E k \in SigningKey, kid \in KidArgument \cup {Nothing} : AddKey(k, kid)
  \/ \E i \in DOMAIN issuer_keys, alg \in DOMAIN ALGORITHMS, named \in BOOLEAN,
        lifetime \in TokenLifetimes, not_before \in {Nothing, clock + 1}, nonce \in {Nothing, "n"} :
       Issue(issuer_keys[i], alg, named, lifetime, not_before, nonce)
  \/ Load
  \/ LoadPrivate
  \/ Elapse
  \/ Drift

----------------------------------------------------------------------------
(* Properties                                                              *)

\* Tokens that the issuer has not issued: its own with another header or other claims,
\* and tokens with its claims that are signed with the bytes of a public key, with a key
\* of somebody else, or not at all.
Longer(claims) == [claims EXCEPT !.exp = @ + 9]
Stretched(t, alg, kid) == [t EXCEPT !.alg = alg, !.kid = kid, !.claims = Longer(@)]
KidsInUse == {issuer_keys[i].kid : i \in DOMAIN issuer_keys} \cup {Nothing}
Altered ==
  {Stretched(t, alg, kid) : t \in jwts, alg \in DOMAIN ALGORITHMS \cup {"none"}, kid \in KidsInUse}
OthersClaims == [iss |-> "issuer", aud |-> {"api"}, iat |-> clock, exp |-> MaxClock + 9,
                 nbf |-> Nothing, nonce |-> "n"]
Blank ==
  {[Unsigned(alg, kid, "at+jwt", OthersClaims) EXCEPT !.nominates = nominates] :
     nominates \in BOOLEAN, alg \in DOMAIN ALGORITHMS \cup {"none"}, kid \in KidsInUse}
OthersKeys == {PublicBytes(issuer_keys[i].key) : i \in DOMAIN issuer_keys} \cup {Private("own key")}
SelfMade == Blank \cup {Signed(t, made_with) : t \in Blank, made_with \in OthersKeys}

\* Key confusion is impossible: whatever algorithms a validator allows, keyed and unkeyed
\* side by side, and whichever keys have the same kid, it accepts nothing that the issuer
\* has not signed with a private key.
NothingForgedAccepted ==
  \A token \in Altered \cup SelfMade, allowed \in AllowedSets, nonce \in {Nothing, "n"} :
    ~Validate(token, allowed, "api", nonce)

\* Issuing and validating fit together: a token is accepted from its iat or nbf to its exp
\* by every validator that has loaded the public key meanwhile, under clocks that differ by
\* the leeway, if its kid names one key or the set has only one.
OwnTokenAccepted ==
  \A token \in jwts, allowed \in AllowedSets, i \in DOMAIN loaded :
    /\ token.signature.key = Private(loaded[i].key)
    /\ token.alg \in allowed
    /\ IF token.kid = Nothing THEN Len(loaded) = 1
       ELSE {loaded[j] : j \in {j \in DOMAIN loaded : loaded[j].kid = token.kid}} = {loaded[i]}
    /\ skew \in -TokenLeeway..TokenLeeway
    /\ clock <= token.claims.exp
    /\ token.claims.nbf # Nothing => clock >= token.claims.nbf
    => Validate(token, allowed, "api", token.claims.nonce)

\* A validator accepts the issuer's tokens and no others.
ValidationExact == NothingForgedAccepted /\ OwnTokenAccepted
============================================================================
