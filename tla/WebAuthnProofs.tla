-------------------------- MODULE WebAuthnProofs --------------------------
(***************************************************************************)
(* For every set of sessions, users and authenticators and every lifetime  *)
(* of a challenge: a challenge completes one ceremony, a credential id has *)
(* one owner, and the counters accepted for it tell a clone.               *)
(***************************************************************************)
EXTENDS WebAuthn, TLAPS

\* A challenge waits in one session, for the one ceremony it can complete.
ChallengesSound ==
  /\ \A s \in DOMAIN pending :
       /\ pending[s].challenge \in issued
       /\ successes[pending[s].challenge] = 0
       /\ \A t \in DOMAIN pending : pending[t].challenge = pending[s].challenge => t = s
  /\ \A ch \in Challenge : ch \notin issued => successes[ch] = 0

\* The relying party's counter is the last one it accepted.
CountersRecorded ==
  \A id \in Key :
    /\ (\A c \in credentials : c.credential_id # id) => accepted[id] = <<>>
    /\ \A c \in credentials :
         c.credential_id = id /\ accepted[id] # <<>> => c.sign_count = accepted[id][Len(accepted[id])]

\* A syncable passkey signs 0, so that its record stays at 0.
PasskeysStayAtZero ==
  /\ \A a \in assertions : a.key \in Synced => a.sign_count = 0
  /\ \A c \in credentials : c.public_key \in Synced /\ c.registered_with = 0 => c.sign_count = 0

IInv ==
  /\ TypeOK
  /\ ChallengesSound
  /\ CredentialIdOwnedOnce
  /\ CountersRecorded
  /\ CountersIncrease
  /\ PasskeysStayAtZero

\* The challenge that verify_registration or verify_authentication takes is
\* completed for the first time, and no session waits for it any more.
LEMMA CompletedOnce ==
  ASSUME TypeOK, ChallengesSound, NEW s \in DOMAIN pending, NEW ch \in Challenge,
         pending[s].challenge = ch, ChallengeTaken(s),
         successes' = [successes EXCEPT ![ch] = @ + 1], issued' = issued
  PROVE  successes[ch] = 0 /\ successes' = [successes EXCEPT ![ch] = 1] /\ ChallengesSound'
<1>1. successes[ch] = 0 /\ ch \in issued
  BY DEF ChallengesSound
<1>2. successes' = [successes EXCEPT ![ch] = 1]
  BY <1>1
<1>3. DOMAIN pending' = DOMAIN pending \ {s} /\ \A t \in DOMAIN pending' : pending'[t] = pending[t]
  BY DEF ChallengeTaken
<1>4. \A t \in DOMAIN pending' : pending[t].challenge # ch
  BY <1>3 DEF ChallengesSound
<1>5. \A t \in DOMAIN pending : pending[t].challenge \in Challenge
  BY DEF TypeOK, Pending
<1>6. \A c \in Challenge : c # ch => successes'[c] = successes[c]
  BY <1>2 DEF TypeOK
<1>7. \A t \in DOMAIN pending' : successes'[pending'[t].challenge] = 0
  BY <1>3, <1>4, <1>5, <1>6 DEF ChallengesSound
<1>8. \A c \in Challenge : c \notin issued' => successes'[c] = 0
  BY <1>1, <1>6 DEF ChallengesSound
<1>9. \A t, r \in DOMAIN pending' :
        pending'[t].challenge \in issued' /\ (pending'[r].challenge = pending'[t].challenge => r = t)
  BY <1>3 DEF ChallengesSound
<1>. QED BY <1>1, <1>2, <1>7, <1>8, <1>9 DEF ChallengesSound

LEMMA TypeStep == TypeOK /\ [Next]_vars => TypeOK'
<1>. SUFFICES ASSUME TypeOK, [Next]_vars PROVE TypeOK'
  OBVIOUS
<1>. USE WebAuthnAssumption
<1>1. ASSUME NEW s \in Session, NEW ceremony \in Ceremony, NEW ch \in Challenge, Options(s, ceremony, ch)
      PROVE  TypeOK'
  <2>1. [challenge |-> ch, issued_at |-> now, ceremony |-> ceremony] \in Pending
    BY DEF Pending, TypeOK
  <2>2. DOMAIN pending' = DOMAIN pending \cup {s} /\ pending' \in [DOMAIN pending' -> Pending]
    BY <1>1, <2>1 DEF Options, TypeOK
  <2>. QED BY <1>1, <2>2 DEF Options, TypeOK
<1>2. ASSUME NEW s \in Session, CeremonyFails(s) PROVE TypeOK'
  BY <1>2 DEF CeremonyFails, ChallengeTaken, TypeOK
<1>3. ASSUME NEW s \in Session, NEW u \in User, NEW id \in Key, NEW k \in Key, NEW count \in InitialCount,
             VerifyRegistration(s, u, id, k, count)
      PROVE  TypeOK'
  <2>1. [credential_id |-> id, public_key |-> k, user_handle |-> u, sign_count |-> count,
         registered_with |-> count] \in RegisteredCredential
    BY DEF RegisteredCredential
  <2>2. pending[s].challenge \in Challenge
    BY <1>3 DEF VerifyRegistration, TypeOK, Pending
  <2>3. successes' \in [Challenge -> Nat]
    BY <1>3, <2>2 DEF VerifyRegistration, TypeOK
  <2>. QED BY <1>3, <2>1, <2>3 DEF VerifyRegistration, ChallengeTaken, TypeOK
<1>4. ASSUME NEW k \in Key, NEW copy \in Copy, NEW ch \in Challenge, GetAssertion(k, copy, ch)
      PROVE  TypeOK'
  <2>1. CASE k \in Synced
    BY <1>4, <2>1 DEF GetAssertion, TypeOK, Assertion
  <2>2. CASE k \notin Synced
    <3>1. counter[<<k, copy>>] \in Nat
      BY DEF TypeOK
    <3>2. counter' \in [Key \X Copy -> Nat]
      <4>1. counter' = [counter EXCEPT ![<<k, copy>>] = @ + 1] /\ <<k, copy>> \in Key \X Copy
        BY <1>4, <2>2 DEF GetAssertion
      <4>2. counter \in [Key \X Copy -> Nat]
        BY DEF TypeOK
      <4>. QED BY <3>1, <4>1, <4>2
    <3>3. counter'[<<k, copy>>] \in Nat
      BY <3>2
    <3>. QED BY <1>4, <2>2, <3>2, <3>3 DEF GetAssertion, TypeOK, Assertion
  <2>. QED BY <2>1, <2>2
<1>5. ASSUME NEW k \in Key, Clone(k) PROVE TypeOK'
  <2>1. counter[<<k, "original">>] \in Nat
    BY DEF TypeOK, Copy
  <2>2. counter' \in [Key \X Copy -> Nat]
    BY <1>5, <2>1 DEF Clone, TypeOK
  <2>. QED BY <1>5, <2>2 DEF Clone, TypeOK
<1>6. ASSUME NEW s \in Session, NEW a \in assertions, NEW c \in credentials, VerifyAuthentication(s, a, c)
      PROVE  TypeOK'
  <2>1. a \in Assertion /\ c \in RegisteredCredential
    BY DEF TypeOK
  <2>2. a.sign_count \in Nat /\ a.challenge \in Challenge /\ c.credential_id \in Key
    BY <2>1 DEF Assertion, RegisteredCredential
  <2>3. Updated(c, a.sign_count) \in RegisteredCredential
    BY <2>1, <2>2 DEF Updated, RegisteredCredential
  <2>4. accepted' \in [Key -> Seq(Nat)]
    BY <1>6, <2>2 DEF VerifyAuthentication, TypeOK
  <2>5. successes' \in [Challenge -> Nat]
    BY <1>6, <2>2 DEF VerifyAuthentication, TypeOK
  <2>. QED BY <1>6, <2>3, <2>4, <2>5 DEF VerifyAuthentication, ChallengeTaken, TypeOK
<1>7. CASE Tick
  BY <1>7 DEF Tick, TypeOK
<1>8. CASE UNCHANGED vars
  BY <1>8 DEF vars, TypeOK
<1>. QED BY <1>1, <1>2, <1>3, <1>4, <1>5, <1>6, <1>7, <1>8 DEF Next

\* What a successful ceremony does with its challenge.
LEMMA RegistrationCompletes ==
  ASSUME TypeOK, ChallengesSound, NEW s, NEW u, NEW id, NEW k, NEW count, VerifyRegistration(s, u, id, k, count)
  PROVE  /\ pending[s].challenge \in Challenge /\ successes[pending[s].challenge] = 0
         /\ successes' = [successes EXCEPT ![pending[s].challenge] = 1]
         /\ ChallengesSound'
<1>1. s \in DOMAIN pending /\ pending[s].challenge \in Challenge
  BY DEF VerifyRegistration, TypeOK, Pending
<1>2. /\ ChallengeTaken(s) /\ issued' = issued
      /\ successes' = [successes EXCEPT ![pending[s].challenge] = @ + 1]
  BY DEF VerifyRegistration
<1>. QED BY <1>1, <1>2, CompletedOnce

LEMMA AuthenticationCompletes ==
  ASSUME TypeOK, ChallengesSound, NEW s, NEW a \in assertions, NEW c, VerifyAuthentication(s, a, c)
  PROVE  /\ a.challenge \in Challenge /\ successes[a.challenge] = 0
         /\ successes' = [successes EXCEPT ![a.challenge] = 1]
         /\ ChallengesSound'
<1>1. s \in DOMAIN pending /\ pending[s].challenge = a.challenge /\ a.challenge \in Challenge
  BY DEF VerifyAuthentication, Taken, TypeOK, Assertion
<1>2. /\ ChallengeTaken(s) /\ issued' = issued
      /\ successes' = [successes EXCEPT ![a.challenge] = @ + 1]
  BY DEF VerifyAuthentication
<1>. QED BY <1>1, <1>2, CompletedOnce

LEMMA ChallengesStep == TypeOK /\ ChallengesSound /\ [Next]_vars => ChallengesSound'
<1>. SUFFICES ASSUME TypeOK, ChallengesSound, [Next]_vars PROVE ChallengesSound'
  OBVIOUS
<1>1. ASSUME NEW s \in Session, NEW ceremony \in Ceremony, NEW ch \in Challenge, Options(s, ceremony, ch)
      PROVE  ChallengesSound'
  <2>1. /\ ch \notin issued /\ issued' = issued \cup {ch} /\ successes' = successes
        /\ DOMAIN pending' = DOMAIN pending \cup {s}
        /\ pending'[s].challenge = ch
        /\ \A t \in DOMAIN pending : t # s => pending'[t] = pending[t]
    BY <1>1 DEF Options
  <2>2. \A t \in DOMAIN pending : pending[t].challenge # ch
    BY <2>1 DEF ChallengesSound
  <2>3. successes[ch] = 0
    BY <2>1 DEF ChallengesSound
  <2>. QED BY <2>1, <2>2, <2>3 DEF ChallengesSound
<1>2. ASSUME NEW s \in Session, CeremonyFails(s) PROVE ChallengesSound'
  <2>1. UNCHANGED <<issued, successes>>
    BY <1>2 DEF CeremonyFails
  <2>2. DOMAIN pending' \subseteq DOMAIN pending /\ \A t \in DOMAIN pending' : pending'[t] = pending[t]
    BY <1>2 DEF CeremonyFails, ChallengeTaken
  <2>. QED BY <2>1, <2>2 DEF ChallengesSound
<1>3. ASSUME NEW s \in Session, NEW u \in User, NEW id \in Key, NEW k \in Key, NEW count \in InitialCount,
             VerifyRegistration(s, u, id, k, count)
      PROVE  ChallengesSound'
  BY <1>3, RegistrationCompletes
<1>4. ASSUME NEW s \in Session, NEW a \in assertions, NEW c \in credentials, VerifyAuthentication(s, a, c)
      PROVE  ChallengesSound'
  BY <1>4, AuthenticationCompletes
<1>5. ASSUME UNCHANGED <<pending, issued, successes>> PROVE ChallengesSound'
  BY <1>5 DEF ChallengesSound
<1>6. ASSUME NEW k \in Key, NEW copy \in Copy, NEW ch \in Challenge, GetAssertion(k, copy, ch)
      PROVE  UNCHANGED <<pending, issued, successes>>
  BY <1>6 DEF GetAssertion
<1>7. (\E k \in Key : Clone(k)) \/ Tick \/ UNCHANGED vars => UNCHANGED <<pending, issued, successes>>
  BY DEF Clone, Tick, vars
<1>. QED BY <1>1, <1>2, <1>3, <1>4, <1>5, <1>6, <1>7 DEF Next

\* One account per credential id: what is registered was not claimed, and an
\* update replaces a record by one with the same id.
LEMMA OwnershipStep == TypeOK /\ CredentialIdOwnedOnce /\ [Next]_vars => CredentialIdOwnedOnce'
<1>. SUFFICES ASSUME TypeOK, CredentialIdOwnedOnce, [Next]_vars PROVE CredentialIdOwnedOnce'
  OBVIOUS
<1>1. ASSUME NEW s \in Session, NEW u \in User, NEW id \in Key, NEW k \in Key, NEW count \in InitialCount,
             VerifyRegistration(s, u, id, k, count)
      PROVE  CredentialIdOwnedOnce'
  <2>1. PICK r : r.credential_id = id /\ credentials' = credentials \cup {r}
    BY <1>1 DEF VerifyRegistration
  <2>2. \A c \in credentials : c.credential_id # id
    BY <1>1 DEF VerifyRegistration, Unclaimed
  <2>. QED BY <2>1, <2>2 DEF CredentialIdOwnedOnce
<1>2. ASSUME NEW s \in Session, NEW a \in assertions, NEW c \in credentials, VerifyAuthentication(s, a, c)
      PROVE  CredentialIdOwnedOnce'
  <2>1. c \in RegisteredCredential
    BY DEF TypeOK
  <2>2. Updated(c, a.sign_count).credential_id = c.credential_id
    BY <2>1 DEF Updated, RegisteredCredential
  <2>3. credentials' = (credentials \ {c}) \cup {Updated(c, a.sign_count)}
    BY <1>2 DEF VerifyAuthentication
  <2>. QED BY <2>2, <2>3 DEF CredentialIdOwnedOnce
<1>3. ASSUME credentials' = credentials PROVE CredentialIdOwnedOnce'
  BY <1>3 DEF CredentialIdOwnedOnce
<1>4. (\E s \in Session : CeremonyFails(s)) \/ (\E k \in Key : Clone(k)) \/ Tick \/ UNCHANGED vars
      => credentials' = credentials
  BY DEF CeremonyFails, Clone, Tick, vars
<1>5. ASSUME NEW s \in Session, NEW ceremony \in Ceremony, NEW ch \in Challenge, Options(s, ceremony, ch)
      PROVE  credentials' = credentials
  BY <1>5 DEF Options
<1>6. ASSUME NEW k \in Key, NEW copy \in Copy, NEW ch \in Challenge, GetAssertion(k, copy, ch)
      PROVE  credentials' = credentials
  BY <1>6 DEF GetAssertion
<1>. QED BY <1>1, <1>2, <1>3, <1>4, <1>5, <1>6 DEF Next

\* A counter that _check_sign_count lets through is above every counter accepted
\* before, unless the credential has only ever shown 0.
LEMMA AdvancePastHistory ==
  ASSUME NEW history \in Seq(Nat), NEW stored \in Nat, NEW n \in Nat, CounterAdvances(stored, n),
         history # <<>> => stored = history[Len(history)],
         \A i, j \in 1..Len(history) : i < j /\ history[i] > 0 => history[j] > history[i]
  PROVE  /\ Append(history, n) # <<>>
         /\ Append(history, n)[Len(Append(history, n))] = n
         /\ \A i, j \in 1..Len(Append(history, n)) :
              i < j /\ Append(history, n)[i] > 0 => Append(history, n)[j] > Append(history, n)[i]
<1>1. /\ Len(Append(history, n)) = Len(history) + 1 /\ Len(history) \in Nat
      /\ Append(history, n)[Len(history) + 1] = n
      /\ \A i \in 1..Len(history) : Append(history, n)[i] = history[i] /\ history[i] \in Nat
  OBVIOUS
<1>2. ASSUME NEW i \in 1..Len(history), history[i] > 0 PROVE n > history[i]
  <2>1. history # <<>> /\ Len(history) \in 1..Len(history)
    BY <1>1
  <2>2. stored = history[Len(history)]
    BY <2>1
  <2>3. CASE i = Len(history)
    BY <1>1, <1>2, <2>2, <2>3 DEF CounterAdvances
  <2>4. CASE i < Len(history)
    <3>1. stored > history[i]
      BY <1>2, <2>1, <2>2, <2>4
    <3>. QED BY <1>1, <1>2, <3>1 DEF CounterAdvances
  <2>. QED BY <1>1, <2>3, <2>4
<1>3. ASSUME NEW i \in 1..Len(Append(history, n)), NEW j \in 1..Len(Append(history, n)),
             i < j, Append(history, n)[i] > 0
      PROVE  Append(history, n)[j] > Append(history, n)[i]
  <2>1. i \in 1..Len(history) /\ Append(history, n)[i] = history[i]
    BY <1>1, <1>3
  <2>2. CASE j = Len(history) + 1
    BY <1>1, <1>2, <1>3, <2>1, <2>2
  <2>3. CASE j # Len(history) + 1
    <3>1. j \in 1..Len(history) /\ Append(history, n)[j] = history[j]
      BY <1>1, <2>3
    <3>. QED BY <1>3, <2>1, <3>1
  <2>. QED BY <2>2, <2>3
<1>4. Append(history, n) # <<>>
  BY <1>1
<1>. QED BY <1>1, <1>3, <1>4

LEMMA CountersStep ==
  /\ TypeOK /\ CredentialIdOwnedOnce /\ CountersRecorded /\ CountersIncrease /\ [Next]_vars
  => CountersRecorded' /\ CountersIncrease'
<1>. SUFFICES ASSUME TypeOK, CredentialIdOwnedOnce, CountersRecorded, CountersIncrease, [Next]_vars
              PROVE  CountersRecorded' /\ CountersIncrease'
  OBVIOUS
<1>1. ASSUME NEW s \in Session, NEW u \in User, NEW id \in Key, NEW k \in Key, NEW count \in InitialCount,
             VerifyRegistration(s, u, id, k, count)
      PROVE  CountersRecorded' /\ CountersIncrease'
  <2>1. PICK r : r.credential_id = id /\ credentials' = credentials \cup {r}
    BY <1>1 DEF VerifyRegistration
  <2>2. accepted' = accepted
    BY <1>1 DEF VerifyRegistration
  <2>3. accepted[id] = <<>>
    BY <1>1 DEF VerifyRegistration, Unclaimed, CountersRecorded
  <2>. QED BY <2>1, <2>2, <2>3 DEF CountersRecorded, CountersIncrease
<1>2. ASSUME NEW s \in Session, NEW a \in assertions, NEW c \in credentials, VerifyAuthentication(s, a, c)
      PROVE  CountersRecorded' /\ CountersIncrease'
  <2>1. c \in RegisteredCredential /\ a \in Assertion
    BY DEF TypeOK
  <2>2. c.credential_id \in Key /\ c.sign_count \in Nat /\ a.sign_count \in Nat
    BY <2>1 DEF RegisteredCredential, Assertion
  <2>3. Updated(c, a.sign_count).credential_id = c.credential_id
        /\ Updated(c, a.sign_count).sign_count = a.sign_count
    BY <2>1 DEF Updated, RegisteredCredential
  <2>4. credentials' = (credentials \ {c}) \cup {Updated(c, a.sign_count)}
    BY <1>2 DEF VerifyAuthentication
  <2>5. /\ accepted'[c.credential_id] = Append(accepted[c.credential_id], a.sign_count)
        /\ \A id \in Key : id # c.credential_id => accepted'[id] = accepted[id]
    BY <1>2, <2>2 DEF VerifyAuthentication, TypeOK
  <2>6. ASSUME NEW history, NEW n, history = accepted[c.credential_id], n = a.sign_count
        PROVE  /\ Append(history, n) # <<>>
               /\ Append(history, n)[Len(Append(history, n))] = n
               /\ \A i, j \in 1..Len(Append(history, n)) :
                    i < j /\ Append(history, n)[i] > 0 => Append(history, n)[j] > Append(history, n)[i]
    <3>1. history \in Seq(Nat) /\ n \in Nat
      BY <2>2, <2>6 DEF TypeOK
    <3>2. CounterAdvances(c.sign_count, n)
      BY <1>2, <2>6 DEF VerifyAuthentication
    <3>3. history # <<>> => c.sign_count = history[Len(history)]
      BY <2>2, <2>6 DEF CountersRecorded
    <3>4. \A i, j \in 1..Len(history) : i < j /\ history[i] > 0 => history[j] > history[i]
      BY <2>2, <2>6 DEF CountersIncrease
    <3>. HIDE <2>6
    <3>. QED BY <2>2, <3>1, <3>2, <3>3, <3>4, AdvancePastHistory
  <2>7. /\ accepted'[c.credential_id] # <<>>
        /\ accepted'[c.credential_id][Len(accepted'[c.credential_id])] = a.sign_count
        /\ \A i, j \in 1..Len(accepted'[c.credential_id]) :
             i < j /\ accepted'[c.credential_id][i] > 0
               => accepted'[c.credential_id][j] > accepted'[c.credential_id][i]
    BY <2>5, <2>6
  <2>8. \A d \in credentials : d.credential_id = c.credential_id => d = c
    BY DEF CredentialIdOwnedOnce
  <2>9. CountersRecorded'
    BY <2>2, <2>3, <2>4, <2>5, <2>7, <2>8 DEF CountersRecorded
  <2>10. CountersIncrease'
    BY <2>5, <2>7 DEF CountersIncrease
  <2>. QED BY <2>9, <2>10
<1>3. ASSUME UNCHANGED <<credentials, accepted>> PROVE CountersRecorded' /\ CountersIncrease'
  BY <1>3 DEF CountersRecorded, CountersIncrease
<1>4. (\E s \in Session : CeremonyFails(s)) \/ (\E k \in Key : Clone(k)) \/ Tick \/ UNCHANGED vars
      => UNCHANGED <<credentials, accepted>>
  BY DEF CeremonyFails, Clone, Tick, vars
<1>5. ASSUME NEW s \in Session, NEW ceremony \in Ceremony, NEW ch \in Challenge, Options(s, ceremony, ch)
      PROVE  UNCHANGED <<credentials, accepted>>
  BY <1>5 DEF Options
<1>6. ASSUME NEW k \in Key, NEW copy \in Copy, NEW ch \in Challenge, GetAssertion(k, copy, ch)
      PROVE  UNCHANGED <<credentials, accepted>>
  BY <1>6 DEF GetAssertion
<1>. QED BY <1>1, <1>2, <1>3, <1>4, <1>5, <1>6 DEF Next

LEMMA PasskeysStep == TypeOK /\ PasskeysStayAtZero /\ [Next]_vars => PasskeysStayAtZero'
<1>. SUFFICES ASSUME TypeOK, PasskeysStayAtZero, [Next]_vars PROVE PasskeysStayAtZero'
  OBVIOUS
<1>1. ASSUME NEW s \in Session, NEW u \in User, NEW id \in Key, NEW k \in Key, NEW count \in InitialCount,
             VerifyRegistration(s, u, id, k, count)
      PROVE  PasskeysStayAtZero'
  BY <1>1 DEF VerifyRegistration, PasskeysStayAtZero
<1>2. ASSUME NEW k \in Key, NEW copy \in Copy, NEW ch \in Challenge, GetAssertion(k, copy, ch)
      PROVE  PasskeysStayAtZero'
  BY <1>2 DEF GetAssertion, PasskeysStayAtZero
<1>3. ASSUME NEW s \in Session, NEW a \in assertions, NEW c \in credentials, VerifyAuthentication(s, a, c)
      PROVE  PasskeysStayAtZero'
  <2>1. c \in RegisteredCredential
    BY DEF TypeOK
  <2>2. /\ Updated(c, a.sign_count).sign_count = a.sign_count
        /\ Updated(c, a.sign_count).public_key = c.public_key
        /\ Updated(c, a.sign_count).registered_with = c.registered_with
    BY <2>1 DEF Updated, RegisteredCredential
  <2>3. /\ credentials' = (credentials \ {c}) \cup {Updated(c, a.sign_count)}
        /\ a.key = c.public_key /\ assertions' = assertions
    BY <1>3 DEF VerifyAuthentication
  <2>. QED BY <2>2, <2>3 DEF PasskeysStayAtZero
<1>4. ASSUME UNCHANGED <<credentials, assertions>> PROVE PasskeysStayAtZero'
  BY <1>4 DEF PasskeysStayAtZero
<1>5. (\E s \in Session : CeremonyFails(s)) \/ (\E k \in Key : Clone(k)) \/ Tick \/ UNCHANGED vars
      => UNCHANGED <<credentials, assertions>>
  BY DEF CeremonyFails, Clone, Tick, vars
<1>6. ASSUME NEW s \in Session, NEW ceremony \in Ceremony, NEW ch \in Challenge, Options(s, ceremony, ch)
      PROVE  UNCHANGED <<credentials, assertions>>
  BY <1>6 DEF Options
<1>. QED BY <1>1, <1>2, <1>3, <1>4, <1>5, <1>6 DEF Next

LEMMA InitIInv == Init => IInv
<1>. SUFFICES ASSUME Init PROVE IInv
  OBVIOUS
<1>1. DOMAIN pending = {} /\ pending \in [DOMAIN pending -> Pending]
  BY DEF Init
<1>2. TypeOK
  BY <1>1 DEF Init, TypeOK
<1>3. ChallengesSound /\ CredentialIdOwnedOnce /\ PasskeysStayAtZero
  BY <1>1 DEF Init, ChallengesSound, CredentialIdOwnedOnce, PasskeysStayAtZero
<1>4. CountersRecorded /\ CountersIncrease
  BY DEF Init, CountersRecorded, CountersIncrease
<1>. QED BY <1>2, <1>3, <1>4 DEF IInv

LEMMA InductiveStep == IInv /\ [Next]_vars => IInv'
  BY TypeStep, ChallengesStep, OwnershipStep, CountersStep, PasskeysStep DEF IInv

\* The state of the relying party and of the authenticators stays well-formed.
THEOREM TypeCorrect == Spec => []TypeOK
<1>1. IInv => TypeOK
  BY DEF IInv
<1>. QED BY <1>1, InitIInv, InductiveStep, PTL DEF Spec

\* A credential id has one owner, accepted counters only rise, and a passkey that
\* has no counter is never taken for a clone.
THEOREM CredentialsAreSound == Spec => []CredentialsSound
<1>1. IInv => CredentialsSound
  <2>. SUFFICES ASSUME IInv PROVE CredentialsSound
    OBVIOUS
  <2>1. SyncedPasskeyAccepted
    BY DEF IInv, PasskeysStayAtZero, SyncedPasskeyAccepted, CounterAdvances
  <2>. QED BY <2>1 DEF IInv, CredentialsSound
<1>. QED BY <1>1, InitIInv, InductiveStep, PTL DEF Spec

\* The relying party implements one-time use of challenges: each step completes
\* one unused challenge, or none.
THEOREM Refinement == Spec => ChallengeUsedOnce
<1>1. Init => ChallengeOnce!Init
  BY DEF Init, ChallengeOnce!Init
<1>2. IInv /\ [Next]_vars => [ChallengeOnce!Next]_successes
  <2>. SUFFICES ASSUME IInv, [Next]_vars PROVE [ChallengeOnce!Next]_successes
    OBVIOUS
  <2>0. TypeOK /\ ChallengesSound
    BY DEF IInv
  <2>1. ASSUME NEW s \in Session, NEW u \in User, NEW id \in Key, NEW k \in Key, NEW count \in InitialCount,
               VerifyRegistration(s, u, id, k, count)
        PROVE  ChallengeOnce!Next
    BY <2>0, <2>1, RegistrationCompletes DEF ChallengeOnce!Next, ChallengeOnce!Accept
  <2>2. ASSUME NEW s \in Session, NEW a \in assertions, NEW c \in credentials, VerifyAuthentication(s, a, c)
        PROVE  ChallengeOnce!Next
    BY <2>0, <2>2, AuthenticationCompletes DEF ChallengeOnce!Next, ChallengeOnce!Accept
  <2>3. (\E s \in Session : CeremonyFails(s)) \/ (\E k \in Key : Clone(k)) \/ Tick \/ UNCHANGED vars
        => UNCHANGED successes
    BY DEF CeremonyFails, Clone, Tick, vars
  <2>4. ASSUME NEW s \in Session, NEW ceremony \in Ceremony, NEW ch \in Challenge, Options(s, ceremony, ch)
        PROVE  UNCHANGED successes
    BY <2>4 DEF Options
  <2>5. ASSUME NEW k \in Key, NEW copy \in Copy, NEW ch \in Challenge, GetAssertion(k, copy, ch)
        PROVE  UNCHANGED successes
    BY <2>5 DEF GetAssertion
  <2>. QED BY <2>1, <2>2, <2>3, <2>4, <2>5 DEF Next
<1>. QED BY <1>1, <1>2, InitIInv, InductiveStep, PTL DEF Spec, ChallengeUsedOnce, ChallengeOnce!Spec
============================================================================
