\* Two users with two sessions; a hardware key that may be cloned and a syncable
\* passkey.
CONSTANTS
  Session = {s1, s2}
  User = {alice, bob}
  Key = {k1, k2}
  Synced = {k2}
  Challenge = {ch1, ch2, ch3}
  InitialCount = {0, 1}
  ChallengeTTL = 0
  MaxCount = 2
  MaxTime = 1
SYMMETRY Interchangeable
SPECIFICATION Spec
INVARIANTS CredentialsSound
PROPERTIES ChallengeUsedOnce
CHECK_DEADLOCK FALSE
