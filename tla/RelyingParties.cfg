\* OpenID Connect: two sessions, three attempts, three authorizations. SAML: replays,
\* double answers, late and foreign responses, under three clock offsets.
CONSTANTS
  None = None
  Session = {s1, s2}
  Attempt = {a1, a2, a3}
  Code = {c1, c2, c3}
  StateTTL = 1
  MaxTime = 2
  RequestId = {s1, s2}
  AssertionId = {a1, a2, a3}
  AssertionLifetime = 2
  Backdate = 1
  Leeway = 1
  RequestTTL = 3
  IdPAhead <- Offsets
  MaxSamlTime = 5
SYMMETRY Interchangeable
SPECIFICATION LoginSpec
INVARIANTS LoginFromOwnAttempt PromptResponseAccepted
PROPERTIES OwnNonceAcceptedSerially RequestAnsweredOnce
CHECK_DEADLOCK FALSE
