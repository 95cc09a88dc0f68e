CONSTANTS
  Jti = {j1, j2}
  Jkt = {k1}
  Request = {r1}
  Token = {t1}
  None = None
  IssueTime = {0, 1}
  MaxAge = 1
  RequireNonce = TRUE
  MaxTime = 3
  MaxNonce = 2
SPECIFICATION Spec
INVARIANTS SeenCoversFreshness
PROPERTIES ImplementsOneTimeUse
CHECK_DEADLOCK FALSE
