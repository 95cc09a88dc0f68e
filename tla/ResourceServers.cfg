\* Key rotations and an invented kid against the refresh budget, revocations and
\* expiries against the introspection cache.
CONSTANTS
  Never = Never
  ApiToken = {t1, t2}
  Lifetime = 1
  Leeway = 0
  CacheTTL = 2
  MaxRefreshes = 2
  MaxRotations = 2
  MaxJunk = 1
  MaxApiTime = 4
SYMMETRY Interchangeable
SPECIFICATION ApiSpec
INVARIANTS StalenessBounded RotationFollowedWithinBudget
CHECK_DEADLOCK FALSE
