\* A client of the plain endpoint and one under FAPI 2.0 message signing.
CONSTANTS
  None = None  basic = basic  signer = signer
  Client = {basic, signer}
  Jti = {j1}
  Uri = {u1, u2}
  Response = {p1}
  Profile <- Profiles
  MaximumLifetime = 1
  ParLifetime = 1
  JarmLifetime = 1
  Future = 1
  MaxTime = 3
SYMMETRY Interchangeable
SPECIFICATION Spec
INVARIANTS FlowSound
PROPERTIES RequestObjectUsedOnce
CHECK_DEADLOCK FALSE
