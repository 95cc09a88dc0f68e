\* A fast, an exact and a slow client of one service.
CONSTANTS
  alice = alice  bob = bob  None = None
  Client = {alice, bob, carol}
  Service = {http}
  Sequence = {q1, q2}
  ClientAhead <- Clocks
  RequirePreauth <- Preauth
  TicketLifetime = 3
  ClockSkew = 1
  MaxTime = 5
SYMMETRY Interchangeable
SPECIFICATION Spec
INVARIANTS PromptRequestAccepted
PROPERTIES AuthenticatorUsedOnce SessionEndsWithLogin
CHECK_DEADLOCK FALSE
