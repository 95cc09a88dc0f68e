\* A fast client: the replay cache forgets an authenticator too early.
CONSTANTS
  alice = alice  bob = bob  None = None
  Client = {alice}
  Service = {http}
  Sequence = {q1}
  ClientAhead <- Clocks
  RequirePreauth <- Preauth
  TicketLifetime = 3
  ClockSkew = 2
  MaxTime = 5
SPECIFICATION Spec
INVARIANT AcceptedAtMostOnce
CHECK_DEADLOCK FALSE
