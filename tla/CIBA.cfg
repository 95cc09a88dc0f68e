\* A polling client and a pushed one, both certificate-bound; two users.
CONSTANTS
  poller = poller  pusher = pusher  None = None
  RequestId = {q1, q2}
  Client = {poller, pusher}
  User = {alice, bob}
  Certificate = {x1}
  Mode <- ModeOf
  CertBound <- AllBound
  Lifetime = 3
  Interval = 2
  BackOff = 1
  MaxTime = 3
  MaxPolls = 3
SYMMETRY Interchangeable
SPECIFICATION Spec
INVARIANTS AnswersAsAgreed
PROPERTIES ImplementsOneTimeUse
CHECK_DEADLOCK FALSE
