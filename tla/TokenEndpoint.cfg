\* Three requests, concurrent or not, against one code and one device code; two threads
\* that serve any number of requests up to their grant.
CONSTANTS
  Thread = {r1, r2, r3}
  DeviceGranted = TRUE
  Requester = {t1, t2}
  Absent = Absent
  Clients <- MCClients
  TokenRequest <- MCTokenRequest
  AssertionLifetimeMax = 2
  IatSkew = 1
  MaxAge = 1
  MaxRequestTime = 3
SPECIFICATION EndpointSpec
INVARIANTS DeviceSingleUse SafeWhenSerial SpentIsSpent
PROPERTIES EveryRequestEnds
CHECK_DEADLOCK FALSE
