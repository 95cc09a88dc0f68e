\* Two authorizations of a public, rotating client, for one or two users.
CONSTANTS
  web = web  backend = backend  rd = rd  wr = wr  u1 = u1  None = None
  Client = {web}
  Config <- WebOnly
  Subject = {s1, s2}
  Scope = {rd}
  Resource = {api}
  DefaultResource = api
  Uri = {u1}
  Verifier = {v1}
  Jkt = {}
  X5t = {}
  Code = {k1, k2}
  Device = {}
  RefreshId = {t1, t2, t3}
  AccessId = {a1, a2, a3}
  Family = {f1, f2}
  CodeLifetime = 1
  DeviceLifetime = 1
  AccessLifetime = 1
  RefreshLifetime = 2
  StartTime = 1
  MaxTime = 2
SYMMETRY Fresh
SPECIFICATION Spec
INVARIANTS OneFamilyPerGrant OneUsableRefreshToken MisuseEndsEverything
CHECK_DEADLOCK FALSE
