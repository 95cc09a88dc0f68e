\* A public client that rotates and is bound to a DPoP key, beside a confidential
\* one that refreshes in place, is bound to a certificate and has a device flow.
CONSTANTS
  web = web  backend = backend  rd = rd  wr = wr  u1 = u1  None = None
  Client = {web, backend}
  Config <- WebAndBackend
  Subject = {s1}
  Scope = {rd, wr}
  Resource = {api}
  DefaultResource = api
  Uri = {u1}
  Verifier = {v1}
  Jkt = {j1, j2}
  X5t = {x1}
  Code = {k1}
  Device = {d1}
  RefreshId = {t1, t2}
  AccessId = {a1, a2}
  Family = {f1, f2}
  CodeLifetime = 1
  DeviceLifetime = 1
  AccessLifetime = 1
  RefreshLifetime = 1
  StartTime = 1
  MaxTime = 1
SYMMETRY Fresh
SPECIFICATION Spec
INVARIANTS ScopeNeverWidens SenderConstraintKept
CHECK_DEADLOCK FALSE
