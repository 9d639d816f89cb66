\* License: an importer and a served request, one fault.
\* Members and keys: two clients at limits of one.
\* Runners: two enrollments beside the runner of a slot, that is upgraded, at a
\* limit of two.
\* Upstream: two handlers and two enrollments at a limit of one account.
\* Access: two handlers, one model, two updates.
\* Plugins: one Control, three archives, two releases, two faults.
SPECIFICATION MCSpec
CONSTANTS
  a1 = a1  a2 = a2  paid1 = paid1  paid2 = paid2  unpaid = unpaid
  NoDoc = NoDoc  Nobody = Nobody
  Actor = {a1, a2}  Importer = {a1}  Serving = {a2}
  Doc <- MCDoc  Meta <- MCMeta  FirstDoc = paid1
  MaxTime = 2  MaxImports = 2  MaxFaults = 1  MaxSeats = 1
  m1 = m1  NoCaller = NoCaller
  Caller = {c1, c2}  Member = {m1, m2}  ApiKey = {k1, k2}
  Holder <- MCHolder
  SeatLimit = 1  KeyLimit = 1  Retries = 2  MaxEvents = 3
  h1 = h1  h2 = h2  slot = slot  newer = newer  NoRunner = NoRunner
  Runner = {h1, h2, slot, newer}  Handler = {h1, h2}  Token = {t1, t2}  RunnerLimit = 2
  Worker = {u1, u2}  Enrollment = {e1, e2}  Subject = {s1, s2}  Ident = {i1, i2, i3}
  Channel = {x1}  Model = {o1}  Free = Free  NoRecord = NoRecord
  AccountLimit = 1  MaxRequests = 4
  Reader = {r1, r2}  Offered = {o1}  Idle = Idle  NoPolicy = NoPolicy  MaxRevision = 2
  v1 = v1  v2 = v2  bad = bad  relA = relA  relB = relB
  Control = {n1}  Bundle = {v1, v2, bad}  Release = {relA, relB}  Inspects <- MCInspects  Runs <- MCRuns
  NoBundle = NoBundle  NoOp = NoOp  MaxActivations = 5  MaxSubmissions = 3  MaxPluginFaults = 2
INVARIANTS LicenseSound StoreSound QuotaHolds PluginsCoherent
PROPERTIES LicenseAdvances UpstreamSound AccessGoverned
CHECK_DEADLOCK FALSE
