\* Entries with the same reference and grants at the edge of the type, or a
\* quota request under creation, update, withdrawal and two reviews; or two
\* tellers at balances that cover an amount once; or three entries in up to two
\* requests while hours or months pass (from the last seconds of a month in
\* one time zone), and pages of two events.
SPECIFICATION MCSpec
CONSTANTS
  x = x  y = y  z = z  q = q  c1 = c1  f1 = f1  g1 = g1  g2 = g2
  new = new  change = change  back = back  yes = yes  no = no
  None = None
  Op <- MCOp
  Kind <- MCKind
  Ref <- MCRef
  Amount <- MCAmount
  MaxNanos = 3
  MaxTries = 2
  MaxAudit = 3
  b1 = b1  v1 = v1  Idle = Idle  NoRow = NoRow  Anyone = Anyone
  Teller = {e1, e2}  Account = {b1, b2}  Purchase = {q1, q2}  Payer <- MCPayer
  Voucher = {v1, v2}  Terms <- MCTerms  Grant = {a1}  Adjustment = {j1}
  Portion = {2}  Bill = {4}  OpeningTokens = 3  OldImages <- MCOldImages  MaxCalls = 4
  Epoch = 86725796  Delay = {1, 3600, 86400, 7776000}  Request = {r1, r2}
  Offset = {0, 19800}  Span = {1, 8, 400, 731}  PageSize = 2
  Absent = Absent  MinutesPerDay = 3  Million = 2  MaxCharge = 10
  Tier = {"standard", "fast"}  Plan <- FewPlans  VersionId = {"v1", "v2"}
  Category <- MCCategory  InputCategory = {"in"}  Usage <- MCUsage
  OfficialRate <- MCOfficialRate  BuiltinRate <- Base
  Moment <- MCMoment  Admin = {p1, p2}  Priced = {d1}  MaxVersions = 2
  MaxLedger = 3  MaxDelays = 2  MaxAuditEvents = 6
INVARIANTS OneEntryPerReference LedgerReconstructsBalance ApprovedIffGranted
  QuotaBooks PricesSound ReportsSound
\* The audit log is bounded, and everything may have been entered.
CHECK_DEADLOCK FALSE
