---------------------------- MODULE MCMoneyLedger ----------------------------
(* Money: entries that race for a reference and for the balance row, and a   *)
(* quota request that its member and two administrators change.  Or tokens,  *)
(* images and vouchers of two members.  Or what members and administrators   *)
(* are shown of the ledger and of the audit log.  Or the prices: one version *)
(* with any two windows of a small calendar, or several versions saved by    *)
(* two administrators.  They share no state, and a behaviour of the run is   *)
(* about one of them.                                                        *)
EXTENDS MoneyLedger, MemberQuota, UsageReports, PriceBook

CONSTANTS x, y, z, q, c1, f1, g1, g2, new, change, back, yes, no, b1, v1

\* A charge, a failure entered with its reference, and two grants whose
\* credits do not both fit.
Entries == {c1, f1, g1, g2}

\* The member changes a quota request while two administrators decide it, or
\* changes and withdraws it while one of them approves it.
Reviews == {new, change, yes, no}
Withdrawals == {new, change, back, yes}

MCOp == Entries \cup Reviews \cup Withdrawals
MCKind == (c1 :> "charge") @@ (f1 :> "request_failed") @@ (g1 :> "grant") @@ (g2 :> "grant")
            @@ (new :> "create") @@ (change :> "update") @@ (back :> "withdraw")
            @@ (yes :> "approve") @@ (no :> "reject")
MCRef == [o \in MCOp |-> CASE o \in {c1, f1} -> x [] o = g1 -> y [] o = g2 -> z [] OTHER -> q]
MCAmount == [o \in MCOp |-> CASE o = c1 -> -1 [] o = f1 -> 0 [] o = g2 -> 3
                              [] o = change -> 2 [] OTHER -> 1]

\* One voucher for anyone and one for a member; both are used up by one use.
MCTerms == [v \in Voucher |->
              [amount |-> 1, max |-> 1, recipient |-> IF v = v1 THEN Anyone ELSE b1]]
MCPayer == [r \in Purchase |-> b1]
MCOldImages == [a \in Account |-> IF a = b1 THEN 2 ELSE 0]

\* Two kinds of tokens; a request of up to two of them, or of one more.
MCCategory == {"in", "out"}
Both(m, n) == [c \in MCCategory |-> IF c = "in" THEN m ELSE n]
Flat(p) == [threshold |-> Absent, short |-> p, long |-> p]
MCUsage == {Both(1, 1), Both(2, 0), Both(2, 1)}

\* Rates of the same kinds of tokens, one that prices no output, one with a
\* long context, and one whose long context prices other kinds.
Base == Flat(Both(1, 3))
Night == Flat(Both(0, 1))
NoOutput == Flat(Both(1, Absent))
LongContext == [threshold |-> 1, short |-> Both(1, 2), long |-> Both(4, 3)]
MCOfficialRate == {Base, LongContext}

\* Windows of a calendar with three minutes a day.
MCWindow ==
  [from : {Absent, 0}, until : {Absent, 3}, weekdays : {{0}, {6}},
   start : {0, 2}, end : {0, 1, 3}, rate : {Night}]

\* From before the first to after the last date, by more than a week.
MCMoment == (-8 .. 10) \X (0 .. 2)

Tiered(base, windows) == [t \in {"standard"} |-> [base |-> base, windows |-> windows]]
AnyTwoWindows == {Tiered(Base, <<w, v>>) : w, v \in {w \in MCWindow : w.start # w.end}}
FewPlans ==
  LET w == [from |-> Absent, until |-> Absent, weekdays |-> {0}, start |-> 2, end |-> 1,
            rate |-> Night]
  IN  {Tiered(Base, <<w>>), Tiered(LongContext, << >>), Tiered(Base, <<[w EXCEPT !.rate = NoOutput]>>),
       [t \in {"standard", "fast"} |-> [base |-> IF t = "fast" THEN Night ELSE Base,
                                        windows |-> << >>]]}

VARIABLE part

Operations == CASE part = "entries" -> Entries
                [] part = "reviews" -> Reviews
                [] part = "withdrawals" -> Withdrawals
                [] OTHER -> {}

\* Other events are appended to the audit log under a quota request only: the
\* entries append their own.
MoneyStep == \/ \E o \in Operations : OperationStep(o)
             \/ part \in {"reviews", "withdrawals"} /\ OtherAudit

\* One version with two windows, by one administrator.
WindowsNext ==
  \/ \E plan \in AnyTwoWindows : UpdatePrices(CHOOSE a \in Admin : TRUE, "v1", plan)
  \/ \E a \in Admin : SavePrices(a)

MCInit ==
  /\ part \in {"entries", "reviews", "withdrawals", "quotas", "reports", "audit", "windows", "prices"}
  /\ Init /\ QuotaInit /\ ReportInit /\ WalkInit /\ PriceInit
  /\ part # "audit" => walk.by = "page"

MCNext ==
  /\ \/ MoneyStep /\ UNCHANGED <<quotaVars, reportVars, walkVars, priceVars>>
     \/ part = "quotas" /\ QuotaNext /\ UNCHANGED <<vars, reportVars, walkVars, priceVars>>
     \/ part = "reports" /\ ReportNext /\ UNCHANGED <<vars, quotaVars, walkVars, priceVars>>
     \/ part = "audit" /\ WalkNext /\ UNCHANGED <<vars, quotaVars, reportVars, priceVars>>
     \/ part = "windows" /\ WindowsNext
          /\ UNCHANGED <<vars, quotaVars, reportVars, walkVars>>
     \/ part = "prices" /\ PriceNext(Plan, VersionId, {<<-7, 2>>, <<1, 0>>})
          /\ UNCHANGED <<vars, quotaVars, reportVars, walkVars>>
  /\ UNCHANGED part

MCSpec == MCInit /\ [][MCNext]_<<vars, quotaVars, reportVars, walkVars, priceVars, part>>
=============================================================================
