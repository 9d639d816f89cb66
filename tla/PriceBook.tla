------------------------------ MODULE PriceBook ------------------------------
(***************************************************************************)
(* What a request costs: the price versions of a public model              *)
(* (policy-core/src/billing.rs, plan.rs, schedule.rs), how administrators  *)
(* save them and how a request freezes one when it is admitted             *)
(* (control/src/lib.rs, official_prices.rs).                               *)
(*                                                                         *)
(* A version has tiers; a tier has a base rate and windows, which repeat   *)
(* on weekdays between two dates and may run past midnight.  A version is  *)
(* refused if two windows of a tier overlap, so that a request never finds *)
(* two prices.  Dates are counted in days from a Monday, minutes within a  *)
(* day.  Everything is in the currency of the version: the conversion to   *)
(* the currency of settlement and the rates of images are left out.        *)
(***************************************************************************)
EXTENDS Integers, Sequences, FiniteSetsExt

CONSTANTS
  MinutesPerDay,  \* 1440 in the code
  Million,        \* TOKENS_PER_MILLION
  MaxCharge,      \* the largest i64
  Category,       \* the priced kinds of tokens
  InputCategory,  \* those that count as input of the context
  Tier,           \* service tiers
  Plan,           \* the plans that administrators submit
  VersionId,      \* the names of versions
  OfficialRate,   \* rates the official price table may show
  BuiltinRate,    \* and the one that is built in
  Usage,          \* the usages that upstreams report: tokens by category
  Moment,         \* dates and minutes
  Admin, Priced,  \* administrators and requests
  MaxVersions,    \* bound: versions of a price book (64 in the code)
  Absent          \* no date, no price, nothing stored

\* A price is in nanos per million tokens, a date is a number of days.
Optional(S) == S \cup {Absent}
Rate == [threshold : Optional(Int), short : [Category -> Optional(Int)],
         long : [Category -> Optional(Int)]]
Window == [from : Optional(Int), until : Optional(Int), weekdays : SUBSET (0 .. 6),
           start : Nat, end : Nat, rate : Rate]
Schedule == [base : Rate, windows : Seq(Window)]

ASSUME PriceAssumption ==
  /\ MinutesPerDay \in Nat \ {0} /\ Million \in Nat \ {0} /\ MaxCharge \in Nat
  /\ MaxVersions \in Nat
  /\ InputCategory \subseteq Category
  /\ OfficialRate \subseteq Rate /\ BuiltinRate \in OfficialRate
  /\ "standard" \in Tier /\ "builtin" \notin VersionId
  /\ \A plan \in Plan : DOMAIN plan \subseteq Tier /\ \A t \in DOMAIN plan : plan[t] \in Schedule
  /\ Moment \subseteq Int \X (0 .. MinutesPerDay - 1)
  /\ Absent \notin Int /\ Absent \notin Rate

-----------------------------------------------------------------------------
(***************************************************************************)
(* Windows.                                                                *)
(***************************************************************************)
Weekday(day) == day % 7

\* A window: when it starts (weekdays, minutes; the dates bound its starts) and
\* what it charges.
WindowValid(w) ==
  /\ w.weekdays # {} /\ w.weekdays \subseteq 0 .. 6
  /\ w.start \in 0 .. MinutesPerDay - 1 /\ w.end \in 0 .. MinutesPerDay
  /\ w.start # w.end
  /\ w.from # Absent /\ w.until # Absent => w.from < w.until

CrossesMidnight(w) == w.end < w.start

\* A window applies at a minute if it started on that day, or on the day before
\* and has not ended yet.
StartsOn(w, day) ==
  /\ w.from # Absent => day >= w.from
  /\ w.until # Absent => day < w.until
  /\ Weekday(day) \in w.weekdays

Matches(w, day, minute) ==
  IF CrossesMidnight(w) /\ minute < w.end
    THEN StartsOn(w, day - 1)
    ELSE /\ minute >= w.start /\ (CrossesMidnight(w) \/ minute < w.end)
         /\ StartsOn(w, day)

\* The parts of a window within one day: on the day it starts and on the next.
Segments(w) ==
  IF w.end > w.start
    THEN {[offset |-> 0, start |-> w.start, end |-> w.end]}
    ELSE {[offset |-> 0, start |-> w.start, end |-> MinutesPerDay]} \cup
         {s \in {[offset |-> 1, start |-> 0, end |-> w.end]} : w.end > 0}

\* A bound of a window, moved by the offset of its segment.
Moved(bound, offset) == IF bound = Absent THEN Absent ELSE bound + offset

Later(a, b) == IF a = Absent THEN b ELSE IF b = Absent THEN a ELSE IF a > b THEN a ELSE b
Earlier(a, b) == IF a = Absent THEN b ELSE IF b = Absent THEN a ELSE IF a < b THEN a ELSE b

\* Mistake: the week that is looked at does not depend on the dates.
FirstDay_Fixed(lower, upper) == 0

\* The first day of the week that is looked at.
FirstDay(lower, upper) ==
  IF lower # Absent THEN lower ELSE IF upper # Absent THEN upper - 7 ELSE 0

\* Two segments share a minute of a day, and one week of common dates shows a
\* day on which both windows have them.
SegmentsOverlap(w, v, a, b) ==
  /\ (IF a.start > b.start THEN a.start ELSE b.start) < (IF a.end < b.end THEN a.end ELSE b.end)
  /\ LET lower == Later(Moved(w.from, a.offset), Moved(v.from, b.offset))
         upper == Earlier(Moved(w.until, a.offset), Moved(v.until, b.offset))
         first == FirstDay(lower, upper)
     IN  /\ lower = Absent \/ upper = Absent \/ lower < upper
         /\ \E day \in first .. first + 6 :
              /\ upper = Absent \/ day < upper
              /\ Weekday(day - a.offset) \in w.weekdays
              /\ Weekday(day - b.offset) \in v.weekdays

WindowsOverlap(w, v) ==
  \E a \in Segments(w), b \in Segments(v) : SegmentsOverlap(w, v, a, b)

-----------------------------------------------------------------------------
(***************************************************************************)
(* Rates.  A rate card prices categories of tokens; with a threshold it    *)
(* has other prices for a long context.  Prices are per million tokens, a  *)
(* category without one is not supported.                                  *)
(***************************************************************************)
Dimensions(prices) == {c \in Category : prices[c] # Absent}

SameDimensions(r, q) ==
  r.threshold = q.threshold /\ Dimensions(r.short) = Dimensions(q.short)
                            /\ Dimensions(r.long) = Dimensions(q.long)

\* A rate without threshold has the same prices for every context.
RateValid(r) ==
  /\ \A c \in Category : \A p \in {r.short[c], r.long[c]} : p # Absent => p >= 0
  /\ Dimensions(r.short) # {}
  /\ Dimensions(r.short) = Dimensions(r.long)
  /\ r.threshold # Absent => r.threshold > 0

\* A conversion to whole nanos rounds half up.
RoundDiv(n, d) == (n + d \div 2) \div d

\* The prices for the context of a usage.
ContextPrices(r, u) ==
  IF r.threshold # Absent /\ MapThenSumSet(LAMBDA c : u[c], InputCategory) > r.threshold
    THEN r.long ELSE r.short

\* The charge for a usage, or Absent if a used category has no price or the
\* charge does not fit.
Charge(r, u) ==
  LET prices == ContextPrices(r, u)
      used == {c \in Category : u[c] > 0}
      nanos == RoundDiv(MapThenSumSet(LAMBDA c : u[c] * prices[c], used), Million)
  IN  IF used \subseteq Dimensions(prices) /\ nanos <= MaxCharge THEN nanos ELSE Absent

\* What admission reckons with: one million tokens of the dearest kind.
Dearest(prices) == Max({prices[c] : c \in Dimensions(prices)})

Reference(r) ==
  IF Dearest(r.short) > Dearest(r.long) THEN Dearest(r.short) ELSE Dearest(r.long)

-----------------------------------------------------------------------------
(***************************************************************************)
(* Plans and price books.                                                  *)
(***************************************************************************)
ScheduleValid(s) ==
  /\ \A i \in DOMAIN s.windows : WindowValid(s.windows[i])
  /\ \A i, j \in DOMAIN s.windows : i < j => ~WindowsOverlap(s.windows[i], s.windows[j])

\* Every tier and every window of a plan prices the same kinds of tokens.
PlanValid(plan) ==
  /\ DOMAIN plan # {}
  /\ \A t \in DOMAIN plan :
       /\ ScheduleValid(plan[t])
       /\ RateValid(plan[t].base)
       /\ \A q \in DOMAIN plan : SameDimensions(plan[t].base, plan[q].base)
       /\ \A i \in DOMAIN plan[t].windows :
            /\ RateValid(plan[t].windows[i].rate)
            /\ SameDimensions(plan[t].windows[i].rate, plan[t].base)

\* The windows of a schedule that apply.
Matching(s, day, minute) == {i \in DOMAIN s.windows : Matches(s.windows[i], day, minute)}

PriceAt(s, day, minute) ==
  LET found == Matching(s, day, minute) IN
  IF found = {} THEN s.base
  ELSE IF \E i \in found : found = {i} THEN s.windows[CHOOSE i \in found : TRUE].rate
  ELSE Absent

\* The plan of the official table, or of the table that is built in.
OfficialPlan(rate) == [t \in {"standard"} |-> [base |-> rate, windows |-> << >>]]

VARIABLES
  priceBook,  \* the stored versions, the last one active
  draft,      \* what an administrator is about to save, and the book it was based on
  frozen,     \* the price a request was admitted with
  bill        \* what it was charged

priceVars == <<priceBook, draft, frozen, bill>>

PriceInit ==
  /\ priceBook = << >>
  /\ draft = [a \in Admin |-> Absent]
  /\ frozen = [r \in Priced |-> Absent]
  /\ bill = [r \in Priced |-> Absent]

\* The version a request finds: the active one, or the built-in one.
ActiveVersion ==
  IF priceBook = << >> THEN [id |-> "builtin", plan |-> OfficialPlan(BuiltinRate)]
                       ELSE priceBook[Len(priceBook)]

\* save_billing_price_version up to its transaction.
Drafts(a, id, plan) ==
  /\ draft[a] = Absent
  /\ \A i \in DOMAIN priceBook : priceBook[i].id # id
  /\ Len(priceBook) < MaxVersions
  /\ PlanValid(plan)
  /\ draft' = [draft EXCEPT ![a] = [version |-> [id |-> id, plan |-> plan], expected |-> priceBook]]
  /\ UNCHANGED <<priceBook, frozen, bill>>

UpdatePrices(a, id, plan) == Drafts(a, id, plan)

\* The official table is read exactly or not at all: what is Absent leaves the
\* built-in rates.
Fetched(answer) == IF answer = Absent THEN BuiltinRate ELSE answer

SyncPrices(a, id, answer) == Drafts(a, id, OfficialPlan(Fetched(answer)))

\* The stored book is still the one that was read.
SameBook(a) == priceBook = draft[a].expected

\* write_runtime_setting_with_audit writes the book if it is; otherwise the
\* administrator is told of the conflict.
SavePrices(a) ==
  /\ draft[a] # Absent
  /\ priceBook' = IF SameBook(a) THEN Append(priceBook, draft[a].version) ELSE priceBook
  /\ draft' = [draft EXCEPT ![a] = Absent]
  /\ UNCHANGED <<frozen, bill>>

\* freeze_billing_context: a request is admitted with the price of its tier now,
\* or refused.
Freeze(r, tier, day, minute) ==
  /\ frozen[r] = Absent
  /\ tier \in DOMAIN ActiveVersion.plan
  /\ LET rate == PriceAt(ActiveVersion.plan[tier], day, minute) IN
     /\ rate # Absent
     /\ frozen' = [frozen EXCEPT ![r] =
          [version |-> ActiveVersion.id, tier |-> tier, day |-> day, minute |-> minute,
           rate |-> rate, reference |-> Reference(rate)]]
  /\ UNCHANGED <<priceBook, draft, bill>>

\* The outcome is charged with the price that the request was admitted with.
ChargeFrozen(r, u) ==
  /\ frozen[r] # Absent /\ bill[r] = Absent
  /\ bill' = [bill EXCEPT ![r] = [usage |-> u, nanos |-> Charge(frozen[r].rate, u)]]
  /\ UNCHANGED <<priceBook, draft, frozen>>

PriceNext(plans, ids, moments) ==
  \/ \E a \in Admin, id \in ids :
       \/ \E plan \in plans : UpdatePrices(a, id, plan)
       \/ \E answer \in Optional(OfficialRate) : SyncPrices(a, id, answer)
  \/ \E a \in Admin : SavePrices(a)
  \/ \E r \in Priced, tier \in Tier, m \in moments : Freeze(r, tier, m[1], m[2])
  \/ \E r \in Priced, u \in Usage : ChargeFrozen(r, u)

PriceSpec == PriceInit /\ [][PriceNext(Plan, VersionId, Moment)]_priceVars

-----------------------------------------------------------------------------
(***************************************************************************)
(* Properties.                                                             *)
(***************************************************************************)

\* An accepted version has one price at every time: windows_overlap, which looks
\* at one week, misses no two windows that ever apply together.
OnePrice ==
  \A i \in DOMAIN priceBook : \A t \in DOMAIN priceBook[i].plan :
    \A m \in Moment : PriceAt(priceBook[i].plan[t], m[1], m[2]) # Absent

\* The price a request was admitted with stays on record: its version is still
\* in the book, under a name of its own, and has that rate for that time.
PriceOnRecord ==
  /\ \A i, j \in DOMAIN priceBook : priceBook[i].id = priceBook[j].id => i = j
  /\ \A r \in Priced :
       LET f == frozen[r] IN
       f # Absent /\ f.version # "builtin" =>
         \E i \in DOMAIN priceBook :
           /\ priceBook[i].id = f.version
           /\ PriceAt(priceBook[i].plan[f.tier], f.day, f.minute) = f.rate

\* A usage of up to a million tokens, of kinds that the version prices at all,
\* is charged whichever window applied, and for no more than the reference
\* that admission reckoned with.
ChargeCovered ==
  \A r \in Priced, i \in DOMAIN priceBook :
    LET b == bill[r]
        f == frozen[r]
    IN  /\ b # Absent /\ priceBook[i].id = f.version
        /\ MapThenSumSet(LAMBDA c : b.usage[c], Category) <= Million
        /\ {c \in Category : b.usage[c] > 0} \subseteq
              Dimensions(priceBook[i].plan[f.tier].base.short)
        => b.nanos # Absent /\ b.nanos <= f.reference

\* What a request costs is settled when it is admitted, once and on record.
PricesSound == OnePrice /\ PriceOnRecord /\ ChargeCovered
=============================================================================
