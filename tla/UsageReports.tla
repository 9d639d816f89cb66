---------------------------- MODULE UsageReports ----------------------------
(***************************************************************************)
(* What members and administrators are shown of the ledger: a summary and  *)
(* a trend of a time window, the log in which the attempts of one request  *)
(* are one line, the overview of two adjacent periods, and the pages of    *)
(* the audit log.  The code computes them from a snapshot; here they are   *)
(* operators of a ledger that grows while time passes.                     *)
(*                                                                         *)
(* Times are seconds since 1970.  Windows longer than two years are shown  *)
(* by the months of the calendar.                                          *)
(***************************************************************************)
EXTENDS Integers, Sequences, FiniteSets, SequencesExt

CONSTANTS
  Epoch,        \* the time at which the ledger begins
  Delay,        \* how much time may pass between two events
  Request,      \* ids that clients give their requests
  Offset,       \* offsets of the viewers from UTC, in seconds
  Span,         \* lengths of the windows that viewers ask for, in days
  PageSize,     \* events of a page of the audit log
  MaxLedger, MaxDelays, MaxAuditEvents

ASSUME ReportAssumption ==
  Epoch \in Nat /\ Delay \subseteq Nat /\ Offset \subseteq Int /\ Span \subseteq Nat \ {0}

VARIABLES
  usage,        \* the entries of kind usage and usage_failed, oldest first
  time, delays,
  auditHead,    \* sequence number of the newest audit event
  walk          \* a viewer who pages through the audit log

reportVars == <<usage, time, delays>>
walkVars == <<auditHead, walk>>

Hour == 3600
Day == 24 * Hour
Week == 7 * Day
Month == 30 * Day     \* names the granularity; the months have their own lengths
Unbounded == -1
RowLimit == 400

ReportInit ==
  /\ usage = <<>> /\ time = Epoch /\ delays = 0

WalkInit ==
  /\ auditHead = 0
  /\ walk \in [by : {"cursor", "page"}, cursor : {Unbounded}, page : {1}, head : {Unbounded},
               total : {0}, seen : {<<>>}, done : {FALSE}]

----------------------------------------------------------------------------
(* Windows and buckets.                                                     *)

\* The month of a day and the day of the month.  Years are taken from March to
\* February, so that a leap day is the last of its year, in cycles of 400 years
\* (146097 days); day 0 of the count is 719468 days after the first cycle began.
CalendarDate(day) ==
  LET count == day + 719468
      inCycle == count % 146097
      year == (inCycle - inCycle \div 1460 + inCycle \div 36524 - inCycle \div 146096) \div 365
      inYear == inCycle - (365 * year + year \div 4 - year \div 100)
      month == (5 * inYear + 2) \div 153
  IN  [month |-> 12 * (400 * (count \div 146097) + year) + month,
       day |-> inYear - (153 * month + 2) \div 5 + 1]

LocalDate(t, o) == CalendarDate((t + o) \div Day)

\* The start of the bucket of t, for a viewer with the offset o; weeks begin
\* on a Monday, and day 0 was a Thursday.
UsageBucketStart(t, g, o) ==
  IF g = Month THEN t - ((t + o) % Day) - (LocalDate(t, o).day - 1) * Day
  ELSE LET shift == o + (IF g = Week THEN 3 * Day ELSE 0) IN t - ((t + shift) % g)

\* The bucket after the one that starts at b; the first day of a month is at
\* most 31 days before the next.
NextUsageBucket(b, g, o) ==
  IF g = Month THEN UsageBucketStart(b + 31 * Day, Month, o) ELSE b + g

Hours(period) == CASE period = "1h" -> 1 [] period = "6h" -> 6 [] period = "24h" -> 24
Days(period) == CASE period = "24h" -> 1 [] period = "7d" -> 7 [] period = "14d" -> 14
                  [] period = "30d" -> 30

UsageTimeWindow(q) ==
  IF q.period = "custom"
    THEN [start |-> q.from * Day - q.offset, end |-> (q.to + 1) * Day - q.offset]
  ELSE IF q.period = "all" THEN [start |-> Unbounded, end |-> Unbounded]
  ELSE IF q.auto /\ q.period = "24h"
    THEN [start |-> UsageBucketStart(time, Hour, q.offset) - 23 * Hour, end |-> Unbounded]
  ELSE IF q.auto /\ q.period \in {"7d", "14d", "30d"}
    THEN [start |-> UsageBucketStart(time, Day, q.offset) - (Days(q.period) - 1) * Day,
          end |-> Unbounded]
  ELSE IF q.auto THEN [start |-> time - Hours(q.period) * Hour, end |-> time]
  ELSE IF q.period \in {"1h", "6h"} THEN [start |-> time - Hours(q.period) * Hour, end |-> Unbounded]
  ELSE [start |-> time - Days(q.period) * Day, end |-> Unbounded]

\* filter_member_usage_entries_in_window; the ledger is in order of time.
Within(w, kinds) ==
  SelectSeq(usage, LAMBDA e : /\ e.kind \in kinds
                              /\ w.start = Unbounded \/ e.at >= w.start
                              /\ w.end = Unbounded \/ e.at < w.end)

GranularityFor(length) ==
  IF length <= Hour THEN 10
  ELSE IF length <= 6 * Hour THEN 60
  ELSE IF length <= Day THEN 300
  ELSE IF length <= Week THEN 1800
  ELSE IF length <= 90 * Day THEN Day
  ELSE IF length <= 730 * Day THEN Week
  ELSE Month

UsageGranularity(q, w, entries) ==
  IF ~q.auto THEN Day
  ELSE IF q.period = "custom" THEN GranularityFor(w.end - w.start)
  ELSE IF q.period = "1h" THEN 10
  ELSE IF q.period = "6h" THEN 60
  ELSE IF q.period = "24h" THEN Hour
  ELSE IF q.period \in {"7d", "14d", "30d"} THEN Day
  ELSE IF entries = <<>> THEN Day ELSE GranularityFor(time - entries[1].at)

\* A plausible bug: the bucket that holds the end is left out.
RangeEnd_Short(w, g, o) ==
  UsageBucketStart(IF w.end = Unbounded THEN time ELSE w.end, g, o)

RangeEnd(w, g, o) ==
  LET last == UsageBucketStart(IF w.end = Unbounded THEN time ELSE w.end, g, o) IN
    IF w.end # Unbounded /\ last = w.end THEN last ELSE NextUsageBucket(last, g, o)

RangeStart(w, g, o, entries) ==
  UsageBucketStart(IF w.start # Unbounded THEN w.start ELSE entries[1].at, g, o)

Raw(entries) == FoldLeft(LAMBDA n, e : n + e.raw, 0, entries)

\* How many buckets there are from one that starts at first to one at b, and
\* whether stepping from the one reaches the other.
BucketsBetween(first, b, g, o) ==
  IF g = Month THEN LocalDate(b, o).month - LocalDate(first, o).month ELSE (b - first) \div g
Reaches(first, b, g, o) ==
  IF g = Month THEN \A t \in {first, b} : LocalDate(t, o).day = 1 /\ ((t + o) % Day) = 0
  ELSE ((b - first) % g) = 0

\* The rows between start and end, or a refusal when there are too many.
UsageSummary(q) ==
  LET w == UsageTimeWindow(q)  entries == Within(w, {"usage"})
      g == UsageGranularity(q, w, entries)
      empty == w.start = Unbounded /\ entries = <<>>
      first == RangeStart(w, g, q.offset, entries)
      end == RangeEnd(w, g, q.offset)
      shown(e) == LET b == UsageBucketStart(e.at, g, q.offset) IN
                    first <= b /\ b < end /\ Reaches(first, b, g, q.offset)
  IN IF empty THEN [refused |-> FALSE, summary |-> 0, trend |-> 0]
     ELSE IF first >= end \/ BucketsBetween(first, end, g, q.offset) > RowLimit
     THEN [refused |-> TRUE, summary |-> 0, trend |-> 0]
     ELSE [refused |-> FALSE, summary |-> Raw(entries), trend |-> Raw(SelectSeq(entries, shown))]

----------------------------------------------------------------------------
(* One line per request.                                                    *)

\* A success replaces failed attempts, successes are added up, and the later
\* of two failures is shown.
Merge(line, e) ==
  CASE line.kind = "usage_failed" /\ e.kind = "usage" -> [e EXCEPT !.attempts = line.attempts + 1]
    [] line.kind = "usage_failed" /\ e.kind = "usage_failed" ->
         [(IF e.at > line.at THEN e ELSE line) EXCEPT !.attempts = line.attempts + 1]
    [] line.kind = "usage" /\ e.kind = "usage" ->
         [line EXCEPT !.raw = @ + e.raw, !.attempts = @ + 1, !.at = IF e.at > @ THEN e.at ELSE @]
    [] OTHER -> [line EXCEPT !.attempts = @ + 1]

LogicalUsageEntries(entries) ==
  FoldLeft(LAMBDA lines, e :
             IF e.request \in DOMAIN lines
             THEN [lines EXCEPT ![e.request] = Merge(@, e)]
             ELSE [r \in DOMAIN lines \union {e.request} |-> IF r = e.request THEN e ELSE lines[r]],
           [r \in {} |-> <<>>], entries)

\* The member's log knows neither the viewer's time zone nor aligned periods.
MemberUsageLogs(q) ==
  LogicalUsageEntries(Within(UsageTimeWindow([q EXCEPT !.auto = FALSE, !.offset = 0]),
                             {"usage", "usage_failed"}))

\* The administrator's log, with a summary; both ends of its window belong to it.
AdminConsumptionLogs(from, to) ==
  LET matched == SelectSeq(usage, LAMBDA e : from <= e.at /\ e.at <= to) IN
    [lines |-> LogicalUsageEntries(matched),
     total |-> Raw(SelectSeq(matched, LAMBDA e : e.kind = "usage"))]

----------------------------------------------------------------------------
(* The overview compares a period with the one before it.                   *)

\* The periods end today, the ones that the viewer chooses on any day.
AdminOverviewWindow(ago, days) ==
  LET end == UsageBucketStart(time, Day, 0) + Day - ago * Day IN
    [end |-> end, start |-> end - days * Day, previous |-> end - 2 * days * Day]

OverviewCurrent(w) == SelectSeq(usage, LAMBDA e : e.kind = "usage" /\ e.at >= w.start /\ e.at < w.end)
OverviewPrevious(w) ==
  SelectSeq(usage, LAMBDA e : e.kind = "usage" /\ e.at >= w.previous /\ e.at < w.start)

\* The row of each day holds that day of both periods.
OverviewTrend(w, days) ==
  LET ofDay(entries, from) ==
        Raw(SelectSeq(entries, LAMBDA e :
              \E d \in 0 .. (days - 1) : UsageBucketStart(e.at, Day, 0) = from + d * Day))
  IN [current |-> ofDay(OverviewCurrent(w), w.start),
      previous |-> ofDay(OverviewPrevious(w), w.previous)]

----------------------------------------------------------------------------
(* The audit log, newest first.                                             *)

Before(s, cursor) == cursor = Unbounded \/ s < cursor

\* The events before the cursor, newest first, without the first offset of them.
AdminAuditEvents(cursor, offset) ==
  LET older == Reverse(SetToSortSeq({s \in 1 .. auditHead : Before(s, cursor)}, <))
      last == IF offset + PageSize < Len(older) THEN offset + PageSize ELSE Len(older)
  IN [items |-> SubSeq(older, offset + 1, last), total |-> Len(older)]

----------------------------------------------------------------------------

Enter(kind, r) ==
  /\ Len(usage) < MaxLedger
  /\ usage' = Append(usage, [kind |-> kind, at |-> time, request |-> r,
                             raw |-> IF kind = "usage" THEN 1 ELSE 0, attempts |-> 1])
  /\ UNCHANGED <<time, delays>>

TimePasses(d) ==
  /\ delays < MaxDelays /\ delays' = delays + 1 /\ time' = time + d
  /\ UNCHANGED usage

AppendAuditEvent ==
  /\ auditHead < MaxAuditEvents /\ auditHead' = auditHead + 1
  /\ UNCHANGED walk

\* The viewer has loaded a page: the first one tells which events there were.
Loaded(page, done) ==
  [walk EXCEPT !.seen = @ \o page.items, !.done = done, !.total = page.total,
               !.head = IF @ = Unbounded THEN auditHead ELSE @]

\* AuditEventsView counts pages: it asks for the offset of the next one until
\* the total that came with the last one is reached.
ReadAuditPage ==
  /\ ~walk.done /\ walk.by = "page"
  /\ LET page == AdminAuditEvents(Unbounded, (walk.page - 1) * PageSize) IN
       walk' = [Loaded(page, walk.page * PageSize >= page.total) EXCEPT !.page = @ + 1]
  /\ UNCHANGED auditHead

\* Another client of the interface asks for the page before the last event that
\* it has seen.
ReadAuditBefore ==
  /\ ~walk.done /\ walk.by = "cursor"
  /\ LET page == AdminAuditEvents(walk.cursor, 0)  n == Len(page.items) IN
       walk' = [Loaded(page, n < PageSize) EXCEPT !.cursor = IF n = 0 THEN @ ELSE page.items[n]]
  /\ UNCHANGED auditHead

ReportNext ==
  \/ \E kind \in {"usage", "usage_failed"}, r \in Request : Enter(kind, r)
  \/ \E d \in Delay : TimePasses(d)

WalkNext == AppendAuditEvent \/ ReadAuditPage \/ ReadAuditBefore

----------------------------------------------------------------------------

Today == time \div Day

Query ==
  [period : {"1h", "6h", "24h", "7d", "14d", "30d", "all"}, auto : BOOLEAN, offset : Offset]
    \union {[period |-> "custom", from |-> Today + 1 - n, to |-> Today + k, auto |-> auto,
             offset |-> o] : n \in Span, k \in 0 .. 1, auto \in BOOLEAN, o \in Offset}

Values(lines, kind) ==
  FoldSet(LAMBDA r, n : n + lines[r].raw, 0, {r \in DOMAIN lines : lines[r].kind = kind})

\* The figures agree with each other: the rows of a trend add up to the
\* summary above them, whatever window, granularity and time zone; an
\* automatic granularity never has too many rows; a log in the same window
\* adds up to the summary, and the administrator's to its own; it accounts for
\* every attempt, in whatever order the entries come; and the days of the
\* overview add up to the two periods.
UsageReportsAgree ==
  usage # <<>> =>
  /\ \A q \in Query :
       LET report == UsageSummary(q) IN
         /\ report.trend = report.summary
         /\ q.auto => ~report.refused
         /\ ~q.auto /\ q.offset = 0 /\ ~report.refused =>
              Values(MemberUsageLogs(q), "usage") = report.summary
  /\ \A i, j \in DOMAIN usage :
       LET log == AdminConsumptionLogs(usage[i].at, usage[j].at) IN
         Values(log.lines, "usage") = log.total
  /\ LET lines == LogicalUsageEntries(usage)  turned == LogicalUsageEntries(Reverse(usage)) IN
       /\ FoldSet(LAMBDA r, n : n + lines[r].attempts, 0, DOMAIN lines) = Len(usage)
       /\ lines = turned
  /\ \A ago \in 0 .. 1, days \in {1, 7, 90, 366} :
       LET w == AdminOverviewWindow(ago, days)  t == OverviewTrend(w, days) IN
         /\ t.current = Raw(OverviewCurrent(w)) /\ t.previous = Raw(OverviewPrevious(w))

\* Events are added while someone pages through the audit log.  By the cursor
\* every event that existed at the start is seen exactly once, newest first.  By
\* the page numbers of the administrator's view the new events push the others
\* down: none of those that existed at the start is passed over, and no more
\* lines repeat than events were added.
AuditWalkComplete ==
  walk.done =>
    IF walk.by = "cursor" THEN walk.seen = [i \in 1 .. walk.head |-> walk.head + 1 - i]
    ELSE LET shown == {walk.seen[i] : i \in DOMAIN walk.seen} IN
           /\ 1 .. walk.head \subseteq shown
           /\ Len(walk.seen) - Cardinality(shown) <= walk.total - walk.head

\* What is shown of the ledger and of the audit log is true of them: the figures
\* agree and the pages are complete.
ReportsSound == UsageReportsAgree /\ AuditWalkComplete
=============================================================================
