---------------------------- MODULE HistoryModel ----------------------------
(***************************************************************************)
(* history-model.ts: calendar periods in a time zone, the search part of   *)
(* the address, and what is drawn and summed from the points of a period.  *)
(*                                                                         *)
(* Time is counted in hours from 2024-01-01T00:00Z, a Monday; a month is   *)
(* counted from January 2024.  A zone changes its offset at most once.     *)
(* The thresholds of the minute chart, 90 s and 6 min, are scaled to       *)
(* MinuteGap and CloudGap hours: nothing compares the two scales.          *)
(***************************************************************************)
EXTENDS Integers, Sequences, FiniteSets, TLC, SequencesExt, FiniteSetsExt

CONSTANTS
  MinuteGap,      \* the longest step between two samples of the minute chart
  CloudGap,       \* the same between two samples five minutes apart by nature
  Months          \* bound: months the calendar knows

ASSUME GapAssumption == MinuteGap \in Nat /\ CloudGap \in Nat
ASSUME MonthsAssumption == Months \in Nat \ {0}

Periods == {"day", "week", "month", "year"}
NoDate == -1        \* a date that is missing or cannot be parsed

-----------------------------------------------------------------------------
(* Dates as JavaScript computes them (Date.UTC and its inverse) for years   *)
(* in which every fourth is a leap year.  A day past the end of its month   *)
(* runs into the next one.                                                  *)

DaysBefore == <<0, 31, 59, 90, 120, 151, 181, 212, 243, 273, 304, 334>>

MonthStart(month) ==
  LET year == month \div 12
      leapDay == IF year % 4 = 0 /\ month % 12 >= 2 THEN 1 ELSE 0
  IN 365 * year + (year + 3) \div 4 + DaysBefore[(month % 12) + 1] + leapDay

MonthStarts == [m \in 0..Months |-> MonthStart(m)]

UTC(parts) == 24 * (MonthStart(parts.month) + parts.day - 1) + parts.hour

Civil(hours) ==
  LET day == hours \div 24
      month == CHOOSE m \in 0..(Months - 1) : MonthStarts[m] <= day /\ day < MonthStarts[m + 1]
  IN [month |-> month, day |-> day - MonthStarts[month] + 1, hour |-> hours % 24]

(* A zone: hours added to universal time before and from the instant at. *)
Offset(zone, t) == IF t < zone.at THEN zone.before ELSE zone.after

CalendarParts(t, zone) == Civil(t + Offset(zone, t))

(* Three corrections of a first guess; a local time that the zone skips has *)
(* no answer, and one that it repeats has two.                              *)
ZonedCalendarToDate(parts, zone) ==
  LET desired == UTC(parts)
      correct(candidate) == candidate + desired - UTC(CalendarParts(candidate, zone))
  IN correct(correct(correct(desired)))

-----------------------------------------------------------------------------
(* Periods. *)

ShiftCalendar(parts, period, amount) ==
  LET midnight == [parts EXCEPT !.hour = 0]
  IN Civil(UTC(CASE period = "day"   -> [midnight EXCEPT !.day = @ + amount]
                 [] period = "week"  -> [midnight EXCEPT !.day = @ + 7 * amount]
                 [] period = "month" -> [midnight EXCEPT !.month = @ + amount]
                 [] period = "year"  -> [midnight EXCEPT !.month = @ + 12 * amount]))

SundayStart(period, anchor, zone) ==      \* Mutant: weeks begin on Sunday for Sundays
  LET midnight == [CalendarParts(anchor, zone) EXCEPT !.hour = 0]
      weekday == (UTC(midnight) \div 24 + 1) % 7
  IN CASE period = "day"   -> midnight
       [] period = "week"  -> ShiftCalendar(midnight, "day", 1 - weekday)
       [] period = "month" -> [midnight EXCEPT !.day = 1]
       [] period = "year"  -> [[midnight EXCEPT !.day = 1] EXCEPT !.month = @ - (@ % 12)]

(* Weeks begin on Monday. *)
PeriodStart(period, anchor, zone) ==
  LET midnight == [CalendarParts(anchor, zone) EXCEPT !.hour = 0]
      weekday == (UTC(midnight) \div 24 + 1) % 7
  IN CASE period = "day"   -> midnight
       [] period = "week"  -> ShiftCalendar(midnight, "day", -((weekday + 6) % 7))
       [] period = "month" -> [midnight EXCEPT !.day = 1]
       [] period = "year"  -> [[midnight EXCEPT !.day = 1] EXCEPT !.month = @ - (@ % 12)]

Resolution(period) ==
  CASE period = "day"   -> "minute"
    [] period = "week"  -> "hour"
    [] period = "month" -> "day"
    [] period = "year"  -> "month"

GetPeriodRange(period, anchor, zone) ==
  LET start == PeriodStart(period, anchor, zone)
      from == ZonedCalendarToDate(start, zone)
  IN [period |-> period, resolution |-> Resolution(period),
      from |-> from,
      to |-> ZonedCalendarToDate(ShiftCalendar(start, period, 1), zone),
      previousFrom |-> ZonedCalendarToDate(ShiftCalendar(start, period, -1), zone),
      previousTo |-> from]

-----------------------------------------------------------------------------
(* The address: a period, or anything else, and two dates. *)

Accepts(search, period) ==
  /\ search.from # NoDate /\ search.to # NoDate
  /\ search.from < search.to
  /\ ~(Resolution(period) = "minute" /\ search.to - search.from > 366 * 24)

(* The dates choose the period that holds their middle. *)
ParseHistorySearch(search, anchor, zone) ==
  LET period == IF search.period \in Periods THEN search.period ELSE "day"
  IN GetPeriodRange(period, IF Accepts(search, period)
                            THEN search.from + (search.to - search.from) \div 2
                            ELSE anchor, zone)

SerializeHistoryRange(range) == [period |-> range.period, from |-> range.from, to |-> range.to]

-----------------------------------------------------------------------------
(* Points: of a minute [at, power, interval], of a longer bucket            *)
(* [at, energy, power, coverage, minutes], power being the bucket's peak.   *)

IsMinutePoint(point) == "interval" \in DOMAIN point

CloudSequence(previous, point) ==
  IsMinutePoint(previous) /\ IsMinutePoint(point) /\ previous.interval = 5 /\ point.interval = 5

MaximumGap(previous, point, resolution) ==
  CASE resolution = "minute" -> IF CloudSequence(previous, point) THEN CloudGap ELSE MinuteGap
    [] resolution = "hour"   -> 1        \* 90 minutes, in whole hours
    [] resolution = "day"    -> 36
    [] resolution = "month"  -> 46 * 24

(* The members of a finite set of numbers in increasing order. *)
Ranked(S) ==
  [i \in 1..Cardinality(S) |-> CHOOSE n \in S : Cardinality({m \in S : m <= n}) = i]

(* A new segment starts with the first point and after every gap. *)
ToAdaptiveChartSegments(points, resolution) ==
  LET starts == Ranked({i \in DOMAIN points : i = 1
                          \/ points[i].at - points[i - 1].at
                               > MaximumGap(points[i - 1], points[i], resolution)})
  IN [s \in DOMAIN starts |->
        SubSeq(points, starts[s], IF s = Len(starts) THEN Len(points) ELSE starts[s + 1] - 1)]

Peak(points) == Max({0} \cup {points[i].power : i \in DOMAIN points})

Total(points, amount(_)) == MapThenSumSet(LAMBDA i : amount(points[i]), DOMAIN points)

LanGapOnly(points) ==      \* Mutant: the sum knows nothing of the cloud's interval
  LET elapsed(i) == points[i].at - points[i - 1].at
      counted == {i \in 2..Len(points) : elapsed(i) > 0 /\ elapsed(i) <= MinuteGap}
  IN [coverage |-> <<>>, peak |-> Peak(points),
      energy |-> MapThenSumSet(LAMBDA i : (points[i - 1].power + points[i].power) * elapsed(i),
                               counted),
      minutes |-> MapThenSumSet(elapsed,
                    {i \in counted : points[i - 1].power > 0 \/ points[i].power > 0})]

(* Trapezia between samples that are not too far apart; energy is in half  *)
(* units.  No coverage: <<>>, otherwise a fraction <<weight, duration>>.   *)
SummarizeMinute(points) ==
  LET elapsed(i) == points[i].at - points[i - 1].at
      counted == {i \in 2..Len(points) :
                    /\ elapsed(i) > 0
                    /\ elapsed(i) <= MaximumGap(points[i - 1], points[i], "minute")}
  IN [coverage |-> <<>>, peak |-> Peak(points),
      energy |-> MapThenSumSet(LAMBDA i : (points[i - 1].power + points[i].power) * elapsed(i),
                               counted),
      minutes |-> MapThenSumSet(elapsed,
                    {i \in counted : points[i - 1].power > 0 \/ points[i].power > 0})]

BucketEnd(at, resolution, zone) ==
  IF resolution = "hour" THEN at + 1
  ELSE ZonedCalendarToDate(ShiftCalendar(CalendarParts(at, zone), resolution, 1), zone)

SummarizeAggregate(points, resolution, window) ==
  LET overlap(point) == Max({0, Min({window.to, BucketEnd(point.at, resolution, window.zone)})
                                  - Max({window.from, point.at})})
      weight == Total(points, LAMBDA p : Min({100, Max({0, p.coverage})}) * overlap(p))
  IN [coverage |-> IF window.to > window.from THEN <<weight, window.to - window.from>> ELSE <<>>,
      peak |-> Peak(points),
      energy |-> Total(points, LAMBDA p : p.energy),
      minutes |-> Total(points, LAMBDA p : p.minutes)]

(* The points arrive in any order. *)
BuildHistoryView(points, resolution, window) ==
  LET ordered == SortSeq(points, LAMBDA p, q : p.at < q.at)
      segments == ToAdaptiveChartSegments(ordered, resolution)
      summary == IF \A i \in DOMAIN ordered : IsMinutePoint(ordered[i])
                 THEN SummarizeMinute(ordered)
                 ELSE SummarizeAggregate(ordered, resolution, window)
  IN [chartPoints |-> ordered, segments |-> segments, summary |-> summary,
      gaps |-> [i \in 1..(Len(segments) - 1) |->
                  [from |-> Last(segments[i]).at, to |-> segments[i + 1][1].at]],
      hasLowCoverage |-> summary.coverage # <<>>
                           /\ summary.coverage[1] < 95 * summary.coverage[2]]

-----------------------------------------------------------------------------
(* The rows of the chart: cells of the two curves and the labels of gaps.   *)
(* Places on the time axis are multiplied by twice the previous duration,   *)
(* which makes them whole.                                                  *)

Cells(view, curve, place(_)) ==
  UNION {{[curve |-> curve, segment |-> s, at |-> place(view.segments[s][i].at)] :
            i \in DOMAIN view.segments[s]} : s \in DOMAIN view.segments}

(* The curve of the previous period is stretched over the current one. *)
BuildChartRows(current, previous, range) ==
  LET duration == range.to - range.from
      unit == 2 * (range.previousTo - range.previousFrom)
  IN Cells(current, "current", LAMBDA at : at * unit)
       \cup Cells(previous, "previous",
                  LAMBDA at : range.from * unit + 2 * (at - range.previousFrom) * duration)
       \cup {[curve |-> "gap", segment |-> g,
              at |-> (current.gaps[g].from + current.gaps[g].to) * (unit \div 2)] :
               g \in DOMAIN current.gaps}
=============================================================================
