----------------------------- MODULE HistoryPage -----------------------------
(***************************************************************************)
(* HistoryPage.tsx: the period on the page, the entries of the browser's   *)
(* history that lead to it, and the two queries it draws.  The page is     *)
(* shown only while the settings, and with them the time zone, are known;  *)
(* it reads the period from the address when it is mounted.                *)
(*                                                                         *)
(* React runs the effect that rewrites the address before the next event,  *)
(* so it is part of the step that sets the period.                         *)
(***************************************************************************)
EXTENDS HistoryModel

CONSTANTS
  Zones,          \* time zones the settings may name
  Instants,       \* hours at which something happens
  Searches,       \* addresses a link, a bookmark or the user may open
  Shapes,         \* what the server has stored: subset of {"none", "holes"}
  MaxEntries,     \* bound: entries of the history
  PageEvents      \* bound: visits, reloads, choices of a period, failures, changes of settings

ASSUME HistoryAssumption ==
  /\ \A z \in Zones : z.at \in Int /\ {z.before, z.after} \subseteq -24..24
                      /\ z.after - z.before \in -11..11      \* less than half a day
  /\ Instants \subseteq Nat /\ Instants # {}
  /\ MaxEntries \in Nat \ {0} /\ PageEvents \in Nat

VARIABLES
  now, zone,      \* new Date() and the time zone of the settings
  have,           \* server: what it has of every period, one of Shapes
  view,           \* "waiting" for the settings, "unavailable", or "content"
  entries, pos,   \* the search parts of the entries and the current one
  range,          \* the period of the mounted page
  seen,           \* history: the period and zone each entry was shown with
  cache,          \* react-query: answers by key
  happened

pageVars == <<now, zone, have, view, entries, pos, range, seen, cache, happened>>

NoRange == [period |-> "none"]
Unseen == [range |-> NoRange, zone |-> NoRange]

-----------------------------------------------------------------------------
(* The server's answer to /history.  A summary is kept by the name of its   *)
(* local day or month, and what is answered is when that begins, if it is   *)
(* inside the dates asked for.                                              *)

LocalDay(z, t) == (t + Offset(z, t)) \div 24

(* Go parses a day's name with the offset in force at a first guess.  The   *)
(* guess is good but where midnight is skipped west of Greenwich, or comes  *)
(* twice east of it.                                                        *)
ParseInLocation(day, z) == 24 * day - Offset(z, 24 * day - Offset(z, 24 * day))

BucketStarts(from, to, resolution, z) ==
  LET days == CASE resolution = "day"   -> LocalDay(z, from)..LocalDay(z, to)
                [] resolution = "month" ->
                     {MonthStarts[m] : m \in CalendarParts(from, z).month
                                             ..CalendarParts(to, z).month}
  IN IF resolution = "hour" THEN from..(to - 1)
     ELSE {ParseInLocation(d, z) : d \in days} \cap from..(to - 1)

Sample(at, power, interval) == [at |-> at, power |-> power, interval |-> interval]
Bucket(at, coverage) ==
  [at |-> at, power |-> coverage, energy |-> coverage, coverage |-> coverage, minutes |-> 1]

(* With holes there are samples of the cloud, then of the logger, then     *)
(* nothing for a while; or the second bucket is missing and of the others   *)
(* every second one is full and the rest are half full.                     *)
Points(answer, z) ==
  CASE answer.shape = "none" -> <<>>
    [] answer.shape # "none" /\ answer.resolution = "minute" ->
         <<Sample(answer.to - 1, 1, 5), Sample(answer.from, 3, 5),
           Sample(answer.from + CloudGap, 1, 5), Sample(answer.from + CloudGap + 1, 0, 1)>>
    [] OTHER ->
         LET starts == IF answer.resolution = "hour"
                       THEN [i \in 1..(answer.to - answer.from) |-> answer.from + i - 1]
                       ELSE Ranked(BucketStarts(answer.from, answer.to, answer.resolution, z))
         IN [i \in 1..(Len(starts) - 1) |->
               Bucket(starts[IF i = 1 THEN 1 ELSE i + 1], IF i % 2 = 1 THEN 100 ELSE 50)]

-----------------------------------------------------------------------------
(* The two queries. *)

Window(r, which) == IF which = "previous" THEN [from |-> r.previousFrom, to |-> r.previousTo]
                    ELSE [from |-> r.from, to |-> r.to]

KeyWithoutDates(r, which) ==      \* Mutant: the dates are not in the key
  <<r.period, which, 0, 0, r.resolution>>

(* requestOptions: the key under which an answer is kept. *)
Key(r, which) == <<r.period, which, Window(r, which).from, Window(r, which).to, r.resolution>>

Keys(r) == {Key(r, "current"), Key(r, "previous")}

Pending == [status |-> "pending"]
Failed(query) == [query EXCEPT !.status = "error"]
HasData(query) == "from" \in DOMAIN query

(* Observing the keys of a period fetches what has no data; a fetch nobody  *)
(* observes any more is aborted.                                            *)
Observe(r, c) ==
  LET kept == {k \in DOMAIN c : HasData(c[k])}
  IN [k \in kept \cup Keys(r) |-> IF k \in kept THEN c[k] ELSE Pending]

Query(which) == cache[Key(range, which)]

View(which) ==
  BuildHistoryView(Points(Query(which), zone), range.resolution,
                   [from |-> Window(range, which).from, to |-> Window(range, which).to,
                    zone |-> zone])

Screen ==
  CASE view # "content" -> view
    [] view = "content" /\ (\E w \in {"current", "previous"} : Query(w).status = "pending") ->
         "loading"
    [] view = "content" /\ (\A w \in {"current", "previous"} : Query(w).status # "pending")
         /\ (\E w \in {"current", "previous"} : Query(w).status = "error") -> "error"
    [] OTHER -> IF Query("current").shape = "none" THEN "empty" ELSE "page"

-----------------------------------------------------------------------------
(* Setting the period. *)

(* The effect on [range]: the address of the entry names the period. *)
ReplaceState(stack, p, r) == [stack EXCEPT ![p] = SerializeHistoryRange(r)]

SetRange(r, stack, p, past, c) ==
  /\ range' = r
  /\ entries' = ReplaceState(stack, p, r)
  /\ pos' = p
  /\ seen' = [past EXCEPT ![p] = [range |-> r, zone |-> zone']]
  /\ cache' = Observe(r, c)

Unmount == range' = NoRange

Event == happened < PageEvents /\ happened' = happened + 1

PageInit ==
  /\ now \in {Min(Instants)} /\ zone \in Zones /\ have \in Shapes
  /\ view = "waiting"
  /\ \E s \in Searches : entries = <<s>>
  /\ pos = 1 /\ range = NoRange
  /\ seen = <<Unseen>>
  /\ cache = <<>>
  /\ happened = 0

Push(stack, item) == Append(SubSeq(stack, 1, pos), item)

(* A link or an address opens the page anew; entries ahead are lost. *)
OpenPage(search) ==
  /\ Event /\ pos < MaxEntries
  /\ entries' = Push(entries, search) /\ seen' = Push(seen, Unseen)
  /\ pos' = pos + 1
  /\ view' = "waiting" /\ Unmount
  /\ UNCHANGED <<now, zone, have, cache>>

(* Everything but the entries is lost. *)
Reload ==
  /\ Event
  /\ view' = "waiting" /\ Unmount /\ cache' = <<>>
  /\ UNCHANGED <<now, zone, have, entries, pos, seen>>

(* HistoryPage: the settings arrive; the page is mounted if it was not. *)
SettingsArrive(z) ==
  /\ \/ z = zone /\ view # "content" /\ UNCHANGED happened
     \/ z # zone /\ Event
  /\ zone' = z /\ view' = "content"
  /\ \/ /\ view # "content"
        /\ SetRange(ParseHistorySearch(entries[pos], now, z), entries, pos, seen, cache)
     \/ /\ view = "content"       \* useState keeps the period of the old zone
        /\ UNCHANGED <<entries, pos, range, seen, cache>>
  /\ UNCHANGED <<now, have>>

(* A failed refetch too takes the page away. *)
SettingsFail ==
  /\ Event
  /\ view' = "unavailable" /\ Unmount
  /\ UNCHANGED <<now, zone, have, entries, pos, seen, cache>>

PopToday(p) ==      \* Mutant: only the kind of period is read from the address
  /\ p \in {pos - 1, pos + 1} \cap DOMAIN entries
  /\ \/ /\ view = "content"
        /\ zone' = zone
        /\ SetRange(ParseHistorySearch([entries[p] EXCEPT !.from = NoDate], now, zone),
                    entries, p, seen, cache)
     \/ /\ view # "content"
        /\ pos' = p
        /\ UNCHANGED <<zone, entries, range, seen, cache>>
  /\ UNCHANGED <<now, have, view, happened>>

(* The page listens to popstate only while it is mounted. *)
PopState(p) ==
  /\ p \in {pos - 1, pos + 1} \cap DOMAIN entries
  /\ \/ /\ view = "content"
        /\ zone' = zone
        /\ SetRange(ParseHistorySearch(entries[p], now, zone), entries, p, seen, cache)
     \/ /\ view # "content"
        /\ pos' = p
        /\ UNCHANGED <<zone, entries, range, seen, cache>>
  /\ UNCHANGED <<now, have, view, happened>>

(* The picker is on the page and on the empty page. *)
ChangePeriod(period) ==
  /\ Event /\ Screen \in {"page", "empty"} /\ pos < MaxEntries
  /\ zone' = zone
  /\ LET next == GetPeriodRange(period, now, zone)
     IN SetRange(next, Push(entries, SerializeHistoryRange(next)), pos + 1,
                 Push(seen, Unseen), cache)
  /\ UNCHANGED <<now, have, view>>

(* An answer reaches the key it was asked for. *)
Receive(which) ==
  /\ view = "content" /\ Query(which).status = "pending"
  /\ cache' = [cache EXCEPT ![Key(range, which)] =
                 [status |-> "ok", resolution |-> range.resolution, shape |-> have,
                  from |-> Window(range, which).from, to |-> Window(range, which).to]]
  /\ UNCHANGED <<now, zone, have, view, entries, pos, range, seen, happened>>

ReceiveError(which) ==
  /\ view = "content" /\ Query(which).status = "pending"
  /\ Event
  /\ cache' = [cache EXCEPT ![Key(range, which)] = Failed(@)]
  /\ UNCHANGED <<now, zone, have, view, entries, pos, range, seen>>

(* Refetching on focus keeps the data; its failure hides them. *)
RefetchFails(which) ==
  /\ view = "content" /\ Query(which).status = "ok"
  /\ Event
  /\ cache' = [cache EXCEPT ![Key(range, which)] = Failed(@)]
  /\ UNCHANGED <<now, zone, have, view, entries, pos, range, seen>>

(* The button refetches both. *)
Retry ==
  /\ Screen = "error"
  /\ cache' = [k \in DOMAIN cache |->
                 IF k \in Keys(range) /\ cache[k].status = "error"
                 THEN IF HasData(cache[k]) THEN [cache[k] EXCEPT !.status = "ok"] ELSE Pending
                 ELSE cache[k]]
  /\ UNCHANGED <<now, zone, have, view, entries, pos, range, seen, happened>>

Tick(t) ==
  /\ t > now /\ now' = t
  /\ UNCHANGED <<zone, have, view, entries, pos, range, seen, cache, happened>>

PageNext ==
  \/ \E s \in Searches : OpenPage(s)
  \/ Reload \/ SettingsFail \/ Retry
  \/ \E z \in Zones : SettingsArrive(z)
  \/ \E p \in 1..MaxEntries : PopState(p)
  \/ \E p \in Periods : ChangePeriod(p)
  \/ \E w \in {"current", "previous"} :
       Receive(w) \/ ReceiveError(w) \/ RefetchFails(w)
  \/ \E t \in Instants : Tick(t)

PageSpec == PageInit /\ [][PageNext]_pageVars

-----------------------------------------------------------------------------
(* Properties. *)

Ranges == [period : Periods, resolution : {"minute", "hour", "day", "month"},
           from : Nat, to : Nat, previousFrom : Nat, previousTo : Nat]

(* Types of the page's state; the mounted page has a period, and the        *)
(* queries of that period are there.                                        *)
PageTypeOK ==
  /\ now \in Instants /\ zone \in Zones /\ have \in Shapes
  /\ view \in {"waiting", "unavailable", "content"}
  /\ Len(entries) \in 1..MaxEntries /\ pos \in DOMAIN entries /\ Len(seen) = Len(entries)
  /\ IF view = "content" THEN range \in Ranges /\ Keys(range) \subseteq DOMAIN cache
                         ELSE range = NoRange
  /\ happened \in 0..PageEvents

(* Bound: the hours of the months that the calendar knows, and those from   *)
(* which it reaches the neighbouring years.                                 *)
InCalendar(h) == h \in Int /\ 0 <= h /\ h \div 24 < MonthStart(Months)
Inside(t) == t \in Int /\ InCalendar(t - 24 * 740) /\ InCalendar(t + 24 * 740)

(* The calendar reaches far enough for a page whose addresses are in A. *)
CalendarReaches(A) ==
  /\ Searches \subseteq A
  /\ \A t \in Instants : Inside(t)
  /\ \A s \in A : s.from # NoDate /\ s.to # NoDate /\ s.from < s.to
                   => Inside(s.from + (s.to - s.from) \div 2)
  /\ \A z \in Zones, t \in Instants :
       /\ \A s \in A : SerializeHistoryRange(ParseHistorySearch(s, t, z)) \in A
       /\ \A p \in Periods : SerializeHistoryRange(GetPeriodRange(p, t, z)) \in A

(* The zone skips or repeats a local midnight. *)
MidnightShifts(z) ==
  \E h \in Min({z.at + z.before, z.at + z.after})..(Max({z.at + z.before, z.at + z.after}) - 1) :
     h % 24 = 0

(* Where the three corrections of zonedCalendarToDate find the first        *)
(* instant of a day: everywhere but on such a midnight east of Greenwich,   *)
(* or in the middle of several hours that are skipped.                      *)
Regular(z) == MidnightShifts(z) => z.before < 0 /\ z.after <= z.before + 1

Label(period, t, z) ==
  LET day == LocalDay(z, t)
      parts == Civil(24 * day)
  IN CASE period = "day"   -> day
       [] period = "week"  -> day \div 7
       [] period = "month" -> parts.month
       [] period = "year"  -> parts.month \div 12

IsLocalPeriod(r, z) ==
  LET label(t) == Label(r.period, t, z)
  IN /\ label(r.from - 1) # label(r.from) /\ label(r.to - 1) = label(r.from)
     /\ label(r.to) # label(r.from)
     /\ label(r.previousFrom) = label(r.from - 1)
     /\ label(r.previousFrom - 1) # label(r.previousFrom)

NewPeriod == range' # range /\ range' # NoRange
Chosen == view = "content" /\ happened' # happened      \* with the picker

(* A period put on the page begins with the first instant of a local day,   *)
(* week (from Monday), month or year, ends with the last, and is compared   *)
(* with the whole period before, also when the offset changes meanwhile or  *)
(* at midnight; the one chosen with the picker holds the present            *)
(* (getPeriodRange).                                                        *)
PeriodIsLocal ==
  [][(NewPeriod /\ Regular(zone')) =>
       /\ IsLocalPeriod(range', zone')
       /\ Chosen => Label(range'.period, now, zone)
                      = Label(range'.period, range'.from, zone)]_pageVars

(* The address names the period on the page: whoever parses it, at any time *)
(* and in the zone in which the period was chosen, gets the same period     *)
(* (parseHistorySearch after serializeHistoryRange), in every zone.         *)
AddressNamesPeriod ==
  view = "content" =>
    \A t \in Instants : ParseHistorySearch(entries[pos], t, seen[pos].zone) = range

(* Going back or forward, or mounting the page again, to an entry that was  *)
(* shown before shows the period it was shown with, however much time has   *)
(* passed, unless the zone of the settings has changed since.               *)
EntryKeepsPeriod ==
  [][(NewPeriod /\ ~Chosen /\ seen[pos'].range # NoRange /\ seen[pos'].zone = zone')
       => range' = seen[pos'].range]_pageVars

(* What is drawn was asked for the dates of the period on the page: an      *)
(* answer kept from another day is never shown under this one's title.      *)
AnswerIsOfPeriod ==
  view = "content" =>
    \A w \in {"current", "previous"} :
      HasData(Query(w)) =>
        /\ Query(w).from = Window(range, w).from /\ Query(w).to = Window(range, w).to

Trapezia(segment) ==
  MapThenSumSet(LAMBDA i : (segment[i - 1].power + segment[i].power)
                             * (segment[i].at - segment[i - 1].at), 2..Len(segment))

(* The energy of a day is the area under the curve that is drawn: the rule  *)
(* by which the chart breaks its line and the one by which the sum skips a  *)
(* step agree (summarizeMinute and toAdaptiveChartSegments).                *)
EnergyUnderCurve(v) ==
  range.resolution = "minute" =>
    v.summary.energy = MapThenSumSet(LAMBDA s : Trapezia(v.segments[s]), DOMAIN v.segments)

(* Where Go too finds the first instant of a day: everywhere but on a       *)
(* midnight skipped west of Greenwich or repeated east of it.               *)
ServerRegular(z) == MidnightShifts(z) => IF z.before < z.after THEN z.before >= 0 ELSE z.before <= 0

(* The first hour of a local day: midnight before or after the change of    *)
(* the offset, or the change itself when it skips midnight.                 *)
FirstHour(d, z) ==
  Min({t \in {24 * d - z.before, 24 * d - z.after, z.at} : LocalDay(z, t) = d})

FirstDays == {MonthStarts[m] : m \in 0..Months}

(* The hours at which the local days or months of a period begin. *)
FirstHours(r, z) ==
  LET days == LocalDay(z, r.from)..LocalDay(z, r.to - 1)
  IN {FirstHour(d, z) : d \in IF r.resolution = "month" THEN days \cap FirstDays ELSE days}

(* The coverage of a longer period weighs each bucket with the hours its    *)
(* local day or month really has, so that full buckets make 100 % and a     *)
(* missing one costs its own share, also across a change of the offset: the *)
(* day the server names, the instant it answers and the end the page        *)
(* computes belong together (DailyHistory, bucketEnd, summarizeAggregate).  *)
CoverageExact(v) ==
  range.resolution # "minute" /\ Regular(zone) /\ ServerRegular(zone) =>
    LET starts == FirstHours(range, zone)
        end(at) == IF range.resolution = "hour" THEN at + 1
                   ELSE Min({range.to} \cup {s \in starts : s > at})
    IN v.summary.coverage =
         <<Total(v.chartPoints, LAMBDA p : p.coverage * (end(p.at) - p.at)),
           range.to - range.from>>

(* Both curves stay inside the period on the page although the previous one *)
(* may be shorter or longer, and the label of a gap stands between the two  *)
(* points of the current curve it separates (buildChartRows).               *)
RowsInsidePeriod(current, previous) ==
  LET unit == 2 * (range.previousTo - range.previousFrom)
      rows == BuildChartRows(current, previous, range)
      cells == {row \in rows : row.curve = "current"}
  IN /\ \A row \in rows : range.from * unit <= row.at /\ row.at < range.to * unit
     /\ \A gap \in {row \in rows : row.curve = "gap"}, cell \in cells :
          (cell.at < gap.at) <=> (cell.segment <= gap.segment)

(* Address, period and data of the page belong together. *)
PageSound == PageTypeOK /\ AddressNamesPeriod /\ AnswerIsOfPeriod

(* What is drawn and summed up is exact, for a day as for a longer period. *)
ViewExact ==
  Screen = "page" =>
    LET current == View("current")
    IN /\ EnergyUnderCurve(current) /\ CoverageExact(current)
       /\ RowsInsidePeriod(current, View("previous"))
=============================================================================
