---------------------------- MODULE MCHistoryPage ----------------------------
(* An instance of HistoryPage for TLC, around Sunday 2026-11-01. *)
EXTENDS HistoryPage

Sunday == 24 * MonthStart(34)

SaoPaulo == [at |-> Sunday + 3, before |-> -3, after |-> -2]      \* midnight is skipped
Havana == [at |-> Sunday + 5, before |-> -4, after |-> -5]        \* midnight comes twice
Denver == [at |-> Sunday + 9, before |-> -7, after |-> -6]        \* two o'clock is skipped

SomeZones == {SaoPaulo, Havana, Denver}
TwoInstants == {Sunday + 12, Sunday + 30}
Links == {[period |-> "none", from |-> NoDate, to |-> NoDate],
          [period |-> "week", from |-> Sunday - 50, to |-> Sunday + 20]}

(* The addresses that the page can come to. *)
Addresses ==
  Links \cup {SerializeHistoryRange(ParseHistorySearch(s, t, z)) :
              s \in Links, t \in Instants, z \in Zones}
        \cup {SerializeHistoryRange(GetPeriodRange(p, t, z)) :
              p \in Periods, t \in Instants, z \in Zones}

(* The bound of the calendar is large enough. *)
ASSUME CalendarAssumption == CalendarReaches(Addresses)
=============================================================================
