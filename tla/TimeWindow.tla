---- MODULE TimeWindow ----
(***************************************************************************)
(* SearchTimeWindow (bluesec1_agent/models.py): how the two boundaries of  *)
(* a search, as the LLM writes them, become an interval of UTC instants.   *)
(*                                                                         *)
(* Time is counted in ticks from the first instant a datetime can hold.    *)
(* The calendar has Days days, so that a time with an offset may denote an *)
(* instant that is outside of it.                                          *)
(***************************************************************************)
EXTENDS Integers

CONSTANTS
    Days,           \* days of the calendar (datetime.min to datetime.max)
    TicksPerDay,
    MaxOffset       \* largest offset from UTC, less than a day

ASSUME TimeWindowAssumption ==
    /\ Days \in Nat \ {0}
    /\ TicksPerDay \in Nat \ {0}
    /\ MaxOffset \in 0 .. TicksPerDay - 1

Instants == 0 .. Days * TicksPerDay - 1

\* A boundary is a calendar day, a local time with its offset, or anything else:
\* no string, a time without an offset, a date that does not exist.
Boundaries ==
    [form : {"day"}, at : 0 .. Days - 1, offset : {0}]
    \cup [form : {"instant"}, at : Instants, offset : -MaxOffset .. MaxOffset]
    \cup [form : {"malformed"}, at : {0}, offset : {0}]

StartOfDay(day) == day * TicksPerDay

\* Mutant of EndOfDay: a day as the upper boundary ends when it begins.
EndAtMidnight(day) == StartOfDay(day)

EndOfDay(day) == StartOfDay(day) + TicksPerDay - 1

\* astimezone(UTC)
ToUtc(b) == b.at - b.offset

Time(u) == [status |-> "time", at |-> u]
Error(e) == [status |-> e, at |-> 0]

\* _parse_time_boundary.  An instant outside the calendar is an OverflowError,
\* which is no ValueError.
ParseTimeBoundary(b, upper) ==
    CASE b.form = "day" -> Time(IF upper THEN EndOfDay(b.at) ELSE StartOfDay(b.at))
      [] b.form = "instant" /\ ToUtc(b) \in Instants -> Time(ToUtc(b))
      [] b.form = "instant" /\ ToUtc(b) \notin Instants -> Error("OverflowError")
      [] b.form = "malformed" -> Error("ValueError")

\* Both fields are validated, then their order.  Pydantic collects ValueErrors
\* and lets every other exception pass.
ValidateWindow(from, to) ==
    LET f == ParseTimeBoundary(from, FALSE)
        t == ParseTimeBoundary(to, TRUE)
        errors == {f.status, t.status} \ {"time"}
    IN  CASE "OverflowError" \in errors -> "OverflowError"
          [] errors = {"ValueError"} -> "ValueError"
          [] errors = {} -> IF f.at > t.at THEN "ValueError" ELSE "window"

\* The interval of a window that was accepted.
Interval(from, to) ==
    ParseTimeBoundary(from, FALSE).at .. ParseTimeBoundary(to, TRUE).at

====
