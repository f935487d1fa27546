----------------------------- MODULE LeaveDates -----------------------------
(***************************************************************************)
(* The calendar arithmetic of a leave request.  A "date" column is a day   *)
(* number (days since the epoch).  The ISO string a client sends for one   *)
(* may carry a time of day and a zone, and is read by two readers: read is *)
(* the date and time of day that MySQL takes from it, in minutes, and      *)
(* instant the minute since the epoch that new Date() makes of it.         *)
(***************************************************************************)
EXTENDS Integers

MinutesPerDay == 24 * 60

Midnight(day) == day * MinutesPerDay

(* What a "date" column keeps of a string, and whether it drops anything.  *)
DayOf(minute) == minute \div MinutesPerDay
Timed(minute) == minute # Midnight(DayOf(minute))

(* Inclusive number of days of a leave.                                    *)
Duration(from, to) == (to - from) + 1

(* What the worker decides: one or two days are approved automatically,    *)
(* everything else (an inverted range included) waits for a manager.       *)
Verdict(from, to) ==
    IF Duration(from, to) <= 2 /\ Duration(from, to) > 0
    THEN "APPROVED"
    ELSE "PENDING_APPROVAL"

(* Two ranges of days share a day.                                         *)
Overlaps(a, b) == a.from <= b.to /\ a.to >= b.from

(* The overlap predicate of the SQL query of LeaveRequestService.create, on*)
(* the columns of row x and the strings of the body: a column counts as the*)
(* midnight its day begins with.                                           *)
Finds(x, from, to) ==
    Midnight(x.from) <= to.read /\ Midnight(x.to) >= from.read

(* today.setHours(0, 0, 0, 0): the start of the server's local day that    *)
(* contains the instant now; offset is the zone's minutes east of UTC.     *)
LocalDay(now, offset) == DayOf(now + offset)
LocalMidnight(now, offset) == Midnight(LocalDay(now, offset)) - offset

IsFutureDate(instant, now, offset) == instant >= LocalMidnight(now, offset)

IsEndDateAfterStartDate(from, to) == to.instant >= from.instant
=============================================================================
