----------------------------- MODULE Deadlines ------------------------------
(***************************************************************************)
(* What a text says about its own clock (internal/keywords): ExpiresAt,    *)
(* the end of an offer, and StartsAt, its opening.                         *)
(*                                                                         *)
(* A text is what its patterns match: for each of them the phrases found,  *)
(* in order, with the numbers they carry, which may name no date at all.   *)
(* An opening is looked for at every match, every other pattern reads its  *)
(* first match only (`stated` holds those of its four rules).              *)
(* An instant is a minute of the Gregorian calendar in the reader's zone,  *)
(* so the last second of a day is its last minute; no anchor lies in that  *)
(* minute.  The anchor is the civil moment the announcement was made.      *)
(***************************************************************************)
EXTENDS Integers, SequencesExt

None == -1
DayMinutes == 24 * 60
EndOfDay == DayMinutes - 1

Leap(y) == (y % 4 = 0 /\ y % 100 # 0) \/ y % 400 = 0
MonthLength(y, m) == IF m = 2 /\ Leap(y) THEN 29
                     ELSE <<31, 28, 31, 30, 31, 30, 31, 31, 30, 31, 30, 31>>[m]
DaysBefore(y, m) == <<0, 31, 59, 90, 120, 151, 181, 212, 243, 273, 304, 334>>[m]
                    + (IF m > 2 /\ Leap(y) THEN 1 ELSE 0)

\* time.Date: a day past the end of its month runs on into the next.
DayNumber(y, m, d) ==
    365 * y + (y - 1) \div 4 - (y - 1) \div 100 + (y - 1) \div 400 + DaysBefore(y, m) + d
Minutes(y, m, d, minute) == DayNumber(y, m, d) * DayMinutes + minute
Instant(c) == Minutes(c.year, c.month, c.day, c.minute)

Possible(y, m, d) == m \in 1..12 /\ d \in 1..MonthLength(y, m)
Readable(p) == p.year \in 2000..2100 /\ Possible(p.year, p.month, p.day)

\* The moments a text is read against, and what the patterns capture: digits, which
\* need not name a date or an hour, and an optional clock behind a date.
Moments == {c \in [year : Nat \ {0}, month : Nat, day : Nat, minute : 0..(EndOfDay - 1)] :
               Possible(c.year, c.month, c.day)}

ClockTimes == [part : STRING, hour : Nat, min : Nat]
MonthDays == [month : Nat, day : Nat, clock : Seq(ClockTimes)]
Texts == [lead : Seq(MonthDays), pre : Seq(MonthDays),
          stated : Seq([year : Nat, month : Nat, day : Nat, clock : Seq(ClockTimes)]),
          range : Seq([led : BOOLEAN, year : Nat, month : Nat, day : Nat,
                       clock : Seq(ClockTimes)]),
          short : Seq([month : Nat, day : Nat, tail : Nat, clock : Seq(ClockTimes)]),
          span : Seq([n : Nat, unit : STRING]),
          opens : Seq([year : Nat, month : Nat, day : Nat, part : STRING, hour : Nat, min : Nat,
                       closing : BOOLEAN]),
          dated : BOOLEAN]    \* writtenDateRe: a date in figures stands in the text
-----------------------------------------------------------------------------
\* The afternoon and noon words of a twelve-hour clock.
Hour(k) == k.hour + (IF (k.part = "pm" /\ k.hour < 12) \/ (k.part = "noon" /\ k.hour < 11)
                     THEN 12 ELSE 0)

\* clockAfter: the clock that hugs a date, if there is one and it can be read;
\* 24:00 is the end of that day, and so is a date without a clock.
ClockAfter(clock) ==
    IF clock = <<>> \/ clock[1].hour > 24 THEN EndOfDay
    ELSE LET k == clock[1] IN
         IF Hour(k) = 24 THEN EndOfDay
         ELSE IF k.min > 59 THEN EndOfDay ELSE Hour(k) * 60 + k.min

\* A date with its year behind or before a deadline word.
StatedDeadline(p) ==
    IF Readable(p) THEN Minutes(p.year, p.month, p.day, ClockAfter(p.clock)) ELSE None

\* rangeEnd: the tail of two full dates; its clock must be readable as it stands.
RangeEnd(p) ==
    IF \/ ~p.led \/ ~Readable(p)
       \/ p.clock # <<>> /\ (p.clock[1].hour > 23 \/ p.clock[1].min > 59)
    THEN None
    ELSE Minutes(p.year, p.month, p.day,
                 IF p.clock = <<>> THEN EndOfDay ELSE p.clock[1].hour * 60 + p.clock[1].min)

YearlessSpan == 45 * DayMinutes

\* Mutant: a date that has passed is next year's, however far that is.
YearlessRolls(month, day, clock, anchor) ==
    LET due(y) == Minutes(y, month, day, ClockAfter(clock))
        year == IF due(anchor.year) < Instant(anchor) THEN anchor.year + 1 ELSE anchor.year
    IN  IF ~Possible(anchor.year, month, day) \/ ~Possible(year, month, day)
        THEN None ELSE due(year)

\* yearlessDeadline: this year's date, or next year's when this year's has
\* passed, and neither when that is too far ahead or impossible.
YearlessDeadline(month, day, clock, anchor) ==
    IF ~Possible(anchor.year, month, day) THEN None
    ELSE LET due(y) == Minutes(y, month, day, ClockAfter(clock))
             year == IF due(anchor.year) < Instant(anchor) THEN anchor.year + 1 ELSE anchor.year
         IN  IF ~Possible(year, month, day) \/ due(year) > Instant(anchor) + YearlessSpan
             THEN None ELSE due(year)

\* shortRangeEnd: the tail of "M-D to D" must come after its head.
ShortRangeEnd(p, anchor) ==
    IF p.tail <= p.day THEN None ELSE YearlessDeadline(p.month, p.tail, p.clock, anchor)

\* statedDurationEnd: so many hours from the anchor, or the end of the day so
\* many days, weeks or months on.
StatedDurationEnd(p, anchor) ==
    LET days == IF p.unit = "week" THEN 7 * p.n ELSE p.n
        months == anchor.month - 1 + p.n
    IN  IF p.n < 1 \/ days > 366 \/ (p.unit = "hour" /\ p.n > 72) THEN None
        ELSE IF p.unit = "hour" THEN Instant(anchor) + 60 * p.n
        ELSE IF p.unit = "month"
             THEN Minutes(anchor.year + months \div 12, (months % 12) + 1, anchor.day, EndOfDay)
        ELSE Minutes(anchor.year, anchor.month, anchor.day + days, EndOfDay)
-----------------------------------------------------------------------------
Each(s, Reading(_)) == [i \in DOMAIN s |-> Reading(s[i])]
FirstRead(readings) ==
    LET read == {i \in DOMAIN readings : readings[i] # None}
    IN  IF read = {} THEN None ELSE readings[Min(read)]

\* ExpiresAt, in the order the patterns are tried: dates with a year, full
\* ranges, dates without a year, short ranges, and a duration only where no date
\* is written.  An earlier parser knew fewer of these rules.
ExpiresAt(t, anchor, rules) ==
    LET Rule(name, s) == IF name \in rules THEN s ELSE <<>>
    IN  FirstRead(
             Rule("stated", Each(t.stated, StatedDeadline))
          \o Rule("range", Each(t.range, RangeEnd))
          \o Rule("yearless", Each(t.lead \o t.pre,
                  LAMBDA p : YearlessDeadline(p.month, p.day, p.clock, anchor)))
          \o Rule("short", Each(t.short, LAMBDA p : ShortRangeEnd(p, anchor)))
          \o Rule("duration", Each(IF t.dated THEN <<>> ELSE t.span,
                  LAMBDA p : StatedDurationEnd(p, anchor))))

\* StartsAt: the first date with an hour that no deadline word owns, in its own
\* year or the anchor's; it never moves to another year.
StartsAt(t, anchor) ==
    LET Year(p) == IF p.year = 0 THEN anchor.year ELSE p.year
        Opening(p) ==
            IF \/ p.closing \/ ~Readable([p EXCEPT !.year = Year(p)])
               \/ Hour(p) > 23 \/ p.min > 59
            THEN None ELSE Minutes(Year(p), p.month, p.day, Hour(p) * 60 + p.min)
    IN  FirstRead(Each(t.opens, Opening))
=============================================================================
