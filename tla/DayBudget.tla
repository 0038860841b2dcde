----------------------------- MODULE DayBudget -----------------------------
(***************************************************************************)
(* The two calendar mechanisms of internal/pipeline/pipeline.go that the   *)
(* breakthrough cards and the event reminders share: the reader's local    *)
(* day with the briefing slot inside it, and the {local day, count} pair   *)
(* that bounds the messages of a day.                                      *)
(*                                                                         *)
(* An instant is a natural number of ticks, a day is DayLen of them, and   *)
(* the briefing slot is the tick Slot of every day.  The pair is what      *)
(* dayCount stores under urgent:sent and event:sent.                       *)
(***************************************************************************)
EXTENDS Integers

CONSTANTS DayLen,   \* ticks in a local day
          Slot      \* the tick of the day notify.daily.at names

ASSUME CalendarAssumption ==
    /\ DayLen \in Nat \ {0}
    /\ Slot \in 0..(DayLen - 1)

\* A state key that was never written: stateTime's ok = false.
Never == -1

Instant == Nat \union {Never}

Day(t) == t \div DayLen

\* slotOf: today's occurrence of HH:MM.
SlotOf(t) == DayLen * Day(t) + Slot

\* budgetSpent of a key that is absent or undecodable: ("", 0).
NothingSpent == [day |-> Never, n |-> 0]

DayCount == [day : Instant, n : Nat]

(***************************************************************************)
(* budgetLeft: how many messages may still go out on day d.  A count that  *)
(* belongs to another day does not limit today.                            *)
(***************************************************************************)
LeftForAnyDay(spent, max, d) == max

BudgetLeft(spent, max, d) ==
    CASE spent.day # d    -> max
      [] spent.n >= max   -> 0
      [] OTHER            -> max - spent.n

(***************************************************************************)
(* spendBudget: the new pair carries today's date, but the count it adds   *)
(* to is read from the stored pair whatever day that pair belongs to.      *)
(***************************************************************************)
SpendBudget(spent, d) == [day |-> d, n |-> spent.n + 1]
=============================================================================
