----------------------------- MODULE Reminders ------------------------------
(***************************************************************************)
(* The event reminders (App.dueEvents, App.sendDueEvents): once in every   *)
(* round, the stored rows whose opening or closing instant has come into   *)
(* its window and that nobody was reminded of are sent on one card, within *)
(* a budget of cards a day.                                                *)
(*                                                                         *)
(* A row is a fingerprint with two instants, either of which may be        *)
(* missing; repeats and rows under event.min_score are not in Events.      *)
(* The marks event:reminded:<fp> and the pair event:sent live in           *)
(* state.json, so memory and file are kept apart as in module Rounds.      *)
(***************************************************************************)
EXTENDS DayBudget, FiniteSets, FiniteSetsExt

CONSTANTS
    Events,         \* rows the reminder channel tracks
    Opens, Closes,  \* their starts_at and expires_at, or Never
    Lead, Grace,    \* window of an opening: [now - Grace, now + Lead]
    ExpiryLead,     \* window of a closing: (now, now + ExpiryLead]
    MaxItems,       \* notify.event.max_items
    MaxPerDay,      \* notify.event.max_per_day
    MaxTime,        \* BOUND on the clock
    MaxFaults       \* BOUND on crashes, failed writes and late answers

ASSUME RemindersAssumption ==
    /\ IsFiniteSet(Events)
    /\ Opens \in [Events -> Instant] /\ Closes \in [Events -> Instant]
    /\ Lead \in Nat /\ Grace \in Nat /\ ExpiryLead \in Nat
    /\ MaxItems \in Nat \ {0} /\ MaxPerDay \in Nat
    /\ MaxTime \in Nat /\ MaxFaults \in Nat

VARIABLES
    now,
    known,      \* rows in the store
    disk, mem,  \* state.json and the service's copy: marks and the day's count
    pc,         \* where sendDueEvents is
    card,       \* the rows on the card, then those still to mark
    at,         \* the instant the scan looked at
    \* ---- history, read by no action
    reminders,  \* cards that reached a reader, by row
    cards,      \* cards that reached a reader, by day
    unmarked,   \* deliveries of a row whose mark was not written, by row
    uncharged,  \* deliveries of a day that were not counted, by day
    faults

local == <<mem, pc, card, at>>
history == <<reminders, cards, unmarked, uncharged>>
vars == <<now, known, disk, local, history, faults>>

Days == {Day(t) : t \in 0..MaxTime}
State == [marks : SUBSET Events, spent : DayCount]
EmptyState == [marks |-> {}, spent |-> NothingSpent]

\* Every variable in its range, and nothing is on a card outside a send.
TypeOK ==
    /\ now \in 0..MaxTime /\ at \in 0..MaxTime
    /\ known \in SUBSET Events
    /\ disk \in State /\ mem \in State
    /\ pc \in {"down", "idle", "send", "mark"}
    /\ card \in SUBSET known /\ (pc \in {"down", "idle"} => card = {})
    /\ reminders \in [Events -> Nat] /\ unmarked \in [Events -> Nat]
    /\ cards \in [Days -> Nat] /\ uncharged \in [Days -> Nat]
    /\ faults \in 0..MaxFaults
-----------------------------------------------------------------------------
(***************************************************************************)
(* dueEvents                                                               *)
(***************************************************************************)
Opening(e, t) == Opens[e] # Never /\ t - Grace <= Opens[e] /\ Opens[e] <= t + Lead

\* The deadline itself is too late to act on.
Closing(e, t) == Closes[e] # Never /\ t < Closes[e] /\ Closes[e] <= t + ExpiryLead

InWindow(e, t) == Opening(e, t) \/ Closing(e, t)

\* Both clocks can be in their window; the nearer one counts.
When(e, t) == Min({u \in {Opens[e]} : Opening(e, t)} \union {u \in {Closes[e]} : Closing(e, t)})

\* Mutant: the marks are not consulted.
DueAgain(t) == {e \in known : InWindow(e, t)}

Due(t) == {e \in known : InWindow(e, t) /\ e \notin mem.marks}

\* The MaxItems earliest; instants tie by title in the code, freely here.
Soonest(t) ==
    {T \in SUBSET Due(t) :
        /\ Cardinality(T) <= MaxItems
        /\ T = Due(t) \/ Cardinality(T) = MaxItems
        /\ \A e \in T, f \in Due(t) \ T : When(e, t) <= When(f, t)}

Fault == faults < MaxFaults /\ faults' = faults + 1

Adopted == [marks |-> mem.marks \union disk.marks,
            spent |-> IF disk.spent = NothingSpent THEN mem.spent ELSE disk.spent]

PutState(s) == /\ mem' = s
               /\ \/ disk' = s /\ UNCHANGED faults
                  \/ Fault /\ UNCHANGED disk

Bump(f, S) == [x \in DOMAIN f |-> IF x \in S THEN f[x] + 1 ELSE f[x]]
-----------------------------------------------------------------------------
Init ==
    /\ now = 0 /\ known = {} /\ disk = EmptyState /\ mem = EmptyState
    /\ pc = "down" /\ card = {} /\ at = 0
    /\ reminders = [e \in Events |-> 0] /\ unmarked = [e \in Events |-> 0]
    /\ cards = [d \in Days |-> 0] /\ uncharged = [d \in Days |-> 0]
    /\ faults = 0

Tick == now < MaxTime /\ now' = now + 1
        /\ UNCHANGED <<known, disk, local, history, faults>>

\* The rest of the service: it saves rows, and it writes keys of its own.
Collect(e) ==
    /\ pc = "idle" /\ e \notin known
    /\ known' = known \union {e}
    /\ UNCHANGED <<now, disk, local, history, faults>>

PutElsewhere ==
    /\ pc = "idle"
    /\ mem' = Adopted /\ disk' \in {disk, Adopted}
    /\ UNCHANGED <<now, known, pc, card, at, history, faults>>

Start ==
    /\ pc = "down" /\ pc' = "idle" /\ mem' = disk
    /\ UNCHANGED <<now, known, disk, card, at, history, faults>>

\* Mutant: the rows are marked before the card is sent.
ScanMarksFirst ==
    /\ pc = "idle" /\ Due(now) # {}
    /\ BudgetLeft(mem.spent, MaxPerDay, Day(now)) > 0
    /\ pc' = "send" /\ at' = now /\ card' \in Soonest(now)
    /\ mem' = [mem EXCEPT !.marks = @ \union card']
    /\ UNCHANGED <<now, known, disk, history, faults>>

\* sendDueEvents up to the send: nothing due, or nothing left of today's
\* budget, and the rows wait for another round.
Scan ==
    /\ pc = "idle" /\ Due(now) # {}
    /\ BudgetLeft(mem.spent, MaxPerDay, Day(now)) > 0
    /\ pc' = "send" /\ at' = now /\ card' \in Soonest(now)
    /\ UNCHANGED <<now, known, disk, mem, history, faults>>

\* Mutant: a refused card stays in the sender's hands.
RefusedKeepsCard ==
    /\ pc = "send" /\ pc' = "idle"
    /\ UNCHANGED <<now, known, disk, mem, card, at, history, faults>>

\* The card: acknowledged, refused by every backend, or taken by one that
\* answered too late.
Sent ==
    /\ pc = "send" /\ pc' = "mark"
    /\ reminders' = Bump(reminders, card) /\ cards' = Bump(cards, {Day(at)})
    /\ UNCHANGED <<now, known, disk, mem, card, at, unmarked, uncharged, faults>>

Refused ==
    /\ pc = "send" /\ pc' = "idle"
    /\ card' = {} /\ at' = 0
    /\ \/ UNCHANGED <<history, faults>>
       \/ /\ Fault
          /\ reminders' = Bump(reminders, card) /\ unmarked' = Bump(unmarked, card)
          /\ cards' = Bump(cards, {Day(at)}) /\ uncharged' = Bump(uncharged, {Day(at)})
    /\ UNCHANGED <<now, known, disk, mem>>

\* setStateTime(event:reminded:<fp>), row by row; a failed write is only logged.
Mark(e) ==
    /\ pc = "mark" /\ e \in card
    /\ card' = card \ {e}
    /\ PutState([Adopted EXCEPT !.marks = @ \union {e}])
    /\ unmarked' = IF faults' # faults THEN Bump(unmarked, {e}) ELSE unmarked
    /\ UNCHANGED <<now, known, pc, at, reminders, cards, uncharged>>

\* Then spendBudget, with the pair as memory has it.
Charge ==
    /\ pc = "mark" /\ card = {} /\ pc' = "idle" /\ at' = 0
    /\ PutState([Adopted EXCEPT !.spent = SpendBudget(mem.spent, Day(at))])
    /\ uncharged' = IF faults' # faults THEN Bump(uncharged, {Day(at)}) ELSE uncharged
    /\ UNCHANGED <<now, known, card, reminders, cards, unmarked>>

Crash ==
    /\ pc # "down" /\ Fault
    /\ pc' = "down" /\ mem' = EmptyState /\ card' = {} /\ at' = 0
    /\ unmarked' = IF pc = "mark" THEN Bump(unmarked, card) ELSE unmarked
    /\ uncharged' = IF pc = "mark" THEN Bump(uncharged, {Day(at)}) ELSE uncharged
    /\ UNCHANGED <<now, known, disk, reminders, cards>>

Next ==
    \/ Tick \/ PutElsewhere \/ Start \/ Scan \/ Sent \/ Refused \/ Charge \/ Crash
    \/ \E e \in Events : Collect(e) \/ Mark(e)

Spec == Init /\ [][Next]_vars

(***************************************************************************)
(* systemd restarts the service and its loop runs round after round; a     *)
(* backend that is asked again and again acknowledges in the end.  Time is *)
(* not fair: it may pass too fast for any property that waits.             *)
(***************************************************************************)
Fairness ==
    /\ WF_vars(Start) /\ WF_vars(Scan) /\ WF_vars(Charge)
    /\ WF_vars(\E e \in Events : Mark(e))
    /\ WF_vars(Sent \/ Refused) /\ SF_vars(Sent)

FairSpec == Spec /\ Fairness
-----------------------------------------------------------------------------
(***************************************************************************)
(* Properties                                                              *)
(***************************************************************************)

\* A row is announced to the reader once, except once more for every delivery
\* of it that left no mark behind (an answer that came too late, a failed write,
\* a crash between the card and the mark).
RemindedOnce == \A e \in Events : reminders[e] <= 1 + unmarked[e]

\* No day carries more reminder cards than event.max_per_day, except for cards
\* whose charge was lost.
CardsWithinBudget == \A d \in Days : cards[d] <= MaxPerDay + uncharged[d]

\* "A row that cannot be delivered stays unmarked, so the next round retries it":
\* a row that is due is carried from round to round until a reader has it, its
\* window is over, or the day's budget is gone, however many rows are ahead.
DueRowsAreCarried ==
    \A e \in Events :
        (pc = "idle" /\ e \in Due(now))
            ~> (reminders[e] > 0 \/ ~InWindow(e, now)
                \/ BudgetLeft(mem.spent, MaxPerDay, Day(now)) = 0)
=============================================================================
