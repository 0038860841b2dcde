------------------------------- MODULE Rounds -------------------------------
(***************************************************************************)
(* The service's day: collection rounds (App.RunOnce), the breakthrough    *)
(* card they may send, the morning briefing the scheduler sends after a    *)
(* round (Loop.round, App.DailyDue, App.SendDaily), and the `dealhunter    *)
(* daily` command an operator runs beside the service on the same data     *)
(* directory.                                                              *)
(*                                                                         *)
(* Every durable write, every delivery and every read that a later step    *)
(* relies on is a step of its own, so a crash, a failed write, midnight or *)
(* the operator's command can fall between any two of them.                *)
(*                                                                         *)
(* What a finding says is abstracted to four constants: the announcement   *)
(* its title dedupes to, its score, and the last instant it can be         *)
(* claimed.  The store is the set of rows it holds (module Store models    *)
(* the log behind it); state.json is three keys (module StateFile models   *)
(* the file behind it).                                                    *)
(***************************************************************************)
EXTENDS DayBudget, FiniteSets

CONSTANTS
    Findings,       \* fingerprints the sources can produce
    TitleOf,        \* the announcement a finding's title dedupes to
    Score,          \* its score after Screen
    Deadline,       \* last instant at which it is live
    Backends,       \* configured notification backends
    UrgentMin,      \* notify.urgent.min_score
    UrgentMax,      \* notify.urgent.max_per_day
    UrgentItems,    \* notify.urgent.max_items
    DailyMin,       \* notify.daily.min_score
    DailyItems,     \* notify.daily.max_items
    ManualRuns,     \* BOUND on runs of `dealhunter daily` beside the service
    MaxTime,        \* BOUND on the clock
    MaxFaults       \* BOUND on crashes, failed writes and late answers

ASSUME RoundsAssumption ==
    /\ TitleOf \in [Findings -> STRING \union Findings]
    /\ Score \in [Findings -> Nat]
    /\ Deadline \in [Findings -> Nat]
    /\ UrgentMin \in Nat /\ DailyMin \in Nat
    /\ UrgentMax \in Nat /\ UrgentItems \in Nat \ {0} /\ DailyItems \in Nat \ {0}
    /\ ManualRuns \in Nat /\ MaxTime \in Nat /\ MaxFaults \in Nat

VARIABLES
    now,        \* the wall clock
    \* ---- on disk
    saved,      \* rows in deals.jsonl
    dups,       \* those written with meta.dup_of
    marked,     \* those whose latest row says pushed
    disk,       \* state.json: the three keys below
    \* ---- the service's memory
    pc,         \* where the service is
    seen,       \* Store.seen
    mem,        \* Store.state
    todo,       \* findings fetched this round and not yet judged
    interrupts, \* findings of this round strong enough to interrupt
    card,       \* rows of the message being sent, then rows still to mark
    at,         \* the `now` captured before the send
    \* ---- the operator's command
    cmd, cmdCard, cmdMarked, cmdAt,
    \* ---- history, read by no action
    alerts,     \* how many breakthrough cards that reached a reader held f
    urgentOn,   \* breakthrough cards that reached a reader, by day
    briefedOn,  \* scheduled briefings that reached a reader, by day
    ackedOn,    \* days on which a briefing of either kind was acknowledged
    looseUrgent, looseDaily, \* deliveries of a day that left no durable record
    faults, manuals

diskVars == <<saved, dups, marked, disk>>
localVars == <<pc, seen, mem, todo, interrupts, card, at>>
cmdVars == <<cmd, cmdCard, cmdMarked, cmdAt>>
sent == <<alerts, urgentOn, briefedOn, ackedOn, looseUrgent, looseDaily>>
history == <<sent, faults, manuals>>
vars == <<now, diskVars, localVars, cmdVars, history>>

Days == {Day(t) : t \in 0..MaxTime}

\* daily:last_sent, daily:watched_since and urgent:sent.
StateFile == [last : Instant, watched : Instant, spent : DayCount]

EmptyState == [last |-> Never, watched |-> Never, spent |-> NothingSpent]

Places == {"down", "idle", "judge", "decide", "push", "mark", "charge",
           "events", "due", "brief", "stamp"}

\* Every variable in its range; and a finding that is counted, marked, on a card
\* or waiting for one is a row the log accepted.
TypeOK ==
    /\ now \in 0..MaxTime
    /\ saved \in SUBSET Findings /\ dups \in SUBSET saved /\ marked \in SUBSET saved
    /\ disk \in StateFile /\ mem \in StateFile
    /\ pc \in Places
    /\ seen \in SUBSET Findings /\ todo \in SUBSET Findings
    /\ interrupts \in SUBSET saved /\ card \in SUBSET saved
    /\ at \in 0..MaxTime
    /\ cmd \in {"none", "brief", "stamp"}
    /\ cmdCard \in SUBSET saved /\ cmdMarked \in SUBSET saved
    /\ cmdAt \in 0..MaxTime
    /\ alerts \in [Findings -> Nat]
    /\ urgentOn \in [Days -> Nat] /\ briefedOn \in [Days -> Nat]
    /\ ackedOn \in SUBSET Days
    /\ looseUrgent \in [Days -> Nat] /\ looseDaily \in [Days -> Nat]
    /\ faults \in 0..MaxFaults /\ manuals \in 0..ManualRuns
-----------------------------------------------------------------------------
(***************************************************************************)
(* The store and the state file, as the rounds use them.                   *)
(***************************************************************************)

\* Live: not a repeat, strong enough, and its stated deadline not behind t.
Live(t) == {f \in saved \ dups : Score[f] >= DailyMin /\ Deadline[f] >= t}

\* The n best of S.  Ties are broken by discovery time or title in the code;
\* here any order among equal scores is possible.
Best(S, n) ==
    {T \in SUBSET S :
        /\ Cardinality(T) <= n
        /\ T = S \/ Cardinality(T) = n
        /\ \A t \in T, u \in S \ T : Score[t] >= Score[u]}

\* TitleClash against the titles this process knows.
TitleClash(f) == \E g \in seen : g # f /\ TitleOf[g] = TitleOf[f]

\* adoptDiskStateLocked: what is on disk wins over memory, key by key; a key
\* that only memory holds stays.
Adopted ==
    [last    |-> IF disk.last = Never THEN mem.last ELSE disk.last,
     watched |-> IF disk.watched = Never THEN mem.watched ELSE disk.watched,
     spent   |-> IF disk.spent = NothingSpent THEN mem.spent ELSE disk.spent]

\* A crash, a failed write or a late answer, at most MaxFaults in a behaviour.
Fault == faults < MaxFaults /\ faults' = faults + 1

\* PutState: adopt, set, flush.  A flush that fails has already changed memory.
PutState(s) ==
    /\ mem' = s
    /\ \/ disk' = s /\ UNCHANGED faults
       \/ Fault /\ UNCHANGED disk

\* Any number of PutStates on keys of other components (a source cursor, a
\* resolver verdict, src:last_hit, a reminder mark): each adopts, and one that
\* reaches the file takes along every key that only memory holds.
PutElsewhere ==
    \/ UNCHANGED <<mem, disk>>
    \/ mem' = Adopted /\ disk' \in {disk, Adopted}
-----------------------------------------------------------------------------
(***************************************************************************)
(* FanOut.Send: a backend accepts, refuses, or takes the message and       *)
(* answers too late.  The send succeeds if any backend acknowledged.       *)
(***************************************************************************)
Answers == [Backends -> {"accepted", "refused", "late"}]

Acked(a) == \E b \in Backends : a[b] = "accepted"
Reached(a) == \E b \in Backends : a[b] \in {"accepted", "late"}

Bump(f, d) == [f EXCEPT ![d] = @ + 1]
BumpIf(c, f, d) == IF c THEN Bump(f, d) ELSE f

\* A message that reached a reader while its sender was told it did not.
Late(a) == Reached(a) /\ ~Acked(a)
CountLate(a) == IF Late(a) THEN Fault ELSE UNCHANGED faults
-----------------------------------------------------------------------------
Init ==
    /\ now = 0
    /\ saved = {} /\ dups = {} /\ marked = {} /\ disk = EmptyState
    /\ pc = "down" /\ seen = {} /\ mem = EmptyState
    /\ todo = {} /\ interrupts = {} /\ card = {} /\ at = 0
    /\ cmd = "none" /\ cmdCard = {} /\ cmdMarked = {} /\ cmdAt = 0
    /\ alerts = [f \in Findings |-> 0]
    /\ urgentOn = [d \in Days |-> 0] /\ briefedOn = [d \in Days |-> 0]
    /\ ackedOn = {}
    /\ looseUrgent = [d \in Days |-> 0] /\ looseDaily = [d \in Days |-> 0]
    /\ faults = 0 /\ manuals = 0

\* The clock.
Tick ==
    /\ now < MaxTime
    /\ now' = now + 1
    /\ UNCHANGED <<diskVars, localVars, cmdVars, history>>

\* pipeline.New: store.Open reads the log and state.json.
Start ==
    /\ pc = "down"
    /\ pc' = "idle"
    /\ seen' = saved /\ mem' = disk
    /\ UNCHANGED <<now, diskVars, todo, interrupts, card, at, cmdVars, history>>

\* The head of RunOnce: arm daily:watched_since once, then fetch.  A failed
\* write ends the round there; the scheduler still asks whether the briefing
\* is due.
BeginRound ==
    /\ pc = "idle"
    /\ \/ /\ mem.watched # Never
          /\ pc' = "judge" /\ todo' \in SUBSET Findings /\ PutElsewhere
          /\ UNCHANGED faults
       \/ /\ mem.watched = Never
          /\ PutState([Adopted EXCEPT !.watched = now])
          /\ IF faults' = faults
             THEN pc' = "judge" /\ todo' \in SUBSET Findings
             ELSE pc' = "due" /\ UNCHANGED todo
    /\ UNCHANGED <<now, saved, dups, marked, seen, interrupts, card, at, cmdVars,
                   sent, manuals>>

\* Mutant: judge does not ask TitleClash.
JudgeWithoutClash(f) ==
    /\ pc = "judge" /\ f \in todo
    /\ todo' = todo \ {f}
    /\ \/ /\ f \in seen \/ Deadline[f] < now
          /\ UNCHANGED <<saved, seen, interrupts>>
       \/ /\ f \notin seen /\ Deadline[f] >= now
          /\ saved' = saved \union {f} /\ seen' = seen \union {f}
          /\ interrupts' = IF Score[f] >= UrgentMin
                           THEN interrupts \union {f} ELSE interrupts
    /\ UNCHANGED <<now, dups, marked, disk, pc, mem, card, at, cmdVars, history>>

\* Mutant: the row is remembered although the log refused it.
JudgeRemembersUnsaved(f) ==
    /\ pc = "judge" /\ f \in todo
    /\ todo' = todo \ {f} /\ seen' = seen \union {f}
    /\ \/ saved' = saved \union {f} /\ UNCHANGED faults
       \/ Fault /\ UNCHANGED saved
    /\ dups' = IF f \notin seen /\ TitleClash(f) THEN dups \union {f} ELSE dups
    /\ interrupts' = IF f \notin seen /\ ~TitleClash(f) /\ Score[f] >= UrgentMin
                     THEN interrupts \union {f} ELSE interrupts
    /\ UNCHANGED <<now, marked, disk, pc, mem, card, at, cmdVars, sent, manuals>>

\* judge and Save for one finding: a known fingerprint or one that Screen
\* rejects is dropped; a repeat of a known title is kept as a repeat; a row the
\* log refused is forgotten by this round.
Judge(f) ==
    /\ pc = "judge" /\ f \in todo
    /\ todo' = todo \ {f}
    /\ \/ /\ f \in seen \/ Deadline[f] < now
          /\ UNCHANGED <<saved, dups, seen, interrupts, faults>>
       \/ /\ f \notin seen /\ Deadline[f] >= now
          /\ saved' = saved \union {f} /\ seen' = seen \union {f}
          /\ IF TitleClash(f)
             THEN dups' = dups \union {f} /\ UNCHANGED interrupts
             ELSE /\ interrupts' = IF Score[f] >= UrgentMin
                                   THEN interrupts \union {f} ELSE interrupts
                  /\ UNCHANGED dups
          /\ UNCHANGED faults
       \/ /\ f \notin seen /\ Deadline[f] >= now
          /\ Fault
          /\ UNCHANGED <<saved, dups, seen, interrupts>>
    /\ UNCHANGED <<now, marked, disk, pc, mem, card, at, cmdVars, sent, manuals>>

\* recordSourceHits, then Resolver.Apply over the interrupts and the second
\* Save of each (it appends a row the store already has).
Resolve ==
    /\ pc = "judge" /\ todo = {}
    /\ pc' = "decide"
    /\ PutElsewhere
    /\ UNCHANGED <<now, saved, dups, marked, seen, todo, interrupts, card, at, cmdVars, history>>

\* The cap on rows, then the budget: the best UrgentItems go on one card if
\* today's budget has a message left, else they wait for the briefing.
Decide ==
    /\ pc = "decide"
    /\ interrupts' = {}
    /\ \/ /\ interrupts # {}
          /\ BudgetLeft(mem.spent, UrgentMax, Day(now)) > 0
          /\ card' \in Best(interrupts, UrgentItems)
          /\ at' = now /\ pc' = "push"
       \/ /\ \/ interrupts = {}
             \/ BudgetLeft(mem.spent, UrgentMax, Day(now)) = 0
          /\ card' = {} /\ UNCHANGED at /\ pc' = "events"
    /\ UNCHANGED <<now, diskVars, seen, mem, todo, cmdVars, history>>

\* Sending the breakthrough card.  A failed send charges nothing and marks
\* nothing: the rows are simply dropped from this round.
Push(a) ==
    /\ pc = "push"
    /\ alerts' = [f \in Findings |-> IF f \in card /\ Reached(a)
                                     THEN alerts[f] + 1 ELSE alerts[f]]
    /\ urgentOn' = BumpIf(Reached(a), urgentOn, Day(at))
    /\ CountLate(a)
    /\ looseUrgent' = BumpIf(Late(a), looseUrgent, Day(at))
    /\ IF Acked(a)
       THEN pc' = "mark" /\ UNCHANGED <<card, at>>
       ELSE /\ pc' = "events" /\ card' = {} /\ at' = 0
    /\ UNCHANGED <<now, diskVars, seen, mem, todo, interrupts, cmdVars, briefedOn,
                   ackedOn, looseDaily, manuals>>

\* MarkPushed, row by row; a failed append is only logged.
Mark(f) ==
    /\ pc = "mark" /\ f \in card
    /\ card' = card \ {f}
    /\ \/ marked' = marked \union {f} /\ UNCHANGED faults
       \/ Fault /\ UNCHANGED marked
    /\ UNCHANGED <<now, saved, dups, disk, pc, seen, mem, todo, interrupts, at,
                   cmdVars, sent, manuals>>

\* spendBudget(urgentCursor, now), with the `now` of before the send and the
\* pair as memory has it.
Charge ==
    /\ pc = "mark" /\ card = {}
    /\ pc' = "events"
    /\ PutState([Adopted EXCEPT !.spent = SpendBudget(mem.spent, Day(at))])
    /\ looseUrgent' = BumpIf(faults' # faults, looseUrgent, Day(at))
    /\ at' = 0
    /\ UNCHANGED <<now, saved, dups, marked, seen, todo, interrupts, card, cmdVars,
                   alerts, urgentOn, briefedOn, ackedOn, looseDaily, manuals>>

\* sendDueEvents (module Reminders) and publish: the end of RunOnce.
Events ==
    /\ pc = "events"
    /\ pc' = "due"
    /\ PutElsewhere
    /\ UNCHANGED <<now, saved, dups, marked, seen, todo, interrupts, card, at, cmdVars, history>>

\* DailyDue: the slot has arrived and the gate is behind it.  The gate is the
\* last briefing, or, before the first one, when this install began watching.
Gate(s) == IF s.last # Never THEN s.last ELSE s.watched

DueWhateverTheGate(s, t) == s.watched # Never /\ t >= SlotOf(t)

DailyDue(s, t) == Gate(s) # Never /\ t >= SlotOf(t) /\ Gate(s) < SlotOf(t)

\* The scheduler's question after a round, and the first half of SendDaily:
\* preview the live rows, best first, and resolve their links.
CheckDue ==
    /\ pc = "due"
    /\ IF DailyDue(mem, now)
       THEN pc' = "brief" /\ at' = now /\ card' \in Best(Live(now), DailyItems)
       ELSE pc' = "idle" /\ UNCHANGED <<at, card>>
    /\ UNCHANGED <<now, diskVars, seen, mem, todo, interrupts, cmdVars, history>>

\* Mutant: the slot is spent whatever the backends answered.
BriefSpendsTheSlot(a) ==
    /\ pc = "brief"
    /\ pc' = "stamp" /\ card' = {}
    /\ briefedOn' = BumpIf(Reached(a), briefedOn, Day(at))
    /\ ackedOn' = IF Acked(a) THEN ackedOn \union {Day(at)} ELSE ackedOn
    /\ UNCHANGED <<now, diskVars, seen, mem, todo, interrupts, at, cmdVars, alerts,
                   urgentOn, looseUrgent, looseDaily,
                   faults, manuals>>

\* The scheduled briefing.  A failed send leaves the slot unspent.
Brief(a) ==
    /\ pc = "brief"
    /\ card' = {}
    /\ briefedOn' = BumpIf(Reached(a), briefedOn, Day(at))
    /\ CountLate(a)
    /\ looseDaily' = BumpIf(Late(a), looseDaily, Day(at))
    /\ IF Acked(a)
       THEN pc' = "stamp" /\ ackedOn' = ackedOn \union {Day(at)} /\ UNCHANGED at
       ELSE pc' = "idle" /\ at' = 0 /\ UNCHANGED ackedOn
    /\ UNCHANGED <<now, diskVars, seen, mem, todo, interrupts, cmdVars, alerts,
                   urgentOn, looseUrgent, manuals>>

\* setStateTime(dailyCursor, now), with the `now` of before the send.
Stamp ==
    /\ pc = "stamp"
    /\ pc' = "idle"
    /\ PutState([Adopted EXCEPT !.last = at])
    /\ looseDaily' = BumpIf(faults' # faults, looseDaily, Day(at))
    /\ at' = 0
    /\ UNCHANGED <<now, saved, dups, marked, seen, todo, interrupts, card, cmdVars,
                   alerts, urgentOn, briefedOn, ackedOn, looseUrgent, manuals>>

\* A kill, or a SIGTERM: cmdRun returns when the API server does and the
\* process exits whatever the round is doing.  Only the disk survives.
Crash ==
    /\ pc # "down" /\ Fault
    /\ pc' = "down"
    /\ seen' = {} /\ mem' = EmptyState
    /\ todo' = {} /\ interrupts' = {} /\ card' = {} /\ at' = 0
    /\ looseUrgent' = BumpIf(pc = "mark", looseUrgent, Day(at))
    /\ looseDaily' = BumpIf(pc = "stamp", looseDaily, Day(at))
    /\ UNCHANGED <<now, diskVars, cmdVars, alerts, urgentOn, briefedOn, ackedOn, manuals>>
-----------------------------------------------------------------------------
(***************************************************************************)
(* `dealhunter daily`: SendDaily in a process of its own, with its own     *)
(* store handle on the same directory.                                     *)
(***************************************************************************)
CmdStart ==
    /\ cmd = "none"
    /\ manuals < ManualRuns /\ manuals' = manuals + 1
    /\ cmd' = "brief" /\ cmdAt' = now
    /\ cmdCard' \in Best(Live(now), DailyItems)
    /\ cmdMarked' = marked
    /\ UNCHANGED <<now, diskVars, localVars, sent, faults>>

\* verifyForBriefing saves the rows V whose score moved, as they were when it
\* read them; then the send.
CmdBrief(a, V) ==
    /\ cmd = "brief" /\ V \subseteq cmdCard
    /\ marked' = (marked \ V) \union (cmdMarked \intersect V)
    /\ IF Acked(a)
       THEN /\ cmd' = "stamp" /\ ackedOn' = ackedOn \union {Day(cmdAt)}
            /\ UNCHANGED cmdAt
       ELSE /\ cmd' = "none" /\ cmdAt' = 0 /\ UNCHANGED ackedOn
    /\ CountLate(a)
    /\ cmdCard' = {} /\ cmdMarked' = {}
    /\ UNCHANGED <<now, saved, dups, disk, localVars, alerts, urgentOn,
                   briefedOn, looseUrgent, looseDaily, manuals>>

\* Its stamp, which may be older than one the service wrote meanwhile.
CmdStamp ==
    /\ cmd = "stamp"
    /\ cmd' = "none" /\ cmdAt' = 0
    /\ \/ /\ disk' = [disk EXCEPT !.last = cmdAt]
          /\ looseDaily' = BumpIf(disk.last > cmdAt, looseDaily, Day(disk.last))
          /\ UNCHANGED faults
       \/ Fault /\ UNCHANGED <<disk, looseDaily>>
    /\ UNCHANGED <<now, saved, dups, marked, localVars, cmdCard, cmdMarked, alerts,
                   urgentOn, briefedOn, ackedOn, looseUrgent, manuals>>

Next ==
    \/ Tick \/ Start \/ BeginRound \/ Resolve \/ Decide \/ Charge \/ Events
    \/ CheckDue \/ Stamp \/ Crash
    \/ \E f \in Findings : Judge(f) \/ Mark(f)
    \/ \E a \in Answers : Push(a) \/ Brief(a)
    \/ CmdStart \/ CmdStamp
    \/ \E a \in Answers, V \in SUBSET Findings : CmdBrief(a, V)

Spec == Init /\ [][Next]_vars

(***************************************************************************)
(* The service's own steps are fair: systemd restarts it, its loop runs a  *)
(* round every interval, and no step of a round can block for ever (every  *)
(* send and every fetch carries a timeout).  A backend that is asked again *)
(* and again acknowledges in the end.  Time and the operator are not fair. *)
(***************************************************************************)
Fairness ==
    /\ WF_vars(Start) /\ WF_vars(BeginRound) /\ WF_vars(Resolve) /\ WF_vars(Decide)
    /\ WF_vars(Charge) /\ WF_vars(Events) /\ WF_vars(CheckDue) /\ WF_vars(Stamp)
    /\ WF_vars(\E f \in Findings : Judge(f)) /\ WF_vars(\E f \in Findings : Mark(f))
    /\ WF_vars(\E a \in Answers : Push(a)) /\ WF_vars(\E a \in Answers : Brief(a))
    /\ SF_vars(\E a \in Answers : Acked(a) /\ Push(a))
    /\ SF_vars(\E a \in Answers : Acked(a) /\ Brief(a))

FairSpec == Spec /\ Fairness
-----------------------------------------------------------------------------
(***************************************************************************)
(* Properties                                                              *)
(***************************************************************************)

\* One announcement interrupts the reader once, ever: whatever feed repeats it,
\* whichever send was unanswered, and wherever a crash cut the round (judge
\* records the row before the card goes out and asks Seen and TitleClash first).
AlertedOnce ==
    \A f, g \in Findings :
        alerts[f] > 0 /\ alerts[g] > 0 /\ TitleOf[f] = TitleOf[g]
            => f = g /\ alerts[f] = 1

\* No day carries more breakthrough cards than urgent.max_per_day, except one
\* more for every card of that day whose charge was lost (an unacknowledged
\* delivery, a failed write, a crash before spendBudget).
UrgentWithinBudget ==
    \A d \in Days : urgentOn[d] <= UrgentMax + looseUrgent[d]

\* The schedule sends one briefing a day, except one more for every briefing of
\* that day whose stamp was lost or overwritten by an older one.  Those of the
\* command are not counted: cmdDaily says that one of its own "consumes today's
\* slot" (main.go:480), but one sent before the slot, or whose stamp the service
\* has not adopted, leaves the scheduled briefing of that day due.
OneBriefingPerSlot ==
    \A d \in Days : briefedOn[d] <= 1 + looseDaily[d]

\* Nothing is recorded as delivered that was not: a pushed mark, a charge and
\* the briefing cursor each follow an acknowledged send of their own day.
RecordsAreDelivered ==
    /\ \A f \in marked : alerts[f] > 0
    /\ disk.spent # NothingSpent => urgentOn[disk.spent.day] > 0
    /\ disk.last # Never => Day(disk.last) \in ackedOn

\* Folding repeats never silences an announcement: whatever was recorded as a
\* repeat, some row of the same announcement is recorded as the original.
RepeatsHaveAnOwner ==
    \A f \in dups : \E g \in saved \ dups : TitleOf[g] = TitleOf[f]

\* A due briefing is retried until it goes out: while the day lasts and the
\* service keeps being restarted, the slot does not stay unanswered.
DueBriefingGoesOut ==
    \A d \in Days :
        (Day(now) = d /\ DailyDue(disk, now)) ~> (d \in ackedOn \/ Day(now) # d)
=============================================================================
