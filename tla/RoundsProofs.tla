---------------------------- MODULE RoundsProofs ----------------------------
(***************************************************************************)
(* Proofs about Rounds, for every value of its constants: the state stays  *)
(* in its type, an announcement interrupts the reader at most once, marks  *)
(* and records on disk have a delivery or an original behind them, and a   *)
(* day carries no more cards than its budget and a slot one briefing, but  *)
(* for those whose record was lost.                                        *)
(*                                                                         *)
(* AlertedOnce is not inductive.  It rests on how a card is filled: only   *)
(* from rows the store already holds (so that a restart knows them), that  *)
(* are originals, one per announcement, and that no card has carried yet.  *)
(* AlertInv says so at every step between judge and the send.              *)
(*                                                                         *)
(* The two counts are of deliveries, while the service decides on a record *)
(* it writes after the delivery, into a file that the operator's command   *)
(* also writes and from a copy in memory that a crash throws away.         *)
(* UrgentInv and BriefInv say what every copy of the record accounts for,  *)
(* and what the step between a delivery and its record still owes.         *)
(***************************************************************************)
EXTENDS Rounds, TLAPS

-----------------------------------------------------------------------------
(***************************************************************************)
(* Days, for every length of a day and every slot in it.               *)
(***************************************************************************)
\* An instant lies in its day.
LEMMA DayBounds ==
    ASSUME NEW t \in Nat
    PROVE  Day(t) \in Nat /\ DayLen * Day(t) <= t /\ t < DayLen * Day(t) + DayLen
BY CalendarAssumption DEF Day

\* Days start one after the other.
LEMMA DayStarts ==
    ASSUME NEW c \in Nat, NEW d \in Nat, c < d
    PROVE  DayLen * c + DayLen <= DayLen * d
<1>1. DayLen \in Nat /\ DayLen > 0
    BY CalendarAssumption
<1>2. DayLen * (c + 1) <= DayLen * d
    BY <1>1
<1>3. DayLen * (c + 1) = DayLen * c + DayLen
    BY <1>1
<1>4. QED
    BY <1>2, <1>3

LEMMA DayIsNat == \A t \in Nat : Day(t) \in Nat
BY DayBounds

LEMMA DayIsMonotone == \A s, t \in Nat : s <= t => Day(s) <= Day(t)
<1> SUFFICES ASSUME NEW s \in Nat, NEW t \in Nat, s <= t, Day(t) < Day(s) PROVE FALSE
    BY DayBounds
<1>1. DayLen * Day(t) + DayLen <= DayLen * Day(s)
    BY DayBounds, DayStarts
<1>2. DayLen * Day(t) \in Nat /\ DayLen * Day(s) \in Nat /\ DayLen \in Nat
    BY DayBounds, CalendarAssumption
<1>3. QED
    BY <1>1, <1>2, DayBounds

\* The slot of day d.
SlotAt(d) == DayLen * d + Slot

\* What comes after the slot of a day comes on that day or later.
LEMMA SlotIsInItsDay ==
    ASSUME NEW t \in Nat, NEW d \in Nat, t >= SlotAt(d)
    PROVE  Day(t) >= d
<1> SUFFICES ASSUME Day(t) < d PROVE FALSE
    BY DayBounds
<1>1. DayLen * Day(t) + DayLen <= DayLen * d
    BY DayBounds, DayStarts
<1>2. DayLen * Day(t) \in Nat /\ DayLen * d \in Nat /\ DayLen \in Nat /\ Slot \in Nat
    BY DayBounds, CalendarAssumption
<1>3. QED
    BY <1>1, <1>2, DayBounds DEF SlotAt

-----------------------------------------------------------------------------
(***************************************************************************)
(* Type correctness                                                        *)
(***************************************************************************)

LEMMA ClockDays == \A t \in 0..MaxTime : Day(t) \in Days /\ Day(t) \in Instant
BY DayIsNat, RoundsAssumption DEF Days, Instant

LEMMA BumpType ==
    ASSUME NEW f \in [Days -> Nat], NEW d, NEW c \in BOOLEAN
    PROVE  Bump(f, d) \in [Days -> Nat] /\ BumpIf(c, f, d) \in [Days -> Nat]
<1>1. CASE d \in Days
    BY <1>1 DEF Bump, BumpIf
<1>2. CASE d \notin Days
    <2>1. Bump(f, d) = f
        BY <1>2 DEF Bump
    <2>2. QED
        BY <2>1 DEF BumpIf
<1>3. QED
    BY <1>1, <1>2

LEMMA AdoptedType ==
    ASSUME mem \in StateFile, disk \in StateFile
    PROVE  Adopted \in StateFile
BY DEF Adopted, StateFile

LEMMA PutStateType ==
    ASSUME TypeOK, NEW s \in StateFile, PutState(s)
    PROVE  mem' \in StateFile /\ disk' \in StateFile /\ faults' \in 0..MaxFaults
BY RoundsAssumption DEF TypeOK, PutState, Fault

LEMMA PutElsewhereType ==
    ASSUME TypeOK, PutElsewhere
    PROVE  mem' \in StateFile /\ disk' \in StateFile
BY AdoptedType DEF TypeOK, PutElsewhere

LEMMA TypeInit == Init => TypeOK
<1> SUFFICES ASSUME Init PROVE TypeOK
    OBVIOUS
<1>1. 0 \in 0..MaxTime /\ 0 \in 0..MaxFaults /\ 0 \in 0..ManualRuns
    BY RoundsAssumption
<1>2. EmptyState \in StateFile
    BY DEF EmptyState, StateFile, NothingSpent, DayCount, Instant
<1>3. QED
    BY <1>1, <1>2 DEF Init, TypeOK, Places

LEMMA TypeStep == TypeOK /\ [Next]_vars => TypeOK'
<1> SUFFICES ASSUME TypeOK, [Next]_vars PROVE TypeOK'
    OBVIOUS
<1> USE DEF TypeOK, Places, diskVars, localVars, cmdVars, history, sent
<1>0. Day(at) \in Days /\ Day(cmdAt) \in Days /\ Day(now) \in Days
    BY ClockDays
<1>1. CASE Tick
    <2>1. now' \in 0..MaxTime
        BY <1>1, RoundsAssumption DEF Tick
    <2>2. QED
        BY <1>1, <2>1 DEF Tick
<1>2. CASE Start
    BY <1>2 DEF Start
<1>3. CASE BeginRound
    <2>1. CASE mem.watched # Never /\ PutElsewhere /\ UNCHANGED faults
        BY <1>3, <2>1, PutElsewhereType DEF BeginRound
    <2>2. CASE PutState([Adopted EXCEPT !.watched = now])
        <3>1. [Adopted EXCEPT !.watched = now] \in StateFile
            BY AdoptedType, RoundsAssumption DEF StateFile, Instant
        <3>2. QED
            BY <1>3, <2>2, <3>1, PutStateType DEF BeginRound
    <2>3. QED
        BY <1>3, <2>1, <2>2 DEF BeginRound
<1>4. CASE \E f \in Findings : Judge(f)
    BY <1>4, RoundsAssumption DEF Judge, Fault
<1>5. CASE Resolve
    BY <1>5, PutElsewhereType DEF Resolve
<1>6. CASE Decide
    BY <1>6 DEF Decide, Best
<1>7. CASE \E a \in Answers : Push(a)
    <2>1. PICK a \in Answers : Push(a)
        BY <1>7
    <2>2. Reached(a) \in BOOLEAN /\ Late(a) \in BOOLEAN
        BY DEF Reached, Late
    <2>3. urgentOn' \in [Days -> Nat] /\ looseUrgent' \in [Days -> Nat]
        BY <1>0, <2>1, <2>2, BumpType DEF Push
    <2>4. faults' \in 0..MaxFaults
        BY <2>1, RoundsAssumption DEF Push, CountLate, Fault
    <2>5. alerts' \in [Findings -> Nat]
        BY <2>1 DEF Push
    <2>6. QED
        BY <2>1, <2>3, <2>4, <2>5, RoundsAssumption DEF Push
<1>8. CASE \E f \in Findings : Mark(f)
    <2>1. PICK f \in Findings : Mark(f)
        BY <1>8
    <2>2. faults' \in 0..MaxFaults
        BY <2>1, RoundsAssumption DEF Mark, Fault
    <2>3. marked' \in SUBSET saved /\ card' \in SUBSET saved
        BY <2>1 DEF Mark, TypeOK
    <2>4. QED
        BY <2>1, <2>2, <2>3 DEF Mark
<1>9. CASE Charge
    <2>1. SpendBudget(mem.spent, Day(at)) \in DayCount
        BY AdoptedType, ClockDays DEF SpendBudget, StateFile, DayCount
    <2>2. [Adopted EXCEPT !.spent = SpendBudget(mem.spent, Day(at))] \in StateFile
        BY <2>1, AdoptedType DEF StateFile
    <2>3. PutState([Adopted EXCEPT !.spent = SpendBudget(mem.spent, Day(at))])
        BY <1>9 DEF Charge
    <2>4. mem' \in StateFile /\ disk' \in StateFile /\ faults' \in 0..MaxFaults
        BY <2>2, <2>3, PutStateType
    <2>5. looseUrgent' \in [Days -> Nat]
        BY <1>0, <1>9, BumpType DEF Charge
    <2>6. QED
        BY <1>9, <2>4, <2>5, RoundsAssumption DEF Charge
<1>10. CASE Events
    BY <1>10, PutElsewhereType DEF Events
<1>11. CASE CheckDue
    BY <1>11 DEF CheckDue, Best, Live
<1>12. CASE \E a \in Answers : Brief(a)
    <2>1. PICK a \in Answers : Brief(a)
        BY <1>12
    <2>2. Reached(a) \in BOOLEAN /\ Late(a) \in BOOLEAN
        BY DEF Reached, Late
    <2>3. briefedOn' \in [Days -> Nat] /\ looseDaily' \in [Days -> Nat]
        BY <1>0, <2>1, <2>2, BumpType DEF Brief
    <2>4. faults' \in 0..MaxFaults
        BY <2>1, RoundsAssumption DEF Brief, CountLate, Fault
    <2>5. QED
        BY <1>0, <2>1, <2>3, <2>4, RoundsAssumption DEF Brief
<1>13. CASE Stamp
    <2>1. [Adopted EXCEPT !.last = at] \in StateFile
        BY AdoptedType, RoundsAssumption DEF StateFile, Instant
    <2>2. looseDaily' \in [Days -> Nat]
        BY <1>0, <1>13, BumpType DEF Stamp
    <2>3. QED
        BY <1>13, <2>1, <2>2, PutStateType, RoundsAssumption DEF Stamp
<1>14. CASE Crash
    <2>1. EmptyState \in StateFile
        BY DEF EmptyState, StateFile, NothingSpent, DayCount, Instant
    <2>2. looseUrgent' \in [Days -> Nat] /\ looseDaily' \in [Days -> Nat]
        BY <1>0, <1>14, BumpType DEF Crash
    <2>3. QED
        BY <1>14, <2>1, <2>2, RoundsAssumption DEF Crash, Fault
<1>15. CASE CmdStart
    BY <1>15, RoundsAssumption DEF CmdStart, Best, Live
<1>16. CASE \E a \in Answers, V \in SUBSET Findings : CmdBrief(a, V)
    <2>1. PICK a \in Answers, V \in SUBSET Findings : CmdBrief(a, V)
        BY <1>16
    <2>2. faults' \in 0..MaxFaults
        BY <2>1, RoundsAssumption DEF CmdBrief, CountLate, Fault
    <2>3. marked' \in SUBSET saved
        BY <2>1 DEF CmdBrief
    <2>4. cmdAt' \in 0..MaxTime /\ ackedOn' \in SUBSET Days
        BY <1>0, <2>1, RoundsAssumption DEF CmdBrief
    <2>5. QED
        BY <2>1, <2>2, <2>3, <2>4 DEF CmdBrief
<1>17. CASE CmdStamp
    <2>1. faults' \in 0..MaxFaults /\ cmdAt' \in 0..MaxTime
        BY <1>17, RoundsAssumption DEF CmdStamp, Fault
    <2>2. disk' \in StateFile
        BY <1>17, RoundsAssumption DEF CmdStamp, StateFile, Instant
    <2>3. Bump(looseDaily, Day(disk.last)) \in [Days -> Nat]
        BY BumpType
    <2>4. looseDaily' \in [Days -> Nat]
        BY <1>17, <2>3 DEF CmdStamp, BumpIf
    <2>5. QED
        BY <1>0, <1>17, <2>1, <2>2, <2>4 DEF CmdStamp
<1>18. CASE UNCHANGED vars
    BY <1>18 DEF vars
<1>19. QED
    BY <1>1, <1>2, <1>3, <1>4, <1>5, <1>6, <1>7, <1>8, <1>9, <1>10, <1>11, <1>12,
       <1>13, <1>14, <1>15, <1>16, <1>17, <1>18 DEF Next

\* Whatever crashes, fails or runs beside it, the service's state keeps its type:
\* repeats and pushed marks are only ever recorded of rows the store holds.
THEOREM TypeCorrect == Spec => []TypeOK
BY TypeInit, TypeStep, PTL DEF Spec
-----------------------------------------------------------------------------
(***************************************************************************)
(* One interruption per announcement                                       *)
(***************************************************************************)

Originals == saved \ dups

AlertInv ==
    /\ saved \in SUBSET Findings /\ dups \in SUBSET saved
    /\ alerts \in [Findings -> Nat]
    \* the service is the only writer of rows, so its memory is the log's
    /\ pc # "down" => seen = saved
    \* one original per announcement
    /\ \A f, g \in Originals : TitleOf[f] = TitleOf[g] => f = g
    \* what may go on a card is an original nobody was alerted about
    /\ pc \in {"judge", "decide"} \/ interrupts = {}
    /\ \A f \in interrupts : f \in Originals /\ alerts[f] = 0
    /\ pc = "push" => \A f \in card : f \in Originals /\ alerts[f] = 0
    \* what was on a card is an original, and was on one card only
    /\ \A f \in Findings : alerts[f] > 0 => f \in Originals /\ alerts[f] = 1

\* If whatever was on a card is an original that was on one card only, and an
\* announcement has one original, then no announcement is on two cards.
LEMMA AlertInvImpliesAlertedOnce == AlertInv => AlertedOnce
BY DEF AlertInv, AlertedOnce, Originals

LEMMA AlertInvInit == Init => AlertInv
BY DEF Init, AlertInv, Originals

LEMMA AlertInvStep == AlertInv /\ [Next]_vars => AlertInv'
<1> SUFFICES ASSUME AlertInv, [Next]_vars PROVE AlertInv'
    OBVIOUS
<1> USE DEF AlertInv, Originals, diskVars, localVars, cmdVars, history, sent
<1>1. CASE Tick
    BY <1>1 DEF Tick
<1>2. CASE Start
    BY <1>2 DEF Start
<1>3. CASE BeginRound
    BY <1>3 DEF BeginRound
<1>4. CASE \E f \in Findings : Judge(f)
    <2>1. PICK f \in Findings : Judge(f)
        BY <1>4
    <2>2. pc = "judge" /\ pc' = pc /\ alerts' = alerts /\ seen = saved
        BY <2>1 DEF Judge
    <2>3. CASE UNCHANGED <<saved, dups, seen, interrupts>>
        BY <2>1, <2>2, <2>3
    <2>4. CASE /\ f \notin seen /\ saved' = saved \union {f} /\ seen' = seen \union {f}
               /\ TitleClash(f)
               /\ dups' = dups \union {f} /\ UNCHANGED interrupts
        BY <2>2, <2>4
    <2>5. CASE /\ f \notin seen /\ saved' = saved \union {f} /\ seen' = seen \union {f}
               /\ ~TitleClash(f)
               /\ UNCHANGED dups
               /\ interrupts' \in {interrupts, interrupts \union {f}}
        <3>1. \A g \in saved : TitleOf[g] # TitleOf[f]
            BY <2>2, <2>5 DEF TitleClash
        <3>2. f \notin Originals /\ Originals' = Originals \union {f} /\ alerts[f] = 0
            BY <2>2, <2>5
        <3>3. \A g, h \in Originals' : TitleOf[g] = TitleOf[h] => g = h
            BY <3>1, <3>2
        <3>4. \A g \in interrupts' : g \in Originals' /\ alerts'[g] = 0
            BY <2>2, <2>5, <3>2
        <3>5. QED
            BY <2>2, <2>5, <3>2, <3>3, <3>4
    <2>6. QED
        BY <2>1, <2>3, <2>4, <2>5 DEF Judge
<1>5. CASE Resolve
    BY <1>5 DEF Resolve
<1>6. CASE Decide
    BY <1>6 DEF Decide, Best
<1>7. CASE \E a \in Answers : Push(a)
    BY <1>7 DEF Push
<1>8. CASE \E f \in Findings : Mark(f)
    BY <1>8 DEF Mark
<1>9. CASE Charge
    BY <1>9 DEF Charge
<1>10. CASE Events
    BY <1>10 DEF Events
<1>11. CASE CheckDue
    BY <1>11 DEF CheckDue
<1>12. CASE \E a \in Answers : Brief(a)
    BY <1>12 DEF Brief
<1>13. CASE Stamp
    BY <1>13 DEF Stamp
<1>14. CASE Crash
    BY <1>14 DEF Crash
<1>15. CASE CmdStart
    BY <1>15 DEF CmdStart
<1>16. CASE \E a \in Answers, V \in SUBSET Findings : CmdBrief(a, V)
    BY <1>16 DEF CmdBrief
<1>17. CASE CmdStamp
    BY <1>17 DEF CmdStamp
<1>18. CASE UNCHANGED vars
    BY <1>18 DEF vars
<1>19. QED
    BY <1>1, <1>2, <1>3, <1>4, <1>5, <1>6, <1>7, <1>8, <1>9, <1>10, <1>11, <1>12,
       <1>13, <1>14, <1>15, <1>16, <1>17, <1>18 DEF Next

\* One announcement interrupts the reader at most once, through any number of
\* rounds, crashes, failed writes and unanswered sends.
THEOREM AnnouncementsInterruptOnce == Spec => []AlertedOnce
<1>1. Spec => []AlertInv
    BY AlertInvInit, AlertInvStep, PTL DEF Spec
<1>2. QED
    BY <1>1, AlertInvImpliesAlertedOnce, PTL
-----------------------------------------------------------------------------
(***************************************************************************)
(* A repeat has an original                                                *)
(***************************************************************************)

LEMMA RepeatsStep ==
    AlertInv /\ RepeatsHaveAnOwner /\ [Next]_vars => RepeatsHaveAnOwner'
<1> SUFFICES ASSUME AlertInv, RepeatsHaveAnOwner, [Next]_vars PROVE RepeatsHaveAnOwner'
    OBVIOUS
<1>1. CASE \E f \in Findings : Judge(f)
    <2>1. PICK f \in Findings : Judge(f)
        BY <1>1
    <2>2. pc = "judge" /\ seen = saved
        BY <2>1 DEF Judge, AlertInv
    <2>3. CASE UNCHANGED <<saved, dups>>
        BY <2>3 DEF RepeatsHaveAnOwner
    <2>4. CASE f \notin seen /\ saved' = saved \union {f} /\ dups' = dups \union {f} /\ TitleClash(f)
        <3>1. PICK g \in saved : g # f /\ TitleOf[g] = TitleOf[f]
            BY <2>2, <2>4 DEF TitleClash
        <3>2. \E h \in saved \ dups : TitleOf[h] = TitleOf[f]
            BY <3>1 DEF RepeatsHaveAnOwner
        <3>3. QED
            BY <2>2, <2>4, <3>2 DEF RepeatsHaveAnOwner
    <2>5. CASE f \notin seen /\ saved' = saved \union {f} /\ dups' = dups
        BY <2>2, <2>5 DEF RepeatsHaveAnOwner
    <2>6. QED
        BY <2>1, <2>3, <2>4, <2>5 DEF Judge
<1>2. CASE UNCHANGED <<saved, dups>>
    BY <1>2 DEF RepeatsHaveAnOwner
<1>3. QED
    BY <1>1, <1>2 DEF Next, vars, diskVars, Tick, Start, BeginRound, Resolve, Decide, Push, Mark,
        Charge, Events, CheckDue, Brief, Stamp, Crash, CmdStart, CmdBrief, CmdStamp

\* Whatever is folded as a repeat, the log holds an original of the announcement.
THEOREM RepeatsAreOwned == Spec => []RepeatsHaveAnOwner
<1>1. Init => RepeatsHaveAnOwner
    BY DEF Init, RepeatsHaveAnOwner
<1>2. QED
    BY <1>1, AlertInvInit, AlertInvStep, RepeatsStep, PTL DEF Spec
-----------------------------------------------------------------------------
(***************************************************************************)
(* Records follow deliveries                                               *)
(***************************************************************************)

\* What one copy of state.json claims.
ClaimsAreTrue(s) ==
    /\ s.spent # NothingSpent => s.spent.day \in Days /\ urgentOn[s.spent.day] > 0
    /\ s.last # Never => Day(s.last) \in ackedOn

\* Each write was preceded by its delivery, whose process carries it until then.
RecordInv ==
    /\ \A f \in marked \union cmdMarked : alerts[f] > 0
    /\ ClaimsAreTrue(disk) /\ ClaimsAreTrue(mem)
    /\ pc = "mark" => (\A f \in card : alerts[f] > 0) /\ urgentOn[Day(at)] > 0
    /\ pc = "stamp" => Day(at) \in ackedOn
    /\ cmd = "stamp" => Day(cmdAt) \in ackedOn

LEMMA EmptyClaims == ClaimsAreTrue(EmptyState)
BY DEF ClaimsAreTrue, EmptyState

LEMMA AdoptedClaims ==
    ASSUME ClaimsAreTrue(mem), ClaimsAreTrue(disk)
    PROVE  ClaimsAreTrue(Adopted)
BY DEF ClaimsAreTrue, Adopted

LEMMA RecordInit == Init => RecordInv
BY EmptyClaims DEF Init, RecordInv

\* Deliveries and acknowledgements are never taken back.
LEMMA DeliveriesStay ==
    ASSUME TypeOK, [Next]_vars
    PROVE  /\ \A f \in Findings : alerts[f] > 0 => alerts'[f] > 0
           /\ \A d \in Days : urgentOn[d] > 0 => urgentOn'[d] > 0
           /\ ackedOn \subseteq ackedOn'
<1>1. CASE \E a \in Answers : Push(a)
    <2>1. PICK a \in Answers : Push(a)
        BY <1>1
    <2>2. \A f \in Findings : alerts[f] \in Nat /\ (alerts'[f] = alerts[f] \/ alerts'[f] = alerts[f] + 1)
        BY <2>1 DEF Push, TypeOK
    <2>3. \A d \in Days : urgentOn[d] \in Nat
                          /\ (urgentOn'[d] = urgentOn[d] \/ urgentOn'[d] = urgentOn[d] + 1)
        BY <2>1 DEF Push, TypeOK, Bump, BumpIf
    <2>4. ackedOn' = ackedOn
        BY <2>1 DEF Push
    <2>5. QED
        BY <2>2, <2>3, <2>4
<1>2. CASE UNCHANGED <<alerts, urgentOn>> /\ ackedOn \subseteq ackedOn'
    BY <1>2
<1>3. QED
    BY <1>1, <1>2 DEF Next, vars, history, sent, Tick, Start, BeginRound, Judge, Resolve, Decide,
        Mark, Charge, Events, CheckDue, Brief, Stamp, Crash, CmdStart, CmdBrief, CmdStamp

\* So a copy that is one of the old ones claims nothing more.
LEMMA ClaimsStay ==
    ASSUME TypeOK, RecordInv, [Next]_vars
    PROVE  /\ mem' \in {mem, disk, Adopted, EmptyState} => ClaimsAreTrue(mem)'
           /\ disk' \in {mem, disk, Adopted} => ClaimsAreTrue(disk)'
<1>1. \A s \in {mem, disk, Adopted, EmptyState} : ClaimsAreTrue(s)
    BY AdoptedClaims, EmptyClaims DEF RecordInv
<1>2. \A s \in {mem, disk, Adopted, EmptyState} :
          /\ s.spent # NothingSpent => s.spent.day \in Days /\ urgentOn'[s.spent.day] > 0
          /\ s.last # Never => Day(s.last) \in ackedOn'
    BY <1>1, DeliveriesStay DEF ClaimsAreTrue
<1>3. QED
    BY <1>2 DEF ClaimsAreTrue

LEMMA RecordStep == TypeOK /\ RecordInv /\ [Next]_vars => RecordInv'
<1> SUFFICES ASSUME TypeOK, RecordInv, [Next]_vars PROVE RecordInv'
    OBVIOUS
<1> USE DEF diskVars, localVars, cmdVars, history, sent
<1>0. /\ Day(at) \in Days /\ Day(cmdAt) \in Days
      /\ marked \subseteq Findings /\ cmdMarked \subseteq Findings /\ card \subseteq Findings
    BY ClockDays DEF TypeOK
<1>d. /\ \A f \in Findings : alerts[f] > 0 => alerts'[f] > 0
      /\ \A d \in Days : urgentOn[d] > 0 => urgentOn'[d] > 0
      /\ ackedOn \subseteq ackedOn'
    BY DeliveriesStay
\* Steps that write no record.
<1>f. ASSUME mem' \in {mem, disk, Adopted, EmptyState}, disk' \in {disk, Adopted},
             marked' \union cmdMarked' \subseteq marked \union cmdMarked,
             pc' = "mark" => pc = "mark" /\ card' \subseteq card /\ at' = at,
             pc' = "stamp" => pc = "stamp" /\ at' = at,
             cmd' = "stamp" => cmd = "stamp" /\ cmdAt' = cmdAt
      PROVE  RecordInv'
    <2>1. ClaimsAreTrue(mem)' /\ ClaimsAreTrue(disk)'
        BY <1>f, ClaimsStay
    <2>2. \A f \in marked' \union cmdMarked' : alerts'[f] > 0
        BY <1>0, <1>d, <1>f DEF RecordInv
    <2>3. pc' = "mark" => (\A f \in card' : alerts'[f] > 0) /\ urgentOn'[Day(at')] > 0
        BY <1>0, <1>d, <1>f DEF RecordInv
    <2>4. (pc' = "stamp" => Day(at') \in ackedOn') /\ (cmd' = "stamp" => Day(cmdAt') \in ackedOn')
        BY <1>d, <1>f DEF RecordInv
    <2>5. QED
        BY <2>1, <2>2, <2>3, <2>4 DEF RecordInv
<1>1. CASE \/ Tick \/ Start \/ Resolve \/ Decide \/ Events \/ CheckDue \/ Crash \/ CmdStart
           \/ (\E f \in Findings : Judge(f)) \/ UNCHANGED vars
    <2>1. mem' \in {mem, disk, Adopted, EmptyState} /\ disk' \in {disk, Adopted}
        BY <1>1 DEF Tick, Start, Resolve, Decide, Events, CheckDue, Crash, CmdStart, Judge, vars,
                    PutElsewhere
    <2>2. /\ marked' \union cmdMarked' \subseteq marked \union cmdMarked
          /\ pc' = "mark" => pc = "mark" /\ card' \subseteq card /\ at' = at
          /\ pc' = "stamp" => pc = "stamp" /\ at' = at
          /\ cmd' = "stamp" => cmd = "stamp" /\ cmdAt' = cmdAt
        BY <1>1 DEF Tick, Start, Resolve, Decide, Events, CheckDue, Crash, CmdStart, Judge, vars
    <2>3. QED
        BY <1>f, <2>1, <2>2
<1>2. CASE BeginRound
    <2>1. UNCHANGED <<marked, cmdMarked, cmd, cmdAt, at, card, alerts, urgentOn, ackedOn>>
          /\ pc' \in {"judge", "due"}
        BY <1>2 DEF BeginRound
    <2>2. CASE PutElsewhere
        <3>1. mem' \in {mem, disk, Adopted, EmptyState} /\ disk' \in {disk, Adopted}
            BY <2>2 DEF PutElsewhere
        <3>2. QED
            BY <1>f, <2>1, <3>1
    <2>3. CASE PutState([Adopted EXCEPT !.watched = now])
        <3>1. ClaimsAreTrue([Adopted EXCEPT !.watched = now])
            BY AdoptedClaims DEF RecordInv, ClaimsAreTrue, Adopted
        <3>2. ClaimsAreTrue(mem)' /\ ClaimsAreTrue(disk)'
            BY <2>1, <2>3, <3>1 DEF PutState, ClaimsAreTrue, RecordInv
        <3>3. QED
            BY <2>1, <3>2 DEF RecordInv
    <2>4. QED
        BY <1>2, <2>2, <2>3 DEF BeginRound
<1>3. CASE \E a \in Answers : Push(a)
    <2>1. PICK a \in Answers : Push(a)
        BY <1>3
    <2>2. CASE ~Acked(a)
        <3>1. pc' = "events" /\ UNCHANGED <<mem, disk, marked, cmd, cmdMarked, cmdAt>>
            BY <2>1, <2>2 DEF Push
        <3>2. QED
            BY <1>f, <3>1
    <2>3. CASE Acked(a)
        <3>1. /\ pc = "push" /\ pc' = "mark" /\ Reached(a)
              /\ UNCHANGED <<mem, disk, marked, card, at, cmd, cmdMarked, cmdAt, ackedOn>>
            BY <2>1, <2>3 DEF Push, Acked, Reached
        <3>2. \A f \in card' : alerts'[f] > 0
            BY <1>0, <2>1, <3>1 DEF Push, TypeOK
        <3>3. urgentOn'[Day(at)] > 0
            <4>1. urgentOn[Day(at)] \in Nat /\ urgentOn' = Bump(urgentOn, Day(at))
                BY <1>0, <2>1, <3>1 DEF Push, BumpIf, TypeOK
            <4>2. urgentOn'[Day(at)] = urgentOn[Day(at)] + 1
                BY <1>0, <4>1 DEF Bump, TypeOK
            <4>3. QED
                BY <4>1, <4>2
        <3>4. ClaimsAreTrue(mem)' /\ ClaimsAreTrue(disk)'
            BY <3>1, ClaimsStay
        <3>5. QED
            BY <1>0, <1>d, <3>1, <3>2, <3>3, <3>4 DEF RecordInv
    <2>4. QED
        BY <2>2, <2>3
<1>4. CASE \E f \in Findings : Mark(f)
    <2>1. PICK f \in Findings : Mark(f)
        BY <1>4
    <2>2. alerts[f] > 0
        BY <2>1 DEF Mark, RecordInv
    <2>3. UNCHANGED <<mem, disk, pc, at, cmd, cmdMarked, cmdAt, alerts, urgentOn, ackedOn>>
          /\ card' = card \ {f} /\ marked' \subseteq marked \union {f}
        BY <2>1 DEF Mark
    <2>4. QED
        BY <2>2, <2>3 DEF RecordInv, ClaimsAreTrue
<1>5. CASE Charge
    <2> DEFINE s == [Adopted EXCEPT !.spent = SpendBudget(mem.spent, Day(at))]
    <2>1. UNCHANGED <<marked, cmd, cmdMarked, cmdAt, alerts, urgentOn, ackedOn>>
          /\ pc = "mark" /\ pc' = "events" /\ PutState(s)
        BY <1>5 DEF Charge
    <2>2. ClaimsAreTrue(s)
        <3>1. s.spent.day = Day(at) /\ s.last = Adopted.last
            BY DEF SpendBudget, Adopted
        <3>2. urgentOn[Day(at)] > 0
            BY <2>1 DEF RecordInv
        <3>3. QED
            BY <1>0, <3>1, <3>2, AdoptedClaims DEF ClaimsAreTrue, RecordInv
    <2> HIDE DEF s
    <2>3. ClaimsAreTrue(mem)' /\ ClaimsAreTrue(disk)'
        BY <2>1, <2>2 DEF PutState, ClaimsAreTrue, RecordInv
    <2>4. QED
        BY <2>1, <2>3 DEF RecordInv
<1>6. CASE \E a \in Answers : Brief(a)
    <2>1. PICK a \in Answers : Brief(a)
        BY <1>6
    <2>2. /\ UNCHANGED <<mem, disk, marked, cmd, cmdMarked, cmdAt, alerts, urgentOn>>
          /\ pc' \in {"stamp", "idle"} /\ (pc' = "stamp" => at' = at /\ Day(at) \in ackedOn')
        BY <2>1 DEF Brief
    <2>3. ClaimsAreTrue(mem)' /\ ClaimsAreTrue(disk)'
        BY <2>2, ClaimsStay
    <2>4. QED
        BY <1>d, <2>2, <2>3 DEF RecordInv
<1>7. CASE Stamp
    <2> DEFINE s == [Adopted EXCEPT !.last = at]
    <2>1. UNCHANGED <<marked, cmd, cmdMarked, cmdAt, alerts, urgentOn, ackedOn>>
          /\ pc = "stamp" /\ pc' = "idle" /\ PutState(s)
        BY <1>7 DEF Stamp
    <2>2. ClaimsAreTrue(s)
        <3>1. s.last = at /\ s.spent = Adopted.spent
            BY DEF Adopted
        <3>2. Day(at) \in ackedOn
            BY <2>1 DEF RecordInv
        <3>3. QED
            BY <3>1, <3>2, AdoptedClaims DEF ClaimsAreTrue, RecordInv
    <2> HIDE DEF s
    <2>3. ClaimsAreTrue(mem)' /\ ClaimsAreTrue(disk)'
        BY <2>1, <2>2 DEF PutState, ClaimsAreTrue, RecordInv
    <2>4. QED
        BY <2>1, <2>3 DEF RecordInv
<1>8. CASE \E a \in Answers, V \in SUBSET Findings : CmdBrief(a, V)
    <2>1. PICK a \in Answers, V \in SUBSET Findings : CmdBrief(a, V)
        BY <1>8
    <2>2. /\ UNCHANGED <<mem, disk, pc, card, at, alerts, urgentOn>>
          /\ marked' \subseteq marked \union cmdMarked /\ cmdMarked' = {}
          /\ cmd' = "stamp" => cmdAt' = cmdAt /\ Day(cmdAt) \in ackedOn'
        BY <2>1 DEF CmdBrief
    <2>3. ClaimsAreTrue(mem)' /\ ClaimsAreTrue(disk)'
        BY <2>2, ClaimsStay
    <2>4. QED
        BY <1>d, <2>2, <2>3 DEF RecordInv
<1>9. CASE CmdStamp
    <2>1. UNCHANGED <<mem, marked, cmdMarked, pc, card, at, alerts, urgentOn, ackedOn>>
          /\ cmd = "stamp" /\ cmd' = "none" /\ disk' \in {disk, [disk EXCEPT !.last = cmdAt]}
        BY <1>9 DEF CmdStamp
    <2>2. disk'.spent = disk.spent /\ disk'.last \in {disk.last, cmdAt}
        BY <2>1 DEF TypeOK, StateFile
    <2>3. ClaimsAreTrue(mem)' /\ ClaimsAreTrue(disk)'
        BY <2>1, <2>2 DEF RecordInv, ClaimsAreTrue
    <2>4. QED
        BY <2>1, <2>3 DEF RecordInv
<1>10. QED
    BY <1>1, <1>2, <1>3, <1>4, <1>5, <1>6, <1>7, <1>8, <1>9 DEF Next

\* Nothing is recorded as delivered that was not, in whatever order the service,
\* its crashes and the operator's command write the two files.
THEOREM RecordsFollowDeliveries == Spec => []RecordsAreDelivered
<1>1. RecordInv => RecordsAreDelivered
    BY DEF RecordInv, ClaimsAreTrue, RecordsAreDelivered
<1>2. QED
    BY <1>1, TypeInit, TypeStep, RecordInit, RecordStep, PTL DEF Spec
-----------------------------------------------------------------------------
(***************************************************************************)
(* What a day and a slot carry                                             *)
(***************************************************************************)

LEMMA DaysAreNat == Days \subseteq Nat
BY DayIsNat, RoundsAssumption DEF Days

LEMMA BumpDay ==
    ASSUME NEW f \in [Days -> Nat], NEW day
    PROVE  \A d \in Days : Bump(f, day)[d] = IF d = day THEN f[d] + 1 ELSE f[d]
BY DEF Bump

LEMMA KeysType ==
    ASSUME NEW s \in StateFile
    PROVE  s.spent.day \in Int /\ s.spent.n \in Nat /\ s.last \in Int /\ s.last >= -1
BY DEF StateFile, DayCount, Instant, Never

LEMMA ClockType ==
    ASSUME TypeOK
    PROVE  /\ now \in Nat /\ at \in Nat /\ cmdAt \in Nat
           /\ Day(now) \in Nat /\ Day(at) \in Nat /\ Day(cmdAt) \in Nat
           /\ Day(now) \in Days /\ Day(at) \in Days
BY ClockDays, DayIsNat, RoundsAssumption DEF TypeOK

LEMMA PutElsewhereCopies ==
    ASSUME PutElsewhere
    PROVE  /\ mem'.spent \in {mem.spent, disk.spent} /\ disk'.spent \in {mem.spent, disk.spent}
           /\ mem'.last \in {mem.last, disk.last} /\ disk'.last \in {mem.last, disk.last}
BY DEF PutElsewhere, Adopted

LEMMA AdoptedCopies ==
    /\ Adopted.spent \in {mem.spent, disk.spent}
    /\ Adopted.last \in {mem.last, disk.last}
BY DEF Adopted
-----------------------------------------------------------------------------
(***************************************************************************)
(* The budget of a day                                                     *)
(***************************************************************************)

\* The pairs some process may still act on.
Pairs == {disk.spent} \union (IF pc = "down" THEN {} ELSE {mem.spent})

\* A stored pair knows of every card of its day and of later days, except for
\* those whose charge was lost and the one in hand.
Covers(s) ==
    /\ s.day <= Day(now)
    /\ pc \in {"push", "mark"} => s.day <= Day(at)
    /\ \A d \in Days : s.day <= d =>
          urgentOn[d] <= looseUrgent[d] + (IF s.day = d THEN s.n ELSE 0)
                                        + (IF pc = "mark" /\ Day(at) = d THEN 1 ELSE 0)

UrgentInv ==
    /\ at <= now
    /\ \A s \in Pairs : Covers(s)
    \* a card is on its way only while memory has some of its day's budget left
    /\ pc = "push" => BudgetLeft(mem.spent, UrgentMax, Day(at)) > 0
    /\ UrgentWithinBudget

LEMMA UrgentInit == Init => UrgentInv
<1> SUFFICES ASSUME Init PROVE UrgentInv
    OBVIOUS
<1>1. Day(0) \in Nat
    BY DayIsNat
<1>2. Pairs = {[day |-> -1, n |-> 0]}
    BY DEF Init, Pairs, EmptyState, NothingSpent, Never
<1>3. \A d \in Days : urgentOn[d] = 0 /\ looseUrgent[d] = 0 /\ d \in Nat
    BY DaysAreNat DEF Init
<1>4. \A s \in Pairs : s.day = -1 /\ s.n = 0
    BY <1>2
<1>5. \A s \in Pairs : Covers(s)
    BY <1>1, <1>3, <1>4 DEF Init, Covers
<1>6. QED
    BY <1>3, <1>5, RoundsAssumption DEF Init, UrgentInv, UrgentWithinBudget

LEMMA UrgentStep == TypeOK /\ UrgentInv /\ [Next]_vars => UrgentInv'
<1> SUFFICES ASSUME TypeOK, UrgentInv, [Next]_vars PROVE UrgentInv'
    OBVIOUS
<1> USE DEF diskVars, localVars, cmdVars, history, sent
<1>0. /\ mem \in StateFile /\ disk \in StateFile /\ faults \in Nat
      /\ urgentOn \in [Days -> Nat] /\ looseUrgent \in [Days -> Nat]
    BY RoundsAssumption DEF TypeOK
<1>n. /\ \A s \in Pairs : s.day \in Int /\ s.n \in Nat
      /\ mem.spent.day \in Int /\ mem.spent.n \in Nat
      /\ \A d \in Days : d \in Nat /\ urgentOn[d] \in Nat /\ looseUrgent[d] \in Nat
      /\ now \in Nat /\ at \in Nat /\ UrgentMax \in Nat
      /\ Day(at) \in Nat /\ Day(now) \in Nat
      /\ Day(at) \in Days /\ Day(at) <= Day(now) /\ at <= now
    <2>1. /\ \A s \in Pairs : s.day \in Int /\ s.n \in Nat
          /\ mem.spent.day \in Int /\ mem.spent.n \in Nat
        BY <1>0, KeysType DEF Pairs
    <2>2. \A d \in Days : d \in Nat /\ urgentOn[d] \in Nat /\ looseUrgent[d] \in Nat
        BY <1>0, DaysAreNat
    <2>3. QED
        BY <2>1, <2>2, ClockType, DayIsMonotone, RoundsAssumption DEF UrgentInv
\* Steps that deliver no card and write no charge.
<1>f. ASSUME UNCHANGED <<urgentOn, looseUrgent>>,
             now' \in Nat, now <= now', at' <= now', Day(now) <= Day(now'), Day(now') \in Nat,
             Pairs' \subseteq Pairs,
             pc' = "mark" <=> pc = "mark",
             pc' \in {"push", "mark"} => at' = at,
             pc' = "push" => pc = "push" /\ mem' = mem
      PROVE  UrgentInv'
    <2>1. ASSUME NEW s \in Pairs PROVE Covers(s)'
        <3>1. Covers(s)
            BY DEF UrgentInv
        <3>2. s.day <= Day(now')
            BY <1>n, <1>f, <3>1 DEF Covers
        <3>3. pc' \in {"push", "mark"} => s.day <= Day(at')
            BY <1>f, <3>1 DEF Covers
        <3>4. \A d \in Days : s.day <= d =>
                 urgentOn'[d] <= looseUrgent'[d] + (IF s.day = d THEN s.n ELSE 0)
                                        + (IF pc' = "mark" /\ Day(at') = d THEN 1 ELSE 0)
            BY <1>f, <3>1 DEF Covers
        <3>5. QED
            BY <3>2, <3>3, <3>4 DEF Covers
    <2>2. \A s \in Pairs' : Covers(s)'
        BY <1>f, <2>1
    <2>3. QED
        BY <1>f, <2>2 DEF UrgentInv, UrgentWithinBudget
<1>1. CASE Tick
    <2>1. now' \in Nat /\ now <= now' /\ at <= now' /\ Day(now) <= Day(now') /\ Day(now') \in Nat
        BY <1>n, <1>1, DayIsMonotone, DayIsNat DEF Tick
    <2>2. UNCHANGED <<mem, disk, pc, at, urgentOn, looseUrgent>>
        BY <1>1 DEF Tick
    <2>3. Pairs' = Pairs
        BY <2>2 DEF Pairs
    <2>4. QED
        BY <1>f, <2>1, <2>2, <2>3
<1>2. CASE Start \/ BeginRound \/ Resolve \/ Events \/ CheckDue \/ Stamp \/ CmdStart \/ CmdStamp
    <2>1. UNCHANGED <<urgentOn, looseUrgent, now>> /\ at' \in {at, now, 0}
        BY <1>2 DEF Start, BeginRound, Resolve, Events, CheckDue, Stamp, CmdStart, CmdStamp
    <2>2. CASE CmdStart \/ CmdStamp
        <3>1. UNCHANGED <<mem, pc, at>> /\ disk'.spent = disk.spent
            BY <1>0, <2>2 DEF CmdStart, CmdStamp, StateFile
        <3>2. Pairs' = Pairs
            BY <3>1 DEF Pairs
        <3>3. QED
            BY <1>f, <1>n, <2>1, <3>1, <3>2
    <2>3. CASE Start \/ BeginRound \/ Resolve \/ Events \/ CheckDue \/ Stamp
        <3>1. pc \notin {"push", "mark"} /\ pc' \notin {"push", "mark"}
            BY <2>3 DEF Start, BeginRound, Resolve, Events, CheckDue, Stamp
        <3>2. CASE Start
            BY <1>f, <1>n, <2>1, <3>1, <3>2 DEF Start, Pairs
        <3>3. CASE BeginRound \/ Resolve \/ Events \/ CheckDue \/ Stamp
            <4>1. pc # "down"
                BY <3>3 DEF BeginRound, Resolve, Events, CheckDue, Stamp
            <4>2. \/ UNCHANGED <<mem, disk>> \/ PutElsewhere
                  \/ PutState([Adopted EXCEPT !.watched = now])
                  \/ PutState([Adopted EXCEPT !.last = at])
                BY <3>3 DEF BeginRound, Resolve, Events, CheckDue, Stamp
            <4>3. /\ [Adopted EXCEPT !.watched = now].spent = Adopted.spent
                  /\ [Adopted EXCEPT !.last = at].spent = Adopted.spent
                BY DEF Adopted
            <4>4. mem'.spent \in {mem.spent, disk.spent} /\ disk'.spent \in {mem.spent, disk.spent}
                BY <4>2, <4>3, PutElsewhereCopies, AdoptedCopies DEF PutState
            <4>5. QED
                BY <1>f, <1>n, <2>1, <3>1, <4>1, <4>4 DEF Pairs
        <3>4. QED
            BY <2>3, <3>2, <3>3
    <2>4. QED
        BY <1>2, <2>2, <2>3
<1>3. CASE \/ (\E f \in Findings : Judge(f) \/ Mark(f))
           \/ (\E a \in Answers, V \in SUBSET Findings : CmdBrief(a, V))
           \/ UNCHANGED vars
    <2>1. UNCHANGED <<urgentOn, looseUrgent, now, mem, disk, pc, at>>
        BY <1>3 DEF Judge, Mark, CmdBrief, vars
    <2>2. Pairs' = Pairs
        BY <2>1 DEF Pairs
    <2>3. QED
        BY <1>f, <1>n, <2>1, <2>2
<1>4. CASE \E a \in Answers : Brief(a)
    <2>1. /\ UNCHANGED <<urgentOn, looseUrgent, now, mem, disk>> /\ pc = "brief"
          /\ pc' \in {"stamp", "idle"} /\ at' \in {at, 0}
        BY <1>4 DEF Brief
    <2>2. Pairs' = Pairs
        BY <2>1 DEF Pairs
    <2>3. QED
        BY <1>f, <1>n, <2>1, <2>2
<1>5. CASE Decide
    <2>1. UNCHANGED <<urgentOn, looseUrgent, now, mem, disk>> /\ pc = "decide"
        BY <1>5 DEF Decide
    <2>2. Pairs' = Pairs /\ pc' # "mark" /\ at' <= now
        BY <1>5, <1>n, <2>1 DEF Decide, Pairs
    <2>3. CASE pc' # "push"
        BY <1>f, <1>n, <2>1, <2>2, <2>3
    <2>4. CASE pc' = "push"
        <3>1. at' = now /\ BudgetLeft(mem.spent, UrgentMax, Day(now)) > 0
            BY <1>5, <2>4 DEF Decide
        <3>2. \A s \in Pairs : Covers(s)'
            BY <2>1, <2>2, <2>4, <3>1 DEF UrgentInv, Covers
        <3>3. QED
            BY <2>1, <2>2, <2>4, <3>1, <3>2 DEF UrgentInv, UrgentWithinBudget
    <2>5. QED
        BY <2>3, <2>4
<1>6. CASE \E a \in Answers : Push(a)
    <2>1. PICK a \in Answers : Push(a)
        BY <1>6
    <2>b. Reached(a) \in BOOLEAN /\ Late(a) \in BOOLEAN /\ (Acked(a) => Reached(a) /\ ~Late(a))
          /\ (~Acked(a) => Late(a) = Reached(a))
        BY DEF Reached, Late, Acked
    <2>2. /\ UNCHANGED <<now, mem, disk>> /\ pc = "push"
          /\ pc' = IF Acked(a) THEN "mark" ELSE "events"
          /\ at' = IF Acked(a) THEN at ELSE 0
        BY <2>1 DEF Push
    <2>3. Pairs' = Pairs /\ mem.spent \in Pairs
        BY <2>2 DEF Pairs
    <2>4. \A d \in Days :
             /\ urgentOn'[d] = IF Reached(a) /\ d = Day(at) THEN urgentOn[d] + 1 ELSE urgentOn[d]
             /\ looseUrgent'[d] = IF Late(a) /\ d = Day(at) THEN looseUrgent[d] + 1 ELSE looseUrgent[d]
        <3>1. \A d \in Days :
                 /\ Bump(urgentOn, Day(at))[d] = IF d = Day(at) THEN urgentOn[d] + 1 ELSE urgentOn[d]
                 /\ Bump(looseUrgent, Day(at))[d] = IF d = Day(at) THEN looseUrgent[d] + 1
                                                     ELSE looseUrgent[d]
            BY <1>0, BumpDay
        <3>2. /\ urgentOn' = IF Reached(a) THEN Bump(urgentOn, Day(at)) ELSE urgentOn
              /\ looseUrgent' = IF Late(a) THEN Bump(looseUrgent, Day(at)) ELSE looseUrgent
            BY <2>1 DEF Push, BumpIf
        <3>3. QED
            BY <3>1, <3>2
    <2>5. \A s \in Pairs, d \in Days : s.day <= d =>
             urgentOn[d] <= looseUrgent[d] + (IF s.day = d THEN s.n ELSE 0)
        <3> SUFFICES ASSUME NEW s \in Pairs, NEW d \in Days, s.day <= d
                     PROVE  urgentOn[d] <= looseUrgent[d] + (IF s.day = d THEN s.n ELSE 0)
            OBVIOUS
        <3>1. urgentOn[d] <= looseUrgent[d] + (IF s.day = d THEN s.n ELSE 0)
                    + (IF pc = "mark" /\ Day(at) = d THEN 1 ELSE 0)
            BY DEF UrgentInv, Covers
        <3>2. QED
            BY <1>n, <2>2, <3>1
    <2>6. \A s \in Pairs : s.day <= Day(now) /\ s.day <= Day(at)
        BY <2>2 DEF UrgentInv, Covers
    <2>7. urgentOn[Day(at)] + 1 <= UrgentMax + looseUrgent[Day(at)]
        <3>1. BudgetLeft(mem.spent, UrgentMax, Day(at)) > 0
            BY <2>2 DEF UrgentInv
        <3>2. urgentOn[Day(at)] <= looseUrgent[Day(at)]
                                   + (IF mem.spent.day = Day(at) THEN mem.spent.n ELSE 0)
            BY <1>n, <2>3, <2>5, <2>6
        <3>3. CASE mem.spent.day = Day(at)
            <4>1. mem.spent.n + 1 <= UrgentMax
                BY <1>n, <3>1, <3>3 DEF BudgetLeft
            <4>2. QED
                BY <1>n, <3>2, <3>3, <4>1
        <3>4. CASE mem.spent.day # Day(at)
            <4>1. UrgentMax > 0
                BY <3>1, <3>4 DEF BudgetLeft
            <4>2. QED
                BY <1>n, <3>2, <3>4, <4>1
        <3>5. QED
            BY <3>3, <3>4
    <2>8. UrgentWithinBudget'
        <3> SUFFICES ASSUME NEW d \in Days PROVE urgentOn'[d] <= UrgentMax + looseUrgent'[d]
            BY DEF UrgentWithinBudget
        <3>1. urgentOn[d] <= UrgentMax + looseUrgent[d]
            BY DEF UrgentInv, UrgentWithinBudget
        <3>2. looseUrgent'[d] >= looseUrgent[d] /\ looseUrgent'[d] \in Nat
            BY <1>n, <2>4
        <3>3. CASE d = Day(at)
            BY <1>n, <2>4, <2>7, <3>2, <3>3
        <3>4. CASE d # Day(at)
            BY <1>n, <2>4, <3>1, <3>2, <3>4
        <3>5. QED
            BY <3>3, <3>4
    <2>9. \A s \in Pairs : Covers(s)'
        <3> SUFFICES ASSUME NEW s \in Pairs PROVE Covers(s)'
            OBVIOUS
        <3>1. \A d \in Days : s.day <= d =>
                 urgentOn'[d] <= looseUrgent'[d] + (IF s.day = d THEN s.n ELSE 0)
                                        + (IF pc' = "mark" /\ Day(at') = d THEN 1 ELSE 0)
            <4> SUFFICES ASSUME NEW d \in Days, s.day <= d
                         PROVE  urgentOn'[d] <= looseUrgent'[d] + (IF s.day = d THEN s.n ELSE 0)
                                        + (IF pc' = "mark" /\ Day(at') = d THEN 1 ELSE 0)
                OBVIOUS
            <4>1. urgentOn[d] <= looseUrgent[d] + (IF s.day = d THEN s.n ELSE 0)
                BY <2>5
            <4>2. CASE Acked(a) /\ d = Day(at)
                <5>1. urgentOn'[d] = urgentOn[d] + 1 /\ looseUrgent'[d] = looseUrgent[d]
                      /\ pc' = "mark" /\ Day(at') = d
                    BY <2>2, <2>4, <2>b, <4>2
                <5>2. QED
                    BY <1>n, <4>1, <5>1
            <4>3. CASE ~Acked(a) /\ d = Day(at)
                <5>1. urgentOn'[d] - looseUrgent'[d] = urgentOn[d] - looseUrgent[d]
                      /\ urgentOn'[d] \in Nat /\ looseUrgent'[d] \in Nat /\ pc' = "events"
                    BY <1>n, <2>2, <2>4, <2>b, <4>3
                <5>2. QED
                    BY <1>n, <4>1, <5>1
            <4>4. CASE d # Day(at)
                <5>1. urgentOn'[d] = urgentOn[d] /\ looseUrgent'[d] = looseUrgent[d]
                      /\ ~(pc' = "mark" /\ Day(at') = d)
                    BY <2>2, <2>4, <4>4
                <5>2. QED
                    BY <1>n, <4>1, <5>1
            <4>5. QED
                BY <4>2, <4>3, <4>4
        <3>2. s.day <= Day(now') /\ (pc' \in {"push", "mark"} => s.day <= Day(at'))
            BY <2>2, <2>6
        <3>3. QED
            BY <3>1, <3>2 DEF Covers
    <2>10. at' <= now' /\ pc' # "push"
        BY <1>n, <2>2
    <2>11. QED
        BY <2>3, <2>8, <2>9, <2>10 DEF UrgentInv
<1>7. CASE Charge
    <2> DEFINE s == SpendBudget(mem.spent, Day(at))
    <2>1. s = [day |-> Day(at), n |-> mem.spent.n + 1] /\ s.day = Day(at) /\ s.n = mem.spent.n + 1
        BY DEF SpendBudget
    <2>2. UNCHANGED <<now, urgentOn>> /\ pc = "mark" /\ pc' = "events" /\ at' = 0
        BY <1>7 DEF Charge
    <2>3. [Adopted EXCEPT !.spent = s].spent = s
        BY DEF Adopted
    <2>4. mem.spent \in Pairs /\ disk.spent \in Pairs
        BY <2>2 DEF Pairs
    <2>5. mem'.spent = s
        BY <1>7, <2>3 DEF Charge, PutState
    <2>6. \/ disk'.spent = s /\ looseUrgent' = looseUrgent
          \/ /\ disk' = disk
             /\ \A d \in Days : looseUrgent'[d] = IF d = Day(at) THEN looseUrgent[d] + 1
                                                  ELSE looseUrgent[d]
        <3>1. CASE disk' = mem' /\ UNCHANGED faults
            BY <1>7, <2>5, <3>1 DEF Charge, BumpIf
        <3>2. CASE Fault /\ UNCHANGED disk
            <4>1. faults' # faults
                BY <1>0, <3>2 DEF Fault
            <4>2. looseUrgent' = Bump(looseUrgent, Day(at))
                BY <1>7, <4>1 DEF Charge, BumpIf
            <4>3. \A d \in Days : looseUrgent'[d] = IF d = Day(at) THEN looseUrgent[d] + 1
                                                   ELSE looseUrgent[d]
                BY <1>0, <4>2, BumpDay
            <4>4. QED
                BY <3>2, <4>3
        <3>3. QED
            BY <1>7, <3>1, <3>2 DEF Charge, PutState
    <2>7. \A d \in Days : looseUrgent'[d] >= looseUrgent[d] /\ looseUrgent'[d] \in Nat
        BY <1>n, <2>6
    <2>8. \A p \in Pairs, d \in Days : p.day <= d =>
             urgentOn[d] <= looseUrgent[d] + (IF p.day = d THEN p.n ELSE 0)
                                           + (IF d = Day(at) THEN 1 ELSE 0)
        BY <2>2 DEF UrgentInv, Covers
    <2>9. \A p \in Pairs : p.day <= Day(now) /\ p.day <= Day(at)
        BY <2>2 DEF UrgentInv, Covers
    <2>10. ASSUME NEW p, p = s PROVE Covers(p)'
        <3>0. p.day = Day(at) /\ p.n = mem.spent.n + 1
            BY <2>1, <2>10
        <3>1. \A d \in Days : p.day <= d =>
                 urgentOn'[d] <= looseUrgent'[d] + (IF p.day = d THEN p.n ELSE 0)
                                        + (IF pc' = "mark" /\ Day(at') = d THEN 1 ELSE 0)
            <4> SUFFICES ASSUME NEW d \in Days, p.day <= d
                         PROVE  urgentOn[d] <= looseUrgent'[d] + (IF p.day = d THEN p.n ELSE 0) + 0
                BY <2>2
            <4>1. mem.spent.day <= Day(at) /\ mem.spent.day <= d /\ (mem.spent.day = d => d = Day(at))
                BY <1>n, <2>4, <2>9, <3>0
            <4>2. urgentOn[d] <= looseUrgent[d] + (IF mem.spent.day = d THEN mem.spent.n ELSE 0)
                                                + (IF d = Day(at) THEN 1 ELSE 0)
                BY <2>4, <2>8, <4>1
            <4>3. looseUrgent'[d] >= looseUrgent[d] /\ looseUrgent'[d] \in Nat
                BY <2>7
            <4>4. QED
                BY <1>n, <3>0, <4>1, <4>2, <4>3
        <3>2. p.day <= Day(now') /\ pc' \notin {"push", "mark"}
            BY <1>n, <2>2, <3>0
        <3>3. QED
            BY <3>1, <3>2 DEF Covers
    <2>11. ASSUME NEW p, p = disk.spent,
                  \A d \in Days : looseUrgent'[d] = IF d = Day(at) THEN looseUrgent[d] + 1
                                                    ELSE looseUrgent[d]
           PROVE  Covers(p)'
        <3>0. p \in Pairs
            BY <2>4, <2>11
        <3>1. \A d \in Days : p.day <= d =>
                 urgentOn'[d] <= looseUrgent'[d] + (IF p.day = d THEN p.n ELSE 0)
                                        + (IF pc' = "mark" /\ Day(at') = d THEN 1 ELSE 0)
            <4> SUFFICES ASSUME NEW d \in Days, p.day <= d
                         PROVE  urgentOn[d] <= looseUrgent'[d] + (IF p.day = d THEN p.n ELSE 0) + 0
                BY <2>2
            <4>1. urgentOn[d] <= looseUrgent[d] + (IF p.day = d THEN p.n ELSE 0)
                                                + (IF d = Day(at) THEN 1 ELSE 0)
                BY <2>8, <3>0
            <4>2. QED
                BY <1>n, <2>11, <3>0, <4>1
        <3>2. p.day <= Day(now') /\ pc' \notin {"push", "mark"}
            BY <2>2, <2>9, <3>0
        <3>3. QED
            BY <3>1, <3>2 DEF Covers
    <2>12. \A p \in Pairs' : Covers(p)'
        <3> SUFFICES ASSUME NEW p \in Pairs' PROVE Covers(p)'
            OBVIOUS
        <3>1. p = mem'.spent \/ p = disk'.spent
            BY DEF Pairs
        <3> HIDE DEF s
        <3>2. CASE p = s
            BY <2>10, <3>2
        <3>3. CASE p # s
            BY <2>5, <2>6, <2>11, <3>1, <3>3
        <3>4. QED
            BY <3>2, <3>3
    <2>13. UrgentWithinBudget'
        <3> SUFFICES ASSUME NEW d \in Days PROVE urgentOn'[d] <= UrgentMax + looseUrgent'[d]
            BY DEF UrgentWithinBudget
        <3>1. urgentOn[d] <= UrgentMax + looseUrgent[d]
            BY DEF UrgentInv, UrgentWithinBudget
        <3>2. QED
            BY <1>n, <2>2, <2>7, <3>1
    <2>14. at' <= now' /\ pc' # "push"
        BY <1>n, <2>2
    <2>15. QED
        BY <2>12, <2>13, <2>14 DEF UrgentInv
<1>8. CASE Crash
    <2>1. /\ UNCHANGED <<now, disk, urgentOn>> /\ pc' = "down" /\ at' = 0
          /\ looseUrgent' = IF pc = "mark" THEN Bump(looseUrgent, Day(at)) ELSE looseUrgent
        BY <1>8 DEF Crash, BumpIf
    <2>2. \A d \in Days : looseUrgent'[d] = IF pc = "mark" /\ d = Day(at)
                                            THEN looseUrgent[d] + 1 ELSE looseUrgent[d]
        <3>1. \A d \in Days : Bump(looseUrgent, Day(at))[d] = IF d = Day(at) THEN looseUrgent[d] + 1
                                                             ELSE looseUrgent[d]
            BY <1>0, BumpDay
        <3>2. QED
            BY <2>1, <3>1
    <2>3. Pairs' = {disk.spent} /\ disk.spent \in Pairs
        BY <2>1 DEF Pairs
    <2>4. \A d \in Days : disk.spent.day <= d =>
             urgentOn[d] <= looseUrgent'[d] + (IF disk.spent.day = d THEN disk.spent.n ELSE 0)
        <3> SUFFICES ASSUME NEW d \in Days, disk.spent.day <= d
                     PROVE  urgentOn[d] <= looseUrgent'[d]
                                + (IF disk.spent.day = d THEN disk.spent.n ELSE 0)
            OBVIOUS
        <3>1. urgentOn[d] <= looseUrgent[d] + (IF disk.spent.day = d THEN disk.spent.n ELSE 0)
                                            + (IF pc = "mark" /\ Day(at) = d THEN 1 ELSE 0)
            BY <2>3 DEF UrgentInv, Covers
        <3>2. QED
            BY <1>n, <2>2, <2>3, <3>1
    <2>5. \A d \in Days : looseUrgent'[d] >= looseUrgent[d] /\ looseUrgent'[d] \in Nat
        BY <1>n, <2>2
    <2>6. \A d \in Days : disk.spent.day <= d =>
             urgentOn'[d] <= looseUrgent'[d] + (IF disk.spent.day = d THEN disk.spent.n ELSE 0)
                                        + (IF pc' = "mark" /\ Day(at') = d THEN 1 ELSE 0)
        BY <1>n, <2>1, <2>3, <2>4, <2>5
    <2>7. disk.spent.day <= Day(now') /\ pc' \notin {"push", "mark"}
        BY <2>1, <2>3 DEF UrgentInv, Covers
    <2>8. \A p \in Pairs' : Covers(p)'
        BY <2>3, <2>6, <2>7 DEF Covers
    <2>9. UrgentWithinBudget'
        <3> SUFFICES ASSUME NEW d \in Days PROVE urgentOn'[d] <= UrgentMax + looseUrgent'[d]
            BY DEF UrgentWithinBudget
        <3>1. urgentOn[d] <= UrgentMax + looseUrgent[d]
            BY DEF UrgentInv, UrgentWithinBudget
        <3>2. QED
            BY <1>n, <2>1, <2>5, <3>1
    <2>10. QED
        BY <1>n, <2>1, <2>8, <2>9 DEF UrgentInv
<1>9. QED
    BY <1>1, <1>2, <1>3, <1>4, <1>5, <1>6, <1>7, <1>8 DEF Next

\* No day carries more breakthrough cards than urgent.max_per_day, whatever day
\* the stored count belongs to, except for cards whose charge was lost.
THEOREM CardsStayWithinBudget == Spec => []UrgentWithinBudget
<1>1. UrgentInv => UrgentWithinBudget
    BY DEF UrgentInv
<1>2. QED
    BY <1>1, TypeInit, TypeStep, UrgentInit, UrgentStep, PTL DEF Spec
-----------------------------------------------------------------------------
(***************************************************************************)
(* One briefing per slot                                                   *)
(***************************************************************************)

\* The briefing cursors some process may still act on.
Cursors == {disk.last} \union (IF pc = "down" THEN {} ELSE {mem.last})

\* A cursor that lies before the slot of today or of a later day knows that no
\* briefing of that day went out, except for those whose stamp was lost and the
\* one in hand.
Accounts(s) ==
    /\ s <= now
    /\ \A d \in Days : Day(now) <= d =>
          briefedOn[d] <= looseDaily[d] + (IF s >= SlotAt(d) THEN 1 ELSE 0)
                                        + (IF pc = "stamp" /\ Day(at) = d THEN 1 ELSE 0)

BriefInv ==
    /\ at <= now /\ cmdAt <= now
    /\ \A s \in Cursors : Accounts(s)
    \* no briefing is ahead of its day, which may end before the stamp
    /\ \A d \in Days : d > Day(now) => briefedOn[d] = 0
    /\ pc \in {"brief", "stamp"} =>
          /\ at >= SlotAt(Day(at))
          /\ \A d \in Days : d > Day(at) => briefedOn[d] = 0
    /\ pc = "brief" => briefedOn[Day(at)] <= looseDaily[Day(at)]
    /\ OneBriefingPerSlot

LEMMA SlotIsNat == \A d \in Nat : SlotAt(d) \in Nat
BY CalendarAssumption DEF SlotAt

LEMMA BriefInit == Init => BriefInv
<1> SUFFICES ASSUME Init PROVE BriefInv
    OBVIOUS
<1>1. Day(0) \in Nat
    BY DayIsNat
<1>2. Cursors = {-1}
    BY DEF Init, Cursors, EmptyState, Never
<1>3. \A d \in Days : briefedOn[d] = 0 /\ looseDaily[d] = 0 /\ d \in Nat /\ SlotAt(d) \in Nat
    BY DaysAreNat, SlotIsNat DEF Init
<1>4. Accounts(-1)
    BY <1>1, <1>3 DEF Init, Accounts
<1>5. \A s \in Cursors : Accounts(s)
    BY <1>2, <1>4
<1>6. QED
    BY <1>1, <1>3, <1>5 DEF Init, BriefInv, OneBriefingPerSlot

LEMMA BriefStep == TypeOK /\ BriefInv /\ [Next]_vars => BriefInv'
<1> SUFFICES ASSUME TypeOK, BriefInv, [Next]_vars PROVE BriefInv'
    OBVIOUS
<1> USE DEF diskVars, localVars, cmdVars, history, sent
<1>0. /\ mem \in StateFile /\ disk \in StateFile /\ faults \in Nat
      /\ briefedOn \in [Days -> Nat] /\ looseDaily \in [Days -> Nat]
    BY RoundsAssumption DEF TypeOK
<1>n. /\ \A s \in Cursors : s \in Int /\ s >= -1
      /\ mem.last \in Int /\ disk.last \in Int
      /\ \A d \in Days : /\ d \in Nat /\ SlotAt(d) \in Nat
                         /\ briefedOn[d] \in Nat /\ looseDaily[d] \in Nat
      /\ now \in Nat /\ at \in Nat /\ cmdAt \in Nat
      /\ Day(at) \in Nat /\ Day(now) \in Nat
      /\ Day(at) \in Days /\ Day(now) \in Days /\ Day(at) <= Day(now)
      /\ at <= now /\ cmdAt <= now
    <2>1. /\ \A s \in Cursors : s \in Int /\ s >= -1
          /\ mem.last \in Int /\ disk.last \in Int
        BY <1>0, KeysType DEF Cursors
    <2>2. \A d \in Days : /\ d \in Nat /\ SlotAt(d) \in Nat
                          /\ briefedOn[d] \in Nat /\ looseDaily[d] \in Nat
        BY <1>0, DaysAreNat, SlotIsNat
    <2>3. QED
        BY <2>1, <2>2, ClockType, DayIsMonotone DEF BriefInv
\* Steps that send no briefing, write no stamp and ask for none.
<1>f. ASSUME UNCHANGED <<briefedOn, looseDaily>>,
             now' \in Nat, now <= now', Day(now) <= Day(now'), Day(now') \in Nat,
             at' <= now', cmdAt' <= now',
             Cursors' \subseteq Cursors,
             pc' \in {"brief", "stamp"} => pc' = pc /\ at' = at,
             pc # "stamp" \/ pc' = "stamp"
      PROVE  BriefInv'
    <2>1. ASSUME NEW s \in Cursors PROVE Accounts(s)'
        <3>1. Accounts(s)
            BY DEF BriefInv
        <3>2. s <= now'
            BY <1>n, <1>f, <3>1 DEF Accounts
        <3>3. \A d \in Days : Day(now') <= d => Day(now) <= d
            BY <1>n, <1>f
        <3>4. (pc' = "stamp") = (pc = "stamp") /\ (pc = "stamp" => at' = at)
            BY <1>f
        <3>5. QED
            BY <1>f, <3>1, <3>2, <3>3, <3>4 DEF Accounts
    <2>2. \A s \in Cursors' : Accounts(s)'
        BY <1>f, <2>1
    <2>3. \A d \in Days : d > Day(now') => d > Day(now)
        BY <1>n, <1>f
    <2>4. QED
        BY <1>f, <2>2, <2>3 DEF BriefInv, OneBriefingPerSlot
<1>1. CASE Tick
    <2>1. now' \in Nat /\ now <= now' /\ at <= now' /\ cmdAt <= now'
          /\ Day(now) <= Day(now') /\ Day(now') \in Nat
        BY <1>n, <1>1, DayIsMonotone, DayIsNat DEF Tick
    <2>2. UNCHANGED <<mem, disk, pc, at, cmdAt, briefedOn, looseDaily>>
        BY <1>1 DEF Tick
    <2>3. Cursors' = Cursors
        BY <2>2 DEF Cursors
    <2>4. QED
        BY <1>f, <2>1, <2>2, <2>3
<1>2. CASE \/ CmdStart \/ Decide \/ (\E f \in Findings : Judge(f) \/ Mark(f))
           \/ (\E a \in Answers : Push(a))
           \/ (\E a \in Answers, V \in SUBSET Findings : CmdBrief(a, V))
           \/ UNCHANGED vars
    <2>1. /\ UNCHANGED <<briefedOn, looseDaily, now, mem, disk>>
          /\ at' \in {at, now, 0} /\ cmdAt' \in {cmdAt, now, 0}
          /\ pc' = "down" <=> pc = "down"
          /\ pc' \in {"brief", "stamp"} => pc' = pc /\ at' = at
          /\ pc # "stamp" \/ pc' = "stamp"
        BY <1>2 DEF CmdStart, Decide, Judge, Mark, Push, CmdBrief, vars
    <2>2. Cursors' = Cursors
        BY <2>1 DEF Cursors
    <2>3. QED
        BY <1>f, <1>n, <2>1, <2>2
<1>3. CASE Start \/ BeginRound \/ Resolve \/ Events \/ Charge
    <2>1. /\ UNCHANGED <<briefedOn, looseDaily, now, cmdAt>> /\ at' \in {at, 0}
          /\ pc \notin {"brief", "stamp"} /\ pc' \notin {"brief", "stamp"}
        BY <1>3 DEF Start, BeginRound, Resolve, Events, Charge
    <2>2. CASE Start
        <3>1. Cursors' \subseteq Cursors
            BY <2>2 DEF Start, Cursors
        <3>2. QED
            BY <1>f, <1>n, <2>1, <3>1
    <2>3. CASE BeginRound \/ Resolve \/ Events \/ Charge
        <3>1. pc # "down"
            BY <2>3 DEF BeginRound, Resolve, Events, Charge
        <3>2. \/ PutElsewhere
              \/ PutState([Adopted EXCEPT !.watched = now])
              \/ PutState([Adopted EXCEPT !.spent = SpendBudget(mem.spent, Day(at))])
            BY <2>3 DEF BeginRound, Resolve, Events, Charge
        <3>3. /\ [Adopted EXCEPT !.watched = now].last = Adopted.last
              /\ [Adopted EXCEPT !.spent = SpendBudget(mem.spent, Day(at))].last = Adopted.last
            BY DEF Adopted
        <3>4. mem'.last \in {mem.last, disk.last} /\ disk'.last \in {mem.last, disk.last}
            BY <3>2, <3>3, PutElsewhereCopies, AdoptedCopies DEF PutState
        <3>5. Cursors' \subseteq Cursors
            BY <3>1, <3>4 DEF Cursors
        <3>6. QED
            BY <1>f, <1>n, <2>1, <3>5
    <2>4. QED
        BY <1>3, <2>2, <2>3
<1>4. CASE CheckDue
    <2>1. UNCHANGED <<briefedOn, looseDaily, now, mem, disk, cmdAt>> /\ pc = "due"
          /\ pc' \in {"idle", "brief"}
        BY <1>4 DEF CheckDue
    <2>2. Cursors' = Cursors /\ mem.last \in Cursors
        BY <2>1 DEF Cursors
    <2>3. CASE pc' = "idle"
        <3>1. at' = at
            BY <1>4, <2>3 DEF CheckDue
        <3>2. QED
            BY <1>f, <1>n, <2>1, <2>2, <2>3, <3>1
    <2>4. CASE pc' = "brief"
        <3>1. at' = now /\ DailyDue(mem, now) /\ SlotOf(now) = SlotAt(Day(now))
            BY <1>4, <2>4 DEF CheckDue, SlotOf, SlotAt
        <3>2. now >= SlotAt(Day(now)) /\ ~(mem.last >= SlotAt(Day(now)))
            BY <1>n, <3>1 DEF DailyDue, Gate, Never
        <3>3. briefedOn[Day(now)] <= looseDaily[Day(now)]
            <4>1. briefedOn[Day(now)] <= looseDaily[Day(now)]
                       + (IF mem.last >= SlotAt(Day(now)) THEN 1 ELSE 0)
                       + (IF pc = "stamp" /\ Day(at) = Day(now) THEN 1 ELSE 0)
                BY <1>n, <2>2 DEF BriefInv, Accounts
            <4>2. QED
                BY <1>n, <2>1, <3>2, <4>1
        <3>4. \A s \in Cursors : Accounts(s)'
            BY <2>1, <2>4 DEF BriefInv, Accounts
        <3>5. QED
            BY <1>n, <2>1, <2>2, <2>4, <3>1, <3>2, <3>3, <3>4 DEF BriefInv, OneBriefingPerSlot
    <2>5. QED
        BY <2>1, <2>3, <2>4
<1>5. CASE \E a \in Answers : Brief(a)
    <2>1. PICK a \in Answers : Brief(a)
        BY <1>5
    <2>b. (Acked(a) => Reached(a) /\ ~Late(a)) /\ (~Acked(a) => Late(a) = Reached(a))
        BY DEF Reached, Late, Acked
    <2>2. /\ UNCHANGED <<now, mem, disk, cmdAt>> /\ pc = "brief"
          /\ pc' = IF Acked(a) THEN "stamp" ELSE "idle"
          /\ at' = IF Acked(a) THEN at ELSE 0
        BY <2>1 DEF Brief
    <2>3. Cursors' = Cursors
        BY <2>2 DEF Cursors
    <2>4. \A d \in Days :
             /\ briefedOn'[d] = IF Reached(a) /\ d = Day(at) THEN briefedOn[d] + 1 ELSE briefedOn[d]
             /\ looseDaily'[d] = IF Late(a) /\ d = Day(at) THEN looseDaily[d] + 1 ELSE looseDaily[d]
        <3>1. \A d \in Days :
                 /\ Bump(briefedOn, Day(at))[d] = IF d = Day(at) THEN briefedOn[d] + 1 ELSE briefedOn[d]
                 /\ Bump(looseDaily, Day(at))[d] = IF d = Day(at) THEN looseDaily[d] + 1
                                                   ELSE looseDaily[d]
            BY <1>0, BumpDay
        <3>2. /\ briefedOn' = IF Reached(a) THEN Bump(briefedOn, Day(at)) ELSE briefedOn
              /\ looseDaily' = IF Late(a) THEN Bump(looseDaily, Day(at)) ELSE looseDaily
            BY <2>1 DEF Brief, BumpIf
        <3>3. QED
            BY <3>1, <3>2
    <2>5. /\ briefedOn[Day(at)] <= looseDaily[Day(at)]
          /\ \A d \in Days : d > Day(at) => briefedOn[d] = 0
          /\ at >= SlotAt(Day(at))
        BY <2>2 DEF BriefInv
    <2>6. \A d \in Days : d # Day(at) => briefedOn'[d] = briefedOn[d] /\ looseDaily'[d] = looseDaily[d]
        BY <2>4
    <2>7. \A s \in Cursors : Accounts(s)'
        <3> SUFFICES ASSUME NEW s \in Cursors PROVE Accounts(s)'
            OBVIOUS
        <3>1. \A d \in Days : Day(now) <= d =>
                 briefedOn'[d] <= looseDaily'[d] + (IF s >= SlotAt(d) THEN 1 ELSE 0)
                                        + (IF pc' = "stamp" /\ Day(at') = d THEN 1 ELSE 0)
            <4> SUFFICES ASSUME NEW d \in Days, Day(now) <= d
                         PROVE  briefedOn'[d] <= looseDaily'[d] + (IF s >= SlotAt(d) THEN 1 ELSE 0)
                                        + (IF pc' = "stamp" /\ Day(at') = d THEN 1 ELSE 0)
                OBVIOUS
            <4>1. CASE d = Day(at) /\ Acked(a)
                <5>1. briefedOn'[d] = briefedOn[d] + 1 /\ looseDaily'[d] = looseDaily[d]
                      /\ briefedOn[d] <= looseDaily[d] /\ pc' = "stamp" /\ Day(at') = d
                    BY <2>2, <2>4, <2>5, <2>b, <4>1
                <5>2. QED
                    BY <1>n, <5>1
            <4>2. CASE d = Day(at) /\ ~Acked(a)
                <5>1. briefedOn'[d] - looseDaily'[d] = briefedOn[d] - looseDaily[d]
                      /\ briefedOn'[d] \in Nat /\ looseDaily'[d] \in Nat
                      /\ briefedOn[d] <= looseDaily[d] /\ pc' = "idle"
                    BY <1>n, <2>2, <2>4, <2>5, <2>b, <4>2
                <5>2. QED
                    BY <1>n, <5>1
            <4>3. CASE d # Day(at)
                <5>1. briefedOn[d] <= looseDaily[d] + (IF s >= SlotAt(d) THEN 1 ELSE 0)
                                        + (IF pc = "stamp" /\ Day(at) = d THEN 1 ELSE 0)
                    BY DEF BriefInv, Accounts
                <5>2. briefedOn[d] <= looseDaily[d] + (IF s >= SlotAt(d) THEN 1 ELSE 0)
                    BY <1>n, <2>2, <5>1
                <5>3. ~(pc' = "stamp" /\ Day(at') = d)
                    BY <2>2, <4>3
                <5>4. QED
                    BY <1>n, <2>6, <4>3, <5>2, <5>3
            <4>4. QED
                BY <4>1, <4>2, <4>3
        <3>2. s <= now'
            BY <2>2 DEF BriefInv, Accounts
        <3>3. QED
            BY <2>2, <3>1, <3>2 DEF Accounts
    <2>8. OneBriefingPerSlot'
        <3> SUFFICES ASSUME NEW d \in Days PROVE briefedOn'[d] <= 1 + looseDaily'[d]
            BY DEF OneBriefingPerSlot
        <3>1. CASE d = Day(at)
            <4>1. looseDaily'[d] >= looseDaily[d] /\ looseDaily'[d] \in Nat
                  /\ briefedOn'[d] <= briefedOn[d] + 1
                BY <1>n, <2>4
            <4>2. QED
                BY <1>n, <2>4, <2>5, <3>1, <4>1
        <3>2. CASE d # Day(at)
            BY <2>6, <3>2 DEF BriefInv, OneBriefingPerSlot
        <3>3. QED
            BY <3>1, <3>2
    <2>9. /\ \A d \in Days : d > Day(now') => briefedOn'[d] = 0
          /\ \A d \in Days : d > Day(at) => briefedOn'[d] = 0
        <3>1. \A d \in Days : d > Day(at) => d # Day(at)
            BY <1>n
        <3>2. \A d \in Days : d > Day(now) => d > Day(at)
            BY <1>n
        <3>3. QED
            BY <2>2, <2>5, <2>6, <3>1, <3>2
    <2>10. at' <= now' /\ cmdAt' <= now' /\ pc' # "brief" /\ (pc' = "stamp" => at' = at)
        BY <1>n, <2>2
    <2>11. QED
        BY <2>3, <2>5, <2>7, <2>8, <2>9, <2>10 DEF BriefInv
\* A step that ends a briefing, stamped or lost.
<1>g. ASSUME pc = "stamp", UNCHANGED <<now, briefedOn, cmdAt>>, at' = 0,
             pc' \in {"idle", "down"},
             NEW p, p <= now,
             p = at \/ (p \in Cursors /\ \A d \in Days : looseDaily'[d] =
                              IF d = Day(at) THEN looseDaily[d] + 1 ELSE looseDaily[d]),
             \A d \in Days : looseDaily'[d] >= looseDaily[d] /\ looseDaily'[d] \in Nat
      PROVE  Accounts(p)'
    <2>0. /\ \A d \in Days : d > Day(at) => briefedOn[d] = 0
          /\ at >= SlotAt(Day(at))
          /\ \A d \in Days : briefedOn[d] <= 1 + looseDaily[d]
        BY <1>g DEF BriefInv, OneBriefingPerSlot
    <2>1. \A d \in Days : Day(now) <= d =>
             briefedOn[d] <= looseDaily'[d] + (IF p >= SlotAt(d) THEN 1 ELSE 0) + 0
        <3> SUFFICES ASSUME NEW d \in Days, Day(now) <= d
                     PROVE  briefedOn[d] <= looseDaily'[d] + (IF p >= SlotAt(d) THEN 1 ELSE 0)
            BY <1>n, <1>g
        <3>1. CASE p = at
            <4>1. CASE d = Day(at)
                <5>1. p >= SlotAt(d) /\ briefedOn[d] <= 1 + looseDaily[d]
                    BY <2>0, <3>1, <4>1
                <5>2. QED
                    BY <1>n, <1>g, <5>1
            <4>2. CASE d # Day(at)
                <5>1. briefedOn[d] = 0
                    BY <1>n, <2>0, <4>2
                <5>2. QED
                    BY <1>g, <5>1
            <4>3. QED
                BY <4>1, <4>2
        <3>2. CASE p \in Cursors /\ \A e \in Days : looseDaily'[e] =
                              IF e = Day(at) THEN looseDaily[e] + 1 ELSE looseDaily[e]
            <4>1. briefedOn[d] <= looseDaily[d] + (IF p >= SlotAt(d) THEN 1 ELSE 0)
                                        + (IF pc = "stamp" /\ Day(at) = d THEN 1 ELSE 0)
                BY <3>2 DEF BriefInv, Accounts
            <4>2. QED
                BY <1>n, <1>g, <3>2, <4>1
        <3>3. QED
            BY <1>g, <3>1, <3>2
    <2>2. \A d \in Days : Day(now') <= d =>
             briefedOn'[d] <= looseDaily'[d] + (IF p >= SlotAt(d) THEN 1 ELSE 0)
                                    + (IF pc' = "stamp" /\ Day(at') = d THEN 1 ELSE 0)
        BY <1>g, <2>1
    <2>3. QED
        BY <1>g, <2>2 DEF Accounts
<1>6. CASE Stamp
    <2>1. UNCHANGED <<now, briefedOn, cmdAt>> /\ pc = "stamp" /\ pc' = "idle" /\ at' = 0
        BY <1>6 DEF Stamp
    <2>2. [Adopted EXCEPT !.last = at].last = at
        BY DEF Adopted
    <2>3. mem'.last = at
        BY <1>6, <2>2 DEF Stamp, PutState
    <2>4. \/ disk'.last = at /\ looseDaily' = looseDaily
          \/ /\ disk' = disk
             /\ \A d \in Days : looseDaily'[d] = IF d = Day(at) THEN looseDaily[d] + 1
                                                 ELSE looseDaily[d]
        <3>1. CASE disk' = mem' /\ UNCHANGED faults
            BY <1>6, <2>3, <3>1 DEF Stamp, BumpIf
        <3>2. CASE Fault /\ UNCHANGED disk
            <4>1. faults' # faults
                BY <1>0, <3>2 DEF Fault
            <4>2. looseDaily' = Bump(looseDaily, Day(at))
                BY <1>6, <4>1 DEF Stamp, BumpIf
            <4>3. \A d \in Days : looseDaily'[d] = IF d = Day(at) THEN looseDaily[d] + 1
                                                   ELSE looseDaily[d]
                BY <1>0, <4>2, BumpDay
            <4>4. QED
                BY <3>2, <4>3
        <3>3. QED
            BY <1>6, <3>1, <3>2 DEF Stamp, PutState
    <2>5. \A d \in Days : looseDaily'[d] >= looseDaily[d] /\ looseDaily'[d] \in Nat
        BY <1>n, <2>4
    <2>6. disk.last \in Cursors /\ disk.last <= now
        BY DEF Cursors, BriefInv, Accounts
    <2>7. \A p \in Cursors' : Accounts(p)'
        <3> SUFFICES ASSUME NEW p \in Cursors' PROVE Accounts(p)'
            OBVIOUS
        <3>1. p = mem'.last \/ p = disk'.last
            BY DEF Cursors
        <3>2. CASE p = at
            BY <1>g, <1>n, <2>1, <2>5, <3>2
        <3>3. CASE p # at
            <4>1. p = disk.last /\ \A d \in Days : looseDaily'[d] =
                              IF d = Day(at) THEN looseDaily[d] + 1 ELSE looseDaily[d]
                BY <2>3, <2>4, <3>1, <3>3
            <4>2. QED
                BY <1>g, <2>1, <2>5, <2>6, <4>1
        <3>4. QED
            BY <3>2, <3>3
    <2>8. OneBriefingPerSlot'
        <3> SUFFICES ASSUME NEW d \in Days PROVE briefedOn'[d] <= 1 + looseDaily'[d]
            BY DEF OneBriefingPerSlot
        <3>1. briefedOn[d] <= 1 + looseDaily[d]
            BY DEF BriefInv, OneBriefingPerSlot
        <3>2. QED
            BY <1>n, <2>1, <2>5, <3>1
    <2>9. QED
        BY <1>n, <2>1, <2>7, <2>8 DEF BriefInv
<1>7. CASE Crash
    <2>1. /\ UNCHANGED <<now, disk, briefedOn, cmdAt>> /\ pc' = "down" /\ at' = 0
          /\ looseDaily' = IF pc = "stamp" THEN Bump(looseDaily, Day(at)) ELSE looseDaily
        BY <1>7 DEF Crash, BumpIf
    <2>2. Cursors' = {disk.last} /\ disk.last \in Cursors
        BY <2>1 DEF Cursors
    <2>3. CASE pc # "stamp"
        BY <1>f, <1>n, <2>1, <2>2, <2>3
    <2>4. CASE pc = "stamp"
        <3>1. \A d \in Days : looseDaily'[d] = IF d = Day(at) THEN looseDaily[d] + 1
                                               ELSE looseDaily[d]
            BY <1>0, <2>1, <2>4, BumpDay
        <3>2. \A d \in Days : looseDaily'[d] >= looseDaily[d] /\ looseDaily'[d] \in Nat
            BY <1>n, <3>1
        <3>3. disk.last <= now
            BY <2>2 DEF BriefInv, Accounts
        <3>4. \A p \in Cursors' : Accounts(p)'
            <4> SUFFICES ASSUME NEW p \in Cursors' PROVE Accounts(p)'
                OBVIOUS
            <4>1. p \in Cursors /\ p <= now
                BY <2>2, <3>3
            <4>2. QED
                BY <1>g, <2>1, <2>4, <3>1, <3>2, <4>1
        <3>5. OneBriefingPerSlot'
            <4> SUFFICES ASSUME NEW d \in Days PROVE briefedOn'[d] <= 1 + looseDaily'[d]
                BY DEF OneBriefingPerSlot
            <4>1. briefedOn[d] <= 1 + looseDaily[d]
                BY DEF BriefInv, OneBriefingPerSlot
            <4>2. QED
                BY <1>n, <2>1, <3>2, <4>1
        <3>6. QED
            BY <1>n, <2>1, <3>4, <3>5 DEF BriefInv
    <2>5. QED
        BY <2>3, <2>4
<1>8. CASE CmdStamp
    <2>1. UNCHANGED <<now, briefedOn, mem, pc, at>> /\ cmdAt' = 0
        BY <1>8 DEF CmdStamp
    <2>2. \/ UNCHANGED <<disk, looseDaily>>
          \/ /\ disk'.last = cmdAt
             /\ looseDaily' = IF disk.last > cmdAt THEN Bump(looseDaily, Day(disk.last))
                              ELSE looseDaily
        BY <1>8, <1>0 DEF CmdStamp, BumpIf, StateFile
    <2>3. CASE UNCHANGED <<disk, looseDaily>>
        <3>1. Cursors' = Cursors
            BY <2>1, <2>3 DEF Cursors
        <3>2. QED
            BY <1>f, <1>n, <2>1, <2>3, <3>1
    <2>4. CASE /\ disk'.last = cmdAt
               /\ looseDaily' = IF disk.last > cmdAt THEN Bump(looseDaily, Day(disk.last))
                                ELSE looseDaily
        <3>1. \A d \in Days : looseDaily'[d] = IF disk.last > cmdAt /\ d = Day(disk.last)
                                               THEN looseDaily[d] + 1 ELSE looseDaily[d]
            <4>1. \A d \in Days : Bump(looseDaily, Day(disk.last))[d] =
                                  IF d = Day(disk.last) THEN looseDaily[d] + 1 ELSE looseDaily[d]
                BY <1>0, BumpDay
            <4>2. QED
                BY <2>4, <4>1
        <3>2. \A d \in Days : looseDaily'[d] >= looseDaily[d] /\ looseDaily'[d] \in Nat
            BY <1>n, <3>1
        <3>3. \A s \in Cursors, d \in Days : Day(now) <= d =>
                 briefedOn[d] <= looseDaily[d] + (IF s >= SlotAt(d) THEN 1 ELSE 0)
                                        + (IF pc = "stamp" /\ Day(at) = d THEN 1 ELSE 0)
            BY DEF BriefInv, Accounts
        <3>4. ASSUME NEW s \in Cursors PROVE Accounts(s)'
            <4>1. s <= now'
                BY <2>1 DEF BriefInv, Accounts
            <4>2. \A d \in Days : Day(now) <= d =>
                     briefedOn[d] <= looseDaily'[d] + (IF s >= SlotAt(d) THEN 1 ELSE 0)
                                        + (IF pc = "stamp" /\ Day(at) = d THEN 1 ELSE 0)
                <5> SUFFICES ASSUME NEW d \in Days, Day(now) <= d
                             PROVE  briefedOn[d] <= looseDaily'[d] + (IF s >= SlotAt(d) THEN 1 ELSE 0)
                                        + (IF pc = "stamp" /\ Day(at) = d THEN 1 ELSE 0)
                    OBVIOUS
                <5>1. briefedOn[d] <= looseDaily[d] + (IF s >= SlotAt(d) THEN 1 ELSE 0)
                                        + (IF pc = "stamp" /\ Day(at) = d THEN 1 ELSE 0)
                    BY <3>3
                <5>2. QED
                    BY <1>n, <3>2, <5>1
            <4>3. QED
                BY <2>1, <4>1, <4>2 DEF Accounts
        <3>5. ASSUME NEW p, p = cmdAt PROVE Accounts(p)'
            <4>1. \A d \in Days : Day(now) <= d =>
                     briefedOn[d] <= looseDaily'[d] + (IF p >= SlotAt(d) THEN 1 ELSE 0)
                                        + (IF pc = "stamp" /\ Day(at) = d THEN 1 ELSE 0)
                <5> SUFFICES ASSUME NEW d \in Days, Day(now) <= d
                             PROVE  briefedOn[d] <= looseDaily'[d] + (IF p >= SlotAt(d) THEN 1 ELSE 0)
                                        + (IF pc = "stamp" /\ Day(at) = d THEN 1 ELSE 0)
                    OBVIOUS
                <5>1. briefedOn[d] <= looseDaily[d] + (IF disk.last >= SlotAt(d) THEN 1 ELSE 0)
                                        + (IF pc = "stamp" /\ Day(at) = d THEN 1 ELSE 0)
                    BY <3>3 DEF Cursors
                \* an older stamp hides a newer one: then that one is counted as lost
                <5>2. disk.last >= SlotAt(d) /\ ~(p >= SlotAt(d)) => looseDaily'[d] = looseDaily[d] + 1
                    <6> SUFFICES ASSUME disk.last >= SlotAt(d), ~(p >= SlotAt(d))
                                 PROVE  looseDaily'[d] = looseDaily[d] + 1
                        OBVIOUS
                    <6>1. disk.last \in Nat /\ disk.last > cmdAt
                        BY <1>n, <3>5
                    <6>2. Day(disk.last) >= d /\ Day(disk.last) \in Nat
                        BY <1>n, <6>1, SlotIsInItsDay, DayIsNat
                    <6>3. disk.last <= now
                        BY DEF Cursors, BriefInv, Accounts
                    <6>4. Day(disk.last) <= Day(now)
                        BY <1>n, <6>1, <6>3, DayIsMonotone
                    <6>5. d = Day(disk.last)
                        BY <1>n, <6>2, <6>4
                    <6>6. QED
                        BY <3>1, <6>1, <6>5
                <5>3. QED
                    BY <1>n, <3>2, <5>1, <5>2
            <4>2. p <= now'
                BY <1>n, <2>1, <3>5
            <4>3. QED
                BY <2>1, <4>1, <4>2 DEF Accounts
        <3>6. \A p \in Cursors' : Accounts(p)'
            <4> SUFFICES ASSUME NEW p \in Cursors' PROVE Accounts(p)'
                OBVIOUS
            <4>1. p = cmdAt \/ p \in Cursors
                BY <2>1, <2>4 DEF Cursors
            <4>2. QED
                BY <3>4, <3>5, <4>1
        <3>7. OneBriefingPerSlot'
            <4> SUFFICES ASSUME NEW d \in Days PROVE briefedOn'[d] <= 1 + looseDaily'[d]
                BY DEF OneBriefingPerSlot
            <4>1. briefedOn[d] <= 1 + looseDaily[d]
                BY DEF BriefInv, OneBriefingPerSlot
            <4>2. QED
                BY <1>n, <2>1, <3>2, <4>1
        <3>8. pc' = "brief" => briefedOn'[Day(at')] <= looseDaily'[Day(at')]
            <4>1. pc = "brief" => briefedOn[Day(at)] <= looseDaily[Day(at)]
                BY DEF BriefInv
            <4>2. QED
                BY <1>n, <2>1, <3>2, <4>1
        <3>9. QED
            BY <1>n, <2>1, <3>6, <3>7, <3>8 DEF BriefInv
    <2>5. QED
        BY <2>2, <2>3, <2>4
<1>9. QED
    BY <1>1, <1>2, <1>3, <1>4, <1>5, <1>6, <1>7, <1>8 DEF Next

\* A day has one scheduled briefing, although the operator's command may set the
\* cursor back, except for those whose stamp was lost or overwritten.
THEOREM SlotsBriefOnce == Spec => []OneBriefingPerSlot
<1>1. BriefInv => OneBriefingPerSlot
    BY DEF BriefInv
<1>2. QED
    BY <1>1, TypeInit, TypeStep, BriefInit, BriefStep, PTL DEF Spec
=============================================================================
