--------------------------- MODULE RemindersProofs --------------------------
(***************************************************************************)
(* Proofs about Reminders, for every set of rows, every window and every   *)
(* budget: the state keeps its type, a row reminds once, and a day carries *)
(* no more cards than its budget.                                          *)
(*                                                                         *)
(* Both counts are of deliveries, while the program decides on what it     *)
(* wrote down: the two invariants relate them, step by step between the    *)
(* send and the writes that follow it, for the file and for the copy in    *)
(* memory, which a crash throws away.                                      *)
(***************************************************************************)
EXTENDS Reminders, TLAPS

-----------------------------------------------------------------------------
(***************************************************************************)
(* Days, for every length of a day.                                        *)
(***************************************************************************)
\* An instant lies in its day.
LEMMA DayBounds ==
    ASSUME NEW t \in Nat
    PROVE  Day(t) \in Nat /\ DayLen * Day(t) <= t /\ t < DayLen * Day(t) + DayLen
BY CalendarAssumption DEF Day

\* Days start one after the other.
LEMMA DayStarts ==
    ASSUME NEW c \in Nat, NEW d \in Nat, c < d
    PROVE  DayLen * c + DayLen <= DayLen * d
<1>1. DayLen \in Nat /\ DayLen > 0
    BY CalendarAssumption
<1>2. DayLen * (c + 1) <= DayLen * d
    BY <1>1
<1>3. DayLen * (c + 1) = DayLen * c + DayLen
    BY <1>1
<1>4. QED
    BY <1>2, <1>3

LEMMA DayIsNat == \A t \in Nat : Day(t) \in Nat
BY DayBounds

LEMMA DayIsMonotone == \A s, t \in Nat : s <= t => Day(s) <= Day(t)
<1> SUFFICES ASSUME NEW s \in Nat, NEW t \in Nat, s <= t, Day(t) < Day(s) PROVE FALSE
    BY DayBounds
<1>1. DayLen * Day(t) + DayLen <= DayLen * Day(s)
    BY DayBounds, DayStarts
<1>2. DayLen * Day(t) \in Nat /\ DayLen * Day(s) \in Nat /\ DayLen \in Nat
    BY DayBounds, CalendarAssumption
<1>3. QED
    BY <1>1, <1>2, DayBounds

-----------------------------------------------------------------------------
(***************************************************************************)
(* Type correctness                                                        *)
(***************************************************************************)

LEMMA DaysProperties ==
    /\ \A t \in 0..MaxTime : Day(t) \in Days
    /\ Days \subseteq Nat
BY DayIsNat, RemindersAssumption DEF Days

LEMMA BumpType ==
    ASSUME NEW D, NEW f \in [D -> Nat], NEW S
    PROVE  /\ Bump(f, S) \in [D -> Nat]
           /\ \A x \in D : Bump(f, S)[x] = IF x \in S THEN f[x] + 1 ELSE f[x]
BY DEF Bump

LEMMA AdoptedType ==
    ASSUME mem \in State, disk \in State
    PROVE  /\ Adopted \in State
           /\ Adopted.marks = mem.marks \union disk.marks
           /\ Adopted.spent \in {mem.spent, disk.spent}
BY DEF Adopted, State

LEMMA PutStateType ==
    ASSUME TypeOK, NEW s \in State, PutState(s)
    PROVE  mem' \in State /\ disk' \in State /\ faults' \in 0..MaxFaults
BY RemindersAssumption DEF TypeOK, PutState, Fault

LEMMA DueIsKnown == \A t : Due(t) \subseteq known
BY DEF Due

LEMMA TypeInit == Init => TypeOK
<1> SUFFICES ASSUME Init PROVE TypeOK
    OBVIOUS
<1>1. 0 \in 0..MaxTime /\ 0 \in 0..MaxFaults
    BY RemindersAssumption
<1>2. EmptyState \in State
    BY DEF EmptyState, State, NothingSpent, DayCount, Instant
<1>3. QED
    BY <1>1, <1>2 DEF Init, TypeOK

LEMMA TypeStep == TypeOK /\ [Next]_vars => TypeOK'
<1> SUFFICES ASSUME TypeOK, [Next]_vars PROVE TypeOK'
    OBVIOUS
<1> USE DEF TypeOK, local, history
<1>1. CASE Tick
    BY <1>1, RemindersAssumption DEF Tick
<1>2. CASE PutElsewhere
    BY <1>2, AdoptedType DEF PutElsewhere
<1>3. CASE Start
    BY <1>3 DEF Start
<1>4. CASE Scan
    <2>1. card' \in SUBSET known
        BY <1>4, DueIsKnown DEF Scan, Soonest
    <2>2. QED
        BY <1>4, <2>1 DEF Scan
<1>5. CASE Sent
    BY <1>5, BumpType DEF Sent
<1>6. CASE Refused
    <2>1. /\ reminders' \in [Events -> Nat] /\ unmarked' \in [Events -> Nat]
          /\ cards' \in [Days -> Nat] /\ uncharged' \in [Days -> Nat]
        BY <1>6, BumpType DEF Refused
    <2>2. faults' \in 0..MaxFaults /\ at' \in 0..MaxTime
        BY <1>6, RemindersAssumption DEF Refused, Fault
    <2>3. QED
        BY <1>6, <2>1, <2>2 DEF Refused
<1>7. CASE Charge
    <2>1. [Adopted EXCEPT !.spent = SpendBudget(mem.spent, Day(at))] \in State
        BY AdoptedType, DayIsNat, RemindersAssumption DEF State, SpendBudget, DayCount, Instant
    <2>2. mem' \in State /\ disk' \in State /\ faults' \in 0..MaxFaults
        BY <1>7, <2>1, PutStateType DEF Charge
    <2>3. uncharged' \in [Days -> Nat] /\ at' \in 0..MaxTime
        BY <1>7, BumpType, RemindersAssumption DEF Charge
    <2>4. QED
        BY <1>7, <2>2, <2>3 DEF Charge
<1>8. CASE Crash
    <2>1. EmptyState \in State
        BY DEF EmptyState, State, NothingSpent, DayCount, Instant
    <2>2. unmarked' \in [Events -> Nat] /\ uncharged' \in [Days -> Nat]
        BY <1>8, BumpType DEF Crash
    <2>3. faults' \in 0..MaxFaults /\ at' \in 0..MaxTime
        BY <1>8, RemindersAssumption DEF Crash, Fault
    <2>4. QED
        BY <1>8, <2>1, <2>2, <2>3 DEF Crash
<1>9. CASE \E e \in Events : Collect(e)
    BY <1>9 DEF Collect
<1>10. CASE \E e \in Events : Mark(e)
    <2>1. PICK e \in Events : Mark(e)
        BY <1>10
    <2>2. [Adopted EXCEPT !.marks = @ \union {e}] \in State
        BY AdoptedType DEF State
    <2>3. mem' \in State /\ disk' \in State /\ faults' \in 0..MaxFaults
        BY <2>1, <2>2, PutStateType DEF Mark
    <2>4. unmarked' \in [Events -> Nat]
        BY <2>1, BumpType DEF Mark
    <2>5. QED
        BY <2>1, <2>3, <2>4 DEF Mark
<1>11. CASE UNCHANGED vars
    BY <1>11 DEF vars
<1>12. QED
    BY <1>1, <1>2, <1>3, <1>4, <1>5, <1>6, <1>7, <1>8, <1>9, <1>10, <1>11 DEF Next

\* Marks, counts and card stay what they are across crashes, failed writes and
\* unanswered cards; what is on a card is a row the store holds.
THEOREM TypeCorrect == Spec => []TypeOK
BY TypeInit, TypeStep, PTL DEF Spec
-----------------------------------------------------------------------------
(***************************************************************************)
(* One reminder per row                                                    *)
(***************************************************************************)

\* The mark of a row is on disk, or its write is still to come.
Marking(e) == e \in disk.marks \/ (pc = "mark" /\ e \in card)

RemindInv ==
    \* the copy in memory never forgets what the file knows
    /\ pc # "down" => disk.marks \subseteq mem.marks
    \* so a card that is about to go out carries no row with a mark
    /\ pc = "send" => card \intersect mem.marks = {}
    /\ \A e \in Events : reminders[e] <= unmarked[e] + (IF Marking(e) THEN 1 ELSE 0)

LEMMA RemindInit == Init => RemindInv
BY DEF Init, RemindInv

LEMMA RemindStep == TypeOK /\ RemindInv /\ [Next]_vars => RemindInv'
<1> SUFFICES ASSUME TypeOK, RemindInv, [Next]_vars PROVE RemindInv'
    OBVIOUS
<1> USE DEF RemindInv, Marking, local, history
<1>0. /\ mem \in State /\ disk \in State /\ faults \in Nat
      /\ reminders \in [Events -> Nat] /\ unmarked \in [Events -> Nat]
    BY RemindersAssumption DEF TypeOK
<1>1. CASE Tick
    BY <1>1 DEF Tick
<1>2. CASE PutElsewhere
    BY <1>0, <1>2, AdoptedType DEF PutElsewhere
<1>3. CASE Start
    BY <1>3 DEF Start
<1>4. CASE Scan
    BY <1>4 DEF Scan, Soonest, Due
<1>5. CASE Sent
    <2>1. \A e \in card : e \notin disk.marks
        BY <1>5 DEF Sent
    <2>2. \A e \in Events : reminders'[e] = IF e \in card THEN reminders[e] + 1 ELSE reminders[e]
        BY <1>0, <1>5, BumpType DEF Sent
    <2>3. QED
        BY <1>0, <1>5, <2>1, <2>2 DEF Sent
<1>6. CASE Refused
    <2>1. CASE UNCHANGED <<reminders, unmarked>>
        BY <1>6, <2>1 DEF Refused
    <2>2. CASE reminders' = Bump(reminders, card) /\ unmarked' = Bump(unmarked, card)
        <3>1. \A e \in Events :
                 reminders'[e] - unmarked'[e] = reminders[e] - unmarked[e]
                 /\ reminders'[e] \in Nat /\ unmarked'[e] \in Nat
            BY <1>0, <2>2, BumpType
        <3>2. \A e \in Events : Marking(e)' = Marking(e)
            BY <1>6 DEF Refused
        <3>3. QED
            BY <1>0, <1>6, <3>1, <3>2 DEF Refused
    <2>3. QED
        BY <1>6, <2>1, <2>2 DEF Refused
<1>7. CASE Charge
    <2>1. [Adopted EXCEPT !.spent = SpendBudget(mem.spent, Day(at))].marks = Adopted.marks
        BY <1>0, AdoptedType DEF State
    <2>2. mem'.marks = mem.marks \union disk.marks
          /\ disk'.marks \in {disk.marks, mem.marks \union disk.marks}
        BY <1>0, <1>7, <2>1, AdoptedType DEF Charge, PutState
    <2>3. QED
        BY <1>0, <1>7, <2>2 DEF Charge
<1>8. CASE Crash
    <2>1. \A e \in Events : unmarked'[e] = IF pc = "mark" /\ e \in card
                                           THEN unmarked[e] + 1 ELSE unmarked[e]
        BY <1>0, <1>8, BumpType DEF Crash
    <2>2. QED
        BY <1>0, <1>8, <2>1 DEF Crash
<1>9. CASE \E e \in Events : Collect(e)
    BY <1>9 DEF Collect
<1>10. CASE \E e \in Events : Mark(e)
    <2>1. PICK e \in Events : Mark(e)
        BY <1>10
    <2>2. [Adopted EXCEPT !.marks = @ \union {e}].marks = mem.marks \union disk.marks \union {e}
        BY <1>0, AdoptedType DEF State
    <2>3. mem'.marks = mem.marks \union disk.marks \union {e}
        BY <2>1, <2>2 DEF Mark, PutState
    <2>4. CASE disk' = mem' /\ UNCHANGED faults
        BY <1>0, <2>1, <2>3, <2>4 DEF Mark
    <2>5. CASE Fault /\ UNCHANGED disk
        <3>1. faults' # faults
            BY <1>0, <2>5 DEF Fault
        <3>2. \A g \in Events : unmarked'[g] = IF g = e THEN unmarked[g] + 1 ELSE unmarked[g]
            BY <1>0, <2>1, <3>1, BumpType DEF Mark
        <3>3. pc = "mark" /\ pc' = pc /\ e \in card /\ card' = card \ {e} /\ disk' = disk
              /\ reminders' = reminders
            BY <2>1, <2>5 DEF Mark
        <3>4. \A g \in Events \ {e} : unmarked'[g] = unmarked[g] /\ Marking(g)' = Marking(g)
            BY <3>2, <3>3
        <3>5. \A g \in Events :
                 reminders'[g] <= unmarked'[g] + (IF Marking(g)' THEN 1 ELSE 0)
            BY <1>0, <3>2, <3>3, <3>4
        <3>6. QED
            BY <2>3, <3>3, <3>5
    <2>6. QED
        BY <2>1, <2>4, <2>5 DEF Mark, PutState
<1>11. CASE UNCHANGED vars
    BY <1>11 DEF vars
<1>12. QED
    BY <1>1, <1>2, <1>3, <1>4, <1>5, <1>6, <1>7, <1>8, <1>9, <1>10, <1>11 DEF Next

\* No row reminds its reader twice, except once more for each of its deliveries
\* whose mark was lost.
THEOREM RowsRemindOnce == Spec => []RemindedOnce
<1>1. TypeOK /\ RemindInv => RemindedOnce
    BY DEF TypeOK, RemindInv, RemindedOnce
<1>2. QED
    BY <1>1, TypeInit, TypeStep, RemindInit, RemindStep, PTL DEF Spec
-----------------------------------------------------------------------------
(***************************************************************************)
(* The budget of a day                                                     *)
(***************************************************************************)

\* The charge of a card that has gone out is still to be written.
Charging(d) == pc = "mark" /\ Day(at) = d

\* A stored pair knows of every card of its day and of later days, except for
\* those whose charge was lost and the one in hand.
Covers(spent) ==
    /\ spent.day <= Day(now)
    /\ pc \in {"send", "mark"} => spent.day <= Day(at)
    /\ \A d \in Days : spent.day <= d =>
          cards[d] <= uncharged[d] + (IF spent.day = d THEN spent.n ELSE 0)
                                   + (IF Charging(d) THEN 1 ELSE 0)

BudgetInv ==
    /\ at <= now
    /\ Covers(disk.spent)
    /\ pc # "down" => Covers(mem.spent)
    \* a card is on its way only while memory has some of its day's budget left
    /\ pc = "send" => BudgetLeft(mem.spent, MaxPerDay, Day(at)) > 0
    /\ CardsWithinBudget

LEMMA BudgetInit == Init => BudgetInv
<1> SUFFICES ASSUME Init PROVE BudgetInv
    OBVIOUS
<1>1. Day(0) \in Nat /\ 0 \in 0..MaxTime
    BY DayIsNat, RemindersAssumption
<1>2. disk.spent = [day |-> -1, n |-> 0]
    BY DEF Init, EmptyState, NothingSpent, Never
<1>3. \A d \in Days : cards[d] = 0 /\ uncharged[d] = 0 /\ d \in Nat
    BY DaysProperties DEF Init
<1>4. QED
    BY <1>1, <1>2, <1>3, RemindersAssumption
    DEF Init, BudgetInv, Covers, Charging, CardsWithinBudget

LEMMA BumpDay ==
    ASSUME NEW f \in [Days -> Nat], NEW day
    PROVE  \A d \in Days : Bump(f, {day})[d] = IF d = day THEN f[d] + 1 ELSE f[d]
BY DEF Bump

LEMMA PairType ==
    ASSUME NEW s \in State
    PROVE  s.spent.day \in Int /\ s.spent.n \in Nat
BY DEF State, DayCount, Instant, Never

LEMMA BudgetStep == TypeOK /\ BudgetInv /\ [Next]_vars => BudgetInv'
<1> SUFFICES ASSUME TypeOK, BudgetInv, [Next]_vars PROVE BudgetInv'
    OBVIOUS
<1> USE DEF BudgetInv, local, history
<1>0. /\ mem \in State /\ disk \in State /\ faults \in Nat
      /\ mem.spent \in DayCount /\ disk.spent \in DayCount
      /\ cards \in [Days -> Nat] /\ uncharged \in [Days -> Nat]
      /\ now \in Nat /\ at \in Nat /\ MaxPerDay \in Nat /\ Days \subseteq Nat
      /\ Day(at) \in Days /\ Day(now) \in Days /\ Day(at) <= Day(now)
    BY RemindersAssumption, DaysProperties, DayIsMonotone DEF TypeOK, State
<1>n. /\ mem.spent.day \in Int /\ disk.spent.day \in Int
      /\ mem.spent.n \in Nat /\ disk.spent.n \in Nat
      /\ \A d \in Days : d \in Nat /\ cards[d] \in Nat /\ uncharged[d] \in Nat
      /\ Day(at) \in Nat /\ Day(now) \in Nat /\ MaxPerDay \in Nat
      /\ Day(at) \in Days /\ Day(at) <= Day(now)
    <2>1. /\ mem.spent.day \in Int /\ disk.spent.day \in Int
          /\ mem.spent.n \in Nat /\ disk.spent.n \in Nat
        BY <1>0, PairType
    <2>2. \A d \in Days : d \in Nat /\ cards[d] \in Nat /\ uncharged[d] \in Nat
        BY <1>0
    <2>3. QED
        BY <1>0, <2>1, <2>2
<1>1. CASE Tick
    <2>1. now' \in Nat /\ at <= now' /\ Day(now) <= Day(now') /\ Day(now') \in Nat
        BY <1>0, <1>1, DayIsMonotone, DayIsNat DEF Tick
    <2>2. \A d \in Days : Charging(d)' = Charging(d)
        BY <1>1 DEF Tick, Charging
    <2>3. \A day \in {mem.spent.day, disk.spent.day} : day <= Day(now) => day <= Day(now')
        BY <1>n, <2>1
    <2>4. UNCHANGED <<mem, disk, pc, at, cards, uncharged>>
        BY <1>1 DEF Tick
    <2>5. Covers(disk.spent)' /\ (pc # "down" => Covers(mem.spent)')
        BY <2>2, <2>3, <2>4 DEF Covers
    <2>6. QED
        BY <2>1, <2>4, <2>5 DEF CardsWithinBudget
<1>2. CASE PutElsewhere
    <2>1. mem'.spent \in {mem.spent, disk.spent} /\ disk'.spent \in {mem.spent, disk.spent}
        BY <1>0, <1>2, AdoptedType DEF PutElsewhere
    <2>2. UNCHANGED <<now, pc, at, cards, uncharged>> /\ pc = "idle"
        BY <1>2 DEF PutElsewhere
    <2>3. Covers(disk.spent)' /\ Covers(mem.spent)'
        BY <2>1, <2>2 DEF Covers, Charging
    <2>4. QED
        BY <2>2, <2>3 DEF CardsWithinBudget
<1>3. CASE Start
    <2>1. UNCHANGED <<now, disk, at, cards, uncharged>> /\ mem' = disk /\ pc = "down" /\ pc' = "idle"
        BY <1>3 DEF Start
    <2>2. Covers(disk.spent)'
        BY <2>1 DEF Covers, Charging
    <2>3. QED
        BY <2>1, <2>2 DEF CardsWithinBudget, Covers
<1>4. CASE Scan
    <2>1. UNCHANGED <<now, disk, mem, cards, uncharged>> /\ pc = "idle" /\ pc' = "send" /\ at' = now
          /\ BudgetLeft(mem.spent, MaxPerDay, Day(now)) > 0
        BY <1>4 DEF Scan
    <2>2. Covers(disk.spent)' /\ Covers(mem.spent)'
        BY <2>1 DEF Covers, Charging
    <2>3. QED
        BY <1>0, <2>1, <2>2 DEF CardsWithinBudget
<1>5. CASE Sent
    <2>1. /\ UNCHANGED <<now, disk, mem, at, uncharged>> /\ pc = "send" /\ pc' = "mark"
          /\ cards' = Bump(cards, {Day(at)})
        BY <1>5 DEF Sent
    <2>b. \A d \in Days : cards'[d] = IF d = Day(at) THEN cards[d] + 1 ELSE cards[d]
        BY <1>0, <2>1, BumpDay
    <2>2. cards[Day(at)] + 1 <= MaxPerDay + uncharged[Day(at)]
        <3>1. Covers(mem.spent) /\ BudgetLeft(mem.spent, MaxPerDay, Day(at)) > 0 /\ ~Charging(Day(at))
            BY <2>1 DEF Charging
        <3>2. cards[Day(at)] <= uncharged[Day(at)]
                                + (IF mem.spent.day = Day(at) THEN mem.spent.n ELSE 0)
            BY <1>n, <2>1, <3>1 DEF Covers
        <3>3. CASE mem.spent.day = Day(at)
            <4>1. mem.spent.n \in Nat /\ mem.spent.n + 1 <= MaxPerDay
                BY <1>n, <3>1, <3>3 DEF BudgetLeft
            <4>2. QED
                BY <1>n, <3>2, <3>3, <4>1
        <3>4. CASE mem.spent.day # Day(at)
            <4>1. MaxPerDay > 0
                BY <3>1, <3>4 DEF BudgetLeft
            <4>2. QED
                BY <1>n, <3>2, <3>4, <4>1
        <3>5. QED
            BY <3>3, <3>4
    <2>3. Covers(disk.spent)' /\ Covers(mem.spent)'
        <3>1. \A d \in Days : ~Charging(d) /\ Charging(d)' = (d = Day(at))
            BY <2>1 DEF Charging
        <3>2. \A d \in Days :
                 /\ disk.spent.day <= d =>
                       cards'[d] <= uncharged[d] + (IF disk.spent.day = d THEN disk.spent.n ELSE 0)
                                                 + (IF Charging(d)' THEN 1 ELSE 0)
                 /\ mem.spent.day <= d =>
                       cards'[d] <= uncharged[d] + (IF mem.spent.day = d THEN mem.spent.n ELSE 0)
                                                 + (IF Charging(d)' THEN 1 ELSE 0)
            <4> TAKE d \in Days
            <4>1. /\ disk.spent.day <= d =>
                         cards[d] <= uncharged[d] + (IF disk.spent.day = d THEN disk.spent.n ELSE 0)
                  /\ mem.spent.day <= d =>
                         cards[d] <= uncharged[d] + (IF mem.spent.day = d THEN mem.spent.n ELSE 0)
                BY <1>n, <2>1, <3>1 DEF Covers
            <4>2. CASE d = Day(at)
                <5>1. cards'[d] = cards[d] + 1 /\ Charging(d)'
                    BY <2>b, <3>1, <4>2
                <5>2. QED
                    BY <1>n, <4>1, <5>1
            <4>3. CASE d # Day(at)
                <5>1. cards'[d] = cards[d] /\ ~Charging(d)'
                    BY <2>b, <3>1, <4>3
                <5>2. QED
                    BY <1>n, <4>1, <5>1
            <4>4. QED
                BY <4>2, <4>3
        <3>3. QED
            BY <2>1, <3>2 DEF Covers
    <2>4. CardsWithinBudget'
        BY <1>n, <2>1, <2>b, <2>2 DEF CardsWithinBudget
    <2>5. QED
        BY <2>1, <2>3, <2>4
<1>6. CASE Refused
    <2>1. UNCHANGED <<now, disk, mem>> /\ pc = "send" /\ pc' = "idle" /\ at' = 0
        BY <1>6 DEF Refused
    <2>2. \/ UNCHANGED <<cards, uncharged>>
          \/ \A d \in Days : IF d = Day(at) THEN /\ cards'[d] = cards[d] + 1
                                                 /\ uncharged'[d] = uncharged[d] + 1
                             ELSE cards'[d] = cards[d] /\ uncharged'[d] = uncharged[d]
        <3>1. CASE UNCHANGED <<cards, uncharged>>
            BY <3>1
        <3>2. CASE cards' = Bump(cards, {Day(at)}) /\ uncharged' = Bump(uncharged, {Day(at)})
            <4>1. \A d \in Days :
                    /\ cards'[d] = IF d = Day(at) THEN cards[d] + 1 ELSE cards[d]
                    /\ uncharged'[d] = IF d = Day(at) THEN uncharged[d] + 1 ELSE uncharged[d]
                BY <1>0, <3>2, BumpDay
            <4>2. QED
                BY <4>1
        <3>3. QED
            BY <1>6, <3>1, <3>2 DEF Refused, history
    <2>3. \A d \in Days : ~Charging(d) /\ ~Charging(d)'
        BY <2>1 DEF Charging
    <2>4. Covers(disk.spent)' /\ Covers(mem.spent)'
        BY <1>n, <2>1, <2>2, <2>3 DEF Covers
    <2>5. CardsWithinBudget'
        BY <1>n, <2>2 DEF CardsWithinBudget
    <2>6. QED
        BY <1>0, <2>1, <2>4, <2>5
<1>7. CASE Charge
    <2> DEFINE s == SpendBudget(mem.spent, Day(at))
    <2>1. s = [day |-> Day(at), n |-> mem.spent.n + 1] /\ mem.spent.n \in Nat
        BY <1>0 DEF SpendBudget, DayCount
    <2>2. UNCHANGED <<now, cards>> /\ pc = "mark" /\ pc' = "idle" /\ at' = 0
        BY <1>7 DEF Charge
    <2>3. \A d \in Days : Charging(d) = (d = Day(at)) /\ ~Charging(d)'
        BY <2>2 DEF Charging
    <2>4. [Adopted EXCEPT !.spent = s].spent = s
        BY <1>0, AdoptedType DEF State
    <2>5. mem'.spent = s
        BY <1>7, <2>4 DEF Charge, PutState
    <2>6. \/ disk'.spent = s /\ uncharged' = uncharged
          \/ /\ disk' = disk
             /\ \A d \in Days : uncharged'[d] = IF d = Day(at) THEN uncharged[d] + 1 ELSE uncharged[d]
        <3>1. CASE disk' = mem' /\ UNCHANGED faults
            BY <1>7, <2>5, <3>1 DEF Charge
        <3>2. CASE Fault /\ UNCHANGED disk
            <4>1. faults' # faults
                BY <1>0, <3>2 DEF Fault
            <4>2. QED
                BY <1>0, <1>7, <3>2, <4>1, BumpDay DEF Charge
        <3>3. QED
            BY <1>7, <3>1, <3>2 DEF Charge, PutState
    <2>7. \A d \in Days : uncharged'[d] >= uncharged[d] /\ uncharged'[d] \in Nat
        BY <1>0, <2>6
    <2>8. Covers(mem.spent)'
        <3>1. \A d \in Days : Day(at) <= d =>
                 cards[d] <= uncharged[d] + (IF Day(at) = d THEN mem.spent.n + 1 ELSE 0)
            <4> SUFFICES ASSUME NEW d \in Days, Day(at) <= d
                         PROVE  cards[d] <= uncharged[d]
                                    + (IF Day(at) = d THEN mem.spent.n + 1 ELSE 0)
                OBVIOUS
            <4>1. mem.spent.day <= d /\ (mem.spent.day = d => d = Day(at))
                BY <1>n, <2>2 DEF Covers
            <4>2. cards[d] <= uncharged[d] + (IF mem.spent.day = d THEN mem.spent.n ELSE 0)
                                           + (IF d = Day(at) THEN 1 ELSE 0)
                BY <2>2, <2>3, <4>1 DEF Covers
            <4>3. QED
                BY <1>n, <2>1, <4>1, <4>2
        <3>2. QED
            BY <1>n, <2>1, <2>2, <2>3, <2>5, <2>7, <3>1 DEF Covers
    <2>9. Covers(disk.spent)'
        <3>1. CASE disk'.spent = s
            BY <2>5, <2>8, <3>1 DEF Covers
        <3>2. CASE /\ disk' = disk
                   /\ \A d \in Days : uncharged'[d] = IF d = Day(at) THEN uncharged[d] + 1
                                                      ELSE uncharged[d]
            <4>1. \A d \in Days : disk.spent.day <= d =>
                     cards[d] <= uncharged[d] + (IF disk.spent.day = d THEN disk.spent.n ELSE 0)
                                              + (IF d = Day(at) THEN 1 ELSE 0)
                BY <2>3 DEF Covers
            <4>2. \A d \in Days : disk.spent.day <= d =>
                     cards[d] <= uncharged'[d] + (IF disk.spent.day = d THEN disk.spent.n ELSE 0)
                BY <1>n, <3>2, <4>1
            <4>3. \A d \in Days : disk.spent.day <= d =>
                     cards[d] <= uncharged'[d] + (IF disk.spent.day = d THEN disk.spent.n ELSE 0)
                                               + (IF Charging(d)' THEN 1 ELSE 0)
                BY <2>3, <2>7, <1>n, <4>2
            <4>4. QED
                BY <2>2, <3>2, <4>3 DEF Covers
        <3>3. QED
            BY <2>6, <3>1, <3>2
    <2>10. CardsWithinBudget'
        BY <1>n, <2>2, <2>7 DEF CardsWithinBudget
    <2>11. QED
        BY <1>0, <2>2, <2>8, <2>9, <2>10
<1>8. CASE Crash
    <2>1. UNCHANGED <<now, disk, cards>> /\ pc' = "down" /\ at' = 0
        BY <1>8 DEF Crash
    <2>2. \A d \in Days : uncharged'[d] = IF Charging(d) THEN uncharged[d] + 1 ELSE uncharged[d]
        <3>1. CASE pc = "mark"
            <4>1. uncharged' = Bump(uncharged, {Day(at)})
                BY <1>8, <3>1 DEF Crash
            <4>2. \A d \in Days : uncharged'[d] = IF d = Day(at)
                                                  THEN uncharged[d] + 1 ELSE uncharged[d]
                BY <1>0, <4>1, BumpDay
            <4>3. QED
                BY <3>1, <4>2 DEF Charging
        <3>2. CASE pc # "mark"
            BY <1>8, <3>2 DEF Crash, Charging
        <3>3. QED
            BY <3>1, <3>2
    <2>3. \A d \in Days : ~Charging(d)'
        BY <2>1 DEF Charging
    <2>4. Covers(disk.spent)'
        BY <1>n, <2>1, <2>2, <2>3 DEF Covers
    <2>5. CardsWithinBudget'
        BY <1>n, <2>1, <2>2 DEF CardsWithinBudget
    <2>6. QED
        BY <1>0, <2>1, <2>4, <2>5
<1>9. CASE \E e \in Events : Collect(e)
    <2>1. UNCHANGED <<now, disk, mem, pc, at, cards, uncharged>>
        BY <1>9 DEF Collect
    <2>2. QED
        BY <2>1 DEF Covers, Charging, CardsWithinBudget
<1>10. CASE \E e \in Events : Mark(e)
    <2>1. PICK e \in Events : Mark(e)
        BY <1>10
    <2>2. [Adopted EXCEPT !.marks = @ \union {e}].spent \in {mem.spent, disk.spent}
        BY <1>0, AdoptedType DEF State
    <2>3. mem'.spent \in {mem.spent, disk.spent} /\ disk'.spent \in {mem.spent, disk.spent}
        BY <2>1, <2>2 DEF Mark, PutState
    <2>4. UNCHANGED <<now, pc, at, cards, uncharged>> /\ pc = "mark"
        BY <2>1 DEF Mark
    <2>5. Covers(disk.spent)' /\ Covers(mem.spent)'
        BY <2>3, <2>4 DEF Covers, Charging
    <2>6. QED
        BY <2>4, <2>5 DEF CardsWithinBudget
<1>11. CASE UNCHANGED vars
    BY <1>11 DEF vars, Covers, Charging, CardsWithinBudget
<1>12. QED
    BY <1>1, <1>2, <1>3, <1>4, <1>5, <1>6, <1>7, <1>8, <1>9, <1>10, <1>11 DEF Next

\* No day carries more cards than event.max_per_day, whatever day the stored
\* count belongs to, except for cards whose charge was lost.
THEOREM BudgetHolds == Spec => []CardsWithinBudget
<1>1. BudgetInv => CardsWithinBudget
    BY DEF BudgetInv
<1>2. QED
    BY <1>1, TypeInit, TypeStep, BudgetInit, BudgetStep, PTL DEF Spec
=============================================================================
