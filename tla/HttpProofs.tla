----------------------------- MODULE HttpProofs -----------------------------
(***************************************************************************)
(* Proofs about HttpClient, for any number of callers, hosts and retries   *)
(* and every choice of instants: requests to a host are spaced, an error   *)
(* is final only after the last try, the state keeps its type, and a call  *)
(* returns by a bound.                                                     *)
(*                                                                         *)
(* RequestsAreSpaced is not inductive: a caller that wakes does not look   *)
(* at the gate again.  That it may go rests on the lock: while it sleeps   *)
(* it stays the head of its host's queue, so nobody else has moved the     *)
(* gate, and the instant it waits for is still the one the gate opens at.  *)
(*                                                                         *)
(* Neither is ReturnsInTime: a call whose deadline has passed may still be *)
(* in line for the lock.  LineInv bounds it by its place: the head of the  *)
(* line is through when the gate opens, and everyone behind it one spacing *)
(* after the one in front.                                                 *)
(***************************************************************************)
EXTENDS HttpClient, SequenceTheorems, FiniteSetTheorems, TLAPS

-----------------------------------------------------------------------------
GateInv ==
    /\ now \in Nat
    /\ pc \in [Callers -> Places] /\ DOMAIN until = Callers
    /\ queue \in [Hosts -> Seq(Callers)]
    /\ last \in [Hosts -> {Never} \union Nat]
    /\ starts \in [Hosts -> Seq(Nat)]
    \* the gate remembers the latest request, or a later caller that gave up at it
    /\ \A h \in Hosts : \A i \in 1..Len(starts[h]) : starts[h][i] <= last[h]
    \* a sleeper has the lock, and waits for the instant the gate opens
    /\ \A c \in Callers : pc[c] = "sleep" =>
           Holds(c) /\ last[HostOf[c]] # Never /\ until[c] = last[HostOf[c]] + Gap
    /\ RequestsAreSpaced

LEMMA GateInit == Init => GateInv
<1> SUFFICES ASSUME Init PROVE GateInv
    OBVIOUS
<1>1. \A h \in Hosts : starts[h] = <<>> /\ Len(starts[h]) = 0
    BY DEF Init
<1>2. QED
    BY <1>1 DEF Init, GateInv, Places, RequestsAreSpaced

\* Who joins a queue does not become its head unless it was empty.
LEMMA EnqueueKeepsHead ==
    ASSUME GateInv, NEW c \in Callers, Enqueue(c)
    PROVE  /\ queue' \in [Hosts -> Seq(Callers)]
           /\ \A h \in Hosts : queue[h] # <<>> =>
                  queue'[h] # <<>> /\ Head(queue'[h]) = Head(queue[h])
<1>1. HostOf[c] \in Hosts
    BY HttpAssumption
<1>2. queue'[HostOf[c]] = Append(queue[HostOf[c]], c)
    BY <1>1 DEF Enqueue, GateInv
<1>3. queue[HostOf[c]] \in Seq(Callers)
    BY <1>1 DEF GateInv
<1>4. /\ Append(queue[HostOf[c]], c) \in Seq(Callers)
      /\ Append(queue[HostOf[c]], c) # <<>>
      /\ queue[HostOf[c]] # <<>> => Head(Append(queue[HostOf[c]], c)) = Head(queue[HostOf[c]])
    BY <1>3, AppendProperties, HeadTailAppend
<1>5. QED
    BY <1>1, <1>2, <1>3, <1>4 DEF Enqueue, GateInv

\* Joining a queue disturbs no sleeper and no gate.
LEMMA EnqueueStep ==
    ASSUME GateInv, NEW c \in Callers, Enqueue(c), pc[c] # "sleep",
           UNCHANGED <<now, tries, until, last, starts>>
    PROVE  GateInv'
<1>1. queue' \in [Hosts -> Seq(Callers)]
    BY EnqueueKeepsHead
<1>2. \A d \in Callers : pc'[d] = "sleep" => pc[d] = "sleep" /\ d # c
    BY DEF Enqueue, GoTo, GateInv
<1>3. \A d \in Callers : Holds(d) => Holds(d)'
    BY EnqueueKeepsHead, HttpAssumption DEF Holds
<1>4. pc' \in [Callers -> Places]
    BY DEF Enqueue, GoTo, GateInv, Places
<1>5. RequestsAreSpaced'
    BY DEF GateInv, RequestsAreSpaced
<1>6. QED
    BY <1>1, <1>2, <1>3, <1>4, <1>5 DEF GateInv

\* The holder leaves and no other caller sleeps on that host.
LEMMA LeaveStep ==
    ASSUME GateInv, NEW c \in Callers, Holds(c), Leave(c)
    PROVE  /\ queue' \in [Hosts -> Seq(Callers)]
           /\ \A d \in Callers \ {c} : pc[d] = "sleep" =>
                  HostOf[d] # HostOf[c] /\ Holds(d)'
<1>1. HostOf[c] \in Hosts /\ queue[HostOf[c]] \in Seq(Callers) /\ queue[HostOf[c]] # <<>>
    BY HttpAssumption DEF GateInv, Holds
<1>2. Tail(queue[HostOf[c]]) \in Seq(Callers)
    BY <1>1, HeadTailProperties
<1>3. \A d \in Callers \ {c} : pc[d] = "sleep" => HostOf[d] # HostOf[c]
    BY DEF GateInv, Holds
<1>4. \A h \in Hosts \ {HostOf[c]} : queue'[h] = queue[h]
    BY DEF Leave, GateInv
<1>5. queue' \in [Hosts -> Seq(Callers)]
    BY <1>1, <1>2 DEF Leave, GateInv
<1>6. QED
    BY <1>3, <1>4, <1>5, HttpAssumption DEF GateInv, Holds

\* What the gate lets through at an instant as late as it demands is spaced.
LEMMA ThroughStep ==
    ASSUME GateInv, NEW c \in Callers, Holds(c), Open(HostOf[c]), Through(c), UNCHANGED now
    PROVE  GateInv'
<1> DEFINE h == HostOf[c]
<1>1. h \in Hosts /\ Gap \in Nat \ {0} /\ now \in Nat /\ Never = -1
    BY HttpAssumption DEF GateInv, Never
<1>2. last' = [last EXCEPT ![h] = now] /\ Leave(c)
    BY DEF Through
<1>3. last' \in [Hosts -> {Never} \union Nat]
    BY <1>1, <1>2 DEF GateInv
<1>4. starts[h] \in Seq(Nat) /\ Len(starts[h]) \in Nat
      /\ \A i \in 1..Len(starts[h]) : starts[h][i] \in Nat
    BY <1>1, LenProperties, ElementOfSeq DEF GateInv
<1>5. \A i \in 1..Len(starts[h]) : starts[h][i] + Gap <= now
    <2> TAKE i \in 1..Len(starts[h])
    <2>1. starts[h][i] \in Nat /\ starts[h][i] <= last[h] /\ last[h] \in {Never} \union Nat
        BY <1>1, <1>4 DEF GateInv
    <2>2. last[h] # Never
        BY <1>1, <2>1
    <2>3. now >= last[h] + Gap
        BY <2>2 DEF Open
    <2>4. QED
        BY <1>1, <2>1, <2>2, <2>3
<1>6. \A d \in Callers : pc'[d] = "sleep" => d # c /\ pc[d] = "sleep"
    BY DEF Through, GoTo, GateInv
<1>7. pc' \in [Callers -> Places] /\ DOMAIN until' = Callers
    BY DEF Through, GoTo, GateInv, Places, Returned
<1>8. \A d \in Callers : pc'[d] = "sleep" =>
          Holds(d)' /\ last'[HostOf[d]] # Never /\ until'[d] = last'[HostOf[d]] + Gap
    <2> SUFFICES ASSUME NEW d \in Callers, pc'[d] = "sleep"
                 PROVE  Holds(d)' /\ last'[HostOf[d]] # Never
                        /\ until'[d] = last'[HostOf[d]] + Gap
        OBVIOUS
    <2>1. d # c /\ pc[d] = "sleep"
        BY <1>6
    <2>2. HostOf[d] # h /\ Holds(d)'
        BY <1>2, <2>1, LeaveStep
    <2>3. last'[HostOf[d]] = last[HostOf[d]]
        BY <1>2, <2>2, HttpAssumption DEF GateInv
    <2>4. until'[d] = until[d]
        BY <2>1 DEF Through, GateInv
    <2>5. QED
        BY <2>1, <2>2, <2>3, <2>4 DEF GateInv
<1>9. \A g \in Hosts : starts'[g] = starts[g] \/ (g = h /\ starts'[h] = Append(starts[h], now))
    BY <1>1 DEF Through, GateInv
<1>10. starts' \in [Hosts -> Seq(Nat)]
    <2>1. Append(starts[h], now) \in Seq(Nat)
        BY <1>1, <1>4, AppendProperties
    <2>2. QED
        BY <1>1, <2>1 DEF Through, GateInv
<1>11. \A g \in Hosts : \A i \in 1..Len(starts'[g]) :
            /\ starts'[g][i] <= last'[g]
            /\ \A j \in 1..Len(starts'[g]) : i < j => starts'[g][j] >= starts'[g][i] + Gap
    <2> SUFFICES ASSUME NEW g \in Hosts
                 PROVE  \A i \in 1..Len(starts'[g]) :
                            /\ starts'[g][i] <= last'[g]
                            /\ \A j \in 1..Len(starts'[g]) :
                                  i < j => starts'[g][j] >= starts'[g][i] + Gap
        OBVIOUS
    <2>1. CASE g # h
        BY <1>2, <1>9, <2>1 DEF GateInv, RequestsAreSpaced
    <2>2. CASE g = h /\ starts'[h] = starts[h]
        <3>1. last'[h] = now
            BY <1>1, <1>2 DEF GateInv
        <3>2. \A i \in 1..Len(starts[h]) : starts[h][i] <= now
            BY <1>1, <1>4, <1>5
        <3>3. QED
            BY <1>1, <2>2, <3>1, <3>2 DEF GateInv, RequestsAreSpaced
    <2>3. CASE g = h /\ starts'[h] = Append(starts[h], now)
        <3>1. last'[h] = now
            BY <1>1, <1>2 DEF GateInv
        <3>2. Len(starts'[h]) = Len(starts[h]) + 1 /\ starts'[h][Len(starts[h]) + 1] = now
              /\ \A i \in 1..Len(starts[h]) : starts'[h][i] = starts[h][i]
            BY <1>1, <1>4, <2>3, AppendProperties
        <3>3. \A i, j \in 1..Len(starts[h]) : i < j => starts[h][j] >= starts[h][i] + Gap
            BY <1>1 DEF GateInv, RequestsAreSpaced
        <3>4. \A i \in 1..Len(starts'[h]) : starts'[h][i] <= now
            <4> TAKE i \in 1..Len(starts'[h])
            <4>1. CASE i = Len(starts[h]) + 1
                BY <1>1, <3>2, <4>1
            <4>2. CASE i \in 1..Len(starts[h])
                <5>1. starts'[h][i] = starts[h][i]
                    BY <3>2, <4>2
                <5>2. starts[h][i] \in Nat /\ starts[h][i] + Gap <= now
                    BY <1>4, <1>5, <4>2
                <5>3. QED
                    BY <1>1, <5>1, <5>2
            <4>3. QED
                BY <1>4, <3>2, <4>1, <4>2
        <3>5. \A i, j \in 1..Len(starts'[h]) : i < j => starts'[h][j] >= starts'[h][i] + Gap
            <4> TAKE i, j \in 1..Len(starts'[h])
            <4> HAVE i < j
            <4>1. i \in 1..Len(starts[h])
                BY <1>4, <3>2
            <4>2. CASE j = Len(starts[h]) + 1
                BY <1>1, <1>4, <1>5, <3>2, <4>1, <4>2
            <4>3. CASE j \in 1..Len(starts[h])
                BY <3>2, <3>3, <4>1, <4>3
            <4>4. QED
                BY <1>4, <3>2, <4>2, <4>3
        <3>6. QED
            BY <2>3, <3>1, <3>4, <3>5
    <2>4. QED
        BY <1>9, <2>1, <2>2, <2>3
<1>12. RequestsAreSpaced'
    BY <1>11 DEF RequestsAreSpaced
<1>13. now' \in Nat /\ queue' \in [Hosts -> Seq(Callers)]
    BY <1>1, <1>2, LeaveStep
<1>14. QED
    BY <1>3, <1>7, <1>8, <1>10, <1>11, <1>12, <1>13 DEF GateInv

\* A step of a call that is neither at the gate nor in its queue.
LEMMA AwayStep ==
    ASSUME GateInv, NEW c \in Callers, NEW place \in Places \ {"sleep"}, GoTo(c, place),
           pc[c] # "sleep", DOMAIN until' = Callers,
           \A d \in Callers \ {c} : until'[d] = until[d],
           UNCHANGED <<now, queue, last, starts>>
    PROVE  GateInv'
<1>1. pc' \in [Callers -> Places] /\ \A d \in Callers : pc'[d] = "sleep" => d # c /\ pc[d] = "sleep"
    BY DEF GoTo, GateInv
<1>2. \A d \in Callers : Holds(d)' = Holds(d)
    BY DEF Holds
<1>3. RequestsAreSpaced' /\ Never = -1
    BY DEF GateInv, RequestsAreSpaced, Never
<1>4. QED
    BY <1>1, <1>2, <1>3 DEF GateInv

LEMMA GateStep == GateInv /\ [Next]_vars => GateInv'
<1> SUFFICES ASSUME GateInv, [Next]_vars PROVE GateInv'
    OBVIOUS
<1>1. CASE Tick
    <2>1. now' \in Nat /\ \A d \in Callers : Holds(d)' = Holds(d)
        BY <1>1 DEF Tick, GateInv, Holds
    <2>2. QED
        BY <1>1, <2>1 DEF Tick, GateInv, RequestsAreSpaced
<1>2. ASSUME NEW c \in Callers, Call(c) PROVE GateInv'
    <2>1. CASE Begin(c)
        BY <2>1, EnqueueStep DEF Begin
    <2>2. CASE Pass(c)
        BY <2>2, ThroughStep DEF Pass
    <2>3. CASE Sleep(c)
        <3>1. last[HostOf[c]] # Never /\ HostOf[c] \in Hosts
            BY <2>3, HttpAssumption DEF Sleep, Open
        <3>2. \A d \in Callers : Holds(d)' = Holds(d)
            BY <2>3 DEF Sleep, Holds
        <3>3. pc' \in [Callers -> Places] /\ DOMAIN until' = Callers
              /\ until'[c] = last[HostOf[c]] + Gap
              /\ \A d \in Callers \ {c} : pc'[d] = pc[d] /\ until'[d] = until[d]
            BY <2>3 DEF Sleep, GoTo, GateInv, Places
        <3>4. RequestsAreSpaced' /\ UNCHANGED <<now, queue, last, starts>> /\ Holds(c)
            BY <2>3 DEF Sleep, GateInv, RequestsAreSpaced
        <3>5. \A d \in Callers : pc'[d] = "sleep" =>
                  Holds(d)' /\ last'[HostOf[d]] # Never /\ until'[d] = last'[HostOf[d]] + Gap
            BY <3>1, <3>2, <3>3, <3>4 DEF GateInv
        <3>6. QED
            BY <3>3, <3>4, <3>5 DEF GateInv
    <2>4. CASE Wake(c)
        <3>1. Holds(c) /\ Open(HostOf[c])
            BY <2>4 DEF Wake, GateInv, Open
        <3>2. QED
            BY <2>4, <3>1, ThroughStep DEF Wake
    <2>5. CASE GiveUp(c)
        <3>1. Holds(c) /\ Leave(c) /\ UNCHANGED <<now, until, last, starts>>
            BY <2>5 DEF GiveUp, GateInv
        <3>2. pc' \in [Callers -> Places]
              /\ \A d \in Callers : pc'[d] = "sleep" => d # c /\ pc[d] = "sleep"
            BY <2>5 DEF GiveUp, GoTo, GateInv, Places, Returned
        <3>3. queue' \in [Hosts -> Seq(Callers)] /\ RequestsAreSpaced'
            BY <3>1, LeaveStep DEF GateInv, RequestsAreSpaced
        <3>4. QED
            BY <3>1, <3>2, <3>3, LeaveStep DEF GateInv
    <2>6. CASE TimedOut(c)
        BY <2>6, AwayStep DEF TimedOut, Places, Returned, GateInv
    <2>7. CASE Retry(c)
        BY <2>7, EnqueueStep DEF Retry
    <2>8. CASE Abandon(c)
        BY <2>8, AwayStep DEF Abandon, Places, Returned, GateInv
    <2>9. CASE Answered(c)
        BY <2>9, AwayStep DEF Answered, Places, Returned, GateInv
    <2>10. CASE Broken(c)
        <3>1. DOMAIN until' = Callers /\ \A d \in Callers \ {c} : until'[d] = until[d]
            BY <2>10 DEF Broken, GateInv
        <3>2. \E place \in {"pause", "failed"} : GoTo(c, place)
            BY <2>10 DEF Broken
        <3>3. QED
            BY <2>10, <3>1, <3>2, AwayStep DEF Broken, Places, Returned
    <2>11. QED
        BY <1>2, <2>1, <2>2, <2>3, <2>4, <2>5, <2>6, <2>7, <2>8, <2>9, <2>10 DEF Call, AtOnce
<1>3. CASE UNCHANGED vars
    <2>1. \A d \in Callers : Holds(d)' = Holds(d)
        BY <1>3 DEF vars, Holds
    <2>2. QED
        BY <1>3, <2>1 DEF vars, GateInv, RequestsAreSpaced
<1>4. QED
    BY <1>1, <1>2, <1>3 DEF Next, Done

\* Two requests to one host are never closer than the configured spacing, whichever
\* callers they are of and however many gave up waiting between them.
THEOREM HostsAreSpaced == Spec => []RequestsAreSpaced
<1>1. GateInv => RequestsAreSpaced
    BY DEF GateInv
<1>2. QED
    BY <1>1, GateInit, GateStep, PTL DEF Spec
-----------------------------------------------------------------------------
\* A try is counted before its request goes out, and only a call that has tries
\* left comes back to the gate.
TriesInv ==
    /\ pc \in [Callers -> Places] /\ tries \in [Callers -> Nat]
    /\ \A c \in Callers :
          /\ pc[c] \in {"new", "pause", "lock", "sleep"} => tries[c] <= Retries
          /\ pc[c] = "sent" => tries[c] <= Retries + 1
    /\ FailsAfterAllTries

LEMMA TriesInit == Init => TriesInv
BY HttpAssumption DEF Init, TriesInv, Places, Returned, FailsAfterAllTries

LEMMA TriesStep == TriesInv /\ [Next]_vars => TriesInv'
<1> SUFFICES ASSUME TriesInv, [Next]_vars PROVE TriesInv'
    OBVIOUS
<1> USE HttpAssumption DEF TriesInv, Places, Returned, FailsAfterAllTries, GoTo
<1>1. CASE Tick
    BY <1>1 DEF Tick
<1>2. ASSUME NEW c \in Callers, Call(c) PROVE TriesInv'
    <2>1. CASE Begin(c) \/ Retry(c)
        BY <2>1 DEF Begin, Retry, Enqueue
    <2>2. CASE Pass(c) \/ Wake(c)
        <3>1. Through(c) /\ tries[c] <= Retries
            BY <2>2 DEF Pass, Wake
        <3>2. CASE Expired(c)
            BY <3>1, <3>2 DEF Through
        <3>3. CASE ~Expired(c)
            <4>1. pc' = [pc EXCEPT ![c] = "sent"] /\ tries' = [tries EXCEPT ![c] = @ + 1]
                BY <3>1, <3>3 DEF Through
            <4>2. tries'[c] = tries[c] + 1 /\ tries'[c] <= Retries + 1
                BY <3>1, <4>1
            <4>3. \A d \in Callers \ {c} : pc'[d] = pc[d] /\ tries'[d] = tries[d]
                BY <4>1
            <4>4. QED
                BY <4>1, <4>2, <4>3
        <3>4. QED
            BY <3>2, <3>3
    <2>3. CASE Sleep(c)
        BY <2>3 DEF Sleep
    <2>4. CASE GiveUp(c) \/ TimedOut(c) \/ Abandon(c) \/ Answered(c)
        BY <2>4 DEF GiveUp, TimedOut, Abandon, Answered
    <2>5. CASE Broken(c)
        BY <2>5 DEF Broken
    <2>6. QED
        BY <1>2, <2>1, <2>2, <2>3, <2>4, <2>5 DEF Call, AtOnce
<1>3. CASE UNCHANGED vars
    BY <1>3 DEF vars
<1>4. QED
    BY <1>1, <1>2, <1>3 DEF Next, Done

\* An error of the server is passed on only when http.retries is used up, and
\* exactly then.
THEOREM ErrorsAreRetried == Spec => []FailsAfterAllTries
<1>1. TriesInv => FailsAfterAllTries
    BY DEF TriesInv
<1>2. QED
    BY <1>1, TriesInit, TriesStep, PTL DEF Spec
-----------------------------------------------------------------------------
(***************************************************************************)
(* The numbers of a call                                                   *)
(***************************************************************************)

\* The gate is moved to the present, and a pause is computed for a try that has
\* been made and is not the last.
RangeInv ==
    /\ now \in 0..MaxTime
    /\ tries \in [Callers -> 0..(Retries + 1)]
    /\ \A c \in Callers : /\ until[c] \in Nat
                          /\ pc[c] = "sent" => tries[c] >= 1
    /\ last \in [Hosts -> {Never} \union 0..MaxTime]
    /\ \A h \in Hosts : last[h] <= now
    /\ starts \in [Hosts -> Seq(0..MaxTime)]

LEMMA Numbers ==
    /\ Gap \in Nat \ {0} /\ Retries \in Nat /\ Timeout \in Nat /\ MaxTime \in Nat /\ Never = -1
    /\ \A n \in 1..Retries : Backoff(n) \in Nat
    /\ \A c \in Callers : HostOf[c] \in Hosts /\ Begins[c] \in Nat /\ Deadline[c] \in Nat
                          /\ Begins[c] <= Deadline[c]
BY HttpAssumption DEF Never

LEMMA RangeInit == Init => RangeInv
BY Numbers DEF Init, RangeInv

LEMMA RangeStep == GateInv /\ TriesInv /\ RangeInv /\ [Next]_vars => RangeInv'
<1> SUFFICES ASSUME GateInv, TriesInv, RangeInv, [Next]_vars PROVE RangeInv'
    OBVIOUS
<1>n. /\ now \in 0..MaxTime /\ now \in Nat
      /\ \A c \in Callers : until[c] \in Nat /\ tries[c] \in Nat /\ tries[c] <= Retries + 1
      /\ \A h \in Hosts : last[h] \in {Never} \union 0..MaxTime /\ last[h] <= now
    BY Numbers DEF RangeInv
<1>1. CASE Tick
    <2>1. now' \in 0..MaxTime /\ \A h \in Hosts : last[h] <= now'
        BY <1>n, <1>1, Numbers DEF Tick
    <2>2. QED
        BY <1>1, <2>1 DEF Tick, RangeInv
<1>2. ASSUME NEW c \in Callers, Call(c) PROVE RangeInv'
    <2>1. CASE Begin(c) \/ Retry(c) \/ GiveUp(c) \/ TimedOut(c) \/ Abandon(c) \/ Answered(c)
        <3>1. UNCHANGED <<now, tries, until, last, starts>>
            BY <2>1 DEF Begin, Retry, GiveUp, TimedOut, Abandon, Answered
        <3>2. \A d \in Callers : pc'[d] = "sent" => pc[d] = "sent"
            BY <2>1 DEF Begin, Retry, GiveUp, TimedOut, Abandon, Answered, Enqueue, GoTo, GateInv
        <3>3. QED
            BY <3>1, <3>2 DEF RangeInv
    <2>2. CASE Pass(c) \/ Wake(c)
        <3>1. Through(c) /\ now' = now /\ tries[c] <= Retries /\ HostOf[c] \in Hosts
            BY <2>2, Numbers DEF Pass, Wake, TriesInv
        <3>2. last' = [last EXCEPT ![HostOf[c]] = now]
            BY <3>1 DEF Through
        <3>3. last' \in [Hosts -> {Never} \union 0..MaxTime] /\ \A h \in Hosts : last'[h] <= now
            <4>1. last' \in [Hosts -> {Never} \union 0..MaxTime]
                BY <1>n, <3>2 DEF RangeInv
            <4>2. \A h \in Hosts : last'[h] = now \/ last'[h] = last[h]
                BY <3>2 DEF RangeInv
            <4>3. now <= now
                BY <1>n
            <4>4. QED
                BY <1>n, <4>1, <4>2, <4>3
        <3>4. CASE Expired(c)
            <4>1. UNCHANGED <<tries, until, starts>>
                BY <3>1, <3>4 DEF Through
            <4>2. \A d \in Callers : pc'[d] = "sent" => pc[d] = "sent"
                BY <3>1, <3>4 DEF Through, GoTo, GateInv
            <4>3. QED
                BY <3>1, <3>3, <4>1, <4>2 DEF RangeInv
        <3>5. CASE ~Expired(c)
            <4>1. /\ tries' = [tries EXCEPT ![c] = @ + 1] /\ pc' = [pc EXCEPT ![c] = "sent"]
                  /\ until' = [until EXCEPT ![c] = now + Timeout]
                  /\ starts' = [starts EXCEPT ![HostOf[c]] = Append(@, now)]
                BY <3>1, <3>5 DEF Through, GoTo
            <4>2. tries[c] + 1 \in 0..(Retries + 1) /\ now + Timeout \in Nat /\ tries[c] + 1 >= 1
                BY <1>n, <3>1, Numbers
            <4>3. tries' \in [Callers -> 0..(Retries + 1)]
                BY <4>1, <4>2 DEF RangeInv
            <4>4. \A d \in Callers : until'[d] \in Nat /\ (pc'[d] = "sent" => tries'[d] >= 1)
                <5> TAKE d \in Callers
                <5>1. CASE d = c
                    BY <4>1, <4>2, <5>1 DEF RangeInv, GateInv
                <5>2. CASE d # c
                    BY <4>1, <5>2 DEF RangeInv, GateInv
                <5>3. QED
                    BY <5>1, <5>2
            <4>5. starts' \in [Hosts -> Seq(0..MaxTime)]
                <5>1. starts[HostOf[c]] \in Seq(0..MaxTime)
                    BY <3>1 DEF RangeInv
                <5>2. Append(starts[HostOf[c]], now) \in Seq(0..MaxTime)
                    BY <1>n, <5>1, AppendProperties
                <5>3. QED
                    BY <4>1, <5>2 DEF RangeInv
            <4>6. QED
                BY <3>1, <3>3, <4>3, <4>4, <4>5 DEF RangeInv
        <3>6. QED
            BY <3>4, <3>5
    <2>3. CASE Sleep(c)
        <3>1. /\ UNCHANGED <<now, tries, last, starts>> /\ last[HostOf[c]] # Never
              /\ until' = [until EXCEPT ![c] = last[HostOf[c]] + Gap]
              /\ HostOf[c] \in Hosts
            BY <2>3, Numbers DEF Sleep, Open
        <3>2. last[HostOf[c]] + Gap \in Nat
            BY <1>n, <3>1, Numbers
        <3>3. \A d \in Callers : until'[d] \in Nat
            BY <1>n, <3>1, <3>2 DEF GateInv
        <3>4. \A d \in Callers : pc'[d] = "sent" => pc[d] = "sent"
            BY <2>3 DEF Sleep, GoTo, GateInv
        <3>5. QED
            BY <3>1, <3>3, <3>4 DEF RangeInv
    <2>4. CASE Broken(c)
        <3>1. UNCHANGED <<now, tries, last, starts>> /\ pc[c] = "sent" /\ tries[c] >= 1
            BY <2>4 DEF Broken, RangeInv
        <3>2. \A d \in Callers : pc'[d] = "sent" => pc[d] = "sent"
            BY <2>4 DEF Broken, GoTo, GateInv
        <3>3. \A d \in Callers : until'[d] \in Nat
            <4>1. CASE tries[c] <= Retries
                <5>1. tries[c] \in 1..Retries
                    BY <1>n, <3>1, <4>1
                <5>2. now + Backoff(tries[c]) \in Nat
                    BY <1>n, <5>1, Numbers
                <5>3. until' = [until EXCEPT ![c] = now + Backoff(tries[c])]
                    BY <2>4, <4>1 DEF Broken
                <5>4. QED
                    BY <1>n, <5>2, <5>3 DEF GateInv
            <4>2. CASE ~(tries[c] <= Retries)
                BY <1>n, <2>4, <4>2 DEF Broken
            <4>3. QED
                BY <4>1, <4>2
        <3>4. QED
            BY <3>1, <3>2, <3>3 DEF RangeInv
    <2>5. QED
        BY <1>2, <2>1, <2>2, <2>3, <2>4 DEF Call, AtOnce
<1>3. CASE UNCHANGED vars
    BY <1>3 DEF vars, RangeInv
<1>4. QED
    BY <1>1, <1>2, <1>3 DEF Next, Done
-----------------------------------------------------------------------------
(***************************************************************************)
(* The line at a host's lock                                               *)
(***************************************************************************)
Waiting(c) == pc[c] \in {"lock", "sleep"}

\* A host's queue holds those who wait for it, each once.
QueueInv ==
    \A h \in Hosts :
        /\ \A i, j \in 1..Len(queue[h]) : queue[h][i] = queue[h][j] => i = j
        /\ \A c \in Callers :
              HostOf[c] = h /\ Waiting(c) <=> \E i \in 1..Len(queue[h]) : queue[h][i] = c

\* Who joins comes last ...
LEMMA JoinQueue ==
    ASSUME GateInv, NEW c \in Callers, Enqueue(c)
    PROVE  /\ Len(queue[HostOf[c]]) \in Nat
           /\ Len(queue'[HostOf[c]]) = Len(queue[HostOf[c]]) + 1
           /\ \A i \in 1..Len(queue[HostOf[c]]) : queue'[HostOf[c]][i] = queue[HostOf[c]][i]
           /\ queue'[HostOf[c]][Len(queue[HostOf[c]]) + 1] = c
           /\ \A h \in Hosts \ {HostOf[c]} : queue'[h] = queue[h]
<1>1. HostOf[c] \in Hosts
    BY Numbers
<1>2. queue[HostOf[c]] \in Seq(Callers)
    BY <1>1 DEF GateInv
<1>3. queue'[HostOf[c]] = Append(queue[HostOf[c]], c)
    BY <1>1 DEF Enqueue, GateInv
<1>4. \A h \in Hosts \ {HostOf[c]} : queue'[h] = queue[h]
    BY DEF Enqueue, GateInv
<1>5. QED
    BY <1>2, <1>3, <1>4, AppendProperties, LenProperties

\* ... and who leaves was first.
LEMMA LeaveQueue ==
    ASSUME GateInv, NEW c \in Callers, Holds(c), Leave(c)
    PROVE  /\ Len(queue[HostOf[c]]) \in Nat \ {0} /\ queue[HostOf[c]][1] = c
           /\ Len(queue'[HostOf[c]]) = Len(queue[HostOf[c]]) - 1
           /\ \A i \in 1..(Len(queue[HostOf[c]]) - 1) :
                 queue'[HostOf[c]][i] = queue[HostOf[c]][i + 1]
           /\ \A h \in Hosts \ {HostOf[c]} : queue'[h] = queue[h]
<1>1. HostOf[c] \in Hosts
    BY Numbers
<1>2. queue[HostOf[c]] \in Seq(Callers) /\ queue[HostOf[c]] # <<>>
    BY <1>1 DEF GateInv, Holds
<1>3. queue'[HostOf[c]] = Tail(queue[HostOf[c]])
    BY <1>1 DEF Leave, GateInv
<1>4. \A h \in Hosts \ {HostOf[c]} : queue'[h] = queue[h]
    BY DEF Leave, GateInv
<1>5. Len(queue[HostOf[c]]) \in Nat \ {0} /\ Head(queue[HostOf[c]]) = queue[HostOf[c]][1]
    BY <1>2, EmptySeq, LenProperties
<1>6. QED
    BY <1>2, <1>3, <1>4, <1>5, HeadTailProperties DEF Holds

\* What a step does to a queue and to who waits in it.
Joins(c) == Enqueue(c) /\ pc[c] \in {"new", "pause"}
Quits(c) == /\ Holds(c) /\ Leave(c) /\ Waiting(c) /\ ~Waiting(c)'
            /\ \A d \in Callers \ {c} : pc'[d] = pc[d]
Stays(c) == /\ UNCHANGED queue
            /\ (~Waiting(c) /\ ~Waiting(c)') \/ (pc[c] = "lock" /\ pc'[c] = "sleep")
            /\ \A d \in Callers \ {c} : pc'[d] = pc[d]

LEMMA StepKinds ==
    ASSUME GateInv, NEW c \in Callers, Call(c)
    PROVE  Joins(c) \/ Quits(c) \/ Stays(c)
<1>1. CASE Begin(c) \/ Retry(c)
    BY <1>1 DEF Begin, Retry, Joins, Waiting
<1>2. CASE Pass(c) \/ Wake(c)
    <2>1. Holds(c) /\ Waiting(c) /\ Through(c)
        BY <1>2 DEF Pass, Wake, GateInv, Waiting
    <2>2. Leave(c) /\ (GoTo(c, "expired") \/ GoTo(c, "sent"))
        BY <2>1 DEF Through
    <2>3. QED
        BY <2>1, <2>2 DEF Quits, GoTo, GateInv, Waiting
<1>3. CASE GiveUp(c)
    BY <1>3 DEF GiveUp, Quits, GoTo, GateInv, Waiting
<1>4. CASE Sleep(c)
    BY <1>4 DEF Sleep, Stays, GoTo, GateInv, Waiting
<1>5. CASE TimedOut(c) \/ Abandon(c) \/ Answered(c)
    BY <1>5 DEF TimedOut, Abandon, Answered, Stays, GoTo, GateInv, Waiting
<1>6. CASE Broken(c)
    <2>1. UNCHANGED queue /\ pc[c] = "sent" /\ (GoTo(c, "pause") \/ GoTo(c, "failed"))
        BY <1>6 DEF Broken
    <2>2. QED
        BY <2>1 DEF Stays, GoTo, GateInv, Waiting
<1>7. QED
    BY <1>1, <1>2, <1>3, <1>4, <1>5, <1>6 DEF Call, AtOnce

LEMMA QueueInit == Init => QueueInv
<1> SUFFICES ASSUME Init PROVE QueueInv
    OBVIOUS
<1>1. \A h \in Hosts : queue[h] = <<>> /\ Len(queue[h]) = 0
    BY DEF Init
<1>2. \A c \in Callers : ~Waiting(c)
    BY DEF Init, Waiting
<1>3. QED
    BY <1>1, <1>2 DEF QueueInv

LEMMA QueueStep == GateInv /\ QueueInv /\ [Next]_vars => QueueInv'
<1> SUFFICES ASSUME GateInv, QueueInv, [Next]_vars PROVE QueueInv'
    OBVIOUS
<1>1. CASE UNCHANGED <<pc, queue>>
    BY <1>1 DEF QueueInv, Waiting
<1>2. ASSUME NEW c \in Callers, Call(c) PROVE QueueInv'
    <2> DEFINE h == HostOf[c]
               n == Len(queue[h])
    <2>0. h \in Hosts
        BY Numbers
    <2>s. SUFFICES ASSUME NEW g \in Hosts
                   PROVE  /\ \A i, j \in 1..Len(queue'[g]) : queue'[g][i] = queue'[g][j] => i = j
                          /\ \A d \in Callers :
                                HostOf[d] = g /\ Waiting(d)' <=>
                                    \E i \in 1..Len(queue'[g]) : queue'[g][i] = d
        BY DEF QueueInv, Waiting
    <2>1. CASE Joins(c)
        <3>1. /\ n \in Nat /\ Len(queue'[h]) = n + 1 /\ queue'[h][n + 1] = c
              /\ \A i \in 1..n : queue'[h][i] = queue[h][i]
              /\ \A k \in Hosts \ {h} : queue'[k] = queue[k]
            BY <2>1, JoinQueue DEF Joins
        <3>2. Waiting(c)' /\ \A d \in Callers \ {c} : Waiting(d)' = Waiting(d)
            BY <2>1 DEF Joins, Enqueue, GoTo, GateInv, Waiting
        <3>w. ~Waiting(c)
            BY <2>1 DEF Joins, Waiting
        <3>3. CASE g # h
            <4>1. \A d \in Callers : HostOf[d] = g => d # c
                BY <3>3
            <4> HIDE DEF h, n
            <4>2. queue'[g] = queue[g]
                BY <3>1, <3>3
            <4>3. QED
                BY <3>2, <4>1, <4>2 DEF QueueInv, h
        <3>4. CASE g = h
            <4>1. \A i \in 1..n : queue[h][i] # c
                BY <2>0, <3>w DEF QueueInv
            <4>2. \A i, j \in 1..n : queue[h][i] = queue[h][j] => i = j
                BY <2>0 DEF QueueInv
            <4>3. \A d \in Callers \ {c} :
                     HostOf[d] = h /\ Waiting(d) <=> \E i \in 1..n : queue[h][i] = d
                BY <2>0 DEF QueueInv
            <4>4. \A i \in 1..(n + 1) : i \in 1..n \/ i = n + 1
                BY <3>1
            <4>5. \A i \in 1..n : i \in 1..(n + 1) /\ n + 1 \in 1..(n + 1)
                BY <3>1
            <4>6. n + 1 \in 1..(n + 1)
                BY <3>1
            <4> HIDE DEF h, n
            <4>7. \A i, j \in 1..(n + 1) : queue'[h][i] = queue'[h][j] => i = j
                BY <3>1, <4>1, <4>2, <4>4
            <4>8. \A d \in Callers :
                     HostOf[d] = h /\ Waiting(d)' <=>
                         \E i \in 1..(n + 1) : queue'[h][i] = d
                <5> TAKE d \in Callers
                <5>1. CASE d = c
                    BY <3>1, <3>2, <4>6, <5>1 DEF h
                <5>2. CASE d # c
                    <6>1. (\E i \in 1..(n + 1) : queue'[h][i] = d)
                              <=> \E i \in 1..n : queue[h][i] = d
                        BY <3>1, <4>4, <4>5, <5>2
                    <6>2. QED
                        BY <3>2, <4>3, <5>2, <6>1
                <5>3. QED
                    BY <5>1, <5>2
            <4>9. QED
                BY <3>1, <3>4, <4>7, <4>8
        <3>5. QED
            BY <3>3, <3>4
    <2>2. CASE Quits(c)
        <3>1. /\ n \in Nat \ {0} /\ queue[h][1] = c /\ Len(queue'[h]) = n - 1
              /\ \A i \in 1..(n - 1) : queue'[h][i] = queue[h][i + 1]
              /\ \A k \in Hosts \ {h} : queue'[k] = queue[k]
            BY <2>2, LeaveQueue DEF Quits
        <3>2. ~Waiting(c)' /\ \A d \in Callers \ {c} : Waiting(d)' = Waiting(d)
            BY <2>2 DEF Quits, Waiting
        <3>3. CASE g # h
            BY <3>1, <3>2, <3>3 DEF QueueInv
        <3>4. CASE g = h
            <4>1. \A i, j \in 1..n : queue[h][i] = queue[h][j] => i = j
                BY <2>0 DEF QueueInv
            <4>2. \A d \in Callers :
                     HostOf[d] = h /\ Waiting(d) <=> \E i \in 1..n : queue[h][i] = d
                BY <2>0 DEF QueueInv
            <4>3. /\ \A i \in 1..(n - 1) : i + 1 \in 1..n /\ i + 1 # 1
                  /\ \A i \in 1..n : i = 1 \/ (i - 1 \in 1..(n - 1) /\ (i - 1) + 1 = i)
                  /\ \A i, j \in 1..(n - 1) : i + 1 = j + 1 => i = j
                  /\ 1 \in 1..n
                BY <3>1
            <4> HIDE DEF h, n
            <4>4. \A i, j \in 1..(n - 1) : queue'[h][i] = queue'[h][j] => i = j
                BY <3>1, <4>1, <4>3
            <4>5. \A d \in Callers :
                     HostOf[d] = h /\ Waiting(d)' <=>
                         \E i \in 1..(n - 1) : queue'[h][i] = d
                <5> TAKE d \in Callers
                <5>1. CASE d = c
                    BY <3>1, <3>2, <4>1, <4>3, <5>1
                <5>2. CASE d # c
                    <6>1. ASSUME NEW i \in 1..(n - 1), queue'[h][i] = d
                          PROVE  \E j \in 1..n : queue[h][j] = d
                        BY <3>1, <4>3, <6>1
                    <6>2. ASSUME NEW i \in 1..n, queue[h][i] = d
                          PROVE  \E j \in 1..(n - 1) : queue'[h][j] = d
                        <7>1. i - 1 \in 1..(n - 1) /\ (i - 1) + 1 = i
                            BY <3>1, <4>3, <5>2, <6>2
                        <7>2. queue'[h][i - 1] = queue[h][i]
                            BY <3>1, <7>1
                        <7>3. QED
                            BY <6>2, <7>1, <7>2
                    <6>3. QED
                        BY <3>2, <4>2, <5>2, <6>1, <6>2
                <5>3. QED
                    BY <5>1, <5>2
            <4>6. QED
                BY <3>1, <3>4, <4>4, <4>5
        <3>5. QED
            BY <3>3, <3>4
    <2>3. CASE Stays(c)
        <3>1. \A d \in Callers : Waiting(d)' = Waiting(d)
            BY <2>3 DEF Stays, Waiting
        <3>2. QED
            BY <2>3, <3>1 DEF Stays, QueueInv
    <2>4. QED
        BY <1>2, <2>1, <2>2, <2>3, StepKinds
<1>3. QED
    BY <1>1, <1>2 DEF Next, Tick, Done, vars

LEMMA TypeImplied == GateInv /\ TriesInv /\ RangeInv /\ QueueInv => TypeOK
<1> SUFFICES ASSUME GateInv, RangeInv, QueueInv, NEW h \in Hosts
             PROVE  /\ Range(queue[h]) = {c \in Callers : HostOf[c] = h /\ pc[c] \in {"lock", "sleep"}}
                    /\ Len(queue[h]) = Cardinality(Range(queue[h]))
    BY DEF TypeOK, GateInv, RangeInv
<1> DEFINE q == queue[h]
<1>1. q \in Seq(Callers) /\ Len(q) \in Nat /\ q \in [1..Len(q) -> Callers]
    BY LenProperties DEF GateInv
<1>2. Range(q) = {q[i] : i \in 1..Len(q)}
    BY <1>1, RangeEquality
<1>3. \A i \in 1..Len(q) : q[i] \in Callers
    BY <1>1
<1>4. Range(q) = {c \in Callers : HostOf[c] = h /\ pc[c] \in {"lock", "sleep"}}
    BY <1>2, <1>3 DEF QueueInv, Waiting
<1>5. Len(q) = Cardinality(Range(q))
    <2>1. \A i, j \in 1..Len(q) : q[i] = q[j] => i = j
        BY DEF QueueInv
    <2> HIDE DEF q
    <2>2. q \in [1..Len(q) -> Range(q)]
        BY <1>1, <1>2
    <2>3. IsInjective(q)
        BY <1>1, <2>1 DEF IsInjective
    <2>4. q \in Bijection(1..Len(q), Range(q))
        BY <1>2, <2>2, <2>3 DEF Bijection, Injection, Surjection
    <2>5. QED
        BY <1>1, <2>4, FS_CountingElements DEF ExistsBijection
<1>6. QED
    BY <1>4, <1>5

\* The queue of a host is those who wait for it, each once, and every instant and
\* count is in its range.
THEOREM TypeCorrect == Spec => []TypeOK
BY TypeImplied, GateInit, GateStep, TriesInit, TriesStep, RangeInit, RangeStep, QueueInit, QueueStep,
   PTL DEF Spec
-----------------------------------------------------------------------------
(***************************************************************************)
(* The deadline                                                            *)
(***************************************************************************)

\* Places behind the first, each as long as one sleep.
Behind(i) == Gap * (i - 2)
Limit(c) == Deadline[c] + Gap * Cardinality(Peers(c))

\* When the first in line will have left, at the latest.
Free(h) == IF pc[queue[h][1]] = "sleep" THEN until[queue[h][1]] ELSE now + Gap

\* Outside the line nobody is late.  In it, who has been late for k callers' sleeps
\* has at least k callers fewer before it than its host has.
LineInv ==
    /\ \A c \in Callers : pc[c] \in {"new", "pause", "sent"} => now <= Deadline[c]
    /\ \A c \in Callers : pc[c] = "sleep" => now <= until[c]
    /\ \A h \in Hosts : \A i \in 1..Len(queue[h]) : \A c \in Callers :
          queue[h][i] = c /\ now > Deadline[c] =>
              /\ i = 1 => now <= Limit(c)
              /\ i >= 2 => Free(h) + Behind(i) <= Limit(c)

LEMMA BehindProperties ==
    ASSUME NEW i \in Nat, i >= 2
    PROVE  /\ Behind(i) \in Nat /\ Behind(i + 1) = Behind(i) + Gap
           /\ \A n \in Nat : i <= n + 1 => Gap + Behind(i) <= Gap * n
<1>1. PICK k \in Nat : i = k + 2
    <2>1. i - 2 \in Nat /\ i = (i - 2) + 2
        OBVIOUS
    <2>2. QED
        BY <2>1
<1>2. Gap \in Nat
    BY Numbers
<1>3. Behind(i) = Gap * k /\ Behind(i + 1) = Gap * (k + 1)
    <2>1. i - 2 = k /\ (i + 1) - 2 = k + 1
        BY <1>1
    <2>2. QED
        BY <2>1 DEF Behind
<1>4. Gap * k \in Nat /\ Gap * (k + 1) = Gap * k + Gap
    BY <1>2
<1>5. ASSUME NEW n \in Nat, i <= n + 1 PROVE Gap + Gap * k <= Gap * n
    <2>1. PICK m \in Nat : n = (k + 1) + m
        <3>1. n - (k + 1) \in Nat /\ n = (k + 1) + (n - (k + 1))
            BY <1>1, <1>5
        <3>2. QED
            BY <3>1
    <2>2. Gap * n = Gap * (k + 1) + Gap * m /\ Gap * m \in Nat
        BY <1>2, <2>1
    <2>3. QED
        BY <1>2, <1>4, <2>2
<1>6. QED
    BY <1>3, <1>4, <1>5

\* A line is no longer than the host has callers.
LEMMA LineLength ==
    ASSUME QueueInv, GateInv, NEW c \in Callers
    PROVE  /\ Cardinality(Peers(c)) \in Nat /\ Limit(c) \in Nat /\ Limit(c) >= Deadline[c]
           /\ Len(queue[HostOf[c]]) <= Cardinality(Peers(c)) + 1
<1> DEFINE h == HostOf[c]
           q == queue[h]
<1>1. h \in Hosts /\ Gap \in Nat /\ Deadline[c] \in Nat
    BY Numbers
<1>2. IsFiniteSet(Peers(c)) /\ Cardinality(Peers(c)) \in Nat
    <2>1. Peers(c) \subseteq Callers /\ IsFiniteSet(Callers)
        BY HttpAssumption DEF Peers
    <2>2. QED
        BY <2>1, FS_Subset, FS_CardinalityType
<1>3. Limit(c) \in Nat /\ Limit(c) >= Deadline[c]
    <2>1. Gap * Cardinality(Peers(c)) \in Nat
        BY <1>1, <1>2
    <2>2. QED
        BY <1>1, <2>1 DEF Limit
<1>4. q \in Seq(Callers) /\ Len(q) \in Nat /\ q \in [1..Len(q) -> Callers]
    BY <1>1, LenProperties DEF GateInv
<1>5. \A i \in 1..Len(q) : q[i] \in Peers(c) \union {c}
    <2> TAKE i \in 1..Len(q)
    <2>1. q[i] \in Callers
        BY <1>4
    <2>2. HostOf[q[i]] = h
        BY <1>1, <2>1 DEF QueueInv
    <2>3. QED
        BY <2>1, <2>2 DEF Peers
<1>6. \A i, j \in 1..Len(q) : q[i] = q[j] => i = j
    BY <1>1 DEF QueueInv
<1>7. IsFiniteSet(Peers(c) \union {c}) /\ Cardinality(Peers(c) \union {c}) = Cardinality(Peers(c)) + 1
    <2>1. c \notin Peers(c)
        BY DEF Peers
    <2>2. QED
        BY <1>2, <2>1, FS_AddElement
<1> HIDE DEF q
<1>8. q \in Injection(1..Len(q), Peers(c) \union {c})
    <2>1. q \in [1..Len(q) -> Peers(c) \union {c}]
        BY <1>4, <1>5
    <2>2. IsInjective(q)
        BY <1>4, <1>6 DEF IsInjective
    <2>3. QED
        BY <2>1, <2>2 DEF Injection
<1>9. IsFiniteSet(1..Len(q)) /\ Cardinality(1..Len(q)) = Len(q)
    <2>1. IsFiniteSet(1..Len(q)) /\ Cardinality(1..Len(q)) = IF 1 > Len(q) THEN 0 ELSE Len(q) - 1 + 1
        BY <1>4, FS_Interval
    <2>2. QED
        BY <1>4, <2>1
<1>10. Len(q) <= Cardinality(Peers(c) \union {c})
    BY <1>7, <1>8, <1>9, FS_Injection DEF ExistsInjection
<1>11. QED
    BY <1>2, <1>3, <1>7, <1>10 DEF q

\* Nobody waits behind the first for longer than one sleep.
LEMMA FreeSoon ==
    ASSUME GateInv, RangeInv, QueueInv, LineInv, NEW h \in Hosts, NEW i \in 1..Len(queue[h])
    PROVE  /\ queue[h][1] \in Callers /\ HostOf[queue[h][1]] = h /\ Waiting(queue[h][1])
           /\ Holds(queue[h][1])
           /\ Free(h) \in Nat /\ now <= Free(h) /\ Free(h) <= now + Gap
<1>1. queue[h] \in Seq(Callers) /\ 1 \in 1..Len(queue[h])
    BY LenProperties DEF GateInv
<1>2. queue[h][1] \in Callers /\ queue[h] # <<>> /\ Head(queue[h]) = queue[h][1]
    BY <1>1, EmptySeq, ElementOfSeq
<1>3. HostOf[queue[h][1]] = h /\ Waiting(queue[h][1])
    BY <1>1, <1>2 DEF QueueInv
<1>4. Holds(queue[h][1])
    BY <1>2, <1>3 DEF Holds
<1>5. now \in Nat /\ Gap \in Nat
    BY Numbers DEF GateInv
<1>6. CASE pc[queue[h][1]] = "sleep"
    <2>1. /\ until[queue[h][1]] \in Nat /\ now <= until[queue[h][1]]
          /\ until[queue[h][1]] = last[h] + Gap /\ last[h] # Never
          /\ last[h] <= now /\ last[h] \in {Never} \union Nat
        BY <1>2, <1>3, <1>6 DEF GateInv, RangeInv, LineInv
    <2>2. QED
        BY <1>2, <1>3, <1>4, <1>5, <1>6, <2>1 DEF Free
<1>7. CASE pc[queue[h][1]] # "sleep"
    BY <1>2, <1>3, <1>4, <1>5, <1>7 DEF Free
<1>8. QED
    BY <1>6, <1>7

\* At its deadline, a caller in line has a bound.
LEMMA Bounded ==
    ASSUME GateInv, RangeInv, QueueInv, LineInv,
           NEW h \in Hosts, NEW i \in 1..Len(queue[h]), NEW c \in Callers,
           queue[h][i] = c, now >= Deadline[c]
    PROVE  /\ now <= Limit(c)
           /\ i >= 2 => Free(h) + Behind(i) <= Limit(c)
<1>1. /\ now \in Nat /\ Gap \in Nat /\ Deadline[c] \in Nat /\ Free(h) \in Nat
      /\ now <= Free(h) /\ Free(h) <= now + Gap /\ Limit(c) \in Nat /\ Limit(c) >= Deadline[c]
      /\ Len(queue[h]) \in Nat /\ i \in Nat /\ i >= 1
    <2>1. queue[h] \in Seq(Callers)
        BY DEF GateInv
    <2>2. Len(queue[h]) \in Nat
        BY <2>1, LenProperties
    <2>3. Free(h) \in Nat /\ now <= Free(h) /\ Free(h) <= now + Gap
        BY FreeSoon
    <2>4. Limit(c) \in Nat /\ Limit(c) >= Deadline[c]
        BY LineLength
    <2>5. now \in Nat /\ Gap \in Nat /\ Deadline[c] \in Nat
        BY Numbers DEF GateInv
    <2>6. QED
        BY <2>2, <2>3, <2>4, <2>5
<1>2. i >= 2 => Behind(i) \in Nat
    BY <1>1, BehindProperties
<1>3. CASE now > Deadline[c]
    <2>1. (i = 1 => now <= Limit(c)) /\ (i >= 2 => Free(h) + Behind(i) <= Limit(c))
        BY <1>3 DEF LineInv
    <2>2. i = 1 \/ i >= 2
        BY <1>1
    <2>3. QED
        BY <1>1, <1>2, <2>1, <2>2
<1>4. CASE now = Deadline[c]
    <2>1. HostOf[c] = h
        BY DEF QueueInv
    <2>2. Cardinality(Peers(c)) \in Nat /\ i <= Cardinality(Peers(c)) + 1
        BY <1>1, <2>1, LineLength
    <2>3. i >= 2 => Gap + Behind(i) <= Gap * Cardinality(Peers(c))
        BY <1>1, <2>2, BehindProperties
    <2>4. Gap * Cardinality(Peers(c)) \in Nat
        BY <1>1, <2>2
    <2>5. Limit(c) = Deadline[c] + Gap * Cardinality(Peers(c))
        BY DEF Limit
    <2>6. QED
        BY <1>1, <1>2, <1>4, <2>3, <2>4, <2>5
<1>5. QED
    BY <1>1, <1>3, <1>4

LEMMA LineInit == Init => LineInv
<1> SUFFICES ASSUME Init PROVE LineInv
    OBVIOUS
<1>1. \A h \in Hosts : queue[h] = <<>> /\ Len(queue[h]) = 0
    BY DEF Init
<1>2. \A c \in Callers : pc[c] = "new" /\ now <= Deadline[c]
    BY Numbers DEF Init
<1>3. QED
    BY <1>1, <1>2 DEF LineInv

\* Time passes only while the first in line sleeps, and only for who is not late.
LEMMA LineTick ==
    ASSUME GateInv, RangeInv, QueueInv, LineInv, Tick
    PROVE  LineInv'
<1>n. /\ now \in Nat /\ now' = now + 1 /\ UNCHANGED <<pc, until, queue>>
      /\ \A c \in Callers : /\ Deadline[c] \in Nat /\ Begins[c] \in Nat /\ Begins[c] <= Deadline[c]
                            /\ until[c] \in Nat
    BY Numbers DEF GateInv, RangeInv, Tick
<1>1. \A c \in Callers : ~Urgent(c)
    BY DEF Tick
<1>2. \A c \in Callers : pc[c] \in {"new", "pause", "sent"} => now < Deadline[c]
    <2> SUFFICES ASSUME NEW c \in Callers, pc[c] \in {"new", "pause", "sent"}, now >= Deadline[c]
                 PROVE  Urgent(c)
        BY <1>n, <1>1
    <2>1. QED
        BY <1>n DEF Urgent, Expired, Cancelled
<1>3. \A c \in Callers : pc[c] = "sleep" => now < until[c] /\ now < Deadline[c]
    <2> SUFFICES ASSUME NEW c \in Callers, pc[c] = "sleep", now >= Deadline[c] \/ now >= until[c]
                 PROVE  Urgent(c)
        BY <1>n, <1>1
    <2>1. QED
        BY DEF Urgent, Expired
<1>4. ASSUME NEW h \in Hosts, NEW i \in 1..Len(queue[h]), NEW c \in Callers,
             queue[h][i] = c, now' > Deadline[c]
      PROVE  i >= 2 /\ Free(h)' + Behind(i) <= Limit(c)
    <2>1. now >= Deadline[c]
        BY <1>n, <1>4
    <2>2. /\ queue[h][1] \in Callers /\ Waiting(queue[h][1]) /\ Holds(queue[h][1])
        BY FreeSoon
    <2>3. pc[queue[h][1]] = "sleep"
        BY <1>1, <2>2 DEF Urgent, Waiting
    <2>4. Free(h)' = Free(h)
        BY <1>n, <2>3 DEF Free
    <2>5. queue[h][1] # c
        BY <1>3, <1>n, <2>1, <2>2, <2>3
    <2>6. i >= 2
        <3>1. i \in Nat /\ i >= 1 /\ i # 1
            BY <1>4, <2>5
        <3>2. QED
            BY <3>1
    <2>7. QED
        BY <1>4, <2>1, <2>4, <2>6, Bounded
<1>5. /\ \A c \in Callers : pc'[c] \in {"new", "pause", "sent"} => now' <= Deadline[c]
      /\ \A c \in Callers : pc'[c] = "sleep" => now' <= until'[c]
    BY <1>n, <1>2, <1>3
<1>6. \A h \in Hosts : \A i \in 1..Len(queue'[h]) : \A c \in Callers :
          queue'[h][i] = c /\ now' > Deadline[c] =>
              /\ i = 1 => now' <= Limit(c)
              /\ i >= 2 => Free(h)' + Behind(i) <= Limit(c)
    <2> SUFFICES ASSUME NEW h \in Hosts, NEW i \in 1..Len(queue[h]), NEW c \in Callers,
                        queue[h][i] = c, now' > Deadline[c]
                 PROVE  i # 1 /\ Free(h)' + Behind(i) <= Limit(c)
        BY <1>n
    <2>1. QED
        BY <1>4
<1>7. QED
    BY <1>5, <1>6 DEF LineInv, Limit, Behind, Peers

\* A caller that is late stays in line until it leaves for good.
LEMMA LineCall ==
    ASSUME GateInv, RangeInv, QueueInv, LineInv, NEW c \in Callers, Call(c)
    PROVE  LineInv'
<1>n. /\ now \in Nat /\ now' = now /\ Gap \in Nat \ {0}
      /\ \A d \in Callers : Deadline[d] \in Nat /\ HostOf[d] \in Hosts
    <2>1. now' = now
        BY DEF Call, AtOnce, Begin, Pass, Sleep, Wake, GiveUp, TimedOut, Retry, Abandon, Answered,
               Broken
    <2>2. QED
        BY <2>1, Numbers DEF GateInv
<1>1. \A d \in Callers : pc'[d] \in {"new", "pause", "sent"} => now <= Deadline[d]
    <2> SUFFICES ASSUME NEW d \in Callers, pc'[d] \in {"new", "pause", "sent"}
                 PROVE  now <= Deadline[d]
        OBVIOUS
    <2>1. CASE d # c
        <3>1. pc'[d] = pc[d]
            BY <2>1, StepKinds DEF Joins, Quits, Stays, Enqueue, GoTo, GateInv
        <3>2. QED
            BY <3>1 DEF LineInv
    <2>2. CASE d = c
        <3>1. Pass(c) \/ Wake(c) \/ Broken(c)
            BY <2>2 DEF Call, AtOnce, Begin, Pass, Sleep, Wake, GiveUp, TimedOut, Retry, Abandon,
                        Answered, Broken, Enqueue, GoTo, GateInv
        <3>2. ~Expired(c)
            BY <2>2, <3>1 DEF Pass, Wake, Broken, Through, GoTo, GateInv
        <3>3. QED
            BY <1>n, <2>2, <3>2 DEF Expired
    <2>3. QED
        BY <2>1, <2>2
<1>2. \A d \in Callers \ {c} : until'[d] = until[d] /\ pc'[d] = pc[d]
    <2>1. \A d \in Callers \ {c} : pc'[d] = pc[d]
        BY StepKinds DEF Joins, Quits, Stays, Enqueue, GoTo, GateInv
    <2>2. CASE Begin(c) \/ GiveUp(c) \/ TimedOut(c) \/ Retry(c) \/ Abandon(c) \/ Answered(c)
        BY <2>1, <2>2 DEF Begin, GiveUp, TimedOut, Retry, Abandon, Answered
    <2>3. CASE Pass(c) \/ Wake(c)
        BY <2>1, <2>3 DEF Pass, Wake, Through, GateInv
    <2>4. CASE Sleep(c) \/ Broken(c)
        BY <2>1, <2>4 DEF Sleep, Broken, GateInv
    <2>5. QED
        BY <2>2, <2>3, <2>4 DEF Call, AtOnce
\* Who goes to sleep has the lock, and the gate opens within one Gap.
<1>3. pc'[c] = "sleep" =>
          /\ Waiting(c) /\ pc[c] # "sleep" /\ Holds(c) /\ UNCHANGED queue
          /\ until'[c] \in Nat /\ now < until'[c] /\ until'[c] <= now + Gap
    <2> SUFFICES ASSUME pc'[c] = "sleep"
                 PROVE  /\ Waiting(c) /\ pc[c] # "sleep" /\ Holds(c) /\ UNCHANGED queue
                        /\ until'[c] \in Nat /\ now < until'[c] /\ until'[c] <= now + Gap
        OBVIOUS
    <2>1. Sleep(c)
        BY DEF Call, AtOnce, Begin, Pass, Sleep, Wake, GiveUp, TimedOut, Retry, Abandon, Answered,
               Broken, Enqueue, Through, GoTo, GateInv
    <2>2. until'[c] = last[HostOf[c]] + Gap /\ last[HostOf[c]] # Never
          /\ ~(now >= last[HostOf[c]] + Gap)
        BY <2>1 DEF Sleep, Open, GateInv
    <2>3. last[HostOf[c]] \in {Never} \union Nat /\ last[HostOf[c]] <= now
        BY <1>n DEF GateInv, RangeInv
    <2>4. QED
        BY <1>n, <2>1, <2>2, <2>3 DEF Sleep, Waiting
<1>4. \A d \in Callers : pc'[d] = "sleep" => now <= until'[d]
    <2> SUFFICES ASSUME NEW d \in Callers, pc'[d] = "sleep" PROVE now <= until'[d]
        OBVIOUS
    <2>1. CASE d = c
        BY <1>n, <1>3, <2>1
    <2>2. CASE d # c
        BY <1>2, <2>2 DEF LineInv
    <2>3. QED
        BY <2>1, <2>2
\* Who is late was in line, and each step leaves him where he was or one place on.
<1>5. ASSUME NEW h \in Hosts, NEW i \in 1..Len(queue'[h]), NEW d \in Callers,
             queue'[h][i] = d, now > Deadline[d]
      PROVE  /\ i = 1 => now <= Limit(d)
             /\ i >= 2 => Free(h)' + Behind(i) <= Limit(d)
    <2>n. /\ queue[h] \in Seq(Callers) /\ Len(queue[h]) \in Nat
          /\ Limit(d) \in Nat /\ i \in Nat /\ i >= 1 /\ now >= Deadline[d]
        <3>1. queue[h] \in Seq(Callers)
            BY DEF GateInv
        <3>2. Len(queue[h]) \in Nat
            BY <3>1, LenProperties
        <3>3. Limit(d) \in Nat
            BY LineLength
        <3>4. QED
            BY <1>n, <1>5, <3>1, <3>2, <3>3
    <2>1. CASE Stays(c)
        <3>1. i \in 1..Len(queue[h]) /\ queue[h][i] = d /\ queue'[h][1] = queue[h][1]
            BY <1>5, <2>1 DEF Stays
        <3>2. now <= Limit(d) /\ (i >= 2 => Free(h) + Behind(i) <= Limit(d))
            BY <2>n, <3>1, Bounded
        <3>3. queue[h][1] \in Callers /\ Waiting(queue[h][1]) /\ Free(h) \in Nat
            BY <3>1, FreeSoon
        <3>4. Free(h)' \in Nat /\ Free(h)' <= Free(h)
            <4>1. CASE queue[h][1] = c
                <5>1. pc[c] = "lock" /\ pc'[c] = "sleep"
                    BY <2>1, <3>3, <4>1 DEF Stays
                <5>2. Free(h) = now + Gap /\ Free(h)' = until'[c]
                    BY <3>1, <4>1, <5>1 DEF Free
                <5>3. QED
                    BY <1>3, <5>1, <5>2
            <4>2. CASE queue[h][1] # c
                <5>1. Free(h)' = Free(h)
                    BY <1>n, <1>2, <3>1, <3>3, <4>2 DEF Free
                <5>2. QED
                    BY <3>3, <5>1
            <4>3. QED
                BY <4>1, <4>2
        <3>5. i >= 2 => Behind(i) \in Nat
            BY <2>n, BehindProperties
        <3>6. QED
            BY <2>n, <3>2, <3>3, <3>4, <3>5
    <2>2. CASE Joins(c)
        <3>1. d # c
            <4>1. now <= Deadline[c]
                BY <2>2 DEF Joins, LineInv
            <4>2. QED
                BY <1>n, <1>5, <4>1
        <3>2. i \in 1..Len(queue[h]) /\ queue[h][i] = d
            <4>1. CASE h = HostOf[c]
                <5>1. /\ Len(queue'[h]) = Len(queue[h]) + 1
                      /\ \A k \in 1..Len(queue[h]) : queue'[h][k] = queue[h][k]
                      /\ queue'[h][Len(queue[h]) + 1] = c
                    BY <2>2, <4>1, JoinQueue DEF Joins
                <5>2. i # Len(queue[h]) + 1
                    BY <1>5, <3>1, <5>1
                <5>3. i \in 1..Len(queue[h])
                    BY <2>n, <5>1, <5>2
                <5>4. QED
                    BY <1>5, <5>1, <5>3
            <4>2. CASE h # HostOf[c]
                <5>1. queue'[h] = queue[h]
                    BY <2>2, <4>2, JoinQueue DEF Joins
                <5>2. QED
                    BY <1>5, <5>1
            <4>3. QED
                BY <4>1, <4>2
        <3>3. now <= Limit(d) /\ (i >= 2 => Free(h) + Behind(i) <= Limit(d))
            BY <2>n, <3>2, Bounded
        <3>4. queue[h][1] \in Callers /\ Waiting(queue[h][1])
            BY <3>2, FreeSoon
        <3>5. queue[h][1] # c
            BY <2>2, <3>4 DEF Joins, Waiting
        <3>6. queue'[h][1] = queue[h][1]
            <4>1. 1 \in 1..Len(queue[h])
                BY <2>n, <3>2
            <4>2. CASE h = HostOf[c]
                BY <2>2, <4>1, <4>2, JoinQueue DEF Joins
            <4>3. CASE h # HostOf[c]
                <5>1. queue'[h] = queue[h]
                    BY <2>2, <4>3, JoinQueue DEF Joins
                <5>2. QED
                    BY <5>1
            <4>4. QED
                BY <4>2, <4>3
        <3>7. Free(h)' = Free(h)
            BY <1>n, <1>2, <3>4, <3>5, <3>6 DEF Free
        <3>8. QED
            BY <3>3, <3>7
    <2>3. CASE Quits(c)
        <3>1. CASE h # HostOf[c]
            <4>1. queue'[h] = queue[h]
                BY <2>3, <3>1, LeaveQueue DEF Quits
            <4>2. i \in 1..Len(queue[h]) /\ queue[h][i] = d
                BY <1>5, <4>1
            <4>3. now <= Limit(d) /\ (i >= 2 => Free(h) + Behind(i) <= Limit(d))
                BY <2>n, <4>2, Bounded
            <4>4. queue[h][1] \in Callers /\ HostOf[queue[h][1]] = h
                BY <4>2, FreeSoon
            <4>5. Free(h)' = Free(h)
                BY <1>n, <1>2, <3>1, <4>1, <4>4 DEF Free
            <4>6. QED
                BY <4>3, <4>5
        <3>2. CASE h = HostOf[c]
            <4>1. /\ Len(queue[h]) \in Nat \ {0} /\ queue[h][1] = c
                  /\ Len(queue'[h]) = Len(queue[h]) - 1
                  /\ \A k \in 1..(Len(queue[h]) - 1) : queue'[h][k] = queue[h][k + 1]
                BY <2>3, <3>2, LeaveQueue DEF Quits
            <4>2. i \in 1..(Len(queue[h]) - 1)
                BY <1>5, <4>1
            <4>3. i + 1 \in 1..Len(queue[h]) /\ queue[h][i + 1] = d
                BY <1>5, <4>1, <4>2
            <4>4. now <= Limit(d) /\ Free(h) + Behind(i + 1) <= Limit(d)
                <5>1. i + 1 >= 2
                    BY <2>n
                <5>2. QED
                    BY <2>n, <4>3, <5>1, Bounded
            <4>5. now <= Free(h) /\ Free(h) \in Nat
                BY <4>3, FreeSoon
            <4>6. ASSUME i >= 2 PROVE Free(h)' = now + Gap
                <5>1. /\ 1 \in 1..(Len(queue[h]) - 1) /\ 1 + 1 = 2
                      /\ 2 \in 1..Len(queue[h]) /\ 1 \in 1..Len(queue[h])
                    BY <4>1, <4>2, <4>6
                <5>2. queue'[h][1] = queue[h][2] /\ queue[h][2] # c
                    BY <4>1, <5>1 DEF QueueInv
                <5>3. queue[h][2] \in Callers
                    BY <2>n, <5>1, ElementOfSeq
                <5>4. pc[queue[h][2]] # "sleep"
                    <6>1. HostOf[queue[h][2]] = h
                        BY <5>1, <5>3 DEF QueueInv
                    <6>2. Head(queue[h]) = c
                        BY <2>3, <3>2 DEF Quits, Holds
                    <6>3. QED
                        BY <5>2, <5>3, <6>1, <6>2 DEF GateInv, Holds
                <5>5. pc'[queue'[h][1]] # "sleep"
                    BY <1>2, <5>2, <5>3, <5>4
                <5>6. QED
                    BY <1>n, <5>5 DEF Free
            <4>7. i >= 2 => Behind(i) \in Nat /\ Behind(i + 1) = Behind(i) + Gap
                BY <2>n, BehindProperties
            <4>8. QED
                BY <1>n, <2>n, <4>4, <4>5, <4>6, <4>7
        <3>3. QED
            BY <3>1, <3>2
    <2>4. QED
        BY <2>1, <2>2, <2>3, StepKinds
<1>6. QED
    BY <1>n, <1>1, <1>4, <1>5 DEF LineInv, Limit, Behind, Peers

LEMMA LineStep == GateInv /\ RangeInv /\ QueueInv /\ LineInv /\ [Next]_vars => LineInv'
<1> SUFFICES ASSUME GateInv, RangeInv, QueueInv, LineInv, [Next]_vars PROVE LineInv'
    OBVIOUS
<1>1. CASE UNCHANGED vars
    <2>1. \A h \in Hosts : Free(h)' = Free(h)
        BY <1>1 DEF vars, Free
    <2>2. UNCHANGED <<now, pc, until, queue>>
        BY <1>1 DEF vars
    <2>3. QED
        BY <2>1, <2>2 DEF LineInv, Limit, Behind, Peers
<1>2. QED
    BY <1>1, LineTick, LineCall DEF Next, Done

LEMMA LineImplies == GateInv /\ RangeInv /\ QueueInv /\ LineInv => ReturnsInTime
<1> SUFFICES ASSUME GateInv, RangeInv, QueueInv, LineInv, NEW c \in Callers,
                    now > Limit(c), pc[c] \notin Returned
             PROVE  FALSE
    BY DEF ReturnsInTime, Limit
<1>n. /\ now \in Nat /\ Deadline[c] \in Nat /\ HostOf[c] \in Hosts
      /\ Limit(c) \in Nat /\ Limit(c) >= Deadline[c]
    BY Numbers, LineLength DEF GateInv
<1>1. Waiting(c)
    <2>1. pc[c] \in {"new", "pause", "sent"} => now <= Deadline[c]
        BY DEF LineInv
    <2>2. pc[c] \in {"new", "pause", "sent"} \/ Waiting(c)
        BY DEF GateInv, Places, Waiting
    <2>3. QED
        BY <1>n, <2>1, <2>2
<1>2. PICK i \in 1..Len(queue[HostOf[c]]) : queue[HostOf[c]][i] = c
    BY <1>n, <1>1 DEF QueueInv
<1>3. now <= Limit(c)
    BY <1>n, <1>2, Bounded
<1>4. QED
    BY <1>n, <1>3

\* However slow the servers, however many retries and whoever queues for a host, a
\* call is back by its deadline plus one spacing for each other caller of the host.
THEOREM CallsReturnInTime == Spec => []ReturnsInTime
BY LineImplies, GateInit, GateStep, TriesInit, TriesStep, RangeInit, RangeStep, QueueInit, QueueStep,
   LineInit, LineStep, PTL DEF Spec
=============================================================================
