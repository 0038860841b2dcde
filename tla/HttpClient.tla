----------------------------- MODULE HttpClient -----------------------------
(***************************************************************************)
(* The outbound client every collector of a round shares                   *)
(* (internal/httpx): a gate per host that spaces the requests, retries     *)
(* with a growing pause, and the deadline fetchAll puts on every call.     *)
(*                                                                         *)
(* One call of Client.Get is made by each caller.  Time passes only when   *)
(* nobody can move at once, so what a caller waits for is what the code    *)
(* makes it wait for: the host's lock, the gate, a pause or a server.      *)
(***************************************************************************)
EXTENDS Integers, Sequences, FiniteSets, SequencesExt

CONSTANTS
    Callers,    \* the goroutines of fetchAll
    Hosts,
    HostOf,     \* the host a caller asks
    Begins,     \* when a caller starts
    Deadline,   \* when the context of its call ends
    Gap,        \* PerHostMin
    Retries,    \* http.retries
    Pause,      \* the pause before the first retry; it doubles
    Timeout,    \* http.timeout: how long one request may take
    MaxTime     \* BOUND on the clock

\* The pause before the n-th retry.
Backoff(n) == Pause * 2 ^ (n - 1)

\* A context is made when the call begins, and a pause is no negative Duration.
ASSUME HttpAssumption ==
    /\ IsFiniteSet(Callers) /\ HostOf \in [Callers -> Hosts]
    /\ Begins \in [Callers -> Nat] /\ Deadline \in [Callers -> Nat]
    /\ \A c \in Callers : Begins[c] <= Deadline[c]
    /\ Gap \in Nat \ {0} /\ Retries \in Nat /\ Pause \in Nat \ {0} /\ Timeout \in Nat \ {0}
    /\ \A n \in 1..Retries : Backoff(n) \in Nat
    /\ MaxTime \in Nat

VARIABLES
    now,
    pc,         \* where a call is
    tries,      \* requests it has sent
    until,      \* the end of its pause, its sleep or its request
    queue,      \* callers at the lock of a host, the holder first
    last,       \* gate.last: when a host was asked last
    starts      \* history: when a host's gate let a request through
vars == <<now, pc, tries, until, queue, last, starts>>

Never == -1
Returned == {"answered", "failed", "expired"}
Places == {"new", "pause", "lock", "sleep", "sent"} \union Returned

TypeOK ==
    /\ now \in 0..MaxTime
    /\ pc \in [Callers -> Places]
    /\ tries \in [Callers -> 0..(Retries + 1)]
    /\ \A c \in Callers : until[c] \in Nat
    /\ \A h \in Hosts : /\ Range(queue[h]) = {c \in Callers : /\ HostOf[c] = h
                                                              /\ pc[c] \in {"lock", "sleep"}}
                        /\ Len(queue[h]) = Cardinality(Range(queue[h]))
    /\ last \in [Hosts -> {Never} \union 0..MaxTime]
    /\ starts \in [Hosts -> Seq(0..MaxTime)]

Expired(c) == now >= Deadline[c]
Open(h) == last[h] = Never \/ now >= last[h] + Gap
Holds(c) == queue[HostOf[c]] # <<>> /\ Head(queue[HostOf[c]]) = c
-----------------------------------------------------------------------------
Init ==
    /\ now = 0
    /\ pc = [c \in Callers |-> "new"]
    /\ tries = [c \in Callers |-> 0] /\ until = [c \in Callers |-> 0]
    /\ queue = [h \in Hosts |-> <<>>]
    /\ last = [h \in Hosts |-> Never] /\ starts = [h \in Hosts |-> <<>>]

GoTo(c, place) == pc' = [pc EXCEPT ![c] = place]

\* wait begins: the host's lock, which hands over in the order of arrival and
\* does not look at the context.
Enqueue(c) ==
    /\ GoTo(c, "lock")
    /\ queue' = [queue EXCEPT ![HostOf[c]] = Append(@, c)]

Leave(c) == queue' = [queue EXCEPT ![HostOf[c]] = Tail(@)]

Begin(c) ==
    /\ pc[c] = "new" /\ now >= Begins[c]
    /\ Enqueue(c)
    /\ UNCHANGED <<now, tries, until, last, starts>>

\* Mutant: only a first try is noted at the gate.
ThroughOnce(c) ==
    /\ Leave(c)
    /\ last' = IF tries[c] = 0 THEN [last EXCEPT ![HostOf[c]] = now] ELSE last
    /\ IF Expired(c)
       THEN GoTo(c, "expired") /\ UNCHANGED <<tries, until, starts>>
       ELSE /\ GoTo(c, "sent")
            /\ tries' = [tries EXCEPT ![c] = @ + 1]
            /\ until' = [until EXCEPT ![c] = now + Timeout]
            /\ starts' = [starts EXCEPT ![HostOf[c]] = Append(@, now)]

\* The gate lets the caller through: the instant is noted, the lock released,
\* and the request goes out.
Through(c) ==
    /\ Leave(c)
    /\ last' = [last EXCEPT ![HostOf[c]] = now]
    /\ IF Expired(c)
       THEN GoTo(c, "expired") /\ UNCHANGED <<tries, until, starts>>
       ELSE /\ GoTo(c, "sent")
            /\ tries' = [tries EXCEPT ![c] = @ + 1]
            /\ until' = [until EXCEPT ![c] = now + Timeout]
            /\ starts' = [starts EXCEPT ![HostOf[c]] = Append(@, now)]

\* The holder of the lock passes an open gate without looking at its context ...
Pass(c) ==
    /\ pc[c] = "lock" /\ Holds(c) /\ Open(HostOf[c])
    /\ Through(c)
    /\ UNCHANGED now

\* ... or sleeps until it opens, holding the lock.
Sleep(c) ==
    /\ pc[c] = "lock" /\ Holds(c) /\ ~Open(HostOf[c])
    /\ GoTo(c, "sleep")
    /\ until' = [until EXCEPT ![c] = last[HostOf[c]] + Gap]
    /\ UNCHANGED <<now, tries, queue, last, starts>>

Wake(c) ==
    /\ pc[c] = "sleep" /\ now >= until[c]
    /\ Through(c)
    /\ UNCHANGED now

\* Mutant: a caller that gives up does not release the lock.
GiveUpLocked(c) ==
    /\ pc[c] = "sleep" /\ Expired(c)
    /\ GoTo(c, "expired")
    /\ UNCHANGED <<now, tries, until, queue, last, starts>>

\* The context ends while it sleeps: the slot is left to the next in line.
GiveUp(c) ==
    /\ pc[c] = "sleep" /\ Expired(c)
    /\ GoTo(c, "expired") /\ Leave(c)
    /\ UNCHANGED <<now, tries, until, last, starts>>

\* A status below 500 is an answer, 4xx included.
Answered(c) ==
    /\ pc[c] = "sent" /\ ~Expired(c)
    /\ GoTo(c, "answered")
    /\ UNCHANGED <<now, tries, until, queue, last, starts>>

\* Mutant: a broken connection is final.
BrokenForGood(c) ==
    /\ pc[c] = "sent" /\ ~Expired(c)
    /\ GoTo(c, "failed")
    /\ UNCHANGED <<now, tries, until, queue, last, starts>>

\* A 5xx or a broken connection: another try after a pause, or the last error.
Broken(c) ==
    /\ pc[c] = "sent" /\ ~Expired(c)
    /\ IF tries[c] <= Retries
       THEN /\ GoTo(c, "pause")
            /\ until' = [until EXCEPT ![c] = now + Backoff(tries[c])]
       ELSE GoTo(c, "failed") /\ UNCHANGED until
    /\ UNCHANGED <<now, tries, queue, last, starts>>

\* The request runs into its own timeout or the call's deadline; both are
\* context.DeadlineExceeded, which is not retried.
TimedOut(c) ==
    /\ pc[c] = "sent" /\ (Expired(c) \/ now >= until[c])
    /\ GoTo(c, "expired")
    /\ UNCHANGED <<now, tries, until, queue, last, starts>>

\* The pause is over, or the context is; if both, either may be noticed.
Retry(c) ==
    /\ pc[c] = "pause" /\ now >= until[c]
    /\ Enqueue(c)
    /\ UNCHANGED <<now, tries, until, last, starts>>

\* Mutant: the pause does not listen to the context.
CancelledLate(c) == Expired(c) /\ now >= until[c]

\* The pause listens to the context.
Cancelled(c) == Expired(c)

Abandon(c) ==
    /\ pc[c] = "pause" /\ Cancelled(c)
    /\ GoTo(c, "expired")
    /\ UNCHANGED <<now, tries, until, queue, last, starts>>

\* What a caller does as soon as it can ...
AtOnce(c) ==
    \/ Begin(c) \/ Pass(c) \/ Sleep(c) \/ Wake(c) \/ GiveUp(c)
    \/ TimedOut(c) \/ Retry(c) \/ Abandon(c)

\* ... and when it can: no time passes before one of these is taken.  A server, in
\* contrast, answers or breaks the connection at any time before the request
\* times out.
Urgent(c) ==
    \/ pc[c] = "new" /\ now >= Begins[c]
    \/ pc[c] = "lock" /\ Holds(c)
    \/ pc[c] \in {"sleep", "sent"} /\ (Expired(c) \/ now >= until[c])
    \/ pc[c] = "pause" /\ (Cancelled(c) \/ now >= until[c])

Tick ==
    /\ now < MaxTime
    /\ \E c \in Callers : pc[c] \notin Returned
    /\ \A c \in Callers : ~Urgent(c)
    /\ now' = now + 1
    /\ UNCHANGED <<pc, tries, until, queue, last, starts>>

Call(c) == AtOnce(c) \/ Answered(c) \/ Broken(c)

\* fetchAll waits for every call.
Done ==
    /\ \A c \in Callers : pc[c] \in Returned
    /\ UNCHANGED vars

Next == Tick \/ Done \/ \E c \in Callers : Call(c)

Spec == Init /\ [][Next]_vars
-----------------------------------------------------------------------------
(***************************************************************************)
(* Properties                                                              *)
(***************************************************************************)

\* No burst: two requests the gate of a host lets through are at least Gap apart,
\* whichever callers they are of, first tries or retries, and whoever gave up
\* in the queue between them.
RequestsAreSpaced ==
    \A h \in Hosts : \A i, j \in 1..Len(starts[h]) :
        i < j => starts[h][j] >= starts[h][i] + Gap

Peers(c) == {d \in Callers \ {c} : HostOf[d] = HostOf[c]}

\* A collector cannot stall the round: a call returns by its deadline, or as long
\* after it as every other caller of its host may sleep once before it in the
\* queue, since waiting for the lock does not end with the context.
ReturnsInTime ==
    \A c \in Callers :
        now > Deadline[c] + Gap * Cardinality(Peers(c)) => pc[c] \in Returned

\* A call that reports an error of the server has tried as often as http.retries
\* allows; what ends it earlier is an answer, a timeout or its deadline.
FailsAfterAllTries ==
    \A c \in Callers : pc[c] = "failed" => tries[c] = Retries + 1
=============================================================================
