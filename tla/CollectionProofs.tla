-------------------------- MODULE CollectionProofs --------------------------
(***************************************************************************)
(* What a round of collecting brings in, and how it is judged: proofs      *)
(* about Collection and about Screening, for every set of sources, every   *)
(* upstream, and every text, evidence and order of rounds and reparses.    *)
(*                                                                         *)
(* Collection: the stored cursors claim no more than was done about what   *)
(* they hold, what a comparison brings into the log is news, and the       *)
(* cursors of every kind of source keep their type.  The first two need    *)
(* the collectors' copies: what memory holds after a flush that failed,    *)
(* and the answer that was compared and not yet written, are as good as    *)
(* the file.                                                               *)
(*                                                                         *)
(* Screening: a date without a year is read as the next such date, which   *)
(* is arithmetic on the Gregorian calendar; more evidence never scores     *)
(* lower, which is arithmetic on the points; and reparse corrects clocks   *)
(* and nothing else, which needs to know what the rows it holds are.       *)
(***************************************************************************)
EXTENDS Collection, Screening, FiniteSetTheorems, WellFoundedInduction, TLAPS

\* PutState sets one key and keeps the others, from the file or from memory.
LEMMA PutStateKeys ==
    ASSUME NEW k, NEW v, PutState(k, v)
    PROVE  /\ k \in DOMAIN mem' /\ mem'[k] = v
           /\ \A j \in DOMAIN mem' : j # k => \/ j \in DOMAIN disk /\ mem'[j] = disk[j]
                                              \/ j \in DOMAIN mem /\ mem'[j] = mem[j]
           /\ disk' = disk \/ disk' = mem'
BY DEF PutState

\* A search keeps its place under a key no comparison uses.
LEMMA KeysDiffer ==
    ASSUME NEW s \in Sources, NEW t \in Sources, KindOf[s] = "search", Differs(t)
    PROVE  KeyOf(t) # s
BY CollectionAssumption DEF KeyOf, Differs

\* Sources whose cursor is the same read the same upstream.
LEMMA KeysAgree ==
    ASSUME NEW s \in Sources, NEW t \in Sources, Differs(s), Differs(t), KeyOf(s) = KeyOf(t)
    PROVE  On[s] = On[t]
BY CollectionAssumption DEF KeyOf, Differs

\* Caps choose from what is there.
LEMMA CapsChoose ==
    ASSUME NEW n, NEW S
    PROVE  (\A T \in First(n, S) : T \subseteq S) /\ (\A T \in Newest(n, S) : T \subseteq S)
BY DEF First, Newest, kSubset
-----------------------------------------------------------------------------
(***************************************************************************)
(* Where the collectors are                                                *)
(***************************************************************************)

\* Between rounds nothing is in hand, and rows are judged when all have returned.
WalkInv ==
    /\ at = [s \in Sources |-> at[s]]
    /\ got = [s \in Sources |-> got[s]]
    /\ out = [s \in Sources |-> out[s]]
    /\ pc \in {"down", "idle"} => \A s \in Sources : out[s] = {}
    /\ pc = "judge" => \A s \in Sources : at[s] = "done"
    /\ pc # "fetch" => \A s \in Sources : at[s] \in {"idle", "done"}
    /\ \A s \in Sources : at[s] = "rotate" => KindOf[s] = "search"
    /\ \A s \in Sources : at[s] \in {"diff", "write"} => Differs(s)

LEMMA WalkInit == Init => WalkInv
BY DEF Init, WalkInv

LEMMA WalkStep == WalkInv /\ [Next]_vars => WalkInv'
<1> SUFFICES ASSUME WalkInv, [Next]_vars PROVE WalkInv'
    OBVIOUS
<1> USE DEF WalkInv
<1>1. CASE \E s \in Sources : Collect(s)
    <2>1. PICK s \in Sources : Collect(s)
        BY <1>1
    <2>2. at[s] \notin {"idle", "done"} /\ pc' = pc
        BY <2>1 DEF Collect, Rotate, NoAnswer, Entries, Answer, Diff, Write
    <2>3. pc = "fetch"
        BY <2>2
    <2>4. /\ at' = [t \in Sources |-> at'[t]]
          /\ got' = [t \in Sources |-> got'[t]]
          /\ out' = [t \in Sources |-> out'[t]]
        BY <2>1 DEF Collect, Rotate, NoAnswer, Entries, Answer, Diff, Write
    <2>5. \A t \in Sources : at'[t] = at[t] \/ (t = s /\ at'[t] \in {"ask", "diff", "write", "done"})
        BY <2>1 DEF Collect, Rotate, NoAnswer, Entries, Answer, Diff, Write
    <2>6. at'[s] \in {"diff", "write"} => Differs(s)
        BY <2>1 DEF Collect, Rotate, NoAnswer, Entries, Answer, Diff, Write
    <2>7. QED
        BY <2>2, <2>3, <2>4, <2>5, <2>6 DEF Differs
<1>2. CASE \E s \in Sources, x \in Things : Judge(s, x)
    BY <1>2 DEF Judge
<1>3. CASE Start \/ BeginRound \/ Join \/ EndRound \/ Crash \/ \E x \in Things : Change(x)
    BY <1>3 DEF Start, BeginRound, Join, EndRound, Crash, Change, process
<1>4. CASE UNCHANGED vars
    BY <1>4 DEF vars, process
<1>5. QED
    BY <1>1, <1>2, <1>3, <1>4 DEF Next, Step
-----------------------------------------------------------------------------
(***************************************************************************)
(* The cursor claims no more than was done                                 *)
(***************************************************************************)

\* What a collector that has returned brought.
Returned == UNION {InFlight(s) : s \in Sources}

Accounted == saved \union baseline \union lost \union Returned

CursorInv ==
    /\ \A s \in Sources : Differs(s) /\ KeyOf(s) \in DOMAIN disk => disk[KeyOf(s)] \subseteq Accounted
    /\ \A s \in Sources : Differs(s) /\ KeyOf(s) \in DOMAIN mem => mem[KeyOf(s)] \subseteq Accounted
    \* an answer that was compared is as good as the cursor it becomes
    /\ \A s \in Sources : Differs(s) /\ at[s] = "write" => got[s] \subseteq Accounted \union out[s]

LEMMA CursorInit == Init => CursorInv
BY DEF Init, CursorInv

\* Nothing accounted for is forgotten.
LEMMA AccountsStay ==
    ASSUME WalkInv, [Next]_vars
    PROVE  Accounted \subseteq Accounted'
<1> USE DEF WalkInv
<1>1. saved \subseteq saved' /\ baseline \subseteq baseline' /\ lost \subseteq lost'
    BY DEF Next, Step, vars, process, history, Start, BeginRound, Join, EndRound, Collect, Rotate,
           NoAnswer, Entries, Answer, Diff, Write, Judge, Crash, Change
<1>2. ASSUME NEW s \in Sources, NEW x \in InFlight(s)
      PROVE  x \in saved' \union lost' \union InFlight(s)'
    <2>0. Differs(s) /\ at[s] = "done" /\ x \in out[s]
        BY <1>2 DEF InFlight
    <2>1. CASE at'[s] = "done" /\ out'[s] = out[s]
        BY <2>0, <2>1 DEF InFlight
    <2>2. CASE \E t \in Sources : Collect(t)
        <3>1. PICK t \in Sources : Collect(t)
            BY <2>2
        <3>2. t # s
            BY <2>0, <3>1 DEF Collect, Rotate, NoAnswer, Entries, Answer, Diff, Write
        <3>3. at'[s] = at[s] /\ out'[s] = out[s]
            BY <3>1, <3>2 DEF Collect, Rotate, NoAnswer, Entries, Answer, Diff, Write
        <3>4. QED
            BY <2>0, <2>1, <3>3
    <2>3. CASE \E t \in Sources, y \in Things : Judge(t, y)
        <3>1. PICK t \in Sources, y \in Things : Judge(t, y)
            BY <2>3
        <3>2. CASE s # t \/ x # y
            <4>1. at'[s] = "done" /\ x \in out'[s]
                BY <2>0, <3>1, <3>2 DEF Judge
            <4>2. QED
                BY <2>0, <4>1 DEF InFlight
        <3>3. CASE s = t /\ x = y
            BY <2>0, <3>1, <3>3 DEF Judge, Dropped
        <3>4. QED
            BY <3>2, <3>3
    <2>4. CASE BeginRound \/ EndRound
        <3>1. out[s] = {}
            BY <2>4 DEF BeginRound, EndRound
        <3>2. QED
            BY <2>0, <3>1
    <2>5. CASE Crash
        BY <1>2, <2>5 DEF Crash
    <2>6. CASE Start \/ Join \/ (\E y \in Things : Change(y)) \/ UNCHANGED vars
        <3>1. at' = at /\ out' = out
            BY <2>6 DEF Start, Join, Change, vars, process
        <3>2. QED
            BY <2>0, <2>1, <3>1
    <2>7. QED
        BY <2>2, <2>3, <2>4, <2>5, <2>6 DEF Next, Step
<1>3. ASSUME NEW x \in Returned PROVE x \in Accounted'
    <2>1. PICK s \in Sources : x \in InFlight(s)
        BY <1>3 DEF Returned
    <2>2. x \in saved' \union lost' \union InFlight(s)'
        BY <1>2, <2>1
    <2>3. InFlight(s)' \subseteq Returned'
        BY DEF Returned
    <2>4. QED
        BY <2>2, <2>3 DEF Accounted
<1>4. QED
    BY <1>1, <1>3 DEF Accounted

\* A flush moves old claims about and adds one.
LEMMA PutStateClaims ==
    ASSUME CursorInv, NEW k, NEW v, PutState(k, v), Accounted \subseteq Accounted',
           NEW s \in Sources, Differs(s), KeyOf(s) # k \/ v \subseteq Accounted'
    PROVE  /\ KeyOf(s) \in DOMAIN mem' => mem'[KeyOf(s)] \subseteq Accounted'
           /\ KeyOf(s) \in DOMAIN disk' => disk'[KeyOf(s)] \subseteq Accounted'
<1>1. KeyOf(s) \in DOMAIN disk => disk[KeyOf(s)] \subseteq Accounted'
    BY DEF CursorInv
<1>2. KeyOf(s) \in DOMAIN mem => mem[KeyOf(s)] \subseteq Accounted'
    BY DEF CursorInv
<1>3. KeyOf(s) \in DOMAIN mem' => mem'[KeyOf(s)] \subseteq Accounted'
    BY <1>1, <1>2, PutStateKeys
<1>4. QED
    BY <1>1, <1>3, PutStateKeys

LEMMA CursorStep == WalkInv /\ CursorInv /\ [Next]_vars => CursorInv'
<1> SUFFICES ASSUME WalkInv, CursorInv, [Next]_vars PROVE CursorInv'
    OBVIOUS
<1>0. Accounted \subseteq Accounted'
    BY AccountsStay
<1>w. /\ at = [s \in Sources |-> at[s]]
      /\ got = [s \in Sources |-> got[s]]
      /\ out = [s \in Sources |-> out[s]]
      /\ pc # "fetch" => \A s \in Sources : at[s] \in {"idle", "done"}
    BY DEF WalkInv
\* Steps that leave the cursors alone and compare nothing.
<1>f. ASSUME disk' = disk, mem' \in {mem, disk, <<>>},
             \A s \in Sources : at'[s] = "write" =>
                 at[s] = "write" /\ got'[s] = got[s] /\ out'[s] = out[s]
      PROVE  CursorInv'
    <2>1. \A s \in Sources : Differs(s) /\ KeyOf(s) \in DOMAIN disk => disk[KeyOf(s)] \subseteq Accounted'
        BY <1>0 DEF CursorInv
    <2>2. \A s \in Sources : Differs(s) /\ KeyOf(s) \in DOMAIN mem => mem[KeyOf(s)] \subseteq Accounted'
        BY <1>0 DEF CursorInv
    <2>3. \A s \in Sources : Differs(s) /\ KeyOf(s) \in DOMAIN mem' => mem'[KeyOf(s)] \subseteq Accounted'
        BY <1>f, <2>1, <2>2
    <2>4. \A s \in Sources : Differs(s) /\ at'[s] = "write" => got'[s] \subseteq Accounted' \union out'[s]
        BY <1>0, <1>f DEF CursorInv
    <2>5. QED
        BY <1>f, <2>1, <2>3, <2>4 DEF CursorInv, Differs, KeyOf
<1>1. CASE Start \/ BeginRound \/ Join \/ EndRound \/ Crash \/ (\E x \in Things : Change(x))
           \/ (\E s \in Sources, x \in Things : Judge(s, x)) \/ UNCHANGED vars
    <2>1. disk' = disk /\ mem' \in {mem, disk, <<>>}
        BY <1>1 DEF Start, BeginRound, Join, EndRound, Crash, Change, Judge, vars, process
    <2>2. \A s \in Sources : at'[s] = "write" => at[s] = "write" /\ pc = "fetch"
                                                 /\ got'[s] = got[s] /\ out'[s] = out[s]
        BY <1>1, <1>w DEF Start, BeginRound, Join, EndRound, Crash, Change, Judge, vars, process
    <2>3. QED
        BY <1>f, <2>1, <2>2
<1>2. ASSUME NEW s \in Sources, NoAnswer(s) \/ Entries(s) \/ Answer(s)
      PROVE  CursorInv'
    <2>1. disk' = disk /\ mem' = mem /\ at[s] = "ask" /\ at'[s] # "write"
          /\ \A t \in Sources \ {s} : at'[t] = at[t] /\ got'[t] = got[t] /\ out'[t] = out[t]
        BY <1>2, <1>w DEF NoAnswer, Entries, Answer
    <2>2. QED
        BY <1>f, <2>1
<1>3. ASSUME NEW s \in Sources, Diff(s)
      PROVE  CursorInv'
    <2>1. disk' = disk /\ mem' = mem /\ got' = got /\ at[s] = "diff"
          /\ \A t \in Sources \ {s} : at'[t] = at[t] /\ out'[t] = out[t]
        BY <1>3, <1>w DEF Diff
    <2>2. \A t \in Sources : Differs(t) /\ KeyOf(t) \in DOMAIN disk => disk[KeyOf(t)] \subseteq Accounted'
        BY <1>0 DEF CursorInv
    <2>3. \A t \in Sources : Differs(t) /\ KeyOf(t) \in DOMAIN mem => mem[KeyOf(t)] \subseteq Accounted'
        BY <1>0 DEF CursorInv
    <2>4. \A t \in Sources \ {s} : Differs(t) /\ at[t] = "write" => got[t] \subseteq Accounted' \union out[t]
        BY <1>0 DEF CursorInv
    <2>5. Differs(s) => got[s] \subseteq Accounted' \union out'[s]
        <3> SUFFICES ASSUME Differs(s), NEW x \in got[s], x \notin out'[s] PROVE x \in Accounted'
            OBVIOUS
        <3> DEFINE first == KeyOf(s) \notin DOMAIN mem
                   news == News(s, first)
        <3>1. PICK T : /\ out' = [out EXCEPT ![s] = T \intersect Wanted[s]]
                       /\ lost' = lost \union (news \ (T \intersect Wanted[s]))
            BY <1>3 DEF Diff
        <3>2. x \in news => x \in lost'
            BY <1>w, <3>1
        <3>3. first /\ x \notin news => x \in baseline'
            BY <1>3 DEF Diff
        <3>4. ~first /\ x \notin news => x \in mem[KeyOf(s)]
            BY DEF News
        <3>5. QED
            BY <2>3, <3>2, <3>3, <3>4 DEF Accounted
    <2>6. QED
        BY <2>1, <2>2, <2>3, <2>4, <2>5 DEF CursorInv, Differs, KeyOf
<1>4. ASSUME NEW s \in Sources, Rotate(s) \/ Write(s)
      PROVE  CursorInv'
    <2>1. PICK k, v : PutState(k, v) /\ \A t \in Sources : Differs(t) => KeyOf(t) # k \/ v \subseteq Accounted'
        <3>1. CASE Rotate(s)
            <4>1. PutState(s, ((IF s \in DOMAIN mem THEN mem[s] ELSE 0) + 1) % Queries)
                  /\ KindOf[s] = "search"
                BY <3>1 DEF Rotate, WalkInv
            <4>2. QED
                BY <3>1, <4>1, KeysDiffer
        <3>2. CASE Write(s)
            <4>1. /\ PutState(KeyOf(s), got[s]) /\ Differs(s)
                  /\ at[s] = "write" /\ at'[s] = "done" /\ out' = out
                BY <3>2, <1>w DEF Write, WalkInv
            <4>2. got[s] \subseteq Accounted \union out[s]
                BY <3>2, <4>1 DEF CursorInv
            <4>3. out[s] \subseteq Accounted'
                BY <3>2, <4>1 DEF Accounted, Returned, InFlight
            <4>4. QED
                BY <1>0, <4>1, <4>2, <4>3
        <3>3. QED
            BY <1>4, <3>1, <3>2
    <2>2. ASSUME NEW t \in Sources, Differs(t)
          PROVE  /\ KeyOf(t) \in DOMAIN mem' => mem'[KeyOf(t)] \subseteq Accounted'
                 /\ KeyOf(t) \in DOMAIN disk' => disk'[KeyOf(t)] \subseteq Accounted'
        BY <1>0, <2>1, <2>2, PutStateClaims
    <2>3. out' = out /\ \A t \in Sources : at'[t] = "write" => at[t] = "write" /\ got'[t] = got[t]
        BY <1>4, <1>w DEF Rotate, Write
    <2>4. \A t \in Sources : Differs(t) /\ at'[t] = "write" => got'[t] \subseteq Accounted' \union out'[t]
        BY <1>0, <2>3 DEF CursorInv
    <2>5. QED
        BY <2>2, <2>4 DEF CursorInv, Differs, KeyOf
<1>5. QED
    BY <1>1, <1>2, <1>3, <1>4 DEF Next, Step, Collect

\* Whatever a stored cursor holds is in the log, on its way there, was recorded by
\* a first round, or was dropped between the two files.
THEOREM CursorsAreAccounted == Spec => []CursorIsAccounted
<1>1. CursorInv => CursorIsAccounted
    BY DEF CursorInv, CursorIsAccounted, Accounted, Returned, InFlight, InHand
<1>2. QED
    BY <1>1, WalkInit, WalkStep, CursorInit, CursorStep, PTL DEF Spec
-----------------------------------------------------------------------------
(***************************************************************************)
(* What a comparison brings is news                                        *)
(***************************************************************************)

\* Some list compared with a cursor did not hold x, or a first round of
\* openrouter found it recent.
Fresh(s, x) ==
    \/ x \in unlisted
    \/ KindOf[s] = "openrouter" /\ x \in On[s] /\ Created[x] >= Grace

NewsInv ==
    \* what a cursor leaves out was missing from the list it came from
    /\ \A s \in Sources : Differs(s) /\ KeyOf(s) \in DOMAIN disk => On[s] \ disk[KeyOf(s)] \subseteq unlisted
    /\ \A s \in Sources : Differs(s) /\ KeyOf(s) \in DOMAIN mem => On[s] \ mem[KeyOf(s)] \subseteq unlisted
    /\ \A s \in Sources : at[s] \in {"diff", "write"} =>
           got[s] \subseteq On[s] /\ On[s] \ got[s] \subseteq unlisted
    /\ \A s \in Sources : Differs(s) => \A x \in out[s] : Fresh(s, x)
    /\ NothingOldIsNews

LEMMA NewsInit == Init => NewsInv
BY DEF Init, NewsInv, NothingOldIsNews

LEMMA PutStateNews ==
    ASSUME NewsInv, NEW k, NEW v, PutState(k, v), unlisted' = unlisted,
           NEW s \in Sources, Differs(s), KeyOf(s) # k \/ On[s] \ v \subseteq unlisted
    PROVE  /\ KeyOf(s) \in DOMAIN mem' => On[s] \ mem'[KeyOf(s)] \subseteq unlisted
           /\ KeyOf(s) \in DOMAIN disk' => On[s] \ disk'[KeyOf(s)] \subseteq unlisted
<1>1. KeyOf(s) \in DOMAIN disk => On[s] \ disk[KeyOf(s)] \subseteq unlisted
    BY DEF NewsInv
<1>2. KeyOf(s) \in DOMAIN mem => On[s] \ mem[KeyOf(s)] \subseteq unlisted
    BY DEF NewsInv
<1>3. KeyOf(s) \in DOMAIN mem' => On[s] \ mem'[KeyOf(s)] \subseteq unlisted
    BY <1>1, <1>2, PutStateKeys
<1>4. QED
    BY <1>1, <1>3, PutStateKeys

LEMMA NewsStep == WalkInv /\ NewsInv /\ [Next]_vars => NewsInv'
<1> SUFFICES ASSUME WalkInv, NewsInv, [Next]_vars PROVE NewsInv'
    OBVIOUS
<1>w. /\ at = [s \in Sources |-> at[s]]
      /\ got = [s \in Sources |-> got[s]]
      /\ out = [s \in Sources |-> out[s]]
      /\ pc # "fetch" => \A s \in Sources : at[s] \in {"idle", "done"}
      /\ \A s \in Sources : at[s] \in {"diff", "write"} => Differs(s)
    BY DEF WalkInv
<1>n. /\ \A s \in Sources : Differs(s) /\ KeyOf(s) \in DOMAIN disk => On[s] \ disk[KeyOf(s)] \subseteq unlisted
      /\ \A s \in Sources : Differs(s) /\ KeyOf(s) \in DOMAIN mem => On[s] \ mem[KeyOf(s)] \subseteq unlisted
      /\ \A s \in Sources : Differs(s) => \A x \in out[s] : Fresh(s, x)
    BY DEF NewsInv
\* Steps that leave the cursors alone, take no list and judge nothing.
<1>f. ASSUME disk' = disk, mem' \in {mem, disk, <<>>}, told' = told, unlisted \subseteq unlisted',
             \A s \in Sources : at'[s] \in {"diff", "write"} =>
                 at[s] \in {"diff", "write"} /\ got'[s] = got[s],
             \A s \in Sources : Differs(s) => out'[s] \subseteq out[s]
      PROVE  NewsInv'
    <2>1. \A s \in Sources : Differs(s) /\ KeyOf(s) \in DOMAIN mem' => On[s] \ mem'[KeyOf(s)] \subseteq unlisted'
        BY <1>f, <1>n
    <2>2. \A s \in Sources : Differs(s) => \A x \in out'[s] : Fresh(s, x)'
        BY <1>f, <1>n DEF Fresh
    <2>3. NothingOldIsNews'
        BY <1>f DEF NewsInv, NothingOldIsNews
    <2>4. QED
        BY <1>f, <1>n, <2>1, <2>2, <2>3 DEF NewsInv, Differs, KeyOf
<1>1. CASE Start \/ BeginRound \/ Join \/ EndRound \/ Crash \/ (\E x \in Things : Change(x))
           \/ UNCHANGED vars
    <2>1. disk' = disk /\ mem' \in {mem, disk, <<>>} /\ told' = told /\ unlisted' = unlisted
        BY <1>1 DEF Start, BeginRound, Join, EndRound, Crash, Change, vars, process, history
    <2>2. \A s \in Sources : at'[s] \in {"diff", "write"} => at[s] \in {"diff", "write"} /\ got'[s] = got[s]
        BY <1>1, <1>w DEF Start, BeginRound, Join, EndRound, Crash, Change, vars, process
    <2>3. \A s \in Sources : out'[s] \subseteq out[s]
        BY <1>1, <1>w DEF Start, BeginRound, Join, EndRound, Crash, Change, vars, process
    <2>4. QED
        BY <1>f, <2>1, <2>2, <2>3
<1>2. ASSUME NEW s \in Sources, NoAnswer(s) \/ Entries(s)
      PROVE  NewsInv'
    <2>1. /\ disk' = disk /\ mem' = mem /\ told' = told /\ unlisted' = unlisted /\ got' = got
          /\ at[s] = "ask" /\ at' = [at EXCEPT ![s] = "done"]
          /\ \A t \in Sources : Differs(t) => out'[t] = out[t]
        BY <1>2, <1>w DEF NoAnswer, Entries
    <2>2. QED
        BY <1>f, <1>w, <2>1
<1>3. ASSUME NEW s \in Sources, Answer(s)
      PROVE  NewsInv'
    <2>1. PICK T \in Tracked(s) : got' = [got EXCEPT ![s] = T] /\ unlisted' = unlisted \union (On[s] \ T)
        BY <1>3 DEF Answer
    <2>2. T \subseteq On[s]
        <3>1. T = page \intersect On[s] \/ T \in First(Cap[s], page \intersect On[s] \intersect Wanted[s])
            BY <2>1 DEF Tracked
        <3>2. QED
            BY <3>1, CapsChoose
    <2>3. disk' = disk /\ mem' = mem /\ told' = told /\ out' = out /\ at' = [at EXCEPT ![s] = "diff"]
        BY <1>3 DEF Answer
    <2>4. \A t \in Sources : at'[t] \in {"diff", "write"} =>
             got'[t] \subseteq On[t] /\ On[t] \ got'[t] \subseteq unlisted'
        <3> SUFFICES ASSUME NEW t \in Sources, at'[t] \in {"diff", "write"}
                     PROVE  got'[t] \subseteq On[t] /\ On[t] \ got'[t] \subseteq unlisted'
            OBVIOUS
        <3>1. CASE t = s
            BY <1>w, <2>1, <2>2, <3>1
        <3>2. CASE t # s
            BY <1>w, <2>1, <2>3, <3>2 DEF NewsInv
        <3>3. QED
            BY <3>1, <3>2
    <2>5. \A t \in Sources : Differs(t) => \A x \in out[t] : Fresh(t, x)'
        BY <1>n, <2>1 DEF Fresh
    <2>6. NothingOldIsNews'
        BY <2>1, <2>3 DEF NewsInv, NothingOldIsNews
    <2>7. QED
        BY <1>n, <2>1, <2>3, <2>4, <2>5, <2>6 DEF NewsInv, Differs, KeyOf
<1>4. ASSUME NEW s \in Sources, Diff(s)
      PROVE  NewsInv'
    <2>1. /\ disk' = disk /\ mem' = mem /\ got' = got /\ told' = told /\ unlisted' = unlisted
          /\ at[s] = "diff" /\ at' = [at EXCEPT ![s] = "write"]
        BY <1>4 DEF Diff
    <2> DEFINE first == KeyOf(s) \notin DOMAIN mem
               news == News(s, first)
    <2>2. PICK T \in Newest(Cap[s], news) : out' = [out EXCEPT ![s] = T \intersect Wanted[s]]
        BY <1>4 DEF Diff
    <2>3. \A x \in news : Fresh(s, x)
        <3>1. Differs(s) /\ got[s] \subseteq On[s]
            BY <1>w, <2>1 DEF NewsInv
        <3>2. CASE first
            BY <3>1, <3>2 DEF News, Fresh
        <3>3. CASE ~first
            BY <1>n, <3>1, <3>3 DEF News, Fresh
        <3>4. QED
            BY <3>2, <3>3
    <2>4. T \subseteq news
        BY CapsChoose
    <2>5. \A t \in Sources : Differs(t) => \A x \in out'[t] : Fresh(t, x)'
        <3> SUFFICES ASSUME NEW t \in Sources, Differs(t), NEW x \in out'[t] PROVE Fresh(t, x)
            BY <2>1 DEF Fresh
        <3>1. CASE t = s
            BY <1>w, <2>2, <2>3, <2>4, <3>1
        <3>2. CASE t # s
            BY <1>w, <1>n, <2>2, <3>2
        <3>3. QED
            BY <3>1, <3>2
    <2>6. \A t \in Sources : at'[t] \in {"diff", "write"} => at[t] \in {"diff", "write"}
        BY <1>w, <2>1
    <2>7. QED
        BY <1>n, <2>1, <2>5, <2>6 DEF NewsInv, NothingOldIsNews, Differs, KeyOf
<1>5. ASSUME NEW s \in Sources, Rotate(s) \/ Write(s)
      PROVE  NewsInv'
    <2>0. told' = told /\ unlisted' = unlisted /\ out' = out
        BY <1>5 DEF Rotate, Write
    <2>1. PICK k, v : PutState(k, v) /\ \A t \in Sources : Differs(t) =>
                          KeyOf(t) # k \/ On[t] \ v \subseteq unlisted
        <3>1. CASE Rotate(s)
            <4>1. PutState(s, ((IF s \in DOMAIN mem THEN mem[s] ELSE 0) + 1) % Queries)
                  /\ KindOf[s] = "search"
                BY <3>1 DEF Rotate, WalkInv
            <4>2. QED
                BY <3>1, <4>1, KeysDiffer
        <3>2. CASE Write(s)
            <4>1. PutState(KeyOf(s), got[s]) /\ at[s] = "write" /\ Differs(s)
                BY <3>2, <1>w DEF Write
            <4>2. On[s] \ got[s] \subseteq unlisted
                BY <4>1 DEF NewsInv
            <4>3. \A t \in Sources : Differs(t) => KeyOf(t) # KeyOf(s) \/ On[t] = On[s]
                BY <4>1, KeysAgree
            <4>4. QED
                BY <4>1, <4>2, <4>3
        <3>3. QED
            BY <1>5, <3>1, <3>2
    <2>2. ASSUME NEW t \in Sources, Differs(t)
          PROVE  /\ KeyOf(t) \in DOMAIN mem' => On[t] \ mem'[KeyOf(t)] \subseteq unlisted
                 /\ KeyOf(t) \in DOMAIN disk' => On[t] \ disk'[KeyOf(t)] \subseteq unlisted
        BY <2>0, <2>1, <2>2, PutStateNews
    <2>3. \A t \in Sources : at'[t] \in {"diff", "write"} => at[t] \in {"diff", "write"} /\ got'[t] = got[t]
        BY <1>5, <1>w DEF Rotate, Write
    <2>4. \A t \in Sources : at'[t] \in {"diff", "write"} =>
             got'[t] \subseteq On[t] /\ On[t] \ got'[t] \subseteq unlisted'
        BY <2>0, <2>3 DEF NewsInv
    <2>5. (\A t \in Sources : Differs(t) => \A x \in out'[t] : Fresh(t, x)') /\ NothingOldIsNews'
        BY <1>n, <2>0 DEF Fresh, NewsInv, NothingOldIsNews
    <2>6. QED
        BY <2>0, <2>2, <2>4, <2>5 DEF NewsInv, Differs, KeyOf
<1>6. ASSUME NEW s \in Sources, NEW x \in Things, Judge(s, x)
      PROVE  NewsInv'
    <2>1. /\ disk' = disk /\ mem' = mem /\ at' = at /\ got' = got /\ unlisted' = unlisted
          /\ out' = [out EXCEPT ![s] = @ \ {x}] /\ x \in out[s]
        BY <1>6 DEF Judge
    <2>2. \A t \in Sources : Differs(t) => \A y \in out'[t] : Fresh(t, y)'
        BY <1>n, <1>w, <2>1 DEF Fresh
    <2>3. told' = told \/ (Differs(s) /\ told' = told \union {x})
        BY <1>6 DEF Judge
    <2>4. Differs(s) => Fresh(s, x)
        BY <1>n, <2>1
    <2>5. NothingOldIsNews'
        BY <2>1, <2>3, <2>4 DEF NewsInv, NothingOldIsNews, Fresh
    <2>6. QED
        BY <2>1, <2>2, <2>5 DEF NewsInv, Differs, KeyOf
<1>7. QED
    BY <1>1, <1>2, <1>3, <1>4, <1>5, <1>6 DEF Next, Step, Collect

\* Nothing a crash, a failed flush or a failed fetch does to the cursors makes
\* what was there all along come out as news.
THEOREM NewsIsNew == Spec => []NothingOldIsNews
<1>1. NewsInv => NothingOldIsNews
    BY DEF NewsInv
<1>2. QED
    BY <1>1, WalkInit, WalkStep, NewsInit, NewsStep, PTL DEF Spec
-----------------------------------------------------------------------------
(***************************************************************************)
(* Type correctness                                                        *)
(***************************************************************************)

\* A cursor of a differ holds what its upstream can list, one of a search the
\* number of a query, in memory as in the file.
PlacesInv ==
    /\ DOMAIN disk \subseteq Keys /\ DOMAIN mem \subseteq Keys
    /\ \A s \in Sources : Differs(s) =>
          /\ KeyOf(s) \in DOMAIN disk => disk[KeyOf(s)] \subseteq On[s]
          /\ KeyOf(s) \in DOMAIN mem => mem[KeyOf(s)] \subseteq On[s]
    /\ \A s \in Sources : KindOf[s] = "search" =>
          /\ s \in DOMAIN disk => disk[s] \in 0..(Queries - 1)
          /\ s \in DOMAIN mem => mem[s] \in 0..(Queries - 1)

LEMMA PlacesInit == Init => PlacesInv
BY DEF Init, PlacesInv

\* A flush keeps that when the value it sets is of the key's kind.
LEMMA PutStatePlaces ==
    ASSUME PlacesInv, NEW k \in Keys, NEW v, PutState(k, v),
           \A s \in Sources : Differs(s) /\ KeyOf(s) = k => v \subseteq On[s],
           \A s \in Sources : KindOf[s] = "search" /\ s = k => v \in 0..(Queries - 1)
    PROVE  PlacesInv'
<1>1. DOMAIN mem' = {k} \union DOMAIN disk \union DOMAIN mem
    BY DEF PutState
<1>2. DOMAIN mem' \subseteq Keys /\ DOMAIN disk' \subseteq Keys
    BY <1>1, PutStateKeys DEF PlacesInv
<1>3. ASSUME NEW s \in Sources, Differs(s)
      PROVE  /\ KeyOf(s) \in DOMAIN disk' => disk'[KeyOf(s)] \subseteq On[s]
             /\ KeyOf(s) \in DOMAIN mem' => mem'[KeyOf(s)] \subseteq On[s]
    <2>1. KeyOf(s) \in DOMAIN mem' => mem'[KeyOf(s)] \subseteq On[s]
        BY <1>3, PutStateKeys DEF PlacesInv
    <2>2. QED
        BY <1>3, <2>1, PutStateKeys DEF PlacesInv
<1>4. ASSUME NEW s \in Sources, KindOf[s] = "search"
      PROVE  /\ s \in DOMAIN disk' => disk'[s] \in 0..(Queries - 1)
             /\ s \in DOMAIN mem' => mem'[s] \in 0..(Queries - 1)
    <2>1. s \in DOMAIN mem' => mem'[s] \in 0..(Queries - 1)
        BY <1>4, PutStateKeys DEF PlacesInv
    <2>2. QED
        BY <1>4, <2>1, PutStateKeys DEF PlacesInv
<1>5. QED
    BY <1>2, <1>3, <1>4 DEF PlacesInv, Keys, KeyOf, Differs

\* The next query.
LEMMA NextQuery ==
    ASSUME NEW i \in Nat
    PROVE  (i + 1) % Queries \in 0..(Queries - 1)
<1>1. Queries \in Nat \ {0}
    BY CollectionAssumption
<1>2. QED
    BY <1>1

LEMMA PlacesStep == WalkInv /\ NewsInv /\ PlacesInv /\ [Next]_vars => PlacesInv'
<1> SUFFICES ASSUME WalkInv, NewsInv, PlacesInv, [Next]_vars PROVE PlacesInv'
    OBVIOUS
<1>f. ASSUME disk' = disk, mem' \in {mem, disk, <<>>} PROVE PlacesInv'
    <2>1. CASE mem' = mem
        BY <1>f, <2>1 DEF PlacesInv, Keys, KeyOf, Differs
    <2>2. CASE mem' = disk
        BY <1>f, <2>2 DEF PlacesInv, Keys, KeyOf, Differs
    <2>3. CASE mem' = <<>>
        BY <1>f, <2>3 DEF PlacesInv, Keys, KeyOf, Differs
    <2>4. QED
        BY <1>f, <2>1, <2>2, <2>3
<1>1. CASE Start \/ BeginRound \/ Join \/ EndRound \/ Crash \/ (\E x \in Things : Change(x))
           \/ (\E s \in Sources, x \in Things : Judge(s, x)) \/ UNCHANGED vars
    <2>1. disk' = disk /\ mem' \in {mem, disk, <<>>}
        BY <1>1 DEF Start, BeginRound, Join, EndRound, Crash, Change, Judge, vars, process
    <2>2. QED
        BY <1>f, <2>1
<1>2. ASSUME NEW s \in Sources, NoAnswer(s) \/ Entries(s) \/ Answer(s) \/ Diff(s)
      PROVE  PlacesInv'
    <2>1. disk' = disk /\ mem' = mem
        BY <1>2 DEF NoAnswer, Entries, Answer, Diff
    <2>2. QED
        BY <1>f, <2>1
<1>3. ASSUME NEW s \in Sources, Rotate(s) PROVE PlacesInv'
    <2> DEFINE i == IF s \in DOMAIN mem THEN mem[s] ELSE 0
    <2>1. KindOf[s] = "search" /\ PutState(s, (i + 1) % Queries)
        BY <1>3 DEF Rotate, WalkInv
    <2>2. i \in Nat
        BY <2>1, CollectionAssumption DEF PlacesInv
    <2>3. s \in Keys
        <3>1. KeyOf(s) = s
            BY <2>1 DEF KeyOf
        <3>2. QED
            BY <3>1 DEF Keys
    <2>4. (i + 1) % Queries \in 0..(Queries - 1)
        BY <2>2, NextQuery
    <2>5. \A t \in Sources : Differs(t) => KeyOf(t) # s
        BY <2>1, KeysDiffer
    <2> HIDE DEF i
    <2>6. QED
        BY <2>1, <2>3, <2>4, <2>5, PutStatePlaces
<1>4. ASSUME NEW s \in Sources, Write(s) PROVE PlacesInv'
    <2>1. Differs(s) /\ PutState(KeyOf(s), got[s]) /\ got[s] \subseteq On[s]
        BY <1>4 DEF Write, WalkInv, NewsInv
    <2>2. \A t \in Sources : Differs(t) /\ KeyOf(t) = KeyOf(s) => got[s] \subseteq On[t]
        BY <2>1, KeysAgree
    <2>3. \A t \in Sources : KindOf[t] = "search" => t # KeyOf(s)
        BY <2>1, KeysDiffer
    <2>4. KeyOf(s) \in Keys
        BY DEF Keys
    <2>5. QED
        BY <2>1, <2>2, <2>3, <2>4, PutStatePlaces
<1>5. QED
    BY <1>1, <1>2, <1>3, <1>4 DEF Next, Step, Collect

\* What is in hand, in the log and in the histories are things.
RangeInv ==
    /\ page \subseteq Things /\ saved \subseteq Kept /\ told \subseteq saved
    /\ pc \in {"down", "idle", "fetch", "judge"}
    /\ at \in [Sources -> {"idle", "rotate", "ask", "diff", "write", "done"}]
    /\ got \in [Sources -> SUBSET Things] /\ out \in [Sources -> SUBSET Things]
    /\ seen \subseteq {Fingerprint[x] : x \in Things}
    /\ asked \in 0..Queries
    /\ baseline \subseteq Things /\ lost \subseteq Things /\ unlisted \subseteq Things
    /\ changes \in 0..MaxChanges /\ faults \in 0..MaxFaults

LEMMA Sizes ==
    /\ Queries \in Nat \ {0} /\ MaxChanges \in Nat /\ MaxFaults \in Nat
    /\ Kept \subseteq Things /\ Listed \subseteq Things
    /\ \A s \in Sources : On[s] \subseteq Things
BY CollectionAssumption

LEMMA RangeInit == Init => RangeInv
BY Sizes DEF Init, RangeInv

LEMMA FaultStep == RangeInv /\ (Fault \/ UNCHANGED faults) => faults' \in 0..MaxFaults
BY Sizes DEF RangeInv, Fault

LEMMA RangeStep == WalkInv /\ NewsInv /\ PlacesInv /\ RangeInv /\ [Next]_vars => RangeInv'
<1> SUFFICES ASSUME WalkInv, NewsInv, PlacesInv, RangeInv, [Next]_vars PROVE RangeInv'
    OBVIOUS
<1> USE Sizes
<1>1. CASE Start \/ BeginRound \/ Join \/ EndRound
    <2>1. UNCHANGED <<page, saved, got, out, history>>
        BY <1>1 DEF Start, BeginRound, Join, EndRound
    <2>2. pc' \in {"down", "idle", "fetch", "judge"}
        BY <1>1 DEF Start, BeginRound, Join, EndRound
    <2>3. at' \in [Sources -> {"idle", "rotate", "ask", "diff", "write", "done"}]
        BY <1>1 DEF Start, BeginRound, Join, EndRound, RangeInv
    <2>4. seen' \subseteq {Fingerprint[x] : x \in Things}
        BY <1>1 DEF Start, BeginRound, Join, EndRound, RangeInv
    <2>5. QED
        BY <2>1, <2>2, <2>3, <2>4 DEF history, RangeInv
<1>2. ASSUME NEW x \in Things, Change(x) PROVE RangeInv'
    <2>1. changes' \in 0..MaxChanges /\ page' \subseteq Things
        BY <1>2 DEF Change, RangeInv
    <2>2. QED
        BY <1>2, <2>1 DEF Change, process, RangeInv
<1>3. CASE Crash
    <2>1. faults' \in 0..MaxFaults
        BY <1>3, FaultStep DEF Crash
    <2>2. UNION {InFlight(s) : s \in Sources} \subseteq Things
        BY DEF InFlight, RangeInv
    <2>3. lost' \subseteq Things
        BY <1>3, <2>2 DEF Crash, RangeInv
    <2>4. QED
        BY <1>3, <2>1, <2>3 DEF Crash, RangeInv
<1>4. ASSUME NEW s \in Sources, Collect(s) PROVE RangeInv'
    <2>1. CASE Rotate(s)
        <3>1. KindOf[s] = "search" /\ asked' = (IF s \in DOMAIN mem THEN mem[s] ELSE 0)
            BY <2>1 DEF Rotate, WalkInv
        <3>2. asked' \in 0..Queries
            BY <3>1 DEF PlacesInv
        <3>3. faults' \in 0..MaxFaults
            BY <2>1, FaultStep DEF Rotate, PutState
        <3>4. QED
            BY <2>1, <3>2, <3>3 DEF Rotate, RangeInv
    <2>2. CASE NoAnswer(s)
        BY <2>2 DEF NoAnswer, Settled, RangeInv
    <2>3. CASE Entries(s)
        <3>1. PICK T \in First(Cap[s], page \intersect On[s] \intersect Wanted[s]) :
                 out' = [out EXCEPT ![s] = T]
            BY <2>3 DEF Entries
        <3>2. T \subseteq Things
            BY CapsChoose
        <3>3. out' \in [Sources -> SUBSET Things]
            BY <3>1, <3>2 DEF RangeInv
        <3>4. QED
            BY <2>3, <3>3 DEF Entries, Settled, RangeInv
    <2>4. CASE Answer(s)
        <3>1. PICK T \in Tracked(s) :
                 got' = [got EXCEPT ![s] = T] /\ unlisted' = unlisted \union (On[s] \ T)
            BY <2>4 DEF Answer
        <3>2. T \subseteq Things
            <4>1. T = page \intersect On[s] \/ T \in First(Cap[s], page \intersect On[s] \intersect Wanted[s])
                BY <3>1 DEF Tracked
            <4>2. QED
                BY <4>1, CapsChoose
        <3>3. got' \in [Sources -> SUBSET Things] /\ unlisted' \subseteq Things
            BY <3>1, <3>2 DEF RangeInv
        <3>4. QED
            BY <2>4, <3>3 DEF Answer, RangeInv
    <2>5. CASE Diff(s)
        <3> DEFINE first == KeyOf(s) \notin DOMAIN mem
                   news == News(s, first)
        <3>1. PICK T \in Newest(Cap[s], news) :
                 /\ out' = [out EXCEPT ![s] = T \intersect Wanted[s]]
                 /\ lost' = lost \union (news \ (T \intersect Wanted[s]))
            BY <2>5 DEF Diff
        <3>2. got[s] \subseteq Things
            BY DEF RangeInv
        <3>3. news \subseteq Things
            BY <3>2 DEF News
        <3>4. T \subseteq Things
            BY <3>3, CapsChoose
        <3>5. out' \in [Sources -> SUBSET Things] /\ lost' \subseteq Things
            BY <3>1, <3>3, <3>4 DEF RangeInv
        <3>6. baseline' \subseteq Things
            BY <2>5, <3>2 DEF Diff, RangeInv
        <3> HIDE DEF first, news
        <3>7. QED
            BY <2>5, <3>5, <3>6 DEF Diff, RangeInv
    <2>6. CASE Write(s)
        <3>1. faults' \in 0..MaxFaults
            BY <2>6, FaultStep DEF Write, PutState
        <3>2. QED
            BY <2>6, <3>1 DEF Write, RangeInv
    <2>7. QED
        BY <1>4, <2>1, <2>2, <2>3, <2>4, <2>5, <2>6 DEF Collect
<1>5. ASSUME NEW s \in Sources, NEW x \in Things, Judge(s, x) PROVE RangeInv'
    <2>1. out' \in [Sources -> SUBSET Things]
        BY <1>5 DEF Judge, RangeInv
    <2>2. faults' \in 0..MaxFaults
        BY <1>5, FaultStep DEF Judge
    <2>3. lost' \subseteq Things
        BY <1>5 DEF Judge, Dropped, RangeInv
    <2>4. saved' \subseteq Kept /\ told' \subseteq saved' /\ seen' \subseteq {Fingerprint[y] : y \in Things}
        BY <1>5 DEF Judge, RangeInv
    <2>5. QED
        BY <1>5, <2>1, <2>2, <2>3, <2>4 DEF Judge, RangeInv
<1>6. CASE UNCHANGED vars
    BY <1>6 DEF vars, process, history, RangeInv
<1>7. QED
    BY <1>1, <1>2, <1>3, <1>4, <1>5, <1>6 DEF Next, Step

\* The cursors of a round's sources hold what their kind of source puts there,
\* although they share one file, are flushed in any order and survive crashes.
THEOREM TypeCorrect == Spec => []TypeOK
<1>1. RangeInv /\ PlacesInv => TypeOK
    BY DEF RangeInv, PlacesInv, TypeOK
<1>2. QED
    BY <1>1, WalkInit, WalkStep, NewsInit, NewsStep, PlacesInit, PlacesStep, RangeInit, RangeStep,
       PTL DEF Spec
-----------------------------------------------------------------------------
(***************************************************************************)
(* The calendar                                                            *)
(***************************************************************************)
LeapDay(y) == IF Leap(y) THEN 1 ELSE 0
NewYear(y) == DayNumber(y, 1, 1)

\* A year is as long as its months.
LEMMA YearLength ==
    ASSUME NEW y \in Nat
    PROVE  NewYear(y) \in Int /\ NewYear(y + 1) = NewYear(y) + 365 + LeapDay(y)
<1> DEFINE a == (y - 1) \div 4  b == (y - 1) \div 100  c == (y - 1) \div 400
           p == y \div 4        q == y \div 100        r == y \div 400
<1>1. a \in Int /\ b \in Int /\ c \in Int /\ p \in Int /\ q \in Int /\ r \in Int
    OBVIOUS
<1>2. p = a + (IF y % 4 = 0 THEN 1 ELSE 0)
    OBVIOUS
<1>3. q = b + (IF y % 100 = 0 THEN 1 ELSE 0)
    OBVIOUS
<1>4. r = c + (IF y % 400 = 0 THEN 1 ELSE 0)
    OBVIOUS
<1>5. (y % 400 = 0 => y % 100 = 0) /\ (y % 100 = 0 => y % 4 = 0)
    OBVIOUS
<1>6. DaysBefore(y, 1) = 0 /\ DaysBefore(y + 1, 1) = 0
    BY DEF DaysBefore
<1>7. NewYear(y) = 365 * y + a - b + c + 1
    BY <1>1, <1>6 DEF NewYear, DayNumber
<1>8. NewYear(y + 1) = 365 * (y + 1) + p - q + r + 1
    <2>1. (y + 1) - 1 = y
        OBVIOUS
    <2>2. QED
        BY <1>1, <1>6, <2>1 DEF NewYear, DayNumber
<1> HIDE DEF a, b, c, p, q, r
<1>9. LeapDay(y) = (IF y % 4 = 0 THEN 1 ELSE 0) - (IF y % 100 = 0 THEN 1 ELSE 0)
                   + (IF y % 400 = 0 THEN 1 ELSE 0)
    BY <1>5 DEF LeapDay, Leap
<1>10. QED
    BY <1>1, <1>2, <1>3, <1>4, <1>7, <1>8, <1>9

LEMMA Twelve == \A m \in 1..12 : \/ m = 1 \/ m = 2 \/ m = 3 \/ m = 4 \/ m = 5 \/ m = 6
                                 \/ m = 7 \/ m = 8 \/ m = 9 \/ m = 10 \/ m = 11 \/ m = 12
OBVIOUS

\* The days before a month, outside and inside a leap year.
CommonDays(m) == <<0, 31, 59, 90, 120, 151, 181, 212, 243, 273, 304, 334>>[m]
CommonLength(m) == <<31, 28, 31, 30, 31, 30, 31, 31, 30, 31, 30, 31>>[m]

LEMMA CommonYear ==
    ASSUME NEW m \in 1..12
    PROVE  /\ CommonDays(m) \in Nat /\ CommonLength(m) \in Nat
           /\ CommonDays(m) + CommonLength(m) <= 365
           /\ m <= 2 => CommonDays(m) + CommonLength(m) <= 59
           /\ m = 2 => CommonDays(m) = 31 /\ CommonLength(m) = 28
BY Twelve DEF CommonDays, CommonLength

\* A date that exists lies in its year.
LEMMA DayInYear ==
    ASSUME NEW y \in Nat, NEW m \in Nat, NEW d \in Nat, Possible(y, m, d)
    PROVE  /\ DayNumber(y, m, d) \in Int
           /\ NewYear(y) <= DayNumber(y, m, d) /\ DayNumber(y, m, d) < NewYear(y + 1)
<1>1. m \in 1..12 /\ d >= 1
    BY DEF Possible
<1>2. DaysBefore(y, m) = CommonDays(m) + (IF m > 2 THEN LeapDay(y) ELSE 0)
    BY <1>1, CommonYear DEF DaysBefore, CommonDays, LeapDay
<1>0. /\ CommonDays(m) \in Nat /\ CommonLength(m) \in Nat
      /\ CommonDays(m) + CommonLength(m) <= 365
      /\ m <= 2 => CommonDays(m) + CommonLength(m) <= 59
    BY <1>1, CommonYear
<1>3. d <= CommonLength(m) + (IF m = 2 THEN LeapDay(y) ELSE 0)
    BY <1>1, CommonYear DEF Possible, MonthLength, CommonLength, LeapDay
<1>4. LeapDay(y) \in 0..1
    BY DEF LeapDay
<1>5. DayNumber(y, m, d) = NewYear(y) + DaysBefore(y, m) + d - 1
    <2>1. DaysBefore(y, 1) = 0
        BY DEF DaysBefore
    <2>2. DaysBefore(y, m) \in Int
        BY <1>0, <1>2, <1>4
    <2>3. 365 * y + (y - 1) \div 4 - (y - 1) \div 100 + (y - 1) \div 400 \in Int
        OBVIOUS
    <2>4. QED
        BY <2>1, <2>2, <2>3 DEF NewYear, DayNumber
<1> DEFINE D == CommonDays(m)  L == CommonLength(m)  k == LeapDay(y)  b == DaysBefore(y, m)
<1>n. /\ D \in Nat /\ L \in Nat /\ D + L <= 365 /\ k \in 0..1
      /\ m <= 2 => D + L <= 59
      /\ b = D + (IF m > 2 THEN k ELSE 0) /\ d <= L + (IF m = 2 THEN k ELSE 0)
    BY <1>0, <1>2, <1>3, <1>4
<1> HIDE DEF D, L, k, b
<1>6. b + d <= 365 + k /\ b \in Nat
    BY <1>1, <1>n
<1>7. DayNumber(y, m, d) = NewYear(y) + b + d - 1 /\ NewYear(y + 1) = NewYear(y) + 365 + k
    BY <1>5, YearLength DEF b, k
<1>8. NewYear(y) \in Int
    BY YearLength
<1>9. QED
    BY <1>1, <1>6, <1>7, <1>8, <1>n

\* The same date a year later is at least 365 days later.
LEMMA DateNextYear ==
    ASSUME NEW y \in Nat, NEW m \in 1..12, NEW d \in Nat
    PROVE  DayNumber(y + 1, m, d) >= DayNumber(y, m, d) + 365
<1>0. CommonDays(m) \in Nat
    BY CommonYear
<1>1. \A n \in Nat : /\ DaysBefore(n, m) = CommonDays(m) + (IF m > 2 THEN LeapDay(n) ELSE 0)
                     /\ LeapDay(n) \in 0..1
    BY CommonYear DEF DaysBefore, CommonDays, LeapDay
<1>2. \A n \in Nat : DayNumber(n, m, d) = NewYear(n) + DaysBefore(n, m) + d - 1
    <2> SUFFICES ASSUME NEW n \in Nat
                 PROVE  DayNumber(n, m, d) = NewYear(n) + DaysBefore(n, m) + d - 1
        OBVIOUS
    <2>1. DaysBefore(n, 1) = 0
        BY DEF DaysBefore
    <2>2. DaysBefore(n, m) \in Int
        BY <1>0, <1>1
    <2>3. 365 * n + (n - 1) \div 4 - (n - 1) \div 100 + (n - 1) \div 400 \in Int
        OBVIOUS
    <2>4. QED
        BY <2>1, <2>2, <2>3 DEF NewYear, DayNumber
<1> DEFINE D == CommonDays(m)  k == LeapDay(y)  l == LeapDay(y + 1)
           N == NewYear(y)  M == NewYear(y + 1)
<1>3. D \in Nat /\ k \in 0..1 /\ l \in 0..1 /\ N \in Int /\ M = N + 365 + k
    BY <1>0, <1>1, YearLength
<1>4. /\ DayNumber(y, m, d) = N + (D + (IF m > 2 THEN k ELSE 0)) + d - 1
      /\ DayNumber(y + 1, m, d) = M + (D + (IF m > 2 THEN l ELSE 0)) + d - 1
    BY <1>1, <1>2
<1> HIDE DEF D, k, l, N, M
<1>5. QED
    BY <1>3, <1>4

\* The clock behind a date is a minute of a day, whatever its digits say.
LEMMA ClockInDay ==
    ASSUME NEW clock \in Seq(ClockTimes)
    PROVE  ClockAfter(clock) \in 0..EndOfDay
<1>1. EndOfDay = 1439
    BY DEF EndOfDay, DayMinutes
<1>2. CASE clock = <<>> \/ clock[1].hour > 24
    BY <1>1, <1>2 DEF ClockAfter
<1>3. CASE ~(clock = <<>> \/ clock[1].hour > 24)
    <2> DEFINE k == clock[1]
    <2>1. k \in ClockTimes
        BY <1>3
    <2>2. k.hour \in Nat /\ k.min \in Nat /\ k.hour <= 24
        <3>1. k.hour \in Nat /\ k.min \in Nat
            BY <2>1 DEF ClockTimes
        <3>2. ~(k.hour > 24)
            BY <1>3
        <3>3. QED
            BY <3>1, <3>2
    <2>3. Hour(k) \in Nat /\ Hour(k) <= 24
        BY <2>2 DEF Hour
    <2>4. ClockAfter(clock) = IF Hour(k) = 24 THEN EndOfDay
                              ELSE IF k.min > 59 THEN EndOfDay ELSE Hour(k) * 60 + k.min
        BY <1>3 DEF ClockAfter
    <2> DEFINE h == Hour(k)  q == k.min
    <2>5. h \in Nat /\ h <= 24 /\ q \in Nat
        BY <2>2, <2>3
    <2>6. ClockAfter(clock) = IF h = 24 THEN 1439 ELSE IF q > 59 THEN 1439 ELSE h * 60 + q
        BY <1>1, <2>4
    <2> HIDE DEF h, q
    <2>7. QED
        BY <1>1, <2>5, <2>6
<1>4. QED
    BY <1>2, <1>3

\* A moment lies in its year.
LEMMA MomentInYear ==
    ASSUME NEW c \in Moments
    PROVE  /\ c.year \in Nat \ {0} /\ Instant(c) \in Int
           /\ NewYear(c.year) * 1440 <= Instant(c) /\ Instant(c) < NewYear(c.year + 1) * 1440
<1>1. /\ c.year \in Nat \ {0} /\ c.month \in Nat /\ c.day \in Nat /\ c.minute \in 0..1438
      /\ Possible(c.year, c.month, c.day)
    BY DEF Moments, EndOfDay, DayMinutes
<1> DEFINE n == DayNumber(c.year, c.month, c.day)
<1>2. n \in Int /\ NewYear(c.year) <= n /\ n < NewYear(c.year + 1)
    BY <1>1, DayInYear
<1>3. NewYear(c.year) \in Int /\ NewYear(c.year + 1) \in Int
    BY <1>1, YearLength
<1> DEFINE q == c.minute  Y == NewYear(c.year)  Z == NewYear(c.year + 1)  i == Instant(c)
<1>4. i = n * 1440 + q /\ q \in 0..1438 /\ Y \in Int /\ Z \in Int /\ n \in Int /\ Y <= n /\ n < Z
    BY <1>1, <1>2, <1>3 DEF Instant, Minutes, DayMinutes
<1> HIDE DEF n, q, Y, Z, i
<1>5. i \in Int /\ Y * 1440 <= i /\ i < Z * 1440
    BY <1>4
<1>6. QED
    BY <1>1, <1>5 DEF i, Y, Z

\* The dates a phrase without a year may mean, and those ahead of the anchor.
SuchDates(month, day, clock, anchor) ==
    {Minutes(y, month, day, ClockAfter(clock)) :
        y \in {n \in (anchor.year - 1)..(anchor.year + 2) : Possible(n, month, day)}}
Ahead(month, day, clock, anchor) ==
    {i \in SuchDates(month, day, clock, anchor) :
        i >= Instant(anchor) /\ i <= Instant(anchor) + YearlessSpan}

\* Where 29 February is a date in the next year only, it is not near.
LEMMA LeapDayIsFar ==
    ASSUME NEW y \in Nat, NEW m \in Nat, NEW d \in Nat,
           ~Possible(y, m, d), Possible(y + 1, m, d)
    PROVE  DayNumber(y + 1, m, d) >= NewYear(y + 1) + 59
<1>1. m \in 1..12 /\ d >= 1
    BY DEF Possible
<1>2. m = 2 /\ d = 29 /\ Leap(y + 1)
    <2>1. m # 2 => MonthLength(y, m) = MonthLength(y + 1, m)
        BY DEF MonthLength
    <2>2. m = 2 /\ MonthLength(y, 2) # MonthLength(y + 1, 2) /\ d <= MonthLength(y + 1, 2)
          /\ d > MonthLength(y, 2)
        <3>1. MonthLength(y, m) \in Nat
            <4>1. MonthLength(y, m) = CommonLength(m) + (IF m = 2 THEN LeapDay(y) ELSE 0)
                BY <1>1, CommonYear DEF MonthLength, CommonLength, LeapDay
            <4>2. CommonLength(m) \in Nat
                BY <1>1, CommonYear
            <4>3. QED
                BY <4>1, <4>2 DEF LeapDay
        <3>2. QED
            BY <1>1, <2>1, <3>1 DEF Possible
    <2>3. MonthLength(y, 2) \in {28, 29} /\ MonthLength(y + 1, 2) = IF Leap(y + 1) THEN 29 ELSE 28
        BY DEF MonthLength
    <2>4. QED
        BY <2>2, <2>3
<1>3. DaysBefore(y + 1, 2) = 31 /\ DaysBefore(y + 1, 1) = 0
    BY DEF DaysBefore
<1>4. 365 * (y + 1) + ((y + 1) - 1) \div 4 - ((y + 1) - 1) \div 100 + ((y + 1) - 1) \div 400 \in Int
    OBVIOUS
<1>5. DayNumber(y + 1, m, d) = NewYear(y + 1) + 31 + d - 1 /\ NewYear(y + 1) \in Int
    BY <1>2, <1>3, <1>4 DEF NewYear, DayNumber
<1>6. QED
    BY <1>2, <1>5

\* A date without a year is read as the one such date in the 45 days ahead, or as
\* none where there is none.
LEMMA YearlessReading ==
    ASSUME NEW m \in Nat, NEW d \in Nat, NEW clock \in Seq(ClockTimes), NEW anchor \in Moments
    PROVE  IF Ahead(m, d, clock, anchor) = {}
           THEN YearlessDeadline(m, d, clock, anchor) = None
           ELSE {YearlessDeadline(m, d, clock, anchor)} = Ahead(m, d, clock, anchor)
<1> DEFINE y == anchor.year  a == Instant(anchor)  c == ClockAfter(clock)
           due(i) == Minutes(i, m, d, c)
           May(i) == Possible(i, m, d)
           N0 == DayNumber(y - 1, m, d)  N1 == DayNumber(y, m, d)
           N2 == DayNumber(y + 1, m, d)  N3 == DayNumber(y + 2, m, d)
           Y1 == NewYear(y)  Y2 == NewYear(y + 1)  Y3 == NewYear(y + 2)
<1>1. y \in Nat \ {0} /\ a \in Int /\ Y1 * 1440 <= a /\ a < Y2 * 1440
    BY MomentInYear
<1>y. /\ y - 1 \in Nat /\ y \in Nat /\ y + 1 \in Nat /\ y + 2 \in Nat
      /\ (y - 1) + 1 = y /\ (y + 1) + 1 = y + 2
    BY <1>1
<1>2. c \in 0..1439
    <2>1. EndOfDay = 1439
        BY DEF EndOfDay, DayMinutes
    <2>2. c \in 0..EndOfDay
        BY ClockInDay
    <2> HIDE DEF c
    <2>3. QED
        BY <2>1, <2>2
<1>3. Y1 \in Int /\ Y2 \in Int /\ Y3 \in Int /\ Y3 >= Y2 + 365
    <2>1. Y1 \in Int /\ Y2 \in Int /\ Y3 \in Int
        BY <1>y, YearLength
    <2>2. LeapDay(y + 1) \in 0..1
        BY DEF LeapDay
    <2>3. Y3 = Y2 + 365 + LeapDay(y + 1)
        BY <1>y, YearLength
    <2> DEFINE l == LeapDay(y + 1)
    <2>4. l \in 0..1 /\ Y3 = Y2 + 365 + l
        BY <2>2, <2>3
    <2> HIDE DEF Y1, Y2, Y3, l
    <2>5. QED
        BY <2>1, <2>4
<1>4. /\ May(y - 1) => N0 \in Int /\ N0 < Y1
      /\ May(y) => N1 \in Int
      /\ May(y + 1) => N2 \in Int /\ N2 >= Y2
      /\ May(y + 2) => N3 \in Int /\ N3 >= Y3
    <2>1. May(y - 1) => N0 \in Int /\ N0 < Y1
        BY <1>y, DayInYear
    <2>2. May(y) => N1 \in Int
        BY <1>y, DayInYear
    <2>3. May(y + 1) => N2 \in Int /\ Y2 <= N2
        BY <1>y, DayInYear
    <2>4. May(y + 2) => N3 \in Int /\ Y3 <= N3
        BY <1>y, DayInYear
    <2> HIDE DEF N0, N1, N2, N3, Y1, Y2, Y3, May
    <2>5. QED
        BY <1>3, <2>1, <2>2, <2>3, <2>4
<1>5. /\ due(y - 1) = N0 * 1440 + c /\ due(y) = N1 * 1440 + c
      /\ due(y + 1) = N2 * 1440 + c /\ due(y + 2) = N3 * 1440 + c
    BY DEF Minutes, DayMinutes
<1>6. May(y + 1) /\ ~May(y) => N2 >= Y2 + 59
    BY <1>y, LeapDayIsFar
<1>7. May(y) => N2 >= N1 + 365
    <2>1. May(y) => m \in 1..12
        BY DEF Possible
    <2>2. QED
        BY <1>y, <2>1, DateNextYear
<1> DEFINE d0 == due(y - 1)  d1 == due(y)  d2 == due(y + 1)  d3 == due(y + 2)
           m0 == May(y - 1)  m1 == May(y)  m2 == May(y + 1)  m3 == May(y + 2)
           read == YearlessDeadline(m, d, clock, anchor)
           near == Ahead(m, d, clock, anchor)
<1>8. read = IF ~m1 THEN None
             ELSE IF d1 < a
                  THEN IF ~m2 \/ d2 > a + 64800 THEN None ELSE d2
                  ELSE IF ~m1 \/ d1 > a + 64800 THEN None ELSE d1
    BY DEF YearlessDeadline, YearlessSpan, DayMinutes
<1>9. \A i : i \in near <=> /\ \/ m0 /\ i = d0
                               \/ m1 /\ i = d1
                               \/ m2 /\ i = d2
                               \/ m3 /\ i = d3
                            /\ i >= a /\ i <= a + 64800
    <2> DEFINE R == (y - 1)..(y + 2)  k0 == y - 1  k2 == y + 1  k3 == y + 2
    <2>1. \A k : k \in R <=> k = k0 \/ k = y \/ k = k2 \/ k = k3
        BY <1>y
    <2>2. \A i : i \in SuchDates(m, d, clock, anchor) <=> \E k \in R : May(k) /\ i = due(k)
        BY DEF SuchDates
    <2>3. YearlessSpan = 64800
        BY DEF YearlessSpan, DayMinutes
    <2>4. near = {i \in SuchDates(m, d, clock, anchor) : i >= a /\ i <= a + 64800}
        BY <2>3 DEF Ahead
    <2>a. /\ d0 = due(k0) /\ d1 = due(y) /\ d2 = due(k2) /\ d3 = due(k3)
          /\ m0 = May(k0) /\ m1 = May(y) /\ m2 = May(k2) /\ m3 = May(k3)
        OBVIOUS
    <2> HIDE DEF a, due, May, near, y, R, k0, k2, k3, d0, d1, d2, d3, m0, m1, m2, m3
    <2>5. \A i : i \in SuchDates(m, d, clock, anchor) <=> \/ m0 /\ i = d0
                                                          \/ m1 /\ i = d1
                                                          \/ m2 /\ i = d2
                                                          \/ m3 /\ i = d3
        BY <2>1, <2>2, <2>a
    <2>6. QED
        BY <2>4, <2>5
<1>10. /\ d0 = N0 * 1440 + c /\ d1 = N1 * 1440 + c /\ d2 = N2 * 1440 + c /\ d3 = N3 * 1440 + c
       /\ m0 => N0 \in Int /\ N0 < Y1
       /\ m1 => N1 \in Int
       /\ m2 => N2 \in Int /\ N2 >= Y2
       /\ m3 => N3 \in Int /\ N3 >= Y3
       /\ m2 /\ ~m1 => N2 >= Y2 + 59
       /\ m1 => N2 >= N1 + 365
    BY <1>4, <1>5, <1>6, <1>7
<1>11. m0 \in BOOLEAN /\ m1 \in BOOLEAN /\ m2 \in BOOLEAN /\ m3 \in BOOLEAN
    BY DEF Possible
<1> HIDE DEF N0, N1, N2, N3, Y1, Y2, Y3, d0, d1, d2, d3, m0, m1, m2, m3, read, near, a, c, due, May, y
<1>n. /\ a \in Int /\ Y1 \in Int /\ Y2 \in Int /\ Y3 \in Int /\ c \in 0..1439
      /\ Y1 * 1440 <= a /\ a < Y2 * 1440 /\ Y3 >= Y2 + 365
    BY <1>1, <1>2, <1>3
<1>12. ASSUME m0 PROVE d0 \in Int /\ d0 < a
    <2>1. N0 \in Int /\ N0 < Y1 /\ d0 = N0 * 1440 + c
        BY <1>10, <1>12
    <2>2. QED
        BY <1>n, <2>1
<1>13. ASSUME m2 PROVE d2 \in Int /\ d2 >= a
    <2>1. N2 \in Int /\ N2 >= Y2 /\ d2 = N2 * 1440 + c
        BY <1>10, <1>13
    <2>2. QED
        BY <1>n, <2>1
<1>14. ASSUME m3 PROVE d3 \in Int /\ d3 > a + 64800
    <2>1. N3 \in Int /\ N3 >= Y3 /\ d3 = N3 * 1440 + c
        BY <1>10, <1>14
    <2>2. QED
        BY <1>n, <2>1
<1>15. ASSUME m2, ~m1 PROVE d2 > a + 64800
    <2>1. N2 \in Int /\ N2 >= Y2 + 59 /\ d2 = N2 * 1440 + c
        BY <1>10, <1>15
    <2>2. QED
        BY <1>n, <2>1
<1>16. ASSUME m1, m2 PROVE d2 >= d1 + 525600
    <2>1. /\ N1 \in Int /\ N2 \in Int /\ N2 >= N1 + 365
          /\ d1 = N1 * 1440 + c /\ d2 = N2 * 1440 + c
        BY <1>10, <1>16
    <2>2. QED
        BY <1>n, <2>1
<1>17. ASSUME m1 PROVE d1 \in Int
    <2>1. N1 \in Int /\ d1 = N1 * 1440 + c
        BY <1>10, <1>17
    <2>2. QED
        BY <1>n, <2>1
\* Of the four dates only this year's and the next one's can be near.
<1>18. ~(m0 /\ d0 >= a) /\ ~(m3 /\ d3 <= a + 64800)
    <2>1. m0 => ~(d0 >= a)
        BY <1>n, <1>12
    <2>2. m3 => ~(d3 <= a + 64800)
        BY <1>n, <1>14
    <2>3. QED
        BY <2>1, <2>2
<1>19. \A i : i \in near <=> \/ m1 /\ i = d1 /\ d1 >= a /\ d1 <= a + 64800
                             \/ m2 /\ i = d2 /\ d2 <= a + 64800
    BY <1>9, <1>13, <1>18
<1> DEFINE Reads == IF near = {} THEN read = None ELSE {read} = near
<1>20. ASSUME ~m1 PROVE Reads
    <2>1. m2 => ~(d2 <= a + 64800)
        BY <1>n, <1>13, <1>15, <1>20
    <2>2. QED
        BY <1>8, <1>19, <1>20, <2>1
<1>21. ASSUME m1, d1 >= a PROVE Reads
    <2>1. d1 \in Int /\ ~(d1 < a)
        BY <1>n, <1>17, <1>21
    <2>2. m2 => ~(d2 <= a + 64800)
        <3>1. ASSUME m2 PROVE ~(d2 <= a + 64800)
            <4>1. d2 \in Int /\ d2 >= d1 + 525600
                BY <1>13, <1>16, <1>21, <3>1
            <4>2. QED
                BY <1>n, <1>21, <2>1, <4>1
        <3>2. QED
            BY <3>1
    <2>3. d1 <= a + 64800 <=> ~(d1 > a + 64800)
        BY <1>n, <2>1
    <2>4. QED
        BY <1>8, <1>19, <1>21, <2>1, <2>2, <2>3
<1>22. ASSUME m1, ~(d1 >= a) PROVE Reads
    <2>1. d1 < a
        BY <1>n, <1>17, <1>22
    <2>2. m2 => (d2 <= a + 64800 <=> ~(d2 > a + 64800))
        BY <1>n, <1>13
    <2>3. QED
        BY <1>8, <1>19, <1>22, <2>1, <2>2
<1>23. QED
    BY <1>20, <1>21, <1>22 DEF read, near
-----------------------------------------------------------------------------
(***************************************************************************)
(* The score                                                               *)
(***************************************************************************)
\* A non-empty set of naturals has a least element, and Min is it.
LEMMA MinOfNaturals ==
    ASSUME NEW T \in SUBSET Nat, T # {}
    PROVE  Min(T) \in T /\ \A y \in T : Min(T) <= y
<1> DEFINE U == {0..t : t \in T}
<1>1. U \subseteq FiniteSubsetsOf(Nat) /\ U # {}
  <2>1. \A t \in T : 0..t \subseteq Nat /\ IsFiniteSet(0..t)
      BY FS_Interval
  <2>2. QED
      BY <2>1 DEF FiniteSubsetsOf
<1>2. PICK m \in U : \A u \in U : ~(<<u, m>> \in StrictSubsetOrdering(Nat))
    BY <1>1, FS_StrictSubsetOrderingWellFounded, WFMin
<1>3. PICK x \in T : m = 0..x
    OBVIOUS
<1>4. \A y \in T : x <= y
  <2> SUFFICES ASSUME NEW y \in T, y < x PROVE FALSE
      OBVIOUS
  <2>1. 0..y \subseteq 0..x /\ 0..y # 0..x /\ 0..y \in U
    <3>1. x \in 0..x /\ x \notin 0..y
        OBVIOUS
    <3>2. QED
        BY <3>1
  <2>2. 0..y \subseteq Nat /\ 0..x \subseteq Nat
      OBVIOUS
  <2>3. QED
      BY <1>2, <1>3, <2>1, <2>2 DEF StrictSubsetOrdering
<1>5. QED
    BY <1>4 DEF Min

\* ... and a bounded one has a greatest, and Max is it.
LEMMA MaxOfNaturals ==
    ASSUME NEW n \in Nat, NEW T \in SUBSET (0..n), T # {}
    PROVE  Max(T) \in T /\ \A y \in T : Max(T) >= y
<1> DEFINE U == {m \in Nat : n - m \in T}
<1>1. U \in SUBSET Nat /\ U # {}
  <2>1. PICK t \in T : TRUE
      OBVIOUS
  <2>2. n - t \in Nat /\ n - (n - t) = t
      BY <2>1
  <2>3. QED
      BY <2>1, <2>2
<1>2. Min(U) \in U /\ \A y \in U : Min(U) <= y
    BY <1>1, MinOfNaturals
<1>3. n - Min(U) \in T
    BY <1>2
<1>4. \A y \in T : n - Min(U) >= y
  <2> TAKE y \in T
  <2>1. n - y \in Nat /\ n - (n - y) = y
      OBVIOUS
  <2>2. n - y \in U
      BY <2>1
  <2>3. Min(U) \in Nat /\ Min(U) <= n - y
      BY <1>2, <2>2
  <2>4. QED
      BY <2>3, <2>1
<1>5. QED
    BY <1>3, <1>4 DEF Max

\* A price cut is a percentage, and the more cuts are stated the larger it is.
LEMMA CutGrows ==
    ASSUME NEW f, NEW g, f.zhe \in Nat, g.zhe = f.zhe,
           f.percents \subseteq g.percents, g.percents \subseteq Nat
    PROVE  /\ DiscountPct(f) \in 0..100 /\ DiscountPct(g) \in 0..100
           /\ DiscountPct(f) <= DiscountPct(g)
<1> DEFINE Cuts(h) == {0} \union (IF h.zhe \in 1..9 THEN {(10 - h.zhe) * 10} ELSE {})
                          \union {n \in h.percents : n \in 5..100}
<1>1. Cuts(f) \subseteq 0..100 /\ Cuts(g) \subseteq 0..100 /\ 0 \in Cuts(f) /\ 0 \in Cuts(g)
    OBVIOUS
<1>2. Cuts(f) \subseteq Cuts(g)
    OBVIOUS
<1>3. DiscountPct(f) = Max(Cuts(f)) /\ DiscountPct(g) = Max(Cuts(g))
    BY DEF DiscountPct
<1> HIDE DEF Cuts
<1>4. 100 \in Nat /\ Cuts(f) \in SUBSET (0..100) /\ Cuts(g) \in SUBSET (0..100)
      /\ Cuts(f) # {} /\ Cuts(g) # {}
    BY <1>1
<1>5. Max(Cuts(f)) \in Cuts(f)
    BY <1>4, MaxOfNaturals
<1>6. Max(Cuts(g)) \in Cuts(g) /\ \A y \in Cuts(g) : Max(Cuts(g)) >= y
    BY <1>4, MaxOfNaturals
<1> DEFINE p == Max(Cuts(f))  q == Max(Cuts(g))
<1>7. p \in 0..100 /\ q \in 0..100 /\ q >= p
    BY <1>1, <1>2, <1>5, <1>6
<1> HIDE DEF p, q
<1>8. p <= q
    BY <1>7
<1>9. QED
    BY <1>3, <1>7, <1>8 DEF p, q

LEMMA BonusGrows ==
    ASSUME NEW p \in 0..100, NEW q \in 0..100, p <= q
    PROVE  /\ DiscountBonus(p) \in 0..12 /\ DiscountBonus(q) \in 0..12
           /\ DiscountBonus(p) <= DiscountBonus(q)
BY DEF DiscountBonus

LEMMA OfferValueGrows ==
    ASSUME NEW K, NEW L, K \subseteq L
    PROVE  /\ OfferValue(K) \in 0..45 /\ OfferValue(L) \in 0..45
           /\ OfferValue(K) <= OfferValue(L)
           /\ "free" \in K => OfferValue(K) = 45
           /\ "free" \in L => OfferValue(L) = 45
           /\ "free" \notin K => OfferValue(K) <= 30
           /\ "free" \notin L => OfferValue(L) <= 30
BY DEF OfferValue

\* A further kind of offer or a deeper cut is worth no less, although a stated
\* cut alone is worth as much as a discount.
LEMMA OfferedGrows ==
    ASSUME NEW f, NEW g, f.zhe \in Nat, g.zhe = f.zhe,
           f.percents \subseteq g.percents, g.percents \subseteq Nat,
           f.kinds \subseteq g.kinds
    PROVE  Offered(f) \in Nat /\ Offered(g) \in Nat /\ Offered(f) <= Offered(g)
<1> DEFINE p == DiscountPct(f)  q == DiscountPct(g)  b == DiscountBonus(p)  c == DiscountBonus(q)
           v == OfferValue(f.kinds)  w == OfferValue(g.kinds)
           free == "free" \in f.kinds  frei == "free" \in g.kinds
<1>1. p \in 0..100 /\ q \in 0..100 /\ p <= q
    BY CutGrows
<1>2. b \in 0..12 /\ c \in 0..12 /\ b <= c
    <2> HIDE DEF p, q
    <2>1. QED
        BY <1>1, BonusGrows
<1>3. /\ v \in 0..45 /\ w \in 0..45 /\ v <= w
      /\ free => v = 45
      /\ frei => w = 45
      /\ ~free => v <= 30
      /\ ~frei => w <= 30
      /\ free => frei
    BY OfferValueGrows
<1>4. /\ Offered(f) = IF ~free /\ p > 0 /\ b + v < 24 THEN 24 ELSE b + v
      /\ Offered(g) = IF ~frei /\ q > 0 /\ c + w < 24 THEN 24 ELSE c + w
    BY DEF Offered
<1> HIDE DEF p, q, b, c, v, w, free, frei
<1>5. CASE free
    <2>1. frei /\ v = 45 /\ w = 45 /\ Offered(f) = b + v /\ Offered(g) = c + w
        BY <1>3, <1>4, <1>5
    <2>2. QED
        BY <1>2, <2>1
<1>6. CASE ~free /\ frei
    <2>1. v <= 30 /\ w = 45 /\ Offered(g) = c + w
        BY <1>3, <1>4, <1>6
    <2>2. QED
        BY <1>2, <1>3, <1>4, <1>6, <2>1
<1>7. CASE ~free /\ ~frei
    <2>1. /\ Offered(f) = IF p > 0 /\ b + v < 24 THEN 24 ELSE b + v
          /\ Offered(g) = IF q > 0 /\ c + w < 24 THEN 24 ELSE c + w
        BY <1>4, <1>7
    <2>2. QED
        BY <1>1, <1>2, <1>3, <2>1
<1>8. QED
    BY <1>5, <1>6, <1>7

\* What adds to the score adds up.
LEMMA ScoreGrows ==
    ASSUME NEW f, NEW g,
           Offered(f) \in Int, Offered(g) \in Int, Offered(f) <= Offered(g),
           f.vendor => g.vendor, f.product => g.product, f.official => g.official,
           f.trust \in Int, g.trust \in Int, f.trust <= g.trust,
           f.offers \in Int, g.offers \in Int, f.offers <= g.offers,
           Freshness(f) \in Int, Freshness(g) \in Int, Freshness(f) <= Freshness(g)
    PROVE  Score(g) >= Score(f)
<1> DEFINE a(h) == Offered(h)       b(h) == If(h.vendor, 10)  c(h) == If(h.product, 12)
           d(h) == If(h.official, 10)  e(h) == Clamp(h.trust, 0, 10)
           o(h) == If(h.offers > 1, 4)  r(h) == Freshness(h)
           t(h) == a(h) + b(h) + c(h) + d(h) + e(h) + o(h) + r(h)
<1>1. Score(f) = Clamp(t(f), 0, 100) /\ Score(g) = Clamp(t(g), 0, 100)
    BY DEF Score
<1>2. /\ b(f) \in Int /\ b(g) \in Int /\ b(f) <= b(g)
      /\ c(f) \in Int /\ c(g) \in Int /\ c(f) <= c(g)
      /\ d(f) \in Int /\ d(g) \in Int /\ d(f) <= d(g)
    BY DEF If
<1>3. e(f) \in Int /\ e(g) \in Int /\ e(f) <= e(g)
    <2> DEFINE x == f.trust  y == g.trust
    <2>1. x \in Int /\ y \in Int /\ x <= y
        OBVIOUS
    <2> HIDE DEF x, y
    <2>2. Clamp(x, 0, 10) \in Int /\ Clamp(y, 0, 10) \in Int /\ Clamp(x, 0, 10) <= Clamp(y, 0, 10)
        BY <2>1 DEF Clamp
    <2>3. QED
        BY <2>2 DEF x, y
<1>4. o(f) \in Int /\ o(g) \in Int /\ o(f) <= o(g)
    <2>1. f.offers > 1 => g.offers > 1
        OBVIOUS
    <2>2. QED
        BY <2>1 DEF If
<1> DEFINE T == t(f)  U == t(g)
<1>5. T \in Int /\ U \in Int /\ T <= U
    <2>1. a(f) \in Int /\ a(g) \in Int /\ a(f) <= a(g) /\ r(f) \in Int /\ r(g) \in Int /\ r(f) <= r(g)
        OBVIOUS
    <2> DEFINE a1 == a(f) b1 == b(f) c1 == c(f) d1 == d(f) e1 == e(f) o1 == o(f) r1 == r(f)
               a2 == a(g) b2 == b(g) c2 == c(g) d2 == d(g) e2 == e(g) o2 == o(g) r2 == r(g)
    <2>2. /\ a1 \in Int /\ b1 \in Int /\ c1 \in Int /\ d1 \in Int /\ e1 \in Int /\ o1 \in Int /\ r1 \in Int
          /\ a2 \in Int /\ b2 \in Int /\ c2 \in Int /\ d2 \in Int /\ e2 \in Int /\ o2 \in Int /\ r2 \in Int
          /\ a1 <= a2 /\ b1 <= b2 /\ c1 <= c2 /\ d1 <= d2 /\ e1 <= e2 /\ o1 <= o2 /\ r1 <= r2
        BY <1>2, <1>3, <1>4, <2>1
    <2>3. T = a1 + b1 + c1 + d1 + e1 + o1 + r1 /\ U = a2 + b2 + c2 + d2 + e2 + o2 + r2
        OBVIOUS
    <2> HIDE DEF T, U, a1, b1, c1, d1, e1, o1, r1, a2, b2, c2, d2, e2, o2, r2
    <2>4. QED
        BY <2>2, <2>3
<1> HIDE DEF T, U
<1>6. Clamp(U, 0, 100) >= Clamp(T, 0, 100)
    BY <1>5 DEF Clamp
<1>7. QED
    BY <1>1, <1>6 DEF T, U

\* The younger a finding, the fresher.
LEMMA AgeOfAFinding ==
    ASSUME NEW f \in Candidates, f.published # <<>>
    PROVE  Age(f) \in Int
<1>1. f.published[1] \in Moments /\ f.judged \in Moments
    BY DEF Candidates
<1>2. Instant(f.published[1]) \in Int /\ Instant(f.judged) \in Int
    BY <1>1, MomentInYear
<1>3. QED
    BY <1>2 DEF Age

LEMMA FreshnessGrows ==
    ASSUME NEW f, NEW g, f.published # <<>>, g.published # <<>>,
           Age(f) \in Int, Age(g) \in Int, Age(g) <= Age(f)
    PROVE  Freshness(f) \in Int /\ Freshness(g) \in Int /\ Freshness(f) <= Freshness(g)
<1> DEFINE x == Age(f)  y == Age(g)
           F(a) == IF a <= 1440 THEN 12 ELSE IF a <= 3 * 1440 THEN 8
                   ELSE IF a <= 7 * 1440 THEN 4 ELSE IF a > 30 * 1440 THEN -12 ELSE 0
<1>1. Freshness(f) = F(x) /\ Freshness(g) = F(y)
    BY DEF Freshness, DayMinutes
<1>2. x \in Int /\ y \in Int /\ y <= x
    OBVIOUS
<1> HIDE DEF x, y
<1>3. F(x) \in Int /\ F(y) \in Int /\ F(x) <= F(y)
    BY <1>2
<1>4. QED
    BY <1>1, <1>3

LEMMA FreshnessIsInt ==
    ASSUME NEW f \in Candidates
    PROVE  Freshness(f) \in Int
<1>1. CASE f.published = <<>>
    BY <1>1 DEF Freshness
<1>2. CASE f.published # <<>>
    <2>1. Age(f) \in Int
        BY <1>2, AgeOfAFinding
    <2>2. Age(f) <= Age(f)
        BY <2>1
    <2>3. QED
        BY <1>2, <2>1, <2>2, FreshnessGrows
<1>3. QED
    BY <1>1, <1>2

\* Whatever is added to a finding's evidence, its score does not fall.
LEMMA EvidenceAdds ==
    ASSUME NEW f \in Candidates, NEW g \in Stronger(f)
    PROVE  Score(g) >= Score(f)
<1>1. /\ f.kinds \subseteq STRING /\ f.offers \in Nat /\ f.zhe \in Nat /\ f.percents \subseteq Nat
      /\ f.trust \in Int /\ f.vendor \in BOOLEAN /\ f.product \in BOOLEAN /\ f.official \in BOOLEAN
    BY DEF Candidates
<1>2. Freshness(f) \in Int /\ Freshness(f) <= Freshness(f)
    BY FreshnessIsInt
<1>3. Offered(f) \in Int /\ Offered(f) <= Offered(f)
    <2>1. Offered(f) \in Nat
        BY <1>1, OfferedGrows
    <2>2. QED
        BY <2>1
<1>4. ASSUME g.published = f.published, g.judged = f.judged
      PROVE  Freshness(g) = Freshness(f)
    BY <1>4 DEF Freshness, Age
<1>5. ASSUME g.kinds = f.kinds, g.zhe = f.zhe, g.percents = f.percents
      PROVE  Offered(g) = Offered(f)
    BY <1>5 DEF Offered, DiscountPct
<1>6. ASSUME NEW k \in {"free", "credit", "discount", "trial", "coupon"},
             g = [f EXCEPT !.kinds = @ \union {k}, !.offers = @ + 1]
      PROVE  Score(g) >= Score(f)
    <2>1. /\ g.kinds = f.kinds \union {k} /\ g.offers = f.offers + 1 /\ g.zhe = f.zhe
          /\ g.percents = f.percents /\ g.trust = f.trust /\ g.vendor = f.vendor
          /\ g.product = f.product /\ g.official = f.official
          /\ g.published = f.published /\ g.judged = f.judged
        BY <1>6 DEF Candidates
    <2>2. Offered(g) \in Nat /\ Offered(f) <= Offered(g)
        <3>1. f.kinds \subseteq g.kinds /\ f.percents \subseteq g.percents /\ g.percents \subseteq Nat
            BY <1>1, <2>1
        <3>2. QED
            BY <1>1, <2>1, <3>1, OfferedGrows
    <2>3. f.offers \in Int /\ g.offers \in Int /\ f.offers <= g.offers
        BY <1>1, <2>1
    <2>4. Freshness(g) = Freshness(f)
        BY <1>4, <2>1
    <2>5. f.trust <= g.trust /\ g.trust \in Int
        BY <1>1, <2>1
    <2>6. Freshness(g) \in Int /\ Freshness(f) <= Freshness(g) /\ Offered(g) \in Int
        BY <1>2, <2>2, <2>4
    <2>7. (f.vendor => g.vendor) /\ (f.product => g.product) /\ (f.official => g.official)
        BY <2>1
    <2>8. QED
        BY <1>1, <1>2, <1>3, <2>2, <2>3, <2>5, <2>6, <2>7, ScoreGrows
<1>7. ASSUME \/ g = [f EXCEPT !.vendor = TRUE]
             \/ g = [f EXCEPT !.product = TRUE]
             \/ g = [f EXCEPT !.official = TRUE]
             \/ g = [f EXCEPT !.trust = @ + 1]
             \/ g = [f EXCEPT !.offers = @ + 1]
      PROVE  Score(g) >= Score(f)
    <2>1. /\ g.kinds = f.kinds /\ g.zhe = f.zhe /\ g.percents = f.percents
          /\ g.published = f.published /\ g.judged = f.judged
        BY <1>7 DEF Candidates
    <2>2. /\ f.vendor => g.vendor
          /\ f.product => g.product
          /\ f.official => g.official
        BY <1>7 DEF Candidates
    <2>3. /\ g.trust = f.trust \/ g.trust = f.trust + 1
          /\ g.offers = f.offers \/ g.offers = f.offers + 1
        BY <1>7 DEF Candidates
    <2>4. g.trust \in Int /\ f.trust <= g.trust
        BY <1>1, <2>3
    <2>5. f.offers \in Int /\ g.offers \in Int /\ f.offers <= g.offers
        BY <1>1, <2>3
    <2>6. Freshness(g) \in Int /\ Freshness(f) <= Freshness(g)
        BY <1>2, <1>4, <2>1
    <2>7. Offered(g) \in Int /\ Offered(f) <= Offered(g)
        BY <1>3, <1>5, <2>1
    <2>8. QED
        BY <1>1, <1>2, <1>3, <2>2, <2>4, <2>5, <2>6, <2>7, ScoreGrows
<1>8. ASSUME NEW n \in {5, 10, 30, 50, 100}, g = [f EXCEPT !.percents = @ \union {n}]
      PROVE  Score(g) >= Score(f)
    <2>1. /\ g.kinds = f.kinds /\ g.offers = f.offers /\ g.zhe = f.zhe
          /\ g.percents = f.percents \union {n} /\ g.trust = f.trust /\ g.vendor = f.vendor
          /\ g.product = f.product /\ g.official = f.official
          /\ g.published = f.published /\ g.judged = f.judged
        BY <1>8 DEF Candidates
    <2>2. Offered(g) \in Nat /\ Offered(f) <= Offered(g)
        <3>1. f.kinds \subseteq g.kinds /\ f.percents \subseteq g.percents /\ g.percents \subseteq Nat
            BY <1>1, <2>1
        <3>2. QED
            BY <1>1, <2>1, <3>1, OfferedGrows
    <2>3. f.offers \in Int /\ g.offers \in Int /\ f.offers <= g.offers
        BY <1>1, <2>1
    <2>4. Freshness(g) = Freshness(f)
        BY <1>4, <2>1
    <2>5. f.trust <= g.trust /\ g.trust \in Int
        BY <1>1, <2>1
    <2>6. Freshness(g) \in Int /\ Freshness(f) <= Freshness(g) /\ Offered(g) \in Int
        BY <1>2, <2>2, <2>4
    <2>7. (f.vendor => g.vendor) /\ (f.product => g.product) /\ (f.official => g.official)
        BY <2>1
    <2>8. QED
        BY <1>1, <1>2, <1>3, <2>2, <2>3, <2>5, <2>6, <2>7, ScoreGrows
<1>9. ASSUME f.published # <<>>, NEW d \in {1, 3, 7, 30}, g = [f EXCEPT !.published[1].day = @ + d]
      PROVE  Score(g) >= Score(f)
    <2> DEFINE p == f.published[1]  q == g.published[1]
    <2>1. /\ g.kinds = f.kinds /\ g.offers = f.offers /\ g.zhe = f.zhe
          /\ g.percents = f.percents /\ g.trust = f.trust /\ g.vendor = f.vendor
          /\ g.product = f.product /\ g.official = f.official /\ g.judged = f.judged
          /\ g.published = [f.published EXCEPT ![1].day = @ + d]
        BY <1>9 DEF Candidates
    <2>2. f.published \in Seq(Moments) /\ Len(f.published) >= 1
        BY <1>9 DEF Candidates
    <2>3. p \in Moments /\ q = [p EXCEPT !.day = @ + d] /\ g.published # <<>>
        <3>1. 1 \in DOMAIN f.published
            BY <2>2
        <3>2. q = [p EXCEPT !.day = @ + d] /\ DOMAIN g.published = DOMAIN f.published
            BY <2>1, <2>2, <3>1
        <3>3. g.published # <<>>
            BY <3>1, <3>2
        <3>4. QED
            BY <2>2, <3>2, <3>3
    <2>4. /\ q.year = p.year /\ q.month = p.month /\ q.day = p.day + d /\ q.minute = p.minute
          /\ p.year \in Nat \ {0} /\ p.month \in Nat /\ p.day \in Nat /\ p.minute \in Nat
          /\ Possible(p.year, p.month, p.day)
        <3> HIDE DEF p, q
        <3>1. /\ p = [year |-> p.year, month |-> p.month, day |-> p.day, minute |-> p.minute]
              /\ p.year \in Nat \ {0} /\ p.month \in Nat /\ p.day \in Nat
              /\ p.minute \in 0..(EndOfDay - 1) /\ Possible(p.year, p.month, p.day)
            BY <2>3 DEF Moments
        <3>2. p.minute \in Nat
            BY <3>1
        <3>3. /\ q.year = p.year /\ q.month = p.month /\ q.day = p.day + d
              /\ q.minute = p.minute
            BY <2>3, <3>1
        <3>4. QED
            BY <3>1, <3>2, <3>3
    <2>5. Instant(q) = Instant(p) + d * 1440 /\ Instant(p) \in Int
        <3>1. Instant(p) \in Int
            BY <2>3, MomentInYear
        <3> DEFINE y == p.year  m == p.month  e == p.day  i == p.minute
                   base == 365 * y + (y - 1) \div 4 - (y - 1) \div 100 + (y - 1) \div 400
                           + DaysBefore(y, m)
        <3>2. base \in Int
            <4>1. m \in 1..12
                BY <2>4 DEF Possible
            <4>2. DaysBefore(y, m) = CommonDays(m) + (IF m > 2 THEN LeapDay(y) ELSE 0)
                BY <4>1, CommonYear DEF DaysBefore, CommonDays, LeapDay
            <4>3. CommonDays(m) \in Nat /\ LeapDay(y) \in 0..1
                BY <4>1, CommonYear DEF LeapDay
            <4>4. DaysBefore(y, m) \in Int
                BY <4>2, <4>3
            <4>5. y \in Nat
                BY <2>4
            <4> HIDE DEF y
            <4>6. QED
                BY <4>4, <4>5
        <3>3. /\ Instant(p) = (base + e) * 1440 + i
              /\ Instant(q) = (base + (e + d)) * 1440 + i
            BY <2>4 DEF Instant, Minutes, DayNumber, DayMinutes
        <3>4. e \in Nat /\ i \in Nat /\ d \in Nat
            BY <2>4
        <3> HIDE DEF base, e, i, p, q
        <3>5. QED
            BY <3>1, <3>2, <3>3, <3>4
    <2>6. Age(f) \in Int /\ Age(g) \in Int /\ Age(g) <= Age(f)
        <3>1. Instant(f.judged) \in Int
            <4>1. f.judged \in Moments
                BY DEF Candidates
            <4>2. QED
                BY <4>1, MomentInYear
        <3> DEFINE j == Instant(f.judged)  x == Instant(p)  y == Instant(q)
        <3>2. Age(f) = j - x /\ Age(g) = j - y
            BY <2>1 DEF Age
        <3>3. j \in Int /\ x \in Int /\ y = x + d * 1440 /\ d \in Nat
            BY <3>1, <2>5
        <3> HIDE DEF j, x, y
        <3>4. QED
            BY <3>2, <3>3
    <2>7. Freshness(g) \in Int /\ Freshness(f) <= Freshness(g)
        BY <1>9, <2>3, <2>6, FreshnessGrows
    <2>8. Offered(g) \in Int /\ Offered(f) <= Offered(g)
        BY <1>3, <1>5, <2>1
    <2>9. /\ f.offers \in Int /\ g.offers \in Int /\ f.offers <= g.offers
          /\ g.trust \in Int /\ f.trust <= g.trust
        BY <1>1, <2>1
    <2>10. (f.vendor => g.vendor) /\ (f.product => g.product) /\ (f.official => g.official)
        BY <2>1
    <2>11. QED
        BY <1>1, <1>2, <1>3, <2>7, <2>8, <2>9, <2>10, ScoreGrows
<1>10. QED
    BY <1>6, <1>7, <1>8, <1>9 DEF Stronger
-----------------------------------------------------------------------------
(***************************************************************************)
(* The rows of the log                                                     *)
(***************************************************************************)
Row(f, points, copied, read, by, n) ==
    [finding |-> f, score |-> points, copy |-> copied, clocks |-> read, readBy |-> by,
     edition |-> n]

ReadBy(build, t, anchor) ==
    [expires |-> ExpiresAt(t, anchor, build), starts |-> StartsAt(t, anchor)]

\* What a build has judged is what it would read again, where both read the same.
RowOK(row, build) ==
    /\ row = Row(row.finding, row.score, row.copy, row.clocks, row.readBy, row.edition)
    /\ row.clocks = [expires |-> row.clocks.expires, starts |-> row.clocks.starts]
    /\ row.finding \in Candidates /\ row.score = Score(row.finding)
    /\ row.readBy \in {EarlyRules, build}
    /\ row.readBy = build /\ SameReading(row.finding)
           => row.clocks = ReadBy(build, row.finding.text, JudgeAnchor(row.finding))

RowsOK(rows, build) ==
    /\ rows = [i \in 1..Slots |-> rows[i]]
    /\ \A i \in 1..Slots : rows[i] # Absent => RowOK(rows[i], build)

\* A running reparse holds rows of this build's log, and the log is still what it
\* read from the row it is at on, unless somebody else has written.
ScreenInv ==
    /\ RowsOK(log, rules)
    /\ rules \in {EarlyRules, LateRules}
    /\ next \in 0..Slots
    /\ next > 0 => RowsOK(batch, rules)
    /\ next > 0 /\ alone => \A j \in next..Slots : batch[j] = log[j]

\* reparse corrects clocks and nothing else, and a second time corrects nothing.
LEMMA RereadARow ==
    ASSUME NEW row,
           row = Row(row.finding, row.score, row.copy, row.clocks, row.readBy, row.edition),
           row.clocks = [expires |-> row.clocks.expires, starts |-> row.clocks.starts]
    PROVE  /\ Reread(row) = Row(row.finding, row.score, row.copy, Reread(row).clocks, row.readBy,
                                row.edition)
           /\ Reread(row) = [row EXCEPT !.clocks = Reread(row).clocks]
           /\ Reread(row).clocks = [expires |-> Reread(row).clocks.expires,
                                    starts |-> Reread(row).clocks.starts]
           /\ \A field \in {"expires", "starts"} :
                 row.clocks[field] # None => Reread(row).clocks[field] # None
           /\ Reread(Reread(row)) = Reread(row)
           /\ row.copy => Reread(row) = row
<1> DEFINE f == row.finding
           read == Clocks(StoredText(f), ReparseAnchor(f))
           newest == [expires |-> IF read.expires # None THEN read.expires ELSE row.clocks.expires,
                      starts |-> IF read.starts # None THEN read.starts ELSE row.clocks.starts]
<1>1. CASE row.copy
    <2>1. Reread(row) = row
        BY <1>1 DEF Reread
    <2>2. Reread(row) = [row EXCEPT !.clocks = Reread(row).clocks]
        BY <2>1 DEF Row
    <2>3. QED
        BY <1>1, <2>1, <2>2
<1>2. CASE ~row.copy
    <2>1. Reread(row) = [row EXCEPT !.clocks = newest]
        BY <1>2 DEF Reread
    <2>2. Reread(row) = Row(f, row.score, row.copy, newest, row.readBy, row.edition)
        BY <2>1 DEF Row
    <2>3. Reread(row).finding = f /\ Reread(row).copy = row.copy /\ Reread(row).clocks = newest
        BY <2>2 DEF Row
    <2>4. Reread(Reread(row)) = [Reread(row) EXCEPT !.clocks = newest]
        <3>1. Reread(Reread(row)) =
              [Reread(row) EXCEPT !.clocks =
                 [expires |-> IF read.expires # None THEN read.expires ELSE newest.expires,
                  starts |-> IF read.starts # None THEN read.starts ELSE newest.starts]]
            <4> DEFINE again == Reread(row)
            <4>1. again.finding = f /\ ~again.copy /\ again.clocks = newest
                BY <1>2, <2>3
            <4> HIDE DEF again, newest
            <4>2. Reread(again) =
                  [again EXCEPT !.clocks =
                     [expires |-> IF read.expires # None THEN read.expires ELSE newest.expires,
                      starts |-> IF read.starts # None THEN read.starts ELSE newest.starts]]
                BY <4>1 DEF Reread
            <4>3. QED
                BY <4>2 DEF again
        <3>2. /\ read.expires # None => newest.expires = read.expires
              /\ read.starts # None => newest.starts = read.starts
            OBVIOUS
        <3>3. newest = [expires |-> newest.expires, starts |-> newest.starts]
            OBVIOUS
        <3> HIDE DEF newest, read
        <3>4. QED
            BY <3>1, <3>2, <3>3
    <2>5. [Reread(row) EXCEPT !.clocks = newest] = Reread(row)
        <3> HIDE DEF newest
        <3>1. QED
            BY <2>2 DEF Row
    <2>6. /\ row.clocks.expires # None => newest.expires # None
          /\ row.clocks.starts # None => newest.starts # None
          /\ newest = [expires |-> newest.expires, starts |-> newest.starts]
        OBVIOUS
    <2>7. \A field \in {"expires", "starts"} : row.clocks[field] # None => newest[field] # None
        <3> HIDE DEF newest
        <3>1. QED
            BY <2>6
    <2> HIDE DEF newest
    <2>8. QED
        BY <1>2, <2>1, <2>2, <2>3, <2>4, <2>5, <2>6, <2>7
<1>3. QED
    BY <1>1, <1>2

\* Readings that are repeated behind the others change nothing of what is read first.
LEMMA RepeatsReadTheSame ==
    ASSUME NEW m \in Nat, NEW n \in Nat, m <= n,
           NEW x, DOMAIN x = 1..m, NEW y, DOMAIN y = 1..n,
           \A i \in 1..m : y[i] = x[i],
           \A j \in 1..n : \E i \in 1..m : y[j] = x[i]
    PROVE  FirstRead(y) = FirstRead(x)
<1> DEFINE X == {i \in 1..m : x[i] # None}  Y == {j \in 1..n : y[j] # None}
<1>1. /\ FirstRead(x) = IF X = {} THEN None ELSE x[Min(X)]
      /\ FirstRead(y) = IF Y = {} THEN None ELSE y[Min(Y)]
    BY DEF FirstRead
<1>2. X \subseteq Y
    OBVIOUS
<1>3. CASE X = {}
    <2>1. Y = {}
        BY <1>3
    <2>2. QED
        BY <1>1, <1>3, <2>1
<1>4. CASE X # {}
    <2>1. X \in SUBSET Nat /\ Y \in SUBSET Nat /\ Y # {}
        BY <1>2, <1>4
    <2>2. /\ Min(X) \in X /\ \A i \in X : Min(X) <= i
          /\ Min(Y) \in Y /\ \A j \in Y : Min(Y) <= j
        BY <1>4, <2>1, MinOfNaturals
    <2> DEFINE a == Min(X)  b == Min(Y)
    <2>3. a \in 1..m /\ b \in 1..n /\ b <= a /\ y[b] # None
        BY <1>2, <2>2
    <2>4. \A i \in X : a <= i
        BY <2>2
    <2> HIDE DEF a, b
    <2>5. a <= b
        <3>1. b \in 1..m
            BY <2>3
        <3>2. b \in X
            BY <2>3, <3>1
        <3>3. QED
            BY <2>4, <3>2
    <2>6. a = b
        BY <2>3, <2>5
    <2>7. QED
        BY <1>1, <1>4, <2>1, <2>3, <2>6 DEF a, b
<1>5. QED
    BY <1>3, <1>4

\* A text that is only repeated has the same clocks.
LEMMA OnlyRepeatsReadsTheSame ==
    ASSUME NEW t \in Texts, NEW s \in Texts, OnlyRepeats(t, s), NEW anchor
    PROVE  Clocks(s, anchor) = Clocks(t, anchor)
<1>1. /\ s.lead = t.lead /\ s.pre = t.pre /\ s.stated = t.stated /\ s.range = t.range
      /\ s.short = t.short /\ s.span = t.span /\ s.dated = t.dated
    BY DEF OnlyRepeats, Texts
<1>2. ExpiresAt(s, anchor, rules) = ExpiresAt(t, anchor, rules)
    BY <1>1 DEF ExpiresAt
<1>3. StartsAt(s, anchor) = StartsAt(t, anchor)
    <2> DEFINE Year(p) == IF p.year = 0 THEN anchor.year ELSE p.year
               Opening(p) ==
                   IF \/ p.closing \/ ~Readable([p EXCEPT !.year = Year(p)])
                      \/ Hour(p) > 23 \/ p.min > 59
                   THEN None ELSE Minutes(Year(p), p.month, p.day, Hour(p) * 60 + p.min)
               a == t.opens  b == s.opens
               x == [i \in DOMAIN a |-> Opening(a[i])]
               y == [i \in DOMAIN b |-> Opening(b[i])]
    <2>1. StartsAt(t, anchor) = FirstRead(x) /\ StartsAt(s, anchor) = FirstRead(y)
        BY DEF StartsAt, Each
    <2>2. PICK A : a \in Seq(A) /\ b \in Seq(A)
        BY DEF Texts
    <2>3. IsPrefix(a, b) /\ Range(b) \subseteq Range(a)
        BY DEF OnlyRepeats
    <2> HIDE DEF a, b, Opening
    <2>4. /\ Len(a) \in Nat /\ Len(b) \in Nat /\ Len(a) <= Len(b)
          /\ DOMAIN a = 1..Len(a) /\ DOMAIN b = 1..Len(b)
          /\ \A i \in 1..Len(a) : b[i] = a[i]
        BY <2>2, <2>3 DEF IsPrefix
    <2>5. \A j \in 1..Len(b) : \E i \in 1..Len(a) : b[j] = a[i]
        BY <2>3, <2>4 DEF Range
    <2>6. /\ \A i \in 1..Len(a) : y[i] = x[i]
          /\ \A j \in 1..Len(b) : \E i \in 1..Len(a) : y[j] = x[i]
          /\ DOMAIN x = 1..Len(a) /\ DOMAIN y = 1..Len(b)
        BY <2>4, <2>5
    <2> HIDE DEF x, y
    <2>7. FirstRead(y) = FirstRead(x)
        <3> DEFINE m == Len(a)  n == Len(b)
        <3>1. m \in Nat /\ n \in Nat /\ m <= n
            BY <2>4
        <3>2. /\ \A i \in 1..m : y[i] = x[i]
              /\ \A j \in 1..n : \E i \in 1..m : y[j] = x[i]
              /\ DOMAIN x = 1..m /\ DOMAIN y = 1..n
            BY <2>6
        <3> HIDE DEF m, n
        <3>3. QED
            BY <3>1, <3>2, RepeatsReadTheSame
    <2>8. QED
        BY <2>1, <2>7
<1>4. QED
    BY <1>2, <1>3 DEF Clocks

\* Where both read the same, a build has nothing to correct in what it has judged.
LEMMA SameReadingStays ==
    ASSUME NEW row, RowOK(row, rules), row.readBy = rules, SameReading(row.finding)
    PROVE  Reread(row) = row
<1> DEFINE f == row.finding  read == Clocks(f.text, JudgeAnchor(f))
<1>1. row.clocks = read
    BY DEF RowOK, Clocks, ReadBy
<1>2. Clocks(StoredText(f), JudgeAnchor(f)) = read
    <2>1. f.text \in Texts /\ f.stored \in Texts /\ f.offers \in Nat
        BY DEF RowOK, Candidates
    <2>2. \/ StoredText(f) = f.text
          \/ StoredText(f) = f.stored /\ OnlyRepeats(f.text, f.stored)
        <3>1. f.offers = 0 \/ OnlyRepeats(f.text, f.stored)
            BY DEF SameReading
        <3>2. f.offers = 0 => ~(f.offers > 0)
            BY <2>1
        <3> HIDE DEF f
        <3>3. QED
            BY <3>1, <3>2, Zenon DEF StoredText
    <2> DEFINE anchor == JudgeAnchor(f)  t == f.text  s == f.stored
    <2>3. OnlyRepeats(t, s) => Clocks(s, anchor) = Clocks(t, anchor)
        <3>1. t \in Texts /\ s \in Texts
            BY <2>1
        <3> HIDE DEF t, s, anchor
        <3>2. QED
            BY <3>1, OnlyRepeatsReadsTheSame, Zenon
    <2>4. QED
        BY <2>2, <2>3, Zenon
<1>3. ReparseAnchor(f) = JudgeAnchor(f)
    BY DEF ReparseAnchor, JudgeAnchor, SameReading
<1>4. read = [expires |-> read.expires, starts |-> read.starts]
    BY DEF Clocks
<1>5. ~row.copy => Reread(row) = [row EXCEPT !.clocks = read]
    <2> HIDE DEF f
    <2>1. Clocks(StoredText(f), ReparseAnchor(f)) = read
        BY <1>2, <1>3
    <2> HIDE DEF read
    <2>2. ~row.copy => Reread(row) =
            [row EXCEPT !.clocks =
               [expires |-> IF read.expires # None THEN read.expires ELSE row.clocks.expires,
                starts |-> IF read.starts # None THEN read.starts ELSE row.clocks.starts]]
        BY <2>1 DEF Reread, f
    <2>3. QED
        BY <1>1, <1>4, <2>2
<1>6. [row EXCEPT !.clocks = read] = row
    <2>1. row = Row(row.finding, row.score, row.copy, row.clocks, row.readBy, row.edition)
        BY DEF RowOK
    <2> HIDE DEF read
    <2>2. QED
        BY <1>1, <2>1 DEF Row
<1>7. row.copy => Reread(row) = row
    BY DEF Reread
<1>8. QED
    BY <1>5, <1>6, <1>7

\* What reparse stores is as good a row as what it read.
LEMMA RereadRowOK ==
    ASSUME NEW row, RowOK(row, rules)
    PROVE  RowOK(Reread(row), rules)
<1> DEFINE again == Reread(row)
<1>1. /\ row = Row(row.finding, row.score, row.copy, row.clocks, row.readBy, row.edition)
      /\ row.clocks = [expires |-> row.clocks.expires, starts |-> row.clocks.starts]
    BY DEF RowOK
<1>2. /\ again = Row(row.finding, row.score, row.copy, again.clocks, row.readBy, row.edition)
      /\ again.clocks = [expires |-> again.clocks.expires, starts |-> again.clocks.starts]
    BY <1>1, RereadARow
<1>3. row.readBy = rules /\ SameReading(row.finding) => again = row
    BY SameReadingStays
<1> HIDE DEF again
<1>4. /\ again.finding = row.finding /\ again.score = row.score /\ again.copy = row.copy
      /\ again.readBy = row.readBy /\ again.edition = row.edition
    BY <1>2 DEF Row
<1>5. RowOK(again, rules)
    BY <1>2, <1>3, <1>4 DEF RowOK
<1>6. QED
    BY <1>5 DEF again

LEMMA ScreenInit == ScreeningInit => ScreenInv
BY ScreeningAssumption DEF ScreeningInit, ScreenInv, RowsOK

\* Done and Advance leave the batch as it was, or no batch at all.
LEMMA AdvanceSteps ==
    ASSUME next \in 1..Slots, Advance
    PROVE  \/ next' = 0 /\ batch' = <<>>
           \/ next' = next + 1 /\ next' \in 1..Slots /\ batch' = batch /\ alone' = alone
BY ScreeningAssumption DEF Advance, Done

LEMMA ScreenStep == ScreenInv /\ [ScreeningNext]_screeningVars => ScreenInv'
<1> SUFFICES ASSUME ScreenInv, [ScreeningNext]_screeningVars PROVE ScreenInv'
    OBVIOUS
<1>1. ASSUME NEW i \in 1..Slots, NEW f \in Findings[i], Enter(i, f) PROVE ScreenInv'
    <2>1. PICK copied \in BOOLEAN :
             log' = [log EXCEPT ![i] = Row(f, Score(f), copied, Clocks(f.text, JudgeAnchor(f)),
                                           rules, 0)]
        BY <1>1 DEF Enter, Row
    <2> DEFINE row == Row(f, Score(f), copied, Clocks(f.text, JudgeAnchor(f)), rules, 0)
    <2>2. RowOK(row, rules)
        <3>1. f \in Candidates
            BY ScreeningAssumption
        <3>2. /\ row.finding = f /\ row.score = Score(f) /\ row.copy = copied
              /\ row.clocks = Clocks(f.text, JudgeAnchor(f)) /\ row.readBy = rules
              /\ row.edition = 0
            BY DEF Row
        <3>3. Clocks(f.text, JudgeAnchor(f)) = ReadBy(rules, f.text, JudgeAnchor(f))
            BY DEF Clocks, ReadBy
        <3>4. row.clocks = [expires |-> row.clocks.expires, starts |-> row.clocks.starts]
            BY <3>2, <3>3 DEF ReadBy
        <3>5. row = Row(row.finding, row.score, row.copy, row.clocks, row.readBy, row.edition)
            BY <3>2
        <3> HIDE DEF row
        <3>6. QED
            BY <3>1, <3>2, <3>3, <3>4, <3>5 DEF RowOK
    <2> HIDE DEF row
    <2>3. log' = [log EXCEPT ![i] = row]
        BY <2>1 DEF row
    <2>4. rules' = rules /\ next' = next /\ batch' = batch /\ (next > 0 => ~alone')
        <3>1. rules' = rules /\ next' = next /\ batch' = batch /\ alone' = (next = 0)
            BY <1>1 DEF Enter
        <3>2. next > 0 => next # 0
            BY DEF ScreenInv
        <3>3. QED
            BY <3>1, <3>2, Zenon
    <2>5. RowsOK(log', rules)
        BY <2>2, <2>3 DEF ScreenInv, RowsOK
    <2>6. QED
        BY <2>4, <2>5 DEF ScreenInv
<1>2. ASSUME NEW i \in 1..Slots, Rewrite(i) PROVE ScreenInv'
    <2> DEFINE row == [log[i] EXCEPT !.edition = 1]
    <2>1. RowOK(log[i], rules)
        BY <1>2 DEF ScreenInv, RowsOK, Rewrite
    <2>2. RowOK(row, rules)
        <3> DEFINE old == log[i]
        <3> HIDE DEF old
        <3>1. /\ old = Row(old.finding, old.score, old.copy, old.clocks, old.readBy, old.edition)
            BY <2>1 DEF RowOK, old
        <3>2. row = Row(old.finding, old.score, old.copy, old.clocks, old.readBy, 1)
            BY <3>1 DEF Row, old
        <3> HIDE DEF row
        <3>3. /\ row.finding = old.finding /\ row.score = old.score /\ row.copy = old.copy
              /\ row.clocks = old.clocks /\ row.readBy = old.readBy /\ row.edition = 1
            BY <3>2 DEF Row
        <3>4. RowOK(old, rules)
            BY <2>1 DEF old
        <3>5. QED
            BY <3>2, <3>3, <3>4 DEF RowOK
    <2> HIDE DEF row
    <2>3. log' = [log EXCEPT ![i] = row]
        BY <1>2 DEF Rewrite, row
    <2>4. rules' = rules /\ next' = next /\ batch' = batch /\ (next > 0 => ~alone')
        <3>1. rules' = rules /\ next' = next /\ batch' = batch /\ alone' = (next = 0)
            BY <1>2 DEF Rewrite
        <3>2. next > 0 => next # 0
            BY DEF ScreenInv
        <3>3. QED
            BY <3>1, <3>2, Zenon
    <2>5. RowsOK(log', rules)
        BY <2>2, <2>3 DEF ScreenInv, RowsOK
    <2>6. QED
        BY <2>4, <2>5 DEF ScreenInv
<1>3. CASE Upgrade
    <2>1. rules = EarlyRules /\ rules' = LateRules /\ LateRules # EarlyRules
          /\ log' = log /\ next' = 0
        BY <1>3 DEF Upgrade, ScreenInv
    <2>2. ASSUME NEW row, RowOK(row, EarlyRules) PROVE RowOK(row, LateRules)
        BY <2>1, <2>2 DEF RowOK
    <2>3. RowsOK(log, LateRules)
        BY <2>1, <2>2 DEF ScreenInv, RowsOK
    <2>4. 0 \in 0..Slots
        BY ScreeningAssumption
    <2>5. QED
        BY <2>1, <2>3, <2>4 DEF ScreenInv
<1>4. CASE StartReparse
    BY <1>4, ScreeningAssumption DEF StartReparse, ScreenInv
<1>5. CASE Pass
    <2>1. next \in 1..Slots /\ log' = log /\ rules' = rules /\ Advance
        BY <1>5, ScreeningAssumption DEF Pass, ScreenInv
    <2>2. QED
        BY <2>1, AdvanceSteps, ScreeningAssumption DEF ScreenInv
<1>6. CASE WriteBack
    <2> DEFINE row == batch[next]
    <2>1. next \in 1..Slots /\ rules' = rules /\ Advance /\ log' = [log EXCEPT ![next] = Reread(row)]
        BY <1>6, ScreeningAssumption DEF WriteBack, ScreenInv
    <2>2. row # Absent
        BY <1>6 DEF WriteBack, Corrected
    <2>3. RowOK(row, rules)
        BY <2>1, <2>2 DEF ScreenInv, RowsOK
    <2>4. RowOK(Reread(row), rules)
        BY <2>3, RereadRowOK
    <2>5. RowsOK(log', rules)
        BY <2>1, <2>4 DEF ScreenInv, RowsOK
    <2>6. \A j \in (next + 1)..Slots : log'[j] = log[j]
        BY <2>1, ScreeningAssumption DEF ScreenInv, RowsOK
    <2>7. QED
        BY <2>1, <2>5, <2>6, AdvanceSteps, ScreeningAssumption DEF ScreenInv
<1>7. CASE Stop
    BY <1>7, ScreeningAssumption DEF Stop, Done, ScreenInv
<1>8. CASE UNCHANGED screeningVars
    BY <1>8 DEF screeningVars, ScreenInv
<1>9. QED
    BY <1>1, <1>2, <1>3, <1>4, <1>5, <1>6, <1>7, <1>8 DEF ScreeningNext

\* The deadline read from a date without a year is the one such date in the 45
\* days from the announcement on, and there is none where no such date is: for
\* every row, every announcement in the Gregorian calendar and every phrase,
\* the impossible dates and the leap days included.
THEOREM DatesAreTheNextSuch == ScreeningSpec => []YearlessIsTheNextSuchDate
<1>1. ScreenInv => YearlessIsTheNextSuchDate
    <2> SUFFICES ASSUME ScreenInv, NEW row \in Rows,
                        NEW p \in Range(row.finding.text.lead \o row.finding.text.pre)
                 PROVE  LET anchor == JudgeAnchor(row.finding)
                            read == YearlessDeadline(p.month, p.day, p.clock, anchor)
                        IN  IF Ahead(p.month, p.day, p.clock, anchor) = {} THEN read = None
                            ELSE {read} = Ahead(p.month, p.day, p.clock, anchor)
        BY DEF YearlessIsTheNextSuchDate, Ahead, SuchDates
    <2> DEFINE f == row.finding
    <2>1. f \in Candidates
        BY DEF Rows, ScreenInv, RowsOK, RowOK
    <2> HIDE DEF f
    <2>2. JudgeAnchor(f) \in Moments
        BY <2>1 DEF Candidates, JudgeAnchor
    <2>3. f.text.lead \in Seq(MonthDays) /\ f.text.pre \in Seq(MonthDays)
        BY <2>1 DEF Candidates, Texts
    <2>4. p \in MonthDays
        <3>1. f.text.lead \o f.text.pre \in Seq(MonthDays)
            BY <2>3
        <3>2. p \in Range(f.text.lead \o f.text.pre)
            BY DEF f
        <3>3. PICK k \in DOMAIN (f.text.lead \o f.text.pre) : p = (f.text.lead \o f.text.pre)[k]
            BY <3>2 DEF Range
        <3> DEFINE phrases == f.text.lead \o f.text.pre
        <3>4. phrases \in Seq(MonthDays) /\ k \in DOMAIN phrases /\ p = phrases[k]
            BY <3>1, <3>3
        <3> HIDE DEF phrases
        <3>5. QED
            BY <3>4
    <2>5. p.month \in Nat /\ p.day \in Nat /\ p.clock \in Seq(ClockTimes)
        BY <2>4 DEF MonthDays
    <2>6. QED
        BY <2>2, <2>5, YearlessReading DEF f
<1>2. QED
    BY <1>1, ScreenInit, ScreenStep, PTL DEF ScreeningSpec

\* A row's score is at most that of any finding with more evidence: one more
\* kind of offer, a vendor, a product, an official page, a better source, a
\* deeper cut or a later publication never costs a row points.
THEOREM MoreEvidenceScoresHigher == ScreeningSpec => []StrongerEvidenceScoresHigher
<1>1. ScreenInv => StrongerEvidenceScoresHigher
    <2> SUFFICES ASSUME ScreenInv, NEW row \in Rows, NEW g \in Stronger(row.finding)
                 PROVE  Score(g) >= row.score
        BY DEF StrongerEvidenceScoresHigher
    <2>1. row.finding \in Candidates /\ row.score = Score(row.finding)
        BY DEF Rows, ScreenInv, RowsOK, RowOK
    <2>2. QED
        BY <2>1, EvidenceAdds
<1>2. QED
    BY <1>1, ScreenInit, ScreenStep, PTL DEF ScreeningSpec

\* While nobody else writes, reparse changes the clocks of rows and nothing else,
\* takes no clock away, leaves folded copies and what the same build has read the
\* same way alone, and has nothing to correct in what it has just written: for
\* every log, every dictionary of rules and every order of rounds, reparses,
\* upgrades and crashes.
THEOREM ReparseOnlyCorrectsClocks == ScreeningSpec => ReparseCorrectsTheClocks
<1>1. ASSUME ScreenInv, [ScreeningNext]_screeningVars, NEW i \in 1..Slots, next > 0, alone, alone',
             log[i] # log'[i]
      PROVE  /\ log'[i] = [log[i] EXCEPT !.clocks = log'[i].clocks]
             /\ \A field \in {"expires", "starts"} :
                   log[i].clocks[field] # None => log'[i].clocks[field] # None
             /\ ~log[i].copy
             /\ Reread(log'[i]) = log'[i]
             /\ log[i].readBy = rules => ~SameReading(log[i].finding)
    <2>1. WriteBack
        <3>a. next # 0
            BY <1>1 DEF ScreenInv
        <3>1. next # 0 /\ ~(alone' = (next = 0))
            BY <1>1, <3>a, Zenon
        <3>2. log' # log
            BY <1>1
        <3>3. ASSUME NEW j \in 1..Slots, NEW f \in Findings[j], Enter(j, f) PROVE FALSE
            BY <3>1, <3>3 DEF Enter
        <3>4. ASSUME NEW j \in 1..Slots, Rewrite(j) PROVE FALSE
            BY <3>1, <3>4 DEF Rewrite
        <3>5. ~Upgrade /\ ~StartReparse
            BY <3>1 DEF Upgrade, StartReparse
        <3>6. ~Pass /\ ~Stop /\ ~UNCHANGED screeningVars
            BY <3>2 DEF Pass, Stop, screeningVars
        <3>7. QED
            BY <1>1, <3>3, <3>4, <3>5, <3>6 DEF ScreeningNext
    <2>2. next \in 1..Slots /\ log' = [log EXCEPT ![next] = Reread(batch[next])]
        BY <1>1, <2>1, ScreeningAssumption DEF WriteBack, ScreenInv
    <2>3. i = next
        BY <1>1, <2>2 DEF ScreenInv, RowsOK
    <2>4. batch[i] = log[i]
        BY <1>1, <2>2, <2>3 DEF ScreenInv
    <2> DEFINE row == log[i]
    <2>5. log'[i] = Reread(row)
        BY <2>2, <2>3, <2>4, <1>1 DEF ScreenInv, RowsOK
    <2>6. row # Absent
        BY <2>1, <2>3, <2>4 DEF WriteBack, Corrected
    <2>7. RowOK(row, rules)
        BY <1>1, <2>6 DEF ScreenInv, RowsOK
    <2>8. Reread(row) # row
        BY <1>1, <2>5
    <2> HIDE DEF row
    <2>9. /\ row = Row(row.finding, row.score, row.copy, row.clocks, row.readBy, row.edition)
          /\ row.clocks = [expires |-> row.clocks.expires, starts |-> row.clocks.starts]
        BY <2>7 DEF RowOK
    <2>10. /\ Reread(row) = [row EXCEPT !.clocks = Reread(row).clocks]
           /\ \A field \in {"expires", "starts"} :
                 row.clocks[field] # None => Reread(row).clocks[field] # None
           /\ Reread(Reread(row)) = Reread(row)
           /\ ~row.copy
        BY <2>8, <2>9, RereadARow
    <2>11. row.readBy = rules => ~SameReading(row.finding)
        BY <2>7, <2>8, SameReadingStays
    <2>12. QED
        BY <2>5, <2>10, <2>11 DEF row
<1>2. ScreenInv /\ [ScreeningNext]_screeningVars =>
        [\A i \in 1..Slots : next > 0 /\ alone /\ alone' /\ log[i] # log'[i] =>
          /\ log'[i] = [log[i] EXCEPT !.clocks = log'[i].clocks]
          /\ \A field \in {"expires", "starts"} :
                log[i].clocks[field] # None => log'[i].clocks[field] # None
          /\ ~log[i].copy
          /\ Reread(log'[i]) = log'[i]
          /\ log[i].readBy = rules => ~SameReading(log[i].finding)]_screeningVars
    BY <1>1
<1>3. QED
    BY <1>2, ScreenInit, ScreenStep, PTL DEF ScreeningSpec, ReparseCorrectsTheClocks
=============================================================================
