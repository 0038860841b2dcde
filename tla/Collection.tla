----------------------------- MODULE Collection -----------------------------
(***************************************************************************)
(* The sources of a round (internal/sources) and what happens to what they *)
(* return: fetchAll runs every collector in a goroutine of its own, those  *)
(* that report changes compare the answer with a cursor in state.json and  *)
(* store the new cursor at once, and only when all have returned does      *)
(* RunOnce judge and save, one row at a time.  The cursor is therefore     *)
(* ahead of the log for most of a round.                                   *)
(*                                                                         *)
(* A thing is whatever an upstream lists: a free model of the OpenRouter   *)
(* catalogue, a price fact of a page, a search result, a feed entry.  What *)
(* it says is abstracted to whose keyword gate and which screening it      *)
(* passes, when it was created and the fingerprint its URL gives it.       *)
(***************************************************************************)
EXTENDS Integers, FiniteSets, FiniteSetsExt

CONSTANTS
    Sources,    \* cfg.EnabledSources
    Rank,       \* their order in the configuration
    KindOf,     \* "openrouter", "snapshot", "search", "feed"
    Things,
    Listed,     \* those listed when the service is installed
    On,         \* the things a source's upstream can list
    Wanted,     \* those that pass its deny and keyword lists
    Kept,       \* the things Screen does not reject
    Fingerprint,\* the fingerprint of a thing
    Created,    \* the creation time of a model
    Grace,      \* models created before this are not news to a first round
    Cap,        \* params.max_new or limit
    Queries,    \* how many queries a search source has
    MaxChanges, \* BOUND on changes of the upstreams
    MaxFaults   \* BOUND on crashes and failed writes

ASSUME CollectionAssumption ==
    /\ Rank \in [Sources -> Nat]
    /\ \A s, t \in Sources : Rank[s] = Rank[t] => s = t
    /\ KindOf \in [Sources -> {"openrouter", "snapshot", "search", "feed"}]
    /\ On \in [Sources -> SUBSET Things] /\ Wanted \in [Sources -> SUBSET Things]
    /\ Kept \subseteq Things /\ Listed \subseteq Things
    /\ Created \in [Things -> Nat] /\ Grace \in Nat
    /\ Cap \in [Sources -> Nat \ {0}]
    /\ Queries \in Nat \ {0} /\ MaxChanges \in Nat /\ MaxFaults \in Nat
    \* The cursors of two sources have different keys unless both are openrouter,
    \* and those two read the same catalogue.
    /\ "openrouter:free_models" \notin Sources
    /\ \A s, t \in Sources : KindOf[s] = "openrouter" /\ KindOf[t] = "openrouter"
                              => On[s] = On[t]

VARIABLES
    page,       \* what the upstreams list
    disk,       \* state.json: the cursors
    saved,      \* things with a row in deals.jsonl
    \* ---- the process
    pc,         \* where the round is
    at,         \* where each collector is
    got,        \* what its answer listed
    out,        \* the deals it returns, then those not judged yet
    mem,        \* Store.state: the cursors
    seen,       \* Store.seen: fingerprints
    \* ---- history, read by no action
    asked,      \* the query a search is asking
    baseline,   \* things a first round recorded without a word
    lost,       \* things that entered a cursor and whose row was never written
    told,       \* things a differ brought into the log
    unlisted,   \* things some list compared with a cursor did not hold
    changes, faults

process == <<pc, at, got, out, mem, seen>>
history == <<asked, baseline, lost, told, unlisted, changes, faults>>
vars == <<page, disk, saved, process, history>>

Differs(s) == KindOf[s] \in {"openrouter", "snapshot"}

\* All openrouter sources share one cursor; the others have one per name.
KeyOf(s) == IF KindOf[s] = "openrouter" THEN "openrouter:free_models" ELSE s
Keys == {KeyOf(s) : s \in Sources}

TypeOK ==
    /\ page \subseteq Things /\ saved \subseteq Kept
    /\ DOMAIN disk \subseteq Keys /\ DOMAIN mem \subseteq Keys
    /\ \A s \in Sources : Differs(s) /\ KeyOf(s) \in DOMAIN mem
                              => mem[KeyOf(s)] \subseteq On[s]
    /\ pc \in {"down", "idle", "fetch", "judge"}
    /\ at \in [Sources -> {"idle", "rotate", "ask", "diff", "write", "done"}]
    /\ got \in [Sources -> SUBSET Things] /\ out \in [Sources -> SUBSET Things]
    /\ seen \subseteq {Fingerprint[x] : x \in Things}
    /\ asked \in 0..Queries
    /\ baseline \subseteq Things /\ lost \subseteq Things /\ told \subseteq saved
    /\ unlisted \subseteq Things
    /\ changes \in 0..MaxChanges /\ faults \in 0..MaxFaults
-----------------------------------------------------------------------------
(***************************************************************************)
(* The state file: what is on disk wins over memory, key by key, then the  *)
(* key is set and everything is written.  A flush that fails has already   *)
(* changed memory; the collectors log the failure and go on.               *)
(***************************************************************************)
Fault == faults < MaxFaults /\ faults' = faults + 1

PutState(k, v) ==
    /\ mem' = [j \in {k} \union DOMAIN disk \union DOMAIN mem |->
                  IF j = k THEN v ELSE IF j \in DOMAIN disk THEN disk[j] ELSE mem[j]]
    /\ \/ disk' = mem' /\ UNCHANGED faults
       \/ Fault /\ UNCHANGED disk

\* n things of S, or all of it.
First(n, S) == IF Cardinality(S) <= n THEN {S} ELSE kSubset(n, S)

\* openrouter's sort by creation time and limit.
Newest(n, S) ==
    {T \in First(n, S) : \A t \in T, u \in S \ T : Created[t] >= Created[u]}

InFlight(s) == IF Differs(s) /\ at[s] = "done" THEN out[s] ELSE {}
-----------------------------------------------------------------------------
Init ==
    /\ page = Listed
    /\ disk = <<>> /\ saved = {}
    /\ pc = "down" /\ at = [s \in Sources |-> "idle"]
    /\ got = [s \in Sources |-> {}] /\ out = [s \in Sources |-> {}]
    /\ mem = <<>> /\ seen = {}
    /\ asked = Queries
    /\ baseline = {} /\ lost = {} /\ told = {} /\ unlisted = {}
    /\ changes = 0 /\ faults = 0

\* An upstream lists a thing, or no longer does.
Change(x) ==
    /\ changes < MaxChanges /\ changes' = changes + 1
    /\ page' = IF x \in page THEN page \ {x} ELSE page \union {x}
    /\ UNCHANGED <<disk, saved, process, asked, baseline, lost, told, unlisted, faults>>

\* store.Open.
Start ==
    /\ pc = "down"
    /\ pc' = "idle"
    /\ mem' = disk /\ seen' = {Fingerprint[x] : x \in saved}
    /\ UNCHANGED <<page, disk, saved, at, got, out, history>>

\* fetchAll: one goroutine for every source.
BeginRound ==
    /\ pc = "idle"
    /\ pc' = "fetch"
    /\ at' = [s \in Sources |-> IF KindOf[s] = "search" THEN "rotate" ELSE "ask"]
    /\ UNCHANGED <<page, disk, saved, got, out, mem, seen, history>>

\* Mutant: the index runs past the list.
RotateUnwrapped(s) ==
    LET i == IF s \in DOMAIN mem THEN mem[s] ELSE 0 IN
    /\ at[s] = "rotate"
    /\ at' = [at EXCEPT ![s] = "ask"]
    /\ asked' = i
    /\ PutState(s, i + 1)
    /\ UNCHANGED <<page, saved, pc, got, out, seen, baseline, lost, told, unlisted, changes>>

\* Mutant: the cursor moves only when the query has been answered.
RotateLater(s) ==
    LET i == IF s \in DOMAIN mem THEN mem[s] ELSE 0 IN
    /\ at[s] = "rotate"
    /\ \/ at' = [at EXCEPT ![s] = "ask"] /\ asked' = i /\ PutState(s, (i + 1) % Queries)
       \/ at' = [at EXCEPT ![s] = "done"] /\ UNCHANGED <<asked, disk, mem, faults>>
    /\ UNCHANGED <<page, saved, pc, got, out, seen, baseline, lost, told, unlisted, changes>>

\* A search moves its cursor to the next query before it asks this one.  The
\* stored counter only grows; it matters modulo the number of queries.
Rotate(s) ==
    LET i == IF s \in DOMAIN mem THEN mem[s] ELSE 0 IN
    /\ at[s] = "rotate"
    /\ at' = [at EXCEPT ![s] = "ask"]
    /\ asked' = i
    /\ PutState(s, (i + 1) % Queries)
    /\ UNCHANGED <<page, saved, pc, got, out, seen, baseline, lost, told, unlisted, changes>>

\* No query is out once its answer is in.
Settled(s) == IF KindOf[s] = "search" THEN Queries ELSE asked

\* No answer: the fetch failed or ran out of time, the status was not 2xx, the
\* payload could not be read or held nothing, or the collector panicked.
NoAnswer(s) ==
    /\ at[s] = "ask"
    /\ at' = [at EXCEPT ![s] = "done"]
    /\ asked' = Settled(s)
    /\ UNCHANGED <<page, disk, saved, pc, got, out, mem, seen, baseline, lost, told,
                   unlisted, changes, faults>>

\* Feeds, pages and search results are returned as they are, cut at the limit.
Entries(s) ==
    /\ at[s] = "ask" /\ ~Differs(s)
    /\ at' = [at EXCEPT ![s] = "done"]
    /\ \E T \in First(Cap[s], page \intersect On[s] \intersect Wanted[s]) :
           out' = [out EXCEPT ![s] = T]
    /\ asked' = Settled(s)
    /\ UNCHANGED <<page, disk, saved, pc, got, mem, seen, baseline, lost, told, unlisted, changes, faults>>

\* What the answer of a differ lists.
Tracked(s) ==
    IF KindOf[s] = "openrouter" THEN {page \intersect On[s]}
    ELSE First(Cap[s], page \intersect On[s] \intersect Wanted[s]) \ {{}}

\* The answer of a differ.  openrouter lists every free model.  snapshot lists
\* the price facts it wants, the first Cap of them (which ones come first is up
\* to the page, and to the iteration order of a map if it is JSON); with none
\* it reports an error.
Answer(s) ==
    /\ at[s] = "ask" /\ Differs(s)
    /\ at' = [at EXCEPT ![s] = "diff"]
    /\ \E T \in Tracked(s) :
          got' = [got EXCEPT ![s] = T] /\ unlisted' = unlisted \union (On[s] \ T)
    /\ UNCHANGED <<page, disk, saved, pc, out, mem, seen, asked, baseline, lost, told,
                   changes, faults>>

\* What the comparison with the cursor leaves.  A first round of openrouter
\* reports what was created lately, a first round of snapshot nothing.
News(s, first) ==
    IF ~first THEN got[s] \ mem[KeyOf(s)]
    ELSE {x \in got[s] : KindOf[s] = "openrouter" /\ Created[x] >= Grace}

\* Mutant: a cursor that is there is not recognised, and every round seeds.
DiffSeedsAlways(s) ==
    LET first == KeyOf(s) \notin DOMAIN mem
        news == News(s, TRUE)
    IN
    /\ at[s] = "diff"
    /\ at' = [at EXCEPT ![s] = "write"]
    /\ \E T \in Newest(Cap[s], news) :
          /\ out' = [out EXCEPT ![s] = T \intersect Wanted[s]]
          /\ lost' = lost \union (news \ (T \intersect Wanted[s]))
    /\ baseline' = IF first THEN baseline \union (got[s] \ news) ELSE baseline
    /\ UNCHANGED <<page, disk, saved, pc, got, mem, seen, asked, told, unlisted,
                   changes, faults>>

\* Mutant: without a cursor everything listed is news.
DiffWithoutBaseline(s) ==
    LET news == IF KeyOf(s) \in DOMAIN mem THEN News(s, FALSE) ELSE got[s] IN
    /\ at[s] = "diff"
    /\ at' = [at EXCEPT ![s] = "write"]
    /\ \E T \in Newest(Cap[s], news) :
          /\ out' = [out EXCEPT ![s] = T \intersect Wanted[s]]
          /\ lost' = lost \union (news \ (T \intersect Wanted[s]))
    /\ UNCHANGED <<page, disk, saved, pc, got, mem, seen, asked, baseline, told, unlisted, changes, faults>>

\* The comparison, then the cap, then the keyword gate: what the last two drop
\* is in the cursor all the same.
Diff(s) ==
    LET first == KeyOf(s) \notin DOMAIN mem
        news == News(s, first)
    IN
    /\ at[s] = "diff"
    /\ at' = [at EXCEPT ![s] = "write"]
    /\ \E T \in Newest(Cap[s], news) :
          /\ out' = [out EXCEPT ![s] = T \intersect Wanted[s]]
          /\ lost' = lost \union (news \ (T \intersect Wanted[s]))
    /\ baseline' = IF first THEN baseline \union (got[s] \ news) ELSE baseline
    /\ UNCHANGED <<page, disk, saved, pc, got, mem, seen, asked, told, unlisted,
                   changes, faults>>

\* The cursor is stored before the deals are returned.
Write(s) ==
    /\ at[s] = "write"
    /\ at' = [at EXCEPT ![s] = "done"]
    /\ PutState(KeyOf(s), got[s])
    /\ got' = [got EXCEPT ![s] = {}]
    /\ UNCHANGED <<page, saved, pc, out, seen, asked, baseline, lost, told, unlisted, changes>>

\* wg.Wait.
Join ==
    /\ pc = "fetch" /\ \A s \in Sources : at[s] = "done"
    /\ pc' = "judge"
    /\ UNCHANGED <<page, disk, saved, at, got, out, mem, seen, history>>

\* A change whose row was not written.
Dropped(s, x) == IF Differs(s) THEN {x} \ saved ELSE {}

\* Mutant: a row the log refused ends the round, like a failed write at its head.
JudgeStopsAtFailure(s, x) ==
    /\ pc = "judge" /\ x \in out[s]
    /\ \A t \in Sources : Rank[t] < Rank[s] => out[t] = {}
    /\ \/ /\ Fingerprint[x] \in seen \/ x \notin Kept
          /\ out' = [out EXCEPT ![s] = @ \ {x}]
          /\ lost' = lost \union Dropped(s, x)
          /\ UNCHANGED <<saved, seen, told, faults>>
       \/ /\ Fingerprint[x] \notin seen /\ x \in Kept
          /\ out' = [out EXCEPT ![s] = @ \ {x}]
          /\ saved' = saved \union {x} /\ seen' = seen \union {Fingerprint[x]}
          /\ told' = IF Differs(s) THEN told \union {x} ELSE told
          /\ UNCHANGED <<lost, faults>>
       \/ /\ Fingerprint[x] \notin seen /\ x \in Kept
          /\ out' = [t \in Sources |-> {}]
          /\ Fault /\ lost' = lost \union Dropped(s, x)
          /\ UNCHANGED <<saved, seen, told>>
    /\ UNCHANGED <<page, disk, pc, at, got, mem, asked, baseline, unlisted, changes>>

\* judge and Save, in the order of the sources.
Judge(s, x) ==
    /\ pc = "judge" /\ x \in out[s]
    /\ \A t \in Sources : Rank[t] < Rank[s] => out[t] = {}
    /\ out' = [out EXCEPT ![s] = @ \ {x}]
    /\ \/ /\ Fingerprint[x] \in seen \/ x \notin Kept
          /\ lost' = lost \union Dropped(s, x)
          /\ UNCHANGED <<saved, seen, told, faults>>
       \/ /\ Fingerprint[x] \notin seen /\ x \in Kept
          /\ saved' = saved \union {x} /\ seen' = seen \union {Fingerprint[x]}
          /\ told' = IF Differs(s) THEN told \union {x} ELSE told
          /\ UNCHANGED <<lost, faults>>
       \/ /\ Fingerprint[x] \notin seen /\ x \in Kept
          /\ Fault /\ lost' = lost \union Dropped(s, x)
          /\ UNCHANGED <<saved, seen, told>>
    /\ UNCHANGED <<page, disk, pc, at, got, mem, asked, baseline, unlisted, changes>>

\* The rest of RunOnce (module Rounds).
EndRound ==
    /\ pc = "judge" /\ \A s \in Sources : out[s] = {}
    /\ pc' = "idle" /\ at' = [s \in Sources |-> "idle"]
    /\ UNCHANGED <<page, disk, saved, got, out, mem, seen, history>>

\* Only the two files survive.
Crash ==
    /\ pc # "down" /\ Fault
    /\ pc' = "down" /\ at' = [s \in Sources |-> "idle"]
    /\ got' = [s \in Sources |-> {}] /\ out' = [s \in Sources |-> {}]
    /\ mem' = <<>> /\ seen' = {}
    /\ lost' = lost \union UNION {InFlight(s) : s \in Sources}
    /\ asked' = Queries
    /\ UNCHANGED <<page, disk, saved, baseline, told, unlisted, changes>>

Collect(s) == Rotate(s) \/ NoAnswer(s) \/ Entries(s) \/ Answer(s) \/ Diff(s) \/ Write(s)

Step ==
    \/ Start \/ BeginRound \/ Join \/ EndRound
    \/ \E s \in Sources : Collect(s)
    \/ \E s \in Sources, x \in Things : Judge(s, x)

Next == Step \/ Crash \/ \E x \in Things : Change(x)

Spec == Init /\ [][Next]_vars

(***************************************************************************)
(* The loop goes on, and a round has finitely many steps: fetchAll gives   *)
(* every collector a deadline.  A catalogue or page asked again and again  *)
(* answers in the end; of the search engine that is not assumed.           *)
(***************************************************************************)
Fairness == WF_vars(Step) /\ \A s \in Sources : Differs(s) => SF_vars(Answer(s))

FairSpec == Spec /\ Fairness
-----------------------------------------------------------------------------
(***************************************************************************)
(* Properties                                                              *)
(***************************************************************************)
InHand == UNION {out[s] : s \in Sources}

\* The stored cursor never claims more than was done about it: whatever it holds
\* is in the log, on its way there, or was recorded by a first round; or else it
\* was dropped between the two files, by a crash, a failed write, the cap, the
\* keyword gate, Screen, or an earlier row with the same URL.  A fetch that
\* failed, a lost flush or the cursor of an earlier process adds nothing.
CursorIsAccounted ==
    \A s \in Sources : Differs(s) /\ KeyOf(s) \in DOMAIN disk =>
        disk[KeyOf(s)] \subseteq saved \union baseline \union lost \union InHand

\* What a differ brings into the log is news: some list it compared did not hold
\* it (openrouter may also report recent models in its first round).  In
\* particular nothing a crash or a lost flush does to the cursor makes the
\* baseline come out as news.
NothingOldIsNews ==
    \A x \in told : \/ x \in unlisted
                    \/ \E s \in Sources : KindOf[s] = "openrouter" /\ x \in On[s]
                                          /\ Created[x] >= Grace

\* A model that became free and stays free is reported in the end, or one of the
\* accidents above has happened to it: a round that fails leaves the change for
\* a later one.
FreeModelIsReported ==
    \A s \in Sources : KindOf[s] = "openrouter" =>
        \A x \in On[s] : <>[](x \in page) => <>(x \in saved \union baseline \union lost)

\* Every query of a search gets its turn again and again, though the engine may
\* refuse some of them for ever.
QueriesRotate ==
    (\E s \in Sources : KindOf[s] = "search") => \A i \in 0..(Queries - 1) : []<>(asked = i)
=============================================================================
