------------------------------- MODULE Store --------------------------------
(***************************************************************************)
(* internal/store/store.go: the findings log deals.jsonl and the indexes a *)
(* handle keeps of it.                                                     *)
(*                                                                         *)
(* The log is append-only: a correction or a pushed mark is a further row, *)
(* readers collapse the rows of a fingerprint to the last, fold the rows   *)
(* of one announcement to the first, and skip what does not parse.         *)
(* Compact replaces the file.  A handle is a process that opened the       *)
(* directory: the service, or a `dealhunter` command run beside it.  Each  *)
(* keeps indexes of its own and an append descriptor of its own, and its   *)
(* mutex excludes nobody but itself.                                       *)
(*                                                                         *)
(* A read of the file may end early: recentLocked answers nothing when the *)
(* file does not open, and with the rows before the failure when the scan  *)
(* stops.  Nobody who calls it is told.  loadLog does tell: Open then      *)
(* fails, and the process has not started.                                 *)
(*                                                                         *)
(* Left out: the counters of Stats (the dup index feeds nothing else), the *)
(* 5000-row window of appendFlag, and state.json (module Rounds).          *)
(***************************************************************************)
EXTENDS Integers, FiniteSets, SequencesExt

CONSTANTS
    Handles,    \* processes with the data directory open
    Fps,        \* fingerprints
    TitleOf,    \* the announcement a fingerprint's title dedupes to
    Strong,     \* fingerprints scored at least 60
    Keep,       \* compactKeepDays
    Tears,      \* TRUE: a failed write may leave part of a line
    None,
    MaxTime,    \* BOUND on the clock
    MaxRows,    \* BOUND on the rows of the log
    MaxFaults   \* BOUND on failed writes and reads, taken together

ASSUME StoreAssumption ==
    /\ TitleOf \in [Fps -> Fps] /\ Strong \subseteq Fps
    /\ Keep \in Nat /\ Tears \in BOOLEAN
    /\ None \notin Fps
    /\ MaxTime \in Nat /\ MaxRows \in Nat /\ MaxFaults \in Nat

VARIABLES
    now,
    \* ---- the file
    log,        \* the rows of deals.jsonl a reader can decode, in file order
    tail,       \* how the file ends: a full line, part of one, or a row
                \* that lacks only its newline
    \* ---- one per handle
    fd,         \* Store.log: the file at the path, one since renamed over,
                \* closed; or the process is not running
    seen, high, \* the indexes of the same names
    owners,     \* Store.titles: the fingerprints that own their title
    held,       \* a row read to be saved again
    plan,       \* the rows Compact has read and decided to keep
    \* ---- history, read by no action
    given,      \* fingerprints MarkPushed was called for
    acked,      \* rows of the log whose Save returned no error
    parted,     \* announcements retention has removed a row of, or a read
                \* that ended early has missed one of
    missed,     \* per handle: fingerprints with a row that the read behind
                \* its held row or its plan did not reach
    lost,       \* fingerprints a compaction left out because of that
    faults, misreads

handles == <<fd, seen, high, owners, held, plan>>
history == <<given, acked, parted, missed, lost>>
vars == <<now, log, tail, handles, history, faults, misreads>>

Row == [fp : Fps, at : 0..MaxTime, dup : BOOLEAN, pushed : BOOLEAN]

\* Every variable in its range, and no handle has two owners for one title.
TypeOK ==
    /\ now \in 0..MaxTime
    /\ log \in Seq(Row) /\ Len(log) <= MaxRows
    /\ tail \in {"line", "part", "row"}
    /\ fd \in [Handles -> {"down", "path", "stale", "closed"}]
    /\ seen \in [Handles -> SUBSET Fps] /\ high \in [Handles -> SUBSET Fps]
    /\ owners \in [Handles -> SUBSET Fps]
    /\ \A h \in Handles : \A f, g \in owners[h] : TitleOf[f] = TitleOf[g] => f = g
    /\ held \in [Handles -> Row \union {None}]
    /\ plan \in [Handles -> Seq(Row) \union {None}]
    /\ given \in SUBSET Fps /\ acked \in SUBSET Fps
    /\ parted \in SUBSET Fps /\ lost \in SUBSET Fps
    /\ missed \in [Handles -> SUBSET Fps]
    /\ faults \in 0..MaxFaults /\ misreads \in 0..MaxFaults
-----------------------------------------------------------------------------
(***************************************************************************)
(* recentLocked: what any reader makes of the rows it was given.           *)
(***************************************************************************)
FpsOf(rows) == {rows[i].fp : i \in DOMAIN rows}

PlacesIn(rows, f) == {i \in DOMAIN rows : rows[i].fp = f}
FirstIn(rows, f) == Min(PlacesIn(rows, f))
LatestIn(rows, f) == rows[Max(PlacesIn(rows, f))]

\* Mutant: any earlier row of the announcement owns it, a repeat included.
FoldedBehindRepeats(rows, f) ==
    \/ LatestIn(rows, f).dup
    \/ \E g \in FpsOf(rows) : TitleOf[g] = TitleOf[f] /\ FirstIn(rows, g) < FirstIn(rows, f)

\* The first unfolded row of an announcement owns it; later ones are repeats.
FoldedIn(rows, f) ==
    \/ LatestIn(rows, f).dup
    \/ \E g \in FpsOf(rows) : /\ TitleOf[g] = TitleOf[f] /\ ~LatestIn(rows, g).dup
                              /\ FirstIn(rows, g) < FirstIn(rows, f)

ViewIn(rows, f) == [LatestIn(rows, f) EXCEPT !.dup = FoldedIn(rows, f)]
ViewsOf(rows) == {ViewIn(rows, f) : f \in FpsOf(rows)}

\* Newest first; rows of one instant keep the order of the file.
Before(rows, r, q) ==
    \/ r.at > q.at
    \/ r.at = q.at /\ FirstIn(rows, r.fp) < FirstIn(rows, q.fp)

\* The views in S of these rows, in that order.
NewestFirst(rows, S) ==
    CHOOSE list \in [1..Cardinality(S) -> S] :
        \A i, j \in DOMAIN list : i < j => Before(rows, list[i], list[j])

\* What a reader who reaches the end of the file sees.
Kept == FpsOf(log)
First(f) == FirstIn(log, f)
Latest(f) == LatestIn(log, f)
View(f) == ViewIn(log, f)

\* A reader is given the rows up to the end of the file, or up to where the
\* read failed.
MissedBy(read) == {log[i].fp : i \in (Len(read) + 1)..Len(log)}

Reads(read) ==
    /\ IF Len(read) = Len(log)
       THEN UNCHANGED misreads
       ELSE faults + misreads < MaxFaults /\ misreads' = misreads + 1
    /\ parted' = parted \union {TitleOf[f] : f \in MissedBy(read)}

(***************************************************************************)
(* The indexes loadLog builds.                                             *)
(***************************************************************************)
PushedRows == {log[i].fp : i \in {j \in DOMAIN log : log[j].pushed}}
FirstOfTitle ==
    {f \in Kept : \A g \in Kept : TitleOf[g] = TitleOf[f] => First(f) <= First(g)}

TitleClash(h, f) == \E g \in owners[h] : g # f /\ TitleOf[g] = TitleOf[f]

\* Mutant: the last finding seen takes the title over.
RememberLast(h, r) ==
    /\ seen' = [seen EXCEPT ![h] = @ \union {r.fp}]
    /\ high' = [high EXCEPT ![h] = IF r.pushed THEN @ \union {r.fp} ELSE @]
    /\ owners' = [owners EXCEPT ![h] = @ \union {r.fp}]

\* rememberLocked: the first finding seen owns its title.
Remember(h, r) ==
    /\ seen' = [seen EXCEPT ![h] = @ \union {r.fp}]
    /\ high' = [high EXCEPT ![h] = IF r.pushed THEN @ \union {r.fp} ELSE @]
    /\ owners' = [owners EXCEPT ![h] = IF TitleClash(h, r.fp) THEN @ ELSE @ \union {r.fp}]

Fault == faults + misreads < MaxFaults /\ faults' = faults + 1

\* A row appended to a file that ends inside a line joins that line, and the
\* two are unreadable together.
Landed(r) ==
    CASE tail = "line" -> Append(log, r)
      [] tail = "part" -> log
      [] tail = "row"  -> Front(log)

\* log.Write returned no error.  A descriptor of a file that was renamed over
\* takes the row where no reader looks.
Written(h, r) ==
    /\ fd[h] \in {"path", "stale"}
    /\ IF fd[h] = "path"
       THEN log' = Landed(r) /\ Len(log') <= MaxRows /\ tail' = "line"
       ELSE UNCHANGED <<log, tail>>
    /\ UNCHANGED faults

\* It returned one: the descriptor is closed, or the disk refused the line or
\* the end of it.
Refused(h, r) ==
    \/ fd[h] = "closed" /\ UNCHANGED <<log, tail, faults>>
    \/ Fault /\ UNCHANGED <<log, tail>>
    \/ /\ Tears /\ fd[h] = "path" /\ tail = "line" /\ Fault
       /\ \/ tail' = "part" /\ UNCHANGED log
          \/ tail' = "row" /\ log' = Append(log, r) /\ Len(log') <= MaxRows

Idle(h) == fd[h] # "down" /\ held[h] = None /\ plan[h] = None
-----------------------------------------------------------------------------
Init ==
    /\ now = 0 /\ log = << >> /\ tail = "line"
    /\ fd = [h \in Handles |-> "down"]
    /\ seen = [h \in Handles |-> {}] /\ high = [h \in Handles |-> {}]
    /\ owners = [h \in Handles |-> {}]
    /\ held = [h \in Handles |-> None] /\ plan = [h \in Handles |-> None]
    /\ given = {} /\ acked = {} /\ parted = {} /\ lost = {}
    /\ missed = [h \in Handles |-> {}]
    /\ faults = 0 /\ misreads = 0

Tick ==
    /\ now < MaxTime /\ now' = now + 1
    /\ UNCHANGED <<log, tail, handles, history, faults, misreads>>

Open(h) ==
    /\ fd[h] = "down"
    /\ fd' = [fd EXCEPT ![h] = "path"]
    /\ seen' = [seen EXCEPT ![h] = Kept]
    /\ high' = [high EXCEPT ![h] = PushedRows]
    /\ owners' = [owners EXCEPT ![h] = FirstOfTitle]
    /\ UNCHANGED <<now, log, tail, held, plan, history, faults, misreads>>

\* Close, exit or kill, wherever the process is: memory goes, the file stays.
Stop(h) ==
    /\ fd[h] # "down"
    /\ fd' = [fd EXCEPT ![h] = "down"]
    /\ seen' = [seen EXCEPT ![h] = {}] /\ high' = [high EXCEPT ![h] = {}]
    /\ owners' = [owners EXCEPT ![h] = {}]
    /\ held' = [held EXCEPT ![h] = None] /\ plan' = [plan EXCEPT ![h] = None]
    /\ missed' = [missed EXCEPT ![h] = {}]
    /\ UNCHANGED <<now, log, tail, given, acked, parted, lost, faults, misreads>>

\* Mutant: remembered first, appended second.
SaveRemembersFirst(h, r) ==
    /\ Remember(h, r)
    /\ \/ Written(h, r) /\ acked' = acked \union {r.fp}
       \/ Refused(h, r) /\ UNCHANGED acked
    /\ UNCHANGED <<now, fd, plan, given, parted, lost, misreads>>

\* Save: append, then remember.  A refused row is not remembered.
Save(h, r) ==
    /\ \/ Written(h, r) /\ Remember(h, r) /\ acked' = acked \union {r.fp}
       \/ Refused(h, r) /\ UNCHANGED <<seen, high, owners, acked>>
    /\ UNCHANGED <<now, fd, plan, given, parted, lost, misreads>>

\* The collection round's use of Seen, TitleClash and Save.
Discover(h, f) ==
    /\ Idle(h) /\ f \notin seen[h]
    /\ Save(h, [fp |-> f, at |-> now, dup |-> TitleClash(h, f), pushed |-> FALSE])
    /\ UNCHANGED <<held, missed>>

\* Reading a row to correct it (verifyForBriefing, reparse -write), and saving
\* it as it was read.
Hold(h, f) ==
    /\ Idle(h)
    /\ \E read \in Prefixes(log) :
         /\ Reads(read) /\ f \in FpsOf(read)
         /\ held' = [held EXCEPT ![h] = ViewIn(read, f)]
         /\ missed' = [missed EXCEPT ![h] = MissedBy(read)]
    /\ UNCHANGED <<now, log, tail, fd, seen, high, owners, plan, given, acked, lost, faults>>

SaveHeld(h) ==
    /\ held[h] # None
    /\ Save(h, held[h])
    /\ held' = [held EXCEPT ![h] = None]
    /\ missed' = [missed EXCEPT ![h] = {}]

\* MarkPushed and appendFlag: memory first, then the row as the file has it
\* with the flag set.  A row the read does not show is no error.
MarkPushed(h, f) ==
    /\ Idle(h) /\ f \in seen[h]
    /\ high' = [high EXCEPT ![h] = @ \union {f}]
    /\ given' = given \union {f}
    /\ \E read \in Prefixes(log) :
         /\ Reads(read)
         /\ IF f \in FpsOf(read)
            THEN LET r == [ViewIn(read, f) EXCEPT !.pushed = TRUE] IN
                 Written(h, r) \/ Refused(h, r)
            ELSE UNCHANGED <<log, tail, faults>>
    /\ UNCHANGED <<now, fd, seen, owners, held, plan, acked, missed, lost>>
-----------------------------------------------------------------------------
(***************************************************************************)
(* Compact.                                                                *)
(***************************************************************************)
\* Mutant: retention forgets the age test of the pushed rows.
ExpiredOnceShown(h, r) ==
    Keep > 0 /\ (r.fp \in high[h] \/ (r.at < now - Keep /\ r.fp \notin Strong))

\* Past retention, and weak or already pushed by what this process remembers.
\* With no retention set nothing expires.
Expired(h, r) ==
    Keep > 0 /\ r.at < now - Keep /\ (r.fp \in high[h] \/ r.fp \notin Strong)

\* What was read is filtered ...
CompactRead(h) ==
    /\ Idle(h)
    /\ \E read \in Prefixes(log) :
         /\ Reads(read)
         /\ plan' = [plan EXCEPT ![h] =
                       NewestFirst(read, {r \in ViewsOf(read) : ~Expired(h, r)})]
         /\ missed' = [missed EXCEPT ![h] = MissedBy(read)]
    /\ UNCHANGED <<now, log, tail, fd, seen, high, owners, held, given, acked, lost, faults>>

\* ... and does not reach the path: the temporary file failed, the descriptor
\* was closed already, or it is closed now and the rename failed.
CompactFails(h) ==
    /\ plan[h] # None
    /\ plan' = [plan EXCEPT ![h] = None]
    /\ missed' = [missed EXCEPT ![h] = {}]
    /\ \/ fd[h] = "closed" /\ UNCHANGED <<fd, faults>>
       \/ Fault /\ UNCHANGED fd
       \/ Fault /\ fd' = [fd EXCEPT ![h] = "closed"]
    /\ UNCHANGED <<now, log, tail, seen, high, owners, held, given, acked, parted, lost, misreads>>

\* ... or replaces the file.  seen is rebuilt; high and titles keep what was
\* dropped.  If state.json cannot be flushed the log is not opened again.
CompactSwap(h) ==
    /\ plan[h] # None /\ fd[h] # "closed"
    /\ log' = plan[h] /\ tail' = "line"
    /\ seen' = [seen EXCEPT ![h] = FpsOf(plan[h])]
    /\ plan' = [plan EXCEPT ![h] = None]
    /\ missed' = [missed EXCEPT ![h] = {}]
    /\ \E reopened \in BOOLEAN :
         /\ fd' = [g \in Handles |->
                     CASE g = h -> IF reopened THEN "path" ELSE "closed"
                       [] g # h /\ fd[g] = "path" -> "stale"
                       [] OTHER -> fd[g]]
         /\ IF reopened THEN UNCHANGED faults ELSE Fault
    /\ LET dropped == {f \in Kept \ FpsOf(plan[h]) : Expired(h, View(f))} IN
         /\ acked' = acked \ dropped
         /\ parted' = parted \union {TitleOf[f] : f \in dropped}
    /\ lost' = lost \union (missed[h] \ FpsOf(plan[h]))
    /\ UNCHANGED <<now, high, owners, held, given, misreads>>

Next ==
    \/ Tick
    \/ \E h \in Handles :
         \/ Open(h) \/ Stop(h) \/ SaveHeld(h)
         \/ CompactRead(h) \/ CompactFails(h) \/ CompactSwap(h)
         \/ \E f \in Fps : Discover(h, f) \/ Hold(h, f) \/ MarkPushed(h, f)

Spec == Init /\ [][Next]_vars
-----------------------------------------------------------------------------
(***************************************************************************)
(* Properties                                                              *)
(***************************************************************************)

\* A process and the file agree on what was discovered, through failed writes
\* and failed compactions: a restart neither forgets a finding the process was
\* suppressing nor suppresses one it was not.
RestartAgrees ==
    \A h \in Handles : fd[h] # "down" => seen[h] = Kept

\* Folding never silences an announcement: a row readers skip as a repeat has a
\* row of the same announcement they do not skip, whatever writes failed and
\* whatever restarted or reordered the file in between; only retention, or a
\* read that ended before a row of it, may take the original away.
RepeatsHaveAnOriginal ==
    \A f \in Kept :
        View(f).dup => \/ \E g \in Kept : TitleOf[g] = TitleOf[f] /\ ~View(g).dup
                       \/ TitleOf[f] \in parted

\* The log, its corrections, folds and compactions implement the table of
\* module Ledger.
Table == INSTANCE Ledger WITH
    rows   <- [f \in Kept |-> View(f).at],
    marked <- {f \in Kept : View(f).pushed},
    missed <- UNION {missed[h] : h \in Handles}
ImplementsLedger == Table!Spec

\* Save "appends a deal to the log and records its fingerprint", "a torn final
\* line from a crash must not make the store unusable", and Compact rewrites
\* the log "keeping one row per fingerprint" (store.go): what Save accepted can
\* be read back, until retention drops it.
SavedIsReadable == acked \subseteq Kept

\* What of that the code keeps: an accepted row can be read back until retention
\* drops it, or a compaction that did not read it leaves it out.
SavedUnlessMissed == acked \subseteq Kept \union lost
=============================================================================
