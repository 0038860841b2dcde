----------------------------- MODULE Screening ------------------------------
(***************************************************************************)
(* From a candidate to a stored row and back: Screen and Evaluate decide   *)
(* whether a finding is kept, with which score and clocks; `reparse`       *)
(* (cmd/dealhunter) reads the clocks of stored rows again with the parser  *)
(* of a later build, while the service may be writing the same rows.       *)
(*                                                                         *)
(* A finding is the evidence the dictionary finds in its text, its own     *)
(* moments, and the words of the filter it contains.                       *)
(***************************************************************************)
EXTENDS Deadlines, FiniteSets

CONSTANTS
    Slots,          \* BOUND: room in the log, the newest row first
    Findings,       \* what the sources may bring for a place in the log
    EarlyRules,     \* the deadline rules of the build that runs first
    LateRules,      \* and of the one installed later
    HasRequired, HasAllowed, RequireOffer,  \* filter: which lists are set
    MaxAge          \* filter.max_age_hours in minutes, 0: none

\* What is known of a candidate: its text, the same text with the evidence behind
\* it, its moments, and the evidence found.
Candidates ==
    [text : Texts, stored : Texts, published : Seq(Moments), judged : Moments, discovered : Moments,
     kinds : SUBSET STRING, offers : Nat, zhe : Nat, percents : SUBSET Nat, vendor : BOOLEAN,
     product : BOOLEAN, official : BOOLEAN, trust : Int, words : SUBSET STRING]

ASSUME ScreeningAssumption ==
    /\ \A i \in 1..Slots : Findings[i] \subseteq Candidates
    /\ Slots \in Nat \ {0} /\ MaxAge \in Nat
    /\ EarlyRules \subseteq LateRules
    /\ {HasRequired, HasAllowed, RequireOffer} \subseteq BOOLEAN
    /\ \A i \in 1..Slots : \A f \in Findings[i] : Cardinality(f.kinds) <= f.offers

VARIABLES
    log,        \* the rows of the log
    rules,      \* the rules of the installed build
    batch,      \* reparse: the rows as it read them
    next,       \* reparse: the row it is at, 0 when none runs
    write,      \* reparse: -write
    alone       \* history: nobody else has written since batch was read
screeningVars == <<log, rules, batch, next, write, alone>>

Absent == <<>>
-----------------------------------------------------------------------------
(* Scoring. *)
Clamp(v, lo, hi) == IF v < lo THEN lo ELSE IF v > hi THEN hi ELSE v

\* DiscountPct: the first "N off ten", or a larger percentage that makes sense.
DiscountPct(f) ==
    Max({0} \union (IF f.zhe \in 1..9 THEN {(10 - f.zhe) * 10} ELSE {})
                \union {n \in f.percents : n \in 5..100})

DiscountBonus(pct) == IF pct >= 50 THEN 12 ELSE IF pct >= 30 THEN 8 ELSE IF pct >= 10 THEN 4 ELSE 0

\* Mutant: a trial is looked for before a credit.
OfferValueTrialFirst(kinds) ==
    IF "free" \in kinds THEN 45 ELSE IF "trial" \in kinds THEN 20
    ELSE IF "credit" \in kinds THEN 30 ELSE IF "discount" \in kinds THEN 24
    ELSE IF "coupon" \in kinds THEN 16 ELSE 0

\* The best kind of offer counts, and no other.
OfferValue(kinds) ==
    IF "free" \in kinds THEN 45 ELSE IF "credit" \in kinds THEN 30
    ELSE IF "discount" \in kinds THEN 24 ELSE IF "trial" \in kinds THEN 20
    ELSE IF "coupon" \in kinds THEN 16 ELSE 0

\* A stated price cut is worth a discount even where no word says so.
Offered(f) ==
    LET pct == DiscountPct(f)
        v == DiscountBonus(pct) + OfferValue(f.kinds)
    IN  IF "free" \notin f.kinds /\ pct > 0 /\ v < 24 THEN 24 ELSE v

Age(f) == Instant(f.judged) - Instant(f.published[1])
Freshness(f) ==
    IF f.published = <<>> THEN 0
    ELSE IF Age(f) <= DayMinutes THEN 12 ELSE IF Age(f) <= 3 * DayMinutes THEN 8
    ELSE IF Age(f) <= 7 * DayMinutes THEN 4 ELSE IF Age(f) > 30 * DayMinutes THEN -12
    ELSE 0

If(on, points) == IF on THEN points ELSE 0
Score(f) ==
    Clamp(Offered(f) + If(f.vendor, 10) + If(f.product, 12) + If(f.official, 10)
          + Clamp(f.trust, 0, 10) + If(f.offers > 1, 4) + Freshness(f), 0, 100)
-----------------------------------------------------------------------------
(* Screening. *)

\* Evaluate reads the clocks against the day of publication, or its own.
JudgeAnchor(f) == IF f.published # <<>> THEN f.published[1] ELSE f.judged

Clocks(t, anchor) == [expires |-> ExpiresAt(t, anchor, rules), starts |-> StartsAt(t, anchor)]

Expired(f) ==
    LET end == Clocks(f.text, JudgeAnchor(f)).expires
    IN  end # None /\ end < Instant(f.judged)

\* Screen and Evaluate: every ground for turning a finding away.
Passes(f) ==
    /\ "deny" \notin f.words
    /\ HasRequired => "require" \in f.words
    /\ MaxAge > 0 /\ f.published # <<>> => Age(f) <= MaxAge
    /\ RequireOffer => f.offers > 0
    /\ "noise" \notin f.words
    /\ ~Expired(f)
    /\ Score(f) > 0
    /\ HasAllowed => "allow" \in f.words

ScreeningInit ==
    /\ log = [i \in 1..Slots |-> Absent]
    /\ rules = EarlyRules
    /\ batch = <<>> /\ next = 0 /\ write = FALSE /\ alone = TRUE

\* judge and Save: the row as the round stores it; a title somebody owns already
\* makes it a copy.  What is not kept, or not saved, leaves no trace.
Enter(i, f) ==
    /\ log[i] = Absent /\ \A j \in (i + 1)..Slots : log[j] # Absent
    /\ Passes(f)
    /\ \E copy \in BOOLEAN :
          log' = [log EXCEPT ![i] = [finding |-> f, score |-> Score(f), copy |-> copy,
                                     clocks |-> Clocks(f.text, JudgeAnchor(f)),
                                     readBy |-> rules, edition |-> 0]]
    /\ alone' = (next = 0)
    /\ UNCHANGED <<rules, batch, next, write>>

\* The service stores a row again, pushed or with another score.
Rewrite(i) ==
    /\ log[i] # Absent /\ log[i].edition = 0
    /\ log' = [log EXCEPT ![i].edition = 1]
    /\ alone' = (next = 0)
    /\ UNCHANGED <<rules, batch, next, write>>

\* A build whose parser reads more is installed.
Upgrade ==
    /\ rules # LateRules /\ next = 0
    /\ rules' = LateRules
    /\ UNCHANGED <<log, batch, next, write, alone>>
-----------------------------------------------------------------------------
(* reparse. *)

\* A stored row's text ends in the evidence of its offers: windows of the title and
\* the summary, each from 16 runes before a keyword to 64 behind, in which line
\* breaks are spaces.  A window repeats phrases; but it may lack the lead-in of the
\* date it begins with, or digits of a date at its edges, and it joins lines.
StoredText(f) == IF f.offers > 0 THEN f.stored ELSE f.text

\* Mutant: every row is read against the day it was found.
ReparseAnchorIsFound(f) == f.discovered

\* (No row lacks both dates: the round dates every finding it judges.)
ReparseAnchor(f) == IF f.published # <<>> THEN f.published[1] ELSE f.discovered

\* reparseRow: what is read replaces what is stored, what is not read stays, and
\* a folded copy is left alone.
Reread(row) ==
    LET read == Clocks(StoredText(row.finding), ReparseAnchor(row.finding))
        Newer(field) == IF read[field] # None THEN read[field] ELSE row.clocks[field]
    IN  IF row.copy THEN row
        ELSE [row EXCEPT !.clocks = [expires |-> Newer("expires"), starts |-> Newer("starts")]]

Corrected(row) == IF row = Absent THEN FALSE ELSE Reread(row) # row

\* The command reads the whole log once.
StartReparse ==
    /\ next = 0
    /\ batch' = log /\ next' = 1 /\ alone' = TRUE
    /\ write' \in BOOLEAN
    /\ UNCHANGED <<log, rules>>

Done == next' = 0 /\ batch' = <<>> /\ write' = FALSE /\ alone' = TRUE
Advance ==
    IF next = Slots THEN Done
    ELSE next' = next + 1 /\ UNCHANGED <<batch, write, alone>>

\* Only reported, or nothing to report.
Pass ==
    /\ next > 0
    /\ write => ~Corrected(batch[next])
    /\ Advance
    /\ UNCHANGED <<log, rules>>

\* Appends the row as it was read, with its clocks corrected.
WriteBack ==
    /\ next > 0 /\ write /\ Corrected(batch[next])
    /\ log' = [log EXCEPT ![next] = Reread(batch[next])]
    /\ Advance
    /\ UNCHANGED rules

\* A failed Save ends the command, and so does a crash.
Stop ==
    /\ next > 0
    /\ Done
    /\ UNCHANGED <<log, rules>>

ScreeningNext ==
    \/ \E i \in 1..Slots : (\E f \in Findings[i] : Enter(i, f)) \/ Rewrite(i)
    \/ Upgrade \/ StartReparse \/ Pass \/ WriteBack \/ Stop

ScreeningSpec == ScreeningInit /\ [][ScreeningNext]_screeningVars
-----------------------------------------------------------------------------
Rows == {log[i] : i \in {j \in 1..Slots : log[j] # Absent}}

\* A deadline written without a year ("before 9-30", "to 1-5") is the one such
\* date in the 45 days from the announcement on, across the turn of the year and
\* in leap years, and no deadline at all where there is none
\* (keywords.go:556-584).
YearlessIsTheNextSuchDate ==
    \A row \in Rows :
        LET f == row.finding
            anchor == JudgeAnchor(f)
            dates(p) == {Minutes(y, p.month, p.day, ClockAfter(p.clock)) :
                            y \in {n \in (anchor.year - 1)..(anchor.year + 2) :
                                      Possible(n, p.month, p.day)}}
            ahead(p) == {i \in dates(p) : /\ i >= Instant(anchor)
                                          /\ i <= Instant(anchor) + YearlessSpan}
            read(p) == YearlessDeadline(p.month, p.day, p.clock, anchor)
        IN  \A p \in Range(f.text.lead \o f.text.pre) :
                IF ahead(p) = {} THEN read(p) = None ELSE {read(p)} = ahead(p)

\* Evidence only ever adds: a finding with one more kind of offer, a vendor or a
\* product named, an official page, a deeper cut, a better source or a later
\* publication never scores below one without (scoring.go:105-194).
Stronger(f) ==
    {[f EXCEPT !.kinds = @ \union {k}, !.offers = @ + 1]
        : k \in {"free", "credit", "discount", "trial", "coupon"}}
    \union {[f EXCEPT !.vendor = TRUE], [f EXCEPT !.product = TRUE], [f EXCEPT !.official = TRUE],
            [f EXCEPT !.trust = @ + 1], [f EXCEPT !.offers = @ + 1]}
    \union {[f EXCEPT !.percents = @ \union {n}] : n \in {5, 10, 30, 50, 100}}
    \union {[f EXCEPT !.published[1].day = @ + d]
        : d \in IF f.published = <<>> THEN {} ELSE {1, 3, 7, 30}}

StrongerEvidenceScoresHigher ==
    \A row \in Rows : \A g \in Stronger(row.finding) : Score(g) >= row.score

\* A finding that reads the same in the log as when it was judged: against the same
\* day, and with evidence that only repeats whole phrases of its text.
OnlyRepeats(t, s) ==
    /\ s = [t EXCEPT !.opens = s.opens]
    /\ IsPrefix(t.opens, s.opens) /\ Range(s.opens) \subseteq Range(t.opens)

SameReading(f) ==
    /\ f.published # <<>> \/ f.discovered = f.judged
    /\ f.offers = 0 \/ OnlyRepeats(f.text, f.stored)

\* "It changes time fields only" (main.go:888-895).  While nobody else writes, a
\* row that reparse stores keeps everything but its clocks, loses none of them,
\* is no folded copy, and is what a second run reads, so that it is reported
\* once.  A row the same build has judged is not touched, unless its moment of
\* judgement stood in for its date or its evidence does more than repeat it.
ReparseCorrectsTheClocks ==
    [][\A i \in 1..Slots : next > 0 /\ alone /\ alone' /\ log[i] # log'[i] =>
          /\ log'[i] = [log[i] EXCEPT !.clocks = log'[i].clocks]
          /\ \A field \in {"expires", "starts"} :
                log[i].clocks[field] # None => log'[i].clocks[field] # None
          /\ ~log[i].copy
          /\ Reread(log'[i]) = log'[i]
          /\ log[i].readBy = rules => ~SameReading(log[i].finding)]_screeningVars
=============================================================================
