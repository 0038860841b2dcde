------------------------------- MODULE Ledger -------------------------------
(***************************************************************************)
(* What internal/store promises about findings: a table of rows, each with *)
(* the instant of its discovery and a mark that says it was pushed.  A row *)
(* enters once.  It leaves, or its mark changes otherwise than by being    *)
(* set, in two ways only: retention, when it is old and either weak or     *)
(* already given to the reader; or a rewrite from a read that did not      *)
(* reach it.                                                               *)
(***************************************************************************)
EXTENDS Integers

CONSTANTS Fps,      \* fingerprints
          Strong,   \* those scored at least 60, which retention keeps
          Keep      \* retention, in ticks; 0 keeps everything

VARIABLES rows,     \* the table: fingerprint -> instant of discovery
          marked,   \* rows whose pushed mark is recorded
          given,    \* fingerprints MarkPushed was ever asked to mark
          missed,   \* rows a read ended too early to see in full, until what
                    \* was read is written back or forgotten
          now       \* the clock

Init == rows = << >> /\ marked = {} /\ given = {} /\ missed = {} /\ now = 0

Record(f) ==
    /\ f \notin DOMAIN rows
    /\ rows' = [g \in DOMAIN rows \union {f} |-> IF g = f THEN now ELSE rows[g]]
    /\ UNCHANGED <<marked, given, missed, now>>

\* The delivery is a fact whether or not its mark reached the table.
Mark(f) ==
    /\ f \in DOMAIN rows
    /\ given' = given \union {f}
    /\ marked' \in {marked, marked \union {f}}
    /\ UNCHANGED <<rows, missed, now>>

\* A read that reached all rows but these; or what was read is not used.
Read(S) ==
    /\ S \subseteq DOMAIN rows
    /\ missed' = S
    /\ UNCHANGED <<rows, marked, given, now>>

Old(f) == Keep > 0 /\ rows[f] < now - Keep /\ f \in given \union (Fps \ Strong)

\* Rows are written back as they were read, without those in S.
Rewrite(S) ==
    /\ \A f \in S : f \in DOMAIN rows /\ (Old(f) \/ f \in missed)
    /\ rows' = [g \in DOMAIN rows \ S |-> rows[g]]
    /\ marked' \subseteq given \ S
    /\ \A f \in DOMAIN rows' \ missed : f \in marked' <=> f \in marked
    /\ missed' = {}
    /\ UNCHANGED <<given, now>>

Tick == now' = now + 1 /\ UNCHANGED <<rows, marked, given, missed>>

Next ==
    \/ Tick
    \/ \E f \in Fps : Record(f) \/ Mark(f)
    \/ \E S \in SUBSET Fps : Read(S) \/ Rewrite(S)

Spec == Init /\ [][Next]_<<rows, marked, given, missed, now>>
=============================================================================
