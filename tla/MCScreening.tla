---------------------------- MODULE MCScreening -----------------------------
(***************************************************************************)
(* Two rows.  The older one varies one side at a time: its date phrases,   *)
(* around the turn of a leap year, with plain evidence; or its evidence,   *)
(* with a text that says nothing of a clock.                               *)
(***************************************************************************)
EXTENDS Screening

At(y, m, d, minute) == [year |-> y, month |-> m, day |-> d, minute |-> minute]
Turn == At(2027, 12, 20, 600)
Leaping == At(2028, 1, 16, 1438)
Spring == At(2028, 2, 29, 0)
Later(c, days) == [c EXCEPT !.day = @ + days]

Plain == [stated |-> <<>>, range |-> <<>>, lead |-> <<>>, pre |-> <<>>, short |-> <<>>,
          span |-> <<>>, opens |-> <<>>, dated |-> FALSE]
Day == [Plain EXCEPT !.dated = TRUE]
Clock(part, hour, min) == <<[part |-> part, hour |-> hour, min |-> min]>>
Date(y, m, d, clock) == [year |-> y, month |-> m, day |-> d, clock |-> clock]
MonthDay(m, d, clock) == [month |-> m, day |-> d, clock |-> clock]

\* A date with an hour, behind a deadline word or not.
Opening(m, d, k, closing) ==
    [year |-> 0, month |-> m, day |-> d, part |-> k.part, hour |-> k.hour, min |-> k.min,
     closing |-> closing]
Ten == [part |-> "am", hour |-> 10, min |-> 0]

\* A date without a year, on either side of the anchors or of their span.
Yearless ==
    {[Day EXCEPT !.lead = <<MonthDay(md[1], md[2], <<>>)>>] :
        md \in {<<12, 19>>, <<12, 20>>, <<2, 3>>, <<2, 29>>, <<3, 1>>, <<2, 30>>, <<4, 15>>}}
    \union {[Day EXCEPT !.lead = <<MonthDay(12, 20, k)>>, !.pre = <<MonthDay(1, 5, <<>>)>>,
                         !.opens = <<Opening(12, 20, k[1], TRUE)>>] :
        k \in {Clock("am", 9, 0), Clock("noon", 10, 30), Clock("pm", 24, 0), Clock("pm", 6, 75)}}

\* "Ends on 31 January, 10:00", which opens nothing, and what opens on the 25th.
Ending == [Day EXCEPT !.lead = <<MonthDay(1, 31, <<Ten>>)>>,
                      !.opens = <<Opening(1, 31, Ten, TRUE)>>]
Both == [Ending EXCEPT !.opens = @ \o <<Opening(1, 25, Ten, FALSE)>>]

\* One text for each of the other patterns, and some that combine them.
Other ==
    {Plain,
     [Day EXCEPT !.stated = <<Date(2027, 2, 29, <<>>), Date(2028, 3, 31, Clock("pm", 6, 0))>>],
     [Day EXCEPT !.stated = <<Date(2026, 1, 1, <<>>)>>],
     [Day EXCEPT !.range = <<[led |-> TRUE, year |-> 2028, month |-> 4, day |-> 1,
                                clock |-> Clock("am", 24, 0)]>>,
                   !.lead = <<MonthDay(2, 1, <<>>)>>],
     [Day EXCEPT !.range = <<[led |-> TRUE, year |-> 2028, month |-> 4, day |-> 1,
                                clock |-> Clock("am", 23, 59)]>>],
     [Day EXCEPT !.short = <<[month |-> 1, day |-> 20, tail |-> 27, clock |-> <<>>]>>],
     [Day EXCEPT !.short = <<[month |-> 1, day |-> 20, tail |-> 3, clock |-> <<>>]>>],
     [Plain EXCEPT !.span = <<[n |-> 1, unit |-> "month"]>>],
     [Plain EXCEPT !.span = <<[n |-> 72, unit |-> "hour"]>>],
     [Plain EXCEPT !.span = <<[n |-> 2, unit |-> "week"]>>, !.opens = <<Opening(1, 31, Ten, FALSE)>>],
     [Plain EXCEPT !.stated = <<Date(2027, 2, 29, <<>>)>>, !.span = <<[n |-> 2, unit |-> "week"]>>],
     Both}

Base == [text |-> Plain, stored |-> Plain, published |-> <<>>, judged |-> Turn, discovered |-> Turn,
         kinds |-> {"trial"}, offers |-> 1, zhe |-> 0, percents |-> {}, vendor |-> FALSE,
         product |-> FALSE, official |-> FALSE, trust |-> 0, words |-> {}]

\* A finding with a text whose evidence adds nothing to it, or reads like s.
Says(f, t) == [f EXCEPT !.text = t, !.stored = t]
Quoting(f, t, s) == [f EXCEPT !.text = t, !.stored = s]

Dates == {Says([Base EXCEPT !.judged = c, !.discovered = c], t) :
             t \in Yearless, c \in {Turn, Leaping, Spring}}
         \union {Says([Base EXCEPT !.judged = Leaping, !.discovered = Leaping], t) : t \in Other}
         \union {Says([Base EXCEPT !.published = <<Turn>>, !.judged = Later(Turn, 1),
                                   !.discovered = Later(Turn, 1)], t) :
                    t \in Yearless \union Other}
         \union {Says([Base EXCEPT !.judged = Later(Turn, 1), !.discovered = Turn],
                      [Plain EXCEPT !.span = <<[n |-> 3, unit |-> "day"]>>])}

\* What windows of the text do to it: repeat its phrases, join a lead-in and a date
\* that stand on two lines, lose the lead-in of a date, or digits of it.
Published == [Base EXCEPT !.published = <<Turn>>]
Cut == Quoting(Published, Ending, [Ending EXCEPT !.opens = @ \o <<Opening(1, 31, Ten, FALSE)>>])
Quoted ==
    {Cut,
     Quoting(Published, Both, [Both EXCEPT !.opens = @ \o @]),
     Quoting(Published, Day, [Day EXCEPT !.lead = <<MonthDay(1, 31, <<>>)>>]),
     Quoting(Published, [Day EXCEPT !.opens = <<Opening(12, 25, Ten, TRUE)>>],
                        [Day EXCEPT !.opens = <<Opening(12, 25, Ten, TRUE),
                                                Opening(2, 25, Ten, FALSE)>>])}

Evidence == {[Base EXCEPT !.kinds = ks, !.offers = Cardinality(ks), !.zhe = z, !.trust = n,
                          !.published = p] :
                ks \in {{}, {"trial"}, {"credit", "coupon"}, {"free"}},
                z \in {0, 7}, n \in {9},
                p \in {<<>>, <<Turn>>, <<At(2027, 12, 13, 600)>>, <<At(2027, 11, 20, 599)>>}}
            \union {[Base EXCEPT !.percents = {4, 5}, !.kinds = {"coupon"}],
                    [Base EXCEPT !.words = {"deny"}], [Base EXCEPT !.words = {"noise"}],
                    [Base EXCEPT !.vendor = TRUE, !.product = TRUE, !.official = TRUE]}

\* For the newer row: a duration, a close that a window turns into an opening, and
\* no clock at all.
Few == {Base, Cut, Says(Base, [Plain EXCEPT !.span = <<[n |-> 1, unit |-> "month"]>>])}

MCFindings == <<Few, Dates \union Quoted \union Evidence>>
=============================================================================
