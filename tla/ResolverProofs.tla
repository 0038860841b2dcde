--------------------------- MODULE ResolverProofs ---------------------------
(***************************************************************************)
(* Proofs about Resolver, for every web, every set of rows and every       *)
(* bound: a pass never overspends its budget, and every link presented is  *)
(* the vendor's and has answered.                                          *)
(*                                                                         *)
(* Both invariants are about rows, and a row's link can come out of either *)
(* cache, so LinkInv also says what the caches hold: a page verdict leads  *)
(* from a page to one of the same owner, a row's verdict to a page of the  *)
(* row's vendor.  It needs the type of the state, and so TypeOK comes      *)
(* first.                                                                  *)
(***************************************************************************)
EXTENDS Resolver, TLAPS

-----------------------------------------------------------------------------
(***************************************************************************)
(* Type correctness                                                        *)
(***************************************************************************)

LEMMA LabelledType ==
    ASSUME NEW d \in Deal, NEW u \in Pages \union {None}, NEW k \in Kinds, NEW b \in Reasons
    PROVE  /\ Labelled(d, u, k, b) \in Deal
           /\ Labelled(d, u, k, b).site = d.site /\ Labelled(d, u, k, b).url = u
BY DEF Labelled, Deal

LEMMA BumpedType ==
    ASSUME NEW d \in Deal, NEW n \in Int
    PROVE  /\ Bumped(d, n) \in Deal
           /\ Bumped(d, n).site = d.site /\ Bumped(d, n).url = d.url
<1>1. d.score + n \in Int /\ d.score \in 0..100
    BY DEF Deal
<1>2. (IF d.score + n < 0 THEN 0 ELSE IF d.score + n > 100 THEN 100 ELSE d.score + n) \in 0..100
    BY <1>1
<1>3. QED
    BY <1>2 DEF Bumped, Deal

LEMMA LabelCheapType ==
    \A r \in Rows : /\ LabelCheap(r) \in Deal
                    /\ LabelCheap(r).url = None /\ LabelCheap(r).site = None
<1> TAKE r \in Rows
<1> DEFINE d == [score |-> Score[r], kind |-> "", by |-> "", url |-> None, site |-> None]
<1>1. d \in Deal
    BY ResolverAssumption DEF Deal, Kinds, Reasons
<1>2. /\ Labelled(d, None, "official", "domain") \in Deal
      /\ Labelled(d, None, "third_party", "no-vendor") \in Deal
    BY <1>1, LabelledType DEF Kinds, Reasons
<1>3. \A l \in {d, Labelled(d, None, "official", "domain"),
                Labelled(d, None, "third_party", "no-vendor")} :
          l.url = None /\ l.site = None
    <2>1. d.url = None /\ d.site = None
        OBVIOUS
    <2> HIDE DEF d
    <2>2. \A k \in Kinds, b \in Reasons :
              Labelled(d, None, k, b).url = None /\ Labelled(d, None, k, b).site = None
        BY <1>1, <2>1, LabelledType
    <2>3. QED
        BY <2>1, <2>2 DEF Kinds, Reasons
<1>4. LabelCheap(r) \in {d, Labelled(d, None, "official", "domain"),
                         Labelled(d, None, "third_party", "no-vendor")}
    BY DEF LabelCheap
<1>5. QED
    BY <1>1, <1>2, <1>3, <1>4

LEMMA VerdictType ==
    ASSUME TypeOK, NEW p \in Pages, NEW v, NEW a \in Answers
    PROVE  /\ Verdict(p, v, a) \in PageVerdict
           /\ Verified(p, v, a) => /\ pages' \in [Pages -> PageVerdict \union {None}]
                                   /\ proved' \in [Pages -> 0..MaxTime \union {Never}]
<1>1. Verdict(p, v, a) \in PageVerdict
    <2>1. CASE Current(pages[p])
        BY <2>1 DEF TypeOK, Verdict, Current
    <2>2. CASE ~Current(pages[p])
        BY <2>2 DEF TypeOK, Verdict, Probe, PageVerdict, Answers
    <2>3. QED
        BY <2>1, <2>2
<1>2. ASSUME Verified(p, v, a)
      PROVE  pages' \in [Pages -> PageVerdict \union {None}]
    BY <1>1, <1>2 DEF Verified, TypeOK
<1>3. ASSUME Verified(p, v, a)
      PROVE  proved' \in [Pages -> 0..MaxTime \union {Never}]
    BY <1>3 DEF Verified, TypeOK, Answers
<1>4. QED
    BY <1>1, <1>2, <1>3

\* What a side door changes, whether or not it is tried.
LEMMA AttachType ==
    ASSUME TypeOK, NEW r \in Rows, NEW d \in Deal, NEW n \in Nat, NEW q \in Nat,
           NEW a \in Answers, Vendor[r] # None, Attach(r, d, n, q, a)
    PROVE  /\ work'[r] \in Deal /\ \A x \in Rows \ {r} : work'[x] = work[x]
           /\ work' \in [Rows -> Deal \union {None}]
           /\ lookups' \in Nat /\ requests' \in Nat
           /\ pages' \in [Pages -> PageVerdict \union {None}]
           /\ proved' \in [Pages -> 0..MaxTime \union {Never}]
<1>1. Vendor[r] \in Vendors
    BY ResolverAssumption
<1>2. CASE SideDoor(d, Vendor[r], n)
    <2> DEFINE p == Entry[Vendor[r]]
    <2>1. p \in Pages
        BY <1>1, <1>2, ResolverAssumption DEF SideDoor
    <2>2. Verdict(p, Vendor[r], a) \in PageVerdict /\ Verified(p, Vendor[r], a)
        BY <1>2, <2>1, VerdictType DEF Attach
    <2>3. Request(p) \in Nat
        BY DEF Request
    <2>4. /\ work'[r] \in Deal /\ \A x \in Rows \ {r} : work'[x] = work[x]
          /\ work' \in [Rows -> Deal \union {None}]
        <3>1. Verdict(p, Vendor[r], a).final # None
                => [d EXCEPT !.site = Verdict(p, Vendor[r], a).final] \in Deal
            BY <2>2 DEF PageVerdict, Deal
        <3>2. work' = [work EXCEPT ![r] = IF Verdict(p, Vendor[r], a).final # None
                                          THEN [d EXCEPT !.site = Verdict(p, Vendor[r], a).final]
                                          ELSE d]
            BY <1>2 DEF Attach
        <3>3. PICK e \in Deal : work' = [work EXCEPT ![r] = e]
            BY <3>1, <3>2
        <3>4. QED
            BY <3>3 DEF TypeOK
    <2>5. lookups' \in Nat /\ requests' \in Nat
        BY <1>2, <2>3 DEF Attach
    <2>6. QED
        BY <2>1, <2>2, <2>4, <2>5, VerdictType
<1>3. CASE ~SideDoor(d, Vendor[r], n)
    BY <1>3 DEF Attach, TypeOK
<1>4. QED
    BY <1>2, <1>3

LEMMA UnresolvedType ==
    ASSUME TypeOK, NEW r \in Rows, NEW by \in Reasons, NEW penalty \in Nat,
           NEW n \in Nat, NEW q \in Nat, NEW a \in Answers,
           Vendor[r] # None, work[r] # None, Unresolved(r, by, penalty, n, q, a)
    PROVE  /\ work'[r] \in Deal /\ \A x \in Rows \ {r} : work'[x] = work[x]
           /\ work' \in [Rows -> Deal \union {None}]
           /\ lookups' \in Nat /\ requests' \in Nat
           /\ pages' \in [Pages -> PageVerdict \union {None}]
           /\ proved' \in [Pages -> 0..MaxTime \union {Never}]
           /\ deals' \in [Rows -> DealVerdict \union {None}]
<1>1. work[r] \in Deal /\ 0 - penalty \in Int
    BY DEF TypeOK
<1>2. Bumped(Labelled(work[r], None, "third_party", by), 0 - penalty) \in Deal
    BY <1>1, LabelledType, BumpedType DEF Kinds
<1>3. deals' \in [Rows -> DealVerdict \union {None}]
    BY DEF Unresolved, TypeOK, DealVerdict, Kinds
<1>4. QED
    BY <1>2, <1>3, AttachType DEF Unresolved

LEMMA TypeInit == Init => TypeOK
BY ResolverAssumption DEF Init, TypeOK, Never

LEMMA BeginPassType ==
    ASSUME TypeOK, NEW kind \in {"round", "briefing"}, NEW S \in SUBSET Rows,
           NEW copies \in [Rows -> Deal \union {None}],
           stored' \in [Rows -> Deal \union {None}],
           \A r \in S : copies[r] # None,
           \A r \in Rows : r \in S \/ stored[r] # None => stored'[r] # None,
           BeginPass(kind, S, copies)
    PROVE  TypeOK'
<1>1. passes' \in 0..MaxPasses
    BY ResolverAssumption DEF BeginPass, TypeOK
<1>2. /\ work' \in [Rows -> Deal \union {None}]
      /\ \A r \in Rows : r \in S => work'[r] # None
      /\ \A r \in Rows : work'[r] # None => stored'[r] # None
    BY DEF BeginPass, TypeOK
<1>3. QED
    BY <1>1, <1>2, ResolverAssumption DEF BeginPass, TypeOK, history

LEMMA TypeStep == TypeOK /\ [Next]_vars => TypeOK'
<1> SUFFICES ASSUME TypeOK, [Next]_vars PROVE TypeOK'
    OBVIOUS
<1> USE DEF memory, history
<1>1. CASE Tick
    BY <1>1, ResolverAssumption DEF Tick, TypeOK
<1>2. CASE BeginBriefing
    <2> DEFINE S == {r \in Rows : stored[r] # None /\ stored[r].score >= DailyMin}
    <2>1. stored' = stored /\ BeginPass("briefing", S, stored)
        BY <1>2 DEF BeginBriefing
    <2>2. QED
        <3>1. S \in SUBSET Rows /\ \A r \in S : stored[r] # None
            OBVIOUS
        <3>2. QED
            BY <2>1, <3>1, BeginPassType DEF TypeOK
<1>3. CASE EndPass
    <2>1. faults' \in 0..MaxFaults
        BY <1>3, ResolverAssumption DEF EndPass, Fault, TypeOK
    <2>2. stored' \in [Rows -> Deal \union {None}]
        BY <1>3 DEF EndPass, TypeOK
    <2>3. QED
        BY <1>3, <2>1, <2>2, ResolverAssumption DEF EndPass, TypeOK
<1>4. CASE Crash
    <2>1. faults' \in 0..MaxFaults
        BY <1>4, ResolverAssumption DEF Crash, Fault, TypeOK
    <2>2. searched' \in [Rows -> 0..MaxTime \union {Never}]
        BY <1>4 DEF Crash, TypeOK
    <2>3. QED
        BY <1>4, <2>1, <2>2, ResolverAssumption DEF Crash, TypeOK
<1>5. CASE \E S \in SUBSET Rows : BeginRound(S)
    <2>1. PICK S \in SUBSET Rows : BeginRound(S)
        BY <1>5
    <2>2. stored' \in [Rows -> Deal \union {None}]
        BY <2>1, LabelCheapType DEF BeginRound, TypeOK
    <2>3. \A r \in Rows : r \in S \/ stored[r] # None => stored'[r] # None
        BY <2>1, LabelCheapType, AbsentRowAssumption DEF BeginRound, TypeOK
    <2>4. BeginPass("round", S, stored')
        BY <2>1 DEF BeginRound
    <2>5. QED
        BY <2>2, <2>3, <2>4, BeginPassType
<1>6. CASE \E r \in Rows : Free(r)
    <2>1. PICK r \in Rows : Free(r)
        BY <1>6
    <2>2. r \in todo /\ todo' = todo \ {r} /\ work[r] \in Deal
        BY <2>1 DEF Free, Take, TypeOK
    <2>3. PICK e \in Deal : work' = [work EXCEPT ![r] = e]
        <3>1. /\ Labelled(work[r], None, "official", "domain") \in Deal
              /\ Labelled(work[r], None, "third_party", "no-vendor") \in Deal
            BY <2>2, LabelledType DEF Kinds, Reasons
        <3>2. Bumped(Labelled(work[r], None, "official", "domain"), bonusVerified) \in Deal
            BY <3>1, BumpedType DEF bonusVerified
        <3>3. QED
            BY <2>1, <3>1, <3>2 DEF Free, TypeOK
    <2>4. QED
        BY <2>1, <2>2, <2>3, AbsentRowAssumption DEF Free, Take, TypeOK
<1>7. CASE \E r \in Rows : OverBudget(r)
    <2>1. PICK r \in Rows : OverBudget(r)
        BY <1>7
    <2>2. r \in todo /\ todo' = todo \ {r} /\ work[r] \in Deal
        BY <2>1 DEF OverBudget, Take, TypeOK
    <2>3. PICK e \in Deal : work' = [work EXCEPT ![r] = e]
        BY <2>1, <2>2, LabelledType DEF OverBudget, Kinds, Reasons
    <2>4. QED
        BY <2>1, <2>2, <2>3, AbsentRowAssumption DEF OverBudget, Take, TypeOK
<1>8. CASE \E r \in Rows, h \in HitLists : SearchAnswers(r, h)
    <2>1. PICK r \in Rows, h \in HitLists : SearchAnswers(r, h)
        BY <1>8
    <2>2. h \in Seq(Pages)
        BY DEF HitLists
    <2>3. QED
        BY <2>1, <2>2 DEF SearchAnswers, Take, Asks, TypeOK
<1>9. CASE \E r \in Rows, a \in Answers : Cached(r, a)
    <2>1. PICK r \in Rows, a \in Answers : Cached(r, a)
        BY <1>9
    <2> DEFINE d == Labelled(work[r], deals[r].url, deals[r].kind, deals[r].by)
    <2>2. r \in todo /\ todo' = todo \ {r} /\ work[r] \in Deal /\ Vendor[r] # None
        BY <2>1 DEF Cached, Take, Asks, TypeOK
    <2>3. deals[r] \in DealVerdict
        BY <2>1 DEF Cached, Known, Current, TypeOK
    <2>4. /\ Bumped(d, bonusVerified) \in Deal
          /\ Bumped(d, 0 - penaltyThirdParty) \in Deal
        <3>1. d \in Deal
            <4>1. /\ deals[r].url \in Pages \union {None}
                  /\ deals[r].kind \in Kinds /\ deals[r].by \in Reasons
                BY <2>3 DEF DealVerdict
            <4>2. QED
                BY <2>2, <4>1, LabelledType
        <3>2. bonusVerified \in Int /\ 0 - penaltyThirdParty \in Int
            BY DEF bonusVerified, penaltyThirdParty
        <3>3. QED
            BY <3>1, <3>2, BumpedType
    <2>5. CASE deals[r].kind \in Official
        <3>1. work' = [work EXCEPT ![r] = Bumped(d, bonusVerified)]
            BY <2>1, <2>5 DEF Cached
        <3>2. age' \in [Rows -> Int]
            <4>1. deals[r].url # None => now - proved[deals[r].url] \in Int
                <5>1. ASSUME deals[r].url # None PROVE proved[deals[r].url] \in Int
                    BY <2>3, <5>1 DEF DealVerdict, TypeOK, Never
                <5>2. QED
                    BY <5>1 DEF TypeOK
            <4>2. QED
                BY <2>1, <2>5, <4>1 DEF Cached, TypeOK
        <3>3. QED
            BY <2>1, <2>2, <2>4, <2>5, <3>1, <3>2, AbsentRowAssumption DEF Cached, Take, TypeOK
    <2>6. CASE deals[r].kind \notin Official
        <3>1. Attach(r, Bumped(d, 0 - penaltyThirdParty), lookups, requests, a)
            BY <2>1, <2>6 DEF Cached
        <3>2. /\ work'[r] \in Deal /\ \A x \in Rows \ {r} : work'[x] = work[x]
              /\ work' \in [Rows -> Deal \union {None}]
              /\ lookups' \in Nat /\ requests' \in Nat
              /\ pages' \in [Pages -> PageVerdict \union {None}]
              /\ proved' \in [Pages -> 0..MaxTime \union {Never}]
            BY <2>2, <2>4, <3>1, AttachType DEF TypeOK
        <3>3. QED
            BY <2>1, <2>2, <2>6, <3>2, AbsentRowAssumption DEF Cached, Take, TypeOK
    <2>7. QED
        BY <2>5, <2>6
<1>10. CASE \E r \in Rows, a \in Answers : NoQuery(r, a)
    <2>1. PICK r \in Rows, a \in Answers : NoQuery(r, a)
        BY <1>10
    <2>2. /\ r \in todo /\ todo' = todo \ {r} /\ Vendor[r] # None
          /\ work[r] # None
        BY <2>1 DEF NoQuery, Take, Asks, TypeOK
    <2>3. Unresolved(r, "no-query", penaltyThirdParty, lookups, requests, a)
        BY <2>1 DEF NoQuery
    <2>4. /\ work'[r] \in Deal /\ \A x \in Rows \ {r} : work'[x] = work[x]
          /\ work' \in [Rows -> Deal \union {None}]
          /\ lookups' \in Nat /\ requests' \in Nat
          /\ pages' \in [Pages -> PageVerdict \union {None}]
          /\ proved' \in [Pages -> 0..MaxTime \union {Never}]
          /\ deals' \in [Rows -> DealVerdict \union {None}]
        BY <2>2, <2>3, UnresolvedType DEF TypeOK, Reasons, penaltyThirdParty
    <2>5. QED
        BY <2>1, <2>2, <2>4, AbsentRowAssumption DEF NoQuery, Take, TypeOK
<1>11. CASE \E r \in Rows, a \in Answers : SearchFails(r, a)
    <2>1. PICK r \in Rows, a \in Answers : SearchFails(r, a)
        BY <1>11
    <2>2. /\ r \in todo /\ todo' = todo \ {r} /\ Vendor[r] # None
          /\ work[r] # None
        BY <2>1 DEF SearchFails, Take, Asks, TypeOK
    <2>3. Unresolved(r, "search-unavailable", 0, lookups + 1, requests + 1, a)
        BY <2>1 DEF SearchFails
    <2>4. lookups + 1 \in Nat /\ requests + 1 \in Nat
        BY DEF TypeOK
    <2>5. /\ work'[r] \in Deal /\ \A x \in Rows \ {r} : work'[x] = work[x]
          /\ work' \in [Rows -> Deal \union {None}]
          /\ lookups' \in Nat /\ requests' \in Nat
          /\ pages' \in [Pages -> PageVerdict \union {None}]
          /\ proved' \in [Pages -> 0..MaxTime \union {Never}]
          /\ deals' \in [Rows -> DealVerdict \union {None}]
        BY <2>2, <2>3, <2>4, UnresolvedType DEF Reasons
    <2>6. searched' \in [Rows -> 0..MaxTime \union {Never}]
        BY <2>1 DEF SearchFails, TypeOK
    <2>7. QED
        BY <2>1, <2>2, <2>5, <2>6, AbsentRowAssumption DEF SearchFails, Take, TypeOK
<1>12. CASE \E a \in Answers : TryHit(a)
    <2>1. PICK a \in Answers : TryHit(a)
        BY <1>12
    <2> DEFINE v == Vendor[cur]
               p == Head(hits)
               o == Verdict(p, v, a)
    <2>2. /\ cur \in Rows /\ work[cur] \in Deal /\ p \in Pages
          /\ Tail(hits) \in Seq(Pages) /\ lookups + 1 \in Nat
        BY <2>1 DEF TryHit, TypeOK
    <2>3. CASE Owner[p] # v
        BY <2>1, <2>2, <2>3 DEF TryHit, TypeOK
    <2>4. CASE Owner[p] = v
        <3>1. Verified(p, v, a) /\ lookups' = lookups + 1 /\ requests' = requests + Request(p)
            BY <2>1, <2>4 DEF TryHit
        <3>2. o \in PageVerdict
            BY <2>2, VerdictType
        <3>3. /\ pages' \in [Pages -> PageVerdict \union {None}]
              /\ proved' \in [Pages -> 0..MaxTime \union {Never}]
            BY <2>2, <3>1, VerdictType
        <3>4. requests' \in Nat
            BY <3>1 DEF Request, TypeOK
        <3>5. CASE o.final = None
            BY <2>1, <2>2, <2>4, <3>1, <3>3, <3>4, <3>5 DEF TryHit, TypeOK
        <3>6. CASE o.final # None
            <4>1. o.final \in Pages
                BY <3>2, <3>6 DEF PageVerdict
            <4>2. PICK e \in Deal : work' = [work EXCEPT ![cur] = e]
                <5>1. Bumped(Labelled(work[cur], o.final, "search_verified", "search"),
                             bonusVerified) \in Deal
                    <6>1. Labelled(work[cur], o.final, "search_verified", "search") \in Deal
                        BY <2>2, <4>1, LabelledType DEF Kinds, Reasons
                    <6>2. QED
                        BY <6>1, BumpedType DEF bonusVerified
                <5>2. QED
                    BY <2>1, <2>4, <3>6, <5>1 DEF TryHit
            <4>3. deals' \in [Rows -> DealVerdict \union {None}]
                <5>1. [kind |-> "search_verified", by |-> "search", url |-> o.final, at |-> now]
                         \in DealVerdict
                    BY <4>1 DEF DealVerdict, Kinds, Reasons, TypeOK
                <5>2. QED
                    BY <2>1, <2>4, <3>6, <5>1 DEF TryHit, TypeOK
            <4>4. age' \in [Rows -> Int]
                <5>1. now - proved'[o.final] \in Int
                    <6>1. proved'[o.final] \in Int
                        BY <3>3, <4>1 DEF Never
                    <6>2. QED
                        BY <6>1 DEF TypeOK
                <5>2. QED
                    BY <2>1, <2>4, <3>6, <5>1 DEF TryHit, TypeOK
            <4>5. cur' = None /\ hits' = <<>>
                BY <2>1, <2>4, <3>6 DEF TryHit
            <4>6. QED
                BY <2>1, <2>2, <3>1, <3>3, <3>4, <4>2, <4>3, <4>4, <4>5,
                   AbsentRowAssumption, ResolverAssumption DEF TryHit, TypeOK
        <3>7. QED
            BY <3>5, <3>6
    <2>5. QED
        BY <2>3, <2>4
<1>13. CASE \E a \in Answers : GiveUp(a)
    <2>1. PICK a \in Answers : GiveUp(a)
        BY <1>13
    <2>2. cur \in Rows /\ work[cur] # None
        BY <2>1 DEF GiveUp, TypeOK
    <2>3. Vendor[cur] # None /\ Unresolved(cur, "unresolved", penaltyThirdParty, lookups, requests, a)
        BY <2>1 DEF GiveUp, TypeOK
    <2>4. /\ work'[cur] \in Deal /\ \A x \in Rows \ {cur} : work'[x] = work[x]
          /\ work' \in [Rows -> Deal \union {None}]
          /\ lookups' \in Nat /\ requests' \in Nat
          /\ pages' \in [Pages -> PageVerdict \union {None}]
          /\ proved' \in [Pages -> 0..MaxTime \union {Never}]
          /\ deals' \in [Rows -> DealVerdict \union {None}]
        BY <2>2, <2>3, UnresolvedType DEF TypeOK, Reasons, penaltyThirdParty
    <2>5. QED
        BY <2>1, <2>2, <2>4, AbsentRowAssumption, ResolverAssumption DEF GiveUp, TypeOK
<1>14. CASE UNCHANGED vars
    BY <1>14 DEF vars, TypeOK
<1>15. QED
    BY <1>1, <1>2, <1>3, <1>4, <1>5, <1>6, <1>7, <1>8, <1>9, <1>10, <1>11, <1>12,
       <1>13, <1>14 DEF Next

\* Whatever the web answers and whenever a pass is cut, the caches, the rows and the
\* pass keep their types, and a pass works on stored rows only.
THEOREM TypeCorrect == Spec => []TypeOK
BY TypeInit, TypeStep, PTL DEF Spec
-----------------------------------------------------------------------------
(***************************************************************************)
(* The budget of a pass                                                    *)
(***************************************************************************)

LEMMA AttachSpends ==
    ASSUME NEW r, NEW d, NEW n \in Nat, NEW q \in Nat, NEW a,
           q <= n, n <= MaxLookups, Attach(r, d, n, q, a)
    PROVE  requests' <= lookups' /\ lookups' <= MaxLookups
BY ResolverAssumption DEF Attach, SideDoor, Request

LEMMA BudgetStep == TypeOK /\ RequestsWithinBudget /\ [Next]_vars => RequestsWithinBudget'
<1> SUFFICES ASSUME TypeOK, RequestsWithinBudget, [Next]_vars PROVE RequestsWithinBudget'
    OBVIOUS
<1> USE DEF memory, history, RequestsWithinBudget
<1>0. /\ lookups \in Nat /\ requests \in Nat /\ MaxLookups \in Nat
      /\ lookups + 1 \in Nat /\ requests + 1 \in Nat
    BY ResolverAssumption DEF TypeOK
<1>1. CASE Tick
    BY <1>1 DEF Tick
<1>2. CASE BeginBriefing
    BY <1>2 DEF BeginBriefing, BeginPass
<1>3. CASE EndPass
    BY <1>0, <1>3 DEF EndPass
<1>4. CASE Crash
    BY <1>0, <1>4 DEF Crash
<1>5. CASE \E S \in SUBSET Rows : BeginRound(S)
    BY <1>5 DEF BeginRound, BeginPass
<1>6. CASE \E r \in Rows : Free(r)
    BY <1>6 DEF Free
<1>7. CASE \E r \in Rows : OverBudget(r)
    BY <1>7 DEF OverBudget
<1>8. CASE \E r \in Rows, h \in HitLists : SearchAnswers(r, h)
    BY <1>0, <1>8 DEF SearchAnswers, Broke
<1>9. CASE \E r \in Rows, a \in Answers : Cached(r, a)
    <2>1. PICK r \in Rows, a \in Answers : Cached(r, a)
        BY <1>9
    <2>2. CASE deals[r].kind \in Official
        BY <2>1, <2>2 DEF Cached
    <2>3. CASE deals[r].kind \notin Official
        BY <1>0, <2>1, <2>3, AttachSpends DEF Cached
    <2>4. QED
        BY <2>2, <2>3
<1>10. CASE \E r \in Rows, a \in Answers : NoQuery(r, a)
    BY <1>0, <1>10, AttachSpends DEF NoQuery, Unresolved
<1>11. CASE \E r \in Rows, a \in Answers : SearchFails(r, a)
    <2>1. PICK r \in Rows, a \in Answers : SearchFails(r, a)
        BY <1>11
    <2>2. requests + 1 <= lookups + 1 /\ lookups + 1 <= MaxLookups
        BY <1>0, <2>1 DEF SearchFails, Broke
    <2>3. QED
        BY <1>0, <2>1, <2>2, AttachSpends DEF SearchFails, Unresolved
<1>12. CASE \E a \in Answers : TryHit(a)
    BY <1>0, <1>12 DEF TryHit, Request
<1>13. CASE \E a \in Answers : GiveUp(a)
    BY <1>0, <1>13, AttachSpends DEF GiveUp, Unresolved
<1>14. CASE UNCHANGED vars
    BY <1>14 DEF vars
<1>15. QED
    BY <1>1, <1>2, <1>3, <1>4, <1>5, <1>6, <1>7, <1>8, <1>9, <1>10, <1>11, <1>12,
       <1>13, <1>14 DEF Next

\* No pass sends more requests than filter.max_official_lookups, for any rows, any
\* web and any budget.
THEOREM PassesStayWithinBudget == Spec => []RequestsWithinBudget
<1>1. Init => RequestsWithinBudget
    BY ResolverAssumption DEF Init, RequestsWithinBudget
<1>2. QED
    BY <1>1, TypeInit, TypeStep, BudgetStep, PTL DEF Spec
-----------------------------------------------------------------------------
(***************************************************************************)
(* Where the links come from                                               *)
(***************************************************************************)

\* By the record pr of what has answered, p may be presented for vendor v.
Proven(p, v, pr) == p # None => Owner[p] = v /\ pr[p] # Never

SoundRow(d, v, pr) == d # None => Proven(d.url, v, pr) /\ Proven(d.site, v, pr)

SoundPages(pg, pr) == \A p \in Pages : pg[p] # None => Proven(pg[p].final, Owner[p], pr)

SoundDeals(dl, pr) == \A r \in Rows : dl[r] # None => Proven(dl[r].url, Vendor[r], pr)

SoundRows(rows, pr) == \A r \in Rows : SoundRow(rows[r], Vendor[r], pr)

LinkInv ==
    /\ SoundPages(pages, proved) /\ SoundDeals(deals, proved)
    /\ SoundRows(stored, proved) /\ SoundRows(work, proved)

LEMMA LinkInvImpliesLinksAreTheVendors == LinkInv => LinksAreTheVendors
BY DEF LinkInv, SoundRows, SoundRow, Proven, LinksAreTheVendors

\* A page that has answered stays a page that has answered.
Remembers == \A p \in Pages : proved[p] # Never => proved'[p] # Never

LEMMA VerifiedSound ==
    ASSUME TypeOK, LinkInv, NEW p \in Pages, NEW a \in Answers, Verified(p, Owner[p], a)
    PROVE  /\ Remembers
           /\ SoundPages(pages', proved')
           /\ Proven(Verdict(p, Owner[p], a).final, Owner[p], proved')
<1> DEFINE o == Verdict(p, Owner[p], a)
<1>1. Remembers
    <2>1. now # Never
        BY ResolverAssumption DEF TypeOK, Never
    <2>2. QED
        BY <2>1 DEF Verified, Remembers, TypeOK
<1>2. Proven(o.final, Owner[p], proved')
    <2>1. CASE Current(pages[p])
        <3>1. o = pages[p] /\ pages[p] # None /\ proved' = proved
            BY <2>1 DEF Verdict, Current, Verified
        <3>2. QED
            BY <3>1 DEF LinkInv, SoundPages
    <2>2. CASE ~Current(pages[p])
        <3>1. o.final = IF a # None /\ Owner[a] = Owner[p] THEN a ELSE None
            BY <2>2 DEF Verdict, Probe
        <3>2. a # None => a \in Pages /\ proved'[a] # Never
            <4>1. now # Never
                BY ResolverAssumption DEF TypeOK, Never
            <4>2. QED
                BY <2>2, <4>1 DEF Verified, TypeOK, Answers
        <3>3. QED
            BY <3>1, <3>2 DEF Proven
    <2>3. QED
        BY <2>1, <2>2
<1>3. SoundPages(pages', proved')
    <2> SUFFICES ASSUME NEW x \in Pages, pages'[x] # None
                 PROVE  Proven(pages'[x].final, Owner[x], proved')
        BY DEF SoundPages
    <2>1. CASE x = p
        BY <1>2, <2>1 DEF Verified, TypeOK
    <2>2. CASE x # p
        <3>1. pages'[x] = pages[x]
            BY <2>2 DEF Verified, TypeOK
        <3>2. Proven(pages[x].final, Owner[x], proved) /\ pages[x].final \in Pages \union {None}
            BY <3>1 DEF LinkInv, SoundPages, TypeOK, PageVerdict
        <3>3. QED
            BY <1>1, <3>1, <3>2 DEF Proven, Remembers
    <2>3. QED
        BY <2>1, <2>2
<1>4. QED
    BY <1>1, <1>2, <1>3

\* What was sound stays sound when the record grows.
LEMMA SoundStays ==
    ASSUME TypeOK, LinkInv, Remembers
    PROVE  /\ SoundDeals(deals, proved') /\ SoundPages(pages, proved')
           /\ SoundRows(stored, proved') /\ SoundRows(work, proved')
<1>1. ASSUME NEW p \in Pages \union {None}, NEW v, Proven(p, v, proved)
      PROVE  Proven(p, v, proved')
    BY <1>1 DEF Proven, Remembers
<1>2. SoundDeals(deals, proved')
    BY <1>1 DEF LinkInv, SoundDeals, TypeOK, DealVerdict
<1>3. SoundPages(pages, proved')
    BY <1>1 DEF LinkInv, SoundPages, TypeOK, PageVerdict
<1>4. ASSUME NEW rows \in [Rows -> Deal \union {None}], SoundRows(rows, proved)
      PROVE  SoundRows(rows, proved')
    BY <1>1, <1>4 DEF SoundRows, SoundRow, Deal
<1>5. QED
    BY <1>2, <1>3, <1>4 DEF LinkInv, TypeOK

LEMMA PlainSound ==
    ASSUME NEW d \in Deal, NEW u \in Pages \union {None}, NEW k \in Kinds, NEW b \in Reasons,
           NEW n \in Int, NEW v, NEW pr, SoundRow(d, v, pr), Proven(u, v, pr)
    PROVE  /\ SoundRow(Labelled(d, u, k, b), v, pr)
           /\ SoundRow(Bumped(Labelled(d, u, k, b), n), v, pr)
<1>1. Labelled(d, u, k, b) \in Deal
    BY LabelledType
<1>2. Proven(d.url, v, pr) /\ Proven(d.site, v, pr)
    BY AbsentRowAssumption DEF SoundRow
<1>3. Labelled(d, u, k, b).url = u /\ Labelled(d, u, k, b).site = d.site
    BY LabelledType
<1>4. /\ Bumped(Labelled(d, u, k, b), n).url = u
      /\ Bumped(Labelled(d, u, k, b), n).site = d.site
    BY <1>1, <1>3, BumpedType
<1>5. QED
    BY <1>2, <1>3, <1>4 DEF SoundRow

LEMMA AttachSound ==
    ASSUME TypeOK, LinkInv, NEW r \in Rows, NEW d \in Deal, NEW n \in Nat, NEW q \in Nat,
           NEW a \in Answers, Vendor[r] # None, SoundRow(d, Vendor[r], proved),
           Attach(r, d, n, q, a)
    PROVE  /\ Remembers
           /\ SoundPages(pages', proved') /\ SoundRows(work', proved')
<1> DEFINE v == Vendor[r]
           p == Entry[v]
<1>0. d # None
    BY AbsentRowAssumption
<1>1. CASE SideDoor(d, v, n)
    <2>1. p \in Pages /\ Owner[p] = v
        BY <1>1, ResolverAssumption DEF SideDoor
    <2>2. Verified(p, v, a)
        BY <1>1 DEF Attach
    <2>3. /\ Remembers /\ SoundPages(pages', proved')
          /\ Proven(Verdict(p, v, a).final, v, proved')
        BY <2>1, <2>2, VerifiedSound
    <2>4. Proven(d.url, v, proved') /\ Proven(d.site, v, proved')
        <3>1. d.url \in Pages \union {None} /\ d.site \in Pages \union {None}
            BY DEF Deal
        <3>2. Proven(d.url, v, proved) /\ Proven(d.site, v, proved)
            BY <1>0 DEF SoundRow
        <3>3. QED
            BY <2>3, <3>1, <3>2 DEF Proven, Remembers
    <2>5. SoundRow(work'[r], v, proved')
        <3>1. work'[r] = IF Verdict(p, v, a).final # None
                         THEN [d EXCEPT !.site = Verdict(p, v, a).final] ELSE d
            BY <1>1 DEF Attach, TypeOK
        <3>2. [d EXCEPT !.site = Verdict(p, v, a).final].url = d.url
            BY DEF Deal
        <3>3. [d EXCEPT !.site = Verdict(p, v, a).final].site = Verdict(p, v, a).final
            BY DEF Deal
        <3>4. QED
            BY <2>3, <2>4, <3>1, <3>2, <3>3 DEF SoundRow
    <2>6. \A x \in Rows \ {r} : work'[x] = work[x]
        BY <1>1 DEF Attach, TypeOK
    <2>7. SoundRows(work, proved')
        BY <2>3, SoundStays
    <2>8. QED
        BY <2>3, <2>5, <2>6, <2>7 DEF SoundRows
<1>2. CASE ~SideDoor(d, v, n)
    <2>1. work' = [work EXCEPT ![r] = d] /\ UNCHANGED <<pages, proved>>
        BY <1>2 DEF Attach
    <2>2. SoundRows(work', proved)
        BY <2>1 DEF LinkInv, SoundRows, TypeOK
    <2>3. QED
        BY <2>1, <2>2 DEF LinkInv, Remembers
<1>3. QED
    BY <1>1, <1>2

LEMMA UnresolvedSound ==
    ASSUME TypeOK, LinkInv, NEW r \in Rows, NEW by \in Reasons, NEW penalty \in Nat,
           NEW n \in Nat, NEW q \in Nat, NEW a \in Answers,
           Vendor[r] # None, work[r] # None, stored' = stored,
           Unresolved(r, by, penalty, n, q, a)
    PROVE  LinkInv'
<1> DEFINE d == Bumped(Labelled(work[r], None, "third_party", by), 0 - penalty)
<1>1. d \in Deal /\ SoundRow(d, Vendor[r], proved)
    <2>1. work[r] \in Deal /\ 0 - penalty \in Int /\ "third_party" \in Kinds
        BY DEF TypeOK, Kinds
    <2>2. SoundRow(work[r], Vendor[r], proved) /\ Proven(None, Vendor[r], proved)
        BY DEF LinkInv, SoundRows, Proven
    <2>3. QED
        BY <2>1, <2>2, PlainSound, LabelledType, BumpedType
<1>2. /\ Remembers
      /\ SoundPages(pages', proved') /\ SoundRows(work', proved')
    BY <1>1, AttachSound DEF Unresolved
<1>3. SoundRows(stored, proved') /\ SoundDeals(deals, proved')
    BY <1>2, SoundStays
<1>4. SoundDeals(deals', proved')
    <2>1. \A x \in Rows : x # r => deals'[x] = deals[x]
        BY DEF Unresolved, TypeOK
    <2>2. deals'[r].url = None
        BY DEF Unresolved, TypeOK
    <2>3. QED
        BY <1>3, <2>1, <2>2 DEF SoundDeals, Proven
<1>5. QED
    BY <1>2, <1>3, <1>4 DEF LinkInv

LEMMA LinkInvStep == TypeOK /\ LinkInv /\ [Next]_vars => LinkInv'
<1> SUFFICES ASSUME TypeOK, LinkInv, [Next]_vars PROVE LinkInv'
    OBVIOUS
<1> USE DEF memory, history
<1>1. CASE Tick
    BY <1>1 DEF Tick, LinkInv
<1>2. CASE BeginBriefing
    BY <1>2 DEF BeginBriefing, BeginPass, LinkInv, SoundRows, SoundRow
<1>3. CASE EndPass
    BY <1>3 DEF EndPass, LinkInv, SoundRows, SoundRow
<1>4. CASE Crash
    BY <1>4 DEF Crash, LinkInv, SoundRows, SoundRow
<1>5. CASE \E S \in SUBSET Rows : BeginRound(S)
    <2>1. PICK S \in SUBSET Rows : BeginRound(S)
        BY <1>5
    <2>2. \A r \in Rows : SoundRow(LabelCheap(r), Vendor[r], proved)
        BY LabelCheapType DEF SoundRow, Proven
    <2>3. SoundRows(stored', proved)
        BY <2>1, <2>2 DEF BeginRound, LinkInv, SoundRows
    <2>4. SoundRows(work', proved)
        BY <2>1, <2>3 DEF BeginRound, BeginPass, SoundRows, SoundRow
    <2>5. QED
        BY <2>1, <2>3, <2>4 DEF BeginRound, BeginPass, LinkInv
<1>6. CASE \E r \in Rows : Free(r)
    <2>1. PICK r \in Rows : Free(r)
        BY <1>6
    <2>2. work[r] \in Deal /\ SoundRow(work[r], Vendor[r], proved)
          /\ Proven(None, Vendor[r], proved)
        BY <2>1 DEF Free, Take, TypeOK, LinkInv, SoundRows, Proven
    <2>3. /\ SoundRow(Bumped(Labelled(work[r], None, "official", "domain"), bonusVerified),
                      Vendor[r], proved)
          /\ SoundRow(Labelled(work[r], None, "third_party", "no-vendor"), Vendor[r], proved)
        <3>1. /\ "official" \in Kinds /\ "third_party" \in Kinds
              /\ "domain" \in Reasons /\ "no-vendor" \in Reasons /\ bonusVerified \in Int
            BY DEF bonusVerified, Kinds, Reasons
        <3>2. SoundRow(Bumped(Labelled(work[r], None, "official", "domain"), bonusVerified),
                       Vendor[r], proved)
            BY <2>2, <3>1, PlainSound
        <3>3. SoundRow(Labelled(work[r], None, "third_party", "no-vendor"), Vendor[r], proved)
            BY <2>2, <3>1, PlainSound
        <3>4. QED
            BY <3>2, <3>3
    <2>4. SoundRows(work', proved)
        BY <2>1, <2>3 DEF Free, LinkInv, SoundRows, TypeOK
    <2>5. QED
        BY <2>1, <2>4 DEF Free, LinkInv
<1>7. CASE \E r \in Rows : OverBudget(r)
    <2>1. PICK r \in Rows : OverBudget(r)
        BY <1>7
    <2>2. work[r] \in Deal /\ SoundRow(work[r], Vendor[r], proved)
          /\ Proven(None, Vendor[r], proved)
        BY <2>1 DEF OverBudget, Take, TypeOK, LinkInv, SoundRows, Proven
    <2>3. SoundRow(Labelled(work[r], None, "third_party", "budget"), Vendor[r], proved)
        <3>1. "third_party" \in Kinds /\ "budget" \in Reasons /\ bonusVerified \in Int
            BY DEF bonusVerified, Kinds, Reasons
        <3>2. QED
            BY <2>2, <3>1, PlainSound
    <2>4. SoundRows(work', proved)
        BY <2>1, <2>3 DEF OverBudget, LinkInv, SoundRows, TypeOK
    <2>5. QED
        BY <2>1, <2>4 DEF OverBudget, LinkInv
<1>8. CASE \E r \in Rows, h \in HitLists : SearchAnswers(r, h)
    BY <1>8 DEF SearchAnswers, LinkInv
<1>9. CASE \E r \in Rows, a \in Answers : Cached(r, a)
    <2>1. PICK r \in Rows, a \in Answers : Cached(r, a)
        BY <1>9
    <2> DEFINE v == deals[r]
               d == Labelled(work[r], v.url, v.kind, v.by)
    <2>2. /\ work[r] \in Deal /\ SoundRow(work[r], Vendor[r], proved)
          /\ Vendor[r] # None
        BY <2>1 DEF Cached, Take, Asks, TypeOK, LinkInv, SoundRows
    <2>3. v # None /\ v \in DealVerdict
        BY <2>1 DEF Cached, Known, Current, TypeOK
    <2>4. /\ v.url \in Pages \union {None} /\ v.kind \in Kinds /\ v.by \in Reasons
          /\ Proven(v.url, Vendor[r], proved)
        BY <2>3 DEF DealVerdict, LinkInv, SoundDeals
    <2>5. bonusVerified \in Int /\ 0 - penaltyThirdParty \in Int
        BY DEF bonusVerified, penaltyThirdParty
    <2>6. /\ SoundRow(Bumped(d, bonusVerified), Vendor[r], proved)
          /\ SoundRow(Bumped(d, 0 - penaltyThirdParty), Vendor[r], proved)
          /\ Bumped(d, 0 - penaltyThirdParty) \in Deal
        BY <2>2, <2>4, <2>5, PlainSound, LabelledType, BumpedType
    <2>7. CASE v.kind \in Official
        <3>1. SoundRows(work', proved)
            BY <2>1, <2>6, <2>7 DEF Cached, LinkInv, SoundRows, TypeOK
        <3>2. QED
            BY <2>1, <2>7, <3>1 DEF Cached, LinkInv
    <2>8. CASE v.kind \notin Official
        <3>1. Attach(r, Bumped(d, 0 - penaltyThirdParty), lookups, requests, a)
            BY <2>1, <2>8 DEF Cached
        <3>2. /\ Remembers
              /\ SoundPages(pages', proved') /\ SoundRows(work', proved')
            BY <2>2, <2>6, <3>1, AttachSound DEF TypeOK
        <3>3. SoundRows(stored, proved') /\ SoundDeals(deals, proved')
            BY <3>2, SoundStays
        <3>4. QED
            BY <2>1, <3>2, <3>3 DEF Cached, LinkInv
    <2>9. QED
        BY <2>7, <2>8
<1>10. CASE \E r \in Rows, a \in Answers : NoQuery(r, a)
    <2>1. PICK r \in Rows, a \in Answers : NoQuery(r, a)
        BY <1>10
    <2>2. Vendor[r] # None /\ work[r] # None /\ stored' = stored
        BY <2>1 DEF NoQuery, Take, Asks, TypeOK
    <2>3. Unresolved(r, "no-query", penaltyThirdParty, lookups, requests, a)
        BY <2>1 DEF NoQuery
    <2>4. QED
        BY <2>2, <2>3, UnresolvedSound DEF TypeOK, Reasons, penaltyThirdParty
<1>11. CASE \E r \in Rows, a \in Answers : SearchFails(r, a)
    <2>1. PICK r \in Rows, a \in Answers : SearchFails(r, a)
        BY <1>11
    <2>2. Vendor[r] # None /\ work[r] # None /\ stored' = stored
        BY <2>1 DEF SearchFails, Take, Asks, TypeOK
    <2>3. Unresolved(r, "search-unavailable", 0, lookups + 1, requests + 1, a)
        BY <2>1 DEF SearchFails
    <2>4. lookups + 1 \in Nat /\ requests + 1 \in Nat
        BY DEF TypeOK
    <2>5. QED
        BY <2>2, <2>3, <2>4, UnresolvedSound DEF Reasons
<1>12. CASE \E a \in Answers : TryHit(a)
    <2>1. PICK a \in Answers : TryHit(a)
        BY <1>12
    <2> DEFINE v == Vendor[cur]
               p == Head(hits)
               o == Verdict(p, v, a)
    <2>2. cur \in Rows /\ work[cur] \in Deal /\ p \in Pages
        BY <2>1 DEF TryHit, TypeOK
    <2>3. CASE Owner[p] # v
        BY <2>1, <2>3 DEF TryHit, LinkInv
    <2>4. CASE Owner[p] = v
        <3>1. /\ Remembers /\ SoundPages(pages', proved') /\ Proven(o.final, v, proved')
            <4>1. Verified(p, v, a)
                BY <2>1, <2>4 DEF TryHit
            <4>2. QED
                BY <2>2, <2>4, <4>1, VerifiedSound
        <3>2. /\ SoundRows(stored, proved') /\ SoundRows(work, proved')
              /\ SoundDeals(deals, proved')
            BY <3>1, SoundStays
        <3>3. CASE o.final = None
            BY <2>1, <2>4, <3>1, <3>2, <3>3 DEF TryHit, LinkInv
        <3>4. CASE o.final # None
            <4>1. o.final \in Pages
                BY <2>2, <3>4, VerdictType DEF PageVerdict
            <4>2. SoundRow(Bumped(Labelled(work[cur], o.final, "search_verified", "search"),
                                  bonusVerified), v, proved')
                <5>1. "search_verified" \in Kinds /\ "search" \in Reasons /\ bonusVerified \in Int
                    BY DEF bonusVerified, Kinds, Reasons
                <5>2. SoundRow(work[cur], v, proved')
                    BY <2>2, <3>2 DEF SoundRows
                <5>3. QED
                    BY <2>2, <3>1, <4>1, <5>1, <5>2, PlainSound
            <4>3. SoundRows(work', proved')
                BY <2>1, <2>2, <2>4, <3>2, <3>4, <4>2 DEF TryHit, SoundRows, TypeOK
            <4>4. SoundDeals(deals', proved')
                BY <2>1, <2>2, <2>4, <3>1, <3>2, <3>4 DEF TryHit, SoundDeals, TypeOK
            <4>5. QED
                BY <2>1, <3>1, <3>2, <4>3, <4>4 DEF TryHit, LinkInv
        <3>5. QED
            BY <3>3, <3>4
    <2>5. QED
        BY <2>3, <2>4
<1>13. CASE \E a \in Answers : GiveUp(a)
    <2>1. PICK a \in Answers : GiveUp(a)
        BY <1>13
    <2>2. cur \in Rows /\ Vendor[cur] # None /\ work[cur] # None /\ stored' = stored
        BY <2>1 DEF GiveUp, TypeOK
    <2>3. Unresolved(cur, "unresolved", penaltyThirdParty, lookups, requests, a)
        BY <2>1 DEF GiveUp
    <2>4. QED
        BY <2>2, <2>3, UnresolvedSound DEF TypeOK, Reasons, penaltyThirdParty
<1>14. CASE UNCHANGED vars
    BY <1>14 DEF vars, LinkInv
<1>15. QED
    BY <1>1, <1>2, <1>3, <1>4, <1>5, <1>6, <1>7, <1>8, <1>9, <1>10, <1>11, <1>12,
       <1>13, <1>14 DEF Next

\* Every link a row presents, as the offer's own page or as the vendor's door, is on
\* the vendor's domain and has answered, for any web and any order of the passes.
THEOREM LinksComeFromTheVendor == Spec => []LinksAreTheVendors
<1>1. Init => LinkInv
    BY DEF Init, LinkInv, SoundPages, SoundDeals, SoundRows, SoundRow
<1>2. Spec => [](TypeOK /\ LinkInv)
    BY <1>1, TypeInit, TypeStep, LinkInvStep, PTL DEF Spec
<1>3. QED
    BY <1>2, LinkInvImpliesLinksAreTheVendors, PTL
-----------------------------------------------------------------------------
(***************************************************************************)
(* How old the evidence is                                                 *)
(***************************************************************************)

\* A verdict on a page is no younger than the last answer it rests on, one on a
\* row may have been drawn from a page verdict about to lapse.
FreshPages(pg, pr) ==
    \A p \in Pages : pg[p] # None /\ pg[p].final # None => pg[p].at <= pr[pg[p].final]

FreshDeals(dl, pr) ==
    \A r \in Rows : dl[r] # None /\ dl[r].url # None => dl[r].at - (TTL - 1) <= pr[dl[r].url]

EvidenceInv ==
    /\ \A p \in Pages : proved[p] <= now
    /\ FreshPages(pages, proved) /\ FreshDeals(deals, proved)
    /\ EvidenceIsRecent

\* The record of answers only moves forward.
Grows == \A p \in Pages : proved[p] <= proved'[p] /\ proved'[p] <= now

LEMMA ClockType ==
    ASSUME TypeOK
    PROVE  /\ now \in Nat /\ \A p \in Pages : proved[p] \in Int
           /\ \A p \in Pages : pages[p] # None =>
                 pages[p].at \in Nat /\ pages[p].final \in Pages \union {None}
           /\ \A r \in Rows : deals[r] # None =>
                 deals[r].at \in Nat /\ deals[r].url \in Pages \union {None}
           /\ TTL \in Nat /\ TTL >= 1
<1>1. \A p \in Pages : proved[p] \in 0..MaxTime \union {-1}
    BY DEF TypeOK, Never
<1>2. \A p \in Pages : proved[p] \in Int
    BY <1>1, ResolverAssumption
<1>3. \A p \in Pages : pages[p] # None => pages[p] \in PageVerdict
    BY DEF TypeOK
<1>4. \A r \in Rows : deals[r] # None => deals[r] \in DealVerdict
    BY DEF TypeOK
<1>5. now \in Nat
    BY ResolverAssumption DEF TypeOK
<1>6. QED
    BY <1>2, <1>3, <1>4, <1>5, ResolverAssumption DEF PageVerdict, DealVerdict

LEMMA VerifiedFresh ==
    ASSUME TypeOK, EvidenceInv, NEW p \in Pages, NEW v, NEW a \in Answers, Verified(p, v, a)
    PROVE  /\ Grows /\ FreshPages(pages', proved')
           /\ Verdict(p, v, a).final # None =>
                 now - (TTL - 1) <= proved'[Verdict(p, v, a).final]
<1> DEFINE o == Verdict(p, v, a)
<1>0. /\ now \in Nat /\ TTL \in Nat /\ TTL >= 1 /\ \A x \in Pages : proved[x] \in Int
      /\ \A x \in Pages : proved[x] <= now
    BY ClockType DEF EvidenceInv
<1>1. Grows
    BY <1>0 DEF Verified, Grows, TypeOK
<1>2. CASE Current(pages[p])
    <2>1. o = pages[p] /\ pages[p] # None /\ proved' = proved /\ now - pages[p].at < TTL
        BY <1>2 DEF Verdict, Current, Verified
    <2>2. pages' = pages
        BY <2>1 DEF Verified, TypeOK
    <2>3. o.final # None => now - (TTL - 1) <= proved[o.final]
        <3> SUFFICES ASSUME o.final # None PROVE now - (TTL - 1) <= proved[o.final]
            OBVIOUS
        <3>1. pages[p].at \in Nat /\ pages[p].final \in Pages
              /\ pages[p].at <= proved[pages[p].final]
            BY <2>1, ClockType DEF EvidenceInv, FreshPages
        <3>2. proved[pages[p].final] \in Int
            BY <1>0, <3>1
        <3>3. QED
            BY <1>0, <2>1, <3>1, <3>2
    <2>4. QED
        BY <1>1, <2>1, <2>2, <2>3 DEF EvidenceInv
<1>3. CASE ~Current(pages[p])
    <2>1. /\ o = [final |-> IF a # None /\ Owner[a] = v THEN a ELSE None, at |-> now]
          /\ pages' = [pages EXCEPT ![p] = o]
          /\ proved' = IF a # None THEN [proved EXCEPT ![a] = now] ELSE proved
        BY <1>3 DEF Verdict, Probe, Verified
    <2> HIDE DEF o
    <2>2. o.at = now /\ (o.final # None => proved'[o.final] = now)
        BY <2>1 DEF Answers, TypeOK
    <2>3. FreshPages(pages', proved')
        <3> SUFFICES ASSUME NEW x \in Pages, pages'[x] # None, pages'[x].final # None
                     PROVE  pages'[x].at <= proved'[pages'[x].final]
            BY DEF FreshPages
        <3>1. CASE x = p
            <4>1. pages'[x] = o
                BY <2>1, <3>1 DEF TypeOK
            <4>2. QED
                BY <1>0, <2>2, <4>1
        <3>2. CASE x # p
            <4>1. pages'[x] = pages[x]
                BY <2>1, <3>2 DEF TypeOK
            <4>2. pages[x].at \in Nat /\ pages[x].final \in Pages
                  /\ pages[x].at <= proved[pages[x].final]
                BY <4>1, ClockType DEF EvidenceInv, FreshPages
            <4>3. proved'[pages[x].final] >= proved[pages[x].final]
                  /\ proved[pages[x].final] \in Int /\ proved'[pages[x].final] \in Int
                BY <1>0, <1>1, <2>1, <4>2 DEF Grows, TypeOK
            <4>4. QED
                BY <4>1, <4>2, <4>3
        <3>3. QED
            BY <3>1, <3>2
    <2>4. QED
        BY <1>0, <1>1, <2>2, <2>3 DEF o
<1>4. QED
    BY <1>2, <1>3

LEMMA FreshStays ==
    ASSUME TypeOK, EvidenceInv, Grows, \A p \in Pages : proved'[p] \in Int
    PROVE  FreshDeals(deals, proved')
<1> SUFFICES ASSUME NEW r \in Rows, deals[r] # None, deals[r].url # None
             PROVE  deals[r].at - (TTL - 1) <= proved'[deals[r].url]
    BY DEF FreshDeals
<1>1. /\ deals[r].at \in Nat /\ deals[r].url \in Pages /\ TTL \in Nat
      /\ proved[deals[r].url] \in Int
    BY ClockType
<1>2. deals[r].at - (TTL - 1) <= proved[deals[r].url]
    BY DEF EvidenceInv, FreshDeals
<1>3. proved[deals[r].url] <= proved'[deals[r].url] /\ proved'[deals[r].url] \in Int
    BY <1>1 DEF Grows
<1>4. QED
    BY <1>1, <1>2, <1>3

LEMMA AttachFresh ==
    ASSUME TypeOK, EvidenceInv, NEW r \in Rows, NEW d, NEW n, NEW q, NEW a \in Answers,
           Vendor[r] # None, Attach(r, d, n, q, a)
    PROVE  Grows /\ FreshPages(pages', proved')
<1>1. CASE SideDoor(d, Vendor[r], n)
    <2>1. Entry[Vendor[r]] \in Pages
        BY <1>1, ResolverAssumption DEF SideDoor
    <2>2. QED
        BY <1>1, <2>1, VerifiedFresh DEF Attach
<1>2. CASE ~SideDoor(d, Vendor[r], n)
    <2>1. UNCHANGED <<pages, proved>>
        BY <1>2 DEF Attach
    <2>2. QED
        BY <2>1, ClockType DEF EvidenceInv, Grows
<1>3. QED
    BY <1>1, <1>2

LEMMA UnresolvedFresh ==
    ASSUME TypeOK, TypeOK', EvidenceInv, NEW r \in Rows, NEW by, NEW penalty, NEW n, NEW q,
           NEW a \in Answers, Vendor[r] # None, Unresolved(r, by, penalty, n, q, a),
           UNCHANGED <<now, age>>
    PROVE  EvidenceInv'
<1>1. Grows /\ FreshPages(pages', proved')
    BY AttachFresh DEF Unresolved
<1>2. \A p \in Pages : proved'[p] \in Int
    BY ResolverAssumption DEF TypeOK, Never
<1>3. FreshDeals(deals, proved')
    BY <1>1, <1>2, FreshStays
<1>4. FreshDeals(deals', proved')
    <2>1. \A x \in Rows : x # r => deals'[x] = deals[x]
        BY DEF Unresolved, TypeOK
    <2>2. deals'[r].url = None
        BY DEF Unresolved, TypeOK
    <2>3. QED
        BY <1>3, <2>1, <2>2 DEF FreshDeals
<1>5. QED
    BY <1>1, <1>4 DEF EvidenceInv, EvidenceIsRecent, Grows

LEMMA EvidenceStep == TypeOK /\ TypeOK' /\ EvidenceInv /\ [Next]_vars => EvidenceInv'
<1> SUFFICES ASSUME TypeOK, TypeOK', EvidenceInv, [Next]_vars PROVE EvidenceInv'
    OBVIOUS
<1> USE DEF memory, history
<1>n. /\ now \in Nat /\ TTL \in Nat /\ TTL >= 1
      /\ \A p \in Pages : proved[p] \in Int /\ proved'[p] \in Int
    <2>1. \A p \in Pages : proved'[p] \in Int
        BY ResolverAssumption DEF TypeOK, Never
    <2>2. QED
        BY <2>1, ClockType
\* Steps that ask nobody and conclude nothing.
<1>f. ASSUME UNCHANGED <<pages, deals, proved, age>>, now' = now \/ now' = now + 1
      PROVE  EvidenceInv'
    <2>1. \A p \in Pages : proved[p] <= now'
        <3> SUFFICES ASSUME NEW p \in Pages PROVE proved[p] <= now'
            OBVIOUS
        <3>1. proved[p] <= now /\ proved[p] \in Int
            BY <1>n DEF EvidenceInv
        <3>2. QED
            BY <1>f, <1>n, <3>1
    <2>2. QED
        BY <1>f, <2>1 DEF EvidenceInv, EvidenceIsRecent
<1>1. CASE Tick
    BY <1>1, <1>f DEF Tick
<1>2. CASE BeginBriefing
    BY <1>2, <1>f DEF BeginBriefing, BeginPass
<1>3. CASE EndPass
    BY <1>3, <1>f DEF EndPass
<1>4. CASE Crash
    BY <1>4, <1>f DEF Crash
<1>5. CASE \E S \in SUBSET Rows : BeginRound(S)
    BY <1>5, <1>f DEF BeginRound, BeginPass
<1>6. CASE \E r \in Rows : Free(r) \/ OverBudget(r)
    BY <1>6, <1>f DEF Free, OverBudget
<1>7. CASE \E r \in Rows, h \in HitLists : SearchAnswers(r, h)
    BY <1>7, <1>f DEF SearchAnswers
<1>8. ASSUME NEW r \in Rows, NEW a \in Answers, Cached(r, a) PROVE EvidenceInv'
    <2> DEFINE v == deals[r]
    <2>1. v # None /\ now - v.at < TTL /\ Vendor[r] # None /\ UNCHANGED <<now, deals>>
        BY <1>8 DEF Cached, Known, Current, Asks
    <2>2. CASE v.kind \in Official
        <3>1. /\ age' = [age EXCEPT ![r] = IF v.url = None THEN 0 ELSE now - proved[v.url]]
              /\ UNCHANGED <<pages, proved>>
            BY <1>8, <2>2 DEF Cached
        <3>2. age'[r] <= 2 * (TTL - 1)
            <4>1. CASE v.url = None
                <5>1. age'[r] = 0
                    BY <3>1, <4>1 DEF TypeOK
                <5>2. QED
                    BY <1>n, <5>1
            <4>2. CASE v.url # None
                <5>1. v.at \in Nat /\ v.url \in Pages /\ v.at - (TTL - 1) <= proved[v.url]
                    BY <2>1, <4>2, ClockType DEF EvidenceInv, FreshDeals
                <5>2. age'[r] = now - proved[v.url]
                    BY <3>1, <4>2 DEF TypeOK
                <5>3. QED
                    BY <1>n, <2>1, <5>1, <5>2
            <4>3. QED
                BY <4>1, <4>2
        <3>3. EvidenceIsRecent'
            BY <3>1, <3>2 DEF EvidenceInv, EvidenceIsRecent, TypeOK
        <3>4. QED
            BY <2>1, <3>1, <3>3 DEF EvidenceInv
    <2>3. CASE v.kind \notin Official
        <3>1. UNCHANGED age
            BY <1>8, <2>3 DEF Cached
        <3>2. Grows /\ FreshPages(pages', proved')
            BY <1>8, <2>1, <2>3, AttachFresh DEF Cached
        <3>3. FreshDeals(deals, proved')
            BY <1>n, <3>2, FreshStays
        <3>4. QED
            BY <2>1, <3>1, <3>2, <3>3 DEF EvidenceInv, EvidenceIsRecent, Grows
    <2>4. QED
        BY <2>2, <2>3
<1>9. ASSUME NEW r \in Rows, NEW a \in Answers, NoQuery(r, a) PROVE EvidenceInv'
    BY <1>9, UnresolvedFresh DEF NoQuery, Asks
<1>10. ASSUME NEW r \in Rows, NEW a \in Answers, SearchFails(r, a) PROVE EvidenceInv'
    BY <1>10, UnresolvedFresh DEF SearchFails, Asks
<1>11. ASSUME NEW a \in Answers, TryHit(a) PROVE EvidenceInv'
    <2> DEFINE v == Vendor[cur]
               p == Head(hits)
               o == Verdict(p, v, a)
    <2>1. cur \in Rows /\ p \in Pages /\ UNCHANGED now
        BY <1>11 DEF TryHit, TypeOK
    <2>2. CASE Owner[p] # v
        BY <1>11, <2>2, <1>f DEF TryHit
    <2>3. CASE Owner[p] = v
        <3>1. /\ Grows /\ FreshPages(pages', proved')
              /\ o.final # None => now - (TTL - 1) <= proved'[o.final]
            <4>1. Verified(p, v, a)
                BY <1>11, <2>3 DEF TryHit
            <4>2. QED
                BY <2>1, <4>1, VerifiedFresh
        <3>2. FreshDeals(deals, proved')
            BY <1>n, <3>1, FreshStays
        <3>3. CASE o.final = None
            <4>1. UNCHANGED <<deals, age>>
                BY <1>11, <2>3, <3>3 DEF TryHit
            <4>2. QED
                BY <2>1, <3>1, <3>2, <4>1 DEF EvidenceInv, EvidenceIsRecent, Grows
        <3>4. CASE o.final # None
            <4>1. o.final \in Pages
                BY <2>1, <3>4, VerdictType DEF PageVerdict
            <4>2. /\ deals' = [deals EXCEPT ![cur] = [kind |-> "search_verified", by |-> "search",
                                                      url |-> o.final, at |-> now]]
                  /\ age' = [age EXCEPT ![cur] = now - proved'[o.final]]
                BY <1>11, <2>3, <3>4 DEF TryHit
            <4> HIDE DEF o
            <4>3. FreshDeals(deals', proved')
                BY <2>1, <3>1, <3>2, <3>4, <4>2 DEF FreshDeals, TypeOK
            <4>4. age'[cur] <= 2 * (TTL - 1)
                <5>1. age'[cur] = now - proved'[o.final] /\ proved'[o.final] \in Int
                    BY <1>n, <2>1, <4>1, <4>2 DEF TypeOK
                <5>2. QED
                    BY <1>n, <3>1, <3>4, <5>1
            <4>5. EvidenceIsRecent'
                BY <4>2, <4>4 DEF EvidenceInv, EvidenceIsRecent, TypeOK
            <4>6. QED
                BY <2>1, <3>1, <4>3, <4>5 DEF EvidenceInv, Grows
        <3>5. QED
            BY <3>3, <3>4
    <2>4. QED
        BY <2>2, <2>3
<1>12. ASSUME NEW a \in Answers, GiveUp(a) PROVE EvidenceInv'
    BY <1>12, UnresolvedFresh DEF GiveUp, TypeOK
<1>13. CASE UNCHANGED vars
    BY <1>13, <1>f DEF vars
<1>14. QED
    BY <1>1, <1>2, <1>3, <1>4, <1>5, <1>6, <1>7, <1>8, <1>9, <1>10, <1>11, <1>12, <1>13
       DEF Next

\* The proof behind a label is never older than two cache lifetimes, less a day
\* each, when the label is given, for any web and any order of the passes.
THEOREM LabelsRestOnRecentProof == Spec => []EvidenceIsRecent
<1>1. Init => EvidenceInv
    BY ResolverAssumption DEF Init, EvidenceInv, FreshPages, FreshDeals, EvidenceIsRecent, Never
<1>2. EvidenceInv => EvidenceIsRecent
    BY DEF EvidenceInv
<1>3. QED
    BY <1>1, <1>2, TypeInit, TypeStep, EvidenceStep, PTL DEF Spec
-----------------------------------------------------------------------------
(***************************************************************************)
(* How often a row is searched for                                         *)
(***************************************************************************)

\* A search that was made has left a verdict at least as recent, unless the pass
\* is still looking at its results.
SpacedInv ==
    \A r \in Rows : searched[r] # Never =>
        /\ searched[r] <= now
        /\ cur = r \/ (deals[r] # None /\ deals[r].at >= searched[r])

LEMMA SearchTimes ==
    ASSUME TypeOK
    PROVE  \A r \in Rows : searched[r] # Never => searched[r] \in Nat
<1>1. \A r \in Rows : searched[r] \in 0..MaxTime \union {Never}
    BY DEF TypeOK
<1>2. QED
    BY <1>1, ResolverAssumption

LEMMA SpacedStep == TypeOK /\ SpacedInv /\ [Next]_vars => SpacedInv'
<1> SUFFICES ASSUME TypeOK, SpacedInv, [Next]_vars PROVE SpacedInv'
    OBVIOUS
<1> USE DEF memory, history
<1>n. now \in Nat /\ \A r \in Rows : searched[r] # Never => searched[r] \in Nat
    BY ClockType, SearchTimes
\* Steps that neither search nor conclude.
<1>f. ASSUME UNCHANGED <<deals, searched, cur>>, now' = now \/ now' = now + 1
      PROVE  SpacedInv'
    <2> SUFFICES ASSUME NEW r \in Rows, searched[r] # Never
                 PROVE  /\ searched[r] <= now'
                        /\ cur = r \/ (deals[r] # None /\ deals[r].at >= searched[r])
        BY <1>f DEF SpacedInv
    <2>1. /\ searched[r] <= now /\ searched[r] \in Nat
          /\ cur = r \/ (deals[r] # None /\ deals[r].at >= searched[r])
        BY <1>n DEF SpacedInv
    <2>2. QED
        BY <1>f, <1>n, <2>1
\* A verdict on r, with or without a search of this step.
<1>v. ASSUME NEW r \in Rows, NEW v \in DealVerdict, v.at = now, deals' = [deals EXCEPT ![r] = v],
             searched' = [searched EXCEPT ![r] = now] \/ searched' = searched,
             cur' = None, cur \in {None, r}, now' = now
      PROVE  SpacedInv'
    <2> SUFFICES ASSUME NEW x \in Rows, searched'[x] # Never
                 PROVE  /\ searched'[x] <= now
                        /\ deals'[x] # None /\ deals'[x].at >= searched'[x]
        BY <1>v DEF SpacedInv
    <2>1. CASE x = r
        <3>1. deals'[x] = v /\ searched'[x] \in {now, searched[x]}
            BY <1>v, <2>1 DEF TypeOK
        <3>2. searched'[x] <= now
            BY <1>n, <3>1 DEF SpacedInv
        <3>3. QED
            BY <1>v, <3>1, <3>2, AbsentRowAssumption
    <2>2. CASE x # r
        <3>1. deals'[x] = deals[x] /\ searched'[x] = searched[x]
            BY <1>v, <2>2 DEF TypeOK
        <3>2. cur # x
            BY <1>v, <2>2, ResolverAssumption
        <3>3. QED
            BY <3>1, <3>2 DEF SpacedInv
    <2>3. QED
        BY <2>1, <2>2
<1>1. CASE Tick
    BY <1>1, <1>f DEF Tick
<1>2. CASE BeginBriefing
    BY <1>2, <1>f DEF BeginBriefing, BeginPass
<1>3. CASE EndPass
    BY <1>3, <1>f DEF EndPass
<1>4. CASE Crash
    <2>1. UNCHANGED <<deals, now>> /\ searched' = [r \in Rows |-> IF r = cur THEN Never ELSE searched[r]]
        BY <1>4 DEF Crash
    <2>2. QED
        BY <2>1 DEF SpacedInv
<1>5. CASE \E S \in SUBSET Rows : BeginRound(S)
    BY <1>5, <1>f DEF BeginRound, BeginPass
<1>6. CASE \E r \in Rows : Free(r) \/ OverBudget(r)
    BY <1>6, <1>f DEF Free, OverBudget
<1>7. ASSUME NEW r \in Rows, NEW h \in HitLists, SearchAnswers(r, h) PROVE SpacedInv'
    <2>1. /\ cur = None /\ cur' = r /\ UNCHANGED <<deals, now>>
          /\ searched' = [searched EXCEPT ![r] = now]
        BY <1>7 DEF SearchAnswers, Take
    <2>2. QED
        BY <1>n, <2>1, ResolverAssumption DEF SpacedInv, TypeOK
<1>8. CASE \E r \in Rows, a \in Answers : Cached(r, a)
    BY <1>8, <1>f DEF Cached
\* What is not found leaves a verdict as well.
<1>u. ASSUME NEW r \in Rows, NEW by \in Reasons, NEW penalty, NEW n, NEW q, NEW a,
             Unresolved(r, by, penalty, n, q, a),
             searched' = [searched EXCEPT ![r] = now] \/ searched' = searched,
             cur' = None, cur \in {None, r}, now' = now
      PROVE  SpacedInv'
    <2> DEFINE v == [kind |-> "third_party", by |-> by, url |-> None, at |-> now]
    <2>1. v \in DealVerdict /\ v.at = now
        BY DEF DealVerdict, Kinds, TypeOK
    <2>2. deals' = [deals EXCEPT ![r] = v]
        BY <1>u DEF Unresolved
    <2> HIDE DEF v
    <2>3. QED
        BY <1>u, <1>v, <2>1, <2>2
<1>9. ASSUME NEW r \in Rows, NEW a \in Answers, NoQuery(r, a) PROVE SpacedInv'
    <2>1. Unresolved(r, "no-query", penaltyThirdParty, lookups, requests, a)
        BY <1>9 DEF NoQuery
    <2>2. cur = None /\ UNCHANGED <<cur, searched, now>> /\ "no-query" \in Reasons
        BY <1>9 DEF NoQuery, Take, Reasons
    <2>3. QED
        BY <1>u, <2>1, <2>2
<1>10. ASSUME NEW r \in Rows, NEW a \in Answers, SearchFails(r, a) PROVE SpacedInv'
    <2>1. Unresolved(r, "search-unavailable", 0, lookups + 1, requests + 1, a)
        BY <1>10 DEF SearchFails
    <2>2. /\ cur = None /\ UNCHANGED <<cur, now>> /\ "search-unavailable" \in Reasons
          /\ searched' = [searched EXCEPT ![r] = now]
        BY <1>10 DEF SearchFails, Take, Reasons
    <2>3. QED
        BY <1>u, <2>1, <2>2
<1>11. ASSUME NEW a \in Answers, TryHit(a) PROVE SpacedInv'
    <2> DEFINE o == Verdict(Head(hits), Vendor[cur], a)
               v == [kind |-> "search_verified", by |-> "search", url |-> o.final, at |-> now]
    <2>1. cur \in Rows /\ Head(hits) \in Pages /\ UNCHANGED <<now, searched>>
        BY <1>11 DEF TryHit, TypeOK
    <2>2. CASE UNCHANGED <<deals, cur>>
        BY <1>f, <2>1, <2>2
    <2>3. CASE deals' = [deals EXCEPT ![cur] = v] /\ cur' = None
        <3>1. o.final \in Pages \union {None}
            BY <2>1, VerdictType DEF PageVerdict
        <3>2. v \in DealVerdict /\ v.at = now
            BY <3>1 DEF DealVerdict, Kinds, Reasons, TypeOK
        <3> HIDE DEF v
        <3>3. QED
            BY <1>v, <2>1, <2>3, <3>2
    <2>4. QED
        BY <1>11, <2>2, <2>3 DEF TryHit
<1>12. ASSUME NEW a \in Answers, GiveUp(a) PROVE SpacedInv'
    <2>1. Unresolved(cur, "unresolved", penaltyThirdParty, lookups, requests, a)
        BY <1>12 DEF GiveUp
    <2>2. cur \in Rows /\ cur' = None /\ UNCHANGED <<searched, now>> /\ "unresolved" \in Reasons
        BY <1>12 DEF GiveUp, TypeOK, Reasons
    <2>3. QED
        BY <1>u, <2>1, <2>2
<1>13. CASE UNCHANGED vars
    BY <1>13, <1>f DEF vars
<1>14. QED
    BY <1>1, <1>2, <1>3, <1>4, <1>5, <1>6, <1>7, <1>8, <1>9, <1>10, <1>11, <1>12, <1>13
       DEF Next

\* A search is made only where no verdict is current, and the last search left one.
LEMMA SearchesWait ==
    ASSUME TypeOK, SpacedInv, [Next]_vars, NEW r \in Linked,
           searched[r] # Never, searched'[r] \notin {searched[r], Never}
    PROVE  searched'[r] - searched[r] >= TTL
<1> USE DEF memory, history
<1>n. /\ now \in Nat /\ r \in Rows /\ searched[r] \in Nat /\ TTL \in Nat
      /\ deals[r] # None => deals[r].at \in Nat
    BY ClockType, SearchTimes, ResolverAssumption
<1>1. \/ \E h \in HitLists : SearchAnswers(r, h)
      \/ \E a \in Answers : SearchFails(r, a)
    <2>1. searched' # searched /\ searched'[r] # Never
        OBVIOUS
    <2>2. ~Crash
        BY <1>n DEF Crash
    <2>3. \A x \in Rows : searched' = [searched EXCEPT ![x] = now] => x = r
        BY DEF TypeOK
    <2>4. QED
        BY <2>1, <2>2, <2>3 DEF Next, vars, Tick, BeginBriefing, BeginRound, BeginPass, EndPass,
           Free, OverBudget, SearchAnswers, Cached, NoQuery, SearchFails, TryHit, GiveUp
<1>2. /\ cur = None /\ ~Current(deals[r]) /\ searched' = [searched EXCEPT ![r] = now]
    BY <1>1 DEF SearchAnswers, SearchFails, Take, Known
<1>3. deals[r] # None /\ deals[r].at >= searched[r]
    BY <1>2, <1>n, ResolverAssumption DEF SpacedInv
<1>4. now - deals[r].at >= TTL
    BY <1>n, <1>2, <1>3 DEF Current
<1>5. searched'[r] = now
    BY <1>2, <1>n DEF TypeOK
<1>6. QED
    BY <1>n, <1>3, <1>4, <1>5

\* A row with a URL of its own is searched for at most once in a cache lifetime, for
\* any web and any order of the passes, but for an answer a crash has lost.
THEOREM RowsAreSearchedSparingly == Spec => SearchesAreSpaced
<1>1. Init => SpacedInv
    BY DEF Init, SpacedInv
<1>2. TypeOK /\ SpacedInv /\ [Next]_vars =>
        [\A r \in Linked :
            searched[r] # Never /\ searched'[r] \notin {searched[r], Never}
                => searched'[r] - searched[r] >= TTL]_vars
    BY SearchesWait
<1>3. QED
    BY <1>1, <1>2, TypeInit, TypeStep, SpacedStep, PTL DEF Spec, SearchesAreSpaced
=============================================================================
