------------------------------ MODULE Resolver ------------------------------
(***************************************************************************)
(* internal/official/resolver.go: the ladder that ties a finding to a page *)
(* of the vendor it names, and moves the finding's score by what it found. *)
(*                                                                         *)
(* App.RunOnce applies it to the findings about to interrupt, and          *)
(* App.SendDaily to every row of the briefing.  Both save what changed, so *)
(* the next pass starts from the score and the label this one left; what   *)
(* was asked of the network is cached in state.json for TTL days.          *)
(*                                                                         *)
(* A page is a URL with the vendor whose domain it is on.  A search answers*)
(* with any short list of pages or not at all, a probe with any page or    *)
(* not at all.  Cache writes are durable here (module StateFile); one      *)
(* process is modelled.                                                    *)
(***************************************************************************)
EXTENDS Integers, Sequences

CONSTANTS
    Rows,           \* findings strong enough for the ladder
    Pages,          \* pages of the web that searches and redirects lead to
    None,
    Vendor,         \* primaryVendor of a row, or None
    Hosted,         \* rows whose own URL is on a vendor's domain
    Linked,         \* rows whose own URL is not empty
    Queryable,      \* rows searchQueryFor finds words for
    Owner,          \* VendorForDomain of a page, or None
    Entry,          \* CanonicalFor: a vendor's entry page, or None
    Score,          \* score of a row after Screen
    DailyMin,       \* notify.daily.min_score
    MaxLookups,     \* filter.max_official_lookups
    TTL,            \* days a cached verdict is trusted
    MaxTime,        \* BOUND on the clock
    MaxPasses,      \* BOUND on passes that have a row to look at
    MaxHits,        \* BOUND on the results of one search
    MaxFaults       \* BOUND on crashes and cancelled passes

Vendors == {Owner[p] : p \in Pages} \ {None}

ASSUME ResolverAssumption ==
    /\ None \notin Rows \union Pages
    /\ Hosted \subseteq Rows /\ Linked \subseteq Rows /\ Queryable \subseteq Rows
    /\ Vendor \in [Rows -> Vendors \union {None}]
    /\ Entry \in [Vendors -> Pages \union {None}]
    /\ \A v \in Vendors : Entry[v] # None => Owner[Entry[v]] = v
    /\ Score \in [Rows -> 0..100]
    /\ DailyMin \in Nat /\ MaxLookups \in Nat /\ TTL \in Nat \ {0}
    /\ MaxTime \in Nat /\ MaxPasses \in Nat /\ MaxHits \in Nat /\ MaxFaults \in Nat

VARIABLES
    now,        \* the day
    \* ---- on disk
    stored,     \* the latest row of a finding, None if there is none
    deals,      \* official:deal:<fp>, the verdict on a row
    pages,      \* official:verify:<url>, the verdict on a page
    \* ---- a pass in memory
    pass,       \* which pass runs
    work,       \* its copies of the rows
    todo,       \* rows it has not looked at
    cur, hits,  \* the row being searched for, and the results left to probe
    lookups,    \* the budget used so far
    \* ---- history, read by no action
    requests,   \* searches and probes this pass sent
    proved,     \* last instant a probe ended at a page and was answered
    age,        \* how old that proof was when the row was last labelled with it
    searched,   \* last search made for a row
    answered,   \* rows some search has answered for
    passes, faults

memory == <<pass, work, todo, cur, hits, lookups>>
history == <<requests, proved, age, searched, answered>>
vars == <<now, stored, deals, pages, memory, history, passes, faults>>

Never == -1
Kinds == {"", "official", "search_verified", "third_party"}
Official == {"official", "search_verified"}
Reasons == {"", "domain", "no-vendor", "search", "budget", "no-query",
            "search-unavailable", "unresolved"}

\* The presented link is the row's own URL, written None, or a page.
Deal == [score : 0..100, kind : Kinds, by : Reasons,
         url : Pages \union {None}, site : Pages \union {None}]
DealVerdict == [kind : Kinds, by : Reasons, url : Pages \union {None}, at : 0..MaxTime]
PageVerdict == [final : Pages \union {None}, at : 0..MaxTime]

ASSUME AbsentRowAssumption == None \notin Deal /\ None \notin DealVerdict

\* Every variable in its range; a row in hand is a row of the running pass, and
\* every row of it was stored before.
TypeOK ==
    /\ now \in 0..MaxTime
    /\ stored \in [Rows -> Deal \union {None}]
    /\ deals \in [Rows -> DealVerdict \union {None}]
    /\ pages \in [Pages -> PageVerdict \union {None}]
    /\ pass \in {"none", "round", "briefing"}
    /\ work \in [Rows -> Deal \union {None}]
    /\ todo \in SUBSET Rows
    /\ cur \in Rows \union {None} /\ (cur # None => Vendor[cur] # None)
    /\ \A r \in Rows : (r \in todo \/ r = cur) => work[r] # None
    /\ \A r \in Rows : work[r] # None => stored[r] # None
    /\ pass = "none" => todo = {} /\ cur = None /\ lookups = 0 /\ requests = 0
    /\ hits \in Seq(Pages)
    /\ lookups \in Nat /\ requests \in Nat
    /\ proved \in [Pages -> 0..MaxTime \union {Never}]
    /\ age \in [Rows -> Int]
    /\ searched \in [Rows -> 0..MaxTime \union {Never}]
    /\ answered \in SUBSET Rows
    /\ passes \in 0..MaxPasses /\ faults \in 0..MaxFaults
-----------------------------------------------------------------------------
(***************************************************************************)
(* Labels and points                                                       *)
(***************************************************************************)
bonusVerified == 8
penaltyThirdParty == 6

\* Mutant: the score is not clamped.
Unclamped(d, delta) == [d EXCEPT !.score = @ + delta]

Bumped(d, delta) ==
    LET n == d.score + delta
    IN  [d EXCEPT !.score = IF n < 0 THEN 0 ELSE IF n > 100 THEN 100 ELSE n]

Labelled(d, url, kind, by) == [d EXCEPT !.url = url, !.kind = kind, !.by = by]

\* What judge stores: LabelCheap over a row Screen has just scored.
LabelCheap(r) ==
    LET d == [score |-> Score[r], kind |-> "", by |-> "", url |-> None, site |-> None]
    IN  CASE r \in Hosted      -> Labelled(d, None, "official", "domain")
          [] r \notin Hosted /\ Vendor[r] = None
                               -> Labelled(d, None, "third_party", "no-vendor")
          [] OTHER             -> d

(***************************************************************************)
(* verify: a cached verdict younger than TTL is the answer; else the page  *)
(* is asked, and must still be the vendor's where the redirects end.  The  *)
(* answer to a probe is the page the redirects end at, or None if it is an *)
(* error; a verdict keeps the page if the link is good, or None.           *)
(***************************************************************************)
Answers == Pages \union {None}

Current(v) == v # None /\ now - v.at < TTL

\* Mutant: the destination of a redirect is not looked at.
ProbeAnywhere(a, v) == [final |-> a, at |-> now]

Probe(a, v) == [final |-> IF a # None /\ Owner[a] = v THEN a ELSE None, at |-> now]

Verdict(p, v, a) == IF Current(pages[p]) THEN pages[p] ELSE Probe(a, v)

\* The side effects of one verify.
Verified(p, v, a) ==
    /\ pages' = [pages EXCEPT ![p] = Verdict(p, v, a)]
    /\ proved' = IF ~Current(pages[p]) /\ a # None THEN [proved EXCEPT ![a] = now] ELSE proved

Request(p) == IF Current(pages[p]) THEN 0 ELSE 1

(***************************************************************************)
(* attachVendorSite: n lookups and q requests into the pass, the entry     *)
(* page of the vendor is offered beside the link if it answers.            *)
(***************************************************************************)
SideDoor(d, v, n) == d.site = None /\ Entry[v] # None /\ n < MaxLookups

\* Mutant: the side door is tried whatever has been spent.
AttachAnyway(r, d, n, q, a) ==
    LET v == Vendor[r]
        p == Entry[v]
    IN  /\ work' = [work EXCEPT ![r] = d]
        /\ lookups' = n + 1 /\ requests' = q + Request(p)
        /\ Verified(p, v, a)

Attach(r, d, n, q, a) ==
    LET v == Vendor[r]
        p == Entry[v]
    IN  IF SideDoor(d, v, n)
        THEN /\ lookups' = n + 1 /\ requests' = q + Request(p)
             /\ Verified(p, v, a)
             /\ work' = [work EXCEPT ![r] = IF Verdict(p, v, a).final # None
                                            THEN [d EXCEPT !.site = Verdict(p, v, a).final]
                                            ELSE d]
        ELSE /\ lookups' = n /\ requests' = q /\ UNCHANGED <<pages, proved>>
             /\ work' = [work EXCEPT ![r] = d]

\* Mutant: what was not found is not remembered.
UnresolvedForgets(r, by, penalty, n, q, a) ==
    /\ Attach(r, Bumped(Labelled(work[r], None, "third_party", by), 0 - penalty), n, q, a)
    /\ UNCHANGED deals

\* unresolved: a side door, a cached verdict, a label, and the discount.
Unresolved(r, by, penalty, n, q, a) ==
    /\ Attach(r, Bumped(Labelled(work[r], None, "third_party", by), 0 - penalty), n, q, a)
    /\ deals' = [deals EXCEPT ![r] = [kind |-> "third_party", by |-> by,
                                      url |-> None, at |-> now]]
-----------------------------------------------------------------------------
Init ==
    /\ now = 0
    /\ stored = [r \in Rows |-> None] /\ deals = [r \in Rows |-> None]
    /\ pages = [p \in Pages |-> None]
    /\ pass = "none" /\ work = [r \in Rows |-> None] /\ todo = {}
    /\ cur = None /\ hits = <<>> /\ lookups = 0 /\ requests = 0
    /\ proved = [p \in Pages |-> Never] /\ age = [r \in Rows |-> 0]
    /\ searched = [r \in Rows |-> Never] /\ answered = {}
    /\ passes = 0 /\ faults = 0

\* A crash, or a context that is over before its pass.
Fault == faults < MaxFaults /\ faults' = faults + 1

\* A pass takes minutes and is over on the day it began.
Tick ==
    /\ pass = "none"
    /\ now < MaxTime /\ now' = now + 1
    /\ UNCHANGED <<stored, deals, pages, memory, history, passes, faults>>

\* A pass over the rows of S, as they are in copies.
BeginPass(kind, S, copies) ==
    /\ pass = "none"
    /\ \/ S = {} /\ UNCHANGED passes
       \/ S # {} /\ passes < MaxPasses /\ passes' = passes + 1
    /\ pass' = kind /\ todo' = S
    /\ work' = [r \in Rows |-> IF r \in S THEN copies[r] ELSE None]
    /\ UNCHANGED <<now, deals, pages, cur, hits, lookups, history, faults>>

\* RunOnce has judged, labelled and saved the findings of S.
BeginRound(S) ==
    /\ \A r \in S : stored[r] = None
    /\ stored' = [r \in Rows |-> IF r \in S THEN LabelCheap(r) ELSE stored[r]]
    /\ BeginPass("round", S, stored')

\* SendDaily has read the rows of the briefing; all that are strong enough fit.
BeginBriefing ==
    /\ BeginPass("briefing",
                 {r \in Rows : stored[r] # None /\ stored[r].score >= DailyMin}, stored)
    /\ UNCHANGED stored

\* The row under the ladder is done with.
Take(r) == pass # "none" /\ cur = None /\ r \in todo /\ todo' = todo \ {r}

\* Rung 1, and the row nobody can be asked about.
Free(r) ==
    /\ Take(r)
    /\ \/ /\ r \in Hosted
          /\ work' = [work EXCEPT ![r] =
                         Bumped(Labelled(@, None, "official", "domain"), bonusVerified)]
       \/ /\ r \notin Hosted /\ Vendor[r] = None
          /\ work' = [work EXCEPT ![r] = Labelled(@, None, "third_party", "no-vendor")]
    /\ UNCHANGED <<now, stored, deals, pages, pass, cur, hits, lookups, history, passes, faults>>

\* The row needs the network, and no verdict on it is current.
Asks(r) == r \notin Hosted /\ Vendor[r] # None

\* Mutant: a cached verdict is trusted for ever.
KnownForEver(r) == deals[r] # None /\ (deals[r].url # None \/ r \in Linked)

Known(r) == Current(deals[r]) /\ (deals[r].url # None \/ r \in Linked)

\* A verdict of an earlier pass, with its points once more.
Cached(r, a) ==
    LET v == deals[r]
        d == Labelled(work[r], v.url, v.kind, v.by)
    IN  /\ Take(r) /\ Asks(r) /\ Known(r)
        /\ IF v.kind \in Official
           THEN /\ work' = [work EXCEPT ![r] = Bumped(d, bonusVerified)]
                /\ age' = [age EXCEPT ![r] = IF v.url = None THEN 0 ELSE now - proved[v.url]]
                /\ UNCHANGED <<pages, lookups, requests, proved>>
           ELSE Attach(r, Bumped(d, 0 - penaltyThirdParty), lookups, requests, a) /\ UNCHANGED age
        /\ UNCHANGED <<now, stored, deals, pass, cur, hits, searched, answered, passes, faults>>

Broke == lookups >= MaxLookups

\* The budget of the pass is gone: a label for now, and no verdict.
OverBudget(r) ==
    /\ Take(r) /\ Asks(r) /\ ~Known(r) /\ Broke
    /\ work' = [work EXCEPT ![r] = Labelled(@, None, "third_party", "budget")]
    /\ UNCHANGED <<now, stored, deals, pages, pass, cur, hits, lookups, history, passes, faults>>

NoQuery(r, a) ==
    /\ Take(r) /\ Asks(r) /\ ~Known(r) /\ ~Broke /\ r \notin Queryable
    /\ Unresolved(r, "no-query", penaltyThirdParty, lookups, requests, a)
    /\ UNCHANGED <<now, stored, pass, cur, hits, age, searched, answered, passes, faults>>

\* Rung 2.  A search that fails says nothing about the row: no discount now.
SearchFails(r, a) ==
    /\ Take(r) /\ Asks(r) /\ ~Known(r) /\ ~Broke /\ r \in Queryable
    /\ searched' = [searched EXCEPT ![r] = now]
    /\ Unresolved(r, "search-unavailable", 0, lookups + 1, requests + 1, a)
    /\ UNCHANGED <<now, stored, pass, cur, hits, age, answered, passes, faults>>

SearchAnswers(r, h) ==
    /\ Take(r) /\ Asks(r) /\ ~Known(r) /\ ~Broke /\ r \in Queryable
    /\ searched' = [searched EXCEPT ![r] = now] /\ answered' = answered \union {r}
    /\ cur' = r /\ hits' = h
    /\ lookups' = lookups + 1 /\ requests' = requests + 1
    /\ UNCHANGED <<now, stored, deals, pages, pass, work, proved, age, passes, faults>>

\* The next result: a page the vendor does not own is passed over; one it owns
\* settles the row if it answers.
TryHit(a) ==
    LET v == Vendor[cur]
        p == Head(hits)
        o == Verdict(p, v, a)
    IN  /\ cur # None /\ hits # <<>> /\ lookups < MaxLookups
        /\ \/ /\ Owner[p] # v
              /\ hits' = Tail(hits)
              /\ UNCHANGED <<deals, pages, work, cur, lookups, requests, proved, age>>
           \/ /\ Owner[p] = v
              /\ lookups' = lookups + 1 /\ requests' = requests + Request(p)
              /\ Verified(p, v, a)
              /\ IF o.final # None
                 THEN /\ work' = [work EXCEPT ![cur] =
                             Bumped(Labelled(@, o.final, "search_verified", "search"),
                                    bonusVerified)]
                      /\ deals' = [deals EXCEPT ![cur] =
                             [kind |-> "search_verified", by |-> "search",
                              url |-> o.final, at |-> now]]
                      /\ age' = [age EXCEPT ![cur] = now - proved'[o.final]]
                      /\ cur' = None /\ hits' = <<>>
                 ELSE /\ hits' = Tail(hits)
                      /\ UNCHANGED <<deals, work, cur, age>>
        /\ UNCHANGED <<now, stored, pass, todo, searched, answered, passes, faults>>

\* No result settled it.
GiveUp(a) ==
    /\ cur # None /\ (hits = <<>> \/ Broke)
    /\ Unresolved(cur, "unresolved", penaltyThirdParty, lookups, requests, a)
    /\ cur' = None /\ hits' = <<>>
    /\ UNCHANGED <<now, stored, pass, todo, age, searched, answered, passes, faults>>

\* Apply returns, early if its context is over.  A round saves every row it was
\* given; a briefing those whose score moved.
EndPass ==
    /\ pass # "none" /\ cur = None
    /\ \/ todo = {} /\ UNCHANGED faults
       \/ todo # {} /\ Fault
    /\ stored' = [r \in Rows |->
                    IF work[r] # None /\ (pass = "round" \/ work[r].score # stored[r].score)
                    THEN work[r] ELSE stored[r]]
    /\ pass' = "none" /\ todo' = {} /\ work' = [r \in Rows |-> None]
    /\ lookups' = 0 /\ requests' = 0
    /\ UNCHANGED <<now, deals, pages, cur, hits, proved, age, searched, answered, passes>>

\* The pass is lost, with the answer to the search it was looking at.
Crash ==
    /\ pass # "none" /\ Fault
    /\ pass' = "none" /\ todo' = {} /\ work' = [r \in Rows |-> None]
    /\ cur' = None /\ hits' = <<>> /\ lookups' = 0 /\ requests' = 0
    /\ searched' = [r \in Rows |-> IF r = cur THEN Never ELSE searched[r]]
    /\ UNCHANGED <<now, stored, deals, pages, proved, age, answered, passes>>

\* Results of a search: pages in any order, the same page twice included.
HitLists == UNION {[1..n -> Pages] : n \in 0..MaxHits}

Next ==
    \/ Tick \/ BeginBriefing \/ EndPass \/ Crash
    \/ \E S \in SUBSET Rows : BeginRound(S)
    \/ \E r \in Rows : Free(r) \/ OverBudget(r)
    \/ \E r \in Rows, h \in HitLists : SearchAnswers(r, h)
    \/ \E r \in Rows, a \in Answers : Cached(r, a) \/ NoQuery(r, a) \/ SearchFails(r, a)
    \/ \E a \in Answers : TryHit(a) \/ GiveUp(a)

Spec == Init /\ [][Next]_vars
-----------------------------------------------------------------------------
(***************************************************************************)
(* Properties                                                              *)
(***************************************************************************)

\* However the searches, the probes and the side doors of a pass fall together, it
\* sends no more requests than filter.max_official_lookups.
RequestsWithinBudget == requests <= lookups /\ lookups <= MaxLookups

\* A page presented as the offer's own, or as the vendor's door, belongs to the
\* vendor of the row and did answer, wherever the label came from: this pass, a
\* verdict cached for the row, or one cached for the page by another row.
LinksAreTheVendors ==
    \A r \in Rows : \A d \in {stored[r], work[r]} \ {None} :
        \A p \in {d.url, d.site} \ {None} : Owner[p] = Vendor[r] /\ proved[p] # Never

\* The proof behind a verified link is never older than two cache lifetimes when
\* it is presented: a row's verdict may rest on a page verdict that was itself
\* about to lapse.
EvidenceIsRecent == \A r \in Rows : age[r] <= 2 * (TTL - 1)

\* A row is searched for once in a cache lifetime, whichever pass meets it and
\* whatever the search said, unless a crash lost the answer or the row has no URL
\* of its own.
SearchesAreSpaced ==
    [][\A r \in Linked :
          searched[r] # Never /\ searched'[r] \notin {searched[r], Never}
              => searched'[r] - searched[r] >= TTL]_vars
-----------------------------------------------------------------------------
\* "an outage must not silently downgrade findings" (resolver_test.go,
\* TestSearchOutageIsNotPunished): a row no search was ever answered for keeps
\* the score Screen gave it.
OutageIsNotPunished ==
    \A r \in Queryable :
        stored[r] # None /\ r \notin answered => stored[r].score >= Score[r]
=============================================================================
