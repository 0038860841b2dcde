# Deal-Hunter in TLA+

Deal-Hunter watches feeds, pages and search results for offers, keeps what it finds in two files, and
tells a reader about it: at once when a finding is strong, in a morning briefing otherwise, and with
a reminder when something it knows opens or closes. This directory holds TLA+ modules of the parts
that decide what the reader is told and what survives a crash, the TLC configurations that check them
and the proofs of what holds for every size of them. Paths below are relative to the repository.

The program has no test hook for a crash between two writes, for a backend that takes a card and
answers too late, or for a command run in the middle of a round. Those interleavings are what the
modules are for.

## Inventory

| component | state it keeps | operations | what is hard about it | what makes it correct |
|---|---|---|---|---|
| collection round, `internal/pipeline/pipeline.go` RunOnce, and `internal/scheduler/scheduler.go` | `daily:watched_since`, `urgent:sent` in state.json; `pushed` flags in the log | fetch, judge, save, resolve, rank, send, mark, charge | rows are saved before the card goes out and marked after it; any step may be the last one | an announcement interrupts once; no day exceeds its cards; records follow deliveries |
| briefing, pipeline.go DailyDue, SendDaily | `daily:last_sent` | decide, send, stamp | also run by `dealhunter daily` in another process | one scheduled briefing a slot, and a due one goes out |
| event reminders, pipeline.go dueEvents, sendDueEvents | `event:reminded:<fp>`, `event:sent` | scan, send, mark, charge | two windows a row, a cap on the card, a budget on the day | one reminder a row, nothing due is lost behind the cap |
| findings log, `internal/store/store.go` | deals.jsonl; indexes `seen`, `high`, `titles` | Open, Save, MarkPushed, readers, Compact, Close | torn lines, corrections, folding, reads that end early, replacement of the file under another process | what was saved can be read; memory and file agree; folding hides no original |
| state file, store.go | state.json, `Store.state` | loadState, PutState, flush, adopt | every process rewrites all of it | no acknowledged put is rolled back; the file is whole |
| official-link resolver, `internal/official/` | `official:deal:<fp>`, `official:verify:<url>` | Apply, verify, attachVendorSite, LabelCheap | two caches, one budget, two callers that save the result | links are the vendor's and answered; budget holds |
| sources, `internal/sources/` | `openrouter:free_models`, `snapshot:*`, `search:*` cursors | Fetch of each kind | a cursor is written before what it covers is saved; collectors of a round write the file side by side | what a cursor claims was dealt with; what was there all along is not news; every query gets its turn |
| HTTP client, `internal/httpx/httpx.go` | last slot and lock of every host | Get, once, wait | goroutines share it; retries, pauses and the queue for a host run against a deadline | requests to a host are spaced; a call returns; an error has used up its tries |
| notification backends, `internal/notify/` | Feishu tenant token, the three files of the drop | FanOut.Send; Feishu bot and application, drop, relay, console | a card can arrive and its answer not; some backends take a message and others fail; the token ages during a send | acknowledged means delivered; a backend accepts once; one form of a card; the token outlives the send |
| scoring and dates, `internal/scoring`, `internal/keywords`, `internal/model` | the clocks and score of a row | Screen, Evaluate, ExpiresAt, StartsAt | year completion, an anchor that differs between writing and rereading, caps and floors that meet | a date without a year is the next such date; more evidence never scores less |
| configuration, `internal/config` | none after start | Load, Validate | | |
| HTTP API, `internal/httpapi` | none | GET handlers | reads beside the writers | |
| command line, `cmd/dealhunter` | opens a store of its own | run, once, daily, compact, reparse, listings | a second process on the same directory | `reparse` changes clocks only, and once |
| redaction, secretlint | none | pure text | | |
| `deploy/` | backup.stamp | backup, install, rollback | | |

How they meet: the scheduler calls RunOnce and then asks DailyDue. RunOnce fetches every source in a
goroutine of its own, judges in one thread, saves each row in the log, asks the resolver about those
strong enough to interrupt, sends, marks, charges, then runs the reminders. Everything that must
outlive the process is a row of the log or a key of state.json. A command opens the same directory
in its own process; a store's mutex does not exclude it.

## Modules

| module | models | state and actions |
|---|---|---|
| `DayBudget` | local day, slot, `{day, count}` pair of pipeline.go | operators only |
| `Rounds` | RunOnce, Loop.round, DailyDue, SendDaily, `dealhunter daily` | `saved`/`dups`/`marked` are the log as rounds see it, `disk`/`mem` the state file and the process's copy, `pc` the point of the round. One action per durable write, per delivery, and per read a later step relies on: `BeginRound`, `Judge`, `Resolve`, `Decide`, `Push`, `Mark`, `Charge`, `Events`, `CheckDue`, `Brief`, `Stamp`; `Crash`, `Start`; `CmdStart`, `CmdBrief`, `CmdStamp` for the operator |
| `Ledger` | nothing of the code: what the log promises | a table of rows that enter once, are marked, and leave by retention or by a rewrite from a read that missed them |
| `Store` | Open, Save, MarkPushed, verifyForBriefing's read and save, readers' collapse and fold, Compact, Close | `log` is the file's decodable rows, `tail` how it ends; every read of recentLocked is given the log or a prefix of it (`Reads`), since a failed open or scan is not reported; and per handle `fd` (what its append descriptor refers to), `seen`, `high`, `owners`, a row in hand and a compaction in hand |
| `KeyTable` | nothing of the code: what state.json promises | a table whose keys move forward or are pruned |
| `StateFile` | loadState, PutState, adoptDiskStateLocked, flushStateLocked, Compact's flush | inodes, two names, and per process the system call it is at |
| `Reminders` | dueEvents, sendDueEvents | marks and count in file and memory, the card in hand |
| `Resolver` | Apply, applyOne, verify, attachVendorSite, unresolved, LabelCheap, and the callers that save the result | two caches, the row as stored and as the pass holds it, the budget used |
| `Collection` | fetchAll, Fetch of openrouter, snapshot, search and the listing kinds, the keyword gate, and the loop that judges and saves | per source where its collector stands (`at`), the answer it compares (`got`) and what it returns (`out`); the cursors in file and memory; the log. `Step` is the round (`BeginRound`, the collectors side by side, `Judge` by source rank, `Finish`), `Change` and `Crash` are not |
| `HttpClient` | Get, once, wait, the error of a try, the deadline of fetchAll | per host a queue of callers for its lock, and the last slot; per caller its try, and what it waits for until when |
| `Delivery` | New, FanOut.Send, Feishu by webhook and by application with the token cache and the text fallback, FileDrop, the relay, the console | which backend of which message is at which call, `landed` if it took effect, the token kept, the files of the drop |
| `Deadlines` | ExpiresAt, StartsAt and the patterns they try, in minutes of the Gregorian calendar | operators only; a text (`Texts`) is the phrases its patterns match, with their numbers, and whether a date in figures stands in it; `Moments` are those that exist |
| `Screening` | Screen, Evaluate, DiscountPct (`Passes`, `Enter`), and `dealhunter reparse` over the rows an older build judged | rows of the log with their clocks and score, the pass and its cursor, the service writing beside it; a finding brings its text as judged and, with the evidence windows behind it, as stored |
| `MC*` | instances | values for the constants of a run |
| `RoundsProofs`, `RemindersProofs`, `StoreProofs`, `StateFileProofs`, `ResolverProofs`, `CollectionProofs`, `HttpProofs`, `DeliveryProofs` | proofs | |

How they compose. `Rounds` and `Reminders` extend `DayBudget`, `Screening` extends `Deadlines`; its specification is
`ScreeningSpec`, since one proof module extends both it and `Collection`, what a round brings in and how that is judged. `Rounds`,
`Reminders` and `Collection` use the log as a set of rows and state.json as a record of keys with a copy in
memory; `Store` and `StateFile` model what is behind these, each with its abstract specification
(`Ledger`, `KeyTable`), which it is shown to implement. `Rounds` takes what a send does as one step with one
outcome (each backend took the card or not, and answered in time or not); `Delivery` is what happens
inside that step. `Collection` takes a fetch as an answer or an error; `HttpClient` is what happens inside
it. `Resolver` takes both of its caches as durable. In `StateFile` and everywhere else a crash is a step
that can come between any two others of the process.

"Reached a reader" is history, kept in variables that no action reads; the properties compare it
with what the program recorded. Loss of a record is counted where it happens (`looseUrgent`, `unmarked`,
`lost`, `cut`, ...), so a property says "at most N, plus one for every record that was lost", and each such
loss is one of the faults the bound `MaxFaults` limits.

## Runs

| run | instance | what it shows |
|---|---|---|
| `rounds_service` | 3 findings, two of them one announcement; one backend; 4 instants in days of 2; one fault | an announcement interrupts once (`AlertedOnce`), a repeat always has an original, and a due briefing goes out while its day lasts |
| `rounds_operator` | 2 findings, 2 backends, one `dealhunter daily`, one fault | the budget of a day holds, one scheduled briefing a slot (those of the command are not counted), and marks, charges and cursor each follow an acknowledged send, with the operator's command between any two steps |
| `store_service` | 2 fingerprints of one announcement, log of 3 rows, 2 failed writes or reads, 3 instants, retention of one | the log implements `Ledger`; after every failed write, read or compaction, memory and file agree; folding keeps an original |
| `store_command` | the same with a second handle, no fault | violation: what the service saves after `dealhunter compact` is not in the file |
| `state_serial` | 2 processes, a cursor and a prunable verdict, 4 puts, 2 sweeps, 2 failed calls | no acknowledged put is rolled back, and state.json implements `KeyTable` |
| `reminders_rounds` | 3 rows (opens, closes, both) with windows across midnight, cards of one row, two a day, 2 faults | one reminder a row, cards within the budget, rows behind the cap are carried |
| `resolver_passes` | 3 rows, a vendor's entry page and a blog, a budget of 3, caches of 2 days, 4 days, 3 passes, one crash or cancelled context | requests within budget, links are the vendor's and have answered, evidence is recent, searches are spaced |
| `resolver_outage` | the same | violation: a search outage is discounted by the next pass |
| `collection_rounds` | a catalogue of 2 models, a page of 2 prices and a search of 2 queries that finds one of the models; caps of 1; one change upstream, one fault | cursors claim nothing that was not dealt with, nothing old is news, a free model is reported in the end, every query gets its turn |
| `http_round` | 4 callers, 3 of one host, 2 retries, a gap as long as the client's timeout; deadlines that end in the queue, in a pause and during a request | requests are spaced, calls return by a bound, an error has used up its tries |
| `delivery_sends` | 5 wirings of the backends, 2 messages, 3 sends, 2 crashes or revocations (refusals and lost answers at any call), replies that name no lifetime, one within the margin and one beyond | acknowledged means delivered, a backend accepts once, one form a send, the token outlives the send |
| `screening_reparse` | two rows out of some hundred findings: dates around New Year, a 29 February and the edge of the 45-day span, dates that do not exist; evidence that repeats, joins or cuts its text; graded evidence; an older build with fewer patterns | the reading of a date without a year agrees with its reference, more evidence never scores less, `reparse` changes clocks only and once |

Bounds, and why these. Two local days are the least in which a count of another day, a missed slot and
a send across midnight occur; two instants a day put the slot after a time of day that precedes it. Two
findings of one announcement are the least for a repeat, and the third, weaker one is what ranking and
`max_items` leave behind. One fault per run of `Rounds` and `Collection` is enough for each step to be the
one that fails or the last one before a crash; the runs whose hazards need a failure and then a crash
(`Store`, `StateFile`, `Reminders`, `Delivery`) have two (in `Store`, writes and reads together). A retention of one tick and three
instants make a row expire that was discovered first; at 0 the code expires nothing. Three passes of the resolver are the least in which
one caches, one reads the cache and one comes after it lapsed; a budget of three ends inside the loop
over search results and at the side door. One change upstream flips a model to free, or back, at any
point of any round; one item of a cap of one leaves a second behind. Three callers of a host are the
least with one that sleeps at the gate, one behind it that gives up, and one behind both. The clock of
`http_round` (20) outlasts every deadline and pause of its callers. In `delivery_sends` the clock (7) outlasts a kept
token by a send, three sends retry one of two messages, and each backend appears with and without its
companions. The anchors of `screening_reparse` lie
before New Year, within 45 days of a 29 February, and on it.

`MaxTime`, `MaxRows`, `MaxWrites`, `MaxSweeps`, `MaxPasses`, `MaxHits`, `MaxChanges`, `MaxMessages`, `MaxSends`,
`ManualRuns` and `MaxFaults` bound the instance and nothing else. Where time has run out the system stutters in
rounds or passes, so deadlock is checked in all runs but these: `delivery_sends` ends when its messages are
used up, and the run of `Screening` ends when both rows are judged and the passes are done.

Fairness. The steps of the service are weakly fair: `deploy/deal-hunter.service:18` restarts it, the
loop runs a round every interval, and no step blocks for ever, since fetches and sends carry timeouts
(25 s around a send, `internal/notify/notify.go:95`). An acknowledged send is strongly fair: a backend
asked again and again answers in the end; so is the answer of a catalogue or page that is
compared with a cursor. The answers of a search engine are not fair, and `QueriesRotate` does not need
them. Time, changes upstream, crashes and the operator are not fair, and the liveness properties say
"while the day lasts", "while its window is open" or "if it stays free". `Store`, `StateFile`, `Resolver`,
`HttpClient`, `Delivery` and `Screening` are checked for safety only; that a call returns is the safety property
`ReturnsInTime`, a bound on the clock.

## What the violations say

Each quotes the sentence of the repository it contradicts in its finding.

- A compaction from the command line takes the log away from the running service (store.go:590).
- A search outage is remembered as a verdict, which the next pass discounts (resolver.go:167).

Seen while modelling, but not runs of their own.

Delivery to the reader:

- A briefing sent by hand before the slot does not use up the day: `DailyDue` compares the last send with today's slot
  only (pipeline.go:700), while main.go:480-482 ("the schedule will not send a second one until the next one arrives"),
  main.go:515 and README.md:507 say that it does. It needs no race: the service may have taken over the stamp before it
  sends. One it has not taken over yet is overlooked as well, after the slot too, since memory adopts the file only when it
  writes. `rounds_operator` has both behaviours among its states, and `OneBriefingPerSlot` passes there only because it counts
  what the schedule sends.
- A slot that struck while the service was down is served late: the gate is the last send
  (`DailyDue`), which outlives the process, while pipeline.go:796-799 says a missed slot "will not be backfilled"
  and a service that came up at noon does not send 09:00's.
- A failed breakthrough card is not tried again. pipeline.go:362 and README.md:400 say the next round
  retries the same findings, but their rows are in `Seen` by then; they wait for the briefing, as the log line
  in pipeline.go says.
- `spendBudget` (pipeline.go:905) adds to the stored count without looking at its day, so yesterday's cards
  count against today and a ceiling of N can mean less.
- A briefing saves a row only if its score moved, so a changed label can be on the card and not in the
  panel.
- A Feishu token the server rejects or has revoked is kept until it lapses here. A lifetime of two
  minutes or less gets no margin (feishu.go:434; a reply that names none is taken for two hours, with
  the margin off), so 121 s are kept for one second and 120 s to the end.
- The webhook has no text fallback. A `FileDrop` that fails leaves the files it has written, and a failed
  retry writes them again; its temporary name is shared by processes.

Files:

- A compaction whose read of the log fails (store.go:302 answers an error of `os.Open` with no rows, and `sc.Err()` is not
  asked after the scan of 314-327) takes the rows it was given for all there are, writes them over the log and
  reports success: discover, read nothing, rename, and accepted rows are gone, `seen` and all. One handle suffices:
  put to the instance of `store_service`, `SavedIsReadable` is violated in five states; the run checks `ImplementsLedger`, where
  such a loss is a step of its own (`Rewrite`). The round's other readers (the briefing, the reminders, `appendFlag`) merely see fewer rows that time.
- `Tears = TRUE` in `Store`: after a torn last line the next accepted row is appended to it, and neither
  can be decoded.
- `Overlap = TRUE` in `StateFile`: two processes share one temporary name (store.go:512), and a reader can find
  state.json truncated or garbled.
- `StaleSweep = TRUE` in `StateFile`: Compact flushes its memory without taking the file as its base, and
  rolls back keys another process has written since.
- A Compact that fails after closing the log leaves the handle closed: every later Save of the process
  fails (which is why `RestartAgrees` still holds).
- A flush that fails has already changed memory, and the next PutState takes the older value from the
  file: a briefing may be sent again (`looseDaily` counts it).
- `reparse` saves rows as it read them, so a pushed flag or a score the service writes meanwhile is undone
  (`ReparseCorrectsTheClocks` speaks of a pass that runs alone).

Sources and resolver:

- Cursors are stored before the findings are saved, and for everything the list held: what the cap, a crash or a
  failed save drops in between is not reported later, where openrouter.go:16-18 promises "exactly one alert".
  The cap of openrouter also cuts before the keyword gate.
- The cap of a snapshot cuts the facts before they are compared: an old fact comes out as new when
  an earlier one leaves the page, although snapshot.go:14-15 says "only the price facts that newly appeared".
  In JSON mode the order is a map's, so which facts fit is random.
- The fingerprint is made from the URL, so a changed price behind the same link is passed over by `Seen`.
- A redirect is followed inside `client.Do` without the host's gate, and its requests are not spaced; the resolver's
  budget counts lookups, so the retries of one are not charged to it.
- All openrouter sources share one cursor key. The module assumes they read one catalogue; two that read
  different ones would each report the other's difference, round after round.
- A caller that waits for a host's lock does not see its deadline pass, and one whose deadline has
  passed may still use up a slot; the client's own timeout counts as the deadline and is not retried.
- Each briefing moves the score of a row again by +8 or -6 from the cache and saves it, so a row drifts to
  100, or below `notify.daily.min_score` although resolver.go:36-38 says "discounted rather than hidden".
- Side doors of rows with a cached verdict consume the pass's lookups even when the page verdict is
  cached, so rows behind them are labelled "budget".

Dates and prices:

- "8.5折" is read as "5折", a cut of one half (keywords.go:74).
- The evidence stored with an offer begins 16 runes before a keyword (`window`, keywords.go:683), which may be between a
  deadline word and its date ("截止时间9月30日10:00前领取免费额度" in a longer text). `reparse` reads that evidence behind the text, takes
  the date for an opening, and writes `starts_at` to a row that the same parser had judged rightly; `doctor` reports the row as
  drift. `screening_reparse` has this among its states (the finding `Cut` of `MCScreening`).
- White space is collapsed in that evidence: a lead-in and a date that stood on two lines join, and a deadline
  appears; digits of a date may be cut off at its edges. A row without a publication date was judged
  against the moment of judgement and is reread against the moment of discovery.

## Proofs

`tlapm` checks these for every value of the constants that satisfies the modules' assumptions.

`RoundsProofs`
- `TypeCorrect`: `Spec => []TypeOK`. `TypeOK` also says that marks, cards and repeats are rows the log
  accepted; without that containment the range of `card` is not inductive.
- `AnnouncementsInterruptOnce`: `Spec => []AlertedOnce`. The property counts cards and says nothing of the
  rows a later card may be filled from. `AlertInv` adds that: an announcement has one original in the log;
  what is about to interrupt or is on a card is such an original and was on no card before; what was on a
  card is an original too; and while the service runs, its `seen` is what the log holds, which is what
  makes `judge` pass over a known row after a crash and `Start`. `RepeatsAreOwned` (`RepeatsHaveAnOwner`) is
  a step invariant on top of it.
- `RecordsFollowDeliveries` (`RecordsAreDelivered`). A record can come from the file, from memory, or
  from the step that is about to write it, in either process: `RecordInv` says of each that it is true.
- `CardsStayWithinBudget` (`UrgentWithinBudget`) and `SlotsBriefOnce` (`OneBriefingPerSlot`). Both count
  deliveries, while the code decides on a record that a crash, a failed write or the command may have set
  back. `UrgentInv` says that every pair some process may still act on (`Pairs`) accounts for the cards of its
  day but those whose charge was lost and the one in hand; `BriefInv` says the same of the cursors and adds
  that no day ahead of the clock has had a briefing, which is what lets a cursor set back to an earlier
  instant of the same day still be after the slot.

`RemindersProofs`: `TypeCorrect`; `RowsRemindOnce` (`RemindedOnce`) from `RemindInv`, where memory holds every mark the
file does and a card holds no row that is marked; `BudgetHolds` (`CardsWithinBudget`) from `BudgetInv`, as above. Both
rest on what both modules prove first of days and pairs.

`StoreProofs`
- `TypeCorrect`: with any number of processes and torn writes.
- The other four assume `Orderly`: one process has the directory open, and a write lands whole or not at all. That is
  the deployed service on a disk that does not tear lines, with refused writes, reads that end early and failed
  compactions (the temporary file, the rename, the state flush) at any step; it is what `store_service` runs. A second
  process can lose rows (`store_command`), and so can a torn line (see above). A failed read can too (see
  above); what is proved says how far that goes.
- `RestartSafe` (`RestartAgrees`), `OriginalsSafe` (`RepeatsHaveAnOriginal`) and `SavesAreReadable` (`SavedUnlessMissed`: an
  accepted row is in the file until retention drops it, or a compaction leaves it out that did not read it; `SavedIsReadable` without that exception
  is false of one handle as well as of two) from `StoreInv`. Save, the briefing and Compact act on what an earlier
  step read, so it links the copies: `seen` and `high` are what the file would load; who owns a title in memory is in the
  file, or retention took or a failed read missed a row of the title (`TitlesInv`); a row in hand and a compaction in hand still read as
  the file does but for what their read missed (`HeldInv`, `PlanInv`), which a row appended between read and write would break; an announcement in
  the file has a latest row that is no repeat (`OriginalsInv`).
- `LogImplementsLedger` (`ImplementsLedger`), the refinement: a row the service discovers is `Record`, `MarkPushed` is `Mark`
  whether its append succeeds or not, a read is `Read` of what it did not reach, the rename of a compaction is
  `Rewrite` without what it did not keep, and so is a row saved again by the briefing. `View`, `Latest` and `First` say what collapse and fold compute by the places of a
  row in the log, without recursion; so the lemmas about an append (`AppendedViews`) and about a replaced
  log (`SwappedViews`) need no induction over it. `NewestFirstLists` says that the order Compact writes in exists and lists
  each row once.

`StateFileProofs`
- `TypeCorrect`: the two names never share an inode, and an open finds a free one. That one is left is counting: a
  process writes at most one inode and state.json names at most one, and there are two more inodes
  than processes.
- `AckedPutsSurvive`: `Serial /\ Spec => []LatestWriteSurvives`, and `FileImplementsTable`: `Serial /\ Spec =>
  ImplementsKeyTable`, the refinement. `Serial` is what the run assumes too: flushes of two processes do not overlap
  and no compaction runs on an outdated memory. Without it both are false (see above). `FlightInv` says that
  what is in flight is at least as recent as what it will replace, except for what it prunes, and that the temporary
  file holds it; a rename is then the one step that moves the table (`RenamePublishes`).

`ResolverProofs`
- `TypeCorrect`, with the clamp of `bump` and the containment of a pass's rows in the stored ones.
- `PassesStayWithinBudget`: every request is preceded by its lookup, and every lookup by a comparison.
- `LinksComeFromTheVendor`: a link can come from this pass, from the row's cache, or from a page verdict that
  another row cached. `LinkInv` therefore says of page verdicts that they lead to a page of the same
  owner as the page asked, of row verdicts that they name a page of the row's vendor, and of both that
  the page has answered; `SoundStays` carries these over every later probe.
- `LabelsRestOnRecentProof` (`EvidenceIsRecent`): a page verdict is no younger than the answer it rests on, a row verdict
  may rest on a page verdict almost a lifetime old (`EvidenceInv`); hence two lifetimes and not one.
- `RowsAreSearchedSparingly` (`SearchesAreSpaced`, an action property): a search that was made has left a verdict at least as
  recent, unless the pass still looks at its results (`SpacedInv`), and a search needs a verdict that lapsed.

`CollectionProofs`
- `CursorsAreAccounted` (`CursorIsAccounted`): memory after a failed flush, and an answer compared and not
  yet written, must account for what they hold as the file does, since the next flush makes either the cursor
  (`CursorInv`); `WalkInv` says where the collectors can stand while the round is elsewhere.
- `NewsIsNew` (`NothingOldIsNews`): what a cursor leaves out was missing from the list it came from
  (`NewsInv`), for the same three copies.
- `TypeCorrect`: the cursors of all kinds share one file, and each key holds what its kind of source puts there, in file
  and memory and in what a collector is about to write (`RangeInv`).

- `DatesAreTheNextSuch` (`YearlessIsTheNextSuchDate`), about `Screening`. The code compares two dates with the announcement,
  this year's and next year's, and gives up when this year's does not exist; the property looks at four years.
  `YearlessReading` closes the gap by the calendar: a year is as long as its months (`YearLength`), so the same date
  a year on is at least 365 days later (`DateNextYear`), last year's lies behind the announcement, the year after
  next's beyond 45 days of it, and a 29 February that this year does not have is further than that from any moment of
  this year (`LeapDayIsFar`), so no deadline is lost by giving up.
- `MoreEvidenceScoresHigher` (`StrongerEvidenceScoresHigher`). Each part of the score grows with its evidence, although kinds of
  offers replace one another, a stated cut stands in for a discount that no word names, and each sum is
  clamped: `CutGrows`, `BonusGrows`, `OfferValueGrows`, `OfferedGrows`, `FreshnessGrows`, `ScoreGrows`, and `EvidenceAdds` for one more
  piece of evidence. A later day is added without leaving the month, which `Instant` reads as `time.Date` does.
- `ReparseOnlyCorrectsClocks` (`ReparseCorrectsTheClocks`, an action property), whatever the patterns of either build
  find. A row that its own build has read stays as it is only where reparse reads the same: the same anchor, and
  evidence that repeats whole phrases and does nothing else to the text (`SameReading`). `OnlyRepeatsReadsTheSame` says why
  that suffices: of a repeated opening the first is read (`RepeatsReadTheSame`). Where evidence cuts or joins,
  the row may be rewritten (see above). `ScreenInv` says that a row keeps the score of its finding, that what
  this build has judged has the clocks this build reads (`RowOK`), and that a running `reparse` holds such rows,
  which from its place on are the log's unless somebody else has written. `RereadARow` says that a correction
  corrects nothing more when it is made again.
- These three rest on `ScreeningAssumption`: what the sources bring has the type `Candidates` (moments that exist in the
  calendar, phrases whose numbers are naturals), and the log has room for a row.

`HttpProofs`
- `HostsAreSpaced` (`RequestsAreSpaced`): a caller that wakes does not look at the gate again. `GateInv` says why it need
  not: it has kept the lock, so the instant it waits for is still the one the gate opens at.
- `ErrorsAreRetried` (`FailsAfterAllTries`), from `TriesInv`.
- `TypeCorrect`: the queue of a host holds those who wait for it, each once (`QueueInv`), and tries and instants are in
  range (`RangeInv`).
- `CallsReturnInTime` (`ReturnsInTime`): `LineInv` bounds a call whose deadline has passed by its place in the
  queue: the first is through when the gate opens, everyone behind it one `Gap` after the one in front, and there are
  no more places than callers of the host. A call that is not in a queue is not late at all, since no time passes while
  it can move (`Urgent`, which spells out when one of its steps is enabled, so that the clock needs no ENABLED). The bound
  rests on a lock that serves in the order of arrival, which Go's mutex does for those who have waited 1 ms,
  and on `HttpAssumption`: finitely many callers, a context that ends no earlier than its call begins, and no negative
  pause (`Backoff`).

`DeliveryProofs`: `AcknowledgedIsDelivered`, `BackendsAcceptOnce`, `SendsShowOneForm`, `KeptTokensOutliveSends` and
`TypeCorrect`, for every wiring.
The first three rest on the order of the walk (`WalkInv`): no wiring holds a backend twice, so what the current
turn has not reached was not given this message by this send. The fourth relates the end of the send, the end of the
request under way and the end of the token (`TokenInv`); it needs the margin to cover the send's own timeout and the
reply's, which is the assumption `DeliveryAssumption` makes of feishu.go's two minutes.

Only model-checked. Liveness (`DueBriefingGoesOut`, `DueRowsAreCarried`, `FreeModelIsReported`, `QueriesRotate`) is out of the
prover's reach. Every other property the passing runs check is proved as well.

## Not modelled

- What the regular expressions match, title and URL normalisation, feed and HTML parsing, card
  rendering, redaction, secretlint: functions of text. What they find is an input.
- The follow-up pages of html sources: they add evidence to a finding and keep no state.
- Configuration and the HTTP API: read once, and read only. `doctor`, `probe`, `notify-test` and the listings read or
  send by hand.
- Power loss: a rename or an append is durable when the call returns; appended rows are not fsynced (state.json and a
  compacted log are).
- Retention together with discovery: a page that is still up when its row is forgotten is found and announced again.
  Nothing in the code bounds how long a page stays up, so there is no claim to check.
- Several rounds at once: `roundMu` excludes them within a process; the commands that write beside the service
  (`daily`, `compact`, `reparse`) are modelled, `once` is a round of a second process and is not.
- `deploy/` scripts: run by an operator with the service stopped or beside it; only the restart they rely
  on is used, as fairness.

## Plan

1. Done: the modules above with their runs, the two abstract specifications, the proofs.
2. What still holds of the log while `daily` appends to it beside the service and nobody compacts.
3. `dealhunter once` as a second process that runs whole rounds beside the service.
