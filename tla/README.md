# A verification of Hookline's queue, money and live sessions

Hookline lets listeners submit tracks to a host's live session, for free or for
money, and lets the host play, skip and finish them on the air. These TLA+
modules model the parts of it whose correctness depends on the order of
concurrent steps: the queue of a session and the browsers that follow it, the
checkout and the webhooks that move money, the idempotent submission of a track,
the counting of plays, a host's way to his station and his live sessions,
the upload and deletion of media, and accounts. TLC checks them on small instances,
and TLAPS proves the most important invariants for every value of the constants.

All paths below are relative to the repository; `LS` stands for
`apps/api/src/live-sessions/live-sessions.service.ts`, `WH` for
`apps/api/src/payments/webhooks.service.ts`, `SU` for
`apps/api/src/submissions/submissions.service.ts`, `HS` for
`apps/api/src/host/host.service.ts`, `QO` and `PC` for `queue-ordering.service.ts`
and `play-counting.ts` next to `LS`.

## 1. The system

The API is a NestJS process (several instances may run) over one PostgreSQL
database, with Stripe, S3 and Redis beside it; a worker process handles media
jobs; the web application talks to the API by HTTP and a socket.

| Component | State | Operations | Correct when |
|---|---|---|---|
| Queue and player (`LS`) | `live_sessions` (status, revision, current entry), `queue_entries`, `submissions` | playNext, loadQueueEntry, clearPlayer, skip, complete, remove, moveToNext, changeEntryTier, pause, resume, end | one entry plays; both status columns agree; nothing unpaid is in line; what is finished stays finished; clients can tell they missed a change |
| Queue ordering (`QO`) | `priorityRank`, `sortOrder` | top, bottom, before, after, rebalance | new entries go behind those of their rank, displaced ones to their place |
| Play counting (`PC`) | `countedPlayAt`, `playback_events` | recordQualifyingPlay, selectCountedPlays | counted plays of a track are a window apart, none is lost |
| Submissions (`SU`) | `submissions`, usage counters, PaymentIntents | createSubmission, upgradeSubmission | one submission per key; limits kept; no answer about something that was not committed |
| Idempotency | `api_idempotency_records` | claimLock, releaseLock | one holder of a key |
| Eligibility, reservations | `live_tier_reservations` and counts of other tables | getEligibility, cleanup | no tier is sold beyond its limits |
| Webhooks, ledger (`WH`, `ledger.ts`) | `payments`, allocations, earnings, refunds, disputes, ledger, provider events | one handler per Stripe event | each capture and refund is in the books once |
| Weekly chart (`LS`, `packages/config`) | read-only | getCurrentWeeklyPeriod, getWeeklyTop3 | every counted play is in one week, the three best are shown |
| Host lifecycle (`HS`) | `host_applications`, `host_profiles`, payout accounts, stations, tiers, `live_sessions` | apply, connect Stripe, approve, reject, suspend, edit tiers, goLive, goOffline | nobody waits for a decision nobody makes; everybody can come back; one open session per host |
| Inactivity sweep (`live-sessions-cron.service.ts`) | `live_sessions` | a cron job every five minutes | ends abandoned sessions and nothing else |
| Events and pages (`live-sessions.gateway.ts`, `useLiveSocket.ts`) | the last known revision and what each page shows | emit, poll, fetch, reconcile | a page comes to show the queue there is |
| Moderation, admin (`admin/`) | the same rows | remove, restrict, edit, reconcile | overrides leave the rows consistent |
| Authentication, account | users, sessions, tokens, invitations, counters in Redis | register, login, verify, reset, invite, suspend, ban | a closed account stays closed; a lockout ends |
| Tracks, media worker | tracks, media versions, artwork, upload intents, jobs, objects in S3 | upload, complete, process, delete | a ready track can be played; what is deleted is gone |
| Library page | the list of tracks, one audio element each | preview, upload, delete | one preview plays at a time |

How they interact: `createSubmission` claims an idempotency record, checks
eligibility, asks Stripe for an intent and writes a submission with its queue
entry. The webhook of the intent's success brings that entry into the queue and
writes earnings and ledger. The host's operations move entries through the
player and call `recordQualifyingPlay` inside their transaction, and each sends
an event to the pages that look at the session. Moderation,
upgrades and failed payments write the same entries without the host. `HS` and
the sweep end sessions under the feet of all of these. A track that can be
submitted comes from the media pipeline: an upload intent, its completion,
a job of the worker; a ban or the deletion of the account ends sessions and
queues a job that deletes the media.

What is hard is that almost every operation reads rows, computes, and then
writes, at READ COMMITTED: some lock the session's row first, some lock another
row, some nothing. Stripe's deliveries repeat, overtake each other and crash.
`PROJECT.json` lists each hazard with its line and the properties about it.

## 2. The modules

| Module | Models | Extended by |
|---|---|---|
| `LiveQueue` | the queue of one session, with submissions, webhooks and moderation that change it | `MCLiveQueue` (with a history in `MCLiveQueueClock`), `LiveQueueProofs` |
| `SinglePlayer` | abstract: a player that holds one track and earns a play per stay | `LiveQueue` (refinement `ImplementsPlayer`) |
| `Payments` | one payment: Stripe, its deliveries, and the rows they write | `MCPayments`, `PaymentsProofs` |
| `Submissions` | one user's requests under idempotency keys | `MCSubmissions`, `SubmissionsProofs` |
| `PlayCounting` | which qualifying plays of a host's tracks count | `MCPlayCounting`, `PlayCountingProofs` |
| `SerialCounting` | abstract: plays are counted one at a time | `PlayCounting` (refinement `ImplementsSerial`) |
| `WeeklyTop3` | the weeks, and the chart read from the plays | extends `PlayCounting`; `MCPlayCounting` |
| `HostSessions` | the live sessions of one host | `MCHostSessions`, `HostSessionsProofs` |
| `HostStation` | one applicant: applications, Stripe account, approval, suspension | `MCHostStation`, `HostStationProofs` |
| `StationTiers` | the priority tiers of a station, edited in several tabs | `MCHostStation` (instance `T`), `HostStationProofs` |
| `Checkout` | payment dialogs, reservations, tier limits, repairs | `MCCheckout`, `CheckoutProofs` |
| `LiveSync` | one page that follows one session | `MCLiveSync` (instance `Page`), and with it `MCHostSessions`, `HostSessionsProofs` |
| `Media` | uploads, their completion, the versions of a track | `MCMedia` (instance `U`), and with it `MCSubmissions`, `PlayCountingProofs`; `MCPayments` (instance `V`) |
| `MediaDeletion` | the objects of a user's uploads and what deletes them | `MCAccounts`, `AccountsProofs` (instance `D`) |
| `Accounts` | one email address: account, sessions, tokens, lockout | `MCAccounts`, `AccountsProofs` |
| `LibraryPage` | the page of a user's music | `MCPlayCounting`, `PlayCountingProofs` (instance `L`) |

The `MC` modules hold what only TLC needs: symmetry sets, small sets of
records, bounds, a history variable, and in six cases two modules side by side. `MCAccounts`,
`MCHostStation`, `MCPlayCounting`, `MCSubmissions`, `MCPayments` and `MCHostSessions` hold two
modules that share no variable; the variable `part` is chosen at the start and says which of the
two moves, so that a run explores their sum and not their product. `MCMedia` and `MCLiveSync`
instantiate their module under names of their own, for these and for the proof modules that extend
them besides another one.

Operators named `Mut...` are defects put next to the code they would be
in; they are used by no specification and serve to show that each property can
fail. In `PROJECT.json`, `map` names the source lines of every definition. The
modules overlap on purpose: the same transaction appears in each module whose
subject it touches, with the columns that subject is about (a settled payment is
an entry in line in `LiveQueue`, lines of the ledger in `Payments`, and the end of
reservations in `Checkout`).

### LiveQueue

`entry` and `submission` are the two tables, indexed by the submission since the
two rows are created together and one to one. `sessionStatus`, `queueRevision`
and `currentQueueEntryId` are the session's columns; `open` and `settled` are the
payment intents. Three kinds of step show where the code is atomic and where not:

- The player operations whose writes depend on what they read (playNext,
  loadQueueEntry, clearPlayer, moveToNext) are two steps. `LockSession` takes the
  session row's lock and puts the entries into `seen`; the operation then writes
  from `seen`. In between, whatever does not need the session's row may run: tier
  changes, failed payments, restrictions. Inserting a row that refers to the
  session needs its key-share lock and waits.
- Skip, complete, remove, pause, resume and end write without regard to what they read
  and are one step. They are not guarded by the session's status, because the
  code does not look at it (`EndLiveSession` and the like excepted).
- changeEntryTier, a free submission and the webhooks are a read, which puts the writes in
  `inflight`, and a commit later, in any order.

A host operation computes its times once, so the clock does not tick while one
is under way. `loaded` is the age of `loadedIntoPlayerAt`, capped at the
qualifying time. `sortOrder` counts in units of the 1000 the service spaces
places by; rebalancing, BEFORE and AFTER, which only `addQueueEntry` reaches
(it has no caller), are left out. A payment intent settles once here; deliveries that
repeat are the subject of `Payments`. Eligibility was checked before a
submission starts, so its step has no such guard; `Submissions` is about that.

`StationSpec` is a station without upgrades, failed payments and moderation;
`Spec` adds them. Some properties are true of the first only, which is why there
are two: the difference is the entries that can be taken out of the player
without the host (sections 3 and 5).

### Payments

`charge`, `issued`, `dispute` and `events` are Stripe: what it did and what it has to say.
They are external and follow what the handlers rely on. A delivery (`worker`) checks that
its event is not completed and reads the payment (`Read`), commits its
handler's transaction (`Commit...`), and marks the event completed (`Complete`);
`Crash` may come in between. A delivery that fails after another has completed the event
marks it FAILED again (`WH:92`), so that Stripe's next delivery runs once more. Commits are
ordered by the payment row's lock, and a second refund row by its unique key (`RefundConflict`).
A refund is pending first or succeeds at once, and a `charge.refunded` event lists the refunds
of its charge or, as Stripe's newer API versions do, leaves them out (the version is pinned in
`stripe.service.ts:26`, the webhook endpoint's is not in the code). The handler skips a refund that is
not listed as succeeded (`WH:472-473`), and then the event is completed all the same: the model
does so, and section 5 says what follows. Refunds that fail or are canceled are not modelled. Money is exact:
`SplitPayment` is the code's rounding at 15 %, and `Balance` sums the ledger's lines.

### Submissions

A request goes from `claimLock` (`Claim`, with `Reclaim` as the separate update
of a failed record) over the eligibility check, the payment intent and the
transaction to `releaseLock`; `Throw` is a failure at any of these, `Die` the end of
the process. `overlap` is a history variable: it tells whether a request was ever
sent while another was still under way, so that a property can
speak of clients that wait for their answers. A limit of 0 is no limit, as in the code
(`submission-eligibility.service.ts:82`, `:88`). An upgrade's payment is
made in `Checkout`.

### PlayCounting

A transaction of a session reads the clock (`Qualify`), waits for the advisory
lock on host and track (`LockTrack`), looks for a committed counted play
in the window (`Decide`) and commits or aborts. `SelectCountedPlays` is the
pure reference function of the same file. `SerialCounting` is what the lock is there
for: a play is decided and recorded in one step, by the counts there are at that
moment. `PlayCounting` implements it with the clock, the stored counts and the plays as
they are, and everything before a commit as a stutter.

### HostSessions

`session` is the table of one host's live sessions. goLive is `CheckApproved`,
`LockHost` and `GoLive`; goOffline and suspension are a read and a write; `Abort` is a
transaction that fails, for the check constraint on times or anything else. The
sweep of each instance reads, and then updates one session after the other. The
operations of a session are one step under its row's lock. createLiveSession looks
at the profile's owner and not at its approval, and goLive checks the
approval before it waits for the lock; the model does the same.

### WeeklyTop3

`getCurrentWeeklyPeriod` is the code's arithmetic: the local day, the Saturday before
it, and midnight found from a candidate at standard time. `Local` is the time
zone. `getWeeklyTop3` gives the places of the chart from the stored plays. `Earned` counts every
play of an entry that counted when it was played; the code stores one play per entry, so
`Overwritten` names the entries that were played again, the exception of `ChartIsEarned`. `RankingsStay`
says that a week that is over keeps its chart, which the code does not (section 5). `WeeksPartition` says that
every tick is in one week, and that each week starts where the last one ended. It is proved for
all times and any clocks that `ClockAssumption` allows: New York is behind UTC by less than a
day, and its clocks do not change at midnight. TLC evaluates that assumption and the
partition with the code's own numbers, for every hour of 2022 with its two changes of the
clock. The run itself has a day of two ticks and weeks of three and five.

### Checkout

One LIVE session with one tier, and users who each have a queued free track. `modal` is the dialog
of a tab (`SubmissionModal` or `UpgradeModal`; `UserOf` says whose tab it is), `checkout` a
PaymentIntent with its payment row, reservation and, for a new submission, entry. A checkout is a
check and a commit (`Check`, `Commit`), since eligibility is read outside the transaction. `Settle`
and `Fail` are the webhooks, `Expire` the end of the 15 minutes, `repairReservation` and
`repairPayment` what an administrator does from a report that may be old. Answers may reach a dialog
that was closed or opened again. Two history variables tell whether a limit was checked beside
another checkout or an upgrade paid after its reservation had ended (`stale`), and whether an upgrade
passed its check while another of the same submission could still be paid, or was paid and waited
for its webhook (`double`): these are the exceptions the properties name, because the code has them.
A checkout that failed, and one whose payment was canceled at Stripe, is no such other.

### LiveSync

The server's queue is a version number. `Open` and `Commit` are a transaction of anybody's,
with or without a new revision and with the event before the commit, after it or not at all,
as the code does for each kind of change. A page has up to two fetches under way, each of two requests
that are answered in any order; `handleAuthoritativeEvent` is the hook's comparison
with `lastKnownRevision`, `Poll` its interval, which runs with a socket and without.
The studio's buttons send the revision they show (`Press`, `Serve`); an operation that is accepted and
has nothing to do (clearing an empty player, moving the first entry to the front) is served and
changes nothing. The rooms,
the Redis adapter and the payloads of events are reduced to the revision.

### HostStation and StationTiers

In `HostStation` each request reads outside the transaction that writes. Applying,
connecting Stripe, the return from Stripe, `account.updated`, the administrator's decisions and his
switch for manual approval meet; `maybeAutoApprove` is three steps, because its reads
are. `Told` is what the onboarding page says. `StationTiers` counts active tiers and writes
later; a failed write drops the form.

### Media and MediaDeletion

`Media` is about a track and its versions. `completeUpload` has no transaction, so each of its reads and
writes is a step; a job is run again when it fails or stalls, up to its
attempts, and its commit and its `catch` are steps too. The database may fail in the `catch`
(`CatchFails`), which is one more failed attempt; BullMQ gives a job up at its second stall or
its last failed attempt, and then nobody touches its version again. Completing an artwork whose object
is gone fails the intent only, and one that is too large fails the track, as the code has it. `MediaDeletion` is about objects: a row
says which keys it names and whether they are DELETED; deletions by admins, by a ban and
by the account's owner read rows, delete keys in chunks and mark rows, while uploads and the
artwork job go on. An object that `Media` needs may go away at any time.

### Accounts

A request reads the account, verifies or hashes a password, and writes in a transaction that looks at
nothing again. The lockout is Redis's keys with their times to live. The keys are those of the name as it
was typed, so a login by the user's other name (`loginByAnotherName`) goes by counters of its
own and leaves these alone; an invitation is accepted under a key of the IP address. One email address is
enough because nothing relates two; the counters of an IP address work the same way.
Changes of roles and permissions are left out.

### LibraryPage

`active` is `activePlayingTrackId` as it was set and as it was rendered; `PauseEffect` is the effect that
pauses an item when it is no longer the active one. React may merge two settings into one
render, and then two previews play: the history variable `merged` tells.

## 3. What is checked

| Run | Specification and bounds | Shows |
|---|---|---|
| `LiveQueue` | `Spec`; 2 submissions, 1 paid tier, 4 revisions, orders 0..1, 2 unlocked transactions beside the host's | `PlayingIsCurrent`, `StatusesAgree`, `UnpaidNeverQueued`, `FinishedReturnsOnlyPaid`, `QuietChangesOnlyRemove` |
| `LiveQueueStation` | `StationSpec`; the same with orders 0..2 | `ClockOnlyInPlayer`, the refinement `ImplementsPlayer` |
| `LiveQueueClock` | `Spec` with what was heard; 3 revisions, 2 ticks to qualify | a violation of `CountedWasHeard`: section 5 |
| `Payments` | 2 deliveries at once, 1 refund of 2 amounts, 1 dispute, 1 crash, 4 events; the first upload of a track, 2 completions, jobs of 2 attempts, 2 faults | `BooksAgree`, `AnsweredIsPosted`, `RoundingBounded`, `MovementsArePosted`; `VersionSettles` |
| `PaymentsRefunds` | 1 delivery at a time, 1 refund, no crash | a violation of `RefundsAreReversed`: section 5 |
| `Submissions` | 4 requests, 2 keys, limits 2 and 1; 1 track, 2 uploads, 2 completions, jobs of 2 attempts, 2 faults | `FirstClaimExclusive`, `AnswersAreReal`, `OncePerKey`, `FreeLimits`; `ReadyTrackHasCurrent` |
| `PlayCounting` | 2 sessions, 2 tracks, 4 entries, window 2, clock to 5, 3 plays, a chart of one place; the library page with 2 tracks and 1 fetch | `CountsSpaced`, `AgreesWithReference`, `ChartIsEarned`, the refinement `ImplementsSerial`; `OnePreview` |
| `PlayCountingReplay` | the same | a violation of `RankingsStay`: section 5 |
| `HostSessions` | 2 requests, 1 instance, 2 sessions, clock to 2, idle after 1, 1 failed sweep; 4 pages, 2 fetches, 2 clicks, 2 changes, 1 fault | `OneOpenSession`, `TimesAgree`, `EndedIsFinal`, `SuspensionEndsSessions`, `SweepSparesActive`, `AbandonedIsEnded`; `OneOpPerRevision`, `PageCatchesUp` |
| `HostStation` | 2 requests, 2 applications, 2 Stripe accounts, 2 changes at Stripe; 2 tabs, 3 tiers, limit 2 | `NobodyLeftWaiting`, `CanComeBack`; `TierLimit` |
| `Checkout` | 2 payments, a tab each; 2 users while a tier that is sold once stays as it is, else 1 user, sold once or three times, 1 edit or repair | `TierCapacity`, `ChargedOnce` |
| `Accounts` | 2 sessions, 1 token, 2 requests, lockout after 2 failures, 1 fault; 1 recording, 1 artwork, 1 deletion job of 2 attempts, 1 failure | `LockoutEnds`, `PendingIsUnverified`, `ClosedStaysClosed`; `DeletedAudioIsGone`, `UserMediaGone` |

Type invariants are stated in every module. Where a module has proofs they are proved
(section 4); elsewhere they document the types.

Why these bounds are enough for what they show. Two submissions give every pair of roles
(playing and waiting, waiting and paying). Four revisions let both be submitted
and both be loaded, so that one displaces the other; tier changes,
moderation, requested upgrades and failed payments use none and go on in between. Two unlocked
transactions beside the host's operation give each race of a stale read with a later write; in
`LiveQueue` two at a time start in the first revisions only (`OverlapEarly`), in which an entry can
be submitted, paid, moderated and played, and one later; the theorems of section 4 have no bounds at all. Orders
0..2 are a group of two with room at its top. Two deliveries and one crash are the least that show
a retry racing the first attempt; a refund of 33 cents of 200 is rounded, one of 200
is of everything; of the five events a payment with a refund and a dispute can have, four are
sent (`FewEvents`); that several partial refunds agree with the books is proved. A refund that is skipped
needs one delivery and no crash, so `PaymentsRefunds` has no more. A play counts after two ticks in
`LiveQueueClock`, so that an entry can be taken out one tick after it was loaded, and completed later.
Four requests over two keys include a failed one, its retry and a race of two
more. A window of two ticks with a clock of five has room for two counted plays
and plays before, on and after the boundary; three plays are two that count and
one between them, or an entry that is played again. Two sessions of a host are one that
is ended and the one that replaces it, and two ticks are enough for a sweep to
find a session idle and for someone to play in it before the update. Two requests are the
two of every race `HostStation`, `Media` and `Accounts` are about, and a second
application, Stripe account or upload is the one that supersedes the first. Two faults are a job
that stalls and then fails; with two uploads the second fault comes only after a job was run
again, of two audio files of a track that stays (`FewFailures`), which is where a second version
could be lost. `VersionSettles` is checked with the first upload of a track, as a version's end
depends on its own job. Two
payments reach a limit of one and stay below one of three. Two users with a tier that
is sold three times would only add users who do not meet, and an edit or a repair
concerns payments and not who makes them: `OneBuyer` leaves these to one user's two payments. A user has
one tab in the run; that his tabs may be two is in the theorems (`UpgradeChargedOnce`). Two changes are one that a page has seen and
one that it misses. The studio has no socket in the run: its poll may come at any time and does
what an event would. All counters are capped in the guards of the actions that raise them; the bound is
a constant of its own in each module. Deadlock is not checked, as every one of
these systems may stop: the clients send nothing more, or a bound is reached
(the polling of a page never stops, but it shares its run with one that may).

### Fairness

`LiveQueue`, `Submissions`, `PlayCounting`, `Checkout`, `HostStation`, `StationTiers`, `Accounts` and `LibraryPage`
have no fairness: users, hosts and
administrators owe no step, and all their properties are safety.

`Payments`: Stripe sends an event again until it is answered, for up to three
days, so *some* undelivered event is delivered (`WF(Deliver)`), and a delivery that
did not crash runs to its end (`WF(Handle(d))`). The number of crashes is bounded:
a service that crashes at every delivery for three days is beyond the
property. `MovementsArePosted` has a dispute as the exception of the capture, because the
code then has one too: a dispute that is processed before the success moves the
payment to a status in which the success records nothing. Of refunds it asks for those an event lists
as succeeded, as the handler skips the others.

`HostSessions`: the scheduler starts the sweep of an instance every five
minutes, and a sweep goes on unless it fails (`WF(OfSweep(i))`); failures are
bounded. Nothing else is fair: no host owes a step.

`LiveSync` (in the run `HostSessions`, for the pages of the audience): transactions end, timers fire, requests are answered and what was sent to a
connected socket arrives. Nothing makes a socket connect again: `PageCatchesUp`
rests on the polling, as the hook's comment intends.

`Media` and `MediaDeletion`: BullMQ runs the jobs it has (`WF(Process(r))`, `WF(Delete(p))`), again
after a stall or a failure while there are attempts left; `VersionSettles` (in the run `Payments`)
names a job that was given up as its exception. No client completes an
upload unless it does.

## 4. What is proved

The modules `...Proofs` prove for every value of the constants, that is for any
number of submissions, tiers, requests, deliveries, entries and sessions. Their
only assumptions are the named `ASSUME`s about the constants (NULL is none of
the ids, bounds are natural numbers, windows and amounts are positive, clocks do not change at
midnight, a host's tables are finite). Some
proof modules extend a second module that shares no name with the first: `T`, `L`, `U`, `Page` and
`D` are the instances of `StationTiers`, `LibraryPage`, `Media`, `LiveSync` and `MediaDeletion`, whose
assumptions TLC evaluates where the instance is.

- `LiveQueueProofs`: `Typed`, `OnePlaying` (`PlayingIsCurrent`),
  `StatusColumnsAgree` (`StatusesAgree`), `NoUnpaidInLine` (`UnpaidNeverQueued`).
  None of the properties is inductive alone. The invariant adds what
  transactions under way may rely on: `RowsTogether` (an entry exists exactly if its
  submission does), `CreatedOnce` (a free submission that is being
  created is not there yet, and has no rival), `PendingAlone` (while a first payment is
  pending it is the submission's only intent, and no upgrade of that submission
  is being processed), and `SeenIsRecent` (what the host's operation has read
  still holds, but for entries removed since). `SeenIsRecent` is what makes
  the write after a stale read safe. Two action properties follow:
  `QuietSteps` (`QuietChangesOnlyRemove`), and `ReturnsOnlyPaid`
  (`FinishedReturnsOnlyPaid`), which needs `SettledOnce` besides: an intent is open
  or settled, and a success that is being processed is the only one of an open intent. For `StationSpec`,
  where nothing takes an entry out of the player behind the host's back,
  `StationClocks` (`ClockOnlyInPlayer`) is one more conjunct of the invariant
  (`StationInv`), and `StationImplementsPlayer` is the refinement of `SinglePlayer`
  (`ImplementsPlayer`), action by action: each is a step of the abstract player or leaves
  it alone, and a play is counted only if the clock says that the entry stayed.
- `PaymentsProofs`: `SplitIsFair` about the split of any amount, and `BooksAlwaysAgree`
  (`BooksAgree`). The invariant adds
  `Shape` (the types as far as needed) and `Genuine` (an event that is
  being delivered or was delivered tells of something Stripe did). `AnsweredStaysPosted`
  (`AnsweredIsPosted`) is what `MovementsArePosted` needs besides fairness: that an event is never answered
  before its work is done. `Answered` adds that a delivery past its commit has done it, that
  the refunds a delivery listed as succeeded are in the ledger, and that a payment which is or was seen settled has been
  captured or disputed. `RoundingStaysBounded`
  (`RoundingBounded`) follows from the books: what is posted is finite, each posting is off by half a
  cent at most (`SplitIsFair`), and so is a sum of n of them by n halves. That the sums exist
  (`SumsDefined`) and are bounded (`DriftBounded`) are arguments by a least counterexample.
- `SubmissionsProofs`: `Typed`, `OnlyRealAnswers` (`AnswersAreReal`) and
  `OneClaimUntilFailure` (`FirstClaimExclusive`). The invariant adds
  `Recorded` (a completed record names a committed request), `Traces` (a record
  that is not there has no requests, a failed one had a failed request) and
  `OneClaimant` (until a failure, the requests past the claim are one).
  `OneSubmissionPerKey` (`OncePerKey`) and `WithinFreeLimits` (`FreeLimits`) are about clients
  that wait for their answers. `Sequential` says what waiting gives: until two
  requests overlap, one at most is under way (`OneBusy`), and under the key of a submission
  whose request was not told of a failure no other makes one (`KeptAlone`).
  `Room` is the part about the limits: a request found eligible
  still finds the room it was promised.
- `PlayCountingProofs`: `Typed`, `OncePerWindow` (`CountsSpaced`), `CountingIsSerial`
  (`ImplementsSerial`), `CountsAgree` (`AgreesWithReference`), `WeeksTile` (`WeeksPartition` of all
  integers) and `ChartAlwaysEarned` (`ChartIsEarned`). The invariant
  adds `DecidedHolds` (a transaction that decided holds its track's lock),
  `VerdictsStand` (what it decided is still so when it commits), `Ordered` (times that
  were read or recorded are past, and those of a session in order) and `StoredIsLast` (an entry
  has the count of its last play, which `LastPlay` finds; unless the entry was overwritten that is
  the only one that counted). With these the refinement is a matter of one
  step, the commit. For the reference function, `CountedUnblocked` says that a play counted if and
  only if no counted play of the track less than a window before it did, as long as
  the track's plays are in order; that it is what the recursive functions compute
  (`Decisions`, `TrackPlaysIs`) is shown by induction on the length. For
  the weeks, `MidnightIs` says which tick a local midnight is, and `WeekStarts` that a week's is the first of it.
  For the chart, `Places` says that places given by a strict order on a finite set are
  1 to n (counting those before is one to one, so all the numbers are taken), and
  `PlaysInSpan` that counted plays which are a window apart fall into windows of their own, of
  which a week has so many.
  `OneHeard` (`OnePreview`) is about `LibraryPage`: `Items` says that an item without a url is paused
  with no play() of it under way, and that only such an item awaits its url; `Heard` that, until two changes of
  the active track are rendered as one, only the track rendered as active or the one about to be is loud.
  `ReadyIsPlayable` (`ReadyTrackHasCurrent`) is about `Media`: `Rows` says that what a row, a request or a
  job refers to exists, that a request makes its version once and when, and that the other version a job found
  is of the same track; so a job that demotes that version takes its place or fails that
  track, and no other track loses anything. The current version it leaves is READY, or FAILED by
  a stalled job that was run again, which is what the property excepts. `HandledIsDecided` is the safety half of
  `VersionSettles`: a job that was handled has its version READY or FAILED. By `Settled`, a job is
  made in the last step of its request, which can write nothing about its version any more.
- `HostSessionsProofs`: `Typed`, `OneOpen` (`OneOpenSession`), `TimesAlwaysAgree`
  (`TimesAgree`), and three action properties, `EndedStays`, `SuspensionCloses`
  and `SweepSpares`. The invariant adds `Locked` (the goLive past the lock
  is about to end every open session there is) and `Past` (no
  time that was read or written lies ahead of the clock). `OneAccepted` (`OneOpPerRevision`)
  is about `LiveSync` (of the requests sent from one revision, one at most changes the queue):
  `Served` says that a request being served whose operation makes a revision
  still expects the one there is, and `Unused` that no operation was made of that revision
  or of a later one.
- `HostStationProofs`: `StationTyped`, `ActivationDecided` (`NobodyLeftWaiting`), `WayBack`
  (`CanComeBack`) and `AtMostLimit` (`TierLimit`). `NobodyLeftWaiting` speaks of states
  with no request under way, so the invariant `Waiting` speaks of the others: as long as the
  application that counts is due (the settings allow it, the accounts are complete,
  nothing died), some request is `OnTheWay` to it. Each of the three writes that can make it
  due starts or continues such a request, and none of those gives up while it is due:
  `LatestPending` is the reason why the search finds it. For the tiers, `Allowed` says that an
  edit that passed its check and makes a tier active saw a free place or that
  tier already active, which is all a write that was not raced needs.
- `CheckoutProofs`: `CheckoutTyped`, `UpgradeChargedOnce` (`ChargedOnce`) and
  `TierSoldWithinLimit` (`TierCapacity`). The proof first reduces every action to its `Effect` on
  the checkouts (one begins, is checked, refused, committed, sold, or goes on, or none
  changes but for reservations that end) and then reasons about effects. `OneUpgrade` says that
  a submission whose upgrade is settled is priority, so that no check lets another pass, and that one
  live upgrade of it (one that can still be paid, or is paid and waits for its webhook) is all there
  is unless one was checked while another was live; `HeldStays`, that a dialog that lets go of a
  payment does not come back to it, is why one that is over stays so. `Room` says that the places taken
  (`Takes`) stay within the limit, and that a checkout whose check saw every
  commit there is finds one more place.
- `AccountsProofs`: `AccountsTyped`, `NeverPendingAgain` (`PendingIsUnverified`),
  `ClosedUntilReopened` (`ClosedStaysClosed`) and `LocksRunOut` (`LockoutEnds`).
  `Grounded` says that a request about to commit and a token that can be used belong to an account.
  `Counting` relates the counter of failures, its time to live, the lock and the requests that are between
  two commands to Redis: a counter without a time to live has a request that is about to give it one,
  a full one has its lock or a request that is about to set it, and does not
  outlive that lock; and once a lock has begun to run down, nobody records a failure any more.
  `AudioIsGone` (`DeletedAudioIsGone`) is about `MediaDeletion`: by `Swept`, the keys that rows, jobs and
  admins name belong to uploads that were sent, which happens once, so that what is deleted
  does not come back; only artworks are rendered; and a job that is past its deletion and about
  to write it down has left none of its originals in storage.

Where an induction would be needed, a least element may do: `LatestIs` (of a set of
applications there is a latest), `LeastNumber` and `Upward` (what holds of 0 and of
the next number holds of all) come from the library's `WFMin`. With them the recursive functions
of `Balance` and of `selectCountedPlays` are shown to exist and to be what they should.

Every invariant and every action property that a run checks has its theorem, except those of
`LiveQueueClock`, `PaymentsRefunds` and `PlayCountingReplay`, which are false. Only model-checked are the liveness properties, as fairness
and ENABLED are out of the proof system's reach: `MovementsArePosted`, `AbandonedIsEnded`,
`PageCatchesUp`, `VersionSettles` and `UserMediaGone`. What is proved next to them is their safety
half: `AnsweredStaysPosted`, `SweepSpares`, `OneAccepted`, `HandledIsDecided`, `AudioIsGone`.

## 5. Where the code and its words differ

Three runs end in a counterexample to something a comment or a document says.

- `LiveQueueClock`: moderation and an upgrade's webhook take a playing entry out
  of PLAYING and leave `loadedIntoPlayerAt`; completing the entry later counts
  the time since as a play (`LS:1381`), though `play-counting.ts:12` asks for
  120 seconds of continuous playback. In the run the entry leaves the player
  before it was there that long (`CountedWasHeard`).
- `PaymentsRefunds`: a refund that is pending, or left out of the list, when its `charge.refunded` is
  handled is skipped (`WH:472`), the event is completed, and no event the code handles tells of that
  refund again; `docs/financial-ledger.md:44` promises a reversal for refunds (`RefundsAreReversed`).
- `PlayCountingReplay`: an entry that is played again overwrites the decision about its earlier play
  (`play-counting.ts:108`), and the chart of the week that is over loses the play;
  `docs/decisions/0028:24` says that rankings never change retroactively (`RankingsStay`).

Differences met while modelling that no run is about. The queue:

- A tier change of a playing entry is undone, as far as its
  rank goes, when it is put back at the rank saved when it was loaded (`LS:736`);
  `docs/queue-model.md:47` calls `priorityRank` a copy of the tier's rank.
- `docs/queue-model.md:72` lets Play Next finish the entry that plays; the code puts an
  entry that has not qualified back at its place (`LS:731`), from where it may be
  chosen again at once.
- `docs/queue-model.md:114` says that each change increments the revision;
  changeEntryTier, moderation and failed payments do not. `QuietChangesOnlyRemove`
  states what those changes are limited to.
- `docs/queue-model.md:74` orders ties; two submissions at the same time may get the
  same `sortOrder`, and the query's order among them is the database's.

Submissions and payments:

- Two concurrent submissions pass the same eligibility check (`SU:121`), so a user may exceed the limit
  `schema.prisma:1050` calls the maximum of his active items. A limit of 0 is no limit
  (`submission-eligibility.service.ts:82`, `:88`).
- A process that dies holding a key leaves it PROCESSING
  for good, since nothing reads `expiresAt`; every retry is answered with
  a conflict (`idempotency.service.ts:67`) although no request is running, which `:19` gives as its reason.
- `idempotency.service.ts:24` speaks of a replay with the same fingerprint; a
  failed key may be claimed again with another body (`:75`), and two retries at once both claim it
  (`:73`), while `:17` has a conflict for concurrent requests. The dialogs make a fresh key at every click.
- A payment_failed that was read before the success of the same intent is committed writes FAILED
  and REJECTED over it (`WH:435`), and a track that is paid leaves the queue.
- Two deliveries of one success both create an allocation,
  which no unique key prevents (`WH:139`); `payments.controller.ts:53` calls
  processing idempotent per event.
- `docs/financial-ledger.md:44` asks for a reversal when a dispute is lost; the
  handler changes the earnings and posts nothing (`WH:546`).
- A success that is processed after a dispute records no capture and no earning
  (`WH:124`); `README.md:30` promises an earning for a confirmed payment.
- Each partial refund is split with its own rounding; `RoundingBounded`
  states how far that may drift.
- The host may change a tier's price in the middle of a broadcast, so the price the dialog shows need not be the
  price that is charged; `README.md:28` and `docs/decisions/0027:30` speak of snapshots.
- A place is reserved "for 15 minutes during checkout", but a checkout that was abandoned counts
  against the limit for good, as its submission row stays; a pending upgrade with its reservation is counted
  twice. The dialog shows success also for a payment that is still processing.
- A webhook consumes or releases all of the user's reservations for the track (`WH:371`).
- The repair of a stuck payment (`admin-reconciliation.service.ts:216`), which reports to have marked an
  abandoned pending payment (`:231`), does not look at the payment
  again and does not cancel it at Stripe: one that was charged meanwhile is CANCELLED all the same, and
  one that was not can still be paid.

Hosts and sessions:

- A goLive that passed the approval check, and any createLiveSession, opens a
  session for a host that was suspended meanwhile (`HS:817`, `LS:30`).
- The reinstatement an administrator can call clears `suspendedAt` and leaves
  `isApproved` false (`apps/api/src/admin/admin-hosts.service.ts:203`), so the host
  it calls reinstated still cannot go live; only approving an application again helps.
- apply looks for an application outside of its transaction, so two tabs make two; a suspended host with
  another submitted application can be approved by itself; two Stripe links opened at
  once create two primary accounts; `account.updated` events out of order leave
  an old state. The loop of updateSettings stops at the first applicant whose
  approval throws (`platform-settings.service.ts`), and those after him wait. `NobodyLeftWaiting` names
  the request that dies by `failed`, and asks that the latest of several applications was decided.
- Tabs that add or activate tiers at once pass the same count (`HS:1013`), though
  `docs/decisions/0026:24` limits every station to ten and wants the count in a transaction.
- The onboarding page does not let a rejected applicant apply again, and tells one who has
  finished Stripe that his activation is being processed.

Pages, accounts and media:

- An event is sent before its transaction commits (`LS:818`), and a rolled-back one leaves the page with a
  revision that never was; polling heals both. In the studio the spinner of the first load
  takes the place of the queue manager on every reconciliation, which resets its forms, and two clicks
  share one `actionId`.
- verifyEmail writes the status it read and so reopens an account that was suspended
  in between; unsuspendUser makes any account ACTIVE. A login under way makes a
  session after a ban has revoked them all, and a crash between a password reset's commit and
  revokeAllSessions leaves the old ones. `docs/security-baseline.md:16` has sessions
  rotated, which nothing calls.
- The audio job marks a passing failure as final, takes a conflict of its unique index for
  an invalid file, and a replacement that fails makes the whole track FAILED, although its
  own comment (`audio-metadata.processor.ts:116`) keeps the older version. Two versions that fail by exceptions
  leave the track PROCESSING. A job that stalled after its commit and fails when it is run again marks
  the current version FAILED and leaves the track READY, which `tracks.service.ts:369` then refuses to play. An artwork row is marked DELETED when one of its
  keys is.
- `TrackItem.tsx:42` has one preview at a time; two settings that React merges into one render
  leave two playing, and a download that fails stops the preview of another track. Overlapping
  loads of the list may show a deleted track again.

## 6. What is not modelled

Left out, with the reason:

- `QO`'s BEFORE, AFTER and rebalancing: only `addQueueEntry` uses them, and nothing calls it.
- Refunds that fail or are canceled, which no handler knows.
- The global capacity of the free line and bans in the eligibility check; the moderation
  decisions other than `ADMIN_REMOVE` and `RESTRICT`, which do not touch the queue.
- The lock orders of complete and play next in two sessions of a host: Postgres aborts
  one of two that wait for each other, and an abort is one of the outcomes there are.
- The meeting of a stale repair with a webhook that is retried after a crash: `Checkout` has the
  repair and no crash of a delivery, `Payments` the crash and no repair.
- The allocation repair, which finds nothing the webhook did not write.
- The order of tiers (reorderTiers), the visibility of a track as data, `UploadIntent`'s COMPLETED, which nothing writes.
- Rendering, the HTTP client, the admin pages other than the hosts'; storage and mail, which are
  input and output; listings and reports; single-row
  edits by their owner or an administrator (profiles, settings, legal
  acceptances); roles and permissions; rate limits, caches, and the Redis adapter.
