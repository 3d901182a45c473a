# Formal model of the PropFirm backend

The repository is the backend of a proprietary trading firm: NestJS and
TypeScript over PostgreSQL (TypeORM), with a broker behind HTTP APIs.  Traders
buy *challenges*; every active challenge has a trading account at the broker.
Three parts of it are modelled here:

* the **account buffer**: the state of the accounts, kept in memory, which cron
  jobs fill from the database, refresh from the broker and write back;
* the **back office**: the handlers that make and close challenges (orders,
  approvals, withdrawals, verifications), chains of calls to the database, the
  broker, the object store and the mailer that can stop after any of them;
* the **services** around them: users and passwords, named rows, the templates of
  challenges, the active style, the broker's token, the mapping of positions, the
  risk rules and the seeds.

The modules are checked with TLC; most of the safety properties are also proved
with TLAPS, for every value of the constants.

Paths below are relative to the repository; the TypeScript sources are under
`src/`.

## 1. Inventory

| component | code | state | operations | talks to |
|---|---|---|---|---|
| keyed mutex pool | `lib/buffer/buffer-mutex.service.ts` | `mutexPool` (1000 before it is cleaned up, in Map order), the queue of every Mutex | `getMutex`, `withLock`, clean-up of half of the idle mutexes when full, `forceCleanup` | every writer of the buffer |
| account buffer | `lib/buffer/buffer.ts`, `buffer.service.ts`, `buffer-api.service.ts`, `common/utils/account.ts` | Map login → live `Account` object | `withLock`, `getSnapshot`, `upsertAccount`, `deleteAccount`, `processAllParallel`, `ingestAccount` | mutex pool |
| buffer loader | `tasks/jobs/buffer/buffer-loader.job.ts`, `common/utils/mappers/account-mapper.ts` | a load in progress | at start-up and every hour: read the active challenges, map, upsert | database, templates, buffer |
| extractor | `tasks/jobs/buffer-data-updater.job.ts`, `tasks/jobs/brokeret-api/*` | runs in progress, snapshots | twice a minute: refresh every buffered account from the broker | broker API, buffer |
| daily balance job | `tasks/jobs/challenges/update-dailyBalance.job.ts` | an account under lock | once a day: balance → `dynamicBalance` of the row and `dailyBalance` of the account | database, buffer |
| flush job | `tasks/jobs/buffer/flush-buffer.job.ts` | copies, batches, slots | every minute: write dirty accounts to `ChallengeDetails` | database, buffer |
| SMT ingestion | `modules/data/smt-api/*` | a push in progress | merge a pushed account into the buffer | buffer |
| challenges | `modules/challenges/*` | `Challenge`, `ChallengeDetails` rows | create, update, approve, disapprove, (up)sert details | database, buffer, broker accounts, mailer |
| orders | `modules/orders/*` | `CustomerOrder` rows | webhook: user, account and deposit at the broker, challenge, order, mails | database, broker, buffer, mailer |
| withdrawals | `modules/withdrawals/*` | `Withdrawal` rows | request, approve (pays out with a new challenge), reject, update, remove | database, challenges, mailer |
| verification | `modules/verification/*` | `Verification` and `Media` rows, files | submit with files, approve, reject, remove | database, object store, mailer; asked for by approvals |
| risk rules | `common/functions/*`, `common/utils/risk.ts`, `tasks/jobs/rules/*` | the verdict and the parameters in the buffered account | drawdowns, profit target, trading days, inactivity | the buffer; the job is not registered |
| positions | `modules/data/brokeret-api/client/brokeret-api.client.ts`, `brokeret-data.mapper.ts`, `more-stats.ts` | positions and statistics of the account | deals → closed positions; rules of the mapper; highest balance | broker, extractor |
| broker clients | `creation-fazo.client.ts`, `smt-api.client.ts` | the cached token | log in, request, repeat a request once | external |
| auth, password reset | `modules/auth/*`, `modules/password-reset/*` | user row, reset rows | register, confirm, reset, change, Google sign-in | database, mailer |
| templates | `modules/challenge-templates/*` | categories, plans, relations, stages, parameters, balances | CRUD, submissions of whole configurations, the relation chain | database; read by orders, loader |
| styles | `modules/styles/*` | the rows, one active | activate, CRUD | database; read by the mailer |
| users, roles, permissions, broker accounts, affiliates | `modules/users`, `rbac`, `broker-accounts`, `affiliates` | rows with a unique name, or one that should be | CRUD | database |
| seeds | `seeds/*` | all tables | scripts, the master script, the roles ensured at boot | database |
| certificates, business requirements | `modules/*` | rows | insert, delete | database |
| storage, mailer, n8n, plumbing, migrations | `modules/storage`, `modules/mailer`, `modules/n8n`, `config`, `database` | none of their own | I/O, wiring | external |

`tasks/tasks.module.ts` lines 37-46 register the loader, the flush, the updater
(with the extractor) and the daily job; the rule evaluation and SMT activation
jobs are commented out there and do not run in this commit.

### What is hard here

Node runs one continuation at a time, so the actors interleave at `await`.  None
of the crons waits for its previous run and no handler for another.  The hard
behaviours are:

* **Live objects.**  The Map hands out `Account` objects, not copies.  A job that
  kept one across an `await` still sees changes made in place (the loader, the
  daily job) and loses touch with one that was replaced (extractor, SMT push).
* **Locks around single writes.**  Of all `withLock` callbacks only the daily
  job's awaits; everywhere else the lock covers one assignment, and what is
  written was computed from a snapshot taken in an earlier turn.
* **Read-then-save.**  TypeORM's `save` writes every column that differs from the
  row as it is *then*; a handler that read a row before others changed it puts
  old columns back.
* **Check-then-act.**  Names, roles, counts and statuses are read in one query and
  acted on in another; only a unique index has the last word, where there is one.
* **Partial failure.**  Handlers talk to several services and undo nothing but
  their transaction, if they have one; one failed relation aborts a whole load,
  one bad row fails a batch of the flush, an API answer may be incomplete, or
  lost after the broker did what it was asked.
* **Retries.**  Orders, broker accounts, tokens, seeds and the shop's webhook are
  tried again, after steps that may have had their effect.
* **Loss.**  What is only buffered is gone when the process restarts; a handler
  that dies leaves what it has written.

`PROJECT.json` lists these hazards at their lines, with the properties that
would catch them going wrong, or the reason why no property does.

### What makes each component correct

* pool: callers never notice eviction; one FIFO lock per login; bounded; nobody
  waits for ever;
* buffer and daily job: what the job read under the lock is still so when it
  writes;
* extractor, loader and flush together: a write-behind cache whose data never go
  backwards, although answers are partial and the process may die;
* flush: batches partition the copies, slots are bounded and given back;
* all jobs: a run that starts ends; what is active gets loaded; what happens at
  the broker reaches the disk;
* orders: what is saved is complete; a delivery is kept, with an account of its
  own, or refused, and neither is taken back;
* challenges: the approval and the next phase come together; the last phase is
  for verified users;
* withdrawals: what is approved was paid; verifications: what is recorded is
  stored;
* token: one account per call, no refusal without a reason; styles, passwords,
  templates, names: what an answered call did is so, unless a call that
  overlapped it undid it;
* risk rules: an account passes only if it meets the rules; positions: the account
  mirrors the broker; seeds: repeatable, whole at the end.

## 2. Modules

```
KeyedLock <--(implemented by)-- BufferMutex <-- MCBufferMutex, BufferMutexProofs

AccountBuffer <- AccountSources <-+- BufferLoader  --+
                                  +- DataExtractor --|
                                  +- DailyBalance  --+-> BufferPipeline <- MCBufferPipeline
                                  +- SmtIngest     --|         |           BufferPipelineProofs
                                  +- FlushBuffer   --|         +--(implements)--> WriteBehind
                                  +- ChallengeEdits--+

BackofficeTables <-+- Orders               --+
                   +- ChallengeLifecycle   --|
                   +- Payouts              --+-> Backoffice <- MCBackoffice, BackofficeProofs
                   +- IdentityVerification --+       |
                                                     +--(implements)--> Fulfilment

Requests <-+- Styles    --+
           +- Accounts  --|
           +- Directory --|
           +- Templates --+-> Services <- MCServices, RequestsProofs
FazoToken, Positions,     |
RiskRules, Seeds ---------+    FazoToken <- FazoTokenProofs
                               Positions <- PositionsProofs
                               RiskRules <- RiskRulesProofs
                               Seeds <- SeedsProofs
```

| module | models |
|---|---|
| `BufferMutex` | `BufferMutexService`: `pool` is `mutexPool`, `older` its insertion order, `line[m]` the holder and the queue of a Mutex object.  A Mutex has an identity, so that evicting one in use and creating a second for the same login can be expressed.  `getMutex` and the queueing half of `runExclusive` are one step, as they are in JavaScript. |
| `KeyedLock` | the abstraction: a FIFO queue per login, no pool, no objects |
| `AccountBuffer` | the Map and its operations.  `held[h][l]` is the reference a job keeps: `Live` while the Map holds the same object, otherwise the last content the object had (`Replace`, `Seen`, `ChangeInPlace`).  `locked[l]` is set while a callback is suspended at an await. |
| `AccountSources` | the broker (`market`) and the `Challenge`/`ChallengeDetails` rows (`db`) |
| `BufferLoader`, `DataExtractor`, `DailyBalance`, `SmtIngest`, `FlushBuffer` | one job each, cut at its awaits: one action per continuation, with failures of every call |
| `ChallengeEdits` | read-then-save handlers of `ChallengesService` |
| `BufferPipeline` | all of them interleaved, with crashes; `Jobs` says which are registered in an instance; the properties |
| `WriteBehind` | the abstraction of extractor, loader and flush |
| `BackofficeTables` | the database `db`, the world outside it `out` (accounts and deposits at the broker, mails, files, the buffer), and the calls: `job[c]` what is asked for, `pc[c]` the await its handler is at, `local[c]` its variables; what all handlers do when a call fails (`Fault`) or the process dies (`Crash`) |
| `Orders` | `createCompleteOrder` of `orders.service.ts`: the user, the account at the broker with its deposit (each with retries), the row with its login conflicts, challenge, details, buffer, order, mails; answers that are lost |
| `ChallengeLifecycle` | `setApprovedChallenge` and `setDisapprovedChallenge`: what is in the transaction is seen at `CommitApproval`, what is not at once |
| `Payouts` | `withdrawals.service.ts` with `handleWithdrawalApproval` |
| `IdentityVerification` | `verification.service.ts`, the files in the object store and their `Media` rows, the foreign keys between them |
| `Backoffice` | the four over one database; `BackofficeTypeOK`, `EveryCallEnds`, `KeepsPromise` |
| `Fulfilment` | the abstraction of orders: what the shop is promised |
| `Requests` | requests of the administration services, cut at their awaits; `before` records which calls were answered when one began, so that properties can tell calls that overlapped from calls in sequence |
| `Styles` | activation is two queries; update saves a row that was read before |
| `Accounts` | registration (the first user becomes administrator), confirmation, reset, change, Google sign-in, and the services that save a whole user row |
| `Directory` | create, update and remove of twelve kinds of rows with a name, by what each service looks for first and what its table keeps unique |
| `Templates` | submissions of balances (delete, then insert) and of stages (row by row), and the chain read in several queries |
| `FazoToken` | `creation-fazo.client.ts`: cache, expiry with its margin, refusals, one repetition |
| `Positions` | deals → closed positions, acceptance rules of the mapper, highest balance with JavaScript's `NaN` |
| `RiskRules` | the functions of `common/functions` over pairs of integers, and the job that stores what they say |
| `Seeds` | the scripts as sequences of look-ups and inserts, the master script, servers that boot |
| `Services` | five parts side by side: the requests (`Styles`, `Accounts`, `Directory`, `Templates`), `FazoToken`, `Positions`, `RiskRules` and `Seeds`; they share no state |
| `*Proofs` | the theorems |
| `MC*` | the instances for TLC |

The definitions whose comment starts with "Mutant of" are not part of the
system: each is the definition that follows it with a plausible bug, used to see
that a property notices.

### Abstractions

* In the buffer, data are **version numbers**.  `market[l]` counts the states of
  the account at the broker and is also the number of positions closed there.  An
  `Account` has a version per group of fields with the same writers:
  configuration, balance, daily balance, open positions, closed positions,
  metrics, `lastUpdate`, hash.  Equity and the arithmetic of the metrics are not
  tracked.
* The extractor's five API calls for one account are one answer: complete, incomplete in
  the two ways the mapper's rules 2.1 and 2.2 distinguish, or failed.  `Positions`
  has the queries and the rules in detail, for one account.
* One challenge per login; one load, one push and one edit in flight.  Extraction
  and flush runs may be several (`Extractions`, `Flushes`).
* Map iteration order is arbitrary, except in the pool's clean-up, which depends
  on it.
* A lock is one bit in `AccountBuffer`; `BufferMutex` shows that this, with FIFO
  service, is what callers see.
* In the back office a call makes at most one row of each kind, which has the
  call's name; a broker account is the pair of a call and its attempt.  Reads of
  configuration that only shape a row are left out, those that can end the call
  are `Fault`.  What is done and then fails (`LostAnswer`) differs from what fails.
* In the services a row a request makes is named after it as well.  The five
  parts run in separate behaviours of one specification.
* `Crash` resets everything in memory and leaves the rows; a database transaction
  is atomic.  In the buffer's modules an acknowledgement lost after a commit is
  not modelled and rows are not removed.

## 3. Runs

| run | instance | checks | shows |
|---|---|---|---|
| `mutex` | 3 logins, 3 calls, 4 Mutex objects, pool of 2 | `Inv`, `MutualExclusion`, `CleanupTakesHalf`, `PoolBounded`, `ImplementsKeyedLock`, `EveryCallerServed` | the pool is one fair lock per login through eviction and re-creation, and evicts the oldest half of its idle objects |
| `daily` | 1 login; loader, extractor, daily job, push, deletion | `TypeOK`, `DailyHoldsCurrent`, `DailyBalanceIsCurrent` | the balance the job took is the account's balance through both awaits and at both writes |
| `writebehind` | 1 login; loader, extractor, flush; 2 versions at the broker, 1 crash | `ImplementsWriteBehind` | positions and metrics never go back, in memory or on disk |
| `runs` | 2 logins; daily job and flush, batches of 1, 1 slot; staff (de)activate challenges | `FlushPartition`, `RunsEnd` | batches, slots, and the end of every run |
| `loaded` | 1 login; loader, extractor, edits, 1 crash, 2 configurations | `ActiveAccountsLoaded` | active challenges get buffered with their latest configuration |
| `disk` | 1 login; loader, extractor, flush, edits of the details, 1 crash | `DataReachesDisk` | the broker's data reach the rows |
| `backoffice` | 21 pairs of calls over 4 challenges in 3 phases; 2 failures, 1 crash, 1 retry, 2 files | `BackofficeTypeOK`, `OrderIsComplete`, `NextPhaseWithApproval`, `LastPhaseOnlyVerified`, `ApprovedIsPaid`, `MediaIsBacked`, `EveryCallEnds`, `KeepsPromise` | nothing that is saved as done is half done, and every call is answered (93,563 states) |
| `services` | three requests at once from 142 starting points, 1 failure; two calls to the broker with 3 tokens; two positions; two settings of the rules; two sequences of scripts and the master's, with a server that boots | the 17 properties of the modules under `Services` | what holds of each although its queries interleave, fail or stop half-way (601,334 states) |
| `keeps`, `closed`, `clean`, `approved` | small instances | `ExtractorKeepsConcurrentWrites`, `IngestKeepsClosedPositions`, `FlushMarksClean`, `ApprovedLeavesBuffer` | what four comments of the code say and the code does not do |

The last four end with a counterexample:

* `brokeret-data-extractor.job.ts` 176 says that the current account is used as the
  base to avoid races; the updater passed to `upsertAccount` ignores it and
  returns the account computed from the old snapshot, undoing a configuration or
  daily balance written meanwhile.
* `smt-account-data-transform.pipe.ts` 64 says closed positions are not
  overwritten by an empty push; whether there are any is decided on a snapshot
  read in an earlier turn of the lock.
* `flush-buffer.job.ts` 324 says accounts are marked clean after a save; the marks
  go to copies that are dropped, so every account is written every minute.  (That
  is also why `DataReachesDisk` holds after an edit put old positions back: the
  next flush repairs the row.)
* `challenges.service.ts` 206 says the account is removed from the buffer; the
  call passes `null` where `upsertAccount` expects a function, the TypeError is
  caught and logged, and the account stays.  Disapproval does the same.

**What the services' properties say.**  `LastActivationShows`: after an activation that
overlapped nothing the mails are in its style.  `AdminsWereFirst`: only the first
user, and those who registered while he did, are administrators.
`ResetTokenIsSpent`: a token changes a password once, or for calls that overlapped.
`AnsweredSticks`: an answered confirmation or password stays unless an overlapping
call saved the row it had read.  `NamedTwiceByOverlap`: two rows of one name need
a table without an index and calls that overlapped, or a service that does not
look.  `SubmissionReplaces`, `ChainIsWhole`: configurations are replaced, and read,
as a whole.  `OneAccountPerCall`, `RefusedOnlyIfRevoked`: the repeated request opens
no second account and is refused only if a token ended at the broker meanwhile.
`MirrorIsExact`: when the account may differ from the broker after an undisturbed
extraction.  `PeakIsKept`: the highest balance is not lowered, once it is a
number.  `InactiveDaysIsLongestRun`: the loop of `account-activity.ts` against the
definition of a longest run, for all sets of days.  `ApprovableMetTheRules`: the
verdict against the configured rules, although the job overwrites them with what
it measured.  `EnsuredOnce`, `ReferencesHold`, `EndIsComplete`: scripts can be
stopped and run again.

**Bounds.**  `MaxMarket`, `MaxConfig` and `MaxCrashes` bound the versions and the
crashes in the guards of `Trade`, `EditDetails` and `Crash`; `Extractions` and
`Flushes` bound the overlapping runs.  No action of the pipeline reads the state
of another login, except batching, slots and the loops over the logins; so one
login shows every race on an account, and `runs` has several because it is about
batches.  Two versions are enough to see one overwrite the other.

In the back office `MaxFaults`, `MaxCrashes` bound what goes wrong.  Handlers meet
in single rows, so two calls at once show each race; the 21 pairs are those that
touch the same rows, with calls on what the other call makes.  Three phases have
a first, one before the last and a last; one retry (three in the code) shows a
retry and its exhaustion.  None of these numbers matters to the proofs.

In the services `MaxFailures` and `MaxStops` bound failing queries and crashes,
`MaxTokens`, `LastTick`, `Tickets`, `Balances` and `Equities` the environment.
Three requests are one that reads, one that comes between and one that follows.

**Deadlock** is checked for the buffer.  It is not for the back office and the
services, whose calls end: a state in which all have is no fault.

**Fairness.**  `Progress`: the event loop runs every continuation whose promise
is settled, and every call settles (weak fairness); waiters of a mutex are
served in order, which `BufferMutex` establishes (`EveryCallerServed`), hence
strong fairness where a job waits for a lock.  `Crons`: they keep firing.  `Services`
(of the pipeline): a call that is made again and again does not fail for ever,
and the broker answers in full now and then (strong fairness); only `loaded` and
`disk` assume it.  Nothing is assumed of pushes, deletions, edits, trades or
crashes.  `BackofficeFairness` is weak fairness of each call's own steps, because
every promise a handler awaits settles; the bound on retries comes from the code,
not from fairness.  The services' specification assumes none.

`writebehind` is checked with one extraction and one flush at a time.  With two
overlapping runs of either the older may write last and the data do go back; no
comment or document of the repository claims otherwise, so this is listed as a
hazard and not as a finding.

## 4. Proofs

All theorems hold for any constants that satisfy the assumptions of their
modules: any number of logins, callers, runs, batch sizes, versions, crashes, any
set of jobs (`PoolAssumption`; `MarksAssumption`, which keeps the marks for a missing
and a live account apart from accounts and their data; `JobsAssumption`); any calls,
phases, files, retries, faults and crashes (`PhasesAssumption`,
`RetriesAssumption`, `FilesAssumption`, `BoundsAssumption`); any tokens
(`TokensAssumption`).  `NamesAssumption` and `WithdrawnAssumption` say that the
rows there are from the start are not the ones calls will make, and that calls
are about users and challenges there are or may be.  For the requests
`RequestersAssumption` keeps the name of no row from being a call's, and
`ScenariosAssumption` says what a state is that requests may find: finitely many
styles of which there is one at least, users without a pending token, names that
respect the unique indexes, no submission half done.  `NumbersAssumption` keeps
JavaScript's `NaN` and the missing value apart from the numbers.

**`BufferMutexProofs`.**  `MutualExclusion` is not inductive: it says nothing of
the object a caller queues on.  `Inv` adds that every login has a Mutex of its
own and only pooled ones have a queue (`PoolInv`), that a caller is in the queue
of the Mutex its login has *in the pool* (`CallerInv`), once (`LineInv`), and
runs only at the head (`HeadInv`).  The clean-up preserves this because it
removes only mutexes with an empty queue.  `Invariance` proves it inductive,
`MutualExclusionHolds` draws the conclusion, and `Refinement` proves the safety
part of the implementation of `KeyedLock`: clean-up steps stutter, the others
map one to one.  `PoolIsBounded` needs that `older` is a strict order of finitely many
pooled mutexes (`OrderInv`): an oldest idle one then exists, the clean-up takes it,
and its place makes up for the new one.

`CleanupIsTheOldestHalf` needs in addition that the order is total (`RowInv`: of
two pooled logins one came before the other).  Then how many idle ones are before
an idle one (its index in the array the code slices) numbers them from 0 without a
repetition, hence without a gap, and the first `ceil(n / 2)` numbers are the half
that goes (`FirstHalf`).

`WaitersAreReached` is the safety part of `EveryCallerServed`: whoever waits has
before him, at the head of his line, a caller whose callback can start or runs
(`HeadIsAtWork`: no wake-up is lost), and his line grows only at its end and
shrinks only at its head (`NobodyOvertakes`).  That he is reached then follows from
the fairness alone; that last step is left to TLC.

**`BufferPipelineProofs`.**  `DailyHoldsCurrent` needs that the reference the
daily job keeps is live and that every other writer of the buffer waits for the
lock.  `Inv` adds the types, the fact that a live reference refers to something
and that an extraction holds a reference to whatever it has not started
(`RefsInv`), and that the batches of a flush are disjoint and copied
(`BatchesInv`).  There is one lemma per job (`LoaderStep`, `ExtractionStep`,
`DailyStep`, `IngestStep`, `FlushStep`, `EditStep`, `DeleteStep`, `EnvironmentStep`,
`CrashStep`), and `ReplaceStep` does what the three replacing writers share.
`TypeCorrect`, `DailyHolds` and `DailyWritesCurrent` follow.  `Partition` proves
`FlushPartition` from `Inv` and `SlotsInv`, which counts the batches at work with
the finite-set theorems.

`TradingDataNeverGoBack` proves that the pipeline implements `WriteBehind` if
`RunsApart` holds of the constants: no pushes, deletions or edits of the details, and
no two extractions or two flushes at once, as in the run.  Its invariant
`TradingInv` adds to `Inv`:

* `OrderOfData`: the rows are no newer than the buffer, the buffer no newer than the broker;
* `LoadsAreCurrent`: what a load is going to enter for an absent account is what the
  row has, so that a flush cannot have overtaken it;
* `FetchesAreCurrent`: an account an extraction is about to write lies between the
  buffered one and the broker's, and what it has not come to is the live object;
* `CopiesAreCurrent`: what a flush has copied lies between the row and the buffer.

There is one lemma per job again (`LoaderKeeps` to `CrashKeeps`): a trade is `Advance`, an
upsert of the loader `Load` and of the extractor `Refresh`, a batch of the flush
`Store`, a crash `Lose`, and everything else stutters.  Two runs
of the extractor break `FetchesAreCurrent`, two flushes `CopiesAreCurrent`.

**`FazoTokenProofs`.**  `OneAccountPerCall` needs that a call has been sent once at
most while its repetition is to come and executed not at all before its answer;
`RefusedOnlyIfRevoked` that the token of a second request was fetched by the call
itself and was good then.

**`BackofficeProofs`.**  Any number of calls run over one database, so an invariant
of one call must survive the steps of all others.  `Frame(d)` says what a step of
a call `d` leaves to the rest: their program counters, local variables, account
rows and deposits, every row of a challenge up to its being closed, and what is
only added to.  It is proved once for every handler (`OrderFrame`,
`LifecycleFrame`, `PayoutFrame`, `VerificationFrame`); `OwnOrUntouched` then says
that a step is either a call's own or leaves it untouched, and each invariant is
followed only through its own handler:

* `RowsInv`: a call's challenge is not there before its handler makes it, and the
  one an approval is of is there.  Without it `Frame` fails: an approval would
  overwrite a challenge another call made.
* `OrderInv`: the point an order has reached says what there is of it.
  `OrdersAreComplete` follows, and `OrdersKeepPromise`: `SaveOrder` is `KeepOrder`, an
  answer that is an error is `RefuseOrder`, everything else stutters.
* `ApprovalInv`: the child in the transaction, its account row, certificate and
  the verification of the user, at each point.  `NextPhaseComesWithApproval` and
  `LastPhaseIsVerified` follow; the latter needs that the phase of the challenge
  being approved stays what it was when the user was read.
* `PayoutInv` and `PaidInv`: a status "approved" in the table, or in a row that an
  update has read, comes from an answered approval or a patch, and answered
  approvals stay answered (`PaidStays`).  `ApprovedWithdrawalsArePaid` follows.
* `SubmissionInv` and `MediaKept`: files are recorded in order after they are
  stored, and what has rows is not removed.  `MediaAreBacked` follows.
* `BackofficeTypeCorrect` needs `OrderInv` and `SubmissionInv` for the counters.

**`PositionsProofs`.**  `MirrorStaysExact` needs that an extraction's copy is the
account as JSON gives it back (`CopyIsCurrent`) and that what an undisturbed
extraction was told is what there is (`AnswersAreCurrent`); `PeakStays` that the
peak which enters the maximum is the account's, with its two values that are no
number.

**`RiskRulesProofs`.**  The measured values that overwrite the rules leave
`maxDrawdown` undefined, and nothing is below what is undefined; so an account, a
copy of it and a verdict have the rules or parameters no account passes
(`ParamsInv`).  `VerdictsMeetTheRules` follows.

The days without a position are an induction over the days of the loop.  `UpTo`
does it without a schema: the least number where a set fails would have one before
it where it holds, and sets of numbers up to N are well-founded.  With it
`TallyExists` says that the recursive function of the loop is defined, and
`CountsRuns` is the loop's invariant: `now` is the stretch that ends with the last
day and starts at the first or after a day with a position, `max` is a stretch or 0, and
none is longer than both.  `InactiveRunIsLongest` identifies the result with
`LongestRun`, `CountedDays` says it for every creation and every moment, and
`InactiveDaysAreLongest` is the property of the run.

**`RequestsProofs`.**  The properties compare calls by what was answered when they
began.  `CallsInv` says that `before` is an order of the calls that are over, and
the frame lemmas (`ReceiveFrame` to `AccountFrame`) what a step of one call leaves to
the others.  From these:

* `Alone`: if all other calls were over when a call began, no other call acts while
  it runs.  `SubmissionsReplace` (`SubmissionInv`) and `ActivationsShow`
  (`ActivationInv`: between its two queries no style is active, after them one is)
  are then arguments about one call.
* `ChainsAreWhole`: a stage answered before the reader began stays whole, because
  nothing removes parameters (`StageInv`), and is in each of the reader's queries
  (`ReaderInv`).
* `LinksAreSpent`: a row of `reset` is written once and its user's success removes
  it (`ResetInv`); who begins later does not get past the look-up (`SpentInv`).
* `AdminsAreFirst`: who registers when another is there makes no administrator,
  and no call that read his row can save one that is (`LateInv`).
* `NamesAreTwiceByOverlap`: an index keeps its names apart in every state
  (`NamedInv`); without one a call that looked and saw nothing overlaps the one
  that made the row (`LooksInv`).
* `AnswersStick`: a pending token has an owner that no two calls share (`TokenInv`,
  `OwnerInv`), and a column differs from what an answered call wrote only by a call
  that had read the row before (`ConfirmedInv`, `PasswordInv`).  `WhoWrites` lists the
  steps that write a user's row.

`RequestsRun` carries them to `ServicesSpec`: while another part runs, the
requests rest.  `PartsRun` says the same of the five parts of the composition, so
that the theorems about the Fazo token, the positions, the risk rules and the seeds
hold of `ServicesSpec` too.

**`SeedsProofs`.**  The three properties of the seeds are about the scripts and
about what a process may rely on while others run and stop.

* `ScriptsSound` says what the scripts have in common: every table a part fills has
  what its rows refer to from an earlier part (`InOrder`), a script wipes nothing it
  makes sure of, cuts the links just before it wipes the accounts, and makes no
  challenges when it links (`Apart`, `Cuts`).  The scripts that only fill tables are
  composed (`ConcatOrdered`: a script in order, after one that fills what it takes
  for granted, is in order); the ones that wipe or link are looked at part by part.
* `SeedsInv` adds to the properties where a process stands (`Stands`) and that what
  it has behind it is in the database (`Done`).  It is inductive because a server
  only ensures the roles, whose keys the database keeps unique, while everything
  else is done by one process at a time (`Mild`, `OthersStay`): with a table that is
  not unique among the roles, or two masters, `RowsAreEnsuredOnce` would fail.
* `RowsAreEnsuredOnce`, `NoDanglingReferences`, `EndsAreComplete` follow, for any
  number of servers, any sequence of scripts and any number of stops
  (`SeedsAssumption`: their bound is a number).

**Only model-checked:** the liveness properties (`EveryCallerServed`, `RunsEnd`,
`ActiveAccountsLoaded`, `DataReachesDisk`, `EveryCallEnds`), which are out of the
prover's reach.  All other properties of the passing runs are theorems.

## 5. Not modelled

* **The risk evaluation job** is not registered (`tasks.module.ts` 42), nor are the
  SMT activation and verification jobs; `RiskRules` models the first as it would
  run, the others are dead code.  `TasksService` is empty.
* **`loss-per-trade.ts`** does not enter the verdict.  `createSmtApiChallenge` is
  not reached: its call is commented out.
* **Single-row services**: the plain create, update and remove of orders,
  certificates and business requirements, the linking rows of the templates and
  the add-ons of relations are one query each; there is nothing to interleave.
* **Statistics** other than the highest balance are sums over the lists that
  `Positions` models.
* **Storage, mail, webhooks, the broker's API** are I/O: the handlers see a call that
  succeeds, fails or whose answer is lost.
* **Controllers, DTOs, guards, configuration, logging, migrations** keep no state.
* `seed-all-data.ts` lists two files that do not exist (`seed-users-realistic.ts`,
  `seed-challenges-realistic.ts`); the master logs the failure and goes on, as the model does.
* **Several challenges on one login** and **overlapping extractions or flushes** are
  listed as hazards: the code lets older data win there and claims nothing else.
