# TLA+ specifications of the AI personal finance assistant

This directory holds specifications of the parts of this repository whose
correctness depends on order: what several callers do to one row, what a crash
leaves behind, what a retry finds, what an old button still does. Next to them
are the rules that are plain functions but easy to get wrong: calendar periods, the
figures of reports, what a message's words are worth. They are written from the
TypeScript sources and model-checked with TLC on small instances; every safety property the passing
runs check is also proved with TLAPS for instances of any size. `PROJECT.json` maps every definition to the
lines it stands for.

* [1. The system](#1-the-system)
* [2. Modules](#2-modules)
* [3. Runs: what is checked, on what instances](#3-runs)
* [4. Fairness](#4-fairness)
* [5. Proofs](#5-proofs)
* [6. What the code does that its comments do not say](#6-disagreements)
* [7. Not modelled](#7-not-modelled)
* [8. Plan](#8-plan)

To run: `tlc -config X.cfg M` for a run of section 3, `tlapm X_proofs.tla` for the proofs.

## 1. The system

Three processes share one PostgreSQL database and one Redis:

* **apps/telegram-bot** receives updates, runs the conversation with a user and
  delivers notifications;
* **apps/worker** runs queued and repeated jobs: dispatching domain events,
  rolling budgets over, reminding of debts, purging accounts, reading exchange
  rates, OCR and speech-to-text;
* **apps/api** serves administrators and API clients.

The rules are in `packages/domain` (pure) and `packages/application` (use cases),
the statements in `packages/infrastructure` (Prisma and Redis repositories, BullMQ
queues, providers). Nothing is held in memory between requests except circuit
breakers; coordination is by conditional updates, row locks, unique constraints
and Redis keys. That is where the hard behaviour lies: a use case reads, decides,
and writes in a later statement; its retry, a second process or another user
action may run in between.

### Components

| Component | State | Operations | Talks to | Hard part | Correct when |
|---|---|---|---|---|---|
| Debts | `debts`, `debt_repayments` | create, repay (match, cap, confirm), forgive | records DebtSettled in the outbox | read-then-write by several callers | balance = original - repayments; settles and announces once |
| Loans | `loans`, `loan_payments` | create, pay | - | a check before the row lock, the computation after it | the loan is the replay of its payments |
| Accounts, transfers, exchange rates | `accounts`, linked `transactions`, `exchange_rates` | open, archive, find the default, transfer, edit; ingest rates; balances, net worth, cash flow | transactions | first account made twice; edits of one transfer; a rate job past midnight | one default per currency; both sides of a transfer move; what was computed for a past day stays |
| Transactions | `transactions`, `transaction_audit_log` | create, edit, delete, restore, undo, reset | outbox events in the same database transaction; audit afterwards | races of delete, undo, reset; failure before the audit | one deletion, one event, one entry; no unlogged value |
| Custom categories | `categories`, `category_translations`, Redis wizard | name, choose parent, create, delete and reassign | transactions | duplicate names, rows that arrive during a deletion | names unique; rows have usable categories |
| Budget and goal hooks | `budgets`, `budget_notification_log`, `savings_goals` | threshold and milestone evaluation inside create; edits; rollover job | inside the transaction of create; outbox | row locks, statement visibility, aborted transactions | what the total reaches is logged and announced, once; no deadlock |
| Domain event outbox | `domain_events` | record, claim (`FOR UPDATE SKIP LOCKED`), consume, retry or fail | called by writers; calls consumers | several workers, crashes, time limits | claims exclude; attempts exact; every event ends |
| Notifications | `notifications`, delivery queue | gate (preference, dedup, row, job), deliver | consumer of the outbox; Telegram | each call of the gate may fail; redelivery, stalls | one notification at most; the tables tell what was sent |
| Debt reminders | `domain_events`, `notifications` | daily scan, dedup on both sides | outbox, gate | two looks before two writes | no two reminders of a kind close together |
| Report cache | Redis keys of totals | fill on read, delete on events | readers; consumer of the outbox | fill races invalidation; event order | stale only for a known reason |
| Reports, dashboard, search, export | - | query, assemble, compare, page | transactions, cache, accounts | the same rows summed in a dozen ways | parts add up; reports of one day tell one story |
| Draft commit | Redis `transaction_commit:*` | claim, insert, store result, release | conversation, transactions | two stores, no ownership of the key, expiry | one transaction per draft, one more per mishap |
| Conversation | Redis `conversation_state:*`, `transaction_drafts` | route text and taps, evaluate, side effects, compare-and-set | draft commit, transactions | updates of one user overlap; effects precede the state write | contexts usable; a tap does what it shows |
| Bot dialogs and keyboards | Redis wizard and search records, the awaiting-DELETE flag; buttons in old messages | settings, reports, search, export, loan wizard | use cases | stale buttons, restarted versions, overlapping handlers | every button is understood; confirmed once; no bound lost |
| Extraction | `transaction_drafts` | validate, screen, score, ask, merge the answer, commit | providers, conversation | rules of five layers that must agree | nothing incomplete is ready; nothing unsaid is committed |
| Voice and receipts | files, jobs, drafts, cards | send, run, retry, review | extraction, notifications | a run dies between any two writes; two runs of one file | one card per file; every file is answered |
| Provider resilience | breaker in memory | call, retry, trip, probe | vendors | calls older than the breaker's state | an open breaker lets calls through again |
| Accounts of users | `users` and all that refers to it | provision, block, request and cancel deletion, purge scan | everything that inserts for a user | long-lived scan against live updates; half-done sweeps | purged only when due; every due user is purged |
| Admin login, MFA, sessions | `admins`, `admin_sessions`, Redis challenges | password step, code step, touch, logout, reset | audit log | slow checks between read and write | every failure counts; sessions end |
| Elevation, support sessions | `*_elevation_requests`, `support_sessions` | request, approve, open, end, expire, guard | audit log | approvals read first; two guards in a row | powers were approved by another; raw detail only while elevated |
| API tokens | `api_tokens` | issue, refresh, revoke, validate | REST guards | refresh races, replays, crashes | one chain of live tokens per client |
| Telegram transport, REST, scheduling, configuration | - | - | use cases | updates overlap, jobs repeat | - |

How they interact:

```
 update --> BotMenus, BotDialogs, CustomCategories
   |                 |                  |
   +--> Extraction --> ConversationEngine --> CommitLock --> create: CommitHooks
   |                       |                                   |  (same DB transaction)
   +--> MediaJobs          v                                   v
        (jobs) --> ProviderResilience   TransactionUseCases --> TransactionStore
                                                |
 DebtLedger -- events --> DomainEventOutbox <---+      LoanLedger, AccountBook
                            |        |                      |
 DebtReminders -- events ---+        v                      v
   v                        |    ReportCache -------> ReportFigures (over Calculations)
 NotificationPipeline <-----+
   v
 Telegram        AccountLifecycle (users; purges rows of all the above)
                 AdminAccess, SupportSessions, ApiTokens (apps/api)
```

The hazards of this code, each with its line and the properties that watch it,
are listed in `PROJECT.json`.

## 2. Modules

Each operation of the code that one statement or one awaited call performs is one
action; everything else may happen between two actions. A call in progress is a
record in a function over caller ids, holding what the call has read. Where
PostgreSQL or Redis decides (a `WHERE` clause, a lock, a foreign key, a
compare-and-set) the guard has a name of its own (`CanRepay`, `MayDelete`, `Claimable`,
`StillCurrent`, `IndexAllows`, `Holds`). The definitions commented "As it would be ..." are
not part of any specification: each is a plausible defect of the definition after it, and
shows, put in its place, that a property notices.

| Module | Stands for | Notes |
|---|---|---|
| `DebtAccount` | what the debt tables promise | abstract specification: open, pay down, pay off, write off |
| `DebtLedger` | `CreateDebt`, `LogDebtRepayment`, `SettleDebt` use cases over `PrismaDebtRepository` | implements `DebtAccount` by a refinement mapping (`Account`) |
| `LoanLedger` | `CreateLoanUseCase`, `LogLoanPaymentUseCase` over `PrismaLoanRepository` | the lock, the fresh read and interest by rounded division are spelled out |
| `AccountBook` | account use cases, transfers, `PrismaAccountRepository`, `IngestFxRatesUseCase`, balances, net worth, both cash flows | balances are sums over rows, each converted by the latest rate on or before its day |
| `Calculations` | budget periods, ISO weeks, report boundaries, cache keys, due dates | a date is a day number; `Date.UTC` carries overflow |
| `ReportFigures` | `GenerateReportUseCase`, `GenerateDashboardUseCase`, search, export and their queries | extends `Calculations`; each figure is an operator over the rows |
| `TransactionStore` | statements of `PrismaTransactionRepository` and the events they record | shared by the next two |
| `TransactionUseCases` | edit, delete, restore, undo, reset and the audit log | `unlogged` keeps the entries a failed insert lost |
| `ReportCache` | `RedisReportCacheRepository`, cached totals of `GenerateReportUseCase`, `TransactionEventCacheInvalidationConsumer` | `missed` records why a copy did not hear of a change |
| `CommitHooks` | `PrismaTransactionRepository.create` with both hooks; budget editing; rollover job | READ COMMITTED spelled out: each sum sees committed rows and its own |
| `DomainEventOutbox` | `PrismaDomainEventRepository.dispatchNextPending`, `DispatchDomainEventsUseCase`, processor and scheduler | `handled`, `thrown`, `lost` count what happened; the code does not keep them |
| `CommitLock` | `TransactionCommitAdapter` and the Redis lock | rows of a draft are named by the call that made them; `mishaps` is their number |
| `MediaJobs` | photo and voice routers, OCR and STT processors, `ProcessReceiptImage`, `TranscribeVoiceMessage`, the review taps | a job goes step by step; any step may fail, die, or be taken over |
| `ProviderResilience` | vendor adapters, retry and circuit breaker of the three ports | one breaker per port and process; calls overlap |
| `NotificationPipeline` | `NotificationDeliveryConsumer`, delivery queue, `NotificationDeliveryProcessor` | extends the outbox: the consumer runs inside its claim |
| `DebtReminders` | `RecordDebtReminderEventsUseCase`, the gate's windows, the dedup query | clock, time zones, scans and gates that overlap |
| `Extraction` | validator, grounding, sanity bounds, confidence, clarification, commit checks | a candidate is read field by field: kind of value, band of confidence |
| `ConversationEngine` | `ProcessConversationEventUseCase`, `evaluate-conversation-transition`, text and callback routers | the guard table is one operator; `happened` is the set of what has occurred out of overlap, crash, drop |
| `BotMenus` | keyboards of settings, reports, search, export and account deletion with their handlers | a button is its callback data, the dispatch prefix apart and split at the colon; `chat` keeps old messages |
| `BotDialogs` | loan wizard, search session, the flag waiting for DELETE | versioned records and their compare-and-set |
| `CustomCategories` | naming wizard, creation, deletion with reassignment, edits of rows around it | |
| `AccountLifecycle` | provisioning, blocking, deletion, `PurgeExpiredAccountsUseCase`, `PrismaAccountPurgeRepository` | `holds` is what refers to a user by foreign key |
| `AdminAccess` | password and code steps, lockout, challenges, sessions | one account, attempts in several statements |
| `SupportSessions` | admin elevation, support sessions, their elevation, guards, expiry job | |
| `ApiTokens` | issue, refresh, revoke, validate | a refresh is four statements |

The theorems are in modules of their own:

| Module | Proves about |
|---|---|
| `Ledgers_proofs` | `DebtLedger` (with its refinement), `LoanLedger`, `AccountBook`, `Calculations`, `ReportFigures`; extends `MCLedgers`, where `PeriodsAndFiguresAgree` is stated |
| `TransactionUseCases_proofs` | `TransactionUseCases` |
| `CommitEffects_proofs` | `CommitHooks`, `ReportCache` |
| `DomainEventOutbox_proofs` | `DomainEventOutbox` |
| `NotificationPipeline_proofs` | `NotificationPipeline`, `DebtReminders`; extends the former |
| `Bot_proofs` | `CommitLock`, `MediaJobs`, `BotDialogs`, `CustomCategories`, `ConversationEngine`, `Extraction`, `BotMenus` |
| `Access_proofs` | `AccountLifecycle`, `AdminAccess`, `SupportSessions`, `ApiTokens` |
| `SumTheorems` | sums over finite sets, for the ledgers, the hooks and the bot |

The modules named `MC...` extend the components they compose for TLC. Components that share no rows are put
side by side in one run: a variable `part` says which of them a behaviour exercises, and the others keep their initial
state, so that six runs cover the whole project and each part still has all interleavings of its own.
Where components do share state, one module extends the other (`NotificationPipeline` and the outbox,
the use cases and the cache over `TransactionStore`).

Abstractions, chosen so that the properties can tell apart all they speak of:

* Amounts are small whole numbers; a debt's repayments are kept as their sum.
* A counterparty, a category, a merchant, a name, a button's label is a value of a
  small set; a message is the candidate records a provider makes of it (`Extraction`) or
  the outcome of that (`Classifications` of `ConversationEngine`).
* The time limit of an interactive transaction, the expiry of a Redis key, a lost
  answer, a stalled job and a crash are actions that may come at any moment, within
  a bound where one is named.
* Modules about deadlines have a clock of a few ticks. A call reads it when it begins and may write
  a tick later; in `AccountLifecycle` the clock waits for older calls, a tick being longer than a handler.
* Authorisation and validation that refuse a call before it writes are left out, except
  where they are the subject (`Extraction`, `SupportSessions`).
* Quiet hours only delay a delivery; in `NotificationPipeline` the dedup window is taken to
  contain all events of a run, `DebtReminders` has windows that pass.

## 3. Runs

Six runs pass, each composing the components that one sentence can describe; six show a
disagreement (section 6). All bounds are CONSTANTS of the configurations or constraints in the next-state
relation of the MC module. A passing run takes one to four minutes. Deadlock is
not checked, because the bounds on calls, rows and time end every behaviour; that
something does go on is the subject of the temporal properties.

### ledgers (`MCLedgers`)

*Debts*: two debts, two callers, two match keys, amounts up to 2: every pair of
read-then-write races, a repayment that matches one of several debts, partial, exact,
excessive and capped repayments. *Loans*: one loan of 6 at interest 0 or 1/4, two payers, three
payments: a rounded portion of interest, a final and an excessive payment. *Accounts*: two
accounts in two currencies, one row, two clients, three calls, two rates, three days: a race for the first
account of a currency, a transfer between currencies edited twice at once, a rate job that
crosses midnight. *Calendar*: the days from January 2020 to May 2021 (a leap year, a year of 53
weeks and the turn after it), loans begun on a 26th and on a 31st of months of different lengths. *Reports*: every book of two rows out of three kinds, two
categories and two amounts, on five days around the turn of a month, a quarter and a week, seen from
the last of them.

* `BooksAgree`, `CappedRepaymentSettles`, `ImplementsAccount`: the balance is kept by SQL decrements and the
  status by a SQL CASE; together with history and events they stay consistent whatever races,
  a cap computed from a stale balance still clears the debt, and the tables refine `DebtAccount`.
* `LoanIsReplayOfItsPayments`: overlapping payments leave what they would leave one at a time.
* `AccountsHoldTogether`: one default account per currency; a transfer carries an arriving amount
  exactly when it needs one; net worth is what ever flowed in less what flowed out (two sets of
  queries, account by account and row by row). `PastBalancesAreStable`: rates of later days change no
  earlier balance.
* `PeriodsAndFiguresAgree`: budget periods tile the calendar; the key a report is cached under and those an
  event deletes, which one function makes of two different days, agree with the ranges of reports, which other
  functions compute; a due date stays until it has passed and the next follows it by one installment; what a
  report lists adds up, the reports of one day tell one story, trajectories compare the halves of a range, the
  pages of a search hold what the export holds. The sums 10 and 11 put a trajectory on its threshold: a change of
  exactly a tenth is left open (section 6).

### transactions (`MCTransactions`)

*Use cases*: two rows, two calls at a time out of edit, delete, restore, undo and reset, three
writes. *Budgets*, *goals*: three commits, two open at once, of expenses over two budgets that
every expense falls under, or of contributions to one goal (the two hooks share no row); one change from outside (deletion,
restoration, edit, rate, budget edit, next period). Amounts and limits are such that one expense crosses 80 per cent of a limit and two
cross 100, and that one contribution stays below the first milestone while two reach it.

* `HistoryIsComplete`: deletions lead restorations by one exactly on a deleted row, events, entries
  and rows agree, and no value stands in a row that no entry names, although an edit takes
  the old value from an earlier read. Entries count whether they are in the audit log, were lost
  with a failure, or are still owed by a call that has written its row.
* `CrossingsAreToldOnce`: exactly the thresholds reached are logged, though each hook sums under READ
  COMMITTED, and each is announced once; `LocksNeverCross`: nobody waits in a circle;
  `LoneContributionCatchesUp`: whatever was missed before, a contribution that meets no other
  leaves no reached milestone unfired.

### conversation (`MCConversation`)

*Words*: every candidate record up to two of whose values are not plain, two turns of question and answer.
*Conversation*: three updates over three drafts, one clarification retry, two compare-and-set
attempts; calls overlap, die, meet an expired or a lost record. Three updates make a state, act on it, and
interfere; three drafts make a batch with an item confirmed, one skipped and one left. *Loans*,
*search*, *deletion*: two handlers; two dialogs and versions up to 8 for the wizard; amounts 1 and 2 and a session
written six times (its start, two prompts with their answers, a tap), and twice once one has ended
or beside the deletion flag. *Categories*: two wizards, two
names, one of them a system category's, two reply languages, one row, seven calls. *Menus*: two
messages within reach, whatever was in the chat when the data behind their buttons changed.

* `RecordsAreAsTold`: what the pipeline calls ready lacks nothing its commit asks for, one missing field
  can be answered for, and what is committed was said, is plausible, and was not a guess.
* `ContextIsUsable` (including the index of a batch), `DraftsFollowTheConversation` (cancelled drafts are
  abandoned, a draft in question is uncommitted), `WritesOverWhatItSaw` (a retried write never lands on
  a different state), `TapsActOnWhatTheyShow`. The drafts and the taps are stated for updates that do not
  overlap or die, and say so: under overlap the code does not promise them.
* `ConfirmedOnce`: a loan dialog is carried out once unless another was started. `BoundsAreNotLost`: the two
  bounds of a search that stand are in order, though each answer was checked against an earlier read, and
  while the session lasts no answer or tap takes back a bound that another has set.
* `CategoriesAreUsable`: no two categories in use of one name and language; rows have a
  category in use, except where an edit or a restoration came late.
* `EveryButtonIsUnderstood`: every button of every keyboard is understood by the handler it reaches.

### delivery (`MCDelivery`)

*Gate*: one event with two attempts, two workers of whom one may lose its claim and go on, four rows of which the
dedup query reads three, the preference toggled and the account purged at any time; every call of the gate may throw, and
adding the job may succeed unanswered. *Queue*: the same event with one worker, and two delivery processors with two
tries and one forgiven stall per job, over two rows. *Overlap*: one debt,
two scans, two gates, three days, two notices. *Crowd*: two debts and a dedup query that reads one row, one scan and one
gate at a time, three notices, so that another debt's row hides this one's. *Cache*: one row that moves between two dates
of a month, the week of one of them and the month cached, one reader, two editors, three writes, events consumed in any
order, again after a lost claim, or given up.

* `NoDuplicateSideEffect`: while the user is there and the dedup query reads all rows, an event gets one notification that
  may be delivered and at most one more for each claim that was lost. `DeliveryAsRecorded`:
  suppressed rows are silent, done jobs have a final row, sent rows were delivered; a row that has ended, sent or failed,
  is taken up again only after its job stalled (`EndedIsLeftAlone`), for `markFailed` would overwrite a sent one; and the
  messages of a row are no more than the times its job was handed out, one fewer if it is marked failed
  (`SentOncePerHandOut`). `DispatchedIsAccountedFor`: an event is dispatched with nothing queued only if
  the gate had failed after its row was written, or is between that row and its job while
  another worker, which took over its claim, has settled the event.
* `RemindersKeepTheirDistance`: nobody is reminded twice of a debt within a window, unless one scan
  or gate had looked before the other wrote, or the rows read were all about others.
* `StaleIsExplained`: a stale total is awaiting the event that deletes it, or is in one of four situations the
  code leaves open: the key was deleted while its fill was under way, a restoration (which
  announces nothing), an edit whose announced date was stale, an event given up.

### access (`MCAccess`)

*Lifecycle*: two users, two calls at a time and three in all, one scan, one failure, two rows made, a
grace period of three ticks and five of time. *Login*: a threshold of two failures, a backoff of one and then
two ticks, four requests, two at a time, two challenges, four ticks. *Support*: three admins of different roles, one
session, two elevation requests, three requests. *Tokens*: three requests, four tokens, an access
token of one tick and a refresh token of two.

* `DeletionsAreHonoured`: whoever is purged had asked for it and the period was over, unless a
  cancellation read the clock before the deadline and wrote after it (`PurgedWasDue`); a request to be deleted
  ends in a cancellation or the purge, and only a reactivation under way when it was made undoes it
  (`RequestsStand`). `PurgeFinishes`: a sweep cut
  short anywhere is completed by a later scan, unless a user stands in its way who cannot be deleted.
* `FailuresAddUp`: every wrong password or code written moved the counter by one; `LocksHold`: no wrong answer
  shortens or restarts a lock. `SessionsComeAndGo`: a challenge opens one session unless two code steps overlapped,
  and no session outlives logout, idleness or its lifetime.
* `OneChainPerClient`: a client's live tokens are one chain, whatever refreshes race, are replayed, or break off.
* `PowersAreGranted`, `RawDetailIsElevated`: every elevation has one entry by another super_admin; whoever sees raw
  records is the agent of a session that is elevated, and open unless it ended between the two guards.

### work (`MCWork`)

*Outbox*: two events, one of a type nobody consumes, two workers, two attempts, one claim lost (crash or
expiry) at any moment. The loss makes a worker act on a claim another one has meanwhile settled. *Lock*:
three calls over two drafts, so that a third call can meet what two have left. *Media*: one file
sent twice, two runners, three attempts, two mishaps (a failed write, a death, a stall) beside the model being away at any time. *Vendor*: three
calls of a breaker that opens at three failures, of each of the three ports.

* `ClaimsAreExact`: claims exclude each other, and no event is given up before its consumer threw
  `MaxAttempts` times. `HandledOncePerClaim`: at least once, and once more for each lost claim at
  most. `EveryEventEnds`: dispatched or failed in the end, failing events included.
* `CommitsAreCounted`: the lock makes one transaction of concurrent commits, each further one needs an expiry,
  failure, lost answer or crash of its own, and an answered id is a transaction of that draft.
* `OneCardPerFile`; `WorkIsTakenUp`: an abandoned claim on a draft ends, and a file sent is answered by a
  card or an apology (with the exceptions the property names, section 6).
* `BreakerRecovers`: once the vendor answers and somebody goes on calling, the breaker closes for good.

Each property has a mutant in `PROJECT.json` on which the same run fails. The small modules
`MCCommitHooks`, `MCAccountLifecycle` and `MCExtraction` instantiate one component for the runs of section 6.

## 4. Fairness

Safety runs assume none. The temporal properties assume weak fairness of:

* `WorkerStep(w)` (outbox): the repeated job fires every poll interval and every
  await of a batch settles; failures and losses are not assumed away, losses are only finite;
* `ExpireKey(d)` (commit lock): Redis keeps the time to live of `__PENDING__`;
* `Take(r, f)`, `RunStep(r, f)`, `Recovers(f)` (media): BullMQ hands a waiting job to a runner, its
  statements settle, and a job whose runner died is found by the stalled check;
* `CoolsDown`, `CallEnds(c)` (breaker): time passes, and a call ends because it has a timeout;
* `ScanStep(s)` (accounts): the repeated purge job fires and its statements settle;
  `ScanFails` and `StorageFails` are not fair and are bounded;
* `FindDue`, `RolloverPeriod` (hooks): the same for the rollover job.

Each is stated within its part of a composed run. No fairness is assumed of users, administrators
or clients: `BreakerRecovers` speaks of behaviours in which somebody goes on calling.

## 5. Proofs

TLAPS proves the following for every number of callers, rows, events, workers, requests and commits, every
amount and every limit: all the safety properties of the passing runs, and that debts implement `DebtAccount` and the
pipeline implements the outbox. The only assumptions are those named in the modules, which TLC evaluates
in the runs. Most say that limits and amounts are natural numbers, that sets a call chooses from are not empty, that
what an invariant counts is finite, and that a value standing for nothing (`NoAccount`, `Unset`, `Free`, `NoMerchant`)
is none of the others. These say more:

* `GraceAssumption`: the grace period of a deletion is at least three ticks (the code's is 30 days), a tick
  being longer than any call takes;
* `LoginAssumption`: the backoff schedule has at least one entry, and the threshold is not zero;
* `LoanAssumption`: principals are positive, rates are not negative, and zero is among them;
* `HooksAssumption`: budgets are numbers, in whose order they are locked;
* `SupportAssumption`: every admin starts with one of the three roles;
* `WalkAssumption`, `ReportsAssumption`: days are those of a calendar of thirteen years, from any year on, and not so close
  to its ends that the period before or after one is outside.

The theorems a reader should know of are listed under `theorems` in `PROJECT.json`. In each module the invariant to
be proved is not inductive; what had to be added is what makes the code right.

### `Ledgers_proofs`

**Debts**: `TypeCorrect`, `BooksAlwaysAgree` with its parts `BalanceCorrect`, `StatusCorrect` and
`SettlementAnnouncedOnce`, `CappedSettles`, `SettlementFinal`, `Refinement`. `IInv` adds

* `CallsInFlight`: an invocation about to write has a positive amount and a debt that exists, and if its
  amount was capped at the balance it read, the balance is not above that amount
  now. This is what makes a cap from a stale read safe: balances only fall;
* `AbsentIsBlank`: a row not yet created has no history.

One lemma per action shows that it keeps `IInv`; `SettlementFinal` (no step reopens a
settled debt or raises what is owed) and the step of the refinement follow from `IInv` by cases on the
action: create maps to `Open`, a repayment to `PayDown` or `PayOff`, forgiving to
`WriteOff`, everything else stutters.

**Loans**: `LoanInvariant`, `LoansReplay`. The property replays a loan's payments by recursion over
their rows, and induction over data is out of the provers' reach. The proof does not need it: `LoanStands` says that
there is a course of balances for the rows written so far (the first is the principal, each further one is the
previous one less what its row paid off it) and that every such course ends in the stored balance. A new
row makes a course one balance longer. That the row is computed from the balance it is
written over is what the lock guarantees.

**Accounts**: `BookStands`, `AccountsHold`, `PastBalancesStay`. `BookInv` adds to the one default per currency that a row
names accounts that are there (`EntriesStand`) and that an edit under way was checked against the row it saw, with
accounts that do not change what they were checked for (`EditsStand`). That net worth is what flowed in less what flowed
out is an exchange of two sums, over accounts and over rows.

**Calendar and figures**: `CalendarStands`, `FiguresStand`, `PeriodsAndFiguresStay`. Every day is in one month of one year
(`DayHasMonth`), `Date.UTC` carries months over (`UtcCarries`), periods of one, three and twelve months are spans in which
every day has its place (`SpanPlaced`, `SpanEnds`), and weeks are named by the year of their Thursday. `NextDue` is a recursion
that ends because every installment moves on (`DueExists`). What reports list adds up because rows fall into groups
(`LinesByGroup`), halves of a range are apart, a month of a trend is the range of that month's report; an order of the
newest first exists (`OrderExists`), and pages are read off it one after the other (`ReadingGathers`).

### `SumTheorems`

A sum over a finite set does not depend on the order in which it is taken (`AnyOrder`): the fold of the community modules
chooses one, and what it comes to was shown by descent to the least subset that would fail, an induction over finite
sets that needs no operator as a parameter. From it follow sums of parts, sums that swap, sums by group.

### `TransactionUseCases_proofs`

`HistoryInvariant`, `HistoryStaysComplete`. `HistoryInv` adds, for each call (`CallsStand`),

* `DuesStand`: it owes entries only once it has written, one for a row at most, and none yet for a row a reset has still to delete;
* `EditsStand`: the row it edits is there, the value is one of its field, and the value it has read is in the
  row's history (`Kept`). This is what makes the difference against a stale read harmless: if no entry is
  written because the new value is the one read before, the history has that value already.

The history of a row only grows (`KeptGrows`): entries due are moved to a log, never dropped. A count (`CountMoves`,
`CountMoved`) changes only when a call writes the row, by what it comes to owe; recording it or losing it moves it.

### `CommitEffects_proofs`

**Hooks**: `HooksStand`, `CrossingsStayToldOnce`, `LocksStayOrdered`, `LoneContributionsCatchUp`. `HooksInv` adds, for each commit,

* `RowFollows`, `LocksStand`: its row and its locks are what its step says;
* `QueueStands`: the budgets it has still to lock ascend from those it holds, from which follows that nobody waits in a circle;
* `NewsStands`, `FiredStands`: what it will log is new and of a budget it holds, and milestones are not skipped;
* `SteadyStands`: while only commits move a budget's total, the sum a hook evaluates is the one its own commit will make,
  although other rows become visible between its statements: whoever could add one waits for the lock;
* `AloneStands`: nobody else moves the goal of a contribution that meets no other.

**Cache**: `CopiesAreExplained`, `StaleStaysExplained`. `CacheInv` says of each cached total, and of each one a reader has computed
and not yet stored, that it is right unless it missed a change or an event that deletes it is on its way (`CopiesStand`).

### `DomainEventOutbox_proofs`

`TypeCorrect`, `ClaimsStayExact` with its parts `OneClaim` and `AttemptsExact`,
`EndedIsFinal`, `HandledOnce` with its part `AtLeastOnce`. The inductive `OInv` adds

* `ClaimIsCurrent`: while a claim is open its event is pending and has the attempts
  the claim read, because nobody else may write the row;
* `DecisionIsGrounded`: a decision in a worker's hands follows from what its consumer
  did and what the claim read;
* `FailureIsReal`, `AttemptsAreReal`: counted failures have happened.

That an event is handled once more for each lost claim at most is a matter of counting: `SuccessesAreCovered` says that
the successes of an event, with one still to come for each worker that holds it without an outcome, are at most the
claims lost and one more; each action moves one unit between these, and the open claim is only one.

### `NotificationPipeline_proofs`

**Pipeline** (over the proofs of the outbox): `ImplementsOutbox`, every step of the pipeline is a step of the
outbox it runs in or leaves it alone, so that all that is proved of the outbox holds here; `PipelineTypeCorrect`,
`EndedStaysAlone`, `MessagesStayCounted`, `DeliveryStaysRecorded`, `DispatchedStaysAccountedFor`, `NoDuplicateStays`. `PInv` adds

* `Linked`: how a row, its job, the processors at it and the gate that made it go together, state by state. Its part
  `SendsCounted` gives each message, each processor that may still make one and the mark of a failure a hand-out of the job
  of its own (`HandOuts`: tries, stalls, and the one under way or done);
* `Accounts`: what a gate that has gone through, or a row that is left, proves of its event;
* `NoRepeats`: the workers that go on without their claim (`Strays`) are no more than the claims lost, and, while the
  dedup query reads all rows, the notifications of an event with the gates that found none and are about to create one
  (`AtCreate`) are at most one more than that: the worker that holds the claim is only one, and a gate that looks after a
  row is written finds it.

**Reminders**: `RemindersStand`, `RemindersStayApart`. `RemindersInv` keeps what a scan about to record, and a gate about to write,
had seen when it looked: every earlier row of the kind is too old, came after the look, or lay behind as many as are read.

### `Bot_proofs`

**Commit lock**: `TypeCorrect`, `CommitsStayCounted`. That rows are at most one more than mishaps says
nothing of the calls still under way, and the key names no owner. The inductive `LockInv` adds

* `ChargesAreCovered`: the rows of a draft, the calls that may still insert or will release its key (`Charged`), and
  once more those that will release the key of a transaction they have made (`Doomed`), are together at most the mishaps,
  and one more while the key is there (`Allowance`): a call that claims is charged to the key it sets, and whoever
  deletes the key was charged for that;
* `NamedExists`: what a call or a key names has been inserted, and a call that has yet to insert has no row.

It needs no assumption on the constants: that the counted sets are finite is part of the invariant.

**Media**: `CardsStayOne`. Whoever has created the draft of a file is the only one to announce it (`AnnouncerStands`), since the
draft is created once.

**Dialogs**: `ConfirmedStaysOnce`, `BoundsStay`. `DialogsInv` says that until a session ends its version tells it from those
before (`SearchStands`), and that the record of a confirmed dialog is gone until the next begins (`LatestIsConfirmedOnce`).
`BoundsOrdered` adds that the bounds a handler has read are in order, so that what a tap writes back is, and an answer
is written only over the session it was checked against.

**Categories**: `CategoriesStayUsable`. The index keeps deprecated names too (`NamesStand`), and a row of a category no longer
in use was written late.

**Conversation**: `ConversationStands`, `ContextStaysUsable`, `DraftsStayWithTheConversation`, `WritesStayOverWhatWasSeen`,
`TapsStayOnWhatTheyShow`. `ConversationInv` adds

* `CallsStand`, `ContextStands`: what a call has read, evaluated and is about to write has what its handlers need;
* `VersionStands`: while Redis keeps the record, a call that expects its version expects the state it has evaluated;
* `AloneStands`: without overlap one call is under way, and it acts on the record it has read;
* `RolesStand`: every draft has one role for good: committed on the spot, to be confirmed or clarified, one of a batch, or between a question and its answer;
* `FreshStands`, `UndoneStands`, `CalmStands`: a draft just made is known to its call alone; a transaction undone has an
  abandoned draft or a call about to abandon it; and while nothing overlaps or dies, the draft in question is open.

**Extraction**: `RecordsStayAsTold`. `ExtractInv`: the draft behind a question is trusted in all that is not asked, and what is asked
is what it lacks.

**Menus**: `TapsStayUnderstood`. `MenusInv`: the chat holds only buttons some keyboard can offer, and every one of them is
understood, by cases on its prefix and verb.

### `Access_proofs`

**Lifecycle**: `TypeCorrect`, `DeletionsStayHonoured` with its parts `PurgesWereDue` and
`RequestsAreKept`. `IInv` adds

* `CallsAreRecent`: the clock is at most one tick ahead of a call;
* `ReactivationsCameFirst`: a reactivation under way over a row that is pending deletion began at most one tick after
  the request, because it has read the row before that; with the former, it cannot reach a user whose grace period is over;
* `TargetsAreDue`: whoever a scan still has to purge is due, was overtaken by a cancellation, or is purged already.

**Login**: `LoginInvariant`, `FailuresStayCounted`, `LocksAreHeld`, `SessionsEnd`. `LoginInv` adds

* `RequestsHaveBegun`: a request's time is not ahead of the clock. A failure is written only over the row its request has read,
  and a lock that still runs ran at the request's time too, so that the row is written back as it is (`LocksHold`);
* `AllStand`: a code step began before any session its challenge has opened by now, and consumes the challenge before it
  opens one; a request about to be admitted began within its session's lifetime and idle time, and before its end.

**Support**: `PowersStayGranted`, `RawDetailStaysElevated`. `SupportInv` relates requests, answers and the audit log one to one
(`RecordsStand`), and keeps that who approves is a super_admin still and who has passed the first guard is the agent of
her session, which is open or ended in between (`SupportVisitStands`).

**Tokens**: `TokensStand`, `ChainsStayOne`. `TokenInv` says that of a client's refresh tokens only the latest may still work
(`RowsAreChained`), and that while a refresh has used up its token and not yet written the next one, its client has none
that works and no other refresh does the same (`ExchangesStand`).

### Model-checked and not proved

The temporal properties under fairness (`EveryEventEnds`, `WorkIsTakenUp`, `BreakerRecovers`, `PurgeFinishes`), as the provers
have no ENABLED; with `BreakerRecovers`, all of `ProviderResilience`. Recursive operators and induction over data are outside the
provers used; the modules with theorems avoid both.

## 6. Disagreements

Six runs end in a counterexample, because a comment or test of the code says otherwise:

* **hooks_recross** (`AnsweredIsStored`): a threshold logged in this period is crossed
  again after a deletion or a raised limit. The unique violation is caught
  (`evaluate-budget-thresholds-on-expense-commit.ts:194`) inside the transaction it has
  aborted; the commit rolls back and create returns a row that does not exist. The
  comment takes the catch for the deduplication at work.
* **budget_rollover** (`DueRollsOver`): the job's update runs without a user context
  and the RLS extension refuses it (`prisma-budget.repository.ts:267`), run after run.
* **purge_stuck** (`ExpiredIsPurged`): no statement of the purge deletes support
  sessions or translations of custom categories, both of which refer to the user with
  ON DELETE RESTRICT; the scan throws at such a user and does not reach those after it
  (`purge-expired-accounts.use-case.ts:54`). Where a support session is what refers
  to the user, the audit entry that says the purge was executed has been written by then, and
  is written again by every scan.
* **buttons_fit** (`ButtonsFitTelegram`): the confirm button of a custom category's deletion needs 71 bytes, and
  Telegram takes 64 (`settings-keyboard.ts:255`; its spec demands the limit of the other buttons).
* **stale_taps** (`StaleTapsAreRejected`): wizard versions start at 1 again whenever the record was cleared, so
  a button of an old wizard may carry the current one's version (`telegram-bot.service.ts:1529`),
  although it is called "safely rejected as stale".
* **local_today** (`LocalTodayIsAccepted`): the repository validates the date once more against UTC
  (`prisma-transaction.repository.ts:137`), so for some hours a user east of it cannot record today.

Others are part of properties that pass, as the exceptions these name:

* a notification is lost when the gate fails between its row and its job
  (`notification-delivery.consumer.ts:277`): the retry takes its own row for a recent
  duplicate (`DispatchedIsAccountedFor`);
* two contributions that overlap may leave a milestone unfired that only their total
  reaches, until the next one (`evaluate-savings-goal-progress-on-contribution-commit.ts:168`;
  `LoneContributionCatchesUp`);
* the commit lock allows one more transaction per mishap (`CommitsAreCounted`);
* a restoration emits no event, so a cached report may miss it until it expires
  (`StaleIsExplained`);
* while updates overlap, an undo may act on a draft other than the one its button was
  drawn for (`TapsActOnWhatTheyShow`);
* a cancellation that straddles the deadline does not stop a purge under way
  (`PurgedWasDue`);
* an edit may give a transfer a currency other than its source account's, which
  `compute-account-balance.ts:52-56` relies on not to happen; net worth and cash flow then part
  (`AccountsHoldTogether`);
* a row restored, or edited by a call that had looked its category up before the deletion, has a deprecated
  category, which `category.repository.ts:67` rules out (`CategoriesAreUsable`);
* a handler of the loan wizard that stalls long enough for another dialog to reach the version it read confirms
  that one too (`ConfirmedOnce`); sessions of a search repeat versions likewise, so that a late answer may take a
  bound of a later session back (`BoundsAreNotLost`);
* a worker that goes on after losing its claim may make a second notification, as may a gate whose user has more rows than
  the dedup query reads (`NoDuplicateSideEffect`); after a stall `markFailed` may overwrite 'sent'
  (`prisma-notification.repository.ts:61-65`; `DeliveryAsRecorded`);
* two code steps with one login challenge that overlap both get a session (`SessionsComeAndGo`), and a raw-detail
  request may be let through as its session ends (`RawDetailIsElevated`);
* overlapping scans or gates remind twice, and a busy user's rows hide the earlier reminder
  (`RemindersKeepTheirDistance`);
* a photo or voice note whose run died between its draft and its card gets no card, because the retry finds
  the draft and stops; an unsure transcript ends in silence (`WorkIsTakenUp`).

Met while modelling, and in no property:

* Records: a debt, a transfer or a record of no financial kind is called ready and always refused at commit, a salary with
  an empty category too, which makes the comment at `compute-record-confidence.ts:66-71` ("provably
  unreachable") wrong. An answer is merged under the draft's old score, and only one field is ever
  asked for: a draft with two missing, or one downgraded to an unknown intent, cannot be completed.
* Reports: totals and breakdowns add amounts of all currencies as they stand, next to a cash flow that is
  converted. A report is several queries, one of them cached, so its parts may be of different moments and
  differ from the dashboard's. The comment on a trajectory's threshold says more than 10%, and "otherwise flat"
  (`generate-report.use-case.ts:719-724`); the comparison (`:769-772`) takes exactly 10% for a rise or a fall.
  `TrajectoriesCompareHalves` holds whichever of the two is meant.
* Reminders: the look-back of the producer includes its bound and that of the consumer is equally long, so a weekly
  reminder on time comes every eighth day, and one that jitter makes early is suppressed. A late scan swallows
  the reminder of the due date after that of the day before.
* Bot: Cancel on a receipt's card followed by Confirm commits it (`route-ocr-draft-callback.use-case.ts:46`);
  cancelling an account deletion leaves the flag that waits for DELETE; a settings toggle is read, then
  written; the name of a deleted category cannot be used again in that language.
* Providers: after the cooldown several calls probe at once (`circuit-breaker-llm-provider.ts:7` speaks of one),
  refused requests count as failures of the vendor, a late failure restarts the cooldown; the fallback decorators
  are composed nowhere.
* Access: a password reset lifts a lock set meanwhile; revoking a refresh token that was already rotated does
  not stop its successors.

## 7. Not modelled

* Wording, layout and languages of replies (`reply-messages.ts`), seeds, configuration, logging, tracing, the
  evaluation harness of the prompts: no state of the system.
* REST controllers: they call the use cases modelled; their guards are in `SupportSessions`, `AdminAccess` and `ApiTokens`.
* Decimal strings and exchange arithmetic to many digits: amounts are whole numbers. Rounding is modelled where a
  rule depends on it (interest of a loan).
* Free text: what grounding and the search match as substrings, tags and amount bounds of a search.
* The debt summary and the budget performance inside a report; `ReportFigures` compares trend halves of ranges
  of an even number of days.
* Profile and preferences: single-row writes; the toggle of a preference against the gate is in `NotificationPipeline`.
* PostgreSQL, Redis, BullMQ, Telegram and the vendors are modelled only in what the code relies on:
  conditional updates, locks, aborted transactions, key expiry, job retries and stalls,
  answers that get lost.

## 8. Plan

Built: every component with state of its own, and the proofs of its safety. What is left, in this order:

1. Abstract specifications of the outbox (a set of events, each handled at least once), of the commit lock (one
   transaction per draft while nothing goes wrong) and of a loan, with refinement mappings.
2. Two events at once through the gate and its delivery in one run, over larger queues.
3. `ConversationEngine` fed by `Extraction` instead of by `Classifications`, if the product stays within reach.
