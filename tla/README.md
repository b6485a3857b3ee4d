# HakiSense journal: a TLA+ model of its credits, reviews and journal

HakiSense is a trading journal with paid AI reviews: a FastAPI backend
(`backend/`) over Postgres, worker processes that run the reviews, a payment
provider that sells credits, and a React front end (`src/`). What can go wrong
in it, and what a unit test hardly reaches, is what several actors touch at
once: credits that are reserved, captured, returned and expire; reviews that
users stop and continue while workers run, crash and expire them; payments
whose notifications arrive twice, late or out of order; tabs that edit, import
and watch the same rows. This directory models those, checks them with TLC and
proves the most important of them with TLAPS.

Paths below are relative to the repository (`src/` of a definition's source).

## Inventory

| Component | State | Operations | Interacts with | What is hard | What makes it correct | Module |
|---|---|---|---|---|---|---|
| Wallet (`wallet.py`, `markets.month_key`) | `credit_wallets`: two buckets, month, spent; `wallet_entries`: the ledger | `append`, `get_wallet`, `spend`, `refund_spend`, `settle_reservations` | jobs, playbooks, recharges, administration, all under `lock_user` | month ends between reserve and settle; retried calls; several holds per job; debt after reversals | the ledger explains both buckets and the counter, keys post once, free credits are never minted, a charge fits its reservation | `Wallet` |
| Jobs (`jobs.py`) | `ai_jobs`, `job_queue` | `enqueue`, `continue_job`, `cancel_job`, `claim`, `pause_job`, `finish`, `finish_cancel`, `expire_stale` | wallet, workers | a stop or an expiry racing a worker; pause and continuation; three-transaction expiry | one worker per job, one active job per user, queue and status agree, finished is settled, a stop is honoured | `AIJobs` |
| Worker (`worker.py`) | what each process is doing | `run_one`, its heartbeat, `main` | jobs, runtime | an unlocked read and write at the start; crashes; shutdown | every row is dealt with | `AIJobs` |
| Runtime (`ai_runtime.py`) and workflow (`ai.py`) | `ai_calls`, the checkpoint | `active`, `checkpoint`, `prepare_call`, `record`, `call`; three nodes and a question to the user | provider, jobs | a stop or a crash between two transactions of one call; resuming from a checkpoint | what the provider bills is charged or refunded, no call is paid twice, planning leaves room for the answer | `AICalls` |
| Events (`jobs.py`, `AIWorkflow.tsx`, `aiStream.mjs`) | `ai_events`, the page's cursor | `stream_events`, `stream_snapshot`; the page's watches | jobs | reconnections, replays, a read of the job and its events in two statements, frames of a dropped watch | no event is lost or repeated, a watch ends | `EventStream` |
| Evidence (`ai_evidence.py`, `gather` and `write` of `ai.py`) | the artifacts of one answer | `select_cohort`, `read_rows`, `execute`, `answer_evidence` | the journal, which is being edited | two reads of one selection; fitting what was read into a context; notes that are read or not | rows are those asked for, coverage is what was sent | `Evidence` |
| Pricing (`ai_pricing.py`) | none | `charge`, `allowance` | jobs, runtime | two readings of one table | an allowance never costs more than its credits | `Pricing` |
| Recharges (`recharges.py`, `payments.py`, `billing.py`, `reconcile_payments.py`) | `credit_purchases`, `purchase_index`, `webhook_events`; the provider's orders | `checkout`, `verify_payment`, `settle`, `reconcile_purchase`, `cancel`, webhooks, cron | wallet, provider | lost responses, stale fetches, late captures, out-of-order refunds and disputes | credits follow the payment, one order and one pending purchase, the offer is used once | `Recharge` |
| Administration (`admin.py`, `runtime_settings.py`) | members, users, audit, tasks, packs, models, routes, settings | `mutate` and its eight kinds of change; `checkout_blockers`, `routing` | every reader of settings, sign-in | two editors at once; a repeated request; owners who demote each other | an owner remains who can sign in, enabled routes work, nobody overwrites a row unseen | `Admin` |
| Workspace (`entitlements.py`, `preferences.py`, part of `journal_routes.py`) | profile, accounts, preferences | `provision`, `workspace`, accounts and preferences | trades | a new user's first pages in two tabs; a deletion that sees too little | a page opens, with one account given | `Workspace` |
| Journal (`journal_routes.py`, `importer.py`) | trades, notes, playbooks | create, edit, delete, AI notes, import, playbooks | the user's lock, held by some | reads and writes of one request with others between them | nothing is imported twice, notes keep drafts that the edit form has shown, trades keep their rules | `Journal` |
| Onboarding tour (`onboarding.py`, `Onboarding.tsx`) | one record | `transition`; a tab's saves and background reads | none | answers that overtake each other | a press is applied to the step that is shown | `Tour` |
| Practice (`simulator.py`, part of `journal_routes.py`) | one session | `step`, open, bracket, close, export | journal | gaps, stop and target in one candle; repeated exports | fills are not flattering, each trade is exported once | `Practice` |
| Analytics (`analytics.py`) | none | `enrich`, `statistics`, `group_rows`, `coach_checks` | journal, evidence | folds over sorted trades, partial and blank ones among them | reports agree with each other and with their names | `Reports` |
| Authentication, limits, schema, wiring | profiles, rate buckets | `require_user`, `rate_limit` | all | | | in part |

`PROJECT.json` lists every component with what is modelled of it, and every
hazard at its line with the properties that cover it.

How the parts meet. A review reserves credits in the wallet and is queued
(`jobs`), a worker claims it and runs the workflow (`ai`), which reads evidence
and makes paid calls through the runtime, each step leaving events that a page
watches; the settlement captures what `ai_pricing` makes of the tokens and
returns the rest to the wallet. Recharges and administrators change the same
wallet. Apart from `AIJobs` and `Wallet`, which meet in `Authorization`, the
components share rows only through the user's lock or not at all, so each is
modelled by itself with the others as its environment: `Evidence` has the
journal's edits in it, `AICalls` the user's stops and another process's expiry,
`Journal` the reviews that add notes.

## Modules

| Module | Models |
|---|---|
| `Authorization` | What credits promise about a job: it is charged at most once, and no more than had been authorized by then. `Wallet` and `AIJobs` implement it. |
| `Entitlement` | What recharges promise about a payment: what is applied of it moves forward, and never ahead of the provider. `Recharge` implements it. |
| `Wallet`, `AIJobs`, `AICalls`, `EventStream`, `Evidence`, `Pricing`, `Recharge`, `Admin`, `Workspace`, `Journal`, `Tour`, `Practice`, `Reports` | The components, as in the inventory. |
| `Services` | The ten components that share no state in what is modelled of them, side by side, each with constants and assumptions of its own. |
| `MCWallet`, `MCAIJobs`, `MCRecharge`, `MCServices` | Small instances for TLC. |
| `WalletProofs`, `AIJobsProofs`, `RechargeProofs` | Proofs about those components. |
| `AICallsProofs`, `PagesProofs`, `JournalProofs` | Proofs about the components of `Services`: the calls of a review, prices and evidence; the event stream, the tour and administration; the workspace, the journal and practice sessions. |
| `ServicesProofs` | Proofs about reports, and that all ten components are of their types; it extends the three above. |
| `SumTheorems` | Sums over finite sets, by parts and in order, and induction over finite sets and over the turns of a loop: what the proofs about ledgers, receipts and reports need. |

The granularity is the same everywhere: an action is one database transaction,
or one request to an external service. A request whose transaction holds the
user's lock from its first read to its commit is one action; one that does not
is an action for each statement that others may come between. An exception
before the commit rolls the transaction back, and is a disabled action unless
what follows it matters.

### Wallet

Every function of `wallet.py` runs under the lock on the user's profile row and
inside its caller's transaction, so a caller is one action. Two variables:
`clock`, the month `month_key()` returns, and `wallet`, the row with its ledger.
The functions of `wallet.py` are operators on the wallet (`PostWith` is `append`,
`GetWallet` is `get_wallet`, and so on); each action first applies `GetWallet`,
which closes a month that is over, under whatever allowance the settings hold at
that moment. Event keys such as `reserve:<job>:<revision>` are records. `revision`
and `sequence` are the length of and the position in the ledger.

| Action | Code |
|---|---|
| `Tick` | the month ends |
| `Visit` | `estimate`, `snapshot` |
| `CreatePlaybook` | `journal_routes.create_record` |
| `Reserve`, `Extend` | `jobs.enqueue`, `jobs.continue_job` |
| `SettleReservations` | `jobs.finish`, `jobs.cancel_settlement` |
| `RefundSpend` | `jobs.finish` with an error, for a job of the legacy price list |
| `SettlePurchase` | `recharges.settle`: a purchase moves to the credits it should stand at |
| `GrantCredits`, `WithdrawCredits` | `admin.adjust_credits` |

The callers are deliberately free: a job may be extended after it was settled,
because the lifecycle allows it (see *Disagreements*), and settlements and
requests may repeat.

### AIJobs and AICalls

`enqueue`, `continue_job`, `cancel_job`, `pause_job`, `finish` and
`finish_cancel` hold the locks on the user and the job from their first read to
their commit. The start of `run_one` does not lock: it reads the row and later
updates `status` and `heartbeat_at`, so it is two actions, `StartRead` and
`StartWrite`, with anything in between. `expire_stale` is `Sweep` (the rows),
`SweepRead` (a heartbeat) and `SweepFinish`. In `AIJobs` the workflow is what it
does to the job: it records usage, it beats, and it leaves with one of
`run_one`'s outcomes (`Answer`, `Ask`, `Stop`, `Fail`). Time is two facts that
may become true at any moment: a heartbeat is more than three minutes old
(`Lapse`), a row is past its three or fifteen minutes (`Age`). `continue_job`
for a pause that is not a clarification exists for rows of an older version
only, and is modelled as a continuation.

`AICalls` opens that workflow for one job and one worker: the checkpoint before
a node (`Enter`), the node, the checkpoint after it (`Exit`), and the one that
keeps the counter of a workflow that asks (`Asked`); a paid call from its
admission by the allowance (`Admit`), through `prepare_call`'s look at the job
(`Check`) and its insertion a transaction later (`Insert`), the provider's
answer (`Correct`, `Open`, `Identify`, `Text`, `End`, `Fetch`), to the receipt
(`Record`). The user may stop, another process may expire the job, and the
worker may crash between any two. `opened` and `late` are what the provider
would bill for. Races of an expiry or a stop with `run_one`'s unlocked write are
`AIJobs`'; `PaidIsCharged` is about what the job's own record says, and a
receipt that is recorded after the job failed touches only a job that was
refunded. The text of prompts is left out.

### EventStream

Events are their sequence numbers. A poll of the server reads the job's row
(`Poll`) and the events after the cursor in a second statement, which sees a
later commit. Frames arrive in order; the connection may be cut after any. The
page may begin a watch while another's frames are arriving; a watch aborts the
one before it, replays from the first event or goes on at the shared cursor,
reconnects up to four times, and takes the answer when the final snapshot comes.

### Recharge

A call is a request, a webhook delivery or the scheduled pass; it goes from
transaction to request to transaction (`call[c].at`), and others come between.
`reconcile_purchase` fetches the order, the payment and the dispute one after
the other, and settles only if the purchase is still what it read (`Current`).
The provider loses requests and responses, delivers notifications late, again or
never, and knows of payments, refunds and disputes before the server does.
Identity, amount and currency are compared with what the server itself sent, and
signatures are not modelled.

### Admin, Workspace, Journal

`Admin`: a change goes from the editor's reads, first the revision and then the
rows, through the opening of the session to `Mutate`, the one transaction of
`mutate`, and may be repeated when its answer is lost. Every kind of change is
there with the conditions its handler states (`StaffMayBe`, `UserMayBe`,
`ModelMayBe`, `RouteMayBe`, `SettingsMayBe`); names, prices and limits are not.
Blank keys and texts of the environment are the constant `Configured`.

`Workspace`: `provision` looks for the profile without a lock, then with it;
`workspace` reads preferences and accounts in two statements; accounts may be
deleted and trades added in between. A transaction that holds the profile's lock
is `owner`.

`Journal`: an edit begins on the page. `OpenForm` takes the notes that the page
has, and `Load` sends them back, or what the user has typed: the form of
`Journal.tsx` sends every field (lines 40-44). The server loads the trade, works the new values
out and (`Save`) writes the columns that differ from what it loaded. So a form that was opened
before a draft was appended has old notes: saved after it, it writes over
the draft, though the user changed another field. `kept` is the set of the
drafts that this has not happened to, and that no user has written over
(`Spared`); a form that is loaded before the append commits leaves the notes
column alone. Appends of a review's draft lock the row and compare the notes
with those of a page, which may be as old as any form that is open (`Pages`);
imports and creations lock the user. Fingerprints are identities, rules the
version of a playbook, notes sequences of drafts.

### Tour, Practice, Reports, Evidence, Pricing

`Tour`: a tab's save may be given up and arrive later (`stray`), its answer may
be overtaken by a background read. `Practice`: candles ahead are chosen when the
replay comes to them; a request for several candles is as many steps. `Reports`
is stateless in the code and a function here; its state is the list of trades, so
that properties can compare reports before and after a trade is closed. A
selection is the set of its trades' places in that list; the loop of
`statistics` goes over them in the order of their exits (`ByExit`), as a
recursive function of the number of turns.
`Evidence`: one filter, one check and three kinds of request stand for the
others; the journal is edited between its reads. A selection is a set of trades,
which are numbered in the order of their entries; the search for the largest
excerpts that fit is the code's, turn by turn (`Search`). A question may ask for
a number of trades by itself, or for a review in words, which binds the plan (`Numbered`); or be for the
note of one trade, which replaces it (`Bound`). A review's records are read with
their notes, a calculation's only where the plan says so (`Noted`); without
them a row takes no more than itself, and there is nothing to clip. `Pricing` has the code's own table.

### Seeded faults

Definitions introduced by a comment `Seeded fault` are not used by the
specification. Each is a plausible bug in the operator that follows it, and
`PROJECT.json` (`mutants`) names the property TLC finds violated when it takes
that operator's place: no property listed below holds vacuously.

## What is checked

| Run | Instance | Shows |
|---|---|---|
| `wallet_jobs` | a job and a legacy one, a purchase, a key, an allowance that changes, amounts of 1 and 2, three months, 5 entries before the last operation | `TypeOK`, `LedgerChains`, `FreeNeverMinted`, `SettlementConserves`, `KeysPostedOnce`, `LedgerExplainsWallet`, `DebtIsReversals`, `RolloverSparesPurchased`; `Wallet` implements `Authorization` |
| `jobs_safety` | two jobs, two workers, 2 credits, one continuation each, no crash | the safety of the lifecycle: `OneWorkerPerJob`, `QueueMatchesStatus`, `OneActiveJob`, `StopIsHonoured`, `SettlementFits`, `FinishedIsSettled` |
| `jobs_charges` | one job, two workers, 3 credits, two continuations, two crashes | `AIJobs` implements `Authorization`; `QueueDrains`, under fairness |
| `recharge_safety` | two introductory purchases, one possibly a link of the old kind, two calls | `OnePending`, `OneOrder`, `IntroOnce`, `LedgerMatches`, `RefundsTakeTheirShare`, `PaidStays` |
| `recharge_cron` | one purchase, the scheduled pass and a call | `Recharge` implements `Entitlement`; `Mirrored`, under fairness, with every notification of the payment lost |
| `services` | one of ten components, chosen by the initial state | see below |
| `jobs_final`, `jobs_released`, `jobs_abandoned`, `recharge_cancel`, `journal_deleted`, `evidence_checked` | | see *Disagreements* |

`services` checks, of each component, the property of its purpose:

| Component | Instance | Properties |
|---|---|---|
| `AICalls` | an allowance of 3 and 4 units, one continuation | `PaidIsCharged`, `CallsAreSound`: no row is found where a call begins, a stop lets one call through at most, the answer has room |
| `EventStream` | two watches of two connections, batches of one, three events | `PageIsComplete`; `WatchEnds`, under fairness |
| `Admin` | two users, two models, two changes | `AdministrationServes`, `ChangesAreInformed` |
| `Workspace` | three requests, two accounts | `WorkspaceOpens` |
| `Journal` | three requests, forms among them, two open at once, a file with a duplicate and an unreadable row | `NothingIsLost`, `HistoryIsKept` |
| `Tour` | two tabs, two steps, two transitions before the last press, one stray save | `TourIsShared` |
| `Practice` | prices 1 to 3, two candles, two positions | `PracticeIsHonest` |
| `Reports` | three trades of two lots, two days, two setups, one revision | `ReportIsRight` |
| `Evidence` | three trades with notes of 1, 2 and 4, a check after the first of a day, samples of 2, four sizes of the context, one edit; records with and without notes, trades named by the plan, a question for one trade, for a review, for the note of a trade | `EvidenceIsHonest` |
| `Pricing` | every ceiling, calls at and above the edges of a bucket | `PriceFits` |

They share no state in what is modelled of them, so exploring them side by side
would multiply their states and show nothing more of any: `service` names the
one that moves, and `MCInit` leaves the others in one of their initial states.
`Services` itself, which the proofs are about, lets them begin in any. Deadlock is not checked there, since most of these components
really stop (an answer is written, a replay is over, the requests of the bound
have been made); everywhere else it is.

Why the bounds are enough. A wallet of 2 free credits and amounts of 1 and 2 has
every split between the buckets; two holds of one job in different months need
four entries, two rollovers and a settlement; three months let a hold outlive
two month ends. Two workers make every race of the lifecycle (a worker against
another, against the other's sweep, against the user); a second job is what a
worker's late write can conflict with. Two calls of a recharge overlap in every
order, and a third adds only another of the same; refunds of a price of 2 and 3
credits make a reversal that is rounded. One continuation is enough for a call
to meet the row of an earlier round. Batches of one make every read of events a
partial one, and two watches every overlap of one with the next. Two changes by
two owners are what they can do to each other at once. A stray save and two tabs
make every overtaking. A candle over three prices may open past, reach or touch
both levels. Three trades are needed for a peak, a fall and a new streak; a
sample of 2 of 3 leaves one out. The proofs remove the bounds where there are
any.

In `jobs_safety` jobs and workers are symmetric, in `recharge_safety` the calls;
no other run uses symmetry, and no run of a liveness property.

**Fairness.** `AIJobs`: `main` calls `run_one` and `expire_stale` for ever, which
makes a claim by an idle worker, the sweep and its steps weakly fair; database
calls return or raise, so the steps of `run_one` are; a workflow ends within its
1800 seconds, so leaving it is; clocks run, so a row ages, and a heartbeat lapses
once no worker is on the job. Users, provider calls, heartbeats and crashes are
not assumed, and weak fairness suffices. `Recharge` (`CronFairness`): requests
have timeouts and transactions end, so calls end; the scheduled pass takes the
purchase checked longest ago and puts it last even when the check fails, so it
comes to each again and again, and the provider answers some of the times it is
asked: strong fairness, as an answer is possible only while the call is there.
Webhooks are not assumed. `CancelFairness` is the same of a user who goes on
cancelling. `EventStream`: the generator of an open stream polls on and the
page's promises resolve; neither connections that hold nor a user are assumed.


## What is proved

For any values of the constants, under the named assumptions only, which say
that bounds, amounts and prices are naturals and that the values standing for
"none" are not members of the sets beside them.

`AIJobsProofs`, for any sets of jobs and workers (`AIJobsAssumption`):

| Theorem | States |
|---|---|
| `Invariance` | `Spec => []Inv` |
| `TypeCorrect`, `ClaimsAreExclusive`, `QueueIsAccurate`, `ActiveJobsAreOne`, `StopsAreHonoured`, `SettlementsFit`, `FinishSettles` | the type invariant, and the invariants of run `jobs_safety` |
| `ImplementsAuthorization` | `Spec => ChargesAsAuthorized`, the refinement of run `jobs_charges` |

The safety invariants are not inductive by themselves. That a job has one
worker rests on its row not waiting while somebody owns it (`OwnedIsStarted`);
that again on the queue agreeing with the status, and on a paused job having no
owner, because `continue_job` puts a paused job back into the queue. That a
settlement fits (`UsageFits`) rests on the reservation a worker's Runtime was
made with being the current one (`SeenIsCurrent`), which holds since a
reservation grows only while the job is paused. That a charge is within a
positive authorization rests on whatever a worker runs or a sweep expires having
been enqueued (`WorkersHoldRealJobs`, `EnqueuedIsReserved`). `Inv` is the
conjunction; one lemma for each action shows that it is preserved, `NextInv`
puts them together, and each theorem follows from `Invariance`. For the
refinement, `SettleCharges` shows that a settlement of an enqueued job is a
`Charge` or leaves both variables alone, `ReservingAuthorizes` that a
reservation is an `Authorize` or a stutter; every other step stutters.

`WalletProofs`, for any jobs, purchases, requests, amounts and allowances
(`WalletAssumption`):

| Theorem | States |
|---|---|
| `Invariance` | `Spec => []Inv` |
| `TypeCorrect`, `EventsPostOnce`, `LedgerIsChained` | `TypeOK` (so the free bucket is never negative), `KeysPostedOnce`, `LedgerChains` |
| `LedgerExplains` | `LedgerExplainsWallet`: the deltas of the ledger are the two buckets, and `spent` is what playbooks cost, jobs hold and settlements charged, and never negative |
| `NothingMinted`, `SettlementsConserve`, `DebtsAreReversals` | `FreeNeverMinted`, `SettlementConserves`, `DebtIsReversals` |
| `RolloverIsFree` | `RolloverSparesPurchased`, an action property |
| `ImplementsAuthorization` | `Spec => ChargesAsAuthorized`, the refinement of run `wallet_jobs` |

`Inv` has three parts. `Sound` is what does not depend on the month: types,
distinct keys, chained balances, the two sums, the debt, and that every
settlement so far was fair to what its job held. `Monthly` is the current month:
no entry is of a later one, and the free bucket with what open jobs may give back
to it stays within the allocation. `Spending` is the counter: it has at
least what open jobs hold, which is why no release makes it negative. The first
part needs `HasShape`, that an entry of kind `reserve` takes and does not give:
without it nothing says that what a refund computes from an old entry leaves the
free bucket nonnegative, that is, that `append` never refuses it.

The proof goes along the code. `append` keeps each part when the entry it posts
is `Lawful`; the entries of `get_wallet` are not, and `Rollover` is shown to keep
each part by itself. The loop of `settle_reservations`, which releases a job's
holds one at a time with what is left of the charge, is a recursive function on
the positions of the ledger: with `LoopInduction` of `SumTheorems`, what it has
given back is in balance with the holds it has passed at every one of them. Then every operation `Answers` with the wallet it read or with one
lawful entry more. For the refinement, a reservation that is posted
authorizes its amount (`HoldAuthorizes`), a settlement or a refund that is posted charges
(`ClosingCharges`), and everything else is `Silent`.

`SumTheorems` carries the inductions. The library's induction theorems take the
induction hypothesis as an operator, which none of the provers can instantiate;
here it is a set (`SmallestSubset`: a nonempty set of subsets of a finite set has
a smallest member), so that a counterexample is taken as small as possible.

`RechargeProofs`, for any purchases, prices, credits, introductory packs,
disputable payments and number of calls (`RechargeAssumption`):

| Theorem | States |
|---|---|
| `Invariance` | `Spec => []Inv` |
| `TypeCorrect` | no variable leaves its type, and no purchase grants more than it offered |
| `OnePendingAlways`, `OneOrderAlways`, `IntroOnceAlways`, `LedgerMatchesAlways`, `RefundsTakeTheirShareAlways` | the invariants of run `recharge_safety` |
| `PaidStaysAlways` | its action property |
| `ImplementsEntitlement` | `Spec => FollowsPayment`, the refinement of run `recharge_cron` |

`Inv` is a chain from the provider to the ledger. The provider only moves on
(`Moves`); what a call has fetched is never ahead of it (`Follows`), though it may
be long out of date; a row is never ahead of what was fetched (`Behind`), shows
what it is entitled to (`Shown`), and its ledger comes to the same (`Ledgered`).
Two conjuncts make that inductive. A call that is still `current` has fetched a
dispute no older than the row's: this is what the version check of
`reconcile_purchase` is for, since `settle` takes the larger refund but simply
overwrites the dispute. And the last version that was posted is at most the
row's, so the key of the next entry is new. The offer needs that a purchase that
let go of it can no longer be paid (`Offered`): `settle` releases it only for an
order that was fetched as closed, and a closed order stays closed. One order rests on
`CreatingOnce`, and that on `prepare` finding no other pending purchase. What is
left after refunds is arithmetic (`Ceiling`, `ReversalShare`): the shares add up
for every price, because reversals are computed from the total that was
refunded and never summed.

The other four prove properties of `Services` under its assumptions, each of
which is about one component.

| Module | Theorems | State | Assumption |
|---|---|---|---|
| `AICallsProofs` | `PaidAlways`, `SoundAlways` | `PaidIsCharged`, `CallsAreSound` | `CallsAssumption`: every bucket's output leaves room for an answer, as in the table of `ai_pricing` |
| | `AllowanceFits`, `PriceAlwaysFits` | `PriceFits` | `PricingAssumption` |
| | `EvidenceAlwaysHonest` | `EvidenceIsHonest` | `EvidenceAssumption`: a note has a length, a number that is asked for is not zero, and the planner's answer, which names trades that there are, does not say what the question asked for |
| `PagesProofs` | `PageAlwaysComplete` | `PageIsComplete` | `StreamAssumption`: a batch and a review have an event, a watch tries at least once |
| | `TourAlwaysShared` | `TourIsShared` | `TourAssumption` |
| | `AdministrationAlwaysServes`, `ChangesAlwaysInformed` | `AdministrationServes`, `ChangesAreInformed` | `AdminAssumption`: grants are roles, an owner's among them, finitely many users, the founder has signed in, there is a model |
| `JournalProofs` | `WorkspaceAlwaysOpens` | `WorkspaceOpens` | `DeskAssumption`: what stands for nothing is no account |
| | `NothingEverLost`, `HistoryAlwaysKept` | `NothingIsLost`, `HistoryIsKept` | `JournalAssumption`: a file is rows, a playbook has a version |
| | `PracticeAlwaysHonest` | `PracticeIsHonest` | `PracticeAssumption`: fees are not negative |
| `ServicesProofs` | `ReportAlwaysRight` | `ReportIsRight` | `ReportsAssumption`: a quantity is positive, a direction is 1 or -1, a day has moments, finitely many setups |
| | `AlwaysTyped` | `TypeOK` | all of these |

`AICallsProofs`. `Lifecycle` says which places of the worker go with which status
of the job, `Placed` which node and round it is at. From these, `Rows` says
which calls can have a row by then: this is what makes the next key new, and it
is inductive only with the counter that the checkpoint keeps through a pause.
`Paid` says that a call the provider has begun to answer has its receipt, unless
the worker is just at it; `Stopped` that at most the call in progress passed a stop;
`Spare` and `Ceilings` that the output reserved for planning is never more than
leaves the answer its floor. What has been used is a sum over the receipts.

For prices, the bucket of a ceiling covers what its allowance admits
(`LargestBucket`), and the cheapest bucket that covers something costs no more
than any other that does (`CheapestCosts`).

For evidence, what the rows were asked to be has to survive a journal that is
edited between the two reads of a selection. What the first has chosen is no more
than the number asked for (`Few`), the second only takes from it, and applies
the filters to what it finds (`KeptIsAsked`); that a cohort was chosen before
anything is read, and everything is read before the answer is written, is
`Gathered`. For coverage, whatever may be sent is `Truthful`: its totals are
those of all the rows, rows are dropped from samples and summaries only,
nothing is called whole that was clipped, and the notes are there if they were asked for. Everything the code tries is
(`WriteIsTruthful`), and the search for the largest excerpts ends at a size that
fits, given that the smallest does (`SearchFits`).

`PagesProofs`. `Connected` says that a watch that does not read has no frames on
their way; `Following` that for the watch that is in charge the i-th frame on the wire is
event `cursor + i`, or the snapshot, which is the last and was read when the
events it counts had been sent. So reading the job before its events is
what the proof of `ReadEvents` turns on. For the tour, `TabBehind` says that what
a tab shows, and what is on its way to it, is no newer than the server's and the
same if it is of the same revision; a stray save is refused by its revision, and its
answer reaches nobody. In administration, `Staffed` strengthens "an owner can act" to every active
member being able to sign in, since any owner may become the last one; `Current` says
that what an editor has read of the catalogue is still there while the product's
revision is the one it read, which holds because the revision is read first.

`JournalProofs`. `Informed` says that what a request has seen of the provisioning
is still so when it acts, because it has the profile's lock or because nobody
takes the preferences away. `Loaded` says the same of the journal, for the part
that a request will write: the notes that a review adds to are those that it
read, the rows of an import are still new; it rests on `Alone`, that no two
imports are open, nor two reviews on one trade. An edit is different: it may have
loaded a row that has changed since, and is only known to write a column that
differs from that row, and that its notes are the user's or have the drafts that
its form has shown (`EditLoaded`, `FormShown`): those are what `Spared` keeps of a
trade whose notes it writes. `Whole` says that a trade has the rules of the playbook it names.
`PracticeInv` says that the journal has the closed trades up to the last export
and that the balance is the sum of all.

`ServicesProofs`. The invariant of a report is only that its trades are accepted;
the rest is about functions of them, for every list of accepted trades and every
selection. The order by exit has each realized trade once (`ByExitSorts`). The
loop of `statistics` is followed along it: after `k` turns it has the
number, the sum, the peak, the deepest fall and the streak of the first `k`
(`StatisticsRun`, `FallIsDeepest`, `RunsAreLongest`), so at the end it has those of all
(`StatisticsAre`), with a sum in order being the sum over the set (`SumInOrder`).
The curve, which is computed day by day from sums over sets, meets the loop at
the last trade of each day (`LastOfDay`, `CurveAgrees`), and groups add up to
their whole because they part it (`SumPartition`).

`AlwaysTyped` puts the types of the ten together. Four of the invariants above say
too little for it, since their properties do not depend on who holds a lock or how far a
bound is away: `LockHeld` (nobody but a request has the profile's lock),
`CursorInside` (a replay stays within its candles), `BegunWithin` (requests are
begun up to their bound) and `StreamBounds` (what the server tells of a review is
within its events) are proved along with them.

## What is only model-checked

Liveness (`QueueDrains`, `Mirrored`, `WatchEnds`) is out of the prover's reach,
which has no rules for `ENABLED`. Every type invariant, safety invariant, action
property and refinement of the runs that pass has a theorem. The runs remain
worth having beside them: on small instances they reach the cases that the
theorems speak of.

## Disagreements

Six runs find that the code does not do what a document, a comment or a test
says.

Three start the same way: `run_one` (`worker.py:41-46`) reads a queued job, the
user stops it or a sweep expires it, which settles it and deletes its queue row,
and then `run_one`'s commit writes `running` over the terminal status.

- `jobs_final` (`TerminalIsFinal`): the job is finished a second time, or paused, by a stale worker,
  which the planning document rules out. The settlement itself is not repeated,
  because its key is in the ledger: credits stay right (`ChargesAsAuthorized`
  holds), the status, the recorded credits and the delivered answer do not.
- `jobs_released` (`NothingReservedAfterSettlement`): if that job asks a question and the user answers with a larger
  limit, the extension is reserved and never captured or released.
- `jobs_abandoned` (`AbandonedJobsEnd`): if its worker dies, the job stays running: without a queue
  row the sweep does not see it, and a stop only flags it. The user's next review
  is refused as long as it is there.

The others:

- `recharge_cancel` (`CancelCloses`): if the request for an order never reaches the provider, the
  purchase stays `creating` or `uncertain`. A retry looks for the order and does
  not make it, which is what keeps `OneOrder`; a cancellation asks the provider
  first and is refused with it. Nobody can close the purchase, nor begin one of another
  pack. `docs/RAZORPAY_CHECKOUT.md:45` says that cancelling closes it.
- `journal_deleted` (`DeletedStaysDeleted`): `update_record` reads a playbook and writes its whole data
  without a lock, so a deletion in between, which is a mark in that data, is
  overwritten (`docs/PAY_AS_YOU_GO.md:26`, `tests/test_wallet.py:138-139`).
- `evidence_checked` (`CheckedBeforeSelected`): `execute` computes the checks of a day again over the rows
  that were selected by them, so a trade that came after the fifth of its day is
  no longer after the fifth of anything, and is dropped. The comment at
  `ai_evidence.py:80` says that checks are evaluated before the selection.

## What the properties do not say

- `NothingIsLost` is not "a draft stays until the user removes it". A form that
  was opened before an append and is loaded after it writes old notes
  (`Journal.tsx:44,47`, `journal_routes.py:124-125`); `update_trade` compares nothing
  with what the form was opened on, as `append_ai_note` does
  (`journal_routes.py:151`). No document promises more.
- `EvidenceIsHonest` says of a calculation's records that they were sent, not
  that their notes were read: `records_inspected` counts every complete artifact
  (`ai.py:59-63`), with notes or without, although
  `docs/ai-workflow-redesign/planning/README.md:46` would have records whose
  numbers took part in a calculation told apart from records whose text was inspected.
- `FinishedIsSettled` says that a finished review has a settlement; credits that
  are reserved for it later are the subject of `jobs_released`.
- The sums over groups are those of setups. A trade may have several tags, and
  counts in each of their groups.

## Not modelled, and why

- Prompts, texts, layout, logging and formatting, which carry no state. In the
  front end, everything but the watch of a review, the tour and the notes of the edit form; among it the answer
  to a stop, which may replace a newer status on the page (`AIWorkflow.tsx:74`).
- `scripts/`: generators of sample data, and checks that operators run.
- Rate and body limits: one atomic upsert, and a byte count.
- Tokens, signatures and row-level security: the work of external services and
  of the database. Migrations.
- Means, ratios and rounding of `analytics.py`, and coach checks that are filters.
- Rows one request overwrites and nothing else depends on: records other than
  playbooks, the dashboard, a profile's name, an account's details; lists,
  summaries, exports and backups, which only read.
- Clocks of hosts that disagree: `month_key` is one clock (`wallet.py:35`).
- How much of an excerpt fits into a context: a shorter one is not always
  smaller once it is encoded, so that `ai_evidence.py:270` finds the largest
  that fits is not claimed; `Evidence` counts a note as its length.

## What is left

- `Wallet` and `AIJobs` in one module, so that a review's credits are those of a
  wallet that recharges and administrators change at the same time.
