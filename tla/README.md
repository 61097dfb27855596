# bxb in TLA+

bxb is a usage-based billing system: a FastAPI process serves the API and the
customer portal, an arq worker runs cron and queued jobs, both over one
PostgreSQL database; payment providers (Stripe and others) answer by webhooks. A
React console for operators and a portal for customers, one application in the
browser (`src/frontend/src`), show and change all of it. This directory models

* of the backend (`src/backend/app`), the parts where the order of commits,
  webhooks, retries and crashes decides whether money is accounted for;
* of the browser, every screen, form, list and button with data behind it, where
  the order of answers, clicks and other people's writes decides whether what
  the user sees and submits is so;

checks them with TLC and proves the cores with TLAPS.

## How the code runs, and what that means for the models

* **Every repository method commits on its own.** A handler that changes three
  rows is three transactions. A model therefore has one action per commit, and
  the program counter of a request (`req[s].pc`) is the name of the next
  repository or provider call. What a handler read before a commit and uses
  after it is carried in the request.
* **Handlers are coroutines that do not await between their commits**, so one
  API process runs one handler at a time; the Dockerfile starts one process.
  The worker is another process. `Servers` is a constant: properties that need
  a single process are run with one, the ones that do not with two, and the
  proofs hold for any number.
* **A handler may stop anywhere**: an exception, a deploy or a crash ends it
  with the commits it made. Nothing resumes it.
* **Providers redeliver webhooks** and send them in any order.
* **The browser is one process with many requests under way.** Every screen
  reads through `useQuery` and writes through `useMutation` of one `QueryClient`
  with default options (`main.tsx`): an answer is stale at once, a mount, a
  focus and an invalidation ask again, a failing read is repeated, a failing
  write is not. Requests pass each other, and a write's success is handled
  whether or not its screen is still there. The library is external; it is
  modelled from how the screens use it.
* **What differs from screen to screen is data**: the keys a mutation
  invalidates, when a form takes its values, which controls reset the page. So
  each screen is described once, in the vocabulary of `Screens`, and the four
  behaviours are modelled once and checked for every description.

## Components

| Component | State | Operations | Hard behaviour | What makes it correct |
|---|---|---|---|---|
| Invoice settlement (`routers/payments.py`, `routers/invoices.py`, `routers/portal.py`) | invoices, payments, invoice_settlements | finalize, void, pay, PUT, delete; manual payment, checkout, webhook, mark-paid, refund, retry, delete | handler = several commits; webhooks out of order and repeated; crash between settlement and status | PAID only when covered; drafts untouched; card charged once; closed is final; captured money is settled |
| Payment providers (`services/payment_provider.py`) | sessions, charges (external) | create session, charge, parse webhook | answer lost after the money moved; two events for one payment | every event finds its payment |
| Wallets (`services/wallet_service.py`) | wallets, wallet_transactions | create, top up, consume, transfer, terminate | ledger row and balance in separate commits; credits and cents at a rate | never overdrawn; nothing settled that was not taken; priority; balance = sum of the ledger |
| Idempotency (`core/idempotency.py`) | idempotency_records | check, execute, record, clean up | crash between effect and record; retry while the first runs | one effect per key, told answers are recorded and final |
| Outgoing webhooks (`services/webhook_service.py`) | webhooks, delivery attempts | send, deliver, retry by worker or hand | crash between increment and delivery; two retriers | delivered in the end; bounded retries |
| Subscription lifecycle (`services/subscription_lifecycle.py`, `worker.py`) | subscriptions, invoices, credit notes | create, activate, pause, resume, plan change, cancel, terminate; trial end, periodic invoices, pending downgrades | cron jobs against a clock; invoice and status in separate commits | each period billed once; a scheduled downgrade happens |
| Billing dates (`services/subscription_dates.py`) | none | billing period, trial end, proration | month lengths, rounding | periods tile time; prorated parts add up |
| Charge models (`services/charge_models`) | none | amount of a quantity | tier boundaries | agree with the definition of the model |
| Credit notes and refunds | credit_notes, payments | draft, finalize, apply, void, refund | void after use | no more credited than paid |
| Dunning, payment requests | payment_requests | create, pay | a request over invoices paid elsewhere | each invoice asked for once |
| Usage thresholds and alerts | thresholds, triggers | check after ingestion | concurrent checks | fired once per crossing |
| Events | events (PostgreSQL, ClickHouse) | ingest, batch | duplicate transaction ids, two stores | each event counted once |
| Catalogue, organizations, integrations, exports, dashboard | single rows | create, read, update, delete | none of note | - |
| Browser: API client (`lib/api.ts`) | none | one function per endpoint | what a call changes beyond its own rows | screens and client agree on what is read and written |
| Browser: screens and cache (`pages`, `components`, `main.tsx`) | cached answers, requests and calls under way | mount, focus, poll, invalidate, click, answer, lose, drop | late, lost and replaced answers; forgotten invalidations | never back to an older answer; read your own writes; catches up |
| Browser: forms (dialogs, form pages) | inputs, submissions | open, type, dismiss, submit, succeed, fail | inputs seeded too early, or kept for the next row; double submits | edits the row that was chosen, as last saved |
| Browser: lists (`TablePagination.tsx`) | page, size, filters | filter, turn, resize | totals that ignore filters; rows that leave | empty means none; every row has a page; a way back |
| Browser: offers and bulk actions | selection, calls | click, select, bulk | status moved since it was shown; second click | refused only if moved; nothing done twice |

Components call each other as follows: `finalize` calls the wallet service, the
provider and the webhook service; the worker calls the lifecycle, the webhook
and the usage services; the lifecycle creates invoices and credit notes; event
ingestion enqueues threshold and alert checks; the browser calls the routers and
learns of anything else only when it asks again. `PROJECT.json` lists every
component with what is and is not modelled, and every hazard at its line.

## Modules

| Module | Models | Runs |
|---|---|---|
| `InvoiceSettlement` | how an invoice gets paid, every handler commit by commit | `SettlementCrash`, `SettlementProcesses`, `SettledTwice` |
| `InvoiceLifecycle` | what an invoice is to everybody else: its status, its money, who answers for it | (implemented by `InvoiceSettlement`) |
| `InvoiceSettlementProofs` | its inductive invariant and theorems | (TLAPS) |
| `Subscriptions` | one subscription through its life, the worker's cron jobs, the invoices and credit notes of both | `SubscriptionTrial`, `SubscriptionPeriods` |
| `SubscriptionsProofs` | its types, what ended stays so, what is billed once or never, what a period adds up to | (TLAPS) |
| `Wallets` | the wallets of one customer | `WalletOperations` |
| `WalletsProofs` | their inductive invariants and theorems | (TLAPS) |
| `Idempotency` | requests with an Idempotency-Key | `IdempotencyKeys` |
| `IdempotencyProofs` | its inductive invariant and theorems | (TLAPS) |
| `UsageChecks` | events, the checks they enqueue, thresholds and alerts | `UsageChecks` |
| `UsageChecksProofs` | its inductive invariants and theorems | (TLAPS) |
| `Screens` | the vocabulary: queries, calls, forms, tables | |
| `ApiClient` | what each function of `lib/api.ts` reads and writes | |
| `CatalogueScreens`, `BillingScreens`, `CustomerScreens`, `OperationsScreens`, `PortalScreens` | the screens, forms, lists and offers of each area | |
| `StatusRules` | which statuses the server accepts an action in | |
| `Console` | all of them by name, the pairs of a call and a query it changes, and the exceptions | |
| `QueryCache` | the cache behind every screen | `QueryCache` |
| `ServerView` | what a reader of the cache may rely on | (refined by `QueryCache`) |
| `QueryCacheProofs` | the cache's inductive invariant, theorems and refinement | (TLAPS) |
| `FormState`, `Forms` | dialogs and pages of inputs: the state and its properties, and the actions | `Forms` |
| `Tables` | lists, filters and pages | `Tables` |
| `TablesProofs` | what holds of any lists and any rows | (TLAPS) |
| `Offers` | actions of rows and selections against `StatusRules` | `Offers` |
| `OffersProofs` | what holds of any rules and any rows; what holds of any `Forms` and any items | (TLAPS) |
| `MC...` | the small instances for TLC | |

The modules of the backend share no variables. `InvoiceSettlement` keeps the one wallet that
`finalize` consumes, as `Wallets` has it with one wallet; `Subscriptions` keeps
of an invoice only that it is open or closed, which is what crediting asks.

### InvoiceSettlement

The tables are functions: `invoice` (status and prepaid credit), `payment`
(status, invoice, amount, whether the checkout URL and the provider's id are
set), the settlements as sums (`settled`, of which `settledBy` a payment and
`fromWallet`), and the balance of the customer's `wallet`. The provider is
`session`, `captured` and the `events` on their way; it is external and does
what `StripeProvider` expects of it. `declared` and `crashes` are history.

Each endpoint is a first action that reads and checks (`RecordManual`,
`Checkout`, `Receive`, `MarkPaymentPaid`, `Refund`, `Retry`, `DeletePayment`,
`Finalize`, `BulkFinalize`, `DeclarePaid`, `Void`, `UpdateInvoice`,
`DeleteInvoice`) followed by one action per commit. A status that the code
checks on the row it has loaded and overwrites in a later transaction is checked
and overwritten in two steps. Deleted rows are statuses of their own; a write
that finds its invoice gone ends the handler (`InvoiceGone`). Amounts are small
numbers: nothing in these handlers depends on more than order and sums. A checkout
may be completed unpaid, and its money come or fail later (`CustomerWaits`): the
handler stores the provider's id and changes no status. A charge whose intent is
still processing is answered as failed (`payment_provider.py:285`) and may yet
bring its money in (`Charge`).

The decisions of the handlers (`Payable`, `Finalizable`, `FullySettled`, ...)
have names; next to some stands a `..Wrong` variant that is not used. It is the
mistake that shows that a property notices.

### Subscriptions

`sub` is the row, `invoices` and `notes` what it was billed and credited, `now`
today, and `proc` what the API processes and the worker are doing. Each handler
of `subscription_lifecycle.py` begins with an action that reads and checks
(`Activate`, `Pause`, `Resume`, `ChangePlan`, `ScheduleDowngrade`, `End`) and
goes on with the write (`WriteActivate`, `WriteChange`, `WriteEnd`, ...), the
credit note (`Credit`) and the invoice, which takes two steps: the number is
read (`Number`) and the row inserted (`Insert`), and the insert fails if another
process took the number. `TrialExpirations` reads the due subscriptions and
`WriteTrialEnd` handles one, from what was read. `CronJobs` runs the periodic
invoices and the pending downgrades, whose reads and writes do not interleave
with anything of their own. Invoice numbers start anew every day and are shared
by all invoices; only those of this subscription are modelled, so collisions
with other customers' invoices are not. Periods are `Period` days long and
prices per day, so that a prorated amount is price times days: months and the
rounding of amounts belong to the planned `BillingDates`. The days to come are
counted whole, as `(end - now).days` rounds down (`subscription_dates.py:225`):
the day on which a plan changes or a subscription ends is neither used nor left.

### Wallets

`wallet` holds the rows, `ledger` the sums of each wallet's inbound and outbound
transactions and of the settlements it paid, `proc` the operation of each
process. `WalletRepository` reads a row, adds to it in Python and writes the
result, so a write is based on the row as it was after the previous commit of
the same session (`snap`). Amounts are integers in units of the columns' last
decimal; dividing cents by the rate rounds to that decimal (`Rounded`). Wallet
ids are in the order of priority and creation. `overlap` remembers that two
operations ran at a time, for the properties that hold of one process only.

### Idempotency

`record` holds the row of each key (none, pending, answered), `rows` what the
endpoints have created, `proc` the request of each process and `told` the
replies that each client has received. A request passes `Receive` (the look-up),
`CreateRecord`, `Check` (the identifier is taken: 409), `Insert`, `Record` and
`Reply` or `Lose`; `Cleanup` deletes records. `Unique` says which things have a
unique identifier (customers, subscriptions, features, billing entities) and
which not (usage alerts). The method and the path are stored with the key and
never compared, so a request is a key and a thing, and one key of the instance
is used for two things.

### UsageChecks

One subscription and its customer's events, each priced at one: the usage of a
period is the number of events whose timestamp lies in it (`stamp`), counted in
ClickHouse where it is configured (`copied`, else `events`). `now` is the
billing period of today. A handler (`proc`) stores what is new of its request
(`Insert`), copies it (`Copy`), answers, and enqueues a check of thresholds and
one of alerts (`Enqueue`); `Reprocess` only enqueues. A worker (`run`) takes a
job (`Start`), which fixes the period; the job of the thresholds measures once
(`Measure`) and goes through them from the lowest (`CheckThreshold`,
`InsertCrossing`, `Announce`), the job of the alerts measures for each
(`CheckAlert`, `RecordTrigger`, `Announce`). A crossing is dated after the
measurement, so that one of a check that outlasts its period is a crossing of
the next (`at`). `crossed` counts the records of a threshold in each period,
`alert` has the times triggered, trigger rows and announcements of each alert.
`unheard` is history: the kinds of check that are not due, because the last one
was lost, or because what changed (a threshold added, a new period) enqueues
none. Whoever crashes or fails takes a place in `faults`; arq runs the job of a
crashed worker again, and a job that raised not.

### Screens and Console

A screen is a record of its queries and its calls. A query has its key (the
constant parts of `queryKey`), the resources its `queryFn` reads, how it is kept
fresh and whether it is always enabled; a call has the resources its
`mutationFn` writes, the keys its `onSuccess` invalidates and its traits (its
button is on a row; it is not disabled while pending; its success navigates
away). Which resources an API function reads and writes stands once, in
`ApiClient`, from the routers behind it. `Console` then *computes* the pairs of
a call and a mounted query whose answer it changes (`Affected`), so that a
mutation that forgets a key is found and not described.

What the code does leave out is listed there by name, each entry needed (without
it TLC finds a counterexample):

| Exception | Says |
|---|---|
| `LeftStale` | calls that change an answer on their own screen and do not refresh it (audit trails, search, next billing dates, depletion forecasts, ...) |
| `OfAnotherItem` | pairs that only share a table: creating an item leaves the answer about another one as it was |
| `SeededElsewhere` | dialogs mounted with their page and without a `key`: add-on, coupon, dunning campaign, customer (list page), wallet, usage alert, webhook endpoint, integration. Editing a row shows blanks or the values of the one before, and saving overwrites the row |
| `KeepsInputs` | forms whose inputs outlive the opening they were typed in |
| `SeededFromCache` | forms seeded once with the first answer, which may be an old one from the cache |
| `KeepsPage` | lists that stay on a later page when they are narrowed (coupons, fees, payments; customer events for the page size) |
| `Uncounted` | lists without `X-Total-Count`: rows after the first page cannot be reached (payment methods, audit logs) |
| `Trap` | the customer's events: their bar is hidden on an empty page |
| `DoneTwice` | duplicating a coupon, whose menu item stays enabled |

### QueryCache

One query and one call that changes its answer. The server's rows are a version
number, an answer is the version it was computed at. `requests` are the reads
under way, `current` the one whose answer counts; `calls` the writes. `told` is
the latest version a success told the user of, `promised` what `told` was at the
last mount, refetch or refresh, `asked` what it was at the last request. A mount
or an invalidation either starts a request (`Start`), which replaces the one
under way, or joins it (`Join`): an invalidation joins the very first request of
a query, as version 5.12 of the library does, and so may be answered with what
was there before it (`overtaken`).

### Forms, Tables, Offers

`Forms` has one form on a page of items: what its `inputs` started from (item
and version), for what the user typed over them, and whether that was submitted.
`Tables` has one list: the rows, the filters of the server and of the browser,
page, size and the last answer with its total, which the handlers count without
the filters. `Offers` has the rows of a kind, the status each has and the status
it was shown in, the selection, and calls that are decided by the status at the
time they arrive; a bulk call acts on everything selected, shown or not.

## Runs

Passing:

| Run | Instance | Question |
|---|---|---|
| `settlement_crash` | one process, one invoice of which the wallet covers nothing, half or all, a default card, two payments, the first of which may be paid late, one crash, webhooks redelivered without limit | Does the invoice live the life of `InvoiceLifecycle` (closed ones stay closed), do drafts stay untouched, is the card charged once, do only succeeded payments settle? Before a crash, are fully settled invoices PAID when all is quiet, and is the prepaid credit what the wallet gave? |
| `settlement_processes` | two processes, one invoice half covered by the wallet, no card, one payment, one crash, PUT reopening invoices, fairness | Is no invoice PAID that is not settled in full or declared paid, and is what a customer paid settled in the end? |
| `subscription_trial` | one API process and the worker, a trial of one day in advance, two plans, PUT of ACTIVE, one crash, three days | Is the fee billed once and after the trial, do endings last, and does every trial end? |
| `subscription_periods` | no trial, in advance and in arrears, downgrades at once and at the end of the period, both kinds of ending, no crash, five days of which two are in the second period | Does nobody pay for days to come in arrears; is the period of the fee credited no more than it was invoiced, and a later one no more than one rest of the period beyond that? |
| `wallet_operations` | two processes, wallets at rates 1 and 2, four operations, one crash | Is no wallet overdrawn; without overlap, are settlements covered, priorities kept, terminated wallets frozen and, before a crash, balances those of the transactions? |
| `idempotency` | two processes, two keys for three requests, one duplicate, one fault | Is what clients are told on record and final, one row per key, and every retried request answered? |
| `usage_checks` | two API processes, one worker, two events of either of two periods, a threshold at one, an alert at every event, thresholds added and deleted, the subscription paused and resumed, ClickHouse, one fault | Is a crossing recorded once in a period, everything reached noticed once all is quiet, and each finding announced once? |
| `query_cache` | every kind of pair of a call and a query of all 63 screens, two calls, two writes of others, reads repeated once | Does the cache never go back to an older answer (and implement `ServerView`); is a success seen, and caught up with? |
| `forms` | all 51 forms, two items, three openings | Does a form edit the item that was chosen, as its user saved it last, and without leftovers? |
| `tables` | all 22 lists, three rows, pages of one or two | Does an empty page mean an empty list, has every row a page, is there a way back to the first? |
| `offers` | all 16 kinds of rows, pages and selections, two rows, two calls | Is an offered action refused only when the row moved, and never done twice? |

Refuting. It finds that the code does not do what one of its comments says:

| Run | Comment | What happens |
|---|---|---|
| `settled_twice` | `models/invoice_settlement.py:23` | a payment marked paid by hand and announced by the provider is settled twice |

Bounds. *InvoiceSettlement*: `MaxPayments` counts payment rows; two are enough
for one payment to overtake another, and a handler reserves its row when it
starts (`Room`), so the bound never stops a handler half way. `MaxSettled` stops
a payment that has settled that much from settling again, never a first
settlement. `PaysLate` names the payments whose checkout may be completed before
the money comes; one of them is enough, as payments meet only in what they
settle; `settlement_processes` has none, which would triple it (with one it passes
as well). *Subscriptions*: `MaxDay` covers the trial and reaches the second period;
`MaxInvoices` stops clients from changing plans, never a handler or a job.
*Wallets*: `MaxCalls` counts operations; four make a grant, a second grant, a
transfer and a bill that overlap. *Idempotency*: `MaxDuplicates` counts requests
beside a retry that was due, which are not bounded; `MaxFaults` counts lost
replies, crashes and clean-ups. *UsageChecks*: two events in requests of up to
`MaxBatch` race each other, the job and the change of period (`MaxPeriod`);
`MaxJobs` checks of a kind may be queued before handlers wait and nothing is
reprocessed: since a check reads what is stored when it starts, one that is
queued stands for any number behind it. `MaxFaults` counts crashes and failures
of ClickHouse, Redis or a job. Events and processes are symmetric.
`MaxCrashes` is one everywhere: a second crash
only repeats the loss of a handler. Deadlock is checked in every run of the
backend: when no handler runs the system may rest (`Rest`), so a deadlock would
be a handler that cannot go on. In the browser the bounds use themselves up
(`MaxCalls`, `MaxOpenings`): its runs do not check deadlock. *QueryCache*: two
calls are the least that race with their answers and refreshes; a third only
queues behind them, because what is shown depends on the latest request alone.
Pairs that agree in everything a behaviour looks at are one subject, and so are
forms, lists and kinds. *Forms*: three openings reach an input left by one
opening, kept by the next and submitted by the last. *Tables*: three rows on
pages of one or two have a first, a middle and a last page. *Offers*: two rows
are alike (symmetry), and two calls are a click and the one that overtakes it.

Fairness (`FairSpec`). A handler that is running takes its next step, as a
thread of a process that is up does (weak fairness). *InvoiceSettlement*: strong
fairness on the reception of each webhook, which Stripe redelivers until it is
answered, to a process that is idle again and again. *Subscriptions*: days pass
and arq starts its hourly jobs. *Idempotency*: a client retries until it is
answered. *QueryCache*: the server answers every read, and an answer or an error
arrives. Nothing is assumed of customers, operators, users of the browser, polls
or crashes.

PUT runs in `settlement_processes` only: an invoice that it reopens is fully
settled and not PAID, which `FullySettledIsPaid` does not allow for. There the
invoice has no card; that `PaidIsCovered` holds with a charge under way is proved.

Disagreements that have no run of their own; of those that TLC also finds, the
formula that fails or the condition that keeps a property from failing:

* A pending payment is deleted while its checkout session is open
  (`payment_repository.py:250`); when the customer pays, every webhook is
  answered as ignored (`routers/payments.py:395`) and the money is recorded
  nowhere, although the endpoint "updates payment/invoice status accordingly"
  (`routers/payments.py:355`). `CapturedIsSettled` is therefore of payments that
  still exist.
* A top-up is "an inbound transaction and updates balance"
  (`wallet_service.py:101`), in two commits: a crash between them leaves credits
  that are listed and cannot be spent. `BalanceIsLedgers` therefore excludes
  crashes, as `FullySettledIsPaid` and `PrepaidIsConsumed` do.
* The job that shall "find active subscriptions due for billing and generate
  invoices" (`worker.py:125`) compares now with the end of the period that
  contains now (`worker.py:157`, `subscription_dates.py:111`) and invoices
  nobody; a subscription created with a `started_at` in the past skips its first
  invoice as well (`subscription_repository.py:84`).
* A settled payment is turned FAILED by a late `payment_failed`
  (`routers/payments.py:439`), retried and deleted, so that a settlement names a
  payment that is gone: `settledBy[p] > 0 => Exists(p)`.
* The automatic charge (`routers/invoices.py:443`) marks an invoice PAID and
  writes no settlement:
  `invoice[i].st = "paid" /\ ~declared[i] => settled[i] >= Total[i]`.
* A downgrade scheduled for the end of a period never takes place
  (`worker.py:74`, the same comparison as in the job above): it is still
  pending after the daily job ran on the day it was due.
* An immediate downgrade leaves `downgraded_at` and the dearer plan in
  `previous_plan_id` (`subscription_lifecycle.py:160`), which is how a pending
  change is stored: `sub.down => Price[sub.prev] < Price[sub.plan]`.
* A plan change in a trial is invoiced at once (`subscription_lifecycle.py:79`):
  `invoices[n].kind # "final" => invoices[n].day >= TrialEnd`.
* `trial_ended_at` is committed before the invoice
  (`subscription_lifecycle.py:252`); when the API takes the invoice number in
  between, the fee after the trial is never invoiced.
* A plan change after the period's invoice was paid credits nothing
  (`subscription_lifecycle.py:538`).
* A change of plan shall "find an existing invoice for this subscription/period"
  to credit (`subscription_lifecycle.py:531`) and takes any open one of the
  subscription; so does an end (`subscription_lifecycle.py:488`). As the worker
  invoices no second period, all that is credited there was never asked for: with
  the fee of the first period still open, an end with a credit note on the first
  day of the next gives back the whole days left of a period of which
  `Invoiced` is 0. TLC refutes
  `Credited(notes[n].per) <= Invoiced(notes[n].per)` in three days.
  `CreditWithinCost` therefore says it of the period whose fee was invoiced, and
  bounds what any other may be given by one rest of it on the dearest plan
  (`Unbilled`).
* A plan change whose invoice fails, because its number is taken, has been made and
  credited: the rest of the new plan is given away (`subscription_lifecycle.py:79`).
  `CreditWithinCost` counts the credits and is silent of it.
* The worker ends the trial of a subscription that was canceled after the worker
  read it (`subscription_lifecycle.py:245`):
  `[][sub'.trialEnded # sub.trialEnded => sub.st = "active"]_vars`.
* A request whose key is pending is executed although it is not "a new request"
  (`core/idempotency.py:41`): two processes, or a crash, create two rows for one
  key. `CreatedOnce` therefore excludes both.
* `has_been_crossed` looks at every threshold from the start of the period
  (`usage_threshold_service.py:89`) whether or not it is recurring, so one that is
  not is crossed again in each period; "recurring thresholds at period start"
  (`usage_threshold_service.py:166`) get nothing that the others do not.
* A recurring alert shall "fire every time usage crosses another multiple"
  (`usage_alert_service.py:75`), but `times_triggered` is never reset: in later
  periods it is silent until usage exceeds that of the best period so far.
* A batch that names one new transaction id twice fails as a whole with a 500
  (`event_repository.py:141`: the session does not flush by itself, so the second
  is new as well), although "duplicate transaction_ids are handled gracefully"
  (`routers/events.py:483`). So does one whose id another organization has used:
  the id is unique over all (`models/event.py:21`) and looked up in one.
* The period of a check and the date of its crossings are two readings of the
  clock (`worker.py:220`, `usage_threshold_service.py:82`): a crossing found as
  the period ends is dated in the next, and hides that period's own. `Noticed`
  therefore asks for a record in the period or later.
* A check that was not enqueued because a process or Redis failed is made up for
  only by the next events (`routers/events.py:454`; `unheard`), and an event that
  ClickHouse did not take is never copied again: `Stored = events` when quiet.
* Two workers can record one crossing twice (`usage_threshold_service.py:89`):
  `CrossedOnce` with two `Workers`.

In the browser, besides the exceptions of `Console`:

* Totals count all rows of the organization whatever the filters
  (`routers/invoices.py:66`, `payments.py:83`, `fees.py:38`, `coupons.py:86`), so
  the bar offers empty pages (`Tables.Explained`); deleting the last row of the
  last page leaves an empty one.
* The bulk bars send every selected row, also those a filter has hidden since
  (`SubscriptionsPage.tsx:496`, `InvoicesPage.tsx:470`); Terminate is offered
  whatever is selected and asks nothing.
* An answer to an earlier submission closes the dialog although it was reopened
  for another item, and a success navigates even after the page was left
  (`Forms.Succeed`).
* Saving one section of the settings page sends the inputs of both sections; the
  effective date chosen in the list's plan change is ignored
  (`SubscriptionsPage.tsx:357`); update payloads leave out fields that were
  emptied, so that they cannot be cleared.
* Signing out does not clear the cache (`AdminLayout.tsx:16`), so the next user's
  first screens show the last one's answers until their own arrive.

## Proofs

Each theorem is for every value of the constants: any number of processes, rows,
clients and bounds. What a constant must be is an `ASSUME` of its module
(`ConstantsAssumption`, in `QueryCache` `BoundsAssumption` and
`SubjectsAssumption`); what an installation or its clients must do in addition
is a hypothesis of the theorem:

* `OneServer`: one API process, as the Dockerfile starts it (`fastapi run`
  without `--workers`). Between the commits of one handler no other handler runs; the
  runs with several processes show what else is lost.
* `OneWorker`: one process of arq runs the jobs, one at a time (only
  `CrossedOnceHolds` needs it).
* `"draft" \notin PutStatuses`, `"finalized" \notin PutStatuses`,
  `"pending" \notin Puts`, `Puts \subseteq Ended`: no client writes that status,
  or any but an end, by PUT. The code refuses none of them; TLC finds each
  property violated without its hypothesis.
* `TrialDays = 0` (`CreditWithinCostHolds`) and, as a condition on the
  state, `crashes = 0` (what a period adds up to): a trial that ends in a later
  period, or an end of a process between the final invoice and the status, breaks
  these properties, as TLC shows.

TLC also finds each property that is proved with `OneServer` violated when there
are two processes, and `CrossedOnce` with two workers: these hypotheses are not
for the proof's convenience.

The invariants by which they are proved stand in the modules themselves or at
the head of the proofs, and TLC has checked each of them before its proof.

### Invoice settlement

* `Invariant` (`IInv`), `TypeCorrect`, and `PaidCovered`: no interleaving marks
  an invoice PAID that is not settled in full, charged for the rest, or declared
  paid by an operator.
* With `OneServer`: `ReadsStillHold` (`HoldInv`), `SettledSucceeded`
  (`SettlesWhatSucceeded`) and `ClosedStays` (`ClosedIsFinal`, which no run
  checks on its own: without PUTs, as in `settlement_crash`, `IsLifecycle`
  implies it).
* With no PUT of a draft, for any number of processes: `DraftsUntouched`
  (`DraftIsUntouched`).
* With `OneServer` and no PUT of a draft: `AccountsKept` (`AccountInv`),
  `MethodChargedOnce` (`ChargedOnce`), `PrepaidConsumed` (`PrepaidIsConsumed`) and
  `LifecycleImplemented` (`IsLifecycle`).
* With no PUT of a finalized invoice either: `SettledIsPaid`
  (`FullySettledIsPaid`).

`PaidIsCovered` alone is not inductive: `MarkPaid` writes PAID without looking,
three commits after the sum was read. `IInv` adds what a request knows at each
step (`RequestOK`: at `mark_paid` the invoice is covered; at `charge` the amount
and what the wallet gave make up the total; ...), that payment rows keep their
invoice (`RowOK`), and that prepaid credit <= credit from the wallet <= settled.
Settled sums and captured money only grow, so what a request knew stays true
while others move (`StaysCovered`, `Others`). One lemma per kind of step
(`RowStep`, `CreateStep`, `InvoiceStep`, ...) carries the common part, and one
per group of actions applies it.

A status does not only grow. That the invoice is still a draft when `finalize`
writes, or the payment still SUCCEEDED when its settlement is inserted, is kept by
nothing but the absence of another handler: `StillHolds` says which status each
step has read. `ChargedOnce` needs the history of an invoice as well: `Account`
says that a draft has neither payments nor settlements, and `AccountOf` that the
finalize handler takes that along until it creates the payment. `FullInv` names
who is about to mark the invoice that is settled in full.

`DraftIsUntouched` alone does not need one process. `UntouchedInv` says that
whatever a handler does to the account of an invoice (`OnAccount`) it does after
the draft was finalized, and without a PUT no invoice becomes a draft again.

`LifecycleImplemented` maps an invoice's row to its status and to one bit of
`Money`: whether its settlements cover it or the provider charged what the wallet
left. Each step of a handler becomes at most one step of the abstract invoice
(`LifeWrites`, `LifeReceives`, `LifeNext`). `MarkPaid` and `SetPrepaid` are `Pay`,
which needs the money to be in: `RequestOK` knows it. They and the other writes
need the status that the handler read several commits before (`HoldInv`); `Settle`
and `SettleWallet` are `Receive`, which needs the invoice not to be a draft
(`UntouchedInv`); the charge, the customer's payment and a new payment row are
`Receive` of money and of no settlement. TLC finds `IsLifecycle` violated with two
processes (a finalize writes over a void) and with a PUT of a draft (a late
mark-paid settles it).

### Wallets

* `WalletInvariant`, and `WalletsNeverOverdrawn`: no wallet at the default rate
  is overdrawn by any interleaving, although processes overwrite each other's
  balances.
* `SerialInvariant`, and from it `TakenFirst` (`TakenBeforeSettled`),
  `BooksBalance` (`BalanceIsLedgers`), `PriorityKept` (`PriorityRespected`) and
  `TerminatedStays` (`TerminatedIsFrozen`).

The second group is about operations that do not overlap (`~overlap`, recorded by
the model itself, so it is no hypothesis). `SerialInv` says that the one that runs
is alone, has read what the rows are (`Current`), has passed by the wallets that
come first only because they were empty (`Billing`), and what it has still to
enter (`Entered`).

### Subscriptions

* `TypeCorrect`, for any number of processes, which includes that no invoice or
  credit note has a negative amount: a day lies in its own period (`InPeriod`),
  whether periods begin at the anniversary or with the calendar. The types alone
  are not inductive: `IInv` adds that whoever bills, credits or changes a plan
  has named one (`Named`).
* `EndedIsFinalHolds`: with `OneServer`, a canceled or terminated subscription
  changes its status only by PUT. `AliveInv` says why: whoever is about to write
  the status has found the subscription alive, only API processes write it, and
  nobody else is running.
* `FeeOnceHolds` and `FeeAfterTrialHolds`, with `OneServer` and no PUT of
  pending: the fee of a period is invoiced once at most, and none for a day of
  the trial. `FeeInv` says that a fee is on record, or about to be (`BillsFee`),
  only where activation or the end of the trial has marked the subscription
  before, which each does once and by a commit that precedes the invoice.
* `PeriodFairlyBilledHolds` and `CreditWithinCostHolds` add up the invoices
  and the credit notes of a period, with `OneServer`, no crash and no PUT but of an
  end, the second without a trial. `Total` is a recursive function, of which the
  provers know only what it says of one number: what appending to a sequence adds
  to it (`TotalNext`) is proved by the least counterexample (`WFMin`), as
  everything on sums is. `PastInv` says that nothing is dated after today or
  before its period. In arrears, `FinalInv`: the only invoice there ever is is that
  of the end, for the days that have passed, and the handler that wrote it goes on
  to end the subscription, which nothing revives. In advance, `NumberInv` says that
  a number that has been read is free when it is used, since no other handler
  runs, so that with one process, and no trial, no insert of an invoice fails;
  and `BalanceInv` (`Covered`) what may still be credited for a period: at least
  what the plan costs for its whole days left, but while a plan change has credited
  the old plan and not yet billed the new one. That is more than the property says,
  and is what the next credit note needs. The period of the fee has its invoices to
  give back; any other starts from `Unbilled`, as on its first day no plan costs
  more than `Most` for the days left, and from there each change takes as much as
  it bills.
  `ConstantsAssumption` asks for finitely many plans,
  so that one of them is the dearest.
* `CronJobsDoNothing` and `OneFeeEver`: what these proofs show besides. The jobs
  for periodic invoices and for pending downgrades ask whether today is past the
  end of the period that contains today, which no day is, whatever the
  anniversary, the interval and the calendar; so a subscription is invoiced one
  fee in its life.

### Usage checks

* For any number of workers: `TypeCorrect`, `ToldOnceHolds` and `NoticedHolds`.
* With `OneWorker`: `CrossedOnceHolds`.

`CrossedOnce` is not inductive, as the insert does not look: `DateInv` adds that a
check is dated no earlier than its period, so that what it inserts is where the
look-up looked, and `IInv` that one about to insert has found no record of its
period or a later one. `TellInv` counts what is recorded against what is announced
and the workers that are about to announce it (`Owed`). `Noticed` speaks of a quiet system
only; `NoticeInv` says who will still notice while it is not: a check in the
queue or in hand that will count the event, or the request that is about to
enqueue one, and otherwise it was lost (`unheard`). `CopyInv` relates what
ClickHouse has to the events on their way there.

### Idempotency

* `Invariant` (`IInv`), `TypeCorrect`, `ToldStaysOnRecord` (`ToldIsRecorded`),
  `ConflictsAreForeign`, `CreatesOnce` and `AnswersAreFinal`.

Where the requests of a key do not overlap and nobody crashed, `IInv` says that
the one which handles it has the record pending and no row, until it has inserted
one which it alone will record; so a row of the key is on its record or in that
hand (`Accounted`).

### The browser's cache

* `CacheInvariant` (`IInv`) and `TypeCorrect`.
* `AsOfVisitHolds`: a screen that has settled shows no less than its user was
  told of at the last visit, focus, poll or refresh.
* `ReadYourWritesHolds`: if every call without a gap invalidates the query that
  shows its effect (the hypothesis, which the run `query_cache` checks of every
  screen), nobody goes on seeing what was there before a success.
* `ServerViewImplemented`: `Spec => IsServerView`, by the refinement mapping
  `written <- version, seen <- data`.

`AsOfVisit` speaks of what is shown; it is the request that carries the promise.
`IInv` says how old a question may be (`InTime`: asked no earlier than promised,
unless it was joined), how old its answer (`Awaited`: the awaited request, once
read, is no older than its question nor than what it replaces), that what is
shown answers the last question (`Answers`), that a mounted query is never idle
without a valid answer (`NeverIdle`), and that a refreshing call leaves no gap
(`Promises`). `Fetching` and `Resting` split it by the variables that the
requests touch, so that an action which leaves them alone has half a proof; what
a started, a joined, a mounted and a refreshed request do is one lemma each.

### Lists and offers

* `EveryRowHasAPageHolds` and `EmptyMeansNoneHolds`, of any tables that are
  `Orderly`: a table that does not tell a total is listed as such, and one that is
  not listed goes back to the first page when the server's filter or the size
  changes.
* `RefusedOnlyIfMovedHolds`, of any kinds of items that are `Closed` and `Sound`;
  `NeverDoneTwiceHolds`, of any that are `Closed` and `Guarded`.

Each reduces what the user sees, while rows move and calls are under way, to a
condition on the table of the screen alone. TLC has evaluated these conditions of
every table and kind in `Console`, and the runs would find one that fails: two
rows and two calls are enough to be refused, or to do something twice. With them,
the theorems say that three rows on pages of two, and two calls, have hidden
nothing. The conditions are hypotheses, not assumptions of the modules, so that
a run reports the property that a wrong table violates.

`PageInv` says what is known of a page after the first: what is found still
reaches it, or it was empty when the bar offered it, which takes a filter or a
total that counts more. That a page which is reached has a row on it
(`PageReached`) needs the rank of a row to take every value (`RankExists`): an
injection between sets of the same size. `OfferInv` says that a call is accepted
where its row has not moved, `RepeatInv` that a row to which the same was done
since the click is still as the action leaves it, and that a single button has
one call.

### Forms

In the same module, of an instance of `Forms` (`F`) on the state of `FormState`:
`EditsTheRowHolds` of any
forms that are `StartsFromItem`, `StartsFromOwnHolds` of those that are
`RefreshesItem` besides, and `NoLeftoversHolds` of any that are `StartsAfresh` or
are listed as keeping their inputs. These too are conditions on what the code of
one form says, which TLC has evaluated of all 51, and the theorems say that
they are enough for any number of items, openings, versions and submissions.

`EditsInv` adds to the property what the dialog of the page's item needs, which is
seeded by an answer before it is opened: the item is in the inputs once there is
an answer about it. `OwnInv` says why an opening that waits for nothing is up to
date: a page that is not asking has been answered all that its user was told of,
because entering it asks and so does each success that is told there. Of the
forms that start afresh, `LeftoversInv` has a conjunct for each way of doing so:
the page, the opening that sets the inputs, the form of one item, and the form of
a new one, whose inputs stay while it is closed and must be empty once it was
created. The late answers are what make it hard: a success that belongs to an
earlier opening ends, clears or marks the one that is there.

### Only model-checked

* Liveness (`CapturedIsSettled`, `TrialEnds`, `IsAnswered`, `EventuallyCurrent`)
  and `WayBack`, which says that a step is enabled: beyond the prover.
* That the forms, tables and kinds of `Console` satisfy the conditions of the
  theorems: some hundred records that TLC enumerates in full.

## Not modelled

Single-row create/read/update/delete, authentication, rendering, email, exports,
SQL aggregation: one transaction or none, nothing to interleave. Of the browser,
layout, formatting, charts, sorting, input validation, the payloads, and the
session (a token and an organization in local storage). Provider adapters other
than Stripe have the same interface.
Amounts are abstract units: the factor of 100 between bxb's and Stripe's cents
is a hazard no module covers. Of subscriptions, `subscription_at` and
`ending_at`; of wallets, PUT, codes and `check_expired_wallets`, which nothing
calls; of alerts, changing and deleting them; of events, their aggregation in
SQL. Outgoing webhooks are left out: `send_webhook` writes rows that are pending,
and `deliver_webhook` is called only for rows that have failed
(`webhook_service.py:248`, `webhook_endpoints.py:243`), which no pending row ever
becomes. Nothing of the delivery can be reached to be checked.

## Plan

Done: `InvoiceSettlement` (which implements `InvoiceLifecycle`), `Wallets`, `Subscriptions`, `UsageChecks`,
`Idempotency`, `QueryCache`, `Tables`, `Offers` and `Forms` with their proofs, and
the browser's screens. Next, the most important first:

1. An abstract account that `Wallets` at rate one implements.
2. `BillingDates` and `ChargeModels`: pure functions against a reference
   definition over bounded inputs; that prorated parts add up.
3. `PaymentRequests`, `CreditNotes`; the worker's retries of webhooks, once
   something delivers them.
