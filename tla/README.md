# Verification of the maintenance system (cmms)

The system is a maintenance-management server for a plant: a FastAPI application with web
pages, a JSON API, MCP tools for agents and a command line, over one PostgreSQL database.
Its domain services (`src/src/cmms/domain`) are the only write path. This directory holds
TLA+ specifications of the services whose correctness depends on order and concurrency,
the TLC runs that check them and the TLAPS proofs about them.

## 1. The system

### 1.1 How a request runs

Every web, MCP or command-line request has a database session of its own
(`src/src/cmms/db.py`) and works at READ COMMITTED. `DomainService.write`
(`domain/base.py`) commits at its end and rolls back on an exception. Three facts decide
what can go wrong, and every module is built on them:

1. `session.get` reads a row once, without a lock; the session keeps what it read.
2. The UPDATE at the flush is conditional on the primary key only and names the columns
   that changed. What another request wrote meanwhile to those columns is overwritten, and
   to the others is kept.
3. Only `_proposal_stale` (`FOR UPDATE` / `FOR SHARE`), unique keys, and increments in SQL
   order two requests.

So an operation is modelled as a step that loads and a step that commits, wherever
something can come between. Where requests take turns (one request, or `Interleaved =
FALSE`) the same actions give the sequential system. Each property says in which of the
two worlds it is claimed.

### 1.2 Components

| Component | State | Operations | What makes it correct | Modules | Status |
|---|---|---|---|---|---|
| Gated writes (`work_order/service.py`) | `pending_proposal` | propose, confirm, reject, expire; direct writers beside them | what runs was legal at its commit; a proposal resolves once, executed exactly when confirmed | `GatedWrite` | modelled |
| Work-order lifecycle (same file, `downtime.py`) | `work_order`, `work_order_status_history` | open, start, hold, resume, complete, finish, close, cancel, void, edits, window filter | history and status agree; only legal transitions; downtime is the time down; ended means frozen | `WorkOrder` | partly |
| Notes, links and part pairing | `work_order_note`, `work_order_external_link` | add, delete, attach a photo; link, unlink; pair a part with its issue | what is queued for Jira is what was written; a part shows its own issue | `JiraSync`, `Stock` | partly |
| PM schedules and scheduler (`pm_schedule/`) | `pm_schedule`, its work orders | on-demand and daily generation, close with advance, edits | one open order per cycle; generated when due, and always; due dates move with closes | `PmCycle` | partly |
| Downtime and PM calendars | none (pure) | `segment_is_downtime`, `effective_generation_date` | agree with a reference | `WorkOrder`, `PmCycle` | partly |
| Spare-parts stock (`inventory/`) | `stock_transaction`, `quantity_on_hand`, `work_order_part` | issue, amend, cancel, direct issue, give back, count, backfill | on hand = ledger; parts = ledger; returned once | `Stock` | modelled |
| Items, bins, suppliers (`inventory/`, `contacts/`) | master rows | create, edit, link, one main contact | references hold; a gated edit rests on rows that are still there | `GatedWrite`, `Purchasing`, `Imports` | partly |
| Accounts, sessions, tokens (`identity/`) | `user_account`, `user_session`, `mcp_scoped_token` | roles, sign-in, passwords, mint and revoke | an admin stays; a reset ends what an old password opened; one current token | `Accounts` | modelled |
| Credential vault (`identity/vault.py`) | `user_external_credential` | store, use, revoke | one current credential; what is used was stored for that user and system | `Vault` | modelled |
| Assets and relations (`asset/`) | `asset`, `asset_relationship`, `asset_owner` | create, form, flags, owners, link, unlink | the cached parent is the graph's; no cycle; a form is saved whole | `AssetGraph` | modelled |
| Notification outbox (`notify/`) | `notification_outbox` | enqueue with the event, flush, retry | queued once; sent at least once; settled in the end | `Notifications` | modelled |
| Jira synchronisation (`jira_sync/`) | `jira_outbox` | forward, flush, photos, comments | one issue per key; comments of the notes, once each | `JiraSync` | modelled |
| Telegram bridge (`telegram_bridge/`, webhook) | codes, links, seen updates | create, redeem, deliver, dispatch | a code binds once; a chat acts for its own account; a command runs once | `Bridge` | modelled |
| Assistant conversations | `assistant_*` | ask, answer, retry, close | within the limit; an answer stands under its question | `Conversations` | modelled |
| Hermes gateway (`src/infra/hermes/app`) | ledger of costs, questions per client, job directories | admit, run a back end, book | the budget is overshot by what was under way only; each charge is booked | `Gateway`, `Backends` | partly |
| Procurement | `rfq_request` | ask once, mail, contacts | one row and one mail per request | `Purchasing` | modelled |
| Attachments | `attachment`, object store | upload, delete, restore | every row has its object | `Media` | modelled |
| Tasks and steps | `task`, `task_step`, `task_part` | insert, move, delete, load | order and parts stay consistent | `Templates` | modelled |
| On-box reports | work orders by report key | report, cancel | one order per report; a cancel never undoes work | `OnBox` | modelled |
| Failure vocabulary | `equipment_failure_code`, `mes_failmode` | retire, load | a close records an active code | `GatedWrite`, `Imports` | partly |
| Web, API, MCP and command line | none | about a hundred writing forms | who may do what; a refusal is answered; an answer tells what was done | `Surfaces` | partly |
| Loaders of the legacy files | every table | one load each, reloads | references hold; a reload of the same file changes nothing it should not | `Imports` | partly |
| Seed replay | replayed world | replay, resume, dry run | cut off or crashed and resumed, the same shop | `SeedReplay` | modelled |
| Migrations, exports, demonstration data | | | | | not modelled |

`PROJECT.json` lists every component with its sources and what its status rests on, and
every hazard with its line.

Components meet in the database only: a confirm calls the transition and item-edit code
of other services inside its own transaction; a close advances a PM schedule; an issue
posts to the ledger of the inventory; the end of a work order freezes its parts; the open
and the close of a work order, and its notes, put rows into two outboxes in the transaction
of the event; the messenger's updates become questions, and questions become runs of the
gateway.

### 1.3 Hard behaviour

* **Check, then act**: nearly every guard reads without a lock (status, premise, part,
  quantity, due date, duplicate proposal).
* **Retries and double clicks**: idempotency keys of proposals and of ledger rows.
* **Premises that move**: the failure code, bin, asset or supplier text of a proposal
  changes after it was filed.
* **Numbers**: a work order takes the greatest number plus one; two can take the same.
* **Time**: rows are dated when the request loads, and committed later; a hold reason is
  redefined as (not) downtime while orders are on hold; weekends of the scheduler.
* **Long legal sequences**: `set_hold` and `finish_work_order` write chains of
  zero-length rows; a due date survives reopenings, edits and closes out of order.
* **Liveness**: the scheduler goes on past a schedule that fails; no confirm waits for
  ever on a row lock; a notice that can be sent is settled.
* **Effects outside the database**: mails, chats, Jira issues and comments, stored objects
  and paid model calls happen before the row that records them, and the process may end
  in between; two flushes may overlap; an answer may be lost.
* **Resumption**: a replay or a load that is cut off is run again over what it did.

## 2. Modules

| Module | What it is | Code (under `src/src/cmms` unless said) |
|---|---|---|
| `WorkOrderStatus` | the seven states and `ALLOWED_TRANSITIONS` | `domain/work_order/service.py` |
| `Session` | what the session of a request does to a row it holds | `db.py`, `domain/base.py` |
| `ProposalLedger` | abstract: a proposal is filed once, resolved at most once, executed exactly when confirmed | ADR-016 |
| `Delivery` | abstract: a message leaves only once queued, is recorded as sent only once it has left | the two outboxes |
| `GatedWrite` | propose, confirm, reject, expire, and the direct writers of the rows they rest on | `domain/work_order/service.py` |
| `WorkOrder` | every transition operation of one work order, downtime, freeze, window filter | the same, `downtime.py` |
| `PmCycle` | generation, numbering, close and advance, the scheduler | the same, `domain/pm_schedule/` |
| `Stock` | the movements of one item, and which issue a part is shown with | `domain/inventory/service.py`, the same |
| `Notifications` | enqueue at the open and the close, recipients, flushes | `domain/notify/` |
| `JiraSync` | notes, photos, links, forwards, flushes | `domain/jira_sync/`, `jira_forwarder.py` |
| `Accounts`, `Vault` | accounts, sessions, tokens; credentials | `domain/identity/` |
| `AssetGraph` | master rows, owners, the relations and the cached parent | `domain/asset/service.py` |
| `Bridge` | link codes, chats, updates of the messenger | `domain/telegram_bridge/`, `web/telegram_webhook.py` |
| `Conversations` | dock and messenger of one user | `domain/assistant/`, `web/routes.py`, the webhook |
| `Gateway`, `Backends` | gates and ledger; the back ends behind them | `src/infra/hermes/app/` |
| `Media`, `Purchasing`, `OnBox`, `Templates` | photographs; requests for quotation and contacts; on-box reports; steps of tasks | `domain/attachment/`, `procurement/`, `contacts/`, `work_order/onbox.py`, `task/` |
| `Imports` | every loader of the legacy files, as a function of the tables | the `loader.py` and `transform.py` files |
| `SeedReplay` | the replay of a synthetic world | `domain/seed/` |
| `Directory` | the components around the work orders together, and what is claimed of them | |
| `Surfaces` | every writing page, tool, command and endpoint, as data | `web/`, `mcp/server.py`, `cli/main.py`, `api/` |
| `MCGatedWrite`, `MCWorkOrder`, `MCPmCycle`, `MCStock`, `MCDelivery`, `MCDirectory` | model values, symmetry, and who asks for what, for TLC | |
| `Sums` | the sum of a sequence, from the first element to the last | |
| `GatedWriteProofs`, `WorkOrderProofs`, `PmCycleProofs`, `AssetGraphProofs` | theorems about the module of that name | |
| `StockProofs` | theorems about `Stock`, `Backends`, `SeedReplay` and `Imports` | |
| `DeliveryProofs` | theorems about `Notifications` and `JiraSync` | |
| `DirectoryProofs` | theorems about `Accounts`, `Vault`, `Surfaces`, `Bridge`, `Conversations`, `Gateway`, `Media`, `Purchasing`, `OnBox` and `Templates` | |
| `SequenceLemmas` | lemmas about sums, places and numberings that `WorkOrderProofs`, `StockProofs`, `AssetGraphProofs`, `DeliveryProofs` and `DirectoryProofs` share | |

Modules whose components share no row are checked side by side in one run (`MCStock`,
`MCDelivery`, `MCDirectory`): a variable `part` says which component a behaviour is about,
and the others rest. A product of components that never meet would show nothing more.

### 2.1 GatedWrite

State: `status`, `intent`, `key`, `resolver`, `executed` are the proposal rows
(`executed` counts the transactions that carried the operation out); `overdue` is
`expires_at` against the clock; `wo`, `live`, `codeActive`, `binActive`, `itemBin`,
`known`, `admin` are the rows of other tables; `req` is what each request is doing.

`ProposeLoad` tests the operation and the duplicate; `ProposeInsert` / `ProposeReturn`
end it, by the unique key. `ConfirmLoad` reads the proposal (unlocked, once) and the
role; `ConfirmLapse` expires it; `ConfirmCheck` is `_proposal_stale`: it takes the row
locks or waits, and either marks the proposal EXPIRED or goes on to
`ExecuteTransition`, `ExecuteOpen` or `ExecuteEdit` (`_execute_proposed`).
`ExecuteEditFails` and `ConfirmRecheck` are the rollback of a failed edit and
`_expire_if_stale_after_failure`. `RejectLoad/Commit` and `SweepLoad/Commit` are the other
resolutions; `DirectLoad/Commit` a transition by hand. Row locks are not a variable: a
row is locked while a request whose proposal is about it stands between check and commit.
An organization matched by its name is lockable; another item that happens to carry the
supplier text is not, so that premise can still fail at the execution.

### 2.2 WorkOrder

`row[w]` is the row (status, hold reason, closing time, downtime, last writer, one
free-text column), `history[w]` its status history in the order of the ids, `holdDown`
which hold reasons stop the machine, `lived` the state at each tick: a record kept for the
properties alone. `turns` is fixed by the beginning: requests overlap, or each begins when
none is under way. `Path` gives each operation's chain of transitions (`set_hold` from OPEN
goes through IN_PROGRESS, `finish_work_order` through COMPLETED). `LoadTransition` reads
and tests, `CommitTransition` applies `Apply`: rows, hold reason, closing fields, downtime.
`Written` and `HoldStored` decide by column what an UPDATE of a stale row stores.
`ConfirmedTransition` reads under a lock and is one step. `ActiveInWindow` is
`list_active_in_window`: the SQL filter on `closed_at`, then the history.

`get_status_history` orders by `changed_at`, then id; `history` is in the order of ids,
and `InTime` sorts it where the code reads it sorted. The two orders differ only when a
request is dated before and committed after another.

### 2.3 PmCycle

`pm[p]` is the schedule (due, interval in days, suppressed, soft link), `order[n]` the PM
work order numbered `n`, `inUse` the asset, `today` the day (day 0 is a Monday).
`SweepSelect` is the SQL selection of the scheduler and its exact date test; each schedule
of `todo` is then a transaction of its own: `Pick` or `PickNothing` (`_generate_pm_impl`),
`TakeNumber`, `Insert` or `InsertFails` (the primary key, or any exception, which
is isolated per schedule). `OnDemand` runs the same steps once. `CloseLoad`,
`CloseLock`, `CloseCommit` are `close_work_order` with `_advance_pm_schedule`;
`ConfirmedClose` is a close confirmed from a proposal, which does not advance. The due
date moves by days; months and years are not modelled.

### 2.4 Stock

One item: `onHand`, the append-only `ledger`, the `part` rows of the work orders and `over`,
the work orders that ended; `turns` as in `WorkOrder`. Every operation takes three steps: a read
(`IssueRead`, `DirectRead`, `AmendRead`, `BackfillRead`, ...), the insert of its row of the ledger
(`Insert`), which draws the row's id (`drawn`) and waits for whoever has inserted the same key, and
the commit (`Issue`, `Amend`, ...), after the wait for the item's row. So ids need not follow the
commits, and `ledger` is in the order of the commits. The history variable `crossed` collects the
work orders to which two issues (or backfills) were inserted at once. An idempotency key is a
record of what the forms put in it: operation, nonce, target, quantity; `GiveBackKey` has no nonce, so
a direct issue has one return for ever. `Post` is `post_stock_transaction`: rows, and the
increment of the quantity in SQL. A backfilled row moves nothing (`moves = FALSE`).
`AlreadyPosted` is both the test of the key and the refusal of the unique index.
`IssuePairs` is `pair_part_issue_times`: the n-th issue of an order and item goes with the
n-th part row, issues by the order of their ids (`PlaceOfIssue`), parts by that of theirs
(`PlaceOfPart`), which are drawn under the item's lock. The two orders are one unless two issues
to the work order overlapped; for those that did the docstring of `get_part_issue_times`
(`work_order/service.py:488`: the ids of parts and those of their issues correspond one to one,
since one transaction writes both) is wrong, and a part may be shown with the time of the other
issue. `PartsShowTheirIssue` therefore excepts `crossed`.

### 2.5 Notifications and JiraSync

Both have rows with a status and a number of attempts, batches that a flush has read
(`todo`) and works through with the network in between, and a count `copies` of what
really left. `Select` / `SyncSelect` read the batch, `Sent`, `Refused`, `AnswerLost` (`Comment`,
`CommentFails`) are the network, `Mark` / `Settle` write one row from the attempts that were
read, `Crash` ends a process anywhere. `Enqueue` runs in the transaction of the event and is
guarded by the unique key only, so two closes that overlap both run it. A forward creates
the issue (`CreateIssue`), links work order by work order (`LinkOne`), queues the notes
(`QueueNotes`) and flushes, each in its own transaction; a retry with the key finds the
links of the first attempt (`Keyed`), and `Opening` are the forwards of a key that no link shows
yet. A note added by hand has three steps: its id is drawn (`AddNote`), the links are read and
the rows for their issues inserted (`ReadLinks`), and the commit shows both (`CommitNote`); only
then does a forward read the note, and links come and go in between. `excused` keeps, for each
key, whether something has happened that may cost it a second issue: the answer of `create_mrq`
was lost, the process died before the first link, two forwards of the key were under way before
the first link, the last link with the key was removed, or a hand made the link that the forward
was about to make. `Outbox == INSTANCE Delivery WITH ...` and
`CommentQueue == INSTANCE Delivery WITH ...` map the rows to messages.

### 2.6 The components around the work orders

* `Accounts`: a call tests (`Check`, `Authenticate`, `VerifyOld`, `Mint`) and commits later;
  `late` marks the calls that another commit has left behind: `LeftBehind` those that counted
  the admins before one went, and those that read the account before its row changed.
* `AssetGraph`: `Versions` stand for the columns of the form; an edit reads, then commits edge,
  cached parent, flag, form or owners; `Overtake...` marks edits that another one overtook.
* `Bridge`: an update is marked as seen in a transaction of its own and then dispatched, so a
  repetition is dropped and a crash loses it; a code is read, tested and used in three steps.
* `Conversations`: a turn opens, posts, asks and stores; `Answered1` is
  `next_message_after`, by which the dock knows that a question has its answer.
* `Gateway` is the order of the gates (`Verdict`), the queue at the semaphore, the ledger
  rows and the counters of the day; `Backends` is what happens behind them for one job:
  directory, child process, tool session, turns, time limits, and what is booked in the end.
* `Media`: put, then insert under the unique key. `Purchasing`: the row, the mail inside the
  transaction, the commit. `OnBox`: reports and cancellations against the moves of staff.
  `Templates`: steps, places and parts, and the loader over them.
* `Surfaces`: a form is a record (who passes the guard, the calls in order, what is caught
  around each, what is answered); one visitor uses any of them. `Raising` says which
  exceptions a service may raise, `Passes` what its own gate lets through. `standing` is the
  account, which may change between the guard and the calls.

### 2.7 Imports and SeedReplay

`Imports` holds the tables as functions and every loader as an operator from tables and
rows to tables (`Load`). A file is loaded whole or, for the loaders that commit row by row,
up to a row. Edits through the application come between. `since` remembers what was retired,
removed or done by hand, for the properties. Where the code upserts row by row the model has the
result (`Upserted`: the last row of a key stays, the others are as they were), and a row that a
loader passes over leaves its place empty (`Restrict`), which keeps the numbering of the file. The
loaders whose rows depend on those before them, relations and issues, are recursive functions of
the place in the file. The code drops a relation that the file has twice; the model binds it again,
which does nothing, for what was bound is there and what was refused is refused again.

`SeedReplay` has the reader (`ReadLedger` drops what is out of order), the pre-checker
(`Planned`, `Confirm`), the services' own tests (`Accepts`), the effects, `last_seq`, and a
process that may die between any two transactions. `Straight` is the reference: one
uninterrupted run. Between runs, and during one, the generator may expose more days of the
same world (`ExposeMore`: the fingerprint leaves `days` and `exposed_until` out, so the run
goes on with a longer ledger) or make the world anew (`Regenerate`: another fingerprint, which
`check_world` rejects). A ledger that was exposed up to a line and continued is among those of
the run. There is one `world_id`: the rows of `seed_world` of other worlds, and what two worlds
in one database would make of each other's work orders, are left out.

## 3. Runs

Nine runs pass, each within five minutes; three are meant to find a violation. Each
property of a passing run is also broken by a fault planted in the code's definition (the
*Faulty variant* operators; `PROJECT.json`, "mutants"). Where a component has several
properties, a conjunction carries them in the configuration; its parts are named and
commented one by one in the module.

| Run | Question | Bounds and why they are enough |
|---|---|---|
| `gated_transitions` | can a proposal close or void what is no longer in that state, or record a retired code, while another confirms or writes directly? | 2 requests, 2 proposals, 1 order from every status, 1 code: a race is between two, and every rule is about one order |
| `gated_rows` | the same for openings and edits, the failed edit and its recheck; does every request end? | 2 requests, 1 proposal: two confirms of it, or a confirm against each change of asset, bin, organization, item |
| `gated_serial` | does the sequential protocol implement `ProposalLedger`, retries with a key included; are duplicates refused? | 1 request, 2 proposals, 1 key: a duplicate needs two |
| `gated_double_open` (V) | "re-confirming the same token does not re-execute" | 2 requests, 1 proposal |
| `workorder` | status and history agree whatever races; in turns: chains, hold reasons, downtime, freeze | 2 requests, 1 order, 6 history rows (opening and two chains), 2 hold reasons (one redefined while the other counts), 3 roles, 2 ticks: a down and an up segment |
| `pm_serial` | one order per cycle, generated when due, due dates move with closes | days 4 to 7 (Friday to Monday), due dates on each, intervals 0, 1, 3; 2 orders: this cycle's and the next |
| `pm_scheduler` | does every schedule that stays due get its order; can a soft link lead to another's? | 2 requests, 2 schedules, one of which may always fail or stay open, 2 orders: two that take one number |
| `pm_confirmed` (V) | "closing a PM work order advances its schedule" | 1 schedule |
| `stock` | is the quantity the ledger's sum, does a direct issue return once, do parts agree; the loaders, the replay, the back ends | 2 requests, 2 form nonces, 4 ids of ledger rows (issue, amend, cancel, backfill; two issues at once are two ids); five batches of files and 2 edits between; ledgers of events: 4 beginnings and 2 of 7 moves, torn lines, 3 cut-offs, 1 crash; 2 jobs for 1 slot, 2 turns each |
| `delivery` | are notices and comments queued once, sent at least once, never recorded as sent unsent; are forwards whole | 2 flushers, a batch of 2, 2 attempts, 1 fault; 2 orders, 1 key, 2 notes, 2 issues, 4 requests: a forward, a link removed, a note, a second forward; what is about one comment forwards one order and begins one note at a time, with links made and removed while it is under way |
| `jira_transition_notes` (V) | "every subsequent work_order_note enqueues a jira_outbox row" | 1 order, 1 note, 1 issue |
| `directory` | the components of 2.6, one per behaviour | 2 calls under way everywhere; 3 users of whom 2 admins (the last one needs two that go); 3 assets and 3 edges (the shortest cycle that two edits close); 2 chats, 2 codes, 1 crash; 2 targets, 3 days of which a month is 2; about a hundred forms, one visitor |

(V): the run must find a violation.

Deadlock is not checked where a model stops at its bounds or idle (`CHECK_DEADLOCK FALSE`):
the server may rest. In `GatedWrite` something can always happen, and it is checked.

Symmetry is used for requests, proposals and nonces, in runs without liveness.

What the conjunctions contain:

* `workorder`: `HistoryTellsWhy` (`Chained`, `HoldExplained`), `TerminalIsFrozen`
  (`TerminalKept`, `FrozenKept`), `DowntimeIsTrue` (types, `ClosedWithTimeDown`,
  `DowntimeKept`). They speak of requests in turns; `WindowFilterIsSafe` of all.
* `stock`: `StockIsSound` (types, `OnHandMatchesLedger`, `DirectIssuesReturnOnce`,
  `PartsShowTheirIssue`, which excepts work orders in `crossed`; in turns `PartsMatchLedger`);
  `MasterDataIsSound` (references,
  `ReloadIsIdle`, `EdgesAreAccounted`, `GoneStaysGone`, assignees, history, contacts);
  `ReplayIsSound` (`ResumeIsSeamless`, and `DryRunForetells`: where a service refuses an event,
  which some ledgers of the run bring about, a dry run may count more than is applied, or
  fewer); `BackendsAreSound`
  (`ChargesAreBooked`, `AnswersAreEnds`, `SlotsAreKept`); `AmendingIsGuarded`.
* `delivery`: `NoticesGoOnce` (types, `OneNoticeEach`, `SecondCopyExcused`), `CommentsGoOnce`
  (types, `OneRowPerComment`, `RepeatsExcused`), `ForwardsAreWhole` (`OneIssuePerKey`, which excepts
  the keys in `excused`, `ForwardIsWhole`, `ManualNotesQueued`); the refinements
  `NoticesDelivered` and `CommentsDelivered` of `Delivery`; `NoticesSettle`;
  `DeletedNotesStayHome`.
* `directory`: `IdentityIsSound` (accounts, vault, surfaces), `AssetsAreSound`,
  `AssistantIsSound` (bridge, conversations), `GatewayKeepsLimits`, `PaperworkIsSound` (media,
  buying, reports, templates), `IdentityStepsKept` (`LastAdminKept`, `VaultKeepsWord`).

### 3.1 Fairness

`GatedWrite!FairSpec` (run `gated_rows`) is strong fairness of each request's remaining
steps. The server runs a request it has begun to its end, which alone is weak fairness; it
is strong because a confirm that waits for a row lock is enabled again and again, and
PostgreSQL queues the waiters of a lock. Nothing is assumed of people: no request need
begin.

`MCPmCycle!MCFairSpec` (run `pm_scheduler`) is weak fairness of the steps of a begun
generation or close, and strong fairness of the daily run: cron starts it each day,
while the model lets other requests keep a session busy. No fairness is assumed of closes,
edits or on-demand generation.

`Notifications!NotifyFairness` (run `delivery`) is weak fairness of the scheduled flush
(`cmms notify-flush-outbox`, which cron starts) and of the steps of a flush that runs. Crashes are
bounded by `MaxFaults`; a flush that dies is begun anew by the next cron. No fairness is
assumed of the flushes that follow a request. `NoticesSettle` excludes the one state in
which the code cannot go on: rows of a channel that is not configured fill every batch.

### 3.2 What the three violations show

* `gated_double_open`: `confirm` reads the proposal with an unlocked `session.get` and does
  not read it again after it waited for the lock on the asset. Two confirms that both read
  PENDING both execute, and one `open_work_order` proposal opens two work orders, where
  `docs/ARCHITECTURE.md:292` promises that a second confirm does not execute. Close, void
  and edit proposals are saved by the status or the row they lock; an opening changes
  nothing on the asset.
* `pm_confirmed`: `_execute_proposed` closes with `_transition` and does not call
  `_advance_pm_schedule`, where `docs/domain-model/03-scheduled-activity.md:127` says every
  close advances the schedule. The due date stays past and the scheduler opens the next
  work order at once.
* `jira_transition_notes`: `_transition` adds the note of a transition to the session itself
  and does not call `_enqueue_note_to_outbox`, where `docs/domain-model/02-work-orders.md:447`
  lists transition notes among those that are sent. A note added by hand is
  queued for every issue that a live link named when the note was begun (`ManualNotesQueued`). A
  note that was begun earlier may be queued by nobody: the forward read the notes before it
  was committed, and `add_note` read the links before the forward made one. No document denies
  this, so it is not a run.

### 3.3 What is claimed of requests that take turns only

The guards read without a lock, so some properties hold of the sequential system and the
models show how two overlapping requests leave them. No document excludes these, so they
are not runs: a terminal status is left by a transition that loaded an earlier one; a hold
reason stays after a completion that raced; the resolution of a proposal is overwritten; an
edit passes the freeze while the order ends; two PM orders are opened in one cycle; a sweep
generates for a schedule edited since its selection; two closes advance twice; a part is
cancelled twice from two forms. With `--limit`, schedules that fail every day can keep the
scheduler from the rest; the documented daily job runs without it.

What is said of requests in turns is proved under an assumption that no state contradicts:
that there is one request (`OneAtATime`), that the steps of two do not interleave
(`~Interleaved`), or, in `WorkOrder` and `Stock`, of the behaviours in which `turns` holds.

Likewise, in the components of 2.6 the exceptions are written into the property by the name of
what was overtaken: the last admin goes only by a removal that another removal, or another
change of the same account, overtook (`RemovalWasOvertaken`); a login that had verified the old password survives a reset
(`late`); two main contacts, when two edits overlap (`overlap`); a box's cancellation and a
person's move at once (`raced`); a part hung on a step that goes (`shared`).

### 3.4 Differences found on the way

Each is a place where code and comment disagree, or where a rule has an exception that the
properties name. They have no run of their own.

* Assistant: when two failed questions of a conversation are asked again in order,
  `next_message_after` takes the answer of the first, stored after the second, for the answer
  of the second. `add_assistant_message` stores an answer in a conversation closed
  meanwhile, where the comments in `telegram_webhook.py` and `routes.py` say it is not stored.
* Gateway: a time-out and an error of the tool server record no cost, where the docstring of
  `ledger.py` says every request of the model has a row (`ChargesAreBooked` excludes them by
  cause). `take_question` counts atomically, where a comment of `gateway.py` allows for one
  too many; it is the answers that can exceed the limit (`OvershootIsBounded`).
* Surfaces: an operator's proposal of an item edit is an error page, since
  `inventory_propose_update` catches `WorkOrderError` only; `report_submit` does not catch the
  refusal of the note after it opened the order; items, tasks, schedules and attachments are
  guarded by the page alone; `reject` of the agents' tools has no gate; the box, tools and
  commands queue notices without flushing them, so they wait for cron
  (`MessagesGoWithAnswer` names them).
* Loaders: loading work orders or the inventory again overwrites what was done since, and
  loading relations binds again what was unlinked. An empty assignee clears the person of the
  order and leaves the assignee row. Steps loaded again can hang a part on a deleted step
  once its item has become known.
* Replay: the resume feeds the pre-checker every consumed event, refused ones included,
  where the docstring of `transform.py` says that only success is confirmed; so
  `ResumeIsSeamless` compares worlds with a refusal for one run only. An item created before
  a crash and stocked after it is left with nothing on hand; the code's docstring says so.
* Attachments: content uploaded again after its deletion is answered with the deleted row
  (`docs/07-attachments.md` says this is meant).

## 4. Proofs

TLAPS checks the theorems below for every value of the constants, under the named
assumptions (`IntentsAssumption`, `NoneAssumption`, `BoundsAssumption`, `PmAssumption`,
`StockAssumption`, `BackendsAssumption`, `SeedAssumption`, `NotifyAssumption`, `ProfilesAssumption`,
`SyncAssumption`,
`AccountsAssumption`, `VaultAssumption`, `BridgeAssumption`, `ConversationAssumption`,
`GatewayAssumption`, `MediaAssumption`, `PurchasingAssumption`, `TemplateAssumption`,
`AssetAssumption`: some assets, and finitely many; `ImportAssumption`: files have the shape of their
kind, and no alias stands for an alias), which say that the values are of the right kind, that `None` is none of
them, and that what is numbered or counted is finite. `SeedAssumption` says besides what a
fingerprint promises, since the code trusts it too: of two ledgers under one fingerprint the one is
what the other begins with, and a world made anew that has the fingerprint of another ledger has its
lines. TLC evaluates them in every run.

**GatedWriteProofs.** `Typed` is the type invariant and `WellFormed`: a request
between two steps carries a proposal that is filed and whose content is an intent; without
it the type of what an execution writes is unknown. On top of it `Locked` (`LockedPremise`
and, because of the lock on the target, `TargetsExclusive`) is inductive: while a request
stands between check and commit no step of another can change the rows it locked, since every
writer of them is guarded by the lock. `ExecutionsArePremised` then gives, for the step that raises `executed[p]`, the
premise of `p` on the rows of that moment, from which the action properties follow.
`ResolutionTellsWhy` needs `DueAsRead` besides: a request about to expire a proposal has read
it overdue, and time does not go back. For a server that takes one request at a time
(`OneAtATime`), `ReadStillHolds` says that what the request has read is still there at its
commit; every step then is a step of `ProposalLedger` or none, by cases over the actions.

| Theorem | Says |
|---|---|
| `TypeCorrect` | `TypeOK` always |
| `PremiseStaysLocked` | the rows a confirm locked keep satisfying its premise |
| `GatedTransitionsAreLegal` | a gated close or void is legal at its commit |
| `GatedOpensAreOnLiveAssets` | no gated REACTIVE order on a retired asset |
| `GatedClosesAreActive` | no gated close records a retired code |
| `GatedEditsAreValid` | bin and supplier rules hold at the commit of a gated edit |
| `ConfirmsStayValid` | the four together, as the runs check them (`ConfirmsAreValid`) |
| `ResolutionsTellWhy` | CONFIRMED was carried out; EXPIRED by nobody was overdue |
| `SubjectsHaveOnePending` | one live proposal to void an order or to edit an item, one request at a time |
| `SerialServerKeepsTheLedger` | one request at a time implements `ProposalLedger` |

**WorkOrderProofs.** `Inv` is the shape of the state, with `Loaded` (what a request about to
commit has loaded, and that its path is legal from there), and the two invariants.
`RowsOfAPath` says that the rows of one commit are as many as the steps of the path and
legal each; `ApplyKeepsHistory` appends them. `StatusFollowsHistory` and `HistoryIsLegal`
hold however requests race: a commit writes the status and the rows together, and the
first row of a stale commit still starts at the status that commit loaded.
`WindowsAreComplete` rests on `ClosedIsRecorded`: a row that has a closing time got it with a
row of the history, so the SQL filter on the column agrees with the last ending that
the history has. In turns, `TurnInv` adds that one request is under way, that it commits on
the row it loaded, that consecutive rows chain, and that the hold reason explains the status.

The downtime is a sum over segments. Read by their times the rows are in order
(`InTimeIsInOrder`: counting the rows up to it gives each row a place of its own), so no
segment is negative and the column keeps its type whatever races (`ColumnsKeepTypes`). In
turns `LifeOf` says, at every tick and not only at the close, that the time the history
accounts for is the time the work order lived (`TimeAdds`: what its segments count, and the time since
its last row, equals the ticks down), for every choice of the reasons that count, since an
admin may change them between the two. A tick adds one to both sides (`TickAddsTime`), and the
rows of a commit, all of one time, only move time from the open segment into a closed one
(`RowsAddTime`).

| Theorem | Says |
|---|---|
| `StatusFollowsHistory`, `HistoryIsLegal` | the status is the last row, and each row a legal transition, however requests race |
| `WindowsAreComplete` | the filter on `closed_at` never drops an order that was active in the window |
| `HistoryExplains` | in turns, rows chain and a hold reason is there exactly on hold |
| `TerminalStates` | in turns, no transition leaves CLOSED, CANCELLED or VOIDED, and only an admin changes what the order says |
| `ColumnsKeepTypes` | `TypeOK` always, the downtime a natural number |
| `DowntimeHolds` | `DowntimeIsTrue`: in turns, the downtime at the close is the time lived down, and stays |

**PmCycleProofs.** `Inv` is the type, what each step holds, and `SoftLinkIsOwn`: the insert
takes a number nobody has, so a link set with it leads to the new order. For requests that
take turns (`~Interleaved`), `SerialInv` adds `Alone`, `InCycle` (a work order that is not
over is the one its schedule leads to, the strengthening that `OneOrderPerPm` needs) and
`Missing` (what a request is about to open it has found missing). `Collected` says that
what the scheduler collected is still due when its turn comes, `ClosesWhatItRead` that a
close advances the schedule as it read it.

| Theorem | Says |
|---|---|
| `TypeCorrect`, `SoftLinksAreOwn` | always, however requests race |
| `OneOrderWhenSerial` | one active work order per schedule, requests taking turns |
| `SerialSweepIsDue` | the scheduler generates only what is due, requests taking turns |
| `DueDatesMove` | a due date moves by an edit, or by one interval for each close, requests taking turns |
| `WeekendRule` | `effective_generation_date` is the last working day, for every date |
| `PrefilterIsComplete` | the SQL selection misses nothing the exact test would take |

**StockProofs.** `Good` is said of a ledger, parts and a quantity rather than of the state,
since a commit may post two rows: `OneMore` shows that a row with a key of its own, that gives
back an issue if it gives back anything, and that comes with its part if it is listed, keeps
it. `Stands` is what a request has read and races cannot undo: rows of the ledger and the
order of a part never change. `KeysApart` and `IdsInOrder` are about rows inserted and not yet
committed: nobody else has or inserts their keys, and their ids are above those committed before
to the same work order, unless two overlapped there. From `Owed` (what an asset gave back names
its issue in its key) and the unique keys follows that no issue comes back twice. From `Paired`
(parts and the issues they were inserted with come in one order of commits) and `IdsInOrder`
follows, by `SamePlaces`, that the page's pairing by position is right where nothing overlapped.
In turns, `TurnInv` adds what the guards have read
(`ReadStillHolds`) and that each work order's parts are what its ledger moved; it is
there that a backfilled part must move and hold nothing, and that an amendment must
post the difference from the quantity that it replaces.

For `Backends`, `BackendsInv` ties each job to its stage: what it has used and not booked is what
a turn of the API may leave behind, who is in a slot was let in when there was room, and a
job that has ended has let go of everything. Several of the steps may end a job; `JobBecomes` and
`JobIsEnded` say once what an end must do.

For `SeedReplay`, the recursive functions come first: by `CourseExists` each of them takes one step
after another over its ledger or batch, and what is said of all ledgers is shown by `BoundedInduction`
over the place in the ledger. `SeedInv` then ties the shop to the straight run over the events
consumed. It cannot say that the two are equal: the links of the assets defined last wait in the
pre-checker, a crash leaves some of them made, and the next run, which finds them all in its own
pre-checker again, makes the rest. So the shop is `Between` what the straight run has before its
batch is flushed and what it has after, and a process is at a link of the batch that the shop has
reached (`Amid`). Four facts carry this. A flush made again over some of its own links ends where one
flush does (`LinkCatchesUp`, `BetweenTwins`): an asset has one link in its batch at most, what lies above
it only grows, so a link that would have closed a cycle still does. A batch that a later definition has made longer joins at
least what the shorter one did (`GrownBatchJoinsMore`), so links made before a crash are among those of
the longer batch. A service accepts the same events whatever is linked (`AcceptsAlike`). And the
pre-checker fed with the events consumed is that of the straight run while nothing was refused
(`ForeseenComesTrue`), which is also what a dry run counts. `Reading` names the ledger that the shop
was last read from; when another run begins with more of it, `ProgressGoesOn` says that the
progress and the straight run up to it are the same over the longer one.

For `Imports` the invariant `ImportsFit` says table by table what holds of rows and of the memory of
what was done to them (`RowsFit`): they refer to rows that are there, no container is in itself or in
two, a cleared mark is one that somebody cleared, the parts of an order are what is booked on it, and
an order and item are booked no more often than some file at hand has rows for them; and that of a file of
contacts loaded in full every id leads to a person (`LoadedFit`). That a second load changes nothing
is shown with it, kind by kind, for any tables that fit (`FileKeeps`), since it is what the first load
leaves that the second finds. An upsert of the same rows finds them (`UpsertedTwice`). The chain above a machine is a recursive
function of as many levels as there are relations; it is closed by then, since every level
before adds a container and there are no more of them (`ChainIs`), so a relation that the guard lets through closes no cycle. What was refused stays
refused while relations are only added, so the second load binds nothing. The keys of the
issues number the rows of an order and item (`OccurrencesDiffer`), so of two files either may come
first, and a part is a sum that one more issue adds to (`FoldsInAnyOrder`).

| Theorem | Says |
|---|---|
| `TypeCorrect` | `TypeOK` always |
| `StockHolds` | quantity and ledger agree, issues to assets come back once, however requests race; parts show their issue unless two issues to their order overlapped; in turns, parts and ledger agree |
| `AmendingHolds` | in turns, an amendment takes no more than there is, and an order that ended keeps what it used |
| `BackendsHold` | whatever ends a request, its charges are booked, its answer is the end of a turn and no slot, session or process is left (`BackendsAreSound`) |
| `ReplayHolds` | a replay cut off, continued with a longer ledger or died ends where one run would have, but for an item that a crash parted and later runs after a refusal; a first run without refusals applies what a dry run counts (`ReplayIsSound`) |
| `ImportsHold` | whatever files are loaded in whatever order, cut off or repeated, and whatever is edited between: references hold, a second load changes nothing, the containers stay a tree, the past is booked once, and what the application retired, removed or assigned stays (`MasterDataIsSound`) |

**DeliveryProofs.** For the notices `OutboxInv` is the type, the unique key, and what the flushes hold:
each row once, as it waited when read (`TidyFlushes`). `CopiesKnown` is the heart: a message
that has left, of a row whose repetition nothing on record explains, is marked as sent and in
no flush's hand, or in the hand of the one flush that is about to mark it; `OverlapsKnown`
says that rows in two hands are on record. `NoticesDeliveredHolds` maps each step to a step of
`Delivery` or to none.

For Jira `QueueInv` is the same for comments and photos (`CommentsKnown`,
`UploadsKnown`: a retry does not upload again what the row says was uploaded). `NotesUnderWay`
goes with it: what is queued and what forwards have read is committed, and the rows of a note
that is not are its own, one for an issue; without it the commit of a note could meet a row that
a forward had queued. `NotesPromised` says of a note that has read the links that each issue
linked before the note was begun has a row in the queue or among those to be committed: the
reading makes the promise, the commit keeps it, and a link made later is younger than the note.

`ForwardInv` follows a forward through its transactions: what it has linked and queued so far
(`ForwardsLink`, `ForwardsQueue`), that no two forwards link one issue (`IssuesApart`) and, for
each key that nothing excuses (`OneKey`), that a live link finds its issue or the one forward
that opens it has linked nothing yet and will find its links unmade. So a refusal, a crash after
the first link, or trouble with another key takes nothing from a key. A link recorded
by hand as *forwarded* is among the excuses because a retry takes it for its own. The run has one
forward at a time; the theorem has any number.

| Theorem | Says |
|---|---|
| `NoticesGoOnceHolds` | one row for each recipient, event and channel; a second copy has a lost answer, a crash or an overlapping flush behind it |
| `NoticesDeliveredHolds` | the notification outbox implements `Delivery` |
| `CommentsGoOnceHolds` | one row for each note and issue; a repeated comment or upload has such a cause |
| `CommentsDeliveredHolds` | the Jira outbox implements `Delivery` |
| `DeletedNotesStay` | a note deleted before anyone read it never becomes a comment |
| `ForwardsAreWholeHolds` | a key opens one issue unless one of the five named causes befell that key; a forward that ends has linked every order and queued every note it read; a note is queued for the issues linked before it was begun |

**DirectoryProofs.** Each of its components has an invariant of its own.

`AccountsInv` says what a call under way may rely on as long as it is not `late`: a change that
has passed its test finds the row as it read it, and if it removes an admin another one is
there (`ChangesAreRight`); a login has verified no password older than the last reset
(`LoginsAreRight`). The proof, with more than two calls at once, showed that an admin can also
go by a call that read an account before another call changed it; the property names this
now. In `VaultInv` a call that no new row overtook has read the only row of its slot that can
be current (`ReadsAreRight`).

The surfaces have no constant, so their run is complete; the theorem is there because it says
why the claims hold, and goes on holding for forms that are added. What is claimed of a
request is first a property of its form (`FormIsRight`): its answers are so (`AnswerIsRight`),
it catches what its calls raise for whoever may send it (`CatchIsRight`), what no gate guards is
called by whom its page lets in (`GuardIsRight`), and it wakes the senders of what its calls
queue (`NoticeIsRight`). All forms have it (`FormsRight`), most by a lemma for their kind
(`AdminForms`, `OpenForms`, `ReportedForms`), those that make several calls by themselves. The
invariant (`VisitIsRight`) carries it along the calls while roles change: the account is loaded
once, so what was let through stays let through (`StaysLetThrough`), and what is behind was done
unless it was not asked for (`BehindIsDone`).

`BridgeInv` follows an update (`UpdatesAreInOrder`: unseen it has no effect, under way it has
bound nothing, at rest it was answered or lost) and a code: what an update has bound is used
up (`BoundCodesAreSpent`), and a command that no other redemption overtook is the first for
its code (`FirstToRedeem`). `TalkInv` says that in a conversation no question crossed, an answer
is the next message after its question and what has no answer is the last
(`QuestionsAreInOrder`, `TurnsAreRight`); and that who counted the open conversations, before
anybody else opened one, found room (`CountsAreRight`).

`GatewayInv` is about limits that are tested once and passed later. Its heart is `Within`:
what is spent, and for every request that waits or runs the most that one may cost, stay
below the limit and the slack of all. A request is let in only below the limit, where `Within`
holds whatever is pending (`LimitKept`); when it ends it gives up its share and adds at most
that. It is kept by target and day (`DaysAreKept`), by month (`MonthsAreKept`, over the sum of
a set of cells, `RecordingAdds`) and by source (`QuotasAreKept`); after midnight the day, and
perhaps the month, begin with nothing (`TomorrowIsOpen`, `NewMonthIsOpen`).

The paperwork. In `MediaInv` an upload that is about to insert has put its object
(`ObjectsComeFirst`), so no row is without one. `BuyingInv` accounts for every mail of a key:
by the row, once there is one, or by the one request that holds the key until it commits or is
lost (`KeysAreHeld`); a marked contact has been seen by the edit under way, if none overlaps
(`EditsAreSeen`). `OnBoxInv` says that a request about to change an order which no other one is
about to change finds it in the status it has read (`ChangesArePossible`, `RacesAreSeen`), from
which the table of transitions keeps cancelled orders cancelled. `TemplateInv` says the same of
the requests about one step (`DesksAreSeen`), and that a line which was taken away is there
as *deleted* and not merely not live: without that, a load could bring it back.

| Theorem | Says |
|---|---|
| `AdminsStay` | a reset ends the sessions of the old password; the last active admin goes only by an overtaken call |
| `VaultIsTrue` | one current credential for each user and system; what was told of it is so unless two calls overlapped |
| `IdentityKept` | `LastAdminKept` and `VaultKeepsWord` together (`IdentityStepsKept`) |
| `SurfacesHold` | a request does what it answers; a refusal is answered as one; nobody does more than a role allows; messages go with the answer, with the exceptions named in the properties |
| `IdentityHolds` | the invariants of accounts, vault and surfaces together (`IdentityIsSound`) |
| `BridgeIsSound` | a code binds once, unless two redemptions of it overlap; a chat acts for the account that made its code; an update is carried out once, and lost only by a crash |
| `TalksStaySound` | the limit of open conversations is kept unless two were counted at once; a question has its own answer where none crossed it |
| `AssistantKept` | the last two together (`AssistantIsSound`) |
| `LimitsKept` | questions count when answered, refusals are true, limits are passed by no more than the requests under way can add |
| `PhotosHold` | every row of a photograph leads to an object; of uploads of one file one makes the row and all are answered with it |
| `SupplierAskedOnce` | one mail for a key, and its row says what came of it, unless an answer was lost; one main contact while edits do not overlap |
| `ReportsHold` | one order for a report; cancelled or begun it stays so, unless two requests changed it at once |
| `TemplatesHold` | a load undoes no removal and no addition of a part; an added step goes last, unless two requests changed the step at once |
| `PaperworkKept` | the last four together (`PaperworkIsSound`) |

**AssetGraphProofs.** The two walks first. Each is a recursive function that goes as many
levels as there are assets, where the code goes until it finds nothing new. What a walk has
seen grows with each level until a level adds nothing, after which none does (`ChainStops`), so
by then it is closed: it has all that is above a machine (`AncestorsAreClosed`), or below it
(`WalkFindsAll`), and the latter needs nothing of the graph but its type. `AssetInv` adds what
an operation under way may rely on while it is not `late`: the cached parent and the edge are
as it read them, and between the machine and the module to be linked there is a set of
machines that has all that is above the one and not the other (`GraphIsRead`, `NotAbove`). The new edge then
closes no cycle: the complement of that set has all modules of its members, and what each
asset has below it can be met or joined with it (`EdgeClosesNoCycle`). That a list of owners is
saved whole comes from `OwnersAreRead`: the positions are replaced by what was read of them.

| Theorem | Says |
|---|---|
| `AssetsHold` | a forest with a true cache of the machine above, unless links or unlinks overlapped; the walk down finds all there is below, whatever the graph; a page is saved whole, unless two lists overlapped |

**SequenceLemmas.** The library's induction theorems cannot be instantiated here, since they
take an operator. The facts about sums take the least counterexample of a set of naturals
instead (`LeastOf`, from the well-founded `<`): the recursive function of `Sums` exists, an
element more adds itself, a changed one the difference; and the same for the sum of a function
over a set, which the ledger of the gateway is added up by (`SetSumMoves`). `SetToSeqEnumerates` and
`PlacesAreOneToOne` are about the numbering of new rows and of `ORDER BY ... LIMIT`.

Only model-checked: the liveness properties, for fairness is out of the prover's reach. Every
invariant and every action property of the passing runs is a theorem, and so are the two refinements of
`Delivery` and that of `ProposalLedger`.

## 5. Abstractions

* Free-text columns are one value; names, wording, rendering and audit columns are left out
  (the last writer of a work order stays, for the freeze).
* Time is a counter of ticks or days; two ticks are enough to tell a segment that counts
  from one that does not. Expiry (proposals, tokens, codes, sessions) is a step that may come
  whenever the row is there.
* Quantities are small naturals: the code uses exact decimals, so no width matters.
* One item in `Stock`, one work order per run in `WorkOrder`, one user in `Conversations`: no
  rule there joins two. What joins two (numbers, schedules, targets of proposals, owners) has
  two.
* The database is atomic per commit and honours unique keys. A commit draws all its ids at
  once, except where the order of ids is read against that of commits: the rows of the ledger in
  `Stock` draw theirs before they wait, and so do the notes in `JiraSync`, whose transaction also
  reads the links before it commits. The commit of the note of a transition is one step: nothing
  is read between.
* A loader's file is a sequence of a few rows, chosen so that each rule of the loader decides
  one of them; the batches of `MCStock` are the files of a plant, its upkeep, orders, stores
  and people.
* What is outside (mail, messenger, Jira, object store, language model) does what it is asked,
  refuses, or does it and loses the answer.

## 6. Not modelled

* Pages that only read, rendering, the texts of the interface (`web/i18n.py`), the wording of
  notices and comments: no rule changes state there.
* Exports and the cross-check of the vocabulary: read-only.
* Migrations and the demonstration data and scripts: they run once, by one operator, before
  the service starts.
* Month and year intervals of the schedules and `productive_minutes` over the working
  calendar: calendar arithmetic that the tests of the repository cover input by input.
* Prompts and schemas of the gateway's tools; the order in which asyncio wakes the waiters of
  the semaphore behind a back end (`Gateway` has the queue, `Backends` any order).
* The creation of schedules (`PmCycle` starts with them) and of hold reasons; the corrections
  of a note's text; `set_main_contact`, which nothing calls.

## 7. Plan

1. Done: gated writes, the lifecycle and the PM cycle, with proofs; the stock; the outboxes
   with their abstract specification; the components around the work orders; the loaders
   and the replay; the surfaces.
2. Done: proofs about every module of 2.1 to 2.5, with both abstract specifications, and
   about accounts, vault, bridge, conversations, gateway, the paperwork and the graph of assets.
3. Done: proofs about the back ends, the replay, the surfaces and the loaders.
4. Later: intervals of months and `productive_minutes` as functions against references.
