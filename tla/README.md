# Mazetto Food: TLA+ models, model checking and proofs

Mazetto Food is the ordering system of a restaurant: a NestJS backend over
PostgreSQL (`src/apps/backend`), an Electron desktop that is the till and keeps
working without a network (`src/apps/desktop`), web front ends for waiters,
kitchen, customers and operators, a Telegram bot, and a print agent. This
directory holds TLA+ modules of the parts in which the program's own
coordination happens, the TLC configurations that check them on small
instances, and TLAPS proofs of the invariants that matter most.

Contents: 1 the system; 2 the modules and how they follow the code; 3 the runs;
4 fairness; 5 what is proved; 6 where code and documents disagree; 7 what is
abstracted or not modelled; 8 the plan.

Run a model with `tlc -workers 2 -config DesktopOutboxEdits.cfg MCDesktopOutbox.tla`,
a proof with `tlapm DesktopOutboxProofs.tla`.

## 1. The system

Paths are relative to the repository (`src/` is its root); `backend` stands for
`src/apps/backend/src/modules`.

| Component | State it keeps | Operations | Interacts through |
|---|---|---|---|
| Desktop outbox (`apps/desktop/src/store.ts`, `gateway.ts`) | SQLite `mutation_outbox`, `local_id_map`, `api_cache`; in memory the active token of each scope, the blocked scopes, the running replay loops | queue a write, replay loop (take, send, answer), back-off, retry, cancel, adoption of another scope's rows, recovery at start | HTTP to the backend with `Idempotency-Key` and `expectedVersion` |
| Command idempotency (`src/apps/backend/src/common/idempotency`) | one row per key: in progress, done, failed | start, complete, fail, reclaim after five minutes | called by order and payment handlers |
| Orders (`backend/orders`) | order and item rows, order version, table, stock movements | create, add/edit/cancel item, confirm for the kitchen, change status, force | transactions shared with kitchen, tables, stock, notification outbox |
| Kitchen (`backend/kitchen`) | ticket status, ticket version, ticket lines | create ticket, accept, start, ready, complete, cancel, item cancellation, projection of order statuses | transactions on order and ticket |
| Payments (`backend/payments`) | payments, refunds, paid amounts | serializable payment, refund | order, ticket, table, shift |
| Tables (`backend/tables`) | table status | open an order, set status, release | order closings |
| Notification outbox (`backend/notifications`, `backend/telegram`) | `notification_outbox` rows with status, attempts, lease; dead letters and message ids in Redis | claim, deliver, settle, recover leases, operator's resend | Telegram Bot API |
| Desktop printing (`apps/desktop/src/print-worker.ts`, `store.ts`) | SQLite `local_print_jobs` and the record of each target (in doubt, printed) | queue, claim, print to several targets, outcome, retry, recovery at start | printers; the server's jobs |
| Server print jobs (`backend/receipts`, `backend/printers`) | print jobs with status, lease, attempts and their outcomes | queue, claim, dispatch, complete, fail, put aside, retry, reprint | desktops over HTTP |
| Shifts and cash register (`backend/shifts`, `backend/cash-register`) | shifts, the cash transactions of each, handovers and what they are composed of | open, close, forced close, manual entry, handover (create, accept, reject, force), refund | payments, order cancellations |
| Customer and Telegram ordering | cart, checkout session, orders without a table | checkout, cancel | orders, payments |
| Realtime (`backend/realtime`, `backend/orders/order-events.ts`, `apps/pos-web/lib/use-staff-realtime.ts`) | events numbered per branch; in a panel its cursor, the cursor it started the pass with, a request for another pass | number an event, answer a page, a pass (snapshot, pages, reload, checkpoint), signal | transactions on orders, sockets, the desktop's cache |
| Authentication | sessions, throttle counters | sign in, refresh, sign out | every request |
| Inventory, catalogue, staff, reports, maintenance | plain rows | CRUD, queries | - |

What makes each of them hard, and what makes it correct:

- **Desktop outbox.** A request may be lost, delayed, applied after its timeout
  or applied twice; the desktop may stop at any point; the user may switch; a
  session may end; another device may change the same order. Correct: commands
  of one aggregate take effect once, in the order they were queued; a cancelled
  one never; nothing acknowledged is lost; nothing travels under another
  employee's token; the id of an aggregate created offline is known to the
  backend before anyone names it; the queue drains.
- **Notification outbox.** Several processes claim jobs; the outcome of a send
  may be unknown; leases lapse under living workers. Correct: no automatic
  duplicate, no silent loss, statuses in order, the kitchen's message current in
  the end.
- **Orders, kitchen, payments, tables.** Several terminals, a kitchen and a till
  work on one order; payments decide by a snapshot; screens are stale. Correct:
  a table with guests is never given away, a closed order leaves the kitchen,
  money never exceeds the total nor stays on an order staff cancelled, what the
  kitchen cooks was taken from stock, and everything ordered is cooked.
- **Idempotency.** A reclaimed key has no fencing token, an order action holds
  two keys that are completed in different writes, and a change of role changes
  the scope of one of them. Correct: a key takes effect once, success is told
  only of what was done, nobody is refused because of his own change, and who
  keeps repeating learns the outcome.
- **Printing.** A document goes to several printers, each of which may refuse
  it or not answer; desktops report under leases and their reports get lost; a
  desktop stops while a document is at the printer; the document a desktop
  printed offline is queued once more by the server. Correct: no request puts
  out a sheet twice, what is reported done is on paper, late reports change
  nothing, and every job ends done or with an operator.
- **Realtime.** Transactions number events before they commit; a panel reads page
  by page while events go on, reloads what it shows, and its pass may fail, be
  declined, superseded or cut off anywhere; signals arrive during it; the load may
  be answered from a cache. Correct: the cursor never passes an event the panel
  does not show, no signal is lost, and the panel catches up.
- **Shifts and cash.** Closing, forced closing, forced handover and refund
  decide from a snapshot older than the row they wait for, while sales and
  handovers go on. Correct: a handover's cash is in one place, the ledger of a
  closed shift stays as it was, its totals count the till, and no cash travels
  in two handovers.

`PROJECT.json` lists the hazards one by one, at the line where they bite.

## 2. The modules

### LaneDelivery, DesktopOutbox, MCDesktopOutbox, DesktopOutboxProofs

`LaneDelivery` is the promise to the user, without network, tokens or process:
commands take effect in queue order per lane, at most once, may be withdrawn
while without effect, and are confirmed only after it.

`DesktopOutbox` is the queue. A *lane* is what `dueMutations` serialises on,
(aggregate type, aggregate id). Correspondence:

| Model | Code |
|---|---|
| `state`, `rowid`, `scope`, `owner`, `base`, `tried`, `delayed` | columns of `mutation_outbox`: state, id, scope, the employee in the payload, `expectedVersion`, `attempts > 0`, `next_attempt_at` in the future |
| `mapped` | `local_id_map` |
| `active`, `blocked`, `adopted` | gateway maps of the token a scope syncs with, `authBlockedScopes`, scopes adopted in this process |
| `pc`, `auth`, `batch`, `req`, `reply` | the replay loop of a scope: its position, token, rows read and not yet handled, the request awaited, its answer |
| `known` | version in the cached copy of an aggregate |
| `history`, `expired`, `orphans` | backend: commands applied per lane (its length is the version), ended sessions, requests whose sender has given up |
| `UseToken`, `Enqueue`, `Retry`, `Cancel`, `RefreshCache` | the HTTP routes of the gateway |
| `StartFlush`, `EndFlush`, `SendConflict/Skip/Waits/Send`, `Acknowledge`, `AnswerConflict/Unauthorized/Unavailable`, `Timeout` | `flushPendingMutations` and `sendQueuedMutation`, cut at their awaits |
| `Restart` | the process stops, possibly between the two SQLite transactions of an acknowledgement; `recoverInterruptedMutations` |
| `Serve*`, `ServeOrphan`, `ForeignChange`, `Expire` | what the backend does with a request: apply, replay, refuse as stale, in progress, unauthorised, fail |

Everything between two awaits of the gateway is one turn of a single-threaded
event loop, hence one step.

### NotificationOutbox, MCNotificationOutbox, NotificationOutboxProofs

The jobs of one order. The order is a level that grows with each status change;
the transaction that changes it inserts the jobs of the level (`ChangeStatus`).
`Claim` and `Recover` are the two SQL statements of a pass, each atomic;
`Begin`, `Post`, `Confirm`, `LoseAnswer`, `Unhandled` are one delivery, cut
where the code awaits Telegram or its own chain (`NothingToSend`: a refresh before
the message's id is stored is answered `ignored` without a request; so is the
operator's resend to a customer, as `skipped` with the letter left in place, once
the order has moved on to a status without a text); `Settle*` are the writes of
the outcome, guarded by the lease token as in the code (`Holds`). `Lapse` lets a
lease end under a living worker. `PickLetter` and `EndResend` are the operator's
resend with its two writes, each of which may fail. `Crash` ends a process.
Telegram handles a request once, late (`LatePost`) or never.

### TableOrders, MCTableOrders, TableOrdersProofs

The orders staff open at one table: the base order and its supplements, their
items, the kitchen ticket of each, the ingredients, the money, and the table.

- Each operation of orders, kitchen and tables is one transaction that locks
  the order's row, and the table's where it frees it; at READ COMMITTED that
  makes it one step: `OpenOrder`, `AddItem`, `EditItem`, `CancelItem`,
  `Confirm`, `SetStatus` (with `syncKitchenTickets` and
  `releaseTableIfNoActiveOrders` inside), `KitchenAct`, `SetTable`, `Refund`.
- A payment is SERIALIZABLE and is two steps: `BeginPayment` takes the snapshot
  (ticket status, other active orders of the table), `Collect` or
  `CollectAndComplete` commits. It is lost at once if the order's row is
  written meanwhile, and cannot complete the order if the table's or the
  ticket's row was (`Locks`); it may always fail (`AbortPayment`).
- Versions only ever are compared with one read before: `screen` keeps what a
  terminal read and whether it is still current. `expectedVersion` is optional
  in the API, so each checked request also exists unchecked.
- `KitchenShowsPos` is the set of values the setting
  `kitchen_pos_orders_enabled` takes while the table is served; `Admin` says
  whether someone with ADMIN_ACCESS forces statuses.

### CashCustody, MCCashCustody, CashCustodyProofs

The shifts of a branch, the ledger of each, and the handovers between them.

- Opening a shift, a sale, a manual entry, the refund of a cancelled item, and
  the creation, acceptance and rejection of a handover lock the shift's row
  first and read what they decide from after it (READ COMMITTED): one step each.
- Closing, forced closing, forced handover and the refund of a payment are
  SERIALIZABLE. Their snapshot is taken by their first statement, before it
  waits for the row, so each is two steps: `BeginClose` ... decide from the
  snapshot, `CloseShift` ... commit. `serial[c]` holds the snapshot: how many
  rows of the ledger it shows (`rows`) and which pending handovers (`moved`).
- PostgreSQL fails such a transaction if the row was *updated* since
  (`Updates`: sales, entries, refunds, closes), and does not if it was only
  *locked* (`Locks`: handovers). `Crosses` says which of two SERIALIZABLE
  transactions on the same ledgers fail. A transaction bound to fail is dropped
  at once; its retries are further `Begin` steps; `Fail` is every other failure.
- `Balance` is `calculateCashBalance`; `Buckets`, `Consumed` and `Composition`
  are the replay by which `createTransferAllocations` finds which source a
  handover's cash is from, first in first out, as folds over the ledger.

### ReceiptPrinting, MCReceiptPrinting, ReceiptPrintingProofs

The paper of one order: the copy the desktop that took it offline prints from
its own queue, the jobs the server queues for the same document, and reprints.

| Model | Code |
|---|---|
| `job` | `print_jobs`: status, lease holder, whether the lease ran out, attempts, `allowAmbiguousRetry` (`flag`), and the outcome of the latest attempt |
| `local` | the desktop's `local_print_jobs` row of the document |
| `target` | the desktop's record of each target: in doubt from before it is sent to until the printer has answered, then printed |
| `work` | one job in the print worker's hands: targets to do, at the printer, whether any has put out paper, the failure so far |
| `mapped` | the desktop knows the server's id of the order, by which the two copies are compared |
| `Claim`, `PutAside`, `Dispatch`, `Complete`, `Fail`, `Retry`, `QueueReprint` | the routes of `receipts.service.ts`; each write is guarded by status and lease |
| `Start`, `End` | `printSystemTargets`, cut where it awaits a printer; several targets at once |
| `LocalClaim`, `LocalFinish`, `LocalRetry` | the desktop's own queue |
| `ClaimLost`, the second disjuncts of `Dispatch`, `Complete`, `Fail` | a request took effect and its answer is lost |
| `Crash` | the desktop stops; `recoverInterruptedLocalPrintJobs` at its next start |

`paper[c][p][r]` counts the sheets printer `p` put out of copy `c` for its
`r`-th request; request 0 is the order's own, each retry by an operator is one more.

### OnceByKey, IdempotencyKeys, MCIdempotencyKeys, IdempotencyKeysProofs

`OnceByKey` is the promise to the clients, without rows, runs or crashes: a
request is asked, takes effect at one moment while it is asked for (if its key has
none under its scope and the version it names is the order's), and is told
something that is true then, or that something went wrong (`BreakOff`).
`IdempotencyKeys` implements it with `effects` as `log`, and `told` as the answer of
an attempt that waits for nothing.

The rows of `idempotency_requests` and the requests that hold them.

| Model | Code |
|---|---|
| `status`, `hash`, `lapsed` | columns `status`, `requestHash`, `expiresAt` in the past, for every row <<level, key, scope>> |
| `log` | the effects on the order: its version is their number, its events carry the key |
| `pc`, `at` | where a request is: `create`, `find`, `reclaim` of `start`, the mutation, `complete`, `fail`; of the outer row (`runIdempotent`) or the inner one (`runOrderMutation`, `execute` of the kitchen) |
| `Create`, `Find`, `Reclaim` | the three statements of `start`, each a transaction of its own |
| `Commit`, `Rollback` | the transaction of a mutation, with the inner row's completion as its last statement |
| `Complete`, `Fail` | the outer row's completion; `fail` of either level, whose errors are swallowed |
| `Claimed`, `Return`, `Throw`, `Catch` | how control enters and leaves a level |
| `Executed` | the search for the request's own event when the version is outdated (`updateStatus`, `updateItem`) |
| `Send`, `DbError`, `Crash`, `Lapse` | the client repeats; a statement fails; the backend stops; five minutes pass |

`Nested` are the keys of order actions, `LooksUp` those whose mutation searches
its event, `Plain` those of plain status updates (an order that already has the
status is left as it is, without event or version), `Versioned` the payloads with
`expectedVersion`: they differ from route to route, and the theorems hold for
every combination.

### RealtimeCatchUp, MCRealtimeCatchUp, RealtimeCatchUpProofs

The events of order changes, and one panel that follows them.

| Model | Code |
|---|---|
| `stage`, `rev`, `stamp`, `revision` | the transaction of an order change and its `outbox_events` row (`branchRevision`, `createdAt`); `branches.realtime_revision`, with the increment that is not committed yet |
| `cursor`, `checkpoint`, `again`, `booted` | `cursor`, `checkpointCursor`, `catchUpRequested`, `bootstrapAttempted` of `useStaffRealtime`; a cursor is of one of two kinds, the stamp of an event or a revision for each branch |
| `stored` | the cursor in SQLite or in the browser |
| `pc`, `asked`, `seen`, `got` | where the running pass is; for the page it awaits, the branches whose query has run and their rows; `lastEvent` |
| `load`, `cache`, `shown` | the panel's request and its answer, the gateway's cached copy of it, what is on the screen |
| `label`, `error` | the freshness recorded when an answer arrives (`recordApiResponseFreshness`), and `loadError`; with the load under way they make up the shell's status (`Told`) |
| `Record`, `Commit` | `recordOrderEvent`, which updates the branch's row, and the end of its transaction |
| `Query`, `FullPage`, `LastPage` | `RealtimeService.catchUp`: the branches' queries run side by side, then the page is put together; the panel takes the next one, or reloads |
| `Snapshot`, `Adopt` | `/realtime/bootstrap`, whose revision replaces a cursor that has none; it may be an older copy from the gateway's cache |
| `Save`, `GiveUp` | `refreshBeforeCursorCheckpoint`: the cursor is kept after the reload, or set back |
| `Signal`, `CatchUp`, `Rests` | a socket's event, the timers, the end of a pass |
| `Reload`, `Answer`, `AnswerFromCache`, `FailLoad`, `Show`, `Decline` | `loadFloor` and `onEvent` of the waiter's panel, and the gateway behind it |
| `Detail`, `FailDetail` | `loadTableDetail`, which `onEvent` awaits after `loadFloor` when a table is open |
| `Reopen` | the panel is closed or its process stops; what is kept is `stored` |

History: `heard` are the events signalled since the panel was opened, `jumped`
those the snapshot's cursor left behind, `origin` where what is shown came from
(nothing yet, the backend, the cache).

## 3. The runs

| Run | Instance and bounds | Shows |
|---|---|---|
| `edits` | two edits of one order, two employees' tokens of one scope, 1 foreign change, 2 faults; 218,784 states | a cancelled command is never applied; rows travel as their owner; lane order |
| `creates` | an offline sale, an edit of it and a payment naming it, 3 faults, fair; 126,796 states | local ids are resolved before they travel; acknowledged once and only when applied; refinement of `LaneDelivery`; every queued command settles, or waits for a conflict or for the user to sign in |
| `customer` | two customer messages, a third status without text, two processes, one resend, 2 attempts, 3 faults; 141,103 states | at most one automatic message per job; losses are visible; claims in order; messages out of order only after an unknown outcome |
| `staff` | the staff message, two refreshes and a customer message, one process, one resend, 2 faults, fair; 194,852 states | the kitchen's message ends current; delivered means posted; every job settles |
| `floor` | a dine-in order and a takeaway supplement, one item each, setting switched freely; 116,858 states | types; the table is OCCUPIED while it has an active order; closed orders have no open ticket; no money on orders staff cancelled; staff act on the status they saw; money within the total; listed items are deducted |
| `cash` | a cashier and a courier, three shifts, two handovers, two SERIALIZABLE transactions at a time, closes, forced closes and refunds overlapping; 182,499 states | types; a handover settles once; a closed ledger is frozen; closing totals count the till; no cash is composed twice |
| `print` | an order taken on one of two desktops, two printers, one server job, 2 attempts, one retry of each copy, 2 faults; 2,116,213 states | one sheet per printer and request; the document once where suppression can see it; late reports change nothing |
| `reprint` | one desktop, one printer, a synchronised job and a reprint, 2 faults, fair; 83,561 states | done means printed; every job settles |
| `keys` | one order action: two overlapping attempts of a request without a version, and two of another payload under the same key, with a version, the second after a change of role; 2 faults, fair; 451,372 states | a key takes effect once; success is true; nobody is refused as outdated because of his own change; refinement of `OnceByKey`; a completed key stays so; who keeps repeating learns the outcome |
| `realtime` | four kinds of panel (one branch on a desktop, with its snapshot, in a browser, two branches with a kept cursor), two events each, pages of one, 3 faults, fair; 497,050 states | the cursor passes no event the panel does not show; a signal during a pass is not lost; a desktop's panel catches up |
| `late_item`, `cash_close` | an order with two items; two shifts, one handover, one close | two statements of the documents that the code does not keep (section 6) |

Why the bounds are enough. Faults (`MaxFaults`) count losses, error answers,
restarts and ended sessions: two suffice for a loss followed by a restart or
by an ended session; `creates` allows three, a lost answer, a crash between the
two transactions of an acknowledgement and one more on the replay. Two commands of a lane show order and
rebase, the third (in another lane) shows references between lanes. One foreign
change is enough to separate "current version" from "version seen". For
notifications two jobs of a kind give an earlier and a later one, two processes
the race between them, two attempts the retry and its limit. At a table two
orders are what sharing it needs, and an item in each tells one order's money
from the other's. Three shifts of two employees give a third receiver and a
shift opened after a closed one; two handovers a chain (the second is composed
of what the first brought) and a race of two for one drawer; one sale or entry
and its refund are what a snapshot can miss. Two printers are needed for a
document that half succeeded, two desktops for the one that cannot know of the
offline copy, two faults for a lost report after a printer's failure. The
first two attempts of `keys` are a run that dies or is overtaken and the one that
reclaims its row; they name no version, so only the rows keep the effect single.
The other two misuse the key, and are outdated after a change of role. Two faults
are a live run reclaimed at both levels, or a lost answer and a crash. For a panel two events on pages of one give a page in the middle of a
pass and a commit that overtakes another; three faults a reload that supersedes
the pass, a cached answer and a restart. A plain status update that changes nothing
(`Plain` of `IdempotencyKeys`), and keys that differ in kind, are covered by the
theorems only.
The proofs of section 5 lift the invariants they cover from these bounds.

Types are checked in `floor` and `cash`, where they say something of money or
compositions; the other modules' `TypeOK` is proved (section 5).

The runs of notifications, cash, printing, keys and realtime disable the deadlock check:
once every job is settled, every shift closed and every handover used, every
request answered, or every event shown in a browser that nothing wakes, the system
has indeed nothing to do. Everywhere else deadlock is checked.

`cash` leaves the forced handover out of `Overlapping`: its snapshot is then as
new as its lock. With it in, the code does break `SourcesNotDoubled` (section 6).
The theorem on that property assumes the same; the other theorems of section 5 on
`CashCustody` hold with all four operations overlapping.

## 4. Fairness

Five runs state it.

- `DesktopOutbox!FairSpec`: the probe timer starts a flush while the backend
  answers (`StartFlush`), the event loop continues the loop (`EndFlush`, `Take`,
  `Handle`), the backend serves a request that is waited for (`Serve`, else the
  10 s timeout does), and a back-off, a finite delay, elapses. Nothing is
  assumed of users, tokens, other devices or faults, so `Drains` allows a row to
  wait for a conflict before it and for a user to sign in.
- `NotificationOutbox!FairSpec`: the five-second cron claims and recovers in
  every process, a request to Telegram is answered or aborted, leases and
  delays end. Nothing is assumed of operators.

- `ReceiptPrinting!FairSpec`: every desktop's timer keeps polling (`Polls`,
  `LocalClaim`), what the worker has begun goes on (`Works`, `Sends`,
  `LocalFinish`; a printer that does not answer is given up after a timeout), and
  a lease, two minutes, runs out. Nothing is assumed of operators, who may never
  retry.

- `IdempotencyKeys!FairSpec`: of a patient client only, one of the four in the
  run: he repeats a request that got no definite answer, as the desktop's outbox
  and the buttons' retries do (`Send`), his handler goes on (`Step`), and five
  minutes pass over a row of his that nobody works on (`Lapse`).
  `RetriesSettle` promises an answer only while no rival of the key is at work:
  two runs whose late `fail`s each fail the row the other has reclaimed hold each
  other up for ever, and TLC shows it without that clause.

- `RealtimeCatchUp!FairSpec`: a desktop's timer starts a pass every five seconds,
  thirty while the socket is connected, and a pass asked for starts in any
  panel (`CatchUp`); a pass goes on (`Pass`), a load is answered or fails
  (`Answer`) and its answer is shown (`Show`). No signal is assumed to arrive. A
  browser has no timer, so `PanelCatchesUp` is about desktops.

Weak fairness is enough in all: no other action disables these for ever
without ending what they were to do, and faults are finite.

## 5. What is proved

Assumptions are the named `ASSUME`s of the modules: `OutboxConstants` (rows
have one lane, a local aggregate one creating command, tokens one scope and
employee), `NotificationConstants` (one job of a kind per level, a process is
not a request, a customer's job is
of a level with a message), `OrdersAssumption` (finitely many items, each of one order),
`CashAssumption` (amounts are natural numbers; `Overlapping` names SERIALIZABLE
operations) `PrintingAssumption` (every copy has a target, one desktop took
the order), `KeysAssumption` (a placeholder is not a payload) and
`RealtimeAssumption` (an event is of one branch, a panel shows at least one, a
page holds at least one event).
TLC evaluates them in every run.

**DesktopOutboxProofs**, for any commands, lanes, tokens, scopes and bounds:

- `TypeCorrect`: `Spec => []TypeOK`.
- `CancelledStaysUndone`: a cancelled command is never applied.
- `AcknowledgedOnce`: an acknowledged command is in the history, and none is
  there twice.
- `TravelsAsItsOwner`: requests travel with a token of the row's employee.
- `LocalIdsAreResolved`: a request that names a local aggregate is sent after
  the creation took effect.

All come from one inductive invariant, `OutboxInv`. The properties are not
inductive by themselves: "cancelled is not applied" needs that a row never tried
has no request anywhere (`Untried`, `Unsent`), because a request can outlive its
sender; "acknowledged is applied" needs that every positive answer in flight is
true (`TrueAnswers`), because the row is written a turn after the answer; "local
ids are resolved" needs that a stored mapping stands for an applied creation
(`MappedIsApplied`) and that requests in flight and orphans alike were built
after it (`FlyResolved`). `Types` carries besides `TypeOK` that a running loop
has a token. The step proofs are lemmas, one per shape of change (`HistoryShape`,
`AppliedStep`, `FlyingStep`, `RowStep`, `TrueAnswersStep`), so that each action
is considered once.

Of the same module, for any commands, lanes and bounds, if the actor's
tokens share one mutation scope (`OneScope`; section 6 says what happens with
two):

- `LaneOrderHolds`: `Spec => []LaneOrder`.
- `ImplementsLaneDelivery`: `Spec => ImplementsDelivery`.

`LaneInv` adds to `OutboxInv` what makes order hold: a row is `Clear` when every
row before it on its lane is acknowledged or cancelled, and whatever the loop
has read (`Batched`), has sent or left behind (`FlyClear`) or has made effective
(`AppliedClear`) is clear. The query of `dueMutations` makes it so when the loop
reads, and nothing undoes it: a new row comes last (`EnqueueRow`), and no step
brings an acknowledged or cancelled row back. For the latter a row whose answer
is awaited has to be `sending` still (`Waiting`), or a late conflict could
reopen an acknowledged row. With a second scope the query would miss the rows
queued under the first. An acknowledged row is applied (`OutboxInv`), and what takes effect now comes after
it in the history (`LaneOrderStep`). The refinement then needs one step per
action of `LaneDelivery`: a queueing, a cancellation and an acknowledgement map
to `QueueUp`, `Withdraw` and `Confirm`, and of the quiet rest (`StepShape`) a
step that applies a flying request maps to `TakeEffect`.

**TableOrdersProofs**, for any orders, items, types, and setting:

- `TypeCorrect`; in particular no order's money becomes negative.
- `TableStaysOccupied` (if `~Admin`): inductive with `SnapshotCoversTable`: as
  long as nobody wrote the table's row since a payment's snapshot, every other
  active order of the table is in that snapshot. An order opened since has
  written that row, so the completing payment fails instead of freeing the
  table.
- `ClosedOrdersCloseTickets` (if `~Admin`): inductive with
  `SnapshotSeesTicket` (an open ticket of the order being paid was already open
  in the snapshot) and `PreparedHasTicket` (an active order beyond NEW has had a
  ticket, so confirming again opens none).
- `PaymentsStayWithinTotal`: `PaidWithinTotal` is inductive given the types;
  the lemmas are about the cardinality of an order's items.
- `TicketsAreDeducted`: inductive with `ListsOwnItems` and `ReturnedHadTicket`
  (ingredients are only returned for an item that had a ticket, so the ticket
  an order gets lists no returned item).
- `StaffActOnWhatTheySee` (the action property `StaffActOnShownStatus`): from
  `ScreenCurrent`: while the version a terminal shows is the order's, so is the
  status it shows. Each action either increments the version of the row whose
  status it changes or changes no status (`Increments`, `ScreenKept`).
- `CancelledOrdersKeepNoMoney` (the action property `CancelledWithoutMoney`): from
  `Payable`: an order a payment has in its snapshot is not cancelled as long as
  the payment can still commit, for cancelling would have written its row.

`~Admin` is needed. An administrator's force may reopen a closed order without
taking the table again, and may confirm such an order while a payment with an
older snapshot completes it; with `Admin = TRUE` TLC finds both.

**NotificationOutboxProofs**, for any jobs, levels, processes, requests, limits
and faults: `TypeOKHolds`, `AutomaticSendOnceHolds`, `LossIsVisibleHolds`,
`DeliveredWasPostedHolds`, `ClaimsInOrderHolds`, `OutOfOrderIsUncertainHolds`.
These six come from one invariant, `IInv` (`Inductive`). What it adds to the
properties relates the row to the worker that may have lost its lease:

- `Unsent`: a job that is to be claimed has an attempt left, has nothing out or
  on its way, and nobody is at it;
- `OneWorker`: a job has at most one worker, because the only way back to
  PENDING is the report of the one that has it;
- `Workers`: what a worker will report is true: a rate limit or a refusal only
  when nothing is out, a success only when something is, and `ignored`
  for a refresh only. A lease that lapsed changes nothing about it;
- `LateOnce`: an aborted request that may still arrive has not arrived before,
  and its job is PROCESSING or known as uncertain;
- `ChatClaimed`: what is in the chat was claimed, so with `ClaimsInOrder` an
  older status that arrives now is settled, and as it was sent only now, it was
  settled as UNCERTAIN or resent by the operator.

`StaffSeesCurrentHolds` assumes one backend process (`OneProcess`; section 6 says
what two do) and a refresh with every status change (`EveryLevelRefreshed`, which
is what the transaction of a change inserts). It adds `Panel` to `IInv`. The
final state says nothing of how it came about, so `Panel` follows the refresh of
the newest level: since it was claimed, whatever its worker renders is current
(`WorkerCurrent`); once it is out, the message is current and so is whatever is
being written to it, resends included (`LastRefresh`), because writes of the
message are chained (`OneChain`) and an edit never meets a message whose id is
not stored (`Messages`).

**CashCustodyProofs**, for any shifts, employees, amounts, bounds and all four
operations overlapping: `SettledOnceHolds`, `ClosingCountsTillHolds`,
`ClosedIsFrozenHolds`, from `Inductive`. The properties are about what is
committed; what has to be added is about the transactions in flight: the shifts
one decides about are still open (`FoundOpen`), the pending handovers a forced
close is to take back are still pending and nobody else takes them
(`MovesPending`), and what a closing has not seen of its ledger are rows of
handovers only (`SeesTheTill`), because any other row updates the shift and
fails the closing.

Two more results are about what handovers are composed of.

- `TypeOKHolds`, with all four overlapping: `PInv` adds to `IInv` that parts name
  rows (`PartsTyped`), that a row of incoming cash names its handover
  (`CashInNamed`), and that a snapshot is not ahead of the ledger (`RowsSeen`).
- `SourcesNotDoubledHolds`, for finitely many shifts and handovers and `"handover"
  \notin Overlapping`. The hypothesis is exact: with a forced handover that decides
  from a snapshot older than its lock, the model breaks the property. The
  invariant `MInv` is a conservation law, `ConservedIn`: for every row that brought
  cash in, what the drawers hold of it and what is on the way together are at
  most what it brought. `Alone` and `HandoverCurrent` say that a forced handover
  that overlaps with nothing has the ledger's last row in its snapshot.
  Each step is one of four (`NextCash`): nothing moves, a row is booked, a handover
  leaves a drawer or arrives in one, or a forced one does both. A row at the end of a
  ledger changes only the last step of its replay (`BucketsStep`), a row elsewhere
  nothing (`BucketsSame`), and what leaves a drawer is what its buckets lose
  (`KeptType`, `CashOfDrawn`).

**FoldTheorems**: what the proofs need of the folds of the community modules: that
a sum over a finite set, or a fold along a sequence, exists and is computed
element by element (`SumRemove`, `SumLast`, `LeftExists`), how it changes with one
element (`SumChange`), and bounds (`SumMonotone`, `SumCounts`). They are
inductions on the size of a set, done on a set of numbers (`Induction`) because an
induction theorem with an operator parameter is out of the provers' reach.

**ReceiptPrintingProofs**, for any desktops, printers, routes and limits:
`TypeOKHolds`, `OneSheetPerRequestHolds`, `OnlyOperatorsReopenHolds`,
`DoneIsPrintedHolds`, from `Inductive`. The argument is about who may print: of
the desktops that have come to hold a job at most one works on its last request
(`HolderCurrent`, `OneWorker`); a job that may still be claimed has nothing of
that request on paper or under way (`FreshIsBlank`); what is at the printer is
marked in the desktop's own record (`LocalWork`, `ServerWork`); and only an
operator's retry makes a new request (`RequestsMade`, `FlagIsPending`). `DoneIsPrinted` needs besides
that a target recorded as printed is on paper (`RecordedIsPrinted`) and that the
work at hand covers all targets (`WorkServes`).

`PaperOnceInTurnHolds` assumes finitely many jobs and `OneJobPerPrinter`: the
server queues an order's document once for each printer of its route
(`receipt-writer.ts:147,157`), so no two of its jobs share one; the run has a single such
job. The invariant it adds, `SyncFillsIn`, says that a sync job is on paper at, or on its
way to, only printers that are `Owed` a sheet: ones where an earlier request of the
offline copy, now over, put out none. A claim the suppression can see makes it so
(`ClaimOwes`), and what is owed stays owed, since sheets come out only for the
request under way (`OwedStays`). The count of sheets is then a sum (`SheetsBound`) in which
each missing one of the offline copy makes room for one of the job (`SumExcess`).

**IdempotencyKeysProofs**, for any keys, attempts, payloads, scopes and faults:
`TypeCorrect`, `EffectOnceHolds`, `SuccessIsTrueHolds`, `StaleIsUndoneHolds`,
`CompletedIsFinalHolds`, `ImplementsOnce`. `EffectOnce` alone is not inductive. `RowsInv` adds that
a row knows the truth: an inner row is completed exactly when its key took effect
under its scope, or found its effect under another one or nothing to do (`LogAgrees`), and an outer one is never ahead of the effect
(`RowsAgree`); then a second run of a reclaimed key fails at `complete`, or
finds the version moved. `Fine(a)` says of each attempt what its position
implies, for its own payload only (`InPlace`, `ForItsPayload`): one about to
complete the outer row has its effect in the log, one that answers "outdated"
has none (`Outdated`). A step changes one attempt and grows the log, which
`OthersFine` and `Combine` use for the rest.

`ImplementsOnce` (`Spec => ImplementsOnceByKey`) maps each step. The commit of a
current mutation is `Perform`: its row is in progress, so by `LogAgrees` its key
has no effect under its scope (`CommitIsFree`). Every other step of an attempt is
a stutter while the request goes on and `Tell` when it ends, and what is told is
true by the invariant after the step, over a log the step left alone
(`TellsTruth`). That a misused key really has another user needs `ToldInv`: a
row's payload was sent by somebody, who stays known (`RowSent`, `Answered`).
No run takes effect after it was answered; a client that stops waiting and sends
again is another attempt.

**RealtimeCatchUpProofs**, for any branches, events, panels, page sizes and faults:
`TypeOKHolds`, `NothingSkippedHolds`, `HeardIsShownHolds`, from `Inductive`.
`NothingSkipped` compares a cursor with a screen; neither says that the next
commit is not behind the cursor. `InOrder` does for the database: as the branch's
row is held until the commit, at most one transaction of a branch is open and its
event has a higher number than every visible one. `CursorsBehind` carries that to
the three cursors of a panel, for a page ends at a row that is visible
(`EndsBehind`) and so does a snapshot (`AdoptBehind`). `ShownInv` says the same of
the screen and of the answer awaited, for the cursor kept and for the one to be
kept, where the answer is the backend's; `LabelInv` says that a panel which shows
anything else tells so, whichever answer was labelled or failed last; `HeardInv` follows each signal through the pass, whose queries are
side by side.

Only model-checked: the five liveness properties (`Drains`, `EveryJobSettles`,
`Settles`, `RetriesSettle`, `PanelCatchesUp`). Fairness is about what is enabled,
and the prover reasons about neither. Every invariant and every
action property of a passing run is stated by a theorem.

## 6. Where the code and what is written about it disagree

Two runs expect a violation of what a document of the repository says:

- `late_item` (`KitchenSeesEveryItem`): an order set back to NEW keeps its open
  ticket, takes a further item, and is confirmed again; the item is charged and
  deducted and is on no ticket.
- `cash_close` (`PendingIsResolvable`): an ordinary close takes its snapshot with
  the statement that waits for the shift's row. A handover created meanwhile only
  locks that row; the close misses it and leaves it pending for a closed shift.
  `docs/MAZETTO_AUDIT_2026-10-10.md:214-215` says that such a close is blocked.

Seen while modelling, without a run. The first eight are about
definitions of the modules that can be given to TLC as an INVARIANT, or as a
PROPERTY where they are about steps:

- `NoSilentOverwrite` (`DesktopOutbox`): the answer to a replayed command carries
  the order as it is *now*; the rows queued behind it are rebased on it, so a
  change another device made in between is overwritten with a matching version.
  `docs/audit/OPERATING_GUIDE_2026-09-21.md:37` says that conflicts are never
  silently overwritten.
- `NothingSkippedAtAll` (`RealtimeCatchUp`): the gateway's cached copy counts as a
  completed refresh, so the cursor moves past events the panel does not show; with
  the snapshot's cursor it moves past those the panel's first load missed; and the
  stamps of several branches' events do not follow their commits.
  `docs/MAZETTO_DESKTOP_MASTER_PLAN.md:399` says that the events of a failed refresh
  are retried. `NothingSkipped` says what holds: such a panel is labelled, is being reloaded, or
  reports that its reload failed.

- `FreshTokenUnblocks` (`DesktopOutbox`): retrying with a fresh token after a 401
  makes it the active token without lifting the block; the scope stays blocked
  until the token changes once more.
- `LaneOrder` with two scopes of one actor: their rows are drained by two loops,
  and a lane is held back within one scope only.
- `ResentOnce` (`NotificationOutbox`): the operator's resend does not claim the
  letter; two requests both send.
- `NeverOverdrawn` (`CashCustody`): a forced handover and a refund decide from a
  snapshot that a handover (which only locks the shift) does not invalidate, so a
  drawer may pay out more than it holds, which the message at
  `shifts.service.ts:223` rules out. With the forced handover in `Overlapping`
  two handovers can also carry the same cash (`SourcesNotDoubled`).
- `PaperOnce` (`ReceiptPrinting`): the order's document comes out twice when the
  server's job for it is claimed by another desktop, or before the answer that
  carries the order's server id has arrived;
  `docs/MAZETTO_AUDIT_2026-10-10.md:90` says that the duplicate is suppressed.
  `PaperOnceInTurn` of `print` says when it is.
- `NeverTwoRuns` (`IdempotencyKeys`): `start` reclaims a row five minutes after its
  claim, whether or not its run is alive; the same mutation then runs twice at
  once. `docs/implementation/phase-0-foundation.md:24` says that an in-progress
  duplicate is rejected rather than run twice. `EffectOnce` says that it still
  takes effect once.
- In a browser a pass that failed or was declined is repeated only by the next
  signal, reconnection or return to the window: there is no timer.
- Two forced closings with handovers both ways wait for each other's shift;
  PostgreSQL ends one, which is tried up to three times.
- Nothing sets a print job to PRINTED, so the conditions on that status
  (`receipts.service.ts:162`, `printers.service.ts:83,170`) never hold.
- `looksLikeId` (`gateway.ts:3959-3978`) takes the words "payments",
  "receipts" and "customers" for ids; unrelated commands then share a lane.
- `syncKitchenTickets` moves a ticket without its version, so a stale kitchen
  screen passes the version check.
- The kitchen completing a dine-in order does not release the table; a payment
  then finds it completed, and the table stays OCCUPIED until staff free it.
- The kitchen may cancel an order that holds money (`CancelledWithoutMoney`
  names this exception), and returns no stock.
- An order whose ticket is closed and that goes back to NEW cannot be confirmed
  again: the second ticket breaks a unique index. A payment of a NEW order
  completes it without stock or ticket.
- Confirming an unchanged CONFIRMED order fails on the outbox's dedupe key; the
  model has the same outcome, nothing happens.
- A FAILED key is claimed anew (`idempotency.service.ts:58`), though
  `phase-0-foundation.md:24` calls failed records replayable outcomes.
- Adding an item without a version, repeated after a change of role or branch,
  adds it again: its row's scope names both, and `addItem` looks for no event.
- ADR-005 says workers deliver at least once; a job of unknown outcome is never
  sent again (and `AutomaticSendOnce` relies on it).
- With two backend processes the kitchen's message may end stale
  (`enqueueMessage` chains within a process only); `StaffSeesCurrent` is stated
  for one.

## 7. Abstractions, and what is not modelled

*DesktopOutbox.* One actor and branch; the optimistic projection shown while
offline, local receipts and the bulk purge are left out. Payloads are reduced to
the version they expect and the aggregates they name. That a key is applied once
is assumed here, and is what `EffectOnce` of `IdempotencyKeys` shows.

*NotificationOutbox.* One order; texts are the level they show. Which levels have
no message for the customer is a constant (`Silent`). No customer's job is of such a
level: the only place that inserts one does so when the new status has a text and
the customer a chat (kitchen.service.ts:759-766), and no code takes a chat away
again. A worker's `ignored` for a customer's job (no chat, no text) is therefore
never reached, and is not an exception `DeliveredWasPosted` has to make. An edit of the staff message that was aborted is handled, if
at all, before the operator's resend. "Message to edit not found", the direct
`notifyNewOrder` path, the limit of 500 dead letters, `pruneDeliveredHistory` and
bot callbacks are left out.

*TableOrders.* One table, orders of the till, prices of 1, every item has a
recipe and goes to the kitchen, payments in cash; an item's stock is a status,
and the effect of a changed quantity on it is left out. `EditItem` is any edit of
a line and only increments the version; quantity and modifiers cannot be edited
once the order has payments, the notes can. Left out as well:
`createOrder` with its checkout, deletion, the customer's cancellation,
`paymentStatus`, tenders and events. A second ticket of an order is
refused, as the unique index on order and revision does.

*CashCustody.* One branch; amounts are small numbers and cash only. What the
cashier counted, the closing's report and the repetition of a request under the
same idempotency key (answered from the stored result) are left out. A till row
is a sale, an entry or a refund, whichever payment or expense it stands for;
their number per shift is a bound, refunds are bounded by what was sold.

*ReceiptPrinting.* One order's document and its reprint. A printer that refuses
has put out no paper; one that does not answer may have. The server's claim is
one step because its update is guarded by the status and the lease it read. If
the desktop cannot write the outcome of its own copy, the row is taken up again
when the worker next recovers it. Rendering, the discovery of printers, raw TCP
printing without a local record, the polling back-off, and the deletion and
restoration of receipts are left out.

*IdempotencyKeys.* One order; only what follows from keys and versions decides
whether a mutation is executed, any other rule may refuse it at any time
(`Rollback`). The body of a replay is the order as it is now, hence left out, as
are requests without a key and `correlationId`. A client names a version it has
seen. Whether the order already has the status a plain update asks for is left
open, as is the status itself. Rows are never deleted.

*RealtimeCatchUp.* One panel, one event per transaction, and no transaction is
rolled back (a number that is given back is given again); events of branches the
panel does not show are left out, as is the deletion of an order, which takes its
events with it. Stamps are taken by one clock, at the insert, after
the row of the branch is held, and never repeat. Which branch goes first on a page
is left open; the cursors in SQLite and in the browser are one, whose write may
fail each time. What a load shows is the set of changes it includes; the
optimistic projection and the menu are left out. The requests of one load count as
one answer: on a desktop the waiter's panel makes only one, and of a panel that
makes several the label is taken to be that of what it shows. Any panel may await a
second load (`Detail`), though only the waiter's does; what that load shows is not
compared with the cursor.

*Not modelled:* the counter's checkout, customer and Telegram ordering, and sign-in with its throttle (section 8); inventory quantities, catalogue, staff, settings, reports,
maintenance, the Electron shell and the print agent (CRUD, queries or I/O
without a protocol of their own); and the web front ends, which are about half
of the repository's lines. But for the cursor of a
panel they render what the backend answers and hold no
authoritative state, so what they get wrong is not a matter of states and steps;
`docs/DOMAIN_RULES.md` (rule 12) requires it so. The models accordingly cover a
small part of the repository's lines, and the part in which its components
coordinate.

## 8. Plan

Done: `DesktopOutbox` with `LaneDelivery`, `NotificationOutbox`, `TableOrders`,
`CashCustody`, `ReceiptPrinting`, `IdempotencyKeys` with `OnceByKey`, and
`RealtimeCatchUp`, each with its proofs. What would come next, in order of
importance:

1. `TableOrders` extended to the counter's checkout, customer orders and
   their cancellation, deletion; a run for the tables left OCCUPIED.
2. Telegram checkout sessions, sign-in throttle.

Proofs to come: what the runs do not ask, such as an abstract specification of
`ReceiptPrinting`, and the overdrawn drawer of `CashCustody` where neither a refund
nor a forced handover overlaps.
