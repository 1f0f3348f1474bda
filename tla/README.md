# A verification project for NimbleBrain

NimbleBrain is a TypeScript runtime for agents: it keeps workspaces,
connects them to MCP servers, runs chat turns and unattended tasks through an
engine that calls models and tools, and serves a web client. This directory holds
TLA+ modules for the parts of it in which several things happen at once, TLC
configurations that check them on small instances, and proofs, checked by TLAPS,
that hold for every instance.

Paths below are relative to the repository root.

## 1. Inventory

| Component | State it keeps | Operations | What is hard | What makes it correct |
|---|---|---|---|---|
| **Run admission** `src/runtime/admission.ts` | leases, running keys, slots held per workspace, a queue | `request`, `acquire` with a signal, `release`, `drain`, `cancel`, `withdraw`, `stop` | `drain` calls back into the runs it admits, and they call the pool again | limits, one run per key, counts that agree, fair shares, nobody starves |
| **Task scheduler** `src/platform/tasks/scheduler.ts`, `domain.ts` | definitions, active runs, queued runs, tickets; on disk task files, run index, tickets | timer tick, run now, run from an event, start of a queued run, recording, cancel, stop, recovery at start, edits | crash between any two writes, edits during a run, the slot given back before the record | no occurrence runs twice, no run is recorded twice, tickets close and agree |
| **Spend accounts** `src/runtime/spend.ts` | per account: holders, balance, reserved; per run: its reservations | `open`, `check`, `debit`, `release` | several runs calling a model at once on one budget; accounts that disappear with their last holder | runs together do not pass what was issued |
| **Task batches** `src/platform/tasks/batch.ts`, `batch-store.ts` | batch record, items, runs outstanding, an anchor on the account | `create`, `pump`, `itemStarted`, `itemEnded`, pause, resume, cancel, rerun, stop, `reconcile` | controls against runs in flight, requeue loops, crash recovery in two passes | no item lost or run twice, budget, spend accounted, the batch comes to rest |
| **Turns and their stream** `src/runtime/run-bus.ts`, `src/api/conversation-events.ts`, `src/api/routes/conversation-events.ts`, `web/src/api/conversation-stream.ts` | a buffered log per conversation, subscribers, the client's resume point | `begin`, `publish`, `end`, `cancel`, `reset`, log collection, subscribe, reconnect | late events of a stopped turn, the event cap, a lost connection | turns do not mix, one terminal frame, no gap or repetition |
| **Composition root** `src/runtime/runtime.ts` | the locks around chat turns, the pool, the bus | `startTurn`, `chat`, `cancelTurn`, `shutdown` | order of the two locks of a conversation | modelled where the parts above depend on it |
| **Agent engine** `src/engine` | messages, iteration and token counts, supervisor state | model call, tool calls, retry, compaction | retries against limits, cancellation between calls | limits hold, every tool call gets one result |
| **MCP sources, health monitor** `src/tools/mcp-source.ts`, `health-monitor.ts` | transport, `stopping`/`stopped`, restart counts | start, stop, restart, check tick | a restart that sleeps and does not look again; overlapping ticks | a source stopped on purpose stays stopped |
| **Connector lifecycle** `src/connectors/runtime` | installed connectors, connection states | install, connect, revalidate, uninstall | several of these on one connector at once | state matches what runs |
| **OAuth and credentials** `src/tools/workspace-oauth-provider.ts`, `oauth-refresh-fetch.ts`, `oauth-flow-registry.ts` | the stored tokens, a cache per provider, exchanges and what they recorded, pending flows | read, refresh, save, invalidate, sign in, disconnect | a rotating vendor revokes a token once it is spent, and several requests and providers hold copies of it | the good token is never lost, and a rotation alone never costs a sign-in |
| **Notifications** `src/notifications`, `src/platform/tasks/event-trigger.ts` | inbox, cursors, delivery ledger; in memory an index of retries, a chain of deliveries, batches | poll, append, position, prune, route, deliver, retry, resume | a crash between inbox, cursor and ledger; install and uninstall during a read | nothing skipped, stored twice or sent twice; every delivery comes to an end |
| **Conversation store** `src/conversation` | append-only event files, index | append, reconstruct, compact | a torn tail, compaction during a turn | reconstruction equals what was appended |
| **Workspace store, hooks** `src/workspace`, `src/hooks` | workspace records, registrations | serialized read-modify-write, reconcile | lost updates | every update survives |
| **API, orchestrator, usage, identity, permissions, files, skills, prompts, models, CLI, telemetry, web UI** | mostly request-local | request handling, text assembly, I/O | little that needs a model checker | – |

How they meet: every unattended run (scheduled, manual, from an event, of a
batch) asks the *pool* for a slot; the *scheduler* carries it, records it and
closes its ticket; a *batch* is a driver that asks the scheduler for many runs
and holds one *spend account* open for them; the engine checks every model call
of a run against the accounts the run names. A chat turn does not go through the
pool: it takes the *bus's* log and `chat()`'s lock of its conversation, and
clients follow it through the event stream. Notifications and hooks start tasks
through the scheduler's event trigger.

The hazards of these parts are listed at their lines in `PROJECT.json`, with the
properties that would catch each one.

## 2. Plan

1. `RunAdmission` – done, proved.
2. `TaskScheduler`, which has the pool inside it – done, proved.
3. `SpendBalances` – done, proved.
4. `TaskBatch`, which has the spend account inside it – done, proved.
5. `TurnStream` – done, proved.
6. `NotificationInbox`, and `NotificationRoutes`, which has the inbox inside it –
   done, proved.
7. `CredentialRefresh` – done, proved.
8. `SourceHealth`: the health monitor's ticks and back-off against start, stop and
   restart of an `McpSource`. Property: a source stopped on purpose is not revived.
9. Disconnecting a connector while a refresh is in flight; the engine's loop; then
   the conversation store and the connector lifecycle.

Proofs: the pool, the accounts, the scheduler, the batch, the turns, the notifications and
the refresh – done: every invariant and action property that a run checks of the composed
modules is a theorem.

## 3. Modules

Each definition is listed with the lines it models under `map` in `PROJECT.json`.
A definition directly before another one, with a name that says what it gets
wrong (`GrantUncounted` before `Grant`), is the mistaken variant used to see that
a property notices.

### RunAdmission

`leases`, `runningKeys`, `held`, `queue` and `stopped` are the variables of
`createRunAdmission`. The code is single-threaded, so each call is one action,
with one exception: `drain()` calls `onAdmit` of the run it admits, which may call
`request`, `release` or `cancel`. `draining` is that window: `DrainAdmit` is one
turn of the loop, and every other action is enabled between two turns.
`NextIndex` is the loop of `nextIndex()` with its early exit, as a recursive
function over the queue.

### TaskScheduler

Disk (`file`, `lines`, `ticket`), the process (`proc`, `run`) and the pool. A
run's path is dispatch (mark the task's in-flight run), executor, release of the
slot, index line, task save, ticket; `CrashAfterLine` and `CrashBeforeTicket` stop
between these writes and `Crash` anywhere else. `Boot`, `SettleInterrupted`,
`FinishBoot` are `start()`; `SettleLost` is the settlement of a ticket whose run
died with an earlier process. Time is none, future or due.

Left out: assessment and retry of a run, `dropWorkspace`, writes that fail, a
second `start()` in one process, the tick's wait for its runs, the order in which
deferred runs are offered a slot, the exact error counts (a failed run may or may
not disable its task), a cron without a next date. Batch runs are in `TaskBatch`.

### SpendBalances

The three units are one arithmetic with different rates (see the module's
header). A call is `CheckGranted`, which reserves the projected cost of the input
and the clamped output, then `Debit` with any cost those tokens may have, or another
check (a retry). `excess` records what input above its projection cost: the code
says that projections are estimates, so `NotOverspent` allows for exactly that.
Assumed of the outside: the provider honours the output ceiling, and failed calls
are not billed. The account a refusal names is not recorded.

### TaskBatch

`batch`, `items` and `file` are on disk, `lb` and `run` in memory; the account is
that of `SpendBalances`, with the driver's `Anchor` as one more holder. The
handlers are synchronous; `pumping` is the loop of `pump()` at the end of each, in
which nothing else happens. The door answers as it likes: how it chooses is
`RunAdmission`'s matter. `Boot` is `reconcile()` with both of its passes,
`CrashInReconcile` a crash between them.

A run ends in one of two ways. `RunEnds` returns what it used, and `Record` puts it on
the run's record, which its item is then charged. `RunThrows` is any error but an abort,
which may come after completed calls: the scheduler's catch (`scheduler.ts:2269-2292`)
records no tokens and no cost, so `batch.ts:802` charges the item nothing and
`batch.ts:820-822` does not count the run as one that had reserved (`Settles`). `spent` is
what the runs really cost, `unbilled` what such runs had used. `MaxUnbilled` bounds it.

What the model makes visible:

- What a run used before it threw was debited from the live balance, and so still counts
  while anything holds the account. Once nothing does, the next hold is issued from the
  items, which know nothing of it. Without any crash: a run calls (2 of 3 dollars) and
  throws, the batch is paused for another reason and leaves memory, a person resumes it,
  the account starts with 3 again, another call costs 2: the batch has spent 4. A run that
  used its whole time allowance, "having paid for all of it" (`scheduler.ts:580-583`),
  can go the same way. Hence the term `unbilled` in `BudgetHolds` and `CostCovers`, which say
  that the budget is passed, or the items' cost falls short, by that much and no more.
- A thrown run is not counted as settled, so an item that was refused because that run had
  reserved the rest may find nothing else to wait for: the batch pauses for its budget
  although money is left.

Left out: writes that fail, `dropWorkspace`, run promises that reject, batches
without a budget. Run ids are used again once no item names them, which keeps the
state space finite without a bound on the number of runs.

### TurnStream

`log` is the bus's `RunLog` of one conversation, `active` the conversation's place
in `activeConversations`, `timers` the armed collection timers, `viewer` the
clients: connection, frames on their way, resume point, and what they have shown.
`StartTurn`, `Settle`, `CancelTurn` and `Shutdown` are the bus's operations
together with what `runtime.ts` does around them in the same turn of the event
loop: `startTurn` (1355-1490), `chat`'s lock (1260-1276), `cancelTurn` (1300-1309),
`shutdown` (6023). A turn's promise settles in one drain of microtasks: the lock's
release, the terminal frame and `end` are one action. What the client does with a
frame follows `emitFrame` and the handlers of `web/src/hooks/chat-store.ts`: a terminal
frame or `idle` ends streaming, a `user.message` (`handleUserMessage`, line 946) begins it.
`Shutdown` empties the bus and breaks the connections; a client keeps what it shows and
reconnects (`Reconnecting`), without success until `Restart`, the next process, which has
neither logs nor locks.

Left out: `evict` (nobody calls it), heartbeats, a `chat()` call that does not go
through `startTurn`, the route's authorization.

Two consequences of the code that the model makes visible:

- Sequence numbers start at 1 with each turn while the client's `lastSeq` lives as
  long as its stream. A client that loses its connection in one turn and gets it
  back in another asks for frames after the old number and misses the beginning
  of the new turn. `SeenInOrder` is therefore stated for a stream that stayed with
  one turn. The client's own comment makes no such exception: `conversation-stream.ts:9-11`
  says that a dropped connection "resumes seamlessly with no gap or duplication", and
  18-19 that the reconnect is gapless.
- After Stop, a new turn passes `begin()` at once but is refused by `chat()`'s lock
  while the stopped turn unwinds. The request has been answered by then, so the
  refusal is an error frame on the stream.

### NotificationInbox

One connector's outbox read into one workspace's inbox. `read` is the poller's
read in three steps (`BeginRead` takes the stored cursor, `WriteEvents` is the answer
with the writes it causes, `AdvanceCursor` the cursor), `setup` is `notifyReady()`,
which positions the outbox before it calls the connector's `on_ready`. Both write the
cursor by compare-and-set, and `Uninstall` clears it between any two of their steps.
`WriteFails` stores the events before the one the inbox refused. `StopPolling` is an
orderly shutdown, `CrashInbox` is none; both end in `Reboot`. `created` counts how often
each event was stored, which the code does not know.

An answer and the writes it causes are one step, so that an answer is judged on the
day it is written. A read that spans midnight exactly at the age limit is left out, as
are a second `on_ready` at a time, answers that are no poll result, and cadence, budgets
and breakers.

### NotificationRoutes

The same, with what the dispatcher does with a stored item: one route with an agent
target (a task that is woken) and tools in their order. `agentRow` and `toolRow` are the
ledger, `chain` with `phase` the workspace's deliveries one at a time, `pending` the
index of retries, `woken` the items in a task's batches. `Restart` keeps the ledger and the
inbox and loses the rest; `Resume` reads the ledger at any time after it, since
`start()` does not wait for it. `Troubled` bounds everything that goes wrong: crashes,
stops, failed calls and writes, uninstalls, route edits.

Denied, skipped and failed are one outcome, a batch's window and its run one state.
Left out: `send_test`, marking as read, level ceilings, the note on an author without
access, the ceiling on a task's runs per hour.

What the model makes visible:

- Without its exception `NotSentAgain` does not hold: an item that is stored, and
  being delivered, while `resume()` waits for the list of workspaces is found pending
  on the ledger, indexed and sent once more (`routes.ts:198`, `220`). The comment at
  `routes.ts:217` reads that nothing delivered is sent again. The window is as short as
  listing the workspaces takes.
- The same scan closes a task's batch that is alive (`deferred`); its outcome is
  overwritten when the batch settles.
- A bootstrap read that is in flight at an uninstall writes its cursor afterwards:
  it started from no cursor and finds none. A reinstall then starts from it.
- A crash between storing an item and seeding its rows leaves the item unrouted: a
  repeated read finds it in the inbox and creates nothing (`dropped`).
- An outcome that could not be written leaves its row pending until the next start
  (`unwritten`).

### CredentialRefresh

One connection whose token pair is in one store. Tokens are numbers in the order of
issue. Each request is a record that goes through `auth()` of the MCP SDK: `tokens()`
(`ReadCached`, or `ReadStore` and `ReadLands`), the exchange (`Spend`, answered by
`Exchanged`, `Refused` or `Unavailable`), `saveTokens` (`Enqueue` into the provider's queue,
then `DropStale` or `BeginWrite` and `EndWrite`), and after a refusal
`invalidateCredentials` (`Invalidate`, `DeleteTokens`) and one second try. A request that
has nothing stored to refresh with is sent to sign in (`Reauthorize`), and so is every
request that shares an exchange whose retries ran out (`Unavailable`): the SDK cannot tell
an outage from a dead token, falls through to `redirectToAuthorization`, and without a
person there `notifyAuthLost()` reports the connection as to be signed in again
(`oauth-refresh-fetch.ts:10-21`, `workspace-oauth-provider.ts:1375-1380`). The credential
itself is kept. `exchanges`,
`issuedBy` and `refused` are the process-wide records of `oauth-refresh-fetch.ts`, by
token and not by hash. The vendor may rotate or not at every exchange, may refuse,
fail, and take a token back (`Revoked`, which also stands for a rotation whose answer was
lost, the case the code calls inherent).

Assumed: a request's steps are fast against the minute of the replay window
(`Unhurried`), and a provider that is signing in serves no request, since its source
is still in `start()`. `NoFlowInFlight` is no assumption but a guard of the code, in
another file: `startAuth` in `connectors/runtime/lifecycle.ts` lets one sign-in of a
connection run at a time (`authFlowsInFlight`), and holds that until the source is up.
`CredentialKept` needs it: the saves of two providers that sign in at once could reach the
store in the other order than the vendor answered. Left out: access tokens, client registration and `invalid_client`,
record writes that fail, disconnecting (a refresh in flight would store its answer
after the deletion), several pods, the limit of 8 on `servedRefreshTokens`, the flow
registry, whose two sides are synchronous.

`savingTokens` puts saves of one provider in turn. Two providers of a connection are
not kept apart: one may look at the store, the other write it, and the first then
write or delete on what it saw. `crossed` records that it happened; both properties are
stated for as long as it has not, and `CredentialKept` does not hold without that.

`Told` is every way in which a request is told to sign in again, `Outage(t)` the step that
gives the exchange of token `t` up. `NoFalseAlarm` has that one exception besides a
revocation: an outage of the vendor costs the requests that share the exchange a sign-in,
but no other request, and a rotation, a replay, a stale refusal or somebody else's exchange
costs none.

## 4. What TLC checks

| Run | Instance | Checked |
|---|---|---|
| `admission` | 7 requests of 3 workspaces, some sharing keys, one without a key; 2 slots, queue of 3 | `WithinLimits`, `OneRunPerKey`, `SlotsAccounted`, `WorkConserving`, `FairShare`, `NoStarvation` |
| `scheduler_recovery` | one budgeted once-task, 3 runs, 2 crashes, 1 edit | `TypeOK`, `OneLinePerRun`, `OnceAtMostOnce`, `NotRunTwice`, `OneRunPerTask`, `RanMeansFired` |
| `scheduler_queue` | a once-task and a recurring one, 1 slot, queue of 1, 1 crash, 1 edit | `TicketAgrees`, `NoSlotLeaks`, `TicketsClose` |
| `scheduler_edited_once` | a recurring task that may become a once-task, 1 crash | finding: `RanMeansFired` is violated |
| `spend` | 3 runs (one without known rates), a dollar and an output-token account | `TypeOK`, `ReservationsAccounted`, `NotOverspent` |
| `batch_controls` | 2 items at once, budget 3 for calls of 2, raised to 4 by a resume; resume, rerun; runs that throw after a call | `TypeOK`, `ItemsAccounted`, `BudgetHolds`, `DeliverableKept` |
| `batch_recovery` | the same without the raise, with one crash or restart, and one more inside `reconcile()`; pause, resume and cancel | `ItemsAccounted`, `CostCovers`, `DeliverableKept`, `BatchSettles` |
| `batch_paused_budget` | pause only, no run throws after a call | finding: `BudgetAlwaysHolds` is violated |
| `batch_lost_record` | one crash, no run throws after a call | finding: `NotChargedTwice` is violated |
| `turn_stream` | 3 turns, an event cap of 3, one client, shutdowns and restarts | `TypeOK`, `OneTurnAtATime`, `TerminalIsLast`, `SeenInOrder`, `StreamingEnds` |
| `notifications` | 1 event, a route to a task and a tool, 2 attempts, a retention of 0 days over 2 days, 2 troubles | `TypeOK`, `InstallEventsKept`, `CreatedOnce`, `NothingForgotten`, `NotSentAgain`, `DeliveriesSettle` |
| `credentials` | 2 requests on one provider or on two, 3 tokens, 2 sign-ins after the first | `TypeOK`, `CredentialKept`, `NoFalseAlarm` |

**Bounds.** In `admission`, three workspaces and more requests than slots and
places let every one of refused, queued, overtaken and withdrawn happen, and seven
requests give a workspace two waiters behind another's lease. Two crashes in
`scheduler_recovery` allow a crash during the recovery from a crash; three run ids
allow the occurrence's run, a rerun, and a requested run beside it. In `spend`,
amounts up to 5 and calls up to 2 tokens on each side leave room for one call, for
two, and for none. In the batches, a budget of 3 admits one call of 2 but not two,
which is what makes two concurrent items compete; raised to 4 it admits both. A
`MaxUnbilled` of 2 lets one run throw after its call, which is enough to seed an account
that has forgotten it; the runs that show the findings have 0, so that these do not rest on it. In
`turn_stream`, three turns let one be stopped, one be refused by the lock, and one
run after both; a cap of 3 lets a turn end by itself or by overflow; clients do not
influence one another, so one is enough. In `notifications` one event is enough for
every race of its reads, its cursor and its rows, since events meet only in the order
of the chain; a retention that ends with the second day lets it be pruned and asked for
again, two attempts are a retry and a last one, and two troubles are any two faults, a
crash during the recovery from a crash among them. In `credentials` three tokens are a
rotation of a rotated token, one rotation and a sign-in, or two sign-ins; two requests on one provider
share its cache and its queue, on two they meet in the store and in the exchanges.

**Fairness.** Always weak, of steps that the event loop or a timer takes sooner or
later: `drain`'s loop, `start()`, a promise's continuation. That a run ends (its
executor, its engine) is assumed of the runs of a task, whose executor enforces a limit
on each. It is not assumed of chat turns: `src/runtime/run-deadline.ts:8-9` gives one
without a per-run model credential no limit. A chat turn whose engine hangs keeps its viewers streaming
until somebody stops it, and `StreamingEnds` claims nothing else: it starts from a state in which
no turn runs. `TurnStream` assumes only that a client's request to subscribe is answered while
the server is up, and `Receive` below. In `FairSpec` of the notifications, calls are answered or
time out, retry and batch timers fire, `resume()` ends, and a process that was stopped
exits and is started again; a process that crashed is up again in the same step. Strong fairness is assumed twice. `AskItem` in
`TaskBatch`: a door that is asked again and again has a place at some time
(`NoStarvation` of the pool is why). `Receive` in `TurnStream`: a connection that is
made again and again delivers something at some time. Nothing is assumed of
people: controls, edits, deletions and Stop have no fairness, and neither do
crashes. `BatchSettles` is checked without rerun, since a person who
reruns for ever keeps a batch running.

`CHECK_DEADLOCK FALSE` stands where the program may come to rest: a stopped pool,
a settled batch, a conversation whose turns are over, run ids used up.

**Findings.** Three runs show the program doing what its comments or documents say
it does not; `PROJECT.json` quotes the lines.

- A recurring task edited into a once-task while its run is in flight, then a
  crash: the next start retires the new occurrence as run.
- Pausing a batch gives up the anchor while runs are in flight; an account seeded
  again before their cost is recorded lets the batch pass its budget. `BudgetHolds`
  says what remains true: without such a pause (or crash) the budget holds, but for
  what runs that threw had used (section 3).
- A process that dies between a run's index line and its ticket has that run
  charged twice at the next start.

## 5. What is proved

For every value of the constants that satisfies the named assumptions
(`RequestsFinite`, `WorkspaceAssumption`, `KeyAssumption`, `LimitAssumption` of the
pool; `RunAssumption`, `NameAssumption`, `UnitAssumption`, `RateAssumption`,
`BoundAssumption` of the accounts; `TaskConstants` of the scheduler, which entails the
pool's; `BatchConstants` of the batch, which entails the accounts'; `TurnAssumption`,
`CapAssumption` of the turns;
`InboxAssumption`, `RoutesAssumption` of the notifications; `CredentialAssumption` of the
refresh).

**RunAdmissionProofs.** `NextIndexIsFairChoice`: the loop, with its early exit,
returns the documented choice for every queue. The conjunction of `TypeOK`,
`WithinLimits`, `OneRunPerKey`, `SlotsAccounted` and `WorkConserving` is inductive, and
no part of it is alone: a release deletes its key, which is right only if no other
lease has it; the counts that `nextIndex()` reads are right only with the
accounting; conservation needs the loop to find an entry whenever there is one.
From it `PoolTypes`, `PoolLimits`, `PoolKeys`, `PoolAccounts`, `PoolConserves`, and
the action property `SlotsAreFairlyShared`.

**TaskSchedulerProofs.** The pool inside the scheduler first: `Admission` instances
`RunAdmissionProofs` with tasks for keys and workspaces, and the lemmas `Pool...` show
that each call of the scheduler is a step of that pool, so its invariant holds here too,
through crashes and restarts (`PoolPromisesKept`, `PoolUsedAsSpecified`,
`SchedulerSharesFairly`). The invariant has four more layers, each needing those below.
`RunsOK`: the queue holds the runs that wait, a run has its slot from the hand-over until
the executor or the record gives it back, and a task has one run under way; the pool's
keys alone do not give the last, since a slot may be free before the record is written.
`RecordsOK`: nothing is recorded of a run before it is over, and a requested run that is
carried has an open ticket; so the three places that write a line exclude one another.
`MarksMatchRuns`: the mark in a task's file is that of its scheduled run, whose ticket was
never opened, so recovery and `settleLostRun()` never record the same run.
`OccurrencesOK`: an occurrence whose executor was started is not armed unless its mark is
still in the file, and then the run, or the recovery that finds the mark, retires it; an
edit makes a new occurrence, numbered above all that were fired. From it `SchedulerTypes`,
`RecordedOnce`, `TicketsAgree`, `FiredAtMostOnce`, `NoOccurrenceTwice`, `OneRunAtATime`,
`SlotsDoNotLeak`. `RanWasFired` needs one layer more, `RansOK`, and one hypothesis on the
constants, `EditsKeepKind`: an edit that makes a recurring task a once breaks it
(`scheduler_edited_once`), because the mark of the recurring run has no moment of its own.
`TaskConstants` asks that `"none"`, the pool's absent key, is no task.

**SpendBalancesProofs.** The invariant adds to the checked properties that a call
in flight reserves exactly its projected cost (`CallsReserved`). `GrantFits` shows
that the clamp of the output leaves a worst case that fits, with its rounding;
`ChargeFits` that what is charged stays within the reservation apart from the
excess. From it `BalancesTypes`, `BalancesAccounted` and `BalancesNotOverspent`.

**TaskBatchProofs.** The account inside the batch first: `Money` instances
`SpendBalancesProofs`, and the lemmas `Money...` show that what a handler does to the
account is a step of it, so the account's invariant holds here too (`BatchAccount`).
`Structure` is what every handler may find and must leave, stated as `Consistent` of the
record, memory, items, runs and files as the handler has them by then, because `Pause`,
`Proceed` and `Activate` are given values that are not yet in any variable: each run that
is carried belongs to the one item in flight that names it, its file says how far it came,
and the order of asking lists the pending items once. `BatchTypes` needs in it that a run
number is free whenever an item is asked for (a pigeonhole over the items that have one).
From it `EveryItemAccounted`. `Structure` says nothing of money spent, so `Books` does.
Both speak of `Due`, what was spent less what runs that threw had used (`unbilled`), because
no record tells of that.
`Charged`: what the items paid and what the ledger has for the runs in flight covers what
is due; a run changes from one side to the other when its item ends, and at a restart,
where `Filed` says that a run without an open ticket and a record has spent nothing.
`Budgeted`: while somebody holds the account, what is left on it and what is due do not
pass the budget, and nobody runs without the driver's anchor; that carries the budget over
the moments at which the balance is issued again from the items' cost, which is where
`Charged` is needed; a run that throws only lowers what is due. From these `BatchWithinBudget` and `ItemsPayForRuns`.
`DeliverablesAreKept` is an action property of every step; it rests on `Deliveries`: a run
that produced something did start, so it is never the run that leaves the queue, is asked
for again or is settled as never started, and an item that is done repeats its run's
record, so what a rerun takes for failed is what the record says.

**TurnStreamProofs.** The log first. `Extends`: a call to the bus leaves the log
alone or adds one event of the calling turn to a running one, and ends it exactly
when that event is terminal, the cap's error included. That the caller is the
log's own turn is not in the call; it follows from `TurnsOK`: the lock is held
while a turn is alive, at most one is, and a log that runs belongs to it. From
these `TurnsDoNotMix` and `TerminalFrameIsLast`. Then the viewers. What a client has
seen says too little to be kept by a reconnection, so `ViewerOK` speaks of what it
has seen followed by what is on its way: as long as that stays with one turn it is
numbered from 1 (`InOrder`), while the connection is open it ends where the log ends
(`UpToDate`), it is never ahead of the log (`Published`), and the client's last
sequence number counts it. From these `StreamTypes` and `StreamIsSeamless`.

**NotificationRoutesProofs, the inbox.** About the composed `Spec`: `NextIsInboxStep` shows that the
dispatcher takes only the inbox's own steps there, or counts a fault. `InstallEventsKept`
needs to know what a read is about to cover (`ReadCovers`: every event between the
cursor it started at and the one it will write was stored or is too old), and the
compare-and-set, which lets that be added to what the stored cursor covers. `CreatedOnce`
rests on `ItemsForgotten`: an event whose item was pruned is too old to be answered,
because an item is stored no earlier than its event was emitted and `MaxAge` does not
exceed `Retention`. From these `InboxTypes`, `InstallKeepsEvents`, `StoredOnce`.

**NotificationRoutesProofs, the deliveries.** The ledger says which rows are open; the invariant says
who owes them. `OwedOnce`: outside `raced`, an entry of the index, the delivery at the
head and a retry in the chain exclude one another, and each is for a row that is still
pending; so whoever comes to call a tool calls it for a pending row, which is
`NotSentAgain`. That routing an item again could not break this follows from
`WaitsOnce` (an item waits once in the chain, before anything is planned for it), and
this from `Fresh` and the inbox's `CreatedOnce`: an item handed over was never in the
inbox before. `Callable` says that an open row has an attempt left. With
`NothingForgotten` their conjunction `RoutesInv` is inductive beside `InboxInv`. From it
`RoutesTypes`, `NothingIsForgotten`, `NothingIsSentAgain`.

**CredentialRefreshProofs.** The invariant has three layers. `Basic` is what a request in
each phase knows and what the exchanges record: a provider's saves stand in a queue whose
head is the one that writes, a rotated token has one successor, an answer that is carried
is still recorded (`Unhurried`), and whoever signs in is alone on its provider, with a
token nobody else has seen. `Kept` is stronger than `CredentialKept`, which no step keeps
by itself. A token that the store lacks must be carried by a request whose save will not
be dropped, and the store may be behind in two ways only (`SettledAt`): by one answer,
which a provider may serve already only if it is the one that writes it (`AwaitsSave`); or
by two, where a provider cached the first answer, spent it before it was stored, and saves
the second in turn behind it (`AwaitsTwo`). So `savingTokens` and the comparison of
`droppedStaleResult` do the work together. Until a sign-in is stored the store may be
behind by anything; what counts is with the sign-in. `Calm` is the same while the vendor
took nothing back, and adds that what a request uses on its second try is accepted or has
an answer at hand (`RetryOK`). From these `CredentialTypes`, `CredentialIsKept`, and the
action property `NoRotationCostsASignIn`, with the outage of a request's own exchange for
an exception. Both are under `crossed`, as in the run; without
`NoFlowInFlight` the layer of sign-ins is not inductive, and TLC has the counterexample.

`NatLemmas` has the induction over a set, which the proofs about loops and sums use, and
the arithmetic of prices.

**Only model-checked.** The liveness properties (`NoStarvation`, `TicketsClose`,
`BatchSettles`, `StreamingEnds`, `DeliveriesSettle`), which are out of the prover's reach:
they rest on fairness and `ENABLED`. The pool's `TypeOK` is proved and not run.

## 6. Not modelled

The components of the inventory without a module in section 3, for the reasons
`PROJECT.json` gives: planned for later (8 and 9 of the plan), or request handling,
text assembly and I/O without a protocol of their own. `SourceHealth` comes late because
its one hazard is a single unguarded step (the monitor restarts a source that was
stopped while it slept) and most of the rest is the transport of the MCP SDK. Nothing is said about what
models answer, about authorization, or about file formats and encodings.
