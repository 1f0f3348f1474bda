----------------------------- MODULE TaskBatch -----------------------------
(***************************************************************************)
(* The batch driver (src/platform/tasks/batch.ts): one task run over many  *)
(* inputs, under a budget, with pause, resume, cancel, rerun and crashes.  *)
(*                                                                         *)
(* The driver's handlers are synchronous; between them run the batch's own *)
(* runs, which share one spend account (SpendBalances) with the driver's   *)
(* anchor.  Every handler ends in pump(), a loop that asks the door for    *)
(* runs: `pumping' is that loop, in which nothing else happens.  A control *)
(* (unlike a run's end) tidies up after it with settleIdle().              *)
(*                                                                         *)
(* Disk: the batch record, its items, a ticket and an index line per run,  *)
(* and the usage ledger.  Handlers write what they change, so memory holds *)
(* beside it only `lb' and the runs.  The door answers a request as it     *)
(* likes (RunAdmission says how it chooses); run ids are used again once   *)
(* no item names them.  Counts and cost are derived from the items.        *)
(***************************************************************************)
EXTENDS Integers, Sequences, FiniteSets, SequencesExt

CONSTANTS
    NumItems, NumRunIds,
    Concurrency,
    FirstBudget,        \* budgetUsd at create
    Budgets,            \* what a resume may set it to
    MinCall, MaxCall,   \* least worthwhile and most output of a call, in dollars
    CallCosts,          \* what a call may come to cost
    StopAfter, MinPass, \* stopWhen.afterItems; minPassRate in percent
    Endings,            \* how a run may come out
    Verdicts,           \* what the judge or a person may say of a deliverable
    Controls,           \* the controls people use
    MaxCrashes,         \* bound on crashes and restarts
    MaxUnbilled         \* bound on what runs that throw have used

ASSUME BatchConstants ==
    /\ NumItems \in Nat \ {0} /\ NumRunIds \in Nat /\ NumRunIds >= NumItems
    /\ Concurrency \in Nat \ {0} /\ FirstBudget \in Nat /\ Budgets \subseteq Nat
    /\ MinCall \in Nat \ {0} /\ MaxCall \in Nat /\ MinCall <= MaxCall
    /\ CallCosts \subseteq 1..MaxCall
    /\ StopAfter \in Nat \ {0} /\ MinPass \in 0..100
    /\ Endings \subseteq {"produced", "failed", "cancelled"}
    /\ Verdicts \subseteq {"none", "pass", "fail", "uncertain"}
    /\ Controls \subseteq {"pause", "resume", "cancel", "rerun"} /\ MaxCrashes \in Nat
    /\ MaxUnbilled \in Nat

Items == 1..NumItems
RunIds == 1..NumRunIds
Anchor == NumRunIds + 1     \* the driver's own hold
NoRun == 0
Account == "batch"

VARIABLES
    batch,    \* the record: state, budget, why it is paused, stop rule disarmed
    items,    \* index -> state, run, execution, verdict, cost
    file,     \* run -> ticket, whether its index line is written, its record, and
              \* what the usage ledger says its completed calls cost (used)
    lb,       \* the driver's memory of the batch (LiveBatch)
    run,      \* the runs this process carries
    pumping,
    proc,     \* none (before create), down, up, stopping
    holders, balance, reserved, hold, reservation, call, excess,
    spent,    \* history: what the batch's runs really cost
    unbilled, \* history: what runs that threw had used, which no record tells
    escaped,  \* history: how spend may have escaped the books (see BudgetHolds)
    crashes

balVars == <<holders, balance, reserved, hold, reservation, call, excess>>
disk == <<batch, items, file>>
history == <<spent, unbilled, escaped, crashes>>
vars == <<disk, lb, run, pumping, proc, balVars, history>>

Bal == INSTANCE SpendBalances
    WITH NumRuns <- Anchor, Accounts <- {Account},
         Names <- [r \in 1..Anchor |-> {Account}],
         UnitOf <- [a \in {Account} |-> "usd"],
         RateIn <- [r \in 1..Anchor |-> 0], RateOut <- [r \in 1..Anchor |-> 1],
         Unpriced <- {Anchor},
         MaxTokens <- MaxCall, MaxCost <- MaxCall, MaxAmount <- MaxCall, MaxExcess <- 0

-----------------------------------------------------------------------------
(* Reading the state *)

SumCost(its) ==
    LET sum[i \in 0..NumItems] == IF i = 0 THEN 0 ELSE sum[i - 1] + its[i].cost
    IN  sum[NumItems]

RemainingUnclamped(b, its) == [a \in {Account} |-> b.budget - SumCost(its)]

(* accountsFor(): what a hold opened now would set the balance to. *)
Remaining(b, its) ==
    LET left == b.budget - SumCost(its) IN [a \in {Account} |-> IF left > 0 THEN left ELSE 0]

(* The live balance while anything holds the account, else the record's. *)
Left == IF holders[Account] > 0 THEN balance[Account] ELSE batch.budget - SumCost(items)

(* The items of a set, by index. *)
InOrder(S) ==
    LET upTo[i \in 0..NumItems] ==
            IF i = 0 THEN <<>>
            ELSE IF i \in S THEN Append(upTo[i - 1], i) ELSE upTo[i - 1]
    IN  upTo[NumItems]

PendingOf(its) == InOrder({i \in Items : its[i].state = "pending"})

FreshBatch(its) ==
    [live |-> TRUE, pending |-> PendingOf(its), outstanding |-> {}, anchored |-> FALSE,
     retry |-> FALSE, withdrawn |-> {}, waitForSettle |-> FALSE,
     endedSince |-> [r \in RunIds |-> FALSE]]

NotLoaded == [FreshBatch(items) EXCEPT !.live = FALSE, !.pending = <<>>]

(* load() *)
Loaded == IF lb.live THEN lb ELSE FreshBatch(items)

NewItem == [state |-> "pending", run |-> NoRun, execution |-> "none", verdict |-> "none", cost |-> 0]
NoRecord == [ticket |-> "none", line |-> FALSE, execution |-> "none", started |-> FALSE, cost |-> 0, used |-> 0]
NotCarried == [phase |-> "idle", item |-> 0, remaining |-> 0, called |-> FALSE, stop |-> "none",
               execution |-> "none"]

(* A run that left the queue without a slot: recorded, without a trigger. *)
NeverStarted(st) ==
    [ticket |-> "closed", line |-> TRUE, execution |-> st, started |-> FALSE, cost |-> 0, used |-> 0]

BackToPending(item) == [NewItem EXCEPT !.cost = item.cost]

Outcome(item, record, verdict) ==
    [item EXCEPT !.state = "done", !.execution = record.execution, !.verdict = verdict,
                 !.cost = @ + record.cost]

AnyDone(item) == item.state = "done"

IsRerunnable(item) ==
    item.state = "done" /\ (item.execution \in {"failed", "skipped", "cancelled"} \/ item.verdict = "fail")

OthersRunning(outstanding, its) == \E j \in outstanding : its[j].state = "running"

Count(its, verdict) == Cardinality({i \in Items : its[i].state = "done" /\ its[i].verdict = verdict})

(* applyStopRule(): pass / (pass + fail) fell below the rule; doubt counts
   towards the number of assessed items only. *)
BelowPassRate(b, its) ==
    LET pass == Count(its, "pass")
        judged == pass + Count(its, "fail")
    IN  /\ b.state = "running" /\ ~b.disarmed
        /\ judged + Count(its, "uncertain") >= StopAfter
        /\ 100 * pass < MinPass * judged

(* A record that never started is delivered before anything else can happen:
   its promise settles in the same turn as the handler that withdrew it. *)
Quiet == pumping = "no" /\ \A r \in RunIds : run[r].phase = "recorded" => file[r].started

-----------------------------------------------------------------------------
(* Parts of handlers.  b, d, its and rn are the record, the driver's memory,
   the items and the runs as the handler has them by then. *)

(* What is on disk about a run that no item names any more is never read. *)
Kept(its, f) == [r \in RunIds |-> IF \E i \in Items : its[i].run = r THEN f[r] ELSE NoRecord]

Proceed(b, d, its, rn) ==
    /\ batch' = b /\ lb' = d /\ items' = its /\ run' = rn /\ file' = Kept(its, file)
    /\ UNCHANGED <<balVars, escaped>>

ReleaseAnchor(d) == IF d.anchored THEN Bal!Release(Anchor) ELSE UNCHANGED balVars

(* Runs in flight while the driver gives up the account. *)
LeavesRunning(d, its) == IF OthersRunning(d.outstanding, its) THEN {"gap"} ELSE {}

Waiting(d, its) == {its[j].run : j \in {k \in d.outstanding : its[k].state = "queued"}}

(* Runs that wait at the door leave it, recorded as `st'. *)
LeaveQueue(d, its, rn, st) ==
    LET out == Waiting(d, its) IN
    /\ run' = [r \in RunIds |-> IF r \in out THEN [rn[r] EXCEPT !.phase = "recorded"] ELSE rn[r]]
    /\ file' = Kept(its, [r \in RunIds |-> IF r \in out THEN NeverStarted(st) ELSE file[r]])

(* pause() of a running batch *)
Pause(b, d, its, rn, reason) ==
    /\ batch' = [b EXCEPT !.state = "paused", !.reason = reason]
    /\ items' = its
    /\ lb' = [d EXCEPT !.retry = FALSE, !.anchored = FALSE, !.withdrawn = @ \cup Waiting(d, its)]
    /\ LeaveQueue(d, its, rn, "skipped")
    /\ ReleaseAnchor(d)
    /\ escaped' = escaped \cup LeavesRunning(d, its)

UnanchoredActivate(b, d, its, caller) ==
    /\ batch' = b /\ items' = its
    /\ lb' = [d EXCEPT !.waitForSettle = FALSE]
    /\ UNCHANGED balVars
    /\ pumping' = caller

(* activate(): the anchor is opened unless the driver has one, then pump(). *)
Activate(b, d, its, caller) ==
    /\ batch' = b /\ items' = its
    /\ lb' = [d EXCEPT !.waitForSettle = FALSE, !.anchored = TRUE]
    /\ IF d.anchored THEN UNCHANGED balVars ELSE Bal!Open(Anchor, Remaining(b, its))
    /\ pumping' = caller

(* settleIdle() of a batch that is not running: with no run in flight it leaves
   memory, completed first when it was paused with nothing left to run. *)
SettleIdle(b, d, its) ==
    /\ b.state # "running"
    /\ IF d.outstanding = {}
       THEN /\ batch' = IF b.state = "paused" /\ PendingOf(its) = <<>>
                        THEN [b EXCEPT !.state = "completed", !.reason = "none"] ELSE b
            /\ lb' = NotLoaded
            /\ ReleaseAnchor(d)
       ELSE batch' = b /\ lb' = d /\ UNCHANGED balVars

-----------------------------------------------------------------------------
(* pump() *)

CanAsk ==
    /\ pumping # "no" /\ batch.state = "running"
    /\ proc # "stopping" /\ ~lb.retry /\ ~lb.waitForSettle
    /\ Cardinality(lb.outstanding) < Concurrency
    /\ lb.pending # <<>>

BudgetSpent == Left <= 0

(* requestItem() that the door admits, at once or to its queue.  A run that
   starts is given the account as it stands now, and opens it later. *)
AskItem(started) ==
    LET i == Head(lb.pending)
        r == CHOOSE x \in RunIds : run[x].phase = "idle" /\ \A j \in Items : items[j].run # x
    IN  /\ CanAsk /\ ~BudgetSpent
        /\ items' = [items EXCEPT ![i].state = IF started THEN "running" ELSE "queued", ![i].run = r]
        /\ lb' = [lb EXCEPT !.pending = Tail(@), !.outstanding = @ \cup {i}, !.endedSince[r] = FALSE]
        /\ run' = [run EXCEPT ![r] = [NotCarried EXCEPT
                      !.phase = IF started THEN "dispatched" ELSE "queued", !.item = i,
                      !.remaining = IF started THEN Remaining(batch, items)[Account] ELSE 0]]
        /\ file' = [file EXCEPT ![r] = [NoRecord EXCEPT !.ticket = IF started THEN "running" ELSE "queued"]]
        /\ UNCHANGED <<batch, pumping, proc, balVars, history>>

(* requestItem() refused: the queue is full, so ask again later ... *)
AskRefused ==
    /\ CanAsk /\ ~BudgetSpent
    /\ lb' = [lb EXCEPT !.retry = TRUE]
    /\ pumping' = "no"
    /\ UNCHANGED <<disk, run, proc, balVars, history>>

(* ... or the task's token budget is spent, or the task is gone; or, before any
   request, the batch's own budget is spent. *)
AskPauses(reason) ==
    /\ CanAsk
    /\ BudgetSpent => reason = "budget"
    /\ Pause(batch, lb, items, run, reason)
    /\ pumping' = IF pumping = "control" THEN "driver" ELSE "no"
    /\ UNCHANGED <<proc, spent, unbilled, crashes>>

PumpEnds ==
    /\ pumping # "no" /\ batch.state = "running" /\ ~CanAsk
    /\ proc = "stopping" \/ lb.retry \/ lb.waitForSettle \/ lb.outstanding # {}
    /\ pumping' = "no"
    /\ UNCHANGED <<disk, lb, run, proc, balVars, history>>

(* complete() *)
Complete ==
    /\ pumping # "no" /\ batch.state = "running"
    /\ proc # "stopping" /\ ~lb.retry /\ ~lb.waitForSettle
    /\ lb.outstanding = {} /\ lb.pending = <<>>
    /\ batch' = [batch EXCEPT !.state = "completed"]
    /\ lb' = NotLoaded
    /\ ReleaseAnchor(lb)
    /\ pumping' = "no"
    /\ UNCHANGED <<items, file, run, proc, history>>

PumpIdle ==
    /\ pumping # "no"
    /\ SettleIdle(batch, lb, items)
    /\ pumping' = "no"
    /\ UNCHANGED <<items, file, run, proc, history>>

RetryTimer ==
    /\ proc = "up" /\ Quiet /\ lb.retry
    /\ lb' = [lb EXCEPT !.retry = FALSE]
    /\ pumping' = "driver"
    /\ UNCHANGED <<disk, run, proc, balVars, history>>

-----------------------------------------------------------------------------
(* The batch's runs *)

(* A slot frees for a waiting run: startQueued(), then itemStarted(). *)
StartQueued(r) ==
    LET i == run[r].item IN
    /\ run[r].phase = "queued" /\ proc = "up" /\ Quiet
    /\ run' = [run EXCEPT ![r].phase = "dispatched", ![r].remaining = Remaining(batch, items)[Account]]
    /\ file' = [file EXCEPT ![r].ticket = "running"]
    /\ items' = [items EXCEPT ![i].state = IF items[i].run = r THEN "running" ELSE @]
    /\ UNCHANGED <<batch, lb, pumping, proc, balVars, history>>

(* The engine's run begins, long after dispatch. *)
RunOpens(r) ==
    /\ run[r].phase = "dispatched" /\ proc \in {"up", "stopping"} /\ Quiet
    /\ Bal!Open(r, [a \in {Account} |-> run[r].remaining])
    /\ run' = [run EXCEPT ![r].phase = "running", ![r].remaining = 0]
    /\ UNCHANGED <<disk, lb, pumping, proc, history>>

CallStarts(r, out) ==
    /\ run[r].phase = "running" /\ proc \in {"up", "stopping"} /\ Quiet
    /\ run[r].stop = "none" /\ call[r] = Bal!NoCall
    /\ Bal!CheckGranted(r, 0, MaxCall, MinCall, out)
    /\ UNCHANGED <<disk, lb, run, pumping, proc, history>>

CallRefused(r) ==
    /\ run[r].phase = "running" /\ proc \in {"up", "stopping"} /\ Quiet
    /\ run[r].stop = "none" /\ call[r] = Bal!NoCall
    /\ Bal!CheckRefused(r, 0, MaxCall, MinCall)
    /\ run' = [run EXCEPT ![r].stop = "batch"]
    /\ UNCHANGED <<disk, lb, pumping, proc, history>>

(* A completed call is debited and written to the usage ledger. *)
CallEnds(r, cost) ==
    /\ run[r].phase = "running" /\ proc \in {"up", "stopping"} /\ Quiet
    /\ call[r] # Bal!NoCall /\ cost <= call[r].output
    /\ Bal!Debit(r, 0, call[r].output, [a \in {Account} |-> cost])
    /\ file' = [file EXCEPT ![r].used = @ + cost]
    /\ spent' = spent + cost
    /\ run' = [run EXCEPT ![r].called = TRUE]
    /\ UNCHANGED <<batch, items, lb, pumping, proc, unbilled, escaped, crashes>>

(* The run ends, by itself, at a limit, aborted (which returns what it had used),
   or thrown before it opened anything; its hold is released here. *)
RunEnds(r, execution, stop) ==
    /\ run[r].phase \in {"dispatched", "running"}
    /\ proc \in {"up", "stopping"} /\ Quiet
    /\ execution = "produced" => run[r].called
    /\ run[r].stop = "batch" => stop = "batch" /\ execution \in {"produced", "failed"}
    /\ run[r].stop = "none" => stop \in {"none", "task"}
    /\ stop = "task" => run[r].phase = "running" /\ execution \in {"produced", "failed"}
    /\ IF run[r].phase = "running" THEN Bal!Release(r) ELSE UNCHANGED balVars
    /\ run' = [run EXCEPT ![r].phase = "ended", ![r].execution = execution, ![r].stop = stop]
    /\ UNCHANGED <<disk, lb, pumping, proc, history>>

(* It throws (any error but an abort), also after completed calls: the scheduler
   records it with no tokens and no cost, as if it had never called.  (Where an
   abort raced the error the record says cancelled or skipped, which the driver
   treats as it does a failed run that used nothing.) *)
RunThrows(r) ==
    /\ run[r].phase = "running" /\ unbilled + file[r].used <= MaxUnbilled
    /\ proc \in {"up", "stopping"} /\ Quiet
    /\ Bal!Release(r)
    /\ run' = [run EXCEPT ![r].phase = "ended", ![r].execution = "failed",
                          ![r].stop = "none", ![r].called = FALSE]
    /\ UNCHANGED <<disk, lb, pumping, proc, history>>

(* updateAfterRun() writes the record, with the cost of the calls it tells of. *)
Recording(r) ==
    [ticket |-> "running", line |-> TRUE, execution |-> run[r].execution, started |-> TRUE,
     cost |-> IF run[r].called THEN file[r].used ELSE 0, used |-> file[r].used]

(* The ticket of a recorded run; the ledger is never read for it again. *)
Closed(f) == [f EXCEPT !.ticket = "closed", !.used = f.cost]

Record(r) ==
    /\ run[r].phase = "ended" /\ proc \in {"up", "stopping"} /\ Quiet
    /\ file' = [file EXCEPT ![r] = Closed(Recording(r))]
    /\ unbilled' = unbilled + file[r].used - Recording(r).cost
    /\ run' = [run EXCEPT ![r].phase = "recorded"]
    /\ UNCHANGED <<batch, items, lb, pumping, proc, balVars, spent, escaped, crashes>>

(* A person cancels one waiting run. *)
CancelQueued(r) ==
    /\ run[r].phase = "queued" /\ proc = "up" /\ Quiet
    /\ file' = [file EXCEPT ![r] = NeverStarted("cancelled")]
    /\ run' = [run EXCEPT ![r].phase = "recorded"]
    /\ UNCHANGED <<batch, items, lb, pumping, proc, balVars, history>>

CountsEveryRun(r) == TRUE

(* Only a run whose record tells of a model call counts as one that reserved. *)
Settles(r) == run[r].called

(* reservedOut(): the refusal came from reservations, not from spend. *)
ReservedOut(r, outstanding) ==
    /\ lb.endedSince[r] \/ OthersRunning(outstanding, items)
    /\ Left > 0

(* settleItem(): whether the item gets another turn. *)
RunsAgain(r) ==
    \/ ~file[r].started /\ (proc = "stopping" \/ r \in lb.withdrawn)
    \/ run[r].stop = "batch" /\ file[r].execution \in {"failed", "skipped"}

NotRequeued(i, pending) == pending

Requeue(i, pending) == <<i>> \o pending

(* itemEnded(): the run is recorded and assessed, and its promise settles. *)
ItemEnded(r, verdict) ==
    LET i == run[r].item
        settled == Outcome(items[i], file[r], verdict)
        next == IF ~RunsAgain(r) THEN settled
                ELSE IF batch.state = "cancelled"
                     THEN [BackToPending(settled) EXCEPT
                              !.state = "done", !.execution = "cancelled"]
                     ELSE BackToPending(settled)
        its == [items EXCEPT ![i] = next]
        rn == [run EXCEPT ![r] = NotCarried]
        out == lb.outstanding \ {i}
        stoppedByBatch == run[r].stop = "batch"
        reservedOut == stoppedByBatch /\ ReservedOut(r, out)
        d == [lb EXCEPT
                !.outstanding = out,
                !.withdrawn = @ \ {r},
                !.endedSince = [x \in RunIds |-> x # r /\ run[x].phase # "idle" /\ (@[x] \/ Settles(r))],
                !.pending = IF next.state = "pending" /\ proc # "stopping" THEN Requeue(i, @) ELSE @,
                !.waitForSettle = reservedOut /\ OthersRunning(out, items)]
        reason == IF (stoppedByBatch /\ ~reservedOut) \/ run[r].stop = "task" THEN "budget"
                  ELSE IF BelowPassRate(batch, its) THEN "pass_rate" ELSE "none"
    IN  /\ run[r].phase = "recorded" /\ proc \in {"up", "stopping"} /\ pumping = "no"
        /\ IF file[r].execution = "produced" THEN verdict \in Verdicts ELSE verdict = "none"
        /\ IF batch.state = "running" /\ reason # "none"
           THEN Pause(batch, d, its, rn, reason)
           ELSE Proceed(batch, d, its, rn)
        /\ pumping' = "driver"
        /\ UNCHANGED <<proc, spent, unbilled, crashes>>

-----------------------------------------------------------------------------
(* People *)

Create ==
    /\ proc = "none"
    /\ proc' = "up"
    /\ Activate([batch EXCEPT !.state = "running"], FreshBatch(items), items, "driver")
    /\ UNCHANGED <<file, run, history>>

ControlPause ==
    /\ "pause" \in Controls /\ proc = "up" /\ Quiet
    /\ batch.state = "running"
    /\ Pause(batch, lb, items, run, "manual")
    /\ pumping' = "driver"
    /\ UNCHANGED <<proc, spent, unbilled, crashes>>

(* setBudget(): more than was spent, and another one only while nobody holds
   the account. *)
MaySet(budget) ==
    budget # batch.budget => budget > SumCost(items) /\ holders[Account] = 0

Disarmed(b) == b.disarmed \/ b.reason = "pass_rate"

Running(b) == [b EXCEPT !.state = "running", !.disarmed = Disarmed(b), !.reason = "none"]

ControlResume(budget) ==
    /\ "resume" \in Controls /\ proc = "up" /\ Quiet
    /\ batch.state = "paused"
    /\ MaySet(budget)
    /\ Activate([Running(batch) EXCEPT !.budget = budget], Loaded, items, "control")
    /\ UNCHANGED <<file, run, proc, history>>

(* controlCancel(): pending items are done; runs that wait leave the queue as
   cancelled, those that run are aborted and end by themselves. *)
ControlCancel ==
    LET its == [i \in Items |-> IF items[i].state = "pending"
                                THEN [items[i] EXCEPT !.state = "done", !.execution = "cancelled"]
                                ELSE items[i]]
        d == [Loaded EXCEPT !.pending = <<>>, !.retry = FALSE, !.anchored = FALSE]
    IN  /\ "cancel" \in Controls /\ proc = "up" /\ Quiet
        /\ batch.state \in {"running", "paused"}
        /\ batch' = [batch EXCEPT !.state = "cancelled", !.reason = "none"]
        /\ items' = its
        /\ lb' = IF d.outstanding = {} THEN NotLoaded ELSE d
        /\ LeaveQueue(d, its, run, "cancelled")
        /\ ReleaseAnchor(Loaded)
        /\ escaped' = escaped \cup LeavesRunning(d, its)
        /\ UNCHANGED <<pumping, proc, spent, unbilled, crashes>>

(* controlRerun(): the items that did not come out well are pending again. *)
ControlRerun ==
    LET again == InOrder({i \in Items : IsRerunnable(items[i])})
        its == [i \in Items |-> IF IsRerunnable(items[i])
                                THEN BackToPending(items[i]) ELSE items[i]]
        d == [Loaded EXCEPT !.pending = @ \o again]
    IN  /\ "rerun" \in Controls /\ proc = "up" /\ Quiet
        /\ batch.state \in {"running", "paused", "completed"}
        /\ again # <<>>
        /\ Activate(IF batch.state = "running" THEN batch ELSE Running(batch), d, its, "control")
        /\ file' = Kept(its, file)
        /\ UNCHANGED <<run, proc, history>>

(* syncRun(): a person's verdict on an item's current run. *)
SyncRun(i, verdict) ==
    /\ items[i].state = "done" /\ items[i].execution = "produced" /\ items[i].verdict # verdict
    /\ proc = "up" /\ Quiet
    /\ items' = [items EXCEPT ![i].verdict = verdict]
    /\ IF batch.state = "running" THEN UNCHANGED <<batch, lb, balVars>> ELSE SettleIdle(batch, Loaded, items')
    /\ UNCHANGED <<file, run, pumping, proc, history>>

-----------------------------------------------------------------------------
(* The process *)

Lost ==
    /\ proc' = "down" /\ pumping' = "no"
    /\ lb' = NotLoaded
    /\ run' = [r \in RunIds |-> NotCarried]
    /\ holders' = Bal!Nothing /\ balance' = Bal!Nothing /\ reserved' = Bal!Nothing
    /\ excess' = Bal!Nothing
    /\ hold' = [r \in 1..Anchor |-> "closed"]
    /\ reservation' = [r \in 1..Anchor |-> Bal!Nothing]
    /\ call' = [r \in 1..Anchor |-> Bal!NoCall]

Crashes == crashes < MaxCrashes /\ crashes' = crashes + 1

Crash ==
    /\ proc \in {"up", "stopping"}
    /\ Crashes /\ Lost
    /\ UNCHANGED <<disk, spent, unbilled, escaped>>

(* The process dies between a run's index line and its ticket. *)
CrashBeforeTicket(r) ==
    /\ run[r].phase = "ended" /\ proc \in {"up", "stopping"} /\ Quiet
    /\ file' = [file EXCEPT ![r] = Recording(r)]
    /\ Crashes /\ Lost
    /\ UNCHANGED <<batch, items, spent, unbilled, escaped>>

(* stop(): the driver gives up its anchor and asks for nothing more; then the
   scheduler drops what waits and aborts what runs. *)
Stop ==
    /\ proc = "up" /\ Quiet /\ crashes < MaxCrashes
    /\ crashes' = crashes + 1
    /\ proc' = "stopping"
    /\ lb' = [lb EXCEPT !.retry = FALSE, !.anchored = FALSE]
    /\ LeaveQueue(lb, items, run, "skipped")
    /\ ReleaseAnchor(lb)
    /\ escaped' = escaped \cup LeavesRunning(lb, items)
    /\ UNCHANGED <<batch, items, pumping, spent, unbilled>>

Exit ==
    /\ proc = "stopping" /\ pumping = "no"
    /\ Lost
    /\ UNCHANGED <<disk, history>>

SettledUnread(f) ==
    IF f.ticket = "running"
    THEN [f EXCEPT !.ticket = "closed", !.line = TRUE, !.execution = "failed", !.started = TRUE]
    ELSE NeverStarted("skipped")

(* settleLostRun(): an open ticket is settled from the run's index line, or the
   run is recorded as failed, or as skipped when it never started. *)
SettledFile(f) ==
    IF f.line THEN Closed(f)
    ELSE IF f.ticket = "running"
         THEN [f EXCEPT !.ticket = "closed", !.line = TRUE, !.execution = "failed", !.started = TRUE]
         ELSE NeverStarted("skipped")

Unsettled == {i \in Items : items[i].state \in {"queued", "running"}}

(* settleLostItem() and chargeLostRuns(): a run whose ticket still said running
   is charged what the ledger says. *)
ChargeNothing(f) == 0

LostCharge(f) == IF f.ticket = "running" THEN f.used ELSE 0

Reconciled(i) ==
    LET r == items[i].run
        f == file[r]
    IN  IF i \notin Unsettled THEN items[i]
        ELSE IF SettledFile(f).started
        THEN [Outcome(items[i], SettledFile(f), "none") EXCEPT !.cost = @ + LostCharge(f)]
        ELSE IF batch.state = "cancelled"
        THEN [BackToPending(items[i]) EXCEPT !.state = "done", !.execution = "cancelled"]
        ELSE BackToPending(items[i])

SettledFiles ==
    [r \in RunIds |-> IF \E i \in Unsettled : items[i].run = r THEN SettledFile(file[r]) ELSE file[r]]

(* start(): reconcile(), then a running batch is driven again. *)
Boot ==
    LET its == [i \in Items |-> Reconciled(i)] IN
    /\ proc = "down"
    /\ proc' = "up"
    /\ file' = Kept(its, SettledFiles)
    /\ IF batch.state = "running"
       THEN Activate(batch, FreshBatch(its), its, "driver")
       ELSE SettleIdle(batch, FreshBatch(its), its) /\ items' = its /\ pumping' = "no"
    /\ UNCHANGED <<run, history>>

(* It dies after the tickets are settled and before the items are written (once:
   settling them again changes nothing). *)
CrashInReconcile ==
    /\ proc = "down" /\ Unsettled # {} /\ "torn" \notin escaped
    /\ file' = SettledFiles
    /\ escaped' = escaped \cup {"torn"}
    /\ UNCHANGED <<batch, items, lb, run, pumping, proc, balVars, spent, unbilled, crashes>>

-----------------------------------------------------------------------------

Init ==
    /\ batch = [state |-> "none", budget |-> FirstBudget, reason |-> "none", disarmed |-> FALSE]
    /\ items = [i \in Items |-> NewItem]
    /\ file = [r \in RunIds |-> NoRecord]
    /\ lb = NotLoaded
    /\ run = [r \in RunIds |-> NotCarried]
    /\ pumping = "no" /\ proc = "none"
    /\ Bal!Init
    /\ spent = 0 /\ unbilled = 0 /\ escaped = {} /\ crashes = 0

Ask ==
    \/ \E started \in BOOLEAN : AskItem(started)
    \/ AskRefused
    \/ \E reason \in {"budget", "unavailable"} : AskPauses(reason)

PumpStep == Ask \/ PumpEnds \/ Complete \/ PumpIdle

RunStep(r) ==
    \/ RunOpens(r)
    \/ \E out \in MinCall..MaxCall : CallStarts(r, out)
    \/ CallRefused(r)
    \/ \E cost \in CallCosts : CallEnds(r, cost)
    \/ \E execution \in Endings, stop \in {"none", "task", "batch"} :
          RunEnds(r, execution, stop)
    \/ RunThrows(r)

Settle(r) == Record(r) \/ \E verdict \in Verdicts \cup {"none"} : ItemEnded(r, verdict)

Control ==
    \/ ControlPause
    \/ \E budget \in Budgets \cup {batch.budget} : ControlResume(budget)
    \/ ControlCancel
    \/ ControlRerun
    \/ \E i \in Items, verdict \in Verdicts : SyncRun(i, verdict)

Next ==
    \/ Create
    \/ PumpStep
    \/ RetryTimer
    \/ \E r \in RunIds :
          StartQueued(r) \/ RunStep(r) \/ Settle(r) \/ CancelQueued(r) \/ CrashBeforeTicket(r)
    \/ Control
    \/ Crash \/ Stop \/ Exit \/ Boot \/ CrashInReconcile

Spec == Init /\ [][Next]_vars

(* What is synchronous completes, the door admits a run that keeps asking (its
   slots and queue are freed by runs that end), a run ends (its deadline aborts
   it) and is recorded, and a process that died is started again. *)
FairSpec ==
    /\ Spec
    /\ WF_vars(PumpStep) /\ SF_vars(\E started \in BOOLEAN : AskItem(started))
    /\ WF_vars(RetryTimer) /\ WF_vars(Exit) /\ WF_vars(Boot)
    /\ \A r \in RunIds :
          WF_vars(StartQueued(r)) /\ WF_vars(RunStep(r)) /\ WF_vars(Settle(r))

-----------------------------------------------------------------------------

TypeOK ==
    /\ batch \in [state : {"none", "running", "paused", "completed", "cancelled"}, budget : Nat,
                  reason : {"none", "manual", "budget", "pass_rate", "unavailable"}, disarmed : BOOLEAN]
    /\ items \in [Items -> [state : {"pending", "queued", "running", "done"}, run : RunIds \cup {NoRun},
                            execution : {"none", "produced", "failed", "skipped", "cancelled"},
                            verdict : Verdicts \cup {"none"}, cost : Nat]]
    /\ file \in [RunIds -> [ticket : {"none", "queued", "running", "closed"}, line : BOOLEAN,
                            execution : {"none", "produced", "failed", "skipped", "cancelled"},
                            started : BOOLEAN, cost : Nat, used : Nat]]
    /\ run \in [RunIds -> [phase : {"idle", "queued", "dispatched", "running", "ended", "recorded"},
                           item : 0..NumItems, remaining : Nat, called : BOOLEAN,
                           stop : {"none", "batch", "task"},
                           execution : {"none", "produced", "failed", "cancelled"}]]
    /\ pumping \in {"no", "driver", "control"} /\ proc \in {"none", "up", "stopping", "down"}
    /\ spent \in Nat /\ unbilled \in Nat /\ crashes \in 0..MaxCrashes

(* No item is lost and none has two runs: an item that is asked for has exactly
   the run that names it, every run carried is one of these, and every pending
   item stands once in the order in which the driver will ask for it.  Pause,
   cancel, rerun and restart all move items between the three. *)
ItemsAccounted ==
    proc = "up" /\ lb.live =>
        /\ lb.outstanding = {i \in Items : items[i].state \in {"queued", "running"}}
        /\ \A i \in lb.outstanding : items[i].run # NoRun /\ run[items[i].run].item = i
        /\ \A r \in RunIds : run[r].phase # "idle" => items[run[r].item].run = r
        /\ IsInjective(lb.pending)
        /\ ToSet(lb.pending) = {i \in Items : items[i].state = "pending"}

(* "running runs finish" and a process may die, yet a deliverable that was
   recorded reaches its item, and a good one is never run again. *)
HasDeliverable(i) ==
    /\ items[i].run # NoRun /\ file[items[i].run].line /\ file[items[i].run].execution = "produced"
    /\ items[i].verdict # "fail"

KeepsDeliverables(its) ==
    \A i \in Items : HasDeliverable(i) =>
        its[i].run = items[i].run /\ its[i].execution \in {items[i].execution, "produced"}

DeliverableKept == [][KeepsDeliverables(items')]_vars

(* "concurrent runs cannot together pass the budget": what the batch's runs cost
   stays within it while the driver keeps its anchor as long as runs are in
   flight, across gaps between runs, refused calls, reruns and raised budgets.
   A run that threw after completed calls is the exception: an account seeded
   from the items again has forgotten what it used, and the batch may pass its
   budget by that much and no more.
   (See BudgetAlwaysHolds for what a pause does to this.) *)
BudgetHolds == escaped = {} => spent <= batch.budget + unbilled

(* "boot charges a run lost in a crash from the usage ledger, so its spend still
   counts": whenever nothing is in flight, the items' cost covers all that was
   spent, unless the process died inside reconcile(), and but for what runs
   that threw had used, which their records do not tell. *)
Resting == proc = "up" /\ pumping = "no" /\ \A r \in RunIds : run[r].phase = "idle"

CostCovers == Resting /\ "torn" \notin escaped => SumCost(items) + unbilled >= spent

(* A running batch comes to rest: completed, paused or cancelled.  Two items
   that refuse each other the rest of the budget do not ask in turns for ever,
   and one that waits for a reservation to free is asked for again. *)
BatchSettles == (batch.state = "running") ~> (batch.state # "running")

(* "budgetUsd caps what the whole batch spends", also when it is paused and
   resumed with runs in flight. *)
BudgetAlwaysHolds == spent <= batch.budget

(* A run's cost is charged to its item once. *)
NotChargedTwice == Resting => SumCost(items) <= spent

=============================================================================
