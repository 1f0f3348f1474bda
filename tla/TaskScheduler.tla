---------------------------- MODULE TaskScheduler ----------------------------
(***************************************************************************)
(* The task scheduler (src/platform/tasks/scheduler.ts) over the admission *)
(* pool, with what it keeps on disk, and crashes.                          *)
(*                                                                         *)
(* Disk: one file per task, a run index (lines), and a ticket per          *)
(* requested run.  Memory: the runs this process carries (run) and the     *)
(* pool.  A crash loses memory; the next process finds the disk.           *)
(*                                                                         *)
(* Every write of a task goes to its file and to the loaded definition     *)
(* together, and every edit reloads, so the loaded definition is the file. *)
(* What a run reads at dispatch and uses after its await is kept with it.  *)
(*                                                                         *)
(* Time is abstract: a next run is none, in the future, or due.  The error *)
(* streak is abstract: a failed run may disable its task.  A token budget  *)
(* is spent or not.                                                        *)
(***************************************************************************)
EXTENDS Integers, Sequences, FiniteSets, SequencesExt

CONSTANTS
    Tasks,
    RunsPerTask,    \* run ids of each task: the bound on what is dispatched
    Budgeted,       \* the tasks with a token budget
    Once,           \* the tasks whose first schedule is `once'; the others recur
    EditTo,         \* the kinds of schedule an edit may set, by task
    MaxEdits,       \* bound on schedule edits and enable/disable switches
    MaxCrashes,     \* bound on crashes
    MaxConcurrent, MaxQueued

ASSUME TaskConstants ==
    /\ IsFiniteSet(Tasks)
    /\ RunsPerTask \in Nat \ {0} /\ MaxEdits \in Nat /\ MaxCrashes \in Nat
    /\ Budgeted \subseteq Tasks /\ Once \subseteq Tasks
    /\ EditTo \in [Tasks -> SUBSET {"once", "recurring"}]
    /\ MaxConcurrent \in Nat \ {0} /\ MaxQueued \in Nat
    /\ "none" \notin Tasks           \* "none" is the pool's absent key

Runs == Tasks \X (1..RunsPerTask)
TaskOf(r) == r[1]
NoRun == <<>>
NoAt == 0                       \* no `at': a schedule that recurs
Ats == 0..(MaxEdits + 1)        \* occurrences of once schedules

Ended == {"success", "failure"} \* degraded and cancelled count as success, a timeout as failure
Closed == Ended \cup {"skipped", "cancelled"}

VARIABLES
    \* the pool, in memory
    leases, runningKeys, held, queue, stopped, draining,
    \* the process: down, booting (inside start()), running, stopped (after stop())
    proc,
    \* the runs this process carries
    run,
    \* the disk
    file, lines, ticket,
    \* history: bounds, and what was really executed
    edits, crashes,
    fired,      \* how often the executor was started for a once occurrence
    begun       \* the executor was started for the occurrence now due

poolVars == <<leases, runningKeys, held, queue, stopped, draining>>
diskVars == <<file, lines, ticket>>
history == <<edits, crashes, fired, begun>>
vars == <<poolVars, proc, run, diskVars, history>>

Pool == INSTANCE RunAdmission
    WITH Requests <- Runs, Workspaces <- Tasks, Keys <- Tasks,
         WorkspaceOf <- [r \in Runs |-> TaskOf(r)],
         KeyOf <- [r \in Runs |-> TaskOf(r)],
         NoKey <- "none"

-----------------------------------------------------------------------------
(* Reading the state *)

Carried(r) == run[r].phase \in {"queued", "starting", "executing", "ended"}

(* activeRuns: from dispatch until the record is written. stop() empties it,
   but a stopped scheduler starts nothing. *)
Active(r) == run[r].phase \in {"executing", "ended"}

AlreadyRunningInPool(t) == t \in runningKeys

AlreadyRunning(t) == t \in runningKeys \/ \E r \in Runs : TaskOf(r) = t /\ Active(r)
AlreadyQueued(t) == \E r \in Pool!Waiting : TaskOf(r) = t

(* duplicateOf() *)
Duplicate(t) == AlreadyRunning(t) \/ AlreadyQueued(t)

(* runNowBudgetRefusal(): only a disabled task is refused. *)
BudgetRefusal(t) == ~file[t].enabled /\ file[t].spent

NeverInIndex(r) == FALSE

(* readRuns(): whether the run's record is in its task's index. *)
InIndex(r) == lines[r] # <<>>

RunningTicket(r) == ticket[r] = "running"

(* isOpenRun() of a ticket's record *)
OpenTicket(r) == ticket[r] \in {"queued", "running"}

(* Nothing else runs between a slot's hand-over and the end of drain(). *)
Idle == ~draining /\ \A r \in Runs : run[r].phase # "starting"

NotCarried(phase) == [phase |-> phase, trigger |-> "none", onceAt |-> NoAt, status |-> "none"]

(* Run ids are fresh; each task uses its own in order. *)
Fresh(r) ==
    /\ run[r].phase = "new"
    /\ \A s \in Runs : TaskOf(s) = TaskOf(r) /\ s[2] < r[2] => run[s].phase # "new"

-----------------------------------------------------------------------------
(* Writing the disk *)

Closes(r, st) == [ticket EXCEPT ![r] = IF run[r].trigger = "manual" THEN st ELSE @]

(* A record of a run that never started.  Only a requested run has an id of its
   own; a skipped event run is recorded under a throw-away one. *)
NotStarted(r, st, manual) ==
    /\ lines' = [lines EXCEPT ![r] = IF manual /\ file[TaskOf(r)].exists THEN Append(@, st) ELSE @]
    /\ ticket' = [ticket EXCEPT ![r] = IF manual THEN st ELSE @]

FiredAtStored(onceAt, taskAt) == taskAt

(* The `at' updateAfterRun() compares: a default parameter replaces an absent
   one by the given task's own. *)
FiredAt(onceAt, taskAt) == IF onceAt = NoAt THEN taskAt ELSE onceAt

RetiredSwapped(f, outcome) == [f EXCEPT !.enabled = FALSE, !.next = outcome, !.done = "none"]

(* retireOnce() *)
Retired(f, outcome) == [f EXCEPT !.enabled = FALSE, !.next = "none", !.done = outcome]

Unmarked(f, r, onceAt) == f

(* markScheduledRunInFlight() *)
Marked(f, r, onceAt) == [f EXCEPT !.mark = r, !.markAt = onceAt]

(* updateAfterRun() on the file as it is now: the mark, the streak, the schedule
   and the budget; `nexts' is where a recurring schedule may land. *)
AfterRun(f, r, t, trigger, firedAt, st, nexts) ==
    LET unmarked == IF f.mark = r THEN [f EXCEPT !.mark = NoRun, !.markAt = NoAt] ELSE f
        streaked == {[unmarked EXCEPT !.enabled = e] :
                        e \in IF st = "failure" THEN {f.enabled, FALSE} ELSE {f.enabled}}
        moved == UNION {IF g.kind = "recurring"
                        THEN {[g EXCEPT !.next = n] : n \in nexts}
                        ELSE IF trigger = "scheduled" /\ g.at = firedAt
                             THEN {Retired(g, "ran")}
                             ELSE {g} : g \in streaked}
    IN  UNION {{[g EXCEPT !.spent = s, !.enabled = @ /\ ~s] :
                   s \in IF t \in Budgeted THEN BOOLEAN ELSE {FALSE}} : g \in moved}

(* The pool and the carried runs of a process that is gone. *)
Lost ==
    /\ leases' = {} /\ runningKeys' = {} /\ held' = [t \in Tasks |-> 0]
    /\ queue' = <<>> /\ stopped' = FALSE /\ draining' = FALSE
    /\ run' = [r \in Runs |-> IF run[r].phase = "new" THEN NotCarried("new") ELSE NotCarried("over")]
    /\ proc' = "down"
    /\ crashes < MaxCrashes /\ crashes' = crashes + 1

(* begun follows the occurrence: recomputing the next run ends it. *)
Moves(t, g) ==
    begun' = [begun EXCEPT ![t] = @ /\ g.kind = "once" /\ g.next = file[t].next]

-----------------------------------------------------------------------------

Init ==
    /\ leases = {} /\ runningKeys = {} /\ held = [t \in Tasks |-> 0]
    /\ queue = <<>> /\ stopped = FALSE /\ draining = FALSE
    /\ proc = "running"
    /\ run = [r \in Runs |-> NotCarried("new")]
    /\ file = [t \in Tasks |->
                 [exists |-> TRUE, enabled |-> TRUE,
                  kind |-> IF t \in Once THEN "once" ELSE "recurring",
                  at |-> IF t \in Once THEN 1 ELSE NoAt,
                  passed |-> FALSE, next |-> "future", done |-> "no",
                  mark |-> NoRun, markAt |-> NoAt, spent |-> FALSE]]
    /\ lines = [r \in Runs |-> <<>>]
    /\ ticket = [r \in Runs |-> "none"]
    /\ edits = 0 /\ crashes = 0
    /\ fired = [t \in Tasks |-> [a \in Ats |-> 0]]
    /\ begun = [t \in Tasks |-> FALSE]

(* dispatchRun() and executeAndRecord() up to the executor's await: the ticket,
   the mark (on the file as it is now, before anything runs), the start. *)
Dispatch(r, trigger) ==
    LET t == TaskOf(r)
        f == file[t]
        onceAt == IF trigger = "scheduled" /\ f.kind = "once" THEN f.at ELSE NoAt
    IN  /\ run' = [run EXCEPT ![r] = [phase |-> "executing", trigger |-> trigger,
                                      onceAt |-> onceAt, status |-> "none"]]
        /\ ticket' = [ticket EXCEPT ![r] = IF trigger = "manual" THEN "running" ELSE @]
        /\ file' = [file EXCEPT ![t] = IF trigger = "scheduled"
                                       THEN Marked(@, r, onceAt) ELSE @]
        /\ begun' = [begun EXCEPT ![t] = @ \/ trigger = "scheduled"]
        /\ fired' = [fired EXCEPT ![t][onceAt] = IF onceAt = NoAt THEN 0 ELSE @ + 1]

(* considerForDispatch(): a due task with a free slot starts.  One that waits in
   the queue, or finds no slot, stays due. *)
FireScheduled(r) ==
    LET f == file[TaskOf(r)] IN
    /\ proc = "running" /\ Idle /\ Fresh(r)
    /\ f.exists /\ f.enabled /\ f.next = "due"
    /\ ~AlreadyRunning(TaskOf(r))
    /\ Pool!RequestAdmitted(r)
    /\ Dispatch(r, "scheduled")
    /\ UNCHANGED <<proc, lines, edits, crashes>>

(* considerForDispatch() while the task runs: recorded as skipped, and the next
   run moves on so that the task is not due again at once. *)
SkipScheduled(t) ==
    /\ proc = "running" /\ Idle
    /\ file[t].exists /\ file[t].enabled /\ file[t].next = "due"
    /\ AlreadyRunning(t)
    /\ file' = [file EXCEPT ![t].next = "future"]
    /\ begun' = [begun EXCEPT ![t] = FALSE]
    /\ UNCHANGED <<poolVars, proc, run, lines, ticket, edits, crashes, fired>>

(* requestRunNow() and runFromEvent(): an event needs an enabled task. *)
MayRequest(r, trigger) ==
    LET t == TaskOf(r) IN
    /\ proc = "running" /\ Idle /\ Fresh(r)
    /\ file[t].exists
    /\ ~Duplicate(t)
    /\ IF trigger = "event" THEN file[t].enabled ELSE ~BudgetRefusal(t)

RequestStarts(r, trigger) ==
    /\ MayRequest(r, trigger)
    /\ Pool!RequestAdmitted(r)
    /\ Dispatch(r, trigger)
    /\ UNCHANGED <<proc, lines, edits, crashes>>

RequestWaits(r, trigger) ==
    /\ MayRequest(r, trigger)
    /\ Pool!RequestQueued(r)
    /\ run' = [run EXCEPT ![r].phase = "queued", ![r].trigger = trigger]
    /\ ticket' = [ticket EXCEPT ![r] = IF trigger = "manual" THEN "queued" ELSE @]
    /\ UNCHANGED <<proc, file, lines, history>>

(* A Run now that is refused is recorded as skipped and its ticket closed. *)
RequestRefused(r) ==
    LET t == TaskOf(r) IN
    /\ proc \in {"running", "stopped"} /\ Idle /\ Fresh(r)
    /\ file[t].exists
    /\ \/ proc = "stopped"
       \/ Duplicate(t)
       \/ BudgetRefusal(t)
       \/ ~Pool!HasFreeSlot /\ Len(queue) >= MaxQueued
    /\ run' = [run EXCEPT ![r] = NotCarried("over")]
    /\ NotStarted(r, "skipped", TRUE)
    /\ UNCHANGED <<poolVars, proc, file, history>>

(* A freed slot is handed to a waiting run... *)
HandOver(r) ==
    /\ \A s \in Runs : run[s].phase # "starting"
    /\ Pool!DrainAdmit
    /\ r \in leases' \ leases
    /\ run' = [run EXCEPT ![r].phase = "starting"]
    /\ UNCHANGED <<proc, diskVars, history>>

(* ... whose startQueued() reads the task again, which may have been deleted,
   disabled or have spent its budget while the run waited. *)
StartRefused(r) ==
    LET f == file[TaskOf(r)] IN
    \/ ~f.exists
    \/ run[r].trigger = "event" /\ ~f.enabled
    \/ run[r].trigger = "manual" /\ BudgetRefusal(TaskOf(r))

StartQueued(r) ==
    /\ run[r].phase = "starting"
    /\ ~StartRefused(r)
    /\ Dispatch(r, run[r].trigger)
    /\ UNCHANGED <<poolVars, proc, lines, edits, crashes>>

StartQueuedRefused(r) ==
    /\ run[r].phase = "starting"
    /\ StartRefused(r)
    /\ Pool!Release(r)
    /\ run' = [run EXCEPT ![r] = NotCarried("over")]
    /\ NotStarted(r, "skipped", run[r].trigger = "manual")
    /\ UNCHANGED <<proc, file, history>>

HandOverEnds ==
    /\ \A s \in Runs : run[s].phase # "starting"
    /\ Pool!DrainEnd
    /\ UNCHANGED <<proc, run, diskVars, history>>

(* The executor's promise settles.  executeTask() has released the slot as the
   run ended; an executor that threw before it got there has not. *)
ExecutorEnds(r, st, released) ==
    /\ proc \in {"running", "stopped"} /\ Idle
    /\ run[r].phase = "executing"
    /\ ~released => st = "failure"
    /\ run' = [run EXCEPT ![r].phase = "ended", ![r].status = st]
    /\ IF released THEN Pool!Release(r) ELSE UNCHANGED poolVars
    /\ UNCHANGED <<proc, diskVars, history>>

NoRelease(r) == UNCHANGED poolVars

(* lease.release() in dispatchRun's `finally': a no-op for a released lease. *)
ReleaseIfHeld(r) == IF r \in leases THEN Pool!Release(r) ELSE UNCHANGED poolVars

(* updateAfterRun(): the index line, then the file, then the ticket, unless the
   task was deleted meanwhile, which leaves the ticket alone. *)
Recorded(r) ==
    /\ run[r].phase = "ended" /\ proc \in {"running", "stopped"} /\ Idle

AppendLine(r) ==
    lines' = [lines EXCEPT ![r] = IF file[TaskOf(r)].exists THEN Append(@, run[r].status) ELSE @]

SaveAfterRun(r) ==
    LET t == TaskOf(r) IN
    IF file[t].exists
    THEN \E g \in AfterRun(file[t], r, t, run[r].trigger, run[r].onceAt, run[r].status, {"future"}) :
            file' = [file EXCEPT ![t] = g] /\ Moves(t, g)
    ELSE UNCHANGED <<file, begun>>

Record(r) ==
    /\ Recorded(r)
    /\ AppendLine(r)
    /\ SaveAfterRun(r)
    /\ ticket' = Closes(r, run[r].status)
    /\ run' = [run EXCEPT ![r] = NotCarried("over")]
    /\ ReleaseIfHeld(r)
    /\ UNCHANGED <<proc, edits, crashes, fired>>

(* The process dies between the writes of one record. *)
CrashAfterLine(r) ==
    /\ Recorded(r) /\ AppendLine(r) /\ Lost
    /\ UNCHANGED <<file, ticket, edits, fired, begun>>

CrashBeforeTicket(r) ==
    /\ Recorded(r) /\ AppendLine(r) /\ SaveAfterRun(r) /\ Lost
    /\ UNCHANGED <<ticket, edits, fired>>

Crash ==
    /\ proc # "down" /\ Lost
    /\ UNCHANGED <<diskVars, edits, fired, begun>>

(* cancelKey() on a waiting run; on a running one it only aborts, and the run
   ends by itself. *)
CancelQueued(r) ==
    /\ proc = "running" /\ Idle
    /\ run[r].phase = "queued"
    /\ Pool!Cancel(TaskOf(r))
    /\ run' = [run EXCEPT ![r] = NotCarried("over")]
    /\ NotStarted(r, "cancelled", run[r].trigger = "manual")
    /\ UNCHANGED <<proc, file, history>>

(* stop(): what waits is recorded as skipped; what runs is aborted and ends. *)
Stop ==
    LET dropped(r) == run[r].phase = "queued"
        manual(r) == dropped(r) /\ run[r].trigger = "manual"
    IN  /\ proc = "running" /\ Idle
        /\ proc' = "stopped"
        /\ Pool!Withdraw(Pool!Waiting)
        /\ run' = [r \in Runs |-> IF dropped(r) THEN NotCarried("over") ELSE run[r]]
        /\ lines' = [r \in Runs |-> IF manual(r) /\ file[TaskOf(r)].exists
                                    THEN Append(lines[r], "skipped") ELSE lines[r]]
        /\ ticket' = [r \in Runs |-> IF manual(r) THEN "skipped" ELSE ticket[r]]
        /\ UNCHANGED <<leases, runningKeys, held, stopped, draining, file, history>>

(* Runtime.shutdown() stops the pool once every source, the scheduler with
   them, has stopped. *)
StopPool ==
    /\ proc = "stopped" /\ Idle
    /\ Pool!Stop
    /\ UNCHANGED <<proc, run, diskVars, history>>

-----------------------------------------------------------------------------
(* start() in a new process *)

Boot ==
    /\ proc = "down"
    /\ proc' = "booting"
    /\ UNCHANGED <<poolVars, run, diskVars, history>>

(* settleInterruptedRuns(): a marked run is recorded as failed, unless its line
   is already in the index, and the task advances as after any run. *)
SettleInterrupted(t) ==
    LET f == file[t]
        r == f.mark
        known == InIndex(r)
        st == IF known THEN Head(lines[r]) ELSE "failure"
    IN  /\ proc = "booting" /\ f.exists /\ r # NoRun
        /\ lines' = [lines EXCEPT ![r] = IF known THEN @ ELSE Append(@, st)]
        /\ \E g \in AfterRun(f, r, t, "scheduled", FiredAt(f.markAt, f.at), st,
                             IF known THEN {"future", "due"} ELSE {"future"}) :
              file' = [file EXCEPT ![t] = g] /\ Moves(t, g)
        /\ UNCHANGED <<poolVars, proc, run, ticket, edits, crashes, fired>>

CrashWhileSettling(t) ==
    LET r == file[t].mark IN
    /\ proc = "booting" /\ file[t].exists /\ r # NoRun /\ ~InIndex(r)
    /\ lines' = [lines EXCEPT ![r] = Append(@, "failure")]
    /\ Lost
    /\ UNCHANGED <<file, ticket, edits, fired, begun>>

(* retireOncesMissedWhileDown(): of the armed onces whose time has passed, those
   more than the grace period late.  Then the timer is armed. *)
FinishBoot ==
    /\ proc = "booting"
    /\ \A t \in Tasks : file[t].exists => file[t].mark = NoRun
    /\ \E late \in SUBSET {t \in Tasks : /\ file[t].exists /\ file[t].enabled
                                         /\ file[t].kind = "once"
                                         /\ file[t].done = "no" /\ file[t].passed} :
          file' = [t \in Tasks |-> IF t \in late THEN Retired(file[t], "missed") ELSE file[t]]
    /\ proc' = "running"
    /\ UNCHANGED <<poolVars, run, lines, ticket, history>>

(* settleLostRun(): a reader finds an open ticket nobody carries. *)
SettleLost(r) ==
    /\ proc \in {"running", "stopped"} /\ Idle
    /\ OpenTicket(r)
    /\ ~Carried(r)
    /\ LET known == InIndex(r)
           st == IF known THEN Head(lines[r])
                 ELSE IF ticket[r] = "running" THEN "failure" ELSE "skipped"
       IN  /\ lines' = [lines EXCEPT ![r] = IF known THEN @ ELSE Append(@, st)]
           /\ ticket' = [ticket EXCEPT ![r] = st]
    /\ UNCHANGED <<poolVars, proc, run, file, history>>

-----------------------------------------------------------------------------
(* The task's owner, and time *)

(* updateTask() with a new schedule: always a new moment, in the future for a
   once.  It does not touch the mark of a run in flight. *)
EditSchedule(t, kind) ==
    LET f == file[t]
        rearm == kind = "once" /\ f.kind = "once" /\ f.done # "no"
    IN  /\ proc = "running" /\ Idle /\ f.exists
        /\ edits < MaxEdits /\ edits' = edits + 1
        /\ file' = [file EXCEPT ![t] = [f EXCEPT
                      !.kind = kind,
                      !.at = IF kind = "once" THEN edits + 2 ELSE NoAt,
                      !.passed = FALSE, !.next = "future", !.done = "no",
                      !.enabled = f.enabled \/ rearm]]
        /\ begun' = [begun EXCEPT ![t] = FALSE]
        /\ UNCHANGED <<poolVars, proc, run, lines, ticket, crashes, fired>>

(* updateTask() with `enabled'.  assertOnceArmable() refuses a once whose time
   has passed; the reload gives a next run back to one that has none. *)
SetEnabled(t, on) ==
    LET f == file[t] IN
    /\ proc = "running" /\ Idle /\ f.exists /\ f.enabled # on
    /\ on /\ f.kind = "once" => ~f.passed
    /\ edits < MaxEdits /\ edits' = edits + 1
    /\ file' = [file EXCEPT ![t].enabled = on,
                            ![t].next = IF on /\ @ = "none" THEN "future" ELSE @]
    /\ UNCHANGED <<poolVars, proc, run, lines, ticket, crashes, fired, begun>>

DeleteTask(t) ==
    /\ proc = "running" /\ Idle /\ file[t].exists
    /\ edits < MaxEdits /\ edits' = edits + 1
    /\ file' = [file EXCEPT ![t].exists = FALSE]
    /\ UNCHANGED <<poolVars, proc, run, lines, ticket, crashes, fired, begun>>

BecomesDue(t) ==
    /\ file[t].exists
    /\ file[t].next = "future" \/ (file[t].kind = "once" /\ ~file[t].passed)
    /\ file' = [file EXCEPT ![t].next = IF @ = "future" THEN "due" ELSE @,
                            ![t].passed = file[t].kind = "once"]
    /\ UNCHANGED <<poolVars, proc, run, lines, ticket, history>>

BudgetResets(t) ==
    /\ file[t].exists /\ file[t].spent
    /\ file' = [file EXCEPT ![t].spent = FALSE]
    /\ UNCHANGED <<poolVars, proc, run, lines, ticket, history>>

-----------------------------------------------------------------------------

Next ==
    \/ \E r \in Runs :
          \/ FireScheduled(r)
          \/ \E trigger \in {"manual", "event"} :
                RequestStarts(r, trigger) \/ RequestWaits(r, trigger)
          \/ RequestRefused(r)
          \/ HandOver(r) \/ StartQueued(r) \/ StartQueuedRefused(r)
          \/ \E st \in Ended, released \in BOOLEAN : ExecutorEnds(r, st, released)
          \/ Record(r) \/ CrashAfterLine(r) \/ CrashBeforeTicket(r)
          \/ CancelQueued(r)
          \/ SettleLost(r)
    \/ \E t \in Tasks :
          \/ SkipScheduled(t)
          \/ SettleInterrupted(t) \/ CrashWhileSettling(t)
          \/ \E kind \in EditTo[t] : EditSchedule(t, kind)
          \/ \E on \in BOOLEAN : SetEnabled(t, on)
          \/ DeleteTask(t)
          \/ BecomesDue(t)
          \/ BudgetResets(t)
    \/ HandOverEnds
    \/ Crash \/ Stop \/ StopPool \/ Boot \/ FinishBoot

Spec == Init /\ [][Next]_vars

(* A run ends (its deadline aborts it), what is synchronous completes, a process
   that died is started again, and open tickets are read. *)
FairSpec ==
    /\ Spec
    /\ WF_vars(Boot) /\ WF_vars(FinishBoot) /\ WF_vars(HandOverEnds)
    /\ \A t \in Tasks : WF_vars(SettleInterrupted(t))
    /\ \A r \in Runs :
          /\ WF_vars(HandOver(r) \/ StartQueued(r) \/ StartQueuedRefused(r))
          /\ WF_vars(\E st \in Ended : ExecutorEnds(r, st, TRUE))
          /\ WF_vars(Record(r))
          /\ WF_vars(SettleLost(r))

-----------------------------------------------------------------------------

TypeOK ==
    /\ proc \in {"down", "booting", "running", "stopped"}
    /\ run \in [Runs -> [phase : {"new", "queued", "starting", "executing", "ended", "over"},
                         trigger : {"none", "scheduled", "manual", "event"},
                         onceAt : Ats, status : Ended \cup {"none"}]]
    /\ file \in [Tasks -> [exists : BOOLEAN, enabled : BOOLEAN,
                           kind : {"once", "recurring"}, at : Ats, passed : BOOLEAN,
                           next : {"none", "future", "due"}, done : {"no", "ran", "missed"},
                           mark : Runs \cup {NoRun}, markAt : Ats, spent : BOOLEAN]]
    /\ lines \in [Runs -> Seq(Closed)]
    /\ ticket \in [Runs -> {"none", "queued", "running"} \cup Closed]
    /\ leases \subseteq Runs /\ runningKeys \subseteq Tasks /\ queue \in Seq(Runs)
    /\ held \in [Tasks -> Nat] /\ stopped \in BOOLEAN /\ draining \in BOOLEAN

(* A run has at most one line in its task's index, whichever of the recording,
   the recovery at start and the reader of its ticket writes it, and wherever
   between the line, the file and the ticket the process died. *)
OneLinePerRun == \A r \in Runs : Len(lines[r]) <= 1

(* What a closed ticket tells the caller is what the index says of the run. *)
TicketAgrees ==
    \A r \in Runs : ticket[r] \in Closed /\ lines[r] # <<>> => lines[r] = <<ticket[r]>>

(* A once occurrence is executed at most once, across crashes, skips and edits:
   it may have sent a message. *)
OnceAtMostOnce == \A t \in Tasks, a \in Ats : fired[t][a] <= 1

(* No occurrence is executed again: while the scheduler runs, an occurrence that
   is due although its executor was started has that run still under way. *)
NotRunTwice ==
    \A t \in Tasks :
        proc = "running" /\ file[t].exists /\ file[t].next = "due" /\ begun[t] =>
            \E r \in Runs : TaskOf(r) = t /\ Active(r) /\ run[r].trigger = "scheduled"

(* At most one run of a task is under way, also in the gap between the release
   of its slot and its record, in which the pool would admit another. *)
OneRunPerTask ==
    \A r, s \in Runs : Carried(r) /\ Carried(s) /\ TaskOf(r) = TaskOf(s) => r = s

(* No slot leaks: each is held by a run that is starting, executing, or whose
   record is about to be written. *)
NoSlotLeaks ==
    \A r \in leases : run[r].phase \in {"starting", "executing", "ended"}

(* A once is reported as run only if its executor was started (retireOnce with
   "ran"): "one edited during the run is a new occurrence and stays armed". *)
RanMeansFired ==
    \A t \in Tasks : file[t].kind = "once" /\ file[t].done = "ran" => fired[t][file[t].at] > 0

(* Every requested run is answered: its ticket closes, whether it ran, waited,
   was refused, or was lost with its process. *)
TicketsClose ==
    \A r \in Runs : (ticket[r] \in {"queued", "running"}) ~> (ticket[r] \in Closed)

=============================================================================
