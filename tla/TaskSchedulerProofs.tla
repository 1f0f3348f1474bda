------------------------- MODULE TaskSchedulerProofs -------------------------
(***************************************************************************)
(* Proofs about the task scheduler, for every set of tasks, every number   *)
(* of runs, edits and crashes and every pair of pool limits.               *)
(*                                                                         *)
(* The pool inside the scheduler keeps the invariant of the pool's own     *)
(* proofs, whose lemmas are cited here through an instance.  On top of it  *)
(* the runs match the pool, the records match the runs, and the marks in   *)
(* the task files match both; each layer needs the ones below.             *)
(***************************************************************************)
EXTENDS TaskScheduler, FiniteSetTheorems, SequenceTheorems, TLAPS

Admission == INSTANCE RunAdmissionProofs
    WITH Requests <- Runs, Workspaces <- Tasks, Keys <- Tasks,
         WorkspaceOf <- [r \in Runs |-> TaskOf(r)],
         KeyOf <- [r \in Runs |-> TaskOf(r)],
         NoKey <- "none"

-----------------------------------------------------------------------------
(* The pool inside the scheduler *)

PoolOK == Admission!IInv

LEMMA RunTasks == \A r \in Runs : TaskOf(r) \in Tasks
BY DEF Runs, TaskOf

LEMMA NoRunIsNoRun == NoRun \notin Runs
BY DEF Runs, NoRun

LEMMA PoolAssumptions ==
    /\ Admission!RequestsFinite /\ Admission!WorkspaceAssumption
    /\ Admission!KeyAssumption /\ Admission!LimitAssumption
<1>1. IsFiniteSet(Runs)
  <2>1. IsFiniteSet(1..RunsPerTask)
    BY TaskConstants, FS_Interval
  <2> QED
    BY <2>1, TaskConstants, FS_Product DEF Runs
<1> QED
  BY <1>1, RunTasks, TaskConstants
  DEF Admission!RequestsFinite, Admission!IsFiniteSet, IsFiniteSet, Admission!WorkspaceAssumption,
      Admission!KeyAssumption, Admission!LimitAssumption

LEMMA SameWaiting == Pool!Waiting = Admission!Waiting
BY DEF Pool!Waiting, Admission!Waiting, Pool!ToSet, Admission!ToSet

LEMMA SameCount == Pool!Cardinality(leases) = Admission!Cardinality(leases)
BY DEF Pool!Cardinality, Admission!Cardinality

LEMMA SameChoice == Pool!NextIndex = Admission!NextIndex
<1>1. Pool!scan = Admission!scan
  BY DEF Pool!scan, Admission!scan, Pool!HeldAt, Admission!HeldAt
<1> QED
  BY <1>1 DEF Pool!NextIndex, Admission!NextIndex

(* What the scheduler relies on: the pool holds or queues a run of a task once. *)
LEMMA PoolFacts ==
    ASSUME PoolOK
    PROVE  /\ leases \subseteq Runs /\ Pool!Waiting \subseteq Runs /\ queue \in Seq(Runs)
           /\ runningKeys = {TaskOf(r) : r \in leases}
           /\ runningKeys \subseteq Tasks
           /\ held \in [Tasks -> Nat] /\ stopped \in BOOLEAN /\ draining \in BOOLEAN
           /\ leases \cap Pool!Waiting = {}
           /\ \A r, s \in leases \cup Pool!Waiting : TaskOf(r) = TaskOf(s) => r = s
           /\ queue = <<>> <=> Pool!Waiting = {}
<1> USE DEF PoolOK, Admission!IInv
<1>1. /\ leases \subseteq Runs /\ queue \in Seq(Runs) /\ runningKeys \subseteq Tasks
      /\ held \in [Tasks -> Nat] /\ stopped \in BOOLEAN /\ draining \in BOOLEAN
  BY DEF Admission!TypeOK
<1>2. Pool!Waiting = Admission!Waiting
  BY SameWaiting
<1>3. DOMAIN queue = 1..Len(queue) /\ Len(queue) \in Nat
  BY <1>1, LenProperties
<1>4. Pool!Waiting = {queue[i] : i \in DOMAIN queue}
  BY DEF Pool!Waiting, Pool!ToSet
<1>5. Pool!Waiting \subseteq Runs
  BY <1>1, <1>3, <1>4, ElementOfSeq
<1>6. queue = <<>> <=> Pool!Waiting = {}
  <2>1. queue = <<>> => DOMAIN queue = {}
    OBVIOUS
  <2>2. ASSUME queue # <<>> PROVE queue[1] \in Pool!Waiting
    <3>1. Len(queue) # 0
      BY <1>1, <2>2, EmptySeq
    <3> QED
      BY <1>3, <1>4, <3>1
  <2> QED
    BY <1>4, <2>1, <2>2
<1>7. \A r \in Runs : Admission!Keyed(r) /\ [q \in Runs |-> TaskOf(q)][r] = TaskOf(r)
  BY RunTasks, TaskConstants DEF Admission!Keyed
<1>8. \A r, s \in leases \cup Pool!Waiting : TaskOf(r) = TaskOf(s) => r = s
  BY <1>1, <1>2, <1>5, <1>7 DEF Admission!OneRunPerKey
<1>9. leases \cap Pool!Waiting = {}
  BY <1>2 DEF Admission!OneRunPerKey
<1>10. runningKeys = {TaskOf(r) : r \in leases}
  BY <1>1, <1>7 DEF Admission!SlotsAccounted
<1> QED
  BY <1>1, <1>5, <1>6, <1>8, <1>9, <1>10

(* Every operation the scheduler calls keeps the pool's invariant. *)
LEMMA PoolStep ==
    ASSUME PoolOK, Admission!Next
    PROVE  PoolOK'
BY Admission!StepIInv, PoolAssumptions DEF PoolOK

LEMMA PoolInit == Admission!Init => PoolOK
BY Admission!InitIInv, PoolAssumptions DEF PoolOK

LEMMA PoolLost ==
    ASSUME Lost
    PROVE  PoolOK'
<1>1. Admission!Init'
  BY DEF Lost, Admission!Init
<1> QED
  BY <1>1, PoolInit, PTL

LEMMA PoolAdmits ==
    ASSUME PoolOK, NEW r \in Runs, Pool!RequestAdmitted(r)
    PROVE  /\ PoolOK'
           /\ r \notin leases
           /\ leases' = leases \cup {r}
           /\ Pool!Waiting = {} /\ Pool!Waiting' = {}
           /\ TaskOf(r) \notin runningKeys
           /\ stopped' = stopped /\ draining' = draining /\ queue' = queue
<1>1. Admission!RequestAdmitted(r)
  <2>1. ~Admission!Refused(r)
    BY SameWaiting
    DEF Pool!RequestAdmitted, Pool!Refused, Admission!Refused, Pool!Keyed, Admission!Keyed
  <2>2. Admission!HasFreeSlot
    BY SameCount DEF Pool!RequestAdmitted, Pool!HasFreeSlot, Admission!HasFreeSlot
  <2>3. Admission!Grant(r)
    BY DEF Pool!RequestAdmitted, Pool!Grant, Admission!Grant, Pool!Keyed, Admission!Keyed
  <2> QED
    BY <2>1, <2>2, <2>3, SameWaiting DEF Pool!RequestAdmitted, Admission!RequestAdmitted
<1>2. PoolOK'
  BY <1>1, PoolStep DEF Admission!Next
<1>3. [q \in Runs |-> TaskOf(q)][r] = TaskOf(r) /\ TaskOf(r) # "none"
  BY RunTasks, TaskConstants
<1>4. queue = <<>>
  BY DEF Pool!RequestAdmitted, Pool!HasFreeSlot
<1>5. Pool!Waiting = {} /\ Pool!Waiting' = {}
  BY <1>2, <1>4, PoolFacts DEF Pool!RequestAdmitted, Pool!Waiting, Pool!ToSet
<1> QED
  BY <1>2, <1>3, <1>5 DEF Pool!RequestAdmitted, Pool!Refused, Pool!Keyed, Pool!Grant

LEMMA PoolQueues ==
    ASSUME PoolOK, NEW r \in Runs, Pool!RequestQueued(r)
    PROVE  /\ PoolOK'
           /\ r \notin leases
           /\ Pool!Waiting' = Pool!Waiting \cup {r}
           /\ TaskOf(r) \notin runningKeys
           /\ \A q \in Pool!Waiting : TaskOf(q) # TaskOf(r)
           /\ leases' = leases /\ runningKeys' = runningKeys
           /\ stopped' = stopped /\ draining' = draining
<1>1. Admission!RequestQueued(r)
  <2>1. ~Admission!Refused(r)
    BY SameWaiting
    DEF Pool!RequestQueued, Pool!Refused, Admission!Refused, Pool!Keyed, Admission!Keyed
  <2>2. ~Admission!HasFreeSlot
    BY SameCount DEF Pool!RequestQueued, Pool!HasFreeSlot, Admission!HasFreeSlot
  <2> QED
    BY <2>1, <2>2, SameWaiting DEF Pool!RequestQueued, Admission!RequestQueued
<1>2. PoolOK'
  BY <1>1, PoolStep DEF Admission!Next
<1>3. [q \in Runs |-> TaskOf(q)][r] = TaskOf(r) /\ TaskOf(r) # "none"
  BY RunTasks, TaskConstants
<1>4. Pool!Waiting' = Pool!Waiting \cup {r}
  <2>1. queue \in Seq(Runs) /\ r \notin Admission!ToSet(queue)
    BY PoolFacts, SameWaiting DEF Pool!RequestQueued, Admission!Waiting
  <2>2. Admission!ToSet(Append(queue, r)) = Admission!ToSet(queue) \cup {r}
    BY <2>1, Admission!AppendFacts, PoolAssumptions
  <2> QED
    BY <2>2 DEF Pool!RequestQueued, Pool!Waiting, Pool!ToSet, Admission!ToSet
<1>5. \A q \in Pool!Waiting : [s \in Runs |-> TaskOf(s)][q] = TaskOf(q)
  BY PoolFacts
<1> QED
  BY <1>2, <1>3, <1>4, <1>5 DEF Pool!RequestQueued, Pool!Refused, Pool!Keyed

LEMMA PoolReleases ==
    ASSUME PoolOK, NEW r \in Runs, Pool!Release(r)
    PROVE  /\ PoolOK'
           /\ r \in leases /\ leases' = leases \ {r}
           /\ Pool!Waiting' = Pool!Waiting
           /\ stopped' = stopped /\ queue' = queue
<1>1. Admission!Release(r)
  BY DEF Pool!Release, Admission!Release
<1>2. PoolOK'
  BY <1>1, PoolStep DEF Admission!Next
<1> QED
  BY <1>2 DEF Pool!Release, Pool!Waiting, Pool!ToSet

LEMMA PoolHandsOver ==
    ASSUME PoolOK, Pool!DrainAdmit, NEW r \in leases' \ leases
    PROVE  /\ PoolOK'
           /\ r \in Pool!Waiting /\ leases' = leases \cup {r}
           /\ Pool!Waiting' = Pool!Waiting \ {r}
           /\ draining /\ draining' = draining /\ stopped' = stopped
<1>1. Admission!DrainAdmit
  <2>1. Admission!CanAdmit
    BY SameCount DEF Pool!DrainAdmit, Pool!CanAdmit, Admission!CanAdmit
  <2>2. Admission!Grant(queue[Admission!NextIndex])
    BY SameChoice DEF Pool!DrainAdmit, Pool!Grant, Admission!Grant, Pool!Keyed, Admission!Keyed
  <2>3. queue' = Admission!RemoveAt(queue, Admission!NextIndex)
    BY SameChoice DEF Pool!DrainAdmit, Pool!RemoveAt, Admission!RemoveAt
  <2> QED
    BY <2>1, <2>2, <2>3, SameChoice DEF Pool!DrainAdmit, Admission!DrainAdmit
<1>2. PoolOK'
  BY <1>1, PoolStep DEF Admission!Next
<1> DEFINE i == Pool!NextIndex
<1>3. i \in DOMAIN queue /\ leases' = leases \cup {queue[i]} /\ r = queue[i]
  BY DEF Pool!DrainAdmit, Pool!Grant
<1>4. queue' = Admission!RemoveAt(queue, i)
  BY <1>1, SameChoice DEF Admission!DrainAdmit
<1>5. Admission!Distinct(queue)
  BY DEF PoolOK, Admission!IInv, Admission!OneRunPerKey, Admission!Distinct
<1> HIDE DEF i
<1>6. queue \in Seq(Runs) /\ i \in 1..Len(queue)
  BY <1>3, PoolFacts, LenProperties
<1>7. Admission!ToSet(queue') = Admission!ToSet(queue) \ {queue[i]}
  BY <1>4, <1>5, <1>6, Admission!RemoveAtFacts, PoolAssumptions
<1>8. Pool!Waiting' = Pool!Waiting \ {r} /\ r \in Pool!Waiting
  BY <1>3, <1>7 DEF Pool!Waiting, Pool!ToSet, Admission!ToSet
<1> QED
  BY <1>2, <1>3, <1>8 DEF Pool!DrainAdmit

LEMMA PoolDrains ==
    ASSUME PoolOK, Pool!DrainEnd
    PROVE  /\ PoolOK'
           /\ leases' = leases /\ Pool!Waiting' = Pool!Waiting
           /\ queue' = queue /\ draining /\ ~draining' /\ stopped' = stopped
<1>1. Admission!DrainEnd
  <2>1. ~(Admission!CanAdmit /\ Admission!NextIndex \in DOMAIN queue)
    BY SameCount, SameChoice DEF Pool!DrainEnd, Pool!CanAdmit, Admission!CanAdmit
  <2> QED
    BY <2>1 DEF Pool!DrainEnd, Admission!DrainEnd
<1>2. PoolOK'
  BY <1>1, PoolStep DEF Admission!Next
<1> QED
  BY <1>2 DEF Pool!DrainEnd, Pool!Waiting, Pool!ToSet

(* The two ways a waiting run leaves without a slot: its task is cancelled, or
   the scheduler or the pool stops. *)
LEMMA PoolWithdraws ==
    ASSUME PoolOK, NEW S, Pool!Withdraw(S),
           UNCHANGED <<leases, runningKeys, held, draining>>,
           stopped' = stopped \/ (stopped' = TRUE /\ S = Pool!Waiting)
    PROVE  PoolOK' /\ Pool!Waiting' = Pool!Waiting \ S
<1>1. Admission!Withdraw(S)
  BY DEF Pool!Withdraw, Admission!Withdraw, Pool!Without, Admission!Without
<1>2. PoolOK'
  BY <1>1, SameWaiting, Admission!WithdrawKeeps, PoolAssumptions DEF PoolOK
<1>3. Admission!ToSet(queue') = Admission!ToSet(queue) \ S
  BY <1>1, PoolFacts, Admission!WithoutFacts, PoolAssumptions DEF Admission!Withdraw
<1> QED
  BY <1>2, <1>3 DEF Pool!Waiting, Pool!ToSet, Admission!ToSet

LEMMA PoolCancels ==
    ASSUME PoolOK, NEW t \in Tasks, Pool!Cancel(t)
    PROVE  /\ PoolOK'
           /\ leases' = leases /\ stopped' = stopped /\ draining' = draining
           /\ Pool!Waiting' = {q \in Pool!Waiting : TaskOf(q) # t}
<1> DEFINE S == {q \in Pool!Waiting : [r \in Runs |-> TaskOf(r)][q] = t}
<1>1. Pool!Withdraw(S) /\ UNCHANGED <<leases, runningKeys, held, stopped, draining>>
  BY DEF Pool!Cancel
<1>2. S = {q \in Pool!Waiting : TaskOf(q) = t}
  BY PoolFacts
<1>3. PoolOK' /\ Pool!Waiting' = Pool!Waiting \ S
  <2> HIDE DEF S
  <2> QED
    BY <1>1, PoolWithdraws
<1> QED
  BY <1>1, <1>2, <1>3

LEMMA PoolStops ==
    ASSUME PoolOK, Pool!Withdraw(Pool!Waiting), 
           UNCHANGED <<leases, runningKeys, held, draining>>,
           stopped' = stopped \/ stopped' = TRUE
    PROVE  PoolOK' /\ Pool!Waiting' = {}
<1>1. PoolOK' /\ Pool!Waiting' = Pool!Waiting \ Pool!Waiting
  BY PoolWithdraws
<1> QED
  BY <1>1

-----------------------------------------------------------------------------
(* The inductive invariant *)

RunState ==
    [phase : {"new", "queued", "starting", "executing", "ended", "over"},
     trigger : {"none", "scheduled", "manual", "event"},
     onceAt : Ats, status : Ended \cup {"none"}]

FileState ==
    [exists : BOOLEAN, enabled : BOOLEAN,
     kind : {"once", "recurring"}, at : Ats, passed : BOOLEAN,
     next : {"none", "future", "due"}, done : {"no", "ran", "missed"},
     mark : Runs \cup {NoRun}, markAt : Ats, spent : BOOLEAN]

DataTypes ==
    /\ proc \in {"down", "booting", "running", "stopped"}
    /\ run \in [Runs -> RunState]
    /\ file \in [Tasks -> FileState]
    /\ lines \in [Runs -> Seq(Closed)]
    /\ ticket \in [Runs -> {"none", "queued", "running"} \cup Closed]
    /\ edits \in 0..MaxEdits
    /\ fired \in [Tasks -> [Ats -> Nat]]
    /\ begun \in [Tasks -> BOOLEAN]

(* The queue holds the waiting runs, and a run has a slot from its hand-over
   until the executor releases it or its record is written. *)
RunsMatchPool ==
    \A r \in Runs :
        /\ run[r].phase = "queued" <=> r \in Pool!Waiting
        /\ r \in leases => run[r].phase \in {"starting", "executing", "ended"}
        /\ run[r].phase \in {"starting", "executing"} => r \in leases

(* Only a running scheduler queues, and a process that is gone carries nothing. *)
RunsMatchProcess ==
    /\ proc # "running" => Pool!Waiting = {}
    /\ proc \in {"down", "booting"} =>
          /\ leases = {} /\ ~draining
          /\ \A r \in Runs : ~Carried(r)

(* What is recorded of a run follows its progress: nothing before it is over. *)
RecordsMatchRuns ==
    \A r \in Runs :
        /\ lines[r] # <<>> => run[r].phase = "over"
        /\ run[r].phase = "new" => ticket[r] = "none"
        /\ run[r].phase = "ended" => run[r].status \in Ended
        /\ run[r].phase \in {"queued", "starting"} => run[r].trigger \in {"manual", "event"}
        /\ Carried(r) => IF run[r].trigger = "manual" THEN OpenTicket(r) ELSE ticket[r] = "none"

(* While a scheduled run of a task that still exists is under way the task's file
   carries its mark, and while the process lives no other mark is there. *)
MarksMatchRuns ==
    \A t \in Tasks :
        LET m == file[t].mark IN
        /\ m # NoRun =>
              /\ TaskOf(m) = t /\ ticket[m] = "none"
              /\ run[m].phase \in {"executing", "ended", "over"}
        /\ file[t].exists =>
              /\ \A r \in Runs :
                    TaskOf(r) = t /\ Active(r) /\ run[r].trigger = "scheduled" => m = r
              /\ m # NoRun /\ proc \in {"running", "stopped"} =>
                    /\ Active(m) /\ run[m].trigger = "scheduled"
                    /\ run[m].onceAt = file[t].markAt

(* An occurrence whose executor was started is not armed any more, unless its
   mark is still in the file: then the run that carries the mark, or the recovery
   that finds it, retires the task.  An occurrence is due after its start only
   while the mark is there. *)
OccurrenceOK(t) ==
    LET f == file[t] IN
    /\ f.at <= edits + 1
    /\ f.kind = "once" <=> f.at # NoAt
    /\ f.kind = "once" /\ f.next = "due" => f.passed
    /\ \A a \in Ats : fired[t][a] \in {0, 1} /\ (a > edits + 1 => fired[t][a] = 0)
    /\ f.exists /\ f.kind = "once" /\ fired[t][f.at] # 0 =>
          f.passed /\ (~f.enabled \/ (f.mark # NoRun /\ f.markAt = f.at))
    /\ f.exists /\ begun[t] =>
          f.next = "due" /\ f.mark # NoRun /\ (f.kind = "once" => f.markAt = f.at)

OccurrencesOK == \A t \in Tasks : OccurrenceOK(t)

RunsOK == RunsMatchPool /\ RunsMatchProcess /\ OneRunPerTask

LEMMA Quiet ==
    ASSUME UNCHANGED <<poolVars, proc, run>>, PoolOK, RunsOK
    PROVE  PoolOK' /\ RunsOK'
<1>1. Pool!Waiting' = Pool!Waiting
  BY DEF poolVars, Pool!Waiting, Pool!ToSet
<1>2. PoolOK'
  BY Admission!StepIInv, PoolAssumptions DEF PoolOK, Admission!vars, poolVars
<1> QED
  BY <1>1, <1>2
  DEF poolVars, RunsOK, RunsMatchPool, RunsMatchProcess, OneRunPerTask, Carried

(* A run of a task none of whose runs is carried starts with a slot. *)
LEMMA Starts ==
    ASSUME PoolOK, DataTypes, RunsOK, NEW r \in Runs, NEW trigger,
           Pool!RequestAdmitted(r), Dispatch(r, trigger), proc = "running", proc' = proc,
           Idle, ~AlreadyRunning(TaskOf(r)), run[r].phase = "new"
    PROVE  PoolOK' /\ RunsOK'
<1>1. /\ PoolOK' /\ leases' = leases \cup {r}
      /\ Pool!Waiting = {} /\ Pool!Waiting' = {}
  BY PoolAdmits
<1>2. /\ run'[r].phase = "executing"
      /\ \A s \in Runs : s # r => run'[s] = run[s]
  BY DEF Dispatch, DataTypes
<1>3. \A s \in Runs : TaskOf(s) = TaskOf(r) => ~Carried(s)
  BY <1>1 DEF AlreadyRunning, Active, Carried, Idle, RunsOK, RunsMatchPool
<1>4. RunsMatchPool'
  BY <1>1, <1>2 DEF RunsOK, RunsMatchPool
<1>5. OneRunPerTask'
  BY <1>2, <1>3 DEF RunsOK, OneRunPerTask, Carried
<1>6. RunsMatchProcess'
  BY DEF RunsMatchProcess
<1> QED
  BY <1>1, <1>4, <1>5, <1>6 DEF RunsOK

LEMMA Loses ==
    ASSUME DataTypes, Lost
    PROVE  PoolOK' /\ RunsOK'
<1>1. PoolOK' /\ leases' = {} /\ queue' = <<>> /\ draining' = FALSE
  BY PoolLost DEF Lost
<1>2. Pool!Waiting' = {}
  BY <1>1 DEF Pool!Waiting, Pool!ToSet
<1>3. \A r \in Runs : run'[r].phase \in {"new", "over"}
  BY DEF Lost, NotCarried
<1> QED
  BY <1>1, <1>2, <1>3
  DEF RunsOK, RunsMatchPool, RunsMatchProcess, OneRunPerTask, Carried

(* One run leaves the phases in which it is carried, with its slot or its place. *)
LEMMA Leaves ==
    ASSUME DataTypes, RunsOK, PoolOK', NEW r \in Runs, proc' = proc,
           run' = [run EXCEPT ![r] = NotCarried("over")],
           leases' = leases \ {r}, Pool!Waiting' = Pool!Waiting \ {r},
           r \notin leases => draining' = draining,
           proc \in {"down", "booting"} => r \notin leases
    PROVE  RunsOK'
<1>1. /\ run'[r].phase = "over"
      /\ \A s \in Runs : s # r => run'[s] = run[s]
  BY DEF DataTypes, NotCarried
<1> QED
  BY <1>1 DEF RunsOK, RunsMatchPool, RunsMatchProcess, OneRunPerTask, Carried

LEMMA StepRuns ==
    ASSUME PoolOK, DataTypes, RunsOK, Next
    PROVE  PoolOK' /\ RunsOK'
<1>1. ASSUME NEW r \in Runs, FireScheduled(r) PROVE PoolOK' /\ RunsOK'
  BY <1>1, Starts DEF FireScheduled, Fresh
<1>2. ASSUME NEW r \in Runs, NEW trigger \in {"manual", "event"}, RequestStarts(r, trigger)
      PROVE  PoolOK' /\ RunsOK'
  BY <1>2, Starts DEF RequestStarts, MayRequest, Fresh, Duplicate
<1>3. ASSUME NEW r \in Runs, NEW trigger \in {"manual", "event"}, RequestWaits(r, trigger)
      PROVE  PoolOK' /\ RunsOK'
  <2>1. /\ PoolOK' /\ leases' = leases
        /\ Pool!Waiting' = Pool!Waiting \cup {r}
    BY <1>3, PoolQueues DEF RequestWaits
  <2>2. /\ run'[r].phase = "queued" /\ run[r].phase = "new"
        /\ \A s \in Runs : s # r => run'[s] = run[s]
    BY <1>3 DEF RequestWaits, MayRequest, Fresh, DataTypes, RunState
  <2>3. \A s \in Runs : TaskOf(s) = TaskOf(r) => ~Carried(s)
    BY <1>3 DEF RequestWaits, MayRequest, Duplicate, AlreadyRunning, AlreadyQueued, Active, Carried,
                Idle, RunsOK, RunsMatchPool
  <2>4. proc' = proc /\ proc = "running"
    BY <1>3 DEF RequestWaits, MayRequest
  <2> QED
    BY <2>1, <2>2, <2>3, <2>4
    DEF RunsOK, RunsMatchPool, RunsMatchProcess, OneRunPerTask, Carried
<1>4. ASSUME NEW r \in Runs, RequestRefused(r) PROVE PoolOK' /\ RunsOK'
  <2> USE <1>4 DEF RequestRefused
  <2>1. PoolOK' /\ Pool!Waiting' = Pool!Waiting /\ leases' = leases /\ draining' = draining
    BY Admission!StepIInv, PoolAssumptions
    DEF PoolOK, Admission!vars, poolVars, Pool!Waiting, Pool!ToSet
  <2>2. r \notin leases /\ r \notin Pool!Waiting
    BY DEF Fresh, RunsOK, RunsMatchPool
  <2> QED
    BY <2>1, <2>2, Leaves
<1>5. ASSUME NEW r \in Runs, HandOver(r) PROVE PoolOK' /\ RunsOK'
  <2>1. /\ PoolOK' /\ draining /\ leases' = leases \cup {r}
        /\ r \in Pool!Waiting /\ Pool!Waiting' = Pool!Waiting \ {r}
    BY <1>5, PoolHandsOver DEF HandOver
  <2>2. /\ run'[r].phase = "starting" /\ proc' = proc
        /\ \A s \in Runs : s # r => run'[s] = run[s]
    BY <1>5 DEF HandOver, DataTypes, RunState
  <2> QED
    BY <2>1, <2>2 DEF RunsOK, RunsMatchPool, RunsMatchProcess, OneRunPerTask, Carried
<1>6. ASSUME NEW r \in Runs, StartQueued(r) PROVE PoolOK' /\ RunsOK'
  <2> USE <1>6 DEF StartQueued
  <2>1. PoolOK' /\ Pool!Waiting' = Pool!Waiting /\ leases' = leases /\ draining' = draining
    BY Admission!StepIInv, PoolAssumptions
    DEF PoolOK, Admission!vars, poolVars, Pool!Waiting, Pool!ToSet
  <2>2. /\ run'[r].phase = "executing" /\ run[r].phase = "starting" /\ proc' = proc
        /\ \A s \in Runs : s # r => run'[s] = run[s]
    BY DEF Dispatch, DataTypes
  <2> QED
    BY <2>1, <2>2 DEF RunsOK, RunsMatchPool, RunsMatchProcess, OneRunPerTask, Carried
<1>7. ASSUME NEW r \in Runs, StartQueuedRefused(r) PROVE PoolOK' /\ RunsOK'
  <2> USE <1>7 DEF StartQueuedRefused
  <2>1. PoolOK' /\ Pool!Waiting' = Pool!Waiting /\ r \in leases /\ leases' = leases \ {r}
    BY PoolReleases
  <2>2. r \notin Pool!Waiting /\ proc \notin {"down", "booting"}
    BY DEF RunsOK, RunsMatchPool, RunsMatchProcess, Carried
  <2> QED
    BY <2>1, <2>2, Leaves
<1>8. ASSUME NEW r \in Runs, NEW st \in Ended, NEW released \in BOOLEAN,
             ExecutorEnds(r, st, released)
      PROVE  PoolOK' /\ RunsOK'
  <2> USE <1>8 DEF ExecutorEnds
  <2>1. /\ PoolOK' /\ Pool!Waiting' = Pool!Waiting
        /\ leases' = leases \ {r} \/ leases' = leases
    <3>1. CASE released
      BY <3>1, PoolReleases
    <3>2. CASE ~released
      BY <3>2, Admission!StepIInv, PoolAssumptions
      DEF PoolOK, Admission!vars, poolVars, Pool!Waiting, Pool!ToSet
    <3> QED
      BY <3>1, <3>2
  <2>2. /\ run'[r].phase = "ended" /\ run[r].phase = "executing" /\ proc' = proc
        /\ proc \in {"running", "stopped"}
        /\ \A s \in Runs : s # r => run'[s] = run[s]
    BY DEF DataTypes, RunState
  <2> QED
    BY <2>1, <2>2 DEF RunsOK, RunsMatchPool, RunsMatchProcess, OneRunPerTask, Carried
<1>9. ASSUME NEW r \in Runs, Record(r) PROVE PoolOK' /\ RunsOK'
  <2> USE <1>9 DEF Record, Recorded
  <2>1. PoolOK' /\ Pool!Waiting' = Pool!Waiting /\ leases' = leases \ {r}
    <3>1. CASE r \in leases
      BY <3>1, PoolReleases DEF ReleaseIfHeld
    <3>2. CASE r \notin leases
      BY <3>2, Admission!StepIInv, PoolAssumptions
      DEF ReleaseIfHeld, PoolOK, Admission!vars, poolVars, Pool!Waiting, Pool!ToSet
    <3> QED
      BY <3>1, <3>2
  <2>2. r \notin Pool!Waiting
    BY DEF RunsOK, RunsMatchPool
  <2>3. r \notin leases => draining' = draining
    BY DEF ReleaseIfHeld, poolVars
  <2> QED
    BY <2>1, <2>2, <2>3, Leaves
<1>10. ASSUME Lost PROVE PoolOK' /\ RunsOK'
  BY <1>10, Loses
<1>11. ASSUME NEW r \in Runs, CancelQueued(r) PROVE PoolOK' /\ RunsOK'
  <2> USE <1>11 DEF CancelQueued
  <2>1. /\ PoolOK' /\ leases' = leases /\ draining' = draining
        /\ Pool!Waiting' = {q \in Pool!Waiting : TaskOf(q) # TaskOf(r)}
    BY PoolCancels, RunTasks
  <2>2. Pool!Waiting' = Pool!Waiting \ {r} /\ r \notin leases
    BY <2>1, PoolFacts DEF RunsOK, RunsMatchPool
  <2> QED
    BY <2>1, <2>2, Leaves
<1>12. ASSUME Stop PROVE PoolOK' /\ RunsOK'
  <2> USE <1>12 DEF Stop
  <2>1. PoolOK' /\ Pool!Waiting' = {} /\ leases' = leases
    BY PoolStops
  <2>2. \A r \in Runs : run'[r] = IF run[r].phase = "queued" THEN NotCarried("over") ELSE run[r]
    OBVIOUS
  <2> QED
    BY <2>1, <2>2
    DEF RunsOK, RunsMatchPool, RunsMatchProcess, OneRunPerTask, Carried, NotCarried
<1>13. ASSUME StopPool PROVE PoolOK' /\ RunsOK'
  <2> USE <1>13 DEF StopPool, Pool!Stop
  <2>1. PoolOK' /\ Pool!Waiting' = {}
    BY PoolStops
  <2> QED
    BY <2>1 DEF RunsOK, RunsMatchPool, RunsMatchProcess, OneRunPerTask, Carried
<1>14. ASSUME HandOverEnds PROVE PoolOK' /\ RunsOK'
  BY <1>14, PoolDrains
  DEF HandOverEnds, RunsOK, RunsMatchPool, RunsMatchProcess, OneRunPerTask, Carried
<1>15. ASSUME Boot \/ FinishBoot PROVE PoolOK' /\ RunsOK'
  <2> USE <1>15 DEF Boot, FinishBoot
  <2>1. PoolOK' /\ Pool!Waiting' = Pool!Waiting
    BY Admission!StepIInv, PoolAssumptions
    DEF PoolOK, Admission!vars, poolVars, Pool!Waiting, Pool!ToSet
  <2> QED
    BY <2>1 DEF poolVars, RunsOK, RunsMatchPool, RunsMatchProcess, OneRunPerTask, Carried
<1>16. ASSUME UNCHANGED <<poolVars, proc, run>> PROVE PoolOK' /\ RunsOK'
  BY <1>16, Quiet
<1> QED
  <2>1. ASSUME NEW r \in Runs,
               \/ CrashAfterLine(r) \/ CrashBeforeTicket(r) \/ SettleLost(r)
        PROVE  Lost \/ UNCHANGED <<poolVars, proc, run>>
    BY <2>1 DEF CrashAfterLine, CrashBeforeTicket, SettleLost
  <2>2. ASSUME NEW t \in Tasks,
               \/ SkipScheduled(t) \/ SettleInterrupted(t) \/ CrashWhileSettling(t)
               \/ \E kind \in EditTo[t] : EditSchedule(t, kind)
               \/ \E on \in BOOLEAN : SetEnabled(t, on)
               \/ DeleteTask(t) \/ BecomesDue(t) \/ BudgetResets(t)
        PROVE  Lost \/ UNCHANGED <<poolVars, proc, run>>
    BY <2>2
    DEF SkipScheduled, SettleInterrupted, CrashWhileSettling, EditSchedule, SetEnabled, DeleteTask,
        BecomesDue, BudgetResets
  <2>3. Crash => Lost
    BY DEF Crash
  <2> QED
    BY <1>1, <1>2, <1>3, <1>4, <1>5, <1>6, <1>7, <1>8, <1>9, <1>10, <1>11, <1>12, <1>13, <1>14,
       <1>15, <1>16, <2>1, <2>2, <2>3
    DEF Next

-----------------------------------------------------------------------------
(* Types *)

LEMMA AppendTypes ==
    ASSUME DataTypes, NEW r \in Runs, NEW st \in Closed
    PROVE  Append(lines[r], st) \in Seq(Closed)
BY AppendProperties DEF DataTypes

LEMMA StartTypes ==
    ASSUME DataTypes, NEW r \in Runs, NEW trigger \in {"scheduled", "manual", "event"},
           Dispatch(r, trigger)
    PROVE  /\ run' \in [Runs -> RunState] /\ file' \in [Tasks -> FileState]
           /\ ticket' \in [Runs -> {"none", "queued", "running"} \cup Closed]
           /\ fired' \in [Tasks -> [Ats -> Nat]] /\ begun' \in [Tasks -> BOOLEAN]
<1> DEFINE t == TaskOf(r)
           onceAt == IF trigger = "scheduled" /\ file[t].kind = "once" THEN file[t].at ELSE NoAt
<1> USE DEF DataTypes, Dispatch
<1>1. t \in Tasks
  BY RunTasks
<1>2. onceAt \in Ats
  BY <1>1, TaskConstants DEF Ats, NoAt, FileState
<1>3. run' \in [Runs -> RunState]
  BY <1>2 DEF RunState
<1>4. file' \in [Tasks -> FileState]
  <2>1. Marked(file[t], r, onceAt) \in FileState
    <3>1. file[t] \in FileState
      BY <1>1
    <3> HIDE DEF onceAt, t, Dispatch, DataTypes
    <3> QED
      BY <1>2, <3>1 DEF FileState, Marked
  <2>2. file' = [file EXCEPT ![t] = IF trigger = "scheduled"
                                    THEN Marked(file[t], r, onceAt) ELSE file[t]]
    OBVIOUS
  <2> HIDE DEF Dispatch, onceAt
  <2> QED
    BY <1>1, <2>1, <2>2
<1>5. fired' \in [Tasks -> [Ats -> Nat]]
  BY <1>1, <1>2
<1>6. ticket' \in [Runs -> {"none", "queued", "running"} \cup Closed]
  OBVIOUS
<1>7. begun' \in [Tasks -> BOOLEAN]
  BY <1>1
<1> QED
  BY <1>3, <1>4, <1>5, <1>6, <1>7

(* What updateAfterRun() may write: the fields it leaves alone, and what decides
   the others. *)
LEMMA AfterRunFacts ==
    ASSUME NEW f \in FileState, NEW r \in Runs, NEW t \in Tasks, NEW trigger, NEW firedAt, NEW st,
           NEW nexts \in SUBSET {"future", "due"}, NEW g \in AfterRun(f, r, t, trigger, firedAt, st, nexts)
    PROVE  /\ g \in FileState
           /\ g.exists = f.exists /\ g.kind = f.kind /\ g.at = f.at /\ g.passed = f.passed
           /\ g.enabled => f.enabled
           /\ IF f.mark = r THEN g.mark = NoRun /\ g.markAt = NoAt
                            ELSE g.mark = f.mark /\ g.markAt = f.markAt
           /\ IF f.kind = "recurring" THEN g.done = f.done
              ELSE IF trigger = "scheduled" /\ f.at = firedAt
                   THEN ~g.enabled /\ g.next = "none" /\ g.done = "ran"
                   ELSE g.next = f.next /\ g.done = f.done
<1> DEFINE unmarked == IF f.mark = r THEN [f EXCEPT !.mark = NoRun, !.markAt = NoAt] ELSE f
           Streaked(e) == [unmarked EXCEPT !.enabled = e]
           Moved(k) == IF k.kind = "recurring"
                       THEN {[k EXCEPT !.next = n] : n \in nexts}
                       ELSE IF trigger = "scheduled" /\ k.at = firedAt
                            THEN {Retired(k, "ran")}
                            ELSE {k}
           E == IF st = "failure" THEN {f.enabled, FALSE} ELSE {f.enabled}
           B == IF t \in Budgeted THEN BOOLEAN ELSE {FALSE}
<1>1. g \in UNION {{[k EXCEPT !.spent = s, !.enabled = @ /\ ~s] : s \in B} :
                       k \in UNION {Moved(u) : u \in {Streaked(e) : e \in E}}}
  BY DEF AfterRun
<1>2. NoAt \in Ats
  BY TaskConstants DEF NoAt, Ats
<1>3. /\ unmarked \in FileState
      /\ unmarked.exists = f.exists /\ unmarked.kind = f.kind /\ unmarked.at = f.at
      /\ unmarked.passed = f.passed /\ unmarked.enabled = f.enabled
      /\ unmarked.next = f.next /\ unmarked.done = f.done
      /\ IF f.mark = r THEN unmarked.mark = NoRun /\ unmarked.markAt = NoAt
                       ELSE unmarked.mark = f.mark /\ unmarked.markAt = f.markAt
  BY <1>2 DEF FileState
<1>0. PICK e \in {f.enabled, FALSE} :
      \E k \in Moved(Streaked(e)), s \in BOOLEAN :
         g = [k EXCEPT !.spent = s, !.enabled = @ /\ ~s]
  <2>1. E \subseteq {f.enabled, FALSE} /\ B \subseteq BOOLEAN
    OBVIOUS
  <2> HIDE DEF Moved, Streaked, E, B
  <2>2. PICK k \in UNION {Moved(u) : u \in {Streaked(e) : e \in E}} :
          g \in {[k EXCEPT !.spent = s, !.enabled = @ /\ ~s] : s \in B}
    BY <1>1
  <2>3. PICK e \in E : k \in Moved(Streaked(e))
    BY <2>2
  <2> QED
    BY <2>1, <2>2, <2>3
<1> HIDE DEF unmarked
<1> DEFINE u == Streaked(e)
<1>4. /\ u \in FileState
      /\ u.exists = f.exists /\ u.kind = f.kind /\ u.at = f.at
      /\ u.passed = f.passed /\ (u.enabled => f.enabled)
      /\ u.next = f.next /\ u.done = f.done
      /\ IF f.mark = r THEN u.mark = NoRun /\ u.markAt = NoAt
                       ELSE u.mark = f.mark /\ u.markAt = f.markAt
  BY <1>0, <1>3 DEF FileState
<1>5. PICK k \in Moved(u), s \in BOOLEAN : g = [k EXCEPT !.spent = s, !.enabled = @ /\ ~s]
  BY <1>0
<1> HIDE DEF u
<1>6. /\ k \in FileState
      /\ k.exists = f.exists /\ k.kind = f.kind /\ k.at = f.at
      /\ k.passed = f.passed /\ (k.enabled => f.enabled)
      /\ IF f.mark = r THEN k.mark = NoRun /\ k.markAt = NoAt
                       ELSE k.mark = f.mark /\ k.markAt = f.markAt
      /\ IF f.kind = "recurring" THEN k.done = f.done
         ELSE IF trigger = "scheduled" /\ f.at = firedAt
              THEN ~k.enabled /\ k.next = "none" /\ k.done = "ran"
              ELSE k.next = f.next /\ k.done = f.done
  <2>1. CASE f.kind = "recurring"
    <3>1. PICK n \in nexts : k = [u EXCEPT !.next = n]
      BY <1>4, <1>5, <2>1
    <3> QED
      BY <1>4, <2>1, <3>1 DEF FileState
  <2>2. CASE f.kind # "recurring" /\ trigger = "scheduled" /\ f.at = firedAt
    <3>1. k = Retired(u, "ran")
      BY <1>4, <1>5, <2>2
    <3> QED
      BY <1>4, <2>2, <3>1 DEF FileState, Retired
  <2>3. CASE f.kind # "recurring" /\ ~(trigger = "scheduled" /\ f.at = firedAt)
    <3>1. k = u
      BY <1>4, <1>5, <2>3
    <3> QED
      BY <1>4, <2>3, <3>1
  <2> QED
    BY <2>1, <2>2, <2>3
<1> HIDE DEF Moved
<1> QED
  BY <1>5, <1>6 DEF FileState

LEMMA SavesTypes ==
    ASSUME DataTypes, NEW r \in Runs, SaveAfterRun(r)
    PROVE  file' \in [Tasks -> FileState] /\ begun' \in [Tasks -> BOOLEAN]
<1> DEFINE t == TaskOf(r)
<1>1. t \in Tasks /\ file[t] \in FileState
  BY RunTasks DEF DataTypes
<1>2. CASE file[t].exists
  <2>1. PICK g \in AfterRun(file[t], r, t, run[r].trigger, run[r].onceAt, run[r].status, {"future"}) :
          file' = [file EXCEPT ![t] = g] /\ Moves(t, g)
    BY <1>2 DEF SaveAfterRun
  <2>2. g \in FileState
    BY <1>1, <2>1, AfterRunFacts
  <2> QED
    BY <1>1, <2>1, <2>2 DEF DataTypes, Moves
<1>3. CASE ~file[t].exists
  BY <1>3 DEF SaveAfterRun, DataTypes
<1> QED
  BY <1>2, <1>3

LEMMA LostTypes ==
    ASSUME DataTypes, Lost
    PROVE  proc' \in {"down", "booting", "running", "stopped"} /\ run' \in [Runs -> RunState]
<1>1. NoAt \in Ats
  BY TaskConstants DEF NoAt, Ats
<1> QED
  BY <1>1 DEF Lost, NotCarried, RunState

LEMMA NotStartedTypes ==
    ASSUME DataTypes, NEW r \in Runs, NEW st \in Closed, NEW manual \in BOOLEAN,
           NotStarted(r, st, manual)
    PROVE  /\ lines' \in [Runs -> Seq(Closed)]
           /\ ticket' \in [Runs -> {"none", "queued", "running"} \cup Closed]
BY AppendTypes DEF DataTypes, NotStarted

LEMMA NotCarriedTypes == \A phase \in {"new", "over"} : NotCarried(phase) \in RunState
<1>1. NoAt \in Ats
  BY TaskConstants DEF NoAt, Ats
<1> QED
  BY <1>1 DEF NotCarried, RunState

LEMMA AppendLineTypes ==
    ASSUME DataTypes, NEW r \in Runs, run[r].phase = "ended", run[r].status # "none", AppendLine(r)
    PROVE  lines' \in [Runs -> Seq(Closed)]
<1>1. run[r].status \in Closed
  BY DEF DataTypes, RunState, Closed
<1> QED
  BY <1>1, AppendTypes DEF DataTypes, AppendLine

LEMMA RunFields ==
    ASSUME NEW x \in RunState,
           NEW phase \in {"new", "queued", "starting", "executing", "ended", "over"},
           NEW trigger \in {"none", "scheduled", "manual", "event"}
    PROVE  /\ [x EXCEPT !.phase = phase, !.trigger = trigger] \in RunState
           /\ \A st \in Ended : [x EXCEPT !.phase = phase, !.status = st] \in RunState
BY DEF RunState

LEMMA FileFields ==
    ASSUME NEW f \in FileState, NEW b \in BOOLEAN, NEW n \in {"none", "future", "due"}
    PROVE  /\ [f EXCEPT !.next = n] \in FileState
           /\ [f EXCEPT !.enabled = b, !.next = n] \in FileState
           /\ [f EXCEPT !.exists = b] \in FileState
           /\ [f EXCEPT !.next = n, !.passed = b] \in FileState
           /\ [f EXCEPT !.spent = b] \in FileState
           /\ Retired(f, "missed") \in FileState
BY DEF FileState, Retired

LEMMA StepTypes ==
    ASSUME DataTypes, RecordsMatchRuns, Next
    PROVE  DataTypes'
<1> DEFINE Procs == {"down", "booting", "running", "stopped"}
           Tickets == {"none", "queued", "running"} \cup Closed
<1>a. edits < MaxEdits => edits + 1 \in 0..MaxEdits
  BY TaskConstants DEF DataTypes
<1>b. "skipped" \in Closed /\ "cancelled" \in Closed /\ "failure" \in Closed
  BY DEF Closed, Ended
<1>1. ASSUME NEW r \in Runs, FireScheduled(r) PROVE DataTypes'
  BY <1>1, StartTypes DEF FireScheduled, DataTypes
<1>2. ASSUME NEW r \in Runs, NEW trigger \in {"manual", "event"}, RequestStarts(r, trigger)
      PROVE  DataTypes'
  BY <1>2, StartTypes DEF RequestStarts, DataTypes
<1>3. ASSUME NEW r \in Runs, NEW trigger \in {"manual", "event"}, RequestWaits(r, trigger)
      PROVE  DataTypes'
  <2> USE <1>3 DEF RequestWaits, history, DataTypes
  <2>1. run' = [run EXCEPT ![r] = [run[r] EXCEPT !.phase = "queued", !.trigger = trigger]]
    BY DEF RunState
  <2>2. run' \in [Runs -> RunState]
    <3>1. [run[r] EXCEPT !.phase = "queued", !.trigger = trigger] \in RunState
      BY RunFields
    <3> QED
      BY <2>1, <3>1
  <2>3. ticket' \in [Runs -> Tickets]
    OBVIOUS
  <2> QED
    BY <2>2, <2>3
<1>4. ASSUME NEW r \in Runs, RequestRefused(r) PROVE DataTypes'
  <2>1. run' \in [Runs -> RunState]
    BY <1>4, NotCarriedTypes DEF RequestRefused, DataTypes
  <2>2. lines' \in [Runs -> Seq(Closed)] /\ ticket' \in [Runs -> Tickets]
    BY <1>4, <1>b, NotStartedTypes DEF RequestRefused
  <2> QED
    BY <1>4, <2>1, <2>2 DEF RequestRefused, DataTypes, history
<1>5. ASSUME NEW r \in Runs, HandOver(r) PROVE DataTypes'
  <2>1. run' \in [Runs -> RunState]
    BY <1>5 DEF HandOver, DataTypes, RunState
  <2> QED
    BY <1>5, <2>1 DEF HandOver, DataTypes, history, diskVars
<1>6. ASSUME NEW r \in Runs, StartQueued(r) PROVE DataTypes'
  <2>1. run[r].trigger \in {"manual", "event"}
    BY <1>6 DEF StartQueued, RecordsMatchRuns
  <2> QED
    BY <1>6, <2>1, StartTypes DEF StartQueued, DataTypes
<1>7. ASSUME NEW r \in Runs, StartQueuedRefused(r) PROVE DataTypes'
  <2>1. run' \in [Runs -> RunState]
    BY <1>7, NotCarriedTypes DEF StartQueuedRefused, DataTypes
  <2>2. lines' \in [Runs -> Seq(Closed)] /\ ticket' \in [Runs -> Tickets]
    BY <1>7, <1>b, NotStartedTypes DEF StartQueuedRefused
  <2> QED
    BY <1>7, <2>1, <2>2 DEF StartQueuedRefused, DataTypes, history
<1>8. ASSUME NEW r \in Runs, NEW st \in Ended, NEW released \in BOOLEAN,
             ExecutorEnds(r, st, released)
      PROVE  DataTypes'
  <2>1. run' \in [Runs -> RunState]
    <3>1. run' = [run EXCEPT ![r] = [run[r] EXCEPT !.phase = "ended", !.status = st]]
      BY <1>8 DEF ExecutorEnds, DataTypes, RunState
    <3> QED
      BY <3>1, RunFields DEF DataTypes
  <2> QED
    BY <1>8, <2>1 DEF ExecutorEnds, DataTypes, history, diskVars
<1>9. ASSUME NEW r \in Runs, Record(r) PROVE DataTypes'
  <2>1. run' \in [Runs -> RunState]
    BY <1>9, NotCarriedTypes DEF Record, DataTypes
  <2>2. run[r].status \in Ended /\ run[r].phase = "ended"
    BY <1>9 DEF Record, Recorded, RecordsMatchRuns
  <2>3. lines' \in [Runs -> Seq(Closed)]
    BY <1>9, <2>2, AppendLineTypes DEF Record, Ended
  <2>4. ticket' \in [Runs -> Tickets]
    BY <1>9, <2>2 DEF Record, Closes, Closed, DataTypes
  <2>5. file' \in [Tasks -> FileState] /\ begun' \in [Tasks -> BOOLEAN]
    BY <1>9, SavesTypes DEF Record
  <2> QED
    BY <1>9, <2>1, <2>3, <2>4, <2>5 DEF Record, DataTypes
<1>10. ASSUME NEW r \in Runs, CrashAfterLine(r) \/ CrashBeforeTicket(r) PROVE DataTypes'
  <2>1. run[r].status \in Ended /\ run[r].phase = "ended"
    BY <1>10 DEF CrashAfterLine, CrashBeforeTicket, Recorded, RecordsMatchRuns
  <2>2. lines' \in [Runs -> Seq(Closed)]
    BY <1>10, <2>1, AppendLineTypes DEF CrashAfterLine, CrashBeforeTicket, Ended
  <2>3. proc' \in Procs /\ run' \in [Runs -> RunState]
    BY <1>10, LostTypes DEF CrashAfterLine, CrashBeforeTicket
  <2>4. file' \in [Tasks -> FileState] /\ begun' \in [Tasks -> BOOLEAN]
    BY <1>10, SavesTypes DEF CrashAfterLine, CrashBeforeTicket, DataTypes
  <2> QED
    BY <1>10, <2>2, <2>3, <2>4 DEF CrashAfterLine, CrashBeforeTicket, DataTypes
<1>11. ASSUME NEW r \in Runs, CancelQueued(r) PROVE DataTypes'
  <2>1. run' \in [Runs -> RunState]
    BY <1>11, NotCarriedTypes DEF CancelQueued, DataTypes
  <2>2. lines' \in [Runs -> Seq(Closed)] /\ ticket' \in [Runs -> Tickets]
    BY <1>11, <1>b, NotStartedTypes DEF CancelQueued
  <2> QED
    BY <1>11, <2>1, <2>2 DEF CancelQueued, DataTypes, history
<1>12. ASSUME NEW r \in Runs, SettleLost(r) PROVE DataTypes'
  <2> DEFINE st == IF InIndex(r) THEN Head(lines[r])
                   ELSE IF ticket[r] = "running" THEN "failure" ELSE "skipped"
  <2>1. st \in Closed
    BY <1>b, HeadTailProperties DEF InIndex, DataTypes
  <2>2. /\ lines' = [lines EXCEPT ![r] = IF InIndex(r) THEN @ ELSE Append(@, st)]
        /\ ticket' = [ticket EXCEPT ![r] = st]
    BY <1>12 DEF SettleLost
  <2> HIDE DEF st
  <2>3. lines' \in [Runs -> Seq(Closed)] /\ ticket' \in [Runs -> Tickets]
    BY <2>1, <2>2, AppendTypes DEF DataTypes
  <2> QED
    BY <1>12, <2>3 DEF SettleLost, DataTypes, history
<1>13. ASSUME NEW t \in Tasks, SkipScheduled(t) PROVE DataTypes'
  <2>1. file' \in [Tasks -> FileState]
    <3>1. file' = [file EXCEPT ![t] = [file[t] EXCEPT !.next = "future"]]
      BY <1>13 DEF SkipScheduled
    <3> QED
      BY <3>1, FileFields DEF DataTypes
  <2> QED
    BY <1>13, <2>1 DEF SkipScheduled, DataTypes
<1>14. ASSUME NEW t \in Tasks, SettleInterrupted(t) PROVE DataTypes'
  <2> DEFINE r == file[t].mark
             st == IF InIndex(r) THEN Head(lines[r]) ELSE "failure"
             nexts == IF InIndex(r) THEN {"future", "due"} ELSE {"future"}
  <2>0. r \in Runs /\ file[t] \in FileState
    BY <1>14 DEF SettleInterrupted, DataTypes, FileState
  <2>1. st \in Closed
    BY <1>b, <2>0, HeadTailProperties DEF InIndex, DataTypes
  <2>2. lines' = [lines EXCEPT ![r] = IF InIndex(r) THEN @ ELSE Append(@, st)]
    BY <1>14 DEF SettleInterrupted
  <2>3. PICK g \in AfterRun(file[t], r, t, "scheduled", FiredAt(file[t].markAt, file[t].at), st, nexts) :
          file' = [file EXCEPT ![t] = g] /\ Moves(t, g)
    BY <1>14 DEF SettleInterrupted
  <2> HIDE DEF r, st
  <2>4. g \in FileState
    BY <2>0, <2>3, AfterRunFacts
  <2>5. lines' \in [Runs -> Seq(Closed)]
    BY <2>0, <2>1, <2>2, AppendTypes DEF DataTypes
  <2>6. file' \in [Tasks -> FileState] /\ begun' \in [Tasks -> BOOLEAN]
    BY <2>3, <2>4 DEF DataTypes, Moves
  <2> QED
    BY <1>14, <2>5, <2>6 DEF SettleInterrupted, DataTypes
<1>15. ASSUME NEW t \in Tasks, CrashWhileSettling(t) PROVE DataTypes'
  <2>1. file[t].mark \in Runs
    BY <1>15 DEF CrashWhileSettling, DataTypes, FileState
  <2>2. lines' \in [Runs -> Seq(Closed)]
    BY <1>15, <1>b, <2>1, AppendTypes DEF CrashWhileSettling, DataTypes
  <2> QED
    BY <1>15, <2>2, LostTypes DEF CrashWhileSettling, DataTypes
<1>16. ASSUME NEW t \in Tasks, NEW kind \in EditTo[t], EditSchedule(t, kind) PROVE DataTypes'
  <2> DEFINE f == file[t]
             rearm == kind = "once" /\ f.kind = "once" /\ f.done # "no"
             at == IF kind = "once" THEN edits + 2 ELSE NoAt
             g == [f EXCEPT !.kind = kind, !.at = at, !.passed = FALSE, !.next = "future",
                            !.done = "no", !.enabled = f.enabled \/ rearm]
  <2>1. f \in FileState /\ kind \in {"once", "recurring"}
    BY TaskConstants DEF DataTypes
  <2>2. at \in Ats
    BY <1>16, TaskConstants DEF EditSchedule, DataTypes, Ats, NoAt
  <2>3. file' = [file EXCEPT ![t] = g]
    BY <1>16 DEF EditSchedule
  <2>4. rearm \in BOOLEAN
    OBVIOUS
  <2> HIDE DEF f, at, rearm
  <2>5. g \in FileState
    BY <2>1, <2>2, <2>4 DEF FileState
  <2> HIDE DEF g
  <2> QED
    BY <1>16, <1>a, <2>3, <2>5 DEF EditSchedule, DataTypes
<1>17. ASSUME NEW t \in Tasks, NEW on \in BOOLEAN, SetEnabled(t, on) PROVE DataTypes'
  <2>1. file' \in [Tasks -> FileState]
    <3>1. file' = [file EXCEPT ![t] = [file[t] EXCEPT !.enabled = on,
                   !.next = IF on /\ file[t].next = "none" THEN "future" ELSE file[t].next]]
      BY <1>17 DEF SetEnabled, DataTypes, FileState
    <3>2. file[t] \in FileState /\ file[t].next \in {"none", "future", "due"}
      BY DEF DataTypes, FileState
    <3>3. [file[t] EXCEPT !.enabled = on,
                   !.next = IF on /\ file[t].next = "none" THEN "future" ELSE file[t].next] \in FileState
      BY <3>2, FileFields
    <3> QED
      BY <3>1, <3>3 DEF DataTypes
  <2> QED
    BY <1>17, <1>a, <2>1 DEF SetEnabled, DataTypes
<1>18. ASSUME NEW t \in Tasks, DeleteTask(t) PROVE DataTypes'
  <2>1. file' \in [Tasks -> FileState]
    <3>1. file' = [file EXCEPT ![t] = [file[t] EXCEPT !.exists = FALSE]]
      BY <1>18 DEF DeleteTask, DataTypes, FileState
    <3>2. file[t] \in FileState
      BY DEF DataTypes, FileState
    <3>3. [file[t] EXCEPT !.exists = FALSE] \in FileState
      BY <3>2, FileFields
    <3> QED
      BY <3>1, <3>3 DEF DataTypes
  <2> QED
    BY <1>18, <1>a, <2>1 DEF DeleteTask, DataTypes
<1>19. ASSUME NEW t \in Tasks, BecomesDue(t) PROVE DataTypes'
  <2>1. file' \in [Tasks -> FileState]
    <3>1. file' = [file EXCEPT ![t] = [file[t] EXCEPT !.next = IF file[t].next = "future" THEN "due" ELSE file[t].next,
                   !.passed = file[t].kind = "once"]]
      BY <1>19 DEF BecomesDue, DataTypes, FileState
    <3>2. file[t] \in FileState
          /\ file[t].next \in {"none", "future", "due"} /\ (file[t].kind = "once") \in BOOLEAN
      BY DEF DataTypes, FileState
    <3>3. [file[t] EXCEPT !.next = IF file[t].next = "future" THEN "due" ELSE file[t].next,
                   !.passed = file[t].kind = "once"] \in FileState
      BY <3>2, FileFields
    <3> QED
      BY <3>1, <3>3 DEF DataTypes
  <2> QED
    BY <1>19, <2>1 DEF BecomesDue, DataTypes, history
<1>20. ASSUME NEW t \in Tasks, BudgetResets(t) PROVE DataTypes'
  <2>1. file' \in [Tasks -> FileState]
    <3>1. file' = [file EXCEPT ![t] = [file[t] EXCEPT !.spent = FALSE]]
      BY <1>20 DEF BudgetResets, DataTypes, FileState
    <3>2. file[t] \in FileState
      BY DEF DataTypes, FileState
    <3>3. [file[t] EXCEPT !.spent = FALSE] \in FileState
      BY <3>2, FileFields
    <3> QED
      BY <3>1, <3>3 DEF DataTypes
  <2> QED
    BY <1>20, <2>1 DEF BudgetResets, DataTypes, history
<1>21. ASSUME Crash PROVE DataTypes'
  BY <1>21, LostTypes DEF Crash, diskVars, DataTypes
<1>22. ASSUME Stop PROVE DataTypes'
  <2>1. run' \in [Runs -> RunState]
    BY <1>22, NotCarriedTypes DEF Stop, DataTypes
  <2>2. lines' \in [Runs -> Seq(Closed)]
    BY <1>22, <1>b, AppendTypes DEF Stop, DataTypes
  <2>3. ticket' \in [Runs -> Tickets]
    BY <1>22, <1>b DEF Stop, DataTypes
  <2> QED
    BY <1>22, <2>1, <2>2, <2>3 DEF Stop, DataTypes, history
<1>23. ASSUME StopPool \/ HandOverEnds \/ Boot PROVE DataTypes'
  BY <1>23 DEF StopPool, HandOverEnds, Boot, diskVars, history, DataTypes
<1>24. ASSUME FinishBoot PROVE DataTypes'
  <2>1. \A t \in Tasks : Retired(file[t], "missed") \in FileState
    BY FileFields DEF DataTypes
  <2>2. file' \in [Tasks -> FileState]
    BY <1>24, <2>1 DEF FinishBoot, DataTypes
  <2> QED
    BY <1>24, <2>2 DEF FinishBoot, DataTypes, history
<1> QED
  BY <1>1, <1>2, <1>3, <1>4, <1>5, <1>6, <1>7, <1>8, <1>9, <1>10, <1>11, <1>12, <1>13, <1>14,
     <1>15, <1>16, <1>17, <1>18, <1>19, <1>20, <1>21, <1>22, <1>23, <1>24
  DEF Next

-----------------------------------------------------------------------------
(* The records *)

RecordsOK == RecordsMatchRuns /\ OneLinePerRun /\ TicketAgrees

LEMMA AppendOne ==
    ASSUME NEW st
    PROVE  Append(<<>>, st) = <<st>> /\ Len(<<st>>) = 1 /\ <<st>> # <<>> /\ Head(<<st>>) = st
OBVIOUS

LEMMA NoLine == Len(<<>>) = 0
BY EmptySeq

LEMMA OneLine ==
    ASSUME NEW s \in Seq(Closed), s # <<>>, Len(s) <= 1
    PROVE  s = <<Head(s)>>
<1>1. Len(s) \in Nat /\ Len(s) # 0
  BY EmptySeq, LenProperties
<1>2. Len(s) = 1
  <2> DEFINE n == Len(s)
  <2>1. n \in Nat /\ n # 0 /\ n <= 1
    BY <1>1
  <2> HIDE DEF n
  <2>2. n = 1
    BY <2>1
  <2> QED
    BY <2>2 DEF n
<1>3. Head(s) \in Closed /\ Head(s) = s[1]
  BY HeadTailProperties
<1>4. <<Head(s)>> \in Seq(Closed) /\ Len(<<Head(s)>>) = 1 /\ <<Head(s)>>[1] = Head(s)
  BY <1>3
<1> QED
  BY <1>2, <1>3, <1>4, SeqEqual

(* A run that starts, waits or moves on without a line. *)
LEMMA RecordsMove ==
    ASSUME DataTypes, RecordsOK, NEW r \in Runs,
           lines' = lines, lines[r] = <<>>,
           \A s \in Runs : s # r => run'[s] = run[s] /\ ticket'[s] = ticket[s],
           run'[r].phase \in {"queued", "starting", "executing", "ended"},
           run'[r].phase = "ended" => run'[r].status \in Ended,
           run'[r].phase \in {"queued", "starting"} => run'[r].trigger \in {"manual", "event"},
           IF run'[r].trigger = "manual" THEN ticket'[r] \in {"queued", "running"}
                                         ELSE ticket'[r] = "none"
    PROVE  RecordsOK'
BY DEF RecordsOK, RecordsMatchRuns, OneLinePerRun, TicketAgrees, Carried, OpenTicket, Closed, Ended

(* A run that ends without having started. *)
LEMMA RecordsRefuse ==
    ASSUME DataTypes, RecordsOK, NEW r \in Runs, NEW st \in Closed, NEW manual \in BOOLEAN,
           NotStarted(r, st, manual),
           run' = [run EXCEPT ![r] = NotCarried("over")],
           lines[r] = <<>>, manual \/ ticket[r] = "none"
    PROVE  RecordsOK'
<1>1. /\ run'[r].phase = "over"
      /\ \A s \in Runs : s # r =>
            run'[s] = run[s] /\ lines'[s] = lines[s] /\ ticket'[s] = ticket[s]
  BY DEF NotStarted, DataTypes, NotCarried
<1>2. /\ ticket'[r] = IF manual THEN st ELSE ticket[r]
      /\ lines'[r] = <<>> \/ (lines'[r] = <<st>> /\ manual)
  BY AppendOne DEF NotStarted, DataTypes
<1>3. Len(lines'[r]) <= 1
  <2>1. Len(<<st>>) = 1
    BY AppendOne
  <2>2. Len(lines'[r]) \in {0, 1}
    BY <1>2, <2>1, NoLine
  <2>3. \A n \in {0, 1} : n <= 1
    OBVIOUS
  <2> QED
    BY <2>2, <2>3, Zenon
<1> QED
  BY <1>1, <1>2, <1>3
  DEF RecordsOK, RecordsMatchRuns, OneLinePerRun, TicketAgrees, Carried, OpenTicket

(* A crash: what was open stays open. *)
LEMMA RecordsLost ==
    ASSUME DataTypes, RecordsOK, Lost, ticket' = ticket,
           \A s \in Runs : \/ lines'[s] = lines[s]
                           \/ /\ lines[s] = <<>> /\ run[s].phase # "new"
                              /\ ticket[s] \notin Closed /\ \E st \in Closed : lines'[s] = <<st>>
    PROVE  RecordsOK'
<1>1. \A s \in Runs : run'[s].phase = IF run[s].phase = "new" THEN "new" ELSE "over"
  BY DEF Lost, NotCarried
<1>2. RecordsMatchRuns'
  BY <1>1 DEF RecordsOK, RecordsMatchRuns, Carried
<1>3. OneLinePerRun'
  <2> SUFFICES ASSUME NEW s \in Runs PROVE Len(lines'[s]) <= 1
    BY DEF OneLinePerRun
  <2>1. CASE lines'[s] = lines[s]
    BY <2>1 DEF RecordsOK, OneLinePerRun
  <2>2. ASSUME NEW st \in Closed, lines'[s] = <<st>> PROVE Len(lines'[s]) <= 1
    <3>1. Len(<<st>>) = 1
      BY AppendOne
    <3> QED
      BY <2>2, <3>1
  <2> QED
    BY <2>1, <2>2
<1>4. TicketAgrees'
  BY DEF RecordsOK, TicketAgrees
<1> QED
  BY <1>2, <1>3, <1>4 DEF RecordsOK

(* A run that is over, recorded from what is left of it. *)
LEMMA RecordsSettle ==
    ASSUME DataTypes, RecordsOK, NEW r \in Runs, NEW st \in Closed,
           lines[r] # <<>> \/ run[r].phase = "over",
           lines' = [lines EXCEPT ![r] = IF InIndex(r) THEN @ ELSE Append(@, st)],
           InIndex(r) => st = Head(lines[r]),
           run' = run,
           \/ ticket' = [ticket EXCEPT ![r] = st]
           \/ ticket' = ticket /\ ticket[r] \notin Closed
    PROVE  RecordsOK'
<1>1. lines'[r] = <<st>>
  <2>1. CASE InIndex(r)
    BY <2>1, OneLine DEF InIndex, DataTypes, RecordsOK, OneLinePerRun
  <2>2. CASE ~InIndex(r)
    BY <2>2, AppendOne DEF InIndex, DataTypes
  <2> QED
    BY <2>1, <2>2
<1>2. \A s \in Runs : s # r => lines'[s] = lines[s] /\ ticket'[s] = ticket[s]
  BY DEF DataTypes
<1>3. run[r].phase = "over"
  BY DEF RecordsOK, RecordsMatchRuns
<1>4. ticket'[r] = st \/ ticket'[r] \notin Closed
  BY DEF DataTypes
<1>5. Len(<<st>>) = 1
  BY AppendOne
<1>6. RecordsMatchRuns'
  BY <1>1, <1>2, <1>3 DEF RecordsOK, RecordsMatchRuns, Carried, OpenTicket
<1>7. OneLinePerRun'
  BY <1>1, <1>2, <1>5 DEF RecordsOK, OneLinePerRun
<1>8. TicketAgrees'
  BY <1>1, <1>2, <1>4 DEF RecordsOK, TicketAgrees
<1> QED
  BY <1>6, <1>7, <1>8 DEF RecordsOK

(* A run whose executor starts; only a requested run has a ticket. *)
LEMMA RecordsStart ==
    ASSUME DataTypes, RecordsOK, NEW r \in Runs, NEW trigger \in {"scheduled", "manual", "event"},
           Dispatch(r, trigger), lines' = lines, lines[r] = <<>>,
           trigger # "manual" => ticket[r] = "none"
    PROVE  RecordsOK'
<1>1. /\ run'[r].phase = "executing" /\ run'[r].trigger = trigger
      /\ ticket'[r] = IF trigger = "manual" THEN "running" ELSE ticket[r]
      /\ \A s \in Runs : s # r => run'[s] = run[s] /\ ticket'[s] = ticket[s]
  BY DEF Dispatch, DataTypes
<1> QED
  BY <1>1, RecordsMove

LEMMA RecordsCrash ==
    ASSUME DataTypes, RecordsOK, NEW r \in Runs, run[r].phase = "ended",
           AppendLine(r), Lost, ticket' = ticket
    PROVE  RecordsOK'
<1>1. run[r].status \in Closed /\ lines[r] = <<>> /\ ticket[r] \notin Closed
  BY DEF RecordsOK, RecordsMatchRuns, Closed, Ended, Carried, OpenTicket
<1>2. Append(<<>>, run[r].status) = <<run[r].status>>
  BY AppendOne
<1>3. \A s \in Runs : lines'[s] = IF s = r /\ file[TaskOf(r)].exists
                                  THEN <<run[r].status>> ELSE lines[s]
  BY <1>1, <1>2 DEF AppendLine, DataTypes
<1> QED
  BY <1>1, <1>3, RecordsLost

LEMMA StepRecords ==
    ASSUME PoolOK, DataTypes, RunsOK, RecordsOK, MarksMatchRuns, Next
    PROVE  RecordsOK'
<1>a. "skipped" \in Closed /\ "cancelled" \in Closed /\ "failure" \in Closed
  BY DEF Closed, Ended
<1>b. \A r \in Runs : run[r].phase # "over" => lines[r] = <<>>
  BY DEF RecordsOK, RecordsMatchRuns
<1>c. \A r \in Runs : run[r].phase = "new" => ticket[r] = "none"
  BY DEF RecordsOK, RecordsMatchRuns
<1>d. \A r \in Runs : Carried(r) /\ run[r].trigger # "manual" => ticket[r] = "none"
  BY DEF RecordsOK, RecordsMatchRuns
<1>1. ASSUME NEW r \in Runs, FireScheduled(r) PROVE RecordsOK'
  BY <1>1, <1>b, <1>c, RecordsStart DEF FireScheduled, Fresh
<1>2. ASSUME NEW r \in Runs, NEW trigger \in {"manual", "event"}, RequestStarts(r, trigger)
      PROVE  RecordsOK'
  BY <1>2, <1>b, <1>c, RecordsStart DEF RequestStarts, MayRequest, Fresh
<1>3. ASSUME NEW r \in Runs, NEW trigger \in {"manual", "event"}, RequestWaits(r, trigger)
      PROVE  RecordsOK'
  <2>1. /\ run'[r].phase = "queued" /\ run'[r].trigger = trigger /\ lines[r] = <<>>
        /\ ticket'[r] = IF trigger = "manual" THEN "queued" ELSE "none"
        /\ lines' = lines
        /\ \A s \in Runs : s # r => run'[s] = run[s] /\ ticket'[s] = ticket[s]
    BY <1>3, <1>b, <1>c DEF RequestWaits, MayRequest, Fresh, DataTypes, RunState
  <2> QED
    BY <2>1, RecordsMove
<1>4. ASSUME NEW r \in Runs, RequestRefused(r) PROVE RecordsOK'
  BY <1>4, <1>a, <1>b, RecordsRefuse DEF RequestRefused, Fresh
<1>5. ASSUME NEW r \in Runs, HandOver(r) PROVE RecordsOK'
  <2>1. run[r].phase = "queued"
    BY <1>5, PoolHandsOver DEF HandOver, RunsOK, RunsMatchPool
  <2>2. /\ run'[r].phase = "starting" /\ run'[r].trigger = run[r].trigger
        /\ lines' = lines /\ ticket' = ticket
        /\ \A s \in Runs : s # r => run'[s] = run[s]
    BY <1>5 DEF HandOver, diskVars, DataTypes, RunState
  <2>3. run[r].trigger \in {"manual", "event"} /\ lines[r] = <<>>
    BY <2>1, <1>b DEF RecordsOK, RecordsMatchRuns
  <2>4. IF run[r].trigger = "manual" THEN ticket[r] \in {"queued", "running"}
                                     ELSE ticket[r] = "none"
    BY <2>1 DEF RecordsOK, RecordsMatchRuns, Carried, OpenTicket
  <2> QED
    BY <2>2, <2>3, <2>4, RecordsMove
<1>6. ASSUME NEW r \in Runs, StartQueued(r) PROVE RecordsOK'
  <2>1. run[r].trigger \in {"manual", "event"} /\ lines[r] = <<>> /\ lines' = lines
    BY <1>6, <1>b DEF StartQueued, RecordsOK, RecordsMatchRuns
  <2>2. run[r].trigger # "manual" => ticket[r] = "none"
    BY <1>6, <1>d DEF StartQueued, Carried
  <2> QED
    BY <1>6, <2>1, <2>2, RecordsStart DEF StartQueued
<1>7. ASSUME NEW r \in Runs, StartQueuedRefused(r) PROVE RecordsOK'
  BY <1>7, <1>a, <1>b, <1>d, RecordsRefuse DEF StartQueuedRefused, Carried
<1>8. ASSUME NEW r \in Runs, NEW st \in Ended, NEW released \in BOOLEAN,
             ExecutorEnds(r, st, released)
      PROVE  RecordsOK'
  <2>1. /\ run'[r].phase = "ended" /\ run'[r].trigger = run[r].trigger /\ run'[r].status = st
        /\ lines' = lines /\ ticket' = ticket /\ lines[r] = <<>>
        /\ \A s \in Runs : s # r => run'[s] = run[s]
    BY <1>8, <1>b DEF ExecutorEnds, diskVars, DataTypes, RunState
  <2>2. IF run[r].trigger = "manual" THEN ticket[r] \in {"queued", "running"}
                                     ELSE ticket[r] = "none"
    BY <1>8 DEF ExecutorEnds, RecordsOK, RecordsMatchRuns, Carried, OpenTicket
  <2> QED
    BY <2>1, <2>2, RecordsMove
<1>9. ASSUME NEW r \in Runs, Record(r) PROVE RecordsOK'
  <2> DEFINE st == run[r].status
  <2>1. st \in Closed /\ lines[r] = <<>> /\ run[r].phase = "ended"
    BY <1>9, <1>b DEF Record, Recorded, RecordsOK, RecordsMatchRuns, Closed
  <2>2. /\ run'[r].phase = "over"
        /\ ticket'[r] = IF run[r].trigger = "manual" THEN st ELSE "none"
        /\ \A s \in Runs : s # r =>
              run'[s] = run[s] /\ lines'[s] = lines[s] /\ ticket'[s] = ticket[s]
    BY <1>9, <1>d, <2>1 DEF Record, NotCarried, AppendLine, Closes, DataTypes, Carried
  <2>3. lines'[r] = <<>> \/ lines'[r] = Append(<<>>, st)
    BY <1>9, <2>1 DEF Record, AppendLine, DataTypes
  <2> HIDE DEF st
  <2>4. Append(<<>>, st) = <<st>> /\ Len(<<st>>) = 1
    BY AppendOne
  <2>5. RecordsMatchRuns'
    BY <2>2 DEF RecordsOK, RecordsMatchRuns, Carried, OpenTicket
  <2>6. OneLinePerRun'
    <3>1. Len(lines'[r]) \in {0, 1}
      BY <2>3, <2>4, NoLine
    <3>2. \A n \in {0, 1} : n <= 1
      OBVIOUS
    <3>3. Len(lines'[r]) <= 1
      BY <3>1, <3>2, Zenon
    <3> QED
      BY <2>2, <3>3 DEF RecordsOK, OneLinePerRun
  <2>7. TicketAgrees'
    BY <2>2, <2>3, <2>4 DEF RecordsOK, TicketAgrees, Closed, Ended
  <2> QED
    BY <2>5, <2>6, <2>7 DEF RecordsOK
<1>10. ASSUME NEW r \in Runs, CrashAfterLine(r) \/ CrashBeforeTicket(r) PROVE RecordsOK'
  BY <1>10, RecordsCrash DEF CrashAfterLine, CrashBeforeTicket, Recorded
<1>11. ASSUME NEW r \in Runs, CancelQueued(r) PROVE RecordsOK'
  BY <1>11, <1>a, <1>b, <1>d, RecordsRefuse DEF CancelQueued, Carried
<1>12. ASSUME NEW r \in Runs, SettleLost(r) PROVE RecordsOK'
  <2> DEFINE st == IF InIndex(r) THEN Head(lines[r])
                   ELSE IF ticket[r] = "running" THEN "failure" ELSE "skipped"
  <2>1. st \in Closed
    BY <1>a, HeadTailProperties DEF InIndex, DataTypes
  <2>2. /\ lines' = [lines EXCEPT ![r] = IF InIndex(r) THEN @ ELSE Append(@, st)]
        /\ ticket' = [ticket EXCEPT ![r] = st] /\ run' = run
    BY <1>12 DEF SettleLost
  <2>3. run[r].phase = "over"
    BY <1>12, <1>c DEF SettleLost, OpenTicket, Carried, DataTypes, RunState
  <2>4. InIndex(r) => st = Head(lines[r])
    OBVIOUS
  <2> HIDE DEF st
  <2> QED
    BY <2>1, <2>2, <2>3, <2>4, RecordsSettle
<1>13. ASSUME NEW t \in Tasks, SettleInterrupted(t) PROVE RecordsOK'
  <2> DEFINE r == file[t].mark
             st == IF InIndex(r) THEN Head(lines[r]) ELSE "failure"
  <2>1. /\ lines' = [lines EXCEPT ![r] = IF InIndex(r) THEN @ ELSE Append(@, st)]
        /\ ticket' = ticket /\ run' = run
    BY <1>13 DEF SettleInterrupted
  <2>2. r \in Runs /\ ticket[r] = "none" /\ run[r].phase = "over"
    <3>1. r # NoRun /\ r \in Runs
      BY <1>13 DEF SettleInterrupted, DataTypes, FileState
    <3>2. ~Carried(r)
      BY <1>13, <3>1 DEF SettleInterrupted, RunsOK, RunsMatchProcess
    <3> QED
      BY <3>1, <3>2 DEF MarksMatchRuns, Carried
  <2>3. st \in Closed
    BY <1>a, <2>2, HeadTailProperties DEF InIndex, DataTypes
  <2>4. InIndex(r) => st = Head(lines[r])
    OBVIOUS
  <2> HIDE DEF st, r
  <2>5. ticket[r] \notin Closed
    BY <2>2 DEF Closed, Ended
  <2> QED
    BY <2>1, <2>2, <2>3, <2>4, <2>5, RecordsSettle
<1>14. ASSUME NEW t \in Tasks, CrashWhileSettling(t) PROVE RecordsOK'
  <2> DEFINE r == file[t].mark
  <2>1. r \in Runs /\ r # NoRun /\ lines[r] = <<>> /\ Lost /\ ticket' = ticket
    BY <1>14 DEF CrashWhileSettling, InIndex, DataTypes, FileState
  <2>2. \A s \in Runs : lines'[s] = IF s = r THEN Append(lines[r], "failure") ELSE lines[s]
    BY <1>14, <2>1 DEF CrashWhileSettling, DataTypes
  <2>3. run[r].phase # "new" /\ ticket[r] \notin Closed
    BY <2>1 DEF MarksMatchRuns, Closed, Ended
  <2>4. Append(lines[r], "failure") = <<"failure">>
    BY <2>1, AppendOne
  <2> HIDE DEF r
  <2> QED
    BY <1>a, <2>1, <2>2, <2>3, <2>4, RecordsLost
<1>15. ASSUME Crash PROVE RecordsOK'
  BY <1>15, RecordsLost DEF Crash, diskVars
<1>16. ASSUME Stop PROVE RecordsOK'
  <2> DEFINE manual(r) == run[r].phase = "queued" /\ run[r].trigger = "manual"
  <2>1. \A r \in Runs :
           /\ run'[r] = IF run[r].phase = "queued" THEN NotCarried("over") ELSE run[r]
           /\ lines'[r] = IF manual(r) /\ file[TaskOf(r)].exists
                          THEN Append(lines[r], "skipped") ELSE lines[r]
           /\ ticket'[r] = IF manual(r) THEN "skipped" ELSE ticket[r]
    BY <1>16 DEF Stop
  <2>2. /\ Append(<<>>, "skipped") = <<"skipped">> /\ Len(<<"skipped">>) = 1
        /\ <<"skipped">> # <<>>
    BY AppendOne
  <2>3. \A r \in Runs : manual(r) => lines'[r] = <<>> \/ lines'[r] = <<"skipped">>
    BY <1>b, <2>1, <2>2
  <2>4. \A r \in Runs : run[r].phase = "queued" /\ run[r].trigger # "manual" => ticket[r] = "none"
    BY <1>d DEF Carried
  <2>5. RecordsMatchRuns'
    BY <2>1, <2>4 DEF RecordsOK, RecordsMatchRuns, Carried, OpenTicket, NotCarried
  <2>6. OneLinePerRun'
    <3> SUFFICES ASSUME NEW r \in Runs PROVE Len(lines'[r]) <= 1
      BY DEF OneLinePerRun
    <3>1. CASE manual(r)
      <4>1. Len(lines'[r]) \in {0, 1}
        BY <3>1, <2>2, <2>3, NoLine
      <4>2. \A n \in {0, 1} : n <= 1
        OBVIOUS
      <4> QED
        BY <4>1, <4>2, Zenon
    <3>2. CASE ~manual(r)
      BY <3>2, <2>1 DEF RecordsOK, OneLinePerRun
    <3> QED
      BY <3>1, <3>2
  <2>7. TicketAgrees'
    BY <2>1, <2>2, <2>3 DEF RecordsOK, TicketAgrees
  <2> QED
    BY <2>5, <2>6, <2>7 DEF RecordsOK
<1>17. ASSUME UNCHANGED <<run, lines, ticket>> PROVE RecordsOK'
  BY <1>17
  DEF RecordsOK, RecordsMatchRuns, OneLinePerRun, TicketAgrees, Carried, OpenTicket
<1> QED
  <2>1. ASSUME NEW t \in Tasks,
               \/ SkipScheduled(t)
               \/ \E kind \in EditTo[t] : EditSchedule(t, kind)
               \/ \E on \in BOOLEAN : SetEnabled(t, on)
               \/ DeleteTask(t) \/ BecomesDue(t) \/ BudgetResets(t)
        PROVE  UNCHANGED <<run, lines, ticket>>
    BY <2>1 DEF SkipScheduled, EditSchedule, SetEnabled, DeleteTask, BecomesDue, BudgetResets
  <2>2. ASSUME HandOverEnds \/ StopPool \/ Boot \/ FinishBoot
        PROVE  UNCHANGED <<run, lines, ticket>>
    BY <2>2 DEF HandOverEnds, StopPool, Boot, FinishBoot, diskVars
  <2> QED
    BY <1>1, <1>2, <1>3, <1>4, <1>5, <1>6, <1>7, <1>8, <1>9, <1>10, <1>11, <1>12, <1>13, <1>14,
       <1>15, <1>16, <1>17, <2>1, <2>2
    DEF Next

-----------------------------------------------------------------------------
(* The marks in the task files *)

SameMarks ==
    \A t \in Tasks : /\ file'[t].mark = file[t].mark /\ file'[t].markAt = file[t].markAt
                     /\ file'[t].exists => file[t].exists

(* A step of a run that carries no mark. *)
LEMMA MarksOther ==
    ASSUME DataTypes, MarksMatchRuns, SameMarks, NEW r \in Runs,
           run[r].phase \in {"new", "queued", "starting"},
           \A s \in Runs : s # r => run'[s] = run[s] /\ ticket'[s] = ticket[s],
           proc' = proc, Active(r)' => run'[r].trigger # "scheduled"
    PROVE  MarksMatchRuns'
<1>1. \A t \in Tasks : file[t].mark # NoRun => file[t].mark \in Runs /\ file[t].mark # r
  BY DEF DataTypes, FileState, MarksMatchRuns
<1> QED
  BY <1>1 DEF SameMarks, MarksMatchRuns, Active

LEMMA MarksKept ==
    ASSUME DataTypes, MarksMatchRuns, SameMarks, run' = run, ticket' = ticket, proc' = proc
    PROVE  MarksMatchRuns'
BY DEF SameMarks, MarksMatchRuns, Active

LEMMA MarksStart ==
    ASSUME DataTypes, RunsOK, RecordsOK, MarksMatchRuns, NEW r \in Runs,
           Dispatch(r, "scheduled"), run[r].phase = "new", ~AlreadyRunning(TaskOf(r)), proc' = proc
    PROVE  MarksMatchRuns'
<1> DEFINE t == TaskOf(r)
<1>1. t \in Tasks /\ file[t] \in FileState /\ r # NoRun
  BY RunTasks, NoRunIsNoRun DEF DataTypes
<1>2. /\ file'[t].mark = r /\ file'[t].markAt = run'[r].onceAt
      /\ file'[t].exists = file[t].exists
      /\ \A u \in Tasks : u # t => file'[u] = file[u]
      /\ run'[r].phase = "executing" /\ run'[r].trigger = "scheduled"
      /\ \A s \in Runs : s # r => run'[s] = run[s]
      /\ ticket' = ticket
  BY <1>1 DEF Dispatch, Marked, DataTypes, FileState
<1>3. ticket[r] = "none"
  BY DEF RecordsOK, RecordsMatchRuns
<1>4. \A s \in Runs : TaskOf(s) = t /\ Active(s)' => s = r
  BY <1>2 DEF AlreadyRunning, Active
<1>5. \A u \in Tasks : u # t /\ file[u].mark # NoRun => file[u].mark \in Runs /\ file[u].mark # r
  BY DEF DataTypes, FileState, MarksMatchRuns
<1> HIDE DEF t
<1> QED
  BY <1>1, <1>2, <1>3, <1>4, <1>5 DEF MarksMatchRuns, Active, t

(* Saving after a run takes its own mark out and no other. *)
LEMMA SavedMarks ==
    ASSUME DataTypes, NEW r \in Runs, SaveAfterRun(r)
    PROVE  \A t \in Tasks :
              /\ file'[t].exists = file[t].exists
              /\ IF t = TaskOf(r) /\ file[t].exists /\ file[t].mark = r
                 THEN file'[t].mark = NoRun
                 ELSE file'[t].mark = file[t].mark /\ file'[t].markAt = file[t].markAt
<1> DEFINE u == TaskOf(r)
<1>1. u \in Tasks /\ file[u] \in FileState
  BY RunTasks DEF DataTypes
<1>2. CASE file[u].exists
  <2>1. PICK g \in AfterRun(file[u], r, u, run[r].trigger, run[r].onceAt, run[r].status, {"future"}) :
          file' = [file EXCEPT ![u] = g]
    BY <1>2 DEF SaveAfterRun
  <2>2. /\ g.exists = file[u].exists
        /\ IF file[u].mark = r THEN g.mark = NoRun /\ g.markAt = NoAt
                               ELSE g.mark = file[u].mark /\ g.markAt = file[u].markAt
    BY <1>1, <2>1, AfterRunFacts
  <2> QED
    BY <1>1, <1>2, <2>1, <2>2 DEF DataTypes
<1>3. CASE ~file[u].exists
  BY <1>3 DEF SaveAfterRun
<1> QED
  BY <1>2, <1>3

(* A crash leaves marks only of runs that are over. *)
LEMMA MarksLost ==
    ASSUME DataTypes, MarksMatchRuns, Lost, ticket' = ticket,
           \A t \in Tasks : file'[t].mark \in {file[t].mark, NoRun}
    PROVE  MarksMatchRuns'
<1>1. \A s \in Runs : run'[s].phase = IF run[s].phase = "new" THEN "new" ELSE "over"
  BY DEF Lost, NotCarried
<1>2. \A t \in Tasks : file[t].mark # NoRun => file[t].mark \in Runs
  BY DEF DataTypes, FileState
<1>3. proc' = "down"
  BY DEF Lost
<1> QED
  BY <1>1, <1>2, <1>3 DEF MarksMatchRuns, Active

LEMMA StepMarks ==
    ASSUME PoolOK, DataTypes, RunsOK, RecordsOK, MarksMatchRuns, Next
    PROVE  MarksMatchRuns'
<1>1. ASSUME NEW r \in Runs, FireScheduled(r) PROVE MarksMatchRuns'
  BY <1>1, MarksStart DEF FireScheduled, Fresh
<1>2. ASSUME NEW r \in Runs, NEW trigger \in {"manual", "event"}, Dispatch(r, trigger),
             run[r].phase \in {"new", "starting"}, proc' = proc
      PROVE  MarksMatchRuns'
  <2>1. SameMarks
    BY <1>2, RunTasks DEF Dispatch, SameMarks, DataTypes
  <2>2. /\ run'[r].trigger # "scheduled"
        /\ \A s \in Runs : s # r => run'[s] = run[s] /\ ticket'[s] = ticket[s]
    BY <1>2 DEF Dispatch, DataTypes
  <2> QED
    BY <1>2, <2>1, <2>2, MarksOther
<1>3. ASSUME NEW r \in Runs, NEW trigger \in {"manual", "event"}, RequestWaits(r, trigger)
      PROVE  MarksMatchRuns'
  <2>1. /\ SameMarks /\ proc' = proc /\ run[r].phase = "new" /\ run'[r].phase = "queued"
        /\ \A s \in Runs : s # r => run'[s] = run[s] /\ ticket'[s] = ticket[s]
    BY <1>3 DEF RequestWaits, MayRequest, Fresh, SameMarks, DataTypes, RunState
  <2> QED
    BY <2>1, MarksOther DEF Active
<1>4. ASSUME NEW r \in Runs, RequestRefused(r) \/ StartQueuedRefused(r) \/ CancelQueued(r)
      PROVE  MarksMatchRuns'
  <2>1. /\ SameMarks /\ proc' = proc /\ run[r].phase \in {"new", "queued", "starting"}
        /\ run'[r].phase = "over"
        /\ \A s \in Runs : s # r => run'[s] = run[s] /\ ticket'[s] = ticket[s]
    BY <1>4
    DEF RequestRefused, StartQueuedRefused, CancelQueued, NotStarted, Fresh, SameMarks, DataTypes,
        NotCarried
  <2> QED
    BY <2>1, MarksOther DEF Active
<1>5. ASSUME NEW r \in Runs, HandOver(r) PROVE MarksMatchRuns'
  <2>1. run[r].phase = "queued"
    BY <1>5, PoolHandsOver DEF HandOver, RunsOK, RunsMatchPool
  <2>2. /\ SameMarks /\ proc' = proc /\ run'[r].phase = "starting"
        /\ \A s \in Runs : s # r => run'[s] = run[s] /\ ticket'[s] = ticket[s]
    BY <1>5 DEF HandOver, diskVars, SameMarks, DataTypes, RunState
  <2> QED
    BY <2>1, <2>2, MarksOther DEF Active
<1>6. ASSUME NEW r \in Runs, NEW st \in Ended, NEW released \in BOOLEAN,
             ExecutorEnds(r, st, released)
      PROVE  MarksMatchRuns'
  <2>1. /\ run'[r].phase = "ended" /\ run[r].phase = "executing"
        /\ run'[r].trigger = run[r].trigger /\ run'[r].onceAt = run[r].onceAt
        /\ \A s \in Runs : s # r => run'[s] = run[s]
        /\ file' = file /\ ticket' = ticket /\ proc' = proc
    BY <1>6 DEF ExecutorEnds, diskVars, DataTypes, RunState
  <2>2. \A t \in Tasks : file[t].mark # NoRun => file[t].mark \in Runs
    BY DEF DataTypes, FileState
  <2> QED
    BY <2>1, <2>2 DEF MarksMatchRuns, Active
<1>7. ASSUME NEW r \in Runs, Record(r) PROVE MarksMatchRuns'
  <2> DEFINE u == TaskOf(r)
  <2>1. /\ Active(r) /\ Carried(r) /\ proc' = proc /\ proc \in {"running", "stopped"}
        /\ run'[r].phase = "over" /\ SaveAfterRun(r)
        /\ \A s \in Runs : s # r => run'[s] = run[s] /\ ticket'[s] = ticket[s]
        /\ run[r].trigger # "manual" => ticket'[r] = ticket[r]
    BY <1>7 DEF Record, Recorded, Active, Carried, NotCarried, Closes, DataTypes
  <2>2. u \in Tasks /\ \A s \in Runs : s # r /\ Active(s) => TaskOf(s) # u
    BY <2>1, RunTasks DEF RunsOK, OneRunPerTask, Active, Carried
  <2>3. \A t \in Tasks : file[t].mark # NoRun => file[t].mark \in Runs
    BY DEF DataTypes, FileState
  <2>4. ticket[r] = "none" => run[r].trigger # "manual"
    BY <2>1 DEF RecordsOK, RecordsMatchRuns, OpenTicket
  <2>5. \A t \in Tasks :
           /\ file'[t].exists = file[t].exists
           /\ IF t = u /\ file[t].exists /\ file[t].mark = r
              THEN file'[t].mark = NoRun
              ELSE file'[t].mark = file[t].mark /\ file'[t].markAt = file[t].markAt
    BY <2>1, SavedMarks
  <2>6. ASSUME NEW t \in Tasks, file'[t].mark # NoRun
        PROVE  /\ TaskOf(file'[t].mark) = t /\ ticket'[file'[t].mark] = "none"
               /\ run'[file'[t].mark].phase \in {"executing", "ended", "over"}
    <3>1. file'[t].mark = file[t].mark
      BY <2>5, <2>6
    <3> QED
      BY <2>1, <2>3, <2>4, <2>6, <3>1 DEF MarksMatchRuns
  <2>7. ASSUME NEW t \in Tasks, file'[t].exists, NEW s \in Runs, TaskOf(s) = t,
               Active(s)', run'[s].trigger = "scheduled"
        PROVE  file'[t].mark = s
    <3>1. s # r /\ run'[s] = run[s] /\ Active(s)
      BY <2>1, <2>7 DEF Active
    <3> QED
      BY <2>2, <2>5, <2>7, <3>1 DEF MarksMatchRuns
  <2>8. ASSUME NEW t \in Tasks, file'[t].exists, file'[t].mark # NoRun
        PROVE  /\ run'[file'[t].mark].phase \in {"executing", "ended"}
               /\ run'[file'[t].mark].trigger = "scheduled"
               /\ run'[file'[t].mark].onceAt = file'[t].markAt
    <3>1. file'[t].mark = file[t].mark /\ file'[t].markAt = file[t].markAt /\ file[t].exists
      BY <2>5, <2>8
    <3> DEFINE m == file[t].mark
    <3>2. /\ m \in Runs /\ TaskOf(m) = t /\ Active(m) /\ run[m].trigger = "scheduled"
          /\ run[m].onceAt = file[t].markAt
      BY <2>1, <2>3, <2>8, <3>1 DEF MarksMatchRuns
    <3>3. m # r
      BY <2>5, <2>8, <3>1, <3>2
    <3> QED
      BY <2>1, <3>1, <3>2, <3>3 DEF Active
  <2> QED
    BY <2>6, <2>7, <2>8 DEF MarksMatchRuns, Active
<1>8. ASSUME NEW r \in Runs, CrashAfterLine(r) \/ CrashBeforeTicket(r) PROVE MarksMatchRuns'
  <2>1. \A t \in Tasks : file'[t].mark \in {file[t].mark, NoRun}
    BY <1>8, SavedMarks DEF CrashAfterLine, CrashBeforeTicket
  <2> QED
    BY <1>8, <2>1, MarksLost DEF CrashAfterLine, CrashBeforeTicket
<1>9. ASSUME NEW t \in Tasks, CrashWhileSettling(t) PROVE MarksMatchRuns'
  BY <1>9, MarksLost DEF CrashWhileSettling
<1>10. ASSUME Crash PROVE MarksMatchRuns'
  BY <1>10, MarksLost DEF Crash, diskVars
<1>11. ASSUME NEW r \in Runs, SettleLost(r) PROVE MarksMatchRuns'
  <2>1. /\ run' = run /\ file' = file /\ proc' = proc /\ ticket[r] # "none"
        /\ \A s \in Runs : s # r => ticket'[s] = ticket[s]
    BY <1>11 DEF SettleLost, OpenTicket, DataTypes
  <2>2. \A t \in Tasks : file[t].mark # NoRun => file[t].mark \in Runs
    BY DEF DataTypes, FileState
  <2> QED
    BY <2>1, <2>2 DEF MarksMatchRuns, Active
<1>12. ASSUME NEW u \in Tasks, SettleInterrupted(u) PROVE MarksMatchRuns'
  <2> DEFINE f == file[u]
             r == f.mark
  <2>1. /\ run' = run /\ ticket' = ticket /\ proc' = proc /\ proc = "booting"
        /\ r \in Runs /\ f \in FileState
    BY <1>12 DEF SettleInterrupted, DataTypes, FileState
  <2> DEFINE st == IF InIndex(r) THEN Head(lines[r]) ELSE "failure"
             nexts == IF InIndex(r) THEN {"future", "due"} ELSE {"future"}
  <2>2. PICK g \in AfterRun(f, r, u, "scheduled", FiredAt(f.markAt, f.at), st, nexts) :
          file' = [file EXCEPT ![u] = g]
    BY <1>12 DEF SettleInterrupted
  <2>3. g.mark = NoRun
    BY <2>1, <2>2, AfterRunFacts
  <2>4. \A t \in Tasks : IF t = u THEN file'[t].mark = NoRun ELSE file'[t] = file[t]
    BY <2>2, <2>3 DEF DataTypes
  <2>5. \A s \in Runs : ~Active(s)'
    BY <2>1 DEF RunsOK, RunsMatchProcess, Carried, Active
  <2> HIDE DEF f, r
  <2> QED
    BY <2>1, <2>4, <2>5 DEF MarksMatchRuns, Active
<1>13. ASSUME Stop PROVE MarksMatchRuns'
  <2>1. /\ file' = file /\ proc = "running"
        /\ \A r \in Runs : run'[r] = IF run[r].phase = "queued" THEN NotCarried("over") ELSE run[r]
        /\ \A r \in Runs : run[r].phase # "queued" => ticket'[r] = ticket[r]
    BY <1>13 DEF Stop
  <2>2. \A t \in Tasks : file[t].mark # NoRun => file[t].mark \in Runs
    BY DEF DataTypes, FileState
  <2> QED
    BY <2>1, <2>2 DEF MarksMatchRuns, Active, NotCarried
<1>14. ASSUME Boot PROVE MarksMatchRuns'
  BY <1>14 DEF Boot, diskVars, MarksMatchRuns, Active
<1>15. ASSUME FinishBoot PROVE MarksMatchRuns'
  <2>1. /\ run' = run /\ ticket' = ticket /\ proc = "booting"
        /\ \A t \in Tasks : file[t].exists => file[t].mark = NoRun
        /\ \A t \in Tasks : file'[t] \in {Retired(file[t], "missed"), file[t]}
    BY <1>15 DEF FinishBoot
  <2>2. \A t \in Tasks : file'[t].mark = file[t].mark /\ file'[t].exists = file[t].exists
    BY <2>1 DEF Retired, DataTypes, FileState
  <2>3. \A s \in Runs : ~Active(s)'
    BY <2>1 DEF RunsOK, RunsMatchProcess, Carried, Active
  <2> QED
    BY <2>1, <2>2, <2>3 DEF MarksMatchRuns
<1>16. ASSUME HandOverEnds \/ StopPool PROVE MarksMatchRuns'
  BY <1>16 DEF HandOverEnds, StopPool, diskVars, MarksMatchRuns, Active
<1>17. ASSUME NEW t \in Tasks,
              \/ SkipScheduled(t)
              \/ \E kind \in EditTo[t] : EditSchedule(t, kind)
              \/ \E on \in BOOLEAN : SetEnabled(t, on)
              \/ DeleteTask(t) \/ BecomesDue(t) \/ BudgetResets(t)
       PROVE  MarksMatchRuns'
  <2>1. run' = run /\ ticket' = ticket /\ proc' = proc
    BY <1>17 DEF SkipScheduled, EditSchedule, SetEnabled, DeleteTask, BecomesDue, BudgetResets
  <2>2. SameMarks
    <3> USE DEF SameMarks, DataTypes, FileState
    <3>1. CASE SkipScheduled(t)
      BY <3>1 DEF SkipScheduled
    <3>2. ASSUME NEW kind \in EditTo[t], EditSchedule(t, kind) PROVE SameMarks
      BY <3>2 DEF EditSchedule
    <3>3. ASSUME NEW on \in BOOLEAN, SetEnabled(t, on) PROVE SameMarks
      BY <3>3 DEF SetEnabled
    <3>4. CASE DeleteTask(t)
      BY <3>4 DEF DeleteTask
    <3>5. CASE BecomesDue(t)
      BY <3>5 DEF BecomesDue
    <3>6. CASE BudgetResets(t)
      BY <3>6 DEF BudgetResets
    <3> QED
      BY <1>17, <3>1, <3>2, <3>3, <3>4, <3>5, <3>6
  <2> QED
    BY <2>1, <2>2, MarksKept
<1> QED
  <2>1. ASSUME NEW r \in Runs, NEW trigger \in {"manual", "event"}, RequestStarts(r, trigger)
        PROVE  MarksMatchRuns'
    BY <1>2, <2>1 DEF RequestStarts, MayRequest, Fresh
  <2>2. ASSUME NEW r \in Runs, StartQueued(r) PROVE MarksMatchRuns'
    BY <1>2, <2>2 DEF StartQueued, RecordsOK, RecordsMatchRuns
  <2> QED
    BY <1>1, <1>3, <1>4, <1>5, <1>6, <1>7, <1>8, <1>9, <1>10, <1>11, <1>12, <1>13, <1>14,
       <1>15, <1>16, <1>17, <2>1, <2>2
    DEF Next

-----------------------------------------------------------------------------
(* The occurrences of a schedule *)

LEMMA BoundGrows ==
    ASSUME NEW a \in Nat, NEW n \in Nat, NEW m \in Nat, n <= m
    PROVE  (a <= n + 1 => a <= m + 1) /\ (a > m + 1 => a > n + 1)
OBVIOUS

LEMMA OccurrenceKept ==
    ASSUME DataTypes, NEW t \in Tasks, OccurrenceOK(t), file'[t] = file[t],
           begun'[t] = begun[t], edits' = edits \/ edits' = edits + 1,
           \A a \in Ats : fired'[t][a] = fired[t][a] \/ (a = NoAt /\ fired'[t][a] = 0)
    PROVE  OccurrenceOK(t)'
<1>1. file[t].at \in Ats /\ edits \in Nat
  BY TaskConstants DEF DataTypes, FileState
<1>2. Ats \subseteq Nat
  BY TaskConstants DEF Ats
<1>a. /\ file[t].at <= edits + 1
      /\ \A a \in Ats : fired[t][a] \in {0, 1} /\ (a > edits + 1 => fired[t][a] = 0)
  BY DEF OccurrenceOK
<1>b. edits' \in Nat /\ edits <= edits'
  BY <1>1
<1>3. file'[t].at <= edits' + 1
  <2> DEFINE at == file[t].at
  <2>1. at \in Nat /\ at <= edits + 1
    BY <1>1, <1>2, <1>a
  <2> HIDE DEF at
  <2>2. at <= edits' + 1
    BY <1>1, <1>b, <2>1, BoundGrows
  <2> QED
    BY <2>2 DEF at
<1>4. ASSUME NEW a \in Ats
      PROVE  fired'[t][a] \in {0, 1} /\ (a > edits' + 1 => fired'[t][a] = 0)
  <2>0. a \in Nat
    BY <1>2
  <2>1. a > edits' + 1 => a > edits + 1
    BY <1>1, <1>b, <2>0, BoundGrows
  <2> QED
    BY <1>a, <2>1
<1> QED
  BY <1>1, <1>3, <1>4 DEF OccurrenceOK

(* After a run: the occurrence its mark stands for is retired. *)
LEMMA OccurrenceSaved ==
    ASSUME DataTypes, NEW t \in Tasks, OccurrenceOK(t), file[t].exists,
           NEW r \in Runs, NEW trigger, NEW firedAt, NEW st, NEW nexts \in SUBSET {"future", "due"},
           NEW g \in AfterRun(file[t], r, t, trigger, firedAt, st, nexts),
           file' = [file EXCEPT ![t] = g], Moves(t, g), fired' = fired, edits' = edits,
           file[t].mark # NoRun =>
              /\ file[t].mark = r /\ trigger = "scheduled"
              /\ file[t].kind = "once" /\ file[t].markAt = file[t].at => firedAt = file[t].at
    PROVE  OccurrenceOK(t)'
<1> DEFINE f == file[t]
<1>1. f \in FileState
  BY DEF DataTypes
<1>2. /\ g.kind = f.kind /\ g.at = f.at /\ g.passed = f.passed
      /\ g.enabled => f.enabled
      /\ f.kind # "recurring" =>
            IF trigger = "scheduled" /\ f.at = firedAt
            THEN ~g.enabled /\ g.next = "none"
            ELSE g.next = f.next
  <2>1. g.kind = f.kind /\ g.at = f.at /\ g.passed = f.passed
    BY <1>1, AfterRunFacts
  <2>3. g.enabled => f.enabled
    BY <1>1, AfterRunFacts
  <2>2. IF f.kind = "recurring" THEN g.done = f.done
        ELSE IF trigger = "scheduled" /\ f.at = firedAt
             THEN ~g.enabled /\ g.next = "none" /\ g.done = "ran"
             ELSE g.next = f.next /\ g.done = f.done
    BY <1>1, AfterRunFacts
  <2> QED
    BY <2>1, <2>2, <2>3
<1>3. f.kind \in {"once", "recurring"}
  BY <1>1 DEF FileState
<1>4. file'[t] = g /\ begun'[t] = (begun[t] /\ g.kind = "once" /\ g.next = f.next)
  BY DEF DataTypes, Moves
<1>5. ~begun'[t]
  <2> SUFFICES ASSUME begun[t], g.kind = "once" PROVE g.next # f.next
    BY <1>4
  <2>1. f.next = "due" /\ f.mark # NoRun /\ f.markAt = f.at
    BY <1>2 DEF OccurrenceOK
  <2> QED
    BY <1>2, <2>1
<1>6. f.kind = "once" /\ fired[t][f.at] # 0 => f.passed /\ ~g.enabled
  BY <1>2 DEF OccurrenceOK
<1>7. f.kind = "once" /\ g.next = "due" => f.passed
  BY <1>2 DEF OccurrenceOK
<1> QED
  BY <1>2, <1>4, <1>5, <1>6, <1>7 DEF OccurrenceOK

LEMMA OccurrencesSaved ==
    ASSUME DataTypes, RunsOK, MarksMatchRuns, OccurrencesOK, NEW r \in Runs,
           Active(r), proc \in {"running", "stopped"}, SaveAfterRun(r),
           fired' = fired, edits' = edits
    PROVE  OccurrencesOK'
<1> DEFINE u == TaskOf(r)
<1>1. u \in Tasks /\ file[u] \in FileState
  BY RunTasks DEF DataTypes
<1>2. CASE file[u].exists
  <2>1. PICK g \in AfterRun(file[u], r, u, run[r].trigger, run[r].onceAt, run[r].status, {"future"}) :
          file' = [file EXCEPT ![u] = g] /\ Moves(u, g)
    BY <1>2 DEF SaveAfterRun
  <2>2. ASSUME file[u].mark # NoRun
        PROVE  file[u].mark = r /\ run[r].trigger = "scheduled" /\ run[r].onceAt = file[u].markAt
    <3>1. file[u].mark \in Runs
      BY <1>1, <2>2 DEF FileState
    <3>2. /\ TaskOf(file[u].mark) = u /\ Active(file[u].mark)
          /\ run[file[u].mark].trigger = "scheduled"
          /\ run[file[u].mark].onceAt = file[u].markAt
      BY <1>1, <1>2, <2>2 DEF MarksMatchRuns
    <3>3. file[u].mark = r
      BY <3>1, <3>2 DEF RunsOK, OneRunPerTask, Active, Carried
    <3> QED
      BY <3>2, <3>3
  <2>3. OccurrenceOK(u)'
    <3>1. OccurrenceOK(u)
      BY <1>1 DEF OccurrencesOK
    <3>2. {"future"} \in SUBSET {"future", "due"}
      OBVIOUS
    <3> HIDE DEF u
    <3> QED
      BY <1>1, <1>2, <2>1, <2>2, <3>1, <3>2, OccurrenceSaved
  <2>4. ASSUME NEW t \in Tasks, t # u PROVE OccurrenceOK(t)'
    BY <2>1, <2>4, OccurrenceKept DEF OccurrencesOK, DataTypes, Moves
  <2> QED
    BY <2>3, <2>4 DEF OccurrencesOK
<1>3. CASE ~file[u].exists
  BY <1>3, OccurrenceKept DEF SaveAfterRun, OccurrencesOK
<1> QED
  BY <1>2, <1>3

(* The executor starts for the occurrence that is due: never a second time. *)
LEMMA OccurrenceFires ==
    ASSUME DataTypes, RunsOK, MarksMatchRuns, OccurrencesOK, NEW r \in Runs, FireScheduled(r)
    PROVE  OccurrencesOK'
<1> DEFINE t == TaskOf(r)
           f == file[t]
           onceAt == IF f.kind = "once" THEN f.at ELSE NoAt
<1>1. t \in Tasks /\ f \in FileState
  BY RunTasks DEF DataTypes
<1>2. OccurrenceOK(t) /\ Ats \subseteq Nat /\ NoAt = 0 /\ f.at \in Ats
  BY <1>1, TaskConstants DEF OccurrencesOK, Ats, NoAt, FileState
<1>3. /\ f.exists /\ f.enabled /\ f.next = "due" /\ proc = "running" /\ edits' = edits
      /\ ~AlreadyRunning(t)
      /\ file' = [file EXCEPT ![t] = Marked(f, r, onceAt)]
      /\ begun' = [begun EXCEPT ![t] = TRUE]
      /\ fired' = [fired EXCEPT ![t][onceAt] = IF onceAt = NoAt THEN 0 ELSE @ + 1]
  BY DEF FireScheduled, Dispatch
<1>4. f.mark = NoRun
  <2> SUFFICES ASSUME f.mark # NoRun PROVE FALSE
    OBVIOUS
  <2>1. f.mark \in Runs
    BY <1>1 DEF FileState
  <2>2. TaskOf(f.mark) = t /\ Active(f.mark)
    BY <1>1, <1>3 DEF MarksMatchRuns
  <2> QED
    BY <1>3, <2>1, <2>2 DEF AlreadyRunning
<1>5. f.kind = "once" => f.passed /\ fired[t][f.at] = 0 /\ f.at # NoAt
  BY <1>2, <1>3, <1>4 DEF OccurrenceOK
<1> DEFINE g == Marked(f, r, onceAt)
<1>6. /\ g.at = f.at /\ g.kind = f.kind /\ g.next = "due" /\ g.passed = f.passed
      /\ g.mark = r /\ g.markAt = onceAt
  BY <1>1, <1>3 DEF FileState, Marked
<1>7. file'[t] = g /\ \A u \in Tasks : u # t => file'[u] = file[u] /\ begun'[u] = begun[u]
  BY <1>1, <1>3 DEF DataTypes
<1>8. onceAt \in Ats
  BY <1>2, TaskConstants DEF Ats
<1>9. /\ \A u \in Tasks : u # t => fired'[u] = fired[u]
      /\ \A a \in Ats : fired'[t][a] = IF a = onceAt
                                       THEN IF onceAt = NoAt THEN 0 ELSE fired[t][a] + 1
                                       ELSE fired[t][a]
  BY <1>1, <1>3, <1>8 DEF DataTypes
<1>10. r # NoRun
  BY NoRunIsNoRun
<1>11. f.at <= edits + 1 /\ \A a \in Ats : fired[t][a] \in {0, 1} /\ (a > edits + 1 => fired[t][a] = 0)
  BY <1>2 DEF OccurrenceOK
<1>12. ASSUME NEW a \in Ats
       PROVE  fired'[t][a] \in {0, 1} /\ (a > edits + 1 => fired'[t][a] = 0)
  <2>1. CASE a # onceAt
    BY <1>9, <1>11, <2>1
  <2>2. CASE a = onceAt /\ onceAt = NoAt
    BY <1>9, <2>2
  <2>3. CASE a = onceAt /\ onceAt # NoAt
    <3>1. f.kind = "once" /\ a = f.at /\ fired[t][a] = 0
      BY <1>5, <2>3
    <3>2. fired'[t][a] = 1
      BY <1>9, <2>3, <3>1
    <3>3. ~(a > edits + 1)
      BY <1>2, <1>11, <3>1, TaskConstants DEF DataTypes
    <3> QED
      BY <3>2, <3>3
  <2> QED
    BY <2>1, <2>2, <2>3
<1> HIDE DEF g, f, onceAt
<1>13. OccurrenceOK(t)'
  <2>1. g.kind = "once" <=> g.at # NoAt
    BY <1>2, <1>6 DEF OccurrenceOK, f
  <2>2. g.kind = "once" => g.passed /\ g.markAt = g.at
    BY <1>5, <1>6 DEF onceAt
  <2> QED
    BY <1>3, <1>6, <1>7, <1>10, <1>11, <1>12, <2>1, <2>2 DEF OccurrenceOK
<1>14. ASSUME NEW u \in Tasks, u # t PROVE OccurrenceOK(u)'
  BY <1>3, <1>7, <1>9, <1>14, OccurrenceKept DEF OccurrencesOK
<1> QED
  BY <1>13, <1>14 DEF OccurrencesOK

(* The steps that move a schedule or switch a task on or off. *)
LEMMA OccurrenceEdited ==
    ASSUME DataTypes, OccurrencesOK, NEW t \in Tasks, NEW kind \in EditTo[t],
           EditSchedule(t, kind)
    PROVE  OccurrencesOK'
<1> DEFINE f == file[t]
           rearm == kind = "once" /\ f.kind = "once" /\ f.done # "no"
           at == IF kind = "once" THEN edits + 2 ELSE NoAt
           g == [f EXCEPT !.kind = kind, !.at = at, !.passed = FALSE, !.next = "future",
                          !.done = "no", !.enabled = f.enabled \/ rearm]
<1>1. /\ file' = [file EXCEPT ![t] = g] /\ edits' = edits + 1 /\ edits < MaxEdits
      /\ begun' = [begun EXCEPT ![t] = FALSE] /\ fired' = fired
  BY DEF EditSchedule
<1>2. f \in FileState /\ edits \in Nat /\ NoAt = 0 /\ Ats = 0..(MaxEdits + 1) /\ MaxEdits \in Nat
  BY TaskConstants DEF DataTypes, NoAt, Ats
<1>3. at \in Ats /\ at <= edits + 2 /\ (kind = "once" <=> at # NoAt)
  BY <1>1, <1>2
<1>4. kind = "once" => fired[t][at] = 0
  <2> SUFFICES ASSUME kind = "once" PROVE fired[t][at] = 0
    OBVIOUS
  <2>1. at > edits + 1
    BY <1>2
  <2> QED
    BY <1>3, <2>1 DEF OccurrencesOK, OccurrenceOK
<1> HIDE DEF at, rearm
<1>5. g.kind = kind /\ g.at = at /\ g.next = "future"
  BY <1>2 DEF FileState
<1>6. file'[t] = g /\ ~begun'[t] /\ \A u \in Tasks : u # t => file'[u] = file[u] /\ begun'[u] = begun[u]
  BY <1>1 DEF DataTypes
<1>7. ASSUME NEW a \in Ats
      PROVE  fired'[t][a] \in {0, 1} /\ (a > edits' + 1 => fired'[t][a] = 0)
  <2>1. fired[t][a] \in {0, 1} /\ (a > edits + 1 => fired[t][a] = 0)
    BY DEF OccurrencesOK, OccurrenceOK
  <2>2. a \in Nat /\ (a > edits + 2 => a > edits + 1)
    BY <1>2
  <2>3. edits' + 1 = edits + 2
    BY <1>1, <1>2
  <2> QED
    BY <1>1, <2>1, <2>2, <2>3
<1> HIDE DEF g, f
<1>8. OccurrenceOK(t)'
  <2>1. edits' + 1 = edits + 2
    BY <1>1, <1>2
  <2>2. file'[t].at <= edits' + 1
    BY <1>3, <1>5, <1>6, <2>1
  <2>3. fired' = fired
    BY <1>1
  <2> QED
    BY <1>3, <1>4, <1>5, <1>6, <1>7, <2>2, <2>3 DEF OccurrenceOK
<1>9. ASSUME NEW u \in Tasks, u # t PROVE OccurrenceOK(u)'
  BY <1>1, <1>6, <1>9, OccurrenceKept DEF OccurrencesOK
<1> QED
  BY <1>8, <1>9 DEF OccurrencesOK

(* A task whose schedule does not change, nor the marks, and which is armed again
   only when its moment lies ahead. *)
LEMMA OccurrenceSwitched ==
    ASSUME DataTypes, OccurrencesOK, NEW t \in Tasks,
           \A u \in Tasks : u # t => file'[u] = file[u] /\ begun'[u] = begun[u],
           fired' = fired, edits' = edits \/ edits' = edits + 1,
           file'[t].exists => file[t].exists,
           file'[t].kind = file[t].kind, file'[t].at = file[t].at,
           file'[t].mark = file[t].mark, file'[t].markAt = file[t].markAt,
           file[t].passed => file'[t].kind # "once" \/ file'[t].passed,
           file'[t].kind = "once" /\ file'[t].next = "due" => file'[t].passed,
           file'[t].kind = "once" /\ file[t].passed => (file'[t].enabled => file[t].enabled),
           begun'[t] => begun[t] /\ (file[t].next = "due" => file'[t].next = "due")
    PROVE  OccurrencesOK'
<1>1. ASSUME NEW u \in Tasks, u # t PROVE OccurrenceOK(u)'
  BY <1>1, OccurrenceKept DEF OccurrencesOK
<1>2. OccurrenceOK(t)
  BY DEF OccurrencesOK
<1>3. /\ file[t].at \in Nat /\ edits \in Nat /\ edits' \in Nat /\ edits <= edits' /\ Ats \subseteq Nat
      /\ file[t].kind \in {"once", "recurring"}
  BY TaskConstants DEF DataTypes, FileState, Ats
<1>4. file'[t].at <= edits' + 1
  <2>1. file[t].at <= edits + 1
    BY <1>2 DEF OccurrenceOK
  <2>2. file[t].at <= edits' + 1
    BY <1>3, <2>1, BoundGrows
  <2> QED
    BY <2>2
<1>5. ASSUME NEW a \in Ats
      PROVE  fired'[t][a] \in {0, 1} /\ (a > edits' + 1 => fired'[t][a] = 0)
  <2>1. fired[t][a] \in {0, 1} /\ (a > edits + 1 => fired[t][a] = 0)
    BY <1>2 DEF OccurrenceOK
  <2>2. a \in Nat
    BY <1>3
  <2>3. a > edits' + 1 => a > edits + 1
    BY <1>3, <2>2, BoundGrows
  <2> QED
    BY <2>1, <2>3
<1>6. file'[t].kind = "once" <=> file'[t].at # NoAt
  BY <1>2 DEF OccurrenceOK
<1>7. file'[t].exists /\ file'[t].kind = "once" /\ fired'[t][file'[t].at] # 0 =>
         /\ file'[t].passed
         /\ ~file'[t].enabled \/ (file'[t].mark # NoRun /\ file'[t].markAt = file'[t].at)
  BY <1>2 DEF OccurrenceOK
<1>8. file'[t].exists /\ begun'[t] =>
         /\ file'[t].next = "due" /\ file'[t].mark # NoRun
         /\ file'[t].kind = "once" => file'[t].markAt = file'[t].at
  BY <1>2 DEF OccurrenceOK
<1>9. OccurrenceOK(t)'
  BY <1>4, <1>5, <1>6, <1>7, <1>8 DEF OccurrenceOK
<1> QED
  BY <1>1, <1>9 DEF OccurrencesOK

LEMMA StepOccurrences ==
    ASSUME DataTypes, RunsOK, RecordsOK, MarksMatchRuns, OccurrencesOK, Next
    PROVE  OccurrencesOK'
<1>1. ASSUME NEW r \in Runs, FireScheduled(r) PROVE OccurrencesOK'
  BY <1>1, OccurrenceFires
<1>2. ASSUME NEW r \in Runs, NEW trigger \in {"manual", "event"}, Dispatch(r, trigger),
             edits' = edits
      PROVE  OccurrencesOK'
  <2>1. /\ \A t \in Tasks : file'[t] = file[t] /\ begun'[t] = begun[t]
        /\ fired' = [fired EXCEPT ![TaskOf(r)][NoAt] = 0]
    BY <1>2 DEF Dispatch, DataTypes
  <2>2. \A t \in Tasks, a \in Ats : fired'[t][a] = fired[t][a] \/ (a = NoAt /\ fired'[t][a] = 0)
    <3>1. NoAt \in Ats /\ TaskOf(r) \in Tasks
      BY RunTasks, TaskConstants DEF NoAt, Ats
    <3> QED
      BY <2>1, <3>1 DEF DataTypes
  <2> QED
    BY <1>2, <2>1, <2>2, OccurrenceKept DEF OccurrencesOK
<1>3. ASSUME UNCHANGED <<file, edits, fired, begun>> PROVE OccurrencesOK'
  BY <1>3, OccurrenceKept DEF OccurrencesOK
<1>4. ASSUME NEW r \in Runs, Record(r) \/ CrashBeforeTicket(r) PROVE OccurrencesOK'
  BY <1>4, OccurrencesSaved DEF Record, CrashBeforeTicket, Recorded, Active
<1>5. ASSUME NEW t \in Tasks, SettleInterrupted(t) PROVE OccurrencesOK'
  <2> DEFINE f == file[t]
             r == f.mark
             st == IF InIndex(r) THEN Head(lines[r]) ELSE "failure"
             nexts == IF InIndex(r) THEN {"future", "due"} ELSE {"future"}
             firedAt == FiredAt(f.markAt, f.at)
  <2>1. /\ f.exists /\ r \in Runs /\ OccurrenceOK(t)
        /\ fired' = fired /\ edits' = edits
    BY <1>5 DEF SettleInterrupted, DataTypes, FileState, OccurrencesOK
  <2>2. PICK g \in AfterRun(file[t], r, t, "scheduled", firedAt, st, nexts) :
          file' = [file EXCEPT ![t] = g] /\ Moves(t, g)
    BY <1>5 DEF SettleInterrupted
  <2>3. f.markAt = f.at => firedAt = f.at
    BY DEF FiredAt
  <2>4. nexts \in SUBSET {"future", "due"}
    OBVIOUS
  <2> HIDE DEF firedAt, st, nexts
  <2>5. OccurrenceOK(t)'
    BY <2>1, <2>2, <2>3, <2>4, OccurrenceSaved
  <2>6. ASSUME NEW u \in Tasks, u # t PROVE OccurrenceOK(u)'
    BY <2>1, <2>2, <2>6, OccurrenceKept DEF OccurrencesOK, DataTypes, Moves
  <2> QED
    BY <2>5, <2>6 DEF OccurrencesOK
<1>6. ASSUME NEW t \in Tasks, SkipScheduled(t) PROVE OccurrencesOK'
  <2>1. /\ file' = [file EXCEPT ![t] = [file[t] EXCEPT !.next = "future"]]
        /\ begun' = [begun EXCEPT ![t] = FALSE] /\ fired' = fired /\ edits' = edits
    BY <1>6 DEF SkipScheduled
  <2>2. /\ file'[t].exists = file[t].exists /\ file'[t].kind = file[t].kind /\ file'[t].at = file[t].at
        /\ file'[t].mark = file[t].mark /\ file'[t].markAt = file[t].markAt
        /\ file'[t].passed = file[t].passed /\ file'[t].next = "future"
        /\ file'[t].enabled = file[t].enabled
        /\ \A u \in Tasks : u # t => file'[u] = file[u]
    BY <2>1 DEF DataTypes, FileState
  <2>3. ~begun'[t] /\ \A u \in Tasks : u # t => begun'[u] = begun[u]
    BY <2>1 DEF DataTypes
  <2> QED
    BY <2>1, <2>2, <2>3, OccurrenceSwitched
<1>7. ASSUME NEW t \in Tasks, NEW kind \in EditTo[t], EditSchedule(t, kind) PROVE OccurrencesOK'
  BY <1>7, OccurrenceEdited
<1>8. ASSUME NEW t \in Tasks, NEW on \in BOOLEAN, SetEnabled(t, on) PROVE OccurrencesOK'
  <2> DEFINE n == IF on /\ file[t].next = "none" THEN "future" ELSE file[t].next
  <2>1. /\ file' = [file EXCEPT ![t] = [file[t] EXCEPT !.enabled = on, !.next = n]]
        /\ begun' = begun /\ fired' = fired /\ edits' = edits + 1
        /\ on /\ file[t].kind = "once" => ~file[t].passed
    BY <1>8 DEF SetEnabled, DataTypes, FileState
  <2>2. n = "due" <=> file[t].next = "due"
    OBVIOUS
  <2>3. OccurrenceOK(t)
    BY DEF OccurrencesOK
  <2> HIDE DEF n
  <2>4. /\ file'[t].exists = file[t].exists /\ file'[t].kind = file[t].kind /\ file'[t].at = file[t].at
        /\ file'[t].mark = file[t].mark /\ file'[t].markAt = file[t].markAt
        /\ file'[t].passed = file[t].passed /\ file'[t].next = n /\ file'[t].enabled = on
        /\ \A u \in Tasks : u # t => file'[u] = file[u]
    BY <2>1 DEF DataTypes, FileState
  <2>5. file[t].kind = "once" /\ file[t].next = "due" => file[t].passed
    BY <2>3 DEF OccurrenceOK
  <2> QED
    BY <2>1, <2>2, <2>4, <2>5, OccurrenceSwitched
<1>9. ASSUME NEW t \in Tasks, DeleteTask(t) \/ BecomesDue(t) \/ BudgetResets(t) PROVE OccurrencesOK'
  <2>1. OccurrenceOK(t)
    BY DEF OccurrencesOK
  <2>2. /\ begun' = begun /\ fired' = fired
        /\ (edits' = edits \/ edits' = edits + 1)
        /\ file'[t].exists => file[t].exists
        /\ file'[t].kind = file[t].kind /\ file'[t].at = file[t].at
        /\ file'[t].mark = file[t].mark /\ file'[t].markAt = file[t].markAt
        /\ file'[t].enabled = file[t].enabled
        /\ file[t].next = "due" => file'[t].next = "due"
        /\ \A u \in Tasks : u # t => file'[u] = file[u]
    BY <1>9 DEF DeleteTask, BecomesDue, BudgetResets, history, DataTypes, FileState
  <2>3. /\ file[t].passed => file'[t].kind # "once" \/ file'[t].passed
        /\ file'[t].kind = "once" /\ file'[t].next = "due" => file'[t].passed
    <3>1. CASE DeleteTask(t)
      <4>1. file'[t].passed = file[t].passed /\ file'[t].next = file[t].next
            /\ file[t].exists
        BY <3>1 DEF DeleteTask, DataTypes, FileState
      <4> QED
        BY <2>1, <2>2, <4>1 DEF OccurrenceOK
    <3>2. CASE BecomesDue(t)
      <4>1. file'[t].passed = (file[t].kind = "once")
        BY <3>2 DEF BecomesDue, DataTypes, FileState
      <4> QED
        BY <2>2, <4>1
    <3>3. CASE BudgetResets(t)
      <4>1. file'[t].passed = file[t].passed /\ file'[t].next = file[t].next
            /\ file[t].exists
        BY <3>3 DEF BudgetResets, DataTypes, FileState
      <4> QED
        BY <2>1, <2>2, <4>1 DEF OccurrenceOK
    <3> QED
      BY <1>9, <3>1, <3>2, <3>3
  <2>4. /\ \A u \in Tasks : u # t => file'[u] = file[u] /\ begun'[u] = begun[u]
        /\ begun'[t] => begun[t]
    BY <2>2
  <2>5. file'[t].kind = "once" /\ file[t].passed => (file'[t].enabled => file[t].enabled)
    BY <2>2
  <2> QED
    BY <2>2, <2>3, <2>4, <2>5, OccurrenceSwitched
<1>10. ASSUME FinishBoot PROVE OccurrencesOK'
  <2> SUFFICES ASSUME NEW t \in Tasks PROVE OccurrenceOK(t)'
    BY DEF OccurrencesOK
  <2>1. /\ OccurrenceOK(t) /\ (file[t].exists => file[t].mark = NoRun)
        /\ UNCHANGED <<edits, fired, begun>>
        /\ file'[t] = file[t] \/ (file[t].exists /\ file'[t] = Retired(file[t], "missed"))
    BY <1>10 DEF FinishBoot, history, OccurrencesOK
  <2>2. CASE file'[t] = file[t]
    BY <2>1, <2>2, OccurrenceKept
  <2>3. CASE file[t].exists /\ file'[t] = Retired(file[t], "missed")
    <3>1. /\ ~begun[t]
          /\ file[t].kind = "once" /\ fired[t][file[t].at] # 0 => file[t].passed
      BY <2>1, <2>3 DEF OccurrenceOK
    <3>2. /\ file'[t].kind = file[t].kind /\ file'[t].at = file[t].at
          /\ file'[t].passed = file[t].passed
          /\ ~file'[t].enabled /\ file'[t].next = "none"
      BY <2>3 DEF Retired, DataTypes, FileState
    <3> QED
      BY <2>1, <3>1, <3>2 DEF OccurrenceOK
  <2> QED
    BY <2>1, <2>2, <2>3
<1> QED
  <2>1. ASSUME NEW r \in Runs, NEW trigger \in {"manual", "event"}, RequestStarts(r, trigger)
        PROVE  OccurrencesOK'
    BY <1>2, <2>1 DEF RequestStarts
  <2>2. ASSUME NEW r \in Runs, StartQueued(r) PROVE OccurrencesOK'
    <3>1. run[r].trigger \in {"manual", "event"}
      BY <2>2 DEF StartQueued, RecordsOK, RecordsMatchRuns
    <3> QED
      BY <1>2, <2>2, <3>1 DEF StartQueued
  <2>3. ASSUME NEW r \in Runs,
               \/ \E trigger \in {"manual", "event"} : RequestWaits(r, trigger)
               \/ RequestRefused(r) \/ HandOver(r) \/ StartQueuedRefused(r) \/ CancelQueued(r)
               \/ \E st \in Ended, released \in BOOLEAN : ExecutorEnds(r, st, released)
               \/ CrashAfterLine(r) \/ SettleLost(r)
        PROVE  UNCHANGED <<file, edits, fired, begun>>
    BY <2>3
    DEF RequestWaits, RequestRefused, HandOver, StartQueuedRefused, CancelQueued, ExecutorEnds,
        CrashAfterLine, SettleLost, diskVars, history
  <2>4. ASSUME NEW t \in Tasks, CrashWhileSettling(t) PROVE UNCHANGED <<file, edits, fired, begun>>
    BY <2>4 DEF CrashWhileSettling
  <2>5. ASSUME HandOverEnds \/ Crash \/ Stop \/ StopPool \/ Boot
        PROVE  UNCHANGED <<file, edits, fired, begun>>
    BY <2>5 DEF HandOverEnds, Crash, Stop, StopPool, Boot, diskVars, history
  <2> QED
    BY <1>1, <1>3, <1>4, <1>5, <1>6, <1>7, <1>8, <1>9, <1>10, <2>1, <2>2, <2>3, <2>4, <2>5
    DEF Next

-----------------------------------------------------------------------------
(* What holds of every behaviour *)

IInv ==
    /\ PoolOK
    /\ DataTypes
    /\ RunsOK
    /\ RecordsOK
    /\ MarksMatchRuns
    /\ OccurrencesOK

LEMMA InitIInv == Init => IInv
<1> SUFFICES ASSUME Init PROVE IInv
  OBVIOUS
<1>1. PoolOK
  BY PoolInit DEF Init, Admission!Init
<1>2. /\ leases = {} /\ queue = <<>> /\ draining = FALSE /\ proc = "running"
      /\ run = [r \in Runs |-> NotCarried("new")]
      /\ lines = [r \in Runs |-> <<>>] /\ ticket = [r \in Runs |-> "none"]
  BY DEF Init
<1>3. NoAt \in Ats /\ 1 \in Ats /\ 0 \in 0..MaxEdits /\ NoAt = 0
  BY TaskConstants DEF Ats, NoAt
<1>4. Pool!Waiting = {}
  BY <1>2 DEF Pool!Waiting, Pool!ToSet
<1>5. \A r \in Runs : run[r].phase = "new" /\ lines[r] = <<>> /\ ticket[r] = "none"
  BY <1>2 DEF NotCarried
<1>6. ASSUME NEW t \in Tasks
      PROVE  /\ file[t].exists /\ file[t].mark = NoRun /\ file[t].next = "future"
             /\ file[t].kind = (IF t \in Once THEN "once" ELSE "recurring")
             /\ file[t].at = (IF t \in Once THEN 1 ELSE NoAt)
             /\ edits = 0 /\ ~begun[t]
             /\ \A a \in Ats : fired[t][a] = 0
  BY DEF Init
<1>7. DataTypes
  <2>1. run \in [Runs -> RunState]
    BY <1>2, NotCarriedTypes
  <2>2. file \in [Tasks -> FileState]
    BY <1>3 DEF Init, FileState
  <2>3. lines \in [Runs -> Seq(Closed)] /\ ticket \in [Runs -> {"none", "queued", "running"} \cup Closed]
    BY <1>2
  <2>4. edits \in 0..MaxEdits /\ fired \in [Tasks -> [Ats -> Nat]] /\ begun \in [Tasks -> BOOLEAN]
    BY <1>3 DEF Init
  <2> QED
    BY <1>2, <2>1, <2>2, <2>3, <2>4 DEF DataTypes
<1>8. RunsOK
  BY <1>2, <1>4, <1>5
  DEF RunsOK, RunsMatchPool, RunsMatchProcess, OneRunPerTask, Carried
<1>9. RecordsOK
  <2>1. \A r \in Runs : Len(lines[r]) = 0
    BY <1>5, NoLine
  <2> QED
    BY <1>5, <2>1 DEF RecordsOK, RecordsMatchRuns, OneLinePerRun, TicketAgrees, Carried
<1>10. MarksMatchRuns
  BY <1>5, <1>6 DEF MarksMatchRuns, Active
<1>11. OccurrencesOK
  <2> SUFFICES ASSUME NEW t \in Tasks PROVE OccurrenceOK(t)
    BY DEF OccurrencesOK
  <2>1. file[t].at <= edits + 1
    BY <1>3, <1>6
  <2>2. file[t].kind = "once" <=> file[t].at # NoAt
    BY <1>3, <1>6
  <2>3. file[t].at \in Ats
    BY <1>3, <1>6
  <2> QED
    BY <1>6, <2>1, <2>2, <2>3 DEF OccurrenceOK
<1> QED
  BY <1>1, <1>7, <1>8, <1>9, <1>10, <1>11 DEF IInv

LEMMA StepIInv == IInv /\ [Next]_vars => IInv'
<1> SUFFICES ASSUME IInv, [Next]_vars PROVE IInv'
  OBVIOUS
<1> USE DEF IInv
<1>1. CASE Next
  <2>1. PoolOK' /\ RunsOK'
    BY <1>1, StepRuns
  <2>2. DataTypes'
    BY <1>1, StepTypes DEF RecordsOK
  <2>3. RecordsOK'
    BY <1>1, StepRecords
  <2>4. MarksMatchRuns'
    BY <1>1, StepMarks
  <2>5. OccurrencesOK'
    BY <1>1, StepOccurrences
  <2> QED
    BY <2>1, <2>2, <2>3, <2>4, <2>5
<1>2. CASE UNCHANGED vars
  <2> USE <1>2 DEF vars, diskVars, history
  <2>1. PoolOK' /\ RunsOK'
    BY Quiet
  <2>2. DataTypes'
    BY DEF DataTypes
  <2>3. RecordsOK'
    BY DEF RecordsOK, RecordsMatchRuns, OneLinePerRun, TicketAgrees, Carried, OpenTicket
  <2>4. MarksMatchRuns'
    BY DEF MarksMatchRuns, Active
  <2>5. OccurrencesOK'
    BY DEF OccurrencesOK, OccurrenceOK
  <2> QED
    BY <2>1, <2>2, <2>3, <2>4, <2>5
<1> QED
  BY <1>1, <1>2

LEMMA Invariance == Spec => []IInv
  BY InitIInv, StepIInv, PTL DEF Spec

(* The process, the carried runs, the disk and the pool stay well typed: the
   recovery only ever finds a file, a mark and an index it can read. *)
THEOREM SchedulerTypes == Spec => []TypeOK
<1>1. IInv => TypeOK
  BY PoolFacts DEF IInv, DataTypes, RunState, FileState, TypeOK
<1> QED
  BY <1>1, Invariance, PTL

(* appendRun(): a run has at most one line in its task's index, whichever of the
   recording, the recovery at start and the reader of its ticket writes it, and
   at whichever write the process died. *)
THEOREM RecordedOnce == Spec => []OneLinePerRun
<1>1. IInv => OneLinePerRun
  BY DEF IInv, RecordsOK
<1> QED
  BY <1>1, Invariance, PTL

(* settleLostRun(), updateAfterRun(): what a closed ticket says is what the index says. *)
THEOREM TicketsAgree == Spec => []TicketAgrees
<1>1. IInv => TicketAgrees
  BY DEF IInv, RecordsOK
<1> QED
  BY <1>1, Invariance, PTL

(* retireOnce() and the in-flight mark: an occurrence of a once schedule is
   executed at most once, however often the process dies or the owner edits. *)
THEOREM FiredAtMostOnce == Spec => []OnceAtMostOnce
<1>1. IInv => OnceAtMostOnce
  <2> SUFFICES ASSUME IInv, NEW t \in Tasks, NEW a \in Ats PROVE fired[t][a] <= 1
    BY DEF OnceAtMostOnce
  <2>1. fired[t][a] \in {0, 1}
    BY DEF IInv, OccurrencesOK, OccurrenceOK
  <2> QED
    BY <2>1
<1> QED
  BY <1>1, Invariance, PTL

(* considerForDispatch(): while the scheduler runs, an occurrence that is still
   due although it was started has its run under way, so no tick starts it again. *)
THEOREM NoOccurrenceTwice == Spec => []NotRunTwice
<1>1. IInv => NotRunTwice
  <2> SUFFICES ASSUME IInv, NEW t \in Tasks,
                      proc = "running", file[t].exists, file[t].next = "due", begun[t]
               PROVE  \E r \in Runs : TaskOf(r) = t /\ Active(r) /\ run[r].trigger = "scheduled"
    BY DEF NotRunTwice
  <2>1. file[t].mark # NoRun /\ file[t].mark \in Runs
    BY DEF IInv, OccurrencesOK, OccurrenceOK, DataTypes, FileState
  <2>2. /\ TaskOf(file[t].mark) = t
        /\ Active(file[t].mark) /\ run[file[t].mark].trigger = "scheduled"
    BY <2>1 DEF IInv, MarksMatchRuns
  <2> QED
    BY <2>1, <2>2
<1> QED
  BY <1>1, Invariance, PTL

(* activeRuns and the pool's keys together: at most one run of a task is under
   way, also after its slot was released and before its record is written. *)
THEOREM OneRunAtATime == Spec => []OneRunPerTask
<1>1. IInv => OneRunPerTask
  BY DEF IInv, RunsOK
<1> QED
  BY <1>1, Invariance, PTL

(* The `finally' of dispatchRun() and startQueued(): no slot outlives its run. *)
THEOREM SlotsDoNotLeak == Spec => []NoSlotLeaks
<1>1. IInv => NoSlotLeaks
  BY PoolFacts DEF IInv, RunsOK, RunsMatchPool, NoSlotLeaks
<1> QED
  BY <1>1, Invariance, PTL

(* What the pool promises its callers it keeps for the scheduler, across crashes
   and restarts: its limits, one run per task, its books, no idle slot. *)
THEOREM PoolPromisesKept ==
    Spec => [](Pool!WithinLimits /\ Pool!OneRunPerKey /\ Pool!SlotsAccounted /\ Pool!WorkConserving)
<1>1. IInv => Pool!WithinLimits /\ Pool!OneRunPerKey /\ Pool!SlotsAccounted /\ Pool!WorkConserving
  <2> SUFFICES ASSUME IInv
               PROVE  Pool!WithinLimits /\ Pool!OneRunPerKey /\ Pool!SlotsAccounted /\ Pool!WorkConserving
    OBVIOUS
  <2> USE DEF IInv, PoolOK, Admission!IInv
  <2>1. Pool!WithinLimits /\ Pool!WorkConserving
    BY SameCount DEF Pool!WithinLimits, Admission!WithinLimits, Pool!WorkConserving, Admission!WorkConserving
  <2>2. Pool!OneRunPerKey
    BY SameWaiting DEF Pool!OneRunPerKey, Admission!OneRunPerKey, Pool!Keyed, Admission!Keyed
  <2>3. Pool!SlotsAccounted
    BY DEF Pool!SlotsAccounted, Admission!SlotsAccounted, Pool!Keyed, Admission!Keyed,
           Pool!Cardinality, Admission!Cardinality
  <2> QED
    BY <2>1, <2>2, <2>3
<1> QED
  BY <1>1, Invariance, PTL

-----------------------------------------------------------------------------
(* The scheduler as the pool's caller *)

(* The pool inside the scheduler takes a step of its own specification, has its
   waiters withdrawn when the scheduler stops, or is lost with the process. *)
PoolUse ==
    \/ Pool!Next
    \/ /\ Pool!Withdraw(Pool!Waiting)
       /\ UNCHANGED <<leases, runningKeys, held, stopped, draining>>
    \/ Pool!Init'

LEMMA NextUsesPool == Next => PoolUse \/ UNCHANGED poolVars
<1> SUFFICES ASSUME Next PROVE PoolUse \/ UNCHANGED poolVars
  OBVIOUS
<1>1. ASSUME NEW r \in Runs, FireScheduled(r) PROVE PoolUse
  BY <1>1 DEF FireScheduled, PoolUse, Pool!Next
<1>2. ASSUME NEW r \in Runs, NEW trigger \in {"manual", "event"},
             RequestStarts(r, trigger) \/ RequestWaits(r, trigger)
      PROVE  PoolUse
  BY <1>2 DEF RequestStarts, RequestWaits, PoolUse, Pool!Next
<1>3. ASSUME NEW r \in Runs, HandOver(r) \/ StartQueuedRefused(r) PROVE PoolUse
  BY <1>3 DEF HandOver, StartQueuedRefused, PoolUse, Pool!Next
<1>4. ASSUME NEW r \in Runs, NEW st \in Ended, NEW released \in BOOLEAN,
             ExecutorEnds(r, st, released)
      PROVE  PoolUse \/ UNCHANGED poolVars
  BY <1>4 DEF ExecutorEnds, PoolUse, Pool!Next
<1>5. ASSUME NEW r \in Runs, Record(r) PROVE PoolUse \/ UNCHANGED poolVars
  BY <1>5 DEF Record, ReleaseIfHeld, PoolUse, Pool!Next
<1>6. ASSUME NEW r \in Runs, CancelQueued(r) PROVE PoolUse
  BY <1>6, RunTasks DEF CancelQueued, PoolUse, Pool!Next
<1>7. ASSUME Lost PROVE PoolUse
  BY <1>7 DEF Lost, PoolUse, Pool!Init
<1>8. ASSUME HandOverEnds \/ StopPool \/ Stop PROVE PoolUse
  BY <1>8 DEF HandOverEnds, StopPool, Stop, PoolUse, Pool!Next
<1>9. ASSUME NEW r \in Runs, RequestRefused(r) \/ StartQueued(r) \/ SettleLost(r)
      PROVE  UNCHANGED poolVars
  BY <1>9 DEF RequestRefused, StartQueued, SettleLost
<1>10. ASSUME NEW t \in Tasks,
              \/ SkipScheduled(t) \/ SettleInterrupted(t)
              \/ \E kind \in EditTo[t] : EditSchedule(t, kind)
              \/ \E on \in BOOLEAN : SetEnabled(t, on)
              \/ DeleteTask(t) \/ BecomesDue(t) \/ BudgetResets(t)
       PROVE  UNCHANGED poolVars
  BY <1>10 DEF SkipScheduled, SettleInterrupted, EditSchedule, SetEnabled, DeleteTask, BecomesDue,
               BudgetResets
<1>11. ASSUME Boot \/ FinishBoot PROVE UNCHANGED poolVars
  BY <1>11 DEF Boot, FinishBoot
<1> QED
  BY <1>1, <1>2, <1>3, <1>4, <1>5, <1>6, <1>7, <1>8, <1>9, <1>10, <1>11
  DEF Next, CrashAfterLine, CrashBeforeTicket, Crash, CrashWhileSettling

(* createRunAdmission() is used through its operations only: no step of the
   scheduler changes the pool behind its back. *)
THEOREM PoolUsedAsSpecified == Spec => [][PoolUse]_poolVars
<1>1. [Next]_vars => [PoolUse]_poolVars
  BY NextUsesPool DEF vars
<1> QED
  BY <1>1, PTL DEF Spec

(* nextIndex() inside the scheduler: while runs wait, the run that takes a slot
   is the one fair share among the tasks names, in every step and after every crash. *)
THEOREM SchedulerSharesFairly == Spec => [][Pool!FairShareStep]_poolVars
<1>1. IInv /\ [Next]_vars => [Pool!FairShareStep]_poolVars
  <2> SUFFICES ASSUME IInv, PoolUse PROVE Pool!FairShareStep
    BY NextUsesPool DEF vars
  <2> SUFFICES ASSUME NEW r \in leases' \ leases, queue # <<>>
               PROVE  \E i \in DOMAIN queue : queue[i] = r /\ Pool!IsFairChoice(i)
    BY DEF Pool!FairShareStep
  <2>1. CASE Pool!DrainAdmit
    <3>1. r = queue[Pool!NextIndex] /\ Pool!NextIndex \in DOMAIN queue
      BY <2>1 DEF Pool!DrainAdmit, Pool!Grant
    <3>2. Admission!IsFairChoice(Admission!NextIndex)
      BY Admission!NextIndexIsFairChoice, PoolAssumptions DEF IInv, PoolOK, Admission!IInv
    <3>3. Pool!IsFairChoice(Pool!NextIndex)
      BY <3>2, SameChoice DEF Pool!IsFairChoice, Admission!IsFairChoice, Pool!HeldAt, Admission!HeldAt
    <3> QED
      BY <3>1, <3>3
  <2>2. ASSUME NEW q \in Runs, Pool!RequestAdmitted(q) PROVE FALSE
    BY <2>2 DEF Pool!RequestAdmitted, Pool!HasFreeSlot
  <2>3. CASE leases' \subseteq leases
    BY <2>3
  <2>4. CASE Pool!Init'
    BY <2>4 DEF Pool!Init
  <2> QED
    BY <2>1, <2>2, <2>3, <2>4
    DEF PoolUse, Pool!Next, Pool!RequestQueued, Pool!Release, Pool!Abort, Pool!Cancel,
        Pool!WithdrawWorkspace, Pool!DrainEnd, Pool!Stop
<1> QED
  BY <1>1, InitIInv, StepIInv, PTL DEF Spec

-----------------------------------------------------------------------------
(* What a once that is reported as run shows, while no edit changes the kind of
   a schedule.  With such an edit it fails: the mark of a recurring run carries
   no `at', and the recovery takes the edited task's own. *)

FirstKind(t) == IF t \in Once THEN "once" ELSE "recurring"

EditsKeepKind == \A t \in Tasks : EditTo[t] \subseteq {FirstKind(t)}

(* A mark stands for an occurrence whose executor was started. *)
RanOK(t) ==
    LET f == file[t] IN
    /\ f.kind = FirstKind(t)
    /\ f.kind = "once" =>
          /\ f.done = "ran" => fired[t][f.at] # 0
          /\ f.mark # NoRun => f.markAt # NoAt /\ fired[t][f.markAt] # 0

RansOK == \A t \in Tasks : RanOK(t)

LEMMA RanKept ==
    ASSUME DataTypes, NEW t \in Tasks, OccurrenceOK(t), RanOK(t),
           file'[t].kind = file[t].kind,
           file'[t].done = "ran" => file[t].done = "ran" /\ file'[t].at = file[t].at,
           file'[t].mark # NoRun => file[t].mark # NoRun /\ file'[t].markAt = file[t].markAt,
           \A a \in Ats : a # NoAt => fired'[t][a] = fired[t][a]
    PROVE  RanOK(t)'
<1>1. file[t].at \in Ats /\ file[t].markAt \in Ats
  BY DEF DataTypes, FileState
<1>2. file[t].kind = "once" => file[t].at # NoAt
  BY DEF OccurrenceOK
<1> QED
  BY <1>1, <1>2 DEF RanOK

LEMMA RanSaved ==
    ASSUME DataTypes, NEW t \in Tasks, OccurrenceOK(t), RanOK(t),
           NEW r \in Runs, NEW trigger, NEW firedAt, NEW st, NEW nexts \in SUBSET {"future", "due"},
           NEW g \in AfterRun(file[t], r, t, trigger, firedAt, st, nexts),
           file'[t] = g, fired' = fired,
           trigger = "scheduled" => file[t].mark # NoRun /\ firedAt = FiredAt(file[t].markAt, file[t].at)
    PROVE  RanOK(t)'
<1> DEFINE f == file[t]
<1>1. f \in FileState
  BY DEF DataTypes
<1>2. g.kind = f.kind /\ g.at = f.at
  BY <1>1, AfterRunFacts
<1>3. IF f.mark = r THEN g.mark = NoRun /\ g.markAt = NoAt
                    ELSE g.mark = f.mark /\ g.markAt = f.markAt
  BY <1>1, AfterRunFacts
<1>4. IF f.kind = "recurring" THEN g.done = f.done
      ELSE IF trigger = "scheduled" /\ f.at = firedAt
           THEN ~g.enabled /\ g.next = "none" /\ g.done = "ran"
           ELSE g.next = f.next /\ g.done = f.done
  BY <1>1, AfterRunFacts
<1>5. f.kind = "once" /\ trigger = "scheduled" /\ f.at = firedAt => fired[t][f.at] # 0
  BY DEF RanOK, FiredAt
<1> HIDE DEF f
<1>6. f.kind = "once" /\ g.done = "ran" => fired[t][g.at] # 0
  BY <1>2, <1>4, <1>5 DEF RanOK, f
<1>7. f.kind = "once" /\ g.mark # NoRun => g.markAt # NoAt /\ fired[t][g.markAt] # 0
  BY <1>3 DEF RanOK, f
<1> QED
  BY <1>2, <1>6, <1>7 DEF RanOK, f

LEMMA RansSaved ==
    ASSUME DataTypes, MarksMatchRuns, OccurrencesOK, RansOK, NEW r \in Runs,
           Active(r), proc \in {"running", "stopped"}, SaveAfterRun(r), fired' = fired
    PROVE  RansOK'
<1> DEFINE u == TaskOf(r)
<1>1. u \in Tasks /\ file[u] \in FileState
  BY RunTasks DEF DataTypes
<1>2. CASE file[u].exists
  <2>1. PICK g \in AfterRun(file[u], r, u, run[r].trigger, run[r].onceAt, run[r].status, {"future"}) :
          file' = [file EXCEPT ![u] = g]
    BY <1>2 DEF SaveAfterRun
  <2>2. CASE run[r].trigger = "scheduled" /\ file[u].kind = "once"
    <3>1. file[u].mark = r /\ r # NoRun /\ run[r].onceAt = file[u].markAt
      BY <1>1, <1>2, <2>2, NoRunIsNoRun DEF MarksMatchRuns
    <3>2. file[u].markAt # NoAt
      BY <1>1, <2>2, <3>1 DEF RansOK, RanOK
    <3>3. run[r].onceAt = FiredAt(file[u].markAt, file[u].at)
      BY <3>1, <3>2 DEF FiredAt
    <3>4. file'[u] = g /\ OccurrenceOK(u) /\ RanOK(u) /\ {"future"} \in SUBSET {"future", "due"}
      BY <1>1, <2>1 DEF DataTypes, OccurrencesOK, RansOK
    <3> HIDE DEF u
    <3>5. RanOK(u)'
      BY <1>1, <2>1, <3>1, <3>3, <3>4, RanSaved
    <3> QED
      BY <1>1, <2>1, <3>5, RanKept DEF RansOK, OccurrencesOK, DataTypes
  <2>3. CASE file[u].kind # "once"
    <3>1. g.kind = file[u].kind
      BY <1>1, <2>1, AfterRunFacts
    <3>2. RanOK(u)'
      BY <1>1, <2>1, <2>3, <3>1 DEF RansOK, RanOK, DataTypes
    <3> QED
      BY <1>1, <2>1, <3>2, RanKept DEF RansOK, OccurrencesOK, DataTypes
  <2>4. CASE run[r].trigger # "scheduled"
    <3>1. file'[u] = g /\ OccurrenceOK(u) /\ RanOK(u) /\ {"future"} \in SUBSET {"future", "due"}
      BY <1>1, <2>1 DEF DataTypes, OccurrencesOK, RansOK
    <3> HIDE DEF u
    <3>2. RanOK(u)'
      BY <1>1, <2>1, <2>4, <3>1, RanSaved
    <3> QED
      BY <1>1, <2>1, <3>2, RanKept DEF RansOK, OccurrencesOK, DataTypes
  <2> QED
    BY <2>2, <2>3, <2>4
<1>3. CASE ~file[u].exists
  BY <1>3, RanKept DEF SaveAfterRun, RansOK, OccurrencesOK
<1> QED
  BY <1>2, <1>3

LEMMA RansFire ==
    ASSUME DataTypes, OccurrencesOK, RansOK, NEW r \in Runs, FireScheduled(r)
    PROVE  RansOK'
<1> DEFINE t == TaskOf(r)
           f == file[t]
           onceAt == IF f.kind = "once" THEN f.at ELSE NoAt
<1>1. t \in Tasks /\ f \in FileState
  BY RunTasks DEF DataTypes
<1>2. /\ file' = [file EXCEPT ![t] = Marked(f, r, onceAt)]
      /\ fired' = [fired EXCEPT ![t][onceAt] = IF onceAt = NoAt THEN 0 ELSE @ + 1]
  BY DEF FireScheduled, Dispatch
<1>3. onceAt \in Ats /\ OccurrenceOK(t) /\ RanOK(t)
  BY <1>1, TaskConstants DEF Ats, NoAt, FileState, OccurrencesOK, RansOK
<1>4. /\ \A u \in Tasks : u # t => fired'[u] = fired[u] /\ file'[u] = file[u]
      /\ \A a \in Ats : fired'[t][a] = IF a = onceAt
                                       THEN IF onceAt = NoAt THEN 0 ELSE fired[t][a] + 1
                                       ELSE fired[t][a]
  BY <1>1, <1>2, <1>3 DEF DataTypes
<1>5. /\ file'[t].kind = f.kind /\ file'[t].at = f.at /\ file'[t].done = f.done
      /\ file'[t].markAt = onceAt
  BY <1>1, <1>2 DEF DataTypes, FileState, Marked
<1>6. ASSUME f.kind = "once"
      PROVE  onceAt = f.at /\ onceAt # NoAt /\ fired'[t][onceAt] # 0
  <2>1. onceAt = f.at /\ onceAt # NoAt
    BY <1>3, <1>6 DEF OccurrenceOK
  <2>2. fired[t][onceAt] \in Nat
    BY <1>1, <1>3 DEF DataTypes
  <2> HIDE DEF onceAt
  <2>3. fired'[t][onceAt] = fired[t][onceAt] + 1
    BY <1>3, <1>4, <2>1
  <2> QED
    BY <2>1, <2>2, <2>3
<1> HIDE DEF onceAt, f
<1>7. RanOK(t)'
  <2>1. f.kind = FirstKind(t)
    BY <1>3 DEF RanOK, f
  <2> QED
    BY <1>5, <1>6, <2>1 DEF RanOK
<1>8. ASSUME NEW u \in Tasks, u # t PROVE RanOK(u)'
  BY <1>4, <1>8, RanKept DEF RansOK, OccurrencesOK
<1> QED
  BY <1>7, <1>8 DEF RansOK

LEMMA StepRans ==
    ASSUME EditsKeepKind, DataTypes, RunsOK, RecordsOK, MarksMatchRuns, OccurrencesOK, RansOK, Next
    PROVE  RansOK'
<1>1. ASSUME NEW r \in Runs, FireScheduled(r) PROVE RansOK'
  BY <1>1, RansFire
<1>2. ASSUME NEW r \in Runs, NEW trigger \in {"manual", "event"}, Dispatch(r, trigger)
      PROVE  RansOK'
  <2>1. /\ \A t \in Tasks : file'[t] = file[t]
        /\ fired' = [fired EXCEPT ![TaskOf(r)][NoAt] = 0]
    BY <1>2 DEF Dispatch, DataTypes
  <2>2. \A t \in Tasks, a \in Ats : a # NoAt => fired'[t][a] = fired[t][a]
    <3>1. NoAt \in Ats /\ TaskOf(r) \in Tasks
      BY RunTasks, TaskConstants DEF NoAt, Ats
    <3> QED
      BY <2>1, <3>1 DEF DataTypes
  <2> QED
    BY <2>1, <2>2, RanKept DEF RansOK, OccurrencesOK
<1>3. ASSUME UNCHANGED <<file, fired>> PROVE RansOK'
  BY <1>3, RanKept DEF RansOK, OccurrencesOK
<1>4. ASSUME NEW r \in Runs, Record(r) \/ CrashBeforeTicket(r) PROVE RansOK'
  BY <1>4, RansSaved DEF Record, CrashBeforeTicket, Recorded, Active
<1>5. ASSUME NEW t \in Tasks, SettleInterrupted(t) PROVE RansOK'
  <2> DEFINE f == file[t]
             r == f.mark
             st == IF InIndex(r) THEN Head(lines[r]) ELSE "failure"
             nexts == IF InIndex(r) THEN {"future", "due"} ELSE {"future"}
             firedAt == FiredAt(f.markAt, f.at)
  <2>1. r \in Runs /\ r # NoRun /\ OccurrenceOK(t) /\ RanOK(t) /\ fired' = fired
    BY <1>5 DEF SettleInterrupted, DataTypes, FileState, OccurrencesOK, RansOK
  <2>2. PICK g \in AfterRun(file[t], r, t, "scheduled", firedAt, st, nexts) :
          file' = [file EXCEPT ![t] = g]
    BY <1>5 DEF SettleInterrupted
  <2>3. nexts \in SUBSET {"future", "due"} /\ file'[t] = g
    BY <2>2 DEF DataTypes
  <2> HIDE DEF st, nexts
  <2>4. RanOK(t)'
    BY <2>1, <2>2, <2>3, RanSaved
  <2>5. ASSUME NEW u \in Tasks, u # t PROVE RanOK(u)'
    BY <2>1, <2>2, <2>5, RanKept DEF RansOK, OccurrencesOK, DataTypes
  <2> QED
    BY <2>4, <2>5 DEF RansOK
<1>6. ASSUME NEW t \in Tasks, NEW kind \in EditTo[t], EditSchedule(t, kind) PROVE RansOK'
  <2>1. kind = FirstKind(t)
    BY <1>6 DEF EditsKeepKind
  <2>2. /\ file'[t].kind = kind /\ file'[t].done = "no"
        /\ file'[t].mark = file[t].mark /\ file'[t].markAt = file[t].markAt
        /\ \A u \in Tasks : u # t => file'[u] = file[u]
        /\ fired' = fired
    BY <1>6 DEF EditSchedule, DataTypes, FileState
  <2>3. file[t].kind = FirstKind(t)
    BY DEF RansOK, RanOK
  <2> QED
    BY <2>1, <2>2, <2>3, RanKept DEF RansOK, OccurrencesOK
<1>7. ASSUME NEW t \in Tasks,
             \/ SkipScheduled(t) \/ DeleteTask(t) \/ BecomesDue(t) \/ BudgetResets(t)
             \/ \E on \in BOOLEAN : SetEnabled(t, on)
      PROVE  RansOK'
  <2>1. /\ file'[t].kind = file[t].kind /\ file'[t].at = file[t].at
        /\ file'[t].done = file[t].done
        /\ file'[t].mark = file[t].mark /\ file'[t].markAt = file[t].markAt
        /\ \A u \in Tasks : u # t => file'[u] = file[u]
        /\ fired' = fired
    <3>1. CASE SkipScheduled(t)
      BY <3>1 DEF SkipScheduled, DataTypes, FileState
    <3>2. CASE DeleteTask(t) \/ BecomesDue(t) \/ BudgetResets(t)
      BY <3>2 DEF DeleteTask, BecomesDue, BudgetResets, history, DataTypes, FileState
    <3>3. CASE \E on \in BOOLEAN : SetEnabled(t, on)
      BY <3>3 DEF SetEnabled, DataTypes, FileState
    <3> QED
      BY <1>7, <3>1, <3>2, <3>3
  <2> QED
    BY <2>1, RanKept DEF RansOK, OccurrencesOK
<1>8. ASSUME FinishBoot PROVE RansOK'
  <2> SUFFICES ASSUME NEW t \in Tasks PROVE RanOK(t)'
    BY DEF RansOK
  <2>1. /\ OccurrenceOK(t) /\ RanOK(t) /\ fired' = fired
        /\ file'[t] = file[t] \/ file'[t] = Retired(file[t], "missed")
    BY <1>8 DEF FinishBoot, history, OccurrencesOK, RansOK
  <2>2. CASE file'[t] = file[t]
    BY <2>1, <2>2, RanKept
  <2>3. CASE file'[t] = Retired(file[t], "missed")
    <3>1. /\ file'[t].kind = file[t].kind /\ file'[t].done = "missed"
          /\ file'[t].mark = file[t].mark /\ file'[t].markAt = file[t].markAt
      BY <2>3 DEF Retired, DataTypes, FileState
    <3> QED
      BY <2>1, <3>1, RanKept
  <2> QED
    BY <2>1, <2>2, <2>3
<1> QED
  <2>1. ASSUME NEW r \in Runs, NEW trigger \in {"manual", "event"}, RequestStarts(r, trigger)
        PROVE  RansOK'
    BY <1>2, <2>1 DEF RequestStarts
  <2>2. ASSUME NEW r \in Runs, StartQueued(r) PROVE RansOK'
    <3>1. run[r].trigger \in {"manual", "event"}
      BY <2>2 DEF StartQueued, RecordsOK, RecordsMatchRuns
    <3> QED
      BY <1>2, <2>2, <3>1 DEF StartQueued
  <2>3. ASSUME NEW r \in Runs,
               \/ \E trigger \in {"manual", "event"} : RequestWaits(r, trigger)
               \/ RequestRefused(r) \/ HandOver(r) \/ StartQueuedRefused(r) \/ CancelQueued(r)
               \/ \E st \in Ended, released \in BOOLEAN : ExecutorEnds(r, st, released)
               \/ CrashAfterLine(r) \/ SettleLost(r)
        PROVE  UNCHANGED <<file, fired>>
    BY <2>3
    DEF RequestWaits, RequestRefused, HandOver, StartQueuedRefused, CancelQueued, ExecutorEnds,
        CrashAfterLine, SettleLost, diskVars, history
  <2>4. ASSUME NEW t \in Tasks, CrashWhileSettling(t) PROVE UNCHANGED <<file, fired>>
    BY <2>4 DEF CrashWhileSettling
  <2>5. ASSUME HandOverEnds \/ Crash \/ Stop \/ StopPool \/ Boot PROVE UNCHANGED <<file, fired>>
    BY <2>5 DEF HandOverEnds, Crash, Stop, StopPool, Boot, diskVars, history
  <2> QED
    BY <1>1, <1>3, <1>4, <1>5, <1>6, <1>7, <1>8, <2>1, <2>2, <2>3, <2>4, <2>5 DEF Next

(* retireOnce() with "ran": while edits keep the kind of a schedule, a once is
   reported as run only if its executor was started for that very moment, also
   when the report is the recovery's. *)
THEOREM RanWasFired ==
    ASSUME EditsKeepKind
    PROVE  Spec => []RanMeansFired
<1>1. Init => RansOK
  <2> SUFFICES ASSUME Init, NEW t \in Tasks PROVE RanOK(t)
    BY DEF RansOK
  <2>1. /\ file[t].kind = FirstKind(t) /\ file[t].done = "no" /\ file[t].mark = NoRun
    BY DEF Init, FirstKind
  <2> QED
    BY <2>1 DEF RanOK
<1>2. IInv /\ RansOK /\ [Next]_vars => RansOK'
  <2> SUFFICES ASSUME IInv, RansOK, [Next]_vars PROVE RansOK'
    OBVIOUS
  <2>1. CASE Next
    BY <2>1, StepRans DEF IInv
  <2>2. CASE UNCHANGED vars
    BY <2>2 DEF vars, diskVars, history, RansOK, RanOK
  <2> QED
    BY <2>1, <2>2
<1>3. IInv /\ RansOK => RanMeansFired
  <2> SUFFICES ASSUME IInv, RansOK, NEW t \in Tasks, file[t].kind = "once", file[t].done = "ran"
               PROVE  fired[t][file[t].at] > 0
    BY DEF RanMeansFired
  <2>1. fired[t][file[t].at] \in Nat /\ fired[t][file[t].at] # 0
    BY DEF IInv, DataTypes, FileState, RansOK, RanOK
  <2> QED
    BY <2>1
<1> QED
  BY <1>1, <1>2, <1>3, InitIInv, StepIInv, PTL DEF Spec
=============================================================================
