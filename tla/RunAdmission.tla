---------------------------- MODULE RunAdmission ----------------------------
(***************************************************************************)
(* The process-wide pool that every unattended run passes before it starts *)
(* (src/runtime/admission.ts): at most MaxConcurrent runs hold a slot, at  *)
(* most MaxQueued wait, two runs with one key never coexist, and a freed   *)
(* slot goes to the waiting run whose workspace holds the fewest slots.    *)
(*                                                                         *)
(* The pool is single-threaded, so a call is atomic except for one window: *)
(* drain() calls back into the run it admits, and that callback may call   *)
(* the pool again.  `draining' is that window.  Every operation below is   *)
(* enabled inside it as well: there it is the call a callback makes.       *)
(***************************************************************************)
EXTENDS Integers, Sequences, FiniteSets, SequencesExt

CONSTANTS
    Requests,       \* request objects; an id is reused once its run is over
    Workspaces,
    Keys,           \* what identifies a run for the duplicate check
    WorkspaceOf,    \* request -> workspace
    KeyOf,          \* request -> key, or NoKey
    NoKey,
    MaxConcurrent,  \* limits.maxConcurrentRuns
    MaxQueued       \* limits.maxQueuedRuns; 0 refuses at the limit

ASSUME RequestsFinite == IsFiniteSet(Requests)
ASSUME WorkspaceAssumption == WorkspaceOf \in [Requests -> Workspaces]
ASSUME KeyAssumption == NoKey \notin Keys /\ KeyOf \in [Requests -> Keys \cup {NoKey}]
ASSUME LimitAssumption == MaxConcurrent \in Nat \ {0} /\ MaxQueued \in Nat

VARIABLES
    leases,       \* requests that hold a slot
    runningKeys,  \* keys of the runs that hold a slot
    held,         \* slots held, by workspace (an absent map entry is 0)
    queue,        \* waiting requests in arrival order
    stopped,
    draining      \* inside drain(), at the top of its loop

vars == <<leases, runningKeys, held, queue, stopped, draining>>

-----------------------------------------------------------------------------

Waiting == ToSet(queue)

Keyed(r) == KeyOf[r] # NoKey

GrantUncounted(r) ==
    /\ leases' = leases \cup {r}
    /\ runningKeys' = IF Keyed(r) THEN runningKeys \cup {KeyOf[r]} ELSE runningKeys
    /\ held' = held

(* grant(): the lease, the key and the workspace's count move together. *)
Grant(r) ==
    /\ leases' = leases \cup {r}
    /\ runningKeys' = IF Keyed(r) THEN runningKeys \cup {KeyOf[r]} ELSE runningKeys
    /\ held' = [held EXCEPT ![WorkspaceOf[r]] = @ + 1]

HeldAt(i) == held[WorkspaceOf[queue[i]]]

(* nextIndex(): the scan stops looking once its best candidate holds no slot,
   and only a strictly smaller count replaces an older candidate.  scan[i] is
   the loop variable `best' after queue[1..i]. *)
scan[i \in 1..Len(queue)] ==
    IF i = 1 THEN 1
    ELSE IF HeldAt(scan[i - 1]) > 0 /\ HeldAt(i) < HeldAt(scan[i - 1])
         THEN i
         ELSE scan[i - 1]

OldestIndex == 1

NewestIndex == Len(queue)

NextIndex == scan[Len(queue)]

(* The loop condition of drain(). *)
CanAdmit == ~stopped /\ queue # <<>> /\ Cardinality(leases) < MaxConcurrent

HasFreeSlotOffByOne == ~stopped /\ Cardinality(leases) <= MaxConcurrent /\ queue = <<>>

HasFreeSlot == ~stopped /\ Cardinality(leases) < MaxConcurrent /\ queue = <<>>

RefusedWhileRunning(r) == stopped \/ (Keyed(r) /\ KeyOf[r] \in runningKeys)

(* refusalFor(): a key is refused while a run with it is running or queued. *)
Refused(r) ==
    \/ stopped
    \/ /\ Keyed(r)
       /\ \/ KeyOf[r] \in runningKeys
          \/ \E q \in Waiting : KeyOf[q] = KeyOf[r]

(* The sequence q without the members of S, the others in their order: the loop
   of withdraw(), which splices each match out. *)
Without(q, S) ==
    LET kept[i \in 0..Len(q)] ==
            IF i = 0 THEN <<>>
            ELSE IF q[i] \in S THEN kept[i - 1]
            ELSE Append(kept[i - 1], q[i])
    IN  kept[Len(q)]

(* withdraw(match): every match leaves the queue before any callback runs. *)
Withdraw(S) == queue' = Without(queue, S)

-----------------------------------------------------------------------------

Init ==
    /\ leases = {}
    /\ runningKeys = {}
    /\ held = [w \in Workspaces |-> 0]
    /\ queue = <<>>
    /\ stopped = FALSE
    /\ draining = FALSE

(* request() that finds a free slot; a waiter makes no difference. *)
RequestAdmitted(r) ==
    /\ r \notin leases /\ r \notin Waiting
    /\ ~Refused(r)
    /\ HasFreeSlot
    /\ Grant(r)
    /\ UNCHANGED <<queue, stopped, draining>>

(* request() with a waiter, or acquire(): joins the queue behind the others. *)
RequestQueued(r) ==
    /\ r \notin leases /\ r \notin Waiting
    /\ ~Refused(r)
    /\ ~HasFreeSlot
    /\ Len(queue) < MaxQueued
    /\ queue' = Append(queue, r)
    /\ UNCHANGED <<leases, runningKeys, held, stopped, draining>>

(* lease.release().  The call that is not made from inside drain() starts it. *)
Release(r) ==
    /\ r \in leases
    /\ leases' = leases \ {r}
    /\ runningKeys' = runningKeys \ {KeyOf[r]}
    /\ held' = [held EXCEPT ![WorkspaceOf[r]] = IF @ - 1 > 0 THEN @ - 1 ELSE 0]
    /\ draining' = TRUE
    /\ UNCHANGED <<queue, stopped>>

DrainAdmitOnce ==
    /\ draining
    /\ CanAdmit
    /\ NextIndex \in DOMAIN queue
    /\ queue' = RemoveAt(queue, NextIndex)
    /\ Grant(queue[NextIndex])
    /\ draining' = FALSE
    /\ UNCHANGED stopped

(* One turn of drain()'s loop, up to the call of waiter.admitted().  A waiter
   that throws, or that releases its lease at once, is a Release that follows
   while draining still holds. *)
DrainAdmit ==
    /\ draining
    /\ CanAdmit
    /\ NextIndex \in DOMAIN queue
    /\ queue' = RemoveAt(queue, NextIndex)
    /\ Grant(queue[NextIndex])
    /\ UNCHANGED <<stopped, draining>>

DrainEnd ==
    /\ draining
    /\ ~(CanAdmit /\ NextIndex \in DOMAIN queue)
    /\ draining' = FALSE
    /\ UNCHANGED <<leases, runningKeys, held, queue, stopped>>

(* cancel(key) *)
Cancel(k) ==
    /\ \E q \in Waiting : KeyOf[q] = k
    /\ Withdraw({q \in Waiting : KeyOf[q] = k})
    /\ UNCHANGED <<leases, runningKeys, held, stopped, draining>>

(* The abort signal given to acquire() fires while its entry waits. *)
Abort(r) ==
    /\ r \in Waiting
    /\ Withdraw({r})
    /\ UNCHANGED <<leases, runningKeys, held, stopped, draining>>

(* withdraw() with the match of a deleted workspace. *)
WithdrawWorkspace(w) ==
    /\ \E q \in Waiting : WorkspaceOf[q] = w
    /\ Withdraw({q \in Waiting : WorkspaceOf[q] = w})
    /\ UNCHANGED <<leases, runningKeys, held, stopped, draining>>

Stop ==
    /\ ~stopped
    /\ stopped' = TRUE
    /\ Withdraw(Waiting)
    /\ UNCHANGED <<leases, runningKeys, held, draining>>

Next ==
    \/ \E r \in Requests :
          \/ RequestAdmitted(r)
          \/ RequestQueued(r)
          \/ Release(r)
          \/ Abort(r)
    \/ \E k \in Keys : Cancel(k)
    \/ \E w \in Workspaces : WithdrawWorkspace(w)
    \/ DrainAdmit
    \/ DrainEnd
    \/ Stop

Spec == Init /\ [][Next]_vars

(* A run ends: every caller releases its lease in a `finally', and a deadline
   bounds the run.  drain() is a synchronous loop, so it runs to its end. *)
FairSpec ==
    /\ Spec
    /\ \A r \in Requests : WF_vars(Release(r))
    /\ WF_vars(DrainAdmit \/ DrainEnd)

-----------------------------------------------------------------------------

TypeOK ==
    /\ leases \subseteq Requests
    /\ runningKeys \subseteq Keys
    /\ held \in [Workspaces -> Nat]
    /\ queue \in Seq(Requests)
    /\ stopped \in BOOLEAN
    /\ draining \in BOOLEAN

(* The limits hold whatever callbacks do inside drain(): it re-reads the number
   of leases on every turn of its loop, and request() checks the queue's length
   before it pushes. *)
WithinLimits ==
    /\ Cardinality(leases) <= MaxConcurrent
    /\ Len(queue) <= MaxQueued

(* A request is in one place at most, and two runs with one key never coexist,
   running or waiting: the scheduler, the event triggers and the batch runner
   rely on refusalFor() for this and have no check of their own. *)
OneRunPerKey ==
    /\ \A i, j \in DOMAIN queue : queue[i] = queue[j] => i = j
    /\ leases \cap Waiting = {}
    /\ \A r, s \in leases \cup Waiting : (Keyed(r) /\ KeyOf[r] = KeyOf[s]) => r = s

(* The three records of who runs agree: a key is marked running exactly while a
   lease carries it, and a workspace's count is the number of its leases.  A
   drift would refuse a task for ever, or skew fair share for ever. *)
SlotsAccounted ==
    /\ runningKeys = {KeyOf[r] : r \in {s \in leases : Keyed(s)}}
    /\ \A w \in Workspaces :
          held[w] = Cardinality({r \in leases : WorkspaceOf[r] = w})

(* "Fair share never leaves a slot idle" (createRunAdmission): outside drain() a
   run waits only while every slot is taken, and a stopped pool has no waiter. *)
WorkConserving ==
    /\ (~draining /\ queue # <<>>) => Cardinality(leases) = MaxConcurrent
    /\ stopped => queue = <<>>

(* The documented choice, stated without the loop: no waiting run's workspace
   holds fewer slots than queue[i]'s, and every older one's holds more. *)
IsFairChoice(i) ==
    /\ i \in DOMAIN queue
    /\ \A j \in DOMAIN queue : HeldAt(i) <= HeldAt(j)
    /\ \A j \in 1..(i - 1) : HeldAt(i) < HeldAt(j)

FairShareStep ==
    \A r \in leases' \ leases :
        queue # <<>> => \E i \in DOMAIN queue : queue[i] = r /\ IsFairChoice(i)

(* While runs wait, a run that takes a slot is the one fair share names: the
   loop of nextIndex() finds it although it stops early, and no request, made
   by a callback of drain() or from outside, passes the queue. *)
FairShare == [][FairShareStep]_vars

(* No waiting run starves: although a newer run may be admitted ahead of it, it
   leaves the queue as long as running runs end. *)
NoStarvation == \A r \in Requests : (r \in Waiting) ~> (r \notin Waiting)

=============================================================================
