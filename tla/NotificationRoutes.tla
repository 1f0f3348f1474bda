------------------------- MODULE NotificationRoutes -------------------------
(***************************************************************************)
(* What happens to an item once it is in the inbox                         *)
(* (src/notifications/routes.ts, src/platform/tasks/event-trigger.ts),     *)
(* composed with the poller that stores it.                                *)
(*                                                                         *)
(* One route, written by an operator, delivers an item to a task (an agent *)
(* target, woken through a batch) and to NumTools tools, in their order.   *)
(* Each target has a row in the item's ledger before anything is tried;    *)
(* the row is the state a restart resumes from, and the index of pending   *)
(* attempts, the chain of deliveries and the batches are memory.           *)
(*                                                                         *)
(* Times are left out: an entry of the index falls due, a batch's window   *)
(* closes and a call is answered at any later moment.                      *)
(***************************************************************************)
EXTENDS NotificationInbox, FiniteSets, Functions

CONSTANTS
    NumTools,       \* tool targets of the route
    MaxAttempts     \* MAX_ROUTE_ATTEMPTS

ASSUME RoutesAssumption == NumTools \in Nat /\ MaxAttempts \in Nat \ {0}

Tools == 1..NumTools
Slots == Events \X Tools

VARIABLES
    route,      \* the workspace still has the route
    agentRow,   \* ledger: the agent target's outcome, "none" before the item is routed
    toolRow,    \* ledger: outcome and attempts of each tool target
    chain,      \* the workspace's deliveries, the one that runs at its head
    phase,      \* of the head: "start", or "calling" the tool
    pending,    \* index of outstanding attempts: attempts made, or None
    resumed,    \* resume(): "no" while it waits for the workspaces, "yes", "failed"
    woken,      \* items a task took into a batch that has not settled
    raced,      \* history: rows resume() took for a predecessor's
    unwritten,  \* history: rows whose outcome could not be written
    dropped     \* history: items no route was evaluated for, after a fault

ledger == <<agentRow, toolRow>>
memory == <<chain, phase, pending, resumed, woken>>
history == <<raced, unwritten, dropped>>
routeVars == <<route, ledger, memory, history>>
vars == <<inboxVars, routeVars>>

Agent == 0      \* the agent target's place in raced and unwritten

(* The attempts of a row are read again only while it is pending. *)
Row(outcome, attempts) ==
    [outcome |-> outcome, attempts |-> IF outcome = "pending" THEN attempts ELSE 0]

RoutesInit ==
    /\ route = TRUE
    /\ agentRow = [e \in Events |-> "none"]
    /\ toolRow = [s \in Slots |-> Row("none", 0)]
    /\ chain = <<>> /\ phase = "start"
    /\ pending = [s \in Slots |-> None]
    /\ resumed = "no" /\ woken = {}
    /\ raced = {} /\ unwritten = {} /\ dropped = {}

-----------------------------------------------------------------------------
(* Reading the state *)

Held(e) == inbox[e] # None

Evaluation(e) == [kind |-> "eval", item |-> e, tool |-> 1, attempts |-> 0]
Retry(s, attempts) == [kind |-> "retry", item |-> s[1], tool |-> s[2], attempts |-> attempts]

Queued(kind) == {chain[n] : n \in {m \in DOMAIN chain : chain[m].kind = kind}}

Running == chain # <<>>
Task == Head(chain)
Slot == <<Task.item, Task.tool>>

Calling(s) == Running /\ phase = "calling" /\ Slot = s

(* A delivery of the slot that is on its way in this process. *)
Underway(s) ==
    \/ \E t \in Queued("retry") : <<t.item, t.tool>> = s
    \/ /\ Running /\ phase = "calling"
       /\ Task.kind = "eval" /\ Task.item = s[1] /\ Task.tool <= s[2]

(* ledgerOutcome().  "failed" stands for every outcome that ends a row without a
   delivery: denied, skipped and failed. *)
OneAttemptMore(result, attempts) ==
    CASE result = "ok" -> "delivered"
      [] result = "refused" -> "failed"
      [] result = "error" -> IF attempts > MaxAttempts THEN "failed" ELSE "pending"

LedgerOutcome(result, attempts) ==
    CASE result = "ok" -> "delivered"
      [] result = "refused" -> "failed"
      [] result = "error" -> IF attempts >= MaxAttempts THEN "failed" ELSE "pending"

-----------------------------------------------------------------------------
(* Writing the ledger.  A row of an item that was pruned goes nowhere; a write
   that fails is logged and forgotten. *)

WriteTool(s, outcome, attempts) ==
    \/ /\ toolRow' = IF Held(s[1]) THEN [toolRow EXCEPT ![s] = Row(outcome, attempts)] ELSE toolRow
       /\ unwritten' = unwritten \ {s} /\ UNCHANGED trouble
    \/ /\ Troubled /\ unwritten' = unwritten \cup {s} /\ UNCHANGED toolRow

WriteAgent(items, outcome) ==
    \/ /\ agentRow' = [e \in Events |-> IF e \in items /\ Held(e) THEN outcome ELSE agentRow[e]]
       /\ unwritten' = unwritten \ (items \X {Agent}) /\ UNCHANGED trouble
    \/ /\ Troubled /\ unwritten' = unwritten \cup (items \X {Agent}) /\ UNCHANGED agentRow

quietInbox == <<day, outbox, cursor, inbox, read, setup, installed, stopped, ready, created>>

(* The delivery at the head is over. *)
Done == chain' = Tail(chain) /\ phase' = "start"

-----------------------------------------------------------------------------
(* The poller hands over what it created: onItemStored, onItem(), #enqueue(). *)

HandOver(new) ==
    /\ \E order \in [1..Cardinality(new) -> new] :
          /\ \A m, n \in DOMAIN order : m < n => order[m] < order[n]
          /\ chain' = chain \o [n \in DOMAIN order |-> Evaluation(order[n])]
    /\ UNCHANGED <<route, ledger, phase, pending, resumed, woken, history>>

StoreEvents ==
    \E upto \in 0..NumEvents :
        \/ WriteEvents(upto) /\ HandOver(Creates(Answered(read.from, upto)))
        \/ \E at \in Events :
              WriteFails(upto, at) /\ HandOver(Creates(Answered(read.from, at - 1)))

-----------------------------------------------------------------------------
(* #evaluate() *)

(* The workspace record, or the seed rows, could not be read or written. *)
EvaluateFails ==
    /\ Running /\ Task.kind = "eval" /\ phase = "start" /\ Troubled
    /\ dropped' = dropped \cup {Task.item}
    /\ Done
    /\ UNCHANGED <<quietInbox, route, ledger, pending, resumed, woken, raced, unwritten>>

(* No route matches, or the item is gone from the inbox. *)
EvaluateNone ==
    /\ Running /\ Task.kind = "eval" /\ phase = "start"
    /\ ~route \/ ~Held(Task.item)
    /\ Done
    /\ UNCHANGED <<inboxVars, route, ledger, pending, resumed, woken, history>>

(* Every row is seeded, the task is offered the item, the first tool is called. *)
Evaluate(ack) ==
    LET e == Task.item IN
    /\ Running /\ Task.kind = "eval" /\ phase = "start" /\ route /\ Held(e)
    /\ toolRow' = [s \in Slots |-> IF s[1] = e THEN Row("pending", 0) ELSE toolRow[s]]
    /\ IF ack = "accepted"
       THEN /\ agentRow' = [agentRow EXCEPT ![e] = "deferred"]
            /\ woken' = woken \cup {e}
       ELSE /\ agentRow' = [agentRow EXCEPT ![e] = ack]
            /\ UNCHANGED woken
    /\ IF stopped \/ NumTools = 0 THEN Done ELSE phase' = "calling" /\ UNCHANGED chain
    /\ UNCHANGED <<inboxVars, route, pending, resumed, history>>

(* #attempt(): the dispatch answers. *)
CallEnds(result) ==
    LET attempts == Task.attempts + 1
        outcome == LedgerOutcome(result, attempts)
    IN  /\ Running /\ phase = "calling"
        /\ WriteTool(Slot, outcome, attempts)
        /\ pending' = IF outcome = "pending" THEN [pending EXCEPT ![Slot] = attempts] ELSE pending
        /\ IF Task.kind = "eval" /\ Task.tool < NumTools /\ ~stopped
           THEN chain' = <<[Task EXCEPT !.tool = @ + 1]>> \o Tail(chain) /\ UNCHANGED phase
           ELSE Done
        /\ UNCHANGED <<quietInbox, route, agentRow, resumed, woken, raced, dropped>>

-----------------------------------------------------------------------------
(* Retries.  The tick is armed again once the attempts of the last one ended. *)

SweepRetries(due) ==
    /\ ~stopped /\ Queued("retry") = {}
    /\ due # {} /\ \A s \in due : pending[s] # None
    /\ pending' = [s \in Slots |-> IF s \in due THEN None ELSE pending[s]]
    /\ \E order \in Bijection(1..Cardinality(due), due) :
          chain' = chain \o [n \in 1..Cardinality(due) |-> Retry(order[n], pending[order[n]])]
    /\ UNCHANGED <<inboxVars, route, ledger, phase, resumed, woken, history>>

(* #retry() *)
RetryGone ==
    /\ Running /\ Task.kind = "retry" /\ phase = "start"
    /\ stopped \/ ~Held(Task.item)
    /\ Done
    /\ UNCHANGED <<inboxVars, route, ledger, pending, resumed, woken, history>>

(* The stored rule is the authority on every attempt. *)
RetryCalls ==
    /\ Running /\ Task.kind = "retry" /\ phase = "start"
    /\ ~stopped /\ Held(Task.item) /\ route
    /\ phase' = "calling"
    /\ UNCHANGED <<inboxVars, route, ledger, chain, pending, resumed, woken, history>>

RetryAbandoned ==
    /\ Running /\ Task.kind = "retry" /\ phase = "start"
    /\ ~stopped /\ Held(Task.item) /\ ~route
    /\ WriteTool(Slot, "failed", Task.attempts)
    /\ Done
    /\ UNCHANGED <<quietInbox, route, agentRow, pending, resumed, woken, raced, dropped>>

(* A throw on the way to the attempt puts the entry back. *)
RetryForgotten ==
    /\ Running /\ Task.kind = "retry" /\ phase = "start" /\ ~stopped /\ Troubled
    /\ Done
    /\ UNCHANGED <<quietInbox, route, ledger, pending, resumed, woken, history>>

RetryThrows ==
    /\ Running /\ Task.kind = "retry" /\ phase = "start" /\ ~stopped /\ Troubled
    /\ pending' = IF pending[Slot] = None THEN [pending EXCEPT ![Slot] = Task.attempts] ELSE pending
    /\ Done
    /\ UNCHANGED <<quietInbox, route, ledger, resumed, woken, history>>

-----------------------------------------------------------------------------
(* resume(): the rows a predecessor left open, once the workspaces are listed *)

NotFailed(outcome) == outcome \in {"pending", "deferred", "delivered"}
Open(outcome) == outcome \in {"pending", "deferred"}

(* pendingDeliveries(): a batch died with the process that opened it and is
   closed, an attempt is owed again. *)
NoLostBatch == {}
LostBatches == {e \in Events : Held(e) /\ Open(agentRow[e])}

Resume ==
    LET slots == {s \in Slots : Held(s[1]) /\ Open(toolRow[s].outcome)} IN
    /\ resumed = "no"
    /\ resumed' = "yes"
    /\ pending' = [s \in Slots |-> IF s \in slots THEN toolRow[s].attempts ELSE pending[s]]
    /\ agentRow' = [e \in Events |-> IF e \in LostBatches THEN "failed" ELSE agentRow[e]]
    /\ raced' = raced \cup {s \in slots : Underway(s)} \cup ((LostBatches \cap woken) \X {Agent})
    /\ UNCHANGED <<inboxVars, route, toolRow, chain, phase, woken, unwritten, dropped>>

ResumeFails ==
    /\ resumed = "no" /\ Troubled
    /\ resumed' = "failed"
    /\ UNCHANGED <<quietInbox, route, ledger, chain, phase, pending, woken, history>>

-----------------------------------------------------------------------------
(* The tasks end, TaskEventTrigger: a batch's run ended or did not start, or the
   source was stopped with the window open.  Every item of the batch is told. *)
WakeSettles(items, outcome) ==
    /\ items # {}
    /\ WriteAgent(items, outcome)
    /\ woken' = woken \ items
    /\ UNCHANGED <<quietInbox, route, toolRow, chain, phase, pending, resumed, raced, dropped>>

-----------------------------------------------------------------------------

(* set_routes *)
EditRoute ==
    /\ Troubled
    /\ route' = ~route
    /\ UNCHANGED <<quietInbox, ledger, memory, history>>

(* The process is replaced: what was only handed over is never routed. *)
Restart ==
    /\ CrashInbox \/ ExitInbox
    /\ dropped' = dropped \cup
          {chain[n].item : n \in {m \in DOMAIN chain :
              chain[m].kind = "eval" /\ ~(m = 1 /\ phase = "calling")}}
    /\ chain' = <<>> /\ phase' = "start" /\ pending' = [s \in Slots |-> None]
    /\ resumed' = "no" /\ woken' = {}
    /\ UNCHANGED <<route, ledger, raced, unwritten>>

Init == InboxInit /\ RoutesInit

Deliver ==
    \/ EvaluateFails \/ EvaluateNone
    \/ \E ack \in {"accepted", "failed"} : Evaluate(ack)
    \/ \E result \in {"ok", "refused", "error"} : CallEnds(result)
    \/ RetryGone \/ RetryCalls \/ RetryAbandoned \/ RetryThrows

Wake == \E items \in SUBSET woken, outcome \in {"delivered", "failed"} : WakeSettles(items, outcome)

Next ==
    \/ InboxQuiet /\ UNCHANGED routeVars
    \/ StopPolling /\ UNCHANGED routeVars
    \/ StoreEvents
    \/ Deliver
    \/ \E due \in SUBSET Slots : SweepRetries(due)
    \/ Resume \/ ResumeFails
    \/ Wake
    \/ EditRoute \/ Restart

Spec == Init /\ [][Next]_vars

(* Calls are answered or time out, timers fire, a process that was stopped
   exits and is started again. *)
FairSpec ==
    /\ Spec
    /\ WF_vars(Deliver) /\ WF_vars(\E due \in SUBSET Slots : SweepRetries(due))
    /\ WF_vars(Resume) /\ WF_vars(Wake)
    /\ WF_vars(ExitInbox /\ Restart)

-----------------------------------------------------------------------------

Outcomes == {"none", "pending", "deferred", "delivered", "failed"}

TypeOK ==
    /\ InboxTypeOK
    /\ route \in BOOLEAN
    /\ agentRow \in [Events -> Outcomes \ {"pending"}]
    /\ toolRow \in [Slots -> [outcome : Outcomes \ {"deferred"}, attempts : 0..MaxAttempts]]
    /\ \A n \in DOMAIN chain :
          chain[n] \in [kind : {"eval", "retry"}, item : Events, tool : Tools \cup {1}, attempts : 0..MaxAttempts]
    /\ phase \in {"start", "calling"} /\ (chain = <<>> => phase = "start")
    /\ pending \in [Slots -> {None} \cup 0..(MaxAttempts - 1)]
    /\ resumed \in {"no", "yes", "failed"}
    /\ woken \subseteq Events
    /\ raced \subseteq Events \X (Tools \cup {Agent})
    /\ unwritten \subseteq Events \X (Tools \cup {Agent})
    /\ dropped \subseteq Events

(* "The ledger IS the retry state": once resume() has run, something in this
   process still owes every open row of an item in the inbox, whatever threw,
   crashed or was retried; only an outcome that could not be written, and a
   dispatcher that was stopped, leave one behind for the next boot. *)
NothingForgotten ==
    resumed = "yes" /\ ~stopped =>
        /\ \A s \in Slots :
              Held(s[1]) /\ toolRow[s].outcome = "pending" /\ s \notin unwritten
                 => pending[s] # None \/ Underway(s)
        /\ \A e \in Events :
              Held(e) /\ agentRow[e] = "deferred" /\ <<e, Agent>> \notin unwritten => e \in woken

(* "Nothing already delivered is re-sent": a tool is called only for a row that
   is still pending, across retries, restarts and repeated reads of the outbox.
   The one exception is a row this process was already delivering when its own
   resume(), which nothing waits for, came to scan the ledger. *)
NotSentAgain ==
    [][\A s \in Slots :
          Calling(s)' /\ ~Calling(s) => toolRow'[s].outcome = "pending" \/ s \in raced]_vars

(* Every item is routed to the end: each of its rows reaches a terminal outcome,
   unless the item was lost before its rows were seeded, an outcome could not be
   written or resume() failed. *)
Settled(e) ==
    \/ ~Held(e) \/ e \in dropped \/ resumed = "failed"
    \/ /\ \A t \in Queued("eval") : t.item # e
       /\ Open(agentRow[e]) => <<e, Agent>> \in unwritten
       /\ \A k \in Tools : Open(toolRow[<<e, k>>].outcome) => <<e, k>> \in unwritten

DeliveriesSettle == \A e \in Events : Held(e) ~> Settled(e)

=============================================================================
