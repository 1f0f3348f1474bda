----------------------------- MODULE TurnStream -----------------------------
(***************************************************************************)
(* A conversation's turns and the clients that watch them: the RunBus      *)
(* (src/runtime/run-bus.ts) with its buffered log of the current turn, the *)
(* detached turns that publish to it (Runtime.chat, cancelTurn and         *)
(* startTurn, src/runtime/runtime.ts:1260-1310 and 1355-1490), the fan-out *)
(* (src/api/conversation-events.ts) and the reconnecting client            *)
(* (web/src/api/conversation-stream.ts).                                   *)
(*                                                                         *)
(* Two locks guard a conversation: the log's status, which a Stop opens at *)
(* once, and chat()'s activeConversations, which the cancelled turn holds  *)
(* until its engine has unwound.  Every call to the bus names only the     *)
(* conversation, never the turn, so what keeps a turn out of another       *)
(* turn's log is the order of these two.                                   *)
(*                                                                         *)
(* A turn's engine events are told apart by nothing but their place; `by'  *)
(* and `log' are history.                                                  *)
(***************************************************************************)
EXTENDS Naturals, Sequences, FiniteSets, SequencesExt

CONSTANTS
    Turns,    \* the requests to start a turn, each used once
    Viewers,
    Cap       \* maxEventsPerRun

NoTurn == 0

ASSUME TurnAssumption == Turns \subseteq Nat \ {NoTurn}
ASSUME CapAssumption == Cap \in Nat \ {0}

VARIABLES
    log,       \* the bus's log of the conversation: whose turn, its events, its status
    timers,    \* logs (by turn) whose gc timer is armed
    turn,      \* turn -> new, running (its engine), unwinding (aborted), settled
    active,    \* activeConversations holds the conversation
    viewer,    \* the clients; pipe is what the server sent and the client has not read
    up         \* the server runs

vars == <<log, timers, turn, active, viewer, up>>

Terminal == {"done", "error", "cancelled"}
NoLog == [turn |-> NoTurn, events |-> <<>>, status |-> "none"]
Away == [conn |-> "closed", streaming |-> FALSE, lastSeq |-> 0, pipe |-> <<>>, seen |-> <<>>]

-----------------------------------------------------------------------------
(* The bus.  Each operator maps a log to the log after the call. *)

(* end() *)
End(l, status) == IF l.status = "running" THEN [l EXCEPT !.status = status] ELSE l

PublishUncapped(l, type, by) ==
    IF l.status # "running" THEN l ELSE [l EXCEPT !.events = Append(@, [type |-> type, by |-> by])]

PublishLate(l, type, by) ==
    IF l.status = "none" \/ Len(l.events) >= Cap THEN l
    ELSE [l EXCEPT !.events = Append(@, [type |-> type, by |-> by])]

(* publish(): dropped unless a turn runs; at the cap the turn is aborted and
   an error takes the event's place. *)
Publish(l, type, by) ==
    IF l.status # "running" THEN l
    ELSE IF Len(l.events) >= Cap
    THEN End([l EXCEPT !.events = Append(@, [type |-> "error", by |-> by])], "error")
    ELSE [l EXCEPT !.events = Append(@, [type |-> type, by |-> by])]

Overflows(l) == l.status = "running" /\ Len(l.events) >= Cap

BufferedFrom(l, afterSeq) ==
    LET first == IF afterSeq = 0 THEN 1 ELSE afterSeq
    IN  [k \in 1..(Len(l.events) + 1 - first) |->
            [log |-> l.turn, seq |-> first + k - 1, type |-> l.events[first + k - 1].type]]

(* bufferedSince() *)
BufferedSince(l, afterSeq) ==
    [k \in 1..(IF Len(l.events) > afterSeq THEN Len(l.events) - afterSeq ELSE 0) |->
        [log |-> l.turn, seq |-> afterSeq + k, type |-> l.events[afterSeq + k].type]]

(* A log that stopped running is kept for the grace period. *)
Schedule(l) == timers' = IF l.status \in Terminal THEN timers \cup {l.turn} ELSE timers

(* What was published goes out to every connected viewer. *)
FanOut(before, after) ==
    LET published == BufferedSince(after, Len(before.events))
    IN  viewer' = [v \in Viewers |->
            IF viewer[v].conn = "open" THEN [viewer[v] EXCEPT !.pipe = @ \o published] ELSE viewer[v]]

-----------------------------------------------------------------------------
(* Turns *)

(* startTurn(): begin(), the user's message, and chat(), whose lock may still
   be held by a turn that was stopped.  The refusal is an error frame on the
   stream: the request has been answered by then. *)
StartTurn(t) ==
    LET fresh == [turn |-> t, events |-> <<>>, status |-> "running"]
        begun == Publish(fresh, "user.message", t)
        refused == End(Publish(begun, "error", t), "error")
    IN  /\ up /\ turn[t] = "new" /\ log.status # "running"
        /\ log' = IF active THEN refused ELSE begun
        /\ timers' = (timers \ {log.turn}) \cup (IF active THEN {t} ELSE {})
        /\ turn' = [turn EXCEPT ![t] = IF active THEN "settled" ELSE "running"]
        /\ active' = TRUE
        /\ FanOut(fresh, log')
        /\ UNCHANGED up

(* The engine's sink.  An aborted engine may still emit. *)
Emit(t) ==
    /\ turn[t] \in {"running", "unwinding"}
    /\ log' = Publish(log, "delta", t)
    /\ turn' = IF Overflows(log) /\ turn[log.turn] = "running"
               THEN [turn EXCEPT ![log.turn] = "unwinding"] ELSE turn
    /\ Schedule(log') /\ FanOut(log, log')
    /\ UNCHANGED <<active, up>>

(* The turn's promise settles: chat() gives its lock back, the terminal frame
   is published and the run ended, all before another callback is served.  A
   stopped turn may still come to its end by itself. *)
Settle(t, outcome) ==
    /\ turn[t] \in {"running", "unwinding"}
    /\ outcome \in (IF turn[t] = "running" THEN {"done", "error"} ELSE {"done", "cancelled"})
    /\ log' = End(Publish(log, outcome, t), outcome)
    /\ turn' = [turn EXCEPT ![t] = "settled"]
    /\ active' = FALSE
    /\ Schedule(log') /\ FanOut(log, log')
    /\ UNCHANGED up

StopSilently(l, t) == End(l, "cancelled")

(* cancelTurn() publishes the terminal frame before it ends the run: afterwards
   nothing can be published. *)
Stopped(l, t) == End(Publish(l, "cancelled", t), "cancelled")

CancelTurn ==
    /\ log.status = "running"
    /\ log' = Stopped(log, log.turn)
    /\ turn' = [turn EXCEPT ![log.turn] = "unwinding"]
    /\ Schedule(log') /\ FanOut(log, log')
    /\ UNCHANGED <<active, up>>

(* scheduleGc()'s timer: only its own log. *)
CollectLog(t) ==
    /\ t \in timers
    /\ timers' = timers \ {t}
    /\ log' = IF log.turn = t THEN NoLog ELSE log
    /\ UNCHANGED <<turn, active, viewer, up>>

(* A client whose connection is gone connects again and shows what it showed. *)
Reconnecting(x) == IF x.conn = "open" THEN [x EXCEPT !.conn = "connecting", !.pipe = <<>>] ELSE x

(* reset(), at shutdown; the server drops its connections with it. *)
Shutdown ==
    /\ up /\ up' = FALSE
    /\ turn' = [t \in Turns |-> IF t = log.turn /\ log.status = "running" THEN "unwinding" ELSE turn[t]]
    /\ log' = NoLog /\ timers' = {}
    /\ viewer' = [v \in Viewers |-> Reconnecting(viewer[v])]
    /\ UNCHANGED active

(* The next process: no log, no lock, and none of the engines of the last one. *)
Restart ==
    /\ ~up /\ up' = TRUE
    /\ turn' = [t \in Turns |-> IF turn[t] = "new" THEN "new" ELSE "settled"]
    /\ log' = NoLog /\ timers' = {} /\ active' = FALSE
    /\ UNCHANGED viewer

-----------------------------------------------------------------------------
(* Viewers *)

(* A client opens the stream of a conversation whose turn it sent or finds
   running; it shows the turn as streaming. *)
Watch(v) ==
    /\ up /\ log.status # "none" /\ ~viewer[v].streaming
    /\ viewer' = [viewer EXCEPT ![v] = [Away EXCEPT !.conn = "connecting", !.streaming = TRUE]]
    /\ UNCHANGED <<log, timers, turn, active, up>>

Greeted(type) == <<[log |-> NoTurn, seq |-> 0, type |-> type]>>

GreetActive == Greeted("active")

(* The `subscribed' frame. *)
Greeting == Greeted(IF log.status = "running" THEN "active" ELSE "idle")

(* The events route: whether a turn runs, the replay after the client's last
   sequence number, and the registration for what follows, in one turn of the
   event loop. *)
Subscribe(v) ==
    /\ up /\ viewer[v].conn = "connecting"
    /\ viewer' = [viewer EXCEPT
          ![v].conn = "open",
          ![v].pipe = Greeting \o BufferedSince(log, viewer[v].lastSeq)]
    /\ UNCHANGED <<log, timers, turn, active, up>>

(* The client reads a frame: emitFrame(), and the store's handlers. *)
Receive(v) ==
    LET f == Head(viewer[v].pipe)
        x == [viewer[v] EXCEPT !.pipe = Tail(@)]
    IN  /\ viewer[v].pipe # <<>>
        /\ viewer' = [viewer EXCEPT ![v] =
              CASE f.type = "active" -> x
                [] f.type = "idle" -> [x EXCEPT !.streaming = FALSE]
                [] f.type \in Terminal ->
                      [Away EXCEPT !.seen = Append(x.seen, f)]
                [] OTHER -> [x EXCEPT !.streaming = @ \/ f.type = "user.message",
                                      !.seen = Append(@, f),
                                      !.lastSeq = IF f.seq > @ THEN f.seq ELSE @]]
        /\ UNCHANGED <<log, timers, turn, active, up>>

(* The connection breaks, or goes stale and the watchdog gives it up: what was
   on its way is lost and the client connects again. *)
Disconnect(v) ==
    /\ viewer[v].conn = "open"
    /\ viewer' = [viewer EXCEPT ![v] = Reconnecting(@)]
    /\ UNCHANGED <<log, timers, turn, active, up>>

-----------------------------------------------------------------------------

Init ==
    /\ log = NoLog /\ timers = {} /\ active = FALSE /\ up = TRUE
    /\ turn = [t \in Turns |-> "new"]
    /\ viewer = [v \in Viewers |-> Away]

Next ==
    \/ \E t \in Turns :
          \/ StartTurn(t) \/ Emit(t) \/ CollectLog(t)
          \/ \E outcome \in Terminal : Settle(t, outcome)
    \/ CancelTurn
    \/ Shutdown \/ Restart
    \/ \E v \in Viewers : Watch(v) \/ Subscribe(v) \/ Receive(v) \/ Disconnect(v)

Spec == Init /\ [][Next]_vars

(* A client connects again, and a connection that carries frames again and again
   delivers some.  Nothing is assumed of the engines: a chat turn has no deadline. *)
FairSpec ==
    /\ Spec
    /\ \A v \in Viewers : WF_vars(Subscribe(v)) /\ SF_vars(Receive(v))

-----------------------------------------------------------------------------

Event == [type : {"user.message", "delta"} \cup Terminal, by : Turns]

(* The log stays within the cap and one terminal error. *)
TypeOK ==
    /\ log.turn \in Turns \cup {NoTurn} /\ log.status \in {"none", "running"} \cup Terminal
    /\ log.events \in Seq(Event) /\ Len(log.events) <= Cap + 1
    /\ timers \subseteq Turns
    /\ turn \in [Turns -> {"new", "running", "unwinding", "settled"}]
    /\ active \in BOOLEAN /\ up \in BOOLEAN
    /\ \A v \in Viewers :
          /\ viewer[v].conn \in {"closed", "connecting", "open"}
          /\ viewer[v].streaming \in BOOLEAN /\ viewer[v].lastSeq \in 0..(Cap + 1)

(* One engine at a time, and only its own events in a log: a turn that was
   stopped and still unwinds neither runs beside the next turn nor publishes
   into its log nor ends it, although every call names only the conversation. *)
OneTurnAtATime ==
    /\ Cardinality({t \in Turns : turn[t] \in {"running", "unwinding"}}) <= 1
    /\ \A k \in DOMAIN log.events : log.events[k].by = log.turn
    /\ \A t \in Turns : turn[t] = "running" => log.turn = t /\ log.status = "running"

(* "the terminal frame is the last published event": a log that runs has none,
   one that ended has exactly one, at its end, whoever ended it first: the
   engine, a Stop, the cap or a refused start. *)
TerminalIsLast ==
    LET n == Len(log.events) IN
    /\ \A k \in 1..n : log.events[k].type \in Terminal => k = n /\ log.status # "running"
    /\ log.status \in Terminal => n > 0 /\ log.events[n].type \in Terminal

(* "resumes seamlessly with no gap or duplication": a client whose stream stayed
   with one turn has seen that turn's frames from the first, in order, however
   often it lost the connection.  (Sequence numbers start again with each turn,
   so a client that lost the connection in one turn and finds another one
   running misses the beginning of that.) *)
SeenInOrder ==
    \A v \in Viewers :
        LET seen == viewer[v].seen IN
        (\A j, k \in DOMAIN seen : seen[j].log = seen[k].log) =>
            \A k \in DOMAIN seen : seen[k].seq = k

(* "the spinner would hang forever": a client that shows a turn as streaming
   while none runs stops showing it, although the turn's terminal frame may be
   collected, lost with a connection, or numbered below what the client has seen
   of another turn; unless the next turn begins or the server goes down first. *)
StreamingEnds ==
    \A v \in Viewers :
        up /\ viewer[v].streaming /\ log.status # "running"
            ~> ~viewer[v].streaming \/ log.status = "running" \/ ~up

=============================================================================
