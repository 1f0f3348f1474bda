-------------------------- MODULE TurnStreamProofs --------------------------
(***************************************************************************)
(* Proofs about a conversation's turns and their stream, for every number  *)
(* of turns and viewers and every event cap.                               *)
(*                                                                         *)
(* The argument has two parts.  The log: whatever a call to the bus does,  *)
(* it leaves the log alone or extends a running one by an event of the     *)
(* turn that called, and it ends the log exactly when that event is        *)
(* terminal (Extends).  That the caller is the log's own turn follows from *)
(* the lock: a log that runs belongs to the only turn that is alive.  The  *)
(* viewers: what a client has seen, followed by what is on its way to it,  *)
(* is a chain without gaps that ends where the log ends.                   *)
(***************************************************************************)
EXTENDS TurnStream, TLAPS, FiniteSetTheorems, SequenceTheorems

EventTypes == {"user.message", "delta"} \cup Terminal
Logs == [turn : Turns \cup {NoTurn}, events : Seq(Event), status : {"none", "running"} \cup Terminal]

(* A log as begin(), publish() and end() leave it. *)
LogOK(l) ==
    LET n == Len(l.events) IN
    /\ l \in Logs
    /\ l.status = "none" => l.turn = NoTurn /\ l.events = <<>>
    /\ l.status # "none" => l.turn \in Turns /\ n > 0
    /\ n <= Cap + 1
    /\ l.status = "running" => n <= Cap
    /\ \A k \in 1..n : l.events[k].by = l.turn
    /\ \A k \in 1..n : l.events[k].type \in Terminal => k = n /\ l.status # "running"
    /\ l.status \in Terminal => l.events[n].type \in Terminal

(* m is l, or l ran and m has one more event, by turn t, after which it runs on
   unless that event is terminal. *)
Extends(l, m, t) ==
    \/ m = l
    \/ /\ l.status = "running" /\ m \in Logs /\ m.turn = l.turn
       /\ Len(m.events) = Len(l.events) + 1 /\ Len(l.events) <= Cap
       /\ \A k \in 1..Len(l.events) : m.events[k] = l.events[k]
       /\ m.events[Len(m.events)].by = t
       /\ \/ m.status = "running" /\ m.events[Len(m.events)].type \notin Terminal
                                  /\ Len(m.events) <= Cap
          \/ m.status \in Terminal /\ m.events[Len(m.events)].type \in Terminal

-----------------------------------------------------------------------------
(* Calls to the bus *)

(* l with event e, and the status s after it. *)
Put(l, e, s) == [[l EXCEPT !.events = Append(@, e)] EXCEPT !.status = s]

(* Appending an event to a log touches nothing else. *)
LEMMA LogUpdate ==
    ASSUME NEW l \in Logs, NEW e \in Event
    PROVE  LET a == [l EXCEPT !.events = Append(@, e)]
           IN  a \in Logs /\ a.turn = l.turn /\ a.status = l.status /\ a.events = Append(l.events, e)
<1> DEFINE ev == Append(l.events, e)
           Q == Seq(Event)
           St == {"none", "running"} \cup Terminal
<1>1. ev \in Q
  BY DEF Logs
<1> HIDE DEF ev, Q, St
<1>2. Logs = [turn : Turns \cup {NoTurn}, events : Q, status : St]
  BY DEF Logs, Q, St
<1>3. LET a == [l EXCEPT !.events = ev]
      IN  a \in Logs /\ a.turn = l.turn /\ a.status = l.status /\ a.events = ev
  BY <1>1, <1>2
<1> QED
  BY <1>3 DEF ev

(* Nor does setting its status. *)
LEMMA PutFacts ==
    ASSUME NEW l \in Logs, NEW e \in Event, NEW s \in Terminal
    PROVE  /\ Put(l, e, s) \in Logs /\ Put(l, e, s).turn = l.turn
           /\ Put(l, e, s).status = s /\ Put(l, e, s).events = Append(l.events, e)
<1> DEFINE a == [l EXCEPT !.events = Append(@, e)]
<1>1. a \in Logs /\ a.turn = l.turn /\ a.events = Append(l.events, e)
  BY LogUpdate
<1>2. Put(l, e, s) = [a EXCEPT !.status = s]
  BY DEF Put
<1> HIDE DEF a
<1>3. /\ [a EXCEPT !.status = s] \in Logs /\ [a EXCEPT !.status = s].turn = a.turn
      /\ [a EXCEPT !.status = s].status = s /\ [a EXCEPT !.status = s].events = a.events
  BY <1>1 DEF Logs
<1> QED
  BY <1>1, <1>2, <1>3

(* publish() of an event that is not terminal. *)
LEMMA PublishExtends ==
    ASSUME NEW l, LogOK(l), NEW type \in {"user.message", "delta"}, NEW t \in Turns
    PROVE  /\ Extends(l, Publish(l, type, t), t)
           /\ Publish(l, type, t).status = "running" <=> l.status = "running" /\ ~Overflows(l)
<1> DEFINE m == Publish(l, type, t)
<1>0. l \in Logs /\ Len(l.events) \in Nat /\ l.events \in Seq(Event)
  BY DEF LogOK, Logs
<1>1. CASE l.status # "running"
  BY <1>1 DEF Publish, Extends, Overflows
<1>2. CASE l.status = "running" /\ Len(l.events) >= Cap
  <2> DEFINE e == [type |-> "error", by |-> t]
             a == [l EXCEPT !.events = Append(@, e)]
  <2>0. e \in Event
    BY DEF Event, Terminal
  <2> HIDE DEF e
  <2>1. a \in Logs /\ a.status = "running" /\ a.turn = l.turn /\ a.events = Append(l.events, e)
    BY <1>0, <1>2, <2>0, LogUpdate DEF Terminal
  <2>2. m = [a EXCEPT !.status = "error"]
    BY <1>2, <2>1 DEF Publish, End, e
  <2>3. m \in Logs /\ m.status = "error" /\ m.turn = l.turn /\ m.events = Append(l.events, e)
    BY <2>1, <2>2 DEF Logs, Terminal
  <2>4. Len(l.events) <= Cap
    BY <1>2 DEF LogOK
  <2>5. e.type \in Terminal /\ e.by = t
    BY DEF e, Terminal
  <2> HIDE DEF m
  <2>6. Extends(l, m, t)
    BY <1>0, <1>2, <2>0, <2>3, <2>4, <2>5 DEF Extends, Terminal
  <2> QED
    BY <1>2, <2>3, <2>6 DEF m, Overflows
<1>3. CASE l.status = "running" /\ ~(Len(l.events) >= Cap)
  <2> DEFINE e == [type |-> type, by |-> t]
  <2>1. m = [l EXCEPT !.events = Append(@, e)]
    BY <1>3 DEF Publish
  <2>2. e \in Event /\ e.type \notin Terminal
    BY DEF Event, Terminal
  <2>3. m \in Logs /\ m.status = "running" /\ m.turn = l.turn /\ m.events = Append(l.events, e)
    BY <1>0, <1>3, <2>1, <2>2 DEF Logs
  <2> HIDE DEF m
  <2>4. Extends(l, m, t)
    BY <1>0, <1>3, <2>2, <2>3, CapAssumption DEF Extends
  <2> QED
    BY <1>3, <2>3, <2>4 DEF m, Overflows
<1> QED
  BY <1>1, <1>2, <1>3

(* A terminal frame and the end of the run: one terminal event, whichever of
   the frame and the cap's error it is. *)
LEMMA ClosingExtends ==
    ASSUME NEW l, LogOK(l), NEW st \in Terminal, NEW t \in Turns
    PROVE  /\ Extends(l, End(Publish(l, st, t), st), t)
           /\ End(Publish(l, st, t), st).status # "running"
<1> DEFINE m == End(Publish(l, st, t), st)
<1>0. l \in Logs /\ Len(l.events) \in Nat /\ l.events \in Seq(Event)
  BY DEF LogOK, Logs
<1>1. CASE l.status # "running"
  BY <1>1 DEF Publish, End, Extends
<1>2. CASE l.status = "running"
  <2>1. PICK type \in Terminal, s \in Terminal :
          m = Put(l, [type |-> type, by |-> t], s)
    <3>1. CASE Len(l.events) >= Cap
      <4> DEFINE a == [l EXCEPT !.events = Append(@, [type |-> "error", by |-> t])]
      <4>1. a.status = "running"
        BY <1>0, <1>2 DEF Logs
      <4>2. Publish(l, st, t) = [a EXCEPT !.status = "error"]
        BY <1>2, <3>1, <4>1 DEF Publish, End
      <4>3. [a EXCEPT !.status = "error"].status = "error"
        BY <1>0 DEF Logs
      <4>4. m = [a EXCEPT !.status = "error"]
        BY <4>2, <4>3 DEF End
      <4> QED
        BY <4>4 DEF Terminal, Put
    <3>2. CASE ~(Len(l.events) >= Cap)
      <4> DEFINE a == [l EXCEPT !.events = Append(@, [type |-> st, by |-> t])]
      <4>1. a.status = "running"
        BY <1>0, <1>2 DEF Logs
      <4>2. m = [a EXCEPT !.status = st]
        BY <1>2, <3>2, <4>1 DEF Publish, End
      <4> QED
        BY <4>2 DEF Put
    <3> QED
      BY <3>1, <3>2
  <2> DEFINE e == [type |-> type, by |-> t]
  <2>2. e \in Event
    BY DEF Event
  <2>3. m \in Logs /\ m.status = s /\ m.turn = l.turn /\ m.events = Append(l.events, e)
    <3>1. m = Put(l, e, s)
      BY <2>1
    <3> HIDE DEF e, m
    <3> QED
      BY <1>0, <2>2, <3>1, PutFacts
  <2>4. Len(l.events) <= Cap
    BY <1>2 DEF LogOK
  <2> HIDE DEF m
  <2>5. Extends(l, m, t)
    BY <1>0, <1>2, <2>3, <2>4 DEF Extends
  <2> QED
    BY <2>3, <2>5 DEF Terminal, m
<1> QED
  BY <1>1, <1>2

(* Extending a log by its own turn keeps it in order. *)
LEMMA ExtendsOK ==
    ASSUME NEW l, NEW m, NEW t, LogOK(l), Extends(l, m, t), l.status = "running" => l.turn = t
    PROVE  LogOK(m)
<1>0. l \in Logs /\ Len(l.events) \in Nat /\ Cap \in Nat
  BY CapAssumption DEF LogOK, Logs
<1>1. CASE m = l
  BY <1>1
<1>2. CASE m # l
  <2> DEFINE n == Len(m.events)
  <2>1. /\ l.status = "running" /\ l.turn = t /\ m \in Logs /\ m.turn = t
        /\ n = Len(l.events) + 1 /\ Len(l.events) <= Cap /\ n <= Cap + 1 /\ n \in Nat /\ n > 0
        /\ m.status # "none" /\ l.turn \in Turns
        /\ \A k \in 1..Len(l.events) : m.events[k] = l.events[k]
        /\ m.events[n].by = t
    BY <1>0, <1>2 DEF Extends, LogOK, Terminal
  <2>2. \A k \in 1..n : k = n \/ k \in 1..Len(l.events)
    BY <1>0, <2>1
  <2>3. \A k \in 1..n : m.events[k].by = m.turn
    BY <2>1, <2>2 DEF LogOK
  <2>4. \A k \in 1..Len(l.events) : m.events[k].type \notin Terminal
    BY <2>1 DEF LogOK
  <2>5. (m.status = "running" => n <= Cap) /\ (m.status = "running" => m.events[n].type \notin Terminal)
        /\ (m.status \in Terminal => m.events[n].type \in Terminal)
    BY <1>2 DEF Extends, Terminal
  <2>6. \A k \in 1..n : m.events[k].type \in Terminal => k = n /\ m.status # "running"
    BY <2>2, <2>4, <2>5
  <2> QED
    BY <2>1, <2>3, <2>5, <2>6 DEF LogOK
<1> QED
  BY <1>1, <1>2

(* The log of a turn that startTurn() began, and of one that chat() refused. *)
LEMMA FreshLog ==
    ASSUME NEW t \in Turns
    PROVE  LET fresh == [turn |-> t, events |-> <<>>, status |-> "running"]
               begun == Publish(fresh, "user.message", t)
               refused == End(Publish(begun, "error", t), "error")
           IN  /\ LogOK(begun) /\ begun.turn = t /\ begun.status = "running"
               /\ LogOK(refused) /\ refused.turn = t /\ refused.status \in Terminal
<1> DEFINE fresh == [turn |-> t, events |-> <<>>, status |-> "running"]
           begun == Publish(fresh, "user.message", t)
           refused == End(Publish(begun, "error", t), "error")
           e == [type |-> "user.message", by |-> t]
<1>1. ~(Len(fresh.events) >= Cap)
  BY CapAssumption
<1>2. begun = [turn |-> t, events |-> Append(<<>>, e), status |-> "running"]
  BY <1>1 DEF Publish
<1>3. e \in Event /\ e.type \notin Terminal /\ e.by = t
  BY DEF Event, Terminal
<1>4. LogOK(begun) /\ begun.turn = t /\ begun.status = "running"
  <2>1. Append(<<>>, e) = <<e>> /\ <<e>> \in Seq(Event) /\ Len(<<e>>) = 1
    BY <1>3
  <2>2. begun = [turn |-> t, events |-> <<e>>, status |-> "running"]
    BY <1>2, <2>1
  <2>3. begun \in Logs
    <3> DEFINE ev == <<e>>
               Q == Seq(Event)
    <3>1. ev \in Q
      BY <2>1
    <3> HIDE DEF ev, Q
    <3>2. [turn |-> t, events |-> ev, status |-> "running"]
            \in [turn : Turns \cup {NoTurn}, events : Q, status : {"none", "running"} \cup Terminal]
      BY <3>1
    <3> QED
      BY <2>2, <3>2 DEF Logs, ev, Q
  <2> HIDE DEF begun, e
  <2> QED
    BY <1>3, <2>1, <2>2, <2>3, CapAssumption, TurnAssumption DEF LogOK, Terminal
<1> HIDE DEF begun
<1>5. Extends(begun, refused, t) /\ refused.status # "running"
  BY <1>4, ClosingExtends DEF Terminal
<1>6. LogOK(refused) /\ refused.turn = t
  <2>1. LogOK(refused)
    BY <1>4, <1>5, ExtendsOK
  <2> QED
    BY <1>4, <1>5, <2>1 DEF Extends
<1>7. refused.status \in Terminal
  BY <1>4, <1>5 DEF Extends
<1> QED
  BY <1>4, <1>6, <1>7 DEF begun

-----------------------------------------------------------------------------
(* The turns: the lock, the log and who is alive *)

Alive(t) == turn[t] \in {"running", "unwinding"}

(* The lock is held exactly while a turn is alive, at most one is, and a log
   that runs belongs to it: this is what each of OneTurnAtATime's parts lacks to
   be kept by itself. *)
TurnsOK ==
    /\ turn \in [Turns -> {"new", "running", "unwinding", "settled"}]
    /\ active \in BOOLEAN /\ up \in BOOLEAN /\ timers \subseteq Turns
    /\ \A t \in Turns : Alive(t) => active
    /\ \A t, u \in Turns : Alive(t) /\ Alive(u) => t = u
    /\ \A t \in Turns : turn[t] = "running" => log.turn = t /\ log.status = "running"
    /\ log.status = "running" => turn[log.turn] = "running"
    /\ log.status # "none" => turn[log.turn] # "new"
    /\ \A t \in timers : turn[t] # "new" /\ (log.turn = t => log.status # "running")

LogInv == LogOK(log) /\ TurnsOK

LEMMA NoLogOK == LogOK(NoLog)
<1>1. NoLog \in Logs
  BY DEF NoLog, Logs
<1> QED
  BY <1>1, CapAssumption DEF NoLog, LogOK, Terminal

LEMMA InitLogInv == Init => LogInv
<1> SUFFICES ASSUME Init PROVE LogInv
  OBVIOUS
<1>2. LogOK(log)
  BY NoLogOK DEF Init
<1>3. TurnsOK
  BY DEF Init, NoLog, TurnsOK, Alive
<1> QED
  BY <1>2, <1>3 DEF LogInv

LEMMA StartTurnLogInv ==
    ASSUME LogInv, NEW t \in Turns, StartTurn(t)
    PROVE  LogInv'
<1> DEFINE fresh == [turn |-> t, events |-> <<>>, status |-> "running"]
           begun == Publish(fresh, "user.message", t)
           refused == End(Publish(begun, "error", t), "error")
<1>1. /\ turn[t] = "new" /\ log.status # "running" /\ active' = TRUE /\ up' = up
      /\ log' = IF active THEN refused ELSE begun
      /\ turn' = [turn EXCEPT ![t] = IF active THEN "settled" ELSE "running"]
      /\ timers' = (timers \ {log.turn}) \cup (IF active THEN {t} ELSE {})
  BY DEF StartTurn
<1>2. /\ LogOK(begun) /\ begun.turn = t /\ begun.status = "running"
      /\ LogOK(refused) /\ refused.turn = t /\ refused.status \in Terminal
  BY FreshLog
<1> HIDE DEF begun, refused
<1>3. LogOK(log)'
  BY <1>1, <1>2 DEF LogOK
<1>4. /\ log'.turn = t /\ log'.status # "none"
      /\ log'.status = "running" <=> ~active
  BY <1>1, <1>2 DEF Terminal, LogInv, TurnsOK
<1>5. \A u \in Turns : turn[u] # "running"
  BY <1>1 DEF LogInv, TurnsOK
<1>6. TurnsOK'
  BY <1>1, <1>4, <1>5 DEF LogInv, TurnsOK, Alive
<1> QED
  BY <1>3, <1>6 DEF LogInv

(* A log that runs is that of the turn that is alive. *)
LEMMA OwnLog ==
    ASSUME LogInv, NEW t \in Turns, Alive(t), log.status = "running"
    PROVE  log.turn = t /\ turn[t] = "running"
<1>1. log.turn \in Turns /\ Alive(log.turn)
  BY DEF LogInv, LogOK, TurnsOK, Alive
<1> QED
  BY <1>1 DEF LogInv, TurnsOK

(* A call to the bus from the turn that is alive keeps the log in order. *)
LEMMA BusCall ==
    ASSUME LogInv, NEW t \in Turns, log.status = "running" => log.turn = t,
           Extends(log, log', t), Schedule(log')
    PROVE  /\ LogOK(log)' /\ timers' \subseteq Turns
           /\ timers' = timers \/ (timers' = timers \cup {log.turn} /\ log'.status # "running"
                                     /\ turn[log.turn] # "new")
           /\ log'.turn = log.turn /\ (log'.status = "none" <=> log.status = "none")
           /\ log.status # "running" => log' = log
<1>1. LogOK(log')
  BY ExtendsOK DEF LogInv
<1>2. LogOK(log)'
  BY <1>1 DEF LogOK
<1>3. log'.status \in Terminal => log'.turn \in Turns
  BY <1>1 DEF LogOK, Terminal
<1>4. timers' \subseteq Turns
  BY <1>3 DEF Schedule, LogInv, TurnsOK
<1>5. log'.turn = log.turn /\ (log'.status = "none" <=> log.status = "none")
  BY DEF Extends, Terminal
<1>6. log.status # "running" => log' = log
  BY DEF Extends
<1>7. timers' = timers \/ (timers' = timers \cup {log.turn} /\ log'.status # "running"
                             /\ turn[log.turn] # "new")
  BY <1>5 DEF Schedule, Terminal, LogInv, TurnsOK
<1> QED
  BY <1>2, <1>4, <1>5, <1>6, <1>7

LEMMA EmitLogInv ==
    ASSUME LogInv, NEW t \in Turns, Emit(t)
    PROVE  LogInv'
<1>1. /\ Alive(t) /\ active' = active /\ up' = up /\ Schedule(log')
      /\ log' = Publish(log, "delta", t)
      /\ turn' = IF Overflows(log) /\ turn[log.turn] = "running"
                 THEN [turn EXCEPT ![log.turn] = "unwinding"] ELSE turn
  BY DEF Emit, Alive
<1>2. log.status = "running" => log.turn = t /\ turn[t] = "running"
  BY <1>1, OwnLog
<1>3. /\ Extends(log, log', t)
      /\ log'.status = "running" <=> log.status = "running" /\ ~Overflows(log)
  BY <1>1, PublishExtends DEF LogInv
<1>4. /\ LogOK(log)' /\ timers' \subseteq Turns
      /\ timers' = timers \/ (timers' = timers \cup {log.turn} /\ log'.status # "running"
                                /\ turn[log.turn] # "new")
      /\ log'.turn = log.turn /\ (log'.status = "none" <=> log.status = "none")
      /\ log.status # "running" => log' = log
  BY <1>1, <1>2, <1>3, BusCall
<1>5. TurnsOK'
  <2>1. CASE Overflows(log)
    <3>1. log.status = "running" /\ log.turn = t /\ turn[t] = "running"
      BY <1>2, <2>1 DEF Overflows
    <3>2. turn' = [turn EXCEPT ![t] = "unwinding"] /\ log'.status # "running"
      BY <1>1, <1>3, <2>1, <3>1
    <3> QED
      BY <1>1, <1>4, <3>1, <3>2 DEF LogInv, TurnsOK, Alive
  <2>2. CASE ~Overflows(log)
    <3>1. turn' = turn /\ (log'.status = "running" <=> log.status = "running")
      BY <1>1, <1>3, <2>2
    <3> QED
      BY <1>1, <1>4, <3>1 DEF LogInv, TurnsOK, Alive
  <2> QED
    BY <2>1, <2>2
<1> QED
  BY <1>4, <1>5 DEF LogInv

LEMMA SettleLogInv ==
    ASSUME LogInv, NEW t \in Turns, NEW outcome \in Terminal, Settle(t, outcome)
    PROVE  LogInv'
<1>1. /\ Alive(t) /\ active' = FALSE /\ up' = up /\ Schedule(log')
      /\ log' = End(Publish(log, outcome, t), outcome)
      /\ turn' = [turn EXCEPT ![t] = "settled"]
  BY DEF Settle, Alive
<1>2. log.status = "running" => log.turn = t
  BY <1>1, OwnLog
<1>3. Extends(log, log', t) /\ log'.status # "running"
  BY <1>1, ClosingExtends DEF LogInv
<1>4. /\ LogOK(log)' /\ timers' \subseteq Turns
      /\ timers' = timers \/ (timers' = timers \cup {log.turn} /\ log'.status # "running"
                                /\ turn[log.turn] # "new")
      /\ log'.turn = log.turn /\ (log'.status = "none" <=> log.status = "none")
  BY <1>1, <1>2, <1>3, BusCall
<1>5. \A u \in Turns : turn'[u] \notin {"running", "unwinding"}
  BY <1>1 DEF LogInv, TurnsOK, Alive
<1>6. TurnsOK'
  <2>1. /\ turn' \in [Turns -> {"new", "running", "unwinding", "settled"}]
        /\ \A u \in Turns : turn[u] # "new" => turn'[u] # "new"
    BY <1>1 DEF LogInv, TurnsOK
  <2>2. \A u \in timers' : turn'[u] # "new"
    BY <1>4, <2>1 DEF LogInv, TurnsOK
  <2>3. log'.status # "none" => turn'[log'.turn] # "new"
    BY <1>4, <2>1 DEF LogInv, LogOK, TurnsOK
  <2> QED
    BY <1>1, <1>3, <1>4, <1>5, <2>1, <2>2, <2>3 DEF LogInv, TurnsOK, Alive
<1> QED
  BY <1>4, <1>6 DEF LogInv

LEMMA CancelLogInv ==
    ASSUME LogInv, CancelTurn
    PROVE  LogInv'
<1> DEFINE t == log.turn
<1>1. /\ log.status = "running" /\ active' = active /\ up' = up /\ Schedule(log')
      /\ log' = End(Publish(log, "cancelled", t), "cancelled")
      /\ turn' = [turn EXCEPT ![t] = "unwinding"]
  BY DEF CancelTurn, Stopped
<1>2. t \in Turns /\ turn[t] = "running"
  BY <1>1 DEF LogInv, LogOK, TurnsOK
<1> HIDE DEF t
<1>3. Extends(log, log', t) /\ log'.status # "running"
  BY <1>1, <1>2, ClosingExtends DEF LogInv, Terminal
<1>4. /\ LogOK(log)' /\ timers' \subseteq Turns
      /\ timers' = timers \/ (timers' = timers \cup {log.turn} /\ log'.status # "running"
                                /\ turn[log.turn] # "new")
      /\ log'.turn = log.turn /\ (log'.status = "none" <=> log.status = "none")
  BY <1>1, <1>2, <1>3, BusCall DEF t
<1>5. TurnsOK'
  BY <1>1, <1>2, <1>3, <1>4 DEF LogInv, TurnsOK, Alive, t
<1> QED
  BY <1>4, <1>5 DEF LogInv

(* A log that runs is never collected, and is lost only at shutdown, which
   aborts its turn. *)
LEMMA CollectLogInv ==
    ASSUME LogInv, NEW t \in Turns, CollectLog(t)
    PROVE  LogInv'
<1>1. /\ t \in timers /\ timers' = timers \ {t}
      /\ log' = IF log.turn = t THEN NoLog ELSE log
      /\ turn' = turn /\ active' = active /\ up' = up
  BY DEF CollectLog
<1>2. LogOK(log')
  BY <1>1, NoLogOK DEF LogInv
<1>3. LogOK(log)'
  BY <1>2 DEF LogOK
<1>4. TurnsOK'
  <2>1. CASE log.turn = t
    <3>1. log'.status = "none" /\ log.status # "running"
      BY <1>1, <2>1 DEF NoLog, LogInv, TurnsOK
    <3> QED
      BY <1>1, <3>1 DEF LogInv, TurnsOK, Alive
  <2>2. CASE log.turn # t
    BY <1>1, <2>2 DEF LogInv, TurnsOK, Alive
  <2> QED
    BY <2>1, <2>2
<1> QED
  BY <1>3, <1>4 DEF LogInv

LEMMA ShutdownLogInv ==
    ASSUME LogInv, Shutdown
    PROVE  LogInv'
<1>1. /\ up' = FALSE /\ log' = NoLog /\ timers' = {} /\ active' = active
      /\ turn' = [t \in Turns |->
                    IF t = log.turn /\ log.status = "running" THEN "unwinding" ELSE turn[t]]
  BY DEF Shutdown
<1>2. LogOK(log')
  BY <1>1, NoLogOK
<1>3. LogOK(log)'
  BY <1>2 DEF LogOK
<1>4. log'.status = "none"
  BY <1>1 DEF NoLog
<1>5. \A t \in Turns : turn'[t] # "running" /\ (turn'[t] = "unwinding" => Alive(t))
                        /\ turn'[t] \in {"new", "running", "unwinding", "settled"}
  BY <1>1 DEF LogInv, TurnsOK, Alive
<1>6. TurnsOK'
  BY <1>1, <1>4, <1>5 DEF LogInv, TurnsOK, Alive
<1> QED
  BY <1>3, <1>6 DEF LogInv

(* The next process begins without a log and without a turn that is alive. *)
LEMMA RestartLogInv ==
    ASSUME LogInv, Restart
    PROVE  LogInv'
<1>1. /\ up' = TRUE /\ log' = NoLog /\ timers' = {} /\ active' = FALSE
      /\ turn' = [t \in Turns |-> IF turn[t] = "new" THEN "new" ELSE "settled"]
  BY DEF Restart
<1>2. LogOK(log')
  BY <1>1, NoLogOK
<1>3. LogOK(log)'
  BY <1>2 DEF LogOK
<1>4. log'.status = "none"
  BY <1>1 DEF NoLog
<1>5. TurnsOK'
  BY <1>1, <1>4 DEF TurnsOK, Alive
<1> QED
  BY <1>3, <1>5 DEF LogInv

LEMMA StepLogInv == LogInv /\ [Next]_vars => LogInv'
<1> SUFFICES ASSUME LogInv, [Next]_vars PROVE LogInv'
  OBVIOUS
<1>1. ASSUME NEW t \in Turns, StartTurn(t) PROVE LogInv'
  BY <1>1, StartTurnLogInv
<1>2. ASSUME NEW t \in Turns, Emit(t) PROVE LogInv'
  BY <1>2, EmitLogInv
<1>3. ASSUME NEW t \in Turns, CollectLog(t) PROVE LogInv'
  BY <1>3, CollectLogInv
<1>4. ASSUME NEW t \in Turns, NEW outcome \in Terminal, Settle(t, outcome) PROVE LogInv'
  BY <1>4, SettleLogInv
<1>5. CASE CancelTurn
  BY <1>5, CancelLogInv
<1>6. CASE Shutdown
  BY <1>6, ShutdownLogInv
<1>7. ASSUME NEW v \in Viewers, Watch(v) \/ Subscribe(v) \/ Receive(v) \/ Disconnect(v)
      PROVE  LogInv'
  <2>1. UNCHANGED <<log, timers, turn, active, up>>
    BY <1>7 DEF Watch, Subscribe, Receive, Disconnect
  <2> QED
    BY <2>1 DEF LogInv, LogOK, TurnsOK, Alive
<1>8. CASE Restart
  BY <1>8, RestartLogInv
<1>9. CASE UNCHANGED vars
  BY <1>9 DEF vars, LogInv, LogOK, TurnsOK, Alive
<1> QED
  BY <1>1, <1>2, <1>3, <1>4, <1>5, <1>6, <1>7, <1>8, <1>9 DEF Next

LEMMA LogInvariance == Spec => []LogInv
BY InitLogInv, StepLogInv, PTL DEF Spec

(* One engine at a time, and in a log only events of the turn it belongs to. *)
THEOREM TurnsDoNotMix == Spec => []OneTurnAtATime
<1>1. LogInv => OneTurnAtATime
  <2> SUFFICES ASSUME LogInv PROVE OneTurnAtATime
    OBVIOUS
  <2> DEFINE L == {t \in Turns : turn[t] \in {"running", "unwinding"}}
  <2>1. Cardinality(L) <= 1
    <3>1. CASE L = {}
      BY <3>1, FS_EmptySet
    <3>2. CASE L # {}
      <4>1. PICK t \in L : TRUE
        BY <3>2
      <4>2. L = {t}
        BY <4>1 DEF LogInv, TurnsOK, Alive
      <4> QED
        BY <4>2, FS_Singleton
    <3> QED
      BY <3>1, <3>2
  <2>2. \A k \in DOMAIN log.events : log.events[k].by = log.turn
    BY DEF LogInv, LogOK, Logs
  <2> QED
    BY <2>1, <2>2 DEF OneTurnAtATime, LogInv, TurnsOK
<1> QED
  BY <1>1, LogInvariance, PTL

(* Every log ends with its one terminal frame, and a log that runs has none. *)
THEOREM TerminalFrameIsLast == Spec => []TerminalIsLast
<1>1. LogInv => TerminalIsLast
  BY DEF LogInv, LogOK, TerminalIsLast, Terminal
<1> QED
  BY <1>1, LogInvariance, PTL

-----------------------------------------------------------------------------
(* The viewers: what they have seen and what is on its way *)

EventFrame == [log : Turns, seq : 1..(Cap + 1), type : EventTypes]
Hello == [log : {NoTurn}, seq : {0}, type : {"active", "idle"}]
ViewerType == [conn : {"closed", "connecting", "open"}, streaming : BOOLEAN, lastSeq : 0..(Cap + 1),
               pipe : Seq(EventFrame \cup Hello), seen : Seq(EventFrame)]

(* The frames on their way, without the greeting, and all a client has or will see. *)
Frames(p) == IF p # <<>> /\ p[1] \in Hello THEN Tail(p) ELSE p
Shown(x) == x.seen \o Frames(x.pipe)

Uniform(c) == \A j \in 1..Len(c) : c[j].log = c[1].log

(* The frames of the turn that a stream began with are numbered from 1. *)
InOrder(c) == \A k \in 1..Len(c) : (\A j \in 1..k : c[j].log = c[1].log) => c[k].seq = k

(* Frames are those of turns that were started, and of the log what it has. *)
Published(c, l, tn) ==
    \A k \in 1..Len(c) : tn[c[k].log] # "new" /\ (c[k].log = l.turn => c[k].seq <= Len(l.events))

(* A stream that stayed with the log's turn ends where the log ends. *)
UpToDate(c, l) ==
    Uniform(c) => /\ Len(c) = 0 => l.events = <<>>
                  /\ Len(c) > 0 /\ c[1].log = l.turn => Len(c) = Len(l.events)

ViewerOK(x, l, tn) ==
    /\ x \in ViewerType /\ Frames(x.pipe) \in Seq(EventFrame)
    /\ x.conn # "open" => x.pipe = <<>>
    /\ Published(Shown(x), l, tn)
    /\ InOrder(Shown(x))
    /\ x.conn = "open" => UpToDate(Shown(x), l)
    /\ x.conn # "closed" /\ Uniform(x.seen) => x.lastSeq = Len(x.seen)

(* A greeting is none of the events. *)
LEMMA HelloApart == EventFrame \cap Hello = {}
<1> SUFFICES ASSUME NEW f \in EventFrame, f \in Hello PROVE FALSE
  OBVIOUS
<1>1. f.log \in Turns /\ f.log = NoTurn
  BY DEF EventFrame, Hello
<1> QED
  BY <1>1, TurnAssumption

(* Frames without a greeting are all of them. *)
LEMMA FramesPlain ==
    ASSUME NEW p \in Seq(EventFrame)
    PROVE  Frames(p) = p
<1>1. p # <<>> => p[1] \in EventFrame
  OBVIOUS
<1> QED
  BY <1>1, HelloApart DEF Frames

(* Frames sent after others come after them. *)
LEMMA FramesConcat ==
    ASSUME NEW p \in Seq(EventFrame \cup Hello), NEW d \in Seq(EventFrame), Frames(p) \in Seq(EventFrame)
    PROVE  Frames(p \o d) = Frames(p) \o d /\ p \o d \in Seq(EventFrame \cup Hello)
<1> DEFINE S == EventFrame \cup Hello
<1>1. d \in Seq(S)
  BY SeqMonotonic
<1>2. p \o d \in Seq(S)
  BY <1>1, ConcatProperties
<1>3. CASE p = <<>>
  <2>1. p \o d = d
    BY <1>1, <1>3, ConcatEmptySeq
  <2>2. Frames(p) = <<>>
    BY <1>3 DEF Frames
  <2> QED
    BY <1>2, <1>3, <2>1, <2>2, FramesPlain
<1>4. CASE p # <<>>
  <2>1. Len(p) \in Nat /\ Len(p) > 0 /\ Len(d) \in Nat
    BY <1>4, EmptySeq
  <2>2. Len(p \o d) = Len(p) + Len(d) /\ (p \o d)[1] = p[1]
    BY <1>1, <2>1, ConcatProperties
  <2>3. p \o d # <<>>
    BY <2>1, <2>2
  <2>4. CASE p[1] \in Hello
    <3>1. Frames(p) = Tail(p) /\ Frames(p \o d) = Tail(p \o d)
      BY <1>4, <2>2, <2>3, <2>4 DEF Frames
    <3>2. Tail(p \o d) = Tail(p) \o d
      <4>1. /\ Tail(p) \in Seq(S) /\ Len(Tail(p)) = Len(p) - 1
            /\ \A i \in 1..Len(Tail(p)) : Tail(p)[i] = p[i + 1]
        BY <1>4, HeadTailProperties
      <4>2. /\ Tail(p \o d) \in Seq(S) /\ Len(Tail(p \o d)) = Len(p) + Len(d) - 1
            /\ \A i \in 1..(Len(p) + Len(d) - 1) : Tail(p \o d)[i] = (p \o d)[i + 1]
        BY <1>2, <2>2, <2>3, HeadTailProperties
      <4>3. /\ Tail(p) \o d \in Seq(S) /\ Len(Tail(p) \o d) = Len(p) - 1 + Len(d)
            /\ \A i \in 1..(Len(p) - 1 + Len(d)) :
                  (Tail(p) \o d)[i] = IF i <= Len(p) - 1 THEN Tail(p)[i] ELSE d[i - (Len(p) - 1)]
        BY <1>1, <4>1, ConcatProperties
      <4>4. ASSUME NEW i \in 1..(Len(p) + Len(d) - 1)
            PROVE  Tail(p \o d)[i] = (Tail(p) \o d)[i]
        <5>1. i + 1 \in 1..(Len(p) + Len(d))
          BY <2>1
        <5>2. (p \o d)[i + 1] = IF i + 1 <= Len(p) THEN p[i + 1] ELSE d[i + 1 - Len(p)]
          BY <1>1, <5>1, ConcatProperties
        <5>3. CASE i <= Len(p) - 1
          <6>1. Tail(p)[i] = p[i + 1]
            BY <2>1, <4>1, <5>3
          <6> QED
            BY <2>1, <4>2, <4>3, <5>2, <5>3, <6>1
        <5>4. CASE ~(i <= Len(p) - 1)
          <6>1. i + 1 - Len(p) = i - (Len(p) - 1)
            BY <2>1
          <6> QED
            BY <2>1, <4>2, <4>3, <5>2, <5>4, <6>1
        <5> QED
          BY <5>3, <5>4
      <4>5. Len(Tail(p \o d)) = Len(Tail(p) \o d)
        BY <2>1, <4>2, <4>3
      <4> HIDE DEF S
      <4> QED
        BY <4>2, <4>3, <4>4, <4>5, SeqEqual
    <3> QED
      BY <1>2, <3>1, <3>2
  <2>5. CASE p[1] \notin Hello
    <3>1. Frames(p) = p /\ Frames(p \o d) = p \o d
      BY <2>2, <2>5 DEF Frames
    <3> QED
      BY <1>2, <3>1
  <2> QED
    BY <2>4, <2>5
<1> QED
  BY <1>3, <1>4

(* The replay: the log's frames after number a. *)
LEMMA BufferedFacts ==
    ASSUME NEW l, LogOK(l), NEW a \in Nat
    PROVE  LET d == BufferedSince(l, a) IN
           /\ d \in Seq(EventFrame)
           /\ Len(d) = IF Len(l.events) > a THEN Len(l.events) - a ELSE 0
           /\ \A k \in 1..Len(d) : d[k].log = l.turn /\ d[k].seq = a + k
<1> DEFINE n == IF Len(l.events) > a THEN Len(l.events) - a ELSE 0
           d == BufferedSince(l, a)
<1>0. l.events \in Seq(Event) /\ Len(l.events) \in Nat /\ Len(l.events) <= Cap + 1 /\ Cap \in Nat
  BY CapAssumption DEF LogOK, Logs
<1>1. n \in Nat
  BY <1>0
<1>2. d = [k \in 1..n |-> [log |-> l.turn, seq |-> a + k, type |-> l.events[a + k].type]]
  BY DEF BufferedSince
<1>3. ASSUME NEW k \in 1..n
      PROVE  [log |-> l.turn, seq |-> a + k, type |-> l.events[a + k].type] \in EventFrame
  <2>1. a + k \in 1..Len(l.events) /\ a + k \in 1..(Cap + 1)
    BY <1>0
  <2>2. l.events[a + k] \in Event
    BY <1>0, <2>1
  <2>3. l.events[a + k].type \in EventTypes
    BY <2>2 DEF Event, EventTypes
  <2>4. l.turn \in Turns
    <3>1. l.events # <<>>
      BY <1>0, <2>1
    <3> QED
      BY <3>1 DEF LogOK
  <2> QED
    BY <2>1, <2>3, <2>4 DEF EventFrame
<1> HIDE DEF n
<1>4. d \in [1..n -> EventFrame]
  BY <1>2, <1>3
<1>5. d \in Seq(EventFrame) /\ Len(d) = n
  BY <1>1, <1>4, SeqDef, LenProperties
<1>6. \A k \in 1..n : d[k].log = l.turn /\ d[k].seq = a + k
  BY <1>2
<1> QED
  BY <1>5, <1>6 DEF n

(* A chain extended by a log's frames a+1, a+2, ... is a chain: if it stayed with
   the log's turn, it ended at a. *)
LEMMA ExtendChain ==
    ASSUME NEW c \in Seq(EventFrame), NEW d \in Seq(EventFrame), InOrder(c), NEW T, NEW a \in Nat,
           \A k \in 1..Len(d) : d[k].log = T /\ d[k].seq = a + k,
           Len(d) > 0 /\ Uniform(c) /\ (Len(c) = 0 \/ c[1].log = T) => Len(c) = a
    PROVE  /\ InOrder(c \o d)
           /\ Len(d) > 0 /\ Uniform(c \o d) /\ (c \o d)[1].log = T => Len(c \o d) = a + Len(d)
<1> DEFINE e == c \o d
           n == Len(c)
<1>1. /\ e \in Seq(EventFrame) /\ Len(e) = n + Len(d) /\ n \in Nat /\ Len(d) \in Nat
      /\ \A i \in 1..(n + Len(d)) : e[i] = IF i <= n THEN c[i] ELSE d[i - n]
  BY ConcatProperties
<1> HIDE DEF e
<1>2. ASSUME NEW k \in 1..Len(e), k > n, \A j \in 1..k : e[j].log = e[1].log
      PROVE  n = a /\ e[k].seq = k
  <2>1. k - n \in 1..Len(d) /\ Len(d) > 0
    BY <1>1, <1>2
  <2>2. e[k] = d[k - n] /\ e[k].log = T /\ e[k].seq = a + (k - n)
    BY <1>1, <1>2, <2>1
  <2>3. e[1].log = T
    <3>1. k \in 1..k
      BY <1>1
    <3>2. e[k].log = e[1].log
      BY <1>2, <3>1
    <3> QED
      BY <2>2, <3>2
  <2>4. Uniform(c) /\ (n = 0 \/ c[1].log = T)
    <3>1. \A j \in 1..n : e[j] = c[j] /\ j \in 1..k
      BY <1>1, <1>2
    <3>2. n > 0 => e[1] = c[1]
      BY <1>1, <3>1
    <3> QED
      BY <1>1, <1>2, <2>3, <3>1, <3>2 DEF Uniform
  <2>5. n = a
    BY <2>1, <2>4
  <2> QED
    BY <1>1, <2>2, <2>5
<1>3. InOrder(e)
  <2> SUFFICES ASSUME NEW k \in 1..Len(e), \A j \in 1..k : e[j].log = e[1].log
               PROVE  e[k].seq = k
    BY DEF InOrder
  <2>1. CASE k <= n
    <3>1. \A j \in 1..k : e[j] = c[j] /\ k \in 1..n /\ 1 \in 1..k
      BY <1>1, <2>1
    <3>2. \A j \in 1..k : c[j].log = c[1].log
      BY <3>1
    <3> QED
      BY <1>1, <3>1, <3>2 DEF InOrder
  <2>2. CASE k > n
    BY <1>2, <2>2
  <2> QED
    BY <1>1, <2>1, <2>2
<1>4. ASSUME Len(d) > 0, Uniform(e), e[1].log = T
      PROVE  Len(e) = a + Len(d)
  <2>1. Len(e) \in 1..Len(e) /\ Len(e) > n
    BY <1>1, <1>4
  <2>2. \A j \in 1..Len(e) : e[j].log = e[1].log
    BY <1>4 DEF Uniform
  <2>3. n = a
    BY <1>2, <2>1, <2>2
  <2> QED
    BY <1>1, <2>3
<1> QED
  BY <1>3, <1>4 DEF e

(* What has been seen is in order if all that is shown is. *)
LEMMA PrefixFacts ==
    ASSUME NEW c \in Seq(EventFrame), NEW d \in Seq(EventFrame), NEW l, NEW tn,
           InOrder(c \o d), Published(c \o d, l, tn)
    PROVE  InOrder(c) /\ Published(c, l, tn)
<1> DEFINE e == c \o d
<1>1. /\ Len(e) = Len(c) + Len(d) /\ Len(c) \in Nat /\ Len(d) \in Nat
      /\ \A i \in 1..Len(c) : e[i] = c[i] /\ i \in 1..Len(e)
  BY ConcatProperties
<1> HIDE DEF e
<1>2. InOrder(e) /\ Published(e, l, tn)
  BY DEF e
<1>3. InOrder(c)
  <2> SUFFICES ASSUME NEW k \in 1..Len(c), \A j \in 1..k : c[j].log = c[1].log
               PROVE  c[k].seq = k
    BY DEF InOrder
  <2>1. \A j \in 1..k : e[j] = c[j] /\ 1 \in 1..k
    BY <1>1
  <2>2. \A j \in 1..k : e[j].log = e[1].log
    BY <2>1
  <2> QED
    BY <1>1, <1>2, <2>1, <2>2 DEF InOrder
<1>4. Published(c, l, tn)
  BY <1>1, <1>2 DEF Published
<1> QED
  BY <1>3, <1>4

(* Types of what a viewer shows. *)
LEMMA ShownType ==
    ASSUME NEW x, NEW l, NEW tn, ViewerOK(x, l, tn)
    PROVE  /\ x.seen \in Seq(EventFrame) /\ x.pipe \in Seq(EventFrame \cup Hello)
           /\ Frames(x.pipe) \in Seq(EventFrame) /\ Shown(x) \in Seq(EventFrame)
<1>1. x.seen \in Seq(EventFrame) /\ x.pipe \in Seq(EventFrame \cup Hello)
  BY DEF ViewerOK, ViewerType
<1>2. Frames(x.pipe) \in Seq(EventFrame)
  BY DEF ViewerOK
<1> QED
  BY <1>1, <1>2, ConcatProperties DEF Shown

LEMMA FramesAssociative ==
    \A s, t, u \in Seq(EventFrame) : s \o (t \o u) = (s \o t) \o u
<1> DEFINE Q == Seq(EventFrame)
<1>1. ASSUME NEW s \in Q, NEW t \in Q, NEW u \in Q
      PROVE  s \o (t \o u) = (s \o t) \o u
  BY ConcatAssociative
<1> QED
  BY <1>1, Zenon

(* Sending frames to a viewer. *)
LEMMA Sent ==
    ASSUME NEW x, NEW l, NEW tn, ViewerOK(x, l, tn), NEW d \in Seq(EventFrame)
    PROVE  LET y == [x EXCEPT !.pipe = @ \o d] IN
           /\ y \in ViewerType /\ Frames(y.pipe) \in Seq(EventFrame)
           /\ y.conn = x.conn /\ y.seen = x.seen /\ y.lastSeq = x.lastSeq
           /\ Shown(y) = Shown(x) \o d
<1> DEFINE p == x.pipe \o d
           y == [x EXCEPT !.pipe = p]
           F == Frames(x.pipe)
<1>1. /\ x.seen \in Seq(EventFrame) /\ x.pipe \in Seq(EventFrame \cup Hello) /\ F \in Seq(EventFrame)
  BY ShownType
<1>2. p \in Seq(EventFrame \cup Hello) /\ Frames(p) = F \o d
  BY <1>1, FramesConcat
<1> HIDE DEF p, F
<1>3. y \in ViewerType /\ y.conn = x.conn /\ y.seen = x.seen /\ y.lastSeq = x.lastSeq /\ y.pipe = p
  BY <1>2 DEF ViewerOK, ViewerType
<1>4. Frames(y.pipe) = F \o d /\ F \o d \in Seq(EventFrame)
  BY <1>1, <1>2, <1>3, ConcatProperties
<1>5. x.seen \o (F \o d) = (x.seen \o F) \o d
  BY <1>1, FramesAssociative, Zenon
<1> HIDE DEF y
<1>6. Shown(y) = Shown(x) \o d
  BY <1>3, <1>4, <1>5 DEF Shown, F
<1> QED
  BY <1>3, <1>4, <1>6 DEF y, p

(* A chain extended by a replay from where it ends, or by all that was published
   since, is a chain that ends where the log ends. *)
LEMMA Extended ==
    ASSUME NEW c \in Seq(EventFrame), NEW m, LogOK(m), NEW tm, NEW a \in Nat,
           Published(c, m, tm), InOrder(c), Len(m.events) > 0 => tm[m.turn] # "new",
           Uniform(c) /\ (Len(c) = 0 \/ c[1].log = m.turn) => Len(c) = a
    PROVE  LET e == c \o BufferedSince(m, a)
           IN  Published(e, m, tm) /\ InOrder(e) /\ UpToDate(e, m)
<1> DEFINE d == BufferedSince(m, a)
           e == c \o d
           n == Len(c)
           N == Len(m.events)
<1>1. /\ d \in Seq(EventFrame)
      /\ Len(d) = IF N > a THEN N - a ELSE 0
      /\ \A k \in 1..Len(d) : d[k].log = m.turn /\ d[k].seq = a + k
  BY BufferedFacts
<1>2. N \in Nat /\ (N = 0 => m.events = <<>>)
  BY EmptySeq DEF LogOK, Logs
<1> HIDE DEF d, N
<1>3. /\ Len(e) = n + Len(d) /\ n \in Nat /\ Len(d) \in Nat
      /\ \A i \in 1..(n + Len(d)) : e[i] = IF i <= n THEN c[i] ELSE d[i - n]
  BY <1>1, ConcatProperties
<1>4. /\ InOrder(e)
      /\ Len(d) > 0 /\ Uniform(e) /\ e[1].log = m.turn => Len(e) = a + Len(d)
  BY <1>1, ExtendChain
<1> HIDE DEF e
<1>5. Published(e, m, tm)
  <2> SUFFICES ASSUME NEW k \in 1..Len(e)
               PROVE  tm[e[k].log] # "new" /\ (e[k].log = m.turn => e[k].seq <= N)
    BY DEF Published, N
  <2>1. CASE k <= n
    <3>1. k \in 1..n /\ e[k] = c[k]
      BY <1>3, <2>1
    <3> QED
      BY <3>1 DEF Published, N
  <2>2. CASE ~(k <= n)
    <3>1. k - n \in 1..Len(d) /\ e[k] = d[k - n]
      BY <1>3, <2>2
    <3>2. e[k].log = m.turn /\ e[k].seq = a + (k - n)
      BY <1>1, <3>1
    <3>3. N > a /\ Len(d) = N - a
      BY <1>1, <1>3, <3>1
    <3> QED
      BY <1>2, <1>3, <3>1, <3>2, <3>3 DEF N
  <2> QED
    BY <2>1, <2>2
<1>6. UpToDate(e, m)
  <2> SUFFICES ASSUME Uniform(e)
               PROVE  /\ Len(e) = 0 => N = 0
                      /\ Len(e) > 0 /\ e[1].log = m.turn => Len(e) = N
    BY <1>2 DEF UpToDate, N
  <2>1. CASE Len(d) > 0
    <3>1. Len(d) = N - a /\ Len(e) > 0
      BY <1>1, <1>3, <2>1
    <3>2. e[1].log = m.turn => Len(e) = a + Len(d)
      BY <1>4, <2>1
    <3> QED
      BY <1>2, <1>3, <3>1, <3>2
  <2>2. CASE Len(d) = 0
    <3>1. Len(e) = n /\ \A i \in 1..n : e[i] = c[i] /\ 1 \in 1..n
      BY <1>3, <2>2
    <3>2. Uniform(c)
      BY <2>2, <3>1 DEF Uniform
    <3>3. N <= a
      BY <1>1, <1>2, <2>2
    <3>4. CASE n = 0
      BY <1>2, <3>1, <3>2, <3>3, <3>4
    <3>5. CASE n > 0 /\ c[1].log = m.turn
      <4>1. n = a /\ n \in 1..n /\ \A j \in 1..n : c[j].log = c[1].log
        BY <1>3, <3>2, <3>5 DEF Uniform
      <4>2. c[n].seq = n /\ c[n].log = m.turn
        BY <3>5, <4>1 DEF InOrder
      <4>3. n <= N
        BY <4>1, <4>2 DEF Published, N
      <4> QED
        BY <1>2, <1>3, <3>1, <3>3, <3>5, <4>1, <4>3
    <3>6. CASE n > 0 /\ c[1].log # m.turn
      BY <1>3, <3>1, <3>6
    <3> QED
      BY <1>3, <3>4, <3>5, <3>6
  <2> QED
    BY <1>3, <2>1, <2>2
<1> QED
  BY <1>4, <1>5, <1>6 DEF e, d

(* What is published goes to an open viewer; one that is not has been shown
   nothing of a new log, and no more than the log has. *)
LEMMA LogStep ==
    ASSUME NEW x, NEW l, NEW tn, NEW m, NEW tm, NEW a \in Nat, ViewerOK(x, l, tn), LogOK(m),
           \A t \in Turns : tn[t] # "new" => tm[t] # "new",
           Len(m.events) > 0 => tm[m.turn] # "new",
           \/ m.turn = l.turn /\ a = Len(l.events) /\ a <= Len(m.events)
           \/ tn[m.turn] = "new" /\ a = 0
    PROVE  ViewerOK(IF x.conn = "open" THEN [x EXCEPT !.pipe = @ \o BufferedSince(m, a)] ELSE x, m, tm)
<1> DEFINE c == Shown(x)
           d == BufferedSince(m, a)
<1>1. c \in Seq(EventFrame) /\ d \in Seq(EventFrame)
  BY ShownType, BufferedFacts
<1>2. Len(m.events) \in Nat
  BY DEF LogOK, Logs
<1>3. Published(c, l, tn) /\ InOrder(c)
  BY DEF ViewerOK
<1>4. x.conn = "open" => UpToDate(c, l)
  BY DEF ViewerOK
<1> HIDE DEF c, d
<1>5. \A k \in 1..Len(c) : c[k].log \in Turns /\ c[k].seq \in Nat /\ tn[c[k].log] # "new"
  <2>1. \A k \in 1..Len(c) : c[k] \in EventFrame
    BY <1>1
  <2> QED
    BY <1>3, <2>1, CapAssumption DEF EventFrame, Published
<1>6. Published(c, m, tm)
  <2> SUFFICES ASSUME NEW k \in 1..Len(c)
               PROVE  tm[c[k].log] # "new" /\ (c[k].log = m.turn => c[k].seq <= Len(m.events))
    BY DEF Published
  <2>1. tm[c[k].log] # "new"
    BY <1>5
  <2>2. CASE m.turn = l.turn /\ a = Len(l.events) /\ a <= Len(m.events)
    <3>1. c[k].log = m.turn => c[k].seq <= a
      BY <1>3, <2>2 DEF Published
    <3> QED
      BY <1>2, <1>5, <2>1, <2>2, <3>1
  <2>3. CASE tn[m.turn] = "new"
    BY <1>5, <2>1, <2>3
  <2> QED
    BY <2>2, <2>3
<1>7. CASE x.conn # "open"
  BY <1>3, <1>6, <1>7 DEF ViewerOK, c
<1>8. CASE x.conn = "open"
  <2> DEFINE y == [x EXCEPT !.pipe = @ \o d]
  <2>1. /\ y \in ViewerType /\ Frames(y.pipe) \in Seq(EventFrame)
        /\ y.conn = x.conn /\ y.seen = x.seen /\ y.lastSeq = x.lastSeq
        /\ Shown(y) = c \o d
    BY <1>1, Sent DEF c
  <2> HIDE DEF y
  <2>2. ASSUME Uniform(c), Len(c) = 0 \/ c[1].log = m.turn
        PROVE  Len(c) = a
    <3>0. Len(c) \in Nat
      BY <1>1
    <3>1. CASE m.turn = l.turn /\ a = Len(l.events)
      <4>1. Len(c) = 0 => a = 0
        BY <1>4, <1>8, <2>2, <3>1, EmptySeq DEF UpToDate
      <4> QED
        BY <1>4, <1>8, <2>2, <3>0, <3>1, <4>1 DEF UpToDate
    <3>2. CASE tn[m.turn] = "new" /\ a = 0
      BY <1>5, <2>2, <3>0, <3>2
    <3> QED
      BY <3>1, <3>2
  <2>3. Published(c \o d, m, tm) /\ InOrder(c \o d) /\ UpToDate(c \o d, m)
    BY <1>1, <1>3, <1>6, <2>2, Extended DEF d
  <2>4. ViewerOK(y, m, tm)
    BY <1>8, <2>1, <2>3 DEF ViewerOK
  <2> QED
    BY <1>8, <2>4 DEF y, d
<1> QED
  BY <1>7, <1>8

(* A viewer that has no frame on its way. *)
LEMMA NoFrames ==
    ASSUME NEW x, x.pipe = <<>>, x.seen \in Seq(EventFrame)
    PROVE  Frames(x.pipe) = <<>> /\ <<>> \in Seq(EventFrame) /\ Shown(x) = x.seen
<1>1. Frames(x.pipe) = <<>> /\ <<>> \in Seq(EventFrame)
  BY DEF Frames
<1> QED
  BY <1>1, ConcatEmptySeq DEF Shown

(* A client that is closed, or begins a stream, has seen nothing of it. *)
LEMMA Beginning ==
    ASSUME NEW l, NEW tn
    PROVE  /\ ViewerOK(Away, l, tn)
           /\ ViewerOK([Away EXCEPT !.conn = "connecting", !.streaming = TRUE], l, tn)
<1>1. ASSUME NEW x \in ViewerType, x.conn # "open", x.pipe = <<>>, x.seen = <<>>, x.lastSeq = 0
      PROVE  ViewerOK(x, l, tn)
  <2>1. <<>> \in Seq(EventFrame)
    OBVIOUS
  <2>2. Frames(x.pipe) = <<>> /\ Shown(x) = <<>>
    BY <1>1, <2>1, NoFrames
  <2>3. Published(<<>>, l, tn) /\ InOrder(<<>>) /\ Len(<<>>) = 0
    BY DEF Published, InOrder
  <2> QED
    BY <1>1, <2>1, <2>2, <2>3 DEF ViewerOK
<1>2. /\ Away \in ViewerType /\ Away.conn = "closed"
      /\ Away.pipe = <<>> /\ Away.seen = <<>> /\ Away.lastSeq = 0
  BY CapAssumption DEF Away, ViewerType
<1> DEFINE w == [Away EXCEPT !.conn = "connecting", !.streaming = TRUE]
<1>3. w \in ViewerType /\ w.conn = "connecting" /\ w.pipe = <<>> /\ w.seen = <<>> /\ w.lastSeq = 0
  BY <1>2 DEF ViewerType
<1> HIDE DEF w
<1>4. ViewerOK(Away, l, tn)
  BY <1>1, <1>2
<1>5. ViewerOK(w, l, tn)
  BY <1>1, <1>3
<1> QED
  BY <1>4, <1>5 DEF w

(* The connection breaks: what was seen stays. *)
LEMMA Disconnected ==
    ASSUME NEW x, NEW l, NEW tn, ViewerOK(x, l, tn)
    PROVE  ViewerOK(Reconnecting(x), l, tn)
<1> SUFFICES ASSUME x.conn = "open"
             PROVE  ViewerOK([x EXCEPT !.conn = "connecting", !.pipe = <<>>], l, tn)
  BY DEF Reconnecting
<1> DEFINE y == [x EXCEPT !.conn = "connecting", !.pipe = <<>>]
<1>1. /\ y \in ViewerType /\ y.conn = "connecting" /\ y.pipe = <<>>
      /\ y.seen = x.seen /\ y.lastSeq = x.lastSeq
  <2>1. <<>> \in Seq(EventFrame \cup Hello)
    OBVIOUS
  <2> QED
    BY <2>1 DEF ViewerOK, ViewerType
<1>2. x.seen \in Seq(EventFrame) /\ Frames(x.pipe) \in Seq(EventFrame)
  BY ShownType
<1>3. InOrder(x.seen) /\ Published(x.seen, l, tn)
  BY <1>2, PrefixFacts DEF ViewerOK, Shown
<1> HIDE DEF y
<1>4. Frames(y.pipe) = <<>> /\ <<>> \in Seq(EventFrame) /\ Shown(y) = x.seen
  BY <1>1, <1>2, NoFrames
<1>5. ViewerOK(y, l, tn)
  BY <1>1, <1>3, <1>4 DEF ViewerOK
<1> QED
  BY <1>5 DEF y

(* A replay after the last sequence number: what was seen of the log's turn goes
   on where it was broken off. *)
LEMMA Resumed ==
    ASSUME NEW x, NEW l, NEW tn, ViewerOK(x, l, tn), x.conn = "connecting", LogOK(l),
           Len(l.events) > 0 => tn[l.turn] # "new", NEW h \in Hello
    PROVE  ViewerOK([x EXCEPT !.conn = "open", !.pipe = <<h>> \o BufferedSince(l, x.lastSeq)], l, tn)
<1> DEFINE d == BufferedSince(l, x.lastSeq)
           p == <<h>> \o d
           y == [x EXCEPT !.conn = "open", !.pipe = p]
<1>1. /\ x.lastSeq \in Nat /\ x.seen \in Seq(EventFrame) /\ x.pipe = <<>>
      /\ Uniform(x.seen) => x.lastSeq = Len(x.seen)
  BY CapAssumption DEF ViewerOK, ViewerType
<1>2. d \in Seq(EventFrame)
  BY <1>1, BufferedFacts
<1> HIDE DEF d
<1>3. p \in Seq(EventFrame \cup Hello) /\ Frames(p) = d
  <2> DEFINE s == <<h>>
  <2>1. s \in Seq(EventFrame \cup Hello) /\ s # <<>> /\ s[1] \in Hello /\ Tail(s) = <<>>
    OBVIOUS
  <2> HIDE DEF s
  <2>2. Frames(s) = <<>> /\ <<>> \in Seq(EventFrame)
    BY <2>1 DEF Frames
  <2>3. Frames(s \o d) = Frames(s) \o d /\ s \o d \in Seq(EventFrame \cup Hello)
    BY <1>2, <2>1, <2>2, FramesConcat
  <2>4. <<>> \o d = d
    BY <1>2, ConcatEmptySeq
  <2> QED
    BY <2>2, <2>3, <2>4 DEF s
<1> HIDE DEF p
<1>4. /\ y \in ViewerType /\ y.conn = "open" /\ y.pipe = p /\ y.seen = x.seen /\ y.lastSeq = x.lastSeq
  BY <1>3 DEF ViewerOK, ViewerType
<1> HIDE DEF y
<1>5. Shown(y) = x.seen \o d
  BY <1>3, <1>4 DEF Shown
<1>6. Shown(x) = x.seen
  BY <1>1, NoFrames
<1>7. Published(x.seen, l, tn) /\ InOrder(x.seen)
  BY <1>6 DEF ViewerOK
<1>8. Published(x.seen \o d, l, tn) /\ InOrder(x.seen \o d) /\ UpToDate(x.seen \o d, l)
  BY <1>1, <1>7, Extended DEF d
<1>9. ViewerOK(y, l, tn)
  BY <1>1, <1>2, <1>3, <1>4, <1>5, <1>8 DEF ViewerOK
<1> QED
  BY <1>9 DEF y, p, d

(* Reading a frame moves it from what is on its way to what was seen. *)
LEMMA HeadRead ==
    ASSUME NEW p \in Seq(EventFrame \cup Hello), p # <<>>, Frames(p) \in Seq(EventFrame)
    PROVE  /\ Tail(p) \in Seq(EventFrame) /\ Frames(Tail(p)) = Tail(p)
           /\ Head(p) \in Hello => Frames(p) = Tail(p)
           /\ Head(p) \notin Hello =>
                /\ Head(p) \in EventFrame
                /\ \A s \in Seq(EventFrame) : Append(s, Head(p)) \o Tail(p) = s \o Frames(p)
<1> DEFINE f == Head(p)
           q == Tail(p)
<1>1. f = p[1] /\ f \in EventFrame \cup Hello
  BY HeadTailProperties
<1>2. CASE f \in Hello
  <2>1. Frames(p) = q
    BY <1>1, <1>2 DEF Frames
  <2> QED
    BY <1>2, <2>1, FramesPlain
<1>3. CASE f \notin Hello
  <2>1. Frames(p) = p
    BY <1>1, <1>3 DEF Frames
  <2>2. p \in Seq(EventFrame) /\ f \in EventFrame
    BY <1>1, <1>3, <2>1
  <2>3. q \in Seq(EventFrame) /\ Len(q) = Len(p) - 1 /\ \A i \in 1..Len(q) : q[i] = p[i + 1]
    BY <2>2, HeadTailProperties
  <2>4. Len(p) \in Nat /\ Len(p) > 0
    BY <2>2, EmptySeq
  <2> HIDE DEF f, q
  <2>5. ASSUME NEW s \in Seq(EventFrame)
        PROVE  Append(s, f) \o q = s \o p
    <3> DEFINE t == Append(s, f)
    <3>1. /\ t \in Seq(EventFrame) /\ Len(t) = Len(s) + 1 /\ Len(s) \in Nat
          /\ \A i \in 1..Len(s) : t[i] = s[i]
          /\ t[Len(s) + 1] = f
      BY <2>2, AppendProperties
    <3> HIDE DEF t
    <3>2. /\ t \o q \in Seq(EventFrame) /\ Len(t \o q) = Len(s) + Len(p)
          /\ \A i \in 1..(Len(s) + Len(p)) :
                (t \o q)[i] = IF i <= Len(s) + 1 THEN t[i] ELSE q[i - (Len(s) + 1)]
      <4>1. Len(t) + Len(q) = Len(s) + Len(p)
        BY <2>3, <2>4, <3>1
      <4>2. /\ t \o q \in Seq(EventFrame) /\ Len(t \o q) = Len(t) + Len(q)
            /\ \A i \in 1..(Len(t) + Len(q)) : (t \o q)[i] = IF i <= Len(t) THEN t[i] ELSE q[i - Len(t)]
        BY <2>3, <3>1, ConcatProperties
      <4>3. Len(t) = Len(s) + 1
        BY <3>1
      <4> QED
        BY <4>1, <4>2, <4>3, Zenon
    <3>3. /\ s \o p \in Seq(EventFrame) /\ Len(s \o p) = Len(s) + Len(p)
          /\ \A i \in 1..(Len(s) + Len(p)) : (s \o p)[i] = IF i <= Len(s) THEN s[i] ELSE p[i - Len(s)]
      BY <2>2, ConcatProperties
    <3>4. ASSUME NEW i \in 1..(Len(s) + Len(p))
          PROVE  (t \o q)[i] = (s \o p)[i]
      <4>1. CASE i <= Len(s)
        BY <2>4, <3>1, <3>2, <3>3, <4>1
      <4>2. CASE i = Len(s) + 1
        <5>1. i - Len(s) = 1 /\ ~(i <= Len(s)) /\ i <= Len(s) + 1
          BY <3>1, <4>2
        <5>2. (t \o q)[i] = t[i] /\ (s \o p)[i] = p[1]
          BY <3>2, <3>3, <5>1
        <5> QED
          BY <1>1, <3>1, <4>2, <5>2 DEF f
      <4>3. CASE i > Len(s) + 1
        <5>1. /\ i - (Len(s) + 1) \in 1..Len(q) /\ i - (Len(s) + 1) + 1 = i - Len(s)
              /\ ~(i <= Len(s)) /\ ~(i <= Len(s) + 1)
          BY <2>3, <2>4, <3>1, <4>3
        <5>2. q[i - (Len(s) + 1)] = p[i - Len(s)]
          BY <2>3, <5>1
        <5> QED
          BY <3>2, <3>3, <5>1, <5>2
      <4> QED
        <5>1. i <= Len(s) \/ i = Len(s) + 1 \/ i > Len(s) + 1
          BY <2>4, <3>1
        <5> QED
          BY <4>1, <4>2, <4>3, <5>1, Zenon
    <3>5. t \o q = s \o p
      BY <3>2, <3>3, <3>4, SeqEqual
    <3> QED
      BY <3>5 DEF t
  <2> QED
    BY <1>3, <2>1, <2>2, <2>3, <2>5, FramesPlain DEF f, q
<1> QED
  BY <1>2, <1>3

(* emitFrame(): the last sequence number follows what was seen. *)
LEMMA Received ==
    ASSUME NEW x, NEW l, NEW tn, ViewerOK(x, l, tn), x.pipe # <<>>
    PROVE  LET f == Head(x.pipe)
               y == [x EXCEPT !.pipe = Tail(@)]
           IN  ViewerOK(CASE f.type = "active" -> y
                          [] f.type = "idle" -> [y EXCEPT !.streaming = FALSE]
                          [] f.type \in Terminal -> [Away EXCEPT !.seen = Append(y.seen, f)]
                          [] OTHER -> [y EXCEPT !.streaming = @ \/ f.type = "user.message",
                                                !.seen = Append(@, f),
                                                !.lastSeq = IF f.seq > @ THEN f.seq ELSE @],
                        l, tn)
<1> DEFINE f == Head(x.pipe)
           q == Tail(x.pipe)
           y == [x EXCEPT !.pipe = q]
           s == Append(x.seen, f)
           z == [Away EXCEPT !.seen = Append(y.seen, f)]
           w == [y EXCEPT !.streaming = @ \/ f.type = "user.message",
                          !.seen = Append(@, f), !.lastSeq = IF f.seq > @ THEN f.seq ELSE @]
<1>1. /\ x.seen \in Seq(EventFrame) /\ x.pipe \in Seq(EventFrame \cup Hello)
      /\ Frames(x.pipe) \in Seq(EventFrame) /\ Shown(x) \in Seq(EventFrame) /\ x \in ViewerType
  BY ShownType DEF ViewerOK
<1>2. x.conn = "open"
  BY DEF ViewerOK
<1>3. /\ q \in Seq(EventFrame) /\ Frames(q) = q
      /\ f \in Hello => Frames(x.pipe) = q
      /\ f \notin Hello => f \in EventFrame /\ s \o q = x.seen \o Frames(x.pipe)
  BY <1>1, HeadRead
<1>4. q \in Seq(EventFrame \cup Hello)
  BY <1>3, SeqMonotonic
<1>5. f \in EventFrame \cup Hello
  BY <1>3
<1>6. (f \in Hello <=> f.type \in {"active", "idle"}) /\ f.type \notin Terminal \cap {"active", "idle"}
  BY <1>5, HelloApart DEF EventFrame, Hello, EventTypes, Terminal
<1> HIDE DEF f, q
<1>7. /\ y \in ViewerType /\ y.conn = "open" /\ y.pipe = q /\ y.seen = x.seen /\ y.lastSeq = x.lastSeq
  BY <1>1, <1>2, <1>4 DEF ViewerType
<1> HIDE DEF y
<1>8. CASE f \in Hello
  <2>1. ASSUME NEW u \in ViewerType, u.conn = "open", u.pipe = q, u.seen = x.seen, u.lastSeq = x.lastSeq
        PROVE  ViewerOK(u, l, tn)
    <3>1. Shown(u) = Shown(x) /\ Frames(u.pipe) = q
      BY <1>3, <1>8, <2>1 DEF Shown
    <3> QED
      BY <1>2, <1>3, <2>1, <3>1 DEF ViewerOK
  <2> DEFINE i == [y EXCEPT !.streaming = FALSE]
  <2>2. i \in ViewerType /\ i.conn = "open" /\ i.pipe = q /\ i.seen = x.seen /\ i.lastSeq = x.lastSeq
    BY <1>7 DEF ViewerType
  <2> HIDE DEF i
  <2>3. ViewerOK(y, l, tn) /\ ViewerOK(i, l, tn)
    BY <1>7, <2>1, <2>2
  <2> QED
    BY <1>6, <1>8, <2>3 DEF f, q, y, i
<1>9. CASE f \notin Hello
  <2>1. f \in EventFrame /\ s \o q = Shown(x) /\ f.seq \in 1..(Cap + 1)
    BY <1>3, <1>9 DEF Shown, EventFrame
  <2>2. /\ s \in Seq(EventFrame) /\ Len(s) = Len(x.seen) + 1 /\ Len(x.seen) \in Nat
        /\ \A i \in 1..Len(x.seen) : s[i] = x.seen[i]
        /\ s[Len(x.seen) + 1] = f
    BY <1>1, <2>1, AppendProperties
  <2> HIDE DEF s
  <2>3. InOrder(s) /\ Published(s, l, tn)
    <3>1. InOrder(s \o q) /\ Published(s \o q, l, tn)
      BY <2>1 DEF ViewerOK
    <3> QED
      BY <1>3, <2>2, <3>1, PrefixFacts
  <2>4. CASE f.type \in Terminal
    <3>1. <<>> \in Seq(EventFrame \cup Hello) /\ 0 \in 0..(Cap + 1)
      BY CapAssumption
    <3>2. z = [Away EXCEPT !.seen = s]
      BY <1>7 DEF s
    <3>3. z \in ViewerType /\ z.conn = "closed" /\ z.pipe = <<>> /\ z.seen = s
      BY <2>2, <3>1, <3>2 DEF Away, ViewerType
    <3> HIDE DEF z
    <3>4. Frames(z.pipe) = <<>> /\ <<>> \in Seq(EventFrame) /\ Shown(z) = s
      BY <2>2, <3>3, NoFrames
    <3>5. ViewerOK(z, l, tn)
      BY <2>3, <3>3, <3>4 DEF ViewerOK
    <3> QED
      BY <1>6, <1>9, <2>4, <3>5 DEF f, q, y, z
  <2>5. CASE f.type \notin Terminal
    <3> DEFINE n == IF f.seq > x.lastSeq THEN f.seq ELSE x.lastSeq
    <3>1. n \in 0..(Cap + 1) /\ x.lastSeq \in Nat
      BY <1>1, <2>1, CapAssumption DEF ViewerType
    <3> DEFINE b == y.streaming \/ f.type = "user.message"
    <3>b. b \in BOOLEAN
      OBVIOUS
    <3>2. w = [y EXCEPT !.streaming = b, !.seen = s, !.lastSeq = n]
      BY <1>7 DEF s, ViewerType
    <3> HIDE DEF b
    <3> HIDE DEF n
    <3>3. w \in ViewerType /\ w.conn = "open" /\ w.pipe = q /\ w.seen = s /\ w.lastSeq = n
      BY <1>7, <2>2, <3>1, <3>b, <3>2 DEF ViewerType
    <3> HIDE DEF w
    <3>4. Frames(w.pipe) = q /\ Shown(w) = Shown(x)
      BY <1>3, <2>1, <3>3 DEF Shown
    <3>5. ASSUME Uniform(s) PROVE n = Len(s)
      <4>1. Uniform(x.seen)
        <5>1. \A j \in 1..Len(x.seen) : j \in 1..Len(s) /\ s[j] = x.seen[j] /\ s[1] = x.seen[1]
          BY <2>2
        <5> QED
          BY <3>5, <5>1 DEF Uniform
      <4>2. x.lastSeq = Len(x.seen)
        BY <1>2, <4>1 DEF ViewerOK
      <4>3. Len(s) \in 1..Len(s) /\ \A j \in 1..Len(s) : s[j].log = s[1].log
        BY <2>2, <3>5 DEF Uniform
      <4>4. s[Len(s)].seq = Len(s) /\ s[Len(s)] = f
        BY <2>2, <2>3, <4>3 DEF InOrder
      <4> QED
        BY <2>2, <4>2, <4>4 DEF n
    <3>6. ViewerOK(w, l, tn)
      BY <1>2, <1>3, <3>3, <3>4, <3>5 DEF ViewerOK
    <3> QED
      BY <1>6, <1>9, <2>5, <3>6 DEF f, q, y, w
  <2> QED
    BY <2>4, <2>5
<1> QED
  BY <1>8, <1>9

-----------------------------------------------------------------------------
(* The whole stream *)

ViewersOK(vw, l, tn) ==
    /\ vw = [v \in Viewers |-> vw[v]]
    /\ \A v \in Viewers : ViewerOK(vw[v], l, tn)

StreamInv == LogInv /\ ViewersOK(viewer, log, turn)

(* A log with events is that of a turn that was started. *)
LEMMA LogTurn ==
    ASSUME LogInv
    PROVE  LogOK(log) /\ Len(log.events) \in Nat /\ (Len(log.events) > 0 => turn[log.turn] # "new")
<1>1. LogOK(log) /\ Len(log.events) \in Nat
  BY DEF LogInv, LogOK, Logs
<1>2. Len(log.events) > 0 => log.status # "none"
  BY <1>1 DEF LogOK
<1> QED
  BY <1>1, <1>2 DEF LogInv, TurnsOK

(* Calls to the bus, by whichever turn. *)
LEMMA FanOutViewers ==
    ASSUME StreamInv, LogInv', NEW a \in Nat, NEW b, a = Len(b.events), FanOut(b, log'),
           \A t \in Turns : turn[t] # "new" => turn'[t] # "new",
           \/ log'.turn = log.turn /\ a = Len(log.events) /\ a <= Len(log'.events)
           \/ turn[log'.turn] = "new" /\ a = 0
    PROVE  ViewersOK(viewer', log', turn')
<1>1. LogOK(log') /\ (Len(log'.events) > 0 => turn'[log'.turn] # "new")
  <2>1. LogOK(log)' /\ (log'.status # "none" => turn'[log'.turn] # "new")
    BY DEF LogInv, TurnsOK
  <2>2. LogOK(log')
    BY <2>1 DEF LogOK
  <2>3. Len(log'.events) > 0 => log'.status # "none"
    BY <2>2 DEF LogOK
  <2> QED
    BY <2>1, <2>2, <2>3
<1>2. viewer' = [v \in Viewers |->
                   IF viewer[v].conn = "open"
                   THEN [viewer[v] EXCEPT !.pipe = @ \o BufferedSince(log', a)] ELSE viewer[v]]
  BY DEF FanOut
<1>3. ASSUME NEW v \in Viewers
      PROVE  ViewerOK(viewer'[v], log', turn')
  <2> DEFINE y == IF viewer[v].conn = "open"
                  THEN [viewer[v] EXCEPT !.pipe = @ \o BufferedSince(log', a)] ELSE viewer[v]
  <2>1. ViewerOK(viewer[v], log, turn)
    BY DEF StreamInv, ViewersOK
  <2>2. ViewerOK(y, log', turn')
    BY <1>1, <2>1, LogStep
  <2>3. viewer'[v] = y
    BY <1>2
  <2> QED
    BY <2>2, <2>3
<1>4. viewer' = [v \in Viewers |-> viewer'[v]]
  BY <1>2
<1> QED
  BY <1>3, <1>4 DEF ViewersOK

(* A turn begins: its log is new to every viewer. *)
LEMMA StartTurnViewers ==
    ASSUME StreamInv, LogInv', NEW t \in Turns, StartTurn(t)
    PROVE  ViewersOK(viewer', log', turn')
<1> DEFINE fresh == [turn |-> t, events |-> <<>>, status |-> "running"]
           begun == Publish(fresh, "user.message", t)
           refused == End(Publish(begun, "error", t), "error")
<1>1. /\ turn[t] = "new" /\ FanOut(fresh, log') /\ log' = IF active THEN refused ELSE begun
      /\ turn' = [turn EXCEPT ![t] = IF active THEN "settled" ELSE "running"]
  BY DEF StartTurn
<1>2. begun.turn = t /\ refused.turn = t
  BY FreshLog
<1>3. Len(fresh.events) = 0
  OBVIOUS
<1> HIDE DEF begun, refused, fresh
<1>4. \A u \in Turns : turn[u] # "new" => turn'[u] # "new"
  BY <1>1 DEF StreamInv, LogInv, TurnsOK
<1>5. log'.turn = t
  BY <1>1, <1>2
<1>6. turn[log'.turn] = "new" /\ 0 \in Nat /\ 0 = Len(fresh.events)
  BY <1>1, <1>3, <1>5
<1> QED
  BY <1>1, <1>4, <1>6, FanOutViewers, Zenon

(* The turn that is alive, a Stop or the end of the turn extends the log. *)
LEMMA BusCallViewers ==
    ASSUME StreamInv, LogInv', NEW t, Extends(log, log', t), FanOut(log, log'),
           \A u \in Turns : turn[u] # "new" => turn'[u] # "new"
    PROVE  ViewersOK(viewer', log', turn')
<1>1. Len(log.events) \in Nat
  BY LogTurn DEF StreamInv
<1>2. log'.turn = log.turn /\ Len(log.events) <= Len(log'.events)
  BY <1>1 DEF Extends
<1> QED
  BY <1>1, <1>2, FanOutViewers

LEMMA EmitViewers ==
    ASSUME StreamInv, LogInv', NEW t \in Turns, Emit(t)
    PROVE  ViewersOK(viewer', log', turn')
<1>1. /\ log' = Publish(log, "delta", t) /\ FanOut(log, log')
      /\ turn' = turn \/ turn' = [turn EXCEPT ![log.turn] = "unwinding"]
  BY DEF Emit
<1>2. Extends(log, log', t)
  BY <1>1, PublishExtends DEF StreamInv, LogInv
<1>3. \A u \in Turns : turn[u] # "new" => turn'[u] # "new"
  BY <1>1 DEF StreamInv, LogInv, TurnsOK
<1> QED
  BY <1>1, <1>2, <1>3, BusCallViewers

LEMMA SettleViewers ==
    ASSUME StreamInv, LogInv', NEW t \in Turns, NEW outcome \in Terminal, Settle(t, outcome)
    PROVE  ViewersOK(viewer', log', turn')
<1>1. /\ log' = End(Publish(log, outcome, t), outcome) /\ FanOut(log, log')
      /\ turn' = [turn EXCEPT ![t] = "settled"]
  BY DEF Settle
<1>2. Extends(log, log', t)
  BY <1>1, ClosingExtends DEF StreamInv, LogInv
<1>3. \A u \in Turns : turn[u] # "new" => turn'[u] # "new"
  BY <1>1 DEF StreamInv, LogInv, TurnsOK
<1> QED
  BY <1>1, <1>2, <1>3, BusCallViewers

LEMMA CancelViewers ==
    ASSUME StreamInv, LogInv', CancelTurn
    PROVE  ViewersOK(viewer', log', turn')
<1>1. /\ log' = End(Publish(log, "cancelled", log.turn), "cancelled") /\ FanOut(log, log')
      /\ turn' = [turn EXCEPT ![log.turn] = "unwinding"] /\ log.status = "running"
  BY DEF CancelTurn, Stopped
<1>2. log.turn \in Turns /\ "cancelled" \in Terminal
  BY <1>1 DEF StreamInv, LogInv, LogOK, Terminal
<1>3. Extends(log, log', log.turn)
  BY <1>1, <1>2, ClosingExtends DEF StreamInv, LogInv
<1>4. \A u \in Turns : turn[u] # "new" => turn'[u] # "new"
  BY <1>1 DEF StreamInv, LogInv, TurnsOK
<1> QED
  BY <1>1, <1>3, <1>4, BusCallViewers

(* No viewer is ahead of a log that is gone. *)
LEMMA LogGone ==
    ASSUME NEW x, NEW l, NEW tn, NEW tm, ViewerOK(x, l, tn),
           \A t \in Turns : tn[t] # "new" => tm[t] # "new"
    PROVE  ViewerOK(x, NoLog, tm)
<1> DEFINE c == Shown(x)
<1>1. c \in Seq(EventFrame)
  BY ShownType
<1>2. Published(c, l, tn)
  BY DEF ViewerOK
<1> HIDE DEF c
<1>3. \A k \in 1..Len(c) : c[k] \in EventFrame
  BY <1>1
<1>4. \A k \in 1..Len(c) : c[k].log # NoTurn /\ c[k].log \in Turns
  BY <1>3, TurnAssumption DEF EventFrame
<1>5. NoLog.turn = NoTurn /\ NoLog.events = <<>>
  BY DEF NoLog
<1>6. Published(c, NoLog, tm)
  BY <1>2, <1>4, <1>5 DEF Published
<1>7. UpToDate(c, NoLog)
  <2>1. Len(c) > 0 => 1 \in 1..Len(c)
    BY <1>1
  <2> QED
    BY <1>4, <1>5, <2>1 DEF UpToDate
<1> QED
  BY <1>6, <1>7 DEF ViewerOK, c

LEMMA CollectViewers ==
    ASSUME StreamInv, NEW t \in Turns, CollectLog(t)
    PROVE  ViewersOK(viewer', log', turn')
<1>1. viewer' = viewer /\ turn' = turn /\ (log' = log \/ log' = NoLog)
  BY DEF CollectLog
<1>2. ASSUME NEW v \in Viewers PROVE ViewerOK(viewer[v], NoLog, turn)
  BY LogGone DEF StreamInv, ViewersOK
<1> QED
  BY <1>1, <1>2 DEF StreamInv, ViewersOK

(* At shutdown every connection is lost with the log; what was seen stays. *)
LEMMA ShutdownViewers ==
    ASSUME StreamInv, Shutdown
    PROVE  ViewersOK(viewer', log', turn')
<1>1. viewer' = [v \in Viewers |-> Reconnecting(viewer[v])] /\ log' = NoLog
  BY DEF Shutdown
<1>2. \A t \in Turns : turn[t] # "new" => turn'[t] # "new"
  BY DEF Shutdown, StreamInv, LogInv, TurnsOK
<1>3. ASSUME NEW v \in Viewers PROVE ViewerOK(Reconnecting(viewer[v]), NoLog, turn')
  <2>1. ViewerOK(viewer[v], log, turn)
    BY DEF StreamInv, ViewersOK
  <2>2. ViewerOK(viewer[v], NoLog, turn')
    BY <1>2, <2>1, LogGone
  <2> QED
    BY <2>2, Disconnected
<1> QED
  BY <1>1, <1>3 DEF ViewersOK

LEMMA RestartViewers ==
    ASSUME StreamInv, Restart
    PROVE  ViewersOK(viewer', log', turn')
<1>1. viewer' = viewer /\ log' = NoLog
  BY DEF Restart
<1>2. \A t \in Turns : turn[t] # "new" => turn'[t] # "new"
  BY DEF Restart
<1>3. ASSUME NEW v \in Viewers PROVE ViewerOK(viewer[v], NoLog, turn')
  <2>1. ViewerOK(viewer[v], log, turn)
    BY DEF StreamInv, ViewersOK
  <2> QED
    BY <1>2, <2>1, LogGone
<1> QED
  BY <1>1, <1>3 DEF StreamInv, ViewersOK

(* A step of one viewer leaves the others alone. *)
LEMMA OneViewer ==
    ASSUME StreamInv, NEW v \in Viewers, NEW x, ViewerOK(x, log, turn), UNCHANGED <<log, turn>>,
           viewer' = [viewer EXCEPT ![v] = x]
    PROVE  ViewersOK(viewer', log', turn')
<1>1. viewer' = [u \in Viewers |-> IF u = v THEN x ELSE viewer[u]]
  BY DEF StreamInv, ViewersOK
<1> QED
  BY <1>1 DEF StreamInv, ViewersOK

LEMMA ViewerSteps ==
    ASSUME StreamInv, NEW v \in Viewers, Watch(v) \/ Subscribe(v) \/ Receive(v) \/ Disconnect(v)
    PROVE  ViewersOK(viewer', log', turn')
<1>0. UNCHANGED <<log, turn>>
  BY DEF Watch, Subscribe, Receive, Disconnect
<1>1. ViewerOK(viewer[v], log, turn)
  BY DEF StreamInv, ViewersOK
<1>2. CASE Watch(v)
  <2> DEFINE x == [Away EXCEPT !.conn = "connecting", !.streaming = TRUE]
  <2>1. viewer' = [viewer EXCEPT ![v] = x]
    BY <1>2 DEF Watch
  <2>2. ViewerOK(x, log, turn)
    BY Beginning
  <2> QED
    BY <1>0, <2>1, <2>2, OneViewer
<1>3. CASE Subscribe(v)
  <2> DEFINE h == [log |-> NoTurn, seq |-> 0, type |-> IF log.status = "running" THEN "active" ELSE "idle"]
             p == <<h>> \o BufferedSince(log, viewer[v].lastSeq)
             x == [viewer[v] EXCEPT !.conn = "open", !.pipe = p]
  <2>1. viewer' = [viewer EXCEPT ![v].conn = "open", ![v].pipe = p] /\ viewer[v].conn = "connecting"
    BY <1>3 DEF Subscribe, Greeting, Greeted
  <2> HIDE DEF p
  <2>2. viewer' = [viewer EXCEPT ![v] = x]
    BY <2>1 DEF StreamInv, ViewersOK
  <2>3. h \in Hello
    BY DEF Hello
  <2>4. LogOK(log) /\ (Len(log.events) > 0 => turn[log.turn] # "new")
    BY LogTurn DEF StreamInv
  <2> HIDE DEF h
  <2>5. ViewerOK(x, log, turn)
    BY <1>1, <2>1, <2>3, <2>4, Resumed DEF p
  <2> QED
    BY <1>0, <2>2, <2>5, OneViewer
<1>4. CASE Receive(v)
  <2> DEFINE f == Head(viewer[v].pipe)
             y == [viewer[v] EXCEPT !.pipe = Tail(@)]
             x == CASE f.type = "active" -> y
                    [] f.type = "idle" -> [y EXCEPT !.streaming = FALSE]
                    [] f.type \in Terminal -> [Away EXCEPT !.seen = Append(y.seen, f)]
                    [] OTHER -> [y EXCEPT !.streaming = @ \/ f.type = "user.message",
                                          !.seen = Append(@, f),
                                          !.lastSeq = IF f.seq > @ THEN f.seq ELSE @]
  <2>1. viewer' = [viewer EXCEPT ![v] = x] /\ viewer[v].pipe # <<>>
    BY <1>4 DEF Receive
  <2>2. ViewerOK(x, log, turn)
    BY <1>1, <2>1, Received
  <2> HIDE DEF x
  <2> QED
    BY <1>0, <2>1, <2>2, OneViewer
<1>5. CASE Disconnect(v)
  <2>1. viewer' = [viewer EXCEPT ![v] = Reconnecting(viewer[v])]
    BY <1>5 DEF Disconnect
  <2>2. ViewerOK(Reconnecting(viewer[v]), log, turn)
    BY <1>1, Disconnected
  <2> QED
    BY <1>0, <2>1, <2>2, OneViewer
<1> QED
  BY <1>2, <1>3, <1>4, <1>5

LEMMA StreamInvariance == Spec => []StreamInv
<1>1. Init => StreamInv
  <2> SUFFICES ASSUME Init PROVE StreamInv
    OBVIOUS
  <2>1. viewer = [v \in Viewers |-> Away]
    BY DEF Init
  <2>2. ViewerOK(Away, log, turn)
    BY Beginning
  <2> QED
    BY <2>1, <2>2, InitLogInv DEF StreamInv, ViewersOK
<1>2. StreamInv /\ [Next]_vars => StreamInv'
  <2> SUFFICES ASSUME StreamInv, [Next]_vars PROVE StreamInv'
    OBVIOUS
  <2>0. LogInv'
    BY StepLogInv DEF StreamInv
  <2> DEFINE Kept == ViewersOK(viewer', log', turn')
  <2>1. ASSUME NEW t \in Turns, StartTurn(t) PROVE Kept
    BY <2>0, <2>1, StartTurnViewers
  <2>2. ASSUME NEW t \in Turns, Emit(t) PROVE Kept
    BY <2>0, <2>2, EmitViewers
  <2>3. ASSUME NEW t \in Turns, CollectLog(t) PROVE Kept
    BY <2>3, CollectViewers
  <2>4. ASSUME NEW t \in Turns, NEW outcome \in Terminal, Settle(t, outcome) PROVE Kept
    BY <2>0, <2>4, SettleViewers
  <2>5. ASSUME CancelTurn PROVE Kept
    BY <2>0, <2>5, CancelViewers
  <2>6. ASSUME Shutdown PROVE Kept
    BY <2>6, ShutdownViewers
  <2>7. ASSUME NEW v \in Viewers, Watch(v) \/ Subscribe(v) \/ Receive(v) \/ Disconnect(v)
        PROVE  Kept
    BY <2>7, ViewerSteps
  <2>8. ASSUME Restart PROVE Kept
    BY <2>8, RestartViewers
  <2>9. ASSUME UNCHANGED vars PROVE Kept
    BY <2>9 DEF vars, StreamInv
  <2> HIDE DEF Kept
  <2>10. Kept
    BY <2>1, <2>2, <2>3, <2>4, <2>5, <2>6, <2>7, <2>8, <2>9 DEF Next
  <2> QED
    BY <2>0, <2>10 DEF StreamInv, Kept
<1> QED
  BY <1>1, <1>2, PTL DEF Spec

(* The types of the log, the turns and the viewers; the buffer stays within the
   cap and one terminal error, and a client's last sequence number within it. *)
THEOREM StreamTypes == Spec => []TypeOK
<1>1. StreamInv => TypeOK
  <2> SUFFICES ASSUME StreamInv PROVE TypeOK
    OBVIOUS
  <2>1. /\ log.turn \in Turns \cup {NoTurn} /\ log.status \in {"none", "running"} \cup Terminal
        /\ log.events \in Seq(Event) /\ Len(log.events) <= Cap + 1
    BY DEF StreamInv, LogInv, LogOK, Logs
  <2>2. /\ timers \subseteq Turns /\ turn \in [Turns -> {"new", "running", "unwinding", "settled"}]
        /\ active \in BOOLEAN /\ up \in BOOLEAN
    BY DEF StreamInv, LogInv, TurnsOK
  <2>3. \A v \in Viewers : viewer[v] \in ViewerType
    BY DEF StreamInv, ViewersOK, ViewerOK
  <2>4. \A v \in Viewers :
          /\ viewer[v].conn \in {"closed", "connecting", "open"}
          /\ viewer[v].streaming \in BOOLEAN /\ viewer[v].lastSeq \in 0..(Cap + 1)
    BY <2>3 DEF ViewerType
  <2> QED
    BY <2>1, <2>2, <2>4 DEF TypeOK
<1> QED
  BY <1>1, StreamInvariance, PTL

(* A client whose stream stayed with one turn has seen that turn's frames from
   the first, in order, through every reconnection. *)
THEOREM StreamIsSeamless == Spec => []SeenInOrder
<1>1. StreamInv => SeenInOrder
  <2> SUFFICES ASSUME StreamInv, NEW v \in Viewers,
                      \A j, k \in DOMAIN viewer[v].seen : viewer[v].seen[j].log = viewer[v].seen[k].log
               PROVE  \A k \in DOMAIN viewer[v].seen : viewer[v].seen[k].seq = k
    BY DEF SeenInOrder
  <2> DEFINE x == viewer[v]
             c == x.seen
  <2>1. ViewerOK(x, log, turn)
    BY DEF StreamInv, ViewersOK
  <2>2. c \in Seq(EventFrame) /\ Frames(x.pipe) \in Seq(EventFrame)
    BY <2>1, ShownType
  <2>3. InOrder(c)
    BY <2>1, <2>2, PrefixFacts DEF ViewerOK, Shown
  <2>4. \A j, k \in DOMAIN c : c[j].log = c[k].log
    OBVIOUS
  <2>5. DOMAIN c = 1..Len(c) /\ Len(c) \in Nat
    BY <2>2, LenProperties
  <2> HIDE DEF c
  <2>6. \A k \in 1..Len(c) : c[k].seq = k
    <3> SUFFICES ASSUME NEW k \in 1..Len(c) PROVE c[k].seq = k
      OBVIOUS
    <3>1. \A j \in 1..k : j \in 1..Len(c) /\ 1 \in 1..Len(c)
      BY <2>5
    <3>2. \A j \in 1..k : c[j].log = c[1].log
      BY <2>4, <2>5, <3>1
    <3> QED
      BY <2>3, <3>2 DEF InOrder
  <2> QED
    BY <2>5, <2>6 DEF c
<1> QED
  BY <1>1, StreamInvariance, PTL

=============================================================================
