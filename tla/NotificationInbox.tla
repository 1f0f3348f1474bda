-------------------------- MODULE NotificationInbox --------------------------
(***************************************************************************)
(* One connector's outbox, read into one workspace's inbox.                *)
(*                                                                         *)
(* The poller reads the stored cursor, asks the connector for what follows *)
(* it, writes every event to the inbox and only then moves the cursor      *)
(* (src/notifications/poller.ts).  The inbox drops an event it holds and   *)
(* deletes the days past its retention (store.ts).  An install takes a     *)
(* position before the connector is told it is ready (position.ts), an     *)
(* uninstall drops it; both may happen while a read is in flight, so a     *)
(* cursor is written by compare-and-set (cursors.ts).                      *)
(*                                                                         *)
(* Events are numbered as the connector emits them and a cursor is the     *)
(* number of the last event it covers.  A restart loses the reads in       *)
(* flight and keeps the cursor and the inbox.                              *)
(***************************************************************************)
EXTENDS Integers, Sequences

CONSTANTS
    NumEvents,      \* events the connector emits: bounds the model
    Retention,      \* days an item is kept (NOTIFICATION_RETENTION_DAYS)
    MaxDay,         \* days that pass: bounds the model
    MaxTrouble      \* restarts, failed calls and writes, uninstalls, route edits

ASSUME InboxAssumption ==
    /\ NumEvents \in Nat
    /\ Retention \in Nat /\ MaxDay \in Nat /\ MaxTrouble \in Nat

Events == 1..NumEvents
None == -1

VARIABLES
    day,            \* today
    outbox,         \* the day each event was emitted, in order
    cursor,         \* the stored cursor, or None
    inbox,          \* the day each item was received, or None when it holds none
    read,           \* the poller's read: phase, the cursor it started at, the answer
    setup,          \* notifyReady(): phase, the bootstrap's answer
    installed,
    stopped,        \* shutdown has stopped the notifications source
    ready,          \* events emitted when the connector was told, or None
    created,        \* history: how often append() created each event
    trouble

inboxVars == <<day, outbox, cursor, inbox, read, setup, installed, stopped, ready, created, trouble>>

NoRead == [phase |-> "idle", from |-> None, next |-> None]
NoSetup == [phase |-> "idle", next |-> None]

(* How far back a read may replay, derived from the retention
   (NOTIFICATION_REPLAY_MAX_AGE_MS). *)
MaxAgeChosen == Retention + 1
MaxAge == Retention

Emitted == Len(outbox)

TooOld(e) == day - outbox[e] > MaxAge

Troubled == trouble < MaxTrouble /\ trouble' = trouble + 1

InboxInit ==
    /\ day = 0 /\ outbox = <<>>
    /\ cursor = None /\ inbox = [e \in Events |-> None]
    /\ read = NoRead /\ setup = NoSetup
    /\ installed = FALSE /\ stopped = FALSE /\ ready = None
    /\ created = [e \in Events |-> 0] /\ trouble = 0

-----------------------------------------------------------------------------
(* The connector *)

Emit ==
    /\ Emitted < NumEvents
    /\ outbox' = Append(outbox, day)
    /\ UNCHANGED <<day, cursor, inbox, read, setup, installed, stopped, ready, created, trouble>>

NextDay ==
    /\ day < MaxDay
    /\ day' = day + 1
    /\ UNCHANGED <<outbox, cursor, inbox, read, setup, installed, stopped, ready, created, trouble>>

(* The events up to "upto" an answer carries: those after the cursor that are
   young enough.  Without a cursor the server answers no event and the end of
   its outbox. *)
Answered(from, upto) ==
    IF from = None THEN {} ELSE {e \in (from + 1)..upto : ~TooOld(e)}

AnswerEnds(from) ==
    IF from = None \/ from = Emitted THEN {Emitted} ELSE (from + 1)..Emitted

-----------------------------------------------------------------------------
(* The poller.  #inFlight keeps a sweep and a pushed hint apart, so a workspace
   has one read at a time; a chained read starts like the first. *)

(* #positionFor() *)
BeginRead ==
    /\ installed /\ ~stopped /\ read.phase = "idle"
    /\ read' = [NoRead EXCEPT !.phase = "asked", !.from = cursor]
    /\ UNCHANGED <<day, outbox, cursor, inbox, setup, installed, stopped, ready, created, trouble>>

(* The read throws, or answers something that is no poll result. *)
ReadFails ==
    /\ read.phase = "asked" /\ Troubled
    /\ read' = NoRead
    /\ UNCHANGED <<day, outbox, cursor, inbox, setup, installed, stopped, ready, created>>

(* append() creates the events the inbox does not hold. *)
Creates(events) == {e \in events : inbox[e] = None}

(* prune() deletes the days before the cutoff. *)
Prune(box) == [e \in Events |-> IF box[e] < day - Retention THEN None ELSE box[e]]

(* append(), event by event: dedupe, store, prune(). *)
WriteAll(events) ==
    LET new == Creates(events)
        box == [e \in Events |-> IF e \in new THEN day ELSE inbox[e]]
    IN
    /\ inbox' = IF new = {} THEN inbox ELSE Prune(box)
    /\ created' = [e \in Events |-> IF e \in new THEN created[e] + 1 ELSE created[e]]

(* The answer up to "upto" is given, and what it carries is written before
   anything else happens to the inbox. *)
WriteEvents(upto) ==
    /\ read.phase = "asked" /\ upto \in AnswerEnds(read.from)
    /\ WriteAll(Answered(read.from, upto))
    /\ read' = [read EXCEPT !.phase = "written", !.next = upto]
    /\ UNCHANGED <<day, outbox, cursor, setup, installed, stopped, ready, trouble>>

(* The connectors of a workspace share its inbox: an item of another one is
   appended, and its append() prunes. *)
OtherAppend ==
    /\ inbox' = Prune(inbox) /\ inbox' # inbox
    /\ UNCHANGED <<day, outbox, cursor, read, setup, installed, stopped, ready, created, trouble>>

(* The inbox refuses event "at": those before it are stored, the cursor stays. *)
WriteFails(upto, at) ==
    /\ read.phase = "asked" /\ upto \in AnswerEnds(read.from) /\ Troubled
    /\ at \in Answered(read.from, upto)
    /\ WriteAll(Answered(read.from, at - 1))
    /\ read' = NoRead
    /\ UNCHANGED <<day, outbox, cursor, setup, installed, stopped, ready>>

(* writeCursor() with "from": it lands when the stored cursor is still the one
   the read started at. *)
Overwrite(from, next) == next
CompareAndSet(from, next) == IF cursor = from THEN next ELSE cursor

AdvanceCursor ==
    /\ read.phase = "written"
    /\ cursor' = CompareAndSet(read.from, read.next)
    /\ read' = NoRead
    /\ UNCHANGED <<day, outbox, inbox, setup, installed, stopped, ready, created, trouble>>

AdvanceFails ==
    /\ read.phase = "written" /\ Troubled
    /\ read' = NoRead
    /\ UNCHANGED <<day, outbox, cursor, inbox, setup, installed, stopped, ready, created>>

-----------------------------------------------------------------------------
(* Install, on_ready and uninstall *)

Install ==
    /\ ~installed /\ setup.phase = "idle"
    /\ installed' = TRUE
    /\ setup' = [NoSetup EXCEPT !.phase = "start"]
    /\ UNCHANGED <<day, outbox, cursor, inbox, read, stopped, ready, created, trouble>>

(* The handler is called: what it makes the connector emit comes after "ready". *)
CallReady(position) ==
    /\ setup' = NoSetup
    /\ ready' = IF installed /\ ready = None /\ position # None THEN Emitted ELSE ready

(* positionOutbox() is a no-op when a cursor is stored; otherwise it reads where
   the outbox ends. *)
PositionOutbox ==
    /\ setup.phase = "start"
    /\ IF cursor # None
       THEN CallReady(cursor)
       ELSE setup' = [phase |-> "answered", next |-> Emitted] /\ UNCHANGED ready
    /\ UNCHANGED <<day, outbox, cursor, inbox, read, installed, stopped, created, trouble>>

PositionWrite ==
    /\ setup.phase = "answered"
    /\ cursor' = CompareAndSet(None, setup.next)
    /\ CallReady(cursor')
    /\ UNCHANGED <<day, outbox, inbox, read, installed, stopped, created, trouble>>

(* A failed position does not keep the handler from being called. *)
PositionFails ==
    /\ setup.phase # "idle" /\ Troubled
    /\ CallReady(cursor)
    /\ UNCHANGED <<day, outbox, cursor, inbox, read, installed, stopped, created>>

(* uninstallWorkspaceConnector(): clearCursor() *)
Uninstall ==
    /\ installed /\ Troubled
    /\ installed' = FALSE /\ cursor' = None /\ ready' = None
    /\ UNCHANGED <<day, outbox, inbox, read, setup, stopped, created>>

(* source.stop(): no further read starts, one in flight goes on. *)
StopPolling ==
    /\ ~stopped /\ Troubled
    /\ stopped' = TRUE
    /\ UNCHANGED <<day, outbox, cursor, inbox, read, setup, installed, ready, created>>

(* The process dies, or exits once it was stopped, and the next one boots: an
   installed connector is told again that it is ready. *)
Reboot ==
    /\ stopped' = FALSE
    /\ read' = NoRead
    /\ setup' = IF installed THEN [NoSetup EXCEPT !.phase = "start"] ELSE NoSetup
    /\ UNCHANGED <<day, outbox, cursor, inbox, installed, ready, created>>

CrashInbox == ~stopped /\ Troubled /\ Reboot
ExitInbox == stopped /\ Reboot /\ UNCHANGED trouble

-----------------------------------------------------------------------------

(* The steps that neither store an item nor end the process. *)
InboxQuiet ==
    \/ Emit \/ NextDay
    \/ BeginRead \/ ReadFails \/ AdvanceCursor \/ AdvanceFails \/ OtherAppend
    \/ Install \/ PositionOutbox \/ PositionWrite \/ PositionFails
    \/ Uninstall

InboxNext ==
    \/ InboxQuiet
    \/ \E upto \in 0..NumEvents :
          WriteEvents(upto) \/ \E at \in Events : WriteFails(upto, at)
    \/ StopPolling \/ CrashInbox \/ ExitInbox

InboxSpec == InboxInit /\ [][InboxNext]_inboxVars

-----------------------------------------------------------------------------

InboxTypeOK ==
    /\ day \in 0..MaxDay
    /\ outbox \in Seq(0..MaxDay) /\ Len(outbox) <= NumEvents
    /\ cursor \in {None} \cup 0..NumEvents
    /\ inbox \in [Events -> {None} \cup 0..MaxDay]
    /\ read \in [phase : {"idle", "asked", "written"}, from : {None} \cup 0..NumEvents,
                 next : {None} \cup 0..NumEvents]
    /\ setup \in [phase : {"idle", "start", "answered"}, next : {None} \cup 0..NumEvents]
    /\ installed \in BOOLEAN /\ stopped \in BOOLEAN
    /\ ready \in {None} \cup 0..NumEvents
    /\ created \in [Events -> Nat]
    /\ trouble \in 0..MaxTrouble

(* Every event the on_ready handler causes "is then after the cursor, and the
   poller's ordinary reads deliver it": whatever bootstraps, uninstalls and
   crashes interleave, the cursor of a connector that was told it is ready never
   covers a later event the inbox never took, unless it grew too old unread. *)
InstallEventsKept ==
    ready # None =>
        /\ cursor # None
        /\ \A e \in (ready + 1)..Emitted : e <= cursor => created[e] > 0 \/ TooOld(e)

(* An event enters the inbox once, although a read may be repeated and the
   inbox forgets an event with the day it was stored: what is old enough to be
   forgotten is too old to be replayed. *)
CreatedOnce == \A e \in Events : created[e] <= 1

=============================================================================
