---------------------- MODULE NotificationRoutesProofs ----------------------
(***************************************************************************)
(* Proofs about a connector's outbox and the inbox it is read into under   *)
(* the dispatcher of NotificationRoutes, and about the deliveries of the   *)
(* items stored there, for any number of events, days, tools, attempts and *)
(* faults.                                                                 *)
(***************************************************************************)
EXTENDS NotificationRoutes, TLAPS, FiniteSetTheorems

-----------------------------------------------------------------------------
(* The inbox: the inductive invariant *)

(* A position never lies past the end of the outbox. *)
PositionsBehind ==
    /\ \A e \in 1..Emitted : outbox[e] <= day
    /\ cursor <= Emitted /\ read.next <= Emitted /\ setup.next <= Emitted

(* An item is stored no earlier than its event was emitted, so an event the inbox
   forgot is too old to be answered. *)
ItemsForgotten ==
    \A e \in Events :
        /\ created[e] <= 1
        /\ inbox[e] # None => created[e] = 1 /\ e <= Emitted /\ outbox[e] <= inbox[e]
        /\ created[e] = 1 /\ inbox[e] = None => e <= Emitted /\ TooOld(e)

(* What a read is about to cover was written, or may be skipped. *)
ReadCovers ==
    read.phase = "written" =>
        /\ read.next # None
        /\ read.from # None =>
              \A e \in (read.from + 1)..read.next : created[e] > 0 \/ TooOld(e)

InboxInv ==
    /\ InboxTypeOK /\ PositionsBehind /\ ItemsForgotten /\ ReadCovers
    /\ InstallEventsKept

(* A step of the inbox, or one that only counts a fault elsewhere. *)
Elsewhere == UNCHANGED quietInbox /\ (UNCHANGED trouble \/ Troubled)

InboxStep == InboxNext \/ Elsewhere

USE DEF None

ReadType ==
    [phase : {"idle", "asked", "written"}, from : {None} \cup 0..NumEvents,
     next : {None} \cup 0..NumEvents]
SetupType ==
    [phase : {"idle", "start", "answered"}, next : {None} \cup 0..NumEvents]

-----------------------------------------------------------------------------
(* Writing to the inbox *)

(* An answer carries events that were emitted, none of them too old. *)
LEMMA AnswerBounds ==
    ASSUME InboxInv, NEW upto \in AnswerEnds(read.from)
    PROVE  /\ upto \in 0..Emitted
           /\ \A e \in Answered(read.from, upto) : e \in 1..Emitted /\ ~TooOld(e)
BY InboxAssumption DEF InboxInv, InboxTypeOK, AnswerEnds, Answered, Emitted

(* What is created was never created before. *)
LEMMA CreatesNew ==
    ASSUME InboxInv, NEW events, \A e \in events : e \in 1..Emitted /\ ~TooOld(e)
    PROVE  \A e \in Creates(events) :
              e \in Events /\ e \in events /\ inbox[e] = None /\ created[e] = 0
<1> SUFFICES ASSUME NEW e \in Creates(events)
             PROVE  e \in Events /\ e \in events /\ inbox[e] = None /\ created[e] = 0
  OBVIOUS
<1>1. e \in events /\ inbox[e] = None
  BY DEF Creates
<1>2. e \in Events
  BY <1>1, InboxAssumption DEF InboxInv, InboxTypeOK, Emitted, Events
<1> QED
  BY <1>1, <1>2 DEF InboxInv, InboxTypeOK, ItemsForgotten

(* Whatever part of an answer is written, no event is stored again, and what the
   inbox forgets meanwhile is too old. *)
LEMMA WriteKeeps ==
    ASSUME InboxInv, NEW events,
           \A e \in events : e \in 1..Emitted /\ ~TooOld(e),
           WriteAll(events), UNCHANGED <<day, outbox>>
    PROVE  /\ inbox' \in [Events -> {None} \cup 0..MaxDay]
           /\ created' \in [Events -> Nat]
           /\ ItemsForgotten'
           /\ \A e \in Events : created'[e] >= created[e]
           /\ \A e \in events : created'[e] > 0
<1> DEFINE box == [e \in Events |-> IF e \in Creates(events) THEN day ELSE inbox[e]]
<1>1. \A e \in events : e \in Events /\ outbox[e] \in 0..MaxDay /\ outbox[e] <= day
  BY InboxAssumption DEF InboxInv, InboxTypeOK, PositionsBehind, Emitted, Events
<1>2. /\ created' = [e \in Events |-> IF e \in Creates(events) THEN created[e] + 1 ELSE created[e]]
      /\ inbox' = IF Creates(events) = {} THEN inbox ELSE Prune(box)
  BY DEF WriteAll
<1>3. \A e \in Creates(events) : e \in events /\ inbox[e] = None /\ created[e] = 0
  BY CreatesNew
<1>4. \A e \in Events : inbox'[e] = inbox[e] \/ inbox'[e] = None \/ inbox'[e] = day
  BY <1>2 DEF Prune, InboxInv, InboxTypeOK
<1>5. inbox' \in [Events -> {None} \cup 0..MaxDay] /\ created' \in [Events -> Nat]
  BY <1>2 DEF Prune, InboxInv, InboxTypeOK
<1>6. ItemsForgotten'
  <2> SUFFICES ASSUME NEW e \in Events
               PROVE  /\ created'[e] <= 1
                      /\ inbox'[e] # None =>
                           created'[e] = 1 /\ e <= Emitted' /\ outbox'[e] <= inbox'[e]
                      /\ created'[e] = 1 /\ inbox'[e] = None => e <= Emitted' /\ TooOld(e)'
    BY DEF ItemsForgotten
  <2>1. Emitted' = Emitted /\ TooOld(e)' = TooOld(e) /\ outbox' = outbox /\ day' = day
    BY DEF Emitted, TooOld, MaxAge
  <2>2. day \in Nat /\ Retention \in Nat /\ e \in Nat
    BY InboxAssumption DEF InboxInv, InboxTypeOK, Events
  <2>3. CASE e \in Creates(events)
    <3>1. created'[e] = 1 /\ inbox'[e] = day
      BY <1>2, <1>3, <2>2, <2>3 DEF Prune
    <3> QED
      BY <1>1, <1>3, <2>1, <2>2, <2>3, <3>1
  <2>4. CASE e \notin Creates(events)
    <3>1. created'[e] = created[e]
      BY <1>2, <2>4
    <3>2. inbox'[e] = inbox[e] \/ (inbox[e] < day - Retention /\ inbox'[e] = None)
      BY <1>2, <2>4 DEF Prune, InboxInv, InboxTypeOK
    <3>3. CASE inbox'[e] = inbox[e]
      BY <2>1, <3>1, <3>3 DEF InboxInv, ItemsForgotten
    <3>4. CASE inbox[e] # None /\ inbox[e] < day - Retention /\ inbox'[e] = None
      <4>1. created[e] = 1 /\ e <= Emitted /\ outbox[e] <= inbox[e]
        BY <3>4 DEF InboxInv, ItemsForgotten
      <4>2. outbox[e] \in Nat /\ inbox[e] \in Nat
        BY InboxAssumption, <2>2, <3>4, <4>1 DEF InboxInv, InboxTypeOK, Emitted, Events
      <4> QED
        BY <2>1, <2>2, <3>1, <3>4, <4>1, <4>2 DEF TooOld, MaxAge
    <3> QED
      BY <3>2, <3>3, <3>4
  <2> QED
    BY <2>3, <2>4
<1>7. \A e \in Events : created'[e] >= created[e]
  BY <1>2 DEF InboxInv, InboxTypeOK
<1>8. \A e \in events : created'[e] > 0
  <2> SUFFICES ASSUME NEW e \in events PROVE created'[e] > 0
    OBVIOUS
  <2>1. CASE inbox[e] = None
    BY <1>1, <1>2, <2>1 DEF Creates, InboxInv, InboxTypeOK
  <2>2. CASE inbox[e] # None
    <3>1. created[e] = 1
      BY <1>1, <2>2 DEF InboxInv, ItemsForgotten
    <3> QED
      BY <1>1, <1>7, <3>1, <1>5
  <2> QED
    BY <2>1, <2>2
<1> QED
  BY <1>5, <1>6, <1>7, <1>8

-----------------------------------------------------------------------------
(* The invariant is kept *)

(* A day that passes, or an event that is emitted, takes nothing back. *)
LEMMA LaterIsOlder ==
    ASSUME InboxInv, day' >= day, day' \in Nat, NEW e \in 1..Emitted,
           outbox'[e] = outbox[e], TooOld(e)
    PROVE  TooOld(e)'
BY InboxAssumption DEF InboxInv, InboxTypeOK, TooOld, MaxAge, Emitted

LEMMA TroubleBounded ==
    ASSUME trouble \in 0..MaxTrouble, UNCHANGED trouble \/ Troubled
    PROVE  trouble' \in 0..MaxTrouble
BY InboxAssumption DEF Troubled

LEMMA InitInv == InboxInit => InboxInv
<1> SUFFICES ASSUME InboxInit PROVE InboxInv
  OBVIOUS
<1> USE InboxAssumption DEF InboxInit
<1>1. InboxTypeOK
  <2>1. outbox \in Seq(0..MaxDay) /\ Len(outbox) = 0
    OBVIOUS
  <2>2. read \in [phase : {"idle", "asked", "written"}, from : {None} \cup 0..NumEvents,
                  next : {None} \cup 0..NumEvents]
    BY DEF NoRead
  <2>3. setup \in [phase : {"idle", "start", "answered"}, next : {None} \cup 0..NumEvents]
    BY DEF NoSetup
  <2>4. inbox \in [Events -> {None} \cup 0..MaxDay] /\ created \in [Events -> Nat]
    OBVIOUS
  <2>5. installed \in BOOLEAN /\ stopped \in BOOLEAN
    OBVIOUS
  <2>6. /\ day \in 0..MaxDay /\ trouble \in 0..MaxTrouble /\ 0 <= NumEvents
        /\ cursor \in {None} \cup 0..NumEvents /\ ready \in {None} \cup 0..NumEvents
    OBVIOUS
  <2> HIDE DEF InboxInit
  <2> QED
    BY <2>1, <2>2, <2>3, <2>4, <2>5, <2>6 DEF InboxTypeOK
<1>2. PositionsBehind
  BY DEF PositionsBehind, NoRead, NoSetup, Emitted
<1>3. ItemsForgotten
  BY DEF ItemsForgotten
<1>4. ReadCovers /\ InstallEventsKept
  BY DEF ReadCovers, InstallEventsKept, NoRead
<1> QED
  BY <1>1, <1>2, <1>3, <1>4 DEF InboxInv

(* What happens to the outbox and the clock. *)
LEMMA WorldKeeps == ASSUME InboxInv, Emit \/ NextDay PROVE InboxInv'
<1>1. CASE Emit
  <2> USE InboxAssumption, <1>1 DEF Emit, Emitted
  <2>1. /\ outbox' \in Seq(0..MaxDay) /\ Len(outbox') = Len(outbox) + 1
        /\ outbox'[Len(outbox) + 1] = day
        /\ \A e \in 1..Len(outbox) : outbox'[e] = outbox[e]
    BY DEF InboxInv, InboxTypeOK
  <2>2. InboxTypeOK'
    BY <2>1 DEF InboxInv, InboxTypeOK
  <2>3. PositionsBehind'
    BY <2>1 DEF InboxInv, InboxTypeOK, PositionsBehind
  <2>4. \A e \in Events : e <= Emitted => TooOld(e)' = TooOld(e)
    BY <2>1 DEF TooOld, MaxAge, Events, InboxInv, InboxTypeOK
  <2>5. ItemsForgotten'
    <3> SUFFICES ASSUME NEW e \in Events
                 PROVE  /\ created[e] <= 1
                        /\ inbox[e] # None =>
                             created[e] = 1 /\ e <= Emitted' /\ outbox'[e] <= inbox[e]
                        /\ created[e] = 1 /\ inbox[e] = None => e <= Emitted' /\ TooOld(e)'
      BY DEF ItemsForgotten
    <3>1. e \in Nat /\ e >= 1 /\ Len(outbox) \in Nat
      BY DEF Events, InboxInv, InboxTypeOK
    <3> QED
      BY <2>1, <2>4, <3>1 DEF InboxInv, ItemsForgotten
  <2>6. ReadCovers'
    <3> SUFFICES ASSUME read.phase = "written", read.from # None,
                        NEW e \in (read.from + 1)..read.next
                 PROVE  created[e] > 0 \/ TooOld(e)'
      BY DEF ReadCovers, InboxInv
    <3>1. e \in Events /\ e <= Emitted
      BY DEF Events, InboxInv, InboxTypeOK, PositionsBehind
    <3> QED
      BY <2>4, <3>1 DEF InboxInv, ReadCovers
  <2>7. InstallEventsKept'
    <3> SUFFICES ASSUME ready # None, NEW e \in (ready + 1)..Emitted', e <= cursor
                 PROVE  cursor # None /\ (created[e] > 0 \/ TooOld(e)')
      BY DEF InboxInv, InstallEventsKept
    <3>1. e \in Events /\ e <= Emitted
      BY DEF Events, InboxInv, InboxTypeOK, PositionsBehind
    <3> QED
      BY <2>4, <3>1 DEF InboxInv, InstallEventsKept, InboxTypeOK
  <2> QED
    BY <2>2, <2>3, <2>5, <2>6, <2>7 DEF InboxInv
<1>2. CASE NextDay
  <2> USE InboxAssumption, <1>2 DEF NextDay
  <2>1. InboxTypeOK' /\ PositionsBehind'
    BY DEF InboxInv, InboxTypeOK, PositionsBehind, Emitted
  <2>2. \A e \in 1..Emitted : TooOld(e) => TooOld(e)'
    BY LaterIsOlder DEF InboxInv, InboxTypeOK
  <2>3. ItemsForgotten'
    BY <2>2 DEF InboxInv, InboxTypeOK, ItemsForgotten, Events, Emitted
  <2>4. ReadCovers'
    BY <2>2 DEF InboxInv, InboxTypeOK, PositionsBehind, ReadCovers, Emitted
  <2>5. InstallEventsKept'
    BY <2>2 DEF InboxInv, InboxTypeOK, InstallEventsKept, Emitted
  <2> QED
    BY <2>1, <2>3, <2>4, <2>5 DEF InboxInv
<1> QED
  BY <1>1, <1>2

(* Steps that leave the outbox, the clock and the items alone. *)
LEMMA StillOld ==
    ASSUME UNCHANGED <<day, outbox, inbox, created>>, ItemsForgotten
    PROVE  ItemsForgotten' /\ Emitted' = Emitted /\ \A e : TooOld(e)' = TooOld(e)
BY DEF ItemsForgotten, Emitted, TooOld, MaxAge

LEMMA ReadKeeps ==
    ASSUME InboxInv, BeginRead \/ ReadFails \/ AdvanceFails
    PROVE  InboxInv'
<1> USE InboxAssumption DEF BeginRead, ReadFails, AdvanceFails
<1>0. /\ read' \in ReadType /\ trouble' \in 0..MaxTrouble
      /\ read'.next = None /\ read'.phase # "written"
  <2>1. UNCHANGED trouble \/ Troubled
    OBVIOUS
  <2>2. read' = [phase |-> "asked", from |-> cursor, next |-> None] \/ read' = NoRead
    BY DEF NoRead
  <2> QED
    BY <2>1, <2>2, TroubleBounded DEF NoRead, InboxInv, InboxTypeOK, ReadType
<1>1. ItemsForgotten' /\ Emitted' = Emitted /\ \A e : TooOld(e)' = TooOld(e)
  BY StillOld DEF InboxInv
<1>2. InboxTypeOK'
  BY <1>0 DEF InboxInv, InboxTypeOK, ReadType
<1>3. PositionsBehind'
  BY <1>0, <1>1 DEF InboxInv, InboxTypeOK, PositionsBehind, Emitted
<1>4. ReadCovers'
  BY <1>0 DEF ReadCovers
<1>5. InstallEventsKept'
  BY <1>1 DEF InboxInv, InstallEventsKept
<1> QED
  BY <1>1, <1>2, <1>3, <1>4, <1>5 DEF InboxInv

(* The cursor moves over what was written, or from nowhere: then no connector
   was told that it is ready. *)
LEMMA AdvanceKeeps ==
    ASSUME InboxInv, AdvanceCursor
    PROVE  InboxInv'
<1> USE InboxAssumption DEF AdvanceCursor, CompareAndSet, NoRead
<1>1. ItemsForgotten' /\ Emitted' = Emitted /\ \A e : TooOld(e)' = TooOld(e)
  BY StillOld DEF InboxInv
<1>2. InboxTypeOK'
  BY DEF InboxInv, InboxTypeOK
<1>3. PositionsBehind'
  BY <1>1 DEF InboxInv, InboxTypeOK, PositionsBehind, Emitted
<1>4. ReadCovers'
  BY DEF ReadCovers
<1>5. InstallEventsKept'
  <2>1. CASE cursor' = cursor
    BY <1>1, <2>1 DEF InboxInv, InstallEventsKept
  <2>2. CASE cursor = read.from /\ read.from = None
    BY <2>2 DEF InboxInv, InstallEventsKept
  <2>3. CASE cursor = read.from /\ read.from # None /\ cursor' = read.next
    <3>1. cursor' # None \/ ready = None
      BY <2>3 DEF InboxInv, InboxTypeOK, ReadCovers
    <3> QED
      BY <1>1, <2>3, <3>1 DEF InboxInv, InboxTypeOK, InstallEventsKept, ReadCovers
  <2> QED
    BY <2>1, <2>2, <2>3
<1> QED
  BY <1>1, <1>2, <1>3, <1>4, <1>5 DEF InboxInv

(* An install, its position and the handler's call. *)
LEMMA SetupKeeps ==
    ASSUME InboxInv, Install \/ PositionOutbox \/ PositionWrite \/ PositionFails \/ Uninstall
    PROVE  InboxInv'
<1> USE InboxAssumption DEF Install, PositionOutbox, PositionWrite, PositionFails, Uninstall,
        CallReady, CompareAndSet, NoSetup, Troubled
<1>1. ItemsForgotten' /\ Emitted' = Emitted /\ \A e : TooOld(e)' = TooOld(e)
  BY StillOld DEF InboxInv
<1>2. Emitted \in 0..NumEvents
  BY DEF InboxInv, InboxTypeOK, Emitted
<1>3. InboxTypeOK'
  <2>1. setup' \in SetupType
    BY <1>2 DEF InboxInv, InboxTypeOK, SetupType
  <2>2. cursor' \in {None} \cup 0..NumEvents
    BY DEF InboxInv, InboxTypeOK
  <2>3. ready' \in {None} \cup 0..NumEvents
    BY <1>2 DEF InboxInv, InboxTypeOK
  <2>4. trouble' \in 0..MaxTrouble
    <3>1. UNCHANGED trouble \/ Troubled
      BY DEF Troubled
    <3> QED
      BY <3>1, TroubleBounded DEF InboxInv, InboxTypeOK
  <2>5. installed' \in BOOLEAN
    BY DEF InboxInv, InboxTypeOK
  <2> QED
    BY <2>1, <2>2, <2>3, <2>4, <2>5 DEF InboxInv, InboxTypeOK, SetupType
<1>4. PositionsBehind'
  <2>1. UNCHANGED <<day, outbox, read>> /\ cursor' \in {cursor, None, setup.next}
    OBVIOUS
  <2>2. setup'.next \in {None, Emitted, setup.next}
    <3>1. setup' \in {setup, NoSetup, [phase |-> "start", next |-> None],
                      [phase |-> "answered", next |-> Emitted]}
      OBVIOUS
    <3> QED
      BY <3>1
  <2>3. PositionsBehind /\ None <= Emitted
    BY <1>2 DEF InboxInv
  <2> HIDE DEF Install, PositionOutbox, PositionWrite, PositionFails, Uninstall
  <2> QED
    BY <1>1, <1>2, <2>1, <2>2, <2>3 DEF PositionsBehind
<1>5. ReadCovers'
  BY <1>1 DEF InboxInv, ReadCovers
<1>6. InstallEventsKept'
  <2>1. CASE ready' = None
    BY <2>1 DEF InstallEventsKept
  <2>2. CASE ready' = ready /\ cursor' = cursor
    BY <1>1, <2>2 DEF InboxInv, InstallEventsKept
  <2>3. CASE ready' = ready /\ ready # None
    BY <1>1, <2>3 DEF InboxInv, InstallEventsKept
  <2>4. CASE ready' = Emitted /\ cursor' # None
    BY <1>1, <1>2, <2>4 DEF InstallEventsKept
  <2> QED
    BY <2>1, <2>2, <2>3, <2>4
<1> QED
  BY <1>1, <1>3, <1>4, <1>5, <1>6 DEF InboxInv

(* An answer is written, in whole or up to the event the inbox refused. *)
LEMMA StoreKeeps ==
    ASSUME InboxInv, NEW upto \in 0..NumEvents,
           WriteEvents(upto) \/ \E at \in Events : WriteFails(upto, at)
    PROVE  InboxInv'
<1> USE InboxAssumption
<1>1. /\ read.phase = "asked" /\ upto \in AnswerEnds(read.from)
      /\ UNCHANGED <<day, outbox, cursor, setup, installed, stopped, ready>>
      /\ trouble' \in 0..MaxTrouble
  BY DEF WriteEvents, WriteFails, Troubled, InboxInv, InboxTypeOK
<1>2. PICK events : WriteAll(events) /\ events \subseteq Answered(read.from, upto)
                    /\ \/ read' = NoRead
                       \/ /\ read' = [read EXCEPT !.phase = "written", !.next = upto]
                          /\ events = Answered(read.from, upto)
  <2>1. CASE WriteEvents(upto)
    BY <2>1 DEF WriteEvents
  <2>2. ASSUME NEW at \in Events, WriteFails(upto, at)
        PROVE  WriteAll(Answered(read.from, at - 1)) /\ read' = NoRead
               /\ Answered(read.from, at - 1) \subseteq Answered(read.from, upto)
    <3>1. at \in Answered(read.from, upto)
      BY <2>2 DEF WriteFails
    <3>2. at - 1 <= upto
      BY <3>1 DEF Answered, Events
    <3>3. Answered(read.from, at - 1) \subseteq Answered(read.from, upto)
      BY <3>2 DEF Answered, Events, InboxInv, InboxTypeOK
    <3> QED
      BY <2>2, <3>3 DEF WriteFails
  <2> QED
    BY <2>1, <2>2
<1>3. \A e \in events : e \in 1..Emitted /\ ~TooOld(e)
  BY <1>1, <1>2, AnswerBounds
<1>4. /\ inbox' \in [Events -> {None} \cup 0..MaxDay]
      /\ created' \in [Events -> Nat]
      /\ ItemsForgotten'
      /\ \A e \in Events : created'[e] >= created[e]
      /\ \A e \in events : created'[e] > 0
  BY <1>1, <1>2, <1>3, WriteKeeps
<1>5. Emitted' = Emitted /\ \A e : TooOld(e)' = TooOld(e)
  BY <1>1 DEF Emitted, TooOld, MaxAge
<1>6. /\ read' \in ReadType
      /\ read'.next \in {None, upto}
  <2>1. read \in ReadType
    BY DEF InboxInv, InboxTypeOK, ReadType
  <2>2. CASE read' = NoRead
    BY <2>2 DEF NoRead, ReadType
  <2>3. CASE read' = [read EXCEPT !.phase = "written", !.next = upto]
    <3>1. read' = [phase |-> "written", from |-> read.from, next |-> upto]
      BY <2>1, <2>3 DEF ReadType
    <3> QED
      BY <2>1, <3>1 DEF ReadType
  <2> QED
    BY <1>2, <2>2, <2>3
<1>11. InboxTypeOK'
  BY <1>1, <1>4, <1>6 DEF InboxInv, InboxTypeOK, ReadType
<1>7. upto \in 0..Emitted /\ Emitted \in Nat
  BY <1>1, AnswerBounds DEF InboxInv, InboxTypeOK, Emitted
<1>8. PositionsBehind'
  BY <1>1, <1>5, <1>6, <1>7 DEF InboxInv, InboxTypeOK, PositionsBehind
<1>9. ReadCovers'
  <2> SUFFICES ASSUME read' = [read EXCEPT !.phase = "written", !.next = upto],
                      events = Answered(read.from, upto)
               PROVE  ReadCovers'
    BY <1>2 DEF ReadCovers, NoRead
  <2>1. read'.next = upto /\ read'.from = read.from
    BY DEF InboxInv, InboxTypeOK
  <2>2. ASSUME read.from # None, NEW e \in (read.from + 1)..upto
        PROVE  created'[e] > 0 \/ TooOld(e)
    BY <1>4, <2>2 DEF Answered
  <2> QED
    BY <1>5, <2>1, <2>2 DEF ReadCovers
<1>10. InstallEventsKept'
  <2> SUFFICES ASSUME ready # None, NEW e \in (ready + 1)..Emitted, e <= cursor
               PROVE  created'[e] > 0 \/ TooOld(e)
    BY <1>1, <1>5 DEF InboxInv, InstallEventsKept
  <2>1. e \in Events
    BY <1>1 DEF Events, Emitted, InboxInv, InboxTypeOK
  <2> QED
    BY <1>4, <2>1 DEF InboxInv, InboxTypeOK, InstallEventsKept
<1> QED
  BY <1>4, <1>8, <1>9, <1>10, <1>11 DEF InboxInv

(* Another connector's item prunes the inbox. *)
LEMMA OtherKeeps ==
    ASSUME InboxInv, OtherAppend
    PROVE  InboxInv'
<1> USE InboxAssumption DEF OtherAppend
<1>1. WriteAll({}) \/ inbox' = Prune(inbox)
  OBVIOUS
<1>2. Emitted' = Emitted /\ \A e : TooOld(e)' = TooOld(e)
  BY DEF Emitted, TooOld, MaxAge
<1>3. \A e \in Events : inbox'[e] = inbox[e]
                          \/ (inbox[e] < day - Retention /\ inbox'[e] = None)
  BY DEF Prune, InboxInv, InboxTypeOK
<1>4. InboxTypeOK'
  BY DEF Prune, InboxInv, InboxTypeOK
<1>5. ItemsForgotten'
  <2> SUFFICES ASSUME NEW e \in Events
               PROVE  /\ created[e] <= 1
                      /\ inbox'[e] # None =>
                           created[e] = 1 /\ e <= Emitted /\ outbox[e] <= inbox'[e]
                      /\ created[e] = 1 /\ inbox'[e] = None => e <= Emitted /\ TooOld(e)
    BY <1>2 DEF ItemsForgotten
  <2>1. CASE inbox'[e] = inbox[e]
    BY <2>1 DEF InboxInv, ItemsForgotten
  <2>2. CASE inbox[e] # None /\ inbox[e] < day - Retention /\ inbox'[e] = None
    <3>1. created[e] = 1 /\ e <= Emitted /\ outbox[e] <= inbox[e]
      BY <2>2 DEF InboxInv, ItemsForgotten
    <3>2. outbox[e] \in Nat /\ inbox[e] \in Nat /\ day \in Nat
      BY <2>2, <3>1 DEF InboxInv, InboxTypeOK, Emitted, Events
    <3> QED
      BY <2>2, <3>1, <3>2 DEF TooOld, MaxAge
  <2> QED
    BY <1>3, <2>1, <2>2
<1>6. PositionsBehind' /\ ReadCovers' /\ InstallEventsKept'
  BY <1>2 DEF InboxInv, PositionsBehind, ReadCovers, InstallEventsKept
<1> QED
  BY <1>4, <1>5, <1>6 DEF InboxInv

(* The end of a process, and steps of other parts. *)
LEMMA RestartKeeps ==
    ASSUME InboxInv, StopPolling \/ CrashInbox \/ ExitInbox \/ Elsewhere
    PROVE  InboxInv'
<1> USE InboxAssumption DEF StopPolling, CrashInbox, ExitInbox, Reboot, Elsewhere, quietInbox,
        Troubled, NoRead, NoSetup
<1>1. ItemsForgotten' /\ Emitted' = Emitted /\ \A e : TooOld(e)' = TooOld(e)
  BY StillOld DEF InboxInv
<1>2. InboxTypeOK'
  <2>1. read' \in ReadType
    BY DEF InboxInv, InboxTypeOK, ReadType
  <2>2. setup' \in SetupType
    BY DEF InboxInv, InboxTypeOK, SetupType
  <2>3. trouble' \in 0..MaxTrouble
    <3>1. UNCHANGED trouble \/ Troubled
      BY DEF Troubled
    <3> QED
      BY <3>1, TroubleBounded DEF InboxInv, InboxTypeOK
  <2>4. stopped' \in BOOLEAN
    BY DEF InboxInv, InboxTypeOK
  <2> QED
    BY <2>1, <2>2, <2>3, <2>4 DEF InboxInv, InboxTypeOK, ReadType, SetupType
<1>3. PositionsBehind'
  BY <1>1 DEF InboxInv, InboxTypeOK, PositionsBehind, Emitted
<1>4. ReadCovers' /\ InstallEventsKept'
  BY <1>1 DEF InboxInv, ReadCovers, InstallEventsKept
<1> QED
  BY <1>1, <1>2, <1>3, <1>4 DEF InboxInv

LEMMA StepInv == InboxInv /\ InboxStep => InboxInv'
<1> SUFFICES ASSUME InboxInv, InboxStep PROVE InboxInv'
  OBVIOUS
<1>1. CASE InboxQuiet
  BY <1>1, WorldKeeps, ReadKeeps, AdvanceKeeps, SetupKeeps, OtherKeeps DEF InboxQuiet
<1>2. CASE \E upto \in 0..NumEvents :
             WriteEvents(upto) \/ \E at \in Events : WriteFails(upto, at)
  BY <1>2, StoreKeeps
<1>3. CASE StopPolling \/ CrashInbox \/ ExitInbox \/ Elsewhere
  BY <1>3, RestartKeeps
<1> QED
  BY <1>1, <1>2, <1>3 DEF InboxStep, InboxNext

-----------------------------------------------------------------------------
(* The dispatcher takes no other steps in the inbox. *)

LEMMA WriteElsewhere ==
    /\ \A s, outcome, attempts :
          WriteTool(s, outcome, attempts) => UNCHANGED trouble \/ Troubled
    /\ \A items, outcome :
          WriteAgent(items, outcome) => UNCHANGED trouble \/ Troubled
BY DEF WriteTool, WriteAgent

LEMMA NextIsInboxStep == [Next]_vars => InboxStep
<1> SUFFICES ASSUME [Next]_vars PROVE InboxStep
  OBVIOUS
<1> USE DEF InboxStep
<1>1. CASE UNCHANGED vars
  BY <1>1 DEF vars, inboxVars, Elsewhere, quietInbox
<1>2. CASE InboxQuiet \/ StopPolling
  BY <1>2 DEF InboxNext
<1>3. CASE StoreEvents
  BY <1>3 DEF StoreEvents, InboxNext
<1>4. CASE Restart
  BY <1>4 DEF Restart, InboxNext
<1>5. CASE Deliver
  <2>1. CASE EvaluateFails \/ EvaluateNone \/ \E ack \in {"accepted", "failed"} : Evaluate(ack)
    BY <2>1 DEF EvaluateFails, EvaluateNone, Evaluate, Elsewhere, quietInbox, inboxVars
  <2>2. ASSUME NEW result, CallEnds(result) PROVE Elsewhere
    BY <2>2, WriteElsewhere DEF CallEnds, Elsewhere
  <2>3. CASE RetryGone \/ RetryCalls \/ RetryThrows
    BY <2>3 DEF RetryGone, RetryCalls, RetryThrows, Elsewhere, quietInbox, inboxVars
  <2>4. CASE RetryAbandoned
    BY <2>4, WriteElsewhere DEF RetryAbandoned, Elsewhere
  <2> QED
    BY <1>5, <2>1, <2>2, <2>3, <2>4 DEF Deliver
<1>6. CASE \E due \in SUBSET Slots : SweepRetries(due)
  BY <1>6 DEF SweepRetries, Elsewhere, quietInbox, inboxVars
<1>7. CASE Resume \/ ResumeFails \/ EditRoute
  BY <1>7 DEF Resume, ResumeFails, EditRoute, Elsewhere, quietInbox, inboxVars
<1>8. CASE Wake
  BY <1>8, WriteElsewhere DEF Wake, WakeSettles, Elsewhere
<1> QED
  BY <1>1, <1>2, <1>3, <1>4, <1>5, <1>6, <1>7, <1>8 DEF Next

LEMMA Invariance == Spec => []InboxInv
<1>1. Init => InboxInv
  BY InitInv DEF Init
<1>2. InboxInv /\ [Next]_vars => InboxInv'
  BY StepInv, NextIsInboxStep
<1> QED
  BY <1>1, <1>2, PTL DEF Spec

-----------------------------------------------------------------------------
(* The theorems *)

(* The inbox, its cursor and its reads stay well typed under the dispatcher. *)
THEOREM InboxTypes == Spec => []InboxTypeOK
<1> QED
  BY Invariance, PTL DEF InboxInv

(* An install's events are not skipped, however reads, positions, uninstalls,
   faults and restarts interleave: the cursor of a connector that was told it is
   ready passes no later event that the inbox did not take. *)
THEOREM InstallKeepsEvents == Spec => []InstallEventsKept
<1> QED
  BY Invariance, PTL DEF InboxInv

(* No event enters the inbox twice, for any retention: the limit on how far back a
   read may go is what makes up for the dedupe that pruning forgets. *)
THEOREM StoredOnce == Spec => []CreatedOnce
<1>1. InboxInv => CreatedOnce
  BY DEF InboxInv, ItemsForgotten, CreatedOnce
<1> QED
  BY <1>1, Invariance, PTL

-----------------------------------------------------------------------------
(* The deliveries: the inductive invariant *)

TaskType ==
    [kind : {"eval", "retry"}, item : Events, tool : Tools \cup {1},
     attempts : 0..(MaxAttempts - 1)]

RowType == [outcome : Outcomes \ {"deferred"}, attempts : 0..MaxAttempts]

Rows == Events \X (Tools \cup {Agent})

Pends(s) == toolRow[s].outcome = "pending"

At(n) == <<chain[n].item, chain[n].tool>>

IsRetry(n) == n \in DOMAIN chain /\ chain[n].kind = "retry"

(* An item that was handed over and is not looked at yet. *)
Waits(n) == n \in DOMAIN chain /\ chain[n].kind = "eval" /\ ~(n = 1 /\ phase = "calling")

(* The head's tools have been seeded, and this one is still to be called. *)
ToCall(s) ==
    /\ chain # <<>> /\ phase = "calling" /\ chain[1].kind = "eval"
    /\ chain[1].item = s[1] /\ chain[1].tool <= s[2]

RoutesType ==
    /\ route \in BOOLEAN
    /\ agentRow \in [Events -> Outcomes \ {"pending"}]
    /\ toolRow \in [Slots -> RowType]
    /\ chain \in Seq(TaskType)
    /\ phase \in {"start", "calling"}
    /\ pending \in [Slots -> {None} \cup 0..(MaxAttempts - 1)]
    /\ resumed \in {"no", "yes", "failed"}
    /\ woken \subseteq Events
    /\ raced \subseteq Rows /\ unwritten \subseteq Rows
    /\ dropped \subseteq Events

(* A row that is still pending may be tried again, only tools are called, and
   the first of them first. *)
Callable ==
    /\ \A s \in Slots : Pends(s) => toolRow[s].attempts < MaxAttempts
    /\ \A n \in DOMAIN chain : IsRetry(n) => chain[n].tool \in Tools
    /\ \A n \in DOMAIN chain : Waits(n) => chain[n].tool = 1
    /\ phase = "calling" => chain # <<>> /\ chain[1].tool \in Tools

(* An item that was never stored has no rows, and nothing is planned for it. *)
Untouched(e) ==
    /\ agentRow[e] = "none" /\ e \notin woken
    /\ \A k \in Tools : toolRow[<<e, k>>].outcome = "none" /\ pending[<<e, k>>] = None

Fresh ==
    \A e \in Events : created[e] = 0 =>
        Untouched(e) /\ \A n \in DOMAIN chain : chain[n].item # e

(* An item waits once, and before anything is planned for it. *)
WaitsOnce ==
    \A n \in DOMAIN chain : Waits(n) =>
        /\ Untouched(chain[n].item)
        /\ \A m \in DOMAIN chain : chain[m].item = chain[n].item => m = n

(* A row is owed by one thing at a time, and only while it is pending; the rows
   resume() took from under a delivery excepted. *)
OwedOnce ==
    \A s \in Slots \ raced :
        /\ pending[s] # None =>
              Pends(s) /\ ~ToCall(s) /\ \A n \in DOMAIN chain : IsRetry(n) => At(n) # s
        /\ ToCall(s) =>
              Pends(s) /\ \A n \in DOMAIN chain : IsRetry(n) => At(n) # s
        /\ \A n \in DOMAIN chain : IsRetry(n) /\ At(n) = s =>
              Pends(s) /\ \A m \in DOMAIN chain : IsRetry(m) /\ At(m) = s => m = n

RoutesInv ==
    /\ RoutesType /\ Callable /\ Fresh /\ WaitsOnce /\ OwedOnce /\ NothingForgotten

-----------------------------------------------------------------------------
(* The chain of deliveries *)

LEMMA SlotIs ==
    ASSUME NEW s \in Slots
    PROVE  s[1] \in Events /\ s[2] \in Tools /\ s = <<s[1], s[2]>>
BY DEF Slots

LEMMA TaskIn ==
    ASSUME RoutesType, NEW n \in DOMAIN chain
    PROVE  /\ chain[n] \in TaskType
           /\ chain[n].item \in Events /\ chain[n].tool \in Tools \cup {1}
           /\ chain[n].attempts \in 0..(MaxAttempts - 1)
           /\ n \in 1..Len(chain) /\ Len(chain) \in Nat
<1>1. chain \in Seq(TaskType) /\ DOMAIN chain = 1..Len(chain) /\ Len(chain) \in Nat
  BY DEF RoutesType
<1>2. chain[n] \in TaskType
  BY <1>1
<1> QED
  BY <1>1, <1>2 DEF TaskType

LEMMA HeadIs ==
    ASSUME RoutesType, Running
    PROVE  /\ Task = chain[1] /\ Task \in TaskType /\ 1 \in DOMAIN chain
           /\ Slot = At(1)
BY DEF RoutesType, Running, Task, Slot, At

(* The delivery at the head is over. *)
LEMMA DoneFacts ==
    ASSUME RoutesType, Running, Done
    PROVE  /\ chain' \in Seq(TaskType) /\ phase' = "start"
           /\ Len(chain) \in Nat /\ DOMAIN chain = 1..Len(chain)
           /\ Len(chain') = Len(chain) - 1 /\ DOMAIN chain' = 1..(Len(chain) - 1)
           /\ \A n \in DOMAIN chain' : n + 1 \in DOMAIN chain /\ chain'[n] = chain[n + 1]
           /\ \A n \in DOMAIN chain : n # 1 =>
                 n - 1 \in DOMAIN chain' /\ chain'[n - 1] = chain[n]
BY DEF RoutesType, Running, Done

LEMMA UnderwayIs ==
    ASSUME RoutesType, NEW s \in Slots
    PROVE  Underway(s) <=> ToCall(s) \/ \E n \in DOMAIN chain : IsRetry(n) /\ At(n) = s
<1>1. (\E t \in Queued("retry") : <<t.item, t.tool>> = s)
         <=> \E n \in DOMAIN chain : IsRetry(n) /\ At(n) = s
  BY DEF Queued, IsRetry, At
<1>2. (/\ Running /\ phase = "calling"
       /\ Task.kind = "eval" /\ Task.item = s[1] /\ Task.tool <= s[2]) <=> ToCall(s)
  BY HeadIs DEF ToCall, Running
<1> QED
  BY <1>1, <1>2 DEF Underway

LEMMA UnderwayIsNext ==
    ASSUME RoutesType', NEW s \in Slots
    PROVE  Underway(s)' <=> ToCall(s)' \/ \E n \in DOMAIN chain' : IsRetry(n)' /\ At(n)' = s
<1>1. (\E t \in Queued("retry")' : <<t.item, t.tool>> = s)
         <=> \E n \in DOMAIN chain' : IsRetry(n)' /\ At(n)' = s
  BY DEF Queued, IsRetry, At
<1>2. chain' # <<>> => Task' = chain'[1]
  BY DEF RoutesType, Task
<1>3. (/\ Running' /\ phase' = "calling"
       /\ Task'.kind = "eval" /\ Task'.item = s[1] /\ Task'.tool <= s[2]) <=> ToCall(s)'
  BY <1>2 DEF ToCall, Running
<1> QED
  BY <1>1, <1>3 DEF Underway

-----------------------------------------------------------------------------
(* Steps that leave the chain alone *)

(* What is planned stays planned, when nothing that waits is touched. *)
LEMMA PlansKeep ==
    ASSUME RoutesInv, UNCHANGED <<toolRow, chain, phase, pending, raced, created>>,
           \A e \in Events : Untouched(e) => agentRow'[e] = "none" /\ e \notin woken'
    PROVE  Callable' /\ Fresh' /\ WaitsOnce' /\ OwedOnce'
<1>1. \A e \in Events : Untouched(e) => Untouched(e)'
  BY DEF Untouched
<1>2. Callable'
  BY DEF RoutesInv, Callable, Pends, IsRetry, Waits
<1>3. Fresh'
  BY <1>1 DEF RoutesInv, Fresh
<1>4. WaitsOnce'
  <2>1. \A n \in DOMAIN chain : chain[n].item \in Events
    BY TaskIn DEF RoutesInv
  <2> SUFFICES ASSUME NEW n \in DOMAIN chain, Waits(n)
               PROVE  /\ \A e : e = chain[n].item => Untouched(e)'
                      /\ \A m \in DOMAIN chain : chain[m].item = chain[n].item => m = n
    BY DEF WaitsOnce, Waits, Untouched
  <2> QED
    BY <1>1, <2>1 DEF RoutesInv, WaitsOnce
<1>5. OwedOnce'
  BY DEF RoutesInv, OwedOnce, Pends, ToCall, IsRetry, At
<1> QED
  BY <1>2, <1>3, <1>4, <1>5

LEMMA UnderwayKeeps ==
    ASSUME UNCHANGED <<chain, phase>>, NEW s
    PROVE  Underway(s)' <=> Underway(s)
BY DEF Underway, Queued, Running, Task

(* The inbox, the operator, and a fault of resume(). *)
LEMMA QuietKeeps ==
    ASSUME RoutesInv,
           \/ InboxQuiet /\ UNCHANGED routeVars
           \/ StopPolling /\ UNCHANGED routeVars
           \/ EditRoute \/ ResumeFails
           \/ UNCHANGED vars
    PROVE  RoutesInv'
<1>1. /\ UNCHANGED <<ledger, chain, phase, pending, woken, history, created>>
      /\ resumed' = resumed \/ resumed' = "failed"
      /\ stopped' = stopped \/ stopped' = TRUE
      /\ route' \in BOOLEAN
  <2>1. CASE InboxQuiet /\ UNCHANGED routeVars
    BY <2>1 DEF InboxQuiet, routeVars, memory, RoutesInv, RoutesType, Emit, NextDay,
       BeginRead, ReadFails, AdvanceCursor, AdvanceFails, OtherAppend, Install,
       PositionOutbox, PositionWrite, PositionFails, Uninstall
  <2>2. CASE StopPolling /\ UNCHANGED routeVars
    BY <2>2 DEF StopPolling, routeVars, memory, RoutesInv, RoutesType
  <2>3. CASE EditRoute \/ ResumeFails
    BY <2>3 DEF EditRoute, ResumeFails, memory, quietInbox, RoutesInv, RoutesType
  <2>4. CASE UNCHANGED vars
    BY <2>4 DEF vars, inboxVars, routeVars, memory, RoutesInv, RoutesType
  <2> QED
    BY <2>1, <2>2, <2>3, <2>4
<1>2. \A e \in Events : Held(e)' => Held(e)
  <2>1. CASE UNCHANGED inbox
    BY <2>1 DEF Held
  <2>2. CASE OtherAppend
    BY <2>2 DEF OtherAppend, Held, Prune
  <2> QED
    BY <2>1, <2>2 DEF InboxQuiet, Emit, NextDay, BeginRead, ReadFails, AdvanceCursor,
       AdvanceFails, Install, PositionOutbox, PositionWrite, PositionFails, Uninstall,
       StopPolling, EditRoute, ResumeFails, quietInbox, vars, inboxVars
<1>3. RoutesType'
  BY <1>1 DEF RoutesInv, RoutesType, ledger, history
<1>4. Callable' /\ Fresh' /\ WaitsOnce' /\ OwedOnce'
  BY <1>1, PlansKeep DEF ledger, history, Untouched
<1>5. NothingForgotten'
  <2>1. \A s \in Slots : Underway(s)' <=> Underway(s)
    BY <1>1, UnderwayKeeps
  <2> QED
    BY <1>1, <1>2, <2>1, SlotIs DEF RoutesInv, NothingForgotten, ledger, history
<1> QED
  BY <1>3, <1>4, <1>5 DEF RoutesInv

(* The process is replaced. *)
LEMMA RestartResets ==
    ASSUME RoutesInv, Restart
    PROVE  RoutesInv'
<1>1. /\ UNCHANGED <<route, ledger, raced, unwritten, created>>
      /\ chain' = <<>> /\ phase' = "start" /\ pending' = [s \in Slots |-> None]
      /\ resumed' = "no" /\ woken' = {}
  BY DEF Restart, CrashInbox, ExitInbox, Reboot
<1>2. RoutesType'
  <2>1. dropped' \subseteq Events
    <3>1. \A n \in DOMAIN chain : chain[n].item \in Events
      BY TaskIn DEF RoutesInv
    <3> QED
      BY <3>1 DEF Restart, RoutesInv, RoutesType
  <2> QED
    BY <1>1, <2>1 DEF RoutesInv, RoutesType, ledger
<1>3. Callable'
  BY <1>1 DEF RoutesInv, Callable, Pends, ledger
<1>4. Fresh'
  BY <1>1 DEF RoutesInv, Fresh, Untouched, Slots, ledger
<1>5. WaitsOnce' /\ OwedOnce' /\ NothingForgotten'
  BY <1>1 DEF WaitsOnce, OwedOnce, ToCall, NothingForgotten
<1> QED
  BY <1>2, <1>3, <1>4, <1>5 DEF RoutesInv

(* A task's batch ends. *)
LEMMA WakeKeeps ==
    ASSUME RoutesInv, NEW items \in SUBSET woken, NEW outcome \in {"delivered", "failed"},
           WakeSettles(items, outcome)
    PROVE  RoutesInv'
<1>1. /\ UNCHANGED <<quietInbox, route, toolRow, chain, phase, pending, resumed, raced, dropped>>
      /\ woken' = woken \ items
  BY DEF WakeSettles
<1>2. \/ /\ agentRow' = [e \in Events |-> IF e \in items /\ Held(e) THEN outcome ELSE agentRow[e]]
         /\ unwritten' = unwritten \ (items \X {Agent})
      \/ /\ agentRow' = agentRow /\ unwritten' = unwritten \cup (items \X {Agent})
  BY DEF WakeSettles, WriteAgent
<1>3. RoutesType'
  <2>1. agentRow' \in [Events -> Outcomes \ {"pending"}]
    BY <1>2 DEF RoutesInv, RoutesType, Outcomes
  <2>2. unwritten' \subseteq Rows
    BY <1>2 DEF RoutesInv, RoutesType, Rows
  <2> QED
    BY <1>1, <2>1, <2>2 DEF RoutesInv, RoutesType
<1>4. Callable' /\ Fresh' /\ WaitsOnce' /\ OwedOnce'
  <2>1. \A e \in Events : Untouched(e) => agentRow'[e] = "none" /\ e \notin woken'
    BY <1>1, <1>2 DEF Untouched
  <2> QED
    BY <1>1, <2>1, PlansKeep DEF quietInbox
<1>5. NothingForgotten'
  <2> SUFFICES ASSUME resumed = "yes", ~stopped
               PROVE  /\ \A s \in Slots :
                            Held(s[1]) /\ toolRow[s].outcome = "pending" /\ s \notin unwritten'
                               => pending[s] # None \/ Underway(s)'
                      /\ \A e \in Events :
                            Held(e) /\ agentRow'[e] = "deferred" /\ <<e, Agent>> \notin unwritten'
                               => e \in woken'
    BY <1>1 DEF NothingForgotten, quietInbox, Held
  <2>1. \A s \in Slots : s \in unwritten => s \in unwritten'
    BY <1>2 DEF Slots, Tools, Agent
  <2>2. \A s \in Slots : Underway(s)' <=> Underway(s)
    BY <1>1, UnderwayKeeps
  <2>3. ASSUME NEW e \in Events, Held(e), agentRow'[e] = "deferred", <<e, Agent>> \notin unwritten'
        PROVE  e \in woken'
    <3>1. e \notin items /\ agentRow[e] = "deferred" /\ <<e, Agent>> \notin unwritten
      BY <1>2, <2>3 DEF RoutesInv, RoutesType
    <3> QED
      BY <1>1, <2>3, <3>1 DEF RoutesInv, NothingForgotten
  <2> QED
    BY <2>1, <2>2, <2>3 DEF RoutesInv, NothingForgotten
<1> QED
  BY <1>3, <1>4, <1>5 DEF RoutesInv

(* resume() takes every open row; those under a delivery of this process are in
   "raced". *)
LEMMA ResumeKeeps ==
    ASSUME RoutesInv, Resume
    PROVE  RoutesInv'
<1> DEFINE slots == {s \in Slots : Held(s[1]) /\ Open(toolRow[s].outcome)}
<1>1. /\ resumed' = "yes"
      /\ pending' = [s \in Slots |-> IF s \in slots THEN toolRow[s].attempts ELSE pending[s]]
      /\ agentRow' = [e \in Events |-> IF e \in LostBatches THEN "failed" ELSE agentRow[e]]
      /\ raced' = raced \cup {s \in slots : Underway(s)} \cup ((LostBatches \cap woken) \X {Agent})
      /\ UNCHANGED <<inboxVars, route, toolRow, chain, phase, woken, unwritten, dropped>>
  BY DEF Resume
<1>2. \A s \in slots : Pends(s) /\ toolRow[s].attempts \in 0..(MaxAttempts - 1)
  <2> SUFFICES ASSUME NEW s \in slots
               PROVE  Pends(s) /\ toolRow[s].attempts \in 0..(MaxAttempts - 1)
    OBVIOUS
  <2>1. toolRow[s] \in RowType
    BY DEF RoutesInv, RoutesType
  <2>2. Pends(s)
    BY <2>1 DEF Pends, Open, RowType, Outcomes
  <2> QED
    BY <2>1, <2>2, RoutesAssumption DEF RoutesInv, Callable, RowType
<1>3. RoutesType'
  <2>1. pending' \in [Slots -> {None} \cup 0..(MaxAttempts - 1)]
    BY <1>1, <1>2 DEF RoutesInv, RoutesType
  <2>2. agentRow' \in [Events -> Outcomes \ {"pending"}]
    BY <1>1 DEF RoutesInv, RoutesType, Outcomes
  <2>3. raced' \subseteq Rows
    BY <1>1 DEF RoutesInv, RoutesType, Rows, Slots, LostBatches
  <2> QED
    BY <1>1, <2>1, <2>2, <2>3 DEF RoutesInv, RoutesType
<1>4. Callable'
  BY <1>1 DEF RoutesInv, Callable, Pends, IsRetry, Waits
<1>5. \A e \in Events : Untouched(e) => Untouched(e)'
  <2> SUFFICES ASSUME NEW e \in Events, Untouched(e) PROVE Untouched(e)'
    OBVIOUS
  <2>1. e \notin LostBatches
    BY DEF Untouched, LostBatches, Open
  <2>2. \A k \in Tools : <<e, k>> \in Slots /\ <<e, k>> \notin slots
    BY DEF Untouched, Slots, Open
  <2> QED
    BY <1>1, <2>1, <2>2 DEF Untouched
<1>6. Fresh'
  BY <1>1, <1>5 DEF RoutesInv, Fresh, inboxVars
<1>7. WaitsOnce'
  <2>1. \A n \in DOMAIN chain : chain[n].item \in Events
    BY TaskIn DEF RoutesInv
  <2> SUFFICES ASSUME NEW n \in DOMAIN chain, Waits(n)
               PROVE  /\ \A e : e = chain[n].item => Untouched(e)'
                      /\ \A m \in DOMAIN chain : chain[m].item = chain[n].item => m = n
    BY <1>1 DEF WaitsOnce, Waits, Untouched
  <2> QED
    BY <1>5, <2>1 DEF RoutesInv, WaitsOnce
<1>8. OwedOnce'
  <2> SUFFICES ASSUME NEW s \in Slots, s \notin raced'
               PROVE  /\ pending'[s] # None =>
                            Pends(s) /\ ~ToCall(s) /\ \A n \in DOMAIN chain : IsRetry(n) => At(n) # s
                      /\ ToCall(s) =>
                            Pends(s) /\ \A n \in DOMAIN chain : IsRetry(n) => At(n) # s
                      /\ \A n \in DOMAIN chain : IsRetry(n) /\ At(n) = s =>
                            Pends(s) /\ \A m \in DOMAIN chain : IsRetry(m) /\ At(m) = s => m = n
    BY <1>1 DEF OwedOnce, Pends, ToCall, IsRetry, At
  <2>1. s \in Slots \ raced
    BY <1>1
  <2>2. CASE s \in slots
    <3>1. ~Underway(s)
      BY <1>1, <2>2
    <3>2. ~ToCall(s) /\ \A n \in DOMAIN chain : IsRetry(n) => At(n) # s
      BY <3>1, UnderwayIs DEF RoutesInv
    <3> QED
      BY <1>2, <2>1, <2>2, <3>2 DEF RoutesInv, OwedOnce
  <2>3. CASE s \notin slots
    BY <1>1, <2>1, <2>3 DEF RoutesInv, OwedOnce
  <2> QED
    BY <2>2, <2>3
<1>9. NothingForgotten'
  <2>1. \A s \in Slots : Held(s[1])' /\ toolRow'[s].outcome = "pending" => pending'[s] # None
    <3> SUFFICES ASSUME NEW s \in Slots, Held(s[1]), toolRow[s].outcome = "pending"
                 PROVE  pending'[s] # None
      BY <1>1 DEF Held, inboxVars
    <3>1. s \in slots
      BY DEF Open
    <3> QED
      BY <1>1, <1>2, <3>1 DEF None
  <2>2. \A e \in Events : ~(Held(e)' /\ agentRow'[e] = "deferred")
    BY <1>1 DEF Held, inboxVars, LostBatches, Open
  <2> QED
    BY <2>1, <2>2 DEF NothingForgotten
<1> QED
  BY <1>3, <1>4, <1>6, <1>7, <1>8, <1>9 DEF RoutesInv

-----------------------------------------------------------------------------
(* Steps that put deliveries behind the chain *)

LEMMA AppendFacts ==
    ASSUME chain \in Seq(TaskType), NEW more \in Seq(TaskType), chain' = chain \o more
    PROVE  /\ chain' \in Seq(TaskType)
           /\ Len(chain) \in Nat /\ DOMAIN chain = 1..Len(chain)
           /\ \A n \in DOMAIN chain : n \in DOMAIN chain' /\ chain'[n] = chain[n]
           /\ \A n \in DOMAIN chain' : n \notin DOMAIN chain =>
                 /\ n \in Nat /\ n > Len(chain)
                 /\ n - Len(chain) \in DOMAIN more
                 /\ chain'[n] = more[n - Len(chain)]
OBVIOUS

(* What was in the chain is where it was. *)
LEMMA AppendKeeps ==
    ASSUME RoutesInv, NEW more \in Seq(TaskType), chain' = chain \o more, phase' = phase
    PROVE  /\ \A n \in DOMAIN chain : (Waits(n)' <=> Waits(n)) /\ (IsRetry(n)' <=> IsRetry(n))
                                       /\ At(n)' = At(n)
           /\ \A s : ToCall(s)' <=> ToCall(s)
           /\ phase = "calling" => chain # <<>> /\ chain'[1] = chain[1] /\ 1 \in DOMAIN chain
<1>1. /\ Len(chain) \in Nat /\ DOMAIN chain = 1..Len(chain) /\ chain \in Seq(TaskType)
      /\ \A n \in DOMAIN chain : n \in DOMAIN chain' /\ chain'[n] = chain[n]
  BY AppendFacts DEF RoutesInv, RoutesType
<1>2. phase = "calling" => chain # <<>> /\ chain'[1] = chain[1] /\ 1 \in DOMAIN chain
  BY <1>1 DEF RoutesInv, Callable
<1>3. phase = "calling" => chain' # <<>>
  BY <1>1, <1>2
<1>4. \A s : ToCall(s)' <=> ToCall(s)
  BY <1>2, <1>3 DEF ToCall
<1> QED
  BY <1>1, <1>2, <1>4 DEF Waits, IsRetry, At

LEMMA EventsFinite == IsFiniteSet(Events) /\ IsFiniteSet(Tools) /\ IsFiniteSet(Slots)
<1>1. IsFiniteSet(Events) /\ IsFiniteSet(Tools)
  BY FS_Interval, InboxAssumption, RoutesAssumption DEF Events, Tools
<1> QED
  BY <1>1, FS_Product DEF Slots

(* The poller stores an answer and hands over what it created. *)
LEMMA StoreIs ==
    ASSUME InboxInv, StoreEvents
    PROVE  \E new \in SUBSET Events :
              /\ HandOver(new)
              /\ \A e \in new : created[e] = 0 /\ inbox[e] = None
              /\ \A e \in Events : (Held(e)' => Held(e) \/ e \in new)
              /\ \A e \in Events : created'[e] = IF e \in new THEN created[e] + 1 ELSE created[e]
              /\ UNCHANGED stopped
<1>1. ASSUME NEW events, \A e \in events : e \in 1..Emitted /\ ~TooOld(e), WriteAll(events)
      PROVE  /\ Creates(events) \in SUBSET Events
             /\ \A e \in Creates(events) : created[e] = 0 /\ inbox[e] = None
             /\ \A e \in Events : (Held(e)' => Held(e) \/ e \in Creates(events))
             /\ \A e \in Events : created'[e] =
                   IF e \in Creates(events) THEN created[e] + 1 ELSE created[e]
  <2>1. \A e \in Creates(events) : e \in Events /\ inbox[e] = None /\ created[e] = 0
    BY <1>1, CreatesNew
  <2>2. \A e \in Events : e \notin Creates(events) => inbox'[e] = inbox[e] \/ inbox'[e] = None
    BY <1>1 DEF WriteAll, Prune, InboxInv, InboxTypeOK
  <2>3. \A e \in Events : created'[e] =
                   IF e \in Creates(events) THEN created[e] + 1 ELSE created[e]
    BY <1>1 DEF WriteAll
  <2> QED
    BY <2>1, <2>2, <2>3 DEF Held
<1>2. PICK upto \in 0..NumEvents :
         \/ WriteEvents(upto) /\ HandOver(Creates(Answered(read.from, upto)))
         \/ \E at \in Events :
               WriteFails(upto, at) /\ HandOver(Creates(Answered(read.from, at - 1)))
  BY DEF StoreEvents
<1>3. upto \in AnswerEnds(read.from) /\ UNCHANGED stopped
  BY <1>2 DEF WriteEvents, WriteFails
<1>4. CASE WriteEvents(upto) /\ HandOver(Creates(Answered(read.from, upto)))
  <2>1. WriteAll(Answered(read.from, upto))
    BY <1>4 DEF WriteEvents
  <2> QED
    BY <1>1, <1>3, <1>4, <2>1, AnswerBounds
<1>5. ASSUME NEW at \in Events, WriteFails(upto, at),
             HandOver(Creates(Answered(read.from, at - 1)))
      PROVE  \E new \in SUBSET Events :
              /\ HandOver(new)
              /\ \A e \in new : created[e] = 0 /\ inbox[e] = None
              /\ \A e \in Events : (Held(e)' => Held(e) \/ e \in new)
              /\ \A e \in Events : created'[e] = IF e \in new THEN created[e] + 1 ELSE created[e]
              /\ UNCHANGED stopped
  <2>1. WriteAll(Answered(read.from, at - 1)) /\ at \in Answered(read.from, upto)
    BY <1>5 DEF WriteFails
  <2>2. Answered(read.from, at - 1) \subseteq Answered(read.from, upto)
    BY <2>1, InboxAssumption DEF Answered, Events, InboxInv, InboxTypeOK
  <2> QED
    BY <1>1, <1>3, <1>5, <2>1, <2>2, AnswerBounds
<1> QED
  BY <1>2, <1>4, <1>5

LEMMA StoreRoutes ==
    ASSUME InboxInv, RoutesInv, StoreEvents
    PROVE  RoutesInv'
<1>1. PICK new \in SUBSET Events :
              /\ HandOver(new)
              /\ \A e \in new : created[e] = 0 /\ inbox[e] = None
              /\ \A e \in Events : (Held(e)' => Held(e) \/ e \in new)
              /\ \A e \in Events : created'[e] = IF e \in new THEN created[e] + 1 ELSE created[e]
              /\ UNCHANGED stopped
  BY StoreIs
<1>2. PICK order \in [1..Cardinality(new) -> new] :
          /\ \A m, n \in DOMAIN order : m < n => order[m] < order[n]
          /\ chain' = chain \o [n \in DOMAIN order |-> Evaluation(order[n])]
  BY <1>1 DEF HandOver
<1>3. UNCHANGED <<route, ledger, phase, pending, resumed, woken, history>>
  BY <1>1 DEF HandOver
<1> DEFINE more == [n \in DOMAIN order |-> Evaluation(order[n])]
<1>4. Cardinality(new) \in Nat
  BY EventsFinite, FS_Subset, FS_CardinalityType
<1>5. DOMAIN order = 1..Cardinality(new) /\ DOMAIN more = 1..Cardinality(new)
  OBVIOUS
<1>6. \A n \in DOMAIN more :
          /\ more[n] \in TaskType /\ more[n].kind = "eval" /\ more[n].tool = 1
          /\ more[n].item = order[n] /\ order[n] \in new /\ order[n] \in Nat
  <2> SUFFICES ASSUME NEW n \in 1..Cardinality(new)
               PROVE  /\ Evaluation(order[n]) \in TaskType /\ Evaluation(order[n]).kind = "eval"
                      /\ Evaluation(order[n]).tool = 1
                      /\ Evaluation(order[n]).item = order[n]
                      /\ order[n] \in new /\ order[n] \in Nat
    BY <1>5
  <2>1. order[n] \in new /\ order[n] \in Events
    BY <1>5
  <2>2. 0 \in 0..(MaxAttempts - 1)
    BY RoutesAssumption
  <2> QED
    BY <2>1, <2>2 DEF Evaluation, TaskType, Events
<1>7. more \in Seq(TaskType)
  BY <1>4, <1>5, <1>6
<1>8. \A m, n \in DOMAIN more : more[m].item = more[n].item => m = n
  <2> SUFFICES ASSUME NEW m \in DOMAIN more, NEW n \in DOMAIN more, order[m] = order[n]
               PROVE  m = n
    BY <1>6
  <2>1. ~(m < n) /\ ~(n < m)
    BY <1>2, <1>5, <1>6
  <2> QED
    BY <1>4, <1>5, <2>1
<1>9. chain' = chain \o more
  BY <1>2
<1> HIDE DEF more
<1>10. /\ chain' \in Seq(TaskType)
       /\ Len(chain) \in Nat /\ DOMAIN chain = 1..Len(chain)
       /\ \A n \in DOMAIN chain : n \in DOMAIN chain' /\ chain'[n] = chain[n]
       /\ \A n \in DOMAIN chain' : n \notin DOMAIN chain =>
                 /\ n \in Nat /\ n > Len(chain)
                 /\ n - Len(chain) \in DOMAIN more
                 /\ chain'[n] = more[n - Len(chain)]
  BY <1>7, <1>9, AppendFacts DEF RoutesInv, RoutesType
<1>11. /\ \A n \in DOMAIN chain : (Waits(n)' <=> Waits(n)) /\ (IsRetry(n)' <=> IsRetry(n))
                                       /\ At(n)' = At(n)
       /\ \A s : ToCall(s)' <=> ToCall(s)
       /\ phase = "calling" => chain # <<>> /\ chain'[1] = chain[1] /\ 1 \in DOMAIN chain
  BY <1>3, <1>7, <1>9, AppendKeeps
<1>12. \A n \in DOMAIN chain' : n \notin DOMAIN chain =>
          /\ chain'[n].kind = "eval" /\ chain'[n].item \in new
          /\ \A m \in DOMAIN chain' : chain'[m].item = chain'[n].item => m = n
  <2> SUFFICES ASSUME NEW n \in DOMAIN chain', n \notin DOMAIN chain
               PROVE  /\ chain'[n].kind = "eval" /\ chain'[n].item \in new
                      /\ \A m \in DOMAIN chain' : chain'[m].item = chain'[n].item => m = n
    OBVIOUS
  <2>1. chain'[n].kind = "eval" /\ chain'[n].item \in new
    BY <1>6, <1>10
  <2>2. ASSUME NEW m \in DOMAIN chain, chain'[m].item = chain'[n].item PROVE FALSE
    <3>1. chain[m].item \in new
      BY <1>10, <2>1, <2>2
    <3> QED
      BY <1>1, <3>1 DEF RoutesInv, Fresh
  <2>3. ASSUME NEW m \in DOMAIN chain', m \notin DOMAIN chain, chain'[m].item = chain'[n].item
        PROVE  m = n
    <3>1. m - Len(chain) = n - Len(chain)
      BY <1>8, <1>10, <2>3
    <3> QED
      BY <1>10, <2>3, <3>1
  <2> QED
    BY <2>1, <2>2, <2>3
<1>13. \A n \in DOMAIN chain' : IsRetry(n)' => n \in DOMAIN chain
  BY <1>12 DEF IsRetry
<1>20. RoutesType'
  BY <1>3, <1>10 DEF RoutesInv, RoutesType, ledger, history
<1>21. Callable'
  <2>1. \A n \in DOMAIN chain' : IsRetry(n)' => chain'[n].tool \in Tools
    BY <1>10, <1>11, <1>13 DEF RoutesInv, Callable
  <2>3. \A n \in DOMAIN chain' : Waits(n)' => chain'[n].tool = 1
    <3>1. \A n \in DOMAIN chain' : n \notin DOMAIN chain => chain'[n].tool = 1
      BY <1>6, <1>10
    <3> QED
      BY <1>10, <1>11, <3>1 DEF RoutesInv, Callable
  <2>2. phase = "calling" => chain' # <<>> /\ chain'[1].tool \in Tools
    BY <1>10, <1>11 DEF RoutesInv, Callable
  <2> QED
    BY <1>3, <2>1, <2>2, <2>3 DEF RoutesInv, Callable, Pends, ledger
<1>22. \A e \in Events : created'[e] = 0 => e \notin new /\ created[e] = 0
  BY <1>1
<1>23. \A e \in Events : Untouched(e)' <=> Untouched(e)
  BY <1>3 DEF Untouched, ledger
<1>24. Fresh'
  <2> SUFFICES ASSUME NEW e \in Events, created'[e] = 0
               PROVE  Untouched(e) /\ \A n \in DOMAIN chain' : chain'[n].item # e
    BY <1>23 DEF Fresh
  <2> QED
    BY <1>10, <1>12, <1>22 DEF RoutesInv, Fresh
<1>25. WaitsOnce'
  <2>1. \A n \in DOMAIN chain : chain[n].item \in Events
    BY TaskIn DEF RoutesInv
  <2> SUFFICES ASSUME NEW n \in DOMAIN chain', Waits(n)'
               PROVE  /\ \A e : e = chain'[n].item => Untouched(e)'
                      /\ \A m \in DOMAIN chain' : chain'[m].item = chain'[n].item => m = n
    BY DEF WaitsOnce, Untouched
  <2>2. CASE n \in DOMAIN chain
    <3>1. /\ \A e : e = chain[n].item => Untouched(e)
          /\ \A m \in DOMAIN chain : chain[m].item = chain[n].item => m = n
      BY <1>11, <2>2 DEF RoutesInv, WaitsOnce
    <3>2. ASSUME NEW m \in DOMAIN chain', m \notin DOMAIN chain PROVE chain'[m].item # chain'[n].item
      BY <1>10, <1>12, <2>2, <3>2
    <3> QED
      BY <1>10, <1>23, <2>1, <2>2, <3>1, <3>2
  <2>3. CASE n \notin DOMAIN chain
    <3>1. chain'[n].item \in new
      BY <1>12, <2>3
    <3>2. \A e \in new : Untouched(e)'
      BY <1>1, <1>23 DEF RoutesInv, Fresh
    <3> QED
      BY <1>12, <2>3, <3>1, <3>2
  <2> QED
    BY <2>2, <2>3
<1>26. OwedOnce'
  <2> SUFFICES ASSUME NEW s \in Slots \ raced
               PROVE  /\ pending[s] # None =>
                            Pends(s) /\ ~ToCall(s) /\ \A n \in DOMAIN chain' : IsRetry(n)' => At(n)' # s
                      /\ ToCall(s) =>
                            Pends(s) /\ \A n \in DOMAIN chain' : IsRetry(n)' => At(n)' # s
                      /\ \A n \in DOMAIN chain' : IsRetry(n)' /\ At(n)' = s =>
                            Pends(s) /\ \A m \in DOMAIN chain' : IsRetry(m)' /\ At(m)' = s => m = n
    BY <1>3, <1>11 DEF OwedOnce, Pends, ledger, history
  <2> QED
    BY <1>11, <1>13 DEF RoutesInv, OwedOnce
<1>27. NothingForgotten'
  <2>1. \A s \in Slots : Underway(s) => Underway(s)'
    <3> SUFFICES ASSUME NEW s \in Slots, Underway(s) PROVE Underway(s)'
      OBVIOUS
    <3>1. ToCall(s) \/ \E n \in DOMAIN chain : IsRetry(n) /\ At(n) = s
      BY UnderwayIs DEF RoutesInv
    <3>2. ToCall(s)' \/ \E n \in DOMAIN chain' : IsRetry(n)' /\ At(n)' = s
      BY <1>10, <1>11, <3>1
    <3> QED
      BY <1>20, <3>2, UnderwayIsNext
  <2>2. \A e \in Events : Held(e)' => Held(e) \/ Untouched(e)
    BY <1>1 DEF RoutesInv, Fresh
  <2> SUFFICES ASSUME resumed = "yes", ~stopped
               PROVE  /\ \A s \in Slots :
                            Held(s[1])' /\ toolRow[s].outcome = "pending" /\ s \notin unwritten
                               => pending[s] # None \/ Underway(s)'
                      /\ \A e \in Events :
                            Held(e)' /\ agentRow[e] = "deferred" /\ <<e, Agent>> \notin unwritten
                               => e \in woken
    BY <1>1, <1>3 DEF NothingForgotten, ledger, history
  <2>3. ASSUME NEW s \in Slots, Held(s[1])', toolRow[s].outcome = "pending", s \notin unwritten
        PROVE  pending[s] # None \/ Underway(s)'
    <3>1. Held(s[1])
      BY <2>2, <2>3, SlotIs DEF Untouched
    <3> QED
      BY <2>1, <2>3, <3>1 DEF RoutesInv, NothingForgotten
  <2>4. ASSUME NEW e \in Events, Held(e)', agentRow[e] = "deferred", <<e, Agent>> \notin unwritten
        PROVE  e \in woken
    BY <2>2, <2>4 DEF Untouched, RoutesInv, NothingForgotten
  <2> QED
    BY <2>3, <2>4
<1> QED
  BY <1>20, <1>21, <1>24, <1>25, <1>26, <1>27 DEF RoutesInv

(* Whatever ends a delivery leaves the rest of the chain as it was, as long as
   it touched only the item at the head. *)
LEMMA DoneKeeps ==
    ASSUME RoutesInv, Running, Done, raced' = raced, created' = created,
           \A s \in Slots : s[1] # Task.item =>
               toolRow'[s] = toolRow[s] /\ pending'[s] = pending[s],
           \A e \in Events : e # Task.item =>
               agentRow'[e] = agentRow[e] /\ (e \in woken' => e \in woken),
           \A s \in Slots : Pends(s)' => toolRow'[s].attempts < MaxAttempts,
           \A s \in Slots \ raced :
               s[1] = Task.item =>
                   /\ pending'[s] # None =>
                         Pends(s)' /\ \A n \in DOMAIN chain : n # 1 /\ IsRetry(n) => At(n) # s
                   /\ (\E n \in DOMAIN chain : n # 1 /\ IsRetry(n) /\ At(n) = s) => Pends(s)'
    PROVE  Callable' /\ Fresh' /\ WaitsOnce' /\ OwedOnce'
<1> USE DEF RoutesInv
<1>1. /\ phase' = "start" /\ Len(chain) \in Nat /\ DOMAIN chain = 1..Len(chain)
      /\ DOMAIN chain' = 1..(Len(chain) - 1)
      /\ \A n \in DOMAIN chain' : n + 1 \in DOMAIN chain /\ chain'[n] = chain[n + 1]
  BY DoneFacts
<1>2. \A n \in DOMAIN chain' :
          /\ IsRetry(n)' <=> IsRetry(n + 1)
          /\ At(n)' = At(n + 1)
          /\ Waits(n)' => Waits(n + 1)
  BY <1>1 DEF IsRetry, At, Waits
<1>3. Task = chain[1] /\ 1 \in DOMAIN chain /\ Task \in TaskType
  BY HeadIs
<1>4. \A n \in DOMAIN chain : chain[n] \in TaskType
  BY <1>1 DEF RoutesType
<1>5. Callable'
  BY <1>1, <1>2 DEF Callable, Pends
<1>6. Fresh'
  <2> SUFFICES ASSUME NEW e \in Events, created[e] = 0
               PROVE  Untouched(e)' /\ \A n \in DOMAIN chain' : chain'[n].item # e
    BY DEF Fresh
  <2>1. e # Task.item /\ Untouched(e) /\ \A n \in DOMAIN chain : chain[n].item # e
    BY <1>3 DEF Fresh
  <2>2. Untouched(e)'
    BY <2>1 DEF Untouched, Slots
  <2> QED
    BY <1>1, <2>1, <2>2
<1>7. WaitsOnce'
  <2> SUFFICES ASSUME NEW n \in DOMAIN chain', Waits(n)'
               PROVE  /\ \A e : e = chain'[n].item => Untouched(e)'
                      /\ \A m \in DOMAIN chain' : chain'[m].item = chain'[n].item => m = n
    BY DEF WaitsOnce, Untouched
  <2>1. n + 1 \in DOMAIN chain /\ Waits(n + 1) /\ chain'[n] = chain[n + 1] /\ n \in Nat /\ n # 0
    BY <1>1, <1>2
  <2>2. /\ Untouched(chain[n + 1].item)
        /\ \A m \in DOMAIN chain : chain[m].item = chain[n + 1].item => m = n + 1
    BY <2>1 DEF WaitsOnce
  <2>3. chain[n + 1].item # Task.item /\ chain[n + 1].item \in Events
    BY <1>3, <1>4, <2>1, <2>2 DEF TaskType
  <2>4. \A e : e = chain[n + 1].item => Untouched(e)'
    BY <2>2, <2>3, <2>1 DEF Untouched, Slots
  <2>5. \A m \in DOMAIN chain' : chain'[m].item = chain'[n].item => m = n
    BY <1>1, <2>1, <2>2
  <2> QED
    BY <2>1, <2>4, <2>5
<1>8. OwedOnce'
  <2> SUFFICES ASSUME NEW s \in Slots, s \notin raced
               PROVE  /\ pending'[s] # None =>
                            Pends(s)' /\ \A n \in DOMAIN chain' : IsRetry(n)' => At(n)' # s
                      /\ \A n \in DOMAIN chain' : IsRetry(n)' /\ At(n)' = s =>
                            Pends(s)' /\ \A m \in DOMAIN chain' : IsRetry(m)' /\ At(m)' = s => m = n
    BY <1>1 DEF OwedOnce, ToCall
  <2>1. /\ pending[s] # None =>
              Pends(s) /\ \A n \in DOMAIN chain : IsRetry(n) => At(n) # s
        /\ \A n \in DOMAIN chain : IsRetry(n) /\ At(n) = s =>
              Pends(s) /\ \A m \in DOMAIN chain : IsRetry(m) /\ At(m) = s => m = n
    BY DEF OwedOnce
  <2>2. ASSUME pending'[s] # None
        PROVE  Pends(s)' /\ \A n \in DOMAIN chain : n # 1 /\ IsRetry(n) => At(n) # s
    BY <2>1, <2>2 DEF Pends
  <2>3. ASSUME NEW n \in DOMAIN chain, n # 1, IsRetry(n), At(n) = s PROVE Pends(s)'
    BY <2>1, <2>3 DEF Pends
  <2>4. ASSUME pending'[s] # None, NEW n \in DOMAIN chain', IsRetry(n)' PROVE At(n)' # s
    BY <1>1, <1>2, <2>2, <2>4
  <2>5. ASSUME NEW n \in DOMAIN chain', IsRetry(n)', At(n)' = s
        PROVE  Pends(s)' /\ \A m \in DOMAIN chain' : IsRetry(m)' /\ At(m)' = s => m = n
    <3>1. n + 1 \in DOMAIN chain /\ n + 1 # 1 /\ IsRetry(n + 1) /\ At(n + 1) = s
      BY <1>1, <1>2, <2>5
    <3>2. \A m \in DOMAIN chain' : IsRetry(m)' /\ At(m)' = s => m + 1 = n + 1
      BY <1>1, <1>2, <2>1, <3>1
    <3> QED
      BY <1>1, <2>3, <3>1, <3>2
  <2> QED
    BY <2>2, <2>4, <2>5
<1> QED
  BY <1>5, <1>6, <1>7, <1>8

(* What was under way stays under way, but for the delivery that ended. *)
LEMMA DoneUnderway ==
    ASSUME RoutesInv, RoutesType', Running, Done, NEW s \in Slots, Underway(s), ~ToCall(s),
           Task.kind = "retry" => s # Slot
    PROVE  Underway(s)'
<1>1. PICK n \in DOMAIN chain : IsRetry(n) /\ At(n) = s
  BY UnderwayIs DEF RoutesInv
<1>2. n # 1
  BY <1>1, HeadIs DEF RoutesInv, IsRetry
<1>3. n - 1 \in DOMAIN chain' /\ chain'[n - 1] = chain[n]
  BY <1>2, DoneFacts DEF RoutesInv
<1>4. IsRetry(n - 1)' /\ At(n - 1)' = s
  BY <1>1, <1>3 DEF IsRetry, At
<1> QED
  BY <1>3, <1>4, UnderwayIsNext

(* A step that leaves every row either as it was, or settled, or planned. *)
LEMMA Remembered ==
    ASSUME RoutesInv, UNCHANGED <<resumed, stopped, inbox>>,
           \A s \in Slots :
               \/ /\ toolRow'[s] = toolRow[s] /\ pending'[s] = pending[s]
                  /\ s \in unwritten => s \in unwritten'
                  /\ Underway(s) => Underway(s)'
               \/ stopped \/ ~Held(s[1]) \/ toolRow'[s].outcome # "pending" \/ s \in unwritten'
               \/ pending'[s] # None \/ Underway(s)',
           \A e \in Events : agentRow'[e] = "deferred" =>
               \/ e \in woken'
               \/ /\ agentRow[e] = "deferred"
                  /\ <<e, Agent>> \in unwritten => <<e, Agent>> \in unwritten'
                  /\ e \in woken => e \in woken'
    PROVE  NothingForgotten'
<1> SUFFICES ASSUME resumed = "yes", ~stopped
             PROVE  /\ \A s \in Slots :
                          Held(s[1]) /\ toolRow'[s].outcome = "pending" /\ s \notin unwritten'
                             => pending'[s] # None \/ Underway(s)'
                    /\ \A e \in Events :
                          Held(e) /\ agentRow'[e] = "deferred" /\ <<e, Agent>> \notin unwritten'
                             => e \in woken'
  BY DEF NothingForgotten, Held
<1>1. /\ \A s \in Slots :
            Held(s[1]) /\ toolRow[s].outcome = "pending" /\ s \notin unwritten
               => pending[s] # None \/ Underway(s)
      /\ \A e \in Events :
            Held(e) /\ agentRow[e] = "deferred" /\ <<e, Agent>> \notin unwritten => e \in woken
  BY DEF RoutesInv, NothingForgotten
<1> QED
  BY <1>1

(* The row of one tool is written, or the write fails. *)
LEMMA WriteToolFacts ==
    ASSUME RoutesInv, NEW s \in Slots, NEW outcome \in Outcomes \ {"deferred"},
           NEW attempts \in 0..MaxAttempts, outcome = "pending" => attempts < MaxAttempts,
           WriteTool(s, outcome, attempts)
    PROVE  /\ toolRow' \in [Slots -> RowType] /\ unwritten' \subseteq Rows
           /\ \A x \in Slots : x # s =>
                 toolRow'[x] = toolRow[x] /\ (x \in unwritten => x \in unwritten')
           /\ \A e : <<e, Agent>> \in unwritten => <<e, Agent>> \in unwritten'
           /\ toolRow'[s] = toolRow[s] \/ toolRow'[s].outcome = outcome
           /\ ~Held(s[1]) \/ s \in unwritten' \/ toolRow'[s].outcome = outcome
           /\ \A x \in Slots : Pends(x)' => toolRow'[x].attempts < MaxAttempts
<1>1. Row(outcome, attempts) \in RowType /\ Row(outcome, attempts).outcome = outcome
  BY RoutesAssumption DEF Row, RowType
<1>2. outcome = "pending" => Row(outcome, attempts).attempts < MaxAttempts
  BY DEF Row
<1>3. \A e : <<e, Agent>> # s
  BY SlotIs DEF Agent, Tools
<1>4. s \in Rows
  BY DEF Slots, Rows
<1>5. \/ /\ toolRow' = IF Held(s[1]) THEN [toolRow EXCEPT ![s] = Row(outcome, attempts)] ELSE toolRow
         /\ unwritten' = unwritten \ {s}
      \/ unwritten' = unwritten \cup {s} /\ toolRow' = toolRow
  BY DEF WriteTool
<1>6. toolRow \in [Slots -> RowType] /\ unwritten \subseteq Rows
      /\ \A x \in Slots : Pends(x) => toolRow[x].attempts < MaxAttempts
  BY DEF RoutesInv, RoutesType, Callable
<1>7. toolRow' = toolRow \/ toolRow' = [toolRow EXCEPT ![s] = Row(outcome, attempts)]
  BY <1>5
<1>8. toolRow' \in [Slots -> RowType] /\ unwritten' \subseteq Rows
  BY <1>1, <1>4, <1>5, <1>6
<1>9. \A x \in Slots : x # s =>
                 toolRow'[x] = toolRow[x] /\ (x \in unwritten => x \in unwritten')
  BY <1>5, <1>6
<1>10. \A x \in Slots : Pends(x)' => toolRow'[x].attempts < MaxAttempts
  BY <1>1, <1>2, <1>6, <1>7 DEF Pends
<1>11. \A e : <<e, Agent>> \in unwritten => <<e, Agent>> \in unwritten'
  BY <1>3, <1>5
<1> QED
  BY <1>1, <1>5, <1>6, <1>8, <1>9, <1>10, <1>11

-----------------------------------------------------------------------------
(* Steps of the delivery at the head that end it *)

(* It is given up before anything is called. *)
LEMMA DropKeeps ==
    ASSUME RoutesInv, EvaluateFails \/ EvaluateNone \/ RetryGone
    PROVE  RoutesInv'
<1>1. /\ Running /\ Done /\ phase = "start"
      /\ UNCHANGED <<inbox, stopped, created, route, ledger, pending, resumed, woken, raced, unwritten>>
      /\ Task.kind = "retry" => stopped \/ ~Held(Task.item)
  BY DEF EvaluateFails, EvaluateNone, RetryGone, quietInbox, inboxVars, history
<1>2. dropped' \subseteq Events
  BY <1>1, HeadIs DEF EvaluateFails, EvaluateNone, RetryGone, RoutesInv, RoutesType, history, TaskType
<1>3. RoutesType'
  BY <1>1, <1>2, DoneFacts DEF RoutesInv, RoutesType, ledger
<1>4. Callable' /\ Fresh' /\ WaitsOnce' /\ OwedOnce'
  <2>1. \A s \in Slots : Pends(s)' => toolRow'[s].attempts < MaxAttempts
    BY <1>1 DEF RoutesInv, Callable, Pends, ledger
  <2>2. \A s \in Slots \ raced :
           /\ pending'[s] # None => Pends(s)' /\ \A n \in DOMAIN chain : n # 1 /\ IsRetry(n) => At(n) # s
           /\ (\E n \in DOMAIN chain : n # 1 /\ IsRetry(n) /\ At(n) = s) => Pends(s)'
    BY <1>1 DEF RoutesInv, OwedOnce, Pends, ledger
  <2> QED
    BY <1>1, <2>1, <2>2, DoneKeeps DEF ledger
<1>5. NothingForgotten'
  <2>1. \A s \in Slots : ~ToCall(s)
    BY <1>1 DEF ToCall
  <2>2. Task.kind = "retry" => \A s \in Slots : s = Slot => stopped \/ ~Held(s[1])
    BY <1>1, SlotIs DEF Slot
  <2> QED
    BY <1>1, <1>3, <2>1, <2>2, DoneUnderway, Remembered DEF ledger
<1> QED
  BY <1>3, <1>4, <1>5 DEF RoutesInv

(* A retry that throws is put back. *)
LEMMA ThrowKeeps ==
    ASSUME RoutesInv, RetryThrows
    PROVE  RoutesInv'
<1>1. /\ Running /\ Done /\ phase = "start" /\ Task.kind = "retry"
      /\ pending' = IF pending[Slot] = None THEN [pending EXCEPT ![Slot] = Task.attempts] ELSE pending
      /\ UNCHANGED <<inbox, stopped, created, route, ledger, resumed, woken, history>>
  BY DEF RetryThrows, quietInbox
<1>2. /\ Slot \in Slots /\ IsRetry(1) /\ At(1) = Slot /\ 1 \in DOMAIN chain
      /\ Task.attempts \in 0..(MaxAttempts - 1)
  BY <1>1, HeadIs DEF RoutesInv, Callable, IsRetry, TaskType, Slot, Slots
<1>3. /\ pending' \in [Slots -> {None} \cup 0..(MaxAttempts - 1)]
      /\ pending'[Slot] # None
      /\ \A s \in Slots : s # Slot => pending'[s] = pending[s]
  BY <1>1, <1>2 DEF RoutesInv, RoutesType, None
<1>4. RoutesType'
  BY <1>1, <1>3, DoneFacts DEF RoutesInv, RoutesType, ledger, history
<1>5. Callable' /\ Fresh' /\ WaitsOnce' /\ OwedOnce'
  <2>1. \A s \in Slots : Pends(s)' => toolRow'[s].attempts < MaxAttempts
    BY <1>1 DEF RoutesInv, Callable, Pends, ledger
  <2>2. \A s \in Slots \ raced :
           /\ pending'[s] # None => Pends(s)' /\ \A n \in DOMAIN chain : n # 1 /\ IsRetry(n) => At(n) # s
           /\ (\E n \in DOMAIN chain : n # 1 /\ IsRetry(n) /\ At(n) = s) => Pends(s)'
    <3>1. \A s \in Slots : Pends(s)' <=> Pends(s)
      BY <1>1 DEF Pends, ledger
    <3>2. Slot \notin raced =>
             Pends(Slot) /\ \A n \in DOMAIN chain : n # 1 /\ IsRetry(n) => At(n) # Slot
      BY <1>2 DEF RoutesInv, OwedOnce
    <3> QED
      BY <1>3, <3>1, <3>2 DEF RoutesInv, OwedOnce
  <2>3. \A s \in Slots : s[1] # Task.item => s # Slot
    BY DEF Slot
  <2> QED
    BY <1>1, <1>3, <2>1, <2>2, <2>3, DoneKeeps DEF ledger, history
<1>6. NothingForgotten'
  <2>1. \A s \in Slots : ~ToCall(s)
    BY <1>1 DEF ToCall
  <2> QED
    BY <1>1, <1>3, <1>4, <2>1, DoneUnderway, Remembered DEF ledger, history
<1> QED
  BY <1>4, <1>5, <1>6 DEF RoutesInv

(* The operator took the route away. *)
LEMMA AbandonKeeps ==
    ASSUME RoutesInv, RetryAbandoned
    PROVE  RoutesInv'
<1>1. /\ Running /\ Done /\ phase = "start" /\ Task.kind = "retry"
      /\ WriteTool(Slot, "failed", Task.attempts)
      /\ UNCHANGED <<inbox, stopped, created, route, agentRow, pending, resumed, woken, raced, dropped>>
  BY DEF RetryAbandoned, quietInbox
<1>2. /\ Slot \in Slots /\ IsRetry(1) /\ At(1) = Slot /\ 1 \in DOMAIN chain
      /\ Task.attempts \in 0..MaxAttempts
  BY <1>1, HeadIs, RoutesAssumption DEF RoutesInv, Callable, IsRetry, TaskType, Slot, Slots
<1>3. /\ toolRow' \in [Slots -> RowType] /\ unwritten' \subseteq Rows
      /\ \A x \in Slots : x # Slot =>
                 toolRow'[x] = toolRow[x] /\ (x \in unwritten => x \in unwritten')
      /\ \A e : <<e, Agent>> \in unwritten => <<e, Agent>> \in unwritten'
      /\ ~Held(Slot[1]) \/ Slot \in unwritten' \/ toolRow'[Slot].outcome = "failed"
      /\ \A x \in Slots : Pends(x)' => toolRow'[x].attempts < MaxAttempts
  <2>1. "failed" \in Outcomes \ {"deferred"}
    BY DEF Outcomes
  <2> QED
    BY <1>1, <1>2, <2>1, WriteToolFacts
<1>4. RoutesType'
  BY <1>1, <1>3, DoneFacts DEF RoutesInv, RoutesType
<1>5. Callable' /\ Fresh' /\ WaitsOnce' /\ OwedOnce'
  <2>2. \A s \in Slots \ raced :
           /\ pending'[s] # None => Pends(s)' /\ \A n \in DOMAIN chain : n # 1 /\ IsRetry(n) => At(n) # s
           /\ (\E n \in DOMAIN chain : n # 1 /\ IsRetry(n) /\ At(n) = s) => Pends(s)'
    <3>1. \A s \in Slots : s # Slot => (Pends(s)' <=> Pends(s))
      BY <1>3 DEF Pends
    <3>2. Slot \notin raced =>
             pending[Slot] = None /\ \A n \in DOMAIN chain : n # 1 /\ IsRetry(n) => At(n) # Slot
      BY <1>2 DEF RoutesInv, OwedOnce
    <3> QED
      BY <1>1, <3>1, <3>2 DEF RoutesInv, OwedOnce
  <2>3. \A s \in Slots : s[1] # Task.item => s # Slot
    BY DEF Slot
  <2> QED
    BY <1>1, <1>3, <2>2, <2>3, DoneKeeps
<1>6. NothingForgotten'
  <2>1. \A s \in Slots : ~ToCall(s)
    BY <1>1 DEF ToCall
  <2> QED
    BY <1>1, <1>3, <1>4, <2>1, DoneUnderway, Remembered
<1> QED
  BY <1>4, <1>5, <1>6 DEF RoutesInv

-----------------------------------------------------------------------------
(* An item is routed: it is the only thing planned for its rows. *)

LEMMA EvaluateKeeps ==
    ASSUME RoutesInv, NEW ack \in {"accepted", "failed"}, Evaluate(ack)
    PROVE  RoutesInv'
<1> DEFINE e == Task.item
<1>1. /\ Running /\ Task.kind = "eval" /\ phase = "start"
      /\ toolRow' = [s \in Slots |-> IF s[1] = e THEN Row("pending", 0) ELSE toolRow[s]]
      /\ \/ ack = "accepted" /\ agentRow' = [agentRow EXCEPT ![e] = "deferred"] /\ woken' = woken \cup {e}
         \/ ack = "failed" /\ agentRow' = [agentRow EXCEPT ![e] = "failed"] /\ woken' = woken
      /\ \/ (stopped \/ NumTools = 0) /\ Done
         \/ NumTools # 0 /\ phase' = "calling" /\ chain' = chain
      /\ UNCHANGED <<inbox, created, stopped, route, pending, resumed, history>>
  BY DEF Evaluate, inboxVars
<1>2. e \in Events /\ 1 \in DOMAIN chain /\ chain[1] = Task /\ Waits(1)
  BY <1>1, HeadIs DEF RoutesInv, TaskType, Waits
<1>3. /\ \A x : x = e => Untouched(x)
      /\ \A m \in DOMAIN chain : chain[m].item = e => m = 1
      /\ Task.tool = 1
  BY <1>2 DEF RoutesInv, WaitsOnce, Callable
<1>4. \A s \in Slots : s[1] = e =>
          /\ pending[s] = None /\ Pends(s)' /\ toolRow'[s].attempts = 0
          /\ \A n \in DOMAIN chain : IsRetry(n) => At(n) # s
  <2> SUFFICES ASSUME NEW s \in Slots, s[1] = e
               PROVE  /\ pending[s] = None /\ Pends(s)' /\ toolRow'[s].attempts = 0
                      /\ \A n \in DOMAIN chain : IsRetry(n) => At(n) # s
    OBVIOUS
  <2>1. pending[s] = None
    BY <1>3, SlotIs DEF Untouched
  <2>2. toolRow'[s] = Row("pending", 0)
    BY <1>1
  <2>3. ASSUME NEW n \in DOMAIN chain, IsRetry(n), At(n) = s PROVE FALSE
    <3>1. n = 1
      BY <1>3, <2>3 DEF At
    <3> QED
      BY <1>1, <1>2, <2>3, <3>1 DEF IsRetry
  <2> QED
    BY <2>1, <2>2, <2>3 DEF Pends, Row
<1>5. \A s \in Slots : s[1] # e => toolRow'[s] = toolRow[s] /\ (Pends(s)' <=> Pends(s))
  BY <1>1 DEF Pends
<1>6. \A x \in Events : x # e =>
          agentRow'[x] = agentRow[x] /\ (x \in woken' <=> x \in woken) /\ (Untouched(x) => Untouched(x)')
  BY <1>1, <1>5 DEF RoutesInv, RoutesType, Untouched, Slots
<1>7. \A s \in Slots : Pends(s)' => toolRow'[s].attempts < MaxAttempts
  BY <1>4, <1>5, RoutesAssumption DEF RoutesInv, Callable
<1>8. \A s \in Slots : ~ToCall(s)
  BY <1>1 DEF ToCall
<1>9. chain' \in Seq(TaskType) /\ phase' \in {"start", "calling"}
  BY <1>1, DoneFacts DEF RoutesInv, RoutesType
<1>10. RoutesType'
  <2>1. Row("pending", 0) \in RowType
    BY RoutesAssumption DEF Row, RowType, Outcomes
  <2>2. toolRow' \in [Slots -> RowType]
    BY <1>1, <2>1 DEF RoutesInv, RoutesType
  <2>3. agentRow' \in [Events -> Outcomes \ {"pending"}] /\ woken' \subseteq Events
    BY <1>1, <1>2 DEF RoutesInv, RoutesType, Outcomes
  <2> QED
    BY <1>1, <1>9, <2>2, <2>3 DEF RoutesInv, RoutesType, history
<1>11. \A x \in Events : agentRow'[x] = "deferred" =>
          x \in woken' \/ (agentRow[x] = "deferred" /\ (x \in woken => x \in woken'))
  BY <1>1, <1>6 DEF RoutesInv, RoutesType
<1> HIDE DEF e
<1>12. CASE (stopped \/ NumTools = 0) /\ Done
  <2>1. Callable' /\ Fresh' /\ WaitsOnce' /\ OwedOnce'
    <3>1. \A s \in Slots \ raced : s[1] = Task.item =>
             /\ pending'[s] # None =>
                   Pends(s)' /\ \A n \in DOMAIN chain : n # 1 /\ IsRetry(n) => At(n) # s
             /\ (\E n \in DOMAIN chain : n # 1 /\ IsRetry(n) /\ At(n) = s) => Pends(s)'
      BY <1>1, <1>4 DEF e
    <3> QED
      BY <1>1, <1>5, <1>6, <1>7, <1>12, <3>1, DoneKeeps DEF history, e
  <2>2. NothingForgotten'
    <3>1. NumTools = 0 => Slots = {}
      BY DEF Slots, Tools
    <3> QED
      BY <1>1, <1>11, <1>12, <3>1, Remembered DEF history
  <2> QED
    BY <1>10, <2>1, <2>2 DEF RoutesInv
<1>13. CASE NumTools # 0 /\ phase' = "calling" /\ chain' = chain
  <2>1. \A s \in Slots : ToCall(s)' <=> s[1] = e
    <3>1. \A s \in Slots : s[2] \in Nat /\ 1 <= s[2]
      BY SlotIs DEF Tools
    <3>2. chain # <<>>
      BY <1>1 DEF Running
    <3> QED
      BY <1>1, <1>2, <1>3, <1>13, <3>1, <3>2 DEF ToCall, e
  <2>2. \A n \in DOMAIN chain : (IsRetry(n)' <=> IsRetry(n)) /\ At(n)' = At(n)
                                 /\ (Waits(n)' => Waits(n) /\ n # 1)
    BY <1>1, <1>13 DEF IsRetry, At, Waits
  <2>3. Callable'
    <3>1. 1 \in Tools
      BY <1>13, RoutesAssumption DEF Tools
    <3> QED
      BY <1>1, <1>2, <1>3, <1>7, <1>13, <2>2, <3>1 DEF RoutesInv, Callable, Running
  <2>4. Fresh'
    <3>1. created[e] # 0
      BY <1>2 DEF RoutesInv, Fresh, e
    <3> QED
      BY <1>1, <1>6, <1>13, <3>1 DEF RoutesInv, Fresh
  <2>5. WaitsOnce'
    <3>1. \A n \in DOMAIN chain : chain[n].item \in Events
      BY TaskIn DEF RoutesInv
    <3> SUFFICES ASSUME NEW n \in DOMAIN chain, Waits(n)'
                 PROVE  /\ \A x : x = chain[n].item => Untouched(x)'
                        /\ \A m \in DOMAIN chain : chain[m].item = chain[n].item => m = n
      BY <1>13 DEF WaitsOnce, Waits, Untouched
    <3>2. Waits(n) /\ chain[n].item # e
      BY <1>3, <2>2
    <3> QED
      BY <1>6, <3>1, <3>2 DEF RoutesInv, WaitsOnce
  <2>6. OwedOnce'
    <3> SUFFICES ASSUME NEW s \in Slots \ raced
                 PROVE  /\ pending[s] # None =>
                              Pends(s)' /\ ~ToCall(s)' /\ \A n \in DOMAIN chain : IsRetry(n) => At(n) # s
                        /\ ToCall(s)' =>
                              Pends(s)' /\ \A n \in DOMAIN chain : IsRetry(n) => At(n) # s
                        /\ \A n \in DOMAIN chain : IsRetry(n) /\ At(n) = s =>
                              Pends(s)' /\ \A m \in DOMAIN chain : IsRetry(m) /\ At(m) = s => m = n
      BY <1>1, <1>13, <2>2 DEF OwedOnce, history
    <3>1. CASE s[1] = e
      BY <1>4, <2>1, <3>1
    <3>2. CASE s[1] # e
      BY <1>5, <2>1, <3>2 DEF RoutesInv, OwedOnce
    <3> QED
      BY <3>1, <3>2
  <2>7. NothingForgotten'
    <3>1. \A s \in Slots : s[1] = e => Underway(s)'
      BY <1>10, <2>1, UnderwayIsNext
    <3>2. \A s \in Slots : Underway(s) => Underway(s)'
      <4> SUFFICES ASSUME NEW s \in Slots, Underway(s) PROVE Underway(s)'
        OBVIOUS
      <4>1. \E n \in DOMAIN chain : IsRetry(n) /\ At(n) = s
        BY <1>8, UnderwayIs DEF RoutesInv
      <4> QED
        BY <1>10, <1>13, <2>2, <4>1, UnderwayIsNext
    <3> QED
      BY <1>1, <1>5, <1>11, <3>1, <3>2, Remembered DEF history
  <2> QED
    BY <1>10, <2>3, <2>4, <2>5, <2>6, <2>7 DEF RoutesInv
<1> QED
  BY <1>1, <1>12, <1>13

(* A retry that is due calls its tool. *)
LEMMA RetryCallsKeeps ==
    ASSUME RoutesInv, RetryCalls
    PROVE  RoutesInv'
<1>1. /\ Running /\ Task.kind = "retry" /\ phase = "start" /\ phase' = "calling"
      /\ UNCHANGED <<inbox, created, stopped, route, ledger, chain, pending, resumed, woken, history>>
  BY DEF RetryCalls, inboxVars
<1>2. chain[1].kind = "retry" /\ IsRetry(1) /\ chain # <<>> /\ 1 \in DOMAIN chain
  BY <1>1, HeadIs DEF RoutesInv, IsRetry, Running
<1>3. \A s : ~ToCall(s) /\ ~ToCall(s)'
  BY <1>1, <1>2 DEF ToCall
<1>4. \A n \in DOMAIN chain : (IsRetry(n)' <=> IsRetry(n)) /\ At(n)' = At(n) /\ (Waits(n)' => Waits(n))
  BY <1>1 DEF IsRetry, At, Waits
<1>5. RoutesType'
  BY <1>1 DEF RoutesInv, RoutesType, ledger, history
<1>6. Callable'
  BY <1>1, <1>2, <1>4 DEF RoutesInv, Callable, Pends, ledger
<1>7. Fresh'
  BY <1>1 DEF RoutesInv, Fresh, Untouched, ledger
<1>8. WaitsOnce'
  <2> SUFFICES ASSUME NEW n \in DOMAIN chain, Waits(n)'
               PROVE  /\ \A x : x = chain[n].item => Untouched(x)
                      /\ \A m \in DOMAIN chain : chain[m].item = chain[n].item => m = n
    BY <1>1 DEF WaitsOnce, Waits, Untouched, ledger
  <2> QED
    BY <1>4 DEF RoutesInv, WaitsOnce
<1>9. OwedOnce'
  BY <1>1, <1>3, <1>4 DEF RoutesInv, OwedOnce, Pends, ledger, history
<1>10. NothingForgotten'
  <2>1. \A s \in Slots : Underway(s) => Underway(s)'
    BY <1>1, <1>3, <1>4, <1>5, UnderwayIs, UnderwayIsNext DEF RoutesInv
  <2> QED
    BY <1>1, <2>1, Remembered DEF ledger, history
<1> QED
  BY <1>5, <1>6, <1>7, <1>8, <1>9, <1>10 DEF RoutesInv

-----------------------------------------------------------------------------
(* A call is answered *)

LEMMA LedgerOutcomeIs ==
    ASSUME NEW result \in {"ok", "refused", "error"}, NEW attempts \in Nat
    PROVE  /\ LedgerOutcome(result, attempts) \in {"delivered", "failed", "pending"}
           /\ LedgerOutcome(result, attempts) = "pending" => attempts < MaxAttempts
BY RoutesAssumption DEF LedgerOutcome

(* The next tool of the same item: only the head of the chain changes. *)
LEMMA NextTool ==
    ASSUME RoutesType, Running,
           chain' = <<[Task EXCEPT !.tool = @ + 1]>> \o Tail(chain)
    PROVE  /\ Len(chain) \in Nat /\ Len(chain') = Len(chain)
           /\ DOMAIN chain' = DOMAIN chain /\ DOMAIN chain = 1..Len(chain) /\ chain' # <<>>
           /\ chain'[1] = [Task EXCEPT !.tool = @ + 1]
           /\ \A n \in DOMAIN chain : n # 1 => chain'[n] = chain[n]
<1> DEFINE next == [Task EXCEPT !.tool = @ + 1]
<1>1. /\ Len(chain) \in Nat /\ DOMAIN chain = 1..Len(chain) /\ Len(chain) # 0
      /\ Tail(chain) \in Seq(TaskType) /\ Len(Tail(chain)) = Len(chain) - 1
      /\ \A n \in 1..(Len(chain) - 1) : Tail(chain)[n] = chain[n + 1]
  BY DEF RoutesType, Running
<1>2. Len(<<next>>) = 1 /\ <<next>>[1] = next /\ <<next>> \in Seq({next})
  OBVIOUS
<1> HIDE DEF next
<1>3. chain' = <<next>> \o Tail(chain)
  BY DEF next
<1>4. /\ Len(chain') = Len(chain) /\ DOMAIN chain' = 1..Len(chain)
      /\ chain'[1] = next
      /\ \A n \in 2..Len(chain) : chain'[n] = Tail(chain)[n - 1]
  BY <1>1, <1>2, <1>3
<1>5. \A n \in DOMAIN chain : n # 1 => chain'[n] = chain[n]
  BY <1>1, <1>4
<1> QED
  BY <1>1, <1>4, <1>5 DEF next

LEMMA CallEndsKeeps ==
    ASSUME RoutesInv, NEW result \in {"ok", "refused", "error"}, CallEnds(result)
    PROVE  RoutesInv'
<1> DEFINE attempts == Task.attempts + 1
           outcome == LedgerOutcome(result, attempts)
<1>1. /\ Running /\ phase = "calling"
      /\ WriteTool(Slot, outcome, attempts)
      /\ pending' = IF outcome = "pending" THEN [pending EXCEPT ![Slot] = attempts] ELSE pending
      /\ \/ /\ Task.kind = "eval" /\ Task.tool < NumTools /\ ~stopped
            /\ chain' = <<[Task EXCEPT !.tool = @ + 1]>> \o Tail(chain) /\ phase' = phase
         \/ ~(Task.kind = "eval" /\ Task.tool < NumTools /\ ~stopped) /\ Done
      /\ UNCHANGED <<inbox, created, stopped, route, agentRow, resumed, woken, raced, dropped>>
  BY DEF CallEnds, quietInbox
<1>2. /\ Slot \in Slots /\ At(1) = Slot /\ 1 \in DOMAIN chain /\ chain[1] = Task
      /\ Task \in TaskType /\ Task.tool \in Tools /\ Task.item \in Events
      /\ Slot = <<Task.item, Task.tool>> /\ chain # <<>>
  BY <1>1, HeadIs DEF RoutesInv, Callable, TaskType, Slot, Slots, Running
<1>3. /\ attempts \in 1..MaxAttempts /\ outcome \in Outcomes \ {"deferred"}
      /\ outcome = "pending" => attempts \in 0..(MaxAttempts - 1)
  BY <1>2, LedgerOutcomeIs, RoutesAssumption DEF TaskType, Outcomes
<1> HIDE DEF attempts, outcome
<1>4. /\ toolRow' \in [Slots -> RowType] /\ unwritten' \subseteq Rows
      /\ \A x \in Slots : x # Slot =>
                 toolRow'[x] = toolRow[x] /\ (x \in unwritten => x \in unwritten')
      /\ \A e : <<e, Agent>> \in unwritten => <<e, Agent>> \in unwritten'
      /\ toolRow'[Slot] = toolRow[Slot] \/ toolRow'[Slot].outcome = outcome
      /\ ~Held(Slot[1]) \/ Slot \in unwritten' \/ toolRow'[Slot].outcome = outcome
      /\ \A x \in Slots : Pends(x)' => toolRow'[x].attempts < MaxAttempts
  <2>1. attempts \in 0..MaxAttempts /\ (outcome = "pending" => attempts < MaxAttempts)
    BY <1>3, RoutesAssumption
  <2> QED
    BY <1>1, <1>2, <1>3, <2>1, WriteToolFacts
<1>5. /\ pending' \in [Slots -> {None} \cup 0..(MaxAttempts - 1)]
      /\ outcome = "pending" => pending'[Slot] # None
      /\ outcome # "pending" => pending' = pending
      /\ \A s \in Slots : s # Slot => pending'[s] = pending[s]
  BY <1>1, <1>2, <1>3 DEF RoutesInv, RoutesType, None
<1>6. \A s \in Slots : ToCall(s) <=> Task.kind = "eval" /\ Task.item = s[1] /\ Task.tool <= s[2]
  BY <1>1, <1>2 DEF ToCall
<1>7. Slot \notin raced =>
         /\ Pends(Slot) /\ pending[Slot] = None
         /\ \A n \in DOMAIN chain : n # 1 /\ IsRetry(n) => At(n) # Slot
  <2>1. CASE Task.kind = "eval"
    <3>1. ToCall(Slot)
      BY <1>2, <1>6, <2>1 DEF Tools
    <3> QED
      BY <1>2, <3>1 DEF RoutesInv, OwedOnce
  <2>2. CASE Task.kind = "retry"
    <3>1. IsRetry(1)
      BY <1>2, <2>2 DEF IsRetry
    <3> QED
      BY <1>2, <3>1 DEF RoutesInv, OwedOnce
  <2> QED
    BY <1>2, <2>1, <2>2 DEF TaskType
<1>9. \A s \in Slots : s # Slot => (Pends(s)' <=> Pends(s))
  BY <1>4 DEF Pends
<1>10. \A s \in Slots : s[1] # Task.item => s # Slot
  BY <1>2
<1>11. \A s \in Slots : s = Slot =>
          ~Held(s[1]) \/ s \in unwritten' \/ toolRow'[s].outcome # "pending" \/ pending'[s] # None
  BY <1>4, <1>5
<1>12. CASE ~(Task.kind = "eval" /\ Task.tool < NumTools /\ ~stopped) /\ Done
  <2>1. RoutesType'
    BY <1>1, <1>4, <1>5, <1>12, DoneFacts DEF RoutesInv, RoutesType
  <2>2. Callable' /\ Fresh' /\ WaitsOnce' /\ OwedOnce'
    <3>1. \A s \in Slots \ raced : s[1] = Task.item =>
             /\ pending'[s] # None =>
                   Pends(s)' /\ \A n \in DOMAIN chain : n # 1 /\ IsRetry(n) => At(n) # s
             /\ (\E n \in DOMAIN chain : n # 1 /\ IsRetry(n) /\ At(n) = s) => Pends(s)'
      <4> SUFFICES ASSUME NEW s \in Slots \ raced
                   PROVE  /\ pending'[s] # None =>
                             Pends(s)' /\ \A n \in DOMAIN chain : n # 1 /\ IsRetry(n) => At(n) # s
                          /\ (\E n \in DOMAIN chain : n # 1 /\ IsRetry(n) /\ At(n) = s) => Pends(s)'
        OBVIOUS
      <4>1. CASE s = Slot
        <5>1. pending'[s] # None => Pends(s)'
          BY <1>4, <1>5, <1>7, <4>1 DEF Pends
        <5> QED
          BY <1>7, <4>1, <5>1
      <4>2. CASE s # Slot
        BY <1>5, <1>9, <4>2 DEF RoutesInv, OwedOnce
      <4> QED
        BY <4>1, <4>2
    <3> QED
      BY <1>1, <1>4, <1>5, <1>10, <1>12, <3>1, DoneKeeps
  <2>3. NothingForgotten'
    <3>1. \A s \in Slots : s # Slot => stopped \/ ~ToCall(s)
      BY <1>2, <1>6, <1>12, SlotIs, RoutesAssumption DEF Tools
    <3> QED
      BY <1>1, <1>4, <1>5, <1>11, <1>12, <2>1, <3>1, DoneUnderway, Remembered
  <2> QED
    BY <2>1, <2>2, <2>3 DEF RoutesInv
<1>13. CASE /\ Task.kind = "eval" /\ Task.tool < NumTools /\ ~stopped
            /\ chain' = <<[Task EXCEPT !.tool = @ + 1]>> \o Tail(chain) /\ phase' = phase
  <2>1. /\ Len(chain) \in Nat /\ Len(chain') = Len(chain)
        /\ DOMAIN chain' = DOMAIN chain /\ DOMAIN chain = 1..Len(chain) /\ chain' # <<>>
        /\ chain'[1] = [Task EXCEPT !.tool = @ + 1]
        /\ \A n \in DOMAIN chain : n # 1 => chain'[n] = chain[n]
    BY <1>1, <1>13, NextTool DEF RoutesInv
  <2>2. /\ chain'[1].kind = "eval" /\ chain'[1].item = Task.item
        /\ chain'[1].tool = Task.tool + 1 /\ chain'[1].tool \in Tools /\ chain'[1] \in TaskType
    <3>1. Task.tool + 1 \in Tools
      BY <1>2, <1>13, RoutesAssumption DEF Tools
    <3>2. chain'[1] = [kind |-> Task.kind, item |-> Task.item, tool |-> Task.tool + 1,
                       attempts |-> Task.attempts]
      BY <1>2, <2>1 DEF TaskType
    <3> QED
      BY <1>2, <1>13, <3>1, <3>2 DEF TaskType
  <2>3. chain' \in Seq(TaskType)
    <3>1. Tail(chain) \in Seq(TaskType) /\ <<[Task EXCEPT !.tool = @ + 1]>> \in Seq(TaskType)
      BY <1>2, <2>1, <2>2 DEF RoutesInv, RoutesType
    <3> QED
      BY <1>13, <3>1
  <2>4. \A n \in DOMAIN chain :
            /\ IsRetry(n)' <=> IsRetry(n)
            /\ IsRetry(n) => n # 1 /\ At(n)' = At(n)
            /\ Waits(n)' => Waits(n) /\ n # 1
            /\ chain'[n].item = chain[n].item
    BY <1>1, <1>2, <1>13, <2>1, <2>2 DEF IsRetry, At, Waits
  <2>5. \A s \in Slots : ToCall(s)' <=> ToCall(s) /\ s # Slot
    BY <1>1, <1>2, <1>6, <1>13, <2>1, <2>2, SlotIs DEF ToCall, Tools
  <2>6. RoutesType'
    BY <1>1, <1>4, <1>5, <1>13, <2>3 DEF RoutesInv, RoutesType
  <2>7. Callable'
    <3>1. \A n \in DOMAIN chain' : IsRetry(n)' => chain'[n].tool \in Tools
      BY <2>1, <2>4 DEF RoutesInv, Callable
    <3>2. \A n \in DOMAIN chain' : Waits(n)' => chain'[n].tool = 1
      BY <2>1, <2>4 DEF RoutesInv, Callable
    <3> QED
      BY <1>4, <2>1, <2>2, <3>1, <3>2 DEF Callable
  <2>8. \A e \in Events : e # Task.item => (Untouched(e) => Untouched(e)')
    BY <1>1, <1>4, <1>5, <1>10 DEF Untouched, Slots
  <2>9. Fresh'
    <3>1. created[Task.item] # 0
      BY <1>2 DEF RoutesInv, Fresh
    <3> QED
      BY <1>1, <2>1, <2>4, <2>8, <3>1 DEF RoutesInv, Fresh
  <2>10. WaitsOnce'
    <3>1. \A n \in DOMAIN chain : chain[n].item \in Events
      BY TaskIn DEF RoutesInv
    <3> SUFFICES ASSUME NEW n \in DOMAIN chain, Waits(n)'
                 PROVE  /\ \A x : x = chain[n].item => Untouched(x)'
                        /\ \A m \in DOMAIN chain : chain[m].item = chain[n].item => m = n
      BY <2>1, <2>4 DEF WaitsOnce, Waits, Untouched
    <3>2. /\ Waits(n) /\ n # 1
          /\ \A m \in DOMAIN chain : chain[m].item = chain[n].item => m = n
      BY <2>4 DEF RoutesInv, WaitsOnce
    <3>3. chain[n].item # Task.item
      BY <1>2, <3>2
    <3> QED
      BY <2>8, <3>1, <3>2, <3>3 DEF RoutesInv, WaitsOnce
  <2>11. OwedOnce'
    <3> SUFFICES ASSUME NEW s \in Slots \ raced
                 PROVE  /\ pending'[s] # None =>
                              Pends(s)' /\ ~ToCall(s)' /\ \A n \in DOMAIN chain : IsRetry(n) => At(n) # s
                        /\ ToCall(s)' =>
                              Pends(s)' /\ \A n \in DOMAIN chain : IsRetry(n) => At(n) # s
                        /\ \A n \in DOMAIN chain : IsRetry(n) /\ At(n) = s =>
                              Pends(s)' /\ \A m \in DOMAIN chain : IsRetry(m) /\ At(m) = s => m = n
      BY <1>1, <2>1, <2>4 DEF OwedOnce
    <3>1. CASE s = Slot
      <4>1. pending'[s] # None => Pends(s)'
        BY <1>4, <1>5, <1>7, <3>1 DEF Pends
      <4> QED
        BY <1>7, <2>4, <2>5, <3>1, <4>1
    <3>2. CASE s # Slot
      BY <1>5, <1>9, <2>5, <3>2 DEF RoutesInv, OwedOnce
    <3> QED
      BY <3>1, <3>2
  <2>12. NothingForgotten'
    <3>1. \A s \in Slots : s # Slot /\ Underway(s) => Underway(s)'
      <4> SUFFICES ASSUME NEW s \in Slots, s # Slot, Underway(s) PROVE Underway(s)'
        OBVIOUS
      <4>1. ToCall(s) \/ \E n \in DOMAIN chain : IsRetry(n) /\ At(n) = s
        BY UnderwayIs DEF RoutesInv
      <4>2. ToCall(s)' \/ \E n \in DOMAIN chain' : IsRetry(n)' /\ At(n)' = s
        BY <2>1, <2>4, <2>5, <4>1
      <4> QED
        BY <2>6, <4>2, UnderwayIsNext
    <3> QED
      BY <1>1, <1>4, <1>5, <1>11, <3>1, Remembered
  <2> QED
    BY <2>6, <2>7, <2>9, <2>10, <2>11, <2>12 DEF RoutesInv
<1> QED
  BY <1>1, <1>12, <1>13

-----------------------------------------------------------------------------
(* The attempts that are due leave the index for the chain. *)

LEMMA SweepKeeps ==
    ASSUME RoutesInv, NEW due \in SUBSET Slots, SweepRetries(due)
    PROVE  RoutesInv'
<1>1. /\ Queued("retry") = {} /\ \A s \in due : pending[s] # None
      /\ pending' = [s \in Slots |-> IF s \in due THEN None ELSE pending[s]]
      /\ UNCHANGED <<inbox, created, stopped, route, ledger, phase, resumed, woken, history>>
  BY DEF SweepRetries, inboxVars
<1>2. PICK order \in Bijection(1..Cardinality(due), due) :
          chain' = chain \o [n \in 1..Cardinality(due) |-> Retry(order[n], pending[order[n]])]
  BY DEF SweepRetries
<1> DEFINE more == [n \in 1..Cardinality(due) |-> Retry(order[n], pending[order[n]])]
<1>3. Cardinality(due) \in Nat
  BY EventsFinite, FS_Subset, FS_CardinalityType
<1>4. /\ order \in [1..Cardinality(due) -> due]
      /\ \A m, n \in 1..Cardinality(due) : order[m] = order[n] => m = n
      /\ \A s \in due : \E n \in 1..Cardinality(due) : order[n] = s
  BY DEF Bijection, Injection, Surjection, IsInjective
<1>5. \A n \in 1..Cardinality(due) :
          /\ more[n] \in TaskType /\ more[n].kind = "retry"
          /\ more[n].tool \in Tools
          /\ <<more[n].item, more[n].tool>> = order[n] /\ order[n] \in due
  <2> SUFFICES ASSUME NEW n \in 1..Cardinality(due)
               PROVE  /\ Retry(order[n], pending[order[n]]) \in TaskType
                      /\ order[n] \in due /\ order[n] = <<order[n][1], order[n][2]>>
                      /\ order[n][2] \in Tools
    BY DEF Retry
  <2>1. order[n] \in due /\ order[n] \in Slots
    BY <1>4
  <2>2. order[n][1] \in Events /\ order[n][2] \in Tools /\ order[n] = <<order[n][1], order[n][2]>>
    BY <2>1, SlotIs
  <2>3. pending[order[n]] \in 0..(MaxAttempts - 1)
    BY <1>1, <2>1 DEF RoutesInv, RoutesType
  <2> QED
    BY <2>1, <2>2, <2>3 DEF Retry, TaskType
<1>6. more \in Seq(TaskType) /\ DOMAIN more = 1..Cardinality(due)
  BY <1>3, <1>5
<1>7. chain' = chain \o more
  BY <1>2
<1> HIDE DEF more
<1>8. /\ chain' \in Seq(TaskType)
      /\ Len(chain) \in Nat /\ DOMAIN chain = 1..Len(chain)
      /\ \A n \in DOMAIN chain : n \in DOMAIN chain' /\ chain'[n] = chain[n]
      /\ \A n \in DOMAIN chain' : n \notin DOMAIN chain =>
                 /\ n \in Nat /\ n > Len(chain)
                 /\ n - Len(chain) \in DOMAIN more
                 /\ chain'[n] = more[n - Len(chain)]
  BY <1>6, <1>7, AppendFacts DEF RoutesInv, RoutesType
<1>9. /\ \A n \in DOMAIN chain : (Waits(n)' <=> Waits(n)) /\ (IsRetry(n)' <=> IsRetry(n))
                                       /\ At(n)' = At(n)
      /\ \A s : ToCall(s)' <=> ToCall(s)
      /\ phase = "calling" => chain # <<>> /\ chain'[1] = chain[1] /\ 1 \in DOMAIN chain
  BY <1>1, <1>6, <1>7, AppendKeeps
<1>10. \A n \in DOMAIN chain : ~IsRetry(n)
  BY <1>1 DEF Queued, IsRetry
<1>11. \A n \in DOMAIN chain' : n \notin DOMAIN chain =>
          /\ chain'[n].kind = "retry" /\ chain'[n].tool \in Tools
          /\ At(n)' \in due
          /\ \A m \in DOMAIN chain' : m \notin DOMAIN chain /\ At(m)' = At(n)' => m = n
  <2> SUFFICES ASSUME NEW n \in DOMAIN chain', n \notin DOMAIN chain
               PROVE  /\ chain'[n].kind = "retry" /\ chain'[n].tool \in Tools
                      /\ At(n)' \in due
                      /\ \A m \in DOMAIN chain' : m \notin DOMAIN chain /\ At(m)' = At(n)' => m = n
    OBVIOUS
  <2>1. chain'[n].kind = "retry" /\ chain'[n].tool \in Tools /\ At(n)' = order[n - Len(chain)]
        /\ n - Len(chain) \in 1..Cardinality(due) /\ order[n - Len(chain)] \in due
    BY <1>5, <1>6, <1>8 DEF At
  <2>2. ASSUME NEW m \in DOMAIN chain', m \notin DOMAIN chain, At(m)' = At(n)'
        PROVE  m = n
    <3>1. At(m)' = order[m - Len(chain)] /\ m - Len(chain) \in 1..Cardinality(due)
      BY <1>5, <1>6, <1>8, <2>2 DEF At
    <3>2. m - Len(chain) = n - Len(chain)
      BY <1>4, <2>1, <2>2, <3>1
    <3> QED
      BY <1>8, <2>2, <3>2
  <2> QED
    BY <2>1, <2>2
<1>12. \A n \in DOMAIN chain' : IsRetry(n)' <=> n \notin DOMAIN chain
  BY <1>9, <1>10, <1>11 DEF IsRetry
<1>13. \A s \in due : \E n \in DOMAIN chain' : IsRetry(n)' /\ At(n)' = s
  <2> SUFFICES ASSUME NEW s \in due
               PROVE  \E n \in DOMAIN chain' : IsRetry(n)' /\ At(n)' = s
    OBVIOUS
  <2>1. PICK k \in 1..Cardinality(due) : order[k] = s
    BY <1>4
  <2>2. Len(chain) + k \in DOMAIN chain' /\ Len(chain) + k \notin DOMAIN chain
        /\ chain'[Len(chain) + k] = more[k]
    BY <1>3, <1>6, <1>7, <1>8, <2>1 DEF RoutesInv, RoutesType
  <2>3. \A n : n = Len(chain) + k => At(n)' = s
    BY <1>5, <2>1, <2>2 DEF At
  <2> QED
    BY <1>12, <2>2, <2>3
<1>14. \A e \in Events : Untouched(e) =>
          Untouched(e)' /\ \A n \in DOMAIN chain' : n \notin DOMAIN chain => chain'[n].item # e
  <2> SUFFICES ASSUME NEW e \in Events, Untouched(e)
               PROVE  Untouched(e)' /\ \A n \in DOMAIN chain' : n \notin DOMAIN chain => chain'[n].item # e
    OBVIOUS
  <2>1. \A k \in Tools : <<e, k>> \in Slots /\ <<e, k>> \notin due
    BY <1>1 DEF Untouched, Slots
  <2>2. Untouched(e)'
    BY <1>1, <2>1 DEF Untouched, ledger
  <2>3. ASSUME NEW n \in DOMAIN chain', n \notin DOMAIN chain, chain'[n].item = e PROVE FALSE
    BY <1>11, <2>1, <2>3 DEF At
  <2> QED
    BY <2>2, <2>3
<1>20. RoutesType'
  <2>1. pending' \in [Slots -> {None} \cup 0..(MaxAttempts - 1)]
    BY <1>1 DEF RoutesInv, RoutesType
  <2> QED
    BY <1>1, <1>8, <2>1 DEF RoutesInv, RoutesType, ledger, history
<1>21. Callable'
  <2>1. \A n \in DOMAIN chain' : IsRetry(n)' => chain'[n].tool \in Tools
    BY <1>11, <1>12
  <2>2. \A n \in DOMAIN chain' : Waits(n)' => chain'[n].tool = 1
    <3>1. \A n \in DOMAIN chain' : Waits(n)' => n \in DOMAIN chain
      BY <1>11 DEF Waits
    <3> QED
      BY <1>8, <1>9, <3>1 DEF RoutesInv, Callable
  <2>3. phase = "calling" => chain' # <<>> /\ chain'[1].tool \in Tools
    BY <1>8, <1>9 DEF RoutesInv, Callable
  <2> QED
    BY <1>1, <2>1, <2>2, <2>3 DEF RoutesInv, Callable, Pends, ledger
<1>22. Fresh'
  <2> SUFFICES ASSUME NEW e \in Events, created[e] = 0
               PROVE  Untouched(e)' /\ \A n \in DOMAIN chain' : chain'[n].item # e
    BY <1>1 DEF Fresh
  <2> QED
    BY <1>8, <1>14 DEF RoutesInv, Fresh
<1>23. WaitsOnce'
  <2>1. \A n \in DOMAIN chain : chain[n].item \in Events
    BY TaskIn DEF RoutesInv
  <2> SUFFICES ASSUME NEW n \in DOMAIN chain', Waits(n)'
               PROVE  /\ \A e : e = chain'[n].item => Untouched(e)'
                      /\ \A m \in DOMAIN chain' : chain'[m].item = chain'[n].item => m = n
    BY DEF WaitsOnce, Untouched
  <2>2. n \in DOMAIN chain
    BY <1>11 DEF Waits
  <2>3. /\ \A e : e = chain[n].item => Untouched(e)
        /\ \A m \in DOMAIN chain : chain[m].item = chain[n].item => m = n
        /\ chain'[n] = chain[n]
    BY <1>8, <1>9, <2>2 DEF RoutesInv, WaitsOnce
  <2> QED
    BY <1>8, <1>14, <2>1, <2>2, <2>3
<1>24. OwedOnce'
  <2> SUFFICES ASSUME NEW s \in Slots \ raced
               PROVE  /\ pending'[s] # None =>
                            Pends(s) /\ ~ToCall(s) /\ \A n \in DOMAIN chain' : IsRetry(n)' => At(n)' # s
                      /\ ToCall(s) =>
                            Pends(s) /\ \A n \in DOMAIN chain' : IsRetry(n)' => At(n)' # s
                      /\ \A n \in DOMAIN chain' : IsRetry(n)' /\ At(n)' = s =>
                            Pends(s) /\ \A m \in DOMAIN chain' : IsRetry(m)' /\ At(m)' = s => m = n
    BY <1>1, <1>9 DEF OwedOnce, Pends, ledger, history
  <2>1. pending[s] # None => Pends(s) /\ ~ToCall(s)
    BY DEF RoutesInv, OwedOnce
  <2>2. s \notin due => \A n \in DOMAIN chain' : IsRetry(n)' => At(n)' # s
    BY <1>11, <1>12
  <2>3. \A n \in DOMAIN chain' : IsRetry(n)' /\ At(n)' = s =>
            \A m \in DOMAIN chain' : IsRetry(m)' /\ At(m)' = s => m = n
    BY <1>11, <1>12
  <2>4. ToCall(s) => Pends(s)
    BY DEF RoutesInv, OwedOnce
  <2> QED
    BY <1>1, <2>1, <2>2, <2>3, <2>4
<1>25. NothingForgotten'
  <2>1. \A s \in due : Underway(s)'
    BY <1>13, <1>20, UnderwayIsNext
  <2>2. \A s \in Slots : Underway(s) => Underway(s)'
    BY <1>8, <1>9, <1>20, UnderwayIs, UnderwayIsNext DEF RoutesInv
  <2>3. \A s \in Slots : s \notin due => pending'[s] = pending[s]
    BY <1>1
  <2> QED
    BY <1>1, <2>1, <2>2, <2>3, Remembered DEF ledger, history
<1> QED
  BY <1>20, <1>21, <1>22, <1>23, <1>24, <1>25 DEF RoutesInv

-----------------------------------------------------------------------------
(* The invariant *)

LEMMA RoutesInit_Inv ==
    ASSUME Init
    PROVE  RoutesInv
<1> USE DEF Init, RoutesInit, InboxInit
<1>1. Row("none", 0) \in RowType /\ Row("none", 0).outcome = "none"
  BY RoutesAssumption DEF Row, RowType, Outcomes
<1>2. RoutesType
  <2>1. toolRow \in [Slots -> RowType]
    BY <1>1
  <2>2. agentRow \in [Events -> Outcomes \ {"pending"}]
    BY DEF Outcomes
  <2> QED
    BY <2>1, <2>2 DEF RoutesType
<1>3. Callable /\ Fresh /\ WaitsOnce /\ OwedOnce /\ NothingForgotten
  <2>1. \A s \in Slots : toolRow[s].outcome = "none" /\ pending[s] = None
    BY <1>1
  <2>2. \A e \in Events : Untouched(e)
    BY <2>1 DEF Untouched, Slots
  <2> QED
    BY <2>1, <2>2 DEF Callable, Fresh, WaitsOnce, OwedOnce, NothingForgotten, Pends, ToCall
<1> QED
  BY <1>2, <1>3 DEF RoutesInv

LEMMA RoutesStep ==
    ASSUME InboxInv, RoutesInv, [Next]_vars
    PROVE  RoutesInv'
<1>1. CASE (InboxQuiet \/ StopPolling) /\ UNCHANGED routeVars
  BY <1>1, QuietKeeps
<1>2. CASE StoreEvents
  BY <1>2, StoreRoutes
<1>3. CASE Deliver
  <2>1. CASE EvaluateFails \/ EvaluateNone \/ RetryGone
    BY <2>1, DropKeeps
  <2>2. CASE \E ack \in {"accepted", "failed"} : Evaluate(ack)
    BY <2>2, EvaluateKeeps
  <2>3. CASE \E result \in {"ok", "refused", "error"} : CallEnds(result)
    BY <2>3, CallEndsKeeps
  <2>4. CASE RetryCalls
    BY <2>4, RetryCallsKeeps
  <2>5. CASE RetryAbandoned
    BY <2>5, AbandonKeeps
  <2>6. CASE RetryThrows
    BY <2>6, ThrowKeeps
  <2> QED
    BY <1>3, <2>1, <2>2, <2>3, <2>4, <2>5, <2>6 DEF Deliver
<1>4. CASE \E due \in SUBSET Slots : SweepRetries(due)
  BY <1>4, SweepKeeps
<1>5. CASE Resume
  BY <1>5, ResumeKeeps
<1>6. CASE ResumeFails \/ EditRoute \/ UNCHANGED vars
  BY <1>6, QuietKeeps
<1>7. CASE Wake
  BY <1>7, WakeKeeps DEF Wake
<1>8. CASE Restart
  BY <1>8, RestartResets
<1> QED
  BY <1>1, <1>2, <1>3, <1>4, <1>5, <1>6, <1>7, <1>8 DEF Next

LEMMA RoutesInvariance == Spec => []RoutesInv
<1>1. Init => RoutesInv
  BY RoutesInit_Inv
<1>2. InboxInv /\ RoutesInv /\ [Next]_vars => RoutesInv'
  BY RoutesStep
<1> QED
  BY <1>1, <1>2, Invariance, PTL DEF Spec

-----------------------------------------------------------------------------
(* The theorems *)

(* The dispatcher's state stays well typed: in particular a row that may be tried
   again always has an attempt left. *)
THEOREM RoutesTypes == Spec => []TypeOK
<1>1. InboxInv /\ RoutesInv => TypeOK
  <2> SUFFICES ASSUME InboxInv, RoutesInv PROVE TypeOK
    OBVIOUS
  <2>1. \A n \in DOMAIN chain :
          chain[n] \in [kind : {"eval", "retry"}, item : Events, tool : Tools \cup {1},
                        attempts : 0..MaxAttempts]
    <3> SUFFICES ASSUME NEW n \in DOMAIN chain
                 PROVE  chain[n] \in [kind : {"eval", "retry"}, item : Events,
                                      tool : Tools \cup {1}, attempts : 0..MaxAttempts]
      OBVIOUS
    <3>1. chain[n] \in TaskType
      BY TaskIn DEF RoutesInv
    <3>2. 0..(MaxAttempts - 1) \subseteq 0..MaxAttempts
      BY RoutesAssumption
    <3> QED
      BY <3>1, <3>2 DEF TaskType
  <2>2. chain = <<>> => phase = "start"
    BY DEF RoutesInv, RoutesType, Callable
  <2>3. InboxTypeOK
    BY DEF InboxInv
  <2> QED
    BY <2>1, <2>2, <2>3 DEF TypeOK, RoutesInv, RoutesType, RowType, Rows
<1> QED
  BY <1>1, Invariance, RoutesInvariance, PTL

(* No row is forgotten: once resume() has run, every open row of an item in the
   inbox has an attempt in the index, a delivery in the chain or a batch of its
   own, through throws, failed writes, retries, route edits and restarts. *)
THEOREM NothingIsForgotten == Spec => []NothingForgotten
<1> QED
  BY RoutesInvariance, PTL DEF RoutesInv

(* No tool is called for a row that is already settled, except by the rows that
   resume() took from under a delivery of this process. *)
THEOREM NothingIsSentAgain == Spec => NotSentAgain
<1>1. RoutesInv /\ RoutesInv' /\ [Next]_vars =>
         [\A s \in Slots :
            Calling(s)' /\ ~Calling(s) => toolRow'[s].outcome = "pending" \/ s \in raced]_vars
  <2> SUFFICES ASSUME RoutesInv', [Next]_vars, NEW s \in Slots, Calling(s)', ~Calling(s)
               PROVE  toolRow'[s].outcome = "pending" \/ s \in raced
    OBVIOUS
  <2>1. raced' = raced \/ Resume
    BY DEF Next, vars, routeVars, history, StoreEvents, HandOver, Deliver, EvaluateFails,
       EvaluateNone, Evaluate, CallEnds, RetryGone, RetryCalls, RetryAbandoned, RetryThrows,
       SweepRetries, ResumeFails, Wake, WakeSettles, EditRoute, Restart
  <2>2. CASE Resume
    BY <2>2 DEF Resume, Calling, Running, Slot, Task
  <2>3. CASE raced' = raced /\ s \notin raced
    <3>1. /\ chain' # <<>> /\ phase' = "calling" /\ s = <<chain'[1].item, chain'[1].tool>>
          /\ 1 \in DOMAIN chain' /\ chain'[1].kind \in {"eval", "retry"}
      <4>1. chain' \in Seq(TaskType) /\ chain' # <<>> /\ phase' = "calling"
            /\ s = <<Task'.item, Task'.tool>>
        BY DEF Calling, Running, Slot, RoutesInv, RoutesType
      <4>2. Task' = chain'[1] /\ 1 \in DOMAIN chain' /\ chain'[1] \in TaskType
        BY <4>1 DEF Task
      <4> QED
        BY <4>1, <4>2 DEF TaskType
    <3>2. CASE chain'[1].kind = "eval"
      <4>1. ToCall(s)'
        BY <3>1, <3>2, SlotIs DEF ToCall, Tools
      <4> QED
        BY <2>3, <4>1 DEF RoutesInv, OwedOnce, Pends
    <3>3. CASE chain'[1].kind = "retry"
      <4>1. IsRetry(1)' /\ At(1)' = s
        BY <3>1, <3>3 DEF IsRetry, At
      <4> QED
        BY <2>3, <3>1, <4>1 DEF RoutesInv, OwedOnce, Pends
    <3> QED
      BY <3>1, <3>2, <3>3
  <2> QED
    BY <2>1, <2>2, <2>3
<1> QED
  BY <1>1, RoutesInvariance, PTL DEF Spec, NotSentAgain

=============================================================================
