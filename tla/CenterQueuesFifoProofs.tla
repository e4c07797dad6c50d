----------------------- MODULE CenterQueuesFifoProofs -----------------------
(***************************************************************************)
(* What QueuesService keeps when requests do not overlap, for any number   *)
(* of centers, vehicles and rows.                                          *)
(*                                                                         *)
(* The three properties of a line need three sets of assumptions, each as  *)
(* weak as the code allows: no vehicle is twice in a line, or served       *)
(* twice, under one request at a time, wherever it fails; the trail is in  *)
(* order if, besides, no request is cut off; the line is the FIFO queue of *)
(* FifoLine if, besides, midnight falls between requests and vehicles are  *)
(* started by startNextService only.                                       *)
(***************************************************************************)
EXTENDS CenterQueuesFifo, CenterQueuesProofs, SequenceTheorems,
        NaturalsInduction

(* Requests do not overlap: there is one slot for them.                    *)
OneRequest == \E r : Requests = {r}

(* What the request has found out, and what no other request can change:   *)
(* the vehicle is not in the line; the row is active, or its service has   *)
(* not been recorded.                                                      *)
AloneHolds(f) ==
  /\ f.pc \in {"count", "insert"} => ~ AlreadyQueued(f.vehicle, f.center, f.type)
  /\ f.pc = "deactivate" => entries[f.entry].active
  /\ f.pc = "serviceEvent" => started[f.entry] = 0

AloneInv ==
  /\ IInv
  /\ OneEntryPerVehicle
  /\ ServedOnce
  /\ \A r \in Requests : AloneHolds(slot[r])
-----------------------------------------------------------------------------
LEMMA TheOnlyOne ==
  ASSUME OneRequest, NEW r \in Requests
  PROVE  Requests = {r}
  BY DEF OneRequest

(* The statement that follows.                                             *)
LEMMA NextStatement ==
  ASSUME IInv, NEW r \in Requests
  PROVE  /\ StartNext(r) => slot'[r].pc = "selectNext"
         /\ StartVehicle(r) => slot'[r].pc = "selectVehicle"
         /\ SelectRest(r) => slot'[r].pc \in {"idle", "renumber"}
         /\ Renumber(r) => slot'[r].pc \in {"idle", "renumber"}
<1>1. ASSUME StartNext(r) PROVE slot'[r].pc = "selectNext"
  <2> PICK c \in Centers, q \in QueueType :
        Goto(r, [pc |-> "selectNext", center |-> c, type |-> q, day |-> today])
    BY <1>1 DEF StartNext
  <2>1. slot'[r] = [pc |-> "selectNext", center |-> c, type |-> q,
                    day |-> today]
    BY GotoMoves
  <2> QED
    BY <2>1
<1>2. ASSUME StartVehicle(r) PROVE slot'[r].pc = "selectVehicle"
  <2> PICK v \in Vehicles, q \in QueueType :
        Goto(r, [pc |-> "selectVehicle", vehicle |-> v, type |-> q,
                 day |-> today])
    BY <1>2 DEF StartVehicle
  <2>1. slot'[r] = [pc |-> "selectVehicle", vehicle |-> v, type |-> q,
                    day |-> today]
    BY GotoMoves
  <2> QED
    BY <2>1
<1>3. Idle.pc = "idle"
  BY DEF Idle
<1>4. slot[r].pc \in {"selectRest", "renumber"} => slot[r] \in ServeFrame
  BY SlotRead
<1>5. ASSUME SelectRest(r) PROVE slot'[r].pc \in {"idle", "renumber"}
  <2>1. CASE Goto(r, Idle)
    BY <1>3, <2>1, GotoMoves
  <2>2. ASSUME NEW rest,
               Goto(r, [slot[r] EXCEPT !.pc = "renumber", !.rest = rest,
                                       !.i = 1])
        PROVE  slot'[r].pc = "renumber"
    BY <1>4, <1>5, <2>2 DEF SelectRest, Goto, IInv, TypeOK, ServeFrame
  <2> QED
    BY <1>5, <2>1, <2>2 DEF SelectRest
<1>6. ASSUME Renumber(r) PROVE slot'[r].pc \in {"idle", "renumber"}
  <2>1. CASE Goto(r, Idle)
    BY <1>3, <2>1, GotoMoves
  <2>2. CASE Goto(r, [slot[r] EXCEPT !.i = @ + 1])
    BY <1>4, <1>6, <2>2 DEF Renumber, Goto, IInv, TypeOK, ServeFrame
  <2> QED
    BY <1>6, <2>1, <2>2 DEF Renumber
<1> QED
  BY <1>1, <1>2, <1>5, <1>6

(* A step of the request that writes neither the rows nor the events.      *)
LEMMA AloneLocally ==
  ASSUME OneRequest, AloneInv, IInv', NEW r \in Requests,
         UNCHANGED <<entries, started>>, AloneHolds(slot'[r])
  PROVE  AloneInv'
<1>1. OneEntryPerVehicle' /\ ServedOnce'
  BY DEF AloneInv, OneEntryPerVehicle, ServedOnce
<1>2. AloneHolds(slot[r])'
  BY DEF AloneHolds, AlreadyQueued
<1> QED
  BY <1>1, <1>2, TheOnlyOne DEF AloneInv

LEMMA AloneIdle == AloneHolds(Idle)
  BY DEF AloneHolds, Idle

(* The row a request selects is active, so it has not been served.         *)
LEMMA AloneSelect ==
  ASSUME AloneInv, NEW r \in Requests, SelectNext(r) \/ SelectVehicle(r)
  PROVE  AloneHolds(slot'[r])
<1>1. CASE Goto(r, Idle)
  BY <1>1, GotoMoves, AloneIdle DEF AloneInv
<1>2. CASE \E e \in DOMAIN entries : entries[e].active /\ Goto(r, Serve(e))
  <2> PICK e \in DOMAIN entries : entries[e].active /\ Goto(r, Serve(e))
    BY <1>2
  <2>1. slot'[r] = Serve(e)
    BY GotoMoves DEF AloneInv
  <2> QED
    BY <2>1 DEF Serve, AloneHolds
<1> QED
  BY <1>1, <1>2 DEF SelectNext, SelectVehicle, Heads, Line, Startable

LEMMA AloneInsert ==
  ASSUME OneRequest, AloneInv, IInv', NEW r \in Requests, InsertQueueEntry(r)
  PROVE  AloneInv'
<1> DEFINE e == FreshId(EntryIds, entries)
           f == [pc |-> "queuedEvent", entry |-> e]
<1>1. ~ AlreadyQueued(slot[r].vehicle, slot[r].center, slot[r].type)
  BY DEF AloneInv, AloneHolds, InsertQueueEntry
<1>2. e \in EntryIds \ DOMAIN entries
  BY FreshIdIsFresh DEF InsertQueueEntry, InsertEntry
<1>3. /\ slot'[r] = f
      /\ started' = started
  BY GotoMoves DEF AloneInv, InsertQueueEntry
<1>4. AloneHolds(slot[r])'
  BY <1>3 DEF AloneHolds
<1> HIDE DEF e
<1>5. /\ DOMAIN entries' = DOMAIN entries \cup {e}
      /\ \A d \in DOMAIN entries : entries'[d] = entries[d]
      /\ entries'[e].center = slot[r].center
      /\ entries'[e].type = slot[r].type
      /\ entries'[e].vehicle = slot[r].vehicle
  BY <1>2 DEF InsertQueueEntry, InsertEntry, InsertRow, e
<1>6. ASSUME NEW d1 \in DOMAIN entries', NEW d2 \in DOMAIN entries',
             entries'[d1].active /\ entries'[d2].active,
             entries'[d1].vehicle = entries'[d2].vehicle,
             entries'[d1].center = entries'[d2].center,
             entries'[d1].type = entries'[d2].type
      PROVE  d1 = d2
  <2>1. ASSUME NEW d \in DOMAIN entries, entries'[d].active,
               entries'[d].vehicle = entries'[e].vehicle,
               entries'[d].center = entries'[e].center,
               entries'[d].type = entries'[e].type
        PROVE  FALSE
    BY <1>1, <1>5, <2>1 DEF AlreadyQueued
  <2>2. CASE d1 \in DOMAIN entries /\ d2 \in DOMAIN entries
    BY <1>5, <1>6, <2>2 DEF AloneInv, OneEntryPerVehicle
  <2> QED
    BY <1>5, <1>6, <2>1, <2>2
<1>7. OneEntryPerVehicle'
  BY <1>6 DEF OneEntryPerVehicle
<1>8. ServedOnce'
  BY <1>3 DEF ServedOnce, AloneInv
<1> QED
  BY <1>4, <1>7, <1>8, TheOnlyOne DEF AloneInv

LEMMA AloneDeactivate ==
  ASSUME OneRequest, AloneInv, IInv', NEW r \in Requests, DeactivateEntry(r)
  PROVE  AloneInv'
<1> DEFINE f == [slot[r] EXCEPT !.pc = "serviceEvent"]
<1>1. /\ slot[r] \in ServeFrame /\ slot[r].entry \in DOMAIN entries
  BY SlotRead DEF DeactivateEntry, FrameHolds, AloneInv
<1>2. started[slot[r].entry] = 0
  <2>1. entries[slot[r].entry].active
    BY DEF AloneInv, AloneHolds, DeactivateEntry
  <2>2. started[slot[r].entry] \in Nat
    BY <1>1 DEF ServeFrame, AloneInv, IInv, TypeOK
  <2> QED
    BY <1>1, <2>1, <2>2 DEF AloneInv, IInv, ServedAfterLeaving, ServeFrame
<1>3. slot'[r] = f /\ started' = started
  BY GotoMoves DEF AloneInv, DeactivateEntry
<1>4. AloneHolds(slot[r])'
  BY <1>1, <1>2, <1>3 DEF AloneHolds, ServeFrame
<1>5. /\ DOMAIN entries' = DOMAIN entries
      /\ \A e \in DOMAIN entries :
           /\ entries'[e].active => entries[e].active
           /\ entries'[e].vehicle = entries[e].vehicle
           /\ entries'[e].center = entries[e].center
           /\ entries'[e].type = entries[e].type
  BY DEF DeactivateEntry, Deactivate, AloneInv, IInv, TypeOK, QueueTypeOK, Entry
<1>6. OneEntryPerVehicle'
  BY <1>5 DEF AloneInv, OneEntryPerVehicle
<1>7. ServedOnce'
  BY <1>3 DEF ServedOnce, AloneInv
<1> QED
  BY <1>4, <1>6, <1>7, TheOnlyOne DEF AloneInv

LEMMA AloneRecordService ==
  ASSUME OneRequest, AloneInv, IInv', NEW r \in Requests, RecordService(r)
  PROVE  AloneInv'
<1>1. slot[r] \in ServeFrame /\ started[slot[r].entry] = 0
  BY SlotRead DEF RecordService, AloneInv, AloneHolds
<1>2. slot'[r].pc = "selectRest"
  BY <1>1, GotoMoves DEF RecordService, AloneInv, ServeFrame
<1>3. AloneHolds(slot[r])'
  BY <1>2 DEF AloneHolds
<1>4. ServedOnce'
  BY <1>1 DEF RecordService, AloneInv, ServedOnce, IInv, TypeOK, ServeFrame
<1>5. OneEntryPerVehicle'
  BY DEF RecordService, AloneInv, OneEntryPerVehicle
<1> QED
  BY <1>3, <1>4, <1>5, TheOnlyOne DEF AloneInv

LEMMA AloneStep ==
  ASSUME OneRequest, AloneInv, [Next]_vars
  PROVE  AloneInv'
<1>1. IInv'
  BY Inductive DEF AloneInv
<1>2. ASSUME NEW r \in Requests, Call(r)
      PROVE  AloneInv'
  <2>1. AloneHolds(slot'[r]) /\ UNCHANGED <<entries, started>>
    <3>1. CASE AddToQueue(r)
      <4> PICK c \in Centers, q \in QueueType, v \in Vehicles, t \in Trips :
            /\ ~ AlreadyQueued(v, c, q)
            /\ Goto(r, [pc |-> "count", center |-> c, type |-> q,
                        vehicle |-> v, trip |-> t, nextPosition |-> 0])
        BY <3>1 DEF AddToQueue
      <4>1. slot'[r] = [pc |-> "count", center |-> c, type |-> q,
                        vehicle |-> v, trip |-> t, nextPosition |-> 0]
        BY GotoMoves DEF AloneInv
      <4> QED
        BY <3>1, <4>1 DEF AddToQueue, AloneHolds
    <3>2. CASE StartNext(r) \/ StartVehicle(r)
      <4>1. slot'[r].pc \in {"selectNext", "selectVehicle"}
        BY <3>2, NextStatement DEF AloneInv
      <4> QED
        BY <3>2, <4>1 DEF StartNext, StartVehicle, AloneHolds
    <3> QED
      BY <1>2, <3>1, <3>2 DEF Call
  <2> QED
    BY <1>1, <2>1, AloneLocally
<1>3. ASSUME NEW r \in Requests, CountLine(r)
      PROVE  AloneInv'
  <2>1. slot[r] \in AddFrame /\ AloneHolds(slot[r])
    BY <1>3, SlotRead DEF CountLine, AloneInv
  <2>2. slot'[r] = [slot[r] EXCEPT !.pc = "insert",
                      !.nextPosition = NextPosition(slot[r].center,
                                                    slot[r].type)]
    BY <1>3, GotoMoves DEF CountLine, AloneInv
  <2>3. AloneHolds(slot'[r])
    BY <1>3, <2>1, <2>2 DEF CountLine, AloneHolds, AddFrame
  <2> QED
    BY <1>1, <1>3, <2>3, AloneLocally DEF CountLine
<1>4. ASSUME NEW r \in Requests, RecordQueued(r) \/ Fail(r)
      PROVE  AloneInv'
  BY <1>1, <1>4, GotoMoves, AloneIdle, AloneLocally
     DEF RecordQueued, Fail, AloneInv
<1>5. ASSUME NEW r \in Requests, SelectNext(r) \/ SelectVehicle(r)
      PROVE  AloneInv'
  BY <1>1, <1>5, AloneSelect, AloneLocally DEF SelectNext, SelectVehicle
<1>6. ASSUME NEW r \in Requests, SelectRest(r) \/ Renumber(r)
      PROVE  AloneInv'
  <2>1. slot'[r].pc \in {"idle", "renumber"}
    BY <1>6, NextStatement DEF AloneInv
  <2>2. AloneHolds(slot'[r])
    BY <2>1 DEF AloneHolds
  <2> QED
    BY <1>1, <1>6, <2>2, AloneLocally DEF SelectRest, Renumber
<1>7. CASE Crash
  BY <1>1, <1>7, AloneIdle, AloneLocally DEF Crash, OneRequest
<1>8. CASE Midnight \/ UNCHANGED vars
  BY <1>1, <1>8, AloneLocally DEF Midnight, vars, OneRequest, AloneInv
<1> QED
  BY <1>1, <1>2, <1>3, <1>4, <1>5, <1>6, <1>7, <1>8, AloneInsert,
     AloneDeactivate, AloneRecordService DEF Next, Continue

LEMMA AloneInitially == OneRequest /\ Init => AloneInv
<1> SUFFICES ASSUME Init PROVE AloneInv
  OBVIOUS
<1>1. IInv
  BY Initially
<1>2. \A r \in Requests : AloneHolds(slot[r])
  BY AloneIdle DEF Init
<1> QED
  BY <1>1, <1>2
     DEF Init, QueueInit, AloneInv, OneEntryPerVehicle, ServedOnce

(* If requests do not overlap, no vehicle stands twice in a line, wherever *)
(* a request or the process dies and whatever rows are left from earlier   *)
(* days.                                                                   *)
THEOREM NoVehicleTwice ==
  ASSUME OneRequest
  PROVE  Spec => []OneEntryPerVehicle
<1>1. Init => AloneInv
  BY AloneInitially
<1>2. AloneInv /\ [Next]_vars => AloneInv'
  BY AloneStep
<1>3. AloneInv => OneEntryPerVehicle
  BY DEF AloneInv
<1> QED
  BY <1>1, <1>2, <1>3, PTL DEF Spec

(* If requests do not overlap, the service of a row starts once: the row   *)
(* that a request selects has never been served.                           *)
THEOREM NoRowServedTwice ==
  ASSUME OneRequest
  PROVE  Spec => []ServedOnce
<1>1. Init => AloneInv
  BY AloneInitially
<1>2. AloneInv /\ [Next]_vars => AloneInv'
  BY AloneStep
<1>3. AloneInv => ServedOnce
  BY DEF AloneInv
<1> QED
  BY <1>1, <1>2, <1>3, PTL DEF Spec
-----------------------------------------------------------------------------
(* A row without its event has just been inserted by the request.          *)
TrailInv ==
  /\ IInv
  /\ QueuedBeforeServed
  /\ \A e \in DOMAIN entries :
       \/ e \in queued
       \/ \E r \in Requests : slot[r].pc = "queuedEvent" /\ slot[r].entry = e

LEMMA TrailComplete ==
  ASSUME OneRequest, TrailInv, NEW r \in Requests, slot[r].pc # "queuedEvent"
  PROVE  DOMAIN entries \subseteq queued
  BY TheOnlyOne DEF TrailInv

(* A step after which every row has its event, or that adds none.          *)
LEMMA TrailKept ==
  ASSUME TrailInv, IInv', DOMAIN entries' \subseteq queued', queued \subseteq queued',
         \A e \in EntryIds : started'[e] > 0 => started[e] > 0 \/ e \in queued'
  PROVE  TrailInv'
  BY DEF TrailInv, QueuedBeforeServed

LEMMA TrailContinue ==
  ASSUME OneRequest, TrailInv, IInv', NEW r \in Requests,
         Call(r) \/ Continue(r)
  PROVE  TrailInv'
<1>1. CASE InsertQueueEntry(r)
  <2> DEFINE e == FreshId(EntryIds, entries)
  <2>1. DOMAIN entries \subseteq queued
    BY <1>1, TrailComplete DEF InsertQueueEntry
  <2>2. DOMAIN entries' = DOMAIN entries \cup {e}
    BY <1>1 DEF InsertQueueEntry, InsertEntry, InsertRow
  <2>3. slot'[r] = [pc |-> "queuedEvent", entry |-> e]
    BY <1>1, GotoMoves DEF InsertQueueEntry, TrailInv
  <2>4. QueuedBeforeServed'
    BY <1>1 DEF InsertQueueEntry, TrailInv, QueuedBeforeServed
  <2> QED
    BY <1>1, <2>1, <2>2, <2>3, <2>4 DEF InsertQueueEntry, TrailInv
<1>2. CASE RecordQueued(r)
  <2>1. DOMAIN entries \subseteq queued \cup {slot[r].entry}
    BY TheOnlyOne DEF TrailInv
  <2> QED
    BY <1>2, <2>1, TrailKept DEF RecordQueued
<1>3. CASE RecordService(r)
  <2>1. slot[r].entry \in DOMAIN entries /\ DOMAIN entries \subseteq queued
    BY <1>3, TrailComplete, SlotRead DEF RecordService, TrailInv, FrameHolds
  <2>2. \A e \in EntryIds : e # slot[r].entry => started'[e] = started[e]
    BY <1>3 DEF RecordService, TrailInv, IInv, TypeOK
  <2> QED
    BY <1>3, <2>1, <2>2, TrailKept DEF RecordService
<1>4. CASE DeactivateEntry(r)
  <2>1. DOMAIN entries \subseteq queued
    BY <1>4, TrailComplete DEF DeactivateEntry
  <2>2. DOMAIN entries' = DOMAIN entries
    BY <1>4 DEF DeactivateEntry, Deactivate
  <2> QED
    BY <1>4, <2>1, <2>2, TrailKept DEF DeactivateEntry
<1>5. CASE AddToQueue(r) \/ StartNext(r) \/ StartVehicle(r)
  <2>1. DOMAIN entries \subseteq queued
    BY <1>5, TrailComplete DEF AddToQueue, StartNext, StartVehicle, Idle
  <2> QED
    BY <1>5, <2>1, TrailKept DEF AddToQueue, StartNext, StartVehicle
<1>6. CASE \/ CountLine(r) \/ SelectNext(r) \/ SelectVehicle(r)
           \/ SelectRest(r) \/ Renumber(r)
  <2>1. DOMAIN entries \subseteq queued
    BY <1>6, TrailComplete
       DEF CountLine, SelectNext, SelectVehicle, SelectRest, Renumber
  <2> QED
    BY <1>6, <2>1, TrailKept
       DEF CountLine, SelectNext, SelectVehicle, SelectRest, Renumber
<1> QED
  BY <1>1, <1>2, <1>3, <1>4, <1>5, <1>6 DEF Call, Continue

LEMMA TrailStep ==
  ASSUME OneRequest, ~ MayFail, TrailInv, [Next]_vars
  PROVE  TrailInv'
<1>1. IInv'
  BY Inductive DEF TrailInv
<1>2. CASE Midnight \/ UNCHANGED vars
  BY <1>1, <1>2 DEF Midnight, vars, TrailInv, QueuedBeforeServed
<1> QED
  BY <1>1, <1>2, TrailContinue DEF Next, Fail, Crash

(* If requests do not overlap and none is cut off, the events of a row are *)
(* in order: QUEUED before SERVICE_STARTED.                                *)
THEOREM TrailInOrder ==
  ASSUME OneRequest, ~ MayFail
  PROVE  Spec => []QueuedBeforeServed
<1>1. Init => TrailInv
  BY Initially DEF Init, QueueInit, TrailInv, QueuedBeforeServed
<1>2. TrailInv /\ [Next]_vars => TrailInv'
  BY TrailStep
<1>3. TrailInv => QueuedBeforeServed
  BY DEF TrailInv
<1> QED
  BY <1>1, <1>2, <1>3, PTL DEF Spec
-----------------------------------------------------------------------------
(* The request is past the UPDATE that took a row out of line (c, q).      *)
Serving(f, c, q) ==
  /\ f.pc \in {"serviceEvent", "selectRest", "renumber"}
  /\ entries[f.entry].center = c
  /\ entries[f.entry].type = q

(* The number of the i-th vehicle in the line: i, or i + 1 as long as the  *)
(* loop that renumbers the line has not reached it.                        *)
Number(f, c, q, i) ==
  IF Serving(f, c, q) /\ (f.pc = "renumber" => i >= f.i) THEN i + 1 ELSE i

Placed(f, c, q, w) ==
  /\ w \in SetToSeqs(Line(c, q, today))
  /\ \A i \in 1..Cardinality(Line(c, q, today)) :
       position[w[i]] = Number(f, c, q, i)
  /\ Serving(f, c, q) /\ f.pc = "renumber" => w = f.rest

InOrder(f, c, q) == \E w \in SetToSeqs(Line(c, q, today)) : Placed(f, c, q, w)

(* What the request knows of the line it works on.                         *)
SerialHolds(f) ==
  /\ f.pc # "selectVehicle"
  /\ f.pc = "insert" => f.nextPosition = NextPosition(f.center, f.type)
  /\ f.pc \in {"selectNext", "deactivate", "serviceEvent", "selectRest",
               "renumber"} => f.day = today
  /\ f.pc = "deactivate" =>
       entries[f.entry].active /\ position[f.entry] = 1
  /\ f.pc \in {"deactivate", "serviceEvent", "selectRest"} =>
       f.was = 1 /\ entries[f.entry].day = today

FifoInv ==
  /\ IInv
  /\ \A e \in DOMAIN entries : entries[e].day <= today
  /\ \A r \in Requests : SerialHolds(slot[r])
  /\ \A r \in Requests, c \in Centers, q \in QueueType :
       InOrder(slot[r], c, q)
-----------------------------------------------------------------------------
(* The orders of a finite set of rows.                                     *)
LEMMA OrderIsSeq ==
  ASSUME NEW S, IsFiniteSet(S), NEW w \in SetToSeqs(S)
  PROVE  /\ Cardinality(S) \in Nat
         /\ w \in Seq(S) /\ Len(w) = Cardinality(S)
         /\ w \in [1..Cardinality(S) -> S]
         /\ \A i, j \in 1..Cardinality(S) : w[i] = w[j] => i = j
         /\ \A x \in S : \E i \in 1..Cardinality(S) : w[i] = x
<1> DEFINE n == Cardinality(S)
<1>1. n \in Nat
  BY FS_CardinalityType
<1>2. /\ w \in [1..n -> S]
      /\ \A i, j \in 1..n : w[i] = w[j] => i = j
  BY DEF SetToSeqs
<1> HIDE DEF n
<1>3. w \in Seq(S)
  BY <1>1, <1>2, SeqDef
<1>4. Len(w) = n
  BY <1>1, <1>2, <1>3, LenProperties
<1>5. w \in Injection(1..n, S)
  BY <1>2 DEF Injection, IsInjective
<1>6. IsFiniteSet(1..n) /\ Cardinality(1..n) = n
  BY <1>1, FS_Interval
<1>7. w \in Surjection(1..n, S)
  BY <1>5, <1>6, FS_Injection DEF n
<1> QED
  BY <1>1, <1>2, <1>3, <1>4, <1>7 DEF Surjection, n

LEMMA OrderOfNone == <<>> \in SetToSeqs({}) /\ Cardinality({}) = 0
<1>1. Cardinality({}) = 0
  BY FS_EmptySet
<1>2. <<>> \in [1..0 -> {}]
  OBVIOUS
<1> QED
  BY <1>1, <1>2 DEF SetToSeqs

(* Append, as an operator the provers leave alone.                         *)
Joined(w, e) == Append(w, e)

LEMMA OrderWithNew ==
  ASSUME NEW S, IsFiniteSet(S), NEW w \in SetToSeqs(S), NEW e, e \notin S
  PROVE  /\ Joined(w, e) \in SetToSeqs(S \cup {e})
         /\ Cardinality(S \cup {e}) = Cardinality(S) + 1
         /\ Joined(w, e)[Cardinality(S) + 1] = e
         /\ \A i \in 1..Cardinality(S) : Joined(w, e)[i] = w[i]
<1> DEFINE n == Cardinality(S)
           T == S \cup {e}
           u == Joined(w, e)
<1>1. /\ n \in Nat /\ w \in Seq(T) /\ Len(w) = n
      /\ w \in [1..n -> S]
      /\ \A i, j \in 1..n : w[i] = w[j] => i = j
  BY OrderIsSeq, SeqMonotonic
<1>2. Cardinality(T) = n + 1
  BY FS_AddElement
<1> HIDE DEF n, T, u
<1>3. /\ u \in Seq(T) /\ Len(u) = n + 1
      /\ \A i \in 1..n : u[i] = w[i]
      /\ u[n + 1] = e
  <2>1. /\ Append(w, e) \in Seq(T) /\ Len(Append(w, e)) = n + 1
        /\ \A i \in 1..n : Append(w, e)[i] = w[i]
        /\ Append(w, e)[n + 1] = e
    BY <1>1, AppendProperties DEF T
  <2>2. u = Append(w, e)
    BY DEF Joined, u
  <2> QED
    BY <2>1, <2>2
<1>4. u \in [1..(n + 1) -> T]
  BY <1>1, <1>3, LenProperties
<1>5. \A i, j \in 1..(n + 1) : i # j => u[i] # u[j]
  <2> SUFFICES ASSUME NEW i \in 1..(n + 1), NEW j \in 1..(n + 1), i # j
               PROVE  u[i] # u[j]
    OBVIOUS
  <2>1. CASE i \in 1..n /\ j \in 1..n
    BY <1>1, <1>3, <2>1
  <2>2. CASE i = n + 1 /\ j \in 1..n
    BY <1>1, <1>3, <2>2
  <2>3. CASE j = n + 1 /\ i \in 1..n
    BY <1>1, <1>3, <2>3
  <2> QED
    BY <1>1, <2>1, <2>2, <2>3
<1>6. u \in SetToSeqs(T)
  BY <1>2, <1>4, <1>5 DEF SetToSeqs
<1> QED
  BY <1>2, <1>3, <1>6 DEF n, T, u

LEMMA OrderWithoutHead ==
  ASSUME NEW S, IsFiniteSet(S), NEW w \in SetToSeqs(S), S # {}
  PROVE  /\ Tail(w) \in SetToSeqs(S \ {w[1]})
         /\ Cardinality(S \ {w[1]}) = Cardinality(S) - 1
         /\ w[1] \in S /\ w # <<>>
         /\ \A i \in 1..(Cardinality(S) - 1) : Tail(w)[i] = w[i + 1]
<1> DEFINE n == Cardinality(S)
           T == S \ {w[1]}
           u == Tail(w)
<1>1. /\ n \in Nat /\ w \in Seq(S) /\ Len(w) = n
      /\ w \in [1..n -> S]
      /\ \A i, j \in 1..n : w[i] = w[j] => i = j
  BY OrderIsSeq
<1>2. n # 0
  BY FS_EmptySet
<1>3. w[1] \in S
  BY <1>1, <1>2
<1>4. Cardinality(T) = n - 1
  BY <1>3, FS_RemoveElement
<1> HIDE DEF n, T
<1>5. w # <<>>
  BY <1>1, <1>2, EmptySeq
<1>6. /\ u \in Seq(S) /\ Len(u) = n - 1
      /\ \A i \in 1..(n - 1) : u[i] = w[i + 1]
  BY <1>1, <1>5, HeadTailProperties
<1> HIDE DEF u
<1>7. \A i, j \in 1..(n - 1) : i # j => u[i] # u[j]
  <2> SUFFICES ASSUME NEW i \in 1..(n - 1), NEW j \in 1..(n - 1), i # j
               PROVE  u[i] # u[j]
    OBVIOUS
  <2>1. i + 1 \in 1..n /\ j + 1 \in 1..n /\ i + 1 # j + 1
    BY <1>1
  <2> QED
    BY <1>1, <1>6, <2>1
<1>8. \A i \in 1..(n - 1) : u[i] \in T
  <2> SUFFICES ASSUME NEW i \in 1..(n - 1) PROVE u[i] \in S /\ u[i] # w[1]
    BY DEF T
  <2>1. i + 1 \in 1..n /\ i + 1 # 1 /\ 1 \in 1..n
    BY <1>1, <1>2
  <2> QED
    BY <1>1, <1>6, <2>1
<1>9. u \in [1..(n - 1) -> S]
  BY <1>6, LenProperties
<1>10. u \in [1..(n - 1) -> T]
  BY <1>8, <1>9
<1>11. u \in SetToSeqs(T)
  BY <1>4, <1>7, <1>10 DEF SetToSeqs
<1> QED
  BY <1>3, <1>4, <1>5, <1>6, <1>11 DEF n, T, u

(* A set of numbers has a least one.                                       *)
LEMMA LeastNumber ==
  ASSUME NEW T \in SUBSET Nat, T # {}
  PROVE  \E x \in T : \A y \in T : x <= y
<1>1. IsWellFoundedOn(OpToRel(<, Nat), Nat)
  BY NatLessThanWellFounded
<1>2. PICK x \in T : \A y \in T : ~ (<<y, x>> \in OpToRel(<, Nat))
  BY <1>1, WFMin, Zenon
<1>3. \A y \in T : ~ (y < x)
  BY <1>2 DEF OpToRel
<1>4. x \in Nat /\ \A y \in T : y \in Nat
  OBVIOUS
<1> QED
  BY <1>3, <1>4

(* The orders of a set of rows by a column, and when there is only one.    *)
Sorted(rows, pos) ==
  {s \in SetToSeqs(rows) :
     \A i, j \in DOMAIN s : i < j => pos[s[i]] <= pos[s[j]]}

LEMMA SortedIsSeq ==
  ASSUME NEW S, IsFiniteSet(S), NEW pos, NEW u \in Sorted(S, pos)
  PROVE  /\ u \in [1..Cardinality(S) -> S]
         /\ \A i, j \in 1..Cardinality(S) : u[i] = u[j] => i = j
         /\ \A x \in S : \E i \in 1..Cardinality(S) : u[i] = x
<1>1. u \in SetToSeqs(S)
  BY DEF Sorted
<1> QED
  BY <1>1, OrderIsSeq

LEMMA OneOrder ==
  ASSUME NEW S, IsFiniteSet(S), NEW pos, \A x \in S : pos[x] \in Nat,
         NEW w \in SetToSeqs(S),
         \A i, j \in 1..Cardinality(S) : i < j => pos[w[i]] < pos[w[j]],
         NEW u \in Sorted(S, pos)
  PROVE  u = w
<1> DEFINE n == Cardinality(S)
           D == {k \in 1..n : u[k] # w[k]}
<1>2. /\ n \in Nat /\ w \in [1..n -> S]
      /\ \A i, j \in 1..n : w[i] = w[j] => i = j
      /\ \A x \in S : \E i \in 1..n : w[i] = x
  BY OrderIsSeq
<1>3. /\ u \in [1..n -> S]
      /\ \A i, j \in 1..n : u[i] = u[j] => i = j
      /\ \A x \in S : \E i \in 1..n : u[i] = x
  BY SortedIsSeq
<1>4. \A i, j \in 1..n : i < j => pos[u[i]] <= pos[u[j]]
  BY <1>3 DEF Sorted
<1>5. \A i, j \in 1..n : i < j => pos[w[i]] < pos[w[j]]
  OBVIOUS
<1> HIDE DEF n
<1>6. ASSUME D # {} PROVE FALSE
  <2>1. PICK k \in D : \A y \in D : k <= y
    <3>1. D \in SUBSET Nat
      BY <1>2
    <3> QED
      BY <1>6, <3>1, LeastNumber
  <2>2. k \in 1..n /\ u[k] # w[k] /\ \A i \in 1..n : i < k => u[i] = w[i]
    BY <1>2, <2>1
  <2>3. PICK m \in 1..n : u[m] = w[k]
    BY <1>2, <1>3, <2>2
  <2>4. m > k
    BY <1>2, <2>2, <2>3
  <2>5. PICK l \in 1..n : w[l] = u[k]
    BY <1>2, <1>3, <2>2
  <2>6. l > k
    <3>1. l # k
      BY <2>2, <2>5
    <3>2. ~ (l < k)
      BY <1>3, <2>2, <2>5
    <3> QED
      BY <1>2, <2>2, <3>1, <3>2
  <2>7. pos[w[k]] < pos[u[k]]
    BY <1>5, <2>2, <2>5, <2>6
  <2>8. pos[u[k]] <= pos[w[k]]
    BY <1>4, <2>2, <2>3, <2>4
  <2>9. pos[w[k]] \in Nat /\ pos[u[k]] \in Nat
    BY <1>2, <1>3, <2>2
  <2> QED
    BY <2>7, <2>8, <2>9
<1>7. \A k \in 1..n : u[k] = w[k]
  BY <1>6
<1> QED
  BY <1>2, <1>3, <1>7

LEMMA SortedLine ==
  ASSUME NEW S, IsFiniteSet(S), NEW pos, \A x \in S : pos[x] \in Nat,
         NEW w \in SetToSeqs(S),
         \A i, j \in 1..Cardinality(S) : i < j => pos[w[i]] < pos[w[j]]
  PROVE  (CHOOSE s \in Sorted(S, pos) : TRUE) = w
<1>1. /\ w \in [1..Cardinality(S) -> S]
      /\ Cardinality(S) \in Nat
  BY OrderIsSeq
<1>2. \A i \in 1..Cardinality(S) : pos[w[i]] \in Nat
  BY <1>1
<1>3. DOMAIN w = 1..Cardinality(S)
  BY <1>1
<1>4. \A i, j \in DOMAIN w : i < j => pos[w[i]] <= pos[w[j]]
  BY <1>2, <1>3
<1>5. w \in Sorted(S, pos)
  BY <1>4 DEF Sorted
<1>6. \A u \in Sorted(S, pos) : u = w
  BY OneOrder
<1> QED
  BY <1>5, <1>6
-----------------------------------------------------------------------------
(* The line of a center in the state the request has left it in.           *)
LEMMA LineIsFinite ==
  ASSUME FifoInv, NEW c, NEW q
  PROVE  /\ IsFiniteSet(Line(c, q, today))
         /\ Cardinality(Line(c, q, today)) \in Nat
         /\ Line(c, q, today) \subseteq DOMAIN entries
<1>1. Line(c, q, today) \subseteq DOMAIN entries
  BY DEF Line
<1> QED
  BY <1>1, FS_Subset, FS_CardinalityType DEF FifoInv, IInv

LEMMA PlacedFacts ==
  ASSUME FifoInv, NEW r \in Requests, NEW c \in Centers, NEW q \in QueueType,
         NEW w, Placed(slot[r], c, q, w)
  PROVE  LET L == Line(c, q, today) IN
         /\ IsFiniteSet(L) /\ L \subseteq DOMAIN entries
         /\ Cardinality(L) \in Nat
         /\ w \in [1..Cardinality(L) -> L]
         /\ \A i, j \in 1..Cardinality(L) : w[i] = w[j] => i = j
         /\ \A x \in L : \E i \in 1..Cardinality(L) : w[i] = x
         /\ \A x \in L : position[x] \in Nat
         /\ \A i, j \in 1..Cardinality(L) : i < j => position[w[i]] < position[w[j]]
<1> DEFINE L == Line(c, q, today)
<1>1. IsFiniteSet(L) /\ L \subseteq DOMAIN entries
  BY LineIsFinite
<1>2. w \in SetToSeqs(L) /\ \A i \in 1..Cardinality(L) :
                              position[w[i]] = Number(slot[r], c, q, i)
  BY DEF Placed
<1>3. \A x \in L : position[x] \in Nat
  BY <1>1 DEF FifoInv, IInv, TypeOK
<1>4. /\ Cardinality(L) \in Nat
      /\ w \in [1..Cardinality(L) -> L]
      /\ \A i, j \in 1..Cardinality(L) : w[i] = w[j] => i = j
      /\ \A x \in L : \E i \in 1..Cardinality(L) : w[i] = x
  BY <1>1, <1>2, OrderIsSeq
<1>5. slot[r].pc = "renumber" => slot[r].i \in Nat
  BY SlotRead DEF FifoInv, ServeFrame
<1> HIDE DEF L
<1>6. \A i, j \in 1..Cardinality(L) :
        i < j => position[w[i]] < position[w[j]]
  <2> SUFFICES ASSUME NEW i \in 1..Cardinality(L), NEW j \in 1..Cardinality(L),
                      i < j
               PROVE  Number(slot[r], c, q, i) < Number(slot[r], c, q, j)
    BY <1>2
  <2>1. i \in Int /\ j \in Int
    BY <1>4
  <2>2. CASE Serving(slot[r], c, q) /\ slot[r].pc = "renumber"
    BY <1>5, <2>1, <2>2 DEF Number
  <2>3. CASE ~ (Serving(slot[r], c, q) /\ slot[r].pc = "renumber")
    BY <2>1, <2>3 DEF Number
  <2> QED
    BY <2>2, <2>3
<1> QED
  BY <1>1, <1>3, <1>4, <1>6 DEF L

LinesShown ==
  \A r \in Requests, c \in Centers, q \in QueueType :
    \A w : Placed(slot[r], c, q, w) => WaitingLine(<<c, q>>) = w

LEMMA Shown == FifoInv => LinesShown
<1> SUFFICES ASSUME FifoInv, NEW r \in Requests, NEW c \in Centers,
                    NEW q \in QueueType, NEW w, Placed(slot[r], c, q, w)
             PROVE  WaitingLine(<<c, q>>) = w
  BY DEF LinesShown
<1> DEFINE L == Line(c, q, today)
<1>1. WaitingLine(<<c, q>>) = CHOOSE s \in Sorted(L, position) : TRUE
  BY DEF WaitingLine, ByPosition, Sorted
<1>2. /\ IsFiniteSet(L)
      /\ \A x \in L : position[x] \in Nat
      /\ \A i, j \in 1..Cardinality(L) : i < j => position[w[i]] < position[w[j]]
  BY PlacedFacts
<1>3. w \in SetToSeqs(L)
  BY DEF Placed
<1> HIDE DEF L
<1> QED
  BY <1>1, <1>2, <1>3, SortedLine

(* What a step of the request does to the lines: nothing; someone joins;   *)
(* the head leaves; a new day.                                             *)
Keeps(r) ==
  \A c \in Centers, q \in QueueType :
    \A w : Placed(slot[r], c, q, w) => Placed(slot[r], c, q, w)'

Joins(r) ==
  \E e \in EntryIds \ DOMAIN entries, center \in Centers, type \in QueueType :
    \A c \in Centers, q \in QueueType :
      \A w : Placed(slot[r], c, q, w) =>
        IF c = center /\ q = type THEN Placed(slot[r], c, q, Joined(w, e))'
        ELSE Placed(slot[r], c, q, w)'

Leaves(r) ==
  \E center \in Centers, type \in QueueType :
    \A c \in Centers, q \in QueueType :
      \A w : Placed(slot[r], c, q, w) =>
        IF c = center /\ q = type
        THEN w # <<>> /\ Placed(slot[r], c, q, Tail(w))'
        ELSE Placed(slot[r], c, q, w)'

Ends(r) ==
  \A c \in Centers, q \in QueueType : Placed(slot[r], c, q, <<>>)'

Lawful(r) == Keeps(r) \/ Joins(r) \/ Leaves(r) \/ Ends(r)

LEMMA LawfulKeepsOrder ==
  ASSUME OneRequest, FifoInv, IInv', NEW r \in Requests, Lawful(r),
         SerialHolds(slot[r])',
         \A e \in DOMAIN entries' : entries'[e].day <= today'
  PROVE  FifoInv'
<1>1. ASSUME NEW c \in Centers, NEW q \in QueueType
      PROVE  \E w : Placed(slot[r], c, q, w)'
  <2> PICK w : Placed(slot[r], c, q, w)
    BY DEF FifoInv, InOrder
  <2> QED
    BY Zenon DEF Lawful, Keeps, Joins, Leaves, Ends
<1>2. \A c \in Centers, q \in QueueType : InOrder(slot[r], c, q)'
  BY <1>1 DEF InOrder, Placed
<1> QED
  BY <1>2, TheOnlyOne DEF FifoInv
-----------------------------------------------------------------------------
(* A step that writes no row, and serves no line or goes on serving the    *)
(* same one.                                                               *)
LEMMA FifoLocally ==
  ASSUME OneRequest, FifoInv, IInv', NEW r \in Requests,
         UNCHANGED <<entries, today, position>>,
         SerialHolds(slot[r])',
         \A c \in Centers, q \in QueueType :
           Serving(slot[r], c, q)' <=> Serving(slot[r], c, q),
         slot[r].pc # "renumber", slot'[r].pc # "renumber"
  PROVE  FifoInv' /\ Keeps(r)
<1>1. Keeps(r)
  BY DEF Keeps, Placed, Number, Line
<1>2. \A e \in DOMAIN entries' : entries'[e].day <= today'
  BY DEF FifoInv
<1> QED
  BY <1>1, <1>2, LawfulKeepsOrder DEF Lawful

Aside == {"idle", "count", "insert", "queuedEvent", "selectNext", "deactivate"}

LEMMA FifoAside ==
  ASSUME OneRequest, FifoInv, IInv', NEW r \in Requests,
         UNCHANGED <<entries, today, position>>,
         SerialHolds(slot[r])',
         slot[r].pc \in Aside, slot'[r].pc \in Aside
  PROVE  FifoInv' /\ Keeps(r)
  BY FifoLocally DEF Aside, Serving

LEMMA FifoIdle == Idle.pc \in Aside /\ SerialHolds(Idle)
  BY DEF SerialHolds, Idle, Aside

LEMMA FifoCall ==
  ASSUME OneRequest, "startVehicle" \notin Endpoints,
         FifoInv, IInv', NEW r \in Requests, Call(r)
  PROVE  FifoInv' /\ Keeps(r)
<1>1. CASE AddToQueue(r)
  <2> PICK c \in Centers, q \in QueueType, v \in Vehicles, t \in Trips :
        Goto(r, [pc |-> "count", center |-> c, type |-> q, vehicle |-> v,
                 trip |-> t, nextPosition |-> 0])
    BY <1>1 DEF AddToQueue
  <2>1. slot'[r] = [pc |-> "count", center |-> c, type |-> q, vehicle |-> v,
                    trip |-> t, nextPosition |-> 0]
    BY GotoMoves DEF FifoInv
  <2>2. SerialHolds(slot[r])' /\ slot'[r].pc \in Aside
    BY <2>1 DEF SerialHolds, Aside
  <2> QED
    BY <1>1, <2>2, FifoIdle, FifoAside DEF AddToQueue
<1>2. CASE StartNext(r)
  <2> PICK c \in Centers, q \in QueueType :
        Goto(r, [pc |-> "selectNext", center |-> c, type |-> q, day |-> today])
    BY <1>2 DEF StartNext
  <2>1. slot'[r] = [pc |-> "selectNext", center |-> c, type |-> q,
                    day |-> today]
    BY GotoMoves DEF FifoInv
  <2>2. SerialHolds(slot[r])' /\ slot'[r].pc \in Aside
    BY <1>2, <2>1 DEF SerialHolds, Aside, StartNext
  <2> QED
    BY <1>2, <2>2, FifoIdle, FifoAside DEF StartNext
<1> QED
  BY <1>1, <1>2 DEF Call, StartVehicle

LEMMA FifoCountLine ==
  ASSUME OneRequest, FifoInv, IInv', NEW r \in Requests, CountLine(r)
  PROVE  FifoInv' /\ Keeps(r)
<1>1. slot[r] \in AddFrame
  BY SlotRead DEF CountLine, FifoInv
<1>2. slot'[r] = [slot[r] EXCEPT !.pc = "insert",
                    !.nextPosition = NextPosition(slot[r].center, slot[r].type)]
  BY GotoMoves DEF CountLine, FifoInv
<1>3. /\ slot'[r].pc = "insert"
      /\ slot'[r].nextPosition = NextPosition(slot[r].center, slot[r].type)
      /\ slot'[r].center = slot[r].center /\ slot'[r].type = slot[r].type
  BY <1>1, <1>2 DEF AddFrame
<1>4. NextPosition(slot[r].center, slot[r].type)' =
        NextPosition(slot'[r].center, slot'[r].type)
  BY DEF NextPosition, Line, CountLine
<1>5. SerialHolds(slot[r])' /\ slot'[r].pc \in Aside
  BY <1>3, <1>4 DEF SerialHolds, Aside
<1> QED
  BY <1>5, FifoAside DEF CountLine, Aside

LEMMA FifoRecordQueued ==
  ASSUME OneRequest, FifoInv, IInv', NEW r \in Requests, RecordQueued(r)
  PROVE  FifoInv' /\ Keeps(r)
<1>1. slot'[r] = Idle
  BY GotoMoves DEF RecordQueued, FifoInv
<1>2. SerialHolds(slot[r])' /\ slot'[r].pc \in Aside
  BY <1>1, FifoIdle DEF SerialHolds, Idle
<1> QED
  BY <1>2, FifoAside DEF RecordQueued, Aside

(* The line is numbered from 1, so the row with the lowest position has    *)
(* position 1.                                                             *)
LEMMA FifoSelectNext ==
  ASSUME OneRequest, FifoInv, IInv', NEW r \in Requests, SelectNext(r)
  PROVE  FifoInv' /\ Keeps(r)
<1>1. slot[r] \in NextFrame /\ slot[r].pc = "selectNext"
  BY SlotRead DEF SelectNext, FifoInv
<1> PICK c \in Centers, q \in QueueType :
      c = slot[r].center /\ q = slot[r].type
  BY <1>1 DEF NextFrame
<1> DEFINE L == Line(c, q, today)
<1>2. slot[r].day = today
  BY <1>1 DEF FifoInv, SerialHolds
<1>3. CASE Goto(r, Idle)
  <2>1. slot'[r] = Idle
    BY <1>3, GotoMoves DEF FifoInv
  <2>2. SerialHolds(slot[r])' /\ slot'[r].pc \in Aside
    BY <2>1, FifoIdle DEF SerialHolds, Idle
  <2> QED
    BY <2>2, FifoAside DEF SelectNext, Aside
<1>4. ASSUME NEW e \in Heads(c, q, today), Goto(r, Serve(e))
      PROVE  FifoInv' /\ Keeps(r)
  <2>1. slot'[r] = Serve(e)
    BY <1>4, GotoMoves DEF FifoInv
  <2>2. PICK w : Placed(slot[r], c, q, w)
    BY <1>1 DEF FifoInv, InOrder
  <2>3. /\ Cardinality(L) \in Nat
        /\ w \in [1..Cardinality(L) -> L]
        /\ \A x \in L : \E i \in 1..Cardinality(L) : w[i] = x
    <3>1. Cardinality(L) \in Nat
      BY <2>2, PlacedFacts
    <3>2. w \in [1..Cardinality(L) -> L]
      BY <2>2, PlacedFacts
    <3>3. \A x \in L : \E i \in 1..Cardinality(L) : w[i] = x
      BY <2>2, PlacedFacts
    <3> QED
      BY <3>1, <3>2, <3>3
  <2>4. \A i \in 1..Cardinality(L) : position[w[i]] = i
    BY <1>1, <2>2 DEF Placed, Number, Serving
  <2>5. e \in L /\ \A f \in L : position[e] <= position[f]
    BY DEF Heads
  <2>6. e \in DOMAIN entries /\ entries[e].active /\ entries[e].day = today
    BY <2>5 DEF Line
  <2> HIDE DEF L
  <2>7. position[e] = 1
    <3>1. PICK i \in 1..Cardinality(L) : w[i] = e
      BY <2>3, <2>5
    <3>2. 1 \in 1..Cardinality(L)
      BY <2>3, <3>1
    <3>3. position[e] = i /\ position[w[1]] = 1 /\ w[1] \in L
      BY <2>3, <2>4, <3>1, <3>2
    <3> QED
      BY <2>3, <2>5, <3>1, <3>3
  <2>8. SerialHolds(slot[r])' /\ slot'[r].pc \in Aside
    BY <2>1, <2>6, <2>7 DEF SerialHolds, Aside, Serve, SelectNext
  <2> QED
    BY <1>1, <2>8, FifoAside DEF SelectNext, Aside
<1> QED
  BY <1>2, <1>3, <1>4 DEF SelectNext

LEMMA FifoRecordService ==
  ASSUME OneRequest, FifoInv, IInv', NEW r \in Requests, RecordService(r)
  PROVE  FifoInv' /\ Keeps(r)
<1>1. slot[r] \in ServeFrame /\ slot[r].pc = "serviceEvent"
  BY SlotRead DEF RecordService, FifoInv
<1>2. slot'[r] = [slot[r] EXCEPT !.pc = "selectRest"]
  BY GotoMoves DEF RecordService, FifoInv
<1>3. /\ slot'[r].pc = "selectRest" /\ slot'[r].entry = slot[r].entry
      /\ slot'[r].was = slot[r].was /\ slot'[r].day = slot[r].day
  BY <1>1, <1>2 DEF ServeFrame
<1>4. SerialHolds(slot[r])'
  BY <1>1, <1>3 DEF SerialHolds, FifoInv, RecordService
<1>5. \A c \in Centers, q \in QueueType :
           Serving(slot[r], c, q)' <=> Serving(slot[r], c, q)
  BY <1>1, <1>3 DEF Serving, RecordService
<1> QED
  BY <1>1, <1>3, <1>4, <1>5, FifoLocally DEF RecordService

(* The new row goes behind the last one: the line cannot have changed      *)
(* since its rows were counted.                                            *)
LEMMA FifoInsert ==
  ASSUME OneRequest, FifoInv, IInv', NEW r \in Requests, InsertQueueEntry(r)
  PROVE  FifoInv' /\ Joins(r)
<1>1. slot[r] \in AddFrame /\ slot[r].pc = "insert"
  BY SlotRead DEF InsertQueueEntry, FifoInv
<1> PICK c0 \in Centers, q0 \in QueueType :
      c0 = slot[r].center /\ q0 = slot[r].type
  BY <1>1 DEF AddFrame
<1> DEFINE L0 == Line(c0, q0, today)
<1>2. slot[r].nextPosition = Cardinality(L0) + 1
  BY <1>1 DEF FifoInv, SerialHolds, NextPosition
<1>3. PICK e \in EntryIds \ DOMAIN entries : e = FreshId(EntryIds, entries)
  BY FreshIdIsFresh DEF InsertQueueEntry, InsertEntry
<1>4. slot'[r] = [pc |-> "queuedEvent", entry |-> e]
  BY <1>3, GotoMoves DEF InsertQueueEntry, FifoInv
<1>5. slot'[r].pc = "queuedEvent"
  BY <1>4
<1>6. /\ DOMAIN entries' = DOMAIN entries \cup {e}
      /\ \A d \in DOMAIN entries : entries'[d] = entries[d]
      /\ entries'[e] = [center |-> c0, type |-> q0, vehicle |-> slot[r].vehicle,
                        trip |-> slot[r].trip, day |-> today, active |-> TRUE]
  BY <1>3 DEF InsertQueueEntry, InsertEntry, InsertRow
<1>7. /\ position'[e] = Cardinality(L0) + 1
      /\ \A d \in DOMAIN entries : position'[d] = position[d]
  BY <1>2, <1>3 DEF InsertQueueEntry, InsertRow, FifoInv, IInv, TypeOK
<1>8. today' = today
  BY DEF InsertQueueEntry
<1>9. ASSUME NEW c \in Centers, NEW q \in QueueType, NEW w,
             Placed(slot[r], c, q, w)
      PROVE  IF c = c0 /\ q = q0 THEN Placed(slot[r], c, q, Joined(w, e))'
             ELSE Placed(slot[r], c, q, w)'
  <2> DEFINE L == Line(c, q, today)
             M == Line(c, q, today)'
             n == Cardinality(L)
  <2>1. /\ IsFiniteSet(L) /\ L \subseteq DOMAIN entries
        /\ n \in Nat
    BY <1>9, PlacedFacts
  <2>2. w \in [1..n -> L]
    BY <1>9, PlacedFacts
  <2>3. w \in SetToSeqs(L) /\ \A i \in 1..n : position[w[i]] = i
    BY <1>1, <1>9 DEF Placed, Number, Serving
  <2>4. CASE c = c0 /\ q = q0
    <3>1. M = L \cup {e}
      BY <1>6, <1>8, <2>4 DEF Line
    <3>2. e \notin L
      BY <1>3, <2>1
    <3>3. L0 = L
      BY <2>4
    <3> DEFINE u == Joined(w, e)
    <3> HIDE DEF L, L0, M
    <3>4. /\ u \in SetToSeqs(M)
          /\ Cardinality(M) = n + 1
          /\ u[n + 1] = e
          /\ \A i \in 1..n : u[i] = w[i]
      BY <2>1, <2>3, <3>1, <3>2, OrderWithNew
    <3> HIDE DEF u, n
    <3>5. \A i \in 1..(n + 1) : position'[u[i]] = i
      <4> SUFFICES ASSUME NEW i \in 1..(n + 1)
                   PROVE  position'[u[i]] = i
        OBVIOUS
      <4>1. CASE i \in 1..n
        BY <1>7, <2>1, <2>2, <2>3, <3>4, <4>1
      <4>2. CASE i = n + 1
        BY <1>7, <3>3, <3>4, <4>2 DEF n
      <4> QED
        BY <2>1, <4>1, <4>2
    <3>6. \A i \in 1..Cardinality(M) : position'[u[i]] = i
      BY <3>4, <3>5
    <3>7. Placed(slot[r], c, q, u)'
      BY <1>5, <3>4, <3>6 DEF Placed, Number, Serving, M
    <3> QED
      BY <2>4, <3>7 DEF u
  <2>5. CASE ~ (c = c0 /\ q = q0)
    <3>1. M = L
      BY <1>6, <1>8, <2>5 DEF Line
    <3>2. \A i \in 1..n : position'[w[i]] = i
      BY <1>7, <2>1, <2>2, <2>3
    <3>3. Placed(slot[r], c, q, w)'
      BY <1>5, <2>3, <3>1, <3>2 DEF Placed, Number, Serving
    <3> QED
      BY <2>5, <3>3
  <2> QED
    BY <2>4, <2>5
<1>10. Joins(r)
  <2>1. \A c \in Centers, q \in QueueType :
          \A w : Placed(slot[r], c, q, w) =>
            IF c = c0 /\ q = q0 THEN Placed(slot[r], c, q, Joined(w, e))'
            ELSE Placed(slot[r], c, q, w)'
    BY <1>9
  <2> SUFFICES
        \E d \in EntryIds \ DOMAIN entries, center \in Centers,
           type \in QueueType :
          \A c \in Centers, q \in QueueType :
            \A w : Placed(slot[r], c, q, w) =>
              IF c = center /\ q = type THEN Placed(slot[r], c, q, Joined(w, d))'
              ELSE Placed(slot[r], c, q, w)'
    BY DEF Joins
  <2> WITNESS e \in EntryIds \ DOMAIN entries, c0 \in Centers, q0 \in QueueType
  <2> QED
    BY <2>1
<1>11. SerialHolds(slot[r])'
  BY <1>5 DEF SerialHolds
<1>12. \A d \in DOMAIN entries' : entries'[d].day <= today'
  BY <1>6, <1>8 DEF FifoInv, IInv, TypeOK, QueueTypeOK
<1> QED
  BY <1>10, <1>11, <1>12, LawfulKeepsOrder DEF Lawful

(* The row that leaves is the head of its line.                            *)
LEMMA FifoDeactivate ==
  ASSUME OneRequest, FifoInv, IInv', NEW r \in Requests, DeactivateEntry(r)
  PROVE  FifoInv' /\ Leaves(r)
<1> DEFINE e == slot[r].entry
<1>1. /\ slot[r] \in ServeFrame /\ slot[r].pc = "deactivate"
      /\ e \in DOMAIN entries
  BY SlotRead DEF DeactivateEntry, FifoInv, FrameHolds
<1>2. /\ entries[e].active /\ position[e] = 1 /\ slot[r].was = 1
      /\ entries[e].day = today /\ slot[r].day = today
  BY <1>1 DEF FifoInv, SerialHolds
<1> PICK c0 \in Centers, q0 \in QueueType :
      c0 = entries[e].center /\ q0 = entries[e].type
  BY <1>1 DEF FifoInv, IInv, TypeOK, QueueTypeOK, Entry
<1>3. slot'[r] = [slot[r] EXCEPT !.pc = "serviceEvent"]
  BY GotoMoves DEF DeactivateEntry, FifoInv
<1>4. /\ slot'[r].pc = "serviceEvent" /\ slot'[r].entry = e
      /\ slot'[r].was = 1 /\ slot'[r].day = today
  BY <1>1, <1>2, <1>3 DEF ServeFrame
<1>5. /\ DOMAIN entries' = DOMAIN entries
      /\ \A d \in DOMAIN entries :
           /\ entries'[d].active <=> entries[d].active /\ d # e
           /\ entries'[d].center = entries[d].center
           /\ entries'[d].type = entries[d].type
           /\ entries'[d].day = entries[d].day
  BY <1>1 DEF DeactivateEntry, Deactivate, FifoInv, IInv, TypeOK, QueueTypeOK,
              Entry
<1>6. today' = today /\ position' = position
  BY DEF DeactivateEntry
<1> HIDE DEF e
<1>7. ASSUME NEW c \in Centers, NEW q \in QueueType, NEW w,
             Placed(slot[r], c, q, w)
      PROVE  IF c = c0 /\ q = q0
             THEN w # <<>> /\ Placed(slot[r], c, q, Tail(w))'
             ELSE Placed(slot[r], c, q, w)'
  <2> DEFINE L == Line(c, q, today)
             M == Line(c, q, today)'
             n == Cardinality(L)
  <2>1. /\ IsFiniteSet(L) /\ L \subseteq DOMAIN entries
        /\ n \in Nat
    BY <1>7, PlacedFacts
  <2>2. w \in SetToSeqs(L) /\ \A i \in 1..n : position[w[i]] = i
    BY <1>1, <1>7 DEF Placed, Number, Serving
  <2>3. CASE c = c0 /\ q = q0
    <3>1. M = L \ {e}
      BY <1>5, <1>6, <2>3 DEF Line
    <3>2. e \in L
      BY <1>1, <1>2, <2>3 DEF Line, e
    <3>3. \A x \in L : \E i \in 1..n : w[i] = x
      BY <1>7, PlacedFacts
    <3>4. Serving(slot[r], c, q)'
      BY <1>1, <1>4, <1>5, <2>3 DEF Serving, e
    <3> HIDE DEF L
    <3>5. e = w[1]
      BY <1>2, <2>2, <3>2, <3>3
    <3>6. /\ Tail(w) \in SetToSeqs(M)
          /\ Cardinality(M) = n - 1
          /\ w # <<>>
          /\ \A i \in 1..(n - 1) : Tail(w)[i] = w[i + 1]
      BY <2>1, <2>2, <3>1, <3>2, <3>5, OrderWithoutHead
    <3> DEFINE u == Tail(w)
    <3> HIDE DEF M, n, u
    <3>7. \A i \in 1..Cardinality(M) : position'[u[i]] = i + 1
      <4> SUFFICES ASSUME NEW i \in 1..(n - 1)
                   PROVE  position'[u[i]] = i + 1
        BY <3>6
      <4>1. i + 1 \in 1..n
        BY <2>1
      <4> QED
        BY <1>6, <2>2, <3>6, <4>1 DEF u
    <3>8. Placed(slot[r], c, q, u)'
      BY <1>4, <3>4, <3>6, <3>7 DEF Placed, Number, M, u
    <3> QED
      BY <2>3, <3>6, <3>8 DEF u
  <2>4. CASE ~ (c = c0 /\ q = q0)
    <3>1. M = L
      BY <1>5, <1>6, <2>4 DEF Line, e
    <3>2. ~ Serving(slot[r], c, q)'
      BY <1>1, <1>4, <1>5, <2>4 DEF Serving, e
    <3>3. Placed(slot[r], c, q, w)'
      BY <1>4, <1>6, <2>2, <3>1, <3>2 DEF Placed, Number
    <3> QED
      BY <2>4, <3>3
  <2> QED
    BY <2>3, <2>4
<1>8. Leaves(r)
  BY <1>7 DEF Leaves
<1>9. SerialHolds(slot[r])'
  BY <1>1, <1>2, <1>4, <1>5, <1>6 DEF SerialHolds, e
<1>10. \A d \in DOMAIN entries' : entries'[d].day <= today'
  BY <1>5, <1>6 DEF FifoInv
<1> QED
  BY <1>8, <1>9, <1>10, LawfulKeepsOrder DEF Lawful

(* The rows behind the one that was served are the whole line, and the     *)
(* SELECT returns them in the order of the line.                           *)
LEMMA FifoSelectRest ==
  ASSUME OneRequest, FifoInv, IInv', NEW r \in Requests, SelectRest(r)
  PROVE  FifoInv' /\ Keeps(r)
<1> DEFINE e == slot[r].entry
<1>1. /\ slot[r] \in ServeFrame /\ slot[r].pc = "selectRest"
      /\ e \in DOMAIN entries
  BY SlotRead DEF SelectRest, FifoInv, FrameHolds
<1>2. slot[r].was = 1 /\ slot[r].day = today
  BY <1>1 DEF FifoInv, SerialHolds
<1> PICK c0 \in Centers, q0 \in QueueType :
      c0 = entries[e].center /\ q0 = entries[e].type
  BY <1>1 DEF FifoInv, IInv, TypeOK, QueueTypeOK, Entry
<1> DEFINE L0 == Line(c0, q0, today)
<1>3. /\ UNCHANGED <<entries, today, position>>
      /\ \A c, q : Line(c, q, today)' = Line(c, q, today)
  BY DEF SelectRest, Line
<1>4. \A c \in Centers, q \in QueueType :
        Serving(slot[r], c, q) <=> c = c0 /\ q = q0
  BY <1>1 DEF Serving
<1>5. PICK w0 : Placed(slot[r], c0, q0, w0)
  BY DEF FifoInv, InOrder
<1>6. \A i \in 1..Cardinality(L0) : position[w0[i]] = i + 1
  BY <1>1, <1>4, <1>5 DEF Placed, Number
<1>7. Cardinality(L0) \in Nat
  BY LineIsFinite
<1>8. \A x \in L0 : \E i \in 1..Cardinality(L0) : w0[i] = x
  BY <1>5, PlacedFacts
<1>9. Behind(slot[r]) = L0
  <2>1. Behind(slot[r]) = {x \in L0 : position[x] > 1}
    BY <1>2 DEF Behind
  <2> HIDE DEF L0
  <2>2. \A x \in L0 : position[x] > 1
    BY <1>6, <1>7, <1>8
  <2> QED
    BY <2>1, <2>2
<1>10. CASE L0 = {} /\ Goto(r, Idle)
  <2>1. slot'[r] = Idle
    BY <1>10, GotoMoves DEF FifoInv
  <2>2. Cardinality(L0) = 0
    BY <1>10, OrderOfNone
  <2> HIDE DEF L0
  <2>3. SerialHolds(slot[r])' /\ slot'[r].pc = "idle"
    BY <2>1, FifoIdle DEF SerialHolds, Idle
  <2>4. ASSUME NEW c \in Centers, NEW q \in QueueType, NEW w,
               Placed(slot[r], c, q, w)
        PROVE  Placed(slot[r], c, q, w)'
    <3>1. ~ Serving(slot[r], c, q)'
      BY <2>3 DEF Serving
    <3>2. \A i \in 1..Cardinality(Line(c, q, today)) : position[w[i]] = i
      <4>1. CASE c = c0 /\ q = q0
        BY <2>2, <4>1 DEF L0
      <4>2. CASE ~ (c = c0 /\ q = q0)
        BY <1>4, <2>4, <4>2 DEF Placed, Number
      <4> QED
        BY <4>1, <4>2
    <3> QED
      BY <1>3, <2>4, <3>1, <3>2 DEF Placed, Number
  <2>5. Keeps(r)
    BY <2>4 DEF Keeps
  <2> QED
    BY <1>3, <2>3, <2>5, LawfulKeepsOrder DEF Lawful, FifoInv
<1>11. ASSUME NEW rest \in ByPosition(L0),
              Goto(r, [slot[r] EXCEPT !.pc = "renumber", !.rest = rest,
                                      !.i = 1])
       PROVE  FifoInv' /\ Keeps(r)
  <2>1. slot'[r] = [slot[r] EXCEPT !.pc = "renumber", !.rest = rest, !.i = 1]
    BY <1>11, GotoMoves DEF FifoInv
  <2>2. /\ slot'[r].pc = "renumber" /\ slot'[r].rest = rest
        /\ slot'[r].i = 1 /\ slot'[r].entry = e /\ slot'[r].day = today
    BY <1>1, <1>2, <2>1 DEF ServeFrame
  <2>3. SerialHolds(slot[r])'
    BY <1>3, <2>2 DEF SerialHolds
  <2>4. \A c \in Centers, q \in QueueType :
          Serving(slot[r], c, q)' <=> c = c0 /\ q = q0
    BY <1>3, <2>2 DEF Serving
  <2>5. ASSUME NEW w, Placed(slot[r], c0, q0, w)
        PROVE  rest = w
    <3>1. /\ IsFiniteSet(L0)
          /\ \A x \in L0 : position[x] \in Nat
          /\ \A i, j \in 1..Cardinality(L0) :
               i < j => position[w[i]] < position[w[j]]
      BY <2>5, PlacedFacts
    <3>2. w \in SetToSeqs(L0)
      BY <2>5 DEF Placed
    <3>3. rest \in Sorted(L0, position)
      BY DEF ByPosition, Sorted
    <3> HIDE DEF L0
    <3> QED
      BY <3>1, <3>2, <3>3, OneOrder
  <2>6. ASSUME NEW c \in Centers, NEW q \in QueueType, NEW w,
               Placed(slot[r], c, q, w)
        PROVE  Placed(slot[r], c, q, w)'
    <3> DEFINE n == Cardinality(Line(c, q, today))
    <3>1. n \in Nat
      BY <2>6, PlacedFacts
    <3>2. \A i \in 1..n :
            position[w[i]] = IF c = c0 /\ q = q0 THEN i + 1 ELSE i
      BY <1>1, <1>4, <2>6 DEF Placed, Number
    <3>3. c = c0 /\ q = q0 => w = rest
      BY <2>5, <2>6
    <3>4. w \in SetToSeqs(Line(c, q, today)')
      BY <1>3, <2>6 DEF Placed
    <3>5. \A i \in 1..Cardinality(Line(c, q, today)') :
            position'[w[i]] = IF c = c0 /\ q = q0 THEN i + 1 ELSE i
      BY <1>3, <3>2
    <3>6. \A i \in 1..Cardinality(Line(c, q, today)') :
            Number(slot[r], c, q, i)' = IF c = c0 /\ q = q0 THEN i + 1 ELSE i
      BY <1>3, <2>2, <2>4, <3>1 DEF Number
    <3> QED
      BY <2>2, <2>4, <3>3, <3>4, <3>5, <3>6 DEF Placed
  <2>7. Keeps(r)
    BY <2>6 DEF Keeps
  <2> QED
    BY <1>3, <2>3, <2>7, LawfulKeepsOrder DEF Lawful, FifoInv
<1> QED
  BY <1>9, <1>10, <1>11 DEF SelectRest

(* The loop moves the numbers of one line down, the first rows first, so   *)
(* that no two rows change places.                                         *)
LEMMA FifoRenumber ==
  ASSUME OneRequest, FifoInv, IInv', NEW r \in Requests, Renumber(r)
  PROVE  FifoInv' /\ Keeps(r)
<1> DEFINE e == slot[r].entry
           rest == slot[r].rest
           k == slot[r].i
<1>1. /\ slot[r] \in ServeFrame /\ slot[r].pc = "renumber"
      /\ e \in DOMAIN entries
      /\ k \in 1..Len(rest)
      /\ rest[k] \in DOMAIN entries
      /\ k \in Nat
  BY SlotRead DEF Renumber, FifoInv, FrameHolds, ServeFrame
<1>2. slot[r].day = today
  BY <1>1 DEF FifoInv, SerialHolds
<1> PICK c0 \in Centers, q0 \in QueueType :
      c0 = entries[e].center /\ q0 = entries[e].type
  BY <1>1 DEF FifoInv, IInv, TypeOK, QueueTypeOK, Entry
<1> DEFINE L0 == Line(c0, q0, today)
<1>3. /\ UNCHANGED <<entries, today>>
      /\ \A c, q : Line(c, q, today)' = Line(c, q, today)
  BY DEF Renumber, Line
<1>4. \A c \in Centers, q \in QueueType :
        Serving(slot[r], c, q) <=> c = c0 /\ q = q0
  BY <1>1 DEF Serving
<1>5. Placed(slot[r], c0, q0, rest)
  <2>1. PICK w0 : Placed(slot[r], c0, q0, w0)
    BY DEF FifoInv, InOrder
  <2> QED
    BY <1>1, <1>4, <2>1 DEF Placed
<1>6. IsFiniteSet(L0)
  BY LineIsFinite
<1>7. rest \in SetToSeqs(L0)
  BY <1>5 DEF Placed
<1>8. /\ Len(rest) = Cardinality(L0)
      /\ Cardinality(L0) \in Nat
      /\ rest \in [1..Cardinality(L0) -> L0]
      /\ \A i, j \in 1..Cardinality(L0) : rest[i] = rest[j] => i = j
  BY <1>6, <1>7, OrderIsSeq
<1>9. /\ position'[rest[k]] = k
      /\ \A x \in DOMAIN entries : x # rest[k] => position'[x] = position[x]
  BY <1>1 DEF Renumber, FifoInv, IInv, TypeOK
<1>10. \/ slot'[r].pc = "idle" /\ k = Len(rest)
       \/ /\ slot'[r].pc = "renumber" /\ slot'[r].rest = rest
          /\ slot'[r].i = k + 1 /\ slot'[r].entry = e
          /\ slot'[r].day = today
  <2>1. CASE k = Len(rest)
    <3>1. slot'[r] = Idle
      BY <2>1, GotoMoves DEF Renumber, FifoInv
    <3> QED
      BY <2>1, <3>1 DEF Idle
  <2>2. CASE k # Len(rest)
    <3>1. slot'[r] = [slot[r] EXCEPT !.i = @ + 1]
      BY <2>2, GotoMoves DEF Renumber, FifoInv
    <3> QED
      BY <1>1, <1>2, <3>1 DEF ServeFrame
  <2> QED
    BY <2>1, <2>2
<1> HIDE DEF e, rest, k, L0
<1>11. SerialHolds(slot[r])'
  BY <1>3, <1>10 DEF SerialHolds
<1>12. \A c \in Centers, q \in QueueType :
         Serving(slot[r], c, q)' <=>
           c = c0 /\ q = q0 /\ slot'[r].pc = "renumber"
  BY <1>3, <1>10 DEF Serving, e
<1>13. ASSUME NEW c \in Centers, NEW q \in QueueType, NEW w,
              Placed(slot[r], c, q, w)
       PROVE  Placed(slot[r], c, q, w)'
  <2> DEFINE L == Line(c, q, today)
             n == Cardinality(L)
  <2>1. /\ n \in Nat
        /\ L \subseteq DOMAIN entries
    BY <1>13, PlacedFacts
  <2>2. w \in [1..n -> L]
    BY <1>13, PlacedFacts
  <2>3. w \in SetToSeqs(Line(c, q, today)')
    BY <1>3, <1>13 DEF Placed
  <2>4. CASE c = c0 /\ q = q0
    <3>1. w = rest /\ L = L0
      BY <1>1, <1>4, <1>13, <2>4 DEF Placed, rest, L0
    <3>2. \A i \in 1..n : position[rest[i]] = IF i >= k THEN i + 1 ELSE i
      BY <1>1, <1>4, <1>13, <2>4, <3>1 DEF Placed, Number, k
    <3> HIDE DEF L, n
    <3>3. n = Len(rest) /\ Cardinality(L0) = n
      BY <1>8, <3>1 DEF n
    <3>4. \A i \in 1..n : position'[rest[i]] = IF i >= k + 1 THEN i + 1 ELSE i
      <4> SUFFICES ASSUME NEW i \in 1..n
                   PROVE  position'[rest[i]] = IF i >= k + 1 THEN i + 1 ELSE i
        OBVIOUS
      <4>1. CASE i = k
        BY <1>1, <1>9, <4>1
      <4>2. CASE i # k
        <5>1. rest[i] # rest[k] /\ rest[i] \in DOMAIN entries
          BY <1>1, <1>8, <2>1, <2>2, <3>1, <3>3, <4>2
        <5>2. position'[rest[i]] = position[rest[i]]
          BY <1>9, <5>1
        <5> QED
          BY <1>1, <2>1, <3>2, <4>2, <5>2
      <4> QED
        BY <4>1, <4>2
    <3>5. \A i \in 1..n :
            Number(slot[r], c, q, i)' = IF i >= k + 1 THEN i + 1 ELSE i
      BY <1>1, <1>10, <1>12, <2>1, <2>4, <3>3 DEF Number
    <3>6. \A i \in 1..Cardinality(Line(c, q, today)') :
            position'[w[i]] = Number(slot[r], c, q, i)'
      BY <1>3, <3>1, <3>4, <3>5 DEF n, L
    <3> QED
      BY <1>10, <2>3, <3>1, <3>6 DEF Placed
  <2>5. CASE ~ (c = c0 /\ q = q0)
    <3>1. \A i \in 1..n : position[w[i]] = i
      BY <1>4, <1>13, <2>5 DEF Placed, Number
    <3>2. rest[k] \notin L
      <4>1. rest[k] \in L0
        BY <1>1, <1>8
      <4> QED
        BY <2>5, <4>1 DEF L0, Line
    <3>3. \A i \in 1..n : position'[w[i]] = i
      <4> HIDE DEF L, n
      <4> QED
        BY <1>9, <2>1, <2>2, <3>1, <3>2
    <3>4. ~ Serving(slot[r], c, q)'
      BY <1>12, <2>5
    <3> QED
      BY <1>3, <2>3, <3>3, <3>4 DEF Placed, Number
  <2> QED
    BY <2>4, <2>5
<1>14. Keeps(r)
  BY <1>13 DEF Keeps
<1> QED
  BY <1>3, <1>11, <1>14, LawfulKeepsOrder DEF Lawful, FifoInv

(* No request is on its way at midnight, and no row is dated ahead.        *)
LEMMA FifoMidnight ==
  ASSUME OneRequest, ~ MidnightCuts, FifoInv, IInv', NEW r \in Requests,
         Midnight
  PROVE  FifoInv' /\ Ends(r)
<1>1. slot[r] = Idle /\ slot' = slot /\ entries' = entries
  BY DEF Midnight, Quiet
<1>2. today \in Nat /\ today' = today + 1
  BY DEF Midnight, NextDay, FifoInv, IInv, TypeOK, QueueTypeOK
<1>3. \A d \in DOMAIN entries : entries[d].day \in Nat /\ entries[d].day <= today
  BY DEF FifoInv, IInv, TypeOK, QueueTypeOK, Entry
<1>4. \A c, q : Line(c, q, today)' = {}
  BY <1>1, <1>2, <1>3 DEF Line
<1>5. ASSUME NEW c \in Centers, NEW q \in QueueType
      PROVE  Placed(slot[r], c, q, <<>>)'
  <2>1. Line(c, q, today)' = {}
    BY <1>4
  <2>2. ~ Serving(slot[r], c, q)'
    BY <1>1 DEF Serving, Idle
  <2>3. <<>> \in SetToSeqs(Line(c, q, today)')
    BY <2>1, OrderOfNone
  <2>4. Cardinality(Line(c, q, today)') = 0
    BY <2>1, OrderOfNone
  <2> QED
    BY <2>2, <2>3, <2>4 DEF Placed
<1>6. SerialHolds(slot[r])'
  BY <1>1, FifoIdle DEF SerialHolds, Idle
<1>7. \A d \in DOMAIN entries' : entries'[d].day <= today'
  BY <1>1, <1>2, <1>3
<1>8. Ends(r)
  BY <1>5 DEF Ends
<1> QED
  BY <1>6, <1>7, <1>8, LawfulKeepsOrder DEF Lawful
-----------------------------------------------------------------------------
(* The queue under which QueuesService is a FIFO queue: requests do not    *)
(* overlap, are not cut off and do not span midnight, and no vehicle is    *)
(* taken out of the middle of a line.                                      *)
Sequential ==
  OneRequest /\ ~ MayFail /\ ~ MidnightCuts /\ "startVehicle" \notin Endpoints

LEMMA FifoStep ==
  ASSUME Sequential, FifoInv, [Next]_vars
  PROVE  FifoInv' /\ \A r \in Requests : Lawful(r)
<1>1. IInv'
  BY Inductive DEF FifoInv
<1> PICK r \in Requests : Requests = {r}
  BY DEF Sequential, OneRequest
<1> SUFFICES FifoInv' /\ Lawful(r)
  OBVIOUS
<1>2. CASE Call(r)
  BY <1>1, <1>2, FifoCall DEF Sequential, Lawful
<1>3. CASE Continue(r) /\ ~ SelectVehicle(r)
  BY <1>1, <1>3, FifoCountLine, FifoInsert, FifoRecordQueued, FifoSelectNext,
     FifoDeactivate, FifoRecordService, FifoSelectRest, FifoRenumber
     DEF Continue, Sequential, Lawful
<1>4. ~ SelectVehicle(r)
  BY DEF SelectVehicle, FifoInv, SerialHolds
<1>5. CASE Midnight
  BY <1>1, <1>5, FifoMidnight DEF Sequential, Lawful
<1>6. CASE UNCHANGED vars
  <2>1. Keeps(r)
    BY <1>6 DEF vars, Keeps, Placed, Line, Number, Serving
  <2>2. SerialHolds(slot[r])'
    BY <1>6 DEF vars, FifoInv, SerialHolds, NextPosition, Line
  <2> QED
    BY <1>1, <1>6, <2>1, <2>2, LawfulKeepsOrder
       DEF vars, FifoInv, Sequential, Lawful
<1> QED
  BY <1>2, <1>3, <1>4, <1>5, <1>6 DEF Next, Fail, Crash, Sequential

LEMMA EmptyLines ==
  ASSUME Init, NEW r \in Requests, NEW c \in Centers, NEW q \in QueueType
  PROVE  Placed(slot[r], c, q, <<>>)
<1>1. Line(c, q, today) = {}
  BY DEF Init, QueueInit, Line
<1>2. ~ Serving(slot[r], c, q)
  BY DEF Init, Serving, Idle
<1> QED
  BY <1>1, <1>2, OrderOfNone DEF Placed

LEMMA FifoInitially == Init => FifoInv
<1> SUFFICES ASSUME Init PROVE FifoInv
  OBVIOUS
<1>1. IInv
  BY Initially
<1>2. \A r \in Requests : SerialHolds(slot[r])
  BY FifoIdle DEF Init
<1>3. \A r \in Requests, c \in Centers, q \in QueueType :
        InOrder(slot[r], c, q)
  BY EmptyLines DEF InOrder, Placed
<1>4. DOMAIN entries = {}
  BY DEF Init, QueueInit
<1> QED
  BY <1>1, <1>2, <1>3, <1>4 DEF FifoInv

LEMMA FifoInvariance ==
  ASSUME Sequential
  PROVE  Spec => []FifoInv
<1>1. FifoInv /\ [Next]_vars => FifoInv'
  BY FifoStep
<1> QED
  BY <1>1, FifoInitially, PTL DEF Spec

(* With no request under way, the vehicles that wait at a center today are *)
(* numbered 1, 2, 3, ... without gaps, after any number of vehicles have   *)
(* joined, been served and been renumbered.                                *)
THEOREM NumberedWithoutGaps ==
  ASSUME Sequential
  PROVE  Spec => []PositionsSequential
<1>1. FifoInv => PositionsSequential
  <2> SUFFICES ASSUME FifoInv, Quiet, NEW c \in Centers, NEW q \in QueueType
               PROVE  {position[e] : e \in Line(c, q, today)} =
                        1..Cardinality(Line(c, q, today))
    BY DEF PositionsSequential
  <2> PICK r \in Requests : Requests = {r}
    BY DEF Sequential, OneRequest
  <2> PICK w : Placed(slot[r], c, q, w)
    BY DEF FifoInv, InOrder
  <2> DEFINE L == Line(c, q, today)
             n == Cardinality(L)
  <2>1. \A i \in 1..n : position[w[i]] = i
    BY DEF Placed, Number, Serving, Quiet, Idle
  <2>2. w \in SetToSeqs(L)
    BY DEF Placed
  <2>3. IsFiniteSet(L)
    BY LineIsFinite
  <2> HIDE DEF L
  <2>4. /\ w \in [1..n -> L]
        /\ \A x \in L : \E i \in 1..n : w[i] = x
    BY <2>2, <2>3, OrderIsSeq
  <2> HIDE DEF n
  <2>5. {position[e] : e \in L} = 1..n
    BY <2>1, <2>4
  <2> QED
    BY <2>5 DEF L, n
<1> QED
  BY <1>1, FifoInvariance, PTL
-----------------------------------------------------------------------------
(* The refinement: what a lawful step does to the lines is a step of       *)
(* FifoLine.                                                               *)
LEMMA LineShown ==
  ASSUME FifoInv, LinesShown, NEW r \in Requests,
         NEW c \in Centers, NEW q \in QueueType
  PROVE  Placed(slot[r], c, q, lines[<<c, q>>])
<1>1. PICK w : Placed(slot[r], c, q, w)
  BY DEF FifoInv, InOrder
<1>2. lines[<<c, q>>] = WaitingLine(<<c, q>>)
  BY DEF lines
<1> QED
  BY <1>1, <1>2 DEF LinesShown

(* Functions on the lines of the centers.                                  *)
OnLines(f) == f = [l \in Centers \X QueueType |-> f[l]]

LEMMA SameLines ==
  ASSUME NEW f, NEW g, OnLines(f), OnLines(g),
         \A c \in Centers, q \in QueueType : f[<<c, q>>] = g[<<c, q>>]
  PROVE  f = g
<1>1. ASSUME NEW l \in Centers \X QueueType PROVE f[l] = g[l]
  <2>1. l[1] \in Centers /\ l[2] \in QueueType /\ l = <<l[1], l[2]>>
    OBVIOUS
  <2> QED
    BY <2>1
<1> QED
  BY <1>1 DEF OnLines

LEMMA LawfulImplements ==
  ASSUME FifoInv, LinesShown, LinesShown', NEW r \in Requests, Lawful(r)
  PROVE  [Fifo!Next]_lines
<1>1. \A c \in Centers, q \in QueueType :
        Placed(slot[r], c, q, lines[<<c, q>>])
  BY LineShown
<1>2. ASSUME NEW c \in Centers, NEW q \in QueueType, NEW w,
             Placed(slot[r], c, q, w)'
      PROVE  lines'[<<c, q>>] = w
  <2>1. lines'[<<c, q>>] = WaitingLine(<<c, q>>)'
    BY DEF lines
  <2> QED
    BY <1>2, <2>1 DEF LinesShown
<1>3. OnLines(lines) /\ OnLines(lines')
  BY DEF lines, OnLines
<1>4. CASE Keeps(r)
  <2>1. \A c \in Centers, q \in QueueType : lines'[<<c, q>>] = lines[<<c, q>>]
    BY <1>1, <1>2, <1>4 DEF Keeps
  <2>2. lines' = lines
    BY <1>3, <2>1, SameLines
  <2> QED
    BY <2>2
<1>5. CASE Joins(r)
  <2> PICK e \in EntryIds \ DOMAIN entries, center \in Centers,
           type \in QueueType :
        \A c \in Centers, q \in QueueType :
          \A w : Placed(slot[r], c, q, w) =>
            IF c = center /\ q = type THEN Placed(slot[r], c, q, Joined(w, e))'
            ELSE Placed(slot[r], c, q, w)'
    BY <1>5 DEF Joins
  <2> DEFINE l0 == <<center, type>>
  <2>1. \A c \in Centers, q \in QueueType :
          lines'[<<c, q>>] = IF c = center /\ q = type
                             THEN Joined(lines[<<c, q>>], e)
                             ELSE lines[<<c, q>>]
    <3> TAKE c \in Centers, q \in QueueType
    <3>1. Placed(slot[r], c, q, lines[<<c, q>>])
      BY <1>1
    <3>2. PICK w : w = lines[<<c, q>>]
      OBVIOUS
    <3>3. CASE c = center /\ q = type
      <4>1. Placed(slot[r], c, q, Joined(w, e))'
        BY <3>1, <3>2, <3>3
      <4> QED
        BY <1>2, <3>2, <3>3, <4>1
    <3>4. CASE ~ (c = center /\ q = type)
      <4>1. Placed(slot[r], c, q, w)'
        BY <3>1, <3>2, <3>4
      <4> QED
        BY <1>2, <3>2, <3>4, <4>1
    <3> QED
      BY <3>3, <3>4
  <2>2. lines' = [lines EXCEPT ![l0] = Joined(@, e)]
    <3> DEFINE g == [lines EXCEPT ![l0] = Joined(@, e)]
    <3>1. OnLines(g)
      BY <1>3 DEF OnLines
    <3>2. \A c \in Centers, q \in QueueType : lines'[<<c, q>>] = g[<<c, q>>]
      BY <1>3, <2>1 DEF OnLines
    <3> HIDE DEF g
    <3>3. lines' = g
      BY <1>3, <3>1, <3>2, SameLines
    <3> QED
      BY <3>3 DEF g
  <2>3. e \notin Fifo!Waiting
    <3> SUFFICES ASSUME NEW c \in Centers, NEW q \in QueueType,
                        NEW i \in DOMAIN lines[<<c, q>>],
                        lines[<<c, q>>][i] = e
                 PROVE  FALSE
      BY DEF Fifo!Waiting
    <3>1. lines[<<c, q>>] \in SetToSeqs(Line(c, q, today))
      BY <1>1 DEF Placed
    <3>2. lines[<<c, q>>][i] \in Line(c, q, today)
      BY <3>1 DEF SetToSeqs
    <3> QED
      BY <3>2 DEF Line
  <2>4. Fifo!Join(l0)
    BY <2>2, <2>3 DEF Fifo!Join, Joined
  <2> QED
    BY <2>4 DEF Fifo!Next
<1>6. CASE Leaves(r)
  <2> PICK center \in Centers, type \in QueueType :
        \A c \in Centers, q \in QueueType :
          \A w : Placed(slot[r], c, q, w) =>
            IF c = center /\ q = type
            THEN w # <<>> /\ Placed(slot[r], c, q, Tail(w))'
            ELSE Placed(slot[r], c, q, w)'
    BY <1>6 DEF Leaves
  <2> DEFINE l0 == <<center, type>>
  <2>1. \A c \in Centers, q \in QueueType :
          lines'[<<c, q>>] = IF c = center /\ q = type
                             THEN Tail(lines[<<c, q>>])
                             ELSE lines[<<c, q>>]
    <3> TAKE c \in Centers, q \in QueueType
    <3>1. Placed(slot[r], c, q, lines[<<c, q>>])
      BY <1>1
    <3>2. PICK w : w = lines[<<c, q>>]
      OBVIOUS
    <3>3. CASE c = center /\ q = type
      <4>1. Placed(slot[r], c, q, Tail(w))'
        BY <3>1, <3>2, <3>3
      <4> QED
        BY <1>2, <3>2, <3>3, <4>1
    <3>4. CASE ~ (c = center /\ q = type)
      <4>1. Placed(slot[r], c, q, w)'
        BY <3>1, <3>2, <3>4
      <4> QED
        BY <1>2, <3>2, <3>4, <4>1
    <3> QED
      BY <3>3, <3>4
  <2>2. lines' = [lines EXCEPT ![l0] = Tail(@)]
    <3> DEFINE g == [lines EXCEPT ![l0] = Tail(@)]
    <3>1. OnLines(g)
      BY <1>3 DEF OnLines
    <3>2. \A c \in Centers, q \in QueueType : lines'[<<c, q>>] = g[<<c, q>>]
      BY <1>3, <2>1 DEF OnLines
    <3> HIDE DEF g
    <3>3. lines' = g
      BY <1>3, <3>1, <3>2, SameLines
    <3> QED
      BY <3>3 DEF g
  <2>3. lines[l0] # <<>>
    BY <1>1
  <2>4. Fifo!ServeHead(l0)
    BY <2>2, <2>3 DEF Fifo!ServeHead
  <2> QED
    BY <2>4 DEF Fifo!Next
<1>7. CASE Ends(r)
  <2>1. \A c \in Centers, q \in QueueType : lines'[<<c, q>>] = <<>>
    BY <1>2, <1>7 DEF Ends
  <2>2. lines' = [l \in Centers \X QueueType |-> <<>>]
    BY <1>3, <2>1 DEF OnLines
  <2> QED
    BY <2>2 DEF Fifo!Next, Fifo!NewDay
<1> QED
  BY <1>4, <1>5, <1>6, <1>7 DEF Lawful

(* FIFO: for every number of centers, vehicles, rows and days, whoever     *)
(* joins a line is served after those who came before; counting,           *)
(* inserting, serving and the loop that renumbers the rows never show a    *)
(* line in another order.                                                  *)
THEOREM ImplementsFifoLine ==
  ASSUME Sequential
  PROVE  Spec => FirstComeFirstServed
<1>1. Init => Fifo!Init
  <2> SUFFICES ASSUME Init PROVE lines = [l \in Centers \X QueueType |-> <<>>]
    BY DEF Fifo!Init
  <2> PICK r \in Requests : Requests = {r}
    BY DEF Sequential, OneRequest
  <2>1. \A c \in Centers, q \in QueueType : WaitingLine(<<c, q>>) = <<>>
    BY EmptyLines, FifoInitially, Shown DEF LinesShown
  <2> QED
    BY <2>1 DEF lines
<1>2. FifoInv /\ LinesShown /\ LinesShown' /\ [Next]_vars => [Fifo!Next]_lines
  BY FifoStep, LawfulImplements DEF Sequential, OneRequest
<1> QED
  BY <1>1, <1>2, Shown, FifoInvariance, PTL
     DEF Spec, FirstComeFirstServed, Fifo!Spec
=============================================================================
