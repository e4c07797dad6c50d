------------------------- MODULE CenterQueuesProofs -------------------------
(***************************************************************************)
(* Proofs about CenterQueues, for any number of centers, vehicles, rows    *)
(* and concurrent requests, with failures and crashes.                     *)
(*                                                                         *)
(* ServedAfterLeaving needs to know that a request that is about to record *)
(* SERVICE_STARTED has made its row inactive, and that no other request    *)
(* can make it active again: FramesHold.                                   *)
(***************************************************************************)
EXTENDS CenterQueues, FiniteSetTheorems, TLAPS

(* What a request carries across its awaits.                               *)
FrameHolds(f, rows) ==
  /\ f.pc = "insert" => f.nextPosition # 0
  /\ f.pc \in {"queuedEvent", "deactivate"} => f.entry \in DOMAIN rows
  /\ f.pc \in {"serviceEvent", "selectRest", "renumber"} =>
       f.entry \in DOMAIN rows /\ ~ rows[f.entry].active
  /\ f.pc = "renumber" =>
       /\ f.i \in 1..Len(f.rest)
       /\ \A j \in 1..Len(f.rest) : f.rest[j] \in DOMAIN rows

FramesHold == \A r \in Requests : FrameHolds(slot[r], entries)

IInv ==
  /\ TypeOK
  /\ IsFiniteSet(DOMAIN entries)
  /\ FramesHold
  /\ ServedAfterLeaving

(* Rows are never deleted, and never made active again.                    *)
Grows ==
  \A e \in DOMAIN entries :
    e \in DOMAIN entries' /\ (~ entries[e].active => ~ entries'[e].active)

(* Only the frame of request r changes.                                    *)
Moves(r) == slot' = [slot EXCEPT ![r] = slot'[r]]
-----------------------------------------------------------------------------
LEMMA FreshIdIsFresh ==
  ASSUME NEW ids, NEW table, ids \ DOMAIN table # {}
  PROVE  FreshId(ids, table) \in ids \ DOMAIN table
  BY DEF FreshId

LEMMA FramesStep ==
  ASSUME IInv, Grows, NEW r \in Requests, Moves(r), slot'[r] \in Frame,
         FrameHolds(slot'[r], entries')
  PROVE  FramesHold' /\ slot' \in [Requests -> Frame]
<1>1. slot' \in [Requests -> Frame]
  BY DEF IInv, TypeOK, Moves
<1>2. ASSUME NEW q \in Requests
      PROVE  FrameHolds(slot'[q], entries')
  <2>1. CASE q = r
    BY <2>1
  <2>2. CASE q # r
    <3>1. slot'[q] = slot[q]
      BY <2>2 DEF Moves, IInv, TypeOK
    <3>2. FrameHolds(slot[q], entries)
      BY DEF IInv, FramesHold
    <3>3. FrameHolds(slot[q], entries')
      BY <3>2 DEF FrameHolds, Grows
    <3> QED
      BY <3>1, <3>3
  <2> QED
    BY <2>1, <2>2
<1> QED
  BY <1>1, <1>2 DEF FramesHold

(* A step that changes nothing but one frame.                              *)
LEMMA LocalStep ==
  ASSUME IInv, NEW r \in Requests, Moves(r),
         UNCHANGED <<entries, today, position, queued, started>>,
         slot'[r] \in Frame, FrameHolds(slot'[r], entries)
  PROVE  IInv'
<1>1. Grows
  BY DEF Grows
<1>2. FramesHold' /\ slot' \in [Requests -> Frame]
  BY <1>1, FramesStep
<1> QED
  BY <1>2 DEF IInv, TypeOK, QueueTypeOK, ServedAfterLeaving

LEMMA IdleHolds ==
  ASSUME NEW STATE rows
  PROVE  Idle \in Frame /\ FrameHolds(Idle, rows)
  BY DEF Idle, Frame, FrameHolds

LEMMA GotoMoves ==
  ASSUME IInv, NEW r \in Requests, NEW STATE f, Goto(r, f)
  PROVE  Moves(r) /\ slot'[r] = f
  BY DEF IInv, TypeOK, Goto, Moves

(* The kind of frame a request has at each statement.                      *)
LEMMA SlotRead ==
  ASSUME IInv, NEW r \in Requests
  PROVE  /\ FrameHolds(slot[r], entries)
         /\ slot[r].pc \in {"count", "insert"} => slot[r] \in AddFrame
         /\ slot[r].pc = "queuedEvent" => slot[r] \in EntryFrame
         /\ slot[r].pc = "selectNext" => slot[r] \in NextFrame
         /\ slot[r].pc = "selectVehicle" => slot[r] \in VehicleFrame
         /\ slot[r].pc \in {"deactivate", "serviceEvent", "selectRest",
                            "renumber"} => slot[r] \in ServeFrame
<1>1. slot[r] \in Frame
  BY DEF IInv, TypeOK
<1>2. FrameHolds(slot[r], entries)
  BY DEF IInv, FramesHold
<1> QED
  BY <1>1, <1>2 DEF Frame, Idle, AddFrame, EntryFrame, NextFrame,
                    VehicleFrame, ServeFrame

(* A line is finite, so it can be counted and put in order.                *)
LEMMA LinesAreFinite ==
  ASSUME IInv, NEW STATE S, S \subseteq DOMAIN entries
  PROVE  /\ Cardinality(S) \in Nat
         /\ S # {} => Cardinality(S) # 0
<1>1. IsFiniteSet(S)
  BY FS_Subset DEF IInv
<1> QED
  BY <1>1, FS_CardinalityType, FS_EmptySet
-----------------------------------------------------------------------------
LEMMA StepAddToQueue ==
  ASSUME IInv, NEW r \in Requests, AddToQueue(r)
  PROVE  IInv'
<1> PICK c \in Centers, q \in QueueType, v \in Vehicles, t \in Trips :
      Goto(r, [pc |-> "count", center |-> c, type |-> q, vehicle |-> v,
               trip |-> t, nextPosition |-> 0])
  BY DEF AddToQueue
<1> DEFINE f == [pc |-> "count", center |-> c, type |-> q, vehicle |-> v,
                 trip |-> t, nextPosition |-> 0]
<1>1. f \in Frame /\ FrameHolds(f, entries)
  BY DEF Frame, AddFrame, FrameHolds
<1>2. Moves(r) /\ slot'[r] = f
  BY GotoMoves
<1> QED
  BY <1>1, <1>2, LocalStep DEF AddToQueue

LEMMA StepCountLine ==
  ASSUME IInv, NEW r \in Requests, CountLine(r)
  PROVE  IInv'
<1> DEFINE n == NextPosition(slot[r].center, slot[r].type)
           f == [slot[r] EXCEPT !.pc = "insert", !.nextPosition = n]
<1>1. slot[r] \in AddFrame
  BY SlotRead DEF CountLine
<1>2. n \in Nat \ {0}
  <2>1. Cardinality(Line(slot[r].center, slot[r].type, today)) \in Nat
    BY LinesAreFinite DEF Line
  <2> QED
    BY <2>1 DEF NextPosition
<1>3. f \in Frame /\ FrameHolds(f, entries)
  BY <1>1, <1>2 DEF Frame, AddFrame, FrameHolds
<1>4. Moves(r) /\ slot'[r] = f
  BY GotoMoves DEF CountLine
<1> QED
  BY <1>3, <1>4, LocalStep DEF CountLine

LEMMA StepStartNext ==
  ASSUME IInv, NEW r \in Requests, StartNext(r)
  PROVE  IInv'
<1> PICK c \in Centers, q \in QueueType :
      Goto(r, [pc |-> "selectNext", center |-> c, type |-> q, day |-> today])
  BY DEF StartNext
<1> DEFINE f == [pc |-> "selectNext", center |-> c, type |-> q, day |-> today]
<1>1. f \in Frame /\ FrameHolds(f, entries)
  BY DEF Frame, NextFrame, FrameHolds, IInv, TypeOK, QueueTypeOK
<1>2. Moves(r) /\ slot'[r] = f
  BY GotoMoves
<1> QED
  BY <1>1, <1>2, LocalStep DEF StartNext

LEMMA StepStartVehicle ==
  ASSUME IInv, NEW r \in Requests, StartVehicle(r)
  PROVE  IInv'
<1> PICK v \in Vehicles, q \in QueueType :
      Goto(r, [pc |-> "selectVehicle", vehicle |-> v, type |-> q,
               day |-> today])
  BY DEF StartVehicle
<1> DEFINE f == [pc |-> "selectVehicle", vehicle |-> v, type |-> q,
                 day |-> today]
<1>1. f \in Frame /\ FrameHolds(f, entries)
  BY DEF Frame, VehicleFrame, FrameHolds, IInv, TypeOK, QueueTypeOK
<1>2. Moves(r) /\ slot'[r] = f
  BY GotoMoves
<1> QED
  BY <1>1, <1>2, LocalStep DEF StartVehicle

(* The row a start method selects is in the table.                         *)
LEMMA ServeHolds ==
  ASSUME IInv, NEW e \in DOMAIN entries
  PROVE  Serve(e) \in Frame /\ FrameHolds(Serve(e), entries)
<1>1. e \in EntryIds /\ position[e] \in Nat /\ today \in 1..MaxDay
  BY DEF IInv, TypeOK, QueueTypeOK
<1>2. <<>> \in Seq(EntryIds)
  OBVIOUS
<1>3. Serve(e) \in ServeFrame
  BY <1>1, <1>2 DEF Serve, ServeFrame
<1> QED
  BY <1>3 DEF Frame, Serve, FrameHolds

LEMMA StepSelect ==
  ASSUME IInv, NEW r \in Requests, SelectNext(r) \/ SelectVehicle(r)
  PROVE  IInv'
<1>1. CASE \E e \in DOMAIN entries : Goto(r, Serve(e))
  BY <1>1, ServeHolds, GotoMoves, LocalStep DEF SelectNext, SelectVehicle
<1>2. CASE Goto(r, Idle)
  BY <1>2, IdleHolds, GotoMoves, LocalStep DEF SelectNext, SelectVehicle
<1> QED
  BY <1>1, <1>2 DEF SelectNext, SelectVehicle, Heads, Line, Startable

LEMMA StepSelectRest ==
  ASSUME IInv, NEW r \in Requests, SelectRest(r)
  PROVE  IInv'
<1>1. CASE Goto(r, Idle)
  BY <1>1, IdleHolds, GotoMoves, LocalStep DEF SelectRest
<1>2. CASE /\ Behind(slot[r]) # {}
           /\ \E rest \in ByPosition(Behind(slot[r])) :
                Goto(r, [slot[r] EXCEPT !.pc = "renumber", !.rest = rest,
                                        !.i = 1])
  <2> PICK rest \in ByPosition(Behind(slot[r])) :
        Goto(r, [slot[r] EXCEPT !.pc = "renumber", !.rest = rest, !.i = 1])
    BY <1>2
  <2> DEFINE f == [slot[r] EXCEPT !.pc = "renumber", !.rest = rest, !.i = 1]
             n == Cardinality(Behind(slot[r]))
  <2>1. Behind(slot[r]) \subseteq DOMAIN entries
    BY DEF Behind, Line
  <2>2. n \in Nat /\ n # 0
    BY <1>2, <2>1, LinesAreFinite
  <2>3. rest \in [1..n -> DOMAIN entries]
    BY <2>1 DEF ByPosition, SetToSeqs
  <2>4. rest \in Seq(EntryIds) /\ Len(rest) = n
    <3>1. rest \in [1..n -> EntryIds]
      BY <2>3 DEF IInv, TypeOK, QueueTypeOK
    <3> HIDE DEF n
    <3>2. rest = [j \in 1..n |-> rest[j]] /\ \A j \in 1..n : rest[j] \in EntryIds
      BY <3>1
    <3>3. [j \in 1..n |-> rest[j]] \in Seq(EntryIds)
      BY <2>2, <3>2
    <3>4. Len([j \in 1..n |-> rest[j]]) = n
      BY <2>2
    <3> QED
      BY <3>2, <3>3, <3>4
  <2>5. slot[r] \in ServeFrame /\ FrameHolds(slot[r], entries)
        /\ slot[r].pc = "selectRest"
    BY SlotRead DEF SelectRest
  <2>6. f \in Frame
    BY <2>4, <2>5 DEF Frame, ServeFrame
  <2>7. FrameHolds(f, entries)
    BY <2>2, <2>3, <2>4, <2>5 DEF FrameHolds, ServeFrame
  <2>8. Moves(r) /\ slot'[r] = f
    BY GotoMoves
  <2> QED
    BY <2>6, <2>7, <2>8, LocalStep DEF SelectRest
<1> QED
  BY <1>1, <1>2 DEF SelectRest
-----------------------------------------------------------------------------
(* The steps that write.                                                   *)
LEMMA StepInsertQueueEntry ==
  ASSUME IInv, NEW r \in Requests, InsertQueueEntry(r)
  PROVE  IInv'
<1> DEFINE e == FreshId(EntryIds, entries)
           row == [center |-> slot[r].center, type |-> slot[r].type,
                   vehicle |-> slot[r].vehicle, trip |-> slot[r].trip,
                   day |-> today, active |-> TRUE]
           f == [pc |-> "queuedEvent", entry |-> e]
<1>1. /\ slot[r] \in AddFrame /\ slot[r].nextPosition # 0
  BY SlotRead DEF InsertQueueEntry, FrameHolds
<1>2. /\ e \in EntryIds \ DOMAIN entries
      /\ entries' = InsertRow(entries, e, row)
  BY FreshIdIsFresh DEF InsertQueueEntry, InsertEntry
<1>3. row \in Entry
  BY <1>1 DEF AddFrame, IInv, TypeOK, QueueTypeOK, Entry
<1>4. position' = InsertRow(position, e, slot[r].nextPosition)
  BY DEF InsertQueueEntry
<1>5. Moves(r) /\ slot'[r] = f
  BY GotoMoves DEF InsertQueueEntry
<1>6. f \in Frame
  BY <1>2 DEF Frame, EntryFrame
<1> HIDE DEF e, row
<1>7. /\ DOMAIN entries' = DOMAIN entries \cup {e}
      /\ \A d \in DOMAIN entries : entries'[d] = entries[d]
  BY <1>2 DEF InsertRow
<1>8. QueueTypeOK'
  BY <1>2, <1>3, <1>7
     DEF InsertQueueEntry, InsertRow, IInv, TypeOK, QueueTypeOK
<1>9. position' \in [DOMAIN entries' -> Nat \ {0}]
  <2>1. slot[r].nextPosition \in Nat \ {0}
    BY <1>1 DEF AddFrame
  <2> QED
    BY <1>4, <1>7, <2>1 DEF InsertRow, IInv, TypeOK
<1>10. Grows /\ IsFiniteSet(DOMAIN entries')
  BY <1>7, FS_AddElement DEF Grows, IInv
<1>11. FrameHolds(f, entries')
  BY <1>7 DEF FrameHolds
<1>12. FramesHold' /\ slot' \in [Requests -> Frame]
  BY <1>5, <1>6, <1>10, <1>11, FramesStep
<1>13. ServedAfterLeaving'
  BY <1>7 DEF InsertQueueEntry, IInv, ServedAfterLeaving
<1> QED
  BY <1>7, <1>8, <1>9, <1>10, <1>12, <1>13 DEF InsertQueueEntry, IInv, TypeOK

LEMMA StepRecordQueued ==
  ASSUME IInv, NEW r \in Requests, RecordQueued(r)
  PROVE  IInv'
<1>1. slot[r].entry \in DOMAIN entries
  BY SlotRead DEF RecordQueued, FrameHolds
<1>2. Moves(r) /\ slot'[r] = Idle
  BY GotoMoves DEF RecordQueued
<1>3. Grows
  BY DEF Grows, RecordQueued
<1>4. FramesHold' /\ slot' \in [Requests -> Frame]
  BY <1>2, <1>3, IdleHolds, FramesStep
<1> QED
  BY <1>1, <1>4 DEF RecordQueued, IInv, TypeOK, QueueTypeOK, ServedAfterLeaving

LEMMA StepDeactivateEntry ==
  ASSUME IInv, NEW r \in Requests, DeactivateEntry(r)
  PROVE  IInv'
<1> DEFINE f == [slot[r] EXCEPT !.pc = "serviceEvent"]
<1>1. slot[r] \in ServeFrame /\ slot[r].entry \in DOMAIN entries
  BY SlotRead DEF DeactivateEntry, FrameHolds
<1>2. /\ QueueTypeOK' /\ DOMAIN entries' = DOMAIN entries
      /\ ~ entries'[slot[r].entry].active
      /\ \A e \in DOMAIN entries : ~ entries[e].active => ~ entries'[e].active
  BY <1>1 DEF DeactivateEntry, Deactivate, IInv, TypeOK, QueueTypeOK, Entry
<1>3. Grows
  BY <1>2 DEF Grows
<1>4. Moves(r) /\ slot'[r] = f
  BY GotoMoves DEF DeactivateEntry
<1>5. f \in Frame
  BY <1>1 DEF Frame, ServeFrame
<1>6. FrameHolds(f, entries')
  BY <1>1, <1>2 DEF FrameHolds, ServeFrame
<1>7. FramesHold' /\ slot' \in [Requests -> Frame]
  BY <1>3, <1>4, <1>5, <1>6, FramesStep
<1>8. ServedAfterLeaving'
  BY <1>2 DEF DeactivateEntry, IInv, ServedAfterLeaving
<1> QED
  BY <1>2, <1>7, <1>8 DEF DeactivateEntry, IInv, TypeOK

LEMMA StepRecordService ==
  ASSUME IInv, NEW r \in Requests, RecordService(r)
  PROVE  IInv'
<1> DEFINE f == [slot[r] EXCEPT !.pc = "selectRest"]
<1>1. /\ slot[r] \in ServeFrame /\ slot[r].entry \in DOMAIN entries
      /\ ~ entries[slot[r].entry].active
  BY SlotRead DEF RecordService, FrameHolds
<1>2. Moves(r) /\ slot'[r] = f
  BY GotoMoves DEF RecordService
<1>3. f \in Frame
  BY <1>1 DEF Frame, ServeFrame
<1>4. FrameHolds(f, entries') /\ Grows
  BY <1>1 DEF FrameHolds, ServeFrame, RecordService, Grows
<1>5. FramesHold' /\ slot' \in [Requests -> Frame]
  BY <1>2, <1>3, <1>4, FramesStep
<1>6. started' \in [EntryIds -> Nat]
  BY <1>1 DEF RecordService, IInv, TypeOK, ServeFrame
<1>7. ServedAfterLeaving'
  BY <1>1 DEF RecordService, IInv, TypeOK, ServedAfterLeaving
<1> QED
  BY <1>5, <1>6, <1>7 DEF RecordService, IInv, TypeOK, QueueTypeOK

LEMMA StepRenumber ==
  ASSUME IInv, NEW r \in Requests, Renumber(r)
  PROVE  IInv'
<1> DEFINE f == [slot[r] EXCEPT !.i = @ + 1]
<1>1. /\ slot[r] \in ServeFrame /\ slot[r].pc = "renumber"
      /\ FrameHolds(slot[r], entries)
  BY SlotRead DEF Renumber
<1>2. /\ slot[r].i \in 1..Len(slot[r].rest)
      /\ slot[r].rest[slot[r].i] \in DOMAIN entries
      /\ Len(slot[r].rest) \in Nat
  BY <1>1 DEF FrameHolds, ServeFrame
<1>3. position' \in [DOMAIN entries' -> Nat \ {0}]
  BY <1>2 DEF Renumber, IInv, TypeOK
<1>4. Grows
  BY DEF Grows, Renumber
<1>5. CASE Goto(r, Idle)
  <2>1. FramesHold' /\ slot' \in [Requests -> Frame]
    BY <1>4, <1>5, GotoMoves, IdleHolds, FramesStep
  <2> QED
    BY <1>3, <2>1 DEF Renumber, IInv, TypeOK, QueueTypeOK, ServedAfterLeaving
<1>6. CASE slot[r].i # Len(slot[r].rest) /\ Goto(r, f)
  <2>1. f \in Frame
    BY <1>1 DEF Frame, ServeFrame
  <2>2. FrameHolds(f, entries')
    BY <1>1, <1>2, <1>6 DEF FrameHolds, ServeFrame, Renumber
  <2>3. FramesHold' /\ slot' \in [Requests -> Frame]
    BY <1>4, <1>6, <2>1, <2>2, GotoMoves, FramesStep
  <2> QED
    BY <1>3, <2>3 DEF Renumber, IInv, TypeOK, QueueTypeOK, ServedAfterLeaving
<1> QED
  BY <1>5, <1>6 DEF Renumber
-----------------------------------------------------------------------------
LEMMA Initially == Init => IInv
<1> SUFFICES ASSUME Init PROVE IInv
  OBVIOUS
<1>1. QueueTypeOK
  BY MaxDayAssumption DEF Init, QueueInit, QueueTypeOK
<1>2. IsFiniteSet(DOMAIN entries)
  BY FS_EmptySet DEF Init, QueueInit
<1>3. TypeOK /\ FramesHold
  BY <1>1, IdleHolds DEF Init, QueueInit, TypeOK, FramesHold
<1> QED
  BY <1>2, <1>3 DEF Init, IInv, ServedAfterLeaving

LEMMA Inductive == IInv /\ [Next]_vars => IInv'
<1> SUFFICES ASSUME IInv, [Next]_vars PROVE IInv'
  OBVIOUS
<1>1. ASSUME NEW r \in Requests, Call(r) \/ Continue(r)
      PROVE  IInv'
  BY <1>1, StepAddToQueue, StepCountLine, StepInsertQueueEntry,
     StepRecordQueued, StepStartNext, StepStartVehicle, StepSelect,
     StepDeactivateEntry, StepRecordService, StepSelectRest, StepRenumber
     DEF Call, Continue
<1>2. ASSUME NEW r \in Requests, Fail(r)
      PROVE  IInv'
  BY <1>2, IdleHolds, GotoMoves, LocalStep DEF Fail
<1>3. CASE Crash
  <2>1. slot' \in [Requests -> Frame] /\ FramesHold'
    BY <1>3, IdleHolds DEF Crash, FramesHold
  <2> QED
    BY <1>3, <2>1 DEF Crash, IInv, TypeOK, QueueTypeOK, ServedAfterLeaving
<1>4. CASE Midnight
  <2>1. today' \in 1..MaxDay
    BY <1>4, MaxDayAssumption DEF Midnight, NextDay, IInv, TypeOK, QueueTypeOK
  <2> QED
    BY <1>4, <2>1 DEF Midnight, IInv, TypeOK, QueueTypeOK, FramesHold,
                      ServedAfterLeaving
<1>5. CASE UNCHANGED vars
  BY <1>5 DEF vars, IInv, TypeOK, QueueTypeOK, FramesHold, ServedAfterLeaving
<1> QED
  BY <1>1, <1>2, <1>3, <1>4, <1>5 DEF Next

(* The table and the locals of every request keep their types: positions   *)
(* stay positive, and no request loses the row it works on.                *)
THEOREM TypeCorrect == Spec => []TypeOK
<1>1. IInv => TypeOK
  BY DEF IInv
<1> QED
  BY <1>1, Initially, Inductive, PTL DEF Spec

(* However many agents start services at once, and wherever a request or   *)
(* the process dies, SERVICE_STARTED is recorded only for rows that have   *)
(* left the line.                                                          *)
THEOREM ServiceFollowsLeaving == Spec => []ServedAfterLeaving
<1>1. IInv => ServedAfterLeaving
  BY DEF IInv
<1> QED
  BY <1>1, Initially, Inductive, PTL DEF Spec
-----------------------------------------------------------------------------
(* A statement takes a row out of its line, inserts one, or leaves the     *)
(* rows alone.                                                             *)
RowsLeave ==
  \A e \in DOMAIN entries :
    /\ e \in DOMAIN entries'
    /\ \/ entries'[e] = entries[e]
       \/ entries'[e] = [entries[e] EXCEPT !.active = FALSE]

LEMMA OnlyLeaving ==
  ASSUME IInv, [Next]_vars
  PROVE  RowsLeave
<1>1. CASE UNCHANGED entries
  BY <1>1 DEF RowsLeave
<1>2. ASSUME NEW r \in Requests, InsertQueueEntry(r)
      PROVE  RowsLeave
  <2> PICK e, row : e = FreshId(EntryIds, entries)
                    /\ entries' = InsertRow(entries, e, row)
    BY <1>2 DEF InsertQueueEntry, InsertEntry
  <2>1. e \notin DOMAIN entries
    BY <1>2, FreshIdIsFresh DEF InsertQueueEntry, InsertEntry
  <2> QED
    BY <2>1 DEF InsertRow, RowsLeave
<1>3. ASSUME NEW r \in Requests, DeactivateEntry(r)
      PROVE  RowsLeave
  BY <1>3 DEF DeactivateEntry, Deactivate, RowsLeave, IInv, TypeOK, QueueTypeOK
<1>4. ASSUME NEW r \in Requests, Call(r) \/ Continue(r) \/ Fail(r)
      PROVE  UNCHANGED entries \/ InsertQueueEntry(r) \/ DeactivateEntry(r)
  BY <1>4 DEF Call, Continue, Fail, AddToQueue, StartNext, StartVehicle,
     CountLine, RecordQueued, SelectNext, SelectVehicle, RecordService,
     SelectRest, Renumber
<1>5. ASSUME Crash \/ Midnight \/ UNCHANGED vars
      PROVE  UNCHANGED entries
  BY <1>5 DEF Crash, Midnight, vars
<1> QED
  BY <1>1, <1>2, <1>3, <1>4, <1>5 DEF Next

(* However many agents serve and renumber a line at once, a row that has   *)
(* left it stays out, and no row is lost or becomes another vehicle's.     *)
THEOREM NoRowComesBack == Spec => LeftForGood
<1>1. IInv /\ [Next]_vars => [RowsLeave]_vars
  BY OnlyLeaving
<1> QED
  BY <1>1, Initially, Inductive, PTL DEF Spec, LeftForGood, RowsLeave
=============================================================================
