---------------------------- MODULE TripsProofs ----------------------------
(***************************************************************************)
(* Proofs about Trips, for any number of centers, vehicles and trips, with *)
(* three inductive invariants, each resting on the ones before it.         *)
(*                                                                         *)
(* IInv holds with any number of concurrent requests, every endpoint,      *)
(* failure and crash.  PhaseHistory is not inductive: a handler writes a   *)
(* phase two awaits after it read the one before.  IInv adds FramesHold,   *)
(* which says that what a handler read still holds when it writes; it does *)
(* because the tables only grow, in the sense of Grows.  With it every     *)
(* step is a step of TripRecord or changes nothing of the record.          *)
(*                                                                         *)
(* OrderInv holds with one request at a time (OneRequest): what the        *)
(* request read of its trip is still so when it writes.                    *)
(*                                                                         *)
(* FlowInv holds when nothing disturbs the flow of a trip (Undisturbed):   *)
(* it says in which queue a trip waits, and how its vehicle is shown,      *)
(* between any two statements of the request and of the background job.    *)
(***************************************************************************)
EXTENDS Trips, TLAPS

History == PhaseHistory /\ CompletedHistory /\ DestinationReached

IInv == TypeOK /\ FramesHold /\ History

(* No step removes a trip, an event or a queue row, or clears a            *)
(* destination.                                                            *)
Grows ==
  /\ DOMAIN trips \subseteq DOMAIN trips'
  /\ DOMAIN entries \subseteq DOMAIN entries'
  /\ \A t \in DOMAIN trips :
       /\ events[t] \subseteq events'[t]
       /\ trips[t].destination # NoCenter => trips'[t].destination # NoCenter

(* Only the frame of slot s changes.                                       *)
Moves(s) == slot' = [slot EXCEPT ![s] = slot'[s]]
-----------------------------------------------------------------------------
(* The id a sequence hands out is one of the ids not in use.               *)
LEMMA FreshIdIsFresh ==
  ASSUME NEW ids, NEW table, ids \ DOMAIN table # {}
  PROVE  FreshId(ids, table) \in ids \ DOMAIN table
  BY DEF FreshId

(* The frames of the other slots survive a step under which the tables     *)
(* grow, so FramesHold is preserved if the slot that moved is right.       *)
LEMMA FramesStep ==
  ASSUME FramesHold, Grows, NEW s \in Slots, Moves(s),
         slot \in [Slots -> Frame],
         FrameHolds(slot'[s], trips', events', DOMAIN entries')
  PROVE  FramesHold'
<1> SUFFICES ASSUME NEW r \in Slots
             PROVE  FrameHolds(slot'[r], trips', events', DOMAIN entries')
  BY DEF FramesHold
<1>1. CASE r = s
  BY <1>1
<1>2. CASE r # s
  <2>1. slot'[r] = slot[r]
    BY <1>2 DEF Moves
  <2>2. FrameHolds(slot[r], trips, events, DOMAIN entries)
    BY DEF FramesHold
  <2>3. FrameHolds(slot[r], trips', events', DOMAIN entries')
    BY <2>2 DEF FrameHolds, Grows
  <2> QED
    BY <2>1, <2>3
<1> QED
  BY <1>1, <1>2

(* The history of the trips is kept by a step that leaves them alone.      *)
LEMMA HistoryKept ==
  ASSUME History, Grows, trips' = trips
  PROVE  History'
  BY DEF History, PhaseHistory, CompletedHistory, DestinationReached, Grows

(* A step that changes nothing but one frame.                              *)
LEMMA LocalStep ==
  ASSUME IInv, NEW s \in Slots, Moves(s),
         UNCHANGED <<entries, today, trips, events, vehicles>>,
         slot'[s] \in Frame,
         FrameHolds(slot'[s], trips, events, DOMAIN entries)
  PROVE  IInv'
<1>1. TypeOK'
  BY DEF IInv, TypeOK, QueueTypeOK, Moves
<1>2. Grows
  BY DEF Grows
<1>3. FramesHold'
  BY <1>2, FramesStep DEF IInv, TypeOK
<1>4. History'
  BY <1>2, HistoryKept DEF IInv
<1> QED
  BY <1>1, <1>3, <1>4 DEF IInv
-----------------------------------------------------------------------------
(* A request that enters its handler: its frame holds.                     *)
LEMMA BeginStep ==
  ASSUME IInv, NEW r \in Requests, NEW ep, NEW STATE frame,
         Begin(r, ep, frame), frame \in Frame,
         FrameHolds(frame, trips, events, DOMAIN entries)
  PROVE  IInv'
<1>1. r \in Slots
  BY DEF Slots
<1>2. slot'[r] = frame /\ Moves(r)
  BY <1>1 DEF Begin, Moves, IInv, TypeOK
<1> QED
  BY <1>1, <1>2, LocalStep DEF Begin

(* What a handler knows of a trip it read in the phase it requires.        *)
LEMMA TripRead ==
  ASSUME IInv, NEW phase, NEW t \in InPhase(phase)
  PROVE  /\ t \in Trips /\ t \in DOMAIN trips
         /\ trips[t] \in TripRow
         /\ EventsBefore(phase) \subseteq events[t]
         /\ phase \in AtDestination => trips[t].destination # NoCenter
  BY DEF InPhase, IInv, TypeOK, History, PhaseHistory, DestinationReached

USE DEF EventSteps, QueueSteps, ServiceSteps

(* createTrip enters with the vehicle it looked up.                        *)
LEMMA CallCreateTrip ==
  ASSUME IInv, NEW r \in Requests, CreateTrip(r)
  PROVE  IInv'
<1> PICK v \in Vehicles :
      Begin(r, "createTrip",
        [Idle EXCEPT !.op = "createTrip", !.pc = "insertTrip", !.vehicle = v])
  BY DEF CreateTrip
<1> DEFINE frame ==
      [Idle EXCEPT !.op = "createTrip", !.pc = "insertTrip", !.vehicle = v]
<1>1. frame \in Frame
  BY DEF Idle, Frame, Endpoint, Step
<1>2. FrameHolds(frame, trips, events, DOMAIN entries)
  BY TripsAssumption DEF Idle, FrameHolds, Statements, TripAction
<1> QED
  BY <1>1, <1>2, BeginStep

(* The actions enter with the trip they read, and the history of its phase. *)
LEMMA CallStartLoading ==
  ASSUME IInv, NEW r \in Requests, StartLoading(r)
  PROVE  IInv'
<1> PICK t \in InPhase("AT_ORIGIN_ARRIVED") :
      Begin(r, "startLoading",
           [TripFrame(t, "startLoading", "select", "AT_ORIGIN_LOADING")
           EXCEPT !.queue = "LOADING"])
  BY DEF StartLoading
<1> DEFINE frame ==
      [TripFrame(t, "startLoading", "select", "AT_ORIGIN_LOADING")
         EXCEPT !.queue = "LOADING"]
<1>1. /\ t \in Trips /\ t \in DOMAIN trips /\ trips[t] \in TripRow
      /\ EventsBefore("AT_ORIGIN_ARRIVED") \subseteq events[t]
      /\ "AT_ORIGIN_ARRIVED" \in AtDestination =>
           trips[t].destination # NoCenter
  BY TripRead
<1>2. frame \in Frame
  BY <1>1 DEF TripFrame, TripRow, Idle, Frame, Endpoint, TripAction, Step,
              TripEventType, QueueType, TripPhase
<1>3. FrameHolds(frame, trips, events, DOMAIN entries)
  BY <1>1, TripsAssumption
     DEF TripFrame, Idle, FrameHolds, Statements, TripAction, EventsBefore,
         AtDestination, TripRow, TripEventType, TripPhase, QueueType
<1> QED
  BY <1>2, <1>3, BeginStep

LEMMA CallEndLoading ==
  ASSUME IInv, NEW r \in Requests, EndLoading(r)
  PROVE  IInv'
<1> PICK t \in InPhase("AT_ORIGIN_LOADING") :
      Begin(r, "endLoading",
           [TripFrame(t, "endLoading", "event", "AT_ORIGIN_LOADING_ENDED")
           EXCEPT !.event = "LOADING_ENDED", !.center = trips[t].origin])
  BY DEF EndLoading
<1> DEFINE frame ==
      [TripFrame(t, "endLoading", "event", "AT_ORIGIN_LOADING_ENDED")
         EXCEPT !.event = "LOADING_ENDED", !.center = trips[t].origin]
<1>1. /\ t \in Trips /\ t \in DOMAIN trips /\ trips[t] \in TripRow
      /\ EventsBefore("AT_ORIGIN_LOADING") \subseteq events[t]
      /\ "AT_ORIGIN_LOADING" \in AtDestination =>
           trips[t].destination # NoCenter
  BY TripRead
<1>2. frame \in Frame
  BY <1>1 DEF TripFrame, TripRow, Idle, Frame, Endpoint, TripAction, Step,
              TripEventType, QueueType, TripPhase
<1>3. FrameHolds(frame, trips, events, DOMAIN entries)
  BY <1>1, TripsAssumption
     DEF TripFrame, Idle, FrameHolds, Statements, TripAction, EventsBefore,
         AtDestination, TripRow, TripEventType, TripPhase, QueueType
<1> QED
  BY <1>2, <1>3, BeginStep

LEMMA CallSetDestination ==
  ASSUME IInv, NEW r \in Requests, SetDestination(r)
  PROVE  IInv'
<1> PICK t \in InPhase("AT_ORIGIN_LOADING_ENDED"), d \in RequestedCenters :
      Begin(r, "setDestination",
           [TripFrame(t, "setDestination", "event", "READY_TO_EXIT")
           EXCEPT !.event = "READY_TO_EXIT", !.center = trips[t].origin,
                  !.dest = d])
  BY DEF SetDestination
<1> DEFINE frame ==
      [TripFrame(t, "setDestination", "event", "READY_TO_EXIT")
         EXCEPT !.event = "READY_TO_EXIT", !.center = trips[t].origin,
                !.dest = d]
<1>1. /\ t \in Trips /\ t \in DOMAIN trips /\ trips[t] \in TripRow
      /\ EventsBefore("AT_ORIGIN_LOADING_ENDED") \subseteq events[t]
      /\ "AT_ORIGIN_LOADING_ENDED" \in AtDestination =>
           trips[t].destination # NoCenter
  BY TripRead
<1>2. frame \in Frame
  BY <1>1 DEF TripFrame, TripRow, Idle, Frame, Endpoint, TripAction, Step,
              TripEventType, QueueType, TripPhase
<1>3. FrameHolds(frame, trips, events, DOMAIN entries)
  BY <1>1, TripsAssumption
     DEF TripFrame, Idle, FrameHolds, Statements, TripAction, EventsBefore,
         AtDestination, TripRow, TripEventType, TripPhase, QueueType
<1> QED
  BY <1>2, <1>3, BeginStep

LEMMA CallExitOrigin ==
  ASSUME IInv, NEW r \in Requests, ExitOrigin(r)
  PROVE  IInv'
<1> PICK t \in InPhase("READY_TO_EXIT") :
      Begin(r, "exitOrigin",
           [TripFrame(t, "exitOrigin", "event", "IN_TRANSIT")
           EXCEPT !.event = "EXITED", !.center = trips[t].origin])
  BY DEF ExitOrigin
<1> DEFINE frame ==
      [TripFrame(t, "exitOrigin", "event", "IN_TRANSIT")
         EXCEPT !.event = "EXITED", !.center = trips[t].origin]
<1>1. /\ t \in Trips /\ t \in DOMAIN trips /\ trips[t] \in TripRow
      /\ EventsBefore("READY_TO_EXIT") \subseteq events[t]
      /\ "READY_TO_EXIT" \in AtDestination =>
           trips[t].destination # NoCenter
  BY TripRead
<1>2. frame \in Frame
  BY <1>1 DEF TripFrame, TripRow, Idle, Frame, Endpoint, TripAction, Step,
              TripEventType, QueueType, TripPhase
<1>3. FrameHolds(frame, trips, events, DOMAIN entries)
  BY <1>1, TripsAssumption
     DEF TripFrame, Idle, FrameHolds, Statements, TripAction, EventsBefore,
         AtDestination, TripRow, TripEventType, TripPhase, QueueType
<1> QED
  BY <1>2, <1>3, BeginStep

LEMMA CallArriveDestination ==
  ASSUME IInv, NEW r \in Requests, ArriveDestination(r)
  PROVE  IInv'
<1> PICK t \in InPhase("IN_TRANSIT") :
      /\ HasDestination(t)
      /\ Begin(r, "arriveDestination",
           [TripFrame(t, "arriveDestination", "event", "AT_DESTINATION_ARRIVED")
           EXCEPT !.event = "ARRIVED_DESTINATION",
                  !.center = trips[t].destination, !.queue = "UNLOADING"])
  BY DEF ArriveDestination
<1> DEFINE frame ==
      [TripFrame(t, "arriveDestination", "event", "AT_DESTINATION_ARRIVED")
         EXCEPT !.event = "ARRIVED_DESTINATION",
                !.center = trips[t].destination, !.queue = "UNLOADING"]
<1>1. /\ t \in Trips /\ t \in DOMAIN trips /\ trips[t] \in TripRow
      /\ EventsBefore("IN_TRANSIT") \subseteq events[t]
      /\ "IN_TRANSIT" \in AtDestination =>
           trips[t].destination # NoCenter
  BY TripRead
<1>2. frame \in Frame
  BY <1>1 DEF TripFrame, TripRow, Idle, Frame, Endpoint, TripAction, Step,
              TripEventType, QueueType, TripPhase
<1>3. FrameHolds(frame, trips, events, DOMAIN entries)
  BY <1>1, TripsAssumption
     DEF TripFrame, Idle, FrameHolds, Statements, TripAction, EventsBefore,
         AtDestination, TripRow, TripEventType, TripPhase, QueueType,
         HasDestination
<1> QED
  BY <1>2, <1>3, BeginStep

LEMMA CallStartUnloading ==
  ASSUME IInv, NEW r \in Requests, StartUnloading(r)
  PROVE  IInv'
<1> PICK t \in InPhase("AT_DESTINATION_ARRIVED") :
      Begin(r, "startUnloading",
           [TripFrame(t, "startUnloading", "select", "AT_DESTINATION_UNLOADING")
           EXCEPT !.queue = "UNLOADING"])
  BY DEF StartUnloading
<1> DEFINE frame ==
      [TripFrame(t, "startUnloading", "select", "AT_DESTINATION_UNLOADING")
         EXCEPT !.queue = "UNLOADING"]
<1>1. /\ t \in Trips /\ t \in DOMAIN trips /\ trips[t] \in TripRow
      /\ EventsBefore("AT_DESTINATION_ARRIVED") \subseteq events[t]
      /\ "AT_DESTINATION_ARRIVED" \in AtDestination =>
           trips[t].destination # NoCenter
  BY TripRead
<1>2. frame \in Frame
  BY <1>1 DEF TripFrame, TripRow, Idle, Frame, Endpoint, TripAction, Step,
              TripEventType, QueueType, TripPhase
<1>3. FrameHolds(frame, trips, events, DOMAIN entries)
  BY <1>1, TripsAssumption
     DEF TripFrame, Idle, FrameHolds, Statements, TripAction, EventsBefore,
         AtDestination, TripRow, TripEventType, TripPhase, QueueType
<1> QED
  BY <1>2, <1>3, BeginStep

LEMMA CallEndUnloading ==
  ASSUME IInv, NEW r \in Requests, EndUnloading(r)
  PROVE  IInv'
<1> PICK t \in InPhase("AT_DESTINATION_UNLOADING") :
      /\ HasDestination(t)
      /\ Begin(r, "endUnloading",
           [TripFrame(t, "endUnloading", "event",
                   "AT_DESTINATION_UNLOADING_ENDED")
           EXCEPT !.event = "UNLOADING_ENDED",
                  !.center = trips[t].destination])
  BY DEF EndUnloading
<1> DEFINE frame ==
      [TripFrame(t, "endUnloading", "event",
                 "AT_DESTINATION_UNLOADING_ENDED")
         EXCEPT !.event = "UNLOADING_ENDED",
                !.center = trips[t].destination]
<1>1. /\ t \in Trips /\ t \in DOMAIN trips /\ trips[t] \in TripRow
      /\ EventsBefore("AT_DESTINATION_UNLOADING") \subseteq events[t]
      /\ "AT_DESTINATION_UNLOADING" \in AtDestination =>
           trips[t].destination # NoCenter
  BY TripRead
<1>2. frame \in Frame
  BY <1>1 DEF TripFrame, TripRow, Idle, Frame, Endpoint, TripAction, Step,
              TripEventType, QueueType, TripPhase
<1>3. FrameHolds(frame, trips, events, DOMAIN entries)
  BY <1>1, TripsAssumption
     DEF TripFrame, Idle, FrameHolds, Statements, TripAction, EventsBefore,
         AtDestination, TripRow, TripEventType, TripPhase, QueueType,
         HasDestination
<1> QED
  BY <1>2, <1>3, BeginStep

LEMMA CallCompleteTrip ==
  ASSUME IInv, NEW r \in Requests, CompleteTrip(r)
  PROVE  IInv'
<1> PICK t \in InPhase("AT_DESTINATION_UNLOADING_ENDED") :
      Begin(r, "completeTrip",
        TripFrame(t, "completeTrip", "complete", "COMPLETED"))
  BY DEF CompleteTrip
<1> DEFINE frame ==
      TripFrame(t, "completeTrip", "complete", "COMPLETED")
<1>1. /\ t \in Trips /\ t \in DOMAIN trips /\ trips[t] \in TripRow
      /\ EventsBefore("AT_DESTINATION_UNLOADING_ENDED") \subseteq events[t]
      /\ "AT_DESTINATION_UNLOADING_ENDED" \in AtDestination =>
           trips[t].destination # NoCenter
  BY TripRead
<1>2. frame \in Frame
  BY <1>1 DEF TripFrame, TripRow, Idle, Frame, Endpoint, TripAction, Step,
              TripEventType, QueueType, TripPhase
<1>3. FrameHolds(frame, trips, events, DOMAIN entries)
  BY <1>1, TripsAssumption
     DEF TripFrame, Idle, FrameHolds, Statements, TripAction, EventsBefore,
         AtDestination, TripRow, TripEventType, TripPhase, QueueType
<1> QED
  BY <1>2, <1>3, BeginStep

(* The other endpoints enter with rows they read.                          *)
LEMMA CallPostEvent ==
  ASSUME IInv, NEW r \in Requests, PostEvent(r)
  PROVE  IInv'
<1> PICK t \in DOMAIN trips, ev \in PostedEvents, c \in Centers,
         d \in RequestedCenters \cup {NoCenter} :
      Begin(r, "postEvent",
        [TripFrame(t, "postEvent", "event", NoPhase)
           EXCEPT !.event = ev, !.center = c, !.dest = d])
  BY DEF PostEvent
<1> DEFINE frame ==
      [TripFrame(t, "postEvent", "event", NoPhase)
         EXCEPT !.event = ev, !.center = c, !.dest = d]
<1>1. t \in Trips /\ trips[t] \in TripRow /\ ev \in TripEventType
  BY TripsAssumption DEF IInv, TypeOK
<1>2. frame \in Frame
  BY <1>1 DEF TripFrame, TripRow, Idle, Frame, Endpoint, TripAction, Step,
              TripEventType, QueueType, TripPhase
<1>3. FrameHolds(frame, trips, events, DOMAIN entries)
  BY <1>1, TripsAssumption
     DEF TripFrame, Idle, FrameHolds, Statements, TripAction, TripRow,
         TripPhase
<1> QED
  BY <1>2, <1>3, BeginStep

LEMMA CallAddToQueue ==
  ASSUME IInv, NEW r \in Requests, AddToQueue(r)
  PROVE  IInv'
<1> PICK t \in DOMAIN trips, v \in Vehicles, c \in Centers, q \in QueueType :
      Begin(r, "addToQueue",
        [Idle EXCEPT !.op = "addToQueue", !.pc = "check", !.trip = t,
                     !.vehicle = v, !.center = c, !.queue = q])
  BY DEF AddToQueue
<1> DEFINE frame ==
      [Idle EXCEPT !.op = "addToQueue", !.pc = "check", !.trip = t,
                   !.vehicle = v, !.center = c, !.queue = q]
<1>1. t \in Trips
  BY DEF IInv, TypeOK
<1>2. frame \in Frame
  BY <1>1 DEF Idle, Frame, Endpoint, TripAction, Step,
              TripEventType, QueueType, TripPhase
<1>3. FrameHolds(frame, trips, events, DOMAIN entries)
  BY <1>1, TripsAssumption DEF Idle, FrameHolds, Statements, TripAction
<1> QED
  BY <1>2, <1>3, BeginStep

LEMMA CallStartService ==
  ASSUME IInv, NEW r \in Requests, StartService(r)
  PROVE  IInv'
<1> PICK e \in DOMAIN entries :
      Begin(r, "startService",
        [Idle EXCEPT !.op = "startService", !.pc = "deactivate", !.entry = e])
  BY DEF StartService
<1> DEFINE frame ==
      [Idle EXCEPT !.op = "startService", !.pc = "deactivate", !.entry = e]
<1>1. frame \in Frame
  BY DEF IInv, TypeOK, QueueTypeOK, Idle, Frame, Endpoint, TripAction, Step,
              TripEventType, QueueType, TripPhase
<1>2. FrameHolds(frame, trips, events, DOMAIN entries)
  BY TripsAssumption DEF Idle, FrameHolds, Statements, TripAction
<1> QED
  BY <1>1, <1>2, BeginStep
-----------------------------------------------------------------------------
TablesOK ==
  /\ QueueTypeOK
  /\ DOMAIN trips \subseteq Trips
  /\ trips \in [DOMAIN trips -> TripRow]
  /\ events \in [Trips -> SUBSET TripEventType]
  /\ vehicles \in [Vehicles -> VehicleRow]

(* A step of slot s that writes to the tables.                             *)
LEMMA TableStep ==
  ASSUME IInv, NEW s \in Slots, Moves(s), Grows, TablesOK', History',
         slot'[s] \in Frame,
         FrameHolds(slot'[s], trips', events', DOMAIN entries')
  PROVE  IInv'
<1>1. TypeOK'
  BY DEF IInv, TypeOK, TablesOK, Moves
<1>2. FramesHold'
  BY FramesStep DEF IInv, TypeOK
<1> QED
  BY <1>1, <1>2 DEF IInv

(* An idle slot relies on nothing.                                         *)
LEMMA IdleHolds ==
  ASSUME NEW STATE tr, NEW STATE ev, NEW STATE rows
  PROVE  Idle \in Frame /\ FrameHolds(Idle, tr, ev, rows)
  BY TripsAssumption DEF Idle, Frame, FrameHolds, Statements, TripAction, Step

(* The frames of other steps stay right as the tables grow.                *)
LEMMA FrameKept ==
  ASSUME IInv, Grows, NEW s \in Slots
  PROVE  FrameHolds(slot[s], trips', events', DOMAIN entries')
<1>1. FrameHolds(slot[s], trips, events, DOMAIN entries)
  BY DEF IInv, FramesHold
<1> QED
  BY <1>1 DEF FrameHolds, Grows

(* Where Goto takes a slot: its frame holds at the next statement if the   *)
(* statement is one of the handler's and finds the locals it uses.         *)
LEMMA GotoStep ==
  ASSUME IInv, Grows, NEW s \in Slots, NEW STATE pc, Goto(s, pc),
         slot[s].pc # "insertTrip",
         pc = "idle" \/ pc \in Statements(slot[s].op) \ {"event", "insertTrip"},
         pc = "vehicle" => slot[s].event \notin {NoEvent, "READY_TO_EXIT"},
         pc = "destination" => slot[s].dest \in Centers,
         pc \in ServiceSteps => slot[s].entry \in DOMAIN entries',
         slot[s].pc = "event" => slot[s].event \in events'[slot[s].trip]
  PROVE  /\ Moves(s)
         /\ slot'[s] \in Frame
         /\ FrameHolds(slot'[s], trips', events', DOMAIN entries')
<1>1. slot[s] \in Frame /\ slot \in [Slots -> Frame]
  BY DEF IInv, TypeOK
<1>2. CASE pc = "idle"
  <2>1. Moves(s) /\ slot'[s] = Idle
    BY <1>1, <1>2 DEF Goto, Moves
  <2> QED
    BY <2>1, IdleHolds
<1>3. CASE pc # "idle"
  <2>1. Moves(s) /\ slot'[s] = [slot[s] EXCEPT !.pc = pc]
    BY <1>1, <1>3 DEF Goto, Moves
  <2>2. pc \in Step
    BY <1>1, <1>3 DEF Frame, Endpoint, TripAction, Step, Statements
  <2>3. [slot[s] EXCEPT !.pc = pc] \in Frame
    BY <1>1, <2>2 DEF Frame
  <2>4. FrameHolds(slot[s], trips', events', DOMAIN entries')
    BY FrameKept
  <2>5. FrameHolds([slot[s] EXCEPT !.pc = pc], trips', events', DOMAIN entries')
    <3> DEFINE f == slot[s]
               g == [slot[s] EXCEPT !.pc = pc]
    <3>1. /\ g.pc = pc /\ g.op = f.op /\ g.trip = f.trip
          /\ g.vehicle = f.vehicle /\ g.event = f.event
          /\ g.center = f.center /\ g.dest = f.dest /\ g.queue = f.queue
          /\ g.entry = f.entry /\ g.next = f.next
      BY <1>1 DEF Frame
    <3> HIDE DEF f, g
    <3> QED
      BY <1>3, <2>4, <3>1 DEF FrameHolds, f, g
  <2> QED
    BY <2>1, <2>3, <2>5
<1> QED
  BY <1>2, <1>3

(* What a slot at a statement knows.                                       *)
LEMMA SlotRead ==
  ASSUME IInv, NEW s \in Slots
  PROVE  /\ slot[s] \in Frame
         /\ FrameHolds(slot[s], trips, events, DOMAIN entries)
  BY DEF IInv, TypeOK, FramesHold

(* Whose statement it is.                                                  *)
LEMMA SlotHandler ==
  ASSUME IInv, NEW s \in Slots
  PROVE  LET op == slot[s].op
             pc == slot[s].pc
         IN
         /\ pc = "insertTrip" => op = "createTrip"
         /\ pc \in EventSteps =>
              op \in {"createTrip", "postEvent", "endLoading", "setDestination",
                     "exitOrigin", "arriveDestination", "endUnloading"}
         /\ pc \in QueueSteps =>
              op \in {"autoAdd", "addToQueue", "arriveDestination"}
         /\ pc \in ServiceSteps \cup {"select"} =>
              op \in {"startService", "startLoading", "startUnloading"}
         /\ pc = "select" => op # "startService"
         /\ pc = "phase" => op \in TripAction
         /\ pc \in {"readForComplete", "complete", "completeVehicle"} =>
              op \in {"endUnloading", "completeTrip"}
         /\ pc = "readForComplete" => op = "endUnloading"
<1>1. /\ slot[s].op \in Endpoint \cup {"none", "autoAdd"}
      /\ slot[s].pc \in Statements(slot[s].op)
  BY SlotRead DEF Frame, FrameHolds
<1> QED
  BY <1>1 DEF Statements, Endpoint, TripAction

(* A step that reads and goes on.                                          *)
LEMMA ReadStep ==
  ASSUME IInv, NEW s \in Slots, NEW STATE pc, Goto(s, pc),
         UNCHANGED <<entries, today, trips, events, vehicles>>,
         slot[s].pc \notin {"insertTrip", "event"},
         pc = "idle" \/ pc \in Statements(slot[s].op),
         pc \notin EventSteps \cup ServiceSteps \cup {"insertTrip"}
  PROVE  IInv'
<1>1. Grows
  BY DEF Grows
<1>2. /\ Moves(s) /\ slot'[s] \in Frame
      /\ FrameHolds(slot'[s], trips', events', DOMAIN entries')
  BY <1>1, GotoStep
<1> QED
  BY <1>2, LocalStep

LEMMA StepCheckQueue ==
  ASSUME IInv, NEW s \in Slots, CheckQueue(s)
  PROVE  IInv'
<1>1. slot[s].op \in {"autoAdd", "addToQueue", "arriveDestination"}
  BY SlotHandler DEF CheckQueue
<1>2. \/ AfterAdd(slot[s]) = "idle"
      \/ AfterAdd(slot[s]) = "phase" /\ "phase" \in Statements(slot[s].op)
  BY <1>1 DEF Statements, AfterAdd
<1>3. "insertEntry" \in Statements(slot[s].op)
  BY <1>1 DEF Statements
<1>4. Goto(s, AfterAdd(slot[s])) \/ Goto(s, "insertEntry")
  BY DEF CheckQueue
<1> QED
  BY <1>2, <1>3, <1>4, ReadStep DEF CheckQueue

LEMMA StepReadForComplete ==
  ASSUME IInv, NEW s \in Slots, ReadForComplete(s)
  PROVE  IInv'
<1>1. "complete" \in Statements(slot[s].op)
  BY SlotHandler DEF ReadForComplete, Statements
<1> QED
  BY <1>1, ReadStep DEF ReadForComplete

LEMMA StepFail ==
  ASSUME IInv, NEW s \in Slots, Fail(s)
  PROVE  IInv'
<1>1. CASE AfterFailure(slot[s]) = "idle"
  <2>1. Moves(s) /\ slot'[s] = Idle
    BY <1>1 DEF Fail, Goto, Moves, IInv, TypeOK
  <2> QED
    BY <2>1, IdleHolds, LocalStep DEF Fail
<1>2. CASE AfterFailure(slot[s]) # "idle"
  <2>1. /\ AfterFailure(slot[s]) = "phase"
        /\ slot[s].op = "arriveDestination" /\ slot[s].pc \in QueueSteps
    BY <1>2 DEF AfterFailure
  <2>2. "phase" \in Statements(slot[s].op)
    BY <2>1 DEF Statements
  <2> QED
    BY <2>1, <2>2, ReadStep DEF Fail
<1> QED
  BY <1>1, <1>2

LEMMA StepSelectEntry ==
  ASSUME IInv, NEW s \in Slots, SelectEntry(s)
  PROVE  IInv'
<1> DEFINE found == Startable(slot[s].vehicle, slot[s].queue, today)
<1>1. CASE \E e \in found :
             slot' = [slot EXCEPT ![s] =
                        [slot[s] EXCEPT !.pc = "deactivate", !.entry = e]]
  <2> PICK e \in found :
        slot' = [slot EXCEPT ![s] =
                   [slot[s] EXCEPT !.pc = "deactivate", !.entry = e]]
    BY <1>1
  <2> DEFINE g == [slot[s] EXCEPT !.pc = "deactivate", !.entry = e]
  <2>1. slot[s] \in Frame /\ FrameHolds(slot[s], trips, events, DOMAIN entries)
    BY SlotRead
  <2>2. e \in DOMAIN entries /\ e \in EntryIds
    BY DEF Startable, IInv, TypeOK, QueueTypeOK
  <2>3. g \in Frame
    BY <2>1, <2>2 DEF Frame, Step
  <2>4. FrameHolds(g, trips, events, DOMAIN entries)
    <3>1. "deactivate" \in Statements(slot[s].op)
      BY SlotHandler DEF SelectEntry, Statements
    <3> QED
      BY <2>1, <2>2, <3>1 DEF FrameHolds, Frame, SelectEntry
  <2>5. Moves(s) /\ slot'[s] = g
    BY DEF Moves, IInv, TypeOK
  <2> QED
    BY <2>3, <2>4, <2>5, LocalStep DEF SelectEntry
<1>2. CASE Goto(s, "idle")
  BY <1>2, ReadStep DEF SelectEntry
<1> QED
  BY <1>1, <1>2 DEF SelectEntry
-----------------------------------------------------------------------------
(* The steps that write events or queue rows.                              *)
LEMMA EventsGrow ==
  ASSUME IInv, NEW STATE t, NEW STATE ev, t \in Trips,
         ev \in TripEventType,
         events' = [events EXCEPT ![t] = @ \cup {ev}],
         UNCHANGED <<entries, today, trips, vehicles>>
  PROVE  Grows /\ TablesOK' /\ History' /\ ev \in events'[t]
<1>1. Grows /\ TablesOK' /\ ev \in events'[t]
  BY DEF Grows, TablesOK, IInv, TypeOK, QueueTypeOK
<1> QED
  BY <1>1, HistoryKept DEF IInv

LEMMA StepInsertEvent ==
  ASSUME IInv, NEW s \in Slots, InsertEvent(s)
  PROVE  IInv'
<1> DEFINE pc == IF slot[s].event # "READY_TO_EXIT" THEN "vehicle"
                 ELSE IF KnownCenter(slot[s].dest) THEN "destination"
                 ELSE AfterTripEvent(slot[s])
<1>1. /\ slot[s].trip \in Trips /\ slot[s].event \in TripEventType
      /\ slot[s].op \in {"createTrip", "postEvent", "endLoading",
                         "setDestination", "exitOrigin", "arriveDestination",
                         "endUnloading"}
  BY SlotRead, SlotHandler DEF InsertEvent, FrameHolds, Frame
<1>2. /\ Grows /\ TablesOK' /\ History'
      /\ slot[s].event \in events'[slot[s].trip]
  BY <1>1, EventsGrow DEF InsertEvent
<1>3. /\ pc = "idle" \/ pc \in Statements(slot[s].op) \ {"event", "insertTrip"}
      /\ pc \notin ServiceSteps
      /\ pc = "vehicle" => slot[s].event \notin {NoEvent, "READY_TO_EXIT"}
      /\ pc = "destination" => slot[s].dest \in Centers
  BY <1>1, TripsAssumption
     DEF Statements, AfterTripEvent, KnownCenter, TripAction
<1>4. Goto(s, pc) /\ slot[s].pc = "event"
  BY DEF InsertEvent
<1> HIDE DEF pc
<1>5. /\ Moves(s) /\ slot'[s] \in Frame
      /\ FrameHolds(slot'[s], trips', events', DOMAIN entries')
  BY <1>2, <1>3, <1>4, GotoStep
<1> QED
  BY <1>2, <1>5, TableStep

LEMMA StepRecordQueued ==
  ASSUME IInv, NEW s \in Slots, RecordQueued(s)
  PROVE  IInv'
<1>1. /\ slot[s].trip \in Trips
      /\ slot[s].op \in {"autoAdd", "addToQueue", "arriveDestination"}
  BY SlotRead, SlotHandler DEF RecordQueued, FrameHolds, Frame
<1>2. Grows /\ TablesOK' /\ History'
  BY <1>1, EventsGrow DEF RecordQueued, TripEventType
<1>3. \/ AfterAdd(slot[s]) = "idle"
      \/ AfterAdd(slot[s]) = "phase" /\ "phase" \in Statements(slot[s].op)
  BY <1>1 DEF Statements, AfterAdd
<1>4. /\ Moves(s) /\ slot'[s] \in Frame
      /\ FrameHolds(slot'[s], trips', events', DOMAIN entries')
  BY <1>2, <1>3, GotoStep DEF RecordQueued
<1> QED
  BY <1>2, <1>4, TableStep

LEMMA StepRecordService ==
  ASSUME IInv, NEW s \in Slots, RecordService(s)
  PROVE  IInv'
<1> DEFINE pc == IF slot[s].op = "startService" THEN "idle" ELSE "phase"
<1>1. /\ slot[s].entry \in DOMAIN entries
      /\ slot[s].op \in {"startService", "startLoading", "startUnloading"}
  BY SlotRead, SlotHandler DEF RecordService, FrameHolds
<1>2. entries[slot[s].entry].trip \in Trips
  BY <1>1 DEF IInv, TypeOK, QueueTypeOK, Entry
<1>3. Grows /\ TablesOK' /\ History'
  BY <1>2, EventsGrow DEF RecordService, TripEventType
<1>4. /\ Goto(s, pc) /\ slot[s].pc = "serviceEvent"
      /\ pc = "idle" \/ (pc = "phase" /\ "phase" \in Statements(slot[s].op))
  BY <1>1 DEF RecordService, Statements
<1>5. /\ Moves(s) /\ slot'[s] \in Frame
      /\ FrameHolds(slot'[s], trips', events', DOMAIN entries')
  BY <1>3, <1>4, GotoStep
<1> QED
  BY <1>3, <1>5, TableStep

LEMMA StepAddEntry ==
  ASSUME IInv, NEW s \in Slots, AddEntry(s)
  PROVE  IInv'
<1>1. /\ slot[s] \in Frame
      /\ slot[s].op \in {"autoAdd", "addToQueue", "arriveDestination"}
      /\ slot[s].center \in Centers /\ slot[s].queue \in QueueType
      /\ slot[s].vehicle \in Vehicles /\ slot[s].trip \in Trips
  BY SlotRead, SlotHandler DEF AddEntry, FrameHolds, Frame
<1> DEFINE e == FreshId(EntryIds, entries)
           row == [center |-> slot[s].center, type |-> slot[s].queue,
                   vehicle |-> slot[s].vehicle, trip |-> slot[s].trip,
                   day |-> today, active |-> TRUE]
<1>2. /\ e \in EntryIds
      /\ entries' = InsertRow(entries, e, row)
  BY FreshIdIsFresh DEF AddEntry, InsertEntry
<1>3. row \in Entry
  BY <1>1 DEF IInv, TypeOK, QueueTypeOK, Entry
<1> HIDE DEF e, row
<1>4. QueueTypeOK' /\ DOMAIN entries \subseteq DOMAIN entries'
  BY <1>2, <1>3 DEF AddEntry, InsertRow, IInv, TypeOK, QueueTypeOK
<1>5. Grows /\ TablesOK' /\ trips' = trips
  BY <1>4 DEF AddEntry, Grows, TablesOK, IInv, TypeOK
<1>6. History'
  BY <1>5, HistoryKept DEF IInv
<1>7. "queuedEvent" \in Statements(slot[s].op)
  BY <1>1 DEF Statements
<1>8. /\ Moves(s) /\ slot'[s] \in Frame
      /\ FrameHolds(slot'[s], trips', events', DOMAIN entries')
  BY <1>5, <1>7, GotoStep DEF AddEntry
<1> QED
  BY <1>5, <1>6, <1>8, TableStep

LEMMA StepDeactivateEntry ==
  ASSUME IInv, NEW s \in Slots, DeactivateEntry(s)
  PROVE  IInv'
<1>1. /\ slot[s].entry \in DOMAIN entries
      /\ slot[s].op \in {"startService", "startLoading", "startUnloading"}
  BY SlotRead, SlotHandler DEF DeactivateEntry, FrameHolds
<1>2. QueueTypeOK' /\ DOMAIN entries' = DOMAIN entries
  BY <1>1 DEF DeactivateEntry, Deactivate, IInv, TypeOK, QueueTypeOK, Entry
<1>3. Grows /\ TablesOK' /\ trips' = trips
  BY <1>2 DEF DeactivateEntry, Grows, TablesOK, IInv, TypeOK
<1>4. History'
  BY <1>3, HistoryKept DEF IInv
<1>5. "serviceEvent" \in Statements(slot[s].op)
  BY <1>1 DEF Statements
<1>6. /\ Moves(s) /\ slot'[s] \in Frame
      /\ FrameHolds(slot'[s], trips', events', DOMAIN entries')
  BY <1>1, <1>2, <1>3, <1>5, GotoStep DEF DeactivateEntry
<1> QED
  BY <1>3, <1>4, <1>6, TableStep
-----------------------------------------------------------------------------
(* The steps that write vehicles.                                          *)
LEMMA VehiclesOK ==
  ASSUME IInv, NEW STATE v, NEW STATE row, v \in Vehicles, row \in VehicleRow,
         vehicles' = [vehicles EXCEPT ![v] = row],
         UNCHANGED <<entries, today, trips, events>>
  PROVE  Grows /\ TablesOK' /\ History'
<1>1. Grows /\ TablesOK'
  BY DEF Grows, TablesOK, IInv, TypeOK, QueueTypeOK
<1> QED
  BY <1>1, HistoryKept DEF IInv

LEMMA StepUpdateVehicle ==
  ASSUME IInv, NEW s \in Slots, UpdateVehicle(s)
  PROVE  IInv'
<1>1. /\ slot[s] \in Frame /\ slot[s].pc = "vehicle"
      /\ FrameHolds(slot[s], trips, events, DOMAIN entries)
      /\ slot[s].op \in {"createTrip", "postEvent", "endLoading",
                         "setDestination", "exitOrigin", "arriveDestination",
                         "endUnloading"}
  BY SlotRead, SlotHandler DEF UpdateVehicle
<1>2. /\ slot[s].trip \in DOMAIN trips /\ slot[s].trip \in Trips
      /\ slot[s].event \in TripEventType \ {"READY_TO_EXIT"}
      /\ slot[s].center \in Centers \cup {NoCenter}
      /\ slot[s].vehicle \in Vehicles
  BY <1>1 DEF FrameHolds, Frame
<1>3. trips[slot[s].trip].vehicle \in Vehicles
  BY <1>2 DEF IInv, TypeOK, TripRow
<1>4. VehicleAfter(slot[s].event, slot[s].center) \in VehicleRow
  BY <1>2 DEF VehicleAfter, VehicleRow, VehicleStatus, TripEventType
<1>5. Grows /\ TablesOK' /\ History'
  BY <1>3, <1>4, VehiclesOK DEF UpdateVehicle
<1>6. CASE slot[s].op # "createTrip"
  <2>1. /\ Goto(s, AfterTripEvent(slot[s]))
        /\ \/ AfterTripEvent(slot[s]) = "idle"
           \/ /\ AfterTripEvent(slot[s]) \in Statements(slot[s].op)
              /\ AfterTripEvent(slot[s]) \in {"check", "phase"}
    BY <1>1, <1>6 DEF UpdateVehicle, AfterTripEvent, Statements
  <2>2. /\ Moves(s) /\ slot'[s] \in Frame
        /\ FrameHolds(slot'[s], trips', events', DOMAIN entries')
    BY <1>1, <1>5, <2>1, GotoStep
  <2> QED
    BY <1>5, <2>2, TableStep
<1>7. CASE slot[s].op = "createTrip"
  <2> DEFINE j == slot[s].trip
             mid == [slot EXCEPT ![s] = Idle]
             job == AutoAdd(slot[s])
  <2>1. slot' = [slot EXCEPT ![s] = Idle, ![j] = job]
    BY <1>7 DEF UpdateVehicle
  <2>2. j \in Slots /\ slot \in [Slots -> Frame]
    BY <1>2 DEF Slots, IInv, TypeOK
  <2>3. job \in Frame
    BY <1>2 DEF AutoAdd, Idle, Frame, Step, QueueType
  <2>4. FrameHolds(job, trips', events', DOMAIN entries')
    <3>1. slot[s].trip # NoTrip /\ slot[s].center # NoCenter
          /\ slot[s].vehicle # NoVehicle
      BY <1>1, <1>7 DEF FrameHolds
    <3>2. trips' = trips
      BY DEF UpdateVehicle
    <3> QED
      BY <1>2, <3>1, <3>2, TripsAssumption
         DEF AutoAdd, Idle, FrameHolds, Statements, TripAction, QueueType
  <2> HIDE DEF job, j
  <2>5. slot' \in [Slots -> Frame]
    BY <2>1, <2>2, <2>3, IdleHolds
  <2>6. FramesHold'
    <3> SUFFICES ASSUME NEW r \in Slots
                 PROVE  FrameHolds(slot'[r], trips', events', DOMAIN entries')
      BY DEF FramesHold
    <3>1. slot'[r] \in {job, Idle, slot[r]}
      BY <2>1, <2>2
    <3> QED
      BY <1>5, <2>4, <3>1, IdleHolds, FrameKept
  <2> QED
    BY <1>5, <2>5, <2>6 DEF IInv, TypeOK, TablesOK
<1> QED
  BY <1>6, <1>7

LEMMA StepFreeVehicle ==
  ASSUME IInv, NEW s \in Slots, FreeVehicle(s)
  PROVE  IInv'
<1>1. slot[s].vehicle \in Vehicles /\ slot[s].pc = "completeVehicle"
  <2>1. slot[s].op \in {"endUnloading", "completeTrip"}
    BY SlotHandler DEF FreeVehicle
  <2> QED
    BY <2>1, SlotRead DEF FrameHolds, Frame, FreeVehicle
<1> DEFINE row == [vehicles[slot[s].vehicle] EXCEPT !.status = "AVAILABLE"]
<1>2. row \in VehicleRow
  BY <1>1 DEF IInv, TypeOK, VehicleRow, VehicleStatus
<1>3. vehicles' = [vehicles EXCEPT ![slot[s].vehicle] = row]
  BY <1>1 DEF FreeVehicle, IInv, TypeOK
<1> HIDE DEF row
<1>4. Grows /\ TablesOK' /\ History'
  BY <1>1, <1>2, <1>3, VehiclesOK DEF FreeVehicle
<1>5. /\ Moves(s) /\ slot'[s] \in Frame
      /\ FrameHolds(slot'[s], trips', events', DOMAIN entries')
  BY <1>1, <1>4, GotoStep DEF FreeVehicle
<1> QED
  BY <1>4, <1>5, TableStep
-----------------------------------------------------------------------------
(* The steps that write trips.                                             *)
LEMMA StepInsertTrip ==
  ASSUME IInv, NEW s \in Slots, InsertTrip(s)
  PROVE  IInv'
<1>1. /\ slot[s] \in Frame
      /\ slot[s].pc = "insertTrip" /\ slot[s].op = "createTrip"
      /\ FrameHolds(slot[s], trips, events, DOMAIN entries)
  BY SlotRead, SlotHandler DEF InsertTrip
<1>2. slot[s].vehicle \in Vehicles /\ slot[s].next = NoPhase
  BY <1>1 DEF FrameHolds, Frame, TripAction
<1> DEFINE t == FreshId(Trips, trips)
<1> PICK c \in Centers, p \in TripPurpose,
         d \in (RequestedCenters \cap Centers) \cup {NoCenter} :
      /\ trips' = InsertRow(trips, t,
                    [vehicle |-> slot[s].vehicle, origin |-> c,
                     destination |-> d, purpose |-> p,
                     status |-> "ONGOING", phase |-> "AT_ORIGIN_ARRIVED"])
      /\ slot' = [slot EXCEPT ![s] =
                    [slot[s] EXCEPT !.pc = "event", !.trip = t,
                                    !.event = "ARRIVED", !.center = c]]
  BY DEF InsertTrip
<1> DEFINE row == [vehicle |-> slot[s].vehicle, origin |-> c,
                   destination |-> d, purpose |-> p,
                   status |-> "ONGOING", phase |-> "AT_ORIGIN_ARRIVED"]
           g == [slot[s] EXCEPT !.pc = "event", !.trip = t,
                                !.event = "ARRIVED", !.center = c]
<1>3. t \in Trips \ DOMAIN trips
  BY FreshIdIsFresh DEF InsertTrip
<1>4. /\ row \in TripRow
      /\ row.status = "ONGOING" /\ row.phase = "AT_ORIGIN_ARRIVED"
  BY <1>2 DEF TripRow, TripStatus, TripPhase
<1>5. g \in Frame
  BY <1>1, <1>3 DEF Frame, Step, TripEventType
<1>6. Moves(s) /\ slot'[s] = g /\ trips' = InsertRow(trips, t, row)
  BY DEF Moves, IInv, TypeOK
<1>7. FrameHolds(g, trips', events', DOMAIN entries')
  <2>1. t \in DOMAIN trips'
    BY <1>6 DEF InsertRow
  <2> QED
    BY <1>1, <1>2, <1>3, <2>1, TripsAssumption
       DEF FrameHolds, Frame, Statements, TripAction, TripEventType
<1> HIDE DEF row, g, t
<1>8. /\ DOMAIN trips' = DOMAIN trips \cup {t}
      /\ \A u \in DOMAIN trips : trips'[u] = trips[u]
      /\ trips'[t] = row
  BY <1>3, <1>6 DEF InsertRow
<1>9. Grows
  BY <1>8 DEF Grows, InsertTrip
<1>10. TablesOK'
  <2>1. trips' \in [DOMAIN trips' -> TripRow]
    BY <1>3, <1>4, <1>6, <1>8 DEF IInv, TypeOK, InsertRow
  <2> QED
    BY <1>3, <1>8, <2>1 DEF TablesOK, InsertTrip, IInv, TypeOK, QueueTypeOK
<1>11. History'
  BY <1>4, <1>8 DEF InsertTrip, IInv, History, PhaseHistory,
        CompletedHistory, DestinationReached, EventsBefore, AtDestination
<1> QED
  BY <1>5, <1>6, <1>7, <1>9, <1>10, <1>11, TableStep

(* A step that rewrites the row of one trip.                               *)
LEMMA RowWritten ==
  ASSUME IInv, NEW STATE t, NEW STATE row, t \in DOMAIN trips, row \in TripRow,
         trips' = [trips EXCEPT ![t] = row],
         UNCHANGED <<entries, today, events, vehicles>>,
         trips[t].destination # NoCenter => row.destination # NoCenter,
         EventsBefore(row.phase) \subseteq events[t],
         row.phase \in AtDestination => row.destination # NoCenter,
         row.status = "COMPLETED" =>
           /\ EventsBefore("COMPLETED") \subseteq events[t]
           /\ row.destination # NoCenter
  PROVE  Grows /\ TablesOK' /\ History'
<1>1. /\ DOMAIN trips' = DOMAIN trips
      /\ trips'[t] = row
      /\ \A u \in DOMAIN trips \ {t} : trips'[u] = trips[u]
  BY DEF IInv, TypeOK
<1>2. Grows
  BY <1>1 DEF Grows
<1>3. TablesOK'
  BY DEF TablesOK, IInv, TypeOK, QueueTypeOK
<1>4. History'
  BY <1>1 DEF IInv, History, PhaseHistory, CompletedHistory, DestinationReached
<1> QED
  BY <1>2, <1>3, <1>4

LEMMA StepUpdateDestination ==
  ASSUME IInv, NEW s \in Slots, UpdateDestination(s)
  PROVE  IInv'
<1>1. /\ slot[s].trip \in DOMAIN trips /\ slot[s].dest \in Centers
      /\ slot[s].pc = "destination"
      /\ slot[s].op \in {"createTrip", "postEvent", "endLoading",
                         "setDestination", "exitOrigin", "arriveDestination",
                         "endUnloading"}
  BY SlotRead, SlotHandler DEF UpdateDestination, FrameHolds
<1> DEFINE t == slot[s].trip
           row == [trips[t] EXCEPT !.destination = slot[s].dest]
<1>2. trips[t] \in TripRow
  BY <1>1 DEF IInv, TypeOK
<1>3. /\ row \in TripRow /\ row.destination # NoCenter
      /\ row.phase = trips[t].phase /\ row.status = trips[t].status
  BY <1>1, <1>2, TripsAssumption DEF TripRow
<1>4. trips' = [trips EXCEPT ![t] = row]
  BY <1>1 DEF UpdateDestination, IInv, TypeOK
<1>5. /\ EventsBefore(trips[t].phase) \subseteq events[t]
      /\ trips[t].status = "COMPLETED" =>
           EventsBefore("COMPLETED") \subseteq events[t]
  BY <1>1 DEF IInv, History, PhaseHistory, CompletedHistory
<1> HIDE DEF row
<1>6. Grows /\ TablesOK' /\ History'
  BY <1>1, <1>3, <1>4, <1>5, RowWritten DEF UpdateDestination
<1>7. \/ AfterTripEvent(slot[s]) = "idle"
      \/ /\ AfterTripEvent(slot[s]) \in Statements(slot[s].op)
         /\ AfterTripEvent(slot[s]) \in {"check", "phase"}
  BY <1>1 DEF AfterTripEvent, Statements
<1>8. /\ Moves(s) /\ slot'[s] \in Frame
      /\ FrameHolds(slot'[s], trips', events', DOMAIN entries')
  BY <1>1, <1>6, <1>7, GotoStep DEF UpdateDestination
<1> QED
  BY <1>6, <1>8, TableStep

(* The phase is written over whatever phase the row has by now; the frame  *)
(* holds the history of the one it writes.                                 *)
LEMMA StepUpdatePhase ==
  ASSUME IInv, NEW s \in Slots, UpdatePhase(s)
  PROVE  IInv'
<1>1. /\ slot[s].pc = "phase" /\ slot[s].op \in TripAction
      /\ slot[s] \in Frame
      /\ FrameHolds(slot[s], trips, events, DOMAIN entries)
  BY SlotRead, SlotHandler DEF UpdatePhase
<1> DEFINE t == slot[s].trip
           row == [trips[t] EXCEPT !.phase = slot[s].next]
<1>2. /\ t \in DOMAIN trips /\ slot[s].next \in TripPhase
      /\ EventsBefore(slot[s].next) \subseteq events[t]
      /\ slot[s].next \in AtDestination => trips[t].destination # NoCenter
  BY <1>1 DEF FrameHolds, Frame
<1>3. trips[t] \in TripRow
  BY <1>2 DEF IInv, TypeOK
<1>4. /\ row \in TripRow /\ row.phase = slot[s].next
      /\ row.destination = trips[t].destination /\ row.status = trips[t].status
  BY <1>2, <1>3 DEF TripRow
<1>5. trips' = [trips EXCEPT ![t] = row]
  BY <1>2 DEF UpdatePhase, IInv, TypeOK
<1>6. trips[t].status = "COMPLETED" =>
        EventsBefore("COMPLETED") \subseteq events[t]
        /\ trips[t].destination # NoCenter
  BY <1>2 DEF IInv, History, CompletedHistory
<1> HIDE DEF row
<1>7. Grows /\ TablesOK' /\ History'
  BY <1>2, <1>4, <1>5, <1>6, RowWritten DEF UpdatePhase
<1>8. \/ Goto(s, "idle")
      \/ /\ Goto(s, "readForComplete")
         /\ "readForComplete" \in Statements(slot[s].op)
  BY DEF UpdatePhase, Statements
<1>9. /\ Moves(s) /\ slot'[s] \in Frame
      /\ FrameHolds(slot'[s], trips', events', DOMAIN entries')
  BY <1>1, <1>7, <1>8, GotoStep
<1> QED
  BY <1>7, <1>9, TableStep

LEMMA StepFinishTrip ==
  ASSUME IInv, NEW s \in Slots, FinishTrip(s)
  PROVE  IInv'
<1>1. /\ slot[s].pc = "complete" /\ slot[s] \in Frame
      /\ slot[s].op \in {"endUnloading", "completeTrip"}
      /\ FrameHolds(slot[s], trips, events, DOMAIN entries)
  BY SlotRead, SlotHandler DEF FinishTrip
<1> DEFINE t == slot[s].trip
           row == [trips[t] EXCEPT !.status = "COMPLETED",
                                   !.phase = "COMPLETED"]
<1>2. /\ t \in DOMAIN trips
      /\ slot[s].next \in {"AT_DESTINATION_UNLOADING_ENDED", "COMPLETED"}
      /\ EventsBefore(slot[s].next) \subseteq events[t]
      /\ slot[s].next \in AtDestination => trips[t].destination # NoCenter
  BY <1>1, TripsAssumption DEF FrameHolds, TripPhase
<1>3. /\ EventsBefore("COMPLETED") \subseteq events[t]
      /\ trips[t].destination # NoCenter
  BY <1>2 DEF EventsBefore, AtDestination
<1>4. trips[t] \in TripRow
  BY <1>2 DEF IInv, TypeOK
<1>5. /\ row \in TripRow /\ row.phase = "COMPLETED"
      /\ row.destination = trips[t].destination
  BY <1>4 DEF TripRow, TripPhase, TripStatus
<1>6. trips' = [trips EXCEPT ![t] = row]
  BY <1>2 DEF FinishTrip, IInv, TypeOK
<1> HIDE DEF row
<1>7. Grows /\ TablesOK' /\ History'
  BY <1>2, <1>3, <1>5, <1>6, RowWritten DEF FinishTrip
<1>8. "completeVehicle" \in Statements(slot[s].op)
  BY <1>1 DEF Statements
<1>9. /\ Moves(s) /\ slot'[s] \in Frame
      /\ FrameHolds(slot'[s], trips', events', DOMAIN entries')
  BY <1>1, <1>7, <1>8, GotoStep DEF FinishTrip
<1> QED
  BY <1>7, <1>9, TableStep
-----------------------------------------------------------------------------
(* The process dies, midnight passes: no table changes.                    *)
LEMMA StepCrash ==
  ASSUME IInv, Crash
  PROVE  IInv'
<1>1. slot' \in [Slots -> Frame] /\ FramesHold'
  BY IdleHolds DEF Crash, FramesHold
<1>2. Grows /\ trips' = trips
  BY DEF Crash, Grows
<1>3. History'
  BY <1>2, HistoryKept DEF IInv
<1> QED
  BY <1>1, <1>3 DEF Crash, IInv, TypeOK, QueueTypeOK

LEMMA StepMidnight ==
  ASSUME IInv, Midnight
  PROVE  IInv'
<1>1. today' \in 1..MaxDay
  BY MaxDayAssumption DEF Midnight, NextDay, IInv, TypeOK, QueueTypeOK
<1>2. Grows /\ trips' = trips
  BY DEF Midnight, Grows
<1>3. History'
  BY <1>2, HistoryKept DEF IInv
<1>4. FramesHold'
  BY DEF Midnight, IInv, FramesHold
<1> QED
  BY <1>1, <1>3, <1>4 DEF Midnight, IInv, TypeOK, QueueTypeOK

LEMMA Initially == Init => IInv
<1> SUFFICES ASSUME Init PROVE IInv
  OBVIOUS
<1>1. QueueTypeOK
  BY MaxDayAssumption DEF Init, QueueInit, QueueTypeOK
<1>2. TypeOK
  BY <1>1, IdleHolds DEF Init, TypeOK, VehicleRow, VehicleStatus
<1>3. FramesHold
  BY IdleHolds DEF Init, FramesHold
<1>4. History
  BY DEF Init, History, PhaseHistory, CompletedHistory, DestinationReached
<1> QED
  BY <1>2, <1>3, <1>4 DEF IInv

LEMMA Inductive == IInv /\ [Next]_vars => IInv'
<1> SUFFICES ASSUME IInv, [Next]_vars PROVE IInv'
  OBVIOUS
<1>1. ASSUME NEW r \in Requests, Call(r)
      PROVE  IInv'
  BY <1>1, CallCreateTrip, CallStartLoading, CallEndLoading,
     CallSetDestination, CallExitOrigin, CallArriveDestination,
     CallStartUnloading, CallEndUnloading, CallCompleteTrip, CallPostEvent,
     CallAddToQueue, CallStartService DEF Call
<1>2. ASSUME NEW s \in Slots, Continue(s)
      PROVE  IInv'
  BY <1>2, StepInsertTrip, StepInsertEvent, StepUpdateVehicle,
     StepUpdateDestination, StepCheckQueue, StepAddEntry, StepRecordQueued,
     StepSelectEntry, StepDeactivateEntry, StepRecordService,
     StepUpdatePhase, StepReadForComplete, StepFinishTrip, StepFreeVehicle
     DEF Continue
<1>3. ASSUME NEW s \in Slots, Fail(s)
      PROVE  IInv'
  BY <1>3, StepFail
<1>4. CASE Crash
  BY <1>4, StepCrash
<1>5. CASE Midnight
  BY <1>5, StepMidnight
<1>6. CASE UNCHANGED vars
  BY <1>6 DEF vars, IInv, TypeOK, QueueTypeOK, FramesHold, History,
              PhaseHistory, CompletedHistory, DestinationReached
<1> QED
  BY <1>1, <1>2, <1>3, <1>4, <1>5, <1>6 DEF Next

(* The tables, and the locals of every handler, keep their types.          *)
THEOREM TypeCorrect == Spec => []TypeOK
<1>1. IInv => TypeOK
  BY DEF IInv
<1> QED
  BY <1>1, Initially, Inductive, PTL DEF Spec

(* What a handler read before an await still holds when it uses it.        *)
THEOREM ReadsStayTrue == Spec => []FramesHold
<1>1. IInv => FramesHold
  BY DEF IInv
<1> QED
  BY <1>1, Initially, Inductive, PTL DEF Spec

(* No trip is shown in a phase whose events are missing from its audit     *)
(* trail, with any number of concurrent requests, failures and crashes.    *)
THEOREM PhasesAreEarned == Spec => []PhaseHistory
<1>1. IInv => PhaseHistory
  BY DEF IInv, History
<1> QED
  BY <1>1, Initially, Inductive, PTL DEF Spec

(* A completed trip keeps its full history and its destination.            *)
THEOREM CompletionIsEarned == Spec => []CompletedHistory
<1>1. IInv => CompletedHistory
  BY DEF IInv, History
<1> QED
  BY <1>1, Initially, Inductive, PTL DEF Spec

(* A trip that has arrived has a destination.                              *)
THEOREM ArrivalHasDestination == Spec => []DestinationReached
<1>1. IInv => DestinationReached
  BY DEF IInv, History
<1> QED
  BY <1>1, Initially, Inductive, PTL DEF Spec
-----------------------------------------------------------------------------
(* Trips implements TripRecord.  A row of center_queues names a trip that  *)
(* is there: the event of its service is noted for an open trip.           *)
RowsOfTrips == \A e \in DOMAIN entries : entries[e].trip \in DOMAIN trips

(* A step that writes no trip, event or queue row.                         *)
LEMMA SameRecord ==
  ASSUME RowsOfTrips, UNCHANGED <<entries, trips, events>>
  PROVE  RowsOfTrips' /\ UNCHANGED Record!record
  BY DEF RowsOfTrips, Record!record

(* A step that inserts an event.                                           *)
LEMMA EventNoted ==
  ASSUME RowsOfTrips, NEW t \in Trips, t \in DOMAIN trips,
         NEW ev \in TripEventType,
         events' = [events EXCEPT ![t] = @ \cup {ev}],
         UNCHANGED <<entries, trips>>
  PROVE  RowsOfTrips' /\ Record!Next
<1>1. RowsOfTrips'
  BY DEF RowsOfTrips
<1>2. Record!Note(t, ev)
  BY DEF Record!Note
<1> QED
  BY <1>1, <1>2 DEF Record!Next

LEMMA InsertEventKeeps ==
  ASSUME IInv, RowsOfTrips, NEW s \in Slots, InsertEvent(s)
  PROVE  RowsOfTrips' /\ Record!Next
<1> PICK t, ev : t = slot[s].trip /\ ev = slot[s].event
  OBVIOUS
<1>1. t \in Trips /\ t \in DOMAIN trips /\ ev \in TripEventType
  BY SlotRead, SlotHandler DEF InsertEvent, FrameHolds, Frame
<1> QED
  BY <1>1, EventNoted DEF InsertEvent

LEMMA RecordQueuedKeeps ==
  ASSUME IInv, RowsOfTrips, NEW s \in Slots, RecordQueued(s)
  PROVE  RowsOfTrips' /\ Record!Next
<1> PICK t : t = slot[s].trip
  OBVIOUS
<1>1. t \in Trips /\ t \in DOMAIN trips
  BY SlotRead, SlotHandler DEF RecordQueued, FrameHolds, Frame
<1> QED
  BY <1>1, EventNoted DEF RecordQueued, TripEventType

LEMMA RecordServiceKeeps ==
  ASSUME IInv, RowsOfTrips, NEW s \in Slots, RecordService(s)
  PROVE  RowsOfTrips' /\ Record!Next
<1> PICK t : t = entries[slot[s].entry].trip
  OBVIOUS
<1>1. slot[s].entry \in DOMAIN entries
  BY SlotRead DEF RecordService, FrameHolds
<1>2. t \in Trips /\ t \in DOMAIN trips
  BY <1>1 DEF IInv, TypeOK, QueueTypeOK, Entry, RowsOfTrips
<1> QED
  BY <1>2, EventNoted DEF RecordService, TripEventType
-----------------------------------------------------------------------------
(* The steps that write queue rows.                                        *)
LEMMA AddEntryKeeps ==
  ASSUME IInv, RowsOfTrips, NEW s \in Slots, AddEntry(s)
  PROVE  RowsOfTrips' /\ UNCHANGED Record!record
<1>1. slot[s].trip \in DOMAIN trips
  BY SlotRead, SlotHandler DEF AddEntry, FrameHolds
<1>2. RowsOfTrips'
  BY <1>1 DEF RowsOfTrips, AddEntry, InsertEntry, InsertRow
<1> QED
  BY <1>2 DEF AddEntry, Record!record

LEMMA DeactivateEntryKeeps ==
  ASSUME IInv, RowsOfTrips, NEW s \in Slots, DeactivateEntry(s)
  PROVE  RowsOfTrips' /\ UNCHANGED Record!record
<1>1. \A e \in DOMAIN entries : entries[e] \in Entry
  BY DEF IInv, TypeOK, QueueTypeOK
<1>2. RowsOfTrips'
  BY <1>1 DEF RowsOfTrips, DeactivateEntry, Deactivate, Entry
<1> QED
  BY <1>2 DEF DeactivateEntry, Record!record
-----------------------------------------------------------------------------
(* The steps that write the row of a trip.                                 *)
LEMMA InsertTripKeeps ==
  ASSUME IInv, RowsOfTrips, NEW s \in Slots, InsertTrip(s)
  PROVE  RowsOfTrips' /\ Record!Next
<1> PICK t : t = FreshId(Trips, trips)
  OBVIOUS
<1>1. t \in Trips \ DOMAIN trips
  BY FreshIdIsFresh DEF InsertTrip
<1>2. PICK row :
        /\ trips' = InsertRow(trips, t, row)
        /\ row.status = "ONGOING" /\ row.phase = "AT_ORIGIN_ARRIVED"
  BY DEF InsertTrip
<1>3. UNCHANGED <<entries, events>>
  BY DEF InsertTrip
<1>4. /\ DOMAIN trips' = DOMAIN trips \cup {t}
      /\ \A u \in DOMAIN trips : trips'[u] = trips[u]
      /\ trips'[t] = row
  BY <1>1, <1>2 DEF InsertRow
<1>5. RowsOfTrips'
  BY <1>3, <1>4 DEF RowsOfTrips
<1>6. [u \in DOMAIN trips' |-> trips'[u].phase] =
        [u \in DOMAIN trips \cup {t} |->
           IF u = t THEN "AT_ORIGIN_ARRIVED"
           ELSE [v \in DOMAIN trips |-> trips[v].phase][u]]
  BY <1>2, <1>4
<1>7. {u \in DOMAIN trips' : trips'[u].status = "COMPLETED"} =
        {u \in DOMAIN trips : trips[u].status = "COMPLETED"}
  BY <1>1, <1>2, <1>4
<1>8. {u \in DOMAIN trips' : trips'[u].destination # NoCenter} \in
        {{u \in DOMAIN trips : trips[u].destination # NoCenter},
         {u \in DOMAIN trips : trips[u].destination # NoCenter} \cup {t}}
  BY <1>1, <1>4
<1>9. Record!Open(t)
  BY <1>1, <1>3, <1>6, <1>7, <1>8 DEF Record!Open
<1> QED
  BY <1>1, <1>5, <1>9 DEF Record!Next

(* The row of one trip is rewritten.                                       *)
LEMMA RowShown ==
  ASSUME IInv, RowsOfTrips, NEW t \in DOMAIN trips, NEW STATE row,
         trips' = [trips EXCEPT ![t] = row], UNCHANGED <<entries, events>>
  PROVE  /\ RowsOfTrips'
         /\ DOMAIN trips' = DOMAIN trips
         /\ [u \in DOMAIN trips' |-> trips'[u].phase] =
              [[u \in DOMAIN trips |-> trips[u].phase] EXCEPT ![t] = row.phase]
         /\ \A u \in DOMAIN trips :
              trips'[u] = IF u = t THEN row ELSE trips[u]
<1>1. /\ DOMAIN trips' = DOMAIN trips
      /\ \A u \in DOMAIN trips :
           trips'[u] = IF u = t THEN row ELSE trips[u]
  OBVIOUS
<1>2. RowsOfTrips'
  BY <1>1 DEF RowsOfTrips
<1> QED
  BY <1>1, <1>2

LEMMA UpdateDestinationKeeps ==
  ASSUME IInv, RowsOfTrips, NEW s \in Slots, UpdateDestination(s)
  PROVE  RowsOfTrips' /\ Record!Next
<1> PICK t : t = slot[s].trip
  OBVIOUS
<1> DEFINE row == [trips[t] EXCEPT !.destination = slot[s].dest]
<1>1. t \in DOMAIN trips /\ t \in Trips /\ slot[s].dest \in Centers
  BY SlotRead, SlotHandler DEF UpdateDestination, FrameHolds, IInv, TypeOK
<1>2. trips[t] \in TripRow
  BY <1>1 DEF IInv, TypeOK
<1>3. /\ row.destination # NoCenter
      /\ row.phase = trips[t].phase /\ row.status = trips[t].status
  BY <1>1, <1>2, TripsAssumption DEF TripRow
<1>4. /\ trips' = [trips EXCEPT ![t] = row]
      /\ UNCHANGED <<entries, events>>
  BY <1>1, <1>2 DEF UpdateDestination, IInv, TypeOK
<1> HIDE DEF row
<1>5. /\ RowsOfTrips' /\ DOMAIN trips' = DOMAIN trips
      /\ \A u \in DOMAIN trips :
           trips'[u] = IF u = t THEN row ELSE trips[u]
  BY <1>1, <1>4, RowShown
<1>6. /\ UNCHANGED [u \in DOMAIN trips |-> trips[u].phase]
      /\ UNCHANGED {u \in DOMAIN trips : trips[u].status = "COMPLETED"}
  BY <1>3, <1>5
<1>7. {u \in DOMAIN trips : trips[u].destination # NoCenter}' =
        {u \in DOMAIN trips : trips[u].destination # NoCenter} \cup {t}
  BY <1>1, <1>3, <1>5
<1>8. Record!Head(t)
  BY <1>1, <1>4, <1>6, <1>7 DEF Record!Head
<1> QED
  BY <1>1, <1>5, <1>8 DEF Record!Next

LEMMA UpdatePhaseKeeps ==
  ASSUME IInv, RowsOfTrips, NEW s \in Slots, UpdatePhase(s)
  PROVE  RowsOfTrips' /\ Record!Next
<1> PICK t, p : t = slot[s].trip /\ p = slot[s].next
  OBVIOUS
<1> DEFINE row == [trips[t] EXCEPT !.phase = p]
<1>1. /\ slot[s].pc = "phase" /\ slot[s].op \in TripAction
      /\ slot[s] \in Frame
      /\ FrameHolds(slot[s], trips, events, DOMAIN entries)
  BY SlotRead, SlotHandler DEF UpdatePhase
<1>2. /\ t \in DOMAIN trips /\ t \in Trips /\ p \in TripPhase
      /\ EventsBefore(p) \subseteq events[t]
      /\ p \in AtDestination => trips[t].destination # NoCenter
  BY <1>1 DEF FrameHolds, Frame, IInv, TypeOK
<1>3. trips[t] \in TripRow
  BY <1>2 DEF IInv, TypeOK
<1>4. /\ row.phase = p
      /\ row.destination = trips[t].destination /\ row.status = trips[t].status
  BY <1>2, <1>3 DEF TripRow
<1>5. /\ trips' = [trips EXCEPT ![t] = row]
      /\ UNCHANGED <<entries, events>>
  BY <1>2, <1>3 DEF UpdatePhase, IInv, TypeOK
<1> HIDE DEF row
<1>6. /\ RowsOfTrips' /\ DOMAIN trips' = DOMAIN trips
      /\ [u \in DOMAIN trips' |-> trips'[u].phase] =
           [[u \in DOMAIN trips |-> trips[u].phase] EXCEPT ![t] = row.phase]
      /\ \A u \in DOMAIN trips :
           trips'[u] = IF u = t THEN row ELSE trips[u]
  BY <1>2, <1>5, RowShown
<1>7. /\ UNCHANGED {u \in DOMAIN trips : trips[u].status = "COMPLETED"}
      /\ UNCHANGED {u \in DOMAIN trips : trips[u].destination # NoCenter}
  BY <1>4, <1>6
<1>8. Record!Earned(t, p)
  BY <1>2 DEF Record!Earned
<1>9. Record!Show(t, p)
  BY <1>2, <1>4, <1>5, <1>6, <1>7, <1>8 DEF Record!Show
<1> QED
  BY <1>2, <1>6, <1>9 DEF Record!Next

LEMMA FinishTripKeeps ==
  ASSUME IInv, RowsOfTrips, NEW s \in Slots, FinishTrip(s)
  PROVE  RowsOfTrips' /\ Record!Next
<1> PICK t : t = slot[s].trip
  OBVIOUS
<1> DEFINE row == [trips[t] EXCEPT !.status = "COMPLETED",
                                   !.phase = "COMPLETED"]
<1>1. /\ slot[s].pc = "complete" /\ slot[s] \in Frame
      /\ slot[s].op \in {"endUnloading", "completeTrip"}
      /\ FrameHolds(slot[s], trips, events, DOMAIN entries)
  BY SlotRead, SlotHandler DEF FinishTrip
<1>2. /\ t \in DOMAIN trips /\ t \in Trips
      /\ slot[s].next \in {"AT_DESTINATION_UNLOADING_ENDED", "COMPLETED"}
      /\ EventsBefore(slot[s].next) \subseteq events[t]
      /\ slot[s].next \in AtDestination => trips[t].destination # NoCenter
  BY <1>1, TripsAssumption DEF FrameHolds, TripPhase, IInv, TypeOK
<1>3. /\ EventsBefore("COMPLETED") \subseteq events[t]
      /\ trips[t].destination # NoCenter
  BY <1>2 DEF EventsBefore, AtDestination
<1>4. trips[t] \in TripRow
  BY <1>2 DEF IInv, TypeOK
<1>5. /\ row.phase = "COMPLETED" /\ row.status = "COMPLETED"
      /\ row.destination = trips[t].destination
  BY <1>4 DEF TripRow
<1>6. /\ trips' = [trips EXCEPT ![t] = row]
      /\ UNCHANGED <<entries, events>>
  BY <1>2, <1>4 DEF FinishTrip, IInv, TypeOK
<1> HIDE DEF row
<1>7. /\ RowsOfTrips' /\ DOMAIN trips' = DOMAIN trips
      /\ [u \in DOMAIN trips' |-> trips'[u].phase] =
           [[u \in DOMAIN trips |-> trips[u].phase] EXCEPT ![t] = row.phase]
      /\ \A u \in DOMAIN trips :
           trips'[u] = IF u = t THEN row ELSE trips[u]
  BY <1>2, <1>6, RowShown
<1>8. /\ UNCHANGED {u \in DOMAIN trips : trips[u].destination # NoCenter}
      /\ {u \in DOMAIN trips : trips[u].status = "COMPLETED"}' =
           {u \in DOMAIN trips : trips[u].status = "COMPLETED"} \cup {t}
  BY <1>2, <1>5, <1>7
<1>9. Record!Earned(t, "COMPLETED")
  BY <1>2, <1>3 DEF Record!Earned, TripPhase
<1>10. Record!Complete(t)
  BY <1>2, <1>5, <1>6, <1>7, <1>8, <1>9 DEF Record!Complete
<1> QED
  BY <1>2, <1>7, <1>10 DEF Record!Next
-----------------------------------------------------------------------------
LEMMA RecordStep ==
  ASSUME IInv, RowsOfTrips, [Next]_vars
  PROVE  RowsOfTrips' /\ [Record!Next]_(Record!record)
<1>1. CASE UNCHANGED <<entries, trips, events>>
  BY <1>1, SameRecord
<1>2. ASSUME NEW r \in Requests, Call(r)
      PROVE  UNCHANGED <<entries, trips, events>>
  BY <1>2 DEF Call, CreateTrip, StartLoading, EndLoading, SetDestination,
     ExitOrigin, ArriveDestination, StartUnloading, EndUnloading,
     CompleteTrip, PostEvent, AddToQueue, StartService, Begin
<1>3. ASSUME NEW s \in Slots, Continue(s)
      PROVE  \/ UNCHANGED <<entries, trips, events>>
             \/ RowsOfTrips' /\ UNCHANGED Record!record
             \/ RowsOfTrips' /\ Record!Next
  <2>1. CASE UpdateVehicle(s) \/ CheckQueue(s) \/ SelectEntry(s)
             \/ ReadForComplete(s) \/ FreeVehicle(s)
    BY <2>1 DEF UpdateVehicle, CheckQueue, SelectEntry, ReadForComplete,
                FreeVehicle
  <2>2. CASE ~ (UpdateVehicle(s) \/ CheckQueue(s) \/ SelectEntry(s)
                \/ ReadForComplete(s) \/ FreeVehicle(s))
    BY <1>3, <2>2, InsertTripKeeps, InsertEventKeeps, UpdateDestinationKeeps,
       AddEntryKeeps, RecordQueuedKeeps, DeactivateEntryKeeps,
       RecordServiceKeeps, UpdatePhaseKeeps, FinishTripKeeps DEF Continue
  <2> QED
    BY <2>1, <2>2
<1>4. ASSUME \/ \E s \in Slots : Fail(s)
             \/ Crash \/ Midnight \/ UNCHANGED vars
      PROVE  UNCHANGED <<entries, trips, events>>
  BY <1>4 DEF Fail, Crash, Midnight, vars
<1> QED
  BY <1>1, <1>2, <1>3, <1>4 DEF Next

(* Whatever requests, background jobs, failures and crashes do to the      *)
(* tables, for any number of them, the record of the trips is kept: every  *)
(* statement is a step of TripRecord or changes nothing of it.             *)
THEOREM ImplementsTripRecord == Spec => RecordKept
<1>1. Init => Record!Init /\ RowsOfTrips
  BY DEF Init, QueueInit, Record!Init, RowsOfTrips
<1>2. IInv /\ RowsOfTrips /\ [Next]_vars =>
        RowsOfTrips' /\ [Record!Next]_(Record!record)
  BY RecordStep
<1> QED
  BY <1>1, <1>2, Initially, Inductive, PTL DEF Spec, RecordKept, Record!Spec
-----------------------------------------------------------------------------
(* One request at a time, and no endpoint but the actions of a trip: what  *)
(* OneRequest alone, or both with MayFail false, give.                     *)
OneRequest == \E r : Requests = {r}

Undisturbed ==
  OneRequest /\ ~ MayFail /\ Endpoints \subseteq TripAction \cup {"createTrip"}

(* A background job only queues its vehicle.                               *)
JobsQueue == \A j \in Trips : slot[j].op \in {"none", "autoAdd"}

(* The last statements of completeTrip.                                    *)
Completing == {"readForComplete", "complete", "completeVehicle"}

(* What the only request read before an await and still relies on.         *)
Serial(f) ==
  /\ f.pc = "insertTrip" => ~ HasOngoingTrip(f.vehicle)
  /\ f.op \in TripAction /\ f.pc \notin Completing =>
       f.next = NextPhase(trips[f.trip].phase)
  /\ f.pc = "complete" =>
       trips[f.trip].phase = "AT_DESTINATION_UNLOADING_ENDED"

OrderInv ==
  /\ JobsQueue
  /\ \A r \in Requests : Serial(slot[r])
  /\ OneOngoingTrip


(* What a single request guarantees of the step it makes.                  *)
PhaseStep ==
  \A t \in DOMAIN trips :
    trips'[t].phase \in {trips[t].phase, NextPhase(trips[t].phase)}

(* The job of a trip is at a statement of addToQueue, and no job is a      *)
(* request.                                                                *)
LEMMA JobSteps ==
  ASSUME IInv, JobsQueue, NEW j \in Trips
  PROVE  /\ j \in Slots /\ j \notin Requests
         /\ slot[j].pc \in QueueSteps \cup {"idle"}
<1>1. j \in Slots /\ j \notin Requests
  BY TripsAssumption DEF Slots
<1>2. slot[j].pc \in Statements(slot[j].op)
  BY <1>1, SlotRead DEF FrameHolds
<1> QED
  BY <1>1, <1>2 DEF JobsQueue, Statements

(* A step that writes no trip and moves the request on.                    *)
LEMMA OrderKept ==
  ASSUME IInv, OrderInv, NEW r, Requests = {r}, trips' = trips,
         Serial(slot'[r]), JobsQueue'
  PROVE  OrderInv' /\ PhaseStep
<1>1. Serial(slot[r])'
  BY DEF Serial, HasOngoingTrip, InPhase
<1>2. OneOngoingTrip'
  BY DEF OrderInv, OneOngoingTrip
<1> QED
  BY <1>1, <1>2 DEF OrderInv, PhaseStep

(* Where Goto takes the request.                                           *)
LEMMA SerialGoto ==
  ASSUME IInv, OrderInv, NEW r, Requests = {r}, NEW STATE pc, Goto(r, pc),
         pc # "insertTrip",
         pc \in Completing \/ slot[r].pc \notin Completing \/ pc = "idle",
         pc = "complete" => trips[slot[r].trip].phase =
                              "AT_DESTINATION_UNLOADING_ENDED"
  PROVE  Serial(slot'[r]) /\ JobsQueue'
<1>1. r \in Slots /\ r \notin Trips /\ slot \in [Slots -> Frame]
  BY TripsAssumption DEF Slots, IInv, TypeOK
<1>2. JobsQueue'
  BY <1>1 DEF Goto, OrderInv, JobsQueue, Slots
<1>3. slot[r] \in Frame /\ Serial(slot[r])
  BY <1>1 DEF OrderInv
<1>4. CASE pc = "idle"
  <2>1. slot'[r] = Idle
    BY <1>1, <1>4 DEF Goto
  <2> QED
    BY <1>2, <2>1 DEF Serial, Idle, TripAction
<1>5. CASE pc # "idle"
  <2>1. slot'[r] = [slot[r] EXCEPT !.pc = pc]
    BY <1>1, <1>5 DEF Goto
  <2>2. /\ slot'[r].pc = pc /\ slot'[r].op = slot[r].op
        /\ slot'[r].trip = slot[r].trip /\ slot'[r].next = slot[r].next
    BY <1>3, <2>1 DEF Frame
  <2> QED
    BY <1>2, <1>3, <1>5, <2>2 DEF Serial
<1> QED
  BY <1>4, <1>5

(* A request enters its handler.                                           *)
LEMMA SerialBegin ==
  ASSUME IInv, OrderInv, NEW r, Requests = {r}, NEW ep, NEW STATE frame,
         Begin(r, ep, frame), Serial(frame)
  PROVE  OrderInv' /\ PhaseStep
<1>1. r \in Slots /\ r \notin Trips /\ slot \in [Slots -> Frame]
  BY TripsAssumption DEF Slots, IInv, TypeOK
<1>2. slot'[r] = frame /\ JobsQueue'
  BY <1>1 DEF Begin, OrderInv, JobsQueue, Slots
<1> QED
  BY <1>2, OrderKept DEF Begin

LEMMA OrderCall ==
  ASSUME IInv, OrderInv, NEW r, Requests = {r}, Call(r)
  PROVE  OrderInv' /\ PhaseStep
<1> USE DEF TripFrame, Idle, Serial, InPhase, TripAction, Completing
<1>1. CASE CreateTrip(r)
  <2> PICK v \in Vehicles :
        /\ ~ HasOngoingTrip(v)
        /\ Begin(r, "createTrip",
             [Idle EXCEPT !.op = "createTrip", !.pc = "insertTrip",
                          !.vehicle = v])
    BY <1>1 DEF CreateTrip
  <2>1. Serial([Idle EXCEPT !.op = "createTrip", !.pc = "insertTrip",
                            !.vehicle = v])
    OBVIOUS
  <2> HIDE DEF Idle, Serial
  <2> QED
    BY <2>1, SerialBegin
<1>2. CASE StartLoading(r)
  <2> PICK t \in InPhase("AT_ORIGIN_ARRIVED") :
        Begin(r, "startLoading",
          [TripFrame(t, "startLoading", "select", "AT_ORIGIN_LOADING")
             EXCEPT !.queue = "LOADING"])
    BY <1>2 DEF StartLoading
  <2>1. Serial([TripFrame(t, "startLoading", "select", "AT_ORIGIN_LOADING")
                  EXCEPT !.queue = "LOADING"])
    BY DEF NextPhase
  <2> HIDE DEF TripFrame, Serial
  <2> QED
    BY <2>1, SerialBegin
<1>3. CASE EndLoading(r)
  <2> PICK t \in InPhase("AT_ORIGIN_LOADING") :
        Begin(r, "endLoading",
          [TripFrame(t, "endLoading", "event", "AT_ORIGIN_LOADING_ENDED")
             EXCEPT !.event = "LOADING_ENDED", !.center = trips[t].origin])
    BY <1>3 DEF EndLoading
  <2>1. Serial([TripFrame(t, "endLoading", "event", "AT_ORIGIN_LOADING_ENDED")
                  EXCEPT !.event = "LOADING_ENDED",
                         !.center = trips[t].origin])
    BY DEF NextPhase
  <2> HIDE DEF TripFrame, Serial
  <2> QED
    BY <2>1, SerialBegin
<1>4. CASE SetDestination(r)
  <2> PICK t \in InPhase("AT_ORIGIN_LOADING_ENDED"), d \in RequestedCenters :
        Begin(r, "setDestination",
          [TripFrame(t, "setDestination", "event", "READY_TO_EXIT")
             EXCEPT !.event = "READY_TO_EXIT", !.center = trips[t].origin,
                    !.dest = d])
    BY <1>4 DEF SetDestination
  <2>1. Serial([TripFrame(t, "setDestination", "event", "READY_TO_EXIT")
                  EXCEPT !.event = "READY_TO_EXIT",
                         !.center = trips[t].origin, !.dest = d])
    BY DEF NextPhase
  <2> HIDE DEF TripFrame, Serial
  <2> QED
    BY <2>1, SerialBegin
<1>5. CASE ExitOrigin(r)
  <2> PICK t \in InPhase("READY_TO_EXIT") :
        Begin(r, "exitOrigin",
          [TripFrame(t, "exitOrigin", "event", "IN_TRANSIT")
             EXCEPT !.event = "EXITED", !.center = trips[t].origin])
    BY <1>5 DEF ExitOrigin
  <2>1. Serial([TripFrame(t, "exitOrigin", "event", "IN_TRANSIT")
                  EXCEPT !.event = "EXITED", !.center = trips[t].origin])
    BY DEF NextPhase
  <2> HIDE DEF TripFrame, Serial
  <2> QED
    BY <2>1, SerialBegin
<1>6. CASE ArriveDestination(r)
  <2> PICK t \in InPhase("IN_TRANSIT") :
        Begin(r, "arriveDestination",
          [TripFrame(t, "arriveDestination", "event", "AT_DESTINATION_ARRIVED")
             EXCEPT !.event = "ARRIVED_DESTINATION",
                    !.center = trips[t].destination, !.queue = "UNLOADING"])
    BY <1>6 DEF ArriveDestination
  <2>1. Serial([TripFrame(t, "arriveDestination", "event",
                          "AT_DESTINATION_ARRIVED")
                  EXCEPT !.event = "ARRIVED_DESTINATION",
                         !.center = trips[t].destination,
                         !.queue = "UNLOADING"])
    BY DEF NextPhase
  <2> HIDE DEF TripFrame, Serial
  <2> QED
    BY <2>1, SerialBegin
<1>7. CASE StartUnloading(r)
  <2> PICK t \in InPhase("AT_DESTINATION_ARRIVED") :
        Begin(r, "startUnloading",
          [TripFrame(t, "startUnloading", "select", "AT_DESTINATION_UNLOADING")
             EXCEPT !.queue = "UNLOADING"])
    BY <1>7 DEF StartUnloading
  <2>1. Serial([TripFrame(t, "startUnloading", "select",
                          "AT_DESTINATION_UNLOADING")
                  EXCEPT !.queue = "UNLOADING"])
    BY DEF NextPhase
  <2> HIDE DEF TripFrame, Serial
  <2> QED
    BY <2>1, SerialBegin
<1>8. CASE EndUnloading(r)
  <2> PICK t \in InPhase("AT_DESTINATION_UNLOADING") :
        Begin(r, "endUnloading",
          [TripFrame(t, "endUnloading", "event",
                     "AT_DESTINATION_UNLOADING_ENDED")
             EXCEPT !.event = "UNLOADING_ENDED",
                    !.center = trips[t].destination])
    BY <1>8 DEF EndUnloading
  <2>1. Serial([TripFrame(t, "endUnloading", "event",
                          "AT_DESTINATION_UNLOADING_ENDED")
                  EXCEPT !.event = "UNLOADING_ENDED",
                         !.center = trips[t].destination])
    BY DEF NextPhase
  <2> HIDE DEF TripFrame, Serial
  <2> QED
    BY <2>1, SerialBegin
<1>9. CASE CompleteTrip(r)
  <2> PICK t \in InPhase("AT_DESTINATION_UNLOADING_ENDED") :
        Begin(r, "completeTrip",
          TripFrame(t, "completeTrip", "complete", "COMPLETED"))
    BY <1>9 DEF CompleteTrip
  <2>1. Serial(TripFrame(t, "completeTrip", "complete", "COMPLETED"))
    OBVIOUS
  <2> HIDE DEF TripFrame, Serial
  <2> QED
    BY <2>1, SerialBegin
<1>10. CASE PostEvent(r)
  <2> PICK t \in DOMAIN trips, ev \in PostedEvents, c \in Centers,
           d \in RequestedCenters \cup {NoCenter} :
        Begin(r, "postEvent",
          [TripFrame(t, "postEvent", "event", NoPhase)
             EXCEPT !.event = ev, !.center = c, !.dest = d])
    BY <1>10 DEF PostEvent
  <2>1. Serial([TripFrame(t, "postEvent", "event", NoPhase)
                  EXCEPT !.event = ev, !.center = c, !.dest = d])
    OBVIOUS
  <2> HIDE DEF TripFrame, Serial
  <2> QED
    BY <2>1, SerialBegin
<1>11. CASE AddToQueue(r)
  <2> PICK t \in DOMAIN trips, v \in Vehicles, c \in Centers, q \in QueueType :
        Begin(r, "addToQueue",
          [Idle EXCEPT !.op = "addToQueue", !.pc = "check", !.trip = t,
                       !.vehicle = v, !.center = c, !.queue = q])
    BY <1>11 DEF AddToQueue
  <2>1. Serial([Idle EXCEPT !.op = "addToQueue", !.pc = "check", !.trip = t,
                            !.vehicle = v, !.center = c, !.queue = q])
    OBVIOUS
  <2> HIDE DEF Idle, Serial
  <2> QED
    BY <2>1, SerialBegin
<1>12. CASE StartService(r)
  <2> PICK e \in DOMAIN entries :
        Begin(r, "startService",
          [Idle EXCEPT !.op = "startService", !.pc = "deactivate", !.entry = e])
    BY <1>12 DEF StartService
  <2>1. Serial([Idle EXCEPT !.op = "startService", !.pc = "deactivate",
                            !.entry = e])
    OBVIOUS
  <2> HIDE DEF Idle, Serial
  <2> QED
    BY <2>1, SerialBegin
<1> HIDE DEF TripFrame, Idle, Serial, InPhase, TripAction, Completing
<1> QED
  BY <1>1, <1>2, <1>3, <1>4, <1>5, <1>6, <1>7, <1>8, <1>9, <1>10, <1>11,
     <1>12 DEF Call

(* A statement of the request that writes no trip.                         *)
LEMMA OrderGoto ==
  ASSUME IInv, OrderInv, NEW r, Requests = {r}, NEW STATE pc, Goto(r, pc),
         trips' = trips, pc # "insertTrip",
         pc \in Completing \/ slot[r].pc \notin Completing \/ pc = "idle",
         pc = "complete" => trips[slot[r].trip].phase =
                              "AT_DESTINATION_UNLOADING_ENDED"
  PROVE  OrderInv' /\ PhaseStep
<1>1. Serial(slot'[r]) /\ JobsQueue'
  BY SerialGoto
<1> QED
  BY <1>1, OrderKept

(* The statements of the only request.                                     *)
LEMMA OrderInsertTrip ==
  ASSUME IInv, OrderInv, NEW r, Requests = {r}, InsertTrip(r)
  PROVE  OrderInv' /\ PhaseStep
<1>1. r \in Slots /\ r \notin Trips /\ slot \in [Slots -> Frame]
  BY TripsAssumption DEF Slots, IInv, TypeOK
<1>2. slot[r] \in Frame /\ slot[r].op = "createTrip"
  BY <1>1, SlotHandler DEF InsertTrip
<1>3. ~ HasOngoingTrip(slot[r].vehicle)
  BY DEF OrderInv, Serial, InsertTrip
<1> PICK t : t = FreshId(Trips, trips)
  OBVIOUS
<1> PICK c \in Centers, p \in TripPurpose,
         d \in (RequestedCenters \cap Centers) \cup {NoCenter} :
      /\ trips' = InsertRow(trips, t,
                    [vehicle |-> slot[r].vehicle, origin |-> c,
                     destination |-> d, purpose |-> p,
                     status |-> "ONGOING", phase |-> "AT_ORIGIN_ARRIVED"])
      /\ slot' = [slot EXCEPT ![r] =
                    [slot[r] EXCEPT !.pc = "event", !.trip = t,
                                    !.event = "ARRIVED", !.center = c]]
  BY DEF InsertTrip
<1>4. t \in Trips \ DOMAIN trips
  BY FreshIdIsFresh DEF InsertTrip
<1>5. /\ DOMAIN trips' = DOMAIN trips \cup {t}
      /\ \A u \in DOMAIN trips : trips'[u] = trips[u]
      /\ trips'[t].vehicle = slot[r].vehicle
  BY <1>4 DEF InsertRow
<1>6. slot'[r].pc = "event" /\ slot'[r].op = "createTrip"
  BY <1>1, <1>2 DEF Frame
<1>7. JobsQueue'
  BY <1>1 DEF OrderInv, JobsQueue, Slots
<1>8. Serial(slot[r])'
  BY <1>6 DEF Serial, TripAction
<1>9. OneOngoingTrip'
  BY <1>3, <1>5 DEF OrderInv, OneOngoingTrip, HasOngoingTrip
<1> QED
  BY <1>5, <1>7, <1>8, <1>9 DEF OrderInv, PhaseStep

LEMMA OrderUpdateVehicle ==
  ASSUME IInv, OrderInv, NEW r, Requests = {r}, UpdateVehicle(r)
  PROVE  OrderInv' /\ PhaseStep
<1>1. r \in Slots /\ r \notin Trips /\ slot \in [Slots -> Frame]
  BY TripsAssumption DEF Slots, IInv, TypeOK
<1>2. CASE slot[r].op = "createTrip"
  <2>1. slot' = [slot EXCEPT ![r] = Idle, ![slot[r].trip] = AutoAdd(slot[r])]
    BY <1>2 DEF UpdateVehicle
  <2>2. slot[r].trip \in Trips
    BY <1>1, <1>2, SlotRead DEF FrameHolds, Frame, UpdateVehicle
  <2>3. AutoAdd(slot[r]).op = "autoAdd"
    BY DEF AutoAdd, Idle
  <2>4. slot'[r] = Idle /\ JobsQueue'
    BY <1>1, <2>1, <2>2, <2>3 DEF OrderInv, JobsQueue, Slots
  <2> QED
    BY <2>4, OrderKept DEF UpdateVehicle, Serial, Idle, TripAction
<1>3. CASE slot[r].op # "createTrip"
  <2>1. slot[r].pc \notin Completing /\ Goto(r, AfterTripEvent(slot[r]))
    BY <1>3 DEF UpdateVehicle, Completing
  <2>2. AfterTripEvent(slot[r]) \in {"check", "idle", "phase"}
    BY DEF AfterTripEvent
  <2> QED
    BY <2>1, <2>2, OrderGoto DEF UpdateVehicle
<1> QED
  BY <1>2, <1>3

LEMMA OrderUpdateDestination ==
  ASSUME IInv, OrderInv, NEW r, Requests = {r}, UpdateDestination(r)
  PROVE  OrderInv' /\ PhaseStep
<1>1. r \in Slots /\ slot[r].trip \in DOMAIN trips
  BY SlotRead, SlotHandler DEF UpdateDestination, FrameHolds, Slots
<1> PICK t : t = slot[r].trip
  OBVIOUS
<1>2. /\ DOMAIN trips' = DOMAIN trips
      /\ \A u \in DOMAIN trips :
           /\ trips'[u].phase = trips[u].phase
           /\ trips'[u].status = trips[u].status
           /\ trips'[u].vehicle = trips[u].vehicle
  BY <1>1 DEF UpdateDestination, IInv, TypeOK, TripRow
<1>3. AfterTripEvent(slot[r]) \in {"check", "idle", "phase"}
  BY DEF AfterTripEvent
<1>4. Serial(slot'[r]) /\ JobsQueue'
  BY <1>3, SerialGoto DEF UpdateDestination, Completing
<1>5. slot'[r].op \in TripAction => slot'[r].trip \in DOMAIN trips
  BY <1>1, <1>3 DEF UpdateDestination, Goto, Idle, IInv, TypeOK, Frame,
                    TripAction
<1>6. Serial(slot[r])'
  <2>1. slot'[r].pc \notin {"insertTrip", "complete"}
    BY <1>1, <1>3 DEF UpdateDestination, Goto, Idle, IInv, TypeOK, Frame
  <2> QED
    BY <1>2, <1>4, <1>5, <2>1 DEF Serial
<1>7. OneOngoingTrip'
  BY <1>2 DEF OrderInv, OneOngoingTrip
<1> QED
  BY <1>2, <1>4, <1>6, <1>7 DEF OrderInv, PhaseStep

LEMMA OrderUpdatePhase ==
  ASSUME IInv, OrderInv, NEW r, Requests = {r}, UpdatePhase(r)
  PROVE  OrderInv' /\ PhaseStep
<1>1. r \in Slots /\ slot[r].trip \in DOMAIN trips /\ slot[r].op \in TripAction
  BY SlotRead, SlotHandler
     DEF UpdatePhase, FrameHolds, Slots, TripAction
<1>2. slot[r].next = NextPhase(trips[slot[r].trip].phase)
  BY <1>1 DEF OrderInv, Serial, UpdatePhase, Completing
<1>3. /\ DOMAIN trips' = DOMAIN trips
      /\ \A u \in DOMAIN trips :
           /\ trips'[u].phase = IF u = slot[r].trip THEN slot[r].next
                                ELSE trips[u].phase
           /\ trips'[u].status = trips[u].status
           /\ trips'[u].vehicle = trips[u].vehicle
  BY <1>1 DEF UpdatePhase, IInv, TypeOK, TripRow
<1>4. JobsQueue'
  BY <1>1, SerialGoto DEF UpdatePhase, Completing
<1>5. slot'[r].pc \in {"idle", "readForComplete"}
      /\ (slot'[r].pc = "idle" => slot'[r] = Idle)
  BY <1>1 DEF UpdatePhase, Goto, Idle, IInv, TypeOK, Frame
<1>6. Serial(slot[r])'
  BY <1>5 DEF Serial, Completing, Idle, TripAction
<1>7. OneOngoingTrip'
  BY <1>3 DEF OrderInv, OneOngoingTrip
<1> QED
  BY <1>2, <1>3, <1>4, <1>6, <1>7 DEF OrderInv, PhaseStep

LEMMA OrderFinishTrip ==
  ASSUME IInv, OrderInv, NEW r, Requests = {r}, FinishTrip(r)
  PROVE  OrderInv' /\ PhaseStep
<1>1. r \in Slots /\ slot[r].trip \in DOMAIN trips
  BY SlotRead, SlotHandler DEF FinishTrip, FrameHolds, Slots
<1>2. trips[slot[r].trip].phase = "AT_DESTINATION_UNLOADING_ENDED"
  BY DEF OrderInv, Serial, FinishTrip
<1>3. /\ DOMAIN trips' = DOMAIN trips
      /\ \A u \in DOMAIN trips :
           /\ trips'[u].phase = IF u = slot[r].trip THEN "COMPLETED"
                                ELSE trips[u].phase
           /\ trips'[u].status \in {trips[u].status, "COMPLETED"}
           /\ trips'[u].vehicle = trips[u].vehicle
  BY <1>1 DEF FinishTrip, IInv, TypeOK, TripRow
<1>4. JobsQueue'
  BY <1>1, SerialGoto DEF FinishTrip, Completing
<1>5. slot'[r].pc = "completeVehicle"
  BY <1>1 DEF FinishTrip, Goto, IInv, TypeOK, Frame
<1>6. Serial(slot[r])'
  BY <1>5 DEF Serial, Completing
<1>7. OneOngoingTrip'
  BY <1>3 DEF OrderInv, OneOngoingTrip
<1> QED
  BY <1>2, <1>3, <1>4, <1>6, <1>7 DEF OrderInv, PhaseStep, NextPhase

LEMMA OrderContinue ==
  ASSUME IInv, OrderInv, NEW r, Requests = {r}, Continue(r)
  PROVE  OrderInv' /\ PhaseStep
<1> USE DEF Completing
<1>1. CASE InsertEvent(r)
  <2>1. AfterTripEvent(slot[r]) \in {"check", "idle", "phase"}
    BY DEF AfterTripEvent
  <2> QED
    BY <1>1, <2>1, OrderGoto DEF InsertEvent
<1>2. CASE CheckQueue(r)
  BY <1>2, OrderGoto DEF CheckQueue, AfterAdd
<1>3. CASE AddEntry(r)
  BY <1>3, OrderGoto DEF AddEntry
<1>4. CASE RecordQueued(r)
  BY <1>4, OrderGoto DEF RecordQueued, AfterAdd
<1>5. CASE SelectEntry(r)
  <2>1. CASE Goto(r, "idle")
    BY <1>5, <2>1, OrderGoto DEF SelectEntry
  <2>2. CASE \E e \in Startable(slot[r].vehicle, slot[r].queue, today) :
               slot' = [slot EXCEPT ![r] =
                          [slot[r] EXCEPT !.pc = "deactivate", !.entry = e]]
    <3> PICK e :
          slot' = [slot EXCEPT ![r] =
                     [slot[r] EXCEPT !.pc = "deactivate", !.entry = e]]
      BY <2>2
    <3>1. r \in Slots /\ r \notin Trips /\ slot \in [Slots -> Frame]
      BY TripsAssumption DEF Slots, IInv, TypeOK
    <3>2. slot'[r] = [slot[r] EXCEPT !.pc = "deactivate", !.entry = e]
      BY <3>1
    <3>3. /\ slot'[r].pc = "deactivate" /\ slot'[r].op = slot[r].op
          /\ slot'[r].trip = slot[r].trip /\ slot'[r].next = slot[r].next
      BY <3>1, <3>2 DEF Frame
    <3>4. Serial(slot[r]) /\ slot[r].pc = "select"
      BY <1>5 DEF OrderInv, SelectEntry
    <3>5. Serial(slot'[r])
      BY <3>3, <3>4 DEF Serial
    <3>6. JobsQueue'
      BY <3>1 DEF OrderInv, JobsQueue, Slots
    <3> QED
      BY <1>5, <3>5, <3>6, OrderKept DEF SelectEntry
  <2> QED
    BY <1>5, <2>1, <2>2 DEF SelectEntry
<1>6. CASE DeactivateEntry(r)
  BY <1>6, OrderGoto DEF DeactivateEntry
<1>7. CASE RecordService(r)
  BY <1>7, OrderGoto DEF RecordService
<1>8. CASE ReadForComplete(r)
  BY <1>8, OrderGoto DEF ReadForComplete, InPhase
<1>9. CASE FreeVehicle(r)
  BY <1>9, OrderGoto DEF FreeVehicle
<1> QED
  BY <1>1, <1>2, <1>3, <1>4, <1>5, <1>6, <1>7, <1>8, <1>9, OrderInsertTrip,
     OrderUpdateVehicle, OrderUpdateDestination, OrderUpdatePhase,
     OrderFinishTrip DEF Continue

(* A statement of a background job.                                        *)
LEMMA OrderJob ==
  ASSUME IInv, OrderInv, NEW r, Requests = {r}, NEW j \in Trips,
         \/ CheckQueue(j) \/ AddEntry(j) \/ RecordQueued(j) \/ Fail(j)
  PROVE  OrderInv' /\ PhaseStep
<1>1. /\ j \in Slots /\ r \in Slots /\ j # r /\ r \notin Trips
      /\ slot \in [Slots -> Frame]
  BY TripsAssumption DEF Slots, IInv, TypeOK
<1>2. slot[j].op \in {"autoAdd", "none"}
  BY DEF OrderInv, JobsQueue
<1>3. \E pc : Goto(j, pc)
  BY DEF CheckQueue, AddEntry, RecordQueued, Fail
<1>4. trips' = trips
  BY DEF CheckQueue, AddEntry, RecordQueued, Fail
<1>5. slot'[r] = slot[r] /\ \A i \in Slots \ {j} : slot'[i] = slot[i]
  BY <1>1, <1>3 DEF Goto
<1>6. slot'[j].op \in {"autoAdd", "none"}
  BY <1>1, <1>2, <1>3 DEF Goto, Idle, Frame
<1>7. JobsQueue'
  BY <1>5, <1>6 DEF OrderInv, JobsQueue, Slots
<1> QED
  BY <1>4, <1>5, <1>7, OrderKept DEF OrderInv

LEMMA OrderStep ==
  ASSUME IInv, OrderInv, NEW r, Requests = {r}, [Next]_vars
  PROVE  OrderInv' /\ PhaseStep
<1>1. ASSUME NEW q \in Requests, Call(q)
      PROVE  OrderInv' /\ PhaseStep
  BY <1>1, OrderCall
<1>2. ASSUME NEW s \in Slots, Continue(s)
      PROVE  OrderInv' /\ PhaseStep
  <2>1. CASE s = r
    BY <1>2, <2>1, OrderContinue
  <2>2. CASE s # r
    <3>1. s \in Trips
      BY <2>2 DEF Slots
    <3>2. slot[s].pc \in QueueSteps \cup {"idle"}
      BY <3>1, JobSteps DEF OrderInv
    <3>3. CheckQueue(s) \/ AddEntry(s) \/ RecordQueued(s)
      BY <1>2, <3>2 DEF Continue, InsertTrip, InsertEvent, UpdateVehicle,
           UpdateDestination, SelectEntry, DeactivateEntry, RecordService,
           UpdatePhase, ReadForComplete, FinishTrip, FreeVehicle
    <3> QED
      BY <3>1, <3>3, OrderJob
  <2> QED
    BY <2>1, <2>2
<1>3. ASSUME NEW s \in Slots, Fail(s)
      PROVE  OrderInv' /\ PhaseStep
  <2>1. CASE s = r
    <3>1. Goto(r, AfterFailure(slot[r])) /\ trips' = trips
      BY <1>3, <2>1 DEF Fail
    <3>2. \/ AfterFailure(slot[r]) = "idle"
          \/ AfterFailure(slot[r]) = "phase" /\ slot[r].pc \notin Completing
      BY DEF AfterFailure, Completing
    <3> QED
      BY <3>1, <3>2, OrderGoto DEF Completing
  <2>2. CASE s # r
    BY <1>3, <2>2, OrderJob DEF Slots
  <2> QED
    BY <2>1, <2>2
<1>4. CASE Crash
  BY <1>4, OrderKept
     DEF Crash, Serial, JobsQueue, Idle, TripAction, Slots
<1>5. CASE Midnight
  BY <1>5, OrderKept DEF Midnight, OrderInv, JobsQueue
<1>6. CASE UNCHANGED vars
  BY <1>6, OrderKept DEF vars, OrderInv, JobsQueue
<1> QED
  BY <1>1, <1>2, <1>3, <1>4, <1>5, <1>6 DEF Next

LEMMA OrderInitially == Init => OrderInv
  BY DEF Init, OrderInv, JobsQueue, Serial, OneOngoingTrip, Idle, TripAction,
         Slots

(* With one request at a time, whatever its endpoint and wherever it fails *)
(* or the process dies, a vehicle has one ongoing trip at most.            *)
THEOREM OneTripAtATime ==
  ASSUME OneRequest
  PROVE  Spec => []OneOngoingTrip
<1>1. IInv /\ OrderInv /\ [Next]_vars => OrderInv'
  BY OrderStep DEF OneRequest
<1>2. OrderInv => OneOngoingTrip
  BY DEF OrderInv
<1> QED
  BY <1>1, <1>2, Initially, Inductive, OrderInitially, PTL DEF Spec

(* With one request at a time a trip moves through its phases one by one,  *)
(* and never back.                                                         *)
THEOREM OnePhaseAtATime ==
  ASSUME OneRequest
  PROVE  Spec => PhasesInOrder
<1>1. IInv /\ OrderInv /\ [Next]_vars => OrderInv' /\ PhaseStep
  BY OrderStep DEF OneRequest
<1>2. PhaseStep =>
        [\A t \in DOMAIN trips :
           trips'[t].phase \in {trips[t].phase, NextPhase(trips[t].phase)}]_trips
  BY DEF PhaseStep
<1> QED
  BY <1>1, <1>2, Initially, Inductive, OrderInitially, PTL
     DEF Spec, PhasesInOrder
-----------------------------------------------------------------------------
(* What an action of a trip is there for: the event it records, the phase  *)
(* it writes, the center of its event.                                     *)
EventOf(op) ==
  CASE op = "createTrip"        -> "ARRIVED"
    [] op = "endLoading"        -> "LOADING_ENDED"
    [] op = "setDestination"    -> "READY_TO_EXIT"
    [] op = "exitOrigin"        -> "EXITED"
    [] op = "arriveDestination" -> "ARRIVED_DESTINATION"
    [] op = "endUnloading"      -> "UNLOADING_ENDED"
    [] OTHER                    -> NoEvent

NextOf(op) ==
  CASE op = "startLoading"      -> "AT_ORIGIN_LOADING"
    [] op = "endLoading"        -> "AT_ORIGIN_LOADING_ENDED"
    [] op = "setDestination"    -> "READY_TO_EXIT"
    [] op = "exitOrigin"        -> "IN_TRANSIT"
    [] op = "arriveDestination" -> "AT_DESTINATION_ARRIVED"
    [] op = "startUnloading"    -> "AT_DESTINATION_UNLOADING"
    [] op = "endUnloading"      -> "AT_DESTINATION_UNLOADING_ENDED"
    [] op = "completeTrip"      -> "COMPLETED"
    [] OTHER                    -> NoPhase

CenterOf(op, trip) ==
  CASE op \in {"createTrip", "endLoading", "setDestination", "exitOrigin"} ->
         trip.origin
    [] op \in {"arriveDestination", "endUnloading"} -> trip.destination
    [] OTHER -> NoCenter

(* The statements with which startLoading and startUnloading end, the      *)
(* vehicle being out of its queue.                                         *)
Served(f, t) == f.trip = t /\ f.pc \in {"serviceEvent", "phase"}

(* The trip is inserted and its job not yet started.                       *)
Created(f, t) == f.trip = t /\ f.op = "createTrip"

(* The vehicle is updated, the phase of its trip is not.                   *)
Late(f, t) ==
  f.trip = t /\ f.pc \in {"check", "insertEntry", "queuedEvent", "phase"}

(* The job of a trip has yet to insert its queue row.                      *)
Unqueued(j) == j.pc \in {"check", "insertEntry"}

(* What VehicleTracksTrip says of the vehicle of a trip in a phase.        *)
Tracks(phase, trip, row) ==
  CASE phase = "AT_ORIGIN_ARRIVED" ->
         row = [status |-> "WAITING_IN_QUEUE", center |-> trip.origin]
    [] phase \in {"AT_ORIGIN_LOADING_ENDED", "READY_TO_EXIT"} ->
         row = [status |-> "AVAILABLE", center |-> trip.origin]
    [] phase = "IN_TRANSIT" ->
         row = [status |-> "IN_TRANSIT", center |-> NoCenter]
    [] phase = "AT_DESTINATION_ARRIVED" ->
         row = [status |-> "WAITING_IN_QUEUE", center |-> trip.destination]
    [] phase = "AT_DESTINATION_UNLOADING_ENDED" ->
         row = [status |-> "AVAILABLE", center |-> trip.destination]
    [] OTHER -> TRUE

(* The rows of en in which trip t waits.                                   *)
Waiting(t, en) == {e \in DOMAIN en : en[e].active /\ en[e].trip = t}

(* Trip t, with row trip, waits in no queue, or once in queue q.           *)
Waits(t, q, trip, en) ==
  IF q = NoQueue THEN Waiting(t, en) = {}
  ELSE \E e \in DOMAIN en :
         /\ Waiting(t, en) = {e}
         /\ en[e].vehicle = trip.vehicle
         /\ en[e].type = q
         /\ en[e].center = IF q = "LOADING" THEN trip.origin
                           ELSE trip.destination

(* arriveDestination has its queue row and not yet its phase.              *)
Arrived(f, t) ==
  /\ f.trip = t /\ f.op = "arriveDestination"
  /\ f.pc \in {"queuedEvent", "phase"}

(* The queue in which trip t should be waiting, f being the frame of the   *)
(* request and j that of its background job.                               *)
Place(t, f, j, phase) ==
  CASE phase = "AT_ORIGIN_ARRIVED" ->
         IF Created(f, t) \/ Served(f, t) \/ Unqueued(j)
         THEN NoQueue ELSE "LOADING"
    [] phase = "IN_TRANSIT" ->
         IF Arrived(f, t) THEN "UNLOADING" ELSE NoQueue
    [] phase = "AT_DESTINATION_ARRIVED" ->
         IF Served(f, t) THEN NoQueue ELSE "UNLOADING"
    [] OTHER -> NoQueue

(* The frame f of the only request: what it read is still so in the tables *)
(* tr (trips) and en (center_queues).                                      *)
RequestHolds(f, tr, en) ==
  /\ f.op \in {"none", "createTrip"} \cup TripAction
  /\ f.op = "createTrip" =>
       /\ f.pc \in {"insertTrip", "event", "vehicle"}
       /\ f.pc = "insertTrip" <=> f.trip = NoTrip
  /\ f.op \in TripAction => f.next = NextOf(f.op)
  /\ f.trip # NoTrip =>
       /\ f.vehicle = tr[f.trip].vehicle
       /\ f.event = EventOf(f.op)
       /\ f.center = CenterOf(f.op, tr[f.trip])
       /\ f.pc # "completeVehicle" => tr[f.trip].status = "ONGOING"
  /\ f.op = "startLoading" => f.queue = "LOADING"
  /\ f.op \in {"startUnloading", "arriveDestination"} => f.queue = "UNLOADING"
  /\ f.pc = "completeVehicle" =>
       \A t \in DOMAIN tr : tr[t].vehicle = f.vehicle => tr[t].status # "ONGOING"
  /\ f.pc = "destination" => f.op = "setDestination"
  /\ f.pc = "deactivate" => f.entry \in Waiting(f.trip, en)
  /\ f.pc = "serviceEvent" => en[f.entry].trip = f.trip

(* The frame j of the background job of trip t.                            *)
JobHolds(t, j, tr) ==
  \/ j = Idle
  \/ /\ t \in DOMAIN tr
     /\ j.op = "autoAdd" /\ j.trip = t /\ j.queue = "LOADING"
     /\ j.vehicle = tr[t].vehicle /\ j.center = tr[t].origin

(* A trip between two statements of the request f and of its job j: its    *)
(* row is trip, that of its vehicle row, its events ev.                    *)
TripHolds(t, f, j, trip, row, ev, en) ==
  /\ trip.status = "COMPLETED" <=> trip.phase = "COMPLETED"
  /\ Waits(t, Place(t, f, j, trip.phase), trip, en)
  /\ trip.status = "ONGOING" /\ ~ Created(f, t) =>
       Tracks(IF Late(f, t) THEN f.next ELSE trip.phase, trip, row)
  /\ trip.phase # "AT_ORIGIN_ARRIVED" \/ (f.trip = t /\ f.pc = "phase") =>
       "SERVICE_STARTED" \in ev
  /\ Unqueued(j) => trip.phase = "AT_ORIGIN_ARRIVED" /\ ~ Served(f, t)
  /\ Created(f, t) => trip.phase = "AT_ORIGIN_ARRIVED" /\ j = Idle

FlowInv ==
  /\ \A e \in DOMAIN entries : entries[e].trip \in DOMAIN trips
  /\ \A t \in Trips : JobHolds(t, slot[t], trips)
  /\ \A r \in Requests :
       /\ RequestHolds(slot[r], trips, entries)
       /\ \A t \in DOMAIN trips :
            TripHolds(t, slot[r], slot[t], trips[t],
                      vehicles[trips[t].vehicle], events[t], entries)

(* Frames f and g look the same to trip t.                                 *)
Similar(f, g, t) ==
  /\ Created(g, t) = Created(f, t)
  /\ Served(g, t) = Served(f, t)
  /\ Arrived(g, t) = Arrived(f, t)
  /\ Late(g, t) = Late(f, t)
  /\ Late(f, t) => g.next = f.next
  /\ g.trip = t /\ g.pc = "phase" => f.trip = t /\ f.pc = "phase"

(* A step leaves the queue rows of trip t alone.                           *)
SameRows(t, en, en2) ==
  /\ Waiting(t, en2) = Waiting(t, en)
  /\ \A e \in Waiting(t, en) : en2[e] = en[e]

(* What holds of a trip still does after a step that leaves it alone.      *)
LEMMA TripKept ==
  ASSUME NEW t, NEW f, NEW g, NEW j, NEW k, NEW trip, NEW row, NEW row2,
         NEW ev, NEW ev2, NEW en, NEW en2,
         TripHolds(t, f, j, trip, row, ev, en), Similar(f, g, t),
         Unqueued(k) = Unqueued(j), Created(f, t) => k = j,
         row2 = row \/ trip.status # "ONGOING", ev \subseteq ev2,
         SameRows(t, en, en2)
  PROVE  TripHolds(t, g, k, trip, row2, ev2, en2)
<1>1. Place(t, g, k, trip.phase) = Place(t, f, j, trip.phase)
  BY DEF Place, Similar
<1>2. ASSUME NEW q, Waits(t, q, trip, en)
      PROVE  Waits(t, q, trip, en2)
  <2>1. CASE q = NoQueue
    BY <1>2, <2>1 DEF Waits, SameRows
  <2>2. CASE q # NoQueue
    <3>1. PICK e \in DOMAIN en :
            /\ Waiting(t, en) = {e}
            /\ en[e].vehicle = trip.vehicle
            /\ en[e].type = q
            /\ en[e].center = IF q = "LOADING" THEN trip.origin
                              ELSE trip.destination
      BY <1>2, <2>2 DEF Waits
    <3>2. Waiting(t, en2) = {e} /\ en2[e] = en[e]
      BY <3>1 DEF SameRows
    <3>3. e \in DOMAIN en2
      BY <3>2 DEF Waiting
    <3> QED
      BY <2>2, <3>1, <3>2, <3>3 DEF Waits
  <2> QED
    BY <2>1, <2>2
<1>3. Waits(t, Place(t, g, k, trip.phase), trip, en2)
  BY <1>1, <1>2 DEF TripHolds
<1>4. trip.status = "ONGOING" /\ ~ Created(g, t) =>
        Tracks(IF Late(g, t) THEN g.next ELSE trip.phase, trip, row2)
  BY DEF TripHolds, Similar
<1> QED
  BY <1>3, <1>4 DEF TripHolds, Similar

(* A step that concerns trip t alone: the other trips, their rows, their   *)
(* vehicles and their jobs are as before.                                  *)
LEMMA FlowStep ==
  ASSUME IInv, FlowInv, NEW r, Requests = {r}, NEW t,
         DOMAIN trips' = DOMAIN trips,
         \A u \in DOMAIN trips : u # t =>
           /\ trips'[u] = trips[u]
           /\ events[u] \subseteq events'[u]
           /\ \/ vehicles'[trips[u].vehicle] = vehicles[trips[u].vehicle]
              \/ trips[u].status # "ONGOING"
           /\ SameRows(u, entries, entries')
           /\ Similar(slot[r], slot'[r], u),
         \A u \in Trips : u # t => slot'[u] = slot[u],
         \A e \in DOMAIN entries' : entries'[e].trip \in DOMAIN trips,
         RequestHolds(slot'[r], trips', entries'),
         t \in Trips => JobHolds(t, slot'[t], trips'),
         t \in DOMAIN trips =>
           TripHolds(t, slot'[r], slot'[t], trips'[t],
                     vehicles'[trips'[t].vehicle], events'[t], entries')
  PROVE  FlowInv'
<1>1. ASSUME NEW u \in Trips
      PROVE  JobHolds(u, slot'[u], trips')
  <2>1. JobHolds(u, slot[u], trips)
    BY DEF FlowInv
  <2> QED
    BY <2>1 DEF JobHolds
<1>2. ASSUME NEW u \in DOMAIN trips
      PROVE  TripHolds(u, slot'[r], slot'[u], trips'[u],
                       vehicles'[trips'[u].vehicle], events'[u], entries')
  <2>1. CASE u # t
    <3>1. TripHolds(u, slot[r], slot[u], trips[u],
                    vehicles[trips[u].vehicle], events[u], entries)
      BY DEF FlowInv
    <3>2. slot'[u] = slot[u] /\ trips'[u] = trips[u]
      BY <2>1 DEF IInv, TypeOK
    <3> QED
      BY <2>1, <3>1, <3>2, TripKept
  <2>2. CASE u = t
    BY <2>2
  <2> QED
    BY <2>1, <2>2
<1> QED
  BY <1>1, <1>2 DEF FlowInv

(* Frames that are not at work on trip t look the same to it.              *)
LEMMA Elsewhere ==
  ASSUME NEW f, NEW g, NEW t, f.trip # t, g.trip # t
  PROVE  Similar(f, g, t)
  BY DEF Similar, Created, Served, Arrived, Late

(* Rows that do not change.                                                *)
LEMMA RowsKept ==
  ASSUME NEW t, NEW en
  PROVE  SameRows(t, en, en)
  BY DEF SameRows

(* Whether a request enters its handler or idles is nothing to a trip.     *)
LEMMA Entering ==
  ASSUME NEW f, NEW g, NEW t \in Trips,
         f.pc \notin {"serviceEvent", "queuedEvent", "phase", "check",
                      "insertEntry"},
         g.pc \notin {"serviceEvent", "queuedEvent", "phase", "check",
                      "insertEntry"},
         f.trip = t => f.op # "createTrip",
         g.trip = t => g.op # "createTrip"
  PROVE  Similar(f, g, t)
  BY DEF Similar, Created, Served, Arrived, Late

(* The slots: the request is not a job.                                    *)
LEMMA TheSlots ==
  ASSUME IInv, NEW r, Requests = {r}
  PROVE  /\ r \in Slots /\ r \notin Trips
         /\ slot \in [Slots -> Frame]
         /\ \A t \in Trips : t \in Slots
         /\ DOMAIN trips \subseteq Trips
         /\ NoTrip \notin Trips
         /\ slot[r] \in Frame
         /\ FrameHolds(slot[r], trips, events, DOMAIN entries)
  BY TripsAssumption, SlotRead DEF Slots, IInv, TypeOK

(* A request enters its handler.                                           *)
LEMMA FlowBegin ==
  ASSUME IInv, FlowInv, NEW r, Requests = {r}, NEW ep, NEW STATE frame,
         Begin(r, ep, frame), RequestHolds(frame, trips, entries),
         frame.pc \in {"insertTrip", "select", "event", "complete"},
         frame.op = "createTrip" => frame.trip = NoTrip
  PROVE  FlowInv'
<1>1. slot'[r] = frame /\ \A u \in Trips : slot'[u] = slot[u]
  BY TheSlots DEF Begin
<1>2. slot[r].pc = "idle" /\ slot[r].op = "none"
  <2>1. slot[r].pc = "idle"
    BY DEF Begin
  <2>2. slot[r].pc \in Statements(slot[r].op) /\ slot[r] \in Frame
    BY TheSlots DEF FrameHolds
  <2> QED
    BY <2>1, <2>2 DEF Frame, Endpoint, TripAction, Statements
<1>3. \A u \in DOMAIN trips : Similar(slot[r], slot'[r], u)
  BY <1>1, <1>2, TheSlots, Entering
<1>4. \A u \in DOMAIN trips : SameRows(u, entries, entries')
  BY RowsKept DEF Begin
<1>5. \A e \in DOMAIN entries : entries[e].trip \in DOMAIN trips
  BY DEF FlowInv
<1>6. NoTrip \notin Trips /\ NoTrip \notin DOMAIN trips
  BY TheSlots
<1> QED
  BY <1>1, <1>3, <1>4, <1>5, <1>6, FlowStep DEF Begin

(* The phase an action of a trip was allowed in, and what it will write.   *)
LEMMA ActionPhase ==
  ASSUME IInv, OrderInv, FlowInv, NEW r, Requests = {r},
         slot[r].op \in TripAction, slot[r].pc \notin Completing
  PROVE  LET f == slot[r]
             phase == trips[f.trip].phase
         IN
         /\ f.op = "startLoading"   => phase = "AT_ORIGIN_ARRIVED"
         /\ f.op = "endLoading"     => phase = "AT_ORIGIN_LOADING"
         /\ f.op = "setDestination" => phase = "AT_ORIGIN_LOADING_ENDED"
         /\ f.op = "exitOrigin"     => phase = "READY_TO_EXIT"
         /\ f.op = "arriveDestination" => phase = "IN_TRANSIT"
         /\ f.op = "startUnloading" => phase = "AT_DESTINATION_ARRIVED"
         /\ f.op = "endUnloading"   => phase = "AT_DESTINATION_UNLOADING"
         /\ f.op # "completeTrip"
<1>1. slot[r].next = NextOf(slot[r].op)
  BY DEF FlowInv, RequestHolds
<1>2. slot[r].next = NextPhase(trips[slot[r].trip].phase)
  BY DEF OrderInv, Serial
<1>3. slot[r].op # "completeTrip"
  <2>1. slot[r].pc \in Statements(slot[r].op)
    BY TheSlots DEF FrameHolds
  <2> QED
    BY <2>1 DEF Statements, Completing
<1> QED
  BY <1>1, <1>2, <1>3 DEF NextOf, NextPhase

(* What the request at a statement knows of its trip.                      *)
LEMMA AtWork ==
  ASSUME IInv, FlowInv, NEW r, Requests = {r},
         slot[r].pc \notin {"idle", "insertTrip"}
  PROVE  LET f == slot[r]
             t == f.trip
         IN
         /\ f.op \in {"createTrip"} \cup TripAction
         /\ t \in DOMAIN trips /\ t \in Trips /\ trips[t] \in TripRow
         /\ f.vehicle = trips[t].vehicle /\ f.event = EventOf(f.op)
         /\ f.center = CenterOf(f.op, trips[t])
         /\ f.pc # "completeVehicle" => trips[t].status = "ONGOING"
         /\ TripHolds(t, f, slot[t], trips[t], vehicles[trips[t].vehicle],
                      events[t], entries)
         /\ JobHolds(t, slot[t], trips)
<1>1. RequestHolds(slot[r], trips, entries)
  BY DEF FlowInv
<1>2. slot[r].pc \in Statements(slot[r].op)
  BY TheSlots DEF FrameHolds
<1>3. slot[r].op \in {"createTrip"} \cup TripAction
  BY <1>1, <1>2 DEF RequestHolds, Statements
<1>4. slot[r].trip # NoTrip
  BY <1>1, <1>3, TheSlots DEF FrameHolds, TripAction
<1>5. slot[r].trip \in DOMAIN trips /\ slot[r].trip \in Trips
  BY <1>4, TheSlots DEF FrameHolds
<1>6. trips[slot[r].trip] \in TripRow
  BY <1>5 DEF IInv, TypeOK
<1> QED
  BY <1>1, <1>3, <1>4, <1>5, <1>6 DEF RequestHolds, FlowInv

(* Which handler is at a statement.                                        *)
LEMMA WhoseStatement ==
  ASSUME IInv, FlowInv, NEW r, Requests = {r}
  PROVE  LET f == slot[r] IN
         /\ f.pc = "event" =>
              f.op \in {"createTrip", "endLoading", "setDestination",
                        "exitOrigin", "arriveDestination", "endUnloading"}
         /\ f.pc = "vehicle" =>
              f.op \in {"createTrip", "endLoading", "exitOrigin",
                        "arriveDestination", "endUnloading"}
         /\ f.pc = "destination" => f.op = "setDestination"
         /\ f.pc \in {"check", "insertEntry", "queuedEvent"} =>
              f.op = "arriveDestination"
         /\ f.pc \in {"select", "deactivate", "serviceEvent"} =>
              f.op \in {"startLoading", "startUnloading"}
         /\ f.pc = "phase" => f.op \in TripAction \ {"completeTrip"}
         /\ f.pc = "readForComplete" => f.op = "endUnloading"
         /\ f.pc \in {"complete", "completeVehicle"} =>
              f.op \in {"endUnloading", "completeTrip"}
<1> PICK f : f = slot[r]
  OBVIOUS
<1>1. /\ f.op \in {"none", "createTrip"} \cup TripAction
      /\ f.op = "createTrip" => f.pc \in {"insertTrip", "event", "vehicle"}
      /\ f.pc = "destination" => f.op = "setDestination"
  BY DEF FlowInv, RequestHolds
<1>2. f.pc \in Statements(f.op)
  BY TheSlots DEF FrameHolds
<1>3. ASSUME f.pc = "vehicle" PROVE f.op # "setDestination"
  <2>1. f.event = EventOf(f.op)
    BY <1>3, AtWork
  <2>2. f.event # "READY_TO_EXIT"
    BY <1>3, TheSlots DEF FrameHolds
  <2> QED
    BY <2>1, <2>2 DEF EventOf
<1>4. f.op \in {"none", "createTrip", "startLoading", "endLoading",
                "setDestination", "exitOrigin", "arriveDestination",
                "startUnloading", "endUnloading", "completeTrip"}
  BY <1>1 DEF TripAction
<1>5. CASE f.op \in {"none", "createTrip", "startLoading", "startUnloading"}
  BY <1>1, <1>2, <1>5 DEF Statements, TripAction
<1>6. CASE f.op \in {"endLoading", "exitOrigin"}
  BY <1>1, <1>2, <1>6 DEF Statements, TripAction
<1>7. CASE f.op \in {"setDestination", "arriveDestination"}
  BY <1>1, <1>2, <1>3, <1>7 DEF Statements, TripAction
<1>8. CASE f.op \in {"endUnloading", "completeTrip"}
  BY <1>1, <1>2, <1>8 DEF Statements, TripAction
<1> QED
  BY <1>4, <1>5, <1>6, <1>7, <1>8

(* A trip in a phase an action requires is not completed.                  *)
LEMMA TripOpen ==
  ASSUME IInv, FlowInv, NEW r, Requests = {r}, NEW phase,
         phase # "COMPLETED", NEW t \in InPhase(phase)
  PROVE  /\ t \in DOMAIN trips /\ t \in Trips /\ t # NoTrip
         /\ trips[t] \in TripRow /\ trips[t].status = "ONGOING"
<1>1. t \in DOMAIN trips /\ trips[t].phase = phase
  BY DEF InPhase
<1>2. trips[t].status = "COMPLETED" <=> trips[t].phase = "COMPLETED"
  BY <1>1 DEF FlowInv, TripHolds
<1>3. trips[t] \in TripRow /\ t \in Trips
  BY <1>1 DEF IInv, TypeOK
<1> QED
  BY <1>1, <1>2, <1>3, TripsAssumption DEF TripRow, TripStatus

(* The calls of the actions.                                               *)
LEMMA FlowCreateTrip ==
  ASSUME IInv, FlowInv, NEW r, Requests = {r}, CreateTrip(r)
  PROVE  FlowInv'
<1> PICK v \in Vehicles :
      Begin(r, "createTrip",
        [Idle EXCEPT !.op = "createTrip", !.pc = "insertTrip", !.vehicle = v])
  BY DEF CreateTrip
<1> DEFINE frame ==
      [Idle EXCEPT !.op = "createTrip", !.pc = "insertTrip", !.vehicle = v]
<1>1. /\ frame.pc = "insertTrip" /\ frame.op = "createTrip"
      /\ frame.trip = NoTrip
  BY DEF Idle
<1> HIDE DEF frame
<1>2. RequestHolds(frame, trips, entries)
  BY <1>1 DEF RequestHolds, TripAction
<1> QED
  BY <1>1, <1>2, FlowBegin DEF frame

LEMMA FlowStartLoading ==
  ASSUME IInv, FlowInv, NEW r, Requests = {r}, StartLoading(r)
  PROVE  FlowInv'
<1> PICK t \in InPhase("AT_ORIGIN_ARRIVED") :
      Begin(r, "startLoading",
        [TripFrame(t, "startLoading", "select", "AT_ORIGIN_LOADING")
          EXCEPT !.queue = "LOADING"])
  BY DEF StartLoading
<1> DEFINE frame ==
      [TripFrame(t, "startLoading", "select", "AT_ORIGIN_LOADING")
        EXCEPT !.queue = "LOADING"]
<1>1. /\ t \in DOMAIN trips /\ t \in Trips /\ t # NoTrip
      /\ trips[t].status = "ONGOING"
  BY TripOpen
<1>2. /\ frame.op = "startLoading" /\ frame.pc = "select" /\ frame.trip = t
      /\ frame.vehicle = trips[t].vehicle
      /\ frame.next = NextOf("startLoading")
      /\ frame.event = EventOf("startLoading")
      /\ frame.center = CenterOf("startLoading", trips[t])
      /\ frame.queue = "LOADING"
  BY DEF TripFrame, Idle, NextOf, EventOf, CenterOf
<1> HIDE DEF frame
<1>3. RequestHolds(frame, trips, entries)
  BY <1>1, <1>2 DEF RequestHolds, TripAction
<1> QED
  BY <1>2, <1>3, FlowBegin DEF frame

LEMMA FlowEndLoading ==
  ASSUME IInv, FlowInv, NEW r, Requests = {r}, EndLoading(r)
  PROVE  FlowInv'
<1> PICK t \in InPhase("AT_ORIGIN_LOADING") :
      Begin(r, "endLoading",
        [TripFrame(t, "endLoading", "event", "AT_ORIGIN_LOADING_ENDED")
          EXCEPT !.event = "LOADING_ENDED", !.center = trips[t].origin])
  BY DEF EndLoading
<1> DEFINE frame ==
      [TripFrame(t, "endLoading", "event", "AT_ORIGIN_LOADING_ENDED")
        EXCEPT !.event = "LOADING_ENDED", !.center = trips[t].origin]
<1>1. /\ t \in DOMAIN trips /\ t \in Trips /\ t # NoTrip
      /\ trips[t].status = "ONGOING"
  BY TripOpen
<1>2. /\ frame.op = "endLoading" /\ frame.pc = "event" /\ frame.trip = t
      /\ frame.vehicle = trips[t].vehicle
      /\ frame.next = NextOf("endLoading")
      /\ frame.event = EventOf("endLoading")
      /\ frame.center = CenterOf("endLoading", trips[t])
  BY DEF TripFrame, Idle, NextOf, EventOf, CenterOf
<1> HIDE DEF frame
<1>3. RequestHolds(frame, trips, entries)
  BY <1>1, <1>2 DEF RequestHolds, TripAction
<1> QED
  BY <1>2, <1>3, FlowBegin DEF frame

LEMMA FlowSetDestination ==
  ASSUME IInv, FlowInv, NEW r, Requests = {r}, SetDestination(r)
  PROVE  FlowInv'
<1> PICK t \in InPhase("AT_ORIGIN_LOADING_ENDED"), d \in RequestedCenters :
      Begin(r, "setDestination",
        [TripFrame(t, "setDestination", "event", "READY_TO_EXIT")
          EXCEPT !.event = "READY_TO_EXIT", !.center = trips[t].origin,
                 !.dest = d])
  BY DEF SetDestination
<1> DEFINE frame ==
      [TripFrame(t, "setDestination", "event", "READY_TO_EXIT")
        EXCEPT !.event = "READY_TO_EXIT", !.center = trips[t].origin,
               !.dest = d]
<1>1. /\ t \in DOMAIN trips /\ t \in Trips /\ t # NoTrip
      /\ trips[t].status = "ONGOING"
  BY TripOpen
<1>2. /\ frame.op = "setDestination" /\ frame.pc = "event" /\ frame.trip = t
      /\ frame.vehicle = trips[t].vehicle
      /\ frame.next = NextOf("setDestination")
      /\ frame.event = EventOf("setDestination")
      /\ frame.center = CenterOf("setDestination", trips[t])
  BY DEF TripFrame, Idle, NextOf, EventOf, CenterOf
<1> HIDE DEF frame
<1>3. RequestHolds(frame, trips, entries)
  BY <1>1, <1>2 DEF RequestHolds, TripAction
<1> QED
  BY <1>2, <1>3, FlowBegin DEF frame

LEMMA FlowExitOrigin ==
  ASSUME IInv, FlowInv, NEW r, Requests = {r}, ExitOrigin(r)
  PROVE  FlowInv'
<1> PICK t \in InPhase("READY_TO_EXIT") :
      Begin(r, "exitOrigin",
        [TripFrame(t, "exitOrigin", "event", "IN_TRANSIT")
          EXCEPT !.event = "EXITED", !.center = trips[t].origin])
  BY DEF ExitOrigin
<1> DEFINE frame ==
      [TripFrame(t, "exitOrigin", "event", "IN_TRANSIT")
        EXCEPT !.event = "EXITED", !.center = trips[t].origin]
<1>1. /\ t \in DOMAIN trips /\ t \in Trips /\ t # NoTrip
      /\ trips[t].status = "ONGOING"
  BY TripOpen
<1>2. /\ frame.op = "exitOrigin" /\ frame.pc = "event" /\ frame.trip = t
      /\ frame.vehicle = trips[t].vehicle
      /\ frame.next = NextOf("exitOrigin")
      /\ frame.event = EventOf("exitOrigin")
      /\ frame.center = CenterOf("exitOrigin", trips[t])
  BY DEF TripFrame, Idle, NextOf, EventOf, CenterOf
<1> HIDE DEF frame
<1>3. RequestHolds(frame, trips, entries)
  BY <1>1, <1>2 DEF RequestHolds, TripAction
<1> QED
  BY <1>2, <1>3, FlowBegin DEF frame

LEMMA FlowArriveDestination ==
  ASSUME IInv, FlowInv, NEW r, Requests = {r}, ArriveDestination(r)
  PROVE  FlowInv'
<1> PICK t \in InPhase("IN_TRANSIT") :
      Begin(r, "arriveDestination",
        [TripFrame(t, "arriveDestination", "event", "AT_DESTINATION_ARRIVED")
          EXCEPT !.event = "ARRIVED_DESTINATION",
                 !.center = trips[t].destination, !.queue = "UNLOADING"])
  BY DEF ArriveDestination
<1> DEFINE frame ==
      [TripFrame(t, "arriveDestination", "event", "AT_DESTINATION_ARRIVED")
        EXCEPT !.event = "ARRIVED_DESTINATION",
               !.center = trips[t].destination, !.queue = "UNLOADING"]
<1>1. /\ t \in DOMAIN trips /\ t \in Trips /\ t # NoTrip
      /\ trips[t].status = "ONGOING"
  BY TripOpen
<1>2. /\ frame.op = "arriveDestination" /\ frame.pc = "event" /\ frame.trip = t
      /\ frame.vehicle = trips[t].vehicle
      /\ frame.next = NextOf("arriveDestination")
      /\ frame.event = EventOf("arriveDestination")
      /\ frame.center = CenterOf("arriveDestination", trips[t])
      /\ frame.queue = "UNLOADING"
  BY DEF TripFrame, Idle, NextOf, EventOf, CenterOf
<1> HIDE DEF frame
<1>3. RequestHolds(frame, trips, entries)
  BY <1>1, <1>2 DEF RequestHolds, TripAction
<1> QED
  BY <1>2, <1>3, FlowBegin DEF frame

LEMMA FlowStartUnloading ==
  ASSUME IInv, FlowInv, NEW r, Requests = {r}, StartUnloading(r)
  PROVE  FlowInv'
<1> PICK t \in InPhase("AT_DESTINATION_ARRIVED") :
      Begin(r, "startUnloading",
        [TripFrame(t, "startUnloading", "select", "AT_DESTINATION_UNLOADING")
          EXCEPT !.queue = "UNLOADING"])
  BY DEF StartUnloading
<1> DEFINE frame ==
      [TripFrame(t, "startUnloading", "select", "AT_DESTINATION_UNLOADING")
        EXCEPT !.queue = "UNLOADING"]
<1>1. /\ t \in DOMAIN trips /\ t \in Trips /\ t # NoTrip
      /\ trips[t].status = "ONGOING"
  BY TripOpen
<1>2. /\ frame.op = "startUnloading" /\ frame.pc = "select" /\ frame.trip = t
      /\ frame.vehicle = trips[t].vehicle
      /\ frame.next = NextOf("startUnloading")
      /\ frame.event = EventOf("startUnloading")
      /\ frame.center = CenterOf("startUnloading", trips[t])
      /\ frame.queue = "UNLOADING"
  BY DEF TripFrame, Idle, NextOf, EventOf, CenterOf
<1> HIDE DEF frame
<1>3. RequestHolds(frame, trips, entries)
  BY <1>1, <1>2 DEF RequestHolds, TripAction
<1> QED
  BY <1>2, <1>3, FlowBegin DEF frame

LEMMA FlowEndUnloading ==
  ASSUME IInv, FlowInv, NEW r, Requests = {r}, EndUnloading(r)
  PROVE  FlowInv'
<1> PICK t \in InPhase("AT_DESTINATION_UNLOADING") :
      Begin(r, "endUnloading",
        [TripFrame(t, "endUnloading", "event", "AT_DESTINATION_UNLOADING_ENDED")
          EXCEPT !.event = "UNLOADING_ENDED",
                 !.center = trips[t].destination])
  BY DEF EndUnloading
<1> DEFINE frame ==
      [TripFrame(t, "endUnloading", "event", "AT_DESTINATION_UNLOADING_ENDED")
        EXCEPT !.event = "UNLOADING_ENDED",
               !.center = trips[t].destination]
<1>1. /\ t \in DOMAIN trips /\ t \in Trips /\ t # NoTrip
      /\ trips[t].status = "ONGOING"
  BY TripOpen
<1>2. /\ frame.op = "endUnloading" /\ frame.pc = "event" /\ frame.trip = t
      /\ frame.vehicle = trips[t].vehicle
      /\ frame.next = NextOf("endUnloading")
      /\ frame.event = EventOf("endUnloading")
      /\ frame.center = CenterOf("endUnloading", trips[t])
  BY DEF TripFrame, Idle, NextOf, EventOf, CenterOf
<1> HIDE DEF frame
<1>3. RequestHolds(frame, trips, entries)
  BY <1>1, <1>2 DEF RequestHolds, TripAction
<1> QED
  BY <1>2, <1>3, FlowBegin DEF frame

LEMMA FlowCompleteTrip ==
  ASSUME IInv, FlowInv, NEW r, Requests = {r}, CompleteTrip(r)
  PROVE  FlowInv'
<1> PICK t \in InPhase("AT_DESTINATION_UNLOADING_ENDED") :
      Begin(r, "completeTrip",
        TripFrame(t, "completeTrip", "complete", "COMPLETED"))
  BY DEF CompleteTrip
<1> DEFINE frame ==
      TripFrame(t, "completeTrip", "complete", "COMPLETED")
<1>1. /\ t \in DOMAIN trips /\ t \in Trips /\ t # NoTrip
      /\ trips[t].status = "ONGOING"
  BY TripOpen
<1>2. /\ frame.op = "completeTrip" /\ frame.pc = "complete" /\ frame.trip = t
      /\ frame.vehicle = trips[t].vehicle
      /\ frame.next = NextOf("completeTrip")
      /\ frame.event = EventOf("completeTrip")
      /\ frame.center = CenterOf("completeTrip", trips[t])
  BY DEF TripFrame, Idle, NextOf, EventOf, CenterOf
<1> HIDE DEF frame
<1>3. RequestHolds(frame, trips, entries)
  BY <1>1, <1>2 DEF RequestHolds, TripAction
<1> QED
  BY <1>2, <1>3, FlowBegin DEF frame
-----------------------------------------------------------------------------
(* Frames f and g differ at most in their statement.                       *)
SameLocals(f, g) ==
  /\ g.op = f.op /\ g.trip = f.trip /\ g.vehicle = f.vehicle
  /\ g.event = f.event /\ g.center = f.center /\ g.dest = f.dest
  /\ g.queue = f.queue /\ g.entry = f.entry /\ g.next = f.next

(* Where Goto takes the request.                                           *)
LEMMA FlowGoto ==
  ASSUME IInv, NEW r, Requests = {r}, NEW STATE pc, Goto(r, pc)
  PROVE  /\ \A u \in Trips : slot'[u] = slot[u]
         /\ pc = "idle" => slot'[r] = Idle
         /\ pc # "idle" => slot'[r].pc = pc /\ SameLocals(slot[r], slot'[r])
<1>1. slot[r] \in Frame /\ slot \in [Slots -> Frame] /\ r \in Slots
      /\ \A u \in Trips : u \in Slots /\ u # r
  BY TheSlots
<1>2. slot'[r] = IF pc = "idle" THEN Idle ELSE [slot[r] EXCEPT !.pc = pc]
  BY <1>1 DEF Goto
<1>3. \A u \in Trips : slot'[u] = slot[u]
  BY <1>1 DEF Goto
<1> QED
  BY <1>1, <1>2, <1>3 DEF SameLocals, Frame

(* The other trips see nothing of the frame.                               *)
LEMMA OthersSimilar ==
  ASSUME IInv, NEW r, Requests = {r}, NEW g,
         g = Idle \/ SameLocals(slot[r], g)
  PROVE  \A u \in DOMAIN trips : u # slot[r].trip => Similar(slot[r], g, u)
<1>1. \A u \in DOMAIN trips : u # NoTrip
  BY TheSlots
<1>2. g.trip \in {NoTrip, slot[r].trip}
  BY DEF Idle, SameLocals
<1> QED
  BY <1>1, <1>2, Elsewhere

(* An idle request relies on nothing; one that goes on, on what it did.    *)
LEMMA RequestIdle ==
  ASSUME NEW tr, NEW en
  PROVE  RequestHolds(Idle, tr, en)
  BY DEF RequestHolds, Idle, TripAction

LEMMA RequestMoved ==
  ASSUME NEW f, NEW g, NEW tr, NEW en, NEW en2, RequestHolds(f, tr, en),
         SameLocals(f, g), f.pc # "completeVehicle", f.trip # NoTrip,
         g.pc \notin {"insertTrip", "completeVehicle", "deactivate"},
         f.op = "createTrip" => g.pc \in {"event", "vehicle"},
         g.pc = "destination" => f.op = "setDestination",
         g.pc = "serviceEvent" => en2[f.entry].trip = f.trip
  PROVE  RequestHolds(g, tr, en2)
  BY DEF RequestHolds, SameLocals

(* A vehicle that waits does so for its ongoing trip.                      *)
LEMMA WaitsForOngoing ==
  ASSUME IInv, OrderInv, FlowInv, NEW r, Requests = {r},
         NEW t \in DOMAIN trips, trips[t].status = "ONGOING",
         NEW e \in DOMAIN entries, entries[e].active,
         entries[e].vehicle = trips[t].vehicle
  PROVE  e \in Waiting(t, entries)
<1> PICK u : u = entries[e].trip
  OBVIOUS
<1>1. u \in DOMAIN trips /\ e \in Waiting(u, entries)
  BY DEF FlowInv, Waiting
<1>2. TripHolds(u, slot[r], slot[u], trips[u], vehicles[trips[u].vehicle],
                events[u], entries)
  BY <1>1 DEF FlowInv
<1> PICK q : q = Place(u, slot[r], slot[u], trips[u].phase)
  OBVIOUS
<1>3. q # NoQueue /\ entries[e].vehicle = trips[u].vehicle
  BY <1>1, <1>2 DEF TripHolds, Waits
<1>4. trips[u].phase # "COMPLETED"
  BY <1>3 DEF Place
<1>5. trips[u].status = "ONGOING"
  BY <1>1, <1>2, <1>4 DEF TripHolds, IInv, TypeOK, TripRow, TripStatus
<1>6. u = t
  BY <1>1, <1>3, <1>5 DEF OrderInv, OneOngoingTrip
<1> QED
  BY <1>1, <1>6

(* The vehicle of an ongoing trip is no other ongoing trip's.              *)
LEMMA OwnVehicle ==
  ASSUME OrderInv, NEW t \in DOMAIN trips, trips[t].status = "ONGOING",
         NEW u \in DOMAIN trips, u # t, trips[u].status = "ONGOING"
  PROVE  trips[u].vehicle # trips[t].vehicle
  BY DEF OrderInv, OneOngoingTrip

(* The INSERT of a trip.                                                   *)
LEMMA FlowInsertTrip ==
  ASSUME IInv, OrderInv, FlowInv, NEW r, Requests = {r}, InsertTrip(r)
  PROVE  FlowInv'
<1> PICK f : f = slot[r]
  OBVIOUS
<1> PICK t : t = FreshId(Trips, trips)
  OBVIOUS
<1> PICK c \in Centers, p \in TripPurpose,
         d \in (RequestedCenters \cap Centers) \cup {NoCenter} :
      /\ trips' = InsertRow(trips, t,
                    [vehicle |-> slot[r].vehicle, origin |-> c,
                     destination |-> d, purpose |-> p,
                     status |-> "ONGOING", phase |-> "AT_ORIGIN_ARRIVED"])
      /\ slot' = [slot EXCEPT ![r] =
                    [slot[r] EXCEPT !.pc = "event", !.trip = t,
                                    !.event = "ARRIVED", !.center = c]]
  BY DEF InsertTrip
<1> PICK g : g = slot'[r]
  OBVIOUS
<1>1. r \in Slots /\ r \notin Trips /\ slot \in [Slots -> Frame] /\ f \in Frame
  BY TheSlots
<1>2. /\ f.pc = "insertTrip" /\ f.op = "createTrip" /\ f.trip = NoTrip
      /\ f.next = NoPhase
  <2>1. f.pc = "insertTrip" /\ f.op = "createTrip"
    BY <1>1, SlotHandler DEF InsertTrip
  <2>2. f.trip = NoTrip
    BY <2>1 DEF FlowInv, RequestHolds
  <2>3. f.next = NoPhase
    BY <2>1, TheSlots DEF FrameHolds, TripAction
  <2> QED
    BY <2>1, <2>2, <2>3
<1>3. t \in Trips \ DOMAIN trips /\ t # NoTrip
  BY FreshIdIsFresh, TripsAssumption DEF InsertTrip
<1>4. /\ g.op = "createTrip" /\ g.pc = "event" /\ g.trip = t
      /\ g.event = "ARRIVED" /\ g.center = c /\ g.vehicle = f.vehicle
  BY <1>1, <1>2 DEF Frame
<1>5. \A u \in Trips : slot'[u] = slot[u]
  BY <1>1
<1>6. /\ DOMAIN trips' = DOMAIN trips \cup {t}
      /\ \A u \in DOMAIN trips : trips'[u] = trips[u]
      /\ trips'[t] = [vehicle |-> f.vehicle, origin |-> c,
                      destination |-> d, purpose |-> p,
                      status |-> "ONGOING", phase |-> "AT_ORIGIN_ARRIVED"]
  BY <1>3 DEF InsertRow
<1>7. /\ entries' = entries /\ events' = events /\ vehicles' = vehicles
  BY DEF InsertTrip
<1>8. \A e \in DOMAIN entries : entries[e].trip \in DOMAIN trips
  BY DEF FlowInv
<1>9. ASSUME NEW u \in Trips
      PROVE  JobHolds(u, slot'[u], trips')
  <2>1. JobHolds(u, slot[u], trips)
    BY DEF FlowInv
  <2> QED
    BY <1>5, <1>6, <2>1 DEF JobHolds
<1>10. RequestHolds(g, trips', entries)
  BY <1>3, <1>4, <1>6 DEF RequestHolds, TripAction, EventOf, CenterOf
<1>11. ASSUME NEW u \in DOMAIN trips
       PROVE  TripHolds(u, g, slot'[u], trips'[u],
                        vehicles'[trips'[u].vehicle], events'[u], entries')
  <2>1. u \in Trips /\ u # t /\ u # NoTrip
    BY <1>3, TheSlots
  <2>2. Similar(f, g, u)
    BY <1>2, <1>4, <2>1, Elsewhere
  <2>3. TripHolds(u, f, slot[u], trips[u], vehicles[trips[u].vehicle],
                  events[u], entries)
    BY DEF FlowInv
  <2>4. TripHolds(u, g, slot[u], trips[u], vehicles[trips[u].vehicle],
                  events[u], entries)
    BY <2>2, <2>3, TripKept, RowsKept
  <2> QED
    BY <1>5, <1>6, <1>7, <2>1, <2>4
<1>12. TripHolds(t, g, slot'[t], trips'[t], vehicles'[trips'[t].vehicle],
                 events'[t], entries')
  <2>1. slot'[t] = Idle
    BY <1>3, <1>5 DEF FlowInv, JobHolds
  <2>2. Waiting(t, entries) = {}
    BY <1>3, <1>8 DEF Waiting
  <2>3. Created(g, t)
    BY <1>4 DEF Created
  <2>4. Waits(t, Place(t, g, Idle, "AT_ORIGIN_ARRIVED"), trips'[t], entries)
    BY <2>2, <2>3 DEF Place, Waits
  <2>5. trips'[t].phase = "AT_ORIGIN_ARRIVED" /\ trips'[t].status = "ONGOING"
    BY <1>6
  <2> QED
    BY <1>4, <1>7, <2>1, <2>3, <2>4, <2>5 DEF TripHolds, Idle, Unqueued
<1> QED
  BY <1>6, <1>7, <1>8, <1>9, <1>10, <1>11, <1>12 DEF FlowInv

(* A frame about to write a phase in which the trip waits in no queue.     *)
LEMMA ReadyToWrite ==
  ASSUME NEW t, NEW f, NEW g, NEW j, NEW trip, NEW trip2, NEW row, NEW row2,
         NEW ev, NEW ev2, NEW en,
         TripHolds(t, f, j, trip, row, ev, en), ev \subseteq ev2,
         trip2.phase = trip.phase, trip2.status = trip.status,
         g.trip = t, g.pc = "phase", g.op # "createTrip",
         trip.phase \notin {"AT_ORIGIN_ARRIVED", "IN_TRANSIT",
                            "AT_DESTINATION_ARRIVED"},
         Tracks(g.next, trip2, row2)
  PROVE  TripHolds(t, g, j, trip2, row2, ev2, en)
<1>1. /\ Place(t, f, j, trip.phase) = NoQueue
      /\ Place(t, g, j, trip2.phase) = NoQueue
  BY DEF Place
<1>2. Waits(t, Place(t, g, j, trip2.phase), trip2, en)
  BY <1>1 DEF TripHolds, Waits
<1>3. ~ Created(g, t) /\ Late(g, t) /\ ~ Unqueued(j)
  BY DEF Created, Late, TripHolds
<1> QED
  BY <1>2, <1>3 DEF TripHolds
-----------------------------------------------------------------------------
(* The event is recorded before anything else.                             *)
LEMMA FlowInsertEvent ==
  ASSUME IInv, OrderInv, FlowInv, NEW r, Requests = {r}, InsertEvent(r)
  PROVE  FlowInv'
<1> PICK f : f = slot[r]
  OBVIOUS
<1> PICK t : t = f.trip
  OBVIOUS
<1> PICK pc : pc = IF slot[r].event # "READY_TO_EXIT" THEN "vehicle"
                   ELSE IF KnownCenter(slot[r].dest) THEN "destination"
                   ELSE AfterTripEvent(slot[r])
  OBVIOUS
<1> PICK g : g = slot'[r]
  OBVIOUS
<1>1. /\ f.pc = "event"
      /\ f.op \in {"createTrip", "endLoading", "setDestination", "exitOrigin",
                   "arriveDestination", "endUnloading"}
  BY WhoseStatement DEF InsertEvent
<1>2. /\ t \in DOMAIN trips /\ t \in Trips /\ t # NoTrip
      /\ f.event = EventOf(f.op)
      /\ TripHolds(t, f, slot[t], trips[t], vehicles[trips[t].vehicle],
                   events[t], entries)
      /\ JobHolds(t, slot[t], trips)
  BY <1>1, AtWork, TheSlots
<1>3. RequestHolds(f, trips, entries)
  BY DEF FlowInv
<1>4. \/ f.op # "setDestination" /\ pc = "vehicle"
      \/ f.op = "setDestination" /\ pc \in {"destination", "phase"}
  BY <1>1, <1>2 DEF EventOf, AfterTripEvent
<1>5. /\ g.pc = pc /\ SameLocals(f, g)
      /\ \A u \in Trips : slot'[u] = slot[u]
  BY <1>4, FlowGoto DEF InsertEvent
<1>6. /\ trips' = trips /\ entries' = entries /\ vehicles' = vehicles
      /\ \A u \in DOMAIN trips : events[u] \subseteq events'[u]
  <2>1. events' = [events EXCEPT ![t] = @ \cup {f.event}]
    BY DEF InsertEvent
  <2> QED
    BY <2>1, TheSlots DEF InsertEvent, IInv, TypeOK
<1>7. RequestHolds(g, trips, entries)
  BY <1>1, <1>2, <1>3, <1>4, <1>5, RequestMoved
<1>8. TripHolds(t, g, slot[t], trips[t], vehicles[trips[t].vehicle],
                events'[t], entries)
  <2>1. CASE pc = "phase"
    <3>1. f.op = "setDestination" /\ f.next = "READY_TO_EXIT"
      BY <1>3, <1>4, <2>1 DEF RequestHolds, NextOf, TripAction
    <3>2. trips[t].phase = "AT_ORIGIN_LOADING_ENDED"
      BY <1>1, <3>1, ActionPhase DEF TripAction, Completing
    <3>3. trips[t].status = "ONGOING"
      BY <1>1, AtWork
    <3>4. ~ Created(f, t) /\ ~ Late(f, t)
      BY <1>1, <3>1 DEF Created, Late
    <3>5. Tracks("READY_TO_EXIT", trips[t], vehicles[trips[t].vehicle])
      BY <1>2, <3>2, <3>3, <3>4 DEF TripHolds, Tracks
    <3>6. /\ g.trip = t /\ g.pc = "phase" /\ g.op # "createTrip"
          /\ g.next = "READY_TO_EXIT" /\ events[t] \subseteq events'[t]
      BY <1>2, <1>5, <1>6, <2>1, <3>1 DEF SameLocals
    <3> QED
      BY <1>2, <3>2, <3>5, <3>6, ReadyToWrite
  <2>2. CASE pc # "phase"
    <3>1. Similar(f, g, t)
      BY <1>1, <1>4, <1>5, <2>2
         DEF Similar, SameLocals, Created, Served, Arrived, Late
    <3> QED
      BY <1>2, <1>6, <3>1, TripKept, RowsKept
  <2> QED
    BY <2>1, <2>2
<1>9. \A u \in DOMAIN trips : u # t => Similar(f, g, u)
  BY <1>5, OthersSimilar
<1>10. \A e \in DOMAIN entries : entries[e].trip \in DOMAIN trips
  BY DEF FlowInv
<1> QED
  BY <1>2, <1>5, <1>6, <1>7, <1>8, <1>9, <1>10, FlowStep, RowsKept

(* The vehicle is written as the event says; a new trip gets its job.      *)
LEMMA FlowUpdateVehicle ==
  ASSUME IInv, OrderInv, FlowInv, NEW r, Requests = {r}, UpdateVehicle(r)
  PROVE  FlowInv'
<1> PICK f : f = slot[r]
  OBVIOUS
<1> PICK t : t = f.trip
  OBVIOUS
<1> PICK g : g = slot'[r]
  OBVIOUS
<1> PICK j : j = slot[t]
  OBVIOUS
<1>1. /\ f.pc = "vehicle"
      /\ f.op \in {"createTrip", "endLoading", "exitOrigin",
                   "arriveDestination", "endUnloading"}
  BY WhoseStatement DEF UpdateVehicle
<1>2. /\ t \in DOMAIN trips /\ t \in Trips /\ t # NoTrip
      /\ f.event = EventOf(f.op) /\ trips[t] \in TripRow
      /\ f.center = CenterOf(f.op, trips[t])
      /\ f.vehicle = trips[t].vehicle /\ trips[t].status = "ONGOING"
      /\ JobHolds(t, j, trips)
  BY <1>1, AtWork, TheSlots
<1>3. TripHolds(t, f, j, trips[t], vehicles[trips[t].vehicle], events[t],
                entries)
  BY <1>1, AtWork
<1>4. RequestHolds(f, trips, entries)
  BY DEF FlowInv
<1> PICK row : row = VehicleAfter(f.event, f.center)
  OBVIOUS
<1>5. /\ trips' = trips /\ entries' = entries /\ events' = events
      /\ vehicles'[trips[t].vehicle] = row
      /\ \A u \in DOMAIN trips : u # t =>
           \/ vehicles'[trips[u].vehicle] = vehicles[trips[u].vehicle]
           \/ trips[u].status # "ONGOING"
  <2>1. vehicles' = [vehicles EXCEPT ![trips[t].vehicle] = row]
    BY DEF UpdateVehicle
  <2>2. trips[t].vehicle \in Vehicles /\ vehicles \in [Vehicles -> VehicleRow]
    BY <1>2 DEF TripRow, IInv, TypeOK
  <2>3. \A u \in DOMAIN trips : trips[u].vehicle \in Vehicles
    BY DEF IInv, TypeOK, TripRow
  <2>4. \A u \in DOMAIN trips : u # t =>
          trips[u].vehicle # trips[t].vehicle \/ trips[u].status # "ONGOING"
    BY <1>2, OwnVehicle
  <2> QED
    BY <2>1, <2>2, <2>3, <2>4 DEF UpdateVehicle
<1>6. \A e \in DOMAIN entries : entries[e].trip \in DOMAIN trips
  BY DEF FlowInv
<1>7. CASE f.op = "createTrip"
  <2> PICK k : k = AutoAdd(f)
    OBVIOUS
  <2>1. /\ g = Idle /\ slot'[t] = k
        /\ \A u \in Trips : u # t => slot'[u] = slot[u]
    BY <1>1, <1>2, <1>7, TheSlots DEF UpdateVehicle
  <2>2. /\ k.op = "autoAdd" /\ k.pc = "check" /\ k.trip = t
        /\ k.queue = "LOADING" /\ k.vehicle = trips[t].vehicle
        /\ k.center = trips[t].origin
    BY <1>2, <1>7 DEF AutoAdd, Idle, CenterOf
  <2>3. JobHolds(t, k, trips)
    BY <1>2, <2>2 DEF JobHolds
  <2>4. Created(f, t) /\ trips[t].phase = "AT_ORIGIN_ARRIVED"
    BY <1>3, <1>7 DEF Created, TripHolds
  <2>5. ~ Created(g, t) /\ ~ Late(g, t) /\ ~ Served(g, t) /\ g.trip # t
    BY <1>2, <2>1 DEF Idle, Created, Late, Served
  <2>6. Waits(t, Place(t, g, k, trips[t].phase), trips[t], entries)
    BY <1>3, <2>2, <2>4 DEF TripHolds, Waits, Place, Unqueued
  <2>7. Tracks("AT_ORIGIN_ARRIVED", trips[t], row)
    BY <1>2, <1>7 DEF VehicleAfter, EventOf, CenterOf, Tracks
  <2>8. TripHolds(t, g, k, trips[t], row, events[t], entries)
    BY <1>3, <2>4, <2>5, <2>6, <2>7 DEF TripHolds
  <2>9. \A u \in DOMAIN trips : u # t => Similar(f, g, u)
    BY <2>1, OthersSimilar
  <2>10. /\ TripHolds(t, slot'[r], slot'[t], trips'[t],
                      vehicles'[trips'[t].vehicle], events'[t], entries')
         /\ JobHolds(t, slot'[t], trips')
    BY <1>5, <2>1, <2>3, <2>8
  <2>11. RequestHolds(slot'[r], trips', entries')
    BY <2>1, RequestIdle
  <2>12. \A u \in DOMAIN trips : u # t =>
           /\ trips'[u] = trips[u] /\ SameRows(u, entries, entries')
           /\ \/ vehicles'[trips[u].vehicle] = vehicles[trips[u].vehicle]
              \/ trips[u].status # "ONGOING"
           /\ events[u] \subseteq events'[u]
           /\ Similar(slot[r], slot'[r], u)
    BY <1>5, <2>9, RowsKept
  <2>13. /\ DOMAIN trips' = DOMAIN trips
         /\ \A e \in DOMAIN entries' : entries'[e].trip \in DOMAIN trips
    BY <1>5, <1>6
  <2> QED
    BY <2>1, <2>10, <2>11, <2>12, <2>13, FlowStep
<1>8. CASE f.op # "createTrip"
  <2> PICK pc : pc = AfterTripEvent(f)
    OBVIOUS
  <2>1. IF f.op = "arriveDestination" THEN pc = "check" ELSE pc = "phase"
    BY <1>1, <1>8 DEF AfterTripEvent
  <2>2. /\ g.pc = pc /\ SameLocals(f, g)
        /\ \A u \in Trips : slot'[u] = slot[u]
    BY <1>1, <1>8, <2>1, FlowGoto DEF UpdateVehicle
  <2>3. RequestHolds(g, trips, entries)
    BY <1>1, <1>2, <1>4, <1>8, <2>1, <2>2, RequestMoved
  <2>4. f.op \in TripAction /\ f.pc \notin Completing
    BY <1>1, <1>8 DEF TripAction, Completing
  <2>5. f.next = NextOf(f.op)
    BY <1>4, <2>4 DEF RequestHolds
  <2>6. Tracks(f.next, trips[t], row)
    BY <1>1, <1>2, <1>8, <2>5
       DEF VehicleAfter, EventOf, CenterOf, Tracks, NextOf
  <2>7. /\ f.op = "endLoading"     => trips[t].phase = "AT_ORIGIN_LOADING"
        /\ f.op = "exitOrigin"     => trips[t].phase = "READY_TO_EXIT"
        /\ f.op = "arriveDestination" => trips[t].phase = "IN_TRANSIT"
        /\ f.op = "endUnloading"   =>
             trips[t].phase = "AT_DESTINATION_UNLOADING"
    BY <2>4, ActionPhase
  <2>8. TripHolds(t, g, j, trips[t], row, events[t], entries)
    <3>1. CASE f.op = "arriveDestination"
      <4>1. g.op = "arriveDestination" /\ g.pc = "check" /\ g.trip = t
            /\ g.next = f.next
        BY <2>1, <2>2, <3>1 DEF SameLocals
      <4>2. /\ ~ Created(g, t) /\ Late(g, t) /\ ~ Served(g, t)
            /\ ~ Arrived(g, t) /\ ~ Arrived(f, t)
        BY <1>1, <3>1, <4>1 DEF Created, Late, Served, Arrived
      <4>3. Waits(t, Place(t, g, j, trips[t].phase), trips[t], entries)
        BY <1>3, <2>7, <3>1, <4>2 DEF TripHolds, Place
      <4> QED
        BY <1>3, <2>6, <2>7, <3>1, <4>1, <4>2, <4>3 DEF TripHolds
    <3>2. CASE f.op # "arriveDestination"
      <4>1. g.op # "createTrip" /\ g.pc = "phase" /\ g.trip = t
            /\ g.next = f.next
        BY <1>8, <2>1, <2>2, <3>2 DEF SameLocals
      <4>2. trips[t].phase \notin {"AT_ORIGIN_ARRIVED", "IN_TRANSIT",
                                   "AT_DESTINATION_ARRIVED"}
        BY <1>1, <1>8, <2>7, <3>2
      <4> QED
        BY <1>3, <2>6, <4>1, <4>2, ReadyToWrite
    <3> QED
      BY <3>1, <3>2
  <2>9. \A u \in DOMAIN trips : u # t => Similar(f, g, u)
    BY <2>2, OthersSimilar
  <2> QED
    BY <1>2, <1>5, <1>6, <2>2, <2>3, <2>8, <2>9, FlowStep, RowsKept
<1> QED
  BY <1>7, <1>8

(* The destination is written while the trip waits in no queue.            *)
LEMMA FlowUpdateDestination ==
  ASSUME IInv, OrderInv, FlowInv, NEW r, Requests = {r}, UpdateDestination(r)
  PROVE  FlowInv'
<1> PICK f : f = slot[r]
  OBVIOUS
<1> PICK t : t = f.trip
  OBVIOUS
<1> PICK g : g = slot'[r]
  OBVIOUS
<1>1. f.pc = "destination" /\ f.op = "setDestination"
  BY WhoseStatement DEF UpdateDestination
<1>2. /\ t \in DOMAIN trips /\ t \in Trips /\ t # NoTrip
      /\ trips[t] \in TripRow /\ trips[t].status = "ONGOING"
      /\ TripHolds(t, f, slot[t], trips[t], vehicles[trips[t].vehicle],
                   events[t], entries)
      /\ JobHolds(t, slot[t], trips)
  BY <1>1, AtWork, TheSlots
<1>3. RequestHolds(f, trips, entries)
  BY DEF FlowInv
<1>4. f.next = "READY_TO_EXIT"
  BY <1>1, <1>3 DEF RequestHolds, NextOf, TripAction
<1>5. trips[t].phase = "AT_ORIGIN_LOADING_ENDED"
  BY <1>1, ActionPhase DEF TripAction, Completing
<1>6. /\ g.pc = "phase" /\ SameLocals(f, g)
      /\ \A u \in Trips : slot'[u] = slot[u]
  <2>1. Goto(r, "phase")
    BY <1>1 DEF UpdateDestination, AfterTripEvent
  <2> QED
    BY <2>1, FlowGoto
<1> PICK trip : trip = trips'[t]
  OBVIOUS
<1>7. /\ DOMAIN trips' = DOMAIN trips
      /\ \A u \in DOMAIN trips : u # t => trips'[u] = trips[u]
      /\ trip.phase = trips[t].phase /\ trip.status = trips[t].status
      /\ trip.origin = trips[t].origin /\ trip.vehicle = trips[t].vehicle
  BY <1>2 DEF UpdateDestination, IInv, TypeOK, TripRow
<1>8. entries' = entries /\ events' = events /\ vehicles' = vehicles
  BY DEF UpdateDestination
<1>9. RequestHolds(g, trips', entries)
  <2>1. RequestHolds(f, trips', entries)
    BY <1>1, <1>2, <1>3, <1>7 DEF RequestHolds, CenterOf
  <2> QED
    BY <1>1, <1>2, <1>6, <2>1, RequestMoved
<1>10. JobHolds(t, slot[t], trips')
  BY <1>2, <1>7 DEF JobHolds
<1>11. TripHolds(t, g, slot[t], trip, vehicles[trip.vehicle], events[t],
                 entries)
  <2>1. ~ Created(f, t) /\ ~ Late(f, t)
    BY <1>1 DEF Created, Late
  <2>2. Tracks(trips[t].phase, trips[t], vehicles[trips[t].vehicle])
    BY <1>2, <2>1 DEF TripHolds
  <2>3. Tracks(f.next, trip, vehicles[trips[t].vehicle])
    BY <1>4, <1>5, <1>7, <2>2 DEF Tracks
  <2>4. g.trip = t /\ g.op # "createTrip" /\ g.next = f.next
    BY <1>1, <1>6 DEF SameLocals
  <2>5. Tracks(g.next, trip, vehicles[trip.vehicle])
    BY <1>7, <2>3, <2>4
  <2>6. trips[t].phase \notin {"AT_ORIGIN_ARRIVED", "IN_TRANSIT",
                               "AT_DESTINATION_ARRIVED"}
    BY <1>5
  <2>7. /\ TripHolds(t, f, slot[t], trips[t], vehicles[trips[t].vehicle],
                     events[t], entries)
        /\ g.pc = "phase"
        /\ trip.phase = trips[t].phase /\ trip.status = trips[t].status
    BY <1>2, <1>6, <1>7
  <2> QED
    <3> PICK old, j, row, row2, ev :
          /\ old = trips[t] /\ j = slot[t] /\ row = vehicles[trips[t].vehicle]
          /\ row2 = vehicles[trip.vehicle] /\ ev = events[t]
      OBVIOUS
    <3>1. TripHolds(t, f, j, old, row, ev, entries)
      BY <2>7
    <3>2. /\ g.trip = t /\ g.pc = "phase" /\ g.op # "createTrip"
          /\ old.phase \notin {"AT_ORIGIN_ARRIVED", "IN_TRANSIT",
                               "AT_DESTINATION_ARRIVED"}
          /\ trip.phase = old.phase /\ trip.status = old.status
          /\ Tracks(g.next, trip, row2) /\ ev \subseteq ev
      BY <2>4, <2>5, <2>6, <2>7
    <3>3. TripHolds(t, g, j, trip, row2, ev, entries)
      BY <3>1, <3>2, ReadyToWrite
    <3> QED
      BY <3>3
<1>12. \A u \in DOMAIN trips : u # t => Similar(f, g, u)
  BY <1>6, OthersSimilar
<1>13. \A e \in DOMAIN entries : entries[e].trip \in DOMAIN trips
  BY DEF FlowInv
<1>14. /\ TripHolds(t, slot'[r], slot'[t], trips'[t],
                    vehicles'[trips'[t].vehicle], events'[t], entries')
       /\ JobHolds(t, slot'[t], trips')
       /\ RequestHolds(slot'[r], trips', entries')
  BY <1>2, <1>6, <1>8, <1>9, <1>10, <1>11
<1>15. \A u \in DOMAIN trips : u # t =>
         /\ trips'[u] = trips[u] /\ SameRows(u, entries, entries')
         /\ vehicles'[trips[u].vehicle] = vehicles[trips[u].vehicle]
         /\ events[u] \subseteq events'[u]
  BY <1>7, <1>8, RowsKept
<1> QED
  BY <1>6, <1>7, <1>8, <1>12, <1>13, <1>14, <1>15, FlowStep
-----------------------------------------------------------------------------
(* A step that writes neither trips nor vehicles.                          *)
LEMMA FlowQueueStep ==
  ASSUME IInv, FlowInv, NEW r, Requests = {r}, NEW t \in DOMAIN trips,
         trips' = trips, vehicles' = vehicles,
         \A u \in DOMAIN trips : events[u] \subseteq events'[u],
         \A u \in DOMAIN trips : u # t =>
           /\ SameRows(u, entries, entries')
           /\ Similar(slot[r], slot'[r], u),
         \A u \in Trips : u # t => slot'[u] = slot[u],
         \A e \in DOMAIN entries' : entries'[e].trip \in DOMAIN trips,
         RequestHolds(slot'[r], trips, entries'),
         JobHolds(t, slot'[t], trips),
         TripHolds(t, slot'[r], slot'[t], trips[t],
                   vehicles[trips[t].vehicle], events'[t], entries')
  PROVE  FlowInv'
<1>1. \A u \in DOMAIN trips : u # t =>
        /\ trips'[u] = trips[u]
        /\ events[u] \subseteq events'[u]
        /\ \/ vehicles'[trips[u].vehicle] = vehicles[trips[u].vehicle]
           \/ trips[u].status # "ONGOING"
        /\ SameRows(u, entries, entries')
        /\ Similar(slot[r], slot'[r], u)
  OBVIOUS
<1>2. /\ DOMAIN trips' = DOMAIN trips
      /\ RequestHolds(slot'[r], trips', entries')
      /\ JobHolds(t, slot'[t], trips')
      /\ TripHolds(t, slot'[r], slot'[t], trips'[t],
                   vehicles'[trips'[t].vehicle], events'[t], entries')
  OBVIOUS
<1> QED
  BY <1>1, <1>2, FlowStep

(* The request reads: nothing changes but its statement.                   *)
LEMMA FlowRead ==
  ASSUME IInv, OrderInv, FlowInv, NEW r, Requests = {r},
         slot[r].pc \notin {"idle", "insertTrip"},
         UNCHANGED <<entries, trips, events, vehicles>>,
         \A u \in Trips : slot'[u] = slot[u],
         RequestHolds(slot'[r], trips, entries),
         \A u \in DOMAIN trips : Similar(slot[r], slot'[r], u)
  PROVE  FlowInv'
<1> PICK f, t, g, j, trip, row, ev :
      /\ f = slot[r] /\ t = f.trip /\ g = slot'[r] /\ j = slot[t]
      /\ trip = trips[t] /\ row = vehicles[trips[t].vehicle] /\ ev = events[t]
  OBVIOUS
<1>1. t \in DOMAIN trips /\ t \in Trips /\ JobHolds(t, j, trips)
      /\ TripHolds(t, f, j, trip, row, ev, entries)
  BY AtWork
<1>2. Similar(f, g, t)
  BY <1>1
<1>3. TripHolds(t, g, j, trip, row, ev, entries)
  BY <1>1, <1>2, TripKept, RowsKept
<1>4. \A e \in DOMAIN entries : entries[e].trip \in DOMAIN trips
  BY DEF FlowInv
<1> QED
  BY <1>1, <1>3, <1>4, FlowQueueStep, RowsKept

(* arriveDestination finds its vehicle in no queue.                        *)
LEMMA FlowCheckQueue ==
  ASSUME IInv, OrderInv, FlowInv, NEW r, Requests = {r}, CheckQueue(r)
  PROVE  FlowInv'
<1> PICK f, t, g, j, trip, row, ev :
      /\ f = slot[r] /\ t = f.trip /\ g = slot'[r] /\ j = slot[t]
      /\ trip = trips[t] /\ row = vehicles[trips[t].vehicle] /\ ev = events[t]
  OBVIOUS
<1>1. f.pc = "check" /\ f.op = "arriveDestination"
  BY WhoseStatement DEF CheckQueue
<1>2. /\ t \in DOMAIN trips /\ t \in Trips /\ t # NoTrip
      /\ trip.status = "ONGOING" /\ f.vehicle = trip.vehicle
      /\ TripHolds(t, f, j, trip, row, ev, entries)
  BY <1>1, AtWork, TheSlots
<1>3. trip.phase = "IN_TRANSIT"
  BY <1>1, ActionPhase DEF TripAction, Completing
<1>4. Waiting(t, entries) = {}
  BY <1>1, <1>2, <1>3 DEF TripHolds, Waits, Place, Arrived
<1>5. ~ AlreadyQueued(f.vehicle, f.center, f.queue)
  BY <1>2, <1>4, WaitsForOngoing DEF AlreadyQueued
<1>6. /\ g.pc = "insertEntry" /\ SameLocals(f, g)
      /\ \A u \in Trips : slot'[u] = slot[u]
  BY <1>5, FlowGoto DEF CheckQueue
<1>7. RequestHolds(g, trips, entries)
  BY <1>1, <1>2, <1>6, RequestMoved DEF FlowInv
<1>8. Similar(f, g, t)
  BY <1>1, <1>6 DEF Similar, SameLocals, Created, Served, Arrived, Late
<1>9. \A u \in DOMAIN trips : Similar(f, g, u)
  BY <1>6, <1>8, OthersSimilar
<1> QED
  BY <1>1, <1>6, <1>7, <1>9, FlowRead DEF CheckQueue

(* The INSERT of a queue row, by the request or by a job.                  *)
LEMMA RowInserted ==
  ASSUME IInv, FlowInv, NEW t \in DOMAIN trips, Waiting(t, entries) = {},
         NEW c, NEW q, NEW v, InsertEntry(c, q, v, t)
  PROVE  /\ \E e \in DOMAIN entries' :
              /\ Waiting(t, entries') = {e}
              /\ entries'[e].vehicle = v /\ entries'[e].type = q
              /\ entries'[e].center = c
         /\ \A u \in DOMAIN trips : u # t => SameRows(u, entries, entries')
         /\ \A e \in DOMAIN entries' : entries'[e].trip \in DOMAIN trips
         /\ \A d \in DOMAIN entries :
              d \in DOMAIN entries' /\ entries'[d] = entries[d]
<1> PICK e, new :
      /\ e = FreshId(EntryIds, entries)
      /\ new = [center |-> c, type |-> q, vehicle |-> v, trip |-> t,
                day |-> today, active |-> TRUE]
  OBVIOUS
<1>1. e \in EntryIds \ DOMAIN entries
  BY FreshIdIsFresh DEF InsertEntry
<1>2. /\ DOMAIN entries' = DOMAIN entries \cup {e}
      /\ entries'[e] = new
      /\ \A d \in DOMAIN entries : entries'[d] = entries[d]
  BY <1>1 DEF InsertEntry, InsertRow
<1>3. Waiting(t, entries') = {e}
  BY <1>1, <1>2 DEF Waiting
<1>4. \A u \in DOMAIN trips : u # t => SameRows(u, entries, entries')
  BY <1>1, <1>2 DEF SameRows, Waiting
<1>5. \A d \in DOMAIN entries : entries[d].trip \in DOMAIN trips
  BY DEF FlowInv
<1> QED
  BY <1>2, <1>3, <1>4, <1>5

LEMMA FlowAddEntry ==
  ASSUME IInv, OrderInv, FlowInv, NEW r, Requests = {r}, AddEntry(r)
  PROVE  FlowInv'
<1> PICK f, t, g, j, trip, row, ev, en :
      /\ f = slot[r] /\ t = f.trip /\ g = slot'[r] /\ j = slot[t]
      /\ trip = trips[t] /\ row = vehicles[trips[t].vehicle] /\ ev = events[t]
      /\ en = entries'
  OBVIOUS
<1>1. f.pc = "insertEntry" /\ f.op = "arriveDestination"
  BY WhoseStatement DEF AddEntry
<1>2. /\ t \in DOMAIN trips /\ t \in Trips /\ t # NoTrip
      /\ f.vehicle = trip.vehicle /\ f.center = CenterOf(f.op, trip)
      /\ TripHolds(t, f, j, trip, row, ev, entries)
      /\ JobHolds(t, j, trips)
  BY <1>1, AtWork, TheSlots
<1>3. RequestHolds(f, trips, entries)
  BY DEF FlowInv
<1>4. /\ f.queue = "UNLOADING" /\ f.center = trip.destination
  BY <1>1, <1>2, <1>3 DEF RequestHolds, CenterOf
<1>5. trip.phase = "IN_TRANSIT"
  BY <1>1, ActionPhase DEF TripAction, Completing
<1>6. Waiting(t, entries) = {}
  BY <1>1, <1>2, <1>5 DEF TripHolds, Waits, Place, Arrived
<1>7. /\ \E e \in DOMAIN en :
           /\ Waiting(t, en) = {e}
           /\ en[e].vehicle = trip.vehicle /\ en[e].type = "UNLOADING"
           /\ en[e].center = trip.destination
      /\ \A u \in DOMAIN trips : u # t => SameRows(u, entries, en)
      /\ \A e \in DOMAIN en : en[e].trip \in DOMAIN trips
  BY <1>2, <1>4, <1>6, RowInserted DEF AddEntry
<1>8. /\ g.pc = "queuedEvent" /\ SameLocals(f, g)
      /\ \A u \in Trips : slot'[u] = slot[u]
  BY FlowGoto DEF AddEntry
<1>9. RequestHolds(g, trips, en)
  BY <1>1, <1>2, <1>3, <1>8, RequestMoved
<1>10. TripHolds(t, g, j, trip, row, ev, en)
  <2>1. /\ g.op = f.op /\ g.trip = t /\ g.next = f.next
    BY <1>8 DEF SameLocals
  <2>2. Arrived(g, t) /\ Late(f, t) /\ Late(g, t)
        /\ ~ Created(f, t) /\ ~ Created(g, t)
    BY <1>1, <1>8, <2>1 DEF Arrived, Late, Created
  <2>3. Waits(t, Place(t, g, j, trip.phase), trip, en)
    BY <1>5, <1>7, <2>2, TripsAssumption DEF Waits, Place, QueueType
  <2> QED
    BY <1>2, <1>5, <1>8, <2>1, <2>2, <2>3 DEF TripHolds
<1>11. \A u \in DOMAIN trips : u # t => Similar(f, g, u)
  BY <1>8, OthersSimilar
<1> QED
  BY <1>2, <1>7, <1>8, <1>9, <1>10, <1>11, FlowQueueStep DEF AddEntry

(* An event recorded: the audit trails grow.                               *)
LEMMA TrailsGrow ==
  ASSUME IInv, NEW t, NEW x,
         events' = [events EXCEPT ![t] = @ \cup {x}]
  PROVE  /\ \A u \in DOMAIN trips : events[u] \subseteq events'[u]
         /\ t \in Trips => x \in events'[t]
  BY DEF IInv, TypeOK

LEMMA FlowRecordQueued ==
  ASSUME IInv, OrderInv, FlowInv, NEW r, Requests = {r}, RecordQueued(r)
  PROVE  FlowInv'
<1> PICK f, t, g, j, trip, row, ev, ev2 :
      /\ f = slot[r] /\ t = f.trip /\ g = slot'[r] /\ j = slot[t]
      /\ trip = trips[t] /\ row = vehicles[trips[t].vehicle] /\ ev = events[t]
      /\ ev2 = events'[t]
  OBVIOUS
<1>1. f.pc = "queuedEvent" /\ f.op = "arriveDestination"
  BY WhoseStatement DEF RecordQueued
<1>2. /\ t \in DOMAIN trips /\ t \in Trips /\ t # NoTrip
      /\ TripHolds(t, f, j, trip, row, ev, entries)
      /\ JobHolds(t, j, trips)
  BY <1>1, AtWork, TheSlots
<1>3. trip.phase = "IN_TRANSIT"
  BY <1>1, ActionPhase DEF TripAction, Completing
<1>4. \A u \in DOMAIN trips : events[u] \subseteq events'[u]
  BY TrailsGrow DEF RecordQueued
<1>5. /\ g.pc = "phase" /\ SameLocals(f, g)
      /\ \A u \in Trips : slot'[u] = slot[u]
  BY <1>1, FlowGoto DEF RecordQueued, AfterAdd
<1>6. RequestHolds(g, trips, entries)
  BY <1>1, <1>2, <1>5, RequestMoved DEF FlowInv
<1>7. TripHolds(t, g, j, trip, row, ev2, entries)
  <2>1. g.op = f.op /\ g.trip = t /\ g.next = f.next
    BY <1>5 DEF SameLocals
  <2>2. Arrived(f, t) /\ Arrived(g, t) /\ Late(f, t) /\ Late(g, t)
        /\ ~ Created(f, t) /\ ~ Created(g, t)
    BY <1>1, <1>5, <2>1 DEF Arrived, Late, Created
  <2>3. Place(t, g, j, trip.phase) = Place(t, f, j, trip.phase)
    BY <1>3, <2>2 DEF Place
  <2>4. ev \subseteq ev2
    BY <1>2, <1>4
  <2> QED
    BY <1>2, <1>3, <2>1, <2>2, <2>3, <2>4 DEF TripHolds
<1>8. \A u \in DOMAIN trips : u # t => Similar(f, g, u)
  BY <1>5, OthersSimilar
<1>9. \A e \in DOMAIN entries : entries[e].trip \in DOMAIN trips
  BY DEF FlowInv
<1> QED
  BY <1>2, <1>4, <1>5, <1>6, <1>7, <1>8, <1>9, FlowQueueStep, RowsKept
     DEF RecordQueued
-----------------------------------------------------------------------------
(* The row a service selects by its vehicle is the row of its trip.        *)
LEMMA FlowSelectEntry ==
  ASSUME IInv, OrderInv, FlowInv, NEW r, Requests = {r}, SelectEntry(r)
  PROVE  FlowInv'
<1> PICK f, t, g : f = slot[r] /\ t = f.trip /\ g = slot'[r]
  OBVIOUS
<1>1. f.pc = "select" /\ f.op \in {"startLoading", "startUnloading"}
  BY WhoseStatement DEF SelectEntry
<1>2. /\ t \in DOMAIN trips /\ t # NoTrip
      /\ f.vehicle = trips[t].vehicle /\ trips[t].status = "ONGOING"
  BY <1>1, AtWork, TheSlots
<1>3. RequestHolds(f, trips, entries)
  BY DEF FlowInv
<1>4. CASE Goto(r, "idle")
  <2>1. g = Idle /\ \A u \in Trips : slot'[u] = slot[u]
    BY <1>4, FlowGoto
  <2>2. \A u \in DOMAIN trips : Similar(f, g, u)
    <3>1. g.pc = "idle" /\ g.op = "none"
      BY <2>1 DEF Idle
    <3> QED
      BY <1>1, <3>1, Entering, TheSlots
  <2> QED
    BY <1>1, <2>1, <2>2, FlowRead, RequestIdle DEF SelectEntry
<1>5. CASE \E e \in Startable(f.vehicle, f.queue, today) :
             slot' = [slot EXCEPT ![r] =
                        [slot[r] EXCEPT !.pc = "deactivate", !.entry = e]]
  <2> PICK e \in Startable(f.vehicle, f.queue, today) :
        slot' = [slot EXCEPT ![r] =
                   [slot[r] EXCEPT !.pc = "deactivate", !.entry = e]]
    BY <1>5
  <2>1. e \in Waiting(t, entries)
    BY <1>2, WaitsForOngoing DEF Startable
  <2>2. /\ g = [f EXCEPT !.pc = "deactivate", !.entry = e]
        /\ \A u \in Trips : slot'[u] = slot[u]
    BY TheSlots
  <2>3. /\ g.pc = "deactivate" /\ g.entry = e
        /\ g.op = f.op /\ g.trip = t /\ g.vehicle = f.vehicle
        /\ g.event = f.event /\ g.center = f.center
        /\ g.queue = f.queue /\ g.next = f.next
    BY <2>2, TheSlots DEF Frame
  <2>4. RequestHolds(g, trips, entries)
    BY <1>1, <1>2, <1>3, <2>1, <2>3 DEF RequestHolds
  <2>5. \A u \in DOMAIN trips : Similar(f, g, u)
    BY <1>1, <2>3, Entering, TheSlots
  <2>6. /\ slot[r].pc \notin {"idle", "insertTrip"}
        /\ UNCHANGED <<entries, trips, events, vehicles>>
        /\ RequestHolds(slot'[r], trips, entries)
        /\ \A u \in DOMAIN trips : Similar(slot[r], slot'[r], u)
    BY <1>1, <2>4, <2>5 DEF SelectEntry
  <2> QED
    BY <2>2, <2>6, FlowRead
<1> QED
  BY <1>4, <1>5 DEF SelectEntry

(* A row taken out of its queue.                                           *)
LEMMA RowTaken ==
  ASSUME IInv, NEW t, NEW e, Waiting(t, entries) = {e}, Deactivate(e)
  PROVE  /\ DOMAIN entries' = DOMAIN entries
         /\ \A d \in DOMAIN entries : entries'[d].trip = entries[d].trip
         /\ Waiting(t, entries') = {}
         /\ \A u : u # t => SameRows(u, entries, entries')
<1>1. e \in DOMAIN entries /\ entries[e].trip = t
  BY DEF Waiting
<1>2. /\ DOMAIN entries' = DOMAIN entries
      /\ \A d \in DOMAIN entries : d # e => entries'[d] = entries[d]
      /\ entries'[e].trip = t /\ ~ entries'[e].active
  BY <1>1 DEF Deactivate, IInv, TypeOK, QueueTypeOK, Entry
<1>3. Waiting(t, entries') = {}
  BY <1>2 DEF Waiting
<1>4. \A u : u # t => SameRows(u, entries, entries')
  BY <1>1, <1>2 DEF SameRows, Waiting
<1> QED
  BY <1>1, <1>2, <1>3, <1>4

LEMMA FlowDeactivateEntry ==
  ASSUME IInv, OrderInv, FlowInv, NEW r, Requests = {r}, DeactivateEntry(r)
  PROVE  FlowInv'
<1> PICK f, t, g, j, trip, row, ev, en :
      /\ f = slot[r] /\ t = f.trip /\ g = slot'[r] /\ j = slot[t]
      /\ trip = trips[t] /\ row = vehicles[trips[t].vehicle] /\ ev = events[t]
      /\ en = entries'
  OBVIOUS
<1>1. f.pc = "deactivate" /\ f.op \in {"startLoading", "startUnloading"}
  BY WhoseStatement DEF DeactivateEntry
<1>2. /\ t \in DOMAIN trips /\ t \in Trips /\ t # NoTrip
      /\ TripHolds(t, f, j, trip, row, ev, entries)
      /\ JobHolds(t, j, trips)
  BY <1>1, AtWork, TheSlots
<1>3. RequestHolds(f, trips, entries)
  BY DEF FlowInv
<1>4. trip.phase \in {"AT_ORIGIN_ARRIVED", "AT_DESTINATION_ARRIVED"}
  BY <1>1, ActionPhase DEF TripAction, Completing
<1>5. f.entry \in Waiting(t, entries)
  BY <1>1, <1>3 DEF RequestHolds
<1>6. Waiting(t, entries) = {f.entry} /\ Place(t, f, j, trip.phase) # NoQueue
  BY <1>2, <1>5 DEF TripHolds, Waits
<1>7. ~ Unqueued(j)
  BY <1>2, <1>6 DEF TripHolds, Place
<1>8. /\ DOMAIN en = DOMAIN entries
      /\ \A d \in DOMAIN entries : en[d].trip = entries[d].trip
      /\ Waiting(t, en) = {}
      /\ \A u : u # t => SameRows(u, entries, en)
  BY <1>6, RowTaken DEF DeactivateEntry
<1>9. /\ g.pc = "serviceEvent" /\ SameLocals(f, g)
      /\ \A u \in Trips : slot'[u] = slot[u]
  BY FlowGoto DEF DeactivateEntry
<1>10. RequestHolds(g, trips, en)
  <2>1. en[f.entry].trip = t
    BY <1>5, <1>8 DEF Waiting
  <2> QED
    BY <1>1, <1>2, <1>3, <1>9, <2>1, RequestMoved
<1>11. TripHolds(t, g, j, trip, row, ev, en)
  <2>1. /\ g.op = f.op /\ g.trip = t
    BY <1>9 DEF SameLocals
  <2>2. /\ Served(g, t) /\ ~ Late(f, t) /\ ~ Late(g, t)
        /\ ~ Created(f, t) /\ ~ Created(g, t)
    BY <1>1, <1>9, <2>1 DEF Served, Late, Created
  <2>3. Waits(t, Place(t, g, j, trip.phase), trip, en)
    BY <1>4, <1>8, <2>2 DEF Waits, Place
  <2> QED
    BY <1>2, <1>7, <1>9, <2>2, <2>3 DEF TripHolds
<1>12. \A u \in DOMAIN trips : u # t => Similar(f, g, u)
  BY <1>9, OthersSimilar
<1>13. \A e \in DOMAIN en : en[e].trip \in DOMAIN trips
  BY <1>8 DEF FlowInv
<1>14. events' = events /\ trips' = trips /\ vehicles' = vehicles
  BY DEF DeactivateEntry
<1> QED
  BY <1>2, <1>8, <1>9, <1>10, <1>11, <1>12, <1>13, <1>14, FlowQueueStep

(* SERVICE_STARTED goes to the audit trail of the trip itself.             *)
LEMMA FlowRecordService ==
  ASSUME IInv, OrderInv, FlowInv, NEW r, Requests = {r}, RecordService(r)
  PROVE  FlowInv'
<1> PICK f, t, g, j, trip, row, ev, ev2 :
      /\ f = slot[r] /\ t = f.trip /\ g = slot'[r] /\ j = slot[t]
      /\ trip = trips[t] /\ row = vehicles[trips[t].vehicle] /\ ev = events[t]
      /\ ev2 = events'[t]
  OBVIOUS
<1>1. f.pc = "serviceEvent" /\ f.op \in {"startLoading", "startUnloading"}
  BY WhoseStatement DEF RecordService
<1>2. /\ t \in DOMAIN trips /\ t \in Trips /\ t # NoTrip
      /\ TripHolds(t, f, j, trip, row, ev, entries)
      /\ JobHolds(t, j, trips)
  BY <1>1, AtWork, TheSlots
<1>3. RequestHolds(f, trips, entries)
  BY DEF FlowInv
<1>4. /\ trip.phase \in {"AT_ORIGIN_ARRIVED", "AT_DESTINATION_ARRIVED"}
      /\ f.next \in {"AT_ORIGIN_LOADING", "AT_DESTINATION_UNLOADING"}
  <2>1. f.next = NextOf(f.op)
    BY <1>1, <1>3 DEF RequestHolds, TripAction
  <2> QED
    BY <1>1, <2>1, ActionPhase DEF TripAction, Completing, NextOf
<1>5. entries[f.entry].trip = t
  BY <1>1, <1>3 DEF RequestHolds
<1>6. /\ \A u \in DOMAIN trips : events[u] \subseteq events'[u]
      /\ "SERVICE_STARTED" \in ev2
  BY <1>2, <1>5, TrailsGrow DEF RecordService
<1>7. /\ g.pc = "phase" /\ SameLocals(f, g)
      /\ \A u \in Trips : slot'[u] = slot[u]
  BY <1>1, FlowGoto DEF RecordService
<1>8. RequestHolds(g, trips, entries)
  BY <1>1, <1>2, <1>3, <1>7, RequestMoved
<1>9. TripHolds(t, g, j, trip, row, ev2, entries)
  <2>1. /\ g.op = f.op /\ g.trip = t /\ g.next = f.next
    BY <1>7 DEF SameLocals
  <2>2. /\ Served(f, t) /\ Served(g, t) /\ Late(g, t)
        /\ ~ Created(f, t) /\ ~ Created(g, t)
    BY <1>1, <1>7, <2>1 DEF Served, Late, Created
  <2>3. Place(t, g, j, trip.phase) = Place(t, f, j, trip.phase)
    BY <1>4, <2>2 DEF Place
  <2>4. Tracks(g.next, trip, row)
    BY <1>4, <2>1 DEF Tracks
  <2> QED
    BY <1>2, <1>6, <2>2, <2>3, <2>4 DEF TripHolds
<1>10. \A u \in DOMAIN trips : u # t => Similar(f, g, u)
  BY <1>7, OthersSimilar
<1>11. \A e \in DOMAIN entries : entries[e].trip \in DOMAIN trips
  BY DEF FlowInv
<1> QED
  BY <1>2, <1>6, <1>7, <1>8, <1>9, <1>10, <1>11, FlowQueueStep, RowsKept
     DEF RecordService

(* The other trips are left alone; trip t, its job and the request hold.   *)
OthersKept(r, t) ==
  /\ DOMAIN trips' = DOMAIN trips
  /\ \A u \in DOMAIN trips : u # t =>
       /\ trips'[u] = trips[u]
       /\ events[u] \subseteq events'[u]
       /\ \/ vehicles'[trips[u].vehicle] = vehicles[trips[u].vehicle]
          \/ trips[u].status # "ONGOING"
       /\ SameRows(u, entries, entries')
       /\ Similar(slot[r], slot'[r], u)
  /\ \A u \in Trips : u # t => slot'[u] = slot[u]
  /\ \A e \in DOMAIN entries' : entries'[e].trip \in DOMAIN trips

OneHolds(r, t) ==
  /\ RequestHolds(slot'[r], trips', entries')
  /\ t \in Trips => JobHolds(t, slot'[t], trips')
  /\ t \in DOMAIN trips =>
       TripHolds(t, slot'[r], slot'[t], trips'[t],
                 vehicles'[trips'[t].vehicle], events'[t], entries')

LEMMA FlowStepOf ==
  ASSUME IInv, FlowInv, NEW r, Requests = {r}, NEW t,
         OthersKept(r, t), OneHolds(r, t)
  PROVE  FlowInv'
  BY FlowStep DEF OthersKept, OneHolds

(* Another row, of the trip of the request only.                           *)
Rewrites(r, t, trip) ==
  /\ t \in DOMAIN trips
  /\ trips' = [trips EXCEPT ![t] = trip]
  /\ trip.vehicle = trips[t].vehicle /\ trip.origin = trips[t].origin
  /\ UNCHANGED <<entries, events, vehicles>>
  /\ \A u \in DOMAIN trips : u # t => Similar(slot[r], slot'[r], u)
  /\ \A u \in Trips : slot'[u] = slot[u]

LEMMA RowRewritten ==
  ASSUME IInv, FlowInv, NEW r, Requests = {r}, NEW t, NEW trip,
         Rewrites(r, t, trip),
         RequestHolds(slot'[r], trips', entries),
         TripHolds(t, slot'[r], slot[t], trip, vehicles[trip.vehicle],
                   events[t], entries)
  PROVE  FlowInv'
<1>1. /\ DOMAIN trips' = DOMAIN trips /\ trips'[t] = trip
      /\ \A u \in DOMAIN trips : u # t => trips'[u] = trips[u]
      /\ t \in Trips /\ slot'[t] = slot[t]
      /\ entries' = entries /\ events' = events /\ vehicles' = vehicles
  BY DEF Rewrites, IInv, TypeOK
<1>2. OthersKept(r, t)
  BY <1>1, RowsKept DEF Rewrites, OthersKept, FlowInv
<1>3. JobHolds(t, slot'[t], trips')
  BY <1>1 DEF FlowInv, JobHolds, Rewrites
<1>4. OneHolds(r, t)
  BY <1>1, <1>3 DEF OneHolds
<1> QED
  BY <1>2, <1>4, FlowStepOf

LEMMA FlowUpdatePhase ==
  ASSUME IInv, OrderInv, FlowInv, NEW r, Requests = {r}, UpdatePhase(r)
  PROVE  FlowInv'
<1> PICK f, t, g, j, old, row, ev :
      /\ f = slot[r] /\ t = f.trip /\ g = slot'[r] /\ j = slot[t]
      /\ old = trips[t] /\ row = vehicles[trips[t].vehicle] /\ ev = events[t]
  OBVIOUS
<1> PICK trip : trip = [old EXCEPT !.phase = f.next]
  OBVIOUS
<1>1. f.pc = "phase" /\ f.op \in TripAction \ {"completeTrip"}
  BY WhoseStatement DEF UpdatePhase
<1>2. /\ t \in DOMAIN trips /\ t \in Trips /\ t # NoTrip
      /\ TripHolds(t, f, j, old, row, ev, entries)
      /\ old \in TripRow /\ old.status = "ONGOING"
      /\ f.center = CenterOf(f.op, old) /\ f.vehicle = old.vehicle
  BY <1>1, AtWork, TheSlots
<1>3. RequestHolds(f, trips, entries)
  BY DEF FlowInv
<1>4. f.next = NextOf(f.op)
  BY <1>1, <1>3 DEF RequestHolds
<1>5. /\ trip.phase = f.next /\ trip.status = "ONGOING"
      /\ trip.vehicle = old.vehicle /\ trip.origin = old.origin
      /\ trip.destination = old.destination
  BY <1>2 DEF TripRow
<1>6. /\ f.op = "startLoading"   => old.phase = "AT_ORIGIN_ARRIVED"
      /\ f.op = "endLoading"     => old.phase = "AT_ORIGIN_LOADING"
      /\ f.op = "setDestination" => old.phase = "AT_ORIGIN_LOADING_ENDED"
      /\ f.op = "exitOrigin"     => old.phase = "READY_TO_EXIT"
      /\ f.op = "arriveDestination" => old.phase = "IN_TRANSIT"
      /\ f.op = "startUnloading" => old.phase = "AT_DESTINATION_ARRIVED"
      /\ f.op = "endUnloading"   => old.phase = "AT_DESTINATION_UNLOADING"
  BY <1>1, ActionPhase DEF Completing
<1>7. /\ g = Idle \/ SameLocals(f, g)
      /\ g.pc \in {"idle", "readForComplete"}
      /\ g.pc = "idle" => g = Idle
      /\ g.pc = "readForComplete" => f.op = "endUnloading"
      /\ \A u \in Trips : slot'[u] = slot[u]
  BY FlowGoto DEF UpdatePhase, Idle
<1>8. trips' = [trips EXCEPT ![t] = trip]
  BY <1>2 DEF UpdatePhase, IInv, TypeOK
<1>9. RequestHolds(g, trips', entries)
  <2>1. CASE g = Idle
    BY <2>1, RequestIdle
  <2>2. CASE g # Idle
    <3>1. trips'[t] = trip
      BY <1>2, <1>8
    <3>2. RequestHolds(f, trips', entries)
      BY <1>1, <1>2, <1>3, <1>5, <3>1
         DEF RequestHolds, CenterOf, TripAction
    <3> QED
      BY <1>1, <1>2, <1>7, <2>2, <3>2, RequestMoved DEF TripAction
  <2> QED
    BY <2>1, <2>2
<1>10. TripHolds(t, g, j, trip, row, ev, entries)
  <2>1. /\ ~ Created(g, t) /\ ~ Late(g, t) /\ ~ Served(g, t)
        /\ ~ Arrived(g, t) /\ g.pc # "phase"
    BY <1>1, <1>2, <1>7
       DEF Created, Late, Served, Arrived, SameLocals, TripAction, Idle
  <2>2. /\ ~ Created(f, t) /\ Late(f, t) /\ Served(f, t)
        /\ Arrived(f, t) <=> f.op = "arriveDestination"
    BY <1>1 DEF Created, Late, Served, Arrived, TripAction
  <2>3. ~ Unqueued(j) /\ "SERVICE_STARTED" \in ev
    BY <1>1, <1>2, <2>2 DEF TripHolds
  <2>4. Place(t, g, j, trip.phase) = Place(t, f, j, old.phase)
    BY <1>1, <1>4, <1>5, <1>6, <2>1, <2>2 DEF Place, NextOf, TripAction
  <2>5. Waits(t, Place(t, g, j, trip.phase), trip, entries)
    BY <1>2, <1>5, <2>4 DEF TripHolds, Waits
  <2>6. Tracks(trip.phase, trip, row)
    BY <1>2, <1>5, <2>2 DEF TripHolds, Tracks
  <2>7. trip.phase # "COMPLETED"
    BY <1>1, <1>4, <1>5 DEF NextOf, TripAction
  <2> QED
    BY <1>5, <2>1, <2>3, <2>5, <2>6, <2>7 DEF TripHolds
<1>11. \A u \in DOMAIN trips : u # t => Similar(f, g, u)
  BY <1>7, OthersSimilar
<1>12. Rewrites(r, t, trip)
  BY <1>2, <1>5, <1>7, <1>8, <1>11 DEF UpdatePhase, Rewrites
<1>13. TripHolds(t, slot'[r], slot[t], trip, vehicles[trip.vehicle],
                 events[t], entries)
  BY <1>5, <1>10
<1> QED
  BY <1>9, <1>12, <1>13, RowRewritten

LEMMA FlowReadForComplete ==
  ASSUME IInv, OrderInv, FlowInv, NEW r, Requests = {r}, ReadForComplete(r)
  PROVE  FlowInv'
<1> PICK f, t, g : f = slot[r] /\ t = f.trip /\ g = slot'[r]
  OBVIOUS
<1>1. f.pc = "readForComplete" /\ f.op = "endUnloading"
  BY WhoseStatement DEF ReadForComplete
<1>2. t # NoTrip
  BY <1>1, AtWork, TheSlots
<1>3. /\ \/ g = Idle
         \/ g.pc = "complete" /\ SameLocals(f, g)
      /\ \A u \in Trips : slot'[u] = slot[u]
  BY FlowGoto DEF ReadForComplete
<1>4. RequestHolds(g, trips, entries)
  <2>1. CASE g = Idle
    BY <2>1, RequestIdle
  <2>2. CASE g.pc = "complete" /\ SameLocals(f, g)
    BY <1>1, <1>2, <2>2, RequestMoved DEF FlowInv
  <2> QED
    BY <1>3, <2>1, <2>2
<1>5. g.pc \in {"idle", "complete"} /\ g.op \in {"none", "endUnloading"}
  BY <1>1, <1>3 DEF Idle, SameLocals
<1>6. \A u \in DOMAIN trips : Similar(f, g, u)
  BY <1>1, <1>5, Entering, TheSlots
<1> QED
  BY <1>1, <1>3, <1>4, <1>6, FlowRead DEF ReadForComplete

(* The trip of a vehicle completed, it has no ongoing trip.                *)
LEMMA FlowFinishTrip ==
  ASSUME IInv, OrderInv, FlowInv, NEW r, Requests = {r}, FinishTrip(r)
  PROVE  FlowInv'
<1> PICK f, t, g, j, old, row, ev :
      /\ f = slot[r] /\ t = f.trip /\ g = slot'[r] /\ j = slot[t]
      /\ old = trips[t] /\ row = vehicles[trips[t].vehicle] /\ ev = events[t]
  OBVIOUS
<1> PICK trip : trip = [old EXCEPT !.status = "COMPLETED",
                                   !.phase = "COMPLETED"]
  OBVIOUS
<1>1. f.pc = "complete" /\ f.op \in {"endUnloading", "completeTrip"}
  BY WhoseStatement DEF FinishTrip
<1>2. /\ t \in DOMAIN trips /\ t \in Trips /\ t # NoTrip
      /\ TripHolds(t, f, j, old, row, ev, entries)
      /\ old \in TripRow /\ old.status = "ONGOING"
      /\ f.center = CenterOf(f.op, old) /\ f.vehicle = old.vehicle
  BY <1>1, AtWork, TheSlots
<1>3. RequestHolds(f, trips, entries)
  BY DEF FlowInv
<1>4. old.phase = "AT_DESTINATION_UNLOADING_ENDED"
  BY <1>1 DEF OrderInv, Serial
<1>5. /\ trip.phase = "COMPLETED" /\ trip.status = "COMPLETED"
      /\ trip.vehicle = old.vehicle /\ trip.origin = old.origin
      /\ trip.destination = old.destination
  BY <1>2 DEF TripRow
<1>6. /\ g.pc = "completeVehicle" /\ SameLocals(f, g)
      /\ \A u \in Trips : slot'[u] = slot[u]
  BY FlowGoto DEF FinishTrip
<1>7. trips' = [trips EXCEPT ![t] = trip]
  BY <1>2 DEF FinishTrip, IInv, TypeOK
<1>8. /\ DOMAIN trips' = DOMAIN trips /\ trips'[t] = trip
      /\ \A u \in DOMAIN trips : u # t => trips'[u] = trips[u]
  BY <1>2, <1>7
<1>9. \A u \in DOMAIN trips' :
        trips'[u].vehicle = f.vehicle => trips'[u].status # "ONGOING"
  <2>1. \A u \in DOMAIN trips :
          u # t /\ trips[u].vehicle = f.vehicle => trips[u].status # "ONGOING"
    BY <1>2, OwnVehicle
  <2> QED
    BY <1>5, <1>8, <2>1
<1>10. RequestHolds(g, trips', entries)
  BY <1>1, <1>2, <1>3, <1>5, <1>6, <1>8, <1>9
     DEF RequestHolds, SameLocals, CenterOf
<1>11. TripHolds(t, g, j, trip, row, ev, entries)
  <2>1. g.op = f.op /\ g.trip = t
    BY <1>6 DEF SameLocals
  <2>2. ~ Created(g, t) /\ ~ Served(g, t)
    BY <1>1, <1>6, <2>1 DEF Created, Served
  <2>3. Waiting(t, entries) = {} /\ ~ Unqueued(j) /\ "SERVICE_STARTED" \in ev
    BY <1>2, <1>4 DEF TripHolds, Waits, Place
  <2>4. Waits(t, Place(t, g, j, trip.phase), trip, entries)
    BY <1>5, <2>3 DEF Waits, Place
  <2> QED
    BY <1>5, <2>2, <2>3, <2>4 DEF TripHolds
<1>12. \A u \in DOMAIN trips : u # t => Similar(f, g, u)
  BY <1>6, OthersSimilar
<1>13. Rewrites(r, t, trip)
  BY <1>2, <1>5, <1>6, <1>7, <1>12 DEF FinishTrip, Rewrites
<1>14. TripHolds(t, slot'[r], slot[t], trip, vehicles[trip.vehicle],
                 events[t], entries)
  BY <1>5, <1>11
<1> QED
  BY <1>10, <1>13, <1>14, RowRewritten

LEMMA FlowFreeVehicle ==
  ASSUME IInv, OrderInv, FlowInv, NEW r, Requests = {r}, FreeVehicle(r)
  PROVE  FlowInv'
<1> PICK f, g : f = slot[r] /\ g = slot'[r]
  OBVIOUS
<1>1. f.pc = "completeVehicle" /\ f.op \in {"endUnloading", "completeTrip"}
  BY WhoseStatement DEF FreeVehicle
<1>2. \A u \in DOMAIN trips :
        trips[u].vehicle = f.vehicle => trips[u].status # "ONGOING"
  BY <1>1 DEF FlowInv, RequestHolds
<1>3. \A u \in DOMAIN trips :
        \/ vehicles'[trips[u].vehicle] = vehicles[trips[u].vehicle]
        \/ trips[u].status # "ONGOING"
  BY <1>2 DEF FreeVehicle, IInv, TypeOK, TripRow
<1>4. g = Idle /\ \A u \in Trips : slot'[u] = slot[u]
  BY FlowGoto DEF FreeVehicle
<1>5. \A u \in DOMAIN trips : Similar(f, g, u)
  <2>1. g.pc = "idle" /\ g.op = "none"
    BY <1>4 DEF Idle
  <2> QED
    BY <1>1, <2>1, Entering, TheSlots
<1>6. \A e \in DOMAIN entries : entries[e].trip \in DOMAIN trips
  BY DEF FlowInv
<1>7. NoTrip \notin Trips /\ NoTrip \notin DOMAIN trips
  BY TheSlots
<1>8. entries' = entries /\ trips' = trips /\ events' = events
  BY DEF FreeVehicle
<1>9. OthersKept(r, NoTrip)
  BY <1>3, <1>4, <1>5, <1>6, <1>8, RowsKept DEF OthersKept
<1>10. OneHolds(r, NoTrip)
  BY <1>4, <1>7, RequestIdle DEF OneHolds
<1> QED
  BY <1>9, <1>10, FlowStepOf
-----------------------------------------------------------------------------
(* The job of trip t goes on, the request where it was.                    *)
LEMMA FlowJobStep ==
  ASSUME IInv, FlowInv, NEW r, Requests = {r}, NEW t \in DOMAIN trips,
         slot[t] # Idle, NEW STATE pc, Goto(t, pc), trips' = trips,
         vehicles' = vehicles,
         \A u \in DOMAIN trips : events[u] \subseteq events'[u],
         \A u \in DOMAIN trips : u # t => SameRows(u, entries, entries'),
         \A e \in DOMAIN entries' : entries'[e].trip \in DOMAIN trips,
         \A d \in DOMAIN entries :
           d \in DOMAIN entries' /\ entries'[d] = entries[d],
         TripHolds(t, slot[r], slot'[t], trips[t],
                   vehicles[trips[t].vehicle], events'[t], entries')
  PROVE  FlowInv'
<1>1. t \in Trips /\ t \in Slots /\ t # r /\ slot \in [Slots -> Frame]
      /\ r \in Slots
  BY TheSlots
<1>2. slot'[r] = slot[r] /\ \A u \in Trips : u # t => slot'[u] = slot[u]
  BY <1>1, TheSlots DEF Goto
<1>3. JobHolds(t, slot[t], trips)
  BY <1>1 DEF FlowInv
<1>4. JobHolds(t, slot'[t], trips)
  <2>1. slot'[t] = IF pc = "idle" THEN Idle ELSE [slot[t] EXCEPT !.pc = pc]
    BY <1>1 DEF Goto
  <2>2. slot[t] \in Frame
    BY <1>1
  <2> QED
    BY <1>3, <2>1, <2>2 DEF JobHolds, Frame
<1>5. RequestHolds(slot[r], trips, entries)
  BY DEF FlowInv
<1>6. slot[r].pc = "deactivate" =>
        slot[r].entry \in Waiting(slot[r].trip, entries')
  BY <1>5 DEF RequestHolds, Waiting
<1>7. slot[r].pc = "serviceEvent" => slot[r].entry \in DOMAIN entries
  BY TheSlots DEF FrameHolds
<1>8. RequestHolds(slot[r], trips, entries')
  BY <1>5, <1>6, <1>7 DEF RequestHolds
<1>9. \A u \in DOMAIN trips : Similar(slot[r], slot[r], u)
  BY DEF Similar
<1>10. OthersKept(r, t)
  BY <1>2, <1>9 DEF OthersKept
<1>11. OneHolds(r, t)
  BY <1>2, <1>4, <1>8 DEF OneHolds
<1> QED
  BY <1>10, <1>11, FlowStepOf

(* What a job at work relies on.                                           *)
LEMMA JobAtWork ==
  ASSUME IInv, OrderInv, FlowInv, NEW r, Requests = {r}, NEW t \in Trips,
         slot[t].pc # "idle"
  PROVE  LET f == slot[r]
             j == slot[t]
         IN
         /\ t \in DOMAIN trips /\ j # Idle /\ j.op = "autoAdd"
         /\ j.pc \in QueueSteps /\ j.trip = t /\ j.queue = "LOADING"
         /\ j.vehicle = trips[t].vehicle /\ j.center = trips[t].origin
         /\ TripHolds(t, f, j, trips[t], vehicles[trips[t].vehicle],
                      events[t], entries)
         /\ ~ Created(f, t)
         /\ j.pc # "queuedEvent" =>
              /\ trips[t].phase = "AT_ORIGIN_ARRIVED"
              /\ trips[t].status = "ONGOING"
              /\ ~ Served(f, t)
              /\ Waiting(t, entries) = {}
<1> PICK f, j, trip, row, ev :
      /\ f = slot[r] /\ j = slot[t]
      /\ trip = trips[t] /\ row = vehicles[trips[t].vehicle] /\ ev = events[t]
  OBVIOUS
<1>1. j # Idle
  BY DEF Idle
<1>2. /\ t \in DOMAIN trips /\ j.op = "autoAdd" /\ j.trip = t
      /\ j.queue = "LOADING" /\ j.vehicle = trip.vehicle
      /\ j.center = trip.origin
  BY <1>1 DEF FlowInv, JobHolds
<1>3. FrameHolds(j, trips, events, DOMAIN entries)
  BY <1>1, TheSlots DEF IInv, FramesHold
<1>4. j.pc \in QueueSteps
  BY <1>2, <1>3 DEF FrameHolds, Statements
<1>5. TripHolds(t, f, j, trip, row, ev, entries)
  BY <1>2 DEF FlowInv
<1>6. ~ Created(f, t)
  BY <1>1, <1>5 DEF TripHolds
<1>7. ASSUME j.pc # "queuedEvent"
      PROVE  /\ trip.phase = "AT_ORIGIN_ARRIVED" /\ trip.status = "ONGOING"
             /\ ~ Served(f, t) /\ Waiting(t, entries) = {}
  <2>1. Unqueued(j)
    BY <1>4, <1>7 DEF Unqueued
  <2>2. trip.phase = "AT_ORIGIN_ARRIVED" /\ ~ Served(f, t)
    BY <1>5, <2>1 DEF TripHolds
  <2>3. trip.status = "ONGOING"
    BY <1>2, <1>5, <2>2 DEF TripHolds, IInv, TypeOK, TripRow, TripStatus
  <2>4. Waiting(t, entries) = {}
    BY <1>5, <2>1, <2>2 DEF TripHolds, Waits, Place
  <2> QED
    BY <2>2, <2>3, <2>4
<1> QED
  BY <1>1, <1>2, <1>4, <1>5, <1>6, <1>7

LEMMA JobGoto ==
  ASSUME IInv, NEW t \in Trips, NEW STATE pc, pc # "idle", Goto(t, pc)
  PROVE  slot'[t].pc = pc
<1>1. slot[t] \in Frame /\ slot \in [Slots -> Frame] /\ t \in Slots
  BY DEF IInv, TypeOK, Slots
<1> QED
  BY <1>1 DEF Goto, Frame

(* The SELECT of a job: its vehicle is in no queue.                        *)
LEMMA FlowJobCheck ==
  ASSUME IInv, OrderInv, FlowInv, NEW r, Requests = {r}, NEW t \in Trips,
         CheckQueue(t)
  PROVE  FlowInv'
<1> PICK f, j, k, trip, row, ev :
      /\ f = slot[r] /\ j = slot[t] /\ k = slot'[t]
      /\ trip = trips[t] /\ row = vehicles[trips[t].vehicle] /\ ev = events[t]
  OBVIOUS
<1>1. j.pc = "check"
  BY DEF CheckQueue
<1>2. /\ t \in DOMAIN trips /\ j # Idle /\ j.vehicle = trip.vehicle
      /\ TripHolds(t, f, j, trip, row, ev, entries) /\ ~ Created(f, t)
      /\ trip.status = "ONGOING" /\ Waiting(t, entries) = {}
  BY <1>1, JobAtWork
<1>3. ~ AlreadyQueued(j.vehicle, j.center, j.queue)
  BY <1>2, WaitsForOngoing DEF AlreadyQueued
<1>4. Goto(t, "insertEntry")
  BY <1>3 DEF CheckQueue
<1>5. Unqueued(k) = Unqueued(j)
  BY <1>1, <1>4, JobGoto DEF Unqueued
<1>6. TripHolds(t, f, k, trip, row, ev, entries)
  <2>1. Similar(f, f, t)
    BY DEF Similar
  <2> QED
    BY <1>2, <1>5, <2>1, TripKept, RowsKept
<1>7. /\ \A u \in DOMAIN trips : u # t => SameRows(u, entries, entries)
      /\ \A e \in DOMAIN entries : entries[e].trip \in DOMAIN trips
  BY RowsKept DEF FlowInv
<1> QED
  BY <1>2, <1>4, <1>6, <1>7, FlowJobStep DEF CheckQueue

(* The INSERT of a job: the trip joins the line of its origin.             *)
LEMMA FlowJobAdd ==
  ASSUME IInv, OrderInv, FlowInv, NEW r, Requests = {r}, NEW t \in Trips,
         AddEntry(t)
  PROVE  FlowInv'
<1> PICK f, j, k, trip, row, ev, en :
      /\ f = slot[r] /\ j = slot[t] /\ k = slot'[t]
      /\ trip = trips[t] /\ row = vehicles[trips[t].vehicle] /\ ev = events[t]
      /\ en = entries'
  OBVIOUS
<1>1. j.pc = "insertEntry"
  BY DEF AddEntry
<1>2. /\ t \in DOMAIN trips /\ j # Idle /\ j.trip = t /\ j.queue = "LOADING"
      /\ j.vehicle = trip.vehicle /\ j.center = trip.origin
      /\ TripHolds(t, f, j, trip, row, ev, entries) /\ ~ Created(f, t)
      /\ trip.phase = "AT_ORIGIN_ARRIVED" /\ ~ Served(f, t)
      /\ Waiting(t, entries) = {}
  BY <1>1, JobAtWork
<1>3. /\ \E e \in DOMAIN en :
           /\ Waiting(t, en) = {e}
           /\ en[e].vehicle = trip.vehicle /\ en[e].type = "LOADING"
           /\ en[e].center = trip.origin
      /\ \A u \in DOMAIN trips : u # t => SameRows(u, entries, en)
      /\ \A e \in DOMAIN en : en[e].trip \in DOMAIN trips
      /\ \A d \in DOMAIN entries : d \in DOMAIN en /\ en[d] = entries[d]
  BY <1>2, RowInserted DEF AddEntry
<1>4. Goto(t, "queuedEvent") /\ k.pc = "queuedEvent"
  BY JobGoto DEF AddEntry
<1>5. TripHolds(t, f, k, trip, row, ev, en)
  <2>1. ~ Unqueued(k)
    BY <1>4 DEF Unqueued
  <2>2. Waits(t, Place(t, f, k, trip.phase), trip, en)
    BY <1>2, <1>3, <2>1, TripsAssumption DEF Waits, Place, QueueType
  <2> QED
    BY <1>2, <2>1, <2>2 DEF TripHolds
<1> QED
  BY <1>2, <1>3, <1>4, <1>5, FlowJobStep DEF AddEntry

(* The job records QUEUED and is over.                                     *)
LEMMA FlowJobQueued ==
  ASSUME IInv, OrderInv, FlowInv, NEW r, Requests = {r}, NEW t \in Trips,
         RecordQueued(t)
  PROVE  FlowInv'
<1> PICK f, j, k, trip, row, ev, ev2 :
      /\ f = slot[r] /\ j = slot[t] /\ k = slot'[t]
      /\ trip = trips[t] /\ row = vehicles[trips[t].vehicle] /\ ev = events[t]
      /\ ev2 = events'[t]
  OBVIOUS
<1>1. j.pc = "queuedEvent"
  BY DEF RecordQueued
<1>2. /\ t \in DOMAIN trips /\ j # Idle /\ j.op = "autoAdd" /\ j.trip = t
      /\ TripHolds(t, f, j, trip, row, ev, entries) /\ ~ Created(f, t)
  BY <1>1, JobAtWork
<1>3. Goto(t, "idle")
  BY <1>2 DEF RecordQueued, AfterAdd
<1>4. k = Idle
  BY <1>3, TheSlots DEF Goto
<1>5. Unqueued(k) = Unqueued(j)
  BY <1>1, <1>4 DEF Unqueued, Idle
<1>6. \A u \in DOMAIN trips : events[u] \subseteq events'[u]
  BY TrailsGrow DEF RecordQueued
<1>7. TripHolds(t, f, k, trip, row, ev2, entries)
  <2>1. Similar(f, f, t)
    BY DEF Similar
  <2> QED
    BY <1>2, <1>5, <1>6, <2>1, TripKept, RowsKept
<1>8. /\ \A u \in DOMAIN trips : u # t => SameRows(u, entries, entries)
      /\ \A e \in DOMAIN entries : entries[e].trip \in DOMAIN trips
  BY RowsKept DEF FlowInv
<1> QED
  BY <1>2, <1>3, <1>6, <1>7, <1>8, FlowJobStep DEF RecordQueued
-----------------------------------------------------------------------------
(* A step in which no slot moves.                                          *)
LEMMA FlowStill ==
  ASSUME IInv, FlowInv, NEW r, Requests = {r},
         UNCHANGED <<entries, trips, events, vehicles, slot>>
  PROVE  FlowInv'
<1>1. NoTrip \notin Trips /\ NoTrip \notin DOMAIN trips
  BY TheSlots
<1>2. \A u \in DOMAIN trips : Similar(slot[r], slot[r], u)
  BY DEF Similar
<1>3. OthersKept(r, NoTrip)
  BY <1>2, RowsKept DEF OthersKept, FlowInv
<1>4. OneHolds(r, NoTrip)
  BY <1>1 DEF OneHolds, FlowInv
<1> QED
  BY <1>3, <1>4, FlowStepOf

LEMMA FlowCall ==
  ASSUME IInv, OrderInv, FlowInv, NEW r, Requests = {r},
         Endpoints \subseteq TripAction \cup {"createTrip"}, Call(r)
  PROVE  FlowInv'
<1>1. ~ PostEvent(r) /\ ~ AddToQueue(r) /\ ~ StartService(r)
  <2>1. /\ "postEvent" \notin Endpoints /\ "addToQueue" \notin Endpoints
        /\ "startService" \notin Endpoints
    BY DEF TripAction
  <2> QED
    BY <2>1 DEF PostEvent, AddToQueue, StartService, Begin
<1> QED
  BY <1>1, FlowCreateTrip, FlowStartLoading, FlowEndLoading,
     FlowSetDestination, FlowExitOrigin, FlowArriveDestination,
     FlowStartUnloading, FlowEndUnloading, FlowCompleteTrip DEF Call

LEMMA FlowContinue ==
  ASSUME IInv, OrderInv, FlowInv, NEW r, Requests = {r}, Continue(r)
  PROVE  FlowInv'
  BY FlowInsertTrip, FlowInsertEvent, FlowUpdateVehicle,
     FlowUpdateDestination, FlowCheckQueue, FlowAddEntry, FlowRecordQueued,
     FlowSelectEntry, FlowDeactivateEntry, FlowRecordService,
     FlowUpdatePhase, FlowReadForComplete, FlowFinishTrip, FlowFreeVehicle
     DEF Continue

LEMMA FlowNext ==
  ASSUME Undisturbed
  PROVE  IInv /\ OrderInv /\ FlowInv /\ [Next]_vars => FlowInv'
<1> SUFFICES ASSUME IInv, OrderInv, FlowInv, [Next]_vars
             PROVE  FlowInv'
  OBVIOUS
<1> PICK r : Requests = {r}
  BY DEF Undisturbed, OneRequest
<1>1. ASSUME NEW q \in Requests, Call(q)
      PROVE  FlowInv'
  BY <1>1, FlowCall DEF Undisturbed
<1>2. ASSUME NEW s \in Slots, Continue(s)
      PROVE  FlowInv'
  <2>1. CASE s = r
    BY <1>2, <2>1, FlowContinue
  <2>2. CASE s # r
    <3>1. s \in Trips
      BY <2>2 DEF Slots
    <3>2. slot[s].pc \in QueueSteps \cup {"idle"}
      BY <3>1, JobSteps DEF OrderInv
    <3>3. CheckQueue(s) \/ AddEntry(s) \/ RecordQueued(s)
      BY <1>2, <3>2 DEF Continue, InsertTrip, InsertEvent, UpdateVehicle,
           UpdateDestination, SelectEntry, DeactivateEntry, RecordService,
           UpdatePhase, ReadForComplete, FinishTrip, FreeVehicle
    <3> QED
      BY <3>1, <3>3, FlowJobCheck, FlowJobAdd, FlowJobQueued
  <2> QED
    BY <2>1, <2>2
<1>3. ~ Crash /\ \A s \in Slots : ~ Fail(s)
  BY DEF Undisturbed, Crash, Fail
<1>4. CASE Midnight
  BY <1>4, FlowStill DEF Midnight
<1>5. CASE UNCHANGED vars
  BY <1>5, FlowStill DEF vars
<1> QED
  BY <1>1, <1>2, <1>3, <1>4, <1>5 DEF Next

LEMMA FlowInitially == Init => FlowInv
<1> SUFFICES ASSUME Init
             PROVE  FlowInv
  OBVIOUS
<1>1. \A e \in DOMAIN entries : FALSE
  BY DEF Init, QueueInit
<1>2. \A s \in Slots : slot[s] = Idle
  BY DEF Init
<1>3. DOMAIN trips = {}
  BY DEF Init
<1>4. \A t \in Trips : JobHolds(t, slot[t], trips)
  BY <1>2 DEF JobHolds, Slots
<1>5. \A r \in Requests : RequestHolds(slot[r], trips, entries)
  BY <1>2, RequestIdle DEF Slots
<1> QED
  BY <1>1, <1>3, <1>4, <1>5 DEF FlowInv

(* The flow invariant of an undisturbed system.                            *)
LEMMA FlowInvariant ==
  ASSUME Undisturbed
  PROVE  Spec => [](IInv /\ OrderInv /\ FlowInv)
<1>1. IInv /\ OrderInv /\ [Next]_vars => OrderInv'
  BY OrderStep DEF Undisturbed, OneRequest
<1> QED
  BY <1>1, FlowNext, FlowInitially, OrderInitially, Initially, Inductive, PTL
     DEF Spec

(* A trip at rest: neither the request nor its job is at work on it.       *)
LEMMA AtRest ==
  ASSUME IInv, FlowInv, NEW r, Requests = {r}, NEW t \in DOMAIN trips, Quiet(t)
  PROVE  LET f == slot[r] IN
         /\ TripHolds(t, f, Idle, trips[t], vehicles[trips[t].vehicle],
                      events[t], entries)
         /\ ~ Created(f, t) /\ ~ Served(f, t) /\ ~ Arrived(f, t)
         /\ ~ Late(f, t) /\ ~ Unqueued(Idle)
<1>1. t \in Trips /\ t \in Slots /\ r \in Slots
  BY TheSlots
<1>2. slot[r].trip # t /\ slot[t].trip # t
  BY <1>1 DEF Quiet
<1>3. slot[t] = Idle
  BY <1>1, <1>2 DEF FlowInv, JobHolds
<1>4. TripHolds(t, slot[r], Idle, trips[t], vehicles[trips[t].vehicle],
                events[t], entries)
  BY <1>3 DEF FlowInv
<1> QED
  BY <1>2, <1>4 DEF Created, Served, Arrived, Late, Unqueued, Idle

(* A trip at rest waits where its phase says.                              *)
LEMMA AtRestQueued ==
  ASSUME IInv, FlowInv, NEW r, Requests = {r}, NEW t \in DOMAIN trips,
         Quiet(t)
  PROVE  /\ trips[t].phase = "AT_ORIGIN_ARRIVED" =>
              QueuedFor(t, trips[t].origin, "LOADING")
         /\ trips[t].phase = "AT_DESTINATION_ARRIVED" =>
              QueuedFor(t, trips[t].destination, "UNLOADING")
<1> PICK f, trip : f = slot[r] /\ trip = trips[t]
  OBVIOUS
<1>1. /\ Waits(t, Place(t, f, Idle, trip.phase), trip, entries)
      /\ ~ Created(f, t) /\ ~ Served(f, t) /\ ~ Unqueued(Idle)
  BY AtRest DEF TripHolds
<1>2. NoQueue \notin {"LOADING", "UNLOADING"}
  BY TripsAssumption DEF QueueType
<1>3. ASSUME trip.phase = "AT_ORIGIN_ARRIVED"
      PROVE  QueuedFor(t, trip.origin, "LOADING")
  <2>1. Place(t, f, Idle, trip.phase) = "LOADING"
    BY <1>1, <1>3 DEF Place
  <2> QED
    BY <1>1, <1>2, <2>1 DEF Waits, Waiting, QueuedFor
<1>4. ASSUME trip.phase = "AT_DESTINATION_ARRIVED"
      PROVE  QueuedFor(t, trip.destination, "UNLOADING")
  <2>1. Place(t, f, Idle, trip.phase) = "UNLOADING"
    BY <1>1, <1>4 DEF Place
  <2> QED
    BY <1>1, <1>2, <2>1 DEF Waits, Waiting, QueuedFor
<1> QED
  BY <1>3, <1>4

(* Undisturbed, a trip that has arrived at its origin, and that nobody is  *)
(* at work on, waits in the loading queue there.                           *)
THEOREM ArrivedWaitsToLoad ==
  ASSUME Undisturbed
  PROVE  Spec => []ArrivedInLoadingQueue
<1>1. IInv /\ OrderInv /\ FlowInv => ArrivedInLoadingQueue
  BY AtRestQueued DEF Undisturbed, OneRequest, ArrivedInLoadingQueue
<1> QED
  BY <1>1, FlowInvariant, PTL

(* Undisturbed, a trip that has arrived at its destination waits in the    *)
(* unloading queue there.                                                  *)
THEOREM ArrivedWaitsToUnload ==
  ASSUME Undisturbed
  PROVE  Spec => []ArrivedInUnloadingQueue
<1>1. IInv /\ OrderInv /\ FlowInv => ArrivedInUnloadingQueue
  BY AtRestQueued DEF Undisturbed, OneRequest, ArrivedInUnloadingQueue
<1> QED
  BY <1>1, FlowInvariant, PTL

(* Undisturbed, a trip that is being loaded or past it has its own         *)
(* SERVICE_STARTED event.                                                  *)
THEOREM ServicesAreOnRecord ==
  ASSUME Undisturbed
  PROVE  Spec => []ServiceOnRecord
<1>1. IInv /\ OrderInv /\ FlowInv => ServiceOnRecord
  BY DEF Undisturbed, OneRequest, ServiceOnRecord, FlowInv, TripHolds
<1> QED
  BY <1>1, FlowInvariant, PTL

(* Undisturbed, the vehicle of an ongoing trip that nobody is at work on   *)
(* is where, and as, the phase of the trip says.                           *)
THEOREM VehicleFollowsTrip ==
  ASSUME Undisturbed
  PROVE  Spec => []VehicleTracksTrip
<1>1. IInv /\ OrderInv /\ FlowInv => VehicleTracksTrip
  <2> SUFFICES ASSUME IInv, FlowInv, NEW t \in DOMAIN trips,
                      trips[t].status = "ONGOING", Quiet(t)
               PROVE  Tracks(trips[t].phase, trips[t],
                             vehicles[trips[t].vehicle])
    BY DEF VehicleTracksTrip, Tracks
  <2> PICK r : Requests = {r}
    BY DEF Undisturbed, OneRequest
  <2>1. /\ TripHolds(t, slot[r], Idle, trips[t], vehicles[trips[t].vehicle],
                     events[t], entries)
        /\ ~ Created(slot[r], t) /\ ~ Late(slot[r], t)
    BY AtRest
  <2> QED
    BY <2>1 DEF TripHolds
<1> QED
  BY <1>1, FlowInvariant, PTL
=============================================================================
