------------------------------- MODULE Trips -------------------------------
(***************************************************************************)
(* TripsService together with the part of QueuesService it calls: the life *)
(* of a trip from POST /trips to its completion, as concurrent HTTP        *)
(* requests that interleave at every await.                                *)
(*                                                                         *)
(* No service of the program opens a database transaction, so each SQL     *)
(* statement is one atomic step and a request is a sequence of steps that  *)
(* keeps, between them, what it read.  A request occupies a slot.  The     *)
(* background job that createTrip starts without awaiting it has a slot of *)
(* its own, named by the trip (a trip is created once, so there is one).   *)
(*                                                                         *)
(* Look-ups of vehicles and centers are merged into the statement that     *)
(* follows them: no handler of this module inserts or deletes such rows.   *)
(* Queue positions are in CenterQueues; here a row of center_queues only   *)
(* says which vehicle waits for which trip.                                *)
(***************************************************************************)
EXTENDS QueueTable

CONSTANTS
  Requests,         \* slots for concurrent HTTP requests
  Endpoints,        \* the endpoints clients use
  RequestedCenters, \* center ids clients send as a destination
  PostedEvents,     \* event types clients post themselves
  MayFail,          \* whether a statement or the process may fail
  NoCenter, NoTrip, NoVehicle, NoEntry, NoPhase,
  NoEvent, NoQueue  \* null: columns and locals without a value

TripAction ==
  {"startLoading", "endLoading", "setDestination", "exitOrigin",
   "arriveDestination", "startUnloading", "endUnloading", "completeTrip"}

Endpoint ==
  TripAction \cup {"createTrip", "postEvent", "addToQueue", "startService"}

TripPhase ==
  {"AT_ORIGIN_ARRIVED", "AT_ORIGIN_LOADING", "AT_ORIGIN_LOADING_ENDED",
   "READY_TO_EXIT", "IN_TRANSIT", "AT_DESTINATION_ARRIVED",
   "AT_DESTINATION_UNLOADING", "AT_DESTINATION_UNLOADING_ENDED", "COMPLETED"}

TripEventType ==
  {"ARRIVED", "QUEUED", "SERVICE_STARTED", "LOADING_ENDED",
   "UNLOADING_ENDED", "READY_TO_EXIT", "EXITED", "ARRIVED_DESTINATION"}

VehicleStatus ==
  {"AVAILABLE", "IN_TRANSIT", "WAITING_IN_QUEUE", "LOADING", "UNLOADING",
   "IN_GARAGE"}

TripPurpose == {"DELIVERY", "PICKUP"}

TripStatus == {"ONGOING", "COMPLETED"}

ASSUME TripsAssumption ==
  /\ Requests \cap Trips = {}
  /\ Endpoints \subseteq Endpoint
  /\ PostedEvents \subseteq TripEventType
  /\ MayFail \in BOOLEAN
  /\ NoCenter \notin Centers \cup RequestedCenters
  /\ NoTrip \notin Trips
  /\ NoVehicle \notin Vehicles
  /\ NoEntry \notin EntryIds
  /\ NoPhase \notin TripPhase
  /\ NoEvent \notin TripEventType
  /\ NoQueue \notin QueueType

VARIABLES
  trips,      \* table trips: a function from the ids in use to rows
  events,     \* table trip_events: the event types recorded for each trip
  vehicles,   \* table vehicles: status and current center
  slot        \* what each request or background job is doing

vars == <<entries, today, trips, events, vehicles, slot>>

Slots == Requests \cup Trips

TripRow ==
  [vehicle : Vehicles, origin : Centers, destination : Centers \cup {NoCenter},
   purpose : TripPurpose, status : TripStatus, phase : TripPhase]

VehicleRow == [status : VehicleStatus, center : Centers \cup {NoCenter}]

(* The next statement a slot will run.                                     *)
Step ==
  {"idle", "insertTrip", "event", "vehicle", "destination", "check",
   "insertEntry", "queuedEvent", "select", "deactivate", "serviceEvent",
   "phase", "readForComplete", "complete", "completeVehicle"}

(* The locals of a handler that live across an await.                      *)
Frame ==
  [op : Endpoint \cup {"none", "autoAdd"},
   pc : Step,
   trip : Trips \cup {NoTrip},
   vehicle : Vehicles \cup {NoVehicle},
   event : TripEventType \cup {NoEvent},
   center : Centers \cup {NoCenter},       \* where the event happens
   dest : RequestedCenters \cup {NoCenter},\* metadata.destinationCenterId
   queue : QueueType \cup {NoQueue},
   entry : EntryIds \cup {NoEntry},
   next : TripPhase \cup {NoPhase}]        \* the phase it will write

Idle ==
  [op |-> "none", pc |-> "idle", trip |-> NoTrip, vehicle |-> NoVehicle,
   event |-> NoEvent, center |-> NoCenter, dest |-> NoCenter,
   queue |-> NoQueue, entry |-> NoEntry, next |-> NoPhase]

TypeOK ==
  /\ QueueTypeOK
  /\ DOMAIN trips \subseteq Trips
  /\ trips \in [DOMAIN trips -> TripRow]
  /\ events \in [Trips -> SUBSET TripEventType]
  /\ vehicles \in [Vehicles -> VehicleRow]
  /\ slot \in [Slots -> Frame]

Init ==
  /\ QueueInit
  /\ trips = [t \in {} |-> {}]
  /\ events = [t \in Trips |-> {}]
  /\ vehicles = [v \in Vehicles |->
                   [status |-> "AVAILABLE", center |-> NoCenter]]
  /\ slot = [s \in Slots |-> Idle]
-----------------------------------------------------------------------------
(* A slot goes on to its next statement, or returns.                       *)
Goto(s, pc) ==
  slot' = [slot EXCEPT ![s] = IF pc = "idle" THEN Idle
                              ELSE [slot[s] EXCEPT !.pc = pc]]

(* A client calls an endpoint: a free slot takes the request.              *)
Begin(r, ep, frame) ==
  /\ ep \in Endpoints
  /\ slot[r].pc = "idle"
  /\ slot' = [slot EXCEPT ![r] = frame]
  /\ UNCHANGED <<entries, today, trips, events, vehicles>>

(* getTripOrThrow followed by ensurePhase: the request goes on only if the *)
(* row it read is in the phase the action requires.                        *)
TripFrame(t, ep, pc, next) ==
  [Idle EXCEPT !.op = ep, !.pc = pc, !.trip = t,
               !.vehicle = trips[t].vehicle, !.next = next]

(* Mutation of InPhase: ensurePhase is not called.                         *)
InAnyPhase(phase) == DOMAIN trips

InPhase(phase) == {t \in DOMAIN trips : trips[t].phase = phase}

(* Mutation of HasOngoingTrip: only a trip on the road counts.             *)
HasTripInTransit(v) ==
  \E t \in DOMAIN trips :
    trips[t].vehicle = v /\ trips[t].phase = "IN_TRANSIT"

HasOngoingTrip(v) ==
  \E t \in DOMAIN trips :
    trips[t].vehicle = v /\ trips[t].status = "ONGOING"

(* createTrip: the vehicle has no ongoing trip (SELECT); the INSERT comes  *)
(* later, and nothing in the schema keeps a second request from passing.   *)
(* The first conjunct is the bound on the number of trips.                 *)
CreateTrip(r) ==
  \E v \in Vehicles :
    /\ Trips \ DOMAIN trips # {}
    /\ ~ HasOngoingTrip(v)
    /\ Begin(r, "createTrip",
         [Idle EXCEPT !.op = "createTrip", !.pc = "insertTrip", !.vehicle = v])

StartLoading(r) ==
  \E t \in InPhase("AT_ORIGIN_ARRIVED") :
    Begin(r, "startLoading",
      [TripFrame(t, "startLoading", "select", "AT_ORIGIN_LOADING")
         EXCEPT !.queue = "LOADING"])

EndLoading(r) ==
  \E t \in InPhase("AT_ORIGIN_LOADING") :
    Begin(r, "endLoading",
      [TripFrame(t, "endLoading", "event", "AT_ORIGIN_LOADING_ENDED")
         EXCEPT !.event = "LOADING_ENDED", !.center = trips[t].origin])

(* The destination is whatever the client sends.                           *)
SetDestination(r) ==
  \E t \in InPhase("AT_ORIGIN_LOADING_ENDED"), d \in RequestedCenters :
    Begin(r, "setDestination",
      [TripFrame(t, "setDestination", "event", "READY_TO_EXIT")
         EXCEPT !.event = "READY_TO_EXIT", !.center = trips[t].origin,
                !.dest = d])

ExitOrigin(r) ==
  \E t \in InPhase("READY_TO_EXIT") :
    Begin(r, "exitOrigin",
      [TripFrame(t, "exitOrigin", "event", "IN_TRANSIT")
         EXCEPT !.event = "EXITED", !.center = trips[t].origin])

(* Mutation of HasDestination: the column is not tested.                   *)
HeadsAnywhere(t) == TRUE

HasDestination(t) == trips[t].destination # NoCenter

ArriveDestination(r) ==
  \E t \in InPhase("IN_TRANSIT") :
    /\ HasDestination(t)
    /\ Begin(r, "arriveDestination",
         [TripFrame(t, "arriveDestination", "event", "AT_DESTINATION_ARRIVED")
            EXCEPT !.event = "ARRIVED_DESTINATION",
                   !.center = trips[t].destination, !.queue = "UNLOADING"])

StartUnloading(r) ==
  \E t \in InPhase("AT_DESTINATION_ARRIVED") :
    Begin(r, "startUnloading",
      [TripFrame(t, "startUnloading", "select", "AT_DESTINATION_UNLOADING")
         EXCEPT !.queue = "UNLOADING"])

EndUnloading(r) ==
  \E t \in InPhase("AT_DESTINATION_UNLOADING") :
    /\ HasDestination(t)
    /\ Begin(r, "endUnloading",
         [TripFrame(t, "endUnloading", "event",
                    "AT_DESTINATION_UNLOADING_ENDED")
            EXCEPT !.event = "UNLOADING_ENDED",
                   !.center = trips[t].destination])

(* Mutation of CompleteTrip: a trip being unloaded may be completed.       *)
CompleteEarly(r) ==
  \E t \in InPhase("AT_DESTINATION_UNLOADING") :
    Begin(r, "completeTrip",
      TripFrame(t, "completeTrip", "complete", "COMPLETED"))

CompleteTrip(r) ==
  \E t \in InPhase("AT_DESTINATION_UNLOADING_ENDED") :
    Begin(r, "completeTrip",
      TripFrame(t, "completeTrip", "complete", "COMPLETED"))

(* POST /trips/:id/events: any event type in any phase.                    *)
PostEvent(r) ==
  \E t \in DOMAIN trips, ev \in PostedEvents, c \in Centers,
     d \in RequestedCenters \cup {NoCenter} :
    /\ ev # "READY_TO_EXIT" => d = NoCenter
    /\ Begin(r, "postEvent",
         [TripFrame(t, "postEvent", "event", NoPhase)
            EXCEPT !.event = ev, !.center = c, !.dest = d])

(* POST /centers/:id/queue: the vehicle need not be the vehicle of the     *)
(* trip.                                                                   *)
AddToQueue(r) ==
  \E t \in DOMAIN trips, v \in Vehicles, c \in Centers, q \in QueueType :
    Begin(r, "addToQueue",
      [Idle EXCEPT !.op = "addToQueue", !.pc = "check", !.trip = t,
                   !.vehicle = v, !.center = c, !.queue = q])

(* POST /vehicles/:id/queue/start and POST /centers/:id/queue/next: some   *)
(* active row of today is selected, by vehicle or as the first of a line.  *)
StartService(r) ==
  \E e \in DOMAIN entries :
    /\ entries[e].active /\ entries[e].day = today
    /\ Begin(r, "startService",
         [Idle EXCEPT !.op = "startService", !.pc = "deactivate", !.entry = e])
-----------------------------------------------------------------------------
(* createTrip: the INSERT.  A destination given here has been looked up.   *)
InsertTrip(r) ==
  /\ slot[r].pc = "insertTrip"
  /\ Trips \ DOMAIN trips # {}
  /\ \E c \in Centers, p \in TripPurpose,
        d \in (RequestedCenters \cap Centers) \cup {NoCenter} :
       LET t == FreshId(Trips, trips) IN
       /\ trips' = InsertRow(trips, t,
                     [vehicle |-> slot[r].vehicle, origin |-> c,
                      destination |-> d, purpose |-> p,
                      status |-> "ONGOING", phase |-> "AT_ORIGIN_ARRIVED"])
       /\ slot' = [slot EXCEPT ![r] =
                     [slot[r] EXCEPT !.pc = "event", !.trip = t,
                                     !.event = "ARRIVED", !.center = c]]
  /\ UNCHANGED <<entries, today, events, vehicles>>

(* Mutation of AfterTripEvent: arriveDestination skips the queue.          *)
AfterEventNoQueue(f) ==
  IF f.op \in {"createTrip", "postEvent"} THEN "idle" ELSE "phase"

(* What a handler runs after createTripEvent returns.                      *)
AfterTripEvent(f) ==
  CASE f.op = "arriveDestination"         -> "check"
    [] f.op \in {"createTrip", "postEvent"} -> "idle"
    [] OTHER                              -> "phase"

(* Mutation of KnownCenter: any id a client sends is a center.             *)
AnyCenterId(d) == d # NoCenter

KnownCenter(d) == d \in Centers

(* createTripEvent: the INSERT.  READY_TO_EXIT leaves the vehicle alone    *)
(* and sets the destination if the requested center is known; an unknown   *)
(* one is logged and skipped.                                              *)
InsertEvent(s) ==
  /\ slot[s].pc = "event"
  /\ events' = [events EXCEPT ![slot[s].trip] = @ \cup {slot[s].event}]
  /\ Goto(s, IF slot[s].event # "READY_TO_EXIT" THEN "vehicle"
             ELSE IF KnownCenter(slot[s].dest) THEN "destination"
             ELSE AfterTripEvent(slot[s]))
  /\ UNCHANGED <<entries, today, trips, vehicles>>

(* Mutation of VehicleAfter: a vehicle that has left keeps its center.     *)
VehicleNeverLeaves(ev, c) ==
  CASE ev \in {"ARRIVED", "ARRIVED_DESTINATION", "QUEUED"} ->
         [status |-> "WAITING_IN_QUEUE", center |-> c]
    [] ev = "SERVICE_STARTED" -> [status |-> "LOADING", center |-> c]
    [] ev \in {"LOADING_ENDED", "UNLOADING_ENDED"} ->
         [status |-> "AVAILABLE", center |-> c]
    [] ev = "EXITED" -> [status |-> "IN_TRANSIT", center |-> c]

(* updateVehicleStatusFromEvent: the row an event leaves the vehicle with. *)
VehicleAfter(ev, c) ==
  CASE ev \in {"ARRIVED", "ARRIVED_DESTINATION", "QUEUED"} ->
         [status |-> "WAITING_IN_QUEUE", center |-> c]
    [] ev = "SERVICE_STARTED" -> [status |-> "LOADING", center |-> c]
    [] ev \in {"LOADING_ENDED", "UNLOADING_ENDED"} ->
         [status |-> "AVAILABLE", center |-> c]
    [] ev = "EXITED" -> [status |-> "IN_TRANSIT", center |-> NoCenter]

(* Mutation of AutoAdd: the vehicle joins the wrong queue.                 *)
AutoAddToUnloading(f) ==
  [Idle EXCEPT !.op = "autoAdd", !.pc = "check", !.trip = f.trip,
     !.vehicle = f.vehicle, !.center = f.center, !.queue = "UNLOADING"]

(* addVehicleToQueueAutomatically, as createTrip calls it.                 *)
AutoAdd(f) ==
  [Idle EXCEPT !.op = "autoAdd", !.pc = "check", !.trip = f.trip,
     !.vehicle = f.vehicle, !.center = f.center, !.queue = "LOADING"]

(* createTripEvent: the UPDATE of the vehicle.  At the end of createTrip   *)
(* the request returns and its background job is born.                     *)
UpdateVehicle(s) ==
  /\ slot[s].pc = "vehicle"
  /\ vehicles' = [vehicles EXCEPT ![trips[slot[s].trip].vehicle] =
                    VehicleAfter(slot[s].event, slot[s].center)]
  /\ IF slot[s].op = "createTrip"
     THEN slot' = [slot EXCEPT ![s] = Idle, ![slot[s].trip] = AutoAdd(slot[s])]
     ELSE Goto(s, AfterTripEvent(slot[s]))
  /\ UNCHANGED <<entries, today, trips, events>>

(* createTripEvent: the UPDATE of the destination.                         *)
UpdateDestination(s) ==
  /\ slot[s].pc = "destination"
  /\ trips' = [trips EXCEPT ![slot[s].trip].destination = slot[s].dest]
  /\ Goto(s, AfterTripEvent(slot[s]))
  /\ UNCHANGED <<entries, today, events, vehicles>>
-----------------------------------------------------------------------------
(* Mutation of AfterAdd: arriveDestination returns too soon.               *)
ReturnAfterAdd(f) == "idle"

(* What follows addToQueue, whether it inserted a row or refused.          *)
AfterAdd(f) == IF f.op = "arriveDestination" THEN "phase" ELSE "idle"

(* addToQueue: the "already in queue" SELECT.  addVehicleToQueueAutomat-   *)
(* ically swallows the refusal; the endpoint answers 400.                  *)
CheckQueue(s) ==
  /\ slot[s].pc = "check"
  /\ Goto(s, IF AlreadyQueued(slot[s].vehicle, slot[s].center, slot[s].queue)
             THEN AfterAdd(slot[s]) ELSE "insertEntry")
  /\ UNCHANGED <<entries, today, trips, events, vehicles>>

(* addToQueue: the INSERT.                                                 *)
AddEntry(s) ==
  /\ slot[s].pc = "insertEntry"
  /\ InsertEntry(slot[s].center, slot[s].queue, slot[s].vehicle, slot[s].trip)
  /\ Goto(s, "queuedEvent")
  /\ UNCHANGED <<today, trips, events, vehicles>>

(* addToQueue: the QUEUED event, inserted without updating the vehicle.    *)
RecordQueued(s) ==
  /\ slot[s].pc = "queuedEvent"
  /\ events' = [events EXCEPT ![slot[s].trip] = @ \cup {"QUEUED"}]
  /\ Goto(s, AfterAdd(slot[s]))
  /\ UNCHANGED <<entries, today, trips, vehicles>>

(* startServiceByVehicleId: the SELECT; 404 if there is no such row.       *)
SelectEntry(s) ==
  /\ slot[s].pc = "select"
  /\ LET found == Startable(slot[s].vehicle, slot[s].queue, today) IN
       \/ \E e \in found :
            slot' = [slot EXCEPT ![s] =
                       [slot[s] EXCEPT !.pc = "deactivate", !.entry = e]]
       \/ found = {} /\ Goto(s, "idle")
  /\ UNCHANGED <<entries, today, trips, events, vehicles>>

(* executeStartService: the UPDATE of the row.                             *)
DeactivateEntry(s) ==
  /\ slot[s].pc = "deactivate"
  /\ Deactivate(slot[s].entry)
  /\ Goto(s, "serviceEvent")
  /\ UNCHANGED <<today, trips, events, vehicles>>

(* executeStartService: SERVICE_STARTED, recorded for the trip of the row, *)
(* without updating the vehicle.                                           *)
RecordService(s) ==
  /\ slot[s].pc = "serviceEvent"
  /\ events' = [events EXCEPT
                  ![entries[slot[s].entry].trip] = @ \cup {"SERVICE_STARTED"}]
  /\ Goto(s, IF slot[s].op = "startService" THEN "idle" ELSE "phase")
  /\ UNCHANGED <<entries, today, trips, vehicles>>
-----------------------------------------------------------------------------
(* Mutation of UpdatePhase: the row the handler read is saved as a whole.  *)
SaveTripWithPhase(s) ==
  /\ slot[s].pc = "phase"
  /\ trips' = [trips EXCEPT ![slot[s].trip].phase = slot[s].next,
                            ![slot[s].trip].status = "ONGOING"]
  /\ Goto(s, IF /\ slot[s].op = "endUnloading"
                /\ trips[slot[s].trip].purpose = "DELIVERY"
             THEN "readForComplete" ELSE "idle")
  /\ UNCHANGED <<entries, today, events, vehicles>>

(* updateTripPhase: an UPDATE by id, whatever the phase is by now.         *)
UpdatePhase(s) ==
  /\ slot[s].pc = "phase"
  /\ trips' = [trips EXCEPT ![slot[s].trip].phase = slot[s].next]
  /\ Goto(s, IF /\ slot[s].op = "endUnloading"
                /\ trips[slot[s].trip].purpose = "DELIVERY"
             THEN "readForComplete" ELSE "idle")
  /\ UNCHANGED <<entries, today, events, vehicles>>

(* endUnloading of a DELIVERY calls completeTrip, which reads the trip     *)
(* again and returns or throws unless unloading has ended.                 *)
ReadForComplete(s) ==
  /\ slot[s].pc = "readForComplete"
  /\ Goto(s, IF slot[s].trip \in InPhase("AT_DESTINATION_UNLOADING_ENDED")
             THEN "complete" ELSE "idle")
  /\ UNCHANGED <<entries, today, trips, events, vehicles>>

(* completeTrip: the UPDATE of the trip.                                   *)
FinishTrip(s) ==
  /\ slot[s].pc = "complete"
  /\ trips' = [trips EXCEPT ![slot[s].trip].status = "COMPLETED",
                            ![slot[s].trip].phase = "COMPLETED"]
  /\ Goto(s, "completeVehicle")
  /\ UNCHANGED <<entries, today, events, vehicles>>

(* completeTrip: the UPDATE of the vehicle's status.                       *)
FreeVehicle(s) ==
  /\ slot[s].pc = "completeVehicle"
  /\ vehicles' = [vehicles EXCEPT ![slot[s].vehicle].status = "AVAILABLE"]
  /\ Goto(s, "idle")
  /\ UNCHANGED <<entries, today, trips, events>>
-----------------------------------------------------------------------------
(* Mutation of AfterFailure: actions catch every error and write the phase.*)
CatchEverything(f) == IF f.next = NoPhase THEN "idle" ELSE "phase"

(* arriveDestination catches the failure of its queue insertion and goes   *)
(* on to its phase.                                                        *)
AfterFailure(f) ==
  IF /\ f.op = "arriveDestination"
     /\ f.pc \in {"check", "insertEntry", "queuedEvent"}
  THEN "phase" ELSE "idle"

(* A statement fails and the request answers 500, or the job is logged.    *)
Fail(s) ==
  /\ MayFail
  /\ slot[s].pc # "idle"
  /\ Goto(s, AfterFailure(slot[s]))
  /\ UNCHANGED <<entries, today, trips, events, vehicles>>

(* The process dies: the tables stay, requests and background jobs go.     *)
Crash ==
  /\ MayFail
  /\ slot' = [s \in Slots |-> Idle]
  /\ UNCHANGED <<entries, today, trips, events, vehicles>>

Midnight ==
  /\ NextDay
  /\ UNCHANGED <<entries, trips, events, vehicles, slot>>

Call(r) ==
  \/ CreateTrip(r)        \/ StartLoading(r)   \/ EndLoading(r)
  \/ SetDestination(r)    \/ ExitOrigin(r)     \/ ArriveDestination(r)
  \/ StartUnloading(r)    \/ EndUnloading(r)   \/ CompleteTrip(r)
  \/ PostEvent(r)         \/ AddToQueue(r)     \/ StartService(r)

Continue(s) ==
  \/ InsertTrip(s)        \/ InsertEvent(s)    \/ UpdateVehicle(s)
  \/ UpdateDestination(s) \/ CheckQueue(s)     \/ AddEntry(s)
  \/ RecordQueued(s)      \/ SelectEntry(s)    \/ DeactivateEntry(s)
  \/ RecordService(s)     \/ UpdatePhase(s)    \/ ReadForComplete(s)
  \/ FinishTrip(s)        \/ FreeVehicle(s)

Next ==
  \/ \E r \in Requests : Call(r)
  \/ \E s \in Slots : Continue(s) \/ Fail(s)
  \/ Crash
  \/ Midnight

Spec == Init /\ [][Next]_vars

(* Statements of a request are answered, and agents keep calling the       *)
(* actions the phase of a trip allows.  No fairness for Fail, Crash,       *)
(* Midnight.                                                               *)
FairSpec ==
  /\ Spec
  /\ \A s \in Slots : WF_vars(Continue(s))
  /\ \A r \in Requests : WF_vars(Call(r))
-----------------------------------------------------------------------------
(* The steps of the audit trail a phase stands on: the events recorded by  *)
(* the actions that lead to it, ARRIVED, QUEUED and SERVICE_STARTED left   *)
(* out (they are inserted after the trip, or for another trip).            *)
EventsBefore(phase) ==
  CASE phase = "AT_ORIGIN_LOADING_ENDED" -> {"LOADING_ENDED"}
    [] phase = "READY_TO_EXIT" -> {"LOADING_ENDED", "READY_TO_EXIT"}
    [] phase = "IN_TRANSIT" -> {"LOADING_ENDED", "READY_TO_EXIT", "EXITED"}
    [] phase \in {"AT_DESTINATION_ARRIVED", "AT_DESTINATION_UNLOADING"} ->
         {"LOADING_ENDED", "READY_TO_EXIT", "EXITED", "ARRIVED_DESTINATION"}
    [] phase \in {"AT_DESTINATION_UNLOADING_ENDED", "COMPLETED"} ->
         {"LOADING_ENDED", "READY_TO_EXIT", "EXITED", "ARRIVED_DESTINATION",
          "UNLOADING_ENDED"}
    [] OTHER -> {}

AtDestination ==
  {"AT_DESTINATION_ARRIVED", "AT_DESTINATION_UNLOADING",
   "AT_DESTINATION_UNLOADING_ENDED", "COMPLETED"}

(* Whatever the interleaving of requests, duplicated calls, failures and   *)
(* crashes, a trip is never shown in a phase whose earlier steps are       *)
(* missing from its audit trail: each action inserts its event before it   *)
(* writes the phase, and acts on a phase it read.                          *)
PhaseHistory ==
  \A t \in DOMAIN trips : EventsBefore(trips[t].phase) \subseteq events[t]

(* A trip that was completed keeps a full history and a destination, even  *)
(* if a late request then writes an older phase over COMPLETED.            *)
CompletedHistory ==
  \A t \in DOMAIN trips :
    trips[t].status = "COMPLETED" =>
      /\ EventsBefore("COMPLETED") \subseteq events[t]
      /\ trips[t].destination # NoCenter

(* From arrival on a trip has a destination: arriveDestination tests the   *)
(* row it read, and no handler clears the column.                          *)
DestinationReached ==
  \A t \in DOMAIN trips :
    trips[t].phase \in AtDestination => trips[t].destination # NoCenter

(* The statements each handler is made of.                                 *)
EventSteps == {"event", "vehicle", "destination"}

QueueSteps == {"check", "insertEntry", "queuedEvent"}

ServiceSteps == {"deactivate", "serviceEvent"}

Statements(op) ==
  CASE op = "none" -> {"idle"}
    [] op = "createTrip" -> {"insertTrip"} \cup EventSteps
    [] op = "postEvent" -> EventSteps
    [] op \in {"autoAdd", "addToQueue"} -> QueueSteps
    [] op = "startService" -> ServiceSteps
    [] op \in {"startLoading", "startUnloading"} ->
         ServiceSteps \cup {"select", "phase"}
    [] op \in {"endLoading", "setDestination", "exitOrigin"} ->
         EventSteps \cup {"phase"}
    [] op = "arriveDestination" -> EventSteps \cup QueueSteps \cup {"phase"}
    [] op = "endUnloading" -> EventSteps \cup
         {"phase", "readForComplete", "complete", "completeVehicle"}
    [] op = "completeTrip" -> {"complete", "completeVehicle"}

(* What frame f relies on, in the tables tr (trips), ev (trip_events) and  *)
(* rows (the ids of center_queues).                                        *)
FrameHolds(f, tr, ev, rows) ==
  /\ f.pc \in Statements(f.op)
  /\ f.trip # NoTrip => f.trip \in DOMAIN tr
  /\ f.op \notin {"none", "startService"} /\ f.pc # "insertTrip" =>
       f.trip # NoTrip
  /\ f.op \notin {"none", "startService"} => f.vehicle # NoVehicle
  /\ f.pc \in {"event", "vehicle"} => f.event # NoEvent
  /\ f.pc = "vehicle" => f.event # "READY_TO_EXIT"
  /\ f.pc = "destination" => f.dest \in Centers
  /\ f.op = "createTrip" /\ f.pc # "insertTrip" => f.center # NoCenter
  /\ f.op \in {"arriveDestination", "autoAdd", "addToQueue"} =>
       f.center # NoCenter /\ f.queue # NoQueue
  /\ f.pc \in ServiceSteps => f.entry \in rows
  /\ f.op \in TripAction <=> f.next # NoPhase
  /\ f.op \in {"endUnloading", "completeTrip"} =>
       f.next \in {"AT_DESTINATION_UNLOADING_ENDED", "COMPLETED"}
  /\ f.next # NoPhase =>
       /\ f.trip # NoTrip
       /\ \A e \in EventsBefore(f.next) :
            e \in ev[f.trip] \/ (f.pc = "event" /\ e = f.event)
       /\ f.next \in AtDestination => tr[f.trip].destination # NoCenter

(* What a request or a background job read before an await still holds     *)
(* when it is used, whatever the others did in between: the trip and the   *)
(* queue row are there, the trip has the history of the phase about to be  *)
(* written (but for the event about to be inserted), and its destination.  *)
FramesHold ==
  \A s \in Slots : FrameHolds(slot[s], trips, events, DOMAIN entries)

(* trips.schema.ts: "only one active (ONGOING) trip at a time".            *)
OneOngoingTrip ==
  \A t, u \in DOMAIN trips :
    /\ trips[t].vehicle = trips[u].vehicle
    /\ trips[t].status = "ONGOING"
    /\ trips[u].status = "ONGOING"
    => t = u

(* TRIP_CENTRIC_API.md: "Each action validates the current phase, updates  *)
(* phase".  A trip moves through its phases one at a time and never back.  *)
NextPhase(phase) ==
  CASE phase = "AT_ORIGIN_ARRIVED"        -> "AT_ORIGIN_LOADING"
    [] phase = "AT_ORIGIN_LOADING"        -> "AT_ORIGIN_LOADING_ENDED"
    [] phase = "AT_ORIGIN_LOADING_ENDED"  -> "READY_TO_EXIT"
    [] phase = "READY_TO_EXIT"            -> "IN_TRANSIT"
    [] phase = "IN_TRANSIT"               -> "AT_DESTINATION_ARRIVED"
    [] phase = "AT_DESTINATION_ARRIVED"   -> "AT_DESTINATION_UNLOADING"
    [] phase = "AT_DESTINATION_UNLOADING" -> "AT_DESTINATION_UNLOADING_ENDED"
    [] OTHER                              -> "COMPLETED"

PhasesInOrder ==
  [][\A t \in DOMAIN trips :
       trips'[t].phase \in {trips[t].phase, NextPhase(trips[t].phase)}]_trips

Record ==
  INSTANCE TripRecord WITH
    Phases <- TripPhase, Events <- TripEventType,
    Before <- [p \in TripPhase |-> EventsBefore(p)], Bound <- AtDestination,
    Start <- "AT_ORIGIN_ARRIVED", End <- "COMPLETED",
    phase <- [t \in DOMAIN trips |-> trips[t].phase],
    trail <- events,
    heading <- {t \in DOMAIN trips : trips[t].destination # NoCenter},
    completed <- {t \in DOMAIN trips : trips[t].status = "COMPLETED"}

(* However requests overlap, repeat, fail or crash, every statement keeps  *)
(* the record of the trips: no event is lost, no phase is shown before its *)
(* events and its destination are in, a late UPDATE of a phase undoes      *)
(* neither a destination nor a completion.                                 *)
RecordKept == Record!Spec

(* No request or job is at work on the trip.                               *)
Quiet(t) == \A s \in Slots : slot[s].trip # t

QueuedFor(t, c, q) ==
  \E e \in DOMAIN entries :
    /\ entries[e].active
    /\ entries[e].trip = t
    /\ entries[e].vehicle = trips[t].vehicle
    /\ entries[e].center = c
    /\ entries[e].type = q

(* TRIP_CENTRIC_API.md, AT_ORIGIN_ARRIVED: "vehicle at origin in LOADING   *)
(* queue", once the background job is over.                                *)
ArrivedInLoadingQueue ==
  \A t \in DOMAIN trips :
    trips[t].phase = "AT_ORIGIN_ARRIVED" /\ Quiet(t) =>
      QueuedFor(t, trips[t].origin, "LOADING")

(* TRIP_CENTRIC_API.md, AT_DESTINATION_ARRIVED: "in UNLOADING queue".      *)
ArrivedInUnloadingQueue ==
  \A t \in DOMAIN trips :
    trips[t].phase = "AT_DESTINATION_ARRIVED" /\ Quiet(t) =>
      QueuedFor(t, trips[t].destination, "UNLOADING")

(* startLoading: "starts queue service, creates SERVICE_STARTED event": a  *)
(* trip being loaded or past it has the event in its own audit trail.      *)
ServiceOnRecord ==
  \A t \in DOMAIN trips :
    trips[t].phase # "AT_ORIGIN_ARRIVED" => "SERVICE_STARTED" \in events[t]

(* Between two actions the vehicle of an ongoing trip is where, and as,    *)
(* the phase of the trip says (but for the phases in which it is served:   *)
(* starting a service leaves the vehicle as it was).                       *)
VehicleTracksTrip ==
  \A t \in DOMAIN trips :
    trips[t].status = "ONGOING" /\ Quiet(t) =>
      LET row == vehicles[trips[t].vehicle]
          origin == trips[t].origin
          destination == trips[t].destination
      IN
      CASE trips[t].phase = "AT_ORIGIN_ARRIVED" ->
             row = [status |-> "WAITING_IN_QUEUE", center |-> origin]
        [] trips[t].phase \in {"AT_ORIGIN_LOADING_ENDED", "READY_TO_EXIT"} ->
             row = [status |-> "AVAILABLE", center |-> origin]
        [] trips[t].phase = "IN_TRANSIT" ->
             row = [status |-> "IN_TRANSIT", center |-> NoCenter]
        [] trips[t].phase = "AT_DESTINATION_ARRIVED" ->
             row = [status |-> "WAITING_IN_QUEUE", center |-> destination]
        [] trips[t].phase = "AT_DESTINATION_UNLOADING_ENDED" ->
             row = [status |-> "AVAILABLE", center |-> destination]
        [] OTHER -> TRUE

(* Every trip that is created is completed, PICKUP by an explicit call.    *)
TripsComplete ==
  \A t \in Trips :
    t \in DOMAIN trips ~> (t \in DOMAIN trips /\ trips[t].status = "COMPLETED")
=============================================================================
