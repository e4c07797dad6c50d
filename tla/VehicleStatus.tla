--------------------------- MODULE VehicleStatus ---------------------------
(***************************************************************************)
(* What VehiclesService changes in a vehicle by hand: its status with the  *)
(* current center and the history of status changes, the center it is      *)
(* assigned to, the current center of many vehicles at once.  Trip events  *)
(* write the same columns.                                                 *)
(*                                                                         *)
(* Each SQL statement is one step, with the code up to the next one; there *)
(* is no transaction.  One account: all statements name it.                *)
(***************************************************************************)
EXTENDS Naturals, Sequences, FiniteSets

CONSTANTS
  Vehicles, Centers,
  None,          \* SQL's NULL, and a field that a request leaves out
  Asked,         \* bound: the statuses that requests and trip events name
  Requests,      \* slots for concurrent HTTP requests
  MaxChanges,    \* bound: manual changes of status
  MaxMishaps     \* bound: failed statements and crashes

Statuses == {"AVAILABLE", "IN_TRANSIT", "WAITING_IN_QUEUE", "LOADING",
             "UNLOADING", "IN_GARAGE"}

ASSUME VehicleStatusAssumption ==
  /\ None \notin Centers
  /\ Asked \subseteq Statuses
  /\ MaxChanges \in Nat /\ MaxMishaps \in Nat

VARIABLES
  vehicles,   \* table vehicles: a function from ids to rows
  centers,    \* the ids in table centers
  history,    \* table vehicle_status_history: of each vehicle, the statuses
              \* in the order of the rows
  byHand,     \* of each vehicle, the statuses updateVehicleStatus has written
  slot,       \* what each request is doing
  mishaps     \* failed statements and crashes so far

vars == <<vehicles, centers, history, byHand, slot, mishaps>>

(* status; the center it is at (current_center_id); the center it is       *)
(* assigned to (center_id).                                                *)
Row == [status : Statuses, at : Centers \cup {None}, home : Centers \cup {None}]

Idle == [pc |-> "idle"]

(* The locals of a handler that live across an await: updateVehicleStatus  *)
(* keeps what was asked and the row it read, the others the center to set. *)
Frame ==
  {Idle} \cup
  [pc : {"find"}, vehicle : Vehicles, status : Asked,
   center : Centers \cup {None}] \cup
  [pc : {"checkCenter", "update"}, vehicle : Vehicles, status : Asked,
   center : Centers \cup {None}, row : Row] \cup
  [pc : {"logCenter", "log"}, vehicle : Vehicles, status : Asked,
   center : Centers \cup {None}] \cup
  [pc : {"assignCenter", "assign", "placeCenter", "place"},
   vehicle : Vehicles, center : Centers \cup {None}]

TypeOK ==
  /\ DOMAIN vehicles \subseteq Vehicles
  /\ centers \subseteq Centers
  /\ vehicles \in [DOMAIN vehicles -> [status : Statuses,
                                       at : centers \cup {None},
                                       home : centers \cup {None}]]
  /\ history \in [DOMAIN vehicles -> Seq(Statuses)]
  /\ byHand \in [DOMAIN vehicles -> Seq(Statuses)]
  /\ slot \in [Requests -> Frame]
  /\ mishaps \in 0..MaxMishaps

Init ==
  /\ vehicles = [v \in Vehicles |->
                   [status |-> "AVAILABLE", at |-> None, home |-> None]]
  /\ centers = Centers
  /\ history = [v \in Vehicles |-> <<>>]
  /\ byHand = [v \in Vehicles |-> <<>>]
  /\ slot = [r \in Requests |-> Idle]
  /\ mishaps = 0
-----------------------------------------------------------------------------
Goto(r, frame) == slot' = [slot EXCEPT ![r] = frame]
At(r, pc) == slot[r].pc = pc
Known(v) == v \in DOMAIN vehicles
Without(table, keys) == [k \in DOMAIN table \ keys |-> table[k]]

(* Mutation of Stands: the foreign keys are dropped.                       *)
AnyCenter(c) == TRUE

(* The foreign keys on center_id and current_center_id.                    *)
Stands(c) == c = None \/ c \in centers

Mishap ==
  /\ mishaps < MaxMishaps
  /\ mishaps' = mishaps + 1

NeedsCenter == {"WAITING_IN_QUEUE", "LOADING", "UNLOADING"}

(* Changes that are made or under way, for the bound.                      *)
ChangesOf(v) ==
  (IF Known(v) THEN Len(byHand[v]) ELSE 0)
    + Cardinality({r \in Requests :
                     /\ slot[r].pc \in {"find", "checkCenter", "update"}
                     /\ slot[r].vehicle = v})

(* PUT of the status: a status and, perhaps, a center.                     *)
ChangeStatus(r) ==
  /\ slot[r] = Idle
  /\ \E v \in Vehicles, s \in Asked, c \in Centers \cup {None} :
       /\ ChangesOf(v) < MaxChanges
       /\ Goto(r, [pc |-> "find", vehicle |-> v, status |-> s, center |-> c])
  /\ UNCHANGED <<vehicles, centers, history, byHand, mishaps>>

(* "Unchanged" is judged by the row that was read first: then the request  *)
(* ends there, else the UPDATE comes next.                                 *)
UnlessUnchanged(r, c, row) ==
  IF row.status = slot[r].status /\ row.at = c
  THEN Goto(r, Idle)
  ELSE Goto(r, [pc |-> "update", vehicle |-> slot[r].vehicle,
                status |-> slot[r].status, center |-> c, row |-> row])

(* updateVehicleStatus: the SELECT by id, and the one by third-party id,   *)
(* which is the same number.  404 without the row; 400 without a center    *)
(* where one is needed.                                                    *)
FindVehicle(r) ==
  /\ At(r, "find")
  /\ LET f == slot[r] IN
       \/ ~ Known(f.vehicle) /\ Goto(r, Idle)
       \/ /\ Known(f.vehicle)
          /\ f.status = "IN_GARAGE"
          /\ UnlessUnchanged(r, None, vehicles[f.vehicle])
       \/ /\ Known(f.vehicle)
          /\ f.status # "IN_GARAGE" /\ f.center # None
          /\ Goto(r, [pc |-> "checkCenter", vehicle |-> f.vehicle,
                      status |-> f.status, center |-> f.center,
                      row |-> vehicles[f.vehicle]])
       \/ /\ Known(f.vehicle)
          /\ f.status # "IN_GARAGE" /\ f.center = None
          /\ IF f.status \in NeedsCenter THEN Goto(r, Idle)
             ELSE UnlessUnchanged(r, None, vehicles[f.vehicle])
  /\ UNCHANGED <<vehicles, centers, history, byHand, mishaps>>

(* updateVehicleStatus: the SELECT of the center, by id and by geozone,    *)
(* which is the same number; 404 without it.                               *)
CheckCenter(r) ==
  /\ At(r, "checkCenter")
  /\ IF slot[r].center \in centers
     THEN UnlessUnchanged(r, slot[r].center, slot[r].row)
     ELSE Goto(r, Idle)
  /\ UNCHANGED <<vehicles, centers, history, byHand, mishaps>>

(* updateVehicleStatus: the UPDATE.  The foreign key rejects a center that *)
(* is gone by now.  A vehicle that is gone is not updated, but logged.     *)
UpdateStatus(r) ==
  /\ At(r, "update")
  /\ LET f == slot[r] IN
       IF Stands(f.center)
       THEN /\ vehicles' = [v \in DOMAIN vehicles |->
                              IF v = f.vehicle
                              THEN [vehicles[v] EXCEPT !.status = f.status,
                                                       !.at = f.center]
                              ELSE vehicles[v]]
            /\ byHand' = [v \in DOMAIN vehicles |->
                            IF v = f.vehicle THEN Append(byHand[v], f.status)
                            ELSE byHand[v]]
            /\ Goto(r, [pc |-> IF f.center = None THEN "log" ELSE "logCenter",
                        vehicle |-> f.vehicle, status |-> f.status,
                        center |-> f.center])
       ELSE Goto(r, Idle) /\ UNCHANGED <<vehicles, byHand>>
  /\ UNCHANGED <<centers, history, mishaps>>

(* Mutation of LogCenter: a center that is gone is an error.               *)
LogKnownCenter(r) ==
  /\ At(r, "logCenter")
  /\ IF slot[r].center \in centers
     THEN Goto(r, [slot[r] EXCEPT !.pc = "log"]) ELSE Goto(r, Idle)
  /\ UNCHANGED <<vehicles, centers, history, byHand, mishaps>>

(* logStatusChange: the center is looked up again, by both ids; without it *)
(* the row has none.                                                       *)
LogCenter(r) ==
  /\ At(r, "logCenter")
  /\ Goto(r, [slot[r] EXCEPT !.pc = "log",
                             !.center = IF @ \in centers THEN @ ELSE None])
  /\ UNCHANGED <<vehicles, centers, history, byHand, mishaps>>

(* logStatusChange: the INSERT.  A vehicle or center that is gone makes it *)
(* fail (vehicle) or stand without the center; errors are swallowed.       *)
Log(r) ==
  /\ At(r, "log")
  /\ LET f == slot[r] IN
       history' = [v \in DOMAIN vehicles |->
                     IF v = f.vehicle /\ Stands(f.center)
                     THEN Append(history[v], f.status) ELSE history[v]]
  /\ Goto(r, Idle)
  /\ UNCHANGED <<vehicles, centers, byHand, mishaps>>
-----------------------------------------------------------------------------
(* PUT of the assignment: updateVehicleAssignment reads the vehicle (404   *)
(* without it).  A center in the request is looked up, null clears the     *)
(* assignment, and if the field is missing the one just read is kept.      *)
ChangeAssignment(r) ==
  /\ slot[r] = Idle
  /\ \E v \in DOMAIN vehicles :
       \/ \E c \in Centers :
            Goto(r, [pc |-> "assignCenter", vehicle |-> v, center |-> c])
       \/ \E c \in {None, vehicles[v].home} :
            Goto(r, [pc |-> "assign", vehicle |-> v, center |-> c])
  /\ UNCHANGED <<vehicles, centers, history, byHand, mishaps>>

(* One item of bulkUpdateVehicleAssignments, which sets the center the     *)
(* vehicle is at: the SELECT of the vehicle.  An item that fails is noted  *)
(* and the next one is taken up.                                           *)
ChangePlace(r) ==
  /\ slot[r] = Idle
  /\ \E v \in DOMAIN vehicles :
       \/ \E c \in Centers :
            Goto(r, [pc |-> "placeCenter", vehicle |-> v, center |-> c])
       \/ Goto(r, [pc |-> "place", vehicle |-> v, center |-> None])
  /\ UNCHANGED <<vehicles, centers, history, byHand, mishaps>>

(* Both: the SELECT of the center.                                         *)
FindCenter(r) ==
  /\ slot[r].pc \in {"assignCenter", "placeCenter"}
  /\ IF slot[r].center \in centers
     THEN Goto(r, [slot[r] EXCEPT
                     !.pc = IF @ = "placeCenter" THEN "place" ELSE "assign"])
     ELSE Goto(r, Idle)
  /\ UNCHANGED <<vehicles, centers, history, byHand, mishaps>>

(* updateVehicleAssignment: the UPDATE, under the foreign key.             *)
Assign(r) ==
  /\ At(r, "assign")
  /\ vehicles' =
       [v \in DOMAIN vehicles |->
          IF v = slot[r].vehicle /\ Stands(slot[r].center)
          THEN [vehicles[v] EXCEPT !.home = slot[r].center] ELSE vehicles[v]]
  /\ Goto(r, Idle)
  /\ UNCHANGED <<centers, history, byHand, mishaps>>

(* bulkUpdateVehicleAssignments: the UPDATE, under the foreign key.        *)
Place(r) ==
  /\ At(r, "place")
  /\ vehicles' =
       [v \in DOMAIN vehicles |->
          IF v = slot[r].vehicle /\ Stands(slot[r].center)
          THEN [vehicles[v] EXCEPT !.at = slot[r].center] ELSE vehicles[v]]
  /\ Goto(r, Idle)
  /\ UNCHANGED <<centers, history, byHand, mishaps>>
-----------------------------------------------------------------------------
(* The UPDATE of updateVehicleStatusFromEvent, or of completeTrip, in      *)
(* Trips: no history.                                                      *)
TripEvent ==
  /\ \E v \in DOMAIN vehicles, s \in Asked, c \in centers \cup {None} :
       vehicles' = [vehicles EXCEPT ![v].status = s, ![v].at = c]
  /\ UNCHANGED <<centers, history, byHand, slot, mishaps>>

(* DELETE of a vehicle; its history goes with it.  VehicleSync may create  *)
(* it again.                                                               *)
RemoveVehicle ==
  /\ \E v \in DOMAIN vehicles :
       /\ vehicles' = Without(vehicles, {v})
       /\ history' = Without(history, {v})
       /\ byHand' = Without(byHand, {v})
  /\ UNCHANGED <<centers, slot, mishaps>>

CreateVehicle ==
  /\ \E v \in Vehicles \ DOMAIN vehicles :
       LET all == DOMAIN vehicles \cup {v} IN
         /\ vehicles' = [w \in all |->
                           IF Known(w) THEN vehicles[w]
                           ELSE [status |-> "AVAILABLE", at |-> None,
                                 home |-> None]]
         /\ history' = [w \in all |-> IF Known(w) THEN history[w] ELSE <<>>]
         /\ byHand' = [w \in all |-> IF Known(w) THEN byHand[w] ELSE <<>>]
  /\ UNCHANGED <<centers, slot, mishaps>>

(* CentersService.remove (no endpoint calls it): the DELETE of a center,   *)
(* ON DELETE SET NULL in the vehicles.  Right before a history row that    *)
(* names it, the foreign key will reject that row, and the error is        *)
(* swallowed: that counts as a mishap.                                     *)
RemoveCenter ==
  /\ \E c \in centers :
       /\ centers' = centers \ {c}
       /\ vehicles' = [v \in DOMAIN vehicles |->
                         [vehicles[v] EXCEPT !.at = IF @ = c THEN None ELSE @,
                                             !.home = IF @ = c THEN None ELSE @]]
       /\ IF \E r \in Requests : At(r, "log") /\ slot[r].center = c
          THEN Mishap ELSE UNCHANGED mishaps
  /\ UNCHANGED <<history, byHand, slot>>

(* A statement fails, or the process dies: the request ends there.         *)
Fail(r) ==
  /\ slot[r] # Idle
  /\ Mishap
  /\ Goto(r, Idle)
  /\ UNCHANGED <<vehicles, centers, history, byHand>>

Next ==
  \/ \E r \in Requests :
       \/ ChangeStatus(r) \/ FindVehicle(r) \/ CheckCenter(r) \/ UpdateStatus(r)
       \/ LogCenter(r) \/ Log(r)
       \/ ChangeAssignment(r) \/ ChangePlace(r) \/ FindCenter(r)
       \/ Assign(r) \/ Place(r)
       \/ Fail(r)
  \/ TripEvent
  \/ RemoveVehicle \/ CreateVehicle \/ RemoveCenter

Spec == Init /\ [][Next]_vars
-----------------------------------------------------------------------------
CountIn(seq, s) == Cardinality({i \in DOMAIN seq : seq[i] = s})

(* vehicle-status-history.schema.ts: "Tracks all status changes for        *)
(* vehicles over time".  As often as a status was written by hand, it is   *)
(* in the history or about to be, also if its center has been removed      *)
(* meanwhile.  (A trip event is never there.)                              *)
ManualChangesLogged ==
  mishaps = 0 =>
    \A v \in DOMAIN vehicles, s \in Asked :
      CountIn(byHand[v], s) <=
        CountIn(history[v], s)
          + Cardinality({r \in Requests :
                           /\ slot[r].pc \in {"logCenter", "log"}
                           /\ slot[r].vehicle = v /\ slot[r].status = s})
=============================================================================
