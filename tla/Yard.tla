-------------------------------- MODULE Yard --------------------------------
(***************************************************************************)
(* ArrivalsService and ExitsService: arrivals with their processing        *)
(* stages, and exits, of the vehicles whose labels QrCodes reads; with the *)
(* requests that remove what their foreign keys refer to.                  *)
(*                                                                         *)
(* Each SQL statement is one step.  A center's id and its geozone id are   *)
(* one number, as are a user's id and its subid.                           *)
(***************************************************************************)
EXTENDS QrCodes, FiniteSets, FiniteSetsExt

CONSTANTS
  Centers, Agents,
  None,          \* SQL's NULL, and a field that a request leaves out
  Asked          \* bound: the statuses that requests name

ArrivalStatuses == {"ARRIVAL", "ARRIVED", "IN_PROCESSING", "COMPLETED",
                    "CANCELLED", "IN_TRANSIT", "EXITED"}

ASSUME YardAssumption ==
  Asked \subseteq ArrivalStatuses /\ None \notin Centers \cup ArrivalStatuses

VARIABLES
  centers,    \* table centers, as ids in the order of creation
  users,      \* table users, as ids in the order of creation
  arrivals,   \* tables: functions from serial ids to rows
  stages,     \*   (processing_stages)
  exits,
  raced       \* stages whose times were decided on a row that has changed

yardVars == <<centers, users, arrivals, stages, exits, raced>>

Never == 0

(* Times are numbers; of completedAt only counts whether it is set.        *)
Stage == [arrival : Nat, status : ArrivalStatuses \cup {None},
          started : Nat, completed : BOOLEAN]

YardFrame ==
  [pc : {"checkVehicle", "checkCenter", "checkDest", "record"},
   table : {"arrivals", "exits"}, vehicle : Vehicles, center : Centers,
   agent : Agents, destination : Centers \cup {None}] \cup
  [pc : {"findArrival", "setStatus"}, then : {"setStatus"},
   arrival : Nat, status : ArrivalStatuses] \cup
  [pc : {"findArrival", "addStage"}, then : {"addStage"},
   arrival : Nat, status : ArrivalStatuses \cup {None}] \cup
  [pc : {"findArrival", "findStage", "removeStage"},
   then : {"removeStage", "updateStage"}, arrival : Nat, stage : Nat,
   status : ArrivalStatuses \cup {None}] \cup
  [pc : {"updateStage"}, stage : Nat, status : ArrivalStatuses \cup {None},
   row : Stage] \cup
  [pc : {"findExit", "findDest", "updateExit"}, exit : Nat,
   destination : Centers \cup {None}] \cup
  [pc : {"findRemoved", "removeExit"}, exit : Nat]

(* With the foreign keys of the schemas.                                   *)
YardTypeOK ==
  /\ QrTypeOK
  /\ ToSet(centers) \subseteq Centers /\ ToSet(users) \subseteq Agents
  /\ \A table \in {arrivals, exits} : \A i \in DOMAIN table :
       /\ i \in 1..lastId
       /\ Known(table[i].vehicle)
       /\ table[i].center \in ToSet(centers)
       /\ table[i].agent \in ToSet(users)
  /\ \A i \in DOMAIN exits : exits[i].destination \in ToSet(centers) \cup {None}
  /\ \A i \in DOMAIN arrivals : arrivals[i].status \in ArrivalStatuses
  /\ \A table \in {arrivals, exits} : \A i \in DOMAIN table : table[i].at > Never
  /\ DOMAIN stages \subseteq 1..lastId
  /\ stages \in [DOMAIN stages -> Stage]
  /\ \A i \in DOMAIN stages : stages[i].arrival \in DOMAIN arrivals
  /\ slot \in [Requests -> {Idle} \cup QrFrame \cup YardFrame]
  /\ raced \subseteq DOMAIN stages
-----------------------------------------------------------------------------
Added(table, row) ==
  [i \in DOMAIN table \cup {lastId + 1} |->
     IF i = lastId + 1 THEN row ELSE table[i]]

Without(table, gone) == [i \in DOMAIN table \ gone |-> table[i]]

EndAt(r, pc) == At(r, pc) /\ Goto(r, Idle)

(* new Date(), when these times are in the table: it goes on or gives the  *)
(* same time again; and a request that another has overtaken since, writes *)
(* an older one.                                                           *)
Clock(times) ==
  IF times = {} THEN {2}
  ELSE LET latest == Max({2} \cup times) IN (latest - 1)..(latest + 1)

(* arrivedAt or exitedAt of a new row.                                     *)
Arriving(table) == Clock({table[i].at : i \in DOMAIN table})

(* Mutation of Stands: the foreign keys are dropped.                       *)
AnyRow(row) == TRUE

(* The foreign keys on vehicle_id, center_id, agent_id and created_by.     *)
Stands(row) ==
  /\ Known(row.vehicle)
  /\ row.center \in ToSet(centers)
  /\ row.agent \in ToSet(users)

(* createArrival and createExit begin alike.  The agent is the user who is *)
(* logged in: the row in users may not be there yet, or not any more.      *)
Create(r) ==
  /\ \E table \in {"arrivals", "exits"}, v \in Vehicles, c \in Centers,
        a \in Agents, d \in Centers \cup {None} :
       /\ table = "arrivals" => d = None
       /\ Begin(r, [pc |-> "checkVehicle", table |-> table, vehicle |-> v,
                    center |-> c, agent |-> a, destination |-> d])
  /\ UNCHANGED <<vehicles, qrCodes, lastId, key, labels, mishaps, yardVars>>

(* The SELECT of the vehicle; 404 without it.                              *)
CheckVehicle(r) ==
  /\ At(r, "checkVehicle")
  /\ IF Known(slot[r].vehicle)
     THEN Goto(r, [slot[r] EXCEPT !.pc = "checkCenter"])
     ELSE Goto(r, Idle)
  /\ UNCHANGED <<vehicles, qrCodes, lastId, key, labels, served, mishaps,
                 yardVars>>

(* The SELECT of the center; 404 without it.                               *)
CheckCenter(r) ==
  /\ At(r, "checkCenter")
  /\ \/ /\ slot[r].center \in ToSet(centers)
        /\ Goto(r, [slot[r] EXCEPT
                      !.pc = IF slot[r].destination = None THEN "record"
                             ELSE "checkDest"])
     \/ slot[r].center \notin ToSet(centers) /\ Goto(r, Idle)
  /\ UNCHANGED <<vehicles, qrCodes, lastId, key, labels, served, mishaps,
                 yardVars>>

(* The SELECT of an exit's destination; 404 without it.                    *)
CheckDestination(r) ==
  /\ At(r, "checkDest")
  /\ IF slot[r].destination \in ToSet(centers)
     THEN Goto(r, [slot[r] EXCEPT !.pc = "record"]) ELSE Goto(r, Idle)
  /\ UNCHANGED <<vehicles, qrCodes, lastId, key, labels, served, mishaps,
                 yardVars>>

(* createArrival: the INSERT, unless a foreign key rejects it.  The status *)
(* is that of the request, or ARRIVED.                                     *)
RecordArrival(r) ==
  /\ EndAt(r, "record") /\ slot[r].table = "arrivals"
  /\ \/ /\ Stands(slot[r])
        /\ lastId' = lastId + 1
        /\ \E s \in Asked \cup {"ARRIVED"}, at \in Arriving(arrivals) :
             arrivals' = Added(arrivals,
               [vehicle |-> slot[r].vehicle, center |-> slot[r].center,
                agent |-> slot[r].agent, status |-> s, at |-> at])
     \/ ~ Stands(slot[r]) /\ UNCHANGED <<lastId, arrivals>>
  /\ UNCHANGED <<vehicles, qrCodes, key, labels, served, mishaps,
                 centers, users, stages, exits, raced>>

(* createExit: likewise, with the foreign key on its destination.          *)
RecordExit(r) ==
  /\ EndAt(r, "record") /\ slot[r].table = "exits"
  /\ IF Stands(slot[r]) /\ slot[r].destination \in ToSet(centers) \cup {None}
     THEN /\ lastId' = lastId + 1
          /\ \E at \in Arriving(exits) :
               exits' = Added(exits,
                 [vehicle |-> slot[r].vehicle, center |-> slot[r].center,
                  agent |-> slot[r].agent, destination |-> slot[r].destination,
                  at |-> at])
     ELSE UNCHANGED <<lastId, exits>>
  /\ UNCHANGED <<vehicles, qrCodes, key, labels, served, mishaps,
                 centers, users, arrivals, stages, raced>>
-----------------------------------------------------------------------------
(* updateStatus, createProcessingStage, updateProcessingStage,             *)
(* removeProcessingStage: each first reads the arrival.                    *)
UseArrival(r) ==
  /\ \E s \in Asked \cup {None} :
       \/ \E a \in DOMAIN arrivals, op \in {"setStatus", "addStage"} :
            /\ op = "setStatus" => s # None
            /\ Begin(r, [pc |-> "findArrival", then |-> op, arrival |-> a,
                         status |-> s])
       \/ \E i \in DOMAIN stages, op \in {"removeStage", "updateStage"} :
            /\ op = "removeStage" => s = None
            /\ Begin(r, [pc |-> "findArrival", then |-> op,
                         arrival |-> stages[i].arrival, stage |-> i,
                         status |-> s])
  /\ UNCHANGED <<vehicles, qrCodes, lastId, key, labels, mishaps, yardVars>>

(* ArrivalsService.findOneById; 404 without the row.                       *)
FindArrival(r) ==
  /\ At(r, "findArrival")
  /\ \/ slot[r].arrival \notin DOMAIN arrivals /\ Goto(r, Idle)
     \/ /\ slot[r].arrival \in DOMAIN arrivals
        /\ Goto(r, [slot[r] EXCEPT
                      !.pc = IF slot[r].then \in {"setStatus", "addStage"}
                             THEN slot[r].then ELSE "findStage"])
  /\ UNCHANGED <<vehicles, qrCodes, lastId, key, labels, served, mishaps,
                 yardVars>>

(* updateStatus: the UPDATE by id, of any status to any other.             *)
SetStatus(r) ==
  /\ EndAt(r, "setStatus")
  /\ arrivals' = [a \in DOMAIN arrivals |->
                    IF a = slot[r].arrival
                    THEN [arrivals[a] EXCEPT !.status = slot[r].status]
                    ELSE arrivals[a]]
  /\ UNCHANGED <<vehicles, qrCodes, lastId, key, labels, served, mishaps,
                 centers, users, stages, exits, raced>>

(* createProcessingStage: the INSERT under the foreign key, without times  *)
(* whatever the status.                                                    *)
AddStage(r) ==
  /\ EndAt(r, "addStage")
  /\ IF slot[r].arrival \in DOMAIN arrivals
     THEN /\ lastId' = lastId + 1
          /\ stages' = Added(stages,
               [arrival |-> slot[r].arrival, status |-> slot[r].status,
                started |-> Never, completed |-> FALSE])
     ELSE UNCHANGED <<lastId, stages>>
  /\ UNCHANGED <<vehicles, qrCodes, key, labels, served, mishaps,
                 centers, users, arrivals, exits, raced>>

(* The SELECT of the stage by its id and its arrival; 404 without it.      *)
FindStage(r) ==
  /\ At(r, "findStage")
  /\ \/ slot[r].stage \notin DOMAIN stages /\ Goto(r, Idle)
     \/ /\ slot[r].stage \in DOMAIN stages /\ slot[r].then = "removeStage"
        /\ Goto(r, [slot[r] EXCEPT !.pc = "removeStage"])
     \/ /\ slot[r].stage \in DOMAIN stages /\ slot[r].then = "updateStage"
        /\ Goto(r, [pc |-> "updateStage", stage |-> slot[r].stage,
                    status |-> slot[r].status, row |-> stages[slot[r].stage]])
  /\ UNCHANGED <<vehicles, qrCodes, lastId, key, labels, served, mishaps,
                 yardVars>>

(* startedAt of a stage that starts.                                       *)
Starting == Clock({stages[i].started : i \in DOMAIN stages} \ {Never})

(* Mutation of Stamped: completedAt is not cleared.                        *)
StampedOnly(row, read, s, now) ==
  [row EXCEPT
     !.status = s,
     !.started = IF s = "IN_PROCESSING" /\ read.started = Never THEN now ELSE @,
     !.completed = @ \/ s = "COMPLETED"]

(* The times that follow a status: started and completed are set unless    *)
(* the row that was read has them, completed is cleared if that row has it *)
(* and the status is another.                                              *)
Stamped(row, read, s, now) ==
  [row EXCEPT
     !.status = s,
     !.started = IF s = "IN_PROCESSING" /\ read.started = Never THEN now ELSE @,
     !.completed = IF (s = "COMPLETED") # read.completed THEN s = "COMPLETED"
                   ELSE @]

(* updateProcessingStage: the UPDATE by id.  Without a status only the     *)
(* notes change.                                                           *)
UpdateStage(r) ==
  /\ EndAt(r, "updateStage")
  /\ LET i == slot[r].stage s == slot[r].status read == slot[r].row IN
       IF i \in DOMAIN stages /\ s # None
       THEN /\ \E now \in Starting :
                 stages' = [stages EXCEPT ![i] = Stamped(@, read, s, now)]
            /\ raced' = IF stages[i] = read THEN raced \ {i} ELSE raced \cup {i}
       ELSE UNCHANGED <<stages, raced>>
  /\ UNCHANGED <<vehicles, qrCodes, lastId, key, labels, served, mishaps,
                 centers, users, arrivals, exits>>

RemoveStage(r) ==
  /\ EndAt(r, "removeStage")
  /\ stages' = Without(stages, {slot[r].stage})
  /\ raced' = raced \ {slot[r].stage}
  /\ UNCHANGED <<vehicles, qrCodes, lastId, key, labels, served, mishaps,
                 centers, users, arrivals, exits>>
-----------------------------------------------------------------------------
(* ExitsService.update, of the destination, and remove.  What else update  *)
(* may write has no bearing here.                                          *)
UseExit(r) ==
  /\ \E e \in DOMAIN exits :
       \/ \E d \in Centers \cup {None} :
            Begin(r, [pc |-> "findExit", exit |-> e, destination |-> d])
       \/ Begin(r, [pc |-> "findRemoved", exit |-> e])
  /\ UNCHANGED <<vehicles, qrCodes, lastId, key, labels, mishaps, yardVars>>

(* ExitsService.findOneById; 404 without the row.                          *)
FindExit(r) ==
  /\ slot[r].pc \in {"findExit", "findRemoved"}
  /\ \/ slot[r].exit \notin DOMAIN exits /\ Goto(r, Idle)
     \/ /\ slot[r].exit \in DOMAIN exits /\ At(r, "findRemoved")
        /\ Goto(r, [slot[r] EXCEPT !.pc = "removeExit"])
     \/ /\ slot[r].exit \in DOMAIN exits /\ At(r, "findExit")
        /\ Goto(r, [slot[r] EXCEPT
                      !.pc = IF slot[r].destination = None THEN "updateExit"
                             ELSE "findDest"])
  /\ UNCHANGED <<vehicles, qrCodes, lastId, key, labels, served, mishaps,
                 yardVars>>

(* update: the SELECT of the destination; 404 without it.                  *)
FindDestination(r) ==
  /\ At(r, "findDest")
  /\ IF slot[r].destination \in ToSet(centers)
     THEN Goto(r, [slot[r] EXCEPT !.pc = "updateExit"]) ELSE Goto(r, Idle)
  /\ UNCHANGED <<vehicles, qrCodes, lastId, key, labels, served, mishaps,
                 yardVars>>

(* update: the UPDATE by id, under the foreign key.                        *)
UpdateExit(r) ==
  /\ EndAt(r, "updateExit")
  /\ exits' = [e \in DOMAIN exits |->
                 IF /\ e = slot[r].exit
                    /\ slot[r].destination \in ToSet(centers) \cup {None}
                 THEN [exits[e] EXCEPT !.destination = slot[r].destination]
                 ELSE exits[e]]
  /\ UNCHANGED <<vehicles, qrCodes, lastId, key, labels, served, mishaps,
                 centers, users, arrivals, stages, raced>>

RemoveExit(r) ==
  /\ EndAt(r, "removeExit")
  /\ exits' = Without(exits, {slot[r].exit})
  /\ UNCHANGED <<vehicles, qrCodes, lastId, key, labels, served, mishaps,
                 centers, users, arrivals, stages, raced>>
-----------------------------------------------------------------------------
Served == served < MaxRequests /\ served' = served + 1

Of(table, v) == {i \in DOMAIN table : table[i].vehicle = v}

(* VehiclesService.remove: the DELETE cascades to arrivals, their stages   *)
(* and exits.  qr_codes has no foreign key.                                *)
RemoveVehicle ==
  /\ Served
  /\ \E v \in ToSet(vehicles) :
       LET orphans == {i \in DOMAIN stages :
                         stages[i].arrival \in Of(arrivals, v)} IN
         /\ vehicles' = RemoveFirst(vehicles, v)
         /\ arrivals' = Without(arrivals, Of(arrivals, v))
         /\ stages' = Without(stages, orphans)
         /\ raced' = raced \ orphans
         /\ exits' = Without(exits, Of(exits, v))
  /\ UNCHANGED <<qrCodes, lastId, key, labels, slot, mishaps, centers, users>>

(* The INSERT of VehicleSync, or that of a user's first login.             *)
CreateVehicleOrUser ==
  /\ Served
  /\ \/ \E v \in Vehicles \ ToSet(vehicles) :
          vehicles' = Append(vehicles, v) /\ UNCHANGED users
     \/ \E a \in Agents \ ToSet(users) :
          users' = Append(users, a) /\ UNCHANGED vehicles
  /\ UNCHANGED <<qrCodes, lastId, key, labels, slot, mishaps,
                 centers, arrivals, stages, exits, raced>>

(* UsersService.remove: the DELETE, unless an arrival or an exit refers to *)
(* the user.                                                               *)
RemoveUser ==
  /\ Served
  /\ \E a \in ToSet(users) :
       /\ \A table \in {arrivals, exits} : \A i \in DOMAIN table :
            table[i].agent # a
       /\ users' = RemoveFirst(users, a)
  /\ UNCHANGED <<vehicles, qrCodes, lastId, key, labels, slot, mishaps,
                 centers, arrivals, stages, exits, raced>>

(* CentersService.remove (no endpoint calls it): the DELETE, unless an     *)
(* arrival or an exit is at the center; a destination becomes NULL.        *)
RemoveCenter ==
  /\ Served
  /\ \E c \in ToSet(centers) :
       /\ \A table \in {arrivals, exits} : \A i \in DOMAIN table :
            table[i].center # c
       /\ centers' = RemoveFirst(centers, c)
       /\ exits' = [e \in DOMAIN exits |->
                      [exits[e] EXCEPT
                         !.destination = IF @ = c THEN None ELSE @]]
  /\ UNCHANGED <<vehicles, qrCodes, lastId, key, labels, slot, mishaps,
                 users, arrivals, stages, raced>>

YardStep ==
  \/ \E r \in Requests :
       \/ Create(r) \/ CheckVehicle(r) \/ CheckCenter(r) \/ CheckDestination(r)
       \/ RecordArrival(r) \/ RecordExit(r)
       \/ UseArrival(r) \/ FindArrival(r) \/ SetStatus(r)
       \/ AddStage(r) \/ FindStage(r) \/ UpdateStage(r) \/ RemoveStage(r)
       \/ UseExit(r) \/ FindExit(r) \/ FindDestination(r)
       \/ UpdateExit(r) \/ RemoveExit(r)
  \/ RemoveVehicle \/ CreateVehicleOrUser \/ RemoveUser \/ RemoveCenter
-----------------------------------------------------------------------------
(* arrivals.service.ts:730: "If status is being changed from completed,    *)
(* clear completedAt".  A stage has a time of completion only while it is  *)
(* COMPLETED, and it is never completed by its creation; except where an   *)
(* update was decided on a row that another has changed meanwhile, until   *)
(* the next update that is not.                                            *)
StageTimes ==
  \A i \in DOMAIN stages \ raced :
    stages[i].completed => stages[i].status = "COMPLETED"
=============================================================================
