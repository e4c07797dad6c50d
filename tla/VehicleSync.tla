---------------------------- MODULE VehicleSync ----------------------------
(***************************************************************************)
(* How vehicles and their groups come from Malambi: the bulk               *)
(* synchronisation of a listing of groups, the synchronisation of one      *)
(* vehicle, the queue 'vehicle-sync' with the job that inserts the row,    *)
(* and the removal of groups and vehicles.                                 *)
(*                                                                         *)
(* Each SQL statement is one step, with the code up to the next one; there *)
(* is no transaction.  One account: all statements name it.                *)
(***************************************************************************)
EXTENDS Naturals, Sequences, FiniteSets

CONSTANTS
  Vehicles,     \* the vehicles of Malambi, by their id
  GroupOf,      \* the Malambi id of the group each vehicle is in
  Detail,       \* the groupid Malambi sends with the details of a vehicle,
                \* or None
  None,         \* SQL's NULL
  Requests,     \* slots for concurrent HTTP requests
  MaxGroups,    \* bound: the database ids of groups that can be drawn
  MaxJobs,      \* bound: jobs waiting at a time
  MaxMishaps    \* bound: failures, crashes and removals

Groups == {GroupOf[v] : v \in Vehicles}
GroupIds == 1..MaxGroups

ASSUME VehicleSyncAssumption ==
  /\ GroupOf \in [Vehicles -> Nat \ {0}]
  /\ Detail \in [Vehicles -> Nat \cup {None}]
  /\ None \notin Nat
  /\ MaxGroups \in Nat /\ MaxJobs \in Nat /\ MaxMishaps \in Nat

VARIABLES
  vehicles,   \* table vehicles: a function from ids to the column group_id
  groups,     \* table vehicle_groups: a function from database ids to the
              \* Malambi ids
  drawn,      \* the last database id drawn for a group
  jobs,       \* the queue 'vehicle-sync'
  processor,  \* the job being processed
  slot,       \* what each request is doing
  mishaps     \* failures, crashes and removals so far

vars == <<vehicles, groups, drawn, jobs, processor, slot, mishaps>>

Job == [vehicle : Vehicles, group : Nat \cup {None}]

Idle == [pc |-> "idle"]

(* bulkSyncVehiclesFromGroups holds the vehicles of the group still to be  *)
(* looked at and, once it has one, the database id of the group.           *)
Frame ==
  {Idle} \cup
  [pc : {"group", "insertGroup", "refetch"}, group : Groups] \cup
  [pc : {"vehicles"}, todo : SUBSET Vehicles, id : GroupIds \cup {None}] \cup
  [pc : {"exists"}, vehicle : Vehicles] \cup
  [pc : {"count", "detach", "delete"}, id : GroupIds]

ProcessorFrame == {Idle} \cup [pc : {"select", "insert"}, job : Job]

TypeOK ==
  /\ DOMAIN vehicles \subseteq Vehicles
  /\ vehicles \in [DOMAIN vehicles -> DOMAIN groups \cup {None}]
  /\ DOMAIN groups \subseteq 1..drawn
  /\ groups \in [DOMAIN groups -> Groups]
  /\ drawn \in 0..MaxGroups
  /\ jobs \in Seq(Job)
  /\ processor \in ProcessorFrame
  /\ slot \in [Requests -> Frame]
  /\ mishaps \in 0..MaxMishaps

Init ==
  /\ vehicles = [k \in {} |-> None]
  /\ groups = [k \in {} |-> None]
  /\ drawn = 0
  /\ jobs = <<>>
  /\ processor = Idle
  /\ slot = [r \in Requests |-> Idle]
  /\ mishaps = 0
-----------------------------------------------------------------------------
Goto(r, frame) == slot' = [slot EXCEPT ![r] = frame]
At(r, pc) == slot[r].pc = pc
Without(table, keys) == [k \in DOMAIN table \ keys |-> table[k]]
With(table, k, v) ==
  [j \in DOMAIN table \cup {k} |-> IF j = k THEN v ELSE table[j]]

Mishap ==
  /\ mishaps < MaxMishaps
  /\ mishaps' = mishaps + 1

(* The database ids of the rows with the Malambi id g: one at most, for    *)
(* the unique index on account and group_id.                               *)
RowsOf(g) == {k \in DOMAIN groups : groups[k] = g}

VehiclesIn(g) == {v \in Vehicles : GroupOf[v] = g}

(* The vehicles of the listing are looked at next, for the group with the  *)
(* database id k.                                                          *)
ToVehicles(r, g, k) ==
  Goto(r, [pc |-> "vehicles", todo |-> VehiclesIn(g), id |-> k])
-----------------------------------------------------------------------------
(* POST bulk sync: the listing of Malambi has arrived.  Its groups are     *)
(* gone through one by one; here each group is a request of its own.       *)
BulkSync(r, g) ==
  /\ slot[r] = Idle
  /\ Goto(r, [pc |-> "group", group |-> g])
  /\ UNCHANGED <<vehicles, groups, drawn, jobs, processor, mishaps>>

(* Mutation of SelectGroup: a group that is known is left out.             *)
SkipKnownGroup(r) ==
  /\ At(r, "group")
  /\ LET g == slot[r].group IN
       IF RowsOf(g) = {} THEN Goto(r, [pc |-> "insertGroup", group |-> g])
       ELSE Goto(r, Idle)
  /\ UNCHANGED <<vehicles, groups, drawn, jobs, processor, mishaps>>

(* Mutation of SelectGroup: the id of Malambi is taken for the row's.      *)
TakeMalambiId(r) ==
  /\ At(r, "group")
  /\ LET g == slot[r].group IN
       IF RowsOf(g) = {} THEN Goto(r, [pc |-> "insertGroup", group |-> g])
       ELSE ToVehicles(r, g, g)
  /\ UNCHANGED <<vehicles, groups, drawn, jobs, processor, mishaps>>

(* bulkSyncVehiclesFromGroups: the SELECT of the group.                    *)
SelectGroup(r) ==
  /\ At(r, "group")
  /\ LET g == slot[r].group IN
       IF RowsOf(g) = {} THEN Goto(r, [pc |-> "insertGroup", group |-> g])
       ELSE \E k \in RowsOf(g) : ToVehicles(r, g, k)
  /\ UNCHANGED <<vehicles, groups, drawn, jobs, processor, mishaps>>

(* The INSERT of the group draws the next id (a conflict leaves a gap in   *)
(* the ids, which is left out).  If the row is there by now, the unique    *)
(* violation is either recognised, and the row fetched, or not, and the    *)
(* request fails: that depends on what the driver puts where.              *)
InsertGroup(r) ==
  /\ At(r, "insertGroup")
  /\ LET g == slot[r].group IN
       \/ /\ RowsOf(g) = {}
          /\ drawn < MaxGroups
          /\ drawn' = drawn + 1
          /\ groups' = With(groups, drawn', g)
          /\ ToVehicles(r, g, drawn')
       \/ /\ RowsOf(g) # {}
          /\ Goto(r, [pc |-> "refetch", group |-> g]) \/ Goto(r, Idle)
          /\ UNCHANGED <<groups, drawn>>
  /\ UNCHANGED <<vehicles, jobs, processor, mishaps>>

(* The SELECT after the conflict; the row may be gone again.               *)
RefetchGroup(r) ==
  /\ At(r, "refetch")
  /\ LET g == slot[r].group IN
       \/ RowsOf(g) = {} /\ ToVehicles(r, g, None)
       \/ \E k \in RowsOf(g) : ToVehicles(r, g, k)
  /\ UNCHANGED <<vehicles, groups, drawn, jobs, processor, mishaps>>

(* vehicleExistsByVehicleId, which looks for the id of Malambi.            *)
Wanted(v) == v \notin DOMAIN vehicles

(* The loop over the vehicles of the group: a job for each without a row.  *)
QueueVehicle(r) ==
  /\ At(r, "vehicles")
  /\ \/ /\ slot[r].todo = {}
        /\ Goto(r, Idle)
        /\ UNCHANGED jobs
     \/ \E v \in slot[r].todo :
          /\ Wanted(v) => Len(jobs) < MaxJobs
          /\ jobs' = IF Wanted(v)
                     THEN Append(jobs, [vehicle |-> v, group |-> slot[r].id])
                     ELSE jobs
          /\ Goto(r, [slot[r] EXCEPT !.todo = @ \ {v}])
  /\ UNCHANGED <<vehicles, groups, drawn, processor, mishaps>>

(* syncVehicleByVehicleId: one vehicle is asked for.                       *)
SyncOne(r) ==
  /\ slot[r] = Idle
  /\ \E v \in Vehicles : Goto(r, [pc |-> "exists", vehicle |-> v])
  /\ UNCHANGED <<vehicles, groups, drawn, jobs, processor, mishaps>>

(* syncVehicleByVehicleId: skipped if the row is there; else a job with    *)
(* the details of Malambi, their groupid included.                         *)
QueueOne(r) ==
  /\ At(r, "exists")
  /\ LET v == slot[r].vehicle IN
       /\ Wanted(v) => Len(jobs) < MaxJobs
       /\ jobs' = IF Wanted(v)
                  THEN Append(jobs, [vehicle |-> v, group |-> Detail[v]])
                  ELSE jobs
  /\ Goto(r, Idle)
  /\ UNCHANGED <<vehicles, groups, drawn, processor, mishaps>>
-----------------------------------------------------------------------------
(* processVehicleSyncJobs: shift a job.                                    *)
TakeJob ==
  /\ processor = Idle
  /\ jobs # <<>>
  /\ processor' = [pc |-> "select", job |-> Head(jobs)]
  /\ jobs' = Tail(jobs)
  /\ UNCHANGED <<vehicles, groups, drawn, slot, mishaps>>

(* syncVehicle: the SELECT.                                                *)
SelectVehicle ==
  /\ processor.pc = "select"
  /\ processor' = IF processor.job.vehicle \in DOMAIN vehicles THEN Idle
                  ELSE [processor EXCEPT !.pc = "insert"]
  /\ UNCHANGED <<vehicles, groups, drawn, jobs, slot, mishaps>>

(* Mutation of GroupStands: the foreign key on group_id is dropped.        *)
AnyGroup(k) == TRUE

(* The foreign key on group_id.                                            *)
GroupStands(k) == k = None \/ k \in DOMAIN groups

(* syncVehicle: the INSERT.  The foreign key may reject the group; then    *)
(* the error is logged and the job is lost.                                *)
InsertVehicle ==
  /\ processor.pc = "insert"
  /\ LET j == processor.job IN
       vehicles' = IF j.vehicle \notin DOMAIN vehicles /\ GroupStands(j.group)
                   THEN With(vehicles, j.vehicle, j.group) ELSE vehicles
  /\ processor' = Idle
  /\ UNCHANGED <<groups, drawn, jobs, slot, mishaps>>

Process == TakeJob \/ SelectVehicle \/ InsertVehicle
-----------------------------------------------------------------------------
(* DELETE of a group: the SELECT of the group.                             *)
RemoveGroup(r) ==
  /\ slot[r] = Idle
  /\ Mishap
  /\ \E k \in DOMAIN groups : Goto(r, [pc |-> "count", id |-> k])
  /\ UNCHANGED <<vehicles, groups, drawn, jobs, processor>>

(* removeGroup: the COUNT of its vehicles.                                 *)
CountVehicles(r) ==
  /\ At(r, "count")
  /\ Goto(r, [slot[r] EXCEPT
                !.pc = IF \E v \in DOMAIN vehicles :
                               vehicles[v] = slot[r].id
                       THEN "detach" ELSE "delete"])
  /\ UNCHANGED <<vehicles, groups, drawn, jobs, processor, mishaps>>

Detached(k) ==
  [v \in DOMAIN vehicles |-> IF vehicles[v] = k THEN None ELSE vehicles[v]]

(* removeGroup: the UPDATE of its vehicles.                                *)
DetachVehicles(r) ==
  /\ At(r, "detach")
  /\ vehicles' = Detached(slot[r].id)
  /\ Goto(r, [slot[r] EXCEPT !.pc = "delete"])
  /\ UNCHANGED <<groups, drawn, jobs, processor, mishaps>>

(* removeGroup: the DELETE.  Vehicles that joined since the COUNT are left *)
(* to the foreign key, ON DELETE SET NULL.                                 *)
DeleteGroup(r) ==
  /\ At(r, "delete")
  /\ vehicles' = Detached(slot[r].id)
  /\ groups' = Without(groups, {slot[r].id})
  /\ Goto(r, Idle)
  /\ UNCHANGED <<drawn, jobs, processor, mishaps>>

(* DELETE of a vehicle.                                                    *)
RemoveVehicle ==
  /\ Mishap
  /\ \E v \in DOMAIN vehicles : vehicles' = Without(vehicles, {v})
  /\ UNCHANGED <<groups, drawn, jobs, processor, slot>>

(* A statement fails: a request ends there, a job is lost.                 *)
Fail ==
  /\ Mishap
  /\ \/ \E r \in Requests :
          slot[r] # Idle /\ Goto(r, Idle) /\ UNCHANGED processor
     \/ processor # Idle /\ processor' = Idle /\ UNCHANGED slot
  /\ UNCHANGED <<vehicles, groups, drawn, jobs>>

(* The process dies and is started again: the jobs are gone.               *)
Crash ==
  /\ Mishap
  /\ jobs' = <<>>
  /\ processor' = Idle
  /\ slot' = [r \in Requests |-> Idle]
  /\ UNCHANGED <<vehicles, groups, drawn>>

Continue(r) ==
  \/ SelectGroup(r) \/ InsertGroup(r) \/ RefetchGroup(r) \/ QueueVehicle(r)
  \/ QueueOne(r)
  \/ CountVehicles(r) \/ DetachVehicles(r) \/ DeleteGroup(r)

Next ==
  \/ \E r \in Requests :
       \/ \E g \in Groups : BulkSync(r, g)
       \/ SyncOne(r) \/ RemoveGroup(r)
       \/ Continue(r)
  \/ Process
  \/ RemoveVehicle \/ Fail \/ Crash

Spec == Init /\ [][Next]_vars

(* Requests and the loop go on as long as the process lives, and a client  *)
(* asks for the groups again and again, whatever else it is asked.         *)
FairSpec ==
  /\ Spec
  /\ WF_vars(Process)
  /\ \A r \in Requests : WF_vars(Continue(r))
  /\ \A g \in Groups : SF_vars(\E r \in Requests : BulkSync(r, g))
-----------------------------------------------------------------------------
(* A bulk synchronisation hands the database id of a group to its jobs,    *)
(* which run later.  However groups are removed and created again in the   *)
(* meantime, a vehicle never ends up in the group of another one; but for  *)
(* the group with the number that syncVehicleByVehicleId hands over, which *)
(* is Malambi's id of the group and not the database's.                    *)
GroupNotReassigned ==
  \A v \in DOMAIN vehicles :
    \/ vehicles[v] \in {None, Detail[v]}
    \/ groups[vehicles[v]] = GroupOf[v]

(* The vehicles a bulk synchronisation finds are created by jobs, which    *)
(* are lost with the process, with an error, or with the group they were   *)
(* queued for.  As long as someone asks again, every vehicle is there in   *)
(* the end.                                                                *)
FleetSynced == \A v \in Vehicles : <>[](v \in DOMAIN vehicles)
=============================================================================
