------------------------- MODULE VehicleSyncProofs -------------------------
(***************************************************************************)
(* Proofs about VehicleSync, for any fleet, any details Malambi sends, and *)
(* any number of requests, jobs, failures, crashes and removals.           *)
(*                                                                         *)
(* GroupNotReassigned needs to know what a request or a job carries: an id *)
(* that was drawn for the vehicle's own group, so that whatever row stands *)
(* under it later is that group.  Ids are never drawn twice.               *)
(***************************************************************************)
EXTENDS VehicleSync, TLAPS

(* The id k may be handed over for vehicle v.                              *)
Belongs(k, v, table, last) ==
  \/ k \in {None, Detail[v]}
  \/ k \in 1..last /\ (k \in DOMAIN table => table[k] = GroupOf[v])

FrameHolds(f, table, last) ==
  f.pc = "vehicles" => \A v \in f.todo : Belongs(f.id, v, table, last)

FramesHold == \A r \in Requests : FrameHolds(slot[r], groups, drawn)

JobHolds(j, table, last) == Belongs(j.group, j.vehicle, table, last)

JobsHold ==
  /\ \A i \in 1..Len(jobs) : JobHolds(jobs[i], groups, drawn)
  /\ processor.pc # "idle" => JobHolds(processor.job, groups, drawn)

IInv == TypeOK /\ FramesHold /\ JobsHold /\ GroupNotReassigned

(* Ids are drawn in order, and none of those drawn gets a new group.       *)
Grows ==
  /\ 1..drawn \subseteq 1..drawn'
  /\ \A k \in DOMAIN groups' :
       k \in 1..drawn => k \in DOMAIN groups /\ groups'[k] = groups[k]

(* Only the frame of request r changes.                                    *)
Moves(r) == slot' = [slot EXCEPT ![r] = slot'[r]]
-----------------------------------------------------------------------------
LEMMA BelongsStays ==
  ASSUME Grows, NEW k, NEW v \in Vehicles, Belongs(k, v, groups, drawn)
  PROVE  Belongs(k, v, groups', drawn')
  BY DEF Grows, Belongs

LEMMA JobStays ==
  ASSUME Grows, NEW j \in Job, JobHolds(j, groups, drawn)
  PROVE  JobHolds(j, groups', drawn')
  BY BelongsStays DEF JobHolds, Job

LEMMA FrameStays ==
  ASSUME Grows, NEW f \in Frame, FrameHolds(f, groups, drawn)
  PROVE  FrameHolds(f, groups', drawn')
<1> SUFFICES ASSUME f.pc = "vehicles", NEW v \in f.todo
             PROVE  Belongs(f.id, v, groups', drawn')
  BY DEF FrameHolds
<1>1. v \in Vehicles
  BY DEF Frame, Idle
<1>2. Belongs(f.id, v, groups, drawn)
  BY DEF FrameHolds
<1> QED
  BY <1>1, <1>2, BelongsStays

LEMMA FramesStep ==
  ASSUME IInv, Grows, NEW r \in Requests, Moves(r), slot'[r] \in Frame,
         FrameHolds(slot'[r], groups', drawn')
  PROVE  FramesHold' /\ slot' \in [Requests -> Frame]
<1>1. slot' \in [Requests -> Frame]
  BY DEF IInv, TypeOK, Moves
<1>2. ASSUME NEW q \in Requests
      PROVE  FrameHolds(slot'[q], groups', drawn')
  <2>1. CASE q = r
    BY <2>1
  <2>2. CASE q # r
    <3>1. slot'[q] = slot[q]
      BY <2>2 DEF Moves, IInv, TypeOK
    <3>2. slot[q] \in Frame /\ FrameHolds(slot[q], groups, drawn)
      BY DEF IInv, TypeOK, FramesHold
    <3> QED
      BY <3>1, <3>2, FrameStays
  <2> QED
    BY <2>1, <2>2
<1> QED
  BY <1>1, <1>2 DEF FramesHold

(* Frames that stay as they are go on holding.                             *)
LEMMA FramesStay ==
  ASSUME IInv, Grows, UNCHANGED slot
  PROVE  FramesHold' /\ slot' \in [Requests -> Frame]
<1>1. \A q \in Requests : slot[q] \in Frame /\ FrameHolds(slot[q], groups, drawn)
  BY DEF IInv, TypeOK, FramesHold
<1>2. \A q \in Requests : FrameHolds(slot[q], groups', drawn')
  BY <1>1, FrameStays
<1> QED
  BY <1>2 DEF FramesHold, IInv, TypeOK

LEMMA ProcessorFrameIsJob ==
  ASSUME IInv, processor.pc # "idle"
  PROVE  processor.job \in Job /\ processor.pc \in {"select", "insert"}
  BY DEF IInv, TypeOK, ProcessorFrame, Idle

LEMMA JobsStay ==
  ASSUME IInv, Grows, UNCHANGED <<jobs, processor>>
  PROVE  JobsHold'
<1>1. ASSUME NEW i \in 1..Len(jobs)
      PROVE  JobHolds(jobs[i], groups', drawn')
  <2>1. jobs[i] \in Job /\ JobHolds(jobs[i], groups, drawn)
    BY DEF IInv, TypeOK, JobsHold
  <2> QED
    BY <2>1, JobStays
<1>2. ASSUME processor.pc # "idle"
      PROVE  JobHolds(processor.job, groups', drawn')
  <2>1. processor.job \in Job /\ JobHolds(processor.job, groups, drawn)
    BY <1>2, ProcessorFrameIsJob DEF IInv, JobsHold
  <2> QED
    BY <2>1, JobStays
<1> QED
  BY <1>1, <1>2 DEF JobsHold

LEMMA GotoMoves ==
  ASSUME IInv, NEW r \in Requests, NEW f, slot' = [slot EXCEPT ![r] = f]
  PROVE  Moves(r) /\ slot'[r] = f
  BY DEF IInv, TypeOK, Moves

(* A request reads, and only its own frame changes.                        *)
LEMMA LocalStep ==
  ASSUME IInv, NEW r \in Requests, Moves(r),
         UNCHANGED <<vehicles, groups, drawn, jobs, processor>>,
         mishaps' \in 0..MaxMishaps,
         slot'[r] \in Frame, FrameHolds(slot'[r], groups, drawn)
  PROVE  IInv'
<1>1. Grows
  BY DEF Grows
<1>2. FramesHold' /\ slot' \in [Requests -> Frame]
  BY <1>1, FramesStep
<1>3. JobsHold'
  BY <1>1, JobsStay
<1>4. TypeOK' /\ GroupNotReassigned'
  BY <1>2 DEF IInv, TypeOK, GroupNotReassigned
<1> QED
  BY <1>2, <1>3, <1>4 DEF IInv

LEMMA IdleHolds ==
  ASSUME NEW table, NEW last
  PROVE  Idle \in Frame /\ FrameHolds(Idle, table, last)
  BY DEF Idle, Frame, FrameHolds

(* The row of a group serves the vehicles listed under it.                 *)
LEMMA RowServes ==
  ASSUME NEW table, NEW last \in 0..MaxGroups, NEW g \in Groups,
         NEW k \in 1..last, k \in DOMAIN table => table[k] = g
  PROVE  LET f == [pc |-> "vehicles", todo |-> VehiclesIn(g), id |-> k]
         IN  f \in Frame /\ FrameHolds(f, table, last)
<1> DEFINE f == [pc |-> "vehicles", todo |-> VehiclesIn(g), id |-> k]
<1>1. k \in GroupIds /\ VehiclesIn(g) \in SUBSET Vehicles
  BY VehicleSyncAssumption DEF GroupIds, VehiclesIn
<1>2. f \in Frame
  BY <1>1 DEF Frame
<1>3. \A v \in VehiclesIn(g) : Belongs(k, v, table, last)
  BY DEF VehiclesIn, Belongs
<1>4. FrameHolds(f, table, last)
  BY <1>3 DEF FrameHolds
<1> QED
  BY <1>2, <1>4
-----------------------------------------------------------------------------
LEMMA StepBulkSync ==
  ASSUME IInv, NEW r \in Requests, NEW g \in Groups, BulkSync(r, g)
  PROVE  IInv'
<1> DEFINE f == [pc |-> "group", group |-> g]
<1>1. Moves(r) /\ slot'[r] = f
  BY GotoMoves DEF BulkSync, Goto
<1>2. f \in Frame /\ FrameHolds(f, groups, drawn)
  BY DEF Frame, FrameHolds
<1>3. mishaps' \in 0..MaxMishaps
  BY DEF BulkSync, IInv, TypeOK
<1> QED
  BY <1>1, <1>2, <1>3, LocalStep DEF BulkSync

LEMMA StepSelectGroup ==
  ASSUME IInv, NEW r \in Requests, SelectGroup(r)
  PROVE  IInv'
<1> DEFINE g == slot[r].group
<1>1. g \in Groups
  BY DEF SelectGroup, At, IInv, TypeOK, Frame, Idle
<1>2. mishaps' \in 0..MaxMishaps /\ drawn \in 0..MaxGroups
  BY DEF SelectGroup, IInv, TypeOK
<1>3. UNCHANGED <<vehicles, groups, drawn, jobs, processor>>
  BY DEF SelectGroup
<1>4. CASE RowsOf(g) = {}
  <2> DEFINE f == [pc |-> "insertGroup", group |-> g]
  <2>1. Moves(r) /\ slot'[r] = f
    BY <1>4, GotoMoves DEF SelectGroup, Goto
  <2>2. f \in Frame /\ FrameHolds(f, groups, drawn)
    BY <1>1 DEF Frame, FrameHolds
  <2> QED
    BY <1>2, <1>3, <2>1, <2>2, LocalStep
<1>5. CASE RowsOf(g) # {}
  <2>1. PICK k \in RowsOf(g) : ToVehicles(r, g, k)
    BY <1>5 DEF SelectGroup
  <2> DEFINE f == [pc |-> "vehicles", todo |-> VehiclesIn(g), id |-> k]
  <2>2. Moves(r) /\ slot'[r] = f
    BY <2>1, GotoMoves DEF ToVehicles, Goto
  <2>3. k \in 1..drawn /\ groups[k] = g
    BY DEF RowsOf, IInv, TypeOK
  <2>4. f \in Frame /\ FrameHolds(f, groups, drawn)
    BY <1>1, <1>2, <2>3, RowServes
  <2> QED
    BY <1>2, <1>3, <2>2, <2>4, LocalStep
<1> QED
  BY <1>4, <1>5

(* The new id is above every id drawn before.                              *)
LEMMA StepInsertGroup ==
  ASSUME IInv, NEW r \in Requests, InsertGroup(r)
  PROVE  IInv'
<1> DEFINE g == slot[r].group
<1>1. g \in Groups
  BY DEF InsertGroup, At, IInv, TypeOK, Frame, Idle
<1>2. mishaps' \in 0..MaxMishaps
  BY DEF InsertGroup, IInv, TypeOK
<1>3. CASE RowsOf(g) # {} /\ UNCHANGED <<groups, drawn>>
           /\ (Goto(r, [pc |-> "refetch", group |-> g]) \/ Goto(r, Idle))
  <2> DEFINE f == [pc |-> "refetch", group |-> g]
  <2>1. UNCHANGED <<vehicles, groups, drawn, jobs, processor>>
    BY <1>3 DEF InsertGroup
  <2>2. f \in Frame /\ FrameHolds(f, groups, drawn)
    BY <1>1 DEF Frame, FrameHolds
  <2>3. CASE Goto(r, f)
    <3>1. Moves(r) /\ slot'[r] = f
      BY <2>3, GotoMoves DEF Goto
    <3> QED
      BY <1>2, <2>1, <2>2, <3>1, LocalStep
  <2>4. CASE Goto(r, Idle)
    <3>1. Moves(r) /\ slot'[r] = Idle
      BY <2>4, GotoMoves DEF Goto
    <3> QED
      BY <1>2, <2>1, <3>1, IdleHolds, LocalStep
  <2> QED
    BY <1>3, <2>3, <2>4
<1>4. CASE /\ RowsOf(g) = {} /\ drawn < MaxGroups /\ drawn' = drawn + 1
           /\ groups' = With(groups, drawn', g) /\ ToVehicles(r, g, drawn')
  <2> DEFINE f == [pc |-> "vehicles", todo |-> VehiclesIn(g), id |-> drawn']
  <2>1. drawn \in Nat /\ drawn' \in 0..MaxGroups /\ drawn' \in 1..drawn'
        /\ drawn' \notin 1..drawn /\ 1..drawn \subseteq 1..drawn'
    BY <1>4, VehicleSyncAssumption DEF IInv, TypeOK
  <2>2. /\ DOMAIN groups' = DOMAIN groups \cup {drawn'}
        /\ groups'[drawn'] = g
        /\ \A k \in DOMAIN groups \ {drawn'} : groups'[k] = groups[k]
        /\ groups' = [k \in DOMAIN groups' |-> groups'[k]]
    BY <1>4 DEF With
  <2>3. Grows
    BY <2>1, <2>2 DEF Grows
  <2>4. Moves(r) /\ slot'[r] = f
    BY <1>4, GotoMoves DEF ToVehicles, Goto
  <2>5. f \in Frame /\ FrameHolds(f, groups', drawn')
    BY <1>1, <2>1, <2>2, RowServes
  <2>6. FramesHold' /\ slot' \in [Requests -> Frame]
    BY <2>3, <2>4, <2>5, FramesStep
  <2>7. UNCHANGED <<vehicles, jobs, processor>>
    BY DEF InsertGroup
  <2>8. JobsHold'
    BY <2>3, <2>7, JobsStay
  <2>9. DOMAIN groups \subseteq 1..drawn
    BY DEF IInv, TypeOK
  <2>10. groups' \in [DOMAIN groups' -> Groups]
    <3>1. \A k \in DOMAIN groups' : groups'[k] \in Groups
      BY <1>1, <2>2 DEF IInv, TypeOK
    <3> QED
      BY <2>2, <3>1
  <2>11. vehicles' \in [DOMAIN vehicles' -> DOMAIN groups' \cup {None}]
    BY <2>2, <2>7 DEF IInv, TypeOK
  <2>12. TypeOK'
    BY <1>2, <2>1, <2>2, <2>6, <2>7, <2>9, <2>10, <2>11 DEF IInv, TypeOK
  <2>13. GroupNotReassigned'
    BY <2>1, <2>2, <2>7, <2>9 DEF IInv, TypeOK, GroupNotReassigned
  <2> QED
    BY <2>6, <2>8, <2>12, <2>13 DEF IInv
<1> QED
  BY <1>3, <1>4 DEF InsertGroup

LEMMA StepRefetchGroup ==
  ASSUME IInv, NEW r \in Requests, RefetchGroup(r)
  PROVE  IInv'
<1> DEFINE g == slot[r].group
           F(k) == [pc |-> "vehicles", todo |-> VehiclesIn(g), id |-> k]
<1>1. g \in Groups
  BY DEF RefetchGroup, At, IInv, TypeOK, Frame, Idle
<1>2. mishaps' \in 0..MaxMishaps /\ drawn \in 0..MaxGroups
  BY DEF RefetchGroup, IInv, TypeOK
<1>3. UNCHANGED <<vehicles, groups, drawn, jobs, processor>>
  BY DEF RefetchGroup
<1>4. CASE ToVehicles(r, g, None)
  <2>1. Moves(r) /\ slot'[r] = F(None)
    BY <1>4, GotoMoves DEF ToVehicles, Goto
  <2>2. F(None) \in Frame
    BY DEF Frame, VehiclesIn
  <2>3. FrameHolds(F(None), groups, drawn)
    BY DEF FrameHolds, Belongs
  <2> QED
    BY <1>2, <1>3, <2>1, <2>2, <2>3, LocalStep
<1>5. ASSUME NEW k \in RowsOf(g), ToVehicles(r, g, k)
      PROVE  IInv'
  <2>1. Moves(r) /\ slot'[r] = F(k)
    BY <1>5, GotoMoves DEF ToVehicles, Goto
  <2>2. k \in 1..drawn /\ groups[k] = g
    BY <1>5 DEF RowsOf, IInv, TypeOK
  <2>3. F(k) \in Frame /\ FrameHolds(F(k), groups, drawn)
    BY <1>1, <1>2, <2>2, RowServes
  <2> QED
    BY <1>2, <1>3, <2>1, <2>3, LocalStep
<1> QED
  BY <1>4, <1>5 DEF RefetchGroup

(* A job that holds may be added to the queue.                             *)
LEMMA JobAdded ==
  ASSUME IInv, NEW r \in Requests, Moves(r),
         UNCHANGED <<vehicles, groups, drawn, processor, mishaps>>,
         slot'[r] \in Frame, FrameHolds(slot'[r], groups, drawn),
         NEW j \in Job, JobHolds(j, groups, drawn), jobs' = Append(jobs, j)
  PROVE  IInv'
<1>1. Grows
  BY DEF Grows
<1>2. FramesHold' /\ slot' \in [Requests -> Frame]
  BY <1>1, FramesStep
<1>3. jobs \in Seq(Job)
  BY DEF IInv, TypeOK
<1>4. /\ jobs' \in Seq(Job)
      /\ \A i \in 1..Len(jobs') :
           \/ jobs'[i] = j
           \/ i \in 1..Len(jobs) /\ jobs'[i] = jobs[i]
  BY <1>3
<1>5. JobsHold'
  BY <1>4 DEF IInv, JobsHold
<1>6. TypeOK' /\ GroupNotReassigned'
  BY <1>2, <1>4 DEF IInv, TypeOK, GroupNotReassigned
<1> QED
  BY <1>2, <1>5, <1>6 DEF IInv

LEMMA StepQueueVehicle ==
  ASSUME IInv, NEW r \in Requests, QueueVehicle(r)
  PROVE  IInv'
<1>1. slot[r] \in [pc : {"vehicles"}, todo : SUBSET Vehicles,
                   id : GroupIds \cup {None}]
  BY DEF QueueVehicle, At, IInv, TypeOK, Frame, Idle
<1>2. FrameHolds(slot[r], groups, drawn)
  BY DEF IInv, FramesHold
<1>3. UNCHANGED <<vehicles, groups, drawn, processor, mishaps>>
      /\ mishaps' \in 0..MaxMishaps
  BY DEF QueueVehicle, IInv, TypeOK
<1>4. CASE Goto(r, Idle) /\ UNCHANGED jobs
  <2>1. Moves(r) /\ slot'[r] = Idle
    BY <1>4, GotoMoves DEF Goto
  <2> QED
    BY <1>3, <1>4, <2>1, IdleHolds, LocalStep
<1>5. ASSUME NEW v \in slot[r].todo,
             Goto(r, [slot[r] EXCEPT !.todo = @ \ {v}]),
             jobs' = IF Wanted(v)
                     THEN Append(jobs, [vehicle |-> v, group |-> slot[r].id])
                     ELSE jobs
      PROVE  IInv'
  <2> DEFINE f == [slot[r] EXCEPT !.todo = @ \ {v}]
             j == [vehicle |-> v, group |-> slot[r].id]
  <2>1. Moves(r) /\ slot'[r] = f
    BY <1>5, GotoMoves DEF Goto
  <2>2. /\ f \in [pc : {"vehicles"}, todo : SUBSET Vehicles,
                  id : GroupIds \cup {None}]
        /\ f.todo \subseteq slot[r].todo /\ f.id = slot[r].id
    BY <1>1
  <2>3. f \in Frame
    BY <2>2 DEF Frame
  <2>4. \A w \in slot[r].todo : Belongs(slot[r].id, w, groups, drawn)
    BY <1>1, <1>2 DEF FrameHolds
  <2>5. FrameHolds(f, groups, drawn)
    BY <2>2, <2>4 DEF FrameHolds
  <2>6. j \in Job
    <3>1. v \in Vehicles /\ slot[r].id \in Nat \cup {None}
      BY <1>1, VehicleSyncAssumption DEF GroupIds
    <3> QED
      BY <3>1 DEF Job
  <2>7. JobHolds(j, groups, drawn)
    BY <2>4 DEF JobHolds
  <2>8. CASE Wanted(v)
    BY <1>3, <1>5, <2>1, <2>3, <2>5, <2>6, <2>7, <2>8, JobAdded
  <2>9. CASE ~ Wanted(v)
    BY <1>3, <1>5, <2>1, <2>3, <2>5, <2>9, LocalStep
  <2> QED
    BY <2>8, <2>9
<1> QED
  BY <1>4, <1>5 DEF QueueVehicle

LEMMA StepSyncOne ==
  ASSUME IInv, NEW r \in Requests, SyncOne(r)
  PROVE  IInv'
<1> PICK v \in Vehicles : Goto(r, [pc |-> "exists", vehicle |-> v])
  BY DEF SyncOne
<1> DEFINE f == [pc |-> "exists", vehicle |-> v]
<1>1. Moves(r) /\ slot'[r] = f
  BY GotoMoves DEF Goto
<1>2. f \in Frame /\ FrameHolds(f, groups, drawn)
  BY DEF Frame, FrameHolds
<1>3. mishaps' \in 0..MaxMishaps
  BY DEF SyncOne, IInv, TypeOK
<1> QED
  BY <1>1, <1>2, <1>3, LocalStep DEF SyncOne

LEMMA StepQueueOne ==
  ASSUME IInv, NEW r \in Requests, QueueOne(r)
  PROVE  IInv'
<1> DEFINE v == slot[r].vehicle
           j == [vehicle |-> v, group |-> Detail[v]]
<1>1. v \in Vehicles
  BY DEF QueueOne, At, IInv, TypeOK, Frame, Idle
<1>2. j \in Job /\ JobHolds(j, groups, drawn)
  BY <1>1, VehicleSyncAssumption DEF Job, JobHolds, Belongs
<1>3. Moves(r) /\ slot'[r] = Idle
  BY GotoMoves DEF QueueOne, Goto
<1>4. UNCHANGED <<vehicles, groups, drawn, processor, mishaps>>
      /\ mishaps' \in 0..MaxMishaps
  BY DEF QueueOne, IInv, TypeOK
<1>5. CASE jobs' = Append(jobs, j)
  BY <1>2, <1>3, <1>4, <1>5, IdleHolds, JobAdded
<1>6. CASE UNCHANGED jobs
  BY <1>3, <1>4, <1>6, IdleHolds, LocalStep
<1> QED
  BY <1>5, <1>6 DEF QueueOne
-----------------------------------------------------------------------------
LEMMA StepTakeJob ==
  ASSUME IInv, TakeJob
  PROVE  IInv'
<1>1. Grows
  BY DEF TakeJob, Grows
<1>2. FramesHold' /\ slot' \in [Requests -> Frame]
  BY <1>1, FramesStay DEF TakeJob
<1>3. jobs \in Seq(Job) /\ jobs # <<>> /\ jobs' = Tail(jobs)
  BY DEF TakeJob, IInv, TypeOK
<1>4. /\ Head(jobs) \in Job /\ Head(jobs) = jobs[1] /\ 1 \in 1..Len(jobs)
      /\ jobs' \in Seq(Job)
      /\ \A i \in 1..Len(jobs') : i + 1 \in 1..Len(jobs) /\ jobs'[i] = jobs[i + 1]
  BY <1>3
<1>5. processor' = [pc |-> "select", job |-> Head(jobs)]
      /\ UNCHANGED <<vehicles, groups, drawn, mishaps>>
  BY DEF TakeJob
<1>6. JobHolds(Head(jobs), groups, drawn)
  BY <1>4 DEF IInv, JobsHold
<1>7. JobsHold'
  <2>1. \A i \in 1..Len(jobs') : JobHolds(jobs'[i], groups', drawn')
    BY <1>4, <1>5 DEF IInv, JobsHold
  <2>2. JobHolds(processor'.job, groups', drawn')
    BY <1>5, <1>6
  <2> QED
    BY <2>1, <2>2 DEF JobsHold
<1>8. processor' \in ProcessorFrame
  BY <1>4, <1>5 DEF ProcessorFrame
<1>9. TypeOK' /\ GroupNotReassigned'
  BY <1>2, <1>4, <1>5, <1>8 DEF IInv, TypeOK, GroupNotReassigned
<1> QED
  BY <1>2, <1>7, <1>9 DEF IInv

(* The processor goes on with its job, or lets it go.                      *)
LEMMA ProcessorStep ==
  ASSUME IInv, UNCHANGED <<groups, drawn, jobs, slot>>,
         mishaps' \in 0..MaxMishaps,
         \/ processor' = Idle
         \/ /\ processor.pc # "idle"
            /\ processor' = [processor EXCEPT !.pc = "insert"]
  PROVE  FramesHold' /\ JobsHold' /\ processor' \in ProcessorFrame
<1>1. Grows
  BY DEF Grows
<1>2. FramesHold'
  BY <1>1, FramesStay
<1>3. \A i \in 1..Len(jobs') : JobHolds(jobs'[i], groups', drawn')
  BY DEF IInv, JobsHold
<1>4. CASE processor' = Idle
  <2>1. processor' \in ProcessorFrame /\ processor'.pc = "idle"
    BY <1>4 DEF ProcessorFrame, Idle
  <2> QED
    BY <1>2, <1>3, <2>1 DEF JobsHold
<1>5. CASE processor.pc # "idle" /\ processor' = [processor EXCEPT !.pc = "insert"]
  <2>1. processor \in [pc : {"select", "insert"}, job : Job]
    BY <1>5 DEF IInv, TypeOK, ProcessorFrame, Idle
  <2>2. processor' \in ProcessorFrame /\ processor'.job = processor.job
    BY <1>5, <2>1 DEF ProcessorFrame
  <2>3. JobHolds(processor'.job, groups', drawn')
    BY <1>5, <2>2 DEF IInv, JobsHold
  <2> QED
    BY <1>2, <1>3, <2>2, <2>3 DEF JobsHold
<1> QED
  BY <1>4, <1>5

LEMMA StepSelectVehicle ==
  ASSUME IInv, SelectVehicle
  PROVE  IInv'
<1>1. UNCHANGED <<vehicles, groups, drawn, jobs, slot, mishaps>>
      /\ mishaps' \in 0..MaxMishaps
  BY DEF SelectVehicle, IInv, TypeOK
<1>2. \/ processor' = Idle
      \/ /\ processor.pc # "idle"
         /\ processor' = [processor EXCEPT !.pc = "insert"]
  BY DEF SelectVehicle
<1>3. FramesHold' /\ JobsHold' /\ processor' \in ProcessorFrame
  BY <1>1, <1>2, ProcessorStep
<1>4. TypeOK' /\ GroupNotReassigned'
  BY <1>1, <1>3 DEF IInv, TypeOK, GroupNotReassigned
<1> QED
  BY <1>3, <1>4 DEF IInv

(* The foreign key lets in a group that stands, and that is the right one. *)
LEMMA StepInsertVehicle ==
  ASSUME IInv, InsertVehicle
  PROVE  IInv'
<1> DEFINE j == processor.job
<1>1. UNCHANGED <<groups, drawn, jobs, slot, mishaps>>
      /\ mishaps' \in 0..MaxMishaps /\ processor' = Idle
  BY DEF InsertVehicle, IInv, TypeOK
<1>2. FramesHold' /\ JobsHold' /\ processor' \in ProcessorFrame
  BY <1>1, ProcessorStep
<1>3. j \in Job /\ JobHolds(j, groups, drawn)
  BY ProcessorFrameIsJob DEF InsertVehicle, IInv, JobsHold
<1>4. CASE UNCHANGED vehicles
  BY <1>1, <1>2, <1>4 DEF IInv, TypeOK, GroupNotReassigned
<1>5. CASE j.vehicle \notin DOMAIN vehicles /\ GroupStands(j.group)
           /\ vehicles' = With(vehicles, j.vehicle, j.group)
  <2>1. /\ DOMAIN vehicles' = DOMAIN vehicles \cup {j.vehicle}
        /\ vehicles'[j.vehicle] = j.group
        /\ \A v \in DOMAIN vehicles : vehicles'[v] = vehicles[v]
        /\ vehicles' = [v \in DOMAIN vehicles' |-> vehicles'[v]]
    BY <1>5 DEF With
  <2>2. j.group \in DOMAIN groups \cup {None} /\ j.vehicle \in Vehicles
    BY <1>3, <1>5 DEF GroupStands, Job
  <2>3. \A v \in DOMAIN vehicles' : vehicles'[v] \in DOMAIN groups' \cup {None}
    BY <1>1, <2>1, <2>2 DEF IInv, TypeOK
  <2>4. vehicles' \in [DOMAIN vehicles' -> DOMAIN groups' \cup {None}]
    BY <2>1, <2>3
  <2>5. DOMAIN vehicles' \subseteq Vehicles
    BY <2>1, <2>2 DEF IInv, TypeOK
  <2>6. TypeOK'
    BY <1>1, <1>2, <2>4, <2>5 DEF IInv, TypeOK
  <2>7. j.group \in {None, Detail[j.vehicle]} \/ groups[j.group] = GroupOf[j.vehicle]
    BY <1>3, <2>2 DEF JobHolds, Belongs
  <2>8. GroupNotReassigned'
    BY <1>1, <2>1, <2>7 DEF IInv, GroupNotReassigned
  <2> QED
    BY <1>2, <2>6, <2>8 DEF IInv
<1> QED
  BY <1>4, <1>5 DEF InsertVehicle
-----------------------------------------------------------------------------
LEMMA StepRemoveGroup ==
  ASSUME IInv, NEW r \in Requests, RemoveGroup(r)
  PROVE  IInv'
<1> PICK k \in DOMAIN groups : Goto(r, [pc |-> "count", id |-> k])
  BY DEF RemoveGroup
<1> DEFINE f == [pc |-> "count", id |-> k]
<1>1. Moves(r) /\ slot'[r] = f
  BY GotoMoves DEF Goto
<1>2. k \in GroupIds
  BY VehicleSyncAssumption DEF IInv, TypeOK, GroupIds
<1>3. f \in Frame /\ FrameHolds(f, groups, drawn)
  BY <1>2 DEF Frame, FrameHolds
<1>4. mishaps' \in 0..MaxMishaps
  BY VehicleSyncAssumption DEF RemoveGroup, Mishap, IInv, TypeOK
<1> QED
  BY <1>1, <1>3, <1>4, LocalStep DEF RemoveGroup

LEMMA RemovalFrame ==
  ASSUME IInv, NEW r \in Requests, slot[r].pc \in {"count", "detach", "delete"}
  PROVE  slot[r] \in [pc : {"count", "detach", "delete"}, id : GroupIds]
  BY DEF IInv, TypeOK, Frame, Idle

LEMMA StepCountVehicles ==
  ASSUME IInv, NEW r \in Requests, CountVehicles(r)
  PROVE  IInv'
<1> PICK p \in {"detach", "delete"} : Goto(r, [slot[r] EXCEPT !.pc = p])
  BY DEF CountVehicles
<1> DEFINE f == [slot[r] EXCEPT !.pc = p]
<1>1. Moves(r) /\ slot'[r] = f
  BY GotoMoves DEF Goto
<1>2. f \in [pc : {"detach", "delete"}, id : GroupIds]
  BY RemovalFrame DEF CountVehicles, At
<1>3. f \in Frame /\ FrameHolds(f, groups, drawn)
  BY <1>2 DEF Frame, FrameHolds
<1>4. mishaps' \in 0..MaxMishaps
  BY DEF CountVehicles, IInv, TypeOK
<1> QED
  BY <1>1, <1>3, <1>4, LocalStep DEF CountVehicles

LEMMA DetachedOnly ==
  ASSUME NEW k
  PROVE  /\ DOMAIN Detached(k) = DOMAIN vehicles
         /\ Detached(k) = [v \in DOMAIN vehicles |-> Detached(k)[v]]
         /\ \A v \in DOMAIN vehicles :
              \/ Detached(k)[v] = None
              \/ Detached(k)[v] = vehicles[v] /\ vehicles[v] # k
  BY DEF Detached

LEMMA StepDetachVehicles ==
  ASSUME IInv, NEW r \in Requests, DetachVehicles(r)
  PROVE  IInv'
<1> DEFINE f == [slot[r] EXCEPT !.pc = "delete"]
<1>1. Moves(r) /\ slot'[r] = f
  BY GotoMoves DEF DetachVehicles, Goto
<1>2. f \in [pc : {"delete"}, id : GroupIds]
  BY RemovalFrame DEF DetachVehicles, At
<1>3. f \in Frame /\ FrameHolds(f, groups, drawn)
  BY <1>2 DEF Frame, FrameHolds
<1>4. UNCHANGED <<groups, drawn, jobs, processor, mishaps>>
  BY DEF DetachVehicles
<1>5. Grows
  BY <1>4 DEF Grows
<1>6. FramesHold' /\ slot' \in [Requests -> Frame]
  BY <1>1, <1>3, <1>4, <1>5, FramesStep
<1>7. JobsHold'
  BY <1>4, <1>5, JobsStay
<1>8. /\ DOMAIN vehicles' = DOMAIN vehicles
      /\ vehicles' = [v \in DOMAIN vehicles |-> vehicles'[v]]
      /\ \A v \in DOMAIN vehicles : vehicles'[v] \in {None, vehicles[v]}
  BY DetachedOnly DEF DetachVehicles
<1>9. vehicles' \in [DOMAIN vehicles -> DOMAIN groups \cup {None}]
  BY <1>8 DEF IInv, TypeOK
<1>10. TypeOK'
  BY <1>4, <1>6, <1>8, <1>9 DEF IInv, TypeOK
<1>11. GroupNotReassigned'
  BY <1>4, <1>8 DEF IInv, GroupNotReassigned
<1> QED
  BY <1>6, <1>7, <1>10, <1>11 DEF IInv

LEMMA StepDeleteGroup ==
  ASSUME IInv, NEW r \in Requests, DeleteGroup(r)
  PROVE  IInv'
<1> DEFINE k == slot[r].id
<1>1. Moves(r) /\ slot'[r] = Idle
  BY GotoMoves DEF DeleteGroup, Goto
<1>2. UNCHANGED <<drawn, jobs, processor, mishaps>>
  BY DEF DeleteGroup
<1>3. /\ DOMAIN groups' = DOMAIN groups \ {k}
      /\ groups' = [i \in DOMAIN groups' |-> groups[i]]
      /\ \A i \in DOMAIN groups' : groups'[i] = groups[i]
  BY DEF DeleteGroup, Without
<1>4. Grows
  BY <1>2, <1>3 DEF Grows
<1>5. FramesHold' /\ slot' \in [Requests -> Frame]
  BY <1>1, <1>4, IdleHolds, FramesStep
<1>6. JobsHold'
  BY <1>2, <1>4, JobsStay
<1>7. /\ DOMAIN vehicles' = DOMAIN vehicles
      /\ vehicles' = [v \in DOMAIN vehicles |-> vehicles'[v]]
      /\ \A v \in DOMAIN vehicles :
           \/ vehicles'[v] = None
           \/ vehicles'[v] = vehicles[v] /\ vehicles[v] # k
  BY DetachedOnly DEF DeleteGroup
<1>8. vehicles' \in [DOMAIN vehicles' -> DOMAIN groups' \cup {None}]
  BY <1>3, <1>7 DEF IInv, TypeOK
<1>9. groups' \in [DOMAIN groups' -> Groups]
  BY <1>3 DEF IInv, TypeOK
<1>10. TypeOK'
  BY <1>2, <1>3, <1>5, <1>7, <1>8, <1>9 DEF IInv, TypeOK
<1>11. GroupNotReassigned'
  <2>1. ASSUME NEW v \in DOMAIN vehicles', vehicles'[v] # None
        PROVE  vehicles'[v] = Detail[v] \/ groups'[vehicles'[v]] = GroupOf[v]
    <3>1. v \in DOMAIN vehicles /\ vehicles'[v] = vehicles[v] /\ vehicles[v] # k
      BY <1>7, <2>1
    <3>2. vehicles[v] \in DOMAIN groups'
      BY <1>3, <2>1, <3>1 DEF IInv, TypeOK
    <3> QED
      BY <1>3, <2>1, <3>1, <3>2 DEF IInv, GroupNotReassigned
  <2> QED
    BY <2>1 DEF GroupNotReassigned
<1> QED
  BY <1>5, <1>6, <1>10, <1>11 DEF IInv

LEMMA StepRemoveVehicle ==
  ASSUME IInv, RemoveVehicle
  PROVE  IInv'
<1>1. UNCHANGED <<groups, drawn, jobs, processor, slot>>
      /\ mishaps' \in 0..MaxMishaps
  BY VehicleSyncAssumption DEF RemoveVehicle, Mishap, IInv, TypeOK
<1>2. /\ DOMAIN vehicles' \subseteq DOMAIN vehicles
      /\ vehicles' = [v \in DOMAIN vehicles' |-> vehicles[v]]
  BY DEF RemoveVehicle, Without
<1>3. TypeOK' /\ GroupNotReassigned'
  BY <1>1, <1>2 DEF IInv, TypeOK, GroupNotReassigned
<1>4. FramesHold' /\ JobsHold'
  BY <1>1 DEF IInv, FramesHold, JobsHold
<1> QED
  BY <1>3, <1>4 DEF IInv

LEMMA StepFail ==
  ASSUME IInv, Fail
  PROVE  IInv'
<1>1. UNCHANGED <<vehicles, groups, drawn, jobs>> /\ mishaps' \in 0..MaxMishaps
  BY VehicleSyncAssumption DEF Fail, Mishap, IInv, TypeOK
<1>2. ASSUME NEW r \in Requests, Goto(r, Idle), UNCHANGED processor
      PROVE  IInv'
  <2>1. Moves(r) /\ slot'[r] = Idle
    BY <1>2, GotoMoves DEF Goto
  <2> QED
    BY <1>1, <1>2, <2>1, IdleHolds, LocalStep
<1>3. CASE processor' = Idle /\ UNCHANGED slot
  <2>1. FramesHold' /\ JobsHold' /\ processor' \in ProcessorFrame
    BY <1>1, <1>3, ProcessorStep
  <2>2. TypeOK' /\ GroupNotReassigned'
    BY <1>1, <1>3, <2>1 DEF IInv, TypeOK, GroupNotReassigned
  <2> QED
    BY <2>1, <2>2 DEF IInv
<1> QED
  BY <1>2, <1>3 DEF Fail

LEMMA StepCrash ==
  ASSUME IInv, Crash
  PROVE  IInv'
<1>1. /\ jobs' = <<>> /\ processor' = Idle
      /\ slot' = [r \in Requests |-> Idle]
      /\ UNCHANGED <<vehicles, groups, drawn>>
  BY DEF Crash
<1>2. mishaps' \in 0..MaxMishaps
  BY VehicleSyncAssumption DEF Crash, Mishap, IInv, TypeOK
<1>3. FramesHold' /\ slot' \in [Requests -> Frame]
  BY <1>1, IdleHolds DEF FramesHold
<1>4. JobsHold' /\ jobs' \in Seq(Job) /\ processor' \in ProcessorFrame
  BY <1>1 DEF JobsHold, Idle, ProcessorFrame
<1>5. TypeOK' /\ GroupNotReassigned'
  BY <1>1, <1>2, <1>3, <1>4 DEF IInv, TypeOK, GroupNotReassigned
<1> QED
  BY <1>3, <1>4, <1>5 DEF IInv
-----------------------------------------------------------------------------
LEMMA InitHolds == Init => IInv
<1> SUFFICES ASSUME Init PROVE IInv
  OBVIOUS
<1>1. DOMAIN vehicles = {} /\ DOMAIN groups = {}
  BY DEF Init
<1>2. vehicles \in [{} -> DOMAIN groups \cup {None}] /\ groups \in [{} -> Groups]
  BY DEF Init
<1>3. FramesHold /\ slot \in [Requests -> Frame]
  BY IdleHolds DEF Init, FramesHold
<1>4. JobsHold /\ jobs \in Seq(Job) /\ processor \in ProcessorFrame
  BY DEF Init, JobsHold, Idle, ProcessorFrame
<1>5. drawn \in 0..MaxGroups /\ mishaps \in 0..MaxMishaps
  BY VehicleSyncAssumption DEF Init
<1>6. TypeOK /\ GroupNotReassigned
  BY <1>1, <1>2, <1>3, <1>4, <1>5 DEF TypeOK, GroupNotReassigned
<1> QED
  BY <1>3, <1>4, <1>6 DEF IInv

LEMMA StepHolds == IInv /\ [Next]_vars => IInv'
<1> SUFFICES ASSUME IInv, [Next]_vars PROVE IInv'
  OBVIOUS
<1>1. ASSUME NEW r \in Requests, NEW g \in Groups, BulkSync(r, g) PROVE IInv'
  BY <1>1, StepBulkSync
<1>2. ASSUME NEW r \in Requests, SyncOne(r) PROVE IInv'
  BY <1>2, StepSyncOne
<1>3. ASSUME NEW r \in Requests, RemoveGroup(r) PROVE IInv'
  BY <1>3, StepRemoveGroup
<1>4. ASSUME NEW r \in Requests, Continue(r) PROVE IInv'
  BY <1>4, StepSelectGroup, StepInsertGroup, StepRefetchGroup,
     StepQueueVehicle, StepQueueOne, StepCountVehicles, StepDetachVehicles,
     StepDeleteGroup DEF Continue
<1>5. CASE Process
  BY <1>5, StepTakeJob, StepSelectVehicle, StepInsertVehicle DEF Process
<1>6. CASE RemoveVehicle
  BY <1>6, StepRemoveVehicle
<1>7. CASE Fail
  BY <1>7, StepFail
<1>8. CASE Crash
  BY <1>8, StepCrash
<1>9. CASE UNCHANGED vars
  BY <1>9 DEF vars, IInv, TypeOK, FramesHold, JobsHold, GroupNotReassigned
<1> QED
  BY <1>1, <1>2, <1>3, <1>4, <1>5, <1>6, <1>7, <1>8, <1>9 DEF Next

LEMMA Invariance == Spec => []IInv
  BY InitHolds, StepHolds, PTL DEF Spec

(* The tables, the job queue and the frames are well-typed; a vehicle's    *)
(* group is always a row of the table of groups, or none.                  *)
THEOREM TypeCorrect == Spec => []TypeOK
<1>1. IInv => TypeOK
  BY DEF IInv
<1> QED
  BY <1>1, Invariance, PTL

(* A job created before a group was removed and created again never puts   *)
(* its vehicle into the group of another one, but for the number that      *)
(* syncVehicleByVehicleId takes from the details of Malambi.               *)
THEOREM GroupsStayTheirs == Spec => []GroupNotReassigned
<1>1. IInv => GroupNotReassigned
  BY DEF IInv
<1> QED
  BY <1>1, Invariance, PTL
=============================================================================
