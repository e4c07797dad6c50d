---------------------------- MODULE CenterQueues ----------------------------
(***************************************************************************)
(* QueuesService: vehicles join the line of a center, and the head of the  *)
(* line, or a vehicle an agent scans, is taken out and served.             *)
(*                                                                         *)
(* Requests interleave at every await and no transaction is opened: each   *)
(* SQL statement is one step.  This module keeps what Trips leaves out:    *)
(* the column position, computed by a COUNT in one statement, stored by    *)
(* another, and rewritten row by row after each service.  The lookups of   *)
(* the center, the vehicle and the trip are merged into the statement that *)
(* follows them.                                                           *)
(***************************************************************************)
EXTENDS QueueTable, Sequences, FiniteSets, SequencesExt

CONSTANTS
  Requests,      \* slots for concurrent HTTP requests
  Endpoints,     \* the endpoints clients use
  MayFail,       \* whether a statement or the process may fail
  MidnightCuts   \* whether midnight may fall inside a request

ASSUME CenterQueuesAssumption ==
  /\ Endpoints \subseteq {"addToQueue", "startNext", "startVehicle"}
  /\ MayFail \in BOOLEAN
  /\ MidnightCuts \in BOOLEAN

VARIABLES
  position,   \* center_queues.position of each row
  queued,     \* the rows whose QUEUED event is in trip_events
  started,    \* how many SERVICE_STARTED events each row has caused
  slot        \* what each request is doing

vars == <<entries, today, position, queued, started, slot>>

(* A free slot.  The field pc of the other frames is the next statement.   *)
Idle == [pc |-> "idle"]

(* The locals of addToQueue that live across an await.                     *)
AddFrame ==
  [pc : {"count", "insert"}, center : Centers, type : QueueType,
   vehicle : Vehicles, trip : Trips, nextPosition : Nat]

(* The locals of the three start methods: the day whose rows they look at, *)
(* what they look for, the row found with the position it had, and the     *)
(* rows still to be renumbered.                                            *)
NextFrame ==
  [pc : {"selectNext"}, center : Centers, type : QueueType, day : 1..MaxDay]

VehicleFrame ==
  [pc : {"selectVehicle"}, vehicle : Vehicles, type : QueueType,
   day : 1..MaxDay]

EntryFrame == [pc : {"queuedEvent"}, entry : EntryIds]

ServeFrame ==
  [pc : {"deactivate", "serviceEvent", "selectRest", "renumber"},
   entry : EntryIds, was : Nat, day : 1..MaxDay,
   rest : Seq(EntryIds), i : Nat]

Frame ==
  {Idle} \cup AddFrame \cup NextFrame \cup VehicleFrame \cup EntryFrame
         \cup ServeFrame

TypeOK ==
  /\ QueueTypeOK
  /\ position \in [DOMAIN entries -> Nat \ {0}]
  /\ queued \subseteq DOMAIN entries
  /\ started \in [EntryIds -> Nat]
  /\ slot \in [Requests -> Frame]

Init ==
  /\ QueueInit
  /\ position = [e \in {} |-> 0]
  /\ queued = {}
  /\ started = [e \in EntryIds |-> 0]
  /\ slot = [r \in Requests |-> Idle]
-----------------------------------------------------------------------------
(* A request goes on to its next statement, or returns.                    *)
Goto(r, frame) == slot' = [slot EXCEPT ![r] = frame]

(* Bound: no more rows are asked for than there are primary keys.          *)
RoomForRow ==
  Cardinality({r \in Requests : slot[r].pc \in {"count", "insert"}})
    < Cardinality(EntryIds \ DOMAIN entries)

(* addToQueue: the "already in queue" SELECT.                              *)
AddToQueue(r) ==
  /\ "addToQueue" \in Endpoints
  /\ slot[r] = Idle
  /\ RoomForRow
  /\ \E c \in Centers, q \in QueueType, v \in Vehicles, t \in Trips :
       /\ ~ AlreadyQueued(v, c, q)
       /\ Goto(r, [pc |-> "count", center |-> c, type |-> q, vehicle |-> v,
                   trip |-> t, nextPosition |-> 0])
  /\ UNCHANGED <<entries, today, position, queued, started>>

(* Mutation of NextPosition: positions start from 0.                       *)
CountOfLine(c, q) == Cardinality(Line(c, q, today))

(* Today's active rows plus one.                                           *)
NextPosition(c, q) == Cardinality(Line(c, q, today)) + 1

(* addToQueue: the COUNT.                                                  *)
CountLine(r) ==
  /\ slot[r].pc = "count"
  /\ Goto(r, [slot[r] EXCEPT !.pc = "insert",
                !.nextPosition = NextPosition(slot[r].center, slot[r].type)])
  /\ UNCHANGED <<entries, today, position, queued, started>>

(* addToQueue: the INSERT, dated with the day it is run on.                *)
InsertQueueEntry(r) ==
  /\ slot[r].pc = "insert"
  /\ InsertEntry(slot[r].center, slot[r].type, slot[r].vehicle, slot[r].trip)
  /\ LET e == FreshId(EntryIds, entries) IN
       /\ position' = InsertRow(position, e, slot[r].nextPosition)
       /\ Goto(r, [pc |-> "queuedEvent", entry |-> e])
  /\ UNCHANGED <<today, queued, started>>

(* Mutation of RecordQueued: the event is forgotten.                       *)
LeaveQueuedOut(r) ==
  /\ slot[r].pc = "queuedEvent"
  /\ Goto(r, Idle)
  /\ UNCHANGED <<entries, today, position, queued, started>>

(* addToQueue: the QUEUED event.                                           *)
RecordQueued(r) ==
  /\ slot[r].pc = "queuedEvent"
  /\ queued' = queued \cup {slot[r].entry}
  /\ Goto(r, Idle)
  /\ UNCHANGED <<entries, today, position, started>>
-----------------------------------------------------------------------------
(* startNextService and startServiceByVehicleId: the day is read first.    *)
StartNext(r) ==
  /\ "startNext" \in Endpoints
  /\ slot[r] = Idle
  /\ \E c \in Centers, q \in QueueType :
       Goto(r, [pc |-> "selectNext", center |-> c, type |-> q, day |-> today])
  /\ UNCHANGED <<entries, today, position, queued, started>>

StartVehicle(r) ==
  /\ "startVehicle" \in Endpoints
  /\ slot[r] = Idle
  /\ \E v \in Vehicles, q \in QueueType :
       Goto(r, [pc |-> "selectVehicle", vehicle |-> v, type |-> q,
                day |-> today])
  /\ UNCHANGED <<entries, today, position, queued, started>>

(* Mutation of Serve: the row stays in the line.                           *)
ServeInLine(e) ==
  [pc |-> "serviceEvent", entry |-> e, was |-> position[e], day |-> today,
   rest |-> <<>>, i |-> 0]

(* executeStartService computes its own day from the clock.                *)
Serve(e) ==
  [pc |-> "deactivate", entry |-> e, was |-> position[e], day |-> today,
   rest |-> <<>>, i |-> 0]

(* Mutations of Heads: the row numbered 1 only; the last of the line.      *)
NumberOne(c, q, d) == {e \in Line(c, q, d) : position[e] = 1}

Tails(c, q, d) ==
  {e \in Line(c, q, d) : \A f \in Line(c, q, d) : position[f] <= position[e]}

(* ORDER BY position LIMIT 1: rows with the lowest position, in any order. *)
Heads(c, q, d) ==
  {e \in Line(c, q, d) : \A f \in Line(c, q, d) : position[e] <= position[f]}

SelectNext(r) ==
  /\ slot[r].pc = "selectNext"
  /\ LET heads == Heads(slot[r].center, slot[r].type, slot[r].day) IN
       \/ \E e \in heads : Goto(r, Serve(e))
       \/ heads = {} /\ Goto(r, Idle)
  /\ UNCHANGED <<entries, today, position, queued, started>>

SelectVehicle(r) ==
  /\ slot[r].pc = "selectVehicle"
  /\ LET found == Startable(slot[r].vehicle, slot[r].type, slot[r].day) IN
       \/ \E e \in found : Goto(r, Serve(e))
       \/ found = {} /\ Goto(r, Idle)
  /\ UNCHANGED <<entries, today, position, queued, started>>

(* executeStartService: the UPDATE of the row.                             *)
DeactivateEntry(r) ==
  /\ slot[r].pc = "deactivate"
  /\ Deactivate(slot[r].entry)
  /\ Goto(r, [slot[r] EXCEPT !.pc = "serviceEvent"])
  /\ UNCHANGED <<today, position, queued, started>>

(* executeStartService: the SERVICE_STARTED event.                         *)
RecordService(r) ==
  /\ slot[r].pc = "serviceEvent"
  /\ started' = [started EXCEPT ![slot[r].entry] = @ + 1]
  /\ Goto(r, [slot[r] EXCEPT !.pc = "selectRest"])
  /\ UNCHANGED <<entries, today, position, queued>>

(* Mutation of Behind: the comparison is off by one.                       *)
FarBehind(frame) ==
  {e \in Line(entries[frame.entry].center, entries[frame.entry].type,
              frame.day) : position[e] > frame.was + 1}

(* executeStartService: the SELECT of the rows behind the one served.      *)
Behind(frame) ==
  {e \in Line(entries[frame.entry].center, entries[frame.entry].type,
              frame.day) : position[e] > frame.was}

ByPosition(rows) ==
  {s \in SetToSeqs(rows) :
     \A i, j \in DOMAIN s : i < j => position[s[i]] <= position[s[j]]}

SelectRest(r) ==
  /\ slot[r].pc = "selectRest"
  /\ IF Behind(slot[r]) = {}
     THEN Goto(r, Idle)
     ELSE \E rest \in ByPosition(Behind(slot[r])) :
            Goto(r, [slot[r] EXCEPT !.pc = "renumber", !.rest = rest, !.i = 1])
  /\ UNCHANGED <<entries, today, position, queued, started>>

(* Mutation of Renumber: the rows that were read are saved as a whole.     *)
SaveRenumbered(r) ==
  /\ slot[r].pc = "renumber"
  /\ position' = [position EXCEPT ![slot[r].rest[slot[r].i]] = slot[r].i]
  /\ entries' = [entries EXCEPT ![slot[r].rest[slot[r].i]].active = TRUE]
  /\ Goto(r, IF slot[r].i = Len(slot[r].rest) THEN Idle
             ELSE [slot[r] EXCEPT !.i = @ + 1])
  /\ UNCHANGED <<today, queued, started>>

(* executeStartService: one UPDATE of the loop that renumbers them.        *)
Renumber(r) ==
  /\ slot[r].pc = "renumber"
  /\ position' = [position EXCEPT ![slot[r].rest[slot[r].i]] = slot[r].i]
  /\ Goto(r, IF slot[r].i = Len(slot[r].rest) THEN Idle
             ELSE [slot[r] EXCEPT !.i = @ + 1])
  /\ UNCHANGED <<entries, today, queued, started>>
-----------------------------------------------------------------------------
(* A statement fails, the request answers 500; the process dies, and the   *)
(* requests with it; midnight passes.                                      *)
Fail(r) ==
  /\ MayFail
  /\ slot[r] # Idle
  /\ Goto(r, Idle)
  /\ UNCHANGED <<entries, today, position, queued, started>>

Crash ==
  /\ MayFail
  /\ slot' = [r \in Requests |-> Idle]
  /\ UNCHANGED <<entries, today, position, queued, started>>

Quiet == \A r \in Requests : slot[r] = Idle

Midnight ==
  /\ MidnightCuts \/ Quiet
  /\ NextDay
  /\ UNCHANGED <<entries, position, queued, started, slot>>

Call(r) == AddToQueue(r) \/ StartNext(r) \/ StartVehicle(r)

Continue(r) ==
  \/ CountLine(r)       \/ InsertQueueEntry(r) \/ RecordQueued(r)
  \/ SelectNext(r)      \/ SelectVehicle(r)    \/ DeactivateEntry(r)
  \/ RecordService(r)   \/ SelectRest(r)       \/ Renumber(r)

Next ==
  \/ \E r \in Requests : Call(r) \/ Continue(r) \/ Fail(r)
  \/ Crash
  \/ Midnight

Spec == Init /\ [][Next]_vars

(* Statements are answered, and at every center an agent keeps asking for  *)
(* the next vehicle while one waits.  No fairness for the rest.            *)
AskNext(c, q) ==
  /\ Line(c, q, today) # {}
  /\ \E r \in Requests :
       StartNext(r) /\ slot'[r].center = c /\ slot'[r].type = q

FairSpec ==
  /\ Spec
  /\ \A r \in Requests : WF_vars(Continue(r))
  /\ \A c \in Centers, q \in QueueType : SF_vars(AskNext(c, q))
-----------------------------------------------------------------------------
(* SERVICE_STARTED is recorded for rows that have left the line: even when *)
(* two agents start the same vehicle, or the process dies between two      *)
(* statements, no vehicle in service is shown as waiting.                  *)
ServedAfterLeaving ==
  \A e \in EntryIds :
    started[e] > 0 => e \in DOMAIN entries /\ ~ entries[e].active

(* Whatever the loops that renumber the lines read before, a row that has  *)
(* left its line never waits again, and no row is lost or becomes another  *)
(* vehicle's.                                                              *)
LeftForGood ==
  [][\A e \in DOMAIN entries :
       /\ e \in DOMAIN entries'
       /\ \/ entries'[e] = entries[e]
          \/ entries'[e] = [entries[e] EXCEPT !.active = FALSE]]_vars

(* Requests that do not overlap never put a vehicle twice in a line, also  *)
(* when earlier ones failed half-way or rows of an earlier day remain.     *)
OneEntryPerVehicle ==
  \A e, f \in DOMAIN entries :
    /\ entries[e].active /\ entries[f].active
    /\ entries[e].vehicle = entries[f].vehicle
    /\ entries[e].center = entries[f].center
    /\ entries[e].type = entries[f].type
    => e = f

(* Requests that do not overlap start the service of a row once.           *)
ServedOnce == \A e \in EntryIds : started[e] <= 1

(* addToQueue: "positions are always sequential (1, 2, 3...) without gaps, *)
(* and reset each day".                                                    *)
PositionsSequential ==
  Quiet => \A c \in Centers, q \in QueueType :
    LET line == Line(c, q, today) IN
    {position[e] : e \in line} = 1..Cardinality(line)

(* The audit trail of a row says it was queued before it says its service  *)
(* started.                                                                *)
QueuedBeforeServed == \A e \in EntryIds : started[e] > 0 => e \in queued

(* The races of concurrent requests leave equal positions and gaps behind, *)
(* but strand no vehicle: while agents ask for the next one, a waiting     *)
(* vehicle leaves the line or the day ends.                                *)
NoVehicleForgotten ==
  \A e \in EntryIds :
    (e \in DOMAIN entries /\ entries[e].active /\ entries[e].day = today)
      ~> (e \in DOMAIN entries /\
            (~ entries[e].active \/ entries[e].day < today))
=============================================================================
