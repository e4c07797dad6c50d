----------------------------- MODULE QueueTable -----------------------------
(***************************************************************************)
(* The table center_queues and the statements the services run on it.      *)
(*                                                                         *)
(* A row says that a vehicle waits, for a trip, to be loaded or unloaded   *)
(* at a center.  Rows are inserted by QueuesService.addToQueue and made    *)
(* inactive by QueuesService.executeStartService; no service deletes or    *)
(* reactivates one.  Each operator below is the effect or the condition of *)
(* one SQL statement; the handlers that issue the statements, one await    *)
(* after the other, are in CenterQueues (which adds the column position)   *)
(* and in Trips.  All rows belong to one account: every statement filters  *)
(* on accountId, so accounts do not meet.                                  *)
(***************************************************************************)
EXTENDS Naturals

CONSTANTS
  Centers,    \* primary keys of the centers of the account
  Vehicles,   \* primary keys of its vehicles
  Trips,      \* primary keys the table trips can hand out
  EntryIds,   \* primary keys the table center_queues can hand out
  MaxDay      \* bound: the number of calendar days a behaviour spans

ASSUME MaxDayAssumption == MaxDay \in Nat \ {0}

VARIABLES
  entries,    \* center_queues: a function from the ids in use to rows
  today       \* the server's calendar day, as getTodayDate sees it

queueVars == <<entries, today>>

QueueType == {"LOADING", "UNLOADING"}

Entry == [center : Centers, type : QueueType, vehicle : Vehicles,
          trip : Trips, day : 1..MaxDay, active : BOOLEAN]

QueueTypeOK ==
  /\ DOMAIN entries \subseteq EntryIds
  /\ entries \in [DOMAIN entries -> Entry]
  /\ today \in 1..MaxDay

QueueInit ==
  /\ entries = [e \in {} |-> {}]
  /\ today = 1
-----------------------------------------------------------------------------
(* An INSERT into a table held as a function from primary keys to rows.    *)
InsertRow(table, id, row) ==
  [k \in DOMAIN table \cup {id} |-> IF k = id THEN row ELSE table[k]]

(* The primary key a PostgreSQL sequence hands out: some key not in use.   *)
FreshId(ids, table) == CHOOSE id \in ids \ DOMAIN table : TRUE

(* Mutation of AlreadyQueued: the rows of earlier days are overlooked.     *)
AlreadyQueuedToday(v, c, q) ==
  \E e \in DOMAIN entries :
    /\ entries[e].center = c
    /\ entries[e].vehicle = v
    /\ entries[e].type = q
    /\ entries[e].active
    /\ entries[e].day = today

(* The "already in queue" test of addToQueue.  It does not look at the day *)
(* of the row, unlike every other query on the table.                      *)
AlreadyQueued(v, c, q) ==
  \E e \in DOMAIN entries :
    /\ entries[e].center = c
    /\ entries[e].vehicle = v
    /\ entries[e].type = q
    /\ entries[e].active

(* The active rows of day d for a center and a queue type.                 *)
Line(c, q, d) ==
  {e \in DOMAIN entries :
     /\ entries[e].center = c
     /\ entries[e].type = q
     /\ entries[e].active
     /\ entries[e].day = d}

(* Mutations of Startable: rows already served; rows of any vehicle.       *)
EverQueued(v, q, d) ==
  {e \in DOMAIN entries :
     entries[e].vehicle = v /\ entries[e].type = q /\ entries[e].day = d}

QueuedByAnyone(v, q, d) ==
  {e \in DOMAIN entries :
     entries[e].type = q /\ entries[e].active /\ entries[e].day = d}

(* The rows startServiceByVehicleId may pick on day d: any center, any     *)
(* position, and no ORDER BY before its LIMIT 1.                           *)
Startable(v, q, d) ==
  {e \in DOMAIN entries :
     /\ entries[e].vehicle = v
     /\ entries[e].type = q
     /\ entries[e].active
     /\ entries[e].day = d}

(* The INSERT of addToQueue, with queueDate the day of the insertion.      *)
InsertEntry(c, q, v, t) ==
  /\ EntryIds \ DOMAIN entries # {}
  /\ entries' = InsertRow(entries, FreshId(EntryIds, entries),
                  [center |-> c, type |-> q, vehicle |-> v, trip |-> t,
                   day |-> today, active |-> TRUE])

(* The UPDATE of executeStartService.  Its WHERE clause names only the id: *)
(* it succeeds on a row that is inactive already.                          *)
Deactivate(e) == entries' = [entries EXCEPT ![e].active = FALSE]

(* Midnight passes on the server.                                          *)
NextDay ==
  /\ today < MaxDay
  /\ today' = today + 1
=============================================================================
