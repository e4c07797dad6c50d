# Verification of proof-arrive-api

TLA+ models, TLC model checking and TLAPS proofs of the proof-of-arrival API: a
NestJS service over PostgreSQL that follows vehicles from a center of origin
to a center of destination. Paths below are relative to `src/src/` of the
repository unless they start with `docs/`.

## 1. Inventory

| Component | State | Operations that change it | What makes it hard |
|---|---|---|---|
| **Trips** `modules/trips` | tables `trips`, `trip_events`, status and center of `vehicles` | createTrip, createTripEvent, the eight trip actions (start-loading ... complete), the background queue job of createTrip | each action is 2 to 7 SQL statements with an await between any two, no transaction, phase checked on a row read earlier |
| **Center queues** `modules/queues` | table `center_queues` | addToQueue, startNextService, startServiceByVehicleId | position counted, stored and rewritten by different statements; the calendar day |
| **Vehicles and status** `modules/vehicles` | `vehicles`, `vehicle_status_history` | updateVehicleStatus, assignments, bulk assignments, remove | the same row is written by trip events; history is a later statement whose error is swallowed; removals in between |
| **Vehicle groups** | `vehicle_groups`, `vehicles.group_id` | bulk sync, removeGroup | count, detach, delete are three statements; jobs carry ids of groups |
| **QR codes** `modules/vehicles/qr-code.service.ts` | `qr_codes`, the encryption key | generate, bulk, regenerate, validate, delete | check-then-insert; rows written under another key |
| **Sessions** `modules/auth` | `refresh_tokens`, sessions at Malambi | login, refreshToken, logout | rotation is SELECT, DELETE, DELETE, INSERT |
| **Job queue** `common/queue` | memory only | add, the processing loop | jobs are lost with the process or with an error |
| **Syncs** `*-sync.service.ts` | `users`, `vehicles`, `centers` | syncUser, syncVehicle, syncCenter, bulk forms | check-then-insert, in one loop, against logins, seeders and removals |
| **Default centers** `centers-seeder.service.ts` | `centers` | seedDefaultCentersForAccount | not awaited, per-row errors swallowed, restarted by logins |
| **Arrivals and stages** `modules/arrivals` | `arrivals`, `processing_stages` | create, updateStatus, create, update and remove a stage | times of a stage decided on a stale row; foreign keys against removals |
| **Exits** `modules/exits` | `exits` | create, update, remove | foreign keys against removals |
| **Listings** (findAll of six tables) | none | none, but a client follows their links | COUNT, SELECT and fallbacks are separate statements, pages separate requests |
| Centers, users | one table each | created by syncs; update of a user, remove | what refers to them |
| Reports, Malambi client, migrations, generic table access | - | - | read-only, pure I/O, start-up only |

How they interact. `TripsService` calls `QueuesService` (queue insertion on
creation and arrival, service start on loading and unloading) and both insert
into `trip_events`. Queue rows name a trip and a vehicle. `AuthService` and
the controllers of vehicles and centers feed the job queue, whose loop calls the
syncs and the seeder. Everything else meets only in the database. There is no
lock, no transaction and no unique constraint on ongoing trips or queue rows, so
the unit of atomicity is one SQL statement.

What must hold:

* a phase is never ahead of the audit trail, and a completed trip has all of it;
* what a handler read before an await is still right when it is used;
* a vehicle has one ongoing trip, and a trip goes through its phases in order;
* a trip that has arrived somewhere is in the queue there, and its vehicle's row agrees;
* a vehicle in service is not shown waiting, none is queued or served twice;
* service is first come, first served, nobody is forgotten, every trip can be completed;
* a refresh token that was exchanged or logged out does not come back, and no other session suffers;
* after any failure, users who log in again end up with their row and their default centers, and vehicles that are asked for again end up in the table, in their own group;
* the processing loop never stops, and never creates a center twice;
* a status change by hand is in the history;
* a label that was handed out can be scanned, a stage has a completion time only when it is completed, and a client that follows the links of a listing sees every row that stays in its place or moves back (the exceptions are with `NothingSkipped`).

`PROJECT.json` lists every hazard at its line, with the properties that cover it.

## 2. Modules

| Module | Models |
|---|---|
| `QueueTable` | the table `center_queues` and the SQL statements on it, shared by `Trips` and `CenterQueues` |
| `Trips` | `TripsService` and the part of `QueuesService` it calls |
| `TripRecord` | abstract: the record of a trip, in which nothing is lost or shown too early; `Trips` has the refinement mapping (`Record`) |
| `CenterQueues` | `QueuesService` with positions and renumbering |
| `FifoLine` | abstract: lines where one joins at the end and is served at the head, emptied every day |
| `CenterQueuesFifo` | the refinement mapping from `CenterQueues` to `FifoLine` |
| `Sessions` | `AuthService` on `refresh_tokens`, with the middleware |
| `Onboarding` | login, `QueueService`, the loop of `QueueProcessorService`, `UsersSyncService`, `CentersSyncService`, `CentersSeederService` |
| `VehicleSync` | `VehiclesSyncService`, its jobs, and the removal of groups and vehicles |
| `VehicleStatus` | status, history and assignments of `VehiclesService` |
| `QrCodes` | `QrCodeService` with the key of `EncryptionService` |
| `Yard` | extends `QrCodes` with `ArrivalsService`, `ExitsService` and the removal of what they refer to |
| `Listing` | extends `Yard` with the paginated listings and a client that walks through them |
| `MC...` | symmetry sets and values of constants for TLC |
| `TripsProofs`, `CenterQueuesProofs`, `SessionsProofs`, `VehicleSyncProofs`, `OnboardingProofs`, `VehicleStatusProofs` | theorems about the module they are named after |
| `CenterQueuesFifoProofs` | theorems about queues whose requests do not overlap, and the refinement of `FifoLine` |
| `ListingProofs` | theorems about `Listing` and, as it extends them, `Yard` and `QrCodes` |

### State and actions

A table is a function from the primary keys in use to rows. A request is a
*slot*: its frame has the handler's locals that live across an await and, in
`pc`, the next statement it will run. One action fills a free slot; each
statement is one action, with the code up to the next await; between two of
them any other slot may run. So `StartLoading` is `getTripOrThrow` and
`ensurePhase`, then `SelectEntry`, `DeactivateEntry`, `RecordService`,
`UpdatePhase` are the statements that follow in `startServiceByVehicleId`,
`executeStartService`, and `updateTripPhase`. What is started and not awaited
has a slot of its own: the promise of `createTrip`, named by the trip, the runs
of the seeder (`seeding`), and the processing loop (`processor`), which holds the job it has shifted.

* `Trips`: `trips`, `events` (the set of event types recorded for a trip:
  `trip_events` only grows and no code reads it to decide anything), `vehicles`.
* `CenterQueues`: `entries`, `today` - the queue rows and the server's day;
  `position`, `queued`, `started` - the column, and the events each row caused.
* `Sessions`: `refreshTokens`, `malambi` (who is logged in there), and what the
  clients hold or did: `held`, `expired`, `exchanged`, `ended`, `away`.
* `Onboarding`: `users`, `centers`, `userJobs`, `centerJobs`. `VehicleSync`: `vehicles` (the
  group of each), `groups`, `drawn` (the sequence behind their ids), `jobs`.
* `VehicleStatus`: `vehicles`, `centers`, `history`, and `byHand`, what was
  written by hand.
* `QrCodes`, `Yard`, `Listing`: the tables `vehicles`, `qrCodes`, `centers`,
  `users`, `arrivals`, `stages`, `exits`; `key`; `labels` (what is printed),
  `raced` (stages updated on a stale row) and `walk`, the client and its request.

What is merged or left out: in `Trips` look-ups of vehicles and centers are
merged into the statement that follows, since no handler modelled there changes
those rows; final SELECTs that only build the answer, and completeTrip on a
completed trip, change nothing; timestamps other than the queue's day and the
times below, names, coordinates, metadata other than the destination are
dropped. `arrivedAt`, `exitedAt` and `startedAt` are numbers. A new one is the latest in
the table, the next, or, for a request that was overtaken between `new Date()` and its
INSERT, the one before: `Newest` leaves rows of one time in any order, as `ORDER BY` does.
The `createdAt` of vehicles, centers and users is a clock of the database with
microseconds, taken as different for different rows. The `search`, `sortBy`
and filters of the listings are left out: the client reads them in their default order. `Trips`, `CenterQueues`, `VehicleStatus`, `VehicleSync`, `QrCodes`,
`Yard` and `Listing` model one account, since their statements filter by account;
`Onboarding` has several, since its primary keys do not. `Trips` leaves positions
to `CenterQueues`: its `startService` endpoint may take any active row of
today, which includes what both start methods can pick, and its renumbering is not visible.
`CenterQueues` does not model the trips themselves: rows carry an arbitrary trip.
A failed statement is taken to have had no effect, and a crash or restart
empties every slot, and what is kept in memory, and keeps the tables. Foreign
keys, unique indexes and cascades of the schemas are part of the statements.
What a driver error looks like decides some branches (the fallback of
syncUser, the retries of two listings): drizzle-orm wraps the error, its message
quotes the statement, and the code of PostgreSQL is in its `cause`.

The operators marked "Mutation of ..." are plausible bugs, used only to
confirm that each property can fail; no specification refers to them.

## 3. Runs

Bounds are sets of model values in each `.cfg` or definitions in the MC module:
`Trips`, `EntryIds`, `Tokens`, `MaxGroups` bound the rows a behaviour may insert,
`MaxDay` the days, `Requests` the requests in flight, `MaxRequests` and
`MaxChanges` their number, `MaxJobs` the jobs waiting, `MaxMishaps` what goes
wrong. `c9` in `RequestedCenters` is a center the account does not have.
Where a bound is used up a behaviour stops: hence `CHECK_DEADLOCK FALSE`
everywhere.

| Run | Instance | Shows |
|---|---|---|
| TripsConcurrent | 2 requests, 1 trip and its job, failures, crashes, unknown centers | `TypeOK`, `PhaseHistory`, `CompletedHistory`, `DestinationReached`, `FramesHold`, `RecordKept` |
| TripsSerial | 1 request, all 12 endpoints, 1 vehicle, 2 trips, 2 days, failures, crashes | `OneOngoingTrip`, `PhasesInOrder` |
| TripsFlow | 1 request, 2 trips, 2 vehicles, 2 centers, no failure, fairness | `ArrivedInLoadingQueue`, `ArrivedInUnloadingQueue`, `ServiceOnRecord`, `VehicleTracksTrip`, `TripsComplete` |
| QueueConcurrent | 2 requests, 2 vehicles, 2 rows, 2 days, midnight inside requests, fairness | `TypeOK`, `ServedAfterLeaving`, `LeftForGood`, `NoVehicleForgotten` |
| QueueSerial | 1 request, 2 vehicles, 3 rows, 2 days, failures, crashes, midnight inside requests | `OneEntryPerVehicle`, `ServedOnce` |
| QueueFifo | 1 request, 3 vehicles, 4 rows, 2 days, no startServiceByVehicleId | `PositionsSequential`, `QueuedBeforeServed`, `FirstComeFirstServed` |
| Sessions | 2 users, 2 requests, 4 tokens, failures, crashes, expiry | `TypeOK`, `OldTokenInvalid`, `LoggedOutStaysOut`, `HeldTokenWorks` |
| Onboarding | 2 accounts whose users share a subid, 3 seedings, 1 mishap, fairness | `TypeOK`, `SeededWithUser`, `OneRowPerCenter`, `LoopSurvives`, `Onboarded` |
| VehicleSync | 2 requests, 2 vehicles in 2 groups, 3 group ids, 1 mishap, fairness | `TypeOK`, `GroupNotReassigned`, `FleetSynced` |
| VehicleStatus | 2 requests, 1 vehicle, 1 center, 3 statuses, 2 changes by hand, 1 mishap | `TypeOK`, `ManualChangesLogged` |
| Listing | 2 requests and a client, 1 vehicle, 1 center, 1 user, pages of 1, 3 requests, 1 mishap | `TypeOK`, `PrintedCodeScans`, `StageTimes`, `NothingSkipped` |

Why the bounds are enough to be interesting: two requests are the least that
race, and the handlers share data only through one trip, one vehicle, one
line, one group or one row; two trips of one vehicle are the least that break
`OneOngoingTrip`; three vehicles in a line are the least for which renumbering
has an order, the fourth row lets one rejoin; two days let a row outlive its
day. In TripsSerial the posted events are SERVICE_STARTED and READY_TO_EXIT:
one that changes the vehicle and the one that changes the trip; the background
job of `createTrip` still runs beside the request there. Four tokens let two
devices of a user each exchange theirs. Two seedings of the account with two
default centers are the least that interleave; the centers of Malambi include
two with one site and one without a geozone; the two users share a primary key.
The third group id lets a group be removed and created anew while a job still has
the old one, and the numbers of Malambi are database ids, too. Listing starts
from an empty yard, with or without a code of an older key, or from an arrival
with a stage, an exit and a code from before the encryption. Each of the three requests may
be the client's walk or one that changes the tables: two more are the least that
give a listing a second page and then remove its first row, or insert two rows with one
time, with one failure or restart between any two statements. One vehicle, center and user
make the walks of those three tables short: what is said of many rows there rests on the proof.

What holds only for requests that do not overlap is stated in the runs with
one request. `ServiceOnRecord`
holds in TripsFlow because actions are the only callers there: a client who
queues a vehicle under another trip gets the event of the wrong trip.

### Where documents and code disagree

One run checks a sentence of the repository that TLC finds violated:
TwoOngoingTrips, "only one active (ONGOING) trip at a time"
(`modules/schemas/trips.schema.ts:11`): two overlapping `POST /trips` both pass
the SELECT and both insert.

Seen on the way, without a run:

* An unknown destination is logged and skipped, and READY_TO_EXIT, "Destination
  set", is written (`trips.service.ts:391`, `trip-phase.enum.ts:13`).
* The late one of two overlapping end-unloading requests writes
  AT_DESTINATION_UNLOADING_ENDED over COMPLETED (`trips.service.ts:544`).
* A vehicle that waits over midnight can be neither served nor queued again
  (`queues.service.ts:155`), though old entries "don't affect new day's
  positions" (`docs/TRIPS_API_INTEGRATION_FLOW.md:1048`).
* Serving a vehicle in the middle renumbers those behind it from 1
  (`queues.service.ts:418`), though positions are "always sequential" (`:170`).
* executeStartService does not set the vehicle to LOADING as
  `docs/TRIPS_API_INTEGRATION_FLOW.md` says (events inserted directly skip the
  vehicle update), so `VehicleTracksTrip` says nothing of the two phases of service.
* An exchange of tokens that is past its SELECT when its user logs out stores a
  new token afterwards; a logout that is repeated is refused by the middleware,
  since Malambi no longer knows the session.
* A user whose subid is taken by a user of another account is taken for known
  (`users.schema.ts:10`), and centers are looked for across accounts (`centers-sync.service.ts:60`).
* syncVehicleByVehicleId hands Malambi's group id over where a database id is
  expected (`malambi-api.service.ts:324`, `vehicles-sync.service.ts:72`).
* drizzle-orm wraps driver errors, so tests of `error.code` fail and tests of the
  message match the quoted statement: a failed COUNT or SELECT of the vehicles
  is tried again with the same conditions, any failed INSERT of a user takes the
  fallback.
* updateVehicleAssignment without a center writes back the one it read
  (`vehicles.service.ts:1367`); trip events never enter the status history; a
  center that is removed between two statements of logStatusChange loses the row
  (`CentersService.remove` does that; no endpoint calls it yet).
* Two overlapping updates of a stage may leave a completion time on a stage that
  is not COMPLETED (`arrivals.service.ts:727`).
* The fallback of the arrivals and stages listings applies OFFSET to the rows of the page
  (`arrivals.service.ts:176`); a deletion between two pages moves a row to the page already
  read; so does an insertion after the COUNT to a page that was taken for the last one and is not
  read any more; and the order of rows with one time (`arrivals.service.ts:102`), or of stages without
  `startedAt` (`:457`), may change between two pages.
* After a change of the key a QR code cannot be scanned until it is generated
  again; the code of a removed vehicle cannot be deleted.

The properties except what these points describe, and say so where they are stated.

### Fairness

`FairSpec` of `Trips`: weak fairness of every slot's next statement (the
database answers) and of a request slot's calls (agents keep calling what the
phase of some trip allows; a client that stops leaves a trip where it is).
With one request slot, weak fairness of `Call` is enough: a call that is not
refused moves some trip one phase on, trips are finitely many, and the only
refusal, a queue row not inserted yet, ends when the background job runs. `FairSpec` of
`CenterQueues`: the same for statements, and strong fairness of `AskNext`,
"an agent asks for the next vehicle of a line with somebody in it": it is
strong since a slot is free again and again but not continuously. `Onboarding`:
weak fairness of the loop and of each run of the seeder, as both go on by
themselves, and of the logins of each user, without which nothing is tried
again. `VehicleSync`: the loop and the statements of each request, and strong fairness
of the bulk synchronisation of each group, since a slot is free again
and again. No fairness for failures, crashes, removals or midnight; in
`Onboarding` and `VehicleSync` they are bounded in number, in the liveness runs of
`Trips` and `CenterQueues` failures are off.

## 4. Proofs

`tlapm` checks every leaf; the theorems hold for all values of the constants
that satisfy the assumption of their module: `MaxDayAssumption` with
`TripsAssumption` or `CenterQueuesAssumption` (sentinels are not values; at
least one day), `SessionsAssumption` (`NoToken` is not a token),
`VehicleSyncAssumption` (groups have positive numbers), `OnboardingAssumption`
(the default centers of an account are a list, of centers with a geozone),
`ListingAssumption` (pages have rows; there are finitely many vehicles, centers
and agents, and at least one of each for the yard that is not empty).

Some properties hold only where requests do not overlap, as the runs that check
them say by their constants; their theorems say the same by a hypothesis:

| Hypothesis | Says | Run |
|---|---|---|
| `OneRequest` | one slot for requests; background jobs, failures and crashes as they come | TripsSerial, QueueSerial |
| `OneRequest /\ ~ MayFail` | besides, no request is cut off | QueueFifo |
| `Undisturbed` | besides, trips are created and moved by the actions only, not by posted events or direct queue requests | TripsFlow |
| `Sequential` | besides, no request spans midnight, and vehicles are started by startNextService only | QueueFifo |
| `DefaultsAreOwn` | no account has a center with the number of another account's default center ("account-scoped geozone_ids so they are globally unique", `centers-seeder.service.ts:78`) | Onboarding |
| `IsFiniteSet(Requests)` | finitely many requests in flight, so that those about to log can be counted | VehicleStatus |

These are not conditions the service enforces: what happens without them is
among the disagreements above (two ongoing trips, a row served from the middle).
`DefaultsAreOwn` is about numbers that Malambi assigns: where it gives the number of a
default center to a geozone of another account, that center cannot be seeded.
Within these hypotheses nothing is bounded: any number of trips, vehicles, centers, rows and days.

`TripsProofs`: `TypeCorrect`, `ReadsStayTrue` (`FramesHold`),
`PhasesAreEarned` (`PhaseHistory`), `CompletionIsEarned` (`CompletedHistory`),
`ArrivalHasDestination` (`DestinationReached`). `PhaseHistory` is not
inductive: a handler writes a phase several awaits after it read the previous
one. The invariant `IInv` adds `FramesHold`: the trip of a frame exists, the
events the phase to be written stands on are recorded (but the one the frame
is about to insert), a destination that will be needed is set. That survives
the steps of others because tables only grow (`Grows`: no trip, event or queue
row is deleted, no destination cleared), which lemma `FramesStep` uses once for
all actions. `LocalStep` covers steps that change only a slot, `TableStep`
those that change a table, `GotoStep` the advance of `pc`, `RowWritten` the
UPDATEs of a trip; then there is one lemma per action, and `Inductive`.
So these hold for any number of overlapping requests, duplicated calls,
failures and crashes, though `OneOngoingTrip` and `PhasesInOrder` do not.

`ImplementsTripRecord` (`RecordKept`) is the refinement: what overlapping requests
may not break, as the abstract specification `TripRecord` of trips with a phase, a
trail, a destination and a completion. `Record` maps the tables to it.
Each statement that writes a trip or an event is one of its steps, with a lemma
`...Keeps` each; that the guards of the abstract steps hold is what `IInv` knows
of the frame. One more fact is invariant, `RowsOfTrips`: queue
rows name trips that are there, so that SERVICE_STARTED goes to an open trip. It says more
than the invariants do: a late UPDATE of a phase must leave alone the destination and the
completion that other requests have written since the row was read.

For `OneOngoingTrip` and `PhasesInOrder` (`OneTripAtATime`, `OnePhaseAtATime`) `OrderInv` says what the
only request knows: at the INSERT that its vehicle has no ongoing trip, at the
UPDATE of a phase that the trip is still in the phase before, and that
background jobs only queue vehicles. A job that runs in between writes no trip,
a failure or a crash empties the slot. There is one lemma per statement, under
`OrderKept` for those that write no trip.

`ArrivedWaitsToLoad`, `ArrivedWaitsToUnload`, `ServicesAreOnRecord`,
`VehicleFollowsTrip` relate a trip to its queue row, its trail and its vehicle,
which different statements write, and hold of trips at rest. `FlowInv` says what
holds in between: a trip waits in no queue or in exactly one row, with its
vehicle, type and center, and `Place` names the queue from the phase, the frame of
the request and that of the job (`arriveDestination` queues before it writes the
phase, `createTrip` leaves the queueing to the job); the vehicle is as the phase says, or the next
one where the request has written the vehicle already (`Late`). It needs
that a row selected by vehicle is a row of the same trip (`RequestHolds`),
which follows from `OneOngoingTrip`: a trip that is completed waits nowhere.
`TripKept` carries all of it over steps that leave a trip alone.

`CenterQueuesProofs`: `TypeCorrect`, `ServiceFollowsLeaving`
(`ServedAfterLeaving`), `NoRowComesBack` (`LeftForGood`, an action property), along the same lines: a frame that is about to
record a service has made its row inactive, and no statement makes a row
active again. `IsFiniteSet(DOMAIN entries)` is in the invariant because a
position is a cardinality.

`CenterQueuesFifoProofs`: `NoVehicleTwice` (`OneEntryPerVehicle`) and
`NoRowServedTwice` (`ServedOnce`) by `AloneInv` (what the only request has found
out stays true), `TrailInOrder` (`QueuedBeforeServed`) by `TrailInv` (every row
but the one just inserted has its event), and `NumberedWithoutGaps`
(`PositionsSequential`) and `ImplementsFifoLine` by `FifoInv`: the rows of a line
have an order `w` in which the i-th has number i, or i + 1 if it is behind a row
that was served and the loop that renumbers has not come to it. That order is
unique (`OneOrder`), hence the one that the mapping chooses, and does
not change while the loop runs. `FifoStep` shows that each statement leaves
every line as it is, appends one row, takes the head out, or, at midnight,
empties all (`Lawful`), and `ImplementsFifoLine` concludes `Spec =>
Fifo!Spec`, the initial states and the steps.

`SessionsProofs`: `TypeCorrect`, `ExchangedStaysDead` (`OldTokenInvalid`),
`LoggedOut` (`LoggedOutStaysOut`), `HeldWorks` (`HeldTokenWorks`). The
invariant adds `OwnRows` (a row names the user its token was given to) and
`FramesHold`: a token past its DELETE is out of the table and ended, and no
user who may still store one is away. It is kept by others because no uuid is
drawn twice (`FreshTokenIsFresh`), so that no row ever comes back (`Grows`);
the one step that makes somebody away checks for others (`OthersStay`).

`VehicleSyncProofs`: `TypeCorrect`, `GroupsStayTheirs` (`GroupNotReassigned`).
The invariant says of every id in a frame, in a queued job or in the processor
that it was drawn for the vehicle's own group, whether its row is there or not
(`Belongs`); ids are drawn in order and never again (`Grows`).

`OnboardingProofs`: `TypeCorrect`, `CentersAreUnique` (`OneRowPerCenter`),
`CentersComeWithUsers` (`SeededWithUser`). For the first two the invariant
says that at the INSERT of a job what its SELECT saw still holds, but
for default centers (`NotYetThere`): one loop inserts all others. For the third,
under `DefaultsAreOwn`, `SeedInv` says that a row with the number of a default center
belongs to its account (`RowsOwned`), and, as long as nothing went wrong, `Smooth`: what
a seeding has behind it is in the table, and who inserts a user had found it new, so that a
seeding was begun or is about to be. Seedings never remove a row, so those of one
account may overlap in any number.

`VehicleStatusProofs`: `TypeCorrect`, `ChangesAreLogged`
(`ManualChangesLogged`). The invariant adds `LogsStand`: as long as nothing went
wrong, a request about to insert its row of the history names a center that
stands. The property counts, so the steps are about numbers of occurrences in a
sequence and cardinalities of sets of requests (`Covered`).

`ListingProofs`, about the tables, the QR codes and a client at once:
`TypeCorrect` (with the foreign keys, `Stands`, under removals and cascades),
`LabelsScan` (`PrintedCodeScans`), `CompletionIsCleared` (`StageTimes`),
`PagesCover` (`NothingSkipped`). Labels
that scan are not inductive: a request that found a code of another key writes
the row later by its id. The invariant adds `NeedsNoOther`: at that UPDATE the
row of the vehicle either has that id, or is a newer one under the key in use.
`TablesOK` adds that ids are at most `lastId`, which makes a new id new, and
`WalkOK` that what the client still waits for is in its table. The steps of `QrCodes` and
`Yard` are proved once each, in the order of their modules, and `Watch` beside them.

`PagesCover` is about single rows. `kept` holds the rows on which a walk still has a
claim: they have been in the table all the time, and `Onward`, no order that ORDER BY
allows now puts them nearer to the front than one it allowed before. Three more
exceptions are in `Watch` and `FailListing`: a row that is removed, one that is pushed off
a page which the COUNT has made the last one (`PushedOff`), and one on a later
page that the fallback reads. Each is necessary: without it TLC finds the row missed.
What happens to other rows (insertions, deletions behind, ties, stages that start)
takes no claim away.

For the proof the orders of a listing are sets of sequences that enumerate its
table without repetition, and there is always one (`OrdersOK`; that `Newest` and `LatestStart`
are not empty is `OrderExists`, by counting how many rows come before each). `WalkInv` says
of every such order: of the kept rows, those on the places of earlier
pages were seen; those of the page in hand are seen or got; and if the page was taken for the
last one, none is behind its end (`ReadSoFar`, `HasGot`). A change of the
table preserves this, since a kept row that is now among the first n was so before
(`StaysBehind`), and so does the next page (`PageAdds`, `NextPage`). The arithmetic of OFFSET is in
`PageArithmetic` and `PageIsNext`.

Only model-checked is liveness (`TripsComplete`, `NoVehicleForgotten`,
`LoopSurvives`, `Onboarded`, `FleetSynced`): fairness and ENABLED are out of the
prover's reach. Every other property of the passing runs is a theorem.

## 5. Not modelled

Listed per component in `PROJECT.json`. Reports only read; migrations run once;
the cipher and the HTTP calls of the Malambi client are I/O; the generic table
access builds one statement per call. Updates of a user, or of the other
columns of an exit, are one statement on one row that no property is about. Removal of a vehicle is an action of `VehicleSync`, `VehicleStatus`
and `Yard`, but its cascade to trips, events and queue rows is not one of
`Trips`: the theorems there are about vehicles that stay. Two lookups of one
number by id and by third-party or geozone id are one, since the code
stores the same number in both columns.

## 6. Plan

1. `Trips` with the removal of a vehicle and its cascade.
2. An abstract specification of the job queue (what is asked for again is
   there in the end) that `Onboarding` and `VehicleSync` both implement.
