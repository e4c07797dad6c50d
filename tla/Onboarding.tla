----------------------------- MODULE Onboarding -----------------------------
(***************************************************************************)
(* What a login sets off: the job of the in-memory queue that creates the  *)
(* row of the user, and the seeding of the default centers of the account. *)
(*                                                                         *)
(* QueueService keeps the jobs, QueueProcessorService takes one job of     *)
(* each queue per round, UsersSyncService and CentersSyncService create    *)
(* the rows, and CentersSeederService runs as often as it is started,      *)
(* without being awaited.  Each SQL statement is one step, together with   *)
(* the code up to the next one; there is no transaction.  The vehicle      *)
(* jobs, the third queue, are in VehicleSync, the tokens of a login in     *)
(* Sessions.                                                               *)
(***************************************************************************)
EXTENDS Naturals, Sequences, FiniteSets

CONSTANTS
  Users,        \* the users, [account, subid], whose credentials Malambi takes
  Defaults,     \* the default centers of each account: a sequence of centers
  Api,          \* the centers that Malambi lists for each account
  MaxJobs,      \* bound: jobs of one user, or center jobs, waiting at a time
  Runs,         \* bound: [account, n], the seedings running at a time
  MaxMishaps    \* bound: failed statements, crashes and removals of rows

Accounts == {u.account : u \in Users}
DefaultsOf(a) == {Defaults[a][i] : i \in DOMAIN Defaults[a]}
AnyCenter == UNION {Api[a] \cup DefaultsOf(a) : a \in Accounts}

(* A center: the geozone id, which is its primary key, the id and the site *)
(* id of Malambi.  The geozone id may be missing in what Malambi sends (0).*)
ASSUME OnboardingAssumption ==
  /\ \A u \in Users : u = [account |-> u.account, subid |-> u.subid]
  /\ \A c \in AnyCenter : c \in [id : Nat, third : Nat, site : Nat]
  /\ \A a \in Accounts : Defaults[a] \in Seq(DefaultsOf(a))
  /\ \A a \in Accounts : \A c \in DefaultsOf(a) : c.id > 0
  /\ \A s \in Runs : s.account \in Accounts
  /\ MaxJobs \in Nat /\ MaxMishaps \in Nat

VARIABLES
  users,      \* table users: a function from primary keys (subids) to accounts
  centers,    \* table centers: a function from primary keys (geozone ids) to
              \* rows
  userJobs,   \* the queue 'user-sync' of QueueService
  centerJobs, \* the queue 'center-sync'
  processor,  \* where the processing loop is, and the job it has taken
  seeding,    \* the runs of seedDefaultCentersForAccount
  mishaps     \* failed statements, crashes and removals so far

tables == <<users, centers>>
queues == <<userJobs, centerJobs>>
vars == <<users, centers, userJobs, centerJobs, processor, seeding, mishaps>>

CenterRow == [account : Accounts, third : Nat, site : Nat]
CenterJob ==
  UNION {[account : {a}, center : Api[a]] : a \in Accounts}

(* The loop polls the user jobs, then the center jobs.  The other frames   *)
(* hold the locals of the job it has taken; pc is the next statement.      *)
ProcessorFrame ==
  [pc : {"users", "centers"}] \cup
  [pc : {"exists", "select", "insert", "rawSelect", "rawInsert"},
   user : Users, existed : BOOLEAN] \cup
  [pc : {"centerSelect", "centerInsert"}, job : CenterJob]

SeedingFrame ==
  [pc : {"idle", "count"}] \cup [pc : {"select", "insert"}, i : Nat]

TypeOK ==
  /\ DOMAIN users \subseteq {u.subid : u \in Users}
  /\ users \in [DOMAIN users -> Accounts]
  /\ DOMAIN centers \subseteq {c.id : c \in AnyCenter} \ {0}
  /\ centers \in [DOMAIN centers -> CenterRow]
  /\ userJobs \in Seq(Users)
  /\ centerJobs \in Seq(CenterJob)
  /\ processor \in ProcessorFrame
  /\ seeding \in [Runs -> SeedingFrame]
  /\ mishaps \in 0..MaxMishaps

Init ==
  /\ users = [k \in {} |-> {}]
  /\ centers = [k \in {} |-> {}]
  /\ userJobs = <<>>
  /\ centerJobs = <<>>
  /\ processor = [pc |-> "users"]
  /\ seeding = [s \in Runs |-> [pc |-> "idle"]]
  /\ mishaps = 0
-----------------------------------------------------------------------------
With(table, k, v) ==
  [j \in DOMAIN table \cup {k} |-> IF j = k THEN v ELSE table[j]]

(* Bound on what goes wrong.                                               *)
Mishap ==
  /\ mishaps < MaxMishaps
  /\ mishaps' = mishaps + 1

(* QueueService.add pushes and then sorts by priority: the sort is stable  *)
(* and every job of the program has priority 0.                            *)
Add(queue, job) == Append(queue, job)

(* userExistsByAccidAndSubid, and the first SELECT of syncUser.            *)
UserExists(u) == u.subid \in DOMAIN users /\ users[u.subid] = u.account

(* Starts seedDefaultCentersForAccount and does not wait for it.           *)
StartSeeding(a) ==
  \E s \in Runs :
    /\ s.account = a
    /\ seeding[s].pc = "idle"
    /\ seeding' = [seeding EXCEPT ![s] = [pc |-> "count"]]

(* Mutation of Login: only the row of a new user is seen to.               *)
LoginOnce(u) ==
  /\ ~ UserExists(u)
  /\ Cardinality({i \in DOMAIN userJobs : userJobs[i] = u}) < MaxJobs
  /\ userJobs' = Add(userJobs, u)
  /\ UNCHANGED <<tables, centerJobs, processor, seeding, mishaps>>

(* login, after Malambi has accepted the credentials of u: a job for a     *)
(* user who has no row; else the seeding is started once more (after       *)
(* updateLastLogin, whose failure is logged and ignored).                  *)
Login(u) ==
  \/ /\ ~ UserExists(u)
     /\ Cardinality({i \in DOMAIN userJobs : userJobs[i] = u}) < MaxJobs
     /\ userJobs' = Add(userJobs, u)
     /\ UNCHANGED <<tables, centerJobs, processor, seeding, mishaps>>
  \/ /\ UserExists(u)
     /\ StartSeeding(u.account)
     /\ UNCHANGED <<tables, queues, processor, mishaps>>
-----------------------------------------------------------------------------
(* processUserSyncJobs: shift a job, or go on to the next queue.           *)
PollUsers ==
  /\ processor.pc = "users"
  /\ IF userJobs = <<>>
     THEN /\ processor' = [pc |-> "centers"]
          /\ UNCHANGED userJobs
     ELSE /\ processor' = [pc |-> "exists", user |-> Head(userJobs),
                           existed |-> FALSE]
          /\ userJobs' = Tail(userJobs)
  /\ UNCHANGED <<tables, centerJobs, seeding, mishaps>>

(* processUserSyncJobs: the SELECT that tells a new user from a known one. *)
CheckUser ==
  /\ processor.pc = "exists"
  /\ processor' = [processor EXCEPT !.pc = "select",
                                    !.existed = UserExists(processor.user)]
  /\ UNCHANGED <<tables, queues, seeding, mishaps>>

(* Mutation of Synced: the test for a new user is the wrong way round.     *)
SyncedKnownUser ==
  /\ processor' = [pc |-> "centers"]
  /\ IF processor.existed
     THEN StartSeeding(processor.user.account)
     ELSE UNCHANGED seeding

(* syncUser has returned: the centers of a new user are seeded.            *)
Synced ==
  /\ processor' = [pc |-> "centers"]
  /\ IF processor.existed
     THEN UNCHANGED seeding
     ELSE StartSeeding(processor.user.account)

(* syncUser: SELECT by account and subid.                                  *)
SelectUser ==
  /\ processor.pc = "select"
  /\ IF UserExists(processor.user)
     THEN Synced
     ELSE /\ processor' = [processor EXCEPT !.pc = "insert"]
          /\ UNCHANGED seeding
  /\ UNCHANGED <<tables, queues, mishaps>>

(* The row of a user has the subid as its primary key: if it is taken, be  *)
(* it by a user of another account, the unique violation counts as "user   *)
(* already exists".                                                        *)
InsertedUser(u) ==
  IF u.subid \in DOMAIN users THEN users ELSE With(users, u.subid, u.account)

(* syncUser: the INSERT.                                                   *)
InsertUser ==
  /\ processor.pc = "insert"
  /\ users' = InsertedUser(processor.user)
  /\ Synced
  /\ UNCHANGED <<centers, queues, mishaps>>

(* insertUserWithRawSql: SELECT by primary key; an error is ignored.       *)
RawSelectUser ==
  /\ processor.pc = "rawSelect"
  /\ IF processor.user.subid \in DOMAIN users
     THEN Synced
     ELSE /\ processor' = [processor EXCEPT !.pc = "rawInsert"]
          /\ UNCHANGED seeding
  /\ UNCHANGED <<tables, queues, mishaps>>

(* insertUserWithRawSql: the INSERT.                                       *)
RawInsertUser ==
  /\ processor.pc = "rawInsert"
  /\ users' = InsertedUser(processor.user)
  /\ Synced
  /\ UNCHANGED <<centers, queues, mishaps>>

(* A statement of syncUser fails.  The message of a failed INSERT quotes   *)
(* the statement, the column email among it, which sends syncUser to       *)
(* insertUserWithRawSql; that one gives up silently, for the same reason.  *)
FailInsert ==
  /\ Mishap
  /\ \/ /\ processor.pc \in {"insert", "rawSelect"}
        /\ processor' = [processor EXCEPT
                           !.pc = IF @ = "insert" THEN "rawSelect"
                                  ELSE "rawInsert"]
        /\ UNCHANGED seeding
     \/ processor.pc = "rawInsert" /\ Synced
  /\ UNCHANGED <<tables, queues>>
-----------------------------------------------------------------------------
(* syncCenterByGeozoneId: the SELECT by geozone id, the list of Malambi,   *)
(* and the job.                                                            *)
SyncCenter ==
  /\ Len(centerJobs) < MaxJobs
  /\ \E a \in Accounts : \E c \in Api[a] :
       /\ c.id # 0
       /\ c.id \notin DOMAIN centers
       /\ centerJobs' = Add(centerJobs, [account |-> a, center |-> c])
  /\ UNCHANGED <<tables, userJobs, processor, seeding, mishaps>>

(* One turn of the loop of bulkSyncCenters, which looks for the id and the *)
(* site id of Malambi and not for the geozone.                             *)
BulkSyncCenter ==
  /\ Len(centerJobs) < MaxJobs
  /\ \E a \in Accounts : \E c \in Api[a] :
       /\ \A k \in DOMAIN centers :
            centers[k].third # c.third /\ centers[k].site # c.site
       /\ centerJobs' = Add(centerJobs, [account |-> a, center |-> c])
  /\ UNCHANGED <<tables, userJobs, processor, seeding, mishaps>>

(* Mutation of PollCenters: a center without a geozone goes on.            *)
PollAnyCenter ==
  /\ processor.pc = "centers"
  /\ IF centerJobs = <<>>
     THEN processor' = [pc |-> "users"] /\ UNCHANGED centerJobs
     ELSE /\ processor' = [pc |-> "centerSelect", job |-> Head(centerJobs)]
          /\ centerJobs' = Tail(centerJobs)
  /\ UNCHANGED <<tables, userJobs, seeding, mishaps>>

(* processCenterSyncJobs: shift a job, or end the round.  syncCenter       *)
(* throws at once on a center without a geozone.                           *)
PollCenters ==
  /\ processor.pc = "centers"
  /\ IF centerJobs = <<>>
     THEN processor' = [pc |-> "users"] /\ UNCHANGED centerJobs
     ELSE /\ processor' = IF Head(centerJobs).center.id = 0
                          THEN [pc |-> "users"]
                          ELSE [pc |-> "centerSelect", job |-> Head(centerJobs)]
          /\ centerJobs' = Tail(centerJobs)
  /\ UNCHANGED <<tables, userJobs, seeding, mishaps>>

(* Mutation of CenterKnown: the ids of Malambi are left out.               *)
GeozoneKnown(c) == c.id \in DOMAIN centers

(* The SELECT of syncCenter: the same geozone, id or site, in any account. *)
CenterKnown(c) ==
  \E k \in DOMAIN centers :
    k = c.id \/ centers[k].third = c.third \/ centers[k].site = c.site

SelectCenter ==
  /\ processor.pc = "centerSelect"
  /\ processor' = IF CenterKnown(processor.job.center) THEN [pc |-> "users"]
                  ELSE [processor EXCEPT !.pc = "centerInsert"]
  /\ UNCHANGED <<tables, queues, seeding, mishaps>>

(* The INSERT of a center, by syncCenter or by the seeder: a primary key   *)
(* in use makes it fail, which both of them log and leave at that.         *)
InsertedCenter(c, a) ==
  IF c.id \in DOMAIN centers THEN centers
  ELSE With(centers, c.id, [account |-> a, third |-> c.third, site |-> c.site])

InsertCenter ==
  /\ processor.pc = "centerInsert"
  /\ centers' = InsertedCenter(processor.job.center, processor.job.account)
  /\ processor' = [pc |-> "users"]
  /\ UNCHANGED <<users, queues, seeding, mishaps>>

(* Mutation of JobFails: the error ends the loop.                          *)
LoopEnds ==
  /\ Mishap
  /\ processor.pc \in {"exists", "select", "centerSelect", "centerInsert"}
  /\ processor' = [pc |-> "stopped"]
  /\ UNCHANGED <<tables, queues, seeding>>

(* Any other statement of a job fails: the error is logged, the job is     *)
(* lost and the loop goes on with the next queue.                          *)
JobFails ==
  /\ Mishap
  /\ processor.pc \in {"exists", "select", "centerSelect", "centerInsert"}
  /\ processor' = IF processor.pc \in {"exists", "select"}
                  THEN [pc |-> "centers"] ELSE [pc |-> "users"]
  /\ UNCHANGED <<tables, queues, seeding>>

Process ==
  \/ PollUsers \/ CheckUser \/ SelectUser
  \/ InsertUser \/ RawSelectUser \/ RawInsertUser
  \/ PollCenters \/ SelectCenter \/ InsertCenter
-----------------------------------------------------------------------------
At(s, pc) == seeding[s].pc = pc
Seeder(s, frame) == seeding' = [seeding EXCEPT ![s] = frame]

(* A default center of the account of s is there, for that account.        *)
Seeded(a, c) == c.id \in DOMAIN centers /\ centers[c.id].account = a

(* "If all 3 default centers already exist for this account, skip".  (The  *)
(* probe for the table before it, up to five times, decides nothing more.) *)
AllSeeded(a) == \A c \in DefaultsOf(a) : Seeded(a, c)

CountDefaults(s) ==
  /\ At(s, "count")
  /\ IF AllSeeded(s.account)
     THEN Seeder(s, [pc |-> "idle"])
     ELSE Seeder(s, [pc |-> "select", i |-> 1])
  /\ UNCHANGED <<tables, queues, processor, mishaps>>

(* The loop over the default centers goes on after the i-th, or ends.      *)
Advance(s) ==
  IF seeding[s].i < Len(Defaults[s.account])
  THEN Seeder(s, [pc |-> "select", i |-> seeding[s].i + 1])
  ELSE Seeder(s, [pc |-> "idle"])

SelectDefault(s) ==
  /\ At(s, "select")
  /\ IF Seeded(s.account, Defaults[s.account][seeding[s].i])
     THEN Advance(s)
     ELSE Seeder(s, [seeding[s] EXCEPT !.pc = "insert"])
  /\ UNCHANGED <<tables, queues, processor, mishaps>>

InsertDefault(s) ==
  /\ At(s, "insert")
  /\ centers' = InsertedCenter(Defaults[s.account][seeding[s].i], s.account)
  /\ Advance(s)
  /\ UNCHANGED <<users, queues, processor, mishaps>>

(* A statement of the seeder fails: the probe or the count ends it, in the *)
(* loop only the center at hand is skipped.                                *)
SeedingFails(s) ==
  /\ Mishap
  /\ \/ At(s, "count") /\ Seeder(s, [pc |-> "idle"])
     \/ seeding[s].pc \in {"select", "insert"} /\ Advance(s)
  /\ UNCHANGED <<tables, queues, processor>>

RunSeeding(s) ==
  CountDefaults(s) \/ SelectDefault(s) \/ InsertDefault(s)
-----------------------------------------------------------------------------
(* DELETE of a user through its endpoint, or of a center by                *)
(* CentersService.remove, which has none.                                  *)
Remove ==
  /\ Mishap
  /\ \/ /\ \E k \in DOMAIN users :
             users' = [j \in DOMAIN users \ {k} |-> users[j]]
        /\ UNCHANGED centers
     \/ /\ \E k \in DOMAIN centers :
             centers' = [j \in DOMAIN centers \ {k} |-> centers[j]]
        /\ UNCHANGED users
  /\ UNCHANGED <<queues, processor, seeding>>

(* The process dies and is started again: jobs and seedings are gone.      *)
Crash ==
  /\ Mishap
  /\ userJobs' = <<>>
  /\ centerJobs' = <<>>
  /\ processor' = [pc |-> "users"]
  /\ seeding' = [s \in Runs |-> [pc |-> "idle"]]
  /\ UNCHANGED tables

Next ==
  \/ \E u \in Users : Login(u)
  \/ SyncCenter \/ BulkSyncCenter
  \/ Process \/ FailInsert \/ JobFails
  \/ \E s \in Runs : RunSeeding(s) \/ SeedingFails(s)
  \/ Remove
  \/ Crash

Spec == Init /\ [][Next]_vars

(* The loop and the seeder go on as long as the process lives, and users   *)
(* keep logging in.                                                        *)
FairSpec ==
  /\ Spec
  /\ WF_vars(Process)
  /\ \A s \in Runs : WF_vars(RunSeeding(s))
  /\ \A u \in Users : WF_vars(Login(u))
-----------------------------------------------------------------------------
(* queue-processor.service.ts: the default centers come with the first     *)
(* user.  As long as nothing has gone wrong, an account with a user has    *)
(* its default centers, or they are being seeded: the test for a new user  *)
(* is made before syncUser creates it, and no seeding can be cut short by  *)
(* another one of the same account.                                        *)
SeededWithUser ==
  mishaps = 0 =>
    \A a \in {users[k] : k \in DOMAIN users} :
      \/ AllSeeded(a)
      \/ \E s \in Runs : s.account = a /\ ~ At(s, "idle")

(* syncCenter looks before it inserts, in two statements.  Two centers     *)
(* that jobs have created never share an id or a site of Malambi, since    *)
(* one loop processes all jobs; the seeder is not part of that loop.       *)
OneRowPerCenter ==
  \A j, k \in DOMAIN centers :
    /\ \A a \in Accounts : \A c \in DefaultsOf(a) : c.id \notin {j, k}
    /\ centers[j].third = centers[k].third \/ centers[j].site = centers[k].site
    => j = k

(* Whatever fails, the loop comes back to the user jobs.                   *)
LoopSurvives == []<>(processor.pc = "users")

(* Whatever was lost in failures, crashes and removals, users who log in   *)
(* again get a row in the end (unless a user of another account has the    *)
(* subid) and their account all of its default centers, for good.          *)
Onboarded ==
  \A u \in Users :
    <>[](u.subid \in DOMAIN users /\ AllSeeded(u.account))
=============================================================================
