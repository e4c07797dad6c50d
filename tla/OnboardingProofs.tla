-------------------------- MODULE OnboardingProofs --------------------------
(***************************************************************************)
(* Proofs about Onboarding, for any users, accounts, default centers and   *)
(* centers of Malambi, any number of jobs and seedings, with failures,     *)
(* crashes and removals of rows.                                           *)
(*                                                                         *)
(* OneRowPerCenter needs to know that what the SELECT of syncCenter found  *)
(* still holds at its INSERT: in between only the seeder inserts centers,  *)
(* and those are default ones.                                             *)
(***************************************************************************)
EXTENDS Onboarding, TLAPS

IsDefault(k) == \E a \in Accounts : \E c \in DefaultsOf(a) : c.id = k

UsersTyped(table) ==
  /\ DOMAIN table \subseteq {u.subid : u \in Users}
  /\ table \in [DOMAIN table -> Accounts]

CentersTyped(table) ==
  /\ DOMAIN table \subseteq {c.id : c \in AnyCenter} \ {0}
  /\ table \in [DOMAIN table -> CenterRow]

(* The center of a job differs from the rows that are not default centers. *)
NotYetThere(c, table) ==
  \A k \in DOMAIN table :
    ~ IsDefault(k) => table[k].third # c.third /\ table[k].site # c.site

(* What the processing loop carries from one statement to the next.        *)
ProcessorHolds(p, table) ==
  /\ p \in ProcessorFrame
  /\ p.pc \in {"centerSelect", "centerInsert"} => p.job.center.id # 0
  /\ p.pc = "centerInsert" => NotYetThere(p.job.center, table)

(* A seeding is at one of the default centers of its account.              *)
SeedingHolds(runs) ==
  /\ runs \in [Runs -> SeedingFrame]
  /\ \A s \in Runs :
       runs[s].pc \in {"select", "insert"} =>
         runs[s].i \in 1..Len(Defaults[s.account])

IInv ==
  /\ UsersTyped(users)
  /\ CentersTyped(centers)
  /\ userJobs \in Seq(Users) /\ centerJobs \in Seq(CenterJob)
  /\ ProcessorHolds(processor, centers)
  /\ SeedingHolds(seeding)
  /\ mishaps \in 0..MaxMishaps
  /\ OneRowPerCenter
-----------------------------------------------------------------------------
LEMMA MishapCounts ==
  ASSUME IInv, Mishap
  PROVE  mishaps' \in 0..MaxMishaps
  BY OnboardingAssumption DEF IInv, Mishap

LEMMA SeedingStarts ==
  ASSUME IInv, NEW a, StartSeeding(a)
  PROVE  SeedingHolds(seeding')
<1> PICK s \in Runs : seeding' = [seeding EXCEPT ![s] = [pc |-> "count"]]
  BY DEF StartSeeding
<1>1. [pc |-> "count"] \in SeedingFrame
  BY DEF SeedingFrame
<1> QED
  BY <1>1 DEF IInv, SeedingHolds

LEMMA SyncedHolds ==
  ASSUME IInv, Synced, NEW table
  PROVE  SeedingHolds(seeding') /\ ProcessorHolds(processor', table)
<1>1. SeedingHolds(seeding')
  BY SeedingStarts DEF Synced, IInv
<1>2. processor' = [pc |-> "centers"]
  BY DEF Synced
<1> QED
  BY <1>1, <1>2 DEF ProcessorHolds, ProcessorFrame

(* A seeding goes on with the next default center, or stops.               *)
LEMMA AdvanceHolds ==
  ASSUME IInv, NEW s \in Runs, seeding[s].pc \in {"select", "insert"},
         Advance(s)
  PROVE  SeedingHolds(seeding')
<1> DEFINE n == Len(Defaults[s.account])
           next == [pc |-> "select", i |-> seeding[s].i + 1]
           stop == [pc |-> "idle"]
<1>1. n \in Nat /\ seeding[s].i \in 1..n
  BY OnboardingAssumption DEF IInv, SeedingHolds
<1>2. CASE seeding[s].i < n /\ seeding' = [seeding EXCEPT ![s] = next]
  <2>1. next \in SeedingFrame /\ next.i \in 1..n
    BY <1>1, <1>2 DEF SeedingFrame
  <2> QED
    BY <1>2, <2>1 DEF IInv, SeedingHolds
<1>3. CASE seeding' = [seeding EXCEPT ![s] = stop]
  <2>1. stop \in SeedingFrame
    BY DEF SeedingFrame
  <2> QED
    BY <1>3, <2>1 DEF IInv, SeedingHolds
<1> QED
  BY <1>2, <1>3 DEF Advance, Seeder

LEMMA InsertedUserTyped ==
  ASSUME IInv, NEW u \in Users, users' = InsertedUser(u)
  PROVE  UsersTyped(users')
<1>1. u.account \in Accounts
  BY DEF Accounts
<1>2. CASE users' = users
  BY <1>2 DEF IInv
<1>3. CASE users' = With(users, u.subid, u.account)
  BY <1>1, <1>3 DEF With, IInv, UsersTyped
<1> QED
  BY <1>2, <1>3 DEF InsertedUser

LEMMA CentersOfAccount ==
  ASSUME NEW a \in Accounts, NEW c \in Api[a] \cup DefaultsOf(a)
  PROVE  c \in AnyCenter /\ c \in [id : Nat, third : Nat, site : Nat]
<1>1. c \in AnyCenter
  BY DEF AnyCenter
<1> QED
  BY <1>1, OnboardingAssumption

(* The INSERT of a center adds its row, or changes nothing.                *)
LEMMA InsertedCenterRow ==
  ASSUME IInv, NEW a \in Accounts, NEW c \in Api[a] \cup DefaultsOf(a),
         c.id # 0, centers' = InsertedCenter(c, a)
  PROVE  /\ CentersTyped(centers')
         /\ \A k \in DOMAIN centers : k \in DOMAIN centers' /\ centers'[k] = centers[k]
         /\ \A k \in DOMAIN centers' \ DOMAIN centers :
              k = c.id /\ centers'[k].third = c.third /\ centers'[k].site = c.site
<1> DEFINE row == [account |-> a, third |-> c.third, site |-> c.site]
<1>1. CASE c.id \in DOMAIN centers
  BY <1>1 DEF InsertedCenter, IInv
<1>2. CASE c.id \notin DOMAIN centers
  <2>1. centers' = With(centers, c.id, row)
    BY <1>2 DEF InsertedCenter
  <2>2. /\ DOMAIN centers' = DOMAIN centers \cup {c.id}
        /\ centers'[c.id] = row
        /\ \A k \in DOMAIN centers : centers'[k] = centers[k]
        /\ centers' = [k \in DOMAIN centers' |-> centers'[k]]
    BY <1>2, <2>1 DEF With
  <2>3. row \in CenterRow /\ c.id \in {d.id : d \in AnyCenter} \ {0}
    BY CentersOfAccount DEF CenterRow
  <2>4. \A k \in DOMAIN centers' : centers'[k] \in CenterRow
    BY <2>2, <2>3 DEF IInv, CentersTyped
  <2>5. CentersTyped(centers')
    BY <2>2, <2>3, <2>4 DEF IInv, CentersTyped
  <2> QED
    BY <2>2, <2>5
<1> QED
  BY <1>1, <1>2

(* A step that leaves the tables and the queues alone.                     *)
LEMMA LocalStep ==
  ASSUME IInv, UNCHANGED <<tables, queues>>,
         mishaps' \in 0..MaxMishaps,
         ProcessorHolds(processor', centers), SeedingHolds(seeding')
  PROVE  IInv'
<1>1. UNCHANGED <<users, centers, userJobs, centerJobs>>
  BY DEF tables, queues
<1>2. OneRowPerCenter'
  BY <1>1 DEF IInv, OneRowPerCenter
<1> QED
  BY <1>1, <1>2 DEF IInv
-----------------------------------------------------------------------------
(* What a step that adds a job leaves alone.                               *)
LEMMA JobAdded ==
  ASSUME IInv, UNCHANGED <<tables, processor, seeding, mishaps>>,
         userJobs' \in Seq(Users), centerJobs' \in Seq(CenterJob)
  PROVE  IInv'
<1>1. UNCHANGED <<users, centers>>
  BY DEF tables
<1>2. OneRowPerCenter'
  BY <1>1 DEF IInv, OneRowPerCenter
<1> QED
  BY <1>1, <1>2 DEF IInv

LEMMA StepLogin ==
  ASSUME IInv, NEW u \in Users, Login(u)
  PROVE  IInv'
<1>1. CASE userJobs' = Add(userJobs, u)
           /\ UNCHANGED <<tables, centerJobs, processor, seeding, mishaps>>
  <2>1. userJobs' \in Seq(Users) /\ centerJobs' \in Seq(CenterJob)
    BY <1>1 DEF IInv, Add
  <2> QED
    BY <1>1, <2>1, JobAdded
<1>2. CASE StartSeeding(u.account)
           /\ UNCHANGED <<tables, queues, processor, mishaps>>
  <2>1. SeedingHolds(seeding')
    BY <1>2, SeedingStarts
  <2> QED
    BY <1>2, <2>1, LocalStep DEF IInv
<1> QED
  BY <1>1, <1>2 DEF Login

LEMMA StepCenterJob ==
  ASSUME IInv, SyncCenter \/ BulkSyncCenter
  PROVE  IInv'
<1>1. PICK a \in Accounts : \E c \in Api[a] :
        centerJobs' = Add(centerJobs, [account |-> a, center |-> c])
  BY DEF SyncCenter, BulkSyncCenter
<1>2. PICK c \in Api[a] :
        centerJobs' = Add(centerJobs, [account |-> a, center |-> c])
  BY <1>1
<1>3. [account |-> a, center |-> c] \in CenterJob
  BY DEF CenterJob
<1>4. UNCHANGED <<tables, userJobs, processor, seeding, mishaps>>
  BY DEF SyncCenter, BulkSyncCenter
<1>5. userJobs' \in Seq(Users) /\ centerJobs' \in Seq(CenterJob)
  BY <1>2, <1>3, <1>4 DEF IInv, Add
<1> QED
  BY <1>4, <1>5, JobAdded
-----------------------------------------------------------------------------
(* A job is shifted out of one of the queues, or the loop goes on.         *)
LEMMA StepPoll ==
  ASSUME IInv, PollUsers \/ PollCenters
  PROVE  IInv'
<1>1. UNCHANGED <<users, centers, seeding, mishaps>>
  BY DEF PollUsers, PollCenters, tables
<1>2. OneRowPerCenter'
  BY <1>1 DEF IInv, OneRowPerCenter
<1>3. CASE PollUsers
  <2> DEFINE f == [pc |-> "exists", user |-> Head(userJobs), existed |-> FALSE]
  <2>1. userJobs \in Seq(Users) /\ centerJobs' \in Seq(CenterJob)
    BY <1>3 DEF PollUsers, IInv
  <2>2. CASE userJobs = <<>>
    <3>1. userJobs' \in Seq(Users) /\ processor' = [pc |-> "centers"]
      BY <1>3, <2>1, <2>2 DEF PollUsers
    <3>2. ProcessorHolds(processor', centers)
      BY <3>1 DEF ProcessorHolds, ProcessorFrame
    <3> QED
      BY <1>1, <1>2, <2>1, <3>1, <3>2 DEF IInv
  <2>3. CASE userJobs # <<>>
    <3>1. Head(userJobs) \in Users /\ Tail(userJobs) \in Seq(Users)
      BY <2>1, <2>3
    <3>2. userJobs' = Tail(userJobs) /\ processor' = f
      BY <1>3, <2>3 DEF PollUsers
    <3>3. f \in ProcessorFrame
      BY <3>1 DEF ProcessorFrame
    <3>4. ProcessorHolds(processor', centers)
      BY <3>2, <3>3 DEF ProcessorHolds
    <3> QED
      BY <1>1, <1>2, <2>1, <3>1, <3>2, <3>4 DEF IInv
  <2> QED
    BY <2>2, <2>3
<1>4. CASE PollCenters
  <2>1. centerJobs \in Seq(CenterJob) /\ userJobs' \in Seq(Users)
    BY <1>4 DEF PollCenters, IInv
  <2>2. centerJobs # <<>> =>
          Head(centerJobs) \in CenterJob /\ Tail(centerJobs) \in Seq(CenterJob)
    BY <2>1
  <2>3. centerJobs' \in Seq(CenterJob)
    BY <1>4, <2>1, <2>2 DEF PollCenters
  <2>4. ProcessorHolds(processor', centers)
    <3>1. CASE processor' \in {[pc |-> "users"]}
      BY <3>1 DEF ProcessorHolds, ProcessorFrame
    <3>2. CASE /\ centerJobs # <<>> /\ Head(centerJobs).center.id # 0
               /\ processor' = [pc |-> "centerSelect", job |-> Head(centerJobs)]
      BY <2>2, <3>2 DEF ProcessorHolds, ProcessorFrame
    <3> QED
      BY <1>4, <3>1, <3>2 DEF PollCenters
  <2> QED
    BY <1>1, <1>2, <2>1, <2>3, <2>4 DEF IInv
<1> QED
  BY <1>3, <1>4

(* The frames of the jobs that create users and centers.                   *)
LEMMA ProcessorRead ==
  ASSUME IInv
  PROVE  /\ processor.pc \in {"exists", "select", "insert", "rawSelect",
                              "rawInsert"} =>
              processor \in [pc : {"exists", "select", "insert", "rawSelect",
                                   "rawInsert"}, user : Users, existed : BOOLEAN]
         /\ processor.pc \in {"centerSelect", "centerInsert"} =>
              /\ processor \in [pc : {"centerSelect", "centerInsert"},
                                job : CenterJob]
              /\ processor.job.center.id # 0
  BY DEF IInv, ProcessorHolds, ProcessorFrame

(* A SELECT for a user.                                                    *)
LEMMA StepReadUser ==
  ASSUME IInv, CheckUser \/ SelectUser \/ RawSelectUser
  PROVE  IInv'
<1>1. UNCHANGED <<tables, queues, mishaps>> /\ mishaps' \in 0..MaxMishaps
  BY DEF CheckUser, SelectUser, RawSelectUser, IInv
<1>2. CASE Synced
  BY <1>1, <1>2, SyncedHolds, LocalStep
<1>3. CASE CheckUser
  <2>1. processor' \in [pc : {"select"}, user : Users, existed : BOOLEAN]
    BY <1>3, ProcessorRead DEF CheckUser, UserExists
  <2>2. ProcessorHolds(processor', centers)
    BY <2>1 DEF ProcessorHolds, ProcessorFrame
  <2> QED
    BY <1>1, <1>3, <2>2, LocalStep DEF CheckUser, IInv
<1>4. CASE UNCHANGED seeding
           /\ \E p \in {"insert", "rawInsert"} :
                /\ processor.pc \in {"select", "rawSelect"}
                /\ processor' = [processor EXCEPT !.pc = p]
  <2>1. processor' \in [pc : {"insert", "rawInsert"}, user : Users,
                        existed : BOOLEAN]
    BY <1>4, ProcessorRead
  <2>2. ProcessorHolds(processor', centers)
    BY <2>1 DEF ProcessorHolds, ProcessorFrame
  <2> QED
    BY <1>1, <1>4, <2>2, LocalStep DEF IInv
<1> QED
  BY <1>2, <1>3, <1>4 DEF SelectUser, RawSelectUser

(* An INSERT of a user.                                                    *)
LEMMA StepWriteUser ==
  ASSUME IInv, InsertUser \/ RawInsertUser
  PROVE  IInv'
<1>1. processor.user \in Users
  BY ProcessorRead DEF InsertUser, RawInsertUser
<1>2. users' = InsertedUser(processor.user) /\ Synced
      /\ UNCHANGED <<centers, userJobs, centerJobs, mishaps>>
  BY DEF InsertUser, RawInsertUser, queues
<1>3. UsersTyped(users')
  BY <1>1, <1>2, InsertedUserTyped
<1>4. SeedingHolds(seeding') /\ ProcessorHolds(processor', centers')
  BY <1>2, SyncedHolds
<1>5. OneRowPerCenter'
  BY <1>2 DEF IInv, OneRowPerCenter
<1> QED
  BY <1>2, <1>3, <1>4, <1>5 DEF IInv

LEMMA StepFailInsert ==
  ASSUME IInv, FailInsert
  PROVE  IInv'
<1>1. UNCHANGED <<tables, queues>> /\ mishaps' \in 0..MaxMishaps
  BY MishapCounts DEF FailInsert
<1>2. CASE Synced
  BY <1>1, <1>2, SyncedHolds, LocalStep
<1>3. CASE UNCHANGED seeding
           /\ \E p \in {"rawSelect", "rawInsert"} :
                /\ processor.pc \in {"insert", "rawSelect"}
                /\ processor' = [processor EXCEPT !.pc = p]
  <2>1. processor' \in [pc : {"rawSelect", "rawInsert"}, user : Users,
                        existed : BOOLEAN]
    BY <1>3, ProcessorRead
  <2>2. ProcessorHolds(processor', centers)
    BY <2>1 DEF ProcessorHolds, ProcessorFrame
  <2> QED
    BY <1>1, <1>3, <2>2, LocalStep DEF IInv
<1> QED
  BY <1>2, <1>3 DEF FailInsert

LEMMA StepJobFails ==
  ASSUME IInv, JobFails
  PROVE  IInv'
<1>1. UNCHANGED <<tables, queues, seeding>> /\ mishaps' \in 0..MaxMishaps
  BY MishapCounts DEF JobFails
<1>2. ProcessorHolds(processor', centers)
  BY DEF JobFails, ProcessorHolds, ProcessorFrame
<1> QED
  BY <1>1, <1>2, LocalStep DEF IInv
-----------------------------------------------------------------------------
(* What the SELECT did not find is not there.                              *)
LEMMA StepSelectCenter ==
  ASSUME IInv, SelectCenter
  PROVE  IInv'
<1> DEFINE p == [processor EXCEPT !.pc = "centerInsert"]
<1>1. UNCHANGED <<tables, queues, seeding, mishaps>>
      /\ mishaps' \in 0..MaxMishaps
  BY DEF SelectCenter, IInv
<1>2. processor \in [pc : {"centerSelect", "centerInsert"}, job : CenterJob]
      /\ processor.job.center.id # 0
  BY ProcessorRead DEF SelectCenter
<1>3. ProcessorHolds(processor', centers)
  <2>1. CASE processor' = [pc |-> "users"]
    BY <2>1 DEF ProcessorHolds, ProcessorFrame
  <2>2. CASE ~ CenterKnown(processor.job.center) /\ processor' = p
    <3>1. NotYetThere(processor.job.center, centers)
      BY <2>2 DEF CenterKnown, NotYetThere
    <3>2. p \in [pc : {"centerInsert"}, job : CenterJob] /\ p.job = processor.job
      BY <1>2
    <3> QED
      BY <1>2, <2>2, <3>1, <3>2 DEF ProcessorHolds, ProcessorFrame
  <2> QED
    BY <2>1, <2>2 DEF SelectCenter
<1> QED
  BY <1>1, <1>3, LocalStep DEF IInv

(* The new row is alone with its ids among those that jobs have created.   *)
LEMMA StepInsertCenter ==
  ASSUME IInv, InsertCenter
  PROVE  IInv'
<1> DEFINE c == processor.job.center
           a == processor.job.account
<1>1. processor.job \in CenterJob /\ c.id # 0 /\ NotYetThere(c, centers)
  BY ProcessorRead DEF InsertCenter, IInv, ProcessorHolds
<1>2. a \in Accounts /\ c \in Api[a]
  BY <1>1 DEF CenterJob
<1> HIDE DEF c, a
<1>3. centers' = InsertedCenter(c, a) /\ processor' = [pc |-> "users"]
      /\ UNCHANGED <<users, userJobs, centerJobs, seeding, mishaps>>
  BY DEF InsertCenter, queues, c, a
<1>4. /\ CentersTyped(centers')
      /\ \A k \in DOMAIN centers : k \in DOMAIN centers' /\ centers'[k] = centers[k]
      /\ \A k \in DOMAIN centers' \ DOMAIN centers :
           k = c.id /\ centers'[k].third = c.third /\ centers'[k].site = c.site
  BY <1>1, <1>2, <1>3, InsertedCenterRow
<1>5. ProcessorHolds(processor', centers')
  BY <1>3 DEF ProcessorHolds, ProcessorFrame
<1>6. ASSUME NEW j \in DOMAIN centers', NEW k \in DOMAIN centers',
             ~ IsDefault(j), ~ IsDefault(k),
             \/ centers'[j].third = centers'[k].third
             \/ centers'[j].site = centers'[k].site
      PROVE  j = k
  <2>1. CASE j \in DOMAIN centers /\ k \in DOMAIN centers
    BY <1>4, <1>6, <2>1 DEF IInv, OneRowPerCenter, IsDefault
  <2>2. CASE j \notin DOMAIN centers /\ k \notin DOMAIN centers
    BY <1>4, <2>2
  <2>3. CASE j \in DOMAIN centers /\ k \notin DOMAIN centers
    BY <1>1, <1>4, <1>6, <2>3 DEF NotYetThere
  <2>4. CASE j \notin DOMAIN centers /\ k \in DOMAIN centers
    BY <1>1, <1>4, <1>6, <2>4 DEF NotYetThere
  <2> QED
    BY <2>1, <2>2, <2>3, <2>4
<1>7. OneRowPerCenter'
  BY <1>6 DEF OneRowPerCenter, IsDefault
<1> QED
  BY <1>3, <1>4, <1>5, <1>7 DEF IInv
-----------------------------------------------------------------------------
LEMMA StepCountDefaults ==
  ASSUME IInv, NEW s \in Runs, CountDefaults(s)
  PROVE  IInv'
<1> DEFINE a == s.account
           first == [pc |-> "select", i |-> 1]
           stop == [pc |-> "idle"]
<1>1. UNCHANGED <<tables, queues, processor, mishaps>>
      /\ mishaps' \in 0..MaxMishaps
  BY DEF CountDefaults, IInv
<1>2. SeedingHolds(seeding')
  <2>1. CASE seeding' = [seeding EXCEPT ![s] = stop]
    <3>1. stop \in SeedingFrame
      BY DEF SeedingFrame
    <3> QED
      BY <2>1, <3>1 DEF IInv, SeedingHolds
  <2>2. CASE ~ AllSeeded(a) /\ seeding' = [seeding EXCEPT ![s] = first]
    <3>1. Defaults[a] \in Seq(DefaultsOf(a)) /\ DefaultsOf(a) # {}
      BY <2>2, OnboardingAssumption DEF AllSeeded
    <3>2. Defaults[a] # <<>>
      BY <3>1 DEF DefaultsOf
    <3>3. first \in SeedingFrame /\ first.i \in 1..Len(Defaults[a])
      BY <3>1, <3>2 DEF SeedingFrame
    <3> QED
      BY <2>2, <3>3 DEF IInv, SeedingHolds
  <2> QED
    BY <2>1, <2>2 DEF CountDefaults, Seeder
<1> QED
  BY <1>1, <1>2, LocalStep DEF IInv

LEMMA StepSelectDefault ==
  ASSUME IInv, NEW s \in Runs, SelectDefault(s)
  PROVE  IInv'
<1> DEFINE f == [seeding[s] EXCEPT !.pc = "insert"]
<1>1. UNCHANGED <<tables, queues, processor, mishaps>>
      /\ mishaps' \in 0..MaxMishaps /\ seeding[s].pc = "select"
  BY DEF SelectDefault, At, IInv
<1>2. SeedingHolds(seeding')
  <2>1. CASE Advance(s)
    BY <1>1, <2>1, AdvanceHolds
  <2>2. CASE seeding' = [seeding EXCEPT ![s] = f]
    <3>1. seeding[s] \in [pc : {"select", "insert"}, i : Nat]
      BY <1>1 DEF IInv, SeedingHolds, SeedingFrame
    <3>2. f \in SeedingFrame /\ f.i = seeding[s].i
      BY <3>1 DEF SeedingFrame
    <3> QED
      BY <1>1, <2>2, <3>2 DEF IInv, SeedingHolds
  <2> QED
    BY <2>1, <2>2 DEF SelectDefault, Seeder
<1> QED
  BY <1>1, <1>2, LocalStep DEF IInv

(* The seeder adds default centers only.                                   *)
LEMMA StepInsertDefault ==
  ASSUME IInv, NEW s \in Runs, InsertDefault(s)
  PROVE  IInv'
<1> DEFINE a == s.account
           c == Defaults[a][seeding[s].i]
<1>1. seeding[s].pc = "insert" /\ a \in Accounts
  BY OnboardingAssumption DEF InsertDefault, At
<1>2. Defaults[a] \in Seq(DefaultsOf(a)) /\ seeding[s].i \in 1..Len(Defaults[a])
  BY <1>1, OnboardingAssumption DEF IInv, SeedingHolds
<1>3. c \in DefaultsOf(a) /\ c.id # 0
  <2>1. c \in DefaultsOf(a)
    BY <1>2
  <2>2. c.id \in Nat /\ c.id > 0
    BY <1>1, <2>1, CentersOfAccount, OnboardingAssumption
  <2> QED
    BY <2>1, <2>2
<1> HIDE DEF c
<1>4. centers' = InsertedCenter(c, a) /\ Advance(s)
      /\ UNCHANGED <<users, userJobs, centerJobs, processor, mishaps>>
  BY DEF InsertDefault, queues, c
<1>5. /\ CentersTyped(centers')
      /\ \A k \in DOMAIN centers : k \in DOMAIN centers' /\ centers'[k] = centers[k]
      /\ \A k \in DOMAIN centers' \ DOMAIN centers : k = c.id
  BY <1>1, <1>3, <1>4, InsertedCenterRow
<1>6. IsDefault(c.id)
  BY <1>1, <1>3 DEF IsDefault
<1>7. \A k \in DOMAIN centers' :
        ~ IsDefault(k) => k \in DOMAIN centers /\ centers'[k] = centers[k]
  BY <1>5, <1>6
<1>8. ProcessorHolds(processor', centers')
  BY <1>4, <1>7 DEF IInv, ProcessorHolds, NotYetThere
<1>9. SeedingHolds(seeding')
  BY <1>1, <1>4, AdvanceHolds
<1>10. OneRowPerCenter'
  BY <1>7 DEF IInv, OneRowPerCenter, IsDefault
<1> QED
  BY <1>4, <1>5, <1>8, <1>9, <1>10 DEF IInv

LEMMA StepSeedingFails ==
  ASSUME IInv, NEW s \in Runs, SeedingFails(s)
  PROVE  IInv'
<1> DEFINE stop == [pc |-> "idle"]
<1>1. UNCHANGED <<tables, queues, processor>> /\ mishaps' \in 0..MaxMishaps
  BY MishapCounts DEF SeedingFails
<1>2. CASE seeding' = [seeding EXCEPT ![s] = stop]
  <2>1. stop \in SeedingFrame
    BY DEF SeedingFrame
  <2>2. SeedingHolds(seeding')
    BY <1>2, <2>1 DEF IInv, SeedingHolds
  <2> QED
    BY <1>1, <2>2, LocalStep DEF IInv
<1>3. CASE seeding[s].pc \in {"select", "insert"} /\ Advance(s)
  <2>1. SeedingHolds(seeding')
    BY <1>3, AdvanceHolds
  <2> QED
    BY <1>1, <2>1, LocalStep DEF IInv
<1> QED
  BY <1>2, <1>3 DEF SeedingFails, Seeder

LEMMA StepRemove ==
  ASSUME IInv, Remove
  PROVE  IInv'
<1>1. UNCHANGED <<userJobs, centerJobs, processor, seeding>>
      /\ mishaps' \in 0..MaxMishaps
  BY MishapCounts DEF Remove, queues
<1>2. /\ DOMAIN users' \subseteq DOMAIN users
      /\ users' = [k \in DOMAIN users' |-> users[k]]
      /\ DOMAIN centers' \subseteq DOMAIN centers
      /\ centers' = [k \in DOMAIN centers' |-> centers[k]]
  <2>1. users = [k \in DOMAIN users |-> users[k]]
        /\ centers = [k \in DOMAIN centers |-> centers[k]]
    BY DEF IInv, UsersTyped, CentersTyped
  <2> QED
    BY <2>1 DEF Remove
<1>3. UsersTyped(users') /\ CentersTyped(centers')
  BY <1>2 DEF IInv, UsersTyped, CentersTyped
<1>4. ProcessorHolds(processor', centers')
  BY <1>1, <1>2 DEF IInv, ProcessorHolds, NotYetThere
<1>5. OneRowPerCenter'
  BY <1>2 DEF IInv, OneRowPerCenter
<1> QED
  BY <1>1, <1>3, <1>4, <1>5 DEF IInv

(* A process that has just started holds nothing.                          *)
LEMMA FreshProcess ==
  ASSUME NEW table
  PROVE  /\ ProcessorHolds([pc |-> "users"], table)
         /\ SeedingHolds([s \in Runs |-> [pc |-> "idle"]])
  BY DEF ProcessorHolds, ProcessorFrame, SeedingHolds, SeedingFrame

LEMMA StepCrash ==
  ASSUME IInv, Crash
  PROVE  IInv'
<1>1. UNCHANGED <<users, centers>> /\ mishaps' \in 0..MaxMishaps
  BY MishapCounts DEF Crash, tables
<1>2. userJobs' \in Seq(Users) /\ centerJobs' \in Seq(CenterJob)
  BY DEF Crash
<1>3. ProcessorHolds(processor', centers') /\ SeedingHolds(seeding')
  BY FreshProcess DEF Crash
<1>4. OneRowPerCenter'
  BY <1>1 DEF IInv, OneRowPerCenter
<1> QED
  BY <1>1, <1>2, <1>3, <1>4 DEF IInv
-----------------------------------------------------------------------------
LEMMA InitHolds == Init => IInv
<1> SUFFICES ASSUME Init PROVE IInv
  OBVIOUS
<1>1. UsersTyped(users) /\ CentersTyped(centers) /\ OneRowPerCenter
  BY DEF Init, UsersTyped, CentersTyped, OneRowPerCenter
<1>2. ProcessorHolds(processor, centers) /\ SeedingHolds(seeding)
  BY FreshProcess DEF Init
<1>3. userJobs \in Seq(Users) /\ centerJobs \in Seq(CenterJob)
      /\ mishaps \in 0..MaxMishaps
  BY OnboardingAssumption DEF Init
<1> QED
  BY <1>1, <1>2, <1>3 DEF IInv

LEMMA StepHolds == IInv /\ [Next]_vars => IInv'
<1> SUFFICES ASSUME IInv, [Next]_vars PROVE IInv'
  OBVIOUS
<1>1. ASSUME NEW u \in Users, Login(u) PROVE IInv'
  BY <1>1, StepLogin
<1>2. CASE SyncCenter \/ BulkSyncCenter
  BY <1>2, StepCenterJob
<1>3. CASE Process
  BY <1>3, StepPoll, StepReadUser, StepWriteUser, StepSelectCenter,
     StepInsertCenter DEF Process
<1>4. CASE FailInsert
  BY <1>4, StepFailInsert
<1>5. CASE JobFails
  BY <1>5, StepJobFails
<1>6. ASSUME NEW s \in Runs, RunSeeding(s) PROVE IInv'
  BY <1>6, StepCountDefaults, StepSelectDefault, StepInsertDefault
  DEF RunSeeding
<1>7. ASSUME NEW s \in Runs, SeedingFails(s) PROVE IInv'
  BY <1>7, StepSeedingFails
<1>8. CASE Remove
  BY <1>8, StepRemove
<1>9. CASE Crash
  BY <1>9, StepCrash
<1>10. CASE UNCHANGED vars
  BY <1>10 DEF vars, IInv, OneRowPerCenter
<1> QED
  BY <1>1, <1>2, <1>3, <1>4, <1>5, <1>6, <1>7, <1>8, <1>9, <1>10 DEF Next

LEMMA Invariance == Spec => []IInv
  BY InitHolds, StepHolds, PTL DEF Spec

(* The tables, the queues, the loop and the seedings are well-typed; the   *)
(* index of a seeding never leaves the list, and no center has the key 0.  *)
THEOREM TypeCorrect == Spec => []TypeOK
<1>1. IInv => TypeOK
  BY DEF IInv, TypeOK, UsersTyped, CentersTyped, ProcessorHolds, SeedingHolds
<1> QED
  BY <1>1, Invariance, PTL

(* Two centers that jobs have created never share an id or a site of       *)
(* Malambi, for all that syncCenter looks and inserts in two statements.   *)
THEOREM CentersAreUnique == Spec => []OneRowPerCenter
<1>1. IInv => OneRowPerCenter
  BY DEF IInv
<1> QED
  BY <1>1, Invariance, PTL
-----------------------------------------------------------------------------
(* centers-seeder.service.ts:78: "account-scoped geozone_ids so they are   *)
(* globally unique".  No default center has the number of a default center *)
(* of another account, nor of a geozone that Malambi lists for another.    *)
DefaultsAreOwn ==
  \A a, b \in Accounts :
    \A c \in DefaultsOf(a), d \in Api[b] \cup DefaultsOf(b) :
      c.id = d.id => a = b

(* A row with the number of a default center belongs to its account.       *)
RowsOwned(table) ==
  \A a \in Accounts : \A c \in DefaultsOf(a) :
    c.id \in DOMAIN table => table[c.id].account = a

(* Seeded, AllSeeded and UserExists of a table.                            *)
Has(table, a, c) == c.id \in DOMAIN table /\ table[c.id].account = a
HasAll(table, a) == \A c \in DefaultsOf(a) : Has(table, a, c)
Registered(table, u) == u.subid \in DOMAIN table /\ table[u.subid] = u.account

(* The centers of its list that a seeding has behind it are there.         *)
Behind(table, s, f) ==
  f.pc \in {"select", "insert"} =>
    \A j \in 1..(f.i - 1) : Has(table, s.account, Defaults[s.account][j])

(* An account has its default centers, or they are being seeded.           *)
Assured(table, runs, a) ==
  HasAll(table, a) \/ \E s \in Runs : s.account = a /\ runs[s].pc # "idle"

(* A job that inserts its user took him for new before, so that a seeding  *)
(* will be started with the INSERT.                                        *)
InsertsNew(table, p) ==
  /\ p.pc \notin {"rawSelect", "rawInsert"}
  /\ p.pc = "select" /\ p.existed => Registered(table, p.user)
  /\ p.pc = "insert" => ~ p.existed

Smooth ==
  /\ InsertsNew(users, processor)
  /\ \A s \in Runs : Behind(centers, s, seeding[s])
  /\ \A k \in DOMAIN users : Assured(centers, seeding, users[k])

SeedInv == RowsOwned(centers) /\ (mishaps = 0 => Smooth)
-----------------------------------------------------------------------------
(* A table of centers that has grown.                                      *)
Grown(old, new) ==
  \A k \in DOMAIN old : k \in DOMAIN new /\ new[k] = old[k]

LEMMA BehindStays ==
  ASSUME NEW old, NEW new, Grown(old, new), NEW s, NEW f, Behind(old, s, f)
  PROVE  Behind(new, s, f)
  BY DEF Behind, Has, Grown

(* An account stays seen to, if no seeding of it stops too early.          *)
LEMMA AssuredStays ==
  ASSUME NEW old, NEW new, Grown(old, new), NEW a, NEW was, NEW now,
         Assured(old, was, a),
         \A s \in Runs : s.account = a /\ was[s].pc # "idle" =>
                           now[s].pc # "idle" \/ HasAll(new, a)
  PROVE  Assured(new, now, a)
<1>1. HasAll(old, a) => HasAll(new, a)
  BY DEF HasAll, Has, Grown
<1> QED
  BY <1>1 DEF Assured

(* The INSERT of a center: what it says of the default centers.            *)
LEMMA OwnRowsStay ==
  ASSUME IInv, DefaultsAreOwn, RowsOwned(centers),
         NEW a \in Accounts, NEW c \in Api[a] \cup DefaultsOf(a),
         centers' = InsertedCenter(c, a)
  PROVE  /\ RowsOwned(centers') /\ Grown(centers, centers')
         /\ c \in DefaultsOf(a) => Has(centers', a, c)
<1>1. CASE c.id \in DOMAIN centers
  BY <1>1 DEF InsertedCenter, RowsOwned, Grown, Has
<1>2. CASE c.id \notin DOMAIN centers
  <2>1. /\ DOMAIN centers' = DOMAIN centers \cup {c.id}
        /\ centers'[c.id].account = a
        /\ \A k \in DOMAIN centers : centers'[k] = centers[k]
    BY <1>2 DEF InsertedCenter, With
  <2>2. RowsOwned(centers')
    <3> SUFFICES ASSUME NEW b \in Accounts, NEW d \in DefaultsOf(b),
                        d.id \in DOMAIN centers'
                 PROVE  centers'[d.id].account = b
      BY DEF RowsOwned
    <3>1. CASE d.id = c.id
      BY <2>1, <3>1 DEF DefaultsAreOwn
    <3>2. CASE d.id # c.id
      BY <2>1, <3>2 DEF RowsOwned
    <3> QED
      BY <3>1, <3>2
  <2> QED
    BY <2>1, <2>2 DEF Grown, Has
<1> QED
  BY <1>1, <1>2

(* A step that inserts no user, and after which seedings still have seeded *)
(* what they have behind them.                                             *)
LEMMA NoNewUser ==
  ASSUME Smooth, Grown(centers, centers'), users' = users,
         InsertsNew(users', processor'),
         \A s \in Runs : Behind(centers', s, seeding'[s]),
         \A s \in Runs : seeding[s].pc # "idle" =>
                           seeding'[s].pc # "idle" \/ HasAll(centers', s.account)
  PROVE  Smooth'
<1>1. ASSUME NEW k \in DOMAIN users
      PROVE  Assured(centers', seeding', users[k])
  <2>1. Assured(centers, seeding, users[k])
    BY DEF Smooth
  <2> QED
    BY <2>1, AssuredStays
<1> QED
  BY <1>1 DEF Smooth

(* Seedings are left alone, or one is started.                             *)
LEMMA SeedingsGoOn ==
  ASSUME IInv, Smooth, NEW table, Grown(centers, table),
         UNCHANGED seeding \/ \E a : StartSeeding(a)
  PROVE  \A s \in Runs :
           /\ Behind(table, s, seeding'[s])
           /\ seeding[s].pc # "idle" => seeding'[s].pc # "idle"
<1> SUFFICES ASSUME NEW s \in Runs
             PROVE  /\ Behind(table, s, seeding'[s])
                    /\ seeding[s].pc # "idle" => seeding'[s].pc # "idle"
  OBVIOUS
<1>1. Behind(table, s, seeding[s])
  BY BehindStays DEF Smooth
<1>2. seeding'[s] = seeding[s] \/ seeding'[s] = [pc |-> "count"]
  BY DEF StartSeeding, IInv, SeedingHolds
<1> QED
  BY <1>1, <1>2 DEF Behind

(* A seeding goes on with the next center of its list, the one at hand     *)
(* being there; after the last one, all are.                               *)
LEMMA AdvanceSeeds ==
  ASSUME IInv, Smooth, NEW table, Grown(centers, table), NEW s \in Runs,
         seeding[s].pc \in {"select", "insert"}, Advance(s),
         Has(table, s.account, Defaults[s.account][seeding[s].i])
  PROVE  \A r \in Runs :
           /\ Behind(table, r, seeding'[r])
           /\ seeding[r].pc # "idle" =>
                seeding'[r].pc # "idle" \/ HasAll(table, r.account)
<1> DEFINE a == s.account
           n == Len(Defaults[a])
           i == seeding[s].i
<1>1. /\ a \in Accounts /\ Defaults[a] \in Seq(DefaultsOf(a))
      /\ n \in Nat /\ i \in 1..n
  BY OnboardingAssumption DEF IInv, SeedingHolds
<1>2. \A r \in Runs : Behind(table, r, seeding[r])
  BY BehindStays DEF Smooth
<1>3. \A j \in 1..i : Has(table, a, Defaults[a][j])
  BY <1>1, <1>2 DEF Behind
<1>4. \A r \in Runs : r # s => seeding'[r] = seeding[r]
  BY DEF Advance, Seeder, IInv, SeedingHolds
<1>5. CASE i < n
  <2>1. seeding'[s] = [pc |-> "select", i |-> i + 1]
    BY <1>5 DEF Advance, Seeder, IInv, SeedingHolds
  <2>2. Behind(table, s, seeding'[s])
    BY <1>1, <1>3, <2>1 DEF Behind
  <2> QED
    BY <1>2, <1>4, <2>1, <2>2
<1>6. CASE ~ (i < n)
  <2>1. seeding'[s] = [pc |-> "idle"]
    BY <1>6 DEF Advance, Seeder, IInv, SeedingHolds
  <2>2. i = n
    BY <1>1, <1>6
  <2>3. HasAll(table, a)
    BY <1>1, <1>3, <2>2 DEF HasAll, DefaultsOf
  <2>4. Behind(table, s, seeding'[s])
    BY <2>1 DEF Behind
  <2> QED
    BY <1>2, <1>4, <2>3, <2>4
<1> QED
  BY <1>5, <1>6
-----------------------------------------------------------------------------
(* The steps, as long as nothing goes wrong.                               *)
LEMMA SmoothLogin ==
  ASSUME IInv, Smooth, NEW u \in Users, Login(u)
  PROVE  Smooth'
<1>1. UNCHANGED <<users, centers, processor>> /\ Grown(centers, centers')
  BY DEF Login, tables, Grown
<1>2. UNCHANGED seeding \/ \E a : StartSeeding(a)
  BY DEF Login
<1>3. InsertsNew(users', processor')
  BY <1>1 DEF Smooth
<1> QED
  BY <1>1, <1>2, <1>3, SeedingsGoOn, NoNewUser

LEMMA SmoothJobs ==
  ASSUME IInv, Smooth, SyncCenter \/ BulkSyncCenter \/ PollUsers \/ PollCenters
  PROVE  Smooth'
<1>1. UNCHANGED <<users, centers, seeding>> /\ Grown(centers, centers')
  BY DEF SyncCenter, BulkSyncCenter, PollUsers, PollCenters, tables, Grown
<1>2. InsertsNew(users, processor)
  BY DEF Smooth
<1>3. InsertsNew(users', processor')
  BY <1>1, <1>2 DEF SyncCenter, BulkSyncCenter, PollUsers, PollCenters,
                    InsertsNew
<1> QED
  BY <1>1, <1>3, SeedingsGoOn, NoNewUser

LEMMA SmoothReadUser ==
  ASSUME IInv, Smooth, CheckUser \/ SelectUser \/ RawSelectUser
  PROVE  Smooth'
<1>1. UNCHANGED <<users, centers>> /\ Grown(centers, centers')
  BY DEF CheckUser, SelectUser, RawSelectUser, tables, Grown
<1>2. UNCHANGED seeding \/ \E a : StartSeeding(a)
  BY DEF CheckUser, SelectUser, RawSelectUser, Synced
<1>3. InsertsNew(users, processor)
  BY DEF Smooth
<1>4. InsertsNew(users', processor')
  <2>1. CASE processor' = [pc |-> "centers"]
    BY <2>1 DEF InsertsNew
  <2>2. CASE CheckUser
    <3>1. processor' = [processor EXCEPT !.pc = "select",
                                         !.existed = UserExists(processor.user)]
          /\ processor \in [pc : {"exists", "select", "insert", "rawSelect",
                                  "rawInsert"}, user : Users, existed : BOOLEAN]
      BY <2>2, ProcessorRead DEF CheckUser
    <3>2. /\ processor'.pc = "select" /\ processor'.user = processor.user
          /\ processor'.existed = UserExists(processor.user)
      BY <3>1
    <3> QED
      BY <1>1, <3>2 DEF InsertsNew, UserExists, Registered
  <2>3. CASE /\ processor.pc = "select" /\ ~ UserExists(processor.user)
             /\ processor' = [processor EXCEPT !.pc = "insert"]
    <3>1. processor \in [pc : {"exists", "select", "insert", "rawSelect",
                               "rawInsert"}, user : Users, existed : BOOLEAN]
      BY <2>3, ProcessorRead
    <3>2. /\ processor'.pc = "insert" /\ processor'.user = processor.user
          /\ processor'.existed = processor.existed
      BY <2>3, <3>1
    <3> QED
      BY <1>3, <2>3, <3>2 DEF InsertsNew, UserExists, Registered
  <2> QED
    BY <1>3, <2>1, <2>2, <2>3
    DEF SelectUser, RawSelectUser, Synced, InsertsNew
<1> QED
  BY <1>1, <1>2, <1>4, SeedingsGoOn, NoNewUser

(* The INSERT of a user starts the seeding of his account.                 *)
LEMMA SmoothWriteUser ==
  ASSUME IInv, Smooth, InsertUser \/ RawInsertUser
  PROVE  Smooth'
<1> PICK u : u = processor.user
  OBVIOUS
<1>1. processor.pc = "insert" /\ ~ processor.existed
  BY DEF Smooth, InsertsNew, InsertUser, RawInsertUser
<1>2. /\ users' = InsertedUser(u) /\ centers' = centers
      /\ processor' = [pc |-> "centers"] /\ StartSeeding(u.account)
  BY <1>1 DEF InsertUser, RawInsertUser, Synced
<1>3. Grown(centers, centers')
  BY <1>2 DEF Grown
<1>4. \A s \in Runs :
        /\ Behind(centers', s, seeding'[s])
        /\ seeding[s].pc # "idle" => seeding'[s].pc # "idle"
  BY <1>2, <1>3, SeedingsGoOn
<1>5. Assured(centers', seeding', u.account)
  <2> PICK s \in Runs : s.account = u.account
                        /\ seeding' = [seeding EXCEPT ![s] = [pc |-> "count"]]
    BY <1>2 DEF StartSeeding
  <2>1. seeding'[s].pc # "idle"
    BY DEF IInv, SeedingHolds
  <2> QED
    BY <2>1 DEF Assured
<1>6. ASSUME NEW k \in DOMAIN users'
      PROVE  Assured(centers', seeding', users'[k])
  <2>1. CASE k \in DOMAIN users /\ users'[k] = users[k]
    <3>1. Assured(centers, seeding, users[k])
      BY <2>1 DEF Smooth
    <3> QED
      BY <1>3, <1>4, <2>1, <3>1, AssuredStays
  <2>2. CASE users'[k] = u.account
    BY <1>5, <2>2
  <2> QED
    BY <1>2, <2>1, <2>2 DEF InsertedUser, With
<1>7. InsertsNew(users', processor')
  BY <1>2 DEF InsertsNew
<1> QED
  BY <1>4, <1>6, <1>7 DEF Smooth

LEMMA SmoothCenter ==
  ASSUME IInv, DefaultsAreOwn, SeedInv, SelectCenter \/ InsertCenter
  PROVE  RowsOwned(centers') /\ (Smooth => Smooth')
<1>1. RowsOwned(centers') /\ Grown(centers, centers')
  <2>1. CASE InsertCenter
    <3> PICK c, a : c = processor.job.center /\ a = processor.job.account
      OBVIOUS
    <3>1. a \in Accounts /\ c \in Api[a]
      BY <2>1, ProcessorRead DEF InsertCenter, CenterJob
    <3> QED
      BY <2>1, <3>1, OwnRowsStay DEF InsertCenter, SeedInv
  <2>2. CASE SelectCenter
    BY <2>2 DEF SelectCenter, tables, SeedInv, Grown
  <2> QED
    BY <2>1, <2>2
<1>2. UNCHANGED <<users, seeding>>
  BY DEF SelectCenter, InsertCenter, tables
<1>3. InsertsNew(users', processor')
  <2>1. processor.pc \in {"centerSelect", "centerInsert"}
    BY DEF SelectCenter, InsertCenter
  <2>2. processor \in [pc : {"centerSelect", "centerInsert"}, job : CenterJob]
    BY <2>1, ProcessorRead
  <2>3. processor'.pc \in {"users", "centerInsert"}
    BY <2>2 DEF SelectCenter, InsertCenter
  <2> QED
    BY <2>3 DEF InsertsNew
<1> QED
  BY <1>1, <1>2, <1>3, SeedingsGoOn, NoNewUser

LEMMA SmoothSeeding ==
  ASSUME IInv, DefaultsAreOwn, SeedInv, NEW s \in Runs, RunSeeding(s)
  PROVE  RowsOwned(centers') /\ (Smooth => Smooth')
<1> PICK a : a = s.account
  OBVIOUS
<1>1. a \in Accounts /\ seeding \in [Runs -> SeedingFrame]
  BY OnboardingAssumption DEF IInv, SeedingHolds
<1>2. UNCHANGED <<users, processor>>
  BY DEF RunSeeding, CountDefaults, SelectDefault, InsertDefault, tables
<1>3. Smooth => InsertsNew(users', processor')
  BY <1>2 DEF Smooth
<1>4. CASE CountDefaults(s)
  <2>1. centers' = centers /\ Grown(centers, centers')
    BY <1>4 DEF CountDefaults, tables, Grown
  <2>2. \A r \in Runs : r # s => seeding'[r] = seeding[r]
    BY <1>1, <1>4 DEF CountDefaults, Seeder
  <2>3. \/ AllSeeded(a) /\ seeding'[s] = [pc |-> "idle"]
        \/ seeding'[s] = [pc |-> "select", i |-> 1]
    BY <1>1, <1>4 DEF CountDefaults, Seeder
  <2>4. AllSeeded(a) => HasAll(centers', a)
    BY <2>1 DEF AllSeeded, HasAll, Seeded, Has
  <2>5. Behind(centers', s, seeding'[s])
    BY <2>3 DEF Behind
  <2>6. ASSUME Smooth PROVE Smooth'
    <3>1. \A r \in Runs : Behind(centers', r, seeding'[r])
      BY <2>1, <2>2, <2>5, <2>6 DEF Smooth
    <3>2. seeding'[s].pc # "idle" \/ HasAll(centers', a)
      BY <2>3, <2>4
    <3> QED
      BY <1>2, <1>3, <2>1, <2>2, <2>6, <3>1, <3>2, NoNewUser
  <2> QED
    BY <2>1, <2>6 DEF SeedInv
<1>5. CASE SelectDefault(s)
  <2>1. centers' = centers /\ Grown(centers, centers') /\ seeding[s].pc = "select"
    BY <1>5 DEF SelectDefault, At, tables, Grown
  <2>2. ASSUME Smooth, Advance(s), Seeded(a, Defaults[a][seeding[s].i])
        PROVE  Smooth'
    <3>1. Has(centers', a, Defaults[a][seeding[s].i])
      BY <2>1, <2>2 DEF Seeded, Has
    <3> QED
      BY <1>2, <1>3, <2>1, <2>2, <3>1, AdvanceSeeds, NoNewUser
  <2>3. ASSUME Smooth, Seeder(s, [seeding[s] EXCEPT !.pc = "insert"])
        PROVE  Smooth'
    <3>1. seeding[s] \in [pc : {"select", "insert"}, i : Nat]
      BY <1>1, <2>1 DEF SeedingFrame
    <3>2. seeding'[s] = [pc |-> "insert", i |-> seeding[s].i]
      BY <1>1, <2>3, <3>1 DEF Seeder
    <3>3. \A r \in Runs : r # s => seeding'[r] = seeding[r]
      BY <1>1, <2>3 DEF Seeder
    <3>4. \A r \in Runs : Behind(centers', r, seeding'[r])
      BY <2>1, <2>3, <3>2, <3>3 DEF Smooth, Behind
    <3> QED
      BY <1>2, <1>3, <2>1, <2>3, <3>2, <3>3, <3>4, NoNewUser
  <2> QED
    BY <1>5, <2>1, <2>2, <2>3 DEF SelectDefault, SeedInv
<1>6. CASE InsertDefault(s)
  <2> PICK c : c = Defaults[a][seeding[s].i]
    OBVIOUS
  <2>1. seeding[s].pc = "insert" /\ Advance(s) /\ centers' = InsertedCenter(c, a)
    BY <1>6 DEF InsertDefault, At
  <2>2. c \in DefaultsOf(a)
    <3>1. Defaults[a] \in Seq(DefaultsOf(a))
          /\ seeding[s].i \in 1..Len(Defaults[a])
      BY <1>1, <2>1, OnboardingAssumption DEF IInv, SeedingHolds
    <3> QED
      BY <3>1
  <2>3. RowsOwned(centers') /\ Grown(centers, centers') /\ Has(centers', a, c)
    BY <1>1, <2>1, <2>2, OwnRowsStay DEF SeedInv
  <2> QED
    BY <1>2, <1>3, <2>1, <2>3, AdvanceSeeds, NoNewUser
<1> QED
  BY <1>4, <1>5, <1>6 DEF RunSeeding

(* What goes wrong leaves the accounts of the centers as they are.         *)
LEMMA RoughStep ==
  ASSUME IInv, SeedInv,
         FailInsert \/ JobFails \/ Remove \/ Crash
           \/ \E s \in Runs : SeedingFails(s)
  PROVE  RowsOwned(centers') /\ mishaps' # 0
<1>1. Mishap
  BY DEF FailInsert, JobFails, Remove, Crash, SeedingFails
<1>2. mishaps' # 0
  BY <1>1, OnboardingAssumption DEF Mishap, IInv
<1>3. \A k \in DOMAIN centers' : k \in DOMAIN centers /\ centers'[k] = centers[k]
  BY DEF FailInsert, JobFails, Remove, Crash, SeedingFails, tables
<1> QED
  BY <1>2, <1>3 DEF SeedInv, RowsOwned

LEMMA SeedStep ==
  ASSUME DefaultsAreOwn, IInv, SeedInv, [Next]_vars
  PROVE  SeedInv'
<1>1. ASSUME centers' = centers, mishaps' = mishaps, Smooth => Smooth'
      PROVE  SeedInv'
  BY <1>1 DEF SeedInv
<1>2. ASSUME NEW u \in Users, Login(u) PROVE SeedInv'
  <2>1. centers' = centers /\ mishaps' = mishaps
    BY <1>2 DEF Login, tables
  <2> QED
    BY <1>1, <1>2, <2>1, SmoothLogin
<1>3. CASE SyncCenter \/ BulkSyncCenter \/ PollUsers \/ PollCenters
  <2>1. centers' = centers /\ mishaps' = mishaps
    BY <1>3 DEF SyncCenter, BulkSyncCenter, PollUsers, PollCenters, tables
  <2> QED
    BY <1>1, <1>3, <2>1, SmoothJobs
<1>4. CASE CheckUser \/ SelectUser \/ RawSelectUser
  <2>1. centers' = centers /\ mishaps' = mishaps
    BY <1>4 DEF CheckUser, SelectUser, RawSelectUser, tables
  <2> QED
    BY <1>1, <1>4, <2>1, SmoothReadUser
<1>5. CASE InsertUser \/ RawInsertUser
  <2>1. centers' = centers /\ mishaps' = mishaps
    BY <1>5 DEF InsertUser, RawInsertUser
  <2> QED
    BY <1>1, <1>5, <2>1, SmoothWriteUser
<1>6. CASE SelectCenter \/ InsertCenter
  <2>1. mishaps' = mishaps
    BY <1>6 DEF SelectCenter, InsertCenter
  <2> QED
    BY <1>6, <2>1, SmoothCenter DEF SeedInv
<1>7. ASSUME NEW s \in Runs, RunSeeding(s) PROVE SeedInv'
  <2>1. mishaps' = mishaps
    BY <1>7 DEF RunSeeding, CountDefaults, SelectDefault, InsertDefault
  <2> QED
    BY <1>7, <2>1, SmoothSeeding DEF SeedInv
<1>8. CASE FailInsert \/ JobFails \/ Remove \/ Crash
             \/ \E s \in Runs : SeedingFails(s)
  BY <1>8, RoughStep DEF SeedInv
<1>9. CASE UNCHANGED vars
  BY <1>9 DEF vars, SeedInv, Smooth
<1> QED
  BY <1>2, <1>3, <1>4, <1>5, <1>6, <1>7, <1>8, <1>9 DEF Next, Process

LEMMA SeedInitially == Init => SeedInv
  BY DEF Init, SeedInv, RowsOwned, Smooth, InsertsNew, Behind

(* As long as nothing has gone wrong, an account with a user has its       *)
(* default centers or they are being seeded, with any number of users and  *)
(* of seedings of one account at once; its numbers being its own.          *)
THEOREM CentersComeWithUsers ==
  ASSUME DefaultsAreOwn
  PROVE  Spec => []SeededWithUser
<1>1. SeedInv => SeededWithUser
  <2> SUFFICES ASSUME SeedInv, mishaps = 0, NEW k \in DOMAIN users,
                      ~ AllSeeded(users[k])
               PROVE  \E s \in Runs : s.account = users[k] /\ ~ At(s, "idle")
    BY DEF SeededWithUser
  <2>1. Assured(centers, seeding, users[k])
    BY DEF SeedInv, Smooth
  <2> QED
    BY <2>1 DEF Assured, HasAll, Has, AllSeeded, Seeded, At
<1> QED
  BY <1>1, SeedInitially, SeedStep, InitHolds, StepHolds, PTL DEF Spec
=============================================================================
