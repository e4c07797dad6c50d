------------------------ MODULE VehicleStatusProofs ------------------------
(***************************************************************************)
(* Proofs about VehicleStatus, for any number of vehicles, centers and     *)
(* changes, and any finite number of requests.                             *)
(*                                                                         *)
(* ManualChangesLogged is not inductive: a request about to insert its     *)
(* history row may name a center that has been removed.  The invariant     *)
(* adds LogsStand: that happens in a mishap only, for logStatusChange      *)
(* looks the center up right before it inserts.                            *)
(***************************************************************************)
EXTENDS VehicleStatus, FiniteSetTheorems, TLAPS

LogsStand ==
  mishaps = 0 =>
    \A r \in Requests : At(r, "log") => Stands(slot[r].center)

(* The requests, in frames sl, that have written status s of vehicle v and *)
(* not yet inserted their row of the history.                              *)
ToLog(f, v, s) ==
  f.pc \in {"logCenter", "log"} /\ f.vehicle = v /\ f.status = s

Unlogged(sl, v, s) == {r \in Requests : ToLog(sl[r], v, s)}

(* By hand, status s was written no more often than it is logged, or will  *)
(* be by n requests.                                                       *)
Covered(written, logged, n, s) == CountIn(written, s) <= CountIn(logged, s) + n

IInv == TypeOK /\ LogsStand /\ ManualChangesLogged
-----------------------------------------------------------------------------
(* A request goes on to a frame.                                           *)
LEMMA GotoFrame ==
  ASSUME TypeOK, NEW r \in Requests, NEW STATE frame, frame \in Frame,
         Goto(r, frame)
  PROVE  slot' \in [Requests -> Frame]
  BY DEF TypeOK, Goto

(* What a frame holds at each statement.                                   *)
LEMMA FrameAt ==
  ASSUME TypeOK, NEW r \in Requests
  PROVE  /\ slot[r].pc = "find" =>
              slot[r] \in [pc : {"find"}, vehicle : Vehicles, status : Asked,
                           center : Centers \cup {None}]
         /\ slot[r].pc \in {"checkCenter", "update"} =>
              slot[r] \in [pc : {"checkCenter", "update"}, vehicle : Vehicles,
                           status : Asked, center : Centers \cup {None},
                           row : Row]
         /\ slot[r].pc \in {"logCenter", "log"} =>
              slot[r] \in [pc : {"logCenter", "log"}, vehicle : Vehicles,
                           status : Asked, center : Centers \cup {None}]
         /\ slot[r].pc \in {"assignCenter", "assign", "placeCenter", "place"} =>
              slot[r] \in [pc : {"assignCenter", "assign", "placeCenter",
                                 "place"},
                           vehicle : Vehicles, center : Centers \cup {None}]
<1>1. slot[r] \in Frame
  BY DEF TypeOK
<1> QED
  BY <1>1 DEF Frame, Idle

(* The rows of table vehicles are well-typed.                              *)
LEMMA RowRead ==
  ASSUME TypeOK, NEW v \in DOMAIN vehicles
  PROVE  v \in Vehicles /\ vehicles[v] \in Row
  BY DEF TypeOK, Row

LEMMA UnlessUnchangedOK ==
  ASSUME TypeOK, NEW r \in Requests, NEW STATE c, c \in Centers \cup {None},
         NEW STATE row, row \in Row,
         slot[r].pc \in {"find", "checkCenter"}, UnlessUnchanged(r, c, row)
  PROVE  slot' \in [Requests -> Frame]
<1>1. slot[r].vehicle \in Vehicles /\ slot[r].status \in Asked
  BY FrameAt
<1>2. Idle \in Frame
  BY DEF Frame
<1>3. [pc |-> "update", vehicle |-> slot[r].vehicle,
       status |-> slot[r].status, center |-> c, row |-> row] \in Frame
  BY <1>1 DEF Frame
<1> QED
  BY <1>2, <1>3, GotoFrame DEF UnlessUnchanged

LEMMA IdleFrame == Idle \in Frame
  BY DEF Frame

(* A step that writes no table and moves request r to a frame.             *)
LEMMA TypeRead ==
  ASSUME TypeOK, slot' \in [Requests -> Frame],
         UNCHANGED <<vehicles, centers, history, byHand, mishaps>>
  PROVE  TypeOK'
  BY DEF TypeOK

LEMMA TypeStep == TypeOK /\ [Next]_vars => TypeOK'
<1> SUFFICES ASSUME TypeOK, [Next]_vars
             PROVE  TypeOK'
  OBVIOUS
<1> USE VehicleStatusAssumption
<1>1. ASSUME NEW r \in Requests, ChangeStatus(r)
      PROVE  TypeOK'
  <2> PICK v \in Vehicles, s \in Asked, c \in Centers \cup {None} :
        Goto(r, [pc |-> "find", vehicle |-> v, status |-> s, center |-> c])
    BY <1>1 DEF ChangeStatus
  <2>1. [pc |-> "find", vehicle |-> v, status |-> s, center |-> c] \in Frame
    BY DEF Frame
  <2> QED
    BY <1>1, <2>1, GotoFrame, TypeRead DEF ChangeStatus
<1>2. ASSUME NEW r \in Requests, FindVehicle(r)
      PROVE  TypeOK'
  <2>1. slot[r] \in [pc : {"find"}, vehicle : Vehicles, status : Asked,
                     center : Centers \cup {None}]
    BY <1>2, FrameAt DEF FindVehicle, At
  <2>2. CASE Goto(r, Idle)
    BY <1>2, <2>2, IdleFrame, GotoFrame, TypeRead DEF FindVehicle
  <2>3. CASE /\ Known(slot[r].vehicle)
             /\ UnlessUnchanged(r, None, vehicles[slot[r].vehicle])
    BY <1>2, <2>3, RowRead, UnlessUnchangedOK, TypeRead
       DEF FindVehicle, Known, At
  <2>4. CASE /\ Known(slot[r].vehicle)
             /\ Goto(r, [pc |-> "checkCenter", vehicle |-> slot[r].vehicle,
                         status |-> slot[r].status, center |-> slot[r].center,
                         row |-> vehicles[slot[r].vehicle]])
    <3>1. [pc |-> "checkCenter", vehicle |-> slot[r].vehicle,
           status |-> slot[r].status, center |-> slot[r].center,
           row |-> vehicles[slot[r].vehicle]] \in Frame
      BY <2>1, <2>4, RowRead DEF Frame, Known
    <3> QED
      BY <1>2, <2>4, <3>1, GotoFrame, TypeRead DEF FindVehicle
  <2> QED
    BY <1>2, <2>2, <2>3, <2>4 DEF FindVehicle
<1>3. ASSUME NEW r \in Requests, CheckCenter(r)
      PROVE  TypeOK'
  <2>1. slot[r].center \in Centers \cup {None} /\ slot[r].row \in Row
    BY <1>3, FrameAt DEF CheckCenter, At
  <2>2. CASE Goto(r, Idle)
    BY <1>3, <2>2, IdleFrame, GotoFrame, TypeRead DEF CheckCenter
  <2>3. CASE UnlessUnchanged(r, slot[r].center, slot[r].row)
    BY <1>3, <2>1, <2>3, UnlessUnchangedOK, TypeRead DEF CheckCenter, At
  <2> QED
    BY <1>3, <2>2, <2>3 DEF CheckCenter
<1>4. ASSUME NEW r \in Requests, UpdateStatus(r)
      PROVE  TypeOK'
  <2> PICK f : f = slot[r]
    OBVIOUS
  <2>1. /\ f.vehicle \in Vehicles /\ f.status \in Asked
        /\ f.center \in Centers \cup {None}
    BY <1>4, FrameAt DEF UpdateStatus, At
  <2>2. slot' \in [Requests -> Frame]
    <3>1. [pc |-> IF f.center = None THEN "log" ELSE "logCenter",
           vehicle |-> f.vehicle, status |-> f.status,
           center |-> f.center] \in Frame
      BY <2>1 DEF Frame
    <3> QED
      BY <1>4, <3>1, IdleFrame, GotoFrame DEF UpdateStatus
  <2>3. CASE Stands(f.center)
    <3>1. f.center \in centers \cup {None} /\ f.status \in Statuses
      BY <2>1, <2>3 DEF Stands
    <3>2. /\ vehicles' = [v \in DOMAIN vehicles |->
                            IF v = f.vehicle
                            THEN [vehicles[v] EXCEPT !.status = f.status,
                                                     !.at = f.center]
                            ELSE vehicles[v]]
          /\ byHand' = [v \in DOMAIN vehicles |->
                          IF v = f.vehicle THEN Append(byHand[v], f.status)
                          ELSE byHand[v]]
          /\ UNCHANGED <<centers, history, mishaps>>
      BY <1>4, <2>3 DEF UpdateStatus
    <3>3. DOMAIN vehicles' = DOMAIN vehicles
      BY <3>2
    <3>4. vehicles' \in [DOMAIN vehicles -> [status : Statuses,
                                             at : centers \cup {None},
                                             home : centers \cup {None}]]
      BY <3>1, <3>2 DEF TypeOK
    <3>5. byHand' \in [DOMAIN vehicles -> Seq(Statuses)]
      <4>1. ASSUME NEW v \in DOMAIN vehicles
            PROVE  Append(byHand[v], f.status) \in Seq(Statuses)
        BY <3>1 DEF TypeOK
      <4> QED
        BY <3>2, <4>1 DEF TypeOK
    <3> QED
      BY <2>2, <3>2, <3>3, <3>4, <3>5 DEF TypeOK
  <2>4. CASE ~ Stands(f.center)
    BY <1>4, <2>2, <2>4, TypeRead DEF UpdateStatus
  <2> QED
    BY <2>3, <2>4
<1>5. ASSUME NEW r \in Requests, LogCenter(r)
      PROVE  TypeOK'
  <2>1. slot[r] \in [pc : {"logCenter", "log"}, vehicle : Vehicles,
                     status : Asked, center : Centers \cup {None}]
    BY <1>5, FrameAt DEF LogCenter, At
  <2>2. [slot[r] EXCEPT !.pc = "log",
                        !.center = IF @ \in centers THEN @ ELSE None] \in Frame
    BY <2>1 DEF Frame
  <2> QED
    BY <1>5, <2>2, GotoFrame, TypeRead DEF LogCenter
<1>6. ASSUME NEW r \in Requests, Log(r)
      PROVE  TypeOK'
  <2>1. slot[r].status \in Statuses
    BY <1>6, FrameAt DEF Log, At
  <2>2. history' \in [DOMAIN vehicles -> Seq(Statuses)]
    BY <1>6, <2>1 DEF Log, TypeOK
  <2>3. slot' \in [Requests -> Frame]
    BY <1>6, IdleFrame, GotoFrame DEF Log
  <2> QED
    BY <1>6, <2>2, <2>3 DEF Log, TypeOK
<1>7. ASSUME NEW r \in Requests, ChangeAssignment(r)
      PROVE  TypeOK'
  <2>1. ASSUME NEW v \in DOMAIN vehicles, NEW c \in Centers \cup {None},
               NEW pc \in {"assignCenter", "assign"}
        PROVE  [pc |-> pc, vehicle |-> v, center |-> c] \in Frame
    BY RowRead DEF Frame
  <2>2. \E v \in DOMAIN vehicles, c \in Centers \cup {None},
           pc \in {"assignCenter", "assign"} :
          Goto(r, [pc |-> pc, vehicle |-> v, center |-> c])
    BY <1>7, RowRead DEF ChangeAssignment, Row
  <2>3. slot' \in [Requests -> Frame]
    BY <2>1, <2>2, GotoFrame
  <2> QED
    BY <1>7, <2>3, TypeRead DEF ChangeAssignment
<1>8. ASSUME NEW r \in Requests, ChangePlace(r)
      PROVE  TypeOK'
  <2>1. ASSUME NEW v \in DOMAIN vehicles, NEW c \in Centers \cup {None},
               NEW pc \in {"placeCenter", "place"}
        PROVE  [pc |-> pc, vehicle |-> v, center |-> c] \in Frame
    BY RowRead DEF Frame
  <2>2. \E v \in DOMAIN vehicles, c \in Centers \cup {None},
           pc \in {"placeCenter", "place"} :
          Goto(r, [pc |-> pc, vehicle |-> v, center |-> c])
    BY <1>8 DEF ChangePlace
  <2>3. slot' \in [Requests -> Frame]
    BY <2>1, <2>2, GotoFrame
  <2> QED
    BY <1>8, <2>3, TypeRead DEF ChangePlace
<1>9. ASSUME NEW r \in Requests, FindCenter(r)
      PROVE  TypeOK'
  <2>1. slot[r] \in [pc : {"assignCenter", "assign", "placeCenter", "place"},
                     vehicle : Vehicles, center : Centers \cup {None}]
    BY <1>9, FrameAt DEF FindCenter
  <2>2. [slot[r] EXCEPT !.pc = IF @ = "placeCenter" THEN "place"
                               ELSE "assign"] \in Frame
    BY <2>1 DEF Frame
  <2> QED
    BY <1>9, <2>2, IdleFrame, GotoFrame, TypeRead DEF FindCenter
<1>10. ASSUME NEW r \in Requests, Assign(r) \/ Place(r)
       PROVE  TypeOK'
  <2>1. slot' \in [Requests -> Frame]
    BY <1>10, IdleFrame, GotoFrame DEF Assign, Place
  <2>2. CASE Assign(r)
    <3>1. vehicles' \in [DOMAIN vehicles -> [status : Statuses,
                                             at : centers \cup {None},
                                             home : centers \cup {None}]]
      BY <2>2 DEF Assign, Stands, TypeOK
    <3>2. DOMAIN vehicles' = DOMAIN vehicles
      BY <2>2 DEF Assign
    <3> QED
      BY <2>1, <2>2, <3>1, <3>2 DEF Assign, TypeOK
  <2>3. CASE Place(r)
    <3>1. vehicles' \in [DOMAIN vehicles -> [status : Statuses,
                                             at : centers \cup {None},
                                             home : centers \cup {None}]]
      BY <2>3 DEF Place, Stands, TypeOK
    <3>2. DOMAIN vehicles' = DOMAIN vehicles
      BY <2>3 DEF Place
    <3> QED
      BY <2>1, <2>3, <3>1, <3>2 DEF Place, TypeOK
  <2> QED
    BY <1>10, <2>2, <2>3
<1>11. ASSUME NEW r \in Requests, Fail(r)
       PROVE  TypeOK'
  <2>1. slot' \in [Requests -> Frame]
    BY <1>11, IdleFrame, GotoFrame DEF Fail
  <2> QED
    BY <1>11, <2>1 DEF Fail, Mishap, TypeOK
<1>12. CASE TripEvent
  <2> PICK v \in DOMAIN vehicles, s \in Asked, c \in centers \cup {None} :
        vehicles' = [vehicles EXCEPT ![v].status = s, ![v].at = c]
    BY <1>12 DEF TripEvent
  <2>1. vehicles' \in [DOMAIN vehicles -> [status : Statuses,
                                           at : centers \cup {None},
                                           home : centers \cup {None}]]
    BY DEF TypeOK
  <2>2. DOMAIN vehicles' = DOMAIN vehicles
    OBVIOUS
  <2> QED
    BY <1>12, <2>1, <2>2 DEF TripEvent, TypeOK
<1>13. CASE RemoveVehicle
  BY <1>13 DEF RemoveVehicle, Without, TypeOK
<1>14. CASE CreateVehicle
  <2> PICK v \in Vehicles \ DOMAIN vehicles : \E all :
        /\ all = DOMAIN vehicles \cup {v}
        /\ vehicles' = [w \in all |->
                          IF Known(w) THEN vehicles[w]
                          ELSE [status |-> "AVAILABLE", at |-> None,
                                home |-> None]]
        /\ history' = [w \in all |-> IF Known(w) THEN history[w] ELSE <<>>]
        /\ byHand' = [w \in all |-> IF Known(w) THEN byHand[w] ELSE <<>>]
    BY <1>14 DEF CreateVehicle
  <2> PICK all :
        /\ all = DOMAIN vehicles \cup {v}
        /\ vehicles' = [w \in all |->
                          IF Known(w) THEN vehicles[w]
                          ELSE [status |-> "AVAILABLE", at |-> None,
                                home |-> None]]
        /\ history' = [w \in all |-> IF Known(w) THEN history[w] ELSE <<>>]
        /\ byHand' = [w \in all |-> IF Known(w) THEN byHand[w] ELSE <<>>]
    OBVIOUS
  <2>1. DOMAIN vehicles' = all /\ all \subseteq Vehicles
    BY DEF TypeOK
  <2>2. vehicles' \in [all -> [status : Statuses, at : centers \cup {None},
                               home : centers \cup {None}]]
    BY DEF TypeOK, Known, Statuses
  <2>3. /\ history' \in [all -> Seq(Statuses)]
        /\ byHand' \in [all -> Seq(Statuses)]
    BY DEF TypeOK, Known
  <2> QED
    BY <1>14, <2>1, <2>2, <2>3 DEF CreateVehicle, TypeOK
<1>15. CASE RemoveCenter
  <2>3. mishaps' \in 0..MaxMishaps
    <3>1. Mishap \/ UNCHANGED mishaps
      BY <1>15 DEF RemoveCenter
    <3> QED
      BY <3>1 DEF TypeOK, Mishap
  <2> PICK c \in centers :
        /\ centers' = centers \ {c}
        /\ vehicles' = [v \in DOMAIN vehicles |->
                          [vehicles[v] EXCEPT !.at = IF @ = c THEN None ELSE @,
                                              !.home = IF @ = c THEN None ELSE @]]
    BY <1>15 DEF RemoveCenter
  <2>1. DOMAIN vehicles' = DOMAIN vehicles
    OBVIOUS
  <2>4. ASSUME NEW v \in DOMAIN vehicles
        PROVE  vehicles'[v] \in [status : Statuses, at : centers' \cup {None},
                                 home : centers' \cup {None}]
    <3>1. /\ vehicles[v].status \in Statuses
          /\ vehicles[v].at \in centers \cup {None}
          /\ vehicles[v].home \in centers \cup {None}
          /\ vehicles[v] = [status |-> vehicles[v].status,
                            at |-> vehicles[v].at, home |-> vehicles[v].home]
      BY DEF TypeOK
    <3> QED
      BY <3>1
  <2>2. vehicles' \in [DOMAIN vehicles -> [status : Statuses,
                                           at : centers' \cup {None},
                                           home : centers' \cup {None}]]
    BY <2>4
  <2> QED
    BY <1>15, <2>1, <2>2, <2>3 DEF RemoveCenter, TypeOK
<1>16. CASE UNCHANGED vars
  BY <1>16 DEF vars, TypeOK
<1> QED
  BY <1>1, <1>2, <1>3, <1>4, <1>5, <1>6, <1>7, <1>8, <1>9, <1>10, <1>11,
     <1>12, <1>13, <1>14, <1>15, <1>16 DEF Next
-----------------------------------------------------------------------------
(* Counting the rows of the history with a status.                         *)
LEMMA CountAppend ==
  ASSUME NEW seq \in Seq(Statuses), NEW x, NEW s
  PROVE  /\ CountIn(seq, s) \in Nat
         /\ CountIn(Append(seq, x), s) =
              CountIn(seq, s) + IF x = s THEN 1 ELSE 0
<1> DEFINE rows == {i \in DOMAIN seq : seq[i] = s}
           after == {i \in DOMAIN Append(seq, x) : Append(seq, x)[i] = s}
           n == Len(seq) + 1
<1>1. Len(seq) \in Nat /\ DOMAIN seq = 1..Len(seq)
  OBVIOUS
<1>2. IsFiniteSet(1..Len(seq))
  BY <1>1, FS_Interval
<1>3. IsFiniteSet(rows)
  BY <1>1, <1>2, FS_Subset
<1>4. Cardinality(rows) \in Nat
  BY <1>3, FS_CardinalityType
<1>5. /\ DOMAIN Append(seq, x) = 1..n
      /\ Append(seq, x)[n] = x
      /\ \A i \in 1..Len(seq) : Append(seq, x)[i] = seq[i]
  OBVIOUS
<1>6. n \notin rows
  BY <1>1
<1>9. /\ CountIn(seq, s) = Cardinality(rows)
      /\ CountIn(Append(seq, x), s) = Cardinality(after)
  BY DEF CountIn
<1>7. CASE x = s
  <2>1. after = rows \cup {n}
    BY <1>1, <1>5, <1>7
  <2>2. Cardinality(rows \cup {n}) = Cardinality(rows) + 1
    BY <1>3, <1>6, FS_AddElement
  <2> QED
    BY <1>4, <1>7, <1>9, <2>1, <2>2
<1>8. CASE x # s
  <2>1. after = rows
    BY <1>1, <1>5, <1>8
  <2> QED
    <3> HIDE DEF rows, after
    <3> QED
      BY <1>4, <1>8, <1>9, <2>1
<1> QED
  BY <1>7, <1>8

LEMMA CountNone == \A s : CountIn(<<>>, s) = 0
<1>1. \A s : {i \in DOMAIN <<>> : <<>>[i] = s} = {}
  OBVIOUS
<1> QED
  BY <1>1, FS_EmptySet DEF CountIn

(* The requests that have yet to log are finitely many.                    *)
LEMMA UnloggedCount ==
  ASSUME IsFiniteSet(Requests), NEW sl, NEW v, NEW s
  PROVE  /\ IsFiniteSet(Unlogged(sl, v, s))
         /\ Cardinality(Unlogged(sl, v, s)) \in Nat
<1>1. Unlogged(sl, v, s) \in SUBSET Requests
  BY DEF Unlogged
<1> QED
  BY <1>1, FS_Subset, FS_CardinalityType

(* How that number changes when request r moves to frame g.                *)
LEMMA UnloggedMoves ==
  ASSUME TypeOK, IsFiniteSet(Requests), NEW r \in Requests, NEW STATE g,
         Goto(r, g), NEW v, NEW s
  PROVE  /\ (ToLog(g, v, s) <=> ToLog(slot[r], v, s)) =>
              Cardinality(Unlogged(slot', v, s)) =
                Cardinality(Unlogged(slot, v, s))
         /\ ToLog(g, v, s) /\ ~ ToLog(slot[r], v, s) =>
              Cardinality(Unlogged(slot', v, s)) =
                Cardinality(Unlogged(slot, v, s)) + 1
         /\ ~ ToLog(g, v, s) /\ ToLog(slot[r], v, s) =>
              Cardinality(Unlogged(slot', v, s)) =
                Cardinality(Unlogged(slot, v, s)) - 1
<1> PICK old, new :
      old = Unlogged(slot, v, s) /\ new = Unlogged(slot', v, s)
  OBVIOUS
<1>1. slot'[r] = g /\ \A q \in Requests : q # r => slot'[q] = slot[q]
  BY DEF Goto, TypeOK
<1>2. \A q : q # r => (q \in new <=> q \in old)
  BY <1>1 DEF Unlogged
<1>3. /\ r \in new <=> ToLog(g, v, s)
      /\ r \in old <=> ToLog(slot[r], v, s)
  BY <1>1 DEF Unlogged
<1>4. IsFiniteSet(old)
  BY UnloggedCount
<1>5. ASSUME r \in new <=> r \in old
      PROVE  new = old
  BY <1>2, <1>5
<1>6. ASSUME r \in new, r \notin old
      PROVE  Cardinality(new) = Cardinality(old) + 1
  <2>1. new = old \cup {r}
    BY <1>2, <1>6
  <2> QED
    BY <1>4, <1>6, <2>1, FS_AddElement
<1>7. ASSUME r \notin new, r \in old
      PROVE  Cardinality(new) = Cardinality(old) - 1
  <2>1. new = old \ {r}
    BY <1>2, <1>7
  <2> QED
    BY <1>4, <1>7, <2>1, FS_RemoveElement
<1> QED
  BY <1>3, <1>5, <1>6, <1>7
-----------------------------------------------------------------------------
(* What ManualChangesLogged says of vehicle v and status s, now and after  *)
(* a step.                                                                 *)
Logged(v, s) ==
  Covered(byHand[v], history[v], Cardinality(Unlogged(slot, v, s)), s)

LoggedNext(v, s) ==
  Covered(byHand'[v], history'[v], Cardinality(Unlogged(slot', v, s)), s)

LEMMA LoggedMeans ==
  ASSUME ManualChangesLogged, mishaps = 0, NEW v \in DOMAIN vehicles,
         NEW s \in Asked
  PROVE  Logged(v, s)
  BY DEF ManualChangesLogged, Logged, Covered, Unlogged, ToLog

LEMMA LoggedAfter ==
  ASSUME mishaps' = 0 =>
           \A v \in DOMAIN vehicles', s \in Asked : LoggedNext(v, s)
  PROVE  ManualChangesLogged'
  BY DEF ManualChangesLogged, LoggedNext, Covered, Unlogged, ToLog

(* The numbers Logged compares are natural.                                *)
LEMMA CountsAreNumbers ==
  ASSUME TypeOK, IsFiniteSet(Requests), NEW v \in DOMAIN vehicles, NEW s
  PROVE  /\ CountIn(byHand[v], s) \in Nat
         /\ CountIn(history[v], s) \in Nat
         /\ Cardinality(Unlogged(slot, v, s)) \in Nat
<1>1. byHand[v] \in Seq(Statuses) /\ history[v] \in Seq(Statuses)
  BY DEF TypeOK
<1> QED
  BY <1>1, CountAppend, UnloggedCount

(* Statements that leave the history and byHand of a vehicle alone.        *)
LEMMA LoggedStill ==
  ASSUME ManualChangesLogged,
         mishaps' = 0 => mishaps = 0,
         \A v \in DOMAIN vehicles' \cap DOMAIN vehicles :
           byHand'[v] = byHand[v] /\ history'[v] = history[v],
         \A v, s : Cardinality(Unlogged(slot', v, s)) =
                     Cardinality(Unlogged(slot, v, s)),
         DOMAIN vehicles' \subseteq DOMAIN vehicles
  PROVE  ManualChangesLogged'
<1>1. ASSUME mishaps' = 0, NEW v \in DOMAIN vehicles', NEW s \in Asked
      PROVE  LoggedNext(v, s)
  <2>1. Logged(v, s)
    BY <1>1, LoggedMeans
  <2> QED
    BY <2>1 DEF Logged, LoggedNext
<1> QED
  BY <1>1, LoggedAfter

(* A request that has nothing to log, before or after.                     *)
LEMMA LoggedAside ==
  ASSUME IInv, IsFiniteSet(Requests), NEW r \in Requests, NEW STATE g,
         Goto(r, g), slot[r].pc \notin {"logCenter", "log"},
         g.pc \notin {"logCenter", "log"},
         DOMAIN vehicles' = DOMAIN vehicles,
         UNCHANGED <<centers, history, byHand, mishaps>>
  PROVE  LogsStand' /\ ManualChangesLogged'
<1>1. \A v, s : Unlogged(slot', v, s) = Unlogged(slot, v, s)
  BY DEF Unlogged, ToLog, Goto, IInv, TypeOK
<1>2. ManualChangesLogged'
  BY <1>1, LoggedStill DEF IInv
<1>3. LogsStand'
  BY DEF LogsStand, Goto, IInv, TypeOK, At, Stands
<1> QED
  BY <1>2, <1>3

(* The UPDATE of the status: written once more, and about to be logged.    *)
LEMMA LoggedUpdate ==
  ASSUME IInv, IsFiniteSet(Requests), NEW r \in Requests, UpdateStatus(r)
  PROVE  LogsStand' /\ ManualChangesLogged'
<1> PICK f, g :
      /\ f = slot[r]
      /\ g = [pc |-> IF f.center = None THEN "log" ELSE "logCenter",
              vehicle |-> f.vehicle, status |-> f.status, center |-> f.center]
  OBVIOUS
<1>1. f.pc = "update"
  BY DEF UpdateStatus, At
<1>2. CASE ~ Stands(f.center)
  BY <1>1, <1>2, LoggedAside DEF UpdateStatus, Idle
<1>3. CASE Stands(f.center)
  <2>1. /\ Goto(r, g) /\ mishaps' = mishaps /\ history' = history
        /\ centers' = centers /\ DOMAIN vehicles' = DOMAIN vehicles
        /\ byHand' = [v \in DOMAIN vehicles |->
                        IF v = f.vehicle THEN Append(byHand[v], f.status)
                        ELSE byHand[v]]
    BY <1>3 DEF UpdateStatus
  <2>2. /\ ~ ToLog(f, f.vehicle, f.status) /\ ToLog(g, f.vehicle, f.status)
        /\ \A v, s : ToLog(g, v, s) <=> v = f.vehicle /\ s = f.status
        /\ \A v, s : ~ ToLog(f, v, s)
    BY <1>1 DEF ToLog
  <2>3. ASSUME mishaps = 0, NEW v \in DOMAIN vehicles, NEW s \in Asked
        PROVE  LoggedNext(v, s)
    <3> PICK b, b2, h, n, n2 :
          /\ b = CountIn(byHand[v], s) /\ b2 = CountIn(byHand'[v], s)
          /\ h = CountIn(history[v], s)
          /\ n = Cardinality(Unlogged(slot, v, s))
          /\ n2 = Cardinality(Unlogged(slot', v, s))
      OBVIOUS
    <3>1. b \in Nat /\ h \in Nat /\ n \in Nat /\ b <= h + n
      BY <2>3, CountsAreNumbers, LoggedMeans DEF IInv, Logged, Covered
    <3>2. CASE v = f.vehicle /\ s = f.status
      <4>1. n2 = n + 1
        BY <2>1, <2>2, <3>2, UnloggedMoves DEF IInv
      <4>2. byHand[v] \in Seq(Statuses) /\ byHand'[v] = Append(byHand[v], s)
        BY <2>1, <3>2 DEF IInv, TypeOK
      <4>3. b2 = b + 1
        BY <4>2, CountAppend
      <4> QED
        BY <2>1, <3>1, <4>1, <4>3 DEF LoggedNext, Covered
    <3>3. CASE v = f.vehicle /\ s # f.status
      <4>1. n2 = n
        BY <2>1, <2>2, <3>3, UnloggedMoves DEF IInv
      <4>2. /\ byHand[v] \in Seq(Statuses)
            /\ byHand'[v] = Append(byHand[v], f.status)
        BY <2>1, <3>3 DEF IInv, TypeOK
      <4>3. b2 = b
        BY <3>1, <3>3, <4>2, CountAppend
      <4> QED
        BY <2>1, <3>1, <4>1, <4>3 DEF LoggedNext, Covered
    <3>4. CASE v # f.vehicle
      <4>1. n2 = n
        BY <2>1, <2>2, <3>4, UnloggedMoves DEF IInv
      <4>2. byHand'[v] = byHand[v]
        BY <2>1, <3>4
      <4> QED
        BY <2>1, <3>1, <4>1, <4>2 DEF LoggedNext, Covered
    <3> QED
      BY <3>2, <3>3, <3>4
  <2>4. ManualChangesLogged'
    BY <2>1, <2>3, LoggedAfter
  <2>5. LogsStand'
    <3>1. g.pc = "log" => Stands(g.center)
      BY DEF Stands
    <3> QED
      BY <2>1, <3>1 DEF LogsStand, Goto, IInv, TypeOK, At, Stands
  <2> QED
    BY <2>4, <2>5
<1> QED
  BY <1>2, <1>3

(* logStatusChange looks the center up: what it will insert stands.        *)
LEMMA LoggedCenter ==
  ASSUME IInv, IsFiniteSet(Requests), NEW r \in Requests, LogCenter(r)
  PROVE  LogsStand' /\ ManualChangesLogged'
<1> PICK f, g :
      /\ f = slot[r]
      /\ g = [f EXCEPT !.pc = "log",
                       !.center = IF @ \in centers THEN @ ELSE None]
  OBVIOUS
<1>1. f.pc = "logCenter" /\ Goto(r, g)
      /\ UNCHANGED <<vehicles, centers, history, byHand, mishaps>>
  BY DEF LogCenter, At
<1>2. /\ g.pc = "log" /\ g.vehicle = f.vehicle /\ g.status = f.status
      /\ Stands(g.center)
  <2>1. f \in [pc : {"logCenter", "log"}, vehicle : Vehicles, status : Asked,
               center : Centers \cup {None}]
    BY <1>1, FrameAt DEF IInv
  <2> QED
    BY <2>1 DEF Stands
<1>3. \A v, s : ToLog(g, v, s) <=> ToLog(f, v, s)
  BY <1>1, <1>2 DEF ToLog
<1>4. \A v, s : Unlogged(slot', v, s) = Unlogged(slot, v, s)
  BY <1>1, <1>3 DEF Unlogged, Goto, IInv, TypeOK
<1>5. ManualChangesLogged'
  BY <1>1, <1>4, LoggedStill DEF IInv
<1>6. LogsStand'
  BY <1>1, <1>2 DEF LogsStand, Goto, IInv, TypeOK, At, Stands
<1> QED
  BY <1>5, <1>6

(* The INSERT of the history row.                                          *)
LEMMA LoggedLog ==
  ASSUME IInv, IsFiniteSet(Requests), NEW r \in Requests, Log(r)
  PROVE  LogsStand' /\ ManualChangesLogged'
<1> PICK f : f = slot[r]
  OBVIOUS
<1>1. /\ f.pc = "log" /\ Goto(r, Idle)
      /\ UNCHANGED <<vehicles, centers, byHand, mishaps>>
      /\ history' = [v \in DOMAIN vehicles |->
                       IF v = f.vehicle /\ Stands(f.center)
                       THEN Append(history[v], f.status) ELSE history[v]]
  BY DEF Log, At
<1>2. /\ \A v, s : ToLog(f, v, s) <=> v = f.vehicle /\ s = f.status
      /\ \A v, s : ~ ToLog(Idle, v, s)
  BY <1>1 DEF ToLog, Idle
<1>3. ASSUME mishaps = 0, NEW v \in DOMAIN vehicles, NEW s \in Asked
      PROVE  LoggedNext(v, s)
  <2> PICK b, h, h2, n, n2 :
        /\ b = CountIn(byHand[v], s) /\ h = CountIn(history[v], s)
        /\ h2 = CountIn(history'[v], s)
        /\ n = Cardinality(Unlogged(slot, v, s))
        /\ n2 = Cardinality(Unlogged(slot', v, s))
    OBVIOUS
  <2>1. b \in Nat /\ h \in Nat /\ n \in Nat /\ b <= h + n
    BY <1>3, CountsAreNumbers, LoggedMeans DEF IInv, Logged, Covered
  <2>2. Stands(f.center)
    BY <1>1, <1>3 DEF IInv, LogsStand, At
  <2>3. CASE v = f.vehicle /\ s = f.status
    <3>1. n2 = n - 1
      BY <1>1, <1>2, <2>3, UnloggedMoves DEF IInv
    <3>2. history[v] \in Seq(Statuses) /\ history'[v] = Append(history[v], s)
      BY <1>1, <2>2, <2>3 DEF IInv, TypeOK
    <3>3. h2 = h + 1
      BY <3>2, CountAppend
    <3> QED
      BY <1>1, <2>1, <3>1, <3>3 DEF LoggedNext, Covered
  <2>4. CASE v = f.vehicle /\ s # f.status
    <3>1. n2 = n
      BY <1>1, <1>2, <2>4, UnloggedMoves DEF IInv
    <3>2. /\ history[v] \in Seq(Statuses)
          /\ history'[v] = Append(history[v], f.status)
      BY <1>1, <2>2, <2>4 DEF IInv, TypeOK
    <3>3. h2 = h
      BY <2>1, <2>4, <3>2, CountAppend
    <3> QED
      BY <1>1, <2>1, <3>1, <3>3 DEF LoggedNext, Covered
  <2>5. CASE v # f.vehicle
    <3>1. n2 = n
      BY <1>1, <1>2, <2>5, UnloggedMoves DEF IInv
    <3>2. history'[v] = history[v]
      BY <1>1, <2>5
    <3> QED
      BY <1>1, <2>1, <3>1, <3>2 DEF LoggedNext, Covered
  <2> QED
    BY <2>3, <2>4, <2>5
<1>4. ManualChangesLogged'
  BY <1>1, <1>3, LoggedAfter
<1>5. LogsStand'
  BY <1>1 DEF LogsStand, Goto, IInv, TypeOK, At, Stands, Idle
<1> QED
  BY <1>4, <1>5

(* A step in which no request moves, and the sequences of the vehicles     *)
(* that are there after it as before are left alone.                       *)
LEMMA LoggedElsewhere ==
  ASSUME IInv, slot' = slot, mishaps' = 0 => mishaps = 0,
         \A v \in DOMAIN vehicles' \cap DOMAIN vehicles :
           byHand'[v] = byHand[v] /\ history'[v] = history[v],
         DOMAIN vehicles' \subseteq DOMAIN vehicles
  PROVE  ManualChangesLogged'
<1>1. \A v, s : Cardinality(Unlogged(slot', v, s)) =
                  Cardinality(Unlogged(slot, v, s))
  OBVIOUS
<1> QED
  BY <1>1, LoggedStill DEF IInv

(* A vehicle created again starts without a history, nothing written.      *)
LEMMA LoggedCreate ==
  ASSUME IInv, IsFiniteSet(Requests), CreateVehicle
  PROVE  ManualChangesLogged'
<1> PICK u \in Vehicles \ DOMAIN vehicles : \E all :
      /\ all = DOMAIN vehicles \cup {u}
      /\ vehicles' = [w \in all |->
                        IF Known(w) THEN vehicles[w]
                        ELSE [status |-> "AVAILABLE", at |-> None,
                              home |-> None]]
      /\ history' = [w \in all |-> IF Known(w) THEN history[w] ELSE <<>>]
      /\ byHand' = [w \in all |-> IF Known(w) THEN byHand[w] ELSE <<>>]
  BY DEF CreateVehicle
<1> PICK all :
      /\ all = DOMAIN vehicles \cup {u}
      /\ vehicles' = [w \in all |->
                        IF Known(w) THEN vehicles[w]
                        ELSE [status |-> "AVAILABLE", at |-> None,
                              home |-> None]]
      /\ history' = [w \in all |-> IF Known(w) THEN history[w] ELSE <<>>]
      /\ byHand' = [w \in all |-> IF Known(w) THEN byHand[w] ELSE <<>>]
  OBVIOUS
<1>1. DOMAIN vehicles' = all /\ mishaps' = mishaps /\ slot' = slot
  BY DEF CreateVehicle
<1>2. ASSUME mishaps = 0, NEW v \in all, NEW s \in Asked
      PROVE  LoggedNext(v, s)
  <2>1. CASE v \in DOMAIN vehicles
    <3>1. byHand'[v] = byHand[v] /\ history'[v] = history[v]
      BY <2>1 DEF Known
    <3>2. Logged(v, s)
      BY <1>2, <2>1, LoggedMeans DEF IInv
    <3> QED
      BY <1>1, <3>1, <3>2 DEF Logged, LoggedNext
  <2>2. CASE v \notin DOMAIN vehicles
    <3>1. byHand'[v] = <<>> /\ history'[v] = <<>>
      BY <2>2 DEF Known
    <3>2. CountIn(byHand'[v], s) = 0 /\ CountIn(history'[v], s) = 0
      BY <3>1, CountNone
    <3>3. Cardinality(Unlogged(slot', v, s)) \in Nat
      BY UnloggedCount
    <3> QED
      BY <3>2, <3>3 DEF LoggedNext, Covered
  <2> QED
    BY <2>1, <2>2
<1> QED
  BY <1>1, <1>2, LoggedAfter

LEMMA LoggedInitially == Init => LogsStand /\ ManualChangesLogged
<1> SUFFICES ASSUME Init
             PROVE  LogsStand /\ ManualChangesLogged
  OBVIOUS
<1>1. LogsStand
  BY DEF Init, LogsStand, At, Idle
<1>2. \A v \in DOMAIN vehicles, s \in Asked :
        /\ CountIn(byHand[v], s) = 0 /\ CountIn(history[v], s) = 0
        /\ {r \in Requests : /\ slot[r].pc \in {"logCenter", "log"}
                             /\ slot[r].vehicle = v /\ slot[r].status = s} = {}
  BY CountNone DEF Init, Idle
<1> QED
  BY <1>1, <1>2, FS_EmptySet DEF ManualChangesLogged

LEMMA TypeInitially == Init => TypeOK
<1> SUFFICES ASSUME Init
             PROVE  TypeOK
  OBVIOUS
<1>1. Idle \in Frame /\ "AVAILABLE" \in Statuses
  BY DEF Frame, Statuses
<1> QED
  BY <1>1, VehicleStatusAssumption DEF Init, TypeOK
-----------------------------------------------------------------------------
LEMMA LoggedStep ==
  ASSUME IsFiniteSet(Requests)
  PROVE  IInv /\ [Next]_vars => LogsStand' /\ ManualChangesLogged'
<1> SUFFICES ASSUME IInv, [Next]_vars
             PROVE  LogsStand' /\ ManualChangesLogged'
  OBVIOUS
<1>1. ASSUME NEW r \in Requests, ChangeStatus(r)
      PROVE  LogsStand' /\ ManualChangesLogged'
  <2> PICK g : Goto(r, g) /\ g.pc = "find"
    BY <1>1 DEF ChangeStatus
  <2> QED
    BY <1>1, LoggedAside DEF ChangeStatus, Idle
<1>2. ASSUME NEW r \in Requests, FindVehicle(r) \/ CheckCenter(r)
      PROVE  LogsStand' /\ ManualChangesLogged'
  <2>1. /\ slot[r].pc \notin {"logCenter", "log"}
        /\ UNCHANGED <<vehicles, centers, history, byHand, mishaps>>
    BY <1>2 DEF FindVehicle, CheckCenter, At
  <2>2. CASE Goto(r, Idle)
    BY <2>1, <2>2, LoggedAside DEF Idle
  <2>3. CASE \E c, row : UnlessUnchanged(r, c, row)
    <3> PICK c, row : UnlessUnchanged(r, c, row)
      BY <2>3
    <3>1. CASE Goto(r, [pc |-> "update", vehicle |-> slot[r].vehicle,
                        status |-> slot[r].status, center |-> c, row |-> row])
      BY <2>1, <3>1, LoggedAside
    <3> QED
      BY <2>2, <3>1 DEF UnlessUnchanged
  <2>4. CASE \E c, row :
               Goto(r, [pc |-> "checkCenter", vehicle |-> slot[r].vehicle,
                        status |-> slot[r].status, center |-> c, row |-> row])
    BY <2>1, <2>4, LoggedAside
  <2> QED
    BY <1>2, <2>2, <2>3, <2>4 DEF FindVehicle, CheckCenter
<1>3. ASSUME NEW r \in Requests, ChangeAssignment(r) \/ ChangePlace(r)
      PROVE  LogsStand' /\ ManualChangesLogged'
  <2>1. /\ slot[r] = Idle
        /\ UNCHANGED <<vehicles, centers, history, byHand, mishaps>>
    BY <1>3 DEF ChangeAssignment, ChangePlace
  <2>2. ASSUME NEW v, NEW c,
               NEW pc \in {"assignCenter", "assign", "placeCenter", "place"},
               Goto(r, [pc |-> pc, vehicle |-> v, center |-> c])
        PROVE  LogsStand' /\ ManualChangesLogged'
    BY <2>1, <2>2, LoggedAside DEF Idle
  <2>3. CASE ChangeAssignment(r)
    <3> PICK v \in DOMAIN vehicles :
          \/ \E c \in Centers :
               Goto(r, [pc |-> "assignCenter", vehicle |-> v, center |-> c])
          \/ \E c \in {None, vehicles[v].home} :
               Goto(r, [pc |-> "assign", vehicle |-> v, center |-> c])
      BY <2>3 DEF ChangeAssignment
    <3> QED
      BY <2>2
  <2>4. CASE ChangePlace(r)
    <3> PICK v \in DOMAIN vehicles :
          \/ \E c \in Centers :
               Goto(r, [pc |-> "placeCenter", vehicle |-> v, center |-> c])
          \/ Goto(r, [pc |-> "place", vehicle |-> v, center |-> None])
      BY <2>4 DEF ChangePlace
    <3> QED
      BY <2>2
  <2> QED
    BY <1>3, <2>3, <2>4
<1>4. ASSUME NEW r \in Requests, FindCenter(r)
      PROVE  LogsStand' /\ ManualChangesLogged'
  <2>1. slot[r] \in [pc : {"assignCenter", "assign", "placeCenter", "place"},
                     vehicle : Vehicles, center : Centers \cup {None}]
    BY <1>4, FrameAt DEF FindCenter, IInv
  <2> PICK g : Goto(r, g) /\ g.pc \notin {"logCenter", "log"}
    BY <1>4, <2>1 DEF FindCenter, Idle
  <2> QED
    BY <1>4, LoggedAside DEF FindCenter
<1>5. ASSUME NEW r \in Requests, Assign(r) \/ Place(r)
      PROVE  LogsStand' /\ ManualChangesLogged'
  <2>1. DOMAIN vehicles' = DOMAIN vehicles
    BY <1>5 DEF Assign, Place
  <2> QED
    BY <1>5, <2>1, LoggedAside DEF Assign, Place, At, Idle
<1>6. ASSUME NEW r \in Requests, Fail(r)
      PROVE  LogsStand' /\ ManualChangesLogged'
  <2>1. mishaps' # 0
    BY <1>6 DEF Fail, Mishap, IInv, TypeOK
  <2> QED
    BY <2>1 DEF LogsStand, ManualChangesLogged
<1>7. CASE TripEvent
  <2>1. DOMAIN vehicles' = DOMAIN vehicles
    BY <1>7 DEF TripEvent
  <2> QED
    BY <1>7, <2>1, LoggedElsewhere DEF TripEvent, IInv, LogsStand, At, Stands
<1>8. CASE RemoveVehicle
  <2>1. /\ DOMAIN vehicles' \subseteq DOMAIN vehicles
        /\ \A v \in DOMAIN vehicles' \cap DOMAIN vehicles :
             byHand'[v] = byHand[v] /\ history'[v] = history[v]
    BY <1>8 DEF RemoveVehicle, Without, IInv, TypeOK
  <2> QED
    BY <1>8, <2>1, LoggedElsewhere
       DEF RemoveVehicle, IInv, LogsStand, At, Stands
<1>9. CASE CreateVehicle
  <2>1. LogsStand'
    BY <1>9 DEF CreateVehicle, IInv, LogsStand, At, Stands
  <2> QED
    BY <1>9, <2>1, LoggedCreate
<1>10. CASE RemoveCenter
  <2>1. /\ DOMAIN vehicles' = DOMAIN vehicles
        /\ UNCHANGED <<history, byHand, slot>>
    BY <1>10 DEF RemoveCenter
  <2>2. PICK c \in centers :
          /\ centers' = centers \ {c}
          /\ IF \E r \in Requests : At(r, "log") /\ slot[r].center = c
             THEN Mishap ELSE UNCHANGED mishaps
    BY <1>10 DEF RemoveCenter
  <2>3. ASSUME mishaps' = 0
        PROVE  /\ mishaps = 0
               /\ \A r \in Requests : At(r, "log") => slot[r].center # c
    <3>1. mishaps \in Nat
      BY DEF IInv, TypeOK
    <3>2. ~ Mishap
      BY <2>3, <3>1 DEF Mishap
    <3> QED
      BY <2>2, <2>3, <3>2
  <2>4. LogsStand'
    BY <2>1, <2>2, <2>3 DEF IInv, LogsStand, At, Stands
  <2> QED
    BY <2>1, <2>3, <2>4, LoggedElsewhere
<1>11. CASE UNCHANGED vars
  BY <1>11, LoggedElsewhere DEF vars, IInv, LogsStand, At, Stands
<1> QED
  BY <1>1, <1>2, <1>3, <1>4, <1>5, <1>6, <1>7, <1>8, <1>9, <1>10, <1>11,
     LoggedUpdate, LoggedCenter, LoggedLog DEF Next

(* Vehicles, history and request frames keep their types; the centers a    *)
(* vehicle names stand, whatever is removed between the look-up of a       *)
(* center and the UPDATE.                                                  *)
THEOREM TypeCorrect == Spec => []TypeOK
  BY TypeInitially, TypeStep, PTL DEF Spec

(* As long as no statement fails, every status written by hand is in the   *)
(* history or about to be, with any number of requests at once, vehicles   *)
(* and centers being removed and created again in between.                 *)
THEOREM ChangesAreLogged ==
  ASSUME IsFiniteSet(Requests)
  PROVE  Spec => []ManualChangesLogged
<1>1. IInv /\ [Next]_vars => IInv'
  BY LoggedStep, TypeStep DEF IInv
<1>2. Init => IInv
  BY TypeInitially, LoggedInitially DEF IInv
<1>3. IInv => ManualChangesLogged
  BY DEF IInv
<1> QED
  BY <1>1, <1>2, <1>3, PTL DEF Spec
=============================================================================
