---------------------------- MODULE ListingProofs ----------------------------
(***************************************************************************)
(* Theorems about Listing, and so about QrCodes and Yard, whose steps are  *)
(* steps of it: the types of its state, that a label which was handed out  *)
(* can be scanned, the times of the processing stages, and that the pages  *)
(* of a listing leave nothing out.                                         *)
(***************************************************************************)
EXTENDS Listing, FiniteSetTheorems, SequenceTheorems, WellFoundedInduction,
        TLAPS

Frames == {Idle} \cup QrFrame \cup YardFrame

Arrival == [vehicle : Vehicles, center : Centers, agent : Agents,
            status : ArrivalStatuses, at : Nat \ {0}]

Exit == [vehicle : Vehicles, center : Centers, agent : Agents,
         destination : Centers \cup {None}, at : Nat \ {0}]

(* Table qr_codes, the key and the labels.                                 *)
CodesOK ==
  /\ DOMAIN qrCodes \subseteq Vehicles
  /\ qrCodes \in [DOMAIN qrCodes -> Row]
  /\ key \in Nat \ {Plain}
  /\ labels \subseteq Vehicles
  /\ served \in 0..MaxRequests
  /\ mishaps \in 0..MaxMishaps

(* The other tables, and what their foreign keys say of them.              *)
TablesOK ==
  /\ vehicles \in Seq(Vehicles)
  /\ centers \in Seq(Centers)
  /\ users \in Seq(Agents)
  /\ lastId \in Nat
  /\ DOMAIN arrivals \subseteq 1..lastId
  /\ arrivals \in [DOMAIN arrivals -> Arrival]
  /\ \A i \in DOMAIN arrivals : Stands(arrivals[i])
  /\ DOMAIN exits \subseteq 1..lastId
  /\ exits \in [DOMAIN exits -> Exit]
  /\ \A i \in DOMAIN exits :
       Stands(exits[i]) /\ exits[i].destination \in ToSet(centers) \cup {None}
  /\ DOMAIN stages \subseteq 1..lastId
  /\ stages \in [DOMAIN stages -> Stage]
  /\ \A i \in DOMAIN stages : stages[i].arrival \in DOMAIN arrivals
  /\ raced \subseteq DOMAIN stages

SlotsOK == slot \in [Requests -> Frames]

(* A walk that is over keeps nothing, whatever becomes of the tables.      *)
WalkTyped(w) ==
  /\ w = [pc |-> w.pc, table |-> w.table, related |-> w.related,
          again |-> w.again, page |-> w.page, total |-> w.total, got |-> w.got,
          seen |-> w.seen, kept |-> w.kept,
          skipped |-> w.skipped]
  /\ w.pc \in {"idle", "count", "ids", "rows", "related", "fallback"}
  /\ w.table \in Tables
  /\ w.related \in BOOLEAN /\ w.again \in SUBSET {"count", "rows"}
  /\ w.page \in Nat \ {0} /\ w.total \in Nat
  /\ w.pc = "idle" => w.kept = {}

WalkOK == WalkTyped(walk) /\ walk.kept \subseteq Ids(walk.table)

Rewrites == {"encrypt", "rewrite", "upgrade"}

(* A request that has read a row and is about to write it by its id.  If   *)
(* the row has another id by now, it is a newer one, and needs no writing. *)
NeedsNoOther(f) ==
  f.pc \in Rewrites /\ f.vehicle \in DOMAIN qrCodes =>
    qrCodes[f.vehicle].id = f.id \/ qrCodes[f.vehicle].content = key

CodesInv ==
  /\ CodesOK
  /\ lastId \in Nat
  /\ SlotsOK
  /\ \A r \in Requests : NeedsNoOther(slot[r])
  /\ PrintedCodeScans
-----------------------------------------------------------------------------
QrOps == {"generate", "regenerate", "delete"}

LEMMA QrFrameAt ==
  ASSUME NEW f \in Frames
  PROVE  /\ f.pc \in {"vehicle", "code", "insert"} =>
              f \in [pc : {"vehicle", "code", "insert"}, op : QrOps,
                     vehicle : Vehicles, rest : Seq(Vehicles)]
         /\ f.pc \in {"encrypt", "rewrite", "delete"} =>
              f \in [pc : {"encrypt", "rewrite", "delete"}, op : QrOps,
                     vehicle : Vehicles, rest : Seq(Vehicles), id : Nat]
         /\ f.pc \in {"scan", "scanAll", "reread"} =>
              f \in [pc : {"scan", "scanAll", "reread"}, vehicle : Vehicles]
         /\ f.pc = "upgrade" =>
              f \in [pc : {"upgrade"}, vehicle : Vehicles, id : Nat]
<1>1. CASE f \in QrFrame
  BY <1>1 DEF QrFrame, QrOps
<1>2. CASE f \in YardFrame
  BY <1>2 DEF YardFrame
<1>3. CASE f = Idle
  BY <1>3 DEF Idle
<1> QED
  BY <1>1, <1>2, <1>3 DEF Frames

LEMMA YardFrameAt ==
  ASSUME NEW f \in Frames
  PROVE  /\ f.pc \in {"checkVehicle", "checkCenter", "checkDest", "record"} =>
              f \in [pc : {"checkVehicle", "checkCenter", "checkDest", "record"},
                     table : {"arrivals", "exits"}, vehicle : Vehicles,
                     center : Centers, agent : Agents,
                     destination : Centers \cup {None}]
         /\ f.pc = "setStatus" =>
              f \in [pc : {"findArrival", "setStatus"}, then : {"setStatus"},
                     arrival : Nat, status : ArrivalStatuses]
         /\ f.pc = "addStage" =>
              f \in [pc : {"findArrival", "addStage"}, then : {"addStage"},
                     arrival : Nat, status : ArrivalStatuses \cup {None}]
         /\ f.pc \in {"findStage", "removeStage"} =>
              f \in [pc : {"findArrival", "findStage", "removeStage"},
                     then : {"removeStage", "updateStage"}, arrival : Nat,
                     stage : Nat, status : ArrivalStatuses \cup {None}]
         /\ f.pc = "findArrival" =>
              \/ f \in [pc : {"findArrival", "setStatus"},
                        then : {"setStatus"}, arrival : Nat,
                        status : ArrivalStatuses]
              \/ f \in [pc : {"findArrival", "addStage"},
                        then : {"addStage"}, arrival : Nat,
                        status : ArrivalStatuses \cup {None}]
              \/ f \in [pc : {"findArrival", "findStage", "removeStage"},
                        then : {"removeStage", "updateStage"}, arrival : Nat,
                        stage : Nat, status : ArrivalStatuses \cup {None}]
         /\ f.pc = "updateStage" =>
              f \in [pc : {"updateStage"}, stage : Nat,
                     status : ArrivalStatuses \cup {None}, row : Stage]
         /\ f.pc \in {"findExit", "findDest", "updateExit"} =>
              f \in [pc : {"findExit", "findDest", "updateExit"}, exit : Nat,
                     destination : Centers \cup {None}]
         /\ f.pc \in {"findRemoved", "removeExit"} =>
              f \in [pc : {"findRemoved", "removeExit"}, exit : Nat]
<1>1. CASE f \in QrFrame
  BY <1>1 DEF QrFrame, QrOps
<1>2. CASE f \in YardFrame
  BY <1>2 DEF YardFrame
<1>3. CASE f = Idle
  BY <1>3 DEF Idle
<1> QED
  BY <1>1, <1>2, <1>3 DEF Frames

(* What goes on with one request leaves the others alone.                  *)
LEMMA GotoOne ==
  ASSUME SlotsOK, NEW r \in Requests, NEW g \in Frames, Goto(r, g)
  PROVE  /\ SlotsOK'
         /\ slot'[r] = g
         /\ \A s \in Requests \ {r} : slot'[s] = slot[s]
BY DEF SlotsOK, Goto

LEMMA YardRewritesNothing ==
  ASSUME NEW g \in YardFrame \cup {Idle}
  PROVE  g \in Frames /\ g.pc \notin Rewrites
BY DEF YardFrame, Idle, Frames, Rewrites

(* Steps that write no code.                                               *)
LEMMA CodesStay ==
  ASSUME CodesInv, NEW r \in Requests, NEW g \in Frames, Goto(r, g),
         NeedsNoOther(g), qrCodes' = qrCodes, key' = key,
         labels' \subseteq labels \cup {v \in Vehicles : Scans(v)},
         served' \in 0..MaxRequests, mishaps' \in 0..MaxMishaps, lastId' \in Nat
  PROVE  CodesInv'
<1>1. SlotsOK' /\ slot'[r] = g /\ \A s \in Requests \ {r} : slot'[s] = slot[s]
  BY GotoOne DEF CodesInv
<1>2. CodesOK'
  BY DEF CodesInv, CodesOK
<1>3. PrintedCodeScans'
  BY DEF CodesInv, PrintedCodeScans, Scans, Readable
<1>4. ASSUME NEW s \in Requests
      PROVE  NeedsNoOther(slot[s])'
  <2>1. NeedsNoOther(slot'[s])
    BY <1>1 DEF CodesInv
  <2> QED
    BY <2>1 DEF NeedsNoOther
<1> QED
  BY <1>1, <1>2, <1>3, <1>4 DEF CodesInv

(* Where a request with vehicles left to do goes.                          *)
LEMMA NextVehicleGoes ==
  ASSUME SlotsOK, NEW r \in Requests, NextVehicle(r),
         slot[r].rest \in Seq(Vehicles)
  PROVE  \E g \in Frames : Goto(r, g) /\ g.pc \notin Rewrites
<1> DEFINE g == IF slot[r].rest = <<>> THEN Idle
                ELSE [pc |-> "vehicle", op |-> "generate",
                      vehicle |-> Head(slot[r].rest),
                      rest |-> Tail(slot[r].rest)]
<1>1. g \in Frames /\ g.pc \notin Rewrites
  <2>1. CASE slot[r].rest = <<>>
    BY <2>1 DEF Frames, Idle, Rewrites
  <2>2. CASE slot[r].rest # <<>>
    <3>1. Head(slot[r].rest) \in Vehicles /\ Tail(slot[r].rest) \in Seq(Vehicles)
      BY <2>2, HeadTailProperties
    <3> QED
      BY <2>2, <3>1 DEF Frames, QrFrame, Rewrites
  <2> QED
    BY <2>1, <2>2
<1>2. Goto(r, g)
  BY DEF NextVehicle
<1> QED
  BY <1>1, <1>2

(* A request begins.                                                       *)
LEMMA Begins ==
  ASSUME CodesInv, NEW r \in Requests, NEW g \in Frames, Begin(r, g),
         g.pc \notin Rewrites,
         UNCHANGED <<qrCodes, lastId, key, labels, mishaps>>
  PROVE  CodesInv'
<1>1. served' \in 0..MaxRequests /\ Goto(r, g)
  BY QrCodesAssumption DEF Begin, CodesInv, CodesOK
<1>2. mishaps' \in 0..MaxMishaps /\ lastId' \in Nat /\ NeedsNoOther(g)
  BY DEF CodesInv, CodesOK, NeedsNoOther
<1> QED
  BY <1>1, <1>2, CodesStay

(* A request goes on, and may hand out a label, but writes nothing.        *)
LEMMA GoesOn ==
  ASSUME CodesInv, NEW r \in Requests,
         \E g \in Frames : Goto(r, g) /\ g.pc \notin Rewrites,
         qrCodes' = qrCodes, key' = key, served' = served,
         mishaps' \in 0..MaxMishaps, lastId' \in Nat,
         labels' \subseteq labels \cup {v \in Vehicles : Scans(v)}
  PROVE  CodesInv'
<1> PICK g \in Frames : Goto(r, g) /\ g.pc \notin Rewrites
  OBVIOUS
<1>1. served' \in 0..MaxRequests /\ NeedsNoOther(g)
  BY DEF CodesInv, CodesOK, NeedsNoOther
<1> QED
  BY <1>1, CodesStay

LEMMA CallQrCodeOK ==
  ASSUME CodesInv, NEW r \in Requests, CallQrCode(r) \/ BulkGenerate(r)
  PROVE  CodesInv'
<1>1. CASE CallQrCode(r)
  <2> PICK v \in Vehicles, op \in QrOps :
        Begin(r, [pc |-> "vehicle", op |-> op, vehicle |-> v, rest |-> <<>>])
    BY <1>1 DEF CallQrCode, QrOps
  <2> DEFINE g == [pc |-> "vehicle", op |-> op, vehicle |-> v, rest |-> <<>>]
  <2>1. g \in Frames /\ g.pc \notin Rewrites
    BY DEF Frames, QrFrame, QrOps, Rewrites
  <2> QED
    BY <1>1, <2>1, Begins DEF CallQrCode
<1>2. CASE BulkGenerate(r)
  <2> PICK v \in Vehicles, w \in Vehicles :
        Begin(r, [pc |-> "vehicle", op |-> "generate", vehicle |-> v,
                  rest |-> <<w>>])
    BY <1>2 DEF BulkGenerate
  <2> DEFINE g == [pc |-> "vehicle", op |-> "generate", vehicle |-> v,
                   rest |-> <<w>>]
  <2>1. g \in Frames /\ g.pc \notin Rewrites
    BY DEF Frames, QrFrame, Rewrites
  <2> QED
    BY <1>2, <2>1, Begins DEF BulkGenerate
<1> QED
  BY <1>1, <1>2

LEMMA SelectVehicleOK ==
  ASSUME CodesInv, NEW r \in Requests, SelectVehicle(r)
  PROVE  CodesInv'
<1> PICK f \in Frames : f = slot[r]
  BY DEF CodesInv, SlotsOK
<1>1. f \in [pc : {"vehicle", "code", "insert"}, op : QrOps,
             vehicle : Vehicles, rest : Seq(Vehicles)]
  BY QrFrameAt DEF SelectVehicle, At
<1>2. \E g \in Frames : Goto(r, g) /\ g.pc \notin Rewrites
  <2>1. CASE Known(f.vehicle)
    <3>1. Goto(r, [f EXCEPT !.pc = "code"])
      BY <2>1 DEF SelectVehicle
    <3>2. [f EXCEPT !.pc = "code"] \in Frames
          /\ [f EXCEPT !.pc = "code"].pc \notin Rewrites
      BY <1>1 DEF Frames, QrFrame, QrOps, Rewrites
    <3> QED
      BY <3>1, <3>2
  <2>2. CASE ~ Known(f.vehicle)
    BY <1>1, <2>2, NextVehicleGoes DEF SelectVehicle, CodesInv
  <2> QED
    BY <2>1, <2>2
<1> QED
  BY <1>2, GoesOn DEF SelectVehicle, CodesInv, CodesOK

(* The row is read, and with it the id that its UPDATE or its DELETE names. *)
LEMMA ReadsId ==
  ASSUME CodesInv, NEW r \in Requests, NEW f \in Frames, f = slot[r],
         f \in [pc : {"vehicle", "code", "insert"}, op : QrOps,
                vehicle : Vehicles, rest : Seq(Vehicles)],
         f.vehicle \in DOMAIN qrCodes,
         NEW pc \in {"encrypt", "rewrite", "delete"}, WithId(r, pc),
         UNCHANGED <<qrCodes, lastId, key, labels, served, mishaps>>
  PROVE  CodesInv'
<1> DEFINE g == [pc |-> pc, op |-> f.op, vehicle |-> f.vehicle,
                 rest |-> f.rest, id |-> qrCodes[f.vehicle].id]
<1>1. qrCodes[f.vehicle].id \in Nat
  BY DEF CodesInv, CodesOK, Row
<1>2. g \in [pc : {"encrypt", "rewrite", "delete"}, op : QrOps,
             vehicle : Vehicles, rest : Seq(Vehicles), id : Nat]
  BY <1>1
<1>3. g \in Frames
  BY <1>2 DEF Frames, QrFrame, QrOps
<1>4. Goto(r, g) /\ NeedsNoOther(g)
  BY DEF WithId, NeedsNoOther
<1>5. served' \in 0..MaxRequests /\ mishaps' \in 0..MaxMishaps /\ lastId' \in Nat
  BY DEF CodesInv, CodesOK
<1> HIDE DEF g
<1> QED
  BY <1>3, <1>4, <1>5, CodesStay

LEMMA SelectCodeOK ==
  ASSUME CodesInv, NEW r \in Requests, SelectCode(r)
  PROVE  CodesInv'
<1> PICK f \in Frames : f = slot[r]
  BY DEF CodesInv, SlotsOK
<1>1. f \in [pc : {"vehicle", "code", "insert"}, op : QrOps,
             vehicle : Vehicles, rest : Seq(Vehicles)]
  BY QrFrameAt DEF SelectCode, At
<1>2. /\ UNCHANGED <<qrCodes, lastId, key, served, mishaps>>
      /\ mishaps' \in 0..MaxMishaps /\ lastId' \in Nat
  BY DEF SelectCode, CodesInv, CodesOK
<1>3. CASE /\ f.vehicle \notin DOMAIN qrCodes /\ f.op = "delete"
           /\ Goto(r, Idle) /\ UNCHANGED labels
  <2>1. Idle \in Frames /\ Idle.pc \notin Rewrites
    BY DEF Frames, Idle, Rewrites
  <2> QED
    BY <1>2, <1>3, <2>1, GoesOn
<1>4. CASE /\ f.vehicle \notin DOMAIN qrCodes /\ f.op # "delete"
           /\ Goto(r, [f EXCEPT !.pc = "insert"]) /\ UNCHANGED labels
  <2>1. [f EXCEPT !.pc = "insert"] \in Frames
        /\ [f EXCEPT !.pc = "insert"].pc \notin Rewrites
    BY <1>1 DEF Frames, QrFrame, QrOps, Rewrites
  <2> QED
    BY <1>2, <1>4, <2>1, GoesOn
<1>5. CASE /\ f.vehicle \in DOMAIN qrCodes
           /\ \E pc \in {"encrypt", "rewrite", "delete"} : WithId(r, pc)
           /\ UNCHANGED labels
  BY <1>1, <1>2, <1>5, ReadsId
<1>6. CASE /\ f.vehicle \in DOMAIN qrCodes /\ ~ NeedsEncryption(qrCodes[f.vehicle])
           /\ NextVehicle(r) /\ labels' = labels \cup {f.vehicle}
  <2>1. Scans(f.vehicle) /\ f.vehicle \in Vehicles
    BY <1>1, <1>6 DEF Scans, NeedsEncryption
  <2>2. \E g \in Frames : Goto(r, g) /\ g.pc \notin Rewrites
    BY <1>1, <1>6, NextVehicleGoes DEF CodesInv
  <2> QED
    BY <1>2, <1>6, <2>1, <2>2, GoesOn
<1> QED
  BY <1>3, <1>4, <1>5, <1>6 DEF SelectCode

(* The row is written by its id, or by then there is a newer row, or none. *)
LEMMA EncryptedOK ==
  ASSUME CodesInv, NEW r \in Requests, NEW g \in Frames, Goto(r, g),
         g.pc \notin Rewrites,
         slot[r].pc \in Rewrites, slot[r].vehicle \in Vehicles,
         qrCodes' = Encrypted(slot[r].vehicle, slot[r].id),
         \/ labels' = labels
         \/ HandOut(slot[r].vehicle),
         UNCHANGED <<lastId, key, served, mishaps>>
  PROVE  CodesInv'
<1> PICK v, id : v = slot[r].vehicle /\ id = slot[r].id
  OBVIOUS
<1>1. SlotsOK' /\ slot'[r] = g /\ \A s \in Requests \ {r} : slot'[s] = slot[s]
  BY GotoOne DEF CodesInv
<1>2. /\ DOMAIN qrCodes' = DOMAIN qrCodes
      /\ \A w \in DOMAIN qrCodes :
           /\ qrCodes'[w] \in Row
           /\ qrCodes'[w].id = qrCodes[w].id
           /\ w # v => qrCodes'[w] = qrCodes[w]
           /\ w = v => qrCodes'[w].content = key
  <2>1. \A w \in DOMAIN qrCodes : qrCodes[w] \in Row
    BY DEF CodesInv, CodesOK
  <2>2. v \in DOMAIN qrCodes => qrCodes[v].id = id \/ qrCodes[v].content = key
    BY DEF CodesInv, NeedsNoOther
  <2>3. key \in Nat
    BY DEF CodesInv, CodesOK
  <2>4. CASE v \in DOMAIN qrCodes /\ qrCodes[v].id = id
    <3>1. qrCodes' = [qrCodes EXCEPT ![v].content = key]
      BY <2>4 DEF Encrypted
    <3> QED
      BY <2>1, <2>3, <2>4, <3>1 DEF CodesInv, CodesOK, Row
  <2>5. CASE ~ (v \in DOMAIN qrCodes /\ qrCodes[v].id = id)
    BY <2>1, <2>2, <2>5 DEF Encrypted
  <2> QED
    BY <2>4, <2>5
<1>3. labels' = labels \/ (v \in DOMAIN qrCodes /\ labels' = labels \cup {v})
  BY <1>2 DEF HandOut
<1>4. CodesOK'
  <2>1. qrCodes' \in [DOMAIN qrCodes' -> Row]
    <3>1. qrCodes' = [w \in DOMAIN qrCodes' |-> qrCodes'[w]]
      BY DEF Encrypted, CodesInv, CodesOK
    <3> QED
      BY <1>2, <3>1
  <2> QED
    BY <1>2, <1>3, <2>1 DEF CodesInv, CodesOK
<1>5. PrintedCodeScans'
  <2>1. \A w \in labels' : w \in DOMAIN qrCodes' /\ qrCodes'[w].content \in {Plain, key}
    BY <1>2, <1>3 DEF CodesInv, PrintedCodeScans, Scans, Readable
  <2> QED
    BY <2>1 DEF PrintedCodeScans, Scans, Readable
<1>6. ASSUME NEW s \in Requests
      PROVE  NeedsNoOther(slot[s])'
  <2>1. slot'[s].pc \in Rewrites => slot'[s] = slot[s] /\ NeedsNoOther(slot[s])
    BY <1>1 DEF CodesInv
  <2> QED
    BY <1>2, <2>1 DEF NeedsNoOther
<1> QED
  BY <1>1, <1>4, <1>5, <1>6 DEF CodesInv

LEMMA RewriteCodeOK ==
  ASSUME CodesInv, NEW r \in Requests, RewriteCode(r)
  PROVE  CodesInv'
<1> PICK f \in Frames : f = slot[r]
  BY DEF CodesInv, SlotsOK
<1>1. f \in [pc : {"encrypt", "rewrite", "delete"}, op : QrOps,
             vehicle : Vehicles, rest : Seq(Vehicles), id : Nat]
  BY QrFrameAt DEF RewriteCode
<1>2. \E g \in Frames : Goto(r, g) /\ g.pc \notin Rewrites
  BY <1>1, NextVehicleGoes DEF RewriteCode, CodesInv
<1>3. f.pc \in Rewrites
  BY DEF RewriteCode, Rewrites
<1> QED
  BY <1>1, <1>2, <1>3, EncryptedOK DEF RewriteCode

LEMMA UpgradeOK ==
  ASSUME CodesInv, NEW r \in Requests, Upgrade(r)
  PROVE  CodesInv'
<1> PICK f \in Frames : f = slot[r]
  BY DEF CodesInv, SlotsOK
<1>1. f \in [pc : {"upgrade"}, vehicle : Vehicles, id : Nat]
  BY QrFrameAt DEF Upgrade, At
<1> DEFINE g == [pc |-> "reread", vehicle |-> f.vehicle]
<1>2. g \in Frames /\ g.pc \notin Rewrites
  BY <1>1 DEF Frames, QrFrame, Rewrites
<1>3. f.pc \in Rewrites /\ Goto(r, g)
  BY DEF Upgrade, At, Rewrites
<1> QED
  BY <1>1, <1>2, <1>3, EncryptedOK DEF Upgrade

LEMMA InsertCodeOK ==
  ASSUME CodesInv, NEW r \in Requests, InsertCode(r)
  PROVE  CodesInv'
<1> PICK f \in Frames : f = slot[r]
  BY DEF CodesInv, SlotsOK
<1>1. f \in [pc : {"vehicle", "code", "insert"}, op : QrOps,
             vehicle : Vehicles, rest : Seq(Vehicles)]
  BY QrFrameAt DEF InsertCode, At
<1>2. \E g \in Frames : Goto(r, g) /\ g.pc \notin Rewrites
  BY <1>1, NextVehicleGoes DEF InsertCode, CodesInv
<1> PICK g \in Frames : Goto(r, g) /\ g.pc \notin Rewrites
  BY <1>2
<1>3. CASE f.vehicle \in DOMAIN qrCodes
  BY <1>2, <1>3, GoesOn DEF InsertCode, CodesInv, CodesOK
<1>4. CASE f.vehicle \notin DOMAIN qrCodes
  <2> PICK v : v = f.vehicle
    OBVIOUS
  <2>1. /\ lastId' = lastId + 1 /\ key' = key
        /\ served' = served /\ mishaps' = mishaps
        /\ qrCodes' = [w \in DOMAIN qrCodes \cup {v} |->
                         IF w = v THEN [id |-> lastId + 1, content |-> key]
                         ELSE qrCodes[w]]
        /\ HandOut(v)
    BY <1>4 DEF InsertCode
  <2>2. v \in DOMAIN qrCodes' /\ labels' = labels \cup {v}
    BY <2>1 DEF HandOut
  <2>3. SlotsOK' /\ slot'[r] = g /\ \A s \in Requests \ {r} : slot'[s] = slot[s]
    BY GotoOne DEF CodesInv
  <2>4. CodesOK' /\ lastId' \in Nat
    BY <1>1, <2>1, <2>2 DEF CodesInv, CodesOK, Row
  <2>5. PrintedCodeScans'
    <3>1. \A w \in labels' : w \in DOMAIN qrCodes' /\ qrCodes'[w].content \in {Plain, key}
      BY <2>1, <2>2 DEF CodesInv, PrintedCodeScans, Scans, Readable
    <3> QED
      BY <2>1, <3>1 DEF PrintedCodeScans, Scans, Readable
  <2>6. ASSUME NEW s \in Requests
        PROVE  NeedsNoOther(slot[s])'
    <3>1. slot'[s].pc \in Rewrites => slot'[s] = slot[s] /\ NeedsNoOther(slot[s])
      BY <2>3 DEF CodesInv
    <3> QED
      BY <2>1, <3>1 DEF NeedsNoOther
  <2> QED
    BY <2>3, <2>4, <2>5, <2>6 DEF CodesInv
<1> QED
  BY <1>3, <1>4

LEMMA DeleteCodeOK ==
  ASSUME CodesInv, NEW r \in Requests, DeleteCode(r)
  PROVE  CodesInv'
<1> PICK gone \in SUBSET DOMAIN qrCodes :
      /\ qrCodes' = [v \in DOMAIN qrCodes \ gone |-> qrCodes[v]]
      /\ labels' = labels \ gone
  BY DEF DeleteCode
<1>1. /\ Goto(r, Idle) /\ key' = key /\ lastId' = lastId
      /\ served' = served /\ mishaps' = mishaps
  BY DEF DeleteCode
<1>2. Idle \in Frames /\ Idle.pc \notin Rewrites
  BY DEF Frames, Idle, Rewrites
<1>3. SlotsOK' /\ slot'[r] = Idle /\ \A s \in Requests \ {r} : slot'[s] = slot[s]
  BY <1>1, <1>2, GotoOne DEF CodesInv
<1>4. CodesOK' /\ lastId' \in Nat
  BY <1>1 DEF CodesInv, CodesOK
<1>5. PrintedCodeScans'
  BY <1>1 DEF CodesInv, PrintedCodeScans, Scans, Readable
<1>6. ASSUME NEW s \in Requests
      PROVE  NeedsNoOther(slot[s])'
  <2>1. slot'[s].pc \in Rewrites => slot'[s] = slot[s] /\ NeedsNoOther(slot[s])
    BY <1>2, <1>3 DEF CodesInv
  <2> QED
    BY <1>1, <2>1 DEF NeedsNoOther
<1> QED
  BY <1>3, <1>4, <1>5, <1>6 DEF CodesInv

LEMMA ValidateOK ==
  ASSUME CodesInv, NEW r \in Requests, Validate(r)
  PROVE  CodesInv'
<1> PICK v \in Vehicles : Begin(r, [pc |-> "scan", vehicle |-> v])
  BY DEF Validate
<1> DEFINE g == [pc |-> "scan", vehicle |-> v]
<1>1. g \in Frames /\ g.pc \notin Rewrites
  BY DEF Frames, QrFrame, Rewrites
<1> QED
  BY <1>1, Begins DEF Validate

LEMMA ScanOK ==
  ASSUME CodesInv, NEW r \in Requests, Scan(r)
  PROVE  CodesInv'
<1> PICK f \in Frames : f = slot[r]
  BY DEF CodesInv, SlotsOK
<1>1. f \in [pc : {"scan", "scanAll", "reread"}, vehicle : Vehicles]
  BY QrFrameAt DEF Scan
<1>2. /\ UNCHANGED <<qrCodes, lastId, key, served, mishaps>>
      /\ served' \in 0..MaxRequests /\ mishaps' \in 0..MaxMishaps /\ lastId' \in Nat
  BY DEF Scan, CodesInv, CodesOK
<1>3. CASE ~ Scans(f.vehicle)
  <2> DEFINE g == IF f.pc = "scan" THEN [f EXCEPT !.pc = "scanAll"] ELSE Idle
  <2>1. Goto(r, g) /\ labels' = labels
    BY <1>3 DEF Scan, At
  <2>2. g \in Frames /\ g.pc \notin Rewrites
    BY <1>1 DEF Frames, QrFrame, Idle, Rewrites
  <2> QED
    BY <1>2, <2>1, <2>2, GoesOn
<1>4. CASE Scans(f.vehicle)
  <2> PICK v \in Vehicles : v = f.vehicle
    BY <1>1
  <2> DEFINE g == IF IsPlain(qrCodes[v])
                  THEN [pc |-> "upgrade", vehicle |-> v, id |-> qrCodes[v].id]
                  ELSE [pc |-> "reread", vehicle |-> v]
  <2>1. Goto(r, g) /\ labels' = labels \cup {v}
    BY <1>4 DEF Scan, Match
  <2>2. v \in DOMAIN qrCodes /\ qrCodes[v].id \in Nat
    BY <1>4 DEF CodesInv, CodesOK, Row, Scans
  <2>3. g \in Frames
    BY <2>2 DEF Frames, QrFrame
  <2>4. NeedsNoOther(g)
    BY DEF NeedsNoOther, Rewrites
  <2>5. labels' \subseteq labels \cup {w \in Vehicles : Scans(w)}
    BY <1>4, <2>1
  <2> HIDE DEF g
  <2> QED
    BY <1>2, <2>1, <2>3, <2>4, <2>5, CodesStay
<1> QED
  BY <1>3, <1>4

LEMMA RereadOK ==
  ASSUME CodesInv, NEW r \in Requests, Reread(r)
  PROVE  CodesInv'
<1>1. Idle \in Frames /\ Idle.pc \notin Rewrites
  BY DEF Frames, Idle, Rewrites
<1> QED
  BY <1>1, GoesOn DEF Reread, CodesInv, CodesOK

LEMMA FailQrCodeOK ==
  ASSUME CodesInv, NEW r \in Requests, FailQrCode(r)
  PROVE  CodesInv'
<1> PICK f \in Frames : f = slot[r]
  BY DEF CodesInv, SlotsOK
<1>1. mishaps' \in 0..MaxMishaps /\ served' \in 0..MaxRequests /\ lastId' \in Nat
  BY QrCodesAssumption DEF FailQrCode, CodesInv, CodesOK
<1>2. CASE f.pc = "encrypt"
  <2>1. f \in [pc : {"encrypt", "rewrite", "delete"}, op : QrOps,
               vehicle : Vehicles, rest : Seq(Vehicles), id : Nat]
    BY <1>2, QrFrameAt
  <2> DEFINE g == [f EXCEPT !.pc = "rewrite"]
  <2>2. g \in [pc : {"encrypt", "rewrite", "delete"}, op : QrOps,
               vehicle : Vehicles, rest : Seq(Vehicles), id : Nat]
    BY <2>1
  <2>3. g \in Frames
    BY <2>2 DEF Frames, QrFrame, QrOps
  <2>4. g.vehicle = f.vehicle /\ g.id = f.id
    BY <2>1
  <2>5. NeedsNoOther(g)
    BY <1>2, <2>4 DEF CodesInv, NeedsNoOther, Rewrites
  <2>6. Goto(r, g)
    BY <1>2 DEF FailQrCode, At
  <2> HIDE DEF g
  <2> QED
    BY <1>1, <2>3, <2>5, <2>6, CodesStay DEF FailQrCode
<1>3. CASE f.pc # "encrypt"
  <2>1. f.rest \in Seq(Vehicles)
    BY QrFrameAt DEF FailQrCode
  <2>2. NextVehicle(r)
    BY <1>3 DEF FailQrCode, At
  <2>3. \E g \in Frames : Goto(r, g) /\ g.pc \notin Rewrites
    BY <2>1, <2>2, NextVehicleGoes DEF CodesInv
  <2> QED
    BY <1>1, <2>3, GoesOn DEF FailQrCode
<1> QED
  BY <1>2, <1>3

(* With the process, all requests are gone.                                *)
LEMMA RestartOK ==
  ASSUME CodesInv, Restart
  PROVE  CodesInv'
<1>1. /\ mishaps' \in 0..MaxMishaps /\ served' = served /\ lastId' = lastId
      /\ key' \in Nat \ {Plain}
      /\ qrCodes' = qrCodes
      /\ labels' = {v \in labels : qrCodes[v].content \in {Plain, key'}}
      /\ slot' = [r \in Requests |-> Idle]
  BY QrCodesAssumption DEF Restart, CodesInv, CodesOK, Plain
<1>2. CodesOK' /\ lastId' \in Nat
  BY <1>1 DEF CodesInv, CodesOK
<1>3. SlotsOK'
  BY <1>1 DEF SlotsOK, Frames
<1>4. PrintedCodeScans'
  BY <1>1 DEF CodesInv, PrintedCodeScans, Scans, Readable
<1>5. ASSUME NEW s \in Requests
      PROVE  NeedsNoOther(slot[s])'
  BY <1>1 DEF NeedsNoOther, Rewrites, Idle
<1> QED
  BY <1>2, <1>3, <1>4, <1>5 DEF CodesInv

LEMMA QrStepOK ==
  ASSUME CodesInv, QrStep
  PROVE  CodesInv'
<1> PICK r \in Requests :
      \/ CallQrCode(r) \/ BulkGenerate(r) \/ SelectVehicle(r)
      \/ SelectCode(r) \/ RewriteCode(r) \/ InsertCode(r) \/ DeleteCode(r)
      \/ Validate(r) \/ Scan(r) \/ Upgrade(r) \/ Reread(r)
      \/ FailQrCode(r)
  BY DEF QrStep
<1> QED
  BY CallQrCodeOK, SelectVehicleOK, SelectCodeOK, RewriteCodeOK, InsertCodeOK,
     DeleteCodeOK, ValidateOK, ScanOK, UpgradeOK, RereadOK, FailQrCodeOK
-----------------------------------------------------------------------------
(* The operators on sequences and tables that the steps of Yard use.       *)

(* A set of numbers has a least one.                                       *)
LEMMA LeastNumber ==
  ASSUME NEW T \in SUBSET Nat, T # {}
  PROVE  \E x \in T : \A y \in T : x <= y
<1>1. IsWellFoundedOn(OpToRel(<, Nat), Nat)
  BY NatLessThanWellFounded
<1>2. PICK x \in T : \A y \in T : ~ (<<y, x>> \in OpToRel(<, Nat))
  BY <1>1, WFMin, Zenon
<1>3. \A y \in T : ~ (y < x)
  BY <1>2 DEF OpToRel
<1>4. x \in Nat /\ \A y \in T : y \in Nat
  OBVIOUS
<1> QED
  BY <1>3, <1>4

(* A finite set of numbers has a greatest one: a smallest set without one  *)
(* would have it as soon as an element is taken away.                      *)
LEMMA GreatestNumber ==
  ASSUME NEW T \in SUBSET Nat, IsFiniteSet(T), T # {}
  PROVE  Max(T) \in T /\ \A x \in T : Max(T) >= x
<1> DEFINE HasMax(U) == \E x \in U : \A y \in U : x >= y
           Bad == {U \in FiniteSubsetsOf(T) : U # {} /\ ~ HasMax(U)}
<1>1. Bad = {}
  <2> SUFFICES ASSUME Bad # {} PROVE FALSE
    OBVIOUS
  <2>1. IsWellFoundedOn(StrictSubsetOrdering(T), FiniteSubsetsOf(T))
    BY FS_StrictSubsetOrderingWellFounded
  <2>2. PICK U \in Bad : \A W \in Bad : ~ (<<W, U>> \in StrictSubsetOrdering(T))
    BY <2>1, WFMin, Zenon
  <2>3. U \in SUBSET T /\ IsFiniteSet(U) /\ U # {} /\ ~ HasMax(U)
    BY DEF FiniteSubsetsOf
  <2> PICK x \in U : TRUE
    BY <2>3
  <2>4. IsFiniteSet(U \ {x}) /\ U \ {x} \in SUBSET T
    BY <2>3, FS_RemoveElement
  <2>5. <<U \ {x}, U>> \in StrictSubsetOrdering(T)
    BY <2>3, <2>4 DEF StrictSubsetOrdering
  <2>6. U \ {x} \notin Bad
    BY <2>2, <2>5
  <2>7. U \ {x} \in FiniteSubsetsOf(T)
    BY <2>4 DEF FiniteSubsetsOf
  <2>8. U \ {x} = {} \/ HasMax(U \ {x})
    BY <2>6, <2>7
  <2>9. \A y \in U : y \in Nat
    BY <2>3
  <2>10. HasMax(U)
    BY <2>8, <2>9
  <2> QED
    BY <2>3, <2>10
<1>2. T \in FiniteSubsetsOf(T)
  BY DEF FiniteSubsetsOf
<1>3. HasMax(T)
  BY <1>1, <1>2
<1> QED
  BY <1>3 DEF Max

LEMMA ToSetAppend ==
  ASSUME NEW S, NEW s \in Seq(S), NEW x \in S
  PROVE  Append(s, x) \in Seq(S) /\ ToSet(s) \subseteq ToSet(Append(s, x))
<1>1. Append(s, x) \in Seq(S) /\ Len(Append(s, x)) = Len(s) + 1
      /\ \A i \in 1..Len(s) : Append(s, x)[i] = s[i]
  OBVIOUS
<1>2. DOMAIN s = 1..Len(s) /\ DOMAIN Append(s, x) = 1..(Len(s) + 1)
      /\ Len(s) \in Nat
  OBVIOUS
<1>3. ASSUME NEW i \in DOMAIN s PROVE s[i] \in ToSet(Append(s, x))
  <2>1. i \in DOMAIN Append(s, x) /\ Append(s, x)[i] = s[i]
    BY <1>1, <1>2
  <2> QED
    BY <2>1 DEF ToSet
<1> QED
  BY <1>1, <1>3 DEF ToSet

NoTwice(s) == \A i, j \in 1..Len(s) : s[i] = s[j] => i = j

LEMMA NoTwiceAppend ==
  ASSUME NEW S, NEW s \in Seq(S), NEW x \in S, x \notin ToSet(s), NoTwice(s)
  PROVE  NoTwice(Append(s, x))
<1>1. /\ Len(Append(s, x)) = Len(s) + 1 /\ Len(s) \in Nat
      /\ \A i \in 1..Len(s) : Append(s, x)[i] = s[i] /\ s[i] # x
      /\ Append(s, x)[Len(s) + 1] = x
  BY DEF ToSet
<1> QED
  BY <1>1 DEF NoTwice

(* RemoveFirst takes one occurrence of an element, and no other element.   *)
LEMMA RemovesFirst ==
  ASSUME NEW S, NEW s \in Seq(S), NEW x \in ToSet(s)
  PROVE  /\ RemoveFirst(s, x) \in Seq(S)
         /\ ToSet(s) \ {x} \subseteq ToSet(RemoveFirst(s, x))
         /\ NoTwice(s) => NoTwice(RemoveFirst(s, x))
<1> DEFINE I == {i \in 1..Len(s) : s[i] = x}
           k == Min(I)
<1>1. DOMAIN s = 1..Len(s) /\ Len(s) \in Nat
  OBVIOUS
<1>2. I # {} /\ I \subseteq Nat
  BY <1>1 DEF ToSet
<1>3. \E i \in I : \A j \in I : i <= j
  BY <1>2, LeastNumber
<1>4. k \in I /\ \A j \in I : k <= j
  BY <1>3 DEF Min
<1>5. RemoveFirst(s, x) = SubSeq(s, 1, k - 1) \o SubSeq(s, k + 1, Len(s))
  BY <1>2 DEF RemoveFirst, RemoveAt, SelectInSeq
<1> HIDE DEF k
<1>6. k \in 1..Len(s) /\ s[k] = x
  BY <1>4
<1> HIDE DEF I
<1> DEFINE a == SubSeq(s, 1, k - 1)
           b == SubSeq(s, k + 1, Len(s))
<1>7. a \in Seq(S) /\ Len(a) = k - 1 /\ \A i \in 1..(k - 1) : a[i] = s[i]
  <2>1. \A i \in 1..(k - 1) : s[i] \in S
    BY <1>1, <1>6
  <2>2. k - 1 \in Int /\ 1 \in Int
    BY <1>6
  <2>3. /\ a \in Seq(S) /\ Len(a) = IF 1 <= k - 1 THEN k - 1 - 1 + 1 ELSE 0
        /\ \A i \in 1..(k - 1 - 1 + 1) : a[i] = s[1 + i - 1]
    BY <2>1, <2>2, SubSeqProperties
  <2> QED
    BY <1>6, <2>3
<1>8. b \in Seq(S) /\ Len(b) = Len(s) - k
      /\ \A i \in 1..(Len(s) - k) : b[i] = s[k + i]
  <2>1. \A i \in (k + 1)..Len(s) : s[i] \in S
    BY <1>1, <1>6
  <2>2. k + 1 \in Int /\ Len(s) \in Int
    BY <1>1, <1>6
  <2>3. /\ b \in Seq(S)
        /\ Len(b) = IF k + 1 <= Len(s) THEN Len(s) - (k + 1) + 1 ELSE 0
        /\ \A i \in 1..(Len(s) - (k + 1) + 1) : b[i] = s[(k + 1) + i - 1]
    BY <2>1, <2>2, SubSeqProperties
  <2> QED
    BY <1>1, <1>6, <2>3
<1> HIDE DEF a, b
<1>9. /\ a \o b \in Seq(S) /\ Len(a \o b) = Len(s) - 1
      /\ \A i \in 1..(Len(s) - 1) :
           (a \o b)[i] = IF i <= k - 1 THEN a[i] ELSE b[i - (k - 1)]
  <2>1. Len(a) = k - 1 /\ Len(a) + Len(b) = Len(s) - 1
    BY <1>1, <1>6, <1>7, <1>8
  <2>2. /\ a \o b \in Seq(S) /\ Len(a \o b) = Len(a) + Len(b)
        /\ \A i \in 1..(Len(a) + Len(b)) :
             (a \o b)[i] = IF i <= Len(a) THEN a[i] ELSE b[i - Len(a)]
    BY <1>7, <1>8, ConcatProperties
  <2> QED
    BY <2>1, <2>2
<1>10. ASSUME NEW i \in 1..Len(s), s[i] # x
       PROVE  s[i] \in ToSet(a \o b)
  <2>1. DOMAIN (a \o b) = 1..(Len(s) - 1)
    BY <1>9
  <2>2. CASE i < k
    <3>1. i \in 1..(Len(s) - 1) /\ (a \o b)[i] = s[i]
      BY <1>6, <1>7, <1>9, <2>2
    <3> QED
      BY <2>1, <3>1 DEF ToSet
  <2>3. CASE i > k
    <3> PICK j \in 1..(Len(s) - 1) : j = i - 1 /\ ~ (j <= k - 1)
      BY <1>1, <1>6, <2>3
    <3>1. j - (k - 1) \in 1..(Len(s) - k) /\ k + (j - (k - 1)) = i
      BY <1>1, <1>6
    <3>2. (a \o b)[j] = s[i]
      BY <1>8, <1>9, <3>1
    <3> QED
      BY <2>1, <3>2 DEF ToSet
  <2> QED
    BY <1>6, <1>10, <2>2, <2>3
<1>11. RemoveFirst(s, x) = a \o b
  BY <1>5 DEF a, b
<1>12. ASSUME NEW y \in ToSet(s) \ {x} PROVE y \in ToSet(a \o b)
  <2> PICK i \in 1..Len(s) : y = s[i]
    BY <1>1 DEF ToSet
  <2> QED
    BY <1>10
<1>13. ASSUME NoTwice(s) PROVE NoTwice(a \o b)
  <2>1. \A i \in 1..(Len(s) - 1) :
          (a \o b)[i] = IF i < k THEN s[i] ELSE s[i + 1]
    <3> SUFFICES ASSUME NEW i \in 1..(Len(s) - 1)
                 PROVE  (a \o b)[i] = IF i < k THEN s[i] ELSE s[i + 1]
      OBVIOUS
    <3>1. CASE i < k
      BY <1>6, <1>7, <1>9, <3>1
    <3>2. CASE ~ (i < k)
      <4>1. i - (k - 1) \in 1..(Len(s) - k) /\ k + (i - (k - 1)) = i + 1
        BY <1>1, <1>6, <3>2
      <4>2. (a \o b)[i] = b[i - (k - 1)]
        BY <1>1, <1>6, <1>9, <3>2
      <4> QED
        BY <1>8, <3>2, <4>1, <4>2
    <3> QED
      BY <3>1, <3>2
  <2>2. Len(a \o b) = Len(s) - 1
    BY <1>9
  <2> HIDE DEF NoTwice
  <2> SUFFICES ASSUME NEW i \in 1..(Len(s) - 1), NEW j \in 1..(Len(s) - 1),
                      (a \o b)[i] = (a \o b)[j]
               PROVE  i = j
    BY <2>2 DEF NoTwice
  <2> PICK m, n : /\ m = IF i < k THEN i ELSE i + 1
                  /\ n = IF j < k THEN j ELSE j + 1
    OBVIOUS
  <2>3. m \in 1..Len(s) /\ n \in 1..Len(s)
    BY <1>1, <1>6
  <2>4. (a \o b)[i] = s[m] /\ (a \o b)[j] = s[n]
    BY <2>1
  <2>5. m = n
    BY <1>13, <2>3, <2>4 DEF NoTwice
  <2> QED
    BY <1>6, <2>5
<1> QED
  BY <1>9, <1>11, <1>12, <1>13

LEMMA ToSetOf ==
  ASSUME NEW S, NEW s \in Seq(S)
  PROVE  ToSet(s) \subseteq S
BY DEF ToSet
-----------------------------------------------------------------------------
(* The steps of Yard.                                                      *)

LEMMA TablesStay ==
  ASSUME TablesOK, UNCHANGED <<vehicles, yardVars>>,
         lastId' \in Nat, lastId' >= lastId
  PROVE  TablesOK'
<1>1. lastId \in Nat /\ 1..lastId \subseteq 1..lastId'
  BY DEF TablesOK
<1> QED
  BY <1>1 DEF TablesOK, yardVars, Stands, Known

LEMMA YardBegins ==
  ASSUME CodesInv, TablesOK, NEW r \in Requests,
         NEW g \in YardFrame \cup {Idle}, Begin(r, g),
         UNCHANGED <<vehicles, qrCodes, lastId, key, labels, mishaps, yardVars>>
  PROVE  CodesInv' /\ TablesOK'
<1>1. g \in Frames /\ g.pc \notin Rewrites
  BY YardRewritesNothing
<1>2. CodesInv'
  BY <1>1, Begins
<1>3. lastId' \in Nat /\ lastId' >= lastId
  BY DEF TablesOK
<1> QED
  BY <1>2, <1>3, TablesStay

LEMMA YardGoes ==
  ASSUME CodesInv, NEW r \in Requests,
         \E g \in YardFrame \cup {Idle} : Goto(r, g),
         UNCHANGED <<qrCodes, key, labels, served, mishaps>>, lastId' \in Nat
  PROVE  CodesInv'
<1> PICK g \in YardFrame \cup {Idle} : Goto(r, g)
  OBVIOUS
<1>1. g \in Frames /\ g.pc \notin Rewrites
  BY YardRewritesNothing
<1> QED
  BY <1>1, GoesOn DEF CodesInv, CodesOK

LEMMA YardReads ==
  ASSUME CodesInv, TablesOK, NEW r \in Requests,
         \E g \in YardFrame \cup {Idle} : Goto(r, g),
         UNCHANGED <<vehicles, qrCodes, lastId, key, labels, served, mishaps,
                     yardVars>>
  PROVE  CodesInv' /\ TablesOK'
<1>1. lastId' \in Nat /\ lastId' >= lastId
  BY DEF TablesOK
<1> QED
  BY <1>1, YardGoes, TablesStay

LEMMA CreateOK ==
  ASSUME CodesInv, TablesOK, NEW r \in Requests, Create(r)
  PROVE  CodesInv' /\ TablesOK'
<1> PICK table \in {"arrivals", "exits"}, v \in Vehicles, c \in Centers,
         a \in Agents, d \in Centers \cup {None} :
      Begin(r, [pc |-> "checkVehicle", table |-> table, vehicle |-> v,
                center |-> c, agent |-> a, destination |-> d])
  BY DEF Create
<1> DEFINE g == [pc |-> "checkVehicle", table |-> table, vehicle |-> v,
                 center |-> c, agent |-> a, destination |-> d]
<1>1. g \in YardFrame \cup {Idle}
  BY DEF YardFrame
<1> HIDE DEF g
<1>2. Begin(r, g)
  BY DEF g
<1> QED
  BY <1>1, <1>2, YardBegins DEF Create

LEMMA CheckOK ==
  ASSUME CodesInv, TablesOK, NEW r \in Requests,
         CheckVehicle(r) \/ CheckCenter(r) \/ CheckDestination(r)
  PROVE  CodesInv' /\ TablesOK'
<1> PICK f \in Frames : f = slot[r]
  BY DEF CodesInv, SlotsOK
<1>1. f \in [pc : {"checkVehicle", "checkCenter", "checkDest", "record"},
             table : {"arrivals", "exits"}, vehicle : Vehicles,
             center : Centers, agent : Agents,
             destination : Centers \cup {None}]
  BY YardFrameAt DEF CheckVehicle, CheckCenter, CheckDestination, At
<1>2. \A pc \in {"checkCenter", "checkDest", "record"} :
        [f EXCEPT !.pc = pc] \in YardFrame
  BY <1>1 DEF YardFrame
<1>3. \E pc \in {"checkCenter", "checkDest", "record"} :
        Goto(r, [f EXCEPT !.pc = pc]) \/ Goto(r, Idle)
  BY DEF CheckVehicle, CheckCenter, CheckDestination
<1>4. \E g \in YardFrame \cup {Idle} : Goto(r, g)
  BY <1>2, <1>3
<1> QED
  BY <1>4, YardReads DEF CheckVehicle, CheckCenter, CheckDestination

LEMMA EndAtGoes ==
  ASSUME NEW r \in Requests, NEW pc, EndAt(r, pc)
  PROVE  slot[r].pc = pc /\ \E g \in YardFrame \cup {Idle} : Goto(r, g)
BY DEF EndAt, At

LEMMA ImageIsFinite ==
  ASSUME NEW S, IsFiniteSet(S), NEW f
  PROVE  IsFiniteSet({f[i] : i \in S})
<1> DEFINE T == {f[i] : i \in S}
           g == [i \in S |-> f[i]]
<1>1. g \in Surjection(S, T)
  BY DEF Surjection
<1> HIDE DEF g
<1> QED
  BY <1>1, FS_Surjection

LEMMA ClockIsPositive ==
  ASSUME NEW T \in SUBSET Nat, IsFiniteSet(T)
  PROVE  Clock(T) \subseteq Nat \ {0}
<1>1. IsFiniteSet({2} \cup T)
  <2>1. IsFiniteSet(T \cup {2})
    BY FS_AddElement
  <2>2. T \cup {2} = {2} \cup T
    OBVIOUS
  <2> QED
    BY <2>1, <2>2
<1> PICK U, m : U = {2} \cup T /\ m = Max({2} \cup T)
  OBVIOUS
<1>2. U \in SUBSET Nat /\ U # {} /\ 2 \in U
  OBVIOUS
<1>3. m \in U /\ m >= 2
  BY <1>1, <1>2, GreatestNumber
<1>4. Clock(T) = IF T = {} THEN {2} ELSE (m - 1)..(m + 1)
  BY DEF Clock
<1>5. (m - 1)..(m + 1) \in SUBSET (Nat \ {0})
  <2>1. m \in Nat
    BY <1>2, <1>3
  <2> QED
    BY <1>3, <2>1
<1>6. {2} \in SUBSET (Nat \ {0})
  OBVIOUS
<1>7. Clock(T) \in SUBSET (Nat \ {0})
  BY <1>4, <1>5, <1>6, Zenon
<1> QED
  BY <1>7

LEMMA TablesAreFinite ==
  ASSUME TablesOK
  PROVE  /\ IsFiniteSet(DOMAIN arrivals) /\ IsFiniteSet(DOMAIN exits)
         /\ IsFiniteSet(DOMAIN stages)
<1>1. 1 \in Int /\ lastId \in Int
  BY DEF TablesOK
<1>2. IsFiniteSet(1..lastId)
  BY <1>1, FS_Interval
<1> QED
  BY <1>2, FS_Subset DEF TablesOK

(* Of finitely many times one is the latest; none is zero.                 *)
LEMMA TimesArePositive ==
  ASSUME TablesOK
  PROVE  /\ Arriving(arrivals) \subseteq Nat \ {0}
         /\ Arriving(exits) \subseteq Nat \ {0}
         /\ Starting \subseteq Nat \ {0}
<1>1. ASSUME NEW table \in {arrivals, exits}
      PROVE  Arriving(table) \subseteq Nat \ {0}
  <2> DEFINE at == [i \in DOMAIN table |-> table[i].at]
             T == {at[i] : i \in DOMAIN table}
  <2>1. T = {table[i].at : i \in DOMAIN table}
    OBVIOUS
  <2>2. \A i \in DOMAIN table : table[i].at \in Nat
    BY DEF TablesOK, Arrival, Exit
  <2>3. T \in SUBSET Nat
    BY <2>1, <2>2
  <2> HIDE DEF at
  <2>4. IsFiniteSet(T)
    BY TablesAreFinite, ImageIsFinite
  <2> HIDE DEF T
  <2>5. Clock(T) \subseteq Nat \ {0}
    BY <2>3, <2>4, ClockIsPositive
  <2> QED
    BY <2>1, <2>5 DEF Arriving
<1>2. Starting \subseteq Nat \ {0}
  <2> DEFINE started == [i \in DOMAIN stages |-> stages[i].started]
             T == {started[i] : i \in DOMAIN stages}
  <2>1. T = {stages[i].started : i \in DOMAIN stages}
    OBVIOUS
  <2>2. \A i \in DOMAIN stages : stages[i].started \in Nat
    BY DEF TablesOK, Stage
  <2>3. T \in SUBSET Nat
    BY <2>1, <2>2
  <2> HIDE DEF started
  <2>4. IsFiniteSet(T)
    BY TablesAreFinite, ImageIsFinite
  <2> HIDE DEF T
  <2>5. T \ {Never} \in SUBSET Nat /\ IsFiniteSet(T \ {Never})
    BY <2>3, <2>4, FS_Subset
  <2>6. Clock(T \ {Never}) \subseteq Nat \ {0}
    BY <2>5, ClockIsPositive
  <2> QED
    BY <2>1, <2>6 DEF Starting
<1> QED
  BY <1>1, <1>2

LEMMA RecordArrivalOK ==
  ASSUME CodesInv, TablesOK, NEW r \in Requests, RecordArrival(r)
  PROVE  CodesInv' /\ TablesOK'
<1> PICK f \in Frames : f = slot[r]
  BY DEF CodesInv, SlotsOK
<1>1. f \in [pc : {"checkVehicle", "checkCenter", "checkDest", "record"},
             table : {"arrivals", "exits"}, vehicle : Vehicles,
             center : Centers, agent : Agents,
             destination : Centers \cup {None}]
  BY YardFrameAt DEF RecordArrival, EndAt, At
<1>2. CodesInv'
  <2>1. lastId' \in Nat
    BY DEF RecordArrival, CodesInv
  <2> QED
    BY <2>1, EndAtGoes, YardGoes DEF RecordArrival
<1>3. CASE Stands(f) /\ lastId' = lastId + 1
  <2> PICK s \in Asked \cup {"ARRIVED"}, at \in Arriving(arrivals) :
        arrivals' = Added(arrivals,
          [vehicle |-> f.vehicle, center |-> f.center, agent |-> f.agent,
           status |-> s, at |-> at])
    BY <1>3 DEF RecordArrival
  <2> DEFINE row == [vehicle |-> f.vehicle, center |-> f.center,
                     agent |-> f.agent, status |-> s, at |-> at]
  <2>1. row \in Arrival /\ Stands(row)
    BY <1>1, <1>3, YardAssumption, TimesArePositive DEF Arrival, ArrivalStatuses, Stands
  <2> HIDE DEF row
  <2>2. arrivals' = Added(arrivals, row)
    BY DEF row
  <2>3. /\ lastId + 1 \in Nat
        /\ DOMAIN arrivals' = DOMAIN arrivals \cup {lastId + 1}
        /\ DOMAIN arrivals' \subseteq 1..(lastId + 1)
        /\ arrivals' \in [DOMAIN arrivals' -> Arrival]
        /\ arrivals'[lastId + 1] = row
        /\ \A i \in DOMAIN arrivals : arrivals'[i] = arrivals[i]
    <3> PICK n, old, new : n = lastId /\ old = arrivals /\ new = arrivals'
      OBVIOUS
    <3>1. n \in Nat /\ DOMAIN old \subseteq 1..n /\ old \in [DOMAIN old -> Arrival]
      BY DEF TablesOK
    <3>2. new = [i \in DOMAIN old \cup {n + 1} |->
                   IF i = n + 1 THEN row ELSE old[i]]
      BY <2>2 DEF Added
    <3>3. n + 1 \notin DOMAIN old
      BY <3>1
    <3>4. new \in [DOMAIN new -> Arrival]
      BY <2>1, <3>1, <3>2
    <3> QED
      BY <3>1, <3>2, <3>3, <3>4
  <2>4. \A i \in DOMAIN arrivals' : Stands(arrivals'[i])
    BY <2>1, <2>3 DEF TablesOK
  <2>5. UNCHANGED <<vehicles, centers, users, exits, stages, raced>>
    BY DEF RecordArrival
  <2>6. 1..lastId \subseteq 1..(lastId + 1)
    BY DEF TablesOK
  <2> QED
    BY <1>2, <1>3, <2>3, <2>4, <2>5, <2>6 DEF TablesOK, Stands, Known
<1>4. CASE ~ (Stands(f) /\ lastId' = lastId + 1)
  <2>1. UNCHANGED <<vehicles, yardVars, lastId>>
    BY <1>4 DEF RecordArrival, yardVars
  <2>2. lastId' \in Nat /\ lastId' >= lastId
    BY <2>1 DEF TablesOK
  <2> QED
    BY <1>2, <2>1, <2>2, TablesStay
<1> QED
  BY <1>3, <1>4

LEMMA RecordExitOK ==
  ASSUME CodesInv, TablesOK, NEW r \in Requests, RecordExit(r)
  PROVE  CodesInv' /\ TablesOK'
<1> PICK f \in Frames : f = slot[r]
  BY DEF CodesInv, SlotsOK
<1>1. f \in [pc : {"checkVehicle", "checkCenter", "checkDest", "record"},
             table : {"arrivals", "exits"}, vehicle : Vehicles,
             center : Centers, agent : Agents,
             destination : Centers \cup {None}]
  BY YardFrameAt DEF RecordExit, EndAt, At
<1>2. CodesInv'
  <2>1. lastId' \in Nat
    BY DEF RecordExit, CodesInv
  <2> QED
    BY <2>1, EndAtGoes, YardGoes DEF RecordExit
<1>3. CASE Stands(f) /\ f.destination \in ToSet(centers) \cup {None}
  <2>0. PICK at \in Arriving(exits) :
          exits' = Added(exits,
            [vehicle |-> f.vehicle, center |-> f.center, agent |-> f.agent,
             destination |-> f.destination, at |-> at])
    BY <1>3 DEF RecordExit
  <2> PICK row : row = [vehicle |-> f.vehicle, center |-> f.center,
                        agent |-> f.agent, destination |-> f.destination,
                        at |-> at]
    OBVIOUS
  <2>1. row \in Exit /\ Stands(row) /\ row.destination = f.destination
    BY <1>1, <1>3, TimesArePositive DEF Exit, Stands
  <2>2. exits' = Added(exits, row) /\ lastId' = lastId + 1
    BY <1>3, <2>0 DEF RecordExit
  <2>3. /\ lastId + 1 \in Nat
        /\ DOMAIN exits' = DOMAIN exits \cup {lastId + 1}
        /\ DOMAIN exits' \subseteq 1..(lastId + 1)
        /\ exits' \in [DOMAIN exits' -> Exit]
        /\ exits'[lastId + 1] = row
        /\ \A i \in DOMAIN exits : exits'[i] = exits[i]
    <3> PICK n, old, new : n = lastId /\ old = exits /\ new = exits'
      OBVIOUS
    <3>1. n \in Nat /\ DOMAIN old \subseteq 1..n /\ old \in [DOMAIN old -> Exit]
      BY DEF TablesOK
    <3>2. new = [i \in DOMAIN old \cup {n + 1} |->
                   IF i = n + 1 THEN row ELSE old[i]]
      BY <2>2 DEF Added
    <3>3. n + 1 \notin DOMAIN old
      BY <3>1
    <3>4. new \in [DOMAIN new -> Exit]
      BY <2>1, <3>1, <3>2
    <3> QED
      BY <3>1, <3>2, <3>3, <3>4
  <2>4. \A i \in DOMAIN exits' :
          Stands(exits'[i]) /\ exits'[i].destination \in ToSet(centers) \cup {None}
    BY <1>3, <2>1, <2>3 DEF TablesOK
  <2>5. UNCHANGED <<vehicles, centers, users, arrivals, stages, raced>>
    BY DEF RecordExit
  <2>6. 1..lastId \subseteq 1..(lastId + 1)
    BY DEF TablesOK
  <2> QED
    BY <1>2, <2>2, <2>3, <2>4, <2>5, <2>6 DEF TablesOK, Stands, Known
<1>4. CASE ~ (Stands(f) /\ f.destination \in ToSet(centers) \cup {None})
  <2>1. UNCHANGED <<vehicles, yardVars, lastId>>
    BY <1>4 DEF RecordExit, yardVars
  <2>2. lastId' \in Nat /\ lastId' >= lastId
    BY <2>1 DEF TablesOK
  <2> QED
    BY <1>2, <2>1, <2>2, TablesStay
<1> QED
  BY <1>3, <1>4

LEMMA UseArrivalOK ==
  ASSUME CodesInv, TablesOK, NEW r \in Requests, UseArrival(r)
  PROVE  CodesInv' /\ TablesOK'
<1>1. UNCHANGED <<vehicles, qrCodes, lastId, key, labels, mishaps, yardVars>>
  BY DEF UseArrival
<1>2. Asked \cup {None} \subseteq ArrivalStatuses \cup {None}
  BY YardAssumption
<1> PICK s \in Asked \cup {None} :
      \/ \E a \in DOMAIN arrivals, op \in {"setStatus", "addStage"} :
           /\ op = "setStatus" => s # None
           /\ Begin(r, [pc |-> "findArrival", then |-> op, arrival |-> a,
                        status |-> s])
      \/ \E i \in DOMAIN stages, op \in {"removeStage", "updateStage"} :
           Begin(r, [pc |-> "findArrival", then |-> op,
                     arrival |-> stages[i].arrival, stage |-> i, status |-> s])
  BY DEF UseArrival
<1>3. CASE \E a \in DOMAIN arrivals, op \in {"setStatus", "addStage"} :
             /\ op = "setStatus" => s # None
             /\ Begin(r, [pc |-> "findArrival", then |-> op, arrival |-> a,
                          status |-> s])
  <2> PICK a \in DOMAIN arrivals, op \in {"setStatus", "addStage"} :
        /\ op = "setStatus" => s # None
        /\ Begin(r, [pc |-> "findArrival", then |-> op, arrival |-> a,
                     status |-> s])
    BY <1>3
  <2> PICK g : g = [pc |-> "findArrival", then |-> op, arrival |-> a,
                    status |-> s]
    OBVIOUS
  <2>1. a \in Nat
    BY DEF TablesOK
  <2>2. g \in YardFrame \cup {Idle}
    BY <1>2, <2>1 DEF YardFrame
  <2> QED
    BY <1>1, <2>2, YardBegins
<1>4. CASE \E i \in DOMAIN stages, op \in {"removeStage", "updateStage"} :
             Begin(r, [pc |-> "findArrival", then |-> op,
                       arrival |-> stages[i].arrival, stage |-> i,
                       status |-> s])
  <2> PICK i \in DOMAIN stages, op \in {"removeStage", "updateStage"} :
        Begin(r, [pc |-> "findArrival", then |-> op,
                  arrival |-> stages[i].arrival, stage |-> i, status |-> s])
    BY <1>4
  <2> PICK a : a = stages[i].arrival
    OBVIOUS
  <2> PICK g : g = [pc |-> "findArrival", then |-> op, arrival |-> a,
                    stage |-> i, status |-> s]
    OBVIOUS
  <2>1. a \in Nat /\ i \in Nat
    BY DEF TablesOK, Stage
  <2>2. g \in YardFrame \cup {Idle}
    BY <1>2, <2>1 DEF YardFrame
  <2> QED
    BY <1>1, <2>2, YardBegins
<1> QED
  BY <1>3, <1>4

LEMMA FindArrivalOK ==
  ASSUME CodesInv, TablesOK, NEW r \in Requests, FindArrival(r)
  PROVE  CodesInv' /\ TablesOK'
<1> PICK f \in Frames : f = slot[r]
  BY DEF CodesInv, SlotsOK
<1>1. f.pc = "findArrival"
  BY DEF FindArrival, At
<1>2. \E g \in YardFrame \cup {Idle} : Goto(r, g)
  <2>1. CASE Goto(r, Idle)
    BY <2>1
  <2>2. CASE Goto(r, [f EXCEPT !.pc = IF f.then \in {"setStatus", "addStage"}
                                      THEN f.then ELSE "findStage"])
    <3>1. CASE f \in [pc : {"findArrival", "setStatus"},
                      then : {"setStatus"}, arrival : Nat,
                      status : ArrivalStatuses]
      <4>1. [f EXCEPT !.pc = f.then] \in YardFrame
        BY <3>1 DEF YardFrame
      <4> QED
        BY <2>2, <3>1, <4>1
    <3>3. CASE f \in [pc : {"findArrival", "addStage"},
                      then : {"addStage"}, arrival : Nat,
                      status : ArrivalStatuses \cup {None}]
      <4>1. [f EXCEPT !.pc = f.then] \in YardFrame
        BY <3>3 DEF YardFrame
      <4> QED
        BY <2>2, <3>3, <4>1
    <3>2. CASE f \in [pc : {"findArrival", "findStage", "removeStage"},
                      then : {"removeStage", "updateStage"}, arrival : Nat,
                      stage : Nat, status : ArrivalStatuses \cup {None}]
      <4>1. [f EXCEPT !.pc = "findStage"] \in YardFrame
        BY <3>2 DEF YardFrame
      <4> QED
        BY <2>2, <3>2, <4>1
    <3> QED
      BY <1>1, <3>1, <3>2, <3>3, YardFrameAt
  <2> QED
    BY <2>1, <2>2 DEF FindArrival
<1> QED
  BY <1>2, YardReads DEF FindArrival

LEMMA SetStatusOK ==
  ASSUME CodesInv, TablesOK, NEW r \in Requests, SetStatus(r)
  PROVE  CodesInv' /\ TablesOK'
<1> PICK f \in Frames : f = slot[r]
  BY DEF CodesInv, SlotsOK
<1>1. f \in [pc : {"findArrival", "setStatus"}, then : {"setStatus"},
             arrival : Nat, status : ArrivalStatuses]
  BY YardFrameAt DEF SetStatus, EndAt, At
<1>2. CodesInv'
  <2>1. lastId' \in Nat
    BY DEF SetStatus, CodesInv
  <2> QED
    BY <2>1, EndAtGoes, YardGoes DEF SetStatus
<1>3. UNCHANGED <<vehicles, lastId, centers, users, stages, exits, raced>>
  BY DEF SetStatus
<1>4. arrivals' = [a \in DOMAIN arrivals |->
                     IF a = f.arrival
                     THEN [arrivals[a] EXCEPT !.status = f.status]
                     ELSE arrivals[a]]
  BY DEF SetStatus
<1>5. ASSUME NEW a \in DOMAIN arrivals
      PROVE  arrivals'[a] \in Arrival /\ Stands(arrivals'[a])
  <2> PICK old, new : old = arrivals[a] /\ new = arrivals'[a]
    OBVIOUS
  <2>1. old \in Arrival /\ Stands(old)
    BY DEF TablesOK
  <2>2. new = old \/ new = [old EXCEPT !.status = f.status]
    BY <1>4
  <2>3. f.status \in ArrivalStatuses
    BY <1>1
  <2>4. /\ new \in Arrival /\ new.vehicle = old.vehicle
        /\ new.center = old.center /\ new.agent = old.agent
    BY <2>1, <2>2, <2>3 DEF Arrival
  <2> QED
    BY <2>1, <2>4 DEF Stands
<1>6. DOMAIN arrivals' = DOMAIN arrivals
  BY <1>4
<1>7. arrivals' \in [DOMAIN arrivals' -> Arrival]
  BY <1>4, <1>5
<1> QED
  BY <1>2, <1>3, <1>5, <1>6, <1>7 DEF TablesOK, Stands, Known

LEMMA AddStageOK ==
  ASSUME CodesInv, TablesOK, NEW r \in Requests, AddStage(r)
  PROVE  CodesInv' /\ TablesOK' /\ (StageTimes => StageTimes')
<1> PICK f \in Frames : f = slot[r]
  BY DEF CodesInv, SlotsOK
<1>1. f \in [pc : {"findArrival", "addStage"}, then : {"addStage"},
             arrival : Nat, status : ArrivalStatuses \cup {None}]
  BY YardFrameAt DEF AddStage, EndAt, At
<1>2. CodesInv'
  <2>1. lastId' \in Nat
    BY DEF AddStage, CodesInv
  <2> QED
    BY <2>1, EndAtGoes, YardGoes DEF AddStage
<1>3. UNCHANGED <<vehicles, centers, users, arrivals, exits, raced>>
  BY DEF AddStage
<1>4. CASE f.arrival \in DOMAIN arrivals
  <2> PICK row : row = [arrival |-> f.arrival, status |-> f.status,
                        started |-> Never, completed |-> FALSE]
    OBVIOUS
  <2>1. row \in Stage /\ row.arrival = f.arrival /\ ~ row.completed
    BY <1>1 DEF Stage, Never
  <2>2. stages' = Added(stages, row) /\ lastId' = lastId + 1
    BY <1>4 DEF AddStage
  <2>3. /\ DOMAIN stages' = DOMAIN stages \cup {lastId + 1}
        /\ DOMAIN stages' \subseteq 1..(lastId + 1)
        /\ stages' \in [DOMAIN stages' -> Stage]
        /\ stages'[lastId + 1] = row
        /\ \A i \in DOMAIN stages : stages'[i] = stages[i]
    <3> PICK n, old, new : n = lastId /\ old = stages /\ new = stages'
      OBVIOUS
    <3>1. n \in Nat /\ DOMAIN old \subseteq 1..n /\ old \in [DOMAIN old -> Stage]
      BY DEF TablesOK
    <3>2. new = [i \in DOMAIN old \cup {n + 1} |->
                   IF i = n + 1 THEN row ELSE old[i]]
      BY <2>2 DEF Added
    <3>3. n + 1 \notin DOMAIN old
      BY <3>1
    <3>4. new \in [DOMAIN new -> Stage]
      BY <2>1, <3>1, <3>2
    <3>5. /\ DOMAIN new = DOMAIN old \cup {n + 1}
          /\ DOMAIN new \subseteq 1..(n + 1)
      BY <3>1, <3>2
    <3>6. new[n + 1] = row /\ \A i \in DOMAIN old : new[i] = old[i]
      BY <3>2, <3>3
    <3> QED
      BY <3>4, <3>5, <3>6
  <2>4. \A i \in DOMAIN stages' : stages'[i].arrival \in DOMAIN arrivals
    BY <1>4, <2>1, <2>3 DEF TablesOK
  <2>5. 1..lastId \subseteq 1..(lastId + 1) /\ lastId + 1 \in Nat
    BY DEF TablesOK
  <2>6. TablesOK'
    BY <1>3, <2>2, <2>3, <2>4, <2>5 DEF TablesOK, Stands, Known
  <2>7. StageTimes => StageTimes'
    BY <1>3, <2>1, <2>3 DEF StageTimes
  <2> QED
    BY <1>2, <2>6, <2>7
<1>5. CASE f.arrival \notin DOMAIN arrivals
  <2>1. UNCHANGED <<vehicles, yardVars, lastId>>
    BY <1>5 DEF AddStage, yardVars
  <2>2. lastId' \in Nat /\ lastId' >= lastId
    BY <2>1 DEF TablesOK
  <2>3. StageTimes => StageTimes'
    BY <2>1 DEF StageTimes, yardVars
  <2> QED
    BY <1>2, <2>1, <2>2, <2>3, TablesStay
<1> QED
  BY <1>4, <1>5

LEMMA FindStageOK ==
  ASSUME CodesInv, TablesOK, NEW r \in Requests, FindStage(r)
  PROVE  CodesInv' /\ TablesOK'
<1> PICK f \in Frames : f = slot[r]
  BY DEF CodesInv, SlotsOK
<1>1. f \in [pc : {"findArrival", "findStage", "removeStage"},
             then : {"removeStage", "updateStage"}, arrival : Nat,
             stage : Nat, status : ArrivalStatuses \cup {None}]
  BY YardFrameAt DEF FindStage, At
<1>2. \E g \in YardFrame \cup {Idle} : Goto(r, g)
  <2>1. CASE Goto(r, Idle)
    BY <2>1
  <2>2. CASE Goto(r, [f EXCEPT !.pc = "removeStage"])
    <3>1. [f EXCEPT !.pc = "removeStage"] \in YardFrame
      BY <1>1 DEF YardFrame
    <3> QED
      BY <2>2, <3>1
  <2>3. CASE /\ f.stage \in DOMAIN stages
             /\ Goto(r, [pc |-> "updateStage", stage |-> f.stage,
                         status |-> f.status, row |-> stages[f.stage]])
    <3> PICK row : row = stages[f.stage]
      OBVIOUS
    <3> PICK g : g = [pc |-> "updateStage", stage |-> f.stage,
                      status |-> f.status, row |-> row]
      OBVIOUS
    <3>1. row \in Stage
      BY <2>3 DEF TablesOK
    <3>2. g \in YardFrame
      BY <1>1, <3>1 DEF YardFrame
    <3> QED
      BY <2>3, <3>2
  <2> QED
    BY <2>1, <2>2, <2>3 DEF FindStage
<1> QED
  BY <1>2, YardReads DEF FindStage

LEMMA UpdateStageOK ==
  ASSUME CodesInv, TablesOK, NEW r \in Requests, UpdateStage(r)
  PROVE  CodesInv' /\ TablesOK' /\ (StageTimes => StageTimes')
<1> PICK f \in Frames : f = slot[r]
  BY DEF CodesInv, SlotsOK
<1>1. f \in [pc : {"updateStage"}, stage : Nat,
             status : ArrivalStatuses \cup {None}, row : Stage]
  BY YardFrameAt DEF UpdateStage, EndAt, At
<1>2. CodesInv'
  <2>1. lastId' \in Nat
    BY DEF UpdateStage, CodesInv
  <2> QED
    BY <2>1, EndAtGoes, YardGoes DEF UpdateStage
<1>3. UNCHANGED <<vehicles, lastId, centers, users, arrivals, exits>>
  BY DEF UpdateStage
<1>4. CASE f.stage \in DOMAIN stages /\ f.status # None
  <2>0. PICK now \in Starting :
          stages' = [stages EXCEPT ![f.stage] = Stamped(@, f.row, f.status, now)]
    BY <1>4 DEF UpdateStage
  <2> PICK i, s, read, row :
        /\ i = f.stage /\ s = f.status /\ read = f.row /\ row = stages[i]
    OBVIOUS
  <2> DEFINE new == [row EXCEPT
                       !.status = s,
                       !.started = IF s = "IN_PROCESSING" /\ read.started = Never
                                   THEN now ELSE @,
                       !.completed = IF (s = "COMPLETED") # read.completed
                                     THEN s = "COMPLETED" ELSE @]
  <2>1. i \in DOMAIN stages /\ row \in Stage /\ read \in Stage
        /\ s \in ArrivalStatuses /\ now \in Nat
    BY <1>1, <1>4, TimesArePositive DEF TablesOK
  <2>2. stages' = [stages EXCEPT ![i] = new]
        /\ raced' = IF row = read THEN raced \ {i} ELSE raced \cup {i}
    BY <1>4, <2>0 DEF UpdateStage, Stamped
  <2>3. new \in Stage /\ new.arrival = row.arrival /\ new.status = s
    BY <2>1 DEF Stage
  <2>4. row = read => (new.completed => s = "COMPLETED")
    BY <2>1 DEF Stage
  <2> HIDE DEF new
  <2>5. /\ DOMAIN stages' = DOMAIN stages /\ stages'[i] = new
        /\ \A j \in DOMAIN stages \ {i} : stages'[j] = stages[j]
        /\ stages' \in [DOMAIN stages' -> Stage]
    BY <2>1, <2>2, <2>3 DEF TablesOK
  <2>6. \A j \in DOMAIN stages' : stages'[j].arrival \in DOMAIN arrivals
    BY <2>1, <2>3, <2>5 DEF TablesOK
  <2>7. raced' \subseteq DOMAIN stages'
    BY <2>1, <2>2, <2>5 DEF TablesOK
  <2>8. TablesOK'
    BY <1>3, <2>5, <2>6, <2>7 DEF TablesOK, Stands, Known
  <2>9. ASSUME StageTimes, NEW j \in DOMAIN stages' \ raced', stages'[j].completed
        PROVE  stages'[j].status = "COMPLETED"
    <3>1. CASE j = i
      BY <2>2, <2>3, <2>4, <2>5, <2>9, <3>1
    <3>2. CASE j # i
      BY <2>2, <2>5, <2>9, <3>2 DEF StageTimes
    <3> QED
      BY <3>1, <3>2
  <2> QED
    BY <1>2, <2>8, <2>9 DEF StageTimes
<1>5. CASE ~ (f.stage \in DOMAIN stages /\ f.status # None)
  <2>1. UNCHANGED <<vehicles, yardVars, lastId>>
    BY <1>5 DEF UpdateStage, yardVars
  <2>2. lastId' \in Nat /\ lastId' >= lastId
    BY <2>1 DEF TablesOK
  <2>3. StageTimes => StageTimes'
    BY <2>1 DEF StageTimes, yardVars
  <2> QED
    BY <1>2, <2>1, <2>2, <2>3, TablesStay
<1> QED
  BY <1>4, <1>5

LEMMA RemoveStageOK ==
  ASSUME CodesInv, TablesOK, NEW r \in Requests, RemoveStage(r)
  PROVE  CodesInv' /\ TablesOK' /\ (StageTimes => StageTimes')
<1>1. CodesInv'
  <2>1. lastId' \in Nat
    BY DEF RemoveStage, CodesInv
  <2> QED
    BY <2>1, EndAtGoes, YardGoes DEF RemoveStage
<1> PICK i : i = slot[r].stage
  OBVIOUS
<1>2. UNCHANGED <<vehicles, lastId, centers, users, arrivals, exits>>
  BY DEF RemoveStage
<1>3. stages' = [j \in DOMAIN stages \ {i} |-> stages[j]] /\ raced' = raced \ {i}
  BY DEF RemoveStage, Without
<1>4. /\ DOMAIN stages' = DOMAIN stages \ {i}
      /\ \A j \in DOMAIN stages' : stages'[j] = stages[j]
      /\ stages' \in [DOMAIN stages' -> Stage]
  BY <1>3 DEF TablesOK
<1>5. TablesOK'
  BY <1>2, <1>3, <1>4 DEF TablesOK, Stands, Known
<1>6. StageTimes => StageTimes'
  BY <1>3, <1>4 DEF StageTimes
<1> QED
  BY <1>1, <1>5, <1>6

LEMMA UseExitOK ==
  ASSUME CodesInv, TablesOK, NEW r \in Requests, UseExit(r)
  PROVE  CodesInv' /\ TablesOK'
<1>1. UNCHANGED <<vehicles, qrCodes, lastId, key, labels, mishaps, yardVars>>
  BY DEF UseExit
<1> PICK e \in DOMAIN exits :
      \/ \E d \in Centers \cup {None} :
           Begin(r, [pc |-> "findExit", exit |-> e, destination |-> d])
      \/ Begin(r, [pc |-> "findRemoved", exit |-> e])
  BY DEF UseExit
<1>2. e \in Nat
  BY DEF TablesOK
<1>3. CASE \E d \in Centers \cup {None} :
             Begin(r, [pc |-> "findExit", exit |-> e, destination |-> d])
  <2> PICK d \in Centers \cup {None} :
        Begin(r, [pc |-> "findExit", exit |-> e, destination |-> d])
    BY <1>3
  <2> PICK g : g = [pc |-> "findExit", exit |-> e, destination |-> d]
    OBVIOUS
  <2>1. g \in YardFrame \cup {Idle}
    BY <1>2 DEF YardFrame
  <2> QED
    BY <1>1, <2>1, YardBegins
<1>4. CASE Begin(r, [pc |-> "findRemoved", exit |-> e])
  <2> PICK g : g = [pc |-> "findRemoved", exit |-> e]
    OBVIOUS
  <2>1. g \in YardFrame \cup {Idle}
    BY <1>2 DEF YardFrame
  <2> QED
    BY <1>1, <1>4, <2>1, YardBegins
<1> QED
  BY <1>3, <1>4

LEMMA FindExitOK ==
  ASSUME CodesInv, TablesOK, NEW r \in Requests,
         FindExit(r) \/ FindDestination(r)
  PROVE  CodesInv' /\ TablesOK'
<1> PICK f \in Frames : f = slot[r]
  BY DEF CodesInv, SlotsOK
<1>1. UNCHANGED <<vehicles, qrCodes, lastId, key, labels, served, mishaps,
                  yardVars>>
  BY DEF FindExit, FindDestination
<1>2. CASE Goto(r, Idle)
  BY <1>1, <1>2, YardReads
<1>3. CASE f.pc = "findRemoved" /\ Goto(r, [f EXCEPT !.pc = "removeExit"])
  <2>1. [f EXCEPT !.pc = "removeExit"] \in YardFrame
    <3>1. f \in [pc : {"findRemoved", "removeExit"}, exit : Nat]
      BY <1>3, YardFrameAt
    <3> QED
      BY <3>1 DEF YardFrame
  <2> QED
    BY <1>1, <1>3, <2>1, YardReads
<1>4. CASE /\ f.pc \in {"findExit", "findDest"}
           /\ \E pc \in {"updateExit", "findDest"} : Goto(r, [f EXCEPT !.pc = pc])
  <2> PICK pc \in {"updateExit", "findDest"} : Goto(r, [f EXCEPT !.pc = pc])
    BY <1>4
  <2>1. [f EXCEPT !.pc = pc] \in YardFrame
    <3>1. f \in [pc : {"findExit", "findDest", "updateExit"}, exit : Nat,
                 destination : Centers \cup {None}]
      BY <1>4, YardFrameAt
    <3> QED
      BY <3>1 DEF YardFrame
  <2> QED
    BY <1>1, <2>1, YardReads
<1> QED
  BY <1>2, <1>3, <1>4 DEF FindExit, FindDestination, At

LEMMA UpdateExitOK ==
  ASSUME CodesInv, TablesOK, NEW r \in Requests, UpdateExit(r)
  PROVE  CodesInv' /\ TablesOK'
<1> PICK f \in Frames : f = slot[r]
  BY DEF CodesInv, SlotsOK
<1>1. f \in [pc : {"findExit", "findDest", "updateExit"}, exit : Nat,
             destination : Centers \cup {None}]
  BY YardFrameAt DEF UpdateExit, EndAt, At
<1>2. CodesInv'
  <2>1. lastId' \in Nat
    BY DEF UpdateExit, CodesInv
  <2> QED
    BY <2>1, EndAtGoes, YardGoes DEF UpdateExit
<1>3. UNCHANGED <<vehicles, lastId, centers, users, arrivals, stages, raced>>
  BY DEF UpdateExit
<1>4. exits' = [e \in DOMAIN exits |->
                  IF e = f.exit /\ f.destination \in ToSet(centers) \cup {None}
                  THEN [exits[e] EXCEPT !.destination = f.destination]
                  ELSE exits[e]]
  BY DEF UpdateExit
<1>5. ASSUME NEW e \in DOMAIN exits
      PROVE  /\ exits'[e] \in Exit /\ Stands(exits'[e])
             /\ exits'[e].destination \in ToSet(centers) \cup {None}
  <2>1. exits[e] \in Exit /\ Stands(exits[e])
        /\ exits[e].destination \in ToSet(centers) \cup {None}
    BY DEF TablesOK
  <2>2. CASE e = f.exit /\ f.destination \in ToSet(centers) \cup {None}
    <3>1. exits'[e] = [exits[e] EXCEPT !.destination = f.destination]
      BY <1>4, <2>2
    <3> QED
      BY <1>1, <2>1, <2>2, <3>1 DEF Exit, Stands
  <2>3. CASE ~ (e = f.exit /\ f.destination \in ToSet(centers) \cup {None})
    BY <1>4, <2>1, <2>3
  <2> QED
    BY <2>2, <2>3
<1>6. DOMAIN exits' = DOMAIN exits /\ exits' \in [DOMAIN exits' -> Exit]
  BY <1>4, <1>5
<1> QED
  BY <1>2, <1>3, <1>5, <1>6 DEF TablesOK, Stands, Known

LEMMA RemoveExitOK ==
  ASSUME CodesInv, TablesOK, NEW r \in Requests, RemoveExit(r)
  PROVE  CodesInv' /\ TablesOK'
<1>1. CodesInv'
  <2>1. lastId' \in Nat
    BY DEF RemoveExit, CodesInv
  <2> QED
    BY <2>1, EndAtGoes, YardGoes DEF RemoveExit
<1> PICK e : e = slot[r].exit
  OBVIOUS
<1>2. UNCHANGED <<vehicles, lastId, centers, users, arrivals, stages, raced>>
  BY DEF RemoveExit
<1>3. exits' = [j \in DOMAIN exits \ {e} |-> exits[j]]
  BY DEF RemoveExit, Without
<1>4. /\ DOMAIN exits' = DOMAIN exits \ {e}
      /\ \A j \in DOMAIN exits' : exits'[j] = exits[j]
      /\ exits' \in [DOMAIN exits' -> Exit]
  BY <1>3 DEF TablesOK
<1> QED
  BY <1>1, <1>2, <1>4 DEF TablesOK, Stands, Known

(* A request that a slot has no part in.                                   *)
LEMMA ServedOK ==
  ASSUME CodesInv, Served, UNCHANGED <<qrCodes, lastId, key, labels, slot, mishaps>>
  PROVE  CodesInv'
<1>1. served' \in 0..MaxRequests
  BY QrCodesAssumption DEF Served, CodesInv, CodesOK
<1> QED
  BY <1>1 DEF CodesInv, CodesOK, SlotsOK, NeedsNoOther, PrintedCodeScans, Scans,
              Readable

LEMMA RemoveVehicleOK ==
  ASSUME CodesInv, TablesOK, RemoveVehicle
  PROVE  CodesInv' /\ TablesOK' /\ (StageTimes => StageTimes')
<1>1. CodesInv'
  BY ServedOK DEF RemoveVehicle
<1>2. UNCHANGED <<lastId, centers, users>>
  BY DEF RemoveVehicle
<1> PICK v \in ToSet(vehicles), orphans \in SUBSET DOMAIN stages :
      /\ orphans = {i \in DOMAIN stages :
                      stages[i].arrival \in Of(arrivals, v)}
      /\ vehicles' = RemoveFirst(vehicles, v)
      /\ arrivals' = Without(arrivals, Of(arrivals, v))
      /\ stages' = Without(stages, orphans)
      /\ raced' = raced \ orphans
      /\ exits' = Without(exits, Of(exits, v))
  BY DEF RemoveVehicle
<1>3. vehicles' \in Seq(Vehicles) /\ ToSet(vehicles) \ {v} \subseteq ToSet(vehicles')
  <2> PICK s : s = vehicles
    OBVIOUS
  <2>1. s \in Seq(Vehicles) /\ v \in ToSet(s)
    BY DEF TablesOK
  <2> QED
    BY <2>1, RemovesFirst
<1>4. /\ DOMAIN arrivals' = {i \in DOMAIN arrivals : arrivals[i].vehicle # v}
      /\ \A i \in DOMAIN arrivals' : arrivals'[i] = arrivals[i]
      /\ arrivals' \in [DOMAIN arrivals' -> Arrival]
  <2>1. arrivals' = [i \in DOMAIN arrivals \ Of(arrivals, v) |-> arrivals[i]]
    BY DEF Without
  <2>2. DOMAIN arrivals \ Of(arrivals, v)
          = {i \in DOMAIN arrivals : arrivals[i].vehicle # v}
    BY DEF Of
  <2> QED
    BY <2>1, <2>2 DEF TablesOK
<1>5. /\ DOMAIN exits' = {i \in DOMAIN exits : exits[i].vehicle # v}
      /\ \A i \in DOMAIN exits' : exits'[i] = exits[i]
      /\ exits' \in [DOMAIN exits' -> Exit]
  <2>1. exits' = [i \in DOMAIN exits \ Of(exits, v) |-> exits[i]]
    BY DEF Without
  <2>2. DOMAIN exits \ Of(exits, v)
          = {i \in DOMAIN exits : exits[i].vehicle # v}
    BY DEF Of
  <2> QED
    BY <2>1, <2>2 DEF TablesOK
<1>6. /\ DOMAIN stages' = DOMAIN stages \ orphans
      /\ \A i \in DOMAIN stages' : stages'[i] = stages[i]
      /\ stages' \in [DOMAIN stages' -> Stage]
  BY DEF Without, TablesOK
<1>7. \A i \in DOMAIN stages' : stages'[i].arrival \in DOMAIN arrivals'
  BY <1>4, <1>6 DEF TablesOK, Of
<1>8. ASSUME NEW row, Stands(row), row.vehicle # v
      PROVE  /\ row.vehicle \in ToSet(vehicles')
             /\ row.center \in ToSet(centers')
             /\ row.agent \in ToSet(users')
  BY <1>2, <1>3, <1>8 DEF Stands, Known
<1>9. \A i \in DOMAIN arrivals' : Stands(arrivals[i])'
  BY <1>4, <1>8 DEF TablesOK, Stands, Known
<1>10. \A i \in DOMAIN exits' :
         Stands(exits[i])' /\ exits'[i].destination \in ToSet(centers) \cup {None}
  BY <1>5, <1>8 DEF TablesOK, Stands, Known
<1>11. TablesOK'
  BY <1>2, <1>3, <1>4, <1>5, <1>6, <1>7, <1>9, <1>10 DEF TablesOK
<1>12. StageTimes => StageTimes'
  BY <1>6 DEF StageTimes
<1> QED
  BY <1>1, <1>11, <1>12

LEMMA CreateVehicleOrUserOK ==
  ASSUME CodesInv, TablesOK, CreateVehicleOrUser
  PROVE  CodesInv' /\ TablesOK'
<1>1. CodesInv'
  BY ServedOK DEF CreateVehicleOrUser
<1>2. UNCHANGED <<lastId, centers, arrivals, stages, exits, raced>>
  BY DEF CreateVehicleOrUser
<1>3. /\ vehicles' \in Seq(Vehicles) /\ ToSet(vehicles) \subseteq ToSet(vehicles')
      /\ users' \in Seq(Agents) /\ ToSet(users) \subseteq ToSet(users')
  <2> PICK s, u : s = vehicles /\ u = users
    OBVIOUS
  <2>1. s \in Seq(Vehicles) /\ u \in Seq(Agents)
    BY DEF TablesOK
  <2>2. CASE \E v \in Vehicles : vehicles' = Append(s, v) /\ users' = u
    <3> PICK v \in Vehicles : vehicles' = Append(s, v) /\ users' = u
      BY <2>2
    <3>1. Append(s, v) \in Seq(Vehicles) /\ ToSet(s) \subseteq ToSet(Append(s, v))
      BY <2>1, ToSetAppend
    <3> QED
      BY <2>1, <3>1
  <2>3. CASE \E a \in Agents : users' = Append(u, a) /\ vehicles' = s
    <3> PICK a \in Agents : users' = Append(u, a) /\ vehicles' = s
      BY <2>3
    <3>1. Append(u, a) \in Seq(Agents) /\ ToSet(u) \subseteq ToSet(Append(u, a))
      BY <2>1, ToSetAppend
    <3> QED
      BY <2>1, <3>1
  <2> QED
    BY <2>2, <2>3 DEF CreateVehicleOrUser
<1>4. ASSUME NEW row, Stands(row)
      PROVE  /\ row.vehicle \in ToSet(vehicles')
             /\ row.center \in ToSet(centers')
             /\ row.agent \in ToSet(users')
  BY <1>2, <1>3, <1>4 DEF Stands, Known
<1>5. \A i \in DOMAIN arrivals' : Stands(arrivals[i])'
  BY <1>2, <1>4 DEF TablesOK, Stands, Known
<1>6. \A i \in DOMAIN exits' :
        Stands(exits[i])' /\ exits'[i].destination \in ToSet(centers) \cup {None}
  BY <1>2, <1>4 DEF TablesOK, Stands, Known
<1> QED
  BY <1>1, <1>2, <1>3, <1>5, <1>6 DEF TablesOK

LEMMA RemoveUserOK ==
  ASSUME CodesInv, TablesOK, RemoveUser
  PROVE  CodesInv' /\ TablesOK'
<1>1. CodesInv'
  BY ServedOK DEF RemoveUser
<1>2. UNCHANGED <<lastId, vehicles, centers, arrivals, stages, exits, raced>>
  BY DEF RemoveUser
<1> PICK a \in ToSet(users) :
      /\ \A i \in DOMAIN arrivals : arrivals[i].agent # a
      /\ \A i \in DOMAIN exits : exits[i].agent # a
      /\ users' = RemoveFirst(users, a)
  BY DEF RemoveUser
<1>3. users' \in Seq(Agents) /\ ToSet(users) \ {a} \subseteq ToSet(users')
  <2> PICK s : s = users
    OBVIOUS
  <2>1. s \in Seq(Agents) /\ a \in ToSet(s)
    BY DEF TablesOK
  <2> QED
    BY <2>1, RemovesFirst
<1>4. ASSUME NEW row, Stands(row), row.agent # a
      PROVE  /\ row.vehicle \in ToSet(vehicles')
             /\ row.center \in ToSet(centers')
             /\ row.agent \in ToSet(users')
  BY <1>2, <1>3, <1>4 DEF Stands, Known
<1>5. \A i \in DOMAIN arrivals' : Stands(arrivals[i])'
  BY <1>2, <1>4 DEF TablesOK, Stands, Known
<1>6. \A i \in DOMAIN exits' :
        Stands(exits[i])' /\ exits'[i].destination \in ToSet(centers) \cup {None}
  BY <1>2, <1>4 DEF TablesOK, Stands, Known
<1> QED
  BY <1>1, <1>2, <1>3, <1>5, <1>6 DEF TablesOK

LEMMA RemoveCenterOK ==
  ASSUME CodesInv, TablesOK, RemoveCenter
  PROVE  CodesInv' /\ TablesOK'
<1>1. CodesInv'
  BY ServedOK DEF RemoveCenter
<1>2. UNCHANGED <<lastId, vehicles, users, arrivals, stages, raced>>
  BY DEF RemoveCenter
<1> PICK c \in ToSet(centers) :
      /\ \A i \in DOMAIN arrivals : arrivals[i].center # c
      /\ \A i \in DOMAIN exits : exits[i].center # c
      /\ centers' = RemoveFirst(centers, c)
      /\ exits' = [e \in DOMAIN exits |->
                     [exits[e] EXCEPT
                        !.destination = IF @ = c THEN None ELSE @]]
  BY DEF RemoveCenter
<1>3. centers' \in Seq(Centers) /\ ToSet(centers) \ {c} \subseteq ToSet(centers')
  <2> PICK s : s = centers
    OBVIOUS
  <2>1. s \in Seq(Centers) /\ c \in ToSet(s)
    BY DEF TablesOK
  <2> QED
    BY <2>1, RemovesFirst
<1>4. ASSUME NEW row, Stands(row), row.center # c
      PROVE  /\ row.vehicle \in ToSet(vehicles')
             /\ row.center \in ToSet(centers')
             /\ row.agent \in ToSet(users')
  BY <1>2, <1>3, <1>4 DEF Stands, Known
<1>5. \A i \in DOMAIN arrivals' : Stands(arrivals[i])'
  BY <1>2, <1>4 DEF TablesOK, Stands, Known
<1>6. DOMAIN exits' = DOMAIN exits
  OBVIOUS
<1>7. ASSUME NEW e \in DOMAIN exits
      PROVE  /\ exits'[e] \in Exit
             /\ exits'[e].vehicle \in ToSet(vehicles')
             /\ exits'[e].center \in ToSet(centers')
             /\ exits'[e].agent \in ToSet(users')
             /\ exits'[e].destination \in ToSet(centers') \cup {None}
  <2> PICK row, new : row = exits[e] /\ new = exits'[e]
    OBVIOUS
  <2>1. row \in Exit /\ row.destination \in ToSet(centers) \cup {None}
    BY DEF TablesOK
  <2>2. new = [row EXCEPT !.destination = IF @ = c THEN None ELSE @]
    OBVIOUS
  <2>3. /\ new \in Exit /\ new.vehicle = row.vehicle /\ new.center = row.center
        /\ new.agent = row.agent
        /\ \/ new.destination = None
           \/ new.destination = row.destination /\ row.destination # c
    BY <2>1, <2>2 DEF Exit
  <2>4. Stands(exits[e]) /\ exits[e].center # c
    BY DEF TablesOK
  <2>5. /\ row.vehicle \in ToSet(vehicles')
        /\ row.center \in ToSet(centers')
        /\ row.agent \in ToSet(users')
    BY <1>4, <2>4
  <2> QED
    BY <1>3, <2>1, <2>3, <2>5
<1>8. exits' \in [DOMAIN exits' -> Exit]
  BY <1>6, <1>7
<1>9. \A i \in DOMAIN exits' :
        Stands(exits[i])' /\ exits'[i].destination \in ToSet(centers') \cup {None}
  BY <1>6, <1>7 DEF Stands, Known
<1> QED
  BY <1>1, <1>2, <1>3, <1>5, <1>6, <1>8, <1>9 DEF TablesOK

LEMMA StageTimesStay ==
  ASSUME StageTimes, UNCHANGED <<stages, raced>>
  PROVE  StageTimes'
BY DEF StageTimes

LEMMA YardStepOK ==
  ASSUME CodesInv, TablesOK, StageTimes, YardStep
  PROVE  CodesInv' /\ TablesOK' /\ StageTimes'
<1>1. CASE \E r \in Requests :
             \/ Create(r) \/ CheckVehicle(r) \/ CheckCenter(r) \/ CheckDestination(r)
             \/ RecordArrival(r) \/ RecordExit(r)
             \/ UseArrival(r) \/ FindArrival(r) \/ SetStatus(r)
             \/ FindStage(r)
             \/ UseExit(r) \/ FindExit(r) \/ FindDestination(r)
             \/ UpdateExit(r) \/ RemoveExit(r)
  <2> PICK r \in Requests :
        \/ Create(r) \/ CheckVehicle(r) \/ CheckCenter(r) \/ CheckDestination(r)
        \/ RecordArrival(r) \/ RecordExit(r)
        \/ UseArrival(r) \/ FindArrival(r) \/ SetStatus(r)
        \/ FindStage(r)
        \/ UseExit(r) \/ FindExit(r) \/ FindDestination(r)
        \/ UpdateExit(r) \/ RemoveExit(r)
    BY <1>1
  <2>1. CodesInv' /\ TablesOK'
    BY CreateOK, CheckOK, RecordArrivalOK, RecordExitOK, UseArrivalOK,
       FindArrivalOK, SetStatusOK, FindStageOK, UseExitOK, FindExitOK,
       UpdateExitOK, RemoveExitOK
  <2>2. UNCHANGED <<stages, raced>>
    BY DEF Create, CheckVehicle, CheckCenter, CheckDestination, RecordArrival,
           RecordExit, UseArrival, FindArrival, SetStatus, FindStage, UseExit,
           FindExit, FindDestination, UpdateExit, RemoveExit, yardVars
  <2> QED
    BY <2>1, <2>2, StageTimesStay
<1>2. CASE \E r \in Requests : AddStage(r) \/ UpdateStage(r) \/ RemoveStage(r)
  BY <1>2, AddStageOK, UpdateStageOK, RemoveStageOK
<1>3. CASE RemoveVehicle
  BY <1>3, RemoveVehicleOK
<1>4. CASE CreateVehicleOrUser
  BY <1>4, CreateVehicleOrUserOK, StageTimesStay DEF CreateVehicleOrUser
<1>5. CASE RemoveUser
  BY <1>5, RemoveUserOK, StageTimesStay DEF RemoveUser
<1>6. CASE RemoveCenter
  BY <1>6, RemoveCenterOK, StageTimesStay DEF RemoveCenter
<1> QED
  BY <1>1, <1>2, <1>3, <1>4, <1>5, <1>6 DEF YardStep

LEMMA QrLeavesTables ==
  ASSUME TablesOK, QrStep
  PROVE  vehicles' = vehicles /\ lastId' \in Nat /\ lastId' >= lastId
<1>1. lastId \in Nat
  BY DEF TablesOK
<1>2. vehicles' = vehicles /\ lastId' \in {lastId, lastId + 1}
  <2> PICK r \in Requests :
        \/ CallQrCode(r) \/ BulkGenerate(r) \/ SelectVehicle(r)
        \/ SelectCode(r) \/ RewriteCode(r) \/ InsertCode(r) \/ DeleteCode(r)
        \/ Validate(r) \/ Scan(r) \/ Upgrade(r) \/ Reread(r)
        \/ FailQrCode(r)
    BY DEF QrStep
  <2>1. CASE InsertCode(r)
    BY <2>1 DEF InsertCode
  <2>2. CASE ~ InsertCode(r)
    BY <2>2 DEF CallQrCode, BulkGenerate, SelectVehicle, SelectCode, RewriteCode,
                DeleteCode, Validate, Scan, Upgrade, Reread, FailQrCode
  <2> QED
    BY <2>1, <2>2
<1> QED
  BY <1>1, <1>2
-----------------------------------------------------------------------------
(* The client of a listing.                                                *)

(* What a table's ids are, table by table: a form that a step may prime.   *)
KeptOK(w, arr, sta, ex, veh, cen, usr) ==
  /\ w.table = "arrivals" => w.kept \subseteq DOMAIN arr
  /\ w.table = "stages" => w.kept \subseteq DOMAIN sta
  /\ w.table = "exits" => w.kept \subseteq DOMAIN ex
  /\ w.table = "vehicles" => w.kept \subseteq ToSet(veh)
  /\ w.table = "centers" => w.kept \subseteq ToSet(cen)
  /\ w.table = "users" => w.kept \subseteq ToSet(usr)

LEMMA KeptMeans ==
  ASSUME walk.table \in Tables
  PROVE  walk.kept \subseteq Ids(walk.table)
           <=> KeptOK(walk, arrivals, stages, exits, vehicles, centers, users)
BY DEF Ids, KeptOK, Tables

LEMMA KeptMeansAfter ==
  ASSUME walk'.table \in Tables
  PROVE  (walk.kept \subseteq Ids(walk.table))'
           <=> KeptOK(walk', arrivals', stages', exits', vehicles', centers', users')
BY DEF Ids, KeptOK, Tables

LEMMA AtHomeTyped ==
  WalkTyped(AtHome)
BY DEF AtHome, WalkTyped, Tables

LEMMA NothingKept ==
  ASSUME WalkTyped(walk'), walk'.kept = {}
  PROVE  WalkOK'
BY DEF WalkOK

LEMMA AtHomeOK ==
  ASSUME walk' = AtHome
  PROVE  WalkOK'
<1>1. walk'.kept = {}
  BY DEF AtHome
<1> QED
  BY <1>1, AtHomeTyped, NothingKept

(* The same table, and no more rows kept of it.                            *)
LEMMA SameTable ==
  ASSUME WalkOK, UNCHANGED <<vehicles, centers, users, arrivals, stages, exits>>,
         WalkTyped(walk'),
         walk'.kept \subseteq walk.kept, walk'.table = walk.table
  PROVE  WalkOK'
<1>1. walk.table \in Tables /\ walk'.table \in Tables
  BY DEF WalkOK, WalkTyped
<1>2. KeptOK(walk, arrivals, stages, exits, vehicles, centers, users)
  BY <1>1, KeptMeans DEF WalkOK
<1>3. KeptOK(walk', arrivals', stages', exits', vehicles', centers', users')
  BY <1>2 DEF KeptOK
<1>4. (walk.kept \subseteq Ids(walk.table))'
  BY <1>1, <1>3, KeptMeansAfter
<1> QED
  BY <1>4 DEF WalkOK

LEMMA AnswerOK ==
  ASSUME WalkOK, NEW rows, Answer(rows),
         UNCHANGED <<vehicles, centers, users, arrivals, stages, exits>>
  PROVE  WalkOK'
<1> PICK w, new, skipped : /\ w = walk /\ new = walk'
                           /\ skipped = walk.kept \ (walk.seen \cup rows)
  OBVIOUS
<1>1. WalkTyped(w)
  BY DEF WalkOK
<1>2. CASE HasNext
  <2>1. new = [w EXCEPT !.pc = "count", !.page = @ + 1, !.again = {},
                        !.got = {}, !.seen = @ \cup rows]
    BY <1>2 DEF Answer
  <2>2. new = [pc |-> "count", table |-> w.table, related |-> w.related,
               again |-> {}, page |-> w.page + 1, total |-> w.total,
               got |-> {}, seen |-> w.seen \cup rows, kept |-> w.kept,
               skipped |-> w.skipped]
    BY <1>1, <2>1 DEF WalkTyped
  <2>3. w.page + 1 \in Nat \ {0}
    BY <1>1 DEF WalkTyped
  <2>4. WalkTyped(new) /\ new.kept = w.kept /\ new.table = w.table
    BY <1>1, <2>2, <2>3 DEF WalkTyped
  <2> QED
    BY <2>4, SameTable
<1>3. CASE ~ HasNext
  <2>1. new = [AtHome EXCEPT !.skipped = skipped]
    BY <1>3 DEF Answer
  <2>2. new = [pc |-> "idle", table |-> "arrivals", related |-> FALSE,
               again |-> {}, page |-> 1, total |-> 0, got |-> {}, seen |-> {},
               kept |-> {}, skipped |-> skipped]
    BY <2>1 DEF AtHome
  <2>3. WalkTyped(new) /\ new.kept = {}
    BY <1>1, <2>2 DEF WalkTyped, Tables
  <2>4. WalkTyped(walk') /\ walk'.kept = {}
    BY <2>3
  <2> QED
    BY <2>4, NothingKept
<1> QED
  BY <1>2, <1>3

LEMMA StartWalkOK ==
  ASSUME WalkOK, StartWalk
  PROVE  WalkOK'
<1>1. PICK t \in Tables, related \in BOOLEAN : \E kept \in SUBSET Ids(t) :
        walk' = [AtHome EXCEPT !.pc = "count", !.table = t, !.related = related,
                               !.kept = kept]
  BY DEF StartWalk
<1>2. PICK kept, new :
        /\ kept \in SUBSET Ids(t) /\ new = walk'
        /\ new = [AtHome EXCEPT !.pc = "count", !.table = t, !.related = related,
                                !.kept = kept]
  BY <1>1
<1>3. new = [AtHome EXCEPT !.pc = "count", !.table = t, !.related = related,
                           !.kept = kept]
  BY <1>2
<1>4. /\ new = [pc |-> new.pc, table |-> new.table, related |-> new.related,
                again |-> new.again, page |-> new.page, total |-> new.total,
                got |-> new.got, seen |-> new.seen, kept |-> new.kept,
                skipped |-> new.skipped]
      /\ new.pc = "count" /\ new.table = t /\ new.again = {} /\ new.page = 1
      /\ new.total = 0 /\ new.kept = kept
      /\ new.related = related
  BY <1>3 DEF AtHome
<1>6. new.related \in BOOLEAN
  BY <1>4, Zenon
<1>7. WalkTyped(new)
  BY <1>4, <1>6 DEF WalkTyped
<1>8. UNCHANGED <<vehicles, centers, users, arrivals, stages, exits>>
  BY DEF StartWalk, yardVars
<1>9. KeptOK(new, arrivals', stages', exits', vehicles', centers', users')
  <2>1. KeptOK(new, arrivals, stages, exits, vehicles, centers, users)
    BY <1>2, <1>4 DEF Ids, KeptOK, Tables
  <2> QED
    BY <1>8, <2>1
<1>10. WalkTyped(walk') /\ walk'.table \in Tables
  BY <1>2, <1>4, <1>7
<1>11. KeptOK(walk', arrivals', stages', exits', vehicles', centers', users')
  BY <1>2, <1>9
<1> QED
  BY <1>10, <1>11, KeptMeansAfter DEF WalkOK

LEMMA IdsAreFinite ==
  ASSUME TablesOK, walk.table \in Tables
  PROVE  IsFiniteSet(Ids(walk.table))
<1>2. /\ IsFiniteSet(DOMAIN arrivals) /\ IsFiniteSet(DOMAIN stages)
      /\ IsFiniteSet(DOMAIN exits)
  BY TablesAreFinite
<1>3. IsFiniteSet(ToSet(vehicles))
  <2> PICK T : T = ToSet(vehicles)
    OBVIOUS
  <2>1. T \in SUBSET Vehicles /\ IsFiniteSet(Vehicles)
    BY ToSetOf, ListingAssumption DEF TablesOK
  <2> QED
    BY <2>1, FS_Subset
<1>4. IsFiniteSet(ToSet(centers))
  <2> PICK T : T = ToSet(centers)
    OBVIOUS
  <2>1. T \in SUBSET Centers /\ IsFiniteSet(Centers)
    BY ToSetOf, ListingAssumption DEF TablesOK
  <2> QED
    BY <2>1, FS_Subset
<1>5. IsFiniteSet(ToSet(users))
  <2> PICK T : T = ToSet(users)
    OBVIOUS
  <2>1. T \in SUBSET Agents /\ IsFiniteSet(Agents)
    BY ToSetOf, ListingAssumption DEF TablesOK
  <2> QED
    BY <2>1, FS_Subset
<1> QED
  BY <1>2, <1>3, <1>4, <1>5 DEF Ids, Tables

LEMMA CountRowsOK ==
  ASSUME TablesOK, WalkOK, CountRows
  PROVE  WalkOK'
<1>1. WalkTyped(walk)
  BY DEF WalkOK
<1> PICK w, new, n : w = walk /\ new = walk' /\ n = Cardinality(Ids(walk.table))
  OBVIOUS
<1>2. n \in Nat
  <2> PICK T : T = Ids(walk.table)
    OBVIOUS
  <2>1. IsFiniteSet(T)
    BY <1>1, IdsAreFinite DEF WalkTyped
  <2> QED
    BY <2>1, FS_CardinalityType
<1> PICK pc \in {"ids", "rows"} : new = [w EXCEPT !.total = n, !.pc = pc]
  BY DEF CountRows
<1>3. new = [pc |-> pc, table |-> w.table, related |-> w.related,
             again |-> w.again, page |-> w.page, total |-> n,
             got |-> w.got, seen |-> w.seen, kept |-> w.kept,
             skipped |-> w.skipped]
  BY <1>1 DEF WalkTyped
<1>4. WalkTyped(new) /\ new.kept = w.kept /\ new.table = w.table
  BY <1>1, <1>2, <1>3 DEF WalkTyped
<1>5. WalkTyped(walk') /\ walk'.kept = walk.kept /\ walk'.table = walk.table
  BY <1>4
<1> QED
  BY <1>5, SameTable DEF CountRows, qrVars, yardVars

LEMMA SelectOK ==
  ASSUME WalkOK, SelectRows \/ SelectIds \/ SelectRelated \/ SelectFallback
  PROVE  WalkOK'
<1>1. UNCHANGED <<vehicles, centers, users, arrivals, stages, exits>>
  BY DEF SelectRows, SelectIds, SelectRelated, SelectFallback, qrVars, yardVars
<1>2. CASE \E rows : Answer(rows)
  BY <1>1, <1>2, AnswerOK
<1>3. CASE \E rows : walk' = [walk EXCEPT !.pc = "related", !.got = rows]
  <2> PICK rows : walk' = [walk EXCEPT !.pc = "related", !.got = rows]
    BY <1>3
  <2> PICK w, new : w = walk /\ new = walk'
    OBVIOUS
  <2>1. WalkTyped(w)
    BY DEF WalkOK
  <2>2. new = [pc |-> "related", table |-> w.table, related |-> w.related,
               again |-> w.again, page |-> w.page, total |-> w.total,
               got |-> rows, seen |-> w.seen, kept |-> w.kept,
               skipped |-> w.skipped]
    BY <2>1 DEF WalkTyped
  <2>3. WalkTyped(walk') /\ walk'.kept = walk.kept /\ walk'.table = walk.table
    BY <2>1, <2>2 DEF WalkTyped
  <2> QED
    BY <1>1, <2>3, SameTable
<1>4. CASE SelectRows
  BY <1>2, <1>4 DEF SelectRows
<1>5. CASE SelectIds
  BY <1>2, <1>3, <1>5 DEF SelectIds
<1>6. CASE SelectRelated
  BY <1>2, <1>6 DEF SelectRelated
<1>7. CASE SelectFallback
  BY <1>2, <1>7 DEF SelectFallback
<1> QED
  BY <1>4, <1>5, <1>6, <1>7

(* The statements that are tried again.                                    *)
LEMMA Retries ==
  ASSUME NEW t \in Tables
  PROVE  \A pc \in DOMAIN Listings(t).retries :
           /\ pc \in {"count", "rows"}
           /\ Listings(t).retries[pc] \in {"count", "rows"}
<1> USE DEF Listings, Tables
<1>1. CASE t = "arrivals"
  BY <1>1 DEF ArrivalListing
<1>2. CASE t = "stages"
  BY <1>2 DEF StageListing
<1>3. CASE t = "exits"
  BY <1>3 DEF ExitListing
<1>4. CASE t = "vehicles"
  BY <1>4 DEF VehicleListing
<1>5. CASE t = "centers"
  BY <1>5 DEF CenterListing
<1>6. CASE t = "users"
  BY <1>6 DEF UserListing
<1> QED
  BY <1>1, <1>2, <1>3, <1>4, <1>5, <1>6

LEMMA FailListingOK ==
  ASSUME WalkOK, FailListing
  PROVE  WalkOK'
<1>1. UNCHANGED <<vehicles, centers, users, arrivals, stages, exits>>
  BY DEF FailListing, yardVars
<1>2. WalkTyped(walk)
  BY DEF WalkOK
<1>3. CASE walk' = AtHome
  BY <1>3, AtHomeOK
<1>4. CASE /\ walk.pc = "related"
           /\ walk' = [walk EXCEPT !.pc = "fallback",
                                   !.kept = IF walk.page > 1 THEN @ \ walk.got
                                           ELSE @]
  <2> PICK w, new : w = walk /\ new = walk'
    OBVIOUS
  <2>1. new = [pc |-> "fallback", table |-> w.table, related |-> w.related,
               again |-> w.again, page |-> w.page, total |-> w.total,
               got |-> w.got, seen |-> w.seen,
               kept |-> IF w.page > 1 THEN w.kept \ w.got ELSE w.kept,
               skipped |-> w.skipped]
    BY <1>2, <1>4 DEF WalkTyped
  <2>2. /\ WalkTyped(walk') /\ walk'.table = walk.table
        /\ walk'.kept \subseteq walk.kept
    <3>1. w.pc = "related"
      BY <1>4
    <3> QED
      BY <1>2, <2>1, <3>1 DEF WalkTyped
  <2> QED
    BY <1>1, <2>2, SameTable
<1>5. CASE /\ walk.pc \in DOMAIN Listings(walk.table).retries
           /\ walk' = [walk EXCEPT !.pc = Listings(walk.table).retries[walk.pc],
                                   !.again = {"count", walk.pc}]
  <2> PICK w, new, pc : /\ w = walk /\ new = walk'
                        /\ pc = Listings(walk.table).retries[walk.pc]
    OBVIOUS
  <2>1. pc \in {"count", "rows"} /\ w.pc \in {"count", "rows"}
    BY <1>2, <1>5, Retries DEF WalkTyped
  <2>2. new = [pc |-> pc, table |-> w.table, related |-> w.related,
               again |-> {"count", w.pc}, page |-> w.page, total |-> w.total,
               got |-> w.got, seen |-> w.seen, kept |-> w.kept,
               skipped |-> w.skipped]
    BY <1>2, <1>5 DEF WalkTyped
  <2>3. WalkTyped(walk') /\ walk'.kept = walk.kept /\ walk'.table = walk.table
    BY <1>2, <2>1, <2>2 DEF WalkTyped
  <2> QED
    BY <1>1, <2>3, SameTable
<1> QED
  BY <1>3, <1>4, <1>5 DEF FailListing

(* What other requests do to the tables, they may take rows from what a    *)
(* walk keeps.                                                             *)
LEMMA WatchOK ==
  ASSUME WalkOK, Watch
  PROVE  WalkOK'
<1>1. WalkTyped(walk)
  BY DEF WalkOK
<1>2. CASE walk.kept = {}
  <2>1. walk' = walk
    BY <1>2 DEF Watch
  <2> QED
    BY <1>1, <1>2, <2>1, NothingKept
<1>3. CASE UNCHANGED <<vehicles, yardVars>>
  <2>1. CASE walk' = walk
    <3>1. WalkTyped(walk') /\ walk'.kept = walk.kept /\ walk'.table = walk.table
      BY <1>1, <2>1
    <3> QED
      BY <1>3, <3>1, SameTable DEF yardVars
  <2> QED
    BY <1>3, <2>1 DEF Watch
<1>4. CASE walk.kept # {} /\ ~ UNCHANGED <<vehicles, yardVars>>
  <2>1. PICK t \in {walk.table} : \E kept \in SUBSET Ids(t)' :
          walk' = [walk EXCEPT !.kept = kept]
    <3>1. PICK t \in {walk.table} : \E was, now :
            walk' = [walk EXCEPT
                       !.kept = {x \in @ \cap Ids(t)' :
                                   /\ Onward(x, was, now) /\ Onward(x, now, now)
                                   /\ ~ PushedOff(x, now)}]
      BY <1>4 DEF Watch
    <3> QED
      BY <3>1
  <2> PICK kept \in SUBSET Ids(t)' : walk' = [walk EXCEPT !.kept = kept]
    BY <2>1
  <2>2. WalkTyped(walk') /\ walk'.kept = kept /\ walk'.table = t
    <3> PICK w, after : w = walk /\ after = walk'
      OBVIOUS
    <3>1. WalkTyped(w) /\ w.pc # "idle" /\ w.table = t
      BY <1>1, <1>4 DEF WalkTyped
    <3>2. after = [pc |-> w.pc, table |-> w.table, related |-> w.related,
                   again |-> w.again, page |-> w.page, total |-> w.total,
                   got |-> w.got, seen |-> w.seen, kept |-> kept,
                   skipped |-> w.skipped]
      BY <2>1, <3>1 DEF WalkTyped
    <3>3. WalkTyped(after) /\ after.kept = kept /\ after.table = t
      BY <3>1, <3>2 DEF WalkTyped
    <3> QED
      BY <3>3
  <2>3. walk'.table \in Tables
    BY <2>2 DEF WalkTyped
  <2>4. KeptOK(walk', arrivals', stages', exits', vehicles', centers', users')
    BY <2>2, <2>3 DEF Ids, KeptOK, Tables
  <2> QED
    BY <2>2, <2>3, <2>4, KeptMeansAfter DEF WalkOK
<1> QED
  BY <1>2, <1>3, <1>4
-----------------------------------------------------------------------------
IInv == CodesInv /\ TablesOK /\ StageTimes /\ WalkOK

LEMMA SomeOrder ==
  ASSUME NEW S, IsFiniteSet(S), S # {}, NEW s \in SetToSeqs(S)
  PROVE  s \in Seq(S) /\ Head(s) \in ToSet(s) /\ Last(s) \in ToSet(s)
<1>1. Cardinality(S) \in Nat /\ Cardinality(S) # 0
  BY FS_CardinalityType, FS_EmptySet
<1>2. s \in [1..Cardinality(S) -> S]
  BY DEF SetToSeqs
<1>3. s \in Seq(S) /\ Len(s) = Cardinality(S)
  BY <1>1, <1>2
<1>4. 1 \in DOMAIN s /\ Len(s) \in DOMAIN s
  BY <1>1, <1>2, <1>3
<1>5. Head(s) = s[1] /\ Last(s) = s[Len(s)]
  BY <1>1, <1>3 DEF Last
<1> QED
  BY <1>3, <1>4, <1>5 DEF ToSet

LEMMA InitOK ==
  ASSUME Init
  PROVE  IInv
<1>1. /\ key = 1 /\ labels = {} /\ slot = [r \in Requests |-> Idle]
      /\ served = 0 /\ mishaps = 0 /\ raced = {} /\ walk = AtHome
  BY DEF Init
<1>2. /\ vehicles \in Seq(Vehicles) /\ Head(vehicles) \in ToSet(vehicles)
      /\ centers \in Seq(Centers) /\ Head(centers) \in ToSet(centers)
      /\ Last(centers) \in ToSet(centers)
  <2> PICK v, c : v = vehicles /\ c = centers
    OBVIOUS
  <2>1. v \in SetToSeqs(Vehicles) /\ c \in SetToSeqs(Centers)
    BY DEF Init
  <2>2. IsFiniteSet(Vehicles) /\ Vehicles # {} /\ IsFiniteSet(Centers) /\ Centers # {}
    BY ListingAssumption
  <2> QED
    BY <2>1, <2>2, SomeOrder
<1>3. WalkOK
  <2>1. WalkTyped(walk) /\ walk.kept = {}
    BY <1>1, AtHomeTyped DEF AtHome
  <2> QED
    BY <2>1 DEF WalkOK
<1>4. SlotsOK /\ \A r \in Requests : NeedsNoOther(slot[r])
  BY <1>1 DEF SlotsOK, Frames, NeedsNoOther, Rewrites, Idle
<1>5. PrintedCodeScans
  BY <1>1 DEF PrintedCodeScans
<1>6. served \in 0..MaxRequests /\ mishaps \in 0..MaxMishaps /\ key \in Nat \ {Plain}
  BY <1>1, QrCodesAssumption DEF Plain
<1>7. CASE /\ users = <<>>
           /\ arrivals = <<>> /\ stages = <<>> /\ exits = <<>>
           /\ \/ lastId = 0 /\ qrCodes = <<>>
              \/ /\ lastId = 1
                 /\ qrCodes = [v \in {Head(vehicles)} |-> [id |-> 1, content |-> 2]]
  <2> PICK v : v = Head(vehicles)
    OBVIOUS
  <2>1. CodesOK
    <3>1. v \in Vehicles
      BY <1>2 DEF ToSet
    <3>2. qrCodes = <<>> \/ qrCodes = [x \in {v} |-> [id |-> 1, content |-> 2]]
      BY <1>7
    <3>3. CASE qrCodes = <<>>
      <4>1. DOMAIN qrCodes = {}
        BY <3>3
      <4> QED
        BY <1>1, <1>6, <3>3, <4>1 DEF CodesOK
    <3>4. CASE qrCodes = [x \in {v} |-> [id |-> 1, content |-> 2]]
      <4>1. [id |-> 1, content |-> 2] \in Row
        BY DEF Row
      <4>2. DOMAIN qrCodes = {v} /\ qrCodes \in [{v} -> Row]
        BY <3>4, <4>1
      <4> QED
        BY <1>1, <1>6, <3>1, <4>2 DEF CodesOK
    <3> QED
      BY <3>2, <3>3, <3>4
  <2>2. CodesInv
    BY <1>4, <1>5, <1>7, <2>1 DEF CodesInv
  <2>3. TablesOK
    BY <1>1, <1>2, <1>7 DEF TablesOK
  <2>4. StageTimes
    BY <1>7 DEF StageTimes
  <2> QED
    BY <1>3, <2>2, <2>3, <2>4 DEF IInv
<1>8. CASE /\ users \in SetToSeqs(Agents) /\ lastId = 4
           /\ arrivals = [i \in {1} |->
                [vehicle |-> Head(vehicles), center |-> Head(centers),
                 agent |-> Head(users), status |-> "ARRIVED", at |-> 2]]
           /\ stages = [i \in {2} |->
                [arrival |-> 1, status |-> None, started |-> Never,
                 completed |-> FALSE]]
           /\ exits = [i \in {3} |->
                [vehicle |-> Head(vehicles), center |-> Head(centers),
                 agent |-> Head(users), destination |-> Last(centers),
                 at |-> 2]]
           /\ qrCodes = [v \in {Head(vehicles)} |-> [id |-> 4, content |-> Plain]]
  <2> PICK v, c, d : v = Head(vehicles) /\ c = Head(centers) /\ d = Last(centers)
    OBVIOUS
  <2> PICK a : a = Head(users)
    OBVIOUS
  <2>1. users \in Seq(Agents) /\ a \in ToSet(users)
    <3> PICK u : u = users
      OBVIOUS
    <3>1. u \in SetToSeqs(Agents) /\ IsFiniteSet(Agents) /\ Agents # {}
      BY <1>8, ListingAssumption
    <3> QED
      BY <3>1, SomeOrder
  <2>2. /\ v \in Vehicles /\ v \in ToSet(vehicles)
        /\ c \in Centers /\ c \in ToSet(centers)
        /\ d \in Centers /\ d \in ToSet(centers)
        /\ a \in Agents
    BY <1>2, <2>1 DEF ToSet
  <2>3. CodesOK
    BY <1>1, <1>6, <1>8, <2>2 DEF CodesOK, Row, Plain
  <2>4. CodesInv
    BY <1>4, <1>5, <1>8, <2>3 DEF CodesInv
  <2>5. arrivals = [i \in {1} |-> [vehicle |-> v, center |-> c, agent |-> a,
                                  status |-> "ARRIVED", at |-> 2]]
    BY <1>8
  <2>6. exits = [i \in {3} |-> [vehicle |-> v, center |-> c, agent |-> a,
                                destination |-> d, at |-> 2]]
    BY <1>8
  <2>7. /\ DOMAIN arrivals = {1} /\ arrivals \in [DOMAIN arrivals -> Arrival]
        /\ \A i \in DOMAIN arrivals : Stands(arrivals[i])
    BY <2>1, <2>2, <2>5 DEF Arrival, ArrivalStatuses, Stands, Known
  <2>8. /\ DOMAIN exits = {3} /\ exits \in [DOMAIN exits -> Exit]
        /\ \A i \in DOMAIN exits :
             Stands(exits[i]) /\ exits[i].destination \in ToSet(centers) \cup {None}
    BY <2>1, <2>2, <2>6 DEF Exit, Stands, Known
  <2>9. /\ DOMAIN stages = {2} /\ stages \in [DOMAIN stages -> Stage]
        /\ stages[2].arrival = 1 /\ ~ stages[2].completed
    BY <1>8 DEF Stage, Never
  <2>10. {1} \subseteq 1..4 /\ {3} \subseteq 1..4 /\ {2} \subseteq 1..4
    OBVIOUS
  <2>11. TablesOK
    BY <1>1, <1>2, <1>8, <2>1, <2>7, <2>8, <2>9, <2>10 DEF TablesOK
  <2>12. StageTimes
    BY <2>9 DEF StageTimes
  <2> QED
    BY <1>3, <2>4, <2>11, <2>12 DEF IInv
<1> QED
  BY <1>7, <1>8 DEF Init

LEMMA NextOK ==
  ASSUME IInv, [Next]_vars
  PROVE  IInv'
<1> USE DEF IInv
<1>1. CASE QrStep /\ UNCHANGED yardVars /\ Watch
  <2>1. CodesInv'
    BY <1>1, QrStepOK
  <2>2. TablesOK'
    BY <1>1, QrLeavesTables, TablesStay
  <2>3. StageTimes'
    BY <1>1, StageTimesStay DEF yardVars
  <2> QED
    BY <1>1, <2>1, <2>2, <2>3, WatchOK
<1>2. CASE YardStep /\ Watch
  BY <1>2, YardStepOK, WatchOK
<1>3. ASSUME UNCHANGED <<vehicles, qrCodes, lastId, key, labels, slot, mishaps,
                         yardVars>>,
             served' \in 0..MaxRequests
      PROVE  CodesInv' /\ TablesOK' /\ StageTimes'
  <2>1. CodesInv'
    BY <1>3 DEF CodesInv, CodesOK, SlotsOK, NeedsNoOther, PrintedCodeScans,
                Scans, Readable
  <2>2. lastId' \in Nat /\ lastId' >= lastId
    BY <1>3 DEF TablesOK
  <2>3. TablesOK'
    BY <1>3, <2>2, TablesStay
  <2>4. StageTimes'
    BY <1>3, StageTimesStay DEF yardVars
  <2> QED
    BY <2>1, <2>3, <2>4
<1>4. CASE StartWalk
  <2>1. served' \in 0..MaxRequests
    BY <1>4, QrCodesAssumption DEF StartWalk, Served, CodesInv, CodesOK
  <2> QED
    BY <1>3, <1>4, <2>1, StartWalkOK DEF StartWalk
<1>5. CASE CountRows \/ SelectRows \/ SelectIds \/ SelectRelated \/ SelectFallback
  <2>1. /\ UNCHANGED <<vehicles, qrCodes, lastId, key, labels, slot, mishaps,
                       yardVars>>
        /\ served' = served
    BY <1>5 DEF CountRows, SelectRows, SelectIds, SelectRelated, SelectFallback,
                qrVars
  <2>2. served' \in 0..MaxRequests
    BY <2>1 DEF CodesInv, CodesOK
  <2> QED
    BY <1>3, <1>5, <2>1, <2>2, CountRowsOK, SelectOK
<1>6. CASE FailListing
  <2>1. UNCHANGED <<vehicles, qrCodes, lastId, key, labels, slot, served, yardVars>>
        /\ mishaps' \in 0..MaxMishaps
    BY <1>6, QrCodesAssumption DEF FailListing, CodesInv, CodesOK
  <2>2. CodesInv'
    BY <2>1 DEF CodesInv, CodesOK, SlotsOK, NeedsNoOther, PrintedCodeScans,
                Scans, Readable
  <2>3. lastId' \in Nat /\ lastId' >= lastId
    BY <2>1 DEF TablesOK
  <2>4. TablesOK'
    BY <2>1, <2>3, TablesStay
  <2>5. StageTimes'
    BY <2>1, StageTimesStay DEF yardVars
  <2> QED
    BY <1>6, <2>2, <2>4, <2>5, FailListingOK
<1>7. CASE Restart /\ walk' = AtHome /\ UNCHANGED yardVars
  <2>1. lastId' \in Nat /\ lastId' >= lastId /\ vehicles' = vehicles
    BY <1>7 DEF Restart, TablesOK
  <2>2. TablesOK'
    BY <1>7, <2>1, TablesStay
  <2>3. StageTimes'
    BY <1>7, StageTimesStay DEF yardVars
  <2> QED
    BY <1>7, <2>2, <2>3, RestartOK, AtHomeOK
<1>8. CASE UNCHANGED vars
  <2>1. /\ UNCHANGED <<vehicles, qrCodes, lastId, key, labels, slot, mishaps,
                       yardVars>>
        /\ served' = served /\ walk' = walk
    BY <1>8 DEF vars, qrVars
  <2>2. served' \in 0..MaxRequests
    BY <2>1 DEF CodesInv, CodesOK
  <2>3. WalkTyped(walk') /\ walk'.kept = walk.kept /\ walk'.table = walk.table
    BY <2>1 DEF WalkOK
  <2>4. WalkOK'
    BY <2>1, <2>3, SameTable DEF yardVars
  <2> QED
    BY <1>3, <2>1, <2>2, <2>4
<1> QED
  BY <1>1, <1>2, <1>4, <1>5, <1>6, <1>7, <1>8 DEF Next

LEMMA Inductive ==
  Spec => []IInv
<1>1. Init => IInv
  BY InitOK
<1>2. IInv /\ [Next]_vars => IInv'
  BY NextOK
<1> QED
  BY <1>1, <1>2, PTL DEF Spec

LEMMA IInvMeans ==
  ASSUME IInv
  PROVE  TypeOK /\ PrintedCodeScans /\ StageTimes
<1>1. /\ ToSet(vehicles) \subseteq Vehicles /\ ToSet(centers) \subseteq Centers
      /\ ToSet(users) \subseteq Agents
  BY ToSetOf DEF IInv, TablesOK
<1>2. QrTypeOK
  BY <1>1 DEF IInv, CodesInv, CodesOK, QrTypeOK
<1>3. ASSUME NEW table \in {arrivals, exits}, NEW i \in DOMAIN table
      PROVE  /\ i \in 1..lastId
             /\ Known(table[i].vehicle)
             /\ table[i].center \in ToSet(centers)
             /\ table[i].agent \in ToSet(users)
  BY DEF IInv, TablesOK, Stands
<1>4. \A i \in DOMAIN exits : exits[i].destination \in ToSet(centers) \cup {None}
  BY DEF IInv, TablesOK
<1>5. \A i \in DOMAIN arrivals : arrivals[i].status \in ArrivalStatuses
  BY DEF IInv, TablesOK, Arrival
<1>6. ASSUME NEW table \in {arrivals, exits}, NEW i \in DOMAIN table
      PROVE  table[i].at > Never
  BY DEF IInv, TablesOK, Arrival, Exit, Never
<1>7. YardTypeOK
  BY <1>1, <1>2, <1>3, <1>4, <1>5, <1>6
  DEF IInv, TablesOK, CodesInv, SlotsOK, Frames, YardTypeOK
<1>8. TypeOK
  BY <1>7 DEF IInv, WalkOK, WalkTyped, TypeOK
<1> QED
  BY <1>8 DEF IInv, CodesInv

(* The types of the tables, the requests and the client, with the foreign  *)
(* keys of the schemas: no request leaves an arrival without its vehicle   *)
(* or a stage without its arrival, in whatever order they delete.          *)
THEOREM TypeCorrect ==
  Spec => []TypeOK
BY Inductive, IInvMeans, PTL

(* A label that was handed out or scanned under the current key can be     *)
(* scanned, however generation, regeneration, deletion, scans, failures    *)
(* and restarts interleave (generateQrCode, validateQrCode).               *)
THEOREM LabelsScan ==
  Spec => []PrintedCodeScans
BY Inductive, IInvMeans, PTL

(* A stage whose last update was decided on its current row has a time of  *)
(* completion only while it is COMPLETED (updateProcessingStage).          *)
THEOREM CompletionIsCleared ==
  Spec => []StageTimes
BY Inductive, IInvMeans, PTL
-----------------------------------------------------------------------------
(* The pages of a listing.                                                 *)

(* An order names every row once.                                          *)
Enumerates(o, ids) ==
  /\ o \in Seq(ids) /\ NoTwice(o)
  /\ \A x \in ids : \E i \in 1..Len(o) : x = o[i]
  /\ Len(o) = Cardinality(ids)

LEMMA SeqsEnumerate ==
  ASSUME NEW S, IsFiniteSet(S), NEW o \in SetToSeqs(S)
  PROVE  Enumerates(o, S)
<1> PICK n : n = Cardinality(S)
  OBVIOUS
<1>1. n \in Nat
  BY FS_CardinalityType
<1>2. o \in [1..n -> S] /\ \A i, j \in 1..n : i # j => o[i] # o[j]
  BY DEF SetToSeqs
<1>3. o \in Seq(S) /\ Len(o) = n
  BY <1>1, <1>2
<1>4. o \in Injection(1..n, S)
  BY <1>2 DEF Injection, IsInjective
<1>5. IsFiniteSet(1..n) /\ Cardinality(1..n) = n
  BY <1>1, FS_Interval
<1>6. o \in Surjection(1..n, S)
  BY <1>4, <1>5, FS_Injection
<1>7. \A x \in S : \E i \in 1..n : x = o[i]
  BY <1>6 DEF Surjection
<1> QED
  BY <1>2, <1>3, <1>7 DEF Enumerates, NoTwice

LEMMA ReverseEnumerates ==
  ASSUME NEW S, NEW s \in Seq(S), NoTwice(s)
  PROVE  Enumerates(Reverse(s), ToSet(s))
<1> PICK n, o, T : n = Len(s) /\ o = Reverse(s) /\ T = ToSet(s)
  OBVIOUS
<1>0. n \in Nat
  OBVIOUS
<1>1. /\ DOMAIN s = 1..n /\ T = {s[i] : i \in 1..n}
      /\ \A i \in 1..n : s[i] \in T
  BY DEF ToSet
<1>2. o = [i \in 1..n |-> s[(n - i) + 1]]
  BY DEF Reverse
<1>3. \A i \in 1..n : (n - i) + 1 \in 1..n
  BY <1>0
<1>4. o \in [1..n -> T] /\ \A i \in 1..n : o[i] = s[(n - i) + 1]
  BY <1>1, <1>2, <1>3
<1>5. o \in Seq(T) /\ Len(o) = n
  BY <1>0, <1>4
<1>6. NoTwice(o)
  <2> SUFFICES ASSUME NEW i \in 1..n, NEW j \in 1..n, o[i] = o[j]
               PROVE  i = j
    BY <1>5 DEF NoTwice
  <2>1. (n - i) + 1 = (n - j) + 1
    BY <1>3, <1>4 DEF NoTwice
  <2> QED
    BY <1>0, <2>1
<1>7. \A x \in T : \E i \in 1..n : x = o[i]
  <2> SUFFICES ASSUME NEW x \in T PROVE \E j \in 1..n : x = o[j]
    OBVIOUS
  <2> PICK i \in 1..n : x = s[i]
    BY <1>1
  <2>1. (n - i) + 1 \in 1..n /\ (n - ((n - i) + 1)) + 1 = i
    BY <1>0
  <2> QED
    BY <1>4, <2>1
<1>8. Cardinality(T) = n
  <2>1. o \in Surjection(1..n, T)
    BY <1>4, <1>7 DEF Surjection
  <2>2. \A i, j \in 1..n : o[i] = o[j] => i = j
    BY <1>5, <1>6 DEF NoTwice
  <2>3. o \in Injection(1..n, T)
    BY <1>4, <2>2 DEF Injection, IsInjective
  <2>4. IsFiniteSet(1..n) /\ Cardinality(1..n) = n
    <3>1. 1 \in Int /\ n \in Int /\ (IF 1 > n THEN 0 ELSE n - 1 + 1) = n
      BY <1>0
    <3>2. /\ IsFiniteSet(1..n)
          /\ Cardinality(1..n) = IF 1 > n THEN 0 ELSE n - 1 + 1
      BY <3>1, FS_Interval
    <3> QED
      BY <3>1, <3>2
  <2> QED
    BY <2>1, <2>3, <2>4, FS_Surjection
<1> QED
  BY <1>5, <1>6, <1>7, <1>8 DEF Enumerates

(* Rows can be put into the order of any number they have, the greatest    *)
(* first: i goes before j, if it has a greater one, or the same and the    *)
(* greater id.                                                             *)
Before(f, i, j) == f[i] > f[j] \/ (f[i] = f[j] /\ i > j)

Above(f, S, i) == {j \in S : j = i \/ Before(f, j, i)}

LEMMA RankIsOwn ==
  ASSUME NEW S \in SUBSET Nat, IsFiniteSet(S), NEW f \in [S -> Nat]
  PROVE  /\ \A i \in S : Cardinality(Above(f, S, i)) \in 1..Cardinality(S)
         /\ \A i, j \in S : Before(f, j, i) =>
              Cardinality(Above(f, S, j)) < Cardinality(Above(f, S, i))
<1>1. ASSUME NEW i \in S
      PROVE  /\ IsFiniteSet(Above(f, S, i))
             /\ Cardinality(Above(f, S, i)) \in 1..Cardinality(S)
  <2>1. Above(f, S, i) \in SUBSET S /\ i \in Above(f, S, i)
    BY DEF Above
  <2>2. /\ IsFiniteSet(Above(f, S, i))
        /\ Cardinality(Above(f, S, i)) <= Cardinality(S)
    BY <2>1, FS_Subset
  <2>3. /\ Cardinality(S) \in Nat /\ Cardinality(Above(f, S, i)) \in Nat
        /\ Cardinality(Above(f, S, i)) # 0
    BY <2>1, <2>2, FS_CardinalityType, FS_EmptySet
  <2> QED
    BY <2>2, <2>3
<1>2. ASSUME NEW i \in S, NEW j \in S, Before(f, j, i)
      PROVE  Cardinality(Above(f, S, j)) < Cardinality(Above(f, S, i))
  <2> PICK A, B : A = Above(f, S, i) /\ B = Above(f, S, j)
    OBVIOUS
  <2>0. \A k \in S : k \in Nat /\ f[k] \in Nat
    OBVIOUS
  <2>1. B \in SUBSET A /\ A # B
    <3>1. \A k \in S : Before(f, k, j) => Before(f, k, i)
      BY <1>2, <2>0 DEF Before
    <3>2. i # j /\ ~ Before(f, i, j)
      BY <1>2, <2>0 DEF Before
    <3>3. i \in A /\ i \notin B
      BY <3>2 DEF Above
    <3> QED
      BY <1>2, <3>1, <3>3 DEF Above
  <2>2. IsFiniteSet(A) /\ Cardinality(A) \in Nat /\ Cardinality(B) \in Nat
    BY <1>1, FS_CardinalityType
  <2>3. Cardinality(B) <= Cardinality(A) /\ Cardinality(B) # Cardinality(A)
    BY <2>1, <2>2, FS_Subset
  <2> QED
    BY <2>2, <2>3
<1> QED
  BY <1>1, <1>2

LEMMA OrderExists ==
  ASSUME NEW S \in SUBSET Nat, IsFiniteSet(S), NEW f \in [S -> Nat]
  PROVE  \E o \in SetToSeqs(S) : \A k, l \in DOMAIN o : k < l => f[o[k]] >= f[o[l]]
<1> PICK n : n = Cardinality(S)
  OBVIOUS
<1> DEFINE r == [i \in S |-> Cardinality(Above(f, S, i))]
           o == [k \in 1..n |-> CHOOSE i \in S : r[i] = k]
<1>1. n \in Nat
  BY FS_CardinalityType
<1>2. /\ r \in [S -> 1..n]
      /\ \A i, j \in S : Before(f, j, i) => r[j] < r[i]
  BY RankIsOwn
<1>3. IsFiniteSet(1..n) /\ Cardinality(1..n) = n
  <2>1. 1 \in Int /\ n \in Int /\ (IF 1 > n THEN 0 ELSE n - 1 + 1) = n
    BY <1>1
  <2> QED
    BY <2>1, FS_Interval
<1> HIDE DEF r
<1>4. r \in Surjection(S, 1..n)
  <2>1. ASSUME NEW i \in S, NEW j \in S, r[i] = r[j]
        PROVE  i = j
    <3>1. r[i] \in Nat /\ r[j] \in Nat
      BY <1>2
    <3>2. ~ Before(f, i, j) /\ ~ Before(f, j, i)
      BY <1>2, <2>1, <3>1
    <3>3. i \in Nat /\ j \in Nat /\ f[i] \in Nat /\ f[j] \in Nat
      OBVIOUS
    <3> QED
      BY <3>2, <3>3 DEF Before
  <2>2. r \in Injection(S, 1..n)
    BY <1>2, <2>1 DEF Injection, IsInjective
  <2> QED
    BY <1>3, <2>2, FS_Injection
<1>5. ASSUME NEW k \in 1..n PROVE o[k] \in S /\ r[o[k]] = k
  <2>1. \E i \in S : r[i] = k
    BY <1>4 DEF Surjection
  <2> QED
    BY <2>1
<1> HIDE DEF o
<1>6. DOMAIN o = 1..n /\ o \in [1..n -> S]
  BY <1>5 DEF o
<1>7. ASSUME NEW k \in 1..n, NEW l \in 1..n, k < l
      PROVE  f[o[k]] >= f[o[l]]
  <2> PICK x \in S, y \in S : x = o[k] /\ y = o[l] /\ r[x] = k /\ r[y] = l
    BY <1>5
  <2>1. f[x] \in Nat /\ f[y] \in Nat
    OBVIOUS
  <2>2. ~ Before(f, y, x)
    <3>1. Before(f, y, x) => l < k
      BY <1>2
    <3> QED
      BY <1>1, <1>7, <3>1
  <2> QED
    BY <2>1, <2>2 DEF Before
<1>8. \A k, l \in 1..n : k # l => o[k] # o[l]
  BY <1>5
<1>9. o \in SetToSeqs(S)
  BY <1>6, <1>8 DEF SetToSeqs
<1> QED
  BY <1>6, <1>7, <1>9

(* The rows that are listed in the order of their creation.                *)
Unrepeated == NoTwice(vehicles) /\ NoTwice(centers) /\ NoTwice(users)

OrdersOK ==
  \A t \in Tables :
    /\ Listings(t).orders # {}
    /\ \A o \in Listings(t).orders : Enumerates(o, Ids(t))

LEMMA NewestExists ==
  ASSUME TablesOK
  PROVE  Newest(arrivals) # {} /\ Newest(exits) # {}
<1> SUFFICES ASSUME NEW table \in {arrivals, exits} PROVE Newest(table) # {}
  OBVIOUS
<1> PICK S, f : S = DOMAIN table /\ f = [i \in DOMAIN table |-> table[i].at]
  OBVIOUS
<1>1. S \in SUBSET Nat /\ IsFiniteSet(S)
  <2>1. S \subseteq 1..lastId /\ lastId \in Nat
    BY DEF TablesOK
  <2> QED
    BY <2>1, TablesAreFinite
<1>2. f \in [S -> Nat] /\ \A i \in S : f[i] = table[i].at
  BY DEF TablesOK, Arrival, Exit
<1>3. PICK o \in SetToSeqs(S) : \A k, l \in DOMAIN o : k < l => f[o[k]] >= f[o[l]]
  BY <1>1, <1>2, OrderExists
<1>4. \A k \in DOMAIN o : o[k] \in S
  BY DEF SetToSeqs
<1> QED
  BY <1>2, <1>3, <1>4 DEF Newest

LEMMA LatestStartExists ==
  ASSUME TablesOK
  PROVE  LatestStart # {}
<1> DEFINE T == {stages[i].started : i \in DOMAIN stages}
           m == 1 + Max({Never} \cup T)
           key1(i) == IF stages[i].started = Never THEN m ELSE stages[i].started
<1> PICK S, f : S = DOMAIN stages /\ f = [i \in DOMAIN stages |-> key1(i)]
  OBVIOUS
<1>1. S \in SUBSET Nat /\ IsFiniteSet(S)
  <2>1. S \subseteq 1..lastId /\ lastId \in Nat
    BY DEF TablesOK
  <2> QED
    BY <2>1, TablesAreFinite
<1>2. \A i \in S : stages[i].started \in Nat
  BY DEF TablesOK, Stage
<1>3. m \in Nat /\ \A i \in S : stages[i].started < m
  <2> DEFINE g == [i \in S |-> stages[i].started]
  <2>1. T = {g[i] : i \in S}
    OBVIOUS
  <2> HIDE DEF g
  <2>2. IsFiniteSet(T)
    <3>1. IsFiniteSet({g[i] : i \in S})
      BY <1>1, ImageIsFinite
    <3> QED
      BY <2>1, <3>1, Zenon
  <2>3. T \in SUBSET Nat /\ \A i \in S : stages[i].started \in T
    BY <1>2
  <2> HIDE DEF T
  <2>4. IsFiniteSet(T \cup {Never}) /\ T \cup {Never} = {Never} \cup T
    BY <2>2, FS_AddElement
  <2>5. {Never} \cup T \in SUBSET Nat /\ {Never} \cup T # {}
    BY <2>3 DEF Never
  <2> PICK x : x = Max({Never} \cup T)
    OBVIOUS
  <2>6. x \in Nat /\ \A y \in T : x >= y /\ y \in Nat
    BY <2>3, <2>4, <2>5, GreatestNumber
  <2>7. m = 1 + x
    OBVIOUS
  <2> HIDE DEF m
  <2>8. m \in Nat
    BY <2>6, <2>7
  <2>9. ASSUME NEW i \in S PROVE stages[i].started < m
    BY <1>2, <2>3, <2>6, <2>7
  <2> QED
    BY <2>8, <2>9
<1> HIDE DEF m
<1>4. f \in [S -> Nat] /\ \A i \in S : f[i] = key1(i)
  BY <1>2, <1>3
<1>5. PICK o \in SetToSeqs(S) : \A k, l \in DOMAIN o : k < l => f[o[k]] >= f[o[l]]
  BY <1>1, <1>4, OrderExists
<1>6. \A k \in DOMAIN o : o[k] \in S
  BY DEF SetToSeqs
<1>7. ASSUME NEW i \in S, NEW j \in S, f[i] >= f[j]
      PROVE  \/ stages[i].started = Never
             \/ stages[j].started \in 1..stages[i].started
  <2> PICK a, b : a = stages[i].started /\ b = stages[j].started
    OBVIOUS
  <2>1. a \in Nat /\ b \in Nat /\ a < m /\ b < m /\ m \in Nat
    BY <1>2, <1>3
  <2>2. /\ f[i] = IF a = Never THEN m ELSE a
        /\ f[j] = IF b = Never THEN m ELSE b
    BY <1>4
  <2>3. a = Never \/ b \in 1..a
    BY <1>7, <2>1, <2>2 DEF Never
  <2> QED
    BY <2>3
<1>8. \A k, l \in DOMAIN o :
        k < l => \/ stages[o[k]].started = Never
                 \/ stages[o[l]].started \in 1..stages[o[k]].started
  BY <1>5, <1>6, <1>7
<1> QED
  BY <1>8 DEF LatestStart

LEMMA OrdersExist ==
  ASSUME TablesOK, NEW t \in Tables
  PROVE  Listings(t).orders # {}
<1> USE DEF Listings, Tables
<1>1. CASE t = "arrivals"
  BY <1>1, NewestExists DEF ArrivalListing
<1>2. CASE t = "stages"
  BY <1>2, LatestStartExists DEF StageListing
<1>3. CASE t = "exits"
  BY <1>3, NewestExists DEF ExitListing
<1>4. CASE t = "vehicles"
  BY <1>4 DEF VehicleListing
<1>5. CASE t = "centers"
  BY <1>5 DEF CenterListing
<1>6. CASE t = "users"
  BY <1>6 DEF UserListing
<1> QED
  BY <1>1, <1>2, <1>3, <1>4, <1>5, <1>6

LEMMA OrdersAreOK == TablesOK /\ Unrepeated => OrdersOK
<1> SUFFICES ASSUME TablesOK, Unrepeated, NEW t \in Tables,
                    NEW o \in Listings(t).orders
             PROVE  Enumerates(o, Ids(t))
  BY OrdersExist DEF OrdersOK
<1>1. IsFiniteSet(DOMAIN arrivals) /\ IsFiniteSet(DOMAIN stages)
      /\ IsFiniteSet(DOMAIN exits)
  <2>1. 1 \in Int /\ lastId \in Int
    BY DEF TablesOK
  <2>2. IsFiniteSet(1..lastId)
    BY <2>1, FS_Interval
  <2> QED
    BY <2>2, FS_Subset DEF TablesOK
<1>2. CASE t = "arrivals"
  <2>1. o \in SetToSeqs(DOMAIN arrivals) /\ Ids(t) = DOMAIN arrivals
    BY <1>2 DEF Listings, ArrivalListing, Newest, Ids
  <2> QED
    BY <1>1, <2>1, SeqsEnumerate
<1>3. CASE t = "stages"
  <2>1. o \in SetToSeqs(DOMAIN stages) /\ Ids(t) = DOMAIN stages
    BY <1>3 DEF Listings, StageListing, LatestStart, Ids
  <2> QED
    BY <1>1, <2>1, SeqsEnumerate
<1>4. CASE t = "exits"
  <2>1. o \in SetToSeqs(DOMAIN exits) /\ Ids(t) = DOMAIN exits
    BY <1>4 DEF Listings, ExitListing, Newest, Ids
  <2> QED
    BY <1>1, <2>1, SeqsEnumerate
<1>5. CASE t = "vehicles"
  <2>1. o = Reverse(vehicles) /\ Ids(t) = ToSet(vehicles)
    BY <1>5 DEF Listings, VehicleListing, Ids
  <2> QED
    BY <2>1, ReverseEnumerates DEF TablesOK, Unrepeated
<1>6. CASE t = "centers"
  <2>1. o = Reverse(centers) /\ Ids(t) = ToSet(centers)
    BY <1>6 DEF Listings, CenterListing, Ids
  <2> QED
    BY <2>1, ReverseEnumerates DEF TablesOK, Unrepeated
<1>7. CASE t = "users"
  <2>1. o = Reverse(users) /\ Ids(t) = ToSet(users)
    BY <1>7 DEF Listings, UserListing, Ids
  <2> QED
    BY <2>1, ReverseEnumerates DEF TablesOK, Unrepeated
<1> QED
  BY <1>2, <1>3, <1>4, <1>5, <1>6, <1>7 DEF Tables

(* The rows on the first n places of an order.                             *)
Upto(o, n) == {o[i] : i \in {j \in 1..Len(o) : j <= n}}

(* A row that does not come nearer to the front.                           *)
LEMMA StaysBehind ==
  ASSUME NEW was, NEW now, NEW old \in was, NEW new \in now, NEW ids,
         Enumerates(old, ids), NEW x \in ids, Onward(x, was, now), NEW n \in Nat,
         Len(new) \in Nat, DOMAIN new = 1..Len(new), x \in Upto(new, n)
  PROVE  x \in Upto(old, n)
<1> PICK j \in 1..Len(new) : j <= n /\ x = new[j]
  BY DEF Upto
<1> PICK i \in 1..Len(old) : x = old[i]
  BY DEF Enumerates
<1>1. Len(old) \in Nat /\ DOMAIN old = 1..Len(old)
  BY DEF Enumerates
<1>2. i <= j
  BY <1>1 DEF Onward
<1>3. i <= n
  BY <1>1, <1>2
<1> QED
  BY <1>3 DEF Upto
-----------------------------------------------------------------------------
(* ~ HasNext, of a walk w.                                                 *)
LastPage(w) == ~ (w.page * PageSize < w.total)

(* What a walk w has read, if o is one of the orders: of the rows that it  *)
(* keeps, it has seen those on the places of the earlier pages; it has     *)
(* seen or got those of this page, when it has its ids.  Before, if the    *)
(* page is taken for the last one, none of them is behind its end.         *)
ReadSoFar(w, o) ==
  /\ w.kept \cap Upto(o, Offset(w.page)) \subseteq w.seen
  /\ w.pc \in {"ids", "rows"} /\ LastPage(w) =>
       w.kept \subseteq Upto(o, Offset(w.page) + PageSize)
  /\ w.pc \in {"related", "fallback"} =>
       w.kept \cap Upto(o, Offset(w.page) + PageSize) \subseteq w.seen \cup w.got

(* What it has got is a page, and all that is left if it is the last one;  *)
(* of what a fallback will not show, it keeps nothing.                     *)
HasGot(w) ==
  /\ w.pc \in {"related", "fallback"} =>
       /\ IsFiniteSet(w.got) /\ Cardinality(w.got) <= PageSize
       /\ LastPage(w) => w.kept \subseteq w.seen \cup w.got
  /\ w.pc = "fallback" /\ w.page # 1 => w.kept \cap w.got = {}

(* The rows that a walk keeps have the same place in every order.          *)
Follows(w, orders) ==
  /\ \A x \in w.kept : Onward(x, orders, orders)
  /\ \A o \in orders : ReadSoFar(w, o)

Following ==
  \A t \in Tables : t = walk.table => Follows(walk, Listings(t).orders)

WalkInv == Unrepeated /\ walk.skipped = {} /\ HasGot(walk) /\ Following

LEMMA KeepsNothing ==
  ASSUME NEW w, w.kept = {}, NEW orders
  PROVE  Follows(w, orders)
BY DEF Follows, ReadSoFar
-----------------------------------------------------------------------------
LEMMA PageArithmetic ==
  ASSUME NEW p \in Nat \ {0}
  PROVE  /\ Offset(p) \in Nat
         /\ Offset(p + 1) = Offset(p) + PageSize
         /\ p * PageSize = Offset(p) + PageSize
<1>1. PageSize \in Nat /\ p - 1 \in Nat
  BY ListingAssumption
<1>2. \A a, b \in Nat : a * b \in Nat /\ (a + 1) * b = a * b + b
  OBVIOUS
<1>3. /\ (p - 1) * PageSize \in Nat
      /\ ((p - 1) + 1) * PageSize = (p - 1) * PageSize + PageSize
  BY <1>1, <1>2
<1>4. (p - 1) + 1 = p /\ (p + 1) - 1 = p
  OBVIOUS
<1> QED
  BY <1>3, <1>4 DEF Offset

(* The places of a page.                                                   *)
PageOf(o, p) ==
  {o[i] : i \in {j \in DOMAIN o : Offset(p) < j /\ j <= Offset(p) + PageSize}}

LEMMA PageIsNext ==
  ASSUME NEW ids, NEW o, Enumerates(o, ids), NEW p \in Nat \ {0}
  PROVE  /\ Upto(o, Offset(p) + PageSize) \subseteq
               Upto(o, Offset(p)) \cup PageOf(o, p)
         /\ Len(o) <= Offset(p) + PageSize =>
               ids \subseteq Upto(o, Offset(p)) \cup PageOf(o, p)
         /\ IsFiniteSet(PageOf(o, p)) /\ Cardinality(PageOf(o, p)) <= PageSize
<1> PICK n, k : n = Len(o) /\ k = Offset(p)
  OBVIOUS
<1>1. n \in Nat /\ DOMAIN o = 1..n
  BY DEF Enumerates
<1>2. k \in Nat /\ PageSize \in Nat
  BY PageArithmetic, ListingAssumption
<1>3. ASSUME NEW i \in 1..n, i <= k + PageSize
      PROVE  o[i] \in Upto(o, k) \cup PageOf(o, p)
  <2>1. CASE i <= k
    BY <2>1 DEF Upto
  <2>2. CASE k < i
    BY <1>1, <1>3, <2>2 DEF PageOf
  <2> QED
    BY <1>1, <1>2, <2>1, <2>2
<1>4. Upto(o, k + PageSize) \subseteq Upto(o, k) \cup PageOf(o, p)
  BY <1>3 DEF Upto
<1>5. ASSUME n <= k + PageSize
      PROVE  ids \subseteq Upto(o, k) \cup PageOf(o, p)
  <2> SUFFICES ASSUME NEW x \in ids PROVE x \in Upto(o, k) \cup PageOf(o, p)
    OBVIOUS
  <2> PICK i \in 1..n : x = o[i]
    BY DEF Enumerates
  <2>1. i <= k + PageSize
    BY <1>1, <1>2, <1>5
  <2> QED
    BY <1>3, <2>1
<1>6. IsFiniteSet(PageOf(o, p)) /\ Cardinality(PageOf(o, p)) <= PageSize
  <2> DEFINE I == {j \in 1..n : k < j /\ j <= k + PageSize}
             S == {o[i] : i \in I}
  <2>1. IsFiniteSet((k + 1)..(k + PageSize))
        /\ Cardinality((k + 1)..(k + PageSize)) = PageSize
    <3>1. k + 1 \in Int /\ k + PageSize \in Int
          /\ (IF k + 1 > k + PageSize THEN 0
              ELSE (k + PageSize) - (k + 1) + 1) = PageSize
      BY <1>2
    <3> QED
      BY <3>1, FS_Interval
  <2>2. I \in SUBSET ((k + 1)..(k + PageSize))
    BY <1>1, <1>2
  <2>3. IsFiniteSet(I) /\ Cardinality(I) <= PageSize /\ Cardinality(I) \in Nat
    <3>1. /\ IsFiniteSet(I)
          /\ Cardinality(I) <= Cardinality((k + 1)..(k + PageSize))
      BY <2>1, <2>2, FS_Subset
    <3> QED
      BY <2>1, <3>1, FS_CardinalityType
  <2> HIDE DEF I
  <2>4. [i \in I |-> o[i]] \in Surjection(I, S)
    BY DEF Surjection
  <2>5. IsFiniteSet(S) /\ Cardinality(S) <= Cardinality(I)
    BY <2>3, <2>4, FS_Surjection
  <2>6. Cardinality(S) \in Nat
    BY <2>5, FS_CardinalityType
  <2>7. PageOf(o, p) = S
    BY <1>1 DEF PageOf, I
  <2> QED
    BY <1>2, <2>3, <2>5, <2>6, <2>7
<1> QED
  BY <1>4, <1>5, <1>6

(* A page has been read, and there is another one.                         *)
LEMMA NextPage ==
  ASSUME NEW w, WalkTyped(w), NEW o, NEW rows,
         w.kept \cap Upto(o, Offset(w.page) + PageSize)
           \subseteq w.seen \cup rows,
         NEW u, u.pc = "count", u.page = w.page + 1, u.kept = w.kept,
         u.seen = w.seen \cup rows
  PROVE  ReadSoFar(u, o)
<1>1. Offset(u.page) = Offset(w.page) + PageSize
  BY PageArithmetic DEF WalkTyped
<1> QED
  BY <1>1 DEF ReadSoFar
-----------------------------------------------------------------------------
(* The steps of the client.                                                *)

LEMMA SameOrders ==
  ASSUME NEW t \in Tables, UNCHANGED <<vehicles, yardVars>>
  PROVE  Listings(t).orders' = Listings(t).orders
<1>1. /\ vehicles' = vehicles /\ centers' = centers /\ users' = users
      /\ arrivals' = arrivals /\ stages' = stages /\ exits' = exits
  BY DEF yardVars
<1>2. CASE t = "arrivals"
  BY <1>1, <1>2 DEF Listings, ArrivalListing, Newest
<1>3. CASE t = "stages"
  BY <1>1, <1>3 DEF Listings, StageListing, LatestStart
<1>4. CASE t = "exits"
  BY <1>1, <1>4 DEF Listings, ExitListing, Newest
<1>5. CASE t = "vehicles"
  BY <1>1, <1>5 DEF Listings, VehicleListing
<1>6. CASE t = "centers"
  BY <1>1, <1>6 DEF Listings, CenterListing
<1>7. CASE t = "users"
  BY <1>1, <1>7 DEF Listings, UserListing
<1> QED
  BY <1>2, <1>3, <1>4, <1>5, <1>6, <1>7 DEF Tables

(* Steps of the client itself.                                             *)
LEMMA OwnStep ==
  ASSUME UNCHANGED <<vehicles, yardVars>>, WalkInv, WalkOK,
         walk'.skipped = {}, HasGot(walk'),
         \/ walk'.kept = {}
         \/ /\ walk'.table = walk.table /\ walk'.kept \subseteq walk.kept
            /\ \A o \in Listings(walk.table).orders :
                 ReadSoFar(walk, o) => ReadSoFar(walk', o)
  PROVE  WalkInv'
<1>1. Unrepeated'
  BY DEF WalkInv, Unrepeated, yardVars
<1>2. ASSUME NEW t \in Tables, t = walk'.table
      PROVE  Follows(walk', Listings(t).orders')
  <2>1. CASE walk'.kept = {}
    BY <2>1, KeepsNothing
  <2>2. CASE walk'.kept # {}
    <3>1. t = walk.table /\ walk'.kept \subseteq walk.kept
      BY <1>2, <2>2
    <3>2. Follows(walk, Listings(t).orders)
      BY <3>1 DEF WalkInv, Following
    <3>3. Follows(walk', Listings(t).orders)
      BY <2>2, <3>1, <3>2 DEF Follows
    <3> QED
      BY <3>3, SameOrders
  <2> QED
    BY <2>1, <2>2
<1>3. Following'
  BY <1>2 DEF Following
<1> QED
  BY <1>1, <1>3 DEF WalkInv

LEMMA AnswerFollows ==
  ASSUME UNCHANGED <<vehicles, yardVars>>, WalkInv, WalkOK,
         NEW rows, Answer(rows),
         \A o \in Listings(walk.table).orders :
           walk.kept \cap Upto(o, Offset(walk.page) + PageSize)
             \subseteq walk.seen \cup rows,
         LastPage(walk) => walk.kept \subseteq walk.seen \cup rows
  PROVE  WalkInv'
<1> PICK w, u : w = walk /\ u = walk'
  OBVIOUS
<1>1. WalkTyped(w)
  BY DEF WalkOK
<1>2. CASE HasNext
  <2>1. u = [w EXCEPT !.pc = "count", !.page = @ + 1, !.again = {},
                      !.got = {}, !.seen = @ \cup rows]
    BY <1>2 DEF Answer
  <2>2. /\ u.pc = "count" /\ u.page = w.page + 1 /\ u.kept = w.kept
        /\ u.seen = w.seen \cup rows /\ u.table = w.table
        /\ u.skipped = w.skipped
    BY <1>1, <2>1 DEF WalkTyped
  <2>3. \A o \in Listings(walk.table).orders : ReadSoFar(u, o)
    BY <1>1, <2>2, NextPage
  <2>4. walk'.skipped = {} /\ HasGot(walk')
    BY <2>2 DEF WalkInv, HasGot
  <2>5. walk'.table = walk.table /\ walk'.kept \subseteq walk.kept
    BY <2>2
  <2> QED
    BY <2>3, <2>4, <2>5, OwnStep
<1>3. CASE ~ HasNext
  <2>1. u = [AtHome EXCEPT !.skipped = w.kept \ (w.seen \cup rows)]
    BY <1>3 DEF Answer
  <2>2. /\ u.pc = "idle" /\ u.kept = {}
        /\ u.skipped = w.kept \ (w.seen \cup rows)
    BY <2>1 DEF AtHome
  <2>3. w.kept \subseteq w.seen \cup rows
    BY <1>3 DEF HasNext, LastPage
  <2>4. walk'.skipped = {} /\ walk'.kept = {} /\ HasGot(walk')
    BY <2>2, <2>3 DEF HasGot
  <2> QED
    BY <2>4, OwnStep
<1> QED
  BY <1>2, <1>3

LEMMA OrderOf ==
  ASSUME OrdersOK, WalkOK, NEW o \in Listings(walk.table).orders
  PROVE  Enumerates(o, Ids(walk.table))
<1>1. walk.table \in Tables
  BY DEF WalkOK, WalkTyped
<1> QED
  BY <1>1 DEF OrdersOK

LEMMA Reads ==
  ASSUME WalkInv, WalkOK
  PROVE  Follows(walk, Listings(walk.table).orders)
<1>1. walk.table \in Tables
  BY DEF WalkOK, WalkTyped
<1> QED
  BY <1>1 DEF WalkInv, Following

LEMMA PageIs ==
  ASSUME NEW o
  PROVE  Page(o) = PageOf(o, walk.page)
BY DEF Page, PageOf

LEMMA StartFollows ==
  ASSUME WalkInv, WalkOK, StartWalk
  PROVE  WalkInv'
<1> PICK t \in Tables, related \in BOOLEAN :
      \E orders \in {Listings(t).orders} :
        walk' = [AtHome EXCEPT !.pc = "count", !.table = t, !.related = related,
                               !.kept = {x \in Ids(t) : Onward(x, orders, orders)}]
  BY Zenon DEF StartWalk
<1>1. PICK orders \in {Listings(t).orders} :
        walk' = [AtHome EXCEPT !.pc = "count", !.table = t, !.related = related,
                               !.kept = {x \in Ids(t) : Onward(x, orders, orders)}]
  OBVIOUS
<1>2. UNCHANGED <<vehicles, yardVars>>
  BY DEF StartWalk
<1>3. /\ walk'.skipped = {} /\ walk'.table = t /\ walk'.pc = "count"
      /\ walk'.page = 1
      /\ \A x \in walk'.kept : Onward(x, Listings(t).orders, Listings(t).orders)
  <2>1. orders = Listings(t).orders
    OBVIOUS
  <2> QED
    BY <1>1, <2>1 DEF AtHome
<1>4. ASSUME NEW o PROVE ReadSoFar(walk', o)
  <2>1. Offset(1) = 0 /\ Upto(o, 0) = {}
    BY ListingAssumption DEF Offset, Upto
  <2> QED
    BY <1>3, <2>1 DEF ReadSoFar
<1>5. ASSUME NEW u \in Tables, u = walk'.table
      PROVE  Follows(walk', Listings(u).orders')
  <2>1. Follows(walk', Listings(u).orders)
    BY <1>3, <1>4, <1>5 DEF Follows
  <2> QED
    BY <1>2, <2>1, SameOrders
<1>6. Unrepeated'
  BY <1>2 DEF WalkInv, Unrepeated, yardVars
<1>7. HasGot(walk')
  BY <1>3 DEF HasGot
<1> QED
  BY <1>3, <1>5, <1>6, <1>7 DEF WalkInv, Following

LEMMA CountFollows ==
  ASSUME OrdersOK, WalkInv, WalkOK, CountRows
  PROVE  WalkInv'
<1> PICK w, u, n, ids :
      w = walk /\ u = walk' /\ ids = Ids(walk.table) /\ n = Cardinality(ids)
  OBVIOUS
<1>1. UNCHANGED <<vehicles, yardVars>>
  BY DEF CountRows, qrVars
<1>2. WalkTyped(w) /\ w.kept \subseteq ids
  BY DEF WalkOK
<1> PICK pc \in {"ids", "rows"} : u = [w EXCEPT !.total = n, !.pc = pc]
  BY DEF CountRows
<1>3. /\ u.pc = pc /\ u.total = n /\ u.kept = w.kept /\ u.page = w.page
      /\ u.seen = w.seen /\ u.table = w.table /\ u.skipped = w.skipped
  BY <1>2 DEF WalkTyped
<1>4. ASSUME NEW o \in Listings(walk.table).orders, ReadSoFar(w, o)
      PROVE  ReadSoFar(u, o)
  <2>1. Enumerates(o, ids)
    BY OrderOf
  <2>2. Len(o) = n /\ Len(o) \in Nat
    BY <2>1 DEF Enumerates
  <2>3. /\ u.page * PageSize = Offset(u.page) + PageSize
        /\ u.page * PageSize \in Nat
    BY <1>2, <1>3, PageArithmetic, ListingAssumption DEF WalkTyped
  <2>4. LastPage(u) => ids \subseteq Upto(o, Offset(u.page) + PageSize)
    <3> SUFFICES ASSUME LastPage(u), NEW x \in ids
                 PROVE  x \in Upto(o, Offset(u.page) + PageSize)
      OBVIOUS
    <3> PICK i \in 1..Len(o) : x = o[i]
      BY <2>1 DEF Enumerates
    <3>1. i <= Offset(u.page) + PageSize
      BY <1>3, <2>2, <2>3 DEF LastPage
    <3> QED
      BY <3>1 DEF Upto
  <2> QED
    BY <1>2, <1>3, <1>4, <2>4 DEF ReadSoFar
<1>5. walk'.kept \subseteq walk.kept /\ walk'.table = walk.table
  BY <1>3
<1>6. walk'.skipped = {} /\ HasGot(walk')
  BY <1>3 DEF WalkInv, HasGot
<1> QED
  BY <1>1, <1>4, <1>5, <1>6, OwnStep

(* What a page of the rows adds.                                           *)
LEMMA PageAdds ==
  ASSUME OrdersOK, WalkInv, WalkOK, walk.pc \in {"ids", "rows"},
         NEW order \in Listings(walk.table).orders
  PROVE  /\ \A o \in Listings(walk.table).orders :
              walk.kept \cap Upto(o, Offset(walk.page) + PageSize)
                \subseteq walk.seen \cup Page(order)
         /\ LastPage(walk) => walk.kept \subseteq walk.seen \cup Page(order)
         /\ IsFiniteSet(Page(order)) /\ Cardinality(Page(order)) <= PageSize
<1> PICK p, ids, orders, kept :
      /\ p = walk.page /\ ids = Ids(walk.table) /\ kept = walk.kept
      /\ orders = Listings(walk.table).orders
  OBVIOUS
<1>1. p \in Nat \ {0} /\ kept \subseteq ids
  BY DEF WalkOK, WalkTyped
<1>2. Enumerates(order, ids) /\ ReadSoFar(walk, order)
  BY OrderOf, Reads DEF Follows
<1>3. /\ Upto(order, Offset(p) + PageSize) \subseteq
              Upto(order, Offset(p)) \cup PageOf(order, p)
      /\ IsFiniteSet(PageOf(order, p)) /\ Cardinality(PageOf(order, p)) <= PageSize
  BY <1>1, <1>2, PageIsNext
<1>4. Page(order) = PageOf(order, p)
  BY PageIs
<1>5. kept \cap Upto(order, Offset(p) + PageSize) \subseteq walk.seen \cup Page(order)
  BY <1>2, <1>3, <1>4 DEF ReadSoFar
<1>6. ASSUME NEW o \in orders, NEW x \in kept, x \in Upto(o, Offset(p) + PageSize)
      PROVE  x \in walk.seen \cup Page(order)
  <2>1. Onward(x, orders, orders) /\ x \in ids
    BY <1>1, Reads DEF Follows
  <2>2. Enumerates(o, ids)
    BY OrderOf
  <2>3. Len(o) \in Nat /\ DOMAIN o = 1..Len(o)
    BY <2>2 DEF Enumerates
  <2>4. Offset(p) + PageSize \in Nat
    <3>1. Offset(p) \in Nat
      BY <1>1, PageArithmetic
    <3>2. PageSize \in Nat
      BY ListingAssumption
    <3> QED
      BY <3>1, <3>2
  <2>5. x \in Upto(order, Offset(p) + PageSize)
    BY <1>2, <1>6, <2>1, <2>3, <2>4, StaysBehind
  <2> QED
    BY <1>5, <2>5
<1>7. LastPage(walk) => kept \subseteq walk.seen \cup Page(order)
  BY <1>2, <1>5 DEF ReadSoFar
<1> QED
  BY <1>3, <1>4, <1>6, <1>7

LEMMA RowsFollow ==
  ASSUME OrdersOK, WalkInv, WalkOK, SelectRows
  PROVE  WalkInv'
<1>1. UNCHANGED <<vehicles, yardVars>> /\ walk.pc = "rows"
  BY DEF SelectRows, qrVars
<1>2. PICK order \in Listings(walk.table).orders : Answer(Page(order))
  BY DEF SelectRows
<1> QED
  BY <1>1, <1>2, PageAdds, AnswerFollows

LEMMA IdsFollow ==
  ASSUME OrdersOK, WalkInv, WalkOK, SelectIds
  PROVE  WalkInv'
<1>1. UNCHANGED <<vehicles, yardVars>> /\ walk.pc = "ids"
  BY DEF SelectIds, qrVars
<1>2. PICK order \in Listings(walk.table).orders :
        IF Page(order) = {} THEN Answer({})
        ELSE walk' = [walk EXCEPT !.pc = "related", !.got = Page(order)]
  BY DEF SelectIds
<1> PICK rows : rows = Page(order)
  OBVIOUS
<1>3. /\ \A o \in Listings(walk.table).orders :
           walk.kept \cap Upto(o, Offset(walk.page) + PageSize)
             \subseteq walk.seen \cup rows
      /\ LastPage(walk) => walk.kept \subseteq walk.seen \cup rows
      /\ IsFiniteSet(rows) /\ Cardinality(rows) <= PageSize
  BY <1>1, PageAdds
<1>4. CASE rows = {}
  <2>1. Answer({})
    BY <1>2, <1>4
  <2> QED
    BY <1>1, <1>3, <1>4, <2>1, AnswerFollows
<1>5. CASE rows # {}
  <2> PICK w, u : w = walk /\ u = walk'
    OBVIOUS
  <2>1. WalkTyped(w) /\ u = [w EXCEPT !.pc = "related", !.got = rows]
    BY <1>2, <1>5 DEF WalkOK
  <2>2. /\ u.pc = "related" /\ u.got = rows /\ u.kept = w.kept
        /\ u.page = w.page /\ u.total = w.total /\ u.seen = w.seen
        /\ u.table = w.table /\ u.skipped = w.skipped
    BY <2>1 DEF WalkTyped
  <2>3. ASSUME NEW o \in Listings(walk.table).orders, ReadSoFar(w, o)
        PROVE  ReadSoFar(u, o)
    BY <1>3, <2>2, <2>3 DEF ReadSoFar, LastPage
  <2>4. walk'.skipped = {} /\ walk'.table = walk.table
        /\ walk'.kept \subseteq walk.kept
    BY <2>2 DEF WalkInv
  <2>5. HasGot(u)
    BY <1>3, <2>2 DEF HasGot, LastPage
  <2> QED
    BY <1>1, <2>3, <2>4, <2>5, OwnStep
<1> QED
  BY <1>4, <1>5

LEMMA RelatedFollow ==
  ASSUME WalkInv, WalkOK, SelectRelated
  PROVE  WalkInv'
<1>1. UNCHANGED <<vehicles, yardVars>> /\ walk.pc = "related"
  BY DEF SelectRelated, qrVars
<1> PICK rows : rows = walk.got \cap Ids(walk.table)
  OBVIOUS
<1>2. Answer(rows)
  BY DEF SelectRelated
<1>3. walk.kept \subseteq Ids(walk.table)
  BY DEF WalkOK
<1>4. \A o \in Listings(walk.table).orders :
        walk.kept \cap Upto(o, Offset(walk.page) + PageSize)
          \subseteq walk.seen \cup rows
  BY <1>1, <1>3, Reads DEF Follows, ReadSoFar
<1>5. LastPage(walk) => walk.kept \subseteq walk.seen \cup rows
  BY <1>1, <1>3 DEF WalkInv, HasGot
<1> QED
  BY <1>1, <1>2, <1>4, <1>5, AnswerFollows

(* On the first page, the fallback leaves nothing out either; on a later   *)
(* one, nothing is kept of what it may leave out.                          *)
LEMMA FallbackFollows ==
  ASSUME WalkInv, WalkOK, SelectFallback
  PROVE  WalkInv'
<1> PICK S : S = walk.got \cap Ids(walk.table)
  OBVIOUS
<1>1. UNCHANGED <<vehicles, yardVars>> /\ walk.pc = "fallback"
  BY DEF SelectFallback, qrVars
<1>2. PICK order \in SetToSeqs(S) : Answer(Page(order))
  BY DEF SelectFallback
<1>3. walk.kept \subseteq Ids(walk.table)
  BY DEF WalkOK
<1>4. walk.kept \cap walk.got \subseteq Page(order)
  <2>1. CASE walk.page # 1
    BY <1>1, <2>1 DEF WalkInv, HasGot
  <2>2. CASE walk.page = 1
    <3>1. IsFiniteSet(walk.got) /\ Cardinality(walk.got) <= PageSize
      BY <1>1 DEF WalkInv, HasGot
    <3>2. /\ IsFiniteSet(S) /\ Cardinality(S) \in Nat
          /\ Cardinality(walk.got) \in Nat
          /\ Cardinality(S) <= Cardinality(walk.got)
      <4>1. S \in SUBSET walk.got
        OBVIOUS
      <4>2. IsFiniteSet(S) /\ Cardinality(S) <= Cardinality(walk.got)
        BY <3>1, <4>1, FS_Subset
      <4> QED
        BY <3>1, <4>2, FS_CardinalityType
    <3>3. Enumerates(order, S)
      BY <1>2, <3>2, SeqsEnumerate
    <3>4. /\ 1 \in Nat \ {0} /\ Offset(1) = 0 /\ Upto(order, 0) = {}
          /\ PageSize \in Nat
      BY ListingAssumption DEF Offset, Upto
    <3>5. Len(order) <= Offset(1) + PageSize
      BY <3>1, <3>2, <3>3, <3>4 DEF Enumerates
    <3>6. S \subseteq Upto(order, Offset(1)) \cup PageOf(order, 1)
      BY <3>3, <3>4, <3>5, PageIsNext
    <3>7. S \subseteq Page(order)
      BY <2>2, <3>4, <3>6, PageIs
    <3> QED
      BY <1>3, <3>7
  <2> QED
    BY <2>1, <2>2
<1>5. \A o \in Listings(walk.table).orders :
        walk.kept \cap Upto(o, Offset(walk.page) + PageSize)
          \subseteq walk.seen \cup Page(order)
  BY <1>1, <1>4, Reads DEF Follows, ReadSoFar
<1>6. LastPage(walk) => walk.kept \subseteq walk.seen \cup Page(order)
  BY <1>1, <1>4 DEF WalkInv, HasGot
<1> QED
  BY <1>1, <1>2, <1>5, <1>6, AnswerFollows

(* A SELECT of the rows is tried again from the COUNT or by itself.        *)
LEMMA RetriesAgain ==
  ASSUME NEW t \in Tables
  PROVE  \A pc \in DOMAIN Listings(t).retries :
           \/ Listings(t).retries[pc] = "count"
           \/ Listings(t).retries[pc] = "rows" /\ pc = "rows"
<1> USE DEF Listings, Tables
<1>1. CASE t = "arrivals"
  BY <1>1 DEF ArrivalListing
<1>2. CASE t = "stages"
  BY <1>2 DEF StageListing
<1>3. CASE t = "exits"
  BY <1>3 DEF ExitListing
<1>4. CASE t = "vehicles"
  BY <1>4 DEF VehicleListing
<1>5. CASE t = "centers"
  BY <1>5 DEF CenterListing
<1>6. CASE t = "users"
  BY <1>6 DEF UserListing
<1> QED
  BY <1>1, <1>2, <1>3, <1>4, <1>5, <1>6

LEMMA FailureFollows ==
  ASSUME WalkInv, WalkOK, FailListing
  PROVE  WalkInv'
<1> PICK w, u, t : w = walk /\ u = walk' /\ t = walk.table
  OBVIOUS
<1>1. UNCHANGED <<vehicles, yardVars>>
  BY DEF FailListing
<1>2. WalkTyped(w) /\ t \in Tables
  BY DEF WalkOK, WalkTyped
<1>3. CASE walk' = AtHome
  <2>1. walk'.kept = {} /\ walk'.skipped = {} /\ HasGot(walk')
    BY <1>3 DEF AtHome, HasGot
  <2> QED
    BY <1>1, <2>1, OwnStep
<1>4. CASE /\ walk.pc = "related"
           /\ walk' = [walk EXCEPT !.pc = "fallback",
                                   !.kept = IF walk.page > 1 THEN @ \ walk.got
                                            ELSE @]
  <2>1. /\ u.pc = "fallback" /\ u.page = w.page /\ u.got = w.got
        /\ u.seen = w.seen /\ u.total = w.total /\ u.table = w.table
        /\ u.skipped = w.skipped
        /\ u.kept = IF w.page > 1 THEN w.kept \ w.got ELSE w.kept
    BY <1>2, <1>4 DEF WalkTyped
  <2>2. /\ walk'.skipped = {} /\ walk'.table = walk.table
        /\ walk'.kept \subseteq walk.kept
    BY <2>1 DEF WalkInv
  <2>3. w.page # 1 => w.page > 1
    BY <1>2 DEF WalkTyped
  <2>4. HasGot(u)
    BY <1>4, <2>1, <2>3 DEF WalkInv, HasGot, LastPage
  <2>5. ASSUME NEW o, ReadSoFar(w, o) PROVE ReadSoFar(u, o)
    BY <1>4, <2>1, <2>5 DEF ReadSoFar, LastPage
  <2> QED
    BY <1>1, <2>2, <2>4, <2>5, OwnStep
<1>5. CASE /\ walk.pc \in DOMAIN Listings(walk.table).retries
           /\ walk' = [walk EXCEPT !.pc = Listings(walk.table).retries[walk.pc],
                                   !.again = {"count", walk.pc}]
  <2> PICK pc : pc = Listings(t).retries[w.pc]
    OBVIOUS
  <2>1. \/ pc = "count"
        \/ pc = "rows" /\ w.pc = "rows"
    BY <1>2, <1>5, RetriesAgain
  <2>2. /\ u.pc = pc /\ u.page = w.page /\ u.got = w.got
        /\ u.seen = w.seen /\ u.total = w.total /\ u.table = w.table
        /\ u.skipped = w.skipped /\ u.kept = w.kept
    BY <1>2, <1>5 DEF WalkTyped
  <2>3. ASSUME NEW o, ReadSoFar(w, o) PROVE ReadSoFar(u, o)
    BY <2>1, <2>2, <2>3 DEF ReadSoFar, LastPage
  <2>4. /\ walk'.skipped = {} /\ walk'.table = walk.table
        /\ walk'.kept \subseteq walk.kept
    BY <2>2 DEF WalkInv
  <2>5. HasGot(u)
    BY <2>1, <2>2 DEF HasGot
  <2> QED
    BY <1>1, <2>3, <2>4, <2>5, OwnStep
<1> QED
  BY <1>3, <1>4, <1>5 DEF FailListing

(* What other requests do: Watch lets go of the rows that come nearer to   *)
(* the front or are pushed off the last page.                              *)
LEMMA WatchFollows ==
  ASSUME OrdersOK, OrdersOK', Unrepeated', WalkInv, WalkOK, Watch
  PROVE  WalkInv'
<1>1. CASE walk.kept = {}
  <2>1. walk' = walk
    BY <1>1 DEF Watch
  <2>2. Following'
    BY <1>1, <2>1, KeepsNothing DEF Following
  <2> QED
    BY <2>1, <2>2 DEF WalkInv
<1>2. CASE UNCHANGED <<vehicles, yardVars>>
  <2>1. walk' = walk
    BY <1>2 DEF Watch
  <2>2. /\ walk'.skipped = {} /\ walk'.kept \subseteq walk.kept
        /\ walk'.table = walk.table /\ HasGot(walk')
        /\ \A o : ReadSoFar(walk, o) => ReadSoFar(walk', o)
    BY <2>1 DEF WalkInv
  <2> QED
    BY <1>2, <2>2, OwnStep
<1>3. CASE walk.kept # {} /\ ~ UNCHANGED <<vehicles, yardVars>>
  <2>1. PICK t \in {walk.table} :
        \E was \in {Listings(t).orders}, now \in {Listings(t).orders'} :
          walk' = [walk EXCEPT
                     !.kept = {x \in @ \cap Ids(t)' :
                                 /\ Onward(x, was, now) /\ Onward(x, now, now)
                                 /\ ~ PushedOff(x, now)}]
    BY <1>3 DEF Watch
  <2> PICK was, now, before, after :
        /\ was = Listings(t).orders /\ now = Listings(t).orders'
        /\ before = Ids(t) /\ after = Ids(t)'
    OBVIOUS
  <2> PICK w, u, kept :
        /\ w = walk /\ u = walk'
        /\ kept = {x \in w.kept \cap after :
                     /\ Onward(x, was, now) /\ Onward(x, now, now)
                     /\ ~ PushedOff(x, now)}
    OBVIOUS
  <2>2. /\ t \in Tables /\ t = w.table /\ WalkTyped(w) /\ w.kept \subseteq before
        /\ w.skipped = {} /\ HasGot(w)
    BY DEF WalkOK, WalkTyped, WalkInv
  <2>3. u = [w EXCEPT !.kept = kept]
    BY <2>1
  <2>4. /\ u.skipped = {} /\ u.table = t /\ u.kept = kept /\ u.pc = w.pc
        /\ u.page = w.page /\ u.total = w.total /\ u.got = w.got
        /\ u.seen = w.seen
    BY <2>2, <2>3 DEF WalkTyped
  <2>5. HasGot(u)
    BY <2>2, <2>4 DEF HasGot, LastPage
  <2> PICK old \in was : TRUE
    BY <2>2 DEF OrdersOK
  <2>6. ReadSoFar(w, old) /\ Enumerates(old, before)
    BY <2>2, Reads DEF OrdersOK, Follows
  <2> PICK a, b : a = Offset(w.page) /\ b = Offset(w.page) + PageSize
    OBVIOUS
  <2>7. a \in Nat /\ b \in Nat
    BY <2>2, PageArithmetic, ListingAssumption DEF WalkTyped
  <2>8. ASSUME NEW new \in now PROVE ReadSoFar(u, new)
    <3>1. Enumerates(new, after)
      BY <2>2 DEF OrdersOK
    <3>2. Len(new) \in Nat /\ DOMAIN new = 1..Len(new)
      BY <3>1 DEF Enumerates
    <3>3. ASSUME NEW x \in kept, NEW n \in Nat, x \in Upto(new, n)
          PROVE  x \in Upto(old, n)
      <4>1. Onward(x, was, now) /\ x \in before
        BY <2>2
      <4> QED
        BY <2>6, <3>2, <3>3, <4>1, StaysBehind
    <3>4. ASSUME NEW x \in kept, w.pc \in {"ids", "rows"}, LastPage(w)
          PROVE  x \in Upto(new, b)
      <4>1. x \in after /\ ~ PushedOff(x, now)
        OBVIOUS
      <4> PICK i \in 1..Len(new) : x = new[i]
        BY <3>1, <4>1 DEF Enumerates
      <4>2. ~ (i > b)
        BY <3>2, <3>4, <4>1 DEF PushedOff, HasNext, LastPage
      <4>3. i <= b
        BY <2>7, <3>2, <4>2
      <4> QED
        BY <4>3 DEF Upto
    <3>5. kept \cap Upto(new, a) \subseteq w.seen
      BY <2>6, <2>7, <3>3 DEF ReadSoFar
    <3>6. w.pc \in {"related", "fallback"} =>
            kept \cap Upto(new, b) \subseteq w.seen \cup w.got
      BY <2>6, <2>7, <3>3 DEF ReadSoFar
    <3> QED
      BY <2>4, <3>4, <3>5, <3>6 DEF ReadSoFar, LastPage
  <2>9. Follows(u, now)
    BY <2>4, <2>8 DEF Follows
  <2>10. ASSUME NEW v \in Tables, v = walk'.table
         PROVE  Follows(walk', Listings(v).orders')
    <3>1. v = t
      BY <2>4, <2>10
    <3> QED
      BY <2>9, <3>1
  <2>11. Following'
    BY <2>10 DEF Following
  <2> QED
    BY <2>4, <2>5, <2>11 DEF WalkInv
<1> QED
  BY <1>1, <1>2, <1>3

(* The listings that show rows in the order of their creation.             *)
LEMMA StaysUnrepeated ==
  ASSUME TablesOK, Unrepeated, YardStep
  PROVE  Unrepeated'
<1>1. CASE UNCHANGED <<vehicles, centers, users>>
  BY <1>1 DEF Unrepeated
<1>2. CASE RemoveVehicle
  <2>1. PICK v \in ToSet(vehicles) : vehicles' = RemoveFirst(vehicles, v)
    BY <1>2 DEF RemoveVehicle
  <2>2. centers' = centers /\ users' = users
    BY <1>2 DEF RemoveVehicle
  <2>3. NoTwice(vehicles')
    BY <2>1, RemovesFirst DEF TablesOK, Unrepeated
  <2> QED
    BY <2>2, <2>3 DEF Unrepeated
<1>3. CASE RemoveUser
  <2>1. PICK a \in ToSet(users) : users' = RemoveFirst(users, a)
    BY <1>3 DEF RemoveUser
  <2>2. centers' = centers /\ vehicles' = vehicles
    BY <1>3 DEF RemoveUser
  <2>3. NoTwice(users')
    BY <2>1, RemovesFirst DEF TablesOK, Unrepeated
  <2> QED
    BY <2>2, <2>3 DEF Unrepeated
<1>4. CASE RemoveCenter
  <2>1. PICK c \in ToSet(centers) : centers' = RemoveFirst(centers, c)
    BY <1>4 DEF RemoveCenter
  <2>2. users' = users /\ vehicles' = vehicles
    BY <1>4 DEF RemoveCenter
  <2>3. NoTwice(centers')
    BY <2>1, RemovesFirst DEF TablesOK, Unrepeated
  <2> QED
    BY <2>2, <2>3 DEF Unrepeated
<1>5. CASE CreateVehicleOrUser
  <2>1. CASE \E v \in Vehicles \ ToSet(vehicles) :
               vehicles' = Append(vehicles, v) /\ UNCHANGED users
    <3>1. NoTwice(vehicles')
      BY <2>1, NoTwiceAppend DEF TablesOK, Unrepeated
    <3> QED
      BY <1>5, <2>1, <3>1 DEF CreateVehicleOrUser, Unrepeated
  <2>2. CASE \E a \in Agents \ ToSet(users) :
               users' = Append(users, a) /\ UNCHANGED vehicles
    <3>1. NoTwice(users')
      BY <2>2, NoTwiceAppend DEF TablesOK, Unrepeated
    <3> QED
      BY <1>5, <2>2, <3>1 DEF CreateVehicleOrUser, Unrepeated
  <2> QED
    BY <1>5, <2>1, <2>2 DEF CreateVehicleOrUser
<1>6. ASSUME NEW r \in Requests,
             \/ Create(r) \/ CheckVehicle(r) \/ CheckCenter(r) \/ CheckDestination(r)
             \/ RecordArrival(r) \/ RecordExit(r)
             \/ UseArrival(r) \/ FindArrival(r) \/ SetStatus(r)
             \/ AddStage(r) \/ FindStage(r) \/ UpdateStage(r) \/ RemoveStage(r)
             \/ UseExit(r) \/ FindExit(r) \/ FindDestination(r)
             \/ UpdateExit(r) \/ RemoveExit(r)
      PROVE  UNCHANGED <<vehicles, centers, users>>
  BY <1>6 DEF Create, CheckVehicle, CheckCenter, CheckDestination,
              RecordArrival, RecordExit, UseArrival, FindArrival, SetStatus,
              AddStage, FindStage, UpdateStage, RemoveStage, UseExit, FindExit,
              FindDestination, UpdateExit, RemoveExit, yardVars
<1> QED
  BY <1>1, <1>2, <1>3, <1>4, <1>5, <1>6 DEF YardStep

LEMMA InitFollows ==
  ASSUME Init
  PROVE  WalkInv
<1>1. walk.skipped = {} /\ walk.kept = {} /\ HasGot(walk)
  BY DEF Init, AtHome, HasGot
<1>2. NoTwice(vehicles)
  <2>1. vehicles \in SetToSeqs(Vehicles) /\ IsFiniteSet(Vehicles)
    BY ListingAssumption DEF Init
  <2> QED
    BY <2>1, SeqsEnumerate DEF Enumerates
<1>3. NoTwice(centers)
  <2>1. centers \in SetToSeqs(Centers) /\ IsFiniteSet(Centers)
    BY ListingAssumption DEF Init
  <2> QED
    BY <2>1, SeqsEnumerate DEF Enumerates
<1>4. NoTwice(users)
  <2>1. CASE users = <<>>
    BY <2>1 DEF NoTwice
  <2>2. CASE users \in SetToSeqs(Agents)
    <3>1. IsFiniteSet(Agents)
      BY ListingAssumption
    <3> QED
      BY <2>2, <3>1, SeqsEnumerate DEF Enumerates
  <2> QED
    BY <2>1, <2>2 DEF Init
<1> QED
  BY <1>1, <1>2, <1>3, <1>4, KeepsNothing DEF WalkInv, Unrepeated, Following

LEMMA NextFollows ==
  ASSUME IInv, OrdersOK, OrdersOK', Unrepeated', WalkInv, [Next]_vars
  PROVE  WalkInv'
<1> USE DEF IInv
<1>1. CASE QrStep /\ UNCHANGED yardVars /\ Watch
  BY <1>1, WatchFollows
<1>2. CASE YardStep /\ Watch
  BY <1>2, WatchFollows
<1>3. CASE StartWalk
  BY <1>3, StartFollows
<1>4. CASE CountRows
  BY <1>4, CountFollows
<1>5. CASE SelectRows
  BY <1>5, RowsFollow
<1>6. CASE SelectIds
  BY <1>6, IdsFollow
<1>7. CASE SelectRelated
  BY <1>7, RelatedFollow
<1>8. CASE SelectFallback
  BY <1>8, FallbackFollows
<1>9. CASE FailListing
  BY <1>9, FailureFollows
<1>10. CASE Restart /\ walk' = AtHome /\ UNCHANGED yardVars
  <2>1. walk'.kept = {} /\ walk'.skipped = {} /\ HasGot(walk')
    BY <1>10 DEF AtHome, HasGot
  <2>2. Following'
    BY <2>1, KeepsNothing DEF Following
  <2> QED
    BY <2>1, <2>2 DEF WalkInv
<1>11. CASE UNCHANGED vars
  <2>1. walk' = walk /\ UNCHANGED <<vehicles, yardVars>>
    BY <1>11 DEF vars, qrVars
  <2>2. /\ walk'.skipped = {} /\ walk'.kept \subseteq walk.kept
        /\ walk'.table = walk.table /\ HasGot(walk')
        /\ \A o : ReadSoFar(walk, o) => ReadSoFar(walk', o)
    BY <2>1 DEF WalkInv
  <2> QED
    BY <2>1, <2>2, OwnStep
<1> QED
  BY <1>1, <1>2, <1>3, <1>4, <1>5, <1>6, <1>7, <1>8, <1>9, <1>10, <1>11 DEF Next

LEMMA UnrepeatedNext ==
  ASSUME IInv, Unrepeated, [Next]_vars
  PROVE  Unrepeated'
<1>1. CASE YardStep
  BY <1>1, StaysUnrepeated DEF IInv
<1>2. CASE UNCHANGED <<vehicles, centers, users>>
  BY <1>2 DEF Unrepeated
<1>3. QrStep => vehicles' = vehicles
  BY QrLeavesTables DEF IInv
<1>4. CASE Next /\ ~ YardStep
  <2>1. UNCHANGED <<vehicles, yardVars>>
    BY <1>3, <1>4 DEF Next, StartWalk, CountRows, SelectRows, SelectIds,
                  SelectRelated, SelectFallback, FailListing, Restart, qrVars
  <2> QED
    BY <1>2, <2>1 DEF yardVars
<1>5. CASE UNCHANGED vars
  BY <1>2, <1>5 DEF vars, qrVars, yardVars
<1> QED
  BY <1>1, <1>4, <1>5

(* A client that follows links.next sees every row it has a claim on, for  *)
(* any number of rows and any size of the pages: those that are in the     *)
(* table all the time, never come nearer to the front, are not pushed off  *)
(* the last page between COUNT and SELECT, and are not on a later page     *)
(* that the fallback reads (the findAll methods and getAllProcessingStages *)
(* of the services).                                                       *)
THEOREM PagesCover == Spec => []NothingSkipped
<1>1. Init => WalkInv
  BY InitFollows
<1>2. IInv /\ WalkInv => OrdersOK
  BY OrdersAreOK DEF IInv, WalkInv
<1>3. IInv /\ WalkInv /\ [Next]_vars => Unrepeated'
  BY UnrepeatedNext DEF WalkInv
<1>4. IInv' => TablesOK'
  BY DEF IInv
<1>5. TablesOK' /\ Unrepeated' => OrdersOK'
  BY OrdersAreOK, PTL
<1>6. IInv /\ WalkInv /\ OrdersOK /\ OrdersOK' /\ Unrepeated' /\ [Next]_vars
        => WalkInv'
  BY NextFollows
<1>7. IInv /\ IInv' /\ WalkInv /\ [Next]_vars => WalkInv'
  BY <1>2, <1>3, <1>4, <1>5, <1>6
<1>8. WalkInv => NothingSkipped
  BY DEF WalkInv, NothingSkipped
<1> QED
  BY <1>1, <1>7, <1>8, Inductive, PTL DEF Spec
=============================================================================
