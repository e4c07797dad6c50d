------------------------------ MODULE QrCodes ------------------------------
(***************************************************************************)
(* QrCodeService: the label of a vehicle is its id; table qr_codes keeps   *)
(* the same id encrypted with the key of the process, or as plain text in  *)
(* rows that are older than the encryption.                                *)
(*                                                                         *)
(* Each SQL statement is one step, with the code up to the next one; there *)
(* is no transaction.  One account.  Yard adds the other requests that     *)
(* work on the vehicles.                                                   *)
(***************************************************************************)
EXTENDS Naturals, Sequences, SequencesExt

CONSTANTS
  Vehicles,
  Requests,      \* slots for concurrent HTTP requests
  MaxRequests,   \* bound: requests in a behaviour
  MaxMishaps     \* bound: failed statements and restarts

ASSUME QrCodesAssumption == MaxRequests \in Nat /\ MaxMishaps \in Nat

VARIABLES
  vehicles,   \* table vehicles, as ids in the order of creation
  qrCodes,    \* table qr_codes: a function from vehicles to rows
  lastId,     \* the last serial number that a table has drawn
  key,        \* the key of the process, from QR_CODE_ENCRYPTION_KEY
  labels,     \* vehicles whose label was handed out, or scanned, under key
  slot,       \* what each request is doing
  served,     \* requests so far
  mishaps     \* failed statements and restarts so far

qrVars == <<vehicles, qrCodes, lastId, key, labels, slot, served, mishaps>>

Plain == 0

(* content: Plain, or the key that the vehicle's id was encrypted with.    *)
Row == [id : Nat, content : Nat]

Idle == [pc |-> "idle"]

(* rest: the vehicles that a bulk request has still to do.                 *)
QrFrame ==
  [pc : {"vehicle", "code", "insert"}, op : {"generate", "regenerate", "delete"},
   vehicle : Vehicles, rest : Seq(Vehicles)] \cup
  [pc : {"encrypt", "rewrite", "delete"},
   op : {"generate", "regenerate", "delete"},
   vehicle : Vehicles, rest : Seq(Vehicles), id : Nat] \cup
  [pc : {"scan", "scanAll", "reread"}, vehicle : Vehicles] \cup
  [pc : {"upgrade"}, vehicle : Vehicles, id : Nat]

QrTypeOK ==
  /\ ToSet(vehicles) \subseteq Vehicles
  /\ DOMAIN qrCodes \subseteq Vehicles
  /\ qrCodes \in [DOMAIN qrCodes -> Row]
  /\ lastId \in Nat
  /\ key \in Nat \ {Plain}
  /\ labels \subseteq Vehicles
  /\ served \in 0..MaxRequests
  /\ mishaps \in 0..MaxMishaps
-----------------------------------------------------------------------------
Goto(r, frame) == slot' = [slot EXCEPT ![r] = frame]
At(r, pc) == slot[r].pc = pc

Begin(r, frame) ==
  /\ slot[r] = Idle
  /\ served < MaxRequests
  /\ served' = served + 1
  /\ Goto(r, frame)

Known(v) == v \in ToSet(vehicles)

(* decrypt: AES-GCM refuses what another key has encrypted; plain text is  *)
(* taken as it is.                                                         *)
Readable(row) == row.content \in {Plain, key}

(* Mutation of NeedsEncryption: what fails to decrypt is left as it is.    *)
IsPlain(row) == row.content = Plain

(* Plain text, or an error in decrypt.                                     *)
NeedsEncryption(row) == IsPlain(row) \/ ~ Readable(row)

(* The UPDATE by row id that stores the vehicle's id, newly encrypted.     *)
Encrypted(v, id) ==
  IF v \in DOMAIN qrCodes /\ qrCodes[v].id = id
  THEN [qrCodes EXCEPT ![v].content = key] ELSE qrCodes

(* The label goes to the client.  If a deletion has overtaken the request, *)
(* it counts as deleted after that.                                        *)
HandOut(v) ==
  labels' = IF v \in DOMAIN qrCodes' THEN labels \cup {v} ELSE labels

(* A request is over, and a bulk request goes on with its next vehicle, be *)
(* it with a success, a failure or a vehicle to skip.                      *)
NextVehicle(r) ==
  Goto(r, IF slot[r].rest = <<>> THEN Idle
          ELSE [pc |-> "vehicle", op |-> "generate",
                vehicle |-> Head(slot[r].rest), rest |-> Tail(slot[r].rest)])
-----------------------------------------------------------------------------
(* generateQrCode, also for a GET of the label; regenerateQrCode;          *)
(* deleteQrCode.                                                           *)
CallQrCode(r) ==
  /\ \E v \in Vehicles, op \in {"generate", "regenerate", "delete"} :
       Begin(r, [pc |-> "vehicle", op |-> op, vehicle |-> v, rest |-> <<>>])
  /\ UNCHANGED <<vehicles, qrCodes, lastId, key, labels, mishaps>>

BulkGenerate(r) ==
  /\ \E v, w \in Vehicles :
       Begin(r, [pc |-> "vehicle", op |-> "generate", vehicle |-> v,
                 rest |-> <<w>>])
  /\ UNCHANGED <<vehicles, qrCodes, lastId, key, labels, mishaps>>

(* All: the SELECT of the vehicle; 404, or skipped, without it.            *)
SelectVehicle(r) ==
  /\ At(r, "vehicle")
  /\ IF Known(slot[r].vehicle)
     THEN Goto(r, [slot[r] EXCEPT !.pc = "code"])
     ELSE NextVehicle(r)
  /\ UNCHANGED <<vehicles, qrCodes, lastId, key, labels, served, mishaps>>

(* With the row: what comes next, by operation.                            *)
WithId(r, pc) ==
  Goto(r, [pc |-> pc, op |-> slot[r].op, vehicle |-> slot[r].vehicle,
           rest |-> slot[r].rest, id |-> qrCodes[slot[r].vehicle].id])

(* All: the SELECT of the vehicle's row in qr_codes.                       *)
SelectCode(r) ==
  /\ At(r, "code")
  /\ LET v == slot[r].vehicle op == slot[r].op IN
       \/ /\ v \notin DOMAIN qrCodes /\ op = "delete"
          /\ Goto(r, Idle) /\ UNCHANGED labels
       \/ /\ v \notin DOMAIN qrCodes /\ op # "delete"
          /\ Goto(r, [slot[r] EXCEPT !.pc = "insert"]) /\ UNCHANGED labels
       \/ /\ v \in DOMAIN qrCodes /\ op = "delete"
          /\ WithId(r, "delete") /\ UNCHANGED labels
       \/ /\ v \in DOMAIN qrCodes /\ op = "regenerate"
          /\ WithId(r, "rewrite") /\ UNCHANGED labels
       \/ /\ v \in DOMAIN qrCodes /\ op = "generate"
          /\ NeedsEncryption(qrCodes[v])
          /\ WithId(r, IF IsPlain(qrCodes[v]) THEN "encrypt" ELSE "rewrite")
          /\ UNCHANGED labels
       \/ /\ v \in DOMAIN qrCodes /\ op = "generate"
          /\ ~ NeedsEncryption(qrCodes[v])
          /\ NextVehicle(r)
          /\ labels' = labels \cup {v}
  /\ UNCHANGED <<vehicles, qrCodes, lastId, key, served, mishaps>>

(* generate, regenerate: the UPDATE by row id.                             *)
RewriteCode(r) ==
  /\ slot[r].pc \in {"encrypt", "rewrite"}
  /\ qrCodes' = Encrypted(slot[r].vehicle, slot[r].id)
  /\ HandOut(slot[r].vehicle)
  /\ NextVehicle(r)
  /\ UNCHANGED <<vehicles, lastId, key, served, mishaps>>

(* generate, regenerate: the INSERT; one row per vehicle, else 400.        *)
InsertCode(r) ==
  /\ At(r, "insert")
  /\ LET v == slot[r].vehicle IN
       IF v \in DOMAIN qrCodes THEN UNCHANGED <<qrCodes, lastId, labels>>
       ELSE /\ lastId' = lastId + 1
            /\ qrCodes' = [w \in DOMAIN qrCodes \cup {v} |->
                             IF w = v THEN [id |-> lastId + 1, content |-> key]
                             ELSE qrCodes[w]]
            /\ HandOut(v)
  /\ NextVehicle(r)
  /\ UNCHANGED <<vehicles, key, served, mishaps>>

(* deleteQrCode: the DELETE by row id.                                     *)
DeleteCode(r) ==
  /\ At(r, "delete")
  /\ LET gone == {v \in DOMAIN qrCodes : qrCodes[v].id = slot[r].id} IN
       /\ qrCodes' = [v \in DOMAIN qrCodes \ gone |-> qrCodes[v]]
       /\ labels' = labels \ gone
  /\ Goto(r, Idle)
  /\ UNCHANGED <<vehicles, lastId, key, served, mishaps>>
-----------------------------------------------------------------------------
Validate(r) ==
  /\ \E v \in Vehicles : Begin(r, [pc |-> "scan", vehicle |-> v])
  /\ UNCHANGED <<vehicles, qrCodes, lastId, key, labels, mishaps>>

(* The label matches this vehicle's row: a plain row is encrypted first.   *)
Match(r, v) ==
  /\ labels' = labels \cup {v}
  /\ Goto(r, IF IsPlain(qrCodes[v])
             THEN [pc |-> "upgrade", vehicle |-> v, id |-> qrCodes[v].id]
             ELSE [pc |-> "reread", vehicle |-> v])

Scans(v) == v \in DOMAIN qrCodes /\ Readable(qrCodes[v])

(* validateQrCode: the SELECT of the row by the number on the label; then, *)
(* without a match, that of all rows, of which only this vehicle's can     *)
(* hold the same number.  404 without a match.                             *)
Scan(r) ==
  /\ slot[r].pc \in {"scan", "scanAll"}
  /\ IF Scans(slot[r].vehicle) THEN Match(r, slot[r].vehicle)
     ELSE /\ Goto(r, IF At(r, "scan") THEN [slot[r] EXCEPT !.pc = "scanAll"]
                     ELSE Idle)
          /\ UNCHANGED labels
  /\ UNCHANGED <<vehicles, qrCodes, lastId, key, served, mishaps>>

Upgrade(r) ==
  /\ At(r, "upgrade")
  /\ qrCodes' = Encrypted(slot[r].vehicle, slot[r].id)
  /\ Goto(r, [pc |-> "reread", vehicle |-> slot[r].vehicle])
  /\ UNCHANGED <<vehicles, lastId, key, labels, served, mishaps>>

(* validateQrCode: the SELECT of the vehicle for the answer; there may be  *)
(* none, and its code is there still.                                      *)
Reread(r) ==
  /\ At(r, "reread")
  /\ Goto(r, Idle)
  /\ UNCHANGED <<vehicles, qrCodes, lastId, key, labels, served, mishaps>>
-----------------------------------------------------------------------------
(* A statement fails: the request ends, a bulk request takes up its next   *)
(* vehicle.  If it was the UPDATE of a plain row, the catch block writes   *)
(* the row once more.                                                      *)
FailQrCode(r) ==
  /\ slot[r].pc \in {"vehicle", "code", "insert", "encrypt", "rewrite", "delete"}
  /\ mishaps < MaxMishaps
  /\ mishaps' = mishaps + 1
  /\ IF At(r, "encrypt") THEN Goto(r, [slot[r] EXCEPT !.pc = "rewrite"])
     ELSE NextVehicle(r)
  /\ UNCHANGED <<vehicles, qrCodes, lastId, key, labels, served>>

(* The process starts anew, with the same key or a new one.  What the new  *)
(* key cannot read does not count as handed out.                           *)
Restart ==
  /\ mishaps < MaxMishaps
  /\ mishaps' = mishaps + 1
  /\ key' \in {key, key + 1}
  /\ labels' = {v \in labels : qrCodes[v].content \in {Plain, key'}}
  /\ slot' = [r \in Requests |-> Idle]
  /\ UNCHANGED <<vehicles, qrCodes, lastId, served>>

QrStep ==
  \/ \E r \in Requests :
       \/ CallQrCode(r) \/ BulkGenerate(r) \/ SelectVehicle(r)
       \/ SelectCode(r) \/ RewriteCode(r) \/ InsertCode(r) \/ DeleteCode(r)
       \/ Validate(r) \/ Scan(r) \/ Upgrade(r) \/ Reread(r)
       \/ FailQrCode(r)
-----------------------------------------------------------------------------
(* qr-code.service.ts:82: a row is written again "so future requests       *)
(* succeed (e.g. after encryption key change)".  A label that was handed   *)
(* out or scanned since the key was last changed can be scanned until it   *)
(* is deleted, also if other requests write or delete the row at the same  *)
(* time, and if the vehicle is removed and comes back meanwhile.           *)
PrintedCodeScans == \A v \in labels : Scans(v)
=============================================================================
