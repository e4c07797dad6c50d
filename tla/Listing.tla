------------------------------ MODULE Listing ------------------------------
(***************************************************************************)
(* The paginated listings (findAll of arrivals, exits, vehicles, centers   *)
(* and users, getAllProcessingStages), read page after page by a client    *)
(* that follows the link to the next one, while the requests of Yard and   *)
(* QrCodes change the tables.                                              *)
(*                                                                         *)
(* A request is a COUNT and then a SELECT of the page, or, with relations, *)
(* a SELECT of the ids on the page and then one of their rows.             *)
(***************************************************************************)
EXTENDS Yard

CONSTANT PageSize   \* limit

Tables == {"arrivals", "stages", "exits", "vehicles", "centers", "users"}

ASSUME ListingAssumption ==
  /\ PageSize \in Nat \ {0}
  /\ \A S \in {Vehicles, Centers, Agents} : IsFiniteSet(S) /\ S # {}

VARIABLE walk   \* the client, and the request it is waiting for

vars == <<qrVars, yardVars, walk>>

(* Rows of a table are named by their ids.                                 *)
Ids(table) ==
  CASE table = "arrivals" -> DOMAIN arrivals
    [] table = "stages" -> DOMAIN stages
    [] table = "exits" -> DOMAIN exits
    [] table = "vehicles" -> ToSet(vehicles)
    [] table = "centers" -> ToSet(centers)
    [] table = "users" -> ToSet(users)

(* related: whether relations are asked for; again: the statements not to  *)
(* be tried again; got: the ids on the page; seen: the rows of all pages   *)
(* so far; kept: the rows that have been in the table all the time, and    *)
(* on which the walk has a claim (see NothingSkipped); skipped: at the     *)
(* end, what is kept and not seen.                                         *)
AtHome == [pc |-> "idle", table |-> "arrivals", related |-> FALSE,
           again |-> {}, page |-> 1, total |-> 0, got |-> {}, seen |-> {},
           kept |-> {}, skipped |-> {}]

TypeOK ==
  /\ YardTypeOK
  /\ walk.pc \in {"idle", "count", "ids", "rows", "related", "fallback"}
  /\ walk.table \in Tables
  /\ walk.related \in BOOLEAN /\ walk.again \subseteq {"count", "rows"}
  /\ walk.page \in Nat \ {0} /\ walk.total \in Nat
  /\ walk.kept \subseteq Ids(walk.table)

(* Either the yard is empty and the user's row is still to come, with or   *)
(* without a code older than the key; or there is an arrival with a stage, *)
(* an exit, and a code older than the encryption.                          *)
Init ==
  /\ vehicles \in SetToSeqs(Vehicles)
  /\ centers \in SetToSeqs(Centers)
  /\ key = 1
  /\ \/ /\ users = <<>>
        /\ arrivals = <<>> /\ stages = <<>> /\ exits = <<>>
        /\ \/ lastId = 0 /\ qrCodes = <<>>
           \/ /\ lastId = 1
              /\ qrCodes = [v \in {Head(vehicles)} |-> [id |-> 1, content |-> 2]]
     \/ /\ users \in SetToSeqs(Agents)
        /\ lastId = 4
        /\ arrivals = [i \in {1} |->
             [vehicle |-> Head(vehicles), center |-> Head(centers),
              agent |-> Head(users), status |-> "ARRIVED", at |-> 2]]
        /\ stages = [i \in {2} |->
             [arrival |-> 1, status |-> None, started |-> Never,
              completed |-> FALSE]]
        /\ exits = [i \in {3} |->
             [vehicle |-> Head(vehicles), center |-> Head(centers),
              agent |-> Head(users), destination |-> Last(centers),
              at |-> 2]]
        /\ qrCodes = [v \in {Head(vehicles)} |-> [id |-> 4, content |-> Plain]]
  /\ labels = {}
  /\ slot = [r \in Requests |-> Idle]
  /\ served = 0 /\ mishaps = 0
  /\ raced = {}
  /\ walk = AtHome
-----------------------------------------------------------------------------
(* A listing: the orders its ORDER BY allows, whether it answers without   *)
(* relations when the SELECT of the related rows fails, and where it goes  *)
(* on when another statement fails (elsewhere the answer is a 500).        *)
(* With arrivedAt or exitedAt DESC, rows of the same time come in any      *)
(* order.                                                                  *)
Newest(table) ==
  {w \in SetToSeqs(DOMAIN table) :
     \A i, j \in DOMAIN w : i < j => table[w[i]].at >= table[w[j]].at}

ArrivalListing ==
  [orders |-> Newest(arrivals), fallback |-> TRUE, retries |-> <<>>]

(* startedAt DESC puts stages without it first, in any order.              *)
LatestStart ==
  {w \in SetToSeqs(DOMAIN stages) :
     \A i, j \in DOMAIN w :
       i < j => \/ stages[w[i]].started = Never
                \/ stages[w[j]].started \in 1..stages[w[i]].started}

StageListing ==
  [orders |-> LatestStart, fallback |-> TRUE, retries |-> <<>>]

ExitListing ==
  [orders |-> Newest(exits), fallback |-> FALSE, retries |-> <<>>]

(* The message of a failed statement holds its text, and so the name of    *)
(* account_id: any failure is taken for a missing column.  The COUNT, or   *)
(* after the rows both statements, are tried again.                        *)
VehicleListing ==
  [orders |-> {Reverse(vehicles)}, fallback |-> FALSE,
   retries |-> [pc \in {"count", "rows"} |-> "count"]]

CenterListing ==
  [orders |-> {Reverse(centers)}, fallback |-> FALSE, retries |-> <<>>]

(* Here the text holds the name of email.                                  *)
UserListing ==
  [orders |-> {Reverse(users)}, fallback |-> FALSE,
   retries |-> [pc \in {"rows"} |-> "rows"]]

Listings(table) ==
  CASE table = "arrivals" -> ArrivalListing
    [] table = "stages" -> StageListing
    [] table = "exits" -> ExitListing
    [] table = "vehicles" -> VehicleListing
    [] table = "centers" -> CenterListing
    [] table = "users" -> UserListing

(* In the orders now, row x is not nearer to the front than it was.        *)
Onward(x, was, now) ==
  \A old \in was, new \in now : \A i \in DOMAIN old, j \in DOMAIN new :
    old[i] = x /\ new[j] = x => i <= j

(* Mutation of Offset: the page is counted from 0.                         *)
OffsetFromZero(page) == page * PageSize

Offset(page) == (page - 1) * PageSize

(* LIMIT and OFFSET.                                                       *)
Page(order) ==
  {order[i] : i \in {j \in DOMAIN order :
                       Offset(walk.page) < j /\ j <= Offset(walk.page) + PageSize}}

(* links.next: page < Math.ceil(total / limit).                            *)
HasNext == walk.page * PageSize < walk.total

(* The answer, and the request of the next page if there is a link to it.  *)
Answer(rows) ==
  IF HasNext
  THEN walk' = [walk EXCEPT !.pc = "count", !.page = @ + 1, !.again = {},
                            !.got = {}, !.seen = @ \cup rows]
  ELSE walk' = [AtHome EXCEPT !.skipped = walk.kept \ (walk.seen \cup rows)]
-----------------------------------------------------------------------------
StartWalk ==
  /\ walk.pc = "idle"
  /\ Served
  /\ \E t \in Tables, related \in BOOLEAN : \E orders \in {Listings(t).orders} :
       walk' = [AtHome EXCEPT !.pc = "count", !.table = t, !.related = related,
                              !.kept = {x \in Ids(t) : Onward(x, orders, orders)}]
  /\ UNCHANGED <<vehicles, qrCodes, lastId, key, labels, slot, mishaps,
                 yardVars>>

CountRows ==
  /\ walk.pc = "count"
  /\ walk' = [walk EXCEPT !.total = Cardinality(Ids(walk.table)),
                          !.pc = IF walk.related THEN "ids" ELSE "rows"]
  /\ UNCHANGED <<qrVars, yardVars>>

SelectRows ==
  /\ walk.pc = "rows"
  /\ \E order \in Listings(walk.table).orders : Answer(Page(order))
  /\ UNCHANGED <<qrVars, yardVars>>

(* With relations: the ids on the page; without any, there is no more to   *)
(* ask.                                                                    *)
SelectIds ==
  /\ walk.pc = "ids"
  /\ \E order \in Listings(walk.table).orders :
       IF Page(order) = {} THEN Answer({})
       ELSE walk' = [walk EXCEPT !.pc = "related", !.got = Page(order)]
  /\ UNCHANGED <<qrVars, yardVars>>

(* findMany on these ids, sorted again in their order.  (That a row lacks  *)
(* its vehicle or its center, the foreign keys forbid.)                    *)
SelectRelated ==
  /\ walk.pc = "related"
  /\ Answer(walk.got \cap Ids(walk.table))
  /\ UNCHANGED <<qrVars, yardVars>>

(* After a failure of findMany: the SELECT of these ids, in some order,    *)
(* with LIMIT and OFFSET once more, so that from the second page on        *)
(* nothing is left.                                                        *)
SelectFallback ==
  /\ walk.pc = "fallback"
  /\ \E order \in SetToSeqs(walk.got \cap Ids(walk.table)) :
       Answer(Page(order))
  /\ UNCHANGED <<qrVars, yardVars>>

FailListing ==
  /\ walk.pc # "idle"
  /\ mishaps < MaxMishaps
  /\ mishaps' = mishaps + 1
  /\ LET listing == Listings(walk.table) IN
       \/ /\ walk.pc = "related" /\ listing.fallback
          /\ walk' = [walk EXCEPT !.pc = "fallback",
                                  !.kept = IF walk.page > 1 THEN @ \ walk.got
                                           ELSE @]
       \/ /\ walk.pc \in DOMAIN listing.retries \ walk.again
          /\ walk' = [walk EXCEPT !.pc = listing.retries[walk.pc],
                                  !.again = {"count", walk.pc}]
       \/ /\ ~ (walk.pc = "related" /\ listing.fallback)
          /\ walk.pc \notin DOMAIN listing.retries \ walk.again
          /\ walk' = AtHome
  /\ UNCHANGED <<vehicles, qrCodes, lastId, key, labels, slot, served, yardVars>>

(* The page is taken for the last one, and will be read in an order in     *)
(* which row x is behind its end.                                          *)
PushedOff(x, orders) ==
  /\ walk.pc \in {"ids", "rows"} /\ ~ HasNext
  /\ \E order \in orders : \E i \in DOMAIN order :
       order[i] = x /\ i > Offset(walk.page) + PageSize

(* What another request means for the walk.  (The table and the orders are *)
(* bound by sets, for the primes to leave walk alone, and for TLC to make  *)
(* out the orders once.)                                                   *)
Watch ==
  IF walk.kept = {} \/ UNCHANGED <<vehicles, yardVars>> THEN walk' = walk
  ELSE \E t \in {walk.table} :
       \E was \in {Listings(t).orders}, now \in {Listings(t).orders'} :
         walk' = [walk EXCEPT
                    !.kept = {x \in @ \cap Ids(t)' :
                                /\ Onward(x, was, now) /\ Onward(x, now, now)
                                /\ ~ PushedOff(x, now)}]

Next ==
  \/ QrStep /\ UNCHANGED yardVars /\ Watch
  \/ YardStep /\ Watch
  \/ StartWalk \/ CountRows \/ SelectRows \/ SelectIds \/ SelectRelated
  \/ SelectFallback \/ FailListing
  \/ Restart /\ walk' = AtHome /\ UNCHANGED yardVars

Spec == Init /\ [][Next]_vars
-----------------------------------------------------------------------------
(* links.next leads a client through a listing.  A row that is there all   *)
(* the time is on one of the pages, whatever is inserted, removed or       *)
(* reordered elsewhere in the table, and however often a failed statement  *)
(* is tried again.  It may be missed only if it comes nearer to the front, *)
(* because a row before it is deleted or moved, or because the ORDER BY    *)
(* does not fix its place; if it is pushed off a page that the COUNT has   *)
(* made the last one, before the SELECT; or if it is on a later page that  *)
(* is read by the fallback.                                                *)
NothingSkipped == walk.skipped = {}
=============================================================================
