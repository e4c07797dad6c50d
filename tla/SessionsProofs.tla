--------------------------- MODULE SessionsProofs ---------------------------
(***************************************************************************)
(* Proofs about Sessions, for any number of users, tokens and concurrent   *)
(* requests, with failures, crashes and tokens that expire at any time.    *)
(*                                                                         *)
(* The three properties need to know what an exchange still holds between  *)
(* its statements: its token was given to its user, the token is gone for  *)
(* good once deleted, and nobody who may still store a token is away.      *)
(***************************************************************************)
EXTENDS Sessions, TLAPS

(* A row belongs to the user its token was given to.                       *)
OwnRows == \A k \in DOMAIN refreshTokens : refreshTokens[k] = held[k]

(* What a request carries across its awaits.                               *)
FrameHolds(f, rows, given, over, gone) ==
  /\ f.pc = "select" => f.token \in DOMAIN given /\ given[f.token] = f.user
  /\ f.pc = "delete" => f.token \in DOMAIN given
  /\ f.pc \in {"purge", "store"} /\ f.token # NoToken =>
       f.token \in over \ DOMAIN rows
  /\ f.pc \in {"delete", "purge", "store"} => f.user \notin gone

FramesHold ==
  \A r \in Requests : FrameHolds(slot[r], refreshTokens, held, ended, away)

IInv ==
  /\ TypeOK
  /\ OwnRows
  /\ FramesHold
  /\ OldTokenInvalid
  /\ LoggedOutStaysOut
  /\ HeldTokenWorks

(* What was given out stays given out, what is ended stays so, and no row  *)
(* comes back.                                                             *)
Grows ==
  /\ \A k \in DOMAIN held : k \in DOMAIN held' /\ held'[k] = held[k]
  /\ ended \subseteq ended'
  /\ \A k \in DOMAIN refreshTokens' : k \in DOMAIN held => k \in DOMAIN refreshTokens

(* Only the frame of request r changes.                                    *)
Moves(r) == slot' = [slot EXCEPT ![r] = slot'[r]]

(* The others that may store a token are not away.                         *)
OthersStay(r) ==
  \A q \in Requests \ {r} :
    slot[q].pc \in {"delete", "purge", "store"} => slot[q].user \notin away'
-----------------------------------------------------------------------------
LEMMA FramesStep ==
  ASSUME IInv, Grows, NEW r \in Requests, Moves(r), OthersStay(r),
         slot'[r] \in Frame,
         FrameHolds(slot'[r], refreshTokens', held', ended', away')
  PROVE  FramesHold' /\ slot' \in [Requests -> Frame]
<1>1. slot' \in [Requests -> Frame]
  BY DEF IInv, TypeOK, Moves
<1>2. ASSUME NEW q \in Requests
      PROVE  FrameHolds(slot'[q], refreshTokens', held', ended', away')
  <2>1. CASE q = r
    BY <2>1
  <2>2. CASE q # r
    <3>1. slot'[q] = slot[q]
      BY <2>2 DEF Moves, IInv, TypeOK
    <3>2. FrameHolds(slot[q], refreshTokens, held, ended, away)
      BY DEF IInv, FramesHold
    <3>3. ended \subseteq DOMAIN held
      BY DEF IInv, TypeOK
    <3>4. FrameHolds(slot[q], refreshTokens', held', ended', away')
      BY <2>2, <3>2, <3>3 DEF FrameHolds, Grows, OthersStay
    <3> QED
      BY <3>1, <3>4
  <2> QED
    BY <2>1, <2>2
<1> QED
  BY <1>1, <1>2 DEF FramesHold

(* When nobody becomes away, the others stay.                              *)
LEMMA NobodyLeaves ==
  ASSUME IInv, NEW r \in Requests, away' \subseteq away
  PROVE  OthersStay(r)
  BY DEF IInv, FramesHold, FrameHolds, OthersStay

(* A step that leaves the tokens alone and changes one frame.              *)
LEMMA LocalStep ==
  ASSUME IInv, NEW r \in Requests, Moves(r),
         UNCHANGED <<refreshTokens, expired, held, exchanged, ended>>,
         malambi' \subseteq Users, away' \subseteq away,
         slot'[r] \in Frame,
         FrameHolds(slot'[r], refreshTokens, held, ended, away')
  PROVE  IInv'
<1>1. Grows
  BY DEF Grows
<1>2. OthersStay(r)
  BY NobodyLeaves
<1>3. FramesHold' /\ slot' \in [Requests -> Frame]
  BY <1>1, <1>2, FramesStep
<1>4. TypeOK'
  BY <1>3 DEF IInv, TypeOK
<1>5. OwnRows' /\ OldTokenInvalid' /\ LoggedOutStaysOut' /\ HeldTokenWorks'
  BY DEF IInv, OwnRows, OldTokenInvalid, LoggedOutStaysOut, HeldTokenWorks,
         Acceptable
<1> QED
  BY <1>3, <1>4, <1>5 DEF IInv

LEMMA IdleHolds ==
  ASSUME NEW rows, NEW given, NEW over, NEW gone
  PROVE  Idle \in Frame /\ FrameHolds(Idle, rows, given, over, gone)
  BY DEF Idle, Frame, FrameHolds

LEMMA GotoMoves ==
  ASSUME IInv, NEW r \in Requests, NEW f, slot' = [slot EXCEPT ![r] = f]
  PROVE  Moves(r) /\ slot'[r] = f
  BY DEF IInv, TypeOK, Moves

(* The frame of a request at one of its statements.                        *)
LEMMA SlotRead ==
  ASSUME IInv, NEW r \in Requests
  PROVE  /\ FrameHolds(slot[r], refreshTokens, held, ended, away)
         /\ slot[r].pc # "idle" =>
              slot[r] \in [pc : {"checkAuth", "select", "delete", "purge",
                                 "store", "remote", "clear"},
                           user : Users, token : Tokens \cup {NoToken}]
<1>1. slot[r] \in Frame
  BY DEF IInv, TypeOK
<1> QED
  BY <1>1 DEF IInv, FramesHold, Frame, Idle

(* A uuid is drawn only once.                                              *)
LEMMA FreshTokenIsFresh ==
  ASSUME IInv, DOMAIN held # Tokens
  PROVE  FreshToken \in Tokens \ DOMAIN held
<1>1. \E k \in Tokens : k \notin DOMAIN held
  BY DEF IInv, TypeOK
<1> QED
  BY <1>1 DEF FreshToken
-----------------------------------------------------------------------------
LEMMA StepLogin ==
  ASSUME IInv, NEW r \in Requests, Login(r)
  PROVE  IInv'
<1> PICK u \in Users :
      /\ Goto(r, [pc |-> "store", user |-> u, token |-> NoToken])
      /\ malambi' = malambi \cup {u}
      /\ away' = away \ {u}
  BY DEF Login
<1> DEFINE f == [pc |-> "store", user |-> u, token |-> NoToken]
<1>1. f \in Frame /\ FrameHolds(f, refreshTokens, held, ended, away')
  BY DEF Frame, FrameHolds
<1>2. Moves(r) /\ slot'[r] = f
  BY GotoMoves DEF Goto
<1>3. malambi' \subseteq Users /\ away' \subseteq away
  BY DEF IInv, TypeOK
<1>4. UNCHANGED <<refreshTokens, expired, held, exchanged, ended>>
  BY DEF Login
<1> QED
  BY <1>1, <1>2, <1>3, <1>4, LocalStep

LEMMA StepRefresh ==
  ASSUME IInv, NEW r \in Requests, Refresh(r)
  PROVE  IInv'
<1> PICK k \in DOMAIN held :
      Goto(r, [pc |-> "select", user |-> held[k], token |-> k])
  BY DEF Refresh
<1> DEFINE f == [pc |-> "select", user |-> held[k], token |-> k]
<1>1. f \in Frame
  BY DEF Frame, IInv, TypeOK
<1>2. FrameHolds(f, refreshTokens, held, ended, away')
  BY DEF FrameHolds
<1>3. Moves(r) /\ slot'[r] = f
  BY GotoMoves DEF Goto
<1>4. malambi' \subseteq Users /\ away' \subseteq away
  BY DEF Refresh, IInv, TypeOK
<1>5. UNCHANGED <<refreshTokens, expired, held, exchanged, ended>>
  BY DEF Refresh
<1> QED
  BY <1>1, <1>2, <1>3, <1>4, <1>5, LocalStep

(* The row read names the user: it is not of someone who is away.          *)
LEMMA StepSelectToken ==
  ASSUME IInv, NEW r \in Requests, SelectToken(r)
  PROVE  IInv'
<1>1. malambi' \subseteq Users /\ away' \subseteq away
  BY DEF SelectToken, IInv, TypeOK
<1>2. UNCHANGED <<refreshTokens, expired, held, exchanged, ended, away>>
  BY DEF SelectToken
<1>3. CASE Acceptable(slot[r].token)
  <2> DEFINE f == [slot[r] EXCEPT !.pc = "delete"]
  <2>1. slot' = [slot EXCEPT ![r] = f]
    BY <1>3 DEF SelectToken, Goto
  <2>2. Moves(r) /\ slot'[r] = f
    BY <2>1, GotoMoves
  <2>3. f \in Frame
    BY SlotRead DEF SelectToken, At, Frame
  <2>4. slot[r].token \in DOMAIN held /\ held[slot[r].token] = slot[r].user
    BY SlotRead DEF SelectToken, At, FrameHolds
  <2>5. slot[r].user \notin away
    BY <1>3, <2>4 DEF Acceptable, IInv, OwnRows, LoggedOutStaysOut
  <2>6. f.pc = "delete" /\ f.token = slot[r].token /\ f.user = slot[r].user
    BY SlotRead DEF SelectToken, At
  <2>7. FrameHolds(f, refreshTokens, held, ended, away')
    BY <1>2, <2>4, <2>5, <2>6 DEF FrameHolds
  <2> QED
    BY <1>1, <1>2, <2>2, <2>3, <2>7, LocalStep
<1>4. CASE ~ Acceptable(slot[r].token)
  <2>1. Moves(r) /\ slot'[r] = Idle
    BY <1>4, GotoMoves DEF SelectToken, Goto
  <2> QED
    BY <1>1, <1>2, <2>1, IdleHolds, LocalStep
<1> QED
  BY <1>3, <1>4

(* The token is ended, and its row gone for good.                          *)
LEMMA StepDeleteToken ==
  ASSUME IInv, NEW r \in Requests, DeleteToken(r)
  PROVE  IInv'
<1> DEFINE f == [slot[r] EXCEPT !.pc = "purge"]
<1>1. Moves(r) /\ slot'[r] = f
  BY GotoMoves DEF DeleteToken, Goto
<1>2. f \in Frame
  BY SlotRead DEF DeleteToken, At, Frame
<1>3. slot[r].token \in DOMAIN held /\ slot[r].user \notin away
  BY SlotRead DEF DeleteToken, At, FrameHolds
<1>4. f.pc = "purge" /\ f.token = slot[r].token /\ f.user = slot[r].user
  BY SlotRead DEF DeleteToken, At
<1>5. /\ ended' = ended \cup {slot[r].token}
      /\ DOMAIN refreshTokens' = DOMAIN refreshTokens \ {slot[r].token}
      /\ \A k \in DOMAIN refreshTokens' : refreshTokens'[k] = refreshTokens[k]
      /\ refreshTokens' = [k \in DOMAIN refreshTokens' |-> refreshTokens[k]]
      /\ UNCHANGED <<expired, malambi, held, exchanged, away>>
  BY DEF DeleteToken, Without
<1>6. FrameHolds(f, refreshTokens', held', ended', away')
  BY <1>3, <1>4, <1>5 DEF FrameHolds
<1>7. Grows
  BY <1>5 DEF Grows
<1>8. OthersStay(r)
  BY <1>5, NobodyLeaves
<1>9. FramesHold' /\ slot' \in [Requests -> Frame]
  BY <1>1, <1>2, <1>6, <1>7, <1>8, FramesStep
<1>10. TypeOK'
  BY <1>3, <1>5, <1>9 DEF IInv, TypeOK
<1>11. OwnRows' /\ OldTokenInvalid' /\ LoggedOutStaysOut'
  BY <1>5 DEF IInv, OwnRows, OldTokenInvalid, LoggedOutStaysOut
<1>12. HeldTokenWorks'
  BY <1>5 DEF IInv, HeldTokenWorks, Acceptable
<1> QED
  BY <1>9, <1>10, <1>11, <1>12 DEF IInv

(* Only expired rows go.                                                   *)
LEMMA StepPurgeExpired ==
  ASSUME IInv, NEW r \in Requests, PurgeExpired(r)
  PROVE  IInv'
<1> DEFINE f == [slot[r] EXCEPT !.pc = "store"]
<1>1. Moves(r) /\ slot'[r] = f
  BY GotoMoves DEF PurgeExpired, Goto
<1>2. f \in Frame
  BY SlotRead DEF PurgeExpired, At, Frame
<1>3. f.pc = "store" /\ f.token = slot[r].token /\ f.user = slot[r].user
  BY SlotRead DEF PurgeExpired, At
<1>4. /\ DOMAIN refreshTokens' = DOMAIN refreshTokens \ Purged(slot[r].user)
      /\ \A k \in DOMAIN refreshTokens' : refreshTokens'[k] = refreshTokens[k]
      /\ refreshTokens' = [k \in DOMAIN refreshTokens' |-> refreshTokens[k]]
      /\ UNCHANGED <<expired, malambi, held, exchanged, ended, away>>
  BY DEF PurgeExpired, Without
<1>5. Purged(slot[r].user) \subseteq expired
  BY DEF Purged
<1>6. slot[r].pc = "purge"
      /\ FrameHolds(slot[r], refreshTokens, held, ended, away)
  BY SlotRead DEF PurgeExpired, At
<1>7. FrameHolds(f, refreshTokens', held', ended', away')
  BY <1>3, <1>4, <1>6 DEF FrameHolds
<1>8. Grows
  BY <1>4 DEF Grows
<1>9. OthersStay(r)
  BY <1>4, NobodyLeaves
<1>10. FramesHold' /\ slot' \in [Requests -> Frame]
  BY <1>1, <1>2, <1>7, <1>8, <1>9, FramesStep
<1>11. TypeOK'
  BY <1>4, <1>10 DEF IInv, TypeOK
<1>12. OwnRows' /\ OldTokenInvalid' /\ LoggedOutStaysOut'
  BY <1>4 DEF IInv, OwnRows, OldTokenInvalid, LoggedOutStaysOut
<1>13. HeldTokenWorks'
  BY <1>4, <1>5 DEF IInv, HeldTokenWorks, Acceptable
<1> QED
  BY <1>10, <1>11, <1>12, <1>13 DEF IInv

(* The new token was never seen before, and its user is not away.          *)
LEMMA StepStoreToken ==
  ASSUME IInv, NEW r \in Requests, StoreToken(r)
  PROVE  IInv'
<1> DEFINE new == FreshToken
           old == slot[r].token
           u == slot[r].user
<1>1. Moves(r) /\ slot'[r] = Idle
  BY GotoMoves DEF StoreToken, Goto
<1>2. new \in Tokens \ DOMAIN held
  BY FreshTokenIsFresh DEF StoreToken
<1>3. u \in Users /\ u \notin away
  BY SlotRead DEF StoreToken, At, FrameHolds
<1>4. old # NoToken => old \in ended \ DOMAIN refreshTokens
  BY SlotRead DEF StoreToken, At, FrameHolds
<1> HIDE DEF new
<1>5. /\ refreshTokens' = With(refreshTokens, new, u)
      /\ held' = With(held, new, u)
      /\ exchanged' = exchanged \cup ({old} \ {NoToken})
      /\ UNCHANGED <<expired, malambi, ended, away>>
  BY DEF StoreToken, new
<1>6. /\ DOMAIN refreshTokens' = DOMAIN refreshTokens \cup {new}
      /\ refreshTokens'[new] = u
      /\ \A k \in DOMAIN refreshTokens \ {new} : refreshTokens'[k] = refreshTokens[k]
      /\ refreshTokens' = [k \in DOMAIN refreshTokens' |-> refreshTokens'[k]]
  BY <1>5 DEF With
<1>7. /\ DOMAIN held' = DOMAIN held \cup {new}
      /\ held'[new] = u
      /\ \A k \in DOMAIN held : held'[k] = held[k]
      /\ held' = [k \in DOMAIN held' |-> held'[k]]
  BY <1>2, <1>5 DEF With
<1>8. DOMAIN refreshTokens \subseteq DOMAIN held /\ ended \subseteq DOMAIN held
      /\ expired \subseteq DOMAIN held /\ exchanged \subseteq ended
  BY DEF IInv, TypeOK
<1>9. new \notin DOMAIN refreshTokens /\ new \notin ended /\ new \notin expired
  BY <1>2, <1>8
<1>10. Grows
  BY <1>2, <1>5, <1>6, <1>7 DEF Grows
<1>11. OthersStay(r)
  BY <1>5, NobodyLeaves
<1>12. FramesHold' /\ slot' \in [Requests -> Frame]
  BY <1>1, <1>10, <1>11, IdleHolds, FramesStep
<1>13. TypeOK'
  <2>1. \A k \in DOMAIN refreshTokens' : refreshTokens'[k] \in Users
    BY <1>3, <1>6 DEF IInv, TypeOK
  <2>2. \A k \in DOMAIN held' : held'[k] \in Users
    BY <1>3, <1>7 DEF IInv, TypeOK
  <2>3. refreshTokens' \in [DOMAIN refreshTokens' -> Users]
    BY <1>6, <2>1
  <2>4. held' \in [DOMAIN held' -> Users]
    BY <1>7, <2>2
  <2>5. exchanged' \subseteq ended'
    BY <1>4, <1>5, <1>8
  <2> QED
    BY <1>2, <1>5, <1>6, <1>7, <1>12, <2>3, <2>4, <2>5 DEF IInv, TypeOK
<1>14. OwnRows'
  BY <1>6, <1>7, <1>8, <1>9 DEF IInv, OwnRows
<1>15. OldTokenInvalid'
  BY <1>4, <1>5, <1>6, <1>8, <1>9 DEF IInv, OldTokenInvalid
<1>16. LoggedOutStaysOut'
  BY <1>3, <1>5, <1>6 DEF IInv, LoggedOutStaysOut
<1>17. HeldTokenWorks'
  BY <1>5, <1>6, <1>7, <1>9 DEF IInv, HeldTokenWorks, Acceptable
<1> QED
  BY <1>12, <1>13, <1>14, <1>15, <1>16, <1>17 DEF IInv
-----------------------------------------------------------------------------
LEMMA StepLogout ==
  ASSUME IInv, NEW r \in Requests, Logout(r)
  PROVE  IInv'
<1> PICK k \in DOMAIN held :
      Goto(r, [pc |-> "checkAuth", user |-> held[k], token |-> NoToken])
  BY DEF Logout
<1> DEFINE f == [pc |-> "checkAuth", user |-> held[k], token |-> NoToken]
<1>1. f \in Frame
  BY DEF Frame, IInv, TypeOK
<1>2. FrameHolds(f, refreshTokens, held, ended, away')
  BY DEF FrameHolds
<1>3. Moves(r) /\ slot'[r] = f
  BY GotoMoves DEF Goto
<1>4. malambi' \subseteq Users /\ away' \subseteq away
  BY DEF Logout, IInv, TypeOK
<1>5. UNCHANGED <<refreshTokens, expired, held, exchanged, ended>>
  BY DEF Logout
<1> QED
  BY <1>1, <1>2, <1>3, <1>4, <1>5, LocalStep

LEMMA StepCheckAuth ==
  ASSUME IInv, NEW r \in Requests, CheckAuth(r)
  PROVE  IInv'
<1> DEFINE f == [slot[r] EXCEPT !.pc = "remote"]
<1>1. malambi' \subseteq Users /\ away' \subseteq away
  BY DEF CheckAuth, IInv, TypeOK
<1>2. UNCHANGED <<refreshTokens, expired, held, exchanged, ended>>
  BY DEF CheckAuth
<1>3. CASE Goto(r, Idle)
  <2>1. Moves(r) /\ slot'[r] = Idle
    BY <1>3, GotoMoves DEF Goto
  <2> QED
    BY <1>1, <1>2, <2>1, IdleHolds, LocalStep
<1>4. CASE Goto(r, f)
  <2>1. Moves(r) /\ slot'[r] = f
    BY <1>4, GotoMoves DEF Goto
  <2>2. f \in Frame
    BY SlotRead DEF CheckAuth, At, Frame
  <2>3. f.pc = "remote"
    BY SlotRead DEF CheckAuth, At
  <2>4. FrameHolds(f, refreshTokens, held, ended, away')
    BY <2>3 DEF FrameHolds
  <2> QED
    BY <1>1, <1>2, <2>1, <2>2, <2>4, LocalStep
<1> QED
  BY <1>3, <1>4 DEF CheckAuth

LEMMA StepRemoteLogout ==
  ASSUME IInv, NEW r \in Requests, RemoteLogout(r)
  PROVE  IInv'
<1> DEFINE f == [slot[r] EXCEPT !.pc = "clear"]
<1>1. malambi' \subseteq Users /\ away' \subseteq away
  BY DEF RemoteLogout, IInv, TypeOK
<1>2. UNCHANGED <<refreshTokens, expired, held, exchanged, ended>>
  BY DEF RemoteLogout
<1>3. Moves(r) /\ slot'[r] = f
  BY GotoMoves DEF RemoteLogout, Goto
<1>4. f \in Frame
  BY SlotRead DEF RemoteLogout, At, Frame
<1>5. f.pc = "clear"
  BY SlotRead DEF RemoteLogout, At
<1>6. FrameHolds(f, refreshTokens, held, ended, away')
  BY <1>5 DEF FrameHolds
<1> QED
  BY <1>1, <1>2, <1>3, <1>4, <1>6, LocalStep

(* All rows of the user go; the user is away when no exchange is under way.*)
LEMMA StepClearTokens ==
  ASSUME IInv, NEW r \in Requests, ClearTokens(r)
  PROVE  IInv'
<1> DEFINE u == slot[r].user
           mine == {k \in DOMAIN refreshTokens : refreshTokens[k] = u}
<1>1. Moves(r) /\ slot'[r] = Idle
  BY GotoMoves DEF ClearTokens, Goto
<1>2. u \in Users
  BY SlotRead DEF ClearTokens, At
<1>3. /\ ended' = ended \cup mine
      /\ DOMAIN refreshTokens' = DOMAIN refreshTokens \ mine
      /\ \A k \in DOMAIN refreshTokens' : refreshTokens'[k] = refreshTokens[k]
      /\ refreshTokens' = [k \in DOMAIN refreshTokens' |-> refreshTokens[k]]
      /\ away' = IF Storing(u) = {} THEN away \cup {u} ELSE away
      /\ UNCHANGED <<expired, malambi, held, exchanged>>
  BY DEF ClearTokens, Without
<1>4. OthersStay(r)
  <2>1. CASE Storing(u) # {}
    BY <1>3, <2>1, NobodyLeaves
  <2>2. CASE Storing(u) = {}
    <3>1. \A q \in Requests :
            slot[q].pc \in {"delete", "purge", "store"} => slot[q].user # u
      BY <2>2 DEF Storing, Idle
    <3>2. \A q \in Requests :
            slot[q].pc \in {"delete", "purge", "store"} =>
              slot[q].user \notin away
      BY SlotRead DEF FrameHolds
    <3> QED
      BY <1>3, <2>2, <3>1, <3>2 DEF OthersStay
  <2> QED
    BY <2>1, <2>2
<1>5. Grows
  BY <1>3 DEF Grows
<1>6. FramesHold' /\ slot' \in [Requests -> Frame]
  BY <1>1, <1>4, <1>5, IdleHolds, FramesStep
<1>7. TypeOK'
  BY <1>2, <1>3, <1>6 DEF IInv, TypeOK
<1>8. OwnRows' /\ OldTokenInvalid'
  BY <1>3 DEF IInv, OwnRows, OldTokenInvalid
<1>9. LoggedOutStaysOut'
  BY <1>3 DEF IInv, LoggedOutStaysOut
<1>10. HeldTokenWorks'
  BY <1>3 DEF IInv, HeldTokenWorks, Acceptable
<1> QED
  BY <1>6, <1>7, <1>8, <1>9, <1>10 DEF IInv

LEMMA StepExpire ==
  ASSUME IInv, Expire
  PROVE  IInv'
<1> PICK k \in DOMAIN held \ expired : expired' = expired \cup {k}
  BY DEF Expire
<1>1. UNCHANGED <<refreshTokens, malambi, held, exchanged, ended, away, slot>>
  BY DEF Expire
<1>2. TypeOK'
  BY <1>1 DEF IInv, TypeOK
<1>3. OwnRows' /\ FramesHold' /\ OldTokenInvalid' /\ LoggedOutStaysOut'
  BY <1>1 DEF IInv, OwnRows, FramesHold, OldTokenInvalid, LoggedOutStaysOut
<1>4. HeldTokenWorks'
  BY <1>1 DEF IInv, HeldTokenWorks, Acceptable
<1> QED
  BY <1>2, <1>3, <1>4 DEF IInv

LEMMA StepFail ==
  ASSUME IInv, NEW r \in Requests, Fail(r)
  PROVE  IInv'
<1>1. malambi' \subseteq Users /\ away' \subseteq away
  BY DEF Fail, IInv, TypeOK
<1>2. UNCHANGED <<refreshTokens, expired, held, exchanged, ended>>
  BY DEF Fail
<1>3. Moves(r) /\ slot'[r] = Idle
  BY GotoMoves DEF Fail, Goto
<1> QED
  BY <1>1, <1>2, <1>3, IdleHolds, LocalStep

LEMMA StepCrash ==
  ASSUME IInv, Crash
  PROVE  IInv'
<1>1. /\ slot' = [r \in Requests |-> Idle]
      /\ UNCHANGED <<refreshTokens, expired, malambi, held, exchanged, ended,
                     away>>
  BY DEF Crash
<1>2. TypeOK'
  BY <1>1, IdleHolds DEF IInv, TypeOK
<1>3. FramesHold'
  BY <1>1, IdleHolds DEF FramesHold
<1>4. OwnRows' /\ OldTokenInvalid' /\ LoggedOutStaysOut' /\ HeldTokenWorks'
  BY <1>1 DEF IInv, OwnRows, OldTokenInvalid, LoggedOutStaysOut,
              HeldTokenWorks, Acceptable
<1> QED
  BY <1>2, <1>3, <1>4 DEF IInv
-----------------------------------------------------------------------------
LEMMA InitHolds == Init => IInv
<1> SUFFICES ASSUME Init PROVE IInv
  OBVIOUS
<1>1. DOMAIN refreshTokens = {} /\ DOMAIN held = {}
  BY DEF Init
<1>2. refreshTokens \in [{} -> Users] /\ held \in [{} -> Users]
  BY DEF Init
<1>3. TypeOK
  BY <1>1, <1>2, IdleHolds DEF Init, TypeOK
<1>4. FramesHold
  BY IdleHolds DEF Init, FramesHold
<1>5. OwnRows /\ OldTokenInvalid /\ LoggedOutStaysOut /\ HeldTokenWorks
  BY <1>1 DEF Init, OwnRows, OldTokenInvalid, LoggedOutStaysOut, HeldTokenWorks
<1> QED
  BY <1>3, <1>4, <1>5 DEF IInv

LEMMA StepHolds == IInv /\ [Next]_vars => IInv'
<1> SUFFICES ASSUME IInv, [Next]_vars PROVE IInv'
  OBVIOUS
<1>1. ASSUME NEW r \in Requests, Login(r) PROVE IInv'
  BY <1>1, StepLogin
<1>2. ASSUME NEW r \in Requests, StoreToken(r) PROVE IInv'
  BY <1>2, StepStoreToken
<1>3. ASSUME NEW r \in Requests, Refresh(r) PROVE IInv'
  BY <1>3, StepRefresh
<1>4. ASSUME NEW r \in Requests, SelectToken(r) PROVE IInv'
  BY <1>4, StepSelectToken
<1>5. ASSUME NEW r \in Requests, DeleteToken(r) PROVE IInv'
  BY <1>5, StepDeleteToken
<1>6. ASSUME NEW r \in Requests, PurgeExpired(r) PROVE IInv'
  BY <1>6, StepPurgeExpired
<1>7. ASSUME NEW r \in Requests, Logout(r) PROVE IInv'
  BY <1>7, StepLogout
<1>8. ASSUME NEW r \in Requests, CheckAuth(r) PROVE IInv'
  BY <1>8, StepCheckAuth
<1>9. ASSUME NEW r \in Requests, RemoteLogout(r) PROVE IInv'
  BY <1>9, StepRemoteLogout
<1>10. ASSUME NEW r \in Requests, ClearTokens(r) PROVE IInv'
  BY <1>10, StepClearTokens
<1>11. ASSUME NEW r \in Requests, Fail(r) PROVE IInv'
  BY <1>11, StepFail
<1>12. CASE Expire
  BY <1>12, StepExpire
<1>13. CASE Crash
  BY <1>13, StepCrash
<1>14. CASE UNCHANGED vars
  BY <1>14 DEF vars, IInv, TypeOK, OwnRows, FramesHold, OldTokenInvalid,
               LoggedOutStaysOut, HeldTokenWorks, Acceptable
<1> QED
  BY <1>1, <1>2, <1>3, <1>4, <1>5, <1>6, <1>7, <1>8, <1>9, <1>10, <1>11,
     <1>12, <1>13, <1>14 DEF Next

LEMMA Invariance == Spec => []IInv
  BY InitHolds, StepHolds, PTL DEF Spec

(* The table, the tokens given out and the request frames are well-typed;  *)
(* no row was ever stored for a token that nobody was sent.                *)
THEOREM TypeCorrect == Spec => []TypeOK
<1>1. IInv => TypeOK
  BY DEF IInv
<1> QED
  BY <1>1, Invariance, PTL

(* A token that was exchanged for another has no row any more, whatever    *)
(* the other requests of the user do, fail or die at.                      *)
THEOREM ExchangedStaysDead == Spec => []OldTokenInvalid
<1>1. IInv => OldTokenInvalid
  BY DEF IInv
<1> QED
  BY <1>1, Invariance, PTL

(* A user who logged out, with no login or exchange past its SELECT under  *)
(* way, has no row until the next login.                                   *)
THEOREM LoggedOut == Spec => []LoggedOutStaysOut
<1>1. IInv => LoggedOutStaysOut
  BY DEF IInv
<1> QED
  BY <1>1, Invariance, PTL

(* A token given out works until it is exchanged, its user logs out or it  *)
(* expires: the housekeeping of other sessions leaves it alone.            *)
THEOREM HeldWorks == Spec => []HeldTokenWorks
<1>1. IInv => HeldTokenWorks
  BY DEF IInv
<1> QED
  BY <1>1, Invariance, PTL
=============================================================================
