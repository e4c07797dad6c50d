------------------------------ MODULE Sessions ------------------------------
(***************************************************************************)
(* AuthService: login, rotation of refresh tokens and logout, on the table *)
(* refresh_tokens.                                                         *)
(*                                                                         *)
(* A refresh token is a signed JWT: whoever was given one can present it   *)
(* again, so that the row of the table alone says whether it still counts. *)
(* Each handler is a sequence of SQL statements and calls to Malambi, one  *)
(* per step, without a transaction.  What login does for the users table   *)
(* and the background jobs is in Onboarding.                               *)
(***************************************************************************)
EXTENDS Naturals, FiniteSets

CONSTANTS
  Users,      \* pairs of account and sub-account that log in
  Tokens,     \* bound: the uuids that can be drawn; none is drawn twice
  Requests,   \* slots for concurrent HTTP requests
  NoToken     \* a token that is not there

ASSUME SessionsAssumption == NoToken \notin Tokens

VARIABLES
  refreshTokens,  \* refresh_tokens: a function from the tokens in the table
                  \* to their users
  expired,        \* the tokens whose expiry date has passed
  malambi,        \* the users with a session that Malambi recognises
  held,           \* the tokens given out, with the user they were given to
  exchanged,      \* the tokens that were exchanged for another one
  ended,          \* the tokens that a logout took out of the table, or
                  \* whose own exchange did
  away,           \* the users who logged out with nothing else under way and
                  \* have not logged in again
  slot            \* what each request is doing

vars == <<refreshTokens, expired, malambi, held, exchanged, ended, away, slot>>

(* A free slot, and the locals of a handler that live across an await: the *)
(* next statement, the user, and the token presented to refreshToken.      *)
Idle == [pc |-> "idle"]

Frame ==
  {Idle} \cup
  [pc : {"checkAuth", "select", "delete", "purge", "store", "remote", "clear"},
   user : Users, token : Tokens \cup {NoToken}]

TypeOK ==
  /\ DOMAIN refreshTokens \subseteq DOMAIN held
  /\ refreshTokens \in [DOMAIN refreshTokens -> Users]
  /\ DOMAIN held \subseteq Tokens
  /\ held \in [DOMAIN held -> Users]
  /\ expired \subseteq DOMAIN held
  /\ exchanged \subseteq ended
  /\ ended \subseteq DOMAIN held
  /\ malambi \subseteq Users
  /\ away \subseteq Users
  /\ slot \in [Requests -> Frame]

Init ==
  /\ refreshTokens = [k \in {} |-> {}]
  /\ held = [k \in {} |-> {}]
  /\ expired = {}
  /\ exchanged = {}
  /\ ended = {}
  /\ malambi = {}
  /\ away = {}
  /\ slot = [r \in Requests |-> Idle]
-----------------------------------------------------------------------------
Goto(r, frame) == slot' = [slot EXCEPT ![r] = frame]
At(r, pc) == slot[r].pc = pc
Without(table, keys) == [k \in DOMAIN table \ keys |-> table[k]]
With(table, k, v) ==
  [j \in DOMAIN table \cup {k} |-> IF j = k THEN v ELSE table[j]]

(* The other requests that may still store a token for user u.             *)
Storing(u) ==
  {r \in Requests :
     slot[r] # Idle /\ slot[r].user = u
       /\ slot[r].pc \in {"delete", "purge", "store"}}

(* Bound: no more tokens are asked for than there are uuids left.          *)
RoomForToken ==
  Cardinality({r \in Requests :
                 slot[r].pc \in {"select", "delete", "purge", "store"}})
    < Cardinality(Tokens \ DOMAIN held)

(* login: Malambi has accepted the credentials (LocalAuthGuard).           *)
Login(r) ==
  /\ slot[r] = Idle
  /\ RoomForToken
  /\ \E u \in Users :
       /\ Goto(r, [pc |-> "store", user |-> u, token |-> NoToken])
       /\ malambi' = malambi \cup {u}
       /\ away' = away \ {u}
  /\ UNCHANGED <<refreshTokens, expired, held, exchanged, ended>>

(* refreshToken: the signature of the JWT is verified.  Any token ever     *)
(* given out passes.                                                       *)
Refresh(r) ==
  /\ slot[r] = Idle
  /\ RoomForToken
  /\ \E k \in DOMAIN held :
       Goto(r, [pc |-> "select", user |-> held[k], token |-> k])
  /\ UNCHANGED <<refreshTokens, expired, malambi, held, exchanged, ended, away>>

(* Mutation of Acceptable: the JWT is trusted as it is.                    *)
Signed(k) == k \in DOMAIN held

(* The WHERE clause of the SELECT in refreshToken.                         *)
Acceptable(k) == k \in DOMAIN refreshTokens /\ k \notin expired

(* refreshToken: the SELECT; 401 when the row is not there or has expired. *)
SelectToken(r) ==
  /\ At(r, "select")
  /\ IF Acceptable(slot[r].token)
     THEN Goto(r, [slot[r] EXCEPT !.pc = "delete"])
     ELSE Goto(r, Idle)
  /\ UNCHANGED <<refreshTokens, expired, malambi, held, exchanged, ended, away>>

(* Mutation of DeleteToken: the old token stays in the table.              *)
KeepToken(r) ==
  /\ At(r, "delete")
  /\ ended' = ended \cup {slot[r].token}
  /\ Goto(r, [slot[r] EXCEPT !.pc = "purge"])
  /\ UNCHANGED <<refreshTokens, expired, malambi, held, exchanged, away>>

(* refreshToken: the DELETE of the token presented.                        *)
DeleteToken(r) ==
  /\ At(r, "delete")
  /\ refreshTokens' = Without(refreshTokens, {slot[r].token})
  /\ ended' = ended \cup {slot[r].token}
  /\ Goto(r, [slot[r] EXCEPT !.pc = "purge"])
  /\ UNCHANGED <<expired, malambi, held, exchanged, away>>

(* Mutation of Purged: the expiry date is left out of the WHERE clause.    *)
EveryTokenOf(u) == {k \in DOMAIN refreshTokens : refreshTokens[k] = u}

(* The rows of the housekeeping DELETE of refreshToken.                    *)
Purged(u) == {k \in DOMAIN refreshTokens : refreshTokens[k] = u} \cap expired

(* refreshToken: the DELETE of the expired tokens of the user.             *)
PurgeExpired(r) ==
  /\ At(r, "purge")
  /\ refreshTokens' = Without(refreshTokens, Purged(slot[r].user))
  /\ Goto(r, [slot[r] EXCEPT !.pc = "store"])
  /\ UNCHANGED <<expired, malambi, held, exchanged, ended, away>>

(* The uuid of a new token.                                                *)
FreshToken == CHOOSE k \in Tokens : k \notin DOMAIN held

(* Mutation of StoreToken: the token is stored but never sent.             *)
StoreUnheld(r) ==
  /\ At(r, "store")
  /\ DOMAIN held # Tokens
  /\ refreshTokens' = With(refreshTokens, FreshToken, slot[r].user)
  /\ exchanged' = exchanged \cup ({slot[r].token} \ {NoToken})
  /\ Goto(r, Idle)
  /\ UNCHANGED <<expired, malambi, held, ended, away>>

(* storeRefreshToken: the INSERT, after which the pair of tokens is sent.  *)
StoreToken(r) ==
  /\ At(r, "store")
  /\ DOMAIN held # Tokens
  /\ refreshTokens' = With(refreshTokens, FreshToken, slot[r].user)
  /\ held' = With(held, FreshToken, slot[r].user)
  /\ exchanged' = exchanged \cup ({slot[r].token} \ {NoToken})
  /\ Goto(r, Idle)
  /\ UNCHANGED <<expired, malambi, ended, away>>
-----------------------------------------------------------------------------
(* A request to a route that is not public: the access token is a JWT that *)
(* some login or refresh gave out.                                         *)
Logout(r) ==
  /\ slot[r] = Idle
  /\ \E k \in DOMAIN held :
       Goto(r, [pc |-> "checkAuth", user |-> held[k], token |-> NoToken])
  /\ UNCHANGED <<refreshTokens, expired, malambi, held, exchanged, ended, away>>

(* MalambiAuthMiddleware: Malambi is asked about the credentials in the    *)
(* token; a refusal or an error is a 401.                                  *)
CheckAuth(r) ==
  /\ At(r, "checkAuth")
  /\ \/ slot[r].user \in malambi /\ Goto(r, [slot[r] EXCEPT !.pc = "remote"])
     \/ Goto(r, Idle)
  /\ UNCHANGED <<refreshTokens, expired, malambi, held, exchanged, ended, away>>

(* logout: the call to Malambi.  Whether it says "ok", says anything else  *)
(* or throws, the tokens are deleted next.                                 *)
RemoteLogout(r) ==
  /\ At(r, "remote")
  /\ malambi' \in {malambi, malambi \ {slot[r].user}}
  /\ Goto(r, [slot[r] EXCEPT !.pc = "clear"])
  /\ UNCHANGED <<refreshTokens, expired, held, exchanged, ended, away>>

(* logout: the DELETE of every token of the user.                          *)
ClearTokens(r) ==
  /\ At(r, "clear")
  /\ LET mine == {k \in DOMAIN refreshTokens : refreshTokens[k] = slot[r].user}
     IN  /\ refreshTokens' = Without(refreshTokens, mine)
         /\ ended' = ended \cup mine
  /\ away' = IF Storing(slot[r].user) = {} THEN away \cup {slot[r].user}
             ELSE away
  /\ Goto(r, Idle)
  /\ UNCHANGED <<expired, malambi, held, exchanged>>
-----------------------------------------------------------------------------
(* Time passes: the expiry date of a token is reached.                     *)
Expire ==
  /\ \E k \in DOMAIN held \ expired : expired' = expired \cup {k}
  /\ UNCHANGED <<refreshTokens, malambi, held, exchanged, ended, away, slot>>

(* A statement fails: the handler answers with an error.  (logout swallows *)
(* the error and answers all the same.)                                    *)
Fail(r) ==
  /\ slot[r].pc \in {"select", "delete", "purge", "store", "clear"}
  /\ Goto(r, Idle)
  /\ UNCHANGED <<refreshTokens, expired, malambi, held, exchanged, ended, away>>

(* The process dies; the table outlives it.                                *)
Crash ==
  /\ \E r \in Requests : slot[r] # Idle
  /\ slot' = [r \in Requests |-> Idle]
  /\ UNCHANGED <<refreshTokens, expired, malambi, held, exchanged, ended, away>>

Next ==
  \/ \E r \in Requests :
       \/ Login(r) \/ StoreToken(r)
       \/ Refresh(r) \/ SelectToken(r) \/ DeleteToken(r) \/ PurgeExpired(r)
       \/ Logout(r) \/ CheckAuth(r) \/ RemoteLogout(r) \/ ClearTokens(r)
       \/ Fail(r)
  \/ Expire
  \/ Crash

Spec == Init /\ [][Next]_vars
-----------------------------------------------------------------------------
(* auth.controller.ts, refresh-token: "The old refresh token is            *)
(* invalidated".  Once a client has the new token, the old one has no row, *)
(* whatever other requests do, fail or die at.                             *)
OldTokenInvalid == exchanged \cap DOMAIN refreshTokens = {}

(* auth.controller.ts, logout: the refresh token "cannot be used to obtain *)
(* new access tokens".  After a logout that overlapped no login or         *)
(* exchange of the user, no token of the user counts until the next login. *)
(* (An exchange already past its SELECT does bring the session back.)      *)
LoggedOutStaysOut ==
  \A u \in away : \A k \in DOMAIN refreshTokens : refreshTokens[k] # u

(* A session ends by its own exchange, a logout of its user or its expiry: *)
(* what other devices of the same user do leaves it alone.                 *)
HeldTokenWorks ==
  \A k \in DOMAIN held : Acceptable(k) \/ k \in ended \/ k \in expired
=============================================================================
