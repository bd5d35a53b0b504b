------------------------------ MODULE Accounts ------------------------------
(***************************************************************************)
(* Accounts, sessions and the requests that need one (auth/service.go,     *)
(* storage/users.go, storage/sessions.go, server/auth.go, appearance.go,   *)
(* websocket.go).  A handler is the goroutine of one request; each of its  *)
(* SQL statements and hub calls is a step.  Of the hub there are the       *)
(* current connection of each user and the appearance its player has in    *)
(* the world.  Browsers may use any cookie they ever got, in several tabs. *)
(* The password is right.  "late", "unloaded", "crossed" are ghosts.       *)
(***************************************************************************)
EXTENDS Naturals

CONSTANTS User,    \* names, and the IDs of their accounts
          Token,   \* session tokens; bound: sessions ever created
          Handler, \* bound: requests handled at once
          Look,    \* appearances
          DefaultLook, None

ASSUME AccountsAssumption == /\ DefaultLook \in Look
                             /\ None \notin User \cup Token \cup Handler \cup Look
                             /\ None \notin [user : User, expired : BOOLEAN]

VARIABLES
    users,    \* the users table: the appearance of each account, None without one
    sessions, \* the sessions table: [user, expired], None when there is no row
    cookies,  \* tokens that have been handed out
    request,  \* what each handler is doing
    clients,  \* Hub: the websocket handler that is a user's current connection
    world,    \* Hub: the appearance of a user's player, None when it is not online
    unloaded, \* users in the world whose load failed, and not changed since
    late,     \* websockets that registered when their logout was past disconnecting
              \* the user, or whose logout did not authenticate and so skipped that
    crossed   \* users with two appearance changes under way at once
dbVars  == <<users, sessions, cookies>>
hubVars == <<clients, world, unloaded>>
vars == <<dbVars, request, hubVars, late, crossed>>

PC == {"idle", "create", "reply", "disconnect", "delete", "accepted", "open",
       "save", "update"}
Request == [pc : PC, user : User \cup {None}, token : Token \cup {None},
            look : Look \cup {None}]
Idle == [pc |-> "idle", user |-> None, token |-> None, look |-> None]

At(h, pc) == request[h].pc = pc
Goto(h, pc) == request' = [request EXCEPT ![h].pc = pc]
Begin(h, pc, u, t, look) ==
    /\ At(h, "idle")
    /\ request' = [request EXCEPT ![h] = [pc |-> pc, user |-> u, token |-> t, look |-> look]]
End(h) == request' = [request EXCEPT ![h] = Idle]

---------------------------------------------------------------------------
(* Registration, login *)

\* CreateUser; a name that is taken ends the request.
Register(h, u) ==
    /\ users[u] = None
    /\ users' = [users EXCEPT ![u] = DefaultLook]
    /\ Begin(h, "create", u, None, None)
    /\ UNCHANGED <<sessions, cookies, hubVars, late, crossed>>

Login(h, u) ==
    /\ users[u] # None
    /\ Begin(h, "create", u, None, None)
    /\ UNCHANGED <<dbVars, hubVars, late, crossed>>

\* createSession, with a token never used before.
CreateSession(h, t) ==
    /\ At(h, "create")
    /\ sessions[t] = None /\ t \notin cookies
    /\ \A g \in Handler : request[g].token # t
    /\ sessions' = [sessions EXCEPT ![t] = [user |-> request[h].user, expired |-> FALSE]]
    /\ request' = [request EXCEPT ![h].pc = "reply", ![h].token = t]
    /\ UNCHANGED <<users, cookies, hubVars, late, crossed>>

\* The response sets the cookie.
Reply(h) ==
    /\ At(h, "reply")
    /\ cookies' = cookies \cup {request[h].token}
    /\ End(h)
    /\ UNCHANGED <<users, sessions, hubVars, late, crossed>>

\* A statement fails: an account without a session, or a session nobody knows.
Fails(h) ==
    /\ At(h, "create") \/ At(h, "reply") \/ At(h, "save") \/ At(h, "delete")
    /\ End(h)
    /\ UNCHANGED <<dbVars, hubVars, late, crossed>>

---------------------------------------------------------------------------
(* Requests with a session *)

AuthenticateSession(t) == sessions[t] # None /\ ~sessions[t].expired

Expire(t) ==
    /\ AuthenticateSession(t)
    /\ sessions' = [sessions EXCEPT ![t] = [user |-> sessions[t].user, expired |-> TRUE]]
    /\ UNCHANGED <<users, cookies, request, hubVars, late, crossed>>

\* What a lookup of t may return: nobody also when the query fails.
Authenticated(t) ==
    {None} \cup IF AuthenticateSession(t) THEN {sessions[t].user} ELSE {}

\* Mutant: the session is deleted first.
DeleteFirst(u) == "delete"
\* handleLogout: whoever is authenticated is disconnected first.
AfterAuthentication(u) == IF u = None THEN "delete" ELSE "disconnect"

StartLogout(h, t) ==
    /\ t \in cookies
    /\ \E u \in Authenticated(t) : Begin(h, AfterAuthentication(u), u, t, None)
    /\ UNCHANGED <<dbVars, hubVars, late, crossed>>

RemoveClient(u) ==
    /\ clients' = [clients EXCEPT ![u] = None]
    /\ world' = [world EXCEPT ![u] = None]
    /\ unloaded' = unloaded \ {u}

DisconnectUser(h) ==
    /\ At(h, "disconnect")
    /\ RemoveClient(request[h].user)
    /\ Goto(h, "delete")
    /\ UNCHANGED <<dbVars, late, crossed>>

\* The websockets that a session authenticated.
SocketsOf(t) ==
    {h \in Handler : request[h].token = t /\ (At(h, "accepted") \/ At(h, "open"))}

\* DeleteSession; a session that is gone already is as good.
DeleteSession(h) ==
    /\ At(h, "delete")
    /\ sessions' = [sessions EXCEPT ![request[h].token] = None]
    /\ late' = IF request[h].user = None
               THEN late \cup SocketsOf(request[h].token) ELSE late
    /\ End(h)
    /\ UNCHANGED <<users, cookies, hubVars, crossed>>

\* handleWebSocket has authenticated the request and accepts the connection.
Accept(h, t) ==
    /\ t \in cookies /\ AuthenticateSession(t)
    /\ Begin(h, "accepted", sessions[t].user, t, None)
    /\ UNCHANGED <<dbVars, hubVars, late, crossed>>

\* The logout of session t has disconnected its user, or is over.
PastDisconnect(t) ==
    \/ sessions[t] = None
    \/ \E g \in Handler : At(g, "delete") /\ request[g].token = t

\* addPlayer: the player is loaded, or has the default appearance.
AddPlayer(u) ==
    \/ /\ world' = [world EXCEPT ![u] = users[u]]
       /\ UNCHANGED unloaded
    \/ /\ world' = [world EXCEPT ![u] = DefaultLook]
       /\ unloaded' = unloaded \cup {u}

\* registerClient: a player that is in the world already stays as it is.
RegisterClient(h) ==
    /\ At(h, "accepted")
    /\ LET u == request[h].user
       IN  /\ clients' = [clients EXCEPT ![u] = h]
           /\ IF world[u] = None THEN AddPlayer(u) ELSE UNCHANGED <<world, unloaded>>
    /\ late' = IF PastDisconnect(request[h].token) THEN late \cup {h} ELSE late
    /\ Goto(h, "open")
    /\ UNCHANGED <<dbVars, crossed>>

\* The connection ends, also because it was replaced, or is never registered.
CloseSocket(h) ==
    /\ At(h, "accepted") \/ At(h, "open")
    /\ IF clients[request[h].user] = h THEN RemoveClient(request[h].user)
       ELSE UNCHANGED hubVars
    /\ late' = late \ {h}
    /\ End(h)
    /\ UNCHANGED <<dbVars, crossed>>

---------------------------------------------------------------------------
(* handleAppearance *)

Changing(u) == {h \in Handler : request[h].user = u /\ (At(h, "save") \/ At(h, "update"))}

PutAppearance(h, t, look) ==
    /\ t \in cookies /\ AuthenticateSession(t)
    /\ Begin(h, "save", sessions[t].user, t, look)
    /\ crossed' = IF Changing(sessions[t].user) = {} THEN crossed
                  ELSE crossed \cup {sessions[t].user}
    /\ UNCHANGED <<dbVars, hubVars, late>>

SaveUserAppearance(h) ==
    /\ At(h, "save")
    /\ users' = [users EXCEPT ![request[h].user] = request[h].look]
    /\ Goto(h, "update")
    /\ UNCHANGED <<sessions, cookies, hubVars, late, crossed>>

\* Mutant: an offline user gets a player.
LookGiven(old, look) == look
\* Mutant: a player keeps the appearance it was loaded with.
LookWhenLoaded(old, look) == old
\* applyAppearanceUpdate.
LookUpdated(old, look) == IF old = None THEN None ELSE look

\* The hub has answered UpdateAppearance.
UpdateAppearance(h) ==
    /\ At(h, "update")
    /\ world' = [world EXCEPT ![request[h].user] = LookUpdated(@, request[h].look)]
    /\ unloaded' = unloaded \ {request[h].user}
    /\ End(h)
    /\ UNCHANGED <<dbVars, clients, late, crossed>>

---------------------------------------------------------------------------

Init ==
    /\ users = [u \in User |-> None]
    /\ sessions = [t \in Token |-> None]
    /\ cookies = {}
    /\ request = [h \in Handler |-> Idle]
    /\ clients = [u \in User |-> None]
    /\ world = [u \in User |-> None]
    /\ unloaded = {} /\ late = {} /\ crossed = {}

HandlerStep(h) ==
    \/ \E t \in Token : CreateSession(h, t)
    \/ Reply(h) \/ Fails(h) \/ DisconnectUser(h) \/ DeleteSession(h)
    \/ RegisterClient(h) \/ SaveUserAppearance(h) \/ UpdateAppearance(h)

Next ==
    \/ \E h \in Handler :
          \/ \E u \in User : Register(h, u) \/ Login(h, u)
          \/ \E t \in Token :
                \/ StartLogout(h, t) \/ Accept(h, t)
                \/ \E look \in Look : PutAppearance(h, t, look)
          \/ HandlerStep(h) \/ CloseSocket(h)
    \/ \E t \in Token : Expire(t)

Spec == Init /\ [][Next]_vars

---------------------------------------------------------------------------
(* Properties *)

\* Types of the state; the player is in the world exactly while its user has a
\* current connection, a websocket request of that user.
TypeOK ==
    /\ users \in [User -> Look \cup {None}]
    /\ sessions \in [Token -> [user : User, expired : BOOLEAN] \cup {None}]
    /\ cookies \subseteq Token
    /\ request \in [Handler -> Request]
    /\ clients \in [User -> Handler \cup {None}]
    /\ world \in [User -> Look \cup {None}]
    /\ unloaded \subseteq {u \in User : world[u] # None} /\ late \subseteq Handler /\ crossed \subseteq User
    /\ \A u \in User : world[u] # None <=> clients[u] # None
    /\ \A u \in User : clients[u] # None =>
          At(clients[u], "open") /\ request[clients[u]].user = u

\* Logout ends the session's connection: whoever is online has a session that
\* was not logged out, unless its websocket was authenticated before the logout
\* and registered after the logout had disconnected the user, or the logout
\* itself did not authenticate (handleLogout disconnects, then revokes).
LogoutDisconnects ==
    \A u \in User : clients[u] # None /\ clients[u] \notin late =>
        sessions[request[clients[u]].token] # None

\* Once its changes are answered, the world shows the appearance that is saved:
\* a save and the hub's update may have a login, a disconnect, a replacement or
\* a reconnect between them.  A player whose load failed (addPlayer) is shown with
\* the default appearance, but only until its next change or its next load.  Two
\* overlapping changes of one user may still reach the table and the hub in
\* different orders.
AppearanceSaved ==
    \A u \in User \ crossed : world[u] # None /\ Changing(u) = {} =>
        world[u] = IF u \in unloaded THEN DefaultLook ELSE users[u]
==============================================================================
