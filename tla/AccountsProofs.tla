--------------------------- MODULE AccountsProofs ---------------------------
(***************************************************************************)
(* Proofs about Accounts, for any number of users, tokens and handlers:    *)
(* the types, that a logout leaves no connection of its session (but for   *)
(* the late ones), and that the world shows the appearance that is saved.  *)
(* Three invariants are proved, one on top of the other: Shape, Sessions   *)
(* and Appearances.                                                        *)
(***************************************************************************)
EXTENDS Accounts, TLAPS

---------------------------------------------------------------------------
(* The inductive invariant *)

\* A request that needs a user, a token or an appearance has one; whoever makes
\* a request, or has a session, has an account.
RequestOK ==
    \A h \in Handler :
        LET r == request[h]
        IN  /\ r.pc \in PC \ {"idle", "delete"} => r.user \in User
            /\ r.pc \in {"reply", "disconnect", "delete", "accepted", "open"} =>
                   r.token \in Token
            /\ r.pc \in {"save", "update"} => r.look \in Look
            /\ r.user # None => users[r.user] # None
SessionsKnown == \A t \in Token : sessions[t] # None => users[sessions[t].user] # None
Shape == TypeOK /\ RequestOK /\ SessionsKnown

\* A websocket or logout is of the user of its session, while the session lasts.
SessionOwner ==
    \A h \in Handler :
        /\ request[h].pc \in {"accepted", "open", "disconnect", "delete"}
        /\ request[h].user # None
        /\ sessions[request[h].token] # None
        => sessions[request[h].token].user = request[h].user
\* When a logout that has disconnected its user goes on to delete the session, no
\* connection of that session is current, but for late ones.
Disconnected ==
    \A g \in Handler : At(g, "delete") /\ request[g].user # None =>
        \A u \in User : clients[u] # None /\ clients[u] \notin late =>
            request[clients[u]].token # request[g].token
Sessions == SessionOwner /\ Disconnected /\ LogoutDisconnects

Pending(h, u) == request[h].user = u /\ (At(h, "save") \/ At(h, "update"))
\* The users whose changes did not overlap have at most one under way; between
\* its two steps the table is ahead of the world, at any other time they agree,
\* or the player's load failed.
Appearances ==
    \A u \in User \ crossed :
        /\ \A g, h \in Handler : Pending(g, u) /\ Pending(h, u) => g = h
        /\ \A h \in Handler : At(h, "update") /\ request[h].user = u =>
               users[u] = request[h].look
        /\ (\A h \in Handler : At(h, "update") => request[h].user # u) =>
               world[u] = None \/ world[u] = IF u \in unloaded THEN DefaultLook
                                             ELSE users[u]

---------------------------------------------------------------------------
\* A session that expires keeps its row and its user.
LEMMA ExpireKeeps ==
    ASSUME TypeOK, NEW t \in Token, Expire(t)
    PROVE  /\ sessions' \in [Token -> [user : User, expired : BOOLEAN] \cup {None}]
           /\ \A s \in Token : sessions[s] # None <=> sessions'[s] # None
           /\ \A s \in Token : sessions[s] # None => sessions'[s].user = sessions[s].user
<1>1. sessions \in [Token -> [user : User, expired : BOOLEAN] \cup {None}]
    BY DEF TypeOK
<1>2. sessions[t] \in [user : User, expired : BOOLEAN]
    BY <1>1 DEF Expire, AuthenticateSession
<1>3. [user |-> sessions[t].user, expired |-> TRUE] \in [user : User, expired : BOOLEAN]
    BY <1>2
<1>4. [user |-> sessions[t].user, expired |-> TRUE] # None /\ sessions[t] # None
    BY <1>2, <1>3, AccountsAssumption
<1> QED  BY <1>1, <1>3, <1>4 DEF Expire

\* Every step keeps the shape of the state.
LEMMA ShapeStep ==
    ASSUME Shape, [Next]_vars
    PROVE  Shape'
<1> USE AccountsAssumption DEF Shape, TypeOK, RequestOK, SessionsKnown, Request, PC, At,
         dbVars, hubVars
<1>1. ASSUME NEW h \in Handler, NEW u \in User, Register(h, u)
      PROVE  Shape'
    BY <1>1 DEF Register, Begin
<1>2. ASSUME NEW h \in Handler, NEW u \in User, Login(h, u)
      PROVE  Shape'
    BY <1>2 DEF Login, Begin
<1>3. ASSUME NEW h \in Handler, NEW t \in Token, CreateSession(h, t)
      PROVE  Shape'
    BY <1>3 DEF CreateSession
<1>4. ASSUME NEW h \in Handler, Reply(h)
      PROVE  Shape'
    BY <1>4 DEF Reply, End, Idle
<1>5. ASSUME NEW h \in Handler, Fails(h)
      PROVE  Shape'
    BY <1>5 DEF Fails, End, Idle
<1>6. ASSUME NEW t \in Token, Expire(t)
      PROVE  Shape'
    BY <1>6, ExpireKeeps DEF Expire
<1>7. ASSUME NEW h \in Handler, NEW t \in Token, StartLogout(h, t)
      PROVE  Shape'
    BY <1>7 DEF StartLogout, Begin, Authenticated, AfterAuthentication, AuthenticateSession
<1>8. ASSUME NEW h \in Handler, DisconnectUser(h)
      PROVE  Shape'
    BY <1>8 DEF DisconnectUser, Goto, RemoveClient
<1>9. ASSUME NEW h \in Handler, DeleteSession(h)
      PROVE  Shape'
    BY <1>9 DEF DeleteSession, End, Idle, SocketsOf
<1>10. ASSUME NEW h \in Handler, NEW t \in Token, Accept(h, t)
      PROVE  Shape'
    BY <1>10 DEF Accept, Begin, AuthenticateSession
<1>11. ASSUME NEW h \in Handler, RegisterClient(h)
      PROVE  Shape'
    BY <1>11 DEF RegisterClient, AddPlayer, Goto, PastDisconnect
<1>12. ASSUME NEW h \in Handler, CloseSocket(h)
      PROVE  Shape'
    <2>1. /\ request' = [request EXCEPT ![h] = Idle] /\ late' = late \ {h}
          /\ UNCHANGED <<users, sessions, cookies, crossed>>
        BY <1>12 DEF CloseSocket, End
    <2>2. request[h].user \in User
        BY <1>12 DEF CloseSocket
    <2>3. CASE clients[request[h].user] = h
        <3>1. PICK v \in User :
                  /\ v = request[h].user /\ clients[v] = h
                  /\ clients' = [clients EXCEPT ![v] = None]
                  /\ world' = [world EXCEPT ![v] = None] /\ unloaded' = unloaded \ {v}
            BY <1>12, <2>2, <2>3 DEF CloseSocket, RemoveClient
        <3>2. \A u \in User : world'[u] # None => u # v /\ clients'[u] # h
            BY <3>1
        <3>3. TypeOK'
            BY <2>1, <3>1, <3>2 DEF Idle
        <3>4. RequestOK' /\ SessionsKnown'
            BY <2>1 DEF Idle
        <3> QED  BY <3>3, <3>4
    <2>4. CASE clients[request[h].user] # h
        BY <1>12, <2>1, <2>2, <2>4 DEF CloseSocket, Idle
    <2> QED  BY <2>3, <2>4
<1>13. ASSUME NEW h \in Handler, NEW t \in Token, NEW look \in Look, PutAppearance(h, t, look)
      PROVE  Shape'
    BY <1>13 DEF PutAppearance, Begin, AuthenticateSession, Changing
<1>14. ASSUME NEW h \in Handler, SaveUserAppearance(h)
      PROVE  Shape'
    BY <1>14 DEF SaveUserAppearance, Goto
<1>15. ASSUME NEW h \in Handler, UpdateAppearance(h)
      PROVE  Shape'
    BY <1>15 DEF UpdateAppearance, End, Idle, LookUpdated
<1>16. CASE UNCHANGED vars
    BY <1>16 DEF vars
<1> QED  BY <1>1, <1>2, <1>3, <1>4, <1>5, <1>6, <1>7, <1>8, <1>9, <1>10, <1>11, <1>12,
         <1>13, <1>14, <1>15, <1>16 DEF Next, HandlerStep

\* Every step keeps what logout relies on.
LEMMA SessionsStep ==
    ASSUME Shape, Sessions, [Next]_vars
    PROVE  Sessions'
<1> USE AccountsAssumption DEF Shape, TypeOK, RequestOK, Request, Sessions,
         SessionOwner, Disconnected, LogoutDisconnects, At, dbVars, hubVars
<1>1. ASSUME NEW h \in Handler, NEW u \in User, Register(h, u)
      PROVE  Sessions'
    BY <1>1 DEF Register, Begin
<1>2. ASSUME NEW h \in Handler, NEW u \in User, Login(h, u)
      PROVE  Sessions'
    BY <1>2 DEF Login, Begin
<1>3. ASSUME NEW h \in Handler, NEW t \in Token, CreateSession(h, t)
      PROVE  Sessions'
    BY <1>3 DEF CreateSession
<1>4. ASSUME NEW h \in Handler, Reply(h)
      PROVE  Sessions'
    BY <1>4 DEF Reply, End, Idle
<1>5. ASSUME NEW h \in Handler, Fails(h)
      PROVE  Sessions'
    BY <1>5 DEF Fails, End, Idle
<1>6. ASSUME NEW t \in Token, Expire(t)
      PROVE  Sessions'
    <2>1. UNCHANGED <<request, clients, late>>
        BY <1>6 DEF Expire
    <2>2. \A s \in Token :
              /\ sessions[s] # None <=> sessions'[s] # None
              /\ sessions[s] # None => sessions'[s].user = sessions[s].user
        BY <1>6, ExpireKeeps
    <2>3. SessionOwner'
        BY <2>1, <2>2
    <2>4. \A u \in User : clients[u] # None => request[clients[u]].token \in Token
        OBVIOUS
    <2>5. LogoutDisconnects'
        BY <2>1, <2>2, <2>4
    <2> QED  BY <2>1, <2>3, <2>5
<1>7. ASSUME NEW h \in Handler, NEW t \in Token, StartLogout(h, t)
      PROVE  Sessions'
    BY <1>7 DEF StartLogout, Begin, Authenticated, AfterAuthentication, AuthenticateSession
<1>8. ASSUME NEW h \in Handler, DisconnectUser(h)
      PROVE  Sessions'
    <2>1. /\ request' = [request EXCEPT ![h].pc = "delete"]
          /\ clients' = [clients EXCEPT ![request[h].user] = None]
          /\ UNCHANGED <<sessions, late>>
        BY <1>8 DEF DisconnectUser, Goto, RemoveClient
    <2>2. request[h].user \in User /\ request[h].pc = "disconnect"
        BY <1>8 DEF DisconnectUser
    <2>3. SessionOwner'
        BY <2>1, <2>2
    <2>4. LogoutDisconnects'
        BY <2>1, <2>2
    <2>5. Disconnected'
        BY <2>1, <2>2
    <2> QED  BY <2>3, <2>4, <2>5
<1>9. ASSUME NEW h \in Handler, DeleteSession(h)
      PROVE  Sessions'
    BY <1>9 DEF DeleteSession, End, Idle, SocketsOf
<1>10. ASSUME NEW h \in Handler, NEW t \in Token, Accept(h, t)
      PROVE  Sessions'
    BY <1>10 DEF Accept, Begin, AuthenticateSession
<1>11. ASSUME NEW h \in Handler, RegisterClient(h)
      PROVE  Sessions'
    BY <1>11 DEF RegisterClient, AddPlayer, Goto, PastDisconnect
<1>12. ASSUME NEW h \in Handler, CloseSocket(h)
      PROVE  Sessions'
    BY <1>12 DEF CloseSocket, End, Idle, RemoveClient
<1>13. ASSUME NEW h \in Handler, NEW t \in Token, NEW look \in Look, PutAppearance(h, t, look)
      PROVE  Sessions'
    BY <1>13 DEF PutAppearance, Begin, AuthenticateSession, Changing
<1>14. ASSUME NEW h \in Handler, SaveUserAppearance(h)
      PROVE  Sessions'
    BY <1>14 DEF SaveUserAppearance, Goto
<1>15. ASSUME NEW h \in Handler, UpdateAppearance(h)
      PROVE  Sessions'
    BY <1>15 DEF UpdateAppearance, End, Idle, LookUpdated
<1>16. CASE UNCHANGED vars
    BY <1>16 DEF vars
<1> QED  BY <1>1, <1>2, <1>3, <1>4, <1>5, <1>6, <1>7, <1>8, <1>9, <1>10, <1>11, <1>12,
         <1>13, <1>14, <1>15, <1>16 DEF Next, HandlerStep

\* Every step keeps the table and the world in agreement.
LEMMA AppearancesStep ==
    ASSUME Shape, Appearances, [Next]_vars
    PROVE  Appearances'
<1> USE AccountsAssumption DEF Shape, TypeOK, RequestOK, Request, Appearances, Pending,
         At, dbVars, hubVars
<1>1. ASSUME NEW h \in Handler, NEW u \in User, Register(h, u)
      PROVE  Appearances'
    BY <1>1 DEF Register, Begin
<1>2. ASSUME NEW h \in Handler, NEW u \in User, Login(h, u)
      PROVE  Appearances'
    BY <1>2 DEF Login, Begin
<1>3. ASSUME NEW h \in Handler, NEW t \in Token, CreateSession(h, t)
      PROVE  Appearances'
    BY <1>3 DEF CreateSession
<1>4. ASSUME NEW h \in Handler, Reply(h)
      PROVE  Appearances'
    BY <1>4 DEF Reply, End, Idle
<1>5. ASSUME NEW h \in Handler, Fails(h)
      PROVE  Appearances'
    BY <1>5 DEF Fails, End, Idle
<1>6. ASSUME NEW t \in Token, Expire(t)
      PROVE  Appearances'
    BY <1>6 DEF Expire, AuthenticateSession
<1>7. ASSUME NEW h \in Handler, NEW t \in Token, StartLogout(h, t)
      PROVE  Appearances'
    BY <1>7 DEF StartLogout, Begin, Authenticated, AfterAuthentication, AuthenticateSession
<1>8. ASSUME NEW h \in Handler, DisconnectUser(h)
      PROVE  Appearances'
    <2>1. PICK v \in User :
              /\ v = request[h].user /\ request[h].pc = "disconnect"
              /\ request' = [request EXCEPT ![h].pc = "delete"]
              /\ world' = [world EXCEPT ![v] = None] /\ unloaded' = unloaded \ {v}
              /\ UNCHANGED <<users, crossed>>
        BY <1>8 DEF DisconnectUser, Goto, RemoveClient
    <2>2. \A g \in Handler : /\ request'[g].user = request[g].user
                             /\ request'[g].look = request[g].look
                             /\ At(g, "save")' <=> At(g, "save")
                             /\ At(g, "update")' <=> At(g, "update")
        BY <2>1
    <2> QED  BY <2>1, <2>2
<1>9. ASSUME NEW h \in Handler, DeleteSession(h)
      PROVE  Appearances'
    BY <1>9 DEF DeleteSession, End, Idle, SocketsOf
<1>10. ASSUME NEW h \in Handler, NEW t \in Token, Accept(h, t)
      PROVE  Appearances'
    BY <1>10 DEF Accept, Begin, AuthenticateSession
<1>11. ASSUME NEW h \in Handler, RegisterClient(h)
      PROVE  Appearances'
    <2>1. PICK v \in User :
              /\ v = request[h].user /\ request[h].pc = "accepted"
              /\ request' = [request EXCEPT ![h].pc = "open"]
              /\ IF world[v] = None THEN AddPlayer(v) ELSE UNCHANGED <<world, unloaded>>
              /\ UNCHANGED <<users, crossed>>
        BY <1>11 DEF RegisterClient, Goto
    <2>2. \A g \in Handler : /\ request'[g].user = request[g].user
                             /\ request'[g].look = request[g].look
                             /\ At(g, "save")' <=> At(g, "save")
                             /\ At(g, "update")' <=> At(g, "update")
        BY <2>1
    <2>3. \A u \in User \ {v} : world'[u] = world[u] /\ (u \in unloaded' <=> u \in unloaded)
        BY <2>1 DEF AddPlayer
    <2>4. world[v] = None =>
              world'[v] = IF v \in unloaded' THEN DefaultLook ELSE users[v]
        BY <2>1 DEF AddPlayer
    <2>5. world[v] # None => world'[v] = world[v] /\ (v \in unloaded' <=> v \in unloaded)
        BY <2>1
    <2> QED  BY <2>1, <2>2, <2>3, <2>4, <2>5
<1>12. ASSUME NEW h \in Handler, CloseSocket(h)
      PROVE  Appearances'
    <2>1. PICK v \in User :
              /\ v = request[h].user /\ request[h].pc \in {"accepted", "open"}
              /\ \/ world' = [world EXCEPT ![v] = None] /\ unloaded' = unloaded \ {v}
                 \/ UNCHANGED <<world, unloaded>>
        BY <1>12 DEF CloseSocket, RemoveClient
    <2>2. request' = [request EXCEPT ![h] = Idle] /\ UNCHANGED <<users, crossed>>
        BY <1>12 DEF CloseSocket, End
    <2>3. /\ \A g \in Handler \ {h} : request'[g] = request[g]
          /\ request'[h].pc = "idle"
        BY <2>2 DEF Idle
    <2>4. \A u \in User :
              \/ world'[u] = None
              \/ world'[u] = world[u] /\ (u \in unloaded' <=> u \in unloaded)
        BY <2>1
    <2> QED  BY <2>1, <2>2, <2>3, <2>4
<1>13. ASSUME NEW h \in Handler, NEW t \in Token, NEW look \in Look, PutAppearance(h, t, look)
      PROVE  Appearances'
    <2>1. PICK v \in User :
              /\ request' = [request EXCEPT
                     ![h] = [pc |-> "save", user |-> v, token |-> t, look |-> look]]
              /\ crossed' = IF Changing(v) = {} THEN crossed ELSE crossed \cup {v}
        <3>1. sessions[t].user \in User
            BY <1>13 DEF PutAppearance, AuthenticateSession
        <3> QED  BY <1>13, <3>1 DEF PutAppearance, Begin
    <2>2. UNCHANGED <<users, world, unloaded>> /\ request[h].pc = "idle"
        BY <1>13 DEF PutAppearance, Begin
    <2>3. \A g \in Handler, u \in User :
              Pending(g, u)' <=> IF g = h THEN u = v ELSE Pending(g, u)
        BY <2>1
    <2>4. crossed \subseteq crossed' /\ (v \in crossed' \/ \A g \in Handler : ~Pending(g, v))
        BY <2>1 DEF Changing
    <2>5. \A g \in Handler : (At(g, "update")' <=> At(g, "update"))
                              /\ (At(g, "update") => request'[g] = request[g])
        BY <2>1, <2>2
    <2> QED  BY <2>2, <2>3, <2>4, <2>5
<1>14. ASSUME NEW h \in Handler, SaveUserAppearance(h)
      PROVE  Appearances'
    BY <1>14 DEF SaveUserAppearance, Goto
<1>15. ASSUME NEW h \in Handler, UpdateAppearance(h)
      PROVE  Appearances'
    <2>1. PICK v \in User :
              /\ v = request[h].user /\ request[h].pc = "update"
              /\ request' = [request EXCEPT ![h] = Idle]
              /\ world' = [world EXCEPT ![v] = LookUpdated(@, request[h].look)]
              /\ unloaded' = unloaded \ {v}
              /\ UNCHANGED <<users, crossed>>
        BY <1>15 DEF UpdateAppearance, End
    <2>2. \A g \in Handler \ {h} : request'[g] = request[g]
        BY <2>1
    <2>3. request'[h].pc = "idle" /\ request'[h].user = None
        BY <2>1 DEF Idle
    <2>4. \A u \in User \ {v} : world'[u] = world[u] /\ (u \in unloaded' <=> u \in unloaded)
        BY <2>1
    <2>5. v \notin unloaded' /\ (world'[v] = None \/ world'[v] = request[h].look)
        BY <2>1 DEF LookUpdated
    <2>6. v \notin crossed => users[v] = request[h].look
        BY <2>1
    <2>7. \A g \in Handler : At(g, "update")' => g # h /\ At(g, "update")
        BY <2>2, <2>3
    <2>8. \A g \in Handler, u \in User : Pending(g, u)' => g # h /\ Pending(g, u)
        BY <2>2, <2>3
    <2>9. ASSUME NEW u \in User \ crossed'
          PROVE  /\ \A f, g \in Handler : Pending(f, u)' /\ Pending(g, u)' => f = g
                 /\ \A g \in Handler : At(g, "update")' /\ request'[g].user = u =>
                        users'[u] = request'[g].look
        BY <2>1, <2>2, <2>7, <2>8
    <2>10. ASSUME NEW u \in User \ crossed',
                  \A g \in Handler : At(g, "update")' => request'[g].user # u
           PROVE  world'[u] = None \/
                      world'[u] = IF u \in unloaded' THEN DefaultLook ELSE users'[u]
        <3>1. CASE u = v
            BY <2>1, <2>5, <2>6, <2>10, <3>1
        <3>2. CASE u # v
            <4>1. \A g \in Handler : At(g, "update") => request[g].user # u
                BY <2>1, <2>2, <2>10, <3>2
            <4> QED  BY <2>1, <2>4, <2>10, <3>2, <4>1
        <3> QED  BY <3>1, <3>2
    <2> QED  BY <2>9, <2>10
<1>16. CASE UNCHANGED vars
    BY <1>16 DEF vars
<1> QED  BY <1>1, <1>2, <1>3, <1>4, <1>5, <1>6, <1>7, <1>8, <1>9, <1>10, <1>11, <1>12,
         <1>13, <1>14, <1>15, <1>16 DEF Next, HandlerStep

---------------------------------------------------------------------------
LEMMA Initially == Init => Shape /\ Sessions /\ Appearances
BY AccountsAssumption
   DEF Init, Shape, TypeOK, RequestOK, SessionsKnown, Request, PC, Idle, Sessions,
       SessionOwner, Disconnected, LogoutDisconnects, Appearances, Pending, At

LEMMA Invariance == Spec => [](Shape /\ Sessions /\ Appearances)
<1>1. Init => Shape /\ Sessions /\ Appearances
    BY Initially
<1>2. (Shape /\ Sessions /\ Appearances) /\ [Next]_vars => (Shape /\ Sessions /\ Appearances)'
    BY ShapeStep, SessionsStep, AppearancesStep
<1> QED  BY <1>1, <1>2, PTL DEF Spec

\* The state has its types: a player is in the world exactly while its user has a
\* current connection, an open websocket of that user (hub.go, players.clients).
THEOREM TypeCorrect == Spec => []TypeOK
<1>1. Shape => TypeOK
    BY DEF Shape
<1> QED  BY <1>1, Invariance, PTL

\* Logout (handleLogout) leaves no current connection of its session, except a
\* websocket that registered after the logout's disconnect, or one of a session
\* whose logout did not authenticate.
THEOREM LogoutEndsSession == Spec => []LogoutDisconnects
<1>1. Sessions => LogoutDisconnects
    BY DEF Sessions
<1> QED  BY <1>1, Invariance, PTL

\* A user whose appearance changes did not overlap is shown with the saved
\* appearance whenever none of them is under way (handleAppearance), except that a
\* player whose load failed has the default appearance until it is changed or
\* loaded again (addPlayer).
THEOREM AppearanceShown == Spec => []AppearanceSaved
<1>1. Shape /\ Appearances => AppearanceSaved
    BY AccountsAssumption DEF Shape, TypeOK, Appearances, AppearanceSaved, Changing, At
<1> QED  BY <1>1, Invariance, PTL
=============================================================================
