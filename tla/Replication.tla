----------------------------- MODULE Replication -----------------------------
(***************************************************************************)
(* What the hub tells each browser about the other players.  It composes   *)
(* the area-of-interest index (AOI) with the hub's pending changes         *)
(* (realtime/hub.go), the builder that turns them into one update per      *)
(* recipient (replication_builder.go, messages.go) and the markers of the  *)
(* browser (web/app.js).  A browser reads its stream in order              *)
(* (HubConnections!StreamInOrder), so an update is applied as it is built; *)
(* a full dispatcher queue drops it.  "gap" is a ghost: the pairs          *)
(* <<recipient, player>> of which a change was never told to the recipient *)
(* and no later entered, left or snapshot made up for it.                  *)
(***************************************************************************)
EXTENDS Integers

CONSTANTS Player, Point, CellSize, EnterRadius, LeaveRadius, RescanDistance, None,
          MaxLook       \* bound: changes of a player's appearance

ASSUME BoundAssumption == MaxLook \in Nat /\ None \notin [pos : Point, look : 0..MaxLook]

VARIABLES
    pos, marker, cells, visible, delta,  \* the index
    wpos,     \* World: where a player stands, None when it is not in the world
    look,     \* World: appearance of a player
    moved,    \* World: players that moved since the last broadcast
    clients,  \* connected players
    pendingEntered,      \* players others have still to be shown
    pendingLeft,         \* per recipient: players that left
    pendingAppearances,  \* players whose new appearance has not been told
    todo,     \* movers the current broadcast has still to apply to the index
    stable,   \* per mover of the current broadcast: its stable neighbours
    phase,    \* "select" or "moving" (in the middle of a broadcast)
    view,     \* per client: the markers of its browser
    gap

aoiVars   == <<pos, marker, cells, visible, delta>>
worldVars == <<wpos, look, moved>>
pendVars  == <<pendingEntered, pendingLeft, pendingAppearances>>
castVars  == <<todo, stable, phase>>
clientVars == <<view, gap>>
vars == <<aoiVars, worldVars, clients, pendVars, castVars, clientVars>>

Index == INSTANCE AOI

ASSUME IndexAssumption == Index!PointAssumption /\ Index!RadiusAssumption

\* A marker, or the state of a player in a message.
PlayerState(p) == [pos |-> wpos[p], look |-> look[p]]
Marker == [pos : Point, look : 0..MaxLook]
NoMarkers == [q \in Player |-> None]

Selecting == phase = "select"

---------------------------------------------------------------------------
(* Connections *)

\* The markers of a browser after the snapshot of sendInitialization.
Snapshot(p, vis, at) ==
    [q \in Player |-> IF <<p, q>> \in vis THEN [pos |-> at[q], look |-> look[q]]
                      ELSE None]

\* registerClient of a player that is not in the world.  The position it loads
\* is its last one, an older one or the spawn point.
Register(p, pt) ==
    LET at == [wpos EXCEPT ![p] = pt]
        others == clients \ {p}
    IN  /\ Selecting /\ p \notin clients /\ wpos[p] = None
        /\ wpos' = at
        /\ Index!Insert(p, pt)
        /\ pendingEntered' = IF others # {} THEN pendingEntered \cup {p}
                             ELSE pendingEntered
        \* clearPendingLeftForPlayer, and clearPendingReplicationFor
        /\ pendingLeft' = [r \in Player |->
               IF r = p THEN {}
               ELSE IF others # {} THEN pendingLeft[r] \ {p} ELSE pendingLeft[r]]
        /\ pendingAppearances' = pendingAppearances \ {p}
        /\ clients' = clients \cup {p}
        /\ view' = [view EXCEPT ![p] = Snapshot(p, visible', at)]
        /\ gap' = {g \in gap : g[1] # p} \cup
                  {<<r, p>> : r \in {x \in others : p \in pendingLeft[x]
                                                     /\ <<x, p>> \notin visible'}}
        /\ UNCHANGED <<look, moved, castVars>>

\* registerClient of a player whose connection is replaced: the player stays.
Replace(p) ==
    /\ Selecting /\ p \in clients
    /\ pendingLeft' = [pendingLeft EXCEPT ![p] = {}]
    /\ pendingAppearances' = pendingAppearances \ {p}
    /\ view' = [view EXCEPT ![p] = Snapshot(p, visible, wpos)]
    /\ gap' = {g \in gap : g[1] # p} \cup
              {<<r, p>> : r \in {x \in clients \ {p} : p \in pendingAppearances}}
    /\ UNCHANGED <<aoiVars, worldVars, clients, pendingEntered, castVars>>

\* The players removeClient tells of a departure.
FormerNeighbors(p) == delta'.left

\* Mutant: what is pending about a player outlives it.
ForgetNothing(pending, p) == pending
\* What is pending, once p has left the world.
Forget(pending, p) == pending \ {p}

\* removeClient of the current connection.
Disconnect(p) ==
    /\ Selecting /\ p \in clients
    /\ clients' = clients \ {p}
    /\ Index!Remove(p)
    /\ pendingLeft' = [r \in Player |->
           IF r = p THEN {}
           ELSE IF r \in FormerNeighbors(p) \cap clients' THEN pendingLeft[r] \cup {p}
           ELSE pendingLeft[r]]
    /\ wpos' = [wpos EXCEPT ![p] = None]
    /\ moved' = Forget(moved, p)
    /\ pendingEntered' = Forget(pendingEntered, p)
    /\ pendingAppearances' = Forget(pendingAppearances, p)
    /\ view' = [view EXCEPT ![p] = NoMarkers]
    /\ gap' = {g \in gap : g[1] # p}
    /\ UNCHANGED <<look, castVars>>

---------------------------------------------------------------------------
(* The world *)

\* The simulation tick moves a player; the index follows at the broadcast.
Step(p, pt) ==
    /\ Selecting /\ p \in clients /\ wpos[p] # pt
    /\ wpos' = [wpos EXCEPT ![p] = pt]
    /\ moved' = moved \cup {p}
    /\ UNCHANGED <<aoiVars, look, clients, pendVars, castVars, clientVars>>

\* applyAppearanceUpdate of a player that is online.
ApplyAppearanceUpdate(p) ==
    /\ Selecting /\ wpos[p] # None /\ look[p] < MaxLook
    /\ look' = [look EXCEPT ![p] = @ + 1]
    /\ pendingAppearances' = pendingAppearances \cup {p}
    /\ UNCHANGED <<aoiVars, wpos, moved, clients, pendingEntered, pendingLeft,
                   castVars, clientVars>>

---------------------------------------------------------------------------
(* broadcastReplication *)

\* Mutant: movers nobody sees are not looked at.
MoversWithNeighbors == {p \in moved : \E q \in Player : <<p, q>> \in visible}
\* TakeMovedPlayerIDs.
Movers == moved

\* A broadcast with something to tell begins.
BroadcastTick ==
    /\ Selecting
    /\ moved \cup pendingEntered \cup pendingAppearances # {}
         \/ \E r \in Player : pendingLeft[r] # {}
    /\ phase' = "moving" /\ todo' = Movers /\ moved' = {}
    /\ stable' = [p \in Player |-> {}]
    /\ UNCHANGED <<aoiVars, wpos, look, clients, pendVars, clientVars>>

\* Mutant: a leave is queued for the mover instead of for the neighbour.
QueueLeftToMover(p, left) ==
    [pendingLeft EXCEPT ![p] = @ \cup (left \cap clients)]
\* Each former neighbour of a mover is told that the mover left.
QueueLeft(p, left) ==
    [r \in Player |-> IF r \in left \cap clients THEN pendingLeft[r] \cup {p}
                      ELSE pendingLeft[r]]

\* applyMovementAOIDeltas: the movers one by one, in any order.  The neighbours
\* learn what a move changed; the mover itself is not told.
ApplyMovement(p) ==
    /\ phase = "moving" /\ p \in todo
    /\ todo' = todo \ {p}
    /\ Index!MoveDetailed(p, wpos[p])
    /\ pendingEntered' = IF delta'.entered \cap clients # {}
                         THEN pendingEntered \cup {p} ELSE pendingEntered
    /\ pendingLeft' = QueueLeft(p, delta'.left)
    /\ stable' = [stable EXCEPT ![p] = delta'.stable]
    /\ gap' = gap \cup {<<p, q>> : q \in delta'.entered \cup delta'.left}
    /\ UNCHANGED <<worldVars, clients, pendingAppearances, phase, view>>

\* Build: the changes for one recipient, from the final relation.
Changes(r) ==
    [left |-> pendingLeft[r],
     entered |-> {p \in pendingEntered : <<p, r>> \in visible},
     positions |-> {p \in Player : r \in stable[p]},
     appearances |-> {p \in pendingAppearances : p = r \/ <<p, r>> \in visible}]

\* NormalizeReplicationChanges: left wins over entered, and both over
\* positions and appearances; the recipient itself is no one's news.
Normalize(r, c) ==
    LET entered == c.entered \ ({r} \cup c.left)
    IN  [left |-> c.left \ {r},
         entered |-> entered,
         positions |-> c.positions \ ({r} \cup c.left \cup entered),
         appearances |-> c.appearances \ (c.left \cup entered)]

\* applyReplicationUpdate in the browser: positions and appearances change a
\* marker that exists and are ignored otherwise.
ApplyUpdate(markers, m) ==
    [q \in Player |->
        IF q \in m.left THEN None
        ELSE IF q \in m.entered THEN PlayerState(q)
        ELSE IF markers[q] = None THEN None
        ELSE [pos  |-> IF q \in m.positions THEN wpos[q] ELSE markers[q].pos,
              look |-> IF q \in m.appearances THEN look[q] ELSE markers[q].look]]

\* The players an update speaks of.
Subjects(m) == m.left \cup m.entered \cup m.positions \cup m.appearances

\* The rest of the broadcast: take what is pending, build one update per
\* recipient with changes and submit it; full queues drop those for "dropped".
Build(dropped) ==
    LET message == [r \in Player |-> Normalize(r, Changes(r))]
        recipients == {r \in clients : Subjects(message[r]) # {}}
        told(r, q) == \/ q \in message[r].entered /\ <<r, q>> \in visible
                      \/ q \in message[r].left /\ <<r, q>> \notin visible
    IN  /\ phase = "moving" /\ todo = {} /\ dropped \subseteq recipients
        /\ view' = [r \in Player |->
                       IF r \in recipients \ dropped
                       THEN ApplyUpdate(view[r], message[r]) ELSE view[r]]
        /\ gap' = {g \in gap : g[1] \in dropped \/ ~told(g[1], g[2])}
                  \cup {g \in dropped \X Player : g[2] \in Subjects(message[g[1]])}
        /\ pendingEntered' = {} /\ pendingAppearances' = {}
        /\ pendingLeft' = [r \in Player |-> {}]
        /\ stable' = [p \in Player |-> {}]
        /\ phase' = "select"
        /\ UNCHANGED <<aoiVars, worldVars, clients, todo>>

---------------------------------------------------------------------------

Init ==
    /\ Index!Init
    /\ wpos = [p \in Player |-> None] /\ look = [p \in Player |-> 0]
    /\ moved = {} /\ clients = {}
    /\ pendingEntered = {} /\ pendingAppearances = {}
    /\ pendingLeft = [r \in Player |-> {}]
    /\ todo = {} /\ stable = [p \in Player |-> {}] /\ phase = "select"
    /\ view = [r \in Player |-> NoMarkers] /\ gap = {}

Operate ==
    \/ \E p \in Player :
          \/ \E pt \in Point : Register(p, pt) \/ Step(p, pt)
          \/ Replace(p) \/ Disconnect(p)
          \/ ApplyAppearanceUpdate(p) \/ ApplyMovement(p)
    \/ BroadcastTick
Next == Operate \/ \E dropped \in SUBSET clients : Build(dropped)

Spec == Init /\ [][Next]_vars

\* Queues that are never full.
RoomySpec == Init /\ [][Operate \/ Build({})]_vars

---------------------------------------------------------------------------

\* Types of the state; what is pending is about players in the world and for
\* clients that are connected.
TypeOK ==
    /\ wpos \in [Player -> Point \cup {None}] /\ look \in [Player -> 0..MaxLook]
    /\ clients = {p \in Player : wpos[p] # None}
    /\ moved \cup todo \cup pendingEntered \cup pendingAppearances \subseteq clients
    /\ pendingLeft \in [Player -> SUBSET Player]
    /\ \A r \in Player : pendingLeft[r] # {} => r \in clients
    /\ stable \in [Player -> SUBSET Player] /\ phase \in {"select", "moving"}
    /\ view \in [Player -> [Player -> Marker \cup {None}]]
    /\ gap \subseteq Player \X Player

\* Nothing about q is still to be told to r.
Settled(r, q) ==
    /\ Selecting /\ r \in clients
    /\ q \notin moved \cup pendingEntered \cup pendingAppearances \cup pendingLeft[r]

\* A browser shows exactly the players the index relates to its own, each
\* where it stands and with its appearance, except for the pairs in "gap":
\* those whose relation changed by the recipient's own move, whose update was
\* dropped, or whose pending change a registration cleared.
ViewExact ==
    \A r, q \in Player :
        r # q /\ Settled(r, q) /\ <<r, q>> \notin gap =>
            view[r][q] = IF <<r, q>> \in visible THEN PlayerState(q) ELSE None

\* Between broadcasts the index knows exactly the players of the world, each at
\* its position of the last broadcast.
IndexFollowsWorld ==
    Selecting => /\ \A p \in Player : pos[p] = None <=> wpos[p] = None
                 /\ \A p \in clients \ moved : pos[p] = wpos[p]

\* "There is no state where a marker remains visible but stops receiving
\* updates": nothing is pending about a player that a browser shows and the
\* index does not relate to it.  It does not hold: registerClient clears the
\* pending departure of a player that comes back, and the neighbour that shows
\* it learns of it again only if the two are within EnterRadius.
NoFrozenMarker ==
    \A r, q \in Player :
        r # q /\ Settled(r, q) /\ r \notin moved /\ view[r][q] # None
            => <<r, q>> \in visible
==============================================================================
