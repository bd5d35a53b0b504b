----------------------------- MODULE Collectibles -----------------------------
(***************************************************************************)
(* The collectible world: the field of items (game/collectible.go), the    *)
(* pickups and the visibility of items (realtime/hub.go), the item part of *)
(* an update (replication_builder.go, messages.go) and the gems the        *)
(* browser shows (web/app.js).  The item grid is read through the nine     *)
(* cells around a point.  Respawn delays are abstracted: at a broadcast    *)
(* any of the owed replacements may have come due.  Players are real       *)
(* users; a synthetic client asks for no pickup.  What becomes of a score  *)
(* is in ScorePersistence: here it counts the points given since start-up. *)
(* "gap" is a ghost: per player, the items whose gem may disagree with     *)
(* what the hub tracks, because an update was dropped or the code let go   *)
(* of the item without telling.                                            *)
(***************************************************************************)
EXTENDS Integers, FiniteSets

CONSTANTS Player, Region,
          Point,        \* positions <<x, y>> of players
          Circle,       \* per region: the points an item may be placed at
          TargetCount,  \* per region
          CellSize, EnterRadius, LeaveRadius, PickupRadius,
          None,
          MayDrop,      \* whether a dispatcher queue may be full
          MaxItem,      \* bound: items ever spawned
          MaxRequest    \* bound: pickup requests on their way

ASSUME FieldAssumption ==
    /\ None \notin Region \cup Point
    /\ Point \subseteq Int \X Int
    /\ Circle \in [Region -> SUBSET (Int \X Int)]
    /\ TargetCount \in [Region -> Nat \ {0}]
    /\ MayDrop \in BOOLEAN
    /\ CellSize \in Nat \ {0} /\ MaxItem \in Nat /\ MaxRequest \in Nat
    /\ EnterRadius \in Nat /\ LeaveRadius \in Nat /\ EnterRadius <= LeaveRadius

VARIABLES
    field,         \* collectibles: where each live item lies, None for the others
    nextID,
    replacements,  \* per region: replacements not yet due
    score,         \* players.scores
    clients,       \* connected players
    wpos,          \* World: position of a player
    moved,         \* World: players that moved since the last broadcast
    at,            \* AOI index: position of a player at the last broadcast
    visible,       \* visibleIDs[p]: a set of items, None when there is no entry
    collected,     \* pendingCollected[p]
    cooldowns,     \* players whose last request the hub remembers the time of
    requests,      \* pickups the browsers asked for, not yet received
    gems,          \* web/app.js collectibleGems of each player's browser
    gap

fieldVars  == <<field, nextID, replacements>>
playerVars == <<clients, wpos, moved, at>>
vars == <<fieldVars, score, playerVars, visible, collected, cooldowns, requests,
          gems, gap>>

Item == 1..MaxItem
Placement == UNION {{[region |-> r, at |-> pt] : pt \in Circle[r]} : r \in Region}
ASSUME NoneAssumption == None \notin Placement /\ \A items \in SUBSET Item : None # items
Request == [player : Player, item : Item, current : BOOLEAN]

---------------------------------------------------------------------------
(* Geometry *)

SqDist(a, b) == (a[1] - b[1]) * (a[1] - b[1]) + (a[2] - b[2]) * (a[2] - b[2])

\* The cell of one point is among the nine around the cell of the other.
NineCells(a, b) ==
    \A k \in 1..2 : (a[k] \div CellSize) - (b[k] \div CellSize) \in -1..1

CollectiblesWithinRadius(f, pt, radius) ==
    {i \in Item : /\ f[i] # None
                  /\ NineCells(pt, f[i].at)
                  /\ SqDist(pt, f[i].at) <= radius * radius}

\* Mutant: the cell of the point alone is searched.
QueryOneCell(positions, pt) ==
    {p \in Player : positions[p] # None /\ \A k \in 1..2 :
                        pt[k] \div CellSize = positions[p][k] \div CellSize}
QueryPlayerIDsNearPoint(positions, pt) ==
    {p \in Player : positions[p] # None /\ NineCells(pt, positions[p])}

---------------------------------------------------------------------------
(* The field *)

\* How many of the placements in f are in region r.
CountIn(f, r) == Cardinality({i \in DOMAIN f : f[i] # None /\ f[i].region = r})

\* Populate, from an empty field.
Populated(f, n) ==
    /\ n \in 1..(MaxItem + 1)
    /\ f \in [Item -> Placement \cup {None}]
    /\ \A i \in Item : f[i] # None <=> i < n
    /\ \A r \in Region : CountIn(f, r) = TargetCount[r]

\* Mutant: an item picked up is not replaced.
ScheduleNone(owed, r) == owed
Schedule(owed, r) == [owed EXCEPT ![r] = @ + 1]

Remove(i) ==
    /\ field' = [field EXCEPT ![i] = None]
    /\ replacements' = Schedule(replacements, field[i].region)
    /\ UNCHANGED nextID

\* The fields new items may bring: any due replacements, placed anywhere in
\* their region (placeInRegion gives up after ten attempts to keep apart).
Spawnable ==
    {new \in UNION {[nextID..n -> Placement] : n \in (nextID - 1)..MaxItem} :
        \A r \in Region : CountIn(new, r) <= replacements[r]}

\* Mutant: the counter is left behind.
SameID(new) == nextID
NextID(new) == nextID + Cardinality(DOMAIN new)

AdvanceReplacements(new) ==
    /\ new \in Spawnable
    /\ field' = [i \in Item |-> IF i \in DOMAIN new THEN new[i] ELSE field[i]]
    /\ nextID' = NextID(new)
    /\ replacements' = [r \in Region |-> replacements[r] - CountIn(new, r)]

---------------------------------------------------------------------------
(* Connections *)

\* The connection of p is no longer the current one.
Orphaned(p) ==
    {IF q.player = p THEN [q EXCEPT !.current = FALSE] ELSE q : q \in requests}

\* clearPendingReplicationFor and sendInitialization, for p standing at pt.
SendInitialization(p, pt) ==
    LET near == CollectiblesWithinRadius(field, pt, EnterRadius)
    IN  /\ gems' = [gems EXCEPT ![p] = near]
        /\ visible' = [visible EXCEPT ![p] = IF near = {} THEN None ELSE near]
        /\ collected' = [collected EXCEPT ![p] = {}]
        /\ gap' = [gap EXCEPT ![p] = {}]
        /\ requests' = Orphaned(p)
        /\ UNCHANGED <<fieldVars, score, cooldowns>>

Register(p, pt) ==
    /\ p \notin clients
    /\ clients' = clients \cup {p}
    /\ wpos' = [wpos EXCEPT ![p] = pt]
    /\ at' = [at EXCEPT ![p] = pt]
    /\ SendInitialization(p, pt)
    /\ UNCHANGED moved

\* registerClient for a player whose connection is replaced.
Replace(p) ==
    /\ p \in clients
    /\ SendInitialization(p, wpos[p])
    /\ UNCHANGED playerVars

Disconnect(p) ==
    /\ p \in clients
    /\ clients' = clients \ {p}
    /\ wpos' = [wpos EXCEPT ![p] = None]
    /\ at' = [at EXCEPT ![p] = None]
    /\ moved' = moved \ {p}
    /\ visible' = [visible EXCEPT ![p] = None]
    /\ collected' = [collected EXCEPT ![p] = {}]
    /\ gems' = [gems EXCEPT ![p] = {}]
    /\ gap' = [gap EXCEPT ![p] = {}]
    /\ requests' = Orphaned(p)
    /\ UNCHANGED <<fieldVars, score, cooldowns>>

\* A simulation tick moves p.
Move(p, pt) ==
    /\ p \in clients /\ pt # wpos[p]
    /\ wpos' = [wpos EXCEPT ![p] = pt]
    /\ moved' = moved \cup {p}
    /\ UNCHANGED <<fieldVars, score, clients, at, visible, collected, cooldowns,
                   requests, gems, gap>>

---------------------------------------------------------------------------
(* Pickups *)

\* performPickup: the browser asks for a gem it shows.
PerformPickup(p, i) ==
    /\ p \in clients /\ i \in gems[p]
    /\ Cardinality(requests) < MaxRequest
    /\ requests' = requests \cup {[player |-> p, item |-> i, current |-> TRUE]}
    /\ UNCHANGED <<fieldVars, score, playerVars, visible, collected, cooldowns,
                   gems, gap>>

Tracked(vis, p) == IF vis[p] = None THEN {} ELSE vis[p]

\* The item exists, is tracked for p and lies within reach.
CanPickUp(p, i) ==
    /\ field[i] # None
    /\ i \in Tracked(visible, p)
    /\ SqDist(wpos[p], field[i].at) <= PickupRadius * PickupRadius

\* The point, and the fan-out to the players around the item.
PickUp(p, i) ==
    LET told == QueryPlayerIDsNearPoint(at, field[i].at) \cap clients
    IN  /\ Remove(i)
        /\ score' = [score EXCEPT ![p] = @ + 1]
        /\ visible' = [q \in Player |->
               IF q \in told /\ visible[q] # None THEN visible[q] \ {i}
               ELSE visible[q]]
        /\ collected' = [q \in Player |->
               IF q \in told THEN collected[q] \cup {i} ELSE collected[q]]

\* processCollect of a request that is of another connection, or less than
\* 300 ms after the player's last one.
IgnoreCollect(q) ==
    /\ q.current => q.player \in cooldowns
    /\ UNCHANGED <<fieldVars, score, visible, collected, cooldowns>>

\* processCollect of any other request; one that fails starts a cooldown too.
AnswerCollect(q) ==
    /\ q.current
    /\ cooldowns' = cooldowns \cup {q.player}
    /\ IF CanPickUp(q.player, q.item) THEN PickUp(q.player, q.item)
       ELSE UNCHANGED <<fieldVars, score, visible, collected>>

ProcessCollect(q) ==
    /\ q \in requests
    /\ requests' = requests \ {q}
    /\ IgnoreCollect(q) \/ AnswerCollect(q)
    /\ UNCHANGED <<playerVars, gems, gap>>

---------------------------------------------------------------------------
(* The item part of broadcastReplication, for the new items new             *)

\* advanceCollectibleReplacements: an entry of visibleIDs is extended, none is
\* created.
SpawnedFor(p, positions, new) ==
    {i \in DOMAIN new : p \in QueryPlayerIDsNearPoint(positions, new[i].at)}
WithSpawned(p, spawned) == IF visible[p] = None THEN None ELSE visible[p] \cup spawned

\* recalcCollectibleVisibility of one mover whose tracked items were prev.
Recalculate(f, pt, prev) ==
    LET near == CollectiblesWithinRadius(f, pt, EnterRadius)
    IN  [visible |-> near,
         entered |-> near \ prev,
         left    |-> prev \ CollectiblesWithinRadius(f, pt, LeaveRadius)]

\* Mutant: what left or was collected may still be spawned.
NormalizeSpawnedWins(c) == [c EXCEPT !.entered = @ \ (c.left \cup c.collected)]
\* NormalizeReplicationChanges: left and collected win over spawned, these
\* three over entered.
Normalize(c) ==
    LET gone == c.left \cup c.collected
    IN  [c EXCEPT !.spawned = @ \ gone, !.entered = @ \ (gone \cup c.spawned)]

\* applyReplicationUpdate: four loops, in this order.
ApplyUpdate(shown, c) ==
    (((shown \cup c.entered) \ c.left) \cup c.spawned) \ c.collected

Subjects(c) == c.entered \cup c.left \cup c.spawned \cup c.collected

\* What a broadcast that leaves the field f and the index positions changes
\* about client p.
Broadcasted(p, f, positions, new, dropped) ==
    LET spawned == SpawnedFor(p, positions, new)
        prev    == WithSpawned(p, spawned)
        recalc  == IF p \in moved THEN Recalculate(f, wpos[p], IF prev = None THEN {} ELSE prev)
                   ELSE [visible |-> prev, entered |-> {}, left |-> {}]
        update  == Normalize([entered |-> recalc.entered, left |-> recalc.left,
                              spawned |-> spawned, collected |-> collected[p]])
        tracked == IF recalc.visible = None THEN {} ELSE recalc.visible
        \* tracked or spawned items let go of, or never tracked, without a word
        silent  == ((IF prev = None THEN {} ELSE prev) \cup spawned)
                       \ (tracked \cup recalc.left \cup collected[p])
    IN  [visible |-> recalc.visible,
         gems    |-> IF dropped THEN gems[p] ELSE ApplyUpdate(gems[p], update),
         gap     |-> silent \cup (IF dropped THEN gap[p] \cup Subjects(update)
                                  ELSE gap[p] \ Subjects(update))]

Broadcast(new, dropped) ==
    /\ AdvanceReplacements(new)
    /\ dropped = {} \/ MayDrop
    /\ at' = [p \in Player |-> IF p \in moved THEN wpos[p] ELSE at[p]]
    /\ \E after \in {[p \in clients |-> Broadcasted(p, field', at', new, p \in dropped)]} :
          /\ visible' = [p \in Player |-> IF p \in clients THEN after[p].visible ELSE None]
          /\ gems' = [p \in Player |-> IF p \in clients THEN after[p].gems ELSE {}]
          /\ gap' = [p \in Player |-> IF p \in clients THEN after[p].gap ELSE {}]
    /\ moved' = {}
    /\ collected' = [p \in Player |-> {}]
    /\ UNCHANGED <<score, clients, wpos, cooldowns, requests>>

---------------------------------------------------------------------------

Init ==
    /\ \E f \in [Item -> Placement \cup {None}], n \in 1..(MaxItem + 1) :
          Populated(f, n) /\ field = f /\ nextID = n
    /\ replacements = [r \in Region |-> 0]
    /\ score = [p \in Player |-> 0]
    /\ clients = {} /\ moved = {} /\ cooldowns = {} /\ requests = {}
    /\ wpos = [p \in Player |-> None] /\ at = [p \in Player |-> None]
    /\ visible = [p \in Player |-> None]
    /\ collected = [p \in Player |-> {}]
    /\ gems = [p \in Player |-> {}] /\ gap = [p \in Player |-> {}]

Next ==
    \/ \E p \in Player :
          \/ \E pt \in Point : Register(p, pt) \/ Move(p, pt)
          \/ Replace(p) \/ Disconnect(p)
          \/ \E i \in Item : PerformPickup(p, i)
    \/ \E q \in requests : ProcessCollect(q)
    \/ \E new \in Spawnable, dropped \in SUBSET clients : Broadcast(new, dropped)

Spec == Init /\ [][Next]_vars

---------------------------------------------------------------------------
(* Properties *)

\* Types of the state; IDs below nextID are the ones given so far.
TypeOK ==
    /\ field \in [Item -> Placement \cup {None}] /\ nextID \in 1..(MaxItem + 1)
    /\ \A i \in Item : field[i] # None => i < nextID
    /\ replacements \in [Region -> Nat] /\ score \in [Player -> Nat]
    /\ clients \subseteq Player /\ moved \subseteq clients
    /\ wpos \in [Player -> Point \cup {None}] /\ at \in [Player -> Point \cup {None}]
    /\ \A p \in Player : wpos[p] # None <=> p \in clients
    /\ \A p \in Player : at[p] # None <=> p \in clients
    /\ visible \in [Player -> (SUBSET Item) \cup {None}]
    /\ collected \in [Player -> SUBSET Item]
    /\ cooldowns \subseteq Player /\ requests \subseteq Request
    /\ gems \in [Player -> SUBSET Item] /\ gap \in [Player -> SUBSET Item]

\* The promise of Pickups: requests of two players, of replaced connections
\* and of stale browsers give each item's point once, and no region loses an
\* item (processCollect, Remove, AdvanceReplacements).
Game == INSTANCE Pickups WITH
            points <- score,
            home <- [i \in Item |-> IF field[i] = None THEN None ELSE field[i].region],
            owed <- replacements,
            used <- 1..(nextID - 1)
OnePointPerItem == Game!Spec

\* What may be picked up is never out of step with the field: once a movement
\* has been broadcast, the items tracked for a player are live and, if it has
\* an entry at all, include every one within EnterRadius.  They come from
\* snapshots, recalculations of movers, and the fan-outs by cell of spawned and
\* collected items.
TrackedItems ==
    \A p \in clients \ moved :
        /\ \A i \in Tracked(visible, p) : field[i] # None
        /\ visible[p] # None =>
              CollectiblesWithinRadius(field, wpos[p], EnterRadius) \subseteq visible[p]

\* The gems of a browser are the items the hub tracks for its player and the
\* collected ones it is about to be told of, save for the gap.
GemsTracked ==
    \A p \in clients : \A i \in Item \ gap[p] :
        /\ i \in Tracked(visible, p) => i \in gems[p]
        /\ i \in gems[p] => i \in Tracked(visible, p) \cup collected[p]

\* A collected item's gem goes: once the movements are broadcast and no update
\* was dropped, a gem is that of a live item or its removal is under way
\* (docs/superpowers/specs/2026-06-15-persistent-collectible-world-design.md:251
\* "The normal collectible replication stream corrects stale client state").
NoDeadGem ==
    \A p \in clients \ moved : \A i \in gems[p] :
        field[i] # None \/ i \in collected[p]
==============================================================================
