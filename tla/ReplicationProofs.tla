-------------------------- MODULE ReplicationProofs --------------------------
(* Proofs about Replication for every set of players and of points: the hub  *)
(* uses the index only as AOI specifies it, so what AOIProofs shows of every *)
(* behaviour of the index holds inside the hub, and with it the types of the *)
(* hub's pending changes and of the browsers' markers; and what a browser    *)
(* shows differs from the relation only by what is pending.                  *)
EXTENDS Replication, TLAPS

IndexProofs == INSTANCE AOIProofs

---------------------------------------------------------------------------
(* The index of the hub is the index of AOIProofs *)

LEMMA SameInit == Index!Init <=> IndexProofs!Init
BY DEF Index!Init, IndexProofs!Init, Index!Delta, IndexProofs!Delta

LEMMA SameNext == Index!Next <=> IndexProofs!Next
<1> USE DEF Index!Recalculate, IndexProofs!Recalculate, Index!EnterScan, IndexProofs!EnterScan,
            Index!LeaveCheck, IndexProofs!LeaveCheck, Index!Reindex, IndexProofs!Reindex,
            Index!AddRelationships, IndexProofs!AddRelationships,
            Index!RemoveRelationships, IndexProofs!RemoveRelationships,
            Index!MarkEnterScan, IndexProofs!MarkEnterScan,
            Index!ShouldForceEnterScan, IndexProofs!ShouldForceEnterScan,
            Index!WithinEnter, IndexProofs!WithinEnter, Index!BeyondLeave, IndexProofs!BeyondLeave,
            Index!Neighbors, IndexProofs!Neighbors, Index!Delta, IndexProofs!Delta,
            Index!CellOf, IndexProofs!CellOf, Index!NineCells, IndexProofs!NineCells,
            Index!SqDist, IndexProofs!SqDist
<1>1. ASSUME NEW p, NEW pt
      PROVE  Index!Insert(p, pt) <=> IndexProofs!Insert(p, pt)
  BY SMTT(60) DEF Index!Insert, IndexProofs!Insert
<1>2. ASSUME NEW p, NEW pt
      PROVE  Index!MoveDetailed(p, pt) <=> IndexProofs!MoveDetailed(p, pt)
  BY SMTT(60) DEF Index!MoveDetailed, IndexProofs!MoveDetailed
<1>3. ASSUME NEW p
      PROVE  Index!RecalculateRelationships(p) <=> IndexProofs!RecalculateRelationships(p)
  BY DEF Index!RecalculateRelationships, IndexProofs!RecalculateRelationships
<1>4. ASSUME NEW p
      PROVE  Index!Remove(p) <=> IndexProofs!Remove(p)
  BY DEF Index!Remove, IndexProofs!Remove
<1> QED BY ONLY <1>1, <1>2, <1>3, <1>4 DEF Index!Next, IndexProofs!Next

---------------------------------------------------------------------------
(* The hub, the world and the index *)

\* The players of the world are the connected ones and those of the index, the
\* movers are among them, and the index is behind the world only for movers.
Tracked ==
    /\ wpos \in [Player -> Point \cup {None}]
    /\ pos \in [Player -> Point \cup {None}]
    /\ clients = {p \in Player : wpos[p] # None}
    /\ \A p \in Player : pos[p] = None <=> wpos[p] = None
    /\ moved \cup todo \subseteq clients
    /\ \A p \in clients \ (moved \cup todo) : pos[p] = wpos[p]
    /\ Selecting => todo = {}

LEMMA InitTracked == Init => Tracked
BY DEF Init, Index!Init, Tracked, Selecting

LEMMA StepTracked ==
    ASSUME IndexAssumption, Tracked, [Next]_vars
    PROVE  Tracked'
<1>0. None \notin Point
  BY IndexAssumption DEF Index!PointAssumption
<1> USE DEF Tracked, Selecting
<1>1. ASSUME NEW p \in Player, NEW pt \in Point, Register(p, pt) PROVE Tracked'
  BY <1>0, <1>1 DEF Register, Index!Insert, castVars
<1>2. ASSUME NEW p \in Player, NEW pt \in Point, Step(p, pt) PROVE Tracked'
  BY <1>0, <1>2 DEF Step, castVars, aoiVars
<1>3. ASSUME NEW p \in Player, Replace(p) PROVE Tracked'
  BY <1>3 DEF Replace, castVars, aoiVars, worldVars
<1>4. ASSUME NEW p \in Player, Disconnect(p) PROVE Tracked'
  BY <1>4 DEF Disconnect, Index!Remove, Forget, castVars
<1>5. ASSUME NEW p \in Player, ApplyAppearanceUpdate(p) PROVE Tracked'
  BY <1>5 DEF ApplyAppearanceUpdate, castVars, aoiVars
<1>6. ASSUME NEW p \in Player, ApplyMovement(p) PROVE Tracked'
  BY <1>6 DEF ApplyMovement, Index!MoveDetailed, worldVars
<1>7. CASE BroadcastTick
  BY <1>7 DEF BroadcastTick, Movers, aoiVars
<1>8. ASSUME NEW dropped, Build(dropped) PROVE Tracked'
  BY <1>8 DEF Build, aoiVars, worldVars
<1>9. CASE UNCHANGED vars
  BY <1>9 DEF vars, aoiVars, worldVars, castVars
<1> QED BY <1>1, <1>2, <1>3, <1>4, <1>5, <1>6, <1>7, <1>8, <1>9 DEF Next, Operate

LEMMA AlwaysTracked == Spec => []Tracked
<1>1. Tracked /\ [Next]_vars => Tracked'  BY StepTracked, IndexAssumption
<1> QED BY <1>1, InitTracked, PTL DEF Spec

\* Between broadcasts the index knows exactly the players of the world, each
\* where it stood at the last broadcast, for every number of players.
THEOREM IndexFollows == Spec => []IndexFollowsWorld
<1>1. Tracked => IndexFollowsWorld
  BY DEF Tracked, IndexFollowsWorld
<1> QED BY <1>1, AlwaysTracked, PTL

---------------------------------------------------------------------------
(* The hub implements the specification of the index *)

LEMMA IndexStep ==
    ASSUME Tracked, [Next]_vars
    PROVE  [Index!Next]_(Index!vars)
<1> USE DEF Index!vars, aoiVars
<1>1. ASSUME NEW p \in Player, NEW pt \in Point, Register(p, pt) PROVE Index!Next
  BY <1>1 DEF Register, Index!Next
<1>2. ASSUME NEW p \in Player, NEW pt \in Point, Step(p, pt) PROVE UNCHANGED Index!vars
  BY <1>2 DEF Step
<1>3. ASSUME NEW p \in Player, Replace(p) PROVE UNCHANGED Index!vars
  BY <1>3 DEF Replace
<1>4. ASSUME NEW p \in Player, Disconnect(p) PROVE Index!Next
  BY <1>4 DEF Disconnect, Index!Next
<1>5. ASSUME NEW p \in Player, ApplyAppearanceUpdate(p) PROVE UNCHANGED Index!vars
  BY <1>5 DEF ApplyAppearanceUpdate
<1>6. ASSUME NEW p \in Player, ApplyMovement(p) PROVE Index!Next
  <2>1. wpos[p] \in Point
    BY <1>6 DEF ApplyMovement, Tracked
  <2> QED BY <1>6, <2>1 DEF ApplyMovement, Index!Next
<1>7. CASE BroadcastTick
  BY <1>7 DEF BroadcastTick
<1>8. ASSUME NEW dropped, Build(dropped) PROVE UNCHANGED Index!vars
  BY <1>8 DEF Build
<1>9. CASE UNCHANGED vars
  BY <1>9 DEF vars
<1> QED BY <1>1, <1>2, <1>3, <1>4, <1>5, <1>6, <1>7, <1>8, <1>9 DEF Next, Operate

\* Whatever connects, moves, is broadcast or leaves, the index inside the hub
\* behaves as AOI specifies: it is never asked for an operation out of turn.
THEOREM IndexImplemented == Spec => Index!Spec
<1>1. Init => Index!Init  BY DEF Init
<1>2. Tracked /\ [Next]_vars => [Index!Next]_(Index!vars)  BY IndexStep
<1> QED BY <1>1, <1>2, AlwaysTracked, PTL DEF Spec, Index!Spec

\* What the hub's messages are built from: the types of the index and its
\* relation, which is symmetric and names only players of the index.
IndexOK == IndexProofs!TypeOK /\ IndexProofs!Symmetric

\* Therefore the relation the messages are built from is symmetric, never
\* relates players more than LeaveRadius apart, and misses no pair closer than
\* EnterRadius - 3 * RescanDistance, as of the last broadcast.
THEOREM IndexInHub ==
    Spec => [](IndexOK /\ IndexProofs!VisibleWithinLeave /\ IndexProofs!NoNearbyStranger)
<1>1. Index!Init => IndexProofs!Init  BY SameInit
<1>2. [Index!Next]_(Index!vars) => [IndexProofs!Next]_(IndexProofs!vars)
  BY SameNext DEF Index!vars, IndexProofs!vars
<1>3. Spec => IndexProofs!Spec
  BY <1>1, <1>2, IndexImplemented, PTL DEF Index!Spec, IndexProofs!Spec
<1>4. IndexProofs!Spec => []IndexProofs!TypeOK
  BY IndexAssumption, IndexProofs!TypeCorrect
<1>5. IndexProofs!Spec => [](IndexProofs!Symmetric /\ IndexProofs!CellsExact)
  BY IndexAssumption, IndexProofs!SymmetricIndex
<1>6. IndexProofs!Spec => []IndexProofs!VisibleWithinLeave
  BY IndexAssumption, IndexProofs!ExactLeave
<1>7. IndexProofs!Spec => []IndexProofs!NoNearbyStranger
  BY IndexAssumption, IndexProofs!BoundedMiss
<1> QED BY <1>3, <1>4, <1>5, <1>6, <1>7, PTL DEF IndexOK

---------------------------------------------------------------------------
(* Types *)

\* Stable neighbours are kept for the movers of the broadcast at hand only.
StableOK == \A p \in Player : stable[p] # {} => p \in clients /\ ~Selecting

IInv == Tracked /\ TypeOK /\ StableOK

LEMMA StateIsMarker ==
    ASSUME Tracked, TypeOK, NEW q \in clients
    PROVE  PlayerState(q) \in Marker
BY DEF Tracked, TypeOK, PlayerState, Marker

\* A snapshot shows players of the world.
LEMMA SnapshotTyped ==
    ASSUME TypeOK, NEW p \in Player, NEW vis, NEW at \in [Player -> Point \cup {None}],
           \A q \in Player : <<p, q>> \in vis => at[q] # None
    PROVE  Snapshot(p, vis, at) \in [Player -> Marker \cup {None}]
BY DEF TypeOK, Snapshot, Marker

\* An update only shows players of the world, too.
LEMMA UpdateTyped ==
    ASSUME IInv, NEW r \in Player
    PROVE  ApplyUpdate(view[r], Normalize(r, Changes(r))) \in [Player -> Marker \cup {None}]
<1> DEFINE m == Normalize(r, Changes(r))
<1>1. \A q \in m.entered : PlayerState(q) \in Marker
  BY StateIsMarker DEF Normalize, Changes, IInv, TypeOK
<1>2. \A q \in m.positions : wpos[q] \in Point
  BY DEF Normalize, Changes, IInv, TypeOK, Tracked, StableOK
<1>3. \A q \in Player : view[r][q] \in Marker \cup {None} /\ look[q] \in 0..MaxLook
  BY DEF IInv, TypeOK
<1> HIDE DEF m
<1>4. ApplyUpdate(view[r], m) \in [Player -> Marker \cup {None}]
  BY <1>1, <1>2, <1>3 DEF ApplyUpdate, Marker
<1> QED BY <1>4 DEF m

LEMMA InitTyped == Init => IInv
<1> SUFFICES ASSUME Init PROVE IInv  OBVIOUS
<1>1. 0 \in 0..MaxLook  BY BoundAssumption
<1> QED BY <1>1, InitTracked DEF Init, IInv, TypeOK, StableOK, Selecting, NoMarkers

LEMMA StepTyped ==
    ASSUME IndexAssumption, IInv, IndexOK, IndexOK', [Next]_vars
    PROVE  IInv'
<1>0. Tracked'  BY StepTracked DEF IInv
<1>a. /\ \A r, q \in Player : <<r, q>> \in visible' => pos'[q] # None
      /\ delta'.entered \subseteq Player /\ delta'.left \subseteq Player
      /\ delta'.stable \subseteq Player
  BY DEF IndexOK, IndexProofs!TypeOK, IndexProofs!Symmetric
<1>b. \A r, q \in Player : <<r, q>> \in visible' => wpos'[q] # None
  BY <1>0, <1>a DEF Tracked
<1> SUFFICES TypeOK' /\ StableOK'  BY <1>0 DEF IInv
<1>1. ASSUME NEW p \in Player, NEW pt \in Point, Register(p, pt) PROVE TypeOK' /\ StableOK'
  <2> USE <1>1 DEF Register, castVars
  <2>1. wpos' \in [Player -> Point \cup {None}] /\ clients' = clients \cup {p}
    BY <1>0 DEF Tracked
  <2>2. clients' = {q \in Player : wpos'[q] # None}
    BY <1>0 DEF Tracked
  <2>3. view' \in [Player -> [Player -> Marker \cup {None}]]
    <3>1. view' = [view EXCEPT ![p] = Snapshot(p, visible', wpos')]  OBVIOUS
    <3>2. Snapshot(p, visible', wpos') \in [Player -> Marker \cup {None}]
      BY <1>b, <2>1, SnapshotTyped DEF IInv
    <3>3. view \in [Player -> [Player -> Marker \cup {None}]]  BY DEF IInv, TypeOK
    <3> QED BY ONLY <3>1, <3>2, <3>3
  <2>4. gap' \subseteq Player \X Player
    <3>1. gap \subseteq Player \X Player /\ clients \subseteq Player
      BY DEF IInv, TypeOK, Tracked
    <3>2. \A g \in gap' : g \in gap \/ \E r \in clients : g = <<r, p>>
      BY <1>1 DEF Register
    <3> QED BY ONLY <3>1, <3>2, p \in Player
  <2>5. moved' \cup todo' \cup pendingEntered' \cup pendingAppearances' \subseteq clients'
    BY <2>1 DEF IInv, TypeOK, Tracked
  <2>6. /\ pendingLeft' \in [Player -> SUBSET Player]
        /\ \A r \in Player : pendingLeft'[r] # {} => r \in clients'
    BY <2>1 DEF IInv, TypeOK, Tracked
  <2> QED BY <2>1, <2>2, <2>3, <2>4, <2>5, <2>6 DEF IInv, TypeOK, StableOK, Selecting
<1>2. ASSUME NEW p \in Player, NEW pt \in Point, Step(p, pt) PROVE TypeOK' /\ StableOK'
  BY <1>2, <1>0 DEF Step, castVars, pendVars, clientVars, IInv, TypeOK, StableOK, Selecting, Tracked
<1>3. ASSUME NEW p \in Player, Replace(p) PROVE TypeOK' /\ StableOK'
  <2> USE <1>3 DEF Replace, castVars, worldVars, aoiVars
  <2>1. view' \in [Player -> [Player -> Marker \cup {None}]]
    <3>1. Snapshot(p, visible, wpos) \in [Player -> Marker \cup {None}]
      BY <1>b, SnapshotTyped DEF IInv, Tracked
    <3>2. view' = [view EXCEPT ![p] = Snapshot(p, visible, wpos)]  OBVIOUS
    <3>3. view \in [Player -> [Player -> Marker \cup {None}]]  BY DEF IInv, TypeOK
    <3> QED BY ONLY <3>1, <3>2, <3>3
  <2>2. gap' \subseteq Player \X Player
    BY DEF IInv, TypeOK, Tracked
  <2> QED BY <2>1, <2>2 DEF IInv, TypeOK, StableOK, Selecting
<1>4. ASSUME NEW p \in Player, Disconnect(p) PROVE TypeOK' /\ StableOK'
  BY <1>4, <1>0 DEF Disconnect, FormerNeighbors, Forget, NoMarkers, castVars, IInv, TypeOK, StableOK,
     Selecting, Tracked
<1>5. ASSUME NEW p \in Player, ApplyAppearanceUpdate(p) PROVE TypeOK' /\ StableOK'
  BY <1>5, BoundAssumption
     DEF ApplyAppearanceUpdate, castVars, clientVars, IInv, TypeOK, StableOK, Selecting, Tracked
<1>6. ASSUME NEW p \in Player, ApplyMovement(p) PROVE TypeOK' /\ StableOK'
  BY <1>6, <1>a DEF ApplyMovement, QueueLeft, worldVars, IInv, TypeOK, StableOK, Selecting, Tracked
<1>7. CASE BroadcastTick
  BY <1>7, <1>0 DEF BroadcastTick, Movers, pendVars, clientVars, IInv, TypeOK, StableOK, Selecting, Tracked
<1>8. ASSUME NEW dropped \in SUBSET clients, Build(dropped) PROVE TypeOK' /\ StableOK'
  <2> USE <1>8 DEF Build, aoiVars, worldVars
  <2>1. view' \in [Player -> [Player -> Marker \cup {None}]]
    BY UpdateTyped DEF IInv, TypeOK
  <2>2. gap' \subseteq Player \X Player
    BY DEF IInv, TypeOK, Tracked
  <2> QED BY <2>1, <2>2 DEF IInv, TypeOK, StableOK, Selecting
<1>9. CASE UNCHANGED vars
  BY <1>9 DEF vars, worldVars, castVars, pendVars, clientVars, IInv, TypeOK, StableOK, Selecting
<1>10. ASSUME Build({}) PROVE TypeOK' /\ StableOK'
  BY <1>8, <1>10
<1> QED BY <1>1, <1>2, <1>3, <1>4, <1>5, <1>6, <1>7, <1>8, <1>9 DEF Next, Operate

\* Type correctness, for every number of players: what is pending is always
\* about players in the world and for connected clients, and every marker shows
\* a position and an appearance that its player has had.
THEOREM TypeCorrect == Spec => []TypeOK
<1>1. IInv /\ IndexOK /\ IndexOK' /\ [Next]_vars => IInv'
  BY StepTyped, IndexAssumption
<1>2. Spec => []IndexOK
  BY IndexInHub, PTL
<1>3. Spec => []IInv
  BY <1>1, <1>2, InitTyped, PTL DEF Spec
<1>4. IInv => TypeOK
  BY DEF IInv
<1> QED BY <1>3, <1>4, PTL

---------------------------------------------------------------------------
(* What a browser shows is what the index relates, once all is told *)

\* What may differ between the marker that r shows of q and the relation: the
\* pending changes that will tell r, and nothing else.
PairOK(r, q) ==
    IF q \in pendingLeft[r] THEN <<r, q>> \notin visible
    ELSE /\ <<r, q>> \notin visible => view[r][q] = None
         /\ <<r, q>> \in visible /\ q \notin pendingEntered =>
               /\ view[r][q] # None
               /\ q \notin pendingAppearances => view[r][q].look = look[q]
               /\ q \notin moved \cup todo /\ r \notin stable[q]
                     => view[r][q].pos = wpos[q]

PairsOK == \A r \in clients, q \in Player : r # q /\ <<r, q>> \notin gap => PairOK(r, q)

\* Nobody moves during a broadcast, and who has left is not a mover of it.
PendingOK ==
    /\ ~Selecting => moved = {}
    /\ \A r, q \in Player : q \in pendingLeft[r] =>
          q \notin todo /\ (Selecting => q \notin clients)

ViewInv == PairsOK /\ PendingOK

\* A pair of which nothing changed, or of which a change is pending.
LEMMA PairKept ==
    ASSUME NEW r, NEW q, PairOK(r, q),
           <<r, q>> \in visible' <=> <<r, q>> \in visible,
           view'[r][q] = view[r][q],
           q \in pendingLeft'[r] <=> q \in pendingLeft[r],
           q \in pendingEntered => q \in pendingEntered',
           q \in pendingAppearances => q \in pendingAppearances',
           look'[q] = look[q] \/ q \in pendingAppearances',
           wpos'[q] = wpos[q] \/ q \in moved',
           q \in moved \cup todo \/ r \in stable[q] =>
               q \in moved' \cup todo' \/ r \in stable'[q]
    PROVE  PairOK(r, q)'
BY DEF PairOK

\* A pair of which all has just been told.
LEMMA PairExact ==
    ASSUME NEW r, NEW q, q \notin pendingLeft'[r],
           view'[r][q] = IF <<r, q>> \in visible' THEN PlayerState(q)' ELSE None,
           <<r, q>> \in visible' => PlayerState(q)' \in Marker
    PROVE  PairOK(r, q)'
BY BoundAssumption DEF PairOK, PlayerState, Marker

LEMMA PresentOnly ==
    ASSUME IndexOK, Tracked, NEW r \in Player, NEW q \in Player, <<r, q>> \in visible
    PROVE  wpos[q] # None /\ <<q, r>> \in visible
BY DEF IndexOK, IndexProofs!Symmetric, Tracked

LEMMA ShownIsMarker ==
    ASSUME IInv', IndexOK', NEW r \in Player, NEW q \in Player, <<r, q>> \in visible'
    PROVE  PlayerState(q)' \in Marker
<1>1. wpos'[q] # None
  BY DEF IndexOK, IndexProofs!Symmetric, IInv, Tracked
<1> QED BY <1>1 DEF IInv, TypeOK, PlayerState, Marker

\* Insert and Remove change the relations of their player only.
LEMMA InsertTouches ==
    ASSUME NEW p, NEW pt, Index!Insert(p, pt), NEW r, NEW q, r # p, q # p
    PROVE  <<r, q>> \in visible' <=> <<r, q>> \in visible
BY DEF Index!Insert, Index!Recalculate, Index!AddRelationships, Index!RemoveRelationships

LEMMA RemoveTouches ==
    ASSUME IndexOK, NEW p \in Player, Index!Remove(p), NEW r \in Player, NEW q \in Player
    PROVE  /\ r # p /\ q # p => (<<r, q>> \in visible' <=> <<r, q>> \in visible)
           /\ <<r, p>> \notin visible'
           /\ r \in delta'.left <=> <<r, p>> \in visible
<1> USE DEF IndexOK, IndexProofs!Symmetric
<1>1. visible' = {e \in visible : /\ e[1] # p
                                  /\ ~(e[2] = p /\ e[1] \in {x \in Index!Neighbors(visible, p) :
                                                                <<x, p>> \in visible})}
  BY DEF Index!Remove
<1>2. delta'.left = Index!Neighbors(visible, p)
  BY DEF Index!Remove, Index!Delta
<1>3. \A x \in Player : x \in Index!Neighbors(visible, p) <=> <<p, x>> \in visible
  BY DEF Index!Neighbors
<1>4. <<r, p>> \in visible <=> <<p, r>> \in visible
  OBVIOUS
<1> QED BY <1>1, <1>2, <1>3, <1>4

\* A move reports exactly what it did to the relations of its player.
LEMMA MoveTouches ==
    ASSUME IndexAssumption, IndexProofs!IInv, NEW p \in Player, NEW pt \in Point,
           Index!MoveDetailed(p, pt), NEW r \in Player
    PROVE  /\ r \in delta'.entered <=> <<r, p>> \in visible' /\ <<r, p>> \notin visible
           /\ r \in delta'.left <=> <<r, p>> \in visible /\ <<r, p>> \notin visible'
           /\ r \in delta'.stable <=> <<r, p>> \in visible /\ <<r, p>> \in visible'
           /\ <<r, p>> \in visible <=> <<p, r>> \in visible
           /\ <<r, p>> \in visible' <=> <<p, r>> \in visible'
           /\ \A q \in Player \ {p} : r # p => (<<r, q>> \in visible' <=> <<r, q>> \in visible)
<1>1. IndexProofs!Next
  BY SameNext DEF Index!Next
<1>2. IndexProofs!IInv' /\ \E x \in Player : IndexProofs!Step(x)
  BY <1>1, IndexAssumption, IndexProofs!NextStep
<1>3. PICK x \in Player : IndexProofs!Step(x)
  BY <1>2
<1>4. delta'.player = p /\ delta'.stable = Index!Neighbors(visible, p) \ delta'.left
  BY DEF Index!MoveDetailed, Index!Delta
<1>5. x = p /\ IndexProofs!Reported(p)
  BY <1>3, <1>4 DEF IndexProofs!Step, IndexProofs!Reported
<1>6. \A a, b \in Player : a # p /\ b # p => (<<a, b>> \in visible' <=> <<a, b>> \in visible)
  BY <1>3, <1>5 DEF IndexProofs!Step, IndexProofs!Outcome
<1>7. /\ <<r, p>> \in visible <=> <<p, r>> \in visible
      /\ <<r, p>> \in visible' <=> <<p, r>> \in visible'
  BY <1>2 DEF IndexProofs!IInv, IndexProofs!Symmetric
<1> QED BY <1>4, <1>5, <1>6, <1>7 DEF IndexProofs!Reported, Index!Neighbors

LEMMA RegisterView ==
    ASSUME IInv, IInv', IndexOK, IndexOK', ViewInv,
           NEW p \in Player, NEW pt \in Point, Register(p, pt)
    PROVE  ViewInv'
<1> USE DEF IInv
<1>1. /\ Selecting /\ Selecting' /\ p \notin clients /\ wpos[p] = None
      /\ wpos' = [wpos EXCEPT ![p] = pt] /\ UNCHANGED <<look, moved, todo, stable>>
      /\ clients' = clients \cup {p} /\ Index!Insert(p, pt)
      /\ view' = [view EXCEPT ![p] = Snapshot(p, visible', wpos')]
      /\ pendingAppearances' = pendingAppearances \ {p}
      /\ pendingEntered' = IF clients \ {p} # {} THEN pendingEntered \cup {p} ELSE pendingEntered
      /\ pendingLeft' = [r \in Player |->
             IF r = p THEN {}
             ELSE IF clients \ {p} # {} THEN pendingLeft[r] \ {p} ELSE pendingLeft[r]]
  BY DEF Register, castVars, Selecting
<1>2. ASSUME NEW r \in clients', NEW q \in Player, r # q, <<r, q>> \notin gap'
      PROVE  PairOK(r, q)'
  <2>1. CASE r = p
    <3>1. q \notin pendingLeft'[p] /\ view'[p] = Snapshot(p, visible', wpos')
      BY <1>1 DEF TypeOK
    <3>2. view'[p][q] = IF <<p, q>> \in visible' THEN PlayerState(q)' ELSE None
      BY <1>1, <3>1 DEF PlayerState, Snapshot
    <3>3. <<p, q>> \in visible' => PlayerState(q)' \in Marker
      BY ShownIsMarker
    <3> QED BY <2>1, <3>1, <3>2, <3>3, PairExact
  <2>2. CASE r # p
    <3>1. r \in clients /\ r \in Player /\ <<r, q>> \notin gap /\ clients \ {p} # {}
      BY <1>1, <1>2, <2>2 DEF Register, Tracked
    <3>2. PairOK(r, q) /\ view'[r] = view[r]
      BY <1>1, <1>2, <2>2, <3>1 DEF ViewInv, PairsOK, TypeOK
    <3>3. CASE q = p
      <4>1. <<r, p>> \notin visible
        BY <1>1, <3>1, PresentOnly
      <4>2. p \in pendingEntered' /\ p \notin pendingLeft'[r]
        BY <1>1, <2>2, <3>1
      <4>3. CASE p \in pendingLeft[r]
        <5>1. <<r, p>> \in visible'
          BY <1>1, <1>2, <2>2, <3>1, <3>3, <4>3 DEF Register
        <5> QED BY <3>3, <4>2, <5>1 DEF PairOK
      <4>4. CASE p \notin pendingLeft[r]
        <5>1. view'[r][p] = None
          BY <3>2, <3>3, <4>1, <4>4 DEF PairOK
        <5> QED BY <3>3, <4>2, <5>1 DEF PairOK
      <4> QED BY <4>3, <4>4
    <3>4. CASE q # p
      <4>1. <<r, q>> \in visible' <=> <<r, q>> \in visible
        BY <1>1, <2>2, <3>4, InsertTouches
      <4>2. wpos'[q] = wpos[q] /\ (q \in pendingLeft'[r] <=> q \in pendingLeft[r])
        BY <1>1, <2>2, <3>1, <3>4 DEF TypeOK
      <4> QED BY <1>1, <3>2, <3>4, <4>1, <4>2, PairKept
    <3> QED BY <3>3, <3>4
  <2> QED BY <2>1, <2>2
<1>3. PendingOK'
  <2>1. ASSUME NEW r \in Player, NEW q \in Player, q \in pendingLeft'[r]
        PROVE  q \notin todo' /\ q \notin clients'
    <3>1. q \in pendingLeft[r] /\ r # p
      BY <1>1, <2>1
    <3>2. clients \ {p} # {}
      BY <1>1, <3>1 DEF TypeOK
    <3>3. q # p
      BY <1>1, <2>1, <3>1, <3>2
    <3> QED BY <1>1, <3>1, <3>3 DEF ViewInv, PendingOK
  <2> QED BY <1>1, <2>1 DEF ViewInv, PendingOK
<1> QED BY <1>2, <1>3 DEF ViewInv, PairsOK

LEMMA ReplaceView ==
    ASSUME IInv, IInv', IndexOK, IndexOK', ViewInv, NEW p \in Player, Replace(p)
    PROVE  ViewInv'
<1> USE DEF IInv
<1>1. /\ Selecting /\ Selecting' /\ UNCHANGED <<visible, wpos, look, moved, clients, pendingEntered, todo, stable>>
      /\ view' = [view EXCEPT ![p] = Snapshot(p, visible, wpos)]
      /\ pendingAppearances' = pendingAppearances \ {p}
      /\ pendingLeft' = [pendingLeft EXCEPT ![p] = {}]
  BY DEF Replace, castVars, worldVars, aoiVars, Selecting
<1>2. ASSUME NEW r \in clients', NEW q \in Player, r # q, <<r, q>> \notin gap'
      PROVE  PairOK(r, q)'
  <2>1. CASE r = p
    <3>1. q \notin pendingLeft'[p] /\ view'[p] = Snapshot(p, visible, wpos)
      BY <1>1 DEF TypeOK
    <3>2. view'[p][q] = IF <<p, q>> \in visible' THEN PlayerState(q)' ELSE None
      BY <1>1, <3>1 DEF PlayerState, Snapshot
    <3>3. <<p, q>> \in visible' => PlayerState(q)' \in Marker
      BY ShownIsMarker
    <3> QED BY <2>1, <3>1, <3>2, <3>3, PairExact
  <2>2. CASE r # p
    <3>1. r \in clients /\ r \in Player /\ <<r, q>> \notin gap
      BY <1>1, <1>2, <2>2 DEF Replace, Tracked
    <3>2. PairOK(r, q) /\ view'[r] = view[r] /\ pendingLeft'[r] = pendingLeft[r]
      BY <1>1, <1>2, <2>2, <3>1 DEF ViewInv, PairsOK, TypeOK
    <3>3. q \in pendingAppearances => q \in pendingAppearances'
      BY <1>1, <1>2, <2>2, <3>1 DEF Replace
    <3> QED BY <1>1, <3>2, <3>3, PairKept
  <2> QED BY <2>1, <2>2
<1>3. PendingOK'
  BY <1>1 DEF ViewInv, PendingOK, TypeOK
<1> QED BY <1>2, <1>3 DEF ViewInv, PairsOK

LEMMA DisconnectView ==
    ASSUME IInv, IInv', IndexOK, ViewInv, NEW p \in Player, Disconnect(p)
    PROVE  ViewInv'
<1> USE DEF IInv
<1>1. /\ Selecting /\ Selecting' /\ p \in clients /\ UNCHANGED <<look, todo, stable>>
      /\ clients' = clients \ {p} /\ Index!Remove(p)
      /\ wpos' = [wpos EXCEPT ![p] = None] /\ view' = [view EXCEPT ![p] = NoMarkers]
      /\ moved' = moved \ {p} /\ pendingEntered' = pendingEntered \ {p}
      /\ pendingAppearances' = pendingAppearances \ {p}
      /\ pendingLeft' = [r \in Player |->
             IF r = p THEN {}
             ELSE IF r \in delta'.left \cap clients' THEN pendingLeft[r] \cup {p}
             ELSE pendingLeft[r]]
      /\ gap' = {g \in gap : g[1] # p}
  BY DEF Disconnect, Forget, FormerNeighbors, castVars, Selecting
<1>2. ASSUME NEW r \in clients', NEW q \in Player, r # q, <<r, q>> \notin gap'
      PROVE  PairOK(r, q)'
  <2>1. r \in clients /\ r \in Player /\ r # p /\ <<r, q>> \notin gap
    BY <1>1, <1>2 DEF Tracked
  <2>2. PairOK(r, q) /\ view'[r] = view[r]
    BY <1>1, <1>2, <2>1 DEF ViewInv, PairsOK, TypeOK
  <2>3. CASE q = p
    <3>1. <<r, p>> \notin visible' /\ (r \in delta'.left <=> <<r, p>> \in visible)
      BY <1>1, <2>1, RemoveTouches
    <3>2. p \notin pendingLeft[r]
      BY <1>1, <2>1 DEF ViewInv, PendingOK
    <3>3. CASE <<r, p>> \in visible
      BY <1>1, <1>2, <2>1, <2>3, <3>1, <3>3 DEF PairOK
    <3>4. CASE <<r, p>> \notin visible
      <4>1. view'[r][p] = None
        BY <2>2, <2>3, <3>2, <3>4 DEF PairOK
      <4> QED BY <2>3, <3>1, <4>1 DEF PairOK
    <3> QED BY <3>3, <3>4
  <2>4. CASE q # p
    <3>1. <<r, q>> \in visible' <=> <<r, q>> \in visible
      BY <1>1, <2>1, <2>4, RemoveTouches
    <3>2. wpos'[q] = wpos[q] /\ (q \in pendingLeft'[r] <=> q \in pendingLeft[r])
      BY <1>1, <2>1, <2>4 DEF TypeOK
    <3> QED BY <1>1, <2>2, <2>4, <3>1, <3>2, PairKept
  <2> QED BY <2>3, <2>4
<1>3. PendingOK'
  BY <1>1 DEF ViewInv, PendingOK, Tracked
<1> QED BY <1>2, <1>3 DEF ViewInv, PairsOK

LEMMA QuietView ==
    ASSUME IInv, ViewInv, NEW p \in Player,
           ApplyAppearanceUpdate(p) \/ \E pt \in Point : Step(p, pt)
    PROVE  ViewInv'
<1>1. /\ Selecting /\ Selecting' /\ UNCHANGED <<visible, clients, pendingEntered, pendingLeft, todo, stable>>
      /\ UNCHANGED <<view, gap>>
      /\ moved \subseteq moved' /\ pendingAppearances \subseteq pendingAppearances'
  BY DEF ApplyAppearanceUpdate, Step, castVars, pendVars, clientVars, aoiVars, Selecting
<1>2. \A q \in Player : /\ look'[q] = look[q] \/ q \in pendingAppearances'
                        /\ wpos'[q] = wpos[q] \/ q \in moved'
  BY DEF ApplyAppearanceUpdate, Step, pendVars, IInv, TypeOK
<1>3. ASSUME NEW r \in clients', NEW q \in Player, r # q, <<r, q>> \notin gap'
      PROVE  PairOK(r, q)'
  <2>1. PairOK(r, q)
    BY <1>1, <1>3 DEF ViewInv, PairsOK
  <2> QED BY <1>1, <1>2, <2>1, PairKept
<1>4. PendingOK'
  BY <1>1 DEF ViewInv, PendingOK
<1> QED BY <1>3, <1>4 DEF ViewInv, PairsOK

LEMMA TickView ==
    ASSUME IInv, ViewInv, BroadcastTick
    PROVE  ViewInv'
<1>1. /\ Selecting /\ todo' = moved /\ moved' = {} /\ todo = {} /\ ~Selecting'
      /\ UNCHANGED <<visible, wpos, look, clients, pendingEntered, pendingLeft, pendingAppearances, view, gap>>
  BY DEF BroadcastTick, Movers, Selecting, aoiVars, pendVars, clientVars, IInv, Tracked
<1>2. \A q \in Player : stable[q] = {}
  BY <1>1 DEF IInv, StableOK
<1>3. ASSUME NEW r \in clients', NEW q \in Player, r # q, <<r, q>> \notin gap'
      PROVE  PairOK(r, q)'
  <2>1. PairOK(r, q)
    BY <1>1, <1>3 DEF ViewInv, PairsOK
  <2> QED BY <1>1, <1>2, <2>1, PairKept
<1>4. PendingOK'
  BY <1>1 DEF ViewInv, PendingOK, IInv, Tracked
<1> QED BY <1>3, <1>4 DEF ViewInv, PairsOK

\* The mover's own browser is not told, and so is in the gap; everyone else is
\* told by a pending entry, a pending departure or a stable neighbour's position.
LEMMA MoveView ==
    ASSUME IndexAssumption, IndexProofs!IInv, IInv, IInv', ViewInv, NEW p \in Player, ApplyMovement(p)
    PROVE  ViewInv'
<1> USE DEF IInv
<1>1. /\ ~Selecting /\ ~Selecting' /\ p \in todo /\ todo' = todo \ {p} /\ moved = {} /\ moved' = {}
      /\ UNCHANGED <<wpos, look, clients, pendingAppearances, view>>
      /\ Index!MoveDetailed(p, wpos[p]) /\ wpos[p] \in Point
      /\ pendingEntered' = IF delta'.entered \cap clients # {} THEN pendingEntered \cup {p}
                           ELSE pendingEntered
      /\ pendingLeft' = [r \in Player |-> IF r \in delta'.left \cap clients THEN pendingLeft[r] \cup {p}
                                          ELSE pendingLeft[r]]
      /\ stable' = [stable EXCEPT ![p] = delta'.stable]
      /\ gap' = gap \cup {<<p, q>> : q \in delta'.entered \cup delta'.left}
  BY DEF ApplyMovement, QueueLeft, worldVars, ViewInv, PendingOK, Selecting, Tracked
<1>2. ASSUME NEW r \in clients', NEW q \in Player, r # q, <<r, q>> \notin gap'
      PROVE  PairOK(r, q)'
  <2>1. r \in clients /\ r \in Player /\ <<r, q>> \notin gap /\ PairOK(r, q)
    BY <1>1, <1>2 DEF Tracked, ViewInv, PairsOK
  <2>2. CASE q # p
    <3>1. <<r, q>> \in visible' <=> <<r, q>> \in visible
      <4>1. CASE r # p
        BY <1>1, <2>1, <2>2, <4>1, MoveTouches
      <4>2. CASE r = p
        <5>1. q \notin delta'.entered \cup delta'.left
          BY <1>1, <1>2, <4>2
        <5> QED BY <1>1, <4>2, <5>1, MoveTouches
      <4> QED BY <4>1, <4>2
    <3>2. /\ q \in pendingLeft'[r] <=> q \in pendingLeft[r]
          /\ stable'[q] = stable[q] /\ q \in pendingEntered => q \in pendingEntered'
      BY <1>1, <2>1, <2>2 DEF TypeOK
    <3> QED BY <1>1, <2>1, <2>2, <3>1, <3>2, PairKept
  <2>3. CASE q = p
    <3>1. /\ r \in delta'.entered <=> <<r, p>> \in visible' /\ <<r, p>> \notin visible
          /\ r \in delta'.left <=> <<r, p>> \in visible /\ <<r, p>> \notin visible'
          /\ r \in delta'.stable <=> <<r, p>> \in visible /\ <<r, p>> \in visible'
      BY <1>1, <2>1, MoveTouches
    <3>2. p \notin pendingLeft[r]
      BY <1>1, <2>1 DEF ViewInv, PendingOK
    <3>3. p \in pendingLeft'[r] <=> r \in delta'.left
      BY <1>1, <2>1, <3>2
    <3>4. stable'[p] = delta'.stable
      BY <1>1 DEF TypeOK
    <3>5. CASE r \in delta'.left
      BY <2>3, <3>1, <3>3, <3>5 DEF PairOK
    <3>6. CASE r \in delta'.entered
      BY <1>1, <2>1, <2>3, <3>1, <3>3, <3>6 DEF PairOK
    <3>7. CASE r \in delta'.stable
      BY <1>1, <2>1, <2>3, <3>1, <3>2, <3>3, <3>4, <3>7 DEF PairOK
    <3>8. CASE <<r, p>> \notin visible /\ <<r, p>> \notin visible'
      BY <1>1, <2>1, <2>3, <3>1, <3>2, <3>3, <3>8 DEF PairOK
    <3> QED BY <3>1, <3>5, <3>6, <3>7, <3>8
  <2> QED BY <2>2, <2>3
<1>3. PendingOK'
  BY <1>1 DEF ViewInv, PendingOK
<1> QED BY <1>2, <1>3 DEF ViewInv, PairsOK

\* What a message says of another player q.
LEMMA MessageSays ==
    ASSUME IndexOK, NEW r \in Player, NEW q \in Player, r # q, NEW m, m = Normalize(r, Changes(r))
    PROVE  /\ q \in m.left <=> q \in pendingLeft[r]
           /\ q \in m.entered <=>
                 q \in pendingEntered /\ <<r, q>> \in visible /\ q \notin pendingLeft[r]
           /\ q \notin m.left \cup m.entered =>
                 /\ q \in m.positions <=> r \in stable[q]
                 /\ q \in m.appearances <=> q \in pendingAppearances /\ <<r, q>> \in visible
<1>1. <<q, r>> \in visible <=> <<r, q>> \in visible
  BY DEF IndexOK, IndexProofs!Symmetric
<1> QED BY <1>1 DEF Normalize, Changes

\* An update, or none, leaves every pair exact that is not in the gap.
LEMMA BuildView ==
    ASSUME IInv, IInv', IndexOK, IndexOK', ViewInv, NEW dropped \in SUBSET clients, Build(dropped)
    PROVE  ViewInv'
<1> USE DEF IInv
<1> DEFINE M(r) == Normalize(r, Changes(r))
<1>1. /\ ~Selecting /\ Selecting' /\ todo = {} /\ moved = {} /\ todo' = todo
      /\ UNCHANGED <<visible, wpos, look, moved, clients>>
      /\ \A r \in Player : pendingLeft'[r] = {}
  BY DEF Build, aoiVars, worldVars, Selecting, ViewInv, PendingOK
<1>2. ASSUME NEW r \in clients', NEW q \in Player, r # q, <<r, q>> \notin gap'
      PROVE  PairOK(r, q)'
  <2>1. r \in clients /\ r \in Player
    BY <1>1 DEF Tracked
  <2>2. PICK m : m = M(r)
    OBVIOUS
  <2>3. /\ q \in m.left <=> q \in pendingLeft[r]
        /\ q \in m.entered <=>
              q \in pendingEntered /\ <<r, q>> \in visible /\ q \notin pendingLeft[r]
        /\ q \notin m.left \cup m.entered =>
              /\ q \in m.positions <=> r \in stable[q]
              /\ q \in m.appearances <=> q \in pendingAppearances /\ <<r, q>> \in visible
    BY <1>2, <2>1, <2>2, MessageSays
  <2>4. \/ /\ view'[r] = ApplyUpdate(view[r], m) /\ r \notin dropped
        \/ /\ view'[r] = view[r] /\ q \notin Subjects(m) /\ <<r, q>> \notin gap
    <3> HIDE DEF IInv
    <3>1. CASE Subjects(m) # {} /\ r \notin dropped
      BY <2>1, <2>2, <3>1 DEF Build
    <3>2. CASE r \in dropped
      BY <1>2, <2>1, <2>2, <3>2 DEF Build
    <3>3. CASE Subjects(m) = {} /\ r \notin dropped
      <4>1. q \notin m.entered /\ q \notin m.left
        BY <3>3 DEF Subjects
      <4> QED BY <1>2, <2>1, <2>2, <3>3, <4>1 DEF Build
    <3> QED BY <3>1, <3>2, <3>3
  <2>5. <<r, q>> \in gap => \/ q \in m.entered /\ <<r, q>> \in visible
                            \/ q \in m.left /\ <<r, q>> \notin visible
    <3> HIDE DEF IInv
    <3> QED BY <1>2, <2>1, <2>2, <2>4 DEF Build
  <2>6. <<r, q>> \notin gap => PairOK(r, q)
    BY <1>2, <2>1 DEF ViewInv, PairsOK
  <2>7. view[r][q] # None => view[r][q] \in Marker
    BY <2>1 DEF TypeOK
  <2>8. <<r, q>> \in visible => PlayerState(q) \in Marker
    BY <1>1, <2>1, ShownIsMarker DEF PlayerState
  <2>9. /\ q \notin m.left \cup m.entered /\ <<r, q>> \notin visible => view[r][q] = None
        /\ q \notin m.left \cup m.entered /\ <<r, q>> \in visible =>
              /\ view[r][q] # None
              /\ q \notin m.appearances => view[r][q].look = look[q]
              /\ q \notin m.positions => view[r][q].pos = wpos[q]
        /\ q \in m.left /\ q \notin m.entered => <<r, q>> \notin visible
    BY <1>1, <2>3, <2>5, <2>6 DEF PairOK
  <2>10. view'[r][q] = IF <<r, q>> \in visible THEN PlayerState(q) ELSE None
    <3>1. CASE view'[r] = ApplyUpdate(view[r], m)
      <4>1. view'[r][q] = IF q \in m.left THEN None
                          ELSE IF q \in m.entered THEN PlayerState(q)
                          ELSE IF view[r][q] = None THEN None
                          ELSE [pos  |-> IF q \in m.positions THEN wpos[q] ELSE view[r][q].pos,
                                look |-> IF q \in m.appearances THEN look[q] ELSE view[r][q].look]
        BY <3>1 DEF ApplyUpdate
      <4> QED BY <2>3, <2>9, <4>1 DEF PlayerState
    <3>2. CASE view'[r] = view[r] /\ q \notin Subjects(m)
      <4>1. q \notin m.left \cup m.entered \cup m.positions \cup m.appearances
        BY <3>2 DEF Subjects
      <4>2. \A x \in Marker : x = [pos |-> x.pos, look |-> x.look]
        BY DEF Marker
      <4> QED BY <2>7, <2>9, <3>2, <4>1, <4>2 DEF PlayerState
    <3> QED BY <2>4, <3>1, <3>2
  <2>11. PlayerState(q)' = PlayerState(q)
    BY <1>1 DEF PlayerState
  <2> QED BY <1>1, <2>1, <2>8, <2>10, <2>11, PairExact
<1>3. PendingOK'
  BY <1>1 DEF ViewInv, PendingOK
<1> QED BY <1>2, <1>3 DEF ViewInv, PairsOK

LEMMA StepView ==
    ASSUME IndexAssumption, IndexProofs!IInv, IInv, IInv', IndexOK, IndexOK', ViewInv, [Next]_vars
    PROVE  ViewInv'
<1>1. CASE UNCHANGED vars
  BY <1>1 DEF vars, aoiVars, worldVars, castVars, pendVars, clientVars, ViewInv, PairsOK,
     PairOK, PendingOK, Selecting
<1>2. ASSUME NEW dropped \in SUBSET clients, Build(dropped) PROVE ViewInv'
  BY <1>2, BuildView
<1> QED BY <1>1, <1>2, RegisterView, ReplaceView, DisconnectView, QuietView, TickView, MoveView
        DEF Next, Operate

\* When nothing about a player is pending, every browser shows it exactly if the
\* index relates the two, where it stands and as it looks, for every number of
\* players and every order of registrations, replacements, departures, moves and
\* broadcasts; the gap names the pairs of which the code tells nobody.
THEOREM ViewsExact == Spec => []ViewExact
<1>1. Spec => [](IInv /\ IndexOK /\ IndexProofs!IInv)
  <2>1. IInv /\ IndexOK /\ IndexOK' /\ [Next]_vars => IInv'
    BY StepTyped, IndexAssumption
  <2>2. Spec => []IndexOK
    BY IndexInHub, PTL
  <2>3. Spec => []IInv
    BY <2>1, <2>2, InitTyped, PTL DEF Spec
  <2>4. Index!Init => IndexProofs!Init
    BY SameInit
  <2>5. [Index!Next]_(Index!vars) => [IndexProofs!Next]_(IndexProofs!vars)
    BY SameNext DEF Index!vars, IndexProofs!vars
  <2>6. Spec => IndexProofs!Spec
    BY <2>4, <2>5, IndexImplemented, PTL DEF Index!Spec, IndexProofs!Spec
  <2>7. IndexProofs!Spec => []IndexProofs!IInv
    BY IndexAssumption, IndexProofs!Invariance
  <2> QED BY <2>2, <2>3, <2>6, <2>7, PTL
<1>2. Init => ViewInv
  BY DEF Init, ViewInv, PairsOK, PendingOK, Selecting
<1>3. (IInv /\ IndexOK /\ IndexProofs!IInv) /\ (IInv /\ IndexOK /\ IndexProofs!IInv)'
          /\ ViewInv /\ [Next]_vars => ViewInv'
  BY StepView, IndexAssumption
<1>4. (IInv /\ IndexOK /\ IndexProofs!IInv) /\ ViewInv => ViewExact
  <2> SUFFICES ASSUME IInv, ViewInv, NEW r \in Player, NEW q \in Player,
                      r # q, Settled(r, q), <<r, q>> \notin gap
               PROVE  view[r][q] = IF <<r, q>> \in visible THEN PlayerState(q) ELSE None
    BY DEF ViewExact
  <2>1. PairOK(r, q) /\ Selecting /\ todo = {} /\ stable[q] = {}
    BY DEF ViewInv, PairsOK, Settled, IInv, Tracked, StableOK
  <2>2. view[r][q] \in Marker \cup {None}
    BY DEF IInv, TypeOK
  <2>3. \A x \in Marker : x = [pos |-> x.pos, look |-> x.look]
    BY DEF Marker
  <2> QED BY <2>1, <2>2, <2>3 DEF PairOK, Settled, PlayerState
<1> QED BY <1>1, <1>2, <1>3, <1>4, PTL DEF Spec
=============================================================================
