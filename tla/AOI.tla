--------------------------------- MODULE AOI ---------------------------------
(***************************************************************************)
(* The area-of-interest index of internal/game/aoi.go: which online        *)
(* players can see each other.  A pair becomes visible within EnterRadius, *)
(* stays visible up to LeaveRadius, and a move of less than RescanDistance *)
(* since the mover's last scan, inside one cell, skips the search for new  *)
(* neighbours.  Coordinates are local metres (LatLngToLocal), as integers. *)
(***************************************************************************)
EXTENDS Integers, FiniteSets

CONSTANTS Player,          \* player IDs
          Point,           \* local positions <<x, y>> a player may stand on
          CellSize, EnterRadius, LeaveRadius, RescanDistance,
          None             \* "not in the index"

ASSUME PointAssumption == Point \subseteq Int \X Int /\ None \notin Point
\* The relations between the four lengths of AOIConfigFromWorld (600, 500,
\* 600, 50) that the index depends on.
ASSUME RadiusAssumption ==
    /\ CellSize \in Nat /\ EnterRadius \in Nat
    /\ LeaveRadius \in Nat /\ RescanDistance \in Nat
    /\ CellSize > 0 /\ RescanDistance > 0
    /\ EnterRadius <= CellSize
    /\ EnterRadius + RescanDistance <= LeaveRadius
    /\ 3 * RescanDistance <= EnterRadius

VARIABLES pos,       \* players[id].localX/localY, None when absent
          marker,    \* lastEnterScanX/Y, None when !hasEnterScanMarker
          cells,     \* the cell index, as a set of <<cell, player>>
          visible,   \* the visibility map, as a set of ordered pairs
          delta      \* what the last call returned
vars == <<pos, marker, cells, visible, delta>>

players == {p \in Player : pos[p] # None}

---------------------------------------------------------------------------
(* Geometry *)

CellOf(pt) == <<pt[1] \div CellSize, pt[2] \div CellSize>>

SqDist(a, b) == (a[1] - b[1]) * (a[1] - b[1]) + (a[2] - b[2]) * (a[2] - b[2])

WithinEnter(a, b) == SqDist(a, b) <= EnterRadius * EnterRadius
BeyondLeave(a, b) == SqDist(a, b) > LeaveRadius * LeaveRadius

\* The nine cells around a cell.
NineCells(c) == {<<c[1] + dx, c[2] + dy>> : dx \in -1..1, dy \in -1..1}

---------------------------------------------------------------------------
(* The visibility relation and the cell index *)

Neighbors(vis, p) == {q \in Player : <<p, q>> \in vis}

AddRelationships(vis, p, Q) ==
    vis \cup {<<p, q>> : q \in Q} \cup {<<q, p>> : q \in Q}

\* Mutant: the neighbour's map entry is forgotten.
RemoveOneWay(vis, p, Q) == vis \ {<<p, q>> : q \in Q}

\* removeRelationship does nothing when the pair is not visible from its
\* first argument; both directions go otherwise.
RemoveRelationships(vis, p, Q) ==
    LET gone == {q \in Q : <<p, q>> \in vis}
    IN  vis \ ({<<p, q>> : q \in gone} \cup {<<q, p>> : q \in gone})

\* Membership after p, in oldCell, is moved to newCell.
Reindex(cs, p, oldCell, newCell) ==
    IF oldCell = newCell THEN cs
    ELSE (cs \ {<<oldCell, p>>}) \cup {<<newCell, p>>}

---------------------------------------------------------------------------
(* The two halves of a recalculation; at, cs and vis are the positions, the *)
(* cell index and the relation they run on.                                 *)

\* Mutant: candidates that are already visible are not skipped.
EnterScanRepeats(at, cs, vis, p) ==
    {q \in Player : /\ \E c \in NineCells(CellOf(at[p])) : <<c, q>> \in cs
                    /\ q # p
                    /\ WithinEnter(at[p], at[q])}

EnterScan(at, cs, vis, p) ==
    {q \in Player : /\ \E c \in NineCells(CellOf(at[p])) : <<c, q>> \in cs
                    /\ q # p
                    /\ <<p, q>> \notin vis
                    /\ WithinEnter(at[p], at[q])}

\* Mutants: a neighbour is let go only when it leaves the nine cells; the
\* enter radius is used for leaving too.
LeaveCheckByCell(at, vis, p) ==
    {q \in Neighbors(vis, p) : CellOf(at[q]) \notin NineCells(CellOf(at[p]))}
LeaveCheckNoBand(at, vis, p) ==
    {q \in Neighbors(vis, p) : ~WithinEnter(at[p], at[q])}

LeaveCheck(at, vis, p) ==
    {q \in Neighbors(vis, p) : at[q] # None /\ BeyondLeave(at[p], at[q])}

\* Mutant: only a change of cell forces a scan.
ForceByCell(mark, here) == mark = None \/ CellOf(here) # CellOf(mark)

ShouldForceEnterScan(mark, here) ==
    \/ mark = None
    \/ CellOf(here) # CellOf(mark)
    \/ SqDist(here, mark) >= RescanDistance * RescanDistance

\* markEnterScan: the marker left by a move to here that scanned or not.
MarkEnterScan(mark, here, scanned) == IF scanned THEN here ELSE mark

\* Mutant: the neighbours that stayed are not reported.
DeltaNoStable(p, entered, left, stable) ==
    [player |-> p, entered |-> entered, left |-> left, stable |-> {}]

\* Stable is filled in by MoveDetailed only.
Delta(p, entered, left, stable) ==
    [player |-> p, entered |-> entered, left |-> left, stable |-> stable]

\* Mutant: the marker is not set.
RecalculateNoMark(at, cs, p) ==
    LET entered == EnterScan(at, cs, visible, p)
    IN  /\ visible' = AddRelationships(visible, p, entered)
        /\ delta'   = Delta(p, entered, {}, {})
        /\ UNCHANGED marker

\* recalculateRelationships: enter scan, mark, then leave check.
Recalculate(at, cs, p) ==
    LET entered == EnterScan(at, cs, visible, p)
        with    == AddRelationships(visible, p, entered)
        left    == LeaveCheck(at, with, p)
    IN  /\ marker'  = [marker EXCEPT ![p] = at[p]]
        /\ visible' = RemoveRelationships(with, p, left)
        /\ delta'   = Delta(p, entered, left, {})

---------------------------------------------------------------------------
(* Operations *)

Insert(p, pt) ==
    /\ pos[p] = None
    /\ pos'   = [pos EXCEPT ![p] = pt]
    /\ cells' = cells \cup {<<CellOf(pt), p>>}
    /\ Recalculate(pos', cells', p)

\* MoveDetailed: leave check, then the enter scan if it is forced.
MoveDetailed(p, pt) ==
    LET at      == [pos EXCEPT ![p] = pt]
        cs      == Reindex(cells, p, CellOf(pos[p]), CellOf(pt))
        left    == LeaveCheck(at, visible, p)
        kept    == RemoveRelationships(visible, p, left)
        forced  == ShouldForceEnterScan(marker[p], pt)
        entered == IF forced THEN EnterScan(at, cs, kept, p) ELSE {}
    IN  /\ pos[p] # None
        /\ pos'     = at
        /\ cells'   = cs
        /\ marker'  = [marker EXCEPT ![p] = MarkEnterScan(@, pt, forced)]
        /\ visible' = AddRelationships(kept, p, entered)
        /\ delta'   = Delta(p, entered, left, Neighbors(visible, p) \ left)

RecalculateRelationships(p) ==
    /\ pos[p] # None
    /\ Recalculate(pos, cells, p)
    /\ UNCHANGED <<pos, cells>>

\* Remove: removeRelationship(neighbour, p) for every neighbour of p, then
\* p's own entries.
Remove(p) ==
    LET left == Neighbors(visible, p)
        mutual == {q \in left : <<q, p>> \in visible}
    IN  /\ pos[p] # None
        /\ visible' = {e \in visible : /\ e[1] # p
                                       /\ ~(e[2] = p /\ e[1] \in mutual)}
        /\ cells'  = cells \ {<<CellOf(pos[p]), p>>}
        /\ pos'    = [pos EXCEPT ![p] = None]
        /\ marker' = [marker EXCEPT ![p] = None]
        /\ delta'  = Delta(p, {}, left, {})

Init ==
    /\ pos = [p \in Player |-> None]
    /\ marker = [p \in Player |-> None]
    /\ cells = {} /\ visible = {}
    /\ delta = Delta(None, {}, {}, {})

Next ==
    \E p \in Player :
        \/ \E pt \in Point : Insert(p, pt) \/ MoveDetailed(p, pt)
        \/ RecalculateRelationships(p)
        \/ Remove(p)

Spec == Init /\ [][Next]_vars

---------------------------------------------------------------------------
(* Properties *)

\* Types of the state; a marker exists exactly for an indexed player.
TypeOK ==
    /\ pos \in [Player -> Point \cup {None}]
    /\ marker \in [Player -> Point \cup {None}]
    /\ \A p \in Player : pos[p] = None <=> marker[p] = None
    /\ visible \subseteq Player \X Player
    /\ delta \in [player : Player \cup {None}, entered : SUBSET Player,
                  left : SUBSET Player, stable : SUBSET Player]

\* The relation is symmetric, never relates a player to itself, and names no
\* player that has left the index, whatever mix of scans, skipped scans and
\* removals led here (ensureVisibleSet and the deletions keep two maps in step).
Symmetric ==
    \A p, q \in Player :
        <<p, q>> \in visible => <<q, p>> \in visible /\ p # q /\ pos[p] # None

\* The cell index lists every player once, in the cell of its position, so a
\* nine-cell query never misses a player (setPosition, addToCell, removeFromCell).
CellsExact == cells = {<<CellOf(pos[p]), p>> : p \in players}

\* Leaving is exact: no visible pair is farther apart than LeaveRadius, even
\* when the last moves skipped the enter scan.
VisibleWithinLeave ==
    \A p, q \in players :
        <<p, q>> \in visible => ~BeyondLeave(pos[p], pos[q])

\* The price of skipped scans: both players of an invisible pair may have
\* drifted from their markers, but never so far that a pair closer than
\* EnterRadius - 3 * RescanDistance (350 m of 500 m) stays invisible.
SureRadius == EnterRadius - 3 * RescanDistance
NoNearbyStranger ==
    \A p, q \in players :
        p # q /\ <<p, q>> \notin visible
            => SqDist(pos[p], pos[q]) > SureRadius * SureRadius

\* What a call returns is exactly how its player's neighbourhood changed, and
\* nobody else's relation changed: the hub builds every entered, left and
\* position message from these sets alone.  Whoever stayed a neighbour of a
\* player that moved is in stable, or would not hear of the move.
DeltaExact ==
    [][LET p     == delta'.player
           old   == Neighbors(visible, p)
           new   == Neighbors(visible', p)
           moved == pos[p] # None /\ pos'[p] \notin {None, pos[p]}
       IN  /\ delta'.entered = new \ old
           /\ delta'.left = old \ new
           /\ delta'.stable \in {{}, old \cap new}
           /\ moved => delta'.stable = old \cap new
           /\ \A q, r \in Player \ {p} :
                 <<q, r>> \in visible' <=> <<q, r>> \in visible]_vars

\* Hysteresis, step by step: a pair that was visible and is still indexed and
\* within LeaveRadius stays visible, and a pair becomes visible only within
\* EnterRadius.
Hysteresis ==
    [][\A p, q \in Player :
          pos'[p] # None /\ pos'[q] # None =>
             /\ <<p, q>> \in visible /\ ~BeyondLeave(pos'[p], pos'[q])
                    => <<p, q>> \in visible'
             /\ <<p, q>> \in visible' \ visible
                    => WithinEnter(pos'[p], pos'[q])]_vars
==============================================================================
