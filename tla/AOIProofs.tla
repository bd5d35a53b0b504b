------------------------------ MODULE AOIProofs ------------------------------
(* Proofs about the area-of-interest index for every set of players, every   *)
(* set of points of the plane and every choice of the four lengths that      *)
(* RadiusAssumption admits.                                                  *)
EXTENDS AOI, TLAPS

(* Geometry *)

\* For integers, a square below a square bounds the absolute value.
LEMMA SquareBound ==
    ASSUME NEW a \in Int, NEW b \in Nat, a * a <= b * b
    PROVE  a <= b /\ -b <= a
<1>1. CASE a > b
  <2>1. a * a > b * b  BY <1>1, SMT
  <2> QED BY <2>1
<1>2. CASE a < -b
  <2>1. (-a) * (-a) > b * b  BY <1>2, SMT
  <2> QED BY <2>1, SMT
<1> QED BY <1>1, <1>2

\* Cauchy-Schwarz for two vectors of the plane with lengths at most a and b.
LEMMA InnerProductBound ==
    ASSUME NEW x1 \in Int, NEW y1 \in Int, NEW x2 \in Int, NEW y2 \in Int,
           NEW a \in Nat, NEW b \in Nat,
           x1 * x1 + y1 * y1 <= a * a, x2 * x2 + y2 * y2 <= b * b
    PROVE  x1 * x2 + y1 * y2 <= a * b
<1> DEFINE c == x1 * x2 + y1 * y2
           d == x1 * y2 - x2 * y1
           m == x1 * x1 + y1 * y1
           n == x2 * x2 + y2 * y2
<1>1. c * c + d * d = m * n  BY SMT
<1>2. d * d >= 0 /\ m >= 0 /\ n >= 0  BY SMT
<1>3. m * n <= (a * a) * (b * b)
  <2>1. m * n <= (a * a) * n  BY <1>2, SMT
  <2>2. (a * a) * n <= (a * a) * (b * b)  BY <1>2, SMT
  <2> QED BY <2>1, <2>2, SMT
<1>4. c * c <= (a * b) * (a * b)  BY <1>1, <1>2, <1>3, SMT
<1>5. c \in Int /\ a * b \in Nat  BY SMT
<1> QED BY <1>4, <1>5, SquareBound

\* The triangle inequality in the form the index uses: two hops of length at
\* most a and b are one of length at most a + b.
LEMMA Triangle ==
    ASSUME NEW u \in Point, NEW v \in Point, NEW w \in Point,
           NEW a \in Nat, NEW b \in Nat,
           SqDist(u, v) <= a * a, SqDist(v, w) <= b * b
    PROVE  SqDist(u, w) <= (a + b) * (a + b)
<1> DEFINE x1 == u[1] - v[1]  y1 == u[2] - v[2]
           x2 == v[1] - w[1]  y2 == v[2] - w[2]
<1>1. /\ u[1] \in Int /\ u[2] \in Int
      /\ v[1] \in Int /\ v[2] \in Int
      /\ w[1] \in Int /\ w[2] \in Int
  BY PointAssumption
<1>2. x1 \in Int /\ y1 \in Int /\ x2 \in Int /\ y2 \in Int  BY <1>1
<1>3. x1 * x1 + y1 * y1 <= a * a /\ x2 * x2 + y2 * y2 <= b * b
  BY DEF SqDist
<1>4. x1 * x2 + y1 * y2 <= a * b  BY <1>2, <1>3, InnerProductBound
<1>5. u[1] - w[1] = x1 + x2 /\ u[2] - w[2] = y1 + y2  BY <1>1
<1> HIDE DEF x1, y1, x2, y2
<1>6. SqDist(u, w) = (x1 + x2) * (x1 + x2) + (y1 + y2) * (y1 + y2)
  BY <1>5 DEF SqDist
<1>7. (x1 + x2) * (x1 + x2) + (y1 + y2) * (y1 + y2)
        = (x1 * x1 + y1 * y1) + (x2 * x2 + y2 * y2) + 2 * (x1 * x2 + y1 * y2)
  BY <1>2, SMT
<1>8. (a + b) * (a + b) = a * a + b * b + 2 * (a * b)  BY SMT
<1> QED BY <1>2, <1>3, <1>4, <1>6, <1>7, <1>8, SMT

\* Distance is symmetric.
LEMMA SqDistSym ==
    ASSUME NEW u \in Point, NEW v \in Point
    PROVE  SqDist(u, v) = SqDist(v, u) /\ SqDist(u, v) \in Nat
                                      /\ SqDist(u, u) = 0
<1>1. u[1] \in Int /\ u[2] \in Int /\ v[1] \in Int /\ v[2] \in Int
  BY PointAssumption
<1>2. ASSUME NEW i \in Int, NEW j \in Int
      PROVE  (i - j) * (i - j) = (j - i) * (j - i) /\ (i - j) * (i - j) \in Nat
  BY <1>2, SMT
<1>3. /\ (u[1] - v[1]) * (u[1] - v[1]) = (v[1] - u[1]) * (v[1] - u[1])
      /\ (u[1] - v[1]) * (u[1] - v[1]) \in Nat
      /\ (u[2] - v[2]) * (u[2] - v[2]) = (v[2] - u[2]) * (v[2] - u[2])
      /\ (u[2] - v[2]) * (u[2] - v[2]) \in Nat
  BY <1>1, <1>2
<1> QED BY <1>1, <1>3 DEF SqDist

\* Numbers at most CellSize apart fall in the same or in adjacent cells.
LEMMA AdjacentDiv ==
    ASSUME NEW i \in Int, NEW j \in Int, NEW c \in Nat, c > 0,
           j - i <= c, i - j <= c
    PROVE  (j \div c) - (i \div c) \in -1..1
<1> DEFINE k == i \div c  l == j \div c
<1>1. /\ k \in Int /\ l \in Int
      /\ c * k <= i /\ i < c * k + c /\ c * l <= j /\ j < c * l + c
  BY SMT
<1> HIDE DEF k, l
<1>2. l - k < 2
  <2> SUFFICES ASSUME l >= k + 2 PROVE FALSE  BY <1>1
  <2>1. c * l >= c * (k + 2)  BY <1>1, SMT
  <2>2. c * (k + 2) = c * k + c + c  BY <1>1, SMT
  <2> QED BY <1>1, <2>1, <2>2, SMT
<1>3. k - l < 2
  <2> SUFFICES ASSUME k >= l + 2 PROVE FALSE  BY <1>1
  <2>1. c * k >= c * (l + 2)  BY <1>1, SMT
  <2>2. c * (l + 2) = c * l + c + c  BY <1>1, SMT
  <2> QED BY <1>1, <2>1, <2>2, SMT
<1>4. l - k \in -1..1  BY <1>1, <1>2, <1>3
<1> QED BY <1>4 DEF k, l

\* A nine-cell query around a point covers everything within EnterRadius,
\* because a cell is at least that wide.
LEMMA NineCellCoverage ==
    ASSUME NEW u \in Point, NEW v \in Point, WithinEnter(u, v)
    PROVE  CellOf(v) \in NineCells(CellOf(u))
<1> DEFINE x == u[1] - v[1]  y == u[2] - v[2]
<1>1. u[1] \in Int /\ u[2] \in Int /\ v[1] \in Int /\ v[2] \in Int
  BY PointAssumption
<1>2. x \in Int /\ y \in Int  BY <1>1
<1>3. x * x + y * y <= EnterRadius * EnterRadius  BY DEF WithinEnter, SqDist
<1> HIDE DEF x, y
<1>4. x * x >= 0 /\ y * y >= 0  BY <1>2, SMT
<1>5. x * x \in Int /\ y * y \in Int /\ EnterRadius * EnterRadius \in Int
  BY <1>2, RadiusAssumption
<1>6. x * x <= EnterRadius * EnterRadius /\ y * y <= EnterRadius * EnterRadius
  BY <1>3, <1>4, <1>5
<1>7. /\ x <= EnterRadius /\ -EnterRadius <= x
      /\ y <= EnterRadius /\ -EnterRadius <= y
  BY <1>2, <1>6, SquareBound, RadiusAssumption
<1>8. /\ v[1] - u[1] <= CellSize /\ u[1] - v[1] <= CellSize
      /\ v[2] - u[2] <= CellSize /\ u[2] - v[2] <= CellSize
  BY <1>1, <1>7, RadiusAssumption DEF x, y
<1> DEFINE a == u[1] \div CellSize  b == u[2] \div CellSize
           e == v[1] \div CellSize  f == v[2] \div CellSize
<1>9. e - a \in -1..1 /\ f - b \in -1..1
  BY <1>1, <1>8, AdjacentDiv, RadiusAssumption
<1>10. a \in Int /\ b \in Int /\ e \in Int /\ f \in Int
  BY <1>1, RadiusAssumption, SMT
<1>11. CellOf(u) = <<a, b>> /\ CellOf(v) = <<e, f>>  BY DEF CellOf
<1> HIDE DEF a, b, e, f
<1>12. e = a + (e - a) /\ f = b + (f - b)  BY <1>10
<1> QED BY <1>9, <1>11, <1>12 DEF NineCells

---------------------------------------------------------------------------
(* The inductive invariant *)

\* No player is farther from its marker than RescanDistance.
Drift == \A p \in players : SqDist(pos[p], marker[p]) <= RescanDistance * RescanDistance

\* The markers of an invisible pair are more than EnterRadius - RescanDistance
\* apart: the later scan of the two saw the other player, who was at most
\* RescanDistance from its own marker, outside EnterRadius.  Unlike the
\* distance of the players, this survives a skipped scan.
MarkersApart ==
    \A p, q \in players :
        p # q /\ <<p, q>> \notin visible
            => SqDist(marker[p], marker[q])
                 > (EnterRadius - RescanDistance) * (EnterRadius - RescanDistance)

IInv == /\ TypeOK /\ Symmetric /\ CellsExact
        /\ VisibleWithinLeave /\ Drift /\ MarkersApart

---------------------------------------------------------------------------
(* What a recalculation does, whatever the order of its two halves *)

\* The relation vis that recalculating p at the positions at may leave behind.
Outcome(at, vis, p, scanned) ==
    /\ vis \subseteq Player \X Player
    /\ \A a, b \in Player :
          a # p /\ b # p => (<<a, b>> \in vis <=> <<a, b>> \in visible)
    /\ \A q \in Player : <<p, q>> \in vis <=> <<q, p>> \in vis
    /\ \A q \in Player :
          <<p, q>> \in vis => q # p /\ at[q] # None /\ ~BeyondLeave(at[p], at[q])
    /\ \A q \in Player :
          <<p, q>> \in visible /\ ~BeyondLeave(at[p], at[q]) => <<p, q>> \in vis
    /\ \A q \in Player :
          <<p, q>> \in vis /\ <<p, q>> \notin visible => WithinEnter(at[p], at[q])
    /\ scanned => \A q \in Player :
          q # p /\ at[q] # None /\ WithinEnter(at[p], at[q]) => <<p, q>> \in vis

\* The positions and the cell index while p stands at a point.
Placed(at, cs, p) ==
    /\ at \in [Player -> Point \cup {None}]
    /\ at[p] \in Point
    /\ \A q \in Player : q # p => at[q] = pos[q]
    /\ cs = {<<CellOf(at[q]), q>> : q \in {r \in Player : at[r] # None}}

\* EnterRadius does not exceed LeaveRadius, so nobody enters and leaves at once.
LEMMA EnterNotBeyond ==
    ASSUME NEW u, NEW v, SqDist(u, v) \in Int, WithinEnter(u, v)
    PROVE  ~BeyondLeave(u, v)
<1>1. EnterRadius * EnterRadius <= LeaveRadius * LeaveRadius
  BY RadiusAssumption, SMT
<1>2. EnterRadius * EnterRadius \in Int /\ LeaveRadius * LeaveRadius \in Int
  BY RadiusAssumption
<1> QED BY <1>1, <1>2 DEF WithinEnter, BeyondLeave

\* Removing p's relationships to Q removes these pairs, in both directions.
LEMMA RemoveExact ==
    ASSUME NEW p \in Player, NEW V \in SUBSET (Player \X Player),
           NEW Q \in SUBSET Player, \A q \in Q : <<p, q>> \in V
    PROVE  /\ RemoveRelationships(V, p, Q) \subseteq Player \X Player
           /\ \A a, b \in Player : <<a, b>> \in RemoveRelationships(V, p, Q) <=>
                  <<a, b>> \in V /\ ~(a = p /\ b \in Q) /\ ~(b = p /\ a \in Q)
<1>1. {q \in Q : <<p, q>> \in V} = Q  OBVIOUS
<1>2. RemoveRelationships(V, p, Q) = V \ ({<<p, q>> : q \in Q} \cup {<<q, p>> : q \in Q})
  BY <1>1 DEF RemoveRelationships
<1> QED BY <1>2

\* An enter scan finds exactly the players within EnterRadius it did not know.
LEMMA EnterScanExact ==
    ASSUME NEW p \in Player, NEW at, NEW cs, NEW vis, Placed(at, cs, p)
    PROVE  \A q \in Player :
              q \in EnterScan(at, cs, vis, p) <=>
                 q # p /\ at[q] # None /\ <<p, q>> \notin vis
                 /\ WithinEnter(at[p], at[q])
<1> SUFFICES ASSUME NEW q \in Player
             PROVE  q \in EnterScan(at, cs, vis, p) <=>
                       q # p /\ at[q] # None /\ <<p, q>> \notin vis
                       /\ WithinEnter(at[p], at[q])
  OBVIOUS
<1>1. \A c : <<c, q>> \in cs <=> at[q] # None /\ c = CellOf(at[q])
  BY DEF Placed
<1>2. ASSUME at[q] # None, WithinEnter(at[p], at[q])
      PROVE  CellOf(at[q]) \in NineCells(CellOf(at[p]))
  <2>1. at[q] \in Point /\ at[p] \in Point  BY <1>2 DEF Placed
  <2> QED BY <1>2, <2>1, NineCellCoverage
<1> HIDE DEF CellOf, NineCells
<1> QED BY <1>1, <1>2 DEF EnterScan

\* Both orders of the two halves leave an Outcome.
LEMMA MoveOutcome ==
    ASSUME NEW p \in Player, NEW at, NEW cs, Placed(at, cs, p),
           IInv, NEW scanned \in BOOLEAN
    PROVE  LET left    == LeaveCheck(at, visible, p)
               kept    == RemoveRelationships(visible, p, left)
               entered == IF scanned THEN EnterScan(at, cs, kept, p) ELSE {}
           IN  /\ Outcome(at, AddRelationships(kept, p, entered), p, scanned)
               /\ entered = {q \in Player : <<p, q>> \in AddRelationships(kept, p, entered)
                                            /\ <<p, q>> \notin visible}
               /\ left = {q \in Player : <<p, q>> \in visible
                              /\ <<p, q>> \notin AddRelationships(kept, p, entered)}
<1> DEFINE left    == LeaveCheck(at, visible, p)
           kept    == RemoveRelationships(visible, p, left)
           entered == IF scanned THEN EnterScan(at, cs, kept, p) ELSE {}
           vis     == AddRelationships(kept, p, entered)
<1>1. /\ visible \subseteq Player \X Player
      /\ \A a, b \in Player : <<a, b>> \in visible =>
             <<b, a>> \in visible /\ a # b /\ pos[a] # None
  BY DEF IInv, TypeOK, Symmetric
<1>2. \A q \in Player : <<p, q>> \in visible => at[q] # None /\ q # p
  BY <1>1 DEF Placed
<1>3. \A q \in Player : q \in left <=>
          <<p, q>> \in visible /\ BeyondLeave(at[p], at[q])
  BY <1>2 DEF LeaveCheck, Neighbors
<1>4. left \subseteq Player  BY DEF LeaveCheck, Neighbors
<1>5. entered \subseteq Player  BY DEF EnterScan
<1>6. /\ kept \subseteq Player \X Player
      /\ \A a, b \in Player : <<a, b>> \in kept <=>
             <<a, b>> \in visible /\ ~(a = p /\ b \in left) /\ ~(b = p /\ a \in left)
  BY <1>1, <1>3, <1>4 DEF RemoveRelationships
<1>7. \A q \in Player : q \in entered <=>
          scanned /\ q # p /\ at[q] # None /\ <<p, q>> \notin kept
          /\ WithinEnter(at[p], at[q])
  BY EnterScanExact
<1>8. /\ vis \subseteq Player \X Player
      /\ \A a, b \in Player : <<a, b>> \in vis <=>
             <<a, b>> \in kept \/ (a = p /\ b \in entered) \/ (b = p /\ a \in entered)
  BY <1>5, <1>6 DEF AddRelationships
<1>9. \A q \in Player : at[q] # None /\ WithinEnter(at[p], at[q])
                           => ~BeyondLeave(at[p], at[q])
  BY EnterNotBeyond, SqDistSym DEF Placed
<1> HIDE DEF left, kept, entered, vis
<1>10. \A q \in Player : <<p, q>> \in vis <=>
          \/ <<p, q>> \in visible /\ ~BeyondLeave(at[p], at[q])
          \/ q \in entered
  BY <1>2, <1>3, <1>6, <1>7, <1>8
<1>11. \A q \in entered : <<p, q>> \notin visible
  BY <1>2, <1>3, <1>5, <1>6, <1>7, <1>9
<1>12. Outcome(at, vis, p, scanned)
  <2>1. \A a, b \in Player :
          a # p /\ b # p => (<<a, b>> \in vis <=> <<a, b>> \in visible)
    BY <1>6, <1>8
  <2>2. \A q \in Player : <<p, q>> \in vis <=> <<q, p>> \in vis
    BY <1>1, <1>2, <1>3, <1>6, <1>7, <1>8
  <2>3. \A q \in Player :
          <<p, q>> \in vis => q # p /\ at[q] # None /\ ~BeyondLeave(at[p], at[q])
    BY <1>2, <1>7, <1>9, <1>10
  <2>4. scanned => \A q \in Player :
          q # p /\ at[q] # None /\ WithinEnter(at[p], at[q]) => <<p, q>> \in vis
    BY <1>7, <1>8
  <2> QED BY <1>7, <1>8, <1>10, <2>1, <2>2, <2>3, <2>4 DEF Outcome
<1>13. entered = {q \in Player : <<p, q>> \in vis /\ <<p, q>> \notin visible}
  BY <1>5, <1>10, <1>11
<1>14. left = {q \in Player : <<p, q>> \in visible /\ <<p, q>> \notin vis}
  BY <1>3, <1>4, <1>10, <1>11
<1> QED BY <1>12, <1>13, <1>14 DEF left, kept, entered, vis

LEMMA RecalculateOutcome ==
    ASSUME NEW p \in Player, NEW at, NEW cs, Placed(at, cs, p), IInv
    PROVE  LET entered == EnterScan(at, cs, visible, p)
               with    == AddRelationships(visible, p, entered)
               left    == LeaveCheck(at, with, p)
               vis     == RemoveRelationships(with, p, left)
           IN  /\ Outcome(at, vis, p, TRUE)
               /\ entered = {q \in Player : <<p, q>> \in vis /\ <<p, q>> \notin visible}
               /\ left = {q \in Player : <<p, q>> \in visible /\ <<p, q>> \notin vis}
<1> DEFINE entered == EnterScan(at, cs, visible, p)
           with    == AddRelationships(visible, p, entered)
           left    == LeaveCheck(at, with, p)
           vis     == RemoveRelationships(with, p, left)
<1>1. /\ visible \subseteq Player \X Player
      /\ \A a, b \in Player : <<a, b>> \in visible =>
             <<b, a>> \in visible /\ a # b /\ pos[a] # None
  BY DEF IInv, TypeOK, Symmetric
<1>2. \A q \in Player : <<p, q>> \in visible => at[q] # None /\ q # p
  BY <1>1 DEF Placed
<1>3. \A q \in Player : q \in entered <=>
          q # p /\ at[q] # None /\ <<p, q>> \notin visible
          /\ WithinEnter(at[p], at[q])
  BY EnterScanExact
<1>4. entered \subseteq Player  BY DEF EnterScan
<1>5. /\ with \subseteq Player \X Player
      /\ \A a, b \in Player : <<a, b>> \in with <=>
             <<a, b>> \in visible \/ (a = p /\ b \in entered) \/ (b = p /\ a \in entered)
  BY <1>1, <1>4 DEF AddRelationships
<1>6. \A q \in Player : at[q] # None /\ WithinEnter(at[p], at[q])
                           => ~BeyondLeave(at[p], at[q])
  BY EnterNotBeyond, SqDistSym DEF Placed
<1>7. left \subseteq Player /\ \A q \in left : <<p, q>> \in with
  BY DEF LeaveCheck, Neighbors
<1> HIDE DEF entered, with
<1>8. \A q \in Player : q \in left <=>
          <<p, q>> \in visible /\ BeyondLeave(at[p], at[q])
  BY <1>2, <1>3, <1>5, <1>6 DEF LeaveCheck, Neighbors
<1> HIDE DEF left
<1>9. /\ vis \subseteq Player \X Player
      /\ \A a, b \in Player : <<a, b>> \in vis <=>
             <<a, b>> \in with /\ ~(a = p /\ b \in left) /\ ~(b = p /\ a \in left)
  BY <1>5, <1>7, RemoveExact
<1> HIDE DEF vis
<1>10. \A q \in Player : <<p, q>> \in vis <=>
          \/ <<p, q>> \in visible /\ ~BeyondLeave(at[p], at[q])
          \/ q \in entered
  BY <1>2, <1>3, <1>5, <1>6, <1>8, <1>9
<1>11. Outcome(at, vis, p, TRUE)
  <2>1. \A a, b \in Player :
          a # p /\ b # p => (<<a, b>> \in vis <=> <<a, b>> \in visible)
    BY <1>5, <1>9
  <2>2. \A q \in Player : <<p, q>> \in vis <=> <<q, p>> \in vis
    BY <1>1, <1>2, <1>3, <1>5, <1>8, <1>9
  <2>3. \A q \in Player :
          <<p, q>> \in vis => q # p /\ at[q] # None /\ ~BeyondLeave(at[p], at[q])
    BY <1>2, <1>3, <1>6, <1>10
  <2>4. \A q \in Player :
          q # p /\ at[q] # None /\ WithinEnter(at[p], at[q]) => <<p, q>> \in vis
    BY <1>3, <1>6, <1>10
  <2> QED BY <1>3, <1>9, <1>10, <2>1, <2>2, <2>3, <2>4 DEF Outcome
<1>12. entered = {q \in Player : <<p, q>> \in vis /\ <<p, q>> \notin visible}
  BY <1>3, <1>4, <1>10
<1>13. left = {q \in Player : <<p, q>> \in visible /\ <<p, q>> \notin vis}
  BY <1>3, <1>7, <1>8, <1>10
<1> QED BY <1>11, <1>12, <1>13 DEF entered, with, left, vis

---------------------------------------------------------------------------
(* Preservation *)

\* A step that places p, leaves an Outcome and keeps or renews p's marker by
\* the rule of MoveDetailed preserves the invariant.
LEMMA OutcomePreserves ==
    ASSUME NEW p \in Player, NEW scanned \in BOOLEAN, IInv,
           Placed(pos', cells', p), Outcome(pos', visible', p, scanned),
           pos[p] = None => scanned,
           marker' = [marker EXCEPT ![p] = IF scanned THEN pos'[p] ELSE marker[p]],
           ~scanned => SqDist(pos'[p], marker[p]) < RescanDistance * RescanDistance,
           delta' \in [player : Player \cup {None}, entered : SUBSET Player,
                       left : SUBSET Player, stable : SUBSET Player]
    PROVE  IInv'
<1>1. TypeOK /\ Symmetric /\ CellsExact /\ VisibleWithinLeave /\ Drift /\ MarkersApart
  BY DEF IInv
<1>2. /\ pos' \in [Player -> Point \cup {None}] /\ pos'[p] \in Point
      /\ \A q \in Player : q # p => pos'[q] = pos[q]
  BY DEF Placed
<1>3. /\ marker' \in [Player -> Point \cup {None}]
      /\ \A q \in Player : q # p => marker'[q] = marker[q]
      /\ marker'[p] = IF scanned THEN pos'[p] ELSE marker[p]
  BY <1>1, <1>2 DEF TypeOK
<1>4. \A q \in Player : pos'[q] # None => pos'[q] \in Point /\ marker'[q] \in Point
  BY <1>1, <1>2, <1>3, PointAssumption DEF TypeOK
<1>5. TypeOK'
  <2>1. \A q \in Player : pos'[q] = None <=> marker'[q] = None
    BY <1>1, <1>2, <1>3, PointAssumption DEF TypeOK
  <2> QED BY <1>2, <1>3, <2>1 DEF TypeOK, Outcome
<1>6. Symmetric'
  <2> SUFFICES ASSUME NEW a \in Player, NEW b \in Player, <<a, b>> \in visible'
               PROVE  <<b, a>> \in visible' /\ a # b /\ pos'[a] # None
    BY DEF Symmetric
  <2>1. CASE a # p /\ b # p  BY <1>1, <1>2, <2>1 DEF Symmetric, Outcome
  <2>2. CASE a = p  BY <1>2, <2>2, PointAssumption DEF Outcome
  <2>3. CASE b = p  BY <1>2, <2>3, PointAssumption DEF Outcome
  <2> QED BY <2>1, <2>2, <2>3
<1>7. CellsExact'
  BY DEF CellsExact, Placed, players
<1>8. VisibleWithinLeave'
  <2> SUFFICES ASSUME NEW a \in Player, NEW b \in Player, <<a, b>> \in visible',
                      pos'[a] # None, pos'[b] # None
               PROVE  ~BeyondLeave(pos'[a], pos'[b])
    BY DEF VisibleWithinLeave, players, BeyondLeave
  <2>1. CASE a # p /\ b # p
    BY <1>1, <1>2, <2>1 DEF VisibleWithinLeave, players, Outcome
  <2>2. CASE a = p  BY <2>2 DEF Outcome
  <2>3. CASE b = p
    <3>1. ~BeyondLeave(pos'[b], pos'[a])  BY <2>3 DEF Outcome
    <3> QED BY <1>4, <3>1, SqDistSym DEF BeyondLeave
  <2> QED BY <2>1, <2>2, <2>3
<1>9. Drift'
  <2> SUFFICES ASSUME NEW q \in Player, pos'[q] # None
               PROVE  SqDist(pos'[q], marker'[q]) <= RescanDistance * RescanDistance
    BY DEF Drift, players, SqDist
  <2>1. CASE q # p
    BY <1>1, <1>2, <1>3, <2>1 DEF Drift, players
  <2>2. CASE q = p /\ scanned
    <3>1. SqDist(pos'[q], marker'[q]) = 0  BY <1>3, <1>4, <2>2, SqDistSym
    <3> QED BY <3>1, RadiusAssumption, SMT
  <2>3. CASE q = p /\ ~scanned
    <3>1. SqDist(pos'[q], marker'[q]) \in Nat  BY <1>4, SqDistSym
    <3>2. RescanDistance * RescanDistance \in Int  BY RadiusAssumption
    <3> QED BY <1>3, <2>3, <3>1, <3>2
  <2> QED BY <2>1, <2>2, <2>3
<1>10. MarkersApart'
  <2> DEFINE gap == EnterRadius - RescanDistance
  <2>1. /\ gap \in Nat /\ gap + RescanDistance = EnterRadius
        /\ 0 + gap = gap /\ RescanDistance \in Nat /\ EnterRadius \in Nat
        /\ LeaveRadius \in Nat
        /\ (RescanDistance + gap) + RescanDistance <= LeaveRadius
    BY RadiusAssumption
  <2> HIDE DEF gap
  \* The pair (p, q) if p did not see q.
  <2>2. ASSUME NEW q \in Player, q # p, pos'[q] # None, <<p, q>> \notin visible'
        PROVE  SqDist(marker'[p], marker'[q]) > gap * gap
    <3>1. /\ pos'[p] \in Point /\ pos'[q] \in Point /\ pos'[q] = pos[q]
          /\ marker'[p] \in Point /\ marker'[q] \in Point
      BY <1>2, <1>4, <2>2, PointAssumption
    <3>2. SqDist(pos'[q], marker'[q]) <= RescanDistance * RescanDistance
          /\ SqDist(marker'[q], pos'[q]) <= RescanDistance * RescanDistance
      BY <1>9, <2>2, <3>1, SqDistSym DEF Drift, players
    <3>3. SqDist(pos'[p], marker'[p]) <= RescanDistance * RescanDistance
      BY <1>9, <3>1, PointAssumption DEF Drift, players
    <3> SUFFICES ASSUME SqDist(marker'[p], marker'[q]) <= gap * gap
                 PROVE  FALSE
      <4>1. SqDist(marker'[p], marker'[q]) \in Nat  BY <3>1, SqDistSym
      <4>2. gap * gap \in Nat  BY <2>1
      <4> QED BY <4>1, <4>2
    <3>4. CASE scanned
      <4>1. marker'[p] = pos'[p]  BY <1>3, <3>4
      <4>2. SqDist(pos'[p], pos'[q]) <= (gap + RescanDistance) * (gap + RescanDistance)
        BY <2>1, <3>1, <3>2, <4>1, Triangle
      <4>3. WithinEnter(pos'[p], pos'[q])  BY <2>1, <4>2 DEF WithinEnter
      <4> QED BY <2>2, <3>4, <4>3 DEF Outcome
    <3>5. CASE ~scanned /\ <<p, q>> \notin visible
      <4>1. marker'[p] = marker[p] /\ marker'[q] = marker[q] /\ pos[p] # None
        BY <1>3, <2>2, <3>5
      <4>2. SqDist(marker[p], marker[q]) > gap * gap
        BY <1>1, <2>2, <3>1, <3>5, <4>1 DEF MarkersApart, players, gap
      <4>3. SqDist(marker[p], marker[q]) \in Nat /\ gap * gap \in Nat
        BY <2>1, <3>1, <4>1, SqDistSym
      <4> QED BY <4>1, <4>2, <4>3
    <3>6. CASE ~scanned /\ <<p, q>> \in visible
      <4> DEFINE m == RescanDistance + gap
      <4>1. m \in Nat /\ m + RescanDistance \in Nat
            /\ m + RescanDistance <= LeaveRadius  BY <2>1
      <4>2. SqDist(pos'[p], marker'[q]) <= m * m
        BY <2>1, <3>1, <3>3, Triangle
      <4>3. SqDist(pos'[p], pos'[q]) <= (m + RescanDistance) * (m + RescanDistance)
        BY <2>1, <3>1, <3>2, <4>1, <4>2, Triangle
      <4>4. (m + RescanDistance) * (m + RescanDistance) <= LeaveRadius * LeaveRadius
        BY <2>1, <4>1, SMT
      <4>5. /\ (m + RescanDistance) * (m + RescanDistance) \in Nat
            /\ LeaveRadius * LeaveRadius \in Nat
            /\ SqDist(pos'[p], pos'[q]) \in Nat
        BY <2>1, <3>1, <4>1, SqDistSym
      <4> HIDE DEF m
      <4>6. ~BeyondLeave(pos'[p], pos'[q])  BY <4>3, <4>4, <4>5 DEF BeyondLeave
      <4> QED BY <2>2, <3>6, <4>6 DEF Outcome
    <3> QED BY <3>4, <3>5, <3>6
  <2> SUFFICES ASSUME NEW a \in Player, NEW b \in Player, a # b,
                      pos'[a] # None, pos'[b] # None, <<a, b>> \notin visible'
               PROVE  SqDist(marker'[a], marker'[b]) > gap * gap
    BY DEF MarkersApart, players, gap
  <2>3. CASE a # p /\ b # p
    BY <1>1, <1>2, <1>3, <2>3 DEF MarkersApart, players, Outcome, gap
  <2>4. CASE a = p  BY <2>2, <2>4
  <2>5. CASE b = p
    <3>1. SqDist(marker'[b], marker'[a]) > gap * gap
      BY <2>2, <2>5 DEF Outcome
    <3> QED BY <1>4, <3>1, SqDistSym
  <2> QED BY <2>3, <2>4, <2>5
<1> QED BY <1>5, <1>6, <1>7, <1>8, <1>9, <1>10 DEF IInv

\* Inserting p, moving p or recalculating p places p and leaves an Outcome that
\* delta reports.
Reported(p) ==
    /\ delta'.player = p
    /\ delta'.entered = {q \in Player : <<p, q>> \in visible' /\ <<p, q>> \notin visible}
    /\ delta'.left = {q \in Player : <<p, q>> \in visible /\ <<p, q>> \notin visible'}
    /\ delta'.stable \in {{}, {q \in Player : <<p, q>> \in visible
                                               /\ <<p, q>> \in visible'}}
    /\ pos[p] # None /\ pos'[p] \notin {None, pos[p]}
         => delta'.stable = {q \in Player : <<p, q>> \in visible
                                            /\ <<p, q>> \in visible'}

LEMMA RecalculateReports ==
    ASSUME IInv, NEW p \in Player, Placed(pos', cells', p),
           Recalculate(pos', cells', p), pos[p] = None \/ pos'[p] = pos[p]
    PROVE  /\ Outcome(pos', visible', p, TRUE) /\ Reported(p)
           /\ marker' = [marker EXCEPT ![p] = pos'[p]]
<1> DEFINE entered == EnterScan(pos', cells', visible, p)
           with    == AddRelationships(visible, p, entered)
           left    == LeaveCheck(pos', with, p)
           vis     == RemoveRelationships(with, p, left)
<1>1. /\ Outcome(pos', vis, p, TRUE)
      /\ entered = {q \in Player : <<p, q>> \in vis /\ <<p, q>> \notin visible}
      /\ left = {q \in Player : <<p, q>> \in visible /\ <<p, q>> \notin vis}
  BY RecalculateOutcome
<1>2. /\ visible' = vis /\ delta' = Delta(p, entered, left, {})
      /\ marker' = [marker EXCEPT ![p] = pos'[p]]
  BY DEF Recalculate
<1> HIDE DEF entered, with, left, vis
<1> QED BY <1>1, <1>2 DEF Reported, Delta

LEMMA InsertStep ==
    ASSUME IInv, NEW p \in Player, NEW pt \in Point, Insert(p, pt)
    PROVE  /\ Placed(pos', cells', p) /\ Outcome(pos', visible', p, TRUE)
           /\ marker' = [marker EXCEPT ![p] = pos'[p]] /\ Reported(p)
<1>1. Placed(pos', cells', p)
  <2>1. pos \in [Player -> Point \cup {None}] /\ pos[p] = None
        /\ pos' = [pos EXCEPT ![p] = pt]
    BY DEF IInv, TypeOK, Insert
  <2>2. /\ pos' \in [Player -> Point \cup {None}] /\ pos'[p] = pt /\ pt # None
        /\ \A q \in Player : q # p => pos'[q] = pos[q]
    BY <2>1, PointAssumption
  <2>3. cells' = {<<CellOf(pos[q]), q>> : q \in {r \in Player : pos[r] # None}}
                 \cup {<<CellOf(pt), p>>}
    BY DEF IInv, CellsExact, Insert, players
  <2> HIDE DEF CellOf
  <2>4. cells' = {<<CellOf(pos'[q]), q>> : q \in {r \in Player : pos'[r] # None}}
    BY <2>1, <2>2, <2>3
  <2> QED BY <2>2, <2>4 DEF Placed
<1>2. Recalculate(pos', cells', p) /\ pos[p] = None  BY DEF Insert
<1> QED BY <1>1, <1>2, RecalculateReports

LEMMA RecalculateStep ==
    ASSUME IInv, NEW p \in Player, RecalculateRelationships(p)
    PROVE  /\ Placed(pos', cells', p) /\ Outcome(pos', visible', p, TRUE)
           /\ marker' = [marker EXCEPT ![p] = pos'[p]] /\ Reported(p)
<1>1. Placed(pos, cells, p) /\ pos' = pos /\ cells' = cells
  BY DEF IInv, TypeOK, CellsExact, RecalculateRelationships, Placed, players
<1>2. Recalculate(pos', cells', p)  BY <1>1 DEF RecalculateRelationships
<1> QED BY <1>1, <1>2, RecalculateReports

LEMMA MoveStep ==
    ASSUME IInv, NEW p \in Player, NEW pt \in Point, MoveDetailed(p, pt)
    PROVE  LET scanned == ShouldForceEnterScan(marker[p], pt)
           IN  /\ pos[p] # None /\ pos'[p] = pt /\ scanned \in BOOLEAN
               /\ Placed(pos', cells', p) /\ Outcome(pos', visible', p, scanned)
               /\ marker' = [marker EXCEPT ![p] = IF scanned THEN pos'[p]
                                                 ELSE marker[p]]
               /\ Reported(p)
<1> DEFINE at      == [pos EXCEPT ![p] = pt]
           cs      == Reindex(cells, p, CellOf(pos[p]), CellOf(pt))
           left    == LeaveCheck(at, visible, p)
           kept    == RemoveRelationships(visible, p, left)
           forced  == ShouldForceEnterScan(marker[p], pt)
           entered == IF forced THEN EnterScan(at, cs, kept, p) ELSE {}
<1>1. /\ pos \in [Player -> Point \cup {None}] /\ pos[p] # None
      /\ pos' = at /\ cells' = cs
  BY DEF IInv, TypeOK, MoveDetailed
<1>2. /\ at \in [Player -> Point \cup {None}] /\ at[p] = pt /\ pt # None
      /\ \A q \in Player : q # p => at[q] = pos[q]
  BY <1>1, PointAssumption
<1>3. Placed(at, cs, p)
  <2>1. cells = {<<CellOf(pos[q]), q>> : q \in {r \in Player : pos[r] # None}}
    BY DEF IInv, CellsExact, players
  <2> HIDE DEF CellOf, at
  <2>2. cs = {<<CellOf(at[q]), q>> : q \in {r \in Player : at[r] # None}}
    <3>1. CASE CellOf(pos[p]) = CellOf(pt)
      BY <1>1, <1>2, <2>1, <3>1 DEF Reindex
    <3>2. CASE CellOf(pos[p]) # CellOf(pt)
      BY <1>1, <1>2, <2>1, <3>2 DEF Reindex
    <3> QED BY <3>1, <3>2
  <2> QED BY <1>2, <2>2 DEF Placed
<1>4. forced \in BOOLEAN  BY DEF ShouldForceEnterScan
<1>5. /\ visible' = AddRelationships(kept, p, entered)
      /\ delta' = Delta(p, entered, left, Neighbors(visible, p) \ left)
      /\ marker' = [marker EXCEPT ![p] = IF forced THEN pt ELSE marker[p]]
  BY DEF MoveDetailed, MarkEnterScan
<1> HIDE DEF at, cs, forced
<1>6. /\ Outcome(at, visible', p, forced)
      /\ entered = {q \in Player : <<p, q>> \in visible' /\ <<p, q>> \notin visible}
      /\ left = {q \in Player : <<p, q>> \in visible /\ <<p, q>> \notin visible'}
  BY <1>3, <1>4, <1>5, MoveOutcome
<1> HIDE DEF left, kept, entered
<1>7. Neighbors(visible, p) \ left
        = {q \in Player : <<p, q>> \in visible /\ <<p, q>> \in visible'}
  BY <1>6 DEF Neighbors
<1>8. Reported(p)  BY <1>5, <1>6, <1>7 DEF Reported, Delta
<1> QED BY <1>1, <1>2, <1>3, <1>4, <1>5, <1>6, <1>8 DEF forced

LEMMA RemoveStep ==
    ASSUME IInv, NEW p \in Player, Remove(p)
    PROVE  /\ IInv' /\ Reported(p) /\ pos'[p] = None
           /\ \A a, b \in Player : a # p /\ b # p
                 => (<<a, b>> \in visible' <=> <<a, b>> \in visible)
<1>1. /\ TypeOK /\ Symmetric /\ CellsExact /\ VisibleWithinLeave /\ Drift /\ MarkersApart
      /\ pos' = [pos EXCEPT ![p] = None] /\ marker' = [marker EXCEPT ![p] = None]
      /\ pos[p] # None
  BY DEF IInv, Remove
<1>2. /\ pos' \in [Player -> Point \cup {None}] /\ pos'[p] = None
      /\ marker' \in [Player -> Point \cup {None}] /\ marker'[p] = None
      /\ \A q \in Player : q # p => pos'[q] = pos[q] /\ marker'[q] = marker[q]
  BY <1>1 DEF TypeOK
<1>3. /\ visible \subseteq Player \X Player
      /\ \A a, b \in Player : <<a, b>> \in visible => <<b, a>> \in visible /\ a # b
  BY <1>1 DEF TypeOK, Symmetric
<1>4. visible' = {e \in visible : e[1] # p /\ e[2] # p}
  BY <1>3 DEF Remove, Neighbors
<1>5. /\ visible' \subseteq Player \X Player
      /\ \A a, b \in Player :
            <<a, b>> \in visible' <=> <<a, b>> \in visible /\ a # p /\ b # p
  BY <1>3, <1>4
<1>6. delta' = Delta(p, {}, Neighbors(visible, p), {})
  BY DEF Remove
<1>7. Reported(p)  BY <1>3, <1>5, <1>6 DEF Reported, Delta, Neighbors
<1>8. TypeOK'  BY <1>1, <1>2, <1>5, <1>6 DEF TypeOK, Delta, Neighbors
<1>9. Symmetric'  BY <1>1, <1>2, <1>5 DEF Symmetric
<1>10. CellsExact'
  <2>1. cells = {<<CellOf(pos[q]), q>> : q \in {r \in Player : pos[r] # None}}
        /\ cells' = cells \ {<<CellOf(pos[p]), p>>}
    BY <1>1 DEF CellsExact, players, Remove
  <2> HIDE DEF CellOf
  <2>2. cells' = {<<CellOf(pos'[q]), q>> : q \in {r \in Player : pos'[r] # None}}
    BY <1>2, <2>1
  <2> QED BY <2>2 DEF CellsExact, players
<1>11. VisibleWithinLeave'
  BY <1>1, <1>2, <1>5 DEF VisibleWithinLeave, players
<1>12. Drift'  BY <1>1, <1>2 DEF Drift, players
<1>13. MarkersApart'  BY <1>1, <1>2, <1>5 DEF MarkersApart, players
<1> QED BY <1>2, <1>5, <1>7, <1>8, <1>9, <1>10, <1>11, <1>12, <1>13 DEF IInv

LEMMA PlacedPreserves ==
    ASSUME NEW p \in Player, NEW scanned \in BOOLEAN, IInv,
           Placed(pos', cells', p), Outcome(pos', visible', p, scanned), Reported(p),
           pos[p] = None => scanned,
           marker' = [marker EXCEPT ![p] = IF scanned THEN pos'[p] ELSE marker[p]],
           ~scanned => SqDist(pos'[p], marker[p]) < RescanDistance * RescanDistance,
           \E x, y, z : delta' = Delta(p, x, y, z)
    PROVE  IInv'
<1>1. delta' \in [player : Player \cup {None}, entered : SUBSET Player,
                  left : SUBSET Player, stable : SUBSET Player]
  <2>1. PICK x, y, z : delta' = Delta(p, x, y, z)  OBVIOUS
  <2>2. x = delta'.entered /\ y = delta'.left /\ z = delta'.stable
    BY <2>1 DEF Delta
  <2>3. x \subseteq Player /\ y \subseteq Player /\ z \subseteq Player
    BY <2>2 DEF Reported
  <2> QED BY <2>1, <2>3 DEF Delta
<1> QED BY <1>1, OutcomePreserves

\* Every step is an insertion, a move or a recalculation that leaves a reported
\* Outcome, or a removal; and the invariant is kept.
Step(p) == \/ /\ Placed(pos', cells', p) /\ Reported(p)
              /\ \E scanned \in BOOLEAN : Outcome(pos', visible', p, scanned)
           \/ /\ pos'[p] = None /\ Reported(p)
              /\ \A a, b \in Player : a # p /\ b # p
                     => (<<a, b>> \in visible' <=> <<a, b>> \in visible)

LEMMA NextStep ==
    ASSUME IInv, Next
    PROVE  IInv' /\ \E p \in Player : Step(p)
<1> PICK p \in Player : \/ \E pt \in Point : Insert(p, pt) \/ MoveDetailed(p, pt)
                       \/ RecalculateRelationships(p)
                       \/ Remove(p)
  BY DEF Next
<1>1. ASSUME NEW pt \in Point, Insert(p, pt)
      PROVE  IInv' /\ Step(p)
  <2>1. /\ Placed(pos', cells', p) /\ Outcome(pos', visible', p, TRUE)
        /\ marker' = [marker EXCEPT ![p] = pos'[p]] /\ Reported(p)
    BY <1>1, InsertStep
  <2>2. \E x, y, z : delta' = Delta(p, x, y, z)
    BY <1>1 DEF Insert, Recalculate
  <2>3. IInv'  BY <2>1, <2>2, PlacedPreserves
  <2> QED BY <2>1, <2>3 DEF Step
<1>2. ASSUME NEW pt \in Point, MoveDetailed(p, pt)
      PROVE  IInv' /\ Step(p)
  <2> DEFINE scanned == ShouldForceEnterScan(marker[p], pt)
  <2>1. /\ pos[p] # None /\ pos'[p] = pt /\ scanned \in BOOLEAN
        /\ Placed(pos', cells', p) /\ Outcome(pos', visible', p, scanned)
        /\ marker' = [marker EXCEPT ![p] = IF scanned THEN pos'[p] ELSE marker[p]]
        /\ Reported(p)
    BY <1>2, MoveStep
  <2>2. ~scanned => SqDist(pt, marker[p]) < RescanDistance * RescanDistance
    <3> SUFFICES ASSUME ~scanned
                 PROVE  SqDist(pt, marker[p]) < RescanDistance * RescanDistance
      OBVIOUS
    <3>1. marker[p] # None /\ ~(SqDist(pt, marker[p]) >= RescanDistance * RescanDistance)
      BY DEF ShouldForceEnterScan
    <3>2. marker[p] \in Point  BY <3>1 DEF IInv, TypeOK
    <3>3. SqDist(pt, marker[p]) \in Nat /\ RescanDistance * RescanDistance \in Nat
      BY <3>2, SqDistSym, RadiusAssumption
    <3> QED BY <3>1, <3>3
  <2>3. \E x, y, z : delta' = Delta(p, x, y, z)
    BY <1>2 DEF MoveDetailed
  <2> HIDE DEF scanned
  <2>4. IInv'  BY <2>1, <2>2, <2>3, PlacedPreserves
  <2> QED BY <2>1, <2>4 DEF Step
<1>3. ASSUME RecalculateRelationships(p)
      PROVE  IInv' /\ Step(p)
  <2>1. /\ Placed(pos', cells', p) /\ Outcome(pos', visible', p, TRUE)
        /\ marker' = [marker EXCEPT ![p] = pos'[p]] /\ Reported(p)
    BY <1>3, RecalculateStep
  <2>2. \E x, y, z : delta' = Delta(p, x, y, z)
    BY <1>3 DEF RecalculateRelationships, Recalculate
  <2>3. IInv'  BY <2>1, <2>2, PlacedPreserves
  <2> QED BY <2>1, <2>3 DEF Step
<1>4. ASSUME Remove(p)
      PROVE  IInv' /\ Step(p)
  BY <1>4, RemoveStep DEF Step
<1> QED BY <1>1, <1>2, <1>3, <1>4

---------------------------------------------------------------------------
(* Theorems *)

\* The invariant holds of the index for all values of the constants.
THEOREM Invariance == Spec => []IInv
<1>1. Init => IInv
  <2> SUFFICES ASSUME Init PROVE IInv  OBVIOUS
  <2>1. \A p \in Player : pos[p] = None  BY DEF Init
  <2>2. TypeOK  BY DEF Init, TypeOK, Delta
  <2>3. players = {}  BY <2>1 DEF players
  <2>4. CellsExact  BY <2>3 DEF Init, CellsExact
  <2>5. Symmetric  BY DEF Init, Symmetric
  <2> QED BY <2>2, <2>3, <2>4, <2>5 DEF IInv, VisibleWithinLeave, Drift, MarkersApart
<1>2. IInv /\ [Next]_vars => IInv'
  <2> SUFFICES ASSUME IInv, [Next]_vars PROVE IInv'  OBVIOUS
  <2>1. CASE Next  BY <2>1, NextStep
  <2>2. CASE UNCHANGED vars
    BY <2>2 DEF vars, IInv, TypeOK, Symmetric, CellsExact, players,
                VisibleWithinLeave, Drift, MarkersApart
  <2> QED BY <2>1, <2>2
<1> QED BY <1>1, <1>2, PTL DEF Spec

\* The state stays well typed.
THEOREM TypeCorrect == Spec => []TypeOK
<1>1. IInv => TypeOK  BY DEF IInv
<1> QED BY <1>1, Invariance, PTL

\* The relation stays symmetric and names only indexed players, and the cell
\* index stays exact.
THEOREM SymmetricIndex == Spec => [](Symmetric /\ CellsExact)
<1>1. IInv => Symmetric /\ CellsExact  BY DEF IInv
<1> QED BY <1>1, Invariance, PTL

\* Leaving is exact however many enter scans were skipped.
THEOREM ExactLeave == Spec => []VisibleWithinLeave
<1>1. IInv => VisibleWithinLeave  BY DEF IInv
<1> QED BY <1>1, Invariance, PTL

\* Skipped scans never hide a player closer than SureRadius.
THEOREM BoundedMiss == Spec => []NoNearbyStranger
<1>1. IInv => NoNearbyStranger
  <2> SUFFICES ASSUME IInv, NEW p \in players, NEW q \in players,
                      p # q, <<p, q>> \notin visible
               PROVE  SqDist(pos[p], pos[q]) > SureRadius * SureRadius
    BY DEF NoNearbyStranger
  <2> DEFINE m == SureRadius + RescanDistance
  <2>1. /\ SureRadius \in Nat /\ RescanDistance \in Nat /\ m \in Nat
        /\ RescanDistance + SureRadius = m
        /\ m + RescanDistance = EnterRadius - RescanDistance
        /\ EnterRadius - RescanDistance \in Nat
    BY RadiusAssumption DEF SureRadius
  <2>2. /\ pos[p] \in Point /\ pos[q] \in Point
        /\ marker[p] \in Point /\ marker[q] \in Point
    BY DEF IInv, TypeOK, players
  <2>3. /\ SqDist(marker[p], pos[p]) <= RescanDistance * RescanDistance
        /\ SqDist(pos[q], marker[q]) <= RescanDistance * RescanDistance
    BY <2>2, SqDistSym DEF IInv, Drift
  <2> SUFFICES ASSUME SqDist(pos[p], pos[q]) <= SureRadius * SureRadius
               PROVE  FALSE
    <3>1. SqDist(pos[p], pos[q]) \in Nat /\ SureRadius * SureRadius \in Nat
      BY <2>1, <2>2, SqDistSym
    <3> QED BY <3>1
  <2>4. SqDist(marker[p], pos[q]) <= m * m
    BY <2>1, <2>2, <2>3, Triangle
  <2>5. SqDist(marker[p], marker[q]) <= (m + RescanDistance) * (m + RescanDistance)
    BY <2>1, <2>2, <2>3, <2>4, Triangle
  <2> DEFINE gap == EnterRadius - RescanDistance
  <2>6. SqDist(marker[p], marker[q]) > gap * gap
    BY DEF IInv, MarkersApart
  <2>7. SqDist(marker[p], marker[q]) \in Nat /\ gap * gap \in Nat
    BY <2>1, <2>2, SqDistSym
  <2>8. SqDist(marker[p], marker[q]) <= gap * gap  BY <2>1, <2>5
  <2> HIDE DEF gap
  <2> QED BY <2>6, <2>7, <2>8
<1> QED BY <1>1, Invariance, PTL

\* The sets a call returns are exact, for every call in every state.
THEOREM ExactDelta == Spec => DeltaExact
<1>1. IInv /\ [Next]_vars =>
        [LET p     == delta'.player
             old   == Neighbors(visible, p)
             new   == Neighbors(visible', p)
             moved == pos[p] # None /\ pos'[p] \notin {None, pos[p]}
         IN  /\ delta'.entered = new \ old
             /\ delta'.left = old \ new
             /\ delta'.stable \in {{}, old \cap new}
             /\ moved => delta'.stable = old \cap new
             /\ \A q, r \in Player \ {p} :
                   <<q, r>> \in visible' <=> <<q, r>> \in visible]_vars
  <2> SUFFICES ASSUME IInv, Next
               PROVE  LET p     == delta'.player
                          old   == Neighbors(visible, p)
                          new   == Neighbors(visible', p)
                          moved == pos[p] # None /\ pos'[p] \notin {None, pos[p]}
                      IN  /\ delta'.entered = new \ old
                          /\ delta'.left = old \ new
                          /\ delta'.stable \in {{}, old \cap new}
                          /\ moved => delta'.stable = old \cap new
                          /\ \A q, r \in Player \ {p} :
                                <<q, r>> \in visible' <=> <<q, r>> \in visible
    OBVIOUS
  <2>1. PICK p \in Player : Step(p)  BY NextStep
  <2>2. Reported(p)  BY <2>1 DEF Step
  <2>3. \A a, b \in Player : a # p /\ b # p
           => (<<a, b>> \in visible' <=> <<a, b>> \in visible)
    BY <2>1 DEF Step, Outcome
  <2>4. delta'.player = p  BY <2>2 DEF Reported
  <2> QED BY <2>2, <2>3, <2>4 DEF Reported, Neighbors
<1> QED BY <1>1, Invariance, PTL DEF Spec, DeltaExact

\* Hysteresis holds of every step.
THEOREM HysteresisHolds == Spec => Hysteresis
<1>1. IInv /\ [Next]_vars =>
        [\A p, q \in Player :
            pos'[p] # None /\ pos'[q] # None =>
               /\ <<p, q>> \in visible /\ ~BeyondLeave(pos'[p], pos'[q])
                      => <<p, q>> \in visible'
               /\ <<p, q>> \in visible' \ visible
                      => WithinEnter(pos'[p], pos'[q])]_vars
  <2> SUFFICES ASSUME IInv, Next, NEW a \in Player, NEW b \in Player,
                      pos'[a] # None, pos'[b] # None
               PROVE  /\ <<a, b>> \in visible /\ ~BeyondLeave(pos'[a], pos'[b])
                             => <<a, b>> \in visible'
                      /\ <<a, b>> \in visible' \ visible
                             => WithinEnter(pos'[a], pos'[b])
    OBVIOUS
  <2>1. PICK p \in Player : Step(p)  BY NextStep
  <2>2. IInv'  BY NextStep
  <2>3. pos'[a] \in Point /\ pos'[b] \in Point  BY <2>2 DEF IInv, TypeOK
  <2>4. /\ WithinEnter(pos'[a], pos'[b]) <=> WithinEnter(pos'[b], pos'[a])
        /\ BeyondLeave(pos'[a], pos'[b]) <=> BeyondLeave(pos'[b], pos'[a])
    BY <2>3, SqDistSym DEF WithinEnter, BeyondLeave
  <2>5. /\ <<a, b>> \in visible <=> <<b, a>> \in visible
        /\ <<a, b>> \in visible' <=> <<b, a>> \in visible'
    BY <2>2 DEF IInv, Symmetric
  <2>6. CASE a # p /\ b # p  BY <2>1, <2>6 DEF Step, Outcome
  <2>7. CASE a = p  BY <2>1, <2>7 DEF Step, Outcome
  <2>8. CASE b = p  BY <2>1, <2>4, <2>5, <2>8 DEF Step, Outcome
  <2> QED BY <2>6, <2>7, <2>8
<1> QED BY <1>1, Invariance, PTL DEF Spec, Hysteresis
==============================================================================
