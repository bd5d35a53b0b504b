-------------------------- MODULE CollectiblesProofs --------------------------
(* Proofs about Collectibles for every set of players, regions and points,   *)
(* every target and every number of items: the hub's handlers implement      *)
(* Pickups, so each item gives one point and no region loses an item; what   *)
(* is tracked for a player is in step with the field, and its browser's gems *)
(* with what is tracked.                                                     *)
EXTENDS Collectibles, FiniteSetTheorems, TLAPS

\* The part of TypeOK the field needs.
FieldOK ==
    /\ field \in [Item -> Placement \cup {None}]
    /\ nextID \in 1..(MaxItem + 1)
    /\ \A i \in Item : field[i] # None => i < nextID
    /\ replacements \in [Region -> Nat]
    /\ score \in [Player -> Nat]

\* The players, views and requests.
PlayersOK ==
    /\ clients \subseteq Player /\ moved \subseteq clients
    /\ wpos \in [Player -> Point \cup {None}] /\ at \in [Player -> Point \cup {None}]
    /\ \A p \in Player : wpos[p] # None <=> p \in clients
    /\ \A p \in Player : at[p] # None <=> p \in clients
    /\ visible \in [Player -> (SUBSET Item) \cup {None}]
    /\ collected \in [Player -> SUBSET Item]
    /\ cooldowns \subseteq Player /\ requests \subseteq Request
    /\ gems \in [Player -> SUBSET Item] /\ gap \in [Player -> SUBSET Item]

LEMMA Parts == TypeOK <=> FieldOK /\ PlayersOK
BY DEF TypeOK, FieldOK, PlayersOK

LEMMA InitTyped == Init => TypeOK
<1> SUFFICES ASSUME Init PROVE TypeOK
  OBVIOUS
<1>1. PICK f \in [Item -> Placement \cup {None}], n \in 1..(MaxItem + 1) :
          Populated(f, n) /\ field = f /\ nextID = n
  BY DEF Init
<1>2. FieldOK
  BY <1>1 DEF Init, FieldOK, Populated
<1>3. PlayersOK
  BY DEF Init, PlayersOK
<1> QED BY <1>2, <1>3, Parts

---------------------------------------------------------------------------
(* The field *)

LEMMA PlacementRegion ==
    ASSUME NEW x \in Placement PROVE x.region \in Region /\ x # None
BY NoneAssumption DEF Placement, NoneAssumption

\* A batch of new items takes the IDs from nextID on, and spends in every
\* region at most what is owed.
LEMMA SpawnableBatch ==
    ASSUME FieldOK, NEW new \in Spawnable
    PROVE  /\ DOMAIN new \in SUBSET Item /\ new \in [DOMAIN new -> Placement]
           /\ DOMAIN new = nextID..(nextID + Cardinality(DOMAIN new) - 1)
           /\ NextID(new) \in 1..(MaxItem + 1)
           /\ \A r \in Region : /\ CountIn(new, r) \in Nat
                                /\ CountIn(new, r) <= replacements[r]
<1>1. PICK n \in (nextID - 1)..MaxItem : new \in [nextID..n -> Placement]
  BY DEF Spawnable
<1>2. nextID \in Int /\ n \in Int /\ nextID >= 1 /\ n <= MaxItem /\ n >= nextID - 1
  BY <1>1, FieldAssumption DEF FieldOK, FieldAssumption
<1>3. DOMAIN new = nextID..n
  BY <1>1
<1>4. IsFiniteSet(DOMAIN new) /\ Cardinality(DOMAIN new) = n - nextID + 1
  <2>1. IsFiniteSet(nextID..n)
        /\ Cardinality(nextID..n) = IF nextID > n THEN 0 ELSE n - nextID + 1
    BY ONLY <1>2, FS_Interval
  <2> QED BY <1>2, <1>3, <2>1
<1>5. ASSUME NEW r \in Region PROVE CountIn(new, r) \in Nat
  <2>1. IsFiniteSet({i \in DOMAIN new : new[i] # None /\ new[i].region = r})
    BY <1>4, FS_Subset
  <2> QED BY <2>1, FS_CardinalityType DEF CountIn
<1>6. \A r \in Region : CountIn(new, r) <= replacements[r]
  BY DEF Spawnable
<1>7. DOMAIN new = nextID..(nextID + Cardinality(DOMAIN new) - 1)
  BY <1>2, <1>3, <1>4
<1>8. NextID(new) \in 1..(MaxItem + 1)
  BY <1>2, <1>4, FieldAssumption DEF NextID, FieldAssumption
<1>9. DOMAIN new \in SUBSET Item
  <2>1. \A j \in nextID..n : j \in 1..MaxItem
    BY <1>2, FieldAssumption DEF FieldAssumption
  <2> QED BY <1>3, <2>1 DEF Item
<1> QED BY <1>1, <1>3, <1>5, <1>6, <1>7, <1>8, <1>9

\* The IDs of the new items have never been used.
LEMMA NewIsUnused ==
    ASSUME FieldOK, NEW new \in Spawnable, NEW j \in DOMAIN new
    PROVE  j \in Item /\ j >= nextID /\ field[j] = None
<1>1. DOMAIN new \in SUBSET Item
      /\ DOMAIN new = nextID..(nextID + Cardinality(DOMAIN new) - 1)
  BY SpawnableBatch
<1>2. nextID \in Int /\ Cardinality(DOMAIN new) \in Int
  <2>1. IsFiniteSet(Item)
    BY FS_Interval, FieldAssumption DEF Item, FieldAssumption
  <2>2. Cardinality(DOMAIN new) \in Nat
    BY <1>1, <2>1, FS_Subset, FS_CardinalityType
  <2> QED BY <2>2, FieldAssumption DEF FieldOK, FieldAssumption
<1>3. j \in nextID..(nextID + Cardinality(DOMAIN new) - 1)
  BY <1>1
<1>4. j \in Item /\ j >= nextID
  BY <1>1, <1>2, <1>3
<1> QED BY <1>2, <1>4 DEF FieldOK, Item

LEMMA RemoveField ==
    ASSUME FieldOK, NEW i \in Item, field[i] # None, Remove(i), score' \in [Player -> Nat]
    PROVE  FieldOK'
<1>1. field[i].region \in Region
  BY PlacementRegion DEF FieldOK
<1> QED BY <1>1 DEF FieldOK, Remove, Schedule

LEMMA AdvanceField ==
    ASSUME FieldOK, NEW new, AdvanceReplacements(new), UNCHANGED score
    PROVE  FieldOK'
<1>1. new \in Spawnable
  BY DEF AdvanceReplacements
<1>2. field' \in [Item -> Placement \cup {None}]
  BY <1>1, SpawnableBatch DEF AdvanceReplacements, FieldOK
<1>3. nextID' = nextID + Cardinality(DOMAIN new) /\ nextID' \in 1..(MaxItem + 1)
  BY <1>1, SpawnableBatch DEF AdvanceReplacements, NextID
<1>4. Cardinality(DOMAIN new) \in Nat
  <2>1. DOMAIN new \in SUBSET Item
    BY <1>1, SpawnableBatch
  <2>2. IsFiniteSet(Item)
    BY FS_Interval, FieldAssumption DEF Item, FieldAssumption
  <2> QED BY <2>1, <2>2, FS_Subset, FS_CardinalityType
<1>5. ASSUME NEW j \in Item, field'[j] # None PROVE j < nextID'
  <2>1. nextID \in Int /\ j \in Int
    BY DEF FieldOK, Item
  <2>2. CASE j \in DOMAIN new
    <3>1. j \in nextID..(nextID + Cardinality(DOMAIN new) - 1)
      BY <1>1, <2>2, SpawnableBatch
    <3> QED BY <3>1, <2>1, <1>3, <1>4
  <2>3. CASE j \notin DOMAIN new
    BY <1>5, <2>1, <2>3, <1>3, <1>4 DEF AdvanceReplacements, FieldOK
  <2> QED BY <2>2, <2>3
<1>6. replacements' \in [Region -> Nat]
  BY <1>1, SpawnableBatch DEF AdvanceReplacements, FieldOK
<1> QED BY <1>2, <1>3, <1>5, <1>6 DEF FieldOK

---------------------------------------------------------------------------
(* Type correctness *)

LEMMA RequestsStay ==
    ASSUME PlayersOK, NEW p \in Player PROVE Orphaned(p) \subseteq Request
BY DEF PlayersOK, Orphaned, Request

LEMMA BroadcastedType ==
    ASSUME PlayersOK, NEW f, NEW positions, NEW new, DOMAIN new \subseteq Item,
           NEW p \in clients, NEW lost
    PROVE  /\ Broadcasted(p, f, positions, new, lost).visible \in (SUBSET Item) \cup {None}
           /\ Broadcasted(p, f, positions, new, lost).gems \in SUBSET Item
           /\ Broadcasted(p, f, positions, new, lost).gap \in SUBSET Item
<1> DEFINE spawned == SpawnedFor(p, positions, new)
           prev == WithSpawned(p, spawned)
           held == IF prev = None THEN {} ELSE prev
           recalc == IF p \in moved THEN Recalculate(f, wpos[p], held)
                     ELSE [visible |-> prev, entered |-> {}, left |-> {}]
           change == [entered |-> recalc.entered, left |-> recalc.left,
                      spawned |-> spawned, collected |-> collected[p]]
           update == Normalize(change)
<1>1. spawned \subseteq Item
  BY DEF SpawnedFor
<1>2. prev \in (SUBSET Item) \cup {None} /\ held \subseteq Item
  BY <1>1 DEF WithSpawned, PlayersOK
<1> HIDE DEF prev
<1>3. /\ recalc.visible \in (SUBSET Item) \cup {None}
      /\ recalc.entered \subseteq Item /\ recalc.left \subseteq Item
  BY <1>2 DEF Recalculate, CollectiblesWithinRadius
<1> HIDE DEF recalc, held, spawned
<1>4. /\ update.entered \subseteq Item /\ update.left \subseteq Item
      /\ update.spawned \subseteq Item /\ update.collected \subseteq Item
  BY <1>1, <1>3 DEF Normalize, PlayersOK
<1>5. gems[p] \subseteq Item /\ gap[p] \subseteq Item
  BY DEF PlayersOK
<1>6. ApplyUpdate(gems[p], update) \subseteq Item /\ Subjects(update) \subseteq Item
  BY <1>4, <1>5 DEF ApplyUpdate, Subjects
<1> HIDE DEF update
<1>7. held \subseteq Item
  BY <1>2
<1> QED BY <1>1, <1>3, <1>5, <1>6, <1>7
        DEF Broadcasted, spawned, prev, held, recalc, update

LEMMA StepTyped == TypeOK /\ [Next]_vars => TypeOK'
<1>b. (FieldOK /\ PlayersOK)' => TypeOK'
  BY DEF TypeOK, FieldOK, PlayersOK
<1> SUFFICES ASSUME FieldOK, PlayersOK, [Next]_vars PROVE FieldOK' /\ PlayersOK'
  BY Parts, <1>b
<1>a. None \notin Point
  BY FieldAssumption DEF FieldAssumption
<1>1. ASSUME NEW p \in Player, NEW pt, SendInitialization(p, pt), 
             clients' \subseteq Player, moved' \subseteq clients',
             wpos' \in [Player -> Point \cup {None}], at' \in [Player -> Point \cup {None}],
             \A q \in Player : wpos'[q] # None <=> q \in clients',
             \A q \in Player : at'[q] # None <=> q \in clients'
      PROVE  FieldOK' /\ PlayersOK'
  <2>1. FieldOK'
    BY <1>1 DEF SendInitialization, fieldVars, FieldOK
  <2>2. requests' \subseteq Request
    BY <1>1, RequestsStay DEF SendInitialization
  <2> QED BY <1>1, <2>1, <2>2 DEF SendInitialization, PlayersOK, CollectiblesWithinRadius
<1>2. ASSUME NEW p \in Player, NEW pt \in Point, Register(p, pt) PROVE FieldOK' /\ PlayersOK'
  <2>1. /\ clients' \subseteq Player /\ moved' \subseteq clients'
        /\ wpos' \in [Player -> Point \cup {None}] /\ at' \in [Player -> Point \cup {None}]
        /\ \A q \in Player : wpos'[q] # None <=> q \in clients'
        /\ \A q \in Player : at'[q] # None <=> q \in clients'
    BY <1>2, <1>a DEF Register, PlayersOK
  <2> QED BY <1>1, <1>2, <2>1 DEF Register
<1>3. ASSUME NEW p \in Player, Replace(p) PROVE FieldOK' /\ PlayersOK'
  <2>1. /\ clients' \subseteq Player /\ moved' \subseteq clients'
        /\ wpos' \in [Player -> Point \cup {None}] /\ at' \in [Player -> Point \cup {None}]
        /\ \A q \in Player : wpos'[q] # None <=> q \in clients'
        /\ \A q \in Player : at'[q] # None <=> q \in clients'
    BY <1>3 DEF Replace, playerVars, PlayersOK
  <2> QED BY <1>1, <1>3, <2>1 DEF Replace
<1>4. ASSUME NEW p \in Player, Disconnect(p) PROVE FieldOK' /\ PlayersOK'
  <2>1. FieldOK'
    BY <1>4 DEF Disconnect, fieldVars, FieldOK
  <2>2. requests' \subseteq Request
    BY <1>4, RequestsStay DEF Disconnect
  <2> QED BY <1>4, <2>1, <2>2 DEF Disconnect, PlayersOK
<1>5. ASSUME NEW p \in Player, NEW pt \in Point, Move(p, pt) PROVE FieldOK' /\ PlayersOK'
  BY <1>5, <1>a DEF Move, fieldVars, FieldOK, PlayersOK
<1>6. ASSUME NEW p \in Player, NEW i \in Item, PerformPickup(p, i)
      PROVE  FieldOK' /\ PlayersOK'
  <2>1. [player |-> p, item |-> i, current |-> TRUE] \in Request
    BY DEF Request
  <2> QED BY <1>6, <2>1 DEF PerformPickup, fieldVars, playerVars, FieldOK, PlayersOK
<1>7. ASSUME NEW q \in requests, ProcessCollect(q) PROVE FieldOK' /\ PlayersOK'
  <2>1. q.player \in Player /\ q.item \in Item /\ requests' \subseteq Request
    BY <1>7 DEF PlayersOK, Request, ProcessCollect
  <2>2. cooldowns' \subseteq Player
    BY <1>7, <2>1 DEF ProcessCollect, IgnoreCollect, AnswerCollect, PlayersOK
  <2>3. CASE UNCHANGED <<fieldVars, score, visible, collected>>
    BY <1>7, <2>1, <2>2, <2>3 DEF ProcessCollect, playerVars, fieldVars, FieldOK, PlayersOK
  <2>4. CASE CanPickUp(q.player, q.item) /\ PickUp(q.player, q.item)
    <3>1. score' \in [Player -> Nat]
      BY <2>1, <2>4 DEF PickUp, FieldOK
    <3>2. FieldOK'
      BY <2>1, <2>4, <3>1, RemoveField DEF CanPickUp, PickUp
    <3>3. visible' \in [Player -> (SUBSET Item) \cup {None}]
      BY <2>4 DEF PickUp, PlayersOK
    <3>4. collected' \in [Player -> SUBSET Item]
      BY <2>1, <2>4 DEF PickUp, PlayersOK
    <3> QED BY <1>7, <2>1, <2>2, <3>2, <3>3, <3>4 DEF ProcessCollect, playerVars, PlayersOK
  <2> QED BY <1>7, <2>3, <2>4 DEF ProcessCollect, IgnoreCollect, AnswerCollect
<1>8. ASSUME NEW new \in Spawnable, NEW dropped \in SUBSET clients, Broadcast(new, dropped)
      PROVE  FieldOK' /\ PlayersOK'
  <2>1. FieldOK'
    BY <1>8, AdvanceField DEF Broadcast
  <2>2. DOMAIN new \subseteq Item
    BY SpawnableBatch
  <2>3. at' \in [Player -> Point \cup {None}] /\ \A p \in Player : at'[p] # None <=> p \in clients
    BY <1>8 DEF Broadcast, PlayersOK
  <2>4. /\ visible' \in [Player -> (SUBSET Item) \cup {None}]
        /\ gems' \in [Player -> SUBSET Item] /\ gap' \in [Player -> SUBSET Item]
    <3> DEFINE after == [p \in clients |-> Broadcasted(p, field', at', new, p \in dropped)]
    <3>1. \A p \in clients : /\ after[p].visible \in (SUBSET Item) \cup {None}
                             /\ after[p].gems \in SUBSET Item /\ after[p].gap \in SUBSET Item
      <4>1. ASSUME NEW p \in clients
            PROVE  /\ after[p].visible \in (SUBSET Item) \cup {None}
                   /\ after[p].gems \in SUBSET Item /\ after[p].gap \in SUBSET Item
        <5> DEFINE lost == p \in dropped
                   new_p == Broadcasted(p, field', at', new, lost)
        <5>1. after[p] = new_p
          OBVIOUS
        <5> HIDE DEF lost, after
        <5>2. /\ new_p.visible \in (SUBSET Item) \cup {None}
              /\ new_p.gems \in SUBSET Item /\ new_p.gap \in SUBSET Item
          BY <2>2, <4>1, BroadcastedType
        <5> QED BY <5>1, <5>2
      <4> QED BY <4>1
    <3>2. /\ visible' = [p \in Player |-> IF p \in clients THEN after[p].visible ELSE None]
          /\ gems' = [p \in Player |-> IF p \in clients THEN after[p].gems ELSE {}]
          /\ gap' = [p \in Player |-> IF p \in clients THEN after[p].gap ELSE {}]
      BY <1>8 DEF Broadcast
    <3> HIDE DEF after
    <3> QED BY <3>1, <3>2
  <2> QED BY <1>8, <2>1, <2>3, <2>4 DEF Broadcast, PlayersOK
<1>9. CASE UNCHANGED vars
  BY <1>9 DEF vars, fieldVars, playerVars, FieldOK, PlayersOK
<1> QED BY <1>2, <1>3, <1>4, <1>5, <1>6, <1>7, <1>8, <1>9 DEF Next

\* The types of the field, the views and the requests, for every field and any
\* number of players: an item's ID is always below the counter.
THEOREM TypeCorrect == Spec => []TypeOK
BY InitTyped, StepTyped, PTL DEF Spec

---------------------------------------------------------------------------
(* The refinement: a pickup is a Take, a broadcast an Appear, and everything *)
(* else leaves the game alone.                                               *)

Home == [i \in Item |-> IF field[i] = None THEN None ELSE field[i].region]

LEMMA HomeRegion ==
    ASSUME FieldOK, NEW i \in Item
    PROVE  /\ Home[i] \in Region \cup {None}
           /\ Home[i] # None <=> field[i] # None
BY PlacementRegion, FieldAssumption DEF Home, FieldOK, FieldAssumption

\* An instance has its own copies of the operators it uses.
LEMMA SameSets ==
    ASSUME NEW S
    PROVE  Game!Cardinality(S) = Cardinality(S)
BY DEF Game!Cardinality, Cardinality, Game!IsFiniteSet, IsFiniteSet

\* Both modules count the same items.
LEMMA SameCount ==
    ASSUME FieldAssumption, NEW D, NEW f \in [D -> Placement \cup {None}], NEW r \in Region,
           NEW h, h = [i \in D |-> IF f[i] = None THEN None ELSE f[i].region]
    PROVE  CountIn(f, r) = Game!CountIn(h, r)
<1>1. r # None
  BY DEF FieldAssumption
<1>2. {i \in DOMAIN f : f[i] # None /\ f[i].region = r} = {i \in DOMAIN h : h[i] = r}
  BY <1>1
<1> QED BY <1>2, SameSets DEF CountIn, Game!CountIn

LEMMA InitGame == Init => Game!Init
<1> SUFFICES ASSUME Init PROVE Game!Init
  OBVIOUS
<1>1. PICK f \in [Item -> Placement \cup {None}], n \in 1..(MaxItem + 1) :
          Populated(f, n) /\ field = f /\ nextID = n
  BY DEF Init
<1>2. FieldOK
  BY InitTyped, Parts
<1>3. 1..(nextID - 1) \in SUBSET Item
  BY <1>2, FieldAssumption DEF FieldAssumption, FieldOK, Item
<1>4. Home \in [Item -> Region \cup {None}]
  BY <1>2, HomeRegion DEF Home
<1>5. \A i \in Item : Home[i] # None <=> i \in 1..(nextID - 1)
  BY <1>1, <1>2, HomeRegion, FieldAssumption DEF FieldAssumption, Populated, Item
<1>6. \A r \in Region : Game!CountIn(Home, r) = TargetCount[r]
  BY <1>1, SameCount, FieldAssumption DEF Populated, Home
<1> QED BY <1>3, <1>4, <1>5, <1>6 DEF Init, Game!Init, Home

LEMMA PickUpTakes ==
    ASSUME FieldOK, NEW p \in Player, NEW i \in Item, CanPickUp(p, i), PickUp(p, i)
    PROVE  Game!Take(p, i)
<1>1. field[i] # None /\ field[i] \in Placement /\ field[i].region \in Region
  BY PlacementRegion DEF CanPickUp, FieldOK
<1>2. Home[i] = field[i].region
  BY <1>1 DEF Home
<1>3. Home' = [Home EXCEPT ![i] = None]
  BY <1>1 DEF PickUp, Remove, Home, FieldOK
<1>4. replacements' = [replacements EXCEPT ![Home[i]] = @ + 1]
  BY <1>2 DEF PickUp, Remove, Schedule
<1>5. score' = [score EXCEPT ![p] = @ + 1] /\ nextID' = nextID
  BY DEF PickUp, Remove
<1>6. Home[i] # None
  BY <1>1, HomeRegion
<1> QED BY <1>3, <1>4, <1>5, <1>6 DEF Game!Take, Home

LEMMA AdvanceAppears ==
    ASSUME FieldOK, NEW new \in Spawnable, AdvanceReplacements(new), UNCHANGED score
    PROVE  Game!Next
<1> DEFINE S == DOMAIN new
           regionOf == [i \in S |-> new[i].region]
<1>1. S \in SUBSET Item /\ new \in [S -> Placement]
      /\ S = nextID..(nextID + Cardinality(S) - 1)
  BY SpawnableBatch
<1>2. \A i \in S : new[i] \in Placement /\ new[i] # None /\ new[i].region \in Region
  BY <1>1, PlacementRegion
<1>3. regionOf \in [S -> Region]
  BY <1>2
<1>4. \A r \in Region : CountIn(new, r) = Game!CountIn(regionOf, r)
  <2>1. new \in [S -> Placement \cup {None}]
    BY <1>1
  <2>2. regionOf = [i \in S |-> IF new[i] = None THEN None ELSE new[i].region]
    BY <1>2
  <2> HIDE DEF regionOf, S
  <2> QED BY <2>1, <2>2, SameCount, FieldAssumption
<1>5. Cardinality(S) \in Nat /\ nextID \in Nat
  <2>1. IsFiniteSet(Item)
    BY FS_Interval, FieldAssumption DEF Item, FieldAssumption
  <2> QED BY <2>1, <1>1, FS_Subset, FS_CardinalityType DEF FieldOK
<1>6. S \cap (1..(nextID - 1)) = {}
  BY <1>1, <1>5
<1>7. Home' = [i \in Item |-> IF i \in S THEN regionOf[i] ELSE Home[i]]
  BY <1>1, <1>2 DEF AdvanceReplacements, Home
<1>8. replacements' = [r \in Region |-> replacements[r] - Game!CountIn(regionOf, r)]
  BY <1>4 DEF AdvanceReplacements
<1>9. 1..(nextID' - 1) = (1..(nextID - 1)) \cup S
  <2>1. nextID' = nextID + Cardinality(S) /\ nextID >= 1
    BY DEF AdvanceReplacements, NextID, FieldOK
  <2>2. \A k \in Int : k \in S <=> nextID <= k /\ k <= nextID + Cardinality(S) - 1
    BY <1>1, <1>5
  <2>3. S \subseteq Int
    BY <1>1, <1>5
  <2> QED BY <1>5, <2>1, <2>2, <2>3
<1>10. \A r \in Region : Game!CountIn(regionOf, r) <= replacements[r]
  BY <1>4, SpawnableBatch
<1>11. Game!Appear(S, regionOf)
  BY <1>6, <1>7, <1>8, <1>9, <1>10 DEF Game!Appear, Home
<1> QED BY <1>1, <1>3, <1>11 DEF Game!Next

LEMMA StepGame == FieldOK /\ PlayersOK /\ [Next]_vars => [Game!Next]_(Game!vars)
<1> SUFFICES ASSUME FieldOK, PlayersOK, [Next]_vars PROVE [Game!Next]_(Game!vars)
  OBVIOUS
<1>1. UNCHANGED <<fieldVars, score>> => UNCHANGED Game!vars
  BY DEF fieldVars, Game!vars
<1>2. ASSUME NEW p \in Player, NEW pt, Register(p, pt) \/ Move(p, pt) \/ Replace(p) \/ Disconnect(p)
      PROVE  UNCHANGED <<fieldVars, score>>
  BY <1>2 DEF Register, Move, Replace, Disconnect, SendInitialization
<1>3. ASSUME NEW p, NEW i, PerformPickup(p, i) PROVE UNCHANGED <<fieldVars, score>>
  BY <1>3 DEF PerformPickup
<1>4. ASSUME NEW q \in requests, ProcessCollect(q) PROVE [Game!Next]_(Game!vars)
  <2>1. q.player \in Player /\ q.item \in Item
    BY DEF PlayersOK, Request
  <2>2. CASE UNCHANGED <<fieldVars, score>>
    BY <2>2, <1>1
  <2>3. CASE CanPickUp(q.player, q.item) /\ PickUp(q.player, q.item)
    BY <2>1, <2>3, PickUpTakes DEF Game!Next
  <2> QED BY <1>4, <2>2, <2>3 DEF ProcessCollect, IgnoreCollect, AnswerCollect
<1>5. ASSUME NEW new \in Spawnable, NEW dropped, Broadcast(new, dropped) PROVE Game!Next
  BY <1>5, AdvanceAppears DEF Broadcast
<1>6. CASE UNCHANGED vars
  BY <1>1, <1>6 DEF vars
<1> QED BY <1>1, <1>2, <1>3, <1>4, <1>5, <1>6 DEF Next

\* Requests of any number of players, connections and stale browsers, between
\* any broadcasts, give the point of an item to one player only: the hub
\* implements Pickups.
THEOREM OnePoint == Spec => OnePointPerItem
<1>1. FieldOK /\ PlayersOK <=> TypeOK
  BY Parts
<1>2. Init => Game!Init
  BY InitGame
<1>3. TypeOK /\ [Next]_vars => [Game!Next]_(Game!vars)
  BY StepGame, <1>1
<1> QED BY <1>2, <1>3, TypeCorrect, PTL DEF Spec, OnePointPerItem, Game!Spec

---------------------------------------------------------------------------
(* No region loses or gains an item *)

\* What lies in a region and what is owed to it make its target.
RegionsHeld == \A r \in Region : CountIn(field, r) + replacements[r] = TargetCount[r]

LEMMA CountIsNat ==
    ASSUME NEW S \in SUBSET Item, NEW f \in [S -> Placement \cup {None}], NEW r
    PROVE  /\ IsFiniteSet({i \in S : f[i] # None /\ f[i].region = r})
           /\ CountIn(f, r) = Cardinality({i \in S : f[i] # None /\ f[i].region = r})
           /\ CountIn(f, r) \in Nat
<1> DEFINE lying == {i \in S : f[i] # None /\ f[i].region = r}
<1>1. IsFiniteSet(Item)
  BY FS_Interval, FieldAssumption DEF Item, FieldAssumption
<1>2. lying \in SUBSET Item /\ IsFiniteSet(lying)
  BY <1>1, FS_Subset
<1>3. CountIn(f, r) = Cardinality(lying)
  BY DEF CountIn
<1> QED BY <1>2, <1>3, FS_CardinalityType

\* Taking an item empties one place of its region and of no other.
LEMMA RemoveKeeps ==
    ASSUME FieldOK, RegionsHeld, NEW i \in Item, field[i] # None, Remove(i)
    PROVE  RegionsHeld'
<1> SUFFICES ASSUME NEW r \in Region
             PROVE  CountIn(field', r) + replacements'[r] = TargetCount[r]
  BY DEF RegionsHeld
<1> DEFINE before == {j \in Item : field[j] # None /\ field[j].region = r}
           after == {j \in Item : field'[j] # None /\ field'[j].region = r}
<1>1. field[i].region \in Region
  BY PlacementRegion DEF FieldOK
<1>2. field' = [field EXCEPT ![i] = None] /\ field' \in [Item -> Placement \cup {None}]
  BY DEF Remove, FieldOK
<1>3. /\ IsFiniteSet(before) /\ CountIn(field, r) = Cardinality(before)
      /\ CountIn(field', r) = Cardinality(after) /\ CountIn(field, r) \in Nat
  <2>1. Item \in SUBSET Item /\ field \in [Item -> Placement \cup {None}]
        /\ field' \in [Item -> Placement \cup {None}]
    BY <1>2 DEF FieldOK
  <2>2. IsFiniteSet(before) /\ CountIn(field, r) = Cardinality(before)
        /\ CountIn(field, r) \in Nat
    BY ONLY <2>1, CountIsNat
  <2>3. CountIn(field', r) = Cardinality(after)
    BY ONLY <2>1, CountIsNat
  <2> QED BY <2>2, <2>3
<1>4. after = before \ {i}
  BY <1>2 DEF FieldOK
<1>5. i \in before <=> field[i].region = r
  OBVIOUS
<1>6. CountIn(field', r) = IF field[i].region = r THEN CountIn(field, r) - 1 ELSE CountIn(field, r)
  <2> HIDE DEF before, after
  <2>1. CASE i \in before
    BY <1>3, <1>4, <1>5, <2>1, FS_RemoveElement
  <2>2. CASE i \notin before
    <3>1. after = before
      BY <1>4, <2>2
    <3> QED BY <1>3, <1>5, <2>2, <3>1
  <2> QED BY <2>1, <2>2
<1>7. replacements'[r] = IF field[i].region = r THEN replacements[r] + 1 ELSE replacements[r]
  BY <1>1 DEF Remove, Schedule, FieldOK
<1>8. CountIn(field, r) + replacements[r] = TargetCount[r] /\ replacements[r] \in Nat
  BY DEF RegionsHeld, FieldOK
<1> QED BY <1>3, <1>6, <1>7, <1>8

\* New items fill places that are owed.
LEMMA AdvanceKeeps ==
    ASSUME FieldOK, RegionsHeld, NEW new \in Spawnable, AdvanceReplacements(new), FieldOK'
    PROVE  RegionsHeld'
<1> SUFFICES ASSUME NEW r \in Region
             PROVE  CountIn(field', r) + replacements'[r] = TargetCount[r]
  BY DEF RegionsHeld
<1> DEFINE D == DOMAIN new
           before == {j \in Item : field[j] # None /\ field[j].region = r}
           fresh == {j \in D : new[j] # None /\ new[j].region = r}
           after == {j \in Item : field'[j] # None /\ field'[j].region = r}
<1>1. D \in SUBSET Item /\ new \in [D -> Placement \cup {None}]
  BY SpawnableBatch
<1>2. \A j \in D : field[j] = None
  BY NewIsUnused
<1>3. /\ before \in SUBSET Item /\ IsFiniteSet(before) /\ CountIn(field, r) = Cardinality(before)
      /\ IsFiniteSet(fresh) /\ CountIn(new, r) = Cardinality(fresh)
      /\ CountIn(field', r) = Cardinality(after)
      /\ CountIn(field, r) \in Nat /\ CountIn(new, r) \in Nat
  <2>1. Item \in SUBSET Item /\ field \in [Item -> Placement \cup {None}]
        /\ field' \in [Item -> Placement \cup {None}]
    BY DEF FieldOK
  <2>2. IsFiniteSet(before) /\ CountIn(field, r) = Cardinality(before)
        /\ CountIn(field, r) \in Nat
    BY ONLY <2>1, CountIsNat
  <2>3. CountIn(field', r) = Cardinality(after)
    BY ONLY <2>1, CountIsNat
  <2>4. IsFiniteSet(fresh) /\ CountIn(new, r) = Cardinality(fresh) /\ CountIn(new, r) \in Nat
    BY ONLY <1>1, CountIsNat
  <2> QED BY <2>2, <2>3, <2>4
<1>4. after = before \cup fresh /\ before \cap fresh = {}
  BY <1>1, <1>2 DEF AdvanceReplacements, FieldOK
<1>5. CountIn(field', r) = CountIn(field, r) + CountIn(new, r)
  <2> HIDE DEF before, fresh, after
  <2>1. Cardinality(before \cup fresh)
            = Cardinality(before) + Cardinality(fresh) - Cardinality(before \cap fresh)
    BY <1>3, FS_Union
  <2>2. Cardinality(before \cap fresh) = 0
    BY <1>4, FS_EmptySet
  <2> QED BY <1>3, <1>4, <2>1, <2>2
<1>6. replacements'[r] = replacements[r] - CountIn(new, r) /\ replacements[r] \in Nat
  BY DEF AdvanceReplacements, FieldOK
<1>7. CountIn(field, r) + replacements[r] = TargetCount[r]
  BY DEF RegionsHeld
<1> QED BY <1>3, <1>5, <1>6, <1>7

LEMMA StepRegions == TypeOK /\ TypeOK' /\ RegionsHeld /\ [Next]_vars => RegionsHeld'
<1>a. TypeOK' => FieldOK'
  BY DEF TypeOK, FieldOK
<1> SUFFICES ASSUME FieldOK, FieldOK', PlayersOK, RegionsHeld, [Next]_vars PROVE RegionsHeld'
  BY <1>a, Parts
<1>1. UNCHANGED fieldVars => RegionsHeld'
  BY DEF fieldVars, RegionsHeld, CountIn
<1>2. ASSUME NEW p \in Player, NEW pt, Register(p, pt) \/ Move(p, pt) \/ Replace(p) \/ Disconnect(p)
      PROVE  UNCHANGED fieldVars
  BY <1>2 DEF Register, Move, Replace, Disconnect, SendInitialization
<1>3. ASSUME NEW p, NEW i, PerformPickup(p, i) PROVE UNCHANGED fieldVars
  BY <1>3 DEF PerformPickup
<1>4. ASSUME NEW q \in requests, ProcessCollect(q) PROVE RegionsHeld'
  <2>1. q.item \in Item
    BY DEF PlayersOK, Request
  <2>2. CASE CanPickUp(q.player, q.item) /\ PickUp(q.player, q.item)
    BY <2>1, <2>2, RemoveKeeps DEF CanPickUp, PickUp
  <2> QED BY <1>1, <1>4, <2>2 DEF ProcessCollect, IgnoreCollect, AnswerCollect
<1>5. ASSUME NEW new \in Spawnable, NEW dropped, Broadcast(new, dropped) PROVE RegionsHeld'
  BY <1>5, AdvanceKeeps DEF Broadcast
<1>6. CASE UNCHANGED vars
  BY <1>1, <1>6 DEF vars
<1> QED BY <1>1, <1>2, <1>3, <1>4, <1>5, <1>6 DEF Next

\* Whatever is taken and replaced in whatever order, a region's live items and its
\* pending replacements always make its target (Remove schedules one replacement,
\* AdvanceReplacements spends it).
THEOREM RegionsConserved == Spec => []Game!RegionsKept
<1>1. Init => RegionsHeld
  <2> SUFFICES ASSUME Init PROVE RegionsHeld
    OBVIOUS
  <2>1. \A r \in Region : replacements[r] = 0 /\ CountIn(field, r) = TargetCount[r]
    BY DEF Init, Populated
  <2> QED BY <2>1, FieldAssumption DEF RegionsHeld, FieldAssumption
<1>2. TypeOK /\ RegionsHeld => Game!RegionsKept
  <2> SUFFICES ASSUME FieldOK, RegionsHeld PROVE Game!RegionsKept
    BY Parts
  <2>1. \A r \in Region : Game!CountIn(Home, r) = CountIn(field, r)
    BY SameCount, FieldAssumption DEF FieldOK, Home
  <2> QED BY <2>1 DEF RegionsHeld, Game!RegionsKept, Home
<1> QED BY <1>1, <1>2, StepRegions, TypeCorrect, PTL DEF Spec

---------------------------------------------------------------------------
(* What is tracked for a player is in step with the field *)

LEMMA PlacementPoint ==
    ASSUME NEW x \in Placement PROVE x.at \in Int \X Int
BY FieldAssumption DEF Placement, FieldAssumption

LEMMA NineCellsSymmetric ==
    ASSUME NEW a \in Int \X Int, NEW b \in Int \X Int
    PROVE  NineCells(a, b) <=> NineCells(b, a)
<1>1. \A k \in 1..2 : a[k] \div CellSize \in Int /\ b[k] \div CellSize \in Int
  BY FieldAssumption DEF FieldAssumption
<1>2. \A m, n \in Int : m - n \in -1..1 <=> n - m \in -1..1
  OBVIOUS
<1> QED BY <1>1, <1>2 DEF NineCells

\* The inductive invariant: what is tracked lies in the cells around the indexed
\* position, where the fan-out of its pickup finds the player.
InStep(p) ==
    /\ at[p] = wpos[p]
    /\ \A i \in Tracked(visible, p) :
          i \in Item /\ field[i] # None /\ NineCells(at[p], field[i].at)
    /\ visible[p] # None =>
          CollectiblesWithinRadius(field, wpos[p], EnterRadius) \subseteq visible[p]
TrackInv == \A p \in clients \ moved : InStep(p)

LEMMA InitializedInStep ==
    ASSUME PlayersOK, TrackInv, NEW p \in Player, NEW pt, SendInitialization(p, pt),
           p \notin moved' => wpos'[p] = pt /\ at'[p] = pt,
           clients' \subseteq clients \cup {p}, moved' = moved,
           \A q \in clients \ {p} : wpos'[q] = wpos[q] /\ at'[q] = at[q]
    PROVE  TrackInv'
<1> SUFFICES ASSUME NEW q \in clients' \ moved' PROVE InStep(q)'
  BY DEF TrackInv
<1>1. UNCHANGED field /\ \A r \in Player \ {p} : visible'[r] = visible[r]
  BY DEF SendInitialization, fieldVars, PlayersOK
<1>2. CASE q = p
  <2> DEFINE near == CollectiblesWithinRadius(field, pt, EnterRadius)
  <2>1. visible'[p] = IF near = {} THEN None ELSE near
    BY DEF SendInitialization, PlayersOK
  <2>2. \A i \in near : i \in Item /\ field[i] # None /\ NineCells(pt, field[i].at)
    BY DEF CollectiblesWithinRadius
  <2>3. Tracked(visible, p)' \subseteq near
    BY <2>1 DEF Tracked
  <2>4. visible'[p] # None => near = visible'[p]
    BY <2>1
  <2>5. wpos'[p] = pt /\ at'[p] = pt
    BY <1>2
  <2> QED BY <1>1, <1>2, <2>2, <2>3, <2>4, <2>5 DEF InStep
<1>3. CASE q # p
  <2>1. q \in clients \ moved /\ q \in Player
    BY <1>3 DEF PlayersOK
  <2>2. InStep(q)
    BY <2>1 DEF TrackInv
  <2> QED BY <1>1, <1>3, <2>1, <2>2 DEF InStep, Tracked
<1> QED BY <1>2, <1>3

\* A pickup is told to everyone for whom the item is tracked.
LEMMA PickUpInStep ==
    ASSUME FieldOK, PlayersOK, TrackInv, NEW p \in Player, NEW i \in Item, CanPickUp(p, i),
           PickUp(p, i), UNCHANGED playerVars
    PROVE  TrackInv'
<1> SUFFICES ASSUME NEW q \in clients \ moved PROVE InStep(q)'
  BY DEF TrackInv, playerVars
<1> DEFINE told == QueryPlayerIDsNearPoint(at, field[i].at) \cap clients
<1>1. /\ q \in Player /\ InStep(q)
      /\ at'[q] = at[q] /\ wpos'[q] = wpos[q]
  BY DEF TrackInv, PlayersOK, playerVars
<1>2. field'[i] = None /\ \A j \in Item \ {i} : field'[j] = field[j]
  BY DEF PickUp, Remove, FieldOK
<1>3. visible'[q] = IF q \in told /\ visible[q] # None THEN visible[q] \ {i} ELSE visible[q]
  BY <1>1 DEF PickUp
<1>4. i \in Tracked(visible, q) => q \in told
  <2>1. SUFFICES ASSUME i \in Tracked(visible, q) PROVE q \in told
    OBVIOUS
  <2>2. field[i] \in Placement /\ NineCells(at[q], field[i].at)
    BY <1>1, <2>1 DEF InStep, FieldOK
  <2>3. at[q] \in Point /\ at[q] # None
    BY <1>1 DEF PlayersOK
  <2>4. NineCells(field[i].at, at[q])
    BY <2>2, <2>3, PlacementPoint, NineCellsSymmetric, FieldAssumption DEF FieldAssumption
  <2> QED BY <1>1, <2>3, <2>4 DEF QueryPlayerIDsNearPoint
<1> HIDE DEF told
<1>5. /\ Tracked(visible, q)' \subseteq Tracked(visible, q) \ {i}
      /\ visible'[q] # None => visible[q] # None /\ visible[q] \ {i} \subseteq visible'[q]
  BY <1>3, <1>4 DEF Tracked
<1>6. CollectiblesWithinRadius(field', wpos[q], EnterRadius)
          \subseteq CollectiblesWithinRadius(field, wpos[q], EnterRadius) \ {i}
  BY <1>2 DEF CollectiblesWithinRadius
<1> QED BY <1>1, <1>2, <1>5, <1>6 DEF InStep

\* A broadcast recalculates for whoever moved, and tells the others of what is new
\* in their cells.
LEMMA BroadcastInStep ==
    ASSUME FieldOK, PlayersOK, TrackInv, NEW new \in Spawnable,
           NEW dropped \in SUBSET clients, Broadcast(new, dropped)
    PROVE  TrackInv'
<1> SUFFICES ASSUME NEW p \in clients PROVE InStep(p)'
  BY DEF Broadcast, TrackInv
<1> DEFINE near == CollectiblesWithinRadius(field', wpos[p], EnterRadius)
           spawned == SpawnedFor(p, at', new)
           prev == WithSpawned(p, spawned)
<1>1. /\ p \in Player /\ wpos'[p] = wpos[p]
      /\ at'[p] = IF p \in moved THEN wpos[p] ELSE at[p]
  BY DEF Broadcast, PlayersOK
<1>2. visible'[p] = IF p \in moved THEN near ELSE prev
  <2>1. visible'[p] = Broadcasted(p, field', at', new, p \in dropped).visible
    BY <1>1 DEF Broadcast
  <2>2. Broadcasted(p, field', at', new, p \in dropped).visible
            = IF p \in moved THEN near ELSE prev
    BY DEF Broadcasted, Recalculate
  <2> QED BY <2>1, <2>2
<1>3. \A j \in near : j \in Item /\ field'[j] # None /\ NineCells(wpos[p], field'[j].at)
  BY DEF CollectiblesWithinRadius
<1>4. CASE p \in moved
  BY <1>1, <1>2, <1>3, <1>4 DEF InStep, Tracked
<1>5. CASE p \notin moved
  <2>1. InStep(p) /\ at'[p] = at[p] /\ at[p] = wpos[p] /\ at[p] \in Point /\ at[p] # None
    BY <1>1, <1>5 DEF TrackInv, PlayersOK, InStep
  <2>2. \A j \in Item : field'[j] = IF j \in DOMAIN new THEN new[j] ELSE field[j]
    BY DEF Broadcast, AdvanceReplacements
  <2>3. \A j \in DOMAIN new : /\ j \in Item /\ new[j] \in Placement /\ new[j] # None
                              /\ new[j].at \in Int \X Int /\ field[j] = None
    <3>1. DOMAIN new \in SUBSET Item /\ new \in [DOMAIN new -> Placement]
          /\ DOMAIN new = nextID..(nextID + Cardinality(DOMAIN new) - 1)
      BY SpawnableBatch
    <3>2. \A j \in DOMAIN new : field[j] = None
      BY NewIsUnused
    <3> QED BY <3>1, <3>2, PlacementRegion, PlacementPoint
  <2>4. at[p] \in Int \X Int
    BY <2>1, FieldAssumption DEF FieldAssumption
  <2>5. \A j \in DOMAIN new : NineCells(new[j].at, at[p]) <=> NineCells(at[p], new[j].at)
    BY <2>3, <2>4, NineCellsSymmetric
  <2>6. spawned = {j \in DOMAIN new : NineCells(new[j].at, at[p])}
    BY <1>1, <2>1 DEF SpawnedFor, QueryPlayerIDsNearPoint
  <2> HIDE DEF spawned
  <2>7. prev = IF visible[p] = None THEN None ELSE visible[p] \cup spawned
    BY DEF WithSpawned
  <2>8. Tracked(visible, p)' \subseteq Tracked(visible, p) \cup spawned
    BY <1>2, <1>5, <2>7 DEF Tracked
  <2>9. ASSUME NEW j \in Tracked(visible, p)'
        PROVE  j \in Item /\ field'[j] # None /\ NineCells(at'[p], field'[j].at)
    <3>1. CASE j \in spawned
      BY <2>1, <2>2, <2>3, <2>5, <2>6, <3>1
    <3>2. CASE j \in Tracked(visible, p)
      BY <2>1, <2>2, <2>3, <3>2 DEF InStep
    <3> QED BY <2>8, <3>1, <3>2
  <2>10. ASSUME visible'[p] # None, NEW j \in near
         PROVE  j \in visible'[p]
    <3>1. visible[p] # None /\ visible'[p] = visible[p] \cup spawned
      BY <1>2, <1>5, <2>7, <2>10
    <3>2. CASE j \in DOMAIN new
      BY <1>3, <2>1, <2>2, <2>5, <2>6, <3>1, <3>2
    <3>3. CASE j \notin DOMAIN new
      <4>1. j \in CollectiblesWithinRadius(field, wpos[p], EnterRadius)
        BY <2>2, <3>3 DEF CollectiblesWithinRadius
      <4> QED BY <2>1, <3>1, <4>1 DEF InStep
    <3> QED BY <3>2, <3>3
  <2> QED BY <1>1, <2>1, <2>9, <2>10 DEF InStep
<1> QED BY <1>4, <1>5

LEMMA StepTracked == TypeOK /\ TrackInv /\ [Next]_vars => TrackInv'
<1> SUFFICES ASSUME FieldOK, PlayersOK, TrackInv, [Next]_vars PROVE TrackInv'
  BY Parts
<1>1. ASSUME NEW p \in Player, NEW pt \in Point, Register(p, pt) PROVE TrackInv'
  <2>1. /\ wpos'[p] = pt /\ at'[p] = pt /\ moved' = moved /\ clients' = clients \cup {p}
        /\ \A q \in clients \ {p} : wpos'[q] = wpos[q] /\ at'[q] = at[q]
    BY <1>1 DEF Register, PlayersOK
  <2> QED BY <1>1, <2>1, InitializedInStep DEF Register
<1>2. ASSUME NEW p \in Player, NEW pt \in Point, Move(p, pt) PROVE TrackInv'
  <2>1. ASSUME NEW q \in clients' \ moved' PROVE InStep(q)'
    <3>1. q \in clients \ moved /\ q # p /\ q \in Player /\ wpos'[q] = wpos[q]
      BY <1>2, <2>1 DEF Move, PlayersOK
    <3>2. UNCHANGED <<field, at, visible>> /\ InStep(q)
      BY <1>2, <3>1 DEF Move, fieldVars, TrackInv
    <3> QED BY <3>1, <3>2 DEF InStep, Tracked
  <2> QED BY <2>1 DEF TrackInv
<1>3. ASSUME NEW p \in Player, Replace(p) PROVE TrackInv'
  <2>1. p \in clients /\ SendInitialization(p, wpos[p]) /\ UNCHANGED playerVars
    BY <1>3 DEF Replace
  <2>2. p \notin moved => at[p] = wpos[p]
    BY <2>1 DEF TrackInv, InStep
  <2> QED BY <2>1, <2>2, InitializedInStep DEF playerVars
<1>4. ASSUME NEW p \in Player, Disconnect(p) PROVE TrackInv'
  <2>1. ASSUME NEW q \in clients' \ moved' PROVE InStep(q)'
    <3>1. /\ q \in clients \ moved /\ q # p /\ q \in Player
          /\ wpos'[q] = wpos[q] /\ at'[q] = at[q] /\ visible'[q] = visible[q]
      BY <1>4, <2>1 DEF Disconnect, PlayersOK
    <3>2. UNCHANGED field /\ InStep(q)
      BY <1>4, <3>1 DEF Disconnect, fieldVars, TrackInv
    <3> QED BY <3>1, <3>2 DEF InStep, Tracked
  <2> QED BY <2>1 DEF TrackInv
<1>5. ASSUME UNCHANGED <<field, clients, moved, wpos, at, visible>> PROVE TrackInv'
  BY <1>5 DEF TrackInv, InStep, Tracked
<1>6. ASSUME NEW p \in Player, NEW i \in Item, PerformPickup(p, i) PROVE TrackInv'
  BY <1>5, <1>6 DEF PerformPickup, fieldVars, playerVars
<1>7. ASSUME NEW q \in requests, ProcessCollect(q) PROVE TrackInv'
  <2>1. q.player \in Player /\ q.item \in Item
    BY DEF PlayersOK, Request
  <2>2. CASE UNCHANGED <<fieldVars, score, visible, collected>>
    BY <1>5, <1>7, <2>2 DEF ProcessCollect, fieldVars, playerVars
  <2>3. CASE CanPickUp(q.player, q.item) /\ PickUp(q.player, q.item)
    BY <1>7, <2>1, <2>3, PickUpInStep DEF ProcessCollect
  <2> QED BY <1>7, <2>2, <2>3 DEF ProcessCollect, IgnoreCollect, AnswerCollect
<1>8. ASSUME NEW new \in Spawnable, NEW dropped \in SUBSET clients, Broadcast(new, dropped)
      PROVE  TrackInv'
  BY <1>8, BroadcastInStep
<1>9. CASE UNCHANGED vars
  BY <1>5, <1>9 DEF vars, fieldVars, playerVars
<1> QED BY <1>1, <1>2, <1>3, <1>4, <1>6, <1>7, <1>8, <1>9 DEF Next

\* Whoever picks up, moves, reconnects or spawns, in any geometry: once a movement
\* has been broadcast, what may be picked up by a player are live items, all of
\* those around it among them (sendInitialization, recalcCollectibleVisibility,
\* advanceCollectibleReplacements, processCollect).
THEOREM TrackedInStep == Spec => []TrackedItems
<1>1. Init => TrackInv
  BY DEF Init, TrackInv
<1>2. TrackInv => TrackedItems
  BY DEF TrackInv, InStep, TrackedItems
<1> QED BY <1>1, <1>2, StepTracked, TypeCorrect, PTL DEF Spec

---------------------------------------------------------------------------
(* The gems of the browsers *)

\* A collected item that is yet to be announced is gone for good.
Announced == \A p \in Player : \A i \in collected[p] : field[i] = None /\ i < nextID
GemInv == Announced /\ GemsTracked

LEMMA InitializedGems ==
    ASSUME FieldOK, PlayersOK, GemInv, NEW p \in Player, NEW pt, SendInitialization(p, pt),
           clients' \subseteq clients \cup {p}
    PROVE  GemInv'
<1>1. /\ UNCHANGED <<field, nextID>>
      /\ \A q \in Player \ {p} : /\ visible'[q] = visible[q] /\ gems'[q] = gems[q]
                                 /\ collected'[q] = collected[q] /\ gap'[q] = gap[q]
      /\ collected'[p] = {}
  BY DEF SendInitialization, fieldVars, PlayersOK
<1>2. Tracked(visible, p)' = gems'[p]
  <2> DEFINE near == CollectiblesWithinRadius(field, pt, EnterRadius)
  <2>1. gems'[p] = near /\ visible'[p] = IF near = {} THEN None ELSE near
    BY DEF SendInitialization, PlayersOK
  <2>2. near # None
    BY NoneAssumption DEF NoneAssumption, CollectiblesWithinRadius
  <2> HIDE DEF near
  <2> QED BY <2>1, <2>2 DEF Tracked
<1>3. Announced'
  BY <1>1 DEF GemInv, Announced
<1>4. GemsTracked'
  BY <1>1, <1>2 DEF GemInv, GemsTracked, Tracked, PlayersOK
<1> QED BY <1>3, <1>4 DEF GemInv

LEMMA PickUpGems ==
    ASSUME FieldOK, PlayersOK, GemInv, NEW p \in Player, NEW i \in Item, CanPickUp(p, i),
           PickUp(p, i), UNCHANGED <<playerVars, gems, gap>>
    PROVE  GemInv'
<1>1. /\ field'[i] = None /\ \A j \in Item \ {i} : field'[j] = field[j]
      /\ UNCHANGED nextID /\ i < nextID
  BY DEF PickUp, Remove, FieldOK, CanPickUp
<1>2. \A q \in Player :
          \/ visible'[q] = visible[q] /\ collected'[q] \subseteq collected[q] \cup {i}
             /\ collected[q] \subseteq collected'[q]
          \/ visible[q] # None /\ visible'[q] = visible[q] \ {i}
             /\ collected'[q] = collected[q] \cup {i}
  BY DEF PickUp
<1>3. Announced'
  BY <1>1, <1>2 DEF GemInv, Announced, PlayersOK
<1>4. \A q \in Player :
          /\ Tracked(visible, q)' \subseteq Tracked(visible, q)
          /\ Tracked(visible, q) \cup collected[q] \subseteq Tracked(visible, q)' \cup collected'[q]
  <2> SUFFICES ASSUME NEW q \in Player
               PROVE  /\ Tracked(visible, q)' \subseteq Tracked(visible, q)
                      /\ Tracked(visible, q) \cup collected[q]
                            \subseteq Tracked(visible, q)' \cup collected'[q]
    OBVIOUS
  <2>1. CASE visible'[q] = visible[q] /\ collected[q] \subseteq collected'[q]
    BY <2>1 DEF Tracked
  <2>2. CASE visible[q] # None /\ visible'[q] = visible[q] \ {i} /\ collected'[q] = collected[q] \cup {i}
    <3>1. visible'[q] # None
      BY <2>2, NoneAssumption DEF PlayersOK, NoneAssumption
    <3> QED BY <2>2, <3>1 DEF Tracked
  <2> QED BY <1>2, <2>1, <2>2
<1>5. GemsTracked'
  BY <1>4 DEF GemInv, GemsTracked, PlayersOK, playerVars
<1> QED BY <1>3, <1>5 DEF GemInv

LEMMA EnterWithinLeave ==
    ASSUME NEW f, NEW pt \in Point, \A i \in Item : f[i] # None => f[i].at \in Int \X Int
    PROVE  CollectiblesWithinRadius(f, pt, EnterRadius)
               \subseteq CollectiblesWithinRadius(f, pt, LeaveRadius)
<1>1. EnterRadius * EnterRadius <= LeaveRadius * LeaveRadius
      /\ EnterRadius * EnterRadius \in Int /\ LeaveRadius * LeaveRadius \in Int
  BY FieldAssumption, SMT DEF FieldAssumption
<1>2. ASSUME NEW a \in Int \X Int, NEW b \in Int \X Int PROVE SqDist(a, b) \in Int
  <2>1. \A m \in Int : m * m \in Int
    OBVIOUS
  <2> QED BY <2>1 DEF SqDist
<1>3. pt \in Int \X Int
  BY FieldAssumption DEF FieldAssumption
<1>4. ASSUME NEW i \in CollectiblesWithinRadius(f, pt, EnterRadius)
      PROVE  i \in CollectiblesWithinRadius(f, pt, LeaveRadius)
  <2>1. i \in Item /\ f[i] # None /\ NineCells(pt, f[i].at)
        /\ SqDist(pt, f[i].at) <= EnterRadius * EnterRadius
    BY <1>4 DEF CollectiblesWithinRadius
  <2>2. SqDist(pt, f[i].at) \in Int
    BY <1>2, <1>3, <2>1
  <2>3. SqDist(pt, f[i].at) <= LeaveRadius * LeaveRadius
    BY <1>1, <2>1, <2>2
  <2> QED BY <2>1, <2>3 DEF CollectiblesWithinRadius
<1> QED BY <1>4

\* What a broadcast tells a browser, and what it drops in silence, account for
\* every difference between its gems and the tracked items.
LEMMA BroadcastGems ==
    ASSUME FieldOK, PlayersOK, TrackInv', GemInv, NEW new \in Spawnable,
           NEW dropped \in SUBSET clients, Broadcast(new, dropped), FieldOK'
    PROVE  GemInv'
<1>1. Announced'
  BY DEF Broadcast, Announced
<1> SUFFICES ASSUME NEW p \in clients, NEW i \in Item, i \notin gap'[p]
             PROVE  /\ i \in Tracked(visible, p)' => i \in gems'[p]
                    /\ i \in gems'[p] => i \in Tracked(visible, p)'
  BY <1>1 DEF GemInv, GemsTracked, Broadcast
<1> DEFINE spawned == SpawnedFor(p, at', new)
           prev == WithSpawned(p, spawned)
           held == IF prev = None THEN {} ELSE prev
           recalc == IF p \in moved THEN Recalculate(field', wpos[p], held)
                     ELSE [visible |-> prev, entered |-> {}, left |-> {}]
           tracked == IF recalc.visible = None THEN {} ELSE recalc.visible
           change == [entered |-> recalc.entered, left |-> recalc.left,
                      spawned |-> spawned, collected |-> collected[p]]
           update == Normalize(change)
           silent == (held \cup spawned) \ (tracked \cup recalc.left \cup collected[p])
           was == Tracked(visible, p)
<1>2. p \in Player
  BY DEF PlayersOK
<1>3. /\ visible'[p] = recalc.visible
      /\ gems'[p] = IF p \in dropped THEN gems[p] ELSE ApplyUpdate(gems[p], update)
      /\ gap'[p] = silent \cup (IF p \in dropped THEN gap[p] \cup Subjects(update)
                                ELSE gap[p] \ Subjects(update))
  <2> DEFINE lost == p \in dropped
             result == Broadcasted(p, field', at', new, lost)
  <2>1. visible'[p] = result.visible /\ gems'[p] = result.gems /\ gap'[p] = result.gap
    BY <1>2 DEF Broadcast
  <2>2. /\ result.visible = recalc.visible
        /\ result.gems = IF lost THEN gems[p] ELSE ApplyUpdate(gems[p], update)
        /\ result.gap = silent \cup (IF lost THEN gap[p] \cup Subjects(update)
                                     ELSE gap[p] \ Subjects(update))
    BY DEF Broadcasted
  <2> QED BY <2>1, <2>2
<1>4. Tracked(visible, p)' = tracked
  BY <1>3 DEF Tracked
<1>5. /\ visible[p] = None => held = {} /\ was = {}
      /\ visible[p] # None => held = was \cup spawned
      /\ p \notin moved => tracked = held
  <2>1. spawned \subseteq Item
    BY SpawnableBatch DEF SpawnedFor
  <2> HIDE DEF spawned
  <2>2. visible[p] # None => visible[p] \cup spawned # None
    BY <1>2, <2>1, NoneAssumption DEF PlayersOK, NoneAssumption
  <2> QED BY <2>2 DEF WithSpawned, Tracked
<1>6. p \in moved =>
          /\ tracked \cap recalc.left = {}
          /\ recalc.entered = tracked \ held /\ recalc.left \subseteq held
  <2> SUFFICES ASSUME p \in moved
               PROVE  /\ tracked \cap recalc.left = {}
                      /\ recalc.entered = tracked \ held /\ recalc.left \subseteq held
    OBVIOUS
  <2> HIDE DEF held
  <2> DEFINE near == CollectiblesWithinRadius(field', wpos[p], EnterRadius)
             far == CollectiblesWithinRadius(field', wpos[p], LeaveRadius)
  <2>1. near \subseteq far
    <3>1. wpos[p] \in Point
      BY <1>2 DEF PlayersOK
    <3>2. \A j \in Item : field'[j] # None => field'[j].at \in Int \X Int
      BY PlacementPoint DEF FieldOK
    <3> DEFINE f == field'
    <3>3. f = field'
      OBVIOUS
    <3> HIDE DEF f
    <3>4. CollectiblesWithinRadius(f, wpos[p], EnterRadius)
              \subseteq CollectiblesWithinRadius(f, wpos[p], LeaveRadius)
      BY <3>1, <3>2, <3>3, EnterWithinLeave
    <3> QED BY <3>3, <3>4
  <2>2. near # None
    BY NoneAssumption DEF NoneAssumption, CollectiblesWithinRadius
  <2>3. recalc.visible = near /\ recalc.entered = near \ held /\ recalc.left = held \ far
    BY DEF Recalculate
  <2> HIDE DEF near, far, recalc
  <2> QED BY <2>1, <2>2, <2>3
<1>7. p \notin moved => recalc.entered = {} /\ recalc.left = {}
  OBVIOUS
\* What was collected is neither tracked nor spawned.
<1>8. i \in collected[p] => i \notin tracked /\ i \notin spawned
  <2> SUFFICES ASSUME i \in collected[p] PROVE i \notin tracked /\ i \notin spawned
    OBVIOUS
  <2>1. field[i] = None /\ i < nextID
    BY <1>2 DEF GemInv, Announced
  <2>2. i \notin DOMAIN new
    <3>1. i \in Int /\ nextID \in Int
      BY DEF FieldOK, Item
    <3>2. i \in DOMAIN new => i >= nextID
      BY NewIsUnused
    <3> QED BY <2>1, <3>1, <3>2
  <2>3. field'[i] = None
    BY <2>1, <2>2 DEF Broadcast, AdvanceReplacements
  <2>4. InStep(p)'
    BY DEF TrackInv, Broadcast
  <2>5. i \notin Tracked(visible, p)'
    BY <2>3, <2>4 DEF InStep
  <2> QED BY <1>4, <2>2, <2>5 DEF SpawnedFor
<1>9. i \notin gap[p] => /\ i \in was => i \in gems[p]
                         /\ i \in gems[p] => i \in was \cup collected[p]
  BY DEF GemInv, GemsTracked
<1> HIDE DEF spawned, prev, held, recalc, tracked, was
<1>10. i \in Subjects(update)
           <=> i \in recalc.entered \cup recalc.left \cup spawned \cup collected[p]
  BY DEF Subjects, Normalize
<1>11. i \in ApplyUpdate(gems[p], update) <=>
          /\ i \notin collected[p]
          /\ \/ i \in spawned /\ i \notin recalc.left
             \/ i \in gems[p] \cup recalc.entered /\ i \notin recalc.left
  BY DEF ApplyUpdate, Normalize
<1> HIDE DEF update
\* An item the update does not mention stays as it was.
<1>12. CASE i \notin Subjects(update)
  <2>1. i \notin silent /\ i \notin gap[p]
    BY <1>3, <1>12
  <2>2. i \in gems'[p] <=> i \in gems[p]
    BY <1>3, <1>10, <1>11, <1>12
  <2>3. i \in held <=> i \in was
    BY <1>5, <1>10, <1>12
  <2>4. i \in tracked <=> i \in held
    BY <1>5, <1>6, <1>10, <1>12, <2>1
  <2> QED BY <1>4, <1>9, <1>10, <1>12, <2>1, <2>2, <2>3, <2>4
<1>13. CASE i \in Subjects(update)
  <2>1. p \notin dropped /\ i \notin silent
    BY <1>3, <1>13
  <2>2. gems'[p] = ApplyUpdate(gems[p], update)
    BY <1>3, <2>1
  <2>3. CASE i \in collected[p]
    BY <1>4, <1>8, <1>11, <2>2, <2>3
  <2>4. CASE i \in recalc.left
    BY <1>4, <1>6, <1>7, <1>11, <2>2, <2>4
  <2>5. CASE i \in spawned /\ i \notin recalc.left /\ i \notin collected[p]
    BY <1>4, <1>11, <2>1, <2>2, <2>5
  <2>6. CASE i \in recalc.entered /\ i \notin recalc.left /\ i \notin collected[p]
    BY <1>4, <1>6, <1>7, <1>11, <2>2, <2>6
  <2> QED BY <1>10, <1>13, <2>3, <2>4, <2>5, <2>6
<1> QED BY <1>12, <1>13

LEMMA StepGems == TypeOK /\ GemInv /\ (TypeOK /\ TrackInv)' /\ [Next]_vars => GemInv'
<1>b. (FieldOK /\ PlayersOK)' <=> TypeOK'
  BY DEF TypeOK, FieldOK, PlayersOK
<1> SUFFICES ASSUME FieldOK, PlayersOK, GemInv, FieldOK', TrackInv', [Next]_vars PROVE GemInv'
  BY Parts, <1>b
<1>1. ASSUME NEW p \in Player, NEW pt \in Point, Register(p, pt) PROVE GemInv'
  BY <1>1, InitializedGems DEF Register
<1>2. ASSUME NEW p \in Player, Replace(p) PROVE GemInv'
  BY <1>2, InitializedGems DEF Replace, playerVars
<1>3. ASSUME NEW p \in Player, Disconnect(p) PROVE GemInv'
  <2>1. /\ UNCHANGED <<field, nextID>> /\ p \notin clients' /\ clients' \subseteq clients
        /\ \A q \in Player \ {p} : /\ visible'[q] = visible[q] /\ gems'[q] = gems[q]
                                   /\ collected'[q] = collected[q] /\ gap'[q] = gap[q]
        /\ collected'[p] = {}
    BY <1>3 DEF Disconnect, fieldVars, PlayersOK
  <2>2. Announced'
    BY <2>1 DEF GemInv, Announced
  <2>3. GemsTracked'
    BY <2>1 DEF GemInv, GemsTracked, Tracked, PlayersOK
  <2> QED BY <2>2, <2>3 DEF GemInv
<1>4. ASSUME UNCHANGED <<field, nextID, clients, visible, collected, gems, gap>> PROVE GemInv'
  BY <1>4 DEF GemInv, Announced, GemsTracked, Tracked
<1>5. ASSUME NEW p \in Player, NEW pt \in Point, Move(p, pt) PROVE GemInv'
  BY <1>4, <1>5 DEF Move, fieldVars
<1>6. ASSUME NEW p \in Player, NEW i \in Item, PerformPickup(p, i) PROVE GemInv'
  BY <1>4, <1>6 DEF PerformPickup, fieldVars, playerVars
<1>7. ASSUME NEW q \in requests, ProcessCollect(q) PROVE GemInv'
  <2>1. q.player \in Player /\ q.item \in Item
    BY DEF PlayersOK, Request
  <2>2. CASE UNCHANGED <<fieldVars, score, visible, collected>>
    BY <1>4, <1>7, <2>2 DEF ProcessCollect, fieldVars, playerVars
  <2>3. CASE CanPickUp(q.player, q.item) /\ PickUp(q.player, q.item)
    BY <1>7, <2>1, <2>3, PickUpGems DEF ProcessCollect
  <2> QED BY <1>7, <2>2, <2>3 DEF ProcessCollect, IgnoreCollect, AnswerCollect
<1>8. ASSUME NEW new \in Spawnable, NEW dropped \in SUBSET clients, Broadcast(new, dropped)
      PROVE  GemInv'
  BY <1>8, BroadcastGems
<1>9. CASE UNCHANGED vars
  BY <1>4, <1>9 DEF vars, fieldVars, playerVars
<1> QED BY <1>1, <1>2, <1>3, <1>5, <1>6, <1>7, <1>8, <1>9 DEF Next

\* The gems of a browser are the items tracked for its player and those whose
\* collection is about to be announced, save for what an update that was dropped
\* or an item let go of in silence explains (sendInitialization,
\* NormalizeReplicationChanges, applyReplicationUpdate).
THEOREM GemsInStep == Spec => []GemsTracked
<1>1. Init => GemInv /\ TrackInv
  BY DEF Init, GemInv, Announced, GemsTracked, TrackInv
<1>2. GemInv => GemsTracked
  BY DEF GemInv
<1> QED BY <1>1, <1>2, StepGems, StepTracked, TypeCorrect, PTL DEF Spec
==============================================================================
