------------------------------- MODULE Pickups -------------------------------
(***************************************************************************)
(* What the collectible world promises, with no connections, views or      *)
(* messages: an item on the field is worth one point to one player, and a  *)
(* region holds its target number of items or owes the replacements.       *)
(***************************************************************************)
EXTENDS Integers, FiniteSets

CONSTANTS Player, Region,
          Item,         \* item IDs
          TargetCount,  \* per region
          None          \* "not on the field"

VARIABLES points,  \* per player
          home,    \* per item: the region it lies in, None when it is not on the field
          owed,    \* per region: replacements to come
          used     \* IDs given so far
vars == <<points, home, owed, used>>

\* How many items the partial or total function h puts into region r.
CountIn(h, r) == Cardinality({i \in DOMAIN h : h[i] = r})

Init ==
    /\ points = [p \in Player |-> 0]
    /\ used \in SUBSET Item
    /\ home \in [Item -> Region \cup {None}]
    /\ \A i \in Item : home[i] # None <=> i \in used
    /\ \A r \in Region : CountIn(home, r) = TargetCount[r]
    /\ owed = [r \in Region |-> 0]

Take(p, i) ==
    /\ home[i] # None
    /\ points' = [points EXCEPT ![p] = @ + 1]
    /\ home' = [home EXCEPT ![i] = None]
    /\ owed' = [owed EXCEPT ![home[i]] = @ + 1]
    /\ UNCHANGED used

\* Replacements that are owed appear under IDs never used before.
Appear(new, regionOf) ==
    /\ new \cap used = {}
    /\ \A r \in Region : CountIn(regionOf, r) <= owed[r]
    /\ home' = [i \in Item |-> IF i \in new THEN regionOf[i] ELSE home[i]]
    /\ owed' = [r \in Region |-> owed[r] - CountIn(regionOf, r)]
    /\ used' = used \cup new
    /\ UNCHANGED points

Next ==
    \/ \E p \in Player, i \in Item : Take(p, i)
    \/ \E new \in SUBSET Item : \E regionOf \in [new -> Region] : Appear(new, regionOf)

Spec == Init /\ [][Next]_vars

---------------------------------------------------------------------------
(* Properties *)

\* No region ever loses an item or gains one: what lies in it and what is owed
\* to it make its target.
RegionsKept ==
    \A r \in Region : CountIn(home, r) + owed[r] = TargetCount[r]
==============================================================================
