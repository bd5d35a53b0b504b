---------------------- MODULE PositionPersistenceProofs ----------------------
(***************************************************************************)
(* Proofs about PositionPersistence for every set of users, any chunk size *)
(* and any number of moves, saves, sessions and failures.  A first session *)
(* gets what it was promised whatever fails, since its updates are ordered *)
(* alike by sequence number and by position; and while no write fails a    *)
(* saved position never goes back, in any session, since a departure waits *)
(* until the worker has received the final update, which is above all      *)
(* others of its session.                                                  *)
(***************************************************************************)
EXTENDS PositionPersistence, FiniteSetTheorems, SequenceTheorems, TLAPS

---------------------------------------------------------------------------
(* The invariants *)

Step == [op : {"final", "sync", "remove", "reply"}, user : User]
            \cup [op : {"drain", "return"}]
Parcel == [rows : SUBSET Update, sync : BOOLEAN]

Typed ==
    /\ agenda \in Seq(Step) /\ stopping \in BOOLEAN
    /\ online \subseteq User /\ IsFiniteSet(online) /\ dirty \subseteq online
    /\ pos \in [User -> Nat] /\ walked \in [User -> Nat] /\ seq \in [User -> Nat]
    /\ lastSeq \in [User -> Nat] /\ db \in [User -> Nat] /\ sessions \in [User -> Nat]
    /\ started \subseteq SUBSET Update /\ parked \in Seq(Parcel) /\ writing \subseteq Update
    /\ mode \in {"run", "flush", "stop", "done"}
    /\ fails \in Nat

Does(ag, i, name, u) == i \in DOMAIN ag /\ ag[i].op = name /\ ag[i].user = u

\* The steps of an event: a final save, one per player, is followed by its wait, a
\* player is removed after its saves, and what drains saves nothing more before it
\* answers.
Shape(ag) ==
    /\ \A i \in DOMAIN ag : ag[i].op = "final" => Does(ag, i + 1, "sync", ag[i].user)
    /\ \A i, j \in DOMAIN ag :
          ag[i].op = "final" /\ Does(ag, j, "final", ag[i].user) => i = j
    /\ \A i, j \in DOMAIN ag : i < j =>
          /\ ag[i].op \notin {"reply", "return"}
          /\ ag[i].op = "drain" => ag[j].op \in {"reply", "return"}
          /\ ag[i].op = "remove" => ag[j].op \in {"drain", "reply"}
    /\ \A i \in DOMAIN ag : ag[i].op \in {"reply", "return"} => i = 1 \/ ag[i - 1].op = "drain"

\* The players saved are online, and one that is saved because it leaves will be
\* removed before anybody is answered; the worker flushes and stops for the actor,
\* and a blocked final update is the one the actor waits for.
AgendaOK ==
    /\ Shape(agenda)
    /\ \A i \in DOMAIN agenda :
          /\ agenda[i].op \in {"final", "sync", "remove"} => agenda[i].user \in online
          /\ agenda[i].op = "sync" => stopping \/ Does(agenda, i + 1, "remove", agenda[i].user)
          /\ agenda[i].op = "reply" =>
                \/ agenda[i].user \notin online
                \/ \E j \in DOMAIN agenda : j < i /\ Does(agenda, j, "remove", agenda[i].user)
    /\ stopping <=> \E i \in DOMAIN agenda : agenda[i].op = "return"
    /\ mode = "flush" => Doing("drain")
    /\ mode \in {"stop", "done"} => Doing("return")
    /\ \A i \in DOMAIN parked : parked[i].sync => Doing("sync")

\* Updates on their way to the worker.
Blocked == UNION {parked[i].rows : i \in DOMAIN parked}
Queued == (UNION started) \cup Blocked

OneRowPerUser(batch) == \A x, y \in batch : x.user = y.user => x = y

RowsOK ==
    /\ \A batch \in started : OneRowPerUser(batch)
    /\ \A i \in DOMAIN parked : OneRowPerUser(parked[i].rows)
    /\ OneRowPerUser(writing)
    /\ \A x \in writing : x.seq > lastSeq[x.user]

\* Nobody is ever saved further than it has walked; an offline player has no
\* counter, and one that has never been here nothing at all.
Walked(u) ==
    /\ pos[u] <= walked[u] /\ db[u] <= walked[u]
    /\ \A x \in Queued \cup writing : x.user = u => x.pos <= walked[u]
    /\ u \notin online => seq[u] = 0
    /\ sessions[u] = 0 =>
          /\ u \notin online /\ walked[u] = 0 /\ lastSeq[u] = 0
          /\ \A x \in Queued \cup writing : x.user # u

Base ==
    /\ Typed /\ AgendaOK /\ RowsOK
    /\ \A u \in User : Walked(u)

\* The updates of a first session, the last one saved included, are ordered alike
\* by sequence number and by position.
Ordered(u) ==
    /\ pos[u] = walked[u]
    /\ \A x, y \in Queued \cup writing :
          x.user = u /\ y.user = u /\ x.seq <= y.seq => x.pos <= y.pos
    /\ \A x \in Queued \cup writing : x.user = u =>
          /\ x.seq <= lastSeq[u] => x.pos <= db[u]
          /\ x.seq >= lastSeq[u] => x.pos >= db[u]
          /\ u \in online => x.seq <= seq[u]
    /\ u \in online => lastSeq[u] <= seq[u]

\* The final save of u has been submitted: u is about to be removed or answered,
\* or the hub is stopping.
Pending(u) == \E i \in DOMAIN agenda : Does(agenda, i, "final", u)
Named(u) == \E i \in DOMAIN agenda : \E name \in {"sync", "remove", "reply"} :
               Does(agenda, i, name, u)
Parted(u) == (Named(u) \/ (stopping /\ u \in online)) /\ ~Pending(u)
\* So it has for whoever is offline, or the user has never been here.
Ended(u) == u \notin online \/ Parted(u)

Saved(u) == db[u] = pos[u]
Saving(u) == \E x \in Blocked \cup writing : x.user = u /\ x.pos = pos[u]

FirstSession ==
    \A u \in User : sessions[u] <= 1 =>
        /\ Ordered(u)
        /\ fails = 0 /\ Ended(u) => Saved(u) \/ Saving(u)
        /\ fails = 0 /\ (Doing("reply") \/ Doing("return")) /\ Ended(u) => Saved(u)

\* The worker has written, or is about to write, an update of u numbered n or more:
\* it will drop what is not above.
Reached(u, n) ==
    lastSeq[u] >= n \/ \E x \in writing : x.user = u /\ x.seq >= n

\* Of the updates the worker would still accept, a later number is a later
\* position, none is older than what is saved, and they are of the present session.
Accepted(u) ==
    /\ \A x \in writing : x.user = u => x.pos >= db[u]
    /\ \A x \in Queued : x.user = u /\ ~Reached(u, x.seq) =>
          /\ u \in online /\ x.seq <= seq[u] /\ x.pos >= db[u]
          /\ \A y \in writing : y.user = u => x.pos >= y.pos
          /\ \A y \in Queued : y.user = u /\ x.seq <= y.seq => x.pos <= y.pos

\* The final save of a session is its highest number, and the worker has it before
\* the counter is deleted; so whoever comes back starts below what the worker
\* accepts, until it has walked on.
Settled(u) ==
    /\ u \notin online => sessions[u] = 0 \/ Reached(u, 1)
    /\ u \in online /\ Parted(u) =>
          /\ seq[u] >= 1
          /\ \/ Reached(u, seq[u])
             \/ \E i \in DOMAIN parked : /\ parked[i].sync
                   /\ \E x \in parked[i].rows : x.user = u /\ x.seq = seq[u]
    /\ u \in online /\ ~Parted(u) =>
          pos[u] = walked[u] \/ (Reached(u, seq[u] + 1) /\ u \notin dirty)

Fresh(u) == Accepted(u) /\ Settled(u)

NeverBack == fails = 0 => \A u \in User : Fresh(u)

---------------------------------------------------------------------------
(* Sequences *)

LEMMA TailIs ==
    ASSUME NEW S, NEW s \in Seq(S), s # <<>>
    PROVE  /\ Tail(s) \in Seq(S) /\ Head(s) = s[1] /\ 1 \in DOMAIN s
           /\ \A i \in DOMAIN s : s[i] \in S /\ i \in Nat
           /\ \A i \in DOMAIN Tail(s) : /\ i \in Nat /\ i + 1 \in DOMAIN s
                                        /\ Tail(s)[i] = s[i + 1]
           /\ \A j \in DOMAIN s : j # 1 => j - 1 \in DOMAIN Tail(s) /\ Tail(s)[j - 1] = s[j]
<1>1. Len(s) \in Nat /\ Len(s) # 0 /\ DOMAIN s = 1..Len(s) /\ \A i \in 1..Len(s) : s[i] \in S
  OBVIOUS
<1>2. Tail(s) \in Seq(S) /\ Len(Tail(s)) = Len(s) - 1 /\ Head(s) = s[1]
      /\ \A i \in 1..(Len(s) - 1) : Tail(s)[i] = s[i + 1]
  BY <1>1
<1>3. DOMAIN Tail(s) = 1..(Len(s) - 1)
  BY <1>1, <1>2
<1> QED BY <1>1, <1>2, <1>3

LEMMA AppendIs ==
    ASSUME NEW S, NEW s \in Seq(S), NEW x \in S
    PROVE  /\ Append(s, x) \in Seq(S)
           /\ \A i \in DOMAIN s : i \in DOMAIN Append(s, x) /\ Append(s, x)[i] = s[i]
           /\ Len(s) + 1 \in DOMAIN Append(s, x) /\ Append(s, x)[Len(s) + 1] = x
           /\ \A i \in DOMAIN Append(s, x) : Append(s, x)[i] = x \/ (i \in DOMAIN s)
<1>1. Len(s) \in Nat /\ DOMAIN s = 1..Len(s)
  OBVIOUS
<1>2. Append(s, x) \in Seq(S) /\ Len(Append(s, x)) = Len(s) + 1
      /\ DOMAIN Append(s, x) = 1..(Len(s) + 1)
  OBVIOUS
<1> QED BY <1>1, <1>2

\* An event goes on with the rest of its steps.
LEMMA ShapeOfTail ==
    ASSUME NEW ag \in Seq(Step), ag # <<>>, Shape(ag)
    PROVE  Shape(Tail(ag))
<1> DEFINE t == Tail(ag)
<1>1. /\ \A i \in DOMAIN t : i \in Nat /\ i + 1 \in DOMAIN ag /\ t[i] = ag[i + 1]
      /\ \A j \in DOMAIN ag : j \in Nat /\ (j # 1 => j - 1 \in DOMAIN t /\ t[j - 1] = ag[j])
  BY TailIs
<1> HIDE DEF t
<1>2. ASSUME NEW i \in DOMAIN t, t[i].op = "final" PROVE Does(t, i + 1, "sync", t[i].user)
  <2>1. Does(ag, (i + 1) + 1, "sync", ag[i + 1].user)
    BY <1>1, <1>2 DEF Shape
  <2> QED BY <1>1, <2>1 DEF Does
<1>3. ASSUME NEW i \in DOMAIN t, NEW j \in DOMAIN t, t[i].op = "final", Does(t, j, "final", t[i].user)
      PROVE  i = j
  <2>1. ag[i + 1].op = "final" /\ Does(ag, j + 1, "final", ag[i + 1].user)
    BY <1>1, <1>3 DEF Does
  <2>2. i + 1 = j + 1
    BY <1>1, <2>1 DEF Shape
  <2> QED BY <1>1, <2>2
<1>4. ASSUME NEW i \in DOMAIN t, NEW j \in DOMAIN t, i < j
      PROVE  /\ t[i].op \notin {"reply", "return"}
             /\ t[i].op = "drain" => t[j].op \in {"reply", "return"}
             /\ t[i].op = "remove" => t[j].op \in {"drain", "reply"}
  BY <1>1, <1>4 DEF Shape
<1>5. ASSUME NEW i \in DOMAIN t, t[i].op \in {"reply", "return"}
      PROVE  i = 1 \/ t[i - 1].op = "drain"
  <2>1. i + 1 = 1 \/ ag[(i + 1) - 1].op = "drain"
    BY <1>1, <1>5 DEF Shape
  <2> QED BY <1>1, <2>1
<1> QED BY <1>2, <1>3, <1>4, <1>5 DEF Shape, t

LEMMA StepIs ==
    ASSUME NEW x \in Step
    PROVE  /\ x.op \in {"final", "sync", "remove", "reply", "drain", "return"}
           /\ x.op \in {"final", "sync", "remove", "reply"} => x.user \in User
BY DEF Step

---------------------------------------------------------------------------
(* The updates on their way *)

LEMMA ParcelAppended ==
    ASSUME Typed, NEW x \in Parcel, parked' = Append(parked, x)
    PROVE  /\ parked' \in Seq(Parcel)
           /\ \A i \in DOMAIN parked : i \in DOMAIN parked' /\ parked'[i] = parked[i]
           /\ \E i \in DOMAIN parked' : parked'[i] = x
           /\ \A i \in DOMAIN parked' : parked'[i] = x \/ (i \in DOMAIN parked /\ parked'[i] = parked[i])
<1>1. parked \in Seq(Parcel)
  BY DEF Typed
<1>2. parked' \in Seq(Parcel)
  BY <1>1, AppendProperties
<1>3. /\ \A i \in DOMAIN parked : i \in DOMAIN parked' /\ parked'[i] = parked[i]
      /\ Len(parked) + 1 \in DOMAIN parked' /\ parked'[Len(parked) + 1] = x
      /\ \A i \in DOMAIN parked' : parked'[i] = x \/ i \in DOMAIN parked
  BY <1>1, AppendIs
<1> QED BY <1>2, <1>3

LEMMA QueuedParked ==
    ASSUME Typed, NEW x \in Parcel, parked' = Append(parked, x)
    PROVE  Blocked' = Blocked \cup x.rows
<1>1. Blocked \cup x.rows \subseteq Blocked'
  BY ParcelAppended DEF Blocked
<1>2. ASSUME NEW i \in DOMAIN parked' PROVE parked'[i].rows \subseteq Blocked \cup x.rows
  BY ParcelAppended DEF Blocked
<1> QED BY <1>1, <1>2 DEF Blocked

LEMMA QueuedReceived ==
    ASSUME Typed, parked # <<>>, parked' = Tail(parked)
    PROVE  Blocked = Blocked' \cup Head(parked).rows
<1>1. /\ Head(parked) = parked[1] /\ 1 \in DOMAIN parked
      /\ \A i \in DOMAIN parked' : i + 1 \in DOMAIN parked /\ parked'[i] = parked[i + 1]
      /\ \A j \in DOMAIN parked : j # 1 => j - 1 \in DOMAIN parked' /\ parked'[j - 1] = parked[j]
  BY TailIs DEF Typed
<1>2. ASSUME NEW j \in DOMAIN parked PROVE parked[j].rows \subseteq Blocked' \cup Head(parked).rows
  BY <1>1 DEF Blocked
<1>3. ASSUME NEW i \in DOMAIN parked' PROVE parked'[i].rows \subseteq Blocked
  BY <1>1 DEF Blocked
<1>4. Head(parked).rows \subseteq Blocked
  BY <1>1 DEF Blocked
<1> QED BY <1>2, <1>3, <1>4 DEF Blocked

LEMMA UpdateIs ==
    ASSUME Typed
    PROVE  /\ Queued \subseteq Update /\ Blocked \subseteq Queued /\ writing \subseteq Update
           /\ \A x \in Queued \cup writing : x.user \in User /\ x.pos \in Nat /\ x.seq \in Nat
<1>1. \A i \in DOMAIN parked : parked[i].rows \subseteq Update
  <2>1. \A i \in DOMAIN parked : parked[i] \in Parcel
    BY DEF Typed
  <2> QED BY <2>1 DEF Parcel
<1>2. Blocked \subseteq Update
  BY <1>1 DEF Blocked
<1>3. UNION started \subseteq Update /\ writing \subseteq Update
  BY DEF Typed
<1>4. Queued \subseteq Update /\ Blocked \subseteq Queued
  BY <1>2, <1>3 DEF Queued
<1> QED BY <1>3, <1>4 DEF Update

LEMMA InitBase == Init => Base /\ FirstSession /\ NeverBack
<1> SUFFICES ASSUME Init PROVE Base /\ FirstSession /\ NeverBack
  OBVIOUS
<1>1. Typed
  <2>1. <<>> \in Seq(Step) /\ <<>> \in Seq(Parcel)
    OBVIOUS
  <2> QED BY <2>1, FS_EmptySet DEF Init, Typed
<1>2. DOMAIN agenda = {} /\ DOMAIN parked = {} /\ Queued = {} /\ Blocked = {} /\ writing = {}
  BY DEF Init, Queued, Blocked
<1>3. AgendaOK /\ RowsOK
  BY <1>2 DEF Init, AgendaOK, Shape, RowsOK, OneRowPerUser
<1>4. \A u \in User : Walked(u)
  BY <1>2 DEF Init, Walked
<1>5. FirstSession
  BY <1>2 DEF Init, FirstSession, Ordered, Ended, Saved, Doing
<1>6. NeverBack
  BY <1>2 DEF Init, NeverBack, Fresh, Accepted, Settled
<1> QED BY <1>1, <1>3, <1>4, <1>5, <1>6 DEF Base

---------------------------------------------------------------------------
(* The agenda *)

\* The event goes on: what was said of the remaining steps still holds.
LEMMA Pop ==
    ASSUME Typed, AgendaOK, agenda # <<>>, Head(agenda).op # "return",
           agenda' = Tail(agenda), stopping' = stopping,
           \/ online' = online /\ ~Doing("remove")
           \/ Doing("remove") /\ online' = online \ {Head(agenda).user}
    PROVE  /\ Shape(agenda')
           /\ \A i \in DOMAIN agenda' :
                 /\ agenda'[i].op \in {"final", "sync", "remove"} => agenda'[i].user \in online'
                 /\ agenda'[i].op = "sync" =>
                       stopping' \/ Does(agenda', i + 1, "remove", agenda'[i].user)
                 /\ agenda'[i].op = "reply" =>
                       \/ agenda'[i].user \notin online'
                       \/ \E j \in DOMAIN agenda' : j < i /\ Does(agenda', j, "remove", agenda'[i].user)
           /\ stopping' <=> \E i \in DOMAIN agenda' : agenda'[i].op = "return"
<1> DEFINE t == Tail(agenda)
<1>1. /\ Head(agenda) = agenda[1] /\ 1 \in DOMAIN agenda /\ Shape(agenda) /\ Shape(t)
      /\ \A i \in DOMAIN t : i \in Nat /\ i # 0 /\ i + 1 \in DOMAIN agenda /\ t[i] = agenda[i + 1]
      /\ \A j \in DOMAIN agenda : j \in Nat /\ (j # 1 => j - 1 \in DOMAIN t /\ t[j - 1] = agenda[j])
  <2>1. Shape(agenda) /\ Shape(t) /\ agenda \in Seq(Step) /\ t \in Seq(Step)
    BY ShapeOfTail, TailIs DEF Typed, AgendaOK
  <2>2. \A i \in DOMAIN t : i # 0
    BY <2>1
  <2> QED BY <2>1, <2>2, TailIs
<1> HIDE DEF t
<1>2. ASSUME NEW i \in DOMAIN t
      PROVE  /\ t[i].op \in {"final", "sync", "remove"} => t[i].user \in online'
             /\ t[i].op = "sync" => stopping' \/ Does(t, i + 1, "remove", t[i].user)
             /\ t[i].op = "reply" =>
                   \/ t[i].user \notin online'
                   \/ \E j \in DOMAIN t : j < i /\ Does(t, j, "remove", t[i].user)
  <2>1. i + 1 \in DOMAIN agenda /\ t[i] = agenda[i + 1] /\ 1 < i + 1 /\ i \in Nat
    BY <1>1, <1>2
  <2>2. t[i].op \in {"final", "sync", "remove"} => t[i].user \in online'
    BY <1>1, <2>1 DEF AgendaOK, Doing, Shape
  <2>3. ASSUME t[i].op = "sync", ~stopping' PROVE Does(t, i + 1, "remove", t[i].user)
    <3>1. Does(agenda, (i + 1) + 1, "remove", t[i].user)
      BY <2>1, <2>3 DEF AgendaOK
    <3> QED BY <1>1, <2>1, <3>1 DEF Does
  <2>4. ASSUME t[i].op = "reply", t[i].user \in online'
        PROVE  \E j \in DOMAIN t : j < i /\ Does(t, j, "remove", t[i].user)
    <3>1. PICK j \in DOMAIN agenda : j < i + 1 /\ Does(agenda, j, "remove", t[i].user)
      BY <2>1, <2>4 DEF AgendaOK
    <3>2. j # 1
      BY <1>1, <2>4, <3>1 DEF Does, Doing
    <3>3. j - 1 \in DOMAIN t /\ j - 1 < i /\ Does(t, j - 1, "remove", t[i].user)
      BY <1>1, <2>1, <3>1, <3>2 DEF Does
    <3> QED BY <3>3
  <2> QED BY <2>2, <2>3, <2>4
<1>3. stopping' <=> \E i \in DOMAIN t : t[i].op = "return"
  <2>1. ASSUME stopping' PROVE \E i \in DOMAIN t : t[i].op = "return"
    <3>1. PICK j \in DOMAIN agenda : agenda[j].op = "return"
      BY <2>1 DEF AgendaOK
    <3> QED BY <1>1, <3>1
  <2>2. ASSUME NEW i \in DOMAIN t, t[i].op = "return" PROVE stopping'
    BY <1>1, <2>2 DEF AgendaOK
  <2> QED BY <2>1, <2>2
<1> QED BY <1>1, <1>2, <1>3 DEF t

\* What an event of a departure does.
LEMMA DepartureIs ==
    ASSUME NEW u \in User
    PROVE  /\ Departure(u) \in Seq(Step)
           /\ LET ag == Departure(u) \o Drain \o <<Op("reply", u)>>
              IN  /\ ag \in Seq(Step) /\ DOMAIN ag = 1..5
                  /\ ag[1] = Op("final", u) /\ ag[2] = Op("sync", u) /\ ag[3] = Op("remove", u)
                  /\ ag[4] = [op |-> "drain"] /\ ag[5] = Op("reply", u)
<1>1. Op("final", u) \in Step /\ Op("sync", u) \in Step /\ Op("remove", u) \in Step
      /\ Op("reply", u) \in Step /\ [op |-> "drain"] \in Step
  BY DEF Op, Step
<1> DEFINE a == Departure(u)  b == Append(a, [op |-> "drain"])  c == Append(b, Op("reply", u))
<1>2. /\ a \in Seq(Step) /\ Len(a) = 3
      /\ a[1] = Op("final", u) /\ a[2] = Op("sync", u) /\ a[3] = Op("remove", u)
  BY <1>1 DEF Departure
<1> HIDE DEF a
<1>3. /\ b \in Seq(Step) /\ Len(b) = Len(a) + 1 /\ b[Len(a) + 1] = [op |-> "drain"]
      /\ \A i \in 1..Len(a) : b[i] = a[i]
  <2> DEFINE d == [op |-> "drain"]
  <2>1. d \in Step
    BY <1>1
  <2> HIDE DEF d
  <2>2. /\ Append(a, d) \in Seq(Step) /\ Len(Append(a, d)) = Len(a) + 1
        /\ Append(a, d)[Len(a) + 1] = d
        /\ \A i \in 1..Len(a) : Append(a, d)[i] = a[i]
    <3>1. a \in Seq(Step)
      BY <1>2
    <3> QED BY <2>1, <3>1, AppendProperties
  <2> QED BY <2>2 DEF d
<1>4. /\ Len(b) = 4 /\ b[4] = [op |-> "drain"]
      /\ b[1] = Op("final", u) /\ b[2] = Op("sync", u) /\ b[3] = Op("remove", u)
  BY <1>2, <1>3
<1> HIDE DEF b
<1>5. /\ c \in Seq(Step) /\ Len(c) = Len(b) + 1 /\ c[Len(b) + 1] = Op("reply", u)
      /\ \A i \in 1..Len(b) : c[i] = b[i]
  BY <1>1, <1>3, AppendProperties
<1>6. /\ Len(c) = 5 /\ c[4] = [op |-> "drain"] /\ c[5] = Op("reply", u)
      /\ c[1] = Op("final", u) /\ c[2] = Op("sync", u) /\ c[3] = Op("remove", u)
  BY <1>4, <1>5
<1> HIDE DEF c
<1>7. Departure(u) \o Drain \o <<Op("reply", u)>> = c
  <2>1. b = a \o <<[op |-> "drain"]>>
    BY <1>1, <1>2, AppendIsConcat DEF b
  <2>2. c = b \o <<Op("reply", u)>>
    BY <1>1, <1>3, AppendIsConcat DEF c
  <2> QED BY <2>1, <2>2 DEF Drain, a
<1>8. DOMAIN c = 1..5
  <2>1. c \in Seq(Step) /\ Len(c) = 5
    BY <1>5, <1>6
  <2> QED BY <2>1
<1> QED BY <1>2, <1>5, <1>6, <1>7, <1>8 DEF a

\* A logout of a user who is offline only drains.
LEMMA OfflineLogoutIs ==
    ASSUME NEW u \in User, NEW ag, ag = <<>> \o Drain \o <<Op("reply", u)>>
    PROVE  /\ ag \in Seq(Step) /\ DOMAIN ag = {1, 2}
           /\ ag[1].op = "drain" /\ ag[2].op = "reply" /\ ag[2].user = u
<1> DEFINE d == [op |-> "drain"]  r == Op("reply", u)
<1>1. d \in Step /\ r \in Step /\ d.op = "drain" /\ r.op = "reply" /\ r.user = u
  BY DEF Op, Step
<1> HIDE DEF d, r
<1>2. <<d>> \in Seq(Step) /\ <<r>> \in Seq(Step)
  BY <1>1
<1>3. <<>> \o <<d>> = <<d>>
  BY <1>2, ConcatEmptySeq
<1>4. Append(<<d>>, r) = <<d>> \o <<r>>
  BY <1>1, <1>2, AppendIsConcat
<1>5. /\ Append(<<d>>, r) \in Seq(Step) /\ Len(Append(<<d>>, r)) = 2
      /\ Append(<<d>>, r)[1] = d /\ Append(<<d>>, r)[2] = r
  BY <1>1, <1>2
<1>6. ag = Append(<<d>>, r)
  <2>1. ag = (<<>> \o <<d>>) \o <<r>>
    BY DEF Drain, d, r
  <2> QED BY <1>3, <1>4, <2>1
<1>7. ag \in Seq(Step) /\ Len(ag) = 2 /\ ag[1] = d /\ ag[2] = r
  BY <1>5, <1>6
<1>8. DOMAIN ag = {1, 2}
  BY <1>7
<1> QED BY <1>1, <1>7, <1>8

LEMMA OfflineLogoutShape ==
    ASSUME NEW u \in User, agenda' = <<>> \o Drain \o <<Op("reply", u)>>
    PROVE  /\ Shape(agenda')
           /\ \A i \in DOMAIN agenda' :
                 /\ agenda'[i].op \in {"drain", "reply"}
                 /\ agenda'[i].op = "reply" => agenda'[i].user = u
           /\ 1 \in DOMAIN agenda' /\ 2 \in DOMAIN agenda'
<1>1. /\ DOMAIN agenda' = {1, 2}
      /\ agenda'[1].op = "drain" /\ agenda'[2].op = "reply" /\ agenda'[2].user = u
  BY OfflineLogoutIs
<1>2. \A i, j \in DOMAIN agenda' : i < j => i = 1 /\ j = 2
  BY <1>1
<1>3. \A i \in DOMAIN agenda' : agenda'[i].op \in {"drain", "reply"}
  BY <1>1
<1>4. \A i \in DOMAIN agenda' : agenda'[i].op \in {"reply", "return"} => agenda'[i - 1].op = "drain"
  BY <1>1
<1>5. Shape(agenda')
  BY <1>1, <1>2, <1>3, <1>4 DEF Shape
<1> QED BY <1>1, <1>3, <1>5

LEMMA LeaveAgenda ==
    ASSUME NEW u \in User, u \in online,
           \/ agenda' = Departure(u)
           \/ agenda' = Departure(u) \o Drain \o <<Op("reply", u)>>
    PROVE  /\ Shape(agenda')
           /\ \A i \in DOMAIN agenda' :
                 /\ agenda'[i].op \in {"final", "sync", "remove"} => agenda'[i].user \in online
                 /\ agenda'[i].op = "sync" => Does(agenda', i + 1, "remove", agenda'[i].user)
                 /\ agenda'[i].op = "reply" =>
                       \E j \in DOMAIN agenda' : j < i /\ Does(agenda', j, "remove", agenda'[i].user)
                 /\ agenda'[i].op # "return"
                 /\ agenda'[i].op \in {"final", "sync", "remove", "reply"} => agenda'[i].user = u
           /\ Does(agenda', 1, "final", u) /\ 2 \in DOMAIN agenda'
<1>1. PICK n \in {3, 5} :
         /\ DOMAIN agenda' = 1..n
         /\ agenda'[1] = Op("final", u) /\ agenda'[2] = Op("sync", u) /\ agenda'[3] = Op("remove", u)
         /\ n = 5 => agenda'[4] = [op |-> "drain"] /\ agenda'[5] = Op("reply", u)
  <2>1. CASE agenda' = Departure(u)
    <3>1. DOMAIN agenda' = 1..3 /\ agenda'[1] = Op("final", u) /\ agenda'[2] = Op("sync", u)
          /\ agenda'[3] = Op("remove", u)
      BY <2>1 DEF Departure
    <3> QED BY <3>1
  <2>2. CASE agenda' = Departure(u) \o Drain \o <<Op("reply", u)>>
    <3>1. DOMAIN agenda' = 1..5 /\ agenda'[1] = Op("final", u) /\ agenda'[2] = Op("sync", u)
          /\ agenda'[3] = Op("remove", u) /\ agenda'[4] = [op |-> "drain"] /\ agenda'[5] = Op("reply", u)
      BY <2>2, DepartureIs
    <3> QED BY <3>1
  <2> QED BY <2>1, <2>2
<1>2. \A i \in DOMAIN agenda' : i \in {1, 2, 3, 4, 5} /\ (i \in {4, 5} => n = 5)
  BY <1>1
<1>3. /\ agenda'[1].op = "final" /\ agenda'[2].op = "sync" /\ agenda'[3].op = "remove"
      /\ agenda'[1].user = u /\ agenda'[2].user = u /\ agenda'[3].user = u
      /\ n = 5 => agenda'[4].op = "drain" /\ agenda'[5].op = "reply" /\ agenda'[5].user = u
      /\ 1 \in DOMAIN agenda' /\ 2 \in DOMAIN agenda' /\ 3 \in DOMAIN agenda'
  BY <1>1 DEF Op
<1>4. Shape(agenda')
  BY <1>2, <1>3 DEF Shape, Does
<1> QED BY <1>2, <1>3, <1>4 DEF Does

\* What the stop event does: the final saves of all players online, one each, then
\* the drain and the return.
LEMMA StopAgendaIs ==
    ASSUME IsFiniteSet(online), online \subseteq User, NEW order \in Orders(online),
           NEW ag, ag = StopAgenda(order)
    PROVE  LET n == Cardinality(online)
           IN  /\ n \in Nat /\ ag \in Seq(Step) /\ DOMAIN ag = 1..(2 * n + 2)
               /\ \A i \in 1..(2 * n) :
                     ag[i] = Op(IF i % 2 = 1 THEN "final" ELSE "sync", order[(i + 1) \div 2])
               /\ ag[2 * n + 1] = [op |-> "drain"] /\ ag[2 * n + 2] = [op |-> "return"]
               /\ \A k \in 1..n : order[k] \in online
               /\ \A j, k \in 1..n : order[j] = order[k] => j = k
               /\ \A u \in online : \E k \in 1..n : order[k] = u
<1> DEFINE n == Cardinality(online)
           saved == [i \in 1..(2 * Len(order)) |->
                       Op(IF i % 2 = 1 THEN "final" ELSE "sync", order[(i + 1) \div 2])]
<1>1. n \in Nat
  BY FS_CardinalityType
<1> HIDE DEF n
<1>2. order \in [1..n -> online] /\ \A j, k \in 1..n : order[j] = order[k] => j = k
  BY <1>1 DEF Orders, n
<1>3. order \in Seq(online) /\ Len(order) = n
  BY <1>1, <1>2
<1>4. \A u \in online : \E k \in 1..n : order[k] = u
  <2>1. IsFiniteSet(1..n) /\ Cardinality(1..n) = n
    BY <1>1, FS_Interval
  <2>2. order \in Injection(1..n, online)
    BY <1>2 DEF Injection, IsInjective
  <2>3. order \in Surjection(1..n, online)
    BY <2>1, <2>2, FS_Injection DEF n
  <2> QED BY <2>3 DEF Surjection
<1>5. \A i \in 1..(2 * n) : (i + 1) \div 2 \in 1..n
  BY <1>1
<1>6. saved \in Seq(Step) /\ Len(saved) = 2 * n
  <2>1. \A i \in 1..(2 * n) : saved[i] \in Step
    BY <1>2, <1>3, <1>5 DEF Op, Step
  <2> QED BY <1>1, <1>3, <2>1
<1>7. \A i \in 1..(2 * n) :
         saved[i] = Op(IF i % 2 = 1 THEN "final" ELSE "sync", order[(i + 1) \div 2])
  BY <1>3
<1> HIDE DEF saved
<1>8. [op |-> "drain"] \in Step /\ [op |-> "return"] \in Step
  BY DEF Step
<1> DEFINE a == Append(saved, [op |-> "drain"])
<1>9. /\ a \in Seq(Step) /\ Len(a) = 2 * n + 1 /\ a[2 * n + 1] = [op |-> "drain"]
      /\ \A i \in 1..(2 * n) : a[i] = saved[i]
  BY <1>6, <1>8, AppendProperties
<1> HIDE DEF a
<1> DEFINE b == Append(a, [op |-> "return"])
<1>10. /\ b \in Seq(Step) /\ Len(b) = 2 * n + 2 /\ b[2 * n + 2] = [op |-> "return"]
       /\ \A i \in 1..(2 * n + 1) : b[i] = a[i]
  BY <1>1, <1>8, <1>9, AppendProperties
<1> HIDE DEF b
<1>11. ag = b
  <2>1. a = saved \o <<[op |-> "drain"]>>
    BY <1>6, <1>8, AppendIsConcat DEF a
  <2>2. b = a \o <<[op |-> "return"]>>
    BY <1>8, <1>9, AppendIsConcat DEF b
  <2> QED BY <2>1, <2>2 DEF StopAgenda, Drain, saved
<1>12. \A i \in 1..(2 * n) :
         ag[i] = Op(IF i % 2 = 1 THEN "final" ELSE "sync", order[(i + 1) \div 2])
  <2>1. \A i \in 1..(2 * n) : i \in 1..(2 * n + 1)
    BY <1>1
  <2> QED BY <1>7, <1>9, <1>10, <1>11, <2>1
<1>13. ag[2 * n + 1] = [op |-> "drain"] /\ ag[2 * n + 2] = [op |-> "return"]
       /\ ag \in Seq(Step) /\ DOMAIN ag = 1..(2 * n + 2)
  <2>1. 2 * n + 1 \in 1..(2 * n + 1)
    BY <1>1
  <2> QED BY <1>9, <1>10, <1>11, <2>1
<1>14. \A k \in 1..n : order[k] \in online
  BY <1>2
<1> QED BY <1>1, <1>2, <1>4, <1>12, <1>13, <1>14 DEF n

LEMMA StopShape ==
    ASSUME Typed, NEW order \in Orders(online), agenda' = StopAgenda(order)
    PROVE  /\ Shape(agenda') /\ agenda' \in Seq(Step)
           /\ \A i \in DOMAIN agenda' :
                 /\ agenda'[i].op \in {"final", "sync", "drain", "return"}
                 /\ agenda'[i].op \in {"final", "sync"} => agenda'[i].user \in online
           /\ \E i \in DOMAIN agenda' : agenda'[i].op = "return"
           /\ \A u \in online : \E i \in DOMAIN agenda' : Does(agenda', i, "final", u)
           /\ 1 \in DOMAIN agenda' /\ 2 \in DOMAIN agenda'
<1> DEFINE n == Cardinality(online)  ag == agenda'
<1>1. /\ n \in Nat /\ ag \in Seq(Step) /\ DOMAIN ag = 1..(2 * n + 2)
      /\ \A i \in 1..(2 * n) :
            ag[i] = Op(IF i % 2 = 1 THEN "final" ELSE "sync", order[(i + 1) \div 2])
      /\ ag[2 * n + 1] = [op |-> "drain"] /\ ag[2 * n + 2] = [op |-> "return"]
      /\ \A k \in 1..n : order[k] \in online
      /\ \A j, k \in 1..n : order[j] = order[k] => j = k
      /\ \A u \in online : \E k \in 1..n : order[k] = u
  BY StopAgendaIs DEF Typed
<1> HIDE DEF n, ag
<1>0. n \in Nat
  BY <1>1
<1>2. \A k \in 1..n : /\ ag[2 * k - 1] = Op("final", order[k]) /\ 2 * k - 1 \in DOMAIN ag
                      /\ ag[2 * k] = Op("sync", order[k]) /\ 2 * k \in DOMAIN ag
  <2> SUFFICES ASSUME NEW k \in 1..n
               PROVE  /\ ag[2 * k - 1] = Op("final", order[k]) /\ 2 * k - 1 \in DOMAIN ag
                      /\ ag[2 * k] = Op("sync", order[k]) /\ 2 * k \in DOMAIN ag
    OBVIOUS
  <2>1. 2 * k - 1 \in 1..(2 * n) /\ 2 * k \in 1..(2 * n)
    BY <1>0
  <2>2. (2 * k - 1) % 2 = 1 /\ (2 * k) % 2 = 0 /\ (2 * k - 1 + 1) \div 2 = k /\ (2 * k + 1) \div 2 = k
    BY <1>0
  <2>3. 2 * k - 1 \in 1..(2 * n + 2) /\ 2 * k \in 1..(2 * n + 2)
    BY <1>0
  <2> QED BY <1>1, <2>1, <2>2, <2>3
<1>3. \A i \in DOMAIN ag : \/ \E k \in 1..n : i = 2 * k - 1
                           \/ \E k \in 1..n : i = 2 * k
                           \/ i \in {2 * n + 1, 2 * n + 2}
  <2> SUFFICES ASSUME NEW i \in DOMAIN ag, i \notin {2 * n + 1, 2 * n + 2}
               PROVE  \/ \E k \in 1..n : i = 2 * k - 1
                      \/ \E k \in 1..n : i = 2 * k
    OBVIOUS
  <2>1. i \in 1..(2 * n)
    <3>1. i \in 1..(2 * n + 2)
      BY <1>1
    <3> QED BY <1>0, <3>1
  <2>2. (i + 1) \div 2 \in 1..n /\ (i = 2 * ((i + 1) \div 2) - 1 \/ i = 2 * ((i + 1) \div 2))
    BY <1>0, <2>1
  <2> QED BY <2>2
<1>4. \A i \in DOMAIN ag :
         /\ ag[i].op \in {"final", "sync", "drain", "return"}
         /\ ag[i].op = "drain" => i = 2 * n + 1
         /\ ag[i].op = "return" => i = 2 * n + 2
         /\ ag[i].op = "final" => \E k \in 1..n : i = 2 * k - 1 /\ ag[i].user = order[k]
         /\ ag[i].op = "sync" => \E k \in 1..n : i = 2 * k /\ ag[i].user = order[k]
  <2>1. ASSUME NEW k \in 1..n
        PROVE  /\ ag[2 * k - 1].op = "final" /\ ag[2 * k - 1].user = order[k]
               /\ ag[2 * k].op = "sync" /\ ag[2 * k].user = order[k]
    <3>1. ag[2 * k - 1] = Op("final", order[k]) /\ ag[2 * k] = Op("sync", order[k])
      BY <1>2
    <3> QED BY <3>1 DEF Op
  <2>2. ag[2 * n + 1].op = "drain" /\ ag[2 * n + 2].op = "return"
    BY <1>1
  <2>3. ASSUME NEW i \in DOMAIN ag, NEW k \in 1..n, i = 2 * k - 1
        PROVE  ag[i].op = "final" /\ ag[i].user = order[k]
    BY <2>1, <2>3
  <2>4. ASSUME NEW i \in DOMAIN ag, NEW k \in 1..n, i = 2 * k
        PROVE  ag[i].op = "sync" /\ ag[i].user = order[k]
    BY <2>1, <2>4
  <2> QED BY <1>3, <2>2, <2>3, <2>4
<1>5. \A k \in 1..n : Does(ag, 2 * k - 1, "final", order[k]) /\ Does(ag, 2 * k, "sync", order[k])
  <2> SUFFICES ASSUME NEW k \in 1..n
               PROVE  Does(ag, 2 * k - 1, "final", order[k]) /\ Does(ag, 2 * k, "sync", order[k])
    OBVIOUS
  <2>1. /\ ag[2 * k - 1] = Op("final", order[k]) /\ 2 * k - 1 \in DOMAIN ag
        /\ ag[2 * k] = Op("sync", order[k]) /\ 2 * k \in DOMAIN ag
    BY <1>2
  <2> QED BY <2>1 DEF Op, Does
<1>6. ASSUME NEW i \in DOMAIN ag, ag[i].op = "final" PROVE Does(ag, i + 1, "sync", ag[i].user)
  <2>1. PICK k \in 1..n : i = 2 * k - 1 /\ ag[i].user = order[k]
    BY <1>4, <1>6
  <2>2. i + 1 = 2 * k
    BY <1>1, <2>1
  <2> QED BY <1>5, <2>1, <2>2
<1>7. ASSUME NEW i \in DOMAIN ag, NEW j \in DOMAIN ag, ag[i].op = "final",
             Does(ag, j, "final", ag[i].user)
      PROVE  i = j
  BY <1>1, <1>4, <1>7 DEF Does
<1>8. Shape(ag)
  <2>1. \A i \in DOMAIN ag : i \in 1..(2 * n + 2)
    BY <1>1
  <2>2. ag[2 * n + 1].op = "drain" /\ ag[2 * n + 2].op = "return"
    BY <1>1
  <2>3. \A i, j \in DOMAIN ag : i < j =>
          /\ ag[i].op \notin {"reply", "return"}
          /\ ag[i].op = "drain" => ag[j].op \in {"reply", "return"}
          /\ ag[i].op = "remove" => ag[j].op \in {"drain", "reply"}
    <3> SUFFICES ASSUME NEW i \in DOMAIN ag, NEW j \in DOMAIN ag, i < j
                 PROVE  /\ ag[i].op \notin {"reply", "return"}
                        /\ ag[i].op = "drain" => ag[j].op = "return"
                        /\ ag[i].op # "remove"
      OBVIOUS
    <3>1. i # 2 * n + 2
      BY <1>1, <2>1
    <3>2. i = 2 * n + 1 => j = 2 * n + 2
      BY <1>0, <2>1
    <3> QED BY <1>4, <2>2, <3>1, <3>2
  <2>4. \A i \in DOMAIN ag : ag[i].op \in {"reply", "return"} => i = 1 \/ ag[i - 1].op = "drain"
    <3> SUFFICES ASSUME NEW i \in DOMAIN ag, ag[i].op \in {"reply", "return"}
                 PROVE  ag[i - 1].op = "drain"
      OBVIOUS
    <3>1. i = 2 * n + 2
      BY <1>4
    <3>2. i - 1 = 2 * n + 1
      BY <1>1, <3>1
    <3> QED BY <2>2, <3>2
  <2> QED BY <1>6, <1>7, <2>3, <2>4 DEF Shape
<1>9. \A u \in online : \E i \in DOMAIN ag : Does(ag, i, "final", u)
  <2> SUFFICES ASSUME NEW u \in online PROVE \E i \in DOMAIN ag : Does(ag, i, "final", u)
    OBVIOUS
  <2>1. PICK k \in 1..n : order[k] = u
    BY <1>1
  <2>2. 2 * k - 1 \in DOMAIN ag /\ Does(ag, 2 * k - 1, "final", u)
    BY <1>2, <1>5, <2>1
  <2> QED BY <2>2
<1>10. /\ \A i \in DOMAIN ag : ag[i].op \in {"final", "sync"} => ag[i].user \in online
       /\ \E i \in DOMAIN ag : ag[i].op = "return"
  <2>1. ag[2 * n + 2].op = "return" /\ 2 * n + 2 \in DOMAIN ag
    BY <1>1
  <2> QED BY <1>1, <1>4, <2>1
<1> QED BY <1>1, <1>4, <1>8, <1>9, <1>10 DEF ag

---------------------------------------------------------------------------
(* One step keeps the types and the agenda *)

LEMMA HeadIs ==
    ASSUME Typed, NEW name, Doing(name)
    PROVE  /\ agenda # <<>> /\ Head(agenda) = agenda[1] /\ 1 \in DOMAIN agenda
           /\ agenda[1] \in Step /\ agenda[1].op = name /\ Tail(agenda) \in Seq(Step)
           /\ name \in {"final", "sync", "remove", "reply"} => Head(agenda).user \in User
<1>1. agenda # <<>> /\ Head(agenda).op = name /\ agenda \in Seq(Step)
  BY DEF Typed, Doing
<1> QED BY <1>1, TailIs, StepIs

\* A final save is one row for the player, alone in its parcel.
LEMMA FinalIs ==
    ASSUME Typed, FinalSave
    PROVE  /\ Doing("final") /\ Head(agenda).user \in User
           /\ LET u == Head(agenda).user
                  x == [user |-> u, pos |-> pos[u], seq |-> seq[u] + 1]
              IN  /\ x \in Update /\ [rows |-> {x}, sync |-> TRUE] \in Parcel
                  /\ seq' = [seq EXCEPT ![u] = @ + 1]
                  /\ parked' = Append(parked, [rows |-> {x}, sync |-> TRUE])
<1>1. Doing("final") /\ Head(agenda).user \in User
  BY HeadIs DEF FinalSave
<1>2. pos[Head(agenda).user] \in Nat /\ seq[Head(agenda).user] + 1 \in Nat
  BY <1>1 DEF Typed
<1> QED BY <1>1, <1>2 DEF FinalSave, Parcel, Update

LEMMA ParkIs ==
    ASSUME Typed, NEW batch \in started, Park(batch)
    PROVE  /\ [rows |-> batch, sync |-> FALSE] \in Parcel
           /\ parked' = Append(parked, [rows |-> batch, sync |-> FALSE])
           /\ started' = started \ {batch}
BY DEF Typed, Park, Parcel

LEMMA TickIs ==
    ASSUME Typed, PersistTick
    PROVE  /\ {[user |-> u, pos |-> pos[u], seq |-> seq[u] + 1] : u \in dirty} \in SUBSET Update
           /\ started' = started \cup
                 {{[user |-> u, pos |-> pos[u], seq |-> seq[u] + 1] : u \in dirty}}
<1>1. \A u \in dirty : u \in User /\ pos[u] \in Nat /\ seq[u] + 1 \in Nat
  BY DEF Typed
<1>2. \A u \in dirty : [user |-> u, pos |-> pos[u], seq |-> seq[u] + 1] \in Update
  BY <1>1 DEF Update
<1> QED BY <1>2 DEF PersistTick

LEMMA WriteIs ==
    ASSUME Typed, NEW ok \in BOOLEAN, WriteChunk(ok)
    PROVE  \E chunk \in SUBSET writing :
              /\ writing' = writing \ chunk
              /\ db' \in [User -> Nat] /\ lastSeq' \in [User -> Nat]
              /\ fails' \in Nat /\ (ok => fails' = fails) /\ (~ok => fails' = fails + 1)
              /\ \A u \in User :
                    \/ /\ db'[u] = db[u] /\ lastSeq'[u] = lastSeq[u]
                       /\ ok => \A x \in chunk : x.user # u
                    \/ ok /\ \E x \in chunk : x.user = u /\ db'[u] = x.pos /\ lastSeq'[u] = x.seq
<1>1. PICK chunk \in SUBSET writing :
         /\ db' = [u \in User |-> IF ok /\ \E x \in chunk : x.user = u
                                  THEN (CHOOSE x \in chunk : x.user = u).pos ELSE db[u]]
         /\ lastSeq' = Advance(chunk, ok)
         /\ writing' = writing \ chunk
  BY DEF WriteChunk
<1>2. ASSUME NEW u \in User
      PROVE  /\ db'[u] \in Nat /\ lastSeq'[u] \in Nat
             /\ \/ /\ db'[u] = db[u] /\ lastSeq'[u] = lastSeq[u]
                   /\ ok => \A x \in chunk : x.user # u
                \/ ok /\ \E x \in chunk : x.user = u /\ db'[u] = x.pos /\ lastSeq'[u] = x.seq
  <2>1. CASE ok /\ \E x \in chunk : x.user = u
    <3> DEFINE y == CHOOSE x \in chunk : x.user = u
    <3>1. y \in chunk /\ y.user = u
      BY <2>1
    <3>2. db'[u] = y.pos /\ lastSeq'[u] = y.seq
      BY <1>1, <2>1 DEF Advance
    <3> HIDE DEF y
    <3>3. y.pos \in Nat /\ y.seq \in Nat
      BY <3>1 DEF Typed, Update
    <3> QED BY <2>1, <3>1, <3>2, <3>3
  <2>2. CASE ~(ok /\ \E x \in chunk : x.user = u)
    <3>1. db'[u] = db[u] /\ lastSeq'[u] = lastSeq[u]
      BY <1>1, <2>2 DEF Advance
    <3> QED BY <2>2, <3>1 DEF Typed
  <2> QED BY <2>1, <2>2
<1>3. db' \in [User -> Nat] /\ lastSeq' \in [User -> Nat]
  <2>1. DOMAIN db' = User /\ DOMAIN lastSeq' = User /\ db' = [u \in User |-> db'[u]]
        /\ lastSeq' = [u \in User |-> lastSeq'[u]]
    BY <1>1 DEF Advance
  <2> QED BY <1>2, <2>1
<1>4. fails' \in Nat /\ (ok => fails' = fails) /\ (~ok => fails' = fails + 1)
  BY DEF WriteChunk, Typed
<1> QED BY <1>1, <1>2, <1>3, <1>4

LEMMA TypedStep == Typed /\ AgendaOK /\ [Next]_vars => Typed'
<1> SUFFICES ASSUME Typed, AgendaOK, [Next]_vars PROVE Typed'
  OBVIOUS
<1>1. ASSUME NEW u \in User, Register(u) PROVE Typed'
  <2>1. IsFiniteSet(online') /\ online' = online \cup {u}
    BY <1>1, FS_AddElement DEF Typed, Register
  <2>2. pos' \in [User -> Nat] /\ sessions' \in [User -> Nat] /\ dirty' \subseteq online'
    <3>1. pos' \in [User -> Nat]
      <4>1. \E n \in Nat : pos' = [pos EXCEPT ![u] = n]
        <5>1. pos' = [pos EXCEPT ![u] = db[u]] \/ pos' = [pos EXCEPT ![u] = 0]
          BY <1>1 DEF Register
        <5>2. db[u] \in Nat /\ 0 \in Nat
          BY DEF Typed
        <5> QED BY <5>1, <5>2
      <4> QED BY <4>1 DEF Typed
    <3>2. sessions' \in [User -> Nat]
      BY <1>1 DEF Typed, Register
    <3>3. dirty' \subseteq online'
      BY <1>1, <2>1 DEF Typed, Register
    <3> QED BY <3>1, <3>2, <3>3
  <2> QED BY <1>1, <2>1, <2>2 DEF Typed, Register, workerVars
<1>2. ASSUME NEW u \in User, Move(u) PROVE Typed'
  BY <1>2 DEF Typed, Move, workerVars
<1>3. CASE PersistTick
  <2>1. seq' \in [User -> Nat] /\ started' \subseteq SUBSET Update
    <3>1. started' \subseteq SUBSET Update
      BY <1>3, TickIs DEF Typed
    <3>2. seq' = [u \in User |-> IF u \in dirty THEN seq[u] + 1 ELSE seq[u]] /\ seq \in [User -> Nat]
      BY <1>3 DEF PersistTick, Typed
    <3> QED BY <3>1, <3>2
  <2> QED BY <1>3, <2>1 DEF Typed, PersistTick, workerVars
<1>4. ASSUME NEW u \in User, Leave(u) PROVE Typed'
  BY <1>4, DepartureIs DEF Typed, Leave, workerVars
<1>5. ASSUME NEW u \in User, Logout(u) PROVE Typed'
  <2>1. CASE u \in online
    BY <1>5, <2>1, DepartureIs DEF Typed, Logout, workerVars
  <2>2. CASE u \notin online
    BY <1>5, <2>2, OfflineLogoutIs DEF Typed, Logout, workerVars
  <2> QED BY <2>1, <2>2
<1>6. CASE Stop
  <2>1. PICK order \in Orders(online) : agenda' = StopAgenda(order)
    BY <1>6 DEF Stop
  <2>2. agenda' \in Seq(Step)
    BY <2>1, StopShape
  <2> QED BY <1>6, <2>2 DEF Typed, Stop, workerVars
<1>7. CASE FinalSave
  <2>1. seq' \in [User -> Nat] /\ parked' \in Seq(Parcel)
    <3>1. parked \in Seq(Parcel) /\ seq \in [User -> Nat]
      BY DEF Typed
    <3>2. parked' \in Seq(Parcel)
      BY <1>7, FinalIs, ParcelAppended
    <3>3. seq' \in [User -> Nat]
      BY <1>7, <3>1, FinalIs
    <3> QED BY <3>2, <3>3
  <2>2. agenda' \in Seq(Step)
    BY <1>7, HeadIs DEF FinalSave
  <2> QED BY <1>7, <2>1, <2>2 DEF Typed, FinalSave, workerVars
<1>8. CASE SyncReturns \/ Reply
  <2>1. agenda' \in Seq(Step)
    BY <1>8, HeadIs DEF SyncReturns, Reply
  <2> QED BY <1>8, <2>1 DEF Typed, SyncReturns, Reply, workerVars
<1>9. CASE Remove
  <2>1. agenda' \in Seq(Step) /\ Head(agenda).user \in User
    BY <1>9, HeadIs DEF Remove
  <2>2. IsFiniteSet(online') /\ online' \subseteq User
    <3>1. online' = online \ {Head(agenda).user} /\ IsFiniteSet(online) /\ online \subseteq User
      BY <1>9 DEF Typed, Remove
    <3> QED BY <3>1, FS_RemoveElement
  <2>3. seq' \in [User -> Nat]
    BY <1>9, <2>1 DEF Typed, Remove
  <2> QED BY <1>9, <2>1, <2>2, <2>3 DEF Typed, Remove, workerVars
<1>10. CASE Receive
  <2>1. writing' \subseteq Update /\ parked' \in Seq(Parcel)
    <3>1. parked' \in Seq(Parcel) /\ Head(parked) \in Parcel
      BY <1>10, TailIs DEF Typed, Receive
    <3> QED BY <1>10, <3>1 DEF Receive, FilterAndCollapse, Parcel
  <2> QED BY <1>10, <2>1 DEF Typed, Receive, actorVars
<1>11. ASSUME NEW ok \in BOOLEAN, WriteChunk(ok) PROVE Typed'
  <2>1. writing' \subseteq Update /\ db' \in [User -> Nat] /\ lastSeq' \in [User -> Nat] /\ fails' \in Nat
    BY <1>11, WriteIs DEF Typed
  <2> QED BY <1>11, <2>1 DEF Typed, WriteChunk, actorVars
<1>12. CASE FlushStart \/ WorkerStop
  BY <1>12 DEF Typed, FlushStart, WorkerStop, actorVars
<1>13. CASE FlushEnd
  <2>1. agenda' \in Seq(Step)
    BY <1>13, HeadIs DEF FlushEnd, AgendaOK
  <2> QED BY <1>13, <2>1 DEF Typed, FlushEnd
<1>14. ASSUME NEW batch \in started, Park(batch) PROVE Typed'
  <2>1. parked' \in Seq(Parcel) /\ started' \subseteq SUBSET Update
    <3>1. parked \in Seq(Parcel) /\ started \subseteq SUBSET Update
      BY DEF Typed
    <3>2. parked' \in Seq(Parcel)
      BY <1>14, ParkIs, ParcelAppended
    <3>3. started' \subseteq started
      BY <1>14 DEF Park
    <3> QED BY <3>1, <3>2, <3>3
  <2> QED BY <1>14, <2>1 DEF Typed, Park, actorVars, workerVars
<1>15. CASE UNCHANGED vars
  BY <1>15 DEF Typed, vars, actorVars, workerVars
<1> QED BY <1>1, <1>2, <1>3, <1>4, <1>5, <1>6, <1>7, <1>8, <1>9, <1>10, <1>11, <1>12, <1>13,
           <1>14, <1>15 DEF Next, ActorNext, WorkerNext

\* Nothing of the agenda changed.
LEMMA SameAgenda ==
    ASSUME AgendaOK, agenda' = agenda, stopping' = stopping, online' = online \/ agenda = <<>>,
           mode' = "flush" => Doing("drain"), mode' \in {"stop", "done"} => Doing("return"),
           \A i \in DOMAIN parked' : parked'[i].sync => Doing("sync")
    PROVE  AgendaOK'
<1>1. agenda = <<>> => DOMAIN agenda = {}
  OBVIOUS
<1> QED BY <1>1 DEF AgendaOK, Doing, Shape, Does

LEMMA AgendaStep == Typed /\ AgendaOK /\ [Next]_vars => AgendaOK'
<1> SUFFICES ASSUME Typed, AgendaOK, [Next]_vars PROVE AgendaOK'
  OBVIOUS
<1>0. /\ mode = "flush" => Doing("drain")
      /\ mode \in {"stop", "done"} => Doing("return")
      /\ \A i \in DOMAIN parked : parked[i].sync => Doing("sync")
  BY DEF AgendaOK
<1>1. ASSUME NEW u \in User, Register(u) PROVE AgendaOK'
  BY <1>0, <1>1, SameAgenda DEF Register, Selecting, workerVars
<1>2. ASSUME NEW u \in User, Move(u) PROVE AgendaOK'
  BY <1>0, <1>2, SameAgenda DEF Move, workerVars
<1>3. CASE PersistTick
  BY <1>0, <1>3, SameAgenda DEF PersistTick, workerVars
<1>4. ASSUME NEW u \in User, u \in online, Leave(u) \/ Logout(u) PROVE AgendaOK'
  <2>1. /\ agenda = <<>> /\ DOMAIN agenda = {} /\ u \in online /\ UNCHANGED <<stopping, online, parked, mode>>
        /\ agenda' = Departure(u) \/ agenda' = Departure(u) \o Drain \o <<Op("reply", u)>>
    BY <1>4 DEF Leave, Logout, Selecting, workerVars
  <2>2. /\ Shape(agenda')
        /\ \A i \in DOMAIN agenda' :
              /\ agenda'[i].op \in {"final", "sync", "remove"} => agenda'[i].user \in online
              /\ agenda'[i].op = "sync" => Does(agenda', i + 1, "remove", agenda'[i].user)
              /\ agenda'[i].op = "reply" =>
                    \E j \in DOMAIN agenda' : j < i /\ Does(agenda', j, "remove", agenda'[i].user)
              /\ agenda'[i].op # "return"
    BY <2>1, LeaveAgenda
  <2>3. ~stopping
    BY <2>1 DEF AgendaOK
  <2> QED BY <1>0, <2>1, <2>2, <2>3 DEF AgendaOK, Doing
<1>4a. ASSUME NEW u \in User, u \notin online, Leave(u) \/ Logout(u) PROVE AgendaOK'
  <2>1. /\ agenda = <<>> /\ DOMAIN agenda = {} /\ UNCHANGED <<stopping, online, parked, mode>>
        /\ agenda' = <<>> \o Drain \o <<Op("reply", u)>>
    BY <1>4a DEF Leave, Logout, Selecting, workerVars
  <2>2. /\ Shape(agenda')
        /\ \A i \in DOMAIN agenda' :
              /\ agenda'[i].op \in {"drain", "reply"}
              /\ agenda'[i].op = "reply" => agenda'[i].user = u
    BY <2>1, OfflineLogoutShape
  <2>3. ~stopping
    BY <2>1 DEF AgendaOK
  <2> QED BY <1>0, <1>4a, <2>1, <2>2, <2>3 DEF AgendaOK, Doing
<1>5. CASE Stop
  <2>1. agenda = <<>> /\ DOMAIN agenda = {} /\ stopping' /\ UNCHANGED <<online, parked, mode>>
    BY <1>5 DEF Stop, Selecting, workerVars
  <2>2. PICK order \in Orders(online) : agenda' = StopAgenda(order)
    BY <1>5 DEF Stop
  <2>3. /\ Shape(agenda')
        /\ \A i \in DOMAIN agenda' :
              /\ agenda'[i].op \in {"final", "sync", "drain", "return"}
              /\ agenda'[i].op \in {"final", "sync"} => agenda'[i].user \in online
        /\ \E i \in DOMAIN agenda' : agenda'[i].op = "return"
    BY <2>2, StopShape
  <2> QED BY <1>0, <2>1, <2>3 DEF AgendaOK, Doing
<1>6. CASE FinalSave
  <2>1. /\ Doing("final") /\ ~Doing("remove") /\ ~Doing("sync") /\ ~Doing("drain") /\ ~Doing("return")
        /\ agenda # <<>> /\ Head(agenda).op # "return"
        /\ agenda' = Tail(agenda) /\ stopping' = stopping /\ online' = online /\ mode' = mode
    BY <1>6 DEF FinalSave, Doing, workerVars
  <2>2. Does(agenda, 2, "sync", agenda[1].user)
    <3>1. 1 \in DOMAIN agenda /\ agenda[1].op = "final"
      BY <2>1, HeadIs
    <3> QED BY <3>1 DEF AgendaOK, Shape
  <2>3. Doing("sync")'
    <3>1. agenda' \in Seq(Step) /\ 1 \in DOMAIN agenda' /\ agenda'[1] = agenda[2]
      BY <2>1, <2>2, TailIs DEF Typed, Does
    <3>2. agenda' # <<>> /\ Head(agenda') = agenda[2]
      BY <3>1
    <3> QED BY <2>2, <3>2 DEF Doing, Does
  <2> QED BY <1>0, <2>1, <2>3, Pop DEF AgendaOK
<1>7. CASE SyncReturns
  <2>1. /\ Doing("sync") /\ ~Doing("remove") /\ ~Doing("drain") /\ ~Doing("return")
        /\ agenda # <<>> /\ Head(agenda).op # "return"
        /\ agenda' = Tail(agenda) /\ stopping' = stopping /\ online' = online /\ mode' = mode
        /\ parked' = parked /\ \A i \in DOMAIN parked : ~parked[i].sync
    BY <1>7 DEF SyncReturns, Doing, workerVars
  <2> QED BY <1>0, <2>1, Pop DEF AgendaOK
<1>8. CASE Reply
  <2>1. /\ Doing("reply") /\ ~Doing("remove") /\ ~Doing("drain") /\ ~Doing("return") /\ ~Doing("sync")
        /\ agenda # <<>> /\ Head(agenda).op # "return"
        /\ agenda' = Tail(agenda) /\ stopping' = stopping /\ online' = online /\ mode' = mode
        /\ parked' = parked
    BY <1>8 DEF Reply, Doing, workerVars
  <2> QED BY <1>0, <2>1, Pop DEF AgendaOK
<1>9. CASE Remove
  <2>1. /\ Doing("remove") /\ ~Doing("drain") /\ ~Doing("return") /\ ~Doing("sync")
        /\ agenda # <<>> /\ Head(agenda).op # "return"
        /\ agenda' = Tail(agenda) /\ stopping' = stopping
        /\ online' = online \ {Head(agenda).user} /\ mode' = mode /\ parked' = parked
    BY <1>9 DEF Remove, Doing, workerVars
  <2> QED BY <1>0, <2>1, Pop DEF AgendaOK
<1>10. CASE Receive
  <2>1. \A i \in DOMAIN parked' : parked'[i].sync => Doing("sync")
    <3>1. parked' = Tail(parked) /\ parked # <<>>
      BY <1>10 DEF Receive
    <3> QED BY <1>0, <3>1, TailIs DEF Typed
  <2> QED BY <1>0, <1>10, <2>1, SameAgenda DEF Receive, actorVars
<1>11. ASSUME NEW ok \in BOOLEAN, WriteChunk(ok) PROVE AgendaOK'
  BY <1>0, <1>11, SameAgenda DEF WriteChunk, actorVars
<1>12. CASE FlushStart \/ WorkerStop
  BY <1>0, <1>12, SameAgenda DEF FlushStart, WorkerStop, actorVars
<1>13. CASE FlushEnd
  <2>1. /\ Doing("drain") /\ ~Doing("remove") /\ ~Doing("return")
        /\ agenda # <<>> /\ Head(agenda).op # "return"
        /\ agenda' = Tail(agenda) /\ stopping' = stopping /\ online' = online /\ mode' = "run"
        /\ DOMAIN parked' = {}
    BY <1>0, <1>13 DEF FlushEnd, Doing
  <2> QED BY <2>1, Pop DEF AgendaOK
<1>14. ASSUME NEW batch \in started, Park(batch) PROVE AgendaOK'
  <2>1. \A i \in DOMAIN parked' : parked'[i].sync => Doing("sync")
    <3>1. \A i \in DOMAIN parked' :
             parked'[i] = [rows |-> batch, sync |-> FALSE] \/ (i \in DOMAIN parked /\ parked'[i] = parked[i])
      BY <1>14, ParkIs, ParcelAppended
    <3> QED BY <1>0, <3>1
  <2> QED BY <1>0, <1>14, <2>1, SameAgenda DEF Park, actorVars, workerVars
<1>15. CASE UNCHANGED vars
  BY <1>0, <1>15, SameAgenda DEF vars, actorVars, workerVars
<1> QED BY <1>1, <1>2, <1>3, <1>4, <1>4a, <1>5, <1>6, <1>7, <1>8, <1>9, <1>10, <1>11, <1>12, <1>13,
           <1>14, <1>15 DEF Next, ActorNext, WorkerNext

---------------------------------------------------------------------------
(* What each step does to the updates on their way *)

LEMMA NothingMoves ==
    ASSUME UNCHANGED <<started, parked>>
    PROVE  Queued' = Queued /\ Blocked' = Blocked
BY DEF Queued, Blocked

LEMMA TickMoves ==
    ASSUME Typed, PersistTick
    PROVE  /\ Blocked' = Blocked /\ writing' = writing
           /\ Queued' = Queued \cup {[user |-> u, pos |-> pos[u], seq |-> seq[u] + 1] : u \in dirty}
<1>1. Blocked' = Blocked /\ writing' = writing
  BY DEF PersistTick, Blocked, workerVars
<1> DEFINE new == {[user |-> u, pos |-> pos[u], seq |-> seq[u] + 1] : u \in dirty}
<1>2. started' = started \cup {new}
  BY TickIs
<1> HIDE DEF new
<1>3. Queued' = (UNION (started \cup {new})) \cup Blocked
  BY <1>1, <1>2 DEF Queued
<1>4. UNION (started \cup {new}) = (UNION started) \cup new
  OBVIOUS
<1> QED BY <1>1, <1>3, <1>4 DEF new, Queued

LEMMA FinalMoves ==
    ASSUME Typed, FinalSave
    PROVE  LET u == Head(agenda).user
               x == [user |-> u, pos |-> pos[u], seq |-> seq[u] + 1]
           IN  /\ Blocked' = Blocked \cup {x} /\ Queued' = Queued \cup {x} /\ writing' = writing
<1> DEFINE u == Head(agenda).user  x == [user |-> u, pos |-> pos[u], seq |-> seq[u] + 1]
           p == [rows |-> {x}, sync |-> TRUE]
<1>1. p \in Parcel /\ parked' = Append(parked, p)
  BY FinalIs
<1>2. p.rows = {x}
  OBVIOUS
<1> HIDE DEF p
<1>3. Blocked' = Blocked \cup {x}
  BY <1>1, <1>2, QueuedParked
<1>4. started' = started /\ writing' = writing
  BY DEF FinalSave, workerVars
<1> HIDE DEF x
<1> QED BY <1>3, <1>4 DEF Queued, x

LEMMA ParkMoves ==
    ASSUME Typed, NEW batch \in started, Park(batch)
    PROVE  Queued' = Queued /\ Blocked' = Blocked \cup batch /\ writing' = writing
<1> DEFINE p == [rows |-> batch, sync |-> FALSE]
<1>1. p \in Parcel /\ parked' = Append(parked, p) /\ started' = started \ {batch}
  BY ParkIs
<1>2. p.rows = batch
  OBVIOUS
<1> HIDE DEF p
<1>3. Blocked' = Blocked \cup batch
  BY <1>1, <1>2, QueuedParked
<1>4. (UNION (started \ {batch})) \cup batch = UNION started
  OBVIOUS
<1>5. Queued' = Queued
  BY <1>1, <1>3, <1>4 DEF Queued
<1> QED BY <1>3, <1>5 DEF Park, workerVars

LEMMA ReceiveMoves ==
    ASSUME Typed, RowsOK, Receive
    PROVE  LET batch == Head(parked).rows
           IN  /\ Queued = Queued' \cup batch /\ Blocked = Blocked' \cup batch
               /\ writing = {} /\ writing' \subseteq batch
               /\ batch \subseteq Update /\ OneRowPerUser(batch) /\ OneRowPerUser(writing')
               /\ \A x \in batch : x \in writing' <=> x.seq > lastSeq[x.user]
<1> DEFINE batch == Head(parked).rows
<1>1. parked # <<>> /\ parked' = Tail(parked) /\ started' = started /\ writing = {}
      /\ writing' = FilterAndCollapse(batch)
  BY DEF Receive
<1>2. 1 \in DOMAIN parked /\ Head(parked) = parked[1] /\ Head(parked) \in Parcel
  BY <1>1, TailIs DEF Typed
<1>3. batch \subseteq Update /\ OneRowPerUser(batch)
  BY <1>2 DEF Parcel, RowsOK
<1>4. Blocked = Blocked' \cup batch
  BY <1>1, QueuedReceived
<1> HIDE DEF batch
<1>5. Queued = Queued' \cup batch
  BY <1>1, <1>4 DEF Queued
<1>6. ASSUME NEW x \in batch PROVE x \in writing' <=> x.seq > lastSeq[x.user]
  <2>1. \A y \in batch : y.user = x.user => y.seq <= x.seq
    <3> SUFFICES ASSUME NEW y \in batch, y.user = x.user PROVE y.seq <= x.seq
      OBVIOUS
    <3>1. y = x /\ x.seq \in Nat
      BY <1>3 DEF OneRowPerUser, Update
    <3> QED BY <3>1
  <2> QED BY <1>1, <2>1 DEF FilterAndCollapse
<1>7. writing' \subseteq batch
  BY <1>1 DEF FilterAndCollapse
<1>8. OneRowPerUser(writing')
  BY <1>3, <1>7 DEF OneRowPerUser
<1> QED BY <1>1, <1>3, <1>4, <1>5, <1>6, <1>7, <1>8 DEF batch

LEMMA RowsStep == Typed /\ RowsOK /\ [Next]_vars => RowsOK'
<1> SUFFICES ASSUME Typed, RowsOK, [Next]_vars PROVE RowsOK'
  OBVIOUS
<1>1. CASE UNCHANGED <<started, parked, writing, lastSeq>>
  BY <1>1 DEF RowsOK, OneRowPerUser
<1>2. CASE PersistTick
  <2> DEFINE new == {[user |-> u, pos |-> pos[u], seq |-> seq[u] + 1] : u \in dirty}
  <2>1. OneRowPerUser(new)
    BY DEF OneRowPerUser
  <2>2. started' = started \cup {new} /\ UNCHANGED <<parked, writing, lastSeq>>
    BY <1>2, TickIs DEF PersistTick, workerVars
  <2> HIDE DEF new
  <2> QED BY <2>1, <2>2 DEF RowsOK, OneRowPerUser
<1>3. CASE FinalSave
  <2> DEFINE x == [user |-> Head(agenda).user, pos |-> pos[Head(agenda).user],
                   seq |-> seq[Head(agenda).user] + 1]
             p == [rows |-> {x}, sync |-> TRUE]
  <2>1. p \in Parcel /\ parked' = Append(parked, p) /\ UNCHANGED <<started, writing, lastSeq>>
    BY <1>3, FinalIs DEF FinalSave, workerVars
  <2>2. OneRowPerUser(p.rows)
    BY DEF OneRowPerUser
  <2> HIDE DEF p
  <2>3. \A i \in DOMAIN parked' : parked'[i] = p \/ (i \in DOMAIN parked /\ parked'[i] = parked[i])
    BY <2>1, ParcelAppended
  <2>4. \A i \in DOMAIN parked' : OneRowPerUser(parked'[i].rows)
    BY <2>2, <2>3 DEF RowsOK
  <2> QED BY <2>1, <2>4 DEF RowsOK, OneRowPerUser
<1>4. ASSUME NEW batch \in started, Park(batch) PROVE RowsOK'
  <2> DEFINE p == [rows |-> batch, sync |-> FALSE]
  <2>1. p \in Parcel /\ parked' = Append(parked, p) /\ started' \subseteq started
        /\ UNCHANGED <<writing, lastSeq>>
    BY <1>4, ParkIs DEF Park, workerVars
  <2>2. OneRowPerUser(p.rows)
    BY DEF RowsOK
  <2> HIDE DEF p
  <2>3. \A i \in DOMAIN parked' : parked'[i] = p \/ (i \in DOMAIN parked /\ parked'[i] = parked[i])
    BY <2>1, ParcelAppended
  <2>4. \A i \in DOMAIN parked' : OneRowPerUser(parked'[i].rows)
    BY <2>2, <2>3 DEF RowsOK
  <2> QED BY <2>1, <2>4 DEF RowsOK, OneRowPerUser
<1>5. CASE Receive
  <2>1. OneRowPerUser(writing') /\ \A x \in writing' : x.seq > lastSeq[x.user]
    BY <1>5, ReceiveMoves
  <2>2. parked # <<>> /\ parked' = Tail(parked) /\ UNCHANGED <<started, lastSeq>>
    BY <1>5 DEF Receive
  <2>3. \A i \in DOMAIN parked' : i + 1 \in DOMAIN parked /\ parked'[i] = parked[i + 1]
    BY <2>2, TailIs DEF Typed
  <2>4. \A i \in DOMAIN parked' : OneRowPerUser(parked'[i].rows)
    BY <2>3 DEF RowsOK
  <2> QED BY <2>1, <2>2, <2>4 DEF RowsOK, OneRowPerUser
<1>6. ASSUME NEW ok \in BOOLEAN, WriteChunk(ok) PROVE RowsOK'
  <2>1. UNCHANGED <<started, parked>>
    BY <1>6 DEF WriteChunk
  <2>2. PICK chunk \in SUBSET writing :
           /\ writing' = writing \ chunk
           /\ \A u \in User : lastSeq'[u] = lastSeq[u] \/ \E x \in chunk : x.user = u
    BY <1>6, WriteIs
  <2>3. \A x \in writing' : x.seq > lastSeq'[x.user]
    <3> SUFFICES ASSUME NEW x \in writing' PROVE x.seq > lastSeq'[x.user]
      OBVIOUS
    <3>1. x \in writing /\ x \notin chunk /\ x.user \in User
      BY <2>2, UpdateIs
    <3>2. \A y \in chunk : y.user # x.user
      BY <2>2, <3>1 DEF RowsOK, OneRowPerUser
    <3> QED BY <2>2, <3>1, <3>2 DEF RowsOK
  <2> QED BY <2>1, <2>2, <2>3 DEF RowsOK, OneRowPerUser
<1>7. ASSUME NEW u \in User, Register(u) \/ Move(u) \/ Leave(u) \/ Logout(u) PROVE RowsOK'
  BY <1>1, <1>7 DEF Register, Move, Leave, Logout, workerVars
<1>8. CASE Stop \/ SyncReturns \/ Remove \/ Reply \/ FlushStart \/ FlushEnd \/ WorkerStop \/ UNCHANGED vars
  BY <1>1, <1>8 DEF Stop, SyncReturns, Remove, Reply, FlushStart, FlushEnd, WorkerStop, workerVars, vars
<1> QED BY <1>2, <1>3, <1>4, <1>5, <1>6, <1>7, <1>8 DEF Next, ActorNext, WorkerNext

LEMMA WalkedStep == Base /\ [Next]_vars => \A u \in User : Walked(u)'
<1> SUFFICES ASSUME Base, [Next]_vars, NEW u \in User PROVE Walked(u)'
  OBVIOUS
<1>0. /\ Typed /\ AgendaOK /\ RowsOK /\ Walked(u)
      /\ pos[u] \in Nat /\ walked[u] \in Nat /\ db[u] \in Nat /\ seq[u] \in Nat /\ sessions[u] \in Nat
      /\ \A x \in Queued \cup writing : x.user \in User /\ x.pos \in Nat /\ x.seq \in Nat
  BY UpdateIs DEF Base, Typed
<1>1. CASE /\ UNCHANGED <<started, parked, writing>> /\ pos'[u] = pos[u] /\ walked'[u] = walked[u]
           /\ db'[u] = db[u] /\ (u \in online <=> u \in online') /\ seq'[u] = seq[u]
           /\ sessions'[u] = sessions[u] /\ lastSeq'[u] = lastSeq[u]
  <2>1. Queued' = Queued
    BY <1>1, NothingMoves
  <2> QED BY <1>0, <1>1, <2>1 DEF Walked
<1>2. ASSUME NEW v \in User, Register(v) PROVE Walked(u)'
  <2>1. UNCHANGED <<started, parked, writing, walked, db, seq, lastSeq>> /\ online' = online \cup {v}
        /\ sessions' = [sessions EXCEPT ![v] = @ + 1]
        /\ \/ pos' = [pos EXCEPT ![v] = db[v]]
           \/ pos' = [pos EXCEPT ![v] = 0]
    BY <1>2 DEF Register, workerVars
  <2>2. CASE v = u
    <3>1. Queued' = Queued
      BY <2>1, NothingMoves
    <3>2. pos'[u] <= walked[u]
      BY <1>0, <2>1, <2>2 DEF Typed, Walked
    <3>3. sessions'[u] # 0 /\ u \in online'
      BY <1>0, <2>1, <2>2 DEF Typed
    <3> QED BY <1>0, <2>1, <3>1, <3>2, <3>3 DEF Walked
  <2>3. CASE v # u
    <3>1. pos'[u] = pos[u] /\ sessions'[u] = sessions[u] /\ (u \in online <=> u \in online')
      BY <1>0, <2>1, <2>3 DEF Typed
    <3> QED BY <1>1, <2>1, <3>1
  <2> QED BY <2>2, <2>3
<1>3. ASSUME NEW v \in User, Move(v) PROVE Walked(u)'
  <2>1. UNCHANGED <<started, parked, writing, db, seq, lastSeq, online, sessions>> /\ v \in online
        /\ walked' = [walked EXCEPT ![v] = @ + 1] /\ pos' = [pos EXCEPT ![v] = walked[v] + 1]
    BY <1>3 DEF Move, workerVars
  <2>2. CASE v = u
    <3>1. Queued' = Queued
      BY <2>1, NothingMoves
    <3>2. pos'[u] = walked[u] + 1 /\ walked'[u] = walked[u] + 1
      BY <1>0, <2>1, <2>2 DEF Typed
    <3> QED BY <1>0, <2>1, <2>2, <3>1, <3>2 DEF Walked
  <2>3. CASE v # u
    <3>1. pos'[u] = pos[u] /\ walked'[u] = walked[u]
      BY <1>0, <2>1, <2>3 DEF Typed
    <3> QED BY <1>1, <2>1, <3>1
  <2> QED BY <2>2, <2>3
<1>4. CASE PersistTick
  <2>1. /\ writing' = writing
        /\ Queued' = Queued \cup {[user |-> v, pos |-> pos[v], seq |-> seq[v] + 1] : v \in dirty}
    BY <1>0, <1>4, TickMoves
  <2>2. UNCHANGED <<pos, walked, db, online, sessions, lastSeq>>
        /\ seq' = [v \in User |-> IF v \in dirty THEN seq[v] + 1 ELSE seq[v]] /\ dirty \subseteq online
    BY <1>0, <1>4 DEF PersistTick, workerVars, Typed
  <2>3. ASSUME NEW x \in Queued' \cup writing', x.user = u
        PROVE  x.pos <= walked[u] /\ (x \in Queued \cup writing \/ u \in dirty)
    BY <1>0, <2>1, <2>3 DEF Walked
  <2>4. u \notin online => seq'[u] = 0
    BY <1>0, <2>2 DEF Walked
  <2> QED BY <1>0, <2>2, <2>3, <2>4 DEF Walked
<1>5. CASE FinalSave
  <2> DEFINE v == Head(agenda).user  x == [user |-> v, pos |-> pos[v], seq |-> seq[v] + 1]
  <2>1. v \in User /\ v \in online /\ seq' = [seq EXCEPT ![v] = @ + 1]
    <3>1. Doing("final") /\ v \in User /\ seq' = [seq EXCEPT ![v] = @ + 1]
      BY <1>0, <1>5, FinalIs
    <3>2. v \in online
      BY <1>0, <3>1, HeadIs DEF AgendaOK
    <3> QED BY <3>1, <3>2
  <2>2. Queued' = Queued \cup {x} /\ writing' = writing
    BY <1>0, <1>5, FinalMoves
  <2>3. UNCHANGED <<pos, walked, db, online, sessions, lastSeq>>
    BY <1>5 DEF FinalSave, workerVars
  <2>4. x.user = v /\ x.pos = pos[v]
    OBVIOUS
  <2> HIDE DEF x, v
  <2>5. u \notin online => seq'[u] = 0
    BY <1>0, <2>1 DEF Walked, Typed
  <2> QED BY <1>0, <2>1, <2>2, <2>3, <2>4, <2>5 DEF Walked
<1>6. CASE Remove
  <2> DEFINE v == Head(agenda).user
  <2>1. v \in User /\ v \in online
    BY <1>0, <1>6, HeadIs DEF Remove, AgendaOK
  <2>2. UNCHANGED <<started, parked, writing, pos, walked, db, sessions, lastSeq>>
        /\ online' = online \ {v} /\ seq' = [seq EXCEPT ![v] = 0]
    BY <1>6 DEF Remove, workerVars
  <2> HIDE DEF v
  <2>3. Queued' = Queued
    BY <2>2, NothingMoves
  <2>4. u \notin online' => seq'[u] = 0
    BY <1>0, <2>1, <2>2 DEF Walked, Typed
  <2> QED BY <1>0, <2>1, <2>2, <2>3, <2>4 DEF Walked
<1>7. CASE Receive
  <2>1. UNCHANGED <<pos, walked, db, seq, online, sessions, lastSeq>>
    BY <1>7 DEF Receive, actorVars
  <2>2. Queued' \cup writing' \subseteq Queued \cup writing
    BY <1>0, <1>7, ReceiveMoves
  <2> QED BY <1>0, <2>1, <2>2 DEF Walked
<1>8. ASSUME NEW ok \in BOOLEAN, WriteChunk(ok) PROVE Walked(u)'
  <2>1. UNCHANGED <<started, parked, pos, walked, seq, online, sessions>>
    BY <1>8 DEF WriteChunk, actorVars
  <2>2. PICK chunk \in SUBSET writing :
           /\ writing' = writing \ chunk
           /\ \/ db'[u] = db[u] /\ lastSeq'[u] = lastSeq[u]
              \/ \E x \in chunk : x.user = u /\ db'[u] = x.pos /\ lastSeq'[u] = x.seq
    BY <1>0, <1>8, WriteIs
  <2>3. Queued' = Queued
    BY <2>1, NothingMoves
  <2> QED BY <1>0, <2>1, <2>2, <2>3 DEF Walked
<1>9. ASSUME NEW batch \in started, Park(batch) PROVE Walked(u)'
  <2>1. Queued' = Queued /\ writing' = writing
    BY <1>0, <1>9, ParkMoves
  <2>2. UNCHANGED <<pos, walked, db, seq, online, sessions, lastSeq>>
    BY <1>9 DEF Park, actorVars, workerVars
  <2> QED BY <1>0, <2>1, <2>2 DEF Walked
<1>10. ASSUME NEW v \in User, Leave(v) \/ Logout(v) PROVE Walked(u)'
  BY <1>1, <1>10 DEF Leave, Logout, workerVars
<1>11. CASE Stop \/ SyncReturns \/ Reply \/ FlushStart \/ FlushEnd \/ WorkerStop \/ UNCHANGED vars
  BY <1>1, <1>11 DEF Stop, SyncReturns, Reply, FlushStart, FlushEnd, WorkerStop, actorVars, workerVars, vars
<1> QED BY <1>2, <1>3, <1>4, <1>5, <1>6, <1>7, <1>8, <1>9, <1>10, <1>11 DEF Next, ActorNext, WorkerNext

LEMMA BaseStep == Base /\ [Next]_vars => Base'
BY TypedStep, AgendaStep, RowsStep, WalkedStep DEF Base

---------------------------------------------------------------------------
(* Who is parted *)

\* A new event saves first: nobody who stays is parted yet.
LEMMA EventParted ==
    ASSUME Base, [Next]_vars, NEW u \in User, agenda = <<>>, u \in online', Parted(u)'
    PROVE  Parted(u) /\ UNCHANGED actorVars
<1>0. Typed /\ AgendaOK /\ DOMAIN agenda = {} /\ \A name : ~Doing(name)
  BY DEF Base, Doing
<1>1. ~stopping /\ ~Parted(u)
  BY <1>0 DEF AgendaOK, Parted, Named
<1>2. ASSUME NEW v \in User, Register(v) \/ Move(v) PROVE FALSE
  BY <1>0, <1>1, <1>2 DEF Register, Move, Parted, Named
<1>3. CASE PersistTick
  BY <1>0, <1>1, <1>3 DEF PersistTick, Parted, Named
<1>4. ASSUME NEW v \in User, v \notin online, Leave(v) \/ Logout(v) PROVE FALSE
  <2>1. online' = online /\ ~stopping' /\ agenda' = <<>> \o Drain \o <<Op("reply", v)>>
    BY <1>1, <1>4 DEF Leave, Logout
  <2>2. \A i \in DOMAIN agenda' :
           agenda'[i].op \in {"drain", "reply"} /\ (agenda'[i].op = "reply" => agenda'[i].user = v)
    BY <2>1, OfflineLogoutShape
  <2> QED BY <1>4, <2>1, <2>2 DEF Parted, Named, Does
<1>4a. ASSUME NEW v \in User, v \in online, Leave(v) \/ Logout(v) PROVE FALSE
  <2>1. v \in online /\ ~stopping'
        /\ (agenda' = Departure(v) \/ agenda' = Departure(v) \o Drain \o <<Op("reply", v)>>)
    BY <1>1, <1>4a DEF Leave, Logout
  <2>2. Does(agenda', 1, "final", v) /\ \A i \in DOMAIN agenda' :
           agenda'[i].op \in {"sync", "remove", "reply"} => agenda'[i].user = v
    BY <2>1, LeaveAgenda
  <2>3. CASE u = v
    BY <2>2, <2>3 DEF Parted, Pending, Does
  <2>4. CASE u # v
    BY <2>1, <2>2, <2>4 DEF Parted, Named, Does
  <2> QED BY <2>3, <2>4
<1>5. CASE Stop
  <2>1. PICK order \in Orders(online) : agenda' = StopAgenda(order)
    BY <1>5 DEF Stop
  <2>2. /\ \A i \in DOMAIN agenda' :
              /\ agenda'[i].op \in {"final", "sync", "drain", "return"}
              /\ agenda'[i].op \in {"final", "sync"} => agenda'[i].user \in online
        /\ \A v \in online : \E i \in DOMAIN agenda' : Does(agenda', i, "final", v)
    BY <1>0, <2>1, StopShape
  <2>3. online' = online
    BY <1>5 DEF Stop
  <2> QED BY <2>2, <2>3 DEF Parted, Pending, Named, Does
<1>6. CASE FinalSave \/ SyncReturns \/ Remove \/ Reply
  BY <1>0, <1>6 DEF FinalSave, SyncReturns, Remove, Reply
<1>7. CASE FlushEnd
  BY <1>0, <1>7 DEF FlushEnd, AgendaOK
<1>8. ASSUME UNCHANGED actorVars PROVE Parted(u)
  BY <1>8 DEF actorVars, Parted, Named, Pending, Does
<1>9. CASE \/ Receive \/ WriteChunk(TRUE) \/ WriteChunk(FALSE) \/ FlushStart \/ WorkerStop
           \/ UNCHANGED vars \/ \E batch \in started : Park(batch)
  BY <1>1, <1>8, <1>9 DEF Receive, WriteChunk, FlushStart, WorkerStop, vars, Park
<1> QED BY <1>2, <1>3, <1>4, <1>4a, <1>5, <1>6, <1>7, <1>9 DEF Next, ActorNext, WorkerNext

\* A step of an event parts only the player whose final save it is, and the answer
\* comes after a drain.
LEMMA PopParted ==
    ASSUME Typed, AgendaOK, agenda # <<>>, agenda' = Tail(agenda), stopping' = stopping,
           online' \subseteq online, NEW u \in User
    PROVE  /\ Parted(u)' /\ ~(Doing("final") /\ Head(agenda).user = u) => Parted(u)
           /\ (Doing("reply") \/ Doing("return"))' => Doing("drain")
<1>1. /\ Head(agenda) = agenda[1] /\ 1 \in DOMAIN agenda
      /\ \A i \in DOMAIN agenda' : i \in Nat /\ i + 1 \in DOMAIN agenda /\ agenda'[i] = agenda[i + 1]
      /\ \A j \in DOMAIN agenda : j \in Nat /\ (j # 1 => j - 1 \in DOMAIN agenda' /\ agenda'[j - 1] = agenda[j])
      /\ agenda' \in Seq(Step)
  BY TailIs DEF Typed
<1>2. ASSUME Parted(u)', ~(Doing("final") /\ Head(agenda).user = u) PROVE Parted(u)
  <2>1. ~Pending(u)
    <3> SUFFICES ASSUME NEW j \in DOMAIN agenda, Does(agenda, j, "final", u) PROVE FALSE
      BY DEF Pending
    <3>1. j # 1
      BY <1>1, <1>2 DEF Does, Doing
    <3>2. Does(agenda', j - 1, "final", u) /\ j - 1 \in DOMAIN agenda'
      BY <1>1, <3>1 DEF Does
    <3> QED BY <1>2, <3>2 DEF Parted, Pending
  <2>2. Named(u)' => Named(u)
    <3> SUFFICES ASSUME NEW i \in DOMAIN agenda', NEW name \in {"sync", "remove", "reply"},
                        Does(agenda', i, name, u)
                 PROVE  Named(u)
      BY DEF Named
    <3>1. i + 1 \in DOMAIN agenda /\ Does(agenda, i + 1, name, u)
      BY <1>1 DEF Does
    <3> QED BY <3>1 DEF Named
  <2> QED BY <1>2, <2>1, <2>2 DEF Parted
<1>3. ASSUME (Doing("reply") \/ Doing("return"))' PROVE Doing("drain")
  <2>1. agenda' # <<>> /\ Head(agenda').op \in {"reply", "return"}
    BY <1>3 DEF Doing
  <2>2. 1 \in DOMAIN agenda' /\ Head(agenda') = agenda'[1]
    BY <1>1, <2>1, TailIs
  <2>3. 2 \in DOMAIN agenda /\ agenda[2].op \in {"reply", "return"}
    <3>1. 1 + 1 \in DOMAIN agenda /\ agenda'[1] = agenda[1 + 1]
      BY <1>1, <2>2
    <3> QED BY <2>1, <2>2, <3>1
  <2>4. agenda[1].op = "drain"
    <3>1. \A i \in DOMAIN agenda :
             agenda[i].op \in {"reply", "return"} => i = 1 \/ agenda[i - 1].op = "drain"
      BY DEF AgendaOK, Shape
    <3>2. 2 = 1 \/ agenda[2 - 1].op = "drain"
      BY <2>3, <3>1
    <3>3. 2 # 1 /\ 2 - 1 = 1
      OBVIOUS
    <3> QED BY <3>2, <3>3
  <2> QED BY <1>1, <2>4 DEF Doing
<1> QED BY <1>2, <1>3

---------------------------------------------------------------------------
(* The first session *)

LEMMA OrderedStep ==
    ASSUME Base, [Next]_vars, NEW u \in User, sessions'[u] <= 1, FirstSession
    PROVE  Ordered(u)' /\ Ordered(u) /\ sessions[u] <= 1
<1>0. /\ Typed /\ AgendaOK /\ RowsOK /\ Walked(u)
      /\ pos[u] \in Nat /\ walked[u] \in Nat /\ db[u] \in Nat /\ seq[u] \in Nat /\ sessions[u] \in Nat
      /\ lastSeq[u] \in Nat
      /\ \A x \in Queued \cup writing : x.user \in User /\ x.pos \in Nat /\ x.seq \in Nat
  BY UpdateIs DEF Base, Typed
<1>1. CASE /\ UNCHANGED <<started, parked, writing>> /\ pos'[u] = pos[u] /\ walked'[u] = walked[u]
           /\ db'[u] = db[u] /\ (u \in online' => u \in online) /\ (seq'[u] = seq[u] \/ u \notin online')
           /\ sessions'[u] = sessions[u] /\ lastSeq'[u] = lastSeq[u]
  <2>1. Queued' = Queued
    BY <1>1, NothingMoves
  <2>2. Ordered(u) /\ sessions[u] <= 1
    BY <1>1 DEF FirstSession
  <2> QED BY <1>1, <2>1, <2>2 DEF Ordered
<1>2. ASSUME NEW v \in User, Register(v) PROVE Ordered(u)' /\ Ordered(u) /\ sessions[u] <= 1
  <2>1. UNCHANGED <<started, parked, writing, walked, db, seq, lastSeq>> /\ online' = online \cup {v}
        /\ sessions' = [sessions EXCEPT ![v] = @ + 1]
        /\ \/ pos' = [pos EXCEPT ![v] = db[v]]
           \/ pos' = [pos EXCEPT ![v] = 0]
    BY <1>2 DEF Register, workerVars
  <2>2. CASE v = u
    <3>1. Queued' = Queued
      BY <2>1, NothingMoves
    <3>2. sessions[u] = 0
      BY <1>0, <2>1, <2>2 DEF Typed
    <3>3. walked[u] = 0 /\ lastSeq[u] = 0 /\ db[u] = 0 /\ \A x \in Queued \cup writing : x.user # u
      BY <1>0, <3>2 DEF Walked
    <3>4. pos'[u] = 0
      BY <1>0, <2>1, <2>2, <3>3 DEF Typed
    <3>5. Ordered(u)
      BY <3>2 DEF FirstSession
    <3> QED BY <1>0, <2>1, <3>1, <3>2, <3>3, <3>4, <3>5 DEF Ordered
  <2>3. CASE v # u
    <3>1. pos'[u] = pos[u] /\ sessions'[u] = sessions[u] /\ (u \in online' => u \in online)
      BY <1>0, <2>1, <2>3 DEF Typed
    <3> QED BY <1>1, <2>1, <3>1
  <2> QED BY <2>2, <2>3
<1>3. ASSUME NEW v \in User, Move(v) PROVE Ordered(u)' /\ Ordered(u) /\ sessions[u] <= 1
  <2>1. UNCHANGED <<started, parked, writing, db, seq, lastSeq, online, sessions>>
        /\ walked' = [walked EXCEPT ![v] = @ + 1] /\ pos' = [pos EXCEPT ![v] = walked[v] + 1]
    BY <1>3 DEF Move, workerVars
  <2>2. Ordered(u) /\ sessions[u] <= 1
    BY <2>1 DEF FirstSession
  <2>3. CASE v = u
    <3>1. Queued' = Queued
      BY <2>1, NothingMoves
    <3>2. pos'[u] = walked[u] + 1 /\ walked'[u] = walked[u] + 1
      BY <1>0, <2>1, <2>3 DEF Typed
    <3> QED BY <2>1, <2>2, <3>1, <3>2 DEF Ordered
  <2>4. CASE v # u
    <3>1. pos'[u] = pos[u] /\ walked'[u] = walked[u]
      BY <1>0, <2>1, <2>4 DEF Typed
    <3> QED BY <1>1, <2>1, <3>1
  <2> QED BY <2>3, <2>4
\* A new update has a number above all others of the session.
<1>4. ASSUME NEW new \in SUBSET Update, Ordered(u), u \in online \/ \A y \in new : y.user # u,
             Queued' = Queued \cup new, UNCHANGED <<writing, pos, walked, db, lastSeq, online>>,
             \A y \in new : y.user = u => y.pos = pos[u] /\ y.seq = seq[u] + 1 /\ seq'[u] = seq[u] + 1,
             seq'[u] \in {seq[u], seq[u] + 1}
      PROVE  Ordered(u)'
  <2>1. ASSUME NEW y \in new, y.user = u
        PROVE  /\ u \in online /\ y.pos = walked[u] /\ y.seq = seq[u] + 1 /\ seq'[u] = seq[u] + 1
               /\ y.seq > lastSeq[u] /\ y.pos >= db[u]
               /\ \A x \in Queued \cup writing : x.user = u => x.seq < y.seq /\ x.pos <= y.pos
    BY <1>0, <1>4, <2>1 DEF Ordered, Walked
  <2>2. ASSUME NEW x \in Queued' \cup writing', NEW y \in Queued' \cup writing',
               x.user = u, y.user = u, x.seq <= y.seq
        PROVE  x.pos <= y.pos
    <3>1. CASE x \in Queued \cup writing /\ y \in Queued \cup writing
      BY <2>2, <3>1, <1>4 DEF Ordered
    <3>2. CASE x \in new
      <4>1. CASE y \in new
        BY <1>0, <2>1, <2>2, <3>2, <4>1
      <4>2. CASE y \in Queued \cup writing
        BY <1>0, <2>1, <2>2, <3>2, <4>2
      <4> QED BY <1>4, <4>1, <4>2
    <3>3. CASE x \in Queued \cup writing /\ y \in new
      BY <2>1, <2>2, <3>3
    <3> QED BY <1>4, <3>1, <3>2, <3>3
  <2>3. ASSUME NEW x \in Queued' \cup writing', x.user = u
        PROVE  /\ x.seq <= lastSeq[u] => x.pos <= db[u]
               /\ x.seq >= lastSeq[u] => x.pos >= db[u]
               /\ u \in online => x.seq <= seq'[u]
    <3>1. CASE x \in Queued \cup writing
      BY <1>0, <1>4, <2>3, <3>1 DEF Ordered
    <3>2. CASE x \in new
      BY <1>0, <2>1, <2>3, <3>2
    <3> QED BY <1>4, <2>3, <3>1, <3>2
  <2> QED BY <1>0, <1>4, <2>2, <2>3 DEF Ordered
<1>5. CASE PersistTick
  <2> DEFINE new == {[user |-> v, pos |-> pos[v], seq |-> seq[v] + 1] : v \in dirty}
  <2>1. UNCHANGED <<pos, walked, db, online, sessions, lastSeq>>
        /\ seq' = [v \in User |-> IF v \in dirty THEN seq[v] + 1 ELSE seq[v]] /\ dirty \subseteq online
    BY <1>0, <1>5 DEF PersistTick, workerVars, Typed
  <2>2. writing' = writing /\ Queued' = Queued \cup new /\ new \in SUBSET Update
    BY <1>0, <1>5, TickMoves, TickIs
  <2>3. \A y \in new : y.user = u => u \in dirty /\ y.pos = pos[u] /\ y.seq = seq[u] + 1
    OBVIOUS
  <2>4. seq'[u] \in {seq[u], seq[u] + 1} /\ (u \in dirty => seq'[u] = seq[u] + 1 /\ u \in online)
    BY <2>1
  <2> HIDE DEF new
  <2>5. Ordered(u) /\ sessions[u] <= 1
    BY <2>1 DEF FirstSession
  <2> QED BY <1>4, <2>1, <2>2, <2>3, <2>4, <2>5
<1>6. CASE FinalSave
  <2> DEFINE v == Head(agenda).user  x == [user |-> v, pos |-> pos[v], seq |-> seq[v] + 1]  new == {x}
  <2>1. v \in User /\ v \in online /\ seq' = [seq EXCEPT ![v] = @ + 1] /\ x \in Update
    <3>1. Doing("final") /\ v \in User /\ seq' = [seq EXCEPT ![v] = @ + 1] /\ x \in Update
      BY <1>0, <1>6, FinalIs
    <3>2. v \in online
      BY <1>0, <3>1, HeadIs DEF AgendaOK
    <3> QED BY <3>1, <3>2
  <2>2. Queued' = Queued \cup new /\ writing' = writing
    BY <1>0, <1>6, FinalMoves
  <2>3. UNCHANGED <<pos, walked, db, online, sessions, lastSeq>>
    BY <1>6 DEF FinalSave, workerVars
  <2>4. \A y \in new : y.user = v /\ y.pos = pos[v] /\ y.seq = seq[v] + 1
    OBVIOUS
  <2>5. new \in SUBSET Update
    BY <2>1
  <2> HIDE DEF new, x, v
  <2>6. Ordered(u) /\ sessions[u] <= 1
    BY <2>3 DEF FirstSession
  <2>7. seq'[u] \in {seq[u], seq[u] + 1} /\ (v = u => seq'[u] = seq[u] + 1)
    BY <1>0, <2>1 DEF Typed
  <2> QED BY <1>4, <2>1, <2>2, <2>3, <2>4, <2>5, <2>6, <2>7
<1>7. CASE Remove
  <2>1. UNCHANGED <<started, parked, writing, pos, walked, db, sessions, lastSeq>>
        /\ online' = online \ {Head(agenda).user} /\ seq' = [seq EXCEPT ![Head(agenda).user] = 0]
    BY <1>7 DEF Remove, workerVars
  <2>2. u \in online' => u \in online /\ seq'[u] = seq[u]
    BY <1>0, <2>1 DEF Typed
  <2> QED BY <1>1, <2>1, <2>2
<1>8. CASE Receive
  <2>1. UNCHANGED <<pos, walked, db, seq, online, sessions, lastSeq>>
    BY <1>8 DEF Receive, actorVars
  <2>2. Queued' \cup writing' \subseteq Queued \cup writing
    BY <1>0, <1>8, ReceiveMoves
  <2>3. Ordered(u) /\ sessions[u] <= 1
    BY <2>1 DEF FirstSession
  <2> QED BY <2>1, <2>2, <2>3 DEF Ordered
<1>9. ASSUME NEW ok \in BOOLEAN, WriteChunk(ok) PROVE Ordered(u)' /\ Ordered(u) /\ sessions[u] <= 1
  <2>1. UNCHANGED <<started, parked, pos, walked, seq, online, sessions>>
    BY <1>9 DEF WriteChunk, actorVars
  <2>2. PICK chunk \in SUBSET writing :
           /\ writing' = writing \ chunk
           /\ \/ db'[u] = db[u] /\ lastSeq'[u] = lastSeq[u]
              \/ \E x \in chunk : x.user = u /\ db'[u] = x.pos /\ lastSeq'[u] = x.seq
    BY <1>0, <1>9, WriteIs
  <2>3. Queued' = Queued
    BY <2>1, NothingMoves
  <2>4. Ordered(u) /\ sessions[u] <= 1
    BY <2>1 DEF FirstSession
  <2>5. CASE db'[u] = db[u] /\ lastSeq'[u] = lastSeq[u]
    BY <2>1, <2>2, <2>3, <2>4, <2>5 DEF Ordered
  <2>6. ASSUME NEW z \in chunk, z.user = u, db'[u] = z.pos, lastSeq'[u] = z.seq
        PROVE  Ordered(u)'
    <3>1. z \in Queued \cup writing
      BY <2>2
    <3>2. \A x \in Queued' \cup writing' : x \in Queued \cup writing
      BY <2>2, <2>3
    <3>3. \A x \in Queued' \cup writing' : x.user = u =>
             /\ x.seq <= z.seq => x.pos <= z.pos
             /\ x.seq >= z.seq => x.pos >= z.pos
      BY <1>0, <2>4, <2>6, <3>1, <3>2 DEF Ordered
    <3> QED BY <2>1, <2>4, <2>6, <3>1, <3>2, <3>3 DEF Ordered
  <2> QED BY <2>2, <2>4, <2>5, <2>6
<1>10. ASSUME NEW batch \in started, Park(batch) PROVE Ordered(u)' /\ Ordered(u) /\ sessions[u] <= 1
  <2>1. Queued' = Queued /\ writing' = writing
    BY <1>0, <1>10, ParkMoves
  <2>2. UNCHANGED <<pos, walked, db, seq, online, sessions, lastSeq>>
    BY <1>10 DEF Park, actorVars, workerVars
  <2>3. Ordered(u) /\ sessions[u] <= 1
    BY <2>2 DEF FirstSession
  <2> QED BY <2>1, <2>2, <2>3 DEF Ordered
<1>11. ASSUME NEW v \in User, Leave(v) \/ Logout(v) PROVE Ordered(u)' /\ Ordered(u) /\ sessions[u] <= 1
  BY <1>1, <1>11 DEF Leave, Logout, workerVars
<1>12. CASE Stop \/ SyncReturns \/ Reply \/ FlushStart \/ FlushEnd \/ WorkerStop \/ UNCHANGED vars
  BY <1>1, <1>12 DEF Stop, SyncReturns, Reply, FlushStart, FlushEnd, WorkerStop, actorVars, workerVars, vars
<1> QED BY <1>2, <1>3, <1>5, <1>6, <1>7, <1>8, <1>9, <1>10, <1>11, <1>12 DEF Next, ActorNext, WorkerNext

\* Whoever is parted is saved or is being saved, and saved before anybody is answered.
\* Whoever is about to be removed has been saved first.
LEMMA RemovesParted ==
    ASSUME Typed, AgendaOK, Doing("remove")
    PROVE  Parted(Head(agenda).user)
<1>1. 1 \in DOMAIN agenda /\ Head(agenda) = agenda[1] /\ agenda[1].op = "remove"
  BY HeadIs DEF Doing
<1>2. \A i \in DOMAIN agenda : i # 1 => agenda[i].op \in {"drain", "reply"}
  <2>1. \A i \in DOMAIN agenda : i # 1 => 1 < i
    BY DEF Typed
  <2> QED BY <1>1, <2>1 DEF AgendaOK, Shape
<1> QED BY <1>1, <1>2 DEF Parted, Pending, Named, Does

LEMMA SavedStep ==
    ASSUME Base, FirstSession, [Next]_vars, NEW u \in User, sessions'[u] <= 1, fails' = 0, Ended(u)'
    PROVE  /\ Saved(u)' \/ Saving(u)'
           /\ (Doing("reply") \/ Doing("return"))' => Saved(u)'
<1> DEFINE Goal == /\ Saved(u)' \/ Saving(u)'
                   /\ (Doing("reply") \/ Doing("return"))' => Saved(u)'
           Answering == Doing("reply") \/ Doing("return")
<1>0. /\ Typed /\ AgendaOK /\ RowsOK /\ Walked(u) /\ Base'
      /\ pos[u] \in Nat /\ walked[u] \in Nat /\ db[u] \in Nat /\ fails \in Nat
      /\ \A x \in Queued \cup writing : x.user \in User /\ x.pos \in Nat /\ x.seq \in Nat
      /\ Ordered(u) /\ sessions[u] <= 1
  BY UpdateIs, OrderedStep, BaseStep DEF Base, Typed
<1>1. fails = 0 /\ Ended(u) => (Saved(u) \/ Saving(u)) /\ (Answering => Saved(u))
  BY <1>0 DEF FirstSession
<1> HIDE DEF Answering
\* The worker and the goroutines of Submit: the actor stays where it is.
<1>2. ASSUME UNCHANGED actorVars PROVE Ended(u) /\ (Answering <=> Answering')
  <2>1. UNCHANGED <<agenda, stopping, online>>
    BY <1>2 DEF actorVars
  <2> QED BY <2>1 DEF Ended, Parted, Named, Pending, Does, Answering, Doing
<1>3. CASE UNCHANGED <<started, parked, writing, db, fails, actorVars>>
  <2>1. Blocked' = Blocked /\ pos' = pos
    BY <1>3, NothingMoves DEF actorVars
  <2> QED BY <1>1, <1>2, <1>3, <2>1 DEF Saved, Saving, Answering
<1>4. CASE Receive
  <2>1. UNCHANGED actorVars /\ db' = db /\ fails' = fails /\ pos' = pos
    BY <1>4 DEF Receive, actorVars
  <2>2. (Saved(u) \/ Saving(u)) /\ (Answering' => Saved(u))
    BY <1>1, <1>2, <2>1
  <2>3. Saved(u) => Saved(u)'
    BY <2>1 DEF Saved
  <2>4. ASSUME NEW x \in Blocked \cup writing, x.user = u, x.pos = pos[u]
        PROVE  Saved(u) \/ Saving(u)'
    <3> DEFINE batch == Head(parked).rows
    <3>1. /\ Blocked = Blocked' \cup batch /\ writing = {} /\ Blocked \subseteq Queued
          /\ \A y \in batch : y \in writing' <=> y.seq > lastSeq[y.user]
      BY <1>0, <1>4, ReceiveMoves, UpdateIs
    <3> HIDE DEF batch
    <3>2. CASE x \in Blocked' \cup writing'
      BY <2>1, <2>4, <3>2 DEF Saving
    <3>3. CASE x \in batch /\ x \notin writing'
      <4>1. x.seq <= lastSeq[u] /\ x \in Queued
        BY <1>0, <2>4, <3>1, <3>3 DEF Typed
      <4>2. x.pos <= db[u] /\ db[u] <= pos[u]
        BY <1>0, <2>4, <4>1 DEF Ordered, Walked
      <4> QED BY <1>0, <2>4, <4>2 DEF Saved
    <3> QED BY <2>4, <3>1, <3>2, <3>3
  <2> QED BY <2>2, <2>3, <2>4 DEF Saving, Answering
<1>5. ASSUME NEW ok \in BOOLEAN, WriteChunk(ok) PROVE Goal
  <2>1. UNCHANGED actorVars /\ UNCHANGED <<started, parked, pos>>
    BY <1>5 DEF WriteChunk, actorVars
  <2>2. PICK chunk \in SUBSET writing :
           /\ writing' = writing \ chunk
           /\ ok => fails' = fails
           /\ ~ok => fails' = fails + 1
           /\ \/ db'[u] = db[u] /\ (ok => \A x \in chunk : x.user # u)
              \/ \E x \in chunk : x.user = u /\ db'[u] = x.pos
    BY <1>0, <1>5, WriteIs
  <2>3. ok /\ fails = 0
    BY <1>0, <2>2
  <2>4. (Saved(u) \/ Saving(u)) /\ (Answering' => Saved(u))
    BY <1>1, <1>2, <2>1, <2>3
  <2>5. Blocked' = Blocked
    BY <2>1, NothingMoves
  <2>6. Saved(u) => Saved(u)'
    <3>1. ASSUME Saved(u), NEW x \in chunk, x.user = u, db'[u] = x.pos PROVE Saved(u)'
      <4>1. x \in writing /\ x.seq > lastSeq[u] /\ x.seq \in Nat /\ lastSeq[u] \in Nat
        BY <1>0, <2>2, <3>1 DEF RowsOK, Typed
      <4>2. x.pos >= db[u] /\ x.pos <= pos[u]
        BY <1>0, <3>1, <4>1 DEF Ordered, Walked
      <4> QED BY <1>0, <2>1, <3>1, <4>1, <4>2 DEF Saved
    <3> QED BY <2>1, <2>2, <3>1 DEF Saved
  <2>7. ASSUME NEW x \in Blocked \cup writing, x.user = u, x.pos = pos[u]
        PROVE  Saved(u)' \/ Saving(u)'
    <3>1. CASE x \in chunk
      <4>1. PICK y \in chunk : y.user = u /\ db'[u] = y.pos
        BY <2>2, <2>3, <2>7, <3>1
      <4>2. x = y
        BY <1>0, <2>2, <2>7, <3>1, <4>1 DEF RowsOK, OneRowPerUser
      <4> QED BY <2>1, <2>7, <4>1, <4>2 DEF Saved
    <3>2. CASE x \notin chunk
      BY <2>1, <2>2, <2>5, <2>7, <3>2 DEF Saving
    <3> QED BY <3>1, <3>2
  <2> QED BY <2>4, <2>6, <2>7 DEF Saving, Answering
<1>6. ASSUME NEW batch \in started, Park(batch) PROVE Goal
  <2>1. Blocked \subseteq Blocked' /\ writing' = writing
    BY <1>0, <1>6, ParkMoves
  <2>2. UNCHANGED actorVars /\ UNCHANGED <<pos, db, fails>>
    BY <1>6 DEF Park, actorVars, workerVars
  <2> QED BY <1>1, <1>2, <2>1, <2>2 DEF Saved, Saving, Answering
\* The steps of an event.
<1>7. ASSUME agenda # <<>>, agenda' = Tail(agenda), stopping' = stopping, fails' = fails,
             \/ online' = online
             \/ Doing("remove") /\ online' = online \ {Head(agenda).user}
      PROVE  /\ ~(Doing("final") /\ Head(agenda).user = u) => Saved(u) \/ Saving(u)
             /\ Answering' => Doing("drain")
  <2>1. /\ Parted(u)' /\ ~(Doing("final") /\ Head(agenda).user = u) => Parted(u)
        /\ Answering' => Doing("drain")
    BY <1>0, <1>7, PopParted DEF Answering
  <2>2. CASE Parted(u) \/ u \notin online
    BY <1>1, <1>7, <2>1, <2>2 DEF Ended
  <2>3. CASE ~Parted(u) /\ u \in online
    <3>1. ASSUME Doing("remove"), Head(agenda).user = u PROVE FALSE
      BY <1>0, <2>3, <3>1, RemovesParted
    <3>2. u \in online'
      BY <1>7, <2>3, <3>1
    <3> QED BY <2>1, <2>3, <3>2 DEF Ended
  <2> QED BY <2>2, <2>3
<1>8. CASE FinalSave
  <2> DEFINE v == Head(agenda).user  x == [user |-> v, pos |-> pos[v], seq |-> seq[v] + 1]
  <2>1. Doing("final") /\ agenda # <<>> /\ agenda' = Tail(agenda)
        /\ UNCHANGED <<stopping, online, fails, pos, db, writing>>
    BY <1>8 DEF FinalSave, workerVars, Doing
  <2>2. Blocked' = Blocked \cup {x}
    BY <1>0, <1>8, FinalMoves
  <2>3. ~Answering'
    BY <1>7, <2>1 DEF Doing
  <2>4. CASE v = u
    <3>1. x.user = u /\ x.pos = pos[u] /\ x \in Blocked'
      BY <2>2, <2>4
    <3> QED BY <2>1, <2>3, <3>1 DEF Saving, Answering
  <2>5. CASE v # u
    <3>1. Saved(u) \/ Saving(u)
      BY <1>7, <2>1, <2>5
    <3> QED BY <2>1, <2>2, <2>3, <3>1 DEF Saved, Saving, Answering
  <2> QED BY <2>4, <2>5
<1>9. CASE SyncReturns \/ Reply \/ Remove
  <2>1. /\ ~Doing("final") /\ ~Doing("drain") /\ agenda # <<>> /\ agenda' = Tail(agenda)
        /\ online' = online \/ (Doing("remove") /\ online' = online \ {Head(agenda).user})
        /\ UNCHANGED <<stopping, fails, pos, db, writing, started, parked>>
    BY <1>9 DEF SyncReturns, Reply, Remove, workerVars, Doing
  <2>2. Blocked' = Blocked
    BY <2>1, NothingMoves
  <2>3. (Saved(u) \/ Saving(u)) /\ ~Answering'
    BY <1>7, <2>1
  <2> QED BY <2>1, <2>2, <2>3 DEF Saved, Saving, Answering
<1>10. CASE FlushEnd
  <2>1. Doing("drain") /\ agenda # <<>>
    BY <1>0, <1>10 DEF FlushEnd, AgendaOK, Doing
  <2>2. /\ ~Doing("final") /\ agenda' = Tail(agenda) /\ parked = <<>> /\ writing = {}
        /\ UNCHANGED <<stopping, online, fails, pos, db>>
    BY <1>10, <2>1 DEF FlushEnd, Doing
  <2>3. Saved(u) \/ Saving(u)
    BY <1>7, <2>1, <2>2
  <2>4. DOMAIN parked = {}
    BY <2>2
  <2>5. ~Saving(u)
    BY <2>2, <2>4 DEF Saving, Blocked
  <2> QED BY <2>2, <2>3, <2>5 DEF Saved
\* A new event saves, drains or leaves the agenda empty; who is offline stays so.
<1>11. ASSUME agenda = <<>>, UNCHANGED <<parked, writing, db, fails>>, ~Answering',
              online \subseteq online', u \notin online' => pos'[u] = pos[u],
              UNCHANGED actorVars => FALSE
       PROVE  Goal
  <2>1. u \notin online'
    BY <1>11, EventParted DEF Ended
  <2>2. Saved(u) \/ Saving(u)
    BY <1>1, <1>11, <2>1 DEF Ended
  <2>3. Blocked' = Blocked
    BY <1>11 DEF Blocked
  <2> QED BY <1>11, <2>1, <2>2, <2>3 DEF Saved, Saving, Answering
<1>12. ASSUME NEW v \in User, Register(v) \/ Move(v) PROVE Goal
  <2>1. agenda = <<>> /\ UNCHANGED <<agenda, parked, writing, db, fails>>
    BY <1>12 DEF Register, Move, Selecting, workerVars
  <2>2. online' = online \cup {v}
    BY <1>12 DEF Register, Move
  <2>3. \A w \in User \ {v} : pos'[w] = pos[w]
    <3>1. pos \in [User -> Nat]
      BY <1>0 DEF Typed
    <3>2. CASE Register(v)
      BY <3>1, <3>2 DEF Register
    <3>3. CASE Move(v)
      BY <3>1, <3>3 DEF Move
    <3> QED BY <1>12, <3>2, <3>3
  <2>4. ~Answering'
    BY <2>1 DEF Answering, Doing
  <2>5. v \in online' /\ ~(UNCHANGED actorVars)
    <3>1. walked \in [User -> Nat]
      BY <1>0 DEF Typed
    <3>2. CASE Register(v)
      BY <2>2, <3>2 DEF Register, actorVars
    <3>3. CASE Move(v)
      BY <2>2, <3>1, <3>3 DEF Move, actorVars
    <3> QED BY <1>12, <3>2, <3>3
  <2> QED BY <1>11, <2>1, <2>2, <2>3, <2>4, <2>5
<1>13. ASSUME \/ PersistTick \/ Stop \/ \E v \in User : Leave(v) \/ Logout(v)
       PROVE  Goal
  <2>1. agenda = <<>> /\ UNCHANGED <<parked, writing, db, fails, online, pos>>
    BY <1>13 DEF PersistTick, Stop, Leave, Logout, Selecting, workerVars
  <2>2. CASE PersistTick
    <3>1. agenda' = <<>>
      BY <2>1, <2>2 DEF PersistTick
    <3>2. ~Answering'
      BY <3>1 DEF Answering, Doing
    <3>3. dirty # {} /\ dirty' = {}
      BY <2>2 DEF PersistTick
    <3> QED BY <1>11, <2>1, <3>2, <3>3 DEF actorVars
  <2>3. CASE Stop \/ \E v \in User : Leave(v) \/ Logout(v)
    <3>1. Shape(agenda') /\ 1 \in DOMAIN agenda' /\ 2 \in DOMAIN agenda'
      <4>1. CASE Stop
        BY <1>0, <4>1, StopShape DEF Stop
      <4>2. ASSUME NEW v \in User, v \in online, Leave(v) \/ Logout(v)
            PROVE  Shape(agenda') /\ 1 \in DOMAIN agenda' /\ 2 \in DOMAIN agenda'
        BY <4>2, LeaveAgenda DEF Leave, Logout, Does
      <4>3. ASSUME NEW v \in User, v \notin online, Leave(v) \/ Logout(v)
            PROVE  Shape(agenda') /\ 1 \in DOMAIN agenda' /\ 2 \in DOMAIN agenda'
        BY <4>3, OfflineLogoutShape DEF Leave, Logout
      <4> QED BY <2>3, <4>1, <4>2, <4>3
    <3>2. agenda'[1].op \notin {"reply", "return"}
      BY <3>1 DEF Shape
    <3>3. ~Answering' /\ agenda' # agenda
      <4>1. agenda' # <<>> => agenda'[1] = Head(agenda')
        <5>1. agenda' \in Seq(Step)
          BY <1>0 DEF Base, Typed
        <5> QED BY <5>1
      <4>2. DOMAIN <<>> = {}
        OBVIOUS
      <4> QED BY <2>1, <3>1, <3>2, <4>1, <4>2 DEF Answering, Doing
    <3> QED BY <1>11, <2>1, <3>3 DEF actorVars
  <2> QED BY <1>13, <2>2, <2>3
<1>14. CASE FlushStart \/ WorkerStop \/ UNCHANGED vars
  BY <1>3, <1>14 DEF FlushStart, WorkerStop, vars, workerVars
<1> QED BY <1>4, <1>5, <1>6, <1>8, <1>9, <1>10, <1>12, <1>13, <1>14 DEF Next, ActorNext, WorkerNext

LEMMA FirstSessionStep == Base /\ FirstSession /\ [Next]_vars => FirstSession'
<1> SUFFICES ASSUME Base, FirstSession, [Next]_vars, NEW u \in User, sessions'[u] <= 1
             PROVE  /\ Ordered(u)'
                    /\ fails' = 0 /\ Ended(u)' => Saved(u)' \/ Saving(u)'
                    /\ fails' = 0 /\ (Doing("reply") \/ Doing("return"))' /\ Ended(u)' => Saved(u)'
  BY DEF FirstSession
<1> QED BY OrderedStep, SavedStep

---------------------------------------------------------------------------
(* No saved position goes back *)

\* A departure parts nobody else, and whom it parts stays parted while it is here.
LEMMA StaysParted ==
    ASSUME Typed, AgendaOK, agenda # <<>>, agenda' = Tail(agenda), stopping' = stopping,
           online' \subseteq online, NEW u \in online', Parted(u),
           Head(agenda).op \in {"final", "sync", "drain", "reply"} \/ Head(agenda).user # u
    PROVE  Parted(u)'
<1>1. /\ Head(agenda) = agenda[1] /\ 1 \in DOMAIN agenda
      /\ \A i \in DOMAIN agenda' : i \in Nat /\ i + 1 \in DOMAIN agenda /\ agenda'[i] = agenda[i + 1]
      /\ \A j \in DOMAIN agenda : j \in Nat /\ (j # 1 => j - 1 \in DOMAIN agenda' /\ agenda'[j - 1] = agenda[j])
  BY TailIs DEF Typed
<1>2. ~Pending(u)'
  <2> SUFFICES ASSUME NEW i \in DOMAIN agenda', Does(agenda', i, "final", u) PROVE FALSE
    BY DEF Pending
  <2>1. i + 1 \in DOMAIN agenda /\ Does(agenda, i + 1, "final", u)
    BY <1>1 DEF Does
  <2> QED BY <2>1 DEF Parted, Pending
<1>3. CASE stopping
  BY <1>2, <1>3 DEF Parted
<1>4. CASE ~stopping
  <2>1. PICK j \in DOMAIN agenda, name \in {"sync", "remove", "reply"} : Does(agenda, j, name, u)
    BY <1>4 DEF Parted, Named
  <2>2. CASE j # 1
    <3>1. j - 1 \in DOMAIN agenda' /\ Does(agenda', j - 1, name, u)
      BY <1>1, <2>1, <2>2 DEF Does
    <3> QED BY <1>2, <3>1 DEF Parted, Named
  <2>3. CASE j = 1
    <3>1. Head(agenda).op = name /\ Head(agenda).user = u
      BY <1>1, <2>1, <2>3 DEF Does
    <3>2. CASE name = "sync"
      <4>1. Does(agenda, 1 + 1, "remove", u)
        BY <1>1, <1>4, <3>1, <3>2 DEF AgendaOK
      <4>2. (1 + 1) - 1 \in DOMAIN agenda' /\ Does(agenda', (1 + 1) - 1, "remove", u)
        BY <1>1, <4>1 DEF Does
      <4> QED BY <1>2, <4>2 DEF Parted, Named
    <3>3. CASE name = "reply"
      <4>1. \E i \in DOMAIN agenda : i < 1 /\ Does(agenda, i, "remove", u)
        BY <1>1, <3>1, <3>3 DEF AgendaOK
      <4> QED BY <4>1 DEF Typed
    <3> QED BY <2>1, <3>1, <3>2, <3>3
  <2> QED BY <2>2, <2>3
<1> QED BY <1>3, <1>4

LEMMA ReachedDown ==
    ASSUME Typed, NEW u \in User, NEW n \in Nat, NEW m \in Nat, m <= n, Reached(u, n)
    PROVE  Reached(u, m)
<1>1. lastSeq[u] \in Nat /\ \A x \in writing : x.seq \in Nat
  BY UpdateIs DEF Typed
<1> QED BY <1>1 DEF Reached

\* Nothing that concerns u changed.
LEMMA FreshSame ==
    ASSUME NEW u \in User, Fresh(u),
           \A x \in Queued \cup Queued' : x.user = u => (x \in Queued' <=> x \in Queued),
           writing' = writing, lastSeq' = lastSeq, db' = db, seq'[u] = seq[u],
           walked'[u] = walked[u], pos'[u] = pos[u], sessions'[u] = sessions[u],
           u \in online' <=> u \in online, u \in dirty' => u \in dirty,
           u \in online => (Parted(u)' <=> Parted(u)),
           \A i \in DOMAIN parked : i \in DOMAIN parked' /\ parked'[i] = parked[i]
    PROVE  Fresh(u)'
<1>1. \A n : Reached(u, n)' <=> Reached(u, n)
  BY DEF Reached
<1>2. Accepted(u)'
  BY <1>1 DEF Fresh, Accepted
<1>3. Settled(u)'
  BY <1>1 DEF Fresh, Settled
<1> QED BY <1>2, <1>3 DEF Fresh

\* The next update of a session.
LEMMA AcceptedNew ==
    ASSUME Base, NEW u \in online, Fresh(u), ~Parted(u), NEW n \in Update,
           n.user = u, n.pos = pos[u], n.seq = seq[u] + 1,
           pos[u] = walked[u] \/ Reached(u, seq[u] + 1),
           \A x \in Queued' : x.user = u => x \in Queued \/ x = n,
           seq'[u] = seq[u] + 1, online' = online, UNCHANGED <<writing, lastSeq, db>>
    PROVE  Accepted(u)'
<1>0. /\ Typed /\ u \in User /\ Walked(u) /\ Accepted(u)
      /\ pos[u] \in Nat /\ walked[u] \in Nat /\ db[u] \in Nat /\ seq[u] \in Nat
      /\ \A x \in Queued \cup writing : x.user \in User /\ x.pos \in Nat /\ x.seq \in Nat
  BY UpdateIs DEF Base, Typed, Fresh
<1>1. \A k : Reached(u, k)' <=> Reached(u, k)
  BY DEF Reached
<1>2. ASSUME NEW x \in Queued', x.user = u, ~Reached(u, x.seq)
      PROVE  /\ x.seq <= seq[u] + 1 /\ x.pos >= db[u]
             /\ \A y \in writing : y.user = u => x.pos >= y.pos
             /\ \A y \in Queued' : y.user = u /\ x.seq <= y.seq => x.pos <= y.pos
  <2>1. CASE x = n
    <3>1. pos[u] = walked[u]
      BY <1>2, <2>1
    <3>2. ASSUME NEW y \in Queued', y.user = u, x.seq <= y.seq PROVE x.pos <= y.pos
      <4>1. CASE y \in Queued
        <5>1. ~Reached(u, y.seq)
          BY <1>0, <1>2, <2>1, <3>2, <4>1, ReachedDown
        <5>2. y.seq <= seq[u]
          BY <1>0, <3>2, <4>1, <5>1 DEF Accepted
        <5> QED BY <1>0, <2>1, <3>2, <4>1, <5>2
      <4> QED BY <1>0, <2>1, <3>2, <4>1
    <3> QED BY <1>0, <2>1, <3>1, <3>2 DEF Walked
  <2>2. CASE x \in Queued
    <3>1. /\ x.seq <= seq[u] /\ x.pos >= db[u]
          /\ \A y \in writing : y.user = u => x.pos >= y.pos
          /\ \A y \in Queued : y.user = u /\ x.seq <= y.seq => x.pos <= y.pos
      BY <1>0, <1>2, <2>2 DEF Accepted
    <3>2. x.pos <= n.pos
      <4>1. ~Reached(u, seq[u] + 1)
        BY <1>0, <1>2, <2>2, <3>1, ReachedDown
      <4> QED BY <1>0, <1>2, <2>2, <4>1 DEF Walked
    <3> QED BY <1>0, <1>2, <2>2, <3>1, <3>2
  <2> QED BY <1>2, <2>1, <2>2
<1> QED BY <1>0, <1>1, <1>2 DEF Accepted

LEMMA FreshRegister ==
    ASSUME Base, NEW u \in User, NEW v \in User, Fresh(u), Register(v)
    PROVE  Fresh(u)'
<1>0. /\ Typed /\ Walked(u) /\ Accepted(u) /\ Settled(u) /\ dirty \subseteq online
      /\ ~stopping /\ agenda = <<>> /\ DOMAIN agenda = {} /\ agenda' = agenda /\ stopping' = stopping
      /\ db[u] \in Nat /\ walked[u] \in Nat /\ sessions[u] \in Nat
  BY DEF Base, Typed, Fresh, Register, Selecting
<1>1. /\ UNCHANGED <<started, parked, writing, walked, db, seq, lastSeq, dirty>> /\ online' = online \cup {v}
      /\ sessions' = [sessions EXCEPT ![v] = @ + 1] /\ v \notin online
      /\ \/ pos' = [pos EXCEPT ![v] = db[v]]
         \/ pos' = [pos EXCEPT ![v] = 0]
  BY DEF Register, workerVars
<1>2. Queued' = Queued /\ \A n : Reached(u, n)' <=> Reached(u, n)
  BY <1>1, NothingMoves DEF Reached
<1>3. ~Parted(u) /\ ~Parted(u)'
  BY <1>0 DEF Parted, Named
<1>4. CASE v # u
  <2>1. pos'[u] = pos[u] /\ sessions'[u] = sessions[u] /\ (u \in online' <=> u \in online)
    BY <1>0, <1>1, <1>4 DEF Typed
  <2> QED BY <1>1, <1>2, <1>3, <2>1, FreshSame
<1>5. CASE v = u
  <2>1. \A x \in Queued : x.user = u => Reached(u, x.seq)
    BY <1>0, <1>1, <1>5 DEF Accepted
  <2>2. Accepted(u)'
    BY <1>0, <1>1, <1>2, <2>1 DEF Accepted
  <2>3. seq[u] = 0 /\ u \notin dirty /\ (sessions[u] = 0 \/ Reached(u, 1))
    BY <1>0, <1>1, <1>5 DEF Walked, Settled
  <2>4. sessions[u] = 0 => pos'[u] = walked'[u]
    <3>1. pos'[u] \in {db[u], 0}
      BY <1>0, <1>1, <1>5 DEF Typed
    <3> QED BY <1>0, <1>1, <3>1 DEF Walked
  <2>5. Settled(u)'
    <3>1. u \in online' /\ seq'[u] + 1 = 1 /\ u \notin dirty'
      BY <1>1, <1>5, <2>3
    <3>2. CASE sessions[u] = 0
      BY <1>3, <2>4, <3>1, <3>2 DEF Settled
    <3>3. CASE Reached(u, 1)
      <4>1. lastSeq'[u] >= seq'[u] + 1 \/ \E x \in writing' : x.user = u /\ x.seq >= seq'[u] + 1
        BY <1>1, <3>1, <3>3 DEF Reached
      <4>2. Reached(u, seq[u] + 1)'
        BY <4>1 DEF Reached
      <4> QED BY <1>3, <3>1, <4>2 DEF Settled
    <3> QED BY <2>3, <3>2, <3>3
  <2> QED BY <2>2, <2>5 DEF Fresh
<1> QED BY <1>4, <1>5

LEMMA FreshMove ==
    ASSUME Base, NEW u \in User, NEW v \in User, Fresh(u), Move(v)
    PROVE  Fresh(u)'
<1>0. /\ Typed /\ AgendaOK /\ Accepted(u) /\ Settled(u)
      /\ agenda = <<>> /\ DOMAIN agenda = {} /\ agenda' = agenda /\ stopping' = stopping
  BY DEF Base, Fresh, Move, Selecting
<1>1. /\ UNCHANGED <<started, parked, writing, db, seq, lastSeq, online, sessions>> /\ v \in online
      /\ walked' = [walked EXCEPT ![v] = @ + 1] /\ pos' = [pos EXCEPT ![v] = walked[v] + 1]
      /\ dirty' = dirty \cup {v}
  BY DEF Move, workerVars
<1>2. Queued' = Queued /\ \A n : Reached(u, n)' <=> Reached(u, n)
  BY <1>1, NothingMoves DEF Reached
<1>3. ~Parted(u) /\ ~Parted(u)'
  BY <1>0 DEF Parted, Named, AgendaOK
<1>4. CASE v # u
  <2>1. pos'[u] = pos[u] /\ walked'[u] = walked[u] /\ (u \in dirty' => u \in dirty)
    BY <1>0, <1>1, <1>4 DEF Typed
  <2> QED BY <1>1, <1>2, <1>3, <2>1, FreshSame
<1>5. CASE v = u
  <2>1. pos'[u] = walked'[u]
    BY <1>0, <1>1, <1>5 DEF Typed
  <2>2. Accepted(u)'
    BY <1>0, <1>1, <1>2 DEF Accepted
  <2>3. Settled(u)'
    BY <1>1, <1>3, <1>5, <2>1 DEF Settled
  <2> QED BY <2>2, <2>3 DEF Fresh
<1> QED BY <1>4, <1>5

LEMMA FreshTick ==
    ASSUME Base, NEW u \in User, Fresh(u), PersistTick
    PROVE  Fresh(u)'
<1>0. /\ Typed /\ AgendaOK /\ Accepted(u) /\ Settled(u) /\ dirty \subseteq online
      /\ agenda = <<>> /\ DOMAIN agenda = {} /\ agenda' = agenda /\ stopping' = stopping
  <2>1. agenda = <<>> /\ agenda' = agenda /\ stopping' = stopping
    BY DEF PersistTick, Selecting
  <2> QED BY <2>1 DEF Base, Fresh, Typed
<1> DEFINE new == {[user |-> v, pos |-> pos[v], seq |-> seq[v] + 1] : v \in dirty}
<1>1. /\ UNCHANGED <<pos, walked, db, online, sessions, lastSeq, parked>> /\ dirty' = {}
      /\ seq' = [v \in User |-> IF v \in dirty THEN seq[v] + 1 ELSE seq[v]]
  BY DEF PersistTick, workerVars
<1>2. writing' = writing /\ Queued' = Queued \cup new /\ new \in SUBSET Update
  BY <1>0, TickMoves, TickIs
<1>3. \A x \in new : x.user \in dirty /\ x = [user |-> x.user, pos |-> pos[x.user], seq |-> seq[x.user] + 1]
  OBVIOUS
<1>4. u \in dirty => [user |-> u, pos |-> pos[u], seq |-> seq[u] + 1] \in new
  OBVIOUS
<1> HIDE DEF new
<1>5. ~Parted(u) /\ ~Parted(u)'
  BY <1>0 DEF Parted, Named, AgendaOK
<1>6. CASE u \notin dirty
  <2>1. \A x \in Queued \cup Queued' : x.user = u => (x \in Queued' <=> x \in Queued)
    BY <1>2, <1>3, <1>6
  <2>2. seq'[u] = seq[u]
    BY <1>1, <1>6
  <2> QED BY <1>1, <1>2, <1>5, <1>6, <2>1, <2>2, FreshSame
<1>7. CASE u \in dirty
  <2> DEFINE n == [user |-> u, pos |-> pos[u], seq |-> seq[u] + 1]
  <2>1. n \in Update /\ n.user = u /\ n.pos = pos[u] /\ n.seq = seq[u] + 1
    BY <1>2, <1>4, <1>7
  <2>2. \A x \in Queued' : x.user = u => x \in Queued \/ x = n
    BY <1>2, <1>3
  <2>3. u \in online /\ seq'[u] = seq[u] + 1
    BY <1>0, <1>1, <1>7
  <2>4. pos[u] = walked[u]
    BY <1>0, <1>5, <1>7, <2>3 DEF Settled
  <2> HIDE DEF n
  <2>5. Accepted(u)'
    BY <1>1, <1>2, <1>5, <2>1, <2>2, <2>3, <2>4, AcceptedNew
  <2>6. Settled(u)'
    BY <1>1, <1>5, <2>3, <2>4 DEF Settled
  <2> QED BY <2>5, <2>6 DEF Fresh
<1> QED BY <1>6, <1>7

LEMMA FreshFinal ==
    ASSUME Base, NEW u \in User, Fresh(u), FinalSave
    PROVE  Fresh(u)'
<1> DEFINE v == Head(agenda).user  n == [user |-> v, pos |-> pos[v], seq |-> seq[v] + 1]
           p == [rows |-> {n}, sync |-> TRUE]
<1>0. /\ Typed /\ AgendaOK /\ Accepted(u) /\ Settled(u) /\ Doing("final") /\ v \in User
      /\ agenda # <<>> /\ agenda' = Tail(agenda) /\ Head(agenda).op = "final" /\ agenda[1] = Head(agenda)
      /\ 1 \in DOMAIN agenda
  BY FinalIs, HeadIs DEF Base, Fresh, FinalSave, Doing
<1>1. UNCHANGED <<pos, walked, db, online, sessions, lastSeq, dirty, writing, stopping, started>>
  BY DEF FinalSave, workerVars
<1>2. n \in Update /\ p \in Parcel /\ seq' = [seq EXCEPT ![v] = @ + 1] /\ parked' = Append(parked, p)
  BY <1>0, FinalIs
<1>3. Queued' = Queued \cup {n}
  BY <1>0, FinalMoves
<1>4. n.user = v /\ n.pos = pos[v] /\ n.seq = seq[v] + 1 /\ p.sync /\ p.rows = {n}
  OBVIOUS
<1>5. v \in online /\ Pending(v)
  <2>1. Does(agenda, 1, "final", v)
    BY <1>0 DEF Does
  <2> QED BY <1>0, <2>1 DEF AgendaOK, Pending
<1> HIDE DEF n, p
<1>6. /\ \A i \in DOMAIN parked : i \in DOMAIN parked' /\ parked'[i] = parked[i]
      /\ \E i \in DOMAIN parked' : parked'[i] = p
  BY <1>0, <1>2, ParcelAppended
<1>7. CASE v # u
  <2>1. \A x \in Queued \cup Queued' : x.user = u => (x \in Queued' <=> x \in Queued)
    BY <1>3, <1>4, <1>7
  <2>2. seq'[u] = seq[u]
    BY <1>0, <1>2, <1>7 DEF Typed
  <2>3. u \in online => (Parted(u)' <=> Parted(u))
    BY <1>0, <1>1, <1>7, PopParted, StaysParted
  <2> HIDE DEF v
  <2> QED BY <1>1, <1>6, <2>1, <2>2, <2>3, FreshSame
<1>8. CASE v = u
  <2>1. ~Parted(u) /\ u \in online
    BY <1>5, <1>8 DEF Parted
  <2>2. pos[u] = walked[u] \/ Reached(u, seq[u] + 1)
    BY <1>0, <2>1 DEF Settled
  <2>3. seq'[u] = seq[u] + 1 /\ seq[u] \in Nat
    BY <1>0, <1>2, <1>8 DEF Typed
  <2>4. Accepted(u)'
    BY <1>1, <1>2, <1>3, <1>4, <1>8, <2>1, <2>2, <2>3, AcceptedNew
  <2>5. Parted(u)'
    <3>1. /\ agenda' \in Seq(Step)
          /\ \A i \in DOMAIN agenda' : i \in Nat /\ i # 0 /\ i + 1 \in DOMAIN agenda /\ agenda'[i] = agenda[i + 1]
          /\ \A j \in DOMAIN agenda : j \in Nat /\ (j # 1 => j - 1 \in DOMAIN agenda' /\ agenda'[j - 1] = agenda[j])
      <4>1. agenda' \in Seq(Step)
        BY <1>0, TailIs DEF Typed
      <4>2. \A i \in DOMAIN agenda' : i # 0
        BY <4>1
      <4> QED BY <1>0, <4>1, <4>2, TailIs DEF Typed
    <3>2. Does(agenda, 1 + 1, "sync", u)
      BY <1>0, <1>8 DEF AgendaOK, Shape
    <3>3. 1 \in DOMAIN agenda' /\ Does(agenda', 1, "sync", u)
      <4>1. (1 + 1) - 1 \in DOMAIN agenda' /\ agenda'[(1 + 1) - 1] = agenda[1 + 1]
        BY <3>1, <3>2 DEF Does
      <4>2. (1 + 1) - 1 = 1
        OBVIOUS
      <4> QED BY <3>2, <4>1, <4>2 DEF Does
    <3>4. ASSUME NEW i \in DOMAIN agenda', Does(agenda', i, "final", u) PROVE FALSE
      <4>1. i + 1 \in DOMAIN agenda /\ Does(agenda, i + 1, "final", u) /\ i \in Nat /\ i # 0
        BY <3>1, <3>4 DEF Does
      <4>2. 1 = i + 1
        BY <1>0, <1>8, <4>1 DEF AgendaOK, Shape
      <4> QED BY <4>1, <4>2
    <3> QED BY <3>3, <3>4 DEF Parted, Named, Pending
  <2>6. Settled(u)'
    <3>1. \E i \in DOMAIN parked' : /\ parked'[i].sync
             /\ \E x \in parked'[i].rows : x.user = u /\ x.seq = seq'[u]
      BY <1>4, <1>6, <1>8, <2>3
    <3>2. seq'[u] >= 1 /\ u \in online'
      BY <1>1, <2>1, <2>3
    <3> QED BY <2>5, <3>1, <3>2 DEF Settled
  <2> QED BY <2>4, <2>6 DEF Fresh
<1> QED BY <1>7, <1>8

\* The player is forgotten only when the worker has its final update: all the
\* others of its session will be dropped.
LEMMA FreshRemove ==
    ASSUME Base, NEW u \in User, Fresh(u), Remove
    PROVE  Fresh(u)'
<1> DEFINE v == Head(agenda).user
<1>0. /\ Typed /\ AgendaOK /\ Accepted(u) /\ Settled(u) /\ Doing("remove") /\ v \in User
      /\ agenda # <<>> /\ agenda' = Tail(agenda) /\ Head(agenda).op = "remove" /\ agenda[1] = Head(agenda)
      /\ 1 \in DOMAIN agenda /\ seq[u] \in Nat
      /\ \A x \in Queued \cup writing : x.user \in User /\ x.pos \in Nat /\ x.seq \in Nat
  BY HeadIs, UpdateIs DEF Base, Fresh, Remove, Doing, Typed
<1>1. /\ UNCHANGED <<started, parked, writing, pos, walked, db, sessions, lastSeq, stopping>>
      /\ online' = online \ {v} /\ seq' = [seq EXCEPT ![v] = 0] /\ dirty' = dirty \ {v}
  BY DEF Remove, workerVars
<1>2. Queued' = Queued /\ (\A n : Reached(u, n)' <=> Reached(u, n))
  BY <1>1, NothingMoves DEF Reached
<1>3. CASE v # u
  <2>1. seq'[u] = seq[u] /\ (u \in online' <=> u \in online)
    BY <1>0, <1>1, <1>3 DEF Typed
  <2>2. u \in online => (Parted(u)' <=> Parted(u))
    BY <1>0, <1>1, <1>3, <2>1, PopParted, StaysParted
  <2> HIDE DEF v
  <2> QED BY <1>1, <1>2, <2>1, <2>2, FreshSame
<1>4. CASE v = u
  <2>1. Parted(u) /\ u \in online
    <3>1. Does(agenda, 1, "remove", u)
      BY <1>0, <1>4 DEF Does
    <3>2. u \in online
      BY <1>0, <1>4 DEF AgendaOK
    <3>3. ASSUME NEW i \in DOMAIN agenda, Does(agenda, i, "final", u) PROVE FALSE
      <4>1. i # 1 /\ agenda[i].op = "final" /\ 1 < i
        BY <1>0, <3>3 DEF Does, Typed
      <4> QED BY <1>0, <4>1 DEF AgendaOK, Shape
    <3> QED BY <1>0, <3>1, <3>2, <3>3 DEF Parted, Named, Pending
  <2>2. \A i \in DOMAIN parked : ~parked[i].sync
    BY <1>0 DEF AgendaOK, Doing
  <2>3. Reached(u, seq[u]) /\ seq[u] >= 1
    BY <1>0, <2>1, <2>2 DEF Settled
  <2>4. ASSUME NEW x \in Queued, x.user = u PROVE Reached(u, x.seq)
    <3>1. CASE x.seq <= seq[u]
      BY <1>0, <2>3, <2>4, <3>1, ReachedDown
    <3>2. CASE ~(x.seq <= seq[u])
      BY <1>0, <2>4, <3>2 DEF Accepted
    <3> QED BY <3>1, <3>2
  <2>5. Accepted(u)'
    BY <1>0, <1>1, <1>2, <2>4 DEF Accepted
  <2>6. Reached(u, 1)
    BY <1>0, <2>3, ReachedDown
  <2>7. u \notin online'
    BY <1>1, <1>4
  <2>8. Settled(u)'
    BY <1>2, <2>6, <2>7 DEF Settled
  <2> QED BY <2>5, <2>8 DEF Fresh
<1> QED BY <1>3, <1>4

LEMMA FreshReceive ==
    ASSUME Base, NEW u \in User, Fresh(u), Receive
    PROVE  Fresh(u)'
<1> DEFINE batch == Head(parked).rows
<1>0. /\ Typed /\ RowsOK /\ Accepted(u) /\ Settled(u) /\ lastSeq[u] \in Nat /\ seq[u] \in Nat
      /\ \A x \in Queued \cup writing : x.user \in User /\ x.pos \in Nat /\ x.seq \in Nat
  BY UpdateIs DEF Base, Typed, Fresh
<1>1. UNCHANGED <<pos, walked, db, seq, online, sessions, lastSeq, dirty, agenda, stopping>>
      /\ parked # <<>> /\ parked' = Tail(parked)
  BY DEF Receive, actorVars
<1>2. /\ Queued = Queued' \cup batch /\ writing = {} /\ writing' \subseteq batch
      /\ OneRowPerUser(writing')
      /\ \A x \in batch : x \in writing' <=> x.seq > lastSeq[x.user]
  BY <1>0, ReceiveMoves
<1>3. Head(parked) = parked[1] /\ \A j \in DOMAIN parked : j # 1 => j - 1 \in DOMAIN parked' /\ parked'[j - 1] = parked[j]
  BY <1>0, <1>1, TailIs DEF Typed
<1>4. ASSUME NEW x \in batch, x.user = u PROVE Reached(u, x.seq)'
  <2>1. x.seq \in Nat
    BY <1>0, <1>2
  <2>2. CASE x \in writing'
    BY <1>4, <2>1, <2>2 DEF Reached
  <2>3. CASE x \notin writing'
    <3>1. lastSeq[u] >= x.seq
      BY <1>0, <1>2, <1>4, <2>1, <2>3
    <3> QED BY <1>1, <3>1 DEF Reached
  <2> QED BY <2>2, <2>3
<1> HIDE DEF batch
<1>5. \A n : Reached(u, n) => Reached(u, n)'
  BY <1>1, <1>2 DEF Reached
<1>6. \A x \in writing' : x.user = u => x \in Queued /\ ~Reached(u, x.seq)
  <2> SUFFICES ASSUME NEW x \in writing', x.user = u PROVE x \in Queued /\ ~Reached(u, x.seq)
    OBVIOUS
  <2>1. x \in Queued /\ x.seq > lastSeq[u] /\ x.seq \in Nat
    BY <1>0, <1>2
  <2> QED BY <1>0, <1>2, <2>1 DEF Reached
<1>7. Accepted(u)'
  <2>1. \A x \in writing' : x.user = u => x.pos >= db[u]
    BY <1>0, <1>6 DEF Accepted
  <2>2. ASSUME NEW x \in Queued', x.user = u, ~Reached(u, x.seq)'
        PROVE  /\ u \in online /\ x.seq <= seq[u] /\ x.pos >= db[u]
               /\ \A y \in writing' : y.user = u => x.pos >= y.pos
               /\ \A y \in Queued' : y.user = u /\ x.seq <= y.seq => x.pos <= y.pos
    <3>1. x \in Queued /\ ~Reached(u, x.seq) /\ x.seq \in Nat /\ x.pos \in Nat
      BY <1>0, <1>2, <1>5, <2>2
    <3>2. ASSUME NEW y \in writing', y.user = u PROVE x.pos >= y.pos
      <4>1. y \in Queued /\ ~Reached(u, y.seq) /\ y.seq \in Nat /\ y.pos \in Nat
        BY <1>0, <1>6, <3>2
      <4>2. y.seq <= x.seq
        BY <2>2, <3>1, <3>2, <4>1 DEF Reached
      <4> QED BY <1>0, <2>2, <3>1, <3>2, <4>1, <4>2 DEF Accepted
    <3> QED BY <1>0, <1>2, <2>2, <3>1, <3>2 DEF Accepted
  <2> QED BY <1>1, <2>1, <2>2 DEF Accepted
<1>8. Parted(u)' <=> Parted(u)
  BY <1>1 DEF Parted, Named, Pending, Does
<1>9. ASSUME NEW i \in DOMAIN parked, parked[i].sync, NEW x \in parked[i].rows, x.user = u, x.seq = seq[u]
      PROVE  \/ Reached(u, seq[u])'
             \/ \E j \in DOMAIN parked' : /\ parked'[j].sync
                   /\ \E y \in parked'[j].rows : y.user = u /\ y.seq = seq[u]
  <2>1. CASE i = 1
    <3>1. x \in batch
      BY <1>3, <1>9, <2>1 DEF batch
    <3>2. Reached(u, x.seq)'
      BY <1>4, <1>9, <3>1
    <3> QED BY <1>1, <1>9, <3>2 DEF Reached
  <2>2. CASE i # 1
    BY <1>3, <1>9, <2>2
  <2> QED BY <2>1, <2>2
<1>10. Settled(u)'
  <2>1. u \notin online' => sessions'[u] = 0 \/ Reached(u, 1)'
    BY <1>0, <1>1, <1>5 DEF Settled
  <2>2. ASSUME u \in online', Parted(u)'
        PROVE  /\ seq'[u] >= 1
               /\ \/ Reached(u, seq[u])'
                  \/ \E i \in DOMAIN parked' : /\ parked'[i].sync
                        /\ \E x \in parked'[i].rows : x.user = u /\ x.seq = seq'[u]
    <3>1. seq[u] >= 1 /\ (\/ Reached(u, seq[u])
                          \/ \E i \in DOMAIN parked : /\ parked[i].sync
                                /\ \E x \in parked[i].rows : x.user = u /\ x.seq = seq[u])
      BY <1>0, <1>1, <1>8, <2>2 DEF Settled
    <3>2. Reached(u, seq[u]) => Reached(u, seq[u])'
      BY <1>1, <1>2 DEF Reached
    <3> QED BY <1>1, <1>9, <3>1, <3>2
  <2>3. u \in online' /\ ~Parted(u)' => pos'[u] = walked'[u] \/ (Reached(u, seq[u] + 1)' /\ u \notin dirty')
    <3>1. Reached(u, seq[u] + 1) => Reached(u, seq[u] + 1)'
      BY <1>1, <1>2 DEF Reached
    <3> QED BY <1>0, <1>1, <1>8, <3>1 DEF Settled
  <2> QED BY <2>1, <2>2, <2>3 DEF Settled
<1> QED BY <1>7, <1>10 DEF Fresh

LEMMA FreshWrite ==
    ASSUME Base, NEW u \in User, Fresh(u), NEW ok \in BOOLEAN, WriteChunk(ok), fails' = 0
    PROVE  Fresh(u)' /\ db'[u] >= db[u]
<1>0. /\ Typed /\ RowsOK /\ Accepted(u) /\ Settled(u) /\ lastSeq[u] \in Nat /\ seq[u] \in Nat
      /\ db[u] \in Nat /\ fails \in Nat
      /\ \A x \in Queued \cup writing : x.user \in User /\ x.pos \in Nat /\ x.seq \in Nat
  BY UpdateIs DEF Base, Typed, Fresh
<1>1. UNCHANGED <<pos, walked, seq, online, sessions, dirty, agenda, stopping, started, parked>>
  BY DEF WriteChunk, actorVars
<1>2. PICK chunk \in SUBSET writing :
         /\ writing' = writing \ chunk
         /\ ~ok => fails' = fails + 1
         /\ \/ db'[u] = db[u] /\ lastSeq'[u] = lastSeq[u] /\ (ok => \A x \in chunk : x.user # u)
            \/ \E x \in chunk : x.user = u /\ db'[u] = x.pos /\ lastSeq'[u] = x.seq
  BY <1>0, WriteIs
<1>3. ok
  BY <1>0, <1>2
<1>4. Queued' = Queued
  BY <1>1, NothingMoves
<1>5. /\ \A n : Reached(u, n)' => Reached(u, n)
      /\ \A n \in Nat : Reached(u, n) => Reached(u, n)'
      /\ db'[u] >= db[u] /\ Accepted(u)'
  <2>1. CASE db'[u] = db[u] /\ lastSeq'[u] = lastSeq[u] /\ (ok => \A x \in chunk : x.user # u)
    <3>1. \A x \in writing : x.user = u => x \in writing'
      BY <1>2, <1>3, <2>1
    <3>2. \A n : Reached(u, n)' <=> Reached(u, n)
      BY <1>2, <2>1, <3>1 DEF Reached
    <3>3. Accepted(u)'
      BY <1>0, <1>1, <1>2, <1>4, <2>1, <3>2 DEF Accepted
    <3> QED BY <1>0, <2>1, <3>2, <3>3
  <2>2. ASSUME NEW z \in chunk, z.user = u, db'[u] = z.pos, lastSeq'[u] = z.seq
        PROVE  /\ \A n : Reached(u, n)' => Reached(u, n)
               /\ \A n \in Nat : Reached(u, n) => Reached(u, n)'
               /\ db'[u] >= db[u] /\ Accepted(u)'
    <3>1. z \in writing /\ z.seq \in Nat /\ z.pos \in Nat /\ z.seq > lastSeq[u] /\ z.pos >= db[u]
      BY <1>0, <1>2, <2>2 DEF RowsOK, Accepted
    <3>2. \A x \in writing : x.user = u => x = z
      BY <1>0, <2>2, <3>1 DEF RowsOK, OneRowPerUser
    <3>3. \A n : Reached(u, n)' => Reached(u, n)
      BY <1>2, <2>2, <3>1 DEF Reached
    <3>4. \A n \in Nat : Reached(u, n) => Reached(u, n)'
      BY <1>0, <1>2, <2>2, <3>1, <3>2 DEF Reached
    <3>5. \A x \in writing' : x.user # u
      BY <1>2, <2>2, <3>2
    <3>6. ASSUME NEW x \in Queued, x.user = u, ~Reached(u, x.seq)'
          PROVE  /\ u \in online /\ x.seq <= seq[u] /\ x.pos >= z.pos
                 /\ \A y \in Queued : y.user = u /\ x.seq <= y.seq => x.pos <= y.pos
      BY <1>0, <2>2, <3>1, <3>4, <3>6 DEF Accepted
    <3>7. Accepted(u)'
      BY <1>1, <1>4, <2>2, <3>5, <3>6 DEF Accepted
    <3> QED BY <2>2, <3>1, <3>3, <3>4, <3>7
  <2> QED BY <1>2, <2>1, <2>2
<1>6. Parted(u)' <=> Parted(u)
  BY <1>1 DEF Parted, Named, Pending, Does
<1>7. Settled(u)'
  <2>1. Reached(u, 1) => Reached(u, 1)'
    BY <1>5
  <2>2. Reached(u, seq[u]) => Reached(u, seq[u])'
    BY <1>0, <1>1, <1>5
  <2>3. Reached(u, seq[u] + 1) => Reached(u, seq[u] + 1)'
    BY <1>0, <1>1, <1>5
  <2> QED BY <1>0, <1>1, <1>6, <2>1, <2>2, <2>3 DEF Settled
<1> QED BY <1>5, <1>7 DEF Fresh

LEMMA NeverBackStep ==
    ASSUME Base, NeverBack, [Next]_vars, fails' = 0, NEW u \in User
    PROVE  Fresh(u)' /\ db'[u] >= db[u]
<1>0. Typed /\ AgendaOK /\ db[u] \in Nat /\ fails \in Nat
  BY DEF Base, Typed
<1>1. fails = 0
  <2>1. ASSUME NEW ok \in BOOLEAN, WriteChunk(ok) PROVE fails' >= fails
    <3>1. (ok => fails' = fails) /\ (~ok => fails' = fails + 1)
      BY <1>0, <2>1, WriteIs
    <3> QED BY <1>0, <3>1
  <2>2. ASSUME NEW v \in User, Register(v) \/ Move(v) \/ Leave(v) \/ Logout(v) PROVE fails' = fails
    BY <2>2 DEF Register, Move, Leave, Logout, workerVars
  <2>3. CASE \/ PersistTick \/ Stop \/ FinalSave \/ SyncReturns \/ Remove \/ Reply \/ Receive
             \/ FlushStart \/ FlushEnd \/ WorkerStop \/ UNCHANGED vars
             \/ \E batch \in started : Park(batch)
    BY <2>3 DEF PersistTick, Stop, FinalSave, SyncReturns, Remove, Reply, Receive, FlushStart,
                FlushEnd, WorkerStop, Park, workerVars, vars
  <2>4. WriteChunk(TRUE) \/ WriteChunk(FALSE) => fails' >= fails
    BY <2>1
  <2>5. fails' >= fails
    <3>1. \/ fails' = fails
          \/ WriteChunk(TRUE) \/ WriteChunk(FALSE)
      BY <2>2, <2>3 DEF Next, ActorNext, WorkerNext
    <3>2. fails' = fails => fails' >= fails
      BY <1>0
    <3> QED BY <2>4, <3>1, <3>2, Zenon
  <2> QED BY <1>0, <2>5
<1>2. Fresh(u)
  BY <1>1 DEF NeverBack
<1>3. CASE /\ UNCHANGED <<started, parked, writing, lastSeq, db, seq, walked, pos, sessions, online, dirty>>
           /\ u \in online => (Parted(u)' <=> Parted(u))
  <2>1. Queued' = Queued
    BY <1>3, NothingMoves
  <2> QED BY <1>0, <1>2, <1>3, <2>1, FreshSame
<1>4. CASE agenda = <<>> /\ UNCHANGED <<started, parked, writing, lastSeq, db, seq, walked, pos, sessions,
                                        online, dirty>>
  <2>1. u \in online /\ Parted(u)' => Parted(u)
    BY <1>4, EventParted
  <2>2. ~stopping /\ DOMAIN agenda = {}
    BY <1>0, <1>4 DEF AgendaOK
  <2>3. ~Parted(u)
    BY <2>2 DEF Parted, Named
  <2> QED BY <1>3, <1>4, <2>1, <2>3
<1>5. CASE /\ agenda # <<>> /\ agenda' = Tail(agenda) /\ Head(agenda).op \in {"sync", "drain", "reply"}
           /\ UNCHANGED <<stopping, started, parked, writing, lastSeq, db, seq, walked, pos, sessions,
                          online, dirty>>
  <2>1. u \in online => (Parted(u)' <=> Parted(u))
    BY <1>0, <1>5, PopParted, StaysParted DEF Doing
  <2> QED BY <1>3, <1>5, <2>1
<1>6. CASE UNCHANGED actorVars /\ UNCHANGED <<started, parked, writing, lastSeq, db>>
  <2>1. UNCHANGED <<agenda, stopping, online, seq, walked, pos, sessions, dirty>>
    BY <1>6 DEF actorVars
  <2>2. Parted(u)' <=> Parted(u)
    BY <2>1 DEF Parted, Named, Pending, Does
  <2> QED BY <1>3, <1>6, <2>1, <2>2
<1>7. ASSUME NEW v \in User, Register(v) \/ Move(v) PROVE Fresh(u)' /\ db'[u] >= db[u]
  <2>1. db' = db
    BY <1>7 DEF Register, Move, workerVars
  <2> QED BY <1>0, <1>2, <1>7, <2>1, FreshRegister, FreshMove
<1>8. CASE PersistTick \/ FinalSave \/ Remove \/ Receive
  <2>1. db' = db
    BY <1>8 DEF PersistTick, FinalSave, Remove, Receive, workerVars
  <2> QED BY <1>0, <1>2, <1>8, <2>1, FreshTick, FreshFinal, FreshRemove, FreshReceive
<1>9. ASSUME NEW ok \in BOOLEAN, WriteChunk(ok) PROVE Fresh(u)' /\ db'[u] >= db[u]
  BY <1>2, <1>9, FreshWrite
<1>10. ASSUME NEW v \in User, Leave(v) \/ Logout(v) PROVE Fresh(u)' /\ db'[u] >= db[u]
  BY <1>0, <1>3, <1>4, <1>10 DEF Leave, Logout, Selecting, workerVars
<1>11. CASE Stop
  BY <1>0, <1>4, <1>11 DEF Stop, Selecting, workerVars
<1>12. CASE SyncReturns \/ Reply
  BY <1>0, <1>5, <1>12 DEF SyncReturns, Reply, Doing, workerVars
<1>13. CASE FlushEnd
  <2>1. agenda # <<>> /\ Head(agenda).op = "drain"
    BY <1>0, <1>13 DEF FlushEnd, AgendaOK, Doing
  <2> QED BY <1>0, <1>5, <1>13, <2>1 DEF FlushEnd
<1>14. CASE FlushStart \/ WorkerStop \/ UNCHANGED vars
  BY <1>0, <1>6, <1>14 DEF FlushStart, WorkerStop, vars, workerVars
<1>15. ASSUME NEW batch \in started, Park(batch) PROVE Fresh(u)' /\ db'[u] >= db[u]
  <2> DEFINE p == [rows |-> batch, sync |-> FALSE]
  <2>1. p \in Parcel /\ parked' = Append(parked, p)
    BY <1>0, <1>15, ParkIs
  <2> HIDE DEF p
  <2>2. \A i \in DOMAIN parked : i \in DOMAIN parked' /\ parked'[i] = parked[i]
    BY <1>0, <2>1, ParcelAppended
  <2>3. Queued' = Queued
    BY <1>0, <1>15, ParkMoves
  <2>4. UNCHANGED <<agenda, stopping, writing, lastSeq, db, seq, walked, pos, sessions, online, dirty>>
    BY <1>15 DEF Park, actorVars, workerVars
  <2>5. Parted(u)' <=> Parted(u)
    BY <2>4 DEF Parted, Named, Pending, Does
  <2> QED BY <1>0, <1>2, <2>2, <2>3, <2>4, <2>5, FreshSame
<1> QED BY <1>7, <1>8, <1>9, <1>10, <1>11, <1>12, <1>13, <1>14, <1>15 DEF Next, ActorNext, WorkerNext

---------------------------------------------------------------------------
(* The theorems *)

Inv == Base /\ FirstSession /\ NeverBack

LEMMA Invariant == Spec => []Inv
<1>1. Init => Inv
  BY InitBase DEF Inv
<1>2. Inv /\ [Next]_vars => Inv'
  <2> SUFFICES ASSUME Inv, [Next]_vars PROVE Inv'
    OBVIOUS
  <2>1. NeverBack'
    BY NeverBackStep DEF Inv, NeverBack
  <2> QED BY <2>1, BaseStep, FirstSessionStep DEF Inv
<1> QED BY <1>1, <1>2, PTL DEF Spec

\* Every reachable state is well-typed: in particular only players in the world are
\* dirty, and what is on its way to the worker are updates.
THEOREM TypeCorrect == Spec => []TypeOK
<1>1. Inv => TypeOK
  <2> SUFFICES ASSUME Inv PROVE TypeOK
    OBVIOUS
  <2>1. Typed
    BY DEF Inv, Base
  <2>2. \A i \in DOMAIN agenda : agenda[i] \in Step
    BY <2>1 DEF Typed
  <2>3. \A i \in DOMAIN agenda : agenda[i].op \in {"final", "sync", "remove", "drain", "reply", "return"}
    BY <2>2, StepIs
  <2>4. \A i \in DOMAIN parked : parked[i] \in [rows : SUBSET Update, sync : BOOLEAN]
    <3>1. parked \in Seq(Parcel)
      BY <2>1 DEF Typed
    <3>2. \A i \in DOMAIN parked : parked[i] \in Parcel
      BY <3>1
    <3> QED BY <3>2 DEF Parcel
  <2> QED BY <2>1, <2>3, <2>4 DEF TypeOK, Typed
<1> QED BY <1>1, Invariant, PTL

\* Whoever logs out of its first session is saved where it left when the logout is
\* answered, whether the logout or an earlier disconnect ended it, and whoever is in its first session at shutdown is saved where it stood,
\* with any number of users and batches, in whatever order those arrive.
THEOREM FirstSessionSafe == Spec => []FirstSessionSaved
<1>1. Inv => FirstSessionSaved
  <2> SUFFICES ASSUME Inv PROVE FirstSessionSaved
    OBVIOUS
  <2>0. Typed /\ AgendaOK /\ FirstSession
    BY DEF Inv, Base
  <2>1. ASSUME Doing("reply") \/ Doing("return"), NEW u \in User PROVE ~Pending(u)
    <3> SUFFICES ASSUME NEW i \in DOMAIN agenda, Does(agenda, i, "final", u) PROVE FALSE
      BY DEF Pending
    <3>1. 1 \in DOMAIN agenda /\ agenda[1].op \in {"reply", "return"}
      BY <2>0, <2>1, HeadIs
    <3>2. i # 1 /\ 1 < i
      BY <2>0, <3>1 DEF Does, Typed
    <3> QED BY <2>0, <3>1, <3>2 DEF AgendaOK, Shape
  <2>2. ASSUME Doing("reply"), sessions[Head(agenda).user] = 1, fails = 0
        PROVE  db[Head(agenda).user] = pos[Head(agenda).user]
    <3> DEFINE u == Head(agenda).user
    <3>1. u \in User /\ Does(agenda, 1, "reply", u) /\ 1 \in DOMAIN agenda
      BY <2>0, <2>2, HeadIs DEF Does
    <3> HIDE DEF u
    <3>2. Ended(u)
      BY <2>1, <2>2, <3>1 DEF Ended, Parted, Named
    <3>3. sessions[u] <= 1
      BY <2>2 DEF u
    <3>4. Saved(u)
      BY <2>0, <2>2, <3>1, <3>2, <3>3 DEF FirstSession
    <3> QED BY <3>4 DEF Saved, u
  <2>3. ASSUME mode = "done", fails = 0, NEW u \in online, sessions[u] = 1
        PROVE  db[u] = pos[u]
    <3>1. Doing("return") /\ u \in User
      BY <2>0, <2>3 DEF AgendaOK, Typed
    <3>2. stopping
      <4>1. 1 \in DOMAIN agenda /\ agenda[1].op = "return"
        BY <2>0, <3>1, HeadIs
      <4> QED BY <2>0, <4>1 DEF AgendaOK
    <3>3. Ended(u)
      BY <2>1, <2>3, <3>1, <3>2 DEF Ended, Parted
    <3> QED BY <2>0, <2>3, <3>1, <3>3 DEF FirstSession, Saved
  <2> QED BY <2>2, <2>3 DEF FirstSessionSaved, LogoutCommitted
<1> QED BY <1>1, Invariant, PTL

\* What the worker drops in a first session is never newer than what is saved, with
\* any number of failed writes.
THEOREM StaleDropped == Spec => DropsOnlyStale
<1> DEFINE A == \A i \in DOMAIN parked : i = 1 /\ parked' = Tail(parked) =>
                   \A x \in parked[1].rows :
                      \/ x \in writing'
                      \/ x.pos <= db[x.user]
                      \/ sessions[x.user] > 1
<1>1. Inv /\ [Next]_vars => [A]_vars
  <2> SUFFICES ASSUME Inv, [Next]_vars, 1 \in DOMAIN parked, parked' = Tail(parked),
                      NEW x \in parked[1].rows, x \notin writing', ~(sessions[x.user] > 1)
               PROVE  x.pos <= db[x.user]
    OBVIOUS
  <2>0. Typed /\ RowsOK /\ FirstSession /\ parked \in Seq(Parcel) /\ Len(parked) \in Nat
    BY DEF Inv, Base, Typed
  <2>1. parked # <<>> /\ Len(parked') = Len(parked) - 1 /\ Head(parked) = parked[1]
    BY <2>0
  <2>2. ASSUME parked' = parked PROVE FALSE
    <3>1. Len(parked) = Len(parked) - 1
      BY <2>1, <2>2
    <3> QED BY <2>0, <3>1
  <2>3. ASSUME NEW p \in Parcel, parked' = Append(parked, p) PROVE FALSE
    <3>1. Len(parked') = Len(parked) + 1
      BY <2>0, <2>3, AppendProperties
    <3> QED BY <2>0, <2>1, <3>1
  <2>4. CASE FinalSave
    BY <2>0, <2>3, <2>4, FinalIs
  <2>5. ASSUME NEW batch \in started, Park(batch) PROVE FALSE
    BY <2>0, <2>3, <2>5, ParkIs
  <2>6. CASE Receive
    <3>1. x \in Queued /\ x.user \in User /\ x.seq \in Nat /\ (x \in writing' <=> x.seq > lastSeq[x.user])
      BY <2>0, <2>1, <2>6, ReceiveMoves, UpdateIs
    <3>2. sessions[x.user] \in Nat /\ lastSeq[x.user] \in Nat
      BY <2>0, <3>1 DEF Typed
    <3>3. sessions[x.user] <= 1 /\ x.seq <= lastSeq[x.user]
      BY <3>1, <3>2
    <3>4. Ordered(x.user)
      BY <2>0, <3>1, <3>3 DEF FirstSession
    <3> QED BY <3>1, <3>3, <3>4 DEF Ordered
  <2>7. ASSUME NEW v \in User, Register(v) \/ Move(v) \/ Leave(v) \/ Logout(v) PROVE FALSE
    BY <2>2, <2>7 DEF Register, Move, Leave, Logout
  <2>8. CASE \/ PersistTick \/ Stop \/ SyncReturns \/ Remove \/ Reply \/ WriteChunk(TRUE) \/ WriteChunk(FALSE)
             \/ FlushStart \/ FlushEnd \/ WorkerStop \/ UNCHANGED vars
    BY <2>2, <2>8 DEF PersistTick, Stop, SyncReturns, Remove, Reply, WriteChunk, FlushStart, FlushEnd,
                      WorkerStop, vars
  <2> QED BY <2>4, <2>5, <2>6, <2>7, <2>8 DEF Next, ActorNext, WorkerNext
<1> QED BY <1>1, Invariant, PTL DEF Spec, DropsOnlyStale

\* While no write fails, the saved position of a player never goes back, whatever
\* the order in which updates of this and of earlier sessions arrive, and whether
\* or not its load succeeded.
THEOREM MonotoneSaves == Spec => NoStaleOverwrite
<1>1. Inv /\ Inv' /\ [Next]_vars => [fails = 0 => \A u \in User : db'[u] >= db[u]]_vars
  <2> SUFFICES ASSUME Inv, Inv', [Next]_vars, fails = 0, NEW u \in User PROVE db'[u] >= db[u]
    OBVIOUS
  <2>0. Base /\ NeverBack /\ Typed /\ db[u] \in Nat
    BY DEF Inv, Base, Typed
  <2>1. CASE fails' = 0
    BY <2>0, <2>1, NeverBackStep
  <2>2. CASE fails' # 0
    <3>1. WriteChunk(FALSE)
      <4>1. ASSUME NEW v \in User, Register(v) \/ Move(v) \/ Leave(v) \/ Logout(v) PROVE FALSE
        BY <2>2, <4>1 DEF Register, Move, Leave, Logout, workerVars
      <4>2. CASE \/ PersistTick \/ Stop \/ FinalSave \/ SyncReturns \/ Remove \/ Reply \/ Receive
                 \/ FlushStart \/ FlushEnd \/ WorkerStop \/ UNCHANGED vars \/ WriteChunk(TRUE)
                 \/ \E batch \in started : Park(batch)
        BY <2>2, <4>2 DEF PersistTick, Stop, FinalSave, SyncReturns, Remove, Reply, Receive, FlushStart,
                          FlushEnd, WorkerStop, WriteChunk, Park, workerVars, vars
      <4> QED BY <4>1, <4>2 DEF Next, ActorNext, WorkerNext
    <3>2. db'[u] = db[u]
      BY <2>0, <3>1, WriteIs
    <3> QED BY <2>0, <3>2
  <2> QED BY <2>1, <2>2
<1> QED BY <1>1, Invariant, PTL DEF Spec, NoStaleOverwrite
==============================================================================
