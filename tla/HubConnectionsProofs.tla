----------------------- MODULE HubConnectionsProofs -----------------------
(* Proofs about HubConnections for every number of users, connections,       *)
(* workers, queue and buffer sizes.                                          *)
EXTENDS HubConnections, FiniteSetTheorems, SequenceTheorems, NaturalsInduction,
        TLAPS

\* Nothing need be known of the dispatcher's jobs: whichever connection a
\* handler names, removeClient does nothing unless it is current.  These are the
\* types of the state that the invariant needs.
Online ==
    /\ clients \in [User -> Conn \cup {None}]
    /\ accepted \in [User -> Nat] /\ sent \in [Conn -> Nat]
    /\ DOMAIN pc = Conn

\* The inductive invariant.
IInv == Online /\ OneCurrentConnection /\ InputFromCurrent

\* removeClient of any connection keeps the invariant.
LEMMA RemovePreserves ==
    ASSUME ConnectionAssumption, IInv, NEW c, RemoveClient(c), sent' = sent,
           DOMAIN pc' = Conn,
           \A d \in Conn : pc'[d] \in {"reading", "input"}
                               => pc[d] \in {"reading", "input"}
    PROVE  IInv'
<1>1. CASE clients[Owner[c]] # c
  BY <1>1 DEF RemoveClient, IInv, Online, OneCurrentConnection, InputFromCurrent
<1>2. CASE clients[Owner[c]] = c /\ Owner[c] \in User
  <2> DEFINE u == Owner[c]
  <2>1. /\ clients' = [clients EXCEPT ![u] = None] /\ world' = world \ {u}
        /\ accepted' = [accepted EXCEPT ![u] = 0] /\ closed' = closed \cup {c}
    BY <1>2 DEF RemoveClient
  <2>2. Online'
    BY <2>1 DEF IInv, Online
  <2>3. OneCurrentConnection'
    BY <1>2, <2>1, ConnectionAssumption DEF IInv, Online, OneCurrentConnection, ConnectionAssumption
  <2>4. InputFromCurrent'
    BY <2>1 DEF IInv, Online, InputFromCurrent
  <2> QED BY <2>2, <2>3, <2>4 DEF IInv
<1>3. CASE clients[Owner[c]] = c /\ Owner[c] \notin User
  <2>1. clients' = clients /\ world' = world /\ accepted' = accepted /\ closed \subseteq closed'
    <3> DEFINE u == Owner[c]
    <3>1. /\ clients' = [clients EXCEPT ![u] = None] /\ world' = world \ {u}
          /\ accepted' = [accepted EXCEPT ![u] = 0] /\ closed' = closed \cup {c}
          /\ u \notin User
      BY <1>3 DEF RemoveClient
    <3>2. clients \in [User -> Conn \cup {None}] /\ accepted \in [User -> Nat]
          /\ world \subseteq User
      BY DEF IInv, Online, OneCurrentConnection
    <3> HIDE DEF u
    <3>3. clients' = clients  BY ONLY <3>1, <3>2
    <3>4. accepted' = accepted  BY ONLY <3>1, <3>2
    <3>5. world' = world  BY ONLY <3>1, <3>2
    <3> QED BY <3>1, <3>3, <3>4, <3>5
  <2> QED BY <2>1 DEF IInv, Online, OneCurrentConnection, InputFromCurrent
<1> QED BY <1>1, <1>2, <1>3

\* So does every other step: it only closes connections or stops goroutines.
LEMMA QuietPreserves ==
    ASSUME IInv, UNCHANGED <<clients, world, accepted>>, closed \subseteq closed',
           sent' \in [Conn -> Nat], \A c \in Conn : sent[c] <= sent'[c],
           DOMAIN pc' = Conn,
           \A c \in Conn : pc'[c] \in {"reading", "input"}
                               => pc[c] \in {"reading", "input"} \/ c \in closed'
    PROVE  IInv'
<1>1. Online' /\ OneCurrentConnection'
  BY DEF IInv, Online, OneCurrentConnection
<1>2. InputFromCurrent'
  BY DEF IInv, Online, InputFromCurrent
<1> QED BY <1>1, <1>2 DEF IInv

\* A registration, which replaces the connection the user has, keeps it.
LEMMA RegisterPreserves ==
    ASSUME ConnectionAssumption, IInv, NEW c \in Conn, ReceiveRegister(c)
    PROVE  IInv'
<1> DEFINE u == Owner[c]
<1>1. u \in User /\ None \notin Conn  BY DEF ConnectionAssumption
<1>2. /\ closed' = closed \cup ({clients[u]} \ {None})
      /\ clients' = [clients EXCEPT ![u] = c] /\ world' = world \cup {u}
      /\ accepted' = [accepted EXCEPT ![u] = 0]
      /\ pc' = [pc EXCEPT ![c] = "reading"] /\ sent' = sent
  BY DEF ReceiveRegister, Obsolete, FreshInput
<1>3. Online' /\ InputFromCurrent'
  BY <1>1, <1>2 DEF IInv, Online, InputFromCurrent
<1>4. OneCurrentConnection'
  BY <1>1, <1>2, ConnectionAssumption
     DEF IInv, Online, OneCurrentConnection, ConnectionAssumption
<1> QED BY <1>3, <1>4 DEF IInv

\* So does an input, of a current connection or of a replaced one.
LEMMA InputPreserves ==
    ASSUME ConnectionAssumption, IInv, NEW c \in Conn, ReceiveInput(c)
    PROVE  IInv'
<1> DEFINE u == Owner[c]
<1>1. u \in User  BY DEF ConnectionAssumption
<1>2. CASE AcceptsInput(c)
  <2>1. accepted' = [accepted EXCEPT ![u] = sent[c]] /\ clients[u] = c
    BY <1>2 DEF ReceiveInput, AcceptsInput
  <2>2. /\ pc' = [pc EXCEPT ![c] = "reading"] /\ pc[c] = "input"
        /\ UNCHANGED <<clients, world, closed, sent>>
    BY DEF ReceiveInput
  <2>3. Online' /\ OneCurrentConnection'
    BY <1>1, <2>1, <2>2 DEF IInv, Online, OneCurrentConnection
  <2>4. InputFromCurrent'
    BY <1>1, <2>1, <2>2 DEF IInv, Online, InputFromCurrent
  <2> QED BY <2>3, <2>4 DEF IInv
<1>3. CASE ~AcceptsInput(c)
  BY <1>3, QuietPreserves DEF ReceiveInput, IInv, Online
<1> QED BY <1>2, <1>3

\* Whatever connections open, break, are replaced, time out or are logged out,
\* in any number, the invariant holds.
THEOREM Invariance == Spec => []IInv
<1>1. Init => IInv
  BY ConnectionAssumption
     DEF Init, IInv, Online, OneCurrentConnection, InputFromCurrent, ConnectionAssumption
<1>2. ASSUME IInv, [Next]_vars PROVE IInv'
  <2> USE ConnectionAssumption
  <2> USE DEF actorVars, connVars, dispVars
  <2>0. ASSUME NEW u, DisconnectCurrent(u), UNCHANGED <<pc, sent>> PROVE IInv'
    <3>1. CASE clients[u] # None
      BY <1>2, <2>0, <3>1, RemovePreserves DEF DisconnectCurrent, IInv, Online
    <3>2. CASE clients[u] = None
      BY <1>2, <2>0, <3>2, QuietPreserves DEF DisconnectCurrent, IInv, Online
    <3> QED BY <3>1, <3>2
  <2>1. CASE FinishRegister
    <3>1. CASE serving \in closed
      BY <1>2, <2>1, <3>1, RemovePreserves DEF FinishRegister, IInv, Online
    <3>2. CASE serving \notin closed
      BY <1>2, <2>1, <3>2, QuietPreserves DEF FinishRegister, IInv, Online
    <3> QED BY <3>1, <3>2
  <2>2. CASE Broadcast
    BY <1>2, <2>2, QuietPreserves DEF Broadcast, IInv, Online
  <2>3. CASE ReceiveStop \/ FinishStop
    BY <1>2, <2>3, QuietPreserves DEF ReceiveStop, FinishStop, IInv, Online
  <2>4. ASSUME NEW c \in Conn, ReceiveRegister(c) PROVE IInv'
    BY <1>2, <2>4, RegisterPreserves
  <2>5. ASSUME NEW c \in Conn, ReceiveUnregister(c) PROVE IInv'
    <3>1. RemoveClient(c) /\ sent' = sent /\ pc' = [pc EXCEPT ![c] = "gone"]
      BY <2>5 DEF ReceiveUnregister
    <3>2. DOMAIN pc' = Conn /\ \A d \in Conn : pc'[d] \in {"reading", "input"}
                                                => pc[d] \in {"reading", "input"}
      BY <1>2, <3>1 DEF IInv, Online
    <3> QED BY <1>2, <3>1, <3>2, RemovePreserves
  <2>6. ASSUME NEW c \in Conn, ReceiveInput(c) PROVE IInv'
    BY <1>2, <2>6, InputPreserves
  <2>7. ASSUME NEW u \in User, ReceiveLogout(u) PROVE IInv'
    BY <2>0, <2>7 DEF ReceiveLogout
  <2>8. ASSUME NEW w \in Worker, ReceiveSendFailure(w) PROVE IInv'
    BY <2>0, <2>8 DEF ReceiveSendFailure
  <2>9. ASSUME NEW w \in Worker, WorkerNext(w) PROVE IInv'
    BY <1>2, <2>9, QuietPreserves
       DEF WorkerNext, TakeJob, SendJob, SkipEmptyJob, WorkerExit, IInv, Online
  <2>10. ASSUME NEW c \in Conn, ConnNext(c) PROVE IInv'
    <3>1. CASE Accept(c) \/ EndRead(c)
      BY <1>2, <3>1, QuietPreserves DEF Accept, EndRead, IInv, Online
    <3>2. CASE Break(c) \/ Write(c)
      BY <1>2, <3>2, QuietPreserves DEF Break, Write, IInv, Online
    <3>3. CASE ReadInput(c)
      <4>1. sent' \in [Conn -> Nat] /\ \A d \in Conn : sent[d] <= sent'[d]
        BY <1>2, <3>3 DEF ReadInput, IInv, Online
      <4> QED BY <1>2, <3>3, <4>1, QuietPreserves DEF ReadInput, IInv, Online
    <3>4. CASE Released(c)
      BY <1>2, <3>4, QuietPreserves DEF Released, Waiters, IInv, Online
    <3> QED BY <2>10, <3>1, <3>2, <3>3, <3>4 DEF ConnNext
  <2>11. CASE CallStop \/ \E u \in User : CallLogout(u) \/ LogoutReleased(u)
    BY <1>2, <2>11, QuietPreserves DEF CallStop, CallLogout, LogoutReleased, IInv, Online
  <2>12. CASE UNCHANGED vars
    BY <1>2, <2>12, QuietPreserves DEF vars, IInv, Online
  <2> QED BY <1>2, <2>1, <2>2, <2>3, <2>4, <2>5, <2>6, <2>7, <2>8, <2>9, <2>10, <2>11, <2>12
          DEF Next, ActorNext
<1> QED BY <1>1, <1>2, PTL DEF Spec

\* The player is in the world exactly while its user has a current connection,
\* and a connection that runs and is open is its owner's current one: however
\* many connections of however many users register, end, are logged out or
\* fail, and in whatever order the actor sees it.
THEOREM OneCurrent == Spec => []OneCurrentConnection
<1>1. IInv => OneCurrentConnection  BY DEF IInv
<1> QED BY <1>1, Invariance, PTL

\* The last accepted input of an online player was sent by its current
\* connection: a late event of a replaced connection neither moves the player
\* nor makes it deaf to the new connection's first inputs.
THEOREM CurrentInput == Spec => []InputFromCurrent
<1>1. IInv => InputFromCurrent  BY DEF IInv
<1> QED BY <1>1, Invariance, PTL

---------------------------------------------------------------------------
(* The fold over a broadcast's jobs *)

\* A non-empty set of naturals has a least element.
LEMMA LeastNatural ==
    ASSUME NEW T, T \subseteq Nat, T # {}
    PROVE  \E m \in T : \A n \in T : m <= n
<1>1. PICK m \in T : \A n \in T : <<n, m>> \notin OpToRel(<, Nat)
    BY NatLessThanWellFounded, WFMin
<1>2. \A n \in T : <<n, m>> \notin {pair \in Nat \X Nat : pair[1] < pair[2]}
    BY <1>1, Zenon DEF OpToRel
<1>3. ASSUME NEW n \in T
      PROVE  m <= n
    <2>1. <<n, m>> \in Nat \X Nat /\ ~(n < m)
        BY <1>2
    <2> QED  BY <2>1
<1> QED  BY <1>3

\* The recursion behind FoldLeft, on the sets of indices up to k.
Unfolds(f, k, q, jobs) ==
    f = [s \in SUBSET (1..k) |-> IF s = {} THEN q
                                 ELSE Submit(f[s \ {Max(s)}], jobs[Max(s)])]

\* The greatest of a set that holds the end of its interval.
LEMMA MaxIs ==
    ASSUME NEW k \in Nat, NEW s \in SUBSET (1..k), k \in s
    PROVE  Max(s) = k
<1>1. \A x \in s : (\A y \in s : x >= y) => x = k
  OBVIOUS
<1>2. \A y \in s : k >= y
  OBVIOUS
<1> QED BY <1>1, <1>2 DEF Max

\* The recursion has a solution on longer sequences if it has one on shorter ones,
LEMMA UnfoldStep ==
    ASSUME NEW q, NEW jobs, NEW k \in Nat, NEW f, Unfolds(f, k, q, jobs)
    PROVE  \E g : Unfolds(g, k + 1, q, jobs)
<1> DEFINE Body(g, s) == IF s = {} THEN q ELSE Submit(g[s \ {Max(s)}], jobs[Max(s)])
           g == [s \in SUBSET (1..(k + 1)) |->
                  IF k + 1 \in s THEN Submit(f[s \ {k + 1}], jobs[k + 1]) ELSE f[s]]
<1>0. \A s \in SUBSET (1..k) : f[s] = Body(f, s)
  <2> HIDE DEF Body
  <2>1. f = [s \in SUBSET (1..k) |-> Body(f, s)]
    BY DEF Unfolds, Body
  <2> QED BY <2>1
<1>1. \A s \in SUBSET (1..(k + 1)) : k + 1 \notin s => s \in SUBSET (1..k)
  OBVIOUS
<1>2. \A s \in SUBSET (1..(k + 1)) : k + 1 \notin s => g[s] = f[s]
  OBVIOUS
<1>3. ASSUME NEW s \in SUBSET (1..(k + 1)) PROVE g[s] = Body(g, s)
  <2>1. CASE k + 1 \in s
    <3>1. Max(s) = k + 1 /\ s # {}
      BY MaxIs, <2>1
    <3>2. s \ {k + 1} \in SUBSET (1..(k + 1)) /\ k + 1 \notin s \ {k + 1}
      OBVIOUS
    <3>3. g[s \ {k + 1}] = f[s \ {k + 1}]
      BY <1>2, <3>2
    <3>4. g[s] = Submit(f[s \ {k + 1}], jobs[k + 1])
      BY <2>1
    <3> HIDE DEF g
    <3> QED BY <3>1, <3>3, <3>4
  <2>2. CASE k + 1 \notin s
    <3>1. s \in SUBSET (1..k) /\ g[s] = f[s] /\ f[s] = Body(f, s)
      BY <1>0, <1>1, <1>2, <2>2
    <3>2. s \ {Max(s)} \in SUBSET (1..(k + 1)) /\ k + 1 \notin s \ {Max(s)}
      BY <2>2
    <3>3. g[s \ {Max(s)}] = f[s \ {Max(s)}]
      BY <1>2, <3>2
    <3> HIDE DEF g
    <3> QED BY <3>1, <3>3
  <2> QED BY <2>1, <2>2
<1>4. g = [s \in SUBSET (1..(k + 1)) |-> g[s]]
  OBVIOUS
<1> HIDE DEF g
<1>5. g = [s \in SUBSET (1..(k + 1)) |-> Body(g, s)]
  <2> HIDE DEF Body
  <2> QED BY <1>3, <1>4
<1>6. Unfolds(g, k + 1, q, jobs)
  BY <1>5 DEF Unfolds
<1> QED BY <1>6

\* and so on all of them: what CHOOSE takes for FoldLeft does satisfy it.
LEMMA UnfoldExists ==
    ASSUME NEW q, NEW jobs, NEW n \in Nat
    PROVE  \E f : Unfolds(f, n, q, jobs)
<1> DEFINE Bad == {k \in Nat : ~\E f : Unfolds(f, k, q, jobs)}
<1>1. \E f : Unfolds(f, 0, q, jobs)
  <2> DEFINE f == [s \in SUBSET (1..0) |-> q]
  <2>1. \A s \in SUBSET (1..0) : s = {}
    OBVIOUS
  <2>2. Unfolds(f, 0, q, jobs)
    BY <2>1 DEF Unfolds
  <2> QED BY <2>2
<1>2. CASE Bad = {}
  BY <1>2
<1>3. CASE Bad # {}
  <2>0. Bad \subseteq Nat
    OBVIOUS
  <2>1. PICK m \in Bad : \A k \in Bad : m <= k
    <3> HIDE DEF Bad
    <3> QED BY <1>3, <2>0, LeastNatural
  <2>2. m \in Nat /\ m # 0 /\ m - 1 \in Nat /\ m - 1 \notin Bad /\ (m - 1) + 1 = m
    BY <1>1, <2>1
  <2>3. PICK f : Unfolds(f, m - 1, q, jobs)
    BY <2>2
  <2>4. \E g : Unfolds(g, (m - 1) + 1, q, jobs)
    BY <2>2, <2>3, UnfoldStep
  <2>5. \E g : Unfolds(g, m, q, jobs)
    BY <2>2, <2>4
  <2> QED BY <2>1, <2>5
<1> QED BY <1>2, <1>3

SubmitAll(q, jobs) == FoldLeft(Submit, q, jobs)

\* FoldLeft submits the jobs one after the other: h[k] are the queues after k.
Submitted(h, q, jobs, n) ==
    /\ SubmitAll(q, jobs) = h[n] /\ h[0] = q
    /\ \A k \in 1..n : h[k] = Submit(h[k - 1], jobs[k])

LEMMA FoldIs ==
    ASSUME NEW q, NEW jobs, NEW n \in Nat, DOMAIN jobs = 1..n
    PROVE  \E h : Submitted(h, q, jobs, n)
<1>1. PICK g : Unfolds(g, n, q, jobs)
  BY UnfoldExists
<1>2. \E f : Unfolds(f, n, q, jobs) /\ SubmitAll(q, jobs) = f[1..n]
  BY <1>1 DEF SubmitAll, FoldLeft, MapThenFoldSet, Unfolds
<1>3. PICK f : Unfolds(f, n, q, jobs) /\ SubmitAll(q, jobs) = f[1..n]
  BY <1>2
<1> DEFINE Body(s) == IF s = {} THEN q ELSE Submit(f[s \ {Max(s)}], jobs[Max(s)])
           h == [k \in 0..n |-> f[1..k]]
<1>4. \A s \in SUBSET (1..n) : f[s] = Body(s)
  <2> HIDE DEF Body
  <2>1. f = [s \in SUBSET (1..n) |-> Body(s)]
    BY <1>3 DEF Unfolds, Body
  <2> QED BY <2>1
<1>5. h[n] = f[1..n]
  OBVIOUS
<1>6. h[0] = q
  <2>1. 1..0 = {} /\ {} \in SUBSET (1..n)
    OBVIOUS
  <2>2. f[{}] = q
    BY <1>4, <2>1
  <2> QED BY <2>1, <2>2
<1>7. ASSUME NEW k \in 1..n PROVE h[k] = Submit(h[k - 1], jobs[k])
  <2>1. Max(1..k) = k
    BY MaxIs
  <2>2. (1..k) \ {k} = 1..(k - 1) /\ 1..k \in SUBSET (1..n) /\ 1..k # {}
    OBVIOUS
  <2>3. f[1..k] = Submit(f[1..(k - 1)], jobs[k])
    <3>1. f[1..k] = Submit(f[(1..k) \ {Max(1..k)}], jobs[Max(1..k)])
      BY <1>4, <2>2
    <3> HIDE DEF h
    <3> QED BY <2>1, <2>2, <3>1
  <2>4. h[k] = f[1..k] /\ h[k - 1] = f[1..(k - 1)]
    OBVIOUS
  <2> HIDE DEF h
  <2> QED BY <2>3, <2>4
<1> HIDE DEF h
<1>8. Submitted(h, q, jobs, n)
  BY <1>3, <1>5, <1>6, <1>7 DEF Submitted
<1> QED BY <1>8

---------------------------------------------------------------------------
(* The stream of a connection *)

\* A worker has the job in its queue or is about to send it.
Underway(w, j) ==
    \/ worker[w].step = "sending" /\ worker[w].job = j
    \/ \E i \in DOMAIN queue[w] : queue[w][i] = j

\* Nothing has been written to the connection's channel.
Unserved(c) == pc[c] \in {"new", "registering"} \/ serving = c

\* What a worker may hold.
Held == {Idle, Exited} \cup {Sending(j) : j \in Job} \cup {Failing(j) : j \in Job}

\* The types of the state, with the domains TypeOK leaves out; finitely many
\* users are online, so a broadcast can put them in an order.
DispatchTyped ==
    /\ queue \in [Worker -> Seq(Job)]
    /\ \A w \in Worker : Len(queue[w]) <= QueueSize
    /\ worker \in [Worker -> Held]

ConnTyped ==
    /\ sent \in [Conn -> 0..MaxInput] /\ got \in [Conn -> 0..MaxRound]
    /\ pc \in [Conn -> {"new", "registering", "reading", "input",
                        "unregistering", "gone"}]
    /\ buf \in [Conn -> Seq(0..MaxRound)]
    /\ \A c \in Conn : Len(buf[c]) <= SendBuffer

HubTyped ==
    /\ hub \in {"select", "init", "stopping", "done"}
    /\ serving \in Conn \cup {None} /\ (serving # None <=> hub = "init")
    /\ stop \in BOOLEAN /\ logouts \subseteq User /\ round \in 0..MaxRound

PlayersTyped ==
    /\ clients \in [User -> Conn \cup {None}] /\ accepted \in [User -> 0..MaxInput]
    /\ world \subseteq User /\ IsFiniteSet(world) /\ closed \subseteq Conn

Typed == DispatchTyped /\ ConnTyped /\ HubTyped /\ PlayersTyped

\* Every job for a connection goes through the same worker and comes after
\* all that has been written to the connection.
Routed ==
    \A w \in Worker, j \in Job : Underway(w, j) =>
        /\ WorkerOf[j.user] = w /\ Owner[j.conn] = j.user /\ ~Unserved(j.conn)
        /\ j.round <= round /\ got[j.conn] <= j.round
        /\ \A i \in DOMAIN buf[j.conn] : buf[j.conn][i] <= j.round

QueuesInOrder ==
    \A w \in Worker :
        /\ \A i, k \in DOMAIN queue[w] : i < k => queue[w][i].round <= queue[w][k].round
        /\ worker[w].step = "sending" =>
              \A i \in DOMAIN queue[w] : worker[w].job.round <= queue[w][i].round

BuffersInOrder ==
    \A c \in Conn :
        /\ got[c] <= round
        /\ \A i \in DOMAIN buf[c] : got[c] <= buf[c][i] /\ buf[c][i] <= round
        /\ \A i, k \in DOMAIN buf[c] : i < k => buf[c][i] <= buf[c][k]
        /\ Unserved(c) => buf[c] = <<>> /\ got[c] = 0

\* A current connection has been registered; one that unregisters is closed.
Registered ==
    /\ serving # None => pc[serving] \notin {"new", "registering"}
    /\ \A u \in User : clients[u] # None => pc[clients[u]] \notin {"new", "registering"}
    /\ \A c \in Conn : pc[c] = "unregistering" => c \in closed

Stream == Typed /\ Routed /\ QueuesInOrder /\ BuffersInOrder /\ Registered

---------------------------------------------------------------------------
(* Broadcast *)

\* Where the queues stand after some of the jobs: what was queued stays in
\* front, and what is new are jobs of the worker, within the queue's room.
Queued(q, h, jobs, n) ==
    /\ h \in [Worker -> Seq(Job)]
    /\ \A w \in Worker :
        /\ Len(h[w]) <= QueueSize /\ Len(q[w]) <= Len(h[w])
        /\ \A i \in 1..Len(h[w]) :
              IF i <= Len(q[w]) THEN h[w][i] = q[w][i]
              ELSE \E m \in 1..n : h[w][i] = jobs[m] /\ WorkerOf[jobs[m].user] = w

\* One more job keeps it so,
LEMMA SubmitIs ==
    ASSUME ConnectionAssumption, NEW q \in [Worker -> Seq(Job)], NEW h, NEW jobs,
           NEW n \in Nat, NEW k \in 1..n, jobs[k] \in Job, Queued(q, h, jobs, n)
    PROVE  Queued(q, Submit(h, jobs[k]), jobs, n)
<1> DEFINE v == WorkerOf[jobs[k].user]
<1>1. v \in Worker
  BY DEF ConnectionAssumption, Job
<1>2. CASE Len(h[v]) >= QueueSize
  <2>1. Submit(h, jobs[k]) = h
    <3>1. h[v] \in Seq(Job) /\ QueueSize \in Nat
      BY <1>1 DEF Queued, ConnectionAssumption
    <3>2. ~(Len(h[v]) < QueueSize)
      BY <3>1, <1>2
    <3> QED BY <3>2 DEF Submit
  <2> QED BY <2>1
<1>3. CASE Len(h[v]) < QueueSize
  <2> DEFINE g == [h EXCEPT ![v] = Append(@, jobs[k])]
  <2>1. Submit(h, jobs[k]) = g
    BY <1>3 DEF Submit
  <2>2. h \in [Worker -> Seq(Job)] /\ g \in [Worker -> Seq(Job)]
    BY <1>1 DEF Queued
  <2>3. g[v] = Append(h[v], jobs[k]) /\ \A w \in Worker : w # v => g[w] = h[w]
    BY <1>1, <2>2
  <2> HIDE DEF g
  <2>4. ASSUME NEW w \in Worker
        PROVE  /\ Len(g[w]) <= QueueSize /\ Len(q[w]) <= Len(g[w])
               /\ \A i \in 1..Len(g[w]) :
                    IF i <= Len(q[w]) THEN g[w][i] = q[w][i]
                    ELSE \E m \in 1..n : g[w][i] = jobs[m] /\ WorkerOf[jobs[m].user] = w
    <3>1. CASE w # v
      BY <2>3, <3>1 DEF Queued
    <3>2. CASE w = v
      <4>0. h[w] \in Seq(Job) /\ g[w] = Append(h[w], jobs[k])
        BY <2>2, <2>3, <3>2
      <4>1. /\ h[w] \in Seq(Job) /\ Len(g[w]) = Len(h[w]) + 1
            /\ g[w][Len(h[w]) + 1] = jobs[k] /\ \A i \in 1..Len(h[w]) : g[w][i] = h[w][i]
        BY <4>0, AppendProperties
      <4>2. Len(h[w]) < QueueSize /\ QueueSize \in Nat /\ Len(h[w]) \in Nat
        BY <1>3, <3>2, <4>1 DEF ConnectionAssumption
      <4>3. Len(q[w]) <= Len(h[w])
        BY DEF Queued
      <4>6. Len(q[w]) \in Nat
        OBVIOUS
      <4>4. Len(g[w]) <= QueueSize /\ Len(q[w]) <= Len(g[w])
        <5>1. Len(g[w]) <= QueueSize  BY <4>1, <4>2
        <5>2. Len(q[w]) <= Len(g[w])  BY <4>1, <4>2, <4>3, <4>6
        <5> QED BY <5>1, <5>2
      <4>5. ASSUME NEW i \in 1..Len(g[w])
            PROVE  IF i <= Len(q[w]) THEN g[w][i] = q[w][i]
                   ELSE \E m \in 1..n : g[w][i] = jobs[m] /\ WorkerOf[jobs[m].user] = w
        <5>1. CASE i = Len(h[w]) + 1
          <6>1. g[w][i] = jobs[k]
            BY <4>1, <5>1
          <6>2. WorkerOf[jobs[k].user] = w
            BY <3>2
          <6>3. ~(i <= Len(q[w]))
            BY <4>2, <4>3, <5>1
          <6> QED BY <6>1, <6>2, <6>3
        <5>2. CASE i \in 1..Len(h[w])
          <6>1. g[w][i] = h[w][i]
            BY <4>1, <5>2
          <6>2. IF i <= Len(q[w]) THEN h[w][i] = q[w][i]
                ELSE \E m \in 1..n : h[w][i] = jobs[m] /\ WorkerOf[jobs[m].user] = w
            BY <5>2 DEF Queued
          <6> QED BY <6>1, <6>2
        <5> QED BY <4>1, <4>2, <5>1, <5>2
      <4> QED BY <4>4, <4>5
    <3> QED BY <3>1, <3>2
  <2> QED BY <2>1, <2>2, <2>4 DEF Queued
<1>4. Len(h[v]) \in Nat /\ QueueSize \in Nat
  BY <1>1 DEF Queued, ConnectionAssumption
<1> QED BY <1>2, <1>3, <1>4

\* and so do all.
LEMMA SubmitAllIs ==
    ASSUME ConnectionAssumption, NEW q \in [Worker -> Seq(Job)],
           \A w \in Worker : Len(q[w]) <= QueueSize,
           NEW jobs, NEW n \in Nat, DOMAIN jobs = 1..n, \A k \in 1..n : jobs[k] \in Job
    PROVE  Queued(q, SubmitAll(q, jobs), jobs, n)
<1>0. PICK h : Submitted(h, q, jobs, n)
  BY FoldIs
<1>1. /\ SubmitAll(q, jobs) = h[n] /\ h[0] = q
      /\ \A k \in 1..n : h[k] = Submit(h[k - 1], jobs[k])
  BY <1>0 DEF Submitted
<1> DEFINE Bad == {k \in 0..n : ~Queued(q, h[k], jobs, n)}
<1>2. Queued(q, h[0], jobs, n)
  <2>1. \A w \in Worker : Len(q[w]) \in Nat
    OBVIOUS
  <2> QED BY <1>1, <2>1 DEF Queued
<1>3. ASSUME Bad # {} PROVE FALSE
  <2>1. PICK m \in Bad : \A k \in Bad : m <= k
    <3>1. Bad \subseteq Nat
      OBVIOUS
    <3> HIDE DEF Bad
    <3> QED BY <1>3, <3>1, LeastNatural
  <2>2. m \in 1..n /\ m - 1 \in 0..n /\ m - 1 \notin Bad
    BY <1>2, <2>1
  <2>3. Queued(q, h[m - 1], jobs, n)
    BY <2>2
  <2>4. Queued(q, Submit(h[m - 1], jobs[m]), jobs, n)
    BY <2>2, <2>3, SubmitIs
  <2> QED BY <1>1, <2>1, <2>2, <2>4
<1>4. Queued(q, h[n], jobs, n)
  <2>1. n \in 0..n /\ n \notin Bad
    BY <1>3
  <2> QED BY <2>1
<1> QED BY <1>1, <1>4

\* A broadcast appends jobs of its own round, each for a current connection and
\* in the queue of its user's worker.
LEMMA BroadcastIs ==
    ASSUME ConnectionAssumption, IInv, Typed, Broadcast
    PROVE  /\ queue' \in [Worker -> Seq(Job)]
           /\ \A w \in Worker :
                /\ Len(queue'[w]) <= QueueSize /\ Len(queue[w]) <= Len(queue'[w])
                /\ \A i \in 1..Len(queue'[w]) :
                      IF i <= Len(queue[w]) THEN queue'[w][i] = queue[w][i]
                      ELSE LET j == queue'[w][i]
                           IN  /\ j \in Job /\ j.round = round + 1 /\ WorkerOf[j.user] = w
                               /\ clients[j.user] = j.conn
<1>1. PICK R \in SUBSET {u \in User : clients[u] # None} :
        \E order \in SetToSeqs(R) :
            queue' = FoldLeft(Submit, queue,
                        [i \in DOMAIN order |->
                            [user |-> order[i], conn |-> clients[order[i]],
                             round |-> round + 1]])
  BY DEF Broadcast
<1>2. PICK order \in SetToSeqs(R) :
            queue' = FoldLeft(Submit, queue,
                        [i \in DOMAIN order |->
                            [user |-> order[i], conn |-> clients[order[i]],
                             round |-> round + 1]])
  BY <1>1
<1> DEFINE jobs == [i \in DOMAIN order |-> [user |-> order[i], conn |-> clients[order[i]],
                                            round |-> round + 1]]
           n == Cardinality(R)
<1>3. IsFiniteSet(R) /\ n \in Nat
  <2>1. R \subseteq world /\ IsFiniteSet(world)
    BY DEF Typed, DispatchTyped, ConnTyped, HubTyped, PlayersTyped, IInv, OneCurrentConnection
  <2> QED BY <2>1, FS_Subset, FS_CardinalityType
<1>4. order \in [1..n -> R]
  BY <1>2 DEF SetToSeqs
<1>5. DOMAIN jobs = 1..n
  BY <1>4
<1>6. ASSUME NEW k \in 1..n
      PROVE  /\ jobs[k] \in Job /\ jobs[k].round = round + 1
             /\ clients[jobs[k].user] = jobs[k].conn
  <2>1. order[k] \in User /\ clients[order[k]] # None /\ clients[order[k]] \in Conn
    BY <1>1, <1>4 DEF IInv, Online
  <2>2. round + 1 \in 1..MaxRound
    BY DEF Typed, DispatchTyped, ConnTyped, HubTyped, PlayersTyped, Broadcast, ConnectionAssumption
  <2>3. jobs[k] = [user |-> order[k], conn |-> clients[order[k]], round |-> round + 1]
    BY <1>4
  <2> HIDE DEF jobs
  <2> QED BY <2>1, <2>2, <2>3 DEF Job
<1> HIDE DEF n
<1>7. queue \in [Worker -> Seq(Job)] /\ \A w \in Worker : Len(queue[w]) <= QueueSize
  BY DEF Typed, DispatchTyped, ConnTyped, HubTyped, PlayersTyped
<1>8. queue' = SubmitAll(queue, jobs)
  BY <1>2 DEF SubmitAll
<1> HIDE DEF jobs
<1>9. Queued(queue, queue', jobs, n)
  BY <1>3, <1>5, <1>6, <1>7, <1>8, SubmitAllIs
<1>10. ASSUME NEW w \in Worker, NEW i \in 1..Len(queue'[w]), ~(i <= Len(queue[w]))
       PROVE  LET j == queue'[w][i]
              IN  /\ j \in Job /\ j.round = round + 1 /\ WorkerOf[j.user] = w
                  /\ clients[j.user] = j.conn
  <2>1. PICK m \in 1..n : queue'[w][i] = jobs[m] /\ WorkerOf[jobs[m].user] = w
    BY <1>9, <1>10 DEF Queued
  <2> QED BY <2>1, <1>6
<1> QED BY <1>9, <1>10 DEF Queued

---------------------------------------------------------------------------
(* Types *)

\* removeClient keeps the types,
LEMMA RemoveTyped ==
    ASSUME ConnectionAssumption, Typed, NEW c \in Conn, RemoveClient(c)
    PROVE  /\ clients' \in [User -> Conn \cup {None}] /\ accepted' \in [User -> 0..MaxInput]
           /\ world' \subseteq User /\ IsFiniteSet(world') /\ closed' \subseteq Conn
<1>1. Owner[c] \in User /\ MaxInput \in Nat
  BY DEF ConnectionAssumption
<1>2. IsFiniteSet(world \ {Owner[c]})
  <2>1. IsFiniteSet(world) /\ world \ {Owner[c]} \subseteq world
    BY DEF Typed, DispatchTyped, ConnTyped, HubTyped, PlayersTyped
  <2> QED BY <2>1, FS_Subset
<1>3. /\ clients \in [User -> Conn \cup {None}] /\ accepted \in [User -> 0..MaxInput]
      /\ world \subseteq User /\ IsFiniteSet(world) /\ closed \subseteq Conn
  BY DEF Typed, DispatchTyped, ConnTyped, HubTyped, PlayersTyped
<1>4. CASE clients[Owner[c]] = c
  <2>1. /\ clients' = [clients EXCEPT ![Owner[c]] = None]
        /\ world' = world \ {Owner[c]}
        /\ accepted' = [accepted EXCEPT ![Owner[c]] = 0]
        /\ closed' = closed \cup {c}
    BY <1>4 DEF RemoveClient
  <2> QED BY <1>1, <1>2, <1>3, <2>1
<1>5. CASE clients[Owner[c]] # c
  BY <1>3, <1>5 DEF RemoveClient
<1> QED BY <1>4, <1>5

\* and so does disconnectUser.
LEMMA DisconnectTyped ==
    ASSUME ConnectionAssumption, Typed, NEW u \in User, DisconnectCurrent(u)
    PROVE  /\ clients' \in [User -> Conn \cup {None}] /\ accepted' \in [User -> 0..MaxInput]
           /\ world' \subseteq User /\ IsFiniteSet(world') /\ closed' \subseteq Conn
<1>1. CASE clients[u] # None
  <2>1. clients[u] \in Conn
    BY <1>1 DEF Typed, DispatchTyped, ConnTyped, HubTyped, PlayersTyped
  <2> QED BY <1>1, <2>1, RemoveTyped DEF DisconnectCurrent
<1>2. CASE clients[u] = None
  BY <1>2 DEF DisconnectCurrent, Typed, DispatchTyped, ConnTyped, HubTyped, PlayersTyped
<1> QED BY <1>1, <1>2

\* What a worker holds.
LEMMA WorkerIs ==
    ASSUME Typed, NEW w \in Worker
    PROVE  \/ worker[w] = Idle \/ worker[w] = Exited
           \/ \E j \in Job : worker[w] = Sending(j)
           \/ \E j \in Job : worker[w] = Failing(j)
  BY DEF Typed, DispatchTyped, ConnTyped, HubTyped, PlayersTyped, Held

\* The job of a worker that is sending or failing.
LEMMA HeldJob ==
    ASSUME Typed, NEW w \in Worker, worker[w].step \in {"sending", "failing"}
    PROVE  /\ worker[w].job \in Job
           /\ worker[w].step = "sending" => worker[w] = Sending(worker[w].job)
           /\ worker[w].step = "failing" => worker[w] = Failing(worker[w].job)
<1>1. Idle.step = "idle" /\ Exited.step = "exited"
  BY DEF Idle, Exited
<1>2. \A j : Sending(j).step = "sending" /\ Sending(j).job = j
             /\ Failing(j).step = "failing" /\ Failing(j).job = j
  BY DEF Sending, Failing
<1> QED BY <1>1, <1>2, WorkerIs

\* What the proofs use implies what the run checks.
LEMMA TypedTypeOK == Typed => TypeOK
<1>1. ASSUME Typed
      PROVE  \A w \in Worker :
          \/ worker[w] \in {Idle, Exited}
          \/ \E j \in Job : worker[w] \in {Sending(j), Failing(j)}
  BY <1>1, WorkerIs
<1> QED BY <1>1 DEF TypeOK, Typed, DispatchTyped, ConnTyped, HubTyped, PlayersTyped

\* The types hold at the start
LEMMA InitTyped == Init => Typed
<1> SUFFICES ASSUME Init PROVE Typed
  OBVIOUS
<1> USE ConnectionAssumption DEF ConnectionAssumption, Init
<1>1. DispatchTyped  BY DEF DispatchTyped, Held
<1>2. ConnTyped  BY DEF ConnTyped
<1>3. HubTyped
  <2>1. round \in 0..MaxRound /\ logouts \subseteq User
    OBVIOUS
  <2>3. stop \in BOOLEAN
    BY Zenon
  <2>2. hub = "select" /\ serving = None
    OBVIOUS
  <2> QED BY <2>1, <2>2, <2>3 DEF HubTyped
<1>4. PlayersTyped  BY FS_EmptySet DEF PlayersTyped
<1> QED BY <1>1, <1>2, <1>3, <1>4 DEF Typed

\* and after every step; the initialization fits into the channel because nothing
\* has been written to it.
LEMMA TypedStep ==
    ASSUME IInv, Typed, BuffersInOrder, [Next]_vars
    PROVE  Typed'
<1> USE ConnectionAssumption
<1> USE DEF actorVars, connVars, dispVars
<1>0. DispatchTyped /\ ConnTyped /\ HubTyped /\ PlayersTyped
  BY DEF Typed
<1>1. ASSUME UNCHANGED dispVars PROVE DispatchTyped'
  BY <1>0, <1>1 DEF DispatchTyped
<1>2. ASSUME UNCHANGED <<pc, buf, got, sent>> PROVE ConnTyped'
  BY <1>0, <1>2 DEF ConnTyped
<1>3. ASSUME UNCHANGED <<clients, world, accepted>>, closed' \subseteq Conn PROVE PlayersTyped'
  BY <1>0, <1>3 DEF PlayersTyped
<1>4. ASSUME UNCHANGED <<hub, serving, stop, logouts, round>> PROVE HubTyped'
  BY <1>0, <1>4 DEF HubTyped
<1>5. ASSUME UNCHANGED <<buf, got, sent>>, NEW c \in Conn,
             NEW p \in {"new", "registering", "reading", "input", "unregistering", "gone"},
             pc' = [pc EXCEPT ![c] = p]
      PROVE  ConnTyped'
  BY <1>0, <1>5 DEF ConnTyped
<1>6. ASSUME NEW c \in Conn, RemoveClient(c) PROVE PlayersTyped'
  BY <1>6, RemoveTyped DEF PlayersTyped
<1>7. ASSUME NEW u \in User, DisconnectCurrent(u) PROVE PlayersTyped'
  BY <1>7, DisconnectTyped DEF PlayersTyped
<1>8. closed \subseteq Conn /\ hub \in {"select", "init", "stopping", "done"}
  BY <1>0 DEF PlayersTyped, HubTyped
<1>9. ASSUME NEW w \in Worker, NEW h \in Held, worker' = [worker EXCEPT ![w] = h], queue' = queue
      PROVE  DispatchTyped'
  BY <1>0, <1>9 DEF DispatchTyped
<1>10. CASE FinishRegister
  <2>1. DispatchTyped'  BY <1>1, <1>10 DEF FinishRegister
  <2>2. HubTyped'  BY <1>0, <1>10 DEF FinishRegister, HubTyped, ConnectionAssumption
  <2>3. serving \in Conn
    BY <1>0, <1>10 DEF FinishRegister, HubTyped
  <2>4. CASE serving \in closed
    <3>1. PlayersTyped'  BY <1>6, <1>10, <2>3, <2>4 DEF FinishRegister
    <3>2. ConnTyped'  BY <1>2, <1>10, <2>4 DEF FinishRegister
    <3> QED BY <2>1, <2>2, <3>1, <3>2 DEF Typed
  <2>5. CASE serving \notin closed
    <3>1. PlayersTyped'  BY <1>3, <1>8, <1>10, <2>5 DEF FinishRegister
    <3>2. ConnTyped'
      <4> DEFINE init == [i \in 1..InitMessages |-> round]
      <4>1. /\ buf' = [buf EXCEPT ![serving] = @ \o init]
            /\ UNCHANGED <<pc, got, sent>>
        BY <1>10, <2>5 DEF FinishRegister
      <4>2. buf[serving] = <<>>
        BY <2>3 DEF BuffersInOrder, Unserved
      <4>3. init \in Seq(0..MaxRound) /\ Len(init) = InitMessages
        BY <1>0 DEF HubTyped, ConnectionAssumption
      <4> HIDE DEF init
      <4>4. buf[serving] \o init \in Seq(0..MaxRound) /\ Len(buf[serving] \o init) <= SendBuffer
        BY <4>2, <4>3 DEF ConnectionAssumption
      <4> QED BY <1>0, <2>3, <4>1, <4>4 DEF ConnTyped
    <3> QED BY <2>1, <2>2, <3>1, <3>2 DEF Typed
  <2> QED BY <2>4, <2>5
<1>11. CASE Broadcast
  <2>1. DispatchTyped'
    BY <1>0, <1>11, BroadcastIs DEF DispatchTyped, Broadcast
  <2>2. HubTyped'  BY <1>0, <1>11 DEF Broadcast, HubTyped, ConnectionAssumption
  <2>3. PlayersTyped' /\ ConnTyped'  BY <1>2, <1>3, <1>8, <1>11 DEF Broadcast
  <2> QED BY <2>1, <2>2, <2>3 DEF Typed
<1>12. CASE ReceiveStop
  <2>1. DispatchTyped' /\ ConnTyped' /\ PlayersTyped'
    BY <1>1, <1>2, <1>3, <1>8, <1>12 DEF ReceiveStop
  <2>2. HubTyped'  BY <1>0, <1>12 DEF ReceiveStop, HubTyped
  <2> QED BY <2>1, <2>2 DEF Typed
<1>13. CASE FinishStop
  <2>1. DispatchTyped' /\ ConnTyped' /\ PlayersTyped'
    BY <1>1, <1>2, <1>3, <1>8, <1>13 DEF FinishStop
  <2>2. HubTyped'  BY <1>0, <1>13 DEF FinishStop, HubTyped
  <2> QED BY <2>1, <2>2 DEF Typed
<1>14. ASSUME NEW c \in Conn, ReceiveRegister(c) PROVE Typed'
  <2>1. DispatchTyped' /\ ConnTyped'
    BY <1>1, <1>5, <1>14 DEF ReceiveRegister
  <2>2. HubTyped'  BY <1>0, <1>14 DEF ReceiveRegister, HubTyped, ConnectionAssumption
  <2>3. PlayersTyped'
    <3>1. Owner[c] \in User /\ MaxInput \in Nat  BY DEF ConnectionAssumption
    <3>2. IsFiniteSet(world \cup {Owner[c]})
      <4>1. IsFiniteSet(world)  BY <1>0 DEF PlayersTyped
      <4> QED BY <4>1, FS_AddElement
    <3>3. Obsolete(Owner[c]) \subseteq Conn
      BY <1>0, <3>1 DEF Obsolete, PlayersTyped
    <3>4. /\ closed' = closed \cup Obsolete(Owner[c])
          /\ clients' = [clients EXCEPT ![Owner[c]] = c]
          /\ world' = world \cup {Owner[c]}
          /\ accepted' = [accepted EXCEPT ![Owner[c]] = 0]
      BY <1>14 DEF ReceiveRegister, FreshInput
    <3> QED BY <1>0, <3>1, <3>2, <3>3, <3>4 DEF PlayersTyped
  <2> QED BY <2>1, <2>2, <2>3 DEF Typed
<1>15. ASSUME NEW c \in Conn, ReceiveUnregister(c) PROVE Typed'
  <2>1. DispatchTyped' /\ ConnTyped' /\ HubTyped' /\ PlayersTyped'
    BY <1>1, <1>4, <1>5, <1>6, <1>15 DEF ReceiveUnregister
  <2> QED BY <2>1 DEF Typed
<1>16. ASSUME NEW c \in Conn, ReceiveInput(c) PROVE Typed'
  <2>1. DispatchTyped' /\ ConnTyped' /\ HubTyped'
    BY <1>1, <1>4, <1>5, <1>16 DEF ReceiveInput
  <2>2. PlayersTyped'
    BY <1>0, <1>16 DEF ReceiveInput, PlayersTyped, ConnTyped, ConnectionAssumption
  <2> QED BY <2>1, <2>2 DEF Typed
<1>17. ASSUME NEW u \in User, ReceiveLogout(u) PROVE Typed'
  <2>1. DispatchTyped' /\ ConnTyped' /\ PlayersTyped'
    BY <1>1, <1>2, <1>7, <1>17 DEF ReceiveLogout
  <2>2. HubTyped'  BY <1>0, <1>17 DEF ReceiveLogout, HubTyped
  <2> QED BY <2>1, <2>2 DEF Typed
<1>18. ASSUME NEW w \in Worker, ReceiveSendFailure(w) PROVE Typed'
  <2>1. worker[w].job.user \in User
    BY <1>18, HeldJob DEF ReceiveSendFailure, Job
  <2>2. PlayersTyped'  BY <1>7, <1>18, <2>1 DEF ReceiveSendFailure
  <2>3. Idle \in Held  BY DEF Held
  <2>4. DispatchTyped' /\ ConnTyped' /\ HubTyped'
    BY <1>2, <1>4, <1>9, <1>18, <2>3 DEF ReceiveSendFailure
  <2> QED BY <2>2, <2>4 DEF Typed
<1>19. ASSUME NEW w \in Worker, WorkerNext(w) PROVE Typed'
  <2>1. HubTyped' /\ PlayersTyped'
    BY <1>3, <1>4, <1>8, <1>19
       DEF WorkerNext, TakeJob, SendJob, SkipEmptyJob, WorkerExit
  <2>2. CASE TakeJob(w)
    <3>1. queue[w] \in Seq(Job) /\ queue[w] # <<>> /\ Len(queue[w]) <= QueueSize
      BY <1>0, <2>2 DEF TakeJob, DispatchTyped
    <3>2. /\ Head(queue[w]) \in Job /\ Tail(queue[w]) \in Seq(Job)
          /\ Len(Tail(queue[w])) <= QueueSize
      BY <3>1, ConnectionAssumption DEF ConnectionAssumption
    <3>3. Sending(Head(queue[w])) \in Held
      BY <3>2 DEF Held
    <3>4. DispatchTyped'
      BY <1>0, <2>2, <3>2, <3>3 DEF TakeJob, DispatchTyped
    <3> QED BY <1>2, <2>1, <2>2, <3>4 DEF Typed, TakeJob
  <2>3. CASE SendJob(w)
    <3>1. worker[w].job \in Job
      BY <2>3, HeldJob DEF SendJob
    <3>2. Idle \in Held /\ Failing(worker[w].job) \in Held
      BY <3>1 DEF Held
    <3>3. CASE CanSend(worker[w].job.conn)
      <4> DEFINE c == worker[w].job.conn
                 b == Append(buf[c], worker[w].job.round)
      <4>1. /\ buf' = [buf EXCEPT ![c] = b]
            /\ worker' = [worker EXCEPT ![w] = Idle] /\ UNCHANGED <<pc, got, sent, queue>>
        BY <2>3, <3>3 DEF SendJob
      <4>2. c \in Conn /\ worker[w].job.round \in 0..MaxRound
        BY <3>1, ConnectionAssumption DEF Job, ConnectionAssumption
      <4>3. buf[c] \in Seq(0..MaxRound) /\ Len(buf[c]) < SendBuffer /\ SendBuffer \in Nat
        BY <1>0, <3>3, <4>2 DEF CanSend, ConnTyped, ConnectionAssumption
      <4>4. b \in Seq(0..MaxRound) /\ Len(b) <= SendBuffer
        BY <4>2, <4>3
      <4> HIDE DEF b, c
      <4>5. ConnTyped'
        BY <1>0, <4>1, <4>2, <4>4 DEF ConnTyped
      <4>6. DispatchTyped'
        BY <1>9, <3>2, <4>1
      <4> QED BY <2>1, <4>5, <4>6 DEF Typed
    <3>4. CASE ~CanSend(worker[w].job.conn)
      <4>1. ConnTyped' /\ DispatchTyped'
        BY <1>2, <1>9, <2>3, <3>2, <3>4 DEF SendJob
      <4> QED BY <2>1, <4>1 DEF Typed
    <3> QED BY <3>3, <3>4
  <2>4. CASE SkipEmptyJob(w) \/ WorkerExit(w)
    <3>1. Idle \in Held /\ Exited \in Held
      BY DEF Held
    <3>2. ConnTyped' /\ DispatchTyped'
      BY <1>2, <1>9, <2>4, <3>1 DEF SkipEmptyJob, WorkerExit
    <3> QED BY <2>1, <3>2 DEF Typed
  <2> QED BY <1>19, <2>2, <2>3, <2>4 DEF WorkerNext
<1>20. ASSUME NEW c \in Conn, ConnNext(c) PROVE Typed'
  <2>1. DispatchTyped' /\ HubTyped'
    BY <1>1, <1>4, <1>20
       DEF ConnNext, Accept, Break, Write, ReadInput, EndRead, Released
  <2>2. PlayersTyped'
    BY <1>3, <1>8, <1>20
       DEF ConnNext, Accept, Break, Write, ReadInput, EndRead, Released
  <2>3. CASE Accept(c) \/ EndRead(c)
    BY <1>5, <2>1, <2>2, <2>3 DEF Typed, Accept, EndRead
  <2>4. CASE Break(c)
    BY <1>2, <2>1, <2>2, <2>4 DEF Typed, Break
  <2>5. CASE Write(c)
    <3>1. buf[c] \in Seq(0..MaxRound) /\ buf[c] # <<>> /\ Len(buf[c]) <= SendBuffer
      BY <1>0, <2>5 DEF Write, ConnTyped
    <3>2. Head(buf[c]) \in 0..MaxRound
      BY <3>1
    <3>4. Tail(buf[c]) \in Seq(0..MaxRound) /\ Len(Tail(buf[c])) = Len(buf[c]) - 1
      BY <3>1, HeadTailProperties
    <3>5. Len(Tail(buf[c])) <= SendBuffer
      BY <3>1, <3>4, ConnectionAssumption DEF ConnectionAssumption
    <3>3. ConnTyped'
      BY <1>0, <2>5, <3>2, <3>4, <3>5 DEF Write, ConnTyped
    <3> QED BY <2>1, <2>2, <3>3 DEF Typed
  <2>6. CASE ReadInput(c)
    <3>1. sent[c] + 1 \in 0..MaxInput
      BY <1>0, <2>6, ConnectionAssumption DEF ReadInput, ConnTyped, ConnectionAssumption
    <3>2. ConnTyped'
      BY <1>0, <2>6, <3>1 DEF ReadInput, ConnTyped
    <3> QED BY <2>1, <2>2, <3>2 DEF Typed
  <2>7. CASE Released(c)
    <3>1. ConnTyped'
      BY <1>5, <2>7 DEF Released
    <3> QED BY <2>1, <2>2, <3>1 DEF Typed
  <2> QED BY <1>20, <2>3, <2>4, <2>5, <2>6, <2>7 DEF ConnNext
<1>21. CASE CallStop \/ \E u \in User : CallLogout(u) \/ LogoutReleased(u)
  <2>1. DispatchTyped' /\ ConnTyped' /\ PlayersTyped'
    BY <1>1, <1>2, <1>3, <1>8, <1>21 DEF CallStop, CallLogout, LogoutReleased
  <2>2. HubTyped'  BY <1>0, <1>21 DEF CallStop, CallLogout, LogoutReleased, HubTyped
  <2> QED BY <2>1, <2>2 DEF Typed
<1>22. CASE UNCHANGED vars
  <2>1. DispatchTyped' /\ ConnTyped' /\ PlayersTyped' /\ HubTyped'
    BY <1>1, <1>2, <1>3, <1>4, <1>8, <1>22 DEF vars
  <2> QED BY <2>1 DEF Typed
<1> QED BY <1>10, <1>11, <1>12, <1>13, <1>14, <1>15, <1>16, <1>17, <1>18, <1>19, <1>20,
           <1>21, <1>22 DEF Next, ActorNext

---------------------------------------------------------------------------
(* Order *)

\* A step that moves no round number, starts no job and begins to serve nobody.
LEMMA QuietStream ==
    ASSUME Routed, QueuesInOrder, BuffersInOrder, UNCHANGED <<buf, got, queue, round>>,
           \A w \in Worker : worker'[w].step = "sending" => worker'[w] = worker[w],
           \A c \in Conn : Unserved(c)' => Unserved(c)
    PROVE  Routed' /\ QueuesInOrder' /\ BuffersInOrder'
<1>1. \A w \in Worker, j \in Job : Underway(w, j)' => Underway(w, j)
  BY DEF Underway
<1>2. \A j \in Job : j.conn \in Conn
  BY DEF Job
<1>3. Routed'
  BY <1>1, <1>2 DEF Routed
<1>4. QueuesInOrder'
  BY DEF QueuesInOrder
<1>5. BuffersInOrder'
  BY DEF BuffersInOrder
<1> QED BY <1>3, <1>4, <1>5

\* The initialization is the first that a connection is sent.
LEMMA InitializationStream ==
    ASSUME ConnectionAssumption, Typed, Routed, QueuesInOrder, BuffersInOrder,
           Registered, FinishRegister, serving \notin closed, NEW c \in Conn, c = serving
    PROVE  Routed' /\ QueuesInOrder' /\ BuffersInOrder'
<1> DEFINE init == [i \in 1..InitMessages |-> round]
<1>1. /\ buf' = [buf EXCEPT ![c] = @ \o init]
      /\ UNCHANGED <<got, queue, worker, round, pc>> /\ serving' = None
  BY DEF FinishRegister, dispVars
<1>2. c \in Conn /\ serving # None
  BY DEF FinishRegister, Typed, HubTyped
<1>3. Unserved(c) /\ buf[c] = <<>> /\ got[c] = 0
  BY <1>2 DEF BuffersInOrder, Unserved
<1>4. \A d \in Conn : d # c => buf'[d] = buf[d]
  BY <1>1, <1>2 DEF Typed, ConnTyped
<1>5. \A d \in Conn : Unserved(d)' => Unserved(d)
  BY <1>1, ConnectionAssumption DEF Unserved, ConnectionAssumption
<1>6. buf'[c] = init
  <2>1. buf'[c] = <<>> \o init
    BY <1>1, <1>2, <1>3 DEF Typed, ConnTyped
  <2>2. InitMessages \in Nat
    BY DEF ConnectionAssumption
  <2>3. init \in Seq({round})
    BY <2>2
  <2> QED BY <2>1, <2>3, ConcatEmptySeq
<1>7. Routed'
  <2>1. \A w \in Worker, j \in Job : Underway(w, j)' => Underway(w, j) /\ j.conn # c
    BY <1>1, <1>3 DEF Underway, Routed
  <2>2. \A j \in Job : j.conn \in Conn
    BY DEF Job
  <2>3. ASSUME NEW w \in Worker, NEW j \in Job, Underway(w, j)'
        PROVE  /\ WorkerOf[j.user] = w /\ Owner[j.conn] = j.user /\ ~Unserved(j.conn)'
               /\ j.round <= round' /\ got'[j.conn] <= j.round
               /\ \A i \in DOMAIN buf'[j.conn] : buf'[j.conn][i] <= j.round
    <3>1. Underway(w, j) /\ j.conn # c /\ j.conn \in Conn
      BY <2>1, <2>2, <2>3
    <3>2. buf'[j.conn] = buf[j.conn] /\ got' = got /\ round' = round
      BY <1>1, <1>4, <3>1
    <3>3. ~Unserved(j.conn)'
      BY <1>5, <3>1 DEF Routed
    <3> QED BY <3>1, <3>2, <3>3 DEF Routed
  <2> QED BY <2>3 DEF Routed
<1>8. QueuesInOrder'
  BY <1>1 DEF QueuesInOrder
<1>9. BuffersInOrder'
  <2>1. ~Unserved(c)'
    <3>1. ~(pc[c] \in {"new", "registering"})
      BY <1>2 DEF Registered
    <3> QED BY <1>1, <1>2, <3>1, ConnectionAssumption DEF Unserved, ConnectionAssumption
  <2>2. round \in Nat
    BY DEF Typed, HubTyped
  <2>3. \A i \in DOMAIN init : init[i] = round
    OBVIOUS
  <2> HIDE DEF init
  <2>4. ASSUME NEW d \in Conn
        PROVE  /\ got'[d] <= round'
               /\ \A i \in DOMAIN buf'[d] : got'[d] <= buf'[d][i] /\ buf'[d][i] <= round'
               /\ \A i, k \in DOMAIN buf'[d] : i < k => buf'[d][i] <= buf'[d][k]
               /\ Unserved(d)' => buf'[d] = <<>> /\ got'[d] = 0
    <3>1. CASE d = c
      BY <1>1, <1>3, <1>6, <2>1, <2>2, <2>3, <3>1
    <3>2. CASE d # c
      BY <1>1, <1>4, <1>5, <3>2 DEF BuffersInOrder
    <3> QED BY <3>1, <3>2
  <2> QED BY <2>4 DEF BuffersInOrder
<1> QED BY <1>7, <1>8, <1>9

\* A broadcast's jobs come after everything else.
LEMMA BroadcastStream ==
    ASSUME ConnectionAssumption, IInv, Typed, Routed, QueuesInOrder, BuffersInOrder,
           Registered, Broadcast
    PROVE  Routed' /\ QueuesInOrder' /\ BuffersInOrder'
<1>1. UNCHANGED <<buf, got, worker, pc, serving>> /\ round' = round + 1 /\ hub = "select"
  BY DEF Broadcast, connVars
<1>2. round \in Nat
  BY DEF Typed, HubTyped
<1>3. serving = None /\ queue \in [Worker -> Seq(Job)]
  BY <1>1 DEF Typed, HubTyped, DispatchTyped
<1>4. \A c \in Conn : Unserved(c)' <=> Unserved(c)
  BY <1>1 DEF Unserved
<1>5. queue' \in [Worker -> Seq(Job)]
  BY BroadcastIs
<1>6. ASSUME NEW w \in Worker, NEW i \in DOMAIN queue'[w]
      PROVE  \/ i \in DOMAIN queue[w] /\ queue'[w][i] = queue[w][i]
             \/ /\ i > Len(queue[w])
                /\ LET j == queue'[w][i]
                   IN  /\ j \in Job /\ j.round = round + 1 /\ WorkerOf[j.user] = w
                       /\ clients[j.user] = j.conn
  <2>1. i \in 1..Len(queue'[w]) /\ Len(queue[w]) \in Nat /\ DOMAIN queue[w] = 1..Len(queue[w])
    BY <1>3, <1>5
  <2>2. CASE i <= Len(queue[w])
    BY <2>1, <2>2, BroadcastIs
  <2>3. CASE ~(i <= Len(queue[w]))
    BY <2>1, <2>3, BroadcastIs
  <2> QED BY <2>2, <2>3
<1>7. ASSUME NEW w \in Worker, NEW j \in Job, Underway(w, j)'
      PROVE  \/ Underway(w, j)
             \/ j.round = round + 1 /\ WorkerOf[j.user] = w /\ clients[j.user] = j.conn
  BY <1>1, <1>6, <1>7 DEF Underway
<1>8. Routed'
  <2>1. ASSUME NEW w \in Worker, NEW j \in Job, Underway(w, j)'
        PROVE  /\ WorkerOf[j.user] = w /\ Owner[j.conn] = j.user /\ ~Unserved(j.conn)'
               /\ j.round <= round' /\ got'[j.conn] <= j.round
               /\ \A i \in DOMAIN buf'[j.conn] : buf'[j.conn][i] <= j.round
    <3>1. j.conn \in Conn /\ j.user \in User /\ j.round \in Nat
      BY ConnectionAssumption DEF Job, ConnectionAssumption
    <3>2. CASE Underway(w, j)
      <4>1. /\ WorkerOf[j.user] = w /\ Owner[j.conn] = j.user /\ ~Unserved(j.conn)
            /\ j.round <= round /\ got[j.conn] <= j.round
            /\ \A i \in DOMAIN buf[j.conn] : buf[j.conn][i] <= j.round
        BY <3>2 DEF Routed
      <4> QED BY <1>1, <1>2, <1>4, <3>1, <4>1
    <3>3. CASE j.round = round + 1 /\ WorkerOf[j.user] = w /\ clients[j.user] = j.conn
      <4>1. clients[j.user] # None /\ Owner[j.conn] = j.user
        BY <3>1, <3>3, ConnectionAssumption
           DEF ConnectionAssumption, IInv, OneCurrentConnection
      <4>2. ~Unserved(j.conn)
        BY <1>3, <3>1, <3>3, <4>1, ConnectionAssumption
           DEF Registered, Unserved, ConnectionAssumption
      <4>3. /\ got[j.conn] \in Nat /\ got[j.conn] <= round
            /\ \A i \in DOMAIN buf[j.conn] : buf[j.conn][i] \in Nat /\ buf[j.conn][i] <= round
        BY <3>1 DEF BuffersInOrder, Typed, ConnTyped
      <4> QED BY <1>1, <1>2, <1>4, <3>1, <3>3, <4>1, <4>2, <4>3
    <3> QED BY <1>7, <2>1, <3>2, <3>3
  <2> QED BY <2>1 DEF Routed
<1>9. QueuesInOrder'
  <2>1. ASSUME NEW w \in Worker, NEW i \in DOMAIN queue[w]
        PROVE  queue[w][i] \in Job /\ queue[w][i].round \in Nat /\ queue[w][i].round <= round
    <3>1. queue[w][i] \in Job
      BY <1>3
    <3>2. Underway(w, queue[w][i])
      BY DEF Underway
    <3> QED BY <3>1, <3>2, ConnectionAssumption DEF Routed, Job, ConnectionAssumption
  <2>2. ASSUME NEW w \in Worker, NEW i \in DOMAIN queue'[w], NEW k \in DOMAIN queue'[w], i < k
        PROVE  queue'[w][i].round <= queue'[w][k].round
    <3>0. /\ i \in Nat /\ i >= 1 /\ k \in Nat
          /\ Len(queue[w]) \in Nat /\ DOMAIN queue[w] = 1..Len(queue[w])
      BY <1>3, <1>5
    <3>1. CASE k \in DOMAIN queue[w]
      <4>1. i \in DOMAIN queue[w]
        BY <2>2, <3>0, <3>1
      <4>2. queue'[w][k] = queue[w][k] /\ queue'[w][i] = queue[w][i]
        BY <1>6, <3>0, <3>1, <4>1
      <4> QED BY <2>2, <3>1, <4>1, <4>2 DEF QueuesInOrder
    <3>2. CASE k \notin DOMAIN queue[w]
      <4>1. queue'[w][k].round = round + 1
        BY <1>6, <3>2
      <4>2. queue'[w][i].round <= round + 1
        BY <1>2, <1>6, <2>1
      <4> QED BY <4>1, <4>2
    <3> QED BY <3>1, <3>2
  <2>3. ASSUME NEW w \in Worker, worker'[w].step = "sending", NEW i \in DOMAIN queue'[w]
        PROVE  worker'[w].job.round <= queue'[w][i].round
    <3>1. worker'[w] = worker[w] /\ worker[w].step = "sending"
      BY <1>1, <2>3
    <3>2. CASE i \in DOMAIN queue[w]
      <4>1. queue'[w][i] = queue[w][i]
        <5>1. DOMAIN queue[w] = 1..Len(queue[w]) /\ Len(queue[w]) \in Nat
          BY <1>3
        <5> QED BY <1>6, <3>2, <5>1
      <4> QED BY <3>1, <3>2, <4>1 DEF QueuesInOrder
    <3>3. CASE i \notin DOMAIN queue[w]
      <4>1. queue'[w][i].round = round + 1
        BY <1>6, <3>3
      <4>2. worker[w].job \in Job
        BY <3>1, HeldJob
      <4>3. Underway(w, worker[w].job)
        BY <3>1 DEF Underway
      <4>4. worker[w].job.round <= round /\ worker[w].job.round \in Nat
        BY <4>2, <4>3, ConnectionAssumption DEF Routed, Job, ConnectionAssumption
      <4> QED BY <1>2, <3>1, <4>1, <4>4
    <3> QED BY <3>2, <3>3
  <2> QED BY <2>2, <2>3 DEF QueuesInOrder
<1>10. BuffersInOrder'
  <2>1. ASSUME NEW c \in Conn
        PROVE  /\ got'[c] <= round'
               /\ \A i \in DOMAIN buf'[c] : got'[c] <= buf'[c][i] /\ buf'[c][i] <= round'
               /\ \A i, k \in DOMAIN buf'[c] : i < k => buf'[c][i] <= buf'[c][k]
               /\ Unserved(c)' => buf'[c] = <<>> /\ got'[c] = 0
    <3>1. got[c] \in Nat /\ \A i \in DOMAIN buf[c] : buf[c][i] \in Nat
      BY DEF Typed, ConnTyped
    <3> QED BY <1>1, <1>2, <1>4, <3>1 DEF BuffersInOrder
  <2> QED BY <2>1 DEF BuffersInOrder
<1> QED BY <1>8, <1>9, <1>10

\* A worker takes the oldest job of its queue.
LEMMA TakeStream ==
    ASSUME ConnectionAssumption, Typed, Routed, QueuesInOrder, BuffersInOrder,
           NEW v \in Worker, TakeJob(v)
    PROVE  Routed' /\ QueuesInOrder' /\ BuffersInOrder'
<1>1. /\ queue[v] # <<>> /\ worker[v] = Idle
      /\ worker' = [worker EXCEPT ![v] = Sending(Head(queue[v]))]
      /\ queue' = [queue EXCEPT ![v] = Tail(@)]
      /\ UNCHANGED <<buf, got, round, pc, serving>>
  BY DEF TakeJob, actorVars, connVars
<1>2. queue \in [Worker -> Seq(Job)] /\ worker \in [Worker -> Held]
  BY DEF Typed, DispatchTyped
<1>3. /\ queue'[v] = Tail(queue[v]) /\ worker'[v] = Sending(Head(queue[v]))
      /\ \A w \in Worker : w # v => queue'[w] = queue[w] /\ worker'[w] = worker[w]
  BY <1>1, <1>2
<1>4. queue[v] \in Seq(Job) /\ Len(queue[v]) \in Nat /\ Len(queue[v]) >= 1
      /\ DOMAIN queue[v] = 1..Len(queue[v]) /\ Head(queue[v]) = queue[v][1]
  BY <1>1, <1>2
<1>5. /\ Len(Tail(queue[v])) = Len(queue[v]) - 1 /\ Tail(queue[v]) \in Seq(Job)
      /\ \A i \in 1..Len(Tail(queue[v])) : Tail(queue[v])[i] = queue[v][i + 1]
  BY <1>1, <1>4, HeadTailProperties
<1>6. \A i \in DOMAIN queue'[v] : i \in Nat /\ i >= 1 /\ i + 1 \in DOMAIN queue[v]
                                  /\ queue'[v][i] = queue[v][i + 1]
  BY <1>3, <1>4, <1>5
<1>7. \A j : Sending(j).step = "sending" /\ Sending(j).job = j
  BY DEF Sending
<1>8. \A w \in Worker, j \in Job : Underway(w, j)' => Underway(w, j)
  <2> SUFFICES ASSUME NEW w \in Worker, NEW j \in Job, Underway(w, j)' PROVE Underway(w, j)
    OBVIOUS
  <2>0. worker'[v].job = queue[v][1] /\ 1 \in DOMAIN queue[v]
    BY <1>3, <1>4, <1>7
  <2>1. CASE w = v
    <3>1. CASE worker'[v].job = j
      BY <2>0, <2>1, <3>1 DEF Underway
    <3>2. ASSUME NEW i \in DOMAIN queue'[v], queue'[v][i] = j PROVE Underway(v, j)
      BY <1>6, <3>2 DEF Underway
    <3>3. worker'[v].job = j \/ \E i \in DOMAIN queue'[v] : queue'[v][i] = j
      BY <2>1 DEF Underway
    <3> QED BY <2>1, <3>1, <3>2, <3>3
  <2>2. CASE w # v
    BY <1>3, <2>2 DEF Underway
  <2> QED BY <2>1, <2>2
<1>9. \A c \in Conn : Unserved(c)' <=> Unserved(c)
  BY <1>1 DEF Unserved
<1>10. Routed'
  <2>1. \A j \in Job : j.conn \in Conn
    BY DEF Job
  <2> QED BY <1>1, <1>8, <1>9, <2>1 DEF Routed
<1>11. QueuesInOrder'
  <2>1. ASSUME NEW w \in Worker, NEW i \in DOMAIN queue'[w], NEW k \in DOMAIN queue'[w], i < k
        PROVE  queue'[w][i].round <= queue'[w][k].round
    <3>1. CASE w = v
      <4>1. i + 1 < k + 1
        BY <1>6, <2>1, <3>1
      <4> QED BY <1>6, <3>1, <4>1 DEF QueuesInOrder
    <3>2. CASE w # v
      BY <1>3, <2>1, <3>2 DEF QueuesInOrder
    <3> QED BY <3>1, <3>2
  <2>2. ASSUME NEW w \in Worker, worker'[w].step = "sending", NEW i \in DOMAIN queue'[w]
        PROVE  worker'[w].job.round <= queue'[w][i].round
    <3>1. CASE w = v
      <4>1. 1 \in DOMAIN queue[v] /\ 1 < i + 1
        BY <1>4, <1>6, <3>1
      <4>2. queue[v][1].round <= queue[v][i + 1].round
        BY <1>6, <3>1, <4>1 DEF QueuesInOrder
      <4>3. worker'[v].job = queue[v][1]
        BY <1>3, <1>4, <1>7
      <4>4. queue'[v][i].round = queue[v][i + 1].round
        BY <1>6, <3>1
      <4> QED BY <3>1, <4>2, <4>3, <4>4
    <3>2. CASE w # v
      BY <1>3, <2>2, <3>2 DEF QueuesInOrder
    <3> QED BY <3>1, <3>2
  <2> QED BY <2>1, <2>2 DEF QueuesInOrder
<1>12. BuffersInOrder'
  BY <1>1, <1>9 DEF BuffersInOrder
<1> QED BY <1>10, <1>11, <1>12

\* A job is sent while those of its worker's queue are not older, and every other
\* job for the same connection is in that queue.
LEMMA SendStream ==
    ASSUME ConnectionAssumption, Typed, Routed, QueuesInOrder, BuffersInOrder,
           NEW v \in Worker, SendJob(v), CanSend(worker[v].job.conn)
    PROVE  Routed' /\ QueuesInOrder' /\ BuffersInOrder'
<1>0. worker[v].step = "sending" /\ worker[v].job \in Job
  BY HeldJob DEF SendJob
<1>1. PICK c \in Conn, x \in Job : x = worker[v].job /\ c = x.conn
  BY <1>0 DEF Job
<1>2. /\ buf' = [buf EXCEPT ![c] = Append(@, x.round)]
      /\ worker' = [worker EXCEPT ![v] = Idle]
      /\ UNCHANGED <<queue, got, round, pc, serving>>
  BY <1>1 DEF SendJob, actorVars
<1>3. queue \in [Worker -> Seq(Job)] /\ worker \in [Worker -> Held]
  BY DEF Typed, DispatchTyped
<1>4. Underway(v, x)
  BY <1>0, <1>1 DEF Underway
<1>5. /\ WorkerOf[x.user] = v /\ Owner[c] = x.user /\ ~Unserved(c)
      /\ x.round <= round /\ got[c] <= x.round
      /\ \A i \in DOMAIN buf[c] : buf[c][i] <= x.round
  BY <1>1, <1>4 DEF Routed
<1>6. /\ buf[c] \in Seq(0..MaxRound) /\ Len(buf[c]) \in Nat /\ DOMAIN buf[c] = 1..Len(buf[c])
      /\ x.round \in 0..MaxRound /\ x.round \in Nat
  BY <1>1, ConnectionAssumption DEF Typed, ConnTyped, Job, ConnectionAssumption
<1>7. /\ \A d \in Conn : d # c => buf'[d] = buf[d]
      /\ buf'[c] = Append(buf[c], x.round)
  BY <1>2 DEF Typed, ConnTyped
<1>8. /\ DOMAIN buf'[c] = 1..(Len(buf[c]) + 1) /\ buf'[c][Len(buf[c]) + 1] = x.round
      /\ \A i \in DOMAIN buf[c] : buf'[c][i] = buf[c][i]
  BY <1>6, <1>7
<1>9. worker'[v].step = "idle" /\ \A w \in Worker : w # v => worker'[w] = worker[w]
  BY <1>2, <1>3 DEF Idle
<1>10. ASSUME NEW w \in Worker, NEW j \in Job, Underway(w, j)'
       PROVE  Underway(w, j) /\ (w # v \/ \E i \in DOMAIN queue[v] : queue[v][i] = j)
  BY <1>2, <1>9, <1>10 DEF Underway
<1>11. \A d \in Conn : Unserved(d)' <=> Unserved(d)
  BY <1>2 DEF Unserved
<1>12. Routed'
  <2>1. ASSUME NEW w \in Worker, NEW j \in Job, Underway(w, j)'
        PROVE  /\ WorkerOf[j.user] = w /\ Owner[j.conn] = j.user /\ ~Unserved(j.conn)'
               /\ j.round <= round' /\ got'[j.conn] <= j.round
               /\ \A i \in DOMAIN buf'[j.conn] : buf'[j.conn][i] <= j.round
    <3>1. /\ WorkerOf[j.user] = w /\ Owner[j.conn] = j.user /\ ~Unserved(j.conn)
          /\ j.round <= round /\ got[j.conn] <= j.round
          /\ \A i \in DOMAIN buf[j.conn] : buf[j.conn][i] <= j.round
      BY <1>10, <2>1 DEF Routed
    <3>2. j.conn \in Conn
      BY DEF Job
    <3>3. CASE j.conn # c
      <4>1. buf'[j.conn] = buf[j.conn]
        BY <1>7, <3>2, <3>3
      <4> QED BY <1>2, <1>11, <3>1, <3>2, <4>1
    <3>4. CASE j.conn = c
      <4>1. w = v
        BY <1>5, <3>1, <3>4
      <4>2. PICK i \in DOMAIN queue[v] : queue[v][i] = j
        BY <1>10, <2>1, <4>1
      <4>3. x.round <= j.round
        BY <1>0, <1>1, <4>2 DEF QueuesInOrder
      <4>4. \A n \in DOMAIN buf'[c] : n \in DOMAIN buf[c] \/ n = Len(buf[c]) + 1
        BY <1>6, <1>8
      <4>5. \A n \in DOMAIN buf'[c] : buf'[c][n] <= j.round
        BY <1>8, <3>1, <3>4, <4>3, <4>4
      <4> QED BY <1>2, <1>11, <3>1, <3>2, <3>4, <4>5
    <3> QED BY <3>3, <3>4
  <2> QED BY <2>1 DEF Routed
<1>13. QueuesInOrder'
  <2>1. ASSUME NEW w \in Worker, worker'[w].step = "sending"
        PROVE  worker'[w] = worker[w] /\ worker[w].step = "sending"
    BY <1>9, <2>1
  <2> QED BY <1>2, <2>1 DEF QueuesInOrder
<1>14. BuffersInOrder'
  <2>1. ASSUME NEW d \in Conn
        PROVE  /\ got'[d] <= round'
               /\ \A i \in DOMAIN buf'[d] : got'[d] <= buf'[d][i] /\ buf'[d][i] <= round'
               /\ \A i, k \in DOMAIN buf'[d] : i < k => buf'[d][i] <= buf'[d][k]
               /\ Unserved(d)' => buf'[d] = <<>> /\ got'[d] = 0
    <3>1. CASE d # c
      BY <1>2, <1>7, <1>11, <3>1 DEF BuffersInOrder
    <3>2. CASE d = c
      <4>1. \A n \in DOMAIN buf'[c] : n \in DOMAIN buf[c] \/ n = Len(buf[c]) + 1
        BY <1>6, <1>8
      <4>2. \A i \in DOMAIN buf'[c] : got'[c] <= buf'[c][i] /\ buf'[c][i] <= round'
        BY <1>2, <1>5, <1>8, <4>1 DEF BuffersInOrder
      <4>3. ASSUME NEW i \in DOMAIN buf'[c], NEW k \in DOMAIN buf'[c], i < k
            PROVE  buf'[c][i] <= buf'[c][k]
        <5>1. i \in DOMAIN buf[c]
          BY <1>6, <1>8, <4>3
        <5>2. CASE k \in DOMAIN buf[c]
          BY <1>8, <4>3, <5>1, <5>2 DEF BuffersInOrder
        <5>3. CASE k = Len(buf[c]) + 1
          BY <1>5, <1>8, <5>1, <5>3
        <5> QED BY <4>1, <5>2, <5>3
      <4> QED BY <1>2, <1>5, <1>11, <3>2, <4>2, <4>3 DEF BuffersInOrder
    <3> QED BY <3>1, <3>2
  <2> QED BY <2>1 DEF BuffersInOrder
<1> QED BY <1>12, <1>13, <1>14

\* The write loop takes the oldest message of the channel.
LEMMA WriteStream ==
    ASSUME ConnectionAssumption, Typed, Routed, QueuesInOrder, BuffersInOrder,
           NEW c \in Conn, Write(c)
    PROVE  Routed' /\ QueuesInOrder' /\ BuffersInOrder'
<1>1. /\ buf[c] # <<>> /\ got' = [got EXCEPT ![c] = Head(buf[c])]
      /\ buf' = [buf EXCEPT ![c] = Tail(@)]
      /\ UNCHANGED <<round, pc, serving, queue, worker>>
  BY DEF Write, actorVars, dispVars
<1>2. buf \in [Conn -> Seq(0..MaxRound)] /\ got \in [Conn -> 0..MaxRound]
  BY DEF Typed, ConnTyped
<1>3. /\ buf'[c] = Tail(buf[c]) /\ got'[c] = Head(buf[c])
      /\ \A d \in Conn : d # c => buf'[d] = buf[d] /\ got'[d] = got[d]
  BY <1>1, <1>2
<1>4. buf[c] \in Seq(0..MaxRound) /\ Len(buf[c]) \in Nat /\ Len(buf[c]) >= 1
      /\ DOMAIN buf[c] = 1..Len(buf[c]) /\ Head(buf[c]) = buf[c][1] /\ 1 \in DOMAIN buf[c]
  BY <1>1, <1>2
<1>5. /\ Len(Tail(buf[c])) = Len(buf[c]) - 1 /\ Tail(buf[c]) \in Seq(0..MaxRound)
      /\ \A i \in 1..Len(Tail(buf[c])) : Tail(buf[c])[i] = buf[c][i + 1]
  BY <1>1, <1>4, HeadTailProperties
<1>6. \A i \in DOMAIN buf'[c] : i \in Nat /\ i >= 1 /\ i + 1 \in DOMAIN buf[c]
                                /\ buf'[c][i] = buf[c][i + 1]
  BY <1>3, <1>4, <1>5
<1>7. \A w \in Worker, j \in Job : Underway(w, j)' <=> Underway(w, j)
  BY <1>1 DEF Underway
<1>8. ~Unserved(c) /\ \A d \in Conn : Unserved(d)' <=> Unserved(d)
  BY <1>1 DEF Unserved, BuffersInOrder
<1>9. Routed'
  <2>1. ASSUME NEW w \in Worker, NEW j \in Job, Underway(w, j)'
        PROVE  /\ WorkerOf[j.user] = w /\ Owner[j.conn] = j.user /\ ~Unserved(j.conn)'
               /\ j.round <= round' /\ got'[j.conn] <= j.round
               /\ \A i \in DOMAIN buf'[j.conn] : buf'[j.conn][i] <= j.round
    <3>1. /\ WorkerOf[j.user] = w /\ Owner[j.conn] = j.user /\ ~Unserved(j.conn)
          /\ j.round <= round /\ got[j.conn] <= j.round
          /\ \A i \in DOMAIN buf[j.conn] : buf[j.conn][i] <= j.round
      BY <1>7, <2>1 DEF Routed
    <3>2. j.conn \in Conn
      BY DEF Job
    <3>3. CASE j.conn # c
      BY <1>1, <1>3, <1>8, <3>1, <3>2, <3>3
    <3>4. CASE j.conn = c
      BY <1>1, <1>3, <1>4, <1>6, <1>8, <3>1, <3>2, <3>4
    <3> QED BY <3>3, <3>4
  <2> QED BY <2>1 DEF Routed
<1>10. QueuesInOrder'
  BY <1>1 DEF QueuesInOrder
<1>11. BuffersInOrder'
  <2>1. ASSUME NEW d \in Conn
        PROVE  /\ got'[d] <= round'
               /\ \A i \in DOMAIN buf'[d] : got'[d] <= buf'[d][i] /\ buf'[d][i] <= round'
               /\ \A i, k \in DOMAIN buf'[d] : i < k => buf'[d][i] <= buf'[d][k]
               /\ Unserved(d)' => buf'[d] = <<>> /\ got'[d] = 0
    <3>1. CASE d # c
      BY <1>1, <1>3, <1>8, <3>1 DEF BuffersInOrder
    <3>2. CASE d = c
      <4>1. got'[c] = buf[c][1] /\ got'[c] <= round'
        BY <1>1, <1>3, <1>4 DEF BuffersInOrder
      <4>2. \A i \in DOMAIN buf'[c] : buf[c][1] <= buf[c][i + 1] /\ buf[c][i + 1] <= round
        <5>1. \A i \in DOMAIN buf'[c] : 1 < i + 1 /\ i + 1 \in DOMAIN buf[c]
          BY <1>6
        <5> QED BY <1>4, <5>1 DEF BuffersInOrder
      <4>3. ASSUME NEW i \in DOMAIN buf'[c], NEW k \in DOMAIN buf'[c], i < k
            PROVE  buf'[c][i] <= buf'[c][k]
        <5>1. i + 1 < k + 1
          BY <1>6, <4>3
        <5> QED BY <1>6, <5>1 DEF BuffersInOrder
      <4>4. \A i \in DOMAIN buf'[c] : got'[c] <= buf'[c][i] /\ buf'[c][i] <= round'
        BY <1>1, <1>6, <4>1, <4>2
      <4>5. ~Unserved(c)'
        BY <1>8
      <4> QED BY <3>2, <4>1, <4>3, <4>4, <4>5
    <3> QED BY <3>1, <3>2
  <2> QED BY <2>1 DEF BuffersInOrder
<1> QED BY <1>9, <1>10, <1>11

\* A current connection has registered, and one that unregisters is closed.
LEMMA RegisteredStep ==
    ASSUME IInv, Typed, Registered, [Next]_vars
    PROVE  Registered'
<1> USE ConnectionAssumption DEF ConnectionAssumption
<1> USE DEF actorVars, connVars, dispVars
<1>0. /\ pc \in [Conn -> {"new", "registering", "reading", "input", "unregistering", "gone"}]
      /\ clients \in [User -> Conn \cup {None}] /\ serving \in Conn \cup {None}
  BY DEF Typed, ConnTyped, PlayersTyped, HubTyped
<1>1. ASSUME \A u \in User : clients'[u] # None => clients'[u] = clients[u],
             \A c \in Conn : pc'[c] \in {"new", "registering"} => pc[c] \in {"new", "registering"},
             serving' \in {serving, None}, closed \subseteq closed',
             \A c \in Conn : pc'[c] = "unregistering" => pc[c] = "unregistering" \/ c \in closed'
      PROVE  Registered'
  <2>1. ASSUME NEW u \in User, clients'[u] # None
        PROVE  pc'[clients'[u]] \notin {"new", "registering"}
    <3>1. clients'[u] = clients[u] /\ clients[u] \in Conn
      BY <1>0, <1>1, <2>1
    <3> QED BY <1>1, <2>1, <3>1 DEF Registered
  <2>2. ASSUME serving' # None PROVE pc'[serving'] \notin {"new", "registering"}
    <3>1. serving' = serving /\ serving \in Conn
      BY <1>0, <1>1, <2>2
    <3> QED BY <1>1, <2>2, <3>1 DEF Registered
  <2> QED BY <1>1, <2>1, <2>2 DEF Registered
<1>2. ASSUME NEW c \in Conn, RemoveClient(c)
      PROVE  /\ closed \subseteq closed'
             /\ \A u \in User : clients'[u] # None => clients'[u] = clients[u]
  BY <1>0, <1>2 DEF RemoveClient
<1>3. ASSUME NEW u \in User, DisconnectCurrent(u)
      PROVE  /\ closed \subseteq closed'
             /\ \A v \in User : clients'[v] # None => clients'[v] = clients[v]
  BY <1>0, <1>2, <1>3 DEF DisconnectCurrent
<1>4. CASE FinishRegister
  <2>1. serving \in Conn /\ serving' = None /\ pc' = pc
    BY <1>4 DEF FinishRegister, Typed, HubTyped
  <2>2. CASE serving \in closed
    BY <1>1, <1>2, <1>4, <2>1, <2>2 DEF FinishRegister, Registered
  <2>3. CASE serving \notin closed
    BY <1>1, <1>4, <2>1, <2>3 DEF FinishRegister, Registered
  <2> QED BY <2>2, <2>3
<1>5. CASE Broadcast \/ ReceiveStop \/ FinishStop
  BY <1>1, <1>5 DEF Broadcast, ReceiveStop, FinishStop, Registered
<1>6. ASSUME NEW c \in Conn, ReceiveRegister(c) PROVE Registered'
  <2>1. /\ clients' = [clients EXCEPT ![Owner[c]] = c] /\ pc' = [pc EXCEPT ![c] = "reading"]
        /\ serving' = c /\ closed \subseteq closed'
    BY <1>6 DEF ReceiveRegister
  <2>2. ASSUME NEW u \in User, clients'[u] # None
        PROVE  pc'[clients'[u]] \notin {"new", "registering"}
    <3>1. clients'[u] = c \/ clients'[u] = clients[u]
      BY <1>0, <2>1
    <3>2. CASE clients'[u] = c
      BY <1>0, <2>1, <3>2
    <3>3. CASE clients'[u] = clients[u] /\ clients'[u] # c
      <4>1. clients[u] \in Conn /\ pc[clients[u]] \notin {"new", "registering"}
        BY <1>0, <2>2, <3>3 DEF Registered
      <4>2. pc'[clients[u]] = pc[clients[u]]
        BY <1>0, <2>1, <3>3, <4>1
      <4> QED BY <3>3, <4>1, <4>2
    <3> QED BY <3>1, <3>2, <3>3
  <2>3. \A d \in Conn : pc'[d] = "unregistering" => pc[d] = "unregistering"
    BY <1>0, <2>1
  <2> QED BY <1>0, <2>1, <2>2, <2>3 DEF Registered
<1>7. ASSUME NEW c \in Conn, ReceiveUnregister(c) PROVE Registered'
  <2>1. pc' = [pc EXCEPT ![c] = "gone"] /\ serving' = serving
    BY <1>7 DEF ReceiveUnregister
  <2>2. \A d \in Conn : pc'[d] = pc[d] \/ pc'[d] = "gone"
    BY <1>0, <2>1
  <2>3. \A d \in Conn : pc'[d] = "unregistering" => pc[d] = "unregistering"
    BY <2>2
  <2>4. \A d \in Conn : pc'[d] \in {"new", "registering"} => pc[d] \in {"new", "registering"}
    BY <2>2
  <2>5. closed \subseteq closed' /\ \A v \in User : clients'[v] # None => clients'[v] = clients[v]
    BY <1>2, <1>7 DEF ReceiveUnregister
  <2> QED BY <1>1, <2>1, <2>3, <2>4, <2>5
<1>8. ASSUME NEW c \in Conn, ReceiveInput(c) PROVE Registered'
  <2>1. pc' = [pc EXCEPT ![c] = "reading"] /\ UNCHANGED <<serving, clients, closed>>
    BY <1>8 DEF ReceiveInput
  <2> QED BY <1>0, <1>1, <2>1
<1>9. ASSUME NEW u \in User, ReceiveLogout(u) PROVE Registered'
  BY <1>1, <1>3, <1>9 DEF ReceiveLogout, Registered
<1>10. ASSUME NEW w \in Worker, ReceiveSendFailure(w) PROVE Registered'
  <2>1. worker[w].job.user \in User
    BY <1>10, HeldJob DEF ReceiveSendFailure, Job
  <2> QED BY <1>1, <1>3, <1>10, <2>1 DEF ReceiveSendFailure, Registered
<1>11. ASSUME NEW w \in Worker, WorkerNext(w) PROVE Registered'
  BY <1>1, <1>11 DEF WorkerNext, TakeJob, SendJob, SkipEmptyJob, WorkerExit, Registered
<1>12. ASSUME NEW c \in Conn, ConnNext(c) PROVE Registered'
  <2>0. UNCHANGED <<serving, clients>> /\ closed \subseteq closed'
    BY <1>12 DEF ConnNext, Accept, Break, Write, ReadInput, EndRead, Released
  <2>1. CASE Accept(c) \/ ReadInput(c) \/ Break(c) \/ Write(c)
    <3>1. \A d \in Conn : pc'[d] = pc[d] \/ (d = c /\ pc[c] = "new" /\ pc'[c] = "registering")
                          \/ (d = c /\ pc'[c] = "input")
      BY <1>0, <2>1 DEF Accept, ReadInput, Break, Write
    <3> QED BY <1>1, <2>0, <3>1
  <2>2. CASE EndRead(c)
    <3>1. c \in closed /\ \A d \in Conn : pc'[d] = pc[d] \/ (d = c /\ pc'[c] = "unregistering")
      BY <1>0, <2>2 DEF EndRead
    <3> QED BY <1>1, <2>0, <3>1
  <2>3. CASE Released(c)
    <3>1. c \in closed' /\ \A d \in Conn : \/ pc'[d] = pc[d]
                                           \/ d = c /\ pc'[c] \in {"unregistering", "gone"}
      BY <1>0, <2>3 DEF Released, Waiters
    <3> QED BY <1>1, <2>0, <3>1
  <2> QED BY <1>12, <2>1, <2>2, <2>3 DEF ConnNext
<1>13. CASE CallStop \/ \E u \in User : CallLogout(u) \/ LogoutReleased(u)
  BY <1>1, <1>13 DEF CallStop, CallLogout, LogoutReleased, Registered
<1>14. CASE UNCHANGED vars
  BY <1>1, <1>14 DEF vars, Registered
<1> QED BY <1>4, <1>5, <1>6, <1>7, <1>8, <1>9, <1>10, <1>11, <1>12, <1>13, <1>14
        DEF Next, ActorNext

\* Every step keeps the order of the queues and of the channels.
LEMMA OrderStep ==
    ASSUME IInv, Stream, [Next]_vars
    PROVE  Routed' /\ QueuesInOrder' /\ BuffersInOrder'
<1> USE ConnectionAssumption
<1> USE DEF actorVars, connVars, dispVars
<1>0. /\ Typed /\ Routed /\ QueuesInOrder /\ BuffersInOrder /\ Registered
      /\ pc \in [Conn -> {"new", "registering", "reading", "input", "unregistering", "gone"}]
      /\ worker \in [Worker -> Held] /\ None \notin Conn
  BY DEF Stream, Typed, ConnTyped, DispatchTyped, ConnectionAssumption
<1>1. ASSUME UNCHANGED <<buf, got, queue, round, worker>>,
             \A c \in Conn : Unserved(c)' => Unserved(c)
      PROVE  Routed' /\ QueuesInOrder' /\ BuffersInOrder'
  BY <1>0, <1>1, QuietStream
<1>2. ASSUME UNCHANGED <<buf, got, queue, round, serving>>, NEW w \in Worker,
             NEW h \in Held, worker' = [worker EXCEPT ![w] = h], h.step # "sending",
             \A c \in Conn : pc'[c] = pc[c]
      PROVE  Routed' /\ QueuesInOrder' /\ BuffersInOrder'
  <2>1. \A v \in Worker : worker'[v].step = "sending" => worker'[v] = worker[v]
    BY <1>0, <1>2
  <2>2. \A c \in Conn : Unserved(c)' => Unserved(c)
    BY <1>2 DEF Unserved
  <2> QED BY <1>0, <1>2, <2>1, <2>2, QuietStream
<1>3. CASE FinishRegister
  <2>1. serving \in Conn /\ serving # None
    BY <1>0, <1>3 DEF FinishRegister, Typed, HubTyped
  <2>2. CASE serving \in closed
    <3>1. \A c \in Conn : Unserved(c)' => Unserved(c)
      BY <1>0, <1>3 DEF FinishRegister, Unserved
    <3> QED BY <1>1, <1>3, <2>2, <3>1 DEF FinishRegister
  <2>3. CASE serving \notin closed
    BY <1>0, <1>3, <2>1, <2>3, InitializationStream
  <2> QED BY <2>2, <2>3
<1>4. CASE Broadcast
  BY <1>0, <1>4, BroadcastStream
<1>5. CASE ReceiveStop \/ FinishStop
  <2>1. \A c \in Conn : Unserved(c)' => Unserved(c)
    BY <1>5 DEF ReceiveStop, FinishStop, Unserved
  <2> QED BY <1>1, <1>5, <2>1 DEF ReceiveStop, FinishStop
<1>6. ASSUME NEW c \in Conn, ReceiveRegister(c)
      PROVE  Routed' /\ QueuesInOrder' /\ BuffersInOrder'
  <2>1. \A d \in Conn : Unserved(d)' => Unserved(d)
    <3>1. pc[c] = "registering" /\ pc' = [pc EXCEPT ![c] = "reading"] /\ serving' = c
      BY <1>6 DEF ReceiveRegister
    <3>2. \A d \in Conn : d # c => pc'[d] = pc[d]
      BY <1>0, <3>1
    <3> QED BY <3>1, <3>2 DEF Unserved
  <2> QED BY <1>1, <1>6, <2>1 DEF ReceiveRegister
<1>7. ASSUME NEW c \in Conn, ReceiveUnregister(c)
      PROVE  Routed' /\ QueuesInOrder' /\ BuffersInOrder'
  <2>1. \A d \in Conn : Unserved(d)' => Unserved(d)
    <3>1. pc' = [pc EXCEPT ![c] = "gone"] /\ serving' = serving
      BY <1>7 DEF ReceiveUnregister
    <3>2. \A d \in Conn : pc'[d] = pc[d] \/ pc'[d] = "gone"
      BY <1>0, <3>1
    <3> QED BY <3>1, <3>2 DEF Unserved
  <2> QED BY <1>1, <1>7, <2>1 DEF ReceiveUnregister
<1>8. ASSUME NEW c \in Conn, ReceiveInput(c)
      PROVE  Routed' /\ QueuesInOrder' /\ BuffersInOrder'
  <2>1. \A d \in Conn : Unserved(d)' => Unserved(d)
    <3>1. pc' = [pc EXCEPT ![c] = "reading"] /\ serving' = serving
      BY <1>8 DEF ReceiveInput
    <3>2. \A d \in Conn : pc'[d] = pc[d] \/ pc'[d] = "reading"
      BY <1>0, <3>1
    <3> QED BY <3>1, <3>2 DEF Unserved
  <2> QED BY <1>1, <1>8, <2>1 DEF ReceiveInput
<1>9. ASSUME NEW u \in User, ReceiveLogout(u)
      PROVE  Routed' /\ QueuesInOrder' /\ BuffersInOrder'
  <2>1. \A d \in Conn : Unserved(d)' => Unserved(d)
    BY <1>9 DEF ReceiveLogout, Unserved
  <2> QED BY <1>1, <1>9, <2>1 DEF ReceiveLogout
<1>10. ASSUME NEW w \in Worker, ReceiveSendFailure(w)
       PROVE  Routed' /\ QueuesInOrder' /\ BuffersInOrder'
  <2>1. Idle \in Held /\ Idle.step # "sending"
    BY DEF Held, Idle
  <2> QED BY <1>2, <1>10, <2>1 DEF ReceiveSendFailure
<1>11. ASSUME NEW w \in Worker, WorkerNext(w)
       PROVE  Routed' /\ QueuesInOrder' /\ BuffersInOrder'
  <2>0. Idle \in Held /\ Idle.step # "sending" /\ Exited \in Held /\ Exited.step # "sending"
    BY DEF Held, Idle, Exited
  <2>1. CASE TakeJob(w)
    BY <1>0, <2>1, TakeStream
  <2>2. CASE SendJob(w) /\ CanSend(worker[w].job.conn)
    BY <1>0, <2>2, SendStream
  <2>3. CASE SendJob(w) /\ ~CanSend(worker[w].job.conn)
    <3>1. worker[w].job \in Job
      BY <1>0, <2>3, HeldJob DEF SendJob
    <3>2. Failing(worker[w].job) \in Held /\ Failing(worker[w].job).step # "sending"
      BY <3>1 DEF Held, Failing
    <3> QED BY <1>2, <2>3, <3>2 DEF SendJob
  <2>4. CASE SkipEmptyJob(w) \/ WorkerExit(w)
    BY <1>2, <2>0, <2>4 DEF SkipEmptyJob, WorkerExit
  <2> QED BY <1>11, <2>1, <2>2, <2>3, <2>4 DEF WorkerNext
<1>12. ASSUME NEW c \in Conn, ConnNext(c)
       PROVE  Routed' /\ QueuesInOrder' /\ BuffersInOrder'
  <2>1. CASE Write(c)
    BY <1>0, <2>1, WriteStream
  <2>2. CASE Accept(c) \/ Break(c) \/ ReadInput(c) \/ EndRead(c) \/ Released(c)
    <3>1. \A d \in Conn : /\ pc'[d] \in {"new", "registering"} => pc[d] \in {"new", "registering"}
                          /\ serving' = serving
      BY <1>0, <2>2 DEF Accept, Break, ReadInput, EndRead, Released, Waiters
    <3>2. \A d \in Conn : Unserved(d)' => Unserved(d)
      BY <3>1 DEF Unserved
    <3> QED BY <1>1, <2>2, <3>2 DEF Accept, Break, ReadInput, EndRead, Released
  <2> QED BY <1>12, <2>1, <2>2 DEF ConnNext
<1>13. CASE CallStop \/ \E u \in User : CallLogout(u) \/ LogoutReleased(u)
  <2>1. \A d \in Conn : Unserved(d)' => Unserved(d)
    BY <1>13 DEF CallStop, CallLogout, LogoutReleased, Unserved
  <2> QED BY <1>1, <1>13, <2>1 DEF CallStop, CallLogout, LogoutReleased
<1>14. CASE UNCHANGED vars
  <2>1. \A d \in Conn : Unserved(d)' => Unserved(d)
    BY <1>14 DEF vars, Unserved
  <2> QED BY <1>1, <1>14, <2>1 DEF vars
<1> QED BY <1>3, <1>4, <1>5, <1>6, <1>7, <1>8, <1>9, <1>10, <1>11, <1>12, <1>13, <1>14
        DEF Next, ActorNext

\* Whatever the actor, the workers and the connections do.
LEMMA StreamInvariant == Spec => [](IInv /\ Stream)
<1>1. Init => Stream
  <2> SUFFICES ASSUME Init PROVE Stream
    OBVIOUS
  <2>1. Typed
    BY InitTyped
  <2>2. /\ serving = None /\ clients = [u \in User |-> None] /\ pc = [c \in Conn |-> "new"]
        /\ buf = [c \in Conn |-> <<>>] /\ got = [c \in Conn |-> 0] /\ round = 0
        /\ queue = [w \in Worker |-> <<>>] /\ worker = [w \in Worker |-> Idle]
    BY DEF Init
  <2>3. Routed /\ QueuesInOrder
    BY <2>2 DEF Routed, QueuesInOrder, Underway, Idle
  <2>4. BuffersInOrder /\ Registered
    BY <2>2 DEF BuffersInOrder, Registered
  <2> QED BY <2>1, <2>3, <2>4 DEF Stream
<1>2. IInv /\ Stream /\ [Next]_vars => Stream'
  BY TypedStep, RegisteredStep, OrderStep DEF Stream
<1> QED BY <1>1, <1>2, Invariance, PTL DEF Spec

\* Type correctness, with what is not obvious: no queue and no channel ever holds
\* more than it has room for, although the initialization is written in one go.
THEOREM TypeCorrect == Spec => []TypeOK
<1>1. Stream => TypeOK
  BY TypedTypeOK DEF Stream
<1> QED BY <1>1, StreamInvariant, PTL

\* A connection's messages reach it in the order the actor built them, however
\* many workers, users and replaced connections there are: the initialization is
\* written while no job for the connection exists, and all its jobs pass through
\* one worker.
THEOREM StreamOrdered == Spec => []StreamInOrder
<1>1. IInv /\ Stream => StreamInOrder
  <2> SUFFICES ASSUME Typed, BuffersInOrder, NEW c \in Conn,
                      NEW i \in DOMAIN (<<got[c]>> \o buf[c]),
                      NEW j \in DOMAIN (<<got[c]>> \o buf[c]), i < j
               PROVE  (<<got[c]>> \o buf[c])[i] <= (<<got[c]>> \o buf[c])[j]
    BY DEF StreamInOrder, Stream
  <2> DEFINE g == got[c]
             b == buf[c]
  <2>1. g \in 0..MaxRound /\ b \in Seq(0..MaxRound)
    BY DEF Typed, ConnTyped
  <2>2. /\ \A n \in DOMAIN b : g <= b[n]
        /\ \A n, k \in DOMAIN b : n < k => b[n] <= b[k]
    BY DEF BuffersInOrder
  <2> HIDE DEF g, b
  <2>3. /\ Len(<<g>> \o b) = Len(b) + 1 /\ DOMAIN (<<g>> \o b) = 1..(Len(b) + 1)
        /\ DOMAIN b = 1..Len(b) /\ Len(b) \in Nat
        /\ (<<g>> \o b)[1] = g /\ \A n \in 2..(Len(b) + 1) : (<<g>> \o b)[n] = b[n - 1]
    BY <2>1
  <2>4. i \in 1..(Len(b) + 1) /\ j \in 2..(Len(b) + 1) /\ j - 1 \in DOMAIN b
        /\ (<<g>> \o b)[j] = b[j - 1]
    BY <2>3 DEF g, b
  <2>5. CASE i = 1
    BY <2>2, <2>3, <2>4, <2>5 DEF g, b
  <2>6. CASE i # 1
    <3>1. i \in 2..(Len(b) + 1) /\ i - 1 \in DOMAIN b /\ i - 1 < j - 1
      BY <2>3, <2>4, <2>6
    <3>2. (<<g>> \o b)[i] = b[i - 1]
      BY <2>3, <3>1
    <3>3. b[i - 1] <= b[j - 1]
      BY <2>2, <2>4, <3>1
    <3> QED BY <2>4, <3>2, <3>3 DEF g, b
  <2> QED BY <2>5, <2>6
<1> QED BY <1>1, StreamInvariant, PTL

\* What a failing worker still holds is a job for a connection of its recipient.
FailedOwned ==
    \A w \in Worker : worker[w].step = "failing" =>
        Owner[worker[w].job.conn] = worker[w].job.user

LEMMA FailedOwnedStep ==
    ASSUME IInv, Stream, FailedOwned, [Next]_vars
    PROVE  FailedOwned'
<1> USE ConnectionAssumption DEF actorVars, connVars, dispVars
<1>0. /\ Typed /\ Routed /\ worker \in [Worker -> Held]
      /\ Idle.step # "failing" /\ Exited.step # "failing"
      /\ \A j : Sending(j).step = "sending" /\ Failing(j).job = j
  BY DEF Stream, Typed, DispatchTyped, Idle, Exited, Sending, Failing
<1>1. ASSUME NEW w \in Worker
      PROVE  \/ worker'[w] = worker[w] \/ worker'[w].step # "failing"
             \/ SendJob(w) /\ worker'[w] = Failing(worker[w].job)
  <2>1. ASSUME NEW v \in Worker, WorkerNext(v)
        PROVE  \/ worker'[w] = worker[w] \/ worker'[w].step # "failing"
               \/ SendJob(w) /\ worker'[w] = Failing(worker[w].job)
    <3>1. CASE TakeJob(v)
      BY <1>0, <3>1 DEF TakeJob
    <3>2. CASE SendJob(v)
      BY <1>0, <3>2 DEF SendJob
    <3>3. CASE SkipEmptyJob(v)
      BY <1>0, <3>3 DEF SkipEmptyJob
    <3>4. CASE WorkerExit(v)
      BY <1>0, <3>4 DEF WorkerExit
    <3> QED BY <2>1, <3>1, <3>2, <3>3, <3>4 DEF WorkerNext
  <2>2. CASE ActorNext
    <3>1. ASSUME NEW v \in Worker, ReceiveSendFailure(v)
          PROVE  worker'[w] = worker[w] \/ worker'[w].step # "failing"
      BY <1>0, <3>1 DEF ReceiveSendFailure
    <3>2. ASSUME ~\E v \in Worker : ReceiveSendFailure(v)
          PROVE  worker' = worker
      BY <2>2, <3>2 DEF ActorNext, FinishRegister, Broadcast, ReceiveStop, FinishStop,
         ReceiveRegister, ReceiveUnregister, ReceiveInput, ReceiveLogout
    <3> QED BY <3>1, <3>2
  <2>3. CASE \/ \E c \in Conn : ConnNext(c)
             \/ \E u \in User : CallLogout(u) \/ LogoutReleased(u)
             \/ CallStop \/ UNCHANGED vars
    <3>1. worker' = worker
      BY <2>3 DEF ConnNext, Accept, Break, Write, ReadInput, EndRead, Released, CallLogout,
         LogoutReleased, CallStop, vars
    <3> QED BY <3>1
  <2> QED BY <2>1, <2>2, <2>3 DEF Next
<1>2. ASSUME NEW w \in Worker, worker'[w].step = "failing", worker'[w] = worker[w]
      PROVE  Owner[worker'[w].job.conn] = worker'[w].job.user
  BY <1>2 DEF FailedOwned
<1>3. ASSUME NEW w \in Worker, SendJob(w), worker'[w] = Failing(worker[w].job)
      PROVE  Owner[worker'[w].job.conn] = worker'[w].job.user
  <2>1. worker[w].job \in Job /\ worker[w] = Sending(worker[w].job)
    BY <1>0, <1>3, HeldJob DEF SendJob
  <2>2. Owner[worker[w].job.conn] = worker[w].job.user
    BY <1>0, <1>3, <2>1 DEF SendJob, Routed, Underway
  <2> QED BY <1>0, <1>3, <2>2
<1> QED BY <1>1, <1>2, <1>3 DEF FailedOwned

LEMMA FailedOwnedInvariant == Spec => [](IInv /\ Stream /\ FailedOwned)
<1>1. Init => FailedOwned
  BY DEF Init, FailedOwned, Idle
<1>2. IInv /\ Stream /\ FailedOwned /\ [Next]_vars => FailedOwned'
  BY FailedOwnedStep
<1> QED BY <1>1, <1>2, StreamInvariant, PTL DEF Spec

\* A step takes at most one user offline, and only because its current connection
\* is closed, or for a logout request of that user, or for the report of a failed
\* Send to a connection of that user, which may be one that has been replaced; the
\* end of a replaced connection never takes the new one down (removeClient).
THEOREM GoesForAReason == Spec => OfflineForAReason
<1> DEFINE Alone(u) == \A v \in User \ {u} : clients'[v] = clients[v]
           Reason(u) == \/ clients[u] \in closed
                        \/ u \in logouts \ logouts'
                        \/ \E w \in Worker : /\ worker[w].step = "failing"
                                             /\ worker'[w] = Idle
                                             /\ Owner[worker[w].job.conn] = u
<1>1. ASSUME IInv, Stream, FailedOwned, Next, NEW u \in User,
             clients[u] # None, clients'[u] = None
      PROVE  Alone(u) /\ Reason(u)
  <2> USE ConnectionAssumption DEF ConnectionAssumption
  <2> USE DEF actorVars, connVars, dispVars
  <2>0. /\ Typed /\ Registered /\ clients \in [User -> Conn \cup {None}]
        /\ Owner[clients[u]] = u /\ worker \in [Worker -> Held]
    BY <1>1 DEF Stream, Typed, PlayersTyped, DispatchTyped, IInv, OneCurrentConnection
  <2>1. ASSUME NEW c \in Conn, RemoveClient(c) PROVE clients[u] = c /\ Alone(u)
    BY <1>1, <2>0, <2>1 DEF RemoveClient
  <2>2. ASSUME NEW v \in User, DisconnectCurrent(v) PROVE u = v /\ Alone(u)
    <3>1. CASE clients[v] # None
      <4>1. clients[v] \in Conn /\ Owner[clients[v]] = v
        BY <1>1, <2>0, <3>1 DEF IInv, OneCurrentConnection
      <4>2. clients[u] = clients[v] /\ Alone(u)
        BY <2>1, <2>2, <3>1, <4>1 DEF DisconnectCurrent
      <4> QED BY <2>0, <4>1, <4>2
    <3>2. CASE clients[v] = None
      BY <1>1, <2>2, <3>2 DEF DisconnectCurrent
    <3> QED BY <3>1, <3>2
  <2>3. CASE FinishRegister
    <3>1. serving \in Conn
      BY <2>0, <2>3 DEF FinishRegister, Typed, HubTyped
    <3>2. CASE serving \in closed
      BY <2>1, <2>3, <3>1, <3>2 DEF FinishRegister
    <3>3. CASE serving \notin closed
      BY <1>1, <2>3, <3>3 DEF FinishRegister
    <3> QED BY <3>2, <3>3
  <2>4. ASSUME NEW c \in Conn, ReceiveRegister(c) PROVE FALSE
    BY <1>1, <2>0, <2>4 DEF ReceiveRegister
  <2>5. ASSUME NEW c \in Conn, ReceiveUnregister(c) PROVE Alone(u) /\ Reason(u)
    BY <2>0, <2>1, <2>5 DEF ReceiveUnregister, Registered
  <2>6. ASSUME NEW v \in User, ReceiveLogout(v) PROVE Alone(u) /\ Reason(u)
    BY <2>2, <2>6 DEF ReceiveLogout
  <2>7. ASSUME NEW w \in Worker, ReceiveSendFailure(w) PROVE Alone(u) /\ Reason(u)
    <3>1. worker[w].job.user \in User /\ worker[w].step = "failing"
      BY <2>0, <2>7, HeldJob DEF ReceiveSendFailure, Job
    <3>2. u = worker[w].job.user /\ Alone(u)
      BY <2>2, <2>7, <3>1 DEF ReceiveSendFailure
    <3>3. worker'[w] = Idle
      BY <2>0, <2>7 DEF ReceiveSendFailure
    <3> QED BY <1>1, <3>1, <3>2, <3>3 DEF FailedOwned
  <2>8. CASE Broadcast \/ ReceiveStop \/ FinishStop \/ \E c \in Conn : ReceiveInput(c)
    BY <1>1, <2>8 DEF Broadcast, ReceiveStop, FinishStop, ReceiveInput
  <2>9. CASE \E w \in Worker : WorkerNext(w)
    BY <1>1, <2>9 DEF WorkerNext, TakeJob, SendJob, SkipEmptyJob, WorkerExit
  <2>10. CASE \E c \in Conn : ConnNext(c)
    BY <1>1, <2>10 DEF ConnNext, Accept, Break, Write, ReadInput, EndRead, Released
  <2>11. CASE CallStop \/ \E v \in User : CallLogout(v) \/ LogoutReleased(v)
    BY <1>1, <2>11 DEF CallStop, CallLogout, LogoutReleased
  <2> QED BY <1>1, <2>3, <2>4, <2>5, <2>6, <2>7, <2>8, <2>9, <2>10, <2>11 DEF Next, ActorNext
<1>2. IInv /\ Stream /\ FailedOwned /\ [Next]_vars =>
        [\A u \in User : clients[u] # None /\ clients'[u] = None =>
            /\ \A v \in User \ {u} : clients'[v] = clients[v]
            /\ \/ clients[u] \in closed
               \/ u \in logouts \ logouts'
               \/ \E w \in Worker : /\ worker[w].step = "failing" /\ worker'[w] = Idle
                                    /\ Owner[worker[w].job.conn] = u]_vars
  BY <1>1
<1> QED BY <1>2, FailedOwnedInvariant, PTL DEF Spec, OfflineForAReason
===========================================================================
