--------------------------- MODULE HubConnections ---------------------------
(***************************************************************************)
(* Who is online, and who may say so.  The hub actor of realtime/hub.go,   *)
(* the goroutines of every websocket connection (realtime/client.go), the  *)
(* workers of the replication dispatcher and the HTTP handlers that log a  *)
(* user out all meet on unbuffered channels: an operation is a rendezvous, *)
(* possible only while the actor sits in its select.  What a replication   *)
(* job says is abstracted to the number of the broadcast that built it.    *)
(***************************************************************************)
EXTENDS Integers, Sequences, FiniteSets, SequencesExt

CONSTANTS User,            \* user IDs
          Conn,            \* websocket connections, each opened at most once
          Owner,           \* Owner[c]: the user connection c authenticated as
          Worker,          \* dispatcher workers
          WorkerOf,        \* WorkerOf[u]: recipientID % workerCount
          QueueSize,       \* jobs a worker's queue holds (512)
          SendBuffer,      \* messages a connection's channel holds (16)
          InitMessages,    \* messages of sendInitialization (4)
          MaxRound,        \* bound: broadcasts in a behaviour
          MaxInput,        \* bound: inputs a connection sends
          None

ASSUME ConnectionAssumption ==
    /\ Owner \in [Conn -> User] /\ WorkerOf \in [User -> Worker]
    /\ QueueSize \in Nat /\ SendBuffer \in Nat /\ InitMessages \in Nat
    /\ QueueSize > 0 /\ InitMessages > 0 /\ InitMessages <= SendBuffer
    /\ MaxRound \in Nat /\ MaxInput \in Nat
    /\ None \notin User \cup Conn

VARIABLES
    hub,        \* the actor: "select", "init", "stopping" or "done"
    serving,    \* the connection sendInitialization is writing to, or None
    stop,       \* channels.stop is closed
    clients,    \* players.clients: the current connection of a user, or None
    world,      \* users with a player in game.World
    accepted,   \* world.players[u].lastSequence
    pc,         \* where a connection's goroutine stands
    closed,     \* connections whose finish() has run (sendClosed)
    buf,        \* the send channel of a connection, as round numbers
    got,        \* the last round number written to the socket
    sent,       \* the sequence number of the connection's last input
    round,      \* broadcasts so far
    queue,      \* the job queue of a worker
    worker,     \* what a worker is doing
    logouts     \* users whose logout handler is blocked in DisconnectUser

actorVars == <<hub, serving, stop, clients, world, accepted, round>>
connVars  == <<pc, closed, buf, got, sent>>
dispVars  == <<queue, worker>>
vars == <<actorVars, connVars, dispVars, logouts>>

Job == [user : User, conn : Conn, round : 1..MaxRound]
Idle == [step |-> "idle"]
Sending(j) == [step |-> "sending", job |-> j]
Failing(j) == [step |-> "failing", job |-> j]
Exited == [step |-> "exited"]

---------------------------------------------------------------------------
(* The actor's state changes *)

\* Client.Send: refused when the channel is closed or full.
CanSend(c) == c \notin closed /\ Len(buf[c]) < SendBuffer

\* Mutant: an obsolete connection removes the player too.
RemoveAnyway(c) ==
    /\ clients' = [clients EXCEPT ![Owner[c]] = None]
    /\ world' = world \ {Owner[c]}
    /\ accepted' = [accepted EXCEPT ![Owner[c]] = 0]
    /\ closed' = closed \cup {c}
\* removeClient: only the current connection removes the player.
RemoveClient(c) ==
    IF clients[Owner[c]] = c
    THEN /\ clients' = [clients EXCEPT ![Owner[c]] = None]
         /\ world' = world \ {Owner[c]}
         /\ accepted' = [accepted EXCEPT ![Owner[c]] = 0]
         /\ closed' = closed \cup {c}
    ELSE UNCHANGED <<clients, world, accepted, closed>>

\* Mutant: the connection that is replaced stays open.
ObsoleteKept(u) == {}
\* The connection registerClient closes because a new one replaces it.
Obsolete(u) == {clients[u]} \ {None}

\* Mutant: ResetInput is forgotten.
KeepInput(u) == accepted[u]
\* The last sequence number after a registration: ResetInput for a player that
\* is online, a new player otherwise.
FreshInput(u) == 0

\* Mutant: the check that the event's connection is current is dropped.
AcceptsAnyInput(c) == sent[c] > accepted[Owner[c]]
\* Run takes an input only from the user's current connection, and ApplyInput
\* only one that is newer than the last.
AcceptsInput(c) == clients[Owner[c]] = c /\ sent[c] > accepted[Owner[c]]

---------------------------------------------------------------------------
(* Events of the actor's select *)

ReceiveRegister(c) ==
    LET u == Owner[c]
    IN  /\ hub = "select" /\ pc[c] = "registering"
        /\ closed' = closed \cup Obsolete(u)
        /\ clients' = [clients EXCEPT ![u] = c]
        /\ world' = world \cup {u}
        /\ accepted' = [accepted EXCEPT ![u] = FreshInput(u)]
        /\ hub' = "init" /\ serving' = c
        /\ pc' = [pc EXCEPT ![c] = "reading"]
        /\ UNCHANGED <<stop, round, buf, got, sent, dispVars, logouts>>

\* sendInitialization: the connection's goroutines already run, so it may have
\* been closed meanwhile; a Send that fails removes the player again.
FinishRegister ==
    /\ hub = "init"
    /\ IF serving \in closed
       THEN RemoveClient(serving) /\ UNCHANGED buf
       ELSE /\ buf' = [buf EXCEPT ![serving] =
                          @ \o [i \in 1..InitMessages |-> round]]
            /\ UNCHANGED <<clients, world, accepted, closed>>
    /\ hub' = "select" /\ serving' = None
    /\ UNCHANGED <<stop, round, pc, got, sent, dispVars, logouts>>

ReceiveUnregister(c) ==
    /\ hub = "select" /\ pc[c] = "unregistering"
    /\ RemoveClient(c)
    /\ pc' = [pc EXCEPT ![c] = "gone"]
    /\ UNCHANGED <<hub, serving, stop, round, buf, got, sent, dispVars, logouts>>

ReceiveInput(c) ==
    /\ hub = "select" /\ pc[c] = "input"
    /\ accepted' = IF AcceptsInput(c)
                   THEN [accepted EXCEPT ![Owner[c]] = sent[c]] ELSE accepted
    /\ pc' = [pc EXCEPT ![c] = "reading"]
    /\ UNCHANGED <<hub, serving, stop, clients, world, round, closed, buf, got,
                   sent, dispVars, logouts>>

\* The disconnectUser event: whoever is the user's current connection goes.
DisconnectCurrent(u) ==
    IF clients[u] # None THEN RemoveClient(clients[u])
    ELSE UNCHANGED <<clients, world, accepted, closed>>

ReceiveLogout(u) ==
    /\ hub = "select" /\ u \in logouts
    /\ DisconnectCurrent(u)
    /\ logouts' = logouts \ {u}
    /\ UNCHANGED <<hub, serving, stop, round, pc, buf, got, sent, dispVars>>

\* The onSendFailure callback of a worker is DisconnectUser(recipientID).
ReceiveSendFailure(w) ==
    /\ hub = "select" /\ worker[w].step = "failing"
    /\ DisconnectCurrent(worker[w].job.user)
    /\ worker' = [worker EXCEPT ![w] = Idle]
    /\ UNCHANGED <<hub, serving, stop, round, pc, buf, got, sent, queue, logouts>>

\* Mutants: the queue grows without bound; the job goes to the shortest queue.
SubmitUnbounded(queues, job) ==
    [queues EXCEPT ![WorkerOf[job.user]] = Append(@, job)]
SubmitAnywhere(queues, job) ==
    LET w == CHOOSE x \in Worker :
                \A y \in Worker : Len(queues[x]) <= Len(queues[y])
    IN  IF Len(queues[w]) < QueueSize
        THEN [queues EXCEPT ![w] = Append(@, job)] ELSE queues
\* Submit to the worker of each recipient in turn; a full queue drops the job.
Submit(queues, job) ==
    LET w == WorkerOf[job.user]
    IN  IF Len(queues[w]) < QueueSize
        THEN [queues EXCEPT ![w] = Append(@, job)] ELSE queues

\* broadcastReplication: one job per recipient that has something to learn (any
\* set of online users, in map order), carrying the connection it has now.
Broadcast ==
    /\ hub = "select" /\ round < MaxRound
    /\ round' = round + 1
    /\ \E R \in SUBSET {u \in User : clients[u] # None} :
         \E order \in SetToSeqs(R) :
            queue' = FoldLeft(Submit, queue,
                        [i \in DOMAIN order |->
                            [user |-> order[i], conn |-> clients[order[i]],
                             round |-> round + 1]])
    /\ UNCHANGED <<hub, serving, stop, clients, world, accepted, connVars,
                   worker, logouts>>

\* The stop event, up to wg.Wait of dispatcher.Stop.
ReceiveStop ==
    /\ hub = "select" /\ stop
    /\ hub' = "stopping"
    /\ UNCHANGED <<serving, stop, clients, world, accepted, round, connVars,
                   dispVars, logouts>>

\* Every worker has exited: final saves (not modelled here), every connection
\* closed, Run returns and channels.done is closed.
FinishStop ==
    /\ hub = "stopping" /\ \A w \in Worker : worker[w] = Exited
    /\ hub' = "done"
    /\ closed' = closed \cup {c \in Conn : clients[Owner[c]] = c}
    /\ UNCHANGED <<serving, stop, clients, world, accepted, round, pc, buf, got,
                   sent, dispVars, logouts>>

---------------------------------------------------------------------------
(* Dispatcher workers *)

TakeJob(w) ==
    /\ worker[w] = Idle /\ queue[w] # <<>>
    /\ worker' = [worker EXCEPT ![w] = Sending(Head(queue[w]))]
    /\ queue' = [queue EXCEPT ![w] = Tail(@)]
    /\ UNCHANGED <<actorVars, connVars, logouts>>

\* Send the job to the connection it was built for.
SendJob(w) ==
    LET job == worker[w].job
    IN  /\ worker[w].step = "sending"
        /\ IF CanSend(job.conn)
           THEN /\ buf' = [buf EXCEPT ![job.conn] = Append(@, job.round)]
                /\ worker' = [worker EXCEPT ![w] = Idle]
           ELSE /\ worker' = [worker EXCEPT ![w] = Failing(job)]
                /\ UNCHANGED buf
        /\ UNCHANGED <<actorVars, pc, closed, got, sent, queue, logouts>>

\* A job whose changes normalise to nothing is not sent.
SkipEmptyJob(w) ==
    /\ worker[w].step = "sending"
    /\ worker' = [worker EXCEPT ![w] = Idle]
    /\ UNCHANGED <<actorVars, connVars, queue, logouts>>

\* Mutant: the queues are closed only when the actor returns.
QueuesClosedLate == hub = "done"
\* dispatcher.Stop closes the queues before it waits for the workers.
QueuesClosed == hub \in {"stopping", "done"}

WorkerExit(w) ==
    /\ QueuesClosed /\ worker[w] = Idle /\ queue[w] = <<>>
    /\ worker' = [worker EXCEPT ![w] = Exited]
    /\ UNCHANGED <<actorVars, connVars, queue, logouts>>

---------------------------------------------------------------------------
(* Connections *)

\* The HTTP handler accepted the websocket: Client.Run calls Register.
Accept(c) ==
    /\ pc[c] = "new"
    /\ pc' = [pc EXCEPT ![c] = "registering"]
    /\ UNCHANGED <<actorVars, closed, buf, got, sent, dispVars, logouts>>

\* finish() by the connection itself: the peer went away, a ping timed out or a
\* write failed or timed out.
Break(c) ==
    /\ pc[c] \in {"reading", "input"} /\ c \notin closed
    /\ closed' = closed \cup {c}
    /\ UNCHANGED <<actorVars, pc, buf, got, sent, dispVars, logouts>>

\* The write loop; once the connection is closed its context is cancelled and
\* what is left in the channel never reaches the peer.
Write(c) ==
    /\ pc[c] \in {"reading", "input"} /\ c \notin closed /\ buf[c] # <<>>
    /\ got' = [got EXCEPT ![c] = Head(buf[c])]
    /\ buf' = [buf EXCEPT ![c] = Tail(@)]
    /\ UNCHANGED <<actorVars, pc, closed, sent, dispVars, logouts>>

\* The read loop passes an input to the hub.
ReadInput(c) ==
    /\ pc[c] = "reading" /\ sent[c] < MaxInput
    /\ sent' = [sent EXCEPT ![c] = @ + 1]
    /\ pc' = [pc EXCEPT ![c] = "input"]
    /\ UNCHANGED <<actorVars, closed, buf, got, dispVars, logouts>>

\* A closed connection fails its next Read: Run finishes and unregisters.
EndRead(c) ==
    /\ pc[c] = "reading" /\ c \in closed
    /\ pc' = [pc EXCEPT ![c] = "unregistering"]
    /\ UNCHANGED <<actorVars, closed, buf, got, sent, dispVars, logouts>>

\* Mutant: Unregister does not select on channels.done.
WaitersNoUnregister == {"registering", "input"}
\* The calls that select on channels.done as well.
Waiters == {"registering", "input", "unregistering"}

\* channels.done releases whoever waits for the actor: Register returns false
\* and the connection finishes, ApplyInput returns false and ends the read
\* loop, Unregister just returns.
Released(c) ==
    /\ hub = "done" /\ pc[c] \in Waiters
    /\ pc' = [pc EXCEPT ![c] = IF @ = "input" THEN "unregistering" ELSE "gone"]
    /\ closed' = closed \cup {c}
    /\ UNCHANGED <<actorVars, buf, got, sent, dispVars, logouts>>

---------------------------------------------------------------------------
(* Logout handlers and shutdown *)

CallLogout(u) ==
    /\ u \notin logouts
    /\ logouts' = logouts \cup {u}
    /\ UNCHANGED <<actorVars, connVars, dispVars>>

\* Mutant: DisconnectUser does not select on channels.done.
LogoutHeld(u) == FALSE /\ UNCHANGED vars
LogoutReleased(u) ==
    /\ hub = "done" /\ u \in logouts
    /\ logouts' = logouts \ {u}
    /\ UNCHANGED <<actorVars, connVars, dispVars>>

CallStop ==
    /\ ~stop
    /\ stop' = TRUE
    /\ UNCHANGED <<hub, serving, clients, world, accepted, round, connVars,
                   dispVars, logouts>>

---------------------------------------------------------------------------

Init ==
    /\ hub = "select" /\ serving = None /\ stop = FALSE
    /\ clients = [u \in User |-> None] /\ world = {}
    /\ accepted = [u \in User |-> 0]
    /\ pc = [c \in Conn |-> "new"] /\ closed = {}
    /\ buf = [c \in Conn |-> <<>>] /\ got = [c \in Conn |-> 0]
    /\ sent = [c \in Conn |-> 0] /\ round = 0
    /\ queue = [w \in Worker |-> <<>>] /\ worker = [w \in Worker |-> Idle]
    /\ logouts = {}

ActorNext ==
    \/ FinishRegister \/ Broadcast \/ ReceiveStop \/ FinishStop
    \/ \E c \in Conn : ReceiveRegister(c) \/ ReceiveUnregister(c) \/ ReceiveInput(c)
    \/ \E u \in User : ReceiveLogout(u)
    \/ \E w \in Worker : ReceiveSendFailure(w)

WorkerNext(w) == TakeJob(w) \/ SendJob(w) \/ SkipEmptyJob(w) \/ WorkerExit(w)

ConnNext(c) ==
    \/ Accept(c) \/ Break(c) \/ Write(c) \/ ReadInput(c) \/ EndRead(c)
    \/ Released(c)

Next ==
    \/ ActorNext
    \/ \E w \in Worker : WorkerNext(w)
    \/ \E c \in Conn : ConnNext(c)
    \/ \E u \in User : CallLogout(u) \/ LogoutReleased(u)
    \/ CallStop

Spec == Init /\ [][Next]_vars

\* The actor's select picks among its ready cases at random, so a case that is
\* ready again and again is eventually taken; goroutines that can run do run,
\* and a closed connection's Read fails.  Peers, inputs, broadcasts, logouts
\* and the request to stop are up to the environment.
Fairness ==
    /\ WF_vars(FinishRegister \/ FinishStop) /\ SF_vars(ReceiveStop)
    /\ \A c \in Conn :
          /\ SF_vars(ReceiveRegister(c) \/ ReceiveUnregister(c) \/ ReceiveInput(c))
          /\ WF_vars(EndRead(c) \/ Released(c))
    /\ \A u \in User : SF_vars(ReceiveLogout(u)) /\ WF_vars(LogoutReleased(u))
    /\ \A w \in Worker : SF_vars(ReceiveSendFailure(w)) /\ WF_vars(WorkerNext(w))

FairSpec == Spec /\ Fairness

---------------------------------------------------------------------------
(* Safety *)

\* Types of the state; the actor serves a connection exactly during "init".
TypeOK ==
    /\ hub \in {"select", "init", "stopping", "done"}
    /\ serving \in Conn \cup {None} /\ (serving # None <=> hub = "init")
    /\ stop \in BOOLEAN
    /\ clients \in [User -> Conn \cup {None}]
    /\ world \subseteq User
    /\ accepted \in [User -> 0..MaxInput] /\ sent \in [Conn -> 0..MaxInput]
    /\ pc \in [Conn -> {"new", "registering", "reading", "input",
                        "unregistering", "gone"}]
    /\ closed \subseteq Conn
    /\ round \in 0..MaxRound /\ got \in [Conn -> 0..MaxRound]
    /\ \A c \in Conn : buf[c] \in Seq(0..MaxRound) /\ Len(buf[c]) <= SendBuffer
    /\ \A w \in Worker : queue[w] \in Seq(Job) /\ Len(queue[w]) <= QueueSize
    /\ \A w \in Worker :
          \/ worker[w] \in {Idle, Exited}
          \/ \E j \in Job : worker[w] \in {Sending(j), Failing(j)}
    /\ logouts \subseteq User

\* The player is in the world exactly while the user has a current connection,
\* whose owner the user is; a connection that runs and is not closed is
\* current, so a replaced or removed one is never left open and unowned.
OneCurrentConnection ==
    /\ world = {u \in User : clients[u] # None}
    /\ \A u \in User : clients[u] # None => Owner[clients[u]] = u
    /\ \A c \in Conn : pc[c] \in {"reading", "input"} /\ c \notin closed
                         => clients[Owner[c]] = c

\* The last accepted input of an online player was sent by its current
\* connection: an event of a replaced connection that reaches the actor late
\* neither moves the player nor makes it deaf to the new connection's first
\* inputs, whose numbers start again at 1.
InputFromCurrent ==
    \A u \in User : clients[u] # None => accepted[u] <= sent[clients[u]]

\* Each connection receives its initialization first and then the broadcasts
\* in the order the actor built them, although workers and the actor write to
\* the same channel.
StreamInOrder ==
    \A c \in Conn : LET stream == <<got[c]>> \o buf[c]
                   IN  \A i, j \in DOMAIN stream : i < j => stream[i] <= stream[j]

\* A step takes at most one online user offline, and only because the user's
\* current connection is closed, or in answer to a logout request of that user,
\* or to a worker that reports a failed Send to a connection of that user: never
\* because a connection it replaced ends, for another user's slow connection, or
\* twice for one request or report.  The connection of the failed Send may be
\* one that was replaced; see ReplacedConnectionHarmless.
OfflineForAReason ==
    [][\A u \in User : clients[u] # None /\ clients'[u] = None =>
          /\ \A v \in User \ {u} : clients'[v] = clients[v]
          /\ \/ clients[u] \in closed
             \/ u \in logouts \ logouts'
             \/ \E w \in Worker : /\ worker[w].step = "failing" /\ worker'[w] = Idle
                                  /\ Owner[worker[w].job.conn] = u]_vars

\* A failed Send takes the user offline only if it was a Send to the current
\* connection.  The design says of a replacement that it "must not
\* remove the player"; a worker that still holds a job for the replaced
\* connection disconnects the user all the same.
ReplacedConnectionHarmless ==
    [][\A u \in User : clients[u] # None /\ clients'[u] = None =>
          \/ clients[u] \in closed
          \/ u \in logouts
          \/ \E w \in Worker : /\ worker[w].step = "failing"
                               /\ worker[w].job.conn = clients[u]]_vars

---------------------------------------------------------------------------
(* Liveness *)

\* The actor waits in dispatcher.Stop for a worker that waits for the actor.
StopStuck == hub = "stopping" /\ \E w \in Worker : worker[w].step = "failing"

\* A request to stop is carried out, except when a worker meets a failed Send
\* after the actor has left its select.
StopEndsOrStuck == stop ~> (hub = "done" \/ StopStuck)

\* No goroutine leaks: a logout handler that waits in DisconnectUser returns,
\* also when the hub stops first, and a connection that is closed, by itself or
\* by the actor, unregisters and is gone, with its user offline or served by a
\* newer connection.
GoroutinesEnd ==
    /\ \A u \in User : u \in logouts ~> (u \notin logouts \/ StopStuck)
    /\ \A c \in Conn : c \in closed ~>
          \/ pc[c] = "gone" /\ (clients[Owner[c]] # c \/ hub = "done")
          \/ StopStuck

\* Worker goroutines do not leak after Stop and Stop returns ("Stop must stop
\* accepting jobs, close worker queues, and wait for workers to exit").
StopEnds == stop ~> hub = "done"
==============================================================================
