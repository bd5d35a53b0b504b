------------------------ MODULE PositionPersistence ------------------------
(***************************************************************************)
(* Saving and restoring positions: the hub's bookkeeping (realtime/hub.go: *)
(* dirty, seq, final saves), the persistence worker and its channels       *)
(* (storage/persistence.go), the users table, and the goroutines Submit    *)
(* starts, which reach the worker's channel in any order.  A position is   *)
(* the number of steps the player had walked when it stood there, so that  *)
(* "older" and "newer" mean what they say; the spawn point is 0.           *)
(***************************************************************************)
EXTENDS Integers, Sequences, FiniteSets

CONSTANTS User,
          ChunkSize,     \* rows per transaction: 500 (MySQL), 1 (SQLite)
          MaxMove,       \* bound: steps a user walks
          MaxSave,       \* bound: periodic saves
          MaxSession,    \* bound: times a user comes online
          MaxFail,       \* bound: database writes that fail
          MaxLoadFail    \* bound: loads that fail

ASSUME PersistenceAssumption ==
    /\ ChunkSize \in Nat \ {0} /\ MaxMove \in Nat /\ MaxSave \in Nat
    /\ MaxSession \in Nat /\ MaxFail \in Nat /\ MaxLoadFail \in Nat

VARIABLES
    agenda,    \* what the actor still has to do for the event it handles
    stopping,  \* Hub.Stop was called
    online,    \* players in the world
    pos,       \* position of an online player, and its last one when offline
    walked,    \* steps a user has ever walked
    dirty,     \* persistence.dirty
    seq,       \* persistence.seq, 0 when deleted
    started,   \* batches whose Submit goroutine has not reached the channel
    parked,    \* senders blocked on "ordered", first come first served: the
               \* rows of each and whether it is the actor, in SubmitSync
    mode,      \* the worker: "run", "flush", "stop" or "done"
    writing,   \* accepted updates the worker has not written yet
    lastSeq,   \* lastSeq of the worker
    db,        \* the saved position of a user
    sessions, saves, fails, loadFails  \* counters for the bounds

actorVars  == <<agenda, stopping, online, pos, walked, dirty, seq, sessions, saves, loadFails>>
workerVars == <<mode, writing, lastSeq, db, fails>>
vars == <<actorVars, workerVars, started, parked>>

Update == [user : User, pos : Nat, seq : Nat]

---------------------------------------------------------------------------
(* The actor: an event puts its blocking steps on the agenda, and the actor *)
(* is back in its select when the agenda is empty.                          *)

Selecting == agenda = <<>>

Op(name, u) == [op |-> name, user |-> u]

\* Mutant: the logout handler does not wait for the worker.
NoDrain == <<>>
\* positions.Drain, in the disconnectUser and the stop event.
Drain == <<[op |-> "drain"]>>

\* removeClient for a genuine departure: final save, then forget the player.
Departure(u) == <<Op("final", u), Op("sync", u), Op("remove", u)>>

Register(u) ==
    /\ Selecting /\ ~stopping /\ u \notin online /\ sessions[u] < MaxSession
    /\ \/ pos' = [pos EXCEPT ![u] = db[u]] /\ UNCHANGED loadFails
       \/ /\ loadFails < MaxLoadFail \* the load fails: the spawn point
          /\ pos' = [pos EXCEPT ![u] = 0] /\ loadFails' = loadFails + 1
    /\ online' = online \cup {u}
    /\ sessions' = [sessions EXCEPT ![u] = @ + 1]
    /\ UNCHANGED <<agenda, stopping, walked, dirty, seq, saves, workerVars,
                   started, parked>>

\* The simulation tick moves a player and marks it dirty.
Move(u) ==
    /\ Selecting /\ u \in online /\ walked[u] < MaxMove
    /\ walked' = [walked EXCEPT ![u] = @ + 1]
    /\ pos' = [pos EXCEPT ![u] = walked[u] + 1]
    /\ dirty' = dirty \cup {u}
    /\ UNCHANGED <<agenda, stopping, online, seq, sessions, saves, loadFails,
                   workerVars, started, parked>>

\* persistDirtyPositions: one batch, sent by a goroutine of its own.
PersistTick ==
    /\ Selecting /\ dirty # {} /\ saves < MaxSave
    /\ seq' = [u \in User |-> IF u \in dirty THEN seq[u] + 1 ELSE seq[u]]
    /\ started' = started \cup
                    {{[user |-> u, pos |-> pos[u], seq |-> seq[u] + 1] : u \in dirty}}
    /\ dirty' = {}
    /\ saves' = saves + 1
    /\ UNCHANGED <<agenda, stopping, online, pos, walked, sessions, loadFails,
                   workerVars, parked>>

\* The connection ended: Unregister.
Leave(u) ==
    /\ Selecting /\ u \in online
    /\ agenda' = Departure(u)
    /\ UNCHANGED <<stopping, online, pos, walked, dirty, seq, sessions, saves,
                   loadFails, workerVars, started, parked>>

\* The logout handler waits for the disconnectUser event to be finished, which
\* drains also when the user is offline by then.
Logout(u) ==
    /\ Selecting
    /\ agenda' = (IF u \in online THEN Departure(u) ELSE <<>>) \o Drain \o <<Op("reply", u)>>
    /\ UNCHANGED <<stopping, online, pos, walked, dirty, seq, sessions, saves,
                   loadFails, workerVars, started, parked>>

\* Mutant: the stop event saves nothing but what the dirty ticks submitted.
StopAgendaNoFinal(order) == Drain \o <<[op |-> "return"]>>
\* The stop event: a final save for every online player, in map order, then
\* Drain; the players stay in the world.
StopAgenda(order) ==
    [i \in 1..(2 * Len(order)) |->
        Op(IF i % 2 = 1 THEN "final" ELSE "sync", order[(i + 1) \div 2])]
    \o Drain \o <<[op |-> "return"]>>

Orders(S) == {f \in [1..Cardinality(S) -> S] : \A i, j \in DOMAIN f : f[i] = f[j] => i = j}

Stop ==
    /\ Selecting /\ ~stopping
    /\ stopping' = TRUE
    /\ \E order \in Orders(online) : agenda' = StopAgenda(order)
    /\ UNCHANGED <<online, pos, walked, dirty, seq, sessions, saves, loadFails,
                   workerVars, started, parked>>

Doing(name) == agenda # <<>> /\ Head(agenda).op = name

\* submitFinalPosition up to the blocking send of SubmitSync.
FinalSave ==
    LET u == Head(agenda).user
    IN  /\ Doing("final")
        /\ seq' = [seq EXCEPT ![u] = @ + 1]
        /\ parked' = Append(parked, [rows |-> {[user |-> u, pos |-> pos[u], seq |-> seq[u] + 1]},
                                    sync |-> TRUE])
        /\ agenda' = Tail(agenda)
        /\ UNCHANGED <<stopping, online, pos, walked, dirty, sessions, saves,
                       loadFails, workerVars, started>>

\* SubmitSync returns as soon as the worker has received the batch.
SyncReturns ==
    /\ Doing("sync")
    /\ \A i \in DOMAIN parked : ~parked[i].sync
    /\ agenda' = Tail(agenda)
    /\ UNCHANGED <<stopping, online, pos, walked, dirty, seq, sessions, saves,
                   loadFails, workerVars, started, parked>>

\* Mutant: the departed player stays dirty.
RemoveKeepsDirty ==
    LET u == Head(agenda).user
    IN  /\ Doing("remove")
        /\ online' = online \ {u}
        /\ seq' = [seq EXCEPT ![u] = 0]
        /\ agenda' = Tail(agenda)
        /\ UNCHANGED <<stopping, pos, walked, dirty, sessions, saves, loadFails,
                       workerVars, started, parked>>
\* The rest of removeClient; the sequence counter is deleted with the player.
Remove ==
    LET u == Head(agenda).user
    IN  /\ Doing("remove")
        /\ online' = online \ {u} /\ dirty' = dirty \ {u}
        /\ seq' = [seq EXCEPT ![u] = 0]
        /\ agenda' = Tail(agenda)
        /\ UNCHANGED <<stopping, pos, walked, sessions, saves, loadFails,
                       workerVars, started, parked>>

\* close(req.done): the logout handler goes on.
Reply ==
    /\ Doing("reply")
    /\ agenda' = Tail(agenda)
    /\ UNCHANGED <<stopping, online, pos, walked, dirty, seq, sessions, saves,
                   loadFails, workerVars, started, parked>>

---------------------------------------------------------------------------
(* The channel and the worker *)

\* A Submit goroutine gets to its send.
Park(batch) ==
    /\ batch \in started
    /\ started' = started \ {batch}
    /\ parked' = Append(parked, [rows |-> batch, sync |-> FALSE])
    /\ UNCHANGED <<actorVars, workerVars>>

\* Mutant: the sequence number is not compared with the last one written.
Unfiltered(batch) == batch
\* filterAndCollapse: what is newer than the last write, the newest per user.
FilterAndCollapse(batch) ==
    {x \in batch : /\ x.seq > lastSeq[x.user]
                   /\ \A y \in batch : y.user = x.user => y.seq <= x.seq}

Receive ==
    /\ mode # "done" /\ writing = {} /\ parked # <<>>
    /\ writing' = FilterAndCollapse(Head(parked).rows)
    /\ parked' = Tail(parked)
    /\ UNCHANGED <<actorVars, mode, lastSeq, db, fails, started>>

\* Mutant: the sequence number advances although the write failed.
AdvanceAlways(chunk, ok) ==
    [u \in User |-> IF \E x \in chunk : x.user = u
                    THEN (CHOOSE x \in chunk : x.user = u).seq ELSE lastSeq[u]]
\* lastSeq after a chunk: only a successful write advances it.
Advance(chunk, ok) ==
    [u \in User |-> IF ok /\ \E x \in chunk : x.user = u
                    THEN (CHOOSE x \in chunk : x.user = u).seq ELSE lastSeq[u]]

\* applyPerRow and applyBulk: chunks of at most ChunkSize rows, each written in
\* a transaction of its own that may fail.
WriteChunk(ok) ==
    /\ writing # {}
    /\ ok \/ fails < MaxFail
    /\ \E chunk \in SUBSET writing :
          /\ Cardinality(chunk) = IF Cardinality(writing) < ChunkSize
                                  THEN Cardinality(writing) ELSE ChunkSize
          /\ db' = [u \in User |-> IF ok /\ \E x \in chunk : x.user = u
                                   THEN (CHOOSE x \in chunk : x.user = u).pos
                                   ELSE db[u]]
          /\ lastSeq' = Advance(chunk, ok)
          /\ writing' = writing \ chunk
    /\ fails' = IF ok THEN fails ELSE fails + 1
    /\ UNCHANGED <<actorVars, mode, started, parked>>

FlushStart ==
    /\ mode = "run" /\ writing = {} /\ Doing("drain")
    /\ mode' = "flush"
    /\ UNCHANGED <<actorVars, writing, lastSeq, db, fails, started, parked>>

\* Mutant: the flush is not acknowledged.
FlushEndSilent ==
    /\ mode = "flush" /\ writing = {} /\ parked = <<>>
    /\ mode' = "run"
    /\ UNCHANGED <<actorVars, writing, lastSeq, db, fails, started, parked>>
\* drainPending found nobody blocked in a send: acknowledge.
FlushEnd ==
    /\ mode = "flush" /\ writing = {} /\ parked = <<>>
    /\ mode' = "run"
    /\ agenda' = Tail(agenda)
    /\ UNCHANGED <<stopping, online, pos, walked, dirty, seq, sessions, saves,
                   loadFails, writing, lastSeq, db, fails, started, parked>>

\* The actor has returned and Hub.Stop stops the worker, which drains once more.
WorkerStop ==
    /\ Doing("return")
    /\ \/ mode = "run" /\ writing = {} /\ mode' = "stop"
       \/ mode = "stop" /\ writing = {} /\ parked = <<>> /\ mode' = "done"
    /\ UNCHANGED <<actorVars, writing, lastSeq, db, fails, started, parked>>

---------------------------------------------------------------------------

Init ==
    /\ agenda = <<>> /\ stopping = FALSE /\ online = {} /\ dirty = {}
    /\ pos = [u \in User |-> 0] /\ walked = [u \in User |-> 0]
    /\ seq = [u \in User |-> 0] /\ lastSeq = [u \in User |-> 0]
    /\ db = [u \in User |-> 0] /\ sessions = [u \in User |-> 0]
    /\ started = {} /\ parked = <<>> /\ writing = {} /\ mode = "run"
    /\ saves = 0 /\ fails = 0 /\ loadFails = 0

ActorNext ==
    \/ \E u \in User : Register(u) \/ Move(u) \/ Leave(u) \/ Logout(u)
    \/ PersistTick \/ Stop \/ FinalSave \/ SyncReturns \/ Remove \/ Reply

WorkerNext ==
    \/ Receive \/ WriteChunk(TRUE) \/ WriteChunk(FALSE)
    \/ FlushStart \/ FlushEnd \/ WorkerStop

Next == ActorNext \/ WorkerNext \/ \E batch \in started : Park(batch)

Spec == Init /\ [][Next]_vars

\* The actor and the worker are goroutines that run whenever they can; the
\* actor's select waits for events, which need not come.
FairSpec ==
    /\ Spec
    /\ WF_vars(FinalSave \/ SyncReturns \/ Remove \/ Reply)
    /\ WF_vars(WorkerNext)

---------------------------------------------------------------------------

TypeOK ==
    /\ \A i \in DOMAIN agenda : agenda[i].op \in
          {"final", "sync", "remove", "drain", "reply", "return"}
    /\ stopping \in BOOLEAN /\ online \subseteq User /\ dirty \subseteq online
    /\ pos \in [User -> Nat] /\ walked \in [User -> Nat]
    /\ seq \in [User -> Nat] /\ lastSeq \in [User -> Nat] /\ db \in [User -> Nat]
    /\ started \subseteq SUBSET Update
    /\ \A i \in DOMAIN parked : parked[i] \in [rows : SUBSET Update, sync : BOOLEAN]
    /\ mode \in {"run", "flush", "stop", "done"}
    /\ writing \subseteq Update

\* While writes succeed, the saved position never goes back to one the player
\* had left before: batches reach the worker in any order, also long after the
\* session that produced them, and it drops what is older than its last write.
\* A load that fails starts a session at the spawn point, but nothing of that is
\* saved until the player has walked on.
NoStaleOverwrite ==
    [][fails = 0 => \A u \in User : db'[u] >= db[u]]_vars

\* What the worker drops in a user's first session is not newer than what is
\* saved, even after failed writes, so a failed write is always made up for by
\* the next one that arrives, early or late.
DropsOnlyStale ==
    [][\A i \in DOMAIN parked : i = 1 /\ parked' = Tail(parked) =>
          \A x \in parked[1].rows :
             \/ x \in writing'
             \/ x.pos <= db[x.user]
             \/ sessions[x.user] > 1]_vars

\* When the logout handler is answered, the position the player left at is
\* saved (database writes not failing), also when its connection had left before
\* the logout came.  It does not hold: removeClient deletes
\* the counter, so in a second session it starts at 1 again, below the worker's
\* lastSeq, and the worker drops the updates.
LogoutCommitted ==
    Doing("reply") /\ fails = 0 => db[Head(agenda).user] = pos[Head(agenda).user]

\* It does hold for a user's first session, whatever other users do; and when
\* the worker has stopped, every player that was online at shutdown, in its
\* first session, is saved where it stood, whatever batches are in flight.
FirstSessionSaved ==
    /\ Doing("reply") /\ sessions[Head(agenda).user] = 1 => LogoutCommitted
    /\ mode = "done" /\ fails = 0 =>
          \A u \in online : sessions[u] = 1 => db[u] = pos[u]

\* A player that reconnects stands where its last session ended.  It does not
\* hold: removeClient does not wait for the write, and the load may precede it.
ReconnectRestores ==
    [][\A u \in online' \ online : fails = 0 /\ loadFails' = loadFails
          => pos'[u] = pos[u]]_vars

\* The actor always gets back to its select, or the hub has stopped with the
\* worker done: a save, a flush and the shutdown never wait for one another.
EventsFinish == ~Selecting ~> Selecting \/ mode = "done"

==============================================================================
