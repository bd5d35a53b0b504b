-------------------------- MODULE ScorePersistence --------------------------
(***************************************************************************)
(* Saving and restoring scores: the hub actor's part (realtime/hub.go:     *)
(* scores, a Submit per pickup, a SubmitSync per departure, a Drain after  *)
(* every event) and the score worker (storage/score_persistence.go).  The  *)
(* database may be out of reach for a while, and then every write fails.   *)
(* A score is 0 where the code's map has no entry.                         *)
(***************************************************************************)
EXTENDS Integers, Sequences, FiniteSets

CONSTANTS User,
          BufferSize,    \* capacity of submitCh: 64
          MaxScore,      \* bound: points a user earns
          MaxOutage,     \* bound: database outages
          MaxLoadFail    \* bound: loads that fail

ASSUME ScoreAssumption ==
    /\ BufferSize \in Nat \ {0} /\ MaxScore \in Nat
    /\ MaxOutage \in Nat /\ MaxLoadFail \in Nat

VARIABLES
    agenda,    \* what the actor still waits for in the event it handles
    stopping,  \* Hub.Stop was called
    online,    \* users with a player in the world
    scores,    \* players.scores, kept when a user leaves
    earned,    \* points a user ever had: the saved ones and one per pickup
    submitCh,  \* async submissions the worker has not received
    dropped,   \* a submission was ever dropped for want of room (a ghost)
    pending,   \* the worker's pending map
    at,        \* where the worker is in run
    snapshot,  \* what the current flushPending has still to write
    failed,    \* a write of the current flushPending failed
    db,        \* collectible_score of a user
    dbUp,      \* writes succeed
    dbOpen,    \* main has not closed the database
    outages, loadFails  \* counters for the bounds

actorVars  == <<agenda, stopping, online, scores, earned, loadFails>>
workerVars == <<at, snapshot, failed>>
dbVars     == <<db, dbUp, dbOpen, outages>>
channel == <<submitCh, dropped>>
vars == <<actorVars, channel, pending, workerVars, dbVars>>

ScoreUpdate == [user : User, score : Nat]
Highest(S) == CHOOSE m \in S : \A n \in S : n <= m
Larger(a, b) == IF a >= b THEN a ELSE b

---------------------------------------------------------------------------
(* The actor *)

Selecting == agenda = <<>>
Doing(name) == agenda # <<>> /\ Head(agenda).op = name

\* Every event ends with scorePersister.Drain().
Drain == [op |-> "drain"]

Register(u) ==
    /\ Selecting /\ ~stopping /\ u \notin online
    /\ \/ scores' = [scores EXCEPT ![u] = db[u]] /\ UNCHANGED loadFails
       \/ /\ loadFails < MaxLoadFail \* the load fails: scores is not touched
          /\ loadFails' = loadFails + 1 /\ UNCHANGED scores
    /\ online' = online \cup {u}
    /\ agenda' = <<Drain>>
    /\ UNCHANGED <<stopping, earned, channel, pending, workerVars, dbVars>>

\* Mutant: Submit waits for no room and drops nothing.
SubmitAlways(x) == Append(submitCh, x)
\* Submit never blocks the actor: a full channel drops the update.
Submit(x) == IF Len(submitCh) < BufferSize THEN Append(submitCh, x) ELSE submitCh

\* processCollect of a pickup that succeeds.
Collect(u) ==
    /\ Selecting /\ ~stopping /\ u \in online /\ earned[u] < MaxScore
    /\ scores' = [scores EXCEPT ![u] = @ + 1]
    /\ earned' = [earned EXCEPT ![u] = @ + 1]
    /\ submitCh' = Submit([user |-> u, score |-> scores[u] + 1])
    /\ dropped' = (dropped \/ submitCh' = submitCh)
    /\ agenda' = <<Drain>>
    /\ UNCHANGED <<stopping, online, pending, workerVars, dbVars, loadFails>>

\* Mutant: the departure relies on the async submissions.
DepartureAsync(u) == <<[op |-> "remove", user |-> u], Drain>>
\* removeClient: SubmitSync takes the larger of the score and the pending one
\* before it waits for the worker.
Departure(u) ==
    <<[op |-> "sync", user |-> u, score |-> Larger(scores[u], pending[u])],
      [op |-> "remove", user |-> u], Drain>>

Leave(u) ==
    /\ Selecting /\ ~stopping /\ u \in online
    /\ agenda' = Departure(u)
    /\ pending' = [pending EXCEPT ![u] = 0]
    /\ UNCHANGED <<stopping, online, scores, earned, channel, workerVars,
                   dbVars, loadFails>>

Remove ==
    /\ Doing("remove")
    /\ online' = online \ {Head(agenda).user}
    /\ agenda' = Tail(agenda)
    /\ UNCHANGED <<stopping, scores, earned, channel, pending, workerVars,
                   dbVars, loadFails>>

\* Any other event: a tick, an input, a leaderboard request.
OtherEvent ==
    /\ Selecting /\ ~stopping
    /\ agenda' = <<Drain>>
    /\ UNCHANGED <<stopping, online, scores, earned, channel, pending,
                   workerVars, dbVars, loadFails>>

\* The stop event only drains; then Run returns.
Stop ==
    /\ Selecting /\ ~stopping
    /\ stopping' = TRUE
    /\ agenda' = <<Drain, [op |-> "return"]>>
    /\ UNCHANGED <<online, scores, earned, channel, pending, workerVars,
                   dbVars, loadFails>>

\* main closes the database once Hub.Stop has returned; nothing stops the worker.
CloseDatabase ==
    /\ Doing("return") /\ dbOpen
    /\ dbOpen' = FALSE /\ dbUp' = FALSE
    /\ UNCHANGED <<actorVars, channel, pending, workerVars, db, outages>>

---------------------------------------------------------------------------
(* The database *)

Outage ==
    /\ dbUp /\ outages < MaxOutage
    /\ dbUp' = FALSE /\ outages' = outages + 1
    /\ UNCHANGED <<actorVars, channel, pending, workerVars, db, dbOpen>>

Recovery ==
    /\ ~dbUp /\ dbOpen
    /\ dbUp' = TRUE
    /\ UNCHANGED <<actorVars, channel, pending, workerVars, db, dbOpen, outages>>

\* Mutant: the UPDATE overwrites the score.
SaveScoreLast(u, score) == [db EXCEPT ![u] = score]
\* SaveScore: the UPDATE keeps the larger score.
SaveScore(u, score) == [db EXCEPT ![u] = Larger(@, score)]

---------------------------------------------------------------------------
(* The worker *)

\* The top of the loop: flush what is pending, then select.
Loop ==
    /\ at = "loop"
    /\ snapshot' = {[user |-> u, score |-> pending[u]] : u \in {v \in User : pending[v] > 0}}
    /\ at' = IF snapshot' = {} THEN "select" ELSE "flush"
    /\ failed' = FALSE
    /\ UNCHANGED <<actorVars, channel, pending, dbVars>>

\* Mutant: a flushed entry leaves the pending map whether it was saved or not.
SettleAlways(x) == [pending EXCEPT ![x.user] = 0]
\* The pending map after the flush of one entry: it goes when it was saved and
\* is still the one the snapshot took.
Settle(x) == IF dbUp /\ pending[x.user] = x.score
             THEN [pending EXCEPT ![x.user] = 0] ELSE pending

\* flushPending writes one entry of its snapshot, in map order.
FlushOne ==
    /\ at \in {"flush", "drainflush"}
    /\ \E x \in snapshot :
          /\ snapshot' = snapshot \ {x}
          /\ db' = IF dbUp THEN SaveScore(x.user, x.score) ELSE db
          /\ pending' = Settle(x)
    /\ failed' = (failed \/ ~dbUp)
    /\ UNCHANGED <<actorVars, channel, at, dbUp, dbOpen, outages>>

FlushEnd ==
    /\ at = "flush" /\ snapshot = {}
    /\ at' = "select"
    /\ UNCHANGED <<actorVars, channel, pending, snapshot, failed, dbVars>>

\* A submission arrives: it and all that are ready after it are merged.
ReceiveSubmit ==
    /\ at = "select" /\ submitCh # <<>>
    /\ pending' = [u \in User |->
           Highest({pending[u]} \cup
                   {submitCh[i].score : i \in {j \in DOMAIN submitCh : submitCh[j].user = u}})]
    /\ submitCh' = <<>>
    /\ at' = "loop"
    /\ UNCHANGED <<actorVars, dropped, snapshot, failed, dbVars>>

\* The retry timer of the select.
Retry ==
    /\ at = "select" /\ \E u \in User : pending[u] > 0
    /\ at' = "loop"
    /\ UNCHANGED <<actorVars, channel, pending, snapshot, failed, dbVars>>

\* persistSync: retried until the write succeeds, then the actor goes on.
ReceiveSync ==
    /\ at = "select" /\ Doing("sync")
    /\ at' = "sync"
    /\ UNCHANGED <<actorVars, channel, pending, snapshot, failed, dbVars>>

PersistSync ==
    /\ at = "sync" /\ dbUp
    /\ db' = SaveScore(Head(agenda).user, Head(agenda).score)
    /\ agenda' = Tail(agenda)
    /\ at' = "loop"
    /\ UNCHANGED <<stopping, online, scores, earned, loadFails, channel, pending,
                   snapshot, failed, dbUp, dbOpen, outages>>

ReceiveDrain ==
    /\ at = "select" /\ Doing("drain")
    /\ at' = "drain"
    /\ UNCHANGED <<actorVars, channel, pending, snapshot, failed, dbVars>>

\* drainAll with something pending: flush all of it.
DrainFlush ==
    /\ at = "drain" /\ \E u \in User : pending[u] > 0
    /\ snapshot' = {[user |-> u, score |-> pending[u]] : u \in {v \in User : pending[v] > 0}}
    /\ at' = "drainflush"
    /\ failed' = FALSE
    /\ UNCHANGED <<actorVars, channel, pending, dbVars>>

\* A flush of drainAll in which a write failed is tried again after a pause.
DrainAgain ==
    /\ at = "drainflush" /\ snapshot = {} /\ failed
    /\ at' = "drain"
    /\ UNCHANGED <<actorVars, channel, pending, snapshot, failed, dbVars>>

\* Mutant: drainAll waits until there is something to flush.
DrainedFlushOnly == at = "drainflush" /\ snapshot = {} /\ ~failed
\* drainAll returns when nothing was pending or all of a flush was saved.
Drained == \/ at = "drain" /\ \A u \in User : pending[u] = 0
           \/ at = "drainflush" /\ snapshot = {} /\ ~failed

\* The reply to Drain: the actor goes on.
DrainEnd ==
    /\ Drained
    /\ agenda' = Tail(agenda)
    /\ at' = "loop"
    /\ UNCHANGED <<stopping, online, scores, earned, loadFails, channel, pending,
                   snapshot, failed, dbVars>>

---------------------------------------------------------------------------

Init ==
    /\ agenda = <<>> /\ stopping = FALSE /\ online = {}
    /\ scores = [u \in User |-> 0]
    /\ db \in [User -> {0, 1}] /\ earned = db
    /\ submitCh = <<>> /\ dropped = FALSE /\ pending = [u \in User |-> 0]
    /\ at = "loop" /\ snapshot = {} /\ failed = FALSE
    /\ dbUp = TRUE /\ dbOpen = TRUE /\ outages = 0 /\ loadFails = 0

ActorNext ==
    \/ \E u \in User : Register(u) \/ Collect(u) \/ Leave(u)
    \/ OtherEvent \/ Stop \/ Remove \/ CloseDatabase

WorkerNext ==
    \/ Loop \/ FlushOne \/ FlushEnd \/ ReceiveSubmit \/ Retry
    \/ ReceiveSync \/ PersistSync
    \/ ReceiveDrain \/ DrainFlush \/ DrainAgain \/ DrainEnd

Next == ActorNext \/ WorkerNext \/ Outage \/ Recovery

Spec == Init /\ [][Next]_vars

\* Both goroutines run whenever they can, select is fair to each of its cases
\* and every outage ends.
FairSpec ==
    /\ Spec
    /\ WF_vars(Remove) /\ WF_vars(WorkerNext) /\ WF_vars(Recovery)
    /\ SF_vars(ReceiveSubmit) /\ SF_vars(ReceiveSync \/ ReceiveDrain)

---------------------------------------------------------------------------

TypeOK ==
    /\ \A i \in DOMAIN agenda : agenda[i].op \in {"sync", "remove", "drain", "return"}
    /\ stopping \in BOOLEAN /\ online \subseteq User
    /\ scores \in [User -> Nat] /\ earned \in [User -> Nat]
    /\ dropped \in BOOLEAN /\ submitCh \in Seq(ScoreUpdate) /\ Len(submitCh) <= BufferSize
    /\ pending \in [User -> Nat]
    /\ at \in {"loop", "select", "flush", "sync", "drain", "drainflush"}
    /\ snapshot \subseteq ScoreUpdate /\ failed \in BOOLEAN
    /\ db \in [User -> Nat] /\ dbUp \in BOOLEAN /\ dbOpen \in BOOLEAN

\* A point is permanent: whoever is offline has every point of every session in
\* the database, and whoever is online sees it, whatever submissions were
\* dropped, overtaken or failed (loads not failing).
PermanentPoints ==
    loadFails = 0 => /\ \A u \in User \ online : db[u] = earned[u]
                     /\ \A u \in online : scores[u] = earned[u]

\* As long as no submission is dropped, the latest score of a user is saved or
\* on its way: in the channel, in the pending map, or in the actor's SubmitSync.
NothingLost ==
    loadFails = 0 /\ ~dropped => \A u \in User :
        \/ earned[u] \in {db[u], pending[u]}
        \/ \E i \in DOMAIN submitCh : submitCh[i] = [user |-> u, score |-> earned[u]]
        \/ Doing("sync") /\ Head(agenda).user = u /\ Head(agenda).score = earned[u]

\* When every outage ends, the actor always gets back to its select.
ActorReturns == ~Selecting ~> Selecting \/ Doing("return")

\* A pickup is saved in the end, also while its player stays online (no
\* submission dropped), unless the program ends first.
PointsEventuallySaved ==
    \A u \in User : \A n \in 1..MaxScore :
        earned[u] = n /\ loadFails = 0
            ~> db[u] >= n \/ Doing("return") \/ dropped

\* At shutdown the latest scores are saved before the database is closed.  It
\* does not hold: Drain may overtake a submission still in the channel.
ShutdownSavesScores ==
    ~dbOpen /\ loadFails = 0 => \A u \in online : db[u] = earned[u]

==============================================================================
