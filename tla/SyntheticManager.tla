-------------------------- MODULE SyntheticManager --------------------------
(***************************************************************************)
(* The synthetic clients of the service: the loop of synthetic/manager.go, *)
(* the clients with their drain goroutines (synthetic/client.go), the      *)
(* provisioning of their accounts, and as much of the hub as they meet:    *)
(* one current client per user ID, which a later registration replaces.    *)
(* The loop runs one event at a time and reads each channel of a client    *)
(* once per event, so an event is a step; the hub and the drains go on     *)
(* between events.  Hub.Register and Hub.Unregister wait for the actor of  *)
(* the hub, which runs until the manager has stopped: the calls that Stop  *)
(* makes are steps of their own, those of a tick are part of the tick.     *)
(* Behavior and its inputs are left out, and counters other than           *)
(* activations, disconnects and messages.  Hub.Register refuses only after *)
(* Hub.Stop, which main.go calls when the manager has stopped.             *)
(***************************************************************************)
EXTENDS Provisioning, FiniteSetsExt

CONSTANTS Service,          \* the provisioner that is the service's goroutine
          RampRate,         \* activations per second, 0 for no limit
          TicksPerSecond,
          ReadinessTimeout, \* in ticks
          Required,         \* initializationMessagesRequired
          SendBuffer,
          MaxMessage        \* bound: messages to a client

ASSUME ManagerAssumption ==
    /\ Service \in Provisioner
    /\ RampRate \in Nat /\ TicksPerSecond \in Nat \ {0} /\ ReadinessTimeout \in Nat
    /\ Required \in Nat \ {0} /\ SendBuffer \in Nat /\ Required <= SendBuffer
    /\ MaxMessage \in Nat /\ Required <= MaxMessage
    /\ None \notin Account
    /\ None \notin [queued : Nat, drained : Nat, open : BOOLEAN, done : BOOLEAN]

VARIABLES
    mgr,         \* "off", "running", "stopping", "done"
    slots,       \* per account: the accountSlot
    conn,        \* per account: its Client, also after the slot let go of it
    current,     \* Hub clients: per user ID, the account whose client is current
    rampTokens,  \* in 1/TicksPerSecond
    totalActivated, disconnectCount, accumulatedMessages
counters == <<totalActivated, disconnectCount, accumulatedMessages>>
mgrVars == <<mgr, slots, conn, current, rampTokens, counters>>
vars == <<provVars, mgrVars>>

State == {"unavailable", "pending", "activating", "active", "failed"}
Live == {"activating", "active"}
Slot == [state : State, user : 0..TargetCount, held : BOOLEAN,
         age : 0..ReadinessTimeout,
         err : {"none", "account", "notready", "disconnected"}]
Client == [queued : 0..SendBuffer, drained : 0..MaxMessage,
           open : BOOLEAN, done : BOOLEAN]

Unavailable == [state |-> "unavailable", user |-> 0, held |-> FALSE, age |-> 0,
                err |-> "none"]
Pending(user) == [Unavailable EXCEPT !.state = "pending", !.user = user]
\* Mutant: the failed slot keeps its client.
FailedHolding(err) == [Unavailable EXCEPT !.state = "failed", !.err = err, !.held = TRUE]
Failed(err) == [Unavailable EXCEPT !.state = "failed", !.err = err]

In(states) == {a \in Account : slots[a].state \in states}
Held == {a \in Account : slots[a].held}
Drained(S) == MapThenSumSet(LAMBDA a : conn[a].drained, S)

---------------------------------------------------------------------------
(* Start, provisioning *)

Restart == /\ conn' = [a \in Account |-> None]
           /\ current' = [u \in 0..TargetCount |-> None]
           /\ rampTokens' = 0 /\ totalActivated' = 0 /\ disconnectCount' = 0
           /\ accumulatedMessages' = 0

\* Bound: what others still do to the rows when the slots have been filled is
\* not followed; from then on they share nothing with the manager.
EndProvisioning == task' = [w \in Provisioner |-> Idle]
UnderWay == In({"unavailable"}) = Account

\* loadExistingAccounts; a load that fails fails every slot.
StartLoaded ==
    /\ mgr = "off" /\ mgr' = "running"
    /\ \/ /\ slots' = [a \in Account |-> IF a \in Loaded THEN Pending(a)
                                         ELSE Failed("account")]
          /\ UNCHANGED failures
       \/ /\ slots' = [a \in Account |-> Failed("account")]
          /\ Fail
    /\ EndProvisioning
    /\ UNCHANGED <<accounts, conn, current, rampTokens, counters>>

StartProvisioned ==
    /\ mgr = "off" /\ mgr' = "running"
    /\ Provision(Service)
    /\ UNCHANGED <<slots, conn, current, rampTokens, counters>>

\* Mutant: the account's error is overlooked.
SlotOfFine(a, t) == Pending(IF a \in t.named THEN a ELSE 0)
\* An account reported without an ID enters with the identity 0.
SlotOf(a, t) ==
    IF a \in t.failed THEN Failed("account")
    ELSE Pending(IF a \in t.named THEN a ELSE 0)

MergeProvisionResult ==
    /\ mgr = "running" /\ At(Service, "report")
    /\ slots' = [a \in Account |-> SlotOf(a, task[Service])]
    /\ EndProvisioning
    /\ UNCHANGED <<accounts, failures, mgr, conn, current, rampTokens, counters>>

\* Mutant: the error changes no slot.
FailNoSlot(slot) == slot
FailSlotUnavailable(slot) ==
    IF slot.state = "unavailable" \/ (slot.state = "pending" /\ slot.user = 0)
    THEN Failed("account") ELSE slot

FailUnavailable ==
    /\ mgr = "running" /\ At(Service, "error")
    /\ slots' = [a \in Account |-> FailSlotUnavailable(slots[a])]
    /\ EndProvisioning
    /\ UNCHANGED <<accounts, failures, mgr, conn, current, rampTokens, counters>>

\* The goroutine of a stopped manager gives its result up.
DropResult ==
    /\ mgr \in {"stopping", "done"} /\ (At(Service, "report") \/ At(Service, "error"))
    /\ Forget(Service)
    /\ UNCHANGED mgrVars

---------------------------------------------------------------------------
(* onTick *)

Ready(a) == conn[a].drained >= Required

\* Mutant: the client counts as gone when its queue is closed.
ClosedQueue(a) == ~conn[a].open
ClientDisconnected(a) == conn[a].done

Disconnected == {a \in In({"active"}) : ClientDisconnected(a)}
NeverReady ==
    {a \in In({"activating"}) :
        ClientDisconnected(a) \/ (~Ready(a) /\ slots[a].age = ReadinessTimeout)}
BecomesActive == {a \in In({"activating"}) \ NeverReady : Ready(a)}

\* addRampTokens; more than enough for every account is as good as more.
Least(m, n) == IF m < n THEN m ELSE n
TokensNow == Least(rampTokens + RampRate, TicksPerSecond * TargetCount)

\* tryActivateNext: pending accounts in ascending order, while tokens last.
Activated ==
    {a \in In({"pending"}) :
        RampRate = 0 \/ TokensNow >=
            TicksPerSecond * Cardinality({b \in In({"pending"}) : b <= a})}

ProcessedSlot(a) ==
    IF a \in Disconnected THEN Failed("disconnected")
    ELSE IF a \in NeverReady THEN Failed("notready")
    ELSE IF a \in BecomesActive THEN [slots[a] EXCEPT !.state = "active", !.age = 0]
    ELSE IF a \in Activated THEN [slots[a] EXCEPT !.state = "activating", !.held = TRUE]
    ELSE IF slots[a].state = "activating" THEN [slots[a] EXCEPT !.age = @ + 1]
    ELSE slots[a]

\* The current clients after the failed slots have unregistered and the
\* activated ones registered, the lowest account first.
Unregistered(S) == [u \in DOMAIN current |-> IF current[u] \in S THEN None ELSE current[u]]
Registered(S, cur) ==
    [u \in DOMAIN cur |-> LET of == {a \in S : slots[a].user = u}
                          IN  IF of = {} THEN cur[u] ELSE Max(of)]

NewClient(open) == [queued |-> Required, drained |-> 0, open |-> open, done |-> FALSE]

\* Mutant: a slot that fails leaves its client registered and open.
StillThere(failing) == {}
Unregisters(failing) == failing

Tick ==
    LET gone == Unregisters(Disconnected \cup NeverReady)
    IN  /\ mgr = "running"
        /\ slots' = [a \in Account |-> ProcessedSlot(a)]
        /\ current' = Registered(Activated, Unregistered(gone))
        /\ conn' = [a \in Account |->
               IF a \in Activated THEN NewClient(current'[slots[a].user] = a)
               ELSE IF conn[a] # None /\ (a \in gone \/ \E b \in Activated :
                                             current[slots[b].user] = a)
               THEN [conn[a] EXCEPT !.open = FALSE]
               ELSE conn[a]]
        /\ rampTokens' = IF RampRate = 0 THEN rampTokens
                         ELSE TokensNow - TicksPerSecond * Cardinality(Activated)
        /\ totalActivated' = totalActivated + Cardinality(BecomesActive)
        /\ disconnectCount' = disconnectCount + Cardinality(Disconnected)
        /\ accumulatedMessages' = accumulatedMessages + Drained(Disconnected)
        /\ UNCHANGED <<mgr, provVars>>

\* The message total of onStatsTick.
TotalMessages == accumulatedMessages + Drained(Held)

---------------------------------------------------------------------------
(* The hub and the drain goroutines *)

Change(a, client) ==
    /\ conn' = [conn EXCEPT ![a] = client]
    /\ UNCHANGED <<provVars, mgr, slots, rampTokens, counters>>

\* A client whose queue is full gets nothing.
Send(u) ==
    LET a == current[u]
    IN  /\ a # None /\ conn[a].queued < SendBuffer
        /\ conn[a].queued + conn[a].drained < MaxMessage
        /\ Change(a, [conn[a] EXCEPT !.queued = @ + 1])
        /\ UNCHANGED current

\* The hub lets go of a client: its queue was full, the user logged out
\* elsewhere, or a websocket of the user replaces it.
DropClient(u) ==
    /\ current[u] # None
    /\ Change(current[u], [conn[current[u]] EXCEPT !.open = FALSE])
    /\ current' = [current EXCEPT ![u] = None]

DrainOne(a) ==
    /\ conn[a] # None /\ conn[a].queued > 0
    /\ Change(a, [conn[a] EXCEPT !.queued = @ - 1, !.drained = @ + 1])
    /\ UNCHANGED current

DrainEnds(a) ==
    /\ conn[a] # None /\ ~conn[a].open /\ conn[a].queued = 0 /\ ~conn[a].done
    /\ Change(a, [conn[a] EXCEPT !.done = TRUE])
    /\ UNCHANGED current

---------------------------------------------------------------------------
(* Stop *)

\* The loop takes m.stop.
Shutdown ==
    /\ mgr = "running" /\ mgr' = "stopping"
    /\ UNCHANGED <<provVars, slots, conn, current, rampTokens, counters>>

\* Mutant: a client that is not ready yet is forgotten.
OnlyActive == In({"active"})
ToClose == In(Live)
CloseSend(client) == [client EXCEPT !.open = FALSE]
Unclosed == {a \in ToClose \cap Held : conn[a].open}

\* Every client is unregistered and closed, the lowest account first.  Each
\* Hub.Unregister waits for the hub's actor, which goes on with its own work; a
\* client that is closed by its turn is left as it is by both calls.
CloseNext ==
    /\ mgr = "stopping" /\ Unclosed # {}
    /\ LET a == Min(Unclosed)
       IN  /\ current' = Unregistered({a})
           /\ Change(a, CloseSend(conn[a]))

\* The wait for the drains, one after the other.
AwaitDone ==
    /\ mgr = "stopping" /\ Unclosed = {} /\ Held # {}
    /\ LET a == Min(Held)
       IN  /\ conn[a].done
           /\ slots' = [slots EXCEPT ![a].held = FALSE]
           /\ accumulatedMessages' = accumulatedMessages + conn[a].drained
    /\ UNCHANGED <<provVars, mgr, conn, current, rampTokens, totalActivated,
                   disconnectCount>>

ShutdownEnds ==
    /\ mgr = "stopping" /\ Held = {}
    /\ mgr' = "done"
    /\ UNCHANGED <<provVars, slots, conn, current, rampTokens, counters>>

\* The service's process ends, at any moment.
ProcessEnds ==
    /\ mgr # "off" /\ mgr' = "off"
    /\ slots' = [a \in Account |-> Unavailable]
    /\ Restart
    /\ Forget(Service)

---------------------------------------------------------------------------

Init ==
    /\ ProvInit
    /\ mgr = "off"
    /\ slots = [a \in Account |-> Unavailable]
    /\ conn = [a \in Account |-> None]
    /\ current = [u \in 0..TargetCount |-> None]
    /\ rampTokens = 0 /\ totalActivated = 0 /\ disconnectCount = 0
    /\ accumulatedMessages = 0

ServiceProvisions == ProvisionStep(Service) /\ UNCHANGED mgrVars

Next ==
    \/ StartLoaded \/ StartProvisioned
    \/ MergeProvisionResult \/ FailUnavailable \/ DropResult
    \/ Tick
    \/ \E u \in 0..TargetCount : Send(u) \/ DropClient(u)
    \/ \E a \in Account : DrainOne(a) \/ DrainEnds(a)
    \/ Shutdown \/ CloseNext \/ AwaitDone \/ ShutdownEnds \/ ProcessEnds
    \/ ServiceProvisions
    \/ UnderWay /\ UNCHANGED mgrVars /\
          \/ \E w \in Provisioner \ {Service} : Provision(w) \/ ProvisionStep(w) \/ Forget(w)
          \/ \E a \in Account : SavePosition(a)

Spec == Init /\ [][Next]_vars

\* The loop's ticker ticks and its channels are read, goroutines run, and a
\* statement returns.  Stop, the hub's doings and the command need not happen.
FairSpec ==
    /\ Spec
    /\ WF_vars(Tick) /\ WF_vars(MergeProvisionResult \/ FailUnavailable)
    /\ WF_vars(CloseNext \/ AwaitDone \/ ShutdownEnds) /\ WF_vars(ServiceProvisions)
    /\ \A a \in Account : WF_vars(DrainOne(a) \/ DrainEnds(a))

---------------------------------------------------------------------------
(* Properties *)

\* Types of the state; a slot holds a client when it is activating or active.
TypeOK ==
    /\ ProvTypeOK
    /\ mgr \in {"off", "running", "stopping", "done"}
    /\ slots \in [Account -> Slot]
    /\ conn \in [Account -> Client \cup {None}]
    /\ current \in [0..TargetCount -> Account \cup {None}]
    /\ rampTokens \in 0..(TicksPerSecond * TargetCount)
    /\ totalActivated \in Nat /\ disconnectCount \in Nat
    /\ accumulatedMessages \in Nat
    /\ \A a \in Held : conn[a] # None
    /\ mgr = "running" => Held = In(Live)

\* No client is left over: one that the hub has, or that is open, is held by
\* the running slot it was activated for, also after a replacement, a failed
\* activation or a disconnect met half-way; and when Stop returns all drain
\* goroutines of held clients are gone ("Wait for all Synthetic Client drain
\* goroutines and lifecycle completion").
NoStrayClient ==
    /\ \A u \in 0..TargetCount : current[u] # None =>
          /\ current[u] \in Held /\ slots[current[u]].user = u
          /\ conn[current[u]].open
    /\ \A a \in Account : conn[a] # None /\ conn[a].open => current[slots[a].user] = a
    /\ mgr = "done" => \A a \in In(Live) : conn[a].done

\* The counters are exact and final: each disconnected client, and at shutdown
\* each held one, is counted once, when its drain has ended, so that no message
\* is missed or counted twice, and what was activated is active or was
\* disconnected.
Finished == {a \in Account : slots[a].err = "disconnected"}
                \cup IF mgr \in {"stopping", "done"} THEN In(Live) \ Held ELSE {}
CountersExact ==
    /\ \A a \in Finished : conn[a].done
    /\ TotalMessages = Drained(Finished \cup Held)
    /\ disconnectCount = Cardinality({a \in Account : slots[a].err = "disconnected"})
    /\ totalActivated = Cardinality(In({"active"})) + disconnectCount

\* What is reported of an account is true, and so only accounts that exist are
\* ramped up.
AccountsReady ==
    /\ ReportTrue
    /\ \A a \in In({"pending"} \cup Live) : accounts[a] # None

\* The ramp ends: every account becomes active or fails, whatever the hub, the
\* database and other provisioners do, unless the manager is stopped first.
RampSettles ==
    mgr = "running" ~> (mgr # "running" \/ In({"active", "failed"}) = Account)

\* Stop returns: no drain, unregistration or provisioning holds it up.
StopReturns == mgr = "stopping" ~> mgr \in {"done", "off"}

\* Two clients never act as one user (docs/superpowers/specs/
\* 2026-06-14-in-process-synthetic-clients-design.md:203 gives each a
\* "Database user ID and synthetic username").  It does not hold: an account that
\* Provision has just created is reported without its ID.
OwnUser ==
    \A a, b \in In(Live) : slots[a].user = slots[b].user => a = b
==============================================================================
