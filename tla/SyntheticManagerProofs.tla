----------------------- MODULE SyntheticManagerProofs -----------------------
(***************************************************************************)
(* Proofs about SyntheticManager and Provisioning, for any number of       *)
(* accounts, provisioners and failures and any chunk size: what is         *)
(* reported of an account is true, only accounts that exist are ramped up, *)
(* no saved position is reset, no client is left over, and the counters    *)
(* are exact.                                                              *)
(***************************************************************************)
EXTENDS SyntheticManager, FiniteSetTheorems, WellFoundedInduction, TLAPS

---------------------------------------------------------------------------
(* Rows only get better *)

\* What the statements do to a row.
LEMMA RowOperations ==
    ASSUME NEW r \in Row
    PROVE  /\ Marked(r) \in Row /\ Marked(r).marked
           /\ Marked(r).looks = r.looks /\ Marked(r).pos = r.pos
           /\ Corrected(r) \in Row /\ Corrected(r).looks
           /\ Corrected(r).marked = r.marked /\ Corrected(r).pos = r.pos
           /\ WithPosition(r) \in Row /\ WithPosition(r).pos # "none"
           /\ WithPosition(r).marked = r.marked /\ WithPosition(r).looks = r.looks
           /\ r.pos # "none" => WithPosition(r).pos = r.pos
           /\ Walked(r) \in Row /\ Walked(r).pos = "walked"
           /\ Walked(r).marked = r.marked /\ Walked(r).looks = r.looks
BY DEF Row, Marked, Corrected, WithPosition, Walked

LEMMA NewRowIs ==
    NewRow \in Row /\ NewRow.marked /\ NewRow.looks /\ NewRow.pos = "placed"
BY DEF NewRow, Row

Rows == accounts \in [Account -> Row \cup {None}]
\* A step keeps every row, and what is right about it.
Grows ==
    /\ Rows'
    /\ \A a \in Account : accounts[a] # None =>
          /\ accounts'[a] # None
          /\ accounts[a].marked => accounts'[a].marked
          /\ accounts[a].looks => accounts'[a].looks
          /\ accounts[a].pos # "none" => accounts'[a].pos # "none"
          /\ accounts[a].pos = "walked" => accounts'[a].pos = "walked"

---------------------------------------------------------------------------
(* The inductive invariant *)

Tasks == [step : Step, existing : SUBSET Account, unlike : SUBSET Account,
          unplaced : SUBSET Account, created : SUBSET Account,
          named : SUBSET Account, failed : SUBSET Account]

\* What a provisioner has read or done is still so, what it has still to correct
\* is among the accounts it found, and whatever it neither found nor created is
\* among the failed ones.
TaskOK(w) ==
    LET t == task[w]
    IN  /\ t \in Tasks
        /\ t.unlike \subseteq t.existing /\ t.unplaced \subseteq t.existing
        /\ t.named \subseteq t.existing
        /\ t.step \in {"create", "appear", "place", "report"} =>
              \A a \in t.existing \cup t.created : accounts[a] # None /\ accounts[a].marked
        /\ t.step \in {"create", "appear", "place"} =>
              \A a \in t.existing : /\ a \notin t.unlike => accounts[a].looks
                                    /\ a \notin t.unplaced => accounts[a].pos # "none"
        /\ t.step \in {"mark", "load", "create"} => t.named = {}
        /\ t.step \in {"mark", "load"} => t.created = {}
        /\ t.step = "place" => t.unlike = {}
        /\ t.step \in {"appear", "place", "report"} =>
              Account \ t.failed \subseteq t.existing \cup t.created
        /\ t.step = "report" =>
              \A a \in t.named \ t.failed : accounts[a].looks /\ accounts[a].pos # "none"
TasksOK == task \in [Provisioner -> Tasks] /\ \A w \in Provisioner : TaskOK(w)
\* Only accounts that exist have a slot that was or may be activated.
SlotsOK == /\ slots \in [Account -> Slot]
           /\ \A a \in In({"pending"} \cup Live) : accounts[a] # None
IInv == Rows /\ failures \in 0..MaxFailure /\ TasksOK /\ SlotsOK

---------------------------------------------------------------------------
(* The statements *)

LEMMA StepGrows ==
    ASSUME Rows, NEW w \in Provisioner, TaskOK(w), ProvisionStep(w)
    PROVE  Grows
<1> USE ProvisioningAssumption DEF Grows, Rows
<1>1. CASE UNCHANGED accounts
    BY <1>1
<1>2. CASE CorrectSyntheticMarkers(w)
    <2>1. \A a \in Account : accounts'[a] = IF accounts[a] = None THEN None
                                            ELSE Marked(accounts[a])
        BY <1>2 DEF CorrectSyntheticMarkers
    <2>2. \A a \in Account : accounts[a] # None => accounts[a] \in Row
        OBVIOUS
    <2>3. accounts' = [a \in Account |-> accounts'[a]]
        BY <1>2 DEF CorrectSyntheticMarkers
    <2> QED  BY <2>1, <2>2, <2>3, RowOperations
<1>3. CASE CreateChunk(w)
    <2>1. \A a \in Account : accounts'[a] = accounts[a] \/ (accounts[a] = None /\ accounts'[a] = NewRow)
        BY <1>3 DEF CreateChunk
    <2>2. accounts' = [a \in Account |-> accounts'[a]]
        BY <1>3 DEF CreateChunk
    <2> QED  BY <2>1, <2>2, NewRowIs
<1>4. CASE UpdateAppearances(w)
    <2>1. \A a \in Account : accounts'[a] = IF a \in Chunk(task[w].unlike)
                                            THEN Corrected(accounts[a]) ELSE accounts[a]
        BY <1>4 DEF UpdateAppearances
    <2>2. \A a \in Chunk(task[w].unlike) : accounts[a] \in Row
        BY <1>4 DEF UpdateAppearances, TaskOK, At, Chunk, Tasks
    <2>3. accounts' = [a \in Account |-> accounts'[a]]
        BY <1>4 DEF UpdateAppearances
    <2> QED  BY <2>1, <2>2, <2>3, RowOperations
<1>5. CASE InitializePositions(w)
    <2>1. \A a \in Account : accounts'[a] = IF a \in task[w].unplaced
                                            THEN WithPosition(accounts[a]) ELSE accounts[a]
        BY <1>5 DEF InitializePositions
    <2>2. \A a \in task[w].unplaced : accounts[a] \in Row
        BY <1>5 DEF InitializePositions, TaskOK, At, Tasks
    <2>3. accounts' = [a \in Account |-> accounts'[a]]
        BY <1>5 DEF InitializePositions
    <2> QED  BY <2>1, <2>2, <2>3, RowOperations
<1> QED  BY <1>1, <1>2, <1>3, <1>4, <1>5 DEF ProvisionStep, IndexExisting, GiveUp,
            RefusePassword, CreateFails, CreateEnds, CorrectionFails

\* Whoever else improves rows, a provisioner's knowledge stays true.
LEMMA OthersKeep ==
    ASSUME Rows, Grows, NEW w \in Provisioner, TaskOK(w), task'[w] = task[w]
    PROVE  TaskOK(w)'
BY DEF Grows, TaskOK, Rows, Tasks

\* What a provisioner notes down of its statement is true.
LEMMA StepNotes ==
    ASSUME Rows, Grows, NEW w \in Provisioner, TaskOK(w), task \in [Provisioner -> Tasks],
           ProvisionStep(w)
    PROVE  TaskOK(w)' /\ \E t \in Tasks : task' = [task EXCEPT ![w] = t]
<1> USE ProvisioningAssumption DEF At, Advance, Tasks, Step
<1>1. CASE CorrectSyntheticMarkers(w)
    BY <1>1 DEF CorrectSyntheticMarkers, TaskOK, Grows, Rows
<1>2. CASE GiveUp(w)
    BY <1>2 DEF GiveUp, TaskOK, Grows, Rows
<1>3. CASE IndexExisting(w)
    <2> DEFINE t == [task[w] EXCEPT
                   !.step     = "create",
                   !.existing = Loaded,
                   !.unlike   = {a \in Loaded : ~accounts[a].looks},
                   !.unplaced = {a \in Loaded : accounts[a].pos = "none"}]
    <2>1. task' = [task EXCEPT ![w] = t] /\ At(w, "load") /\ UNCHANGED accounts
        BY <1>3 DEF IndexExisting
    <2>2. t \in Tasks
        BY DEF Loaded
    <2>3. /\ t.existing = Loaded /\ t.created = task[w].created
          /\ t.unlike = {a \in Loaded : ~accounts[a].looks}
          /\ t.unplaced = {a \in Loaded : accounts[a].pos = "none"}
          /\ t.named = task[w].named /\ t.step = "create"
        OBVIOUS
    <2> HIDE DEF t
    <2>5. task'[w] = t
        BY <2>1
    <2>6. TaskOK(w)'
        BY <2>1, <2>2, <2>3, <2>5 DEF TaskOK, Loaded
    <2> QED  BY <2>1, <2>2, <2>6
<1>4. CASE RefusePassword(w)
    BY <1>4 DEF RefusePassword, TaskOK, Grows, Rows, ToCreate
<1>5. CASE CreateChunk(w)
    <2> DEFINE C == Chunk(Uncreated(w))
               t == [task[w] EXCEPT !.created = task[w].created \cup C]
    <2>1. task' = [task EXCEPT ![w] = t] /\ At(w, "create")
        BY <1>5 DEF CreateChunk
    <2>2. C \subseteq Account
        BY DEF Chunk, Uncreated, ToCreate
    <2>3. t \in Tasks
        BY <2>2
    <2>4. /\ t.existing = task[w].existing /\ t.created = task[w].created \cup C
          /\ t.unlike = task[w].unlike /\ t.unplaced = task[w].unplaced
          /\ t.named = task[w].named /\ t.step = "create"
        BY <2>1
    <2>5. \A a \in C : accounts'[a] = NewRow
        BY <1>5, <2>2 DEF CreateChunk
    <2> HIDE DEF C, t
    <2>6. \A a \in C : accounts'[a] # None /\ accounts'[a].marked
        BY <2>5, NewRowIs
    <2>7. task'[w] = t
        BY <2>1
    <2>8. TaskOK(w)'
        BY <2>1, <2>3, <2>4, <2>6, <2>7 DEF TaskOK, Grows
    <2> QED  BY <2>1, <2>3, <2>8
<1>6. CASE CreateFails(w)
    BY <1>6 DEF CreateFails, TaskOK, Grows, Rows, Phase2, ToCreate, Uncreated
<1>7. CASE CreateEnds(w)
    BY <1>7 DEF CreateEnds, TaskOK, Grows, Rows, Phase2, ToCreate, Uncreated
<1>8. CASE UpdateAppearances(w)
    <2> DEFINE C == Chunk(task[w].unlike)
               t == [task[w] EXCEPT !.unlike = task[w].unlike \ C,
                                    !.step = IF C = task[w].unlike THEN "place" ELSE "appear"]
    <2>1. task' = [task EXCEPT ![w] = t] /\ At(w, "appear")
        BY <1>8 DEF UpdateAppearances
    <2>2. t \in Tasks
        OBVIOUS
    <2>3. /\ t.existing = task[w].existing /\ t.created = task[w].created
          /\ t.unlike = task[w].unlike \ C /\ t.unplaced = task[w].unplaced
          /\ t.named = task[w].named /\ t.failed = task[w].failed
          /\ t.step = IF C = task[w].unlike THEN "place" ELSE "appear"
        OBVIOUS
    <2>4. \A a \in C : a \in Account /\ accounts'[a].looks
        <3>1. \A a \in C : a \in Account /\ accounts[a] \in Row /\ accounts'[a] = Corrected(accounts[a])
            BY <1>8 DEF UpdateAppearances, TaskOK, Rows, Chunk
        <3> QED  BY <3>1, RowOperations
    <2> HIDE DEF C, t
    <2> QED  BY <2>1, <2>2, <2>3, <2>4 DEF TaskOK, Grows
<1>9. CASE InitializePositions(w)
    <2> DEFINE t == [task[w] EXCEPT !.step = "report"]
    <2>1. task' = [task EXCEPT ![w] = t] /\ At(w, "place")
        BY <1>9 DEF InitializePositions
    <2>2. t \in Tasks
        OBVIOUS
    <2>3. /\ t.existing = task[w].existing /\ t.created = task[w].created
          /\ t.unlike = task[w].unlike /\ t.unplaced = task[w].unplaced
          /\ t.named = task[w].named /\ t.failed = task[w].failed /\ t.step = "report"
        OBVIOUS
    <2>4. \A a \in task[w].unplaced : a \in Account /\ accounts'[a].pos # "none"
        <3>1. \A a \in task[w].unplaced : /\ a \in Account /\ accounts[a] \in Row
                                          /\ accounts'[a] = WithPosition(accounts[a])
            BY <1>9 DEF InitializePositions, TaskOK, Rows
        <3> QED  BY <3>1, RowOperations
    <2> HIDE DEF t
    <2>5. task'[w] = t
        BY <2>1
    <2>6. TaskOK(w)'
        BY <2>1, <2>2, <2>3, <2>4, <2>5 DEF TaskOK, Grows
    <2> QED  BY <2>1, <2>2, <2>6
<1>10. CASE CorrectionFails(w)
    BY <1>10 DEF CorrectionFails, TaskOK, Grows, Rows, FailExisting
<1> QED  BY <1>1, <1>2, <1>3, <1>4, <1>5, <1>6, <1>7, <1>8, <1>9, <1>10 DEF ProvisionStep

\* The steps of a provisioner, or of the game, as far as the rows go.
Provisions ==
    \/ \E w \in Provisioner : Provision(w) \/ ProvisionStep(w) \/ Forget(w)
    \/ \E a \in Account : SavePosition(a)
    \/ /\ task' = [w \in Provisioner |-> Idle]
       /\ UNCHANGED accounts /\ failures' \in {failures, failures + 1}
       /\ failures' # failures => failures < MaxFailure
    \/ UNCHANGED provVars

LEMMA Classified ==
    ASSUME [Next]_vars PROVE Provisions
<1> USE ManagerAssumption DEF Provisions
<1>1. CASE StartLoaded \/ MergeProvisionResult \/ FailUnavailable
    BY <1>1 DEF StartLoaded, MergeProvisionResult, FailUnavailable, EndProvisioning, Fail
<1>2. CASE StartProvisioned \/ DropResult \/ ProcessEnds \/ ServiceProvisions
    BY <1>2 DEF StartProvisioned, DropResult, ProcessEnds, ServiceProvisions
<1>3. CASE Tick \/ Shutdown \/ CloseNext \/ AwaitDone \/ ShutdownEnds
    BY <1>3 DEF Tick, Shutdown, CloseNext, Change, AwaitDone, ShutdownEnds, provVars
<1>4. CASE \E u \in 0..TargetCount : Send(u) \/ DropClient(u)
    BY <1>4 DEF Send, DropClient, Change
<1>5. CASE \E a \in Account : DrainOne(a) \/ DrainEnds(a)
    BY <1>5 DEF DrainOne, DrainEnds, Change
<1>6. CASE UNCHANGED vars
    BY <1>6 DEF vars
<1>7. CASE UnderWay /\ UNCHANGED mgrVars /\
          \/ \E w \in Provisioner \ {Service} : Provision(w) \/ ProvisionStep(w) \/ Forget(w)
          \/ \E a \in Account : SavePosition(a)
    BY <1>7
<1> QED  BY <1>1, <1>2, <1>3, <1>4, <1>5, <1>6, <1>7 DEF Next

LEMMA IdleOK ==
    ASSUME NEW w \in Provisioner, NEW step \in {"idle", "mark"},
           task'[w] = [Idle EXCEPT !.step = step]
    PROVE  TaskOK(w)' /\ task'[w] \in Tasks
<1>1. task'[w] = [step |-> step, existing |-> {}, unlike |-> {}, unplaced |-> {},
                  created |-> {}, named |-> {}, failed |-> {}]
    BY DEF Idle
<1> QED  BY <1>1 DEF TaskOK, Tasks, Step

LEMMA ProvisionsKeep ==
    ASSUME Rows, failures \in 0..MaxFailure, TasksOK, Provisions
    PROVE  Grows /\ failures' \in 0..MaxFailure /\ TasksOK'
<1> USE ProvisioningAssumption
<1>1. UNCHANGED accounts /\ Rows => Grows
    BY DEF Grows, Rows
<1>2. CASE \E w \in Provisioner : Provision(w) \/ Forget(w)
    <2>1. PICK w \in Provisioner, step \in {"idle", "mark"} :
              task' = [task EXCEPT ![w] = [Idle EXCEPT !.step = step]]
        BY <1>2 DEF Provision, Forget, Advance, Idle
    <2>2. UNCHANGED <<accounts, failures>>
        BY <1>2 DEF Provision, Forget
    <2>3. TaskOK(w)' /\ task'[w] \in Tasks
        BY <2>1, IdleOK DEF TasksOK
    <2>4. \A v \in Provisioner \ {w} : task'[v] = task[v] /\ TaskOK(v)'
        BY <2>1, <2>2, <1>1, OthersKeep DEF TasksOK
    <2>5. task' = [v \in Provisioner |-> task'[v]]
        BY <2>1 DEF TasksOK
    <2> QED  BY <1>1, <2>2, <2>3, <2>4, <2>5 DEF TasksOK
<1>3. CASE \E w \in Provisioner : ProvisionStep(w)
    <2>1. PICK w \in Provisioner : ProvisionStep(w)
        BY <1>3
    <2>2. Grows /\ TaskOK(w)
        BY <2>1, StepGrows DEF TasksOK
    <2>3. PICK t \in Tasks : task' = [task EXCEPT ![w] = t]
        BY <2>1, <2>2, StepNotes DEF TasksOK
    <2>4. TaskOK(w)'
        BY <2>1, <2>2, StepNotes DEF TasksOK
    <2>5. \A v \in Provisioner \ {w} : TaskOK(v)'
        BY <2>2, <2>3, OthersKeep DEF TasksOK
    <2>6. task' \in [Provisioner -> Tasks]
        BY <2>3 DEF TasksOK
    <2>7. failures' \in 0..MaxFailure
        BY <2>1 DEF ProvisionStep, CorrectSyntheticMarkers, GiveUp, IndexExisting,
               RefusePassword, CreateChunk, CreateFails, CreateEnds, UpdateAppearances,
               InitializePositions, CorrectionFails, Fail
    <2> QED  BY <2>2, <2>4, <2>5, <2>6, <2>7 DEF TasksOK
<1>4. CASE \E a \in Account : SavePosition(a)
    <2>1. PICK a \in Account : accounts[a] # None /\
              accounts' = [accounts EXCEPT ![a] = Walked(accounts[a])]
        BY <1>4 DEF SavePosition
    <2>2. accounts[a] \in Row
        BY <2>1 DEF Rows
    <2>3. Grows
        BY <2>1, <2>2, RowOperations DEF Grows, Rows
    <2>4. UNCHANGED <<task, failures>>
        BY <1>4 DEF SavePosition
    <2> QED  BY <2>3, <2>4, OthersKeep DEF TasksOK
<1>5. CASE /\ task' = [w \in Provisioner |-> Idle]
           /\ UNCHANGED accounts /\ failures' \in {failures, failures + 1}
           /\ failures' # failures => failures < MaxFailure
    <2>1. Idle = [Idle EXCEPT !.step = "idle"]
        BY DEF Idle
    <2>2. \A w \in Provisioner : TaskOK(w)' /\ task'[w] \in Tasks
        BY <1>5, <2>1, IdleOK
    <2>3. TasksOK'
        BY <1>5, <2>2 DEF TasksOK
    <2>4. failures' \in 0..MaxFailure
        BY <1>5
    <2> QED  BY <1>1, <1>5, <2>3, <2>4
<1>6. CASE UNCHANGED provVars
    BY <1>1, <1>6, OthersKeep DEF provVars, TasksOK
<1> QED  BY <1>2, <1>3, <1>4, <1>5, <1>6 DEF Provisions

---------------------------------------------------------------------------
(* The slots *)

LEMMA SlotOperations ==
    /\ Unavailable \in Slot /\ Unavailable.state = "unavailable"
    /\ \A n \in 0..TargetCount : Pending(n) \in Slot /\ Pending(n).state = "pending"
    /\ \A err \in {"none", "account", "notready", "disconnected"} :
          Failed(err) \in Slot /\ Failed(err).state = "failed"
<1> USE ProvisioningAssumption, ManagerAssumption DEF Slot, State
<1>1. 0 \in 0..TargetCount /\ 0 \in 0..ReadinessTimeout
    OBVIOUS
<1>2. Unavailable \in Slot /\ Unavailable.state = "unavailable"
    BY <1>1 DEF Unavailable
<1>3. ASSUME NEW n \in 0..TargetCount
      PROVE  Pending(n) \in Slot /\ Pending(n).state = "pending"
    BY <1>1 DEF Unavailable, Pending
<1>4. ASSUME NEW err \in {"none", "account", "notready", "disconnected"}
      PROVE  Failed(err) \in Slot /\ Failed(err).state = "failed"
    BY <1>1 DEF Unavailable, Failed
<1> QED  BY <1>2, <1>3, <1>4

\* A tick gives no account a slot that had none.
LEMMA TickSlots ==
    ASSUME slots \in [Account -> Slot], NEW a \in Account
    PROVE  /\ ProcessedSlot(a) \in Slot
           /\ ProcessedSlot(a).state \in {"pending"} \cup Live =>
                 slots[a].state \in {"pending"} \cup Live
<1> USE ManagerAssumption DEF In, Live
<1>1. slots[a] \in Slot
    OBVIOUS
<1>2. CASE a \in Disconnected \cup NeverReady
    BY <1>2, SlotOperations DEF ProcessedSlot
<1>3. CASE a \in BecomesActive \ (Disconnected \cup NeverReady)
    <2>1. ProcessedSlot(a) = [slots[a] EXCEPT !.state = "active", !.age = 0]
        BY <1>3 DEF ProcessedSlot
    <2>2. slots[a].state = "activating" /\ 0 \in 0..ReadinessTimeout
        BY <1>3 DEF BecomesActive
    <2>3. [slots[a] EXCEPT !.state = "active", !.age = 0] \in Slot
        BY <1>1, <2>2 DEF Slot, State
    <2> QED  BY <2>1, <2>2, <2>3
<1>4. CASE a \in Activated \ (BecomesActive \cup Disconnected \cup NeverReady)
    <2>1. ProcessedSlot(a) = [slots[a] EXCEPT !.state = "activating", !.held = TRUE]
        BY <1>4 DEF ProcessedSlot
    <2>2. slots[a].state = "pending"
        BY <1>4 DEF Activated
    <2> QED  BY <1>1, <2>1, <2>2 DEF Slot, State
<1>5. CASE /\ a \notin Disconnected \cup NeverReady \cup BecomesActive \cup Activated
           /\ slots[a].state = "activating"
    <2>1. ProcessedSlot(a) = [slots[a] EXCEPT !.age = slots[a].age + 1]
        BY <1>5 DEF ProcessedSlot
    <2>2. slots[a].age # ReadinessTimeout
        BY <1>5 DEF NeverReady, BecomesActive
    <2>3. slots[a].age + 1 \in 0..ReadinessTimeout
        BY <1>1, <2>2 DEF Slot
    <2> QED  BY <1>1, <1>5, <2>1, <2>3 DEF Slot, State
<1>6. CASE /\ a \notin Disconnected \cup NeverReady \cup BecomesActive \cup Activated
           /\ slots[a].state # "activating"
    BY <1>1, <1>6 DEF ProcessedSlot
<1> QED  BY <1>2, <1>3, <1>4, <1>5, <1>6

LEMMA SlotsStep ==
    ASSUME TasksOK, SlotsOK, Grows, [Next]_vars
    PROVE  SlotsOK'
<1> USE ProvisioningAssumption, ManagerAssumption DEF SlotsOK, In
<1>1. CASE UNCHANGED slots
    BY <1>1 DEF Grows
<1>2. CASE StartLoaded
    <2>1. \A a \in Account : slots'[a] = Failed("account") \/
              (a \in Loaded /\ slots'[a] = Pending(a))
        BY <1>2 DEF StartLoaded
    <2>2. slots' = [a \in Account |-> slots'[a]]
        BY <1>2 DEF StartLoaded
    <2>3. \A a \in Account : a \in 0..TargetCount
        BY DEF Account
    <2>4. \A a \in Loaded : accounts'[a] # None
        BY DEF Grows, Loaded
    <2> QED  BY <2>1, <2>2, <2>3, <2>4, SlotOperations DEF Live
<1>3. CASE MergeProvisionResult
    <2>1. \A a \in Account : slots'[a] = SlotOf(a, task[Service])
        BY <1>3 DEF MergeProvisionResult
    <2>2. slots' = [a \in Account |-> slots'[a]]
        BY <1>3 DEF MergeProvisionResult
    <2>3. \A a \in Account \ task[Service].failed : accounts[a] # None
        BY <1>3 DEF MergeProvisionResult, TasksOK, TaskOK, At
    <2>4. \A a \in Account : a \in 0..TargetCount /\ 0 \in 0..TargetCount
        BY DEF Account
    <2>5. \A a \in Account :
              /\ slots'[a] \in Slot
              /\ slots'[a].state \in {"pending"} \cup Live => a \notin task[Service].failed
        BY <2>1, <2>4, SlotOperations DEF SlotOf, Live
    <2> QED  BY <2>2, <2>3, <2>5 DEF Grows
<1>4. CASE FailUnavailable
    <2>1. \A a \in Account : slots'[a] \in {slots[a], Failed("account")}
        BY <1>4 DEF FailUnavailable, FailSlotUnavailable
    <2>2. slots' = [a \in Account |-> slots'[a]]
        BY <1>4 DEF FailUnavailable
    <2> QED  BY <2>1, <2>2, SlotOperations DEF Grows, Live
<1>5. CASE Tick
    <2>1. slots' = [a \in Account |-> ProcessedSlot(a)]
        BY <1>5 DEF Tick
    <2>2. \A a \in Account : accounts[a] # None => accounts'[a] # None
        BY DEF Grows
    <2>3. \A a \in Account : slots'[a] = ProcessedSlot(a)
        BY <2>1
    <2> QED  BY <2>1, <2>2, <2>3, TickSlots
<1>6. CASE AwaitDone
    <2>1. PICK b : slots' = [slots EXCEPT ![b] = [slots[b] EXCEPT !.held = FALSE]]
        BY <1>6 DEF AwaitDone
    <2>2. CASE b \notin Account
        <3>1. UNCHANGED slots
            BY <2>1, <2>2
        <3> QED  BY <3>1, <1>1
    <2>3. CASE b \in Account
        <3>1. slots[b] \in Slot
            BY <2>3
        <3>2. /\ [slots[b] EXCEPT !.held = FALSE] \in Slot
              /\ [slots[b] EXCEPT !.held = FALSE].state = slots[b].state
            BY <3>1 DEF Slot
        <3> QED  BY <2>1, <2>3, <3>2 DEF Grows
    <2> QED  BY <2>2, <2>3
<1>7. CASE ProcessEnds
    <2>1. slots' = [a \in Account |-> Unavailable]
        BY <1>7 DEF ProcessEnds
    <2> QED  BY <2>1, SlotOperations DEF Live
<1>8. CASE \/ StartProvisioned \/ DropResult \/ Shutdown \/ CloseNext \/ ShutdownEnds
           \/ ServiceProvisions
    BY <1>8, <1>1 DEF StartProvisioned, DropResult, Shutdown, CloseNext, Change, ShutdownEnds,
           ServiceProvisions, mgrVars
<1>9. CASE \E u \in 0..TargetCount : Send(u) \/ DropClient(u)
    BY <1>9, <1>1 DEF Send, DropClient, Change
<1>10. CASE \E a \in Account : DrainOne(a) \/ DrainEnds(a)
    BY <1>10, <1>1 DEF DrainOne, DrainEnds, Change
<1>11. CASE UNCHANGED vars \/ UNCHANGED mgrVars
    BY <1>11, <1>1 DEF vars, mgrVars
<1> QED  BY <1>2, <1>3, <1>4, <1>5, <1>6, <1>7, <1>8, <1>9, <1>10, <1>11 DEF Next

---------------------------------------------------------------------------
LEMMA Initially == Init => IInv
<1> SUFFICES ASSUME Init PROVE IInv
    OBVIOUS
<1> USE ProvisioningAssumption DEF Init, ProvInit
<1>1. Rows /\ failures \in 0..MaxFailure
    BY DEF Rows
<1>2. TasksOK
    <2>1. Idle \in Tasks
        BY DEF Idle, Tasks, Step
    <2>2. \A w \in Provisioner : task[w] = Idle
        OBVIOUS
    <2>3. \A w \in Provisioner : TaskOK(w)
        BY <2>1, <2>2 DEF TaskOK, Idle
    <2> QED  BY <2>1, <2>3 DEF TasksOK
<1>3. SlotsOK
    BY SlotOperations DEF SlotsOK, In, Live
<1> QED  BY <1>1, <1>2, <1>3 DEF IInv

LEMMA InvariantStep == IInv /\ [Next]_vars => IInv' /\ Grows
<1> SUFFICES ASSUME IInv, [Next]_vars PROVE IInv' /\ Grows
    OBVIOUS
<1>1. Grows /\ failures' \in 0..MaxFailure /\ TasksOK'
    BY Classified, ProvisionsKeep DEF IInv
<1>2. SlotsOK'
    BY <1>1, SlotsStep DEF IInv
<1> QED  BY <1>1, <1>2 DEF IInv, Grows

LEMMA Invariance == Spec => []IInv
BY Initially, InvariantStep, PTL DEF Spec

\* What Provision reports of an account is so, and mergeProvisionResult and the
\* ramp give only accounts that exist a slot that may be activated, whatever
\* other provisioners, failing statements and restarts do meanwhile.
THEOREM ReadyAccounts == Spec => []AccountsReady
<1>1. IInv => AccountsReady
    <2> SUFFICES ASSUME IInv PROVE AccountsReady
        OBVIOUS
    <2>1. ASSUME NEW w \in Provisioner, At(w, "report"), NEW a \in Account \ task[w].failed
          PROVE  accounts[a] # None /\ (a \in task[w].named => Complete(a))
        <3>1. accounts[a] # None /\ accounts[a].marked
            BY <2>1 DEF IInv, TasksOK, TaskOK, At
        <3>2. accounts[a] \in Row
            BY <3>1 DEF IInv, Rows
        <3>3. a \in task[w].named => accounts[a].looks /\ accounts[a].pos # "none"
            BY <2>1 DEF IInv, TasksOK, TaskOK, At
        <3> QED  BY <3>1, <3>2, <3>3 DEF Complete, Row
    <2> QED  BY <2>1 DEF IInv, SlotsOK, AccountsReady, ReportTrue
<1> QED  BY <1>1, Invariance, PTL

\* No statement of a provisioner resets a position that the game saved, nor
\* deletes an account (BulkInitializePositions' IS NULL).
THEOREM PositionsSafe == Spec => PositionsKept
<1>1. IInv /\ [Next]_vars => [\A a \in Account : accounts[a] # None =>
          /\ accounts'[a] # None
          /\ accounts[a].pos = "walked" => accounts'[a].pos = "walked"]_accounts
    BY InvariantStep DEF Grows
<1> QED  BY <1>1, Invariance, PTL DEF Spec, PositionsKept

---------------------------------------------------------------------------
(* The clients *)

\* A non-empty set of naturals has a least element.
LEMMA LeastNatural ==
    ASSUME NEW T, T \subseteq Nat, T # {}
    PROVE  \E m \in T : \A n \in T : m <= n
<1>1. PICK m \in T : \A n \in T : <<n, m>> \notin OpToRel(<, Nat)
    BY NatLessThanWellFounded, WFMin
<1>2. \A n \in T : <<n, m>> \notin {pair \in Nat \X Nat : pair[1] < pair[2]}
    BY <1>1, Zenon DEF OpToRel
<1>3. ASSUME NEW n \in T
      PROVE  m <= n
    <2>1. <<n, m>> \in Nat \X Nat /\ ~(n < m)
        BY <1>2
    <2> QED  BY <2>1
<1> QED  BY <1>3

LEMMA Greatest ==
    ASSUME NEW S \in SUBSET Account, S # {}
    PROVE  \E m \in S : \A a \in S : a <= m
<1> DEFINE T == {TargetCount - a : a \in S}
<1>1. TargetCount \in Nat /\ \A a \in S : a \in 1..TargetCount
    BY ProvisioningAssumption DEF Account
<1>2. T \subseteq Nat /\ T # {}
    BY <1>1
<1>3. PICK k \in T : \A n \in T : k <= n
    <2> HIDE DEF T
    <2> QED  BY <1>2, LeastNatural
<1>4. PICK m \in S : k = TargetCount - m
    OBVIOUS
<1>5. \A a \in S : TargetCount - m <= TargetCount - a
    BY <1>3, <1>4
<1> QED  BY <1>1, <1>5

LEMMA MaxIsMember ==
    ASSUME NEW S \in SUBSET Account, S # {}
    PROVE  Max(S) \in S
<1>1. PICK x \in S : \A y \in S : y <= x
    BY Greatest
<1>2. \A y \in S : x >= y
    BY <1>1, ProvisioningAssumption DEF Account
<1> QED  BY <1>2 DEF Max

Conn == [queued : Nat, drained : Nat, open : BOOLEAN, done : BOOLEAN]

\* A held slot has a client; the current clients are those of the held slots that
\* are open.
ClientsOK ==
    /\ conn \in [Account -> Conn \cup {None}]
    /\ current \in [0..TargetCount -> Account \cup {None}]
    /\ \A a \in Held : conn[a] \in Conn
    /\ \A u \in 0..TargetCount : current[u] # None =>
          /\ current[u] \in Held /\ slots[current[u]].user = u
          /\ conn[current[u]].open
    /\ \A a \in Account : conn[a] # None /\ conn[a].open => current[slots[a].user] = a

\* What each phase of the manager has done: no slot is in use before a start nor
\* while the accounts are provisioned, a running manager holds the clients of all
\* live slots, and a stopping one lets go of a client when its drain has ended.
PhaseOK ==
    /\ mgr = "off" => \A a \in Account : slots[a] = Unavailable
    /\ mgr = "running" => Held = In(Live)
    /\ mgr = "running" /\ ~At(Service, "idle") =>
          \A a \in Account : slots[a].state = "unavailable"
    /\ mgr \in {"stopping", "done"} =>
          /\ Held \subseteq In(Live)
          /\ \A a \in In(Live) : slots[a].held \/ conn[a].done
    /\ mgr = "done" => Held = {}

LEMMA FailedIs ==
    \A err \in {"notready", "disconnected"} :
        Failed(err).state = "failed" /\ Failed(err).held = FALSE
BY DEF Failed, Unavailable

\* What a tick makes of a slot: the failed ones let go of their clients.
LEMMA TickSlot ==
    ASSUME slots \in [Account -> Slot], NEW a \in Account
    PROVE  /\ a \in Disconnected \cup NeverReady =>
                 a \in In(Live) /\ ProcessedSlot(a).state = "failed" /\ ~ProcessedSlot(a).held
           /\ a \in Activated =>
                 /\ a \notin In(Live)
                 /\ ProcessedSlot(a).state = "activating" /\ ProcessedSlot(a).held
                 /\ ProcessedSlot(a).user = slots[a].user
           /\ a \in In(Live) \ (Disconnected \cup NeverReady) =>
                 /\ ProcessedSlot(a).state \in Live
                 /\ ProcessedSlot(a).held = slots[a].held
                 /\ ProcessedSlot(a).user = slots[a].user
           /\ a \notin In(Live) \cup Activated => ProcessedSlot(a) = slots[a]
<1> USE DEF In, Live
<1>1. slots[a] \in Slot
    OBVIOUS
<1>2. a \in Activated => slots[a].state = "pending"
    BY DEF Activated
<1>3. a \in Disconnected => slots[a].state = "active"
    BY DEF Disconnected
<1>4. a \in NeverReady \cup BecomesActive => slots[a].state = "activating"
    BY DEF NeverReady, BecomesActive
<1>5. CASE a \in Disconnected \cup NeverReady
    BY <1>2, <1>3, <1>4, <1>5, FailedIs DEF ProcessedSlot
<1>6. CASE a \in Activated
    <2>1. ProcessedSlot(a) = [slots[a] EXCEPT !.state = "activating", !.held = TRUE]
        BY <1>2, <1>3, <1>4, <1>6 DEF ProcessedSlot
    <2> QED  BY <1>1, <1>2, <1>3, <1>4, <1>6, <2>1 DEF Slot
<1>7. CASE a \in In(Live) \ (Disconnected \cup NeverReady)
    <2>1. ProcessedSlot(a) \in {slots[a], [slots[a] EXCEPT !.state = "active", !.age = 0],
                                [slots[a] EXCEPT !.age = @ + 1]}
        BY <1>2, <1>7 DEF ProcessedSlot
    <2> QED  BY <1>1, <1>2, <1>7, <2>1 DEF Slot
<1>8. CASE a \notin In(Live) \cup Activated
    BY <1>3, <1>4, <1>8 DEF ProcessedSlot
<1> QED  BY <1>5, <1>6, <1>7, <1>8

LEMMA NewClientIs ==
    ASSUME NEW open \in BOOLEAN
    PROVE  NewClient(open) \in Conn /\ NewClient(open).open = open
BY ManagerAssumption DEF NewClient, Conn

\* A tick registers the clients it opens and unregisters those it lets go of; who
\* is replaced is closed.
LEMMA TickClients ==
    ASSUME SlotsOK, ClientsOK, PhaseOK, Tick
    PROVE  ClientsOK' /\ PhaseOK'
<1> DEFINE gone == Disconnected \cup NeverReady
           Of(u) == {a \in Activated : slots[a].user = u}
           Replaced(a) == \E b \in Activated : current[slots[b].user] = a
<1> USE ManagerAssumption, ProvisioningAssumption
<1>1. /\ mgr = "running" /\ mgr' = "running" /\ task' = task
      /\ slots \in [Account -> Slot] /\ Held = In(Live)
      /\ slots' = [a \in Account |-> ProcessedSlot(a)]
    BY DEF Tick, SlotsOK, PhaseOK, provVars
<1>2. \A a \in Account : slots'[a] = ProcessedSlot(a) /\ slots[a].user \in 0..TargetCount
    BY <1>1 DEF Slot
<1>3. /\ gone \subseteq Held /\ Activated \subseteq Account \ Held
      /\ Held' = (Held \ gone) \cup Activated
      /\ In(Live)' = Held'
      /\ \A a \in Held' : slots'[a].user = slots[a].user
    <2>1. gone \subseteq Account /\ Activated \subseteq Account /\ In(Live) \subseteq Account
        BY DEF Disconnected, NeverReady, Activated, In
    <2>2. Held' = {a \in Account : slots'[a].held} /\ In(Live)' = {a \in Account : slots'[a].state \in Live}
        BY DEF Held, In, Live
    <2>3. \A a \in Account \ In(Live) : ~slots[a].held /\ slots[a].state \notin Live
        BY <1>1 DEF Held, In
    <2>4. \A a \in In(Live) : slots[a].held
        BY <1>1 DEF Held
    <2>5. Live = {"activating", "active"}
        BY DEF Live
    <2> QED  BY <1>1, <1>2, <2>1, <2>2, <2>3, <2>4, <2>5, TickSlot
<1>4. /\ current' = Registered(Activated, Unregistered(gone))
      /\ conn' = [a \in Account |->
             IF a \in Activated THEN NewClient(current'[slots[a].user] = a)
             ELSE IF conn[a] # None /\ (a \in gone \/ Replaced(a))
             THEN [conn[a] EXCEPT !.open = FALSE]
             ELSE conn[a]]
    BY DEF Tick, Unregisters
<1>5. \A u \in 0..TargetCount :
          /\ Of(u) # {} => current'[u] \in Of(u)
          /\ Of(u) = {} => current'[u] = IF current[u] \in gone THEN None ELSE current[u]
    <2>1. DOMAIN current = 0..TargetCount
        BY DEF ClientsOK
    <2>2. ASSUME NEW u \in 0..TargetCount
          PROVE  current'[u] = IF Of(u) = {} THEN Unregistered(gone)[u] ELSE Max(Of(u))
        BY <1>4, <2>1 DEF Registered, Unregistered
    <2>3. ASSUME NEW u \in 0..TargetCount
          PROVE  Unregistered(gone)[u] = IF current[u] \in gone THEN None ELSE current[u]
        BY <2>1 DEF Unregistered
    <2>4. ASSUME NEW u \in 0..TargetCount, Of(u) # {}
          PROVE  Max(Of(u)) \in Of(u)
        <3>1. Of(u) \in SUBSET Account
            BY <1>3
        <3> HIDE DEF Of
        <3> QED  BY <2>4, <3>1, MaxIsMember
    <2> HIDE DEF Of, gone
    <2> QED  BY <2>2, <2>3, <2>4
<1>6. current' \in [0..TargetCount -> Account \cup {None}]
    <2>1. current' = [u \in 0..TargetCount |-> current'[u]]
        BY <1>4 DEF Registered, Unregistered, ClientsOK
    <2>2. \A u \in 0..TargetCount : current'[u] \in Account \cup {None}
        BY <1>3, <1>5 DEF ClientsOK
    <2> QED  BY <2>1, <2>2
<1>7. \A a \in Activated : conn'[a] \in Conn /\ conn'[a].open = (current'[slots[a].user] = a)
    BY <1>3, <1>4, NewClientIs
<1>8. \A a \in Account \ Activated :
          /\ conn[a] = None => conn'[a] = None
          /\ conn[a] # None /\ (a \in gone \/ Replaced(a)) =>
                conn'[a] \in Conn /\ conn'[a].open = FALSE
          /\ a \notin gone /\ ~Replaced(a) => conn'[a] = conn[a]
    <2>1. \A c \in Conn : [c EXCEPT !.open = FALSE] \in Conn /\ [c EXCEPT !.open = FALSE].open = FALSE
        BY DEF Conn
    <2> QED  BY <1>4, <2>1 DEF ClientsOK
<1>9. conn' \in [Account -> Conn \cup {None}] /\ \A a \in Held' : conn'[a] \in Conn
    <2>1. conn' = [a \in Account |-> conn'[a]]
        BY <1>4
    <2>2. \A a \in Account : conn'[a] \in Conn \cup {None}
        BY <1>7, <1>8 DEF ClientsOK
    <2>3. \A a \in Held' : conn'[a] \in Conn
        BY <1>3, <1>7, <1>8 DEF ClientsOK, Held
    <2> QED  BY <2>1, <2>2, <2>3
<1> HIDE DEF gone, Of, Replaced
<1>10. ASSUME NEW u \in 0..TargetCount, current'[u] # None
       PROVE  current'[u] \in Held' /\ slots'[current'[u]].user = u /\ conn'[current'[u]].open
    <2>1. CASE Of(u) # {}
        <3>1. current'[u] \in Activated /\ slots[current'[u]].user = u
            BY <1>5, <2>1 DEF Of
        <3> QED  BY <1>3, <1>7, <3>1
    <2>2. CASE Of(u) = {}
        <3>1. current'[u] = current[u] /\ current[u] \notin gone
            BY <1>5, <1>10, <2>2
        <3>2. /\ current[u] \in Held /\ slots[current[u]].user = u
              /\ conn[current[u]].open
            BY <1>10, <3>1 DEF ClientsOK
        <3>3. ~Replaced(current[u])
            <4>1. SUFFICES ASSUME NEW b \in Activated, current[slots[b].user] = current[u]
                           PROVE  FALSE
                BY DEF Replaced
            <4>2. slots[b].user \in 0..TargetCount
                BY <1>2, <1>3
            <4>3. slots[current[u]].user = slots[b].user
                BY <1>10, <3>1, <4>1, <4>2 DEF ClientsOK
            <4> QED  BY <2>2, <3>2, <4>3 DEF Of
        <3> QED  BY <1>3, <1>8, <3>1, <3>2, <3>3 DEF Held
    <2> QED  BY <2>1, <2>2
<1>11. ASSUME NEW a \in Account, conn'[a] # None, conn'[a].open
       PROVE  current'[slots'[a].user] = a
    <2>1. CASE a \in Activated
        BY <1>3, <1>7, <1>11, <2>1
    <2>2. CASE a \notin Activated
        <3>1. conn'[a] = conn[a] /\ a \notin gone /\ ~Replaced(a)
            BY <1>8, <1>11, <2>2
        <3>2. current[slots[a].user] = a
            BY <1>11, <3>1 DEF ClientsOK
        <3>3. a \in Held
            BY <1>2, <3>2 DEF ClientsOK
        <3>4. Of(slots[a].user) = {}
            BY <3>1, <3>2 DEF Of, Replaced
        <3> QED  BY <1>2, <1>3, <1>5, <3>1, <3>2, <3>3, <3>4
    <2> QED  BY <2>1, <2>2
<1>12. ClientsOK'
    BY <1>6, <1>9, <1>10, <1>11 DEF ClientsOK
<1>13. PhaseOK'
    <2>1. ASSUME ~At(Service, "idle"), NEW a \in Account
          PROVE  slots'[a].state = "unavailable"
        <3>1. slots[a].state = "unavailable"
            BY <1>1, <2>1 DEF PhaseOK
        <3>2. a \notin In(Live) \cup Activated
            BY <3>1 DEF In, Live, Activated
        <3> QED  BY <1>1, <1>2, <3>1, <3>2, TickSlot
    <2> QED  BY <1>1, <1>3, <2>1 DEF PhaseOK, At
<1> QED  BY <1>12, <1>13

\* What others do to the rows is of no concern to the clients.
LEMMA Elsewhere ==
    ASSUME ClientsOK, PhaseOK, UNCHANGED mgrVars,
           ~At(Service, "idle")' => ~At(Service, "idle")
    PROVE  ClientsOK' /\ PhaseOK'
<1>1. UNCHANGED <<mgr, slots, conn, current>>
    BY DEF mgrVars
<1> QED  BY <1>1 DEF ClientsOK, PhaseOK, Held, In

\* A start fills slots of which none is in use.
LEMMA StartClients ==
    ASSUME ClientsOK, PhaseOK, SlotsOK,
           mgr' = "running", UNCHANGED <<conn, current>>,
           \A a \in Account : slots[a].state = "unavailable",
           mgr \in {"off", "running"},
           \A a \in Account : slots'[a].state \notin Live /\ ~slots'[a].held,
           ~At(Service, "idle")' => UNCHANGED slots
    PROVE  ClientsOK' /\ PhaseOK'
<1>1. Held = {}
    BY DEF PhaseOK, Held, In, Live, Unavailable
<1>2. \A u \in 0..TargetCount : current[u] = None
    BY <1>1 DEF ClientsOK
<1>3. \A a \in Account : conn[a] # None => ~conn[a].open
    <2> SUFFICES ASSUME NEW a \in Account, conn[a] # None, conn[a].open
                 PROVE  FALSE
        OBVIOUS
    <2>1. current[slots[a].user] = a /\ a # None
        BY ManagerAssumption DEF ClientsOK
    <2>2. slots[a].user \in 0..TargetCount
        BY DEF SlotsOK, Slot
    <2> QED  BY <1>2, <2>1, <2>2
<1>4. Held' = {} /\ In(Live)' = {}
    BY DEF Held, In
<1>5. ClientsOK'
    BY <1>2, <1>3, <1>4 DEF ClientsOK
<1> QED  BY <1>4, <1>5 DEF PhaseOK

LEMMA ClientOperations ==
    ASSUME NEW c \in Conn
    PROVE  /\ [c EXCEPT !.open = FALSE] \in Conn /\ [c EXCEPT !.open = FALSE].open = FALSE
           /\ [c EXCEPT !.open = FALSE].done = c.done
           /\ [c EXCEPT !.done = TRUE] \in Conn /\ [c EXCEPT !.done = TRUE].done
           /\ [c EXCEPT !.done = TRUE].open = c.open
           /\ [c EXCEPT !.queued = @ + 1] \in Conn
           /\ [c EXCEPT !.queued = @ + 1].open = c.open
           /\ [c EXCEPT !.queued = @ + 1].done = c.done
           /\ c.queued > 0 =>
                 /\ [c EXCEPT !.queued = @ - 1, !.drained = @ + 1] \in Conn
                 /\ [c EXCEPT !.queued = @ - 1, !.drained = @ + 1].open = c.open
                 /\ [c EXCEPT !.queued = @ - 1, !.drained = @ + 1].done = c.done
<1>1. c \in [queued : Nat, drained : Nat, open : BOOLEAN, done : BOOLEAN]
    BY DEF Conn
<1>2. c.queued + 1 \in Nat /\ c.drained + 1 \in Nat /\ (c.queued > 0 => c.queued - 1 \in Nat)
    BY <1>1
<1>3. /\ [c EXCEPT !.open = FALSE] \in Conn /\ [c EXCEPT !.open = FALSE].open = FALSE
      /\ [c EXCEPT !.open = FALSE].done = c.done
      /\ [c EXCEPT !.done = TRUE] \in Conn /\ [c EXCEPT !.done = TRUE].done
      /\ [c EXCEPT !.done = TRUE].open = c.open
    BY <1>1 DEF Conn
<1>4. ASSUME NEW q \in Nat, NEW d \in Nat
      PROVE  /\ [c EXCEPT !.queued = q, !.drained = d] \in Conn
             /\ [c EXCEPT !.queued = q, !.drained = d].open = c.open
             /\ [c EXCEPT !.queued = q, !.drained = d].done = c.done
             /\ [c EXCEPT !.queued = q] \in Conn
             /\ [c EXCEPT !.queued = q].open = c.open
             /\ [c EXCEPT !.queued = q].done = c.done
    BY <1>1 DEF Conn
<1> QED  BY <1>2, <1>3, <1>4

\* A drain, and a message, neither open nor close a client and end no less.
LEMMA ClientGoesOn ==
    ASSUME ClientsOK, PhaseOK, NEW a \in Account, NEW c \in Conn,
           conn[a].open => current[slots[a].user] = a,
           c.open = conn[a].open, conn[a].done => c.done,
           Change(a, c), UNCHANGED current
    PROVE  ClientsOK' /\ PhaseOK'
<1>1. UNCHANGED <<mgr, slots, task, current>> /\ conn' = [conn EXCEPT ![a] = c]
    BY DEF Change, provVars
<1>2. /\ conn'[a] = c /\ \A b \in Account \ {a} : conn'[b] = conn[b]
      /\ conn' \in [Account -> Conn \cup {None}]
    BY <1>1 DEF ClientsOK
<1>3. ClientsOK'
    BY <1>1, <1>2 DEF ClientsOK, Held
<1>4. PhaseOK'
    BY <1>1, <1>2 DEF PhaseOK, Held, In, At
<1> QED  BY <1>3, <1>4

LEMMA DropKeeps ==
    ASSUME ClientsOK, PhaseOK, SlotsOK, NEW u \in 0..TargetCount, DropClient(u)
    PROVE  ClientsOK' /\ PhaseOK'
<1> DEFINE a == current[u]
<1>1. /\ a \in Held /\ a \in Account /\ slots[a].user = u /\ conn[a] \in Conn
      /\ current \in [0..TargetCount -> Account \cup {None}]
    BY DEF DropClient, ClientsOK, Held
<1>2. /\ UNCHANGED <<mgr, slots, task>>
      /\ conn' = [conn EXCEPT ![a] = [conn[a] EXCEPT !.open = FALSE]]
      /\ current' = [current EXCEPT ![u] = None]
    BY DEF DropClient, Change, provVars
<1>3. /\ conn'[a] \in Conn /\ ~conn'[a].open /\ conn'[a].done = conn[a].done
      /\ \A b \in Account \ {a} : conn'[b] = conn[b]
      /\ conn' \in [Account -> Conn \cup {None}]
    <2>1. conn'[a] = [conn[a] EXCEPT !.open = FALSE] /\ DOMAIN conn' = Account
          /\ \A b \in Account \ {a} : conn'[b] = conn[b]
        BY <1>1, <1>2 DEF ClientsOK
    <2>2. conn'[a] \in Conn /\ ~conn'[a].open /\ conn'[a].done = conn[a].done
        <3> DEFINE closed == [conn[a] EXCEPT !.open = FALSE]
        <3>1. closed \in Conn /\ closed.open = FALSE /\ closed.done = conn[a].done
            BY <1>1, ClientOperations
        <3> QED  BY <2>1, <3>1
    <2>3. conn' = [b \in Account |-> conn'[b]]
        BY <1>2 DEF ClientsOK
    <2> QED  BY <2>1, <2>2, <2>3 DEF ClientsOK
<1>4. /\ current'[u] = None /\ \A v \in (0..TargetCount) \ {u} : current'[v] = current[v]
      /\ current' \in [0..TargetCount -> Account \cup {None}]
    BY <1>1, <1>2
<1>5. \A b \in Account : slots[b].user \in 0..TargetCount
    BY DEF SlotsOK, Slot
<1> HIDE DEF a
<1>6. \A v \in (0..TargetCount) \ {u} : current[v] # a
    BY <1>1, ManagerAssumption DEF ClientsOK
<1>7. \A b \in Account \ {a} : conn[b] # None /\ conn[b].open => slots[b].user # u
    BY <1>5 DEF ClientsOK, a
<1>8. ClientsOK'
    <2>1. Held' = Held /\ Held \subseteq Account
        BY <1>2 DEF Held
    <2>2. \A b \in Held : conn'[b] \in Conn
        BY <1>3, <2>1 DEF ClientsOK
    <2>3. ASSUME NEW v \in 0..TargetCount, current'[v] # None
          PROVE  /\ current'[v] \in Held /\ slots'[current'[v]].user = v
                 /\ conn'[current'[v]].open
        <3>1. v # u /\ current'[v] = current[v] /\ current[v] # a
            BY <1>4, <1>6, <2>3
        <3>2. current[v] \in Held /\ slots[current[v]].user = v /\ conn[current[v]].open
            BY <2>3, <3>1 DEF ClientsOK
        <3> QED  BY <1>2, <1>3, <2>1, <3>1, <3>2
    <2>4. ASSUME NEW b \in Account, conn'[b] # None, conn'[b].open
          PROVE  current'[slots'[b].user] = b
        <3>1. b # a /\ conn'[b] = conn[b]
            BY <1>3, <2>4
        <3>2. current[slots[b].user] = b /\ slots[b].user # u
            BY <1>7, <2>4, <3>1 DEF ClientsOK
        <3> QED  BY <1>2, <1>4, <1>5, <3>2
    <2> QED  BY <1>3, <1>4, <2>1, <2>2, <2>3, <2>4 DEF ClientsOK
<1>9. PhaseOK'
    BY <1>1, <1>2, <1>3, <1>4 DEF PhaseOK, Held, In, At
<1> QED  BY <1>8, <1>9

\* The lowest account of a set is one of them.
LEMMA MinIsMember ==
    ASSUME NEW S \in SUBSET Account, S # {}
    PROVE  Min(S) \in S
<1>1. S \subseteq Nat
    BY ProvisioningAssumption DEF Account
<1>2. PICK x \in S : \A y \in S : x <= y
    BY <1>1, LeastNatural
<1> QED  BY <1>2 DEF Min

\* Shutdown closes a client just as the hub does.
LEMMA CloseDrops ==
    ASSUME ClientsOK, SlotsOK, CloseNext
    PROVE  /\ mgr = "stopping" /\ mgr' = mgr
           /\ \E u \in 0..TargetCount : DropClient(u)
<1>1. PICK a : /\ a = Min(Unclosed) /\ current' = Unregistered({a})
               /\ Change(a, CloseSend(conn[a]))
    BY DEF CloseNext
<1>2. a \in Account /\ a \in Held /\ conn[a].open
    <2>1. Unclosed \in SUBSET Account /\ Unclosed # {}
        BY DEF CloseNext, Unclosed, Held
    <2>2. a \in Unclosed
        BY <1>1, <2>1, MinIsMember
    <2> QED  BY <2>2 DEF Unclosed, Held
<1>3. PICK u \in 0..TargetCount : u = slots[a].user
    BY <1>2 DEF SlotsOK, Slot
<1>4. conn[a] # None /\ a # None
    BY <1>2, ManagerAssumption DEF ClientsOK, Conn
<1>5. current[u] = a
    BY <1>2, <1>3, <1>4 DEF ClientsOK
<1>6. \A v \in 0..TargetCount : current[v] = a => v = u
    BY <1>3, <1>4 DEF ClientsOK
<1>7. current' = [current EXCEPT ![u] = None]
    BY <1>1, <1>5, <1>6 DEF Unregistered, ClientsOK
<1>8. Change(a, [conn[a] EXCEPT !.open = FALSE])
    BY <1>1 DEF CloseSend
<1>9. DropClient(u)
    BY <1>4, <1>5, <1>7, <1>8 DEF DropClient
<1> QED  BY <1>8, <1>9 DEF CloseNext, Change

\* Stop waits for a drain before it lets go of a client.
LEMMA AwaitKeeps ==
    ASSUME ClientsOK, PhaseOK, SlotsOK, AwaitDone
    PROVE  ClientsOK' /\ PhaseOK'
<1>1. PICK b : /\ conn[b].done
               /\ slots' = [slots EXCEPT ![b] = [slots[b] EXCEPT !.held = FALSE]]
    BY DEF AwaitDone
<1>2. /\ mgr = "stopping" /\ UNCHANGED <<mgr, conn, current, task>>
      /\ Held \subseteq In(Live) /\ Unclosed = {}
    BY DEF AwaitDone, PhaseOK, provVars
<1>3. \A u \in 0..TargetCount : current[u] = None
    BY <1>2 DEF ClientsOK, Unclosed, ToClose
<1>4. \A a \in Account :
          /\ slots'[a].state = slots[a].state /\ slots'[a].user = slots[a].user
          /\ slots'[a].held => slots[a].held
          /\ a # b => slots'[a] = slots[a]
    BY <1>1 DEF SlotsOK, Slot
<1>5. ClientsOK'
    BY <1>2, <1>3, <1>4 DEF ClientsOK, Held
<1>6. PhaseOK'
    BY <1>1, <1>2, <1>4 DEF PhaseOK, In, Held
<1> QED  BY <1>5, <1>6

LEMMA ClientsStep ==
    ASSUME IInv, ClientsOK, PhaseOK, [Next]_vars
    PROVE  ClientsOK' /\ PhaseOK'
<1> USE DEF IInv
<1>1. CASE StartLoaded
    <2>1. /\ mgr = "off" /\ mgr' = "running" /\ UNCHANGED <<conn, current>>
          /\ \A a \in Account : slots'[a] = Pending(a) \/ slots'[a] = Failed("account")
        BY <1>1 DEF StartLoaded
    <2>2. \A a \in Account : slots'[a].state \notin Live /\ ~slots'[a].held
        BY <2>1 DEF Pending, Failed, Unavailable, Live
    <2>3. At(Service, "idle")'
        BY <1>1, ManagerAssumption DEF StartLoaded, EndProvisioning, At, Idle
    <2>4. \A a \in Account : slots[a].state = "unavailable"
        BY <2>1 DEF PhaseOK, Unavailable
    <2> QED  BY <2>1, <2>2, <2>3, <2>4, StartClients
<1>2. CASE StartProvisioned
    <2>1. /\ mgr = "off" /\ mgr' = "running" /\ UNCHANGED <<slots, conn, current>>
        BY <1>2 DEF StartProvisioned
    <2>2. \A a \in Account : slots[a].state = "unavailable" /\ slots[a].held = FALSE
        BY <2>1 DEF PhaseOK, Unavailable
    <2>3. \A a \in Account : slots'[a].state \notin Live /\ ~slots'[a].held
        BY <2>1, <2>2 DEF Live
    <2> QED  BY <2>1, <2>2, <2>3, StartClients
<1>3. CASE MergeProvisionResult
    <2>1. /\ mgr = "running" /\ mgr' = "running" /\ UNCHANGED <<conn, current>>
          /\ At(Service, "report")
          /\ \A a \in Account : \/ slots'[a] = Failed("account")
                                \/ \E n \in 0..TargetCount : slots'[a] = Pending(n)
        BY <1>3, ProvisioningAssumption DEF MergeProvisionResult, SlotOf, Account
    <2>2. \A a \in Account : slots'[a].state \notin Live /\ ~slots'[a].held
        BY <2>1 DEF Pending, Failed, Unavailable, Live
    <2>3. At(Service, "idle")'
        BY <1>3, ManagerAssumption DEF MergeProvisionResult, EndProvisioning, At, Idle
    <2>4. \A a \in Account : slots[a].state = "unavailable"
        BY <2>1 DEF PhaseOK, At
    <2> QED  BY <2>1, <2>2, <2>3, <2>4, StartClients
<1>4. CASE FailUnavailable
    <2>1. /\ mgr = "running" /\ mgr' = "running" /\ UNCHANGED <<conn, current>>
          /\ At(Service, "error")
        BY <1>4 DEF FailUnavailable
    <2>2. \A a \in Account : slots[a].state = "unavailable"
        BY <2>1 DEF PhaseOK, At
    <2>3. \A a \in Account : slots'[a] = Failed("account")
        BY <1>4, <2>2 DEF FailUnavailable, FailSlotUnavailable
    <2>4. \A a \in Account : slots'[a].state \notin Live /\ ~slots'[a].held
        BY <2>3 DEF Failed, Unavailable, Live
    <2>5. At(Service, "idle")'
        BY <1>4, ManagerAssumption DEF FailUnavailable, EndProvisioning, At, Idle
    <2> QED  BY <2>1, <2>2, <2>4, <2>5, StartClients
<1>5. CASE DropResult
    <2>1. UNCHANGED mgrVars /\ At(Service, "idle")'
        BY <1>5, ManagerAssumption DEF DropResult, Forget, Advance, At, Idle, TasksOK
    <2> QED  BY <2>1, Elsewhere
<1>6. CASE ServiceProvisions
    <2>1. ~At(Service, "idle")
        BY <1>6 DEF ServiceProvisions, ProvisionStep, At, CorrectSyntheticMarkers, GiveUp,
               IndexExisting, RefusePassword, CreateChunk, CreateFails, CreateEnds,
               UpdateAppearances, InitializePositions, CorrectionFails
    <2> QED  BY <1>6, <2>1, Elsewhere DEF ServiceProvisions
<1>7. CASE /\ UNCHANGED mgrVars
           /\ \E w \in Provisioner \ {Service} : Provision(w) \/ ProvisionStep(w) \/ Forget(w)
    <2>1. PICK w \in Provisioner \ {Service} : Provision(w) \/ ProvisionStep(w) \/ Forget(w)
        BY <1>7
    <2>2. \E t : task' = [task EXCEPT ![w] = t]
        <3>1. CASE ProvisionStep(w)
            BY <3>1, StepGrows, StepNotes DEF TasksOK
        <3>2. CASE Provision(w) \/ Forget(w)
            BY <3>2 DEF Provision, Forget, Advance
        <3> QED  BY <2>1, <3>1, <3>2
    <2>3. task'[Service] = task[Service]
        BY <2>2, ManagerAssumption DEF TasksOK
    <2> QED  BY <1>7, <2>3, Elsewhere DEF At
<1>8. CASE UNCHANGED mgrVars /\ UNCHANGED task
    BY <1>8, Elsewhere DEF At
<1>9. CASE Tick
    BY <1>9, TickClients
<1>10. ASSUME NEW u \in 0..TargetCount, Send(u)
       PROVE  ClientsOK' /\ PhaseOK'
    <2> DEFINE a == current[u]
               c == [conn[a] EXCEPT !.queued = @ + 1]
    <2>1. a # None /\ Change(a, c) /\ UNCHANGED current
        BY <1>10 DEF Send
    <2>2. a \in Account /\ conn[a] \in Conn
        BY <2>1 DEF ClientsOK, Held
    <2>3. c \in Conn /\ c.open = conn[a].open /\ c.done = conn[a].done
        BY <2>2, ClientOperations
    <2>4. current[slots[a].user] = a
        BY <2>1 DEF ClientsOK
    <2> HIDE DEF a, c
    <2> QED  BY <2>1, <2>2, <2>3, <2>4, ClientGoesOn
<1>11. ASSUME NEW u \in 0..TargetCount, DropClient(u)
       PROVE  ClientsOK' /\ PhaseOK'
    BY <1>11, DropKeeps
<1>12. ASSUME NEW a \in Account, DrainOne(a)
       PROVE  ClientsOK' /\ PhaseOK'
    <2> DEFINE c == [conn[a] EXCEPT !.queued = @ - 1, !.drained = @ + 1]
    <2>1. conn[a] # None /\ conn[a].queued > 0 /\ Change(a, c) /\ UNCHANGED current
        BY <1>12 DEF DrainOne
    <2>2. conn[a] \in Conn
        BY <2>1 DEF ClientsOK
    <2>3. c \in Conn /\ c.open = conn[a].open /\ c.done = conn[a].done
        BY <2>1, <2>2, ClientOperations
    <2> HIDE DEF c
    <2>4. conn[a].open => current[slots[a].user] = a
        BY <2>1 DEF ClientsOK
    <2> QED  BY <2>1, <2>3, <2>4, ClientGoesOn
<1>13. ASSUME NEW a \in Account, DrainEnds(a)
       PROVE  ClientsOK' /\ PhaseOK'
    <2> DEFINE c == [conn[a] EXCEPT !.done = TRUE]
    <2>1. conn[a] # None /\ Change(a, c) /\ UNCHANGED current
        BY <1>13 DEF DrainEnds
    <2>2. conn[a] \in Conn
        BY <2>1 DEF ClientsOK
    <2>3. c \in Conn /\ c.open = conn[a].open /\ c.done
        BY <2>2, ClientOperations
    <2> HIDE DEF c
    <2>4. conn[a].open => current[slots[a].user] = a
        BY <2>1 DEF ClientsOK
    <2> QED  BY <2>1, <2>3, <2>4, ClientGoesOn
<1>14. CASE Shutdown
    <2>1. mgr = "running" /\ mgr' = "stopping" /\ UNCHANGED <<slots, conn, current>>
        BY <1>14 DEF Shutdown
    <2> QED  BY <2>1 DEF ClientsOK, PhaseOK, Held, In
<1>15. CASE AwaitDone
    BY <1>15, AwaitKeeps
<1>16. CASE ShutdownEnds
    <2>1. UNCHANGED <<slots, conn, current>> /\ mgr = "stopping" /\ mgr' = "done" /\ Held = {}
        BY <1>16 DEF ShutdownEnds
    <2> QED  BY <2>1 DEF ClientsOK, PhaseOK, Held, In
<1>17. CASE ProcessEnds
    <2>1. /\ mgr' = "off" /\ slots' = [a \in Account |-> Unavailable]
          /\ conn' = [a \in Account |-> None] /\ current' = [u \in 0..TargetCount |-> None]
        BY <1>17 DEF ProcessEnds, Restart
    <2>2. Held' = {}
        BY <2>1 DEF Held, Unavailable
    <2> QED  BY <2>1, <2>2 DEF ClientsOK, PhaseOK
<1>18. CASE UNCHANGED mgrVars /\ \E a \in Account : SavePosition(a)
    BY <1>8, <1>18 DEF SavePosition
<1>19. CASE UNCHANGED vars
    BY <1>8, <1>19 DEF vars, provVars, mgrVars
<1>20. CASE CloseNext
    BY <1>20, CloseDrops, DropKeeps
<1> HIDE DEF IInv
<1> QED  BY <1>1, <1>2, <1>3, <1>4, <1>5, <1>6, <1>7, <1>9, <1>10, <1>11, <1>12, <1>13, <1>14,
            <1>15, <1>16, <1>17, <1>18, <1>19, <1>20 DEF Next

LEMMA ClientsInitially == Init => ClientsOK /\ PhaseOK
<1> SUFFICES ASSUME Init PROVE ClientsOK /\ PhaseOK
    OBVIOUS
<1>1. /\ mgr = "off" /\ slots = [a \in Account |-> Unavailable]
      /\ conn = [a \in Account |-> None] /\ current = [u \in 0..TargetCount |-> None]
    BY DEF Init
<1>2. Held = {}
    BY <1>1 DEF Held, Unavailable
<1> QED  BY <1>1, <1>2 DEF ClientsOK, PhaseOK

\* No client is left over in the hub, nor open, nor waited for in vain, for any
\* number of accounts, any ramp rate and any order of ticks, replacements, failed
\* activations, drains, provisioning results and stops (failSlot, onTick, shutdown).
THEOREM ClientsAccounted == Spec => []NoStrayClient
<1>1. Init => IInv /\ ClientsOK /\ PhaseOK
    BY Initially, ClientsInitially
<1>2. (IInv /\ ClientsOK /\ PhaseOK) /\ [Next]_vars => (IInv /\ ClientsOK /\ PhaseOK)'
    BY InvariantStep, ClientsStep
<1>3. IInv /\ ClientsOK /\ PhaseOK => NoStrayClient
    <2> SUFFICES ASSUME ClientsOK, PhaseOK PROVE NoStrayClient
        OBVIOUS
    <2>1. mgr = "done" => \A a \in In(Live) : conn[a].done
        <3> SUFFICES ASSUME mgr = "done", NEW a \in In(Live) PROVE conn[a].done
            OBVIOUS
        <3>1. ~slots[a].held
            BY DEF PhaseOK, Held, In
        <3> QED  BY <3>1 DEF PhaseOK
    <2> QED  BY <2>1 DEF ClientsOK, NoStrayClient
<1> QED  BY <1>1, <1>2, <1>3, PTL DEF Spec

---------------------------------------------------------------------------
(* Sums of messages *)

\* A sum of weights over sets of numbers.
Sums(g, k, w) ==
    /\ g \in [SUBSET (1..k) -> Nat]
    /\ \A b \in 1..k : g[{b}] = w[b]
    /\ \A s, t \in SUBSET (1..k) : s \cap t = {} => g[s \cup t] = g[s] + g[t]

\* Nothing weighs nothing.
LEMMA SumsEmpty ==
    ASSUME NEW n \in Nat, NEW w, NEW g, Sums(g, n, w)
    PROVE  g[{}] = 0
<1>1. g[{}] = g[{}] + g[{}] /\ g[{}] \in Nat
    <2>1. {} \in SUBSET (1..n) /\ {} \cap {} = {} /\ {} \cup {} = {}
        OBVIOUS
    <2> QED  BY <2>1 DEF Sums
<1>2. \A x \in Nat : x = x + x => x = 0
    OBVIOUS
<1> QED  BY <1>1, <1>2

\* Weighing one number more is possible
LEMMA SumsMore ==
    ASSUME NEW k \in Nat, NEW w, NEW f, Sums(f, k, w), w[k + 1] \in Nat
    PROVE  \E g : Sums(g, k + 1, w)
<1> DEFINE n == k + 1
           Low(s) == s \ {n}
           g == [s \in SUBSET (1..n) |-> f[Low(s)] + (IF n \in s THEN w[n] ELSE 0)]
<1>1. /\ f \in [SUBSET (1..k) -> Nat] /\ \A b \in 1..k : f[{b}] = w[b]
      /\ \A s, t \in SUBSET (1..k) : s \cap t = {} => f[s \cup t] = f[s] + f[t]
    BY DEF Sums
<1>2. \A s \in SUBSET (1..n) : Low(s) \in SUBSET (1..k) /\ f[Low(s)] \in Nat
    <2>1. (1..n) \ {n} = 1..k
        OBVIOUS
    <2> QED  BY <1>1, <2>1
<1>3. g \in [SUBSET (1..n) -> Nat]
    BY <1>2
<1>4. f[{}] = 0
    BY SumsEmpty
<1>5. \A s \in SUBSET (1..n) : g[s] = f[Low(s)] + (IF n \in s THEN w[n] ELSE 0)
    OBVIOUS
<1>6. ASSUME NEW b \in 1..n PROVE g[{b}] = w[b]
    <2>1. {b} \in SUBSET (1..n)
        OBVIOUS
    <2> HIDE DEF g
    <2>2. CASE b = n
        <3>1. Low({b}) = {} /\ n \in {b}
            BY <2>2
        <3>2. g[{b}] = f[{}] + w[n]
            BY <1>5, <2>1, <3>1
        <3> QED  BY <1>4, <2>2, <3>2
    <2>3. CASE b # n
        <3>1. Low({b}) = {b} /\ n \notin {b} /\ b \in 1..k
            BY <2>3
        <3>2. g[{b}] = f[{b}] + 0 /\ f[{b}] \in Nat
            BY <1>2, <1>5, <2>1, <3>1
        <3> QED  BY <1>1, <3>1, <3>2
    <2> QED  BY <2>2, <2>3
<1>7. ASSUME NEW s \in SUBSET (1..n), NEW t \in SUBSET (1..n), s \cap t = {}
      PROVE  g[s \cup t] = g[s] + g[t]
    <2>1. Low(s \cup t) = Low(s) \cup Low(t) /\ Low(s) \cap Low(t) = {}
        BY <1>7
    <2>2. /\ Low(s) \in SUBSET (1..k) /\ f[Low(s)] \in Nat
          /\ Low(t) \in SUBSET (1..k) /\ f[Low(t)] \in Nat
        BY <1>2
    <2>3. s \cup t \in SUBSET (1..n)
        OBVIOUS
    <2> HIDE DEF g, Low
    <2>4. f[Low(s \cup t)] = f[Low(s)] + f[Low(t)]
        BY <1>1, <2>1, <2>2
    <2>5. /\ g[s \cup t] = f[Low(s)] + f[Low(t)] + (IF n \in s \cup t THEN w[n] ELSE 0)
          /\ g[s] = f[Low(s)] + (IF n \in s THEN w[n] ELSE 0)
          /\ g[t] = f[Low(t)] + (IF n \in t THEN w[n] ELSE 0)
        BY <1>5, <2>3, <2>4
    <2>6. ~(n \in s /\ n \in t)
        BY <1>7
    <2> QED  BY <2>2, <2>5, <2>6
<1> HIDE DEF g
<1> QED  BY <1>3, <1>6, <1>7 DEF Sums

\* and so the sum exists.
LEMMA SumsExist ==
    ASSUME NEW n \in Nat, NEW w \in [1..n -> Nat]
    PROVE  \E g : Sums(g, n, w)
<1> DEFINE Bad == {k \in 0..n : ~\E g : Sums(g, k, w)}
<1>1. \E g : Sums(g, 0, w)
    <2> DEFINE g == [s \in SUBSET (1..0) |-> 0]
    <2>1. SUBSET (1..0) = {{}} /\ 1..0 = {}
        OBVIOUS
    <2>2. Sums(g, 0, w)
        BY <2>1 DEF Sums
    <2> HIDE DEF g
    <2> QED  BY <2>2
<1>2. CASE Bad = {}
    <2>1. n \in 0..n
        OBVIOUS
    <2> QED  BY <1>2, <2>1
<1>3. CASE Bad # {}
    <2>0. Bad \subseteq Nat
        OBVIOUS
    <2>1. PICK m \in Bad : \A k \in Bad : m <= k
        <3> HIDE DEF Bad
        <3> QED  BY <1>3, <2>0, LeastNatural
    <2>2. m \in 1..n /\ m - 1 \in Nat /\ m - 1 \notin Bad /\ (m - 1) + 1 = m /\ m - 1 \in 0..n
        BY <1>1, <2>1
    <2>3. PICK f : Sums(f, m - 1, w)
        BY <2>2
    <2>4. \E g : Sums(g, (m - 1) + 1, w)
        BY <2>2, <2>3, SumsMore
    <2> QED  BY <2>1, <2>2, <2>4
<1> QED  BY <1>2, <1>3

\* Drained, of any clients.
DrainedOf(c, S) == MapThenSumSet(LAMBDA a : c[a].drained, S)

\* The recursion that the sum over a set unfolds to.
Takes(f, c, S) ==
    f = [s \in SUBSET S |->
            IF s = {} THEN 0
            ELSE c[CHOOSE x \in s : TRUE].drained + f[s \ {CHOOSE x \in s : TRUE}]]

\* Any element may be weighed first.
LEMMA SumsTake ==
    ASSUME NEW n \in Nat, NEW w, NEW g, Sums(g, n, w), NEW s \in SUBSET (1..n), NEW b \in s
    PROVE  g[s] = w[b] + g[s \ {b}] /\ g[{}] = 0 /\ g[s] \in Nat
<1>1. /\ g \in [SUBSET (1..n) -> Nat] /\ g[{b}] = w[b]
      /\ \A r, t \in SUBSET (1..n) : r \cap t = {} => g[r \cup t] = g[r] + g[t]
    BY DEF Sums
<1>2. /\ {b} \in SUBSET (1..n) /\ s \ {b} \in SUBSET (1..n) /\ {b} \cap (s \ {b}) = {}
      /\ {b} \cup (s \ {b}) = s
    OBVIOUS
<1>3. g[s] = w[b] + g[s \ {b}]
    BY <1>1, <1>2
<1>4. g[{}] = 0
    BY SumsEmpty
<1> QED  BY <1>1, <1>3, <1>4

\* In whatever order MapThenSumSet takes the elements, it computes the sum: a
\* smallest subset on which it did not would do without its first element.
LEMMA DrainedIs ==
    ASSUME NEW c, NEW w, NEW g, Sums(g, TargetCount, w),
           NEW S \in SUBSET Account, \A a \in S : c[a].drained = w[a]
    PROVE  DrainedOf(c, S) = g[S]
<1> USE ProvisioningAssumption
<1> DEFINE Choice(s) == CHOOSE x \in s : TRUE
           Body(f, s) == IF s = {} THEN 0 ELSE c[Choice(s)].drained + f[s \ {Choice(s)}]
<1>1. \A s \in SUBSET S : s # {} => Choice(s) \in s
    OBVIOUS
<1>2. \A s \in SUBSET S : g[s] = Body(g, s)
    <2> SUFFICES ASSUME NEW s \in SUBSET S PROVE g[s] = Body(g, s)
        OBVIOUS
    <2>1. CASE s = {}
        BY <2>1, SumsEmpty
    <2>2. CASE s # {}
        <3>1. Choice(s) \in s /\ s \in SUBSET (1..TargetCount)
            BY <1>1, <2>2 DEF Account
        <3>2. PICK b : b = Choice(s)
            OBVIOUS
        <3> HIDE DEF Choice
        <3>3. b \in s /\ TargetCount \in Nat
            BY <3>1, <3>2
        <3>4. g[s] = w[b] + g[s \ {b}]
            BY <3>1, <3>3, SumsTake
        <3>5. c[b].drained = w[b]
            BY <3>3
        <3> QED  BY <2>2, <3>2, <3>4, <3>5
    <2> QED  BY <2>1, <2>2
<1>3. \E f : Takes(f, c, S)
    <2> DEFINE f == [s \in SUBSET S |-> g[s]]
    <2>1. ASSUME NEW s \in SUBSET S PROVE f[s] = Body(f, s)
        <3>1. f[s] = g[s] /\ f[s \ {Choice(s)}] = g[s \ {Choice(s)}]
            OBVIOUS
        <3>2. g[s] = Body(g, s)
            BY <1>2
        <3> HIDE DEF f, Choice
        <3> QED  BY <3>1, <3>2
    <2>2. f = [s \in SUBSET S |-> f[s]]
        OBVIOUS
    <2> HIDE DEF f
    <2>3. f = [s \in SUBSET S |-> Body(f, s)]
        <3> HIDE DEF Body
        <3> QED  BY <2>1, <2>2
    <2>4. Takes(f, c, S)
        BY <2>3 DEF Takes
    <2> QED  BY <2>4
<1>4. \E f : Takes(f, c, S) /\ DrainedOf(c, S) = f[S]
    BY <1>3 DEF DrainedOf, MapThenSumSet, MapThenFoldSet, Takes
<1>5. PICK f : Takes(f, c, S) /\ DrainedOf(c, S) = f[S]
    BY <1>4
<1>6. \A s \in SUBSET S : f[s] = Body(f, s)
    <2> HIDE DEF Body
    <2>1. f = [s \in SUBSET S |-> Body(f, s)]
        BY <1>5 DEF Takes, Body
    <2> QED  BY <2>1
<1>7. \A s \in SUBSET S : IsFiniteSet(s) /\ Cardinality(s) \in Nat
    <2>1. IsFiniteSet(Account)
        BY FS_Interval DEF Account
    <2> QED  BY <2>1, FS_Subset, FS_CardinalityType
<1> DEFINE Bad == {s \in SUBSET S : f[s] # g[s]}
           Sizes == {Cardinality(s) : s \in Bad}
<1>8. CASE Bad = {}
    BY <1>5, <1>8
<1>9. CASE Bad # {}
    <2>1. Sizes \subseteq Nat /\ Sizes # {}
        BY <1>7, <1>9
    <2>2. PICK m \in Sizes : \A n \in Sizes : m <= n
        <3> HIDE DEF Sizes
        <3> QED  BY <2>1, LeastNatural
    <2>3. PICK s \in Bad : m = Cardinality(s)
        BY <2>2
    <2>4. s \in SUBSET S /\ f[s] # g[s] /\ s # {}
        BY <1>2, <1>6
    <2>5. Choice(s) \in s
        BY <1>1, <2>4
    <2> DEFINE r == s \ {Choice(s)}
    <2>6. r \in SUBSET S /\ Cardinality(r) = m - 1 /\ m \in Nat
        <3> HIDE DEF Choice
        <3> QED  BY <1>7, <2>3, <2>4, <2>5, FS_RemoveElement
    <2>7. r \notin Bad
        <3> HIDE DEF r
        <3> QED  BY <2>2, <2>6
    <2>8. f[r] = g[r]
        BY <2>6, <2>7
    <2>9. f[s] = c[Choice(s)].drained + f[r] /\ g[s] = c[Choice(s)].drained + g[r]
        BY <1>2, <1>6, <2>4
    <2> QED  BY <2>4, <2>8, <2>9
<1> QED  BY <1>8, <1>9

\* The messages of different clients add up.
LEMMA DrainedUnion ==
    ASSUME NEW c, NEW S \in SUBSET Account, NEW T \in SUBSET Account, S \cap T = {},
           \A a \in S \cup T : c[a].drained \in Nat
    PROVE  /\ DrainedOf(c, S) \in Nat /\ DrainedOf(c, T) \in Nat
           /\ DrainedOf(c, S \cup T) = DrainedOf(c, S) + DrainedOf(c, T)
<1>1. PICK w : w \in [1..TargetCount -> Nat] /\ \A a \in S \cup T : c[a].drained = w[a]
    <2> DEFINE v == [a \in Account |-> IF a \in S \cup T THEN c[a].drained ELSE 0]
    <2>1. v \in [1..TargetCount -> Nat] /\ \A a \in S \cup T : c[a].drained = v[a]
        BY DEF Account
    <2> QED  BY <2>1
<1>2. PICK g : Sums(g, TargetCount, w)
    BY <1>1, SumsExist, ProvisioningAssumption
<1>3. /\ DrainedOf(c, S) = g[S] /\ DrainedOf(c, T) = g[T]
      /\ DrainedOf(c, S \cup T) = g[S \cup T]
    <2>1. S \cup T \in SUBSET Account /\ (\A a \in S : c[a].drained = w[a])
          /\ (\A a \in T : c[a].drained = w[a])
        BY <1>1
    <2>2. DrainedOf(c, S) = g[S]
        BY <1>2, <2>1, DrainedIs
    <2>3. DrainedOf(c, T) = g[T]
        BY <1>2, <2>1, DrainedIs
    <2>4. DrainedOf(c, S \cup T) = g[S \cup T]
        <3>1. PICK r : r = S \cup T
            OBVIOUS
        <3>2. r \in SUBSET Account /\ \A a \in r : c[a].drained = w[a]
            BY <1>1, <3>1
        <3>3. DrainedOf(c, r) = g[r]
            BY <1>2, <3>2, DrainedIs
        <3> QED  BY <3>1, <3>3
    <2> QED  BY <2>2, <2>3, <2>4
<1>4. g[S] \in Nat /\ g[T] \in Nat /\ g[S \cup T] = g[S] + g[T]
    BY <1>2 DEF Sums, Account
<1> QED  BY <1>3, <1>4

LEMMA DrainedEmpty ==
    ASSUME NEW c
    PROVE  DrainedOf(c, {}) = 0
<1>1. PICK w : w \in [1..TargetCount -> Nat]
    <2> DEFINE v == [a \in Account |-> 0]
    <2>1. v \in [1..TargetCount -> Nat]
        BY DEF Account
    <2> QED  BY <2>1
<1>2. PICK g : Sums(g, TargetCount, w)
    BY <1>1, SumsExist, ProvisioningAssumption
<1>3. DrainedOf(c, {}) = g[{}]
    <2>1. {} \in SUBSET Account /\ \A a \in {} : c[a].drained = w[a]
        OBVIOUS
    <2> QED  BY <1>2, <2>1, DrainedIs
<1> QED  BY <1>2, <1>3, SumsEmpty, ProvisioningAssumption

LEMMA DrainedSingle ==
    ASSUME NEW c, NEW b \in Account, c[b].drained \in Nat
    PROVE  DrainedOf(c, {b}) = c[b].drained
<1>1. PICK w : w \in [1..TargetCount -> Nat] /\ \A a \in {b} : c[a].drained = w[a]
    <2> DEFINE v == [a \in Account |-> IF a = b THEN c[a].drained ELSE 0]
    <2>1. v \in [1..TargetCount -> Nat] /\ \A a \in {b} : c[a].drained = v[a]
        BY DEF Account
    <2> QED  BY <2>1
<1>2. PICK g : Sums(g, TargetCount, w)
    BY <1>1, SumsExist, ProvisioningAssumption
<1>3. PICK r : r = {b}
    OBVIOUS
<1>4. DrainedOf(c, r) = g[r]
    <2>1. r \in SUBSET Account /\ \A a \in r : c[a].drained = w[a]
        BY <1>1, <1>3
    <2> QED  BY <1>2, <2>1, DrainedIs
<1> QED  BY <1>1, <1>2, <1>3, <1>4 DEF Sums, Account

LEMMA DrainedSame ==
    ASSUME NEW c, NEW e, NEW S \in SUBSET Account,
           \A a \in S : c[a].drained \in Nat /\ e[a].drained = c[a].drained
    PROVE  DrainedOf(e, S) = DrainedOf(c, S)
<1>1. PICK w : /\ w \in [1..TargetCount -> Nat]
               /\ \A a \in S : c[a].drained = w[a]
               /\ \A a \in S : e[a].drained = w[a]
    <2> DEFINE v == [a \in Account |-> IF a \in S THEN c[a].drained ELSE 0]
    <2>1. /\ v \in [1..TargetCount -> Nat]
          /\ \A a \in S : c[a].drained = v[a]
          /\ \A a \in S : e[a].drained = v[a]
        BY DEF Account
    <2> QED  BY <2>1
<1>2. PICK g : Sums(g, TargetCount, w)
    BY <1>1, SumsExist, ProvisioningAssumption
<1>3. DrainedOf(c, S) = g[S]
    <2>1. \A a \in S : c[a].drained = w[a]
        BY <1>1
    <2> QED  BY <1>2, <2>1, DrainedIs
<1>4. DrainedOf(e, S) = g[S]
    <2>1. \A a \in S : e[a].drained = w[a]
        BY <1>1
    <2> QED  BY <1>2, <2>1, DrainedIs
<1> QED  BY <1>3, <1>4

LEMMA DrainedTyped ==
    ASSUME NEW c, NEW S \in SUBSET Account, \A a \in S : c[a].drained \in Nat
    PROVE  DrainedOf(c, S) \in Nat
<1>1. PICK T : T = {}
    OBVIOUS
<1>2. T \in SUBSET Account /\ S \cap T = {} /\ \A a \in S \cup T : c[a].drained \in Nat
    BY <1>1
<1> QED  BY <1>2, DrainedUnion

---------------------------------------------------------------------------
(* The counters *)

\* The slots whose client was found gone.
Gone == {a \in Account : slots[a].err = "disconnected"}

\* The clients that count are those of slots that are live or whose client was
\* found gone; a drain that has ended leaves nothing behind and gets nothing more.
Counting ==
    /\ Held \subseteq In(Live) /\ Gone \subseteq In({"failed"})
    /\ \A a \in In(Live) : conn[a] \in Conn
    /\ \A a \in Finished : conn[a] \in Conn /\ conn[a].done
    /\ \A a \in Account : conn[a] \in Conn /\ conn[a].done =>
          ~conn[a].open /\ conn[a].queued = 0
\* The counters are about the clients that are finished.
Counted ==
    /\ accumulatedMessages = DrainedOf(conn, Finished)
    /\ disconnectCount = Cardinality(Gone)
    /\ totalActivated = Cardinality(In({"active"})) + disconnectCount

\* What a client may hold, and what a tick leaves of the tokens.
Fits(c) == c.queued <= SendBuffer /\ c.queued + c.drained <= MaxMessage
Bounded ==
    /\ \A a \in Account : conn[a] \in Conn => Fits(conn[a])
    /\ rampTokens \in 0..(TicksPerSecond * TargetCount)

\* A client is left alone, or goes on: it may get messages, drain, end or close.
GoesOn(a) ==
    \/ conn'[a] = conn[a]
    \/ /\ conn[a] \in Conn /\ conn'[a] \in Conn
       /\ conn[a].done => conn'[a].done /\ conn'[a].drained = conn[a].drained
       /\ conn'[a].done => ~conn'[a].open /\ conn'[a].queued = 0
       /\ Fits(conn[a]) => Fits(conn'[a])

LEMMA SetsFinite ==
    ASSUME NEW S \in SUBSET Account
    PROVE  IsFiniteSet(S) /\ Cardinality(S) \in Nat
<1>1. IsFiniteSet(Account)
    BY FS_Interval, ProvisioningAssumption DEF Account
<1> QED  BY <1>1, FS_Subset, FS_CardinalityType

LEMMA DisjointUnion ==
    ASSUME NEW S \in SUBSET Account, NEW T \in SUBSET Account, S \cap T = {}
    PROVE  Cardinality(S \cup T) = Cardinality(S) + Cardinality(T)
<1>1. IsFiniteSet(S) /\ IsFiniteSet(T) /\ Cardinality(S) \in Nat /\ Cardinality(T) \in Nat
    BY SetsFinite
<1>2. Cardinality(S \cap T) = 0
    BY FS_EmptySet
<1>3. Cardinality(S \cup T) = Cardinality(S) + Cardinality(T) - Cardinality(S \cap T)
    BY <1>1, FS_Union
<1> QED  BY <1>1, <1>2, <1>3

\* The clients go on while the slots and counters stay as they are.
LEMMA OnlyClients ==
    ASSUME ClientsOK, PhaseOK, Counting, Counted, Bounded,
           UNCHANGED <<slots, rampTokens, counters>>,
           Finished' = Finished,
           \A a \in Account : GoesOn(a)
    PROVE  Counting' /\ Counted' /\ Bounded'
<1>1. UNCHANGED <<slots, rampTokens, totalActivated, disconnectCount, accumulatedMessages>>
    BY DEF counters
<1>2. /\ Held' = Held /\ Gone' = Gone /\ In(Live)' = In(Live)
      /\ In({"failed"})' = In({"failed"}) /\ In({"active"})' = In({"active"})
      /\ Finished \subseteq Account /\ In(Live) \subseteq Account
    BY <1>1 DEF Held, Gone, In, Finished
<1>3. \A a \in Finished : /\ conn[a] \in Conn /\ conn'[a] \in Conn /\ conn'[a].done
                          /\ conn'[a].drained = conn[a].drained
    BY <1>2 DEF Counting, GoesOn
<1>4. Counting'
    <2>1. \A a \in In(Live) : conn'[a] \in Conn
        BY <1>2 DEF Counting, GoesOn
    <2>2. \A a \in Account : conn'[a] \in Conn /\ conn'[a].done =>
              ~conn'[a].open /\ conn'[a].queued = 0
        BY DEF Counting, GoesOn
    <2>3. \A a \in Finished' : conn'[a] \in Conn /\ conn'[a].done
        BY <1>3
    <2> HIDE DEF GoesOn
    <2> QED  BY <1>2, <2>1, <2>2, <2>3 DEF Counting
<1>5. Counted'
    <2>1. PICK F : F = Finished
        OBVIOUS
    <2>2. PICK c : c = conn
        OBVIOUS
    <2>3. PICK e : e = conn'
        OBVIOUS
    <2>4. F \in SUBSET Account /\ \A a \in F : c[a].drained \in Nat /\ e[a].drained = c[a].drained
        BY <1>2, <1>3, <2>1, <2>2, <2>3 DEF Conn
    <2>5. DrainedOf(e, F) = DrainedOf(c, F)
        BY <2>4, DrainedSame
    <2>6. DrainedOf(conn', Finished') = DrainedOf(conn, Finished)
        BY <2>1, <2>2, <2>3, <2>5
    <2> QED  BY <1>1, <1>2, <2>6 DEF Counted
<1>6. Bounded'
    <2>1. \A a \in Account : conn'[a] \in Conn => Fits(conn'[a])
        BY DEF Bounded, GoesOn
    <2> QED  BY <1>1, <2>1 DEF Bounded
<1> QED  BY <1>4, <1>5, <1>6

\* A start fills slots of which none has a client.
LEMMA CountStart ==
    ASSUME ClientsOK, PhaseOK, Counting, Counted, Bounded,
           UNCHANGED <<conn, rampTokens, counters>>,
           \A a \in Account : slots[a].state = "unavailable",
           mgr \in {"off", "running"}, mgr' = "running",
           \A a \in Account : /\ slots'[a].state \notin Live /\ ~slots'[a].held
                              /\ slots'[a].err # "disconnected"
    PROVE  Counting' /\ Counted' /\ Bounded'
<1>1. UNCHANGED <<conn, rampTokens, totalActivated, disconnectCount, accumulatedMessages>>
    BY DEF counters
<1>2. Gone = {} /\ Finished = {} /\ In({"active"}) = {}
    BY DEF Counting, Gone, Finished, In
<1>3. /\ Gone' = {} /\ Finished' = {} /\ In({"active"})' = {} /\ In(Live)' = {} /\ Held' = {}
    BY DEF Gone, Finished, In, Held, Live
<1> QED  BY <1>1, <1>2, <1>3 DEF Counting, Counted, Bounded, Fits

\* A change of one client, and what makes one:
LEMMA ChangeGoesOn ==
    ASSUME ClientsOK, NEW a \in Account, conn[a] \in Conn, NEW c \in Conn, Change(a, c),
           conn[a].done => c.done /\ c.drained = conn[a].drained,
           c.done => ~c.open /\ c.queued = 0,
           Fits(conn[a]) => Fits(c)
    PROVE  /\ UNCHANGED <<slots, rampTokens, counters>> /\ Finished' = Finished
           /\ \A b \in Account : GoesOn(b)
<1>1. UNCHANGED <<mgr, slots, rampTokens, counters>> /\ conn' = [conn EXCEPT ![a] = c]
    BY DEF Change
<1>2. Finished' = Finished
    BY <1>1 DEF Finished, In, Held
<1>3. conn'[a] = c /\ \A b \in Account \ {a} : conn'[b] = conn[b]
    BY <1>1 DEF ClientsOK
<1>4. \A b \in Account : GoesOn(b)
    BY <1>3 DEF GoesOn
<1> QED  BY <1>1, <1>2, <1>4

\* What happens to a client.
LEMMA ClientIs ==
    ASSUME NEW c \in Conn, c.queued \in Nat, c.drained \in Nat
    PROVE  /\ [c EXCEPT !.queued = @ + 1] \in Conn
           /\ [c EXCEPT !.queued = @ + 1].queued = c.queued + 1
           /\ [c EXCEPT !.queued = @ + 1].drained = c.drained
           /\ [c EXCEPT !.queued = @ + 1].done = c.done
           /\ [c EXCEPT !.open = FALSE] \in Conn /\ ~[c EXCEPT !.open = FALSE].open
           /\ [c EXCEPT !.open = FALSE].queued = c.queued
           /\ [c EXCEPT !.open = FALSE].drained = c.drained
           /\ [c EXCEPT !.open = FALSE].done = c.done
           /\ [c EXCEPT !.done = TRUE] \in Conn
           /\ [c EXCEPT !.done = TRUE].queued = c.queued
           /\ [c EXCEPT !.done = TRUE].drained = c.drained
           /\ [c EXCEPT !.done = TRUE].open = c.open
           /\ c.queued > 0 =>
                 /\ [c EXCEPT !.queued = @ - 1, !.drained = @ + 1] \in Conn
                 /\ [c EXCEPT !.queued = @ - 1, !.drained = @ + 1].queued = c.queued - 1
                 /\ [c EXCEPT !.queued = @ - 1, !.drained = @ + 1].drained = c.drained + 1
                 /\ [c EXCEPT !.queued = @ - 1, !.drained = @ + 1].done = c.done
<1>1. c \in [queued : Nat, drained : Nat, open : BOOLEAN, done : BOOLEAN]
    BY DEF Conn
<1>2. c.queued + 1 \in Nat /\ c.drained + 1 \in Nat /\ (c.queued > 0 => c.queued - 1 \in Nat)
    BY <1>1
<1>3. ASSUME NEW q \in Nat, NEW d \in Nat
      PROVE  /\ [c EXCEPT !.queued = q, !.drained = d] \in Conn
             /\ [c EXCEPT !.queued = q, !.drained = d].queued = q
             /\ [c EXCEPT !.queued = q, !.drained = d].drained = d
             /\ [c EXCEPT !.queued = q, !.drained = d].done = c.done
             /\ [c EXCEPT !.queued = q] \in Conn
             /\ [c EXCEPT !.queued = q].queued = q
             /\ [c EXCEPT !.queued = q].drained = c.drained
             /\ [c EXCEPT !.queued = q].done = c.done
    BY <1>1 DEF Conn
<1>4. /\ [c EXCEPT !.open = FALSE] \in Conn /\ ~[c EXCEPT !.open = FALSE].open
      /\ [c EXCEPT !.open = FALSE].queued = c.queued
      /\ [c EXCEPT !.open = FALSE].drained = c.drained
      /\ [c EXCEPT !.open = FALSE].done = c.done
      /\ [c EXCEPT !.done = TRUE] \in Conn
      /\ [c EXCEPT !.done = TRUE].queued = c.queued
      /\ [c EXCEPT !.done = TRUE].drained = c.drained
      /\ [c EXCEPT !.done = TRUE].open = c.open
    BY <1>1 DEF Conn
<1> QED  BY <1>2, <1>3, <1>4

\* a message gets to an open client whose queue has room,
LEMMA SendGoesOn ==
    ASSUME ClientsOK, Counting, NEW u \in 0..TargetCount, Send(u)
    PROVE  /\ UNCHANGED <<slots, rampTokens, counters>> /\ Finished' = Finished
           /\ \A b \in Account : GoesOn(b)
<1>1. PICK a : a = current[u]
    OBVIOUS
<1>2. a \in Account /\ conn[a] \in Conn /\ conn[a].open /\ a # None
    BY <1>1 DEF Send, ClientsOK, Held
<1>3. conn[a].queued \in Nat /\ conn[a].drained \in Nat
    BY <1>2 DEF Conn
<1>4. PICK c : c = [conn[a] EXCEPT !.queued = @ + 1]
    OBVIOUS
<1>5. /\ Change(a, c) /\ conn[a].queued < SendBuffer
      /\ conn[a].queued + conn[a].drained < MaxMessage
    BY <1>1, <1>4 DEF Send
<1>6. /\ c \in Conn /\ c.queued = conn[a].queued + 1 /\ c.drained = conn[a].drained
      /\ c.done = conn[a].done
    BY <1>2, <1>3, <1>4, ClientIs
<1>7. ~conn[a].done
    BY <1>2 DEF Counting
<1>8. Fits(c)
    BY <1>3, <1>5, <1>6, ManagerAssumption DEF Fits
<1> QED  BY <1>2, <1>5, <1>6, <1>7, <1>8, ChangeGoesOn

\* the hub closes a client,
LEMMA DropGoesOn ==
    ASSUME ClientsOK, Counting, NEW u \in 0..TargetCount, DropClient(u)
    PROVE  /\ UNCHANGED <<slots, rampTokens, counters>> /\ Finished' = Finished
           /\ \A b \in Account : GoesOn(b)
<1>1. PICK a : a = current[u]
    OBVIOUS
<1>2. a \in Account /\ conn[a] \in Conn /\ conn[a].open
    BY <1>1 DEF DropClient, ClientsOK, Held
<1>3. conn[a].queued \in Nat /\ conn[a].drained \in Nat
    BY <1>2 DEF Conn
<1>4. PICK c : c = [conn[a] EXCEPT !.open = FALSE]
    OBVIOUS
<1>5. Change(a, c)
    BY <1>1, <1>4 DEF DropClient
<1>6. /\ c \in Conn /\ c.queued = conn[a].queued /\ c.drained = conn[a].drained
      /\ c.done = conn[a].done
    BY <1>2, <1>3, <1>4, ClientIs
<1>7. ~conn[a].done
    BY <1>2 DEF Counting
<1>8. Fits(conn[a]) => Fits(c)
    BY <1>6 DEF Fits
<1> QED  BY <1>2, <1>5, <1>6, <1>7, <1>8, ChangeGoesOn

\* a drain takes a message or ends,
LEMMA DrainGoesOn ==
    ASSUME ClientsOK, Counting, NEW a \in Account, DrainOne(a) \/ DrainEnds(a)
    PROVE  /\ UNCHANGED <<slots, rampTokens, counters>> /\ Finished' = Finished
           /\ \A b \in Account : GoesOn(b)
<1>1. conn[a] \in Conn /\ conn[a].queued \in Nat /\ conn[a].drained \in Nat
    BY DEF DrainOne, DrainEnds, ClientsOK, Conn
<1>2. CASE DrainOne(a)
    <2>1. PICK c : c = [conn[a] EXCEPT !.queued = @ - 1, !.drained = @ + 1]
        OBVIOUS
    <2>2. Change(a, c) /\ conn[a].queued > 0
        BY <1>2, <2>1 DEF DrainOne
    <2>3. /\ c \in Conn /\ c.queued = conn[a].queued - 1 /\ c.drained = conn[a].drained + 1
          /\ c.done = conn[a].done
        BY <1>1, <2>1, <2>2, ClientIs
    <2>4. ~conn[a].done
        BY <1>1, <2>2 DEF Counting
    <2>5. Fits(conn[a]) => Fits(c)
        BY <1>1, <2>3, ManagerAssumption DEF Fits
    <2> QED  BY <1>1, <2>2, <2>3, <2>4, <2>5, ChangeGoesOn
<1>3. CASE DrainEnds(a)
    <2>1. PICK c : c = [conn[a] EXCEPT !.done = TRUE]
        OBVIOUS
    <2>2. Change(a, c) /\ conn[a].queued = 0 /\ ~conn[a].open /\ ~conn[a].done
        BY <1>3, <2>1 DEF DrainEnds
    <2>3. /\ c \in Conn /\ c.queued = conn[a].queued /\ c.drained = conn[a].drained
          /\ c.open = conn[a].open
        BY <1>1, <2>1, ClientIs
    <2>5. Fits(conn[a]) => Fits(c)
        BY <2>3 DEF Fits
    <2> QED  BY <1>1, <2>2, <2>3, <2>5, ChangeGoesOn
<1> QED  BY <1>2, <1>3

\* Stop counts the messages of a client it lets go of.
LEMMA CountAwait ==
    ASSUME SlotsOK, ClientsOK, PhaseOK, Counting, Counted, Bounded, AwaitDone
    PROVE  Counting' /\ Counted' /\ Bounded'
<1>1. PICK b : b = Min(Held)
    OBVIOUS
<1>2. /\ mgr = "stopping" /\ Held # {} /\ conn[b].done
      /\ slots' = [slots EXCEPT ![b] = [slots[b] EXCEPT !.held = FALSE]]
      /\ accumulatedMessages' = accumulatedMessages + conn[b].drained
      /\ UNCHANGED <<mgr, conn, rampTokens, totalActivated, disconnectCount>>
    BY <1>1 DEF AwaitDone
<1>3. b \in Held /\ b \in Account
    <2>1. Held \in SUBSET Account
        BY DEF Held
    <2> QED  BY <1>1, <1>2, <2>1, MinIsMember
<1>4. /\ \A a \in Account : /\ slots'[a].state = slots[a].state /\ slots'[a].err = slots[a].err
                            /\ slots'[a].held <=> (slots[a].held /\ a # b)
    <2>1. /\ slots'[b] = [slots[b] EXCEPT !.held = FALSE] /\ slots[b] \in Slot
          /\ \A a \in Account \ {b} : slots'[a] = slots[a]
        BY <1>2, <1>3 DEF SlotsOK
    <2> QED  BY <2>1 DEF Slot
<1>5. /\ Held' = Held \ {b} /\ Gone' = Gone /\ In(Live)' = In(Live)
      /\ In({"failed"})' = In({"failed"}) /\ In({"active"})' = In({"active"})
    BY <1>4 DEF Held, Gone, In
<1>6. Finished = Gone \cup (In(Live) \ Held)
    BY <1>2 DEF Finished, Gone
<1>7. Finished' = Gone' \cup (In(Live)' \ Held')
    BY <1>2 DEF Finished, Gone
<1>8. b \notin Finished /\ Finished' = Finished \cup {b} /\ Finished \in SUBSET Account
    <2>1. b \in In(Live) /\ b \notin In({"failed"})
        BY <1>3 DEF Counting, In, Live
    <2>2. Gone \subseteq Account /\ In(Live) \subseteq Account /\ b \notin Gone
        BY <2>1 DEF Gone, In, Counting
    <2> QED  BY <1>3, <1>5, <1>6, <1>7, <2>1, <2>2
<1>9. conn[b] \in Conn
    BY <1>3 DEF ClientsOK
<1>10. Counting'
    BY <1>2, <1>5, <1>8, <1>9 DEF Counting
<1>11. Counted'
    <2>1. PICK c : c = conn
        OBVIOUS
    <2>2. PICK F : F = Finished
        OBVIOUS
    <2>3. PICK T : T = {b}
        OBVIOUS
    <2>4. /\ F \in SUBSET Account /\ T \in SUBSET Account /\ F \cap T = {}
          /\ \A a \in F \cup T : c[a].drained \in Nat
        BY <1>3, <1>8, <1>9, <2>1, <2>2, <2>3 DEF Counting, Conn
    <2>5. DrainedOf(c, F \cup T) = DrainedOf(c, F) + DrainedOf(c, T)
        BY <2>4, DrainedUnion
    <2>6. DrainedOf(c, T) = c[b].drained
        BY <1>3, <2>3, <2>4, DrainedSingle
    <2>7. DrainedOf(conn', Finished') = DrainedOf(conn, Finished) + conn[b].drained
        BY <1>2, <1>8, <2>1, <2>2, <2>3, <2>5, <2>6
    <2> QED  BY <1>2, <1>5, <2>7 DEF Counted
<1>12. Bounded'
    BY <1>2 DEF Bounded
<1> QED  BY <1>10, <1>11, <1>12

\* What a tick does to the state and the error of a slot.
LEMMA TickSlotStates ==
    ASSUME slots \in [Account -> Slot], NEW a \in Account
    PROVE  /\ a \in Disconnected =>
                 /\ ProcessedSlot(a).state = "failed"
                 /\ ProcessedSlot(a).err = "disconnected"
           /\ a \in NeverReady \ Disconnected =>
                 /\ ProcessedSlot(a).state = "failed"
                 /\ ProcessedSlot(a).err = "notready"
           /\ a \in BecomesActive =>
                 /\ ProcessedSlot(a).state = "active"
                 /\ ProcessedSlot(a).err = slots[a].err
           /\ a \in Activated =>
                 /\ ProcessedSlot(a).state = "activating"
                 /\ ProcessedSlot(a).err = slots[a].err
           /\ a \notin Disconnected \cup NeverReady \cup BecomesActive \cup Activated =>
                 /\ ProcessedSlot(a).state = slots[a].state
                 /\ ProcessedSlot(a).err = slots[a].err
<1>1. slots[a] \in Slot
    OBVIOUS
<1>2. a \in Activated => slots[a].state = "pending"
    BY DEF Activated, In
<1>3. a \in Disconnected => slots[a].state = "active"
    BY DEF Disconnected, In
<1>4. /\ a \in NeverReady \cup BecomesActive => slots[a].state = "activating"
      /\ a \in BecomesActive => a \notin NeverReady
    BY DEF NeverReady, BecomesActive, In
<1>5. /\ Failed("disconnected").state = "failed" /\ Failed("disconnected").err = "disconnected"
      /\ Failed("notready").state = "failed" /\ Failed("notready").err = "notready"
    BY DEF Failed, Unavailable
<1>6. CASE a \in Disconnected \cup NeverReady
    BY <1>2, <1>3, <1>4, <1>5, <1>6 DEF ProcessedSlot
<1>7. CASE a \in BecomesActive
    <2>1. ProcessedSlot(a) = [slots[a] EXCEPT !.state = "active", !.age = 0]
        BY <1>3, <1>4, <1>7 DEF ProcessedSlot
    <2> QED  BY <1>1, <1>2, <1>3, <1>4, <1>7, <2>1 DEF Slot
<1>8. CASE a \in Activated
    <2>1. ProcessedSlot(a) = [slots[a] EXCEPT !.state = "activating", !.held = TRUE]
        BY <1>2, <1>3, <1>4, <1>8 DEF ProcessedSlot
    <2> QED  BY <1>1, <1>2, <1>3, <1>4, <1>8, <2>1 DEF Slot
<1>9. CASE a \notin Disconnected \cup NeverReady \cup BecomesActive \cup Activated
    <2>1. ProcessedSlot(a) \in {slots[a], [slots[a] EXCEPT !.age = @ + 1]}
        BY <1>9 DEF ProcessedSlot
    <2> QED  BY <1>1, <1>9, <2>1 DEF Slot
<1> QED  BY <1>6, <1>7, <1>8, <1>9

\* What a tick does to the clients.
LEMMA TickConn ==
    ASSUME ClientsOK, Counting, Tick, NEW a \in Account
    PROVE  /\ a \in Activated => /\ conn'[a] \in Conn /\ Fits(conn'[a]) /\ ~conn'[a].done
           /\ a \notin Activated => GoesOn(a)
<1>1. CASE a \in Activated
    <2>1. PICK open : open = (current'[slots[a].user] = a)
        OBVIOUS
    <2>2. open \in BOOLEAN
        BY <2>1
    <2>3. conn'[a] = NewClient(open)
        BY <1>1, <2>1 DEF Tick
    <2>4. NewClient(open) \in Conn
        BY <2>2, NewClientIs
    <2>5. ~NewClient(open).done /\ Fits(NewClient(open))
        BY ManagerAssumption DEF NewClient, Fits
    <2> QED  BY <1>1, <2>3, <2>4, <2>5
<1>2. CASE a \notin Activated
    <2>1. \/ conn'[a] = conn[a]
          \/ conn[a] # None /\ conn'[a] = [conn[a] EXCEPT !.open = FALSE]
        BY <1>2 DEF Tick
    <2>2. CASE conn'[a] = conn[a]
        BY <1>2, <2>2 DEF GoesOn
    <2>3. CASE conn[a] # None /\ conn'[a] = [conn[a] EXCEPT !.open = FALSE]
        <3>1. conn[a] \in Conn /\ conn[a].queued \in Nat /\ conn[a].drained \in Nat
            BY <2>3 DEF ClientsOK, Conn
        <3>2. PICK c : c = [conn[a] EXCEPT !.open = FALSE]
            OBVIOUS
        <3>3. /\ c \in Conn /\ ~c.open /\ c.queued = conn[a].queued
              /\ c.drained = conn[a].drained /\ c.done = conn[a].done
            BY <3>1, <3>2, ClientIs
        <3>4. conn[a].done => conn[a].queued = 0
            BY <3>1 DEF Counting
        <3> QED  BY <1>2, <2>3, <3>1, <3>2, <3>3, <3>4 DEF GoesOn, Fits
    <2> QED  BY <2>1, <2>2, <2>3
<1> QED  BY <1>1, <1>2

\* The tokens pay for all that is activated: the last one activated needed the
\* tokens of all up to itself.
LEMMA TokensSuffice ==
    ASSUME Bounded, RampRate # 0
    PROVE  TokensNow - TicksPerSecond * Cardinality(Activated) \in
               0..(TicksPerSecond * TargetCount)
<1> USE ManagerAssumption, ProvisioningAssumption
<1>1. PICK most : most = TicksPerSecond * TargetCount
    OBVIOUS
<1>2. most \in Nat
    BY <1>1
<1>3. TokensNow \in 0..most
    BY <1>1, <1>2 DEF TokensNow, Least, Bounded
<1>4. Activated \in SUBSET Account /\ Cardinality(Activated) \in Nat
    <2>1. Activated \in SUBSET Account
        BY DEF Activated, In
    <2> QED  BY <2>1, SetsFinite
<1>5. TicksPerSecond * Cardinality(Activated) \in Nat
    BY <1>4
<1>6. TicksPerSecond * Cardinality(Activated) <= TokensNow
    <2>1. CASE Activated = {}
        <3>1. Cardinality(Activated) = 0
            BY <2>1, FS_EmptySet
        <3> QED  BY <1>3, <3>1
    <2>2. CASE Activated # {}
        <3>1. PICK m \in Activated : \A a \in Activated : a <= m
            BY <1>4, <2>2, Greatest
        <3>2. PICK before : before = {b \in In({"pending"}) : b <= m}
            OBVIOUS
        <3>3. Activated \subseteq before /\ before \in SUBSET Account
            BY <3>1, <3>2 DEF Activated, In
        <3>4. /\ Cardinality(Activated) <= Cardinality(before) /\ Cardinality(before) \in Nat
            BY <3>3, SetsFinite, FS_Subset
        <3>5. TokensNow >= TicksPerSecond * Cardinality(before)
            BY <3>1, <3>2 DEF Activated
        <3>6. \A t, x, y \in Nat : x <= y => t * x <= t * y
            OBVIOUS
        <3>7. TicksPerSecond * Cardinality(Activated) <= TicksPerSecond * Cardinality(before)
            BY <1>4, <3>4, <3>6
        <3>8. TicksPerSecond * Cardinality(before) \in Nat
            BY <3>4
        <3> QED  BY <1>3, <1>5, <3>5, <3>7, <3>8
    <2> QED  BY <2>1, <2>2
<1> QED  BY <1>1, <1>2, <1>3, <1>5, <1>6

\* A tick counts what it finds gone and what becomes active.
LEMMA CountTick ==
    ASSUME SlotsOK, ClientsOK, PhaseOK, Counting, Counted, Bounded, Tick
    PROVE  Counting' /\ Counted' /\ Bounded'
<1> DEFINE D == Disconnected
           B == BecomesActive
           Act == In({"active"})
<1>1. /\ mgr = "running" /\ mgr' = "running"
      /\ totalActivated' = totalActivated + Cardinality(B)
      /\ disconnectCount' = disconnectCount + Cardinality(D)
      /\ accumulatedMessages' = accumulatedMessages + Drained(D)
      /\ \A a \in Account : slots'[a] = ProcessedSlot(a)
    BY DEF Tick
<1>2. slots \in [Account -> Slot]
    BY DEF SlotsOK
<1>3. /\ D \subseteq Act /\ B \cap Act = {} /\ D \subseteq In(Live) /\ B \subseteq In(Live)
      /\ Act \subseteq Account /\ B \subseteq Account /\ In(Live) \subseteq Account
      /\ Gone \subseteq Account /\ Gone \cap In(Live) = {} /\ Activated \cap In(Live) = {}
      /\ NeverReady \cap Gone = {} /\ NeverReady \cap Act = {} /\ Activated \cap Gone = {}
      /\ NeverReady \cap B = {} /\ D \cap B = {} /\ Activated \cap Act = {}
    BY DEF Disconnected, BecomesActive, NeverReady, Activated, In, Live, Counting, Gone
<1>4. \A a \in Account :
          /\ a \in D => slots'[a].state = "failed" /\ slots'[a].err = "disconnected"
          /\ a \in NeverReady \ D => slots'[a].state = "failed" /\ slots'[a].err = "notready"
          /\ a \in B => slots'[a].state = "active" /\ slots'[a].err = slots[a].err
          /\ a \in Activated => slots'[a].state = "activating" /\ slots'[a].err = slots[a].err
          /\ a \notin D \cup NeverReady \cup B \cup Activated =>
                slots'[a].state = slots[a].state /\ slots'[a].err = slots[a].err
    BY <1>1, <1>2, TickSlotStates
<1>5. /\ Gone' = Gone \cup D /\ Gone \cap D = {}
      /\ Gone' \subseteq In({"failed"})'
      /\ In({"active"})' = (Act \ D) \cup B
    <2>1. /\ Gone' = {a \in Account : slots'[a].err = "disconnected"}
          /\ In({"failed"})' = {a \in Account : slots'[a].state = "failed"}
          /\ In({"active"})' = {a \in Account : slots'[a].state = "active"}
          /\ Act = {a \in Account : slots[a].state = "active"}
          /\ Gone = {a \in Account : slots[a].err = "disconnected"}
          /\ \A a \in Gone : slots[a].state = "failed"
        BY DEF Gone, In, Counting
    <2> HIDE DEF D, B, Act
    <2>2. Gone \cap D = {} /\ \A a \in Gone : a \notin D \cup NeverReady \cup B \cup Activated
        BY <1>3
    <2>3. Gone' = Gone \cup D
        BY <1>3, <1>4, <2>1, <2>2
    <2>4. Gone' \subseteq In({"failed"})'
        BY <1>3, <1>4, <2>1, <2>2, <2>3
    <2>5. In({"active"})' = (Act \ D) \cup B
        BY <1>3, <1>4, <2>1
    <2> QED  BY <2>2, <2>3, <2>4, <2>5
<1>6. Finished = Gone /\ Finished' = Gone'
    BY <1>1 DEF Finished, Gone
<1>7. ClientsOK' /\ PhaseOK'
    BY TickClients
<1>8. Held' = In(Live)'
    BY <1>1, <1>7 DEF PhaseOK
<1>9. \A a \in Gone \cup D :
          /\ conn[a] \in Conn /\ conn[a].done /\ conn'[a] \in Conn /\ conn'[a].done
          /\ conn'[a].drained = conn[a].drained
    <2> SUFFICES ASSUME NEW a \in Gone \cup D
                 PROVE  /\ conn[a] \in Conn /\ conn[a].done /\ conn'[a] \in Conn /\ conn'[a].done
                        /\ conn'[a].drained = conn[a].drained
        OBVIOUS
    <2>1. conn[a] \in Conn /\ conn[a].done
        BY <1>3, <1>6 DEF Counting, Disconnected, ClientDisconnected
    <2>2. a \in Account /\ a \notin Activated
        BY <1>3
    <2>3. GoesOn(a)
        BY <2>2, TickConn
    <2> QED  BY <2>1, <2>3 DEF GoesOn
<1>10. Counting'
    <2>1. ASSUME NEW a \in Account, conn'[a] \in Conn, conn'[a].done
          PROVE  ~conn'[a].open /\ conn'[a].queued = 0
        <3>1. a \notin Activated
            BY <2>1, TickConn
        <3>2. GoesOn(a)
            BY <3>1, TickConn
        <3> QED  BY <2>1, <3>2 DEF GoesOn, Counting
    <2>2. \A a \in Finished' : conn'[a] \in Conn /\ conn'[a].done
        BY <1>5, <1>6, <1>9
    <2>3. \A a \in In(Live)' : conn'[a] \in Conn
        BY <1>7, <1>8 DEF ClientsOK
    <2> QED  BY <1>5, <1>8, <2>1, <2>2, <2>3 DEF Counting
<1>11. disconnectCount' = Cardinality(Gone')
    <2>1. Gone \in SUBSET Account /\ D \in SUBSET Account /\ Gone \cap D = {}
        BY <1>3, <1>5
    <2>2. Cardinality(Gone \cup D) = Cardinality(Gone) + Cardinality(D)
        BY <2>1, DisjointUnion
    <2> QED  BY <1>1, <1>5, <2>2 DEF Counted
<1>12. totalActivated' = Cardinality(In({"active"})') + disconnectCount'
    <2>1. /\ Act \ D \in SUBSET Account /\ D \in SUBSET Account /\ (Act \ D) \cap D = {}
          /\ B \in SUBSET Account /\ (Act \ D) \cap B = {} /\ (Act \ D) \cup D = Act
        BY <1>3
    <2> HIDE DEF Act, D, B
    <2>2. PICK r : r = Act \ D
        OBVIOUS
    <2>3. /\ Cardinality(r \cup D) = Cardinality(r) + Cardinality(D)
        BY <2>1, <2>2, DisjointUnion
    <2>4. Cardinality(r \cup B) = Cardinality(r) + Cardinality(B)
        BY <2>1, <2>2, DisjointUnion
    <2>5. /\ Cardinality(r) \in Nat /\ Cardinality(D) \in Nat /\ Cardinality(B) \in Nat
        BY <2>1, <2>2, SetsFinite
    <2>6. Gone \in SUBSET Account
        BY <1>3
    <2>7. Cardinality(Gone) \in Nat
        BY <2>6, SetsFinite
    <2>8. totalActivated = Cardinality(Act) + disconnectCount /\ disconnectCount \in Nat
        BY <2>7 DEF Counted, Act
    <2>9. Cardinality(Act) = Cardinality(r) + Cardinality(D)
        BY <2>1, <2>2, <2>3
    <2>10. Cardinality(In({"active"})') = Cardinality(r) + Cardinality(B)
        BY <1>5, <2>2, <2>4
    <2>11. /\ totalActivated' = totalActivated + Cardinality(B)
           /\ disconnectCount' = disconnectCount + Cardinality(D)
        BY <1>1
    <2> QED  BY <2>5, <2>8, <2>9, <2>10, <2>11
<1>13. accumulatedMessages' = DrainedOf(conn', Finished')
    <2>1. PICK c : c = conn
        OBVIOUS
    <2>2. PICK e : e = conn'
        OBVIOUS
    <2>3. PICK F : F = Gone
        OBVIOUS
    <2>4. PICK T : T = D
        OBVIOUS
    <2>5. PICK R : R = Gone \cup D
        OBVIOUS
    <2>6. /\ F \in SUBSET Account /\ T \in SUBSET Account /\ F \cap T = {} /\ R \in SUBSET Account
          /\ R = F \cup T
        BY <1>3, <1>5, <2>3, <2>4, <2>5
    <2>7. \A a \in R : c[a].drained \in Nat /\ e[a].drained = c[a].drained
        BY <1>9, <2>1, <2>2, <2>5 DEF Conn
    <2>8. DrainedOf(e, R) = DrainedOf(c, R)
        BY <2>6, <2>7, DrainedSame
    <2>9. DrainedOf(c, F \cup T) = DrainedOf(c, F) + DrainedOf(c, T)
        BY <2>6, <2>7, DrainedUnion
    <2>10. DrainedOf(conn', Finished') = DrainedOf(conn, Finished) + DrainedOf(conn, D)
        BY <1>5, <1>6, <2>1, <2>2, <2>3, <2>4, <2>5, <2>6, <2>8, <2>9
    <2>11. Drained(D) = DrainedOf(conn, D)
        BY DEF Drained, DrainedOf
    <2> QED  BY <1>1, <2>10, <2>11 DEF Counted
<1>14. Bounded'
    <2>1. ASSUME NEW a \in Account, conn'[a] \in Conn
          PROVE  Fits(conn'[a])
        <3>1. CASE a \in Activated
            BY <3>1, TickConn
        <3>2. CASE a \notin Activated
            <4>1. GoesOn(a)
                BY <3>2, TickConn
            <4> QED  BY <2>1, <4>1 DEF GoesOn, Bounded
        <3> QED  BY <3>1, <3>2
    <2>2. rampTokens' \in 0..(TicksPerSecond * TargetCount)
        <3>1. CASE RampRate = 0
            BY <3>1 DEF Tick, Bounded
        <3>2. CASE RampRate # 0
            BY <3>2, TokensSuffice DEF Tick
        <3> QED  BY <3>1, <3>2
    <2> QED  BY <2>1, <2>2 DEF Bounded
<1> QED  BY <1>10, <1>11, <1>12, <1>13, <1>14 DEF Counted

\* All of it is invariant.
Tally == Counting /\ Counted /\ Bounded /\ mgr \in {"off", "running", "stopping", "done"}

\* Nothing is counted of nobody.
LEMMA NoClients ==
    ASSUME NEW F, F = {}
    PROVE  DrainedOf(conn', F) = 0 /\ Cardinality(F) = 0
<1>1. PICK c : c = conn'
    OBVIOUS
<1>2. DrainedOf(c, {}) = 0
    BY DrainedEmpty
<1> QED  BY <1>1, <1>2, FS_EmptySet

\* A process begins with nothing.
LEMMA CountRestart ==
    ASSUME mgr' = "off", slots' = [a \in Account |-> Unavailable], Restart
    PROVE  Tally'
<1>1. \A a \in Account : slots'[a].state = "unavailable" /\ ~slots'[a].held
                         /\ slots'[a].err = "none"
    BY DEF Unavailable
<1>2. /\ Gone' = {} /\ Finished' = {} /\ In({"active"})' = {} /\ In(Live)' = {} /\ Held' = {}
    BY <1>1 DEF Gone, Finished, In, Held, Live
<1>3. /\ conn' = [a \in Account |-> None] /\ rampTokens' = 0
      /\ totalActivated' = 0 /\ disconnectCount' = 0 /\ accumulatedMessages' = 0
    BY DEF Restart
<1>4. \A a \in Account : conn'[a] \notin Conn
    BY <1>3, ManagerAssumption DEF Conn
<1>5. Counted'
    <2>1. DrainedOf(conn', Finished') = 0 /\ Cardinality(Gone') = 0 /\ Cardinality(In({"active"})') = 0
        BY <1>2, NoClients
    <2> QED  BY <1>3, <2>1 DEF Counted
<1>6. 0 \in 0..(TicksPerSecond * TargetCount)
    <2>1. TicksPerSecond * TargetCount \in Nat
        BY ManagerAssumption, ProvisioningAssumption
    <2> QED  BY <2>1
<1> QED  BY <1>2, <1>3, <1>4, <1>5, <1>6 DEF Tally, Counting, Bounded

LEMMA TallyInitially == Init => Tally
<1> SUFFICES ASSUME Init PROVE Tally
    OBVIOUS
<1>1. \A a \in Account : slots[a].state = "unavailable" /\ ~slots[a].held
                         /\ slots[a].err = "none"
    BY DEF Init, Unavailable
<1>3. /\ conn = [a \in Account |-> None] /\ rampTokens = 0 /\ mgr = "off"
      /\ totalActivated = 0 /\ disconnectCount = 0 /\ accumulatedMessages = 0
    BY DEF Init
<1>2. /\ Gone = {} /\ Finished = {} /\ In({"active"}) = {} /\ In(Live) = {} /\ Held = {}
    BY <1>1, <1>3 DEF Gone, Finished, In, Held, Live
<1>4. \A a \in Account : conn[a] \notin Conn
    BY <1>3, ManagerAssumption DEF Conn
<1>5. Counted
    <2>1. PICK c : c = conn
        OBVIOUS
    <2>2. DrainedOf(c, {}) = 0 /\ Cardinality({}) = 0
        BY DrainedEmpty, FS_EmptySet
    <2>3. DrainedOf(conn, Finished) = 0
        BY <1>2, <2>1, <2>2
    <2>4. Cardinality(Gone) = 0 /\ Cardinality(In({"active"})) = 0
        BY <1>2, <2>2
    <2> QED  BY <1>3, <2>3, <2>4 DEF Counted
<1>6. 0 \in 0..(TicksPerSecond * TargetCount)
    <2>1. TicksPerSecond * TargetCount \in Nat
        BY ManagerAssumption, ProvisioningAssumption
    <2> QED  BY <2>1
<1> QED  BY <1>2, <1>3, <1>4, <1>5, <1>6 DEF Tally, Counting, Bounded

\* Nothing that counts changes.
LEMMA TallyKept ==
    ASSUME Tally, UNCHANGED <<slots, conn, rampTokens, counters>>,
           mgr' = mgr \/ (mgr = "off" /\ mgr' = "running") \/ (mgr = "stopping" /\ mgr' = "done")
    PROVE  Tally'
<1>1. UNCHANGED <<totalActivated, disconnectCount, accumulatedMessages>>
    BY DEF counters
<1>2. /\ Gone' = Gone /\ Finished' = Finished /\ In({"active"})' = In({"active"})
      /\ In(Live)' = In(Live) /\ Held' = Held /\ In({"failed"})' = In({"failed"})
    BY DEF Gone, Finished, In, Held
<1> QED  BY <1>1, <1>2 DEF Tally, Counting, Counted, Bounded

\* Every step counts right.
LEMMA TallyStep ==
    ASSUME IInv, ClientsOK, PhaseOK, Tally, [Next]_vars
    PROVE  Tally'
<1>0. mgr' \in {"off", "running", "stopping", "done"}
    BY DEF CloseNext, Tally, Next, vars, mgrVars, StartLoaded, StartProvisioned, MergeProvisionResult,
           FailUnavailable, DropResult, Tick, Send, DropClient, Change, DrainOne, DrainEnds,
           Shutdown, AwaitDone, ShutdownEnds, ProcessEnds, ServiceProvisions
<1> USE DEF IInv
<1>1. CASE StartLoaded \/ MergeProvisionResult \/ FailUnavailable
    <2>1. \A a \in Account : slots[a].state = "unavailable"
        BY <1>1 DEF StartLoaded, MergeProvisionResult, FailUnavailable, PhaseOK, Unavailable, At
    <2>2. \A a \in Account : \/ slots'[a] = Failed("account")
                             \/ \E n : slots'[a] = Pending(n)
        BY <1>1, <2>1 DEF StartLoaded, MergeProvisionResult, FailUnavailable, SlotOf,
              FailSlotUnavailable
    <2>3. \A a \in Account : /\ slots'[a].state \notin Live /\ ~slots'[a].held
                             /\ slots'[a].err # "disconnected"
        BY <2>2 DEF Failed, Pending, Unavailable, Live
    <2>4. /\ UNCHANGED <<conn, rampTokens, counters>> /\ mgr \in {"off", "running"}
          /\ mgr' = "running"
        BY <1>1 DEF StartLoaded, MergeProvisionResult, FailUnavailable
    <2> QED  BY <1>0, <2>1, <2>3, <2>4, CountStart DEF Tally
<1>2. CASE StartProvisioned \/ ShutdownEnds
    BY <1>2, TallyKept DEF StartProvisioned, ShutdownEnds
<1>8. CASE Shutdown
    <2>1. /\ UNCHANGED <<slots, rampTokens, counters>> /\ mgr = "running" /\ mgr' = "stopping"
          /\ UNCHANGED conn /\ Held = In(Live)
        BY <1>8 DEF Shutdown, PhaseOK
    <2>2. Finished' = Finished
        BY <2>1 DEF Finished, In, Held
    <2>3. \A b \in Account : GoesOn(b)
        BY <2>1 DEF GoesOn
    <2> QED  BY <1>0, <2>1, <2>2, <2>3, OnlyClients DEF Tally
<1>3. CASE UNCHANGED mgrVars
    BY <1>3, TallyKept DEF mgrVars
<1>4. CASE Tick
    BY <1>0, <1>4, CountTick DEF Tally
<1>5. CASE \/ \E u \in 0..TargetCount : Send(u) \/ DropClient(u)
           \/ \E a \in Account : DrainOne(a) \/ DrainEnds(a)
           \/ CloseNext
    <2>0. \/ \E u \in 0..TargetCount : Send(u) \/ DropClient(u)
          \/ \E a \in Account : DrainOne(a) \/ DrainEnds(a)
        BY <1>5, CloseDrops
    <2>1. /\ UNCHANGED <<slots, rampTokens, counters>> /\ Finished' = Finished
          /\ \A b \in Account : GoesOn(b)
        BY <2>0, SendGoesOn, DropGoesOn, DrainGoesOn DEF Tally
    <2> QED  BY <1>0, <2>1, OnlyClients DEF Tally
<1>6. CASE AwaitDone
    BY <1>0, <1>6, CountAwait DEF Tally
<1>7. CASE ProcessEnds
    BY <1>7, CountRestart DEF ProcessEnds
<1> QED  BY <1>1, <1>2, <1>3, <1>4, <1>5, <1>6, <1>7, <1>8 DEF Next, DropResult, ServiceProvisions,
            vars, mgrVars

LEMMA TallyInvariance == Spec => [](IInv /\ ClientsOK /\ PhaseOK /\ Tally)
<1>1. Init => IInv /\ ClientsOK /\ PhaseOK /\ Tally
    BY Initially, ClientsInitially, TallyInitially
<1>2. (IInv /\ ClientsOK /\ PhaseOK /\ Tally) /\ [Next]_vars =>
          (IInv /\ ClientsOK /\ PhaseOK /\ Tally)'
    BY InvariantStep, ClientsStep, TallyStep
<1> QED  BY <1>1, <1>2, PTL DEF Spec

\* The counters are exact and final: every disconnected client, and at shutdown
\* every held one, is counted once and after its drain has ended, for any number of
\* accounts, any ramp rate and any order of ticks, messages, drains and stops
\* (onTick, failSlot, shutdown).
THEOREM CountsExact == Spec => []CountersExact
<1>1. ClientsOK /\ Tally => CountersExact
    <2> SUFFICES ASSUME ClientsOK, Tally PROVE CountersExact
        OBVIOUS
    <2>1. Finished \in SUBSET Account /\ Held \in SUBSET Account /\ Finished \cap Held = {}
        BY DEF Tally, Counting, Finished, Held, In, Gone, Live
    <2>2. \A a \in Finished \cup Held : conn[a].drained \in Nat
        BY DEF Tally, Counting, ClientsOK, Conn
    <2>3. Drained(Finished \cup Held) = Drained(Finished) + Drained(Held)
        <3>1. PICK c : c = conn
            OBVIOUS
        <3>2. PICK F : F = Finished
            OBVIOUS
        <3>3. PICK H : H = Held
            OBVIOUS
        <3>4. DrainedOf(c, F \cup H) = DrainedOf(c, F) + DrainedOf(c, H)
            BY <2>1, <2>2, <3>1, <3>2, <3>3, DrainedUnion
        <3> QED  BY <3>1, <3>2, <3>3, <3>4 DEF Drained, DrainedOf
    <2>4. Drained(Finished) = accumulatedMessages
        BY DEF Tally, Counted, Drained, DrainedOf
    <2> QED  BY <2>3, <2>4 DEF CountersExact, Tally, Counting, Counted, TotalMessages, Gone
<1> QED  BY <1>1, TallyInvariance, PTL

\* Type correctness of the manager, its slots, its clients and its counters: queues
\* and tokens stay within their bounds, and a running manager holds the clients of
\* exactly its live slots.
THEOREM TypeCorrect == Spec => []TypeOK
<1>1. IInv /\ ClientsOK /\ PhaseOK /\ Tally => TypeOK
    <2> SUFFICES ASSUME IInv, ClientsOK, PhaseOK, Tally PROVE TypeOK
        OBVIOUS
    <2>1. ProvTypeOK
        BY DEF IInv, Rows, TasksOK, Tasks, ProvTypeOK
    <2>2. conn \in [Account -> Client \cup {None}]
        <3>1. \A a \in Account : conn[a] \in Conn => conn[a] \in Client
            BY ManagerAssumption DEF Tally, Bounded, Fits, Conn, Client
        <3> QED  BY <3>1 DEF ClientsOK
    <2>3. \A a \in Held : conn[a] # None
        BY ManagerAssumption DEF ClientsOK, Conn
    <2>4. totalActivated \in Nat /\ disconnectCount \in Nat
        <3>1. Gone \in SUBSET Account /\ In({"active"}) \in SUBSET Account
            BY DEF Gone, In
        <3>2. Cardinality(Gone) \in Nat /\ Cardinality(In({"active"})) \in Nat
            BY <3>1, SetsFinite
        <3> QED  BY <3>2 DEF Tally, Counted
    <2>5. accumulatedMessages \in Nat
        <3>1. PICK c : c = conn
            OBVIOUS
        <3>2. PICK F : F = Finished
            OBVIOUS
        <3>3. F \in SUBSET Account /\ \A a \in F : c[a].drained \in Nat
            BY <3>1, <3>2 DEF Tally, Counting, Finished, In, Conn
        <3>4. DrainedOf(c, F) \in Nat
            BY <3>3, DrainedTyped
        <3> QED  BY <3>1, <3>2, <3>4 DEF Tally, Counted
    <2> QED  BY <2>1, <2>2, <2>3, <2>4, <2>5 DEF TypeOK, IInv, SlotsOK, ClientsOK, PhaseOK, Tally, Bounded
<1> QED  BY <1>1, TallyInvariance, PTL

=============================================================================
