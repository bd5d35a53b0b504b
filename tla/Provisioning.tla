---------------------------- MODULE Provisioning ----------------------------
(***************************************************************************)
(* Provisioning of the synthetic accounts (synthetic/provisioner.go,       *)
(* storage/synthetic.go): the rows of the users table and the provisioners *)
(* that may work on it at once, a service's background goroutine and the   *)
(* synthetic-provision command.  Each SQL statement is a step.  A row says *)
(* whether it is marked as synthetic, looks as it must, and what position  *)
(* it holds; the ID of account a is a, and 0 is the ID of no account.      *)
(***************************************************************************)
EXTENDS Naturals, FiniteSets

CONSTANTS TargetCount, \* accounts wanted
          Provisioner, \* goroutine or processes that provision
          InitialRow,  \* rows that accounts may have to begin with
          ChunkSize,   \* bulkCreateChunkSize
          None,
          MaxFailure   \* bound: statements that fail, passwords refused

Account == 1..TargetCount
Row == [marked : BOOLEAN, looks : BOOLEAN, pos : {"none", "placed", "walked"}]
NewRow == [marked |-> TRUE, looks |-> TRUE, pos |-> "placed"]

ASSUME ProvisioningAssumption ==
    /\ TargetCount \in Nat /\ ChunkSize \in Nat \ {0} /\ MaxFailure \in Nat
    /\ InitialRow \subseteq Row /\ None \notin Row

VARIABLES
    accounts,  \* users: a row per account, None where there is none
    task,      \* what each provisioner is doing
    failures
provVars == <<accounts, task, failures>>

Idle == [step |-> "idle", existing |-> {}, unlike |-> {}, unplaced |-> {},
         created |-> {}, named |-> {}, failed |-> {}]
Step == {"idle", "mark", "load", "create", "appear", "place", "report", "error"}

At(w, step) == task[w].step = step
Fail == failures < MaxFailure /\ failures' = failures + 1
Advance(w, t) == task' = [task EXCEPT ![w] = t]

\* The accounts of the next statement.
Chunk(left) == {a \in left : Cardinality({b \in left : b < a}) < ChunkSize}

---------------------------------------------------------------------------
(* The steps of Provision *)

Provision(w) ==
    /\ At(w, "idle")
    /\ Advance(w, [Idle EXCEPT !.step = "mark"])
    /\ UNCHANGED <<accounts, failures>>

Marked(row) == [row EXCEPT !.marked = TRUE]

CorrectSyntheticMarkers(w) ==
    /\ At(w, "mark")
    /\ accounts' = [a \in Account |-> IF accounts[a] = None THEN None
                                      ELSE Marked(accounts[a])]
    /\ Advance(w, [task[w] EXCEPT !.step = "load"])
    /\ UNCHANGED failures

\* The first two statements end the whole provisioning when they fail.
GiveUp(w) ==
    /\ At(w, "mark") \/ At(w, "load")
    /\ Advance(w, [task[w] EXCEPT !.step = "error"])
    /\ Fail /\ UNCHANGED accounts

Loaded == {a \in Account : accounts[a] # None /\ accounts[a].marked}

\* indexExisting, and the partition into accounts to create and to correct.
IndexExisting(w) ==
    /\ At(w, "load")
    /\ Advance(w, [task[w] EXCEPT
           !.step     = "create",
           !.existing = Loaded,
           !.unlike   = {a \in Loaded : ~accounts[a].looks},
           !.unplaced = {a \in Loaded : accounts[a].pos = "none"}])
    /\ UNCHANGED <<accounts, failures>>

ToCreate(w) == Account \ task[w].existing

\* The password is refused or not hashed: an early return.
RefusePassword(w) ==
    /\ At(w, "create") /\ task[w].created = {} /\ ToCreate(w) # {}
    /\ Advance(w, [task[w] EXCEPT !.step = "report", !.failed = ToCreate(w)])
    /\ Fail /\ UNCHANGED accounts

Uncreated(w) == ToCreate(w) \ task[w].created

\* One statement of BulkCreateSyntheticUsers; a name that exists makes it fail.
CreateChunk(w) ==
    /\ At(w, "create") /\ Uncreated(w) # {}
    /\ \A a \in Chunk(Uncreated(w)) : accounts[a] = None
    /\ accounts' = [a \in Account |->
                       IF a \in Chunk(Uncreated(w)) THEN NewRow ELSE accounts[a]]
    /\ Advance(w, [task[w] EXCEPT !.created = @ \cup Chunk(Uncreated(w))])
    /\ UNCHANGED failures

\* Phase 2 names the existing accounts; without any there is nothing to correct.
Phase2(w, failed) ==
    Advance(w, [task[w] EXCEPT
        !.step   = IF task[w].existing = {} THEN "report" ELSE "appear",
        !.named  = task[w].existing,
        !.failed = failed])

\* The error of one chunk is that of all accounts to create, also of those
\* that were created.
CreateFails(w) ==
    /\ At(w, "create") /\ Uncreated(w) # {}
    /\ \/ Fail
       \/ /\ \E a \in Chunk(Uncreated(w)) : accounts[a] # None
          /\ UNCHANGED failures
    /\ Phase2(w, ToCreate(w))
    /\ UNCHANGED accounts

CreateEnds(w) ==
    /\ At(w, "create") /\ Uncreated(w) = {}
    /\ Phase2(w, {})
    /\ UNCHANGED <<accounts, failures>>

Corrected(row) == [row EXCEPT !.looks = TRUE]

\* One statement of BulkUpdateAppearances.
UpdateAppearances(w) ==
    /\ At(w, "appear")
    /\ accounts' = [a \in Account |-> IF a \in Chunk(task[w].unlike)
                                      THEN Corrected(accounts[a]) ELSE accounts[a]]
    /\ Advance(w, [task[w] EXCEPT !.unlike = @ \ Chunk(@),
                                  !.step = IF Chunk(task[w].unlike) = task[w].unlike
                                           THEN "place" ELSE @])
    /\ UNCHANGED failures

\* Mutant: the position is set whatever it is.
WithInitialPosition(row) == [row EXCEPT !.pos = "placed"]
WithPosition(row) == [row EXCEPT !.pos = IF @ = "none" THEN "placed" ELSE @]

\* BulkInitializePositions, a transaction.
InitializePositions(w) ==
    /\ At(w, "place")
    /\ accounts' = [a \in Account |-> IF a \in task[w].unplaced
                                      THEN WithPosition(accounts[a]) ELSE accounts[a]]
    /\ Advance(w, [task[w] EXCEPT !.step = "report"])
    /\ UNCHANGED failures

\* Mutant: the error of a correction goes unreported.
FailNone(w) == task[w].failed
\* failAccounts.
FailExisting(w) == task[w].failed \cup task[w].existing

CorrectionFails(w) ==
    /\ \/ At(w, "appear") /\ task[w].unlike # {}
       \/ At(w, "place") /\ task[w].unplaced # {}
    /\ Advance(w, [task[w] EXCEPT !.step = "report", !.failed = FailExisting(w)])
    /\ Fail /\ UNCHANGED accounts

ProvisionStep(w) ==
    \/ CorrectSyntheticMarkers(w) \/ IndexExisting(w) \/ GiveUp(w)
    \/ RefusePassword(w) \/ CreateChunk(w) \/ CreateFails(w) \/ CreateEnds(w)
    \/ UpdateAppearances(w) \/ InitializePositions(w) \/ CorrectionFails(w)

\* A provisioner has reported, or its process is gone.
Forget(w) ==
    /\ Advance(w, Idle)
    /\ UNCHANGED <<accounts, failures>>

\* The game saves the position of an account that plays.
Walked(row) == [row EXCEPT !.pos = "walked"]

SavePosition(a) ==
    /\ accounts[a] # None
    /\ accounts' = [accounts EXCEPT ![a] = Walked(@)]
    /\ UNCHANGED <<task, failures>>

ProvInit ==
    /\ accounts \in [Account -> InitialRow \cup {None}]
    /\ task = [w \in Provisioner |-> Idle]
    /\ failures = 0

---------------------------------------------------------------------------

ProvTypeOK ==
    /\ accounts \in [Account -> Row \cup {None}]
    /\ task \in [Provisioner ->
           [step : Step, existing : SUBSET Account, unlike : SUBSET Account,
            unplaced : SUBSET Account, created : SUBSET Account,
            named : SUBSET Account, failed : SUBSET Account]]
    /\ failures \in 0..MaxFailure

Complete(a) == accounts[a] # None /\ accounts[a] \in [marked : {TRUE}, looks : {TRUE},
                                                     pos : {"placed", "walked"}]

\* What a provisioner reports is so, whatever another one or an earlier,
\* interrupted run did to the same rows: an account reported without an error
\* exists, and is complete if it is reported with its ID.
ReportTrue ==
    \A w \in Provisioner : At(w, "report") => \A a \in Account \ task[w].failed :
        /\ accounts[a] # None
        /\ a \in task[w].named => Complete(a)

\* A position the game saved is never reset, also when it is saved after the
\* provisioner read that there is none (the IS NULL of BulkInitializePositions;
\* "Never reset an existing saved position").
PositionsKept ==
    [][\A a \in Account : accounts[a] # None =>
          /\ accounts'[a] # None
          /\ accounts[a].pos = "walked" => accounts'[a].pos = "walked"]_accounts
==============================================================================
