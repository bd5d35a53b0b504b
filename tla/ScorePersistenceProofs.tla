----------------------- MODULE ScorePersistenceProofs -----------------------
(***************************************************************************)
(* Proofs about ScorePersistence, for any number of users, points, outages *)
(* and any capacity of the channel: points are permanent, and nothing is   *)
(* lost on its way as long as nothing is dropped.                          *)
(***************************************************************************)
EXTENDS ScorePersistence, WellFoundedInduction, TLAPS

---------------------------------------------------------------------------
(* The largest of some naturals *)

\* A non-empty set of naturals has a least element.
LEMMA LeastNatural ==
    ASSUME NEW T, T \subseteq Nat, T # {}
    PROVE  \E m \in T : \A n \in T : m <= n
<1>1. PICK m \in T : \A n \in T : <<n, m>> \notin OpToRel(<, Nat)
    BY NatLessThanWellFounded, WFMin
<1>2. \A n \in T : <<n, m>> \notin {ss \in Nat \X Nat : ss[1] < ss[2]}
    BY <1>1, Zenon DEF OpToRel
<1>3. ASSUME NEW n \in T
      PROVE  m <= n
    <2>1. <<n, m>> \in Nat \X Nat /\ ~(n < m)
        BY <1>2
    <2> QED  BY <2>1
<1> QED  BY <1>3

\* What Highest chooses from bounded naturals is their maximum.
LEMMA HighestIs ==
    ASSUME NEW S, S \subseteq Nat, S # {}, NEW k \in Nat, \A n \in S : n <= k
    PROVE  Highest(S) \in S /\ \A n \in S : n <= Highest(S)
<1> DEFINE B == {b \in Nat : \A n \in S : n <= b}
<1>1. PICK m \in B : \A b \in B : m <= b
    <2>1. B \subseteq Nat /\ B # {}
        OBVIOUS
    <2> HIDE DEF B
    <2> QED  BY <2>1, LeastNatural
<1>2. m \in S
    <2>1. SUFFICES ASSUME m \notin S PROVE FALSE
        OBVIOUS
    <2>2. PICK n \in S : n <= m
        OBVIOUS
    <2>3. m - 1 \in B
        BY <2>1, <2>2
    <2> QED  BY <2>3, <1>1
<1>3. m \in S /\ \A n \in S : n <= m
    BY <1>2
<1> HIDE DEF B
<1> QED  BY <1>3 DEF Highest

---------------------------------------------------------------------------
(* The inductive invariant *)

\* The types of everything but the agenda, and no copy of a score is above what
\* was earned.
Values ==
    /\ stopping \in BOOLEAN /\ online \subseteq User
    /\ scores \in [User -> Nat] /\ earned \in [User -> Nat]
    /\ dropped \in BOOLEAN /\ submitCh \in Seq(ScoreUpdate) /\ Len(submitCh) <= BufferSize
    /\ pending \in [User -> Nat]
    /\ at \in {"loop", "select", "flush", "sync", "drain", "drainflush"}
    /\ snapshot \subseteq ScoreUpdate /\ failed \in BOOLEAN
    /\ db \in [User -> Nat] /\ dbUp \in BOOLEAN /\ dbOpen \in BOOLEAN
    /\ loadFails \in Nat
Bounded ==
    /\ \A u \in User : /\ scores[u] <= earned[u] /\ db[u] <= earned[u]
                       /\ pending[u] <= earned[u]
    /\ \A i \in DOMAIN submitCh : submitCh[i].score <= earned[submitCh[i].user]
    /\ \A x \in snapshot : x.score <= earned[x.user]

Remove1(u) == [op |-> "remove", user |-> u]
Return1 == [op |-> "return"]
Sync1(u, s) == [op |-> "sync", user |-> u, score |-> s]
\* The agendas there are.  A departure hands over all that was earned, and
\* goes on when that is saved.
AgendaOK ==
    \/ agenda \in {<<>>, <<Drain>>, <<Return1>>, <<Drain, Return1>>}
    \/ \E u \in online, s \in Nat :
          /\ agenda = <<Sync1(u, s), Remove1(u), Drain>>
          /\ s <= earned[u] /\ (loadFails = 0 => s = earned[u])
    \/ \E u \in online : /\ agenda = <<Remove1(u), Drain>>
                         /\ loadFails = 0 => db[u] = earned[u]
\* The worker answers the request the actor waits for.
Answering ==
    /\ at = "sync" => Doing("sync")
    /\ at \in {"drain", "drainflush"} => Doing("drain")
IInv == Values /\ Bounded /\ AgendaOK /\ Answering /\ PermanentPoints /\ NothingLost

---------------------------------------------------------------------------
(* What the actor is doing *)

LEMMA Syncing ==
    ASSUME AgendaOK, Doing("sync")
    PROVE  \E u \in online, s \in Nat :
               /\ Head(agenda) = Sync1(u, s) /\ Tail(agenda) = <<Remove1(u), Drain>>
               /\ s <= earned[u] /\ (loadFails = 0 => s = earned[u])
<1>1. agenda \notin {<<>>, <<Drain>>, <<Return1>>, <<Drain, Return1>>}
    BY DEF Doing, Drain, Return1
<1>2. \A u \in online : agenda # <<Remove1(u), Drain>>
    BY DEF Doing, Remove1, Drain
<1>3. PICK u \in online, s \in Nat :
          /\ agenda = <<Sync1(u, s), Remove1(u), Drain>>
          /\ s <= earned[u] /\ (loadFails = 0 => s = earned[u])
    BY <1>1, <1>2 DEF AgendaOK
<1>4. Head(agenda) = Sync1(u, s) /\ Tail(agenda) = <<Remove1(u), Drain>>
    BY <1>3
<1> QED  BY <1>3, <1>4

LEMMA Removing ==
    ASSUME AgendaOK, Doing("remove")
    PROVE  \E u \in online : /\ Head(agenda) = Remove1(u) /\ Tail(agenda) = <<Drain>>
                             /\ loadFails = 0 => db[u] = earned[u]
<1>1. agenda \notin {<<>>, <<Drain>>, <<Return1>>, <<Drain, Return1>>}
    BY DEF Doing, Drain, Return1
<1>2. \A u \in online, s \in Nat : agenda # <<Sync1(u, s), Remove1(u), Drain>>
    BY DEF Doing, Sync1, Remove1, Drain
<1>3. PICK u \in online : /\ agenda = <<Remove1(u), Drain>>
                          /\ loadFails = 0 => db[u] = earned[u]
    BY <1>1, <1>2 DEF AgendaOK
<1>4. Head(agenda) = Remove1(u) /\ Tail(agenda) = <<Drain>>
    BY <1>3
<1> QED  BY <1>3, <1>4

LEMMA Draining ==
    ASSUME AgendaOK, Doing("drain")
    PROVE  Tail(agenda) \in {<<>>, <<Return1>>}
<1>1. \A u \in online : agenda # <<Remove1(u), Drain>>
    BY DEF Doing, Remove1, Drain
<1>2. \A u \in online, s \in Nat : agenda # <<Sync1(u, s), Remove1(u), Drain>>
    BY DEF Doing, Sync1, Remove1, Drain
<1>3. agenda # <<>> /\ agenda # <<Return1>>
    BY DEF Doing, Return1
<1>4. agenda = <<Drain>> \/ agenda = <<Drain, Return1>>
    BY <1>1, <1>2, <1>3 DEF AgendaOK
<1>5. Tail(<<Drain, Return1>>) = <<Return1>>
    OBVIOUS
<1>6. Tail(<<Drain>>) = <<>>
    OBVIOUS
<1> QED  BY <1>4, <1>5, <1>6

\* What the worker is about to flush, and what it merges, is typed and bounded.
LEMMA Snapshot ==
    ASSUME Values, Bounded,
           snapshot' = {[user |-> u, score |-> pending[u]] : u \in {v \in User : pending[v] > 0}}
    PROVE  snapshot' \subseteq ScoreUpdate /\ \A x \in snapshot' : x.score <= earned[x.user]
BY DEF Values, Bounded, ScoreUpdate

LEMMA Merged ==
    ASSUME Values, Bounded, ReceiveSubmit
    PROVE  /\ pending' \in [User -> Nat]
           /\ \A u \in User :
                 /\ pending[u] <= pending'[u] /\ pending'[u] <= earned[u]
                 /\ \A i \in DOMAIN submitCh : submitCh[i].user = u =>
                        submitCh[i].score <= pending'[u]
<1> DEFINE S(u) == {pending[u]} \cup
               {submitCh[i].score : i \in {j \in DOMAIN submitCh : submitCh[j].user = u}}
<1>1. \A i \in DOMAIN submitCh : submitCh[i] \in ScoreUpdate
    BY DEF Values
<1>2. pending' = [u \in User |-> Highest(S(u))]
    BY DEF ReceiveSubmit
<1>3. ASSUME NEW u \in User
      PROVE  /\ Highest(S(u)) \in S(u) /\ \A n \in S(u) : n <= Highest(S(u))
             /\ Highest(S(u)) \in Nat /\ Highest(S(u)) <= earned[u]
    <2>1. S(u) \subseteq Nat
        BY <1>1 DEF Values, ScoreUpdate
    <2>2. \A n \in S(u) : n <= earned[u]
        BY <1>1 DEF Values, Bounded, ScoreUpdate
    <2>3. S(u) # {} /\ earned[u] \in Nat
        BY DEF Values
    <2> HIDE DEF S
    <2> QED  BY <2>1, <2>2, <2>3, HighestIs
<1>4. \A u \in User : pending[u] \in S(u) /\ \A i \in DOMAIN submitCh :
          submitCh[i].user = u => submitCh[i].score \in S(u)
    OBVIOUS
<1> HIDE DEF S
<1> QED  BY <1>2, <1>3, <1>4

\* A pickup's submission.
LEMMA Submitted ==
    ASSUME Values, Bounded, NEW u \in User, Collect(u)
    PROVE  /\ submitCh' \in Seq(ScoreUpdate) /\ Len(submitCh') <= BufferSize
           /\ \A i \in DOMAIN submitCh' : submitCh'[i].score <= earned'[submitCh'[i].user]
           /\ \A i \in DOMAIN submitCh : i \in DOMAIN submitCh' /\ submitCh'[i] = submitCh[i]
           /\ submitCh' # submitCh => \E i \in DOMAIN submitCh' :
                  submitCh'[i] = [user |-> u, score |-> scores[u] + 1]
<1> DEFINE x == [user |-> u, score |-> scores[u] + 1]
<1>1. x \in ScoreUpdate
    BY DEF Values, ScoreUpdate
<1>2. x.score <= earned'[x.user]
    BY DEF Values, Bounded, Collect
<1>3. \A v \in User : earned[v] <= earned'[v] /\ earned[v] \in Nat /\ earned'[v] \in Nat
    BY DEF Values, Collect
<1>4. \A i \in DOMAIN submitCh : submitCh[i] \in ScoreUpdate
    BY DEF Values
<1>5. \A i \in DOMAIN submitCh : submitCh[i].score <= earned'[submitCh[i].user]
    BY <1>3, <1>4 DEF Bounded, ScoreUpdate
<1>6. CASE Len(submitCh) < BufferSize
    <2>1. submitCh' = Append(submitCh, x)
        BY <1>6 DEF Collect, Submit
    <2> HIDE DEF x
    <2>2. /\ submitCh' \in Seq(ScoreUpdate) /\ Len(submitCh') = Len(submitCh) + 1
          /\ DOMAIN submitCh' = 1..Len(submitCh') /\ DOMAIN submitCh = 1..Len(submitCh)
          /\ submitCh'[Len(submitCh')] = x
          /\ \A i \in DOMAIN submitCh : submitCh'[i] = submitCh[i]
        BY <2>1, <1>1 DEF Values
    <2>3. Len(submitCh) \in Nat
        BY DEF Values
    <2>4. \A i \in DOMAIN submitCh' : submitCh'[i].score <= earned'[submitCh'[i].user]
        BY <2>2, <2>3, <1>2, <1>5
    <2> USE DEF x
    <2> QED  BY <2>2, <2>3, <2>4, <1>6, ScoreAssumption
<1>7. CASE ~(Len(submitCh) < BufferSize)
    BY <1>7, <1>5 DEF Collect, Submit, Values
<1> QED  BY <1>6, <1>7

---------------------------------------------------------------------------
\* Every step keeps the types.
LEMMA ValuesStep ==
    ASSUME Values, Bounded, AgendaOK, Answering, [Next]_vars
    PROVE  Values'
<1> USE ScoreAssumption DEF Values, actorVars, workerVars, dbVars, channel
<1>1. ASSUME NEW u \in User, Register(u)
      PROVE  Values'
    <2>1. scores' \in [User -> Nat] /\ loadFails' \in Nat
        <3>1. CASE scores' = [scores EXCEPT ![u] = db[u]] /\ UNCHANGED loadFails
            BY <3>1
        <3>2. CASE loadFails' = loadFails + 1 /\ UNCHANGED scores
            BY <3>2
        <3> QED  BY <1>1, <3>1, <3>2 DEF Register
    <2> QED  BY <1>1, <2>1 DEF Register
<1>2. ASSUME NEW u \in User, Collect(u)
      PROVE  Values'
    <2>1. submitCh' \in Seq(ScoreUpdate) /\ Len(submitCh') <= BufferSize
        BY <1>2, Submitted
    <2>2. scores' \in [User -> Nat] /\ earned' \in [User -> Nat] /\ dropped' \in BOOLEAN
        BY <1>2 DEF Collect
    <2>3. UNCHANGED <<stopping, online, pending, workerVars, dbVars, loadFails>>
        BY <1>2 DEF Collect
    <2> QED  BY <2>1, <2>2, <2>3
<1>3. ASSUME NEW u \in User, Leave(u)
      PROVE  Values'
    BY <1>3 DEF Leave, Selecting
<1>4. ASSUME OtherEvent
      PROVE  Values'
    BY <1>4 DEF OtherEvent, Selecting
<1>5. ASSUME Stop
      PROVE  Values'
    BY <1>5 DEF Stop, Selecting
<1>6. ASSUME Remove
      PROVE  Values'
    BY <1>6 DEF Remove
<1>7. ASSUME CloseDatabase
      PROVE  Values'
    BY <1>7 DEF CloseDatabase
<1>8. ASSUME Loop
      PROVE  Values'
    BY <1>8, Snapshot DEF Loop
<1>9. ASSUME FlushOne
      PROVE  Values'
    BY <1>9 DEF FlushOne, SaveScore, Settle, Larger, ScoreUpdate
<1>10. ASSUME FlushEnd
      PROVE  Values'
    BY <1>10 DEF FlushEnd
<1>11. ASSUME ReceiveSubmit
      PROVE  Values'
    <2>1. pending' \in [User -> Nat]
        BY <1>11, Merged
    <2>2. /\ submitCh' = <<>> /\ at' = "loop"
          /\ UNCHANGED <<actorVars, dropped, snapshot, failed, dbVars>>
        BY <1>11 DEF ReceiveSubmit
    <2>3. submitCh' \in Seq(ScoreUpdate) /\ Len(submitCh') <= BufferSize
        BY <2>2
    <2> QED  BY <2>1, <2>2, <2>3
<1>12. ASSUME Retry
      PROVE  Values'
    BY <1>12 DEF Retry
<1>13. ASSUME ReceiveSync
      PROVE  Values'
    BY <1>13 DEF ReceiveSync
<1>14. ASSUME PersistSync
      PROVE  Values'
    BY <1>14, Syncing DEF PersistSync, SaveScore, Larger, Answering, Sync1
<1>15. ASSUME ReceiveDrain
      PROVE  Values'
    BY <1>15 DEF ReceiveDrain
<1>16. ASSUME DrainFlush
      PROVE  Values'
    BY <1>16, Snapshot DEF DrainFlush
<1>17. ASSUME DrainAgain
      PROVE  Values'
    BY <1>17 DEF DrainAgain
<1>18. ASSUME DrainEnd
      PROVE  Values'
    BY <1>18 DEF DrainEnd, Drained
<1>19. ASSUME Outage
      PROVE  Values'
    BY <1>19 DEF Outage
<1>20. ASSUME Recovery
      PROVE  Values'
    BY <1>20 DEF Recovery
<1>21. CASE UNCHANGED vars
    BY <1>21 DEF vars
<1> QED  BY <1>1, <1>2, <1>3, <1>4, <1>5, <1>6, <1>7, <1>8, <1>9, <1>10, <1>11, <1>12,
         <1>13, <1>14, <1>15, <1>16, <1>17, <1>18, <1>19, <1>20, <1>21 DEF Next,
         ActorNext, WorkerNext

\* No step copies a score above what was earned.
LEMMA BoundedStep ==
    ASSUME Values, Bounded, AgendaOK, Answering, [Next]_vars
    PROVE  Bounded'
<1> USE ScoreAssumption DEF Values, Bounded, actorVars, workerVars, dbVars, channel
<1>1. ASSUME NEW u \in User, Register(u)
      PROVE  Bounded'
    BY <1>1 DEF Register, Selecting
<1>2. ASSUME NEW u \in User, Collect(u)
      PROVE  Bounded'
    <2>1. \A i \in DOMAIN submitCh' : submitCh'[i].score <= earned'[submitCh'[i].user]
        BY <1>2, Submitted
    <2>2. /\ scores' = [scores EXCEPT ![u] = scores[u] + 1]
          /\ earned' = [earned EXCEPT ![u] = earned[u] + 1]
          /\ UNCHANGED <<pending, db, snapshot>>
        BY <1>2 DEF Collect
    <2>3. \A v \in User : earned[v] <= earned'[v]
        BY <2>2
    <2>4. \A v \in User : scores'[v] <= earned'[v] /\ db'[v] <= earned'[v] /\ pending'[v] <= earned'[v]
        BY <2>2
    <2>5. \A x \in snapshot' : x.score <= earned'[x.user]
        BY <2>2, <2>3 DEF ScoreUpdate
    <2> QED  BY <2>1, <2>4, <2>5
<1>3. ASSUME NEW u \in User, Leave(u)
      PROVE  Bounded'
    BY <1>3 DEF Leave, Selecting
<1>4. ASSUME OtherEvent
      PROVE  Bounded'
    BY <1>4 DEF OtherEvent, Selecting
<1>5. ASSUME Stop
      PROVE  Bounded'
    BY <1>5 DEF Stop, Selecting
<1>6. ASSUME Remove
      PROVE  Bounded'
    BY <1>6 DEF Remove
<1>7. ASSUME CloseDatabase
      PROVE  Bounded'
    BY <1>7 DEF CloseDatabase
<1>8. ASSUME Loop
      PROVE  Bounded'
    BY <1>8, Snapshot DEF Loop
<1>9. ASSUME FlushOne
      PROVE  Bounded'
    BY <1>9 DEF FlushOne, SaveScore, Settle, Larger, ScoreUpdate
<1>10. ASSUME FlushEnd
      PROVE  Bounded'
    BY <1>10 DEF FlushEnd
<1>11. ASSUME ReceiveSubmit
      PROVE  Bounded'
    <2>1. \A u \in User : pending'[u] <= earned[u]
        BY <1>11, Merged
    <2>2. submitCh' = <<>> /\ UNCHANGED <<scores, earned, db, snapshot>>
        BY <1>11 DEF ReceiveSubmit
    <2> QED  BY <2>1, <2>2
<1>12. ASSUME Retry
      PROVE  Bounded'
    BY <1>12 DEF Retry
<1>13. ASSUME ReceiveSync
      PROVE  Bounded'
    BY <1>13 DEF ReceiveSync
<1>14. ASSUME PersistSync
      PROVE  Bounded'
    BY <1>14, Syncing DEF PersistSync, SaveScore, Larger, Answering, Sync1
<1>15. ASSUME ReceiveDrain
      PROVE  Bounded'
    BY <1>15 DEF ReceiveDrain
<1>16. ASSUME DrainFlush
      PROVE  Bounded'
    BY <1>16, Snapshot DEF DrainFlush
<1>17. ASSUME DrainAgain
      PROVE  Bounded'
    BY <1>17 DEF DrainAgain
<1>18. ASSUME DrainEnd
      PROVE  Bounded'
    BY <1>18 DEF DrainEnd, Drained
<1>19. ASSUME Outage
      PROVE  Bounded'
    BY <1>19 DEF Outage
<1>20. ASSUME Recovery
      PROVE  Bounded'
    BY <1>20 DEF Recovery
<1>21. CASE UNCHANGED vars
    BY <1>21 DEF vars
<1> QED  BY <1>1, <1>2, <1>3, <1>4, <1>5, <1>6, <1>7, <1>8, <1>9, <1>10, <1>11, <1>12,
         <1>13, <1>14, <1>15, <1>16, <1>17, <1>18, <1>19, <1>20, <1>21 DEF Next,
         ActorNext, WorkerNext

\* The worker answers what the actor waits for.
LEMMA AnsweringStep ==
    ASSUME Values, Bounded, AgendaOK, Answering, [Next]_vars
    PROVE  Answering'
<1> USE ScoreAssumption DEF Answering, Doing, actorVars, workerVars, dbVars, channel
<1>1. ASSUME NEW u \in User, Register(u)
      PROVE  Answering'
    BY <1>1 DEF Register, Selecting
<1>2. ASSUME NEW u \in User, Collect(u)
      PROVE  Answering'
    BY <1>2 DEF Collect, Submit, Selecting
<1>3. ASSUME NEW u \in User, Leave(u)
      PROVE  Answering'
    BY <1>3 DEF Leave, Selecting
<1>4. ASSUME OtherEvent
      PROVE  Answering'
    BY <1>4 DEF OtherEvent, Selecting
<1>5. ASSUME Stop
      PROVE  Answering'
    BY <1>5 DEF Stop, Selecting
<1>6. ASSUME Remove
      PROVE  Answering'
    BY <1>6 DEF Remove
<1>7. ASSUME CloseDatabase
      PROVE  Answering'
    BY <1>7 DEF CloseDatabase
<1>8. ASSUME Loop
      PROVE  Answering'
    BY <1>8 DEF Loop
<1>9. ASSUME FlushOne
      PROVE  Answering'
    BY <1>9 DEF FlushOne, SaveScore, Settle, Larger
<1>10. ASSUME FlushEnd
      PROVE  Answering'
    BY <1>10 DEF FlushEnd
<1>11. ASSUME ReceiveSubmit
      PROVE  Answering'
    BY <1>11 DEF ReceiveSubmit
<1>12. ASSUME Retry
      PROVE  Answering'
    BY <1>12 DEF Retry
<1>13. ASSUME ReceiveSync
      PROVE  Answering'
    BY <1>13 DEF ReceiveSync
<1>14. ASSUME PersistSync
      PROVE  Answering'
    BY <1>14 DEF PersistSync, SaveScore, Larger
<1>15. ASSUME ReceiveDrain
      PROVE  Answering'
    BY <1>15 DEF ReceiveDrain
<1>16. ASSUME DrainFlush
      PROVE  Answering'
    BY <1>16 DEF DrainFlush
<1>17. ASSUME DrainAgain
      PROVE  Answering'
    BY <1>17 DEF DrainAgain
<1>18. ASSUME DrainEnd
      PROVE  Answering'
    BY <1>18 DEF DrainEnd, Drained
<1>19. ASSUME Outage
      PROVE  Answering'
    BY <1>19 DEF Outage
<1>20. ASSUME Recovery
      PROVE  Answering'
    BY <1>20 DEF Recovery
<1>21. CASE UNCHANGED vars
    BY <1>21 DEF vars
<1> QED  BY <1>1, <1>2, <1>3, <1>4, <1>5, <1>6, <1>7, <1>8, <1>9, <1>10, <1>11, <1>12,
         <1>13, <1>14, <1>15, <1>16, <1>17, <1>18, <1>19, <1>20, <1>21 DEF Next,
         ActorNext, WorkerNext

\* Every step leaves an agenda that there is.
LEMMA AgendaStep ==
    ASSUME Values, Bounded, AgendaOK, Answering, PermanentPoints, [Next]_vars
    PROVE  AgendaOK'
<1> USE ScoreAssumption DEF AgendaOK, Values, actorVars, workerVars, dbVars, channel
<1>1. ASSUME NEW u \in User, Register(u)
      PROVE  AgendaOK'
    BY <1>1 DEF Register, Selecting
<1>2. ASSUME NEW u \in User, Collect(u)
      PROVE  AgendaOK'
    BY <1>2 DEF Collect, Submit, Selecting
<1>3. ASSUME NEW u \in User, Leave(u)
      PROVE  AgendaOK'
    <2> DEFINE s == Larger(scores[u], pending[u])
    <2>1. /\ u \in online /\ agenda' = <<Sync1(u, s), Remove1(u), Drain>>
          /\ UNCHANGED <<online, earned, loadFails>>
        BY <1>3 DEF Leave, Departure, Sync1, Remove1
    <2>2. s \in Nat /\ s <= earned[u] /\ (loadFails = 0 => s = earned[u])
        BY <1>3 DEF Leave, Bounded, PermanentPoints, Larger
    <2> HIDE DEF s
    <2> QED  BY <2>1, <2>2
<1>4. ASSUME OtherEvent
      PROVE  AgendaOK'
    BY <1>4 DEF OtherEvent, Selecting
<1>5. ASSUME Stop
      PROVE  AgendaOK'
    BY <1>5 DEF Stop, Return1
<1>6. ASSUME Remove
      PROVE  AgendaOK'
    BY <1>6, Removing DEF Remove
<1>7. ASSUME CloseDatabase
      PROVE  AgendaOK'
    BY <1>7 DEF CloseDatabase
<1>8. ASSUME Loop
      PROVE  AgendaOK'
    BY <1>8 DEF Loop
<1>9. ASSUME FlushOne
      PROVE  AgendaOK'
    <2>1. PICK x \in snapshot : db' = IF dbUp THEN SaveScore(x.user, x.score) ELSE db
        BY <1>9 DEF FlushOne
    <2>2. x.user \in User /\ x.score \in Nat /\ x.score <= earned[x.user]
        BY DEF Bounded, ScoreUpdate
    <2>3. \A u \in User : db[u] = earned[u] => db'[u] = earned[u]
        BY <2>1, <2>2 DEF SaveScore, Larger, Bounded
    <2>4. UNCHANGED actorVars
        BY <1>9 DEF FlushOne
    <2> QED  BY <2>3, <2>4
<1>10. ASSUME FlushEnd
      PROVE  AgendaOK'
    BY <1>10 DEF FlushEnd
<1>11. ASSUME ReceiveSubmit
      PROVE  AgendaOK'
    BY <1>11 DEF ReceiveSubmit
<1>12. ASSUME Retry
      PROVE  AgendaOK'
    BY <1>12 DEF Retry
<1>13. ASSUME ReceiveSync
      PROVE  AgendaOK'
    BY <1>13 DEF ReceiveSync
<1>14. ASSUME PersistSync
      PROVE  AgendaOK'
    <2>1. Doing("sync")
        BY <1>14 DEF PersistSync, Answering
    <2>2. PICK u \in online, s \in Nat :
              /\ Head(agenda) = Sync1(u, s) /\ Tail(agenda) = <<Remove1(u), Drain>>
              /\ s <= earned[u] /\ (loadFails = 0 => s = earned[u])
        BY <2>1, Syncing
    <2>5. Head(agenda).user = u /\ Head(agenda).score = s
        BY <2>2 DEF Sync1
    <2>3. /\ db' = [db EXCEPT ![u] = Larger(db[u], s)] /\ agenda' = <<Remove1(u), Drain>>
          /\ UNCHANGED <<online, earned, loadFails>>
        BY <1>14, <2>2, <2>5 DEF PersistSync, SaveScore
    <2>4. loadFails' = 0 => db'[u] = earned'[u]
        BY <2>2, <2>3 DEF Bounded, Larger
    <2> QED  BY <2>3, <2>4
<1>15. ASSUME ReceiveDrain
      PROVE  AgendaOK'
    BY <1>15 DEF ReceiveDrain
<1>16. ASSUME DrainFlush
      PROVE  AgendaOK'
    BY <1>16 DEF DrainFlush
<1>17. ASSUME DrainAgain
      PROVE  AgendaOK'
    BY <1>17 DEF DrainAgain
<1>18. ASSUME DrainEnd
      PROVE  AgendaOK'
    <2>1. Doing("drain")
        BY <1>18 DEF DrainEnd, Drained, Answering
    <2> QED  BY <1>18, <2>1, Draining DEF DrainEnd
<1>19. ASSUME Outage
      PROVE  AgendaOK'
    BY <1>19 DEF Outage
<1>20. ASSUME Recovery
      PROVE  AgendaOK'
    BY <1>20 DEF Recovery
<1>21. CASE UNCHANGED vars
    BY <1>21 DEF vars
<1> QED  BY <1>1, <1>2, <1>3, <1>4, <1>5, <1>6, <1>7, <1>8, <1>9, <1>10, <1>11, <1>12,
         <1>13, <1>14, <1>15, <1>16, <1>17, <1>18, <1>19, <1>20, <1>21 DEF Next,
         ActorNext, WorkerNext

\* Every step keeps the points of every user.
LEMMA PermanentStep ==
    ASSUME Values, Bounded, AgendaOK, Answering, PermanentPoints, [Next]_vars
    PROVE  PermanentPoints'
<1> USE ScoreAssumption DEF Values, actorVars, workerVars, dbVars, channel
<1>1. ASSUME NEW u \in User, Register(u)
      PROVE  PermanentPoints'
    <2>1. SUFFICES ASSUME loadFails' = 0 PROVE PermanentPoints'
        BY DEF PermanentPoints
    <2>2. loadFails = 0 /\ scores' = [scores EXCEPT ![u] = db[u]]
        BY <1>1, <2>1 DEF Register
    <2>3. u \notin online /\ online' = online \cup {u} /\ UNCHANGED <<db, earned>>
        BY <1>1 DEF Register
    <2> QED  BY <2>2, <2>3 DEF PermanentPoints
<1>2. ASSUME NEW u \in User, Collect(u)
      PROVE  PermanentPoints'
    BY <1>2 DEF Collect, Submit, Selecting, PermanentPoints
<1>3. ASSUME NEW u \in User, Leave(u)
      PROVE  PermanentPoints'
    BY <1>3 DEF Leave, Selecting, PermanentPoints
<1>4. ASSUME OtherEvent
      PROVE  PermanentPoints'
    BY <1>4 DEF OtherEvent, Selecting, PermanentPoints
<1>5. ASSUME Stop
      PROVE  PermanentPoints'
    BY <1>5 DEF Stop, Selecting, PermanentPoints
<1>6. ASSUME Remove
      PROVE  PermanentPoints'
    <2>1. PICK u \in online : /\ Head(agenda) = Remove1(u) /\ Tail(agenda) = <<Drain>>
                              /\ loadFails = 0 => db[u] = earned[u]
        BY <1>6, Removing DEF Remove
    <2>2. Head(agenda).user = u
        BY <2>1 DEF Remove1
    <2> QED  BY <1>6, <2>1, <2>2 DEF Remove, PermanentPoints
<1>7. ASSUME CloseDatabase
      PROVE  PermanentPoints'
    BY <1>7 DEF CloseDatabase, PermanentPoints
<1>8. ASSUME Loop
      PROVE  PermanentPoints'
    BY <1>8 DEF Loop, PermanentPoints
<1>9. ASSUME FlushOne
      PROVE  PermanentPoints'
    <2>1. PICK x \in snapshot : db' = IF dbUp THEN SaveScore(x.user, x.score) ELSE db
        BY <1>9 DEF FlushOne
    <2>2. x.user \in User /\ x.score \in Nat /\ x.score <= earned[x.user]
        BY DEF Bounded, ScoreUpdate
    <2>3. \A u \in User : db[u] = earned[u] => db'[u] = earned[u]
        BY <2>1, <2>2 DEF SaveScore, Larger, Bounded
    <2> QED  BY <1>9, <2>3 DEF FlushOne, PermanentPoints
<1>10. ASSUME FlushEnd
      PROVE  PermanentPoints'
    BY <1>10 DEF FlushEnd, PermanentPoints
<1>11. ASSUME ReceiveSubmit
      PROVE  PermanentPoints'
    BY <1>11 DEF ReceiveSubmit, PermanentPoints
<1>12. ASSUME Retry
      PROVE  PermanentPoints'
    BY <1>12 DEF Retry, PermanentPoints
<1>13. ASSUME ReceiveSync
      PROVE  PermanentPoints'
    BY <1>13 DEF ReceiveSync, PermanentPoints
<1>14. ASSUME PersistSync
      PROVE  PermanentPoints'
    <2>1. Doing("sync")
        BY <1>14 DEF PersistSync, Answering
    <2>2. PICK u \in online, s \in Nat : Head(agenda) = Sync1(u, s) /\ s <= earned[u]
        BY <2>1, Syncing
    <2>3. Head(agenda).user = u /\ Head(agenda).score = s
        BY <2>2 DEF Sync1
    <2>4. \A v \in User \ online : db'[v] = db[v]
        BY <1>14, <2>2, <2>3 DEF PersistSync, SaveScore
    <2> QED  BY <1>14, <2>4 DEF PersistSync, PermanentPoints
<1>15. ASSUME ReceiveDrain
      PROVE  PermanentPoints'
    BY <1>15 DEF ReceiveDrain, PermanentPoints
<1>16. ASSUME DrainFlush
      PROVE  PermanentPoints'
    BY <1>16 DEF DrainFlush, PermanentPoints
<1>17. ASSUME DrainAgain
      PROVE  PermanentPoints'
    BY <1>17 DEF DrainAgain, PermanentPoints
<1>18. ASSUME DrainEnd
      PROVE  PermanentPoints'
    BY <1>18 DEF DrainEnd, Drained, PermanentPoints
<1>19. ASSUME Outage
      PROVE  PermanentPoints'
    BY <1>19 DEF Outage, PermanentPoints
<1>20. ASSUME Recovery
      PROVE  PermanentPoints'
    BY <1>20 DEF Recovery, PermanentPoints
<1>21. CASE UNCHANGED vars
    BY <1>21 DEF vars, PermanentPoints
<1> QED  BY <1>1, <1>2, <1>3, <1>4, <1>5, <1>6, <1>7, <1>8, <1>9, <1>10, <1>11, <1>12,
         <1>13, <1>14, <1>15, <1>16, <1>17, <1>18, <1>19, <1>20, <1>21 DEF Next,
         ActorNext, WorkerNext

\* The latest score of a user is saved or on its way.
Kept(u) ==
    \/ earned[u] \in {db[u], pending[u]}
    \/ \E i \in DOMAIN submitCh : submitCh[i] = [user |-> u, score |-> earned[u]]
    \/ Doing("sync") /\ Head(agenda).user = u /\ Head(agenda).score = earned[u]

\* Neither failed loads nor dropped submissions are forgotten.
LEMMA Remembered ==
    ASSUME Values, [Next]_vars
    PROVE  (loadFails' = 0 => loadFails = 0) /\ (~dropped' => ~dropped)
<1> USE DEF actorVars, workerVars, dbVars, channel
<1>1. ASSUME NEW u \in User, Register(u)
      PROVE  (loadFails' = 0 => loadFails = 0) /\ (~dropped' => ~dropped)
    <2>1. loadFails' \in {loadFails, loadFails + 1}
        BY <1>1 DEF Register
    <2> QED  BY <1>1, <2>1 DEF Register, Values
<1>2. ASSUME NEW u \in User, Collect(u) \/ Leave(u)
      PROVE  loadFails' = loadFails /\ (~dropped' => ~dropped)
    <2>1. CASE Leave(u)
        BY <2>1 DEF Leave
    <2>2. CASE Collect(u)
        <3>1. loadFails' = loadFails /\ dropped' = (dropped \/ submitCh' = submitCh)
            BY <2>2 DEF Collect
        <3> QED  BY <3>1, Zenon
    <2> QED  BY <1>2, <2>1, <2>2
<1>3. CASE OtherEvent \/ Stop \/ Remove \/ CloseDatabase
    BY <1>3 DEF OtherEvent, Stop, Remove, CloseDatabase
<1>4. CASE WorkerNext
    BY <1>4 DEF WorkerNext, Loop, FlushOne, FlushEnd, ReceiveSubmit, Retry, ReceiveSync,
           PersistSync, ReceiveDrain, DrainFlush, DrainAgain, DrainEnd
<1>5. CASE Outage \/ Recovery \/ UNCHANGED vars
    BY <1>5 DEF Outage, Recovery, vars
<1> QED  BY <1>1, <1>2, <1>3, <1>4, <1>5 DEF Next, ActorNext

\* No step lets go of the latest score of a user.
LEMMA LostStep ==
    ASSUME Values, Bounded, AgendaOK, Answering, PermanentPoints, NothingLost, [Next]_vars
    PROVE  NothingLost'
<1> USE ScoreAssumption DEF Values, actorVars, workerVars, dbVars, channel
<1> SUFFICES ASSUME loadFails' = 0, ~dropped', NEW v \in User
             PROVE  Kept(v)'
    BY DEF NothingLost, Kept
<1>0. loadFails = 0 /\ ~dropped /\ Kept(v)
    BY Remembered DEF NothingLost, Kept
<1>1. ASSUME NEW u \in User, Register(u)
      PROVE  Kept(v)'
    BY <1>0, <1>1 DEF Register, Selecting, Kept, Doing
<1>2. ASSUME NEW u \in User, Collect(u)
      PROVE  Kept(v)'
    <2>1. /\ earned' = [earned EXCEPT ![u] = earned[u] + 1]
          /\ UNCHANGED <<db, pending>> /\ scores[u] = earned[u] /\ submitCh' # submitCh
        BY <1>2, <1>0 DEF Collect, PermanentPoints
    <2>2. /\ \A i \in DOMAIN submitCh : i \in DOMAIN submitCh' /\ submitCh'[i] = submitCh[i]
          /\ \E i \in DOMAIN submitCh' : submitCh'[i] = [user |-> u, score |-> scores[u] + 1]
        BY <1>2, <2>1, Submitted
    <2>3. ~Doing("sync")
        BY <1>0, <1>2 DEF Collect, Selecting, Doing
    <2>4. CASE v = u
        BY <2>1, <2>2, <2>4 DEF Kept
    <2>5. CASE v # u
        BY <1>0, <2>1, <2>2, <2>3, <2>5 DEF Kept
    <2> QED  BY <2>4, <2>5
<1>3. ASSUME NEW u \in User, Leave(u)
      PROVE  Kept(v)'
    <2> DEFINE s == Larger(scores[u], pending[u])
    <2>1. /\ u \in online /\ agenda' = <<Sync1(u, s), Remove1(u), Drain>>
          /\ UNCHANGED <<earned, db, submitCh>> /\ pending' = [pending EXCEPT ![u] = 0]
        BY <1>0, <1>3 DEF Leave, Departure, Sync1, Remove1
    <2>2. s = earned[u]
        BY <1>3, <1>0 DEF Leave, Bounded, PermanentPoints, Larger
    <2>3. ~Doing("sync")
        BY <1>0, <1>3 DEF Leave, Selecting, Doing
    <2> HIDE DEF s
    <2>4. CASE v = u
        BY <2>1, <2>2, <2>4 DEF Kept, Doing, Sync1
    <2>5. CASE v # u
        BY <1>0, <2>1, <2>3, <2>5 DEF Kept
    <2> QED  BY <2>4, <2>5
<1>4. ASSUME OtherEvent
      PROVE  Kept(v)'
    BY <1>0, <1>4 DEF OtherEvent, Selecting, Kept, Doing
<1>5. ASSUME Stop
      PROVE  Kept(v)'
    BY <1>0, <1>5 DEF Stop, Selecting, Kept, Doing
<1>6. ASSUME Remove
      PROVE  Kept(v)'
    <2>1. ~Doing("sync")
        BY <1>0, <1>6 DEF Remove, Doing
    <2> QED  BY <1>6, <1>0, <2>1 DEF Remove, Kept
<1>7. ASSUME CloseDatabase
      PROVE  Kept(v)'
    BY <1>0, <1>7 DEF CloseDatabase, Kept, Doing
<1>8. ASSUME Loop
      PROVE  Kept(v)'
    BY <1>0, <1>8 DEF Loop, Kept, Doing
<1>9. ASSUME FlushOne
      PROVE  Kept(v)'
    <2>1. PICK x \in snapshot : /\ db' = IF dbUp THEN SaveScore(x.user, x.score) ELSE db
                                /\ pending' = Settle(x)
        BY <1>0, <1>9 DEF FlushOne
    <2>2. x.user \in User /\ x.score \in Nat /\ x.score <= earned[x.user]
        BY DEF Bounded, ScoreUpdate
    <2>3. UNCHANGED <<actorVars, submitCh>>
        BY <1>0, <1>9 DEF FlushOne
    <2>4. db[v] = earned[v] => db'[v] = earned[v]
        BY <2>1, <2>2 DEF SaveScore, Larger, Bounded
    <2>5. pending[v] = earned[v] => earned[v] \in {db'[v], pending'[v]}
        BY <2>1, <2>2 DEF SaveScore, Settle, Larger, Bounded
    <2> QED  BY <1>0, <2>3, <2>4, <2>5 DEF Kept, Doing
<1>10. ASSUME FlushEnd
      PROVE  Kept(v)'
    BY <1>0, <1>10 DEF FlushEnd, Kept, Doing
<1>11. ASSUME ReceiveSubmit
      PROVE  Kept(v)'
    <2>1. /\ pending[v] <= pending'[v] /\ pending'[v] <= earned[v] /\ pending'[v] \in Nat
          /\ \A i \in DOMAIN submitCh : submitCh[i].user = v => submitCh[i].score <= pending'[v]
        BY <1>11, Merged
    <2>2. UNCHANGED <<db, earned, agenda>>
        BY <1>0, <1>11 DEF ReceiveSubmit
    <2>3. CASE earned[v] = db[v]
        BY <2>2, <2>3 DEF Kept
    <2>4. CASE earned[v] = pending[v]
        BY <2>1, <2>2, <2>4 DEF Kept
    <2>5. CASE \E i \in DOMAIN submitCh : submitCh[i] = [user |-> v, score |-> earned[v]]
        <3>1. PICK i \in DOMAIN submitCh : submitCh[i] = [user |-> v, score |-> earned[v]]
            BY <2>5
        <3>2. submitCh[i].user = v /\ submitCh[i].score = earned[v]
            BY <3>1
        <3>3. pending'[v] = earned[v]
            BY <2>1, <3>2
        <3> QED  BY <2>2, <3>3 DEF Kept
    <2>6. CASE Doing("sync") /\ Head(agenda).user = v /\ Head(agenda).score = earned[v]
        BY <2>2, <2>6 DEF Kept, Doing
    <2> QED  BY <1>0, <2>3, <2>4, <2>5, <2>6 DEF Kept
<1>12. ASSUME Retry
      PROVE  Kept(v)'
    BY <1>0, <1>12 DEF Retry, Kept, Doing
<1>13. ASSUME ReceiveSync
      PROVE  Kept(v)'
    BY <1>0, <1>13 DEF ReceiveSync, Kept, Doing
<1>14. ASSUME PersistSync
      PROVE  Kept(v)'
    <2>1. Doing("sync")
        BY <1>0, <1>14 DEF PersistSync, Answering
    <2>2. PICK u \in online, s \in Nat :
              Head(agenda) = Sync1(u, s) /\ s <= earned[u] /\ (loadFails = 0 => s = earned[u])
        BY <2>1, Syncing
    <2>3. Head(agenda).user = u /\ Head(agenda).score = s /\ s = earned[u]
        BY <1>0, <2>2 DEF Sync1
    <2>4. db' = [db EXCEPT ![u] = Larger(db[u], s)] /\ UNCHANGED <<earned, pending, submitCh>>
        BY <1>14, <2>3 DEF PersistSync, SaveScore
    <2>5. CASE v = u
        BY <2>3, <2>4, <2>5 DEF Kept, Larger, Bounded
    <2>6. CASE v # u
        BY <1>0, <2>3, <2>4, <2>6 DEF Kept
    <2> QED  BY <2>5, <2>6
<1>15. ASSUME ReceiveDrain
      PROVE  Kept(v)'
    BY <1>0, <1>15 DEF ReceiveDrain, Kept, Doing
<1>16. ASSUME DrainFlush
      PROVE  Kept(v)'
    BY <1>0, <1>16 DEF DrainFlush, Kept, Doing
<1>17. ASSUME DrainAgain
      PROVE  Kept(v)'
    BY <1>0, <1>17 DEF DrainAgain, Kept, Doing
<1>18. ASSUME DrainEnd
      PROVE  Kept(v)'
    <2>1. ~Doing("sync")
        BY <1>0, <1>18 DEF DrainEnd, Drained, Answering, Doing
    <2> QED  BY <1>18, <1>0, <2>1 DEF DrainEnd, Kept
<1>19. ASSUME Outage
      PROVE  Kept(v)'
    BY <1>0, <1>19 DEF Outage, Kept, Doing
<1>20. ASSUME Recovery
      PROVE  Kept(v)'
    BY <1>0, <1>20 DEF Recovery, Kept, Doing
<1>21. CASE UNCHANGED vars
    BY <1>0, <1>21 DEF vars, Kept, Doing
<1> QED  BY <1>1, <1>2, <1>3, <1>4, <1>5, <1>6, <1>7, <1>8, <1>9, <1>10, <1>11, <1>12,
         <1>13, <1>14, <1>15, <1>16, <1>17, <1>18, <1>19, <1>20, <1>21 DEF Next,
         ActorNext, WorkerNext

---------------------------------------------------------------------------
LEMMA Initially == Init => IInv
<1> SUFFICES ASSUME Init PROVE IInv
    OBVIOUS
<1> USE ScoreAssumption DEF Init
<1>1. Values
    <2>1. db \in [User -> Nat] /\ earned \in [User -> Nat]
        OBVIOUS
    <2>2. submitCh \in Seq(ScoreUpdate) /\ Len(submitCh) <= BufferSize
        OBVIOUS
    <2>3. scores \in [User -> Nat] /\ pending \in [User -> Nat]
        OBVIOUS
    <2>4. /\ stopping \in BOOLEAN /\ online \subseteq User /\ dropped \in BOOLEAN
          /\ at = "loop" /\ snapshot \subseteq ScoreUpdate /\ failed \in BOOLEAN
          /\ dbUp \in BOOLEAN /\ dbOpen \in BOOLEAN /\ loadFails \in Nat
        OBVIOUS
    <2> QED  BY <2>1, <2>2, <2>3, <2>4 DEF Values
<1>2. Bounded
    BY <1>1 DEF Values, Bounded
<1>3. AgendaOK /\ Answering
    BY DEF AgendaOK, Answering
<1>4. PermanentPoints /\ NothingLost
    BY <1>1 DEF PermanentPoints, NothingLost, Values
<1> QED  BY <1>1, <1>2, <1>3, <1>4 DEF IInv

LEMMA Invariance == Spec => []IInv
<1>1. IInv /\ [Next]_vars => IInv'
    BY ValuesStep, BoundedStep, AnsweringStep, AgendaStep, PermanentStep, LostStep DEF IInv
<1> QED  BY <1>1, Initially, PTL DEF Spec

\* The state has its types, and what the actor waits for is one of the four
\* requests (Run of hub.go, run of score_persistence.go).
THEOREM TypeCorrect == Spec => []TypeOK
<1>1. IInv => TypeOK
    <2>1. ASSUME AgendaOK
          PROVE  \A i \in DOMAIN agenda : agenda[i].op \in {"sync", "remove", "drain", "return"}
        BY <2>1 DEF AgendaOK, Drain, Return1, Sync1, Remove1
    <2> QED  BY <2>1 DEF IInv, Values, TypeOK
<1> QED  BY <1>1, Invariance, PTL

\* Whoever is offline has every point of every session in the database, and
\* whoever is online sees it, as long as no load fails (SubmitSync at departure,
\* and the UPDATE that keeps the larger score).
THEOREM PointsPermanent == Spec => []PermanentPoints
<1>1. IInv => PermanentPoints
    BY DEF IInv
<1> QED  BY <1>1, Invariance, PTL

\* Unless a submission is dropped or a load fails, the latest score is saved, in
\* the channel, in the pending map or in SubmitSync (flushPending, persistSync).
THEOREM ScoresKept == Spec => []NothingLost
<1>1. IInv => NothingLost
    BY DEF IInv
<1> QED  BY <1>1, Invariance, PTL
=============================================================================
