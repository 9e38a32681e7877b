------------------------- MODULE CheckQueueProofs -------------------------
(***************************************************************************)
(* Proofs about CheckQueue for any finite set of workers and checks and    *)
(* any batch size: QueueInv is inductive, and implies that Wait() returns  *)
(* the conjunction of the checks and that the queue is unused between two  *)
(* controls.                                                               *)
(***************************************************************************)
EXTENDS CheckQueue, FiniteSetTheorems, TLAPS

(* Counting lemmas. *)
LEMMA CardDisjointUnion ==
    ASSUME NEW S, NEW T, IsFiniteSet(S), IsFiniteSet(T), S \cap T = {}
    PROVE  /\ IsFiniteSet(S \cup T)
           /\ Cardinality(S \cup T) = Cardinality(S) + Cardinality(T)
<1>1. Cardinality(S \cap T) = 0  BY FS_EmptySet
<1>2. Cardinality(S) \in Nat /\ Cardinality(T) \in Nat  BY FS_CardinalityType
<1>3. /\ IsFiniteSet(S \cup T)
      /\ Cardinality(S \cup T) = Cardinality(S) + Cardinality(T) - Cardinality(S \cap T)
      BY FS_Union, Zenon
<1>. QED  BY <1>1, <1>2, <1>3

(* The size of what is left of a finite set: nTodo -= nNow. *)
LEMMA CardRemoveSubset ==
    ASSUME NEW S, NEW T \in SUBSET S, IsFiniteSet(S)
    PROVE  /\ IsFiniteSet(S \ T)
           /\ Cardinality(S \ T) = Cardinality(S) - Cardinality(T)
<1>1. IsFiniteSet(T)  BY FS_Subset
<1>2. S \ T \in SUBSET S  OBVIOUS
<1>3. IsFiniteSet(S \ T)  BY <1>2, FS_Subset
<1>4. (S \ T) \cap T = {} /\ (S \ T) \cup T = S  OBVIOUS
<1>5. Cardinality(S) = Cardinality(S \ T) + Cardinality(T)
      BY <1>1, <1>3, <1>4, CardDisjointUnion
<1>6. Cardinality(S \ T) \in Nat /\ Cardinality(T) \in Nat
      BY <1>1, <1>3, FS_CardinalityType
<1>. QED  BY <1>3, <1>5, <1>6

(* The sets that the counters count are finite. *)
LEMMA CountedFinite ==
    ASSUME TypeOK
    PROVE  /\ IsFiniteSet(Threads) /\ IsFiniteSet(InLoop) /\ IsFiniteSet(Blocked)
           /\ IsFiniteSet(Outstanding) /\ Outstanding \subseteq Checks
<1>1. IsFiniteSet(Threads)
      BY ThreadsAssumption, FS_AddElement DEF Threads
<1>2. InLoop \in SUBSET Threads /\ Blocked \in SUBSET Threads  BY DEF InLoop, Blocked
<1>3. Outstanding \in SUBSET Checks  BY DEF TypeOK, Outstanding, InHand
<1>. QED  BY <1>1, <1>2, <1>3, ChecksAssumption, FS_Subset

(* The initial state satisfies the invariant. *)
LEMMA InitQueueInv == Init => QueueInv
<1> SUFFICES ASSUME Init PROVE QueueInv  OBVIOUS
<1> USE ThreadsAssumption, ChecksAssumption DEF Init
<1>1. TypeOK  BY DEF TypeOK, Points, Threads
<1>2. MutexHeld  BY DEF MutexHeld, Threads
<1>3. BatchesDisjoint /\ BatchPoints  BY DEF BatchesDisjoint, BatchPoints, Threads
<1>4. Outstanding = {} /\ InLoop = {} /\ Blocked = {}
      BY DEF Outstanding, InHand, InLoop, Blocked, Threads
<1>5. CountersExact  BY <1>4, FS_EmptySet DEF CountersExact
<1>6. ResultsSoFar /\ BetweenControls /\ ResultIsConjunction
      BY <1>4 DEF ResultsSoFar, BetweenControls, ResultIsConjunction, Threads
<1>. QED  BY <1>1, <1>2, <1>3, <1>5, <1>6 DEF QueueInv
-----------------------------------------------------------------------------
(* Adding an element to, or removing it from, a counted set of threads.    *)
LEMMA CountUp ==
    ASSUME NEW S, NEW T, NEW x, IsFiniteSet(S), x \notin S, T = S \cup {x}
    PROVE  Cardinality(T) = Cardinality(S) + 1
BY FS_AddElement

(* A thread less to count: nTotal-- and nIdle--. *)
LEMMA CountDown ==
    ASSUME NEW S, NEW T, NEW x, IsFiniteSet(S), x \in S, T = S \ {x}
    PROVE  Cardinality(T) = Cardinality(S) - 1
BY FS_RemoveElement

(* Constructing a CCheckQueueControl preserves the invariant. *)
LEMMA ControlBeginInv == QueueInv /\ ControlBegin => QueueInv'
<1> SUFFICES ASSUME QueueInv, ControlBegin PROVE QueueInv'  OBVIOUS
<1> USE ThreadsAssumption DEF QueueInv, ControlBegin, queueVars
<1>0. Master \in Threads  BY DEF Threads
<1>1. TypeOK'  BY <1>0 DEF TypeOK, Points
<1>2. MutexHeld'  BY <1>0 DEF MutexHeld, TypeOK
<1>3. BatchesDisjoint' /\ BatchPoints'
      BY <1>0 DEF BatchesDisjoint, BatchPoints, TypeOK
<1>4. Outstanding' = Outstanding  BY DEF Outstanding, InHand
<1>5. vChecks[Master] = {}  BY <1>0 DEF BatchPoints
<1>6. InLoop' = InLoop /\ Blocked' = Blocked
      BY <1>0, <1>5 DEF InLoop, Blocked, TypeOK
<1>7. CountersExact'  BY <1>4, <1>6 DEF CountersExact
<1>8. Outstanding = {} /\ fAllOk  BY DEF BetweenControls
<1>9. \A t \in Threads : vChecks[t] = {}
      BY <1>8 DEF Outstanding, InHand, TypeOK
<1>10. ResultsSoFar'  BY <1>4, <1>8, <1>9, <1>0 DEF ResultsSoFar, TypeOK
<1>11. BetweenControls'  BY <1>0 DEF BetweenControls, TypeOK, Threads
<1>12. ResultIsConjunction'  BY <1>0 DEF ResultIsConjunction, TypeOK
<1>. QED  BY <1>1, <1>2, <1>3, <1>7, <1>10, <1>11, <1>12

(* What a notification does to the program points: a waiting worker may    *)
(* become a notified one, nothing else changes.                            *)
LEMMA NotifyChanges ==
    ASSUME TypeOK, NEW n \in Nat, NotifyWorkers(n, pc)
    PROVE  /\ pc' \in [Threads -> Points]
           /\ \A t \in Threads :
                \/ pc'[t] = pc[t]
                \/ t \in Workers /\ pc[t] = "waiting" /\ pc'[t] = "notified"
<1> USE DEF TypeOK, NotifyWorkers, WaitingWorkers, Points, Threads
<1>1. CASE pc' = pc  BY <1>1
<1>2. CASE \E w \in WaitingWorkers : pc' = [pc EXCEPT ![w] = "notified"]  BY <1>2
<1>3. CASE pc' = [t \in Threads |-> IF t \in WaitingWorkers THEN "notified" ELSE pc[t]]
      BY <1>3
<1>. QED  BY <1>1, <1>2, <1>3

(* Add preserves it: the new checks were not outstanding. *)
LEMMA AddInv ==
    ASSUME QueueInv, NEW vs \in SUBSET (Checks \ added), Add(vs)
    PROVE  QueueInv'
<1> USE ThreadsAssumption DEF QueueInv, Add
<1>0. Master \in Threads /\ vChecks[Master] = {}  BY DEF Threads, BatchPoints
<1>1. IsFiniteSet(vs) /\ Cardinality(vs) \in Nat
      BY ChecksAssumption, FS_Subset, FS_CardinalityType
<1>2. /\ pc' \in [Threads -> Points]
      /\ \A t \in Threads :
            \/ pc'[t] = pc[t]
            \/ t \in Workers /\ pc[t] = "waiting" /\ pc'[t] = "notified"
      BY <1>1, NotifyChanges
<1>3. TypeOK'  BY <1>1, <1>2 DEF TypeOK
<1>4. MutexHeld'  BY <1>2 DEF MutexHeld
<1>5. Outstanding \cap vs = {}  BY DEF ResultsSoFar
<1>6. BatchesDisjoint'  BY <1>5 DEF BatchesDisjoint, Outstanding, InHand, TypeOK
<1>7. BatchPoints'  BY <1>2 DEF BatchPoints
<1>8. Outstanding' = Outstanding \cup vs  BY DEF Outstanding, InHand
<1>9. InLoop' = InLoop /\ Blocked' = Blocked  BY <1>2 DEF InLoop, Blocked
<1>10. Cardinality(Outstanding') = Cardinality(Outstanding) + Cardinality(vs)
       BY <1>1, <1>5, <1>8, CountedFinite, CardDisjointUnion, Zenon
<1>11. CountersExact'  BY <1>9, <1>10 DEF CountersExact
<1>12. pc'[Master] = "adding"  BY <1>0, <1>2
<1>13. ResultsSoFar'  BY <1>2, <1>8, <1>0 DEF ResultsSoFar, TypeOK
<1>14. BetweenControls' /\ ResultIsConjunction'
       BY <1>2, <1>12 DEF BetweenControls, ResultIsConjunction, Threads
<1>. QED  BY <1>3, <1>4, <1>6, <1>7, <1>11, <1>13, <1>14

(* The call of Wait() preserves it: the master enters Loop. *)
LEMMA CallWaitInv == QueueInv /\ CallWait => QueueInv'
<1> SUFFICES ASSUME QueueInv, CallWait PROVE QueueInv'  OBVIOUS
<1> USE ThreadsAssumption DEF QueueInv, CallWait, queueVars
<1>0. Master \in Threads /\ vChecks[Master] = {}  BY DEF Threads, BatchPoints
<1>1. TypeOK'  BY <1>0 DEF TypeOK, Points
<1>2. MutexHeld'  BY <1>0 DEF MutexHeld, TypeOK
<1>3. BatchesDisjoint' /\ BatchPoints'
      BY <1>0 DEF BatchesDisjoint, BatchPoints, TypeOK
<1>4. Outstanding' = Outstanding  BY DEF Outstanding, InHand
<1>5. InLoop' = InLoop /\ Blocked' = Blocked
      BY <1>0 DEF InLoop, Blocked, TypeOK
<1>6. CountersExact'  BY <1>4, <1>5 DEF CountersExact
<1>7. ResultsSoFar'  BY <1>4, <1>0 DEF ResultsSoFar, TypeOK
<1>8. BetweenControls' /\ ResultIsConjunction'
      BY <1>0, Zenon DEF BetweenControls, ResultIsConjunction, TypeOK, Threads
<1>. QED  BY <1>1, <1>2, <1>3, <1>6, <1>7, <1>8
-----------------------------------------------------------------------------
(* The first iteration of Loop preserves it: nTotal++ counts a new thread. *)
LEMMA EnterFirstInv ==
    ASSUME QueueInv, NEW t \in Threads, Enter(t), EnterFirst(t)
    PROVE  QueueInv'
<1> USE ThreadsAssumption DEF QueueInv, Enter, EnterFirst
<1>1. TypeOK'  BY DEF TypeOK, Points
<1>2. MutexHeld'  BY DEF MutexHeld, TypeOK
<1>3. BatchesDisjoint' /\ BatchPoints'  BY DEF BatchesDisjoint, BatchPoints, TypeOK
<1>4. Outstanding' = Outstanding  BY DEF Outstanding, InHand
<1>5. Blocked' = Blocked  BY DEF Blocked, TypeOK
<1>6. t \notin InLoop /\ InLoop' = InLoop \cup {t}  BY DEF InLoop, TypeOK
<1>7. Cardinality(InLoop') = Cardinality(InLoop) + 1
      BY <1>6, CountedFinite, CountUp, Zenon
<1>8. CountersExact'  BY <1>4, <1>5, <1>7 DEF CountersExact
<1>9. ResultsSoFar'  BY <1>4 DEF ResultsSoFar, TypeOK
<1>10. BetweenControls' /\ ResultIsConjunction'
       BY <1>4, Zenon DEF BetweenControls, ResultIsConjunction, TypeOK, Threads
<1>. QED  BY <1>1, <1>2, <1>3, <1>8, <1>9, <1>10

(* Recording a finished batch preserves it: fAllOk &= fOk, nTodo -= nNow. *)
LEMMA EnterAgainInv ==
    ASSUME QueueInv, NEW t \in Threads, Enter(t), EnterAgain(t)
    PROVE  QueueInv'
<1> USE ThreadsAssumption DEF QueueInv, Enter, EnterAgain, AllOkAfter, Informs
<1>1. vChecks[t] \in SUBSET Outstanding
      BY DEF Outstanding, InHand, TypeOK
<1>2. Outstanding' = Outstanding \ vChecks[t]
      BY Zenon DEF Outstanding, InHand, TypeOK, BatchesDisjoint
<1>3. /\ IsFiniteSet(Outstanding')
      /\ Cardinality(Outstanding') = Cardinality(Outstanding) - Cardinality(vChecks[t])
      BY <1>1, <1>2, CountedFinite, CardRemoveSubset
<1>4. nTodo' = Cardinality(Outstanding') /\ nTodo' \in Nat
      BY <1>3, FS_CardinalityType DEF CountersExact
<1>5. /\ pc' \in [Threads -> Points] /\ pc'[t] = "test"
      /\ \A u \in Threads \ {t} :
            pc'[u] = pc[u] \/ (pc[u] = "waiting" /\ pc'[u] = "notified")
      BY DEF TypeOK, Points
<1>6. TypeOK'  BY <1>4, <1>5 DEF TypeOK
<1>7. MutexHeld'  BY <1>5, Zenon DEF MutexHeld, TypeOK
<1>8. BatchesDisjoint' /\ BatchPoints'
      BY <1>5, Zenon DEF BatchesDisjoint, BatchPoints, TypeOK
<1>9. InLoop' = InLoop /\ Blocked' = Blocked
      BY <1>5, Zenon DEF InLoop, Blocked, TypeOK
<1>10. CountersExact'  BY <1>4, <1>9, Zenon DEF CountersExact
<1>11. Outstanding # {} /\ pc[Master] \notin {"outside", "returned"}
       BY <1>1, Zenon DEF BetweenControls
<1>12. pc'[Master] \notin {"outside", "returned"}
       BY <1>5, <1>11, Zenon DEF Threads
<1>13. ResultsSoFar'
  <2>1. Outstanding' \subseteq added'  BY <1>2 DEF ResultsSoFar
  <2>2. fAllOk' => added \cap BadChecks \subseteq Outstanding'
        BY <1>2, <1>11, Zenon DEF ResultsSoFar
  <2>3. ~fAllOk' => added \cap BadChecks # {}  BY Zenon DEF ResultsSoFar
  <2>4. \A u \in Threads : vChecks'[u] # {} =>
            /\ u # t /\ vChecks'[u] = vChecks[u] /\ fOk'[u] = fOk[u]
            /\ pc'[u] = "lock" => pc[u] = "lock"
        BY <1>5, Zenon DEF TypeOK
  <2>. QED  BY <2>1, <2>2, <2>3, <2>4, Zenon DEF ResultsSoFar
<1>14. BetweenControls' /\ ResultIsConjunction'
       BY <1>5, <1>12 DEF BetweenControls, ResultIsConjunction, Threads
<1>. QED  BY <1>6, <1>7, <1>8, <1>10, <1>13, <1>14

(* The return of Wait() preserves it: nTodo = 0 means nothing is outstanding. *)
LEMMA ReturnInv ==
    ASSUME QueueInv, NEW t \in Threads, Return(t)
    PROVE  QueueInv'
<1> USE ThreadsAssumption DEF QueueInv, Return, MayReturn
<1>1. Outstanding = {}
      BY CountedFinite, FS_EmptySet, Zenon DEF CountersExact
<1>2. \A u \in Threads : vChecks[u] = {}  BY <1>1 DEF Outstanding, InHand, TypeOK
<1>3. t \in InLoop /\ InLoop' = InLoop \ {t}  BY <1>2 DEF InLoop, TypeOK
<1>4. Cardinality(InLoop') = Cardinality(InLoop) - 1 /\ Cardinality(InLoop') \in Nat
  <2>1. Cardinality(InLoop') = Cardinality(InLoop) - 1
        BY <1>3, CountedFinite, CountDown
  <2>2. IsFiniteSet(InLoop')  BY <1>3, CountedFinite, FS_Subset
  <2>. QED  BY <2>1, <2>2, FS_CardinalityType
<1>5. TypeOK'  BY <1>4 DEF TypeOK, Points, CountersExact
<1>6. MutexHeld'  BY DEF MutexHeld, TypeOK
<1>7. BatchesDisjoint' /\ BatchPoints'  BY <1>2 DEF BatchesDisjoint, BatchPoints
<1>8. Outstanding' = Outstanding  BY DEF Outstanding, InHand
<1>9. Blocked' = Blocked  BY DEF Blocked, TypeOK
<1>10. CountersExact'  BY <1>4, <1>8, <1>9, Zenon DEF CountersExact
<1>11. ResultsSoFar'  BY <1>1, <1>2, <1>8 DEF ResultsSoFar, TypeOK
<1>12. BetweenControls'  BY <1>1, <1>8 DEF BetweenControls, TypeOK, Threads
<1>13. fAllOk = (added \cap BadChecks = {})
  <2>1. fAllOk => added \cap BadChecks = {}  BY <1>1 DEF ResultsSoFar
  <2>2. ~fAllOk => added \cap BadChecks # {}  BY DEF ResultsSoFar
  <2>. QED  BY <2>1, <2>2 DEF TypeOK
<1>14. ResultIsConjunction'  BY <1>13 DEF ResultIsConjunction
<1>. QED  BY <1>5, <1>6, <1>7, <1>10, <1>11, <1>12, <1>14

(* Blocking on the condition variable preserves it: nIdle++. *)
LEMMA SleepInv ==
    ASSUME QueueInv, NEW t \in Threads, Sleep(t)
    PROVE  QueueInv'
<1> USE ThreadsAssumption DEF QueueInv, Sleep
<1>1. TypeOK'  BY DEF TypeOK, Points
<1>2. MutexHeld'  BY DEF MutexHeld, TypeOK
<1>3. BatchesDisjoint' /\ BatchPoints'  BY DEF BatchesDisjoint, BatchPoints, TypeOK
<1>4. Outstanding' = Outstanding /\ InLoop' = InLoop
      BY DEF Outstanding, InHand, InLoop, TypeOK
<1>5. t \notin Blocked /\ Blocked' = Blocked \cup {t}  BY DEF Blocked, TypeOK
<1>6. Cardinality(Blocked') = Cardinality(Blocked) + 1
      BY <1>5, CountedFinite, CountUp
<1>7. CountersExact'  BY <1>4, <1>6, Zenon DEF CountersExact
<1>8. ResultsSoFar' /\ BetweenControls' /\ ResultIsConjunction'
      BY <1>4 DEF ResultsSoFar, BetweenControls, ResultIsConjunction, TypeOK, Threads
<1>. QED  BY <1>1, <1>2, <1>3, <1>7, <1>8

(* Returning from cond.wait preserves it: nIdle--. *)
LEMMA WakeInv ==
    ASSUME QueueInv, NEW t \in Threads, Wake(t)
    PROVE  QueueInv'
<1> USE ThreadsAssumption DEF QueueInv, Wake, IdleAfterWake
<1>1. t \in Blocked /\ Blocked' = Blocked \ {t}  BY DEF Blocked, TypeOK
<1>2. Cardinality(Blocked') = Cardinality(Blocked) - 1 /\ Cardinality(Blocked') \in Nat
  <2>1. Cardinality(Blocked') = Cardinality(Blocked) - 1
        BY <1>1, CountedFinite, CountDown
  <2>2. IsFiniteSet(Blocked')  BY <1>1, CountedFinite, FS_Subset, Zenon
  <2>. QED  BY <2>1, <2>2, FS_CardinalityType
<1>3. TypeOK'  BY <1>2 DEF TypeOK, Points, CountersExact
<1>4. MutexHeld'  BY DEF MutexHeld, TypeOK
<1>5. BatchesDisjoint' /\ BatchPoints'  BY DEF BatchesDisjoint, BatchPoints, TypeOK
<1>6. Outstanding' = Outstanding /\ InLoop' = InLoop
      BY DEF Outstanding, InHand, InLoop, TypeOK
<1>7. CountersExact'  BY <1>2, <1>6, Zenon DEF CountersExact
<1>8. ResultsSoFar' /\ BetweenControls' /\ ResultIsConjunction'
      BY <1>6 DEF ResultsSoFar, BetweenControls, ResultIsConjunction, TypeOK, Threads
<1>. QED  BY <1>3, <1>4, <1>5, <1>7, <1>8

(* A batch taken is not empty, whatever BatchNow divides. *)
LEMMA BatchNowPositive == TypeOK => BatchNow \in Nat \ {0}
<1> SUFFICES ASSUME TypeOK PROVE BatchNow \in Nat \ {0}  OBVIOUS
<1>1. IsFiniteSet(queue)  BY ChecksAssumption, FS_Subset DEF TypeOK
<1>2. Cardinality(queue) \in Nat /\ nTotal + nIdle + 1 \in Nat \ {0}
      BY <1>1, FS_CardinalityType DEF TypeOK
<1>3. Cardinality(queue) \div (nTotal + nIdle + 1) \in Int  BY <1>2
<1>. QED  BY <1>3, ChecksAssumption DEF BatchNow, AtLeast, AtMost

(* Taking a batch preserves it: checks move from the queue to one thread. *)
LEMMA TakeInv ==
    ASSUME QueueInv, NEW t \in Threads, Take(t)
    PROVE  QueueInv'
<1> USE ThreadsAssumption DEF QueueInv, Take
<1>1. PICK b \in SUBSET queue :
          /\ Cardinality(b) = BatchNow
          /\ queue' = queue \ b
          /\ vChecks' = [vChecks EXCEPT ![t] = b]
      BY Zenon
<1>2. b # {}
  <2>1. Cardinality(b) # 0  BY <1>1, BatchNowPositive
  <2>. QED  BY <2>1, FS_EmptySet
<1>3. vChecks[t] = {}  BY Zenon DEF BatchPoints
<1>4. TypeOK'  BY <1>1, Zenon DEF TypeOK, Points
<1>5. MutexHeld'  BY Zenon DEF MutexHeld, TypeOK
<1>6. BatchesDisjoint'  BY <1>1, <1>3, Zenon DEF BatchesDisjoint, TypeOK
<1>7. BatchPoints'  BY <1>1, <1>2, Zenon DEF BatchPoints, TypeOK
<1>8. Outstanding' = Outstanding
      BY <1>1, <1>3, Zenon DEF Outstanding, InHand, TypeOK
<1>9. InLoop' = InLoop /\ Blocked' = Blocked
      BY <1>1 DEF InLoop, Blocked, TypeOK
<1>10. CountersExact'  BY <1>8, <1>9, Zenon DEF CountersExact
<1>11. ResultsSoFar'
  <2>1. \A u \in Threads : u # t =>
            vChecks'[u] = vChecks[u] /\ fOk'[u] = fOk[u] /\ pc'[u] = pc[u]
        BY <1>1 DEF TypeOK
  <2>2. fOk'[t] = fAllOk /\ pc'[t] = "run"  BY Zenon DEF TypeOK
  <2>3. pc'[Master] = "returned" <=> pc[Master] = "returned"  BY Zenon DEF TypeOK, Threads
  <2>. QED  BY <1>8, <2>1, <2>2, <2>3, Zenon DEF ResultsSoFar
<1>12. BetweenControls' /\ ResultIsConjunction'
       BY <1>8, Zenon DEF BetweenControls, ResultIsConjunction, TypeOK, Threads
<1>. QED  BY <1>4, <1>5, <1>6, <1>7, <1>10, <1>11, <1>12

(* Running a batch preserves it: fOk tells whether the batch succeeded. *)
LEMMA RunInv ==
    ASSUME QueueInv, NEW t \in Threads, Run(t)
    PROVE  QueueInv'
<1> USE ThreadsAssumption DEF QueueInv, Run, queueVars
<1>0. vChecks[t] # {}  BY Zenon DEF BatchPoints
<1>1. TypeOK'  BY DEF TypeOK, Points
<1>2. MutexHeld'  BY Zenon DEF MutexHeld, TypeOK
<1>3. BatchesDisjoint' /\ BatchPoints'  BY <1>0, Zenon DEF BatchesDisjoint, BatchPoints, TypeOK
<1>4. Outstanding' = Outstanding  BY Zenon DEF Outstanding, InHand
<1>5. InLoop' = InLoop /\ Blocked' = Blocked
      BY <1>0, Zenon DEF InLoop, Blocked, TypeOK
<1>6. CountersExact'  BY <1>4, <1>5 DEF CountersExact
<1>7. ResultsSoFar'
  <2>1. vChecks[t] \subseteq added
        BY Zenon DEF ResultsSoFar, Outstanding, InHand, TypeOK
  <2>2. \A u \in Threads : u # t => fOk'[u] = fOk[u] /\ pc'[u] = pc[u]  BY Zenon DEF TypeOK
  <2>3. fOk'[t] = (fOk[t] /\ vChecks[t] \cap BadChecks = {})  BY DEF TypeOK
  <2>4. pc'[Master] = "returned" <=> pc[Master] = "returned"  BY Zenon DEF TypeOK, Threads
  <2>. QED  BY <1>0, <1>4, <2>1, <2>2, <2>3, <2>4, Zenon DEF ResultsSoFar
<1>8. BetweenControls' /\ ResultIsConjunction'
      BY <1>4 DEF BetweenControls, ResultIsConjunction, TypeOK, Threads
<1>. QED  BY <1>1, <1>2, <1>3, <1>6, <1>7, <1>8, Zenon

(* A spurious wake-up of the condition variable preserves it. *)
LEMMA SpuriousWakeInv ==
    ASSUME QueueInv, NEW t \in Threads, SpuriousWake(t)
    PROVE  QueueInv'
<1> USE ThreadsAssumption, ChecksAssumption DEF QueueInv, SpuriousWake, queueVars
<1>1. TypeOK'  BY DEF TypeOK, Points
<1>2. MutexHeld'  BY Zenon DEF MutexHeld, TypeOK
<1>3. BatchesDisjoint' /\ BatchPoints'  BY Zenon DEF BatchesDisjoint, BatchPoints, TypeOK
<1>4. Outstanding' = Outstanding /\ InLoop' = InLoop /\ Blocked' = Blocked
      BY DEF Outstanding, InHand, InLoop, Blocked, TypeOK
<1>5. CountersExact'  BY <1>4, Zenon DEF CountersExact
<1>6. ResultsSoFar' /\ BetweenControls' /\ ResultIsConjunction'
      BY <1>4 DEF ResultsSoFar, BetweenControls, ResultIsConjunction, TypeOK, Threads
<1>. QED  BY <1>1, <1>2, <1>3, <1>5, <1>6

(* Interrupting a blocked worker preserves it: it stays counted as idle. *)
LEMMA InterruptInv ==
    ASSUME QueueInv, NEW w \in Workers, Interrupt(w)
    PROVE  QueueInv'
<1> USE ThreadsAssumption DEF QueueInv, Interrupt, queueVars
<1>0. w \in Threads /\ w # Master  BY DEF Threads
<1>1. TypeOK'  BY Zenon DEF TypeOK, Points
<1>2. MutexHeld'  BY <1>0, Zenon DEF MutexHeld, TypeOK
<1>3. BatchesDisjoint' /\ BatchPoints'  BY <1>0, Zenon DEF BatchesDisjoint, BatchPoints, TypeOK
<1>4. Outstanding' = Outstanding /\ InLoop' = InLoop /\ Blocked' = Blocked
      BY <1>0 DEF Outstanding, InHand, InLoop, Blocked, TypeOK
<1>5. CountersExact'  BY <1>4, Zenon DEF CountersExact
<1>6. /\ pc'[w] = "gone" /\ \A t \in Threads : t # w => pc'[t] = pc[t]
      /\ pc'[Master] = pc[Master]
      BY <1>0 DEF TypeOK, Threads
<1>7. ResultsSoFar'  BY <1>0, <1>4, <1>6, Zenon DEF ResultsSoFar
<1>8. BetweenControls'  BY <1>0, <1>4, <1>6, Zenon DEF BetweenControls, Threads
<1>9. ResultIsConjunction'  BY <1>6, Zenon DEF ResultIsConjunction
<1>. QED  BY <1>1, <1>2, <1>3, <1>5, <1>7, <1>8, <1>9, Zenon

(* A step that changes nothing preserves it. *)
LEMMA StutterInv == QueueInv /\ UNCHANGED vars => QueueInv'
<1> SUFFICES ASSUME QueueInv, UNCHANGED vars PROVE QueueInv'  OBVIOUS
<1> USE DEF QueueInv, vars, queueVars, threadVars
<1>1. Outstanding' = Outstanding /\ InLoop' = InLoop /\ Blocked' = Blocked
      BY Zenon DEF Outstanding, InHand, InLoop, Blocked
<1>. QED  BY <1>1 DEF TypeOK, MutexHeld, BatchesDisjoint, BatchPoints,
          CountersExact, ResultsSoFar, BetweenControls, ResultIsConjunction
-----------------------------------------------------------------------------
(* In every reachable state of Loop, Add and the control, for any number   *)
(* of workers and checks, the counters, batches and partial results are    *)
(* what QueueInv says.                                                     *)
THEOREM QueueInvAlways == Spec => []QueueInv
<1>1. QueueInv /\ [Next]_vars => QueueInv'
  <2> SUFFICES ASSUME QueueInv, [Next]_vars PROVE QueueInv'  OBVIOUS
  <2>1. CASE ControlBegin  BY <2>1, ControlBeginInv
  <2>2. CASE \E vs \in SUBSET (Checks \ added) : Add(vs)  BY <2>2, AddInv
  <2>3. CASE CallWait  BY <2>3, CallWaitInv
  <2>4. ASSUME NEW t \in Threads, Step(t) PROVE QueueInv'
    <3>1. CASE Enter(t)
          BY <3>1, EnterFirstInv, EnterAgainInv DEF Enter
    <3>2. CASE Return(t)  BY <3>2, ReturnInv
    <3>3. CASE Sleep(t)  BY <3>3, SleepInv
    <3>4. CASE Wake(t)  BY <3>4, WakeInv
    <3>5. CASE Take(t)  BY <3>5, TakeInv
    <3>6. CASE Run(t)  BY <3>6, RunInv
    <3>. QED  BY <2>4, <3>1, <3>2, <3>3, <3>4, <3>5, <3>6 DEF Step
  <2>5. CASE \E t \in Threads : Alive /\ SpuriousWake(t)  BY <2>5, SpuriousWakeInv
  <2>6. CASE \E w \in Workers : Alive /\ Interrupt(w)  BY <2>6, InterruptInv
  <2>7. CASE Ended  BY <2>7, StutterInv DEF Ended
  <2>8. CASE UNCHANGED vars  BY <2>8, StutterInv
  <2>. QED  BY <2>1, <2>2, <2>3, <2>4, <2>5, <2>6, <2>7, <2>8 DEF Next
<1>. QED  BY <1>1, InitQueueInv, PTL DEF Spec

(* Wait() returns the conjunction of all the checks handed to Add, for any *)
(* number of threads, any batch size and any interleaving of Loop.         *)
THEOREM WaitReturnsConjunction == Spec => []ResultIsConjunction
<1>1. QueueInv => ResultIsConjunction  BY DEF QueueInv
<1>. QED  BY <1>1, QueueInvAlways, PTL

(* When Wait() has returned, no check is queued or in a worker's batch     *)
(* ("guarantees the passed queue is finished before continuing").          *)
THEOREM QueueFinished == Spec => []FinishedOnReturn
<1>1. QueueInv => FinishedOnReturn  BY DEF QueueInv, BetweenControls, FinishedOnReturn
<1>. QED  BY <1>1, QueueInvAlways, PTL

(* The assertions of CCheckQueueControl's constructor hold whenever no     *)
(* control is active and the mutex is free: every thread that nTotal       *)
(* counts is then also counted by nIdle.                                   *)
THEOREM QueueUnusedBetween == Spec => []UnusedBetweenControls
<1>1. QueueInv => UnusedBetweenControls
  <2> SUFFICES ASSUME QueueInv, pc[Master] \in {"outside", "returned"},
                      mutex = NoThread
               PROVE  QueueUnused
      BY DEF UnusedBetweenControls
  <2> USE ThreadsAssumption DEF QueueInv
  <2>1. Outstanding = {} /\ fAllOk  BY DEF BetweenControls
  <2>2. \A t \in Threads : vChecks[t] = {}  BY <2>1 DEF Outstanding, InHand, TypeOK
  <2>3. \A t \in Threads : pc[t] # "test"  BY DEF MutexHeld
  <2>4. InLoop = Blocked  BY <2>2, <2>3 DEF InLoop, Blocked, BatchPoints
  <2>. QED  BY <2>1, <2>4, FS_EmptySet DEF CountersExact, QueueUnused
<1>. QED  BY <1>1, QueueInvAlways, PTL
-----------------------------------------------------------------------------
(* The queue is sound, for any number of workers, checks and batches: what *)
(* Wait() returns is the conjunction of the checks, all of them are done   *)
(* then, and between two controls the queue is as unused as the assertions *)
(* of CCheckQueueControl's constructor require.                            *)
THEOREM QueueAlwaysSound == Spec => []QueueSound
  BY QueueInvAlways, QueueFinished, QueueUnusedBetween, PTL DEF QueueSound

(* A step of a worker, or a step of the master inside Wait() that does not *)
(* return, is invisible to the caller of CCheckQueueControl.               *)
LEMMA InnerStepInvisible ==
    ASSUME QueueInv, NEW t \in Threads,
           Enter(t) \/ Sleep(t) \/ Wake(t) \/ Take(t) \/ Run(t) \/ SpuriousWake(t)
    PROVE  UNCHANGED Verdict!vars
<1> USE ThreadsAssumption DEF QueueInv
<1>0. Master \in Threads /\ pc \in [Threads -> Points]  BY Zenon DEF Threads, TypeOK
<1>1. added' = added /\ fRet' = fRet
      BY DEF Enter, Sleep, Wake, Take, Run, SpuriousWake
<1>2. \/ pc'[Master] = pc[Master]
      \/ /\ pc[Master] \in {"lock", "test", "waiting", "notified", "run"}
         /\ pc'[Master] \in {"lock", "test", "waiting", "notified", "run"}
  <2>1. CASE Enter(t)
        <3>1. CASE EnterFirst(t)  BY <1>0, <2>1, <3>1, Zenon DEF Enter, EnterFirst
        <3>2. CASE EnterAgain(t)  BY <1>0, <2>1, <3>2, Zenon DEF Enter, EnterAgain
        <3>. QED  BY <2>1, <3>1, <3>2, Zenon DEF Enter
  <2>2. CASE Sleep(t) \/ Wake(t)  BY <1>0, <2>2, Zenon DEF Sleep, Wake
  <2>3. CASE Take(t)  BY <1>0, <2>3, Zenon DEF Take
  <2>4. CASE Run(t) \/ SpuriousWake(t)  BY <1>0, <2>4, Zenon DEF Run, SpuriousWake
  <2>. QED  BY <2>1, <2>2, <2>3, <2>4, Zenon
<1>3. PhaseOf(pc'[Master]) = PhaseOf(pc[Master])  BY <1>2 DEF PhaseOf
<1>. QED  BY <1>1, <1>3 DEF Verdict!vars

(* For the caller of CCheckQueueControl the queue, whatever its threads    *)
(* do, implements BlockVerdict: one atomic answer per Wait().              *)
THEOREM QueueImplementsVerdict == Spec => ImplementsVerdict
<1> USE ThreadsAssumption
<1>1. Init => Verdict!Init  BY Zenon DEF Init, Verdict!Init, PhaseOf, Threads
<1>2. QueueInv /\ QueueInv' /\ [Next]_vars => [Verdict!Next]_(Verdict!vars)
  <2> SUFFICES ASSUME QueueInv, QueueInv', [Next]_vars
               PROVE  Verdict!Next \/ UNCHANGED Verdict!vars
      BY Zenon
  <2>0. Master \in Threads /\ pc \in [Threads -> Points]
        BY Zenon DEF Threads, QueueInv, TypeOK
  <2>1. CASE ControlBegin
        BY <2>0, <2>1 DEF ControlBegin, Verdict!Next, Verdict!Begin, PhaseOf
  <2>2. ASSUME NEW vs \in SUBSET (Checks \ added), Add(vs) PROVE Verdict!Next
    <3>1. Cardinality(vs) \in Nat
          BY ChecksAssumption, FS_Subset, FS_CardinalityType, Zenon
    <3>2. pc'[Master] = pc[Master]
          BY <2>0, <2>2, <3>1, NotifyChanges DEF Add, QueueInv
    <3>. QED  BY <2>2, <3>2, Zenon DEF Add, Verdict!Next, Verdict!Add, PhaseOf
  <2>3. CASE CallWait
        BY <2>0, <2>3, Zenon DEF CallWait, Verdict!Next, Verdict!Ask, PhaseOf
  <2>4. ASSUME NEW t \in Threads, Return(t) PROVE Verdict!Next
    <3>1. t = Master /\ pc[Master] = "test" /\ pc'[Master] = "returned" /\ added' = added
          BY <2>0, <2>4 DEF Return, MayReturn
    <3>2. fRet' = (added \cap BadChecks = {})
          BY <3>1, Zenon DEF QueueInv, ResultIsConjunction
    <3>. QED  BY <3>1, <3>2 DEF Verdict!Next, Verdict!Answer, PhaseOf
  <2>5. ASSUME NEW w \in Workers, Interrupt(w) PROVE UNCHANGED Verdict!vars
    <3>1. pc'[Master] = pc[Master] /\ added' = added /\ fRet' = fRet
          BY <2>0, <2>5 DEF Interrupt
    <3>. QED  BY <3>1, Zenon DEF Verdict!vars
  <2>6. CASE UNCHANGED vars
        BY <2>6 DEF vars, threadVars, Verdict!vars
  <2>. QED  BY <2>1, <2>2, <2>3, <2>4, <2>5, <2>6, InnerStepInvisible
            DEF Next, Step, Ended
<1>. QED  BY <1>1, <1>2, QueueInvAlways, PTL
          DEF Spec, ImplementsVerdict, Verdict!Spec
=============================================================================
