---------------------------- MODULE CheckQueue ----------------------------
(***************************************************************************)
(* The script-check queue of src/src/checkqueue.h: CCheckQueue<T>, its     *)
(* worker threads and the CCheckQueueControl with which ConnectBlock uses  *)
(* it.  A check is an element of Checks; its operator() returns FALSE      *)
(* exactly for the elements of BadChecks.                                  *)
(*                                                                         *)
(* The grain of the steps is the one at which another thread can observe   *)
(* the fields: a critical section is split where nIdle and nTotal change,  *)
(* because the constructor of CCheckQueueControl reads them without taking *)
(* the mutex.                                                              *)
(***************************************************************************)
EXTENDS Integers, FiniteSets

CONSTANTS Workers,      \* threads that run Thread(), i.e. Loop(false)
          Master,       \* the thread that owns the CCheckQueueControl
          Checks,       \* the verifications of one block
          BadChecks,    \* those whose operator() returns false
          nBatchSize,   \* largest batch a thread takes at once
          MaxSpurious,  \* bound: spurious wake-ups of boost::condition_variable
          NoThread      \* owner of a free mutex

Threads == Workers \cup {Master}

ASSUME ThreadsAssumption ==
    /\ IsFiniteSet(Workers)
    /\ Master \notin Workers
    /\ NoThread \notin Threads

ASSUME ChecksAssumption ==
    /\ IsFiniteSet(Checks)
    /\ BadChecks \subseteq Checks
    /\ nBatchSize \in Nat
    /\ MaxSpurious \in Nat

VARIABLES
    queue,      \* the checks nobody has taken yet
    nIdle,      \* threads blocked on a condition variable
    nTotal,     \* threads that are inside Loop
    fAllOk,     \* the temporary evaluation result
    nTodo,      \* checks that have not completed yet
    mutex,      \* the thread that holds the mutex, or NoThread
    pc,         \* where each thread is
    vChecks,    \* the batch each thread holds; its size is the thread's nNow
    fOk,        \* each thread's local result
    added,      \* the checks handed to Add since the control was constructed
    fRet,       \* what the last Wait() returned
    nSpurious   \* spurious wake-ups so far

queueVars == <<queue, nIdle, nTotal, fAllOk, nTodo, mutex>>
threadVars == <<pc, vChecks, fOk>>
vars == <<queueVars, threadVars, added, fRet, nSpurious>>

(***************************************************************************)
(* Program points.  "outside" and "adding" are the master's, before the    *)
(* control is constructed and between its construction and Wait().         *)
(*   lock      about to take the mutex at the top of the do loop           *)
(*   test      holds the mutex, at "while (queue.empty())"                 *)
(*   waiting   blocked in cond.wait                                        *)
(*   notified  woken, has not got the mutex back yet                       *)
(*   run       outside the critical section with a batch                   *)
(*   returned  Wait() has returned                                         *)
(*   gone      the worker was interrupted at shutdown                      *)
(*   aborted   an assertion of the control's constructor failed            *)
(***************************************************************************)
Points == {"outside", "adding", "lock", "test", "waiting", "notified",
           "run", "returned", "gone", "aborted"}

Init ==
    /\ queue = {} /\ nIdle = 0 /\ nTotal = 0 /\ fAllOk = TRUE /\ nTodo = 0
    /\ mutex = NoThread
    /\ pc = [t \in Threads |-> IF t = Master THEN "outside" ELSE "lock"]
    /\ vChecks = [t \in Threads |-> {}]
    /\ fOk = [t \in Threads |-> TRUE]
    /\ added = {} /\ fRet = TRUE /\ nSpurious = 0

-----------------------------------------------------------------------------
(* The assertions of the constructor of CCheckQueueControl. *)
QueueUnused ==
    /\ nTotal = nIdle
    /\ nTodo = 0
    /\ fAllOk

(* CCheckQueueControl(pqueue): no mutex is taken; a failed assertion ends  *)
(* the process.                                                            *)
ControlBegin ==
    /\ pc[Master] \in {"outside", "returned"}
    /\ pc' = [pc EXCEPT ![Master] = IF QueueUnused THEN "adding" ELSE "aborted"]
    /\ added' = {}
    /\ UNCHANGED <<queueVars, vChecks, fOk, fRet, nSpurious>>

(* Threads blocked on condWorker, and on condMaster. *)
WaitingWorkers == {w \in Workers : pc[w] = "waiting"}

(* notify_one wakes one waiting worker if there is one; notify_all all.    *)
NotifyWorkers(n, pcNow) ==
    \/ n = 0 /\ pc' = pcNow
    \/ n = 1 /\ WaitingWorkers = {} /\ pc' = pcNow
    \/ n = 1 /\ \E w \in WaitingWorkers : pc' = [pcNow EXCEPT ![w] = "notified"]
    \/ n > 1 /\ pc' = [t \in Threads |-> IF t \in WaitingWorkers THEN "notified" ELSE pcNow[t]]

(* Add(vChecks): one critical section, no field is changed twice. *)
Add(vs) ==
    /\ pc[Master] = "adding"
    /\ mutex = NoThread
    /\ queue' = queue \cup vs
    /\ nTodo' = nTodo + Cardinality(vs)
    /\ added' = added \cup vs
    /\ NotifyWorkers(Cardinality(vs), pc)
    /\ UNCHANGED <<nIdle, nTotal, fAllOk, mutex, vChecks, fOk, fRet, nSpurious>>

(* The master calls Wait(), explicitly or from the control's destructor. *)
CallWait ==
    /\ pc[Master] = "adding"
    /\ pc' = [pc EXCEPT ![Master] = "lock"]
    /\ fOk' = [fOk EXCEPT ![Master] = TRUE]
    /\ UNCHANGED <<queueVars, vChecks, added, fRet, nSpurious>>

-----------------------------------------------------------------------------
(* fAllOk &= fOk; the variant overwrites it. *)
AllOkOverwritten(t) == fOk[t]
AllOkAfter(t) == fAllOk /\ fOk[t]

(* Whether the thread informs the master, left checks being left; the      *)
(* variant is off by one.                                                  *)
InformsOneEarly(t, left) == t # Master /\ left = 1
Informs(t, left) == t # Master /\ left = 0

(* Lock, then either record the finished batch or count the new thread. *)
EnterFirst(t) ==
    /\ vChecks[t] = {}
    /\ nTotal' = nTotal + 1
    /\ pc' = [pc EXCEPT ![t] = "test"]
    /\ UNCHANGED <<fAllOk, nTodo, vChecks>>

EnterAgain(t) ==
    /\ vChecks[t] # {}
    /\ fAllOk' = AllOkAfter(t)
    /\ nTodo' = nTodo - Cardinality(vChecks[t])
    /\ vChecks' = [vChecks EXCEPT ![t] = {}]
    /\ pc' = [u \in Threads |->
                IF u = t THEN "test"
                ELSE IF u = Master /\ Informs(t, nTodo') /\ pc[u] = "waiting"
                     THEN "notified"      \* condMaster.notify_one()
                     ELSE pc[u]]
    /\ UNCHANGED nTotal

Enter(t) ==
    /\ pc[t] = "lock"
    /\ mutex = NoThread
    /\ mutex' = t
    /\ EnterFirst(t) \/ EnterAgain(t)
    /\ UNCHANGED <<queue, nIdle, fOk, added, fRet, nSpurious>>

(* (fMaster || fQuit) && nTodo == 0, where no caller ever sets fQuit; the  *)
(* variant forgets the checks in other threads' batches.                   *)
MayReturnEarly(t) == t = Master
MayReturn(t) == t = Master /\ nTodo = 0

(* "while (queue.empty())", first exit. *)
Return(t) ==
    /\ pc[t] = "test"
    /\ queue = {}
    /\ MayReturn(t)
    /\ nTotal' = nTotal - 1
    /\ fRet' = fAllOk
    /\ fAllOk' = TRUE
    /\ mutex' = NoThread
    /\ pc' = [pc EXCEPT ![t] = "returned"]
    /\ UNCHANGED <<queue, nIdle, nTodo, vChecks, fOk, added, nSpurious>>

(* nIdle++; cond.wait(lock) releases the mutex and blocks atomically. *)
Sleep(t) ==
    /\ pc[t] = "test"
    /\ queue = {}
    /\ ~MayReturn(t)
    /\ nIdle' = nIdle + 1
    /\ mutex' = NoThread
    /\ pc' = [pc EXCEPT ![t] = "waiting"]
    /\ UNCHANGED <<queue, nTotal, fAllOk, nTodo, vChecks, fOk, added, fRet, nSpurious>>

(* nIdle-- after cond.wait; the variant forgets it. *)
IdleKept == nIdle
IdleAfterWake == nIdle - 1

(* cond.wait returns with the mutex held. *)
Wake(t) ==
    /\ pc[t] = "notified"
    /\ mutex = NoThread
    /\ mutex' = t
    /\ nIdle' = IdleAfterWake
    /\ pc' = [pc EXCEPT ![t] = "test"]
    /\ UNCHANGED <<queue, nTotal, fAllOk, nTodo, vChecks, fOk, added, fRet, nSpurious>>

SpuriousWake(t) ==
    /\ pc[t] = "waiting"
    /\ nSpurious < MaxSpurious
    /\ nSpurious' = nSpurious + 1
    /\ pc' = [pc EXCEPT ![t] = "notified"]
    /\ UNCHANGED <<queueVars, vChecks, fOk, added, fRet>>

AtLeast(a, b) == IF a < b THEN b ELSE a
AtMost(a, b) == IF a > b THEN b ELSE a

(* How many work units to process now; the variant forgets the lower bound. *)
BatchNowMaybeNone == AtMost(Cardinality(queue) \div (nTotal + nIdle + 1), nBatchSize)
BatchNow == AtLeast(AtMost(Cardinality(queue) \div (nTotal + nIdle + 1), nBatchSize), 1)

(* Take a batch off the queue (which elements does not matter: "the order  *)
(* of booleans doesn't matter"), read fAllOk and leave the critical        *)
(* section.                                                                *)
Take(t) ==
    /\ pc[t] = "test"
    /\ queue # {}
    /\ \E b \in SUBSET queue :
          /\ Cardinality(b) = BatchNow
          /\ queue' = queue \ b
          /\ vChecks' = [vChecks EXCEPT ![t] = b]
    /\ fOk' = [fOk EXCEPT ![t] = fAllOk]
    /\ mutex' = NoThread
    /\ pc' = [pc EXCEPT ![t] = "run"]
    /\ UNCHANGED <<nIdle, nTotal, fAllOk, nTodo, added, fRet, nSpurious>>

(* Execute the batch, skipping the checks after a failure. *)
Run(t) ==
    /\ pc[t] = "run"
    /\ fOk' = [fOk EXCEPT ![t] = fOk[t] /\ vChecks[t] \cap BadChecks = {}]
    /\ pc' = [pc EXCEPT ![t] = "lock"]
    /\ UNCHANGED <<queueVars, vChecks, added, fRet, nSpurious>>

(* Shutdown interrupts the thread group: a worker blocked in cond.wait     *)
(* leaves Loop by an exception, so neither counter is decremented.         *)
Interrupt(w) ==
    /\ pc[w] \in {"waiting", "notified"}
    /\ pc' = [pc EXCEPT ![w] = "gone"]
    /\ UNCHANGED <<queueVars, vChecks, fOk, added, fRet, nSpurious>>

-----------------------------------------------------------------------------
Alive == pc[Master] # "aborted"

Step(t) ==
    /\ Alive
    /\ Enter(t) \/ Return(t) \/ Sleep(t) \/ Wake(t) \/ Take(t) \/ Run(t)

(* The end of the process, after a failed assertion or a shutdown that has *)
(* interrupted every worker: nothing need happen any more.                 *)
Ended ==
    /\ Alive => \A w \in Workers : pc[w] = "gone"
    /\ UNCHANGED vars

Next ==
    \/ ControlBegin
    \/ \E vs \in SUBSET (Checks \ added) : Add(vs)
    \/ CallWait
    \/ \E t \in Threads : Step(t)
    \/ \E t \in Threads : Alive /\ SpuriousWake(t)
    \/ \E w \in Workers : Alive /\ Interrupt(w)
    \/ Ended

(* A runnable thread keeps running.  Nothing forces the master to call     *)
(* Wait, a thread to be woken without a notification, or a shutdown.       *)
Fairness == \A t \in Threads : WF_vars(Step(t))

Spec == Init /\ [][Next]_vars
FairSpec == Spec /\ Fairness

-----------------------------------------------------------------------------
TypeOK ==
    /\ queue \subseteq Checks
    /\ nIdle \in Nat /\ nTotal \in Nat /\ nTodo \in Nat
    /\ fAllOk \in BOOLEAN /\ fRet \in BOOLEAN
    /\ mutex \in Threads \cup {NoThread}
    /\ pc \in [Threads -> Points]
    /\ vChecks \in [Threads -> SUBSET Checks]
    /\ fOk \in [Threads -> BOOLEAN]
    /\ added \subseteq Checks
    /\ nSpurious \in 0..MaxSpurious

(* Checks taken off the queue whose result is not recorded in fAllOk yet. *)
InHand == {c \in Checks : \E t \in Threads : c \in vChecks[t]}
Outstanding == queue \cup InHand

(* The threads that nTotal and nIdle are meant to count. *)
InLoop == {t \in Threads :
             \/ pc[t] \in {"test", "waiting", "notified", "run", "gone"}
             \/ pc[t] = "lock" /\ vChecks[t] # {}}
Blocked == {t \in Threads : pc[t] \in {"waiting", "notified", "gone"}}

(* Wait() returns the conjunction of the results of all checks handed to   *)
(* Add since the control was constructed, whichever threads ran them, in   *)
(* whatever batches, and although a thread skips its batch once fAllOk is  *)
(* false (Loop, "if (fOk) fOk = check()").                                 *)
ResultIsConjunction ==
    pc[Master] = "returned" => fRet = (added \cap BadChecks = {})

(* When Wait() has returned, no check of that control is left in the queue *)
(* or in a worker's own batch ("guarantees the passed queue is finished    *)
(* before continuing").                                                    *)
FinishedOnReturn ==
    pc[Master] \in {"outside", "returned"} => Outstanding = {}

(* Whenever the mutex is free and no control is active, the queue is       *)
(* unused in the sense of the constructor's assertions: nTotal = nIdle,    *)
(* nTodo = 0 and fAllOk hold again after every round, interrupted workers  *)
(* included.                                                               *)
UnusedBetweenControls ==
    pc[Master] \in {"outside", "returned"} /\ mutex = NoThread => QueueUnused

-----------------------------------------------------------------------------
(* The parts of the inductive invariant.                                   *)
MutexHeld == \A t \in Threads : pc[t] = "test" <=> mutex = t

BatchesDisjoint ==
    /\ \A t \in Threads : vChecks[t] \cap queue = {}
    /\ \A t, u \in Threads : t # u => vChecks[t] \cap vChecks[u] = {}

BatchPoints ==
    \A t \in Threads :
        /\ vChecks[t] # {} => pc[t] \in {"run", "lock"}
        /\ pc[t] = "run" => vChecks[t] # {}

CountersExact ==
    /\ nTodo = Cardinality(Outstanding)
    /\ nTotal = Cardinality(InLoop)
    /\ nIdle = Cardinality(Blocked)

ResultsSoFar ==
    /\ Outstanding \subseteq added
    /\ fAllOk /\ pc[Master] # "returned" => added \cap BadChecks \subseteq Outstanding
    /\ ~fAllOk => added \cap BadChecks # {}
    /\ \A t \in Threads :
          vChecks[t] # {} =>
            /\ ~fOk[t] => added \cap BadChecks # {}
            /\ fOk[t] /\ pc[t] = "lock" => vChecks[t] \cap BadChecks = {}

BetweenControls ==
    /\ \A w \in Workers : pc[w] \notin {"outside", "adding", "returned", "aborted"}
    /\ pc[Master] \in {"outside", "returned"} => Outstanding = {} /\ fAllOk

(* What holds in every state and is preserved by every step: who holds the *)
(* mutex, that no check is in two hands, that nTodo, nTotal and nIdle count*)
(* exactly what their comments in CCheckQueue say, and what fAllOk and the *)
(* threads' fOk say about the checks already run.                          *)
QueueInv ==
    /\ TypeOK
    /\ MutexHeld
    /\ BatchesDisjoint
    /\ BatchPoints
    /\ CountersExact
    /\ ResultsSoFar
    /\ BetweenControls
    /\ ResultIsConjunction

-----------------------------------------------------------------------------
(* What Wait() returns is the conjunction of the checks, all of them are   *)
(* done then, and between two controls the queue is unused, as the         *)
(* assertions of CCheckQueueControl say.                                   *)
QueueSound == QueueInv /\ FinishedOnReturn /\ UnusedBetweenControls

(* Once the master has called Wait(), Wait() returns: the notification of  *)
(* condMaster is never lost, and the master finishes the work alone if all *)
(* workers are asleep or interrupted.                                      *)
WaitReturns == pc[Master] = "lock" ~> pc[Master] = "returned"

-----------------------------------------------------------------------------
(* The master's view of the queue. *)
PhaseOf(point) ==
    IF point \in {"outside", "returned"} THEN "idle"
    ELSE IF point \in {"adding", "aborted"} THEN point ELSE "waiting"

Verdict == INSTANCE BlockVerdict
           WITH phase <- PhaseOf(pc[Master]), asked <- added, verdict <- fRet

(* The queue with its threads, mutex and condition variables behaves, for  *)
(* the caller of CCheckQueueControl, like one atomic answer per Wait().    *)
ImplementsVerdict == Verdict!Spec
=============================================================================
