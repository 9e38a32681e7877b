----------------------------- MODULE MCProgress -----------------------------
(***************************************************************************)
(* What must eventually happen, in small instances of the parts whose       *)
(* threads wait for each other or for messages.  A behaviour runs one part,  *)
(* the others rest in their initial states.                                 *)
(*   queue      the script check queue of ConnectBlock (CheckQueue)         *)
(*   engine     the writers and the background thread of leveldb (LevelDB)  *)
(*   env        leveldb's background thread and its queue (PosixEnv)        *)
(*   nodes      the socket and message handlers and the choice of the       *)
(*              synchronisation node (Net)                                  *)
(*   relay      two nodes that exchange blocks (Relay)                      *)
(*   life       start, import, reindex and shutdown of the node (Lifecycle) *)
(***************************************************************************)
EXTENDS CheckQueue, LevelDB, PosixEnv, Net, Relay, Lifecycle

CONSTANT Parts
VARIABLE part

progressvars == <<part, vars, ldbvars, evars, nvars, rvars, lvars>>

BatchTable == {<<>>, <<[key |-> 1, del |-> FALSE]>>,
               <<[key |-> 1, del |-> TRUE], [key |-> 2, del |-> FALSE]>>}
ProcessTable == [t \in Lockers |-> t]
ParentTable == <<0, 0, 2>>

\* The tables, by names of their own, so that TLC evaluates each only once.
MCBatches == BatchTable
MCProcess == ProcessTable
MCParent == ParentTable

ProgressInit ==
    /\ part \in Parts
    /\ Init /\ LdbInit /\ EnvInit /\ NetInit /\ RelayInit /\ LifeInit

Queue == /\ part = "queue" /\ Next
         /\ UNCHANGED <<part, ldbvars, evars, nvars, rvars, lvars>>
Engine == /\ part = "engine" /\ LdbNext
          /\ UNCHANGED <<part, vars, evars, nvars, rvars, lvars>>
Environment == /\ part = "env" /\ EnvNext
               /\ UNCHANGED <<part, vars, ldbvars, nvars, rvars, lvars>>
Connections == /\ part = "nodes" /\ NetNext
               /\ UNCHANGED <<part, vars, ldbvars, evars, rvars, lvars>>
Relaying == /\ part = "relay" /\ RelayNext
            /\ UNCHANGED <<part, vars, ldbvars, evars, nvars, lvars>>
Life == /\ part = "life" /\ LifeNext
        /\ UNCHANGED <<part, vars, ldbvars, evars, nvars, rvars>>

ProgressNext == Queue \/ Engine \/ Environment \/ Connections \/ Relaying \/ Life

ProgressSpec == ProgressInit /\ [][ProgressNext]_progressvars

-----------------------------------------------------------------------------
(* The fairness of each part's own specification.  It is the hypothesis of   *)
(* the properties below: a part answers for its own threads only.            *)

QueueFair == \A t \in Threads : WF_vars(part = "queue" /\ Step(t))
EngineFair == /\ WF_ldbvars(part = "engine" /\ Background)
              /\ WF_ldbvars(part = "engine" /\ Writing)
              /\ WF_ldbvars(part = "engine" /\ Open)
EnvFair == WF_evars(part = "env" /\ BGThread)
NodesFair == /\ WF_nvars(part = "nodes" /\ SocketNext)
             /\ WF_nvars(part = "nodes" /\ MessageNext)
RelayFair == \A e \in Pairs : /\ WF_rvars(part = "relay" /\ ProcessBlockMessage(e[1], e[2]))
                              /\ WF_rvars(part = "relay" /\ SendBlockMessages(e[1], e[2]))
                              /\ WF_rvars(part = "relay" /\ Tick(e[1], e[2]))
LifeFair == /\ WF_lvars(part = "life" /\ MainStep)
            /\ \A t \in Group : WF_lvars(part = "life" /\ ThreadEnds(t))

\* CCheckQueue::Wait() returns: no notification of its condition variables is
\* lost, also when they wake up spuriously, and the master finishes alone if
\* every worker sleeps or was interrupted.
WaitsEnd == QueueFair => WaitReturns

\* leveldb's background work gets done: a Write returns whatever
\* MakeRoomForWrite waits for, also after a failure or a restart, and every
\* item given to PosixEnv::Schedule is run.
BackgroundRuns == (EngineFair => WritesReturn) /\ (EnvFair => ScheduledRun)

\* The download of the chain never rests on a connection that is gone: again
\* and again ThreadMessageHandler has chosen a live node, if there is one.
SyncResumes == NodesFair => SyncGoesOn

\* Two nodes that stay connected end up with equally long best chains, although
\* inventories, batches of getblocks, orphans and a reconnection cross, and on
\* the way neither connects a block before its parent or keeps as an orphan
\* what it could connect (inv, getblocks, getdata, block; ProcessBlock).
BlocksSpread == []RelaySound /\ (RelayFair => NodesConverge)

\* A node that was asked to stop stops, wherever its threads and its start are
\* (AppInit2, StartShutdown, Shutdown).
ShutdownEnds == LifeFair => ShutdownCompletes
=============================================================================
