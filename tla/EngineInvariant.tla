--------------------------- MODULE EngineInvariant ---------------------------
(***************************************************************************)
(* The inductive invariant behind the safety of EngineLifecycle.  Three    *)
(* things keep the tear-down away from the game thread: controlMutex_      *)
(* orders Start, Reset and the first half of Stop; running_ stays true     *)
(* from before the thread is created until after it was joined; and the    *)
(* closed queue keeps a second Stop out while the first one waits without  *)
(* the mutex.                                                              *)
(***************************************************************************)
EXTENDS EngineLifecycle

\* Where a thread holds controlMutex_ in every operation.
LockedLabels ==
  {"load_push", "start_check", "start_arm", "start_spawn", "start_render",
   "start_join", "stop_request", "stop_close", "reset_check", "reset_return"}
  \cup TearDown

\* A Stop called by Reset waits with the mutex held, any other without.
Holds(t) == \/ pc[t] \in LockedLabels
            \/ pc[t] \in StopLabels /\ op[t] # "Stop"

MutexInv == \A t \in Threads : Holds(t) => lock = t

\* Which operation a thread at a label can be in.  Only the game thread
\* cancels, and it never calls anything else.
StartOps == {"Start", "LoadCore"}
ResetOps == {"Reset", "Cancel"}
StartLabels == {"start_check", "start_arm", "start_spawn", "start_render",
                "start_join"}

OpInv ==
  /\ \A t \in Threads :
       /\ pc[t] = "stop_lock" => op[t] = "Stop"
       /\ pc[t] \in StopLabels => op[t] \in {"Stop"} \cup ResetOps
       /\ pc[t] \in {"reset_lock", "reset_return"} => op[t] \in ResetOps
       /\ pc[t] \in {"reset_check"} \cup TearDown =>
            op[t] \in ResetOps \cup StartOps
       /\ pc[t] \in StartLabels => op[t] \in StartOps
       /\ pc[t] = "start_lock" => op[t] = "Start"
       /\ pc[t] \in {"load_lock", "load_push"} => op[t] = "LoadCore"
  /\ \A t \in Callers : op[t] \notin {"Drain", "Cancel"}
  /\ op[Game] \in {"none", "Drain", "Cancel"}

\* running_ covers the life of the thread.
ThreadInv ==
  /\ Alive => joinable
  /\ joinable => running

\* What each operation may rely on between its steps.
StartingLabels == {"start_spawn", "start_render", "start_join"}
StopActive == {"stop_close", "stop_wait", "stop_join", "stop_clear"}

RunningInv ==
  \A t \in Threads :
    /\ pc[t] \in TearDown \cup {"start_arm"} => ~running
    /\ pc[t] = "reset_check" /\ op[t] \in StartOps => ~running
    /\ pc[t] \in {"stop_state", "stop_flags"} /\ op[t] # "Stop" => ~running
    /\ pc[t] \in StartingLabels \cup StopActive => running
    /\ pc[t] = "start_spawn" => ~joinable
    /\ pc[t] = "stop_clear" => ~joinable

\* One Stop at a time gets past its check, and none while Start runs.
StopInv ==
  \A t \in Threads : pc[t] \in StopActive =>
    /\ pc[t] # "stop_close" => closed
    /\ \A u \in Threads \ {t} : pc[u] \notin StartingLabels \cup StopActive

\* What Reset has already cleared.
CleanInv ==
  \A t \in Threads :
    /\ pc[t] \in {"reset_core", "reset_state", "start_arm", "start_spawn"} =>
         ~closed /\ \A i \in DOMAIN queue : queue[i] # "Stop"
    /\ pc[t] \in {"reset_state", "start_arm", "start_spawn"} =>
         ~coreLoaded /\ ~gameLoaded

\* A game lives in a core, and CORE_LOADED means there is none yet.
CoreInv ==
  /\ gameLoaded => coreLoaded
  /\ state = "CORE_LOADED" => ~gameLoaded
  /\ At("load_rom") => coreLoaded /\ ~gameLoaded /\ state # "CORE_LOADED"

\* All of it is preserved by every step, whatever the callers do.
IInv == /\ TypeOK /\ MutexInv /\ OpInv /\ ThreadInv /\ RunningInv
        /\ StopInv /\ CleanInv /\ CoreInv

-----------------------------------------------------------------------------
(***************************************************************************)
(* While no Reset tears a session down in the middle of another thread's   *)
(* Stop, stopInProgress_ covers every Stop from its request to its last    *)
(* store: Start keeps out, STOPPED is not published over a new session and *)
(* the closed queue is never left without a reason.                        *)
(***************************************************************************)
StopBegun == StopActive \cup {"stop_state", "stop_flags"}

\* On the way from Start's check to its return, or from Reset's first store to
\* its last.
Starting(t) ==
  \/ pc[t] \in {"reset_core", "reset_state", "start_arm"} \cup StartingLabels
  \/ pc[t] \in {"reset_check", "reset_queue"} /\ op[t] \in StartOps

\* A Stop that waits is never woken by the exit of an earlier loop, nor does
\* the game thread see its own.
LoopInv ==
  Alive \/ (\E t \in Threads : pc[t] = "start_spawn") => ~gameLoopExited

BegunInv ==
  \A t \in Threads : pc[t] \in StopBegun =>
    /\ stopInProgress
    /\ pc[t] \notin {"stop_close", "stop_wait"} => t # Game
    /\ pc[t] \in {"stop_state", "stop_flags"} => ~running
    /\ \A u \in Threads \ {t} : pc[u] \notin StopBegun /\ ~Starting(u)

StoppedInv ==
  state = "STOPPED" => ~Alive /\ \A t \in Threads : pc[t] # "start_spawn"

QuietInv == LoopInv /\ BegunInv /\ StoppedInv /\ RunningTakesMessages

-----------------------------------------------------------------------------
(***************************************************************************)
(* While nobody calls Cancel, whose unload leaves the state as it is, the  *)
(* state agrees with what is loaded.  It does since the game loop comes to *)
(* its end only in a state without a core, or before it has loaded one,    *)
(* and the closed queue always has a Stop on the way.                      *)
(***************************************************************************)
NoCancelPosted == \A i \in DOMAIN queue : queue[i] # "Cancel"

NoCancel ==
  /\ NoCancelPosted
  /\ msg # "Cancel"
  /\ pc[Game] \in GameLabels \ {"cancel_done"}

\* The state while the game thread loads.
LoadInv ==
  /\ StateMatchesCore
  /\ At("load_core") => state \in {"LOADING", "ERROR"}
  /\ pc[Game] \in {"rom_ready", "game_loaded"} => gameLoaded

Ending == {"STOPPING", "STOPPED"}
Down == Ending \cup {"INIT", "ERROR"}
Off == ~Alive \/ At("exit")

\* The state when the game thread is gone or about to go.
DownInv ==
  /\ Alive => state # "INIT"
  /\ state \in Ending => pc[Game] \in {"none", "top", "exit"}
  /\ Off => \/ state \in Down
            \/ /\ state = "STARTING"
               /\ \E t \in Threads : pc[t] \in {"start_spawn", "start_join"}
  /\ \A t \in Threads : pc[t] = "start_spawn" => state \notin {"INIT", "ERROR"}

\* A thread that is being started finds nothing to do.
Idling == {"none", "top", "wait", "handle", "exit"}
StartInv ==
  \A t \in Threads :
    /\ pc[t] \in {"reset_core", "reset_state", "start_arm"} \cup StartingLabels =>
         \A i \in DOMAIN queue : queue[i] \notin {"Stop", "LoadCore"}
    /\ pc[t] \in {"start_spawn", "start_render"} => ~stopRequested /\ ~closed
    /\ pc[t] \in {"start_render", "start_join"} =>
         /\ state \in Down \cup {"STARTING"}
         /\ pc[Game] \in Idling
         /\ At("handle") => msg \notin {"Stop", "LoadCore"}

\* The Stop that was pushed before the queue was closed arrives.
StopComing == \/ \E i \in DOMAIN queue : queue[i] = "Stop"
              \/ At("handle") /\ msg = "Stop"
              \/ At("stopping")
              \/ state \in Ending

ClosedInv ==
  /\ closed /\ Alive => StopComing \/ \E t \in Threads : pc[t] = "start_join"
  /\ \A t \in Threads : pc[t] = "stop_close" /\ Alive => StopComing

MatchInv == NoCancel /\ LoadInv /\ DownInv /\ StartInv /\ ClosedInv
=============================================================================
