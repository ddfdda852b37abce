--------------------------- MODULE EngineLifecycle ---------------------------
(***************************************************************************)
(* The life of the libretro engine: the control operations of              *)
(* LibretroEngine (Start, Stop, Reset, LoadCore, LoadGame, Pause, Resume,  *)
(* Cancel), called by NAPI from several threads, and the game thread they  *)
(* start, feed through messageQueue_ and join.                             *)
(*                                                                         *)
(* A thread is a caller or the game thread.  Each has a program counter    *)
(* pc[t] and the outermost operation op[t] it is inside: the calls nest as *)
(* LoadCore > Start > Reset and Reset > Stop only, so op[t] tells where a  *)
(* nested call returns to, and whether releasing one level of the          *)
(* recursive controlMutex_ frees it.                                       *)
(*                                                                         *)
(* One action is one stretch of code between two points where another      *)
(* thread can make a difference: taking or releasing controlMutex_, a      *)
(* wait, a call into the core, a write to a flag read without the mutex.   *)
(* Windows, frames and synchronous tasks are left to other modules.        *)
(***************************************************************************)
EXTENDS Naturals, Sequences, FiniteSets

CONSTANTS
  Callers,    \* threads that call the public operations
  Game,       \* the game thread (gameThread_)
  Free,       \* controlMutex_ is not held
  Ops,        \* operations the callers may issue
  Faults,     \* what may go wrong, a subset of FaultKinds
  MaxQueue    \* bound: a caller posts only while fewer messages are pending

FaultKinds ==
  {"timeout",       \* the game loop does not exit within STOP_TIMEOUT_MS
   "thread",        \* std::thread throws
   "render",        \* RenderThread::Start returns false
   "core",          \* CoreLoader::LoadCore fails
   "rom",           \* a ROM is refused or retro_load_game fails
   "audio"}         \* AudioBridge refuses Reset, Start or Pause

AllOps == {"Start", "Stop", "Reset", "LoadCore", "LoadGame",
           "Pause", "Resume", "Cancel"}

ASSUME GameNotCaller == Game \notin Callers
ASSUME FreeNotThread == Free \notin Callers \cup {Game}
ASSUME OpsKnown == Ops \subseteq AllOps
ASSUME FaultsKnown == Faults \subseteq FaultKinds
ASSUME MaxQueueNat == MaxQueue \in Nat

Threads == Callers \cup {Game}

States == {"INIT", "STARTING", "LOADING", "CORE_LOADED", "GAME_LOADED",
           "RUNNING", "PAUSED", "STOPPING", "STOPPED", "ERROR"}

\* States in which a core is usable (IsCoreLoadedState).
CoreLoadedStates == {"CORE_LOADED", "GAME_LOADED", "RUNNING", "PAUSED"}

\* Messages posted without a control operation around them.
Posts == {"LoadGame", "Pause", "Resume", "Cancel"}

Messages == {"Stop", "LoadCore"} \cup Posts
NoMsg == "none"

VARIABLES
  state,           \* state_
  running,         \* running_
  stopRequested,   \* stopRequested_
  stopInProgress,  \* stopInProgress_
  stopTimedOut,    \* stopTimedOut_
  gameLoopExited,  \* gameLoopExited_
  joinable,        \* gameThread_.joinable()
  queue, closed,   \* messageQueue_
  coreLoaded,      \* coreLoader_.IsLoaded()
  gameLoaded,      \* gameLoaded_
  lock,            \* owner of controlMutex_
  pc, op,          \* where each thread is
  msg              \* the message the game thread handles

flags == <<running, stopRequested, stopInProgress, stopTimedOut,
           gameLoopExited>>
mq == <<queue, closed>>
core == <<coreLoaded, gameLoaded>>
vars == <<state, flags, joinable, mq, core, lock, pc, op, msg>>

CallerLabels == {"idle", "stop_lock", "start_lock", "start_check",
                 "start_arm", "start_spawn", "start_render", "start_join",
                 "load_lock", "load_push"}

StopLabels == {"stop_request", "stop_close", "stop_wait", "stop_join",
               "stop_clear", "stop_state", "stop_flags"}

\* Inside the part of Reset that tears the session down.
TearDown == {"reset_queue", "reset_core", "reset_state"}

ResetLabels == {"reset_lock", "reset_check", "reset_return"} \cup TearDown

GameLabels == {"none", "top", "drain", "wait", "handle", "load_core",
               "load_rom", "rom_ready", "game_loaded", "audio_start",
               "audio_pause", "stopping", "cancel_done", "frame", "exit"}

Labels == StopLabels \cup ResetLabels \cup CallerLabels \cup GameLabels

LabelsOf(t) == StopLabels \cup ResetLabels \cup
                 (IF t = Game THEN GameLabels ELSE CallerLabels)
-----------------------------------------------------------------------------
(***************************************************************************)
(* The transition table, and TransitionTo: a compare-and-swap loop that    *)
(* leaves the state alone when the table forbids the step.                 *)
(***************************************************************************)
ValidTransitions ==
  LET from(s, to) == {s} \X to IN
  UNION {from("INIT", {"STARTING", "STOPPING", "STOPPED"}),
         from("STARTING", {"CORE_LOADED", "LOADING", "ERROR", "STOPPING"}),
         from("CORE_LOADED", {"LOADING", "GAME_LOADED", "STOPPING", "ERROR"}),
         from("LOADING", {"CORE_LOADED", "GAME_LOADED", "RUNNING", "ERROR",
                          "STOPPING"}),
         from("GAME_LOADED", {"RUNNING", "PAUSED", "CORE_LOADED", "STOPPING",
                              "ERROR"}),
         from("RUNNING", {"PAUSED", "STOPPING", "CORE_LOADED", "ERROR"}),
         from("PAUSED", {"RUNNING", "STOPPING", "CORE_LOADED", "ERROR"}),
         from("STOPPING", {"STOPPED"}),
         from("STOPPED", {"STARTING", "INIT", "LOADING"}),
         from("ERROR", {"STOPPING", "INIT", "STARTING"})}

After(s, to) == IF <<s, to>> \in ValidTransitions THEN to ELSE s

TransitionTo(s) == state' = After(state, s)

\* UnloadGameIfNeeded: what it leaves of the state and of gameLoaded_.  The
\* unload and its two stores are one step: nothing on another thread reads
\* gameLoaded_, and between the unload and TransitionTo, three lines on, state_
\* is the old one.
UnloadKeepsState(s) == s   \* mutant: the unload forgets its transition
AfterUnload(s) == IF coreLoaded /\ gameLoaded THEN After(s, "CORE_LOADED")
                                              ELSE s
GameAfterUnload == gameLoaded /\ ~coreLoaded

Push(m) == queue' = Append(queue, m)

Goto(t, l) == pc' = [pc EXCEPT ![t] = l]

\* The outermost operation of caller t returns.
Return(t) == /\ pc' = [pc EXCEPT ![t] = "idle"]
             /\ op' = [op EXCEPT ![t] = "none"]

Idle(t) == pc[t] = "idle"

\* Where Reset goes on when it returns.
AfterReset(t) == IF op[t] \in {"Start", "LoadCore"} THEN "start_arm"
                                                    ELSE "reset_return"

\* Start returns inside operation op[t].
StartReturns(t, ok) ==
  IF op[t] = "LoadCore" /\ ok
    THEN Goto(t, "load_push") /\ UNCHANGED <<op, lock>>
    ELSE Return(t) /\ lock' = Free

\* Mutant: Reset does not look at what Stop returned.
StopResultIgnored(t, ok) ==
  IF op[t] = "Stop"
    THEN Return(t) /\ lock' = IF lock = t THEN Free ELSE lock
    ELSE Goto(t, "reset_queue") /\ UNCHANGED <<op, lock>>

\* Stop returns ok to its caller, or to the Reset around it.
StopReturns(t, ok) ==
  IF op[t] = "Stop"
    THEN Return(t) /\ lock' = IF lock = t THEN Free ELSE lock
    ELSE /\ Goto(t, IF ok THEN "reset_queue" ELSE AfterReset(t))
         /\ UNCHANGED <<op, lock>>

Acquire(t, l) == lock = Free /\ lock' = t /\ Goto(t, l)
-----------------------------------------------------------------------------
Init ==
  /\ state = "INIT"
  /\ running = FALSE
  /\ stopRequested = FALSE
  /\ stopInProgress = FALSE
  /\ stopTimedOut = FALSE
  /\ gameLoopExited = FALSE
  /\ joinable = FALSE
  /\ queue = <<>>
  /\ closed = FALSE
  /\ coreLoaded = FALSE
  /\ gameLoaded = FALSE
  /\ lock = Free
  /\ pc = [t \in Threads |-> IF t = Game THEN "none" ELSE "idle"]
  /\ op = [t \in Threads |-> "none"]
  /\ msg = NoMsg

\* A caller enters an operation that takes controlMutex_.
Call(t, o) ==
  /\ Idle(t)
  /\ o \in Ops \ Posts
  /\ o = "LoadCore" => Len(queue) < MaxQueue
  /\ op' = [op EXCEPT ![t] = o]
  /\ Goto(t, CASE o = "Start"    -> "start_lock"
               [] o = "Stop"     -> "stop_lock"
               [] o = "Reset"    -> "reset_lock"
               [] o = "LoadCore" -> "load_lock")
  /\ UNCHANGED <<state, flags, joinable, mq, core, lock, msg>>

\* Pause, Resume, Cancel push without the mutex; a closed queue refuses.
Post(t, m) ==
  /\ Idle(t)
  /\ m \in Ops \cap (Posts \ {"LoadGame"})
  /\ Len(queue) < MaxQueue
  /\ ~closed
  /\ Push(m)
  /\ UNCHANGED <<state, flags, joinable, closed, core, lock, pc, op, msg>>

\* LoadGame holds the mutex around its push and nothing else.
LoadGame(t) ==
  /\ Idle(t)
  /\ "LoadGame" \in Ops
  /\ lock = Free
  /\ Len(queue) < MaxQueue
  /\ ~closed
  /\ Push("LoadGame")
  /\ UNCHANGED <<state, flags, joinable, closed, core, lock, pc, op, msg>>
-----------------------------------------------------------------------------
(***************************************************************************)
(* LoadCore and Start                                                      *)
(***************************************************************************)
LoadCoreLock(t) ==
  /\ pc[t] = "load_lock"
  /\ Acquire(t, IF running THEN "load_push" ELSE "start_check")
  /\ UNCHANGED <<state, flags, joinable, mq, core, op, msg>>

LoadCorePush(t) ==
  /\ pc[t] = "load_push"
  /\ IF closed THEN UNCHANGED queue ELSE Push("LoadCore")
  /\ Return(t)
  /\ lock' = Free
  /\ UNCHANGED <<state, flags, joinable, closed, core, msg>>

StartLock(t) ==
  /\ pc[t] = "start_lock"
  /\ Acquire(t, "start_check")
  /\ UNCHANGED <<state, flags, joinable, mq, core, op, msg>>

\* Mutant: Start does not ask whether a stop is under way.
StartDuringStop(t) ==
  /\ pc[t] = "start_check"
  /\ \/ stopTimedOut /\ StartReturns(t, FALSE)
     \/ ~stopTimedOut /\ running /\ StartReturns(t, TRUE)
     \/ ~stopTimedOut /\ ~running /\ Goto(t, "reset_check")
        /\ UNCHANGED <<op, lock>>
  /\ UNCHANGED <<state, flags, joinable, mq, core, msg>>

\* Refused while a stop is under way or after one timed out; a running
\* engine is a success; otherwise everything is reset first.
StartCheck(t) ==
  /\ pc[t] = "start_check"
  /\ \/ (stopInProgress \/ stopTimedOut) /\ StartReturns(t, FALSE)
     \/ ~stopInProgress /\ ~stopTimedOut /\ running /\ StartReturns(t, TRUE)
     \/ /\ ~stopInProgress /\ ~stopTimedOut /\ ~running
        /\ Goto(t, "reset_check")
        /\ UNCHANGED <<op, lock>>
  /\ UNCHANGED <<state, flags, joinable, mq, core, msg>>

StartArm(t) ==
  /\ pc[t] = "start_arm"
  /\ stopRequested' = FALSE
  /\ gameLoopExited' = FALSE
  /\ TransitionTo("STARTING")
  /\ running' = TRUE
  /\ Goto(t, "start_spawn")
  /\ UNCHANGED <<stopInProgress, stopTimedOut, joinable, mq, core, lock, op,
                 msg>>

StartSpawn(t) ==
  /\ pc[t] = "start_spawn"
  /\ joinable' = TRUE
  /\ pc' = [pc EXCEPT ![t] = "start_render", ![Game] = "top"]
  /\ UNCHANGED <<state, flags, mq, core, lock, op, msg>>

StartSpawnFails(t) ==
  /\ pc[t] = "start_spawn"
  /\ "thread" \in Faults
  /\ TransitionTo("ERROR")
  /\ running' = FALSE
  /\ StartReturns(t, FALSE)
  /\ UNCHANGED <<stopRequested, stopInProgress, stopTimedOut, gameLoopExited,
                 joinable, mq, core, msg>>

StartRender(t) ==
  /\ pc[t] = "start_render"
  /\ StartReturns(t, TRUE)
  /\ UNCHANGED <<state, flags, joinable, mq, core, msg>>

StartRenderFails(t) ==
  /\ pc[t] = "start_render"
  /\ "render" \in Faults
  /\ stopRequested' = TRUE
  /\ closed' = TRUE
  /\ Goto(t, "start_join")
  /\ UNCHANGED <<state, running, stopInProgress, stopTimedOut, gameLoopExited,
                 joinable, queue, core, lock, op, msg>>

\* gameThread_.join() with controlMutex_ held.
StartJoin(t) ==
  /\ pc[t] = "start_join"
  /\ pc[Game] = "none"
  /\ joinable' = FALSE
  /\ TransitionTo("ERROR")
  /\ running' = FALSE
  /\ StartReturns(t, FALSE)
  /\ UNCHANGED <<stopRequested, stopInProgress, stopTimedOut, gameLoopExited,
                 mq, core, msg>>
-----------------------------------------------------------------------------
(***************************************************************************)
(* Stop: called by a caller, or by Reset with the mutex held once more.    *)
(***************************************************************************)
StopLock(t) ==
  /\ pc[t] = "stop_lock"
  /\ Acquire(t, "stop_request")
  /\ UNCHANGED <<state, flags, joinable, mq, core, op, msg>>

StopRequest(t) ==
  /\ pc[t] = "stop_request"
  /\ \/ /\ stopInProgress \/ (running /\ closed)
        /\ StopReturns(t, FALSE)
        /\ UNCHANGED <<stopInProgress, queue>>
     \/ /\ ~stopInProgress /\ ~running
        /\ StopReturns(t, TRUE)
        /\ UNCHANGED <<stopInProgress, queue>>
     \/ /\ ~stopInProgress /\ running /\ ~closed
        /\ stopInProgress' = TRUE
        /\ Push("Stop")
        /\ Goto(t, "stop_close")
        /\ UNCHANGED <<op, lock>>
  /\ UNCHANGED <<state, running, stopRequested, stopTimedOut, gameLoopExited,
                 joinable, closed, core, msg>>

\* Close, then release one level of the mutex before the wait.
StopClose(t) ==
  /\ pc[t] = "stop_close"
  /\ closed' = TRUE
  /\ lock' = IF op[t] = "Stop" THEN Free ELSE lock
  /\ Goto(t, "stop_wait")
  /\ UNCHANGED <<state, flags, joinable, queue, core, op, msg>>

StopExited(t) ==
  /\ pc[t] = "stop_wait"
  /\ gameLoopExited
  /\ Goto(t, "stop_join")
  /\ UNCHANGED <<state, flags, joinable, mq, core, lock, op, msg>>

\* Mutant: a stop that timed out declares the engine not running.
TimeoutClearsRunning(t) ==
  /\ pc[t] = "stop_wait"
  /\ ~gameLoopExited
  /\ t = Game \/ "timeout" \in Faults
  /\ running' = FALSE
  /\ stopInProgress' = FALSE
  /\ StopReturns(t, FALSE)
  /\ UNCHANGED <<state, stopTimedOut, stopRequested, gameLoopExited, joinable,
                 mq, core, msg>>

\* The wait ends after STOP_TIMEOUT_MS.  A game thread that waits for its own
\* loop to exit always gets here.
StopTimeout(t) ==
  /\ pc[t] = "stop_wait"
  /\ ~gameLoopExited
  /\ t = Game \/ "timeout" \in Faults
  /\ stopTimedOut' = TRUE
  /\ stopInProgress' = FALSE
  /\ StopReturns(t, FALSE)
  /\ UNCHANGED <<state, running, stopRequested, gameLoopExited, joinable, mq,
                 core, msg>>

StopJoin(t) ==
  /\ pc[t] = "stop_join"
  /\ joinable => pc[Game] = "none"
  /\ joinable' = FALSE
  /\ Goto(t, "stop_clear")
  /\ UNCHANGED <<state, flags, mq, core, lock, op, msg>>

StopClear(t) ==
  /\ pc[t] = "stop_clear"
  /\ running' = FALSE
  /\ Goto(t, "stop_state")
  /\ UNCHANGED <<state, stopRequested, stopInProgress, stopTimedOut,
                 gameLoopExited, joinable, mq, core, lock, op, msg>>

StopState(t) ==
  /\ pc[t] = "stop_state"
  /\ TransitionTo("STOPPED")
  /\ Goto(t, "stop_flags")
  /\ UNCHANGED <<flags, joinable, mq, core, lock, op, msg>>

StopFlags(t) ==
  /\ pc[t] = "stop_flags"
  /\ stopRequested' = FALSE
  /\ stopTimedOut' = FALSE
  /\ stopInProgress' = FALSE
  /\ StopReturns(t, TRUE)
  /\ UNCHANGED <<state, running, gameLoopExited, joinable, mq, core, msg>>
-----------------------------------------------------------------------------
(***************************************************************************)
(* Reset: called by a caller, by Start, or by the game thread on Cancel.   *)
(***************************************************************************)
ResetLock(t) ==
  /\ pc[t] = "reset_lock"
  /\ Acquire(t, "reset_check")
  /\ UNCHANGED <<state, flags, joinable, mq, core, op, msg>>

ResetCheck(t) ==
  /\ pc[t] = "reset_check"
  /\ Goto(t, IF running THEN "stop_request" ELSE "reset_queue")
  /\ UNCHANGED <<state, flags, joinable, mq, core, lock, op, msg>>

\* Mutant: the queue is emptied but stays closed.
ResetLeavesClosed(t) ==
  /\ pc[t] = "reset_queue"
  /\ stopRequested' = FALSE
  /\ stopTimedOut' = FALSE
  /\ stopInProgress' = FALSE
  /\ queue' = <<>>
  /\ Goto(t, "reset_core")
  /\ UNCHANGED <<state, running, gameLoopExited, joinable, closed, core, lock,
                 op, msg>>

ResetQueue(t) ==
  /\ pc[t] = "reset_queue"
  /\ stopRequested' = FALSE
  /\ stopTimedOut' = FALSE
  /\ stopInProgress' = FALSE
  /\ queue' = <<>>
  /\ closed' = FALSE
  /\ Goto(t, "reset_core")
  /\ UNCHANGED <<state, running, gameLoopExited, joinable, core, lock, op,
                 msg>>

\* retro_unload_game, retro_deinit, dlclose.
ResetCore(t) ==
  /\ pc[t] = "reset_core"
  /\ state' = AfterUnload(state)
  /\ coreLoaded' = FALSE
  /\ gameLoaded' = GameAfterUnload
  /\ Goto(t, "reset_state")
  /\ UNCHANGED <<flags, joinable, mq, lock, op, msg>>

\* INIT is forced here, whatever the table says.
ResetState(t) ==
  /\ pc[t] = "reset_state"
  /\ state' = "INIT"
  /\ gameLoaded' = FALSE
  /\ Goto(t, AfterReset(t))
  /\ UNCHANGED <<flags, joinable, mq, coreLoaded, lock, op, msg>>

ResetReturn(t) ==
  /\ pc[t] = "reset_return"
  /\ lock' = Free
  /\ IF t = Game THEN Goto(t, "cancel_done") /\ UNCHANGED op
                 ELSE Return(t)
  /\ UNCHANGED <<state, flags, joinable, mq, core, msg>>
-----------------------------------------------------------------------------
(***************************************************************************)
(* The game thread: GameLoop and HandleMessage                             *)
(***************************************************************************)
At(l) == pc[Game] = l

\* HandleMessage returns; the loop drains on while the engine runs.
HandleDone ==
  /\ Goto(Game, IF op[Game] = "Drain" /\ state' = "RUNNING" THEN "drain"
                                                            ELSE "top")
  /\ op' = [op EXCEPT ![Game] = "none"]

GameTop ==
  /\ At("top")
  /\ LET leaves == ~running \/ stopRequested \/ state \in {"STOPPING", "STOPPED"}
     IN  /\ IF running /\ stopRequested THEN TransitionTo("STOPPING")
                                        ELSE UNCHANGED state
         /\ Goto(Game, IF leaves THEN "exit"
                       ELSE IF state = "RUNNING" THEN "drain" ELSE "wait")
  /\ UNCHANGED <<flags, joinable, mq, core, lock, op, msg>>

Pop == msg' = Head(queue) /\ queue' = Tail(queue)

\* The running engine drains its messages, then runs one frame.
GameDrain ==
  /\ At("drain")
  /\ queue # <<>>
  /\ Pop
  /\ Goto(Game, "handle")
  /\ op' = [op EXCEPT ![Game] = "Drain"]
  /\ UNCHANGED <<state, flags, joinable, closed, core, lock>>

GameDrained ==
  /\ At("drain")
  /\ queue = <<>>
  /\ \/ /\ state # "RUNNING"
        /\ Goto(Game, "top") /\ UNCHANGED state
     \/ /\ state = "RUNNING" /\ stopRequested
        /\ Goto(Game, "exit") /\ TransitionTo("STOPPING")
     \/ /\ state = "RUNNING" /\ ~stopRequested
        /\ Goto(Game, "frame") /\ UNCHANGED state
  /\ UNCHANGED <<flags, joinable, mq, core, lock, op, msg>>

\* ProcessFrame: retro_run.
GameFrame ==
  /\ At("frame")
  /\ Goto(Game, "top")
  /\ UNCHANGED <<state, flags, joinable, mq, core, lock, op, msg>>

\* Mutant: Close does not wake the waiting thread.
WaitIgnoresClose ==
  /\ At("wait")
  /\ queue # <<>>
  /\ Pop /\ Goto(Game, "handle")
  /\ UNCHANGED <<state, flags, joinable, closed, core, lock, op>>

\* WaitAndPop blocks until a message or a closed, empty queue.
GameWait ==
  /\ At("wait")
  /\ queue # <<>> \/ closed
  /\ IF queue # <<>> THEN Pop /\ Goto(Game, "handle")
                     ELSE UNCHANGED <<msg, queue>> /\ Goto(Game, "exit")
  /\ UNCHANGED <<state, flags, joinable, closed, core, lock, op>>

GameExit ==
  /\ At("exit")
  /\ gameLoopExited' = TRUE
  /\ Goto(Game, "none")
  /\ UNCHANGED <<state, running, stopRequested, stopInProgress, stopTimedOut,
                 joinable, mq, core, lock, op, msg>>

Handles(m) == At("handle") /\ msg = m

\* Pause and Resume in the one state each applies to.
HandlePauseResume ==
  /\ \/ Handles("Pause") /\ state = "RUNNING"
        /\ TransitionTo("PAUSED") /\ Goto(Game, "audio_pause")
     \/ Handles("Resume") /\ state = "PAUSED"
        /\ TransitionTo("RUNNING") /\ Goto(Game, "audio_start")
  /\ msg' = NoMsg
  /\ UNCHANGED <<flags, joinable, mq, core, lock, op>>

\* A message the handler ignores in the current state.
HandleIgnored ==
  /\ At("handle")
  /\ state \notin (CASE msg = "Pause" -> {"RUNNING"}
                     [] msg = "Resume" -> {"PAUSED"}
                     [] msg = "Cancel" -> {"STARTING", "LOADING", "CORE_LOADED"}
                     [] msg = "LoadCore" -> {"INIT", "STARTING", "STOPPED", "ERROR"}
                     [] msg = "LoadGame" -> CoreLoadedStates
                     [] msg = "Stop" -> States)
  /\ UNCHANGED state
  /\ HandleDone
  /\ msg' = NoMsg
  /\ UNCHANGED <<flags, joinable, mq, core, lock>>

HandleStop ==
  /\ Handles("Stop")
  /\ stopRequested' = TRUE
  /\ state' = AfterUnload(state)
  /\ gameLoaded' = GameAfterUnload
  /\ Goto(Game, "stopping")
  /\ msg' = NoMsg
  /\ UNCHANGED <<running, stopInProgress, stopTimedOut, gameLoopExited,
                 joinable, mq, coreLoaded, lock, op>>

GameStopping ==
  /\ At("stopping")
  /\ TransitionTo("STOPPING")
  /\ HandleDone
  /\ UNCHANGED <<flags, joinable, mq, core, lock, msg>>

\* Cancel unloads the core and then calls Reset on this very thread.
HandleCancel ==
  /\ Handles("Cancel")
  /\ state \in {"STARTING", "LOADING", "CORE_LOADED"}
  /\ state' = AfterUnload(state)
  /\ coreLoaded' = FALSE
  /\ gameLoaded' = GameAfterUnload
  /\ Goto(Game, "reset_lock")
  /\ op' = [op EXCEPT ![Game] = "Cancel"]
  /\ msg' = NoMsg
  /\ UNCHANGED <<flags, joinable, mq, lock>>

CancelDone ==
  /\ At("cancel_done")
  /\ TransitionTo("INIT")
  /\ HandleDone
  /\ UNCHANGED <<flags, joinable, mq, core, lock, msg>>

HandleLoadCore ==
  /\ Handles("LoadCore")
  /\ state \in {"INIT", "STARTING", "STOPPED", "ERROR"}
  /\ TransitionTo("LOADING")
  /\ Goto(Game, "load_core")
  /\ msg' = NoMsg
  /\ UNCHANGED <<flags, joinable, mq, core, lock, op>>

\* The previous core is unloaded, then the new one is loaded or not.
GameLoadCore ==
  /\ At("load_core")
  /\ \/ /\ state' = After(AfterUnload(state), "CORE_LOADED")
        /\ coreLoaded' = TRUE
        /\ gameLoaded' = GameAfterUnload
     \/ /\ "core" \in Faults
        /\ state' = After(AfterUnload(state), "ERROR")
        /\ coreLoaded' = FALSE
        /\ gameLoaded' = FALSE
  /\ HandleDone
  /\ UNCHANGED <<flags, joinable, mq, lock, msg>>

\* LoadRom: refused (bad path, no core), ignored (a no-game core already
\* runs), or the current game goes and the new one is tried.
HandleLoadRom ==
  /\ Handles("LoadGame")
  /\ state \in CoreLoadedStates
  /\ \/ /\ "rom" \in Faults \/ ~coreLoaded
        /\ TransitionTo("ERROR")
        /\ HandleDone
        /\ UNCHANGED gameLoaded
     \/ /\ coreLoaded /\ state # "CORE_LOADED"
        /\ UNCHANGED <<state, gameLoaded>>
        /\ HandleDone
     \/ /\ coreLoaded
        /\ state' = After(IF state = "CORE_LOADED" THEN state
                                                   ELSE AfterUnload(state),
                          "LOADING")
        /\ gameLoaded' = IF state = "CORE_LOADED" THEN gameLoaded
                                                  ELSE GameAfterUnload
        /\ Goto(Game, "load_rom")
        /\ UNCHANGED op
  /\ msg' = NoMsg
  /\ UNCHANGED <<flags, joinable, mq, coreLoaded, lock>>

GameLoadRom ==
  /\ At("load_rom")
  /\ gameLoaded' = TRUE
  /\ Goto(Game, "rom_ready")
  /\ UNCHANGED <<state, flags, joinable, mq, coreLoaded, lock, op, msg>>

GameLoadRomFails ==
  /\ At("load_rom")
  /\ "rom" \in Faults
  /\ TransitionTo("ERROR")
  /\ HandleDone
  /\ UNCHANGED <<flags, joinable, mq, core, lock, msg>>

\* AudioBridge::Reset, then GAME_LOADED.
GameRomReady ==
  /\ At("rom_ready")
  /\ TransitionTo("GAME_LOADED")
  /\ Goto(Game, "game_loaded")
  /\ UNCHANGED <<flags, joinable, mq, core, lock, op, msg>>

GameRomReadyFails ==
  /\ At("rom_ready")
  /\ "audio" \in Faults
  /\ state' = After(AfterUnload(state), "ERROR")
  /\ gameLoaded' = GameAfterUnload
  /\ HandleDone
  /\ UNCHANGED <<flags, joinable, mq, coreLoaded, lock, msg>>

GameGoesRunning ==
  /\ At("game_loaded")
  /\ TransitionTo("RUNNING")
  /\ Goto(Game, "audio_start")
  /\ UNCHANGED <<flags, joinable, mq, core, lock, op, msg>>

\* AudioBridge follows the state; a refusal turns RUNNING or PAUSED to ERROR.
GameAudio ==
  /\ At("audio_start") \/ At("audio_pause")
  /\ \/ UNCHANGED state
     \/ "audio" \in Faults /\ TransitionTo("ERROR")
  /\ HandleDone
  /\ UNCHANGED <<flags, joinable, mq, core, lock, msg>>
-----------------------------------------------------------------------------
\* What an operation returns that comes back from pc[t].
Outcome(t) ==
  \/ pc[t] \in {"start_render", "stop_flags", "reset_return"}
  \/ pc[t] = "start_check" /\ ~stopInProgress /\ ~stopTimedOut
  \/ pc[t] = "stop_request" /\ ~stopInProgress /\ ~running
  \/ pc[t] = "load_push" /\ ~closed

CallerBegins ==
  \E t \in Callers :
     \/ \E o \in AllOps : Call(t, o) \/ Post(t, o)
     \/ LoadGame(t)

CallerStep(t) ==
  \/ LoadCoreLock(t) \/ LoadCorePush(t)
  \/ StartLock(t) \/ StartCheck(t) \/ StartArm(t)
  \/ StartSpawn(t) \/ StartSpawnFails(t)
  \/ StartRender(t) \/ StartRenderFails(t) \/ StartJoin(t)

\* Stop and Reset run on callers and on the game thread alike.
SharedStep(t) ==
  \/ StopLock(t) \/ StopRequest(t) \/ StopClose(t) \/ StopExited(t)
  \/ StopTimeout(t) \/ StopJoin(t) \/ StopClear(t) \/ StopState(t)
  \/ StopFlags(t)
  \/ ResetLock(t) \/ ResetCheck(t) \/ ResetQueue(t) \/ ResetCore(t)
  \/ ResetState(t) \/ ResetReturn(t)

GameStep ==
  \/ GameTop \/ GameDrain \/ GameDrained \/ GameFrame \/ GameWait \/ GameExit
  \/ HandlePauseResume \/ HandleIgnored \/ HandleStop \/ GameStopping
  \/ HandleCancel \/ CancelDone
  \/ HandleLoadCore \/ GameLoadCore
  \/ HandleLoadRom \/ GameLoadRom \/ GameLoadRomFails
  \/ GameRomReady \/ GameRomReadyFails \/ GameGoesRunning \/ GameAudio

Next ==
  \/ CallerBegins
  \/ \E t \in Callers : CallerStep(t)
  \/ \E t \in Threads : SharedStep(t)
  \/ GameStep

Spec == Init /\ [][Next]_vars

(***************************************************************************)
(* Fairness.  Every thread that can take a step inside an operation        *)
(* eventually does: the scheduler runs it.  That callers call again is not *)
(* assumed.  In HungCoreSpec the game thread is an exception while a core  *)
(* is loaded or loading: it may hang in retro_run or retro_load_game for   *)
(* as long as it likes.  LiveSpec assumes that the core always returns.    *)
(***************************************************************************)
InCore == coreLoaded \/ At("load_core")

HungCoreSpec ==
  /\ Spec
  /\ \A t \in Callers : WF_vars(CallerStep(t))
  /\ \A t \in Callers : WF_vars(SharedStep(t))
  /\ WF_vars(~InCore /\ GameStep)

CoreReturns == WF_vars(GameStep) /\ WF_vars(SharedStep(Game))

LiveSpec == HungCoreSpec /\ CoreReturns
-----------------------------------------------------------------------------
(***************************************************************************)
(* Properties                                                              *)
(***************************************************************************)
PcType == /\ pc \in [Threads -> Labels]
          /\ \A t \in Threads : pc[t] \in LabelsOf(t)

OpType == op \in [Threads -> {"none", "Drain"} \cup AllOps]

\* Every variable in its type; the game thread at its own labels, a caller at
\* those of the control operations.
TypeOK ==
  /\ state \in States
  /\ running \in BOOLEAN
  /\ stopRequested \in BOOLEAN
  /\ stopInProgress \in BOOLEAN
  /\ stopTimedOut \in BOOLEAN
  /\ gameLoopExited \in BOOLEAN
  /\ joinable \in BOOLEAN
  /\ queue \in Seq(Messages)
  /\ closed \in BOOLEAN
  /\ coreLoaded \in BOOLEAN
  /\ gameLoaded \in BOOLEAN
  /\ lock \in Threads \cup {Free}
  /\ PcType
  /\ OpType
  /\ msg \in Messages \cup {NoMsg}

\* The game thread exists and has not returned from GameLoop.
Alive == ~At("none")

\* Reset empties the queue, unloads the core and forces INIT only when no
\* game thread can be inside the core, and never on two threads at once: a
\* stop that timed out aborts it, whatever the callers do meanwhile.
TearDownAlone ==
  \A t \in Threads : pc[t] \in TearDown =>
     /\ ~Alive
     /\ \A u \in Threads \ {t} : pc[u] \notin TearDown

\* gameThread_ is assigned a new std::thread only after the old one was
\* joined; the assignment would terminate the process otherwise.
SpawnOnlyWhenJoined ==
  \A t \in Threads : pc[t] = "start_spawn" => ~joinable

\* A game thread starts on an open queue without the Stop of an earlier
\* session and with no core left from it.
FreshSession ==
  \A t \in Threads : pc[t] \in {"start_arm", "start_spawn"} =>
     /\ ~closed
     /\ \A i \in DOMAIN queue : queue[i] # "Stop"
     /\ ~coreLoaded /\ ~gameLoaded

\* The state callers poll agrees with what is loaded: a core in every state
\* that lets a ROM be loaded, a game in those that let it be paused or saved
\* (but for the lines inside UnloadGameIfNeeded, see AfterUnload).
StateMatchesCore ==
  /\ state \in CoreLoadedStates => coreLoaded
  /\ state \in {"RUNNING", "PAUSED"} => gameLoaded

\* STOPPED, for which a switch waits before it starts the next game, is only
\* published once the game thread is gone.
StoppedMeansQuiet == state = "STOPPED" => ~Alive

\* An engine that reports itself running takes messages, unless a stop is
\* under way or timed out, or a failed Start is joining its thread: Start's
\* "already running" is no false success.
RunningTakesMessages ==
  running /\ closed =>
     \/ stopTimedOut \/ stopInProgress
     \/ \E t \in Threads : pc[t] = "start_join"

\* A step that goes wrong in the code: a Reset that saw the running_ = false of
\* a Stop tears down before that Stop has stored STOPPED and its flags.  Start
\* asks for stopInProgress_ before it resets, Reset does not.
ResetAlone ==
  \A t \in Threads :
     op[t] \in {"Reset", "Cancel"} /\ pc[t] = "reset_queue" /\ pc'[t] = "reset_core" =>
       \A u \in Threads : pc[u] \notin {"stop_state", "stop_flags"}

\* A cancel that applies ends in INIT.
CancelReturnsToInit ==
  [][At("cancel_done") /\ pc'[Game] = "top" => state' = "INIT"]_vars

-----------------------------------------------------------------------------
(***************************************************************************)
(* What the core sees.  The session implements CoreProtocol: one owner at  *)
(* a time, and calls in the order the libretro API asks for.               *)
(***************************************************************************)
Owner == IF Alive THEN Game
         ELSE IF \E t \in Callers : pc[t] \in TearDown
              THEN CHOOSE t \in Callers : pc[t] \in TearDown
              ELSE Free

Loaded == IF gameLoaded THEN "game" ELSE IF coreLoaded THEN "core" ELSE "none"

Protocol == INSTANCE CoreProtocol WITH
              Nobody <- Free, owner <- Owner, loaded <- Loaded

\* Every step of the engine is a step of the protocol or changes nothing in it.
ImplementsProtocol == Protocol!Spec
=============================================================================
