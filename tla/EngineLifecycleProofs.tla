------------------------ MODULE EngineLifecycleProofs ------------------------
(***************************************************************************)
(* What is proved of EngineLifecycle, in three parts.                      *)
(*                                                                         *)
(* IInv is an inductive invariant, and the safety properties follow from   *)
(* it.  The proof goes piece by piece: types and operations, the mutex,    *)
(* the life of the thread, what Reset cleans, the core.  Each piece has    *)
(* one lemma per group of actions (a call begins, LoadCore and Start, Stop *)
(* and Reset, the game thread), with one step per action.                  *)
(*                                                                         *)
(* QuietInv is inductive while no Reset tears down in the last stores of   *)
(* another thread's Stop, and MatchInv while nobody calls Cancel; what the *)
(* published state promises follows.                                       *)
(*                                                                         *)
(* EngineLifecycle implements CoreProtocol under the mapping Owner, Loaded:*)
(* Start, the exit of the game loop and the tear-down of Reset move the    *)
(* ownership, the game thread's load and unload steps and Reset's unload   *)
(* change what is loaded, and every other step stutters.                   *)
(***************************************************************************)
EXTENDS EngineInvariant, TLAPS

-----------------------------------------------------------------------------
\* Types, and the operation each thread is in.

\* Every label a thread can be at is a label.
LEMMA LabelsOfLabels == \A t : LabelsOf(t) \subseteq Labels
  BY DEF LabelsOf, Labels

\* TransitionTo takes the step or leaves the state alone.
LEMMA AfterIn == \A s, to : After(s, to) \in {s, to}
  BY DEF After

\* Moving to one of its own labels keeps a thread well typed.
LEMMA GotoType ==
  ASSUME PcType, NEW t \in Threads, NEW l \in LabelsOf(t), Goto(t, l)
  PROVE  PcType'
  BY LabelsOfLabels DEF PcType, Goto

\* So does the return of a caller.
LEMMA ReturnType ==
  ASSUME PcType, OpType, NEW t \in Callers, Return(t)
  PROVE  PcType' /\ OpType'
<1>1. "idle" \in LabelsOf(t)
  BY GameNotCaller DEF LabelsOf, CallerLabels
<1>. QED  BY <1>1, LabelsOfLabels DEF PcType, OpType, Return, Threads


\* TransitionTo stays within the states.
LEMMA AfterType == \A s, to \in States : After(s, to) \in States
  BY AfterIn

\* The states the code names are states.
LEMMA StatesListed ==
  {"STARTING", "ERROR", "STOPPED", "STOPPING", "CORE_LOADED", "LOADING", "GAME_LOADED",
       "RUNNING", "PAUSED", "INIT"} \subseteq States
  BY DEF States

\* UnloadGameIfNeeded keeps the types.
LEMMA UnloadType ==
  /\ \A s \in States : AfterUnload(s) \in States
  /\ GameAfterUnload \in BOOLEAN
  BY AfterType, StatesListed DEF AfterUnload, GameAfterUnload

\* LoadCore and Start keep the types.
LEMMA CallerType ==
  ASSUME TypeOK, OpInv, NEW t \in Callers, CallerStep(t) PROVE TypeOK'
<1>. USE GotoType, ReturnType, AfterType, StatesListed DEF TypeOK, flags, mq, core
<1>0. t \in Threads /\ CallerLabels \subseteq LabelsOf(t) /\ ResetLabels \subseteq
     LabelsOf(t)
  BY GameNotCaller DEF Threads, LabelsOf
<1>1. CASE LoadCoreLock(t) BY <1>0, <1>1 DEF LoadCoreLock, Acquire, CallerLabels, OpType
<1>2. CASE LoadCorePush(t) BY <1>0, <1>2 DEF LoadCorePush, Push, Messages
<1>3. CASE StartLock(t) BY <1>0, <1>3 DEF StartLock, Acquire, CallerLabels, OpType
<1>4. CASE StartCheck(t) BY <1>0, <1>4 DEF StartCheck, StartReturns, CallerLabels,
     ResetLabels, OpType
<1>5. CASE StartArm(t) BY <1>0, <1>5 DEF StartArm, TransitionTo, CallerLabels, OpType
<1>6. CASE StartSpawn(t)
  <2>1. "start_render" \in LabelsOf(t) /\ "top" \in LabelsOf(Game)
    BY <1>0 DEF CallerLabels, GameLabels, LabelsOf
  <2>2. PcType'
    BY <1>0, <1>6, <2>1, LabelsOfLabels DEF StartSpawn, PcType, Threads
  <2>. QED  BY <1>6, <2>2 DEF StartSpawn, OpType
<1>7. CASE StartSpawnFails(t) BY <1>0, <1>7 DEF StartSpawnFails, StartReturns,
     TransitionTo, CallerLabels
<1>8. CASE StartRender(t) BY <1>0, <1>8 DEF StartRender, StartReturns, CallerLabels,
     OpType
<1>9. CASE StartRenderFails(t) BY <1>0, <1>9 DEF StartRenderFails, CallerLabels, OpType
<1>10. CASE StartJoin(t)
  <2>1. Return(t) /\ lock' = Free BY <1>10 DEF StartJoin, StartReturns
  <2>. QED  BY <1>10, <2>1 DEF StartJoin, TransitionTo
<1> QED BY <1>1, <1>2, <1>3, <1>4, <1>5, <1>6, <1>7, <1>8, <1>9, <1>10 DEF CallerStep

\* LoadCore and Start keep each thread inside its operation.
LEMMA CallerOp ==
  ASSUME TypeOK, OpInv, NEW t \in Callers, CallerStep(t) PROVE OpInv'
<1>. USE GameNotCaller DEF TypeOK, PcType, OpType, OpInv, Goto, Return, Acquire, Threads
<1>0. t # Game OBVIOUS
<1>1. CASE LoadCoreLock(t) BY <1>0, <1>1 DEF LoadCoreLock, StartOps, StartLabels,
     TearDown, StopLabels
<1>2. CASE LoadCorePush(t) BY <1>0, <1>2 DEF LoadCorePush, StopLabels, TearDown,
     StartLabels
<1>3. CASE StartLock(t) BY <1>0, <1>3 DEF StartLock, StopLabels, TearDown, StartLabels,
     StartOps
<1>4. CASE StartCheck(t) BY <1>0, <1>4 DEF StartCheck, StartReturns, StartOps,
     StartLabels, TearDown, StopLabels
<1>5. CASE StartArm(t) BY <1>0, <1>5 DEF StartArm, StopLabels, TearDown, StartLabels
<1>6. CASE StartSpawn(t) BY <1>0, <1>6 DEF StartSpawn, StopLabels, TearDown, StartLabels
<1>7. CASE StartSpawnFails(t) BY <1>0, <1>7 DEF StartSpawnFails, StartReturns,
     StopLabels, TearDown, StartLabels
<1>8. CASE StartRender(t) BY <1>0, <1>8 DEF StartRender, StartReturns, StopLabels,
     TearDown, StartLabels
<1>9. CASE StartRenderFails(t) BY <1>0, <1>9 DEF StartRenderFails, StopLabels, TearDown,
     StartLabels
<1>10. CASE StartJoin(t) BY <1>0, <1>10 DEF StartJoin, StartReturns, StopLabels,
     TearDown, StartLabels
<1> QED BY <1>1, <1>2, <1>3, <1>4, <1>5, <1>6, <1>7, <1>8, <1>9, <1>10 DEF CallerStep

\* So does a call that begins.
LEMMA BeginsTypeOp ==
  ASSUME TypeOK, OpInv, CallerBegins PROVE TypeOK' /\ OpInv'
<1>. USE DEF flags, mq, core
<1>1. PICK t \in Callers : (\E o \in AllOps : Call(t, o) \/ Post(t, o)) \/ LoadGame(t)
  BY DEF CallerBegins
<1>2. t \in Threads /\ t # Game /\ CallerLabels \cup ResetLabels \subseteq LabelsOf(t)
  BY GameNotCaller DEF Threads, LabelsOf
<1>3. ASSUME NEW o \in AllOps, Call(t, o) PROVE TypeOK' /\ OpInv'
  <2>1. PICK l \in {"start_lock", "stop_lock", "reset_lock", "load_lock"} :
          /\ Goto(t, l)
          /\ l = "start_lock" => o = "Start"
          /\ l = "stop_lock" => o = "Stop"
          /\ l = "reset_lock" => o = "Reset"
          /\ l = "load_lock" => o = "LoadCore"
    BY <1>3 DEF Call, AllOps, Posts
  <2>2. l \in LabelsOf(t) BY <1>2 DEF CallerLabels, ResetLabels
  <2>3. TypeOK'
    BY <1>2, <1>3, <2>1, <2>2, GotoType DEF TypeOK, Call, OpType
  <2>4. OpInv'
    BY <1>2, <1>3, <2>1 DEF TypeOK, PcType, OpType, Call, OpInv, Goto, StopLabels,
         TearDown,
       StartLabels, ResetOps, AllOps, Posts, Threads
  <2>. QED  BY <2>3, <2>4
<1>4. ASSUME NEW o \in AllOps, Post(t, o) PROVE TypeOK' /\ OpInv'
  BY <1>4 DEF Post, Push, Messages, TypeOK, PcType, OpType, OpInv
<1>5. ASSUME LoadGame(t) PROVE TypeOK' /\ OpInv'
  BY <1>5 DEF LoadGame, Push, Messages, Posts, TypeOK, PcType, OpType, OpInv
<1>. QED  BY <1>1, <1>3, <1>4, <1>5

\* Stop returns to its caller, or to the Reset around it.
LEMMA StopReturnsType ==
  ASSUME TypeOK, OpInv, NEW t \in Threads, NEW ok \in BOOLEAN,
         pc[t] \in StopLabels, StopReturns(t, ok)
  PROVE  /\ PcType' /\ OpType' /\ OpInv'
         /\ lock' \in Threads \cup {Free}
<1>1. CASE op[t] = "Stop"
  <2>1. t \in Callers BY <1>1 DEF OpInv, Threads
  <2>2. Return(t) /\ lock' \in {lock, Free} BY <1>1 DEF StopReturns
  <2>3. OpInv'
    BY <2>1, <2>2, GameNotCaller DEF OpInv, Return, TypeOK, PcType, OpType, Threads,
         StopLabels, TearDown, StartLabels
  <2>. QED  BY <2>1, <2>2, <2>3, ReturnType DEF TypeOK
<1>2. CASE op[t] # "Stop"
  <2>1. op[t] \in ResetOps BY <1>2 DEF OpInv
  <2>2. PICK l \in {"reset_queue", "reset_return"} : Goto(t, l)
    BY <1>2, <2>1 DEF StopReturns, AfterReset, ResetOps
  <2>3. l \in LabelsOf(t) BY DEF LabelsOf, ResetLabels, TearDown
  <2>4. PcType' BY <2>2, <2>3, GotoType DEF TypeOK
  <2>5. UNCHANGED <<op, lock>> BY <1>2 DEF StopReturns
  <2>6. OpInv'
    BY <2>1, <2>2, <2>5 DEF OpInv, Goto, TypeOK, PcType, OpType, Threads, StopLabels,
         TearDown, StartLabels
  <2>. QED  BY <2>4, <2>5, <2>6 DEF TypeOK, OpType
<1>. QED  BY <1>1, <1>2

\* Stop and Reset keep types and operations.  A Reset inside Start never
\* stops: running_ is false there.
LEMMA SharedTypeOp ==
  ASSUME TypeOK, OpInv, RunningInv, NEW t \in Threads, SharedStep(t)
  PROVE  TypeOK' /\ OpInv'
<1>. USE GotoType, ReturnType, AfterType, UnloadType, StatesListed DEF flags, mq, core
<1>0. StopLabels \cup ResetLabels \subseteq LabelsOf(t)
  BY DEF LabelsOf
<1>1. CASE StopLock(t)
  <2>1. TypeOK' BY <1>0, <1>1 DEF StopLock, Acquire, TypeOK, StopLabels, OpType
  <2>2. OpInv' BY <1>1 DEF StopLock, Acquire, Goto, TypeOK, PcType, OpInv, StopLabels,
       TearDown, StartLabels
  <2>. QED  BY <2>1, <2>2
<1>2. CASE StopRequest(t)
  <2>1. CASE \E ok \in BOOLEAN : StopReturns(t, ok) /\ UNCHANGED <<stopInProgress, queue>>
    BY <1>2, <2>1, StopReturnsType DEF StopRequest, TypeOK, StopLabels
  <2>2. CASE stopInProgress' = TRUE /\ Push("Stop") /\ Goto(t, "stop_close") /\
       UNCHANGED <<op, lock>>
    <3>1. TypeOK' BY <1>0, <1>2, <2>2 DEF StopRequest, Push, Messages, TypeOK,
         StopLabels, OpType
    <3>2. OpInv' BY <1>2, <2>2 DEF StopRequest, Goto, TypeOK, PcType, OpInv, StopLabels,
         TearDown, StartLabels
    <3>. QED  BY <3>1, <3>2
  <2>. QED  BY <1>2, <2>1, <2>2 DEF StopRequest
<1>3. CASE StopClose(t)
  <2>1. TypeOK' BY <1>0, <1>3 DEF StopClose, TypeOK, StopLabels, OpType
  <2>2. OpInv' BY <1>3 DEF StopClose, Goto, TypeOK, PcType, OpInv, StopLabels, TearDown,
       StartLabels
  <2>. QED  BY <2>1, <2>2
<1>4. CASE StopExited(t)
  <2>1. TypeOK' BY <1>0, <1>4 DEF StopExited, TypeOK, StopLabels, OpType
  <2>2. OpInv' BY <1>4 DEF StopExited, Goto, TypeOK, PcType, OpInv, StopLabels,
       TearDown, StartLabels
  <2>. QED  BY <2>1, <2>2
<1>5. CASE StopTimeout(t)
  BY <1>5, StopReturnsType DEF StopTimeout, TypeOK, StopLabels
<1>6. CASE StopJoin(t)
  <2>1. TypeOK' BY <1>0, <1>6 DEF StopJoin, TypeOK, StopLabels, OpType
  <2>2. OpInv' BY <1>6 DEF StopJoin, Goto, TypeOK, PcType, OpInv, StopLabels, TearDown,
       StartLabels
  <2>. QED  BY <2>1, <2>2
<1>7. CASE StopClear(t)
  <2>1. TypeOK' BY <1>0, <1>7 DEF StopClear, TypeOK, StopLabels, OpType
  <2>2. OpInv' BY <1>7 DEF StopClear, Goto, TypeOK, PcType, OpInv, StopLabels, TearDown,
       StartLabels
  <2>. QED  BY <2>1, <2>2
<1>8. CASE StopState(t)
  <2>1. TypeOK' BY <1>0, <1>8 DEF StopState, TransitionTo, TypeOK, StopLabels, OpType
  <2>2. OpInv' BY <1>8 DEF StopState, Goto, TypeOK, PcType, OpInv, StopLabels, TearDown,
       StartLabels
  <2>. QED  BY <2>1, <2>2
<1>9. CASE StopFlags(t)
  BY <1>9, StopReturnsType DEF StopFlags, TypeOK, StopLabels
<1>10. CASE ResetLock(t)
  <2>1. TypeOK' BY <1>0, <1>10 DEF ResetLock, Acquire, TypeOK, ResetLabels, OpType
  <2>2. OpInv' BY <1>10 DEF ResetLock, Acquire, Goto, TypeOK, PcType, OpInv, StopLabels,
       TearDown, StartLabels
  <2>. QED  BY <2>1, <2>2
<1>11. CASE ResetCheck(t)
  <2>1. TypeOK' BY <1>0, <1>11 DEF ResetCheck, TypeOK, StopLabels, ResetLabels,
       TearDown, OpType
  <2>2. running => op[t] \in ResetOps
    BY <1>11 DEF ResetCheck, OpInv, RunningInv
  <2>3. OpInv'
    BY <1>11, <2>2 DEF ResetCheck, Goto, TypeOK, PcType, OpInv, StopLabels, TearDown,
         StartLabels
  <2>. QED  BY <2>1, <2>3
<1>12. CASE ResetQueue(t)
  <2>0. queue' \in Seq(Messages) BY <1>12 DEF ResetQueue
  <2>1. TypeOK' BY <1>0, <1>12, <2>0 DEF ResetQueue, TypeOK, ResetLabels, TearDown, OpType
  <2>2. OpInv' BY <1>12 DEF ResetQueue, Goto, TypeOK, PcType, OpInv, StopLabels,
       TearDown, StartLabels
  <2>. QED  BY <2>1, <2>2
<1>13. CASE ResetCore(t)
  <2>1. TypeOK' BY <1>0, <1>13 DEF ResetCore, TypeOK, ResetLabels, TearDown, OpType
  <2>2. OpInv' BY <1>13 DEF ResetCore, Goto, TypeOK, PcType, OpInv, StopLabels,
       TearDown, StartLabels
  <2>. QED  BY <2>1, <2>2
<1>14. CASE ResetState(t)
  <2>1. AfterReset(t) \in {"start_arm", "reset_return"}
        /\ (AfterReset(t) = "start_arm" => op[t] \in StartOps)
        /\ (AfterReset(t) = "reset_return" => op[t] \in ResetOps)
    BY <1>14 DEF AfterReset, ResetState, OpInv, StartOps, ResetOps, TearDown
  <2>2. AfterReset(t) \in LabelsOf(t)
    BY <2>1 DEF LabelsOf, ResetLabels, CallerLabels, OpInv, StartOps
  <2>3. TypeOK' BY <1>14, <2>2 DEF ResetState, TypeOK, OpType
  <2>4. OpInv' BY <1>14, <2>1 DEF ResetState, Goto, TypeOK, PcType, OpInv, StopLabels,
       TearDown, StartLabels
  <2>. QED  BY <2>3, <2>4
<1>15. CASE ResetReturn(t)
  <2>1. CASE t = Game
    <3>1. "cancel_done" \in LabelsOf(t) BY <2>1 DEF LabelsOf, GameLabels
    <3>2. TypeOK' BY <1>15, <2>1, <3>1 DEF ResetReturn, TypeOK, OpType
    <3>3. OpInv' BY <1>15, <2>1 DEF ResetReturn, Goto, TypeOK, PcType, OpInv,
         StopLabels, TearDown, StartLabels
    <3>. QED  BY <3>2, <3>3
  <2>2. CASE t # Game
    <3>1. t \in Callers BY <2>2 DEF Threads
    <3>2. TypeOK' BY <1>15, <2>2, <3>1 DEF ResetReturn, TypeOK
    <3>3. OpInv'
      BY <1>15, <2>2 DEF ResetReturn, Return, Threads, TypeOK, PcType, OpType, OpInv,
           StopLabels, TearDown, StartLabels
    <3>. QED  BY <3>2, <3>3
  <2>. QED  BY <2>1, <2>2
<1>. QED  BY <1>1, <1>2, <1>3, <1>4, <1>5, <1>6, <1>7, <1>8, <1>9, <1>10, <1>11,
            <1>12, <1>13, <1>14, <1>15 DEF SharedStep

\* What the game thread's own steps leave alone.
GameMoves ==
  /\ UNCHANGED <<running, stopInProgress, stopTimedOut, joinable, closed, lock>>
  /\ pc[Game] \in GameLabels \ {"none"}
  /\ \E l \in GameLabels \cup {"reset_lock"} :
       Goto(Game, l) /\ (l = "reset_lock" => op'[Game] = "Cancel")
  /\ \E o \in {"none", "Drain", "Cancel"} : op' = [op EXCEPT ![Game] = o]

GameData ==
  /\ state' \in States
  /\ stopRequested' \in BOOLEAN
  /\ gameLoopExited' \in BOOLEAN
  /\ queue' = queue \/ (queue # <<>> /\ queue' = Tail(queue))
  /\ coreLoaded' \in BOOLEAN
  /\ gameLoaded' \in BOOLEAN
  /\ msg' \in Messages \cup {NoMsg}

\* Every step of the game thread is one of those moves.
LEMMA GameStepMoves ==
  ASSUME TypeOK, OpInv, GameStep PROVE GameMoves
<1>0. op = [op EXCEPT ![Game] = op[Game]] /\ op[Game] \in {"none", "Drain", "Cancel"}
  BY DEF TypeOK, OpType, OpInv, Threads
<1>. USE <1>0 DEF GameMoves, flags, mq, core, At, Handles, HandleDone, GameLabels
<1>1. CASE GameTop BY <1>1 DEF GameTop
<1>2. CASE GameDrain BY <1>2 DEF GameDrain
<1>3. CASE GameDrained BY <1>3 DEF GameDrained
<1>4. CASE GameFrame BY <1>4 DEF GameFrame
<1>5. CASE GameWait BY <1>5 DEF GameWait
<1>6. CASE GameExit BY <1>6 DEF GameExit
<1>7. CASE HandlePauseResume BY <1>7 DEF HandlePauseResume
<1>8. CASE HandleIgnored BY <1>8 DEF HandleIgnored
<1>9. CASE HandleStop BY <1>9 DEF HandleStop
<1>10. CASE GameStopping BY <1>10 DEF GameStopping
<1>11. CASE HandleCancel BY <1>11 DEF HandleCancel, TypeOK, OpType, Threads
<1>12. CASE CancelDone BY <1>12 DEF CancelDone
<1>13. CASE HandleLoadCore BY <1>13 DEF HandleLoadCore
<1>14. CASE GameLoadCore BY <1>14 DEF GameLoadCore
<1>15. CASE HandleLoadRom BY <1>15 DEF HandleLoadRom
<1>16. CASE GameLoadRom BY <1>16 DEF GameLoadRom
<1>17. CASE GameLoadRomFails BY <1>17 DEF GameLoadRomFails
<1>18. CASE GameRomReady BY <1>18 DEF GameRomReady
<1>19. CASE GameRomReadyFails BY <1>19 DEF GameRomReadyFails
<1>20. CASE GameGoesRunning BY <1>20 DEF GameGoesRunning
<1>21. CASE GameAudio BY <1>21 DEF GameAudio
<1>. QED  BY <1>1, <1>2, <1>3, <1>4, <1>5, <1>6, <1>7, <1>8, <1>9, <1>10, <1>11, <1>12,
     <1>13, <1>14, <1>15, <1>16, <1>17, <1>18, <1>19, <1>20, <1>21 DEF GameStep

\* What such a step does to the data keeps its type.
LEMMA GameStepData ==
  ASSUME TypeOK, GameStep PROVE GameData
<1>. USE AfterType, UnloadType, StatesListed DEF GameData, flags, mq, core, TransitionTo
<1>1. CASE GameTop BY <1>1 DEF GameTop, TypeOK
<1>2. CASE GameDrain BY <1>2 DEF GameDrain, Pop, TypeOK
<1>3. CASE GameDrained BY <1>3 DEF GameDrained, TypeOK
<1>4. CASE GameFrame BY <1>4 DEF GameFrame, TypeOK
<1>5. CASE GameWait BY <1>5 DEF GameWait, Pop, TypeOK
<1>6. CASE GameExit BY <1>6 DEF GameExit, TypeOK
<1>7. CASE HandlePauseResume BY <1>7 DEF HandlePauseResume, TypeOK
<1>8. CASE HandleIgnored BY <1>8 DEF HandleIgnored, TypeOK
<1>9. CASE HandleStop BY <1>9 DEF HandleStop, TypeOK
<1>10. CASE GameStopping BY <1>10 DEF GameStopping, TypeOK
<1>11. CASE HandleCancel BY <1>11 DEF HandleCancel, TypeOK
<1>12. CASE CancelDone BY <1>12 DEF CancelDone, TypeOK
<1>13. CASE HandleLoadCore BY <1>13 DEF HandleLoadCore, TypeOK
<1>14. CASE GameLoadCore
  <2>1. AfterUnload(state) \in States BY DEF TypeOK
  <2>2. state' \in States BY <1>14, <2>1 DEF GameLoadCore
  <2>. QED  BY <1>14, <2>2 DEF GameLoadCore, TypeOK
<1>15. CASE HandleLoadRom BY <1>15 DEF HandleLoadRom, TypeOK
<1>16. CASE GameLoadRom BY <1>16 DEF GameLoadRom, TypeOK
<1>17. CASE GameLoadRomFails BY <1>17 DEF GameLoadRomFails, TypeOK
<1>18. CASE GameRomReady BY <1>18 DEF GameRomReady, TypeOK
<1>19. CASE GameRomReadyFails BY <1>19 DEF GameRomReadyFails, TypeOK
<1>20. CASE GameGoesRunning BY <1>20 DEF GameGoesRunning, TypeOK
<1>21. CASE GameAudio BY <1>21 DEF GameAudio, TypeOK
<1>. QED  BY <1>1, <1>2, <1>3, <1>4, <1>5, <1>6, <1>7, <1>8, <1>9, <1>10, <1>11, <1>12,
     <1>13, <1>14, <1>15, <1>16, <1>17, <1>18, <1>19, <1>20, <1>21 DEF GameStep

\* The game thread keeps types and operations.
LEMMA GameTypeOp ==
  ASSUME TypeOK, OpInv, GameStep PROVE TypeOK' /\ OpInv' /\ GameMoves
<1>1. GameMoves /\ GameData BY GameStepMoves, GameStepData
<1>2. PICK l \in GameLabels \cup {"reset_lock"} :
        Goto(Game, l) /\ (l = "reset_lock" => op'[Game] = "Cancel")
  BY <1>1 DEF GameMoves
<1>3. PICK o \in {"none", "Drain", "Cancel"} : op' = [op EXCEPT ![Game] = o]
  BY <1>1 DEF GameMoves
<1>4. PcType'
  <2>1. l \in LabelsOf(Game) BY DEF LabelsOf, ResetLabels
  <2>. QED  BY <1>2, <2>1, GotoType DEF TypeOK, Threads
<1>5. OpType' BY <1>3 DEF TypeOK, OpType, AllOps
<1>6. queue' \in Seq(Messages) BY <1>1 DEF GameData, TypeOK
<1>7. TypeOK' BY <1>1, <1>4, <1>5, <1>6 DEF GameMoves, GameData, TypeOK
<1>8. OpInv'
  BY <1>2, <1>3, GameNotCaller DEF OpInv, TypeOK, PcType, OpType, Goto, Threads,
     GameLabels, StopLabels, TearDown, StartLabels, ResetOps
<1>. QED  BY <1>1, <1>7, <1>8

\* Every step does.
LEMMA TypeOpStep ==
  ASSUME TypeOK, OpInv, RunningInv, [Next]_vars PROVE TypeOK' /\ OpInv'
<1>1. CASE UNCHANGED vars
  BY <1>1 DEF vars, flags, mq, core, TypeOK, PcType, OpType, OpInv
<1>. QED  BY <1>1, BeginsTypeOp, CallerType, CallerOp, SharedTypeOp, GameTypeOp DEF Next

-----------------------------------------------------------------------------
\* Mutual exclusion by controlMutex_.

\* A call that begins does not touch controlMutex_.
LEMMA BeginsMutex ==
  ASSUME TypeOK, OpInv, MutexInv, CallerBegins PROVE MutexInv'
<1>1. PICK t \in Callers : (\E o \in AllOps : Call(t, o) \/ Post(t, o)) \/ LoadGame(t)
  BY DEF CallerBegins
<1>2. t \in Threads BY DEF Threads
<1>3. ASSUME NEW o \in AllOps, Call(t, o) PROVE MutexInv'
  BY <1>2, <1>3 DEF Call, AllOps, Posts, MutexInv, Holds, LockedLabels, TearDown,
       StopLabels, Goto, TypeOK, PcType, OpType
<1>4. ASSUME UNCHANGED <<lock, pc, op>> PROVE MutexInv'
  BY <1>4 DEF MutexInv, Holds
<1>. QED  BY <1>1, <1>3, <1>4 DEF Post, LoadGame

\* LoadCore and Start hold it where they say they do.
LEMMA CallerMutex ==
  ASSUME TypeOK, OpInv, MutexInv, NEW t \in Callers, CallerStep(t) PROVE MutexInv'
<1>0. t \in Threads /\ t # Game /\ Free \notin Threads
  BY GameNotCaller, FreeNotThread DEF Threads
<1>. USE <1>0 DEF MutexInv, Holds, LockedLabels, TearDown, StopLabels, Goto, Return,
     Acquire, TypeOK, PcType, OpType
<1>1. CASE LoadCoreLock(t) BY <1>1 DEF LoadCoreLock
<1>2. CASE LoadCorePush(t) BY <1>2 DEF LoadCorePush
<1>3. CASE StartLock(t) BY <1>3 DEF StartLock
<1>4. CASE StartCheck(t) BY <1>4 DEF StartCheck, StartReturns
<1>5. CASE StartArm(t) BY <1>5 DEF StartArm
<1>6. CASE StartSpawn(t) BY <1>6 DEF StartSpawn
<1>7. CASE StartSpawnFails(t) BY <1>7 DEF StartSpawnFails, StartReturns
<1>8. CASE StartRender(t) BY <1>8 DEF StartRender, StartReturns
<1>9. CASE StartRenderFails(t) BY <1>9 DEF StartRenderFails
<1>10. CASE StartJoin(t) BY <1>10 DEF StartJoin, StartReturns
<1>. QED  BY <1>1, <1>2, <1>3, <1>4, <1>5, <1>6, <1>7, <1>8, <1>9, <1>10 DEF CallerStep

\* Stop and Reset hold it where they say they do; a bare Stop waits without.
LEMMA SharedMutex ==
  ASSUME TypeOK, OpInv, MutexInv, NEW t \in Threads, SharedStep(t) PROVE MutexInv'
<1>0. Free \notin Threads
  BY FreeNotThread DEF Threads
<1>. USE <1>0 DEF MutexInv, Holds, LockedLabels, TearDown, StopLabels, Goto, Return,
     Acquire, TypeOK, PcType, OpType
<1>1. CASE StopLock(t) BY <1>1 DEF StopLock
<1>2. CASE StopRequest(t) BY <1>2 DEF StopRequest, StopReturns, AfterReset
<1>3. CASE StopClose(t) BY <1>3 DEF StopClose
<1>4. CASE StopExited(t) BY <1>4 DEF StopExited
<1>5. CASE StopTimeout(t) BY <1>5 DEF StopTimeout, StopReturns, AfterReset
<1>6. CASE StopJoin(t) BY <1>6 DEF StopJoin
<1>7. CASE StopClear(t) BY <1>7 DEF StopClear
<1>8. CASE StopState(t) BY <1>8 DEF StopState
<1>9. CASE StopFlags(t) BY <1>9 DEF StopFlags, StopReturns, AfterReset
<1>10. CASE ResetLock(t) BY <1>10 DEF ResetLock
<1>11. CASE ResetCheck(t) BY <1>11 DEF ResetCheck
<1>12. CASE ResetQueue(t) BY <1>12 DEF ResetQueue
<1>13. CASE ResetCore(t) BY <1>13 DEF ResetCore
<1>14. CASE ResetState(t) BY <1>14 DEF ResetState, AfterReset, OpInv
<1>15. CASE ResetReturn(t) BY <1>15 DEF ResetReturn
<1>. QED  BY <1>1, <1>2, <1>3, <1>4, <1>5, <1>6, <1>7, <1>8, <1>9, <1>10, <1>11, <1>12,
     <1>13, <1>14, <1>15 DEF SharedStep

\* The game loop itself never holds it.
LEMMA GameMutex ==
  ASSUME TypeOK, OpInv, MutexInv, GameMoves PROVE MutexInv'
  BY DEF GameMoves, GameLabels, MutexInv, Holds, LockedLabels, TearDown, StopLabels, Goto,
     TypeOK, PcType, OpType, Threads
-----------------------------------------------------------------------------
\* The life of the thread against running_, and the single Stop.
SessionInv == ThreadInv /\ RunningInv /\ StopInv

\* Where Start goes when it returns.
LEMMA StartReturnsMoves ==
  ASSUME TypeOK, NEW t \in Callers, NEW ok \in BOOLEAN, StartReturns(t, ok)
  PROVE  /\ pc'[t] \in {"load_push", "idle"}
         /\ \A u \in Threads \ {t} : pc'[u] = pc[u] /\ op'[u] = op[u]
         /\ pc'[Game] = pc[Game]
  BY GameNotCaller DEF StartReturns, Return, Goto, TypeOK, PcType, OpType, Threads

\* Where Stop goes when it returns.
LEMMA StopReturnsMoves ==
  ASSUME TypeOK, OpInv, NEW t \in Threads, pc[t] \in StopLabels, NEW ok \in BOOLEAN,
       StopReturns(t, ok)
  PROVE  /\ op[t] = "Stop" => pc'[t] = "idle" /\ t # Game
         /\ op[t] # "Stop" => pc'[t] = IF ok THEN "reset_queue" ELSE "reset_return"
         /\ \A u \in Threads \ {t} : pc'[u] = pc[u] /\ op'[u] = op[u]
         /\ pc[Game] # "none" <=> pc'[Game] # "none"
<1>1. CASE op[t] = "Stop"
  <2>1. t \in Callers BY <1>1 DEF OpInv, Threads
  <2>. QED  BY <1>1, <2>1, GameNotCaller DEF StopReturns, Return, TypeOK, PcType,
       OpType, Threads
<1>2. CASE op[t] # "Stop"
  BY <1>2 DEF StopReturns, AfterReset, Goto, OpInv, StartOps, ResetOps, StopLabels,
       TypeOK, PcType, OpType, Threads
<1>. QED  BY <1>1, <1>2

\* A call that begins changes no session.
LEMMA BeginsSession ==
  ASSUME TypeOK, OpInv, MutexInv, SessionInv, CallerBegins PROVE SessionInv'
<1>1. PICK t \in Callers : (\E o \in AllOps : Call(t, o) \/ Post(t, o)) \/ LoadGame(t)
  BY DEF CallerBegins
<1>2. t \in Threads /\ t # Game BY GameNotCaller DEF Threads
<1>. USE DEF flags, mq, core, SessionInv, ThreadInv, RunningInv, StopInv, StopActive,
     StartingLabels, TearDown, Alive, At
<1>3. ASSUME NEW o \in AllOps, Call(t, o) PROVE SessionInv'
  BY <1>2, <1>3 DEF Call, AllOps, Posts, Goto, TypeOK, PcType, OpType
<1>4. ASSUME UNCHANGED <<flags, joinable, closed, lock, pc, op>> PROVE SessionInv'
  BY <1>4
<1>. QED  BY <1>1, <1>3, <1>4 DEF Post, LoadGame

\* LoadCore and Start keep SessionInv.
LEMMA CallerSession ==
  ASSUME TypeOK, OpInv, MutexInv, SessionInv, NEW t \in Callers, CallerStep(t) PROVE
       SessionInv'
<1>0. t \in Threads /\ t # Game /\ Free \notin Threads
  BY GameNotCaller, FreeNotThread DEF Threads
<1>. USE <1>0 DEF flags, mq, core, MutexInv, Holds, LockedLabels, TearDown, StopLabels,
     Goto, Return, Acquire, TypeOK, PcType, OpType,
  SessionInv, ThreadInv, RunningInv, StopInv, StopActive, StartingLabels, Alive, At
<1>1. CASE LoadCoreLock(t) BY <1>1 DEF LoadCoreLock
<1>2. CASE LoadCorePush(t) BY <1>2 DEF LoadCorePush
<1>3. CASE StartLock(t) BY <1>3 DEF StartLock
<1>4. CASE StartCheck(t)
  <2>1. CASE \E ok \in BOOLEAN : StartReturns(t, ok)
    BY <1>4, <2>1, StartReturnsMoves DEF StartCheck
  <2>2. CASE ~running /\ Goto(t, "reset_check") /\ UNCHANGED <<op, lock>>
    BY <1>4, <2>2 DEF StartCheck
  <2>. QED  BY <1>4, <2>1, <2>2 DEF StartCheck
<1>5. CASE StartArm(t) BY <1>5 DEF StartArm
<1>6. CASE StartSpawn(t) BY <1>6 DEF StartSpawn
<1>7. CASE StartSpawnFails(t) BY <1>7, StartReturnsMoves DEF StartSpawnFails
<1>8. CASE StartRender(t) BY <1>8, StartReturnsMoves DEF StartRender
<1>9. CASE StartRenderFails(t) BY <1>9 DEF StartRenderFails
<1>10. CASE StartJoin(t) BY <1>10, StartReturnsMoves DEF StartJoin
<1>. QED  BY <1>1, <1>2, <1>3, <1>4, <1>5, <1>6, <1>7, <1>8, <1>9, <1>10 DEF CallerStep

\* A Stop that returns true to a Reset leaves running_ false.
LEMMA StopReturnsSession ==
  ASSUME TypeOK, OpInv, SessionInv, NEW t \in Threads, NEW ok \in BOOLEAN,
         pc[t] \in StopLabels, StopReturns(t, ok),
         ok /\ op[t] # "Stop" => ~running, UNCHANGED <<running, joinable, closed>>
  PROVE  SessionInv'
<1>1. /\ pc'[t] \in {"idle", "reset_queue", "reset_return"}
      /\ pc'[t] = "reset_queue" => ~running
      /\ \A u \in Threads \ {t} : pc'[u] = pc[u] /\ op'[u] = op[u]
      /\ pc[Game] # "none" <=> pc'[Game] # "none"
  BY StopReturnsMoves
<1>. QED
  BY <1>1 DEF SessionInv, ThreadInv, RunningInv, StopInv, StopActive, StartingLabels,
       TearDown, Alive, At

\* Stop and Reset keep SessionInv.
LEMMA SharedSession ==
  ASSUME TypeOK, OpInv, MutexInv, SessionInv, NEW t \in Threads, SharedStep(t) PROVE
       SessionInv'
<1>0. Free \notin Threads
  BY FreeNotThread DEF Threads
<1>. USE <1>0 DEF flags, mq, core, MutexInv, Holds, LockedLabels, TearDown, StopLabels,
     Goto, Return, Acquire, TypeOK, PcType, OpType,
  SessionInv, ThreadInv, RunningInv, StopInv, StopActive, StartingLabels, Alive, At
<1>1. CASE StopLock(t) BY <1>1 DEF StopLock
<1>2. CASE StopRequest(t)
  <2>1. CASE stopInProgress' = TRUE /\ running /\ ~closed /\ Goto(t, "stop_close") /\
       UNCHANGED <<op, lock>>
    BY <1>2, <2>1 DEF StopRequest
  <2>2. CASE \E ok \in BOOLEAN : StopReturns(t, ok) /\ (ok => ~running)
    BY <1>2, <2>2, StopReturnsSession DEF StopRequest
  <2>. QED  BY <1>2, <2>1, <2>2 DEF StopRequest
<1>3. CASE StopClose(t) BY <1>3 DEF StopClose
<1>4. CASE StopExited(t) BY <1>4 DEF StopExited
<1>5. CASE StopTimeout(t) BY <1>5, StopReturnsMoves DEF StopTimeout
<1>6. CASE StopJoin(t) BY <1>6 DEF StopJoin
<1>7. CASE StopClear(t) BY <1>7 DEF StopClear
<1>8. CASE StopState(t) BY <1>8 DEF StopState
<1>9. CASE StopFlags(t)
  <2>1. op[t] # "Stop" => ~running BY <1>9 DEF StopFlags
  <2>. QED  BY <1>9, <2>1, StopReturnsSession DEF StopFlags
<1>10. CASE ResetLock(t)
  <2>1. op[t] \notin StartOps BY <1>10 DEF ResetLock, OpInv, ResetOps, StartOps
  <2>. QED  BY <1>10, <2>1 DEF ResetLock
<1>11. CASE ResetCheck(t) BY <1>11 DEF ResetCheck
<1>12. CASE ResetQueue(t) BY <1>12 DEF ResetQueue
<1>13. CASE ResetCore(t) BY <1>13 DEF ResetCore
<1>14. CASE ResetState(t) BY <1>14 DEF ResetState, AfterReset, OpInv
<1>15. CASE ResetReturn(t)
  <2>1. /\ pc'[t] \in {"cancel_done", "idle"}
        /\ \A u \in Threads \ {t} : pc'[u] = pc[u] /\ op'[u] = op[u]
        /\ pc[Game] # "none" <=> pc'[Game] # "none"
    BY <1>15 DEF ResetReturn, Threads
  <2>. QED  BY <1>15, <2>1 DEF ResetReturn
<1>. QED  BY <1>1, <1>2, <1>3, <1>4, <1>5, <1>6, <1>7, <1>8, <1>9, <1>10, <1>11, <1>12,
     <1>13, <1>14, <1>15 DEF SharedStep

\* The game thread keeps SessionInv: it ends, but never clears running_.
LEMMA GameSession ==
  ASSUME TypeOK, OpInv, SessionInv, GameMoves PROVE SessionInv'
  BY DEF GameMoves, GameLabels, TearDown, StopLabels, Goto,
     TypeOK, PcType, OpType, Threads, SessionInv, ThreadInv, RunningInv, StopInv,
          StopActive, StartingLabels, Alive, At
-----------------------------------------------------------------------------
\* What Reset leaves behind for the next session.
CleanLabels == {"reset_core", "reset_state", "start_arm", "start_spawn"}

\* A thread at a clean label is alone: no game thread, no other holder.
LEMMA CleanAlone ==
  ASSUME TypeOK, MutexInv, ThreadInv, RunningInv, NEW t \in Threads, pc[t] \in CleanLabels
  PROVE  /\ lock = t /\ ~Alive /\ t # Game
         /\ \A u \in Threads \ {t} : ~Holds(u) /\ pc[u] \notin CleanLabels
  BY DEF CleanLabels, MutexInv, Holds, LockedLabels, TearDown, ThreadInv, RunningInv,
       Alive, At

\* Callers may post meanwhile, but never a Stop.
LEMMA BeginsClean ==
  ASSUME TypeOK, CleanInv, CallerBegins PROVE CleanInv'
<1>1. PICK t \in Callers : (\E o \in AllOps : Call(t, o) \/ Post(t, o)) \/ LoadGame(t)
  BY DEF CallerBegins
<1>2. t \in Threads BY DEF Threads
<1>3. ASSUME NEW o \in AllOps, Call(t, o) PROVE CleanInv'
  BY <1>2, <1>3 DEF Call, AllOps, Posts, Goto, TypeOK, PcType, OpType, CleanInv, mq, core
<1>4. ASSUME NEW m \in Messages, m # "Stop", Push(m), UNCHANGED <<pc, closed, core>>
     PROVE CleanInv'
  BY <1>4 DEF Push, CleanInv, TypeOK, core
<1>. QED  BY <1>1, <1>3, <1>4 DEF Post, LoadGame, Posts, Messages

\* LoadCore and Start keep CleanInv.
LEMMA CallerClean ==
  ASSUME IInv, NEW t \in Callers, CallerStep(t) PROVE CleanInv'
<1>0. t \in Threads /\ t # Game
  BY GameNotCaller DEF Threads
<1>. USE <1>0, StartReturnsMoves DEF IInv, mq, core, CleanInv, Goto, Acquire, TypeOK,
     PcType
<1>1. CASE LoadCoreLock(t) BY <1>1 DEF LoadCoreLock
<1>2. CASE LoadCorePush(t)
  <2>1. Holds(t) BY <1>2 DEF LoadCorePush, Holds, LockedLabels
  <2>2. \A u \in Threads \ {t} : pc[u] \notin CleanLabels BY <2>1, CleanAlone
  <2>. QED  BY <1>2, <2>2 DEF LoadCorePush, Return, CleanLabels
<1>3. CASE StartLock(t) BY <1>3 DEF StartLock
<1>4. CASE StartCheck(t) BY <1>4 DEF StartCheck
<1>5. CASE StartArm(t) BY <1>5 DEF StartArm
<1>6. CASE StartSpawn(t) BY <1>6 DEF StartSpawn
<1>7. CASE StartSpawnFails(t) BY <1>7 DEF StartSpawnFails
<1>8. CASE StartRender(t) BY <1>8 DEF StartRender
<1>9. CASE StartRenderFails(t)
  <2>1. Holds(t) BY <1>9 DEF StartRenderFails, Holds, LockedLabels
  <2>2. \A u \in Threads \ {t} : pc[u] \notin CleanLabels BY <2>1, CleanAlone
  <2>. QED  BY <1>9, <2>2 DEF StartRenderFails, Return, CleanLabels
<1>10. CASE StartJoin(t) BY <1>10 DEF StartJoin
<1>. QED  BY <1>1, <1>2, <1>3, <1>4, <1>5, <1>6, <1>7, <1>8, <1>9, <1>10 DEF CallerStep

\* Stop and Reset keep CleanInv.
LEMMA SharedClean ==
  ASSUME IInv, NEW t \in Threads, SharedStep(t) PROVE CleanInv'
<1>. USE StopReturnsMoves DEF IInv, mq, core, CleanInv, Goto, Acquire, TypeOK, PcType
<1>1. CASE StopLock(t) BY <1>1 DEF StopLock
<1>2. CASE StopRequest(t)
  <2>1. Holds(t) BY <1>2 DEF StopRequest, Holds, LockedLabels
  <2>2. \A u \in Threads \ {t} : pc[u] \notin CleanLabels BY <2>1, CleanAlone
  <2>. QED  BY <1>2, <2>2 DEF StopRequest, StopLabels, CleanLabels
<1>3. CASE StopClose(t)
  <2>1. Holds(t) BY <1>3 DEF StopClose, Holds, LockedLabels
  <2>2. \A u \in Threads \ {t} : pc[u] \notin CleanLabels BY <2>1, CleanAlone
  <2>. QED  BY <1>3, <2>2 DEF StopClose, StopLabels, CleanLabels
<1>4. CASE StopExited(t) BY <1>4 DEF StopExited
<1>5. CASE StopTimeout(t) BY <1>5 DEF StopTimeout, StopLabels
<1>6. CASE StopJoin(t) BY <1>6 DEF StopJoin
<1>7. CASE StopClear(t) BY <1>7 DEF StopClear
<1>8. CASE StopState(t) BY <1>8 DEF StopState
<1>9. CASE StopFlags(t) BY <1>9 DEF StopFlags, StopLabels
<1>10. CASE ResetLock(t) BY <1>10 DEF ResetLock
<1>11. CASE ResetCheck(t) BY <1>11 DEF ResetCheck
<1>12. CASE ResetQueue(t)
  <2>1. Holds(t) BY <1>12 DEF ResetQueue, Holds, LockedLabels, TearDown
  <2>2. \A u \in Threads \ {t} : pc[u] \notin CleanLabels BY <2>1, CleanAlone
  <2>. QED  BY <1>12, <2>2 DEF ResetQueue, CleanLabels, CoreInv, GameAfterUnload,
       AfterReset, OpInv
<1>13. CASE ResetCore(t)
  <2>1. Holds(t) BY <1>13 DEF ResetCore, Holds, LockedLabels, TearDown
  <2>2. \A u \in Threads \ {t} : pc[u] \notin CleanLabels BY <2>1, CleanAlone
  <2>. QED  BY <1>13, <2>2 DEF ResetCore, CleanLabels, CoreInv, GameAfterUnload,
       AfterReset, OpInv
<1>14. CASE ResetState(t)
  <2>1. Holds(t) BY <1>14 DEF ResetState, Holds, LockedLabels, TearDown
  <2>2. \A u \in Threads \ {t} : pc[u] \notin CleanLabels BY <2>1, CleanAlone
  <2>. QED  BY <1>14, <2>2 DEF ResetState, CleanLabels, CoreInv, GameAfterUnload,
       AfterReset, OpInv
<1>15. CASE ResetReturn(t)
  <2>1. /\ pc'[t] \in {"cancel_done", "idle"}
        /\ \A u \in Threads \ {t} : pc'[u] = pc[u]
    BY <1>15 DEF ResetReturn, Return
  <2>. QED  BY <1>15, <2>1 DEF ResetReturn
<1>. QED  BY <1>1, <1>2, <1>3, <1>4, <1>5, <1>6, <1>7, <1>8, <1>9, <1>10, <1>11, <1>12,
     <1>13, <1>14, <1>15 DEF SharedStep

\* The game thread is away while CleanInv says anything.
LEMMA GameClean ==
  ASSUME TypeOK, MutexInv, ThreadInv, RunningInv, GameMoves PROVE CleanInv'
<1>1. \A t \in Threads : pc[t] \notin CleanLabels
  BY CleanAlone DEF GameMoves, Alive, At
<1>. QED
  BY <1>1 DEF CleanLabels, GameMoves, GameLabels, CleanInv, Goto, TypeOK, PcType
-----------------------------------------------------------------------------
\* The game lives in the core.
\* A step that concerns neither the core nor the game.
CoreQuiet == /\ UNCHANGED core
             /\ state' # "CORE_LOADED" \/ state' = state
             /\ pc'[Game] = "load_rom" => At("load_rom")

\* Quiet steps keep CoreInv.
LEMMA CoreKept ==
  ASSUME CoreInv, CoreQuiet PROVE CoreInv'
  BY DEF CoreQuiet, CoreInv, At, core

\* LoadCore and Start are quiet.
LEMMA CallerCore ==
  ASSUME TypeOK, NEW t \in Callers, CallerStep(t) PROVE CoreQuiet
<1>0. t \in Threads /\ t # Game
  BY GameNotCaller DEF Threads
<1>. USE AfterIn DEF CoreQuiet, core, Acquire, At, TransitionTo
<1>b. \A l : Goto(t, l) \/ Return(t) => pc'[Game] = pc[Game]
  BY <1>0 DEF Goto, Return, TypeOK, PcType, Threads
<1>c. \A ok \in BOOLEAN : StartReturns(t, ok) => pc'[Game] = pc[Game]
  BY <1>b DEF StartReturns
<1>. USE <1>b, <1>c
<1>1. CASE LoadCoreLock(t) BY <1>1 DEF LoadCoreLock
<1>2. CASE LoadCorePush(t) BY <1>2 DEF LoadCorePush
<1>3. CASE StartLock(t) BY <1>3 DEF StartLock
<1>4. CASE StartCheck(t) BY <1>4 DEF StartCheck
<1>5. CASE StartArm(t) BY <1>5 DEF StartArm
<1>6. CASE StartSpawn(t)
  <2>1. pc'[Game] = "top" BY <1>6, <1>0 DEF StartSpawn, TypeOK, PcType, Threads
  <2>. QED  BY <1>6, <2>1 DEF StartSpawn
<1>7. CASE StartSpawnFails(t) BY <1>7 DEF StartSpawnFails
<1>8. CASE StartRender(t) BY <1>8 DEF StartRender
<1>9. CASE StartRenderFails(t) BY <1>9 DEF StartRenderFails
<1>10. CASE StartJoin(t) BY <1>10 DEF StartJoin
<1>. QED  BY <1>1, <1>2, <1>3, <1>4, <1>5, <1>6, <1>7, <1>8, <1>9, <1>10 DEF CallerStep

\* Stop is quiet; Reset unloads game and core together.
LEMMA SharedCore ==
  ASSUME IInv, NEW t \in Threads, SharedStep(t) PROVE CoreInv'
<1>a. CASE ResetCore(t) \/ ResetState(t)
  <2>1. ~Alive /\ t # Game
    BY <1>a, CleanAlone DEF ResetCore, ResetState, CleanLabels, IInv
  <2>2. pc'[Game] = pc[Game]
    BY <1>a, <2>1 DEF ResetCore, ResetState, Goto, IInv, TypeOK, PcType, Threads
  <2>. QED
    BY <1>a, <2>1, <2>2 DEF ResetCore, ResetState, GameAfterUnload, CoreInv, IInv,
         TypeOK, Alive, At
<1>. USE AfterIn DEF CoreQuiet, core, Acquire, At, TransitionTo
<1>b. CoreQuiet => CoreInv'
  BY CoreKept DEF IInv
<1>c. \A l : Goto(t, l) => pc'[Game] \in {pc[Game], l}
  BY DEF Goto, IInv, TypeOK, PcType, Threads
<1>d. \A ok \in BOOLEAN : pc[t] \in StopLabels /\ StopReturns(t, ok) =>
        pc'[Game] \in {pc[Game], "reset_queue", "reset_return"}
  BY StopReturnsMoves DEF IInv, Threads
<1>e. Return(t) => pc'[Game] \in {pc[Game], "idle"}
  BY DEF Return, IInv, TypeOK, PcType, Threads
<1>. USE <1>b, <1>c, <1>d, <1>e DEF StopLabels
<1>1. CASE StopLock(t) BY <1>1 DEF StopLock
<1>2. CASE StopRequest(t)
  <2>1. pc'[Game] # "load_rom" \/ pc'[Game] = pc[Game]
    <3>1. CASE Goto(t, "stop_close") BY <3>1
    <3>2. CASE \E ok \in BOOLEAN : StopReturns(t, ok) BY <1>2, <3>2 DEF StopRequest
    <3>. QED  BY <1>2, <3>1, <3>2 DEF StopRequest
  <2>. QED  BY <1>2, <2>1 DEF StopRequest
<1>3. CASE StopClose(t) BY <1>3 DEF StopClose
<1>4. CASE StopExited(t) BY <1>4 DEF StopExited
<1>5. CASE StopTimeout(t) BY <1>5 DEF StopTimeout
<1>6. CASE StopJoin(t) BY <1>6 DEF StopJoin
<1>7. CASE StopClear(t) BY <1>7 DEF StopClear
<1>8. CASE StopState(t) BY <1>8 DEF StopState
<1>9. CASE StopFlags(t) BY <1>9 DEF StopFlags
<1>10. CASE ResetLock(t) BY <1>10 DEF ResetLock
<1>11. CASE ResetCheck(t) BY <1>11 DEF ResetCheck
<1>12. CASE ResetQueue(t) BY <1>12 DEF ResetQueue
<1>15. CASE ResetReturn(t) BY <1>15 DEF ResetReturn
<1>. QED  BY <1>a, <1>1, <1>2, <1>3, <1>4, <1>5, <1>6, <1>7, <1>8, <1>9, <1>10, <1>11,
     <1>12, <1>15 DEF SharedStep

\* The game thread unloads a game before it loads the next.
LEMMA GameCore ==
  ASSUME TypeOK, CoreInv, GameStep PROVE CoreInv'
<1>. USE AfterIn DEF CoreInv, At, Handles, HandleDone, TransitionTo, Goto, core, TypeOK,
     PcType, Threads
<1>1. CASE GameTop BY <1>1 DEF GameTop
<1>2. CASE GameDrain BY <1>2 DEF GameDrain
<1>3. CASE GameDrained BY <1>3 DEF GameDrained
<1>4. CASE GameFrame BY <1>4 DEF GameFrame
<1>5. CASE GameWait BY <1>5 DEF GameWait
<1>6. CASE GameExit BY <1>6 DEF GameExit
<1>7. CASE HandlePauseResume BY <1>7 DEF HandlePauseResume
<1>8. CASE HandleIgnored BY <1>8 DEF HandleIgnored
<1>9. CASE HandleStop BY <1>9 DEF HandleStop, AfterUnload, GameAfterUnload
<1>10. CASE GameStopping BY <1>10 DEF GameStopping
<1>11. CASE HandleCancel BY <1>11 DEF HandleCancel, AfterUnload, GameAfterUnload
<1>12. CASE CancelDone BY <1>12 DEF CancelDone
<1>13. CASE HandleLoadCore BY <1>13 DEF HandleLoadCore
<1>14. CASE GameLoadCore BY <1>14 DEF GameLoadCore, AfterUnload, GameAfterUnload
<1>15. CASE HandleLoadRom
  <2>1. CASE TransitionTo("ERROR") /\ HandleDone /\ UNCHANGED gameLoaded
    BY <1>15, <2>1 DEF HandleLoadRom
  <2>2. CASE UNCHANGED <<state, gameLoaded>> /\ HandleDone
    BY <1>15, <2>2 DEF HandleLoadRom
  <2>3. CASE coreLoaded /\ Goto(Game, "load_rom") /\ UNCHANGED op
    <3>1. PICK s : /\ state' = After(s, "LOADING")
                   /\ s \in {state, "CORE_LOADED"} /\ (state = "CORE_LOADED" => s = state)
      BY <1>15, <2>3 DEF HandleLoadRom, AfterUnload
    <3>2. <<"CORE_LOADED", "LOADING">> \in ValidTransitions
      BY DEF ValidTransitions
    <3>3. state' # "CORE_LOADED"
      BY <3>1, <3>2 DEF After
    <3>4. ~gameLoaded' /\ coreLoaded'
      BY <1>15, <2>3 DEF HandleLoadRom, GameAfterUnload
    <3>. QED  BY <3>3, <3>4
  <2>. QED  BY <1>15, <2>1, <2>2, <2>3 DEF HandleLoadRom
<1>16. CASE GameLoadRom BY <1>16 DEF GameLoadRom
<1>17. CASE GameLoadRomFails BY <1>17 DEF GameLoadRomFails
<1>18. CASE GameRomReady BY <1>18 DEF GameRomReady
<1>19. CASE GameRomReadyFails BY <1>19 DEF GameRomReadyFails, AfterUnload, GameAfterUnload
<1>20. CASE GameGoesRunning BY <1>20 DEF GameGoesRunning
<1>21. CASE GameAudio BY <1>21 DEF GameAudio
<1>. QED  BY <1>1, <1>2, <1>3, <1>4, <1>5, <1>6, <1>7, <1>8, <1>9, <1>10, <1>11, <1>12,
     <1>13, <1>14, <1>15, <1>16, <1>17, <1>18, <1>19, <1>20, <1>21 DEF GameStep

-----------------------------------------------------------------------------
\* The initial state is well typed.
LEMMA InitType == Init => TypeOK
<1>. SUFFICES ASSUME Init PROVE TypeOK OBVIOUS
<1>1. PcType BY DEF Init, PcType, Labels, LabelsOf, GameLabels, CallerLabels
<1>2. OpType BY DEF Init, OpType
<1>3. /\ state \in States /\ queue \in Seq(Messages)
      /\ lock \in Threads \cup {Free} /\ msg \in Messages \cup {NoMsg}
  BY DEF Init, States
<1>. QED  BY <1>1, <1>2, <1>3 DEF Init, TypeOK

\* The invariant holds initially.
LEMMA InitInv == Init => IInv
<1>. SUFFICES ASSUME Init PROVE IInv OBVIOUS
<1>1. TypeOK BY InitType
<1>2. \A t \in Threads : pc[t] \in {"none", "idle"} /\ op[t] = "none"
  BY DEF Init
<1>3. MutexInv BY <1>2 DEF MutexInv, Holds, LockedLabels, StopLabels, TearDown
<1>4. OpInv BY <1>2 DEF OpInv, StopLabels, TearDown, StartLabels, Threads
<1>5. ThreadInv /\ CoreInv BY DEF Init, ThreadInv, CoreInv, Alive, At, Threads
<1>6. RunningInv /\ StopInv /\ CleanInv
  BY <1>2 DEF RunningInv, StopInv, CleanInv, TearDown, StartingLabels, StopActive
<1>. QED  BY <1>1, <1>3, <1>4, <1>5, <1>6 DEF IInv

\* Every step preserves the invariant.
LEMMA StepInv == IInv /\ [Next]_vars => IInv'
<1>. SUFFICES ASSUME IInv, [Next]_vars PROVE IInv' OBVIOUS
<1>1. TypeOK' /\ OpInv' BY TypeOpStep DEF IInv
<1>2. CASE CallerBegins
  <2>1. MutexInv' /\ SessionInv' /\ CleanInv'
    BY <1>2, BeginsMutex, BeginsSession, BeginsClean DEF IInv, SessionInv
  <2>2. CoreInv'
    <3>1. CoreQuiet
      <4>1. PICK t \in Callers : (\E o \in AllOps : Call(t, o) \/ Post(t, o)) \/
           LoadGame(t)
        BY <1>2 DEF CallerBegins
      <4>2. pc'[Game] = pc[Game]
        BY <4>1, GameNotCaller DEF Call, Post, LoadGame, Goto, IInv, TypeOK, PcType,
             Threads
      <4>. QED  BY <4>1, <4>2 DEF Call, Post, LoadGame, CoreQuiet, core, At
    <3>. QED  BY <3>1, CoreKept DEF IInv
  <2>. QED  BY <1>1, <2>1, <2>2 DEF IInv, SessionInv
<1>3. ASSUME NEW t \in Callers, CallerStep(t) PROVE IInv'
  BY <1>1, <1>3, CallerMutex, CallerSession, CallerClean, CallerCore, CoreKept DEF IInv,
       SessionInv
<1>4. ASSUME NEW t \in Threads, SharedStep(t) PROVE IInv'
  BY <1>1, <1>4, SharedMutex, SharedSession, SharedClean, SharedCore DEF IInv, SessionInv
<1>5. CASE GameStep
  <2>1. GameMoves BY <1>5, GameTypeOp DEF IInv
  <2>. QED  BY <1>1, <1>5, <2>1, GameMutex, GameSession, GameClean, GameCore DEF IInv,
       SessionInv
<1>6. CASE UNCHANGED vars
  BY <1>1, <1>6 DEF vars, flags, mq, core, IInv, MutexInv, Holds, ThreadInv, RunningInv,
       StopInv, CleanInv, CoreInv, Alive, At
<1>. QED  BY <1>2, <1>3, <1>4, <1>5, <1>6 DEF Next

\* The inductive invariant holds throughout, for any number of callers, any
\* set of operations and faults.
THEOREM Invariance == Spec => []IInv
<1>. QED  BY InitInv, StepInv, PTL DEF Spec

\* Every variable keeps its type.
THEOREM TypeCorrect == Spec => []TypeOK
<1>1. IInv => TypeOK BY DEF IInv
<1>. QED  BY <1>1, Invariance, PTL

\* Reset never tears the core down under a living game thread, nor on two
\* threads at once: running_ covers the thread and controlMutex_ the Reset.
THEOREM TearDownIsAlone == Spec => []TearDownAlone
<1>1. IInv => TearDownAlone
  BY DEF IInv, TearDownAlone, MutexInv, Holds, LockedLabels, TearDown, ThreadInv,
       RunningInv
<1>. QED  BY <1>1, Invariance, PTL

\* Start never assigns gameThread_ over a thread that was not joined.
THEOREM SpawnsAfterJoin == Spec => []SpawnOnlyWhenJoined
<1>1. IInv => SpawnOnlyWhenJoined
  BY DEF IInv, SpawnOnlyWhenJoined, RunningInv
<1>. QED  BY <1>1, Invariance, PTL

\* No Stop message, closed queue or core of an earlier session reaches the
\* game thread of the next.
THEOREM SessionsStartFresh == Spec => []FreshSession
<1>1. IInv => FreshSession
  BY DEF IInv, FreshSession, CleanInv
<1>. QED  BY <1>1, Invariance, PTL

-----------------------------------------------------------------------------
\* What STOPPED and running_ promise while no Reset meets the end of a Stop.

\* Everything QuietInv looks at but the labels.
quietVars == <<state, flags, closed>>

\* A step that keeps those keeps QuietInv if no thread comes to begin a stop or
\* a start, or to be started.
QuietMove(t) ==
  /\ UNCHANGED quietVars
  /\ \A u \in Threads \ {t} : pc'[u] = pc[u] /\ op'[u] = op[u]
  /\ op'[t] \in {op[t], "none"}
  /\ pc'[t] \in StopBegun => pc[t] \in StopBegun
  /\ Starting(t)' => Starting(t)
  /\ pc'[t] = "start_spawn" => pc[t] = "start_spawn"
  /\ pc[t] = "start_join" => pc'[t] = "start_join"
  /\ Alive' <=> Alive
  /\ pc'[t] \in StopBegun \ {"stop_close", "stop_wait"} => t # Game
  /\ pc'[t] \in {"stop_state", "stop_flags"} => ~running

\* Such moves keep QuietInv.
LEMMA QuietKept ==
  ASSUME QuietInv, NEW t \in Threads, QuietMove(t) PROVE QuietInv'
<1>1. LoopInv' /\ StoppedInv' /\ RunningTakesMessages'
  BY DEF QuietInv, QuietMove, LoopInv, StoppedInv, RunningTakesMessages,
     quietVars, flags, Threads
<1>2. BegunInv'
  BY DEF QuietInv, QuietMove, BegunInv, quietVars, flags, Starting
<1>. QED  BY <1>1, <1>2 DEF QuietInv

\* A call begins.
LEMMA BeginsQuiet ==
  ASSUME IInv, QuietInv, CallerBegins PROVE QuietInv'
<1>1. PICK t \in Callers : (\E o \in AllOps : Call(t, o) \/ Post(t, o)) \/ LoadGame(t)
  BY DEF CallerBegins
<1>2. t \in Threads /\ t # Game BY GameNotCaller DEF Threads
<1>3. ASSUME NEW o \in AllOps, Call(t, o) PROVE QuietInv'
  <2>1. /\ pc[t] = "idle" /\ UNCHANGED quietVars
        /\ pc'[t] \in {"start_lock", "stop_lock", "reset_lock", "load_lock"}
        /\ \A u \in Threads \ {t} : pc'[u] = pc[u] /\ op'[u] = op[u]
    BY <1>2, <1>3 DEF Call, Idle, AllOps, Posts, Goto, IInv, TypeOK, PcType, OpType,
       quietVars, flags, mq
  <2>2. LoopInv' /\ StoppedInv' /\ RunningTakesMessages'
    BY <1>2, <2>1 DEF QuietInv, LoopInv, StoppedInv, RunningTakesMessages, quietVars,
       flags, Alive, At, Threads
  <2>3. BegunInv'
    BY <2>1 DEF QuietInv, BegunInv, StopBegun, StopActive, Starting, TearDown,
       StartingLabels, quietVars, flags
  <2>. QED  BY <2>2, <2>3 DEF QuietInv
<1>4. ASSUME UNCHANGED <<state, flags, closed, pc, op>> PROVE QuietInv'
  BY <1>4 DEF QuietInv, LoopInv, BegunInv, StoppedInv, RunningTakesMessages,
     flags, Alive, At, Starting
<1>. QED  BY <1>1, <1>3, <1>4 DEF Post, LoadGame

\* LoadCore and Start keep QuietInv.
LEMMA CallerQuiet ==
  ASSUME IInv, QuietInv, NEW t \in Callers, CallerStep(t) PROVE QuietInv'
<1>0. t \in Threads /\ t # Game
  BY GameNotCaller DEF Threads
<1>1. \A l : Goto(t, l) => pc'[t] = l /\ \A u \in Threads \ {t} : pc'[u] = pc[u]
  BY <1>0 DEF Goto, IInv, TypeOK, PcType
<1>2. Return(t) => /\ pc'[t] = "idle" /\ op'[t] = "none"
                   /\ \A u \in Threads \ {t} : pc'[u] = pc[u] /\ op'[u] = op[u]
  BY <1>0 DEF Return, IInv, TypeOK, PcType, OpType
<1>3. \A ok \in BOOLEAN : StartReturns(t, ok) =>
        /\ pc'[t] \in {"idle", "load_push"} /\ op'[t] \in {op[t], "none"}
        /\ \A u \in Threads \ {t} : pc'[u] = pc[u] /\ op'[u] = op[u]
  BY <1>1, <1>2 DEF StartReturns
<1>4. (\A u \in Threads \ {t} : pc'[u] = pc[u]) => pc'[Game] = pc[Game]
  BY <1>0 DEF Threads
<1>5. Starting(t) => \A u \in Threads \ {t} : ~Starting(u) /\ pc[u] \notin StopBegun
  <2>1. ASSUME NEW u \in Threads, Starting(u) PROVE Holds(u)
    BY <2>1 DEF Starting, Holds, LockedLabels, StartingLabels, TearDown, StopLabels,
       StartOps
  <2>. QED  BY <1>0, <2>1 DEF IInv, MutexInv, QuietInv, BegunInv
<1>. DEFINE Moved == /\ \A u \in Threads \ {t} : pc'[u] = pc[u] /\ op'[u] = op[u]
                     /\ op'[t] \in {op[t], "none"}
                     /\ pc'[Game] = pc[Game]
<1>6. CASE LoadCoreLock(t) \/ StartLock(t) \/ LoadCorePush(t)
  <2>1. QuietMove(t)
    BY <1>0, <1>1, <1>2, <1>4, <1>6 DEF LoadCoreLock, StartLock, LoadCorePush, Acquire,
       QuietMove, quietVars, mq, flags, Starting, StopBegun, StopActive, TearDown,
       StartingLabels, Alive, At
  <2>. QED  BY <1>0, <2>1, QuietKept
<1>7. CASE StartCheck(t)
  <2>1. CASE \E ok \in BOOLEAN : StartReturns(t, ok)
    <3>1. QuietMove(t)
      BY <1>0, <1>3, <1>4, <1>7, <2>1 DEF StartCheck, QuietMove, quietVars, mq, flags,
         Starting, StopBegun, StopActive, TearDown, StartingLabels, Alive, At
    <3>. QED  BY <1>0, <3>1, QuietKept
  <2>2. CASE ~stopInProgress /\ Goto(t, "reset_check") /\ UNCHANGED <<op, lock>>
    <3>1. Moved /\ pc'[t] = "reset_check" /\ UNCHANGED quietVars
      BY <1>0, <1>1, <1>4, <1>7, <2>2 DEF StartCheck, quietVars, mq
    <3>2. \A u \in Threads : pc[u] \notin StopBegun
      BY <2>2 DEF QuietInv, BegunInv
    <3>3. BegunInv'
      BY <3>1, <3>2 DEF BegunInv, StopBegun, StopActive
    <3>4. LoopInv' /\ StoppedInv' /\ RunningTakesMessages'
      BY <1>0, <1>7, <3>1 DEF StartCheck, QuietInv, LoopInv, StoppedInv,
         RunningTakesMessages, quietVars, flags, Alive, At, Threads
    <3>. QED  BY <3>3, <3>4 DEF QuietInv
  <2>. QED  BY <1>7, <2>1, <2>2 DEF StartCheck
<1>8. CASE StartArm(t)
  <2>1. Moved /\ pc[t] = "start_arm" /\ pc'[t] = "start_spawn" /\ ~closed'
    BY <1>0, <1>1, <1>4, <1>8 DEF StartArm, IInv, CleanInv, mq
  <2>2. BegunInv'
    BY <1>5, <2>1 DEF BegunInv, StopBegun, StopActive, Starting, StartingLabels
  <2>3. state' # "STOPPED"
    BY <1>8 DEF StartArm, TransitionTo, After, ValidTransitions
  <2>4. LoopInv' /\ StoppedInv' /\ RunningTakesMessages'
    BY <1>0, <1>8, <2>1, <2>3 DEF StartArm, QuietInv, LoopInv, StoppedInv,
       RunningTakesMessages, Threads
  <2>. QED  BY <2>2, <2>4 DEF QuietInv
<1>9. CASE StartSpawn(t)
  <2>1. /\ pc[t] = "start_spawn" /\ pc'[t] = "start_render" /\ pc'[Game] = "top"
        /\ \A u \in Threads \ {t, Game} : pc'[u] = pc[u]
        /\ UNCHANGED <<state, flags, op, closed>>
    BY <1>0, <1>9 DEF StartSpawn, mq, IInv, TypeOK, PcType, Threads
  <2>2. BegunInv'
    BY <1>5, <2>1 DEF BegunInv, StopBegun, StopActive, Starting, StartingLabels
  <2>3. LoopInv' /\ StoppedInv'
    BY <1>0, <2>1 DEF QuietInv, LoopInv, StoppedInv, flags
  <2>4. ~closed'
    BY <1>0, <2>1 DEF IInv, CleanInv
  <2>. QED  BY <2>2, <2>3, <2>4 DEF QuietInv, RunningTakesMessages
<1>10. CASE StartSpawnFails(t) \/ StartJoin(t)
  <2>1. /\ Moved /\ Starting(t) /\ pc'[t] \in {"idle", "load_push"}
        /\ running' = FALSE /\ UNCHANGED <<gameLoopExited, stopInProgress, closed>>
        /\ state' \in {state, "ERROR"}
    BY <1>0, <1>3, <1>4, <1>10, AfterIn DEF StartSpawnFails, StartJoin, TransitionTo, mq,
       Starting, StartingLabels
  <2>2. BegunInv'
    BY <1>5, <2>1 DEF BegunInv, StopBegun, StopActive
  <2>3. LoopInv' /\ StoppedInv' /\ RunningTakesMessages'
    BY <1>0, <2>1 DEF QuietInv, LoopInv, StoppedInv, RunningTakesMessages,
       Alive, At, Threads
  <2>. QED  BY <2>2, <2>3 DEF QuietInv
<1>11. CASE StartRender(t)
  <2>1. QuietMove(t)
    BY <1>0, <1>3, <1>4, <1>11 DEF StartRender, QuietMove, quietVars, mq, flags,
       Starting, StopBegun, StopActive, TearDown, StartingLabels, Alive, At
  <2>. QED  BY <1>0, <2>1, QuietKept
<1>12. CASE StartRenderFails(t)
  <2>1. /\ Moved /\ Starting(t) /\ pc'[t] = "start_join"
        /\ UNCHANGED <<state, running, gameLoopExited, stopInProgress>>
    BY <1>0, <1>1, <1>4, <1>12 DEF StartRenderFails, Starting, StartingLabels
  <2>2. BegunInv'
    BY <1>5, <2>1 DEF BegunInv, StopBegun, StopActive
  <2>3. LoopInv' /\ StoppedInv' /\ RunningTakesMessages'
    BY <1>0, <2>1 DEF QuietInv, LoopInv, StoppedInv, RunningTakesMessages,
       Alive, At, Threads
  <2>. QED  BY <2>2, <2>3 DEF QuietInv
<1>. QED  BY <1>6, <1>7, <1>8, <1>9, <1>10, <1>11, <1>12 DEF CallerStep

\* Stop and Reset keep QuietInv, if a Reset does not clear the flags of a Stop.
LEMMA SharedQuiet ==
  ASSUME IInv, QuietInv, ResetAlone, NEW t \in Threads, SharedStep(t) PROVE QuietInv'
<1>1. \A l : Goto(t, l) => pc'[t] = l /\ \A u \in Threads \ {t} : pc'[u] = pc[u]
  BY DEF Goto, IInv, TypeOK, PcType
<1>2. \A ok \in BOOLEAN : pc[t] \in StopLabels /\ StopReturns(t, ok) =>
        /\ op[t] = "Stop" => pc'[t] = "idle" /\ t # Game
        /\ op[t] # "Stop" => pc'[t] = IF ok THEN "reset_queue" ELSE "reset_return"
        /\ \A u \in Threads \ {t} : pc'[u] = pc[u] /\ op'[u] = op[u]
        /\ Alive' <=> Alive
  BY StopReturnsMoves DEF IInv, Alive, At
<1>3. \A ok \in BOOLEAN : StopReturns(t, ok) => op'[t] \in {op[t], "none"}
  BY DEF StopReturns, Return, IInv, TypeOK, OpType
<1>4. pc[t] # "none" /\ (\A u \in Threads \ {t} : pc'[u] = pc[u]) /\ pc'[t] # "none"
        => (Alive' <=> Alive)
  BY DEF Alive, At, Threads
<1>5. pc[t] \in TearDown => t # Game /\ ~Alive
  BY DEF IInv, RunningInv, ThreadInv, TearDown, Alive, At
<1>6. ASSUME pc[t] \in StopBegun
      PROVE  /\ stopInProgress
             /\ \A u \in Threads \ {t} : pc[u] \notin StopBegun /\ ~Starting(u)
  BY <1>6 DEF QuietInv, BegunInv
<1>7. ASSUME Starting(t)
      PROVE  \A u \in Threads \ {t} : pc[u] \notin StopBegun /\ ~Starting(u)
  <2>1. ASSUME NEW u \in Threads, Starting(u) PROVE Holds(u)
    BY <2>1 DEF Starting, Holds, LockedLabels, StartingLabels, TearDown, StopLabels,
       StartOps
  <2>. QED  BY <1>7, <2>1 DEF IInv, MutexInv, QuietInv, BegunInv
<1>. DEFINE Others == \A u \in Threads \ {t} : pc'[u] = pc[u] /\ op'[u] = op[u]
<1>8. CASE StopLock(t) \/ ResetLock(t)
  <2>1. ResetLock(t) => op[t] \notin StartOps
    BY DEF ResetLock, IInv, OpInv, ResetOps, StartOps
  <2>2. QuietMove(t)
    BY <1>1, <1>4, <1>8, <2>1 DEF StopLock, ResetLock, Acquire, QuietMove, quietVars, mq,
       flags, Starting, StopBegun, StopActive, TearDown, StartingLabels
  <2>. QED  BY <2>2, QuietKept
<1>9. CASE StopRequest(t)
  <2>1. CASE \E ok \in BOOLEAN : StopReturns(t, ok) /\ UNCHANGED stopInProgress /\
             (ok => ~running)
    <3>1. op[t] \notin StartOps /\ pc[t] \in StopLabels
      BY <1>9 DEF StopRequest, StopLabels, IInv, OpInv, ResetOps, StartOps
    <3>2. PICK ok \in BOOLEAN : StopReturns(t, ok) /\ UNCHANGED stopInProgress
      BY <2>1
    <3>3. UNCHANGED quietVars
      BY <1>9, <3>2 DEF StopRequest, quietVars, mq, flags
    <3>4. /\ pc'[t] \in {"idle", "reset_queue", "reset_return"}
          /\ \A u \in Threads \ {t} : pc'[u] = pc[u] /\ op'[u] = op[u]
          /\ op'[t] \in {op[t], "none"} /\ (Alive' <=> Alive)
      BY <1>2, <1>3, <3>1, <3>2 DEF StopLabels
    <3>5. pc[t] = "stop_request" BY <1>9 DEF StopRequest
    <3>6. op'[t] \notin StartOps BY <3>1, <3>4 DEF StartOps
    <3>7. ~Starting(t)' BY <3>4, <3>6 DEF Starting, StartingLabels
    <3>8. QuietMove(t)
      BY <3>3, <3>4, <3>5, <3>7 DEF QuietMove, StopBegun, StopActive
    <3>. QED  BY <3>8, QuietKept
  <2>2. CASE ~stopInProgress /\ running /\ stopInProgress' /\ Goto(t, "stop_close")
             /\ UNCHANGED op
    <3>1. Others /\ pc'[t] = "stop_close" /\ (Alive' <=> Alive)
      BY <1>1, <1>4, <1>9, <2>2 DEF StopRequest
    <3>2. \A u \in Threads \ {t} : pc[u] \notin StopBegun /\ ~Starting(u)
      <4>1. ASSUME NEW u \in Threads, Starting(u) \/ u = t PROVE Holds(u)
        BY <1>9, <4>1 DEF StopRequest, Starting, Holds, LockedLabels, StartingLabels,
           TearDown, StopLabels, StartOps
      <4>. QED  BY <2>2, <4>1 DEF IInv, MutexInv, QuietInv, BegunInv
    <3>3. BegunInv'
      BY <2>2, <3>1, <3>2 DEF BegunInv, Starting
    <3>4. LoopInv' /\ StoppedInv' /\ RunningTakesMessages'
      BY <1>9, <2>2, <3>1 DEF StopRequest, QuietInv, LoopInv, StoppedInv,
         RunningTakesMessages, Threads
    <3>. QED  BY <3>3, <3>4 DEF QuietInv
  <2>. QED  BY <1>9, <2>1, <2>2 DEF StopRequest
<1>10. CASE StopClose(t)
  <2>1. /\ Others /\ pc[t] \in StopBegun /\ pc'[t] = "stop_wait" /\ (Alive' <=> Alive)
        /\ UNCHANGED <<state, flags>>
    BY <1>1, <1>4, <1>10 DEF StopClose, StopBegun, StopActive
  <2>2. BegunInv'
    BY <1>6, <2>1 DEF BegunInv, Starting, flags
  <2>3. LoopInv' /\ StoppedInv' /\ RunningTakesMessages'
    BY <1>6, <1>10, <2>1 DEF StopClose, QuietInv, LoopInv, StoppedInv,
       RunningTakesMessages, flags, Threads
  <2>. QED  BY <2>2, <2>3 DEF QuietInv
<1>11. CASE StopExited(t)
  <2>1. t # Game
    BY <1>11 DEF StopExited, QuietInv, LoopInv, Alive, At, Threads
  <2>2. QuietMove(t)
    BY <1>1, <1>4, <1>11, <2>1 DEF StopExited, QuietMove, quietVars, mq, Starting,
       StopBegun, StopActive, TearDown, StartingLabels
  <2>. QED  BY <2>2, QuietKept
<1>12. CASE StopTimeout(t)
  <2>1. /\ Others /\ pc[t] \in StopBegun /\ pc'[t] \in {"idle", "reset_return"}
        /\ (Alive' <=> Alive) /\ op'[t] \in {op[t], "none"} /\ stopTimedOut'
        /\ UNCHANGED <<state, running, gameLoopExited, closed>>
    BY <1>2, <1>3, <1>12 DEF StopTimeout, StopBegun, StopActive, StopLabels, mq
  <2>2. BegunInv'
    BY <1>6, <2>1 DEF BegunInv, StopBegun, StopActive
  <2>3. LoopInv' /\ StoppedInv' /\ RunningTakesMessages'
    BY <2>1 DEF QuietInv, LoopInv, StoppedInv, RunningTakesMessages, Threads
  <2>. QED  BY <2>2, <2>3 DEF QuietInv
<1>13. CASE StopJoin(t)
  <2>1. t # Game
    BY <1>13 DEF StopJoin, QuietInv, BegunInv, StopBegun, StopActive
  <2>2. QuietMove(t)
    BY <1>1, <1>4, <1>13, <2>1 DEF StopJoin, QuietMove, quietVars, mq, Starting,
       StopBegun, StopActive, TearDown, StartingLabels
  <2>. QED  BY <2>2, QuietKept
<1>14. CASE StopClear(t)
  <2>1. /\ Others /\ pc[t] \in StopBegun /\ pc'[t] = "stop_state" /\ (Alive' <=> Alive)
        /\ ~running' /\ UNCHANGED <<state, stopInProgress, gameLoopExited>> /\ t # Game
    BY <1>1, <1>4, <1>14 DEF StopClear, StopBegun, StopActive, QuietInv, BegunInv
  <2>2. BegunInv'
    BY <1>6, <2>1 DEF BegunInv, Starting
  <2>3. LoopInv' /\ StoppedInv' /\ RunningTakesMessages'
    BY <1>14, <2>1 DEF StopClear, QuietInv, LoopInv, StoppedInv,
       RunningTakesMessages, Threads
  <2>. QED  BY <2>2, <2>3 DEF QuietInv
<1>15. CASE StopState(t)
  <2>1. /\ Others /\ pc[t] \in StopBegun /\ pc'[t] = "stop_flags" /\ (Alive' <=> Alive)
        /\ ~running /\ UNCHANGED <<flags, closed>> /\ t # Game
    BY <1>1, <1>4, <1>15 DEF StopState, StopBegun, StopActive, QuietInv, BegunInv, mq
  <2>2. ~Alive
    BY <2>1 DEF IInv, ThreadInv
  <2>3. BegunInv'
    BY <1>6, <2>1 DEF BegunInv, Starting, flags
  <2>4. \A u \in Threads : pc'[u] # "start_spawn"
    BY <1>6, <2>1 DEF Starting, StartingLabels
  <2>5. LoopInv' /\ StoppedInv' /\ RunningTakesMessages'
    BY <1>15, <2>1, <2>2, <2>4 DEF StopState, QuietInv, LoopInv, StoppedInv,
       RunningTakesMessages, flags, Threads
  <2>. QED  BY <2>3, <2>5 DEF QuietInv
<1>16. CASE StopFlags(t)
  <2>1. ~running /\ pc[t] \in StopBegun /\ t # Game
    BY <1>16 DEF StopFlags, QuietInv, BegunInv, StopBegun, StopActive
  <2>2. pc[t] \in StopLabels
    BY <1>16 DEF StopFlags, StopLabels
  <2>3. /\ Others /\ pc'[t] \in {"idle", "reset_queue"} /\ op'[t] \in {op[t], "none"}
        /\ (Alive' <=> Alive) /\ UNCHANGED <<state, running, gameLoopExited>>
    BY <1>2, <1>3, <1>16, <2>2 DEF StopFlags
  <2>4. BegunInv'
    BY <1>6, <2>1, <2>3 DEF BegunInv, StopBegun, StopActive
  <2>5. LoopInv' /\ StoppedInv' /\ RunningTakesMessages'
    BY <2>1, <2>3 DEF QuietInv, LoopInv, StoppedInv, RunningTakesMessages,
       Threads
  <2>. QED  BY <2>4, <2>5 DEF QuietInv
<1>17. CASE ResetCheck(t)
  <2>2. QuietMove(t)
    BY <1>1, <1>4, <1>17 DEF ResetCheck, QuietMove, quietVars, mq, flags, Starting,
       StopBegun, StopActive, TearDown, StartingLabels
  <2>. QED  BY <2>2, QuietKept
<1>18. CASE ResetQueue(t) \/ ResetCore(t) \/ ResetState(t)
  <2>1. pc[t] \in TearDown
    BY <1>18 DEF ResetQueue, ResetCore, ResetState, TearDown
  <2>2. /\ Others /\ UNCHANGED op /\ (Alive' <=> Alive)
        /\ pc'[t] \in {"reset_core", "reset_state", "start_arm", "reset_return"}
    BY <1>1, <1>4, <1>5, <1>18, <2>1 DEF ResetQueue, ResetCore, ResetState, AfterReset,
       TearDown
  <2>3. UNCHANGED <<running, gameLoopExited>> /\ ~running
    BY <1>18, <2>1 DEF ResetQueue, ResetCore, ResetState, flags, IInv, RunningInv
  <2>4. state' \in {state, "CORE_LOADED", "INIT"}
    BY <1>18, AfterIn DEF ResetQueue, ResetCore, ResetState, AfterUnload
  <2>5. \A u \in Threads \ {t} : pc[u] \notin StopBegun
    <3>1. CASE ResetQueue(t)
      <4>1. pc[t] = "reset_queue" /\ pc'[t] = "reset_core"
        BY <1>1, <3>1 DEF ResetQueue
      <4>2. CASE op[t] \in ResetOps
        BY <2>3, <4>1, <4>2 DEF ResetAlone, ResetOps, IInv, RunningInv, StopBegun
      <4>3. CASE op[t] \in StartOps
        BY <4>1, <4>3 DEF Starting, QuietInv, BegunInv
      <4>. QED  BY <4>1, <4>2, <4>3 DEF IInv, OpInv, TearDown
    <3>2. CASE ResetCore(t) \/ ResetState(t)
      <4>1. Starting(t)
        BY <3>2 DEF ResetCore, ResetState, Starting
      <4>. QED  BY <4>1, <1>7
    <3>. QED  BY <1>18, <3>1, <3>2
  <2>6. BegunInv'
    BY <2>2, <2>5 DEF BegunInv, StopBegun, StopActive
  <2>7. LoopInv' /\ StoppedInv' /\ RunningTakesMessages'
    BY <2>1, <2>2, <2>3, <2>4 DEF QuietInv, LoopInv, StoppedInv,
       RunningTakesMessages, TearDown, Threads
  <2>. QED  BY <2>6, <2>7 DEF QuietInv
<1>19. CASE ResetReturn(t)
  <2>1. /\ Others /\ pc'[t] \in {"cancel_done", "idle"} /\ op'[t] \in {op[t], "none"}
    BY <1>19 DEF ResetReturn, Goto, Return, IInv, TypeOK, PcType, OpType
  <2>2. QuietMove(t)
    BY <1>4, <1>19, <2>1 DEF ResetReturn, QuietMove, quietVars, mq, Starting, StopBegun,
       StopActive, TearDown, StartingLabels
  <2>. QED  BY <2>2, QuietKept
<1>. QED  BY <1>8, <1>9, <1>10, <1>11, <1>12, <1>13, <1>14, <1>15, <1>16, <1>17, <1>18,
     <1>19 DEF SharedStep

\* The game thread never publishes STOPPED, and its exit is the only step that
\* sets gameLoopExited_.
LEMMA GameKeepsLoop ==
  ASSUME GameStep
  PROVE  /\ state' = "STOPPED" => state = "STOPPED"
         /\ UNCHANGED gameLoopExited \/ Goto(Game, "none")
<1>. USE AfterIn DEF TransitionTo, AfterUnload, flags
<1>1. CASE GameTop BY <1>1 DEF GameTop
<1>2. CASE GameDrain BY <1>2 DEF GameDrain
<1>3. CASE GameDrained BY <1>3 DEF GameDrained
<1>4. CASE GameFrame BY <1>4 DEF GameFrame
<1>5. CASE GameWait BY <1>5 DEF GameWait
<1>6. CASE GameExit BY <1>6 DEF GameExit
<1>7. CASE HandlePauseResume BY <1>7 DEF HandlePauseResume
<1>8. CASE HandleIgnored BY <1>8 DEF HandleIgnored
<1>9. CASE HandleStop BY <1>9 DEF HandleStop
<1>10. CASE GameStopping BY <1>10 DEF GameStopping
<1>11. CASE HandleCancel BY <1>11 DEF HandleCancel
<1>12. CASE CancelDone BY <1>12 DEF CancelDone
<1>13. CASE HandleLoadCore BY <1>13 DEF HandleLoadCore
<1>14. CASE GameLoadCore BY <1>14 DEF GameLoadCore
<1>15. CASE HandleLoadRom BY <1>15 DEF HandleLoadRom
<1>16. CASE GameLoadRom BY <1>16 DEF GameLoadRom
<1>17. CASE GameLoadRomFails BY <1>17 DEF GameLoadRomFails
<1>18. CASE GameRomReady BY <1>18 DEF GameRomReady
<1>19. CASE GameRomReadyFails BY <1>19 DEF GameRomReadyFails
<1>20. CASE GameGoesRunning BY <1>20 DEF GameGoesRunning
<1>21. CASE GameAudio BY <1>21 DEF GameAudio
<1>. QED  BY <1>1, <1>2, <1>3, <1>4, <1>5, <1>6, <1>7, <1>8, <1>9, <1>10, <1>11, <1>12,
     <1>13, <1>14, <1>15, <1>16, <1>17, <1>18, <1>19, <1>20, <1>21 DEF GameStep

\* The game thread keeps QuietInv.
LEMMA GameQuiet ==
  ASSUME IInv, QuietInv, GameStep PROVE QuietInv'
<1>1. GameMoves BY GameTypeOp DEF IInv
<1>2. PICK l \in GameLabels \cup {"reset_lock"} : Goto(Game, l)
  BY <1>1 DEF GameMoves
<1>3. pc'[Game] = l /\ \A u \in Threads \ {Game} : pc'[u] = pc[u] /\ op'[u] = op[u]
  BY <1>1, <1>2 DEF GameMoves, Goto, IInv, TypeOK, PcType, OpType, Threads
<1>4. \A u \in Threads : pc'[u] \in {"start_spawn", "start_join"} \cup StopBegun =>
        u # Game /\ pc'[u] = pc[u]
  BY <1>3 DEF StopBegun, StopActive, GameLabels
<1>5. ~Starting(Game)'
  BY <1>3 DEF Starting, TearDown, StartingLabels, GameLabels
<1>6. Alive BY <1>1 DEF GameMoves, Alive, At
<1>8. LoopInv'
  <2>1. CASE Goto(Game, "none")
    <3>1. ~Alive' BY <2>1 DEF Goto, Alive, At, IInv, TypeOK, PcType, Threads
    <3>2. \A u \in Threads : pc[u] # "start_spawn"
      BY <1>6, CleanAlone DEF CleanLabels, IInv
    <3>. QED  BY <1>4, <3>1, <3>2 DEF LoopInv
  <2>2. CASE UNCHANGED gameLoopExited
    BY <1>6, <2>2 DEF QuietInv, LoopInv
  <2>. QED  BY <2>1, <2>2, GameKeepsLoop
<1>9. StoppedInv'
  BY <1>6, GameKeepsLoop DEF QuietInv, StoppedInv
<1>10. BegunInv'
  BY <1>1, <1>3, <1>4, <1>5 DEF QuietInv, BegunInv, GameMoves, Starting
<1>11. RunningTakesMessages'
  <2>1. \A u \in Threads : pc[u] = "start_join" => pc'[u] = "start_join"
    BY <1>1, <1>3 DEF GameMoves, GameLabels
  <2>. QED  BY <1>1, <2>1 DEF QuietInv, RunningTakesMessages, GameMoves
<1>. QED  BY <1>8, <1>9, <1>10, <1>11 DEF QuietInv

\* QuietInv holds initially.
LEMMA InitQuiet == Init => QuietInv
  BY DEF Init, QuietInv, LoopInv, BegunInv, StopBegun, StopActive, StoppedInv,
     RunningTakesMessages, Alive, At, Threads

\* Every step but the Reset that meets the end of a Stop preserves QuietInv.
LEMMA StepQuiet == IInv /\ QuietInv /\ [Next]_vars /\ [ResetAlone]_vars => QuietInv'
<1>. SUFFICES ASSUME IInv, QuietInv, [Next]_vars, [ResetAlone]_vars PROVE QuietInv'
  OBVIOUS
<1>1. CASE UNCHANGED vars
  BY <1>1 DEF vars, flags, mq, QuietInv, LoopInv, BegunInv, StoppedInv,
     RunningTakesMessages, Alive, At, Starting
<1>. QED  BY <1>1, BeginsQuiet, CallerQuiet, SharedQuiet, GameQuiet DEF Next

\* Unless a Reset tears down while another thread is at the last stores of its
\* Stop, STOPPED is only published once the game thread is gone: Stop, Start,
\* LoadCore, Reset and the messages may interleave, time out and fail as they
\* like.
THEOREM StoppedIsQuiet == Spec /\ [][ResetAlone]_vars => []StoppedMeansQuiet
<1>1. QuietInv => StoppedMeansQuiet
  BY DEF QuietInv, StoppedInv, StoppedMeansQuiet
<1>. QED  BY <1>1, InitQuiet, StepQuiet, Invariance, PTL DEF Spec

\* With the same exception an engine that reports itself running has a closed
\* queue only while a stop is under way, after one timed out, or while a Start
\* that failed joins its thread.
THEOREM RunningIsOpen == Spec /\ [][ResetAlone]_vars => []RunningTakesMessages
<1>1. QuietInv => RunningTakesMessages
  BY DEF QuietInv
<1>. QED  BY <1>1, InitQuiet, StepQuiet, Invariance, PTL DEF Spec

-----------------------------------------------------------------------------
\* The state and what is loaded.

\* What the transition table allows from and to the states MatchInv names.
LEMMA Table ==
  /\ \A s \in Down : /\ After(s, "CORE_LOADED") = s
                     /\ After(s, "ERROR") = s
                     /\ After(s, "STARTING") \in {"STARTING", "STOPPING"}
  /\ \A s \in {"RUNNING", "PAUSED", "LOADING", "STARTING"} :
       After(s, "CORE_LOADED") = "CORE_LOADED"
  /\ \A s \in {"STARTING", "LOADING", "CORE_LOADED"} : After(s, "ERROR") = "ERROR"
  /\ After("ERROR", "LOADING") = "ERROR"
  /\ \A s \in States : After(s, "STOPPING") \in Ending
  /\ \A s \in States : After(s, "STOPPED") =
       IF s \in {"INIT", "STOPPING", "STOPPED"} THEN "STOPPED" ELSE s
<1>. USE DEF After, ValidTransitions
<1>1. \A s \in Down : /\ After(s, "CORE_LOADED") = s
                      /\ After(s, "ERROR") = s
                      /\ After(s, "STARTING") \in {"STARTING", "STOPPING"}
  BY DEF Down, Ending
<1>2. \A s \in {"RUNNING", "PAUSED", "LOADING", "STARTING"} :
        After(s, "CORE_LOADED") = "CORE_LOADED"
  OBVIOUS
<1>3. \A s \in {"STARTING", "LOADING", "CORE_LOADED"} : After(s, "ERROR") = "ERROR"
  OBVIOUS
<1>4. After("ERROR", "LOADING") = "ERROR"
  OBVIOUS
<1>5. \A s \in States : After(s, "STOPPING") \in Ending
  BY DEF States, Ending
<1>6. \A s \in States : After(s, "STOPPED") =
        IF s \in {"INIT", "STOPPING", "STOPPED"} THEN "STOPPED" ELSE s
  BY DEF States
<1>. QED  BY <1>1, <1>2, <1>3, <1>4, <1>5, <1>6

\* Labels MatchInv speaks of for a thread other than the game thread.
MatchLabels == {"reset_core", "reset_state", "start_arm", "start_spawn",
                "start_render", "start_join", "stop_close"}

\* A step of a caller that touches neither the state, the queue nor the core,
\* and neither comes to such a label nor leaves one that is relied upon.
MatchMove(t) ==
  /\ UNCHANGED <<state, mq, core, msg>>
  /\ stopRequested' => stopRequested
  /\ t # Game
  /\ \A u \in Threads \ {t} : pc'[u] = pc[u]
  /\ pc'[t] \notin MatchLabels
  /\ pc[t] \notin {"start_spawn", "start_join"}

\* Such moves keep MatchInv.
LEMMA MatchKept ==
  ASSUME MatchInv, NEW t \in Threads, MatchMove(t) PROVE MatchInv'
<1>0. pc'[Game] = pc[Game] /\ \A u \in Threads : pc'[u] \in MatchLabels => pc'[u] = pc[u]
  BY DEF MatchMove, Threads
<1>1. NoCancel' /\ LoadInv'
  BY <1>0 DEF MatchInv, MatchMove, NoCancel, NoCancelPosted, LoadInv, StateMatchesCore, At, mq, core
<1>2. DownInv'
  BY <1>0 DEF MatchInv, MatchMove, DownInv, Alive, Off, At, MatchLabels
<1>3. StartInv'
  BY <1>0 DEF MatchInv, MatchMove, StartInv, StartingLabels, MatchLabels, At, mq
<1>4. ClosedInv'
  BY <1>0 DEF MatchInv, MatchMove, ClosedInv, StopComing, MatchLabels, Alive, At, mq
<1>. QED  BY <1>1, <1>2, <1>3, <1>4 DEF MatchInv

\* A message that finds its way into the queue: neither a Cancel, nor a Stop
\* or a LoadCore while somebody starts the engine.
LEMMA MatchPush ==
  ASSUME IInv, MatchInv, NEW m \in Messages \ {"Cancel"}, Push(m),
         UNCHANGED <<state, stopRequested, closed, core, msg, pc>>,
         m \in {"Stop", "LoadCore"} =>
           \A t \in Threads : pc[t] \notin {"reset_core", "reset_state", "start_arm"} \cup
                                           StartingLabels
  PROVE  MatchInv'
<1>0. /\ queue \in Seq(Messages)
      /\ DOMAIN queue' = 1 .. (Len(queue) + 1) /\ DOMAIN queue = 1 .. Len(queue)
      /\ \A i \in DOMAIN queue : queue'[i] = queue[i]
      /\ \A i \in DOMAIN queue' : i \in DOMAIN queue \/ queue'[i] = m
      /\ Len(queue) \in Nat
  BY DEF Push, IInv, TypeOK
<1>1. NoCancel' /\ LoadInv' /\ DownInv'
  BY <1>0 DEF MatchInv, NoCancel, NoCancelPosted, LoadInv, StateMatchesCore, DownInv, Off, Alive, At, core
<1>2. StartInv'
  BY <1>0 DEF MatchInv, StartInv, At
<1>3. StopComing => StopComing'
  BY <1>0 DEF StopComing, At
<1>4. ClosedInv'
  BY <1>3 DEF MatchInv, ClosedInv, Alive, At
<1>. QED  BY <1>1, <1>2, <1>4 DEF MatchInv

\* A call begins, or a message other than Cancel is posted.
LEMMA BeginsMatch ==
  ASSUME IInv, MatchInv, NoCancelPosted', CallerBegins PROVE MatchInv'
<1>1. PICK t \in Callers : (\E o \in AllOps : Call(t, o) \/ Post(t, o)) \/ LoadGame(t)
  BY DEF CallerBegins
<1>2. t \in Threads /\ t # Game BY GameNotCaller DEF Threads
<1>3. ASSUME NEW o \in AllOps, Call(t, o) PROVE MatchInv'
  <2>1. /\ pc'[t] \in {"start_lock", "stop_lock", "reset_lock", "load_lock"}
        /\ \A u \in Threads \ {t} : pc'[u] = pc[u]
    BY <1>2, <1>3 DEF Call, Idle, AllOps, Posts, Goto, IInv, TypeOK, PcType
  <2>2. MatchMove(t)
    BY <1>2, <1>3, <2>1 DEF Call, Idle, MatchMove, MatchLabels, flags
  <2>. QED  BY <1>2, <2>2, MatchKept
<1>4. ASSUME NEW m \in Posts, Push(m),
             UNCHANGED <<state, flags, closed, core, pc, msg>>
      PROVE  MatchInv'
  <2>1. Len(queue) + 1 \in DOMAIN queue' /\ queue'[Len(queue) + 1] = m
    BY <1>4 DEF Push, Posts, Messages, IInv, TypeOK
  <2>2. m # "Cancel" BY <2>1 DEF NoCancelPosted
  <2>. QED  BY <1>4, <2>2, MatchPush DEF Messages, Posts, flags
<1>. QED  BY <1>1, <1>3, <1>4 DEF Post, LoadGame, Posts

\* A thread on its way through the tear-down or a start excludes every other
\* holder of the mutex, one that is about to close the queue included.
LEMMA StarterAlone ==
  ASSUME IInv, NEW t \in Threads, Holds(t)
  PROVE  \A u \in Threads \ {t} :
           pc[u] \notin MatchLabels \cup StartingLabels \cup TearDown
<1>1. ASSUME NEW u \in Threads,
             pc[u] \in MatchLabels \cup StartingLabels \cup TearDown,
             u # t
      PROVE  FALSE
  <2>1. Holds(u)
    BY <1>1 DEF MatchLabels, StartingLabels, TearDown, Holds, LockedLabels
  <2>. QED  BY <1>1, <2>1 DEF IInv, MutexInv
<1>. QED  BY <1>1

\* While the game thread is away the state is down, unless Start is between
\* its STARTING and its thread.
LEMMA DownWhenOff ==
  ASSUME IInv, MatchInv, NEW t \in Threads, pc[t] \in CleanLabels \ {"start_spawn"}
  PROVE  state \in Down /\ ~Alive
<1>1. Holds(t) /\ pc[t] \notin {"start_spawn", "start_join"}
  BY DEF CleanLabels, Holds, LockedLabels, TearDown
<1>2. \A u \in Threads : pc[u] \notin {"start_spawn", "start_join"}
  BY <1>1, StarterAlone DEF MatchLabels
<1>3. ~Alive BY CleanAlone DEF IInv
<1>. QED  BY <1>2, <1>3 DEF MatchInv, DownInv, Off

\* LoadCore and Start keep MatchInv.
LEMMA CallerMatch ==
  ASSUME IInv, MatchInv, NEW t \in Callers, CallerStep(t) PROVE MatchInv'
<1>0. t \in Threads /\ t # Game
  BY GameNotCaller DEF Threads
<1>1. \A l : Goto(t, l) => pc'[t] = l /\ \A u \in Threads \ {t} : pc'[u] = pc[u]
  BY <1>0 DEF Goto, IInv, TypeOK, PcType
<1>2. Return(t) => pc'[t] = "idle" /\ \A u \in Threads \ {t} : pc'[u] = pc[u]
  BY <1>0 DEF Return, IInv, TypeOK, PcType
<1>3. \A ok \in BOOLEAN : StartReturns(t, ok) =>
        pc'[t] \in {"idle", "load_push"} /\ \A u \in Threads \ {t} : pc'[u] = pc[u]
  BY <1>1, <1>2 DEF StartReturns
<1>. DEFINE Others == \A u \in Threads \ {t} : pc'[u] = pc[u]
<1>4. CASE LoadCoreLock(t) \/ StartLock(t) \/ StartRender(t)
  <2>1. (\E l \in {"load_push", "start_check"} : Goto(t, l)) \/ StartReturns(t, TRUE)
    BY <1>4 DEF LoadCoreLock, StartLock, StartRender, Acquire
  <2>2. /\ UNCHANGED <<state, stopRequested, mq, core, msg>>
        /\ pc[t] \in {"load_lock", "start_lock", "start_render"}
    BY <1>4 DEF LoadCoreLock, StartLock, StartRender, flags
  <2>3. Others /\ pc'[t] \in {"load_push", "start_check", "idle"}
    BY <1>1, <1>3, <2>1
  <2>4. MatchMove(t) BY <1>0, <2>2, <2>3 DEF MatchMove, MatchLabels
  <2>. QED  BY <1>0, <2>4, MatchKept
<1>5. CASE StartCheck(t)
  <2>1. (\E ok \in BOOLEAN : StartReturns(t, ok)) \/ Goto(t, "reset_check")
    BY <1>5 DEF StartCheck
  <2>2. MatchMove(t)
    BY <1>0, <1>1, <1>3, <1>5, <2>1 DEF StartCheck, MatchMove, MatchLabels, flags
  <2>. QED  BY <1>0, <2>2, MatchKept
<1>6. CASE LoadCorePush(t)
  <2>1. Others /\ pc'[t] = "idle" /\ pc'[Game] = pc[Game] /\ pc[t] = "load_push"
    BY <1>0, <1>2, <1>6 DEF LoadCorePush, Threads
  <2>2. CASE closed
    <3>1. MatchMove(t)
      BY <1>0, <1>6, <2>1, <2>2 DEF LoadCorePush, MatchMove, MatchLabels, mq, flags
    <3>. QED  BY <1>0, <3>1, MatchKept
  <2>3. CASE ~closed
    <3>1. \A u \in Threads : pc[u] \notin MatchLabels \cup StartingLabels \cup TearDown
      <4>1. Holds(t) BY <2>1 DEF Holds, LockedLabels
      <4>. QED  BY <1>0, <2>1, <4>1, StarterAlone DEF MatchLabels, StartingLabels, TearDown
    <3>2. \A u \in Threads : pc'[u] \notin MatchLabels \cup StartingLabels \cup TearDown
      BY <2>1, <3>1 DEF MatchLabels, StartingLabels, TearDown
    <3>3. /\ queue \in Seq(Messages) /\ Len(queue) \in Nat
          /\ DOMAIN queue' = 1 .. (Len(queue) + 1) /\ DOMAIN queue = 1 .. Len(queue)
          /\ \A i \in DOMAIN queue : queue'[i] = queue[i]
          /\ \A i \in DOMAIN queue' : i \in DOMAIN queue \/ queue'[i] = "LoadCore"
      BY <1>6, <2>3 DEF LoadCorePush, Push, IInv, TypeOK, Messages
    <3>4. UNCHANGED <<state, stopRequested, closed, core, msg>>
      BY <1>6 DEF LoadCorePush, flags
    <3>5. NoCancel' /\ LoadInv'
      BY <2>1, <3>3, <3>4 DEF MatchInv, NoCancel, NoCancelPosted, LoadInv, StateMatchesCore, At, core
    <3>6. DownInv'
      BY <2>1, <3>1, <3>2, <3>4 DEF MatchInv, DownInv, Off, Alive, At, MatchLabels
    <3>7. StartInv'
      BY <3>2 DEF StartInv, MatchLabels, StartingLabels
    <3>8. ClosedInv'
      BY <2>3, <3>2, <3>4 DEF ClosedInv, MatchLabels
    <3>. QED  BY <3>5, <3>6, <3>7, <3>8 DEF MatchInv
  <2>. QED  BY <2>2, <2>3
<1>7. CASE StartArm(t)
  <2>1. /\ Others /\ pc[t] = "start_arm" /\ pc'[t] = "start_spawn"
        /\ pc'[Game] = pc[Game] /\ UNCHANGED <<queue, closed, core, msg>>
    BY <1>0, <1>1, <1>7 DEF StartArm, mq, Threads
  <2>2. state \in Down /\ ~Alive
    BY <1>0, <2>1, DownWhenOff DEF CleanLabels
  <2>3. state' \in {"STARTING", "STOPPING"} /\ ~stopRequested'
    BY <1>7, <2>2, Table DEF StartArm, TransitionTo
  <2>4. ~closed BY <1>0, <2>1 DEF IInv, CleanInv
  <2>5. \A u \in Threads : pc'[u] \in MatchLabels \cup StartingLabels => u = t
    <3>1. Holds(t) BY <2>1 DEF Holds, LockedLabels
    <3>. QED  BY <1>0, <2>1, <3>1, StarterAlone
  <2>6. NoCancel' BY <2>1 DEF MatchInv, NoCancel, NoCancelPosted
  <2>7. LoadInv'
    BY <2>1, <2>2, <2>3 DEF LoadInv, StateMatchesCore, CoreLoadedStates, Alive, At
  <2>8. DownInv'
    BY <1>0, <2>1, <2>2, <2>3 DEF DownInv, Ending, Down, Alive, At
  <2>9. StartInv'
    BY <1>0, <2>1, <2>3, <2>4, <2>5 DEF MatchInv, StartInv, StartingLabels, MatchLabels
  <2>10. ClosedInv'
    BY <2>1, <2>2, <2>4 DEF ClosedInv, Alive, At
  <2>. QED  BY <2>6, <2>7, <2>8, <2>9, <2>10 DEF MatchInv
<1>8. CASE StartSpawn(t)
  <2>1. /\ pc[t] = "start_spawn" /\ pc'[t] = "start_render" /\ pc'[Game] = "top"
        /\ \A u \in Threads \ {t, Game} : pc'[u] = pc[u]
        /\ UNCHANGED <<state, stopRequested, queue, closed, core, msg>>
    BY <1>0, <1>8 DEF StartSpawn, mq, flags, IInv, TypeOK, PcType, Threads
  <2>2. Holds(t) /\ ~Alive
    BY <1>0, <2>1, CleanAlone DEF Holds, LockedLabels, CleanLabels, IInv
  <2>3. \A u \in Threads : pc'[u] \in MatchLabels \cup StartingLabels => u = t
    BY <1>0, <2>1, <2>2, StarterAlone DEF MatchLabels, StartingLabels
  <2>4. state \in (Down \ {"INIT", "ERROR"}) \cup {"STARTING"}
    BY <1>0, <2>1, <2>2 DEF MatchInv, DownInv, Off
  <2>5. NoCancel' BY <2>1 DEF MatchInv, NoCancel, NoCancelPosted, GameLabels
  <2>6. LoadInv'
    BY <2>1 DEF MatchInv, LoadInv, StateMatchesCore, At, core
  <2>7. DownInv'
    BY <1>0, <2>1, <2>3, <2>4 DEF DownInv, Ending, Down, Off, Alive, At, StartingLabels
  <2>8. StartInv'
    BY <1>0, <2>1, <2>3, <2>4 DEF MatchInv, StartInv, StartingLabels, MatchLabels, Idling,
       At
  <2>9. ~closed BY <1>0, <2>1 DEF IInv, CleanInv
  <2>10. ClosedInv'
    BY <1>0, <2>1, <2>3, <2>9 DEF ClosedInv, MatchLabels
  <2>. QED  BY <2>5, <2>6, <2>7, <2>8, <2>10 DEF MatchInv
<1>9. CASE StartSpawnFails(t) \/ StartJoin(t)
  <2>1. /\ Others /\ pc[t] \in {"start_spawn", "start_join"} /\ pc'[Game] = pc[Game]
        /\ pc'[t] \in {"idle", "load_push"}
        /\ UNCHANGED <<stopRequested, queue, closed, core, msg>>
        /\ state' = After(state, "ERROR")
    BY <1>0, <1>3, <1>9 DEF StartSpawnFails, StartJoin, TransitionTo, mq, Threads
  <2>2. Holds(t) /\ ~Alive
    BY <1>0, <1>9, <2>1, CleanAlone DEF StartJoin, StartSpawnFails, Holds, LockedLabels,
       CleanLabels, IInv, Alive, At
  <2>3. \A u \in Threads : pc'[u] \notin MatchLabels \cup StartingLabels
    BY <1>0, <2>1, <2>2, StarterAlone DEF MatchLabels, StartingLabels
  <2>4. state' \in Down
    BY <2>1, <2>2, Table DEF MatchInv, DownInv, Off, Down
  <2>5. NoCancel' BY <2>1 DEF MatchInv, NoCancel, NoCancelPosted
  <2>6. LoadInv'
    BY <2>1, <2>2, <2>4 DEF LoadInv, StateMatchesCore, CoreLoadedStates, Down, Ending,
       Alive, At
  <2>7. DownInv'
    BY <2>1, <2>2, <2>3, <2>4 DEF DownInv, Alive, At, StartingLabels
  <2>8. StartInv'
    BY <2>3 DEF StartInv, StartingLabels, MatchLabels
  <2>9. ClosedInv'
    BY <2>1, <2>2 DEF ClosedInv, Alive, At
  <2>. QED  BY <2>5, <2>6, <2>7, <2>8, <2>9 DEF MatchInv
<1>10. CASE StartRenderFails(t)
  <2>1. /\ Others /\ pc[t] = "start_render" /\ pc'[t] = "start_join"
        /\ pc'[Game] = pc[Game] /\ UNCHANGED <<state, queue, core, msg>>
    BY <1>0, <1>1, <1>10 DEF StartRenderFails, Threads
  <2>2. \A u \in Threads : pc'[u] \in MatchLabels \cup StartingLabels => u = t
    <3>1. Holds(t) BY <2>1 DEF Holds, LockedLabels
    <3>. QED  BY <1>0, <2>1, <3>1, StarterAlone
  <2>3. NoCancel' /\ LoadInv'
    BY <2>1 DEF MatchInv, NoCancel, NoCancelPosted, LoadInv, StateMatchesCore, At, core
  <2>4. DownInv'
    BY <1>0, <2>1, <2>2 DEF MatchInv, DownInv, Off, Alive, At, StartingLabels
  <2>5. StartInv'
    BY <1>0, <2>1, <2>2 DEF MatchInv, StartInv, StartingLabels, MatchLabels, At
  <2>6. ClosedInv'
    BY <1>0, <2>1, <2>2 DEF ClosedInv, MatchLabels
  <2>. QED  BY <2>3, <2>4, <2>5, <2>6 DEF MatchInv
<1>. QED  BY <1>4, <1>5, <1>6, <1>7, <1>8, <1>9, <1>10 DEF CallerStep

\* Stop and Reset keep MatchInv.
LEMMA SharedMatch ==
  ASSUME IInv, MatchInv, NEW t \in Threads, SharedStep(t) PROVE MatchInv'
<1>0. t # Game /\ t \in Callers
  <2>1. pc[Game] \in GameLabels \ {"cancel_done"} BY DEF MatchInv, NoCancel, NoCancelPosted
  <2>. QED
    BY <2>1 DEF SharedStep, StopLock, StopRequest, StopClose, StopExited, StopTimeout,
       StopJoin, StopClear, StopState, StopFlags, ResetLock, ResetCheck, ResetQueue,
       ResetCore, ResetState, ResetReturn, GameLabels, Threads
<1>1. \A l : Goto(t, l) => pc'[t] = l /\ \A u \in Threads \ {t} : pc'[u] = pc[u]
  BY DEF Goto, IInv, TypeOK, PcType
<1>2. \A ok \in BOOLEAN : pc[t] \in StopLabels /\ StopReturns(t, ok) =>
        /\ pc'[t] \in {"idle", "reset_queue", "reset_return"}
        /\ \A u \in Threads \ {t} : pc'[u] = pc[u]
  BY StopReturnsMoves DEF IInv
<1>3. Return(t) => pc'[t] = "idle" /\ \A u \in Threads \ {t} : pc'[u] = pc[u]
  BY DEF Return, IInv, TypeOK, PcType
<1>. DEFINE Others == \A u \in Threads \ {t} : pc'[u] = pc[u]
            Held == \A u \in Threads \ {t} :
                      pc[u] \notin MatchLabels \cup StartingLabels \cup TearDown
<1>4. Others => pc'[Game] = pc[Game] BY <1>0 DEF Threads
<1>5. CASE StopLock(t) \/ StopExited(t) \/ StopJoin(t) \/ StopClear(t) \/ ResetLock(t)
  <2>1. \E l \in {"stop_request", "stop_join", "stop_clear", "stop_state",
                  "reset_check"} : Goto(t, l)
    BY <1>5 DEF StopLock, StopExited, StopJoin, StopClear, ResetLock, Acquire
  <2>2. UNCHANGED <<state, stopRequested, mq, core, msg>>
    BY <1>5 DEF StopLock, StopExited, StopJoin, StopClear, ResetLock, flags
  <2>3. pc[t] \notin {"start_spawn", "start_join"}
    BY <1>5 DEF StopLock, StopExited, StopJoin, StopClear, ResetLock
  <2>4. MatchMove(t) BY <1>0, <1>1, <2>1, <2>2, <2>3 DEF MatchMove, MatchLabels
  <2>. QED  BY <2>4, MatchKept
<1>6. CASE StopTimeout(t) \/ StopFlags(t)
  <2>1. pc[t] \in StopLabels /\ \E ok \in BOOLEAN : StopReturns(t, ok)
    BY <1>6 DEF StopTimeout, StopFlags, StopLabels
  <2>2. /\ UNCHANGED <<state, mq, core, msg>>
        /\ stopRequested' = FALSE \/ stopRequested' = stopRequested
    BY <1>6 DEF StopTimeout, StopFlags
  <2>3. pc[t] \notin {"start_spawn", "start_join"}
    BY <1>6 DEF StopTimeout, StopFlags
  <2>4. MatchMove(t) BY <1>0, <1>2, <2>1, <2>2, <2>3 DEF MatchMove, MatchLabels
  <2>. QED  BY <2>4, MatchKept
<1>7. CASE ResetCheck(t) \/ ResetReturn(t)
  <2>1. Others /\ pc'[t] \in {"stop_request", "reset_queue", "idle"}
    <3>1. CASE ResetCheck(t)
      <4>1. \E l \in {"stop_request", "reset_queue"} : Goto(t, l)
        BY <3>1 DEF ResetCheck
      <4>. QED  BY <1>1, <4>1
    <3>2. CASE ResetReturn(t) BY <1>0, <1>3, <3>2 DEF ResetReturn
    <3>. QED  BY <1>7, <3>1, <3>2
  <2>2. /\ UNCHANGED <<state, stopRequested, mq, core, msg>>
        /\ pc[t] \notin {"start_spawn", "start_join"}
    BY <1>7 DEF ResetCheck, ResetReturn, flags
  <2>3. MatchMove(t) BY <1>0, <2>1, <2>2 DEF MatchMove, MatchLabels
  <2>. QED  BY <2>3, MatchKept
<1>8. CASE StopRequest(t)
  <2>1. CASE UNCHANGED queue /\ \E ok \in BOOLEAN : StopReturns(t, ok)
    <3>1. MatchMove(t)
      <4>1. UNCHANGED <<state, stopRequested, mq, core, msg>>
        BY <1>8, <2>1 DEF StopRequest, mq
      <4>2. pc[t] = "stop_request" BY <1>8 DEF StopRequest
      <4>. QED  BY <1>0, <1>2, <2>1, <4>1, <4>2 DEF MatchMove, MatchLabels, StopLabels
    <3>. QED  BY <3>1, MatchKept
  <2>2. CASE ~closed /\ Push("Stop") /\ Goto(t, "stop_close")
    <3>1. /\ Others /\ pc[t] = "stop_request" /\ pc'[t] = "stop_close"
          /\ pc'[Game] = pc[Game]
          /\ UNCHANGED <<state, stopRequested, closed, core, msg>>
      BY <1>1, <1>4, <1>8, <2>2 DEF StopRequest
    <3>2. Held
      <4>1. Holds(t) BY <3>1 DEF Holds, LockedLabels
      <4>. QED  BY <4>1, StarterAlone
    <3>3. \A u \in Threads : pc'[u] \in MatchLabels \cup StartingLabels \cup TearDown =>
                             u = t
      BY <3>1, <3>2
    <3>4. /\ Len(queue) \in Nat
          /\ DOMAIN queue' = 1 .. (Len(queue) + 1) /\ DOMAIN queue = 1 .. Len(queue)
          /\ queue'[Len(queue) + 1] = "Stop"
          /\ \A i \in DOMAIN queue' : i \in DOMAIN queue \/ queue'[i] = "Stop"
          /\ \A i \in DOMAIN queue : queue'[i] = queue[i]
      BY <2>2 DEF Push, IInv, TypeOK, Messages
    <3>5. NoCancel' /\ LoadInv'
      BY <3>1, <3>4 DEF MatchInv, NoCancel, NoCancelPosted, LoadInv, StateMatchesCore, At, core
    <3>6. DownInv'
      BY <3>1, <3>2, <3>3 DEF MatchInv, DownInv, Off, Alive, At, MatchLabels
    <3>7. StartInv'
      BY <3>1, <3>3 DEF StartInv, MatchLabels, StartingLabels
    <3>8. StopComing'
      <4>1. Len(queue) + 1 \in DOMAIN queue' BY <3>4
      <4>. QED  BY <3>4, <4>1 DEF StopComing
    <3>9. ClosedInv' BY <3>8 DEF ClosedInv
    <3>. QED  BY <3>5, <3>6, <3>7, <3>9 DEF MatchInv
  <2>. QED  BY <1>8, <2>1, <2>2 DEF StopRequest
<1>9. CASE StopClose(t)
  <2>1. /\ Others /\ pc[t] = "stop_close" /\ pc'[t] = "stop_wait" /\ pc'[Game] = pc[Game]
        /\ UNCHANGED <<state, stopRequested, queue, core, msg>>
    BY <1>1, <1>4, <1>9 DEF StopClose, flags
  <2>2. Held
    <3>1. Holds(t) BY <2>1 DEF Holds, LockedLabels
    <3>. QED  BY <3>1, StarterAlone
  <2>3. \A u \in Threads : pc'[u] \notin MatchLabels \cup StartingLabels \cup TearDown
    BY <2>1, <2>2 DEF MatchLabels, StartingLabels, TearDown
  <2>4. NoCancel' /\ LoadInv'
    BY <2>1 DEF MatchInv, NoCancel, NoCancelPosted, LoadInv, StateMatchesCore, At, core
  <2>5. DownInv'
    BY <2>1, <2>2, <2>3 DEF MatchInv, DownInv, Off, Alive, At, MatchLabels
  <2>6. StartInv'
    BY <2>3 DEF StartInv, MatchLabels, StartingLabels
  <2>7. ClosedInv'
    BY <2>1, <2>3 DEF MatchInv, ClosedInv, StopComing, Alive, At, MatchLabels
  <2>. QED  BY <2>4, <2>5, <2>6, <2>7 DEF MatchInv
<1>10. CASE StopState(t)
  <2>1. /\ Others /\ pc[t] = "stop_state" /\ pc'[t] = "stop_flags"
        /\ pc'[Game] = pc[Game]
        /\ UNCHANGED <<stopRequested, mq, core, msg>>
    BY <1>1, <1>4, <1>10 DEF StopState, flags
  <2>2. /\ \A u \in Threads : pc'[u] \in MatchLabels \cup StartingLabels =>
                              pc'[u] = pc[u]
        /\ \A u \in Threads : pc[u] \in MatchLabels => pc'[u] = pc[u]
    BY <2>1 DEF MatchLabels, StartingLabels
  <2>3. state' = IF state \in {"INIT", "STOPPING", "STOPPED"} THEN "STOPPED" ELSE state
    BY <1>10, Table DEF StopState, TransitionTo, IInv, TypeOK
  <2>4. NoCancel' BY <2>1 DEF MatchInv, NoCancel, NoCancelPosted, mq
  <2>5. LoadInv'
    BY <2>1, <2>3 DEF MatchInv, LoadInv, StateMatchesCore, CoreLoadedStates, At, core
  <2>6. DownInv'
    BY <2>1, <2>2, <2>3 DEF MatchInv, DownInv, Off, Down, Ending, Alive, At, MatchLabels
  <2>7. StartInv'
    BY <2>1, <2>2, <2>3 DEF MatchInv, StartInv, Down, Ending, StartingLabels, MatchLabels,
       At, mq
  <2>8. ClosedInv'
    BY <2>1, <2>2, <2>3 DEF MatchInv, ClosedInv, StopComing, Ending, MatchLabels, Alive,
       At, mq
  <2>. QED  BY <2>4, <2>5, <2>6, <2>7, <2>8 DEF MatchInv
<1>11. CASE ResetQueue(t)
  <2>1. /\ Others /\ pc[t] = "reset_queue" /\ pc'[t] = "reset_core"
        /\ pc'[Game] = pc[Game] /\ queue' = <<>> /\ ~closed' /\ ~stopRequested'
        /\ UNCHANGED <<state, core, msg>>
    BY <1>1, <1>4, <1>11 DEF ResetQueue
  <2>2. Held
    <3>1. Holds(t) BY <2>1 DEF Holds, LockedLabels, TearDown
    <3>. QED  BY <3>1, StarterAlone
  <2>3. ~Alive BY <2>1 DEF IInv, RunningInv, ThreadInv, TearDown
  <2>4. NoCancel' /\ LoadInv'
    BY <2>1 DEF MatchInv, NoCancel, NoCancelPosted, LoadInv, StateMatchesCore, At, core
  <2>5. DownInv'
    BY <2>1, <2>2 DEF MatchInv, DownInv, Off, Alive, At, MatchLabels
  <2>6. StartInv'
    BY <2>1, <2>2 DEF StartInv, MatchLabels, StartingLabels
  <2>7. ClosedInv'
    BY <2>1, <2>3 DEF ClosedInv, Alive, At
  <2>. QED  BY <2>4, <2>5, <2>6, <2>7 DEF MatchInv
<1>12. CASE ResetCore(t) \/ ResetState(t)
  <2>1. /\ Others /\ pc[t] \in CleanLabels \ {"start_spawn", "start_arm"}
        /\ pc'[t] \in {"reset_state", "start_arm", "reset_return"}
        /\ pc'[Game] = pc[Game] /\ UNCHANGED <<stopRequested, mq, msg>>
    BY <1>1, <1>4, <1>12 DEF ResetCore, ResetState, AfterReset, CleanLabels, flags
  <2>2. Held /\ Holds(t)
    <3>1. Holds(t) BY <2>1 DEF Holds, LockedLabels, TearDown, CleanLabels
    <3>. QED  BY <3>1, StarterAlone
  <2>3. state \in Down /\ ~Alive BY <2>1, DownWhenOff
  <2>4. state' \in Down /\ gameLoaded' = FALSE
    <3>1. CASE ResetCore(t)
      BY <2>3, <3>1, Table DEF ResetCore, AfterUnload, GameAfterUnload, IInv, CoreInv
    <3>2. CASE ResetState(t) BY <3>2 DEF ResetState, Down
    <3>. QED  BY <1>12, <3>1, <3>2
  <2>5. \A u \in Threads : pc'[u] \in MatchLabels \cup StartingLabels => u = t
    BY <2>1, <2>2
  <2>6. NoCancel' BY <2>1 DEF MatchInv, NoCancel, NoCancelPosted, mq
  <2>7. LoadInv'
    BY <2>1, <2>3, <2>4 DEF LoadInv, StateMatchesCore, CoreLoadedStates, Down, Ending,
       Alive, At
  <2>8. DownInv'
    BY <2>1, <2>3, <2>4, <2>5 DEF DownInv, Alive, At, MatchLabels
  <2>9. StartInv'
    BY <2>1, <2>5 DEF MatchInv, StartInv, StartingLabels, MatchLabels, CleanLabels, mq
  <2>10. ClosedInv'
    BY <2>1, <2>3 DEF ClosedInv, Alive, At
  <2>. QED  BY <2>6, <2>7, <2>8, <2>9, <2>10 DEF MatchInv
<1>. QED  BY <1>5, <1>6, <1>7, <1>8, <1>9, <1>10, <1>11, <1>12 DEF SharedStep

\* The game thread's messages: a step takes the first one or leaves the queue
\* alone, and nothing leads to Cancel but a Cancel.
LEMMA GameStepPops ==
  ASSUME IInv, GameStep, msg # "Cancel", ~At("cancel_done")
  PROVE  /\ \/ queue' = queue /\ msg' \in {msg, NoMsg}
            \/ queue # <<>> /\ queue' = Tail(queue) /\ msg' = Head(queue)
         /\ pc'[Game] \in GameLabels \ {"cancel_done"}
<1>a. \A l : Goto(Game, l) => pc'[Game] = l
  BY DEF Goto, IInv, TypeOK, PcType, Threads
<1>b. HandleDone => pc'[Game] \in {"drain", "top"}
  BY <1>a DEF HandleDone
<1>. USE <1>a, <1>b DEF mq, Pop, GameLabels, Handles, At
<1>1. CASE GameTop BY <1>1 DEF GameTop
<1>2. CASE GameDrain BY <1>2 DEF GameDrain
<1>3. CASE GameDrained BY <1>3 DEF GameDrained
<1>4. CASE GameFrame BY <1>4 DEF GameFrame
<1>5. CASE GameWait BY <1>5 DEF GameWait
<1>6. CASE GameExit BY <1>6 DEF GameExit
<1>7. CASE HandlePauseResume BY <1>7 DEF HandlePauseResume
<1>8. CASE HandleIgnored BY <1>8 DEF HandleIgnored
<1>9. CASE HandleStop BY <1>9 DEF HandleStop
<1>10. CASE GameStopping BY <1>10 DEF GameStopping
<1>11. CASE HandleCancel BY <1>11 DEF HandleCancel
<1>12. CASE CancelDone BY <1>12 DEF CancelDone
<1>13. CASE HandleLoadCore BY <1>13 DEF HandleLoadCore
<1>14. CASE GameLoadCore BY <1>14 DEF GameLoadCore
<1>15. CASE HandleLoadRom BY <1>15 DEF HandleLoadRom
<1>16. CASE GameLoadRom BY <1>16 DEF GameLoadRom
<1>17. CASE GameLoadRomFails BY <1>17 DEF GameLoadRomFails
<1>18. CASE GameRomReady BY <1>18 DEF GameRomReady
<1>19. CASE GameRomReadyFails BY <1>19 DEF GameRomReadyFails
<1>20. CASE GameGoesRunning BY <1>20 DEF GameGoesRunning
<1>21. CASE GameAudio BY <1>21 DEF GameAudio
<1>. QED  BY <1>1, <1>2, <1>3, <1>4, <1>5, <1>6, <1>7, <1>8, <1>9, <1>10, <1>11, <1>12,
     <1>13, <1>14, <1>15, <1>16, <1>17, <1>18, <1>19, <1>20, <1>21 DEF
     GameStep

\* What every step of the game thread leaves alone, given MatchInv.
LEMMA GameMatchMoves ==
  ASSUME IInv, MatchInv, GameStep
  PROVE  /\ Alive /\ running /\ state # "INIT"
         /\ \A u \in Threads \ {Game} : pc'[u] = pc[u]
         /\ \A u \in Threads : pc[u] \notin CleanLabels /\ pc'[u] \notin CleanLabels
         /\ ~HandleCancel /\ ~CancelDone
         /\ UNCHANGED closed
<1>1. GameMoves BY GameTypeOp DEF IInv
<1>2. Alive BY <1>1 DEF GameMoves, Alive, At
<1>3. \A u \in Threads : pc[u] \notin CleanLabels
  BY <1>2, CleanAlone DEF IInv
<1>4. \A u \in Threads \ {Game} : pc'[u] = pc[u]
  BY <1>1 DEF GameMoves, Goto, IInv, TypeOK, PcType
<1>5. pc'[Game] \in GameLabels
  BY GameStepPops DEF MatchInv, NoCancel, NoCancelPosted, At
<1>6. running /\ state # "INIT"
  BY <1>2 DEF IInv, ThreadInv, MatchInv, DownInv
<1>7. ~HandleCancel /\ ~CancelDone
  BY DEF MatchInv, NoCancel, NoCancelPosted, HandleCancel, CancelDone, Handles, At
<1>. QED
  BY <1>1, <1>2, <1>3, <1>4, <1>5, <1>6, <1>7 DEF GameMoves, CleanLabels, GameLabels,
     Threads

\* No Cancel appears.
LEMMA GameNoCancel ==
  ASSUME IInv, MatchInv, GameStep PROVE NoCancel'
<1>1. /\ \/ queue' = queue /\ msg' \in {msg, NoMsg}
         \/ queue # <<>> /\ queue' = Tail(queue) /\ msg' = Head(queue)
      /\ pc'[Game] \in GameLabels \ {"cancel_done"}
  BY GameStepPops DEF MatchInv, NoCancel, NoCancelPosted, At
<1>2. CASE queue' = queue
  BY <1>1, <1>2 DEF MatchInv, NoCancel, NoCancelPosted, NoMsg, IInv, TypeOK
<1>3. CASE queue # <<>> /\ queue' = Tail(queue) /\ msg' = Head(queue)
  <2>1. \A i \in DOMAIN queue' : i + 1 \in DOMAIN queue /\ queue'[i] = queue[i + 1]
    BY <1>3 DEF IInv, TypeOK
  <2>2. 1 \in DOMAIN queue /\ msg' = queue[1]
    BY <1>3 DEF IInv, TypeOK
  <2>. QED  BY <1>1, <2>1, <2>2 DEF MatchInv, NoCancel, NoCancelPosted
<1>. QED  BY <1>1, <1>2, <1>3

\* The state follows what is loaded through every message.
LEMMA GameLoads ==
  ASSUME IInv, MatchInv, GameStep PROVE LoadInv'
<1>a. \A l : Goto(Game, l) => pc'[Game] = l
  BY DEF Goto, IInv, TypeOK, PcType, Threads
<1>b. HandleDone => pc'[Game] \notin {"load_core", "rom_ready", "game_loaded"}
  BY <1>a DEF HandleDone
<1>c. state # "INIT" /\ ~HandleCancel /\ ~CancelDone
  BY GameMatchMoves
<1>d. state \in Ending => pc[Game] \in {"top", "exit"}
  BY GameMatchMoves DEF MatchInv, DownInv, Alive, At
<1>. USE <1>a, <1>b, AfterIn DEF LoadInv, StateMatchesCore, CoreLoadedStates, At, Handles,
     core, TransitionTo, MatchInv
<1>1. CASE GameTop BY <1>1 DEF GameTop
<1>2. CASE GameDrain BY <1>2 DEF GameDrain
<1>3. CASE GameDrained BY <1>3 DEF GameDrained
<1>4. CASE GameFrame BY <1>4 DEF GameFrame
<1>5. CASE GameWait BY <1>5 DEF GameWait
<1>6. CASE GameExit BY <1>6 DEF GameExit
<1>7. CASE HandlePauseResume BY <1>7 DEF HandlePauseResume, IInv, CoreInv
<1>8. CASE HandleIgnored BY <1>8 DEF HandleIgnored
<1>9. CASE HandleStop
  <2>1. state' = AfterUnload(state) /\ UNCHANGED coreLoaded
        /\ gameLoaded' = GameAfterUnload /\ pc'[Game] = "stopping"
    BY <1>9 DEF HandleStop
  <2>2. state' \notin {"RUNNING", "PAUSED"}
    BY <2>1, Table DEF AfterUnload, IInv, CoreInv
  <2>. QED  BY <2>1, <2>2 DEF AfterUnload
<1>10. CASE GameStopping BY <1>10 DEF GameStopping
<1>13. CASE HandleLoadCore
  <2>1. state \in {"STARTING", "ERROR"} BY <1>13, <1>c, <1>d DEF HandleLoadCore, Ending
  <2>2. state' \in {"LOADING", "ERROR"}
    <3>1. After("STARTING", "LOADING") = "LOADING" BY DEF After, ValidTransitions
    <3>. QED  BY <1>13, <2>1, <3>1, Table DEF HandleLoadCore
  <2>. QED  BY <1>13, <2>2 DEF HandleLoadCore
<1>14. CASE GameLoadCore
  <2>1. state \in {"LOADING", "ERROR"} BY <1>14 DEF GameLoadCore
  <2>2. AfterUnload(state) \in {"LOADING", "ERROR", "CORE_LOADED"}
    BY <2>1 DEF AfterUnload
  <2>3. pc'[Game] \notin {"load_core", "rom_ready", "game_loaded"}
    BY <1>14 DEF GameLoadCore
  <2>4. CASE coreLoaded' = TRUE /\ state' = After(AfterUnload(state), "CORE_LOADED")
    BY <2>2, <2>3, <2>4
  <2>5. CASE state' = After(AfterUnload(state), "ERROR")
    <3>1. After("ERROR", "ERROR") = "ERROR" BY Table DEF Down
    <3>2. state' = "ERROR" BY <2>2, <2>5, <3>1, Table
    <3>. QED  BY <2>3, <3>2
  <2>. QED  BY <1>14, <2>4, <2>5 DEF GameLoadCore
<1>15. CASE HandleLoadRom
  <2>1. UNCHANGED coreLoaded /\ pc'[Game] \notin {"load_core", "rom_ready", "game_loaded"}
    BY <1>15 DEF HandleLoadRom
  <2>2. CASE TransitionTo("ERROR") /\ UNCHANGED gameLoaded
    BY <2>1, <2>2
  <2>3. CASE UNCHANGED <<state, gameLoaded>>
    BY <2>1, <2>3
  <2>4. CASE /\ coreLoaded
             /\ state' = After(IF state = "CORE_LOADED" THEN state
                                                       ELSE AfterUnload(state),
                               "LOADING")
    <3>1. AfterUnload(state) \notin {"RUNNING", "PAUSED"}
      BY <2>4, Table DEF AfterUnload
    <3>2. state' \notin {"RUNNING", "PAUSED"} BY <2>4, <3>1
    <3>. QED  BY <2>1, <2>4, <3>2
  <2>. QED  BY <1>15, <2>2, <2>3, <2>4 DEF HandleLoadRom
<1>16. CASE GameLoadRom BY <1>16 DEF GameLoadRom, IInv, CoreInv
<1>17. CASE GameLoadRomFails BY <1>17 DEF GameLoadRomFails
<1>18. CASE GameRomReady BY <1>18 DEF GameRomReady, IInv, CoreInv
<1>19. CASE GameRomReadyFails
  <2>1. AfterUnload(state) \notin {"RUNNING", "PAUSED"}
    BY <1>19, Table DEF GameRomReadyFails, AfterUnload, IInv, CoreInv
  <2>2. state' \notin {"RUNNING", "PAUSED"} /\ UNCHANGED coreLoaded
    BY <1>19, <2>1 DEF GameRomReadyFails
  <2>3. state' \in CoreLoadedStates => coreLoaded
    BY <1>19 DEF GameRomReadyFails, AfterUnload
  <2>4. pc'[Game] \notin {"load_core", "rom_ready", "game_loaded"}
    BY <1>19 DEF GameRomReadyFails
  <2>. QED  BY <2>2, <2>3, <2>4
<1>20. CASE GameGoesRunning BY <1>20 DEF GameGoesRunning, IInv, CoreInv
<1>21. CASE GameAudio BY <1>21 DEF GameAudio
<1>. QED  BY <1>c, <1>1, <1>2, <1>3, <1>4, <1>5, <1>6, <1>7, <1>8, <1>9, <1>10, <1>13,
     <1>14, <1>15, <1>16, <1>17, <1>18, <1>19, <1>20, <1>21 DEF
     GameStep

\* The game thread ends in a state that is down.
LEMMA GameDowns ==
  ASSUME IInv, IInv', MatchInv, GameStep PROVE DownInv'
<1>a. \A l : Goto(Game, l) => pc'[Game] = l
  BY DEF Goto, IInv, TypeOK, PcType, Threads
<1>b. HandleDone => pc'[Game] \in {"drain", "top"} /\ (state' \in Ending => pc'[Game] = "top")
  BY <1>a DEF HandleDone, Ending
<1>c. /\ state # "INIT" /\ ~HandleCancel /\ ~CancelDone /\ Alive /\ running
      /\ \A u \in Threads \ {Game} : pc'[u] = pc[u]
      /\ \A u \in Threads : pc[u] # "start_spawn" /\ pc'[u] # "start_spawn"
  BY GameMatchMoves DEF CleanLabels
<1>d. state \in Ending => pc[Game] \in {"top", "exit"}
  BY <1>c DEF MatchInv, DownInv, Alive, At
<1>e. ASSUME state' # "INIT", pc'[Game] \notin {"none", "exit"},
             state' \in Ending => pc'[Game] = "top"
      PROVE  DownInv'
  BY <1>c, <1>e DEF DownInv, Off, Alive, At
<1>f. ASSUME state' \in Down \ {"INIT"}, pc'[Game] \in {"none", "exit"} PROVE DownInv'
  BY <1>c, <1>f DEF DownInv, Alive, At
<1>. USE <1>a, <1>b, <1>c, AfterIn DEF At, Handles, TransitionTo, AfterUnload
<1>1. CASE GameTop
  <2>1. CASE stopRequested \/ state \in Ending
    <3>1. state' \in Ending
      BY <1>1, <2>1, Table DEF GameTop, Ending, IInv, TypeOK
    <3>2. pc'[Game] = "exit" BY <1>1, <2>1 DEF GameTop, Ending
    <3>. QED  BY <1>f, <3>1, <3>2 DEF Down, Ending
  <2>2. CASE ~stopRequested /\ state \notin Ending
    BY <1>1, <1>e, <2>2 DEF GameTop, Ending
  <2>. QED  BY <2>1, <2>2
<1>2. CASE GameDrain BY <1>2, <1>d, <1>e DEF GameDrain, Ending
<1>3. CASE GameDrained
  <2>1. CASE Goto(Game, "exit") /\ TransitionTo("STOPPING")
    <3>1. state' \in Ending BY <2>1, Table DEF IInv, TypeOK
    <3>. QED  BY <1>f, <2>1, <3>1 DEF Down, Ending
  <2>2. CASE pc'[Game] \in {"top", "frame"} /\ UNCHANGED state
    BY <1>3, <1>d, <1>e, <2>2 DEF GameDrained
  <2>. QED  BY <1>3, <2>1, <2>2 DEF GameDrained
<1>4. CASE GameFrame BY <1>4, <1>d, <1>e DEF GameFrame, Ending
<1>5. CASE GameWait
  <2>1. UNCHANGED <<state, closed>> /\ pc[Game] = "wait" BY <1>5 DEF GameWait
  <2>2. CASE queue # <<>>
    BY <1>5, <1>d, <1>e, <2>1, <2>2 DEF GameWait
  <2>3. CASE queue = <<>>
    <3>1. closed /\ pc'[Game] = "exit" BY <1>5, <2>3 DEF GameWait
    <3>2. ~StopComing BY <1>d, <2>1, <2>3 DEF StopComing
    <3>3. PICK t \in Threads : pc[t] = "start_join"
      BY <3>1, <3>2 DEF MatchInv, ClosedInv
    <3>4. state \in Down \cup {"STARTING"} BY <3>3 DEF MatchInv, StartInv
    <3>5. pc'[t] = "start_join" BY <2>1, <3>3
    <3>. QED
      BY <1>d, <2>1, <3>1, <3>4, <3>5 DEF DownInv, Down, Alive
  <2>. QED  BY <2>2, <2>3
<1>6. CASE GameExit
  <2>1. UNCHANGED state /\ pc'[Game] = "none" /\ pc[Game] = "exit"
    BY <1>6 DEF GameExit
  <2>2. \/ state \in Down
        \/ state = "STARTING" /\ \E t \in Threads : pc[t] = "start_join"
    BY <2>1 DEF MatchInv, DownInv, Off
  <2>3. \A t \in Threads : pc[t] = "start_join" => pc'[t] = "start_join"
    BY <2>1
  <2>. QED  BY <2>1, <2>2, <2>3 DEF DownInv, Down, Ending, Alive
<1>7. CASE HandlePauseResume
  <2>1. state' \in {state, "PAUSED", "RUNNING"} /\ pc'[Game] \in {"audio_pause", "audio_start"}
    BY <1>7 DEF HandlePauseResume
  <2>2. pc[Game] = "handle" BY <1>7 DEF HandlePauseResume
  <2>. QED  BY <1>d, <1>e, <2>1, <2>2 DEF Ending
<1>8. CASE HandleIgnored BY <1>8, <1>d, <1>e DEF HandleIgnored, Ending
<1>9. CASE HandleStop BY <1>9, <1>d, <1>e DEF HandleStop, Ending
<1>10. CASE GameStopping BY <1>10, <1>d, <1>e DEF GameStopping, Ending
<1>13. CASE HandleLoadCore BY <1>13, <1>d, <1>e DEF HandleLoadCore, Ending
<1>14. CASE GameLoadCore BY <1>14, <1>d, <1>e DEF GameLoadCore, Ending
<1>15. CASE HandleLoadRom BY <1>15, <1>d, <1>e DEF HandleLoadRom, Ending
<1>16. CASE GameLoadRom BY <1>16, <1>d, <1>e DEF GameLoadRom, Ending
<1>17. CASE GameLoadRomFails BY <1>17, <1>d, <1>e DEF GameLoadRomFails, Ending
<1>18. CASE GameRomReady BY <1>18, <1>d, <1>e DEF GameRomReady, Ending
<1>19. CASE GameRomReadyFails BY <1>19, <1>d, <1>e DEF GameRomReadyFails, Ending
<1>20. CASE GameGoesRunning BY <1>20, <1>d, <1>e DEF GameGoesRunning, Ending
<1>21. CASE GameAudio BY <1>21, <1>d, <1>e DEF GameAudio, Ending
<1>. QED  BY <1>c, <1>1, <1>2, <1>3, <1>4, <1>5, <1>6, <1>7, <1>8, <1>9, <1>10, <1>13,
     <1>14, <1>15, <1>16, <1>17, <1>18, <1>19, <1>20, <1>21 DEF
     GameStep

\* A thread that is being started finds nothing to do and comes to its end.
LEMMA GameIdles ==
  ASSUME IInv, MatchInv, GameStep PROVE StartInv'
<1>c. /\ ~HandleCancel /\ ~CancelDone /\ UNCHANGED closed
      /\ \A u \in Threads \ {Game} : pc'[u] = pc[u]
      /\ pc'[Game] \in GameLabels
  BY GameMatchMoves, GameStepPops DEF MatchInv, NoCancel, NoCancelPosted, At
<1>d. \A u \in Threads : pc'[u] \in {"reset_core", "reset_state", "start_arm"} \cup
        StartingLabels => pc[u] = pc'[u]
  BY <1>c DEF GameLabels, StartingLabels, Threads
<1>e. \A i \in DOMAIN queue' : \E j \in DOMAIN queue : queue'[i] = queue[j]
  <2>1. queue' = queue \/ (queue # <<>> /\ queue' = Tail(queue))
    BY GameStepPops DEF MatchInv, NoCancel, NoCancelPosted, At
  <2>2. CASE queue' = queue BY <2>2
  <2>3. CASE queue # <<>> /\ queue' = Tail(queue)
    <3>1. \A i \in DOMAIN queue' : i + 1 \in DOMAIN queue /\ queue'[i] = queue[i + 1]
      BY <2>3 DEF IInv, TypeOK
    <3>. QED  BY <3>1
  <2>. QED  BY <2>1, <2>2, <2>3
<1>1. ASSUME NEW t \in Threads, pc[t] \in {"start_render", "start_join"}
      PROVE  /\ state' \in Down \cup {"STARTING"}
             /\ pc'[Game] \in Idling
             /\ pc'[Game] = "handle" => msg' \notin {"Stop", "LoadCore"}
             /\ stopRequested' => stopRequested
  <2>1. /\ state \in Down \cup {"STARTING"}
        /\ pc[Game] \in Idling
        /\ At("handle") => msg \notin {"Stop", "LoadCore"}
        /\ \A i \in DOMAIN queue : queue[i] \notin {"Stop", "LoadCore"}
    BY <1>1 DEF MatchInv, StartInv, StartingLabels
  <2>2. At("handle") => msg # "Cancel" BY DEF MatchInv, NoCancel, NoCancelPosted
  <2>3. \A l : Goto(Game, l) => pc'[Game] = l
    BY DEF Goto, IInv, TypeOK, PcType, Threads
  <2>4. state \notin {"RUNNING", "PAUSED"} \cup CoreLoadedStates
    BY <2>1 DEF Down, Ending, CoreLoadedStates
  <2>5. CASE GameTop
    <3>1. UNCHANGED stopRequested /\ pc'[Game] \in {"exit", "wait"}
      BY <2>3, <2>4, <2>5 DEF GameTop, flags
    <3>2. state' \in {state, "STOPPING"} BY <2>5, AfterIn DEF GameTop, TransitionTo
    <3>. QED  BY <2>1, <3>1, <3>2 DEF Idling, Down, Ending
  <2>6. CASE GameWait
    <3>1. UNCHANGED <<state, stopRequested>> BY <2>6 DEF GameWait, flags
    <3>2. CASE queue # <<>>
      <4>1. 1 \in DOMAIN queue /\ msg' = queue[1] /\ pc'[Game] = "handle"
        BY <2>3, <2>6, <3>2 DEF GameWait, Pop, IInv, TypeOK
      <4>. QED  BY <2>1, <3>1, <4>1 DEF Idling
    <3>3. CASE queue = <<>>
      BY <2>1, <2>3, <2>6, <3>1, <3>3 DEF GameWait, Idling
    <3>. QED  BY <3>2, <3>3
  <2>7. CASE GameExit
    BY <2>1, <2>3, <2>7 DEF GameExit, Idling
  <2>8. CASE HandleIgnored
    <3>1. UNCHANGED <<state, stopRequested>> /\ pc'[Game] = "top"
      BY <2>3, <2>4, <2>8 DEF HandleIgnored, HandleDone, flags
    <3>. QED  BY <2>1, <3>1 DEF Idling
  <2>9. ~GameDrain /\ ~GameDrained /\ ~GameFrame /\ ~GameStopping /\ ~GameLoadCore
        /\ ~GameLoadRom /\ ~GameLoadRomFails /\ ~GameRomReady /\ ~GameRomReadyFails
        /\ ~GameGoesRunning /\ ~GameAudio
    BY <2>1 DEF GameDrain, GameDrained, GameFrame, GameStopping, GameLoadCore,
       GameLoadRom, GameLoadRomFails, GameRomReady, GameRomReadyFails, GameGoesRunning,
       GameAudio, Idling, At
  <2>10. ~HandlePauseResume /\ ~HandleStop /\ ~HandleLoadCore /\ ~HandleLoadRom
    BY <2>1, <2>4 DEF HandlePauseResume, HandleStop, HandleLoadCore, HandleLoadRom,
       Handles, At
  <2>. QED  BY <1>c, <2>5, <2>6, <2>7, <2>8, <2>9, <2>10 DEF GameStep
<1>2. \A t \in Threads : pc[t] # "start_spawn"
  BY GameMatchMoves DEF CleanLabels
<1>. QED  BY <1>c, <1>d, <1>e, <1>1, <1>2 DEF MatchInv, StartInv, StartingLabels, At

\* A Stop on its way arrives.
LEMMA GameStops ==
  ASSUME IInv, MatchInv, GameStep PROVE ClosedInv'
<1>a. \A l : Goto(Game, l) => pc'[Game] = l
  BY DEF Goto, IInv, TypeOK, PcType, Threads
<1>c. /\ ~HandleCancel /\ ~CancelDone /\ UNCHANGED closed /\ Alive
      /\ \A u \in Threads \ {Game} : pc'[u] = pc[u]
      /\ pc'[Game] \in GameLabels
  BY GameMatchMoves, GameStepPops DEF MatchInv, NoCancel, NoCancelPosted, At
<1>d. \A u \in Threads : pc'[u] = "stop_close" => pc[u] = "stop_close"
  BY <1>c DEF GameLabels
<1>e. \A u \in Threads : pc[u] = "start_join" => pc'[u] = "start_join"
  <2>1. pc[Game] \in GameLabels BY DEF MatchInv, NoCancel, NoCancelPosted
  <2>. QED  BY <1>c, <2>1 DEF GameLabels
<1>f. ASSUME StopComing PROVE StopComing'
  <2>1. CASE state \in Ending
    <3>1. pc[Game] \in {"top", "exit"}
      BY <1>c, <2>1 DEF MatchInv, DownInv, Alive, At
    <3>2. GameTop \/ GameExit
      BY <3>1 DEF GameStep, GameTop, GameDrain, GameDrained, GameFrame, GameWait,
         GameExit, HandlePauseResume, HandleIgnored, HandleStop, GameStopping,
         HandleCancel, CancelDone, HandleLoadCore, GameLoadCore, HandleLoadRom,
         GameLoadRom, GameLoadRomFails, GameRomReady, GameRomReadyFails,
         GameGoesRunning, GameAudio, Handles, At
    <3>3. state' \in {state, "STOPPING"}
      BY <3>2, AfterIn DEF GameTop, GameExit, TransitionTo
    <3>. QED  BY <2>1, <3>3 DEF StopComing, Ending
  <2>2. CASE At("stopping")
    <3>1. GameStopping
      BY <2>2 DEF GameStep, GameTop, GameDrain, GameDrained, GameFrame, GameWait,
         GameExit, HandlePauseResume, HandleIgnored, HandleStop, GameStopping,
         HandleCancel, CancelDone, HandleLoadCore, GameLoadCore, HandleLoadRom,
         GameLoadRom, GameLoadRomFails, GameRomReady, GameRomReadyFails,
         GameGoesRunning, GameAudio, Handles, At
    <3>2. state' \in Ending
      BY <3>1, Table DEF GameStopping, TransitionTo, IInv, TypeOK
    <3>. QED  BY <3>2 DEF StopComing
  <2>3. CASE At("handle") /\ msg = "Stop"
    <3>1. HandleStop
      <4>1. ~HandleIgnored BY <2>3 DEF HandleIgnored, IInv, TypeOK
      <4>. QED
        BY <2>3, <4>1 DEF GameStep, GameTop, GameDrain, GameDrained, GameFrame, GameWait,
           GameExit, HandlePauseResume, HandleStop, GameStopping, HandleCancel,
           CancelDone, HandleLoadCore, GameLoadCore, HandleLoadRom, GameLoadRom,
           GameLoadRomFails, GameRomReady, GameRomReadyFails, GameGoesRunning,
           GameAudio, Handles, At
    <3>2. pc'[Game] = "stopping" BY <1>a, <3>1 DEF HandleStop
    <3>. QED  BY <3>2 DEF StopComing, At
  <2>4. CASE \E i \in DOMAIN queue : queue[i] = "Stop"
    <3>1. \/ queue' = queue
          \/ /\ queue # <<>> /\ queue' = Tail(queue) /\ msg' = Head(queue)
             /\ pc'[Game] = "handle"
      <4>1. ASSUME GameWait \/ GameDrain PROVE \/ queue' = queue
                                               \/ Pop /\ queue # <<>> /\ pc'[Game] = "handle"
        BY <1>a, <4>1 DEF GameWait, GameDrain
      <4>2. ASSUME ~GameWait, ~GameDrain PROVE queue' = queue
        BY <1>c, <4>2 DEF GameStep, GameTop, GameDrained, GameFrame, GameExit,
           HandlePauseResume, HandleIgnored, HandleStop, GameStopping, HandleLoadCore,
           GameLoadCore, HandleLoadRom, GameLoadRom, GameLoadRomFails, GameRomReady,
           GameRomReadyFails, GameGoesRunning, GameAudio, mq
      <4>. QED  BY <4>1, <4>2 DEF Pop
    <3>2. PICK i \in DOMAIN queue : queue[i] = "Stop" BY <2>4
    <3>3. CASE queue' = queue BY <3>2, <3>3 DEF StopComing
    <3>4. CASE queue' # queue /\ i = 1
      <4>1. msg' = "Stop" BY <3>1, <3>2, <3>4 DEF IInv, TypeOK
      <4>. QED  BY <3>1, <3>4, <4>1 DEF StopComing, At
    <3>5. CASE queue' # queue /\ i # 1
      <4>1. i - 1 \in DOMAIN queue' /\ queue'[i - 1] = queue[i]
        BY <3>1, <3>2, <3>5 DEF IInv, TypeOK
      <4>. QED  BY <3>2, <4>1 DEF StopComing
    <3>. QED  BY <3>3, <3>4, <3>5
  <2>. QED  BY <1>f, <2>1, <2>2, <2>3, <2>4 DEF StopComing
<1>. QED  BY <1>c, <1>d, <1>e, <1>f DEF MatchInv, ClosedInv

\* MatchInv holds initially, and every step keeps it that posts no Cancel.
LEMMA InitMatch == Init => MatchInv
<1>. SUFFICES ASSUME Init PROVE MatchInv OBVIOUS
<1>1. pc[Game] = "none" /\ \A t \in Threads : pc[t] \in {"none", "idle"}
  BY DEF Init, Threads
<1>. QED
  BY <1>1 DEF Init, MatchInv, NoCancel, NoCancelPosted, LoadInv, StateMatchesCore,
     CoreLoadedStates, DownInv, StartInv, StartingLabels, ClosedInv, Ending, Down, Off,
     Alive, At, GameLabels, NoMsg

\* Every step but the post of a Cancel preserves MatchInv.
LEMMA StepMatch ==
  IInv /\ IInv' /\ MatchInv /\ NoCancelPosted' /\ [Next]_vars => MatchInv'
<1>. SUFFICES ASSUME IInv, IInv', MatchInv, NoCancelPosted', [Next]_vars
              PROVE  MatchInv'
  OBVIOUS
<1>1. CASE UNCHANGED vars
  BY <1>1 DEF vars, flags, mq, core, MatchInv, NoCancel, NoCancelPosted, LoadInv,
     StateMatchesCore, DownInv, StartInv, ClosedInv, StopComing, Off, Alive, At
<1>2. CASE GameStep
  BY <1>2, GameNoCancel, GameLoads, GameDowns, GameIdles, GameStops DEF MatchInv
<1>. QED  BY <1>1, <1>2, BeginsMatch, CallerMatch, SharedMatch DEF Next

\* As long as nobody cancels, the state the callers poll agrees with what is
\* loaded, whatever is started, stopped, reset, loaded, paused or fails, in
\* whatever order.
THEOREM StateFollowsCore == Spec /\ []NoCancelPosted => []StateMatchesCore
<1>1. MatchInv => StateMatchesCore
  BY DEF MatchInv, LoadInv
<1>. QED  BY <1>1, InitMatch, StepMatch, Invariance, PTL DEF Spec

-----------------------------------------------------------------------------
\* Who cancels: only a post does, no operation that goes on.

\* A step inside the engine: an operation goes on, or the game thread does.
Inside == \/ \E t \in Callers : CallerStep(t)
          \/ \E t \in Threads : SharedStep(t)
          \/ GameStep

\* Inside an operation no Cancel is posted.
LEMMA InsideQueue ==
  ASSUME IInv, Inside, NoCancelPosted PROVE NoCancelPosted'
<1>0. queue \in Seq(Messages) BY DEF IInv, TypeOK
<1>1. ASSUME \/ UNCHANGED queue \/ queue' = <<>> \/ Push("LoadCore") \/ Push("Stop")
             \/ queue # <<>> /\ queue' = Tail(queue)
      PROVE  NoCancelPosted'
  <2>1. CASE queue' = <<>> BY <2>1 DEF NoCancelPosted
  <2>2. ASSUME NEW m \in {"LoadCore", "Stop"}, Push(m) PROVE NoCancelPosted'
    <3>1. \A i \in DOMAIN queue' : queue'[i] = m \/ (i \in DOMAIN queue /\ queue'[i] = queue[i])
      BY <1>0, <2>2 DEF Push, Messages
    <3>. QED  BY <3>1 DEF NoCancelPosted
  <2>3. CASE queue # <<>> /\ queue' = Tail(queue)
    <3>1. \A i \in DOMAIN queue' : i + 1 \in DOMAIN queue /\ queue'[i] = queue[i + 1]
      BY <1>0, <2>3
    <3>. QED  BY <3>1 DEF NoCancelPosted
  <2>. QED  BY <1>1, <2>1, <2>2, <2>3 DEF NoCancelPosted
<1>. USE DEF mq
<1>2. ASSUME NEW t \in Callers, CallerStep(t) PROVE UNCHANGED queue \/ Push("LoadCore")
  BY <1>2 DEF CallerStep, LoadCoreLock, LoadCorePush, StartLock, StartCheck, StartArm,
     StartSpawn, StartSpawnFails, StartRender, StartRenderFails, StartJoin
<1>3. ASSUME NEW t \in Threads, SharedStep(t)
      PROVE  UNCHANGED queue \/ Push("Stop") \/ queue' = <<>>
  BY <1>3 DEF SharedStep, StopLock, StopRequest, StopClose, StopExited, StopTimeout,
     StopJoin, StopClear, StopState, StopFlags, ResetLock, ResetCheck, ResetQueue,
     ResetCore, ResetState, ResetReturn
<1>4. ASSUME GameStep PROVE UNCHANGED queue \/ (queue # <<>> /\ queue' = Tail(queue))
  BY <1>4, GameStepData DEF IInv, GameData
<1>. QED  BY <1>1, <1>2, <1>3, <1>4 DEF Inside

\* Callers that are not given Cancel never post one.
THEOREM NobodyCancels == ASSUME "Cancel" \notin Ops PROVE Spec => []NoCancelPosted
<1>1. Init => NoCancelPosted BY DEF Init, NoCancelPosted
<1>2. IInv /\ NoCancelPosted /\ [Next]_vars => NoCancelPosted'
  <2>. SUFFICES ASSUME IInv, NoCancelPosted, [Next]_vars PROVE NoCancelPosted' OBVIOUS
  <2>1. CASE UNCHANGED vars BY <2>1 DEF vars, mq, NoCancelPosted
  <2>2. CASE Inside BY <2>2, InsideQueue
  <2>3. CASE CallerBegins
    <3>1. UNCHANGED queue \/ \E m \in Posts \ {"Cancel"} : Push(m)
      BY <2>3 DEF CallerBegins, Call, Post, LoadGame, Posts, mq
    <3>2. ASSUME NEW m \in Posts \ {"Cancel"}, Push(m) PROVE NoCancelPosted'
      <4>1. \A i \in DOMAIN queue' : \/ queue'[i] = m
                                     \/ i \in DOMAIN queue /\ queue'[i] = queue[i]
        BY <3>2 DEF Push, Posts, Messages, IInv, TypeOK
      <4>. QED  BY <3>2, <4>1 DEF NoCancelPosted
    <3>. QED  BY <3>1, <3>2 DEF NoCancelPosted
  <2>. QED  BY <2>1, <2>2, <2>3 DEF Next, Inside
<1>. QED  BY <1>1, <1>2, Invariance, PTL DEF Spec

-----------------------------------------------------------------------------
\* The refinement of CoreProtocol.

\* The owner of the core, read off the program counters.
LEMMA OwnerIs ==
  ASSUME IInv
  PROVE  /\ Alive => Owner = Game
         /\ \A t \in Callers : pc[t] \in TearDown => Owner = t
         /\ ~Alive /\ (\A t \in Callers : pc[t] \notin TearDown) => Owner = Free
<1>1. \A t, u \in Callers : pc[t] \in TearDown /\ pc[u] \in TearDown => t = u
  BY DEF IInv, MutexInv, Holds, LockedLabels, Threads
<1>2. \A t \in Callers : pc[t] \in TearDown => ~Alive
  BY DEF IInv, RunningInv, ThreadInv, Threads
<1>. QED  BY <1>1, <1>2 DEF Owner

\* The same of the next state.
LEMMA OwnerIsNext ==
  ASSUME IInv'
  PROVE  /\ Alive' => Owner' = Game
         /\ \A t \in Callers : pc'[t] \in TearDown => Owner' = t
         /\ ~Alive' /\ (\A t \in Callers : pc'[t] \notin TearDown) => Owner' = Free
<1>1. \A t, u \in Callers : pc'[t] \in TearDown /\ pc'[u] \in TearDown => t = u
  BY DEF IInv, MutexInv, Holds, LockedLabels, Threads
<1>2. \A t \in Callers : pc'[t] \in TearDown => ~Alive'
  BY DEF IInv, RunningInv, ThreadInv, Threads
<1>. QED  BY <1>1, <1>2 DEF Owner

\* Nobody enters or leaves the tear-down, and the game thread stays or stays away.
OwnerQuiet == /\ \A u \in Callers : pc'[u] \in TearDown <=> pc[u] \in TearDown
              /\ Alive' <=> Alive

\* A quiet step keeps the owner.
LEMMA OwnerKept ==
  ASSUME IInv, IInv', OwnerQuiet PROVE Owner' = Owner
  BY OwnerIs, OwnerIsNext DEF OwnerQuiet

\* What is loaded depends on the core alone.
LEMMA LoadedKept == UNCHANGED core => Loaded' = Loaded
  BY DEF core, Loaded

\* A step of the protocol, or none.
Step == [Protocol!Next]_(Protocol!pvars)

\* A quiet step stutters in the protocol.
LEMMA QuietStep ==
  ASSUME IInv, IInv', OwnerQuiet, UNCHANGED core PROVE Step
  BY OwnerKept, LoadedKept DEF Step, Protocol!pvars

\* The initial states map to the initial state of the protocol.
LEMMA InitProtocol == Init => Protocol!Init
  BY GameNotCaller DEF Init, Protocol!Init, Owner, Loaded, Alive, At, TearDown, Threads

\* A call that begins stutters.
LEMMA BeginsStep ==
  ASSUME IInv, IInv', CallerBegins PROVE Step
<1>1. PICK t \in Callers : (\E o \in AllOps : Call(t, o) \/ Post(t, o)) \/ LoadGame(t)
  BY DEF CallerBegins
<1>2. \A u \in Threads : pc'[u] # pc[u] =>
        u = t /\ pc[u] = "idle" /\ pc'[u] \in {"start_lock", "stop_lock", "reset_lock",
             "load_lock"}
  <2>1. ASSUME NEW l, Goto(t, l) PROVE \A u \in Threads : pc'[u] # pc[u] => u = t /\
       pc'[u] = l
    BY <2>1 DEF Goto, IInv, TypeOK, PcType
  <2>. QED  BY <1>1, <2>1 DEF Call, Post, LoadGame, AllOps, Posts, Idle
<1>3. OwnerQuiet
  BY <1>1, <1>2, GameNotCaller DEF OwnerQuiet, TearDown, Alive, At, Threads
<1>4. UNCHANGED core BY <1>1 DEF Call, Post, LoadGame
<1>. QED  BY <1>3, <1>4, QuietStep

\* Start spawns the owner; the rest of Start and LoadCore stutters.
LEMMA CallerProtocol ==
  ASSUME IInv, IInv', NEW t \in Callers, CallerStep(t) PROVE Step
<1>0. t \in Threads /\ t # Game /\ Game \in Threads
  BY GameNotCaller DEF Threads
<1>1. CASE StartSpawn(t)
  <2>1. Owner = Free
    BY <1>0, <1>1, CleanAlone, OwnerIs DEF StartSpawn, CleanLabels, TearDown, IInv,
         Holds, LockedLabels, Threads
  <2>2. Owner' = Game
    BY <1>0, <1>1, OwnerIsNext DEF StartSpawn, Alive, At, IInv, TypeOK, PcType
  <2>3. Loaded = "none" /\ Loaded' = Loaded
    BY <1>0, <1>1, LoadedKept DEF StartSpawn, IInv, CleanInv, Loaded
  <2>. QED  BY <2>1, <2>2, <2>3 DEF Step, Protocol!Next, Protocol!Spawn
<1>2. CASE ~StartSpawn(t)
  <2>1. /\ pc[t] \notin TearDown /\ pc'[t] \notin TearDown
        /\ \A u \in Threads \ {t} : pc'[u] = pc[u]
    <3>1. \A l : Goto(t, l) => pc'[t] = l /\ \A u \in Threads \ {t} : pc'[u] = pc[u]
      BY <1>0 DEF Goto, IInv, TypeOK, PcType
    <3>2. Return(t) => pc'[t] = "idle" /\ \A u \in Threads \ {t} : pc'[u] = pc[u]
      BY <1>0 DEF Return, IInv, TypeOK, PcType
    <3>3. StartReturns(t, TRUE) \/ StartReturns(t, FALSE) =>
            pc'[t] \in {"idle", "load_push"} /\ \A u \in Threads \ {t} : pc'[u] = pc[u]
      BY <3>1, <3>2 DEF StartReturns
    <3>. USE <3>1, <3>2, <3>3 DEF Acquire, TearDown
    <3>4. CASE LoadCoreLock(t) BY <3>4 DEF LoadCoreLock
    <3>5. CASE LoadCorePush(t) BY <3>5 DEF LoadCorePush
    <3>6. CASE StartLock(t) BY <3>6 DEF StartLock
    <3>7. CASE StartCheck(t)
      <4>1. CASE StartReturns(t, TRUE) \/ StartReturns(t, FALSE)
        BY <3>3, <3>7, <4>1 DEF StartCheck
      <4>2. CASE Goto(t, "reset_check")
        BY <3>7, <4>2 DEF StartCheck
      <4>. QED  BY <3>7, <4>1, <4>2 DEF StartCheck
    <3>8. CASE StartArm(t) BY <3>8 DEF StartArm
    <3>9. CASE StartSpawnFails(t) BY <3>9 DEF StartSpawnFails
    <3>10. CASE StartRender(t) BY <3>10 DEF StartRender
    <3>11. CASE StartRenderFails(t) BY <3>11 DEF StartRenderFails
    <3>12. CASE StartJoin(t) BY <3>12 DEF StartJoin
    <3>. QED  BY <1>2, <3>4, <3>5, <3>6, <3>7, <3>8, <3>9, <3>10, <3>11, <3>12 DEF
         CallerStep
  <2>2. UNCHANGED core
    BY <1>2 DEF CallerStep, LoadCoreLock, LoadCorePush, StartLock, StartCheck, StartArm,
       StartSpawnFails, StartRender, StartRenderFails, StartJoin
  <2>3. OwnerQuiet
    BY <1>0, <2>1 DEF OwnerQuiet, Alive, At, Threads
  <2>. QED  BY <2>2, <2>3, QuietStep
<1>. QED  BY <1>1, <1>2

\* A thread that holds the mutex is the only one near the tear-down.
LEMMA HolderAlone ==
  ASSUME IInv, NEW t \in Threads, Holds(t)
  PROVE  \A u \in Threads \ {t} : pc[u] \notin TearDown
  BY DEF IInv, MutexInv, Holds, LockedLabels

\* Entering the tear-down takes ownership.
LEMMA EntersTearDown ==
  ASSUME IInv, IInv', NEW t \in Threads, Holds(t), pc[t] \notin TearDown, pc'[t] \in
       TearDown,
         \A u \in Threads \ {t} : pc'[u] = pc[u], UNCHANGED core
  PROVE  Step
<1>1. ~Alive' /\ t # Game
  BY DEF IInv, RunningInv, ThreadInv, TearDown, Alive, At
<1>2. t \in Callers /\ Game \in Threads /\ ~Alive BY <1>1 DEF Threads, Alive, At
<1>3. Owner = Free BY <1>2, HolderAlone, OwnerIs DEF Threads
<1>4. Owner' = t BY <1>2, OwnerIsNext
<1>. QED  BY <1>2, <1>3, <1>4, LoadedKept DEF Step, Protocol!Next, Protocol!TearDownBegins

\* Reset takes the core, unloads it and gives it up; Stop stutters.
LEMMA SharedProtocol ==
  ASSUME IInv, IInv', NEW t \in Threads, SharedStep(t) PROVE Step
<1>. DEFINE Others == \A u \in Threads \ {t} : pc'[u] = pc[u]
            Outside == /\ pc[t] \notin TearDown /\ Others /\ UNCHANGED core
                       /\ pc[Game] # "none" <=> pc'[Game] # "none"
<1>a. \A l : Goto(t, l) => pc'[t] = l /\ Others
  BY DEF Goto, IInv, TypeOK, PcType
<1>b. ASSUME Outside, pc'[t] \notin TearDown PROVE Step
  <2>1. OwnerQuiet BY <1>b DEF OwnerQuiet, Alive, At, Threads
  <2>. QED  BY <1>b, <2>1, QuietStep
<1>c. ASSUME pc[t] \in StopLabels, NEW ok \in BOOLEAN, StopReturns(t, ok), UNCHANGED
     core PROVE Step
  <2>1. Outside /\ (op[t] = "Stop" => pc'[t] = "idle")
    BY <1>c, StopReturnsMoves DEF IInv, StopLabels, TearDown
  <2>2. op[t] # "Stop" => Holds(t) BY <1>c DEF Holds
  <2>3. CASE pc'[t] \in TearDown
    BY <2>1, <2>2, <2>3, EntersTearDown DEF TearDown
  <2>. QED  BY <1>b, <2>1, <2>3
<1>d. ASSUME pc[t] \in TearDown
      PROVE  t \in Callers /\ Owner = t /\ ~Alive /\ (\A u \in Threads \ {t} : pc[u]
           \notin TearDown)
  <2>1. Holds(t) BY <1>d DEF Holds, LockedLabels
  <2>2. ~Alive /\ t # Game
    BY <1>d DEF IInv, RunningInv, ThreadInv, TearDown, Alive, At
  <2>. QED  BY <1>d, <2>1, <2>2, HolderAlone, OwnerIs DEF Threads
<1>. HIDE DEF Outside, Others
<1>1. CASE StopLock(t)
  <2>1. Outside /\ pc'[t] \notin TearDown
    BY <1>1, <1>a DEF StopLock, Acquire, TearDown, Outside, Others, Threads
  <2>. QED  BY <1>b, <2>1
<1>2. CASE StopRequest(t)
  <2>1. CASE \E ok \in BOOLEAN : StopReturns(t, ok)
    BY <1>2, <1>c, <2>1 DEF StopRequest, StopLabels
  <2>2. CASE Goto(t, "stop_close")
    <3>1. Outside /\ pc'[t] \notin TearDown
      BY <1>2, <1>a, <2>2 DEF StopRequest, TearDown, Outside, Others, Threads
    <3>. QED  BY <1>b, <3>1
  <2>. QED  BY <1>2, <2>1, <2>2 DEF StopRequest
<1>3. CASE StopClose(t)
  <2>1. Outside /\ pc'[t] \notin TearDown
    BY <1>3, <1>a DEF StopClose, TearDown, Outside, Others, Threads
  <2>. QED  BY <1>b, <2>1
<1>4. CASE StopExited(t)
  <2>1. Outside /\ pc'[t] \notin TearDown
    BY <1>4, <1>a DEF StopExited, TearDown, Outside, Others, Threads
  <2>. QED  BY <1>b, <2>1
<1>5. CASE StopTimeout(t) BY <1>5, <1>c DEF StopTimeout, StopLabels
<1>6. CASE StopJoin(t)
  <2>1. Outside /\ pc'[t] \notin TearDown
    BY <1>6, <1>a DEF StopJoin, TearDown, Outside, Others, Threads
  <2>. QED  BY <1>b, <2>1
<1>7. CASE StopClear(t)
  <2>1. Outside /\ pc'[t] \notin TearDown
    BY <1>7, <1>a DEF StopClear, TearDown, Outside, Others, Threads
  <2>. QED  BY <1>b, <2>1
<1>8. CASE StopState(t)
  <2>1. Outside /\ pc'[t] \notin TearDown
    BY <1>8, <1>a DEF StopState, TearDown, Outside, Others, Threads
  <2>. QED  BY <1>b, <2>1
<1>9. CASE StopFlags(t) BY <1>9, <1>c DEF StopFlags, StopLabels
<1>10. CASE ResetLock(t)
  <2>1. Outside /\ pc'[t] \notin TearDown
    BY <1>10, <1>a DEF ResetLock, Acquire, TearDown, Outside, Others, Threads
  <2>. QED  BY <1>b, <2>1
<1>11. CASE ResetCheck(t)
  <2>1. Holds(t) /\ Outside
    BY <1>11, <1>a DEF ResetCheck, Holds, LockedLabels, TearDown, Outside, Others, Threads
  <2>. QED  BY <1>b, <2>1, EntersTearDown DEF Outside, Others
<1>12. CASE ResetQueue(t)
  <2>1. pc[t] \in TearDown /\ pc'[t] \in TearDown /\ Others /\ UNCHANGED core
    BY <1>12, <1>a DEF ResetQueue, TearDown
  <2>2. OwnerQuiet BY <1>d, <2>1, GameNotCaller DEF OwnerQuiet, Alive, At, Threads, Others
  <2>. QED  BY <2>1, <2>2, QuietStep
<1>13. CASE ResetCore(t)
  <2>1. pc[t] \in TearDown /\ pc'[t] \in TearDown
    BY <1>13, <1>a DEF ResetCore, TearDown
  <2>2. t \in Callers /\ Owner = t BY <1>d, <2>1
  <2>3. Owner' = t BY <2>1, <2>2, OwnerIsNext
  <2>4. Loaded' = "none" BY <1>13 DEF ResetCore, GameAfterUnload, Loaded, IInv, CoreInv
  <2>. QED  BY <2>2, <2>3, <2>4 DEF Step, Protocol!Next, Protocol!TearDownUnloads
<1>14. CASE ResetState(t)
  <2>1. pc[t] \in TearDown /\ pc'[t] \notin TearDown /\ Others
    BY <1>14, <1>a DEF ResetState, AfterReset, TearDown
  <2>2. t \in Callers /\ Owner = t /\ ~Alive BY <1>d, <2>1
  <2>3. ~Alive' BY <2>1, <2>2, GameNotCaller DEF Others, Alive, At, Threads
  <2>4. Owner' = Free BY <1>d, <2>1, <2>2, <2>3, OwnerIsNext DEF Others, Threads
  <2>5. Loaded = "none" /\ Loaded' = "none"
    BY <1>14 DEF ResetState, Loaded, IInv, CleanInv
  <2>. QED  BY <2>2, <2>4, <2>5 DEF Step, Protocol!Next, Protocol!TearDownEnds
<1>15. CASE ResetReturn(t)
  <2>1. Outside /\ pc'[t] \notin TearDown
    BY <1>15, GameNotCaller DEF ResetReturn, Return, Goto, IInv, TypeOK, PcType,
         Outside, Others, TearDown, Threads
  <2>. QED  BY <1>b, <2>1
<1>. QED  BY <1>1, <1>2, <1>3, <1>4, <1>5, <1>6, <1>7, <1>8, <1>9, <1>10, <1>11, <1>12,
     <1>13, <1>14, <1>15 DEF SharedStep

\* The game thread calls the core while it owns it, and in order.
LEMMA GameProtocol ==
  ASSUME IInv, IInv', GameStep PROVE Step
<1>1. GameMoves BY GameTypeOp DEF IInv
<1>2. Alive /\ Owner = Game
  BY <1>1, OwnerIs DEF GameMoves, Alive, At
<1>3. \A t \in Callers : pc[t] \notin TearDown /\ pc'[t] = pc[t]
  <2>1. \A t \in Callers : pc[t] \notin TearDown
    BY <1>2 DEF IInv, RunningInv, ThreadInv, Threads
  <2>. QED  BY <1>1, <2>1, GameNotCaller DEF GameMoves, Goto, IInv, TypeOK, PcType,
       Threads
<1>4. ASSUME Alive', ~gameLoaded' PROVE Step
  <2>1. Owner' = Game BY <1>4, OwnerIsNext
  <2>. QED  BY <1>2, <1>4, <2>1 DEF Step, Protocol!Next, Protocol!LeavesCore, Loaded
<1>5. ASSUME Alive', UNCHANGED core PROVE Step
  <2>1. OwnerQuiet BY <1>2, <1>3, <1>5 DEF OwnerQuiet
  <2>. QED  BY <1>5, <2>1, QuietStep
<1>6. CASE GameExit
  <2>1. ~Alive' BY <1>6 DEF GameExit, Goto, Alive, At, IInv, TypeOK, PcType, Threads
  <2>2. Owner' = Free BY <1>3, <2>1, OwnerIsNext
  <2>3. Loaded' = Loaded BY <1>6, LoadedKept DEF GameExit
  <2>. QED  BY <1>2, <2>2, <2>3 DEF Step, Protocol!Next, Protocol!Exit
<1>7. CASE GameLoadRom
  <2>1. Alive' BY <1>7 DEF GameLoadRom, Goto, Alive, At, IInv, TypeOK, PcType, Threads
  <2>2. Owner' = Game BY <2>1, OwnerIsNext
  <2>3. Loaded = "core" /\ Loaded' = "game"
    BY <1>7 DEF GameLoadRom, Loaded, IInv, CoreInv
  <2>. QED  BY <1>2, <2>2, <2>3 DEF Step, Protocol!Next, Protocol!LoadsGame
<1>8. CASE ~GameExit /\ ~GameLoadRom
  <2>1. Alive'
    <3>1. PICK l \in GameLabels \cup {"reset_lock"} : Goto(Game, l) BY <1>1 DEF GameMoves
    <3>2. pc'[Game] = l BY <3>1 DEF Goto, IInv, TypeOK, PcType, Threads
    <3>3. \A k : Goto(Game, k) => k = l BY <3>1, <3>2 DEF Goto, IInv, TypeOK, PcType,
         Threads
    <3>. SUFFICES l # "none" BY <3>2 DEF Alive, At
    <3>. USE <3>3 DEF HandleDone
    <3>4. CASE GameTop BY <3>4 DEF GameTop
    <3>5. CASE GameDrain BY <3>5 DEF GameDrain
    <3>6. CASE GameDrained BY <3>6 DEF GameDrained
    <3>7. CASE GameFrame BY <3>7 DEF GameFrame
    <3>8. CASE GameWait BY <3>8 DEF GameWait
    <3>9. CASE HandlePauseResume BY <3>9 DEF HandlePauseResume
    <3>10. CASE HandleIgnored BY <3>10 DEF HandleIgnored
    <3>11. CASE HandleStop BY <3>11 DEF HandleStop
    <3>12. CASE GameStopping BY <3>12 DEF GameStopping
    <3>13. CASE HandleCancel BY <3>13 DEF HandleCancel
    <3>14. CASE CancelDone BY <3>14 DEF CancelDone
    <3>15. CASE HandleLoadCore BY <3>15 DEF HandleLoadCore
    <3>16. CASE GameLoadCore BY <3>16 DEF GameLoadCore
    <3>17. CASE HandleLoadRom BY <3>17 DEF HandleLoadRom
    <3>18. CASE GameLoadRomFails BY <3>18 DEF GameLoadRomFails
    <3>19. CASE GameRomReady BY <3>19 DEF GameRomReady
    <3>20. CASE GameRomReadyFails BY <3>20 DEF GameRomReadyFails
    <3>21. CASE GameGoesRunning BY <3>21 DEF GameGoesRunning
    <3>22. CASE GameAudio BY <3>22 DEF GameAudio
    <3>. QED  BY <1>8, <3>4, <3>5, <3>6, <3>7, <3>8, <3>9, <3>10, <3>11, <3>12, <3>13,
         <3>14, <3>15, <3>16, <3>17, <3>18, <3>19, <3>20, <3>21, <3>22 DEF GameStep
  <2>2. UNCHANGED core \/ ~gameLoaded'
    <3>. USE DEF GameAfterUnload, IInv, CoreInv, TypeOK
    <3>1. CASE GameTop BY <3>1 DEF GameTop
    <3>2. CASE GameDrain BY <3>2 DEF GameDrain
    <3>3. CASE GameDrained BY <3>3 DEF GameDrained
    <3>4. CASE GameFrame BY <3>4 DEF GameFrame
    <3>5. CASE GameWait BY <3>5 DEF GameWait
    <3>6. CASE HandlePauseResume BY <3>6 DEF HandlePauseResume
    <3>7. CASE HandleIgnored BY <3>7 DEF HandleIgnored
    <3>8. CASE HandleStop BY <3>8 DEF HandleStop
    <3>9. CASE GameStopping BY <3>9 DEF GameStopping
    <3>10. CASE HandleCancel BY <3>10 DEF HandleCancel
    <3>11. CASE CancelDone BY <3>11 DEF CancelDone
    <3>12. CASE HandleLoadCore BY <3>12 DEF HandleLoadCore
    <3>13. CASE GameLoadCore BY <3>13 DEF GameLoadCore
    <3>14. CASE HandleLoadRom BY <3>14 DEF HandleLoadRom, core
    <3>15. CASE GameLoadRomFails BY <3>15 DEF GameLoadRomFails
    <3>16. CASE GameRomReady BY <3>16 DEF GameRomReady
    <3>17. CASE GameRomReadyFails BY <3>17 DEF GameRomReadyFails
    <3>18. CASE GameGoesRunning BY <3>18 DEF GameGoesRunning
    <3>19. CASE GameAudio BY <3>19 DEF GameAudio
    <3>. QED  BY <1>8, <3>1, <3>2, <3>3, <3>4, <3>5, <3>6, <3>7, <3>8, <3>9, <3>10,
         <3>11, <3>12, <3>13, <3>14, <3>15, <3>16, <3>17, <3>18, <3>19 DEF GameStep
  <2>. QED  BY <1>4, <1>5, <2>1, <2>2
<1>. QED  BY <1>6, <1>7, <1>8

\* The engine implements CoreProtocol: one owner of the core at a time, and
\* its calls in the order the libretro API asks for.
THEOREM ImplementsCoreProtocol == Spec => ImplementsProtocol
<1>1. IInv /\ IInv' /\ [Next]_vars => [Protocol!Next]_(Protocol!pvars)
  <2>. SUFFICES ASSUME IInv, IInv', [Next]_vars PROVE Step
    BY DEF Step
  <2>1. CASE UNCHANGED vars
    BY <2>1, QuietStep DEF vars, core, OwnerQuiet, Alive, At
  <2>. QED
    BY <2>1, BeginsStep, CallerProtocol, SharedProtocol, GameProtocol DEF Next
<1>. QED  BY <1>1, InitProtocol, Invariance, PTL DEF Spec, ImplementsProtocol,
     Protocol!Spec
=============================================================================
