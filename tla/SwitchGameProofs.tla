-------------------------- MODULE SwitchGameProofs --------------------------
(***************************************************************************)
(* Until somebody cancels, one switch at a time drives the engine: a token *)
(* is handed out once, a worker only begins when no token is active, and   *)
(* only its holder takes the active token away.  CancelSwitch does so too, *)
(* which is why the promise ends there.                                    *)
(*                                                                         *)
(* A switch uses the engine by its operations alone, so what is proved of  *)
(* EngineLifecycle holds under switches.                                   *)
(*                                                                         *)
(* From both together: what a switch reports as its success is its own.    *)
(***************************************************************************)
EXTENDS SwitchGame, EngineLifecycleProofs

\* A worker inside the sequence moves on inside it: the engine is called, the
\* call returns, a wait goes on or ends.
LEMMA MovesKeepInv ==
  ASSUME FlightInv, NEW w \in Workers, at[w] \notin Outside,
         NEW l, l # "free", at' = [at EXCEPT ![w] = l],
         UNCHANGED <<arbiter, token, ui, cancelled>>
  PROVE  FlightInv'
<1>. USE DEF FlightInv, TokensTyped, arbiter, Outside
<1>1. TokensTyped' OBVIOUS
<1>2. TokensDiffer' BY DEF TokensDiffer
<1>3. HolderIsActive' BY DEF HolderIsActive
<1>. QED  BY <1>1, <1>2, <1>3

\* Nothing the arbitration knows of changes.
LEMMA RestKeepsInv ==
  ASSUME FlightInv, UNCHANGED <<arbiter, at, token, ui, cancelled>> PROVE FlightInv'
  BY DEF FlightInv, TokensTyped, TokensDiffer, HolderIsActive, arbiter, Outside

\* SwitchGameAsync hands out a token nobody has.
LEMMA RequestKeepsInv ==
  ASSUME FlightInv, NEW w \in Workers, Request(w) PROVE FlightInv'
<1>. USE DEF FlightInv, TokensTyped, Request, Move, history
<1>1. TokensTyped' OBVIOUS
<1>2. TokensDiffer' BY DEF TokensDiffer
<1>3. HolderIsActive' BY DEF HolderIsActive, Outside
<1>. QED  BY <1>1, <1>2, <1>3

\* The token is waited for, taken, or out of date.
LEMMA AcquireKeepsInv ==
  ASSUME FlightInv, NEW w \in Workers, AcquireSwitchToken(w) PROVE FlightInv'
<1>. USE DEF FlightInv, TokensTyped, AcquireSwitchToken, Move, history
<1>1. TokensTyped' OBVIOUS
<1>2. TokensDiffer' BY DEF TokensDiffer
<1>3. HolderIsActive'
  <2>1. CASE ~Latest(w) \/ activeToken # 0
    BY <2>1 DEF HolderIsActive, Outside
  <2>2. CASE Latest(w) /\ activeToken = 0
    <3>1. ~cancelled => \A v \in Workers : at[v] \in Outside
      BY <2>2 DEF HolderIsActive, TokensDiffer, Outside
    <3>. QED  BY <2>2, <3>1 DEF HolderIsActive, Outside
  <2>. QED  BY <2>1, <2>2
<1>. QED  BY <1>1, <1>2, <1>3

\* The holder frees the active token and wakes the waiting; a switch that holds
\* it no more leaves it alone.
LEMMA ReleaseKeepsInv ==
  ASSUME FlightInv, NEW w \in Workers, ReleaseSwitchToken(w) PROVE FlightInv'
<1>. USE DEF FlightInv, TokensTyped, ReleaseSwitchToken, Move, Woken, history
<1>1. TokensTyped' OBVIOUS
<1>2. TokensDiffer' BY DEF TokensDiffer
<1>3. ~cancelled => \A v \in Workers \ {w} : at[v] \in Outside
  BY DEF HolderIsActive, TokensDiffer, Outside
<1>4. HolderIsActive' BY <1>3 DEF HolderIsActive, Outside
<1>. QED  BY <1>1, <1>2, <1>4

\* A worker's step.
LEMMA WorkerKeepsInv ==
  ASSUME FlightInv, NEW w \in Workers, WorkerStep(w) PROVE FlightInv'
<1>. USE MovesKeepInv DEF Outside
<1>1. CASE AcquireSwitchToken(w) BY <1>1, AcquireKeepsInv
<1>2. CASE ReleaseSwitchToken(w) BY <1>2, ReleaseKeepsInv
<1>3. CASE Begin(w) BY <1>3 DEF Begin, Quiet, Goes, Calls, Move, history
<1>4. CASE Proceed(w) BY <1>4 DEF Proceed, Quiet, Goes, Calls, Move, history
<1>5. CASE Returned(w) BY <1>5 DEF Returned, Quiet, Goes, Move, history
<1>6. CASE SetFilesDir(w) BY <1>6 DEF SetFilesDir, Quiet, Goes, Move, history
<1>7. CASE PushGame(w) BY <1>7 DEF PushGame, Goes, Move, history
<1>8. CASE WaitForState(w)
  <2>1. PICK l \in {"start", "load_game", "done", "recover", "reset"} :
          at' = at \/ at' = [at EXCEPT ![w] = l]
    BY <1>8 DEF WaitForState, Waits, Move
  <2>2. at[w] \notin Outside BY <1>8 DEF WaitForState, Waits
  <2>. QED  BY <1>8, <2>1, <2>2, RestKeepsInv DEF WaitForState
<1>. QED  BY <1>1, <1>2, <1>3, <1>4, <1>5, <1>6, <1>7, <1>8 DEF WorkerStep

\* CancelSwitch: from its first step on nothing is promised.
LEMMA CancelKeepsInv ==
  ASSUME FlightInv, CancelBumpsToken \/ UiStep PROVE FlightInv'
<1>. USE DEF FlightInv, TokensTyped, history
<1>1. CASE CancelBumpsToken
  BY <1>1 DEF CancelBumpsToken, TokensDiffer, HolderIsActive, Outside
<1>2. CASE CancelReleasesToken
  BY <1>2 DEF CancelReleasesToken, Woken, TokensDiffer, HolderIsActive, Outside
<1>3. CASE CancelReachesEngine
  BY <1>3 DEF CancelReachesEngine, arbiter, TokensDiffer, HolderIsActive, Outside
<1>. QED  BY <1>1, <1>2, <1>3 DEF UiStep

\* Nobody is at work at first.
LEMMA FlightInit == SwitchInit => FlightInv
  BY DEF SwitchInit, FlightInv, TokensTyped, TokensDiffer, HolderIsActive, Outside

\* Every step preserves the invariant.
LEMMA FlightNext == FlightInv /\ [SwitchNext]_allvars => FlightInv'
<1>. SUFFICES ASSUME FlightInv, [SwitchNext]_allvars PROVE FlightInv'
  OBVIOUS
<1>1. ASSUME NEW w \in Workers, Request(w) PROVE FlightInv' BY <1>1, RequestKeepsInv
<1>2. CASE CancelBumpsToken \/ UiStep BY <1>2, CancelKeepsInv
<1>3. ASSUME NEW w \in Workers, WorkerStep(w) PROVE FlightInv' BY <1>3, WorkerKeepsInv
<1>4. ASSUME NEW w \in Workers, CallerRuns(w) PROVE FlightInv'
  BY <1>4, RestKeepsInv DEF CallerRuns, history
<1>5. CASE GameRuns BY <1>5, RestKeepsInv DEF GameRuns, svars, history
<1>6. CASE UNCHANGED allvars BY <1>6, RestKeepsInv DEF allvars, svars, history
<1>. QED  BY <1>1, <1>2, <1>3, <1>4, <1>5, <1>6 DEF SwitchNext

\* The tokens are in order whatever is requested, superseded and cancelled.
THEOREM TokensInOrder == SwitchSpec => []FlightInv
  BY FlightInit, FlightNext, PTL DEF SwitchSpec

\* Until somebody cancels, at most one worker is between AcquireSwitchToken and
\* ReleaseSwitchToken, for any number of workers and requests.
THEOREM OneFlight == SwitchSpec => []SingleFlightUntilCancel
<1>1. FlightInv => SingleFlightUntilCancel
  BY DEF FlightInv, TokensDiffer, HolderIsActive, SingleFlightUntilCancel, SingleFlight,
     Outside
<1>. QED  BY <1>1, TokensInOrder, PTL

-----------------------------------------------------------------------------
\* The engine under the switches.

\* What a step of a switch or of CancelSwitch does to the engine.
LEMMA SwitchStep ==
  ASSUME SwitchNext
  PROVE  \/ UNCHANGED vars
         \/ \E w \in Workers, o \in {"Start", "Stop", "Reset", "LoadCore"} : Call(w, o)
         \/ \E w \in Workers : LoadGame(w)
         \/ ui = "push" /\ Post(Ui, "Cancel")
         \/ Inside
<1>0. \A w \in Workers : w \in Callers
  BY SwitchCallers
<1>1. ASSUME NEW w \in Workers, Request(w) PROVE UNCHANGED vars BY <1>1 DEF Request
<1>2. CASE CancelBumpsToken BY <1>2 DEF CancelBumpsToken
<1>3. CASE UiStep BY <1>3 DEF UiStep, CancelReleasesToken, CancelReachesEngine
<1>4. ASSUME NEW w \in Workers, WorkerStep(w)
      PROVE  \/ UNCHANGED vars \/ LoadGame(w)
             \/ \E o \in {"Start", "Stop", "Reset", "LoadCore"} : Call(w, o)
  BY <1>4 DEF WorkerStep, AcquireSwitchToken, ReleaseSwitchToken, Begin, Proceed, Returned,
     SetFilesDir, PushGame, WaitForState, Goes, Calls
<1>5. ASSUME NEW w \in Workers, CallerRuns(w) PROVE Inside
  BY <1>0, <1>5 DEF CallerRuns, Inside, Threads
<1>6. CASE GameRuns BY <1>6 DEF GameRuns, Inside, Threads
<1>. QED  BY <1>1, <1>2, <1>3, <1>4, <1>5, <1>6 DEF SwitchNext

\* Each is a step of the engine.
LEMMA SwitchEngineStep ==
  ASSUME [SwitchNext]_allvars PROVE [Next]_vars
<1>1. CASE UNCHANGED allvars BY <1>1 DEF allvars
<1>2. CASE SwitchNext
  BY <1>2, SwitchStep, SwitchCallers DEF Next, CallerBegins, Inside, AllOps
<1>. QED  BY <1>1, <1>2

\* Whatever is requested, superseded and cancelled, what the engine sees is a
\* behaviour of EngineLifecycle: what is proved of it holds under switches.
THEOREM SwitchUsesEngine == SwitchSpec => Spec
<1>1. SwitchInit => Init BY DEF SwitchInit
<1>. QED  BY <1>1, SwitchEngineStep, PTL DEF SwitchSpec, Spec

\* CancelSwitch is not under way, and no Cancel is.
NeverCancels == ui = "idle" /\ NoCancelPosted

\* Until CancelSwitch is called nobody posts a Cancel.
LEMMA SwitchNeverCancels ==
  ASSUME ~CancelBumpsToken, IInv, NeverCancels, [SwitchNext]_allvars PROVE NeverCancels'
<1>1. ui' = "idle"
  <2>1. CASE UNCHANGED ui BY <2>1 DEF NeverCancels
  <2>2. CASE SwitchNext
    <3>1. ASSUME NEW w \in Workers, Request(w) \/ WorkerStep(w) \/ CallerRuns(w)
          PROVE  UNCHANGED ui
      BY <3>1 DEF Request, WorkerStep, CallerRuns, AcquireSwitchToken, ReleaseSwitchToken,
         Begin, Proceed, Returned, SetFilesDir, PushGame, WaitForState, Quiet
    <3>2. ~CancelReleasesToken
      BY DEF NeverCancels, CancelReleasesToken
    <3>. QED  BY <2>1, <2>2, <3>1, <3>2 DEF SwitchNext, UiStep, CancelReachesEngine,
         GameRuns, svars
  <2>. QED  BY <2>1, <2>2 DEF allvars, svars
<1>2. NoCancelPosted'
  <2>1. CASE UNCHANGED vars BY <2>1 DEF NeverCancels, vars, mq, NoCancelPosted
  <2>2. CASE Inside BY <2>2, InsideQueue DEF NeverCancels
  <2>3. ASSUME NEW w \in Workers, NEW o \in {"Start", "Stop", "Reset", "LoadCore"},
               Call(w, o)
        PROVE  NoCancelPosted'
    BY <2>3 DEF Call, NeverCancels, NoCancelPosted, mq
  <2>4. ASSUME NEW w \in Workers, LoadGame(w) PROVE NoCancelPosted'
    <3>1. \A i \in DOMAIN queue' : \/ queue'[i] = "LoadGame"
                                   \/ i \in DOMAIN queue /\ queue'[i] = queue[i]
      BY <2>4 DEF LoadGame, Push, Posts, Messages, IInv, TypeOK
    <3>. QED  BY <3>1 DEF NeverCancels, NoCancelPosted
  <2>. QED  BY <2>1, <2>2, <2>3, <2>4, SwitchStep DEF NeverCancels, allvars
<1>. QED  BY <1>1, <1>2 DEF NeverCancels

\* Where switches are superseded but not cancelled, the state a switch waits for
\* agrees with what is loaded: a CORE_LOADED it sees is a core, RUNNING a game.
THEOREM SwitchStateIsTrue == ASSUME ~CanCancel PROVE SwitchSpec => []StateMatchesCore
<1>1. SwitchInit => NeverCancels
  BY DEF SwitchInit, Init, NeverCancels, NoCancelPosted
<1>2. SwitchSpec => []IInv BY SwitchUsesEngine, Invariance, PTL
<1>3. IInv /\ NeverCancels /\ [SwitchNext]_allvars => NeverCancels'
  BY SwitchNeverCancels DEF CancelBumpsToken
<1>4. NeverCancels => NoCancelPosted BY DEF NeverCancels
<1>5. SwitchSpec => []NoCancelPosted BY <1>1, <1>2, <1>3, <1>4, PTL DEF SwitchSpec
<1>. QED  BY <1>5, SwitchUsesEngine, StateFollowsCore, PTL

-----------------------------------------------------------------------------
(***************************************************************************)
(* A reported success is the switch's own.  Until somebody cancels, the    *)
(* switch at work is alone with the game thread.  So an engine that is     *)
(* INIT or STOPPED does not run, Start does not find a session, and from   *)
(* the Reset inside Start on all messages, and so the core and the game,   *)
(* are this switch's.                                                      *)
(***************************************************************************)

\* The places of a worker inside a call, and the operation called.
OpOf == [stopping |-> "Stop", starting |-> "Start", core_sent |-> "LoadCore",
         recover_stop |-> "Stop", resetting |-> "Reset"]

CallsInv ==
  /\ ui = "idle" /\ pc[Ui] = "idle" /\ DOMAIN ok = Workers
  /\ \A w \in Workers :
       pc[w] # "idle" => at[w] \in DOMAIN OpOf /\ op[w] = OpOf[at[w]]

TagsInv ==
  /\ tags \in Seq(Nat) /\ Len(tags) = Len(queue)
  /\ handling \in Nat /\ current \in [core : Nat, game : Nat]

\* What the state says of an engine that one caller at a time drives.
AloneInv ==
  /\ state \in {"INIT", "STOPPED"} => ~running
  /\ \A t \in Callers :
       /\ pc[t] \in {"stop_state", "stop_flags"} => ~running
       /\ pc[t] = "start_arm" => state = "INIT"
  /\ At("handle") \/ msg = NoMsg

\* What one step of a caller does to the messages and to what is loaded,
CallerData ==
  /\ queue' = queue \/ queue' = <<>> \/ \E m \in Messages : queue' = Append(queue, m)
  /\ msg' = msg
  /\ coreLoaded' => coreLoaded
  /\ gameLoaded' => gameLoaded

\* where it goes,
CallerMoves(t) ==
  /\ pc[t] # "idle"
  /\ \A u \in Callers \ {t} : pc'[u] = pc[u] /\ op'[u] = op[u]
  /\ pc'[t] = "idle" \/ op'[t] = op[t]
  /\ pc'[Game] = pc[Game] \/ (~Alive /\ pc'[Game] = "top")

\* what it leaves of the state,
CallerLeaves(t) ==
  /\ state' \in {"INIT", "STOPPED"} => ~running'
  /\ pc'[t] \in {"stop_state", "stop_flags"} => ~running'
  /\ pc'[t] = "start_arm" => state' = "INIT"

\* and how Start goes on.
StartGoesOn(t) ==
  /\ pc'[t] # "start_lock"
  /\ pc'[t] = "start_check" => UNCHANGED running /\ pc[t] \in {"start_lock", "load_lock"}
  /\ pc'[t] = "reset_core" => queue' = <<>>
  /\ pc'[t] = "reset_state" => pc[t] = "reset_core" /\ UNCHANGED queue
                               /\ ~coreLoaded' /\ ~gameLoaded'
  /\ pc'[t] = "start_arm" => pc[t] = "reset_state" /\ UNCHANGED queue
  /\ pc'[t] = "start_spawn" => pc[t] = "start_arm" /\ UNCHANGED queue
  /\ pc'[t] = "start_render" => pc[t] = "start_spawn" /\ UNCHANGED queue
  /\ pc'[t] = "idle" /\ Outcome(t) /\ op[t] = "Start" =>
       pc[t] = "start_render" \/ (pc[t] = "start_check" /\ running)

\* LoadCore and Start.
LEMMA CallerStepData ==
  ASSUME IInv, NEW t \in Callers, CallerStep(t) PROVE CallerData
<1>. USE DEF CallerData, mq, core, Push, Messages
<1>1. CASE LoadCoreLock(t) BY <1>1 DEF LoadCoreLock
<1>2. CASE LoadCorePush(t) BY <1>2 DEF LoadCorePush
<1>3. CASE StartLock(t) BY <1>3 DEF StartLock
<1>4. CASE StartCheck(t) BY <1>4 DEF StartCheck
<1>5. CASE StartArm(t) BY <1>5 DEF StartArm
<1>6. CASE StartSpawn(t) BY <1>6 DEF StartSpawn
<1>7. CASE StartSpawnFails(t) BY <1>7 DEF StartSpawnFails
<1>8. CASE StartRender(t) BY <1>8 DEF StartRender
<1>9. CASE StartRenderFails(t) BY <1>9 DEF StartRenderFails
<1>10. CASE StartJoin(t) BY <1>10 DEF StartJoin
<1>. QED  BY <1>1, <1>2, <1>3, <1>4, <1>5, <1>6, <1>7, <1>8, <1>9, <1>10 DEF
     CallerStep

\* Stop and Reset.
LEMMA SharedStepData ==
  ASSUME IInv, NEW t \in Callers, SharedStep(t) PROVE CallerData
<1>. USE DEF CallerData, mq, core, Push, Messages, GameAfterUnload
<1>1. CASE StopLock(t) BY <1>1 DEF StopLock
<1>2. CASE StopRequest(t) BY <1>2 DEF StopRequest
<1>3. CASE StopClose(t) BY <1>3 DEF StopClose
<1>4. CASE StopExited(t) BY <1>4 DEF StopExited
<1>5. CASE StopTimeout(t) BY <1>5 DEF StopTimeout
<1>6. CASE StopJoin(t) BY <1>6 DEF StopJoin
<1>7. CASE StopClear(t) BY <1>7 DEF StopClear
<1>8. CASE StopState(t) BY <1>8 DEF StopState
<1>9. CASE StopFlags(t) BY <1>9 DEF StopFlags
<1>10. CASE ResetLock(t) BY <1>10 DEF ResetLock
<1>11. CASE ResetCheck(t) BY <1>11 DEF ResetCheck
<1>12. CASE ResetQueue(t) BY <1>12 DEF ResetQueue
<1>13. CASE ResetCore(t) BY <1>13 DEF ResetCore
<1>14. CASE ResetState(t) BY <1>14 DEF ResetState
<1>15. CASE ResetReturn(t) BY <1>15 DEF ResetReturn
<1>. QED  BY <1>1, <1>2, <1>3, <1>4, <1>5, <1>6, <1>7, <1>8, <1>9, <1>10, <1>11,
     <1>12, <1>13, <1>14, <1>15 DEF SharedStep

\* The moves a caller has: to a label, or back.
LEMMA MovesAre ==
  ASSUME IInv, NEW t \in Callers, pc[t] # "idle",
         \/ Return(t)
         \/ UNCHANGED op /\ \E l : Goto(t, l)
         \/ ~Alive /\ UNCHANGED op /\ \E l : pc' = [pc EXCEPT ![t] = l, ![Game] = "top"]
  PROVE  CallerMoves(t)
<1>1. t \in Threads /\ t # Game /\ Game \in Threads /\ \A u \in Callers : u \in Threads /\ u # Game
  BY GameNotCaller DEF Threads
<1>2. DOMAIN pc = Threads /\ DOMAIN op = Threads BY DEF IInv, TypeOK, PcType, OpType
<1>. QED  BY <1>1, <1>2 DEF CallerMoves, Return, Goto

\* LoadCore and Start.
LEMMA CallerStepMoves ==
  ASSUME IInv, NEW t \in Callers, CallerStep(t) PROVE CallerMoves(t)
<1>. USE MovesAre DEF Acquire
<1>0. \A b \in BOOLEAN : StartReturns(t, b) => Return(t) \/ (UNCHANGED op /\ \E l : Goto(t, l))
  BY DEF StartReturns
<1>. USE <1>0
<1>1. CASE LoadCoreLock(t) BY <1>1 DEF LoadCoreLock
<1>2. CASE LoadCorePush(t) BY <1>2 DEF LoadCorePush
<1>3. CASE StartLock(t) BY <1>3 DEF StartLock
<1>4. CASE StartCheck(t) BY <1>4 DEF StartCheck
<1>5. CASE StartArm(t) BY <1>5 DEF StartArm
<1>6. CASE StartSpawn(t)
  <2>1. t \in Threads /\ ~Alive BY <1>6 DEF StartSpawn, IInv, RunningInv, ThreadInv, Threads
  <2>. QED  BY <1>6, <2>1 DEF StartSpawn
<1>7. CASE StartSpawnFails(t) BY <1>7 DEF StartSpawnFails
<1>8. CASE StartRender(t) BY <1>8 DEF StartRender
<1>9. CASE StartRenderFails(t) BY <1>9 DEF StartRenderFails
<1>10. CASE StartJoin(t) BY <1>10 DEF StartJoin
<1>. QED  BY <1>1, <1>2, <1>3, <1>4, <1>5, <1>6, <1>7, <1>8, <1>9, <1>10 DEF CallerStep

\* Stop and Reset.
LEMMA SharedStepMoves ==
  ASSUME IInv, NEW t \in Callers, SharedStep(t) PROVE CallerMoves(t)
<1>. USE MovesAre DEF Acquire
<1>0. /\ \A b \in BOOLEAN : StopReturns(t, b) => Return(t) \/ (UNCHANGED op /\ \E l : Goto(t, l))
      /\ t # Game
  BY GameNotCaller DEF StopReturns
<1>. USE <1>0
<1>1. CASE StopLock(t) BY <1>1 DEF StopLock
<1>2. CASE StopRequest(t) BY <1>2 DEF StopRequest
<1>3. CASE StopClose(t) BY <1>3 DEF StopClose
<1>4. CASE StopExited(t) BY <1>4 DEF StopExited
<1>5. CASE StopTimeout(t) BY <1>5 DEF StopTimeout
<1>6. CASE StopJoin(t) BY <1>6 DEF StopJoin
<1>7. CASE StopClear(t) BY <1>7 DEF StopClear
<1>8. CASE StopState(t) BY <1>8 DEF StopState
<1>9. CASE StopFlags(t) BY <1>9 DEF StopFlags
<1>10. CASE ResetLock(t) BY <1>10 DEF ResetLock
<1>11. CASE ResetCheck(t) BY <1>11 DEF ResetCheck
<1>12. CASE ResetQueue(t) BY <1>12 DEF ResetQueue
<1>13. CASE ResetCore(t) BY <1>13 DEF ResetCore
<1>14. CASE ResetState(t) BY <1>14 DEF ResetState
<1>15. CASE ResetReturn(t) BY <1>15 DEF ResetReturn
<1>. QED  BY <1>1, <1>2, <1>3, <1>4, <1>5, <1>6, <1>7, <1>8, <1>9, <1>10, <1>11, <1>12,
     <1>13, <1>14, <1>15 DEF SharedStep

\* LoadCore and Start.
LEMMA CallerStepLeaves ==
  ASSUME IInv, AloneInv, NEW t \in Callers, CallerStep(t) PROVE CallerLeaves(t)
<1>0. /\ t # Game /\ t \in DOMAIN pc /\ Game \in DOMAIN pc
      /\ pc[t] \in TearDown \cup {"start_arm"} => ~running
      /\ pc[t] \in StopLabels => op[t] \notin StartOps
      /\ state \in {"INIT", "STOPPED"} => ~running
      /\ pc[t] \in {"stop_state", "stop_flags"} => ~running
      /\ pc[t] = "start_arm" => state = "INIT"
  BY GameNotCaller DEF IInv, TypeOK, PcType, Threads, RunningInv, OpInv, AloneInv,
     StartOps, ResetOps
<1>. USE <1>0 DEF CallerLeaves, flags, Goto, Acquire, Return, StartReturns, TransitionTo,
     After, ValidTransitions, TearDown, StopLabels
<1>1. CASE LoadCoreLock(t) BY <1>1 DEF LoadCoreLock
<1>2. CASE LoadCorePush(t) BY <1>2 DEF LoadCorePush
<1>3. CASE StartLock(t) BY <1>3 DEF StartLock
<1>4. CASE StartCheck(t) BY <1>4 DEF StartCheck
<1>5. CASE StartArm(t) BY <1>5 DEF StartArm
<1>6. CASE StartSpawn(t) BY <1>6 DEF StartSpawn
<1>7. CASE StartSpawnFails(t) BY <1>7 DEF StartSpawnFails
<1>8. CASE StartRender(t) BY <1>8 DEF StartRender
<1>9. CASE StartRenderFails(t) BY <1>9 DEF StartRenderFails
<1>10. CASE StartJoin(t) BY <1>10 DEF StartJoin
<1>. QED  BY <1>1, <1>2, <1>3, <1>4, <1>5, <1>6, <1>7, <1>8, <1>9, <1>10 DEF
     CallerStep

\* Stop and Reset.
LEMMA SharedStepLeaves ==
  ASSUME IInv, AloneInv, NEW t \in Callers, SharedStep(t) PROVE CallerLeaves(t)
<1>0. /\ t # Game /\ t \in DOMAIN pc /\ Game \in DOMAIN pc
      /\ pc[t] \in TearDown \cup {"start_arm"} => ~running
      /\ pc[t] \in StopLabels => op[t] \notin StartOps
      /\ state \in {"INIT", "STOPPED"} => ~running
      /\ pc[t] \in {"stop_state", "stop_flags"} => ~running
      /\ pc[t] = "start_arm" => state = "INIT"
  BY GameNotCaller DEF IInv, TypeOK, PcType, Threads, RunningInv, OpInv, AloneInv,
     StartOps, ResetOps
<1>. USE <1>0 DEF CallerLeaves, flags, Goto, Acquire, Return, StopReturns, AfterReset,
     TransitionTo, After, AfterUnload, ValidTransitions, TearDown, StopLabels, StartOps
<1>1. CASE StopLock(t) BY <1>1 DEF StopLock
<1>2. CASE StopRequest(t) BY <1>2 DEF StopRequest
<1>3. CASE StopClose(t) BY <1>3 DEF StopClose
<1>4. CASE StopExited(t) BY <1>4 DEF StopExited
<1>5. CASE StopTimeout(t) BY <1>5 DEF StopTimeout
<1>6. CASE StopJoin(t) BY <1>6 DEF StopJoin
<1>7. CASE StopClear(t) BY <1>7 DEF StopClear
<1>8. CASE StopState(t) BY <1>8 DEF StopState
<1>9. CASE StopFlags(t) BY <1>9 DEF StopFlags
<1>10. CASE ResetLock(t) BY <1>10 DEF ResetLock
<1>11. CASE ResetCheck(t) BY <1>11 DEF ResetCheck
<1>12. CASE ResetQueue(t) BY <1>12 DEF ResetQueue
<1>13. CASE ResetCore(t) BY <1>13 DEF ResetCore
<1>14. CASE ResetState(t) BY <1>14 DEF ResetState
<1>15. CASE ResetReturn(t) BY <1>15 DEF ResetReturn
<1>. QED  BY <1>1, <1>2, <1>3, <1>4, <1>5, <1>6, <1>7, <1>8, <1>9, <1>10, <1>11,
     <1>12, <1>13, <1>14, <1>15 DEF SharedStep

\* LoadCore and Start.
LEMMA CallerStepGoesOn ==
  ASSUME IInv, NEW t \in Callers, CallerStep(t) PROVE StartGoesOn(t)
<1>0. /\ t # Game /\ t \in DOMAIN pc /\ Game \in DOMAIN pc
      /\ pc[t] \in StopLabels => op[t] \notin StartOps
      /\ pc[t] = "reset_check" /\ op[t] = "Start" => ~running
      /\ pc[t] \in {"load_push", "load_lock"} => op[t] = "LoadCore"
      /\ pc[t] = "reset_return" => op[t] \notin StartOps
      /\ pc[t] = "reset_state" => ~coreLoaded /\ ~gameLoaded
      /\ gameLoaded => coreLoaded
  BY GameNotCaller DEF IInv, TypeOK, PcType, Threads, RunningInv, OpInv, CleanInv, CoreInv,
     StartOps, ResetOps
<1>. USE <1>0 DEF StartGoesOn, flags, mq, core, Goto, Acquire, Return, StartReturns, StopLabels,
     StartOps, Outcome
<1>1. CASE LoadCoreLock(t) BY <1>1 DEF LoadCoreLock
<1>2. CASE LoadCorePush(t) BY <1>2 DEF LoadCorePush
<1>3. CASE StartLock(t) BY <1>3 DEF StartLock
<1>4. CASE StartCheck(t) BY <1>4 DEF StartCheck
<1>5. CASE StartArm(t) BY <1>5 DEF StartArm
<1>6. CASE StartSpawn(t) BY <1>6 DEF StartSpawn
<1>7. CASE StartSpawnFails(t) BY <1>7 DEF StartSpawnFails
<1>8. CASE StartRender(t) BY <1>8 DEF StartRender
<1>9. CASE StartRenderFails(t) BY <1>9 DEF StartRenderFails
<1>10. CASE StartJoin(t) BY <1>10 DEF StartJoin
<1>. QED  BY <1>1, <1>2, <1>3, <1>4, <1>5, <1>6, <1>7, <1>8, <1>9, <1>10 DEF
     CallerStep

\* Stop and Reset.
LEMMA SharedStepGoesOn ==
  ASSUME IInv, NEW t \in Callers, SharedStep(t) PROVE StartGoesOn(t)
<1>0. /\ t # Game /\ t \in DOMAIN pc /\ Game \in DOMAIN pc
      /\ pc[t] \in StopLabels => op[t] \notin StartOps
      /\ pc[t] = "reset_check" /\ op[t] = "Start" => ~running
      /\ pc[t] \in {"load_push", "load_lock"} => op[t] = "LoadCore"
      /\ pc[t] = "reset_return" => op[t] \notin StartOps
      /\ pc[t] = "reset_state" => ~coreLoaded /\ ~gameLoaded
      /\ gameLoaded => coreLoaded
  BY GameNotCaller DEF IInv, TypeOK, PcType, Threads, RunningInv, OpInv, CleanInv, CoreInv,
     StartOps, ResetOps
<1>. USE <1>0 DEF StartGoesOn, flags, mq, core, Goto, Acquire, Return, StopReturns, AfterReset,
     StopLabels, StartOps, Outcome, GameAfterUnload
<1>1. CASE StopLock(t) BY <1>1 DEF StopLock
<1>2. CASE StopRequest(t) BY <1>2 DEF StopRequest
<1>3. CASE StopClose(t) BY <1>3 DEF StopClose
<1>4. CASE StopExited(t) BY <1>4 DEF StopExited
<1>5. CASE StopTimeout(t) BY <1>5 DEF StopTimeout
<1>6. CASE StopJoin(t) BY <1>6 DEF StopJoin
<1>7. CASE StopClear(t) BY <1>7 DEF StopClear
<1>8. CASE StopState(t) BY <1>8 DEF StopState
<1>9. CASE StopFlags(t) BY <1>9 DEF StopFlags
<1>10. CASE ResetLock(t) BY <1>10 DEF ResetLock
<1>11. CASE ResetCheck(t) BY <1>11 DEF ResetCheck
<1>12. CASE ResetQueue(t) BY <1>12 DEF ResetQueue
<1>13. CASE ResetCore(t) BY <1>13 DEF ResetCore
<1>14. CASE ResetState(t) BY <1>14 DEF ResetState
<1>15. CASE ResetReturn(t) BY <1>15 DEF ResetReturn
<1>. QED  BY <1>1, <1>2, <1>3, <1>4, <1>5, <1>6, <1>7, <1>8, <1>9, <1>10, <1>11,
     <1>12, <1>13, <1>14, <1>15 DEF SharedStep

\* What a step of the game thread does: it pops a message or not, loads only
\* where it says so, and never publishes INIT or STOPPED.
Popped == /\ msg = NoMsg /\ queue # <<>>
          /\ msg' = Head(queue) /\ queue' = Tail(queue) /\ pc'[Game] = "handle"

GameBrings ==
  /\ Popped \/ (msg' = NoMsg /\ UNCHANGED queue)
  /\ coreLoaded' => coreLoaded \/ At("load_core")
  /\ gameLoaded' => gameLoaded \/ At("load_rom")
  /\ state' \in {"INIT", "STOPPED"} => UNCHANGED state
  /\ pc'[Game] = "load_core" => At("handle") /\ msg = "LoadCore"
  /\ pc'[Game] = "load_rom" => At("handle") /\ msg = "LoadGame"

\* One action at a time.
LEMMA GameStepSession ==
  ASSUME IInv, NoCancel, AloneInv, GameStep PROVE GameBrings
<1>0. /\ Game \in DOMAIN pc
      /\ msg # "Cancel" /\ ~At("cancel_done")
      /\ At("handle") \/ msg = NoMsg
  BY DEF IInv, TypeOK, PcType, Threads, AloneInv, NoCancel, GameLabels, At
<1>. USE <1>0 DEF GameBrings, Popped, flags, mq, core, At, Goto, Handles, HandleDone,
     TransitionTo, After, AfterUnload, GameAfterUnload, ValidTransitions, Pop, NoMsg
<1>1. CASE GameTop BY <1>1 DEF GameTop
<1>2. CASE GameDrain BY <1>2 DEF GameDrain
<1>3. CASE GameDrained BY <1>3 DEF GameDrained
<1>4. CASE GameFrame BY <1>4 DEF GameFrame
<1>5. CASE GameWait BY <1>5 DEF GameWait
<1>6. CASE GameExit BY <1>6 DEF GameExit
<1>7. CASE HandlePauseResume BY <1>7 DEF HandlePauseResume
<1>8. CASE HandleIgnored BY <1>8 DEF HandleIgnored
<1>9. CASE HandleStop BY <1>9 DEF HandleStop
<1>10. CASE GameStopping BY <1>10 DEF GameStopping
<1>11. CASE HandleCancel BY <1>11 DEF HandleCancel
<1>12. CASE CancelDone BY <1>12 DEF CancelDone
<1>13. CASE HandleLoadCore BY <1>13 DEF HandleLoadCore
<1>14. CASE GameLoadCore BY <1>14 DEF GameLoadCore
<1>15. CASE HandleLoadRom BY <1>15 DEF HandleLoadRom
<1>16. CASE GameLoadRom BY <1>16 DEF GameLoadRom
<1>17. CASE GameLoadRomFails BY <1>17 DEF GameLoadRomFails
<1>18. CASE GameRomReady BY <1>18 DEF GameRomReady
<1>19. CASE GameRomReadyFails BY <1>19 DEF GameRomReadyFails
<1>20. CASE GameGoesRunning BY <1>20 DEF GameGoesRunning
<1>21. CASE GameAudio BY <1>21 DEF GameAudio
<1>. QED  BY <1>1, <1>2, <1>3, <1>4, <1>5, <1>6, <1>7, <1>8, <1>9, <1>10, <1>11,
     <1>12, <1>13, <1>14, <1>15, <1>16, <1>17, <1>18, <1>19, <1>20, <1>21 DEF GameStep

\* The messages, what is at work and what is loaded stem from request k.
Loads == {"LoadCore", "LoadGame"}
Ours(k) ==
  /\ \A i \in DOMAIN queue : queue[i] \in Loads => tags[i] = k
  /\ At("load_core") \/ At("load_rom") \/ (At("handle") /\ msg \in Loads) => handling = k
  /\ coreLoaded => current.core = k
  /\ gameLoaded => current.game = k

\* A step of the queue keeps the tags beside the messages.
LEMMA TagsFollow ==
  ASSUME IInv, TagsInv, NEW k \in Nat, Track(k),
         \/ queue' = queue \/ queue' = <<>> \/ Popped
         \/ \E m \in Messages : queue' = Append(queue, m)
  PROVE  /\ tags' \in Seq(Nat) /\ Len(tags') = Len(queue')
         /\ \A i \in DOMAIN queue' :
              \/ i \in DOMAIN queue /\ queue'[i] = queue[i] /\ tags'[i] = tags[i]
              \/ i + 1 \in DOMAIN queue /\ queue'[i] = queue[i + 1] /\ tags'[i] = tags[i + 1]
              \/ Len(queue') > Len(queue) /\ tags'[i] = k
<1>0. queue \in Seq(Messages) /\ tags \in Seq(Nat) /\ Len(tags) = Len(queue)
  BY DEF IInv, TypeOK, TagsInv
<1>1. CASE queue' = queue BY <1>0, <1>1 DEF Track
<1>2. CASE queue' = <<>> /\ queue # <<>>
  <2>1. tags' \in {Tail(tags), <<>>} /\ Len(queue) > 0 BY <1>0, <1>2 DEF Track
  <2>2. CASE queue' = Tail(queue)
    <3>0. Len(Tail(queue)) = Len(queue) - 1 /\ Len(queue') = 0 BY <1>0, <1>2, <2>1
    <3>1. ~(Len(queue') > Len(queue)) /\ Len(queue) = 1 BY <1>0, <2>2, <3>0
    <3>2. tags' = Tail(tags) BY <1>2, <2>2, <3>1 DEF Track
    <3>3. Len(tags') = 0 BY <1>0, <3>1, <3>2
    <3>. QED  BY <1>0, <1>2, <3>2, <3>3
  <2>3. CASE queue' # Tail(queue) BY <1>0, <1>2, <2>3, <2>1 DEF Track
  <2>. QED  BY <2>2, <2>3
<1>3. CASE Popped
  <2>1. queue # <<>> /\ queue' = Tail(queue) /\ queue' # queue /\ ~(Len(queue') > Len(queue))
    BY <1>0, <1>3 DEF Popped
  <2>2. tags' = Tail(tags) BY <2>1 DEF Track
  <2>. QED  BY <1>0, <2>1, <2>2
<1>4. CASE \E m \in Messages : queue' = Append(queue, m)
  <2>1. PICK m \in Messages : queue' = Append(queue, m) BY <1>4
  <2>2. queue' # queue /\ Len(queue') = Len(queue) + 1 /\ Len(queue') > Len(queue)
    BY <1>0, <2>1
  <2>3. tags' = Append(tags, k) BY <2>2 DEF Track
  <2>. QED  BY <1>0, <2>1, <2>2, <2>3
<1>. QED  BY <1>1, <1>2, <1>3, <1>4

\* What is handled is what was popped.
LEMMA HandlingFollows ==
  ASSUME IInv, TagsInv, NEW k, Track(k), Popped \/ msg' = msg \/ msg' = NoMsg
  PROVE  /\ handling' \in Nat /\ current' \in [core : Nat, game : Nat]
         /\ handling' = handling \/ (Popped /\ 1 \in DOMAIN queue /\ handling' = tags[1])
<1>0. queue \in Seq(Messages) /\ tags \in Seq(Nat) /\ Len(tags) = Len(queue)
      /\ handling \in Nat /\ current \in [core : Nat, game : Nat]
  BY DEF IInv, TypeOK, TagsInv
<1>1. handling' = handling \/ (Popped /\ 1 \in DOMAIN queue /\ handling' = tags[1])
  BY <1>0 DEF Track, Popped
<1>2. handling' \in Nat BY <1>0, <1>1
<1>3. current' \in [core : Nat, game : Nat] BY <1>0 DEF Track
<1>. QED  BY <1>1, <1>2, <1>3

\* So what is ours stays ours while only we post.
LEMMA OursStays ==
  ASSUME IInv, IInv', TagsInv, NEW n \in Nat, Ours(n), NEW k \in Nat, Track(k),
         \/ queue' = queue \/ queue' = <<>> \/ Popped
         \/ k = n /\ \E m \in Messages : queue' = Append(queue, m),
         coreLoaded' => coreLoaded \/ At("load_core"),
         gameLoaded' => gameLoaded \/ At("load_rom"),
         \/ Popped /\ pc'[Game] = "handle"
         \/ msg' = NoMsg
            /\ (pc'[Game] \in {"load_core", "load_rom"} =>
                  At("handle") /\ msg \in Loads)
         \/ msg' = msg /\ pc'[Game] \in {pc[Game], "top"}
  PROVE  Ours(n)'
<1>0. queue \in Seq(Messages) /\ queue' \in Seq(Messages)
  BY DEF IInv, TypeOK
<1>1. \A i \in DOMAIN queue' :
        \/ i \in DOMAIN queue /\ queue'[i] = queue[i] /\ tags'[i] = tags[i]
        \/ i + 1 \in DOMAIN queue /\ queue'[i] = queue[i + 1] /\ tags'[i] = tags[i + 1]
        \/ Len(queue') > Len(queue) /\ tags'[i] = k
  BY TagsFollow
<1>2. Len(queue') > Len(queue) => k = n
  BY <1>0 DEF Popped
<1>3. \A i \in DOMAIN queue' : queue'[i] \in Loads => tags'[i] = n
  BY <1>1, <1>2 DEF Ours
<1>4. handling' = handling \/ (Popped /\ 1 \in DOMAIN queue /\ handling' = tags[1])
  BY HandlingFollows
<1>5. \/ pc'[Game] \in {"load_core", "load_rom"}
      \/ pc'[Game] = "handle" /\ msg' \in Loads
      => handling' = n
  <2>1. CASE Popped /\ pc'[Game] = "handle"
    <3>1. msg' \in Loads => queue[1] \in Loads BY <1>0, <2>1 DEF Popped
    <3>2. msg = NoMsg /\ (msg' # NoMsg => handling' = tags[1])
      BY <2>1 DEF Track, Popped
    <3>3. 1 \in DOMAIN queue BY <1>0, <2>1 DEF Popped
    <3>. QED  BY <2>1, <3>1, <3>2, <3>3 DEF Ours, Loads, NoMsg
  <2>2. CASE ~(msg = NoMsg /\ msg' # NoMsg)
    <3>1. handling' = handling BY <2>2 DEF Track
    <3>. QED  BY <2>2, <3>1 DEF Ours, Popped, At, Loads, NoMsg
  <2>. QED  BY <2>1, <2>2
<1>6. coreLoaded' => current'.core = n
  BY DEF Track, Ours
<1>7. gameLoaded' => current'.game = n
  BY DEF Track, Ours
<1>. QED  BY <1>3, <1>5, <1>6, <1>7 DEF Ours, At

\* Before Start has reset the engine nothing runs; after, nothing is queued.
BeforeInv ==
  \A w \in Workers :
    /\ at[w] = "start" => ~running
    /\ at[w] = "starting" /\ pc[w] \in {"start_lock", "start_check"} => ~running
    /\ at[w] = "starting"
         /\ pc[w] \in {"reset_core", "reset_state", "start_arm", "start_spawn"}
         => queue = <<>>

\* From the Reset inside Start to the end of the switch the session is its own.
OwnPlaces == {"files_dir", "load_core", "core_sent", "wait_core", "load_game",
              "push_game", "wait_running"}
Owns(w) ==
  \/ at[w] \in OwnPlaces
  \/ /\ at[w] = "starting"
     /\ \/ pc[w] \in {"reset_state", "start_arm", "start_spawn", "start_render"}
        \/ pc[w] = "idle" /\ ok[w]
OursInv == \A w \in Workers : Owns(w) => Ours(token[w])

OwnSessionInv == TagsInv /\ CallsInv /\ AloneInv /\ BeforeInv /\ OursInv

\* Until somebody cancels one switch is at work.
LEMMA OneWorks ==
  ASSUME FlightInv, ~cancelled, NEW v \in Workers, NEW w \in Workers,
         at[v] \notin Outside, at[w] \notin Outside
  PROVE  v = w
  BY DEF FlightInv, TokensDiffer, HolderIsActive, Outside

\* Its operation goes on.
LEMMA CallerKeepsSession ==
  ASSUME IInv, IInv', FlightInv, ~cancelled, OwnSessionInv, NEW w \in Workers, CallerRuns(w)
  PROVE  OwnSessionInv'
<1>0. w \in Callers /\ Ui \in Callers /\ Ui # w /\ Workers \subseteq Callers /\ w \in Threads
      /\ Callers = Workers \cup {Ui}
  BY SwitchCallers DEF Threads
<1>1. CallerData /\ CallerMoves(w) /\ CallerLeaves(w) /\ StartGoesOn(w)
  <2>1. CASE CallerStep(w)
    BY <1>0, <2>1, CallerStepData, CallerStepMoves, CallerStepLeaves, CallerStepGoesOn
       DEF OwnSessionInv
  <2>2. CASE SharedStep(w)
    BY <1>0, <2>2, SharedStepData, SharedStepMoves, SharedStepLeaves, SharedStepGoesOn
       DEF OwnSessionInv
  <2>. QED  BY <2>1, <2>2 DEF CallerRuns
<1>2. /\ UNCHANGED <<at, token, ui>> /\ Track(token[w])
      /\ token[w] \in Nat
      /\ ok' = IF pc'[w] = "idle" THEN [ok EXCEPT ![w] = Outcome(w)] ELSE ok
  BY DEF CallerRuns, FlightInv, TokensTyped
<1>3. /\ at[w] \in DOMAIN OpOf /\ op[w] = OpOf[at[w]] /\ at[w] \notin Outside
      /\ pc[w] # "idle"
  BY <1>1 DEF OwnSessionInv, CallsInv, CallerMoves, OpOf, Outside
<1>4. \A u \in Workers \ {w} : at[u] \in Outside
  BY <1>3, OneWorks
<1>5. \A u \in Callers \ {w} : pc[u] = "idle" /\ pc'[u] = "idle"
  BY <1>0, <1>1, <1>4 DEF OwnSessionInv, CallsInv, CallerMoves, OpOf, Outside
<1>6. TagsInv'
  BY <1>1, <1>2, TagsFollow, HandlingFollows DEF OwnSessionInv, TagsInv, CallerData
<1>7. CallsInv'
  BY <1>0, <1>1, <1>2, <1>3, <1>5 DEF OwnSessionInv, CallsInv, CallerMoves
<1>8. AloneInv'
  <2>1. At("handle")' \/ msg' = NoMsg
    BY <1>1 DEF OwnSessionInv, AloneInv, CallerData, CallerMoves, At, Alive
  <2>. QED  BY <1>0, <1>1, <1>5, <2>1 DEF AloneInv, CallerLeaves
<1>9. BeforeInv'
  <2>1. SUFFICES /\ at[w] # "start"
                 /\ at[w] = "starting" /\ pc'[w] \in {"start_lock", "start_check"} => ~running'
                 /\ at[w] = "starting"
                    /\ pc'[w] \in {"reset_core", "reset_state", "start_arm", "start_spawn"}
                      => queue' = <<>>
    BY <1>2, <1>4 DEF BeforeInv, Outside
  <2>2. at[w] # "start" BY <1>3 DEF OpOf
  <2>3. ASSUME at[w] = "starting", pc'[w] \in {"start_lock", "start_check"} PROVE ~running'
    <3>1. pc[w] # "load_lock" BY <1>0, <1>3, <2>3 DEF IInv, OpInv, OpOf
    <3>2. pc[w] = "start_lock" /\ UNCHANGED running BY <1>1, <2>3, <3>1 DEF StartGoesOn
    <3>. QED  BY <2>3, <3>2 DEF OwnSessionInv, BeforeInv
  <2>4. ASSUME at[w] = "starting",
               pc'[w] \in {"reset_core", "reset_state", "start_arm", "start_spawn"}
        PROVE  queue' = <<>>
    BY <1>1, <2>4 DEF OwnSessionInv, BeforeInv, StartGoesOn
  <2>. QED  BY <2>2, <2>3, <2>4
<1>10. OursInv'
  <2>1. SUFFICES ASSUME Owns(w)' PROVE Ours(token[w])'
    BY <1>2, <1>4 DEF OursInv, Owns, OwnPlaces, Outside
  <2>2. CASE Owns(w)
    <3>0. PICK n \in Nat : n = token[w] BY <1>2
    <3>1. Ours(n) BY <2>2, <3>0 DEF OwnSessionInv, OursInv
    <3>2. \/ pc'[Game] = pc[Game] \/ pc'[Game] = "top"
      BY <1>1 DEF CallerMoves
    <3>3. Ours(n)' BY <1>1, <1>2, <3>0, <3>1, <3>2, OursStays DEF CallerData, OwnSessionInv
    <3>. QED  BY <1>2, <3>0, <3>3
  <2>3. CASE ~Owns(w)
    <3>1. at[w] = "starting" /\ op[w] = "Start"
      BY <1>2, <2>1, <2>3, <1>3 DEF Owns, OpOf
    <3>2. pc'[w] = "reset_state" /\ pc[w] = "reset_core"
      <4>1. ~(pc'[w] = "idle" /\ ok'[w])
        <5>1. SUFFICES ASSUME pc'[w] = "idle", ok'[w] PROVE FALSE OBVIOUS
        <5>2. Outcome(w) BY <1>2, <5>1 DEF OwnSessionInv, CallsInv
        <5>3. pc[w] = "start_render" \/ (pc[w] = "start_check" /\ running)
          BY <1>1, <3>1, <5>1, <5>2 DEF StartGoesOn
        <5>. QED  BY <2>3, <3>1, <5>3 DEF OwnSessionInv, BeforeInv, Owns
      <4>2. pc'[w] \notin {"start_arm", "start_spawn", "start_render"}
        BY <1>1, <3>1, <2>3 DEF StartGoesOn, Owns
      <4>. QED  BY <1>1, <1>2, <2>1, <3>1, <4>1, <4>2 DEF Owns, OwnPlaces, StartGoesOn
    <3>3. ~Alive
      BY <1>0, <3>2 DEF IInv, RunningInv, ThreadInv, TearDown
    <3>4. queue' = <<>> /\ ~coreLoaded' /\ ~gameLoaded'
      BY <1>1, <3>1, <3>2 DEF StartGoesOn, OwnSessionInv, BeforeInv
    <3>5. pc'[Game] \notin {"load_core", "load_rom", "handle"}
      BY <1>1, <3>3 DEF CallerMoves, Alive, At
    <3>. QED  BY <3>4, <3>5 DEF Ours, At
  <2>. QED  BY <2>2, <2>3
<1>. QED  BY <1>6, <1>7, <1>8, <1>9, <1>10 DEF OwnSessionInv

\* The game thread goes on.
LEMMA GameKeepsSession ==
  ASSUME IInv, IInv', NoCancel, FlightInv, ~cancelled, OwnSessionInv, GameRuns
  PROVE  OwnSessionInv'
<1>0. /\ Ui \in Callers /\ Workers \subseteq Callers /\ Callers \subseteq Threads
      /\ Game \notin Callers
      /\ UNCHANGED <<at, token, ui, ok>> /\ Track(0)
  BY SwitchCallers, GameNotCaller DEF Threads, GameRuns, svars
<1>1. GameStep
  BY DEF GameRuns, NoCancel, GameLabels, SharedStep, StopLock, StopRequest, StopClose, StopExited,
     StopTimeout, StopJoin, StopClear, StopState, StopFlags, ResetLock, ResetCheck, ResetQueue,
     ResetCore, ResetState, ResetReturn
<1>2. GameMoves BY <1>1, GameStepMoves DEF IInv
<1>3. GameBrings BY <1>1, GameStepSession DEF OwnSessionInv
<1>4. /\ \A u \in Callers : pc'[u] = pc[u] /\ op'[u] = op[u]
      /\ UNCHANGED running /\ Alive
  BY <1>0, <1>2 DEF GameMoves, Goto, IInv, TypeOK, PcType, OpType, Alive, At
<1>5. TagsInv'
  BY <1>0, <1>3, TagsFollow, HandlingFollows DEF OwnSessionInv, TagsInv, GameBrings
<1>6. CallsInv'
  BY <1>0, <1>4 DEF OwnSessionInv, CallsInv
<1>7. AloneInv'
  BY <1>0, <1>3, <1>4 DEF OwnSessionInv, AloneInv, GameBrings, Popped, At, IInv,
     RunningInv, ThreadInv
<1>8. BeforeInv'
  <2>1. \A w \in Workers :
          pc[w] \notin {"reset_core", "reset_state", "start_arm", "start_spawn"}
    BY <1>0, <1>4 DEF IInv, RunningInv, ThreadInv, TearDown
  <2>. QED  BY <1>0, <1>4, <2>1 DEF OwnSessionInv, BeforeInv
<1>9. OursInv'
  <2>1. SUFFICES ASSUME NEW w \in Workers, Owns(w)' PROVE Ours(token[w])'
    BY DEF OursInv
  <2>2. token[w] \in Nat BY DEF FlightInv, TokensTyped
  <2>3. PICK n \in Nat : n = token[w] BY <2>2
  <2>4. Ours(n) BY <1>0, <1>4, <2>1, <2>3 DEF OwnSessionInv, OursInv, Owns
  <2>5. /\ queue' = queue \/ Popped
        /\ coreLoaded' => coreLoaded \/ At("load_core")
        /\ gameLoaded' => gameLoaded \/ At("load_rom")
        /\ \/ Popped /\ pc'[Game] = "handle"
           \/ msg' = NoMsg /\ (pc'[Game] \in {"load_core", "load_rom"} =>
                                 At("handle") /\ msg \in Loads)
    BY <1>3 DEF GameBrings, Popped, Loads
  <2>6. Ours(n)' BY <1>0, <2>4, <2>5, OursStays DEF OwnSessionInv
  <2>. QED  BY <1>0, <2>3, <2>6
<1>. QED  BY <1>5, <1>6, <1>7, <1>8, <1>9 DEF OwnSessionInv

\* A step of a switch outside the engine.
LEMMA PlacesChange ==
  ASSUME FlightInv, OwnSessionInv, UNCHANGED <<vars, origin, token, ok, ui>>,
         \A u \in Workers :
           \/ at'[u] = at[u]
           \/ /\ pc[u] = "idle" /\ at'[u] # "starting"
              /\ at'[u] = "start" => ~running
              /\ at'[u] \in OwnPlaces => Owns(u)
  PROVE  OwnSessionInv'
<1>. USE DEF OwnSessionInv, vars, flags, mq, core, origin
<1>1. TagsInv' BY DEF TagsInv
<1>2. CallsInv' BY DEF CallsInv
<1>3. AloneInv' BY DEF AloneInv, At
<1>4. BeforeInv' BY DEF BeforeInv
<1>5. OursInv'
  <2>1. SUFFICES ASSUME NEW w \in Workers, Owns(w)' PROVE Ours(token[w])'
    BY DEF OursInv
  <2>2. Owns(w) BY <2>1 DEF Owns
  <2>3. Ours(token[w]) BY <2>2 DEF OursInv
  <2>. QED  BY <2>3 DEF Ours, At
<1>. QED  BY <1>1, <1>2, <1>3, <1>4, <1>5

\* A switch calls the engine.
LEMMA CallBegins ==
  ASSUME IInv, FlightInv, OwnSessionInv, NEW w \in Workers, NEW l \in DOMAIN OpOf,
         Call(w, OpOf[l]), at' = [at EXCEPT ![w] = l],
         UNCHANGED <<origin, token, ok, ui>>,
         l = "starting" => at[w] = "start",
         l = "core_sent" => at[w] = "load_core"
  PROVE  OwnSessionInv'
<1>0. /\ w \in Callers /\ Ui \in Callers /\ Ui # w /\ Workers \subseteq Callers /\ w # Game
      /\ Callers \subseteq Threads /\ DOMAIN pc = Threads /\ DOMAIN op = Threads /\ w \in DOMAIN at
      /\ Game \notin Callers
  BY SwitchCallers, GameNotCaller DEF Threads, IInv, TypeOK, PcType, OpType, FlightInv, TokensTyped
<1>1. /\ \A u \in Threads \ {w} : pc'[u] = pc[u] /\ op'[u] = op[u]
      /\ op'[w] = OpOf[l]
      /\ pc'[w] \in {"start_lock", "stop_lock", "reset_lock", "load_lock"}
      /\ at'[w] = l /\ \A u \in Workers \ {w} : at'[u] = at[u]
  BY <1>0 DEF Call, Goto, OpOf, FlightInv, TokensTyped
<1>2. pc'[Game] = pc[Game] BY <1>0, <1>1 DEF Threads
<1>. USE DEF OwnSessionInv, Call, flags, mq, core, origin
<1>3. TagsInv' BY DEF TagsInv
<1>4. CallsInv' BY <1>0, <1>1 DEF CallsInv
<1>5. AloneInv' BY <1>0, <1>1, <1>2 DEF AloneInv, At
<1>6. BeforeInv' BY <1>0, <1>1 DEF BeforeInv, OpOf
<1>7. OursInv'
  <2>1. SUFFICES ASSUME NEW u \in Workers, Owns(u)' PROVE Ours(token[u])'
    BY DEF OursInv
  <2>2. Owns(u)
    <3>1. CASE u = w
      <4>1. l = "core_sent" BY <1>1, <2>1, <3>1 DEF Owns, OwnPlaces, OpOf
      <4>. QED  BY <3>1, <4>1 DEF Owns, OwnPlaces
    <3>2. CASE u # w BY <1>0, <1>1, <2>1, <3>2 DEF Owns
    <3>. QED  BY <3>1, <3>2
  <2>3. Ours(token[u]) BY <2>2 DEF OursInv
  <2>. QED  BY <1>2, <2>3 DEF Ours, At
<1>. QED  BY <1>3, <1>4, <1>5, <1>6, <1>7

\* A switch posts its game.
LEMMA PushKeepsSession ==
  ASSUME IInv, FlightInv, ~cancelled, OwnSessionInv, NEW w \in Workers, PushGame(w)
  PROVE  OwnSessionInv'
<1>0. /\ queue \in Seq(Messages) /\ tags \in Seq(Nat) /\ Len(tags) = Len(queue)
      /\ token[w] \in Nat /\ DOMAIN at = Workers
  BY DEF IInv, TypeOK, OwnSessionInv, TagsInv, FlightInv, TokensTyped
<1>1. CASE ~LoadGame(w)
  BY <1>0, <1>1, PlacesChange DEF PushGame, Goes, Move, origin, OwnPlaces, OwnSessionInv,
     CallsInv, OpOf
<1>2. CASE LoadGame(w)
  <2>1. /\ at[w] = "push_game" /\ at' = [at EXCEPT ![w] = "wait_running"]
        /\ queue' = Append(queue, "LoadGame") /\ tags' = Append(tags, token[w])
        /\ UNCHANGED <<token, ok, ui, handling, current, state, flags, core, pc, op, msg>>
    BY <1>2 DEF PushGame, LoadGame, Idle, Goes, Move, Push, vars, mq
  <2>2. \A u \in Workers \ {w} : at[u] \in Outside /\ at'[u] = at[u]
    BY <1>0, <2>1, OneWorks DEF Outside
  <2>3. at'[w] = "wait_running" /\ Owns(w) BY <1>0, <2>1 DEF Owns, OwnPlaces
  <2>4. TagsInv' BY <1>0, <2>1 DEF TagsInv, OwnSessionInv, Messages, Posts
  <2>5. CallsInv' BY <2>1, <2>2, <2>3 DEF CallsInv, OwnSessionInv, OpOf
  <2>6. AloneInv' BY <2>1 DEF AloneInv, OwnSessionInv, flags, At
  <2>7. BeforeInv' BY <2>2, <2>3 DEF BeforeInv, Outside
  <2>8. OursInv'
    <3>1. SUFFICES Ours(token[w])'
      BY <2>1, <2>2 DEF OursInv, Owns, OwnPlaces, Outside
    <3>2. Ours(token[w]) BY <2>3 DEF OwnSessionInv, OursInv
    <3>3. \A i \in DOMAIN queue' :
            \/ i \in DOMAIN queue /\ queue'[i] = queue[i] /\ tags'[i] = tags[i]
            \/ tags'[i] = token[w]
      BY <1>0, <2>1 DEF Messages, Posts
    <3>. QED  BY <2>1, <3>2, <3>3 DEF Ours, At, core
  <2>. QED  BY <2>4, <2>5, <2>6, <2>7, <2>8 DEF OwnSessionInv
<1>. QED  BY <1>1, <1>2

\* A switch moves on.
LEMMA WorkerKeepsSession ==
  ASSUME IInv, FlightInv, ~cancelled, OwnSessionInv, NEW w \in Workers, WorkerStep(w)
  PROVE  OwnSessionInv'
<1>0. DOMAIN at = Workers /\ \A u \in Workers : at[u] \notin DOMAIN OpOf => pc[u] = "idle"
  BY DEF FlightInv, TokensTyped, OwnSessionInv, CallsInv
<1>1. CASE AcquireSwitchToken(w)
  BY <1>0, <1>1, PlacesChange DEF AcquireSwitchToken, Move, OwnPlaces, OpOf
<1>2. CASE ReleaseSwitchToken(w)
  BY <1>0, <1>2, PlacesChange DEF ReleaseSwitchToken, Move, Woken, OwnPlaces, OpOf
<1>3. CASE Begin(w)
  <2>1. CASE Calls(w, "Stop", "stopping")
    BY <1>3, <2>1, CallBegins DEF Begin, Calls, Move, Quiet, OpOf
  <2>2. CASE ~Calls(w, "Stop", "stopping")
    BY <1>0, <1>3, <2>2, PlacesChange DEF Begin, Goes, Move, Quiet, OwnPlaces, OpOf, OwnSessionInv,
       AloneInv
  <2>. QED  BY <2>1, <2>2
<1>4. CASE Proceed(w)
  <2>1. PICK l \in DOMAIN OpOf \cup {"done", "push_game"} :
          /\ Move(w, l)
          /\ l \in DOMAIN OpOf => Call(w, OpOf[l])
          /\ l \notin DOMAIN OpOf => UNCHANGED vars
          /\ l = "starting" => at[w] = "start"
          /\ l = "core_sent" => at[w] = "load_core"
          /\ l = "push_game" => at[w] = "load_game"
          /\ at[w] \notin DOMAIN OpOf
    BY <1>4 DEF Proceed, Goes, Calls, Move, OpOf
  <2>2. CASE l \in DOMAIN OpOf
    BY <1>4, <2>1, <2>2, CallBegins DEF Proceed, Move, Quiet
  <2>3. CASE l \notin DOMAIN OpOf
    BY <1>0, <1>4, <2>1, <2>3, PlacesChange DEF Proceed, Move, Quiet, OwnPlaces, OpOf, Owns
  <2>. QED  BY <2>2, <2>3
<1>5. CASE Returned(w)
  <2>1. PICK l \in {"wait_stopped", "stop_failed", "files_dir", "recover", "wait_core", "reset",
                   "done"} :
          /\ Move(w, l) /\ UNCHANGED vars /\ pc[w] = "idle"
          /\ l = "files_dir" => at[w] = "starting" /\ ok[w]
          /\ l = "wait_core" => at[w] = "core_sent"
    BY <1>5 DEF Returned, Goes, Move, Idle
  <2>. QED  BY <1>0, <1>5, <2>1, PlacesChange DEF Returned, Move, Quiet, OwnPlaces, Owns
<1>6. CASE SetFilesDir(w)
  BY <1>0, <1>6, PlacesChange DEF SetFilesDir, Goes, Move, Quiet, OwnPlaces, OpOf, Owns
<1>7. CASE PushGame(w) BY <1>7, PushKeepsSession
<1>8. CASE WaitForState(w)
  <2>1. PICK l \in {"start", "load_game", "done", "recover", "reset"} :
          /\ at' = at \/ at' = [at EXCEPT ![w] = l]
          /\ l = "start" => state = "STOPPED"
          /\ l = "load_game" => at[w] = "wait_core"
          /\ at[w] \notin DOMAIN OpOf
    BY <1>8 DEF WaitForState, Waits, Move, OpOf
  <2>2. UNCHANGED <<vars, origin, token, ok, ui>> BY <1>8 DEF WaitForState
  <2>. QED  BY <1>0, <2>1, <2>2, PlacesChange DEF OwnPlaces, Owns, OwnSessionInv, AloneInv
<1>. QED  BY <1>1, <1>2, <1>3, <1>4, <1>5, <1>6, <1>7, <1>8 DEF WorkerStep

\* A new request disturbs nobody.
LEMMA RequestKeepsSession ==
  ASSUME FlightInv, OwnSessionInv, NEW w \in Workers, Request(w) PROVE OwnSessionInv'
<1>0. /\ at[w] = "free" /\ at' = [at EXCEPT ![w] = "acquire"]
      /\ \A u \in Workers \ {w} : token'[u] = token[u]
      /\ DOMAIN at = Workers /\ pc[w] = "idle"
      /\ UNCHANGED <<vars, origin, ok, ui>>
  BY DEF Request, Move, history, FlightInv, TokensTyped, OwnSessionInv, CallsInv, OpOf
<1>. USE <1>0 DEF OwnSessionInv, vars, flags, mq, core, origin
<1>1. TagsInv' BY DEF TagsInv
<1>2. CallsInv' BY DEF CallsInv
<1>3. AloneInv' BY DEF AloneInv, At
<1>4. BeforeInv' BY DEF BeforeInv
<1>5. OursInv'
  <2>1. SUFFICES ASSUME NEW u \in Workers, Owns(u)' PROVE Ours(token[u])'
    BY DEF OursInv
  <2>2. u # w /\ Owns(u) BY <2>1 DEF Owns, OwnPlaces
  <2>3. Ours(token[u]) BY <2>2 DEF OursInv
  <2>. QED  BY <2>2, <2>3 DEF Ours, At
<1>. QED  BY <1>1, <1>2, <1>3, <1>4, <1>5

\* Nobody is at work at first, and nothing is queued or loaded.
LEMMA SessionInit == SwitchInit => OwnSessionInv
<1>. SUFFICES ASSUME SwitchInit PROVE OwnSessionInv OBVIOUS
<1>0. /\ \A u \in Callers : pc[u] = "idle"
      /\ \A w \in Workers : w \in Callers /\ at[w] = "free"
      /\ Ui \in Callers
  BY SwitchCallers, GameNotCaller DEF SwitchInit, Init, Threads
<1>. USE <1>0 DEF SwitchInit, Init
<1>1. TagsInv BY DEF TagsInv
<1>2. CallsInv BY DEF CallsInv
<1>3. AloneInv BY DEF AloneInv
<1>4. BeforeInv BY DEF BeforeInv
<1>5. OursInv BY DEF OursInv, Owns, OwnPlaces
<1>. QED  BY <1>1, <1>2, <1>3, <1>4, <1>5 DEF OwnSessionInv

\* A cancel is remembered, and nothing else counts as one.
LEMMA CancelledIs ==
  ASSUME [SwitchNext]_allvars, ~cancelled' PROVE ~cancelled /\ ~CancelBumpsToken
<1>1. ~CancelBumpsToken BY DEF CancelBumpsToken
<1>2. CASE UNCHANGED allvars BY <1>1, <1>2 DEF allvars, svars, history
<1>3. CASE SwitchNext
  <2>1. ASSUME NEW w \in Workers, Request(w) \/ WorkerStep(w) \/ CallerRuns(w)
        PROVE  UNCHANGED cancelled
    BY <2>1 DEF Request, WorkerStep, CallerRuns, AcquireSwitchToken, ReleaseSwitchToken,
       Begin, Proceed, Returned, SetFilesDir, PushGame, WaitForState, Quiet, history
  <2>2. ASSUME UiStep \/ GameRuns PROVE UNCHANGED cancelled
    BY <2>2 DEF UiStep, CancelReleasesToken, CancelReachesEngine, GameRuns, svars, history
  <2>. QED  BY <1>1, <1>3, <2>1, <2>2 DEF SwitchNext
<1>. QED  BY <1>2, <1>3

\* Until somebody cancels, the session is the switch's own and the state is true.
SessionUntilCancel == cancelled \/ (MatchInv /\ OwnSessionInv)

\* Every step keeps it so.
LEMMA SessionNext ==
  IInv /\ IInv' /\ FlightInv /\ SessionUntilCancel /\ [SwitchNext]_allvars
    => SessionUntilCancel'
<1>. SUFFICES ASSUME IInv, IInv', FlightInv, SessionUntilCancel, [SwitchNext]_allvars,
                     ~cancelled'
              PROVE  MatchInv' /\ OwnSessionInv'
  BY DEF SessionUntilCancel
<1>0. ~cancelled /\ ~CancelBumpsToken /\ MatchInv /\ OwnSessionInv
  BY CancelledIs DEF SessionUntilCancel
<1>1. ui = "idle" /\ NoCancel /\ NoCancelPosted
  BY <1>0 DEF OwnSessionInv, CallsInv, MatchInv, NoCancel
<1>2. MatchInv'
  <2>1. NoCancelPosted' BY <1>0, <1>1, SwitchNeverCancels DEF NeverCancels
  <2>. QED  BY <1>0, <2>1, SwitchEngineStep, StepMatch
<1>3. OwnSessionInv'
  <2>1. CASE UNCHANGED allvars
    BY <1>0, <2>1, PlacesChange DEF allvars, svars
  <2>2. ASSUME NEW w \in Workers, Request(w) PROVE OwnSessionInv'
    BY <1>0, <2>2, RequestKeepsSession
  <2>3. ASSUME NEW w \in Workers, WorkerStep(w) PROVE OwnSessionInv'
    BY <1>0, <2>3, WorkerKeepsSession
  <2>4. ASSUME NEW w \in Workers, CallerRuns(w) PROVE OwnSessionInv'
    BY <1>0, <2>4, CallerKeepsSession
  <2>5. CASE GameRuns
    BY <1>0, <1>1, <2>5, GameKeepsSession
  <2>6. ~UiStep BY <1>1 DEF UiStep, CancelReleasesToken, CancelReachesEngine
  <2>. QED  BY <1>0, <2>1, <2>2, <2>3, <2>4, <2>5, <2>6 DEF SwitchNext
<1>. QED  BY <1>2, <1>3

\* Until somebody cancels, the messages, the core and the game of a switch that
\* has come through Start stem from its own request, however many switches it
\* superseded, and the state it polls agrees with what is loaded.
THEOREM SessionIsOwn == SwitchSpec => []SessionUntilCancel
<1>1. SwitchInit => SessionUntilCancel
  BY InitMatch, SessionInit DEF SwitchInit, SessionUntilCancel
<1>2. SwitchSpec => []IInv BY SwitchUsesEngine, Invariance, PTL
<1>. QED  BY <1>1, <1>2, SessionNext, TokensInOrder, PTL DEF SwitchSpec

\* Where success is reported: RUNNING is seen by the switch that waits for it.
LEMMA SuccessSeen ==
  ASSUME [SwitchNext]_allvars, won' # won
  PROVE  \E v \in Workers : won' = token[v] /\ at[v] = "wait_running" /\ state = "RUNNING"
<1>1. CASE UNCHANGED allvars BY <1>1 DEF allvars, svars, history
<1>2. ASSUME UiStep \/ GameRuns \/ CancelBumpsToken PROVE UNCHANGED won
  BY <1>2 DEF UiStep, CancelReleasesToken, CancelReachesEngine, CancelBumpsToken, GameRuns,
     svars, history
<1>3. ASSUME NEW w \in Workers, Request(w) \/ CallerRuns(w) PROVE UNCHANGED won
  BY <1>3 DEF Request, CallerRuns, history
<1>4. ASSUME NEW w \in Workers, WorkerStep(w), won' # won
      PROVE  won' = token[w] /\ at[w] = "wait_running" /\ state = "RUNNING"
  <2>1. WaitForState(w)
    BY <1>4 DEF WorkerStep, AcquireSwitchToken, ReleaseSwitchToken, Begin, Proceed, Returned,
       SetFilesDir, PushGame, Quiet, history
  <2>. QED  BY <1>4, <2>1 DEF WaitForState, Waits
<1>. QED  BY <1>1, <1>2, <1>3, <1>4 DEF SwitchNext

\* Until somebody cancels, a switch that reports success has brought up the core
\* and the game it was asked for, for any number of workers and requests.
THEOREM SuccessIsOwn == SwitchSpec => SuccessIsMine
<1>1. SessionUntilCancel /\ [SwitchNext]_allvars
        => [\A w \in Workers :
              won' = token[w] /\ won # won' /\ ~cancelled => Mine(token[w])]_allvars
  <2>. SUFFICES ASSUME SessionUntilCancel, [SwitchNext]_allvars, NEW w \in Workers,
                       won' = token[w], won # won', ~cancelled
                PROVE  Mine(token[w])
    OBVIOUS
  <2>1. MatchInv /\ OwnSessionInv BY DEF SessionUntilCancel
  <2>2. PICK v \in Workers : won' = token[v] /\ at[v] = "wait_running" /\ state = "RUNNING"
    BY SuccessSeen
  <2>3. Ours(token[w]) BY <2>1, <2>2 DEF OwnSessionInv, OursInv, Owns, OwnPlaces
  <2>4. coreLoaded /\ gameLoaded
    BY <2>1, <2>2 DEF MatchInv, LoadInv, StateMatchesCore, CoreLoadedStates
  <2>5. current \in [core : Nat, game : Nat] BY <2>1 DEF OwnSessionInv, TagsInv
  <2>. QED  BY <2>3, <2>4, <2>5 DEF Ours, Mine
<1>. QED  BY <1>1, SessionIsOwn, PTL DEF SwitchSpec, SuccessIsMine
=============================================================================
