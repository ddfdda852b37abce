------------------------- MODULE EngineClientsProofs -------------------------
(***************************************************************************)
(* What is proved of the clients of the engine: the synchronous tasks and  *)
(* the NAPI requests.                                                      *)
(*                                                                         *)
(* No task body runs on the game thread after its caller gave up.  The     *)
(* steps of EngineLifecycle are all quiet: they leave waiting callers and  *)
(* the task at hand alone, and take tasks from the queue but never add     *)
(* any.  A quiet step preserves TaskInv, and so does each step of a task.  *)
(*                                                                         *)
(* No path of an asynchronous binding leaks what it allocated or settles a *)
(* promise twice, and the gate of StopEngineAsync is opened by every path  *)
(* that shuts it; that proof is about the contexts, the pool and its       *)
(* workers alone.  Their steps on the engine are steps of EngineLifecycle. *)
(* The gate of StopEngineAsync keeps a Reset away from its Stop, so what   *)
(* ArkTS sees of the engine is true as long as it resets with the gate     *)
(* open; and as long as it cancels no switch, the state is that of what is *)
(* loaded.  With no condition at all the same holds until the first Reset  *)
(* that meets a Stop, and until the first Cancel: the last section proves  *)
(* that of EngineHistory.                                                  *)
(***************************************************************************)
EXTENDS SyncTask, NapiRequests, EngineHistory, EngineLifecycleProofs

-----------------------------------------------------------------------------
(***************************************************************************)
(* Synchronous tasks                                                       *)
(***************************************************************************)
\* What a step of EngineLifecycle does as far as tasks can tell.
Quiet ==
  /\ DOMAIN pc' = Threads
  /\ \A t \in Callers : pc'[t] = "task_wait" <=> pc[t] = "task_wait"
  /\ pc'[Game] \in {"task", "task_body"} => pc'[Game] = pc[Game] /\ msg' = msg
  /\ msg' = msg \/ msg' \notin Tasks
  /\ \/ queue' \in {queue, <<>>}
     \/ \E m \in Messages : queue' = Append(queue, m)
     \/ queue # <<>> /\ queue' = Tail(queue)

TaskLabel == {"task_wait", "task", "task_body"}

-----------------------------------------------------------------------------
\* The steps of EngineLifecycle are quiet.

\* A thread that goes from one ordinary label to another disturbs no task.
LEMMA GotoQuiet ==
  ASSUME DOMAIN pc = Threads, NEW t \in Threads, pc[t] \notin TaskLabel,
         NEW l, l \notin TaskLabel, pc' = [pc EXCEPT ![t] = l], msg' = msg,
         \/ queue' \in {queue, <<>>}
         \/ \E m \in Messages : queue' = Append(queue, m)
  PROVE  Quiet
  BY DEF Quiet, TaskLabel, Threads

\* The game thread goes on and is through with its message, or has a new one.
LEMMA GameGoesQuiet ==
  ASSUME DOMAIN pc = Threads, NEW l, l \notin TaskLabel,
         pc' = [pc EXCEPT ![Game] = l], msg' = msg \/ msg' \notin Tasks,
         queue' = queue \/ (queue # <<>> /\ queue' = Tail(queue))
  PROVE  Quiet
  BY GameNotCaller DEF Quiet, TaskLabel, Threads

\* A caller begins an operation, or posts a message.
LEMMA CallBeginsQuiet ==
  ASSUME DOMAIN pc = Threads, CallerBegins PROVE Quiet
<1>. USE DEF mq, Idle, TaskLabel
<1>1. PICK t \in Callers : (\E o \in AllOps : Call(t, o) \/ Post(t, o)) \/ LoadGame(t)
  BY DEF CallerBegins
<1>2. t \in Threads BY DEF Threads
<1>3. ASSUME NEW o \in AllOps, Call(t, o) PROVE Quiet
  <2>1. PICK l \in {"start_lock", "stop_lock", "reset_lock", "load_lock"} : Goto(t, l)
    BY <1>3 DEF Call, AllOps, Posts
  <2>. QED  BY <1>2, <1>3, <2>1, GotoQuiet DEF Call, Goto
<1>4. ASSUME NEW o \in AllOps, Post(t, o) PROVE Quiet
  BY <1>4, GameNotCaller DEF Post, Push, Messages, Quiet, Threads
<1>5. ASSUME LoadGame(t) PROVE Quiet
  BY <1>5, GameNotCaller DEF LoadGame, Push, Messages, Posts, Quiet, Threads
<1>. QED  BY <1>1, <1>3, <1>4, <1>5

\* LoadCore and Start.
LEMMA CallerStepQuiet ==
  ASSUME DOMAIN pc = Threads, NEW t \in Callers, CallerStep(t) PROVE Quiet
<1>. USE GotoQuiet DEF mq, Goto, Return, Acquire, TaskLabel
<1>0. t \in Threads BY DEF Threads
<1>1. CASE LoadCoreLock(t) BY <1>0, <1>1 DEF LoadCoreLock
<1>2. CASE LoadCorePush(t) BY <1>0, <1>2 DEF LoadCorePush, Push, Messages
<1>3. CASE StartLock(t) BY <1>0, <1>3 DEF StartLock
<1>4. CASE StartCheck(t) BY <1>0, <1>4 DEF StartCheck, StartReturns
<1>5. CASE StartArm(t) BY <1>0, <1>5 DEF StartArm
<1>6. CASE StartSpawn(t) BY <1>0, <1>6, GameNotCaller DEF StartSpawn, Quiet, Threads
<1>7. CASE StartSpawnFails(t) BY <1>0, <1>7 DEF StartSpawnFails, StartReturns
<1>8. CASE StartRender(t) BY <1>0, <1>8 DEF StartRender, StartReturns
<1>9. CASE StartRenderFails(t) BY <1>0, <1>9 DEF StartRenderFails
<1>10. CASE StartJoin(t) BY <1>0, <1>10 DEF StartJoin, StartReturns
<1> QED BY <1>1, <1>2, <1>3, <1>4, <1>5, <1>6, <1>7, <1>8, <1>9, <1>10 DEF CallerStep

\* Stop returns.
LEMMA StopReturnsQuiet ==
  ASSUME DOMAIN pc = Threads, NEW t \in Threads, NEW result, pc[t] \notin TaskLabel,
         StopReturns(t, result), msg' = msg, queue' = queue
  PROVE  Quiet
  BY GotoQuiet DEF StopReturns, Return, Goto, AfterReset, TaskLabel

\* Stop and Reset.
LEMMA SharedStepQuiet ==
  ASSUME DOMAIN pc = Threads, NEW t \in Threads, SharedStep(t) PROVE Quiet
<1>. USE GotoQuiet DEF mq, Goto, Return, Acquire, TaskLabel
<1>1. CASE StopLock(t) BY <1>1 DEF StopLock
<1>2. CASE StopRequest(t)
  <2>1. CASE Push("Stop") /\ Goto(t, "stop_close")
    BY <1>2, <2>1 DEF StopRequest, Push, Messages
  <2>2. CASE ~(Push("Stop") /\ Goto(t, "stop_close"))
    BY <1>2, <2>2, StopReturnsQuiet DEF StopRequest
  <2>. QED  BY <2>1, <2>2
<1>3. CASE StopClose(t) BY <1>3 DEF StopClose
<1>4. CASE StopExited(t) BY <1>4 DEF StopExited
<1>5. CASE StopTimeout(t) BY <1>5, StopReturnsQuiet DEF StopTimeout
<1>6. CASE StopJoin(t) BY <1>6 DEF StopJoin
<1>7. CASE StopClear(t) BY <1>7 DEF StopClear
<1>8. CASE StopState(t) BY <1>8 DEF StopState
<1>9. CASE StopFlags(t) BY <1>9, StopReturnsQuiet DEF StopFlags
<1>10. CASE ResetLock(t) BY <1>10 DEF ResetLock
<1>11. CASE ResetCheck(t) BY <1>11 DEF ResetCheck
<1>12. CASE ResetQueue(t) BY <1>12 DEF ResetQueue
<1>13. CASE ResetCore(t) BY <1>13 DEF ResetCore
<1>14. CASE ResetState(t) BY <1>14 DEF ResetState, AfterReset
<1>15. CASE ResetReturn(t) BY <1>15 DEF ResetReturn
<1> QED BY <1>1, <1>2, <1>3, <1>4, <1>5, <1>6, <1>7, <1>8, <1>9, <1>10, <1>11, <1>12,
     <1>13, <1>14, <1>15 DEF SharedStep

\* HandleMessage returns.
LEMMA HandleDoneQuiet ==
  ASSUME DOMAIN pc = Threads, HandleDone, msg' = msg \/ msg' \notin Tasks, queue' = queue
  PROVE  Quiet
<1>1. PICK l \in {"drain", "top"} : pc' = [pc EXCEPT ![Game] = l]
  BY DEF HandleDone, Goto
<1>. QED  BY <1>1, GameGoesQuiet DEF TaskLabel

\* The game thread at a message.
LEMMA GameStepQuiet ==
  ASSUME DOMAIN pc = Threads, queue \in Seq(Messages \cup Tasks), GameStep,
         ~((At("drain") \/ At("wait")) /\ TaskNext)
  PROVE  Quiet
<1>. USE GameGoesQuiet, HandleDoneQuiet, TasksApart DEF mq, Goto, TaskLabel, At, Handles
<1>0. NoMsg \notin Tasks OBVIOUS
<1>1. CASE GameTop BY <1>1 DEF GameTop
<1>2. CASE GameDrain BY <1>2 DEF GameDrain, Pop, TaskNext
<1>3. CASE GameDrained BY <1>3 DEF GameDrained
<1>4. CASE GameFrame BY <1>4 DEF GameFrame
<1>5. CASE GameWait BY <1>5 DEF GameWait, Pop, TaskNext
<1>6. CASE GameExit BY <1>6 DEF GameExit
<1>7. CASE HandlePauseResume BY <1>0, <1>7 DEF HandlePauseResume
<1>8. CASE HandleIgnored BY <1>0, <1>8 DEF HandleIgnored
<1>9. CASE HandleStop BY <1>0, <1>9 DEF HandleStop
<1>10. CASE GameStopping BY <1>10 DEF GameStopping
<1>11. CASE HandleCancel BY <1>0, <1>11 DEF HandleCancel
<1>12. CASE CancelDone BY <1>12 DEF CancelDone
<1>13. CASE HandleLoadCore BY <1>0, <1>13 DEF HandleLoadCore
<1>14. CASE GameLoadCore BY <1>14 DEF GameLoadCore
<1>15. CASE HandleLoadRom BY <1>0, <1>15 DEF HandleLoadRom
<1>16. CASE GameLoadRom BY <1>16 DEF GameLoadRom
<1>17. CASE GameLoadRomFails BY <1>17 DEF GameLoadRomFails
<1>18. CASE GameRomReady BY <1>18 DEF GameRomReady
<1>19. CASE GameRomReadyFails BY <1>19 DEF GameRomReadyFails
<1>20. CASE GameGoesRunning BY <1>20 DEF GameGoesRunning
<1>21. CASE GameAudio BY <1>21 DEF GameAudio
<1> QED BY <1>1, <1>2, <1>3, <1>4, <1>5, <1>6, <1>7, <1>8, <1>9, <1>10, <1>11, <1>12,
     <1>13, <1>14, <1>15, <1>16, <1>17, <1>18, <1>19, <1>20, <1>21 DEF GameStep

-----------------------------------------------------------------------------
\* A quiet step preserves the invariant.

\* What is on its way after a quiet step was on its way before it.
LEMMA QuietPending ==
  ASSUME TasksTyped, Quiet, NEW k \in Tasks, Pending(k)' PROVE Pending(k)
<1>. USE TasksApart DEF TasksTyped, Pending, InQueue
<1>1. CASE msg' = k BY <1>1 DEF Quiet
<1>2. CASE msg' # k
  <2>1. PICK i \in DOMAIN queue' : queue'[i] = k BY <1>2
  <2>2. CASE queue' \in {queue, <<>>} BY <2>1, <2>2
  <2>3. ASSUME NEW m \in Messages, queue' = Append(queue, m) PROVE Pending(k)
    <3>1. m # k OBVIOUS
    <3>. QED  BY <2>1, <2>3, <3>1
  <2>4. CASE queue # <<>> /\ queue' = Tail(queue)
    <3>1. i + 1 \in DOMAIN queue /\ queue[i + 1] = k BY <2>1, <2>4
    <3>. QED  BY <3>1
  <2>. QED  BY <2>2, <2>3, <2>4 DEF Quiet
<1>. QED  BY <1>1, <1>2

\* The queue keeps its type, and a task is in it once.
LEMMA QuietQueue ==
  ASSUME TasksTyped, OnItsWayOnce, Quiet
  PROVE  queue' \in Seq(Messages \cup Tasks) /\ OnItsWayOnce'
<1>. USE TasksApart DEF TasksTyped
<1>1. queue' \in Seq(Messages \cup Tasks)
  <2>0. CASE queue' = queue BY <2>0
  <2>1. CASE queue' = <<>> BY <2>1
  <2>2. ASSUME NEW m \in Messages, queue' = Append(queue, m)
        PROVE  queue' \in Seq(Messages \cup Tasks)
    BY <2>2
  <2>3. CASE queue # <<>> /\ queue' = Tail(queue) BY <2>3
  <2>. QED  BY <2>0, <2>1, <2>2, <2>3 DEF Quiet
<1>2. \A i, j \in DOMAIN queue' : queue'[i] = queue'[j] /\ queue'[i] \in Tasks => i = j
  <2>1. CASE queue' \in {queue, <<>>} BY <2>1 DEF OnItsWayOnce
  <2>2. ASSUME NEW m \in Messages, queue' = Append(queue, m)
        PROVE  \A i, j \in DOMAIN queue' : queue'[i] = queue'[j] /\ queue'[i] \in Tasks => i = j
    <3>1. m \notin Tasks OBVIOUS
    <3>. QED  BY <2>2, <3>1 DEF OnItsWayOnce
  <2>3. CASE queue # <<>> /\ queue' = Tail(queue)
    <3>. SUFFICES ASSUME NEW i \in DOMAIN queue', NEW j \in DOMAIN queue',
                         queue'[i] = queue'[j], queue'[i] \in Tasks
                  PROVE  i = j
      OBVIOUS
    <3>1. /\ i + 1 \in DOMAIN queue /\ queue[i + 1] = queue'[i]
          /\ j + 1 \in DOMAIN queue /\ queue[j + 1] = queue'[j]
      BY <2>3
    <3>2. i \in Nat /\ j \in Nat BY <1>1
    <3>. QED  BY <3>1, <3>2 DEF OnItsWayOnce
  <2>. QED  BY <2>1, <2>2, <2>3 DEF Quiet
<1>3. msg' \in Tasks => ~InQueue(msg)'
  <2>. SUFFICES ASSUME msg' \in Tasks, InQueue(msg)' PROVE FALSE
    OBVIOUS
  <2>1. msg' = msg BY DEF Quiet
  <2>2. PICK i \in DOMAIN queue' : queue'[i] = msg' BY DEF InQueue
  <2>3. CASE queue' \in {queue, <<>>} BY <2>1, <2>2, <2>3 DEF OnItsWayOnce, InQueue
  <2>4. ASSUME NEW m \in Messages, queue' = Append(queue, m) PROVE FALSE
    <3>1. m # msg' OBVIOUS
    <3>. QED  BY <2>1, <2>2, <2>4, <3>1 DEF OnItsWayOnce, InQueue
  <2>5. CASE queue # <<>> /\ queue' = Tail(queue)
    <3>1. i + 1 \in DOMAIN queue /\ queue[i + 1] = msg' BY <2>2, <2>5
    <3>. QED  BY <2>1, <3>1 DEF OnItsWayOnce, InQueue
  <2>. QED  BY <2>3, <2>4, <2>5 DEF Quiet
<1>. QED  BY <1>1, <1>2, <1>3 DEF OnItsWayOnce

\* So the whole invariant is kept.
LEMMA QuietKeepsInv ==
  ASSUME TaskInv, Quiet, UNCHANGED <<kind, owner, abandoned, done>> PROVE TaskInv'
<1>. USE DEF TaskInv
<1>1. TasksTyped' /\ OnItsWayOnce' BY QuietQueue DEF TasksTyped, Quiet
<1>2. OwnersWait' BY DEF OwnersWait, TasksTyped, Quiet
<1>3. PendingIsOwned' BY QuietPending DEF PendingIsOwned
<1>4. BodyIsOwned' BY DEF BodyIsOwned, At, Quiet
<1>. QED  BY <1>1, <1>2, <1>3, <1>4

-----------------------------------------------------------------------------
\* The steps of the tasks themselves preserve it.

\* A caller that does not wait, before or after, owns nothing.
LEMMA CallerMovesKeepsInv ==
  ASSUME TaskInv, NEW t \in Callers, pc[t] # "task_wait", NEW l, l # "task_wait",
         pc' = [pc EXCEPT ![t] = l],
         UNCHANGED <<queue, msg, kind, owner, abandoned, done>>
  PROVE  TaskInv'
<1>. USE GameNotCaller DEF TaskInv, Threads
<1>1. TasksTyped' BY DEF TasksTyped
<1>2. OwnersWait' BY DEF OwnersWait, TasksTyped
<1>3. OnItsWayOnce' /\ PendingIsOwned'
  BY DEF OnItsWayOnce, PendingIsOwned, Pending, InQueue
<1>4. BodyIsOwned' BY DEF BodyIsOwned, At, TasksTyped
<1>. QED  BY <1>1, <1>2, <1>3, <1>4

\* Entering an operation, and running the body on the calling thread.
LEMMA TaskCallKeepsInv ==
  ASSUME TaskInv, NEW t \in Callers, TaskCall(t) \/ TaskInline(t) PROVE TaskInv'
<1>. USE CallerMovesKeepsInv DEF mq, Goto, Idle, Return, Acquire
<1>1. CASE CallSetFilesDir(t) BY <1>1 DEF CallSetFilesDir
<1>2. ASSUME NEW o \in DOMAIN Operation, CallTask(t, o) PROVE TaskInv'
  BY <1>2 DEF CallTask, tvars
<1>3. CASE TaskInline(t) BY <1>3 DEF TaskInline, TaskReturns
<1>. QED  BY <1>1, <1>2, <1>3 DEF TaskCall

\* Pushing a task that nobody holds.
LEMMA PushKeepsInv ==
  ASSUME TaskInv, NEW t \in Callers, pc[t] = "task_push", NEW k \in Tasks, Unused(k),
         Push(k), msg' = msg,
         kind' = [kind EXCEPT ![k] = op[t]], abandoned' = abandoned \ {k},
         done' = done \ {k},
         \/ /\ owner' = [owner EXCEPT ![k] = t]
            /\ pc' = [pc EXCEPT ![t] = "task_wait"]
         \/ /\ ~Operation[op[t]].waits /\ UNCHANGED owner
            /\ pc' = [pc EXCEPT ![t] = "idle"]
  PROVE  TaskInv'
<1>. USE GameNotCaller, FreeNotThread, TasksApart DEF TaskInv, TasksTyped, Threads
<1>1. TasksTyped' BY DEF Push
<1>2. owner[k] = Free /\ \A j \in Tasks : owner[j] # t
  BY DEF Unused, OwnersWait
<1>3. OwnersWait' BY <1>2 DEF OwnersWait
<1>4. ~Pending(k) /\ \A i \in DOMAIN queue : queue[i] # k
  BY DEF Unused, Pending, InQueue
<1>5. \A j \in Tasks : Pending(j)' => Pending(j) \/ j = k
  BY DEF Push, Pending, InQueue
<1>6. OnItsWayOnce'
  <2>1. \A i, j \in DOMAIN queue' : queue'[i] = queue'[j] /\ queue'[i] \in Tasks => i = j
    BY <1>4 DEF Push, OnItsWayOnce
  <2>2. msg' \in Tasks => ~InQueue(msg)'
    BY <1>4 DEF Push, OnItsWayOnce, Pending, InQueue
  <2>. QED  BY <2>1, <2>2 DEF OnItsWayOnce
<1>7. PendingIsOwned'
  <2>. SUFFICES ASSUME NEW j \in Tasks, Pending(j)'
                PROVE  /\ j \notin done'
                       /\ Operation[kind'[j]].waits => owner'[j] # Free \/ j \in abandoned'
    BY DEF PendingIsOwned
  <2>1. CASE j = k BY <2>1
  <2>2. CASE j # k BY <1>5, <2>2 DEF PendingIsOwned
  <2>. QED  BY <2>1, <2>2
<1>8. BodyIsOwned' BY <1>4 DEF BodyIsOwned, At, Pending
<1>. QED  BY <1>1, <1>3, <1>6, <1>7, <1>8

\* ExecuteSyncTask pushes the task, or leaves it to the caller, or is refused.
LEMMA ExecuteKeepsInv ==
  ASSUME TaskInv, NEW t \in Callers, ExecuteSyncTask(t) \/ PushTask(t) PROVE TaskInv'
<1>. USE DEF Goto, TaskReturns, Return
<1>1. CASE ExecuteSyncTask(t)
  <2>1. PICK l \in {"task_push", "task_inline"} : pc' = [pc EXCEPT ![t] = l]
    BY <1>1 DEF ExecuteSyncTask
  <2>. QED  BY <1>1, <2>1, CallerMovesKeepsInv DEF ExecuteSyncTask, mq, tvars
<1>2. CASE PushTask(t) /\ closed
  BY <1>2, CallerMovesKeepsInv DEF PushTask
<1>3. CASE PushTask(t) /\ ~closed
  BY <1>3, PushKeepsInv DEF PushTask
<1>. QED  BY <1>1, <1>2, <1>3

\* A waiting caller owns a task, and this is the one TaskOf finds.
LEMMA TaskOfWaiter ==
  ASSUME TaskInv, NEW t \in Callers, pc[t] = "task_wait"
  PROVE  TaskOf(t) \in Tasks /\ owner[TaskOf(t)] = t
  BY DEF TaskInv, OwnersWait, TaskOf

\* A caller that lets go of its task, done or abandoned, frees nobody else's.
LEMMA TaskReleaseKeepsInv ==
  ASSUME TaskInv, NEW t \in Callers, NEW k \in Tasks, owner[k] = t,
         pc' = [pc EXCEPT ![t] = "idle"], owner' = [owner EXCEPT ![k] = Free],
         UNCHANGED <<queue, msg, kind>>,
         \/ k \in done /\ done' = done \ {k} /\ abandoned' = abandoned
         \/ ~InBodyOf(t) /\ done' = done /\ abandoned' = abandoned \cup {k}
  PROVE  TaskInv'
<1>. USE GameNotCaller, FreeNotThread DEF TaskInv, TasksTyped, Threads
<1>1. TasksTyped' OBVIOUS
<1>2. OwnersWait' BY DEF OwnersWait
<1>3. OnItsWayOnce' BY DEF OnItsWayOnce, InQueue
<1>4. PendingIsOwned' BY DEF PendingIsOwned, Pending, InQueue
<1>5. At("task_body") => msg # k
  BY DEF InBodyOf, PendingIsOwned, Pending
<1>6. BodyIsOwned' BY <1>5 DEF BodyIsOwned, At
<1>. QED  BY <1>1, <1>2, <1>3, <1>4, <1>6

\* A wait ends with the answer or with the time-out.
LEMMA WaitEndsKeepsInv ==
  ASSUME TaskInv, NEW t \in Callers, TaskAnswer(t) \/ TaskTimeout(t) PROVE TaskInv'
<1>. USE TaskReleaseKeepsInv, TaskOfWaiter DEF TaskReturns, Return, mq
<1>1. CASE TaskAnswer(t) BY <1>1 DEF TaskAnswer
<1>2. CASE TaskTimeout(t) BY <1>2 DEF TaskTimeout, GiveUp
<1>. QED  BY <1>1, <1>2

\* The game thread takes the task from the queue; it is on its way as before.
LEMMA PopKeepsInv ==
  ASSUME TaskInv, PopTask PROVE TaskInv'
<1>. USE GameNotCaller DEF TaskInv, TasksTyped, Threads
<1>1. /\ queue # <<>> /\ Head(queue) \in Tasks
      /\ msg' = Head(queue) /\ queue' = Tail(queue)
      /\ pc' = [pc EXCEPT ![Game] = "task"]
      /\ UNCHANGED <<kind, owner, abandoned, done>>
  BY DEF PopTask, TaskNext, Pop, Goto, tvars
<1>2. \A i \in DOMAIN queue' : i \in Nat \ {0} /\ i + 1 \in DOMAIN queue
                               /\ queue[i + 1] = queue'[i]
  BY <1>1
<1>3. 1 \in DOMAIN queue /\ Head(queue) = queue[1] BY <1>1
<1>4. TasksTyped' BY <1>1
<1>5. OwnersWait' BY <1>1 DEF OwnersWait
<1>6. OnItsWayOnce'
  <2>1. \A i, j \in DOMAIN queue' : queue'[i] = queue'[j] /\ queue'[i] \in Tasks => i = j
    BY <1>2 DEF OnItsWayOnce
  <2>2. ~InQueue(msg)'
    BY <1>1, <1>2, <1>3 DEF OnItsWayOnce, InQueue
  <2>. QED  BY <2>1, <2>2 DEF OnItsWayOnce
<1>7. \A k \in Tasks : Pending(k)' => Pending(k)
  BY <1>1, <1>2, <1>3 DEF Pending, InQueue
<1>8. PendingIsOwned' BY <1>1, <1>7 DEF PendingIsOwned
<1>9. BodyIsOwned' BY <1>1 DEF BodyIsOwned, At
<1>. QED  BY <1>4, <1>5, <1>6, <1>8, <1>9

\* Run starts the body with the task's mutex if the caller did not give up.
LEMMA BodyStartsKeepsInv ==
  ASSUME TaskInv, RunTask, msg \notin abandoned PROVE TaskInv'
<1>. USE GameNotCaller DEF TaskInv, TasksTyped, Threads, mq
<1>1. /\ pc[Game] = "task" /\ pc' = [pc EXCEPT ![Game] = "task_body"]
      /\ UNCHANGED <<queue, msg, kind, owner, abandoned, done>>
  BY DEF RunTask, At, Goto
<1>2. msg \in Tasks BY <1>1 DEF BodyIsOwned
<1>3. Operation[kind[msg]].waits => owner[msg] # Free
  BY <1>2 DEF PendingIsOwned, Pending
<1>4. TasksTyped' BY <1>1
<1>5. OwnersWait' BY <1>1 DEF OwnersWait
<1>6. OnItsWayOnce' BY <1>1 DEF OnItsWayOnce, InQueue
<1>7. PendingIsOwned' BY <1>1 DEF PendingIsOwned, Pending, InQueue
<1>8. BodyIsOwned' BY <1>1, <1>2, <1>3 DEF BodyIsOwned, At
<1>. QED  BY <1>4, <1>5, <1>6, <1>7, <1>8

\* The task is through, run or skipped.
LEMMA FinishKeepsInv ==
  ASSUME TaskInv, At("task") \/ At("task_body"), FinishTask,
         UNCHANGED <<queue, kind, owner>>
  PROVE  TaskInv'
<1>. USE GameNotCaller DEF TaskInv, TasksTyped, Threads
<1>1. PICK l \in {"drain", "top"} : pc' = [pc EXCEPT ![Game] = l]
  BY DEF FinishTask, HandleDone, Goto
<1>2. msg \in Tasks /\ ~InQueue(msg) BY DEF BodyIsOwned, At, OnItsWayOnce
<1>3. msg' = NoMsg /\ NoMsg \notin Tasks BY TasksApart DEF FinishTask
<1>4. TasksTyped' BY <1>1
<1>5. OwnersWait' BY <1>1 DEF OwnersWait, At
<1>6. OnItsWayOnce' BY <1>3 DEF OnItsWayOnce
<1>7. \A k \in Tasks : Pending(k)' => Pending(k) /\ k # msg
  BY <1>2, <1>3 DEF Pending, InQueue
<1>8. PendingIsOwned' BY <1>7 DEF PendingIsOwned, FinishTask
<1>9. BodyIsOwned' BY <1>1 DEF BodyIsOwned, At
<1>. QED  BY <1>4, <1>5, <1>6, <1>8, <1>9

-----------------------------------------------------------------------------
\* Every step of the specification.

\* The game thread, at a message or at a task.
LEMMA GameWithTasksKeepsInv ==
  ASSUME TaskInv, GameWithTasks PROVE TaskInv'
<1>. USE DEF mq
<1>1. CASE /\ ~((At("drain") \/ At("wait")) /\ TaskNext)
           /\ GameStep /\ UNCHANGED tvars
  BY <1>1, GameStepQuiet, QuietKeepsInv DEF TaskInv, TasksTyped, tvars
<1>2. CASE PopTask BY <1>2, PopKeepsInv
<1>3. CASE RunTask
  BY <1>3, BodyStartsKeepsInv, FinishKeepsInv DEF RunTask
<1>4. CASE TaskBody BY <1>4, FinishKeepsInv DEF TaskBody
<1>. QED  BY <1>1, <1>2, <1>3, <1>4 DEF GameWithTasks

\* Nobody waits and nothing is queued at first.
LEMMA TaskInvInit == SyncInit => TaskInv
<1>. SUFFICES ASSUME SyncInit PROVE TaskInv
  OBVIOUS
<1>. USE GameNotCaller, FreeNotThread, TasksApart DEF SyncInit, Init, TaskInv, Threads
<1>1. TasksTyped BY DEF TasksTyped
<1>2. OwnersWait BY DEF OwnersWait
<1>3. OnItsWayOnce /\ PendingIsOwned
  BY DEF OnItsWayOnce, PendingIsOwned, Pending, InQueue
<1>4. BodyIsOwned BY DEF BodyIsOwned, At
<1>. QED  BY <1>1, <1>2, <1>3, <1>4

\* Every step preserves the invariant.
LEMMA TaskInvNext == TaskInv /\ [SyncNext]_syncvars => TaskInv'
<1>. SUFFICES ASSUME TaskInv, [SyncNext]_syncvars PROVE TaskInv'
  OBVIOUS
<1>0. DOMAIN pc = Threads BY DEF TaskInv, TasksTyped
<1>1. CASE CallerBegins /\ UNCHANGED tvars
  BY <1>0, <1>1, CallBeginsQuiet, QuietKeepsInv DEF tvars
<1>2. ASSUME NEW t \in Callers, TaskCall(t) PROVE TaskInv'
  BY <1>2, TaskCallKeepsInv
<1>3. ASSUME NEW t \in Callers, CallerProgress(t) PROVE TaskInv'
  <2>1. CASE CallerStep(t) /\ UNCHANGED tvars
    BY <1>0, <2>1, CallerStepQuiet, QuietKeepsInv DEF tvars
  <2>2. CASE SharedWithTasks(t)
    BY <1>0, <2>2, SharedStepQuiet, QuietKeepsInv DEF SharedWithTasks, Threads
  <2>3. CASE TaskStep(t)
    BY <2>3, ExecuteKeepsInv, TaskCallKeepsInv, WaitEndsKeepsInv DEF TaskStep
  <2>. QED  BY <1>3, <2>1, <2>2, <2>3 DEF CallerProgress
<1>4. CASE GameProgress
  BY <1>0, <1>4, GameWithTasksKeepsInv, SharedStepQuiet, QuietKeepsInv
  DEF GameProgress, SharedWithTasks, Threads
<1>5. CASE UNCHANGED syncvars
  BY <1>5 DEF syncvars, vars, tvars, mq, TaskInv, TasksTyped, OwnersWait, OnItsWayOnce,
     PendingIsOwned, BodyIsOwned, Pending, InQueue, At
<1>. QED  BY <1>1, <1>2, <1>3, <1>4, <1>5 DEF SyncNext

\* Tasks, their owners and the queue agree at all times.
THEOREM TasksAreOwned == SyncSpec => []TaskInv
  BY TaskInvInit, TaskInvNext, PTL DEF SyncSpec

\* The body of a task that is waited for only runs while its caller waits
\* (ExecuteSyncTask, EngineSyncTask::Run and Wait), for any number of callers,
\* tasks and messages, whatever stops, resets and faults come in between.
THEOREM NoBodyIsOrphan == SyncSpec => []NoOrphanBody
<1>1. TaskInv => NoOrphanBody
  BY DEF TaskInv, TasksTyped, OwnersWait, BodyIsOwned, NoOrphanBody, At
<1>. QED  BY <1>1, TasksAreOwned, PTL

-----------------------------------------------------------------------------
(***************************************************************************)
(* NAPI requests                                                           *)
(***************************************************************************)
\* Whatever a binding answers when it cannot be queued or fails settles the
\* promise.
LEMMA BindingsSettle ==
  ASSUME NEW b \in Asked PROVE b.setup \in Settled /\ b.failure \in Settled
<1>. USE DEF Binding, Settled
<1>1. b \in Bindings BY AskedBindings
<1>2. CASE b \in {GetSaveStateSizeAsync, GetCoreOptionsAsync, DiskControlGetSnapshotAsync}
  BY <1>2 DEF GetSaveStateSizeAsync, GetCoreOptionsAsync, DiskControlGetSnapshotAsync, Fetches
<1>3. CASE b \in {GetSRAMAsync, SetSRAMAsync, ResetCoreAsync, CheatResetAsync, CheatSetAsync,
                  SetCoreOptionAsync, SaveStateAsync, SaveStateBundleAsync, LoadStateAsync}
  BY <1>3 DEF GetSRAMAsync, SetSRAMAsync, ResetCoreAsync, CheatResetAsync, CheatSetAsync,
     SetCoreOptionAsync, SaveStateAsync, SaveStateBundleAsync, LoadStateAsync, Answers
<1>4. CASE b \in {DiskControlSetEjectStateAsync, DiskControlSetImageIndexAsync,
                  DiskControlReplaceImageIndexAsync, DiskControlAddImageIndexAsync,
                  GetRegionAsync, SetControllerPortDeviceAsync}
  BY <1>4 DEF DiskControlSetEjectStateAsync, DiskControlSetImageIndexAsync,
     DiskControlReplaceImageIndexAsync, DiskControlAddImageIndexAsync, GetRegionAsync,
     SetControllerPortDeviceAsync, Answers
<1>5. CASE b \in {TestCoreLoader, GetRawFileListAsync, WaitForEngineStateAsync,
                  StopEngineAsync, SwitchGameAsync}
  BY <1>5 DEF TestCoreLoader, GetRawFileListAsync, WaitForEngineStateAsync,
     StopEngineAsync, SwitchGameAsync
<1>. QED  BY <1>1, <1>2, <1>3, <1>4, <1>5 DEF Bindings

-----------------------------------------------------------------------------
\* The engine goes on.
LEMMA RestKeepsInv ==
  ASSUME RequestsInv, UNCHANGED <<requests, pool, runs, gate, tornDown>>
  PROVE  RequestsInv'
  BY DEF RequestsInv, RequestsTyped, PoolIsQueued, WorkersRun, NothingLeaked, GateHasHolder,
     InFlight, requests

\* A promise that is settled at once, for a context that was never queued.
LEMMA SettleKeepsInv ==
  ASSUME RequestsInv, NEW r \in Requests, stage[r] = "free", NEW p, p # "pending",
         promise' = [promise EXCEPT ![r] = p],
         UNCHANGED <<binding, stage, held, pool, runs, gate, tornDown>>
  PROVE  RequestsInv'
  BY DEF RequestsInv, RequestsTyped, PoolIsQueued, WorkersRun, NothingLeaked, GateHasHolder,
     InFlight

\* A request is queued with all it holds.
LEMMA QueueKeepsInv ==
  ASSUME RequestsInv, NEW r \in Requests, NEW b \in Asked, QueueWork(r, b)
  PROVE  RequestsInv'
<1>. USE NothingIsNoRequest DEF RequestsInv, RequestsTyped, QueueWork, Asks, Settle
<1>1. RequestsTyped' OBVIOUS
<1>2. PoolIsQueued' BY DEF PoolIsQueued
<1>3. WorkersRun' BY DEF WorkersRun
<1>4. NothingLeaked' BY DEF NothingLeaked
<1>5. GateHasHolder' BY DEF GateHasHolder, InFlight
<1>. QED  BY <1>1, <1>2, <1>3, <1>4, <1>5

\* A worker takes the first request of the pool.
LEMMA TakeKeepsInv ==
  ASSUME RequestsInv, NEW w \in Workers, Take(w) PROVE RequestsInv'
<1>. USE NothingIsNoRequest DEF RequestsInv, RequestsTyped, Take
<1>. DEFINE r == Head(pool)
<1>1. r \in Requests /\ stage[r] = "queued" /\ r = pool[1] /\ 1 \in DOMAIN pool
  BY DEF PoolIsQueued
<1>2. \A i \in DOMAIN pool' : /\ i \in Nat \ {0} /\ i + 1 \in DOMAIN pool
                              /\ pool'[i] = pool[i + 1] /\ pool'[i] \in Requests
  OBVIOUS
<1>3. RequestsTyped' BY <1>1
<1>4. PoolIsQueued'
  <2>1. \A i \in DOMAIN pool' : pool'[i] # r BY <1>1, <1>2 DEF PoolIsQueued
  <2>2. \A i \in DOMAIN pool' : stage'[pool'[i]] = "queued"
    BY <1>1, <1>2, <2>1 DEF PoolIsQueued
  <2>3. \A i, j \in DOMAIN pool' : pool'[i] = pool'[j] => i = j
    BY <1>2 DEF PoolIsQueued
  <2>. QED  BY <2>2, <2>3 DEF PoolIsQueued
<1>5. WorkersRun' BY <1>1 DEF WorkersRun
<1>6. NothingLeaked' BY <1>1 DEF NothingLeaked
<1>7. GateHasHolder' BY <1>1 DEF GateHasHolder, InFlight
<1>. QED  BY <1>3, <1>4, <1>5, <1>6, <1>7

\* A worker is through with its request; one that stopped the engine opens the
\* gate, the others leave it alone.
LEMMA ExecutedKeepsInv ==
  ASSUME RequestsInv, NEW w \in Workers, runs[w] # Nothing, Executed(w),
         gate' = FALSE \/ (gate' = gate /\ binding[runs[w]].how # "stop"),
         UNCHANGED <<binding, promise, held, pool, tornDown>>
  PROVE  RequestsInv'
<1>. USE NothingIsNoRequest DEF RequestsInv, RequestsTyped, Executed
<1>1. runs[w] \in Requests /\ stage[runs[w]] = "running" BY DEF WorkersRun
<1>2. RequestsTyped' BY <1>1
<1>3. PoolIsQueued' BY <1>1 DEF PoolIsQueued
<1>4. WorkersRun' BY <1>1 DEF WorkersRun
<1>5. NothingLeaked' BY <1>1 DEF NothingLeaked
<1>6. GateHasHolder' BY <1>1 DEF GateHasHolder, InFlight
<1>. QED  BY <1>2, <1>3, <1>4, <1>5, <1>6

\* A worker's step.
LEMMA WorkerKeepsInv ==
  ASSUME RequestsInv, NEW w \in Workers, Worker(w) PROVE RequestsInv'
<1>1. CASE Take(w) BY <1>1, TakeKeepsInv
<1>2. CASE EngineCall(w) BY <1>2, ExecutedKeepsInv DEF EngineCall, Executes
<1>3. CASE WaitForState(w) BY <1>3, ExecutedKeepsInv DEF WaitForState, Executes
<1>4. CASE ExecuteStop(w)
  BY <1>4 DEF ExecuteStop, RequestsInv, RequestsTyped, PoolIsQueued, WorkersRun,
     NothingLeaked, GateHasHolder, InFlight
<1>5. CASE OpenGate(w) BY <1>5, ExecutedKeepsInv DEF OpenGate, Executes
<1>. QED  BY <1>1, <1>2, <1>3, <1>4, <1>5 DEF Worker

\* A completion settles the promise, if there still is one, and releases all.
LEMMA ReleaseKeepsInv ==
  ASSUME RequestsInv, NEW r \in Requests, stage[r] \in {"ran", "cancelled"}, Release(r),
         \/ \E p : p # "pending" /\ promise' = [promise EXCEPT ![r] = p]
         \/ stage[r] = "cancelled" /\ promise' = promise,
         UNCHANGED <<pool, runs, gate, tornDown>>
  PROVE  RequestsInv'
<1>. USE NothingIsNoRequest DEF RequestsInv, RequestsTyped, Release
<1>1. RequestsTyped' OBVIOUS
<1>2. PoolIsQueued' BY DEF PoolIsQueued
<1>3. WorkersRun' BY DEF WorkersRun
<1>4. NothingLeaked' BY DEF NothingLeaked
<1>5. GateHasHolder' BY DEF GateHasHolder, InFlight
<1>. QED  BY <1>1, <1>2, <1>3, <1>4, <1>5

\* Each of the four completions.
LEMMA CompleteKeepsInv ==
  ASSUME RequestsInv, NEW r \in Requests, Complete(r) PROVE RequestsInv'
<1>. USE ReleaseKeepsInv DEF Completes, Settle
<1>1. CASE CompleteOk(r) BY <1>1 DEF CompleteOk
<1>2. CASE CompleteFailed(r)
  <2>1. binding[r] \in Asked BY <1>2 DEF CompleteFailed, RequestsInv, RequestsTyped
  <2>2. binding[r].failure # "pending" BY <2>1, BindingsSettle DEF Settled
  <2>. QED  BY <1>2, <2>2 DEF CompleteFailed
<1>3. CASE CompleteRejected(r) BY <1>3 DEF CompleteRejected
<1>4. CASE CompleteCancelled(r) BY <1>4 DEF CompleteCancelled
<1>. QED  BY <1>1, <1>2, <1>3, <1>4 DEF Complete

\* The environment goes with the requests that were not started.
LEMMA TearDownKeepsInv ==
  ASSUME RequestsInv, TearDownEnv PROVE RequestsInv'
<1>. USE DEF RequestsInv, RequestsTyped, TearDownEnv
<1>1. RequestsTyped' OBVIOUS
<1>2. PoolIsQueued' BY DEF PoolIsQueued
<1>3. WorkersRun' BY NothingIsNoRequest DEF WorkersRun
<1>4. NothingLeaked' BY DEF NothingLeaked
<1>5. GateHasHolder' BY DEF GateHasHolder
<1>. QED  BY <1>1, <1>2, <1>3, <1>4, <1>5

-----------------------------------------------------------------------------
\* Nothing is asked for at first.
LEMMA RequestsInit == NapiInit => RequestsInv
  BY NothingIsNoRequest DEF NapiInit, RequestsInv, RequestsTyped, PoolIsQueued, WorkersRun,
     NothingLeaked, GateHasHolder

\* Every step preserves the invariant.
LEMMA RequestsNext == RequestsInv /\ [NapiNext]_napiVars => RequestsInv'
<1>. SUFFICES ASSUME RequestsInv, [NapiNext]_napiVars PROVE RequestsInv'
  OBVIOUS
<1>. USE DEF napi
<1>1. ASSUME NEW r \in Requests, StopRepeated(r) PROVE RequestsInv'
  BY <1>1, SettleKeepsInv DEF StopRepeated, Asks, Settle
<1>2. ASSUME NEW r \in Requests, Complete(r) PROVE RequestsInv' BY <1>2, CompleteKeepsInv
<1>3. ASSUME NEW r \in Requests, NEW b \in Asked, QueueWork(r, b) PROVE RequestsInv'
  BY <1>3, QueueKeepsInv
<1>4. ASSUME NEW r \in Requests, NEW b \in Asked, QueueFails(r, b) PROVE RequestsInv'
  <2>1. b.setup # "pending" BY BindingsSettle DEF Settled
  <2>. QED  BY <1>4, <2>1, SettleKeepsInv DEF QueueFails, Asks, Settle
<1>5. ASSUME NEW w \in Workers, Worker(w) PROVE RequestsInv' BY <1>5, WorkerKeepsInv
<1>6. CASE TearDownEnv BY <1>6, TearDownKeepsInv
<1>7. CASE \/ StartEngine \/ StopEngine \/ ResetEngine \/ LoadCore \/ LoadRom
           \/ PauseEngine \/ ResumeEngine \/ CancelSwitch
  BY <1>7, RestKeepsInv DEF StartEngine, StopEngine, ResetEngine, LoadCore, LoadRom,
     PauseEngine, ResumeEngine, CancelSwitch
<1>8. CASE JsStep \/ GameThread BY <1>8, RestKeepsInv DEF JsStep, GameThread
<1>9. CASE UNCHANGED napiVars BY <1>9, RestKeepsInv DEF napiVars
<1>. QED  BY <1>1, <1>2, <1>3, <1>4, <1>5, <1>6, <1>7, <1>8, <1>9 DEF NapiNext

\* Contexts, pool and workers agree at all times.
THEOREM RequestsInOrder == NapiSpec => []RequestsInv
  BY RequestsInit, RequestsNext, PTL DEF NapiSpec

\* Every path from a promise to its completion releases exactly what was made,
\* for any number of requests and workers, any bindings and any faults.
THEOREM NothingIsLeaked == NapiSpec => []NothingLeaked
<1>1. RequestsInv => NothingLeaked BY DEF RequestsInv
<1>. QED  BY <1>1, RequestsInOrder, PTL

\* The gate of StopEngineAsync is shut only while a stop is queued or executed.
THEOREM GateOpensAgain == NapiSpec => []GateHasHolder
<1>1. RequestsInv => GateHasHolder BY DEF RequestsInv
<1>. QED  BY <1>1, RequestsInOrder, PTL

-----------------------------------------------------------------------------
\* The engine under the bindings.

\* The bindings that call the engine directly.
Lifecycle == \/ StartEngine \/ StopEngine \/ ResetEngine \/ LoadCore \/ LoadRom
             \/ PauseEngine \/ ResumeEngine \/ CancelSwitch

\* What a step of this layer does to the engine: a worker or the JS thread calls
\* it or posts a message, an operation or the game thread goes on, or nothing.
LEMMA NapiStep ==
  ASSUME NapiNext
  PROVE  \/ UNCHANGED vars
         \/ \E t \in Callers, o \in AllOps : Call(t, o)
         \/ \E t \in Callers, m \in {"Pause", "Resume"} : Post(t, m)
         \/ CancelSwitch
         \/ \E t \in Callers : LoadGame(t)
         \/ Inside
<1>0. Js \in Callers /\ \A t \in Workers : t \in Callers
  BY PoolIsCallers
<1>1. ASSUME NEW r \in Requests, StopRepeated(r) \/ Complete(r) PROVE UNCHANGED vars
  BY <1>1 DEF StopRepeated, Complete, CompleteOk, CompleteFailed, CompleteRejected,
     CompleteCancelled
<1>2. ASSUME NEW r \in Requests, NEW b \in Asked, QueueWork(r, b) \/ QueueFails(r, b)
      PROVE  UNCHANGED vars
  BY <1>2 DEF QueueWork, QueueFails
<1>3. ASSUME NEW v \in Workers, Worker(v)
      PROVE  UNCHANGED vars \/ Call(v, "Stop") \/ Inside
  BY <1>0, <1>3 DEF Worker, Take, EngineCall, WaitForState, ExecuteStop, OpenGate, Inside,
     Threads
<1>4. CASE TearDownEnv BY <1>4 DEF TearDownEnv
<1>5. CASE StartEngine \/ StopEngine \/ ResetEngine \/ LoadCore \/ LoadRom
  BY <1>0, <1>5 DEF StartEngine, StopEngine, ResetEngine, LoadCore, LoadRom, AllOps
<1>6. CASE PauseEngine \/ ResumeEngine BY <1>0, <1>6 DEF PauseEngine, ResumeEngine
<1>7. CASE JsStep \/ GameThread BY <1>0, <1>7 DEF JsStep, GameThread, Inside, Threads
<1>8. "Stop" \in AllOps BY DEF AllOps
<1>. QED  BY <1>0, <1>1, <1>2, <1>3, <1>4, <1>5, <1>6, <1>7, <1>8 DEF NapiNext

\* Each is a step of the engine.
LEMMA NapiEngineStep ==
  ASSUME [NapiNext]_napiVars PROVE [Next]_vars
<1>1. CASE UNCHANGED napiVars BY <1>1 DEF napiVars
<1>2. CASE CancelSwitch
  BY <1>2, PoolIsCallers DEF CancelSwitch, Next, CallerBegins, AllOps
<1>3. CASE NapiNext /\ ~CancelSwitch
  BY <1>3, NapiStep DEF Next, CallerBegins, Inside, AllOps
<1>. QED  BY <1>1, <1>2, <1>3

\* Whatever the bindings do, what the engine sees is a behaviour of
\* EngineLifecycle.
THEOREM NapiUsesEngine == NapiSpec => Spec
<1>1. NapiInit => Init BY DEF NapiInit
<1>. QED  BY <1>1, NapiEngineStep, PTL DEF NapiSpec, Spec

-----------------------------------------------------------------------------
\* StopEngineAsync and ResetEngine.

StopInFlight(r) == InFlight(r) /\ binding[r].how = "stop"

\* A worker is in the engine only to execute a stop; that stop, the only one,
\* has shut the gate; and the JS thread resets behind an open one.
StopHasGate ==
  /\ \A w \in Workers : pc[w] # "idle" => Executes(w, "stop") /\ op[w] = "Stop"
  /\ \A r \in Requests : StopInFlight(r) => gate
  /\ \A q, r \in Requests : StopInFlight(q) /\ StopInFlight(r) => q = r
  /\ pc[Js] # "idle" /\ op[Js] = "Reset" => ~gate

\* What a thread inside an operation does to the callers.
LEMMA InsideMoves ==
  ASSUME IInv, NEW t \in Threads, (t \in Callers /\ CallerStep(t)) \/ SharedStep(t)
  PROVE  /\ pc[t] # "idle"
         /\ op'[t] = op[t] \/ (op'[t] = "none" /\ pc'[t] = "idle")
         /\ \A u \in Callers \ {t} : pc'[u] = pc[u] /\ op'[u] = op[u]
<1>. DEFINE Moves == /\ op'[t] = op[t] \/ (op'[t] = "none" /\ pc'[t] = "idle")
                     /\ \A u \in Callers \ {t} : pc'[u] = pc[u] /\ op'[u] = op[u]
<1>0. /\ pc \in [Threads -> Labels] /\ op \in [Threads -> {"none", "Drain"} \cup AllOps]
      /\ Game \notin Callers /\ \A u \in Callers : u \in Threads
  BY GameNotCaller DEF IInv, TypeOK, PcType, OpType, Threads
<1>1. \A l : Goto(t, l) /\ UNCHANGED op => Moves BY <1>0 DEF Goto
<1>2. Return(t) => Moves BY <1>0 DEF Return
<1>3. \A l : Acquire(t, l) /\ UNCHANGED op => Moves BY <1>1 DEF Acquire
<1>4. \A ok1 \in BOOLEAN : StartReturns(t, ok1) => Moves
  BY <1>1, <1>2 DEF StartReturns
<1>5. \A ok1 \in BOOLEAN : StopReturns(t, ok1) => Moves
  BY <1>1, <1>2 DEF StopReturns
<1>. HIDE DEF Moves
<1>6. ASSUME t \in Callers, CallerStep(t) PROVE pc[t] # "idle" /\ Moves
  <2>. USE <1>1, <1>2, <1>3, <1>4
  <2>1. CASE LoadCoreLock(t) BY <2>1 DEF LoadCoreLock
  <2>2. CASE LoadCorePush(t) BY <2>2 DEF LoadCorePush
  <2>3. CASE StartLock(t) BY <2>3 DEF StartLock
  <2>4. CASE StartCheck(t) BY <2>4 DEF StartCheck
  <2>5. CASE StartArm(t) BY <2>5 DEF StartArm
  <2>6. CASE StartSpawn(t) BY <1>0, <2>6 DEF StartSpawn, Moves
  <2>7. CASE StartSpawnFails(t) BY <2>7 DEF StartSpawnFails
  <2>8. CASE StartRender(t) BY <2>8 DEF StartRender
  <2>9. CASE StartRenderFails(t) BY <2>9 DEF StartRenderFails
  <2>10. CASE StartJoin(t) BY <2>10 DEF StartJoin
  <2>. QED  BY <1>6, <2>1, <2>2, <2>3, <2>4, <2>5, <2>6, <2>7, <2>8, <2>9, <2>10
       DEF CallerStep
<1>7. ASSUME SharedStep(t) PROVE pc[t] # "idle" /\ Moves
  <2>. USE <1>1, <1>2, <1>3, <1>5
  <2>1. CASE StopLock(t) BY <2>1 DEF StopLock
  <2>2. CASE StopRequest(t) BY <2>2 DEF StopRequest
  <2>3. CASE StopClose(t) BY <2>3 DEF StopClose
  <2>4. CASE StopExited(t) BY <2>4 DEF StopExited
  <2>5. CASE StopTimeout(t) BY <2>5 DEF StopTimeout
  <2>6. CASE StopJoin(t) BY <2>6 DEF StopJoin
  <2>7. CASE StopClear(t) BY <2>7 DEF StopClear
  <2>8. CASE StopState(t) BY <2>8 DEF StopState
  <2>9. CASE StopFlags(t) BY <2>9 DEF StopFlags
  <2>10. CASE ResetLock(t) BY <2>10 DEF ResetLock
  <2>11. CASE ResetCheck(t) BY <2>11 DEF ResetCheck
  <2>12. CASE ResetQueue(t) BY <2>12 DEF ResetQueue
  <2>13. CASE ResetCore(t) BY <2>13 DEF ResetCore
  <2>14. CASE ResetState(t) BY <2>14 DEF ResetState
  <2>15. CASE ResetReturn(t) BY <2>15 DEF ResetReturn
  <2>. QED  BY <1>7, <2>1, <2>2, <2>3, <2>4, <2>5, <2>6, <2>7, <2>8, <2>9, <2>10, <2>11,
       <2>12, <2>13, <2>14, <2>15 DEF SharedStep
<1>. QED  BY <1>6, <1>7 DEF Moves

\* Requests that leave the callers alone, and shut the gate when they queue a
\* stop.
LEMMA RequestsKeepGate ==
  ASSUME RequestsInv, StopHasGate, UNCHANGED vars,
         \/ \E r \in Requests :
              \/ StopRepeated(r) \/ Complete(r)
              \/ \E b \in Asked : QueueWork(r, b) \/ QueueFails(r, b)
         \/ TearDownEnv
  PROVE  StopHasGate'
<1>. USE DEF StopHasGate, StopInFlight, InFlight, Executes, RequestsInv, RequestsTyped,
         vars
<1>1. ASSUME NEW r \in Requests, StopRepeated(r) PROVE StopHasGate'
  BY <1>1 DEF StopRepeated
<1>2. ASSUME NEW r \in Requests, NEW b \in Asked, QueueFails(r, b) PROVE StopHasGate'
  BY <1>2 DEF QueueFails
<1>3. ASSUME NEW r \in Requests, NEW b \in Asked, QueueWork(r, b) PROVE StopHasGate'
  <2>. USE <1>3 DEF QueueWork, Asks, Idle
  <2>1. \A w \in Workers : runs[w] # r BY NothingIsNoRequest DEF WorkersRun
  <2>2. \A q \in Requests : StopInFlight(q)' => StopInFlight(q) \/ (q = r /\ b.how = "stop")
    OBVIOUS
  <2>. QED  BY <2>1, <2>2
<1>4. ASSUME NEW r \in Requests, stage[r] \in {"ran", "cancelled"}, Release(r),
             UNCHANGED <<runs, gate>>
      PROVE  StopHasGate'
  <2>1. \A w \in Workers : runs[w] # r BY <1>4, NothingIsNoRequest DEF WorkersRun
  <2>. QED  BY <1>4, <2>1 DEF Release
<1>5. ASSUME NEW r \in Requests, Complete(r) PROVE StopHasGate'
  BY <1>4, <1>5 DEF Complete, CompleteOk, CompleteFailed, CompleteRejected,
     CompleteCancelled, Completes
<1>6. CASE TearDownEnv BY <1>6 DEF TearDownEnv
<1>. QED  BY <1>1, <1>2, <1>3, <1>5, <1>6

\* A worker enters the engine with a stop, and leaves it before it opens the
\* gate.
LEMMA WorkerKeepsGate ==
  ASSUME IInv, RequestsInv, StopHasGate, NEW w \in Workers, Worker(w)
  PROVE  StopHasGate'
<1>. USE NothingIsNoRequest
     DEF StopHasGate, StopInFlight, InFlight, Executes, Executed, RequestsInv,
         RequestsTyped
<1>0. /\ w \in Callers /\ w \in Threads /\ w # Js /\ Js \in Callers /\ Js \in Threads
      /\ \A v \in Workers : v \in Callers /\ v \in Threads
      /\ pc \in [Threads -> Labels] /\ op \in [Threads -> {"none", "Drain"} \cup AllOps]
  BY PoolIsCallers DEF Threads, IInv, TypeOK, PcType, OpType
<1>1. CASE Take(w)
  <2>. USE <1>1 DEF Take
  <2>. DEFINE r == Head(pool)
  <2>1. r \in Requests /\ stage[r] = "queued" /\ r = pool[1] BY DEF PoolIsQueued
  <2>2. \A v \in Workers : runs[v] # r BY <2>1 DEF WorkersRun
  <2>3. \A q \in Requests : StopInFlight(q)' <=> StopInFlight(q) BY <2>1
  <2>4. CASE binding[r].how = "stop"
    <3>1. /\ op' = [op EXCEPT ![w] = "Stop"] /\ \E l : pc' = [pc EXCEPT ![w] = l]
      BY <2>4 DEF Call, Goto
    <3>. QED  BY <1>0, <2>1, <2>2, <2>3, <2>4, <3>1
  <2>5. CASE binding[r].how # "stop"
    <3>1. UNCHANGED <<pc, op>> /\ pc[w] = "idle" BY <2>5 DEF vars, Idle
    <3>. QED  BY <2>1, <2>2, <2>3, <3>1
  <2>. QED  BY <2>4, <2>5
<1>2. CASE EngineCall(w) \/ WaitForState(w)
  <2>1. UNCHANGED <<pc, op, gate, binding>> /\ binding[runs[w]].how # "stop" /\ Executed(w)
    BY <1>2 DEF EngineCall, WaitForState, vars
  <2>2. \A q \in Requests : StopInFlight(q)' => StopInFlight(q) BY <2>1
  <2>. QED  BY <2>1, <2>2
<1>3. CASE ExecuteStop(w)
  <2>1. /\ pc[w] # "idle"
        /\ op'[w] = op[w] \/ (op'[w] = "none" /\ pc'[w] = "idle")
        /\ \A u \in Callers \ {w} : pc'[u] = pc[u] /\ op'[u] = op[u]
    BY <1>0, <1>3, InsideMoves DEF ExecuteStop
  <2>. QED  BY <1>0, <1>3, <2>1 DEF ExecuteStop
<1>4. CASE OpenGate(w)
  <2>. USE <1>4 DEF OpenGate, Idle
  <2>1. UNCHANGED <<pc, op>> BY DEF vars
  <2>2. runs[w] \in Requests /\ stage[runs[w]] = "running" /\ StopInFlight(runs[w])
    BY DEF WorkersRun
  <2>3. \A q \in Requests : ~StopInFlight(q)' BY <2>2
  <2>4. \A v \in Workers : pc[v] = "idle"
    <3>. SUFFICES ASSUME NEW v \in Workers, pc[v] # "idle" PROVE FALSE
      OBVIOUS
    <3>1. runs[v] \in Requests /\ StopInFlight(runs[v]) BY DEF WorkersRun
    <3>. QED  BY <2>2, <3>1 DEF WorkersRun
  <2>. QED  BY <2>1, <2>3, <2>4
<1>. QED  BY <1>1, <1>2, <1>3, <1>4 DEF Worker

\* The JS thread goes on or calls, and the game thread goes on.
LEMMA EngineKeepsGate ==
  ASSUME IInv, RequestsInv, StopHasGate, ResetEngine => ~gate,
         Lifecycle \/ JsStep \/ GameThread
  PROVE  StopHasGate'
<1>. USE DEF StopHasGate, StopInFlight, InFlight, Executes, napi, requests
<1>0. /\ Js \in Callers /\ Js \in Threads /\ Game \notin Callers
      /\ \A w \in Workers : w \in Callers /\ w \in Threads /\ w # Js
      /\ pc \in [Threads -> Labels] /\ op \in [Threads -> {"none", "Drain"} \cup AllOps]
      /\ \A u \in Callers : u \in Threads /\ u # Game
  BY PoolIsCallers, GameNotCaller DEF Threads, IInv, TypeOK, PcType, OpType
<1>1. ASSUME UNCHANGED <<pc, op, napi>> PROVE StopHasGate'
  BY <1>1
<1>2. ASSUME NEW o \in AllOps, Call(Js, o), o = "Reset" => ~gate, UNCHANGED napi
      PROVE  StopHasGate'
  <2>1. op'[Js] = o /\ \A w \in Workers : pc'[w] = pc[w] /\ op'[w] = op[w]
    BY <1>0, <1>2 DEF Call, Goto
  <2>. QED  BY <1>2, <2>1
<1>3. CASE StartEngine \/ StopEngine \/ ResetEngine \/ LoadCore
  BY <1>2, <1>3 DEF StartEngine, StopEngine, ResetEngine, LoadCore, AllOps
<1>4. CASE LoadRom \/ PauseEngine \/ ResumeEngine \/ CancelSwitch
  BY <1>1, <1>4 DEF LoadRom, LoadGame, PauseEngine, ResumeEngine, CancelSwitch, Post
<1>5. CASE JsStep
  <2>1. /\ pc[Js] # "idle"
        /\ op'[Js] = op[Js] \/ (op'[Js] = "none" /\ pc'[Js] = "idle")
        /\ \A u \in Callers \ {Js} : pc'[u] = pc[u] /\ op'[u] = op[u]
    BY <1>0, <1>5, InsideMoves DEF JsStep
  <2>. QED  BY <1>0, <1>5, <2>1 DEF JsStep
<1>6. CASE GameThread
  <2>1. \A u \in Callers : pc'[u] = pc[u] /\ op'[u] = op[u]
    <3>1. CASE SharedStep(Game) BY <1>0, <3>1, InsideMoves DEF Threads
    <3>2. CASE GameStep
      <4>1. GameMoves BY <3>2, GameTypeOp DEF IInv
      <4>. QED  BY <1>0, <4>1 DEF GameMoves, Goto
    <3>. QED  BY <1>6, <3>1, <3>2 DEF GameThread
  <2>. QED  BY <1>0, <1>6, <2>1 DEF GameThread
<1>. QED  BY <1>3, <1>4, <1>5, <1>6 DEF Lifecycle

\* Every step but a ResetEngine behind a shut gate.
LEMMA GateNext ==
  IInv /\ RequestsInv /\ StopHasGate /\ [NapiNext]_napiVars /\ [ResetEngine => ~gate]_napiVars
    => StopHasGate'
<1>. SUFFICES ASSUME IInv, RequestsInv, StopHasGate, [NapiNext]_napiVars,
                     [ResetEngine => ~gate]_napiVars
              PROVE  StopHasGate'
  OBVIOUS
<1>1. CASE UNCHANGED napiVars
  BY <1>1 DEF napiVars, vars, napi, requests, StopHasGate, StopInFlight, InFlight, Executes
<1>2. ASSUME NEW r \in Requests,
             \/ StopRepeated(r) \/ Complete(r)
             \/ \E b \in Asked : QueueWork(r, b) \/ QueueFails(r, b)
      PROVE  StopHasGate'
  <2>1. UNCHANGED vars
    BY <1>2 DEF StopRepeated, QueueWork, QueueFails, Complete, CompleteOk, CompleteFailed,
       CompleteRejected, CompleteCancelled
  <2>. QED  BY <1>2, <2>1, RequestsKeepGate
<1>3. CASE TearDownEnv BY <1>3, RequestsKeepGate DEF TearDownEnv
<1>4. ASSUME NEW w \in Workers, Worker(w) PROVE StopHasGate' BY <1>4, WorkerKeepsGate
<1>5. CASE (Lifecycle \/ JsStep \/ GameThread) /\ ~UNCHANGED napiVars
  BY <1>5, EngineKeepsGate
<1>. QED  BY <1>1, <1>2, <1>3, <1>4, <1>5 DEF NapiNext, Lifecycle

\* Behind an open gate no worker is at the last stores of a Stop.
LEMMA OpenGateResetsAlone ==
  ASSUME IInv, RequestsInv, StopHasGate PROVE ResetAlone
<1>. SUFFICES ASSUME NEW t \in Threads, op[t] \in {"Reset", "Cancel"},
                     pc[t] = "reset_queue", NEW u \in Threads,
                     pc[u] \in {"stop_state", "stop_flags"}
              PROVE  FALSE
  BY DEF ResetAlone
<1>1. ~running /\ pc[Game] = "none"
  BY DEF IInv, RunningInv, ThreadInv, TearDown, Alive, At
<1>2. t \in Callers /\ u \in Callers BY <1>1 DEF Threads
<1>3. t = Js /\ ~gate
  BY <1>2, PoolIsCallers DEF StopHasGate, IInv, OpInv
<1>4. u \in Workers BY <1>2, <1>3, PoolIsCallers
<1>5. runs[u] \in Requests /\ StopInFlight(runs[u])
  BY <1>4 DEF StopHasGate, Executes, StopInFlight, InFlight, RequestsInv, RequestsTyped,
     WorkersRun
<1>. QED  BY <1>3, <1>5 DEF StopHasGate

\* If ArkTS calls ResetEngine only while no StopEngineAsync is queued or executed,
\* STOPPED means that no game thread is left and a running engine takes messages,
\* whatever else the bindings do.  LibretroSwitchCoordinator does not wait for
\* that: it resets when its wait for STOPPED ends.
THEOREM NapiStateIsTrue ==
  NapiSpec /\ [][ResetEngine => ~gate]_napiVars
    => []StoppedMeansQuiet /\ []RunningTakesMessages
<1>1. NapiInit => StopHasGate
  BY PoolIsCallers, GameNotCaller
  DEF NapiInit, Init, StopHasGate, StopInFlight, InFlight, Threads
<1>2. IInv /\ RequestsInv /\ StopHasGate /\ [NapiNext]_napiVars => [ResetAlone]_vars
  BY OpenGateResetsAlone
<1>3. NapiSpec => []IInv BY NapiUsesEngine, Invariance, PTL
<1>4. NapiSpec /\ [][ResetEngine => ~gate]_napiVars => []StopHasGate
  BY <1>1, <1>3, GateNext, RequestsInOrder, PTL DEF NapiSpec
<1>5. NapiSpec /\ [][ResetEngine => ~gate]_napiVars => [][ResetAlone]_vars
  BY <1>2, <1>3, <1>4, RequestsInOrder, PTL DEF NapiSpec
<1>. QED  BY <1>5, NapiUsesEngine, StoppedIsQuiet, RunningIsOpen, PTL

\* Only CancelSwitch posts a Cancel.
LEMMA NapiPosts ==
  ASSUME IInv, NoCancelPosted, [NapiNext]_napiVars, [~CancelSwitch]_napiVars
  PROVE  NoCancelPosted'
<1>1. CASE UNCHANGED vars BY <1>1 DEF vars, mq, NoCancelPosted
<1>2. CASE Inside BY <1>2, InsideQueue
<1>3. ASSUME NEW t \in Callers, NEW o \in AllOps, Call(t, o) PROVE NoCancelPosted'
  BY <1>3 DEF Call, mq, NoCancelPosted
<1>4. ASSUME NEW m \in {"LoadGame", "Pause", "Resume"}, Push(m) PROVE NoCancelPosted'
  <2>1. \A i \in DOMAIN queue' : queue'[i] = m \/ (i \in DOMAIN queue /\ queue'[i] = queue[i])
    BY <1>4 DEF Push, Posts, Messages, IInv, TypeOK
  <2>. QED  BY <2>1 DEF NoCancelPosted
<1>5. ASSUME NEW t \in Callers, NEW m \in {"Pause", "Resume"}, Post(t, m)
      PROVE  NoCancelPosted'
  BY <1>4, <1>5 DEF Post
<1>6. ASSUME NEW t \in Callers, LoadGame(t) PROVE NoCancelPosted'
  BY <1>4, <1>6 DEF LoadGame
<1>7. CASE UNCHANGED napiVars BY <1>1, <1>7 DEF napiVars
<1>. QED  BY <1>1, <1>2, <1>3, <1>5, <1>6, <1>7, NapiStep

\* Under the bindings the state ArkTS polls agrees with what is loaded, as long as
\* ArkTS does not call CancelSwitch.
THEOREM NapiStateFollowsCore ==
  NapiSpec /\ [][~CancelSwitch]_napiVars => []StateMatchesCore
<1>1. NapiInit => NoCancelPosted
  BY DEF NapiInit, Init, NoCancelPosted
<1>2. NapiSpec => []IInv BY NapiUsesEngine, Invariance, PTL
<1>3. NapiSpec /\ [][~CancelSwitch]_napiVars => []NoCancelPosted
  BY <1>1, <1>2, NapiPosts, PTL DEF NapiSpec
<1>. QED  BY <1>3, NapiUsesEngine, StateFollowsCore, PTL

-----------------------------------------------------------------------------
(***************************************************************************)
(* The state ArkTS polls                                                   *)
(***************************************************************************)
\* The history variables are not in the way of the engine.
LEMMA HistoryUsesEngine == HSpec => Spec
<1>1. HInit => Init BY DEF HInit
<1>2. [HNext]_hvars => [Next]_vars BY DEF HNext, hvars
<1>. QED  BY <1>1, <1>2, PTL DEF HSpec, Spec

\* Each history variable is set by the first step that goes wrong.
LEMMA HistoryNext ==
  ASSUME [HNext]_hvars
  PROVE  /\ ~resetMetStop' => ~resetMetStop /\ [ResetAlone]_vars
         /\ ~cancelPosted' => ~cancelPosted
         /\ ~cancelPosted /\ NoCancelPosted => cancelPosted' \/ NoCancelPosted'
<1>1. CASE HNext BY <1>1 DEF HNext
<1>2. CASE UNCHANGED hvars
  <2>1. UNCHANGED <<queue, resetMetStop, cancelPosted, vars>>
    BY <1>2 DEF hvars, seen, vars, mq
  <2>. QED  BY <2>1 DEF NoCancelPosted
<1>. QED  BY <1>1, <1>2

\* STOPPED and "running" can be believed for any number of callers that call
\* and fail as they like, until a Reset meets the last stores of a Stop.
THEOREM PolledStopHolds == HSpec => []PolledStopIsTrue /\ []PolledRunIsOpen
<1>. DEFINE H == resetMetStop \/ QuietInv
<1>1. HInit => H BY InitQuiet DEF HInit
<1>2. IInv /\ H /\ [HNext]_hvars => H'
  <2>1. [HNext]_hvars => [Next]_vars BY DEF HNext, hvars
  <2>. QED  BY <2>1, HistoryNext, StepQuiet
<1>3. H => PolledStopIsTrue /\ PolledRunIsOpen
  BY DEF QuietInv, StoppedInv, StoppedMeansQuiet, PolledStopIsTrue, PolledRunIsOpen
<1>4. HSpec => []IInv BY HistoryUsesEngine, Invariance, PTL
<1>. QED  BY <1>1, <1>2, <1>3, <1>4, PTL DEF HSpec

\* The state agrees with what is loaded until the first Cancel.
THEOREM PolledStateHolds == HSpec => []PolledStateMatches
<1>. DEFINE H == cancelPosted \/ (NoCancelPosted /\ MatchInv)
<1>1. HInit => H BY InitMatch DEF HInit, MatchInv, NoCancel
<1>2. IInv /\ IInv' /\ H /\ [HNext]_hvars => H'
  <2>1. [HNext]_hvars => [Next]_vars BY DEF HNext, hvars
  <2>. QED  BY <2>1, HistoryNext, StepMatch DEF MatchInv, NoCancel
<1>3. H => PolledStateMatches
  BY DEF MatchInv, LoadInv, PolledStateMatches
<1>4. HSpec => []IInv BY HistoryUsesEngine, Invariance, PTL
<1>. QED  BY <1>1, <1>2, <1>3, <1>4, PTL DEF HSpec
=============================================================================
