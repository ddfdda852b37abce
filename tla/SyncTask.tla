------------------------------ MODULE SyncTask ------------------------------
(***************************************************************************)
(* Synchronous tasks: the operations that reach into the core from another *)
(* thread (save states, SRAM, cheats, disks, the files directory, keys).   *)
(* ExecuteSyncTask pushes an EngineSyncTask to messageQueue_ and waits for *)
(* the game thread to run it, five seconds at most; while the engine does  *)
(* not run, the body runs on the calling thread.  The body captures the    *)
(* caller's locals by reference.                                           *)
(*                                                                         *)
(* Composed with EngineLifecycle: the callers issue control operations and *)
(* tasks alike, and a queue entry is a message of EngineLifecycle or a     *)
(* task.  A caller inside a task operation has that operation in op[t] and *)
(* one of TaskLabels in pc[t].                                             *)
(***************************************************************************)
EXTENDS EngineLifecycle

CONSTANTS
  Tasks,      \* EngineSyncTask objects, reused once nobody holds them
  TaskOps     \* task operations the callers may issue

\* guarded: the caller first asks for a loaded game; waits: it waits for the
\* body; locked: it holds controlMutex_ meanwhile; core: the body calls the core.
Task(guarded, waits, locked, inCore) ==
  [guarded |-> guarded, waits |-> waits, locked |-> locked, core |-> inCore]

GameTask == Task(TRUE, TRUE, FALSE, TRUE)
CoreTask == Task(FALSE, TRUE, FALSE, TRUE)

GetSaveStateSize == GameTask
SaveState == GameTask
CaptureSaveStateBundle == GameTask
LoadState == GameTask
GetSRAM == GameTask
SetSRAM == GameTask
CallReset == CoreTask
CheatReset == CoreTask
CheatSet == CoreTask
SetControllerPortDevice == CoreTask
GetRegion == CoreTask
DiskControlSetEjectState == CoreTask
DiskControlGetEjectState == CoreTask
DiskControlGetImageIndex == CoreTask
DiskControlSetImageIndex == CoreTask
DiskControlGetNumImages == CoreTask
DiskControlReplaceImageIndex == CoreTask
DiskControlAddImageIndex == CoreTask
SetFilesDir == Task(FALSE, TRUE, TRUE, FALSE)
DispatchKeyboardEvent == Task(FALSE, FALSE, FALSE, TRUE)

Operation ==
  [GetSaveStateSize |-> GetSaveStateSize, SaveState |-> SaveState,
   CaptureSaveStateBundle |-> CaptureSaveStateBundle, LoadState |-> LoadState,
   GetSRAM |-> GetSRAM, SetSRAM |-> SetSRAM, CallReset |-> CallReset,
   CheatReset |-> CheatReset, CheatSet |-> CheatSet,
   SetControllerPortDevice |-> SetControllerPortDevice,
   GetRegion |-> GetRegion,
   DiskControlSetEjectState |-> DiskControlSetEjectState,
   DiskControlGetEjectState |-> DiskControlGetEjectState,
   DiskControlGetImageIndex |-> DiskControlGetImageIndex,
   DiskControlSetImageIndex |-> DiskControlSetImageIndex,
   DiskControlGetNumImages |-> DiskControlGetNumImages,
   DiskControlReplaceImageIndex |-> DiskControlReplaceImageIndex,
   DiskControlAddImageIndex |-> DiskControlAddImageIndex,
   SetFilesDir |-> SetFilesDir,
   DispatchKeyboardEvent |-> DispatchKeyboardEvent]

ASSUME TaskOpsKnown == TaskOps \subseteq DOMAIN Operation
ASSUME TasksApart == Tasks \cap (Threads \cup Messages \cup {Free, NoMsg}) = {}

VARIABLES
  kind,        \* the operation of each task
  owner,       \* the caller that waits for the task, or Free
  abandoned,   \* tasks whose caller gave up (abandoned_)
  done,        \* tasks that are through (done_)
  hint         \* pendingFilesDir_ is set

tvars == <<kind, owner, abandoned, done, hint>>
syncvars == <<vars, tvars>>

TaskLabels == {"task_dispatch", "task_push", "task_inline", "task_wait"}

InTask(t) == pc[t] \in TaskLabels

GameLoadedStates == {"GAME_LOADED", "RUNNING", "PAUSED"}

\* States in which SetFilesDir is refused.
FilesDirFixed == CoreLoadedStates \cup {"LOADING", "STOPPING"}

InQueue(k) == \E i \in DOMAIN queue : queue[i] = k

\* Nobody holds the shared_ptr of the task any more.
Unused(k) == owner[k] = Free /\ ~InQueue(k) /\ msg # k

\* Bound: a task operation is only called while its push will find room.
Room == /\ Len(queue) < MaxQueue
        /\ Cardinality({k \in Tasks : Unused(k)}) >
             Cardinality({t \in Callers : pc[t] \in {"task_dispatch", "task_push"}})

TaskOf(t) == CHOOSE k \in Tasks : owner[k] = t

\* An operation of caller t returns; SetFilesDir releases controlMutex_.
TaskReturns(t) == Return(t) /\ lock' = IF lock = t THEN Free ELSE lock

SyncInit ==
  /\ Init
  /\ kind \in [Tasks -> {CHOOSE o \in DOMAIN Operation : TRUE}]
  /\ owner = [k \in Tasks |-> Free]
  /\ abandoned = {} /\ done = {}
  /\ hint = FALSE
-----------------------------------------------------------------------------
(***************************************************************************)
(* The calling thread                                                      *)
(***************************************************************************)
\* A refused guard changes nothing; SetFilesDir has an action of its own.
CallTask(t, o) ==
  /\ Idle(t)
  /\ o \in TaskOps \ {"SetFilesDir"}
  /\ Room
  /\ Operation[o].guarded => state \in GameLoadedStates
  /\ op' = [op EXCEPT ![t] = o]
  /\ Goto(t, "task_dispatch")
  /\ UNCHANGED <<state, flags, joinable, mq, core, lock, msg, tvars>>

\* SetFilesDir takes controlMutex_ and keeps it until it returns.  It looks
\* at running_ itself: the directory of a stopped engine is set right here.
CallSetFilesDir(t) ==
  /\ Idle(t)
  /\ "SetFilesDir" \in TaskOps
  /\ Room
  /\ state \notin FilesDirFixed
  /\ op' = [op EXCEPT ![t] = "SetFilesDir"]
  /\ Acquire(t, IF running THEN "task_dispatch" ELSE "task_inline")
  /\ hint' = (hint \/ running)
  /\ UNCHANGED <<state, flags, joinable, mq, core, msg, kind, owner, abandoned,
                 done>>

\* SetFilesDir clears its hint on every failure.
HintAfter(t, ok) == hint' = (hint /\ (op[t] # "SetFilesDir" \/ ok))

\* ExecuteSyncTask looks at running_ first: the body of a stopped engine runs
\* on the calling thread.
ExecuteSyncTask(t) ==
  /\ pc[t] = "task_dispatch"
  /\ Goto(t, IF running THEN "task_push" ELSE "task_inline")
  /\ UNCHANGED <<state, flags, joinable, mq, core, lock, op, msg, tvars>>

\* A closed queue refuses the task.  A key event is not waited for.
PushTask(t) ==
  /\ pc[t] = "task_push"
  /\ \/ /\ closed
        /\ TaskReturns(t)
        /\ HintAfter(t, FALSE)
        /\ UNCHANGED <<queue, kind, owner, abandoned, done>>
     \/ /\ ~closed
        /\ \E k \in Tasks :
             /\ Unused(k)
             /\ Push(k)
             /\ kind' = [kind EXCEPT ![k] = op[t]]
             /\ abandoned' = abandoned \ {k}
             /\ done' = done \ {k}
             /\ IF Operation[op[t]].waits
                  THEN /\ owner' = [owner EXCEPT ![k] = t]
                       /\ Goto(t, "task_wait")
                       /\ UNCHANGED <<op, lock>>
                  ELSE /\ TaskReturns(t)
                       /\ UNCHANGED owner
        /\ UNCHANGED hint
  /\ UNCHANGED <<state, flags, joinable, closed, core, msg>>

\* The body on the calling thread: ApplyFilesDir fails or clears the hint.
TaskInline(t) ==
  /\ pc[t] = "task_inline"
  /\ TaskReturns(t)
  /\ HintAfter(t, FALSE)
  /\ UNCHANGED <<state, flags, joinable, mq, core, msg, kind, owner, abandoned,
                 done>>

\* EngineSyncTask::Wait sees done_.
TaskAnswer(t) ==
  /\ pc[t] = "task_wait"
  /\ TaskOf(t) \in done
  /\ owner' = [owner EXCEPT ![TaskOf(t)] = Free]
  /\ done' = done \ {TaskOf(t)}
  /\ TaskReturns(t)
  /\ HintAfter(t, FALSE)
  /\ UNCHANGED <<state, flags, joinable, mq, core, msg, kind, abandoned>>

\* The game thread is inside the body of t's task and holds the task's mutex.
InBodyOf(t) == At("task_body") /\ owner[msg] = t

GiveUp(t) ==
  /\ abandoned' = abandoned \cup {TaskOf(t)}
  /\ owner' = [owner EXCEPT ![TaskOf(t)] = Free]
  /\ TaskReturns(t)
  /\ HintAfter(t, FALSE)
  /\ UNCHANGED <<state, flags, joinable, mq, core, msg, kind, done>>

\* Mutant: Run calls the body without holding the task's mutex.
TimeoutDuringBody(t) ==
  /\ pc[t] = "task_wait"
  /\ TaskOf(t) \notin done
  /\ GiveUp(t)

\* Mutant: Wait has no time limit.
WaitForever(t) == pc[t] = "task_wait" /\ FALSE /\ GiveUp(t)

\* Wait gives up after kSyncTaskTimeoutMs.  It needs the task's mutex for that,
\* so not while the body runs.
TaskTimeout(t) ==
  /\ pc[t] = "task_wait"
  /\ TaskOf(t) \notin done
  /\ ~InBodyOf(t)
  /\ GiveUp(t)
-----------------------------------------------------------------------------
(***************************************************************************)
(* The game thread                                                         *)
(***************************************************************************)
TaskNext == queue # <<>> /\ Head(queue) \in Tasks

\* GameLoop pops a task, from the drain of a running engine or from the wait.
PopTask ==
  /\ At("drain") \/ At("wait")
  /\ TaskNext
  /\ Pop
  /\ Goto(Game, "task")
  /\ op' = [op EXCEPT ![Game] = IF At("drain") THEN "Drain" ELSE "none"]
  /\ UNCHANGED <<state, flags, joinable, closed, core, lock, tvars>>

\* done_ matters to a caller that still waits only; the object goes with its
\* last holder.
FinishTask ==
  /\ done' = IF owner[msg] = Free THEN done ELSE done \cup {msg}
  /\ abandoned' = abandoned \ {msg}
  /\ msg' = NoMsg
  /\ HandleDone

\* EngineSyncTask::Run: the body is skipped if the caller gave up.
RunTask ==
  /\ At("task")
  /\ UNCHANGED <<state, flags, joinable, mq, core, lock, kind, owner, hint>>
  /\ \/ msg \in abandoned /\ FinishTask
     \/ msg \notin abandoned /\ Goto(Game, "task_body")
        /\ UNCHANGED <<op, msg, done, abandoned>>

\* The body returns; ApplyFilesDir clears the hint unless it failed.
TaskBody ==
  /\ At("task_body")
  /\ UNCHANGED <<state, flags, joinable, mq, core, lock, kind, owner>>
  /\ FinishTask
  /\ hint' \in IF kind[msg] = "SetFilesDir" THEN {FALSE, hint} ELSE {hint}
-----------------------------------------------------------------------------
TaskCall(t) == CallSetFilesDir(t) \/ \E o \in DOMAIN Operation : CallTask(t, o)

TaskStep(t) ==
  \/ ExecuteSyncTask(t) \/ PushTask(t)
  \/ TaskInline(t) \/ TaskAnswer(t) \/ TaskTimeout(t)

\* Reset clears the hint with the flags.
HintWithReset ==
  hint' = (hint /\ ~\E t \in Threads :
                      pc[t] = "reset_queue" /\ pc'[t] = "reset_core")

\* Every step of EngineLifecycle but popping a task.
GameWithTasks ==
  \/ /\ ~((At("drain") \/ At("wait")) /\ TaskNext)
     /\ GameStep
     /\ UNCHANGED tvars
  \/ PopTask \/ RunTask \/ TaskBody

SharedWithTasks(t) ==
  /\ SharedStep(t)
  /\ HintWithReset
  /\ UNCHANGED <<kind, owner, abandoned, done>>

\* A caller inside an operation goes on.
CallerProgress(t) ==
  \/ CallerStep(t) /\ UNCHANGED tvars
  \/ SharedWithTasks(t)
  \/ TaskStep(t)

GameProgress == GameWithTasks \/ SharedWithTasks(Game)

SyncNext ==
  \/ CallerBegins /\ UNCHANGED tvars
  \/ \E t \in Callers : TaskCall(t) \/ CallerProgress(t)
  \/ GameProgress

SyncSpec == SyncInit /\ [][SyncNext]_syncvars

(***************************************************************************)
(* Fairness as in EngineLifecycle: a thread inside an operation goes on,   *)
(* except that the core may never return from retro_run, from a load or    *)
(* from a task that calls it.                                              *)
(***************************************************************************)
InCoreCall ==
  \/ InCore /\ ~(At("task") \/ At("task_body"))
  \/ At("task_body") /\ Operation[kind[msg]].core /\ coreLoaded

SyncLiveSpec ==
  /\ SyncSpec
  /\ \A t \in Callers : WF_syncvars(CallerProgress(t))
  /\ WF_syncvars(~InCoreCall /\ GameWithTasks)
  /\ WF_syncvars(SharedWithTasks(Game))
-----------------------------------------------------------------------------
\* The body of a task that is waited for runs on the game thread only while
\* its caller waits: the locals it writes through references still exist, and
\* a state that was reported as not loaded is not loaded later.
NoOrphanBody ==
  At("task_body") /\ Operation[kind[msg]].waits =>
     \E t \in Callers : owner[msg] = t /\ pc[t] = "task_wait"

\* The inductive invariant behind it.  A caller that waits owns one task, and
\* who owns a task waits; a task is on its way once, and is not done before it
\* was run; one that is waited for has its owner until that gives up.
TasksTyped ==
  /\ DOMAIN pc = Threads /\ DOMAIN kind = Tasks
  /\ queue \in Seq(Messages \cup Tasks)
  /\ owner \in [Tasks -> Callers \cup {Free}]

OwnersWait ==
  /\ \A k \in Tasks : owner[k] # Free => pc[owner[k]] = "task_wait"
  /\ \A t \in Callers : pc[t] = "task_wait" => \E k \in Tasks : owner[k] = t
  /\ \A j, k \in Tasks : owner[j] = owner[k] /\ owner[k] # Free => j = k

OnItsWayOnce ==
  /\ \A i, j \in DOMAIN queue : queue[i] = queue[j] /\ queue[i] \in Tasks => i = j
  /\ msg \in Tasks => ~InQueue(msg)

Pending(k) == InQueue(k) \/ msg = k

PendingIsOwned ==
  \A k \in Tasks : Pending(k) =>
     /\ k \notin done
     /\ Operation[kind[k]].waits => owner[k] # Free \/ k \in abandoned

BodyIsOwned ==
  /\ pc[Game] \in {"task", "task_body"} => msg \in Tasks
  /\ At("task_body") /\ Operation[kind[msg]].waits => owner[msg] # Free

TaskInv == TasksTyped /\ OwnersWait /\ OnItsWayOnce /\ PendingIsOwned /\ BodyIsOwned

\* Every task operation returns, though the engine stops, resets or hangs in a
\* frame, unless the core hangs in this very task.
TaskAnswered ==
  \A t \in Callers :
     pc[t] = "task_wait" ~>
        (~InTask(t) \/ (InBodyOf(t) /\ InCoreCall))

\* Start joins a game thread that waits for controlMutex_ in the Reset of a
\* Cancel, and holds the mutex itself: neither ever gets on.
JoinsCancel == At("reset_lock") /\ \E t \in Callers : pc[t] = "start_join"

\* controlMutex_ is free again and again, though callers join and wait while
\* they hold it, but for that one case.
MutexReleased == []<>(lock = Free \/ JoinsCancel)

\* Whoever closes the queue, tasks in it included, the game loop comes to its
\* end if the core returns from its calls and the game thread gets the mutex
\* when others ask for it again and again, but for the same case.
LoopEndsWithTasks ==
  WF_syncvars(GameProgress) /\ SF_syncvars(SharedWithTasks(Game)) => ((closed /\ Alive) ~> (~Alive \/ JoinsCancel))
=============================================================================
