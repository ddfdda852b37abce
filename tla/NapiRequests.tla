---------------------------- MODULE NapiRequests ----------------------------
(***************************************************************************)
(* The NAPI layer: the requests ArkTS makes and waits for.                 *)
(*                                                                         *)
(* An asynchronous binding allocates a context and a promise, queues a     *)
(* work item to the pool, whose threads execute it in order, and settles   *)
(* the promise from the completion callback, on the JS thread again.       *)
(* Each of these steps may fail, and every path must release the context,  *)
(* the work item and what else it holds, and settle the promise.  If the   *)
(* environment of the JS thread is torn down, works that were not started  *)
(* are cancelled, and their promises may not be touched any more.          *)
(*                                                                         *)
(* Composed with EngineLifecycle: the JS thread calls its operations       *)
(* directly, a worker executes StopEngineAsync step by step and watches    *)
(* the engine's state in WaitForEngineStateAsync.  Other engine calls are  *)
(* one step that succeeds or fails; SyncTask and SwitchGame show what      *)
(* happens inside them, also the tokens that CancelSwitch takes away.      *)
(***************************************************************************)
EXTENDS EngineLifecycle

CONSTANTS
  Js,          \* the JS thread
  Workers,     \* the threads of the pool
  Requests,    \* contexts, reused once they are released
  Asked,       \* bindings ArkTS uses
  NapiFaults,  \* what may go wrong, a subset of NapiFaultKinds
  WaitTarget   \* the state WaitForEngineStateAsync waits for

NapiFaultKinds ==
  {"setup",      \* the work item cannot be named, created or queued
   "status",     \* the completion status is an error
   "result",     \* the result cannot be allocated
   "reason",     \* nor can the reason of the rejection
   "teardown"}   \* the environment is torn down

ASSUME PoolIsCallers == Callers = Workers \cup {Js} /\ Js \notin Workers
ASSUME NapiFaultsKnown == NapiFaults \subseteq NapiFaultKinds
ASSUME TargetIsState == WaitTarget \in States

(***************************************************************************)
(* The bindings: how a request is executed, how the promise is settled     *)
(* when the work cannot be queued, how a failure of the engine is settled  *)
(* ("value": it cannot be told from a success), and what a request holds   *)
(* besides its context and its work item.  lastError_ is left out.         *)
(***************************************************************************)
Binding(how, setup, failure, holds) ==
  [how |-> how, setup |-> setup, failure |-> failure,
   holds |-> {"ctx", "work"} \cup holds]

Answers(failure) == Binding("call", "rejected", failure, {})
Fetches == Binding("call", "rejected", "value", {})

GetSaveStateSizeAsync == Fetches
GetSRAMAsync == Answers("null")
SetSRAMAsync == Answers("false")
ResetCoreAsync == Answers("false")
CheatResetAsync == Answers("false")
CheatSetAsync == Answers("false")
GetCoreOptionsAsync == Fetches
SetCoreOptionAsync == Answers("false")
SaveStateAsync == Answers("rejected")
SaveStateBundleAsync == Answers("rejected")
LoadStateAsync == Answers("false")
DiskControlSetEjectStateAsync == Answers("false")
DiskControlSetImageIndexAsync == Answers("false")
DiskControlGetSnapshotAsync == Fetches
DiskControlReplaceImageIndexAsync == Answers("false")
DiskControlAddImageIndexAsync == Answers("false")
GetRegionAsync == Answers("value")
SetControllerPortDeviceAsync == Answers("false")
TestCoreLoader == Binding("call", "value", "value", {})
GetRawFileListAsync == Binding("call", "value", "value", {"mgr"})
WaitForEngineStateAsync == Binding("wait", "false", "false", {})
StopEngineAsync == Binding("stop", "false", "false", {})
\* The progress callback is held as a thread-safe function.
SwitchGameAsync == Binding("call", "error", "error", {"tsfn"})

Bindings ==
  {GetSaveStateSizeAsync, GetSRAMAsync, SetSRAMAsync, ResetCoreAsync,
   CheatResetAsync, CheatSetAsync, GetCoreOptionsAsync, SetCoreOptionAsync,
   SaveStateAsync, SaveStateBundleAsync, LoadStateAsync,
   DiskControlSetEjectStateAsync, DiskControlSetImageIndexAsync,
   DiskControlGetSnapshotAsync, DiskControlReplaceImageIndexAsync,
   DiskControlAddImageIndexAsync, GetRegionAsync,
   SetControllerPortDeviceAsync, TestCoreLoader, GetRawFileListAsync,
   WaitForEngineStateAsync, StopEngineAsync, SwitchGameAsync}

ASSUME AskedBindings == Asked \subseteq Bindings

Settled == {"value", "false", "null", "error", "rejected"}

NoBinding == [how |-> "none"]
Nothing == "nothing"
ASSUME NothingIsNoRequest == Nothing \notin Requests

VARIABLES
  binding,   \* what each request asks for
  stage,     \* how far it is
  promise,   \* the promise it was given, kept until the context is reused
  held,      \* what it has allocated
  ok,        \* the result its execution left in the context
  pool,      \* work items not started, in order
  runs,      \* the request each worker executes
  gate,      \* the static stop_in_progress of this layer
  tornDown   \* the first environment is gone

requests == <<binding, stage, promise, held, ok>>
napi == <<requests, pool, runs, gate, tornDown>>
napiVars == <<vars, napi>>

NapiInit ==
  /\ Init
  /\ binding = [r \in Requests |-> NoBinding]
  /\ stage = [r \in Requests |-> "free"]
  /\ promise = [r \in Requests |-> "none"]
  /\ held = [r \in Requests |-> {}]
  /\ ok = [r \in Requests |-> FALSE]
  /\ pool = <<>>
  /\ runs = [w \in Workers |-> Nothing]
  /\ gate = FALSE
  /\ tornDown = FALSE
-----------------------------------------------------------------------------
(***************************************************************************)
(* Asking                                                                  *)
(***************************************************************************)
Asks(r, b) == stage[r] = "free" /\ Idle(Js) /\ b \in Asked

Settle(r, p) == promise' = [promise EXCEPT ![r] = p]

\* A second StopEngineAsync is answered as if the first had succeeded.
StopRepeated(r) ==
  /\ Asks(r, StopEngineAsync)
  /\ gate
  /\ Settle(r, "value")
  /\ UNCHANGED <<vars, binding, stage, held, ok, pool, runs, gate, tornDown>>

QueueWork(r, b) ==
  /\ Asks(r, b)
  /\ b.how = "stop" => ~gate
  /\ Settle(r, "pending")
  /\ binding' = [binding EXCEPT ![r] = b]
  /\ stage' = [stage EXCEPT ![r] = "queued"]
  /\ held' = [held EXCEPT ![r] = b.holds]
  /\ pool' = Append(pool, r)
  /\ gate' = (gate \/ b.how = "stop")
  /\ UNCHANGED <<vars, ok, runs, tornDown>>

\* Mutant: the gate stays shut when the stop cannot be queued.
QueueFailsGateShut(r, b) ==
  /\ Asks(r, b)
  /\ b.how = "stop" => ~gate
  /\ "setup" \in NapiFaults
  /\ Settle(r, b.setup)
  /\ gate' = (gate \/ b.how = "stop")
  /\ UNCHANGED <<vars, binding, stage, held, ok, pool, runs, tornDown>>

\* Whatever was allocated is released, the gate is opened again and the
\* promise settled before it is returned.
QueueFails(r, b) ==
  /\ Asks(r, b)
  /\ b.how = "stop" => ~gate
  /\ "setup" \in NapiFaults
  /\ Settle(r, b.setup)
  /\ UNCHANGED <<vars, binding, stage, held, ok, pool, runs, gate,
                 tornDown>>
-----------------------------------------------------------------------------
(***************************************************************************)
(* Executing: a worker takes the first work item.                          *)
(***************************************************************************)
Take(w) ==
  /\ runs[w] = Nothing
  /\ Idle(w)
  /\ pool # <<>>
  /\ runs' = [runs EXCEPT ![w] = Head(pool)]
  /\ pool' = Tail(pool)
  /\ stage' = [stage EXCEPT ![Head(pool)] = "running"]
  /\ IF binding[Head(pool)].how = "stop" THEN Call(w, "Stop")
                                         ELSE UNCHANGED vars
  /\ UNCHANGED <<binding, promise, held, ok, gate, tornDown>>

Executes(w, how) == runs[w] # Nothing /\ binding[runs[w]].how = how

Executed(w) == /\ stage' = [stage EXCEPT ![runs[w]] = "ran"]
               /\ runs' = [runs EXCEPT ![w] = Nothing]

\* The engine call of most bindings succeeds or fails.
EngineCall(w) ==
  /\ Executes(w, "call")
  /\ \E result \in BOOLEAN : ok' = [ok EXCEPT ![runs[w]] = result]
  /\ Executed(w)
  /\ UNCHANGED <<vars, binding, promise, held, pool, gate, tornDown>>

\* WaitForState: the target, or the time limit.
WaitForState(w) ==
  /\ Executes(w, "wait")
  /\ ok' = [ok EXCEPT ![runs[w]] = (state = WaitTarget)]
  /\ Executed(w)
  /\ UNCHANGED <<vars, binding, promise, held, pool, gate, tornDown>>

\* A step of Stop in the worker, the last one leaving its result.
ExecuteStop(w) ==
  /\ Executes(w, "stop")
  /\ SharedStep(w)
  /\ ok' = [ok EXCEPT ![runs[w]] = pc'[w] = "idle" /\ Outcome(w)]
  /\ UNCHANGED <<binding, stage, promise, held, pool, runs, gate, tornDown>>

\* Stop has returned, true or false.
OpenGate(w) ==
  /\ Executes(w, "stop") /\ Idle(w)
  /\ gate' = FALSE
  /\ Executed(w)
  /\ UNCHANGED <<vars, binding, promise, held, ok, pool, tornDown>>
-----------------------------------------------------------------------------
(***************************************************************************)
(* Completing, on the JS thread between two calls                          *)
(***************************************************************************)
\* Mutant: a path of the completion returns without releasing the work.
ReleaseCtxOnly(r) == /\ stage' = [stage EXCEPT ![r] = "free"]
                     /\ held' = [held EXCEPT ![r] = @ \ {"ctx"}]
                     /\ binding' = [binding EXCEPT ![r] = NoBinding]
                     /\ ok' = [ok EXCEPT ![r] = FALSE]

Release(r) == /\ stage' = [stage EXCEPT ![r] = "free"]
              /\ held' = [held EXCEPT ![r] = {}]
              /\ binding' = [binding EXCEPT ![r] = NoBinding]
              /\ ok' = [ok EXCEPT ![r] = FALSE]

Completes(r) == stage[r] = "ran" /\ Idle(Js)

CompleteOk(r) ==
  /\ Completes(r) /\ ok[r]
  /\ Settle(r, "value")
  /\ Release(r)
  /\ UNCHANGED <<vars, pool, runs, gate, tornDown>>

CompleteFailed(r) ==
  /\ Completes(r) /\ ~ok[r]
  /\ Settle(r, binding[r].failure)
  /\ Release(r)
  /\ UNCHANGED <<vars, pool, runs, gate, tornDown>>

\* The status is an error, or the result cannot be made: rejected, if the
\* reason of the rejection can be made.
CompleteRejected(r) ==
  /\ Completes(r)
  /\ NapiFaults \cap {"status", "result"} # {}
  /\ \/ Settle(r, "rejected")
     \/ "reason" \in NapiFaults /\ Settle(r, "lost")
  /\ Release(r)
  /\ UNCHANGED <<vars, pool, runs, gate, tornDown>>

\* The environment waits for the works that run; the others will be completed
\* as cancelled.  At most once: a bound.
TearDownEnv ==
  /\ "teardown" \in NapiFaults
  /\ ~tornDown /\ Idle(Js)
  /\ \A r \in Requests : stage[r] \in {"free", "queued"}
  /\ tornDown' = TRUE
  /\ stage' = [r \in Requests |-> IF stage[r] = "queued" THEN "cancelled"
                                                         ELSE stage[r]]
  /\ promise' = [r \in Requests |-> IF stage[r] = "queued" THEN "gone"
                                                           ELSE promise[r]]
  /\ pool' = <<>>
  /\ UNCHANGED <<vars, binding, held, ok, runs, gate>>

\* Nothing but native memory may be touched.
CompleteCancelled(r) ==
  /\ stage[r] = "cancelled"
  /\ Release(r)
  /\ UNCHANGED <<vars, promise, pool, runs, gate, tornDown>>
-----------------------------------------------------------------------------
(***************************************************************************)
(* The lifecycle bindings run on the JS thread, step by step, beside a     *)
(* worker inside Stop.                                                     *)
(***************************************************************************)
StartEngine == Call(Js, "Start") /\ UNCHANGED napi
StopEngine == Call(Js, "Stop") /\ UNCHANGED napi
ResetEngine == Call(Js, "Reset") /\ UNCHANGED napi
LoadCore == Call(Js, "LoadCore") /\ UNCHANGED napi
LoadRom == LoadGame(Js) /\ UNCHANGED napi
PauseEngine == Post(Js, "Pause") /\ UNCHANGED napi
ResumeEngine == Post(Js, "Resume") /\ UNCHANGED napi

\* Whether a switch is at work or not.
CancelSwitch == Post(Js, "Cancel") /\ UNCHANGED napi

JsStep == (CallerStep(Js) \/ SharedStep(Js)) /\ UNCHANGED napi

GameThread == (GameStep \/ SharedStep(Game)) /\ UNCHANGED napi

Worker(w) == Take(w) \/ EngineCall(w) \/ WaitForState(w) \/ ExecuteStop(w)
               \/ OpenGate(w)

Complete(r) == \/ CompleteOk(r) \/ CompleteFailed(r) \/ CompleteRejected(r)
               \/ CompleteCancelled(r)

NapiNext ==
  \/ \E r \in Requests :
       \/ StopRepeated(r) \/ Complete(r)
       \/ \E b \in Asked : QueueWork(r, b) \/ QueueFails(r, b)
  \/ \E w \in Workers : Worker(w)
  \/ TearDownEnv
  \/ StartEngine \/ StopEngine \/ ResetEngine \/ LoadCore \/ LoadRom
  \/ PauseEngine \/ ResumeEngine \/ CancelSwitch
  \/ JsStep
  \/ GameThread

NapiSpec == NapiInit /\ [][NapiNext]_napiVars
-----------------------------------------------------------------------------
(***************************************************************************)
(* Properties                                                              *)
(***************************************************************************)
InFlight(r) == stage[r] \in {"queued", "running"}

\* The gate that answers StopEngineAsync at once is only shut while a stop is
\* queued or executed, whatever way that stop ends: otherwise the engine could
\* never be stopped again.  A stop cancelled with its environment is the
\* exception: its gate is never opened.
GateHasHolder ==
  gate => \/ \E r \in Requests : InFlight(r) /\ binding[r].how = "stop"
          \/ tornDown

\* On whatever path a request ends, what it allocated is released with it, and
\* not before: a promise is pending exactly while its context lives, but for
\* those of an environment that is gone.
NothingLeaked ==
  \A r \in Requests :
     /\ held[r] = IF stage[r] = "free" THEN {} ELSE binding[r].holds
     /\ promise[r] = "pending" <=> stage[r] \in {"queued", "running", "ran"}

\* The inductive invariant behind them: a request is in the pool while it is
\* queued and on one worker while it runs, once each.
RequestsTyped ==
  /\ binding \in [Requests -> Asked \cup {NoBinding}]
  /\ stage \in [Requests -> {"free", "queued", "running", "ran", "cancelled"}]
  /\ DOMAIN promise = Requests /\ DOMAIN held = Requests
  /\ pool \in Seq(Requests)
  /\ runs \in [Workers -> Requests \cup {Nothing}]
  /\ \A r \in Requests : stage[r] # "free" => binding[r] \in Asked

PoolIsQueued ==
  /\ \A i \in DOMAIN pool : stage[pool[i]] = "queued"
  /\ \A i, j \in DOMAIN pool : pool[i] = pool[j] => i = j

WorkersRun ==
  /\ \A w \in Workers : runs[w] # Nothing => stage[runs[w]] = "running"
  /\ \A v, w \in Workers : runs[v] = runs[w] /\ runs[w] # Nothing => v = w

RequestsInv == RequestsTyped /\ PoolIsQueued /\ WorkersRun /\ NothingLeaked /\ GateHasHolder
=============================================================================
