----------------------------- MODULE SwitchGame -----------------------------
(***************************************************************************)
(* Switching games: SwitchGameAsync and CancelSwitch of the NAPI layer,    *)
(* composed with the engine they drive.                                    *)
(*                                                                         *)
(* Every request takes the next switch_token and is executed by a worker   *)
(* of the pool (ExecuteSwitchGame): acquire active_switch_token, Stop,     *)
(* Start, SetFilesDir, LoadCore, LoadGame, and wait for the engine in      *)
(* between.  The worker with the latest token goes on; a superseded one    *)
(* gives up at its next check.  A worker's engine call is an operation of  *)
(* EngineLifecycle by that caller, interleaved step by step with the game  *)
(* thread and the other callers.                                           *)
(*                                                                         *)
(* tags, handling and current say whose request a message, the message     *)
(* being handled, the loaded core and the loaded game stem from; they      *)
(* stand for the paths in the messages.                                    *)
(***************************************************************************)
EXTENDS EngineLifecycle

CONSTANTS
  Workers,    \* threads of the NAPI worker pool
  Ui,         \* the thread that runs SwitchGameAsync and CancelSwitch
  MaxToken,   \* bound: tokens handed out
  CanCancel   \* the user may cancel

ASSUME SwitchCallers == Callers = Workers \cup {Ui} /\ Ui \notin Workers
ASSUME MaxTokenNat == MaxToken \in Nat
ASSUME CanCancelBool == CanCancel \in BOOLEAN

VARIABLES
  switchToken,   \* switch_token
  activeToken,   \* active_switch_token
  at,            \* where each worker is in ExecuteSwitchGame
  polling,       \* the worker is past the first check of WaitForStateWithToken
  token,         \* ctx->token, which also stands for the game asked for
  ok,            \* what the worker's last engine call returned
  ui,            \* where CancelSwitch is
  won,           \* the latest token whose switch reported success
  cancelled,     \* there was a cancel (history)
  tags, handling, current

arbiter == <<switchToken, activeToken>>
history == <<won, cancelled>>
svars == <<arbiter, at, polling, token, ok, ui, history>>
origin == <<tags, handling, current>>
allvars == <<vars, svars, origin>>

Latest(w) == token[w] = switchToken

Move(w, l) == at' = [at EXCEPT ![w] = l]

\* The waits of ExecuteSwitchGame: for which state, and where they lead.
Waits ==
  [wait_stopped |-> [for |-> "STOPPED",     then |-> "start",     else |-> "recover"],
   wait_core    |-> [for |-> "CORE_LOADED", then |-> "load_game", else |-> "recover"],
   wait_running |-> [for |-> "RUNNING",     then |-> "done",      else |-> "recover"],
   stop_failed  |-> [for |-> "STOPPED",     then |-> "reset",     else |-> "done"]]

SwitchInit ==
  /\ Init
  /\ switchToken = 0 /\ activeToken = 0
  /\ at = [w \in Workers |-> "free"]
  /\ polling = [w \in Workers |-> FALSE]
  /\ token = [w \in Workers |-> 0]
  /\ ok = [w \in Workers |-> FALSE]
  /\ ui = "idle"
  /\ won = 0
  /\ cancelled = FALSE
  /\ tags = <<>> /\ handling = 0 /\ current = [core |-> 0, game |-> 0]
-----------------------------------------------------------------------------
(***************************************************************************)
(* The UI thread                                                           *)
(***************************************************************************)
\* SwitchGameAsync. A request that is answered as a duplicate of the last one
\* changes nothing, and is left out.
Request(w) ==
  /\ ui = "idle"
  /\ at[w] = "free"
  /\ switchToken < MaxToken
  /\ switchToken' = switchToken + 1
  /\ token' = [token EXCEPT ![w] = switchToken + 1]
  /\ Move(w, "acquire")
  /\ UNCHANGED <<vars, origin, activeToken, polling, ok, ui, history>>

CancelBumpsToken ==
  /\ CanCancel
  /\ ui = "idle"
  /\ switchToken < MaxToken
  /\ switchToken' = switchToken + 1
  /\ ui' = "release"
  /\ cancelled' = TRUE
  /\ UNCHANGED <<vars, origin, activeToken, at, polling, token, ok, won>>

\* notify_all on switch_cond.
Woken == [w \in Workers |-> IF at[w] = "asleep" THEN "acquire" ELSE at[w]]

CancelReleasesToken ==
  /\ ui = "release"
  /\ activeToken' = 0
  /\ at' = IF activeToken # 0 THEN Woken ELSE at
  /\ ui' = "push"
  /\ UNCHANGED <<vars, origin, switchToken, polling, token, ok, history>>

CancelReachesEngine ==
  /\ ui = "push"
  /\ \/ closed /\ UNCHANGED <<vars, tags>>
     \/ Post(Ui, "Cancel") /\ tags' = Append(tags, 0)
  /\ ui' = "idle"
  /\ UNCHANGED <<handling, current, arbiter, at, polling, token, ok, history>>
-----------------------------------------------------------------------------
(***************************************************************************)
(* A worker between its engine calls                                       *)
(***************************************************************************)
\* Mutant: a worker does not wait for the active switch to end.
AcquireAlways(w) ==
  /\ at[w] = "acquire"
  /\ \/ ~Latest(w) /\ Move(w, "free") /\ UNCHANGED activeToken
     \/ Latest(w) /\ activeToken' = token[w] /\ Move(w, "begin")
  /\ UNCHANGED <<vars, origin, switchToken, polling, token, ok, ui, history>>

AcquireSwitchToken(w) ==
  /\ at[w] = "acquire"
  /\ \/ ~Latest(w)
        /\ Move(w, "free") /\ UNCHANGED activeToken
     \/ Latest(w) /\ activeToken # 0
        /\ Move(w, "asleep") /\ UNCHANGED activeToken
     \/ Latest(w) /\ activeToken = 0
        /\ activeToken' = token[w] /\ Move(w, "begin")
  /\ UNCHANGED <<vars, origin, switchToken, polling, token, ok, ui, history>>

\* Mutant: the release wakes nobody.
ReleaseSilently(w) ==
  /\ at[w] = "done"
  /\ activeToken' = IF activeToken = token[w] THEN 0 ELSE activeToken
  /\ Move(w, "free")
  /\ UNCHANGED <<vars, origin, switchToken, polling, token, ok, ui, history>>

ReleaseSwitchToken(w) ==
  /\ at[w] = "done"
  /\ IF activeToken = token[w]
       THEN activeToken' = 0 /\ at' = [Woken EXCEPT ![w] = "free"]
       ELSE UNCHANGED activeToken /\ Move(w, "free")
  /\ UNCHANGED <<vars, origin, switchToken, polling, token, ok, ui, history>>

\* A step that only moves the worker.
Goes(w, l) == Move(w, l) /\ UNCHANGED vars

\* The worker calls operation o of the engine.
Calls(w, o, l) == Move(w, l) /\ Call(w, o)

Quiet == UNCHANGED <<arbiter, polling, token, ok, ui, history, origin>>

\* Mutant: only a game in progress is stopped, a session that is still loading
\* is reused.
BeginReusesSession(w) ==
  /\ at[w] = "begin"
  /\ \/ ~Latest(w) /\ Goes(w, "done")
     \/ Latest(w) /\ state \notin {"RUNNING", "PAUSED"} /\ Goes(w, "start")
     \/ Latest(w) /\ state \in {"RUNNING", "PAUSED"} /\ Calls(w, "Stop", "stopping")
  /\ Quiet

Begin(w) ==
  /\ at[w] = "begin"
  /\ \/ ~Latest(w) /\ Goes(w, "done")
     \/ Latest(w) /\ state \in {"INIT", "STOPPED"} /\ Goes(w, "start")
     \/ Latest(w) /\ state \notin {"INIT", "STOPPED"} /\ Calls(w, "Stop", "stopping")
  /\ Quiet

\* Before each step of the sequence a superseded switch gives up.
Proceed(w) ==
  /\ \/ at[w] \in {"start", "load_core", "load_game", "recover"}
        /\ ~Latest(w) /\ Goes(w, "done")
     \/ at[w] = "start" /\ Latest(w) /\ Calls(w, "Start", "starting")
     \/ at[w] = "load_core" /\ Latest(w) /\ Calls(w, "LoadCore", "core_sent")
     \/ at[w] = "load_game" /\ Latest(w) /\ Goes(w, "push_game")
     \/ at[w] = "recover" /\ Latest(w) /\ Calls(w, "Stop", "recover_stop")
     \/ at[w] = "reset" /\ Calls(w, "Reset", "resetting")
  /\ Quiet

\* An engine call came back.
Returned(w) ==
  /\ Idle(w)
  /\ \/ at[w] = "stopping" /\ Goes(w, IF ok[w] THEN "wait_stopped" ELSE "stop_failed")
     \/ at[w] = "starting" /\ Goes(w, IF ok[w] THEN "files_dir" ELSE "recover")
     \/ at[w] = "core_sent" /\ Goes(w, IF ok[w] THEN "wait_core" ELSE "recover")
     \/ at[w] = "recover_stop" /\ Goes(w, IF ok[w] THEN "reset" ELSE "done")
     \/ at[w] = "resetting" /\ Goes(w, "done")
  /\ Quiet

\* SetFilesDir waits for the game thread with the mutex held; here it is one
\* step that is refused in some states, and may fail in the others.
SetFilesDir(w) ==
  /\ at[w] = "files_dir"
  /\ lock = Free
  /\ \/ state \notin CoreLoadedStates \cup {"LOADING", "STOPPING"}
        /\ Goes(w, "load_core")
     \/ Goes(w, "recover")
  /\ Quiet

PushGame(w) ==
  /\ at[w] = "push_game"
  /\ \/ lock = Free /\ closed /\ Goes(w, "recover") /\ UNCHANGED tags
     \/ LoadGame(w) /\ Move(w, "wait_running") /\ tags' = Append(tags, token[w])
  /\ UNCHANGED <<arbiter, polling, token, ok, ui, history, handling,
                 current>>

\* WaitForStateWithToken: a first check of the token, then slices of 50 ms in
\* which the state may be seen, the token found stale, or the time used up.
WaitForState(w) ==
  /\ at[w] \in DOMAIN Waits
  /\ LET wait == Waits[at[w]] IN
     \/ ~polling[w] /\ Latest(w)
        /\ polling' = [polling EXCEPT ![w] = TRUE] /\ UNCHANGED <<at, won>>
     \/ ~polling[w] /\ ~Latest(w)
        /\ Move(w, wait.else) /\ UNCHANGED <<polling, won>>
     \/ polling[w] /\ state = wait.for
        /\ Move(w, wait.then)
        /\ polling' = [polling EXCEPT ![w] = FALSE]
        /\ won' = IF at[w] = "wait_running" THEN token[w] ELSE won
     \/ polling[w] /\ (state # wait.for \/ ~Latest(w))
        /\ Move(w, wait.else)
        /\ polling' = [polling EXCEPT ![w] = FALSE] /\ UNCHANGED won
  /\ UNCHANGED <<vars, origin, arbiter, token, ok, ui, cancelled>>

WorkerStep(w) ==
  \/ AcquireSwitchToken(w) \/ ReleaseSwitchToken(w)
  \/ Begin(w) \/ Proceed(w) \/ Returned(w)
  \/ SetFilesDir(w) \/ PushGame(w) \/ WaitForState(w)
-----------------------------------------------------------------------------
(***************************************************************************)
(* The engine's own steps, and what they do to the origins.                *)
(***************************************************************************)
Track(k) ==
  /\ tags' = IF queue' = queue THEN tags
             ELSE IF Len(queue') > Len(queue) THEN Append(tags, k)
             ELSE IF queue' = Tail(queue) THEN Tail(tags)
             ELSE <<>>
  /\ handling' = IF msg = NoMsg /\ msg' # NoMsg THEN Head(tags) ELSE handling
  /\ current' =
       [core |-> IF ~coreLoaded' THEN 0
                 ELSE IF At("load_core") THEN handling ELSE current.core,
        game |-> IF ~gameLoaded' THEN 0
                 ELSE IF At("load_rom") THEN handling ELSE current.game]

CallerRuns(w) ==
  /\ CallerStep(w) \/ SharedStep(w)
  /\ Track(token[w])
  /\ ok' = IF pc'[w] = "idle" THEN [ok EXCEPT ![w] = Outcome(w)] ELSE ok
  /\ UNCHANGED <<arbiter, at, polling, token, ui, history>>

GameRuns ==
  /\ GameStep \/ SharedStep(Game)
  /\ Track(0)
  /\ UNCHANGED svars

UiStep == CancelReleasesToken \/ CancelReachesEngine

SwitchNext ==
  \/ \E w \in Workers : Request(w)
  \/ CancelBumpsToken
  \/ UiStep
  \/ \E w \in Workers : WorkerStep(w) \/ CallerRuns(w)
  \/ GameRuns

SwitchSpec == SwitchInit /\ [][SwitchNext]_allvars

(***************************************************************************)
(* Fairness: the pool runs its workers, the engine its threads, the UI     *)
(* thread finishes a cancel it began.  New requests are not assumed.       *)
(***************************************************************************)
SwitchLiveSpec ==
  /\ SwitchSpec
  /\ \A w \in Workers : WF_allvars(WorkerStep(w)) /\ WF_allvars(CallerRuns(w))
  /\ WF_allvars(GameRuns)
  /\ WF_allvars(UiStep)
-----------------------------------------------------------------------------
(***************************************************************************)
(* Properties                                                              *)
(***************************************************************************)
Outside == {"free", "acquire", "asleep"}

\* At most one switch drives the engine, whatever is superseded or cancelled.
SingleFlight ==
  \A v, w \in Workers : (at[v] \notin Outside /\ at[w] \notin Outside) => v = w

Mine(k) == current = [core |-> k, game |-> k]

\* So it is as long as nobody cancels.
SingleFlightUntilCancel == cancelled \/ SingleFlight

\* The inductive invariant behind it.  Every request has a token of its own, and
\* until somebody cancels the active token is that of the switch at work.
TokensTyped ==
  /\ switchToken \in Nat /\ token \in [Workers -> Nat]
  /\ DOMAIN at = Workers

TokensDiffer ==
  /\ \A w \in Workers : token[w] <= switchToken
  /\ \A v, w \in Workers :
       at[v] # "free" /\ at[w] # "free" /\ token[v] = token[w] => v = w
  /\ \A w \in Workers : at[w] # "free" => token[w] # 0

HolderIsActive ==
  /\ ui = "release" => cancelled
  /\ ~cancelled => \A w \in Workers : at[w] \notin Outside => activeToken = token[w]

FlightInv == TokensTyped /\ TokensDiffer /\ HolderIsActive

\* Without a cancel, a switch that reports success has brought up the core and the game it was
\* asked for, not one that a superseded switch had still posted.
SuccessIsMine ==
  [][\A w \in Workers :
       won' = token[w] /\ won # won' /\ ~cancelled => Mine(token[w])]_allvars

\* Every request is answered, superseded or not.
EveryRequestAnswered ==
  \A w \in Workers : (at[w] # "free") ~> (at[w] = "free")
=============================================================================
