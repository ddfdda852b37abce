---------------------------- MODULE EngineHistory ----------------------------
(***************************************************************************)
(* What ArkTS may conclude from the state it polls.  state_ and running_   *)
(* are read without controlMutex_ while operations are in progress.  They  *)
(* can be trusted but for two things the code lets happen: a Reset that    *)
(* meets the last stores of a Stop, and a Cancel, whose unload keeps the   *)
(* state.  Two history variables record whether either has happened in     *)
(* this run of the process; they change nothing of EngineLifecycle.        *)
(***************************************************************************)
EXTENDS EngineInvariant

VARIABLES
  resetMetStop,   \* a Reset cleared the flags before a Stop had stored its own
  cancelPosted    \* a Cancel was in the queue

seen == <<resetMetStop, cancelPosted>>
hvars == <<vars, seen>>

HInit == Init /\ resetMetStop = FALSE /\ cancelPosted = FALSE

HNext ==
  /\ Next
  /\ resetMetStop' = (resetMetStop \/ ~ResetAlone)
  /\ cancelPosted' = (cancelPosted \/ ~NoCancelPosted')

HSpec == HInit /\ [][HNext]_hvars
-----------------------------------------------------------------------------
\* STOPPED, for which a switch waits before it starts the next game, is only
\* published once the game thread is gone (TransitionTo after the mutex was
\* released), unless a Reset met a Stop.
PolledStopIsTrue == resetMetStop \/ StoppedMeansQuiet

\* With the same exception, an engine that reports itself running on a closed
\* queue is being stopped, was left by a stop that timed out, or joins the thread
\* of a Start that failed: Start's "already running" is no false success.
PolledRunIsOpen == resetMetStop \/ RunningTakesMessages

\* Until a Cancel is posted the state agrees with what is loaded, through
\* failed loads, reloads and transitions the table refuses.
PolledStateMatches == cancelPosted \/ StateMatchesCore
=============================================================================
