------------------------------ MODULE Playback ------------------------------
(***************************************************************************)
(* The engine and its sound: what LibretroEngine does to AudioBridge when  *)
(* its state changes, when a ROM is loaded, and in a frame, with the two   *)
(* callbacks of OHAudio in between.                                        *)
(*                                                                         *)
(* One thread drives the bridge: the game thread, and after it is joined   *)
(* the thread that stops or resets the engine.  A step here is what that   *)
(* thread does between two points where a callback can tell the            *)
(* difference.  A frame hands over at most one batch of audio.  States     *)
(* that leave the sound alone and that no callback sees are passed in the  *)
(* step of the load or of the stop.                                        *)
(***************************************************************************)
EXTENDS AudioBridge

CONSTANTS
  Rates,      \* the sample rates content is loaded with, all above 0
  AvRates,    \* those a core may change to while it runs
  Latencies,  \* what SET_MINIMUM_AUDIO_LATENCY may ask for
  Loads,      \* bound: the ROMs loaded
  Requests    \* bound: latencies and AV infos the core asks for

ASSUME RatesAssumption ==
  (Rates \cup AvRates) \subseteq Nat \ {0} /\ Latencies \subseteq Nat /\ Loads \in Nat /\ Requests \in Nat

DefaultRate == 0   \* audioSampleRate_ after Reset: the rate of no content here
Nothing == -1      \* no request of the core pending
NoLoad == [rate |-> DefaultRate, by |-> "nobody"]

VARIABLES
  engine,   \* state, audioSampleRate_ (rate), an error reported, and what
            \* the core has asked for: latency, av
  pc,       \* where the driving thread is
  load,     \* the rate Reset is on its way to, and for whom
  budget,   \* loads and requests left
  refused   \* a Reset that AV info asked for has failed since the last load

drive == <<engine, load, budget, refused>>
vars == <<audio, callbacks, pc, drive>>

Idle == pc = "idle" /\ ~audio.player.clearing
At(place) == pc = place /\ ~audio.player.clearing
GameThread == engine.state \in {"STARTING", "CORE_LOADED", "RUNNING", "PAUSED", "ERROR"}

Init ==
    /\ \E rt \in BOOLEAN :
         audio = [player |-> NoPlayer, ring |-> NoRing, bridge |-> NoBridge(rt),
                  faults |-> Faults]
    /\ data = "none" /\ focus = "none" /\ hints = Hints /\ gaveUp = FALSE
    /\ engine = [state |-> "INIT", rate |-> DefaultRate, error |-> FALSE,
                 latency |-> Nothing, av |-> Nothing]
    /\ pc = "idle" /\ refused = FALSE
    /\ load = NoLoad
    /\ budget = [loads |-> Loads, requests |-> Requests]

-----------------------------------------------------------------------------
(* TransitionTo: the bridge follows the state.  What it refuses on the way *)
(* to RUNNING or PAUSED is an ERROR; on the way down it is reported.       *)

RefusalIgnored(to) == IF to = "RUNNING" THEN "ERROR" ELSE to  \* mutant
Refusal(to) == IF to \in {"RUNNING", "PAUSED"} THEN "ERROR" ELSE to

Calls(to, a) == IF to = "RUNNING" THEN BridgeStart(a)
                ELSE IF to = "STOPPED" THEN BridgeStop(a) ELSE BridgePause(a)

Transition(to, a, e) ==
    {[a |-> r.a, e |-> IF r.ok THEN [e EXCEPT !.state = to]
                       ELSE [e EXCEPT !.state = Refusal(to), !.error = TRUE]] :
        r \in Calls(to, a)}

TransitionTo(to) ==
    /\ \E t \in Transition(to, audio, engine) : audio' = t.a /\ engine' = t.e
    /\ UNCHANGED <<callbacks, pc, load, budget, refused>>

\* Start of the engine begins with a Reset, which also serves on its own.
ResetEngine ==
    /\ Idle /\ engine.state \in {"INIT", "STOPPED"}
    /\ \E r \in BridgeStop(audio) : audio' = r.a
    /\ \E to \in {"INIT", "STARTING"} :
         engine' = [engine EXCEPT !.state = to, !.rate = DefaultRate, !.error = FALSE,
                                  !.latency = Nothing]
    /\ UNCHANGED <<callbacks, pc, load, budget, refused>>

\* In ERROR the core is replaced, the state stays.
LoadCore ==
    /\ Idle /\ engine.state \in {"STARTING", "ERROR"}
    /\ \E ok \in BOOLEAN :
         engine' = [engine EXCEPT
                      !.state = IF ok /\ @ = "STARTING" THEN "CORE_LOADED" ELSE "ERROR",
                      !.error = ~ok, !.latency = Nothing]
    /\ UNCHANGED <<audio, callbacks, pc, load, budget, refused>>

Pause == Idle /\ engine.state = "RUNNING" /\ TransitionTo("PAUSED")
Resume == Idle /\ engine.state = "PAUSED" /\ TransitionTo("RUNNING")
StopRequested ==   \* also in the middle of a frame
    /\ Idle \/ At("frame")
    /\ GameThread
    /\ \E t \in Transition("STOPPING", audio, engine) : audio' = t.a /\ engine' = t.e
    /\ pc' = "idle"
    /\ UNCHANGED <<callbacks, load, budget, refused>>
Stopped == Idle /\ engine.state = "STOPPING" /\ TransitionTo("STOPPED")

-----------------------------------------------------------------------------
(* Reset of the bridge, for LoadRom and for the AV info of a core.  One to *)
(* another rate cleans up: it waits for the callbacks, two seconds at most,*)
(* before the renderer is released and everything made afresh.             *)

Loaded(r, e) ==
    IF ~r.ok THEN {[a |-> r.a, e |-> [e EXCEPT !.state = "ERROR", !.error = TRUE]]}
    ELSE Transition("RUNNING", r.a, [e EXCEPT !.error = FALSE])

\* ProcessFrame does not look at what Reset answers.
Answered(r) ==
    /\ pc' = "idle"
    /\ IF load.by = "LoadRom"
       THEN /\ \E t \in Loaded(r, engine) : audio' = t.a /\ engine' = t.e
            /\ UNCHANGED refused
       ELSE /\ audio' = r.a /\ refused' = (refused \/ ~r.ok)
            /\ UNCHANGED engine
    /\ load' = NoLoad

ResetAudio ==
    /\ At("reset")
    /\ LET b == audio.bridge
       IN  IF b.init /\ b.rate # load.rate
           THEN \E r \in ResetStops(audio) :
                  IF r.ok
                  THEN pc' = "cleanup" /\ audio' = r.a /\ UNCHANGED <<engine, load, refused>>
                  ELSE Answered(r)
           ELSE \E r \in IF b.init THEN {Result(TRUE, Rearmed(audio))}
                         ELSE Initialize(audio, load.rate) : Answered(r)
    /\ UNCHANGED <<callbacks, budget>>

AwaitCallbacks ==
    /\ At("cleanup")
    /\ pc' = "release" /\ gaveUp' = (gaveUp \/ ~CallbacksGone)
    /\ UNCHANGED <<audio, data, focus, hints, drive>>

Release ==
    /\ At("release")
    /\ \E r \in Initialize(Torn(audio), load.rate) : Answered(r)
    /\ UNCHANGED <<callbacks, budget>>

(* LoadRom: the game that runs is unloaded while its sound plays on, and   *)
(* retro_load_game may fail.  The rate of a core that runs without content *)
(* goes to the bridge only.                                                *)
LoadRom ==
    /\ Idle /\ engine.state \in {"CORE_LOADED", "RUNNING", "PAUSED"} /\ budget.loads > 0
    /\ budget' = [budget EXCEPT !.loads = @ - 1]
    /\ \/ /\ engine' = [engine EXCEPT !.state = "ERROR", !.error = TRUE]
          /\ UNCHANGED <<pc, load, refused>>
       \/ \E rate \in Rates, content \in BOOLEAN :
            /\ engine' = [engine EXCEPT !.state = "LOADING",
                                        !.rate = IF content THEN rate ELSE @]
            /\ pc' = "reset" /\ load' = [rate |-> rate, by |-> "LoadRom"]
            /\ refused' = ~content
    /\ UNCHANGED <<audio, callbacks>>

-----------------------------------------------------------------------------
(* A frame: the core may hand over a batch, which only a started bridge    *)
(* takes, and ask for a latency or for another rate; when in the frame it  *)
(* asks makes no difference.                                               *)

Accepts == audio.bridge.started /\ audio.bridge.init
RunFrame(batch) ==
    /\ Idle /\ engine.state = "RUNNING"
    /\ pc' = IF batch /\ Accepts THEN "stop" ELSE "frame"
    /\ UNCHANGED <<audio, callbacks, drive>>

Asks ==
    /\ At("frame") /\ budget.requests > 0
    /\ budget' = [budget EXCEPT !.requests = @ - 1]
    /\ \/ \E latency \in Latencies : engine' = [engine EXCEPT !.latency = latency]
       \/ \E rate \in AvRates : engine' = [engine EXCEPT !.av = rate]
    /\ UNCHANGED <<audio, callbacks, pc, load, refused>>

\* ProcessAudio.
Exchanges(a) == CASE pc = "stop" -> ExchangeStop(a)
                  [] pc = "pause" -> ExchangePause(a)
                  [] OTHER -> ExchangeResume(a)

Interrupts ==
    /\ \E place \in {"stop", "pause", "resume"} : At(place)
    /\ audio' \in Exchanges(audio)
    /\ pc' = CASE pc = "stop" -> IF audio.player.stop THEN "write" ELSE "pause"
               [] pc = "pause" -> "resume"
               [] OTHER -> "write"
    /\ UNCHANGED <<callbacks, drive>>

Write ==
    /\ At("write")
    /\ audio' = Written(audio)
    /\ pc' = IF Room(audio) THEN "wrote" ELSE "dropped"
    /\ UNCHANGED <<callbacks, drive>>

Account ==
    /\ \E place \in {"wrote", "dropped"} : At(place)
    /\ audio' \in AfterWrite(audio, pc = "wrote")
    /\ pc' = "frame"
    /\ UNCHANGED <<callbacks, drive>>

\* The end of a frame takes what the core has asked for, unless it is to stop.
EndFrame ==
    /\ At("frame")
    /\ audio' = IF engine.latency = Nothing THEN audio
                ELSE SetMinimumLatencyMs(audio, engine.latency)
    /\ engine' = [engine EXCEPT !.latency = Nothing, !.av = Nothing,
                                !.rate = IF engine.av = Nothing THEN @ ELSE engine.av]
    /\ IF engine.av \in {Nothing, engine.rate}
       THEN pc' = "idle" /\ UNCHANGED load
       ELSE pc' = "reset" /\ load' = [rate |-> engine.av, by |-> "ProcessFrame"]
    /\ UNCHANGED <<callbacks, budget, refused>>

\* The statistics of each second.
ResetBufferStats ==
    /\ Idle /\ engine.state = "RUNNING"
    /\ audio' = [audio EXCEPT !.ring.underruns = 0]
    /\ UNCHANGED <<callbacks, pc, drive>>

Frame == RunFrame(TRUE) \/ RunFrame(FALSE) \/ Asks \/ Interrupts \/ Write \/ Account
         \/ EndFrame \/ ResetBufferStats

Drive == Frame \/ Pause \/ Resume \/ StopRequested \/ Stopped \/ ResetEngine
         \/ LoadCore \/ LoadRom \/ ResetAudio \/ AwaitCallbacks \/ Release

Callbacks == (CallbackNext \/ ClearPending) /\ UNCHANGED <<pc, drive>>

Next == Drive \/ Callbacks
Spec == Init /\ [][Next]_vars

(* The driving thread takes its steps, and a core whose frames run hands   *)
(* over a batch again and again.  No callback need ever return.            *)
Fairness ==
    /\ WF_vars(Interrupts) /\ WF_vars(Write) /\ WF_vars(Account) /\ WF_vars(EndFrame)
    /\ WF_vars(ResetAudio) /\ WF_vars(AwaitCallbacks) /\ WF_vars(Release)
    /\ WF_vars(Callbacks /\ ClearPending)
    /\ SF_vars(RunFrame(TRUE))
LiveSpec == Spec /\ Fairness

-----------------------------------------------------------------------------
(* While the game is paused nothing plays, whatever the focus callbacks    *)
(* have left behind; and if something still plays after the engine is      *)
(* STOPPED, that has been reported.                                        *)
QuietWhenHeld ==
    Idle => /\ engine.state = "PAUSED" => ~audio.player.playing
            /\ engine.state = "STOPPED" /\ audio.player.playing => engine.error

(* What is started is armed: running_ is on, so that neither the data      *)
(* callback nor a blocking write gives up, also after refused calls.       *)
ArmedWhenStarted ==
    audio.bridge.init /\ audio.bridge.started /\ pc \notin {"cleanup", "release"}
        => audio.ring.running

(* A callback that is inside finds its player until Cleanup gives up on    *)
(* one (933): those that entered before the door was shut are waited for,  *)
(* and who comes later does not enter, not even between the wait and the   *)
(* release.  After the two seconds, and before EnterCallback (477), the    *)
(* code has nothing that keeps the player alive.                           *)
CallbackSeesLivePlayer ==
    (data = "reading" \/ focus # "none") /\ ~gaveUp => audio.player.made

(* The bridge resamples from the rate the engine believes the content has, *)
(* but for the rate of a core without content or a Reset that failed.      *)
RateAgrees ==
    Idle /\ engine.state = "RUNNING" /\ ~refused => audio.bridge.rate = engine.rate

(* A bridge that fills its ring in silence comes to the end of it: no      *)
(* failed start, interrupt or underrun leaves a running game silent for    *)
(* ever.  A ring that is full before a start succeeds would, hence the     *)
(* condition; and a player that plays, as after a load over a running      *)
(* game, may drain the ring as fast as it is filled.                       *)
Filling == engine.state = "RUNNING" /\ audio.bridge.init /\ audio.bridge.started
           /\ audio.bridge.buffering /\ ~audio.player.playing
BufferingEnds == [](Filling /\ audio.bridge.min + Faults <= Capacity => <>~Filling)

=============================================================================
