---------------------------- MODULE AudioPlayer ----------------------------
(***************************************************************************)
(* AudioPlayer: the renderer of OHAudio, its two callbacks, and the calls  *)
(* by which AudioBridge drives it from the game thread (after it is gone,  *)
(* from the thread that joined it).                                        *)
(*                                                                         *)
(* A call into OHAudio fails at most Faults times.  The ring is its fill:  *)
(* AudioRing is about what happens inside it.  A callback is a thread of   *)
(* OHAudio; EnterCallback and ExitCallback count those that are inside.    *)
(* The data callback takes one unit, what a batch of the core holds;       *)
(* workgroups, diagnostics and the volume are left out.  OnRendererError   *)
(* stores one flag only.                                                   *)
(***************************************************************************)
EXTENDS Integers

CONSTANTS
  Capacity,       \* units the ring holds
  Faults,         \* bound: failures of OHAudio
  Hints,          \* bound: focus hints and renderer errors
  UnderrunLimit   \* bound: underruns counted since ResetStats

ASSUME PlayerAssumption ==
  Capacity \in Nat \ {0} /\ Faults \in Nat /\ Hints \in Nat /\ UnderrunLimit \in Nat

VARIABLES
  audio,   \* [player, ring, bridge, faults]: what AudioBridge owns
  data,    \* the data callback: "none", "called" or, once inside, "reading"
  focus,   \* the interrupt callback after its first lock: "none" or its hint
  hints,   \* hints left
  gaveUp   \* Cleanup has gone on with a callback inside

callbacks == <<data, focus, hints, gaveUp>>

\* resume: resume_on_interrupt_; pause, go, stop: the pending_interrupt_ flags;
\* clearing: between the state and the flags of a call; made: renderer_
NoPlayer == [made |-> FALSE, closing |-> FALSE, playing |-> FALSE,
             resume |-> FALSE, pause |-> FALSE, go |-> FALSE, stop |-> FALSE,
             clearing |-> FALSE]

\* running is running_ of the bridge
NoRing == [fill |-> 0, underruns |-> 0, running |-> FALSE]

Min2(x, y) == IF x < y THEN x ELSE y
Max2(x, y) == IF x > y THEN x ELSE y

-----------------------------------------------------------------------------
(* A call returns whether it succeeded and what it leaves. *)

Result(ok, a) == [ok |-> ok, a |-> a]
Fails(a) == IF a.faults > 0 THEN {Result(FALSE, [a EXCEPT !.faults = @ - 1])}
            ELSE {}
Cleared(a) == [a EXCEPT !.ring.fill = 0]

\* The state under the lock; the pending flags are stored after it.
Settled(a, on) == [a EXCEPT !.player.playing = on, !.player.resume = FALSE,
                            !.player.clearing = TRUE]

PlayerStart(a) ==
    IF a.player.closing \/ ~a.player.made THEN {Result(FALSE, a)}
    ELSE IF a.player.playing THEN {Result(TRUE, a)}
    ELSE Fails(a) \cup {Result(TRUE, Settled(a, TRUE))}

\* Pause, and Stop, which also clears the ring.
PlayerHold(a, then) ==
    IF ~a.player.made THEN {Result(FALSE, a)}
    ELSE IF ~a.player.playing THEN {Result(TRUE, a)}
    ELSE Fails(a) \cup {Result(TRUE, Settled(then, FALSE))}
PlayerPause(a) == PlayerHold(a, a)
PlayerStop(a) == PlayerHold(a, Cleared(a))

\* PauseFromInterrupt leaves resume_on_interrupt_ as it is.
PauseFromInterrupt(a) ==
    IF ~a.player.made THEN {Result(FALSE, a)}
    ELSE IF ~a.player.playing THEN {Result(TRUE, a)}
    ELSE Fails(a) \cup {Result(TRUE, [a EXCEPT !.player.playing = FALSE])}

PlayerInitialize(a) ==
    Fails(a) \cup {Result(TRUE, [a EXCEPT !.player = [NoPlayer EXCEPT !.made = TRUE]])}

-----------------------------------------------------------------------------
(* The stores after the lock of Start, Pause and Stop: a hint that came in *)
(* between is lost.                                                        *)
ClearPending ==
    /\ audio.player.clearing
    /\ audio' = [audio EXCEPT !.player.clearing = FALSE, !.player.pause = FALSE,
                              !.player.go = FALSE, !.player.stop = FALSE]
    /\ UNCHANGED callbacks

(* ProcessPendingInterruptActions, one exchange at a time; each is what    *)
(* the game thread does at that step.                                      *)
ExchangeStop(a) ==
    IF a.player.stop
    THEN {r.a : r \in PlayerStop([a EXCEPT !.player.stop = FALSE])} ELSE {a}
ExchangePause(a) ==
    IF a.player.pause
    THEN {r.a : r \in PauseFromInterrupt([a EXCEPT !.player.pause = FALSE])}
    ELSE {a}
ExchangeResume(a) ==
    IF a.player.go
    THEN {r.a : r \in PlayerStart([a EXCEPT !.player.go = FALSE])} ELSE {a}

-----------------------------------------------------------------------------
\* The door of the callbacks, and a mutant of it that Cleanup cannot shut.
DoorLeftOpen(p) == p.made
EnterCallback(p) == p.made /\ ~p.closing

(* A renderer that plays calls for data.  Before it enters, the callback   *)
(* looks at ring_buffer_ with no lock and nobody counting it: the player   *)
(* it was called for may be gone.  It leaves at once, or it enters the     *)
(* player that is there, unless that is shut or running_ is off.           *)
DataCalls ==
    /\ audio.player.made /\ audio.player.playing /\ data = "none"
    /\ data' = "called"
    /\ UNCHANGED <<audio, focus, hints, gaveUp>>

DataEnters ==
    /\ data = "called"
    /\ \/ data' = "none"
       \/ EnterCallback(audio.player) /\ audio.ring.running /\ data' = "reading"
    /\ UNCHANGED <<audio, focus, hints, gaveUp>>

(* Silence replaces what is missing.  An empty read is no underrun; the    *)
(* last unit may be less than the callback wants, which is one.  Once      *)
(* Cleanup has given up the ring and the player may be others, or none:    *)
(* what the callback does to them may be lost.                             *)
DataReads ==
    /\ data = "reading"
    /\ data' = "none"
    /\ \/ \E short \in {0} \cup (IF audio.ring.fill = 1 THEN {1} ELSE {}) :
            audio' = [audio EXCEPT
                        !.ring.fill = Max2(@ - 1, 0),
                        !.ring.underruns = Min2(@ + short, UnderrunLimit)]
       \/ gaveUp /\ UNCHANGED audio
    /\ UNCHANGED <<focus, hints, gaveUp>>

(* OnInterruptEvent: what it does under the lock, then the pending flags.  *)
Hint(h) ==
    /\ hints > 0 /\ focus = "none" /\ EnterCallback(audio.player)
    /\ hints' = hints - 1
    /\ LET resumes == audio.player.resume
       IN  CASE h = "pause" ->
                  /\ focus' = h
                  /\ audio' = [audio EXCEPT !.player.resume = @ \/ audio.player.playing]
             [] h = "resume" ->
                  /\ focus' = IF resumes THEN h ELSE "none"
                  /\ audio' = [audio EXCEPT !.player.resume = FALSE]
             [] h = "stop" ->
                  /\ focus' = h
                  /\ audio' = [audio EXCEPT !.player.resume = FALSE]
             [] OTHER ->   \* OnRendererError
                  /\ focus' = "none"
                  /\ audio' = [audio EXCEPT !.player.stop = TRUE]
    /\ UNCHANGED <<data, gaveUp>>

HintStores ==
    /\ focus # "none"
    /\ focus' = "none"
    /\ \/ audio' = [audio EXCEPT !.player.pause = focus = "pause",
                                 !.player.go = focus = "resume",
                                 !.player.stop = @ \/ focus = "stop"]
       \/ gaveUp /\ UNCHANGED audio
    /\ UNCHANGED <<data, hints, gaveUp>>

(* Cleanup: the door is shut, OHAudio stopped whatever it answers; then    *)
(* the callbacks that are inside leave, or two seconds pass; then the      *)
(* renderer goes, and the player with it.                                  *)
Close(a) == [a EXCEPT !.player.closing = TRUE]
CallbacksGone == data # "reading" /\ focus = "none"
Released(a) == [a EXCEPT !.player = NoPlayer]

CallbackNext ==
    \/ DataCalls \/ DataEnters \/ DataReads \/ HintStores
    \/ \E h \in {"pause", "resume", "stop", "error"} : Hint(h)
=============================================================================
