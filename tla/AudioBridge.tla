---------------------------- MODULE AudioBridge ----------------------------
(***************************************************************************)
(* AudioBridge: the sink the core's audio goes to.  It fills the ring      *)
(* before it starts the player (buffering_), and keeps what it promises    *)
(* the engine, started or not, apart from whether the player plays.        *)
(*                                                                         *)
(* Its operations are functions of what it owns; they hold its mutex_ and  *)
(* all run on the thread that drives the engine.  Durations are units of   *)
(* the ring.  The resampler, the rate control (DRC), the run state it      *)
(* reports and the sync mode are left out: a write into a full ring fails, *)
(* at once or after its eight milliseconds.                                *)
(***************************************************************************)
EXTENDS AudioPlayer

CONSTANTS
  DeviceMin, EmulatorMin,   \* kMinBufferMsDevice, kMinBufferMsEmulator
  BoostStep, BoostMax       \* kAdaptiveBoostMsStep, kAdaptiveBoostMsMax

ASSUME DepthsAssumption ==
  /\ {DeviceMin, EmulatorMin, BoostStep, BoostMax} \subseteq Nat
  /\ 0 < DeviceMin /\ DeviceMin <= EmulatorMin /\ EmulatorMin <= Capacity

\* last: last_rebuffer_underruns_; rt: rt_scheduling_available_
NoBridge(rt) ==
    [init |-> FALSE, rate |-> 0, started |-> FALSE, buffering |-> FALSE,
     boost |-> 0, latency |-> 0, min |-> 0, rt |-> rt, last |-> 0]

DefaultMin(b) == IF b.rt THEN DeviceMin ELSE EmulatorMin
ResolveMin(b, l) == Max2(l, DefaultMin(b))
Profiled(b) == [b EXCEPT !.min = ResolveMin(b, b.latency + b.boost)]

Boosted(b) ==
    IF b.rt \/ b.boost >= BoostMax THEN b
    ELSE Profiled([b EXCEPT !.boost = Min2(@ + BoostStep, BoostMax)])
Unboosted(b) ==
    IF b.boost = 0 THEN b ELSE Profiled([b EXCEPT !.boost = 0])

SetMinimumLatencyMs(a, l) ==
    LET b == [a.bridge EXCEPT !.latency = l]
    IN  [a EXCEPT !.bridge = IF b.init THEN [b EXCEPT !.min = ResolveMin(b, l)] ELSE b]

-----------------------------------------------------------------------------
(* What Pause and Stop leave: nothing started, nothing buffered; if the    *)
(* player refuses, everything as it was.                                   *)
Held(a) == [Cleared(a) EXCEPT
              !.bridge = Unboosted([@ EXCEPT !.started = FALSE,
                                             !.buffering = FALSE]),
              !.ring.running = FALSE]
Kept(a) == [a EXCEPT !.ring.running = a.bridge.started]

Hold(a, results) ==
    IF ~a.bridge.init \/ ~a.player.made THEN {Result(FALSE, a)}
    ELSE {Result(r.ok, IF r.ok THEN Held(r.a) ELSE Kept(r.a)) : r \in results}

BridgePause(a) == Hold(a, PlayerPause(a))
BridgeStop(a) == Hold(a, PlayerStop(a))

\* ResetStats, of the bridge: the ring's count and what was last seen of it.
FreshStats(a) == [a EXCEPT !.ring.underruns = 0, !.bridge.last = 0]

BridgeStart(a) ==
    LET armed == [a EXCEPT !.ring.running = TRUE, !.bridge.started = TRUE]
        fresh == FreshStats(armed)
    IN  IF ~a.bridge.init \/ ~a.player.made THEN {Result(FALSE, a)}
        ELSE IF a.bridge.started THEN {Result(TRUE, armed)}
        ELSE IF a.ring.fill < a.bridge.min
        THEN {Result(TRUE, [fresh EXCEPT !.bridge.buffering = TRUE])}
        ELSE {Result(r.ok, [r.a EXCEPT !.bridge.buffering = FALSE,
                                       !.bridge.started = r.ok,
                                       !.ring.running = r.ok]) :
                r \in PlayerStart(fresh)}

-----------------------------------------------------------------------------
(* Reset.  With the rate it has, the bridge is armed again and the player  *)
(* goes on as it is.  With another one everything is made afresh: the      *)
(* player stops, is destroyed once its callbacks are out, and made again.  *)

Rearmed(a) ==
    [FreshStats(Cleared(a)) EXCEPT
        !.ring.running = TRUE,
        !.bridge = Profiled([@ EXCEPT !.started = FALSE, !.buffering = FALSE,
                                      !.boost = 0])]

\* Mutant: what a refused Stop found is not put back.
ResetStopsForgets(a) ==
    {Result(r.ok, IF r.ok THEN Close(r.a) ELSE r.a) :
        r \in PlayerStop([Cleared(a) EXCEPT !.ring.running = FALSE])}

\* A Stop the player refuses leaves running_ as started_ has it.
ResetStops(a) ==
    {Result(r.ok, IF r.ok THEN Close(r.a) ELSE Kept(r.a)) :
        r \in PlayerStop([Cleared(a) EXCEPT !.ring.running = FALSE])}

Torn(a) == [Released(a) EXCEPT !.ring = [NoRing EXCEPT !.running = a.ring.running],
                               !.bridge.init = FALSE, !.bridge.boost = 0]

\* Mutant: a rate that is known is kept.
FirstRate(b, rate) == IF b.rate = 0 THEN rate ELSE b.rate
NewRate(b, rate) == rate

\* The first half of Initialize has stored the rate when the player fails.
Initialize(a, rate) ==
    {IF r.ok
     THEN Result(TRUE, [r.a EXCEPT !.ring.running = TRUE, !.bridge.init = TRUE,
                                   !.bridge.started = FALSE, !.bridge.last = 0,
                                   !.bridge.buffering = FALSE])
     ELSE Result(FALSE, r.a) :
        r \in PlayerInitialize([a EXCEPT !.bridge = Profiled([@ EXCEPT !.boost = 0,
                                                       !.rate = NewRate(a.bridge, rate)])])}

-----------------------------------------------------------------------------
(* ProcessAudio after the interrupts: a batch is written, its success and  *)
(* the underruns since are accounted for, and a ring that is deep enough   *)
(* ends the buffering.                                                     *)

Room(a) == a.ring.fill < Capacity
Written(a) == IF Room(a) THEN [a EXCEPT !.ring.fill = @ + 1] ELSE a

(* Three failed writes, less the successful ones in between, ask for a     *)
(* deeper ring: recover_streak_ is not kept, a failed one may.             *)
Accounted(a, ok) ==
    {a} \cup (IF ok THEN {} ELSE {[a EXCEPT !.bridge = Boosted(@)]})

\* Only with real-time scheduling does an underrun stop the player to fill
\* the ring again; without, it asks for a deeper one.
Rebuffered(a) ==
    LET seen == [a EXCEPT !.bridge.last = a.ring.underruns]
    IN  IF a.ring.underruns <= a.bridge.last \/ a.ring.fill >= a.bridge.min THEN {a}
        ELSE IF ~a.bridge.rt
        THEN {[seen EXCEPT !.bridge = Boosted(@)]}
        ELSE IF ~a.player.playing THEN {a}
        ELSE {IF r.ok THEN [r.a EXCEPT !.bridge.buffering = TRUE] ELSE r.a :
                r \in PlayerPause(seen)}

ExactlyReady(a) == a.ring.fill = a.bridge.min      \* mutant: one chance only
Ready(a) == a.ring.fill >= a.bridge.min
Completed(a) ==
    IF ~Ready(a) THEN {a}
    ELSE {IF r.ok THEN [r.a EXCEPT !.bridge = Unboosted([@ EXCEPT !.buffering = FALSE])]
          ELSE r.a : r \in PlayerStart(a)}

AfterWrite(a, ok) ==
    IF ~ok \/ ~a.bridge.started THEN Accounted(a, ok)
    ELSE IF a.bridge.buffering THEN Completed(a) ELSE Rebuffered(a)
=============================================================================
