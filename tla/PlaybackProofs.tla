--------------------------- MODULE PlaybackProofs ---------------------------
(***************************************************************************)
(* What the engine may rely on of its sound, whatever the bridge and the   *)
(* player refuse, however often OHAudio fails and whatever focus hints     *)
(* come in.  The operations of the bridge are functions of what it owns:   *)
(* first comes a lemma for each about what it returns, then the inductive  *)
(* invariant PInv and its preservation, action by action.                  *)
(***************************************************************************)
EXTENDS Playback, TLAPS

\* What the bridge owns, and the engine's part.
Players == [made : BOOLEAN, closing : BOOLEAN, playing : BOOLEAN, resume : BOOLEAN,
            pause : BOOLEAN, go : BOOLEAN, stop : BOOLEAN, clearing : BOOLEAN]
Rings == [fill : Int, underruns : Int, running : BOOLEAN]
Bridges == [init : BOOLEAN, rate : Int, started : BOOLEAN, buffering : BOOLEAN,
            boost : Int, latency : Int, min : Int, rt : BOOLEAN, last : Int]
Audios == [player : Players, ring : Rings, bridge : Bridges, faults : Int]

EngineStates == {"INIT", "STARTING", "LOADING", "CORE_LOADED", "RUNNING", "PAUSED",
                 "STOPPING", "STOPPED", "ERROR"}
Engines == [state : EngineStates, rate : Int, error : BOOLEAN, latency : Int, av : Int]

\* What is started is armed.
Armed(a) == a.bridge.init /\ a.bridge.started => a.ring.running

\* A call of the player leaves the bridge, and what the bridge has armed.
Keeps(a, b) == /\ b \in Audios
               /\ b.player.made = a.player.made
               /\ b.ring.running = a.ring.running
               /\ b.bridge.init = a.bridge.init
               /\ b.bridge.started = a.bridge.started
               /\ b.bridge.rate = a.bridge.rate

\* A call of the bridge leaves the renderer and the rate, and arms what it starts.
Arms(a, b) == /\ b \in Audios
              /\ b.player.made = a.player.made
              /\ b.bridge.rate = a.bridge.rate
              /\ Armed(a) => Armed(b)

-----------------------------------------------------------------------------
\* The calls of the player.

\* What a call returns.
LEMMA ResultIs == \A okay, b : Result(okay, b).ok = okay /\ Result(okay, b).a = b
  BY DEF Result

\* A player that is left alone is kept.
LEMMA KeepsSelf == \A a \in Audios : Keeps(a, a)
  BY DEF Keeps

\* What two calls in a row keep.
LEMMA KeepsTwice ==
  ASSUME NEW a, NEW b, NEW c, Keeps(a, b), Keeps(b, c) PROVE Keeps(a, c)
  BY DEF Keeps

\* A call that fails has used up a fault.
LEMMA FailsIs ==
  ASSUME NEW a \in Audios, NEW r \in Fails(a)
  PROVE  r.ok = FALSE /\ Keeps(a, r.a) /\ r.a.player = a.player
  BY DEF Fails, Result, Keeps, Audios

\* The state under the lock.
LEMMA SettledIs ==
  ASSUME NEW a \in Audios, NEW on \in BOOLEAN
  PROVE  Keeps(a, Settled(a, on)) /\ Settled(a, on).player.playing = on
  BY DEF Settled, Keeps, Audios, Players

\* Start.
LEMMA PlayerStartIs ==
  ASSUME NEW a \in Audios, NEW r \in PlayerStart(a)
  PROVE  r.ok \in BOOLEAN /\ Keeps(a, r.a)
<1>1. CASE r \in Fails(a) BY <1>1, FailsIs
<1>2. CASE r = Result(FALSE, a) BY <1>2, ResultIs, KeepsSelf
<1>3. CASE r = Result(TRUE, a) BY <1>3, ResultIs, KeepsSelf
<1>4. CASE r = Result(TRUE, Settled(a, TRUE))
  <2>1. Keeps(a, Settled(a, TRUE)) BY SettledIs
  <2>. QED  BY <1>4, <2>1, ResultIs
<1>. QED  BY <1>1, <1>2, <1>3, <1>4 DEF PlayerStart

\* Pause and Stop: one that succeeds leaves nothing playing.
LEMMA PlayerHoldIs ==
  ASSUME NEW a \in Audios, NEW r \in PlayerPause(a) \cup PlayerStop(a)
  PROVE  r.ok \in BOOLEAN /\ Keeps(a, r.a) /\ (r.ok => ~r.a.player.playing)
<1>1. Cleared(a) \in Audios /\ Keeps(a, Cleared(a))
  BY DEF Cleared, Keeps, Audios, Rings
<1>2. CASE r \in Fails(a) BY <1>2, FailsIs
<1>3. CASE r = Result(FALSE, a) BY <1>3, ResultIs, KeepsSelf
<1>4. CASE ~a.player.playing /\ r = Result(TRUE, a) BY <1>4, ResultIs, KeepsSelf
<1>5. ASSUME NEW b \in {a, Cleared(a)}, r = Result(TRUE, Settled(b, FALSE))
      PROVE  r.ok \in BOOLEAN /\ Keeps(a, r.a) /\ (r.ok => ~r.a.player.playing)
  <2>1. b \in Audios /\ Keeps(a, b) BY <1>1 DEF Keeps
  <2>2. Keeps(b, Settled(b, FALSE)) /\ ~Settled(b, FALSE).player.playing
    BY <2>1, SettledIs
  <2>. QED  BY <1>5, <2>1, <2>2, KeepsTwice, ResultIs
<1>. QED  BY <1>2, <1>3, <1>4, <1>5 DEF PlayerPause, PlayerStop, PlayerHold

\* Stop leaves the bridge as it is.
LEMMA PlayerStopBridge ==
  ASSUME NEW a \in Audios, NEW r \in PlayerStop(a) PROVE r.a.bridge = a.bridge
<1>1. CASE r \in Fails(a) BY <1>1 DEF Fails, Result, Audios
<1>2. CASE r = Result(FALSE, a) \/ r = Result(TRUE, a) BY <1>2, ResultIs
<1>3. CASE r = Result(TRUE, Settled(Cleared(a), FALSE))
  <2>1. Settled(Cleared(a), FALSE).bridge = a.bridge BY DEF Settled, Cleared, Audios
  <2>. QED  BY <1>3, <2>1, ResultIs
<1>. QED  BY <1>1, <1>2, <1>3 DEF PlayerStop, PlayerHold

\* PauseFromInterrupt.
LEMMA PauseFromInterruptIs ==
  ASSUME NEW a \in Audios, NEW r \in PauseFromInterrupt(a) PROVE Keeps(a, r.a)
<1>1. CASE r \in Fails(a) BY <1>1, FailsIs
<1>2. CASE r = Result(FALSE, a) BY <1>2, ResultIs, KeepsSelf
<1>3. CASE r = Result(TRUE, a) BY <1>3, ResultIs, KeepsSelf
<1>4. CASE r = Result(TRUE, [a EXCEPT !.player.playing = FALSE])
  BY <1>4 DEF Result, Keeps, Audios, Players
<1>. QED  BY <1>1, <1>2, <1>3, <1>4 DEF PauseFromInterrupt

\* One exchange of a pending flag, and the call it leads to.
LEMMA ExchangesKeep ==
  ASSUME NEW a \in Audios, NEW b \in Exchanges(a) PROVE Keeps(a, b)
<1>0. /\ Keeps(a, [a EXCEPT !.player.stop = FALSE])
      /\ Keeps(a, [a EXCEPT !.player.pause = FALSE])
      /\ Keeps(a, [a EXCEPT !.player.go = FALSE])
  BY DEF Keeps, Audios, Players
<1>1. \A c \in {[a EXCEPT !.player.stop = FALSE], [a EXCEPT !.player.pause = FALSE],
                [a EXCEPT !.player.go = FALSE]} : c \in Audios /\ Keeps(a, c)
  BY <1>0 DEF Keeps
<1>2. ASSUME NEW c \in Audios, Keeps(a, c),
             NEW r \in PlayerStop(c) \cup PauseFromInterrupt(c) \cup PlayerStart(c)
      PROVE  Keeps(a, r.a)
  <2>1. Keeps(c, r.a) BY PlayerHoldIs, PauseFromInterruptIs, PlayerStartIs
  <2>. QED  BY <1>2, <2>1, KeepsTwice
<1>3. CASE b = a BY <1>3, KeepsSelf
<1>4. CASE \E r \in PlayerStop([a EXCEPT !.player.stop = FALSE]) : b = r.a
  BY <1>1, <1>2, <1>4
<1>5. CASE \E r \in PauseFromInterrupt([a EXCEPT !.player.pause = FALSE]) : b = r.a
  BY <1>1, <1>2, <1>5
<1>6. CASE \E r \in PlayerStart([a EXCEPT !.player.go = FALSE]) : b = r.a
  BY <1>1, <1>2, <1>6
<1>7. \/ b \in ExchangeStop(a) \/ b \in ExchangePause(a) \/ b \in ExchangeResume(a)
  BY DEF Exchanges
<1>. QED  BY <1>3, <1>4, <1>5, <1>6, <1>7 DEF ExchangeStop, ExchangePause,
     ExchangeResume

-----------------------------------------------------------------------------
\* The calls of the bridge.

\* The depth of the ring does not matter to what is armed.
LEMMA Depths ==
  ASSUME NEW b \in Bridges
  PROVE  /\ \A c \in {Profiled(b), Boosted(b), Unboosted(b)} :
              /\ c \in Bridges /\ c.init = b.init /\ c.started = b.started
              /\ c.rate = b.rate /\ c.buffering = b.buffering
         /\ \A l \in Int : ResolveMin(b, l) \in Int
<1>1. \A c \in Bridges : DefaultMin(c) \in Int
  BY DepthsAssumption DEF DefaultMin
<1>2. \A c \in Bridges, l \in Int : ResolveMin(c, l) \in Int
  BY <1>1 DEF ResolveMin, Max2
<1>3. ASSUME NEW c \in Bridges
      PROVE  /\ Profiled(c) \in Bridges /\ Profiled(c).init = c.init
             /\ Profiled(c).started = c.started /\ Profiled(c).rate = c.rate
             /\ Profiled(c).buffering = c.buffering
  <2>1. ResolveMin(c, c.latency + c.boost) \in Int BY <1>2 DEF Bridges
  <2>. QED  BY <2>1 DEF Profiled, Bridges
<1>4. ASSUME NEW n \in Int
      PROVE  /\ [b EXCEPT !.boost = n] \in Bridges
             /\ [b EXCEPT !.boost = n].init = b.init
             /\ [b EXCEPT !.boost = n].started = b.started
             /\ [b EXCEPT !.boost = n].rate = b.rate
             /\ [b EXCEPT !.boost = n].buffering = b.buffering
  BY DEF Bridges
<1>5. Min2(b.boost + BoostStep, BoostMax) \in Int
  BY DepthsAssumption DEF Min2, Bridges
<1>6. Boosted(b) \in {b, Profiled([b EXCEPT !.boost = Min2(b.boost + BoostStep, BoostMax)])}
  BY DEF Boosted
<1>7. Unboosted(b) \in {b, Profiled([b EXCEPT !.boost = 0])}
  BY DEF Unboosted
<1>8. ASSUME NEW n \in Int, NEW c, c = Profiled([b EXCEPT !.boost = n])
      PROVE  /\ c \in Bridges /\ c.init = b.init /\ c.started = b.started
             /\ c.rate = b.rate /\ c.buffering = b.buffering
  <2> DEFINE d == [b EXCEPT !.boost = n]
  <2>1. d \in Bridges /\ d.init = b.init /\ d.started = b.started /\ d.rate = b.rate
        /\ d.buffering = b.buffering
    BY <1>4
  <2>2. c = Profiled(d) BY <1>8
  <2>. HIDE DEF d
  <2>. QED  BY <1>3, <2>1, <2>2
<1>. QED  BY <1>2, <1>3, <1>5, <1>6, <1>7, <1>8

\* Two records of the bridge that agree on what is started, and at which rate.
Alike(b, c) == /\ c \in Bridges /\ c.init = b.init /\ c.started = b.started
               /\ c.rate = b.rate

\* One field of the bridge in place of another.
LEMMA Fields ==
  ASSUME NEW b \in Bridges
  PROVE  /\ [b EXCEPT !.init = TRUE] \in Bridges /\ [b EXCEPT !.init = TRUE].rate = b.rate
         /\ [b EXCEPT !.init = FALSE] \in Bridges /\ [b EXCEPT !.init = FALSE].rate = b.rate
         /\ ~[b EXCEPT !.init = FALSE].init
         /\ [b EXCEPT !.started = FALSE] \in Bridges
         /\ [b EXCEPT !.started = FALSE].rate = b.rate
         /\ ~[b EXCEPT !.started = FALSE].started
         /\ Alike(b, [b EXCEPT !.buffering = FALSE])
         /\ Alike(b, [b EXCEPT !.boost = 0])
         /\ Alike(b, [b EXCEPT !.last = 0])
<1>1. /\ [b EXCEPT !.init = TRUE] \in Bridges /\ [b EXCEPT !.init = TRUE].rate = b.rate
      /\ [b EXCEPT !.init = FALSE] \in Bridges /\ [b EXCEPT !.init = FALSE].rate = b.rate
      /\ ~[b EXCEPT !.init = FALSE].init
  BY DEF Bridges
<1>2. /\ [b EXCEPT !.started = FALSE] \in Bridges
      /\ [b EXCEPT !.started = FALSE].rate = b.rate
      /\ ~[b EXCEPT !.started = FALSE].started
  BY DEF Bridges
<1>3. Alike(b, [b EXCEPT !.buffering = FALSE]) BY DEF Alike, Bridges
<1>4. Alike(b, [b EXCEPT !.boost = 0]) BY DEF Alike, Bridges
<1>5. Alike(b, [b EXCEPT !.last = 0]) BY DEF Alike, Bridges
<1>. QED  BY <1>1, <1>2, <1>3, <1>4, <1>5

\* A record of the bridge in place of another.
LEMMA WithBridge ==
  ASSUME NEW a \in Audios, NEW b \in Bridges
  PROVE  /\ [a EXCEPT !.bridge = b] \in Audios
         /\ [a EXCEPT !.bridge = b].bridge = b
         /\ [a EXCEPT !.bridge = b].player = a.player
         /\ [a EXCEPT !.bridge = b].ring = a.ring
  BY DEF Audios

\* Pause and Stop of the bridge: one that succeeds leaves nothing playing.
LEMMA HoldIs ==
  ASSUME NEW a \in Audios, NEW r \in BridgePause(a) \cup BridgeStop(a)
  PROVE  r.ok \in BOOLEAN /\ Arms(a, r.a) /\ (r.ok => ~r.a.player.playing)
<1>1. CASE r = Result(FALSE, a) BY <1>1 DEF Result, Arms
<1>2. ASSUME NEW s \in PlayerPause(a) \cup PlayerStop(a),
             r = Result(s.ok, IF s.ok THEN Held(s.a) ELSE Kept(s.a))
      PROVE  r.ok \in BOOLEAN /\ Arms(a, r.a) /\ (r.ok => ~r.a.player.playing)
  <2>1. s.ok \in BOOLEAN /\ Keeps(a, s.a) /\ (s.ok => ~s.a.player.playing)
    BY PlayerHoldIs
  <2>2. CASE s.ok
    <3> DEFINE b == [s.a.bridge EXCEPT !.started = FALSE, !.buffering = FALSE]
    <3>1. b \in Bridges /\ b.rate = s.a.bridge.rate /\ ~b.started
      BY <2>1 DEF Keeps, Audios, Bridges
    <3>2. /\ Unboosted(b) \in Bridges /\ Unboosted(b).rate = b.rate
          /\ ~Unboosted(b).started
      BY <3>1, Depths
    <3>3. /\ Held(s.a).bridge = Unboosted(b) /\ Held(s.a).player = s.a.player
          /\ Held(s.a) \in Audios
      <4>1. /\ Cleared(s.a) \in Audios /\ Cleared(s.a).bridge = s.a.bridge
            /\ Cleared(s.a).player = s.a.player
        BY <2>1 DEF Cleared, Keeps, Audios, Rings
      <4>. HIDE DEF Cleared
      <4>. QED  BY <3>2, <4>1 DEF Held, Audios, Rings
    <3>. HIDE DEF b
    <3>. QED  BY <1>2, <2>1, <2>2, <3>1, <3>2, <3>3 DEF Result, Arms, Armed, Keeps
  <2>3. CASE ~s.ok
    <3>1. /\ Kept(s.a) \in Audios /\ Kept(s.a).bridge = s.a.bridge
          /\ Kept(s.a).player = s.a.player /\ Armed(Kept(s.a))
      BY <2>1 DEF Kept, Armed, Keeps, Audios, Rings, Bridges
    <3>. QED  BY <1>2, <2>1, <2>3, <3>1 DEF Result, Arms, Keeps
  <2>. QED  BY <2>1, <2>2, <2>3
<1>. QED  BY <1>1, <1>2 DEF BridgePause, BridgeStop, Hold

\* ResetStats touches the statistics.
LEMMA FreshStatsIs ==
  ASSUME NEW a \in Audios
  PROVE  Keeps(a, FreshStats(a)) /\ FreshStats(a).player = a.player
<1>1. [a EXCEPT !.ring.underruns = 0] \in Audios
      /\ Keeps(a, [a EXCEPT !.ring.underruns = 0])
      /\ [a EXCEPT !.ring.underruns = 0].player = a.player
  BY DEF Keeps, Audios, Rings
<1>2. ASSUME NEW b \in Audios
      PROVE  Keeps(b, [b EXCEPT !.bridge.last = 0]) /\ [b EXCEPT !.bridge.last = 0].player = b.player
  BY DEF Keeps, Audios, Bridges
<1>3. FreshStats(a) = [[a EXCEPT !.ring.underruns = 0] EXCEPT !.bridge.last = 0]
  BY DEF FreshStats
<1>. QED  BY <1>1, <1>2, <1>3, KeepsTwice

\* Start of the bridge.
LEMMA StartIs ==
  ASSUME NEW a \in Audios, NEW r \in BridgeStart(a)
  PROVE  r.ok \in BOOLEAN /\ Arms(a, r.a)
<1> DEFINE armed == [a EXCEPT !.ring.running = TRUE, !.bridge.started = TRUE]
           fresh == FreshStats(armed)
           filling == [fresh EXCEPT !.bridge.buffering = TRUE]
<1>1. /\ armed \in Audios /\ armed.player = a.player /\ armed.ring.running
      /\ armed.bridge.rate = a.bridge.rate
  BY DEF Audios, Rings, Bridges
<1>2. /\ fresh \in Audios /\ fresh.player = a.player /\ fresh.ring.running
      /\ fresh.bridge.rate = a.bridge.rate
  <2>. HIDE DEF armed
  <2>. QED  BY <1>1, FreshStatsIs DEF Keeps
<1>3. /\ filling \in Audios /\ filling.player = a.player /\ filling.ring.running
      /\ filling.bridge.rate = a.bridge.rate
  <2>. HIDE DEF fresh
  <2>. QED  BY <1>2 DEF Audios, Bridges
<1>4. CASE r \in {Result(FALSE, a), Result(TRUE, armed), Result(TRUE, filling)}
  <2>. HIDE DEF armed, filling
  <2>1. CASE r = Result(FALSE, a) BY <2>1, ResultIs DEF Arms
  <2>2. ASSUME NEW b \in {armed, filling}, r = Result(TRUE, b)
        PROVE  r.ok \in BOOLEAN /\ Arms(a, r.a)
    <3>1. r.ok \in BOOLEAN /\ r.a = b BY <2>2, ResultIs
    <3>2. Arms(a, b) BY <1>1, <1>3 DEF Arms, Armed
    <3>. QED  BY <3>1, <3>2
  <2>. QED  BY <1>4, <2>1, <2>2
<1>5. ASSUME NEW s \in PlayerStart(fresh),
             r = Result(s.ok, [s.a EXCEPT !.bridge.buffering = FALSE,
                                          !.bridge.started = s.ok, !.ring.running = s.ok])
      PROVE  r.ok \in BOOLEAN /\ Arms(a, r.a)
  <2>. HIDE DEF fresh
  <2>1. s.ok \in BOOLEAN /\ Keeps(fresh, s.a) BY <1>2, PlayerStartIs
  <2>. QED  BY <1>2, <1>5, <2>1 DEF Result, Arms, Armed, Keeps, Audios, Rings, Bridges
<1>6. \/ r \in {Result(FALSE, a), Result(TRUE, armed), Result(TRUE, filling)}
      \/ \E s \in PlayerStart(fresh) :
           r = Result(s.ok, [s.a EXCEPT !.bridge.buffering = FALSE,
                                        !.bridge.started = s.ok, !.ring.running = s.ok])
  BY DEF BridgeStart
<1>. HIDE DEF armed, fresh, filling
<1>. QED  BY <1>4, <1>5, <1>6

\* What is kept is armed as it was.
LEMMA KeepsArms == ASSUME NEW a, NEW b, Keeps(a, b) PROVE Arms(a, b)
  BY DEF Keeps, Arms, Armed

\* What follows a write: the bridge stays as it is started, whatever it boosts,
\* holds or starts in the player.
LEMMA AfterWriteKeeps ==
  ASSUME NEW a \in Audios, NEW okay \in BOOLEAN, NEW b \in AfterWrite(a, okay)
  PROVE  Keeps(a, b)
\* A bridge with another depth, or buffering or not, in place of another.
<1>1. ASSUME NEW c \in Audios, NEW d \in Bridges, d.init = c.bridge.init,
             d.started = c.bridge.started, d.rate = c.bridge.rate
      PROVE  Keeps(c, [c EXCEPT !.bridge = d])
  BY <1>1 DEF Keeps, Audios
<1>2. ASSUME NEW c \in Audios PROVE Keeps(c, [c EXCEPT !.bridge = Boosted(@)])
  <2>1. c.bridge \in Bridges BY DEF Audios
  <2>2. /\ Boosted(c.bridge) \in Bridges /\ Boosted(c.bridge).init = c.bridge.init
        /\ Boosted(c.bridge).started = c.bridge.started
        /\ Boosted(c.bridge).rate = c.bridge.rate
    BY <2>1, Depths
  <2>. QED  BY <1>1, <2>2
<1>3. ASSUME NEW c \in Audios, NEW on \in BOOLEAN
      PROVE  /\ Keeps(c, [c EXCEPT !.bridge.buffering = on])
             /\ [c.bridge EXCEPT !.buffering = on] \in Bridges
             /\ [c.bridge EXCEPT !.buffering = on].init = c.bridge.init
             /\ [c.bridge EXCEPT !.buffering = on].started = c.bridge.started
             /\ [c.bridge EXCEPT !.buffering = on].rate = c.bridge.rate
  BY DEF Keeps, Audios, Bridges
<1>4. CASE b = a BY <1>4, KeepsSelf
<1>5. CASE b = [a EXCEPT !.bridge = Boosted(@)] BY <1>2, <1>5
<1>6. CASE b \in Rebuffered(a)
  <2> DEFINE seen == [a EXCEPT !.bridge.last = a.ring.underruns]
  <2>1. seen \in Audios /\ Keeps(a, seen) BY DEF Keeps, Audios, Rings, Bridges
  <2>2. CASE b = [seen EXCEPT !.bridge = Boosted(@)]
    <3>. HIDE DEF seen
    <3>1. Keeps(seen, b) BY <1>2, <2>1, <2>2
    <3>. QED  BY <2>1, <3>1, KeepsTwice
  <2>3. ASSUME NEW r \in PlayerPause(seen),
               b = IF r.ok THEN [r.a EXCEPT !.bridge.buffering = TRUE] ELSE r.a
        PROVE  Keeps(a, b)
    <3>. HIDE DEF seen
    <3>1. Keeps(seen, r.a) /\ r.a \in Audios BY <2>1, PlayerHoldIs DEF Keeps
    <3>2. b = r.a \/ b = [r.a EXCEPT !.bridge.buffering = TRUE] BY <2>3
    <3>3. Keeps(r.a, b) BY <1>3, <3>1, <3>2, KeepsSelf
    <3>. QED  BY <2>1, <3>1, <3>3, KeepsTwice
  <2>. QED  BY <1>4, <1>6, <2>2, <2>3 DEF Rebuffered
<1>7. CASE b \in Completed(a)
  <2>1. ASSUME NEW r \in PlayerStart(a),
               b = IF r.ok THEN [r.a EXCEPT !.bridge = Unboosted([@ EXCEPT !.buffering = FALSE])]
                           ELSE r.a
        PROVE  Keeps(a, b)
    <3>1. Keeps(a, r.a) /\ r.a \in Audios BY PlayerStartIs DEF Keeps
    <3> DEFINE d == [r.a.bridge EXCEPT !.buffering = FALSE]
    <3>2. /\ d \in Bridges /\ d.init = r.a.bridge.init /\ d.started = r.a.bridge.started
          /\ d.rate = r.a.bridge.rate
      BY <1>3, <3>1
    <3>3. b = r.a \/ b = [r.a EXCEPT !.bridge = Unboosted(d)] BY <2>1
    <3>. HIDE DEF d
    <3>4. /\ Unboosted(d) \in Bridges /\ Unboosted(d).init = d.init
          /\ Unboosted(d).started = d.started /\ Unboosted(d).rate = d.rate
      BY <3>2, Depths
    <3>5. Keeps(r.a, b) BY <1>1, <3>1, <3>2, <3>3, <3>4, KeepsSelf
    <3>. QED  BY <3>1, <3>5, KeepsTwice
  <2>. QED  BY <1>4, <1>7, <2>1 DEF Completed
<1>. QED  BY <1>4, <1>5, <1>6, <1>7 DEF AfterWrite, Accounted

\* The first half of Reset to another rate: if the player refuses, the bridge
\* is armed as it was.
LEMMA ResetStopsIs ==
  ASSUME NEW a \in Audios, NEW r \in ResetStops(a)
  PROVE  /\ r.ok \in BOOLEAN /\ r.a \in Audios
         /\ r.a.player.made = a.player.made /\ r.a.bridge = a.bridge
         /\ ~r.ok => Armed(r.a)
         /\ r.ok => r.a.player.closing
<1> DEFINE off == [Cleared(a) EXCEPT !.ring.running = FALSE]
<1>1. off \in Audios /\ off.player = a.player /\ off.bridge = a.bridge
  <2>1. Cleared(a) \in Audios /\ Cleared(a).player = a.player /\ Cleared(a).bridge = a.bridge
    BY DEF Cleared, Audios, Rings
  <2>. QED  BY <2>1 DEF Audios, Rings
<1>2. PICK s \in PlayerStop(off) :
         r = Result(s.ok, IF s.ok THEN Close(s.a) ELSE Kept(s.a))
  BY DEF ResetStops
<1>. HIDE DEF off
<1>3. s.ok \in BOOLEAN /\ s.a \in Audios /\ s.a.player.made = a.player.made
  BY <1>1, PlayerHoldIs DEF Keeps
<1>4. s.a.bridge = a.bridge BY <1>1, PlayerStopBridge
<1>5. /\ Close(s.a) \in Audios /\ Close(s.a).player.made = s.a.player.made
      /\ Close(s.a).bridge = s.a.bridge /\ Close(s.a).player.closing
  BY <1>3 DEF Close, Audios, Players
<1>6. /\ Kept(s.a) \in Audios /\ Kept(s.a).bridge = s.a.bridge
      /\ Kept(s.a).player = s.a.player /\ Armed(Kept(s.a))
  BY <1>3 DEF Kept, Armed, Audios, Rings, Bridges
<1>. QED  BY <1>2, <1>3, <1>4, <1>5, <1>6, ResultIs

\* Reset to the rate the bridge has: nothing is started, everything armed.
LEMMA RearmedIs ==
  ASSUME NEW a \in Audios PROVE Arms(a, Rearmed(a))
<1> DEFINE fresh == FreshStats(Cleared(a))
           b == [fresh.bridge EXCEPT !.started = FALSE, !.buffering = FALSE, !.boost = 0]
<1>1. /\ Cleared(a) \in Audios /\ Keeps(a, Cleared(a))
  BY DEF Cleared, Keeps, Audios, Rings
<1>2. fresh \in Audios /\ Keeps(a, fresh)
  BY <1>1, FreshStatsIs, KeepsTwice DEF Keeps
<1>3. /\ Rearmed(a).player = fresh.player /\ Rearmed(a).bridge = Profiled(b)
      /\ Rearmed(a).ring = [fresh.ring EXCEPT !.running = TRUE]
      /\ Profiled(b) \in Bridges => Rearmed(a) \in Audios
  <2>1. Rearmed(a) = [fresh EXCEPT !.ring.running = TRUE, !.bridge = Profiled(b)]
    BY DEF Rearmed
  <2>. HIDE DEF fresh, b
  <2>. QED  BY <1>2, <2>1 DEF Audios, Rings
<1>4. b \in Bridges /\ b.rate = fresh.bridge.rate /\ ~b.started
  <2>. HIDE DEF fresh
  <2> DEFINE c == [fresh.bridge EXCEPT !.started = FALSE]
             d == [c EXCEPT !.buffering = FALSE]
  <2>1. c \in Bridges /\ c.rate = fresh.bridge.rate /\ ~c.started
    BY <1>2, Fields DEF Audios
  <2>2. b = [d EXCEPT !.boost = 0] OBVIOUS
  <2>. HIDE DEF b, c
  <2>3. d \in Bridges /\ d.rate = c.rate /\ d.started = c.started
    BY <2>1, Fields DEF Alike
  <2>. HIDE DEF d
  <2>4. b \in Bridges /\ b.rate = d.rate /\ b.started = d.started
    BY <2>2, <2>3, Fields DEF Alike
  <2>. QED  BY <2>1, <2>3, <2>4
<1>. HIDE DEF fresh, b
<1>5. Profiled(b) \in Bridges /\ Profiled(b).rate = b.rate /\ ~Profiled(b).started
  BY <1>4, Depths
<1>. QED  BY <1>2, <1>3, <1>4, <1>5 DEF Arms, Armed, Keeps

\* What Cleanup leaves.
LEMMA TornIs ==
  ASSUME NEW a \in Audios
  PROVE  Torn(a) \in Audios /\ ~Torn(a).bridge.init /\ Torn(a).bridge.rate = a.bridge.rate
<1> DEFINE c == [a.bridge EXCEPT !.init = FALSE]
           b == [c EXCEPT !.boost = 0]
           ring == [NoRing EXCEPT !.running = a.ring.running]
<1>1. a.bridge \in Bridges /\ a.ring \in Rings BY DEF Audios
<1>2. c \in Bridges /\ ~c.init /\ c.rate = a.bridge.rate BY <1>1, Fields
<1>3. ring \in Rings BY <1>1 DEF NoRing, Rings
<1>4. NoPlayer \in Players BY DEF NoPlayer, Players
<1>5. Torn(a) = [[[a EXCEPT !.player = NoPlayer] EXCEPT !.ring = ring] EXCEPT !.bridge = b]
  BY DEF Torn, Released, Audios
<1>. HIDE DEF c, ring
<1>6. b \in Bridges /\ ~b.init /\ b.rate = c.rate BY <1>2, Fields DEF Alike
<1>. HIDE DEF b
<1>. QED  BY <1>2, <1>3, <1>4, <1>5, <1>6 DEF Audios

\* Initialize: one that succeeds makes the renderer and has the rate; one that
\* fails makes nothing.
LEMMA InitializeIs ==
  ASSUME NEW a \in Audios, NEW rate \in Int, NEW r \in Initialize(a, rate)
  PROVE  /\ r.ok \in BOOLEAN /\ r.a \in Audios
         /\ r.ok => r.a.player.made /\ r.a.ring.running /\ r.a.bridge.rate = rate
         /\ ~r.ok => /\ r.a.player.made = a.player.made
                     /\ r.a.bridge.init = a.bridge.init
<1> DEFINE c == [a.bridge EXCEPT !.boost = 0, !.rate = NewRate(a.bridge, rate)]
           with == [a EXCEPT !.bridge = Profiled(c)]
<1>1. c \in Bridges /\ c.rate = rate /\ c.init = a.bridge.init
  <2> DEFINE d == [a.bridge EXCEPT !.boost = 0]
  <2>1. d \in Bridges /\ d.init = a.bridge.init BY Fields DEF Alike, Audios
  <2>2. c = [d EXCEPT !.rate = rate] BY DEF NewRate
  <2>. HIDE DEF c, d
  <2>. QED  BY <2>1, <2>2 DEF Bridges
<1>2. Profiled(c) \in Bridges /\ Profiled(c).rate = rate /\ Profiled(c).init = a.bridge.init
  <2>. HIDE DEF c
  <2>. QED  BY <1>1, Depths
<1>3. with \in Audios /\ with.bridge = Profiled(c) /\ with.player = a.player
  <2>. HIDE DEF c
  <2>. QED  BY <1>2, WithBridge
<1>4. PICK s \in PlayerInitialize(with) :
         r = IF s.ok
             THEN Result(TRUE, [s.a EXCEPT !.ring.running = TRUE, !.bridge.init = TRUE,
                                   !.bridge.started = FALSE, !.bridge.last = 0,
                                   !.bridge.buffering = FALSE])
             ELSE Result(FALSE, s.a)
  BY DEF Initialize
<1>. HIDE DEF c, with
<1>5. CASE s \in Fails(with)
  <2>1. s.ok = FALSE /\ Keeps(with, s.a) BY <1>3, <1>5, FailsIs
  <2>2. r = Result(FALSE, s.a) BY <1>4, <2>1
  <2>3. r.ok = FALSE /\ r.a = s.a BY <2>2, ResultIs
  <2>. QED  BY <1>2, <1>3, <2>1, <2>3 DEF Keeps
<1>6. CASE s = Result(TRUE, [with EXCEPT !.player = [NoPlayer EXCEPT !.made = TRUE]])
  <2>1. s.ok = TRUE /\ s.a = [with EXCEPT !.player = [NoPlayer EXCEPT !.made = TRUE]]
    BY <1>6, ResultIs
  <2>2. s.a \in Audios /\ s.a.player.made /\ s.a.bridge = with.bridge
    BY <1>3, <2>1 DEF NoPlayer, Audios, Players
  <2> DEFINE b == [s.a EXCEPT !.ring.running = TRUE, !.bridge.init = TRUE,
                              !.bridge.started = FALSE, !.bridge.last = 0,
                              !.bridge.buffering = FALSE]
  <2>3. /\ b \in Audios /\ b.player = s.a.player /\ b.ring.running
        /\ b.bridge.rate = s.a.bridge.rate
    <3> DEFINE b1 == [s.a.bridge EXCEPT !.init = TRUE]
               b2 == [b1 EXCEPT !.started = FALSE]
               b3 == [b2 EXCEPT !.last = 0]
               b4 == [b3 EXCEPT !.buffering = FALSE]
               ring == [s.a.ring EXCEPT !.running = TRUE]
    <3>1. s.a.bridge \in Bridges /\ s.a.ring \in Rings BY <2>2 DEF Audios
    <3>2. b1 \in Bridges /\ b1.rate = s.a.bridge.rate BY <3>1, Fields
    <3>3. ring \in Rings /\ ring.running BY <3>1 DEF Rings
    <3>4. b = [[s.a EXCEPT !.ring = ring] EXCEPT !.bridge = b4] BY <2>2 DEF Audios
    <3>. HIDE DEF b, b1, ring
    <3>5. b2 \in Bridges /\ b2.rate = b1.rate BY <3>2, Fields
    <3>. HIDE DEF b2
    <3>6. b3 \in Bridges /\ b3.rate = b2.rate BY <3>5, Fields DEF Alike
    <3>. HIDE DEF b3
    <3>7. b4 \in Bridges /\ b4.rate = b3.rate BY <3>6, Fields DEF Alike
    <3>. HIDE DEF b4
    <3>. QED  BY <2>2, <3>2, <3>3, <3>4, <3>5, <3>6, <3>7 DEF Audios
  <2>. HIDE DEF b
  <2>4. r = Result(TRUE, b) BY <1>4, <2>1 DEF b
  <2>5. r.ok = TRUE /\ r.a = b BY <2>4, ResultIs
  <2>. QED  BY <1>2, <1>3, <2>2, <2>3, <2>5
<1>. QED  BY <1>4, <1>5, <1>6 DEF PlayerInitialize

-----------------------------------------------------------------------------
\* TransitionTo: what the bridge refuses on the way up is an ERROR, and what it
\* holds is silent or reported.
LEMMA TransitionIs ==
  ASSUME NEW to \in {"RUNNING", "PAUSED", "STOPPING", "STOPPED"}, NEW a \in Audios,
         NEW e \in Engines, NEW t \in Transition(to, a, e)
  PROVE  /\ Arms(a, t.a) /\ t.e \in Engines /\ t.e.rate = e.rate
         /\ t.e.state \in {to, "ERROR"}
         /\ t.e.state = "PAUSED" => ~t.a.player.playing
         /\ t.e.state = "STOPPED" /\ t.a.player.playing => t.e.error
<1>1. PICK r \in Calls(to, a) :
         t = [a |-> r.a, e |-> IF r.ok THEN [e EXCEPT !.state = to]
                               ELSE [e EXCEPT !.state = Refusal(to), !.error = TRUE]]
  BY DEF Transition
<1>2. /\ r.ok \in BOOLEAN /\ Arms(a, r.a)
      /\ to # "RUNNING" /\ r.ok => ~r.a.player.playing
  BY StartIs, HoldIs DEF Calls
<1>3. t.a = r.a BY <1>1
<1>4. CASE r.ok
  <2>1. t.e = [e EXCEPT !.state = to] BY <1>1, <1>4
  <2>2. t.e \in Engines /\ t.e.rate = e.rate /\ t.e.state = to
    BY <2>1 DEF Engines, EngineStates
  <2>. QED  BY <1>2, <1>3, <1>4, <2>2
<1>5. CASE ~r.ok
  <2>1. t.e = [e EXCEPT !.state = Refusal(to), !.error = TRUE] BY <1>1, <1>5
  <2>2. Refusal(to) \in {to, "ERROR"} /\ Refusal(to) # "PAUSED" BY DEF Refusal
  <2>3. t.e \in Engines /\ t.e.rate = e.rate /\ t.e.state = Refusal(to) /\ t.e.error
    BY <2>1, <2>2 DEF Engines, EngineStates
  <2>. QED  BY <1>2, <1>3, <2>2, <2>3
<1>. QED  BY <1>2, <1>4, <1>5

-----------------------------------------------------------------------------
(***************************************************************************)
(* The inductive invariant.  In the middle of a frame the engine runs, in  *)
(* the middle of a Reset it loads or runs; a paused player does not play;  *)
(* the rate on its way is the one the engine has, and so is, once it is    *)
(* through, that of the bridge.  From the wait of Cleanup to the release   *)
(* the door is shut, and unless the wait was given up nobody is inside.    *)
(***************************************************************************)
Typed == audio \in Audios /\ engine \in Engines /\ refused \in BOOLEAN

FramePlaces == {"stop", "pause", "resume", "write", "wrote", "dropped", "frame"}
ResetPlaces == {"reset", "cleanup", "release"}

PlacesInv ==
  /\ pc \in {"idle"} \cup FramePlaces \cup ResetPlaces
  /\ pc \in FramePlaces => engine.state = "RUNNING"
  /\ pc \in ResetPlaces => /\ load.rate \in Int
                           /\ \/ load.by = "LoadRom" /\ engine.state = "LOADING"
                              \/ load.by = "ProcessFrame" /\ engine.state = "RUNNING"
  /\ pc \in {"cleanup", "release"} => audio.player.closing
  /\ pc = "release" /\ ~gaveUp => CallbacksGone

HeldInv ==
  /\ engine.state = "PAUSED" => ~audio.player.playing
  /\ engine.state = "STOPPED" /\ audio.player.playing => engine.error

RateInv ==
  ~refused =>
    /\ pc \in ResetPlaces => load.rate = engine.rate
    /\ engine.state \in {"RUNNING", "PAUSED"} /\ pc \notin ResetPlaces =>
         audio.bridge.rate = engine.rate

PInv == /\ Typed /\ PlacesInv /\ HeldInv /\ RateInv
        /\ ArmedWhenStarted /\ CallbackSeesLivePlayer

\* What ArmedWhenStarted says of the bridge.
LEMMA ArmedIs ==
  (pc \notin {"cleanup", "release"} => Armed(audio)) <=> ArmedWhenStarted
  BY DEF Armed, ArmedWhenStarted

\* The same of the next state.
LEMMA ArmedIsNext ==
  (pc' \notin {"cleanup", "release"} => Armed(audio')) <=> ArmedWhenStarted'
  BY DEF Armed, ArmedWhenStarted

\* A frame goes on.
LEMMA FrameGoesOn ==
  ASSUME PInv, Keeps(audio, audio'), engine' \in Engines,
         engine.state = "RUNNING", engine'.state = "RUNNING", engine'.rate = engine.rate,
         pc \notin ResetPlaces, pc' \in {"idle"} \cup FramePlaces,
         UNCHANGED <<callbacks, load, refused>>
  PROVE  PInv'
<1>. USE DEF PInv, ResetPlaces, FramePlaces
<1>1. Typed' BY DEF Typed, Keeps
<1>2. PlacesInv' BY DEF PlacesInv
<1>3. HeldInv' BY DEF HeldInv
<1>4. RateInv' BY DEF RateInv, Keeps
<1>5. ArmedWhenStarted' BY ArmedIs, ArmedIsNext DEF Keeps, Armed
<1>6. CallbackSeesLivePlayer' BY DEF CallbackSeesLivePlayer, Keeps, callbacks
<1>. QED  BY <1>1, <1>2, <1>3, <1>4, <1>5, <1>6

\* A frame from its begin to its end.
LEMMA FrameKeepsInv == ASSUME PInv, Frame PROVE PInv'
<1>. USE DEF ResetPlaces, FramePlaces, drive
<1>0. audio \in Audios /\ engine \in Engines BY DEF PInv, Typed
<1>1. Keeps(audio, audio) BY <1>0, KeepsSelf
<1>2. CASE \E batch \in BOOLEAN : RunFrame(batch)
  BY <1>0, <1>1, <1>2, FrameGoesOn DEF RunFrame, Idle
<1>3. CASE Asks
  <2>1. engine.state = "RUNNING" /\ pc = "frame" BY <1>3 DEF Asks, At, PInv, PlacesInv
  <2>2. engine' \in Engines /\ engine'.state = engine.state /\ engine'.rate = engine.rate
    <3>1. \A n \in Latencies \cup AvRates : n \in Int BY RatesAssumption
    <3>2. PICK n \in Latencies \cup AvRates :
            engine' = [engine EXCEPT !.latency = n] \/ engine' = [engine EXCEPT !.av = n]
      BY <1>3 DEF Asks
    <3>. QED  BY <1>0, <3>1, <3>2 DEF Engines
  <2>. QED  BY <1>1, <1>3, <2>1, <2>2, FrameGoesOn DEF Asks
<1>4. CASE Interrupts
  <2>1. engine.state = "RUNNING" /\ pc \in FramePlaces
    BY <1>4 DEF Interrupts, At, PInv, PlacesInv
  <2>2. Keeps(audio, audio') BY <1>0, <1>4, ExchangesKeep DEF Interrupts
  <2>3. pc' \in FramePlaces BY <1>4 DEF Interrupts
  <2>. QED  BY <1>0, <1>4, <2>1, <2>2, <2>3, FrameGoesOn DEF Interrupts
<1>5. CASE Write
  <2>1. engine.state = "RUNNING" /\ pc = "write" BY <1>5 DEF Write, At, PInv, PlacesInv
  <2>2. Keeps(audio, audio')
    BY <1>0, <1>1, <1>5 DEF Write, Written, Keeps, Audios, Rings
  <2>. QED  BY <1>0, <1>5, <2>1, <2>2, FrameGoesOn DEF Write
<1>6. CASE Account
  <2>1. engine.state = "RUNNING" /\ pc \in FramePlaces
    BY <1>6 DEF Account, At, PInv, PlacesInv
  <2>2. Keeps(audio, audio')
    <3>1. (pc = "wrote") \in BOOLEAN OBVIOUS
    <3>. QED  BY <1>0, <1>6, <3>1, AfterWriteKeeps DEF Account
  <2>. QED  BY <1>0, <1>6, <2>1, <2>2, FrameGoesOn DEF Account
<1>7. CASE EndFrame
  <2>1. engine.state = "RUNNING" /\ pc = "frame" BY <1>7 DEF EndFrame, At, PInv, PlacesInv
  <2>2. Keeps(audio, audio')
    <3>1. CASE engine.latency = Nothing BY <1>1, <1>7, <3>1 DEF EndFrame
    <3>2. CASE audio' = SetMinimumLatencyMs(audio, engine.latency)
      <4> DEFINE b == [audio.bridge EXCEPT !.latency = engine.latency]
      <4>1. /\ b \in Bridges /\ b.init = audio.bridge.init
            /\ b.started = audio.bridge.started /\ b.rate = audio.bridge.rate
        BY <1>0 DEF Audios, Bridges, Engines
      <4> DEFINE c == [b EXCEPT !.min = ResolveMin(b, engine.latency)]
      <4>2. ResolveMin(b, engine.latency) \in Int
        <5>. HIDE DEF b
        <5>. QED  BY <1>0, <4>1, Depths DEF Engines
      <4>3. audio' = [audio EXCEPT !.bridge = IF b.init THEN c ELSE b]
        BY <3>2 DEF SetMinimumLatencyMs
      <4>. HIDE DEF b
      <4>4. /\ c \in Bridges /\ c.init = b.init /\ c.started = b.started /\ c.rate = b.rate
        BY <4>1, <4>2 DEF Bridges
      <4>. HIDE DEF c
      <4>. QED  BY <1>0, <4>1, <4>3, <4>4 DEF Keeps, Audios
    <3>. QED  BY <1>7, <3>1, <3>2 DEF EndFrame
  <2>3. /\ engine' \in Engines /\ engine'.state = "RUNNING"
        /\ engine'.rate = IF engine.av = Nothing THEN engine.rate ELSE engine.av
    <3> DEFINE n == IF engine.av = Nothing THEN engine.rate ELSE engine.av
               e1 == [engine EXCEPT !.latency = Nothing]
               e2 == [e1 EXCEPT !.av = Nothing]
    <3>1. Nothing \in Int /\ n \in Int BY <1>0 DEF Nothing, Engines
    <3>2. engine' = [e2 EXCEPT !.rate = n] BY <1>0, <1>7 DEF EndFrame, Engines
    <3>. HIDE DEF n
    <3>3. e1 \in Engines /\ e1.state = "RUNNING" BY <1>0, <2>1, <3>1 DEF Engines
    <3>. HIDE DEF e1
    <3>4. e2 \in Engines /\ e2.state = "RUNNING" BY <3>1, <3>3 DEF Engines
    <3>. HIDE DEF e2
    <3>5. engine' \in Engines /\ engine'.state = "RUNNING" /\ engine'.rate = n
      BY <3>1, <3>2, <3>4 DEF Engines
    <3>. QED  BY <3>5 DEF n
  <2>4. CASE engine.av \in {Nothing, engine.rate}
    BY <1>7, <2>1, <2>2, <2>3, <2>4, FrameGoesOn DEF EndFrame
  <2>5. CASE engine.av \notin {Nothing, engine.rate}
    <3>1. /\ pc' = "reset" /\ load' = [rate |-> engine.av, by |-> "ProcessFrame"]
          /\ UNCHANGED <<callbacks, refused>>
      BY <1>7, <2>5 DEF EndFrame
    <3>2. engine'.rate = engine.av /\ engine.av \in Int BY <1>0, <2>3, <2>5 DEF Engines
    <3>3. Typed' /\ PlacesInv' /\ HeldInv' /\ RateInv'
      BY <2>2, <2>3, <3>1, <3>2 DEF PInv, Typed, PlacesInv, HeldInv, RateInv, Keeps
    <3>4. ArmedWhenStarted'
      BY <2>1, <2>2, ArmedIs, ArmedIsNext DEF PInv, Keeps, Armed
    <3>5. CallbackSeesLivePlayer'
      BY <2>2, <3>1 DEF PInv, CallbackSeesLivePlayer, Keeps, callbacks
    <3>. QED  BY <3>3, <3>4, <3>5 DEF PInv
  <2>. QED  BY <2>4, <2>5
<1>8. CASE ResetBufferStats
  <2>1. Keeps(audio, audio')
    BY <1>0, <1>8 DEF ResetBufferStats, Keeps, Audios, Rings
  <2>. QED  BY <1>0, <1>8, <2>1, FrameGoesOn DEF ResetBufferStats, Idle
<1>. QED  BY <1>2, <1>3, <1>4, <1>5, <1>6, <1>7, <1>8 DEF Frame

\* The callbacks, and the stores after the lock.
LEMMA CallbacksKeepInv == ASSUME PInv, Callbacks PROVE PInv'
<1>. USE DEF callbacks
<1>0. audio \in Audios /\ Keeps(audio, audio) BY KeepsSelf DEF PInv, Typed
<1>1. /\ Keeps(audio, audio') /\ audio'.player.playing = audio.player.playing
      /\ audio'.player.closing = audio.player.closing
  <2>1. CASE UNCHANGED audio BY <1>0, <2>1
  <2>2. CASE ClearPending
    BY <1>0, <2>2 DEF ClearPending, Keeps, Audios, Players
  <2>3. CASE DataReads /\ ~UNCHANGED audio
    <3>1. PICK short \in {0, 1} :
            audio' = [audio EXCEPT !.ring.fill = Max2(@ - 1, 0),
                                   !.ring.underruns = Min2(@ + short, UnderrunLimit)]
      BY <2>3 DEF DataReads
    <3>2. /\ Max2(audio.ring.fill - 1, 0) \in Int
          /\ Min2(audio.ring.underruns + short, UnderrunLimit) \in Int
      BY <1>0, PlayerAssumption DEF Max2, Min2, Audios, Rings
    <3>. QED  BY <1>0, <3>1, <3>2 DEF Keeps, Audios, Rings
  <2>4. CASE HintStores /\ ~UNCHANGED audio
    <3>1. ASSUME NEW pause \in BOOLEAN, NEW go \in BOOLEAN, NEW stop \in BOOLEAN,
                 audio' = [audio EXCEPT !.player.pause = pause, !.player.go = go,
                                        !.player.stop = stop]
          PROVE  /\ Keeps(audio, audio')
                 /\ audio'.player.playing = audio.player.playing
                 /\ audio'.player.closing = audio.player.closing
      BY <1>0, <3>1 DEF Keeps, Audios, Players
    <3>2. (focus = "pause") \in BOOLEAN /\ (focus = "resume") \in BOOLEAN
          /\ (audio.player.stop \/ focus = "stop") \in BOOLEAN
      OBVIOUS
    <3>3. audio' = [audio EXCEPT !.player.pause = focus = "pause",
                                 !.player.go = focus = "resume",
                                 !.player.stop = audio.player.stop \/ focus = "stop"]
      BY <2>4 DEF HintStores
    <3>. QED  BY <3>1, <3>2, <3>3
  <2>5. ASSUME NEW h, Hint(h)
        PROVE  /\ Keeps(audio, audio') /\ audio'.player.playing = audio.player.playing
               /\ audio'.player.closing = audio.player.closing
    <3> DEFINE had == audio.player.resume \/ audio.player.playing
               set(on) == [audio EXCEPT !.player.resume = on]
               halt == [audio EXCEPT !.player.stop = TRUE]
    <3>1. had = TRUE \/ had = FALSE OBVIOUS
    <3>2. \/ audio' = set(had) \/ audio' = set(FALSE) \/ audio' = halt
      BY <1>0, <2>5 DEF Hint
    <3>3. /\ Keeps(audio, set(TRUE)) /\ set(TRUE).player.playing = audio.player.playing
          /\ set(TRUE).player.closing = audio.player.closing
      BY <1>0 DEF Keeps, Audios, Players
    <3>4. /\ Keeps(audio, set(FALSE)) /\ set(FALSE).player.playing = audio.player.playing
          /\ set(FALSE).player.closing = audio.player.closing
      BY <1>0 DEF Keeps, Audios, Players
    <3>5. /\ Keeps(audio, halt) /\ halt.player.playing = audio.player.playing
          /\ halt.player.closing = audio.player.closing
      BY <1>0 DEF Keeps, Audios, Players
    <3>6. audio' = set(TRUE) \/ audio' = set(FALSE) \/ audio' = halt
      BY <3>1, <3>2
    <3>. HIDE DEF had, set, halt
    <3>. QED  BY <3>3, <3>4, <3>5, <3>6
  <2>. QED  BY <2>1, <2>2, <2>3, <2>4, <2>5 DEF Callbacks, CallbackNext,
       DataCalls, DataEnters
<1>2. /\ data' = "reading" => data = "reading" \/ EnterCallback(audio.player)
      /\ focus' # "none" => focus # "none" \/ EnterCallback(audio.player)
      /\ UNCHANGED gaveUp
  BY DEF Callbacks, CallbackNext, ClearPending, DataCalls, DataEnters, DataReads,
     HintStores, Hint
<1>3. UNCHANGED <<pc, engine, load, refused>> BY DEF Callbacks, drive
<1>4. Typed' /\ HeldInv' /\ RateInv'
  BY <1>1, <1>3 DEF PInv, Typed, HeldInv, RateInv, Keeps
\* While the door is shut nobody comes in.
<1>7. PlacesInv'
  BY <1>1, <1>2, <1>3 DEF PInv, PlacesInv, EnterCallback, CallbacksGone
<1>5. ArmedWhenStarted' BY <1>1, <1>3, ArmedIs, ArmedIsNext DEF PInv, Keeps, Armed
<1>6. CallbackSeesLivePlayer'
  BY <1>1, <1>2 DEF PInv, CallbackSeesLivePlayer, EnterCallback, Keeps
<1>. QED  BY <1>4, <1>5, <1>6, <1>7 DEF PInv

-----------------------------------------------------------------------------
\* The beginning.
LEMMA Beginning == Init => PInv
<1>1. NoPlayer \in Players BY DEF NoPlayer, Players
<1>2. NoRing \in Rings BY DEF NoRing, Rings
<1>3. \A rt \in BOOLEAN : NoBridge(rt) \in Bridges /\ ~NoBridge(rt).init
  BY DEF NoBridge, Bridges
<1>4. Faults \in Int BY PlayerAssumption
<1>. SUFFICES ASSUME Init PROVE PInv
  OBVIOUS
<1>5. audio \in Audios /\ ~audio.bridge.init BY <1>1, <1>2, <1>3, <1>4 DEF Init, Audios
<1>6. engine \in Engines /\ engine.state = "INIT"
  BY DEF Init, Engines, EngineStates, DefaultRate, Nothing
<1>. QED  BY <1>5, <1>6 DEF Init, PInv, Typed, PlacesInv, HeldInv, RateInv,
     ArmedWhenStarted, CallbackSeesLivePlayer, FramePlaces, ResetPlaces

\* A call of the bridge between two frames leads to a new state: where that is
\* one that plays or is to play on, the rate is the one there was.
LEMMA StateGoesOn ==
  ASSUME PInv, pc \notin ResetPlaces, pc' = "idle", UNCHANGED <<callbacks, load, refused>>,
         Arms(audio, audio'), engine' \in Engines,
         engine'.state \in {"RUNNING", "PAUSED"} =>
           engine.state \in {"RUNNING", "PAUSED"} /\ engine'.rate = engine.rate,
         HeldInv'
  PROVE  PInv'
<1>1. Typed' BY DEF PInv, Typed, Arms
<1>2. PlacesInv' BY DEF PlacesInv, FramePlaces, ResetPlaces
<1>3. RateInv' BY DEF PInv, RateInv, Arms, ResetPlaces
<1>4. ArmedWhenStarted' BY ArmedIs, ArmedIsNext DEF PInv, Arms, ResetPlaces
<1>5. CallbackSeesLivePlayer' BY DEF PInv, CallbackSeesLivePlayer, Arms, callbacks
<1>. QED  BY <1>1, <1>2, <1>3, <1>4, <1>5 DEF PInv

\* A call that answers nothing leaves everything armed.
LEMMA SameIsArmed == \A a \in Audios : Arms(a, a)
  BY KeepsSelf, KeepsArms

\* The transitions of the engine, and the operations that leave the rate.
LEMMA TransitionsKeepInv ==
  ASSUME PInv, Pause \/ Resume \/ StopRequested \/ Stopped PROVE PInv'
<1>0. audio \in Audios /\ engine \in Engines BY DEF PInv, Typed
<1>1. ASSUME NEW to \in {"RUNNING", "PAUSED", "STOPPING", "STOPPED"},
             to \in {"RUNNING", "PAUSED"} => engine.state \in {"RUNNING", "PAUSED"},
             NEW t \in Transition(to, audio, engine), audio' = t.a, engine' = t.e,
             pc \notin ResetPlaces, pc' = "idle", UNCHANGED <<callbacks, load, refused>>
      PROVE  PInv'
  <2>1. /\ Arms(audio, audio') /\ engine' \in Engines /\ engine'.rate = engine.rate
        /\ engine'.state \in {to, "ERROR"}
        /\ engine'.state = "PAUSED" => ~audio'.player.playing
        /\ engine'.state = "STOPPED" /\ audio'.player.playing => engine'.error
    BY <1>0, <1>1, TransitionIs
  <2>2. HeldInv' BY <2>1 DEF HeldInv
  <2>3. engine'.state \in {"RUNNING", "PAUSED"} =>
          engine.state \in {"RUNNING", "PAUSED"} /\ engine'.rate = engine.rate
    BY <1>1, <2>1
  <2>. QED  BY <1>1, <2>1, <2>2, <2>3, StateGoesOn
<1>2. CASE Pause BY <1>1, <1>2 DEF Pause, Idle, TransitionTo, ResetPlaces
<1>3. CASE Resume BY <1>1, <1>3 DEF Resume, Idle, TransitionTo, ResetPlaces
<1>4. CASE Stopped BY <1>1, <1>4 DEF Stopped, Idle, TransitionTo, ResetPlaces
<1>5. CASE StopRequested BY <1>1, <1>5 DEF StopRequested, Idle, At, ResetPlaces
<1>. QED  BY <1>2, <1>3, <1>4, <1>5

\* Reset and LoadCore of the engine.
LEMMA CoresKeepInv == ASSUME PInv, ResetEngine \/ LoadCore PROVE PInv'
<1>0. audio \in Audios /\ engine \in Engines BY DEF PInv, Typed
<1>1. CASE ResetEngine
  <2>1. Arms(audio, audio') BY <1>0, <1>1, HoldIs DEF ResetEngine
  <2>2. engine' \in Engines /\ engine'.state \in {"INIT", "STARTING"}
    <3>1. PICK to \in {"INIT", "STARTING"} :
            engine' = [engine EXCEPT !.state = to, !.rate = DefaultRate, !.error = FALSE,
                                     !.latency = Nothing]
      BY <1>1 DEF ResetEngine
    <3> DEFINE e1 == [engine EXCEPT !.state = to]
               e2 == [e1 EXCEPT !.rate = DefaultRate]
               e3 == [e2 EXCEPT !.error = FALSE]
    <3>2. engine' = [e3 EXCEPT !.latency = Nothing] BY <1>0, <3>1 DEF Engines
    <3>3. e1 \in Engines /\ e1.state = to BY <1>0 DEF Engines, EngineStates
    <3>. HIDE DEF e1
    <3>4. e2 \in Engines /\ e2.state = to BY <3>3 DEF Engines, DefaultRate
    <3>. HIDE DEF e2
    <3>5. e3 \in Engines /\ e3.state = to BY <3>4 DEF Engines
    <3>. HIDE DEF e3
    <3>. QED  BY <3>2, <3>5 DEF Engines, Nothing
  <2>3. HeldInv' BY <2>2 DEF HeldInv
  <2>4. /\ pc = "idle" /\ pc' = "idle" /\ UNCHANGED <<callbacks, load, refused>>
    BY <1>1 DEF ResetEngine, Idle
  <2>. QED  BY <2>1, <2>2, <2>3, <2>4, StateGoesOn DEF ResetPlaces
<1>2. CASE LoadCore
  <2>1. engine' \in Engines /\ engine'.state \in {"CORE_LOADED", "ERROR"}
    <3>1. PICK ok \in BOOLEAN :
            engine' = [engine EXCEPT
                         !.state = IF ok /\ @ = "STARTING" THEN "CORE_LOADED" ELSE "ERROR",
                         !.error = ~ok, !.latency = Nothing]
      BY <1>2 DEF LoadCore
    <3> DEFINE to == IF ok /\ engine.state = "STARTING" THEN "CORE_LOADED" ELSE "ERROR"
               e1 == [engine EXCEPT !.state = to]
               e2 == [e1 EXCEPT !.error = ~ok]
    <3>2. engine' = [e2 EXCEPT !.latency = Nothing] BY <1>0, <3>1 DEF Engines
    <3>3. to \in {"CORE_LOADED", "ERROR"} OBVIOUS
    <3>. HIDE DEF to
    <3>4. e1 \in Engines /\ e1.state = to BY <1>0, <3>3 DEF Engines, EngineStates
    <3>. HIDE DEF e1
    <3>5. e2 \in Engines /\ e2.state = to BY <3>4 DEF Engines
    <3>. HIDE DEF e2
    <3>. QED  BY <3>2, <3>3, <3>5 DEF Engines, Nothing
  <2>2. HeldInv' BY <2>1 DEF HeldInv
  <2>3. /\ pc = "idle" /\ pc' = "idle" /\ UNCHANGED <<callbacks, load, refused>>
        /\ Arms(audio, audio')
    BY <1>0, <1>2, SameIsArmed DEF LoadCore, Idle
  <2>. QED  BY <2>1, <2>2, <2>3, StateGoesOn DEF ResetPlaces
<1>. QED  BY <1>1, <1>2

\* LoadRom, up to the Reset of the bridge.
LEMMA LoadRomKeepsInv == ASSUME PInv, LoadRom PROVE PInv'
<1>0. audio \in Audios /\ engine \in Engines BY DEF PInv, Typed
<1>1. pc = "idle" /\ UNCHANGED <<audio, callbacks>> BY DEF LoadRom, Idle
<1>2. CASE /\ engine' = [engine EXCEPT !.state = "ERROR", !.error = TRUE]
           /\ UNCHANGED <<pc, load, refused>>
  <2>1. engine' \in Engines /\ engine'.state = "ERROR"
    BY <1>0, <1>2 DEF Engines, EngineStates
  <2>2. HeldInv' BY <2>1 DEF HeldInv
  <2>. QED  BY <1>0, <1>1, <1>2, <2>1, <2>2, SameIsArmed, StateGoesOn DEF ResetPlaces
<1>3. ASSUME NEW rate \in Rates, NEW content \in BOOLEAN,
             engine' = [engine EXCEPT !.state = "LOADING",
                                      !.rate = IF content THEN rate ELSE @],
             pc' = "reset", load' = [rate |-> rate, by |-> "LoadRom"], refused' = ~content
      PROVE  PInv'
  <2>1. rate \in Int BY RatesAssumption
  <2>2. engine' \in Engines /\ engine'.state = "LOADING"
        /\ (content => engine'.rate = rate)
    BY <1>0, <1>3, <2>1 DEF Engines, EngineStates
  <2>3. load'.rate = rate /\ load'.by = "LoadRom" BY <1>3
  <2>4. Typed' /\ PlacesInv' /\ HeldInv' /\ RateInv'
    BY <1>0, <1>1, <1>3, <2>1, <2>2, <2>3
    DEF Typed, PlacesInv, HeldInv, RateInv, FramePlaces, ResetPlaces
  <2>5. ArmedWhenStarted' /\ CallbackSeesLivePlayer'
    BY <1>1 DEF PInv, ArmedWhenStarted, CallbackSeesLivePlayer, callbacks
  <2>. QED  BY <2>4, <2>5 DEF PInv
<1>. QED  BY <1>2, <1>3 DEF LoadRom

\* What is done with the answer of the Reset of the bridge.
LEMMA AnsweredKeepsInv ==
  ASSUME PInv, pc \in ResetPlaces, UNCHANGED callbacks,
         NEW r, r.ok \in BOOLEAN, r.a \in Audios, Armed(r.a),
         r.ok => r.a.bridge.rate = load.rate,
         (data = "reading" \/ focus # "none") /\ ~gaveUp => r.a.player.made,
         Answered(r)
  PROVE  PInv'
<1>0. engine \in Engines /\ refused \in BOOLEAN BY DEF PInv, Typed
<1>1. pc' = "idle" BY DEF Answered
<1>2. CASE load.by = "LoadRom"
  <2>1. engine.state = "LOADING" /\ UNCHANGED refused
    BY <1>2 DEF PInv, PlacesInv, Answered
  <2>2. PICK t \in Loaded(r, engine) : audio' = t.a /\ engine' = t.e
    BY <1>2 DEF Answered
  <2>3. CASE ~r.ok
    <3>1. audio' = r.a /\ engine' = [engine EXCEPT !.state = "ERROR", !.error = TRUE]
      BY <2>2, <2>3 DEF Loaded
    <3>2. engine' \in Engines /\ engine'.state = "ERROR"
      BY <1>0, <3>1 DEF Engines, EngineStates
    <3>3. Typed' /\ PlacesInv' /\ HeldInv' /\ RateInv'
      BY <1>0, <1>1, <2>1, <3>1, <3>2
      DEF Typed, PlacesInv, HeldInv, RateInv, FramePlaces, ResetPlaces
    <3>4. ArmedWhenStarted' BY <3>1, ArmedIsNext DEF Armed
    <3>5. CallbackSeesLivePlayer' BY <3>1 DEF CallbackSeesLivePlayer, callbacks
    <3>. QED  BY <3>3, <3>4, <3>5 DEF PInv
  <2>4. CASE r.ok
    <3> DEFINE e == [engine EXCEPT !.error = FALSE]
    <3>1. t \in Transition("RUNNING", r.a, e) BY <2>2, <2>4 DEF Loaded
    <3>2. e \in Engines /\ e.rate = engine.rate BY <1>0 DEF Engines
    <3>. HIDE DEF e
    <3>3. /\ Arms(r.a, audio') /\ engine' \in Engines /\ engine'.rate = engine.rate
          /\ engine'.state \in {"RUNNING", "ERROR"}
      BY <2>2, <3>1, <3>2, TransitionIs
    <3>4. /\ audio' \in Audios /\ audio'.player.made = r.a.player.made
          /\ audio'.bridge.rate = load.rate /\ Armed(audio')
      BY <2>4, <3>3 DEF Arms
    <3>5. ~refused => load.rate = engine.rate BY DEF PInv, RateInv
    <3>6. Typed' /\ PlacesInv' /\ HeldInv' /\ RateInv'
      BY <1>0, <1>1, <2>1, <3>3, <3>4, <3>5
      DEF Typed, PlacesInv, HeldInv, RateInv, FramePlaces, ResetPlaces
    <3>7. ArmedWhenStarted' BY <3>4, ArmedIsNext
    <3>8. CallbackSeesLivePlayer' BY <3>4 DEF CallbackSeesLivePlayer, callbacks
    <3>. QED  BY <3>6, <3>7, <3>8 DEF PInv
  <2>. QED  BY <2>3, <2>4
<1>3. CASE load.by # "LoadRom"
  <2>1. engine.state = "RUNNING" BY <1>3 DEF PInv, PlacesInv
  <2>2. audio' = r.a /\ refused' = (refused \/ ~r.ok) /\ UNCHANGED engine
    BY <1>3 DEF Answered
  <2>3. ~refused => load.rate = engine.rate BY DEF PInv, RateInv
  <2>4. Typed' /\ PlacesInv' /\ HeldInv' /\ RateInv'
    BY <1>0, <1>1, <2>1, <2>2, <2>3
    DEF Typed, PlacesInv, HeldInv, RateInv, FramePlaces, ResetPlaces
  <2>5. ArmedWhenStarted' BY <2>2, ArmedIsNext
  <2>6. CallbackSeesLivePlayer' BY <2>2 DEF CallbackSeesLivePlayer, callbacks
  <2>. QED  BY <2>4, <2>5, <2>6 DEF PInv
<1>. QED  BY <1>2, <1>3

\* Reset of the bridge.
LEMMA ResetsKeepInv ==
  ASSUME PInv, ResetAudio \/ AwaitCallbacks \/ Release PROVE PInv'
<1>0. /\ audio \in Audios /\ engine \in Engines /\ pc \in ResetPlaces
      /\ ~AwaitCallbacks => UNCHANGED callbacks
  BY DEF PInv, Typed, ResetAudio, AwaitCallbacks, Release, At, ResetPlaces
<1>1. load.rate \in Int BY <1>0 DEF PInv, PlacesInv
<1>2. (data = "reading" \/ focus # "none") /\ ~gaveUp => audio.player.made
  BY DEF PInv, CallbackSeesLivePlayer
<1>3. CASE ResetAudio
  <2>0. pc = "reset" /\ Armed(audio) /\ UNCHANGED callbacks
    BY <1>3, ArmedIs DEF ResetAudio, At, PInv
  <2>1. CASE audio.bridge.init /\ audio.bridge.rate # load.rate
    <3>1. PICK r \in ResetStops(audio) :
            IF r.ok THEN pc' = "cleanup" /\ audio' = r.a /\ UNCHANGED <<engine, load, refused>>
            ELSE Answered(r)
      BY <1>3, <2>1 DEF ResetAudio
    <3>2. /\ r.ok \in BOOLEAN /\ r.a \in Audios
          /\ r.a.player.made = audio.player.made /\ r.a.bridge = audio.bridge
          /\ ~r.ok => Armed(r.a)
          /\ r.ok => r.a.player.closing
      BY <1>0, ResetStopsIs
    <3>3. CASE r.ok
      <4>1. pc' = "cleanup" /\ audio' = r.a /\ UNCHANGED <<engine, load, refused>>
        BY <3>1, <3>3
      <4>2. engine.state \in {"LOADING", "RUNNING"} BY <1>0 DEF PInv, PlacesInv
      <4>3. Typed' /\ PlacesInv' /\ HeldInv' /\ RateInv'
        BY <1>0, <2>0, <3>2, <3>3, <4>1, <4>2
        DEF PInv, Typed, PlacesInv, HeldInv, RateInv, FramePlaces, ResetPlaces
      <4>4. ArmedWhenStarted' BY <4>1 DEF ArmedWhenStarted
      <4>5. CallbackSeesLivePlayer'
        BY <2>0, <1>2, <3>2, <4>1 DEF CallbackSeesLivePlayer, callbacks
      <4>. QED  BY <4>3, <4>4, <4>5 DEF PInv
    <3>4. CASE ~r.ok
      <4>1. Answered(r) BY <3>1, <3>4
      <4>. QED  BY <1>0, <1>2, <2>0, <3>2, <3>4, <4>1, AnsweredKeepsInv
    <3>. QED  BY <3>2, <3>3, <3>4
  <2>2. CASE audio.bridge.init /\ audio.bridge.rate = load.rate
    <3>1. PICK r : r = Result(TRUE, Rearmed(audio)) /\ Answered(r)
      BY <1>3, <2>2 DEF ResetAudio
    <3>2. r.ok = TRUE /\ r.a = Rearmed(audio) BY <3>1, ResultIs
    <3>3. Arms(audio, r.a) BY <1>0, <3>2, RearmedIs
    <3>4. /\ r.a \in Audios /\ r.a.player.made = audio.player.made
          /\ r.a.bridge.rate = load.rate /\ Armed(r.a)
      BY <2>0, <2>2, <3>3 DEF Arms
    <3>5. r.ok \in BOOLEAN BY <3>2
    <3>6. r.ok => r.a.bridge.rate = load.rate BY <3>4
    <3>7. (data = "reading" \/ focus # "none") /\ ~gaveUp => r.a.player.made
      BY <1>2, <3>4
    <3>8. r.a \in Audios /\ Armed(r.a) BY <3>4
    <3>9. Answered(r) BY <3>1
    <3>. HIDE <3>1
    <3>. QED  BY <1>0, <2>0, <3>5, <3>6, <3>7, <3>8, <3>9, AnsweredKeepsInv
  <2>3. CASE ~audio.bridge.init
    <3>1. PICK r \in Initialize(audio, load.rate) : Answered(r)
      BY <1>3, <2>3 DEF ResetAudio
    <3>2. /\ r.ok \in BOOLEAN /\ r.a \in Audios
          /\ r.ok => r.a.player.made /\ r.a.ring.running /\ r.a.bridge.rate = load.rate
          /\ ~r.ok => /\ r.a.player.made = audio.player.made
                      /\ r.a.bridge.init = audio.bridge.init
      BY <1>0, <1>1, InitializeIs
    <3>3. Armed(r.a) BY <2>3, <3>2 DEF Armed
    <3>. QED  BY <1>0, <1>2, <2>0, <3>1, <3>2, <3>3, AnsweredKeepsInv
  <2>. QED  BY <2>1, <2>2, <2>3
<1>4. CASE AwaitCallbacks
  <2>1. /\ pc = "cleanup" /\ pc' = "release" /\ gaveUp' = (gaveUp \/ ~CallbacksGone)
        /\ UNCHANGED <<audio, data, focus, engine, load, refused>>
    BY <1>4 DEF AwaitCallbacks, At, drive
  <2>2. CallbacksGone' <=> CallbacksGone BY <2>1 DEF CallbacksGone
  <2>3. PlacesInv'
    BY <2>1, <2>2 DEF PInv, PlacesInv, FramePlaces, ResetPlaces
  <2>4. Typed' /\ HeldInv' /\ RateInv'
    BY <2>1 DEF PInv, Typed, HeldInv, RateInv, ResetPlaces
  <2>5. ArmedWhenStarted' /\ CallbackSeesLivePlayer'
    BY <2>1 DEF PInv, ArmedWhenStarted, CallbackSeesLivePlayer
  <2>. QED  BY <2>3, <2>4, <2>5 DEF PInv
<1>5. CASE Release
  <2>0. pc = "release" /\ UNCHANGED callbacks BY <1>5 DEF Release, At
  <2>1. ~gaveUp => data # "reading" /\ focus = "none"
    BY <2>0 DEF PInv, PlacesInv, CallbacksGone
  <2>2. PICK r \in Initialize(Torn(audio), load.rate) : Answered(r)
    BY <1>5 DEF Release
  <2>3. Torn(audio) \in Audios /\ ~Torn(audio).bridge.init BY <1>0, TornIs
  <2>4. /\ r.ok \in BOOLEAN /\ r.a \in Audios
        /\ r.ok => r.a.player.made /\ r.a.ring.running /\ r.a.bridge.rate = load.rate
        /\ ~r.ok => r.a.bridge.init = Torn(audio).bridge.init
    BY <1>1, <2>3, InitializeIs
  <2>5. Armed(r.a) BY <2>3, <2>4 DEF Armed
  <2>. QED  BY <1>0, <2>0, <2>1, <2>2, <2>4, <2>5, AnsweredKeepsInv
<1>. QED  BY <1>3, <1>4, <1>5

\* Every step keeps the invariant.
LEMMA StepKeepsInv == ASSUME PInv, [Next]_vars PROVE PInv'
<1>1. CASE UNCHANGED vars
  BY <1>1 DEF PInv, Typed, PlacesInv, HeldInv, RateInv, ArmedWhenStarted,
     CallbackSeesLivePlayer, CallbacksGone, vars, drive, callbacks
<1>2. CASE Frame BY <1>2, FrameKeepsInv
<1>3. CASE Pause \/ Resume \/ StopRequested \/ Stopped BY <1>3, TransitionsKeepInv
<1>4. CASE ResetEngine \/ LoadCore BY <1>4, CoresKeepInv
<1>5. CASE LoadRom BY <1>5, LoadRomKeepsInv
<1>6. CASE ResetAudio \/ AwaitCallbacks \/ Release BY <1>6, ResetsKeepInv
<1>7. CASE Callbacks BY <1>7, CallbacksKeepInv
<1>. QED  BY <1>1, <1>2, <1>3, <1>4, <1>5, <1>6, <1>7 DEF Next, Drive

\* PInv is inductive, so it holds of every state the sound can be in.
THEOREM PlaybackInvariant == Spec => []PInv
<1>. QED  BY Beginning, StepKeepsInv, PTL DEF Spec

\* QuietWhenHeld: whatever the player refuses, and whatever focus callbacks do
\* in between, a paused game plays nothing, and a stopped one that does has
\* said so.
THEOREM HeldIsQuiet == Spec => []QuietWhenHeld
<1>1. PInv => QuietWhenHeld BY DEF PInv, HeldInv, QuietWhenHeld
<1>. QED  BY <1>1, PlaybackInvariant, PTL

\* ArmedWhenStarted: no chain of refused calls, failed starts and resets leaves
\* a bridge that is started with running_ off.
THEOREM StartedIsArmed == Spec => []ArmedWhenStarted
<1>1. PInv => ArmedWhenStarted BY DEF PInv
<1>. QED  BY <1>1, PlaybackInvariant, PTL

\* CallbackSeesLivePlayer: until a wait of Cleanup is given up, no Reset takes the
\* player away under a callback that is inside, and none comes in once the wait
\* is over.  Nothing is assumed of when, or whether, callbacks return.
THEOREM CallbackIsSafe == Spec => []CallbackSeesLivePlayer
<1>1. PInv => CallbackSeesLivePlayer BY DEF PInv
<1>. QED  BY <1>1, PlaybackInvariant, PTL

\* RateAgrees: the bridge plays at the rate the engine has, for all rates a load
\* or a core may ask for.
THEOREM RatesAgree == Spec => []RateAgrees
<1>1. PInv => RateAgrees BY DEF PInv, RateInv, RateAgrees, Idle, ResetPlaces
<1>. QED  BY <1>1, PlaybackInvariant, PTL
=============================================================================
