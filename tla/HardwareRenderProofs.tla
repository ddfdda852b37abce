------------------------ MODULE HardwareRenderProofs ------------------------
(***************************************************************************)
(* The video pipeline with its hardware renderers, for any sizes, any      *)
(* limits and any sequence of cores: the way back from a degraded mode is  *)
(* bounded, the window has the geometry of its mode, and one producer at a *)
(* time.                                                                   *)
(*                                                                         *)
(* None of the three is inductive but the first.  The geometry needs that  *)
(* the cache is what the window has, and that a hardware core, whose       *)
(* failed resize takes the geometry away, has no base size.  One producer  *)
(* needs that a surface of the GLES renderer is never forgotten: the       *)
(* recovery that starts the renderer afresh (RecoveredGles) only comes     *)
(* after a failed initialisation, which has given everything back.         *)
(***************************************************************************)
EXTENDS HardwareRender, FiniteSetTheorems, TLAPS

RenderStates == {"SW_READY", "GLES_READY", "HW_READY", "DEGRADED_TO_SW", "RECOVERING"}
Videos == [scaling : Modes, changed : BOOLEAN, state : RenderStates, from : Modes,
           failures : 0..FailureLimit, attempts : Int, streak : Int]

GlesStates == {"UNINITIALIZED", "READY", "SURFACE_LOST", "CONTEXT_LOST", "FATAL"}
Gleses == [state : GlesStates, surface : Int, init : Int]
Gpus == [has : SUBSET Created, healthy : BOOLEAN, texture : Int, cached : Int]

Geometries == {Unset} \cup ({"window", "scaled", "source"} \X Int)
Confs == [base : Int, mode : Modes, request : Geometries, retries : Int]
Windows == [bound : BOOLEAN, active : BOOLEAN, size : Int, geometry : Geometries]

Places == {"idle", "recover", "ensure", "config", "draw", "stuck"}
Renders == [pc : Places, mode : Modes, frame : Int]
Uis == [pc : {"idle", "flag", "state"}, mode : Modes]

Envs == [session : Sessions, core : Int, enabled : BOOLEAN, rebind : BOOLEAN]
Hws == [context : BOOLEAN, ready : BOOLEAN, target : {"none", "made", "stale"}, told : Int,
        vulkan : BOOLEAN, chain : {"none", "live", "gone"}, fence : BOOLEAN,
        window : {"none", "bound"}]

TypeInv ==
  /\ video \in Videos /\ gles \in Gleses /\ gpu \in Gpus
  /\ conf \in Confs /\ window \in Windows
  /\ render \in Renders /\ ui \in Uis
  /\ env \in Envs /\ hw \in Hws

\* The counters of a mode v, as RecoveryBounded has them.
Bounded(v) ==
  /\ v.attempts <= v.failures
  /\ v.attempts < AttemptLimit
  /\ v.state = "DEGRADED_TO_SW" /\ v.from # "SW"
       => v.attempts < v.failures /\ v.failures < FailureLimit

WindowInv ==
  /\ window.active => window.bound
  /\ cache = window.geometry
  /\ ~window.bound => conf.base = 0 /\ cache = Unset /\ render.pc = "idle"
  /\ conf.base # 0 \/ render.pc \notin {"idle", "stuck"} => Kind.api = "none"

\* Between the exchange of the flag and the configuration nothing is promised,
\* nor while the flag of a new mode is still to be set.
ConfigInv ==
  window.bound /\ conf.base # 0 /\ ~video.changed /\ ui.pc # "flag" /\ render.pc # "config"
    => window.geometry = Geometry(video.scaling, conf.base, window.size)

FromGles(v) == v.state = "DEGRADED_TO_SW" /\ v.from = "GLES"
SoftwareInv ==
  /\ "surface" \in gpu.has =>
       /\ gles.state # "UNINITIALIZED" /\ window.bound /\ Kind.api = "none"
       /\ picture # "cpu" /\ ~FromGles(video)
  /\ picture = "cpu" => window.bound /\ Kind.api = "none"

\* Whose renderer the hardware state h can be.
Renderers(h) ==
  /\ h.ready => h.context /\ env.enabled /\ Kind.api # "vulkan"
  /\ h.vulkan => env.enabled /\ Kind.api = "vulkan"
HardwareInv ==
  /\ env.enabled => Kind.api # "none"
  /\ Renderers(hw)
  /\ hw.ready \/ hw.vulkan => window.bound

VInv == /\ TypeInv /\ Bounded(video) /\ WindowInv /\ ConfigInv /\ SoftwareInv
        /\ HardwareInv

-----------------------------------------------------------------------------
\* The limits are numbers.
LEMMA Limits ==
  /\ InitLimit \in Int /\ SurfaceLimit \in Int /\ StreakLimit \in Int
  /\ FailureLimit \in Int /\ AttemptLimit \in Int /\ RetryLimit \in Int
  /\ 0 < FailureLimit /\ FailureLimit <= AttemptLimit
  /\ \A size \in FrameSizes \cup WindowSizes : size \in Int /\ size > 0
BY LimitAssumption

\* What a step may do to the mode without a configuration being lost: a new
\* scaling mode is software and marked.
Steady(v, w) ==
  /\ w \in Videos
  /\ Bounded(v) => Bounded(w)
  /\ w.scaling = v.scaling \/ (w.scaling = "SW" /\ w.changed)
  /\ v.changed => w.changed
  /\ FromGles(w) => FromGles(v)

\* Two steps in a row.
LEMMA SteadyTwice ==
  ASSUME NEW u, NEW v, NEW w, Steady(u, v), Steady(v, w) PROVE Steady(u, w)
BY DEF Steady

\* EnterDegradedMode: the counters keep their order, and a limit that is
\* reached ends the recoveries.
LEMMA DegradedIs ==
  ASSUME NEW v \in Videos, NEW source \in {"GLES", "HW"}
  PROVE  LET w == EnterDegradedMode(v, source) IN
         /\ w \in Videos /\ (Bounded(v) => Bounded(w))
         /\ w.scaling = v.scaling \/ (w.scaling = "SW" /\ w.changed)
         /\ v.changed => w.changed
         /\ w.from \in {"SW", source}
<1> DEFINE n == Capped(v.failures, FailureLimit)
           w == EnterDegradedMode(v, source)
<1>1. /\ v.failures \in 0..FailureLimit /\ v.attempts \in Int
      /\ v.scaling \in Modes /\ v.changed \in BOOLEAN
  BY DEF Videos
<1>2. n \in 0..FailureLimit /\ n >= v.failures /\ (n < FailureLimit => n = v.failures + 1)
  BY <1>1, Limits DEF Capped
<1>3. w = [v EXCEPT !.scaling = IF @ = source THEN "SW" ELSE @,
                    !.changed = @ \/ v.scaling = source,
                    !.failures = n,
                    !.from = IF n >= FailureLimit THEN "SW" ELSE source,
                    !.state = "DEGRADED_TO_SW"]
  BY DEF EnterDegradedMode
<1> HIDE DEF n, w
<1>4. /\ w \in Videos /\ w.failures = n /\ w.attempts = v.attempts
      /\ w.scaling = IF v.scaling = source THEN "SW" ELSE v.scaling
      /\ w.changed = (v.changed \/ v.scaling = source)
      /\ w.from = IF n >= FailureLimit THEN "SW" ELSE source
      /\ w.state = "DEGRADED_TO_SW"
  BY <1>2, <1>3 DEF Videos, Modes, RenderStates
<1>5. Bounded(v) => Bounded(w) BY <1>1, <1>2, <1>4, Limits DEF Bounded
<1>6. /\ w.scaling = v.scaling \/ (w.scaling = "SW" /\ w.changed)
      /\ v.changed => w.changed
      /\ w.from \in {"SW", source}
  BY <1>4
<1> QED BY <1>4, <1>5, <1>6 DEF w

\* A mode that keeps everything but its streak.
LEMMA StreakIsSteady ==
  ASSUME NEW v \in Videos, NEW streak \in Int
  PROVE  Steady(v, [v EXCEPT !.streak = streak])
BY DEF Videos, Steady, Bounded, FromGles

\* A mode that keeps everything but its state.
LEMMA Restated ==
  ASSUME NEW v \in Videos, NEW state \in RenderStates,
         state # "DEGRADED_TO_SW" \/ state = v.state
  PROVE  Steady(v, [v EXCEPT !.state = state])
BY DEF Videos, Steady, Bounded, FromGles

\* MarkHardwarePathFailure and MarkHardwarePathRecovered.
LEMMA MarkIsSteady == ASSUME NEW v \in Videos, NEW ok \in BOOLEAN PROVE Steady(v, Mark(v, ok))
<1>0. Steady(v, v) BY DEF Steady
<1>1. CASE ok
  <2>1. Mark(v, ok) \in {v, [v EXCEPT !.streak = 0, !.state = "HW_READY"]}
    BY <1>1 DEF Mark, MarkHardwarePathRecovered
  <2>2. Steady(v, [v EXCEPT !.streak = 0, !.state = "HW_READY"])
    <3> DEFINE w == [v EXCEPT !.streak = 0]
    <3>1. Steady(v, w) BY StreakIsSteady
    <3>2. [v EXCEPT !.streak = 0, !.state = "HW_READY"] = [w EXCEPT !.state = "HW_READY"]
      BY DEF Videos
    <3>3. w \in Videos BY <3>1 DEF Steady
    <3> HIDE DEF w
    <3>4. "HW_READY" \in RenderStates BY DEF RenderStates
    <3>5. Steady(w, [w EXCEPT !.state = "HW_READY"]) BY <3>3, <3>4, Restated
    <3> QED BY <3>1, <3>2, <3>5, SteadyTwice
  <2> QED BY <1>0, <2>1, <2>2
<1>2. CASE ~ok
  <2> DEFINE w == EnterDegradedMode(v, "HW")
  <2>1. \/ Mark(v, ok) = v
        \/ Mark(v, ok) = [v EXCEPT !.streak = @ + 1]
        \/ Mark(v, ok) = [w EXCEPT !.streak = 0]
    BY <1>2 DEF Mark, MarkHardwarePathFailure
  <2>2. Steady(v, [v EXCEPT !.streak = @ + 1])
    <3>1. v.streak + 1 \in Int BY DEF Videos
    <3> QED BY <3>1, StreakIsSteady
  <2>3. Steady(v, w)
    BY DegradedIs DEF Steady, FromGles
  <2> HIDE DEF w
  <2>4. w \in Videos BY <2>3 DEF Steady
  <2>5. Steady(w, [w EXCEPT !.streak = 0]) BY <2>4, StreakIsSteady
  <2>6. Steady(v, [w EXCEPT !.streak = 0]) BY <2>3, <2>5, SteadyTwice
  <2> QED BY <1>0, <2>1, <2>2, <2>6
<1> QED BY <1>1, <1>2

\* SetRenderModeState.
LEMMA StateIsSteady ==
  ASSUME TypeInv, NEW mode \in Modes PROVE Steady(video, SetRenderModeState(mode))
<1> DEFINE state == StateFor(video, mode)
<1>1. video \in Videos /\ video.state \in RenderStates BY DEF TypeInv, Videos
<1>2. Ready[mode] \in RenderStates /\ Ready[mode] # "DEGRADED_TO_SW"
  BY DEF Ready, Modes, RenderStates
<1>3. state \in RenderStates /\ (state # "DEGRADED_TO_SW" \/ state = video.state)
  BY <1>1, <1>2 DEF StateFor
<1> HIDE DEF state
<1>4. Steady(video, [video EXCEPT !.state = state]) BY <1>1, <1>3, Restated
<1> QED BY <1>4 DEF SetRenderModeState, state

\* The flag of a changed geometry.
LEMMA FlagIsSteady ==
  ASSUME NEW v \in Videos, NEW changed \in BOOLEAN, v.changed => changed
  PROVE  Steady(v, [v EXCEPT !.changed = changed])
BY DEF Videos, Steady, Bounded, FromGles

\* EnterReady: what was counted is forgotten.
LEMMA ReadyIsSteady ==
  ASSUME NEW v \in Videos
  PROVE  Steady(v, EnterReady(v)) /\ EnterReady(v).state = "GLES_READY"
<1> DEFINE a == [v EXCEPT !.failures = 0]
           b == [a EXCEPT !.attempts = 0]
<1>1. EnterReady(v) = [b EXCEPT !.state = "GLES_READY"] BY DEF EnterReady, Videos
<1>2. /\ a \in Videos /\ a.failures = 0 /\ a.scaling = v.scaling /\ a.changed = v.changed
  BY Limits DEF Videos
<1> HIDE DEF a
<1>3. /\ b \in Videos /\ b.failures = 0 /\ b.attempts = 0 /\ b.scaling = v.scaling
      /\ b.changed = v.changed
  BY <1>2 DEF Videos
<1> HIDE DEF b
<1>4. /\ EnterReady(v) \in Videos /\ EnterReady(v).state = "GLES_READY"
      /\ EnterReady(v).failures = 0 /\ EnterReady(v).attempts = 0
      /\ EnterReady(v).scaling = v.scaling /\ EnterReady(v).changed = v.changed
  BY <1>1, <1>3 DEF Videos, RenderStates
<1> QED BY <1>4, Limits DEF Steady, Bounded, FromGles

\* What a window that comes or goes leaves of the mode.
LEMMA RebindIs ==
  ASSUME TypeInv, NEW bind \in BOOLEAN
  PROVE  /\ AfterRebind(bind) \in Videos
         /\ Bounded(video) => Bounded(AfterRebind(bind))
         /\ AfterRebind(bind).scaling = video.scaling
         /\ FromGles(AfterRebind(bind)) => FromGles(video)
<1> DEFINE r == ResetMode(video)
           v == IF window.bound THEN r ELSE video
<1>0. video \in Videos BY DEF TypeInv
<1>1. /\ r \in Videos /\ r.attempts = 0 /\ r.failures = 0 /\ r.scaling = video.scaling
      /\ r.state # "DEGRADED_TO_SW"
  <2> DEFINE a == [video EXCEPT !.changed = FALSE, !.state = Ready[video.scaling]]
             b == [a EXCEPT !.from = "SW"]
             c == [b EXCEPT !.failures = 0]
             d == [c EXCEPT !.attempts = 0]
  <2>1. Ready[video.scaling] \in {"SW_READY", "GLES_READY", "HW_READY"}
    BY <1>0 DEF Videos, Modes, Ready
  <2>2. a \in Videos /\ a.scaling = video.scaling /\ a.state # "DEGRADED_TO_SW"
    BY <1>0, <2>1 DEF Videos, RenderStates
  <2>3. r = [d EXCEPT !.streak = 0] BY <1>0 DEF ResetMode, Videos
  <2> HIDE DEF a, r
  <2>4. b \in Videos /\ b.scaling = a.scaling /\ b.state = a.state
    BY <2>2 DEF Videos, Modes
  <2> HIDE DEF b
  <2>5. c \in Videos /\ c.scaling = b.scaling /\ c.state = b.state /\ c.failures = 0
    BY <2>4, Limits DEF Videos
  <2> HIDE DEF c
  <2>6. /\ d \in Videos /\ d.scaling = c.scaling /\ d.state = c.state /\ d.failures = 0
        /\ d.attempts = 0
    BY <2>5 DEF Videos
  <2> HIDE DEF d
  <2>7. /\ r \in Videos /\ r.scaling = d.scaling /\ r.state = d.state /\ r.failures = 0
        /\ r.attempts = 0
    BY <2>3, <2>6 DEF Videos
  <2> QED BY <2>2, <2>4, <2>5, <2>6, <2>7
<1> HIDE DEF r
<1>2. /\ v \in Videos /\ v.scaling = video.scaling
      /\ Bounded(video) => Bounded(v)
      /\ FromGles(v) => FromGles(video)
  BY <1>0, <1>1, Limits DEF Bounded, FromGles
<1>3. AfterRebind(bind) = [v EXCEPT !.changed = bind] BY DEF AfterRebind, r
<1> HIDE DEF v
<1>4. /\ AfterRebind(bind) \in Videos /\ AfterRebind(bind).scaling = v.scaling
      /\ AfterRebind(bind).state = v.state /\ AfterRebind(bind).from = v.from
      /\ AfterRebind(bind).attempts = v.attempts /\ AfterRebind(bind).failures = v.failures
  BY <1>2, <1>3 DEF Videos
<1> QED BY <1>2, <1>4 DEF Bounded, FromGles

-----------------------------------------------------------------------------
\* The hardware state.

\* What the destructions leave: nothing that is ready, if it was this core's.
LEMMA DestroyIs ==
  ASSUME NEW h \in Hws, Renderers(h)
  PROVE  LET d == DestroyHardwareRenderer(h)
             o == OnHardwareWindowDestroyed(h)
         IN  /\ d \in Hws /\ ~d.ready /\ ~d.vulkan
             /\ o \in Hws /\ ~o.ready /\ ~o.vulkan
<1>1. /\ DestroyHardwareRenderer(h) \in Hws /\ ~DestroyHardwareRenderer(h).ready
      /\ ~DestroyHardwareRenderer(h).vulkan
  <2>1. CASE Api = "vulkan"
    <3> DEFINE a == [h EXCEPT !.vulkan = FALSE]
               b == [a EXCEPT !.chain = "none"]
               c == [b EXCEPT !.fence = TRUE]
    <3>1. DestroyHardwareRenderer(h) = [c EXCEPT !.window = "none"]
      BY <2>1 DEF DestroyHardwareRenderer, Hws
    <3>2. ~h.ready BY <2>1 DEF Renderers, Api
    <3>3. a \in Hws /\ ~a.vulkan /\ ~a.ready BY <3>2 DEF Hws
    <3> HIDE DEF a
    <3>4. b \in Hws /\ ~b.vulkan /\ ~b.ready BY <3>3 DEF Hws
    <3> HIDE DEF b
    <3>5. c \in Hws /\ ~c.vulkan /\ ~c.ready BY <3>4 DEF Hws
    <3> HIDE DEF c
    <3> QED BY <3>1, <3>5 DEF Hws
  <2>2. CASE Api # "vulkan" /\ h.context
    <3> DEFINE a == [h EXCEPT !.context = FALSE]
               b == [a EXCEPT !.ready = FALSE]
               c == [b EXCEPT !.target = "none"]
               d == [c EXCEPT !.told = 0]
    <3>1. DestroyHardwareRenderer(h) = [d EXCEPT !.window = "none"]
      BY <2>2 DEF DestroyHardwareRenderer, Hws
    <3>2. ~h.vulkan BY <2>2 DEF Renderers, Api
    <3>3. a \in Hws /\ ~a.vulkan BY <3>2 DEF Hws
    <3> HIDE DEF a
    <3>4. b \in Hws /\ ~b.vulkan /\ ~b.ready BY <3>3 DEF Hws
    <3> HIDE DEF b
    <3>5. c \in Hws /\ ~c.vulkan /\ ~c.ready BY <3>4 DEF Hws
    <3> HIDE DEF c
    <3>6. d \in Hws /\ ~d.vulkan /\ ~d.ready BY <3>5 DEF Hws
    <3> HIDE DEF d
    <3> QED BY <3>1, <3>6 DEF Hws
  <2>3. CASE Api # "vulkan" /\ ~h.context
    <3>1. DestroyHardwareRenderer(h) = [h EXCEPT !.window = "none"]
      BY <2>3 DEF DestroyHardwareRenderer
    <3>2. ~h.vulkan /\ ~h.ready BY <2>3 DEF Renderers, Api
    <3> QED BY <3>1, <3>2 DEF Hws
  <2> QED BY <2>1, <2>2, <2>3
<1>2. CASE OnHardwareWindowDestroyed(h) = DestroyHardwareRenderer(h) BY <1>1, <1>2
<1>3. CASE /\ Api # "vulkan"
           /\ OnHardwareWindowDestroyed(h) = [h EXCEPT !.ready = FALSE, !.window = "none"]
  <2>1. ~h.vulkan BY <1>3 DEF Renderers, Api
  <2>2. /\ [h EXCEPT !.ready = FALSE, !.window = "none"] \in Hws
        /\ ~[h EXCEPT !.ready = FALSE, !.window = "none"].ready
        /\ [h EXCEPT !.ready = FALSE, !.window = "none"].vulkan = h.vulkan
    BY DEF Hws
  <2> QED BY <1>1, <1>3, <2>1, <2>2
<1> QED BY <1>2, <1>3 DEF OnHardwareWindowDestroyed

\* The render target touches nothing else.
LEMMA TargetIs ==
  ASSUME NEW h \in Hws, NEW t \in EnsureTarget(h)
  PROVE  /\ t \in Hws /\ t.context = h.context /\ t.ready = h.ready /\ t.vulkan = h.vulkan
<1>1. PICK target \in {"none", "made", "stale"} : t = [h EXCEPT !.target = target]
  BY DEF EnsureTarget, CreateRenderTarget
<1> QED BY <1>1 DEF Hws

\* A new swapchain touches nothing else, and so do a fence and a submission.
LEMMA ChainIs ==
  ASSUME NEW h \in Hws
  PROVE  /\ \A t \in {WithChain(h), [h EXCEPT !.chain = "gone"]} :
              /\ t \in Hws /\ t.context = h.context /\ t.ready = h.ready
              /\ t.vulkan = h.vulkan
         /\ \A t \in Submit(h) \cup {[h EXCEPT !.fence = FALSE]} :
              /\ t \in Hws /\ t.context = h.context /\ t.ready = h.ready
              /\ t.vulkan = h.vulkan
<1>1. \A t \in {WithChain(h), [h EXCEPT !.chain = "gone"]} :
              /\ t \in Hws /\ t.context = h.context /\ t.ready = h.ready
              /\ t.vulkan = h.vulkan
  BY DEF WithChain, Hws
<1>2. ASSUME NEW done \in BOOLEAN
      PROVE  LET t == [h EXCEPT !.fence = done] IN
             /\ t \in Hws /\ t.context = h.context /\ t.ready = h.ready
             /\ t.vulkan = h.vulkan
  BY DEF Hws
<1>3. \A t \in Submit(h) \cup {[h EXCEPT !.fence = FALSE]} :
         \E done \in BOOLEAN : t = [h EXCEPT !.fence = done]
  BY DEF Submit
<1> QED BY <1>1, <1>2, <1>3

\* InitializeHardwareRenderer, for a core that has asked for it: what it makes
\* is the core's, and what fails leaves nothing ready.
LEMMA InitializeIs ==
  ASSUME TypeInv, env.enabled, NEW h \in Hws, ~h.ready, ~h.vulkan,
         NEW outcome \in InitializeHardwareRenderer(h)
  PROVE  \A t \in outcome.failed \cup outcome.made : t \in Hws /\ Renderers(t)
<1>0. env.core \in Int /\ Renderers(h) BY DEF TypeInv, Envs, Renderers
<1>1. CASE Api = "vulkan"
  <2>1. Kind.api = "vulkan" BY <1>1 DEF Api
  <2> DEFINE c == WithChain(h)
             d == [c EXCEPT !.vulkan = TRUE]
             e == [d EXCEPT !.fence = TRUE]
             f == [e EXCEPT !.window = "bound"]
             g == [f EXCEPT !.told = env.core]
             t0 == [WithChain(h) EXCEPT !.vulkan = TRUE, !.fence = TRUE,
                                        !.window = "bound", !.told = env.core]
  <2>2. c \in Hws /\ ~c.ready /\ ~c.vulkan BY ChainIs
  <2>3. t0 = g BY <2>2 DEF Hws
  <2>a. outcome.failed = {DestroyHardwareRenderer(h)} /\ outcome.made = {t0}
    BY <1>1 DEF InitializeHardwareRenderer, InitializeVulkan, VulkanFailures
  <2> HIDE DEF c, t0
  <2>4. d \in Hws /\ ~d.ready BY <2>2 DEF Hws
  <2> HIDE DEF d
  <2>5. e \in Hws /\ ~e.ready BY <2>4 DEF Hws
  <2> HIDE DEF e
  <2>6. f \in Hws /\ ~f.ready BY <2>5 DEF Hws
  <2> HIDE DEF f
  <2>7. g \in Hws /\ ~g.ready BY <1>0, <2>6 DEF Hws
  <2> HIDE DEF g
  <2>8. Renderers(t0) BY <2>1, <2>3, <2>7 DEF Renderers
  <2>9. DestroyHardwareRenderer(h) \in Hws /\ Renderers(DestroyHardwareRenderer(h))
    BY <1>0, DestroyIs DEF Renderers
  <2> QED BY <2>3, <2>7, <2>8, <2>9, <2>a
<1>2. CASE Api # "vulkan"
  <2>1. Kind.api # "vulkan" BY <1>2 DEF Api
  <2>2. PICK compatible \in BOOLEAN : outcome = InitializeEgl(h, compatible)
    BY <1>2 DEF InitializeHardwareRenderer
  <2> DEFINE kept == Kept(h, compatible)
             ready == GraphicsReady(kept)
             told == Told(kept, ready)
  <2>3. outcome.failed = {LoseContext(kept)} /\ outcome.made = EnsureTarget(told)
    BY <2>2 DEF InitializeEgl
  <2>4. kept \in Hws /\ ~kept.ready /\ ~kept.vulkan
    BY <1>0, DestroyIs DEF Kept
  <2> HIDE DEF kept
  <2>5. ready \in Hws /\ ready.context /\ ready.ready /\ ~ready.vulkan
    <3> DEFINE a == [kept EXCEPT !.context = TRUE]
               b == [a EXCEPT !.ready = TRUE]
    <3>1. ready = [b EXCEPT !.window = "bound"] BY <2>4 DEF GraphicsReady, Hws
    <3>2. a \in Hws /\ a.context /\ ~a.vulkan BY <2>4 DEF Hws
    <3> HIDE DEF a, ready
    <3>3. b \in Hws /\ b.context /\ b.ready /\ ~b.vulkan BY <3>2 DEF Hws
    <3> HIDE DEF b
    <3> QED BY <3>1, <3>3 DEF Hws
  <2> HIDE DEF ready
  <2>6. told \in Hws /\ told.context /\ told.ready /\ ~told.vulkan
    <3>1. told = [ready EXCEPT !.told = IF kept.context THEN @ ELSE env.core] BY DEF Told
    <3> HIDE DEF told
    <3> QED BY <1>0, <2>5, <3>1 DEF Hws
  <2> HIDE DEF told
  <2>7. \A t \in outcome.made : t \in Hws /\ Renderers(t)
    BY <2>1, <2>3, <2>6, TargetIs DEF Renderers
  <2>8. LoseContext(kept) \in Hws /\ Renderers(LoseContext(kept))
    <3> DEFINE a == [kept EXCEPT !.context = FALSE]
               b == [a EXCEPT !.ready = FALSE]
               c == [b EXCEPT !.told = 0]
    <3>1. LoseContext(kept) = [c EXCEPT !.target = IF @ = "none" THEN @ ELSE "stale"]
      BY <2>4 DEF LoseContext, Hws
    <3>2. a \in Hws /\ ~a.vulkan BY <2>4 DEF Hws
    <3> HIDE DEF a
    <3>3. b \in Hws /\ ~b.ready /\ ~b.vulkan BY <3>2 DEF Hws
    <3> HIDE DEF b
    <3>4. c \in Hws /\ ~c.ready /\ ~c.vulkan BY <3>3 DEF Hws
    <3> HIDE DEF c
    <3>5. LoseContext(kept) \in Hws /\ ~LoseContext(kept).ready /\ ~LoseContext(kept).vulkan
      BY <3>1, <3>4 DEF Hws
    <3> QED BY <3>5 DEF Renderers
  <2> QED BY <2>3, <2>7, <2>8
<1> QED BY <1>1, <1>2


-----------------------------------------------------------------------------
(***************************************************************************)
(* The steps.  Along with the invariant each keeps KeptSoftware: once the  *)
(* limit of degradations is reached, software stays.                       *)
(***************************************************************************)
KeptSoftware ==
  video.scaling = "SW" /\ video.failures >= FailureLimit
    => video'.scaling = "SW" \/ ui' # ui

\* A step of the mode that does not lose a configuration.
Marks(v, w) ==
  /\ w \in Videos /\ Bounded(w)
  /\ w.scaling = v.scaling \/ w.changed
  /\ v.changed => w.changed

\* A steady step is one.
LEMMA SteadyMarks ==
  ASSUME VInv, Steady(video, video')
  PROVE  Marks(video, video') /\ KeptSoftware /\ (FromGles(video') => FromGles(video))
BY DEF VInv, Steady, Marks, KeptSoftware

\* One that changes nothing is.
LEMMA SameIsSteady == ASSUME VInv, UNCHANGED video PROVE Steady(video, video')
BY DEF VInv, TypeInv, Steady

\* The core goes on.
LEMMA SameKind == ASSUME UNCHANGED env PROVE Kind' = Kind /\ Api' = Api
BY DEF Kind, Api

\* What the hardware state is to the same core.
LEMMA HardwareStays ==
  ASSUME VInv, Kind' = Kind, env'.enabled = env.enabled, window'.bound = window.bound,
         hw'.context = hw.context, hw'.ready = hw.ready, hw'.vulkan = hw.vulkan
  PROVE  HardwareInv'
BY DEF VInv, HardwareInv, Renderers

\* A configured window stays so, or is marked.
LEMMA ConfigStays ==
  ASSUME VInv, Marks(video, video'), UNCHANGED <<conf, window>>,
         render'.pc # "config" => render.pc # "config",
         ui'.pc # "flag" => ui.pc # "flag" \/ video'.changed
  PROVE  ConfigInv'
<1>1. CASE video'.changed BY <1>1 DEF ConfigInv
<1>2. CASE ~video'.changed BY <1>2 DEF VInv, ConfigInv, Marks
<1> QED BY <1>1, <1>2

\* A step of a frame, after its configuration.
LEMMA FrameStep ==
  ASSUME VInv, UNCHANGED <<configVars, hwVars, ui>>, Marks(video, video'),
         render.pc \in {"recover", "draw"}, render' \in Renders,
         render'.pc \in {"idle", "ensure"},
         gles' \in Gleses, gpu' \in Gpus,
         "surface" \in gpu'.has => /\ gles'.state # "UNINITIALIZED" /\ picture' # "cpu"
                                   /\ ~FromGles(video')
  PROVE  VInv'
<1>0. Kind' = Kind /\ Kind.api = "none" /\ window.bound /\ UNCHANGED <<conf, cache, window, env, hw>>
  BY SameKind DEF VInv, WindowInv, configVars, hwVars
<1>1. TypeInv' BY <1>0 DEF VInv, TypeInv, Marks
<1>2. WindowInv' BY <1>0 DEF VInv, WindowInv
<1>3. ConfigInv' BY <1>0, ConfigStays
<1>4. SoftwareInv' BY <1>0 DEF SoftwareInv
<1>5. HardwareInv' BY <1>0, HardwareStays
<1> QED BY <1>1, <1>2, <1>3, <1>4, <1>5 DEF VInv, Marks

\* Where a frame goes.
LEMMA PlacesOfFrame ==
  ASSUME VInv
  PROVE  /\ NoFrame \in Renders
         /\ \A pc \in Places, mode \in Modes :
              /\ [render EXCEPT !.pc = pc] \in Renders
              /\ [render EXCEPT !.mode = mode, !.pc = pc] \in Renders
<1>1. NoFrame \in Renders BY DEF NoFrame, Renders, Places, Modes
<1>2. render \in Renders BY DEF VInv, TypeInv
<1>3. ASSUME NEW r \in Renders, NEW pc \in Places PROVE [r EXCEPT !.pc = pc] \in Renders
  BY DEF Renders
<1>4. ASSUME NEW mode \in Modes, NEW pc \in Places
      PROVE  [render EXCEPT !.mode = mode, !.pc = pc] \in Renders
  BY <1>2 DEF Renders
<1> QED BY <1>1, <1>2, <1>3, <1>4

\* BeginFrame and MaybeRecoverDegradedMode.
LEMMA BeginsKeepInv ==
  ASSUME VInv, SoftwareFrame \/ MaybeRecoverDegradedMode, UNCHANGED hwVars
  PROVE  VInv' /\ KeptSoftware
<1>0. video \in Videos /\ gles \in Gleses /\ gpu \in Gpus /\ Steady(video, video)
      /\ Bounded(video)
  BY DEF VInv, TypeInv, Steady
<1>1. CASE SoftwareFrame
  <2>1. PICK size \in FrameSizes : BeginFrame(size) /\ Kind.api = "none"
    BY <1>1 DEF SoftwareFrame
  <2>2. /\ window.bound /\ render.pc = "idle" /\ render' = [pc |-> "recover", mode |-> video.scaling, frame |-> size]
        /\ UNCHANGED <<video, conf, cache, window, gles, gpu, picture, ui, env, hw>>
    BY <2>1 DEF BeginFrame, configVars, glesVars, hwVars
  <2>3. render' \in Renders /\ render'.pc = "recover"
    BY <1>0, <2>2, Limits DEF Renders, Videos, Places
  <2>4. Kind' = Kind BY <2>2, SameKind
  <2>5. TypeInv' BY <2>2, <2>3 DEF VInv, TypeInv
  <2>6. WindowInv' BY <2>1, <2>2, <2>3, <2>4 DEF VInv, WindowInv
  <2>7. ConfigInv' BY <1>0, <2>2, <2>3 DEF VInv, ConfigInv
  <2>8. SoftwareInv' /\ HardwareInv'
    BY <2>2, <2>4 DEF VInv, SoftwareInv, HardwareInv, Renderers
  <2> QED BY <2>2, <2>5, <2>6, <2>7, <2>8 DEF VInv, KeptSoftware
<1>2. CASE MaybeRecoverDegradedMode
  <2>1. /\ render.pc = "recover" /\ UNCHANGED <<configVars, gpu, ui>>
        /\ \/ /\ Recoverable /\ gles' = RecoveredGles /\ AfterPreflight(video.from)
              /\ video' = [video EXCEPT !.attempts = @ + 1, !.scaling = video.from,
                                        !.changed = TRUE, !.state = "RECOVERING"]
           \/ AfterPreflight(render.mode) /\ UNCHANGED <<video, gles>>
    BY <1>2 DEF MaybeRecoverDegradedMode
  <2>2. ASSUME NEW mode \in Modes, AfterPreflight(mode)
        PROVE  /\ render' \in Renders /\ render'.pc \in {"idle", "ensure"}
               /\ picture' = "cpu" => picture = "cpu"
    <3>1. CASE Dropped
      <4>1. render' = NoFrame /\ picture' = "none" BY <3>1 DEF Dropped, Drawn
      <4> QED BY <4>1, PlacesOfFrame DEF NoFrame
    <3>2. CASE /\ render' = [render EXCEPT !.mode = mode, !.pc = "ensure"]
               /\ UNCHANGED picture
      BY <3>2, PlacesOfFrame DEF VInv, TypeInv, Renders, Places
    <3> QED BY <2>2, <3>1, <3>2 DEF AfterPreflight
  <2>3. CASE AfterPreflight(render.mode) /\ UNCHANGED <<video, gles>>
    <3>1. Marks(video, video') /\ KeptSoftware
      BY <1>0, <2>3, SteadyMarks
    <3>2. render.mode \in Modes BY DEF VInv, TypeInv, Renders
    <3>3. render' \in Renders /\ render'.pc \in {"idle", "ensure"}
          /\ (picture' = "cpu" => picture = "cpu")
      BY <2>2, <2>3, <3>2
    <3>4. UNCHANGED gpu /\ "surface" \in gpu.has =>
             gles.state # "UNINITIALIZED" /\ picture # "cpu" /\ ~FromGles(video)
      BY DEF VInv, SoftwareInv
    <3> QED BY <1>0, <2>1, <2>3, <3>1, <3>3, <3>4, FrameStep
  <2>4. CASE /\ Recoverable /\ gles' = RecoveredGles /\ AfterPreflight(video.from)
             /\ video' = [video EXCEPT !.attempts = @ + 1, !.scaling = video.from,
                                       !.changed = TRUE, !.state = "RECOVERING"]
    <3>1. /\ video.state = "DEGRADED_TO_SW" /\ video.from # "SW"
          /\ video.attempts < video.failures /\ video.failures < FailureLimit
      BY <2>4 DEF Recoverable, VInv, Bounded
    <3>2. video.attempts \in Int /\ video.failures \in Int /\ video.from \in Modes
      BY <1>0 DEF Videos
    <3> DEFINE a == [video EXCEPT !.attempts = video.attempts + 1]
               b == [a EXCEPT !.scaling = video.from]
               c == [b EXCEPT !.changed = TRUE]
    <3>3. video' = [c EXCEPT !.state = "RECOVERING"] BY <1>0, <2>4 DEF Videos
    <3>4. a \in Videos /\ a.attempts = video.attempts + 1 /\ a.failures = video.failures
      BY <1>0, <3>2 DEF Videos
    <3> HIDE DEF a
    <3>5. b \in Videos /\ b.attempts = a.attempts /\ b.failures = a.failures
      BY <3>2, <3>4 DEF Videos
    <3> HIDE DEF b
    <3>6. c \in Videos /\ c.attempts = b.attempts /\ c.failures = b.failures /\ c.changed
      BY <3>5 DEF Videos
    <3> HIDE DEF c
    <3>7. /\ video' \in Videos /\ video'.attempts = c.attempts /\ video'.failures = c.failures
          /\ video'.changed /\ video'.state = "RECOVERING"
      BY <3>3, <3>6 DEF Videos, RenderStates
    <3>8. Bounded(video')
      BY <3>1, <3>2, <3>4, <3>5, <3>6, <3>7, Limits DEF Bounded
    <3>9. Marks(video, video') /\ KeptSoftware
      BY <3>1, <3>2, <3>7, <3>8, Limits DEF Marks, KeptSoftware
    <3>10. render' \in Renders /\ render'.pc \in {"idle", "ensure"}
           /\ (picture' = "cpu" => picture = "cpu")
      BY <2>2, <2>4, <3>2
    <3>11. gles' \in Gleses /\ (video.from # "GLES" => gles' = gles)
      BY <1>0, <2>4 DEF RecoveredGles, Gleses, GlesStates
    <3>12. "surface" \in gpu.has => gles' = gles
      BY <3>1, <3>11 DEF VInv, SoftwareInv, FromGles
    <3>13. ~FromGles(video') BY <3>7 DEF FromGles
    <3>14. UNCHANGED gpu /\ ("surface" \in gpu.has => gles.state # "UNINITIALIZED" /\ picture # "cpu")
      BY <2>1 DEF VInv, SoftwareInv
    <3> QED BY <1>0, <2>1, <3>9, <3>10, <3>11, <3>12, <3>13, <3>14, FrameStep
  <2> QED BY <2>1, <2>3, <2>4
<1> QED BY <1>1, <1>2

\* NeedConfigUpdate: a flag that is taken leads to the configuration.
LEMMA NeedConfigKeepsInv ==
  ASSUME VInv, NeedConfigUpdate, UNCHANGED hwVars PROVE VInv' /\ KeptSoftware
<1>0. video \in Videos /\ Bounded(video) BY DEF VInv, TypeInv
<1> DEFINE changed == video.changed /\ conf.base # render.frame
           pc == IF conf.base # render.frame \/ video.changed THEN "config" ELSE "draw"
<1>1. /\ render.pc = "ensure" /\ video' = [video EXCEPT !.changed = changed]
      /\ render' = [render EXCEPT !.pc = pc]
      /\ UNCHANGED <<conf, cache, window, gles, gpu, picture, ui, env, hw>>
  BY DEF NeedConfigUpdate, Goto, configVars, glesVars, hwVars
<1>2. /\ changed \in BOOLEAN /\ pc \in {"config", "draw"}
      /\ pc = "draw" => ~video.changed
  OBVIOUS
<1>3. ~changed => pc = "config" \/ ~video.changed
  OBVIOUS
<1> HIDE DEF changed, pc
<1>4. /\ video' \in Videos /\ Bounded(video') /\ video'.scaling = video.scaling
      /\ video'.state = video.state /\ video'.from = video.from /\ video'.changed = changed
  BY <1>0, <1>1, <1>2 DEF Videos, Bounded
<1>5. render' \in Renders /\ render'.pc = pc
  BY <1>1, <1>2 DEF VInv, TypeInv, Renders, Places
<1>6. Kind' = Kind BY <1>1, SameKind
<1>7. TypeInv' BY <1>1, <1>4, <1>5 DEF VInv, TypeInv
<1>8. WindowInv' BY <1>1, <1>2, <1>5, <1>6 DEF VInv, WindowInv
<1>9. ConfigInv' BY <1>1, <1>2, <1>4, <1>5 DEF VInv, ConfigInv
<1>10. SoftwareInv' /\ HardwareInv'
  BY <1>1, <1>4, <1>6 DEF VInv, SoftwareInv, HardwareInv, Renderers, FromGles
<1> QED BY <1>4, <1>7, <1>8, <1>9, <1>10 DEF VInv, KeptSoftware

\* What a window is asked for.
LEMMA GeometryIs ==
  ASSUME NEW mode \in Modes, NEW frame \in Int, NEW win \in Int
  PROVE  Geometry(mode, frame, win) \in Geometries
<1>1. CASE mode = "GLES" BY <1>1 DEF Geometry, Geometries
<1>2. CASE mode = "SW" BY <1>2 DEF Geometry, Geometries
<1>3. CASE mode = "HW" BY <1>3 DEF Geometry, Geometries
<1> QED BY <1>1, <1>2, <1>3 DEF Modes

\* EnsureWindowConfigured: what the window takes is the geometry of the mode
\* it loads, and a refusal sets the flag again.
LEMMA EnsureKeepsInv ==
  ASSUME VInv, EnsureWindowConfigured, UNCHANGED hwVars PROVE VInv' /\ KeptSoftware
<1> DEFINE want == Geometry(video.scaling, render.frame, window.size)
<1>0. /\ video \in Videos /\ Bounded(video) /\ conf \in Confs /\ window \in Windows
      /\ render \in Renders /\ cache = window.geometry
  BY DEF VInv, TypeInv, WindowInv
<1>1. /\ render.pc = "config" /\ render' = [render EXCEPT !.pc = "draw"]
      /\ UNCHANGED <<gles, gpu, picture, ui, env, hw>>
  BY DEF EnsureWindowConfigured, Goto, glesVars, hwVars
<1>2. want \in Geometries BY <1>0, GeometryIs DEF Videos, Renders, Windows
<1>3. \/ /\ video' = [video EXCEPT !.changed = TRUE] /\ UNCHANGED <<conf, cache, window>>
      \/ \E ok \in BOOLEAN :
           /\ Apply(want, Usage(video.scaling), ok)
           /\ video' = [video EXCEPT !.changed = @ \/ ~ok]
           /\ \E retries \in {0, conf.retries, conf.retries + 1, 1} :
                conf' = [base |-> render.frame, mode |-> video.scaling,
                         request |-> IF ok THEN want ELSE conf.request,
                         retries |-> retries]
  BY <1>0 DEF EnsureWindowConfigured, configVars, Confs
<1>4. render' \in Renders /\ render'.pc = "draw" BY <1>0, <1>1 DEF Renders, Places
<1>5. Kind' = Kind /\ Kind.api = "none" /\ window.bound
  BY <1>1, SameKind DEF VInv, WindowInv
<1>6. ASSUME Steady(video, video'), window' \in Windows, conf' \in Confs, cache' = window'.geometry,
             window'.bound = window.bound, window'.active = window.active, ConfigInv'
      PROVE  VInv' /\ KeptSoftware
  <2>1. Marks(video, video') /\ KeptSoftware /\ (FromGles(video') => FromGles(video))
    BY <1>6, SteadyMarks
  <2>2. TypeInv' BY <1>1, <1>4, <1>6, <2>1 DEF VInv, TypeInv, Marks
  <2>3. WindowInv' BY <1>1, <1>4, <1>5, <1>6 DEF VInv, WindowInv
  <2>4. SoftwareInv' /\ HardwareInv'
    BY <1>1, <1>5, <1>6, <2>1 DEF VInv, SoftwareInv, HardwareInv, Renderers
  <2> QED BY <1>6, <2>1, <2>2, <2>3, <2>4 DEF VInv, Marks
<1>7. CASE video' = [video EXCEPT !.changed = TRUE] /\ UNCHANGED <<conf, cache, window>>
  <2>1. Steady(video, video') BY <1>0, <1>7, FlagIsSteady
  <2>2. video'.changed BY <1>0, <1>7 DEF Videos
  <2> QED BY <1>0, <1>6, <1>7, <2>1, <2>2 DEF ConfigInv
<1>8. ASSUME NEW ok \in BOOLEAN, NEW retries \in Int,
             Apply(want, Usage(video.scaling), ok), video' = [video EXCEPT !.changed = @ \/ ~ok],
             conf' = [base |-> render.frame, mode |-> video.scaling,
                      request |-> IF ok THEN want ELSE conf.request, retries |-> retries]
      PROVE  VInv' /\ KeptSoftware
  <2>1. Steady(video, video')
    <3>1. (video.changed \/ ~ok) \in BOOLEAN OBVIOUS
    <3> QED BY <1>0, <1>8, <3>1, FlagIsSteady
  <2>2. video'.scaling = video.scaling /\ (~video'.changed => ok)
    BY <1>0, <1>8 DEF Videos
  <2> HIDE DEF want
  <2>3. \/ ok /\ cache = want /\ UNCHANGED <<cache, window>>
        \/ ok /\ cache' = want /\ window' = [window EXCEPT !.geometry = want]
        \/ ~ok /\ UNCHANGED <<cache, window>>
    BY <1>8 DEF Apply
  <2>4. /\ window' \in Windows /\ cache' = window'.geometry /\ window'.size = window.size
        /\ window'.bound = window.bound /\ window'.active = window.active
        /\ ok => window'.geometry = want
    BY <1>0, <1>2, <2>3 DEF Windows
  <2>5. conf' \in Confs /\ conf'.base = render.frame
    BY <1>0, <1>2, <1>8 DEF Confs, Videos, Renders
  <2>6. ConfigInv'
    BY <2>2, <2>4, <2>5 DEF ConfigInv, want
  <2> QED BY <1>6, <2>1, <2>4, <2>5, <2>6
<1>9. conf.retries \in Int /\ conf.retries + 1 \in Int BY <1>0 DEF Confs
<1> HIDE DEF want
<1> QED BY <1>3, <1>7, <1>8, <1>9


\* A frame through the GLES renderer: a surface is there only while the
\* renderer is known to be initialised, and never after a fall to software.
LEMMA GlesKeepsInv ==
  ASSUME VInv, GlesWaits \/ GlesFails \/ GlesDraws \/ GlesSwapFails, UNCHANGED hwVars
  PROVE  VInv' /\ KeptSoftware
<1>0. /\ video \in Videos /\ gles \in Gleses /\ gpu \in Gpus /\ Steady(video, video)
      /\ NoFrame \in Renders /\ NoFrame.pc = "idle" /\ render.frame \in Int
      /\ NoGpu \in Gpus /\ NoGpu.has = {} /\ NoGles \in Gleses
  <2>1. NoGpu \in Gpus /\ NoGpu.has = {} BY DEF NoGpu, Gpus
  <2>2. NoGles \in Gleses BY DEF NoGles, Gleses, GlesStates
  <2> QED BY <2>1, <2>2, PlacesOfFrame DEF VInv, TypeInv, Steady, NoFrame, Renders
<1>1. /\ render.pc = "draw" /\ UNCHANGED <<configVars, ui>>
      /\ render' = NoFrame /\ picture' \in {"none", "gles"}
  BY DEF GlesWaits, GlesFails, GlesRecreateFails, GlesInitFails, GlesDraws, GlesSwapFails,
     GlesFrame, AtDraw, Dropped, Drawn
<1>2. ASSUME Marks(video, video'), gles' \in Gleses, gpu' \in Gpus,
             "surface" \in gpu'.has => gles'.state # "UNINITIALIZED" /\ ~FromGles(video')
      PROVE  VInv'
  BY <1>0, <1>1, <1>2, FrameStep
<1>3. CASE GlesWaits
  <2>1. UNCHANGED <<video, gles, gpu>> BY <1>3 DEF GlesWaits, glesVars
  <2>2. Marks(video, video') /\ KeptSoftware BY <1>0, <2>1, SteadyMarks
  <2> QED BY <1>0, <1>2, <2>1, <2>2 DEF VInv, SoftwareInv
<1>4. CASE GlesRecreateFails
  <2>1. UNCHANGED video /\ gpu' = [gpu EXCEPT !.has = @ \ {"surface"}, !.healthy = FALSE]
    BY <1>4 DEF GlesRecreateFails, DestroySurfaceOnly
  <2>2. gpu' \in Gpus /\ "surface" \notin gpu'.has BY <1>0, <2>1 DEF Gpus
  <2>3. gles' \in Gleses
    <3> DEFINE n == Capped(gles.surface, SurfaceLimit)
    <3>1. n \in Int BY <1>0, Limits DEF Capped, Gleses
    <3>2. gles' = [gles EXCEPT !.surface = n,
                               !.state = IF n >= SurfaceLimit THEN "UNINITIALIZED" ELSE @]
      BY <1>4 DEF GlesRecreateFails
    <3> HIDE DEF n
    <3> QED BY <1>0, <3>1, <3>2 DEF Gleses, GlesStates
  <2>4. Marks(video, video') /\ KeptSoftware BY <1>0, <2>1, SteadyMarks
  <2> QED BY <1>2, <2>2, <2>3, <2>4
<1>5. CASE GlesInitFails
  <2> DEFINE n == Capped(gles.init, InitLimit)
             degraded == EnterDegradedMode(video, "GLES")
  <2>1. /\ gpu' = NoGpu
        /\ gles' = [gles EXCEPT !.init = n,
                      !.state = IF n >= InitLimit THEN "FATAL" ELSE "UNINITIALIZED"]
        /\ video' \in {degraded, video}
    BY <1>5 DEF GlesInitFails
  <2>2. n \in Int BY <1>0, Limits DEF Capped, Gleses
  <2>3. /\ degraded \in Videos /\ (Bounded(video) => Bounded(degraded))
        /\ degraded.scaling = video.scaling \/ (degraded.scaling = "SW" /\ degraded.changed)
        /\ video.changed => degraded.changed
    BY <1>0, DegradedIs
  <2> HIDE DEF n, degraded
  <2>4. gles' \in Gleses BY <1>0, <2>1, <2>2 DEF Gleses, GlesStates
  <2>5. Marks(video, video') /\ KeptSoftware
    BY <1>0, <2>1, <2>3 DEF VInv, Marks, KeptSoftware
  <2> QED BY <1>0, <1>2, <2>1, <2>4, <2>5
<1>6. CASE GlesDraws \/ GlesSwapFails
  <2>1. PICK verdict \in {"READY", "SURFACE_LOST", "CONTEXT_LOST"} : GlesFrame(verdict)
    BY <1>6 DEF GlesDraws, GlesSwapFails
  <2>2. gles' \in Gleses /\ gles'.state = verdict
    <3>1. gles' = [NoGles EXCEPT !.state = verdict] \/ gles' = [gles EXCEPT !.state = verdict]
      BY <2>1 DEF GlesFrame
    <3> QED BY <1>0, <3>1 DEF Gleses, GlesStates
  <2>3. gpu' \in Gpus
    <3>1. Repaired \in Gpus
      <4>1. CASE Repaired = gpu BY <1>0, <4>1
      <4>2. CASE Repaired = [gpu EXCEPT !.has = Created, !.healthy = TRUE]
        BY <1>0, <4>2 DEF Gpus
      <4>3. CASE Repaired = [NoGpu EXCEPT !.has = Created, !.healthy = TRUE]
        BY <1>0, <4>3 DEF Gpus
      <4> QED BY <4>1, <4>2, <4>3 DEF Repaired
    <3>2. Upload(Repaired, render.frame) \in Gpus
      BY <1>0, <3>1 DEF Upload, Gpus
    <3>3. gpu' = [Upload(Repaired, render.frame) EXCEPT !.healthy = verdict = "READY"]
      BY <2>1 DEF GlesFrame
    <3> QED BY <3>2, <3>3 DEF Gpus
  <2>4. CASE gles.state # "READY"
    <3>1. video' = EnterReady(video) BY <2>1, <2>4 DEF GlesFrame
    <3>2. Steady(video, video') /\ video'.state = "GLES_READY"
      BY <1>0, <3>1, ReadyIsSteady
    <3>3. Marks(video, video') /\ KeptSoftware BY <3>2, SteadyMarks
    <3> QED BY <1>2, <2>1, <2>2, <2>3, <3>2, <3>3 DEF FromGles
  <2>5. CASE gles.state = "READY"
    <3>1. video' = SetRenderModeState("GLES") \/ UNCHANGED video
      BY <2>1, <2>5 DEF GlesFrame
    <3>2. "GLES" \in Modes /\ TypeInv BY DEF Modes, VInv
    <3>3. Steady(video, video') BY <1>0, <3>1, <3>2, StateIsSteady
    <3>4. Marks(video, video') /\ KeptSoftware /\ (FromGles(video') => FromGles(video))
      BY <3>3, SteadyMarks
    <3>5. gpu'.has = gpu.has
      <4>1. gpu' = [Upload(gpu, render.frame) EXCEPT !.healthy = verdict = "READY"]
        BY <2>1, <2>5 DEF GlesFrame, Repaired
      <4>2. Upload(gpu, render.frame) \in Gpus /\ Upload(gpu, render.frame).has = gpu.has
        BY <1>0 DEF Upload, Gpus
      <4> QED BY <4>1, <4>2 DEF Gpus
    <3> QED BY <1>2, <2>1, <2>2, <2>3, <3>4, <3>5 DEF VInv, SoftwareInv
  <2> QED BY <2>4, <2>5
<1> QED BY <1>3, <1>4, <1>5, <1>6 DEF GlesFails

\* A frame through a CPU buffer leaves nothing of the GLES renderer's surface.
LEMMA CpuKeepsInv ==
  ASSUME VInv, CpuDraws \/ CpuFails, UNCHANGED hwVars
  PROVE  VInv' /\ KeptSoftware
<1>0. /\ video \in Videos /\ gpu \in Gpus /\ render.mode \in Modes
      /\ NoFrame \in Renders /\ NoFrame.pc = "idle" /\ TypeInv
  BY PlacesOfFrame DEF VInv, TypeInv, NoFrame, Renders
<1>1. /\ render.pc = "draw" /\ LeaveGles /\ render' = NoFrame
      /\ video' \in {video, SetRenderModeState(render.mode)}
  BY DEF CpuDraws, CpuFails, AtDraw, Dropped, Drawn
<1>2. gpu' \in Gpus /\ gles' \in Gleses /\ "surface" \notin gpu'.has /\ UNCHANGED <<configVars, ui>>
  <2>1. NoGpu \in Gpus /\ NoGpu.has = {} BY DEF NoGpu, Gpus
  <2>2. NoGles \in Gleses BY DEF NoGles, Gleses, GlesStates
  <2> QED BY <1>0, <1>1, <2>1, <2>2 DEF LeaveGles, VInv, SoftwareInv
<1>3. Steady(video, video') BY <1>0, <1>1, StateIsSteady, SameIsSteady
<1>4. Marks(video, video') /\ KeptSoftware BY <1>3, SteadyMarks
<1> QED BY <1>0, <1>1, <1>2, <1>4, FrameStep

\* The calls of the other threads, and time.
LEMMA OthersKeepInv ==
  ASSUME VInv, Others, UNCHANGED hwVars PROVE VInv' /\ KeptSoftware
<1>0. /\ video \in Videos /\ ui \in Uis /\ TypeInv /\ Bounded(video)
      /\ NoCall \in Uis /\ NoCall.pc = "idle"
  BY DEF VInv, TypeInv, NoCall, Uis, Modes
<1>1. UNCHANGED <<conf, cache, window, gles, gpu, render, picture, env, hw>>
  BY DEF Others, SetScalingMode, SetScalingModeFlag, SetScalingModeState, SetGeometry, Expire,
     OthersCall, configVars, glesVars, hwVars
<1>2. Kind' = Kind BY <1>1, SameKind
<1>3. ASSUME video' \in Videos, Bounded(video'), FromGles(video') => FromGles(video),
             ui' \in Uis, ConfigInv'
      PROVE  VInv'
  <2>1. TypeInv' BY <1>1, <1>3 DEF VInv, TypeInv
  <2>2. WindowInv' BY <1>1, <1>2 DEF VInv, WindowInv
  <2>3. SoftwareInv' /\ HardwareInv'
    BY <1>1, <1>2, <1>3 DEF VInv, SoftwareInv, HardwareInv, Renderers
  <2> QED BY <1>3, <2>1, <2>2, <2>3 DEF VInv
<1>4. ASSUME Steady(video, video'), ui' \in Uis,
             ui'.pc # "flag" => ui.pc # "flag" \/ video'.changed
      PROVE  VInv' /\ KeptSoftware
  <2>1. Marks(video, video') /\ KeptSoftware /\ (FromGles(video') => FromGles(video))
    BY <1>4, SteadyMarks
  <2>2. ConfigInv' BY <1>1, <1>4, <2>1, ConfigStays
  <2> QED BY <1>3, <1>4, <2>1, <2>2 DEF Marks
<1>5. ASSUME NEW mode \in Modes, SetScalingMode(mode) PROVE VInv' /\ KeptSoftware
  <2>1. /\ ui.pc = "idle" /\ ui' = [pc |-> "flag", mode |-> mode]
        /\ video' = [video EXCEPT !.scaling = mode]
    BY <1>5 DEF SetScalingMode, OthersCall
  <2>2. ui' \in Uis /\ ui'.pc = "flag" /\ ui' # ui BY <2>1 DEF Uis
  <2>3. video' \in Videos /\ Bounded(video') /\ (FromGles(video') => FromGles(video))
    BY <1>0, <2>1 DEF Videos, Bounded, FromGles
  <2> QED BY <1>3, <2>2, <2>3 DEF ConfigInv, KeptSoftware
<1>6. CASE SetScalingModeFlag
  <2>1. ui' = [ui EXCEPT !.pc = "state"] /\ video' = [video EXCEPT !.changed = TRUE]
    BY <1>6 DEF SetScalingModeFlag, OthersCall
  <2>2. ui' \in Uis /\ video'.changed BY <1>0, <2>1 DEF Uis, Videos
  <2>3. Steady(video, video') BY <1>0, <2>1, FlagIsSteady
  <2> QED BY <1>4, <2>2, <2>3
<1>7. CASE SetScalingModeState
  <2>1. ui.pc = "state" /\ ui' = NoCall /\ video' = SetRenderModeState(ui.mode)
    BY <1>7 DEF SetScalingModeState, OthersCall
  <2>2. ui.mode \in Modes BY <1>0 DEF Uis
  <2>3. Steady(video, video') BY <1>0, <2>1, <2>2, StateIsSteady
  <2> QED BY <1>0, <1>4, <2>1, <2>3
<1>8. CASE SetGeometry
  <2>1. UNCHANGED ui /\ video' = [video EXCEPT !.changed = TRUE]
    BY <1>8 DEF SetGeometry, OthersCall
  <2>2. Steady(video, video') BY <1>0, <2>1, FlagIsSteady
  <2> QED BY <1>0, <1>4, <2>1, <2>2
<1>9. CASE \E timer \in Timers : Expire(timer)
  <2>1. UNCHANGED <<video, ui>> BY <1>9 DEF Expire
  <2> QED BY <1>0, <1>4, <2>1, SameIsSteady
<1> QED BY <1>5, <1>6, <1>7, <1>8, <1>9 DEF Others

-----------------------------------------------------------------------------
\* The core: SET_HW_RENDER, and the next core.
LEMMA CoresKeepInv == ASSUME VInv, SetHwRender \/ LoadCore PROVE VInv' /\ KeptSoftware
<1>0. UNCHANGED <<hw, video, picture, conf, cache, window, gles, gpu, render, ui>>
  BY DEF SetHwRender, LoadCore, Unmoved, configVars, glesVars
<1>1. KeptSoftware BY <1>0 DEF KeptSoftware
<1>2. env \in Envs BY DEF VInv, TypeInv
<1>3. ConfigInv' BY <1>0 DEF VInv, ConfigInv
<1>4. CASE SetHwRender
  <2>1. /\ Kind.api # "none" /\ ~env.enabled
        /\ env' = [env EXCEPT !.enabled = TRUE, !.rebind = window.bound]
    BY <1>4 DEF SetHwRender
  <2>2. window.bound \in BOOLEAN BY DEF VInv, TypeInv, Windows
  <2>3. env' \in Envs /\ env'.session = env.session /\ env'.core = env.core
    BY <1>2, <2>1, <2>2 DEF Envs
  <2>4. Kind' = Kind BY <2>3 DEF Kind
  <2>5. TypeInv' BY <1>0, <2>3 DEF VInv, TypeInv
  <2>6. WindowInv' /\ SoftwareInv' BY <1>0, <2>4 DEF VInv, WindowInv, SoftwareInv
  <2>7. HardwareInv' BY <1>0, <2>1, <2>4 DEF VInv, HardwareInv, Renderers
  <2> QED BY <1>0, <1>1, <1>3, <2>5, <2>6, <2>7 DEF VInv
<1>5. CASE LoadCore
  <2>1. ~window.bound /\ env' = [env EXCEPT !.core = @ + 1, !.enabled = FALSE, !.rebind = FALSE]
    BY <1>5 DEF LoadCore
  <2>2. env' \in Envs /\ ~env'.enabled
    <3> DEFINE a == [env EXCEPT !.core = env.core + 1]
               b == [a EXCEPT !.enabled = FALSE]
    <3>1. env' = [b EXCEPT !.rebind = FALSE] BY <1>2, <2>1 DEF Envs
    <3>2. a \in Envs BY <1>2 DEF Envs
    <3> HIDE DEF a
    <3>3. b \in Envs /\ ~b.enabled BY <3>2 DEF Envs
    <3> HIDE DEF b
    <3> QED BY <3>1, <3>3 DEF Envs
  <2>3. TypeInv' BY <1>0, <2>2 DEF VInv, TypeInv
  <2>4. WindowInv' /\ SoftwareInv' BY <1>0, <2>1 DEF VInv, WindowInv, SoftwareInv
  <2>5. HardwareInv' BY <1>0, <2>1, <2>2 DEF VInv, HardwareInv, Renderers
  <2> QED BY <1>0, <1>1, <1>3, <2>3, <2>4, <2>5 DEF VInv
<1> QED BY <1>4, <1>5

\* The swaps of the core, and HandleRuntimeChanged.
LEMMA SwapsKeepInv ==
  ASSUME VInv, HandleRuntimeChanged \/ SwapHardwareBuffers PROVE VInv' /\ KeptSoftware
<1>0. video \in Videos /\ hw \in Hws /\ TypeInv /\ render \in Renders /\ Steady(video, video)
  BY DEF VInv, TypeInv, Steady
\* A core that swaps has no frame of the software's on its way.
<1>1. ASSUME UNCHANGED <<conf, cache, window, gles, gpu, ui, env>>, Steady(video, video'),
             render' \in Renders, render'.pc \in {"idle", "stuck"},
             render.pc = "idle", window.active,
             hw' \in Hws, hw'.context = hw.context, hw'.ready = hw.ready,
             hw'.vulkan = hw.vulkan, picture' = "cpu" => picture = "cpu"
      PROVE  VInv' /\ KeptSoftware
  <2>1. Marks(video, video') /\ KeptSoftware /\ (FromGles(video') => FromGles(video))
    BY <1>1, SteadyMarks
  <2>2. Kind' = Kind BY <1>1, SameKind
  <2>3. TypeInv' BY <1>1, <2>1 DEF VInv, TypeInv, Marks
  <2>4. WindowInv' BY <1>1, <2>2 DEF VInv, WindowInv
  <2>5. ConfigInv' BY <1>1, <2>1, ConfigStays
  <2>6. SoftwareInv' BY <1>1, <2>1, <2>2 DEF VInv, SoftwareInv
  <2>7. HardwareInv' BY <1>1, <2>2, HardwareStays
  <2> QED BY <2>1, <2>3, <2>4, <2>5, <2>6, <2>7 DEF VInv, Marks
<1>2. CASE HandleRuntimeChanged
  <2>1. /\ UNCHANGED <<conf, cache, window, gles, gpu, ui, env, render, video, picture>>
        /\ render.pc = "idle" /\ window.active /\ hw' \in EnsureTarget(hw)
    BY <1>2 DEF HandleRuntimeChanged, Unmoved, configVars, glesVars
  <2>2. /\ hw' \in Hws /\ hw'.context = hw.context /\ hw'.ready = hw.ready
        /\ hw'.vulkan = hw.vulkan
    BY <1>0, <2>1, TargetIs
  <2> QED BY <1>0, <1>1, <2>1, <2>2
<1>3. ASSUME NEW ok \in BOOLEAN, UNCHANGED env, Unmoved, video' = Mark(video, ok),
             picture' \in {"hw", "none"}, render.pc = "idle", window.active,
             hw' \in Hws, hw'.context = hw.context, hw'.ready = hw.ready,
             hw'.vulkan = hw.vulkan
      PROVE  VInv' /\ KeptSoftware
  <2>1. Steady(video, video') BY <1>0, <1>3, MarkIsSteady
  <2> QED BY <1>0, <1>1, <1>3, <2>1 DEF Unmoved, configVars, glesVars
<1>4. CASE \E ok \in BOOLEAN : SwapEgl(ok)
  <2>1. PICK ok \in BOOLEAN : SwapEgl(ok) BY <1>4
  <2> QED BY <1>0, <1>3, <2>1 DEF SwapEgl, AtSwap, Swapped
<1>5. CASE NothingToPresent
  BY <1>0, <1>3, <1>5 DEF NothingToPresent, AtSwap, Swapped
<1>6. CASE SubmitRefused \/ PresentVulkan
  <2>1. hw' \in Submit(hw) \cup {[hw EXCEPT !.fence = FALSE]}
    BY <1>6 DEF SubmitRefused, PresentVulkan
  <2>2. /\ hw' \in Hws /\ hw'.context = hw.context /\ hw'.ready = hw.ready
        /\ hw'.vulkan = hw.vulkan
    BY <1>0, <2>1, ChainIs
  <2>3. PICK ok \in BOOLEAN : Swapped(ok)
    BY <1>6 DEF SubmitRefused, PresentVulkan
  <2> QED BY <1>3, <1>6, <2>2, <2>3 DEF SubmitRefused, PresentVulkan, AtSwap, Swapped
<1>7. ASSUME NEW recreated \in BOOLEAN, PresentRefused(recreated)
      PROVE  VInv' /\ KeptSoftware
  <2>1. PICK h \in RecreateVulkanSwapchain(recreated) : hw' \in Submit(h)
    BY <1>7 DEF PresentRefused
  <2>2. /\ h \in Hws /\ h.context = hw.context /\ h.ready = hw.ready /\ h.vulkan = hw.vulkan
    <3>1. h \in {hw, WithChain(hw), [hw EXCEPT !.chain = "gone"]}
      BY DEF RecreateVulkanSwapchain
    <3> QED BY <1>0, <3>1, ChainIs
  <2>3. /\ hw' \in Hws /\ hw'.context = hw.context /\ hw'.ready = hw.ready
        /\ hw'.vulkan = hw.vulkan
    BY <2>1, <2>2, ChainIs
  <2> QED BY <1>3, <1>7, <2>3 DEF PresentRefused, AtSwap
<1>8. CASE WaitForFence
  <2>1. /\ UNCHANGED <<conf, cache, window, gles, gpu, ui, env, hw, video, picture>>
        /\ render.pc = "idle" /\ window.active /\ render' = [render EXCEPT !.pc = "stuck"]
    BY <1>8 DEF WaitForFence, AtSwap, Goto, configVars, glesVars, hwVars
  <2>2. render' \in Renders /\ render'.pc = "stuck" BY <1>0, <2>1 DEF Renders, Places
  <2> QED BY <1>0, <1>1, <2>1, <2>2
<1> QED BY <1>2, <1>4, <1>5, <1>6, <1>7, <1>8 DEF SwapHardwareBuffers


\* HandleSetWindow: the old window takes everything with it, the new one has
\* what its core's initialisation makes.
LEMMA WindowsKeepInv ==
  ASSUME VInv, NEW bind \in BOOLEAN, HandleSetWindow(bind) PROVE VInv' /\ KeptSoftware
<1> DEFINE v == AfterRebind(bind)
           h == IF window.bound /\ (env.enabled \/ HasHardwareContext)
                THEN OnHardwareWindowDestroyed(hw) ELSE hw
<1>0. /\ video \in Videos /\ Bounded(video) /\ hw \in Hws /\ env \in Envs /\ TypeInv
      /\ Renderers(hw)
  BY DEF VInv, TypeInv, HardwareInv
<1>1. h \in Hws /\ ~h.ready /\ ~h.vulkan
  <2>1. CASE window.bound /\ (env.enabled \/ HasHardwareContext)
    BY <1>0, <2>1, DestroyIs
  <2>2. CASE ~window.bound BY <1>0, <2>2 DEF VInv, HardwareInv
  <2>3. CASE window.bound /\ ~env.enabled /\ ~HasHardwareContext
    BY <1>0, <2>3 DEF Renderers
  <2> QED BY <2>1, <2>2, <2>3
<1>2. /\ v \in Videos /\ Bounded(v) /\ v.scaling = video.scaling
      /\ FromGles(v) => FromGles(video)
  BY <1>0, RebindIs
<1>3. /\ env' = [env EXCEPT !.rebind = FALSE]
      /\ \/ ~(bind /\ env.enabled) /\ hw' = h /\ Rebind(bind, v)
         \/ /\ bind /\ env.enabled
            /\ \E outcome \in InitializeHardwareRenderer(h) :
                 /\ hw' \in outcome.failed \cup outcome.made
                 /\ \E ok \in BOOLEAN : Rebind(bind, Mark(v, ok))
  <2>1. Mark(v, TRUE) = MarkHardwarePathRecovered(v) /\ Mark(v, FALSE) = MarkHardwarePathFailure(v)
    BY DEF Mark
  <2> HIDE DEF v, h
  <2> QED BY <2>1 DEF HandleSetWindow, v, h
<1> HIDE DEF v, h
<1>4. /\ env' \in Envs /\ env'.enabled = env.enabled /\ env'.session = env.session
      /\ env'.core = env.core
  BY <1>0, <1>3 DEF Envs
<1>5. Kind' = Kind BY <1>4 DEF Kind
<1>6. /\ hw' \in Hws /\ Renderers(hw') /\ (hw'.ready \/ hw'.vulkan => bind)
  <2>1. CASE ~(bind /\ env.enabled) /\ hw' = h BY <1>1, <2>1 DEF Renderers
  <2>2. ASSUME bind, env.enabled, NEW outcome \in InitializeHardwareRenderer(h),
               hw' \in outcome.failed \cup outcome.made
        PROVE  /\ hw' \in Hws /\ Renderers(hw') /\ (hw'.ready \/ hw'.vulkan => bind)
    BY <1>0, <1>1, <2>2, InitializeIs
  <2> QED BY <1>3, <2>1, <2>2
<1>7. PICK w \in Videos : Rebind(bind, w) /\ Steady(v, w)
  <2>1. Steady(v, v) BY <1>2 DEF Steady
  <2>2. \A ok \in BOOLEAN : Steady(v, Mark(v, ok)) BY <1>2, MarkIsSteady
  <2>3. \A w : Steady(v, w) => w \in Videos BY DEF Steady
  <2> QED BY <1>3, <2>1, <2>2, <2>3
<1>8. /\ video' \in Videos /\ Bounded(video') /\ (FromGles(video') => FromGles(video))
      /\ video.scaling = "SW" => video'.scaling = "SW"
  BY <1>2, <1>7 DEF Rebind, Steady
<1>9. /\ window' \in Windows /\ window'.bound = bind /\ ~window'.active
      /\ window'.geometry = Unset
  <2>1. (IF window.bound THEN 0 ELSE window.size) \in Int BY <1>0 DEF TypeInv, Windows
  <2>2. window' = [bound |-> bind, active |-> FALSE,
                   size |-> IF window.bound THEN 0 ELSE window.size, geometry |-> Unset]
    BY <1>7 DEF Rebind
  <2> QED BY <2>1, <2>2 DEF Windows, Geometries
<1>10. conf' \in Confs /\ conf'.base = 0 /\ cache' = Unset
  <2>1. CASE window.bound
    <3>1. /\ cache' = Unset
          /\ conf' = [conf EXCEPT !.base = 0, !.request = Unset, !.mode = video.scaling]
      BY <1>7, <2>1 DEF Rebind
    <3> DEFINE a == [conf EXCEPT !.base = 0]
               b == [a EXCEPT !.request = Unset]
    <3>2. a \in Confs /\ a.base = 0 BY <1>0 DEF TypeInv, Confs
    <3>3. conf' = [b EXCEPT !.mode = video.scaling] BY <1>0, <3>1 DEF TypeInv, Confs
    <3> HIDE DEF a
    <3>4. b \in Confs /\ b.base = 0 BY <3>2 DEF Confs, Geometries
    <3> HIDE DEF b
    <3> QED BY <1>0, <3>1, <3>3, <3>4 DEF Confs, Videos
  <2>2. CASE ~window.bound BY <1>0, <1>7, <2>2 DEF Rebind, VInv, TypeInv, WindowInv
  <2> QED BY <2>1, <2>2
<1>11. gles' \in Gleses /\ gpu' \in Gpus /\ "surface" \notin gpu'.has
  <2>1. NoGpu \in Gpus /\ NoGpu.has = {} BY DEF NoGpu, Gpus
  <2>2. NoGles \in Gleses BY DEF NoGles, Gleses, GlesStates
  <2>3. UNCHANGED glesVars \/ (gles' = NoGles /\ gpu' = NoGpu)
        \/ (gles' = NoGles /\ gpu' = gpu /\ gles.state = "UNINITIALIZED")
    BY <1>7 DEF Rebind
  <2>4. UNCHANGED glesVars => ~window.bound \/ gpu' = NoGpu
        \/ gles.state = "UNINITIALIZED"
    BY <1>7 DEF Rebind, glesVars
  <2> QED BY <1>0, <2>1, <2>2, <2>3, <2>4 DEF TypeInv, VInv, SoftwareInv, glesVars
<1>12. render.pc = "idle" /\ UNCHANGED <<render, ui>> /\ picture' = "none"
  BY <1>7 DEF Rebind
<1>13. TypeInv' BY <1>0, <1>4, <1>6, <1>8, <1>9, <1>10, <1>11, <1>12 DEF TypeInv
<1>14. WindowInv' /\ ConfigInv' /\ SoftwareInv'
  BY <1>9, <1>10, <1>11, <1>12 DEF WindowInv, ConfigInv, SoftwareInv
<1>15. HardwareInv' BY <1>4, <1>5, <1>6, <1>9 DEF VInv, HardwareInv, Renderers
<1> QED BY <1>8, <1>13, <1>14, <1>15 DEF VInv, KeptSoftware

\* A new size of the window: one that is not the old size is marked.
LEMMA ResizesKeepInv ==
  ASSUME VInv,
         \/ \E size \in WindowSizes \cup {0} : HandleResize(size)
         \/ \E size \in WindowSizes, ok \in BOOLEAN : ResizeVulkan(size, ok) \/ ResizeEgl(size, ok)
  PROVE  VInv' /\ KeptSoftware
<1>0. /\ video \in Videos /\ Bounded(video) /\ hw \in Hws /\ window \in Windows /\ TypeInv
      /\ Renderers(hw) /\ 0 \in Int /\ cache = window.geometry
  BY DEF VInv, TypeInv, HardwareInv, WindowInv
<1>1. ASSUME NEW size \in Int
      PROVE  /\ Steady(video, AfterResize(size))
             /\ size # window.size => AfterResize(size).changed
             /\ \A ok \in BOOLEAN :
                  /\ Steady(video, Mark(AfterResize(size), ok))
                  /\ size # window.size => Mark(AfterResize(size), ok).changed
  <2> DEFINE changed == video.changed \/ size # window.size
             w == AfterResize(size)
  <2>1. w = [video EXCEPT !.changed = changed] BY DEF AfterResize
  <2>2. changed \in BOOLEAN /\ (video.changed => changed) /\ (size # window.size => changed)
    OBVIOUS
  <2> HIDE DEF changed, w
  <2>3. Steady(video, w) /\ (size # window.size => w.changed)
    BY <1>0, <2>1, <2>2, FlagIsSteady DEF Videos
  <2>4. w \in Videos BY <2>3 DEF Steady
  <2>5. \A ok \in BOOLEAN : Steady(w, Mark(w, ok)) BY <2>4, MarkIsSteady
  <2>6. \A ok \in BOOLEAN : Steady(video, Mark(w, ok)) BY <2>3, <2>5, SteadyTwice
  <2>7. \A ok \in BOOLEAN : w.changed => Mark(w, ok).changed BY <2>5 DEF Steady
  <2> QED BY <2>3, <2>6, <2>7 DEF w
\* Only a hardware core takes the geometry away.
<1>2. ASSUME NEW size \in Int, NEW v, NEW geometry \in {Unset, window.geometry},
             Steady(video, v), size # window.size => v.changed,
             Resized(size, v, geometry), cache' = geometry, UNCHANGED env,
             geometry = window.geometry \/ Kind.api # "none",
             hw' \in Hws, Renderers(hw'), hw'.ready \/ hw'.vulkan => hw.ready \/ hw.vulkan
      PROVE  VInv' /\ KeptSoftware
  <2>1. /\ render.pc = "idle" /\ video' = v
        /\ window' = [window EXCEPT !.size = size, !.geometry = geometry,
                                    !.active = window.bound /\ size > 0]
        /\ UNCHANGED <<conf, gles, gpu, render, picture, ui>>
    BY <1>2 DEF Resized, glesVars
  <2>2. Marks(video, video') /\ KeptSoftware /\ (FromGles(video') => FromGles(video))
    BY <1>2, <2>1, SteadyMarks
  <2>3. Kind' = Kind BY <1>2, SameKind
  <2>4. /\ window' \in Windows /\ window'.bound = window.bound /\ window'.size = size
        /\ window'.geometry = geometry /\ (window'.active => window.bound)
    <3> DEFINE a == [window EXCEPT !.size = size]
               b == [a EXCEPT !.geometry = geometry]
               active == window.bound /\ size > 0
    <3>1. window' = [b EXCEPT !.active = active] BY <1>0, <2>1 DEF Windows
    <3>2. active \in BOOLEAN /\ (active => window.bound) OBVIOUS
    <3>3. geometry \in Geometries BY <1>0, <1>2 DEF Windows, Geometries
    <3> HIDE DEF active
    <3>4. a \in Windows /\ a.bound = window.bound /\ a.size = size
      BY <1>0 DEF Windows
    <3> HIDE DEF a
    <3>5. b \in Windows /\ b.bound = a.bound /\ b.size = a.size /\ b.geometry = geometry
      BY <3>3, <3>4 DEF Windows
    <3> HIDE DEF b
    <3> QED BY <3>1, <3>2, <3>4, <3>5 DEF Windows
  <2>5. TypeInv' BY <1>0, <1>2, <2>1, <2>2, <2>4 DEF TypeInv, Marks
  <2>6. WindowInv' BY <1>0, <1>2, <2>1, <2>3, <2>4 DEF VInv, WindowInv
  <2>7. ConfigInv'
    <3>1. CASE size # window.size BY <1>2, <2>1, <3>1 DEF ConfigInv
    <3>2. CASE geometry # window.geometry
      BY <1>2, <2>1, <2>3, <3>2 DEF VInv, WindowInv, ConfigInv
    <3>3. CASE size = window.size /\ geometry = window.geometry
      BY <2>1, <2>2, <2>4, <3>3 DEF VInv, ConfigInv, Marks
    <3> QED BY <3>1, <3>2, <3>3
  <2>8. SoftwareInv' BY <2>1, <2>2, <2>3, <2>4 DEF VInv, SoftwareInv
  <2>9. HardwareInv' BY <1>2, <2>3, <2>4 DEF VInv, HardwareInv, Renderers
  <2> QED BY <2>2, <2>5, <2>6, <2>7, <2>8, <2>9 DEF VInv, Marks
<1>3. ASSUME NEW size \in WindowSizes \cup {0}, HandleResize(size) PROVE VInv' /\ KeptSoftware
  <2>1. size \in Int BY <1>0, Limits
  <2>2. /\ Resized(size, AfterResize(size), window.geometry)
        /\ UNCHANGED <<cache, env, hw>>
    BY <1>3 DEF HandleResize, hwVars
  <2> QED BY <1>0, <1>1, <1>2, <2>1, <2>2
<1>4. ASSUME NEW size \in WindowSizes, NEW ok \in BOOLEAN, ResizeVulkan(size, ok)
      PROVE  VInv' /\ KeptSoftware
  <2>1. size \in Int BY Limits
  <2>2. /\ Resized(size, Mark(AfterResize(size), ok), window.geometry)
        /\ UNCHANGED <<cache, env>>
        /\ hw' \in {hw, WithChain(hw), [hw EXCEPT !.chain = "gone"]}
    BY <1>4 DEF ResizeVulkan, RecreateVulkanSwapchain
  <2>3. /\ hw' \in Hws /\ hw'.context = hw.context /\ hw'.ready = hw.ready
        /\ hw'.vulkan = hw.vulkan
    BY <1>0, <2>2, ChainIs
  <2>4. Renderers(hw') BY <1>0, <2>3 DEF Renderers
  <2>5. Steady(video, Mark(AfterResize(size), ok))
        /\ (size # window.size => Mark(AfterResize(size), ok).changed)
    BY <1>1, <2>1
  <2> QED BY <1>0, <1>2, <2>1, <2>2, <2>3, <2>4, <2>5
<1>5. ASSUME NEW size \in WindowSizes, NEW ok \in BOOLEAN, ResizeEgl(size, ok)
      PROVE  VInv' /\ KeptSoftware
  <2> DEFINE lost == ~ok /\ hw.context
             reset == lost /\ hw.window = "bound"
             geometry == IF reset THEN Unset ELSE window.geometry
             v == Mark(AfterResize(size), ok)
  <2>1. size \in Int BY Limits
  <2>2. /\ Api = "egl" /\ Resized(size, v, geometry) /\ UNCHANGED env
        /\ cache' = geometry
        /\ hw' \in {hw, DestroyHardwareRenderer(hw)}
    BY <1>0, <1>5 DEF ResizeEgl
  <2>3. Kind.api # "none" BY <2>2 DEF Api
  <2>4. /\ hw' \in Hws /\ Renderers(hw') /\ (hw'.ready \/ hw'.vulkan => hw.ready \/ hw.vulkan)
    BY <1>0, <2>2, DestroyIs DEF Renderers
  <2>5. geometry \in {Unset, window.geometry} OBVIOUS
  <2>6. Steady(video, v) /\ (size # window.size => v.changed)
    BY <1>1, <2>1
  <2> HIDE DEF geometry, v
  <2> QED BY <1>2, <2>1, <2>2, <2>3, <2>4, <2>5, <2>6
<1> QED BY <1>3, <1>4, <1>5

-----------------------------------------------------------------------------
\* The beginning.
LEMMA Beginning == HwInit => VInv
<1> SUFFICES ASSUME HwInit PROVE VInv
  OBVIOUS
<1>1. video \in Videos /\ Bounded(video)
  BY Limits DEF HwInit, Init, Videos, Modes, RenderStates, Bounded
<1>2. gles \in Gleses /\ gpu \in Gpus /\ gpu.has = {}
  BY DEF HwInit, Init, NoGles, NoGpu, Gleses, GlesStates, Gpus
<1>3. conf \in Confs /\ conf.base = 0
  BY DEF HwInit, Init, Confs, Modes, Geometries
<1>4. /\ window \in Windows /\ ~window.bound /\ ~window.active /\ window.geometry = Unset
      /\ cache = Unset
  BY DEF HwInit, Init, Windows, Geometries
<1>5. render \in Renders /\ render.pc = "idle" /\ ui \in Uis
  BY DEF HwInit, Init, NoFrame, NoCall, Renders, Places, Uis, Modes
<1>6. env \in Envs /\ ~env.enabled
  <2> DEFINE first == [session : Sessions, core : {1}, enabled : {FALSE}, rebind : {FALSE}]
  <2>1. env \in first BY DEF HwInit
  <2>2. env.enabled \in {FALSE} BY <2>1
  <2>3. {1} \subseteq Int /\ {FALSE} \subseteq BOOLEAN OBVIOUS
  <2>4. first \subseteq Envs BY <2>3 DEF Envs
  <2> QED BY <2>1, <2>2, <2>4
<1>7. hw \in Hws /\ ~hw.ready /\ ~hw.vulkan BY DEF HwInit, NoHw, Hws
<1>8. picture = "none" BY DEF HwInit, Init
<1>9. TypeInv BY <1>1, <1>2, <1>3, <1>4, <1>5, <1>6, <1>7 DEF TypeInv
<1>10. WindowInv /\ ConfigInv /\ SoftwareInv /\ HardwareInv
  BY <1>2, <1>3, <1>4, <1>5, <1>6, <1>7, <1>8
  DEF WindowInv, ConfigInv, SoftwareInv, HardwareInv, Renderers
<1> QED BY <1>1, <1>9, <1>10 DEF VInv

\* Every step keeps the invariant, and software where it is to be kept.
LEMMA StepKeepsInv == ASSUME VInv, [HwNext]_allVars PROVE VInv' /\ [KeptSoftware]_vars
<1>1. CASE UNCHANGED allVars
  <2>1. /\ UNCHANGED <<video, gles, gpu, conf, cache, window, render, picture, ui, env, hw>>
        /\ UNCHANGED vars
    BY <1>1 DEF allVars, hwVars, vars, configVars, glesVars
  <2>2. Kind' = Kind BY <2>1, SameKind
  <2>3. TypeInv' /\ Bounded(video)' /\ WindowInv' /\ ConfigInv' /\ SoftwareInv' /\ HardwareInv'
    BY <2>1, <2>2
    DEF VInv, TypeInv, Bounded, WindowInv, ConfigInv, SoftwareInv, HardwareInv, Renderers,
        FromGles
  <2> QED BY <2>1, <2>3 DEF VInv
<1>2. CASE (SoftwareFrame \/ Render \/ Others) /\ UNCHANGED hwVars
  BY <1>2, BeginsKeepInv, NeedConfigKeepsInv, EnsureKeepsInv, GlesKeepsInv, CpuKeepsInv,
     OthersKeepInv DEF Render
<1>3. CASE SetHwRender \/ LoadCore BY <1>3, CoresKeepInv
<1>4. CASE \E bind \in BOOLEAN : HandleSetWindow(bind) BY <1>4, WindowsKeepInv
<1>5. CASE \/ \E size \in WindowSizes \cup {0} : HandleResize(size)
           \/ \E size \in WindowSizes, ok \in BOOLEAN :
                ResizeVulkan(size, ok) \/ ResizeEgl(size, ok)
  BY <1>5, ResizesKeepInv
<1>6. CASE HandleRuntimeChanged \/ SwapHardwareBuffers BY <1>6, SwapsKeepInv
<1> QED BY <1>1, <1>2, <1>3, <1>4, <1>5, <1>6 DEF HwNext

\* VInv is inductive: it holds of every state of the pipeline.
THEOREM PipelineInvariant == HwSpec => []VInv
<1> QED BY Beginning, StepKeepsInv, PTL DEF HwSpec

\* RecoveryBounded: the attempts and the degradations, counted in different
\* functions and reset in a third, keep pace for all limits.
THEOREM RecoveryIsBounded == HwSpec => []RecoveryBounded
<1>1. VInv => RecoveryBounded BY DEF VInv, Bounded, RecoveryBounded
<1> QED BY <1>1, PipelineInvariant, PTL

\* ConfiguredForMode: no interleaving of SetScalingMode's stores, of refusals,
\* resizes and recoveries leaves an unmarked window with another geometry.
THEOREM WindowIsConfigured == HwSpec => []ConfiguredForMode
<1>1. VInv => ConfiguredForMode BY DEF VInv, ConfigInv, ConfiguredForMode
<1> QED BY <1>1, PipelineInvariant, PTL

\* OneProducer: a window is never fed by two renderers, nor by one after it is
\* given up, for any sequence of cores.
THEOREM ProducerIsAlone == HwSpec => []OneProducer
<1>1. ASSUME VInv PROVE OneProducer
  <2>1. /\ Producers \subseteq {"cpu", "gles", "egl", "vulkan"}
        /\ "cpu" \in Producers => picture = "cpu"
        /\ "gles" \in Producers => "surface" \in gpu.has
        /\ "egl" \in Producers => hw.ready
        /\ "vulkan" \in Producers => hw.vulkan
    BY DEF Producers
  <2>2. ~window.bound => Producers = {}
    BY <1>1, <2>1 DEF VInv, SoftwareInv, HardwareInv
  <2>3. \A p, q \in Producers : p = q
    BY <1>1, <2>1 DEF VInv, SoftwareInv, HardwareInv, Renderers
  <2>4. Cardinality({}) = 0 /\ \A p : Cardinality({p}) = 1
    BY FS_EmptySet, FS_Singleton
  <2>5. Producers = {} \/ \E p \in Producers : Producers = {p} BY <2>3
  <2>6. CASE Producers = {}
    <3>1. Cardinality(Producers) = 0 BY <2>4, <2>6
    <3> QED BY <3>1 DEF OneProducer
  <2>7. ASSUME NEW p, Producers = {p} PROVE OneProducer
    <3>1. Cardinality(Producers) = 1 BY <2>4, <2>7
    <3>2. window.bound BY <2>2, <2>7
    <3> QED BY <3>1, <3>2 DEF OneProducer
  <2> QED BY <2>5, <2>6, <2>7
<1> QED BY <1>1, PipelineInvariant, PTL

\* KeepsSoftware: once the limit of degradations is reached, only the user
\* takes the pipeline out of software.
THEOREM SoftwareIsKept == HwSpec => KeepsSoftware
<1>1. KeepsSoftware <=> [][KeptSoftware]_vars BY DEF KeepsSoftware, KeptSoftware
<1> QED BY <1>1, StepKeepsInv, PipelineInvariant, PTL DEF HwSpec

=============================================================================
