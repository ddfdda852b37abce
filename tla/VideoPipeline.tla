--------------------------- MODULE VideoPipeline ---------------------------
(***************************************************************************)
(* The software side of src/entry/src/main/cpp/core/engine/                *)
(* video_pipeline.{h,cpp} with window_state_manager.cpp: the scaling mode, *)
(* its degradation to software and the way back, the configuration of the  *)
(* native window, and a frame's way through the GLES renderer (platform/   *)
(* graphics/gles_renderer.cpp) or through a CPU buffer.  HardwareRender    *)
(* adds the cores that draw for themselves.                                *)
(*                                                                         *)
(* Threads.  The render thread runs everything here one frame at a time    *)
(* (`render.pc`); the UI thread is inside SetScalingMode (`ui`), whose     *)
(* stores to three atomics are separate steps; the game thread sets the    *)
(* geometry.  Stores of one function of the render thread that nobody      *)
(* reads apart (EnterDegradedMode, MaybeRecoverDegradedMode) are one step. *)
(* Sizes are symbolic and the driver answers as it likes.  A deadline that *)
(* holds frames up is a member of `timers` until it expires; one that only *)
(* puts off a recovery or a configuration may have passed or not whenever  *)
(* it is read.  Of the window's options only the geometry may be refused.  *)
(* The x86 builds, which force every frame to GLES, are left out.          *)
(***************************************************************************)
EXTENDS Integers, FiniteSets, Sequences

CONSTANTS
    FrameSizes,   \* sizes of a frame, positive numbers
    WindowSizes,  \* sizes of the window, positive numbers
    InitLimit,    \* 5: failed GLES initialisations before degrading
    SurfaceLimit, \* 3: failed surface recreations before a full one
    StreakLimit,  \* 3: failures of hardware scaling in a row before degrading
    FailureLimit, \* 3: degradations after which software is kept
    AttemptLimit, \* 5: recoveries tried without a GLES success
    RetryLimit    \* 10: failed configurations before the cooldown

ASSUME LimitAssumption ==
    /\ {InitLimit, SurfaceLimit, StreakLimit, FailureLimit, AttemptLimit}
         \subseteq Nat \ {0}
    /\ RetryLimit \in Nat
    /\ FailureLimit <= AttemptLimit
    /\ FrameSizes \union WindowSizes \subseteq Nat \ {0}

VARIABLES
    video,      \* scaling_mode_, geometry_changed_, render_mode_state_, and the
                \* degradation: degraded_from_mode_, its two counters, the streak
    gles,       \* gles_state_ and its failure counters
    gpu,        \* GLESRenderer: what it has created, and the size of its texture
    conf,       \* base size, last request and retries of the configuration
    cache,      \* the geometry in WindowStateManager::last_state_, if any
    window,     \* the bound window: its geometry, and the size the pipeline has
    render,     \* the render thread: pc, the mode it loaded, the frame's size
    held,       \* what RenderCPU has not given back
    timers,     \* deadlines not yet reached
    picture,    \* what drew the last frame of this window
    ui          \* the UI thread: pc and its argument

configVars == <<conf, cache, window>>
glesVars == <<gles, gpu>>
vars == <<video, configVars, glesVars, render, held, timers, picture, ui>>

Modes == {"SW", "GLES", "HW"}
Timers == {"pressure", "retry"}
Ready == [SW |-> "SW_READY", GLES |-> "GLES_READY", HW |-> "HW_READY"]

NoFrame == [pc |-> "idle", mode |-> "GLES", frame |-> 0]
NoCall == [pc |-> "idle", mode |-> "GLES"]

Capped(n, limit) == IF n < limit THEN n + 1 ELSE limit

(* What a window is asked for: the window's own size for GLES, a multiple  *)
(* of the frame for software, the frame's size for the system compositor.  *)
Geometry(mode, frame, win) ==
    CASE mode = "GLES" -> <<"window", win>>
      [] mode = "SW"   -> <<"scaled", frame>>
      [] mode = "HW"   -> <<"source", frame>>
Unset == <<"unset", 0>>

-----------------------------------------------------------------------------
(* Mode and degradation, as functions of the mode v. *)

KeepsState(v) == v.state \in {"DEGRADED_TO_SW", "RECOVERING"}
StateFor(v, mode) == IF mode = "SW" /\ KeepsState(v) THEN v.state ELSE Ready[mode]
SetRenderModeState(mode) == [video EXCEPT !.state = StateFor(video, mode)]

(* Mutant: the limit of degradations is not looked at. *)
EnterDegradedModeForEver(v, source) ==
    [v EXCEPT !.scaling = IF @ = source THEN "SW" ELSE @,
              !.changed = @ \/ v.scaling = source,
              !.failures = Capped(@, FailureLimit),
              !.from = source, !.state = "DEGRADED_TO_SW"]

EnterDegradedMode(v, source) ==
    LET n == Capped(v.failures, FailureLimit)
    IN  [v EXCEPT !.scaling = IF @ = source THEN "SW" ELSE @,
                  !.changed = @ \/ v.scaling = source,
                  !.failures = n,
                  !.from = IF n >= FailureLimit THEN "SW" ELSE source,
                  !.state = "DEGRADED_TO_SW"]

MarkHardwarePathFailure(v) ==
    IF v.scaling # "HW" THEN v
    ELSE IF v.streak + 1 < StreakLimit THEN [v EXCEPT !.streak = @ + 1]
    ELSE [EnterDegradedMode(v, "HW") EXCEPT !.streak = 0]

MarkHardwarePathRecovered(v) ==
    IF v.scaling # "HW" THEN v ELSE [v EXCEPT !.streak = 0, !.state = "HW_READY"]

Recoverable ==
    /\ video.state = "DEGRADED_TO_SW"
    /\ render.mode = "SW"
    /\ video.from # "SW"
    /\ video.attempts < AttemptLimit

-----------------------------------------------------------------------------
(* A frame: Render.  It loads the scaling mode once; the configuration     *)
(* loads it again.                                                         *)

Goto(pc) == render' = [render EXCEPT !.pc = pc]
Drawn(by) == render' = NoFrame /\ picture' = by
Dropped == Drawn("none")

BeginFrame(size) ==
    /\ render.pc = "idle"
    /\ window.bound /\ window.active
    /\ render' = [pc |-> "recover", mode |-> video.scaling, frame |-> size]
    /\ UNCHANGED <<video, configVars, glesVars, held, timers, picture, ui>>

(* EvaluateRenderPreflight: under pressure nothing goes through the CPU. *)
AfterPreflight(mode) ==
    IF mode # "GLES" /\ "pressure" \in timers THEN Dropped
    ELSE /\ render' = [render EXCEPT !.mode = mode, !.pc = "ensure"]
         /\ UNCHANGED picture

(* A recovery to GLES starts its renderer afresh. *)
GlesStaysAsItIs == gles     \* mutant
RecoveredGles ==
    IF video.from = "GLES" THEN [gles EXCEPT !.state = "UNINITIALIZED"] ELSE gles

MaybeRecoverDegradedMode ==
    /\ render.pc = "recover"
    /\ \/ /\ Recoverable
          /\ video' = [video EXCEPT !.attempts = @ + 1, !.scaling = video.from,
                                    !.changed = TRUE, !.state = "RECOVERING"]
          /\ gles' = RecoveredGles
          /\ timers' = IF video.from = "GLES" THEN timers \ {"retry"} ELSE timers
          /\ AfterPreflight(video.from)
       \/ /\ AfterPreflight(render.mode)
          /\ UNCHANGED <<video, gles, timers>>
    /\ UNCHANGED <<configVars, gpu, held, ui>>

(* A changed base size short-circuits the exchange of the flag. *)
NeedConfigUpdate ==
    /\ render.pc = "ensure"
    /\ video' = [video EXCEPT !.changed = @ /\ conf.base # render.frame]
    /\ Goto(IF conf.base # render.frame \/ video.changed THEN "config" ELSE "draw")
    /\ UNCHANGED <<configVars, glesVars, held, timers, picture, ui>>

(* WindowStateManager::Apply: nothing is done for what the cache already   *)
(* has; what the window takes is remembered.  The usage is always taken,   *)
(* so the cached one is that of the last mode configured.                  *)
Usage(mode) == IF mode = "GLES" THEN "gpu" ELSE "cpu"

(* Mutant: what the window refused is remembered too. *)
ApplyRemembersRefusal(geometry, usage, ok) ==
    IF cache = geometry /\ usage = Usage(conf.mode)
    THEN ok /\ UNCHANGED <<cache, window>>
    ELSE /\ cache' = geometry
         /\ window' = IF ok THEN [window EXCEPT !.geometry = geometry] ELSE window

Apply(geometry, usage, ok) ==
    IF cache = geometry /\ usage = Usage(conf.mode)
    THEN ok /\ UNCHANGED <<cache, window>>
    ELSE /\ cache' = IF ok THEN geometry ELSE cache
         /\ window' = IF ok THEN [window EXCEPT !.geometry = geometry] ELSE window

EnsureWindowConfigured ==
    LET mode == video.scaling
        want == Geometry(mode, render.frame, window.size)
        requestChanged == want # conf.request \/ mode # conf.mode
        exhausted == ~requestChanged /\ conf.retries > RetryLimit
        retries == IF requestChanged \/ exhausted THEN 0 ELSE conf.retries
    IN  /\ render.pc = "config"
        /\ Goto("draw")
        /\ \/ /\ exhausted
              /\ video' = [video EXCEPT !.changed = TRUE]
              /\ UNCHANGED configVars
           \/ \E ok \in BOOLEAN :
                 /\ Apply(want, Usage(mode), ok)
                 /\ video' = [video EXCEPT !.changed = @ \/ ~ok]
                 /\ conf' = [base |-> render.frame, mode |-> mode,
                             request |-> IF ok THEN want ELSE conf.request,
                             retries |-> IF ok THEN 0 ELSE retries + 1]
        /\ UNCHANGED <<glesVars, held, timers, picture, ui>>

-----------------------------------------------------------------------------
(* RenderGLES, one step: only the render thread sees its state.  What the  *)
(* renderer has created is a set; Deinit and each failed creation give     *)
(* back all of it, a failed RecreateSurface the surface.                   *)

EglObjects == {"display", "context", "surface"}
GlObjects == {"program", "texture"}
Created == EglObjects \union GlObjects
NoGpu == [has |-> {}, healthy |-> FALSE, texture |-> 0, cached |-> 0]
NoGles == [state |-> "UNINITIALIZED", surface |-> 0, init |-> 0]

AtDraw(glesMode) == render.pc = "draw" /\ (render.mode = "GLES") = glesMode

GlesWaits ==
    /\ AtDraw(TRUE)
    /\ "retry" \in timers \/ gles.state = "FATAL"
    /\ Dropped
    /\ UNCHANGED <<video, configVars, glesVars, held, timers, ui>>

Retry == timers' = timers \union {"retry"}

DestroySurfaceOnly(g) == [g EXCEPT !.has = @ \ {"surface"}, !.healthy = FALSE]

GlesRecreateFails ==
    /\ AtDraw(TRUE) /\ "retry" \notin timers
    /\ gles.state = "SURFACE_LOST"
    /\ LET n == Capped(gles.surface, SurfaceLimit)
       IN gles' = [gles EXCEPT !.surface = n,
                     !.state = IF n >= SurfaceLimit THEN "UNINITIALIZED" ELSE @]
    /\ gpu' = DestroySurfaceOnly(gpu)
    /\ Dropped /\ Retry
    /\ UNCHANGED <<video, configVars, held, ui>>

GlesInitFails ==
    LET n == Capped(gles.init, InitLimit)
    IN  /\ AtDraw(TRUE) /\ "retry" \notin timers
        /\ gles.state \in {"CONTEXT_LOST", "UNINITIALIZED"}
        /\ gpu' = NoGpu
        /\ gles' = [gles EXCEPT !.init = n,
                      !.state = IF n >= InitLimit THEN "FATAL" ELSE "UNINITIALIZED"]
        /\ video' = IF n >= InitLimit THEN EnterDegradedMode(video, "GLES") ELSE video
        /\ Dropped /\ Retry
        /\ UNCHANGED <<configVars, held, ui>>

(* The surface recreated or the renderer initialised, if it had to be. *)
Repaired ==
    CASE gles.state = "READY" -> gpu
      [] gles.state = "SURFACE_LOST" -> [gpu EXCEPT !.has = Created, !.healthy = TRUE]
      [] OTHER -> [NoGpu EXCEPT !.has = Created, !.healthy = TRUE]

(* A texture of the size it has cached is filled in place. *)
Upload(g, size) ==
    IF g.cached = size THEN g ELSE [g EXCEPT !.texture = size, !.cached = size]

(* enterReady; mutant: the recoveries tried are not forgotten. *)
EnterReadyKeepsAttempts(v) == [v EXCEPT !.failures = 0, !.state = "GLES_READY"]
EnterReady(v) == [v EXCEPT !.failures = 0, !.attempts = 0, !.state = "GLES_READY"]

(* A frame that reaches the swap, and the swap's verdict. *)
GlesFrame(verdict) ==
    LET repaired == gles.state # "READY"
    IN  /\ AtDraw(TRUE) /\ "retry" \notin timers
        /\ gles.state # "FATAL"
        /\ gpu' = [Upload(Repaired, render.frame) EXCEPT !.healthy = verdict = "READY"]
        /\ gles' = IF repaired THEN [NoGles EXCEPT !.state = verdict]
                               ELSE [gles EXCEPT !.state = verdict]
        /\ video' = IF repaired THEN EnterReady(video)
                    ELSE IF verdict = "READY" THEN SetRenderModeState("GLES") ELSE video
        /\ UNCHANGED <<configVars, held, ui>>

GlesDraws == GlesFrame("READY") /\ Drawn("gles") /\ UNCHANGED timers
GlesSwapFails ==
    /\ \E lost \in {"SURFACE_LOST", "CONTEXT_LOST"} : GlesFrame(lost)
    /\ Dropped /\ Retry

-----------------------------------------------------------------------------
(* RenderCPU, one step for the same reason: the calls on the buffer in      *)
(* order, what each acquires and, if it fails, what the code hands back.   *)
(* The window's reference is a guard object's.                             *)

Calls == <<"request", "fence", "native", "map", "fill", "unmap", "flush">>
Acquires == [request |-> {"buffer"}, fence |-> {}, native |-> {"native"},
             map |-> {"mapped"}, fill |-> {}, unmap |-> {}, flush |-> {}]
Returns == [request |-> {}, fence |-> {}, native |-> {}, map |-> {}, fill |-> {},
            unmap |-> {"mapped"}, flush |-> {"buffer", "native"}]

(* A mapping without an address is unmapped, then given up like a failed   *)
(* one; what failed to be unmapped or flushed is not tried again.          *)
Abort ==
    [request |-> {}, fence |-> {"buffer"}, native |-> {"buffer"},
     map |-> {"buffer", "native"}, fill |-> {"buffer", "mapped", "native"},
     unmap |-> {"mapped", "buffer", "native"}, flush |-> {"buffer", "native"}]

HeldAfter(n) == UNION {Acquires[Calls[i]] : i \in 1..n}
                  \ UNION {Returns[Calls[i]] : i \in 1..n}

(* A failed request arms the pause, a slow one may. *)
UpdateCpuBackpressure(failed) ==
    \/ timers' = {"pressure"}
    \/ ~failed /\ timers' = timers \ {"retry"}

(* Outside GLES mode the GLES renderer is torn down first. *)
LeaveGlesLosesTrack ==     \* mutant: forgotten, not torn down
    gles' = NoGles /\ UNCHANGED <<gpu, configVars, ui>>
LeaveGles ==
    /\ gpu' = IF gles.state = "UNINITIALIZED" THEN gpu ELSE NoGpu
    /\ gles' = NoGles
    /\ UNCHANGED <<configVars, ui>>

CpuFails ==
    /\ AtDraw(FALSE) /\ LeaveGles
    /\ \E n \in DOMAIN Calls :
          /\ UpdateCpuBackpressure(n = 1)
          /\ held' = held \union (HeldAfter(n - 1) \ Abort[Calls[n]])
    /\ Dropped /\ UNCHANGED video

CpuDraws ==
    /\ AtDraw(FALSE) /\ LeaveGles
    /\ UpdateCpuBackpressure(FALSE)
    /\ held' = held \union HeldAfter(Len(Calls))
    /\ video' = SetRenderModeState(render.mode)
    /\ Drawn("cpu")

GlesFails == GlesRecreateFails \/ GlesInitFails

Render ==
    \/ MaybeRecoverDegradedMode \/ NeedConfigUpdate \/ EnsureWindowConfigured
    \/ GlesWaits \/ GlesFails \/ GlesDraws \/ GlesSwapFails
    \/ CpuDraws \/ CpuFails

-----------------------------------------------------------------------------
(* The other threads: SetScalingMode's three stores, and the game thread's *)
(* SetGeometry and SetPixelFormat.                                         *)

OthersCall(v) ==
    /\ video' = v
    /\ UNCHANGED <<configVars, glesVars, render, held, timers, picture>>

SetScalingMode(mode) ==
    /\ ui.pc = "idle"
    /\ video.scaling # mode
    /\ ui' = [pc |-> "flag", mode |-> mode]
    /\ OthersCall([video EXCEPT !.scaling = mode])

SetScalingModeFlag ==
    /\ ui.pc = "flag"
    /\ ui' = [ui EXCEPT !.pc = "state"]
    /\ OthersCall([video EXCEPT !.changed = TRUE])

SetScalingModeState ==
    /\ ui.pc = "state"
    /\ ui' = NoCall
    /\ OthersCall(SetRenderModeState(ui.mode))

SetGeometry ==
    /\ ~video.changed
    /\ OthersCall([video EXCEPT !.changed = TRUE])
    /\ UNCHANGED ui

-----------------------------------------------------------------------------
(* The window, as RenderThread hands it on between two frames.             *)

ResetMode(v) ==
    [v EXCEPT !.changed = FALSE, !.state = Ready[v.scaling],
              !.from = "SW", !.failures = 0, !.attempts = 0, !.streak = 0]

(* Reset, when there was a window; ForceReconfiguration, when there is one. *)
AfterRebind(bind) ==
    [IF window.bound THEN ResetMode(video) ELSE video EXCEPT !.changed = bind]

Rebind(bind, v) ==
    /\ render.pc = "idle"
    /\ bind \/ window.bound
    /\ video' = v
    /\ window' = [bound |-> bind, active |-> FALSE,
                  size |-> IF window.bound THEN 0 ELSE window.size,
                  geometry |-> Unset]
    /\ IF window.bound
       THEN /\ conf' = [conf EXCEPT !.base = 0, !.request = Unset,
                                    !.mode = video.scaling]
            /\ cache' = Unset
            /\ gpu' = IF gles.state = "UNINITIALIZED" THEN gpu ELSE NoGpu
            /\ gles' = NoGles
            /\ timers' = {}
       ELSE UNCHANGED <<conf, cache, glesVars, timers>>
    /\ picture' = "none"
    /\ UNCHANGED <<render, held, ui>>

AfterResize(size) == [video EXCEPT !.changed = @ \/ size # window.size]

Resized(size, v, geometry) ==
    /\ render.pc = "idle"
    /\ video' = v
    /\ window' = [window EXCEPT !.size = size, !.geometry = geometry,
                                !.active = window.bound /\ size > 0]
    /\ UNCHANGED <<conf, glesVars, render, held, timers, picture, ui>>

Expire(timer) ==
    /\ timer \in timers
    /\ timers' = timers \ {timer}
    /\ UNCHANGED <<video, configVars, glesVars, render, held, picture, ui>>

Init ==
    /\ video = [scaling |-> "GLES", changed |-> FALSE, state |-> "GLES_READY",
                from |-> "SW", failures |-> 0, attempts |-> 0, streak |-> 0]
    /\ gles = NoGles /\ gpu = NoGpu
    /\ conf = [base |-> 0, mode |-> "GLES", request |-> Unset, retries |-> 0]
    /\ cache = Unset
    /\ window = [bound |-> FALSE, active |-> FALSE, size |-> 0,
                 geometry |-> Unset]
    /\ render = NoFrame
    /\ held = {} /\ timers = {} /\ picture = "none"
    /\ ui = NoCall

Others ==
    \/ \E mode \in Modes : SetScalingMode(mode)
    \/ SetScalingModeFlag \/ SetScalingModeState \/ SetGeometry
    \/ \E timer \in Timers : Expire(timer)

-----------------------------------------------------------------------------
(* Safety. *)

(* Between two frames, and with no call of SetScalingMode on the way, a    *)
(* window that is not marked for a configuration has the geometry of the   *)
(* mode, the frame and the window size there are now: the mark is not lost *)
(* to the mode changing under the configuration, to a refusal, to the      *)
(* cache or to the base size that short-circuits its exchange.             *)
ConfiguredForMode ==
    (/\ render.pc = "idle" /\ ui.pc = "idle" /\ window.bound
     /\ ~video.changed /\ conf.base # 0)
      => window.geometry = Geometry(video.scaling, conf.base, window.size)

(* Going back to the degraded mode is tried at most once for each time the *)
(* mode was degraded, never more often than the code allows, and only      *)
(* while the limit of degradations is not reached: the recoveries of       *)
(* MaybeRecoverDegradedMode and the failures of EnterDegradedMode, counted *)
(* in different places and reset by a GLES success, keep pace.             *)
RecoveryBounded ==
    /\ video.attempts <= video.failures
    /\ video.attempts < AttemptLimit
    /\ video.state = "DEGRADED_TO_SW" /\ video.from # "SW"
         => video.attempts < video.failures /\ video.failures < FailureLimit

(* "Keep software mode until next explicit switch" (EnterDegradedMode):    *)
(* once the limit is reached, only the UI takes the pipeline out of it.    *)
KeepsSoftware ==
    [][video.scaling = "SW" /\ video.failures >= FailureLimit
         => video'.scaling = "SW" \/ ui' # ui]_vars

-----------------------------------------------------------------------------
(* Liveness, under the fairness of HardwareRender.                         *)

SetScalingModeGoesOn == SetScalingModeFlag \/ SetScalingModeState

(* From some time on the window stays, the user leaves the mode alone, the *)
(* buffers of the window and the swaps of the surface work.                *)
Calm ==
    /\ <>[](window.active /\ ui.pc = "idle")
    /\ <>[][~CpuFails /\ ~GlesSwapFails]_vars

(* The user has chosen GLES anew before a software frame could clear the   *)
(* fatal state.                                                            *)
ChosenAgain ==
    gles.state = "FATAL" /\ video.scaling = "GLES" /\ video.state # "RECOVERING"

(* Degradation shows a picture: whatever GLES does, with working buffers   *)
(* the frames come to the window again and again, unless the mode was      *)
(* chosen again in the fatal state.                                        *)
PictureReturns == Calm => []<>(picture # "none") \/ <>[]ChosenAgain
=============================================================================
