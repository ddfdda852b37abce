--------------------------- MODULE HardwareRender ---------------------------
(***************************************************************************)
(* VideoPipeline with the cores that draw for themselves: the hardware     *)
(* half of video_pipeline.cpp over GraphicsContext and HwRenderPresenter   *)
(* (EGL) and over VulkanContext and VulkanPresenter, and the handlers of   *)
(* RenderThread that call it.                                              *)
(*                                                                         *)
(* A core asks for its context in SET_HW_RENDER, before its first frame;   *)
(* the engine then has the render thread bind the same window once more.   *)
(* From then on its frames are swaps, never software frames.  The next     *)
(* core is loaded after a stop, which unbinds the window; the load in      *)
(* STARTING or ERROR, where it stays bound, is left out.  Each handler of  *)
(* the render thread is one step: nobody else reads what it changes, but   *)
(* for the Vulkan interface, which only exists while the presenter does.   *)
(***************************************************************************)
EXTENDS VideoPipeline

CONSTANT Sessions   \* bound: the cores of a run, one after the other

VARIABLES
    env,   \* the cores of this run, which one it is, whether EnvState has its
           \* SET_HW_RENDER, and whether the rebind that asks for is queued
    hw     \* the contexts, presenters and hw_window_ of VideoPipeline

hwVars == <<env, hw>>
allVars == <<vars, hwVars>>

(* The callback of a core: its API, and cache_context. *)
Kinds == [api : {"none", "egl", "vulkan"}, cached : BOOLEAN]
ASSUME SessionsAssumption == Sessions \subseteq Seq(Kinds)

Kind == env.session[env.core]

NoHw == [context |-> FALSE, ready |-> FALSE, target |-> "none", told |-> 0,
         vulkan |-> FALSE, chain |-> "none", fence |-> TRUE, window |-> "none"]

(* SetHwRenderCallback stores the callback: until then it is all zeroes. *)
Api == IF env.enabled THEN Kind.api ELSE "none"
Cached == env.enabled /\ Kind.cached
HasHardwareContext == hw.vulkan \/ hw.context

-----------------------------------------------------------------------------
(* DestroyHardwareRendererImpl and OnHardwareWindowDestroyedImpl, as        *)
(* functions of the hardware state.  Both look at the callback to know     *)
(* what there is to destroy.                                               *)

DestroyHardwareRenderer(h) ==
    CASE Api = "vulkan" ->
           [h EXCEPT !.vulkan = FALSE, !.chain = "none", !.fence = TRUE,
                     !.window = "none"]
      [] Api # "vulkan" /\ h.context ->
           [h EXCEPT !.context = FALSE, !.ready = FALSE, !.target = "none",
                     !.told = 0, !.window = "none"]
      [] OTHER -> [h EXCEPT !.window = "none"]

OnHardwareWindowDestroyed(h) ==
    IF Api # "vulkan" /\ Cached /\ h.context
    THEN [h EXCEPT !.ready = FALSE, !.window = "none"]
    ELSE DestroyHardwareRenderer(h)

(* GraphicsContext::Destroy: hw_presenter_ is not told. *)
LoseContext(h) ==
    [h EXCEPT !.context = FALSE, !.ready = FALSE, !.told = 0,
              !.target = IF @ = "none" THEN @ ELSE "stale"]

(* EnsureTarget makes the target once, and again when the size changes; a  *)
(* target that cannot be made is left behind empty.                        *)
CreateRenderTarget == {"none", "made"}
EnsureTarget(h) ==
    {[h EXCEPT !.target = t] :
        t \in IF h.target = "stale" THEN {"stale"} ELSE CreateRenderTarget}

(* A context that matches the configuration is kept by a core that caches  *)
(* it; of a compatible one context_reset says nothing.                     *)
Kept(h, compatible) ==
    IF h.context /\ ~(compatible /\ Cached) THEN DestroyHardwareRenderer(h) ELSE h

GraphicsReady(h) == [h EXCEPT !.context = TRUE, !.ready = TRUE, !.window = "bound"]

Told(before, after) == [after EXCEPT !.told = IF before.context THEN @ ELSE env.core]

InitializeEgl(h, compatible) ==
    LET kept == Kept(h, compatible)
    IN  [failed |-> {LoseContext(kept)},
         made   |-> EnsureTarget(Told(kept, GraphicsReady(kept)))]

(* Each failure, of the instance, the surface, the device, the chain or    *)
(* the presenter, destroys what there is.                                  *)
VulkanFailures(h) == {DestroyHardwareRenderer(h)}
WithChain(h) == [h EXCEPT !.chain = "live"]

InitializeVulkan(h) ==
    [failed |-> VulkanFailures(h),
     made   |-> {[WithChain(h) EXCEPT !.vulkan = TRUE, !.fence = TRUE,
                                      !.window = "bound", !.told = env.core]}]

InitializeHardwareRenderer(h) ==
    IF Api = "vulkan" THEN {InitializeVulkan(h)}
    ELSE {InitializeEgl(h, compatible) : compatible \in BOOLEAN}

(* CreateSwapchain destroys the old one first; the presenter keeps what it *)
(* has until the new one is handed over.  Within 200 ms nothing is tried.  *)
RecreateVulkanSwapchain(ok) ==
    IF ok THEN {WithChain(hw)} ELSE {hw, [hw EXCEPT !.chain = "gone"]}

-----------------------------------------------------------------------------
(* The game thread. *)

Unmoved == UNCHANGED <<configVars, glesVars, render, held, timers, ui>>

SetHwRender ==
    /\ Kind.api # "none" /\ ~env.enabled
    /\ env' = [env EXCEPT !.enabled = TRUE, !.rebind = window.bound]
    /\ UNCHANGED <<hw, video, picture>> /\ Unmoved

(* ResetCoreState, and the next core. *)
LoadCore ==
    /\ env.core < Len(env.session)
    /\ ~window.bound
    /\ env' = [env EXCEPT !.core = @ + 1, !.enabled = FALSE, !.rebind = FALSE]
    /\ UNCHANGED <<hw, video, picture>> /\ Unmoved

-----------------------------------------------------------------------------
(* The render thread. *)

(* HandleSetWindow: the old window goes, then the new one comes. *)
HandleSetWindow(bind) ==
    LET v == AfterRebind(bind)
        h == IF window.bound /\ (env.enabled \/ HasHardwareContext)
             THEN OnHardwareWindowDestroyed(hw) ELSE hw
    IN  /\ env.rebind => bind
        /\ env' = [env EXCEPT !.rebind = FALSE]
        /\ IF ~(bind /\ env.enabled)
           THEN hw' = h /\ Rebind(bind, v)
           ELSE \E outcome \in InitializeHardwareRenderer(h) :
                   \/ hw' \in outcome.failed /\ Rebind(bind, MarkHardwarePathFailure(v))
                   \/ hw' \in outcome.made /\ Rebind(bind, MarkHardwarePathRecovered(v))

(* HandleResize without a hardware renderer to tell. *)
HandleResize(size) ==
    /\ ~(window.bound /\ size > 0 /\ env.enabled)
    /\ Resized(size, AfterResize(size), window.geometry)
    /\ UNCHANGED <<cache, hwVars>>

Mark(v, ok) == IF ok THEN MarkHardwarePathRecovered(v) ELSE MarkHardwarePathFailure(v)

ResizeVulkan(size, ok) ==
    /\ window.bound /\ Api = "vulkan"
    /\ ok => hw.vulkan
    /\ Resized(size, Mark(AfterResize(size), ok), window.geometry)
    /\ hw' \in IF hw.vulkan THEN RecreateVulkanSwapchain(ok) ELSE {hw}
    /\ UNCHANGED <<cache, env>>

(* A surface that cannot be made again takes the renderer with it, and the *)
(* window's configuration if hw_window_ is set.                            *)
ResizeEgl(size, ok) ==
    LET lost == ~ok /\ hw.context
        reset == lost /\ hw.window = "bound"
    IN  /\ window.bound /\ Api = "egl"
        /\ ok => hw.ready
        /\ Resized(size, Mark(AfterResize(size), ok),
                   IF reset THEN Unset ELSE window.geometry)
        /\ hw' = IF lost THEN DestroyHardwareRenderer(hw) ELSE hw
        /\ cache' = IF reset THEN Unset ELSE cache
        /\ UNCHANGED env

HandleRuntimeChanged ==
    /\ render.pc = "idle" /\ window.active
    /\ Api = "egl" /\ hw.ready
    /\ hw' \in EnsureTarget(hw)
    /\ UNCHANGED <<env, video, picture>> /\ Unmoved

(* A frame of the core is a swap.  Until the rebind is through its frames  *)
(* carry a generation the render thread does not have yet.                 *)
AtSwap(api) ==
    /\ render.pc = "idle" /\ window.active
    /\ Api = api /\ ~env.rebind

Swapped(ok) ==
    /\ video' = Mark(video, ok)
    /\ picture' = IF ok THEN "hw" ELSE "none"
    /\ UNCHANGED env /\ Unmoved

SwapEgl(ok) ==
    /\ AtSwap("egl")
    /\ ok => hw.ready
    /\ Swapped(ok)
    /\ UNCHANGED hw

(* Present gives up before it comes to the fence. *)
NothingToPresent == AtSwap("vulkan") /\ Swapped(FALSE) /\ UNCHANGED hw

(* SubmitFrame resets the fence; a refused submission leaves it so.        *)
SubmitRefused ==
    /\ AtSwap("vulkan") /\ hw.vulkan /\ hw.fence
    /\ hw' = [hw EXCEPT !.fence = FALSE]
    /\ Swapped(FALSE)

(* The submission waits for an image nobody acquires: whether it is ever   *)
(* done, and the fence signalled, is the driver's choice.                  *)
Submit(h) == {[h EXCEPT !.fence = done] : done \in BOOLEAN}

PresentVulkan ==
    /\ AtSwap("vulkan") /\ hw.vulkan /\ hw.fence
    /\ hw' \in Submit(hw)
    /\ Swapped(TRUE)

(* The presentation is refused, and the chain made anew if out of date. *)
PresentRefused(recreated) ==
    /\ AtSwap("vulkan") /\ hw.vulkan /\ hw.fence
    /\ hw' \in UNION {Submit(h) : h \in RecreateVulkanSwapchain(recreated)}
    /\ video' = Mark(video, recreated)
    /\ picture' = "none"
    /\ UNCHANGED env /\ Unmoved

(* SubmitFrame waits for the fence without a limit. *)
WaitForFence ==
    /\ AtSwap("vulkan") /\ hw.vulkan /\ ~hw.fence
    /\ Goto("stuck")
    /\ UNCHANGED <<video, configVars, glesVars, held, timers, picture, ui, hwVars>>

SwapHardwareBuffers ==
    \/ \E ok \in BOOLEAN : SwapEgl(ok)
    \/ NothingToPresent \/ SubmitRefused \/ PresentVulkan \/ WaitForFence
    \/ \E recreated \in BOOLEAN : PresentRefused(recreated)

-----------------------------------------------------------------------------
HwInit ==
    /\ Init
    /\ hw = NoHw
    /\ env \in [session : Sessions, core : {1}, enabled : {FALSE}, rebind : {FALSE}]

SoftwareFrame ==
    /\ Kind.api = "none"
    /\ \E size \in FrameSizes : BeginFrame(size)

HwNext ==
    \/ (SoftwareFrame \/ Render \/ Others) /\ UNCHANGED hwVars
    \/ SetHwRender \/ LoadCore
    \/ \E bind \in BOOLEAN : HandleSetWindow(bind)
    \/ \E size \in WindowSizes \union {0} : HandleResize(size)
    \/ \E size \in WindowSizes, ok \in BOOLEAN :
          ResizeVulkan(size, ok) \/ ResizeEgl(size, ok)
    \/ HandleRuntimeChanged \/ SwapHardwareBuffers

-----------------------------------------------------------------------------
(* Safety. *)

(* Who feeds the window: an EGL surface of the GLES renderer or of the     *)
(* core, a swapchain, or the buffers RenderCPU fills.                      *)
Producers ==
    {p \in {"cpu", "gles", "egl", "vulkan"} :
        CASE p = "cpu"    -> picture = "cpu"
          [] p = "gles"   -> "surface" \in gpu.has
          [] p = "egl"    -> hw.ready
          [] p = "vulkan" -> hw.vulkan}

(* A window has one producer at a time, and none once it is given up: the  *)
(* renderers are torn down in every order of mode changes, degradations,   *)
(* rebinds and failed initialisations.                                     *)
OneProducer == Cardinality(Producers) <= IF window.bound THEN 1 ELSE 0

-----------------------------------------------------------------------------
(* Frames keep coming, what the render and the UI thread have begun goes   *)
(* on, and time passes; the driver owes nothing.                           *)
HwSpec ==
    /\ HwInit /\ [][HwNext]_allVars
    /\ WF_allVars(SoftwareFrame /\ UNCHANGED hwVars)
    /\ WF_allVars(Render /\ UNCHANGED hwVars)
    /\ WF_allVars(SetScalingModeGoesOn /\ UNCHANGED hwVars)
    /\ \A timer \in Timers : WF_allVars(Expire(timer) /\ UNCHANGED hwVars)

(* Degradation shows a picture, for a core whose frames are software's.    *)
SoftwarePictureReturns == <>[](Kind.api = "none") => PictureReturns
=============================================================================
