--------------------------- MODULE WindowSession ---------------------------
\* The way of a native window from the surface callbacks of the UI thread over
\* the engine's message queue to the render thread
\* (app/framework/plugin_manager.cpp, core/engine/libretro_engine.cpp), with
\* the generations that keep old windows and old frames out.
\*
\* The engine's control operations are reduced to what reaches windows: Start
\* (its Reset, the two threads, the re-sent window) and a Stop that ends the
\* game thread, and with it the render thread. EngineLifecycle has the rest. A
\* game is loaded all the time, every thread starts, there is one XComponent,
\* and the core draws its frames in software.
EXTENDS RenderThread

CONSTANTS
  MaxEvents,  \* bound: surface callbacks
  MaxStarts,  \* bound: engine sessions
  MaxOverlap  \* bound: callbacks that may be under way during Start and Stop

ASSUME BoundsAssumption ==
  MaxEvents \in Nat /\ MaxStarts \in Nat /\ MaxOverlap \in Nat

VARIABLES
  guard,         \* windowGuard_: the current window
  surfaceState,  \* surface_state_
  generation,    \* surface_generation_
  lastSize,      \* last_window_width_, last_window_height_
  messages,      \* messageQueue_, as far as windows are concerned
  closed,        \* messageQueue_.closed_
  ui,            \* the UI thread: its step and the callback's values
  game,          \* the game thread: its step and the values it has read
  control,       \* the thread in Start or Stop, and the values Start has read
  alive,         \* surfaces that exist
  events, starts \* how many callbacks and sessions there were

engineVars == <<guard, surfaceState, generation, lastSize, messages, closed,
                ui, game, control, alive, events, starts>>
windowVars == <<renderVars, engineVars>>

Created(g)   == [type |-> "WindowCreated", generation |-> g]
Destroyed(g) == [type |-> "WindowDestroyed", generation |-> g]
Resized(s)   == [type |-> "WindowResized", size |-> s]

At(step) == [step |-> step, window |-> NoWindow, size |-> NoWindow,
             generation |-> 0, rebind |-> FALSE]

WindowInit ==
  /\ RenderInit
  /\ guard = NoWindow /\ surfaceState = "UNINITIALIZED" /\ generation = 0
  /\ lastSize = NoWindow
  /\ messages = <<>> /\ closed = FALSE
  /\ ui = At("idle") /\ game = At("off") /\ control = At("off")
  /\ alive = {} /\ events = 0 /\ starts = 0

\* Push: a closed queue drops the message.
Push(m) == messages' = IF closed THEN messages ELSE Append(messages, m)

\* PushCoalesce: a size replaces a size at the back.
PushSize(s) ==
  messages' =
    IF closed THEN messages
    ELSE IF messages # <<>> /\ Last(messages).type = "WindowResized"
    THEN Append(Front(messages), Resized(s))
    ELSE Append(messages, Resized(s))

\* A new generation: frames of older ones are cleared.
Bump ==
  /\ generation' = generation + 1
  /\ latestFrame' = {}
  /\ UNCHANGED <<renderRunning, stopRequested, controlQueue, session, rpc,
                 vsyncActive, vsyncRequested, shown, refs>>

------------------------------------------------------------------------------
\* The UI thread. OnSurfaceCreated and OnSurfaceChanged call SetNativeWindow,
\* then OnNativeWindowResized; the size of a new surface may be unknown yet.

MayCallBack ==
  /\ ui.step = "idle" /\ events < MaxEvents
  /\ events < MaxOverlap \/ control.step \in {"off", "on"}

SurfaceCallback(w, rebind) ==
  /\ MayCallBack
  /\ (w \in alive) = rebind
  /\ alive' = alive \cup {w}
  /\ events' = events + 1
  /\ \E s \in {w, NoWindow} :
       ui' = [At("set") EXCEPT !.window = w, !.size = s, !.rebind = rebind]
  /\ UNCHANGED <<renderVars, guard, surfaceState, generation, lastSize, messages,
                 closed, game, control, starts>>

\* OnSurfaceDestroyed: ClearNativeWindowIfMatch leaves a newer window alone.
SurfaceDestroyed(w) ==
  /\ MayCallBack
  /\ w \in alive
  /\ alive' = alive \ {w}
  /\ events' = events + 1
  /\ ui' = IF guard = w THEN At("set") ELSE ui
  /\ UNCHANGED <<renderVars, guard, surfaceState, generation, lastSize, messages,
                 closed, game, control, starts>>

\* SetNativeWindow: the window is exchanged ...
SetGuard ==
  /\ ui.step = "set"
  /\ guard' = ui.window
  /\ ui' = [ui EXCEPT !.step = IF guard # ui.window THEN "changed"
                               ELSE IF ui.rebind THEN "rebind" ELSE "resize"]
  /\ UNCHANGED <<renderVars, surfaceState, generation, lastSize, messages, closed,
                 game, control, alive, events, starts>>

SurfaceStateOf(size) == IF size = NoWindow THEN "CREATED" ELSE "VALID"

\* ... gets a generation, and is sent; a changed window has no size yet.
PublishWindow ==
  /\ ui.step \in {"changed", "rebind"}
  /\ Bump
  /\ lastSize' = IF ui.step = "changed" THEN NoWindow ELSE lastSize
  /\ IF ui.window = NoWindow
     THEN /\ surfaceState' = "DESTROYED"
          /\ Push(Destroyed(generation + 1))
          /\ ui' = At("idle")
     ELSE /\ surfaceState' = SurfaceStateOf(lastSize')
          /\ Push(Created(generation + 1))
          /\ ui' = [ui EXCEPT !.step = "resize"]
  /\ UNCHANGED <<guard, closed, game, control, alive, events, starts>>

\* Mutant: the size is stored, but the engine does not hear of it.
SizeStoredSilently ==
  /\ ui.step = "resize"
  /\ lastSize' = IF ui.size = NoWindow THEN lastSize ELSE ui.size
  /\ surfaceState' = IF ui.size = NoWindow THEN "PAUSED" ELSE "VALID"
  /\ ui' = At("idle")
  /\ UNCHANGED <<renderVars, guard, generation, messages, closed, game, control,
                 alive, events, starts>>

\* OnNativeWindowResized stores the size and the state of the surface; a
\* surface that becomes valid is bound again in a new generation ...
StoreSize ==
  /\ ui.step = "resize"
  /\ lastSize' = IF ui.size = NoWindow THEN lastSize ELSE ui.size
  /\ surfaceState' = IF ui.size = NoWindow THEN "PAUSED" ELSE "VALID"
  /\ IF ui.size # NoWindow /\ surfaceState # "VALID"
     THEN /\ Bump /\ Push(Created(generation + 1))
          /\ ui' = IF closed THEN At("idle") ELSE [ui EXCEPT !.step = "send_size"]
     ELSE /\ UNCHANGED <<renderVars, generation, messages>>
          /\ ui' = [ui EXCEPT !.step = "send_size"]
  /\ UNCHANGED <<guard, closed, game, control, alive, events, starts>>

\* OnSurfaceCreated without a size ends here.
NoSizeYet ==
  /\ ui.step = "resize" /\ ~ui.rebind
  /\ ui' = At("idle")
  /\ UNCHANGED <<renderVars, guard, surfaceState, generation, lastSize, messages,
                 closed, game, control, alive, events, starts>>

\* ... before its size is sent.
SendResized ==
  /\ ui.step = "send_size"
  /\ PushSize(ui.size)
  /\ ui' = At("idle")
  /\ UNCHANGED <<renderVars, guard, surfaceState, generation, lastSize, closed,
                 game, control, alive, events, starts>>

------------------------------------------------------------------------------
\* The game thread.

GameKeeps == UNCHANGED <<guard, surfaceState, lastSize, closed, ui, control, alive,
                         events, starts>>

\* HandleMessage(WindowCreated) drops a message of an old generation ...
PopCreated ==
  /\ game.step = "top" /\ messages # <<>> /\ Head(messages).type = "WindowCreated"
  /\ messages' = Tail(messages)
  /\ game' = IF Head(messages).generation \in {0, generation}
             THEN [At("bind") EXCEPT !.generation = Head(messages).generation]
             ELSE game
  /\ UNCHANGED <<renderVars, generation>>
  /\ GameKeeps

\* ... and sends the window that is current by now.
BindCurrent ==
  /\ game.step = "bind"
  /\ SendWindow(guard, game.generation)
  /\ game' = At("top")
  /\ UNCHANGED <<renderRunning, stopRequested, latestFrame, session, rpc,
                 vsyncActive, vsyncRequested, shown, generation, messages>>
  /\ GameKeeps

\* Mutant: the window is gone anyway, nobody need tell the render thread.
DestroyIgnored ==
  /\ game.step = "top" /\ messages # <<>>
  /\ Head(messages).type = "WindowDestroyed"
  /\ messages' = Tail(messages)
  /\ UNCHANGED <<renderVars, game, generation>>
  /\ GameKeeps

\* HandleMessage(WindowDestroyed), with the same check of the generation.
PopDestroyed ==
  /\ game.step = "top" /\ messages # <<>>
  /\ Head(messages).type = "WindowDestroyed"
  /\ messages' = Tail(messages)
  /\ IF Head(messages).generation \in {0, generation}
     THEN SendWindow(NoWindow, Head(messages).generation)
     ELSE UNCHANGED <<controlQueue, refs>>
  /\ UNCHANGED <<renderRunning, stopRequested, latestFrame, session, rpc,
                 vsyncActive, vsyncRequested, shown, game, generation>>
  /\ GameKeeps

PopResized ==
  /\ game.step = "top" /\ messages # <<>> /\ Head(messages).type = "WindowResized"
  /\ messages' = Tail(messages)
  /\ SendSize(Head(messages).size)
  /\ UNCHANGED <<renderRunning, stopRequested, latestFrame, session, rpc,
                 vsyncActive, vsyncRequested, shown, refs, game, generation>>
  /\ GameKeeps

\* OnVideoRefresh: a valid surface gets the frame, in the generation read now.
MakeFrame ==
  /\ game.step = "top" /\ messages = <<>> /\ control.step # "stopping"
  /\ surfaceState = "VALID"
  /\ game' = [At("frame") EXCEPT !.generation = generation]
  /\ UNCHANGED <<renderVars, generation, messages>>
  /\ GameKeeps

DeliverFrame ==
  /\ game.step = "frame"
  /\ EnqueueFrame(game.generation)
  /\ game' = At("top")
  /\ UNCHANGED <<renderRunning, stopRequested, session, rpc, vsyncActive,
                 vsyncRequested, shown, refs, generation, messages>>
  /\ GameKeeps

\* The loop ends once a stop was asked for, and stops the render thread: the
\* request ...
GameExit ==
  /\ game.step = "top" /\ control.step = "stopping"
  /\ renderRunning' = FALSE
  /\ IF renderRunning
     THEN stopRequested' = TRUE /\ game' = At("stop")
     ELSE UNCHANGED stopRequested /\ game' = At("off")
  /\ UNCHANGED <<controlQueue, latestFrame, session, rpc, vsyncActive,
                 vsyncRequested, shown, refs, generation, messages>>
  /\ GameKeeps

\* Mutant: only the flag is set.
StopFlagOnly ==
  /\ game.step = "stop"
  /\ game' = At("join")
  /\ UNCHANGED <<renderVars, generation, messages>>
  /\ GameKeeps

\* ... the message that wakes it ...
GameSendStop ==
  /\ game.step = "stop"
  /\ controlQueue' = PushControl(controlQueue, StopMsg)
  /\ game' = At("join")
  /\ UNCHANGED <<renderRunning, stopRequested, latestFrame, session, rpc, vsyncActive,
                 vsyncRequested, shown, refs, generation, messages>>
  /\ GameKeeps

\* ... and the join.
GameJoin ==
  /\ game.step = "join" /\ rpc \in {"none", "exited"}
  /\ rpc' = "none"
  /\ game' = At("off")
  /\ UNCHANGED <<renderRunning, stopRequested, controlQueue, latestFrame, session,
                 vsyncActive, vsyncRequested, shown, refs, generation,
                 messages>>
  /\ GameKeeps

------------------------------------------------------------------------------
\* The thread that starts and stops the engine.

NoCallbackUnderWay == ui.step = "idle" \/ events <= MaxOverlap

ControlKeeps == UNCHANGED <<guard, lastSize, ui, alive, events>>

\* Start begins with Reset: the queue is emptied and reopened, the generation
\* starts anew; then the game thread runs.
StartGameThread ==
  /\ control.step = "off" /\ starts < MaxStarts
  /\ NoCallbackUnderWay
  /\ starts' = starts + 1
  /\ messages' = <<>> /\ closed' = FALSE
  /\ surfaceState' = "UNINITIALIZED" /\ generation' = 0
  /\ game' = At("top")
  /\ control' = At("render")
  /\ UNCHANGED renderVars
  /\ ControlKeeps

StartRenderThread ==
  /\ control.step = "render"
  /\ RenderStart
  /\ control' = At("window")
  /\ UNCHANGED <<surfaceState, generation, messages, closed, game, starts>>
  /\ ControlKeeps

\* Start sends the window that exists already and reads its size,
StartSendWindow ==
  /\ control.step = "window"
  /\ IF guard = NoWindow
     THEN control' = At("on") /\ UNCHANGED <<generation, messages>>
     ELSE /\ generation' = IF generation = 0 THEN 1 ELSE generation
          /\ Push(Created(generation'))
          /\ control' = [At("publish") EXCEPT !.size = lastSize]
  /\ UNCHANGED <<renderVars, surfaceState, closed, game, starts>>
  /\ ControlKeeps

\* publishes the surface state and sends the size.
StartSendSize ==
  /\ control.step = "publish"
  /\ surfaceState' = SurfaceStateOf(control.size)
  /\ IF control.size = NoWindow THEN UNCHANGED messages
     ELSE Push(Resized(control.size))
  /\ control' = At("on")
  /\ UNCHANGED <<renderVars, generation, closed, game, starts>>
  /\ ControlKeeps

\* Stop closes the queue and waits for the game thread.
StopRequest ==
  /\ control.step = "on"
  /\ NoCallbackUnderWay
  /\ closed' = TRUE
  /\ control' = At("stopping")
  /\ UNCHANGED <<renderVars, surfaceState, generation, messages, game, starts>>
  /\ ControlKeeps

StopReturn ==
  /\ control.step = "stopping" /\ game.step = "off"
  /\ control' = At("off")
  /\ UNCHANGED <<renderVars, surfaceState, generation, messages, closed, game,
                 starts>>
  /\ ControlKeeps

------------------------------------------------------------------------------
UiStep ==
  \/ SetGuard \/ PublishWindow \/ StoreSize \/ NoSizeYet \/ SendResized

UiNext ==
  \/ \E w \in Windows :
       SurfaceCallback(w, FALSE) \/ SurfaceCallback(w, TRUE) \/ SurfaceDestroyed(w)
  \/ UiStep

GameNext ==
  \/ PopCreated \/ BindCurrent \/ PopDestroyed \/ PopResized
  \/ MakeFrame \/ DeliverFrame
  \/ GameExit \/ GameSendStop \/ GameJoin

ControlStep ==
  \/ StartRenderThread \/ StartSendWindow \/ StartSendSize \/ StopReturn

WindowNext ==
  \/ UiNext
  \/ GameNext
  \/ ControlStep \/ StartGameThread \/ StopRequest
  \/ RenderStep /\ UNCHANGED engineVars
  \/ VSyncCallback /\ UNCHANGED engineVars

WindowSpec == WindowInit /\ [][WindowNext]_windowVars

\* Threads that run, a callback, a Start and a Stop that were begun go on, and
\* the system answers a vsync request. The core makes frames when it has no
\* messages to handle. Nobody need begin a callback, a Start or a Stop, and
\* the core need not ask for hardware rendering.
LiveSpec ==
  /\ WindowSpec
  /\ WF_windowVars(UiStep)
  /\ WF_windowVars(GameNext)
  /\ WF_windowVars(ControlStep)
  /\ WF_windowVars(RenderStep /\ UNCHANGED engineVars)
  /\ WF_windowVars(VSyncCallback /\ UNCHANGED engineVars)

------------------------------------------------------------------------------

\* No callback, no message and no part of a Start is under way.
Quiet ==
  /\ ui.step = "idle" /\ control.step = "on" /\ game.step \in {"top", "frame"}
  /\ messages = <<>>
  /\ rpc \in {"loop", "tick"} /\ Without(controlQueue, "TICK") = <<>>

\* Whatever was reordered, coalesced or dropped as stale on the way, in the end
\* the render thread has the current window in the current generation, and may
\* draw into it at the last size exactly if the surface is valid.
QuietSessionIsCurrent ==
  Quiet =>
    /\ session.window = guard
    /\ guard # NoWindow => session.generation = generation
    /\ Renderable <=> surfaceState = "VALID"
    /\ Renderable => session.size = lastSize

\* The window w is current, its size is known, the engine runs and nobody is
\* about to change that.
Settled(w) ==
  /\ guard = w /\ lastSize = w /\ surfaceState = "VALID"
  /\ ui.step = "idle" /\ control.step = "on"

\* The game is on screen in the window w.
Shows(w) ==
  shown /\ session.window = w /\ session.generation = generation

\* The render thread waits without a timeout, for a callback nobody asked for.
Asleep ==
  /\ rpc = "loop" /\ controlQueue = <<>> /\ ~stopRequested
  /\ vsyncActive /\ ~vsyncRequested

\* A current window with a known size gets the game on screen, unless the
\* render thread falls asleep: no message, size or frame dropped on the way
\* was the last one that counted.
CurrentWindowShowsGame ==
  \A w \in Windows : Settled(w) ~> (Shows(w) \/ ~Settled(w) \/ Asleep)

\* The render thread lets go of a destroyed window.
DestroyedWindowLetGo ==
  (guard = NoWindow /\ ui.step = "idle") ~>
     (session.window = NoWindow \/ guard # NoWindow)

\* A stop of the engine comes back: the game thread joins the render thread.
StopJoins == control.step = "stopping" ~> control.step = "off"

=============================================================================
