---------------------------- MODULE RenderThread ----------------------------
\* The render thread: its control queue, the queue of two frames, the session
\* with the native window and the vsync requests that drive it
\* (core/engine/render_thread.cpp, bounded_latest_frame_queue.h).
\*
\* A generation is a number, a frame is the generation it was made in. Sizes
\* are told apart by the window they were reported for: the size w is a valid
\* size of the window w, NoWindow is a size with a side of zero or less.
EXTENDS Naturals, Sequences, SequencesExt

CONSTANTS
  Windows,    \* native windows
  NoWindow    \* nullptr, and the size zero

ASSUME NoWindowAssumption == NoWindow \notin Windows

VARIABLES
  renderRunning,   \* running_
  stopRequested,   \* stopRequested_
  controlQueue,    \* controlQueue_
  latestFrame,     \* the back of frameQueue_: {} or {the frame's generation}
  session,         \* windowSession_: window, generation, size, state
  rpc,             \* where the render thread is
  vsyncActive,     \* nativeVsyncActive_
  vsyncRequested,  \* the system owes a vsync callback
  shown,           \* a frame of this session is on screen
  refs             \* references this thread and its queue hold on a window

renderVars == <<renderRunning, stopRequested, controlQueue, latestFrame, session,
                rpc, vsyncActive, vsyncRequested, shown, refs>>

Tick       == [type |-> "TICK"]
StopMsg    == [type |-> "STOP"]
SetWindowMsg(w, g) == [type |-> "SET_WINDOW", window |-> w, generation |-> g]
ResizeMsg(s) == [type |-> "RESIZE", size |-> s]

RenderInit ==
  /\ renderRunning = FALSE /\ stopRequested = FALSE
  /\ controlQueue = <<>> /\ latestFrame = {}
  /\ session = [window |-> NoWindow, generation |-> 0, size |-> NoWindow,
                state |-> "DETACHED"]
  /\ rpc = "none"
  /\ vsyncActive = FALSE /\ vsyncRequested = FALSE
  /\ shown = FALSE
  /\ refs = [w \in Windows |-> 0]

Without(q, type) ==
  LET kept[n \in 0..Len(q)] ==
        IF n = 0 THEN <<>>
        ELSE IF q[n].type = type THEN kept[n - 1] ELSE Append(kept[n - 1], q[n])
  IN  kept[Len(q)]

\* Mutant: a size that comes while one is queued is dropped.
KeepFirstSize(q, m) ==
  IF m.type = "RESIZE" /\ Without(q, m.type) # q THEN q
  ELSE Append(IF m.type = "TICK" THEN q ELSE Without(q, "TICK"), m)

\* PushControl: a tick joins a tick at the back; anything else removes the
\* ticks, a window the windows still queued, a size the sizes still queued.
PushControl(q, m) ==
  IF m.type = "TICK"
  THEN IF q # <<>> /\ Last(q).type = "TICK" THEN q ELSE Append(q, m)
  ELSE LET calm == Without(q, "TICK")
       IN Append(IF m.type \in {"SET_WINDOW", "RESIZE"}
                 THEN Without(calm, m.type) ELSE calm, m)

\* The references on w that a queue holds: one for each window queued.
Queued(q, w) ==
  Len(SelectSeq(q, LAMBDA m : m.type = "SET_WINDOW" /\ m.window = w))

\* SetWindow retains the window; the windows it replaces in the queue are
\* released.
RetainAndDrop(w) ==
  [v \in Windows |-> refs[v] - Queued(controlQueue, v) + (IF v = w THEN 1 ELSE 0)]

\* SetWindow. The geometry the engine sends after a window (HW_RUNTIME) only
\* reaches a hardware context, and is left out with it.
SendWindow(w, g) ==
  /\ controlQueue' = PushControl(controlQueue, SetWindowMsg(w, g))
  /\ refs' = RetainAndDrop(w)

SendSize(s) == controlQueue' = PushControl(controlQueue, ResizeMsg(s))

\* EnqueueFrame: a tick is only sent if vsync does not bring one. Only the
\* latest frame is ever taken, and the others go with it (PopLatest), so that
\* it stands for the bounded queue.
EnqueueFrame(g) ==
  /\ latestFrame' = {g}
  /\ controlQueue' =
       IF vsyncActive THEN controlQueue ELSE PushControl(controlQueue, Tick)

\* Start: the queues are emptied and the thread is created.
RenderStart ==
  /\ ~renderRunning
  /\ renderRunning' = TRUE
  /\ stopRequested' = FALSE
  /\ controlQueue' = <<>>
  /\ latestFrame' = {}
  /\ rpc' = "begin"
  /\ UNCHANGED <<session, vsyncActive, vsyncRequested, shown, refs>>

\* NativeVSyncDriver. A frame callback that took its function just before the
\* driver stopped would still send its tick, and is left out.
DriverStarts == vsyncActive' = TRUE
DriverStops == vsyncActive' = FALSE /\ vsyncRequested' = FALSE
RequestNextFrame == vsyncRequested' = TRUE

\* RequestNextVSync: a request that fails falls back to the timer.
RequestNextVSync ==
  IF vsyncActive
  THEN \/ RequestNextFrame /\ UNCHANGED vsyncActive
       \/ DriverStops
  ELSE UNCHANGED <<vsyncActive, vsyncRequested>>

\* StartVSyncIfNeeded: the driver starts, or the timer is used.
StartVSyncIfNeeded ==
  \/ DriverStarts /\ RequestNextFrame
  \/ vsyncActive' = FALSE /\ UNCHANGED vsyncRequested

\* ThreadMain before its loop: vsync starts, with a first request, or not.
ThreadBegin ==
  /\ rpc = "begin"
  /\ StartVSyncIfNeeded
  /\ rpc' = "loop"
  /\ UNCHANGED <<renderRunning, stopRequested, controlQueue, latestFrame, session,
                 shown, refs>>

Released(w) == [v \in Windows |-> IF v = w THEN refs[v] - 1 ELSE refs[v]]

\* HandleSetWindow: the same window in the same generation is only released;
\* anything else starts a new session, which waits for a size.
SameBinding(w, g) ==
  session.window = w /\ (g = 0 \/ g = session.generation)

BindWindow(w, g) ==
  IF SameBinding(w, g)
  THEN refs' = Released(w) /\ UNCHANGED <<session, shown>>
  ELSE /\ session' = [window |-> w,
                      generation |-> IF g > 0 THEN g ELSE session.generation + 1,
                      size |-> NoWindow,
                      state |-> IF w = NoWindow THEN "DESTROYED"
                                ELSE "ATTACHED_PENDING_SIZE"]
       /\ refs' = Released(session.window)
       /\ shown' = FALSE

HandleSetWindow(m) ==
  /\ BindWindow(m.window, m.generation)
  /\ latestFrame' =
       IF SameBinding(m.window, m.generation) THEN latestFrame ELSE {}

\* HandleResize: a valid size makes an attached window READY.
HandleResize(m) ==
  /\ session' = [session EXCEPT
       !.size = m.size,
       !.state = CASE session.window = NoWindow -> "DETACHED"
                   [] m.size = NoWindow -> "PAUSED_SURFACE"
                   [] OTHER -> "READY"]
  /\ UNCHANGED <<latestFrame, shown, refs>>

\* The loop takes the first message and handles it; a tick is handled in a
\* step of its own, since what it does depends on what is queued by then.
TakeControl ==
  /\ rpc = "loop" /\ controlQueue # <<>>
  /\ controlQueue' = Tail(controlQueue)
  /\ LET m == Head(controlQueue)
     IN /\ rpc' = CASE m.type = "STOP" -> "exit"
                    [] m.type = "TICK" -> "tick"
                    [] OTHER -> "loop"
        /\ CASE m.type = "SET_WINDOW" -> HandleSetWindow(m)
             [] m.type = "RESIZE" -> HandleResize(m)
             [] OTHER -> UNCHANGED <<latestFrame, session, shown, refs>>
  /\ UNCHANGED <<renderRunning, stopRequested, vsyncActive, vsyncRequested>>

\* A stop request on an empty queue ends the loop, too.
StopWithoutMessage ==
  /\ rpc = "loop" /\ controlQueue = <<>> /\ stopRequested
  /\ rpc' = "exit"
  /\ UNCHANGED <<renderRunning, stopRequested, controlQueue, latestFrame, session,
                 vsyncActive, vsyncRequested, shown, refs>>

\* Without vsync the wait ends after 16 ms with a tick of its own.
TimerTick ==
  /\ rpc = "loop" /\ controlQueue = <<>> /\ ~stopRequested /\ ~vsyncActive
  /\ rpc' = "tick"
  /\ UNCHANGED <<renderRunning, stopRequested, controlQueue, latestFrame, session,
                 vsyncActive, vsyncRequested, shown, refs>>

\* HasPendingLifecycleControl and IsRenderable.
PendingLifecycleControl ==
  \E i \in DOMAIN controlQueue : controlQueue[i].type \notin {"TICK", "STOP"}

Renderable == session.state = "READY"

\* The tick draws the latest frame: it is of this session's generation, or of
\* none.
Draws ==
  /\ rpc = "tick"
  /\ ~PendingLifecycleControl
  /\ latestFrame # {}
  /\ Renderable
  /\ latestFrame \subseteq {0, session.generation}

\* HandleTick: a pending control message defers the tick, else the latest
\* frame is taken and drawn or dropped; each way asks for the next vsync.
HandleTick ==
  /\ rpc = "tick"
  /\ latestFrame' = IF PendingLifecycleControl THEN latestFrame ELSE {}
  /\ shown' = (shown \/ Draws)
  /\ RequestNextVSync
  /\ rpc' = "loop"
  /\ UNCHANGED <<renderRunning, stopRequested, controlQueue, session, refs>>

\* ThreadMain after its loop: vsync stops and the window is given back.
ThreadExit ==
  /\ rpc = "exit"
  /\ BindWindow(NoWindow, 0)
  /\ latestFrame' = {}
  /\ DriverStops
  /\ rpc' = "exited"
  /\ UNCHANGED <<renderRunning, stopRequested, controlQueue>>

\* The vsync callback: one for each request, a tick if the driver still runs.
VSyncCallback ==
  /\ vsyncRequested
  /\ vsyncRequested' = FALSE
  /\ controlQueue' =
       IF vsyncActive THEN PushControl(controlQueue, Tick) ELSE controlQueue
  /\ UNCHANGED <<renderRunning, stopRequested, latestFrame, session, rpc,
                 vsyncActive, shown, refs>>

\* The steps of the thread.
RenderStep ==
  \/ ThreadBegin \/ TakeControl \/ StopWithoutMessage \/ TimerTick \/ HandleTick
  \/ ThreadExit
=============================================================================
