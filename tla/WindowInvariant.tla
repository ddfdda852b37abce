------------------------- MODULE WindowInvariant -------------------------
(***************************************************************************)
(* The inductive invariant behind QuietSessionIsCurrent of WindowSession.  *)
(*                                                                         *)
(* "Quiet, therefore current" says nothing of the states in between.  What *)
(* holds in every one of them is that the current window and the current   *)
(* size are on their way: as a message to the game thread, as a binding it *)
(* is about to make, as a command of the render thread, or at the session  *)
(* already.  Nothing stale may arrive after them: surface generations only *)
(* grow along the way, so the message, binding or command of the current   *)
(* generation is the last one that counts.  A new surface, and a new       *)
(* binding, make the render thread forget its size, so the size has to be  *)
(* behind the window on the way.                                           *)
(***************************************************************************)
EXTENDS WindowSession

\* What each variable holds.
WindowOrNot == Windows \cup {NoWindow}
SurfaceMsgs == [type : {"WindowCreated", "WindowDestroyed"}, generation : Nat]
MessageSet == SurfaceMsgs \cup [type : {"WindowResized"}, size : WindowOrNot]
ControlSet ==
  [type : {"TICK", "STOP"}] \cup [type : {"RESIZE"}, size : WindowOrNot]
    \cup [type : {"SET_WINDOW"}, window : WindowOrNot, generation : Nat]

\* A step with the values it has read.
StepRecords(steps) ==
  [step : steps, window : WindowOrNot, size : WindowOrNot, generation : Nat, rebind : BOOLEAN]

\* The steps of the three callers, and the states of the render session.
UiSteps == {"idle", "set", "changed", "rebind", "resize", "send_size"}
GameSteps == {"off", "top", "bind", "frame", "stop", "join"}
ControlSteps == {"off", "render", "window", "publish", "on", "stopping"}

SessionStates ==
  {"DETACHED", "ATTACHED_PENDING_SIZE", "PAUSED_SURFACE", "READY", "DESTROYED"}

\* The type invariant of the session.
SessionTypes ==
  /\ guard \in WindowOrNot /\ lastSize \in WindowOrNot
  /\ generation \in Nat /\ events \in Nat
  /\ closed \in BOOLEAN
  /\ messages \in Seq(MessageSet)
  /\ ui \in StepRecords(UiSteps)
  /\ game \in StepRecords(GameSteps)
  /\ control \in StepRecords(ControlSteps)
  /\ controlQueue \in Seq(ControlSet)
  /\ session \in [window : WindowOrNot, generation : Nat, size : WindowOrNot,
                  state : SessionStates]

\* Each kind of message is in the control queue at most once.
Once(q) ==
  /\ \A i, j \in DOMAIN q : q[i].type = q[j].type => i = j
  /\ \A i \in DOMAIN q : q[i].type = "TICK" => i = Len(q)
QueueForm == Once(controlQueue)

\* READY says what it means, and the window is gone when the loop is.
SessionForm ==
  /\ session.state = "READY" <=> session.window # NoWindow /\ session.size # NoWindow
  /\ rpc \in {"none", "exited"} => session.window = NoWindow

\* Queues without a STOP, and without a window or a size.
NoStop(q) == \A i \in DOMAIN q : q[i].type # "STOP"
NoBinding(q) == \A i \in DOMAIN q : q[i].type \notin {"SET_WINDOW", "RESIZE"}

\* The threads that exist, and who may be under way.
Live == {"window", "publish", "on"}
PhaseInv ==
  /\ ui.step # "idle" => events > 0 /\ control.step \in {"off", "on"}
  /\ control.step \in {"off", "render"} => rpc = "none"
  /\ control.step = "off" => game.step = "off"
  /\ control.step = "render" => game.step = "top"
  /\ control.step \in Live =>
       /\ renderRunning /\ ~stopRequested /\ ~closed
       /\ rpc \in {"begin", "loop", "tick"}
       /\ game.step \in {"top", "bind", "frame"}
  /\ control.step = "stopping" =>
       /\ game.step \in {"top", "bind", "frame"} => renderRunning
       /\ game.step = "off" => rpc = "none"
  /\ control.step \in {"render", "window"} =>
       /\ messages = <<>> /\ generation = 0 /\ surfaceState = "UNINITIALIZED"
       /\ ~closed /\ game.step = "top"
  /\ control.step = "window" =>
       /\ session.window = NoWindow
       /\ NoBinding(controlQueue)
  /\ game.step \notin {"off", "join"} /\ control.step # "render" => NoStop(controlQueue)

\* A surface callback under way knows the engine's window.
UiInv ==
  /\ ui.step \in {"changed", "rebind", "resize", "send_size"} => guard = ui.window
  /\ ui.step \in {"rebind", "resize", "send_size"} => guard # NoWindow
  /\ ui.step = "rebind" => ui.rebind
  /\ ui.step = "set" => guard # NoWindow \/ ui.window # NoWindow
  /\ surfaceState = "VALID" => lastSize # NoWindow

\* What the game thread is told: of a surface or of a size.
IsSurface(m) == m.type \in {"WindowCreated", "WindowDestroyed"}
IsSize(m) == m.type = "WindowResized"

\* The message of the current generation.
Pending(i) ==
  i \in DOMAIN messages /\ IsSurface(messages[i]) /\ messages[i].generation = generation

\* The same for the binding the game thread is making, and the commands.
IsPending == \E i \in DOMAIN messages : Pending(i)
IsBinding == game.step = "bind" /\ game.generation = generation
Queues(i) == i \in DOMAIN controlQueue /\ controlQueue[i].type = "SET_WINDOW"

\* Generations only grow on the way.
GenerationInv ==
  /\ \A i \in DOMAIN messages :
       IsSurface(messages[i]) => messages[i].generation \in 1..generation
  /\ \A i, j \in DOMAIN messages : Pending(i) /\ IsSurface(messages[j]) => j <= i
  /\ game.step = "bind" => game.generation \in 1..generation
  /\ game.step = "bind" => (IsPending <=> game.generation # generation)
  /\ \A i \in DOMAIN controlQueue : Queues(i) =>
       /\ controlQueue[i].generation \in 1..generation
       /\ IsPending \/ IsBinding => controlQueue[i].generation # generation
  /\ session.window # NoWindow =>
       /\ session.generation <= generation
       /\ IsPending \/ IsBinding \/ (\E i \in DOMAIN controlQueue :
                     Queues(i) /\ controlQueue[i].generation = generation)
            => session.generation # generation

\* The current window was destroyed if its message says so.
DestroyedInv ==
  ui.step # "changed" =>
    \A i \in DOMAIN messages :
      Pending(i) /\ messages[i].type = "WindowDestroyed" => guard = NoWindow

\* The current window is on its way or has arrived.
WindowComes ==
  \/ IsPending \/ IsBinding
  \/ \E i \in DOMAIN controlQueue : controlQueue[i] = SetWindowMsg(guard, generation)
  \/ /\ \A i \in DOMAIN controlQueue : ~Queues(i)
     /\ session.window = guard /\ (guard # NoWindow => session.generation = generation)

\* The size the render thread will have once its queue is handled,
QueueBrings(s) ==
  \/ \E i \in DOMAIN controlQueue :
       /\ controlQueue[i] = ResizeMsg(s)
       /\ \A j \in DOMAIN controlQueue : Queues(j) => j < i
  \/ /\ s = NoWindow
     /\ \E j \in DOMAIN controlQueue :
          /\ Queues(j)
          /\ \A i \in DOMAIN controlQueue : controlQueue[i].type = "RESIZE" => i < j
  \/ /\ session.size = s
     /\ NoBinding(controlQueue)

\* and once all messages are.
Brings(s) ==
  \/ \E i \in DOMAIN messages :
       /\ messages[i] = Resized(s)
       /\ \A j \in DOMAIN messages : IsSize(messages[j]) \/ Pending(j) => j <= i
  \/ /\ s = NoWindow
     /\ \E j \in DOMAIN messages :
          Pending(j) /\ \A i \in DOMAIN messages : IsSize(messages[i]) => i < j
  \/ /\ \A i \in DOMAIN messages : ~IsSize(messages[i])
     /\ ~IsPending
     /\ IF IsBinding THEN s = NoWindow ELSE QueueBrings(s)

\* What the surface callbacks have stored.
Known == IF surfaceState = "VALID" THEN lastSize ELSE NoWindow

\* The stored size is on its way, or the callback is about to send it.
SizeComes ==
  /\ ui.step \in {"idle", "set"} \/ (ui.step = "resize" /\ ~ui.rebind) =>
       IF guard = NoWindow THEN surfaceState # "VALID" ELSE Brings(Known)
  /\ ui.step = "send_size" => ui.size = Known

\* The arrival, by the step of the control thread.
ArrivalInv ==
  /\ control.step \in {"publish", "on"} /\ ui.step # "changed" => WindowComes
  /\ control.step = "publish" =>
       guard # NoWindow /\ Brings(NoWindow) /\ control.size = lastSize
  /\ control.step = "on" => SizeComes

\* The forms of the state, the flow of windows and sizes, and both.
SessionBase == SessionTypes /\ QueueForm /\ SessionForm /\ PhaseInv /\ UiInv

SessionFlow == (control.step \in Live => GenerationInv /\ DestroyedInv) /\ ArrivalInv

SessionInv == SessionBase /\ SessionFlow

===========================================================================
