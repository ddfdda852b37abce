----------------------------- MODULE InputPorts -----------------------------
(***************************************************************************)
(* Which input source drives which player port: InputPortRouter, and the   *)
(* input snapshot that the core reads.                                     *)
(*                                                                         *)
(* Two threads write.  The page calls refactoredSendInput and its siblings *)
(* and assigns the ports ("page"); the XComponent delivers keys, the mouse *)
(* and touches ("screen").  Each asks the router under its mutex whether   *)
(* and where it may write, and writes the snapshot after the mutex is      *)
(* given back: the port may have changed hands in between.  LibretroEngine *)
(* clears the whole snapshot in Reset.                                     *)
(*                                                                         *)
(* Positions, the size of an axis value, sensor values and the list of     *)
(* devices seen are left out.                                              *)
(***************************************************************************)
EXTENDS Integers

CONSTANTS
  Ports,      \* 0 .. kMaxPorts - 1
  Keyboards,  \* device ids "key:..."
  Mouse,      \* the device id "mouse:0", which touches use as well
  Others,     \* source types no event arrives with: the gamepads, unknown
  Keys,       \* key codes of the mapping table
  Buttons     \* joypad buttons, and the axes of the virtual gamepad

Devices == Keyboards \cup {Mouse}
NoDevice == "no device"

ASSUME PortsAssumption == Ports \subseteq Nat
ASSUME NamesAssumption ==
  /\ Mouse \notin Keyboards
  /\ Devices \cap {NoDevice, "virtual", "touch"} = {}
  /\ "unmapped" \notin Buttons

NoPort == -1
Types == {"none", "virtual", "keyboard", "mouse"} \cup Others
NoSource == [type |-> "none", device |-> NoDevice]
TypeOf(d) == IF d = Mouse THEN "mouse" ELSE "keyboard"
Pointer == "pointer"
Unmapped == "unmapped"
Threads == {"page", "screen"}

VARIABLES
  source,     \* portSources_: what each port listens to
  bound,      \* deviceToPort_
  held,       \* InputSnapshot: what is pressed on each port, and who pressed it
  sending,    \* per thread: the write it is about to do, or none
  table,      \* KeyMappingTable(): the button of each key
  mouseDown,  \* NewArchPointerState of the XComponent
  down        \* the keys that are down, as <<keyboard, key>>

router == <<source, bound>>
vars == <<router, held, sending, table, mouseDown, down>>

Init ==
    /\ source = [p \in Ports |-> NoSource]
    /\ bound = [d \in Devices |-> NoPort]
    /\ held = [p \in Ports |-> {}]
    /\ sending = [t \in Threads |-> {}]
    /\ table \in [Keys -> Buttons]
    /\ mouseDown = FALSE
    /\ down = {}

\* A device's events reach a port that lists it with a type that matches.
Serves(p, d) == p \in Ports /\ source[p].device = d /\ source[p].type = TypeOf(d)

\* Whether what a writer was allowed to write still belongs on the port.
Fits(by, s) ==
    CASE by = "virtual" -> s.type = "virtual"
      [] by \in Devices -> s.device = by /\ s.type = TypeOf(by)
      [] OTHER -> TRUE

-----------------------------------------------------------------------------
(* The router, under its mutex. *)

\* Binding a port clears it when its source becomes another one.
ClearedOnTypeChange(p, new, at) == at[p].type # new.type                  \* mutant
ClearedFor(p, new, at) == at[p] # new

\* A device listed on another port may not be bound to this one.
NeverTaken(p, d, at) == FALSE                                            \* mutant
TakenElsewhere(p, d, at) == d \in Devices /\ at[d] \notin {NoPort, p}

UnassignPort(p) ==
    /\ bound' = [d \in Devices |-> IF bound[d] = p /\ source[p].device = d
                                   THEN NoPort ELSE bound[d]]
    /\ held' = IF source[p].type = "none" THEN held ELSE [held EXCEPT ![p] = {}]
    /\ source' = [source EXCEPT ![p] = NoSource]
    /\ UNCHANGED <<sending, table, mouseDown, down>>

Freed(p, type) == {q \in Ports \ {p} : type = "virtual" /\ source[q].type = "virtual"}

\* A virtual port frees the other virtual ones first, even when the
\* assignment is then refused.
AssignPort(p, type, d) ==
    LET new   == [type |-> type, device |-> d]
        freed == Freed(p, type)
        srcs  == [q \in Ports |-> IF q \in freed THEN NoSource ELSE source[q]]
        map   == [e \in Devices |-> IF bound[e] \in freed /\ source[bound[e]].device = e
                                    THEN NoPort ELSE bound[e]]
        empty == [q \in Ports |-> IF q \in freed THEN {} ELSE held[q]]
    IN
    /\ type # "none"
    /\ \/ /\ TakenElsewhere(p, d, map)
          /\ source' = srcs /\ bound' = map /\ held' = empty
       \/ /\ ~TakenElsewhere(p, d, map)
          /\ source' = [srcs EXCEPT ![p] = new]
          /\ bound' = [e \in Devices |-> IF e = d THEN p
                                         ELSE IF map[e] = p /\ srcs[p].device = e THEN NoPort
                                         ELSE map[e]]
          /\ held' = [empty EXCEPT ![p] = IF ClearedFor(p, new, srcs) THEN {} ELSE @]
    /\ UNCHANGED <<sending, table, mouseDown, down>>

Candidates(d) == {p \in Ports : source[p].type = TypeOf(d) /\ source[p].device \in {d, NoDevice}}
IsLowest(p, S) == p \in S /\ \A q \in S : p <= q

\* The lowest port of the type that is free or lists the device, mapped only
\* when the port was free.
AutoBind(d, p) ==
    /\ IsLowest(p, Candidates(d))
    /\ source' = [source EXCEPT ![p].device = d]
    /\ bound' = [bound EXCEPT ![d] = IF source[p].device = NoDevice THEN p ELSE NoPort]

Unresolved(d, p) ==
    /\ Candidates(d) = {} /\ p = NoPort
    /\ bound' = [bound EXCEPT ![d] = NoPort] /\ UNCHANGED source

\* A mapping that no longer matches its port is erased on the way.
ResolveAfresh(d, p) == AutoBind(d, p) \/ Unresolved(d, p)                 \* mutant
ResolvePortForDevice(d, p) ==
    \/ Serves(bound[d], d) /\ p = bound[d] /\ UNCHANGED router
    \/ ~Serves(bound[d], d) /\ (AutoBind(d, p) \/ Unresolved(d, p))

-----------------------------------------------------------------------------
(* The snapshot, written after the router has answered.  A press is marked *)
(* "late" when the port has changed hands since, and "missed" once its     *)
(* release can no longer find it.                                          *)

Free(t) == sending[t] = {}
Sends(t, p, input, on, by) ==
    sending' = [sending EXCEPT ![t] = {[port |-> p, input |-> input, on |-> on, by |-> by,
                                              mark |-> "fits"]}]

Write(t) ==
    /\ \E w \in sending[t] :
         held' = [held EXCEPT ![w.port] =
                    {h \in @ : h.input # w.input} \cup
                    (IF w.on THEN {[input |-> w.input, by |-> w.by,
                      mark |-> IF Fits(w.by, source[w.port]) THEN w.mark ELSE "late"]} ELSE {})]
    /\ sending' = [sending EXCEPT ![t] = {}]
    /\ UNCHANGED <<router, table, mouseDown, down>>

Missed(x, devices) == [x EXCEPT !.mark = IF x.by \in devices /\ @ = "fits" THEN "missed" ELSE @]
MarkMissed(devices) ==
    /\ held' = [p \in Ports |-> {Missed(h, devices) : h \in held[p]}]
    /\ sending' = [t \in Threads |-> {Missed(w, devices) : w \in sending[t]}]

\* The end of LibretroEngine::Reset.
Clear ==
    /\ held' = [p \in Ports |-> {}]
    /\ UNCHANGED <<router, sending, table, mouseDown, down>>

-----------------------------------------------------------------------------
(* The page: the virtual gamepad, the ports and the key table. *)

CanSendVirtual(p) == source[p].type = "virtual"

\* refactoredSendInput and refactoredSendAnalog: a button, or an axis that
\* leaves or takes its middle position.
SendInput ==
    /\ Free("page")
    /\ \E p \in Ports, b \in Buttons, on \in BOOLEAN :
         CanSendVirtual(p) /\ Sends("page", p, b, on, "virtual")
    /\ UNCHANGED <<router, held, table, mouseDown, down>>

AssignPortSource ==
    /\ Free("page")
    /\ \E p \in Ports, type \in Types, d \in Devices \cup {NoDevice} :
         IF type = "none" THEN UnassignPort(p) ELSE AssignPort(p, type, d)

UnassignPortSource == Free("page") /\ \E p \in Ports : UnassignPort(p)

\* Keys the new table does not name have no button any more.
UpdateInputKeyMapping ==
    /\ Free("page")
    /\ table' \in [Keys -> Buttons \cup {Unmapped}]
    /\ MarkMissed({x[1] : x \in down})
    /\ UNCHANGED <<router, mouseDown, down>>

-----------------------------------------------------------------------------
(* The XComponent: one event at a time. *)

\* A key goes down, once or again while it is held, or up.
KeyEvent(d, k, on) ==
    /\ Free("screen") /\ (on \/ <<d, k>> \in down)
    /\ down' = IF on THEN down \cup {<<d, k>>} ELSE down \ {<<d, k>>}
    /\ \/ table[k] = Unmapped /\ UNCHANGED <<router, sending>>
       \/ /\ table[k] # Unmapped
          /\ \E p \in Ports : /\ ResolvePortForDevice(d, p)
                              /\ Sends("screen", p, table[k], on, d)
       \/ /\ table[k] # Unmapped
          /\ ResolvePortForDevice(d, NoPort) /\ UNCHANGED sending
    /\ UNCHANGED <<held, table, mouseDown>>

HandleNewArchKeyEvent == \E d \in Keyboards, k \in Keys, on \in BOOLEAN : KeyEvent(d, k, on)

\* A key let go while another component has the focus: no event comes.
KeyLetGoElsewhere ==
    /\ \E x \in down : down' = down \ {x} /\ MarkMissed({x[1]})
    /\ UNCHANGED <<router, table, mouseDown>>

\* A press (now down), a release or a cancel (now up), or a move (as it was).
\* Nothing is noted when no port takes the event; nothing is sent when the size
\* of the component cannot be had.
DispatchMouseEvent ==
    /\ Free("screen")
    /\ \/ \E p \in Ports : \E now \in BOOLEAN :
            /\ ResolvePortForDevice(Mouse, p)
            /\ mouseDown' = now
            /\ Sends("screen", p, Pointer, now, Mouse) \/ UNCHANGED sending
       \/ ResolvePortForDevice(Mouse, NoPort) /\ UNCHANGED <<mouseDown, sending>>
    /\ UNCHANGED <<held, table, down>>

\* The mouse leaves the component, or its surface is destroyed.
DispatchHoverEvent ==
    /\ Free("screen") /\ mouseDown' = FALSE
    /\ UNCHANGED <<router, held, sending, table, down>>

\* A touch is the mouse's where a port takes it, else port 0's.
DispatchTouchEvent ==
    /\ Free("screen")
    /\ \E on \in BOOLEAN :
         \/ \E p \in Ports : /\ ResolvePortForDevice(Mouse, p)
                             /\ Sends("screen", p, Pointer, on, Mouse)
         \/ /\ ResolvePortForDevice(Mouse, NoPort)
            /\ \E p \in Ports : IsLowest(p, Ports) /\ Sends("screen", p, Pointer, on, "touch")
    /\ UNCHANGED <<held, table, mouseDown, down>>

\* Losing the focus lets the pointer go, on every port when none is the mouse's.
OnBlur ==
    /\ Free("screen") /\ mouseDown' = FALSE
    /\ \/ \E p \in Ports : /\ ResolvePortForDevice(Mouse, p)
                           /\ Sends("screen", p, Pointer, FALSE, Mouse)
                           /\ UNCHANGED held
       \/ /\ ResolvePortForDevice(Mouse, NoPort)
          /\ held' = [p \in Ports |-> {h \in held[p] : h.input # Pointer}]
          /\ UNCHANGED sending
    /\ UNCHANGED <<table, down>>

-----------------------------------------------------------------------------
Next ==
    \/ SendInput \/ AssignPortSource \/ UnassignPortSource
    \/ UpdateInputKeyMapping
    \/ HandleNewArchKeyEvent \/ KeyLetGoElsewhere \/ DispatchMouseEvent
    \/ DispatchHoverEvent \/ DispatchTouchEvent \/ OnBlur
    \/ Clear
    \/ \E t \in Threads : Write(t)

Spec == Init /\ [][Next]_vars

-----------------------------------------------------------------------------
Writers == Devices \cup {"virtual", "touch"}
Inputs == Buttons \cup {Pointer}
Press == [input : Inputs, by : Writers, mark : {"fits", "late", "missed"}]
OnItsWay == [port : Ports, input : Inputs, on : BOOLEAN, by : Writers, mark : {"fits", "missed"}]

\* The values the routing and the snapshot range over.
TypeOK ==
    /\ source \in [Ports -> [type : Types, device : Devices \cup {NoDevice}]]
    /\ bound \in [Devices -> Ports \cup {NoPort}]
    /\ held \in [Ports -> SUBSET Press]
    /\ sending \in [Threads -> SUBSET OnItsWay]
    /\ table \in [Keys -> Buttons \cup {Unmapped}]

\* A device drives one port: whatever the page assigns, and whatever mapping
\* ResolvePortForDevice erases or adds on the way, no two ports would take the
\* same device's events.
OnePortPerDevice == \A d \in Devices, p, q \in Ports : Serves(p, d) /\ Serves(q, d) => p = q

\* At most one port listens to the virtual gamepad.
OneVirtual ==
    \A p, q \in Ports : source[p].type = "virtual" /\ source[q].type = "virtual" => p = q

\* What is pressed on a port was pressed by the source it has now: a port that
\* changes hands is emptied.  Two exceptions are the code's own: a write that
\* was on its way when the port changed hands (late), and a touch no mouse
\* port takes, which goes to port 0 whoever has it.
PressedByTheSource ==
    \A p \in Ports : \A h \in held[p] : h.mark = "late" \/ Fits(h.by, source[p])

\* A button a keyboard holds has a key behind it that is down (or its release
\* is on its way): the release goes to the port and to the button of the
\* press, through every assignment in between.  Not so once the table was
\* replaced with a key down, a key was let go without an event, or the press
\* came too late for its port.
Behind(d, b) == \E k \in Keys : <<d, k>> \in down /\ table[k] = b
Releasing(p, b) == \E w \in sending["screen"] : w.port = p /\ w.input = b /\ ~w.on
ButtonsFollowKeys ==
    \A d \in Keyboards, p \in Ports : \A h \in held[p] :
        h.by = d /\ h.mark = "fits" => Behind(d, h.input) \/ Releasing(p, h.input)

=============================================================================
