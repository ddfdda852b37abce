--------------------------- MODULE XComponentProofs ---------------------------
(***************************************************************************)
(* The two theorems about what arrives from the XComponent: which port an  *)
(* input device drives (InputPorts), and that the render session ends up   *)
(* with the surface the system has now (WindowSession).                    *)
(*                                                                         *)
(* Input.  "One port per device" is not inductive: what makes it so is     *)
(* that the device-to-port map and the port table agree both ways.         *)
(* Listed: the port a device is mapped to lists it.  Mapped: a port that   *)
(* would take a device's events is the one the device is mapped to.  The   *)
(* second is what lets AssignPort look for a conflict in the map alone.    *)
(*                                                                         *)
(* Window.  The invariant is SessionInv of WindowInvariant: its forms are  *)
(* kept by every step, its flow is carried from the callbacks through the  *)
(* message queue, the game thread's binding and the command queue to the   *)
(* session, one lemma per step.                                            *)
(***************************************************************************)
EXTENDS InputPorts, WindowInvariant, TLAPS, WellFoundedInduction, SequenceTheorems

-----------------------------------------------------------------------------
(* Input ports.                                                            *)

RouterType ==
    /\ source \in [Ports -> [type : Types, device : Devices \cup {NoDevice}]]
    /\ bound \in [Devices -> Ports \cup {NoPort}]
Listed == \A d \in Devices : bound[d] # NoPort => source[bound[d]].device = d
Mapped == \A d \in Devices, p \in Ports : Serves(p, d) => bound[d] = p
Agree == RouterType /\ Listed /\ Mapped /\ OneVirtual

\* No port is called NoPort, and no device NoDevice.
LEMMA Names == NoPort \notin Ports /\ NoDevice \notin Devices
BY PortsAssumption, NamesAssumption DEF NoPort

\* At the start nothing is bound.
LEMMA InitAgrees == Init => Agree
<1> SUFFICES ASSUME Init PROVE Agree
  OBVIOUS
<1>1. NoSource \in [type : Types, device : Devices \cup {NoDevice}]
  BY DEF NoSource, Types
<1>2. RouterType
  BY <1>1 DEF Init, RouterType
<1>3. Listed
  BY DEF Init, Listed
<1>4. Mapped
  BY Names DEF Init, Mapped, Serves, NoSource
<1>5. OneVirtual
  BY DEF Init, OneVirtual, NoSource
<1> QED BY <1>2, <1>3, <1>4, <1>5 DEF Agree

\* UnassignPort takes the port out of the table and out of the map.
LEMMA UnassignAgrees ==
  ASSUME Agree, NEW p \in Ports, UnassignPort(p)
  PROVE  Agree'
<1> USE DEF Agree
<1>1. NoSource \in [type : Types, device : Devices \cup {NoDevice}]
  BY DEF NoSource, Types
<1>2. RouterType'
  BY <1>1 DEF UnassignPort, RouterType
<1>3. Listed'
  BY Names DEF UnassignPort, RouterType, Listed
<1>4. Mapped'
  <2> SUFFICES ASSUME NEW d \in Devices, NEW q \in Ports, Serves(q, d)' PROVE bound'[d] = q
    BY DEF Mapped
  <2>1. q # p /\ Serves(q, d)
    BY Names DEF UnassignPort, RouterType, Serves, NoSource
  <2>2. bound[d] = q
    BY <2>1 DEF Mapped
  <2> QED BY <2>1, <2>2 DEF UnassignPort, RouterType
<1>5. OneVirtual'
  BY DEF UnassignPort, RouterType, OneVirtual, NoSource
<1> QED BY <1>2, <1>3, <1>4, <1>5

\* AssignPort: first the other virtual ports are freed, which is an agreement
\* of its own, then the port is bound or the assignment refused.
LEMMA AssignAgrees ==
  ASSUME Agree, NEW p \in Ports, NEW type \in Types, NEW d \in Devices \cup {NoDevice},
         AssignPort(p, type, d)
  PROVE  Agree'
<1> USE DEF Agree
<1> DEFINE new == [type |-> type, device |-> d]
           freed == Freed(p, type)
           srcs == [q \in Ports |-> IF q \in freed THEN NoSource ELSE source[q]]
           map == [e \in Devices |-> IF bound[e] \in freed /\ source[bound[e]].device = e
                                     THEN NoPort ELSE bound[e]]
           Fit(q, e) == srcs[q].device = e /\ srcs[q].type = TypeOf(e)
<1>1. NoSource \in [type : Types, device : Devices \cup {NoDevice}]
  BY DEF NoSource, Types
<1>2. freed \subseteq Ports \ {p}
  BY DEF Freed
<1>3. /\ srcs \in [Ports -> [type : Types, device : Devices \cup {NoDevice}]]
      /\ map \in [Devices -> Ports \cup {NoPort}]
  BY <1>1 DEF RouterType
<1>4. \A e \in Devices : map[e] # NoPort => srcs[map[e]].device = e
  <2> SUFFICES ASSUME NEW e \in Devices, map[e] # NoPort PROVE srcs[map[e]].device = e
    OBVIOUS
  <2>1. map[e] = bound[e] /\ bound[e] \in Ports /\ source[bound[e]].device = e
    BY DEF RouterType, Listed
  <2>2. bound[e] \notin freed
    BY <2>1, Names, <1>2
  <2> QED BY <2>1, <2>2
<1>5. \A e \in Devices, q \in Ports : Fit(q, e) => map[e] = q
  <2> SUFFICES ASSUME NEW e \in Devices, NEW q \in Ports, Fit(q, e) PROVE map[e] = q
    OBVIOUS
  <2>1. q \notin freed /\ Serves(q, e)
    BY Names DEF NoSource, Serves
  <2>2. bound[e] = q
    BY <2>1 DEF Mapped
  <2> QED BY <2>1, <2>2
<1>6. \A q, r \in Ports : srcs[q].type = "virtual" /\ srcs[r].type = "virtual" => q = r
  BY DEF NoSource, OneVirtual
<1>7. type = "virtual" => \A q \in Ports \ {p} : srcs[q].type # "virtual"
  BY DEF Freed, NoSource
<1> HIDE DEF srcs, map, freed
<1>8. CASE source' = srcs /\ bound' = map
  BY <1>8, <1>3, <1>4, <1>5, <1>6 DEF RouterType, Listed, Mapped, Serves, OneVirtual
<1>9. CASE /\ ~TakenElsewhere(p, d, map)
           /\ source' = [srcs EXCEPT ![p] = new]
           /\ bound' = [e \in Devices |-> IF e = d THEN p
                                          ELSE IF map[e] = p /\ srcs[p].device = e THEN NoPort
                                          ELSE map[e]]
  <2>1. RouterType'
    BY <1>9, <1>3 DEF RouterType
  <2>2. Listed'
    <3> SUFFICES ASSUME NEW e \in Devices, bound'[e] # NoPort
                 PROVE  source'[bound'[e]].device = e
      BY DEF Listed
    <3>1. CASE e = d
      BY <3>1, <1>9, <1>3
    <3>2. CASE e # d
      <4>1. bound'[e] = map[e] /\ map[e] # NoPort /\ srcs[map[e]].device = e
        BY <3>2, <1>9, <1>4
      <4>2. map[e] \in Ports /\ map[e] # p
        BY <4>1, <3>2, <1>9, <1>3
      <4> QED BY <4>1, <4>2, <1>9, <1>3
    <3> QED BY <3>1, <3>2
  <2>3. Mapped'
    <3> SUFFICES ASSUME NEW e \in Devices, NEW q \in Ports, Serves(q, e)' PROVE bound'[e] = q
      BY DEF Mapped
    <3>1. CASE q = p
      <4>1. source'[p] = new
        BY <1>9, <1>3
      <4>2. e = d
        BY <4>1, <3>1 DEF Serves
      <4> QED BY <4>2, <3>1, <1>9
    <3>2. CASE q # p
      <4>1. Fit(q, e) /\ map[e] = q
        BY <3>2, <1>9, <1>3, <1>5 DEF Serves
      <4>2. q # NoPort
        BY Names
      <4>3. e # d
        BY <4>1, <4>2, <3>2, <1>9 DEF TakenElsewhere
      <4> QED BY <4>1, <4>3, <3>2, <1>9
    <3> QED BY <3>1, <3>2
  <2>4. OneVirtual'
    BY <1>9, <1>3, <1>6, <1>7 DEF OneVirtual
  <2> QED BY <2>1, <2>2, <2>3, <2>4
<1>10. \/ source' = srcs /\ bound' = map
       \/ /\ ~TakenElsewhere(p, d, map)
          /\ source' = [srcs EXCEPT ![p] = new]
          /\ bound' = [e \in Devices |-> IF e = d THEN p
                                         ELSE IF map[e] = p /\ srcs[p].device = e THEN NoPort
                                         ELSE map[e]]
  BY DEF AssignPort, srcs, map, freed
<1> QED BY <1>8, <1>9, <1>10

\* ResolvePortForDevice erases a mapping only when no port would take the
\* device's events, and adds one only to a port of the device's type.
LEMMA ResolveAgrees ==
  ASSUME Agree, NEW d \in Devices, NEW p, ResolvePortForDevice(d, p)
  PROVE  Agree' /\ p \in Ports \cup {NoPort}
<1> USE DEF Agree
<1>1. CASE Serves(bound[d], d) /\ p = bound[d] /\ UNCHANGED router
  BY <1>1 DEF router, RouterType, Listed, Mapped, OneVirtual, Serves
<1>2. CASE ~Serves(bound[d], d) /\ AutoBind(d, p)
  <2>1. /\ p \in Ports /\ source[p].type = TypeOf(d) /\ source[p].device \in {d, NoDevice}
        /\ source' = [source EXCEPT ![p].device = d]
        /\ bound' = [bound EXCEPT ![d] = IF source[p].device = NoDevice THEN p ELSE NoPort]
    BY <1>2 DEF AutoBind, IsLowest, Candidates
  <2>2. \A q \in Ports : ~Serves(q, d)
    BY <1>2 DEF Mapped
  <2>3. source[p].device = NoDevice /\ bound' = [bound EXCEPT ![d] = p]
    BY <2>1, <2>2 DEF Serves
  <2>4. RouterType'
    BY <2>1, <2>3 DEF RouterType
  <2>5. /\ \A q \in Ports : source'[q].type = source[q].type
        /\ \A q \in Ports \ {p} : source'[q] = source[q]
        /\ source'[p].device = d
    BY <2>1 DEF RouterType
  <2>6. \A e \in Devices \ {d} : bound'[e] = bound[e] /\ bound[e] # p
    BY <2>1, <2>3, Names DEF RouterType, Listed
  <2>7. bound'[d] = p
    BY <2>3 DEF RouterType
  <2>8. Listed'
    <3> SUFFICES ASSUME NEW e \in Devices, bound'[e] # NoPort
                 PROVE  source'[bound'[e]].device = e
      BY DEF Listed
    <3>1. CASE e = d
      BY <3>1, <2>5, <2>7
    <3>2. CASE e # d
      <4>1. bound'[e] = bound[e] /\ bound[e] \in Ports \ {p} /\ source[bound[e]].device = e
        BY <3>2, <2>6 DEF RouterType, Listed
      <4> QED BY <4>1, <2>5
    <3> QED BY <3>1, <3>2
  <2>9. Mapped'
    <3> SUFFICES ASSUME NEW e \in Devices, NEW q \in Ports, Serves(q, e)' PROVE bound'[e] = q
      BY DEF Mapped
    <3>1. CASE q = p
      <4>1. e = d
        BY <3>1, <2>5 DEF Serves
      <4> QED BY <4>1, <3>1, <2>7
    <3>2. CASE q # p
      <4>1. Serves(q, e)
        BY <3>2, <2>5 DEF Serves
      <4>2. e # d
        BY <4>1, <2>2
      <4> QED BY <4>1, <4>2, <2>6 DEF Mapped
    <3> QED BY <3>1, <3>2
  <2>10. OneVirtual'
    BY <2>5 DEF OneVirtual
  <2> QED BY <2>1, <2>4, <2>8, <2>9, <2>10
<1>3. CASE ~Serves(bound[d], d) /\ Unresolved(d, p)
  <2>1. p = NoPort /\ source' = source /\ bound' = [bound EXCEPT ![d] = NoPort]
    BY <1>3 DEF Unresolved
  <2>2. \A q \in Ports : ~Serves(q, d)
    BY <1>3 DEF Mapped
  <2>3. RouterType' /\ OneVirtual'
    BY <2>1 DEF RouterType, OneVirtual
  <2>4. Listed'
    BY <2>1 DEF RouterType, Listed
  <2>5. Mapped'
    BY <2>1, <2>2 DEF RouterType, Mapped, Serves
  <2> QED BY <2>1, <2>3, <2>4, <2>5
<1> QED BY <1>1, <1>2, <1>3 DEF ResolvePortForDevice

\* What leaves the router alone leaves the agreement.
LEMMA SameRouterAgrees == ASSUME Agree, UNCHANGED router PROVE Agree'
BY DEF Agree, router, RouterType, Listed, Mapped, OneVirtual, Serves

\* Every step keeps the map and the port table in agreement.
LEMMA NextAgrees == ASSUME Agree, [Next]_vars PROVE Agree'
<1>1. ASSUME AssignPortSource PROVE Agree'
  <2>1. PICK p \in Ports, type \in Types, d \in Devices \cup {NoDevice} :
          IF type = "none" THEN UnassignPort(p) ELSE AssignPort(p, type, d)
    BY <1>1 DEF AssignPortSource
  <2> QED BY <2>1, UnassignAgrees, AssignAgrees
<1>2. ASSUME UnassignPortSource PROVE Agree'
  BY <1>2, UnassignAgrees DEF UnassignPortSource
<1>3. ASSUME HandleNewArchKeyEvent PROVE Agree'
  <2>1. PICK d \in Keyboards, k \in Keys, on \in BOOLEAN : KeyEvent(d, k, on)
    BY <1>3 DEF HandleNewArchKeyEvent
  <2>2. UNCHANGED router \/ \E p : ResolvePortForDevice(d, p)
    BY <2>1 DEF KeyEvent, router
  <2>3. d \in Devices
    BY DEF Devices
  <2> QED BY <2>2, <2>3, ResolveAgrees, SameRouterAgrees
<1>4. ASSUME DispatchMouseEvent \/ DispatchTouchEvent \/ OnBlur PROVE Agree'
  <2>1. \E p : ResolvePortForDevice(Mouse, p)
    BY <1>4 DEF DispatchMouseEvent, DispatchTouchEvent, OnBlur
  <2>2. Mouse \in Devices
    BY DEF Devices
  <2> QED BY <2>1, <2>2, ResolveAgrees
<1>5. ASSUME \/ SendInput \/ UpdateInputKeyMapping \/ KeyLetGoElsewhere
             \/ DispatchHoverEvent \/ Clear \/ (\E t \in Threads : Write(t)) \/ UNCHANGED vars
      PROVE  Agree'
  <2>1. UNCHANGED router
    BY <1>5 DEF SendInput, UpdateInputKeyMapping, KeyLetGoElsewhere, DispatchHoverEvent, Clear,
                Write, vars, router
  <2> QED BY <2>1, SameRouterAgrees
<1> QED BY <1>1, <1>2, <1>3, <1>4, <1>5 DEF Next

\* The device-to-port map and the port table of InputPortRouter always agree.
THEOREM RoutingAgrees == Spec => []Agree
<1>1. Init => Agree
  BY InitAgrees
<1>2. Agree /\ [Next]_vars => Agree'
  BY NextAgrees
<1> QED BY <1>1, <1>2, PTL DEF Spec

\* A device drives at most one port, whatever is assigned and resolved.
THEOREM DeviceHasOnePort == Spec => []OnePortPerDevice
<1>1. Agree => OnePortPerDevice
  BY DEF Agree, Mapped, OnePortPerDevice
<1> QED BY <1>1, RoutingAgrees, PTL

\* At most one port is the virtual gamepad's.
THEOREM VirtualHasOnePort == Spec => []OneVirtual
<1>1. Agree => OneVirtual
  BY DEF Agree
<1> QED BY <1>1, RoutingAgrees, PTL

-----------------------------------------------------------------------------
(***************************************************************************)
(* What is pressed on a port belongs to its source.  A step either empties *)
(* a port whose source it changes, or changes the source in a way that     *)
(* takes no writer's right away.                                           *)
(***************************************************************************)

Snapshot == TypeOK /\ Agree /\ PressedByTheSource

\* The three kinds of writers, told apart.
LEMMA FitsByKind ==
  ASSUME NEW s
  PROVE  /\ Fits("virtual", s) <=> s.type = "virtual"
         /\ \A d \in Devices : Fits(d, s) <=> s.device = d /\ s.type = TypeOf(d)
         /\ Fits("touch", s)
BY NamesAssumption DEF Fits

\* Resolving a device takes no writer's right to a port away.
LEMMA ResolveKeepsRights ==
  ASSUME Agree, NEW d \in Devices, NEW p, ResolvePortForDevice(d, p),
         NEW q \in Ports, NEW by \in Writers, Fits(by, source[q])
  PROVE  Fits(by, source'[q])
<1>1. CASE source' = source
  BY <1>1
<1>2. CASE ~Serves(bound[d], d) /\ AutoBind(d, p)
  <2>1. /\ p \in Ports /\ source[p].type = TypeOf(d) /\ source[p].device \in {d, NoDevice}
        /\ source' = [source EXCEPT ![p].device = d]
    BY <1>2 DEF AutoBind, IsLowest, Candidates
  <2>2. source[p].device = NoDevice
    BY <1>2, <2>1 DEF Agree, Mapped, Serves
  <2>3. source'[q].type = source[q].type /\ (q # p => source'[q] = source[q])
    BY <2>1 DEF Agree, RouterType
  <2>4. CASE by = "virtual"
    BY <2>3, <2>4, FitsByKind
  <2>5. CASE by \in Devices
    <3>1. source[q].device = by
      BY <2>5, FitsByKind
    <3>2. q # p
      BY <3>1, <2>2, <2>5, Names
    <3> QED BY <3>2, <2>3
  <2>6. CASE by = "touch"
    BY <2>6, FitsByKind
  <2> QED BY <2>4, <2>5, <2>6 DEF Writers
<1> QED BY <1>1, <1>2 DEF ResolvePortForDevice, Unresolved, router

\* Unassigning a port empties it, unless it had no source to begin with.
LEMMA UnassignKeepsRights ==
  ASSUME Snapshot, NEW p \in Ports, UnassignPort(p)
  PROVE  TypeOK' /\ PressedByTheSource'
<1>1. /\ held' \in [Ports -> SUBSET Press]
      /\ \A q \in Ports : held'[q] \subseteq held[q]
      /\ source[p].type # "none" => held'[p] = {}
  BY DEF Snapshot, TypeOK, UnassignPort
<1>2. /\ source'[p] = NoSource
      /\ \A q \in Ports \ {p} : source'[q] = source[q]
  BY DEF Snapshot, TypeOK, UnassignPort
<1>3. TypeOK'
  BY <1>1, UnassignAgrees DEF Snapshot, Agree, RouterType, TypeOK, UnassignPort
<1>4. PressedByTheSource'
  <2> SUFFICES ASSUME NEW q \in Ports, NEW h \in held'[q]
               PROVE  h.mark = "late" \/ Fits(h.by, source'[q])
    BY DEF PressedByTheSource
  <2>1. h \in held[q] /\ (h.mark = "late" \/ Fits(h.by, source[q])) /\ h.by \in Writers
    BY <1>1 DEF Snapshot, TypeOK, PressedByTheSource, Press
  <2>2. CASE q # p
    BY <2>1, <2>2, <1>2
  <2>3. CASE q = p
    <3>1. source[p].type = "none"
      BY <1>1, <2>3
    <3>2. CASE h.by = "touch"
      BY <3>2, FitsByKind
    <3>3. CASE h.by # "touch"
      BY <3>1, <3>3, <2>1, <2>3, FitsByKind DEF Writers, TypeOf
    <3> QED BY <3>2, <3>3
  <2> QED BY <2>2, <2>3
<1> QED BY <1>3, <1>4

\* Assigning a port empties every port whose source it changes.
LEMMA AssignKeepsRights ==
  ASSUME Snapshot, NEW p \in Ports, NEW type \in Types, NEW d \in Devices \cup {NoDevice},
         AssignPort(p, type, d)
  PROVE  TypeOK' /\ PressedByTheSource'
<1> DEFINE new == [type |-> type, device |-> d]
           freed == Freed(p, type)
           srcs == [q \in Ports |-> IF q \in freed THEN NoSource ELSE source[q]]
           empty == [q \in Ports |-> IF q \in freed THEN {} ELSE held[q]]
<1>1. /\ UNCHANGED <<sending, table>>
      /\ \/ source' = srcs /\ held' = empty
         \/ /\ source' = [srcs EXCEPT ![p] = new]
            /\ held' = [empty EXCEPT ![p] = IF ClearedFor(p, new, srcs) THEN {} ELSE @]
  BY DEF AssignPort
<1>2. /\ held \in [Ports -> SUBSET Press] /\ table \in [Keys -> Buttons \cup {Unmapped}]
      /\ sending \in [Threads -> SUBSET OnItsWay]
  BY DEF Snapshot, TypeOK
<1>3. freed \subseteq Ports \ {p}
  BY DEF Freed
<1> HIDE DEF new, freed
<1>4. /\ held' \in [Ports -> SUBSET Press]
      /\ \A q \in Ports : held'[q] = {} \/ (held'[q] = held[q] /\ source'[q] = source[q])
  BY <1>1, <1>2, <1>3 DEF ClearedFor
<1>5. Agree'
  BY AssignAgrees DEF Snapshot
<1>6. TypeOK'
  BY <1>1, <1>2, <1>4, <1>5 DEF Agree, RouterType, TypeOK
<1>7. PressedByTheSource'
  BY <1>4 DEF Snapshot, PressedByTheSource
<1> QED BY <1>6, <1>7

\* A write that arrives is marked late when it does not belong any more.
LEMMA WriteKeepsRights ==
  ASSUME Snapshot, NEW t \in Threads, Write(t)
  PROVE  TypeOK' /\ PressedByTheSource'
<1>1. PICK w \in sending[t] :
        held' = [held EXCEPT ![w.port] =
                   {h \in @ : h.input # w.input} \cup
                   (IF w.on THEN {[input |-> w.input, by |-> w.by,
                     mark |-> IF Fits(w.by, source[w.port]) THEN w.mark ELSE "late"]} ELSE {})]
  BY DEF Write
<1>2. w \in OnItsWay
  BY DEF Snapshot, TypeOK
<1> DEFINE new == [input |-> w.input, by |-> w.by,
                   mark |-> IF Fits(w.by, source[w.port]) THEN w.mark ELSE "late"]
<1>3. new \in Press /\ (new.mark = "late" \/ Fits(new.by, source[w.port]))
  BY <1>2 DEF OnItsWay, Press
<1>4. /\ held' \in [Ports -> SUBSET Press]
      /\ \A q \in Ports : \A h \in held'[q] : h \in held[q] \/ (q = w.port /\ h = new)
  BY <1>1, <1>2, <1>3 DEF Snapshot, TypeOK, OnItsWay
<1>5. source' = source /\ bound' = bound /\ table' = table
      /\ sending' \in [Threads -> SUBSET OnItsWay]
  BY DEF Snapshot, TypeOK, Write, router
<1>6. TypeOK'
  BY <1>4, <1>5 DEF Snapshot, TypeOK
<1>7. PressedByTheSource'
  BY <1>3, <1>4, <1>5 DEF Snapshot, PressedByTheSource
<1> QED BY <1>6, <1>7

\* Marking what a keyboard holds changes nobody's right to it.
LEMMA MarkKeepsRights ==
  ASSUME Snapshot, NEW devices, MarkMissed(devices), UNCHANGED router,
         table' \in [Keys -> Buttons \cup {Unmapped}]
  PROVE  TypeOK' /\ PressedByTheSource'
<1>1. \A h \in Press : /\ Missed(h, devices) \in Press
                       /\ Missed(h, devices).by = h.by
                       /\ h.mark = "late" => Missed(h, devices).mark = "late"
  BY DEF Press, Missed
<1>2. \A w \in OnItsWay : Missed(w, devices) \in OnItsWay
  BY DEF OnItsWay, Missed
<1>3. held' \in [Ports -> SUBSET Press] /\ sending' \in [Threads -> SUBSET OnItsWay]
  BY <1>1, <1>2 DEF Snapshot, TypeOK, MarkMissed
<1>4. TypeOK'
  BY <1>3 DEF Snapshot, TypeOK, router
<1>5. PressedByTheSource'
  BY <1>1 DEF Snapshot, TypeOK, MarkMissed, PressedByTheSource, router
<1> QED BY <1>4, <1>5

\* A screen event that resolves a device, sends what it sends, and presses
\* nothing.
LEMMA ScreenKeepsRights ==
  ASSUME Snapshot, NEW d \in Devices, NEW p, ResolvePortForDevice(d, p),
         \A q \in Ports : held'[q] \subseteq held[q], held' \in [Ports -> SUBSET Press],
         sending' \in [Threads -> SUBSET OnItsWay], UNCHANGED table
  PROVE  TypeOK' /\ PressedByTheSource'
<1>1. TypeOK'
  BY ResolveAgrees DEF Snapshot, Agree, RouterType, TypeOK
<1>2. PressedByTheSource'
  <2> SUFFICES ASSUME NEW q \in Ports, NEW h \in held'[q]
               PROVE  h.mark = "late" \/ Fits(h.by, source'[q])
    BY DEF PressedByTheSource
  <2>1. h \in held[q] /\ (h.mark = "late" \/ Fits(h.by, source[q])) /\ h.by \in Writers
    BY DEF Snapshot, TypeOK, PressedByTheSource, Press
  <2> QED BY <2>1, ResolveKeepsRights DEF Snapshot
<1> QED BY <1>1, <1>2

\* What a thread is about to write is well formed.
LEMMA SendsWellFormed ==
  ASSUME TypeOK, NEW t \in Threads, NEW p \in Ports, NEW input \in Inputs, NEW on \in BOOLEAN,
         NEW by \in Writers, Sends(t, p, input, on, by)
  PROVE  sending' \in [Threads -> SUBSET OnItsWay]
BY DEF TypeOK, Sends, OnItsWay

\* At the start nothing is pressed.
LEMMA InitSnapshot == Init => Snapshot
<1> SUFFICES ASSUME Init PROVE Snapshot
  OBVIOUS
<1>1. Agree
  BY InitAgrees
<1>2. TypeOK
  BY <1>1 DEF Init, TypeOK, Agree, RouterType, Threads
<1>3. PressedByTheSource
  BY DEF Init, PressedByTheSource
<1> QED BY <1>1, <1>2, <1>3 DEF Snapshot

\* A step that touches neither the router nor the snapshot.
LEMMA QuietKeepsRights ==
  ASSUME Snapshot, UNCHANGED <<router, table>>,
         \A q \in Ports : held'[q] \subseteq held[q], held' \in [Ports -> SUBSET Press],
         sending' \in [Threads -> SUBSET OnItsWay]
  PROVE  TypeOK' /\ PressedByTheSource'
BY DEF Snapshot, TypeOK, PressedByTheSource, router

\* Every step of the page and of the screen keeps what is pressed right.
LEMMA NextSnapshot == ASSUME Snapshot, [Next]_vars PROVE TypeOK' /\ PressedByTheSource'
<1>0. /\ held \in [Ports -> SUBSET Press] /\ sending \in [Threads -> SUBSET OnItsWay]
      /\ table \in [Keys -> Buttons \cup {Unmapped}]
      /\ "page" \in Threads /\ "screen" \in Threads
  BY DEF Snapshot, TypeOK, Threads
<1>1. ASSUME AssignPortSource PROVE TypeOK' /\ PressedByTheSource'
  <2>1. PICK p \in Ports, type \in Types, d \in Devices \cup {NoDevice} :
          IF type = "none" THEN UnassignPort(p) ELSE AssignPort(p, type, d)
    BY <1>1 DEF AssignPortSource
  <2> QED BY <2>1, UnassignKeepsRights, AssignKeepsRights
<1>2. ASSUME UnassignPortSource PROVE TypeOK' /\ PressedByTheSource'
  BY <1>2, UnassignKeepsRights DEF UnassignPortSource
<1>3. ASSUME SendInput PROVE TypeOK' /\ PressedByTheSource'
  <2>1. PICK p \in Ports, b \in Buttons, on \in BOOLEAN : Sends("page", p, b, on, "virtual")
    BY <1>3 DEF SendInput
  <2>2. sending' \in [Threads -> SUBSET OnItsWay]
    BY <1>0, <2>1, SendsWellFormed DEF Snapshot, Inputs, Writers
  <2> QED BY <1>0, <1>3, <2>2, QuietKeepsRights DEF SendInput
<1>4. ASSUME UpdateInputKeyMapping PROVE TypeOK' /\ PressedByTheSource'
  BY <1>4, MarkKeepsRights DEF UpdateInputKeyMapping
<1>5. ASSUME KeyLetGoElsewhere PROVE TypeOK' /\ PressedByTheSource'
  <2>1. PICK x \in down : MarkMissed({x[1]}) /\ UNCHANGED <<router, table>>
    BY <1>5 DEF KeyLetGoElsewhere
  <2> QED BY <1>0, <2>1, MarkKeepsRights
<1>6. ASSUME HandleNewArchKeyEvent PROVE TypeOK' /\ PressedByTheSource'
  <2>1. PICK d \in Keyboards, k \in Keys, on \in BOOLEAN : KeyEvent(d, k, on)
    BY <1>6 DEF HandleNewArchKeyEvent
  <2>2. d \in Devices /\ d \in Writers
    BY DEF Devices, Writers
  <2>3. CASE UNCHANGED <<router, sending>>
    BY <1>0, <2>1, <2>3, QuietKeepsRights DEF KeyEvent
  <2>4. CASE \E p : ResolvePortForDevice(d, p) /\ UNCHANGED sending
    BY <1>0, <2>1, <2>2, <2>4, ScreenKeepsRights DEF KeyEvent
  <2>5. CASE /\ table[k] # Unmapped
             /\ \E p \in Ports : ResolvePortForDevice(d, p) /\ Sends("screen", p, table[k], on, d)
    <3>1. PICK p \in Ports : ResolvePortForDevice(d, p) /\ Sends("screen", p, table[k], on, d)
      BY <2>5
    <3>2. table[k] \in Inputs
      BY <1>0, <2>5 DEF Inputs
    <3>3. sending' \in [Threads -> SUBSET OnItsWay]
      BY <1>0, <2>2, <3>1, <3>2, SendsWellFormed DEF Snapshot
    <3> QED BY <1>0, <2>1, <2>2, <3>1, <3>3, ScreenKeepsRights DEF KeyEvent
  <2> QED BY <2>1, <2>3, <2>4, <2>5 DEF KeyEvent
<1>7. ASSUME DispatchMouseEvent \/ DispatchTouchEvent \/ OnBlur
      PROVE  TypeOK' /\ PressedByTheSource'
  <2>1. /\ Mouse \in Devices /\ Mouse \in Writers /\ "touch" \in Writers /\ Pointer \in Inputs
        /\ TRUE \in BOOLEAN /\ FALSE \in BOOLEAN
    BY DEF Devices, Writers, Inputs
  <2>2. \E p : ResolvePortForDevice(Mouse, p)
    BY <1>7 DEF DispatchMouseEvent, DispatchTouchEvent, OnBlur
  <2>3. \/ UNCHANGED sending
        \/ \E p \in Ports, on \in BOOLEAN, by \in {Mouse, "touch"} :
             Sends("screen", p, Pointer, on, by)
    BY <1>7, <2>1 DEF DispatchMouseEvent, DispatchTouchEvent, OnBlur, IsLowest
  <2>4. sending' \in [Threads -> SUBSET OnItsWay]
    BY <1>0, <2>1, <2>3, SendsWellFormed DEF Snapshot
  <2>5. /\ held' = held \/ held' = [p \in Ports |-> {h \in held[p] : h.input # Pointer}]
        /\ UNCHANGED table
    BY <1>7 DEF DispatchMouseEvent, DispatchTouchEvent, OnBlur
  <2>6. held' \in [Ports -> SUBSET Press] /\ \A q \in Ports : held'[q] \subseteq held[q]
    BY <1>0, <2>5
  <2> QED BY <2>1, <2>2, <2>4, <2>5, <2>6, ScreenKeepsRights
<1>8. ASSUME DispatchHoverEvent \/ Clear \/ UNCHANGED vars PROVE TypeOK' /\ PressedByTheSource'
  <2>1. /\ UNCHANGED <<router, table, sending>>
        /\ held' = held \/ held' = [p \in Ports |-> {}]
    BY <1>8 DEF DispatchHoverEvent, Clear, vars
  <2> QED BY <1>0, <2>1, QuietKeepsRights
<1>9. ASSUME \E t \in Threads : Write(t) PROVE TypeOK' /\ PressedByTheSource'
  BY <1>9, WriteKeepsRights
<1> QED BY <1>1, <1>2, <1>3, <1>4, <1>5, <1>6, <1>7, <1>8, <1>9 DEF Next

\* What is pressed on a port was pressed by the source the port has, however
\* the ports are assigned and the devices resolved in between; what arrives
\* too late for that is marked so.
THEOREM PressesBelong == Spec => []PressedByTheSource
<1>1. Init => Snapshot
  BY InitSnapshot
<1>2. Snapshot /\ [Next]_vars => Snapshot'
  BY NextSnapshot, NextAgrees DEF Snapshot
<1>3. Snapshot => PressedByTheSource
  BY DEF Snapshot
<1> QED BY <1>1, <1>2, <1>3, PTL DEF Spec

-----------------------------------------------------------------------------
(***************************************************************************)
(* What a keyboard holds is let go.  A thread is about to do one write at  *)
(* most, the page never one of a keyboard's, and a press on its way has    *)
(* its key down behind it.  When the key goes up, the port its release is  *)
(* resolved to is the one that holds the press, since the press fits the   *)
(* source of its port and the map agrees with the sources.                 *)
(***************************************************************************)

OneWrite == \A t \in Threads : \A v, w \in sending[t] : v = w
PageWrites == \A w \in sending["page"] : w.by = "virtual"
PressBehind ==
    \A w \in sending["screen"] :
        w.by \in Keyboards /\ w.on /\ w.mark = "fits" => Behind(w.by, w.input)

FollowInv == OneWrite /\ PageWrites /\ PressBehind /\ ButtonsFollowKeys

\* A keyboard is a device, and neither the mouse nor the virtual gamepad.
LEMMA KeyboardIs ==
  \A d \in Keyboards : d \in Devices /\ d # Mouse /\ d # "virtual" /\ d # "touch"
BY NamesAssumption DEF Devices

\* Before a screen event, each button a keyboard holds has its key down.
LEMMA NothingReleases ==
  ASSUME FollowInv, Free("screen"), NEW d \in Keyboards, NEW p \in Ports, NEW h \in held[p],
         h.by = d, h.mark = "fits"
  PROVE  Behind(d, h.input)
BY DEF FollowInv, ButtonsFollowKeys, Releasing, Free

\* A step that presses nothing, sends nothing and leaves the keys and the table.
LEMMA LessHeldFollows ==
  ASSUME FollowInv, \A q \in Ports : held'[q] \subseteq held[q],
         UNCHANGED <<sending, table, down>>
  PROVE  FollowInv'
<1>1. OneWrite' /\ PageWrites' /\ PressBehind'
  BY DEF FollowInv, OneWrite, PageWrites, PressBehind, Behind
<1>2. ButtonsFollowKeys'
  BY DEF FollowInv, ButtonsFollowKeys, Behind, Releasing
<1> QED BY <1>1, <1>2 DEF FollowInv

\* A screen event that is not a key's: it sends what is no keyboard's.
LEMMA PointerFollows ==
  ASSUME FollowInv, Free("screen"), \A q \in Ports : held'[q] \subseteq held[q],
         UNCHANGED <<table, down>>, sending'["page"] = sending["page"],
         NEW w, w.by \in {Mouse, "touch"}, sending'["screen"] = {w}
  PROVE  FollowInv'
<1>1. OneWrite' /\ PageWrites' BY DEF FollowInv, OneWrite, PageWrites, Threads
<1>2. PressBehind' BY KeyboardIs DEF PressBehind
<1>3. ButtonsFollowKeys'
  BY NothingReleases DEF ButtonsFollowKeys, Behind
<1> QED BY <1>1, <1>2, <1>3 DEF FollowInv

\* What has been marked as missed is no longer spoken of; the releases on
\* their way stay.
LEMMA MarkFollows ==
  ASSUME Snapshot, FollowInv, NEW devices, MarkMissed(devices),
         \A d \in Keyboards \ devices, b \in Inputs : Behind(d, b) => Behind(d, b)'
  PROVE  FollowInv'
<1>0. /\ held \in [Ports -> SUBSET Press] /\ sending \in [Threads -> SUBSET OnItsWay]
  BY DEF Snapshot, TypeOK
<1>1. \A x : /\ x \in Press => /\ Missed(x, devices).by = x.by
                               /\ Missed(x, devices).input = x.input
                               /\ Missed(x, devices).mark = "fits" =>
                                    x.mark = "fits" /\ x.by \notin devices
             /\ x \in OnItsWay => /\ Missed(x, devices).by = x.by
                                  /\ Missed(x, devices).input = x.input
                                  /\ Missed(x, devices).port = x.port
                                  /\ Missed(x, devices).on = x.on
                                  /\ Missed(x, devices).mark = "fits" =>
                                       x.mark = "fits" /\ x.by \notin devices
  BY DEF Press, OnItsWay, Missed
<1>2. \A t \in Threads : sending'[t] = {Missed(w, devices) : w \in sending[t]}
  BY DEF MarkMissed
<1>3. OneWrite' BY <1>2 DEF FollowInv, OneWrite
<1>4. PageWrites' BY <1>0, <1>1, <1>2 DEF FollowInv, PageWrites, Threads
<1>5. PressBehind'
  <2> SUFFICES ASSUME NEW w \in sending'["screen"], w.by \in Keyboards, w.on, w.mark = "fits"
               PROVE  Behind(w.by, w.input)'
    BY DEF PressBehind
  <2>1. PICK v \in sending["screen"] : w = Missed(v, devices) BY <1>2 DEF Threads
  <2>2. v \in OnItsWay BY <1>0 DEF Threads
  <2>3. /\ v.by = w.by /\ v.input = w.input /\ v.on /\ v.mark = "fits" /\ v.by \notin devices
    BY <1>1, <2>1, <2>2
  <2>4. Behind(w.by, w.input) BY <2>3 DEF FollowInv, PressBehind
  <2>5. w.input \in Inputs BY <2>2, <2>3 DEF OnItsWay
  <2> QED BY <2>3, <2>4, <2>5
<1>6. ButtonsFollowKeys'
  <2> SUFFICES ASSUME NEW p \in Ports, NEW h \in held'[p], h.by \in Keyboards, h.mark = "fits"
               PROVE  Behind(h.by, h.input)' \/ Releasing(p, h.input)'
    BY DEF ButtonsFollowKeys
  <2>1. PICK g \in held[p] : h = Missed(g, devices) BY DEF MarkMissed
  <2>2. g \in Press BY <1>0
  <2>3. g.by = h.by /\ g.input = h.input /\ g.mark = "fits" /\ g.by \notin devices
    BY <1>1, <2>1, <2>2
  <2>4. Behind(h.by, h.input) \/ Releasing(p, h.input)
    BY <2>3 DEF FollowInv, ButtonsFollowKeys
  <2>5. CASE Behind(h.by, h.input) BY <2>2, <2>3, <2>5 DEF Press
  <2>6. CASE Releasing(p, h.input)
    <3>1. PICK w \in sending["screen"] : w.port = p /\ w.input = h.input /\ ~w.on
      BY <2>6 DEF Releasing
    <3>2. w \in OnItsWay /\ Missed(w, devices) \in sending'["screen"]
      BY <1>0, <1>2 DEF Threads
    <3> QED BY <1>1, <3>1, <3>2 DEF Releasing
  <2> QED BY <2>4, <2>5, <2>6
<1> QED BY <1>3, <1>4, <1>5, <1>6 DEF FollowInv

\* A write that arrives: a press has its key down, a release takes the press.
LEMMA WriteFollows == ASSUME Snapshot, FollowInv, NEW t \in Threads, Write(t) PROVE FollowInv'
<1>0. /\ held \in [Ports -> SUBSET Press] /\ sending \in [Threads -> SUBSET OnItsWay]
  BY DEF Snapshot, TypeOK
<1>1. PICK w \in sending[t] :
        held' = [held EXCEPT ![w.port] =
                   {h \in @ : h.input # w.input} \cup
                   (IF w.on THEN {[input |-> w.input, by |-> w.by,
                     mark |-> IF Fits(w.by, source[w.port]) THEN w.mark ELSE "late"]} ELSE {})]
  BY DEF Write
<1>2. w \in OnItsWay /\ UNCHANGED <<table, down>>
  BY <1>0 DEF Write
<1>3. /\ sending'[t] = {} /\ \A u \in Threads \ {t} : sending'[u] = sending[u]
  BY <1>0 DEF Write
<1> DEFINE new == [input |-> w.input, by |-> w.by,
                   mark |-> IF Fits(w.by, source[w.port]) THEN w.mark ELSE "late"]
<1>4. \A q \in Ports : \A h \in held'[q] :
         \/ h \in held[q] /\ (q = w.port => h.input # w.input)
         \/ q = w.port /\ h = new /\ w.on
  BY <1>0, <1>1, <1>2 DEF OnItsWay
<1>5. OneWrite' /\ PageWrites' /\ PressBehind'
  BY <1>2, <1>3 DEF FollowInv, OneWrite, PageWrites, PressBehind, Behind, Threads
<1>6. ButtonsFollowKeys'
  <2> SUFFICES ASSUME NEW p \in Ports, NEW h \in held'[p], h.by \in Keyboards, h.mark = "fits"
               PROVE  Behind(h.by, h.input) \/ Releasing(p, h.input)'
    BY <1>2 DEF ButtonsFollowKeys, Behind
  <2>1. CASE h \in held[p] /\ (p = w.port => h.input # w.input)
    <3>1. Behind(h.by, h.input) \/ Releasing(p, h.input)
      BY <2>1 DEF FollowInv, ButtonsFollowKeys
    <3>2. CASE Releasing(p, h.input)
      <4>1. PICK v \in sending["screen"] : v.port = p /\ v.input = h.input /\ ~v.on
        BY <3>2 DEF Releasing
      <4>2. t # "screen"
        BY <1>1, <2>1, <4>1 DEF FollowInv, OneWrite
      <4> QED BY <1>3, <4>1, <4>2 DEF Releasing, Threads
    <3> QED BY <3>1, <3>2
  <2>2. CASE p = w.port /\ h = new /\ w.on
    <3>1. w.by = h.by /\ w.input = h.input /\ w.mark = "fits" BY <2>2
    <3>2. t = "screen" BY <3>1, KeyboardIs DEF FollowInv, PageWrites, Threads
    <3> QED BY <2>2, <3>1, <3>2 DEF FollowInv, PressBehind
  <2> QED BY <1>4, <2>1, <2>2
<1> QED BY <1>5, <1>6 DEF FollowInv

\* A key event: a press has its key down from the start, and the release goes
\* where the press went.
LEMMA KeyFollows ==
  ASSUME Snapshot, FollowInv, NEW d \in Keyboards, NEW k \in Keys, NEW on \in BOOLEAN,
         KeyEvent(d, k, on)
  PROVE  FollowInv'
<1>0. /\ held \in [Ports -> SUBSET Press] /\ sending \in [Threads -> SUBSET OnItsWay]
      /\ Free("screen") /\ UNCHANGED <<held, table>> /\ d \in Devices
      /\ down' = IF on THEN down \cup {<<d, k>>} ELSE down \ {<<d, k>>}
  BY KeyboardIs DEF Snapshot, TypeOK, KeyEvent
\* What goes up with this key.
<1>1. ASSUME NEW e \in Keyboards, NEW b, Behind(e, b), ~Behind(e, b)'
      PROVE  ~on /\ e = d /\ b = table[k]
  <2>1. PICK l \in Keys : <<e, l>> \in down /\ table[l] = b BY <1>1 DEF Behind
  <2>2. <<e, l>> \notin down' BY <1>0, <1>1, <2>1 DEF Behind
  <2> QED BY <1>0, <2>1, <2>2
<1>2. ASSUME NEW p \in Ports, NEW h \in held[p], h.by \in Keyboards, h.mark = "fits",
             ~Behind(h.by, h.input)'
      PROVE  ~on /\ h.by = d /\ h.input = table[k] /\ table[k] # Unmapped /\ Serves(p, d)
  <2>1. Behind(h.by, h.input) BY <1>0, <1>2, NothingReleases
  <2>2. ~on /\ h.by = d /\ h.input = table[k] BY <1>1, <1>2, <2>1
  <2>3. h.input \in Inputs BY <1>0 DEF Press
  <2>4. Unmapped \notin Inputs BY NamesAssumption DEF Unmapped, Inputs, Pointer
  <2>5. Fits(h.by, source[p]) BY <1>2 DEF Snapshot, PressedByTheSource
  <2>6. Serves(p, d) BY <1>0, <2>2, <2>5, FitsByKind DEF Serves
  <2> QED BY <2>2, <2>3, <2>4, <2>6
<1>3. CASE UNCHANGED sending /\ (table[k] = Unmapped \/ ResolvePortForDevice(d, NoPort))
  <2>1. ~\E p \in Ports : table[k] # Unmapped /\ Serves(p, d)
    BY <1>0, <1>3, Names DEF ResolvePortForDevice, Snapshot, Agree, Mapped, AutoBind, IsLowest,
       Candidates
  <2>2. ButtonsFollowKeys' BY <1>0, <1>2, <2>1 DEF ButtonsFollowKeys
  <2>3. sending'["screen"] = {} BY <1>0, <1>3 DEF Free
  <2>4. OneWrite' /\ PageWrites' /\ PressBehind'
    BY <1>3, <2>3 DEF FollowInv, OneWrite, PageWrites, PressBehind
  <2> QED BY <2>2, <2>4 DEF FollowInv
<1>4. ASSUME NEW p \in Ports, table[k] # Unmapped, ResolvePortForDevice(d, p),
             Sends("screen", p, table[k], on, d)
      PROVE  FollowInv'
  <2> DEFINE w == [port |-> p, input |-> table[k], on |-> on, by |-> d, mark |-> "fits"]
  <2>1. sending'["screen"] = {w} /\ sending'["page"] = sending["page"]
    BY <1>0, <1>4 DEF Sends, Threads
  <2>2. \A q \in Ports : Serves(q, d) => q = p
    BY <1>0, <1>4 DEF ResolvePortForDevice, Snapshot, Agree, Mapped
  <2>3. ButtonsFollowKeys'
    <3> SUFFICES ASSUME NEW q \in Ports, NEW h \in held[q], h.by \in Keyboards, h.mark = "fits",
                        ~Behind(h.by, h.input)'
                 PROVE  Releasing(q, h.input)'
      BY <1>0 DEF ButtonsFollowKeys
    <3>1. ~on /\ h.input = table[k] /\ q = p BY <1>2, <2>2
    <3> QED BY <2>1, <3>1 DEF Releasing
  <2>4. OneWrite' /\ PageWrites' BY <2>1 DEF FollowInv, OneWrite, PageWrites, Threads
  <2>5. PressBehind'
    <3> SUFFICES ASSUME NEW v \in sending'["screen"], v.on PROVE Behind(v.by, v.input)'
      BY DEF PressBehind
    <3>1. v.by = d /\ v.input = table[k] /\ on BY <2>1
    <3> QED BY <1>0, <3>1 DEF Behind
  <2> QED BY <2>3, <2>4, <2>5 DEF FollowInv
<1> QED BY <1>3, <1>4 DEF KeyEvent

\* Every step keeps the buttons and the keys together.
LEMMA NextFollows == ASSUME Snapshot, FollowInv, [Next]_vars PROVE FollowInv'
<1>0. /\ held \in [Ports -> SUBSET Press] /\ sending \in [Threads -> SUBSET OnItsWay]
      /\ Snapshot'
  BY NextSnapshot, NextAgrees DEF Snapshot, TypeOK
<1>1. CASE AssignPortSource \/ UnassignPortSource
  <2>1. \/ \E p \in Ports : UnassignPort(p)
        \/ \E p \in Ports, type \in Types, d \in Devices \cup {NoDevice} : AssignPort(p, type, d)
    BY <1>1 DEF AssignPortSource, UnassignPortSource
  <2>2. (\A q \in Ports : held'[q] \subseteq held[q]) /\ UNCHANGED <<sending, table, down>>
    <3>1. CASE \E p \in Ports : UnassignPort(p) BY <1>0, <3>1 DEF UnassignPort
    <3>2. ASSUME NEW p \in Ports, NEW type \in Types, NEW d \in Devices \cup {NoDevice},
                 AssignPort(p, type, d)
          PROVE  (\A q \in Ports : held'[q] \subseteq held[q]) /\ UNCHANGED <<sending, table, down>>
      <4> DEFINE freed == Freed(p, type)
                 empty == [q \in Ports |-> IF q \in freed THEN {} ELSE held[q]]
      <4>1. /\ UNCHANGED <<sending, table, down>>
            /\ \/ held' = empty
               \/ \E clear \in BOOLEAN : held' = [empty EXCEPT ![p] = IF clear THEN {} ELSE @]
        BY <3>2 DEF AssignPort, ClearedFor
      <4> HIDE DEF freed
      <4> QED BY <1>0, <4>1
    <3> QED BY <2>1, <3>1, <3>2
  <2> QED BY <2>2, LessHeldFollows
<1>2. CASE DispatchHoverEvent \/ Clear \/ UNCHANGED vars
  <2>1. (\A q \in Ports : held'[q] \subseteq held[q]) /\ UNCHANGED <<sending, table, down>>
    BY <1>0, <1>2 DEF DispatchHoverEvent, Clear, vars
  <2> QED BY <2>1, LessHeldFollows
<1>3. CASE SendInput
  <2>1. PICK p \in Ports, b \in Buttons, on \in BOOLEAN : Sends("page", p, b, on, "virtual")
    BY <1>3 DEF SendInput
  <2> DEFINE w == [port |-> p, input |-> b, on |-> on, by |-> "virtual", mark |-> "fits"]
  <2>2. /\ sending'["page"] = {w} /\ sending'["screen"] = sending["screen"]
        /\ UNCHANGED <<held, table, down>>
    BY <1>0, <1>3, <2>1 DEF SendInput, Sends, Threads
  <2>3. OneWrite' /\ PageWrites' BY <2>2 DEF FollowInv, OneWrite, PageWrites, Threads
  <2>4. PressBehind' /\ ButtonsFollowKeys'
    BY <2>2, SMTT(30) DEF FollowInv, PressBehind, ButtonsFollowKeys, Behind, Releasing
  <2> QED BY <2>3, <2>4 DEF FollowInv
<1>4. CASE UpdateInputKeyMapping
  <2> DEFINE devices == {x[1] : x \in down}
  <2>1. MarkMissed(devices) BY <1>4 DEF UpdateInputKeyMapping
  <2>2. \A d \in Keyboards \ devices, b \in Inputs : ~Behind(d, b)
    <3> SUFFICES ASSUME NEW d \in Keyboards, NEW b, Behind(d, b) PROVE d \in devices
      OBVIOUS
    <3>1. PICK k \in Keys : <<d, k>> \in down BY DEF Behind
    <3> QED BY <3>1
  <2> HIDE DEF devices
  <2> QED BY <2>1, <2>2, MarkFollows
<1>5. CASE KeyLetGoElsewhere
  <2>1. PICK x \in down : down' = down \ {x} /\ MarkMissed({x[1]}) /\ UNCHANGED table
    BY <1>5 DEF KeyLetGoElsewhere
  <2>2. \A d \in Keyboards \ {x[1]}, b \in Inputs : Behind(d, b) => Behind(d, b)'
    BY <2>1 DEF Behind
  <2> QED BY <2>1, <2>2, MarkFollows
<1>6. CASE HandleNewArchKeyEvent BY <1>6, KeyFollows DEF HandleNewArchKeyEvent
<1>7. CASE DispatchMouseEvent \/ DispatchTouchEvent \/ OnBlur
  <2>1. Free("screen") /\ UNCHANGED <<table, down>>
    BY <1>7 DEF DispatchMouseEvent, DispatchTouchEvent, OnBlur
  <2>2. held' = held \/ held' = [p \in Ports |-> {h \in held[p] : h.input # Pointer}]
    BY <1>7 DEF DispatchMouseEvent, DispatchTouchEvent, OnBlur
  <2>3. \A q \in Ports : held'[q] \subseteq held[q] BY <1>0, <2>2
  <2>4. \/ UNCHANGED sending
        \/ \E p \in Ports, on \in BOOLEAN, by \in {Mouse, "touch"} :
             Sends("screen", p, Pointer, on, by)
    BY <1>7 DEF DispatchMouseEvent, DispatchTouchEvent, OnBlur, IsLowest
  <2>5. CASE UNCHANGED sending BY <2>1, <2>3, <2>5, LessHeldFollows
  <2>6. ASSUME NEW p \in Ports, NEW on \in BOOLEAN, NEW by \in {Mouse, "touch"},
               Sends("screen", p, Pointer, on, by)
        PROVE  FollowInv'
    <3> DEFINE w == [port |-> p, input |-> Pointer, on |-> on, by |-> by, mark |-> "fits"]
    <3>1. /\ sending'["screen"] = {w} /\ sending'["page"] = sending["page"]
          /\ w.by \in {Mouse, "touch"}
      BY <1>0, <2>6 DEF Sends, Threads
    <3> HIDE DEF w
    <3> QED BY <2>1, <2>3, <3>1, PointerFollows
  <2> QED BY <2>4, <2>5, <2>6
<1>8. CASE \E t \in Threads : Write(t) BY <1>8, WriteFollows
<1> QED BY <1>1, <1>2, <1>3, <1>4, <1>5, <1>6, <1>7, <1>8 DEF Next

\* ButtonsFollowKeys: whatever the page assigns between a key's press and its
\* release, and whatever device resolution erases or adds, no button stays
\* pressed without a key of its keyboard down, but for the exceptions named.
THEOREM ButtonsAreLetGo == Spec => []ButtonsFollowKeys
<1>1. Init => Snapshot /\ FollowInv
  <2>1. Init => FollowInv
    BY DEF Init, FollowInv, OneWrite, PageWrites, PressBehind, ButtonsFollowKeys, Threads
  <2> QED BY <2>1, InitSnapshot
<1>2. Snapshot /\ FollowInv /\ [Next]_vars => Snapshot' /\ FollowInv'
  BY NextSnapshot, NextAgrees, NextFollows DEF Snapshot
<1>3. FollowInv => ButtonsFollowKeys
  BY DEF FollowInv
<1> QED BY <1>1, <1>2, <1>3, PTL DEF Spec

-----------------------------------------------------------------------------
(* The window session.                                                     *)

\* Induction over the numbers, for a set.
LEMMA SetInduction ==
  ASSUME NEW S \in SUBSET Nat, 0 \in S, \A n \in S : n + 1 \in S
  PROVE  S = Nat
<1>. SUFFICES ASSUME Nat \ S # {} PROVE FALSE OBVIOUS
<1>1. PICK m \in Nat \ S : \A n \in Nat \ S : ~(<<n, m>> \in OpToRel(<, Nat))
  BY NatLessThanWellFounded, WFMin
<1>2. m - 1 \in Nat /\ m - 1 \notin S
  BY SMT
<1>3. <<m - 1, m>> \in OpToRel(<, Nat) BY <1>2 DEF OpToRel
<1>. QED  BY <1>1, <1>2, <1>3

\* r has the messages of the first n of q whose type is another, in their order.
Filtered(q, n, type, r) ==
  /\ \A i \in DOMAIN r : \E k \in 1..n : r[i] = q[k] /\ q[k].type # type
  /\ \A k \in 1..n : q[k].type # type => \E i \in DOMAIN r : r[i] = q[k]
  /\ \A i, j \in DOMAIN r : i < j => \E k, l \in 1..n : k < l /\ r[i] = q[k] /\ r[j] = q[l]

\* One more message of the old queue: Filtered for n gives Filtered for n + 1.
LEMMA FilterStep ==
  ASSUME NEW S, NEW q \in Seq(S), NEW type, NEW n \in 0..(Len(q) - 1), NEW r \in Seq(S),
         Filtered(q, n, type, r)
  PROVE  LET s == IF q[n + 1].type = type THEN r ELSE Append(r, q[n + 1])
         IN  s \in Seq(S) /\ Filtered(q, n + 1, type, s)
<1>1. CASE q[n + 1].type = type BY <1>1 DEF Filtered
<1>2. CASE q[n + 1].type # type
  <2>. DEFINE s == Append(r, q[n + 1])
  <2>1. s \in Seq(S) /\ Len(s) = Len(r) + 1 /\ s[Len(s)] = q[n + 1]
        /\ \A i \in DOMAIN r : s[i] = r[i]
    OBVIOUS
  <2>2. DOMAIN s = DOMAIN r \cup {Len(r) + 1} /\ DOMAIN r = 1..Len(r) OBVIOUS
  <2>. HIDE DEF s
  <2>3. Filtered(q, n + 1, type, s)
    <3>1. ASSUME NEW i \in DOMAIN s PROVE \E k \in 1..(n + 1) : s[i] = q[k] /\ q[k].type # type
      <4>1. CASE i \in DOMAIN r
        <5>1. PICK k \in 1..n : r[i] = q[k] /\ q[k].type # type BY <4>1 DEF Filtered
        <5>2. k \in 1..(n + 1) OBVIOUS
        <5>. QED BY <2>1, <4>1, <5>1, <5>2
      <4>2. CASE i \notin DOMAIN r BY <1>2, <2>1, <2>2, <4>2
      <4>. QED BY <4>1, <4>2
    <3>2. \A k \in 1..(n + 1) : q[k].type # type => \E i \in DOMAIN s : s[i] = q[k]
      <4>1. ASSUME NEW k \in 1..n, q[k].type # type PROVE \E i \in DOMAIN s : s[i] = q[k]
        <5>1. PICK i \in DOMAIN r : r[i] = q[k] BY <4>1 DEF Filtered
        <5>. QED BY <2>1, <2>2, <5>1
      <4>2. Len(r) + 1 \in DOMAIN s /\ s[Len(r) + 1] = q[n + 1] BY <2>1, <2>2
      <4>. QED BY <4>1, <4>2
    <3>3. ASSUME NEW i \in DOMAIN s, NEW j \in DOMAIN s, i < j
          PROVE \E k, l \in 1..(n + 1) : k < l /\ s[i] = q[k] /\ s[j] = q[l]
      <4>1. CASE j \in DOMAIN r
        <5>1. i \in DOMAIN r BY <2>2, <3>3, <4>1
        <5>2. PICK k \in 1..n, l \in 1..n : k < l /\ r[i] = q[k] /\ r[j] = q[l]
          BY <3>3, <4>1, <5>1 DEF Filtered
        <5>. QED BY <2>1, <4>1, <5>1, <5>2
      <4>2. CASE j \notin DOMAIN r
        <5>1. i \in DOMAIN r /\ s[j] = q[n + 1] BY <2>1, <2>2, <3>3, <4>2
        <5>2. PICK k \in 1..n : r[i] = q[k] BY <5>1 DEF Filtered
        <5>3. k \in 1..(n + 1) /\ n + 1 \in 1..(n + 1) /\ k < n + 1 OBVIOUS
        <5>. QED BY <2>1, <5>1, <5>2, <5>3
      <4>. QED BY <4>1, <4>2
    <3>. QED BY <3>1, <3>2, <3>3 DEF Filtered
  <2>. QED BY <1>2, <2>1, <2>3 DEF s
<1>. QED BY <1>1, <1>2

\* Without keeps exactly the messages of other types, in their order.
LEMMA WithoutFilters ==
  ASSUME NEW S, NEW q \in Seq(S), NEW type
  PROVE  Without(q, type) \in Seq(S) /\ Filtered(q, Len(q), type, Without(q, type))
<1>. DEFINE N == Len(q)
            Next1(F, n) == IF n = 0 THEN <<>>
                           ELSE IF q[n].type = type THEN F[n - 1] ELSE Append(F[n - 1], q[n])
            Is(F, m) == F = [n \in 0..m |-> Next1(F, n)]
            Good == {m \in Nat : m <= N => \E F : Is(F, m)}
            K == CHOOSE F : Is(F, N)
            Sound == {m \in Nat : m <= N => K[m] \in Seq(S) /\ Filtered(q, m, type, K[m])}
<1>0. N \in Nat OBVIOUS
<1>1. Good = Nat
  <2>1. 0 \in Good
    <3>1. Is([n \in 0..0 |-> <<>>], 0) OBVIOUS
    <3>. QED BY <3>1
  <2>2. ASSUME NEW m \in Good PROVE m + 1 \in Good
    <3>1. SUFFICES ASSUME m + 1 <= N PROVE \E F : Is(F, m + 1) BY SMTT(30)
    <3>2. m \in Nat /\ m <= N BY <3>1, <1>0
    <3>3. \E F : Is(F, m) BY <2>2, <3>2
    <3>4. PICK F : Is(F, m) BY <3>3
    <3>. DEFINE H == [n \in 0..(m + 1) |-> IF n = m + 1 THEN Next1(F, m + 1) ELSE F[n]]
    <3>5. \A n \in 0..m : F[n] = Next1(F, n) BY <3>4
    <3>6. \A n \in 0..m : H[n] = F[n] /\ n \in 0..(m + 1) /\ (n # 0 => n - 1 \in 0..m)
      BY <3>2
    <3>7. ASSUME NEW n \in 0..(m + 1) PROVE H[n] = Next1(H, n)
      <4>1. CASE n = m + 1
        <5>1. n - 1 \in 0..m /\ H[n] = Next1(F, n) BY <4>1, <3>2
        <5>2. H[n - 1] = F[n - 1] BY <5>1, <3>6
        <5>. HIDE DEF H
        <5>. QED BY <5>1, <5>2
      <4>2. CASE n # m + 1
        <5>1. n \in 0..m BY <4>2, <3>2
        <5>2. H[n] = Next1(F, n) BY <5>1, <3>5, <3>6
        <5>3. n # 0 => H[n - 1] = F[n - 1] BY <5>1, <3>6
        <5>. HIDE DEF H
        <5>. QED BY <5>2, <5>3
      <4>. QED BY <4>1, <4>2
    <3>8. Is(H, m + 1)
      <4>1. H = [n \in 0..(m + 1) |-> H[n]] OBVIOUS
      <4>. HIDE DEF H
      <4>. QED BY <3>7, <4>1
    <3>. QED BY <3>8
  <2>3. Good \in SUBSET Nat OBVIOUS
  <2>. HIDE DEF Good
  <2>. QED BY <2>1, <2>2, <2>3, SetInduction
<1>2. Is(K, N)
  <2>. HIDE DEF Is
  <2>1. \E F : Is(F, N) BY <1>0, <1>1
  <2>. QED BY <2>1
<1>3. Sound = Nat
  <2>1. 0 \in Sound
    <3>1. 0 \in 0..N BY <1>0
    <3>. HIDE DEF K
    <3>2. K[0] = <<>> BY <1>2, <3>1
    <3>3. Filtered(q, 0, type, <<>>) BY DEF Filtered
    <3>4. K[0] \in Seq(S) /\ Filtered(q, 0, type, K[0]) BY <3>2, <3>3
    <3>. HIDE DEF N
    <3>. QED BY <3>4
  <2>2. ASSUME NEW m \in Sound PROVE m + 1 \in Sound
    <3>1. SUFFICES ASSUME m + 1 <= N
                   PROVE K[m + 1] \in Seq(S) /\ Filtered(q, m + 1, type, K[m + 1])
      OBVIOUS
    <3>2. K[m] \in Seq(S) /\ Filtered(q, m, type, K[m]) BY <3>1, <1>0
    <3>3. K[m + 1] = IF q[m + 1].type = type THEN K[m] ELSE Append(K[m], q[m + 1])
      <4>1. m + 1 \in 0..N /\ m + 1 # 0 /\ (m + 1) - 1 = m BY <3>1, <1>0
      <4>2. K[m + 1] = Next1(K, m + 1) BY <1>2, <4>1
      <4>. HIDE DEF K
      <4>. QED BY <4>1, <4>2
    <3>. HIDE DEF K
    <3>4. m \in 0..(Len(q) - 1) BY <3>1
    <3>. QED BY <3>2, <3>3, <3>4, FilterStep
  <2>3. Sound \in SUBSET Nat OBVIOUS
  <2>. HIDE DEF Sound
  <2>. QED BY <2>1, <2>2, <2>3, SetInduction
<1>4. Without(q, type) = K[N] BY DEF Without
<1>5. N \in Sound BY <1>0, <1>3
<1>. HIDE DEF K
<1>. QED BY <1>0, <1>4, <1>5

\* m was pushed on q, and of q there is base left.
PushedOnto(base, q, m) ==
  /\ PushControl(q, m) = Append(base, m)
  /\ Once(Append(base, m))
  /\ \A i \in DOMAIN base :
       base[i].type \notin {"TICK", m.type} /\ \E k \in DOMAIN q : base[i] = q[k]
  /\ \A k \in DOMAIN q :
       q[k].type \notin {"TICK", m.type} => \E i \in DOMAIN base : base[i] = q[k]

\* What PushControl does to a queue, in terms of positions.
LEMMA Pushed ==
  ASSUME NEW q \in Seq(ControlSet), Once(q), NEW m \in ControlSet, m.type # "TICK",
         m.type = "STOP" => \A i \in DOMAIN q : q[i].type # "STOP"
  PROVE  \E base \in Seq(ControlSet) : PushedOnto(base, q, m)
<1>. DEFINE calm == Without(q, "TICK")
            base == IF m.type \in {"SET_WINDOW", "RESIZE"} THEN Without(calm, m.type) ELSE calm
<1>1. calm \in Seq(ControlSet) /\ Filtered(q, Len(q), "TICK", calm)
  BY WithoutFilters
<1>2. Without(calm, m.type) \in Seq(ControlSet)
      /\ Filtered(calm, Len(calm), m.type, Without(calm, m.type))
  BY <1>1, WithoutFilters
<1>3. PushControl(q, m) = Append(base, m) BY DEF PushControl
<1>4. base \in Seq(ControlSet) BY <1>1, <1>2
<1>5. m.type \in {"SET_WINDOW", "RESIZE", "STOP"} BY DEF ControlSet
<1>. HIDE DEF calm
<1>6. DOMAIN q = 1..Len(q) /\ DOMAIN calm = 1..Len(calm) BY <1>1
<1>7. ASSUME NEW i \in DOMAIN base
      PROVE  base[i].type \notin {"TICK", m.type} /\ \E k \in DOMAIN q : base[i] = q[k]
  <2>1. PICK j \in DOMAIN calm : base[i] = calm[j]
    <3>1. CASE m.type \in {"SET_WINDOW", "RESIZE"}
      <4>. DEFINE kept == Without(calm, m.type)
      <4>1. base = kept BY <3>1
      <4>2. Filtered(calm, Len(calm), m.type, kept) BY <1>2
      <4>. HIDE DEF kept, base
      <4>3. i \in DOMAIN kept BY <4>1
      <4>. QED BY <1>6, <4>1, <4>2, <4>3 DEF Filtered
    <3>2. CASE m.type \notin {"SET_WINDOW", "RESIZE"}
      <4>1. base = calm BY <3>2
      <4>. QED BY <4>1
    <3>. QED BY <3>1, <3>2
  <2>2. PICK k \in DOMAIN q : calm[j] = q[k] /\ q[k].type # "TICK" BY <1>1, <1>6 DEF Filtered
  <2>3. m.type \in {"SET_WINDOW", "RESIZE"} => base[i].type # m.type
    BY <1>2 DEF Filtered
  <2>. QED BY <1>5, <2>1, <2>2, <2>3
<1>8. ASSUME NEW k \in DOMAIN q, q[k].type \notin {"TICK", m.type}
      PROVE  \E i \in DOMAIN base : base[i] = q[k]
  <2>1. PICK j \in DOMAIN calm : calm[j] = q[k] BY <1>1, <1>6, <1>8 DEF Filtered
  <2>. QED BY <1>2, <1>6, <1>8, <2>1, SMTT(30) DEF Filtered
<1>9. ASSUME NEW i \in DOMAIN base, NEW j \in DOMAIN base, i < j
      PROVE  base[i].type # base[j].type
  <2>1. \E k, l \in DOMAIN calm : k < l /\ base[i] = calm[k] /\ base[j] = calm[l]
    <3>1. CASE m.type \in {"SET_WINDOW", "RESIZE"}
      <4>1. Filtered(calm, Len(calm), m.type, base) BY <1>2, <3>1
      <4>. HIDE DEF base
      <4>2. PICK k \in 1..Len(calm), l \in 1..Len(calm) :
              k < l /\ base[i] = calm[k] /\ base[j] = calm[l]
        BY <1>9, <4>1 DEF Filtered
      <4>. QED BY <1>6, <4>2
    <3>2. CASE m.type \notin {"SET_WINDOW", "RESIZE"} BY <1>9, <3>2
    <3>. QED BY <3>1, <3>2
  <2>2. PICK k \in DOMAIN calm, l \in DOMAIN calm : k < l /\ base[i] = calm[k] /\ base[j] = calm[l]
    BY <2>1
  <2>3. PICK x \in 1..Len(q), y \in 1..Len(q) : x < y /\ calm[k] = q[x] /\ calm[l] = q[y]
    BY <1>1, <2>2 DEF Filtered
  <2>. QED BY <1>6, <2>2, <2>3 DEF Once
<1>. HIDE DEF base
<1>10. Once(Append(base, m))
  <2>. DEFINE p == Append(base, m)
  <2>1. /\ Len(p) = Len(base) + 1 /\ p[Len(p)] = m /\ DOMAIN base = 1..Len(base)
        /\ \A i \in DOMAIN p : i = Len(p) \/ (i \in DOMAIN base /\ p[i] = base[i])
    BY <1>4
  <2>2. DOMAIN p \in SUBSET Nat /\ DOMAIN base \in SUBSET Nat /\ Len(base) \in Nat BY <1>4
  <2>. HIDE DEF p
  <2>3. ASSUME NEW i \in DOMAIN p, NEW j \in DOMAIN p, i < j PROVE p[i].type # p[j].type
    BY <1>7, <1>9, <2>1, <2>2, <2>3
  <2>4. \A i \in DOMAIN p : p[i].type # "TICK" BY <1>7, <2>1
  <2>. QED BY <2>2, <2>3, <2>4 DEF Once, p
<1>. QED BY <1>3, <1>4, <1>7, <1>8, <1>10 DEF PushedOnto

\* What is pushed is typed.
LEMMA PushTyped ==
  ASSUME NEW q \in Seq(ControlSet), NEW m \in ControlSet
  PROVE  PushControl(q, m) \in Seq(ControlSet)
<1>1. Without(q, "TICK") \in Seq(ControlSet) BY WithoutFilters
<1>2. Without(Without(q, "TICK"), m.type) \in Seq(ControlSet) BY <1>1, WithoutFilters
<1>. QED BY <1>1, <1>2 DEF PushControl

\* A size at the back is replaced.
LEMMA PushSizeIs ==
  ASSUME NEW s, messages \in Seq(MessageSet), PushSize(s), ~closed
  PROVE  \E old \in Seq(MessageSet) :
           /\ messages' = Append(old, Resized(s))
           /\ Len(old) <= Len(messages)
           /\ \A i \in 1..Len(old) : old[i] = messages[i]
           /\ \A i \in 1..Len(messages) : IsSurface(messages[i]) => i <= Len(old)
<1>1. CASE messages # <<>> /\ Last(messages).type = "WindowResized"
  <2>0. Len(messages) \in Nat /\ Len(messages) > 0 BY <1>1
  <2>. DEFINE old == SubSeq(messages, 1, Len(messages) - 1)
  <2>1. /\ old \in Seq(MessageSet)
        /\ Len(old) = IF 1 <= Len(messages) - 1 THEN (Len(messages) - 1) - 1 + 1 ELSE 0
        /\ \A i \in 1..((Len(messages) - 1) - 1 + 1) : old[i] = messages[1 + i - 1]
    BY <2>0, SubSeqProperties
  <2>. HIDE DEF old
  <2>2. Len(old) = Len(messages) - 1
    <3>1. CASE Len(messages) = 1 BY <2>1, <3>1
    <3>2. CASE Len(messages) > 1
      <4>1. 1 <= Len(messages) - 1 BY <2>0, <3>2
      <4>2. Len(old) = (Len(messages) - 1) - 1 + 1 BY <2>1, <4>1
      <4>. QED BY <2>0, <4>2
    <3>3. \A n \in Nat : n > 0 => n = 1 \/ n > 1 OBVIOUS
    <3>. QED BY <2>0, <3>1, <3>2, <3>3, Zenon
  <2>3. \A i \in 1..Len(old) : old[i] = messages[i] BY <2>0, <2>1, <2>2
  <2>4. messages' = Append(old, Resized(s)) BY <1>1 DEF PushSize, Front, old
  <2>5. messages[Len(messages)].type = "WindowResized" BY <1>1 DEF Last
  <2>6. ASSUME NEW i \in 1..Len(messages), IsSurface(messages[i]) PROVE i <= Len(old)
    <3>1. i # Len(messages) BY <2>5, <2>6 DEF IsSurface
    <3>. QED BY <2>0, <2>2, <3>1
  <2>7. Len(old) <= Len(messages) BY <2>0, <2>2
  <2>. QED BY <2>1, <2>3, <2>4, <2>6, <2>7
<1>2. CASE ~(messages # <<>> /\ Last(messages).type = "WindowResized")
  <2>1. messages' = Append(messages, Resized(s)) BY <1>2 DEF PushSize
  <2>2. Len(messages) <= Len(messages) /\ \A i \in 1..Len(messages) : i <= Len(messages) OBVIOUS
  <2>. QED BY <2>1, <2>2
<1>. QED BY <1>1, <1>2

\* What the callbacks send are messages of the session.
LEMMA MessagesTyped ==
  /\ \A g \in Nat : Created(g) \in MessageSet /\ Destroyed(g) \in MessageSet
  /\ \A s \in WindowOrNot : Resized(s) \in MessageSet
  /\ \A s \in WindowOrNot : ResizeMsg(s) \in ControlSet
  /\ \A w \in WindowOrNot, g \in Nat : SetWindowMsg(w, g) \in ControlSet
  /\ Tick \in ControlSet /\ StopMsg \in ControlSet
BY DEF Created, Destroyed, Resized, MessageSet, SurfaceMsgs, ControlSet, ResizeMsg, SetWindowMsg,
       Tick, StopMsg

\* What the UI thread sends and remembers is typed.
LEMMA UiTypes == ASSUME SessionTypes, UiNext PROVE SessionTypes'
<1>. USE DEF SessionTypes
<1>1. ASSUME NEW w \in Windows, NEW b \in BOOLEAN, SurfaceCallback(w, b) PROVE SessionTypes'
  <2>0. PICK s \in {w, NoWindow} :
          ui' = [At("set") EXCEPT !.window = w, !.size = s, !.rebind = b]
    BY <1>1 DEF SurfaceCallback
  <2>. DEFINE new == [step |-> "set", window |-> w, size |-> s, generation |-> 0, rebind |-> b]
  <2>1. ui' \in StepRecords(UiSteps)
    <3>1. ui' = new BY <2>0 DEF At
    <3>2. new \in StepRecords(UiSteps) BY DEF StepRecords, WindowOrNot, UiSteps
    <3>. QED BY <3>1, <3>2
  <2>2. events' \in Nat BY <1>1 DEF SurfaceCallback
  <2>. QED BY <1>1, <2>1, <2>2 DEF SurfaceCallback, renderVars, UiSteps
<1>2. ASSUME NEW w \in Windows, SurfaceDestroyed(w) PROVE SessionTypes'
  <2>1. At("set") \in StepRecords(UiSteps) BY DEF At, StepRecords, WindowOrNot, UiSteps
  <2>2. events' \in Nat BY <1>2 DEF SurfaceDestroyed
  <2>. QED BY <1>2, <2>1, <2>2 DEF SurfaceDestroyed, renderVars, UiSteps
<1>. DEFINE To(x) == [ui EXCEPT !.step = x]
<1>3. \A x \in UiSteps : To(x) \in StepRecords(UiSteps) /\ At(x) \in StepRecords(UiSteps)
  BY DEF StepRecords, UiSteps, At, WindowOrNot
<1>. HIDE DEF To
<1>4. CASE SetGuard
  <2>1. guard' \in WindowOrNot BY <1>4 DEF SetGuard, StepRecords
  <2>2. ui' \in StepRecords(UiSteps) BY <1>3, <1>4 DEF SetGuard, To, UiSteps
  <2>. QED BY <1>4, <2>1, <2>2 DEF SetGuard, renderVars, UiSteps
<1>5. CASE PublishWindow
  <2>0. generation + 1 \in Nat OBVIOUS
  <2>1. messages' \in Seq(MessageSet) 
    <3>1. Created(generation + 1) \in MessageSet /\ Destroyed(generation + 1) \in MessageSet
      BY <2>0, MessagesTyped
    <3>2. \/ messages' = messages
          \/ messages' = Append(messages, Created(generation + 1))
          \/ messages' = Append(messages, Destroyed(generation + 1))
      BY <1>5 DEF PublishWindow, Push
    <3>. DEFINE c == Created(generation + 1)  d == Destroyed(generation + 1)
    <3>3. Append(messages, c) \in Seq(MessageSet) /\ Append(messages, d) \in Seq(MessageSet)
      BY <3>1
    <3>. QED BY <3>2, <3>3
  <2>2. ui' \in StepRecords(UiSteps) BY <1>3, <1>5 DEF PublishWindow, To, UiSteps
  <2>3. lastSize' \in WindowOrNot BY <1>5 DEF PublishWindow, WindowOrNot
  <2>4. generation' \in Nat BY <1>5 DEF PublishWindow, Bump
  <2>. QED BY <1>5, <2>1, <2>2, <2>3, <2>4 DEF PublishWindow, Bump, UiSteps
<1>6. CASE StoreSize
  <2>0. generation + 1 \in Nat OBVIOUS
  <2>1. messages' \in Seq(MessageSet) 
    <3>1. Created(generation + 1) \in MessageSet BY <2>0, MessagesTyped
    <3>2. messages' = messages \/ messages' = Append(messages, Created(generation + 1))
      BY <1>6 DEF StoreSize, Push
    <3>. QED BY <3>1, <3>2
  <2>2. ui' \in StepRecords(UiSteps) BY <1>3, <1>6 DEF StoreSize, To, UiSteps
  <2>3. lastSize' \in WindowOrNot BY <1>6 DEF StoreSize, StepRecords
  <2>4. generation' \in Nat /\ UNCHANGED <<controlQueue, session>>
    BY <1>6 DEF StoreSize, Bump, renderVars
  <2>. QED BY <1>6, <2>1, <2>2, <2>3, <2>4 DEF StoreSize, UiSteps
<1>7. CASE NoSizeYet
  BY <1>3, <1>7 DEF NoSizeYet, renderVars, UiSteps
<1>8. CASE SendResized
  <2>1. messages' \in Seq(MessageSet)
    <3>1. Resized(ui.size) \in MessageSet BY MessagesTyped DEF StepRecords
    <3>2. CASE closed BY <1>8, <3>2 DEF SendResized, PushSize
    <3>3. CASE ~closed
      <4>1. PICK old \in Seq(MessageSet) : messages' = Append(old, Resized(ui.size))
        BY <1>8, <3>3, PushSizeIs DEF SendResized
      <4>. QED BY <3>1, <4>1
    <3>. QED BY <3>2, <3>3
  <2>. QED BY <1>3, <1>8, <2>1 DEF SendResized, renderVars, UiSteps
<1>. QED BY <1>1, <1>2, <1>4, <1>5, <1>6, <1>7, <1>8 DEF UiNext, UiStep

\* Taking the first message or command keeps the type of a queue.
LEMMA TailTyped ==
  ASSUME NEW S, NEW q \in Seq(S), q # <<>>
  PROVE  /\ Tail(q) \in Seq(S) /\ Head(q) = q[1] /\ 1 \in DOMAIN q /\ Head(q) \in S
         /\ Len(q) \in Nat /\ Len(q) > 0 /\ Len(Tail(q)) = Len(q) - 1
         /\ \A i \in 1..(Len(q) - 1) : Tail(q)[i] = q[i + 1]
<1>1. /\ Head(q) \in S /\ Tail(q) \in Seq(S) /\ Len(Tail(q)) = Len(q) - 1
      /\ \A i \in 1..Len(Tail(q)) : Tail(q)[i] = q[i + 1]
  BY HeadTailProperties
<1>2. Len(q) \in Nat /\ Len(q) > 0 /\ 1 \in DOMAIN q /\ Head(q) = q[1] OBVIOUS
<1>. QED BY <1>1, <1>2

\* What the game thread sends and remembers is typed.
LEMMA GameTypes == ASSUME SessionTypes, GameNext PROVE SessionTypes'
<1>. USE DEF SessionTypes
<1>. DEFINE At2(x, g) == [At(x) EXCEPT !.generation = g]
<1>1. \A x \in GameSteps : \A g \in Nat :
        At(x) \in StepRecords(GameSteps) /\ At2(x, g) \in StepRecords(GameSteps)
  BY DEF StepRecords, GameSteps, At, WindowOrNot
<1>. HIDE DEF At2
<1>2. ASSUME messages # <<>> PROVE Tail(messages) \in Seq(MessageSet) /\ Head(messages) \in MessageSet
  BY <1>2, TailTyped
<1>3. \A m \in MessageSet :
        /\ m.type \in {"WindowCreated", "WindowDestroyed"} => m.generation \in Nat
        /\ m.type = "WindowResized" => m.size \in WindowOrNot
  BY DEF MessageSet, SurfaceMsgs
<1>4. CASE PopCreated
  <2>1. Head(messages).generation \in Nat BY <1>2, <1>3, <1>4 DEF PopCreated
  <2>2. game' \in StepRecords(GameSteps)
    BY <1>1, <1>4, <2>1 DEF PopCreated, At2, GameSteps
  <2>3. messages' \in Seq(MessageSet) BY <1>2, <1>4 DEF PopCreated
  <2>. QED BY <1>4, <2>2, <2>3 DEF PopCreated, GameKeeps, renderVars, GameSteps
<1>5. CASE BindCurrent
  <2>1. SetWindowMsg(guard, game.generation) \in ControlSet BY MessagesTyped DEF StepRecords
  <2>2. controlQueue' \in Seq(ControlSet) BY <1>5, <2>1, PushTyped DEF BindCurrent, SendWindow
  <2>3. game' \in StepRecords(GameSteps) BY <1>1, <1>5 DEF BindCurrent, GameSteps
  <2>. QED BY <1>5, <2>2, <2>3 DEF BindCurrent, GameKeeps, GameSteps
<1>6. CASE PopDestroyed
  <2>1. SetWindowMsg(NoWindow, Head(messages).generation) \in ControlSet
    BY <1>2, <1>3, <1>6, MessagesTyped DEF PopDestroyed, WindowOrNot
  <2>2. controlQueue' \in Seq(ControlSet) BY <1>6, <2>1, PushTyped DEF PopDestroyed, SendWindow
  <2>3. messages' \in Seq(MessageSet) BY <1>2, <1>6 DEF PopDestroyed
  <2>. QED BY <1>6, <2>2, <2>3 DEF PopDestroyed, GameKeeps
<1>7. CASE PopResized
  <2>1. ResizeMsg(Head(messages).size) \in ControlSet
    BY <1>2, <1>3, <1>7, MessagesTyped DEF PopResized
  <2>2. controlQueue' \in Seq(ControlSet) BY <1>7, <2>1, PushTyped DEF PopResized, SendSize
  <2>3. messages' \in Seq(MessageSet) BY <1>2, <1>7 DEF PopResized
  <2>. QED BY <1>7, <2>2, <2>3 DEF PopResized, GameKeeps
<1>8. CASE MakeFrame
  <2>1. game' \in StepRecords(GameSteps) BY <1>1, <1>8 DEF MakeFrame, At2, GameSteps
  <2>. QED BY <1>8, <2>1 DEF MakeFrame, GameKeeps, renderVars, GameSteps
<1>9. CASE DeliverFrame
  <2>1. controlQueue' \in Seq(ControlSet)
    BY <1>9, PushTyped, MessagesTyped DEF DeliverFrame, EnqueueFrame
  <2>2. game' \in StepRecords(GameSteps) BY <1>1, <1>9 DEF DeliverFrame, GameSteps
  <2>. QED BY <1>9, <2>1, <2>2 DEF DeliverFrame, GameKeeps, GameSteps
<1>10. CASE GameExit
  <2>1. game' \in StepRecords(GameSteps) BY <1>1, <1>10 DEF GameExit, GameSteps
  <2>. QED BY <1>10, <2>1 DEF GameExit, GameKeeps, GameSteps
<1>11. CASE GameSendStop
  <2>1. controlQueue' \in Seq(ControlSet)
    BY <1>11, PushTyped, MessagesTyped DEF GameSendStop
  <2>2. game' \in StepRecords(GameSteps) BY <1>1, <1>11 DEF GameSendStop, GameSteps
  <2>. QED BY <1>11, <2>1, <2>2 DEF GameSendStop, GameKeeps, GameSteps
<1>12. CASE GameJoin
  <2>1. game' \in StepRecords(GameSteps) BY <1>1, <1>12 DEF GameJoin, GameSteps
  <2>. QED BY <1>12, <2>1 DEF GameJoin, GameKeeps, GameSteps
<1>. QED BY <1>4, <1>5, <1>6, <1>7, <1>8, <1>9, <1>10, <1>11, <1>12 DEF GameNext

ControlNext == ControlStep \/ StartGameThread \/ StopRequest

\* What a Start or a Stop sends and remembers is typed.
LEMMA ControlTypes == ASSUME SessionTypes, ControlNext PROVE SessionTypes'
<1>. USE DEF SessionTypes
<1>. DEFINE At2(x, s) == [At(x) EXCEPT !.size = s]
<1>1. /\ \A x \in ControlSteps : \A s \in WindowOrNot :
           At(x) \in StepRecords(ControlSteps) /\ At2(x, s) \in StepRecords(ControlSteps)
      /\ \A x \in GameSteps : At(x) \in StepRecords(GameSteps)
  BY DEF StepRecords, GameSteps, ControlSteps, At, WindowOrNot
<1>. HIDE DEF At2
<1>2. <<>> \in Seq(MessageSet) /\ <<>> \in Seq(ControlSet) OBVIOUS
<1>3. CASE StartRenderThread
  <2>1. control' \in StepRecords(ControlSteps) BY <1>1, <1>3 DEF StartRenderThread, ControlSteps
  <2>. QED BY <1>2, <1>3, <2>1
       DEF StartRenderThread, RenderStart, ControlKeeps, ControlSteps
<1>4. CASE StartSendWindow
  <2>1. control' \in StepRecords(ControlSteps)
    BY <1>1, <1>4 DEF StartSendWindow, At2, ControlSteps
  <2>2. generation' \in Nat BY <1>4 DEF StartSendWindow
  <2>3. Created(generation') \in MessageSet BY <2>2, MessagesTyped
  <2>4. messages \in Seq(MessageSet)
        /\ (messages' = messages \/ messages' = Append(messages, Created(generation')))
    BY <1>4 DEF StartSendWindow, Push
  <2>5. messages' \in Seq(MessageSet) BY ONLY <2>3, <2>4
  <2>. QED BY <1>4, <2>1, <2>2, <2>5
       DEF StartSendWindow, ControlKeeps, renderVars, ControlSteps
<1>5. CASE StartSendSize
  <2>1. control' \in StepRecords(ControlSteps) BY <1>1, <1>5 DEF StartSendSize, ControlSteps
  <2>2. Resized(control.size) \in MessageSet BY MessagesTyped DEF StepRecords
  <2>3. messages' \in Seq(MessageSet) BY <1>5, <2>2, SMTT(30) DEF StartSendSize, Push
  <2>. QED BY <1>5, <2>1, <2>3 DEF StartSendSize, ControlKeeps, renderVars, ControlSteps
<1>6. CASE StopReturn
  <2>1. control' \in StepRecords(ControlSteps) BY <1>1, <1>6 DEF StopReturn, ControlSteps
  <2>. QED BY <1>6, <2>1 DEF StopReturn, ControlKeeps, renderVars, ControlSteps
<1>7. CASE StartGameThread
  <2>1. control' \in StepRecords(ControlSteps) /\ game' \in StepRecords(GameSteps)
    BY <1>1, <1>7 DEF StartGameThread, ControlSteps, GameSteps
  <2>. QED BY <1>2, <1>7, <2>1
       DEF StartGameThread, ControlKeeps, renderVars, ControlSteps, GameSteps
<1>8. CASE StopRequest
  <2>1. control' \in StepRecords(ControlSteps) BY <1>1, <1>8 DEF StopRequest, ControlSteps
  <2>. QED BY <1>8, <2>1 DEF StopRequest, ControlKeeps, renderVars, ControlSteps
<1>. QED BY <1>3, <1>4, <1>5, <1>6, <1>7, <1>8 DEF ControlNext, ControlStep

\* What the render thread and the vsync callback leave is typed.
LEMMA RenderTypes ==
  ASSUME SessionTypes, UNCHANGED engineVars, RenderStep \/ VSyncCallback
  PROVE  SessionTypes'
<1>. USE DEF SessionTypes
<1>1. /\ controlQueue' \in Seq(ControlSet)
      /\ session' \in [window : WindowOrNot, generation : Nat, size : WindowOrNot, state : SessionStates]
  <2>. DEFINE Sessions == [window : WindowOrNot, generation : Nat, size : WindowOrNot,
                           state : SessionStates]
  <2>1. CASE ThreadBegin \/ StopWithoutMessage \/ TimerTick \/ HandleTick
    BY <2>1 DEF ThreadBegin, StopWithoutMessage, TimerTick, HandleTick
  <2>2. ASSUME NEW w \in WindowOrNot, NEW g \in Nat, BindWindow(w, g) PROVE session' \in Sessions
    <3>. DEFINE n == IF g > 0 THEN g ELSE session.generation + 1
                t == IF w = NoWindow THEN "DESTROYED" ELSE "ATTACHED_PENDING_SIZE"
    <3>1. \/ session' = session
          \/ session' = [window |-> w, generation |-> n, size |-> NoWindow, state |-> t]
      BY <2>2 DEF BindWindow
    <3>2. n \in Nat
      <4>1. session.generation \in Nat OBVIOUS
      <4>. QED BY <4>1
    <3>3. t \in SessionStates BY DEF SessionStates
    <3>4. NoWindow \in WindowOrNot BY DEF WindowOrNot
    <3>5. session \in Sessions OBVIOUS
    <3>. HIDE DEF n, t, SessionTypes
    <3>. QED BY <3>1, <3>2, <3>3, <3>4, <3>5
  <2>3. ASSUME NEW m \in ControlSet, HandleResize(m), m.type = "RESIZE" PROVE session' \in Sessions
    <3>1. m.size \in WindowOrNot BY <2>3 DEF ControlSet
    <3>. DEFINE x == CASE session.window = NoWindow -> "DETACHED"
                       [] m.size = NoWindow -> "PAUSED_SURFACE"
                       [] OTHER -> "READY"
    <3>2. session' = [session EXCEPT !.size = m.size, !.state = x] BY <2>3 DEF HandleResize
    <3>3. x \in SessionStates BY DEF SessionStates
    <3>4. session \in Sessions OBVIOUS
    <3>. HIDE DEF x, SessionTypes
    <3>. QED BY <3>1, <3>2, <3>3, <3>4
  <2>4. CASE TakeControl
    <3>. DEFINE m == Head(controlQueue)
    <3>1. m \in ControlSet /\ Tail(controlQueue) \in Seq(ControlSet)
      BY <2>4, TailTyped DEF TakeControl
    <3>. HIDE DEF Sessions
    <3>2. CASE m.type = "SET_WINDOW"
      <4>1. HandleSetWindow(m) BY <2>4, <3>2 DEF TakeControl
      <4>2. m.window \in WindowOrNot /\ m.generation \in Nat BY <3>1, <3>2 DEF ControlSet
      <4>3. session' \in Sessions BY <2>2, <4>1, <4>2 DEF HandleSetWindow
      <4>. QED BY <2>4, <3>1, <4>3 DEF TakeControl, Sessions
    <3>3. CASE m.type = "RESIZE"
      <4>1. HandleResize(m) BY <2>4, <3>3 DEF TakeControl
      <4>2. session' \in Sessions BY <2>3, <3>1, <3>3, <4>1
      <4>. QED BY <2>4, <3>1, <4>2 DEF TakeControl, Sessions
    <3>4. CASE m.type \notin {"SET_WINDOW", "RESIZE"}
      BY <2>4, <3>1, <3>4 DEF TakeControl, Sessions
    <3>. QED BY <3>2, <3>3, <3>4
  <2>5. CASE ThreadExit
    <3>1. NoWindow \in WindowOrNot BY DEF WindowOrNot
    <3>2. BindWindow(NoWindow, 0) BY <2>5 DEF ThreadExit
    <3>. QED BY <2>2, <2>5, <3>1, <3>2 DEF ThreadExit
  <2>6. CASE VSyncCallback BY <2>6, PushTyped, MessagesTyped DEF VSyncCallback
  <2>. QED BY <2>1, <2>4, <2>5, <2>6 DEF RenderStep
<1>. QED BY <1>1 DEF engineVars

\* The queues q and r hold the same but for ticks.
SameButTicks(q, r) ==
  \A i \in DOMAIN q \cup DOMAIN r :
    \/ i \in DOMAIN q /\ i \in DOMAIN r /\ q[i] = r[i]
    \/ i \notin DOMAIN r /\ q[i].type = "TICK"
    \/ i \notin DOMAIN q /\ r[i].type = "TICK"

\* A tick is put at the back, unless there is one.
LEMMA TickPushed ==
  ASSUME NEW q \in Seq(ControlSet), Once(q)
  PROVE  /\ Once(PushControl(q, Tick)) /\ SameButTicks(q, PushControl(q, Tick))
         /\ NoStop(q) => NoStop(PushControl(q, Tick))
         /\ NoBinding(q) => NoBinding(PushControl(q, Tick))
<1>1. CASE q # <<>> /\ Last(q).type = "TICK"
  BY <1>1 DEF PushControl, Tick, SameButTicks
<1>2. CASE ~(q # <<>> /\ Last(q).type = "TICK")
  <2>. DEFINE r == Append(q, Tick)
  <2>1. PushControl(q, Tick) = r BY <1>2 DEF PushControl, Tick
  <2>2. /\ Len(q) \in Nat /\ DOMAIN q = 1..Len(q) /\ DOMAIN r = 1..(Len(q) + 1)
        /\ Len(r) = Len(q) + 1 /\ r[Len(q) + 1].type = "TICK"
        /\ \A i \in DOMAIN q : r[i] = q[i]
    BY DEF Tick
  <2>3. \A i \in DOMAIN q : q[i].type # "TICK"
    <3>1. ASSUME NEW i \in DOMAIN q, q[i].type = "TICK" PROVE FALSE
      <4>1. i = Len(q) /\ q # <<>> BY <3>1 DEF Once
      <4>. QED BY <1>2, <3>1, <4>1 DEF Last
    <3>. QED BY <3>1
  <2>. HIDE DEF r
  <2>4. Once(r) BY <2>2, <2>3 DEF Once
  <2>5. SameButTicks(q, r) BY <2>2 DEF SameButTicks
  <2>6. (NoStop(q) => NoStop(r)) /\ (NoBinding(q) => NoBinding(r))
    BY <2>2 DEF NoStop, NoBinding
  <2>. QED BY <2>1, <2>4, <2>5, <2>6
<1>. QED BY <1>1, <1>2

\* A push keeps a kind of message in the queue at most once.
LEMMA PushKeeps ==
  ASSUME NEW q \in Seq(ControlSet), Once(q), NEW m \in ControlSet,
         m.type \in {"SET_WINDOW", "RESIZE"}
  PROVE  Once(PushControl(q, m)) /\ (NoStop(q) => NoStop(PushControl(q, m)))
<1>0. m.type # "TICK" /\ m.type # "STOP" OBVIOUS
<1>1. PICK base \in Seq(ControlSet) : PushedOnto(base, q, m) BY <1>0, Pushed
<1>. DEFINE r == Append(base, m)
<1>2. \A i \in DOMAIN r : r[i] = m \/ (i \in DOMAIN base /\ r[i] = base[i])
  <2>1. /\ DOMAIN r = 1..(Len(base) + 1) /\ DOMAIN base = 1..Len(base) /\ Len(base) \in Nat
        /\ r[Len(base) + 1] = m /\ \A i \in 1..Len(base) : r[i] = base[i]
    OBVIOUS
  <2>. HIDE DEF r
  <2>. QED BY <2>1
<1>3. PushControl(q, m) = r /\ Once(r) BY <1>1 DEF PushedOnto
<1>. HIDE DEF r
<1>4. NoStop(q) => NoStop(r) BY <1>0, <1>1, <1>2 DEF NoStop, PushedOnto
<1>. QED BY <1>3, <1>4

\* Taking the first command does, too.
LEMMA TakenKeeps ==
  ASSUME NEW q \in Seq(ControlSet), q # <<>>, Once(q)
  PROVE  Once(Tail(q)) /\ (NoStop(q) => NoStop(Tail(q))) /\ (NoBinding(q) => NoBinding(Tail(q)))
<1>. DEFINE r == Tail(q)
<1>1. /\ Len(q) \in Nat /\ Len(q) > 0 /\ Len(r) = Len(q) - 1 /\ r \in Seq(ControlSet)
      /\ \A i \in 1..(Len(q) - 1) : r[i] = q[i + 1]
  BY TailTyped
<1>. HIDE DEF r
<1>2. DOMAIN r = 1..(Len(q) - 1) /\ DOMAIN q = 1..Len(q) BY <1>1
<1>3. \A i \in DOMAIN r : i + 1 \in DOMAIN q /\ r[i] = q[i + 1] BY <1>1, <1>2
<1>4. Once(r) BY <1>1, <1>2, <1>3, SMTT(30) DEF Once
<1>5. (NoStop(q) => NoStop(r)) /\ (NoBinding(q) => NoBinding(r)) BY <1>3 DEF NoStop, NoBinding
<1>. QED BY <1>4, <1>5 DEF r

\* Each kind of message stays unique in the queue.
LEMMA QueueFormKept == ASSUME SessionBase, WindowNext PROVE QueueForm'
<1>. USE DEF SessionBase
<1>1. CASE UNCHANGED controlQueue BY <1>1 DEF QueueForm
<1>2. CASE UiNext
  BY <1>1, <1>2 DEF UiNext, UiStep, SurfaceCallback, SurfaceDestroyed, SetGuard, PublishWindow,
       StoreSize, NoSizeYet, SendResized, renderVars, Bump
<1>3. CASE GameNext
  <2>1. CASE BindCurrent
    <3>. DEFINE m == SetWindowMsg(guard, game.generation)
    <3>1. m \in ControlSet BY MessagesTyped DEF SessionTypes, StepRecords
    <3>2. m.type = "SET_WINDOW" BY DEF SetWindowMsg
    <3>3. controlQueue' = PushControl(controlQueue, m) BY <2>1 DEF BindCurrent, SendWindow
    <3>. HIDE DEF m
    <3>. QED BY <3>1, <3>2, <3>3, PushKeeps DEF QueueForm, SessionTypes
  <2>2. CASE PopDestroyed
    <3>. DEFINE m == SetWindowMsg(NoWindow, Head(messages).generation)
    <3>1. m \in ControlSet
      <4>1. Head(messages) \in MessageSet BY <2>2, TailTyped DEF PopDestroyed, SessionTypes
      <4>2. Head(messages).generation \in Nat
        BY <2>2, <4>1 DEF PopDestroyed, MessageSet, SurfaceMsgs
      <4>. QED BY <4>2, MessagesTyped DEF WindowOrNot
    <3>2. m.type = "SET_WINDOW" BY DEF SetWindowMsg
    <3>3. controlQueue' = PushControl(controlQueue, m) \/ UNCHANGED controlQueue
      BY <2>2 DEF PopDestroyed, SendWindow
    <3>. HIDE DEF m
    <3>. QED BY <1>1, <3>1, <3>2, <3>3, PushKeeps DEF QueueForm, SessionTypes
  <2>3. CASE PopResized
    <3>. DEFINE m == ResizeMsg(Head(messages).size)
    <3>1. m \in ControlSet
      <4>1. Head(messages) \in MessageSet BY <2>3, TailTyped DEF PopResized, SessionTypes
      <4>2. Head(messages).size \in WindowOrNot
        BY <2>3, <4>1 DEF PopResized, MessageSet, SurfaceMsgs
      <4>. QED BY <4>2, MessagesTyped
    <3>2. m.type = "RESIZE" BY DEF ResizeMsg
    <3>3. controlQueue' = PushControl(controlQueue, m) BY <2>3 DEF PopResized, SendSize
    <3>. HIDE DEF m
    <3>. QED BY <3>1, <3>2, <3>3, PushKeeps DEF QueueForm, SessionTypes
  <2>4. CASE DeliverFrame
    BY <1>1, <2>4, TickPushed DEF DeliverFrame, EnqueueFrame, QueueForm, SessionTypes
  <2>5. CASE GameSendStop
    <3>1. NoStop(controlQueue) BY <2>5 DEF PhaseInv, GameSendStop
    <3>2. StopMsg \in ControlSet /\ StopMsg.type = "STOP" BY MessagesTyped DEF StopMsg
    <3>3. controlQueue' = PushControl(controlQueue, StopMsg) BY <2>5 DEF GameSendStop
    <3>4. StopMsg.type # "TICK" BY <3>2
    <3>5. PICK base \in Seq(ControlSet) : PushedOnto(base, controlQueue, StopMsg)
      BY <3>1, <3>2, <3>4, Pushed DEF QueueForm, SessionTypes, NoStop
    <3>. QED BY <3>3, <3>5 DEF QueueForm, PushedOnto
  <2>6. CASE PopCreated \/ MakeFrame \/ GameExit \/ GameJoin
    BY <1>1, <2>6 DEF PopCreated, MakeFrame, GameExit, GameJoin, renderVars
  <2>. QED BY <1>3, <2>1, <2>2, <2>3, <2>4, <2>5, <2>6 DEF GameNext
<1>4. CASE ControlNext
  <2>1. Once(<<>>) BY DEF Once
  <2>2. UNCHANGED controlQueue \/ controlQueue' = <<>>
    BY <1>4 DEF ControlNext, ControlStep, StartRenderThread, StartSendWindow, StartSendSize,
         StopReturn, StartGameThread, StopRequest, renderVars, RenderStart
  <2>. QED BY <1>1, <2>1, <2>2 DEF QueueForm
<1>5. CASE RenderStep
  <2>1. CASE TakeControl BY <2>1, TakenKeeps DEF TakeControl, QueueForm, SessionTypes
  <2>2. CASE ~TakeControl
    BY <1>1, <1>5, <2>2 DEF RenderStep, ThreadBegin, StopWithoutMessage, TimerTick, HandleTick,
         ThreadExit
  <2>. QED BY <2>1, <2>2
<1>6. CASE VSyncCallback
  BY <1>1, <1>6, TickPushed DEF VSyncCallback, QueueForm, SessionTypes
<1>. QED BY <1>2, <1>3, <1>4, <1>5, <1>6 DEF WindowNext, ControlNext

\* Nobody but GameSendStop, which ends in the join, sends a STOP.
LEMMA NoStopKept ==
  ASSUME SessionBase, WindowNext, NoStop(controlQueue), game'.step # "join"
  PROVE  NoStop(controlQueue')
<1>. USE DEF SessionBase
<1>1. CASE UNCHANGED controlQueue BY <1>1
<1>2. CASE UiNext
  BY <1>1, <1>2 DEF UiNext, UiStep, SurfaceCallback, SurfaceDestroyed, SetGuard, PublishWindow,
       StoreSize, NoSizeYet, SendResized, renderVars, Bump
<1>3. CASE GameNext
  <2>1. CASE BindCurrent
    <3>. DEFINE m == SetWindowMsg(guard, game.generation)
    <3>1. m \in ControlSet BY MessagesTyped DEF SessionTypes, StepRecords
    <3>2. m.type = "SET_WINDOW" BY DEF SetWindowMsg
    <3>3. controlQueue' = PushControl(controlQueue, m) BY <2>1 DEF BindCurrent, SendWindow
    <3>. HIDE DEF m
    <3>. QED BY <3>1, <3>2, <3>3, PushKeeps DEF QueueForm, SessionTypes
  <2>2. CASE PopDestroyed
    <3>. DEFINE m == SetWindowMsg(NoWindow, Head(messages).generation)
    <3>1. m \in ControlSet
      <4>1. Head(messages) \in MessageSet BY <2>2, TailTyped DEF PopDestroyed, SessionTypes
      <4>2. Head(messages).generation \in Nat
        BY <2>2, <4>1 DEF PopDestroyed, MessageSet, SurfaceMsgs
      <4>. QED BY <4>2, MessagesTyped DEF WindowOrNot
    <3>2. m.type = "SET_WINDOW" BY DEF SetWindowMsg
    <3>3. controlQueue' = PushControl(controlQueue, m) \/ UNCHANGED controlQueue
      BY <2>2 DEF PopDestroyed, SendWindow
    <3>. HIDE DEF m
    <3>. QED BY <1>1, <3>1, <3>2, <3>3, PushKeeps DEF QueueForm, SessionTypes
  <2>3. CASE PopResized
    <3>. DEFINE m == ResizeMsg(Head(messages).size)
    <3>1. m \in ControlSet
      <4>1. Head(messages) \in MessageSet BY <2>3, TailTyped DEF PopResized, SessionTypes
      <4>2. Head(messages).size \in WindowOrNot
        BY <2>3, <4>1 DEF PopResized, MessageSet, SurfaceMsgs
      <4>. QED BY <4>2, MessagesTyped
    <3>2. m.type = "RESIZE" BY DEF ResizeMsg
    <3>3. controlQueue' = PushControl(controlQueue, m) BY <2>3 DEF PopResized, SendSize
    <3>. HIDE DEF m
    <3>. QED BY <3>1, <3>2, <3>3, PushKeeps DEF QueueForm, SessionTypes
  <2>4. CASE DeliverFrame
    BY <1>1, <2>4, TickPushed DEF DeliverFrame, EnqueueFrame, QueueForm, SessionTypes
  <2>5. CASE PopCreated \/ MakeFrame \/ GameExit \/ GameJoin
    <3>1. UNCHANGED controlQueue BY <2>5 DEF PopCreated, MakeFrame, GameExit, GameJoin, renderVars
    <3>. QED BY <3>1
  <2>6. CASE GameSendStop BY <2>6 DEF GameSendStop, At
  <2>. QED BY <1>3, <2>1, <2>2, <2>3, <2>4, <2>5, <2>6 DEF GameNext
<1>4. CASE ControlNext
  <2>1. NoStop(<<>>) /\ NoBinding(<<>>) BY DEF NoStop, NoBinding
  <2>2. UNCHANGED controlQueue \/ controlQueue' = <<>>
    BY <1>4 DEF ControlNext, ControlStep, StartRenderThread, StartSendWindow, StartSendSize,
         StopReturn, StartGameThread, StopRequest, renderVars, RenderStart
  <2>. QED BY <1>1, <2>1, <2>2
<1>5. CASE RenderStep
  <2>1. CASE TakeControl BY <2>1, TakenKeeps DEF TakeControl, QueueForm, SessionTypes
  <2>2. CASE ~TakeControl
    BY <1>1, <1>5, <2>2 DEF RenderStep, ThreadBegin, StopWithoutMessage, TimerTick, HandleTick,
         ThreadExit
  <2>. QED BY <2>1, <2>2
<1>6. CASE VSyncCallback
  BY <1>1, <1>6, TickPushed DEF VSyncCallback, QueueForm, SessionTypes
<1>. QED BY <1>2, <1>3, <1>4, <1>5, <1>6 DEF WindowNext, ControlNext

\* Nobody but the game thread sends windows and sizes.
LEMMA NoBindingKept ==
  ASSUME SessionBase, WindowNext, NoBinding(controlQueue), ~GameNext
  PROVE  NoBinding(controlQueue')
<1>. USE DEF SessionBase
<1>1. CASE UiNext
  BY <1>1 DEF UiNext, UiStep, SurfaceCallback, SurfaceDestroyed, SetGuard, PublishWindow,
       StoreSize, NoSizeYet, SendResized, renderVars, Bump
<1>2. CASE ControlNext
  <2>1. NoBinding(<<>>) BY DEF NoBinding
  <2>2. UNCHANGED controlQueue \/ controlQueue' = <<>>
    BY <1>2 DEF ControlNext, ControlStep, StartRenderThread, StartSendWindow, StartSendSize,
         StopReturn, StartGameThread, StopRequest, renderVars, RenderStart
  <2>. QED BY <2>1, <2>2
<1>3. CASE RenderStep
  <2>1. CASE TakeControl BY <2>1, TakenKeeps DEF TakeControl, QueueForm, SessionTypes
  <2>2. CASE ~TakeControl
    BY <1>3, <2>2 DEF RenderStep, ThreadBegin, StopWithoutMessage, TimerTick, HandleTick,
         ThreadExit
  <2>. QED BY <2>1, <2>2
<1>4. CASE VSyncCallback
  BY <1>4, TickPushed DEF VSyncCallback, QueueForm, SessionTypes
<1>. QED BY <1>1, <1>2, <1>3, <1>4 DEF WindowNext, ControlNext

\* A session is READY with its window and its size, and is over with its thread.
LEMMA SessionFormKept == ASSUME SessionBase, WindowNext PROVE SessionForm'
<1>. USE DEF SessionBase
<1>1. CASE UNCHANGED session /\ (rpc' = rpc \/ rpc' \notin {"none", "exited"})
  BY <1>1 DEF SessionForm
<1>2. CASE UiNext
  BY <1>1, <1>2 DEF UiNext, UiStep, SurfaceCallback, SurfaceDestroyed, SetGuard, PublishWindow,
       StoreSize, NoSizeYet, SendResized, renderVars, Bump
<1>3. CASE GameNext
  <2>1. CASE GameJoin BY <2>1 DEF GameJoin, SessionForm
  <2>2. CASE ~GameJoin
    BY <1>1, <1>3, <2>2 DEF GameNext, PopCreated, BindCurrent, PopDestroyed, PopResized, MakeFrame,
         DeliverFrame, GameExit, GameSendStop, renderVars
  <2>. QED BY <2>1, <2>2
<1>4. CASE ControlNext
  BY <1>1, <1>4 DEF ControlNext, ControlStep, StartRenderThread, StartSendWindow, StartSendSize,
       StopReturn, StartGameThread, StopRequest, renderVars, RenderStart
<1>. DEFINE Ready(s) == s.state = "READY" <=> s.window # NoWindow /\ s.size # NoWindow
<1>5. ASSUME NEW w, NEW g, BindWindow(w, g)
      PROVE  Ready(session)' /\ session'.window = w
  BY <1>5 DEF BindWindow, SameBinding, SessionForm
<1>6. CASE RenderStep
  <2>1. CASE TakeControl
    <3>. DEFINE m == Head(controlQueue)
    <3>1. rpc' \notin {"none", "exited"} BY <2>1 DEF TakeControl
    <3>2. CASE m.type = "SET_WINDOW"
      <4>1. BindWindow(m.window, m.generation) BY <2>1, <3>2 DEF TakeControl, HandleSetWindow
      <4>. HIDE DEF m
      <4>. QED BY <1>5, <3>1, <4>1 DEF SessionForm
    <3>3. CASE m.type = "RESIZE"
      <4>. DEFINE x == CASE session.window = NoWindow -> "DETACHED"
                         [] m.size = NoWindow -> "PAUSED_SURFACE"
                         [] OTHER -> "READY"
      <4>1. session' = [session EXCEPT !.size = m.size, !.state = x]
        BY <2>1, <3>3 DEF TakeControl, HandleResize
      <4>2. x = "READY" <=> session.window # NoWindow /\ m.size # NoWindow OBVIOUS
      <4>3. session \in [window : WindowOrNot, generation : Nat, size : WindowOrNot,
                         state : SessionStates]
        BY DEF SessionTypes
      <4>. HIDE DEF m, x
      <4>4. session'.state = x /\ session'.window = session.window /\ session'.size = m.size
        BY <4>1, <4>3
      <4>. QED BY <3>1, <4>2, <4>4 DEF SessionForm
    <3>4. CASE m.type \notin {"SET_WINDOW", "RESIZE"}
      BY <1>1, <2>1, <3>1, <3>4 DEF TakeControl
    <3>. QED BY <3>2, <3>3, <3>4
  <2>2. CASE ThreadExit
    <3>1. BindWindow(NoWindow, 0) BY <2>2 DEF ThreadExit
    <3>. QED BY <1>5, <3>1 DEF SessionForm
  <2>3. CASE ~TakeControl /\ ~ThreadExit
    BY <1>1, <1>6, <2>3 DEF RenderStep, ThreadBegin, StopWithoutMessage, TimerTick, HandleTick
  <2>. QED BY <2>1, <2>2, <2>3
<1>7. CASE VSyncCallback BY <1>1, <1>7 DEF VSyncCallback
<1>. QED BY <1>2, <1>3, <1>4, <1>6, <1>7 DEF WindowNext, ControlNext

\* The game thread has nothing to do while the engine starts.
LEMMA GameWaits == ASSUME SessionBase, GameNext PROVE control.step \in {"publish", "on", "stopping"}
<1>1. control.step \in ControlSteps BY DEF SessionBase, SessionTypes, StepRecords, ControlSteps
<1>2. ASSUME control.step = "off" PROVE FALSE
  BY <1>2 DEF SessionBase, PhaseInv, GameNext, PopCreated, BindCurrent, PopDestroyed, PopResized,
       MakeFrame, DeliverFrame, GameExit, GameSendStop, GameJoin
<1>3. ASSUME control.step \in {"render", "window"} PROVE FALSE
  BY <1>3 DEF SessionBase, PhaseInv, GameNext, PopCreated, BindCurrent, PopDestroyed, PopResized,
       MakeFrame, DeliverFrame, GameExit, GameSendStop, GameJoin
<1>. QED BY <1>1, <1>2, <1>3 DEF ControlSteps

\* Every step keeps the phases of the threads, without callbacks in a Stop.
LEMMA PhaseKept == ASSUME SessionBase, WindowNext, MaxOverlap = 0 PROVE PhaseInv'
<1>. USE DEF SessionBase
<1>1. CASE UiNext
  <2>1. ui.step # "idle" => control.step \in {"off", "on"} /\ events > 0 BY DEF PhaseInv
  <2>2. control.step \in {"off", "on"} /\ events' > 0
    <3>1. CASE MayCallBack /\ events' = events + 1
      BY <3>1 DEF MayCallBack, SessionTypes
    <3>2. CASE UiStep
      <4>1. ui.step # "idle" /\ events' = events
        BY <3>2 DEF UiStep, SetGuard, PublishWindow, StoreSize, NoSizeYet, SendResized
      <4>. QED BY <2>1, <4>1
    <3>. QED BY <1>1, <3>1, <3>2 DEF UiNext, SurfaceCallback, SurfaceDestroyed
  <2>3. UNCHANGED <<control, game, closed, renderRunning, stopRequested, rpc, controlQueue>>
    BY <1>1 DEF UiNext, UiStep, SurfaceCallback, SurfaceDestroyed, SetGuard, PublishWindow,
       StoreSize, NoSizeYet, SendResized, renderVars, Bump
  <2>. QED BY <2>2, <2>3 DEF PhaseInv, Live
<1>2. CASE GameNext
  <2>1. control.step \in {"publish", "on", "stopping"} BY <1>2, GameWaits
  <2>2. UNCHANGED <<ui, control, events, closed>>
    BY <1>2 DEF GameNext, PopCreated, BindCurrent, PopDestroyed, PopResized, MakeFrame,
         DeliverFrame, GameExit, GameSendStop, GameJoin, GameKeeps
  <2>3. NoStop(controlQueue) /\ game'.step # "join" => NoStop(controlQueue') BY NoStopKept
  <2>4. CASE PopCreated \/ BindCurrent \/ PopDestroyed \/ PopResized \/ MakeFrame \/ DeliverFrame
    <3>1. /\ UNCHANGED <<renderRunning, stopRequested, rpc>>
          /\ game.step \in {"top", "bind", "frame"} /\ game'.step \in {"top", "bind", "frame"}
      BY <2>4 DEF PopCreated, BindCurrent, PopDestroyed, PopResized, MakeFrame, DeliverFrame,
           renderVars, At
    <3>. QED BY <2>1, <2>2, <2>3, <3>1 DEF PhaseInv, Live
  <2>5. CASE GameExit
    <3>1. renderRunning /\ game'.step = "stop" /\ control.step = "stopping"
          /\ UNCHANGED <<rpc, controlQueue>>
      BY <2>5 DEF GameExit, PhaseInv, At
    <3>. QED BY <2>1, <2>2, <3>1, <2>5 DEF PhaseInv, Live, GameExit
  <2>6. CASE GameSendStop
    <3>1. game'.step = "join" /\ control.step = "stopping" /\ UNCHANGED rpc
      BY <2>1, <2>6 DEF GameSendStop, PhaseInv, At, Live
    <3>. QED BY <2>1, <2>2, <3>1 DEF PhaseInv, Live
  <2>7. CASE GameJoin
    <3>1. game'.step = "off" /\ control.step = "stopping" /\ rpc' = "none"
      BY <2>1, <2>7 DEF GameJoin, PhaseInv, At, Live
    <3>. QED BY <2>1, <2>2, <3>1 DEF PhaseInv, Live
  <2>. QED BY <1>2, <2>4, <2>5, <2>6, <2>7 DEF GameNext
<1>3. CASE ControlNext
  <2>0. UNCHANGED <<ui, events>>
    BY <1>3 DEF ControlNext, ControlStep, StartRenderThread, StartSendWindow, StartSendSize,
         StopReturn, StartGameThread, StopRequest, ControlKeeps
  <2>1. CASE StartRenderThread
    <3>1. controlQueue' = <<>> /\ control.step = "render" /\ control'.step = "window"
          /\ UNCHANGED <<surfaceState, generation, messages, closed, game, session>>
          /\ renderRunning' /\ ~stopRequested' /\ rpc' = "begin"
      BY <2>1 DEF StartRenderThread, RenderStart, At
    <3>2. NoStop(<<>>) /\ NoBinding(<<>>) BY DEF NoStop, NoBinding
    <3>3. session.window = NoWindow BY <3>1 DEF PhaseInv, SessionForm
    <3>. QED BY <2>0, <3>1, <3>2, <3>3 DEF PhaseInv, Live
  <2>2. CASE StartSendWindow
    <3>1. control.step = "window" /\ control'.step \in {"on", "publish"}
      BY <2>2 DEF StartSendWindow, At
    <3>. QED BY <2>0, <2>2, <3>1 DEF StartSendWindow, PhaseInv, Live, renderVars
  <2>3. CASE StartSendSize
    <3>1. control.step = "publish" /\ control'.step = "on" BY <2>3 DEF StartSendSize, At
    <3>. QED BY <2>0, <2>3, <3>1 DEF StartSendSize, PhaseInv, Live, renderVars
  <2>4. CASE StopReturn
    <3>1. control.step = "stopping" /\ game.step = "off" /\ control'.step = "off"
      BY <2>4 DEF StopReturn, At
    <3>. QED BY <2>0, <2>4, <3>1 DEF StopReturn, PhaseInv, Live, renderVars
  <2>5. CASE StartGameThread
    <3>1. control.step = "off" /\ game'.step = "top" /\ control'.step = "render" /\ ui.step = "idle"
      BY <2>5 DEF StartGameThread, At, NoCallbackUnderWay, PhaseInv, SessionTypes
    <3>. QED BY <2>0, <2>5, <3>1 DEF StartGameThread, PhaseInv, Live, renderVars
  <2>6. CASE StopRequest
    <3>1. control.step = "on" /\ control'.step = "stopping" /\ ui.step = "idle"
      BY <2>6 DEF StopRequest, At, NoCallbackUnderWay, PhaseInv, SessionTypes
    <3>. QED BY <2>0, <2>6, <3>1 DEF StopRequest, PhaseInv, Live, renderVars
  <2>. QED BY <1>3, <2>1, <2>2, <2>3, <2>4, <2>5, <2>6 DEF ControlNext, ControlStep
<1>4. CASE (RenderStep \/ VSyncCallback) /\ UNCHANGED engineVars
  <2>1. UNCHANGED <<ui, control, events, closed, game, messages, generation, surfaceState>>
    BY <1>4 DEF engineVars
  <2>2. UNCHANGED <<renderRunning, stopRequested>>
    BY <1>4 DEF RenderStep, ThreadBegin, TakeControl, StopWithoutMessage, TimerTick, HandleTick,
         ThreadExit, VSyncCallback
  <2>3. NoStop(controlQueue) /\ game.step # "join" => NoStop(controlQueue') BY <2>1, NoStopKept
  <2>4. control.step = "window" => NoBinding(controlQueue') /\ session'.window = NoWindow
    <3>. SUFFICES ASSUME control.step = "window" PROVE NoBinding(controlQueue') /\ session'.window = NoWindow
      OBVIOUS
    <3>1. ~GameNext BY GameWaits
    <3>2. NoBinding(controlQueue) /\ session.window = NoWindow BY DEF PhaseInv
    <3>3. NoBinding(controlQueue') BY <3>1, <3>2, NoBindingKept
    <3>4. UNCHANGED session
      <4>1. CASE TakeControl
        <5>1. Head(controlQueue) = controlQueue[1] /\ 1 \in DOMAIN controlQueue
          BY <4>1, TailTyped DEF TakeControl, SessionTypes
        <5>2. Head(controlQueue).type \notin {"SET_WINDOW", "RESIZE"}
          BY <3>2, <5>1 DEF NoBinding
        <5>. QED BY <4>1, <5>2 DEF TakeControl
      <4>2. rpc # "exit" BY DEF PhaseInv, Live
      <4>. QED BY <1>4, <4>1, <4>2 DEF RenderStep, ThreadBegin, StopWithoutMessage, TimerTick,
             HandleTick, ThreadExit, VSyncCallback
    <3>. QED BY <3>2, <3>3, <3>4
  <2>5. control.step \in Live => rpc' \in {"begin", "loop", "tick"}
    <3>. SUFFICES ASSUME control.step \in Live PROVE rpc' \in {"begin", "loop", "tick"} OBVIOUS
    <3>1. /\ NoStop(controlQueue) /\ ~stopRequested /\ rpc \in {"begin", "loop", "tick"}
      BY DEF PhaseInv, Live
    <3>2. CASE TakeControl
      <4>1. Head(controlQueue) = controlQueue[1] /\ 1 \in DOMAIN controlQueue
        BY <3>2, TailTyped DEF TakeControl, SessionTypes
      <4>2. Head(controlQueue).type # "STOP" BY <3>1, <4>1 DEF NoStop
      <4>. QED BY <3>2, <4>2 DEF TakeControl
    <3>. QED BY <1>4, <3>1, <3>2 DEF RenderStep, ThreadBegin, StopWithoutMessage, TimerTick,
           HandleTick, ThreadExit, VSyncCallback
  <2>6. rpc = "none" => rpc' = "none"
    BY <1>4 DEF RenderStep, ThreadBegin, TakeControl, StopWithoutMessage, TimerTick, HandleTick,
         ThreadExit, VSyncCallback
  <2>. QED BY <2>1, <2>2, <2>3, <2>4, <2>5, <2>6 DEF PhaseInv
<1>. QED BY <1>1, <1>2, <1>3, <1>4 DEF WindowNext, ControlNext

\* Every step keeps what a surface callback under way knows.
LEMMA UiKept == ASSUME SessionBase, ArrivalInv, WindowNext PROVE UiInv'
<1>. USE NoWindowAssumption DEF SessionBase
<1>1. ASSUME NEW w \in Windows, NEW b \in BOOLEAN, SurfaceCallback(w, b) PROVE UiInv'
  <2>1. ui'.step = "set" /\ ui'.window = w /\ w # NoWindow
    <3>1. PICK s \in {w, NoWindow} :
            ui' = [At("set") EXCEPT !.window = w, !.size = s, !.rebind = b]
      BY <1>1 DEF SurfaceCallback
    <3>. QED BY <3>1 DEF At
  <2>. QED BY <1>1, <2>1 DEF SurfaceCallback, UiInv
<1>2. ASSUME NEW w \in Windows, SurfaceDestroyed(w) PROVE UiInv'
  BY <1>2 DEF SurfaceDestroyed, UiInv, At
<1>3. CASE SetGuard
  <2>1. ui'.window = ui.window /\ ui'.rebind = ui.rebind
        /\ ui'.step = IF guard # ui.window THEN "changed"
                      ELSE IF ui.rebind THEN "rebind" ELSE "resize"
    BY <1>3 DEF SetGuard, SessionTypes, StepRecords
  <2>. QED BY <1>3, <2>1 DEF SetGuard, UiInv
<1>4. CASE PublishWindow
  <2>1. ui'.step = "idle" \/ (ui'.step = "resize" /\ ui'.window = ui.window /\ ui.window # NoWindow)
    BY <1>4 DEF PublishWindow, SessionTypes, StepRecords, At
  <2>2. surfaceState' = "VALID" => lastSize' # NoWindow
    BY <1>4 DEF PublishWindow, SurfaceStateOf
  <2>. QED BY <1>4, <2>1, <2>2 DEF PublishWindow, UiInv
<1>5. CASE StoreSize
  <2>1. ui'.step = "idle" \/ (ui'.step = "send_size" /\ ui'.window = ui.window)
    BY <1>5 DEF StoreSize, SessionTypes, StepRecords, At
  <2>2. surfaceState' = "VALID" => lastSize' # NoWindow BY <1>5 DEF StoreSize
  <2>. QED BY <1>5, <2>1, <2>2 DEF StoreSize, UiInv
<1>6. CASE NoSizeYet BY <1>6 DEF NoSizeYet, UiInv, At
<1>7. CASE SendResized BY <1>7 DEF SendResized, UiInv, At
<1>8. CASE GameNext
  BY <1>8 DEF UiInv, GameNext, PopCreated, BindCurrent, PopDestroyed, PopResized, MakeFrame,
     DeliverFrame, GameExit, GameSendStop, GameJoin, GameKeeps
<1>9. CASE ControlNext
  <2>1. UNCHANGED <<ui, guard, lastSize>>
    BY <1>9 DEF ControlNext, ControlStep, StartRenderThread, StartSendWindow, StartSendSize,
         StopReturn, StartGameThread, StopRequest, ControlKeeps
  <2>2. CASE StartSendSize
    <3>1. control.size = lastSize BY <2>2 DEF StartSendSize, ArrivalInv
    <3>2. surfaceState' = "VALID" => lastSize' # NoWindow
      BY <2>1, <2>2, <3>1 DEF StartSendSize, SurfaceStateOf
    <3>. QED BY <2>1, <3>2 DEF UiInv
  <2>3. CASE ~StartSendSize
    <3>1. surfaceState' = surfaceState \/ surfaceState' = "UNINITIALIZED"
      BY <1>9, <2>3 DEF ControlNext, ControlStep, StartRenderThread, StartSendWindow, StopReturn,
           StartGameThread, StopRequest
    <3>. QED BY <2>1, <3>1 DEF UiInv
  <2>. QED BY <2>2, <2>3
<1>10. CASE UNCHANGED engineVars BY <1>10 DEF engineVars, UiInv
<1>. QED BY <1>1, <1>2, <1>3, <1>4, <1>5, <1>6, <1>7, <1>8, <1>9, <1>10
     DEF WindowNext, UiNext, UiStep, ControlNext

\* The messages and commands under way are what they were.
SameFlow ==
  /\ UNCHANGED <<messages, generation, session>>
  /\ SameButTicks(controlQueue, controlQueue')
  /\ game'.step = "bind" \/ game.step = "bind" => game' = game

\* Ticks do not change the size the queue brings.
LEMMA SameQueueBrings ==
  ASSUME SessionBase, SameButTicks(controlQueue, controlQueue'), UNCHANGED session, NEW s, QueueBrings(s)
  PROVE  QueueBrings(s)'
<1>. USE DEF SameButTicks
<1>0. /\ ResizeMsg(s).type = "RESIZE"
      /\ \A i \in DOMAIN controlQueue : Queues(i) => Queues(i)'
      /\ \A i \in DOMAIN controlQueue' : Queues(i)' => Queues(i)
  BY DEF ResizeMsg, Queues
<1>1. CASE \E i \in DOMAIN controlQueue :
             controlQueue[i] = ResizeMsg(s) /\ \A j \in DOMAIN controlQueue : Queues(j) => j < i
  BY <1>0, <1>1 DEF QueueBrings, Queues
<1>2. CASE s = NoWindow /\ \E j \in DOMAIN controlQueue :
             Queues(j) /\ \A i \in DOMAIN controlQueue : controlQueue[i].type = "RESIZE" => i < j
  <2>1. PICK j \in DOMAIN controlQueue :
          Queues(j) /\ \A i \in DOMAIN controlQueue : controlQueue[i].type = "RESIZE" => i < j
    BY <1>2
  <2>2. j \in DOMAIN controlQueue' /\ Queues(j)' BY <2>1 DEF Queues
  <2>3. \A i \in DOMAIN controlQueue' : controlQueue'[i].type = "RESIZE" => i < j BY <2>1
  <2>. QED BY <1>2, <2>2, <2>3 DEF QueueBrings
<1>3. CASE session.size = s /\ NoBinding(controlQueue)
  BY <1>3 DEF QueueBrings, NoBinding
<1>. QED BY <1>1, <1>2, <1>3 DEF QueueBrings

\* A step that changes neither messages nor binding, and the queue only by
\* ticks, changes nothing of what arrives.
LEMMA SameArrives ==
  ASSUME SessionBase, SameFlow
  PROVE  /\ GenerationInv => GenerationInv'
         /\ \A i : Pending(i)' <=> Pending(i)
         /\ WindowComes /\ guard' = guard => WindowComes'
         /\ \A s : Brings(s) => Brings(s)'
<1>1. UNCHANGED <<messages, generation, session>> BY DEF SameFlow
<1>2. \A i : Pending(i)' <=> Pending(i) BY <1>1 DEF Pending, IsSurface
<1>3. (IsPending' <=> IsPending) /\ (IsBinding' <=> IsBinding)
  BY <1>1, <1>2 DEF IsPending, IsBinding, SameFlow
<1>4. /\ \A i \in DOMAIN controlQueue : Queues(i) =>
           i \in DOMAIN controlQueue' /\ Queues(i)' /\ controlQueue'[i] = controlQueue[i]
      /\ \A i \in DOMAIN controlQueue' : Queues(i)' =>
           i \in DOMAIN controlQueue /\ Queues(i) /\ controlQueue'[i] = controlQueue[i]
  BY DEF SameFlow, SameButTicks, Queues
<1>5. GenerationInv => GenerationInv'
  <2>1. game'.step = "bind" => game' = game BY DEF SameFlow
  <2>. QED BY <1>1, <1>2, <1>3, <1>4, <2>1 DEF GenerationInv, IsSurface
<1>6. WindowComes /\ guard' = guard => WindowComes'
  <2>1. SetWindowMsg(guard, generation).type = "SET_WINDOW" BY DEF SetWindowMsg
  <2>2. guard' = guard => SetWindowMsg(guard, generation)' = SetWindowMsg(guard, generation)
    BY <1>1
  <2>. QED BY <1>1, <1>3, <1>4, <2>1, <2>2 DEF WindowComes, Queues
<1>7. ASSUME NEW s, Brings(s) PROVE Brings(s)'
  <2>1. QueueBrings(s) => QueueBrings(s)' BY <1>1, SameQueueBrings DEF SameFlow
  <2>2. \A i \in DOMAIN messages : IsSize(messages'[i]) <=> IsSize(messages[i]) BY <1>1
  <2>. QED BY <1>1, <1>2, <1>3, <1>7, <2>1, <2>2 DEF Brings
<1>. QED BY <1>2, <1>5, <1>6, <1>7

\* Where the messages are once the first was taken.
TakenFirst ==
  /\ messages # <<>> /\ messages' = Tail(messages) /\ UNCHANGED generation

\* Positions in the messages after the first one is taken.
LEMMA Shifted ==
  ASSUME SessionBase, TakenFirst
  PROVE  /\ 1 \in DOMAIN messages /\ Head(messages) = messages[1] /\ Head(messages) \in MessageSet
         /\ DOMAIN messages \in SUBSET Nat /\ DOMAIN messages' \in SUBSET Nat
         /\ \A i \in DOMAIN messages' : i + 1 \in DOMAIN messages /\ messages'[i] = messages[i + 1]
         /\ \A i \in DOMAIN messages : i # 1 =>
              i >= 1 /\ i - 1 \in DOMAIN messages' /\ messages'[i - 1] = messages[i]
         /\ \A i \in DOMAIN messages' : Pending(i)' <=> Pending(i + 1)
<1>1. /\ messages' \in Seq(MessageSet) /\ Head(messages) = messages[1] /\ 1 \in DOMAIN messages
      /\ Head(messages) \in MessageSet
      /\ Len(messages) \in Nat /\ Len(messages) > 0 /\ Len(messages') = Len(messages) - 1
      /\ \A i \in 1..(Len(messages) - 1) : messages'[i] = messages[i + 1]
  BY TailTyped DEF TakenFirst, SessionBase, SessionTypes
<1>2. DOMAIN messages = 1..Len(messages) /\ DOMAIN messages' = 1..(Len(messages) - 1)
  BY <1>1 DEF SessionBase, SessionTypes
<1>3. \A i \in DOMAIN messages' : i + 1 \in DOMAIN messages /\ messages'[i] = messages[i + 1]
  BY <1>1, <1>2
<1>4. \A i \in DOMAIN messages : i # 1 =>
        i >= 1 /\ i - 1 \in DOMAIN messages' /\ messages'[i - 1] = messages[i]
  <2>1. ASSUME NEW i \in DOMAIN messages, i # 1
        PROVE  i >= 1 /\ i - 1 \in DOMAIN messages' /\ (i - 1) + 1 = i
    BY <1>1, <1>2, <2>1
  <2>. QED BY <1>3, <2>1
<1>5. \A i \in DOMAIN messages' : Pending(i)' <=> Pending(i + 1)
  BY <1>3 DEF Pending, TakenFirst
<1>6. DOMAIN messages \in SUBSET Nat /\ DOMAIN messages' \in SUBSET Nat BY <1>1, <1>2
<1>. QED BY <1>1, <1>3, <1>4, <1>5, <1>6

\* A message that is not of the current generation, and no size, does not count.
LEMMA StaleIsNothing ==
  ASSUME SessionBase, TakenFirst, ~Pending(1), ~IsSize(messages[1]),
         UNCHANGED <<session, controlQueue, game, guard>>
  PROVE  /\ GenerationInv => GenerationInv'
         /\ WindowComes => WindowComes'
         /\ \A s : Brings(s) => Brings(s)'
<1>1. /\ 1 \in DOMAIN messages
      /\ DOMAIN messages \in SUBSET Nat /\ DOMAIN messages' \in SUBSET Nat
      /\ \A i \in DOMAIN messages' : i + 1 \in DOMAIN messages /\ messages'[i] = messages[i + 1]
      /\ \A i \in DOMAIN messages : i # 1 =>
           i >= 1 /\ i - 1 \in DOMAIN messages' /\ messages'[i - 1] = messages[i]
      /\ \A i \in DOMAIN messages' : Pending(i)' <=> Pending(i + 1)
  BY Shifted
<1>2. UNCHANGED generation BY DEF TakenFirst
<1>3. \A i \in DOMAIN messages : Pending(i) => i - 1 \in DOMAIN messages' /\ Pending(i - 1)'
  <2>1. ASSUME NEW i \in DOMAIN messages, Pending(i)
        PROVE  i - 1 \in DOMAIN messages' /\ Pending(i - 1)'
    <3>1. i # 1 BY <2>1
    <3>2. i - 1 \in DOMAIN messages' /\ (i - 1) + 1 = i BY <1>1, <3>1
    <3>. QED BY <1>1, <2>1, <3>2
  <2>. QED BY <2>1
<1>4. (IsPending' <=> IsPending) /\ (IsBinding' <=> IsBinding)
  BY <1>1, <1>2, <1>3 DEF IsPending, IsBinding, Pending
<1>5. \A i : Queues(i)' <=> Queues(i) BY DEF Queues
<1>6. GenerationInv => GenerationInv'
  <2>. SUFFICES ASSUME GenerationInv PROVE GenerationInv' OBVIOUS
  <2>1. \A i \in DOMAIN messages' :
          IsSurface(messages'[i]) => messages'[i].generation \in 1..generation
    BY <1>1 DEF GenerationInv
  <2>2. ASSUME NEW i \in DOMAIN messages', NEW j \in DOMAIN messages',
               Pending(i)', IsSurface(messages'[j])
        PROVE  j <= i
    <3>1. i + 1 \in DOMAIN messages /\ j + 1 \in DOMAIN messages /\ Pending(i + 1)
          /\ IsSurface(messages[j + 1])
      BY <1>1, <2>2
    <3>2. j + 1 <= i + 1 BY <3>1 DEF GenerationInv
    <3>. QED BY <1>1, <3>2
  <2>. QED BY <1>2, <1>4, <1>5, <2>1, <2>2 DEF GenerationInv, IsSurface
<1>7. WindowComes => WindowComes' BY <1>2, <1>4, <1>5 DEF WindowComes
<1>8. ASSUME NEW s, Brings(s) PROVE Brings(s)'
  <2>1. QueueBrings(s) => QueueBrings(s)' BY <1>5 DEF QueueBrings
  <2>2. CASE \E i \in DOMAIN messages :
               /\ messages[i] = Resized(s)
               /\ \A j \in DOMAIN messages : IsSize(messages[j]) \/ Pending(j) => j <= i
    <3>1. PICK i \in DOMAIN messages :
               /\ messages[i] = Resized(s)
               /\ \A j \in DOMAIN messages : IsSize(messages[j]) \/ Pending(j) => j <= i
      BY <2>2
    <3>2. i # 1 BY <3>1 DEF IsSize, Resized
    <3>3. i - 1 \in DOMAIN messages' /\ messages'[i - 1] = Resized(s) BY <1>1, <3>1, <3>2
    <3>4. ASSUME NEW j \in DOMAIN messages', IsSize(messages'[j]) \/ Pending(j)' PROVE j <= i - 1
      <4>1. j + 1 \in DOMAIN messages /\ (IsSize(messages[j + 1]) \/ Pending(j + 1))
        BY <1>1, <3>4
      <4>2. j + 1 <= i BY <3>1, <4>1
      <4>. QED BY <1>1, <4>2
    <3>5. Resized(s)' = Resized(s) BY DEF Resized
    <3>. QED BY <3>3, <3>4 DEF Brings
  <2>3. CASE s = NoWindow /\ \E j \in DOMAIN messages :
               Pending(j) /\ \A i \in DOMAIN messages : IsSize(messages[i]) => i < j
    <3>1. PICK j \in DOMAIN messages :
               Pending(j) /\ \A i \in DOMAIN messages : IsSize(messages[i]) => i < j
      BY <2>3
    <3>2. j - 1 \in DOMAIN messages' /\ Pending(j - 1)' BY <1>3, <3>1
    <3>3. ASSUME NEW i \in DOMAIN messages', IsSize(messages'[i]) PROVE i < j - 1
      <4>1. i + 1 \in DOMAIN messages /\ IsSize(messages[i + 1]) BY <1>1, <3>3
      <4>2. i + 1 < j BY <3>1, <4>1
      <4>. QED BY <1>1, <4>2
    <3>. QED BY <2>3, <3>2, <3>3 DEF Brings
  <2>4. CASE /\ \A i \in DOMAIN messages : ~IsSize(messages[i])
             /\ ~IsPending
             /\ IF IsBinding THEN s = NoWindow ELSE QueueBrings(s)
    <3>1. \A i \in DOMAIN messages' : ~IsSize(messages'[i]) BY <1>1, <2>4
    <3>. QED BY <1>4, <2>1, <2>4, <3>1 DEF Brings
  <2>. QED BY <1>8, <2>2, <2>3, <2>4 DEF Brings
<1>. QED BY <1>6, <1>7, <1>8

\* A window pushed is the last message, and the only window.
LEMMA WindowPushed ==
  ASSUME SessionBase, NEW w \in WindowOrNot, NEW g \in Nat,
         controlQueue' = PushControl(controlQueue, SetWindowMsg(w, g))
  PROVE  \E n \in DOMAIN controlQueue' :
           /\ controlQueue'[n] = SetWindowMsg(w, g)
           /\ \A i \in DOMAIN controlQueue' : i # n => i < n /\ ~Queues(i)'
<1>. DEFINE m == SetWindowMsg(w, g)
<1>1. m \in ControlSet /\ m.type = "SET_WINDOW" BY MessagesTyped DEF SetWindowMsg
<1>2. controlQueue' = PushControl(controlQueue, m) OBVIOUS
<1>. HIDE DEF m
<1>3. m.type # "TICK" /\ m.type # "STOP" BY <1>1
<1>4. PICK base \in Seq(ControlSet) : PushedOnto(base, controlQueue, m)
  BY <1>1, <1>3, Pushed DEF SessionBase, QueueForm, SessionTypes
<1>5. /\ Len(base) \in Nat /\ DOMAIN base = 1..Len(base)
      /\ DOMAIN Append(base, m) = 1..(Len(base) + 1) /\ Append(base, m)[Len(base) + 1] = m
      /\ \A i \in DOMAIN base : Append(base, m)[i] = base[i]
  OBVIOUS
<1>6. controlQueue' = Append(base, m) /\ \A i \in DOMAIN base : base[i].type # "SET_WINDOW"
  BY <1>1, <1>2, <1>4 DEF PushedOnto
<1>7. Len(base) + 1 \in DOMAIN controlQueue' /\ controlQueue'[Len(base) + 1] = m
  BY <1>5, <1>6
<1>8. ASSUME NEW i \in DOMAIN controlQueue', i # Len(base) + 1
      PROVE  i < Len(base) + 1 /\ ~Queues(i)'
  <2>1. i \in DOMAIN base BY <1>5, <1>6, <1>8
  <2>2. i < Len(base) + 1 BY <1>5, <2>1
  <2>. QED BY <1>5, <1>6, <2>1, <2>2 DEF Queues
<1>. QED BY <1>7, <1>8 DEF m

\* A size pushed is the last message, and the only size; a window stays.
LEMMA SizePushed ==
  ASSUME SessionBase, NEW s \in WindowOrNot, controlQueue' = PushControl(controlQueue, ResizeMsg(s))
  PROVE  /\ \E n \in DOMAIN controlQueue' :
              controlQueue'[n] = ResizeMsg(s) /\ \A i \in DOMAIN controlQueue' : Queues(i)' => i < n
         /\ \A k \in DOMAIN controlQueue : Queues(k) =>
              \E i \in DOMAIN controlQueue' : controlQueue'[i] = controlQueue[k]
         /\ \A i \in DOMAIN controlQueue' : Queues(i)' =>
              \E k \in DOMAIN controlQueue : Queues(k) /\ controlQueue'[i] = controlQueue[k]
<1>. DEFINE m == ResizeMsg(s)
<1>1. m \in ControlSet /\ m.type = "RESIZE" BY MessagesTyped DEF ResizeMsg
<1>2. controlQueue' = PushControl(controlQueue, m) OBVIOUS
<1>. HIDE DEF m
<1>3. m.type # "TICK" /\ m.type # "STOP" BY <1>1
<1>4. PICK base \in Seq(ControlSet) : PushedOnto(base, controlQueue, m)
  BY <1>1, <1>3, Pushed DEF SessionBase, QueueForm, SessionTypes
<1>5. /\ Len(base) \in Nat /\ DOMAIN base = 1..Len(base)
      /\ DOMAIN Append(base, m) = 1..(Len(base) + 1) /\ Append(base, m)[Len(base) + 1] = m
      /\ \A i \in DOMAIN base : Append(base, m)[i] = base[i]
  OBVIOUS
<1>6. /\ controlQueue' = Append(base, m)
      /\ \A i \in DOMAIN base : \E k \in DOMAIN controlQueue : base[i] = controlQueue[k]
      /\ \A k \in DOMAIN controlQueue : controlQueue[k].type \notin {"TICK", "RESIZE"} =>
           \E i \in DOMAIN base : base[i] = controlQueue[k]
  BY <1>1, <1>2, <1>4 DEF PushedOnto
<1>7. Len(base) + 1 \in DOMAIN controlQueue' /\ controlQueue'[Len(base) + 1] = m
  BY <1>5, <1>6
<1>8. ASSUME NEW i \in DOMAIN controlQueue', Queues(i)'
      PROVE  i < Len(base) + 1 /\ i \in DOMAIN base /\ controlQueue'[i] = base[i]
  <2>1. i # Len(base) + 1 BY <1>1, <1>7, <1>8 DEF Queues
  <2>2. i \in DOMAIN base BY <1>5, <1>6, <2>1
  <2>. QED BY <1>5, <1>6, <2>2
<1>9. \A k \in DOMAIN controlQueue : Queues(k) =>
        \E i \in DOMAIN controlQueue' : controlQueue'[i] = controlQueue[k]
  <2>1. ASSUME NEW k \in DOMAIN controlQueue, Queues(k)
        PROVE  \E i \in DOMAIN controlQueue' : controlQueue'[i] = controlQueue[k]
    <3>1. PICK i \in DOMAIN base : base[i] = controlQueue[k] BY <1>6, <2>1 DEF Queues
    <3>2. i \in DOMAIN controlQueue' BY <1>5, <1>6
    <3>. QED BY <1>5, <1>6, <3>1, <3>2
  <2>. QED BY <2>1
<1>10. \A i \in DOMAIN controlQueue' : Queues(i)' =>
         \E k \in DOMAIN controlQueue : Queues(k) /\ controlQueue'[i] = controlQueue[k]
  BY <1>6, <1>8 DEF Queues
<1>. QED BY <1>7, <1>8, <1>9, <1>10 DEF m

\* The message of the current generation is the last of its kind.
LEMMA FreshTaken ==
  ASSUME SessionBase, TakenFirst, GenerationInv, Pending(1)
  PROVE  /\ generation \in Nat /\ generation > 0 /\ Head(messages).generation = generation
         /\ ~IsPending' /\ \A i \in DOMAIN messages' : ~IsSurface(messages'[i])
         /\ \A s : Brings(s) =>
              \/ Brings(s)'
              \/ s = NoWindow /\ \A i \in DOMAIN messages' : ~IsSize(messages'[i])
<1>1. /\ 1 \in DOMAIN messages /\ Head(messages) = messages[1]
      /\ DOMAIN messages \in SUBSET Nat /\ DOMAIN messages' \in SUBSET Nat
      /\ \A i \in DOMAIN messages' : i + 1 \in DOMAIN messages /\ messages'[i] = messages[i + 1]
      /\ \A i \in DOMAIN messages : i # 1 =>
           i >= 1 /\ i - 1 \in DOMAIN messages' /\ messages'[i - 1] = messages[i]
  BY Shifted
<1>2. generation \in Nat /\ generation > 0 /\ Head(messages).generation = generation
  <2>1. messages[1].generation = generation /\ generation \in 1..generation /\ generation \in Nat
    BY <1>1 DEF Pending, GenerationInv, SessionBase, SessionTypes
  <2>. QED BY <1>1, <2>1
<1>3. \A i \in DOMAIN messages' : ~IsSurface(messages'[i])
  <2>1. ASSUME NEW i \in DOMAIN messages', IsSurface(messages'[i]) PROVE FALSE
    <3>1. i + 1 \in DOMAIN messages /\ IsSurface(messages[i + 1]) BY <1>1, <2>1
    <3>2. i + 1 <= 1 BY <1>1, <3>1 DEF GenerationInv
    <3>3. messages' \in Seq(MessageSet) BY TailTyped DEF TakenFirst, SessionBase, SessionTypes
    <3>4. i >= 1 BY <3>3
    <3>. QED BY <1>1, <2>1, <3>2, <3>4
  <2>. QED BY <2>1
<1>4. ~IsPending' BY <1>3 DEF IsPending, Pending, IsSurface
<1>5. ASSUME NEW s, Brings(s)
      PROVE  Brings(s)' \/ (s = NoWindow /\ \A i \in DOMAIN messages' : ~IsSize(messages'[i]))
  <2>1. CASE \E i \in DOMAIN messages :
               /\ messages[i] = Resized(s)
               /\ \A j \in DOMAIN messages : IsSize(messages[j]) \/ Pending(j) => j <= i
    <3>1. PICK i \in DOMAIN messages :
               /\ messages[i] = Resized(s)
               /\ \A j \in DOMAIN messages : IsSize(messages[j]) \/ Pending(j) => j <= i
      BY <2>1
    <3>2. i # 1 BY <3>1 DEF IsSurface, Resized, Pending
    <3>3. i - 1 \in DOMAIN messages' /\ messages'[i - 1] = Resized(s) BY <1>1, <3>1, <3>2
    <3>4. ASSUME NEW j \in DOMAIN messages', IsSize(messages'[j]) \/ Pending(j)' PROVE j <= i - 1
      <4>1. IsSize(messages'[j]) BY <1>4, <3>4 DEF IsPending
      <4>2. j + 1 \in DOMAIN messages /\ IsSize(messages[j + 1]) BY <1>1, <4>1
      <4>3. j + 1 <= i BY <3>1, <4>2
      <4>. QED BY <1>1, <4>3
    <3>5. Resized(s)' = Resized(s) BY DEF Resized
    <3>. QED BY <3>3, <3>4 DEF Brings
  <2>2. CASE s = NoWindow /\ \E j \in DOMAIN messages :
               Pending(j) /\ \A i \in DOMAIN messages : IsSize(messages[i]) => i < j
    <3>1. PICK j \in DOMAIN messages :
               Pending(j) /\ \A i \in DOMAIN messages : IsSize(messages[i]) => i < j
      BY <2>2
    <3>2. j <= 1 BY <1>1, <3>1 DEF GenerationInv, Pending
    <3>3. ASSUME NEW i \in DOMAIN messages', IsSize(messages'[i]) PROVE FALSE
      <4>1. i + 1 \in DOMAIN messages /\ IsSize(messages[i + 1]) BY <1>1, <3>3
      <4>2. i + 1 < j BY <3>1, <4>1
      <4>. QED BY <1>1, <3>2, <4>2
    <3>. QED BY <2>2, <3>3
  <2>3. CASE ~IsPending BY <1>1, <2>3 DEF IsPending
  <2>. QED BY <1>5, <2>1, <2>2, <2>3 DEF Brings
<1>. QED BY <1>2, <1>3, <1>4, <1>5

\* What a step must keep that leaves the surface callbacks alone.
LEMMA FlowCarried ==
  ASSUME SessionBase, SessionFlow, UNCHANGED <<guard, surfaceState, lastSize, ui, control>>,
         control.step \in Live => GenerationInv' /\ DestroyedInv',
         control.step \in {"publish", "on"} /\ ui.step # "changed" =>
           WindowComes' /\ (guard # NoWindow => \A s : Brings(s) => Brings(s)')
  PROVE  SessionFlow'
<1>1. Known' = Known BY DEF Known
<1>2. control.step = "publish" => ui.step # "changed" BY DEF SessionBase, PhaseInv
<1>3. ArrivalInv'
  <2>1. control.step \in {"publish", "on"} /\ ui.step # "changed" => WindowComes' OBVIOUS
  <2>2. control.step = "publish" => guard # NoWindow /\ Brings(NoWindow)' /\ control.size = lastSize
    BY <1>2 DEF SessionFlow, ArrivalInv
  <2>3. control.step = "on" /\ (ui.step \in {"idle", "set"} \/ (ui.step = "resize" /\ ~ui.rebind)) =>
          IF guard = NoWindow THEN surfaceState # "VALID" ELSE Brings(Known)'
    <3>1. SUFFICES ASSUME control.step = "on", ui.step # "changed", guard # NoWindow, Brings(Known)
                   PROVE  Brings(Known)'
      BY DEF SessionFlow, ArrivalInv, SizeComes
    <3>2. Known \in {lastSize, NoWindow} BY DEF Known
    <3>3. PICK k : k = Known BY <3>2
    <3>4. Brings(k)' BY <3>1, <3>3
    <3>5. Known' = k BY <1>1, <3>3
    <3>. QED BY <3>4, <3>5
  <2>4. control.step = "on" /\ ui.step = "send_size" => ui.size = Known BY DEF SessionFlow, ArrivalInv, SizeComes
  <2>. QED BY <1>1, <2>1, <2>2, <2>3, <2>4 DEF ArrivalInv, SizeComes
<1>. QED BY <1>3 DEF SessionFlow

\* The game thread takes a WindowCreated.
LEMMA PopCreatedFlows == ASSUME SessionBase, SessionFlow, PopCreated PROVE SessionFlow'
<1>. USE DEF SessionBase
<1>0. control.step \in {"publish", "on", "stopping"} BY GameWaits DEF GameNext
<1>1. TakenFirst /\ Head(messages).type = "WindowCreated" /\ game.step = "top"
      /\ UNCHANGED <<controlQueue, session, guard, surfaceState, lastSize, ui, control>>
  BY DEF PopCreated, TakenFirst, renderVars, GameKeeps
<1>2. /\ 1 \in DOMAIN messages /\ Head(messages) = messages[1]
      /\ DOMAIN messages \in SUBSET Nat /\ DOMAIN messages' \in SUBSET Nat
      /\ \A i \in DOMAIN messages' : i + 1 \in DOMAIN messages /\ messages'[i] = messages[i + 1]
      /\ \A i \in DOMAIN messages' : Pending(i)' <=> Pending(i + 1)
  BY <1>1, Shifted
<1>3. control.step \in Live => DestroyedInv'
  BY <1>1, <1>2 DEF SessionFlow, DestroyedInv, Pending, TakenFirst
<1>4. ASSUME ~Pending(1), control.step \in Live
      PROVE  GenerationInv' /\ (WindowComes => WindowComes') /\ \A s : Brings(s) => Brings(s)'
  <2>1. IsSurface(messages[1]) /\ ~IsSize(messages[1]) BY <1>1, <1>2 DEF IsSurface, IsSize
  <2>2. Head(messages).generation \notin {0, generation}
    <3>1. messages[1].generation \in 1..generation /\ generation \in Nat
      BY <1>2, <1>4, <2>1 DEF SessionFlow, GenerationInv, SessionTypes
    <3>. QED BY <1>2, <1>4, <2>1, <3>1 DEF Pending
  <2>3. UNCHANGED game BY <2>2 DEF PopCreated
  <2>. QED BY <1>1, <1>4, <2>1, <2>3, StaleIsNothing DEF SessionFlow
<1>5. ASSUME Pending(1), control.step \in Live
      PROVE  GenerationInv' /\ WindowComes' /\ \A s : Brings(s) => Brings(s)'
  <2>1. /\ generation \in Nat /\ generation > 0 /\ Head(messages).generation = generation
        /\ ~IsPending' /\ \A i \in DOMAIN messages' : ~IsSurface(messages'[i])
        /\ \A s : Brings(s) =>
              \/ Brings(s)'
              \/ s = NoWindow /\ \A i \in DOMAIN messages' : ~IsSize(messages'[i])
    BY <1>1, <1>5, FreshTaken DEF SessionFlow
  <2>2. game'.step = "bind" /\ game'.generation = generation
    BY <2>1 DEF PopCreated, At
  <2>3. IsBinding' /\ IsPending /\ UNCHANGED generation
    BY <1>1, <1>2, <1>5, <2>2 DEF IsBinding, TakenFirst, IsPending
  <2>4. GenerationInv'
    <3>1. GenerationInv BY <1>5 DEF SessionFlow
    <3>2. \A i : ~Pending(i)' BY <2>1 DEF Pending
    <3>. QED BY <1>1, <2>1, <2>2, <2>3, <3>1, <3>2 DEF GenerationInv, Queues, IsSurface
  <2>5. WindowComes' BY <2>3 DEF WindowComes
  <2>6. \A s : Brings(s) => Brings(s)' BY <2>1, <2>3 DEF Brings
  <2>. QED BY <2>4, <2>5, <2>6
<1>6. control.step \in {"publish", "on"} => control.step \in Live BY DEF Live
<1>7. control.step \in {"publish", "on"} /\ ui.step # "changed" => WindowComes
  BY DEF SessionFlow, ArrivalInv
<1>8. control.step \in Live => GenerationInv' BY <1>4, <1>5
<1>. QED BY <1>1, <1>3, <1>4, <1>5, <1>6, <1>7, <1>8, FlowCarried

\* A binding under way is the current one, or a newer message follows it.
LEMMA BindCurrentFlows == ASSUME SessionBase, SessionFlow, BindCurrent PROVE SessionFlow'
<1>. USE DEF SessionBase
<1>0. control.step \in {"publish", "on", "stopping"} BY GameWaits DEF GameNext
<1>1. /\ UNCHANGED <<messages, generation, session, guard, surfaceState, lastSize, ui, control>>
      /\ game.step = "bind" /\ game'.step = "top"
  BY DEF BindCurrent, GameKeeps, At
<1>2. guard \in WindowOrNot /\ game.generation \in Nat BY DEF SessionTypes, StepRecords
<1>3. PICK n \in DOMAIN controlQueue' :
        /\ controlQueue'[n] = SetWindowMsg(guard, game.generation)
        /\ \A i \in DOMAIN controlQueue' : i # n => i < n /\ ~Queues(i)'
  BY <1>2, WindowPushed DEF BindCurrent, SendWindow
<1>4. Queues(n)' /\ controlQueue'[n].generation = game.generation
  BY <1>3 DEF Queues, SetWindowMsg
<1>5. \A i : Pending(i)' <=> Pending(i) BY <1>1 DEF Pending
<1>6. (IsPending' <=> IsPending) /\ ~IsBinding' BY <1>1, <1>5 DEF IsPending, IsBinding
<1>7. control.step \in Live => DestroyedInv' BY <1>1, <1>5 DEF SessionFlow, DestroyedInv
<1>8. ASSUME control.step \in Live
      PROVE  GenerationInv' /\ WindowComes' /\ \A s : Brings(s) => Brings(s)'
  <2>1. GenerationInv BY <1>8 DEF SessionFlow
  <2>2. game.generation \in 1..generation /\ (IsPending <=> game.generation # generation)
    BY <1>1, <2>1 DEF GenerationInv
  <2>3. IsBinding <=> ~IsPending BY <1>1, <2>2 DEF IsBinding
  <2>4. \A i \in DOMAIN controlQueue' : Queues(i)' => i = n BY <1>3
  <2>5. GenerationInv'
    <3>1. \A i \in DOMAIN controlQueue' : Queues(i)' =>
            /\ controlQueue'[i].generation \in 1..generation
            /\ IsPending' \/ IsBinding' => controlQueue'[i].generation # generation
      BY <1>4, <1>6, <2>2, <2>4
    <3>2. session.window # NoWindow =>
            session.generation <= generation /\ session.generation # generation
      BY <2>1, <2>3 DEF GenerationInv
    <3>. QED BY <1>1, <1>5, <1>6, <2>1, <3>1, <3>2 DEF GenerationInv
  <2>6. WindowComes'
    <3>1. ~IsPending => controlQueue'[n] = SetWindowMsg(guard, generation)' BY <1>1, <1>3, <2>2
    <3>. QED BY <1>6, <3>1 DEF WindowComes
  <2>7. ASSUME NEW s, Brings(s) PROVE Brings(s)'
    <3>1. CASE IsPending BY <1>1, <1>5, <1>6, <2>7, <3>1 DEF Brings
    <3>2. CASE ~IsPending
      <4>1. \A i \in DOMAIN controlQueue' : controlQueue'[i].type = "RESIZE" => i < n
        BY <1>3, <1>4 DEF Queues
      <4>2. s = NoWindow => QueueBrings(s)' BY <1>4, <4>1 DEF QueueBrings
      <4>3. CASE \E i \in DOMAIN messages :
               /\ messages[i] = Resized(s)
               /\ \A j \in DOMAIN messages : IsSize(messages[j]) \/ Pending(j) => j <= i
        <5>1. Resized(s)' = Resized(s) BY DEF Resized
        <5>. QED BY <1>1, <1>5, <4>3, <5>1 DEF Brings
      <4>4. \A j : ~Pending(j) BY <3>2 DEF IsPending, Pending
      <4>. QED BY <1>1, <1>5, <1>6, <2>3, <2>7, <3>2, <4>2, <4>3, <4>4 DEF Brings
    <3>. QED BY <3>1, <3>2
  <2>. QED BY <2>5, <2>6, <2>7
<1>. QED BY <1>1, <1>7, <1>8, FlowCarried DEF Live

\* The game thread takes a WindowDestroyed: it drops the window at once.
LEMMA PopDestroyedFlows == ASSUME SessionBase, SessionFlow, PopDestroyed PROVE SessionFlow'
<1>. USE DEF SessionBase
<1>0. control.step \in {"publish", "on", "stopping"} BY GameWaits DEF GameNext
<1>1. TakenFirst /\ Head(messages).type = "WindowDestroyed" /\ game.step = "top"
      /\ UNCHANGED <<game, session, guard, surfaceState, lastSize, ui, control>>
  BY DEF PopDestroyed, TakenFirst, GameKeeps
<1>2. /\ 1 \in DOMAIN messages /\ Head(messages) = messages[1] /\ Head(messages) \in MessageSet
      /\ DOMAIN messages \in SUBSET Nat /\ DOMAIN messages' \in SUBSET Nat
      /\ \A i \in DOMAIN messages' : i + 1 \in DOMAIN messages /\ messages'[i] = messages[i + 1]
      /\ \A i \in DOMAIN messages' : Pending(i)' <=> Pending(i + 1)
  BY <1>1, Shifted
<1>3. control.step \in Live => DestroyedInv'
  BY <1>1, <1>2 DEF SessionFlow, DestroyedInv, Pending, TakenFirst
<1>4. ASSUME ~Pending(1), control.step \in Live
      PROVE  GenerationInv' /\ (WindowComes => WindowComes') /\ \A s : Brings(s) => Brings(s)'
  <2>1. IsSurface(messages[1]) /\ ~IsSize(messages[1]) BY <1>1, <1>2 DEF IsSurface, IsSize
  <2>2. Head(messages).generation \notin {0, generation}
    <3>1. messages[1].generation \in 1..generation /\ generation \in Nat
      BY <1>2, <1>4, <2>1 DEF SessionFlow, GenerationInv, SessionTypes
    <3>. QED BY <1>2, <1>4, <2>1, <3>1 DEF Pending
  <2>3. UNCHANGED controlQueue BY <2>2 DEF PopDestroyed
  <2>. QED BY <1>1, <1>4, <2>1, <2>3, StaleIsNothing DEF SessionFlow
<1>5. ASSUME Pending(1), control.step \in Live
      PROVE  /\ GenerationInv'
             /\ ui.step # "changed" => WindowComes'
             /\ \A s : Brings(s) => Brings(s)'
  <2>1. /\ generation \in Nat /\ generation > 0 /\ Head(messages).generation = generation
        /\ ~IsPending' /\ \A i \in DOMAIN messages' : ~IsSurface(messages'[i])
        /\ \A s : Brings(s) =>
              \/ Brings(s)'
              \/ s = NoWindow /\ \A i \in DOMAIN messages' : ~IsSize(messages'[i])
    BY <1>1, <1>5, FreshTaken DEF SessionFlow
  <2>2. controlQueue' = PushControl(controlQueue, SetWindowMsg(NoWindow, generation))
    BY <2>1 DEF PopDestroyed, SendWindow
  <2>3. PICK n \in DOMAIN controlQueue' :
          /\ controlQueue'[n] = SetWindowMsg(NoWindow, generation)
          /\ \A i \in DOMAIN controlQueue' : i # n => i < n /\ ~Queues(i)'
    BY <2>1, <2>2, WindowPushed DEF WindowOrNot
  <2>4. Queues(n)' /\ controlQueue'[n].generation = generation
    BY <2>3 DEF Queues, SetWindowMsg
  <2>5. /\ IsPending /\ ~IsPending' /\ ~IsBinding' /\ UNCHANGED generation
        /\ \A i : ~Pending(i)'
    BY <1>1, <1>2, <1>5, <2>1 DEF IsPending, IsBinding, TakenFirst, Pending
  <2>6. \A i \in DOMAIN controlQueue' : Queues(i)' => i = n BY <2>3
  <2>7. GenerationInv'
    <3>1. GenerationInv BY <1>5 DEF SessionFlow
    <3>2. \A i \in DOMAIN controlQueue' : Queues(i)' =>
            /\ controlQueue'[i].generation \in 1..generation
            /\ IsPending' \/ IsBinding' => controlQueue'[i].generation # generation
      BY <2>1, <2>4, <2>5, <2>6
    <3>3. session.window # NoWindow =>
            session.generation <= generation /\ session.generation # generation
      BY <2>5, <3>1 DEF GenerationInv
    <3>. QED BY <1>1, <2>1, <2>5, <3>2, <3>3 DEF GenerationInv
  <2>8. ui.step # "changed" => WindowComes'
    <3>1. ui.step # "changed" => guard = NoWindow
      BY <1>1, <1>2, <1>5 DEF SessionFlow, DestroyedInv
    <3>2. ui.step # "changed" => controlQueue'[n] = SetWindowMsg(guard, generation)'
      BY <1>1, <2>3, <2>5, <3>1
    <3>. QED BY <3>2 DEF WindowComes
  <2>9. ASSUME NEW s, Brings(s) PROVE Brings(s)'
    <3>1. \A i \in DOMAIN controlQueue' : controlQueue'[i].type = "RESIZE" => i < n
      BY <2>3, <2>4 DEF Queues
    <3>2. s = NoWindow => QueueBrings(s)' BY <2>4, <3>1 DEF QueueBrings
    <3>. QED BY <2>1, <2>5, <2>9, <3>2 DEF Brings
  <2>. QED BY <2>7, <2>8, <2>9
<1>6. control.step \in {"publish", "on"} => control.step \in Live BY DEF Live
<1>7. control.step \in {"publish", "on"} /\ ui.step # "changed" => WindowComes
  BY DEF SessionFlow, ArrivalInv
<1>8. control.step \in Live => GenerationInv' BY <1>4, <1>5
<1>. QED BY <1>1, <1>3, <1>4, <1>5, <1>6, <1>7, <1>8, FlowCarried

\* A size goes the way of the windows, in their order.
LEMMA PopResizedFlows == ASSUME SessionBase, SessionFlow, PopResized PROVE SessionFlow'
<1>. USE DEF SessionBase
<1>0. control.step \in {"publish", "on", "stopping"} BY GameWaits DEF GameNext
<1>1. TakenFirst /\ Head(messages).type = "WindowResized" /\ game.step = "top"
      /\ UNCHANGED <<game, session, guard, surfaceState, lastSize, ui, control>>
  BY DEF PopResized, TakenFirst, GameKeeps
<1>2. /\ 1 \in DOMAIN messages /\ Head(messages) = messages[1] /\ Head(messages) \in MessageSet
      /\ DOMAIN messages \in SUBSET Nat /\ DOMAIN messages' \in SUBSET Nat
      /\ \A i \in DOMAIN messages' : i + 1 \in DOMAIN messages /\ messages'[i] = messages[i + 1]
      /\ \A i \in DOMAIN messages : i # 1 =>
           i >= 1 /\ i - 1 \in DOMAIN messages' /\ messages'[i - 1] = messages[i]
      /\ \A i \in DOMAIN messages' : Pending(i)' <=> Pending(i + 1)
  BY <1>1, Shifted
<1>3. control.step \in Live => DestroyedInv'
  BY <1>1, <1>2 DEF SessionFlow, DestroyedInv, Pending, TakenFirst
<1>4. IsSize(messages[1]) /\ ~IsSurface(messages[1]) BY <1>1, <1>2 DEF IsSize, IsSurface
<1>5. \A i \in DOMAIN messages : Pending(i) => i # 1 /\ i - 1 \in DOMAIN messages' /\ Pending(i - 1)'
  <2>1. ASSUME NEW i \in DOMAIN messages, Pending(i)
        PROVE  i # 1 /\ i - 1 \in DOMAIN messages' /\ Pending(i - 1)'
    <3>1. i # 1 BY <1>4, <2>1 DEF Pending
    <3>2. i - 1 \in DOMAIN messages' /\ (i - 1) + 1 = i BY <1>2, <3>1
    <3>. QED BY <1>2, <2>1, <3>1, <3>2
  <2>. QED BY <2>1
<1>6. UNCHANGED generation BY <1>1 DEF TakenFirst
<1>7. (IsPending' <=> IsPending) /\ ~IsBinding /\ ~IsBinding'
  BY <1>1, <1>2, <1>5 DEF IsPending, IsBinding, Pending
<1>. DEFINE x == Head(messages).size
<1>8. x \in WindowOrNot /\ messages[1] = Resized(x)
  BY <1>1, <1>2 DEF MessageSet, SurfaceMsgs, Resized
<1>9. controlQueue' = PushControl(controlQueue, ResizeMsg(x)) BY DEF PopResized, SendSize
<1>. HIDE DEF x
<1>10. /\ \E n \in DOMAIN controlQueue' :
              controlQueue'[n] = ResizeMsg(x) /\ \A i \in DOMAIN controlQueue' : Queues(i)' => i < n
       /\ \A k \in DOMAIN controlQueue : Queues(k) =>
              \E i \in DOMAIN controlQueue' : controlQueue'[i] = controlQueue[k]
       /\ \A i \in DOMAIN controlQueue' : Queues(i)' =>
              \E k \in DOMAIN controlQueue : Queues(k) /\ controlQueue'[i] = controlQueue[k]
  BY <1>8, <1>9, SizePushed
<1>11. ASSUME control.step \in Live PROVE GenerationInv'
  <2>1. GenerationInv BY <1>11 DEF SessionFlow
  <2>2. \A i \in DOMAIN messages' :
          IsSurface(messages'[i]) => messages'[i].generation \in 1..generation
    BY <1>2, <2>1 DEF GenerationInv
  <2>3. ASSUME NEW i \in DOMAIN messages', NEW j \in DOMAIN messages',
               Pending(i)', IsSurface(messages'[j])
        PROVE  j <= i
    <3>1. i + 1 \in DOMAIN messages /\ j + 1 \in DOMAIN messages /\ Pending(i + 1)
          /\ IsSurface(messages[j + 1])
      BY <1>2, <2>3
    <3>2. j + 1 <= i + 1 BY <2>1, <3>1 DEF GenerationInv
    <3>. QED BY <1>2, <3>2
  <2>4. \A i \in DOMAIN controlQueue' : Queues(i)' =>
          /\ controlQueue'[i].generation \in 1..generation
          /\ IsPending' \/ IsBinding' => controlQueue'[i].generation # generation
    BY <1>7, <1>10, <2>1 DEF GenerationInv
  <2>5. (\E i \in DOMAIN controlQueue' : Queues(i)' /\ controlQueue'[i].generation = generation)
          => \E i \in DOMAIN controlQueue : Queues(i) /\ controlQueue[i].generation = generation
    BY <1>10
  <2>6. session.window # NoWindow =>
          /\ session.generation <= generation
          /\ IsPending' \/ IsBinding' \/ (\E i \in DOMAIN controlQueue' :
                        Queues(i)' /\ controlQueue'[i].generation = generation)
               => session.generation # generation
    BY <1>7, <2>1, <2>5 DEF GenerationInv
  <2>. QED BY <1>1, <1>6, <2>2, <2>3, <2>4, <2>6 DEF GenerationInv
<1>12. WindowComes => WindowComes'
  <2>1. CASE \E i \in DOMAIN controlQueue : controlQueue[i] = SetWindowMsg(guard, generation)
    <3>1. PICK i \in DOMAIN controlQueue : controlQueue[i] = SetWindowMsg(guard, generation)
      BY <2>1
    <3>2. Queues(i) BY <3>1 DEF Queues, SetWindowMsg
    <3>3. PICK k \in DOMAIN controlQueue' : controlQueue'[k] = SetWindowMsg(guard, generation)
      BY <1>10, <3>1, <3>2
    <3>4. SetWindowMsg(guard, generation)' = SetWindowMsg(guard, generation) BY <1>1, <1>6
    <3>. QED BY <3>3, <3>4 DEF WindowComes
  <2>2. CASE \A i \in DOMAIN controlQueue : ~Queues(i)
    <3>1. \A i \in DOMAIN controlQueue' : ~Queues(i)' BY <1>10, <2>2
    <3>. QED BY <1>1, <1>6, <1>7, <2>1, <3>1 DEF WindowComes
  <2>. QED BY <1>7, <2>1, <2>2 DEF WindowComes
<1>13. ASSUME NEW s, Brings(s) PROVE Brings(s)'
  <2>1. CASE \E i \in DOMAIN messages :
               /\ messages[i] = Resized(s)
               /\ \A j \in DOMAIN messages : IsSize(messages[j]) \/ Pending(j) => j <= i
    <3>1. PICK i \in DOMAIN messages :
               /\ messages[i] = Resized(s)
               /\ \A j \in DOMAIN messages : IsSize(messages[j]) \/ Pending(j) => j <= i
      BY <2>1
    <3>2. CASE i = 1
      <4>1. s = x BY <1>8, <3>1, <3>2 DEF Resized
      <4>2. QueueBrings(s)'
        <5>1. ResizeMsg(s)' = ResizeMsg(s) BY DEF ResizeMsg
        <5>. QED BY <1>10, <4>1, <5>1 DEF QueueBrings
      <4>3. ASSUME NEW j \in DOMAIN messages', IsSize(messages'[j]) \/ Pending(j)' PROVE FALSE
        <5>1. j + 1 \in DOMAIN messages /\ (IsSize(messages[j + 1]) \/ Pending(j + 1))
          BY <1>2, <4>3
        <5>2. j + 1 <= 1 BY <3>1, <3>2, <5>1
        <5>3. messages' \in Seq(MessageSet) BY <1>1, TailTyped DEF TakenFirst, SessionTypes
        <5>4. j >= 1 BY <5>3
        <5>. QED BY <1>2, <5>2, <5>4
      <4>4. ~IsPending' BY <4>3 DEF IsPending, Pending
      <4>. QED BY <1>7, <4>2, <4>3, <4>4 DEF Brings
    <3>3. CASE i # 1
      <4>1. i - 1 \in DOMAIN messages' /\ messages'[i - 1] = Resized(s) BY <1>2, <3>1, <3>3
      <4>2. ASSUME NEW j \in DOMAIN messages', IsSize(messages'[j]) \/ Pending(j)' PROVE j <= i - 1
        <5>1. j + 1 \in DOMAIN messages /\ (IsSize(messages[j + 1]) \/ Pending(j + 1))
          BY <1>2, <4>2
        <5>2. j + 1 <= i BY <3>1, <5>1
        <5>. QED BY <1>2, <5>2
      <4>3. Resized(s)' = Resized(s) BY DEF Resized
      <4>. QED BY <4>1, <4>2 DEF Brings
    <3>. QED BY <3>2, <3>3
  <2>2. CASE s = NoWindow /\ \E j \in DOMAIN messages :
               Pending(j) /\ \A i \in DOMAIN messages : IsSize(messages[i]) => i < j
    <3>1. PICK j \in DOMAIN messages :
               Pending(j) /\ \A i \in DOMAIN messages : IsSize(messages[i]) => i < j
      BY <2>2
    <3>2. j - 1 \in DOMAIN messages' /\ Pending(j - 1)' BY <1>5, <3>1
    <3>3. ASSUME NEW i \in DOMAIN messages', IsSize(messages'[i]) PROVE i < j - 1
      <4>1. i + 1 \in DOMAIN messages /\ IsSize(messages[i + 1]) BY <1>2, <3>3
      <4>2. i + 1 < j BY <3>1, <4>1
      <4>. QED BY <1>2, <4>2
    <3>. QED BY <2>2, <3>2, <3>3 DEF Brings
  <2>3. CASE \A i \in DOMAIN messages : ~IsSize(messages[i]) BY <1>2, <1>4, <2>3
  <2>. QED BY <1>13, <2>1, <2>2, <2>3 DEF Brings
<1>14. control.step \in {"publish", "on"} /\ ui.step # "changed" => WindowComes
  BY DEF SessionFlow, ArrivalInv
<1>. QED BY <1>1, <1>3, <1>11, <1>12, <1>13, <1>14, FlowCarried

\* The other steps of the game thread change nothing that is on its way.
LEMMA OtherGameFlows ==
  ASSUME SessionBase, SessionFlow, MakeFrame \/ DeliverFrame \/ GameExit \/ GameSendStop \/ GameJoin
  PROVE  SessionFlow'
<1>. USE DEF SessionBase
<1>0. control.step \in {"publish", "on", "stopping"} BY GameWaits DEF GameNext
<1>1. UNCHANGED <<guard, surfaceState, lastSize, ui, control>>
  BY DEF MakeFrame, DeliverFrame, GameExit, GameSendStop, GameJoin, GameKeeps
<1>2. CASE MakeFrame \/ DeliverFrame
  <2>1. UNCHANGED <<messages, generation, session>> /\ game.step # "bind" /\ game'.step # "bind"
    BY <1>2 DEF MakeFrame, DeliverFrame, renderVars, At
  <2>2. SameButTicks(controlQueue, controlQueue')
    <3>1. CASE UNCHANGED controlQueue BY <3>1 DEF SameButTicks
    <3>2. SameButTicks(controlQueue, PushControl(controlQueue, Tick))
      BY TickPushed DEF QueueForm, SessionTypes
    <3>. QED BY <1>2, <3>1, <3>2 DEF MakeFrame, DeliverFrame, renderVars, EnqueueFrame
  <2>3. SameFlow BY <2>1, <2>2 DEF SameFlow
  <2>4. /\ GenerationInv => GenerationInv'
        /\ \A i : Pending(i)' <=> Pending(i)
        /\ WindowComes => WindowComes'
        /\ \A s : Brings(s) => Brings(s)'
    BY <1>1, <2>3, SameArrives
  <2>5. DestroyedInv => DestroyedInv' BY <1>1, <2>1, <2>4 DEF DestroyedInv
  <2>. QED BY <1>1, <2>4, <2>5, FlowCarried DEF SessionFlow, ArrivalInv
<1>3. CASE GameExit \/ GameSendStop \/ GameJoin
  <2>1. control.step = "stopping"
    BY <1>0, <1>3 DEF GameExit, GameSendStop, GameJoin, PhaseInv, Live
  <2>. QED BY <1>1, <2>1, FlowCarried DEF Live
<1>. QED BY <1>2, <1>3

\* Where the commands are once the first was taken.
LEMMA CommandsShifted ==
  ASSUME SessionBase, controlQueue # <<>>, controlQueue' = Tail(controlQueue)
  PROVE  /\ 1 \in DOMAIN controlQueue /\ Head(controlQueue) = controlQueue[1]
         /\ Head(controlQueue) \in ControlSet
         /\ DOMAIN controlQueue \in SUBSET Nat /\ DOMAIN controlQueue' \in SUBSET Nat
         /\ \A i \in DOMAIN controlQueue' :
              i >= 1 /\ i + 1 \in DOMAIN controlQueue /\ controlQueue'[i] = controlQueue[i + 1]
         /\ \A i \in DOMAIN controlQueue : i # 1 =>
              i >= 1 /\ i - 1 \in DOMAIN controlQueue' /\ controlQueue'[i - 1] = controlQueue[i]
<1>1. /\ controlQueue' \in Seq(ControlSet) /\ Head(controlQueue) = controlQueue[1]
      /\ 1 \in DOMAIN controlQueue /\ Head(controlQueue) \in ControlSet
      /\ Len(controlQueue) \in Nat /\ Len(controlQueue) > 0
      /\ Len(controlQueue') = Len(controlQueue) - 1
      /\ \A i \in 1..(Len(controlQueue) - 1) : controlQueue'[i] = controlQueue[i + 1]
  BY TailTyped DEF SessionBase, SessionTypes
<1>2. DOMAIN controlQueue = 1..Len(controlQueue)
      /\ DOMAIN controlQueue' = 1..(Len(controlQueue) - 1)
  BY <1>1 DEF SessionBase, SessionTypes
<1>3. \A i \in DOMAIN controlQueue' :
        i >= 1 /\ i + 1 \in DOMAIN controlQueue /\ controlQueue'[i] = controlQueue[i + 1]
  BY <1>1, <1>2
<1>4. \A i \in DOMAIN controlQueue : i # 1 =>
        i >= 1 /\ i - 1 \in DOMAIN controlQueue' /\ controlQueue'[i - 1] = controlQueue[i]
  <2>1. ASSUME NEW i \in DOMAIN controlQueue, i # 1
        PROVE  i >= 1 /\ i - 1 \in DOMAIN controlQueue' /\ (i - 1) + 1 = i
    BY <1>1, <1>2, <2>1
  <2>. QED BY <1>3, <2>1
<1>5. DOMAIN controlQueue \in SUBSET Nat /\ DOMAIN controlQueue' \in SUBSET Nat BY <1>1, <1>2
<1>. QED BY <1>1, <1>3, <1>4, <1>5

\* The render thread takes a window: it is in the session then.
LEMMA TakeWindowFlows ==
  ASSUME SessionBase, SessionFlow, TakeControl, UNCHANGED engineVars, Head(controlQueue).type = "SET_WINDOW"
  PROVE  SessionFlow'
<1>. USE DEF SessionBase
<1>1. UNCHANGED <<messages, generation, game, guard, surfaceState, lastSize, ui, control>>
  BY DEF engineVars
<1>. DEFINE m == Head(controlQueue)
<1>2. /\ 1 \in DOMAIN controlQueue /\ m = controlQueue[1] /\ m \in ControlSet
      /\ DOMAIN controlQueue \in SUBSET Nat /\ DOMAIN controlQueue' \in SUBSET Nat
      /\ \A i \in DOMAIN controlQueue' :
           i >= 1 /\ i + 1 \in DOMAIN controlQueue /\ controlQueue'[i] = controlQueue[i + 1]
      /\ \A i \in DOMAIN controlQueue : i # 1 =>
           i >= 1 /\ i - 1 \in DOMAIN controlQueue' /\ controlQueue'[i - 1] = controlQueue[i]
  BY CommandsShifted DEF TakeControl
<1>3. m.type = "SET_WINDOW" /\ BindWindow(m.window, m.generation)
  BY DEF TakeControl, HandleSetWindow
<1>. HIDE DEF m
<1>4. Queues(1) BY <1>2, <1>3 DEF Queues
<1>5. \A i \in DOMAIN controlQueue : Queues(i) => i = 1
  BY <1>2, <1>3 DEF Queues, QueueForm, Once
<1>6. \A i \in DOMAIN controlQueue' : ~Queues(i)'
  <2>1. ASSUME NEW i \in DOMAIN controlQueue', Queues(i)' PROVE FALSE
    <3>1. i + 1 \in DOMAIN controlQueue /\ Queues(i + 1) /\ i >= 1 /\ i \in Nat
      BY <1>2, <2>1 DEF Queues
    <3>2. i + 1 = 1 BY <1>5, <3>1
    <3>. QED BY <3>1, <3>2
  <2>. QED BY <2>1
<1>7. \A i : Pending(i)' <=> Pending(i) BY <1>1 DEF Pending
<1>8. (IsPending' <=> IsPending) /\ (IsBinding' <=> IsBinding)
  BY <1>1, <1>7 DEF IsPending, IsBinding
<1>9. control.step \in Live => DestroyedInv' BY <1>1, <1>7 DEF SessionFlow, DestroyedInv
<1>10. ASSUME control.step \in Live
       PROVE  /\ m.generation \in 1..generation
              /\ IsPending \/ IsBinding => m.generation # generation
              /\ session'.window = m.window
              /\ m.window # NoWindow => session'.generation = m.generation
              /\ ~SameBinding(m.window, m.generation) => session'.size = NoWindow
  <2>1. m.generation \in 1..generation /\ (IsPending \/ IsBinding => m.generation # generation)
    BY <1>2, <1>4, <1>10 DEF SessionFlow, GenerationInv
  <2>2. m.generation > 0 BY <2>1 DEF SessionTypes
  <2>. QED BY <1>3, <2>1, <2>2 DEF BindWindow, SameBinding
<1>11. ASSUME control.step \in Live PROVE GenerationInv'
  <2>1. GenerationInv BY <1>11 DEF SessionFlow
  <2>2. session'.window # NoWindow =>
          /\ session'.generation <= generation
          /\ IsPending \/ IsBinding => session'.generation # generation
    BY <1>10, <1>11 DEF SessionTypes
  <2>. QED BY <1>1, <1>6, <1>7, <1>8, <2>1, <2>2 DEF GenerationInv
<1>12. ASSUME control.step \in Live, WindowComes, ~IsPending, ~IsBinding
       PROVE  m = SetWindowMsg(guard, generation)
  <2>1. PICK i \in DOMAIN controlQueue : controlQueue[i] = SetWindowMsg(guard, generation)
    BY <1>2, <1>4, <1>12 DEF WindowComes
  <2>2. i = 1 BY <1>5, <2>1 DEF Queues, SetWindowMsg
  <2>. QED BY <1>2, <2>1, <2>2
<1>13. control.step \in Live /\ WindowComes => WindowComes'
  <2>1. CASE IsPending \/ IsBinding BY <1>8, <2>1 DEF WindowComes
  <2>2. CASE ~IsPending /\ ~IsBinding /\ WindowComes /\ control.step \in Live
    <3>1. m.window = guard /\ m.generation = generation BY <1>12, <2>2 DEF SetWindowMsg
    <3>2. session'.window = guard /\ (guard # NoWindow => session'.generation = generation)
      BY <1>10, <2>2, <3>1
    <3>. QED BY <1>1, <1>6, <3>2 DEF WindowComes
  <2>. QED BY <2>1, <2>2
<1>14. ASSUME control.step \in Live, WindowComes, guard # NoWindow, NEW s, Brings(s)
       PROVE  Brings(s)'
  <2>1. \A i \in DOMAIN messages : messages[i] = Resized(s) => messages[i] = Resized(s)'
    BY DEF Resized
  <2>2. ASSUME ~IsPending, ~IsBinding, QueueBrings(s) PROVE QueueBrings(s)'
    <3>1. CASE \E i \in DOMAIN controlQueue :
                 controlQueue[i] = ResizeMsg(s) /\ \A j \in DOMAIN controlQueue : Queues(j) => j < i
      <4>1. PICK i \in DOMAIN controlQueue :
              controlQueue[i] = ResizeMsg(s) /\ \A j \in DOMAIN controlQueue : Queues(j) => j < i
        BY <3>1
      <4>2. i # 1 BY <1>2, <1>4, <4>1
      <4>3. i - 1 \in DOMAIN controlQueue' /\ controlQueue'[i - 1] = ResizeMsg(s)
        BY <1>2, <4>1, <4>2
      <4>4. ResizeMsg(s)' = ResizeMsg(s) BY DEF ResizeMsg
      <4>. QED BY <1>6, <4>3, <4>4 DEF QueueBrings
    <3>2. CASE s = NoWindow /\ \E j \in DOMAIN controlQueue :
             Queues(j) /\ \A i \in DOMAIN controlQueue : controlQueue[i].type = "RESIZE" => i < j
      <4>1. \A i \in DOMAIN controlQueue : controlQueue[i].type = "RESIZE" => i < 1
        BY <1>5, <3>2
      <4>2. NoBinding(controlQueue')
        <5>1. ASSUME NEW i \in DOMAIN controlQueue', controlQueue'[i].type = "RESIZE" PROVE FALSE
          <6>1. i \in Nat /\ i >= 1 /\ i + 1 < 1 BY <1>2, <4>1, <5>1
          <6>. QED BY <6>1
        <5>. QED BY <1>6, <5>1 DEF NoBinding, Queues
      <4>3. m.window = guard /\ m.generation = generation
        BY <1>12, <1>14, <2>2 DEF SetWindowMsg
      <4>4. generation # 0 BY <1>10, <1>14, <4>3 DEF SessionTypes
      <4>5. session.window = guard => session.generation # generation
        BY <1>2, <1>4, <1>14, <4>3 DEF SessionFlow, GenerationInv
      <4>6. ~SameBinding(m.window, m.generation) BY <4>3, <4>4, <4>5 DEF SameBinding
      <4>7. session'.size = s BY <1>10, <1>14, <3>2, <4>6
      <4>. QED BY <4>2, <4>7 DEF QueueBrings
    <3>3. CASE NoBinding(controlQueue) BY <1>2, <1>3, <3>3 DEF NoBinding
    <3>. QED BY <2>2, <3>1, <3>2, <3>3 DEF QueueBrings
  <2>. QED BY <1>1, <1>7, <1>8, <1>14, <2>1, <2>2 DEF Brings
<1>15. control.step \in {"publish", "on"} => control.step \in Live BY DEF Live
<1>16. control.step \in {"publish", "on"} /\ ui.step # "changed" => WindowComes
  BY DEF SessionFlow, ArrivalInv
<1>. QED BY <1>1, <1>9, <1>11, <1>13, <1>14, <1>15, <1>16, FlowCarried

\* The render thread takes a size.
LEMMA TakeSizeFlows ==
  ASSUME SessionBase, SessionFlow, TakeControl, UNCHANGED engineVars, Head(controlQueue).type = "RESIZE"
  PROVE  SessionFlow'
<1>. USE DEF SessionBase
<1>1. UNCHANGED <<messages, generation, game, guard, surfaceState, lastSize, ui, control>>
  BY DEF engineVars
<1>. DEFINE m == Head(controlQueue)
<1>2. /\ 1 \in DOMAIN controlQueue /\ m = controlQueue[1] /\ m \in ControlSet
      /\ DOMAIN controlQueue \in SUBSET Nat /\ DOMAIN controlQueue' \in SUBSET Nat
      /\ \A i \in DOMAIN controlQueue' :
           i >= 1 /\ i + 1 \in DOMAIN controlQueue /\ controlQueue'[i] = controlQueue[i + 1]
      /\ \A i \in DOMAIN controlQueue : i # 1 =>
           i >= 1 /\ i - 1 \in DOMAIN controlQueue' /\ controlQueue'[i - 1] = controlQueue[i]
  BY CommandsShifted DEF TakeControl
<1>3. m.type = "RESIZE" /\ HandleResize(m) BY DEF TakeControl
<1>4. session'.window = session.window /\ session'.generation = session.generation
      /\ session'.size = m.size
  BY <1>3 DEF HandleResize, SessionTypes
<1>. HIDE DEF m
<1>5. \A i \in DOMAIN controlQueue : controlQueue[i].type = "RESIZE" => i = 1
  BY <1>2, <1>3 DEF QueueForm, Once
<1>6. \A i \in DOMAIN controlQueue' : controlQueue'[i].type # "RESIZE"
  <2>1. ASSUME NEW i \in DOMAIN controlQueue', controlQueue'[i].type = "RESIZE" PROVE FALSE
    <3>1. i \in Nat /\ i >= 1 /\ i + 1 = 1 BY <1>2, <1>5, <2>1
    <3>. QED BY <3>1
  <2>. QED BY <2>1
<1>7. \A i : Pending(i)' <=> Pending(i) BY <1>1 DEF Pending
<1>8. (IsPending' <=> IsPending) /\ (IsBinding' <=> IsBinding)
  BY <1>1, <1>7 DEF IsPending, IsBinding
<1>9. control.step \in Live => DestroyedInv' BY <1>1, <1>7 DEF SessionFlow, DestroyedInv
<1>10. /\ \A i \in DOMAIN controlQueue' : Queues(i)' <=> Queues(i + 1)
       /\ \A i \in DOMAIN controlQueue : Queues(i) =>
            i - 1 \in DOMAIN controlQueue' /\ Queues(i - 1)' /\ controlQueue'[i - 1] = controlQueue[i]
  BY <1>2, <1>3 DEF Queues
<1>11. ASSUME control.step \in Live PROVE GenerationInv'
  <2>1. GenerationInv BY <1>11 DEF SessionFlow
  <2>2. \A i \in DOMAIN controlQueue' : Queues(i)' =>
          /\ controlQueue'[i].generation \in 1..generation
          /\ IsPending \/ IsBinding => controlQueue'[i].generation # generation
    BY <1>2, <1>10, <2>1 DEF GenerationInv
  <2>3. (\E i \in DOMAIN controlQueue' : Queues(i)' /\ controlQueue'[i].generation = generation)
          => \E i \in DOMAIN controlQueue : Queues(i) /\ controlQueue[i].generation = generation
    BY <1>2, <1>10
  <2>4. session'.window # NoWindow =>
          /\ session'.generation <= generation
          /\ IsPending \/ IsBinding \/ (\E i \in DOMAIN controlQueue' :
                        Queues(i)' /\ controlQueue'[i].generation = generation)
               => session'.generation # generation
    BY <1>4, <2>1, <2>3 DEF GenerationInv
  <2>. QED BY <1>1, <1>7, <1>8, <2>1, <2>2, <2>4 DEF GenerationInv
<1>12. WindowComes => WindowComes'
  <2>1. CASE IsPending \/ IsBinding BY <1>8, <2>1 DEF WindowComes
  <2>2. CASE \E i \in DOMAIN controlQueue : controlQueue[i] = SetWindowMsg(guard, generation)
    <3>1. PICK i \in DOMAIN controlQueue : controlQueue[i] = SetWindowMsg(guard, generation)
      BY <2>2
    <3>2. i - 1 \in DOMAIN controlQueue' /\ controlQueue'[i - 1] = SetWindowMsg(guard, generation)
      BY <1>10, <3>1 DEF Queues, SetWindowMsg
    <3>3. SetWindowMsg(guard, generation)' = SetWindowMsg(guard, generation) BY <1>1
    <3>. QED BY <3>2, <3>3 DEF WindowComes
  <2>3. CASE \A i \in DOMAIN controlQueue : ~Queues(i)
    <3>1. \A i \in DOMAIN controlQueue' : ~Queues(i)' BY <1>2, <1>10, <2>3
    <3>. QED BY <1>1, <1>4, <2>1, <2>2, <3>1 DEF WindowComes
  <2>. QED BY <2>1, <2>2, <2>3 DEF WindowComes
<1>13. ASSUME NEW s, Brings(s) PROVE Brings(s)'
  <2>1. \A i \in DOMAIN messages : messages[i] = Resized(s) => messages[i] = Resized(s)'
    BY DEF Resized
  <2>2. ASSUME QueueBrings(s) PROVE QueueBrings(s)'
    <3>1. CASE \E i \in DOMAIN controlQueue :
                 controlQueue[i] = ResizeMsg(s) /\ \A j \in DOMAIN controlQueue : Queues(j) => j < i
      <4>1. PICK i \in DOMAIN controlQueue :
              controlQueue[i] = ResizeMsg(s) /\ \A j \in DOMAIN controlQueue : Queues(j) => j < i
        BY <3>1
      <4>2. i = 1 /\ s = m.size BY <1>2, <1>5, <4>1 DEF ResizeMsg
      <4>3. \A j \in DOMAIN controlQueue' : ~Queues(j)'
        <5>1. ASSUME NEW j \in DOMAIN controlQueue', Queues(j)' PROVE FALSE
          <6>1. j \in Nat /\ j >= 1 /\ j + 1 < 1 BY <1>2, <1>10, <4>1, <4>2, <5>1
          <6>. QED BY <6>1
        <5>. QED BY <5>1
      <4>4. NoBinding(controlQueue') BY <1>6, <4>3 DEF NoBinding, Queues
      <4>. QED BY <1>4, <4>2, <4>4 DEF QueueBrings
    <3>2. CASE s = NoWindow /\ \E j \in DOMAIN controlQueue :
             Queues(j) /\ \A i \in DOMAIN controlQueue : controlQueue[i].type = "RESIZE" => i < j
      <4>1. PICK j \in DOMAIN controlQueue : Queues(j) BY <3>2
      <4>2. j - 1 \in DOMAIN controlQueue' /\ Queues(j - 1)' BY <1>10, <4>1
      <4>. QED BY <1>6, <3>2, <4>2 DEF QueueBrings
    <3>3. CASE NoBinding(controlQueue) BY <1>2, <1>3, <3>3 DEF NoBinding
    <3>. QED BY <2>2, <3>1, <3>2, <3>3 DEF QueueBrings
  <2>. QED BY <1>1, <1>7, <1>8, <1>13, <2>1, <2>2 DEF Brings
<1>14. control.step \in {"publish", "on"} /\ ui.step # "changed" => WindowComes
  BY DEF SessionFlow, ArrivalInv
<1>. QED BY <1>1, <1>9, <1>11, <1>12, <1>13, <1>14, FlowCarried

\* Nothing else the render thread does matters to windows, as long as it runs.
LEMMA RenderFlows ==
  ASSUME SessionBase, SessionFlow, RenderStep \/ VSyncCallback, UNCHANGED engineVars
  PROVE  SessionFlow'
<1>. USE DEF SessionBase
<1>1. UNCHANGED <<messages, generation, game, guard, surfaceState, lastSize, ui, control>>
  BY DEF engineVars
<1>2. CASE TakeControl /\ Head(controlQueue).type = "SET_WINDOW" BY <1>2, TakeWindowFlows
<1>3. CASE TakeControl /\ Head(controlQueue).type = "RESIZE" BY <1>3, TakeSizeFlows
<1>4. CASE control.step \notin Live
  <2>1. control.step \notin {"publish", "on"} BY <1>4 DEF Live
  <2>. QED BY <1>1, <1>4, <2>1, FlowCarried
<1>5. CASE control.step \in Live /\ ~(TakeControl /\ Head(controlQueue).type \in {"SET_WINDOW", "RESIZE"})
  <2>1. SameButTicks(controlQueue, controlQueue') /\ UNCHANGED session
    <3>1. CASE TakeControl
      <4>1. controlQueue # <<>> /\ controlQueue' = Tail(controlQueue) BY <3>1 DEF TakeControl
      <4>2. /\ 1 \in DOMAIN controlQueue /\ Head(controlQueue) = controlQueue[1]
            /\ Head(controlQueue) \in ControlSet
            /\ DOMAIN controlQueue \in SUBSET Nat /\ DOMAIN controlQueue' \in SUBSET Nat
            /\ \A i \in DOMAIN controlQueue' : i >= 1 /\ i + 1 \in DOMAIN controlQueue
        BY <4>1, CommandsShifted
      <4>3. Head(controlQueue).type # "STOP"
        BY <1>5, <4>2 DEF PhaseInv, Live, NoStop
      <4>4. Head(controlQueue).type = "TICK"
        BY <1>5, <3>1, <4>2, <4>3 DEF ControlSet
      <4>5. Len(controlQueue) = 1 BY <4>2, <4>4 DEF QueueForm, Once
      <4>6. DOMAIN controlQueue = {1} BY <4>2, <4>5 DEF SessionTypes
      <4>7. DOMAIN controlQueue' = {}
        <5>1. ASSUME NEW i \in DOMAIN controlQueue' PROVE FALSE
          <6>1. i \in Nat /\ i >= 1 /\ i + 1 = 1 BY <4>2, <4>6
          <6>. QED BY <6>1
        <5>. QED BY <5>1
      <4>8. UNCHANGED session BY <3>1, <4>4 DEF TakeControl
      <4>. QED BY <4>2, <4>4, <4>6, <4>7, <4>8 DEF SameButTicks
    <3>2. rpc # "exit" BY <1>5 DEF PhaseInv
    <3>3. CASE VSyncCallback
      <4>1. SameButTicks(controlQueue, controlQueue) BY DEF SameButTicks
      <4>2. SameButTicks(controlQueue, PushControl(controlQueue, Tick))
        BY TickPushed DEF QueueForm, SessionTypes
      <4>. QED BY <3>3, <4>1, <4>2 DEF VSyncCallback
    <3>4. CASE ThreadBegin \/ StopWithoutMessage \/ TimerTick \/ HandleTick
      <4>1. SameButTicks(controlQueue, controlQueue) BY DEF SameButTicks
      <4>. QED BY <3>4, <4>1 DEF ThreadBegin, StopWithoutMessage, TimerTick, HandleTick
    <3>. QED BY <3>1, <3>2, <3>3, <3>4 DEF RenderStep, ThreadExit
  <2>2. SameFlow BY <1>1, <2>1 DEF SameFlow
  <2>3. /\ GenerationInv => GenerationInv'
        /\ \A i : Pending(i)' <=> Pending(i)
        /\ WindowComes => WindowComes'
        /\ \A s : Brings(s) => Brings(s)'
    BY <1>1, <2>2, SameArrives
  <2>4. DestroyedInv => DestroyedInv' BY <1>1, <2>3 DEF DestroyedInv
  <2>. QED BY <1>1, <2>3, <2>4, FlowCarried DEF SessionFlow, ArrivalInv
<1>. QED BY <1>2, <1>3, <1>4, <1>5

\* A callback sends its message last.
LEMMA SentLast ==
  ASSUME SessionBase, NEW m \in MessageSet, messages' = Append(messages, m)
  PROVE  \E n \in DOMAIN messages' :
           /\ messages'[n] = m /\ n \notin DOMAIN messages
           /\ DOMAIN messages' = DOMAIN messages \cup {n}
           /\ \A i \in DOMAIN messages : i < n /\ messages'[i] = messages[i]
<1>1. /\ Len(messages) \in Nat /\ DOMAIN messages = 1..Len(messages)
      /\ DOMAIN messages' = 1..(Len(messages) + 1) /\ messages'[Len(messages) + 1] = m
      /\ \A i \in DOMAIN messages : messages'[i] = messages[i]
  BY DEF SessionBase, SessionTypes
<1>2. Len(messages) + 1 \in DOMAIN messages' /\ Len(messages) + 1 \notin DOMAIN messages
      /\ DOMAIN messages' = DOMAIN messages \cup {Len(messages) + 1}
      /\ \A i \in DOMAIN messages : i < Len(messages) + 1
  BY <1>1
<1>. QED BY <1>1, <1>2

\* A message of a new generation makes all the others stale.
LEMMA NewGeneration ==
  ASSUME SessionBase, GenerationInv, NEW m \in SurfaceMsgs, m.generation = generation + 1,
         messages' = Append(messages, m), generation' = generation + 1,
         UNCHANGED <<controlQueue, session, game>>
  PROVE  /\ GenerationInv' /\ IsPending'
         /\ \A i : Pending(i)' => messages'[i] = m
         /\ Brings(NoWindow)'
<1>. USE DEF SessionBase
<1>0. m \in MessageSet /\ IsSurface(m) /\ ~IsSize(m)
  BY DEF MessageSet, SurfaceMsgs, IsSurface, IsSize
<1>1. PICK n \in DOMAIN messages' :
        /\ messages'[n] = m /\ n \notin DOMAIN messages
        /\ DOMAIN messages' = DOMAIN messages \cup {n}
        /\ \A i \in DOMAIN messages : i < n /\ messages'[i] = messages[i]
  BY <1>0, SentLast
<1>2. generation \in Nat /\ generation' \in Nat /\ generation < generation'
  BY DEF SessionTypes
<1>3. Pending(n)' BY <1>0, <1>1 DEF Pending
<1>4. \A i : Pending(i)' => i = n
  <2>1. ASSUME NEW i, Pending(i)', i # n PROVE FALSE
    <3>1. i \in DOMAIN messages /\ IsSurface(messages[i]) /\ messages[i].generation = generation'
      BY <1>1, <2>1 DEF Pending
    <3>2. messages[i].generation \in 1..generation BY <3>1 DEF GenerationInv
    <3>. QED BY <1>2, <3>1, <3>2
  <2>. QED BY <2>1
<1>5. IsPending' BY <1>1, <1>3 DEF IsPending
<1>6. GenerationInv'
  <2>1. \A i \in DOMAIN messages' :
          IsSurface(messages'[i]) => messages'[i].generation \in 1..generation'
    <3>1. \A i \in DOMAIN messages :
            IsSurface(messages'[i]) => messages'[i].generation \in 1..generation'
      BY <1>1, <1>2 DEF GenerationInv
    <3>2. messages'[n].generation \in 1..generation' BY <1>1, <1>2
    <3>. QED BY <1>1, <3>1, <3>2
  <2>2. \A i, j \in DOMAIN messages' : Pending(i)' /\ IsSurface(messages'[j]) => j <= i
    <3>1. n \in Nat
      <4>1. messages' \in Seq(MessageSet) BY <1>0 DEF SessionTypes
      <4>. QED BY <4>1
    <3>. QED BY <1>1, <1>4, <3>1
  <2>3. game'.step = "bind" =>
          game'.generation \in 1..generation' /\ game'.generation # generation'
    BY <1>2 DEF GenerationInv
  <2>4. \A i \in DOMAIN controlQueue' : Queues(i)' =>
          controlQueue'[i].generation \in 1..generation' /\ controlQueue'[i].generation # generation'
    BY <1>2 DEF GenerationInv, Queues
  <2>5. session'.window # NoWindow =>
          session'.generation <= generation' /\ session'.generation # generation'
    BY <1>2 DEF GenerationInv, SessionTypes
  <2>. QED BY <1>5, <2>1, <2>2, <2>3, <2>4, <2>5 DEF GenerationInv
<1>7. Brings(NoWindow)'
  <2>1. \A i \in DOMAIN messages' : IsSize(messages'[i]) => i < n BY <1>0, <1>1
  <2>. QED BY <1>1, <1>3, <2>1 DEF Brings
<1>. QED BY <1>1, <1>4, <1>5, <1>6, <1>7

\* A size is put at the back, where it may replace one.
SizeAdded(s) ==
  \E old \in Seq(MessageSet) :
    /\ messages' = Append(old, Resized(s))
    /\ Len(old) <= Len(messages)
    /\ \A i \in 1..Len(old) : old[i] = messages[i]
    /\ \A i \in 1..Len(messages) : IsSurface(messages[i]) => i <= Len(old)

\* A size sent is the last one.
LEMMA SizeSent ==
  ASSUME SessionBase, NEW s \in WindowOrNot, SizeAdded(s),
         UNCHANGED <<generation, controlQueue, session, game, guard>>
  PROVE  /\ GenerationInv => GenerationInv'
         /\ \A i : Pending(i)' <=> Pending(i)
         /\ \A i : Pending(i)' => messages'[i] = messages[i]
         /\ WindowComes => WindowComes'
         /\ Brings(s)'
<1>. USE DEF SessionBase
<1>1. PICK old \in Seq(MessageSet) :
           /\ messages' = Append(old, Resized(s))
           /\ Len(old) <= Len(messages)
           /\ \A i \in 1..Len(old) : old[i] = messages[i]
           /\ \A i \in 1..Len(messages) : IsSurface(messages[i]) => i <= Len(old)
  BY DEF SizeAdded
<1>2. /\ Len(old) \in Nat /\ DOMAIN old = 1..Len(old)
      /\ DOMAIN messages' = 1..(Len(old) + 1) /\ messages'[Len(old) + 1] = Resized(s)
      /\ \A i \in 1..Len(old) : messages'[i] = old[i]
      /\ Len(messages) \in Nat /\ DOMAIN messages = 1..Len(messages)
  BY <1>1 DEF SessionTypes
<1>3. IsSize(Resized(s)) /\ ~IsSurface(Resized(s)) BY DEF IsSize, IsSurface, Resized
<1>. DEFINE n == Len(old) + 1
<1>4. /\ n \in DOMAIN messages' /\ messages'[n] = Resized(s)
      /\ \A i \in DOMAIN messages' : i <= n
      /\ \A i \in DOMAIN messages' : i # n => i \in DOMAIN messages /\ messages'[i] = messages[i]
  BY <1>1, <1>2
<1>5. \A i \in DOMAIN messages : IsSurface(messages[i]) =>
        i \in DOMAIN messages' /\ messages'[i] = messages[i]
  BY <1>1, <1>2
<1>. HIDE DEF n
<1>6. \A i : Pending(i)' <=> Pending(i)
  BY <1>3, <1>4, <1>5 DEF Pending
<1>7. \A i : Pending(i)' => messages'[i] = messages[i] BY <1>3, <1>4 DEF Pending
<1>8. \A i \in DOMAIN messages' : IsSurface(messages'[i]) =>
        i \in DOMAIN messages /\ messages'[i] = messages[i]
  BY <1>3, <1>4
<1>9. (IsPending' <=> IsPending) /\ (IsBinding' <=> IsBinding)
  BY <1>6 DEF IsPending, IsBinding, Pending
<1>10. GenerationInv => GenerationInv'
  <2>. SUFFICES ASSUME GenerationInv PROVE GenerationInv' OBVIOUS
  <2>1. \A i \in DOMAIN messages' :
          IsSurface(messages'[i]) => messages'[i].generation \in 1..generation
    BY <1>8 DEF GenerationInv
  <2>2. \A i, j \in DOMAIN messages' : Pending(i)' /\ IsSurface(messages'[j]) => j <= i
    BY <1>6, <1>8 DEF GenerationInv, Pending
  <2>. QED BY <1>9, <2>1, <2>2 DEF GenerationInv, Queues
<1>11. WindowComes => WindowComes' BY <1>9 DEF WindowComes, Queues
<1>12. Brings(s)'
  <2>1. Resized(s)' = Resized(s) BY DEF Resized
  <2>2. \A j : Pending(j)' => j \in DOMAIN messages' BY DEF Pending
  <2>. QED BY <1>4, <2>1 DEF Brings
<1>. QED BY <1>6, <1>7, <1>10, <1>11, <1>12

\* Surface messages are messages.
LEMMA SurfaceTyped == \A g \in Nat :
  /\ Created(g) \in SurfaceMsgs /\ Created(g).generation = g /\ Created(g).type = "WindowCreated"
  /\ Destroyed(g) \in SurfaceMsgs /\ Destroyed(g).generation = g
BY DEF Created, Destroyed, SurfaceMsgs

\* Where nothing is sent, all is on its way as before.
LEMMA NothingSent ==
  ASSUME SessionBase, UNCHANGED <<messages, generation, controlQueue, session, game>>
  PROVE  /\ GenerationInv => GenerationInv'
         /\ \A i : Pending(i)' <=> Pending(i)
         /\ WindowComes /\ guard' = guard => WindowComes'
         /\ \A s : Brings(s) => Brings(s)'
<1>1. SameFlow BY DEF SameFlow, SameButTicks
<1>. QED BY <1>1, SameArrives

\* A callback is only under way while the engine is off or on.
LEMMA CallbackTime ==
  ASSUME SessionBase, UiNext, MaxOverlap = 0
  PROVE  control.step \in {"off", "on"} /\ UNCHANGED <<control, game, controlQueue, session>>
<1>1. UNCHANGED <<control, game, controlQueue, session>>
  BY DEF UiNext, UiStep, SurfaceCallback, SurfaceDestroyed, SetGuard, PublishWindow,
       StoreSize, NoSizeYet, SendResized, renderVars, Bump
<1>2. CASE MayCallBack BY <1>1, <1>2 DEF MayCallBack, SessionBase, SessionTypes
<1>3. CASE UiStep
  <2>1. ui.step # "idle"
    BY <1>3 DEF UiStep, SetGuard, PublishWindow, StoreSize, NoSizeYet, SendResized
  <2>. QED BY <1>1, <2>1 DEF SessionBase, PhaseInv
<1>. QED BY <1>2, <1>3 DEF UiNext, SurfaceCallback, SurfaceDestroyed

\* What a step of a callback must keep.
LEMMA UiCarried ==
  ASSUME SessionBase, SessionFlow, UiNext, MaxOverlap = 0,
         control.step = "on" =>
           /\ GenerationInv' /\ DestroyedInv'
           /\ ui'.step # "changed" => WindowComes'
           /\ SizeComes'
  PROVE  SessionFlow'
<1>1. control.step \in {"off", "on"} /\ UNCHANGED control BY CallbackTime
<1>. QED BY <1>1 DEF SessionFlow, ArrivalInv, Live

\* A step that changes neither the guard nor the surface sends the same size.
LEMMA SameSize ==
  ASSUME UNCHANGED <<surfaceState, lastSize, guard>>, \A s : Brings(s) => Brings(s)'
  PROVE  Brings(Known) => Brings(Known)'
<1>1. PICK k : k = Known OBVIOUS
<1>2. Known' = k BY <1>1 DEF Known
<1>3. Brings(k) => Brings(k)' OBVIOUS
<1>. QED BY <1>1, <1>2, <1>3

\* The surface callbacks: a new generation, or a size for the current one.
LEMMA UiFlows == ASSUME SessionBase, SessionFlow, UiNext, MaxOverlap = 0 PROVE SessionFlow'
<1>. USE DEF SessionBase
<1>0. control.step \in {"off", "on"} /\ UNCHANGED <<control, game, controlQueue, session>>
  BY CallbackTime
<1>. SUFFICES ASSUME control.step = "on"
              PROVE  /\ GenerationInv' /\ DestroyedInv'
                     /\ ui'.step # "changed" => WindowComes'
                     /\ SizeComes'
  BY UiCarried
<1>1. /\ GenerationInv /\ DestroyedInv /\ ~closed
      /\ ui.step # "changed" => WindowComes
      /\ SizeComes
  BY DEF SessionFlow, ArrivalInv, Live, PhaseInv
<1>2. ASSUME UNCHANGED <<messages, generation>>
      PROVE  /\ GenerationInv' /\ \A i : Pending(i)' <=> Pending(i)
             /\ WindowComes /\ guard' = guard => WindowComes'
             /\ \A s : Brings(s) => Brings(s)'
  BY <1>0, <1>1, <1>2, NothingSent
<1>3. CASE \E w \in Windows : SurfaceCallback(w, FALSE) \/ SurfaceCallback(w, TRUE)
                                \/ SurfaceDestroyed(w)
  <2>1. /\ UNCHANGED <<messages, generation, guard, surfaceState, lastSize>> /\ ui.step = "idle"
    BY <1>3 DEF SurfaceCallback, SurfaceDestroyed, MayCallBack
  <2>2. ui'.step \in {"idle", "set"}
    <3>1. CASE \E w \in Windows, b \in BOOLEAN : SurfaceCallback(w, b)
      BY <3>1 DEF SurfaceCallback, At
    <3>2. CASE \E w \in Windows : SurfaceDestroyed(w) BY <2>1, <3>2 DEF SurfaceDestroyed, At
    <3>. QED BY <1>3, <3>1, <3>2
  <2>3. DestroyedInv' BY <1>1, <1>2, <2>1 DEF DestroyedInv
  <2>4. Brings(Known) => Brings(Known)' BY <1>2, <2>1, SameSize
  <2>5. SizeComes' BY <1>1, <2>1, <2>2, <2>4 DEF SizeComes
  <2>. QED BY <1>1, <1>2, <2>1, <2>2, <2>3, <2>5
<1>4. CASE SetGuard
  <2>1. /\ UNCHANGED <<messages, generation, surfaceState, lastSize>> /\ ui.step = "set"
        /\ guard' = ui.window
    BY <1>4 DEF SetGuard
  <2>2. ui'.rebind = ui.rebind
        /\ ui'.step = IF guard # ui.window THEN "changed"
                      ELSE IF ui.rebind THEN "rebind" ELSE "resize"
    BY <1>4 DEF SetGuard, SessionTypes, StepRecords
  <2>3. CASE guard # ui.window
    <3>1. ui'.step = "changed" BY <2>2, <2>3
    <3>. QED BY <1>2, <2>1, <3>1 DEF DestroyedInv, SizeComes
  <2>4. CASE guard = ui.window
    <3>1. DestroyedInv' BY <1>1, <1>2, <2>1, <2>4 DEF DestroyedInv
    <3>2. Brings(Known) => Brings(Known)' BY <1>2, <2>1, <2>4, SameSize
    <3>3. SizeComes' BY <1>1, <2>1, <2>2, <2>4, <3>2 DEF SizeComes
    <3>. QED BY <1>1, <1>2, <2>1, <2>4, <3>1, <3>3
  <2>. QED BY <2>3, <2>4
<1>5. CASE PublishWindow
  <2>. DEFINE m == IF ui.window = NoWindow THEN Destroyed(generation + 1)
                   ELSE Created(generation + 1)
  <2>1. generation + 1 \in Nat BY DEF SessionTypes
  <2>2. m \in SurfaceMsgs /\ m.generation = generation + 1
        /\ (m.type = "WindowDestroyed" => ui.window = NoWindow)
    BY <2>1, SurfaceTyped
  <2>3. messages' = Append(messages, m) /\ generation' = generation + 1 /\ guard' = guard
    BY <1>1, <1>5 DEF PublishWindow, Push, Bump
  <2>. HIDE DEF m
  <2>4. /\ GenerationInv' /\ IsPending'
        /\ \A i : Pending(i)' => messages'[i] = m
        /\ Brings(NoWindow)'
    BY <1>0, <1>1, <2>2, <2>3, NewGeneration
  <2>5. guard = ui.window /\ (ui.step = "rebind" => ui.rebind) BY <1>5 DEF PublishWindow, UiInv
  <2>6. DestroyedInv' BY <2>2, <2>3, <2>4, <2>5 DEF DestroyedInv
  <2>7. WindowComes' BY <2>4 DEF WindowComes
  <2>8. SizeComes'
    <3>1. CASE ui.window = NoWindow
      BY <1>5, <2>3, <2>5, <3>1 DEF PublishWindow, SizeComes, At
    <3>2. CASE ui.window # NoWindow
      <4>1. ui'.step = "resize" /\ ui'.rebind = ui.rebind
        BY <1>5, <3>2 DEF PublishWindow, SessionTypes, StepRecords
      <4>2. CASE ui.rebind BY <4>1, <4>2 DEF SizeComes
      <4>3. CASE ~ui.rebind
        <5>1. lastSize' = NoWindow BY <1>5, <2>5, <4>3 DEF PublishWindow
        <5>2. Known' = NoWindow BY <5>1 DEF Known
        <5>3. Brings(Known)' BY <2>4, <5>2
        <5>. QED BY <2>3, <2>5, <3>2, <4>1, <5>3 DEF SizeComes
      <4>. QED BY <4>2, <4>3
    <3>. QED BY <3>1, <3>2
  <2>. QED BY <2>4, <2>6, <2>7, <2>8
<1>6. CASE StoreSize
  <2>1. /\ guard' = guard /\ guard # NoWindow /\ ui.step = "resize"
        /\ lastSize' = (IF ui.size = NoWindow THEN lastSize ELSE ui.size)
        /\ surfaceState' = (IF ui.size = NoWindow THEN "PAUSED" ELSE "VALID")
    BY <1>6 DEF StoreSize, UiInv
  <2>2. ui' = [ui EXCEPT !.step = "send_size"] BY <1>1, <1>6 DEF StoreSize
  <2>3. ui'.step = "send_size" /\ ui'.size = ui.size BY <2>2 DEF SessionTypes, StepRecords
  <2>4. SizeComes' BY <2>1, <2>3 DEF SizeComes, Known
  <2>5. CASE ui.size # NoWindow /\ surfaceState # "VALID"
    <3>1. generation + 1 \in Nat BY DEF SessionTypes
    <3>. DEFINE m == Created(generation + 1)
    <3>2. m \in SurfaceMsgs /\ m.generation = generation + 1 /\ m.type = "WindowCreated"
      BY <3>1, SurfaceTyped
    <3>3. messages' = Append(messages, m) /\ generation' = generation + 1
      BY <1>1, <1>6, <2>5 DEF StoreSize, Push, Bump
    <3>. HIDE DEF m
    <3>4. /\ GenerationInv' /\ IsPending' /\ \A i : Pending(i)' => messages'[i] = m
      BY <1>0, <1>1, <3>2, <3>3, NewGeneration
    <3>5. DestroyedInv' BY <3>2, <3>4 DEF DestroyedInv
    <3>6. WindowComes' BY <3>4 DEF WindowComes
    <3>. QED BY <2>4, <3>4, <3>5, <3>6
  <2>6. CASE ~(ui.size # NoWindow /\ surfaceState # "VALID")
    <3>1. UNCHANGED <<messages, generation>> BY <1>6, <2>6 DEF StoreSize
    <3>2. DestroyedInv' BY <1>1, <1>2, <2>1, <3>1 DEF DestroyedInv
    <3>. QED BY <1>1, <1>2, <2>1, <2>4, <3>1, <3>2
  <2>. QED BY <2>5, <2>6
<1>7. CASE NoSizeYet
  <2>1. UNCHANGED <<messages, generation, guard, surfaceState, lastSize>>
        /\ ui.step = "resize" /\ ~ui.rebind /\ ui'.step = "idle"
    BY <1>7 DEF NoSizeYet, At
  <2>2. DestroyedInv' BY <1>1, <1>2, <2>1 DEF DestroyedInv
  <2>3. Brings(Known) => Brings(Known)' BY <1>2, <2>1, SameSize
  <2>4. SizeComes' BY <1>1, <2>1, <2>3 DEF SizeComes
  <2>. QED BY <1>1, <1>2, <2>1, <2>2, <2>4
<1>8. CASE SendResized
  <2>1. UNCHANGED <<generation, guard, surfaceState, lastSize>>
        /\ ui.step = "send_size" /\ PushSize(ui.size) /\ ui'.step = "idle"
    BY <1>8 DEF SendResized, At
  <2>2. guard # NoWindow /\ ui.size = Known BY <1>1, <2>1 DEF UiInv, SizeComes
  <2>3. ui.size \in WindowOrNot BY DEF SessionTypes, StepRecords
  <2>4. SizeAdded(ui.size) BY <1>1, <2>1, <2>3, PushSizeIs DEF SizeAdded, SessionTypes
  <2>5. PICK k \in WindowOrNot : k = ui.size BY <2>3
  <2>6. /\ GenerationInv' /\ \A i : Pending(i)' <=> Pending(i)
        /\ \A i : Pending(i)' => messages'[i] = messages[i]
        /\ WindowComes => WindowComes'
        /\ Brings(k)'
    BY <1>0, <1>1, <2>1, <2>4, <2>5, SizeSent
  <2>7. DestroyedInv'
    <3>1. \A i : Pending(i)' => i \in DOMAIN messages BY <2>6 DEF Pending
    <3>. QED BY <1>1, <2>1, <2>6, <3>1 DEF DestroyedInv
  <2>8. Known' = k BY <2>1, <2>2, <2>5 DEF Known
  <2>9. SizeComes' BY <2>1, <2>2, <2>6, <2>8 DEF SizeComes
  <2>. QED BY <1>1, <2>1, <2>6, <2>7, <2>9
<1>. QED BY <1>3, <1>4, <1>5, <1>6, <1>7, <1>8 DEF UiNext, UiStep

\* The steps of the control thread: Start publishes the window and its size.
LEMMA ControlFlows == ASSUME SessionBase, SessionFlow, ControlNext PROVE SessionFlow'
<1>. USE DEF SessionBase
<1>1. CASE StartRenderThread
  <2>1. /\ control.step = "render" /\ control'.step = "window" /\ controlQueue' = <<>>
        /\ UNCHANGED <<generation, messages, game, session, ui, guard>>
    BY <1>1 DEF StartRenderThread, RenderStart, At, ControlKeeps
  <2>2. messages = <<>> /\ generation = 0 /\ game.step = "top" /\ session.window = NoWindow
    BY <2>1 DEF PhaseInv, SessionForm
  <2>3. DOMAIN messages = {} /\ DOMAIN controlQueue' = {} BY <2>1, <2>2
  <2>4. GenerationInv' BY <2>1, <2>2, <2>3 DEF GenerationInv, Pending, Queues
  <2>5. DestroyedInv' BY <2>1, <2>3 DEF DestroyedInv
  <2>. QED BY <2>1, <2>4, <2>5 DEF SessionFlow, ArrivalInv
<1>2. CASE StartSendWindow
  <2>1. /\ control.step = "window" /\ UNCHANGED <<controlQueue, session, game, ui, guard, lastSize,
                                                 surfaceState>>
    BY <1>2 DEF StartSendWindow, renderVars, ControlKeeps
  <2>2. /\ messages = <<>> /\ generation = 0 /\ surfaceState = "UNINITIALIZED" /\ ~closed
        /\ session.window = NoWindow /\ NoBinding(controlQueue) /\ ui.step = "idle"
        /\ game.step = "top"
    BY <2>1 DEF PhaseInv, SessionTypes, StepRecords
  <2>3. GenerationInv /\ DestroyedInv BY <2>1 DEF SessionFlow, Live
  <2>4. CASE guard = NoWindow
    <3>1. control'.step = "on" /\ UNCHANGED <<generation, messages>>
      BY <1>2, <2>4 DEF StartSendWindow, At
    <3>2. GenerationInv' /\ \A i : Pending(i)' <=> Pending(i)
      BY <2>1, <2>3, <3>1, NothingSent
    <3>3. DestroyedInv' BY <2>1, <2>3, <3>1, <3>2 DEF DestroyedInv
    <3>4. WindowComes' BY <2>1, <2>2, <2>4 DEF WindowComes, NoBinding, Queues
    <3>5. SizeComes' BY <2>1, <2>2, <2>4 DEF SizeComes
    <3>. QED BY <3>1, <3>2, <3>3, <3>4, <3>5 DEF SessionFlow, ArrivalInv
  <2>5. CASE guard # NoWindow
    <3>. DEFINE m == Created(1)
    <3>1. m \in SurfaceMsgs /\ m.generation = generation + 1 /\ m.type = "WindowCreated"
      BY <2>2, SurfaceTyped
    <3>2. generation' = generation + 1 /\ messages' = Append(messages, m)
      BY <1>2, <2>2, <2>5 DEF StartSendWindow, Push
    <3>3. control'.step = "publish" /\ control'.size = lastSize
      BY <1>2, <2>5 DEF StartSendWindow, At
    <3>. HIDE DEF m
    <3>4. /\ GenerationInv' /\ IsPending' /\ \A i : Pending(i)' => messages'[i] = m
          /\ Brings(NoWindow)'
      BY <2>1, <2>3, <3>1, <3>2, NewGeneration
    <3>5. DestroyedInv' BY <3>1, <3>4 DEF DestroyedInv
    <3>6. WindowComes' BY <3>4 DEF WindowComes
    <3>. QED BY <2>1, <2>5, <3>3, <3>4, <3>5, <3>6 DEF SessionFlow, ArrivalInv
  <2>. QED BY <2>4, <2>5
<1>3. CASE StartSendSize
  <2>1. /\ control.step = "publish" /\ control'.step = "on"
        /\ UNCHANGED <<controlQueue, session, game, ui, guard, lastSize, generation>>
        /\ surfaceState' = SurfaceStateOf(control.size)
    BY <1>3 DEF StartSendSize, renderVars, ControlKeeps, At
  <2>2. /\ GenerationInv /\ DestroyedInv /\ ~closed /\ guard # NoWindow /\ control.size = lastSize
        /\ WindowComes /\ Brings(NoWindow) /\ ui.step = "idle"
    BY <2>1 DEF SessionFlow, ArrivalInv, Live, PhaseInv
  <2>3. Known' = lastSize /\ lastSize \in WindowOrNot
    BY <2>1, <2>2 DEF Known, SurfaceStateOf, SessionTypes
  <2>4. CASE control.size = NoWindow
    <3>1. UNCHANGED messages BY <1>3, <2>4 DEF StartSendSize
    <3>2. GenerationInv' /\ (\A i : Pending(i)' <=> Pending(i)) /\ WindowComes' /\ Brings(NoWindow)'
      BY <2>1, <2>2, <3>1, NothingSent
    <3>3. DestroyedInv' BY <2>1, <2>2, <3>1, <3>2 DEF DestroyedInv
    <3>4. Brings(Known)' BY <2>2, <2>3, <2>4, <3>2
    <3>5. SizeComes' BY <2>1, <2>2, <3>4 DEF SizeComes
    <3>. QED BY <2>1, <3>2, <3>3, <3>5 DEF SessionFlow, ArrivalInv
  <2>5. CASE control.size # NoWindow
    <3>1. messages' = Append(messages, Resized(lastSize))
      BY <1>3, <2>2, <2>5 DEF StartSendSize, Push
    <3>2. PICK k \in WindowOrNot : k = lastSize BY <2>3
    <3>3. SizeAdded(k)
      <4>1. messages \in Seq(MessageSet) /\ Len(messages) <= Len(messages)
            /\ \A i \in 1..Len(messages) : i <= Len(messages)
        BY DEF SessionTypes
      <4>. QED BY <3>1, <3>2, <4>1 DEF SizeAdded
    <3>4. /\ GenerationInv' /\ \A i : Pending(i)' <=> Pending(i)
          /\ \A i : Pending(i)' => messages'[i] = messages[i]
          /\ WindowComes' /\ Brings(k)'
      BY <2>1, <2>2, <3>3, SizeSent
    <3>5. DestroyedInv'
      <4>1. \A i : Pending(i)' => i \in DOMAIN messages BY <3>4 DEF Pending
      <4>. QED BY <2>1, <2>2, <3>4, <4>1 DEF DestroyedInv
    <3>6. Brings(Known)' BY <2>3, <3>2, <3>4
    <3>7. SizeComes' BY <2>1, <2>2, <3>6 DEF SizeComes
    <3>. QED BY <2>1, <3>4, <3>5, <3>7 DEF SessionFlow, ArrivalInv
  <2>. QED BY <2>4, <2>5
<1>4. CASE StopReturn \/ StartGameThread \/ StopRequest
  <2>1. control'.step \in {"off", "render", "stopping"}
    BY <1>4 DEF StopReturn, StartGameThread, StopRequest, At
  <2>. QED BY <2>1 DEF SessionFlow, ArrivalInv, Live
<1>. QED BY <1>1, <1>2, <1>3, <1>4 DEF ControlNext, ControlStep

\* The invariant holds at the start,
LEMMA WindowInitially == WindowInit => SessionInv
<1>. SUFFICES ASSUME WindowInit PROVE SessionInv OBVIOUS
<1>. USE DEF WindowInit, RenderInit, At
<1>0. /\ messages = <<>> /\ controlQueue = <<>> /\ DOMAIN messages = {} /\ DOMAIN controlQueue = {}
      /\ NoWindow \in WindowOrNot
  BY DEF WindowOrNot
<1>1. SessionTypes
  <2>1. ui \in StepRecords(UiSteps) /\ game \in StepRecords(GameSteps)
        /\ control \in StepRecords(ControlSteps)
    BY <1>0 DEF StepRecords, UiSteps, GameSteps, ControlSteps
  <2>2. messages \in Seq(MessageSet) /\ controlQueue \in Seq(ControlSet) BY <1>0
  <2>3. session \in [window : WindowOrNot, generation : Nat, size : WindowOrNot,
                     state : SessionStates]
    BY <1>0 DEF SessionStates
  <2>4. guard \in WindowOrNot /\ lastSize \in WindowOrNot /\ generation \in Nat /\ events \in Nat
        /\ closed \in BOOLEAN
    BY <1>0
  <2>. QED BY <2>1, <2>2, <2>3, <2>4 DEF SessionTypes, UiSteps, GameSteps, ControlSteps
<1>2. QueueForm BY <1>0 DEF QueueForm, Once
<1>3. SessionForm BY DEF SessionForm
<1>4. PhaseInv BY <1>0 DEF PhaseInv, Live, NoStop, NoBinding
<1>5. UiInv BY DEF UiInv
<1>6. (control.step \in Live => GenerationInv /\ DestroyedInv) /\ ArrivalInv
  BY DEF Live, ArrivalInv
<1>. QED BY <1>1, <1>2, <1>3, <1>4, <1>5, <1>6 DEF SessionInv, SessionBase, SessionFlow

\* every step keeps it,
LEMMA WindowStep == ASSUME SessionInv, WindowNext, MaxOverlap = 0 PROVE SessionInv'
<1>1. SessionBase /\ SessionFlow BY DEF SessionInv
<1>2. QueueForm' BY <1>1, QueueFormKept
<1>3. SessionForm' BY <1>1, SessionFormKept
<1>4. PhaseInv' BY <1>1, PhaseKept
<1>5. UiInv' BY <1>1, UiKept DEF SessionFlow
<1>6. SessionTypes'
  BY <1>1, UiTypes, GameTypes, ControlTypes, RenderTypes DEF SessionBase, WindowNext, ControlNext
<1>7. SessionFlow'
  BY <1>1, UiFlows, PopCreatedFlows, BindCurrentFlows, PopDestroyedFlows, PopResizedFlows,
     OtherGameFlows, ControlFlows, RenderFlows
     DEF WindowNext, GameNext, ControlNext
<1>. QED BY <1>2, <1>3, <1>4, <1>5, <1>6, <1>7 DEF SessionInv, SessionBase

\* and so does a stutter.
LEMMA WindowStutters == ASSUME SessionInv, UNCHANGED windowVars PROVE SessionInv'
<1>1. UNCHANGED <<renderRunning, stopRequested, controlQueue, session, rpc,
                  guard, surfaceState, generation, lastSize, messages, closed, ui, game, control,
                  events>>
  BY DEF windowVars, renderVars, engineVars
<1>. QED BY <1>1 DEF SessionInv, SessionBase, SessionFlow, SessionTypes, QueueForm, SessionForm, PhaseInv, UiInv,
       GenerationInv, DestroyedInv, ArrivalInv, SizeComes, WindowComes, Brings, QueueBrings, Known,
       Pending, IsPending, IsBinding, Queues, Live

\* In a quiet session everything has arrived.
LEMMA QuietHasAll == SessionInv => QuietSessionIsCurrent
<1>. SUFFICES ASSUME SessionInv, Quiet
              PROVE  /\ session.window = guard
                     /\ guard # NoWindow => session.generation = generation
                     /\ Renderable <=> surfaceState = "VALID"
                     /\ Renderable => session.size = lastSize
  BY DEF QuietSessionIsCurrent
<1>1. /\ ui.step = "idle" /\ control.step = "on" /\ game.step # "bind" /\ DOMAIN messages = {}
      /\ Without(controlQueue, "TICK") = <<>>
  BY DEF Quiet
<1>2. \A k \in DOMAIN controlQueue : controlQueue[k].type = "TICK"
  <2>1. controlQueue \in Seq(ControlSet) BY DEF SessionInv, SessionBase, SessionTypes
  <2>2. Filtered(controlQueue, Len(controlQueue), "TICK", <<>>) BY <1>1, <2>1, WithoutFilters
  <2>. QED BY <2>1, <2>2 DEF Filtered
<1>3. NoBinding(controlQueue) /\ \A i \in DOMAIN controlQueue : ~Queues(i)
  BY <1>2 DEF NoBinding, Queues
<1>4. ~IsPending /\ ~IsBinding BY <1>1 DEF IsPending, IsBinding
<1>5. WindowComes /\ SizeComes BY <1>1 DEF SessionInv, SessionFlow, ArrivalInv
<1>6. session.window = guard /\ (guard # NoWindow => session.generation = generation)
  BY <1>3, <1>4, <1>5 DEF WindowComes, SetWindowMsg, Queues
<1>7. guard # NoWindow => session.size = Known
  <2>1. \A s : Brings(s) => QueueBrings(s) BY <1>1, <1>4 DEF Brings
  <2>2. \A s : QueueBrings(s) => session.size = s
    BY <1>2, <1>3 DEF QueueBrings, ResizeMsg, Queues
  <2>3. guard # NoWindow => Brings(Known) BY <1>1, <1>5 DEF SizeComes
  <2>. QED BY <2>1, <2>2, <2>3
<1>8. guard = NoWindow => surfaceState # "VALID" BY <1>1, <1>5 DEF SizeComes
<1>9. Renderable <=> guard # NoWindow /\ session.size # NoWindow
  BY <1>6 DEF Renderable, SessionInv, SessionBase, SessionForm
<1>10. surfaceState = "VALID" => lastSize # NoWindow BY DEF SessionInv, SessionBase, UiInv
<1>. QED BY <1>6, <1>7, <1>8, <1>9, <1>10 DEF Known

\* The variables of the session keep their types whatever overlaps.
THEOREM WindowTypes == WindowSpec => []SessionTypes
<1>1. WindowInit => SessionTypes BY WindowInitially DEF SessionInv, SessionBase
<1>2. ASSUME SessionTypes, WindowNext PROVE SessionTypes'
  BY <1>2, UiTypes, GameTypes, ControlTypes, RenderTypes DEF WindowNext, ControlNext
<1>3. ASSUME SessionTypes, UNCHANGED windowVars PROVE SessionTypes'
  BY <1>3 DEF SessionTypes, windowVars, renderVars, engineVars
<1>. QED BY <1>1, <1>2, <1>3, PTL DEF WindowSpec

\* For any windows, callbacks and starts: when nothing is under way any more,
\* a running render thread has the window and the size the surface has now.
\* The hypothesis: no surface callback is under way inside a Start or a Stop.
\* Start reads the size and then publishes the state of the surface; a callback
\* in between that makes it VALID is overwritten with CREATED.
THEOREM QuietAndCurrent == ASSUME MaxOverlap = 0 PROVE WindowSpec => []QuietSessionIsCurrent
<1>1. WindowInit => SessionInv BY WindowInitially
<1>2. SessionInv /\ [WindowNext]_windowVars => SessionInv' BY WindowStep, WindowStutters
<1>3. SessionInv => QuietSessionIsCurrent BY QuietHasAll
<1>. QED BY <1>1, <1>2, <1>3, PTL DEF WindowSpec

===============================================================================
