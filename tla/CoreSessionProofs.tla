--------------------------- MODULE CoreSessionProofs ---------------------------
(***************************************************************************)
(* For any options, values, cores and callbacks: the callbacks of a core   *)
(* are gone when it is, and the options and their file agree.              *)
(***************************************************************************)
EXTENDS CoreSession, TLAPS

-----------------------------------------------------------------------------
(* Callbacks *)

LEMMA CallbacksStep ==
    ASSUME TypeOK, CallbacksAreCurrent, Next PROVE CallbacksAreCurrent'
<1> DEFINE Followed == Kinds \ {"discs", "av info"}
<1> USE DEF CallbacksAreCurrent, TypeOK
<1>1. ASSUME ResetCoreState({}) \/ ResetCoreState(DiscsOfCore)
      PROVE  \A k \in Followed : left'[k] = 0
  BY <1>1 DEF ResetCoreState, ForgottenKinds
<1>2. ASSUME NEW k \in Kinds, Register(k) PROVE CallbacksAreCurrent'
  BY <1>2 DEF Register
<1>3. CASE Unregister
  BY <1>3 DEF Unregister
<1>4. CASE FrameEnd
  BY <1>4 DEF FrameEnd
<1>5. CASE Start \/ Reset \/ LoadCore \/ LoadCoreFails
  BY <1>1, <1>5 DEF Start, Reset, Unloaded, UnloadCore, LoadCore, LoadCoreFails
<1>6. ASSUME UNCHANGED <<core, left>> PROVE CallbacksAreCurrent'
  BY <1>6
<1>7. CASE Stop \/ LoadRomRefused \/ InitDone \/ AudioFails \/ FrameBegin
           \/ (\E g \in Games : LoadRom(g)) \/ (\E ok \in BOOLEAN : LoadDone(ok))
  BY <1>6, <1>7 DEF Stop, LoadRomRefused, InitDone, AudioFails, FrameBegin, LoadRom, LoadDone
<1>8. CASE Setters
  BY <1>6, <1>8 DEF Setters, SetCoreOption, Enter, Store, Read, Save, engineVars
<1>9. CASE \/ GetVariableUpdate \/ SetNoOptions \/ ApplyLoad \/ ApplyConsume \/ ApplySave
           \/ \E o \in OptionSets : SetCoreOptions(o)
           \/ \E k \in Keys, v \in Values : SetVariables(k, v) \/ SetVariable(k, v) \/ ApplySet(k, v)
  BY <1>6, <1>9 DEF GetVariableUpdate, SetNoOptions, ApplyLoad, ApplyConsume, ApplySave,
     SetCoreOptions, SetVariables, SetVariable, ApplySet, engineVars
<1> QED
  BY <1>2, <1>3, <1>4, <1>5, <1>7, <1>8, <1>9 DEF Next, Engine, Environment
-----------------------------------------------------------------------------
(* Types *)

LEMMA Numbers ==
    ASSUME TypeOK
    PROVE  /\ MaxCores \in Nat /\ made \in Nat /\ core \in Nat
           /\ made <= MaxCores /\ core <= made /\ left \in [Kinds -> 0..made]
<1>1. core \in 0..made /\ made \in 0..MaxCores /\ left \in [Kinds -> 0..made]
  BY Zenon DEF TypeOK
<1>2. MaxCores \in Nat
  BY SessionAssumption, Zenon DEF SessionAssumption
<1> QED
  BY ONLY <1>1, <1>2, SMT

(* What ResetCoreState leaves of the options: no option is registered.     *)
LEMMA ResetTypes ==
    ASSUME TypeOK, NEW discs, ResetCoreState(discs), made' \in Nat, made <= made'
    PROVE  /\ left' \in [Kinds -> 0..made']
           /\ vars' \in [Keys -> Values \cup {None}] /\ updated' \in BOOLEAN
           /\ defs' \in [Keys -> SUBSET Values]
           /\ UNCHANGED <<file, apply, pc, req, copy, mutex, overlap>>
<1>1. left' \in [Kinds -> 0..made']
  <2>1. left \in [Kinds -> 0..made] /\ made \in Nat
    BY Numbers
  <2>2. 0..made \subseteq 0..made' /\ 0 \in 0..made'
    BY <2>1
  <2>3. left' = [k \in Kinds |-> IF k \in ForgottenKinds \cup discs THEN 0 ELSE left[k]]
    BY DEF ResetCoreState
  <2> QED  BY <2>1, <2>2, <2>3
<1>2. vars' \in [Keys -> Values \cup {None}]
  BY DEF ResetCoreState, Unset
<1>3. defs' \in [Keys -> SUBSET Values]
  BY DEF ResetCoreState, NoOptions
<1> QED
  BY <1>1, <1>2, <1>3 DEF ResetCoreState

LEMMA EngineTypes == ASSUME OptionsInv, Engine PROVE TypeOK'
<1> USE SessionAssumption DEF OptionsInv
<1>0. /\ TypeOK
      /\ MaxCores \in Nat /\ made \in Nat /\ core \in Nat
      /\ made <= MaxCores /\ core <= made /\ left \in [Kinds -> 0..made]
  BY Numbers
<1>1. CASE Start \/ Reset
  <2>1. ResetCoreState({}) /\ made' = made /\ core' = 0
    BY <1>1 DEF Start, Reset, Unloaded, UnloadCore
  <2>2. made' \in Nat /\ made <= made'
    BY ONLY <1>0, <2>1, SMT
  <2>3. /\ left' \in [Kinds -> 0..made']
        /\ vars' \in [Keys -> Values \cup {None}] /\ updated' \in BOOLEAN
        /\ defs' \in [Keys -> SUBSET Values]
        /\ UNCHANGED <<file, apply, pc, req, copy, mutex, overlap>>
    BY ONLY <1>0, <2>1, <2>2, ResetTypes
  <2>4. core' \in 0..made' /\ made' \in 0..MaxCores
    BY ONLY <1>0, <2>1, SMT
  <2> QED
    BY <1>0, <1>1, <2>3, <2>4 DEF Start, Reset, Unloaded, UnloadCore, TypeOK
<1>2. CASE LoadCore \/ LoadCoreFails
  <2>1. ResetCoreState(DiscsOfCore) /\ core' \in 0..made' /\ made' \in 0..MaxCores
        /\ made' \in Nat /\ made <= made'
    <3>1. /\ ResetCoreState(DiscsOfCore)
          /\ \/ core' = made + 1 /\ made' = made + 1 /\ made < MaxCores
             \/ core' = 0 /\ made' = made
      BY <1>2, Zenon DEF LoadCore, LoadCoreFails, UnloadCore
    <3> QED  BY ONLY <1>0, <3>1, SMT
  <2>2. /\ left' \in [Kinds -> 0..made']
        /\ vars' \in [Keys -> Values \cup {None}] /\ updated' \in BOOLEAN
        /\ defs' \in [Keys -> SUBSET Values]
        /\ UNCHANGED <<file, apply, pc, req, copy, mutex, overlap>>
    BY ONLY <1>0, <2>1, ResetTypes
  <2> QED
    BY <1>0, <1>2, <2>1, <2>2 DEF LoadCore, LoadCoreFails, UnloadCore, TypeOK
<1>3. CASE Stop \/ LoadRomRefused \/ InitDone \/ AudioFails \/ FrameBegin
           \/ (\E ok \in BOOLEAN : LoadDone(ok))
  BY <1>0, <1>3 DEF Stop, LoadRomRefused, InitDone, AudioFails, FrameBegin, LoadDone,
     TypeOK, optionVars
<1>4. ASSUME NEW g \in Games, LoadRom(g) PROVE TypeOK'
  BY <1>0, <1>4 DEF LoadRom, NotedContent, TypeOK, optionVars
<1>5. CASE FrameEnd
  <2>1. left' \in [Kinds -> 0..made]
    <3>1. left' = [k \in Kinds |-> IF k = "av info" THEN 0 ELSE left[k]]
      BY <1>5, Zenon DEF FrameEnd
    <3> DEFINE Ids == 0..made
    <3>8. left \in [Kinds -> Ids] /\ 0 \in Ids
      BY ONLY <1>0, SMT
    <3> HIDE DEF Ids
    <3>9. left' \in [Kinds -> Ids]
      BY ONLY <3>1, <3>8
    <3> QED  BY ONLY <3>9 DEF Ids
  <2> QED
    BY <1>0, <1>5, <2>1 DEF FrameEnd, TypeOK
<1> QED
  BY <1>1, <1>2, <1>3, <1>4, <1>5 DEF Engine

LEMMA CoreTypes == ASSUME OptionsInv, Environment PROVE TypeOK'
<1> USE SessionAssumption DEF OptionsInv, engineVars
<1>0. TypeOK
  OBVIOUS
<1>1. ASSUME NEW k \in Kinds, Register(k) PROVE TypeOK'
  <2>1. left' \in [Kinds -> 0..made]
    BY <1>0, <1>1 DEF Register, TypeOK
  <2>2. UNCHANGED <<core, made, state, place, game, content, optionVars>>
    BY <1>1, Zenon DEF Register
  <2> QED
    BY ONLY <1>0, <2>1, <2>2 DEF optionVars, TypeOK
<1>2. CASE Unregister
  <2>1. left' \in [Kinds -> 0..made]
    <3>1. left \in [Kinds -> 0..made] /\ made \in Nat
      BY <1>0, Numbers, Zenon
    <3>2. left' = [left EXCEPT !["audio status"] = 0]
      BY <1>2, Zenon DEF Unregister
    <3> DEFINE Ids == 0..made
    <3>8. left \in [Kinds -> Ids] /\ 0 \in Ids
      BY ONLY <3>1, SMT
    <3> HIDE DEF Ids
    <3>9. left' \in [Kinds -> Ids]
      BY ONLY <3>1, <3>2, <3>8
    <3> QED  BY ONLY <3>9 DEF Ids
  <2>2. UNCHANGED <<core, made, state, place, game, content, optionVars>>
    BY <1>2, Zenon DEF Unregister
  <2> QED
    BY ONLY <1>0, <2>1, <2>2 DEF optionVars, TypeOK
<1>3. CASE GetVariableUpdate \/ SetNoOptions
  BY <1>0, <1>3 DEF GetVariableUpdate, SetNoOptions, ClearCoreOptions, NoOptions, TypeOK
<1>4. ASSUME NEW o \in OptionSets, SetCoreOptions(o) PROVE TypeOK'
  BY <1>0, <1>4 DEF SetCoreOptions, TypeOK
<1>5. CASE ApplyLoad
  BY <1>0, <1>5 DEF ApplyLoad, TypeOK
<1>6. CASE ApplyConsume
  BY <1>0, <1>6 DEF ApplyConsume, TypeOK
<1>7. CASE ApplySave
  BY <1>0, <1>7 DEF ApplySave, NotApplying, Unset, TypeOK, Threads
<1>8. ASSUME NEW k \in Keys, NEW v \in Values, SetVariables(k, v) \/ SetVariable(k, v)
      PROVE  TypeOK'
  <2>1. vars' \in [Keys -> Values \cup {None}] /\ updated' \in BOOLEAN
    <3>1. vars \in [Keys -> Values \cup {None}] /\ updated \in BOOLEAN
      BY <1>0, Zenon DEF TypeOK
    <3> QED  BY <1>8, <3>1 DEF SetVariables, SetVariable
  <2>2. /\ pc' \in [Threads -> {"idle", "asked", "entered", "stored", "read"}]
        /\ req' \in [Threads -> {<<>>} \cup (Keys \X Values)]
    <3>1. /\ pc \in [Threads -> {"idle", "asked", "entered", "stored", "read"}]
          /\ req \in [Threads -> {<<>>} \cup (Keys \X Values)]
      BY <1>0, Zenon DEF TypeOK
    <3>2. \/ UNCHANGED <<pc, req>>
          \/ pc' = [pc EXCEPT !["game"] = "asked"] /\ req' = [req EXCEPT !["game"] = <<k, v>>]
      BY <1>8, Zenon DEF SetVariables, SetVariable
    <3> QED  BY ONLY <3>1, <3>2, SMT DEF Threads
  <2> QED
    BY <1>0, <1>8, <2>1, <2>2 DEF SetVariables, SetVariable, TypeOK
<1>9. ASSUME NEW k \in Keys, NEW v \in Values, ApplySet(k, v) PROVE TypeOK'
  BY <1>0, <1>9 DEF ApplySet, TypeOK, Threads
<1> QED
  BY <1>1, <1>2, <1>3, <1>4, <1>5, <1>6, <1>7, <1>8, <1>9 DEF Environment

LEMMA SetterTypes == ASSUME OptionsInv, Setters PROVE TypeOK'
<1> USE DEF OptionsInv, engineVars
<1>0. TypeOK /\ RequestMade
  OBVIOUS
<1>1. ASSUME NEW k \in Keys, NEW v \in Values, SetCoreOption(k, v) PROVE TypeOK'
  BY <1>0, <1>1 DEF SetCoreOption, TypeOK, Threads
<1>2. ASSUME NEW t \in Threads, Enter(t) PROVE TypeOK'
  <2>1. /\ pc \in [Threads -> {"idle", "asked", "entered", "stored", "read"}]
        /\ req \in [Threads -> {<<>>} \cup (Keys \X Values)]
        /\ overlap \in BOOLEAN /\ mutex \in Threads \cup {"free"}
    BY <1>0, Zenon DEF TypeOK
  <2>2. \/ pc' = [pc EXCEPT ![t] = "entered"] /\ mutex' = t /\ UNCHANGED req
           /\ overlap' = (overlap \/ apply.at # "none")
        \/ pc' = [pc EXCEPT ![t] = "idle"] /\ req' = [req EXCEPT ![t] = <<>>]
           /\ UNCHANGED <<mutex, overlap>>
    BY <1>2, Zenon DEF Enter
  <2>3. /\ pc' \in [Threads -> {"idle", "asked", "entered", "stored", "read"}]
        /\ req' \in [Threads -> {<<>>} \cup (Keys \X Values)]
        /\ mutex' \in Threads \cup {"free"}
    BY <2>1, <2>2
  <2>4. overlap' \in BOOLEAN
    BY <2>1, <2>2, Zenon
  <2>5. UNCHANGED <<core, made, state, place, game, content, left,
                    vars, updated, defs, file, apply, copy>>
    BY <1>2, Zenon DEF Enter
  <2> QED
    BY ONLY <1>0, <2>3, <2>4, <2>5, Zenon DEF TypeOK
<1>3. ASSUME NEW t \in Threads, Store(t) PROVE TypeOK'
  BY <1>0, <1>3 DEF Store, TypeOK, RequestMade
<1>4. ASSUME NEW t \in Threads, Read(t) PROVE TypeOK'
  BY <1>0, <1>4 DEF Read, TypeOK
<1>5. ASSUME NEW t \in Threads, Save(t) PROVE TypeOK'
  BY <1>0, <1>5 DEF Save, TypeOK, RequestMade, Unset
<1> QED
  BY <1>1, <1>2, <1>3, <1>4, <1>5 DEF Setters
LEMMA Types == ASSUME OptionsInv, Next PROVE TypeOK'
  BY EngineTypes, CoreTypes, SetterTypes DEF Next

-----------------------------------------------------------------------------
(* The game thread does one thing at a time: it applies options or sets    *)
(* one only inside a call of the core, and nothing when it is gone.        *)
LEMMA OneThing == ASSUME OptionsInv, Next PROVE OneGameThread'
<1> USE DEF OptionsInv, OneGameThread, GameThreadFree
<1>1. pc \in [Threads -> {"idle", "asked", "entered", "stored", "read"}]
  BY Zenon DEF TypeOK
<1>2. CASE Engine
  BY <1>2 DEF Engine, Start, Reset, Stop, LoadCore, LoadCoreFails, LoadRomRefused, InitDone,
     AudioFails, FrameBegin, FrameEnd, LoadRom, LoadDone, AtLoop, Unloaded, UnloadCore, ResetCoreState,
     optionVars
<1>3. CASE (\E k \in Kinds : Register(k)) \/ Unregister \/ GetVariableUpdate \/ SetNoOptions
           \/ (\E k \in Keys, v \in Values : SetVariables(k, v))
  BY <1>3 DEF Register, Unregister, GetVariableUpdate, SetNoOptions, SetVariables, engineVars,
     optionVars
<1>4. ASSUME NEW o \in OptionSets, SetCoreOptions(o) PROVE OneGameThread'
  BY <1>4 DEF SetCoreOptions, InCore, engineVars
<1>5. CASE ApplyLoad \/ ApplyConsume \/ ApplySave \/ (\E k \in Keys, v \in Values : ApplySet(k, v))
  BY <1>5 DEF ApplyLoad, ApplyConsume, ApplySave, ApplySet, NotApplying, engineVars
<1>6. ASSUME NEW k \in Keys, NEW v \in Values, SetVariable(k, v) PROVE OneGameThread'
  BY <1>1, <1>6 DEF SetVariable, InCore, engineVars, Threads
<1>7. ASSUME NEW k \in Keys, NEW v \in Values, SetCoreOption(k, v) PROVE OneGameThread'
  BY <1>1, <1>7 DEF SetCoreOption, engineVars, Threads
<1>8. ASSUME NEW t \in Threads, Enter(t) \/ Store(t) \/ Read(t) \/ Save(t) PROVE OneGameThread'
  <2>1. pc[t] # "idle" /\ UNCHANGED <<state, place, apply>>
    BY <1>8 DEF Enter, Store, Read, Save, engineVars
  <2>2. \A u \in Threads : u # t => pc'[u] = pc[u]
    BY <1>1, <1>8 DEF Enter, Store, Read, Save
  <2>3. CASE t = "game"
    BY <2>1, <2>3
  <2>4. CASE t # "game"
    BY <2>1, <2>2, <2>4 DEF Threads
  <2> QED  BY <2>3, <2>4
<1> QED
  BY <1>2, <1>3, <1>4, <1>5, <1>6, <1>7, <1>8 DEF Next, Environment, Setters

-----------------------------------------------------------------------------
(* The options and their file                                              *)

Agreement == HolderInside /\ RequestMade /\ ApplyAlone /\ Applied /\ AtRest /\ MidSetter

(* A step that changes none of this: frames, callbacks, loading a game.    *)
LEMMA Kept ==
    ASSUME OptionsInv, UNCHANGED <<vars, defs, file, apply, pc, req, copy, mutex, overlap>>
    PROVE  Agreement'
<1> USE DEF OptionsInv, Agreement
<1>1. HolderInside' /\ RequestMade' /\ ApplyAlone'
  BY DEF HolderInside, RequestMade, ApplyAlone
<1>2. Applied'
  BY DEF Applied
<1>3. AtRest'
  BY DEF AtRest
<1>4. MidSetter'
  BY DEF MidSetter
<1> QED  BY <1>1, <1>2, <1>3, <1>4

(* No option is registered any more.                                       *)
LEMMA Cleared ==
    ASSUME OptionsInv, apply.at = "none", defs' = NoOptions,
           UNCHANGED <<file, apply, pc, req, copy, mutex, overlap>>
    PROVE  Agreement'
<1> USE DEF OptionsInv, Agreement
<1>0. \A k \in Keys : defs'[k] = {}
  BY DEF NoOptions
<1>1. HolderInside' /\ RequestMade' /\ ApplyAlone' /\ Applied'
  BY DEF HolderInside, RequestMade, ApplyAlone, Applied
<1>2. AtRest'
  BY <1>0 DEF AtRest
<1>3. MidSetter'
  <2> SUFFICES ASSUME NEW t \in Threads, pc[t] \in Inside, ~overlap
               PROVE  /\ defs'[req[t][1]] = {}
                      /\ pc[t] = "read" => copy[t] = file
    BY DEF MidSetter
  <2>1. req[t][1] \in Keys
    BY DEF RequestMade, Inside
  <2> QED  BY <1>0, <2>1 DEF MidSetter
<1> QED  BY <1>1, <1>2, <1>3

LEMMA EngineAgrees == ASSUME OptionsInv, Engine PROVE Agreement'
<1>1. CASE Start \/ Reset \/ LoadCore \/ LoadCoreFails
  <2>1. apply.at = "none"
    BY <1>1 DEF Start, Reset, LoadCore, LoadCoreFails, AtLoop, GameThreadFree, OptionsInv,
       OneGameThread
  <2>2. defs' = NoOptions /\ UNCHANGED <<file, apply, pc, req, copy, mutex, overlap>>
    BY <1>1 DEF Start, Reset, Unloaded, UnloadCore, LoadCore, LoadCoreFails, ResetCoreState
  <2> QED  BY <2>1, <2>2, Cleared
<1>2. CASE Stop \/ LoadRomRefused \/ InitDone \/ AudioFails \/ FrameBegin \/ FrameEnd
           \/ (\E g \in Games : LoadRom(g)) \/ (\E ok \in BOOLEAN : LoadDone(ok))
  <2>1. UNCHANGED <<vars, defs, file, apply, pc, req, copy, mutex, overlap>>
    BY <1>2 DEF Stop, LoadRomRefused, InitDone, AudioFails, FrameBegin, FrameEnd, LoadRom,
       LoadDone, optionVars
  <2> QED  BY <2>1, Kept
<1> QED  BY <1>1, <1>2 DEF Engine
LEMMA CoreAgrees == ASSUME OptionsInv, Environment PROVE Agreement'
<1> USE DEF OptionsInv, engineVars
<1>0. /\ pc \in [Threads -> {"idle", "asked", "entered", "stored", "read"}]
      /\ req \in [Threads -> {<<>>} \cup (Keys \X Values)]
      /\ vars \in [Keys -> Values \cup {None}]
      /\ defs \in [Keys -> SUBSET Values]
      /\ copy \in [Threads -> [Keys -> Values \cup {None}]]
  BY Zenon DEF TypeOK
<1>1. CASE (\E k \in Kinds : Register(k)) \/ Unregister \/ GetVariableUpdate
  BY <1>1, Kept DEF Register, Unregister, GetVariableUpdate, optionVars
<1>2. CASE SetNoOptions
  BY <1>2, Cleared DEF SetNoOptions, ClearCoreOptions, InCore, GameThreadFree
<1>3. ASSUME NEW k \in Keys, NEW v \in Values, SetVariables(k, v) PROVE Agreement'
  \* no option is registered, so nothing is said of the variables
  <2>1. /\ \A l \in Keys : defs'[l] = {}
        /\ UNCHANGED <<defs, file, apply, pc, req, copy, mutex, overlap>>
    BY <1>3 DEF SetVariables, NoOptions
  <2>2. HolderInside' /\ RequestMade' /\ ApplyAlone'
    BY <2>1 DEF HolderInside, RequestMade, ApplyAlone
  <2>3. Applied' /\ AtRest'
    BY <2>1 DEF Applied, AtRest
  <2>4. MidSetter'
    BY <2>1 DEF MidSetter, RequestMade, Inside
  <2> QED  BY <2>2, <2>3, <2>4 DEF Agreement
<1>4. ASSUME NEW o \in OptionSets, SetCoreOptions(o) PROVE Agreement'
  \* overlap is set if a setter is inside, and otherwise all starts afresh
  <2>1. /\ defs' = o /\ overlap' = (mutex # "free")
        /\ apply' = [at |-> "load", todo |-> {k \in Keys : o[k] # {}}]
        /\ UNCHANGED <<vars, file, pc, req, copy, mutex>>
    BY <1>4 DEF SetCoreOptions
  <2>2. HolderInside' /\ RequestMade' /\ ApplyAlone' /\ AtRest'
    BY <2>1 DEF HolderInside, RequestMade, ApplyAlone, AtRest
  <2>3. Applied'
    BY <2>1 DEF Applied
  <2>4. MidSetter'
    <3> SUFFICES ASSUME NEW t \in Threads, pc[t] \in Inside, ~overlap' PROVE FALSE
      BY <2>1 DEF MidSetter
    <3> QED  BY <2>1 DEF HolderInside, Threads
  <2> QED  BY <2>2, <2>3, <2>4 DEF Agreement
<1>5. CASE ApplyLoad
  <2>1. /\ apply.at = "load" /\ apply'.at = "set" /\ apply'.todo = apply.todo
        /\ copy' = [copy EXCEPT !["game"] = file]
        /\ UNCHANGED <<vars, defs, file, pc, req, mutex, overlap>>
    BY <1>5 DEF ApplyLoad
  <2>2. HolderInside' /\ RequestMade' /\ ApplyAlone' /\ AtRest'
    BY <2>1 DEF HolderInside, RequestMade, ApplyAlone, AtRest
  <2>3. Applied'
    BY <2>1 DEF Applied
  <2>4. MidSetter'
    BY <2>1 DEF MidSetter, ApplyAlone, HolderInside, Threads
  <2> QED  BY <2>2, <2>3, <2>4 DEF Agreement
<1>6. ASSUME NEW k \in Keys, NEW v \in Values, ApplySet(k, v) PROVE Agreement'
  <2>1. /\ apply.at = "set" /\ apply'.at = "set" /\ apply'.todo = apply.todo \ {k}
        /\ v \in defs[k] /\ vars' = [vars EXCEPT ![k] = v]
        /\ copy' = [copy EXCEPT !["game"][k] = v]
        /\ UNCHANGED <<defs, file, pc, req, mutex, overlap>>
    BY <1>6 DEF ApplySet, Effective
  <2>2. HolderInside' /\ RequestMade' /\ ApplyAlone' /\ AtRest'
    BY <2>1 DEF HolderInside, RequestMade, ApplyAlone, AtRest
  <2>3. Applied'
    <3>1. copy'["game"][k] = v /\ vars'[k] = v
      BY <1>0, <2>1 DEF Threads
    <3>2. \A l \in Keys : l # k => copy'["game"][l] = copy["game"][l] /\ vars'[l] = vars[l]
      BY <1>0, <2>1 DEF Threads
    <3> QED  BY <2>1, <3>1, <3>2 DEF Applied
  <2>4. MidSetter'
    BY <2>1 DEF MidSetter, ApplyAlone, HolderInside, Threads
  <2> QED  BY <2>2, <2>3, <2>4 DEF Agreement
<1>7. CASE ApplyConsume
  <2>1. /\ apply.at = "set" /\ apply.todo = {} /\ apply'.at = "save" /\ apply'.todo = {}
        /\ UNCHANGED <<vars, defs, file, pc, req, copy, mutex, overlap>>
    BY <1>7 DEF ApplyConsume
  <2>2. HolderInside' /\ RequestMade' /\ ApplyAlone' /\ AtRest'
    BY <2>1 DEF HolderInside, RequestMade, ApplyAlone, AtRest
  <2>3. Applied' /\ MidSetter'
    BY <2>1 DEF Applied, MidSetter
  <2> QED  BY <2>2, <2>3 DEF Agreement
<1>8. CASE ApplySave
  <2>1. /\ apply.at = "save" /\ apply' = NotApplying
        /\ file' = (IF defs = NoOptions THEN file ELSE copy["game"])
        /\ copy' = [copy EXCEPT !["game"] = Unset]
        /\ UNCHANGED <<vars, defs, pc, req, mutex, overlap>>
    BY <1>8 DEF ApplySave
  <2>2. HolderInside' /\ RequestMade' /\ ApplyAlone' /\ Applied'
    BY <2>1 DEF HolderInside, RequestMade, ApplyAlone, Applied, NotApplying
  <2>3. AtRest'
    <3> SUFFICES ASSUME ~overlap, NEW k \in Keys, defs[k] # {}
                 PROVE  vars[k] \in defs[k] /\ file'[k] = vars[k]
      BY <2>1 DEF AtRest
    <3>1. file' = copy["game"]
      BY <2>1 DEF NoOptions
    <3> QED  BY <2>1, <3>1 DEF Applied
  <2>4. MidSetter'
    BY <2>1 DEF MidSetter, ApplyAlone, HolderInside, Threads
  <2> QED  BY <2>2, <2>3, <2>4 DEF Agreement
<1>9. ASSUME NEW k \in Keys, NEW v \in Values, SetVariable(k, v) PROVE Agreement'
  \* the request is noted; nobody is inside with it yet
  <2>1. /\ pc["game"] = "idle" /\ pc' = [pc EXCEPT !["game"] = "asked"]
        /\ req' = [req EXCEPT !["game"] = <<k, v>>]
        /\ UNCHANGED <<vars, defs, file, apply, copy, mutex, overlap>>
    BY <1>9 DEF SetVariable, InCore, GameThreadFree
  <2>2. HolderInside' /\ ApplyAlone' /\ Applied'
    BY <1>0, <2>1 DEF HolderInside, ApplyAlone, Applied, Inside
  <2>3. RequestMade'
    BY <1>0, <2>1 DEF RequestMade
  <2>4. AtRest' /\ MidSetter'
    BY <1>0, <2>1 DEF AtRest, MidSetter, Inside
  <2> QED  BY <2>2, <2>3, <2>4 DEF Agreement
<1> QED
  BY <1>1, <1>2, <1>3, <1>4, <1>5, <1>6, <1>7, <1>8, <1>9 DEF Environment
(* SetCoreOptionValue, for the user and for the core.                      *)
LEMMA SettersAgree == ASSUME OptionsInv, Setters PROVE Agreement'
<1> USE DEF OptionsInv, engineVars
<1>0. /\ pc \in [Threads -> {"idle", "asked", "entered", "stored", "read"}]
      /\ req \in [Threads -> {<<>>} \cup (Keys \X Values)]
      /\ vars \in [Keys -> Values \cup {None}] /\ file \in [Keys -> Values \cup {None}]
      /\ copy \in [Threads -> [Keys -> Values \cup {None}]]
      /\ "free" \notin Threads
  BY Zenon DEF TypeOK, Threads
<1>1. ASSUME NEW k \in Keys, NEW v \in Values, SetCoreOption(k, v) PROVE Agreement'
  <2>1. /\ pc["ui"] = "idle" /\ pc' = [pc EXCEPT !["ui"] = "asked"]
        /\ req' = [req EXCEPT !["ui"] = <<k, v>>]
        /\ UNCHANGED <<vars, defs, file, apply, copy, mutex, overlap>>
    BY <1>1 DEF SetCoreOption
  <2>2. HolderInside' /\ ApplyAlone' /\ Applied'
    BY <1>0, <2>1 DEF HolderInside, ApplyAlone, Applied, Inside
  <2>3. RequestMade'
    BY <1>0, <2>1 DEF RequestMade
  <2>4. AtRest' /\ MidSetter'
    BY <1>0, <2>1 DEF AtRest, MidSetter, Inside
  <2> QED  BY <2>2, <2>3, <2>4 DEF Agreement
<1>2. ASSUME NEW t \in Threads, Enter(t), ~Allowed(req[t][1], req[t][2]) PROVE Agreement'
  <2>1. /\ pc[t] = "asked" /\ pc' = [pc EXCEPT ![t] = "idle"] /\ req' = [req EXCEPT ![t] = <<>>]
        /\ UNCHANGED <<vars, defs, file, apply, copy, mutex, overlap>>
    BY <1>2 DEF Enter
  <2>2. HolderInside' /\ ApplyAlone' /\ Applied'
    BY <1>0, <2>1 DEF HolderInside, ApplyAlone, Applied, Inside
  <2>3. RequestMade'
    BY <1>0, <2>1 DEF RequestMade
  <2>4. AtRest' /\ MidSetter'
    BY <1>0, <2>1 DEF AtRest, MidSetter, Inside
  <2> QED  BY <2>2, <2>3, <2>4 DEF Agreement
<1>3. ASSUME NEW t \in Threads, Enter(t), Allowed(req[t][1], req[t][2]) PROVE Agreement'
  \* the mutex was free: nobody else is inside
  <2>1. /\ pc[t] = "asked" /\ mutex = "free" /\ pc' = [pc EXCEPT ![t] = "entered"] /\ mutex' = t
        /\ overlap' = (overlap \/ apply.at # "none")
        /\ UNCHANGED <<vars, defs, file, apply, req, copy>>
    BY <1>3 DEF Enter, Available
  <2>2. \A u \in Threads : pc[u] \notin Inside
    BY <1>0, <2>1 DEF HolderInside
  <2>3. HolderInside'
    BY <1>0, <2>1, <2>2 DEF HolderInside, Inside
  <2>4. RequestMade' /\ ApplyAlone' /\ Applied'
    <3>1. overlap => overlap'
      BY <2>1, Zenon
    <3>2. apply.at # "none" => overlap'
      BY <2>1, Zenon
    <3>3. RequestMade'
      BY <1>0, <2>1 DEF RequestMade
    <3>4. ApplyAlone'
      BY <2>1, <3>2 DEF ApplyAlone
    <3>5. Applied'
      BY <2>1, <3>1 DEF Applied
    <3> QED  BY <3>3, <3>4, <3>5
  <2>5. AtRest'
    BY <1>0, <2>1, <2>2 DEF AtRest, Inside
  <2>6. MidSetter'
    BY <1>0, <1>3, <2>1, <2>2 DEF MidSetter, Allowed, Inside
  <2> QED  BY <2>3, <2>4, <2>5, <2>6 DEF Agreement
<1>4. ASSUME NEW t \in Threads, Store(t) PROVE Agreement'
  <2> DEFINE k == req[t][1]
             v == req[t][2]
  <2>1. /\ pc[t] = "entered" /\ pc' = [pc EXCEPT ![t] = "stored"]
        /\ vars' = [vars EXCEPT ![k] = v]
        /\ UNCHANGED <<defs, file, apply, req, copy, mutex, overlap>>
    BY <1>4 DEF Store
  <2>2. mutex = t /\ (\A u \in Threads : u # t => pc[u] \notin Inside)
    BY <1>0, <2>1 DEF HolderInside, Inside
  <2>3. k \in Keys /\ vars'[k] = v /\ (\A l \in Keys : l # k => vars'[l] = vars[l])
    BY <1>0, <2>1 DEF RequestMade
  <2>4. HolderInside' /\ RequestMade' /\ ApplyAlone'
    BY <1>0, <2>1 DEF HolderInside, RequestMade, ApplyAlone, Inside
  <2>5. apply.at # "none" => overlap
    BY <1>0, <2>2 DEF ApplyAlone
  <2>6. Applied'
    BY <2>1, <2>5 DEF Applied
  <2>7. ~overlap /\ defs[k] # {} => v \in defs[k]
    BY <2>1 DEF MidSetter, Inside
  <2>8. AtRest'
    <3> SUFFICES ASSUME apply.at = "none", ~overlap, NEW l \in Keys, defs[l] # {}
                 PROVE  /\ vars'[l] \in defs[l]
                        /\ \/ file[l] = vars'[l]
                           \/ \E u \in Threads : pc'[u] \in {"stored", "read"} /\ req[u][1] = l
      BY <2>1 DEF AtRest
    <3>1. vars[l] \in defs[l] /\ file[l] = vars[l]
      BY <2>1, <2>2 DEF AtRest, Inside
    <3>2. pc'[t] = "stored"
      BY <1>0, <2>1
    <3> QED  BY <2>3, <2>7, <3>1, <3>2
  <2>9. MidSetter'
    <3> SUFFICES ASSUME NEW u \in Threads, pc'[u] \in Inside, ~overlap
                 PROVE  /\ defs[req[u][1]] # {} =>
                              req[u][2] \in defs[req[u][1]] /\ vars'[req[u][1]] = req[u][2]
                        /\ pc'[u] = "read" => copy[u] = file
      BY <2>1 DEF MidSetter
    <3>1. u = t /\ pc'[t] = "stored"
      BY <1>0, <2>1, <2>2
    <3> QED  BY <2>3, <2>7, <3>1
  <2> QED  BY <2>4, <2>6, <2>8, <2>9 DEF Agreement
<1>5. ASSUME NEW t \in Threads, Read(t) PROVE Agreement'
  <2>1. /\ pc[t] = "stored" /\ pc' = [pc EXCEPT ![t] = "read"]
        /\ copy' = [copy EXCEPT ![t] = file]
        /\ UNCHANGED <<vars, defs, file, apply, req, mutex, overlap>>
    BY <1>5 DEF Read
  <2>2. mutex = t /\ (\A u \in Threads : u # t => pc[u] \notin Inside)
    BY <1>0, <2>1 DEF HolderInside, Inside
  <2>3. pc'[t] = "read" /\ copy'[t] = file /\ (\A u \in Threads : u # t => pc'[u] = pc[u])
    BY <1>0, <2>1
  <2>4. HolderInside' /\ RequestMade' /\ ApplyAlone'
    BY <1>0, <2>1 DEF HolderInside, RequestMade, ApplyAlone, Inside
  <2>5. Applied'
    BY <1>0, <2>1, <2>2 DEF Applied, ApplyAlone
  <2>6. AtRest'
    BY <2>1, <2>3 DEF AtRest
  <2>7. MidSetter'
    BY <2>1, <2>2, <2>3 DEF MidSetter, Inside
  <2> QED  BY <2>4, <2>5, <2>6, <2>7 DEF Agreement
<1>6. ASSUME NEW t \in Threads, Save(t) PROVE Agreement'
  <2> DEFINE k == req[t][1]
             v == req[t][2]
  <2>1. /\ pc[t] = "read" /\ pc' = [pc EXCEPT ![t] = "idle"]
        /\ file' = [copy[t] EXCEPT ![k] = v]
        /\ req' = [req EXCEPT ![t] = <<>>] /\ copy' = [copy EXCEPT ![t] = Unset]
        /\ mutex' = "free"
        /\ UNCHANGED <<vars, defs, apply, overlap>>
    BY <1>6 DEF Save
  <2>2. mutex = t /\ (\A u \in Threads : u # t => pc[u] \notin Inside)
    BY <1>0, <2>1 DEF HolderInside, Inside
  <2>3. pc'[t] = "idle" /\ (\A u \in Threads : u # t => pc'[u] = pc[u] /\ req'[u] = req[u])
    BY <1>0, <2>1
  <2>4. k \in Keys
    BY <2>1 DEF RequestMade
  <2>5. HolderInside'
    BY <1>0, <2>1, <2>2, <2>3 DEF HolderInside, Inside
  <2>6. RequestMade' /\ ApplyAlone'
    BY <2>1, <2>3 DEF RequestMade, ApplyAlone
  <2>7. Applied'
    BY <1>0, <2>1, <2>2 DEF Applied, ApplyAlone
  <2>8. AtRest'
    <3> SUFFICES ASSUME apply.at = "none", ~overlap, NEW l \in Keys, defs[l] # {}
                 PROVE  vars[l] \in defs[l] /\ file'[l] = vars[l]
      BY <2>1 DEF AtRest
    <3>1. vars[l] \in defs[l] /\ (file[l] = vars[l] \/ l = k)
      BY <2>2 DEF AtRest, Inside
    <3>2. copy[t] = file /\ (l = k => vars[l] = v)
      BY <2>1 DEF MidSetter, Inside
    <3> QED  BY <1>0, <2>1, <2>4, <3>1, <3>2
  <2>9. MidSetter'
    BY <2>1, <2>2, <2>3 DEF MidSetter, Inside
  <2> QED  BY <2>5, <2>6, <2>7, <2>8, <2>9 DEF Agreement
<1> QED
  BY <1>1, <1>2, <1>3, <1>4, <1>5, <1>6 DEF Setters

-----------------------------------------------------------------------------
(* Theorems *)

THEOREM Startup == Init => OptionsInv /\ CallbacksAreCurrent
<1> SUFFICES ASSUME Init PROVE OptionsInv /\ CallbacksAreCurrent
  OBVIOUS
<1>1. TypeOK
  <2>1. core \in 0..made /\ made \in 0..MaxCores /\ 0 \in 0..made
    <3>1. core = 0 /\ made = 0
      BY Zenon DEF Init
    <3>2. MaxCores \in Nat
      BY SessionAssumption, Zenon DEF SessionAssumption
    <3> QED  BY ONLY <3>1, <3>2, SMT
  <2>2. left \in [Kinds -> 0..made]
    <3>1. left = [k \in Kinds |-> 0]
      BY Zenon DEF Init
    <3> QED  BY ONLY <2>1, <3>1, Zenon
  <2>3. /\ vars \in [Keys -> Values \cup {None}] /\ defs \in [Keys -> SUBSET Values]
        /\ apply \in [at : {"none", "load", "set", "save"}, todo : SUBSET Keys]
        /\ req \in [Threads -> {<<>>} \cup (Keys \X Values)]
        /\ copy \in [Threads -> [Keys -> Values \cup {None}]]
    BY DEF Init, Unset, NoOptions, NotApplying
  <2> QED
    BY <2>1, <2>2, <2>3 DEF Init, TypeOK, NotApplying
<1>2. HolderInside /\ RequestMade /\ OneGameThread /\ ApplyAlone /\ Applied /\ MidSetter
  BY DEF Init, HolderInside, RequestMade, OneGameThread, GameThreadFree, ApplyAlone, Applied,
     MidSetter, Threads, Inside, NotApplying, NoOptions
<1>3. AtRest
  BY DEF Init, AtRest, NoOptions
<1>4. CallbacksAreCurrent
  BY DEF Init, CallbacksAreCurrent
<1> QED  BY <1>1, <1>2, <1>3, <1>4 DEF OptionsInv

THEOREM OptionsStep == OptionsInv /\ [Next]_sessionVars => OptionsInv'
<1> SUFFICES ASSUME OptionsInv, [Next]_sessionVars PROVE OptionsInv'
  OBVIOUS
<1>1. CASE Next
  BY <1>1, Types, OneThing, EngineAgrees, CoreAgrees, SettersAgree
     DEF Next, Agreement, OptionsInv
<1>2. CASE UNCHANGED sessionVars
  <2>1. Agreement'
    BY <1>2, Kept DEF sessionVars, optionVars
  <2>2. TypeOK' /\ OneGameThread'
    BY <1>2 DEF OptionsInv, TypeOK, OneGameThread, GameThreadFree, sessionVars, engineVars,
       optionVars
  <2> QED  BY <2>1, <2>2 DEF Agreement, OptionsInv
<1> QED  BY <1>1, <1>2

(* The callbacks the engine calls in a frame or for a key belong to the    *)
(* loaded core, for any number of cores and any order of loads, stops and  *)
(* resets.                                                                 *)
THEOREM NoStaleCallback == Spec => []CallbacksAreCurrent
<1>1. Init => OptionsInv /\ CallbacksAreCurrent
  BY Startup
<1>2. OptionsInv /\ CallbacksAreCurrent /\ [Next]_sessionVars => (OptionsInv /\ CallbacksAreCurrent)'
  <2>1. ASSUME OptionsInv, CallbacksAreCurrent, UNCHANGED sessionVars PROVE CallbacksAreCurrent'
    BY <2>1 DEF CallbacksAreCurrent, sessionVars, engineVars
  <2> QED  BY <2>1, OptionsStep, CallbacksStep DEF OptionsInv
<1> QED  BY <1>1, <1>2, PTL DEF Spec

(* SetCoreOptionValue loses no update: whoever sets options, at rest the   *)
(* file has what the core was given, unless options were being registered  *)
(* meanwhile.                                                              *)
THEOREM NoLostUpdate == Spec => []FileFollowsOptions
<1>1. OptionsInv => FileFollowsOptions
  BY DEF OptionsInv, AtRest, FileFollowsOptions, Settled
<1> QED  BY <1>1, Startup, OptionsStep, PTL DEF Spec

(* A registered option has one of the values it was registered with,       *)
(* whatever the file holds.                                                *)
THEOREM OnlyAllowedValues == Spec => []ValuesAllowed
<1>1. OptionsInv => ValuesAllowed
  BY DEF OptionsInv, AtRest, ValuesAllowed, Settled
<1> QED  BY <1>1, Startup, OptionsStep, PTL DEF Spec
=============================================================================
