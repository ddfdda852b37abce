------------------------------ MODULE CoreSession ------------------------------
(***************************************************************************)
(* The emulator core as a plug-in: how the engine loads and unloads it,    *)
(* what it leaves behind in the engine while it is loaded, and the options *)
(* it registers, which the core and the user change beside each other.     *)
(*                                                                         *)
(*   CoreLoader       dlopen, the entry points, dlclose                    *)
(*   LibretroEngine   Start, Stop, Reset and the messages LoadCore and     *)
(*                    LoadRom of the game thread, its frames, SetCoreOption*)
(*   EnvState         what the environment calls of the core leave behind  *)
(*   core_options     the registry of options and their file               *)
(*   DiskController   the disc callbacks                                   *)
(*                                                                         *)
(* Cores are numbered in the order they are loaded; 0 is none.  A callback *)
(* is the number of the core it points into.  The engine's state machine   *)
(* and its threads are EngineLifecycle's, and so is Cancel; here Pause is  *)
(* a frame that does not come, and a Stop is one step.  Files can be read  *)
(* and written, and values have no double quote (the file escapes it and   *)
(* does not take the escape back).  Cores without a game and graphics      *)
(* interfaces are left out.                                                *)
(***************************************************************************)
EXTENDS Naturals, FiniteSets, Functions

CONSTANTS Keys,        \* option keys
          Values,      \* their values
          OptionSets,  \* what a core may register: [Keys -> SUBSET Values]
          None,        \* a key without a value
          Games,       \* contents a game can be loaded from
          Kinds,       \* the callbacks of a core that are followed
          MaxCores     \* bound: cores loaded in a run

ASSUME SessionAssumption ==
    /\ OptionSets \subseteq [Keys -> SUBSET Values]
    /\ None \notin Values /\ 0 \notin Games
    /\ Kinds \subseteq {"frame time", "audio status", "keyboard", "discs", "av info"}
    /\ MaxCores \in Nat

VARIABLES
    core,     \* the loaded core                 coreLoader_.coreHandle_
    made,     \* how many were loaded so far
    state,    \* "off" (no game thread), "starting", "loaded", "running", "error"
    place,    \* where the game thread is: between messages ("loop"), in the
              \* core's "init", "load" or "run"; "none" when there is none
    game,     \* gameLoaded_
    content,  \* currentGamePath_, currentGameData_; 0 is none
    left,     \* per kind, the core it was left by; 0 is none
    vars,     \* EnvState::variables_
    updated,  \* variable_updated_
    defs,     \* core_option_definitions_; {} is a key that is not registered
    file,     \* core_options.cfg
    apply,    \* ApplyCoreOptionValues of the game thread
    pc,       \* per thread, how far it is in SetCoreOptionValue
    req,      \* per thread, the key and the value it sets
    copy,     \* per thread, the file as it was read
    mutex,    \* GetSetValueMutex: the thread that has it, or "free"
    overlap   \* history: a setter was active while options were being applied

engineVars == <<core, made, state, place, game, content, left>>
optionVars == <<vars, updated, defs, file, apply, pc, req, copy, mutex, overlap>>
sessionVars == <<engineVars, optionVars>>

Threads   == {"ui", "game"}
Unset     == [k \in Keys |-> None]
NoOptions == [k \in Keys |-> {}]
NotApplying == [at |-> "none", todo |-> {}]

Init ==
    /\ core = 0 /\ made = 0 /\ state = "off" /\ place = "none"
    /\ game = FALSE /\ content = 0
    /\ left = [k \in Kinds |-> 0]
    /\ vars = Unset /\ updated = FALSE /\ defs = NoOptions
    /\ file \in [Keys -> Values \cup {None}]
    /\ apply = NotApplying
    /\ pc = [t \in Threads |-> "idle"]
    /\ req = [t \in Threads |-> <<>>] /\ copy = [t \in Threads |-> Unset]
    /\ mutex = "free" /\ overlap = FALSE

-----------------------------------------------------------------------------
(* EnvState and the discs                                                  *)

(* ResetCoreState forgets what a core registered with EnvState; the discs  *)
(* are the DiskController's, and a pending SET_SYSTEM_AV_INFO is not among *)
(* what it resets.                                                         *)
AllKept == {}  \* mutant: the callbacks survive
ForgottenKinds == Kinds \ {"discs", "av info"}

ResetCoreState(discs) ==
    /\ left' = [k \in Kinds |-> IF k \in ForgottenKinds \cup discs THEN 0 ELSE left[k]]
    /\ vars' = Unset /\ updated' = FALSE /\ defs' = NoOptions
    /\ UNCHANGED <<file, apply, pc, req, copy, mutex, overlap>>

ClearCoreOptions == defs' = NoOptions

-----------------------------------------------------------------------------
(* The engine, as far as it loads and unloads                              *)

GameThreadFree == apply.at = "none" /\ pc["game"] = "idle"
AtLoop == place = "loop" /\ GameThreadFree

(* CoreLoader: the library is closed and its entry points are forgotten.   *)
UnloadCore == core' = 0

(* Reset with the game thread gone: the core is unloaded, the discs keep.  *)
Unloaded == UnloadCore /\ game' = FALSE /\ content' = 0 /\ ResetCoreState({})

Start == state = "off" /\ Unloaded /\ state' = "starting" /\ place' = "loop" /\ UNCHANGED made
Reset == state = "off" /\ Unloaded /\ UNCHANGED <<made, state, place>>

(* Stop: the core stays, and so does the game when the loop sees           *)
(* stopRequested_ before the message.  A frame that is out of the core by  *)
(* then returns without consuming anything.                                *)
Stop ==
    /\ place \in {"loop", "run"} /\ GameThreadFree
    /\ state' = "off" /\ place' = "none"
    /\ \/ UNCHANGED <<game, content>>
       \/ place = "loop" /\ game /\ game' = FALSE /\ content' = 0
    /\ UNCHANGED <<core, made, left, optionVars>>

(* LoadCore of a file without the entry points: the old core is unloaded   *)
(* all the same, and no core is left.                                      *)
DiscsOfCore == IF core = 0 THEN {} ELSE {"discs"}

LoadCoreFails ==
    /\ AtLoop /\ state \in {"starting", "error"}
    /\ UnloadCore /\ game' = FALSE /\ content' = 0
    /\ ResetCoreState(DiscsOfCore)
    /\ state' = "error"
    /\ UNCHANGED <<made, place>>

(* From ERROR the transitions to LOADING and CORE_LOADED are refused.      *)
LoadCore ==
    /\ AtLoop /\ state \in {"starting", "error"} /\ made < MaxCores
    /\ core' = made + 1 /\ made' = made + 1
    /\ game' = FALSE /\ content' = (IF game THEN 0 ELSE content)
    /\ ResetCoreState(DiscsOfCore)
    /\ state' = (IF state = "error" THEN "error" ELSE "loaded")
    /\ place' = "init"

(* LoadRom notes the content, unloads the game that runs (which forgets    *)
(* the content it has just noted) and calls the core only with a content.  *)
NotedContent(g) == IF game THEN 0 ELSE g

LoadRom(g) ==
    /\ AtLoop /\ state \in {"loaded", "running"}
    /\ content' = NotedContent(g)
    /\ game' = FALSE
    /\ IF content' = 0
       THEN state' = "error" /\ UNCHANGED place
       ELSE state' = "loaded" /\ place' = "load"
    /\ UNCHANGED <<core, made, left, optionVars>>

(* A path that ValidateRomPath refuses leaves a running game loaded.       *)
LoadRomRefused ==
    /\ AtLoop /\ state \in {"loaded", "running"}
    /\ content' = 0 /\ state' = "error"
    /\ UNCHANGED <<core, made, place, game, left, optionVars>>

(* The core returns from init, load_game or a frame.                       *)
InitDone ==
    /\ place = "init" /\ GameThreadFree /\ place' = "loop"
    /\ UNCHANGED <<core, made, state, game, content, left, optionVars>>

LoadDone(ok) ==
    /\ place = "load" /\ GameThreadFree /\ place' = "loop"
    /\ game' = ok /\ state' = (IF ok THEN "running" ELSE "error")
    /\ UNCHANGED <<core, made, content, left, optionVars>>

(* The game is loaded but AudioBridge::Reset fails: it is unloaded again.  *)
AudioFails ==
    /\ place = "load" /\ GameThreadFree /\ place' = "loop"
    /\ content' = 0 /\ state' = "error"
    /\ UNCHANGED <<core, made, game, left, optionVars>>

(* ProcessFrame: the callbacks, the core's frame, and after it the option  *)
(* update and the AV information are consumed.                             *)
FrameBegin ==
    /\ AtLoop /\ state = "running" /\ core # 0
    /\ place' = "run"
    /\ UNCHANGED <<core, made, state, game, content, left, optionVars>>

FrameEnd ==
    /\ place = "run" /\ GameThreadFree /\ place' = "loop"
    /\ updated' = FALSE
    /\ left' = [k \in Kinds |-> IF k = "av info" THEN 0 ELSE left[k]]
    /\ UNCHANGED <<core, made, state, game, content,
                   vars, defs, file, apply, pc, req, copy, mutex, overlap>>

-----------------------------------------------------------------------------
(* Environment calls of the core                                           *)

InCore == place \in {"init", "load", "run"} /\ GameThreadFree

(* SET_FRAME_TIME_CALLBACK, SET_KEYBOARD_CALLBACK, the disc interfaces,    *)
(* SET_AUDIO_BUFFER_STATUS_CALLBACK, SET_SYSTEM_AV_INFO.                   *)
Register(k) ==
    /\ InCore
    /\ left' = [left EXCEPT ![k] = core]
    /\ UNCHANGED <<core, made, state, place, game, content, optionVars>>

(* Only the audio status callback can be taken back: the DiskController    *)
(* ignores a NULL, the others refuse it.                                   *)
Unregister ==
    /\ InCore /\ "audio status" \in Kinds
    /\ left' = [left EXCEPT !["audio status"] = 0]
    /\ UNCHANGED <<core, made, state, place, game, content, optionVars>>

(* GET_VARIABLE_UPDATE *)
GetVariableUpdate ==
    /\ InCore /\ updated' = FALSE
    /\ UNCHANGED <<engineVars, vars, defs, file, apply, pc, req, copy, mutex, overlap>>

(* SET_VARIABLES, the old interface, of a core that registers no options.  *)
SetVariables(k, v) ==
    /\ InCore /\ defs = NoOptions
    /\ vars' = [vars EXCEPT ![k] = v] /\ updated' = TRUE
    /\ UNCHANGED <<engineVars, defs, file, apply, pc, req, copy, mutex, overlap>>

(* SET_CORE_OPTIONS without options *)
SetNoOptions ==
    /\ InCore /\ ClearCoreOptions
    /\ UNCHANGED <<engineVars, vars, updated, file, apply, pc, req, copy, mutex, overlap>>

(* SET_CORE_OPTIONS: the definitions, then ApplyCoreOptionValues: read the *)
(* file, set each key, drop the update flag, write the file.  None of it   *)
(* takes GetSetValueMutex.                                                 *)
SetCoreOptions(o) ==
    /\ InCore
    /\ defs' = o
    /\ apply' = [at |-> "load", todo |-> {k \in Keys : o[k] # {}}]
    /\ overlap' = (mutex # "free")
    /\ UNCHANGED <<engineVars, vars, updated, file, pc, req, copy, mutex>>

ApplyLoad ==
    /\ apply.at = "load"
    /\ copy' = [copy EXCEPT !["game"] = file]
    /\ apply' = [at |-> "set", todo |-> apply.todo]
    /\ UNCHANGED <<engineVars, vars, updated, defs, file, pc, req, mutex, overlap>>

AnyOldValue(k, v) ==  \* mutant: the file's value is taken unchecked
    v \in Values /\ (IF copy["game"][k] # None THEN v = copy["game"][k] ELSE v \in defs[k])

(* The file's value if it is one of the key's, its default or first else.  *)
Effective(k, v) == v \in defs[k] /\ (copy["game"][k] \in defs[k] => v = copy["game"][k])

ApplySet(k, v) ==
    /\ apply.at = "set" /\ k \in apply.todo /\ Effective(k, v)
    /\ vars' = [vars EXCEPT ![k] = v] /\ updated' = TRUE
    /\ copy' = [copy EXCEPT !["game"][k] = v]
    /\ apply' = [at |-> "set", todo |-> apply.todo \ {k}]
    /\ UNCHANGED <<engineVars, defs, file, pc, req, mutex, overlap>>

ApplyConsume ==
    /\ apply.at = "set" /\ apply.todo = {}
    /\ updated' = FALSE /\ apply' = [at |-> "save", todo |-> {}]
    /\ UNCHANGED <<engineVars, vars, defs, file, pc, req, copy, mutex, overlap>>

(* Nothing is written when no key had values. *)
ApplySave ==
    /\ apply.at = "save" /\ apply' = NotApplying
    /\ file' = (IF defs = NoOptions THEN file ELSE copy["game"])
    /\ copy' = [copy EXCEPT !["game"] = Unset]
    /\ UNCHANGED <<engineVars, vars, updated, defs, pc, req, mutex, overlap>>

-----------------------------------------------------------------------------
(* Setting an option: LibretroEngine::SetCoreOption for the user, the      *)
(* environment call SET_VARIABLE for the core                              *)

Allowed(k, v) == v \in defs[k]

SetCoreOption(k, v) ==
    /\ pc["ui"] = "idle" /\ Allowed(k, v)
    /\ pc' = [pc EXCEPT !["ui"] = "asked"] /\ req' = [req EXCEPT !["ui"] = <<k, v>>]
    /\ UNCHANGED <<engineVars, vars, updated, defs, file, apply, copy, mutex, overlap>>

SetVariable(k, v) ==
    /\ InCore
    /\ pc' = [pc EXCEPT !["game"] = "asked"] /\ req' = [req EXCEPT !["game"] = <<k, v>>]
    /\ UNCHANGED <<engineVars, vars, updated, defs, file, apply, copy, mutex, overlap>>

(* SetCoreOptionValue: the key and the value are checked under the mutex,  *)
(* which is held until the file is written.                                *)
NeverTaken == TRUE  \* mutant: no mutex
Available == mutex = "free"

Enter(t) ==
    /\ pc[t] = "asked" /\ Available
    /\ IF Allowed(req[t][1], req[t][2])
       THEN /\ pc' = [pc EXCEPT ![t] = "entered"] /\ mutex' = t /\ UNCHANGED req
            /\ overlap' = (overlap \/ apply.at # "none")
       ELSE /\ pc' = [pc EXCEPT ![t] = "idle"] /\ req' = [req EXCEPT ![t] = <<>>]
            /\ UNCHANGED <<mutex, overlap>>
    /\ UNCHANGED <<engineVars, vars, updated, defs, file, apply, copy>>

Store(t) ==
    /\ pc[t] = "entered" /\ pc' = [pc EXCEPT ![t] = "stored"]
    /\ vars' = [vars EXCEPT ![req[t][1]] = req[t][2]] /\ updated' = TRUE
    /\ UNCHANGED <<engineVars, defs, file, apply, req, copy, mutex, overlap>>

Read(t) ==
    /\ pc[t] = "stored" /\ pc' = [pc EXCEPT ![t] = "read"]
    /\ copy' = [copy EXCEPT ![t] = file]
    /\ UNCHANGED <<engineVars, vars, updated, defs, file, apply, req, mutex, overlap>>

Save(t) ==
    /\ pc[t] = "read" /\ pc' = [pc EXCEPT ![t] = "idle"]
    /\ file' = [copy[t] EXCEPT ![req[t][1]] = req[t][2]]
    /\ req' = [req EXCEPT ![t] = <<>>] /\ copy' = [copy EXCEPT ![t] = Unset]
    /\ mutex' = "free"
    /\ UNCHANGED <<engineVars, vars, updated, defs, apply, overlap>>

-----------------------------------------------------------------------------
Engine == Start \/ Reset \/ Stop \/ LoadCore \/ LoadCoreFails \/ LoadRomRefused \/ InitDone
          \/ AudioFails \/ FrameBegin \/ FrameEnd
          \/ (\E g \in Games : LoadRom(g)) \/ (\E ok \in BOOLEAN : LoadDone(ok))

Environment ==
    \/ \E k \in Kinds : Register(k)
    \/ Unregister \/ GetVariableUpdate \/ SetNoOptions
    \/ \E o \in OptionSets : SetCoreOptions(o)
    \/ ApplyLoad \/ ApplyConsume \/ ApplySave
    \/ \E k \in Keys, v \in Values :
           SetVariables(k, v) \/ SetVariable(k, v) \/ ApplySet(k, v)

Setters ==
    \/ \E k \in Keys, v \in Values : SetCoreOption(k, v)
    \/ \E t \in Threads : Enter(t) \/ Store(t) \/ Read(t) \/ Save(t)

Next == Engine \/ Environment \/ Setters
Spec == Init /\ [][Next]_sessionVars

-----------------------------------------------------------------------------
(* Properties *)

TypeOK ==
    /\ core \in 0..made /\ made \in 0..MaxCores
    /\ state \in {"off", "starting", "loaded", "running", "error"}
    /\ place \in {"none", "loop", "init", "load", "run"}
    /\ game \in BOOLEAN /\ content \in Games \cup {0} /\ left \in [Kinds -> 0..made]
    /\ vars \in [Keys -> Values \cup {None}] /\ file \in [Keys -> Values \cup {None}]
    /\ updated \in BOOLEAN /\ overlap \in BOOLEAN /\ defs \in [Keys -> SUBSET Values]
    /\ apply \in [at : {"none", "load", "set", "save"}, todo : SUBSET Keys]
    /\ pc \in [Threads -> {"idle", "asked", "entered", "stored", "read"}]
    /\ req \in [Threads -> {<<>>} \cup (Keys \X Values)]
    /\ copy \in [Threads -> [Keys -> Values \cup {None}]]
    /\ mutex \in Threads \cup {"free"}

(* The frame time and audio status callbacks of a frame and the keyboard   *)
(* callback point into the core that is loaded, however the one before it  *)
(* went: through Stop and Start, through a Reset, or when another was      *)
(* loaded over it after an error.                                          *)
CallbacksAreCurrent == \A k \in Kinds \ {"discs", "av info"} : left[k] \in {0, core}

Settled == apply.at = "none" /\ ~overlap /\ \A t \in Threads : pc[t] \in {"idle", "asked"}

(* What an option is set to is what the file will give the next core:      *)
(* neither the core nor the user overwrites the other's change to another  *)
(* key.  Left out, because the code does lose it: a setter that runs while *)
(* the game thread applies newly registered options, outside the mutex.    *)
FileFollowsOptions ==
    Settled => \A k \in Keys : defs[k] # {} => file[k] = vars[k]

(* A registered option has one of its values, also when the file was       *)
(* written for another core that used the key with other values.           *)
ValuesAllowed == Settled => \A k \in Keys : defs[k] # {} => vars[k] \in defs[k]

(* The inductive invariant behind the last two: who has the mutex, what a  *)
(* setter that has it has stored, and what has been applied so far.        *)
Inside == {"entered", "stored", "read"}
HolderInside == \A t \in Threads : pc[t] \in Inside <=> mutex = t
RequestMade  == \A t \in Threads : pc[t] # "idle" => req[t] \in Keys \X Values
OneGameThread ==
    /\ pc["game"] # "idle" => apply.at = "none"
    /\ place \in {"none", "loop"} => GameThreadFree
    /\ state = "off" => place = "none"
ApplyAlone == apply.at # "none" /\ ~overlap => mutex = "free"
Applied ==
    /\ apply.at = "load" => \A k \in Keys \ apply.todo : defs[k] = {}
    /\ apply.at \in {"set", "save"} /\ ~overlap =>
        \A k \in Keys \ apply.todo :
            defs[k] # {} => vars[k] \in defs[k] /\ copy["game"][k] = vars[k]
    /\ apply.at = "save" => apply.todo = {}
AtRest ==
    apply.at = "none" /\ ~overlap =>
        \A k \in Keys : defs[k] # {} =>
            /\ vars[k] \in defs[k]
            /\ file[k] = vars[k] \/ \E t \in Threads : pc[t] \in {"stored", "read"} /\ req[t][1] = k
MidSetter ==
    \A t \in Threads : pc[t] \in Inside /\ ~overlap =>
        /\ defs[req[t][1]] # {} =>
              /\ req[t][2] \in defs[req[t][1]]
              /\ pc[t] # "entered" => vars[req[t][1]] = req[t][2]
        /\ pc[t] = "read" => copy[t] = file

OptionsInv == /\ TypeOK /\ HolderInside /\ RequestMade /\ OneGameThread
              /\ ApplyAlone /\ Applied /\ AtRest /\ MidSetter

(* A game is asked for with LoadRom and its content reaches the core.      *)
RomReachesCore == [][\A g \in Games : LoadRom(g) => place' = "load"]_sessionVars
=============================================================================
