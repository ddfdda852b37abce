---------------------------- MODULE CoreProtocol ----------------------------
(***************************************************************************)
(* What the engine promises a libretro core: at any time at most one       *)
(* thread owns it, only the owner calls it, and the calls come in order:   *)
(* a game is loaded into a core that has none, a session starts without a  *)
(* core, and a tear-down leaves none behind.                               *)
(***************************************************************************)
CONSTANTS Callers, Game, Nobody

VARIABLES
  owner,    \* the thread that may call into the core
  loaded    \* "none", "core" or "game"

pvars == <<owner, loaded>>

Init == owner = Nobody /\ loaded = "none"

\* A game thread starts, without a core.
Spawn ==
  /\ owner = Nobody /\ loaded = "none"
  /\ owner' = Game
  /\ UNCHANGED loaded

\* The game thread leaves; the core may stay loaded for the tear-down.
Exit ==
  /\ owner = Game
  /\ owner' = Nobody
  /\ UNCHANGED loaded

TearDownBegins(t) ==
  /\ owner = Nobody
  /\ owner' = t
  /\ UNCHANGED loaded

\* retro_unload_game if there is a game, retro_deinit, unload.
TearDownUnloads(t) ==
  /\ owner = t
  /\ loaded' = "none"
  /\ UNCHANGED owner

TearDownEnds(t) ==
  /\ owner = t /\ loaded = "none"
  /\ owner' = Nobody
  /\ UNCHANGED loaded

\* A core is loaded or fails to, or the game goes and the core may stay.
LeavesCore ==
  /\ owner = Game
  /\ loaded' \in {"core", "none"}
  /\ UNCHANGED owner

LoadsGame ==
  /\ owner = Game
  /\ loaded = "core"
  /\ loaded' = "game"
  /\ UNCHANGED owner

Next ==
  \/ Spawn \/ Exit
  \/ \E t \in Callers : TearDownBegins(t) \/ TearDownUnloads(t) \/ TearDownEnds(t)
  \/ LeavesCore \/ LoadsGame

Spec == Init /\ [][Next]_pvars
=============================================================================
