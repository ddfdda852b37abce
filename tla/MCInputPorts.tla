---------------------------- MODULE MCInputPorts ----------------------------
(* Two players, two keyboards with one key each, and the mouse.  Keyboards *)
(* that behave alike are interchangeable.                                  *)
EXTENDS InputPorts, TLC
CONSTANTS k1, k2
Interchangeable == Permutations({k1, k2})
=============================================================================
