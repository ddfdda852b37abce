----------------------------- MODULE MCCoreSession -----------------------------
(* CoreSession for TLC: two keys, two values, cores that disagree on them. *)
EXTENDS CoreSession, TLC

CONSTANTS k1, k2, v1, v2

(* The second core knows fewer values of the first key and not the other.  *)
MCOptionSets == {(k1 :> {v1, v2} @@ k2 :> {v1, v2}), (k1 :> {v1} @@ k2 :> {})}
MCKinds == {"audio status", "discs"}
=============================================================================
