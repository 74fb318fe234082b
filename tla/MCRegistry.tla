----------------------------- MODULE MCRegistry -----------------------------
(***************************************************************************)
(* Three writers and one reader; two releases of one capability, one of    *)
(* them with two possible contents, and a release of another; an index     *)
(* with room for two entries; two instants, one bundle expires between     *)
(* them.                                                                   *)
(***************************************************************************)
EXTENDS Registry, TLC

CONSTANTS w1, w2, w3, r1

MCWriter == {w1, w2, w3}
MCCapability == [c \in {"a1", "a2", "b1"} |-> IF c = "b1" THEN "b" ELSE "a"]
MCBundle == [d \in {"d1", "e1", "d2", "d3"} |->
    [coordinate |-> CASE d \in {"d1", "e1"} -> "a1" [] d = "d2" -> "a2" [] d = "d3" -> "b1",
     published |-> 1, expires |-> IF d = "d1" THEN 2 ELSE 3]]
WriterSymmetry == Permutations(MCWriter)
=============================================================================
