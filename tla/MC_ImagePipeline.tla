---------------------------- MODULE MC_ImagePipeline ----------------------------
(* Small instances of ImagePipeline for TLC.                                   *)
EXTENDS ImagePipeline, TLC

CONSTANTS w1, w2, r1, r2

OneAndNone == r1 :> 1 @@ r2 :> 0

OneRequest == {r1}
OneOfOne == r1 :> 1

Symmetry == Permutations({w1, w2})
=================================================================================
