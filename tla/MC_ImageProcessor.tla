--------------------------- MODULE MC_ImageProcessor ---------------------------
(* Small instances of ImageProcessor for TLC.                                 *)
EXTENDS ImageProcessor, TLC

CONSTANTS w1, w2, r1, r2

(* One request of two images, attempted by two workers.                       *)
OneRequest == {r1}
TwoImages == r1 :> 2

(* A request of two images, and one whose csv had a header row only.          *)
TwoRequests == {r1, r2}
TwoAndNone == r1 :> 2 @@ r2 :> 0

================================================================================
