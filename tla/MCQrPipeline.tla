---------------------------- MODULE MCQrPipeline ----------------------------
(* QrPipeline with pictures of eight by eight pixels.                      *)
EXTENDS QrPipeline

Code(left, top, w, h, drop) ==
  [left |-> left, top |-> top, w |-> w, h |-> h, drop |-> drop]

(* Nothing; one code, level, slanted to either side, at the right border,  *)
(* too narrow, too low, too near the upper border; two, side by side in    *)
(* either order or one above the other.                                    *)
SomePictures ==
  {{}, {Code(1, 2, 4, 4, 0)}, {Code(2, 2, 5, 4, 1)}, {Code(0, 2, 6, 4, -1)},
   {Code(5, 3, 3, 4, 0)}, {Code(3, 3, 2, 4, 0)}, {Code(2, 4, 6, 2, 0)},
   {Code(4, 1, 3, 4, 0)},
   {Code(0, 2, 3, 5, 0), Code(4, 2, 4, 4, 0)},
   {Code(0, 2, 3, 3, 0), Code(4, 2, 4, 4, 1)},
   {Code(0, 3, 4, 4, 0), Code(5, 2, 3, 5, 0)},
   {Code(0, 2, 7, 1, 0), Code(1, 5, 3, 2, 0)}}

(* The memory around the picture that a search can come to: black, white   *)
(* before, behind, or both, or white in some places only.                  *)
Before == {-1} \X (0..7)
Behind == (8..23) \X (0..7)
SomeMemory ==
  {{}, Before, Behind, Before \union Behind,
   {cell \in Before \union Behind : (cell[1] + cell[2]) % 2 = 0},
   {cell \in Before \union Behind : cell[2] \in {0, 1, 2, 5}}}

(* A white spot at the lower edge of the picture.                          *)
Spot == {{Code(1, 6, 4, 1, 1)}}
=============================================================================
