----------------------------- MODULE MCHwMsgBox -----------------------------
EXTENDS HwMsgBox

(* the frames are interchangeable *)
Interchangeable == Permutations(Frames)
=============================================================================
