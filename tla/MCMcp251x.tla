----------------------------- MODULE MCMcp251x -----------------------------
EXTENDS Mcp251x, TLC

CONSTANTS f1, f2

OneFrameOnly == {f1}
TwoFrames == {f1, f2}
FrameSymmetry == Permutations(TwoFrames)
=============================================================================
