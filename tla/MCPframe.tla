------------------------------ MODULE MCPframe -------------------------------
EXTENDS Pframe, TLC
CONSTANTS a, b, c, p1, p2, p3, f1, f2, f3
MCSymmetry == Permutations(Clients) \cup Permutations(Pages) \cup Permutations(Frames)
=============================================================================
