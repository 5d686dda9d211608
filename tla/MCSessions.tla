----------------------------- MODULE MCSessions -----------------------------
EXTENDS Sessions, TLC

CONSTANTS c1, c2, c3

SlotSymmetry == Permutations(Slots)
=============================================================================
