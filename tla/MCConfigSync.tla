--------------------------- MODULE MCConfigSync ---------------------------
EXTENDS ConfigSync, TLC

CONSTANTS p1, p2
OneHost == <<p1>>
TwoHosts == <<p1, p2>>
MCSymmetry == Permutations(Pages)
=============================================================================
