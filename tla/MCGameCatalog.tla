--------------------------- MODULE MCGameCatalog ---------------------------
EXTENDS GameCatalog, TLC

CONSTANTS c1, c2, c3, e1, e2, e3

MCControllers == {c1, c2, c3}
MCEngines == {e1, e2, e3}
Symmetry == Permutations(MCControllers) \cup Permutations(MCEngines)
=============================================================================
