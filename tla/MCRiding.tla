------------------------------ MODULE MCRiding ------------------------------
\* Small instances of Riding for TLC; the cfg files give the constants.
EXTENDS Riding, TLC

Symmetry == Permutations(Entities \ (Players \cup Markers))
=============================================================================
