------------------------------ MODULE MCTunnel ------------------------------
\* Small instances of Tunnel for TLC; the cfg files give the constants.
EXTENDS Tunnel, TLC

Symmetry == Permutations(Ids)
=============================================================================
