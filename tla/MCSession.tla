------------------------------ MODULE MCSession ------------------------------
\* Small instances of Session for TLC.
EXTENDS Session, TLC

Symmetry == Permutations(Tokens)

\* Sanity of the bounds: the next slow tick always finds an unused token.
TokensSuffice == \A p \in Players : Room(p) => Fresh(p) # {}
=============================================================================
