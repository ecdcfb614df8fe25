--------------------------- MODULE MCAnnotations ---------------------------
\* Small instances of Annotations for TLC; the cfg files give the constants.
EXTENDS Annotations, TLC

Symmetry ==
  {p @@ d @@ u @@ b : p \in Permutations(Players), d \in Permutations(Dimensions),
                      u \in Permutations(Uuids), b \in Permutations(Placed)}
=============================================================================
