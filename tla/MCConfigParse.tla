--------------------------- MODULE MCConfigParse ---------------------------
EXTENDS ConfigParse

\* Section ids are interchangeable model values.
IdSymmetry == Permutations(Ids)
=============================================================================
