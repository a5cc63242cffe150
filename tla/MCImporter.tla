----------------------------- MODULE MCImporter -----------------------------
(* Two windows, which are interchangeable.                                  *)
EXTENDS Importer, TLC

MCSymmetry == Permutations(Windows)

=============================================================================
