--------------------------- MODULE MCExemptCache ---------------------------
(* ExemptCache with three interchangeable scrapes.                         *)
EXTENDS ExemptCache, TLC

MCSymmetry == Permutations(Requests)
=============================================================================
