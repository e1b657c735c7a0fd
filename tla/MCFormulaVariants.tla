------------------------- MODULE MCFormulaVariants -------------------------
(* FormulaVariants for TLC: two formulas, one company, two requests.         *)
EXTENDS FormulaVariants, TLC

Symmetry == Permutations(Variants) \cup Permutations(Users) \cup Permutations(Lists)
=============================================================================
