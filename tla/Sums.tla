-------------------------------- MODULE Sums --------------------------------
(* What f makes of the elements of S, added up: the reduce((sum, row) => .., 0) *)
(* and the SUM(..) of the code. The order of the elements is any.              *)
EXTENDS Integers, FiniteSets, Folds

SumOver(f, S) ==
    MapThenFoldSet(LAMBDA x, y : x + y, 0, LAMBDA e : f[e], LAMBDA s : CHOOSE e \in s : TRUE, S)
=============================================================================
