-------------------------------- MODULE Sums --------------------------------
(***************************************************************************)
(* The sum of what a function has for the members of a finite set.         *)
(***************************************************************************)
EXTENDS Integers, FiniteSets, Folds

SumOf(f, S) ==
    MapThenFoldSet(LAMBDA x, y : x + y, 0, LAMBDA x : f[x],
                   LAMBDA s : CHOOSE x \in s : TRUE, S)

=============================================================================
