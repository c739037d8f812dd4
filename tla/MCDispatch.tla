---------------------------- MODULE MCDispatch ----------------------------
(* Small instances of Dispatch: a run of one step without gates.           *)
EXTENDS Dispatch, TLC

CONSTANTS s1, w1, w2

OneStep == {s1}
NoEdges == {}
NoEnds == [e \in {} |-> s1]
TwoWorkers == {w1, w2}
Symmetry == Permutations(TwoWorkers)

=============================================================================
