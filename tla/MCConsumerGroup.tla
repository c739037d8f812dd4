-------------------------- MODULE MCConsumerGroup --------------------------
(* Small consumer groups.                                                  *)
EXTENDS ConsumerGroup, TLC

CONSTANTS c1, c2

TwoConsumers == {c1, c2}
Symmetry == Permutations(TwoConsumers)

=============================================================================
