--------------------------- MODULE MCVmFallback ---------------------------
(* Two adapters, two shells and one node.                                  *)
EXTENDS VmFallback, TLC

Symmetry == Permutations(Pairs) \cup Permutations(Shells)

\* A bound: where something happens to the scripts, the third begins when the
\* first two are over.
ThirdAlone ==
    commands < MaxCommands \/ events = 0 \/ Cardinality({s \in Shells : shell[s].at \notin Over}) <= 1

=============================================================================
