-------------------------- MODULE MCDecisionEngine --------------------------
\* Instances of DecisionEngine for TLC.  Calls are interchangeable.
EXTENDS DecisionEngine, TLC

Symmetry == Permutations(Evals)
=============================================================================
