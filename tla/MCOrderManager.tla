--------------------------- MODULE MCOrderManager ---------------------------
\* Instances of OrderManager for TLC.  Orders and permits are interchangeable
\* in every action and every invariant, so safety runs may use symmetry.
EXTENDS OrderManager, TLC

Symmetry == Permutations(Orders) \cup Permutations(Slots)
=============================================================================
