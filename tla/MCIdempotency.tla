---------------------------- MODULE MCIdempotency ----------------------------
\* Instances of Idempotency for TLC.  Calls with the key are interchangeable,
\* and so are those without.
EXTENDS Idempotency, TLC

Symmetry == Permutations(Keyed) \cup Permutations(Keyless)
=============================================================================
