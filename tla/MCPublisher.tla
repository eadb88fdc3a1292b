---------------------------- MODULE MCPublisher ----------------------------
EXTENDS Publisher, TLC

\* Jobs and slots are interchangeable (safety runs only).
Symmetry == Permutations(Jobs) \cup Permutations(Slots)

=============================================================================
