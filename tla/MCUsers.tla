------------------------------- MODULE MCUsers -------------------------------
EXTENDS Users, TLC

\* Requests are interchangeable.
Symmetry == Permutations(Requests)

=============================================================================
