---------------------------- MODULE MCEnrollment -----------------------------
EXTENDS Enrollment, TLC

\* Students are interchangeable, and so are classes: only invariants are checked with it.
Symmetry == Permutations(Students) \union Permutations(Classes)
==============================================================================
