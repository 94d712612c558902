----------------------------- MODULE MCPayments ------------------------------
EXTENDS PaymentsInv, TLC

\* Requests, payments and bursaries are interchangeable in every safety property.
Symmetry == Permutations(Workers) \union Permutations(Payments) \union Permutations(Bursaries)
            \union Permutations(Students) \union Permutations(Terms)
==============================================================================
