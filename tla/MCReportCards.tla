---------------------------- MODULE MCReportCards -----------------------------
EXTENDS ReportCardsInv, TLC

\* Students, periods and subjects are interchangeable in every property.
Symmetry == Permutations(Students) \union Permutations(Periods) \union Permutations(Subjects)
==============================================================================
