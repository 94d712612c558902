-------------------------------- MODULE MCSeed --------------------------------
EXTENDS Seed, TLC

CONSTANTS c1, c2

\* A subject that two levels share and one of the second alone.
MCSubjects == c1 :> {"Mathematics"} @@ c2 :> {"Mathematics", "Physics"}
===============================================================================
