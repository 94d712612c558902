-------------------------- MODULE MCLeaveAttendance --------------------------
EXTENDS LeaveAttendance, TLC

\* Students, leaves and requests of one kind are interchangeable.
Symmetry == Permutations(Parents) \union Permutations(Office) \union Permutations(Teachers)
            \union Permutations(Leaves) \union Permutations(Students)
==============================================================================
