------------------------------- MODULE MCOffice -------------------------------
EXTENDS Office, TLC

CONSTANTS u1, u2, u3, u4, u5, u6, f1, f2, f3, f4, f5, k1, h1, h2, d1, d2, t1

MCFirstUsers == u1 :> "admin" @@ u2 :> "class_teacher" @@ u3 :> "parent" @@ u4 :> "student"
MCFirstPhone == u1 :> f1 @@ u2 :> f2 @@ u3 :> f3 @@ u4 :> f4
MCClassOf == [s \in Students |-> k1]
MCAccountOf == [s \in Students |-> u4]
MCKeys == {<<h1, f2>>, <<h2, f5>>}
MCFirstHeld == d1 :> t1 @@ d2 :> None

Agenda(a, s, m, d) == [accounts |-> a, sessions |-> s, mail |-> m, deaths |-> d]

\* Requests of one kind are interchangeable.
Symmetry == Permutations(Clerks) \union Permutations(Logins) \union Permutations(Posters)

MCAgendas ==
    {Agenda(2, 0, 0, 1), Agenda(1, 2, 0, 0), Agenda(0, 3, 0, 1), Agenda(0, 4, 0, 0),
     Agenda(0, 0, 3, 1), Agenda(1, 0, 2, 0), Agenda(2, 0, 1, 0)}
===============================================================================
