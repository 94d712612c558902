---------------------------- MODULE ReportCardsInv ----------------------------
(***************************************************************************)
(* What the safety properties of ReportCards need to know of requests and  *)
(* generations that are half done.                                         *)
(***************************************************************************)
EXTENDS ReportCards

\* The variables of a request are defined by the time it uses them, and the row
\* it is about to write was there.
RequestOK ==
    \A w \in Clerks :
        /\ pc[w] \in {"deleteSubject", "insertAssessment", "insertPeriod"} =>
              req[w].subject \in Subjects
        /\ pc[w] = "insertAssessment" => req[w].max \in MaxScores
        /\ pc[w] = "insertPeriod" => w \in Schedulers /\ req[w].from \in Times /\ req[w].to \in Times
        /\ pc[w] \in {"writeScores", "writeMax"} =>
              /\ w \in Graders
              /\ req[w].assessment \in Assessments
              /\ assessment[req[w].assessment].state # "absent"
        /\ pc[w] = "writeMax" => req[w].max \in MaxScores

\* A row that was created has its columns; only an assessment that is there has
\* scores.
RowsOK ==
    /\ \A p \in Periods :
          IF period[p].state = "absent" THEN period[p].subject = None
                                        ELSE period[p].from \in Times /\ period[p].to \in Times
    /\ \A a \in Assessments :
          /\ IF assessment[a].state = "absent" THEN assessment[a].subject = None
                                               ELSE assessment[a].max \in MaxScores
          /\ assessment[a].state # "there" => \A s \in Students : score[a][s] = None

\* The slot a scheduler found free is free still.
SlotFree ==
    \A w \in Clerks : pc[w] = "insertPeriod" =>
        \A p \in There(period) : ~Overlaps(p, req[w].from, req[w].to)

\* The bound a grader compared with holds still.
BoundsHold ==
    \A w \in Clerks :
        /\ pc[w] = "writeScores" =>
              \A s \in DOMAIN req[w].sheet : req[w].sheet[s] <= assessment[req[w].assessment].max
        /\ pc[w] = "writeMax" =>
              \A s \in Students : score[req[w].assessment][s] # None =>
                  score[req[w].assessment][s] <= req[w].max

\* A generation has counted no classmate twice: those above and those still to
\* compare fit into the class, with the student when they have not strayed.
RankFits ==
    \A g \in Generators :
        /\ gen[g].pc \in {"subjects", "scores", "classmates"} => gen[g].above = 0
        /\ gen[g].pc \in {"position", "otherScores"} =>
              /\ gen[g].above + Cardinality(gen[g].others) <= gen[g].total
              /\ g \notin strayed => gen[g].above + Cardinality(gen[g].others) + 1 <= gen[g].total
        /\ gen[g].pc = "otherScores" => gen[g].other \in gen[g].others

\* A student who has not strayed is in the class.
StrayInv == \A g \in Generators : gen[g].pc # "idle" /\ g \notin strayed => gen[g].student \in Classmates

StudentKnown == \A g \in Generators : gen[g].pc # "idle" => gen[g].student \in Students

Above(s) == {o \in Classmates \ {s} : HasScores(o) /\ AverageOf(o) > AverageOf(s)}

\* The variables n of a generation for student s and the average a it computed
\* agree with the tables: the subjects, the average, and how many of the
\* classmates it is through with are above.
Current(s, n, a) ==
    /\ n.pc \in {"scores", "otherScores"} => n.subjects = There(subject)
    /\ n.pc \in {"classmates", "position", "otherScores"} => HasScores(s) /\ a = AverageOf(s)
    /\ n.pc \in {"position", "otherScores"} =>
          /\ n.total = Cardinality(Classmates)
          /\ n.others \subseteq Classmates \ {s}
          /\ n.above = Cardinality(Above(s) \ n.others)

\* What a generation has read is so until a write overtakes it.
MomentInv ==
    \A g \in Generators \ overtaken : \A s \in Students :
        gen[g].student = s => Current(s, gen[g], average[g])

\* What a card of student s should say now.
Right(s, c) ==
    /\ HasScores(s)
    /\ c.average = AverageOf(s)
    /\ c.position = IF Classmates = {} THEN None ELSE Ranking(s)
    /\ c.total = Cardinality(Classmates)

FreshInv == \A s \in Fresh : Right(s, card[s])

\* No average is above 100 percent, on a card or on its way there.
AverageWithinHundred ==
    /\ \A s \in Students : card[s].average <= 10000
    /\ \A g \in Generators : average[g] <= 10000
==============================================================================
