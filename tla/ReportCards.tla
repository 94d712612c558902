----------------------------- MODULE ReportCards ------------------------------
(***************************************************************************)
(* Report cards (report-cards.service.ts): the average of a student's      *)
(* scores in a term, and the position among the classmates, computed by    *)
(* many reads while the gradebook goes on changing, then stored by one     *)
(* upsert.  One class and one term: pupils are deactivated, and move       *)
(* between this class and others (students.service.ts).                    *)
(***************************************************************************)
EXTENDS Gradebook, Functions

CONSTANTS
    Generators,  \* requests that generate report cards
    MaxBuilds    \* bound: generations begun

ASSUME ReportAssumption ==
    /\ IsFiniteSet(Students) /\ IsFiniteSet(Assessments)
    /\ None \notin Students
    /\ MaxBuilds \in Nat

VARIABLES
    active,    \* students.is_active
    member,    \* the students whose class_id is this class
    card,      \* table report_cards: the rows of this class
    published, \* the students whose card is published
    gen,       \* control and local variables of each generation
    average,   \* the student's average in each generation
    overtaken, \* generations whose reads a write has made old (this and the next two: for properties only)
    stale,     \* cards whose data were written since their building began
    strayed,   \* generations whose student was not in the class at some moment of the building
    builds     \* number of generations begun so far

reportVars == <<active, member, card, published, gen, average, overtaken, stale, strayed, builds>>
vars == <<bookVars, reportVars>>

Card == [exists   : BOOLEAN,
         average  : Nat,                \* in hundredths of a percent
         position : Nat \union {None},
         total    : Nat]

Generation == [pc       : {"idle", "subjects", "scores", "classmates", "position", "otherScores"},
               queue    : SUBSET Students,          \* generateForClass: who is still to come
               student  : Students \union {None},
               subjects : SUBSET Subjects,          \* the subjects that were read
               others   : SUBSET Students,          \* classmates still to compare
               other    : Students \union {None},
               above    : Nat,
               total    : Nat]

Start(s, queue) == [pc |-> "subjects", queue |-> queue, student |-> s, subjects |-> {},
                    others |-> {}, other |-> None, above |-> 0, total |-> 0]

NoGeneration == [Start(None, {}) EXCEPT !.pc = "idle"]

NoCard == [exists |-> FALSE, average |-> 0, position |-> None, total |-> 0]

ReportTypeOK ==
    /\ BookTypeOK
    /\ active \subseteq Students
    /\ member \subseteq Students
    /\ card \in [Students -> Card]
    /\ published \subseteq {s \in Students : card[s].exists}
    /\ gen \in [Generators -> Generation]
    /\ average \in [Generators -> Nat]
    /\ overtaken \subseteq Generators
    /\ stale \subseteq {s \in Students : card[s].exists}
    /\ strayed \subseteq Generators
    /\ builds \in 0..MaxBuilds

Init ==
    /\ BookInit
    /\ active = Students
    /\ member = Students
    /\ card = [s \in Students |-> NoCard]
    /\ published = {}
    /\ gen = [g \in Generators |-> NoGeneration]
    /\ average = [g \in Generators |-> 0]
    /\ overtaken = {}
    /\ stale = {}
    /\ strayed = {}
    /\ builds = 0

-----------------------------------------------------------------------------
(* What a set of scores is worth.                                           *)

\* The scores of student s this term in these subjects, by their assessments.
Graded(s, subjects) ==
    {a \in There(assessment) : /\ assessment[a].term
                               /\ assessment[a].subject \in subjects
                               /\ score[a][s] # None}

\* Math.round(score / max * 100 * 100): halves are rounded up.
Percentage(points, max) == (20000 * points + max) \div (2 * max)

\* computeSummary: all points over all maxima, whatever the subject.
Average(s, A) ==
    Percentage(SumFunctionOnSet([a \in A |-> score[a][s]], A),
               SumFunctionOnSet([a \in A |-> assessment[a].max], A))

-----------------------------------------------------------------------------
(* Generating.                                                              *)

Classmates == active \intersect member

Reading(g, next) == gen[g].pc = next /\ UNCHANGED <<bookVars, active, member, builds>>

\* The next student of the list, in no order the code asks for; a student
\* whose card could not be built is only reported as failed.
Proceed(g) ==
    /\ IF gen[g].queue = {}
         THEN gen' = [gen EXCEPT ![g] = NoGeneration]
         ELSE \E s \in gen[g].queue : gen' = [gen EXCEPT ![g] = Start(s, gen[g].queue \ {s})]
    /\ overtaken' = overtaken \ {g}

BeginBuild(g) ==
    /\ gen[g].pc = "idle"
    /\ builds < MaxBuilds
    /\ builds' = builds + 1
    /\ UNCHANGED <<bookVars, active, member, card, published, average, overtaken, stale>>

\* An inactive student still has a class, and gets a card.
GenerateForStudent(g, s) ==
    /\ BeginBuild(g)
    /\ s \in member
    /\ gen' = [gen EXCEPT ![g] = Start(s, {})]

GenerateForClass(g) ==
    /\ BeginBuild(g)
    /\ \E s \in Classmates : gen' = [gen EXCEPT ![g] = Start(s, Classmates \ {s})]

ReadSubjects(g) ==
    /\ Reading(g, "subjects")
    /\ gen' = [gen EXCEPT ![g] = [@ EXCEPT !.pc = "scores", !.subjects = There(subject)]]
    /\ UNCHANGED <<card, published, average, overtaken, stale>>

\* Mutant of ReadScores: a student without scores is not refused.
ReadScoresUnchecked(g) ==
    /\ Reading(g, "scores")
    /\ LET A == Graded(gen[g].student, gen[g].subjects)
       IN  average' = [average EXCEPT ![g] = IF A = {} THEN None ELSE Average(gen[g].student, A)]
    /\ gen' = [gen EXCEPT ![g].pc = "classmates"]
    /\ UNCHANGED <<card, published, overtaken, stale>>

\* "No scores found for this student" ends the build.
ReadScores(g) ==
    /\ Reading(g, "scores")
    /\ LET A == Graded(gen[g].student, gen[g].subjects)
       IN  IF A = {}
             THEN Proceed(g) /\ UNCHANGED average
             ELSE /\ average' = [average EXCEPT ![g] = Average(gen[g].student, A)]
                  /\ gen' = [gen EXCEPT ![g].pc = "classmates"]
                  /\ UNCHANGED overtaken
    /\ UNCHANGED <<card, published, stale>>

\* Mutant of ReadClassmates: the student is compared too.
ReadAllClassmates(g) ==
    /\ Reading(g, "classmates")
    /\ gen' = [gen EXCEPT ![g] = [@ EXCEPT !.pc = "position", !.others = Classmates,
                                           !.total = Cardinality(Classmates)]]
    /\ UNCHANGED <<card, published, average, overtaken, stale>>

\* The classmates; the student is not compared, one of them or not.
ReadClassmates(g) ==
    /\ Reading(g, "classmates")
    /\ gen' = [gen EXCEPT ![g] = [@ EXCEPT !.pc = "position", !.others = Classmates \ {gen[g].student},
                                           !.total = Cardinality(Classmates)]]
    /\ UNCHANGED <<card, published, average, overtaken, stale>>

\* getStudentScoresForTerm of one classmate, its two reads.
ReadOtherSubjects(g) ==
    /\ Reading(g, "position")
    /\ \E s \in gen[g].others :
          gen' = [gen EXCEPT ![g] = [@ EXCEPT !.pc = "otherScores", !.other = s,
                                              !.subjects = There(subject)]]
    /\ UNCHANGED <<card, published, average, overtaken, stale>>

Beaten(g, s) ==
    LET A == Graded(s, gen[g].subjects) IN A # {} /\ Average(s, A) > average[g]

\* Mutant of Compare: a classmate with the same average counts as above.
CompareTies(g) ==
    /\ Reading(g, "otherScores")
    /\ LET s == gen[g].other
           A == Graded(s, gen[g].subjects)
       IN  gen' = [gen EXCEPT ![g] = [@ EXCEPT
              !.pc = "position", !.others = gen[g].others \ {s}, !.other = None,
              !.above = gen[g].above + (IF A # {} /\ Average(s, A) >= average[g] THEN 1 ELSE 0)]]
    /\ UNCHANGED <<card, published, average, overtaken, stale>>

Compare(g) ==
    /\ Reading(g, "otherScores")
    /\ LET s == gen[g].other
       IN  gen' = [gen EXCEPT ![g] = [@ EXCEPT
              !.pc = "position", !.others = gen[g].others \ {s}, !.other = None,
              !.above = gen[g].above + (IF Beaten(g, s) THEN 1 ELSE 0)]]
    /\ UNCHANGED <<card, published, average, overtaken, stale>>

\* Mutant of UpsertCard: only a new card gets the columns.
UpsertCardOldColumns(g) ==
    /\ Reading(g, "position")
    /\ gen[g].others = {}
    /\ card' = [card EXCEPT ![gen[g].student] =
          IF @.exists THEN @ ELSE
          [exists   |-> TRUE,
           average  |-> average[g],
           position |-> IF gen[g].total = 0 THEN None ELSE gen[g].above + 1,
           total    |-> gen[g].total]]
    /\ published' = published \ {gen[g].student}
    /\ stale' = IF g \in overtaken THEN stale \union {gen[g].student} ELSE stale \ {gen[g].student}
    /\ Proceed(g)
    /\ UNCHANGED average

\* The card is new, or as good as new: it has to be published again.
UpsertCard(g) ==
    /\ Reading(g, "position")
    /\ gen[g].others = {}
    /\ card' = [card EXCEPT ![gen[g].student] =
          [exists   |-> TRUE,
           average  |-> average[g],
           position |-> IF gen[g].total = 0 THEN None ELSE gen[g].above + 1,
           total    |-> gen[g].total]]
    /\ published' = published \ {gen[g].student}
    /\ stale' = IF g \in overtaken THEN stale \union {gen[g].student} ELSE stale \ {gen[g].student}
    /\ Proceed(g)
    /\ UNCHANGED average

\* publish: one updateMany over the cards of the class and term.
Publish ==
    /\ published' = {s \in Students : card[s].exists}
    /\ UNCHANGED <<bookVars, active, member, card, gen, average, overtaken, stale, builds>>

\* One card cannot be stored and the list goes on, or the process is restarted.
FailBuild(g) ==
    /\ gen[g].pc # "idle"
    /\ \/ Proceed(g)
       \/ gen' = [gen EXCEPT ![g] = NoGeneration] /\ overtaken' = overtaken \ {g}
    /\ UNCHANGED <<bookVars, active, member, card, published, average, stale, builds>>

-----------------------------------------------------------------------------
\* A write makes old what the generations under way have read, and the cards
\* there are.
Overtake ==
    IF UNCHANGED <<active, member, subject, assessment, score>>
      THEN UNCHANGED <<overtaken, stale>>
      ELSE /\ overtaken' = overtaken \union {g \in Generators : gen[g].pc # "idle"}
           /\ stale' = {s \in Students : card[s].exists}

\* students.service.ts: nobody makes an inactive student active again.
Deactivate(s) ==
    /\ Begin
    /\ active' = active \ {s}
    /\ UNCHANGED <<bookTables, pc, req, member>>

\* students.service.ts: a pupil, active or not, is given this class or another.
ChangeClass(s) ==
    /\ Begin
    /\ member' = IF s \in member THEN member \ {s} ELSE member \union {s}
    /\ UNCHANGED <<bookTables, pc, req, active>>

\* There is one card per student and term: the upsert of a generation for
\* another class, begun while the pupil was there, makes it a card of that class.
ReplaceCard(s) ==
    /\ Begin
    /\ card[s].exists
    /\ card' = [card EXCEPT ![s] = NoCard]
    /\ published' = published \ {s}
    /\ stale' = stale \ {s}
    /\ UNCHANGED <<bookTables, pc, req, active, member, gen, average, overtaken, builds>>

Generate(g) ==
    \/ ReadSubjects(g) \/ ReadScores(g) \/ ReadClassmates(g)
    \/ ReadOtherSubjects(g) \/ Compare(g) \/ UpsertCard(g)

\* The student a generation is about is, or was since the building of the
\* card began, not in the class.
Stray ==
    strayed' = {g \in Generators :
                  /\ gen'[g].pc # "idle"
                  /\ \/ gen'[g].student \notin Classmates'
                     \/ /\ g \in strayed
                        /\ gen'[g].student = gen[g].student}

EditNext ==
    \/ BookNext /\ UNCHANGED <<active, member>>
    \/ \E s \in active : Deactivate(s)
    \/ \E s \in Students : ChangeClass(s)

Next ==
    \/ EditNext /\ UNCHANGED <<card, published, gen, average, builds>> /\ Overtake /\ Stray
    \/ (\E s \in Students : ReplaceCard(s)) /\ Stray
    \/ (\E g \in Generators, s \in Students : GenerateForStudent(g, s)) /\ Stray
    \/ (\E g \in Generators : GenerateForClass(g) \/ Generate(g) \/ FailBuild(g)) /\ Stray
    \/ Publish /\ Stray

Spec == Init /\ [][Next]_vars

-----------------------------------------------------------------------------
(* Properties.                                                              *)

\* What a card should say now.
AverageOf(s) == Average(s, Graded(s, There(subject)))

HasScores(s) == Graded(s, There(subject)) # {}

Ranking(s) == 1 + Cardinality({o \in Classmates \ {s} : HasScores(o) /\ AverageOf(o) > AverageOf(s)})

\* A card that is stored while nothing was written since its building began
\* has the average and the position of that moment: the loop over the
\* classmates computes the rank, equal averages share it
\* (report-cards/services/index.service.ts, computePosition).
CardOfOneMoment ==
    [][\A g \in Generators \ overtaken : \A s \in Students :
          gen[g].student = s /\ card'[s] # card[s] /\ gen'[g] # gen[g] =>
             /\ HasScores(s)
             /\ card'[s].average = AverageOf(s)
             /\ card'[s].position = IF Classmates = {} THEN None ELSE Ranking(s)
             /\ card'[s].total = Cardinality(Classmates)]_vars

\* Whatever is written while a card is built, and whoever joins or leaves the
\* class, the position that is stored is a place of the class that was counted
\* when the pupil was in it all the while, and for a pupil who was deactivated
\* or moved it is at most one more; there is no position only when nobody was
\* counted (computePosition: one query counts the classmates, later ones rank
\* them).
PositionInClass ==
    [][\A g \in Generators, s \in Students :
          gen[g].student = s /\ card'[s] # card[s] /\ gen'[g] # gen[g] =>
             /\ card'[s].position = None <=> card'[s].total = 0
             /\ card'[s].position # None => card'[s].position \in 1..(card'[s].total + 1)
             /\ g \notin strayed => card'[s].position \in 1..card'[s].total]_vars

Fresh == {s \in Students \ stale : card[s].exists}

\* The stored cards of a class do not contradict each other, although each was
\* computed by reads of its own, in lists and one by one, some of them again:
\* those built since the last write that concerns them count the same class, equal
\* averages have the same place and a better average a better place
\* (report-cards.service.ts, generateForClass; buildReportCard's upsert).
StandingsAgree ==
    \A s, t \in Fresh :
        /\ card[s].total = card[t].total
        /\ card[s].average = card[t].average => card[s].position = card[t].position
        /\ s \in Classmates /\ card[s].average > card[t].average => card[s].position < card[t].position
==============================================================================
