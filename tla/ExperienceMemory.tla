-------------------------- MODULE ExperienceMemory --------------------------
(***************************************************************************)
(* experience.py and repair_actions_for of graph.py: what the traces of    *)
(* finished tasks teach, and what later tasks are told.  Each process has  *)
(* its own copy of the file, read when it starts and extended by its own   *)
(* lessons only.                                                           *)
(*                                                                         *)
(* An issue is a number, and an action is the issue it was written for: its*)
(* entry of REPAIR_INSTRUCTIONS, or the recommendation of the evaluator.   *)
(* A score is a number of tenths.                                          *)
(***************************************************************************)
EXTENDS Integers, Sequences, FiniteSets, SequencesExt, FiniteSetsExt

CONSTANTS
    Processes,         \* processes that hold an ExperienceMemory
    Issues,            \* names of issues; strings in the code
    Instructed         \* those with an entry in REPAIR_INSTRUCTIONS

ASSUME ExperienceAssumption ==
    /\ Issues \subseteq Nat
    /\ Instructed \subseteq Issues

VARIABLES
    file,              \* the lessons in experience.jsonl
    known              \* known[p]: JsonlExperienceStore.items of process p

experienceVars == <<file, known>>

LIMIT_PER_ISSUE == 2

ExperienceInit ==
    /\ file = <<>>
    /\ known = [p \in Processes |-> <<>>]

(* Slip: a lesson is remembered and not written.                            *)
AddInMemory(p, lesson) ==
    /\ known' = [known EXCEPT ![p] = Append(@, lesson)]
    /\ UNCHANGED file

(* JsonlExperienceStore.add                                                 *)
AddLesson(p, lesson) ==
    /\ file' = Append(file, lesson)
    /\ known' = [known EXCEPT ![p] = Append(@, lesson)]

(* JsonlExperienceStore.__init__, when process p starts again.              *)
LoadLessons(p) ==
    /\ known' = [known EXCEPT ![p] = file]
    /\ UNCHANGED file

-----------------------------------------------------------------------------
IsEvaluation(event) == event.event = "observation"

(* Slip: candidates of a batch are not told apart.                          *)
EndsNothing(event) == FALSE

(* The event after which learn_from_trace has no previous evaluation.       *)
StartsAfresh(event) == event.event = "candidate_batch_selected"

(* The evaluation that evaluation i of the trace is compared with, if any.  *)
Previous(trace, i) ==
    {j \in 1..(i - 1) :
       /\ IsEvaluation(trace[j])
       /\ \A k \in (j + 1)..(i - 1) : ~IsEvaluation(trace[k]) /\ ~StartsAfresh(trace[k])}

(* One lesson for every issue of the earlier evaluation.                    *)
LessonsOf(earlier, later) ==
    [k \in DOMAIN earlier.issues |->
       [issue   |-> earlier.issues[k],
        action  |-> earlier.actions[IF k <= Len(earlier.actions) THEN k
                                    ELSE Len(earlier.actions)],
        delta   |-> later.score - earlier.score,
        from    |-> earlier.asset,
        to      |-> later.asset]]

Success(lesson) == lesson.delta > 0

(* learn_from_trace                                                         *)
Lessons(trace) ==
    FlattenSeq([i \in DOMAIN trace |->
        IF IsEvaluation(trace[i]) /\ Previous(trace, i) # {}
        THEN LessonsOf(trace[Max(Previous(trace, i))], trace[i])
        ELSE <<>>])

-----------------------------------------------------------------------------
(* What is known of an action for an issue: n lessons of it, how many of    *)
(* them succeeded, and what they gained together.                           *)
Evidence(records, issue, action) ==
    LET of == {i \in DOMAIN records : records[i].issue = issue /\ records[i].action = action}
    IN  [n         |-> Cardinality(of),
         successes |-> Cardinality({i \in of : Success(records[i])}),
         gain      |-> MapThenSumSet(LAMBDA i : records[i].delta, of)]

(* rank_score in hundredths, as a fraction: the smoothed rate of success,   *)
(* and the average gain as far as there are five lessons.                   *)
RankScore(e) ==
    LET ample == Max({e.n, 5}) IN
    [num |-> 60 * (e.successes + 1) * ample + 16 * e.gain * (e.n + 2),
     den |-> (e.n + 2) * ample]

(* sorted(..., reverse=True) of (rank_score, action)                        *)
RanksAbove(records, issue, a, b) ==
    LET x == RankScore(Evidence(records, issue, a))
        y == RankScore(Evidence(records, issue, b))
    IN  x.num * y.den > y.num * x.den \/ (x.num * y.den = y.num * x.den /\ a > b)

(* ExperienceMemory.strategies; <<>> for an issue it has no entry for.      *)
Strategies(records) ==
    [issue \in Issues |->
        LET worked == {a \in Issues : Evidence(records, issue, a).successes > 0}
            ranked == SetToSortSeq(worked, LAMBDA a, b : RanksAbove(records, issue, a, b))
        IN  SubSeq(ranked, 1, Min({Len(ranked), LIMIT_PER_ISSUE}))]

(* repair_actions_for: an issue that has neither a learned strategy nor an  *)
(* instruction gets no action; without any action, the recommendations.     *)
RepairActions(issues, learned) ==
    LET answered == SelectSeq(issues, LAMBDA i : learned[i] # <<>> \/ i \in Instructed)
        concrete == [k \in DOMAIN answered |->
                        IF learned[answered[k]] # <<>> THEN learned[answered[k]][1]
                        ELSE answered[k]]
    IN  IF concrete # <<>> THEN concrete ELSE issues
=============================================================================
