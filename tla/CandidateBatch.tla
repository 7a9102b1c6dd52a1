--------------------------- MODULE CandidateBatch ---------------------------
(***************************************************************************)
(* candidates.py: a request runs the loop of QualityLoop once for every    *)
(* candidate of every format, selects a candidate for each format and      *)
(* joins the formats into one result.                                      *)
(*                                                                         *)
(* What a run of the loop does is one of Runs: its evaluations and how     *)
(* many assets it made.  An asset is <<execution, format, candidate,       *)
(* attempt>>.  Prompts, seeds and sizes are left out, and the trace keeps  *)
(* the events that are read again.                                         *)
(***************************************************************************)
EXTENDS ExperienceMemory

CONSTANTS
    Runs,              \* what run_task may do
    Threshold          \* the score from which a compliant asset passes

(* A run goes on until an evaluation passes; at most the last asset is not  *)
(* evaluated (QualityLoop!BudgetKept), and without one the user is asked.   *)
(* An evaluation names no issue twice (VQAEvaluateTool).                    *)
ASSUME BatchAssumption ==
    /\ Threshold \in Nat
    /\ \A r \in Runs :
         /\ r.evaluations \in Seq([score : Nat, compliant : BOOLEAN, issues : Seq(Issues)])
         /\ r.assets \in {Len(r.evaluations), Len(r.evaluations) + 1}
         /\ \A i \in DOMAIN r.evaluations :
              LET e == r.evaluations[i] IN
              /\ e.compliant /\ e.score >= Threshold => i = r.assets
              /\ IsInjective(e.issues)

VARIABLES
    request,           \* of the task being executed
    strategies,        \* TaskRequest.experience_strategies
    execution,         \* number of this execution
    candidates,        \* candidates[c]: of the format in hand
    formatResults      \* results of the formats that are done

batchVars == <<request, strategies, execution, candidates, formatResults>>

None == <<>>

Waiting == [state |-> "waiting"]
Running == [state |-> "running"]
Raised == [state |-> "raised"]
Done(r) == [state |-> "done", run |-> r]

Indices == DOMAIN candidates
In(state) == {c \in Indices : candidates[c].state = state}

BatchInit ==
    /\ request = None /\ strategies = None /\ execution = 0
    /\ candidates = <<>> /\ formatResults = <<>>

(* TaskExecutor._execute up to run_campaign_batch.                          *)
BeginBatch(req, learned) ==
    /\ request' = req
    /\ strategies' = learned
    /\ execution' = execution + 1
    /\ candidates' = [c \in 1..req.candidates |-> Waiting]
    /\ formatResults' = <<>>

(* The locals of the batch go.                                              *)
EndBatch ==
    /\ request' = None /\ strategies' = None
    /\ candidates' = <<>> /\ formatResults' = <<>>
    /\ UNCHANGED execution

-----------------------------------------------------------------------------
Passed(e) == e.compliant /\ e.score >= Threshold

RunStatus(r) ==
    IF r.assets = 0 THEN "waiting_for_user"
    ELSE IF r.evaluations # <<>> /\ Passed(Last(r.evaluations)) THEN "completed"
    ELSE "aborted"

(* The first of the highest scores among the evaluations in S, or 0.        *)
BestOf(r, S) ==
    IF S = {} THEN 0
    ELSE CHOOSE i \in S :
           \A j \in S : \/ r.evaluations[j].score < r.evaluations[i].score
                        \/ r.evaluations[j].score = r.evaluations[i].score /\ i <= j

(* Evaluation i is no better than an earlier one: one of the compliant ones *)
(* if it is compliant, any if it is not.                                    *)
BringsNothing(r, i) ==
    \E j \in 1..(i - 1) :
      /\ r.evaluations[i].compliant => r.evaluations[j].compliant
      /\ r.evaluations[i].score <= r.evaluations[j].score

(* The run stagnates at its n-th evaluation (MAX_NO_IMPROVEMENT is 2).      *)
Stagnates(r, n) ==
    n \in 3..Len(r.evaluations) /\ BringsNothing(r, n - 1) /\ BringsNothing(r, n)

(* What a run for the request may do: an unclear goal goes to the user, and *)
(* a run that does not pass stagnates or uses all iterations.               *)
RunsFor(req) ==
    {r \in Runs :
       IF req.unclear THEN r.assets = 0
       ELSE /\ r.assets > 0
            /\ r.assets + Len(r.evaluations) <= req.iterations
            /\ \A n \in 1..(r.assets - 1) : ~Stagnates(r, n)
            /\ RunStatus(r) = "aborted" =>
                 \/ r.assets + Len(r.evaluations) = req.iterations
                 \/ Stagnates(r, r.assets)}

(* run_task, for candidate c of format f.                                   *)
RunResult(r, f, c) ==
    LET evaluated == DOMAIN r.evaluations
        compliant == BestOf(r, {i \in evaluated : r.evaluations[i].compliant})
        best      == IF compliant # 0 THEN compliant ELSE BestOf(r, evaluated)
        Asset(i)  == <<execution, f, c, i>>
        seen      == [i \in evaluated |->
                        [event     |-> "observation",
                         asset     |-> Asset(i),
                         score     |-> r.evaluations[i].score,
                         compliant |-> r.evaluations[i].compliant,
                         issues    |-> r.evaluations[i].issues,
                         actions   |-> RepairActions(r.evaluations[i].issues, strategies)]]
    IN  [status       |-> RunStatus(r),
         assets       |-> [i \in 1..r.assets |-> Asset(i)],
         observations |-> seen,
         trace        |-> seen,
         best         |-> IF best = 0 THEN None ELSE Asset(best),
         score        |-> IF best = 0 THEN -1 ELSE r.evaluations[best].score,
         compliant    |-> compliant # 0]

-----------------------------------------------------------------------------
(* One after the other, or all at once, each in a thread of its own.        *)
StartCandidate(c) ==
    /\ candidates[c] = Waiting
    /\ request.parallel \/ \A b \in 1..(c - 1) : candidates[b].state = "done"
    /\ candidates' = [candidates EXCEPT ![c] = Running]
    /\ UNCHANGED <<request, strategies, execution, formatResults>>

EndCandidate(c, outcome) ==
    /\ candidates[c] = Running
    /\ candidates' = [candidates EXCEPT ![c] = outcome]
    /\ UNCHANGED <<request, strategies, execution, formatResults>>

(* An exception leaves the batch when the candidates before it are done and *)
(* no thread of the pool is running any more; the rest are cancelled.       *)
BatchRaises ==
    /\ In("running") = {}
    /\ \E c \in In("raised") : \A b \in 1..(c - 1) : candidates[b].state = "done"

Results(f) == [c \in Indices |-> RunResult(candidates[c].run, f, c)]

(* Slip: the score alone decides.                                           *)
ScoreAlone(x, y) == x.score >= y.score

(* _selection_key(x) >= _selection_key(y); a missing score is -1.           *)
AtLeast(x, y) ==
    \/ x.compliant /\ ~y.compliant
    \/ x.compliant = y.compliant /\ x.score >= y.score

Selected(results) ==
    Min({c \in DOMAIN results : \A b \in DOMAIN results : AtLeast(results[c], results[b])})

BatchSelected == [event |-> "candidate_batch_selected"]

(* run_candidate_batch                                                      *)
SelectCandidate(results) ==
    IF request.candidates = 1 THEN results[1]
    ELSE LET chosen == results[Selected(results)] IN
         [chosen EXCEPT
            !.assets       = FlattenSeq([c \in DOMAIN results |-> results[c].assets]),
            !.observations = FlattenSeq([c \in DOMAIN results |-> results[c].observations]),
            !.trace        = <<BatchSelected>> \o @]

(* All candidates of a format are done: the next format, if there is one.   *)
EndFormat ==
    /\ In("done") = Indices
    /\ Len(formatResults) < request.formats
    /\ LET f == Len(formatResults) + 1 IN
       /\ formatResults' = Append(formatResults, SelectCandidate(Results(f)))
       /\ candidates' = IF f < request.formats THEN [c \in Indices |-> Waiting]
                        ELSE <<>>
    /\ UNCHANGED <<request, strategies, execution>>

Summary(r) == [best |-> r.best, score |-> r.score, compliant |-> r.compliant]

(* The results of all formats as one, with the defaults of FinalResult.     *)
Joined(primary, results) ==
    [status       |-> primary.status,
     assets       |-> FlattenSeq([f \in DOMAIN results |-> results[f].assets]),
     observations |-> FlattenSeq([f \in DOMAIN results |-> results[f].observations]),
     trace        |-> FlattenSeq([f \in DOMAIN results |-> results[f].trace]),
     best         |-> primary.best,
     score        |-> primary.score,
     compliant    |-> primary.compliant,
     summaries    |-> [f \in DOMAIN results |-> Summary(results[f])],
     signed       |-> {},
     credentials  |-> "not_enabled",
     recorded     |-> FALSE,
     taught       |-> FALSE]

(* Slip: the status of the last format.                                     *)
JoinLast(results) == Joined(Last(results), results)

(* run_campaign_batch: the first format is the primary one.                 *)
JoinFormats(results) == Joined(results[1], results)
=============================================================================
