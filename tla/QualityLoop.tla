---------------------------- MODULE QualityLoop ----------------------------
(***************************************************************************)
(* The single-agent loop of graph.py: decide, call a tool, decide again,   *)
(* until an evaluation passes, the scores stagnate or the iterations are   *)
(* used up.  Every decision costs an iteration, so a generation and its    *)
(* evaluation cost two.  LangGraph ends an invocation that takes more      *)
(* supersteps than its recursion limit with an exception.                  *)
(*                                                                         *)
(* An asset is its number.  A score is a number of steps of                *)
(* MIN_MEANINGFUL_IMPROVEMENT.  An evaluation is compliant when the three  *)
(* text metrics are perfect; VQAEvaluateTool then passes it from the       *)
(* threshold on.  Prompts, seeds, repair texts and the trace are left out. *)
(***************************************************************************)
EXTENDS Naturals, Sequences, SequencesExt

CONSTANTS
    Iterations,        \* the values of TaskRequest.max_iterations
    TaskTypes,         \* what understand_goal may find the request to be
    MaxScore,          \* bound: the best score
    Threshold,         \* VQAEvaluateTool.threshold
    ToolsFail,         \* may a tool, or the brand check, raise?
    RecursionLimit     \* of LangGraph's invoke, 25 unless configured

ASSUME QualityLoopAssumption ==
    /\ Iterations \subseteq 1..20
    /\ TaskTypes \subseteq {"text_to_image", "image_edit", "ambiguous"}
    /\ MaxScore \in Nat /\ Threshold \in 0..MaxScore
    /\ ToolsFail \in BOOLEAN
    /\ RecursionLimit \in Nat \ {0}

VARIABLES
    max_iterations,    \* of this request
    node,              \* the node that runs next
    supersteps,        \* nodes run in this invocation
    task_type, phase, iteration, terminal_reason,
    decision,          \* Decision.type
    assets,            \* how many assets there are (generation_attempt)
    observations,      \* the evaluations
    aesthetic,         \* best_aesthetic_asset_id and _score
    compliant,         \* best_compliant_asset_id and _score
    no_improvement_count,
    waiting_for_user

vars == <<max_iterations, node, supersteps, task_type, phase, iteration,
          terminal_reason, decision, assets, observations, aesthetic, compliant,
          no_improvement_count, waiting_for_user>>
boardVars == <<observations, aesthetic, compliant, no_improvement_count>>

MAX_NO_IMPROVEMENT == 2

NoBest == [asset |-> 0, score |-> 0]
Bests == [asset : Nat, score : 0..MaxScore]
Evaluations == [asset : Nat, score : 0..MaxScore, compliant : BOOLEAN]

(* Types; iterations, supersteps and the plateau count keep their limits.   *)
TypeOK ==
    /\ max_iterations \in Iterations
    /\ node \in {"understand_goal", "decide", "execute_tool", "ask_user", "finalize",
                 "end", "raised"}
    /\ supersteps \in 0..RecursionLimit
    /\ task_type \in TaskTypes \cup {"none"}
    /\ phase \in {"understand", "decide", "evaluate", "replan", "plateau", "finish"}
    /\ iteration \in 0..(max_iterations + 1)
    /\ terminal_reason \in {"none", "quality_plateau", "quality_gate_passed",
                            "needs_user", "max_iterations_or_invalid_state"}
    /\ decision \in {"none", "generate", "evaluate", "ask_user", "finish", "abort"}
    /\ assets \in Nat
    /\ observations \in Seq(Evaluations)
    /\ aesthetic \in Bests /\ compliant \in Bests
    /\ no_improvement_count \in 0..MAX_NO_IMPROVEMENT
    /\ waiting_for_user \in BOOLEAN

Init ==
    /\ max_iterations \in Iterations
    /\ node = "understand_goal" /\ supersteps = 0
    /\ task_type = "none" /\ phase = "understand" /\ iteration = 0
    /\ terminal_reason = "none" /\ decision = "none"
    /\ assets = 0 /\ observations = <<>>
    /\ aesthetic = NoBest /\ compliant = NoBest
    /\ no_improvement_count = 0
    /\ waiting_for_user = FALSE

-----------------------------------------------------------------------------
(* One superstep of the graph: run node n and go on to next.                *)
Step(n, next) ==
    /\ node = n
    /\ supersteps < RecursionLimit
    /\ supersteps' = supersteps + 1
    /\ node' = next
    /\ UNCHANGED max_iterations

UnderstandGoal ==
    /\ Step("understand_goal", "decide")
    /\ task_type' \in TaskTypes
    /\ phase' = "decide"
    /\ UNCHANGED <<iteration, terminal_reason, decision, assets, boardVars,
                   waiting_for_user>>

(* Slip: the budget is looked at before the finish.                         *)
BudgetFirst ==
    IF terminal_reason = "quality_plateau"  THEN "abort"
    ELSE IF iteration >= max_iterations      THEN "abort"
    ELSE IF phase = "finish"                THEN "finish"
    ELSE IF task_type = "ambiguous"         THEN "ask_user"
    ELSE IF phase \in {"decide", "replan"}  THEN "generate"
    ELSE IF phase = "evaluate"              THEN "evaluate"
    ELSE "abort"

(* decide, a chain of conditions.                                           *)
NextDecision ==
    IF terminal_reason = "quality_plateau"  THEN "abort"
    ELSE IF phase = "finish"                THEN "finish"
    ELSE IF iteration >= max_iterations      THEN "abort"
    ELSE IF task_type = "ambiguous"         THEN "ask_user"
    ELSE IF phase \in {"decide", "replan"}  THEN "generate"
    ELSE IF phase = "evaluate"              THEN "evaluate"
    ELSE "abort"

RouteDecision(d) ==
    CASE d \in {"generate", "evaluate"} -> "execute_tool"
      [] d = "ask_user"                 -> "ask_user"
      [] d \in {"finish", "abort"}      -> "finalize"

(* Slip: an iteration is counted only when a tool is called to generate.    *)
DecideFreeOfCharge ==
    /\ Step("decide", RouteDecision(NextDecision))
    /\ decision' = NextDecision
    /\ iteration' = IF NextDecision = "generate" THEN iteration + 1 ELSE iteration
    /\ UNCHANGED <<task_type, phase, terminal_reason, assets, boardVars,
                   waiting_for_user>>

Decide ==
    /\ Step("decide", RouteDecision(NextDecision))
    /\ decision' = NextDecision
    /\ iteration' = iteration + 1
    /\ UNCHANGED <<task_type, phase, terminal_reason, assets, boardVars,
                   waiting_for_user>>

(* execute_tool with generate_image or edit_image.                          *)
Generate ==
    /\ decision = "generate"
    /\ Step("execute_tool", "decide")
    /\ assets' = assets + 1
    /\ phase' = "evaluate"
    /\ UNCHANGED <<task_type, iteration, terminal_reason, decision, boardVars,
                   waiting_for_user>>

Beats(score, best) == best.asset = 0 \/ score > best.score

(* Slip: any score above the best one counts as an improvement.             *)
MeaningfulAtAll(score, best) == best.asset = 0 \/ score > best.score

(* More than one step better than the best there is to compare with.        *)
Meaningful(score, best) == best.asset = 0 \/ score > best.score + 1

Passes(score, ok) == score >= Threshold /\ ok

(* Slip: the best compliant asset need not be compliant.                    *)
RankAnyway(score, ok) ==
    LET current == [asset |-> assets, score |-> score] IN
    /\ aesthetic' = IF Beats(score, aesthetic) THEN current ELSE aesthetic
    /\ compliant' = IF Beats(score, compliant) THEN current ELSE compliant

Rank(score, ok) ==
    LET current == [asset |-> assets, score |-> score] IN
    /\ aesthetic' = IF Beats(score, aesthetic) THEN current ELSE aesthetic
    /\ compliant' = IF ok /\ Beats(score, compliant) THEN current ELSE compliant

(* execute_tool with evaluate_image.                                        *)
Evaluate ==
    /\ decision = "evaluate"
    /\ Step("execute_tool", "decide")
    /\ \E score \in 0..MaxScore, ok \in BOOLEAN :
         LET count == IF Meaningful(score, IF ok THEN compliant ELSE aesthetic)
                      THEN 0 ELSE no_improvement_count + 1
             plateau == ~Passes(score, ok) /\ count >= MAX_NO_IMPROVEMENT
         IN
         /\ observations' = Append(observations, [asset |-> assets, score |-> score,
                                                  compliant |-> ok])
         /\ Rank(score, ok)
         /\ no_improvement_count' = count
         /\ phase' = IF Passes(score, ok) THEN "finish"
                     ELSE IF plateau THEN "plateau" ELSE "replan"
         /\ terminal_reason' = IF plateau THEN "quality_plateau" ELSE terminal_reason
    /\ UNCHANGED <<task_type, iteration, decision, assets, waiting_for_user>>

AskUser ==
    /\ Step("ask_user", "end")
    /\ waiting_for_user' = TRUE
    /\ terminal_reason' = "needs_user"
    /\ UNCHANGED <<task_type, phase, iteration, decision, assets, boardVars>>

Finalize ==
    /\ Step("finalize", "end")
    /\ terminal_reason' = IF decision = "finish" THEN "quality_gate_passed"
                          ELSE IF terminal_reason # "none" THEN terminal_reason
                          ELSE "max_iterations_or_invalid_state"
    /\ UNCHANGED <<task_type, phase, iteration, decision, assets, boardVars,
                   waiting_for_user>>

(* A tool raises, or the request holds a phrase the brand forbids.          *)
Raises ==
    /\ ToolsFail
    /\ node \in {"understand_goal", "execute_tool"}
    /\ node' = "raised"
    /\ UNCHANGED <<max_iterations, supersteps, task_type, phase, iteration,
                   terminal_reason, decision, assets, boardVars, waiting_for_user>>

(* GraphRecursionError: the limit is reached short of the end.              *)
OutOfSupersteps ==
    /\ supersteps = RecursionLimit
    /\ node \notin {"end", "raised"}
    /\ node' = "raised"
    /\ UNCHANGED <<max_iterations, supersteps, task_type, phase, iteration,
                   terminal_reason, decision, assets, boardVars, waiting_for_user>>

Next ==
    \/ UnderstandGoal \/ Decide \/ Generate \/ Evaluate \/ AskUser \/ Finalize
    \/ Raises \/ OutOfSupersteps

Spec == Init /\ [][Next]_vars

(* run_task: the result's status, and its best asset.                       *)
Status ==
    IF terminal_reason \in {"max_iterations_or_invalid_state", "quality_plateau"}
    THEN "aborted"
    ELSE IF waiting_for_user THEN "waiting_for_user" ELSE "completed"

BestAsset == IF compliant.asset # 0 THEN compliant.asset ELSE aesthetic.asset

-----------------------------------------------------------------------------
Seen == DOMAIN observations
Compliant == {i \in Seen : observations[i].compliant}

(* The first of the highest scores among the evaluations in S.              *)
IsBestOf(best, S) ==
    IF S = {} THEN best = NoBest
    ELSE \E i \in S :
           /\ best = [asset |-> observations[i].asset, score |-> observations[i].score]
           /\ \A j \in S : /\ observations[j].score <= observations[i].score
                           /\ observations[j].score = observations[i].score => i <= j

(* The running bests are the bests of the whole history, compliant and      *)
(* aesthetic apart, and name the assets that earned them (the updates of    *)
(* execute_tool; test_compliant_candidate_beats_higher_scoring_...).        *)
BestOfHistory == IsBestOf(aesthetic, Seen) /\ IsBestOf(compliant, Compliant)

(* Evaluation i is more than one step better than every earlier evaluation  *)
(* of its kind: of the compliant ones if it is compliant, else of all.      *)
Improves(i) ==
    \A j \in 1..(i - 1) :
       (observations[i].compliant => observations[j].compliant) =>
         observations[i].score > observations[j].score + 1

(* The loop gives up for stagnation exactly when the last two evaluations   *)
(* brought nothing over all that came before, and neither passed.           *)
PlateauIsReal ==
    LET n == Len(observations) IN
    phase \in {"replan", "plateau"} =>
      (phase = "plateau" <=> n > 1 /\ ~Improves(n) /\ ~Improves(n - 1))

(* A campaign is completed exactly when its last asset passed, even on the  *)
(* last iteration, and then that asset is the one delivered as the best     *)
(* (decide: "Completion must win over the budget guard").                   *)
CompletedMeansPassed ==
    node = "end" =>
      (Status = "completed" <=>
         /\ observations # <<>>
         /\ Passes(Last(observations).score, Last(observations).compliant)
         /\ BestAsset = assets)

(* Every asset but the last is evaluated, once and in order, and all tool   *)
(* calls together stay within the iterations of the request.                *)
BudgetKept ==
    /\ \A i \in Seen : observations[i].asset = i
    /\ assets \in {Len(observations), Len(observations) + 1}
    /\ assets + Len(observations) <= max_iterations

-----------------------------------------------------------------------------
(* A claim of the documentation that the code does not meet: a campaign     *)
(* that uses up its iterations aborts safely, with a terminal reason.       *)
EndsWithReason == ~ToolsFail => node # "raised"
=============================================================================
