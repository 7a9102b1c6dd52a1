------------------------- MODULE QualityLoop_proofs -------------------------
(***************************************************************************)
(* TLAPS proofs about QualityLoop for any iterations, scores, threshold    *)
(* and recursion limit.                                                    *)
(***************************************************************************)
EXTENDS QualityLoop, TLAPS

-----------------------------------------------------------------------------
(* The inductive invariant.                                                 *)

(* What each node knows of the iterations, the decision and the reason.     *)
Control ==
    /\ node = "understand_goal" =>
         iteration = 0 /\ phase = "understand" /\ assets = 0 /\ observations = <<>>
    /\ node = "decide" =>
         iteration <= max_iterations /\ iteration = assets + Len(observations)
    /\ node = "execute_tool" =>
         /\ iteration <= max_iterations /\ iteration = assets + Len(observations) + 1
         /\ \/ decision = "generate" /\ phase \in {"decide", "replan"}
            \/ decision = "evaluate" /\ phase = "evaluate"
    /\ node = "ask_user" => phase \notin {"plateau", "finish"}
    /\ node = "finalize" =>
         decision \in {"finish", "abort"} /\ (decision = "finish" <=> phase = "finish")
    /\ assets + Len(observations) <= max_iterations

Reasons ==
    /\ node = "end" =>
         /\ terminal_reason # "none"
         /\ terminal_reason = "quality_gate_passed" <=> phase = "finish"
         /\ terminal_reason = "needs_user" <=> waiting_for_user
    /\ node # "end" =>
         terminal_reason \in {"none", "quality_plateau"} /\ ~waiting_for_user
    /\ terminal_reason = "quality_plateau" <=> phase = "plateau"

(* An asset is evaluated before the next is generated.                      *)
Counting ==
    /\ assets = IF phase = "evaluate" THEN Len(observations) + 1 ELSE Len(observations)
    /\ \A i \in Seen : observations[i].asset = i

PassedAt(i) == Passes(observations[i].score, observations[i].compliant)

(* The loop stops at the first evaluation that passes.                      *)
Passing ==
    /\ phase = "finish" => Len(observations) > 0 /\ PassedAt(Len(observations))
    /\ \A i \in Seen : PassedAt(i) => i = Len(observations) /\ phase = "finish"

(* The plateau count is the number of evaluations at the end of the history *)
(* that improved nothing.                                                   *)
Stagnation ==
    LET n == Len(observations) IN
    /\ no_improvement_count = 0 <=> n = 0 \/ Improves(n)
    /\ no_improvement_count = 2 <=> n > 1 /\ ~Improves(n) /\ ~Improves(n - 1)
    /\ no_improvement_count = 2 => phase \in {"plateau", "finish"}
    /\ phase = "plateau" => no_improvement_count = 2

IInv ==
    TypeOK /\ Control /\ Reasons /\ Counting /\ Passing /\ Stagnation /\ BestOfHistory

-----------------------------------------------------------------------------
(* The steps that evaluate nothing.                                         *)

LEMMA Limits ==
    /\ max_iterations \in Iterations => max_iterations \in Nat /\ max_iterations >= 1
    /\ RecursionLimit \in Nat /\ MaxScore \in Nat /\ Threshold \in Nat
<1>1. Iterations \subseteq 1..20
  BY QualityLoopAssumption
<1>2. MaxScore \in Nat
  BY QualityLoopAssumption
<1>3. Threshold \in 0..MaxScore
  BY QualityLoopAssumption
<1>4. Threshold \in Nat
  BY <1>2, <1>3
<1>5. RecursionLimit \in Nat
  BY QualityLoopAssumption
<1>6. max_iterations \in Iterations => max_iterations \in 1..20
  BY <1>1
<1>7. max_iterations \in 1..20 => max_iterations \in Nat /\ max_iterations >= 1
  OBVIOUS
<1> QED
  BY <1>2, <1>4, <1>5, <1>6, <1>7

(* A history that is not added to keeps its bests, its passes and its       *)
(* stagnation, whatever the phase.                                          *)
LEMMA HistoryKept ==
    ASSUME UNCHANGED boardVars, BestOfHistory
    PROVE  /\ BestOfHistory'
           /\ Seen' = Seen
           /\ \A i : PassedAt(i)' <=> PassedAt(i)
           /\ \A i : Improves(i)' <=> Improves(i)
<1> USE DEF boardVars
<1>1. Seen' = Seen
  BY DEF Seen
<1>2. BestOfHistory'
  BY <1>1 DEF BestOfHistory, IsBestOf, Compliant, Seen
<1>3. \A i : PassedAt(i)' <=> PassedAt(i)
  BY DEF PassedAt, Passes
<1>4. \A i : Improves(i)' <=> Improves(i)
  BY DEF Improves
<1> QED
  BY <1>1, <1>2, <1>3, <1>4

LEMMA PhaseKept ==
    ASSUME IInv, UNCHANGED <<boardVars, phase, assets>>
    PROVE  Counting' /\ Passing' /\ Stagnation' /\ BestOfHistory'
<1> USE DEF boardVars
<1>1. Counting'
  BY DEF IInv, Counting, Seen
<1>2. Passing'
  BY DEF IInv, Passing, PassedAt, Passes, Seen
<1>3. Stagnation'
  BY DEF IInv, Stagnation, Improves
<1>4. BestOfHistory'
  BY HistoryKept DEF IInv
<1> QED
  BY <1>1, <1>2, <1>3, <1>4

LEMMA UnderstandStep ==
    ASSUME IInv, UnderstandGoal
    PROVE  IInv'
<1> USE DEF UnderstandGoal, Step, boardVars
<1>1. TypeOK'
  BY Limits DEF IInv, TypeOK
<1>2. Control' /\ Reasons'
  BY Limits DEF IInv, TypeOK, Control, Reasons
<1>3. Counting' /\ Passing'
  BY DEF IInv, Control, Counting, Passing, PassedAt, Passes, Seen
<1>4. Stagnation'
  BY DEF IInv, Control, Stagnation, Improves
<1>5. BestOfHistory'
  BY HistoryKept DEF IInv
<1> QED
  BY <1>1, <1>2, <1>3, <1>4, <1>5 DEF IInv

LEMMA DecideStep ==
    ASSUME IInv, Decide
    PROVE  IInv'
<1> USE DEF Decide, Step, boardVars
<1>1. /\ NextDecision \in {"generate", "evaluate", "ask_user", "finish", "abort"}
      /\ NextDecision = "finish" => phase = "finish"
      /\ phase = "finish" => NextDecision = "finish"
      /\ NextDecision \in {"generate", "evaluate", "ask_user"} =>
           iteration < max_iterations /\ phase \notin {"plateau", "finish"}
      /\ NextDecision = "generate" => phase \in {"decide", "replan"}
      /\ NextDecision = "evaluate" => phase = "evaluate"
  BY Limits DEF IInv, TypeOK, Reasons, NextDecision
<1>2. /\ RouteDecision(NextDecision) \in {"execute_tool", "ask_user", "finalize"}
      /\ RouteDecision(NextDecision) = "execute_tool" <=> NextDecision \in {"generate", "evaluate"}
      /\ RouteDecision(NextDecision) = "ask_user" <=> NextDecision = "ask_user"
  <2> DEFINE d == NextDecision
  <2>1. d \in {"generate", "evaluate", "ask_user", "finish", "abort"}
    BY <1>1
  <2> HIDE DEF d
  <2>2. /\ RouteDecision(d) \in {"execute_tool", "ask_user", "finalize"}
        /\ RouteDecision(d) = "execute_tool" <=> d \in {"generate", "evaluate"}
        /\ RouteDecision(d) = "ask_user" <=> d = "ask_user"
    BY <2>1 DEF RouteDecision
  <2> QED
    BY <2>2 DEF d
<1> DEFINE d == NextDecision
           n == RouteDecision(d)
<1>3. node' = n /\ decision' = d /\ node = "decide"
  OBVIOUS
<1> HIDE DEF d, n
<1>4. /\ d \in {"generate", "evaluate", "ask_user", "finish", "abort"}
      /\ d = "finish" <=> phase = "finish"
      /\ d \in {"generate", "evaluate", "ask_user"} =>
           iteration < max_iterations /\ phase \notin {"plateau", "finish"}
      /\ d = "generate" => phase \in {"decide", "replan"}
      /\ d = "evaluate" => phase = "evaluate"
      /\ n \in {"execute_tool", "ask_user", "finalize"}
      /\ n = "execute_tool" <=> d \in {"generate", "evaluate"}
      /\ n = "ask_user" <=> d = "ask_user"
  BY <1>1, <1>2 DEF d, n
<1>5. iteration \in Nat /\ iteration <= max_iterations /\ max_iterations \in Nat
  BY Limits DEF IInv, TypeOK, Control
<1>6. TypeOK'
  BY <1>3, <1>4, <1>5, Limits DEF IInv, TypeOK
<1>7. Control'
  BY <1>3, <1>4, <1>5 DEF IInv, TypeOK, Control
<1>8. Reasons'
  BY <1>3, <1>4 DEF IInv, Reasons
<1> QED
  BY <1>6, <1>7, <1>8, PhaseKept DEF IInv

LEMMA GenerateStep ==
    ASSUME IInv, Generate
    PROVE  IInv'
<1> USE DEF Generate, Step, boardVars
<1>1. /\ phase \in {"decide", "replan"} /\ assets = Len(observations)
      /\ iteration = assets + Len(observations) + 1 /\ iteration <= max_iterations
      /\ assets \in Nat /\ Len(observations) \in Nat /\ max_iterations \in Nat
  BY Limits DEF IInv, TypeOK, Control, Counting
<1>2. TypeOK'
  BY <1>1, Limits DEF IInv, TypeOK
<1>3. Control' /\ Reasons'
  BY <1>1 DEF IInv, TypeOK, Control, Reasons
<1>4. Counting'
  BY <1>1 DEF IInv, Counting, Seen
<1>5. Passing'
  BY <1>1 DEF IInv, Passing, PassedAt, Passes, Seen
<1>6. Stagnation'
  BY <1>1 DEF IInv, Stagnation, Improves
<1>7. BestOfHistory'
  BY HistoryKept DEF IInv
<1> QED
  BY <1>2, <1>3, <1>4, <1>5, <1>6, <1>7 DEF IInv

LEMMA AskUserStep ==
    ASSUME IInv, AskUser
    PROVE  IInv'
<1> USE DEF AskUser, Step
<1>1. TypeOK'
  BY Limits DEF IInv, TypeOK, boardVars
<1>2. Control' /\ Reasons'
  BY DEF IInv, Control, Reasons, boardVars
<1> QED
  BY <1>1, <1>2, PhaseKept DEF IInv

LEMMA FinalizeStep ==
    ASSUME IInv, Finalize
    PROVE  IInv'
<1> USE DEF Finalize, Step
<1>1. TypeOK'
  BY Limits DEF IInv, TypeOK, boardVars
<1>2. Control' /\ Reasons'
  BY DEF IInv, Control, Reasons, boardVars
<1> QED
  BY <1>1, <1>2, PhaseKept DEF IInv

LEMMA ExceptionStep ==
    ASSUME IInv, Raises \/ OutOfSupersteps
    PROVE  IInv'
<1> USE DEF Raises, OutOfSupersteps
<1>1. TypeOK'
  BY DEF IInv, TypeOK, boardVars
<1>2. Control' /\ Reasons'
  BY DEF IInv, Control, Reasons, boardVars
<1> QED
  BY <1>1, <1>2, PhaseKept DEF IInv

-----------------------------------------------------------------------------
(* The step that evaluates.                                                 *)

LEMMA Appended ==
    ASSUME NEW S, NEW s \in Seq(S), NEW e \in S
    PROVE  /\ Append(s, e) \in Seq(S)
           /\ Len(s) \in Nat /\ Len(Append(s, e)) = Len(s) + 1
           /\ DOMAIN s = 1..Len(s) /\ DOMAIN Append(s, e) = 1..(Len(s) + 1)
           /\ \A i \in 1..Len(s) : s[i] \in S /\ Append(s, e)[i] = s[i]
           /\ Append(s, e)[Len(s) + 1] = e
<1>1. Len(s) \in Nat /\ DOMAIN s = 1..Len(s)
  OBVIOUS
<1> QED
  BY <1>1

(* IsBestOf for a given history.                                            *)
BestIn(obs, best, S) ==
    IF S = {} THEN best = NoBest
    ELSE \E i \in S :
           /\ best = [asset |-> obs[i].asset, score |-> obs[i].score]
           /\ \A j \in S : /\ obs[j].score <= obs[i].score
                           /\ obs[j].score = obs[i].score => i <= j

(* The history a new evaluation is added to; e is the evaluation.           *)
Evaluated(obs, e) ==
    /\ obs \in Seq(Evaluations) /\ e \in Evaluations
    /\ \A i \in DOMAIN obs : obs[i].asset = i
    /\ e.asset = Len(obs) + 1

LEMMA EvaluatedParts ==
    ASSUME NEW obs, NEW e, Evaluated(obs, e)
    PROVE  /\ Len(obs) \in Nat
           /\ DOMAIN obs = 1..Len(obs) /\ DOMAIN Append(obs, e) = 1..(Len(obs) + 1)
           /\ \A i \in 1..Len(obs) : /\ Append(obs, e)[i] = obs[i] /\ obs[i].asset = i
                                     /\ obs[i].score \in Nat
           /\ Append(obs, e)[Len(obs) + 1] = e
           /\ e.asset = Len(obs) + 1 /\ e.score \in Nat
<1>1. /\ Len(obs) \in Nat
      /\ DOMAIN obs = 1..Len(obs) /\ DOMAIN Append(obs, e) = 1..(Len(obs) + 1)
      /\ \A i \in 1..Len(obs) : obs[i] \in Evaluations /\ Append(obs, e)[i] = obs[i]
      /\ Append(obs, e)[Len(obs) + 1] = e
  BY Appended DEF Evaluated
<1>2. \A x \in Evaluations : x.score \in Nat
  BY Limits DEF Evaluations
<1> QED
  BY <1>1, <1>2 DEF Evaluated

(* A best that is replaced when it is beaten is the best of the longer      *)
(* history; one that is left alone, of the same part of it.                 *)
LEMMA BestUpdated ==
    ASSUME NEW obs, NEW e, Evaluated(obs, e),
           NEW S \in SUBSET DOMAIN obs, NEW best, BestIn(obs, best, S)
    PROVE  /\ BestIn(Append(obs, e), best, S)
           /\ BestIn(Append(obs, e),
                     IF Beats(e.score, best) THEN [asset |-> e.asset, score |-> e.score]
                     ELSE best,
                     S \cup {Len(obs) + 1})
<1> DEFINE n == Len(obs)
           longer == Append(obs, e)
           T == S \cup {n + 1}
<1>1. /\ n \in Nat /\ S \subseteq 1..n
      /\ \A i \in 1..n : longer[i] = obs[i] /\ obs[i].asset = i /\ obs[i].score \in Nat
      /\ longer[n + 1] = e /\ e.asset = n + 1 /\ e.score \in Nat
  BY EvaluatedParts
<1> HIDE DEF n, longer
<1>2. BestIn(longer, best, S)
  BY <1>1 DEF BestIn
<1>3. CASE Beats(e.score, best)
  <2>1. \A j \in S : longer[j].score < e.score
    BY <1>1, <1>2, <1>3 DEF BestIn, Beats
  <2>2. BestIn(longer, [asset |-> e.asset, score |-> e.score], T)
    <3>1. \A j \in T : /\ longer[j].score <= longer[n + 1].score
                       /\ longer[j].score = longer[n + 1].score => n + 1 <= j
      BY <1>1, <2>1
    <3> QED
      BY <1>1, <3>1 DEF BestIn
  <2> QED
    BY <1>2, <1>3, <2>2 DEF longer, n
<1>4. CASE ~Beats(e.score, best)
  <2>1. S # {} /\ e.score <= best.score
    <3>1. best.asset # 0
      BY <1>4 DEF Beats
    <3>2. S # {}
      BY <1>2, <3>1 DEF BestIn, NoBest
    <3>3. best.score \in Nat
      BY <1>1, <1>2, <3>2 DEF BestIn
    <3> QED
      BY <1>1, <1>4, <3>2, <3>3 DEF Beats
  <2>2. BestIn(longer, best, T)
    <3>1. PICK i \in S : /\ best = [asset |-> longer[i].asset, score |-> longer[i].score]
                        /\ \A j \in S : /\ longer[j].score <= longer[i].score
                                        /\ longer[j].score = longer[i].score => i <= j
      BY <1>2, <2>1 DEF BestIn
    <3>2. \A j \in T : /\ longer[j].score <= longer[i].score
                       /\ longer[j].score = longer[i].score => i <= j
      BY <1>1, <2>1, <3>1
    <3> QED
      BY <3>1, <3>2 DEF BestIn
  <2> QED
    BY <1>2, <1>4, <2>2 DEF longer, n
<1> QED
  BY <1>3, <1>4

(* Beating the best of S by more than a step is beating all of S so.        *)
LEMMA MeaningfulMeans ==
    ASSUME NEW obs, NEW e, Evaluated(obs, e),
           NEW S \in SUBSET DOMAIN obs, NEW best, BestIn(obs, best, S)
    PROVE  Meaningful(e.score, best) <=> \A j \in S : e.score > obs[j].score + 1
<1>1. /\ S \subseteq 1..Len(obs) /\ Len(obs) \in Nat /\ e.score \in Nat
      /\ \A i \in 1..Len(obs) : obs[i].asset = i /\ obs[i].score \in Nat
  BY EvaluatedParts
<1>2. CASE S = {}
  BY <1>2 DEF Meaningful, BestIn, NoBest
<1>3. CASE S # {}
  <2>1. PICK i \in S : /\ best = [asset |-> obs[i].asset, score |-> obs[i].score]
                      /\ \A j \in S : obs[j].score <= obs[i].score
    BY <1>3 DEF BestIn
  <2>2. best.asset # 0 /\ best.score = obs[i].score
    BY <1>1, <2>1
  <2> QED
    BY <1>1, <2>1, <2>2 DEF Meaningful
<1> QED
  BY <1>2, <1>3

LEMMA EvaluateStep ==
    ASSUME IInv, Evaluate
    PROVE  IInv'
<1>0. PICK n \in Nat : n = Len(observations)
  BY DEF IInv, TypeOK
<1>1. /\ node = "execute_tool" /\ phase = "evaluate" /\ decision = "evaluate"
      /\ n \in Nat /\ assets = n + 1 /\ assets \in Nat
      /\ iteration = assets + n + 1 /\ iteration <= max_iterations
      /\ max_iterations \in Nat /\ iteration \in Nat
      /\ no_improvement_count \in {0, 1}
      /\ terminal_reason = "none" /\ ~waiting_for_user
  <2>1. node = "execute_tool" /\ decision = "evaluate"
    BY DEF Evaluate, Step
  <2>2. observations \in Seq(Evaluations)
    BY DEF IInv, TypeOK
  <2>3. n \in Nat
    BY <1>0
  <2>4. phase = "evaluate" /\ assets = n + 1
    BY <1>0, <2>1 DEF IInv, Control, Counting
  <2>5. no_improvement_count \in 0..2 /\ no_improvement_count # 2
    BY <2>4 DEF IInv, TypeOK, Stagnation, MAX_NO_IMPROVEMENT
  <2>6. iteration = assets + n + 1 /\ iteration <= max_iterations
    BY <1>0, <2>1 DEF IInv, Control
  <2>7. max_iterations \in Nat /\ iteration \in 0..(max_iterations + 1)
    BY Limits DEF IInv, TypeOK
  <2>8. terminal_reason = "none" /\ ~waiting_for_user
    BY <2>1, <2>4 DEF IInv, Reasons
  <2> QED
    BY <2>1, <2>3, <2>4, <2>5, <2>6, <2>7, <2>8
<1>2. PICK score \in 0..MaxScore, ok \in BOOLEAN :
        LET count == IF Meaningful(score, IF ok THEN compliant ELSE aesthetic)
                     THEN 0 ELSE no_improvement_count + 1
            plateau == ~Passes(score, ok) /\ count >= MAX_NO_IMPROVEMENT
        IN
        /\ observations' = Append(observations, [asset |-> assets, score |-> score,
                                                 compliant |-> ok])
        /\ Rank(score, ok)
        /\ no_improvement_count' = count
        /\ phase' = IF Passes(score, ok) THEN "finish"
                    ELSE IF plateau THEN "plateau" ELSE "replan"
        /\ terminal_reason' = IF plateau THEN "quality_plateau" ELSE terminal_reason
  BY DEF Evaluate
<1> DEFINE e == [asset |-> assets, score |-> score, compliant |-> ok]
           better == Meaningful(score, IF ok THEN compliant ELSE aesthetic)
           passes == Passes(score, ok)
           none == no_improvement_count
<1>3. /\ e \in Evaluations /\ e.asset = assets /\ e.score = score /\ e.compliant = ok
      /\ score \in Nat
  BY <1>1, Limits DEF Evaluations
<1>4. /\ observations' = Append(observations, e)
      /\ Rank(score, ok)
      /\ none' = IF better THEN 0 ELSE none + 1
      /\ none' \in {0, 1, 2}
      /\ phase' = IF passes THEN "finish" ELSE IF none' = 2 THEN "plateau" ELSE "replan"
      /\ terminal_reason' = IF ~passes /\ none' = 2 THEN "quality_plateau" ELSE "none"
  BY <1>1, <1>2 DEF MAX_NO_IMPROVEMENT
<1>5. /\ node' = "decide" /\ supersteps' = supersteps + 1 /\ supersteps < RecursionLimit
      /\ UNCHANGED <<max_iterations, task_type, iteration, decision, assets, waiting_for_user>>
  BY DEF Evaluate, Step
<1> HIDE DEF e, better, passes
<1>6. Evaluated(observations, e)
  BY <1>0, <1>1, <1>3 DEF Evaluated, IInv, TypeOK, Counting, Seen
<1>7. /\ observations' \in Seq(Evaluations) /\ Len(observations') = n + 1
      /\ Seen = 1..n /\ Seen' = 1..(n + 1)
      /\ \A i \in 1..n : observations'[i] = observations[i]
      /\ observations'[n + 1] = e
  BY <1>0, <1>3, <1>4, Appended DEF IInv, TypeOK, Seen
<1>8. Compliant \subseteq Seen /\ Seen' = Seen \cup {n + 1}
  BY <1>1, <1>7 DEF Compliant
<1>9. Compliant' = IF ok THEN Compliant \cup {n + 1} ELSE Compliant
  BY <1>1, <1>3, <1>7 DEF Compliant
<1>10. BestIn(observations, aesthetic, Seen) /\ BestIn(observations, compliant, Compliant)
  BY DEF IInv, BestOfHistory, IsBestOf, BestIn
<1>11. Seen \in SUBSET DOMAIN observations /\ Compliant \in SUBSET DOMAIN observations
  BY <1>8 DEF Seen
<1>12. /\ aesthetic' = IF Beats(score, aesthetic) THEN [asset |-> assets, score |-> score]
                       ELSE aesthetic
       /\ compliant' = IF ok /\ Beats(score, compliant) THEN [asset |-> assets, score |-> score]
                       ELSE compliant
  BY <1>4 DEF Rank
<1>13. BestOfHistory'
  <2>1. BestIn(observations', aesthetic', Seen')
    BY <1>0, <1>3, <1>4, <1>6, <1>8, <1>10, <1>11, <1>12, BestUpdated
  <2>2. BestIn(observations', compliant', Compliant')
    <3>1. CASE ok
      BY <3>1, <1>0, <1>3, <1>4, <1>6, <1>9, <1>10, <1>11, <1>12, BestUpdated
    <3>2. CASE ~ok
      BY <3>2, <1>0, <1>4, <1>6, <1>9, <1>10, <1>11, <1>12, BestUpdated
    <3> QED
      BY <3>1, <3>2
  <2> QED
    BY <2>1, <2>2 DEF BestOfHistory, IsBestOf, BestIn
<1>14. better <=> Improves(n + 1)'
  <2>1. better <=> \A j \in (IF ok THEN Compliant ELSE Seen) :
                     score > observations[j].score + 1
    BY <1>2, <1>3, <1>6, <1>10, <1>11, MeaningfulMeans DEF better
  <2>2. (\A j \in (IF ok THEN Compliant ELSE Seen) : score > observations[j].score + 1)
        <=> \A j \in 1..n : (ok => observations[j].compliant) =>
                             score > observations[j].score + 1
    BY <1>2, <1>7 DEF Compliant
  <2>3. Improves(n + 1)' <=> \A j \in 1..n : (ok => observations[j].compliant) =>
                                            score > observations[j].score + 1
    BY <1>1, <1>3, <1>7 DEF Improves
  <2> QED
    BY <2>1, <2>2, <2>3
<1>15. n > 0 => (Improves(n)' <=> Improves(n))
  BY <1>1, <1>7 DEF Improves
<1>16. Stagnation'
  <2>1. none = 0 <=> n = 0 \/ Improves(n)
    BY <1>0 DEF IInv, Stagnation
  <2>2. none' = 0 <=> Improves(n + 1)'
    BY <1>1, <1>4, <1>14
  <2>3. none' = 2 <=> n > 0 /\ ~Improves(n + 1)' /\ ~Improves(n)'
    BY <1>1, <1>4, <1>14, <1>15, <2>1
  <2>4. none' = 2 => phase' \in {"plateau", "finish"}
    BY <1>4
  <2>5. phase' = "plateau" => none' = 2
    BY <1>4
  <2>6. Len(observations') = n + 1 /\ (n + 1) - 1 = n /\ (n + 1 > 1 <=> n > 0) /\ n + 1 # 0
    BY <1>1, <1>7
  <2> HIDE DEF none
  <2> QED
    BY <2>2, <2>3, <2>4, <2>5, <2>6 DEF Stagnation, none
<1>17. Passing'
  <2>1. \A i \in 1..n : ~PassedAt(i)
    BY <1>0, <1>1, <1>7 DEF IInv, Passing
  <2>2. \A i \in 1..n : ~PassedAt(i)'
    BY <1>7, <2>1 DEF PassedAt, Passes
  <2>3. PassedAt(n + 1)' <=> passes
    BY <1>3, <1>7 DEF PassedAt, Passes, passes
  <2>4. phase' = "finish" <=> passes
    BY <1>4
  <2>5. \A i \in 1..(n + 1) : i \in 1..n \/ i = n + 1
    BY <1>1
  <2> QED
    BY <1>1, <1>7, <2>2, <2>3, <2>4, <2>5 DEF Passing
<1>18. Counting'
  <2>1. phase' # "evaluate"
    BY <1>4
  <2>2. \A i \in 1..(n + 1) : observations'[i].asset = i
    BY <1>1, <1>3, <1>7 DEF IInv, Counting
  <2> QED
    BY <1>1, <1>5, <1>7, <2>1, <2>2 DEF Counting
<1>19. Control' /\ Reasons'
  BY <1>1, <1>4, <1>5, <1>7 DEF Control, Reasons
<1>20. TypeOK'
  <2>1. aesthetic' \in Bests /\ compliant' \in Bests
    BY <1>1, <1>2, <1>12 DEF IInv, TypeOK, Bests
  <2>2. supersteps' \in 0..RecursionLimit
    BY <1>5, Limits DEF IInv, TypeOK
  <2>3. no_improvement_count' \in 0..MAX_NO_IMPROVEMENT
    BY <1>4 DEF MAX_NO_IMPROVEMENT
  <2>4. phase' \in {"finish", "plateau", "replan"} /\ terminal_reason' \in {"none", "quality_plateau"}
    BY <1>4
  <2> QED
    BY <1>1, <1>5, <1>7, <2>1, <2>2, <2>3, <2>4 DEF IInv, TypeOK
<1> QED
  BY <1>13, <1>16, <1>17, <1>18, <1>19, <1>20 DEF IInv

-----------------------------------------------------------------------------
(* The theorems.                                                            *)

LEMMA IInvInit == Init => IInv
<1> SUFFICES ASSUME Init
             PROVE  IInv
  OBVIOUS
<1>1. TypeOK
  <2>1. observations \in Seq(Evaluations) /\ NoBest \in Bests
    BY Limits DEF Init, NoBest, Bests
  <2>2. max_iterations \in Nat /\ RecursionLimit \in Nat
    BY Limits DEF Init
  <2>3. 0 \in 0..RecursionLimit /\ 0 \in 0..(max_iterations + 1) /\ 0 \in 0..2
    BY <2>2
  <2> QED
    BY <2>1, <2>3 DEF Init, TypeOK, MAX_NO_IMPROVEMENT
<1>2. Len(observations) = 0 /\ Seen = {} /\ Compliant = {}
  BY DEF Init, Seen, Compliant
<1>3. Control /\ Reasons /\ Counting /\ Passing
  BY <1>2, Limits DEF Init, Control, Reasons, Counting, Passing
<1>4. Stagnation /\ BestOfHistory
  BY <1>2 DEF Init, Stagnation, BestOfHistory, IsBestOf
<1> QED
  BY <1>1, <1>3, <1>4 DEF IInv

LEMMA IInvStep == IInv /\ [Next]_vars => IInv'
<1> SUFFICES ASSUME IInv, [Next]_vars
             PROVE  IInv'
  OBVIOUS
<1>1. CASE UnderstandGoal
  BY <1>1, UnderstandStep
<1>2. CASE Decide
  BY <1>2, DecideStep
<1>3. CASE Generate
  BY <1>3, GenerateStep
<1>4. CASE Evaluate
  BY <1>4, EvaluateStep
<1>5. CASE AskUser
  BY <1>5, AskUserStep
<1>6. CASE Finalize
  BY <1>6, FinalizeStep
<1>7. CASE Raises \/ OutOfSupersteps
  BY <1>7, ExceptionStep
<1>8. CASE UNCHANGED vars
  <2>1. TypeOK' /\ Control' /\ Reasons'
    BY <1>8 DEF vars, boardVars, IInv, TypeOK, Control, Reasons
  <2>2. Counting' /\ Passing' /\ Stagnation' /\ BestOfHistory'
    BY <1>8, PhaseKept DEF vars, boardVars
  <2> QED
    BY <2>1, <2>2 DEF IInv
<1> QED
  BY <1>1, <1>2, <1>3, <1>4, <1>5, <1>6, <1>7, <1>8 DEF Next

(* Everything the nodes know of each other's work holds in every state.     *)
THEOREM Invariance == Spec => []IInv
BY IInvInit, IInvStep, PTL DEF Spec

(* Counters, reasons, histories and bests keep their types, and iterations  *)
(* and stagnation their limits, whatever the tools answer.                  *)
THEOREM TypeCorrect == Spec => []TypeOK
<1>1. IInv => TypeOK
  BY DEF IInv
<1> QED
  BY <1>1, Invariance, PTL

(* The running bests of execute_tool are the bests of the whole history,    *)
(* compliant and aesthetic apart, and the first of equals.                  *)
THEOREM BestIsBest == Spec => []BestOfHistory
<1>1. IInv => BestOfHistory
  BY DEF IInv
<1> QED
  BY <1>1, Invariance, PTL

(* decide gives up for stagnation when two evaluations in a row brought     *)
(* nothing and neither passed, never sooner and never later.                *)
THEOREM PlateauIsStagnation == Spec => []PlateauIsReal
<1>1. IInv => PlateauIsReal
  <2> SUFFICES ASSUME IInv, phase \in {"replan", "plateau"}
               PROVE  phase = "plateau" <=> no_improvement_count = 2
    BY DEF IInv, Stagnation, PlateauIsReal
  <2> QED
    BY DEF IInv, Stagnation
<1> QED
  BY <1>1, Invariance, PTL

(* run_task says completed exactly of a loop that ended because its last    *)
(* asset passed, and delivers that asset.                                   *)
THEOREM CompletedIsPassed == Spec => []CompletedMeansPassed
<1>1. IInv => CompletedMeansPassed
  <2> SUFFICES ASSUME IInv, node = "end"
               PROVE  Status = "completed" <=>
                        /\ observations # <<>>
                        /\ Passes(Last(observations).score, Last(observations).compliant)
                        /\ BestAsset = assets
    BY DEF CompletedMeansPassed
  <2> DEFINE n == Len(observations)
  <2>1. n \in Nat /\ Seen = 1..n /\ Last(observations) = observations[n]
        /\ (n = 0 <=> observations = <<>>)
    BY DEF IInv, TypeOK, Seen, Last
  <2>2. Status = "completed" <=> phase = "finish"
    BY DEF IInv, Reasons, TypeOK, Status
  <2>3. phase = "finish" <=> n > 0 /\ PassedAt(n)
    BY <2>1 DEF IInv, Passing
  <2>4. phase = "finish" => BestAsset = assets
    <3> SUFFICES ASSUME phase = "finish"
                 PROVE  BestAsset = assets
      OBVIOUS
    <3>1. n \in Compliant /\ assets = n /\ n > 0
      BY <2>1, <2>3 DEF Compliant, PassedAt, Passes, IInv, Counting
    <3>2. PICK i \in Compliant :
            /\ compliant = [asset |-> observations[i].asset, score |-> observations[i].score]
            /\ \A j \in Compliant : observations[j].score <= observations[i].score
      BY <3>1 DEF IInv, BestOfHistory, IsBestOf
    <3>3. i \in 1..n /\ observations[i].compliant
      BY <2>1 DEF Compliant
    <3>4. \A j \in 1..n : observations[j].score \in Nat
      <4>1. \A x \in Evaluations : x.score \in Nat
        BY Limits DEF Evaluations
      <4> QED
        BY <4>1, <2>1 DEF IInv, TypeOK
    <3>5. PassedAt(i)
      BY <2>1, <2>3, <3>1, <3>2, <3>3, <3>4, Limits DEF PassedAt, Passes
    <3>6. i = n
      BY <2>1, <3>3, <3>5 DEF IInv, Passing
    <3>7. compliant.asset = n
      BY <2>1, <3>2, <3>3, <3>6 DEF IInv, Counting
    <3> QED
      BY <3>1, <3>7 DEF BestAsset
  <2> QED
    BY <2>1, <2>2, <2>3, <2>4 DEF PassedAt
<1> QED
  BY <1>1, Invariance, PTL

(* Assets are evaluated once and in order, and all tool calls stay within   *)
(* the iterations of the request.                                           *)
THEOREM WithinBudget == Spec => []BudgetKept
<1>1. IInv => BudgetKept
  BY DEF IInv, Control, Counting, BudgetKept
<1> QED
  BY <1>1, Invariance, PTL
=============================================================================
