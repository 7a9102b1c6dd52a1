---------------------- MODULE CampaignDirector_proofs ----------------------
(***************************************************************************)
(* Theorems about CampaignDirector: the types, and that reviews, plans and *)
(* checkpoint stay in step with the assets, for all constants, any number  *)
(* of failures, crashes and resumed runs.                                  *)
(***************************************************************************)
EXTENDS CampaignDirector, SequenceTheorems, WellFoundedInduction, TLAPS

(* A non-empty set of numbers has its minimum as a member.                  *)
LEMMA MinIsMember ==
    ASSUME NEW S, S \subseteq Nat, S # {}
    PROVE  Min(S) \in S
<1> DEFINE Less == OpToRel(<, Nat)
<1>1. PICK x \in S : \A y \in S : ~(<<y, x>> \in Less)
  BY NatLessThanWellFounded, WFMin
<1>2. ASSUME NEW y \in S, y < x PROVE <<y, x>> \in Less
  <2>1. y \in Nat /\ x \in Nat OBVIOUS
  <2>2. <<y, x>> \in {p \in Nat \X Nat : p[1] < p[2]} BY <1>2, <2>1
  <2> QED BY <2>2 DEF OpToRel
<1> HIDE DEF Less
<1>3. \A y \in S : ~(y < x)
  BY <1>1, <1>2
<1>4. \A y \in S : x <= y
  BY <1>3
<1> QED BY <1>4 DEF Min

(* Both budgets of _execute are positive.                                   *)
LEMMA Budgets ==
    /\ MaxRounds \in Nat /\ MaxRounds > 0
    /\ MaxGenerations \in Nat /\ MaxGenerations > 0
<1>1. Len(RequestFormats) \in Nat /\ Len(RequestFormats) > 0
  BY CampaignAssumption, LenProperties, EmptySeq
<1>2. MaxIterations \in Nat /\ MaxIterations > 0
  BY CampaignAssumption
<1> QED BY <1>1, <1>2 DEF MaxRounds, MaxGenerations

-----------------------------------------------------------------------------
(* The parts of a campaign.                                                 *)

LEMMA Parts ==
    ASSUME NEW c \in Campaigns
    PROVE  /\ c.formats \in Seq(Formats)
           /\ c.strategies \in Seq(Nat) /\ c.selected \in Nat
           /\ c.layouts \in Layouts /\ c.layouts.formats \in Seq(Formats)
           /\ c.assets \in Seq(Assets) /\ c.evaluations \in Seq(Nat)
           /\ c.quality \in Seq(Reviews) /\ c.compliance \in Seq(Reviews)
           /\ c.plan \in [made : BOOLEAN, tasks : Seq(Targets)]
           /\ c.plan.tasks \in Seq(Targets)
           /\ c.conflicts \in Seq([asset : Nat, issue : {"veto", "quality"}])
           /\ c.rounds \in 0..MaxRounds /\ c.generations \in 0..MaxGenerations
           /\ Latest(c) \in Nat
  BY DEF Campaigns, Layouts, Latest

(* The last of some reviews is a review.                                    *)
LEMMA LastReview ==
    ASSUME NEW reviews \in Seq(Reviews), reviews # <<>>
    PROVE  Last(reviews) \in Reviews
<1>1. Len(reviews) \in 1..Len(reviews)
  BY EmptySeq, LenProperties
<1> QED BY <1>1, ElementOfSeq DEF Last

(* The findings of two reviews are a list of specialists.                   *)
LEMMA FindingsTyped ==
    ASSUME NEW c \in Campaigns, BothReviewed(c)
    PROVE  Findings(c) \in Seq(Targets)
<1>1. Last(c.quality) \in Reviews /\ Last(c.compliance) \in Reviews
  BY LastReview, Parts DEF BothReviewed, ReviewedLast
<1>2. Last(c.quality).findings \in Seq(Targets)
      /\ Last(c.compliance).findings \in Seq(Targets)
  BY <1>1 DEF Reviews
<1> QED BY <1>2, ConcatProperties DEF Findings

(* A revision plan is a plan: at most three of the findings.                *)
LEMMA PlanTyped ==
    ASSUME NEW c \in Campaigns, BothReviewed(c)
    PROVE  BuildRevisionPlan(c) \in [made : BOOLEAN, tasks : Seq(Targets)]
<1> DEFINE f == Findings(c)
           n == IF Len(f) < 3 THEN Len(f) ELSE 3
<1>1. f \in Seq(Targets)
  BY FindingsTyped
<1> HIDE DEF f
<1>2. Len(f) \in Nat
  BY <1>1, LenProperties
<1>3. n \in Nat /\ n <= Len(f)
  BY <1>2
<1> HIDE DEF n
<1>4. SubSeq(f, 1, n) \in Seq(Targets)
  <2>1. \A i \in 1..n : f[i] \in Targets
    <3> TAKE i \in 1..n
    <3>1. i \in 1..Len(f) BY <1>2, <1>3
    <3> QED BY <3>1, <1>1, ElementOfSeq
  <2> QED BY <2>1, <1>1, <1>3, SubSeqProperties
<1>5. [made |-> TRUE, tasks |-> SubSeq(f, 1, n)]
        \in [made : BOOLEAN, tasks : Seq(Targets)]
  BY <1>4
<1> QED BY <1>5 DEF BuildRevisionPlan, f, n

(* select_strategy selects one of three strategies.                         *)
LEMMA StrategyTyped ==
    ASSUME NEW s \in Seq(Nat), Len(s) = 3
    PROVE  SelectStrategy(s) \in 1..3
<1>1. DOMAIN s = {1, 2, 3}
  BY LenProperties
<1>2. s[1] \in Nat /\ s[2] \in Nat /\ s[3] \in Nat
  BY ElementOfSeq
<1>3. \E i \in DOMAIN s :
         \A j \in DOMAIN s : s[j] <= s[i] /\ (s[j] = s[i] => i <= j)
  BY <1>1, <1>2
<1>4. SelectStrategy(s) \in DOMAIN s
  BY <1>3 DEF SelectStrategy
<1> QED BY <1>4, <1>1

-----------------------------------------------------------------------------
(* The steps of the director.  Each keeps the type of the campaign; what it *)
(* leaves alone of the campaign follows from its definition.                *)

(* c and d have the same assets, evaluations and reviews.                   *)
SameReviews(c, d) ==
    /\ d.assets = c.assets /\ d.evaluations = c.evaluations
    /\ d.quality = c.quality /\ d.compliance = c.compliance

(* c and d differ in what the director writes at most.                      *)
SameWork(c, d) == Contributed(c) = Contributed(d)

(* Being in step is a matter of the reviews only,                           *)
LEMMA SameInStep ==
    ASSUME NEW c, NEW d, SameReviews(c, d), InStep(c)
    PROVE  InStep(d)
  BY DEF SameReviews, InStep, Latest

(* and so are the verdicts.                                                 *)
LEMMA SameVerdicts ==
    ASSUME NEW c, NEW d, SameReviews(c, d)
    PROVE  /\ BothReviewed(d) <=> BothReviewed(c)
           /\ BothPassed(d) <=> BothPassed(c)
           /\ Latest(d) = Latest(c)
  BY DEF SameReviews, BothReviewed, BothPassed, Latest

(* Selecting a strategy writes the selection, once.                         *)
LEMMA SelectEffect ==
    ASSUME NEW c \in Campaigns, Len(c.strategies) \in {0, 3}
    PROVE  /\ Select(c) \in Campaigns
           /\ Select(c) = [c EXCEPT !.selected = Select(c).selected]
           /\ c.selected # 0 => Select(c) = c
           /\ c.strategies # <<>> => Select(c).selected # 0
<1>1. CASE c.strategies # <<>> /\ c.selected = 0
  <2>1. Len(c.strategies) = 3
    BY <1>1, Parts, EmptySeq
  <2>2. SelectStrategy(c.strategies) \in 1..3
    BY <2>1, Parts, StrategyTyped
  <2>3. Select(c) = [c EXCEPT !.selected = SelectStrategy(c.strategies)]
    BY <1>1 DEF Select
  <2>4. SelectStrategy(c.strategies) \in Nat /\ SelectStrategy(c.strategies) # 0
    BY <2>2
  <2> QED BY <1>1, <2>3, <2>4 DEF Campaigns
<1>2. CASE ~(c.strategies # <<>> /\ c.selected = 0)
  <2>1. Select(c) = c
    BY <1>2 DEF Select
  <2> QED BY <1>2, <2>1 DEF Campaigns
<1> QED BY <1>1, <1>2

(* Planning writes the plan, unless there is one.                           *)
LEMMA PlanEffect ==
    ASSUME NEW c \in Campaigns, PlanCurrent(c)
    PROVE  /\ Plan(c) \in Campaigns
           /\ Plan(c) = [c EXCEPT !.plan = Plan(c).plan]
           /\ PlanCurrent(Plan(c))
           /\ c.plan.made => Plan(c) = c
<1>1. CASE BothReviewed(c) /\ ~BothPassed(c) /\ ~c.plan.made
  <2>1. BuildRevisionPlan(c) \in [made : BOOLEAN, tasks : Seq(Targets)]
    BY <1>1, PlanTyped
  <2>2. Plan(c) = [c EXCEPT !.plan = BuildRevisionPlan(c)]
    BY <1>1 DEF Plan
  <2>3. Plan(c) \in Campaigns /\ SameReviews(c, Plan(c))
    BY <2>1, <2>2 DEF Campaigns, SameReviews
  <2>4. PlanCurrent(Plan(c))
    BY <1>1, <2>3, SameVerdicts DEF PlanCurrent
  <2> QED BY <1>1, <2>2, <2>3, <2>4 DEF Campaigns
<1>2. CASE ~(BothReviewed(c) /\ ~BothPassed(c) /\ ~c.plan.made)
  <2>1. Plan(c) = c
    BY <1>2 DEF Plan
  <2> QED BY <2>1 DEF Campaigns
<1> QED BY <1>1, <1>2

(* Counting a round stays within the budget of rounds.                      *)
LEMMA CountRoundEffect ==
    ASSUME NEW c \in Campaigns, c.rounds < MaxRounds
    PROVE  /\ CountRound(c) \in Campaigns
           /\ CountRound(c) = [c EXCEPT !.rounds = c.rounds + 1]
<1>1. c.rounds + 1 \in 0..MaxRounds
  BY Budgets, Parts
<1>2. CountRound(c) = [c EXCEPT !.rounds = c.rounds + 1]
  BY DEF CountRound
<1> QED BY <1>1, <1>2 DEF Campaigns

(* Append leaves the list as it was before the new element.                 *)
LEMMA AppendSubSeq ==
    ASSUME NEW S, NEW s \in Seq(S), NEW x \in S
    PROVE  SubSeq(Append(s, x), 1, Len(s)) = s
<1> DEFINE t == Append(s, x)
           u == SubSeq(t, 1, Len(s))
<1>1. /\ Len(s) \in Nat /\ t \in Seq(S) /\ Len(t) = Len(s) + 1
      /\ \A i \in 1..Len(s) : t[i] = s[i] /\ s[i] \in S
  BY LenProperties, AppendProperties, ElementOfSeq
<1> HIDE DEF t
<1>2. /\ u \in Seq(S) /\ Len(u) = Len(s)
      /\ \A i \in 1..Len(s) : u[i] = t[i]
  <2>1. \A i \in 1..Len(s) : t[i] \in S
    BY <1>1
  <2>2. /\ SubSeq(t, 1, Len(s)) \in Seq(S)
        /\ Len(SubSeq(t, 1, Len(s))) = IF 1 <= Len(s) THEN Len(s) - 1 + 1 ELSE 0
        /\ \A i \in 1..(Len(s) - 1 + 1) : SubSeq(t, 1, Len(s))[i] = t[1 + i - 1]
    BY <1>1, <2>1, SubSeqProperties
  <2> QED BY <1>1, <2>2
<1> HIDE DEF u
<1>3. u = s
  BY <1>1, <1>2, SeqEqual
<1> QED BY <1>3 DEF u, t

(* Resolving a conflict adds to the conflicts at most.                      *)
LEMMA ResolveEffect ==
    ASSUME NEW c \in Campaigns
    PROVE  /\ Resolve(c) \in Campaigns
           /\ Resolve(c) = [c EXCEPT !.conflicts = Resolve(c).conflicts]
           /\ IsPrefix(c.conflicts, Resolve(c).conflicts)
<1> DEFINE Records == [asset : Nat, issue : {"veto", "quality"}]
<1>0. c.conflicts \in Seq(Records)
  BY Parts
<1>1. CASE InConflict(c) /\ Conflict(c) \notin ToSet(c.conflicts)
  <2>1. Last(c.quality) \in Reviews
    BY <1>1, LastReview, Parts DEF InConflict
  <2>2. Conflict(c) \in Records
    BY <2>1 DEF Conflict, Reviews
  <2>3. Append(c.conflicts, Conflict(c)) \in Seq(Records)
    BY <1>0, <2>2, AppendProperties
  <2>4. IsPrefix(c.conflicts, Append(c.conflicts, Conflict(c)))
    <3>1. Len(c.conflicts) \in Nat
          /\ Len(Append(c.conflicts, Conflict(c))) = Len(c.conflicts) + 1
      BY <1>0, <2>2, LenProperties, AppendProperties
    <3>2. SubSeq(c.conflicts, 1, Len(c.conflicts)) = c.conflicts
      BY <1>0, SubSeqFull
    <3>3. SubSeq(Append(c.conflicts, Conflict(c)), 1, Len(c.conflicts)) = c.conflicts
      BY <1>0, <2>2, AppendSubSeq
    <3> QED BY <3>1, <3>2, <3>3 DEF IsPrefix
  <2>5. Resolve(c) = [c EXCEPT !.conflicts = Append(c.conflicts, Conflict(c))]
    BY <1>1 DEF Resolve
  <2> QED BY <2>3, <2>4, <2>5 DEF Campaigns
<1>2. CASE ~(InConflict(c) /\ Conflict(c) \notin ToSet(c.conflicts))
  <2>1. Resolve(c) = c
    BY <1>2 DEF Resolve
  <2>2. IsPrefix(c.conflicts, c.conflicts)
    BY <1>0, LenProperties DEF IsPrefix
  <2> QED BY <2>1, <2>2 DEF Campaigns
<1> QED BY <1>1, <1>2

-----------------------------------------------------------------------------
(* What the director's decision says about the campaign it was made on.     *)

(* When the latest asset is reviewed there is a review for each asset,      *)
LEMMA ReviewedCount ==
    ASSUME NEW c \in Campaigns, InStep(c), BothReviewed(c)
    PROVE  Latest(c) = Len(c.quality)
<1>1. Len(c.quality) \in 1..Len(c.quality)
  BY Parts, EmptySeq DEF BothReviewed, ReviewedLast
<1> QED BY <1>1 DEF InStep, BothReviewed, ReviewedLast, Last

(* otherwise one review is missing.                                         *)
LEMMA UnreviewedCount ==
    ASSUME NEW c \in Campaigns, InStep(c), c.assets # <<>>, ~BothReviewed(c)
    PROVE  Latest(c) = Len(c.quality) + 1
<1>1. /\ Latest(c) \in Nat \ {0} /\ Len(c.quality) \in Nat
      /\ Len(c.compliance) = Len(c.quality)
      /\ Len(c.quality) <= Latest(c) /\ Latest(c) <= Len(c.quality) + 1
  <2>1. Latest(c) \in Nat \ {0}
    BY Parts, EmptySeq DEF Latest
  <2>2. Len(c.quality) \in Nat /\ Len(c.evaluations) \in Nat
    BY Parts, LenProperties
  <2> QED BY <2>1, <2>2 DEF InStep
<1>2. CASE Len(c.quality) = Latest(c)
  <2>1. Len(c.quality) \in 1..Len(c.quality)
    BY <1>1, <1>2
  <2>2. /\ c.quality[Len(c.quality)].asset = Latest(c)
        /\ c.compliance[Len(c.compliance)].asset = Latest(c)
    BY <1>1, <1>2, <2>1 DEF InStep
  <2>3. c.quality # <<>> /\ c.compliance # <<>>
    BY <1>1, <1>2, EmptySeq
  <2> QED BY <2>2, <2>3 DEF BothReviewed, ReviewedLast, Last
<1> QED BY <1>1, <1>2

(* The same for evaluations.                                                *)
LEMMA EvaluatedCount ==
    ASSUME NEW c \in Campaigns, InStep(c), c.assets # <<>>
    PROVE  IF Evaluated(c, Latest(c)) THEN Len(c.evaluations) = Latest(c)
                                      ELSE Latest(c) = Len(c.evaluations) + 1
<1>1. /\ Latest(c) \in Nat \ {0} /\ Len(c.evaluations) \in Nat
      /\ Len(c.evaluations) <= Latest(c) /\ Latest(c) <= Len(c.evaluations) + 1
  <2>1. Latest(c) \in Nat \ {0}
    BY Parts, EmptySeq DEF Latest
  <2>2. Len(c.quality) \in Nat /\ Len(c.evaluations) \in Nat
    BY Parts, LenProperties
  <2> QED BY <2>1, <2>2 DEF InStep
<1>2. DOMAIN c.evaluations = 1..Len(c.evaluations)
  BY Parts, LenProperties
<1>3. \A i \in DOMAIN c.evaluations : c.evaluations[i] = i
  BY DEF InStep
<1>4. Evaluated(c, Latest(c)) <=> Latest(c) \in 1..Len(c.evaluations)
  BY <1>2, <1>3 DEF Evaluated, ToSet
<1> QED BY <1>1, <1>4

(* A revision goes to one of the two specialists that revise.               *)
LEMMA TargetTyped ==
    ASSUME NEW c \in Campaigns, BothReviewed(c)
    PROVE  RevisionTarget(c) \in Targets
<1>1. Findings(c) \in Seq(Targets)
  BY FindingsTyped
<1> QED BY <1>1, HeadTailProperties DEF RevisionTarget, Targets

(* Where a decision on c may send the graph.                                *)
Admits(c, n) ==
    /\ n # "end" => c.rounds < MaxRounds
    /\ n \in Working => c.generations < MaxGenerations
    /\ n = "brief" => c.brief = "none"
    /\ n = "layout" => c.brief # "none"
    /\ n = "strategy_panel" => c.strategies = <<>>
    /\ n = "generation" => c.layouts.formats # <<>> /\ Latest(c) = Len(c.quality)
    /\ n = "evaluation" => Latest(c) = Len(c.evaluations) + 1
    /\ n = "review_panel" => /\ Latest(c) = Len(c.evaluations)
                             /\ Latest(c) = Len(c.quality) + 1

(* The early returns of decide leave these facts about its outcome.         *)
LEMMA DecideEffect ==
    ASSUME NEW c \in Campaigns, InStep(c), PlanCurrent(c)
    PROVE  /\ Decide(c).node \in Working \cup {"end", "raised"}
           /\ Admits(c, Decide(c).node)
           /\ Decide(c).node = "end" =>
                Decide(c).status \in {"waiting_for_user", "waiting_for_review",
                                      "completed", "aborted"}
           /\ Decide(c).node = "end"
                /\ Decide(c).status \in {"completed", "waiting_for_review"} =>
                c.layouts.formats # <<>> /\ AllFormatsPassed(c)
<1> DEFINE n == Decide(c).node
           ok == {"waiting_for_user", "waiting_for_review", "completed", "aborted"}
           done == c.layouts.formats # <<>> /\ AllFormatsPassed(c)
<1>0. /\ c.rounds \in Nat /\ c.generations \in Nat
      /\ MaxRounds \in Nat /\ MaxGenerations \in Nat
  BY Parts, Budgets
<1>1. CASE Exhausted(c)
  BY <1>1 DEF Decide, Stop, Admits, Working
<1>2. CASE ~Exhausted(c) /\ n \in {"end", "raised", "brief", "layout", "strategy_panel"}
           /\ (n = "brief" => c.brief = "none")
           /\ (n = "layout" => c.brief # "none")
           /\ (n = "strategy_panel" => c.strategies = <<>>)
           /\ (n = "end" => Decide(c).status \in ok)
           /\ (n = "end" /\ Decide(c).status \in {"completed", "waiting_for_review"}
               => done)
  BY <1>0, <1>2 DEF Admits, Exhausted, Working
<1>3. CASE ~Exhausted(c) /\ n = "generation" /\ c.layouts.formats # <<>>
           /\ Latest(c) = Len(c.quality)
  BY <1>0, <1>3 DEF Admits, Exhausted, Working
<1>4. CASE ~Exhausted(c) /\ n = "evaluation" /\ c.assets # <<>>
           /\ ~Evaluated(c, Latest(c))
  BY <1>0, <1>4, EvaluatedCount DEF Admits, Exhausted, Working
<1>5. CASE ~Exhausted(c) /\ n = "review_panel" /\ c.assets # <<>>
           /\ Evaluated(c, Latest(c)) /\ ~BothReviewed(c)
  BY <1>0, <1>5, EvaluatedCount, UnreviewedCount DEF Admits, Exhausted, Working
<1>6. CASE ~Exhausted(c)
  <2>1. c.assets = <<>> => Latest(c) = Len(c.quality)
    <3>1. /\ Len(c.quality) \in Nat /\ Len(c.evaluations) \in Nat
          /\ Len(c.quality) <= Len(c.evaluations) /\ Len(c.evaluations) <= Latest(c)
      BY Parts, LenProperties DEF InStep
    <3>2. c.assets = <<>> => Latest(c) = 0
      BY EmptySeq DEF Latest
    <3> QED BY <3>1, <3>2
  <2>2. BothReviewed(c) => Latest(c) = Len(c.quality) /\ RevisionTarget(c) \in Targets
    BY ReviewedCount, TargetTyped
  <2>3. PlanCalls(c, "generation") => BothReviewed(c)
    BY DEF PlanCurrent, PlanCalls
  <2>4. ReviewRequired \in BOOLEAN
    BY CampaignAssumption
  <2> QED BY <1>2, <1>3, <1>4, <1>5, <1>6, <2>1, <2>2, <2>3, <2>4
          DEF Decide, Go, Stop, Targets
<1> QED BY <1>1, <1>6

-----------------------------------------------------------------------------
(* The campaign the director decides on.                                    *)

LEMMA BeforeDecision ==
    ASSUME NEW c \in Campaigns, CampaignOK(c), c.rounds < MaxRounds,
           NEW d, d = CountRound(Plan(Select(c)))
    PROVE  /\ d \in Campaigns /\ CampaignOK(d)
           /\ SameWork(c, d) /\ d.rounds = c.rounds + 1
           /\ d.conflicts = c.conflicts
           /\ c.selected # 0 => d.selected = c.selected
           /\ c.plan.made => d.plan = c.plan
<1> DEFINE s == Select(c)
           p == Plan(s)
<1>1. /\ s \in Campaigns /\ s = [c EXCEPT !.selected = s.selected]
      /\ c.selected # 0 => s = c
  BY SelectEffect DEF CampaignOK
<1>2. SameReviews(c, s) /\ s.plan = c.plan /\ s.rounds = c.rounds
      /\ s.strategies = c.strategies
  BY <1>1 DEF Campaigns, SameReviews
<1>3. PlanCurrent(s)
  BY <1>2, SameVerdicts DEF CampaignOK, PlanCurrent
<1> HIDE DEF s
<1>4. /\ p \in Campaigns /\ p = [s EXCEPT !.plan = p.plan] /\ PlanCurrent(p)
      /\ s.plan.made => p = s
  BY <1>1, <1>3, PlanEffect
<1>5. SameReviews(c, p) /\ p.rounds = c.rounds /\ p.strategies = c.strategies
  BY <1>1, <1>2, <1>4 DEF Campaigns, SameReviews
<1> HIDE DEF p
<1>6. d \in Campaigns /\ d = [p EXCEPT !.rounds = p.rounds + 1]
  BY <1>4, <1>5, CountRoundEffect DEF p, s
<1>7. /\ SameReviews(c, d) /\ SameReviews(p, d) /\ d.plan = p.plan
      /\ d.strategies = c.strategies /\ d.selected = p.selected
  BY <1>4, <1>5, <1>6 DEF Campaigns, SameReviews
<1>8. InStep(d)
  BY <1>7, SameInStep DEF CampaignOK
<1>9. PlanCurrent(d)
  BY <1>4, <1>7, SameVerdicts DEF PlanCurrent
<1>10. SameWork(c, d) /\ d.rounds = c.rounds + 1 /\ d.conflicts = c.conflicts
  <2>1. SameWork(c, s) /\ s.rounds = c.rounds /\ s.conflicts = c.conflicts
    BY <1>1 DEF Campaigns, SameWork, Contributed, SameReviews
  <2>2. SameWork(s, p) /\ p.rounds = s.rounds /\ p.conflicts = s.conflicts
    BY <1>1, <1>4 DEF Campaigns, SameWork, Contributed, SameReviews
  <2>3. SameWork(p, d) /\ d.rounds = p.rounds + 1 /\ d.conflicts = p.conflicts
    BY <1>4, <1>6 DEF Campaigns, SameWork, Contributed, SameReviews
  <2> QED BY <2>1, <2>2, <2>3 DEF SameWork, Contributed, SameReviews
<1>11. c.selected # 0 => d.selected = c.selected
  BY <1>1, <1>4, <1>7 DEF Campaigns
<1>12. c.plan.made => d.plan = c.plan
  BY <1>2, <1>4, <1>7
<1> QED BY <1>6, <1>7, <1>8, <1>9, <1>10, <1>11, <1>12
        DEF CampaignOK, SameWork, Contributed

(* A round of the director keeps the invariant.                             *)
LEMMA DirectKeeps ==
    ASSUME IInv, Direct
    PROVE  IInv'
<1>1. PICK d \in {CountRound(Plan(Select(campaign)))} :
         /\ node = "director"
         /\ campaign' = [Resolve(d) EXCEPT
                           !.status = IF Decide(d).node = "end" THEN Decide(d).status
                                                               ELSE @]
         /\ node' = Decide(d).node
         /\ attempt' = [r \in Roles |-> IF r \in Team(Decide(d).node) THEN 1 ELSE 0]
         /\ outcome' = [r \in Roles |-> IF r \in Team(Decide(d).node) THEN "running"
                                                                     ELSE "idle"]
         /\ UNCHANGED <<checkpoint, restarts>>
  BY DEF Direct
<1>2. /\ campaign \in Campaigns /\ CampaignOK(campaign)
      /\ campaign.rounds < MaxRounds /\ campaign = checkpoint
      /\ checkpoint \in Campaigns
  BY <1>1 DEF IInv, TypeOK, NodeOK
<1>3. /\ d \in Campaigns /\ CampaignOK(d)
      /\ SameWork(campaign, d) /\ d.rounds = campaign.rounds + 1
      /\ d.conflicts = campaign.conflicts
      /\ campaign.selected # 0 => d.selected = campaign.selected
      /\ campaign.plan.made => d.plan = campaign.plan
  BY <1>1, <1>2, BeforeDecision
<1>4. /\ Decide(d).node \in Working \cup {"end", "raised"}
      /\ Admits(d, Decide(d).node)
      /\ Decide(d).node = "end" =>
           Decide(d).status \in {"waiting_for_user", "waiting_for_review",
                                 "completed", "aborted"}
      /\ Decide(d).node = "end"
           /\ Decide(d).status \in {"completed", "waiting_for_review"} =>
           d.layouts.formats # <<>> /\ AllFormatsPassed(d)
  BY <1>3, DecideEffect DEF CampaignOK
<1>5. /\ Resolve(d) \in Campaigns
      /\ Resolve(d) = [d EXCEPT !.conflicts = Resolve(d).conflicts]
      /\ IsPrefix(d.conflicts, Resolve(d).conflicts)
  BY <1>3, ResolveEffect
<1>6. /\ campaign' \in Campaigns
      /\ campaign' = [d EXCEPT !.status = campaign'.status,
                               !.conflicts = campaign'.conflicts]
      /\ campaign'.conflicts = Resolve(d).conflicts
  BY <1>1, <1>3, <1>4, <1>5 DEF Campaigns
<1>7. /\ SameWork(d, campaign') /\ campaign'.plan = d.plan
      /\ SameReviews(d, campaign')
      /\ campaign'.strategies = d.strategies /\ campaign'.layouts = d.layouts
      /\ campaign'.rounds = d.rounds /\ campaign'.generations = d.generations
      /\ campaign'.selected = d.selected
  BY <1>3, <1>6 DEF Campaigns, SameReviews, SameWork, Contributed
<1>8. CampaignOK(campaign')
  BY <1>3, <1>7, SameInStep, SameVerdicts
     DEF CampaignOK, PlanCurrent, SameWork, Contributed
<1>9. NodeOK'
  <2>1. checkpoint' = checkpoint /\ node' = Decide(d).node
    BY <1>1
  <2>2. node' # "director"
    BY <2>1, <1>4 DEF Working
  <2>3. Latest(campaign') = Latest(d)
    BY <1>7 DEF SameReviews, Latest
  <2>4. checkpoint.rounds < MaxRounds
    BY <1>2
  <2>5. node' \notin Working => outcome' = [r \in Roles |-> "idle"]
    BY <1>1, <1>4 DEF Team, Working
  <2>6. /\ Admits(campaign', node') /\ campaign'.rounds \in Nat
        /\ campaign'.brief = d.brief
    <3>1. campaign'.brief = d.brief
      BY <1>7 DEF SameWork, Contributed
    <3> QED BY <1>3, <1>4, <1>7, <2>1, <2>3, <3>1, Parts DEF Admits, SameReviews
  <2>7. node' = "end" =>
          /\ campaign'.status \notin {"planning", "running"}
          /\ campaign'.status \in {"completed", "waiting_for_review"} =>
               campaign'.layouts.formats # <<>> /\ AllFormatsPassed(campaign')
    <3>1. SUFFICES ASSUME node' = "end"
                   PROVE  /\ campaign'.status \notin {"planning", "running"}
                          /\ campaign'.status \in {"completed", "waiting_for_review"} =>
                               /\ campaign'.layouts.formats # <<>>
                               /\ AllFormatsPassed(campaign')
      OBVIOUS
    <3>2. campaign'.status = Decide(d).status
      BY <1>1, <1>5, <2>1, <3>1 DEF Campaigns
    <3>3. AllFormatsPassed(d) => AllFormatsPassed(campaign')
      BY <1>7 DEF AllFormatsPassed, FormatPassed, IsLatestOf, PassedBy, SameReviews
    <3> QED BY <1>4, <1>7, <2>1, <3>1, <3>2, <3>3
  <2> QED BY <2>1, <2>2, <2>4, <2>5, <2>6, <2>7
          DEF NodeOK, Admits, MaxRounds, MaxGenerations, Working, Latest,
              AllFormatsPassed, FormatPassed, IsLatestOf, PassedBy
<1>10. RecoveryBoundary'
  <2>1. checkpoint' = campaign
    BY <1>1, <1>2
  <2>2. Contributed(campaign') = Contributed(campaign)
    <3>1. SameWork(campaign, campaign')
      BY <1>3, <1>7 DEF SameWork
    <3> QED BY <3>1 DEF SameWork
  <2>3. campaign.plan.made => campaign'.plan = campaign.plan
    BY <1>3, <1>7
  <2>4. campaign.selected \in {0, campaign'.selected}
    BY <1>3, <1>7
  <2>5. IsPrefix(campaign.conflicts, campaign'.conflicts)
    BY <1>3, <1>5, <1>6
  <2>6. campaign'.rounds = campaign.rounds + 1
    BY <1>3, <1>7
  <2> QED BY <2>1, <2>2, <2>3, <2>4, <2>5, <2>6 DEF RecoveryBoundary
<1>11. TypeOK'
  <2>1. node' \in Nodes
    BY <1>1, <1>4 DEF Nodes, Working
  <2>2. attempt' \in [Roles -> 0..MaxAttempts]
    <3>1. 0 \in 0..MaxAttempts /\ 1 \in 0..MaxAttempts
      BY CampaignAssumption
    <3> QED BY <1>1, <3>1
  <2>3. outcome' \in [Roles -> {"idle", "running", "succeeded", "failed"}]
    BY <1>1
  <2>4. campaign' \in Campaigns /\ checkpoint' \in Campaigns
        /\ restarts' \in 0..MaxRestarts
    BY <1>1, <1>2, <1>6 DEF IInv, TypeOK
  <2> QED BY <2>1, <2>2, <2>3, <2>4 DEF TypeOK, Campaigns, MaxRounds, MaxGenerations
<1>12. CampaignOK(checkpoint')
  BY <1>1, <1>2
<1> QED BY <1>8, <1>9, <1>10, <1>11, <1>12
        DEF IInv, CampaignOK, InStep, PlanCurrent, BothReviewed, BothPassed,
            ReviewedLast, Latest

-----------------------------------------------------------------------------
(* The other steps that leave the campaign alone, and the restart.          *)

(* A fresh campaign satisfies the invariant.                                *)
LEMMA InitOK ==
    ASSUME Init
    PROVE  IInv
<1>1. Fresh \in Campaigns
  <2>1. /\ 0 \in 0..MaxRounds /\ 0 \in 0..MaxGenerations
    BY Budgets
  <2>2. /\ <<>> \in Seq(Formats) /\ <<>> \in Seq(Nat) /\ <<>> \in Seq(Assets)
        /\ <<>> \in Seq(Reviews) /\ <<>> \in Seq(Targets)
        /\ <<>> \in Seq([asset : Nat, issue : {"veto", "quality"}])
    BY EmptySeq
  <2>3. NoLayouts \in Layouts
    BY <2>2 DEF NoLayouts, Layouts
  <2>4. NoPlan \in [made : BOOLEAN, tasks : Seq(Targets)]
    BY <2>2 DEF NoPlan
  <2> QED BY <2>1, <2>2, <2>3, <2>4 DEF Fresh, Campaigns
<1>2. TypeOK
  <2>1. /\ 0 \in 0..MaxAttempts /\ 0 \in 0..MaxRestarts
    BY CampaignAssumption
  <2> QED BY <1>1, <2>1 DEF Init, TypeOK, Nodes
<1>3. CampaignOK(Fresh)
  <2>1. /\ Fresh.assets = <<>> /\ Fresh.evaluations = <<>> /\ Fresh.quality = <<>>
        /\ Fresh.compliance = <<>> /\ Fresh.strategies = <<>>
        /\ Fresh.plan.made = FALSE /\ Fresh.layouts.formats = <<>>
    BY DEF Fresh, NoPlan, NoLayouts
  <2>2. Len(<<>>) = 0 /\ DOMAIN <<>> = {}
    BY LenProperties, EmptySeq
  <2>3. InStep(Fresh)
    BY <2>1, <2>2 DEF InStep, Latest
  <2> QED BY <2>1, <2>2, <2>3 DEF CampaignOK, PlanCurrent
<1>4. NodeOK
  BY Budgets DEF Init, NodeOK, Fresh, Working
<1>5. RecoveryBoundary
  <2>1. IsPrefix(<<>>, <<>>)
    BY EmptySeq DEF IsPrefix
  <2>2. Fresh.conflicts = <<>> /\ Fresh.rounds \in Nat
    BY DEF Fresh
  <2> QED BY <2>1, <2>2 DEF Init, RecoveryBoundary
<1> QED BY <1>2, <1>3, <1>4, <1>5 DEF Init, IInv

(* What a step that writes neither the campaign nor the checkpoint keeps.   *)
LEMMA SameCampaign ==
    ASSUME IInv, campaign' = campaign, checkpoint' = checkpoint,
           node' \in {node, "raised", "down"}, TypeOK',
           node = "end" => node' = "end",
           node' \notin Working => outcome' = [r \in Roles |-> "idle"]
    PROVE  IInv'
<1>1. CampaignOK(campaign)' /\ CampaignOK(checkpoint)' /\ RecoveryBoundary'
  BY DEF IInv, CampaignOK, InStep, PlanCurrent, BothReviewed, BothPassed,
         ReviewedLast, Latest, RecoveryBoundary, Contributed
<1>2. NodeOK'
  BY DEF IInv, NodeOK, Working, Latest, MaxRounds, MaxGenerations,
         AllFormatsPassed, FormatPassed, IsLatestOf, PassedBy
<1> QED BY <1>1, <1>2 DEF IInv

(* The attempts of a specialist keep the invariant.                         *)
LEMMA SpecialistKeeps ==
    ASSUME IInv, NEW r \in Roles, Succeed(r) \/ Retry(r) \/ GiveUp(r)
    PROVE  IInv'
<1>1. campaign' = campaign /\ checkpoint' = checkpoint /\ node' = node
      /\ restarts' = restarts
  BY DEF Succeed, Retry, GiveUp
<1>2. outcome' \in [Roles -> {"idle", "running", "succeeded", "failed"}]
  BY DEF Succeed, Retry, GiveUp, IInv, TypeOK
<1>3. attempt' \in [Roles -> 0..MaxAttempts]
  <2>1. CASE Retry(r)
    <3>1. attempt[r] + 1 \in 0..MaxAttempts
      BY <2>1, CampaignAssumption DEF Retry, IInv, TypeOK
    <3> QED BY <2>1, <3>1 DEF Retry, IInv, TypeOK
  <2>2. CASE Succeed(r) \/ GiveUp(r)
    BY <2>2 DEF Succeed, GiveUp, IInv, TypeOK
  <2> QED BY <2>1, <2>2
<1>4. TypeOK'
  <2>1. /\ campaign \in Campaigns /\ checkpoint \in Campaigns /\ node \in Nodes
        /\ restarts \in 0..MaxRestarts
    BY DEF IInv, TypeOK
  <2>2. campaign' \in Campaigns /\ checkpoint' \in Campaigns
    BY <1>1, <2>1
  <2> QED BY <1>1, <1>2, <1>3, <2>1, <2>2
          DEF TypeOK, Campaigns, MaxRounds, MaxGenerations
<1>5. node \in Working
  BY DEF Succeed, Retry, GiveUp, IInv, NodeOK
<1> QED BY <1>1, <1>4, <1>5, SameCampaign

(* So does a node that raises and a process that dies,                      *)
LEMMA FailureKeeps ==
    ASSUME IInv, NodeRaises \/ Crash
    PROVE  IInv'
<1>1. /\ campaign' = campaign /\ checkpoint' = checkpoint /\ restarts' = restarts
      /\ node' \in {"raised", "down"}
      /\ outcome' = [r \in Roles |-> "idle"] /\ attempt' = [r \in Roles |-> 0]
  BY DEF NodeRaises, Crash
<1>2. TypeOK'
  <2>1. 0 \in 0..MaxAttempts
    BY CampaignAssumption
  <2> QED BY <1>1, <2>1
          DEF IInv, TypeOK, Nodes, Campaigns, MaxRounds, MaxGenerations
<1>3. node # "end"
  BY DEF NodeRaises, Crash, Stopped, IInv, NodeOK, Working
<1> QED BY <1>1, <1>2, <1>3, SameCampaign

(* and a caller that runs the stored campaign again.                        *)
LEMMA ResumeKeeps ==
    ASSUME IInv, Resume
    PROVE  IInv'
<1>1. /\ campaign' = checkpoint /\ checkpoint' = checkpoint /\ node' = "director"
      /\ attempt' = attempt /\ outcome' = outcome /\ restarts' = restarts + 1
      /\ node \in {"raised", "down"} /\ restarts < MaxRestarts
  BY DEF Resume
<1>2. TypeOK'
  <2>1. restarts + 1 \in 0..MaxRestarts
    BY <1>1, CampaignAssumption DEF IInv, TypeOK
  <2>2. /\ checkpoint \in Campaigns
        /\ attempt \in [Roles -> 0..MaxAttempts]
        /\ outcome \in [Roles -> {"idle", "running", "succeeded", "failed"}]
    BY DEF IInv, TypeOK
  <2> QED BY <1>1, <2>1, <2>2
          DEF TypeOK, Nodes, Campaigns, MaxRounds, MaxGenerations
<1>3. CampaignOK(campaign)' /\ CampaignOK(checkpoint)'
  BY <1>1 DEF IInv, CampaignOK, InStep, PlanCurrent, BothReviewed, BothPassed,
              ReviewedLast, Latest
<1>4. NodeOK'
  BY <1>1 DEF IInv, NodeOK, Working, MaxRounds, MaxGenerations
<1>5. RecoveryBoundary'
  <2>1. checkpoint \in Campaigns
    BY DEF IInv, TypeOK
  <2>2. IsPrefix(checkpoint.conflicts, checkpoint.conflicts)
    BY <2>1, Parts, LenProperties DEF IsPrefix
  <2> QED BY <1>1, <2>2 DEF RecoveryBoundary
<1> QED BY <1>2, <1>3, <1>4, <1>5 DEF IInv

-----------------------------------------------------------------------------
(* The specialists' nodes.  It is enough that the merged campaign is good.  *)

LEMMA MergeKeeps ==
    ASSUME IInv, NEW c \in Campaigns, CampaignOK(c), c.rounds < MaxRounds,
           Merge(c)
    PROVE  IInv'
<1>1. /\ campaign' = c /\ checkpoint' = c /\ node' = "director"
      /\ outcome' = [r \in Roles |-> "idle"] /\ attempt' = [r \in Roles |-> 0]
      /\ restarts' = restarts
  BY DEF Merge
<1>2. TypeOK'
  <2>1. 0 \in 0..MaxAttempts /\ restarts \in 0..MaxRestarts
    BY CampaignAssumption DEF IInv, TypeOK
  <2>2. campaign' \in Campaigns /\ checkpoint' \in Campaigns
    BY <1>1
  <2> QED BY <1>1, <2>1, <2>2
          DEF TypeOK, Nodes, Campaigns, MaxRounds, MaxGenerations
<1>3. CampaignOK(campaign)' /\ CampaignOK(checkpoint)'
  BY <1>1 DEF CampaignOK, InStep, PlanCurrent, BothReviewed, BothPassed,
              ReviewedLast, Latest
<1>4. NodeOK'
  BY <1>1 DEF NodeOK, Working, MaxRounds, MaxGenerations
<1>5. RecoveryBoundary'
  <2>1. IsPrefix(c.conflicts, c.conflicts)
    BY Parts, LenProperties DEF IsPrefix
  <2> QED BY <1>1, <2>1 DEF RecoveryBoundary, Contributed
<1> QED BY <1>2, <1>3, <1>4, <1>5 DEF IInv

(* A node at work has a campaign within both budgets.                       *)
LEMMA AtWork ==
    ASSUME IInv, node \in Working
    PROVE  /\ campaign \in Campaigns /\ CampaignOK(campaign)
           /\ campaign.rounds < MaxRounds
           /\ campaign.generations + 1 \in 0..MaxGenerations
<1>1. campaign \in Campaigns /\ CampaignOK(campaign)
  BY DEF IInv, TypeOK
<1>2. campaign.rounds < MaxRounds /\ campaign.generations < MaxGenerations
  BY DEF IInv, NodeOK, Working
<1> QED BY <1>1, <1>2, Parts, Budgets

(* The brief leaves reviews, plan and strategies alone.                     *)
LEMMA BriefKeeps ==
    ASSUME IInv, BriefNode
    PROVE  IInv'
<1>1. PICK formats \in BriefFormats, ready \in BOOLEAN :
         Merge([campaign EXCEPT
                  !.brief   = IF ready THEN "ready" ELSE "unclear",
                  !.formats = formats,
                  !.status  = IF ready THEN "running" ELSE "waiting_for_user"])
  BY DEF BriefNode
<1> DEFINE c == [campaign EXCEPT
                  !.brief   = IF ready THEN "ready" ELSE "unclear",
                  !.formats = formats,
                  !.status  = IF ready THEN "running" ELSE "waiting_for_user"]
<1>2. node \in Working /\ campaign.brief = "none"
  BY DEF BriefNode, AllSucceeded, Working, IInv, NodeOK
<1>3. campaign \in Campaigns /\ CampaignOK(campaign) /\ campaign.rounds < MaxRounds
  BY <1>2, AtWork
<1>4. formats \in Seq(Formats)
  BY CampaignAssumption
<1>5. /\ c \in Campaigns /\ SameReviews(campaign, c) /\ c.plan = campaign.plan
      /\ c.strategies = campaign.strategies /\ c.rounds = campaign.rounds
      /\ c.layouts = campaign.layouts
  BY <1>3, <1>4 DEF Campaigns, SameReviews
<1> HIDE DEF c
<1>6. CampaignOK(c)
  BY <1>2, <1>3, <1>5, SameInStep, SameVerdicts DEF CampaignOK, PlanCurrent
<1>7. Merge(c)
  BY <1>1 DEF c
<1> QED BY <1>3, <1>5, <1>6, <1>7, MergeKeeps

(* The panel adds three strategies to none.                                 *)
LEMMA StrategyKeeps ==
    ASSUME IInv, StrategyPanelNode
    PROVE  IInv'
<1>1. PICK p \in Panels :
         Merge([campaign EXCEPT !.strategies = campaign.strategies \o p])
  BY DEF StrategyPanelNode
<1> DEFINE s == campaign.strategies \o p
           c == [campaign EXCEPT !.strategies = s]
<1>2. node \in Working /\ node = "strategy_panel"
  BY DEF StrategyPanelNode, AllSucceeded, Working
<1>3. campaign \in Campaigns /\ CampaignOK(campaign) /\ campaign.rounds < MaxRounds
  BY <1>2, AtWork
<1>4. s \in Seq(Nat) /\ Len(s) = 3
  <2>1. p \in Seq(Nat) /\ Len(p) = 3
    BY CampaignAssumption
  <2>2. campaign.strategies = <<>>
    BY <1>2 DEF IInv, NodeOK
  <2>3. <<>> \in Seq(Nat) /\ Len(<<>>) = 0
    BY EmptySeq
  <2> QED BY <2>1, <2>2, <2>3, ConcatProperties
<1> HIDE DEF s
<1>5. /\ c \in Campaigns /\ SameReviews(campaign, c) /\ c.plan = campaign.plan
      /\ c.strategies = s /\ c.rounds = campaign.rounds
      /\ c.brief = campaign.brief /\ c.formats = campaign.formats
      /\ c.layouts = campaign.layouts
  BY <1>3, <1>4 DEF Campaigns, SameReviews
<1> HIDE DEF c
<1>6. CampaignOK(c)
  BY <1>3, <1>4, <1>5, SameInStep, SameVerdicts DEF CampaignOK, PlanCurrent
<1>7. Merge(c)
  BY <1>1 DEF c, s
<1> QED BY <1>3, <1>5, <1>6, <1>7, MergeKeeps

(* The layout node rewrites the plan but keeps that there is one.           *)
LEMMA LayoutKeeps ==
    ASSUME IInv, LayoutNode
    PROVE  IInv'
<1> DEFINE tasks == [i \in DOMAIN campaign.plan.tasks |-> "generation"]
           l == BuildLayouts(campaign)
           c == [campaign EXCEPT !.layouts = l, !.plan.tasks = tasks]
<1>1. Merge(c)
  BY DEF LayoutNode
<1>2. node \in Working /\ campaign.brief # "none"
  BY DEF LayoutNode, AllSucceeded, Working, IInv, NodeOK
<1>3. campaign \in Campaigns /\ CampaignOK(campaign) /\ campaign.rounds < MaxRounds
  BY <1>2, AtWork
<1>4. tasks \in Seq(Targets)
  <2>1. campaign.plan.tasks \in Seq(Targets)
    BY <1>3, Parts
  <2>2. DOMAIN campaign.plan.tasks = 1..Len(campaign.plan.tasks)
        /\ Len(campaign.plan.tasks) \in Nat
    BY <2>1, LenProperties
  <2>3. \A i \in 1..Len(campaign.plan.tasks) : tasks[i] \in Targets
    BY <2>2 DEF Targets
  <2> QED BY <2>2, <2>3, IsASeq
<1>5. l \in Layouts /\ l.formats = campaign.formats
  BY <1>3, Parts, CampaignAssumption DEF BuildLayouts, PlanCalls, Layouts
<1> HIDE DEF tasks, l
<1>6. /\ c \in Campaigns /\ SameReviews(campaign, c)
      /\ c.plan.made = campaign.plan.made
      /\ c.strategies = campaign.strategies /\ c.rounds = campaign.rounds
      /\ c.brief = campaign.brief /\ c.formats = campaign.formats
      /\ c.layouts = l
  BY <1>3, <1>4, <1>5 DEF Campaigns, SameReviews
<1> HIDE DEF c
<1>7. CampaignOK(c)
  BY <1>2, <1>3, <1>5, <1>6, SameInStep, SameVerdicts DEF CampaignOK, PlanCurrent
<1> QED BY <1>1, <1>3, <1>6, <1>7, MergeKeeps

(* _target_layout chooses a format of the campaign.                         *)
LEMMA TargetFormatTyped ==
    ASSUME NEW c \in Campaigns, c.layouts.formats # <<>>
    PROVE  TargetFormat(c) \in Formats
<1> DEFINE formats == c.layouts.formats
           missing == {i \in DOMAIN formats : formats[i] \notin Generated(c)}
<1>1. /\ formats \in Seq(Formats) /\ Len(formats) \in Nat /\ Len(formats) > 0
      /\ DOMAIN formats = 1..Len(formats)
  BY Parts, EmptySeq, LenProperties
<1>2. CASE c.plan.made /\ c.assets # <<>>
  <2>1. Len(c.assets) \in 1..Len(c.assets) /\ c.assets \in Seq(Assets)
    BY <1>2, Parts, EmptySeq, LenProperties
  <2>2. Last(c.assets) \in Assets
    BY <2>1, ElementOfSeq DEF Last
  <2> QED BY <1>2, <2>2 DEF TargetFormat, Assets
<1>3. CASE ~(c.plan.made /\ c.assets # <<>>)
  <2> DEFINE i == IF missing = {} THEN 1 ELSE Min(missing)
  <2>1. i \in 1..Len(formats)
    <3>1. CASE missing = {}
      BY <1>1, <3>1
    <3>2. CASE missing # {}
      <4>1. missing \subseteq 1..Len(formats) /\ missing \subseteq Nat
        BY <1>1
      <4> HIDE DEF missing
      <4>2. Min(missing) \in missing
        BY <3>2, <4>1, MinIsMember
      <4> QED BY <3>2, <4>1, <4>2
    <3> QED BY <3>1, <3>2
  <2>2. TargetFormat(c) = formats[i]
    BY <1>3 DEF TargetFormat
  <2> HIDE DEF i, formats
  <2> QED BY <1>1, <2>1, <2>2, ElementOfSeq
<1> QED BY <1>2, <1>3

(* Generation adds an asset when all are reviewed, and drops the plan.      *)
LEMMA GenerationKeeps ==
    ASSUME IInv, GenerationNode
    PROVE  IInv'
<1> DEFINE asset == NewAsset(campaign)
           assets == Append(campaign.assets, asset)
           c == [campaign EXCEPT !.assets = assets,
                                 !.generations = campaign.generations + 1,
                                 !.plan = NoPlan]
<1>1. Merge(c)
  BY DEF GenerationNode
<1>2. node \in Working /\ node = "generation"
  BY DEF GenerationNode, AllSucceeded, Working
<1>3. /\ campaign \in Campaigns /\ CampaignOK(campaign)
      /\ campaign.rounds < MaxRounds
      /\ campaign.generations + 1 \in 0..MaxGenerations
  BY <1>2, AtWork
<1>4. /\ campaign.layouts.formats # <<>>
      /\ Len(campaign.assets) = Len(campaign.quality)
  BY <1>2 DEF IInv, NodeOK, Latest
<1>5. asset \in Assets
  BY <1>3, <1>4, TargetFormatTyped, Parts DEF NewAsset, Assets, Layouts
<1> HIDE DEF asset
<1>6. assets \in Seq(Assets) /\ Len(assets) = Len(campaign.assets) + 1
  BY <1>3, <1>5, Parts, AppendProperties
<1>7. NoPlan \in [made : BOOLEAN, tasks : Seq(Targets)] /\ ~NoPlan.made
  BY EmptySeq DEF NoPlan
<1> HIDE DEF assets
<1>8. c \in Campaigns
  BY <1>3, <1>6, <1>7 DEF Campaigns
<1>9. /\ c.assets = assets /\ c.plan = NoPlan /\ c.rounds = campaign.rounds
      /\ c.evaluations = campaign.evaluations /\ c.quality = campaign.quality
      /\ c.compliance = campaign.compliance
      /\ c.strategies = campaign.strategies /\ c.brief = campaign.brief
      /\ c.formats = campaign.formats /\ c.layouts = campaign.layouts
  BY <1>3 DEF Campaigns
<1> HIDE DEF c
<1>10. InStep(c)
  <2>1. /\ Len(campaign.quality) \in Nat /\ Len(campaign.evaluations) \in Nat
        /\ Len(campaign.assets) \in Nat
    BY <1>3, Parts, LenProperties
  <2>2. /\ Len(campaign.quality) <= Len(c.assets)
        /\ Len(campaign.evaluations) <= Len(c.assets)
        /\ Len(c.assets) <= Len(campaign.quality) + 1
    BY <1>3, <1>4, <1>6, <1>9, <2>1 DEF CampaignOK, InStep, Latest
  <2> QED BY <1>3, <1>9, <2>2 DEF CampaignOK, InStep, Latest
<1>11. CampaignOK(c)
  BY <1>3, <1>7, <1>9, <1>10 DEF CampaignOK, PlanCurrent
<1> QED BY <1>1, <1>3, <1>8, <1>9, <1>11, MergeKeeps

(* Evaluation adds the evaluation of the latest asset.                      *)
LEMMA EvaluationKeeps ==
    ASSUME IInv, EvaluationNode
    PROVE  IInv'
<1> DEFINE e == Append(campaign.evaluations, Latest(campaign))
           c == [campaign EXCEPT !.evaluations = e]
           n == Len(campaign.evaluations)
<1>1. Merge(c)
  BY DEF EvaluationNode
<1>2. node \in Working /\ node = "evaluation"
  BY DEF EvaluationNode, AllSucceeded, Working
<1>3. campaign \in Campaigns /\ CampaignOK(campaign) /\ campaign.rounds < MaxRounds
  BY <1>2, AtWork
<1>4. Latest(campaign) = n + 1 /\ n \in Nat
  BY <1>2, <1>3, Parts, LenProperties DEF IInv, NodeOK
<1>5. /\ e \in Seq(Nat) /\ Len(e) = n + 1 /\ e[n + 1] = n + 1
      /\ \A i \in 1..n : e[i] = campaign.evaluations[i]
  BY <1>3, <1>4, Parts, AppendProperties
<1> HIDE DEF e
<1>6. /\ c \in Campaigns /\ c.evaluations = e
      /\ c.assets = campaign.assets /\ c.quality = campaign.quality
      /\ c.compliance = campaign.compliance /\ c.plan = campaign.plan
      /\ c.strategies = campaign.strategies /\ c.rounds = campaign.rounds
      /\ c.brief = campaign.brief /\ c.formats = campaign.formats
      /\ c.layouts = campaign.layouts
  BY <1>3, <1>5 DEF Campaigns
<1> HIDE DEF c
<1>7. InStep(c)
  <2>1. DOMAIN e = 1..(n + 1) /\ DOMAIN campaign.evaluations = 1..n
    BY <1>3, <1>5, Parts, LenProperties
  <2>2. \A i \in DOMAIN e : e[i] = i
    <3>1. \A i \in 1..n : campaign.evaluations[i] = i
      BY <1>3, <2>1 DEF CampaignOK, InStep
    <3>2. \A i \in 1..(n + 1) : i \in 1..n \/ i = n + 1
      BY <1>4
    <3> QED BY <1>5, <2>1, <3>1, <3>2
  <2>3. Len(campaign.quality) \in Nat /\ Len(campaign.quality) <= n
    BY <1>3, Parts, LenProperties DEF CampaignOK, InStep
  <2>4. /\ Len(campaign.quality) <= Len(e) /\ Len(e) <= Latest(campaign)
    BY <1>4, <1>5, <2>3
  <2>5. Latest(c) = Latest(campaign)
    BY <1>6 DEF Latest
  <2> QED BY <1>3, <1>6, <2>2, <2>4, <2>5 DEF CampaignOK, InStep
<1>8. CampaignOK(c)
  BY <1>3, <1>6, <1>7
     DEF CampaignOK, PlanCurrent, BothReviewed, BothPassed, ReviewedLast, Latest
<1> QED BY <1>1, <1>3, <1>6, <1>8, MergeKeeps

(* The review panel adds both reviews of the latest asset; no plan is open. *)
LEMMA ReviewKeeps ==
    ASSUME IInv, ReviewPanelNode
    PROVE  IInv'
<1>1. PICK verdict \in QualityVerdicts, findings \in Compliance :
         Merge([campaign EXCEPT
                  !.quality = Append(@, [asset |-> Latest(campaign),
                                         passed |-> verdict.passed,
                                         findings |-> verdict.findings]),
                  !.compliance = Append(@, [asset |-> Latest(campaign),
                                            passed |-> findings = <<>>,
                                            findings |-> findings])])
  BY DEF ReviewPanelNode
<1> DEFINE critic == [asset |-> Latest(campaign), passed |-> verdict.passed,
                      findings |-> verdict.findings]
           gate == [asset |-> Latest(campaign), passed |-> findings = <<>>,
                    findings |-> findings]
           q == Append(campaign.quality, critic)
           p == Append(campaign.compliance, gate)
           c == [campaign EXCEPT !.quality = q, !.compliance = p]
           n == Len(campaign.quality)
<1>2. Merge(c)
  BY <1>1
<1>3. node \in Working /\ node = "review_panel"
  BY DEF ReviewPanelNode, AllSucceeded, Working
<1>4. campaign \in Campaigns /\ CampaignOK(campaign) /\ campaign.rounds < MaxRounds
  BY <1>3, AtWork
<1>5. /\ Latest(campaign) = n + 1 /\ n \in Nat
      /\ Len(campaign.evaluations) = n + 1
  BY <1>3, <1>4, Parts, LenProperties DEF IInv, NodeOK
<1>6. critic \in Reviews /\ gate \in Reviews
  <2>1. verdict.passed \in BOOLEAN /\ verdict.findings \in Seq(Targets)
    BY CampaignAssumption
  <2>2. findings \in Seq(Targets)
    <3>1. CASE ComplianceEnabled
      <4>1. findings \in Seq({"layout"})
        BY <3>1, CampaignAssumption DEF Compliance
      <4>2. \A i \in 1..Len(findings) : findings[i] \in Targets
        BY <4>1, ElementOfSeq DEF Targets
      <4> QED BY <4>1, <4>2
    <3>2. CASE ~ComplianceEnabled
      BY <3>2, EmptySeq DEF Compliance
    <3> QED BY <3>1, <3>2
  <2>3. Latest(campaign) \in Nat
    BY <1>5
  <2>4. (findings = <<>>) \in BOOLEAN
    OBVIOUS
  <2>5. critic \in Reviews
    BY <2>1, <2>3 DEF Reviews
  <2>6. gate \in Reviews
    BY <2>2, <2>3, <2>4 DEF Reviews
  <2> QED BY <2>5, <2>6
<1>7. critic.asset = n + 1 /\ gate.asset = n + 1
  BY <1>5
<1> HIDE DEF critic, gate
<1>8. /\ q \in Seq(Reviews) /\ Len(q) = n + 1 /\ q[n + 1] = critic
      /\ \A i \in 1..n : q[i] = campaign.quality[i]
  BY <1>4, <1>6, Parts, AppendProperties
<1>9. /\ p \in Seq(Reviews) /\ Len(p) = n + 1 /\ p[n + 1] = gate
      /\ \A i \in 1..n : p[i] = campaign.compliance[i]
  <2>1. Len(campaign.compliance) = n /\ campaign.compliance \in Seq(Reviews)
    BY <1>4, Parts DEF CampaignOK, InStep
  <2>2. gate \in Reviews
    BY <1>6
  <2> HIDE DEF n
  <2> QED BY <2>1, <2>2, AppendProperties
<1> HIDE DEF p, q
<1>10. /\ c \in Campaigns /\ c.quality = q /\ c.compliance = p
       /\ c.assets = campaign.assets /\ c.evaluations = campaign.evaluations
       /\ c.plan = campaign.plan
       /\ c.strategies = campaign.strategies /\ c.rounds = campaign.rounds
       /\ c.brief = campaign.brief /\ c.formats = campaign.formats
       /\ c.layouts = campaign.layouts
  BY <1>4, <1>8, <1>9 DEF Campaigns
<1> HIDE DEF c
<1>11. InStep(c)
  <2>1. \A i \in 1..n : /\ campaign.quality[i].asset = i
                        /\ campaign.compliance[i].asset = i
    BY <1>4 DEF CampaignOK, InStep
  <2>2. \A i \in 1..(n + 1) : i \in 1..n \/ i = n + 1
    BY <1>5
  <2>3. \A i \in 1..(n + 1) : q[i].asset = i /\ p[i].asset = i
    BY <1>7, <1>8, <1>9, <2>1, <2>2
  <2>4. Latest(c) = Latest(campaign)
    BY <1>10 DEF Latest
  <2>5. \A i \in DOMAIN c.evaluations : c.evaluations[i] = i
    BY <1>4, <1>10 DEF CampaignOK, InStep
  <2>6. /\ n + 1 <= Len(c.evaluations) /\ Len(c.evaluations) <= Latest(c)
        /\ Latest(c) <= n + 1 + 1
    BY <1>5, <1>10, <2>4
  <2> QED BY <1>8, <1>9, <1>10, <2>3, <2>5, <2>6 DEF InStep
<1>12. ~campaign.plan.made
  <2>1. ~BothReviewed(campaign)
    BY <1>4, <1>5, ReviewedCount DEF CampaignOK
  <2> QED BY <1>4, <2>1 DEF CampaignOK, PlanCurrent
<1>13. CampaignOK(c)
  BY <1>4, <1>10, <1>11, <1>12 DEF CampaignOK, PlanCurrent
<1> QED BY <1>2, <1>4, <1>10, <1>13, MergeKeeps

-----------------------------------------------------------------------------
(* The theorems.                                                            *)

(* The invariant is inductive: every step of the director, of a specialist, *)
(* of a crash and of a resumed run keeps it.                                *)
THEOREM Invariance == Spec => []IInv
<1>1. Init => IInv
  BY InitOK
<1>2. IInv /\ [Next]_vars => IInv'
  <2> SUFFICES ASSUME IInv, [Next]_vars PROVE IInv'
    OBVIOUS
  <2>1. CASE Direct
    BY <2>1, DirectKeeps
  <2>2. CASE \E r \in Roles : Succeed(r) \/ Retry(r) \/ GiveUp(r)
    BY <2>2, SpecialistKeeps
  <2>3. CASE NodeRaises \/ Crash
    BY <2>3, FailureKeeps
  <2>4. CASE BriefNode
    BY <2>4, BriefKeeps
  <2>5. CASE StrategyPanelNode
    BY <2>5, StrategyKeeps
  <2>6. CASE LayoutNode
    BY <2>6, LayoutKeeps
  <2>7. CASE GenerationNode
    BY <2>7, GenerationKeeps
  <2>8. CASE EvaluationNode
    BY <2>8, EvaluationKeeps
  <2>9. CASE ReviewPanelNode
    BY <2>9, ReviewKeeps
  <2>10. CASE Resume
    BY <2>10, ResumeKeeps
  <2>11. CASE UNCHANGED vars
    <3>1. /\ campaign' = campaign /\ node' = node /\ attempt' = attempt
          /\ outcome' = outcome /\ checkpoint' = checkpoint
          /\ restarts' = restarts
      BY <2>11 DEF vars
    <3>2. TypeOK'
      <4>1. TypeOK
        BY DEF IInv
      <4>2. campaign' \in Campaigns /\ checkpoint' \in Campaigns
        BY <3>1, <4>1 DEF TypeOK
      <4> QED BY <3>1, <4>1, <4>2
              DEF TypeOK, Campaigns, MaxRounds, MaxGenerations
    <3>3. node' \notin Working => outcome' = [r \in Roles |-> "idle"]
      BY <3>1 DEF IInv, NodeOK
    <3> QED BY <3>1, <3>2, <3>3, SameCampaign
  <2> QED BY <2>1, <2>2, <2>3, <2>4, <2>5, <2>6, <2>7, <2>8, <2>9, <2>10, <2>11
          DEF Next, Run
<1> QED BY <1>1, <1>2, PTL DEF Spec

(* Every variable keeps its type: no campaign exceeds its budgets of rounds *)
(* and generations, no specialist its attempts.                             *)
THEOREM TypeCorrect == Spec => []TypeOK
<1>1. IInv => TypeOK
  BY DEF IInv
<1> QED BY <1>1, Invariance, PTL

(* Whatever fails and restarts, every asset is evaluated once and reviewed  *)
(* once by each gate before the next is generated.                          *)
THEOREM ReviewedOnce == Spec => []ReviewedInStep
<1>1. IInv => ReviewedInStep
  BY DEF IInv, CampaignOK, ReviewedInStep
<1> QED BY <1>1, Invariance, PTL

(* The director never acts on a plan of an earlier asset.                   *)
THEOREM NoStalePlan == Spec => []PlanIsCurrent
<1>1. IInv => PlanIsCurrent
  BY DEF IInv, CampaignOK, PlanIsCurrent
<1> QED BY <1>1, Invariance, PTL

(* A crash loses nothing a specialist produced and at most one round of the *)
(* director's own decisions.                                                *)
THEOREM NothingLost == Spec => []RecoveryBoundary
<1>1. IInv => RecoveryBoundary
  BY DEF IInv
<1> QED BY <1>1, Invariance, PTL

(* The latest asset of a format is one asset.                               *)
LEMMA LatestIsOne ==
    ASSUME NEW c \in Campaigns, NEW f, NEW a, NEW b,
           IsLatestOf(c, a, f), IsLatestOf(c, b, f)
    PROVE  a = b
<1>1. DOMAIN c.assets = 1..Len(c.assets)
  BY Parts, LenProperties
<1>2. a \in Nat /\ b \in Nat /\ a <= b /\ b <= a
  BY <1>1 DEF IsLatestOf
<1> QED BY <1>2

(* When every format passed, so did the primary asset of the result.        *)
LEMMA PrimaryPassed ==
    ASSUME NEW c \in Campaigns, c.layouts.formats # <<>>, AllFormatsPassed(c)
    PROVE  /\ PrimaryAsset(c) \in DOMAIN c.assets
           /\ PassedBy(c.compliance, PrimaryAsset(c))
<1> DEFINE formats == c.layouts.formats
           made == {i \in DOMAIN formats : formats[i] \in Generated(c)}
<1>1. /\ DOMAIN formats = 1..Len(formats) /\ 1 \in DOMAIN formats
  BY Parts, EmptySeq, LenProperties
<1>2. \A i \in DOMAIN formats : FormatPassed(c, formats[i])
  BY DEF AllFormatsPassed, ToSet
<1>3. formats[1] \in Generated(c)
  BY <1>1, <1>2 DEF FormatPassed, IsLatestOf, Generated
<1>4. made # {} /\ made \subseteq DOMAIN formats /\ made \subseteq Nat
  BY <1>1, <1>3
<1> HIDE DEF made
<1>5. Min(made) \in DOMAIN formats
  BY <1>4, MinIsMember
<1> DEFINE f == formats[Min(made)]
<1>6. FormatPassed(c, f)
  BY <1>2, <1>5
<1>7. PrimaryAsset(c) = CHOOSE a \in DOMAIN c.assets : IsLatestOf(c, a, f)
  BY <1>4 DEF PrimaryAsset, made
<1> HIDE DEF f, formats
<1>8. PICK b \in DOMAIN c.assets : IsLatestOf(c, b, f) /\ PassedBy(c.compliance, b)
  BY <1>6 DEF FormatPassed
<1>9. PrimaryAsset(c) \in DOMAIN c.assets /\ IsLatestOf(c, PrimaryAsset(c), f)
  BY <1>7, <1>8
<1>10. PrimaryAsset(c) = b
  BY <1>8, <1>9, LatestIsOne
<1> QED BY <1>8, <1>10

(* A campaign reported as completed or handed to its human review has every *)
(* format of its brief passed by both gates, and a primary asset that       *)
(* compliance passed.                                                       *)
THEOREM NothingUnpassedDelivered == Spec => []CompletedMeansDelivered
<1>1. IInv => CompletedMeansDelivered
  <2> SUFFICES ASSUME IInv, node = "end",
                      ResultStatus(campaign) \in {"completed", "waiting_for_review"}
               PROVE  /\ campaign.formats # <<>>
                      /\ \A f \in ToSet(campaign.formats) :
                           SummaryCompliant(campaign, f) /\ FormatPassed(campaign, f)
                      /\ PrimaryAsset(campaign) \in DOMAIN campaign.assets
                      /\ PassedBy(campaign.compliance, PrimaryAsset(campaign))
    BY DEF CompletedMeansDelivered
  <2>1. campaign.layouts.formats # <<>> /\ AllFormatsPassed(campaign)
    BY DEF IInv, NodeOK, ResultStatus
  <2>2. campaign \in Campaigns /\ campaign.layouts.formats = campaign.formats
    BY <2>1 DEF IInv, TypeOK, CampaignOK
  <2>3. \A f \in ToSet(campaign.formats) : FormatPassed(campaign, f)
    BY <2>1, <2>2 DEF AllFormatsPassed
  <2>4. \A f : FormatPassed(campaign, f) => SummaryCompliant(campaign, f)
    BY DEF FormatPassed, SummaryCompliant
  <2> QED BY <2>1, <2>2, <2>3, <2>4, PrimaryPassed
<1> QED BY <1>1, Invariance, PTL
=============================================================================
