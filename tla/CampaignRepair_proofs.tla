---------------------- MODULE CampaignRepair_proofs ----------------------
(***************************************************************************)
(* Three more theorems about CampaignDirector: what compliance vetoes is   *)
(* repaired by the next asset, what the critics disagree on is recorded    *)
(* once, and the campaign implements CampaignPromise.  All rest on the     *)
(* invariant of CampaignDirector_proofs and each adds one of its own, of   *)
(* campaign and checkpoint alike.                                          *)
(***************************************************************************)
EXTENDS CampaignDirector_proofs

(* VetoRepaired.  The review of the latest asset is a veto.                 *)
LastVetoed(c) == BothReviewed(c) /\ ~Last(c.compliance).passed

(* A veto has findings, and all are for the layout.                         *)
Gated(c) ==
    \A i \in 1..Len(c.compliance) :
       ~c.compliance[i].passed =>
         c.compliance[i].findings # <<>> /\ c.compliance[i].findings \in Seq({"layout"})

(* The layouts were rebuilt from the latest review.                         *)
Rebuilt(c) == c.layouts.basis = Latest(c) /\ c.layouts.repaired = LayoutRepair

(* A plan that answers a veto still calls for the layout, or it is done.    *)
PlanRepairs(c) ==
    LastVetoed(c) /\ c.plan.made =>
      c.plan.tasks # <<>> /\ (PlanCalls(c, "layout") \/ Rebuilt(c))

Repaired(c) ==
    \A i \in 1..Len(c.compliance) :
       ~c.compliance[i].passed /\ i < Latest(c) =>
         c.assets[i + 1] =
           [format |-> c.assets[i].format, basis |-> i, repaired |-> LayoutRepair]

RepairOK(c) ==
    /\ Repaired(c) /\ Gated(c) /\ PlanRepairs(c)
    /\ c.assets # <<>> => c.layouts.formats # <<>>

(* After a veto the graph goes to the layout first.                         *)
Routed ==
    /\ node = "layout" /\ LastVetoed(campaign) => PlanCalls(campaign, "layout")
    /\ node = "generation" /\ LastVetoed(campaign) =>
         campaign.plan.made /\ Rebuilt(campaign)

RepairInv == RepairOK(campaign) /\ RepairOK(checkpoint) /\ Routed

(* ConflictsRecorded.                                                       *)
Disputed(c, i) == c.quality[i].passed # c.compliance[i].passed

Entry(c, i) ==
    [asset |-> i, issue |-> IF c.compliance[i].passed THEN "quality" ELSE "veto"]

Entered(c, i) == \E k \in DOMAIN c.conflicts : c.conflicts[k] = Entry(c, i)

(* The conflicts of a campaign are entries, none twice, and none is missing *)
(* of an asset that has a successor.                                        *)
ConflictOK(c) ==
    /\ \A k \in DOMAIN c.conflicts :
         \E i \in 1..Len(c.quality) : c.conflicts[k] = Entry(c, i)
    /\ \A k, l \in DOMAIN c.conflicts : c.conflicts[k] = c.conflicts[l] => k = l
    /\ \A i \in 1..Len(c.quality) : Disputed(c, i) /\ i < Latest(c) => Entered(c, i)

(* When the director has decided, none is missing at all.                   *)
AllEntered(c) == \A i \in 1..Len(c.quality) : Disputed(c, i) => Entered(c, i)

ConflictInv ==
    /\ ConflictOK(campaign) /\ ConflictOK(checkpoint)
    /\ node \in Working \cup {"end"} => AllEntered(campaign)

-----------------------------------------------------------------------------
(* Reviews, assets and their numbers.                                       *)

(* In step, the last reviews are those of the last reviewed asset.          *)
LEMMA Numbers ==
    ASSUME NEW c \in Campaigns, InStep(c)
    PROVE  /\ Len(c.quality) \in Nat /\ Latest(c) \in Nat
           /\ Len(c.compliance) = Len(c.quality)
           /\ Len(c.quality) <= Latest(c) /\ Latest(c) <= Len(c.quality) + 1
           /\ Last(c.quality) = c.quality[Len(c.quality)]
           /\ Last(c.compliance) = c.compliance[Len(c.quality)]
           /\ \A i \in 1..Len(c.quality) : c.quality[i].asset = i
                                           /\ c.compliance[i].asset = i
           /\ c.quality = <<>> <=> Len(c.quality) = 0
           /\ c.compliance = <<>> <=> Len(c.quality) = 0
           /\ c.assets = <<>> <=> Latest(c) = 0
           /\ BothReviewed(c) <=> Len(c.quality) > 0 /\ Latest(c) = Len(c.quality)
<1>1. /\ Len(c.quality) \in Nat /\ Len(c.evaluations) \in Nat /\ Latest(c) \in Nat
  BY Parts, LenProperties
<1>2. /\ Len(c.compliance) = Len(c.quality)
      /\ Len(c.quality) <= Latest(c) /\ Latest(c) <= Len(c.quality) + 1
      /\ \A i \in 1..Len(c.quality) : c.quality[i].asset = i
                                      /\ c.compliance[i].asset = i
  BY <1>1 DEF InStep
<1>3. /\ c.quality = <<>> <=> Len(c.quality) = 0
      /\ c.compliance = <<>> <=> Len(c.quality) = 0
      /\ c.assets = <<>> <=> Latest(c) = 0
  BY <1>1, <1>2, Parts, EmptySeq DEF Latest
<1>4. /\ Last(c.quality) = c.quality[Len(c.quality)]
      /\ Last(c.compliance) = c.compliance[Len(c.quality)]
  BY <1>2 DEF Last
<1>5. BothReviewed(c) <=> Len(c.quality) > 0 /\ Latest(c) = Len(c.quality)
  <2>1. Len(c.quality) > 0 => Len(c.quality) \in 1..Len(c.quality)
    BY <1>1
  <2> QED BY <1>1, <1>2, <1>3, <1>4, <2>1 DEF BothReviewed, ReviewedLast
<1> QED BY <1>1, <1>2, <1>3, <1>4, <1>5

(* c and d differ at most in brief, strategies, evaluations, status and     *)
(* budgets.                                                                 *)
SameJudged(c, d) ==
    /\ d.assets = c.assets /\ d.quality = c.quality /\ d.compliance = c.compliance
    /\ d.plan = c.plan /\ d.layouts = c.layouts /\ d.conflicts = c.conflicts

LEMMA SameRepair ==
    ASSUME NEW c, NEW d, SameJudged(c, d), RepairOK(c)
    PROVE  RepairOK(d)
  BY DEF SameJudged, RepairOK, Repaired, Gated, PlanRepairs, LastVetoed, BothReviewed,
         ReviewedLast, PlanCalls, Rebuilt, Latest

LEMMA SameConflicts ==
    ASSUME NEW c, NEW d, SameJudged(c, d), ConflictOK(c)
    PROVE  ConflictOK(d)
  BY DEF SameJudged, ConflictOK, Entered, Entry, Disputed, Latest

(* Three nodes leave the judged work alone.                                 *)
LEMMA MinorNode ==
    ASSUME IInv, BriefNode \/ StrategyPanelNode \/ EvaluationNode
    PROVE  /\ SameJudged(campaign, campaign')
           /\ checkpoint' = campaign' /\ node' = "director"
<1>1. campaign \in Campaigns
  BY DEF IInv, TypeOK
<1>2. CASE BriefNode
  <2>1. PICK formats \in BriefFormats, ready \in BOOLEAN :
           Merge([campaign EXCEPT
                    !.brief   = IF ready THEN "ready" ELSE "unclear",
                    !.formats = formats,
                    !.status  = IF ready THEN "running" ELSE "waiting_for_user"])
    BY <1>2 DEF BriefNode
  <2> QED BY <1>1, <2>1 DEF Merge, SameJudged, Campaigns
<1>3. CASE StrategyPanelNode
  BY <1>1, <1>3 DEF StrategyPanelNode, Merge, SameJudged, Campaigns
<1>4. CASE EvaluationNode
  BY <1>1, <1>4 DEF EvaluationNode, Merge, SameJudged, Campaigns
<1> QED BY <1>2, <1>3, <1>4

(* The other nodes, field by field.                                         *)
LEMMA LayoutEffect ==
    ASSUME IInv, LayoutNode
    PROVE  /\ node = "layout" /\ node' = "director" /\ checkpoint' = campaign'
           /\ campaign'.layouts = BuildLayouts(campaign)
           /\ campaign'.plan.made = campaign.plan.made
           /\ campaign'.plan.tasks = [i \in DOMAIN campaign.plan.tasks |-> "generation"]
           /\ campaign'.assets = campaign.assets
           /\ campaign'.quality = campaign.quality
           /\ campaign'.compliance = campaign.compliance
           /\ campaign'.conflicts = campaign.conflicts
<1>1. campaign \in Campaigns
  BY DEF IInv, TypeOK
<1> QED BY <1>1 DEF LayoutNode, AllSucceeded, Merge, Campaigns

LEMMA GenerationEffect ==
    ASSUME IInv, GenerationNode
    PROVE  /\ node = "generation" /\ node' = "director" /\ checkpoint' = campaign'
           /\ campaign'.assets = Append(campaign.assets, NewAsset(campaign))
           /\ campaign'.plan = NoPlan
           /\ campaign'.layouts = campaign.layouts
           /\ campaign'.quality = campaign.quality
           /\ campaign'.compliance = campaign.compliance
           /\ campaign'.conflicts = campaign.conflicts
           /\ Latest(campaign') = Latest(campaign) + 1
           /\ \A i \in 1..Latest(campaign) : campaign'.assets[i] = campaign.assets[i]
           /\ campaign'.assets[Latest(campaign) + 1] = NewAsset(campaign)
<1>1. campaign \in Campaigns /\ campaign.layouts.formats # <<>>
  BY DEF IInv, TypeOK, NodeOK, GenerationNode, AllSucceeded
<1>2. NewAsset(campaign) \in Assets
  BY <1>1, TargetFormatTyped, Parts DEF NewAsset, Assets, Layouts
<1>3. /\ node = "generation" /\ node' = "director" /\ checkpoint' = campaign'
      /\ campaign'.assets = Append(campaign.assets, NewAsset(campaign))
      /\ campaign'.plan = NoPlan
      /\ campaign'.layouts = campaign.layouts
      /\ campaign'.quality = campaign.quality
      /\ campaign'.compliance = campaign.compliance
      /\ campaign'.conflicts = campaign.conflicts
  BY <1>1 DEF GenerationNode, AllSucceeded, Merge, Campaigns
<1> QED BY <1>1, <1>2, <1>3, Parts, AppendProperties DEF Latest

LEMMA ReviewEffect ==
    ASSUME IInv, ReviewPanelNode
    PROVE  \E q, p \in Reviews :
           /\ node' = "director" /\ checkpoint' = campaign'
           /\ campaign'.assets = campaign.assets
           /\ campaign'.plan = campaign.plan /\ ~campaign.plan.made
           /\ campaign'.layouts = campaign.layouts
           /\ campaign'.conflicts = campaign.conflicts
           /\ Len(campaign'.quality) = Len(campaign.quality) + 1
           /\ Len(campaign'.compliance) = Len(campaign.quality) + 1
           /\ Latest(campaign) = Len(campaign.quality) + 1
           /\ \A i \in 1..Len(campaign.quality) :
                /\ campaign'.quality[i] = campaign.quality[i]
                /\ campaign'.compliance[i] = campaign.compliance[i]
           /\ campaign'.compliance[Len(campaign.quality) + 1] = p
           /\ ~p.passed => p.findings # <<>> /\ p.findings \in Seq({"layout"})
<1>1. PICK verdict \in QualityVerdicts, findings \in Compliance :
         Merge([campaign EXCEPT
                  !.quality = Append(@, [asset |-> Latest(campaign),
                                         passed |-> verdict.passed,
                                         findings |-> verdict.findings]),
                  !.compliance = Append(@, [asset |-> Latest(campaign),
                                            passed |-> findings = <<>>,
                                            findings |-> findings])])
  BY DEF ReviewPanelNode
<1> DEFINE q == [asset |-> Latest(campaign), passed |-> verdict.passed,
                 findings |-> verdict.findings]
           p == [asset |-> Latest(campaign), passed |-> findings = <<>>,
                 findings |-> findings]
           n == Len(campaign.quality)
<1>2. campaign \in Campaigns /\ CampaignOK(campaign) /\ node = "review_panel"
  BY DEF IInv, TypeOK, ReviewPanelNode, AllSucceeded
<1>3. n \in Nat /\ Latest(campaign) = n + 1 /\ Len(campaign.compliance) = n
      /\ Latest(campaign) \in Nat
  BY <1>2, Parts, LenProperties DEF IInv, NodeOK, CampaignOK, InStep
<1>4. findings \in Seq({"layout"})
  BY CampaignAssumption, EmptySeq DEF Compliance
<1>5. findings \in Seq(Targets)
  <2>1. \A i \in 1..Len(findings) : findings[i] \in Targets
    BY <1>4, ElementOfSeq DEF Targets
  <2> QED BY <1>4, <2>1
<1>6. q \in Reviews
  <2>1. verdict.passed \in BOOLEAN /\ verdict.findings \in Seq(Targets)
    BY CampaignAssumption
  <2> QED BY <1>3, <2>1 DEF Reviews
<1>7. p \in Reviews
  <2>1. (findings = <<>>) \in BOOLEAN
    OBVIOUS
  <2> QED BY <1>3, <1>5, <2>1 DEF Reviews
<1>8. ~p.passed => p.findings # <<>> /\ p.findings \in Seq({"layout"})
  BY <1>4
<1> HIDE DEF p, q
<1>9. /\ campaign' = [campaign EXCEPT !.quality = Append(campaign.quality, q),
                                      !.compliance = Append(campaign.compliance, p)]
      /\ checkpoint' = campaign' /\ node' = "director"
  BY <1>1 DEF Merge, p, q
<1>10. /\ campaign'.quality = Append(campaign.quality, q)
       /\ campaign'.compliance = Append(campaign.compliance, p)
       /\ campaign'.assets = campaign.assets /\ campaign'.plan = campaign.plan
       /\ campaign'.layouts = campaign.layouts
       /\ campaign'.conflicts = campaign.conflicts
  BY <1>2, <1>9 DEF Campaigns
<1>11. /\ Len(campaign'.quality) = n + 1
       /\ \A i \in 1..n : campaign'.quality[i] = campaign.quality[i]
  BY <1>2, <1>6, <1>10, Parts, AppendProperties
<1>12. /\ Len(campaign'.compliance) = n + 1
       /\ \A i \in 1..n : campaign'.compliance[i] = campaign.compliance[i]
       /\ campaign'.compliance[n + 1] = p
  <2>1. campaign.compliance \in Seq(Reviews)
    BY <1>2, Parts
  <2> HIDE DEF n
  <2> QED BY <1>3, <1>7, <1>10, <2>1, AppendProperties
<1>13. ~campaign.plan.made
  <2>1. ~BothReviewed(campaign)
    BY <1>2, <1>3, ReviewedCount DEF CampaignOK
  <2> QED BY <1>2, <2>1 DEF CampaignOK, PlanCurrent
<1> QED BY <1>3, <1>6, <1>7, <1>8, <1>9, <1>10, <1>11, <1>12, <1>13

-----------------------------------------------------------------------------
(* The director.                                                            *)

(* Selection and count leave the plan alone; a plan is made exactly when    *)
(* there is something to revise, from the last reviews.                     *)
LEMMA PlanMade ==
    ASSUME NEW c \in Campaigns, CampaignOK(c), c.rounds < MaxRounds,
           NEW d, d = CountRound(Plan(Select(c)))
    PROVE  /\ c.plan.made => d.plan = c.plan
           /\ ~c.plan.made /\ d.plan.made => d.plan = BuildRevisionPlan(d)
           /\ BothReviewed(d) /\ ~BothPassed(d) => d.plan.made
<1> DEFINE s == Select(c)
           p == Plan(s)
<1>1. d \in Campaigns /\ SameWork(c, d) /\ (c.plan.made => d.plan = c.plan)
  BY BeforeDecision
<1>2. s \in Campaigns /\ s = [c EXCEPT !.selected = s.selected]
  BY SelectEffect DEF CampaignOK
<1>3. SameReviews(c, s) /\ s.plan = c.plan
  BY <1>2 DEF Campaigns, SameReviews
<1>4. SameReviews(c, d)
  BY <1>1 DEF SameWork, Contributed, SameReviews
<1>5. SameReviews(s, d)
  BY <1>3, <1>4 DEF SameReviews
<1> HIDE DEF s
<1>6. PlanCurrent(s)
  BY <1>3, SameVerdicts DEF CampaignOK, PlanCurrent
<1>7. p \in Campaigns
  BY <1>2, <1>6, PlanEffect
<1>8. d.plan = p.plan
  <2>1. d = [p EXCEPT !.rounds = @ + 1]
    BY DEF CountRound, s
  <2> QED BY <1>7, <2>1 DEF Campaigns
<1>9. BuildRevisionPlan(s) = BuildRevisionPlan(d)
  BY <1>5 DEF SameReviews, BuildRevisionPlan, Findings
<1>10. p.plan = IF BothReviewed(s) /\ ~BothPassed(s) /\ ~s.plan.made
                THEN BuildRevisionPlan(s) ELSE s.plan
  BY <1>2 DEF Plan, Campaigns
<1>11. (BothReviewed(s) <=> BothReviewed(d)) /\ (BothPassed(s) <=> BothPassed(d))
  BY <1>5, SameVerdicts
<1>12. BuildRevisionPlan(s).made
  BY DEF BuildRevisionPlan
<1> QED BY <1>1, <1>3, <1>8, <1>9, <1>10, <1>11, <1>12

(* A plan made on a veto calls for the layout first.                        *)
LEMMA VetoPlansLayout ==
    ASSUME NEW d \in Campaigns, InStep(d), Gated(d), LastVetoed(d),
           d.plan = BuildRevisionPlan(d)
    PROVE  d.plan.tasks # <<>> /\ PlanCalls(d, "layout")
<1> DEFINE n == Len(d.quality)
           g == Last(d.compliance).findings
           f == Findings(d)
           m == IF Len(f) < 3 THEN Len(f) ELSE 3
<1>1. n \in Nat /\ n > 0 /\ Len(d.compliance) = n
      /\ Last(d.compliance) = d.compliance[n]
  BY Numbers DEF LastVetoed
<1>2. g # <<>> /\ g \in Seq({"layout"})
  BY <1>1 DEF Gated, LastVetoed
<1>3. Last(d.quality).findings \in Seq(Targets) /\ g \in Seq(Targets)
  <2>1. Last(d.quality) \in Reviews /\ Last(d.compliance) \in Reviews
    BY <1>1, Numbers, LastReview, Parts
  <2> QED BY <2>1 DEF Reviews
<1>4. Len(g) \in Nat /\ Len(g) > 0 /\ g[1] = "layout"
  <2>1. Len(g) \in Nat /\ Len(g) # 0
    BY <1>2, EmptySeq, LenProperties
  <2>2. 1 \in 1..Len(g)
    BY <2>1
  <2>3. g[1] \in {"layout"}
    BY <1>2, <2>2, ElementOfSeq
  <2> QED BY <2>1, <2>3
<1> HIDE DEF g
<1>5. f = g \o Last(d.quality).findings
  BY DEF Findings, g
<1>6. f \in Seq(Targets) /\ Len(f) \in Nat /\ Len(f) > 0 /\ f[1] = "layout"
  <2>1. Len(Last(d.quality).findings) \in Nat
    BY <1>3, LenProperties
  <2>2. 1 \in 1..Len(g)
    BY <1>4
  <2> QED BY <1>3, <1>4, <1>5, <2>1, <2>2, ConcatProperties
<1> HIDE DEF f
<1>7. m \in 1..Len(f)
  BY <1>6
<1> HIDE DEF m
<1>8. d.plan = [made |-> TRUE, tasks |-> SubSeq(f, 1, m)]
  BY DEF BuildRevisionPlan, f, m
<1> DEFINE t == SubSeq(f, 1, m)
<1>9. Len(t) = m /\ t[1] = f[1] /\ t \in Seq(Targets)
  <2>1. m \in Nat /\ m > 0 /\ \A i \in 1..m : f[i] \in Targets
    <3>1. m \in Nat /\ m > 0 /\ \A i \in 1..m : i \in 1..Len(f)
      BY <1>6, <1>7
    <3> QED BY <1>6, <3>1, ElementOfSeq
  <2>2. /\ SubSeq(f, 1, m) \in Seq(Targets)
        /\ Len(SubSeq(f, 1, m)) = IF 1 <= m THEN m - 1 + 1 ELSE 0
        /\ \A i \in 1..(m - 1 + 1) : SubSeq(f, 1, m)[i] = f[1 + i - 1]
    BY <1>6, <2>1, SubSeqProperties
  <2> QED BY <2>1, <2>2
<1> HIDE DEF t
<1>10. t # <<>> /\ 1 \in DOMAIN t
  BY <1>7, <1>9, LenProperties, EmptySeq
<1>11. "layout" \in ToSet(t)
  BY <1>6, <1>9, <1>10 DEF ToSet
<1>12. d.plan.made /\ d.plan.tasks = t
  <2> DEFINE r == [made |-> TRUE, tasks |-> t]
  <2>1. d.plan = r
    BY <1>8 DEF t
  <2>2. r.made /\ r.tasks = t
    OBVIOUS
  <2> HIDE DEF r
  <2> QED BY <2>1, <2>2, Zenon
<1>13. d.plan.tasks # <<>> /\ "layout" \in ToSet(d.plan.tasks)
  BY <1>10, <1>11, <1>12, Zenon
<1> QED BY <1>12, <1>13 DEF PlanCalls

(* Where a decision goes that has a plan to carry out.                      *)
LEMMA DecideByPlan ==
    ASSUME NEW c \in Campaigns, c.layouts.formats # <<>>
    PROVE  /\ Decide(c).node = "generation" => ~PlanCalls(c, "layout")
           /\ Decide(c).node = "layout" /\ PlanCalls(c, "generation") =>
                PlanCalls(c, "layout")
<1>1. CASE PlanCalls(c, "layout")
  BY <1>1 DEF Decide, Go, Stop
<1>2. CASE ~PlanCalls(c, "layout") /\ PlanCalls(c, "generation")
  BY <1>2 DEF Decide, Go, Stop
<1> QED BY <1>1, <1>2

(* A plan with tasks calls somebody.                                        *)
LEMMA PlanCallsOne ==
    ASSUME NEW c \in Campaigns, c.plan.made, c.plan.tasks # <<>>
    PROVE  PlanCalls(c, "layout") \/ PlanCalls(c, "generation")
<1>1. c.plan.tasks \in Seq(Targets)
  BY Parts
<1>2. 1 \in DOMAIN c.plan.tasks /\ c.plan.tasks[1] \in Targets
  <2>1. Len(c.plan.tasks) \in Nat /\ Len(c.plan.tasks) # 0
    BY <1>1, EmptySeq, LenProperties
  <2>2. 1 \in 1..Len(c.plan.tasks)
    BY <2>1
  <2> QED BY <1>1, <2>2, ElementOfSeq, LenProperties
<1>3. c.plan.tasks[1] \in ToSet(c.plan.tasks)
  BY <1>2 DEF ToSet
<1> QED BY <1>2, <1>3 DEF PlanCalls, Targets

(* What a round of the director leaves.                                     *)
LEMMA DirectEffect ==
    ASSUME IInv, Direct
    PROVE  \E d \in Campaigns :
           /\ d = CountRound(Plan(Select(campaign)))
           /\ campaign \in Campaigns /\ CampaignOK(campaign)
           /\ campaign.rounds < MaxRounds
           /\ CampaignOK(d) /\ SameWork(campaign, d)
           /\ d.conflicts = campaign.conflicts
           /\ node' = Decide(d).node /\ node' \in Working \cup {"end", "raised"}
           /\ checkpoint' = checkpoint
           /\ campaign'.conflicts = Resolve(d).conflicts
           /\ campaign'.assets = d.assets /\ campaign'.quality = d.quality
           /\ campaign'.compliance = d.compliance /\ campaign'.plan = d.plan
           /\ campaign'.layouts = d.layouts
<1> DEFINE d == CountRound(Plan(Select(campaign)))
<1>1. /\ node = "director" /\ checkpoint' = checkpoint
      /\ campaign' = [Resolve(d) EXCEPT
                        !.status = IF Decide(d).node = "end" THEN Decide(d).status ELSE @]
      /\ node' = Decide(d).node
  BY DEF Direct
<1>2. /\ campaign \in Campaigns /\ CampaignOK(campaign) /\ campaign.rounds < MaxRounds
  BY <1>1 DEF IInv, TypeOK, NodeOK
<1>3. /\ d \in Campaigns /\ CampaignOK(d) /\ SameWork(campaign, d)
      /\ d.conflicts = campaign.conflicts
  BY <1>2, BeforeDecision
<1>4. Decide(d).node \in Working \cup {"end", "raised"}
  BY <1>3, DecideEffect DEF CampaignOK
<1>5. /\ Resolve(d) \in Campaigns
      /\ Resolve(d) = [d EXCEPT !.conflicts = Resolve(d).conflicts]
  BY <1>3, ResolveEffect
<1> HIDE DEF d
<1>6. /\ campaign'.conflicts = Resolve(d).conflicts
      /\ campaign'.assets = d.assets /\ campaign'.quality = d.quality
      /\ campaign'.compliance = d.compliance /\ campaign'.plan = d.plan
      /\ campaign'.layouts = d.layouts
  BY <1>1, <1>3, <1>5 DEF Campaigns
<1> QED BY <1>1, <1>2, <1>3, <1>4, <1>6 DEF d

-----------------------------------------------------------------------------
(* Vetoes are repaired.                                                     *)

LEMMA DirectRepairs ==
    ASSUME IInv, RepairInv, Direct
    PROVE  RepairInv'
<1>1. PICK d \in Campaigns :
           /\ d = CountRound(Plan(Select(campaign)))
           /\ campaign \in Campaigns /\ CampaignOK(campaign)
           /\ campaign.rounds < MaxRounds
           /\ CampaignOK(d) /\ SameWork(campaign, d)
           /\ node' = Decide(d).node
           /\ checkpoint' = checkpoint
           /\ campaign'.assets = d.assets /\ campaign'.quality = d.quality
           /\ campaign'.compliance = d.compliance /\ campaign'.plan = d.plan
           /\ campaign'.layouts = d.layouts
  BY DirectEffect
<1>2. /\ campaign.plan.made => d.plan = campaign.plan
      /\ ~campaign.plan.made /\ d.plan.made => d.plan = BuildRevisionPlan(d)
      /\ BothReviewed(d) /\ ~BothPassed(d) => d.plan.made
  BY <1>1, PlanMade
<1>3. /\ d.assets = campaign.assets /\ d.quality = campaign.quality
      /\ d.compliance = campaign.compliance /\ d.layouts = campaign.layouts
  BY <1>1 DEF SameWork, Contributed
<1>4. Repaired(d) /\ Gated(d) /\ (d.assets # <<>> => d.layouts.formats # <<>>)
  BY <1>3 DEF RepairInv, RepairOK, Repaired, Gated, Latest
<1>5. PlanRepairs(d)
  <2>1. CASE campaign.plan.made
    BY <1>2, <1>3, <2>1 DEF RepairInv, RepairOK, PlanRepairs, LastVetoed, BothReviewed,
                            ReviewedLast, PlanCalls, Rebuilt, Latest
  <2>2. CASE ~campaign.plan.made
    BY <1>1, <1>2, <1>4, <2>2, VetoPlansLayout DEF PlanRepairs, CampaignOK
  <2> QED BY <2>1, <2>2
<1>6. RepairOK(campaign')
  BY <1>1, <1>4, <1>5 DEF RepairOK, Repaired, Gated, PlanRepairs, LastVetoed,
                          BothReviewed, ReviewedLast, PlanCalls, Rebuilt, Latest
<1>7. LastVetoed(d) =>
        /\ d.plan.made
        /\ node' = "layout" => PlanCalls(d, "layout")
        /\ node' = "generation" => Rebuilt(d)
  <2> SUFFICES ASSUME LastVetoed(d)
               PROVE  /\ d.plan.made
                      /\ node' = "layout" => PlanCalls(d, "layout")
                      /\ node' = "generation" => Rebuilt(d)
    OBVIOUS
  <2>1. d.plan.made
    BY <1>2 DEF LastVetoed, BothPassed
  <2>2. d.plan.tasks # <<>> /\ (PlanCalls(d, "layout") \/ Rebuilt(d))
    BY <1>5, <2>1 DEF PlanRepairs
  <2>3. PlanCalls(d, "layout") \/ PlanCalls(d, "generation")
    BY <2>1, <2>2, PlanCallsOne
  <2>4. d.layouts.formats # <<>>
    BY <1>4 DEF LastVetoed, BothReviewed
  <2> QED BY <1>1, <2>1, <2>2, <2>3, <2>4, DecideByPlan
<1>8. Routed'
  BY <1>1, <1>7 DEF Routed, LastVetoed, BothReviewed, ReviewedLast, PlanCalls, Rebuilt,
                    Latest
<1>9. RepairOK(checkpoint')
  BY <1>1 DEF RepairInv
<1> QED BY <1>6, <1>8, <1>9 DEF RepairInv, RepairOK, Repaired, Gated, PlanRepairs,
                                LastVetoed, BothReviewed, ReviewedLast, PlanCalls, Rebuilt,
                                Latest

(* A node that hands a repaired campaign back to the director.              *)
LEMMA HandedBack ==
    ASSUME RepairOK(campaign'), checkpoint' = campaign', node' = "director"
    PROVE  RepairInv'
  BY DEF RepairInv, RepairOK, Routed, Repaired, Gated, PlanRepairs, LastVetoed,
         BothReviewed, ReviewedLast, PlanCalls, Rebuilt, Latest

LEMMA LayoutRepairs ==
    ASSUME IInv, RepairInv, LayoutNode
    PROVE  RepairInv'
<1>1. /\ node = "layout" /\ node' = "director" /\ checkpoint' = campaign'
      /\ campaign'.layouts = BuildLayouts(campaign)
      /\ campaign'.plan.made = campaign.plan.made
      /\ campaign'.plan.tasks = [i \in DOMAIN campaign.plan.tasks |-> "generation"]
      /\ campaign'.assets = campaign.assets
      /\ campaign'.quality = campaign.quality
      /\ campaign'.compliance = campaign.compliance
  BY LayoutEffect
<1>2. Repaired(campaign') /\ Gated(campaign')
  BY <1>1 DEF RepairInv, RepairOK, Repaired, Gated, Latest
<1>3. campaign \in Campaigns /\ CampaignOK(campaign)
  BY DEF IInv, TypeOK
<1>4. campaign'.assets # <<>> => campaign'.layouts.formats # <<>>
  BY <1>1, <1>3 DEF RepairInv, RepairOK, CampaignOK, BuildLayouts
<1>5. PlanRepairs(campaign')
  <2> SUFFICES ASSUME LastVetoed(campaign'), campaign'.plan.made
               PROVE  campaign'.plan.tasks # <<>> /\ Rebuilt(campaign')
    BY DEF PlanRepairs
  <2>1. LastVetoed(campaign) /\ campaign.plan.made
    BY <1>1 DEF LastVetoed, BothReviewed, ReviewedLast, Latest
  <2>2. PlanCalls(campaign, "layout") /\ campaign.plan.tasks # <<>>
    BY <1>1, <2>1 DEF RepairInv, RepairOK, Routed, PlanRepairs
  <2>3. campaign.plan.tasks \in Seq(Targets)
    BY <1>3, Parts
  <2>4. 1 \in DOMAIN campaign.plan.tasks
    BY <2>2, <2>3, EmptySeq, LenProperties
  <2>5. DOMAIN campaign'.plan.tasks = DOMAIN campaign.plan.tasks
    BY <1>1
  <2>6. campaign'.plan.tasks # <<>>
    BY <2>4, <2>5, EmptySeq
  <2>7. Rebuilt(campaign')
    BY <1>1, <2>2, CampaignAssumption DEF Rebuilt, BuildLayouts, Latest
  <2> QED BY <2>6, <2>7
<1> QED BY <1>1, <1>2, <1>4, <1>5, HandedBack DEF RepairOK

LEMMA GenerationRepairs ==
    ASSUME IInv, RepairInv, GenerationNode
    PROVE  RepairInv'
<1> DEFINE n == Len(campaign.quality)
<1>1. /\ node = "generation" /\ node' = "director" /\ checkpoint' = campaign'
      /\ campaign'.plan = NoPlan
      /\ campaign'.layouts = campaign.layouts
      /\ campaign'.quality = campaign.quality
      /\ campaign'.compliance = campaign.compliance
      /\ Latest(campaign') = Latest(campaign) + 1
      /\ \A i \in 1..Latest(campaign) : campaign'.assets[i] = campaign.assets[i]
      /\ campaign'.assets[Latest(campaign) + 1] = NewAsset(campaign)
  BY GenerationEffect
<1>2. /\ campaign \in Campaigns /\ InStep(campaign)
      /\ Latest(campaign) = n /\ campaign.layouts.formats # <<>>
  BY <1>1 DEF IInv, TypeOK, CampaignOK, NodeOK
<1>3. n \in Nat /\ Len(campaign.compliance) = n
      /\ Last(campaign.compliance) = campaign.compliance[n]
      /\ (BothReviewed(campaign) <=> n > 0)
      /\ (campaign.assets # <<>> <=> n > 0)
  BY <1>2, Numbers
<1>4. Repaired(campaign')
  <2> SUFFICES ASSUME NEW i \in 1..n, ~campaign.compliance[i].passed
               PROVE  campaign'.assets[i + 1] =
                        [format |-> campaign'.assets[i].format, basis |-> i,
                         repaired |-> LayoutRepair]
    BY <1>1, <1>3 DEF Repaired
  <2>0. i \in Nat /\ campaign'.assets[i] = campaign.assets[i]
    BY <1>1, <1>2, <1>3
  <2>1. CASE i = n
    <3>1. LastVetoed(campaign)
      BY <1>3, <2>1 DEF LastVetoed
    <3>2. campaign.plan.made /\ Rebuilt(campaign)
      BY <1>1, <3>1 DEF RepairInv, Routed
    <3>3. TargetFormat(campaign) = Last(campaign.assets).format
      BY <1>3, <2>1, <3>2 DEF TargetFormat
    <3>4. Last(campaign.assets) = campaign.assets[n]
      BY <1>2 DEF Last, Latest
    <3> QED BY <1>1, <1>2, <2>0, <2>1, <3>2, <3>3, <3>4 DEF NewAsset, Rebuilt
  <2>2. CASE i # n
    <3>1. i < Latest(campaign) /\ i + 1 \in 1..Latest(campaign) /\ i \in 1..Len(campaign.compliance)
      BY <1>2, <1>3, <2>2
    <3> QED BY <1>1, <2>0, <3>1 DEF RepairInv, RepairOK, Repaired
  <2> QED BY <2>1, <2>2
<1>5. Gated(campaign')
  BY <1>1 DEF RepairInv, RepairOK, Gated
<1>6. PlanRepairs(campaign')
  BY <1>1 DEF PlanRepairs, NoPlan
<1> QED BY <1>1, <1>2, <1>4, <1>5, <1>6, HandedBack DEF RepairOK

LEMMA ReviewRepairs ==
    ASSUME IInv, RepairInv, ReviewPanelNode
    PROVE  RepairInv'
<1> DEFINE n == Len(campaign.quality)
<1>1. PICK q, p \in Reviews :
           /\ node' = "director" /\ checkpoint' = campaign'
           /\ campaign'.assets = campaign.assets
           /\ campaign'.plan = campaign.plan /\ ~campaign.plan.made
           /\ campaign'.layouts = campaign.layouts
           /\ Len(campaign'.compliance) = n + 1
           /\ Latest(campaign) = n + 1
           /\ \A i \in 1..n : campaign'.compliance[i] = campaign.compliance[i]
           /\ campaign'.compliance[n + 1] = p
           /\ ~p.passed => p.findings # <<>> /\ p.findings \in Seq({"layout"})
  BY ReviewEffect
<1>2. n \in Nat /\ Len(campaign.compliance) = n
  BY Numbers DEF IInv, TypeOK, CampaignOK
<1>3. \A i \in 1..(n + 1) : i \in 1..n \/ i = n + 1
  BY <1>2
<1>4. Gated(campaign')
  BY <1>1, <1>2, <1>3 DEF RepairInv, RepairOK, Gated
<1>5. Repaired(campaign')
  <2>1. Latest(campaign') = n + 1
    BY <1>1 DEF Latest
  <2>2. \A i \in 1..(n + 1) : i < n + 1 => i \in 1..n
    BY <1>2
  <2> QED BY <1>1, <1>2, <2>1, <2>2 DEF RepairInv, RepairOK, Repaired
<1>6. PlanRepairs(campaign')
  BY <1>1 DEF PlanRepairs
<1>7. campaign'.assets # <<>> => campaign'.layouts.formats # <<>>
  BY <1>1 DEF RepairInv, RepairOK
<1> QED BY <1>1, <1>4, <1>5, <1>6, <1>7, HandedBack DEF RepairOK

(* Steps that leave the campaigns alone, or load the stored one.            *)
LEMMA OtherRepairs ==
    ASSUME RepairInv, checkpoint' = checkpoint,
           campaign' \in {campaign, checkpoint},
           \/ campaign' = campaign /\ node' = node
           \/ node' \in {"raised", "down", "director"}
    PROVE  RepairInv'
<1>1. RepairOK(campaign') /\ RepairOK(checkpoint')
  BY DEF RepairInv
<1>2. Routed'
  BY DEF RepairInv, Routed, LastVetoed, BothReviewed, ReviewedLast, PlanCalls, Rebuilt,
         Latest
<1> QED BY <1>1, <1>2 DEF RepairInv, RepairOK, Repaired, Gated, PlanRepairs,
                          LastVetoed, BothReviewed, ReviewedLast, PlanCalls, Rebuilt, Latest

LEMMA InitRepairs ==
    ASSUME Init
    PROVE  RepairInv
<1>1. /\ Fresh.assets = <<>> /\ Fresh.compliance = <<>> /\ ~Fresh.plan.made
      /\ Len(<<>>) = 0
  BY EmptySeq DEF Fresh, NoPlan
<1>2. RepairOK(Fresh)
  BY <1>1 DEF RepairOK, Repaired, Gated, PlanRepairs
<1> QED BY <1>2 DEF Init, RepairInv, Routed

(* The asset that follows a veto has the format of the vetoed one and is    *)
(* made from layouts rebuilt on its review, with the repairs applied:       *)
(* LayoutAgent goes first, and generation takes what it built, whatever     *)
(* fails and is resumed in between.                                         *)
THEOREM VetoesRepaired == Spec => []VetoRepaired
<1>1. Init => RepairInv
  BY InitRepairs
<1>2. IInv /\ RepairInv /\ [Next]_vars => RepairInv'
  <2> SUFFICES ASSUME IInv, RepairInv, [Next]_vars PROVE RepairInv'
    OBVIOUS
  <2>1. CASE Direct
    BY <2>1, DirectRepairs
  <2>2. CASE \E r \in Roles : Succeed(r) \/ Retry(r) \/ GiveUp(r)
    <3>1. campaign' = campaign /\ checkpoint' = checkpoint /\ node' = node
      BY <2>2 DEF Succeed, Retry, GiveUp
    <3> QED BY <3>1, OtherRepairs
  <2>3. CASE NodeRaises \/ Crash \/ Resume
    BY <2>3, OtherRepairs DEF NodeRaises, Crash, Resume
  <2>4. CASE BriefNode \/ StrategyPanelNode \/ EvaluationNode
    BY <2>4, MinorNode, SameRepair, HandedBack DEF RepairInv
  <2>5. CASE LayoutNode
    BY <2>5, LayoutRepairs
  <2>6. CASE GenerationNode
    BY <2>6, GenerationRepairs
  <2>7. CASE ReviewPanelNode
    BY <2>7, ReviewRepairs
  <2>8. CASE UNCHANGED vars
    BY <2>8, OtherRepairs DEF vars
  <2> QED BY <2>1, <2>2, <2>3, <2>4, <2>5, <2>6, <2>7, <2>8 DEF Next, Run
<1>3. RepairInv => VetoRepaired
  BY DEF RepairInv, RepairOK, Repaired, VetoRepaired
<1> QED BY <1>1, <1>2, <1>3, Invariance, PTL DEF Spec

-----------------------------------------------------------------------------
(* Conflicts are recorded once.                                             *)

(* The conflicts of a campaign are records, at places 1 to their number.    *)
LEMMA ConflictsTyped ==
    ASSUME NEW c \in Campaigns
    PROVE  /\ DOMAIN c.conflicts = 1..Len(c.conflicts) /\ Len(c.conflicts) \in Nat
           /\ \A k \in DOMAIN c.conflicts :
                c.conflicts[k] \in [asset : Nat, issue : {"veto", "quality"}]
<1> DEFINE Records == [asset : Nat, issue : {"veto", "quality"}]
<1>1. c.conflicts \in Seq(Records)
  BY Parts
<1> HIDE DEF Records
<1>2. DOMAIN c.conflicts = 1..Len(c.conflicts) /\ Len(c.conflicts) \in Nat
  BY <1>1, LenProperties
<1>3. \A k \in DOMAIN c.conflicts : c.conflicts[k] \in Records
  BY <1>1, <1>2, ElementOfSeq
<1> QED BY <1>2, <1>3 DEF Records

(* What resolve_conflict records is the dispute on the last reviewed asset. *)
LEMMA ConflictIsEntry ==
    ASSUME NEW c \in Campaigns, InStep(c)
    PROVE  /\ InConflict(c) <=> Len(c.quality) > 0 /\ Disputed(c, Len(c.quality))
           /\ InConflict(c) => Conflict(c) = Entry(c, Len(c.quality))
<1> DEFINE n == Len(c.quality)
<1>1. /\ n \in Nat /\ Latest(c) \in Nat /\ n <= Latest(c)
      /\ Last(c.quality) = c.quality[n] /\ Last(c.compliance) = c.compliance[n]
      /\ c.quality = <<>> <=> n = 0
      /\ c.compliance = <<>> <=> n = 0
      /\ c.assets = <<>> <=> Latest(c) = 0
      /\ \A i \in 1..n : c.quality[i].asset = i /\ c.compliance[i].asset = i
  BY Numbers
<1> HIDE DEF n
<1>2. n > 0 => n \in 1..n
  BY <1>1
<1>3. n > 0 => c.quality[n].asset = n /\ c.compliance[n].asset = n
  BY <1>1, <1>2
<1>4. InConflict(c) <=> n > 0 /\ Disputed(c, n)
  BY <1>1, <1>3 DEF InConflict, Disputed
<1>5. InConflict(c) => Conflict(c) = Entry(c, n)
  BY <1>1, <1>3, <1>4 DEF Conflict, Entry
<1> QED BY <1>4, <1>5 DEF n

(* Resolving keeps the records right and completes them.                    *)
LEMMA ResolveEnters ==
    ASSUME NEW d \in Campaigns, InStep(d), ConflictOK(d),
           NEW e \in Campaigns,
           e.assets = d.assets, e.quality = d.quality, e.compliance = d.compliance,
           e.conflicts = Resolve(d).conflicts
    PROVE  ConflictOK(e) /\ AllEntered(e)
<1> DEFINE n == Len(d.quality)
           x == Conflict(d)
           m == Len(d.conflicts)
<1>1. n \in Nat /\ Latest(d) \in Nat /\ n <= Latest(d) /\ Latest(e) = Latest(d)
  BY Numbers DEF Latest
<1>2. \A i : Entry(e, i) = Entry(d, i) /\ (Disputed(e, i) <=> Disputed(d, i))
  BY DEF Entry, Disputed
<1>3. /\ InConflict(d) <=> n > 0 /\ Disputed(d, n)
      /\ InConflict(d) => x = Entry(d, n)
  BY ConflictIsEntry
<1>4. DOMAIN d.conflicts = 1..m /\ m \in Nat
  BY ConflictsTyped
<1> HIDE DEF x
<1>5. CASE InConflict(d) /\ x \notin ToSet(d.conflicts)
  <2>1. e.conflicts = Append(d.conflicts, x)
    BY <1>5 DEF Resolve, Campaigns, x
  <2>2. d.conflicts \in Seq([asset : Nat, issue : {"veto", "quality"}])
    BY Parts
  <2>3. x \in [asset : Nat, issue : {"veto", "quality"}]
    BY <1>1, <1>3, <1>5 DEF Entry
  <2>4. /\ DOMAIN e.conflicts = 1..(m + 1) /\ e.conflicts[m + 1] = x
        /\ \A k \in 1..m : e.conflicts[k] = d.conflicts[k]
    BY <2>1, <2>2, <2>3, AppendProperties, LenProperties
  <2>5. \A k \in 1..(m + 1) : k \in 1..m \/ k = m + 1
    BY <1>4
  <2>6. \A k \in 1..m : k \in 1..(m + 1) /\ d.conflicts[k] # x
    BY <1>4, <1>5 DEF ToSet
  <2>7. m + 1 \in 1..(m + 1) /\ n \in 1..n
    BY <1>1, <1>3, <1>4, <1>5
  <2>8. \A k \in DOMAIN e.conflicts : \E i \in 1..n : e.conflicts[k] = Entry(d, i)
    BY <1>3, <1>4, <1>5, <2>4, <2>5, <2>7 DEF ConflictOK
  <2>9. \A k, l \in DOMAIN e.conflicts : e.conflicts[k] = e.conflicts[l] => k = l
    BY <1>4, <2>4, <2>5, <2>6 DEF ConflictOK
  <2>10. \A i \in 1..n : Disputed(d, i) => \E k \in DOMAIN e.conflicts : e.conflicts[k] = Entry(d, i)
    <3> SUFFICES ASSUME NEW i \in 1..n, Disputed(d, i)
                 PROVE  \E k \in DOMAIN e.conflicts : e.conflicts[k] = Entry(d, i)
      OBVIOUS
    <3>1. CASE i = n
      BY <1>3, <1>5, <2>4, <2>7, <3>1
    <3>2. CASE i # n
      <4>1. i < Latest(d)
        BY <1>1, <3>2
      <4>2. PICK k \in 1..m : d.conflicts[k] = Entry(d, i)
        BY <1>4, <4>1 DEF ConflictOK, Entered
      <4> QED BY <2>4, <2>6, <4>2
    <3> QED BY <3>1, <3>2
  <2> QED BY <1>1, <1>2, <2>8, <2>9, <2>10 DEF ConflictOK, AllEntered, Entered
<1>6. CASE ~(InConflict(d) /\ x \notin ToSet(d.conflicts))
  <2>1. e.conflicts = d.conflicts
    BY <1>6 DEF Resolve, x
  <2>2. ConflictOK(e)
    BY <1>1, <1>2, <2>1 DEF ConflictOK, Entered
  <2>3. \A i \in 1..n : Disputed(d, i) => Entered(d, i)
    <3> SUFFICES ASSUME NEW i \in 1..n, Disputed(d, i)
                 PROVE  Entered(d, i)
      OBVIOUS
    <3>1. CASE i = n
      <4>1. x = Entry(d, i) /\ x \in ToSet(d.conflicts)
        BY <1>1, <1>3, <1>6, <3>1
      <4> QED BY <4>1 DEF Entered, ToSet
    <3>2. CASE i # n
      <4>1. i < Latest(d)
        BY <1>1, <3>2
      <4> QED BY <4>1 DEF ConflictOK
    <3> QED BY <3>1, <3>2
  <2> QED BY <1>2, <2>1, <2>2, <2>3 DEF AllEntered, Entered
<1> QED BY <1>5, <1>6

LEMMA DirectRecords ==
    ASSUME IInv, IInv', ConflictInv, Direct
    PROVE  ConflictInv'
<1>1. PICK d \in Campaigns :
           /\ CampaignOK(d) /\ SameWork(campaign, d)
           /\ d.conflicts = campaign.conflicts
           /\ node' = Decide(d).node
           /\ checkpoint' = checkpoint
           /\ campaign'.conflicts = Resolve(d).conflicts
           /\ campaign'.assets = d.assets /\ campaign'.quality = d.quality
           /\ campaign'.compliance = d.compliance
  BY DirectEffect
<1>2. ConflictOK(d)
  BY <1>1 DEF SameWork, Contributed, ConflictInv, ConflictOK, Entered, Entry, Disputed,
              Latest
<1>3. campaign' \in Campaigns
  BY DEF IInv, TypeOK, Campaigns, MaxRounds, MaxGenerations
<1>4. ConflictOK(campaign') /\ AllEntered(campaign')
  BY <1>1, <1>2, <1>3, ResolveEnters DEF CampaignOK
<1>5. ConflictOK(checkpoint')
  BY <1>1 DEF ConflictInv
<1> QED BY <1>4, <1>5 DEF ConflictInv, ConflictOK, AllEntered, Entered, Entry, Disputed,
                          Latest

(* A node that hands such a campaign back to the director.                  *)
LEMMA HandedRecords ==
    ASSUME ConflictOK(campaign'), checkpoint' = campaign', node' = "director"
    PROVE  ConflictInv'
  BY DEF ConflictInv, ConflictOK, Entered, Entry, Disputed, Latest, Working

LEMMA LayoutRecords ==
    ASSUME IInv, ConflictInv, LayoutNode
    PROVE  ConflictInv'
<1>1. ConflictOK(campaign')
  BY LayoutEffect DEF ConflictInv, ConflictOK, Entered, Entry, Disputed, Latest
<1> QED BY <1>1, LayoutEffect, HandedRecords

LEMMA GenerationRecords ==
    ASSUME IInv, ConflictInv, GenerationNode
    PROVE  ConflictInv'
<1>1. AllEntered(campaign)
  BY DEF ConflictInv, GenerationNode, AllSucceeded, Working
<1>2. /\ campaign'.quality = campaign.quality
      /\ campaign'.compliance = campaign.compliance
      /\ campaign'.conflicts = campaign.conflicts
      /\ checkpoint' = campaign' /\ node' = "director"
  BY GenerationEffect
<1>3. ConflictOK(campaign')
  BY <1>1, <1>2 DEF ConflictInv, ConflictOK, AllEntered, Entered, Entry, Disputed
<1> QED BY <1>2, <1>3, HandedRecords

LEMMA ReviewRecords ==
    ASSUME IInv, ConflictInv, ReviewPanelNode
    PROVE  ConflictInv'
<1> DEFINE n == Len(campaign.quality)
<1>1. /\ node' = "director" /\ checkpoint' = campaign'
      /\ campaign'.assets = campaign.assets
      /\ campaign'.conflicts = campaign.conflicts
      /\ Len(campaign'.quality) = n + 1
      /\ Latest(campaign) = n + 1
      /\ \A i \in 1..n : /\ campaign'.quality[i] = campaign.quality[i]
                         /\ campaign'.compliance[i] = campaign.compliance[i]
  BY ReviewEffect
<1>2. n \in Nat /\ Latest(campaign') = n + 1
  BY <1>1, Numbers DEF IInv, TypeOK, CampaignOK, Latest
<1>3. \A i \in 1..n : /\ Entry(campaign', i) = Entry(campaign, i)
                      /\ Disputed(campaign', i) <=> Disputed(campaign, i)
                      /\ i \in 1..(n + 1)
  BY <1>1, <1>2 DEF Entry, Disputed
<1>4. \A k \in DOMAIN campaign.conflicts :
         \E i \in 1..(n + 1) : campaign.conflicts[k] = Entry(campaign', i)
  BY <1>3 DEF ConflictInv, ConflictOK
<1>5. \A i \in 1..(n + 1) : i < n + 1 => i \in 1..n /\ i < Latest(campaign)
  BY <1>1, <1>2
<1>6. \A i \in 1..n : Disputed(campaign', i) => Entered(campaign', i)
  BY <1>1, <1>2, <1>3, <1>5 DEF ConflictInv, ConflictOK, Entered
<1>7. ConflictOK(campaign')
  BY <1>1, <1>2, <1>4, <1>5, <1>6 DEF ConflictInv, ConflictOK
<1> QED BY <1>1, <1>7, HandedRecords

LEMMA OtherRecords ==
    ASSUME ConflictInv, checkpoint' = checkpoint,
           campaign' \in {campaign, checkpoint},
           \/ campaign' = campaign /\ node' = node
           \/ node' \in {"raised", "down", "director"}
    PROVE  ConflictInv'
<1>1. ConflictOK(campaign') /\ ConflictOK(checkpoint')
  BY DEF ConflictInv
<1>2. node' \in Working \cup {"end"} => AllEntered(campaign')
  BY DEF ConflictInv, Working
<1> QED BY <1>1, <1>2 DEF ConflictInv, ConflictOK, AllEntered, Entered, Entry, Disputed,
                          Latest, Working

LEMMA InitRecords ==
    ASSUME Init
    PROVE  ConflictInv
<1>1. /\ Fresh.quality = <<>> /\ Fresh.conflicts = <<>>
      /\ Len(<<>>) = 0 /\ DOMAIN <<>> = {}
  BY EmptySeq DEF Fresh
<1>2. ConflictOK(Fresh)
  BY <1>1 DEF ConflictOK
<1> QED BY <1>2 DEF Init, ConflictInv, Working

(* A disagreement of critic and compliance on an asset is recorded once,    *)
(* before another asset is made and before the campaign ends; a restart may *)
(* lose the record of the last asset, and the director makes it again.      *)
THEOREM DisputesRecorded == Spec => []ConflictsRecorded
<1>1. Init => ConflictInv
  BY InitRecords
<1>2. IInv /\ IInv' /\ ConflictInv /\ [Next]_vars => ConflictInv'
  <2> SUFFICES ASSUME IInv, IInv', ConflictInv, [Next]_vars PROVE ConflictInv'
    OBVIOUS
  <2>1. CASE Direct
    BY <2>1, DirectRecords
  <2>2. CASE \E r \in Roles : Succeed(r) \/ Retry(r) \/ GiveUp(r)
    <3>1. campaign' = campaign /\ checkpoint' = checkpoint /\ node' = node
      BY <2>2 DEF Succeed, Retry, GiveUp
    <3> QED BY <3>1, OtherRecords
  <2>3. CASE NodeRaises \/ Crash \/ Resume
    BY <2>3, OtherRecords DEF NodeRaises, Crash, Resume
  <2>4. CASE BriefNode \/ StrategyPanelNode \/ EvaluationNode
    BY <2>4, MinorNode, SameConflicts, HandedRecords DEF ConflictInv
  <2>5. CASE LayoutNode
    BY <2>5, LayoutRecords
  <2>6. CASE GenerationNode
    BY <2>6, GenerationRecords
  <2>7. CASE ReviewPanelNode
    BY <2>7, ReviewRecords
  <2>8. CASE UNCHANGED vars
    BY <2>8, OtherRecords DEF vars
  <2> QED BY <2>1, <2>2, <2>3, <2>4, <2>5, <2>6, <2>7, <2>8 DEF Next, Run
<1>3. IInv /\ ConflictInv => ConflictsRecorded
  <2> SUFFICES ASSUME IInv, ConflictInv PROVE ConflictsRecorded
    OBVIOUS
  <2> DEFINE c == campaign
  <2>1. /\ DOMAIN c.conflicts \subseteq Nat
        /\ \A k \in DOMAIN c.conflicts :
             \E i \in 1..Len(c.quality) : c.conflicts[k] = Entry(c, i)
        /\ \A k, l \in DOMAIN c.conflicts : c.conflicts[k] = c.conflicts[l] => k = l
    BY ConflictsTyped DEF IInv, TypeOK, ConflictInv, ConflictOK
  <2>2. \A k \in DOMAIN c.conflicts : c.conflicts[k] = Entry(c, c.conflicts[k].asset)
    <3> TAKE k \in DOMAIN c.conflicts
    <3>1. PICK i \in 1..Len(c.quality) : c.conflicts[k] = Entry(c, i)
      BY <2>1
    <3>2. Entry(c, i).asset = i
      BY DEF Entry
    <3>3. c.conflicts[k].asset = i
      BY <3>1, <3>2, Zenon
    <3> QED BY <3>1, <3>3, Zenon
  <2>3. \A i \in 1..Len(c.quality) :
           Disputed(c, i) /\ (i < Latest(c) \/ node = "end") =>
             \E k \in DOMAIN c.conflicts : c.conflicts[k].asset = i
    <3> SUFFICES ASSUME NEW i \in 1..Len(c.quality), Disputed(c, i),
                        i < Latest(c) \/ node = "end"
                 PROVE  \E k \in DOMAIN c.conflicts : c.conflicts[k].asset = i
      OBVIOUS
    <3>1. PICK k \in DOMAIN c.conflicts : c.conflicts[k] = Entry(c, i)
      BY DEF ConflictInv, ConflictOK, AllEntered, Entered
    <3>2. Entry(c, i).asset = i
      BY DEF Entry
    <3>3. c.conflicts[k].asset = i
      BY <3>1, <3>2, Zenon
    <3> QED BY <3>3
  <2>4. \A k, l \in DOMAIN c.conflicts : c.conflicts[k].asset = c.conflicts[l].asset => k = l
    <3> SUFFICES ASSUME NEW k \in DOMAIN c.conflicts, NEW l \in DOMAIN c.conflicts,
                        c.conflicts[k].asset = c.conflicts[l].asset
                 PROVE  k = l
      OBVIOUS
    <3>1. c.conflicts[k] = c.conflicts[l]
      BY <2>2, Zenon
    <3> QED BY <2>1, <3>1
  <2> QED BY <2>3, <2>4 DEF ConflictsRecorded, Disputed
<1> QED BY <1>1, <1>2, <1>3, Invariance, PTL DEF Spec

-----------------------------------------------------------------------------
(* The campaign implements its promise.  The invariant behind it: formats,  *)
(* layouts and rounds, each of campaign and checkpoint.                     *)

(* A format that the campaign has left behind, for another,  *)
(* has passed.                                                              *)
OthersPassed(c) ==
    \A a \in DOMAIN c.assets :
       c.assets[a].format # Last(c.assets).format => FormatPassed(c, c.assets[a].format)

(* Assets are made when the brief is ready, from layouts, one a generation, *)
(* and in a format the brief names.                                         *)
AssetsOK(c) ==
    /\ Latest(c) = c.generations
    /\ c.assets # <<>> => c.brief = "ready" /\ c.layouts.formats # <<>>
    /\ \A a \in DOMAIN c.assets : c.assets[a].format \in ToSet(c.formats)
    /\ OthersPassed(c)
    /\ c.plan.made => c.plan.tasks # <<>> \/ Findings(c) = <<>>

(* The layouts are rebuilt once for an asset, on a plan that calls for it.  *)
LayoutsOK(c) ==
    /\ c.layouts.basis <= Latest(c)
    /\ c.assets # <<>> /\ c.layouts.basis = Latest(c) =>
         c.plan.made /\ ~PlanCalls(c, "layout")

(* The nodes a campaign has been through, counted by what they left; the    *)
(* layouts that were rebuilt are counted by the asset they were built on.   *)
Used(c) ==
    (IF c.brief = "none" THEN 0 ELSE 1) + (IF c.strategies = <<>> THEN 0 ELSE 1)
    + (IF c.layouts.formats = <<>> THEN 0 ELSE 1) + c.layouts.basis
    + Len(c.assets) + Len(c.evaluations) + Len(c.quality)

(* Every round of the director led to a node.                               *)
RoundsOK(c) == c.brief = "none" \/ c.formats # <<>> => c.rounds <= Used(c)

StatusOK(c) == c.status = "waiting_for_user" => c.brief = "unclear"

(* What the director sends to be made is wanted.                            *)
Wanted ==
    /\ node = "layout" =>
         campaign.layouts.formats = <<>> \/ PlanCalls(campaign, "layout")
    /\ node = "generation" =>
         /\ campaign.brief = "ready"
         /\ \/ campaign.plan.made \/ campaign.assets = <<>>
            \/ BothPassed(campaign) /\ ~AllFormatsPassed(campaign)

PromiseInv ==
    /\ AssetsOK(campaign) /\ AssetsOK(checkpoint)
    /\ LayoutsOK(campaign) /\ LayoutsOK(checkpoint)
    /\ RoundsOK(checkpoint)
    /\ StatusOK(checkpoint) /\ (node # "end" => StatusOK(campaign))
    /\ Wanted

(* The rounds suffice for every generation to be evaluated, reviewed and    *)
(* preceded by new layouts: so they do for every request the API admits but *)
(* those of twenty iterations, or of one format and more than thirteen.     *)
EnoughRounds == 4 * MaxGenerations < MaxRounds

-----------------------------------------------------------------------------
(* Formats and reviews.                                                     *)

(* Asset a is reviewed and both reviews pass it.                            *)
Approved(c, a) ==
    a \in 1..Len(c.quality) /\ c.quality[a].passed /\ c.compliance[a].passed

LEMMA PassedByNumber ==
    ASSUME NEW c \in Campaigns, InStep(c), NEW a
    PROVE  PassedBy(c.quality, a) /\ PassedBy(c.compliance, a) <=> Approved(c, a)
<1>1. /\ DOMAIN c.quality = 1..Len(c.quality)
      /\ DOMAIN c.compliance = 1..Len(c.quality)
      /\ Len(c.quality) \in Nat
      /\ \A i \in 1..Len(c.quality) : c.quality[i].asset = i /\ c.compliance[i].asset = i
  BY Numbers, Parts, LenProperties
<1>2. PassedBy(c.quality, a) <=> a \in 1..Len(c.quality) /\ c.quality[a].passed
  BY <1>1 DEF PassedBy
<1>3. PassedBy(c.compliance, a) <=> a \in 1..Len(c.quality) /\ c.compliance[a].passed
  BY <1>1 DEF PassedBy
<1> QED BY <1>2, <1>3 DEF Approved

LEMMA FormatPassedNumber ==
    ASSUME NEW c \in Campaigns, InStep(c), NEW f
    PROVE  FormatPassed(c, f) <=> \E a \in DOMAIN c.assets : IsLatestOf(c, a, f) /\ Approved(c, a)
BY PassedByNumber DEF FormatPassed

(* The format of the latest asset has passed when both gates passed it.     *)
LEMMA LatestFormat ==
    ASSUME NEW c \in Campaigns, InStep(c), c.assets # <<>>
    PROVE  /\ DOMAIN c.assets = 1..Latest(c) /\ Latest(c) \in 1..Latest(c)
           /\ Last(c.assets) = c.assets[Latest(c)]
           /\ IsLatestOf(c, Latest(c), Last(c.assets).format)
           /\ FormatPassed(c, Last(c.assets).format) <=> BothReviewed(c) /\ BothPassed(c)
<1> DEFINE n == Latest(c)
           f == Last(c.assets).format
<1>1. /\ DOMAIN c.assets = 1..n /\ n \in 1..n /\ n \in Nat
      /\ Last(c.assets) = c.assets[n]
  BY Parts, Numbers, LenProperties DEF Latest, Last
<1>2. IsLatestOf(c, n, f)
  BY <1>1 DEF IsLatestOf
<1>3. FormatPassed(c, f) <=> Approved(c, n)
  BY <1>1, <1>2, FormatPassedNumber, LatestIsOne
<1>4. Approved(c, n) <=> BothReviewed(c) /\ BothPassed(c)
  BY <1>1, Numbers DEF Approved, BothPassed
<1> QED BY <1>1, <1>2, <1>3, <1>4

(* What has passed is a matter of assets and reviews.                       *)
LEMMA SamePassed ==
    ASSUME NEW c, NEW d, SameReviews(c, d), NEW f
    PROVE  FormatPassed(d, f) <=> FormatPassed(c, f)
BY DEF SameReviews, FormatPassed, IsLatestOf, PassedBy

(* When the latest asset has passed, all generated formats have.            *)
LEMMA GeneratedPassed ==
    ASSUME NEW c \in Campaigns, InStep(c), OthersPassed(c), c.assets # <<>>,
           BothReviewed(c), BothPassed(c), NEW a \in DOMAIN c.assets
    PROVE  FormatPassed(c, c.assets[a].format)
BY LatestFormat DEF OthersPassed

(* Generation goes on with the format of the plan or begins one that is     *)
(* missing.                                                                 *)
LEMMA TargetFormatChosen ==
    ASSUME NEW c \in Campaigns, c.layouts.formats # <<>>
    PROVE  /\ c.plan.made /\ c.assets # <<>> => TargetFormat(c) = Last(c.assets).format
           /\ ~(c.plan.made /\ c.assets # <<>>)
                /\ (\E f \in ToSet(c.layouts.formats) : f \notin Generated(c)) =>
                TargetFormat(c) \in ToSet(c.layouts.formats) \ Generated(c)
<1> DEFINE formats == c.layouts.formats
           missing == {i \in DOMAIN formats : formats[i] \notin Generated(c)}
<1>1. c.plan.made /\ c.assets # <<>> => TargetFormat(c) = Last(c.assets).format
  BY DEF TargetFormat
<1>2. ASSUME ~(c.plan.made /\ c.assets # <<>>),
             NEW f \in ToSet(c.layouts.formats), f \notin Generated(c)
      PROVE  TargetFormat(c) \in ToSet(c.layouts.formats) \ Generated(c)
  <2>1. missing # {} /\ missing \subseteq DOMAIN formats
    BY <1>2 DEF ToSet
  <2>2. DOMAIN formats \subseteq Nat
    BY Parts, LenProperties
  <2>3. TargetFormat(c) = formats[Min(missing)]
    BY <1>2, <2>1 DEF TargetFormat
  <2>4. Min(missing) \in missing
    <3> HIDE DEF missing
    <3> QED BY <2>1, <2>2, MinIsMember
  <2>5. Min(missing) \in DOMAIN formats /\ formats[Min(missing)] \notin Generated(c)
    BY <2>4
  <2> QED BY <2>3, <2>5 DEF ToSet
<1> QED BY <1>1, <1>2

-----------------------------------------------------------------------------
(* What the nodes leave of the campaign, in full.                           *)

LEMMA BriefWrites ==
    ASSUME IInv, BriefNode
    PROVE  /\ node = "brief" /\ node' = "director" /\ checkpoint' = campaign'
           /\ SameJudged(campaign, campaign')
           /\ campaign'.brief \in {"ready", "unclear"}
           /\ campaign'.status = "waiting_for_user" <=> campaign'.brief = "unclear"
           /\ campaign'.strategies = campaign.strategies
           /\ campaign'.evaluations = campaign.evaluations
           /\ campaign'.rounds = campaign.rounds
           /\ campaign'.generations = campaign.generations
<1>1. campaign \in Campaigns
  BY DEF IInv, TypeOK
<1>2. PICK formats \in BriefFormats, ready \in BOOLEAN :
         Merge([campaign EXCEPT
                  !.brief   = IF ready THEN "ready" ELSE "unclear",
                  !.formats = formats,
                  !.status  = IF ready THEN "running" ELSE "waiting_for_user"])
  BY DEF BriefNode
<1> QED BY <1>1, <1>2 DEF BriefNode, AllSucceeded, Merge, SameJudged, Campaigns

LEMMA StrategyWrites ==
    ASSUME IInv, StrategyPanelNode
    PROVE  /\ node = "strategy_panel" /\ node' = "director" /\ checkpoint' = campaign'
           /\ SameJudged(campaign, campaign')
           /\ campaign.strategies = <<>> /\ campaign'.strategies # <<>>
           /\ campaign'.brief = campaign.brief /\ campaign'.formats = campaign.formats
           /\ campaign'.status = campaign.status
           /\ campaign'.evaluations = campaign.evaluations
           /\ campaign'.rounds = campaign.rounds
           /\ campaign'.generations = campaign.generations
<1>1. campaign \in Campaigns /\ node = "strategy_panel" /\ campaign.strategies = <<>>
  BY DEF IInv, TypeOK, NodeOK, StrategyPanelNode, AllSucceeded
<1>2. PICK p \in Panels : Merge([campaign EXCEPT !.strategies = campaign.strategies \o p])
  BY DEF StrategyPanelNode
<1>3. p \in Seq(Nat) /\ Len(p) = 3
  BY CampaignAssumption
<1> DEFINE s == campaign.strategies \o p
<1>4. s # <<>>
  <2>1. <<>> \in Seq(Nat) /\ Len(<<>>) = 0
    BY EmptySeq
  <2>2. Len(s) = 3
    BY <1>1, <1>3, <2>1, ConcatProperties
  <2> QED BY <2>1, <2>2
<1>5. Merge([campaign EXCEPT !.strategies = s])
  BY <1>2
<1> HIDE DEF s
<1> QED BY <1>1, <1>4, <1>5 DEF Merge, SameJudged, Campaigns

LEMMA LayoutWrites ==
    ASSUME IInv, LayoutNode
    PROVE  /\ campaign'.brief = campaign.brief /\ campaign'.formats = campaign.formats
           /\ campaign'.status = campaign.status
           /\ campaign'.strategies = campaign.strategies
           /\ campaign'.evaluations = campaign.evaluations
           /\ campaign'.rounds = campaign.rounds
           /\ campaign'.generations = campaign.generations
<1>1. campaign \in Campaigns
  BY DEF IInv, TypeOK
<1> QED BY <1>1 DEF LayoutNode, Merge, Campaigns

LEMMA GenerationWrites ==
    ASSUME IInv, GenerationNode
    PROVE  /\ campaign'.brief = campaign.brief /\ campaign'.formats = campaign.formats
           /\ campaign'.status = campaign.status
           /\ campaign'.strategies = campaign.strategies
           /\ campaign'.evaluations = campaign.evaluations
           /\ campaign'.rounds = campaign.rounds
           /\ campaign'.generations = campaign.generations + 1
<1>1. campaign \in Campaigns
  BY DEF IInv, TypeOK
<1> QED BY <1>1 DEF GenerationNode, Merge, Campaigns

LEMMA EvaluationWrites ==
    ASSUME IInv, EvaluationNode
    PROVE  /\ node = "evaluation" /\ node' = "director" /\ checkpoint' = campaign'
           /\ SameJudged(campaign, campaign')
           /\ campaign'.brief = campaign.brief /\ campaign'.formats = campaign.formats
           /\ campaign'.status = campaign.status
           /\ campaign'.strategies = campaign.strategies
           /\ Len(campaign'.evaluations) = Len(campaign.evaluations) + 1
           /\ campaign'.rounds = campaign.rounds
           /\ campaign'.generations = campaign.generations
<1>1. campaign \in Campaigns
  BY DEF IInv, TypeOK
<1>2. campaign'.evaluations = Append(campaign.evaluations, Latest(campaign))
  BY <1>1 DEF EvaluationNode, Merge, Campaigns
<1>3. Len(campaign'.evaluations) = Len(campaign.evaluations) + 1
  BY <1>1, <1>2, Parts, AppendProperties
<1> QED BY <1>1, <1>3 DEF EvaluationNode, AllSucceeded, Merge, SameJudged, Campaigns

LEMMA ReviewWrites ==
    ASSUME IInv, ReviewPanelNode
    PROVE  /\ node = "review_panel"
           /\ campaign'.brief = campaign.brief /\ campaign'.formats = campaign.formats
           /\ campaign'.status = campaign.status
           /\ campaign'.strategies = campaign.strategies
           /\ campaign'.evaluations = campaign.evaluations
           /\ campaign'.rounds = campaign.rounds
           /\ campaign'.generations = campaign.generations
<1>1. campaign \in Campaigns
  BY DEF IInv, TypeOK
<1> QED BY <1>1 DEF ReviewPanelNode, AllSucceeded, Merge, Campaigns

-----------------------------------------------------------------------------
(* The parts of the invariant.                                              *)

(* A node that hands a good campaign back to the director.                  *)
LEMMA HandedPromised ==
    ASSUME AssetsOK(campaign'), LayoutsOK(campaign'), RoundsOK(campaign'),
           StatusOK(campaign'), checkpoint' = campaign', node' = "director"
    PROVE  PromiseInv'
BY DEF PromiseInv, AssetsOK, OthersPassed, FormatPassed, IsLatestOf, PassedBy, Findings,
       LayoutsOK, PlanCalls, Latest, RoundsOK, Used, StatusOK, Wanted

LEMMA UsedTyped ==
    ASSUME NEW c \in Campaigns
    PROVE  /\ Used(c) \in Nat /\ c.layouts.basis \in Nat
           /\ Len(c.assets) \in Nat /\ Len(c.evaluations) \in Nat /\ Len(c.quality) \in Nat
           /\ Latest(c) \in Nat /\ c.rounds \in Nat /\ c.generations \in Nat
<1>1. /\ c.layouts.basis \in Nat /\ Latest(c) \in Nat
      /\ c.rounds \in Nat /\ c.generations \in Nat
  BY Parts DEF Layouts
<1>2. Len(c.assets) \in Nat /\ Len(c.evaluations) \in Nat /\ Len(c.quality) \in Nat
  BY Parts, LenProperties
<1> DEFINE b == IF c.brief = "none" THEN 0 ELSE 1
           s == IF c.strategies = <<>> THEN 0 ELSE 1
           l == IF c.layouts.formats = <<>> THEN 0 ELSE 1
<1>3. b \in Nat /\ s \in Nat /\ l \in Nat
  OBVIOUS
<1> DEFINE x == c.layouts.basis
           n == Len(c.assets)
           e == Len(c.evaluations)
           q == Len(c.quality)
<1>4. Used(c) = b + s + l + x + n + e + q
  BY DEF Used
<1>5. x \in Nat /\ n \in Nat /\ e \in Nat /\ q \in Nat
  BY <1>1, <1>2
<1> HIDE DEF b, s, l, x, n, e, q
<1>6. Used(c) \in Nat
  BY <1>3, <1>4, <1>5
<1> QED BY <1>1, <1>2, <1>6, Zenon

(* A node at work owes one round at most to what the campaign has used.     *)
LEMMA RoundsAtWork ==
    ASSUME IInv, PromiseInv
    PROVE  campaign.brief = "none" \/ campaign.formats # <<>> =>
             campaign.rounds <= Used(campaign) + 1
<1>1. /\ campaign \in Campaigns /\ checkpoint \in Campaigns
      /\ campaign.rounds \in {checkpoint.rounds, checkpoint.rounds + 1}
      /\ SameWork(checkpoint, campaign)
  BY DEF IInv, TypeOK, RecoveryBoundary, SameWork
<1>2. Used(checkpoint) = Used(campaign) /\ checkpoint.brief = campaign.brief
      /\ checkpoint.formats = campaign.formats
  BY <1>1 DEF SameWork, Contributed, Used
<1>3. RoundsOK(checkpoint)
  BY DEF PromiseInv
<1>4. Used(campaign) \in Nat /\ checkpoint.rounds \in Nat
  BY <1>1, UsedTyped
<1> QED BY <1>1, <1>2, <1>3, <1>4 DEF RoundsOK

(* The judged work decides on assets and layouts.                           *)
LEMMA SameAssets ==
    ASSUME NEW c, NEW d, SameJudged(c, d), AssetsOK(c), LayoutsOK(c),
           d.generations = c.generations,
           c.assets # <<>> => d.brief = c.brief /\ d.formats = c.formats
    PROVE  AssetsOK(d) /\ LayoutsOK(d)
BY DEF SameJudged, AssetsOK, OthersPassed, FormatPassed, IsLatestOf, PassedBy, Findings,
       LayoutsOK, PlanCalls, Latest

-----------------------------------------------------------------------------
(* The nodes keep the invariant.                                            *)

(* The campaign stays typed.                                                *)
LEMMA MergedTyped ==
    ASSUME IInv'
    PROVE  campaign' \in Campaigns /\ checkpoint' \in Campaigns
BY DEF IInv, TypeOK, Campaigns, MaxRounds, MaxGenerations

(* Used, summand by summand.                                                *)
LEMMA UsedSum ==
    ASSUME NEW c \in Campaigns
    PROVE  \E b, s, l \in {0, 1}, x, n, e, q \in Nat :
             /\ Used(c) = b + s + l + x + n + e + q
             /\ b = 0 <=> c.brief = "none"
             /\ s = 0 <=> c.strategies = <<>>
             /\ l = 0 <=> c.layouts.formats = <<>>
             /\ x = c.layouts.basis /\ n = Len(c.assets)
             /\ e = Len(c.evaluations) /\ q = Len(c.quality)
<1> DEFINE b == IF c.brief = "none" THEN 0 ELSE 1
           s == IF c.strategies = <<>> THEN 0 ELSE 1
           l == IF c.layouts.formats = <<>> THEN 0 ELSE 1
<1>1. /\ b \in {0, 1} /\ s \in {0, 1} /\ l \in {0, 1}
      /\ b = 0 <=> c.brief = "none"
      /\ s = 0 <=> c.strategies = <<>>
      /\ l = 0 <=> c.layouts.formats = <<>>
  OBVIOUS
<1>2. Used(c) = b + s + l + c.layouts.basis + Len(c.assets) + Len(c.evaluations)
                + Len(c.quality)
  BY DEF Used
<1> HIDE DEF b, s, l
<1> QED BY <1>1, <1>2, UsedTyped

(* Nothing a node left before is gone, and there is something more.         *)
Grown(c, d) ==
    /\ d.brief = "none" => c.brief = "none"
    /\ d.strategies = <<>> => c.strategies = <<>>
    /\ d.layouts.formats = <<>> => c.layouts.formats = <<>>
    /\ c.layouts.basis <= d.layouts.basis
    /\ Len(c.assets) <= Len(d.assets)
    /\ Len(c.evaluations) <= Len(d.evaluations)
    /\ Len(c.quality) <= Len(d.quality)
    /\ \/ c.brief = "none" /\ d.brief # "none"
       \/ c.strategies = <<>> /\ d.strategies # <<>>
       \/ c.layouts.formats = <<>> /\ d.layouts.formats # <<>>
       \/ c.layouts.basis < d.layouts.basis
       \/ Len(c.assets) < Len(d.assets)
       \/ Len(c.evaluations) < Len(d.evaluations)
       \/ Len(c.quality) < Len(d.quality)

LEMMA UsedGrows ==
    ASSUME NEW c \in Campaigns, NEW d \in Campaigns, Grown(c, d)
    PROVE  Used(c) + 1 <= Used(d)
<1>1. PICK b, s, l \in {0, 1}, x, n, e, q \in Nat :
         /\ Used(c) = b + s + l + x + n + e + q
         /\ b = 0 <=> c.brief = "none"
         /\ s = 0 <=> c.strategies = <<>>
         /\ l = 0 <=> c.layouts.formats = <<>>
         /\ x = c.layouts.basis /\ n = Len(c.assets)
         /\ e = Len(c.evaluations) /\ q = Len(c.quality)
  BY UsedSum
<1>2. PICK b1, s1, l1 \in {0, 1}, x1, n1, e1, q1 \in Nat :
         /\ Used(d) = b1 + s1 + l1 + x1 + n1 + e1 + q1
         /\ b1 = 0 <=> d.brief = "none"
         /\ s1 = 0 <=> d.strategies = <<>>
         /\ l1 = 0 <=> d.layouts.formats = <<>>
         /\ x1 = d.layouts.basis /\ n1 = Len(d.assets)
         /\ e1 = Len(d.evaluations) /\ q1 = Len(d.quality)
  BY UsedSum
<1>3. /\ b1 = 0 => b = 0
      /\ s1 = 0 => s = 0
      /\ l1 = 0 => l = 0
      /\ x <= x1 /\ n <= n1 /\ e <= e1 /\ q <= q1
      /\ \/ b = 0 /\ b1 # 0
         \/ s = 0 /\ s1 # 0
         \/ l = 0 /\ l1 # 0
         \/ x < x1 \/ n < n1 \/ e < e1 \/ q < q1
  BY <1>1, <1>2 DEF Grown
<1>4. b + s + l + x + n + e + q + 1 <= b1 + s1 + l1 + x1 + n1 + e1 + q1
  <2>1. b <= b1 /\ s <= s1 /\ l <= l1
    BY <1>3
  <2>2. \/ b < b1 \/ s < s1 \/ l < l1
        \/ x < x1 \/ n < n1 \/ e < e1 \/ q < q1
    BY <1>3
  <2>3. b \in Nat /\ s \in Nat /\ l \in Nat /\ b1 \in Nat /\ s1 \in Nat /\ l1 \in Nat
    OBVIOUS
  <2> QED BY <1>3, <2>1, <2>2, <2>3
<1>5. Used(c) = b + s + l + x + n + e + q
  BY <1>1
<1>6. Used(d) = b1 + s1 + l1 + x1 + n1 + e1 + q1
  BY <1>2
<1> QED BY <1>4, <1>5, <1>6

(* A node that grows the campaign keeps the count of rounds.                *)
LEMMA RoundsKept ==
    ASSUME IInv, IInv', PromiseInv, Grown(campaign, campaign'),
           campaign'.rounds = campaign.rounds,
           campaign'.formats = campaign.formats \/ campaign.brief = "none",
           campaign'.brief = campaign.brief \/ campaign.brief = "none"
    PROVE  RoundsOK(campaign')
<1>1. campaign \in Campaigns /\ campaign' \in Campaigns
  BY MergedTyped DEF IInv, TypeOK
<1>2. Used(campaign) + 1 <= Used(campaign')
  BY <1>1, UsedGrows
<1>3. /\ Used(campaign) \in Nat /\ Used(campaign') \in Nat
      /\ campaign.rounds \in Nat
  BY <1>1, UsedTyped
<1>4. CASE campaign'.brief = "none" \/ campaign'.formats # <<>>
  <2>1. campaign.brief = "none" \/ campaign.formats # <<>>
    BY <1>4
  <2>2. campaign.rounds <= Used(campaign) + 1
    BY <2>1, RoundsAtWork
  <2>3. campaign'.rounds <= Used(campaign')
    BY <1>2, <1>3, <2>2
  <2> QED BY <2>3 DEF RoundsOK
<1> QED BY <1>4 DEF RoundsOK

-----------------------------------------------------------------------------
(* Every step keeps the invariant.                                          *)

LEMMA BriefPromises ==
    ASSUME IInv, IInv', PromiseInv, BriefNode
    PROVE  PromiseInv' /\ campaign.assets = <<>>
<1>1. /\ node = "brief" /\ node' = "director" /\ checkpoint' = campaign'
      /\ SameJudged(campaign, campaign')
      /\ campaign'.brief \in {"ready", "unclear"}
      /\ campaign'.status = "waiting_for_user" <=> campaign'.brief = "unclear"
      /\ campaign'.strategies = campaign.strategies
      /\ campaign'.evaluations = campaign.evaluations
      /\ campaign'.rounds = campaign.rounds
      /\ campaign'.generations = campaign.generations
  BY BriefWrites
<1>2. campaign \in Campaigns /\ campaign.brief = "none"
  BY <1>1 DEF IInv, TypeOK, NodeOK
<1>3. AssetsOK(campaign) /\ LayoutsOK(campaign)
  BY DEF PromiseInv
<1>4. campaign.assets = <<>>
  BY <1>2, <1>3 DEF AssetsOK
<1>5. AssetsOK(campaign') /\ LayoutsOK(campaign')
  BY <1>1, <1>3, <1>4, SameAssets
<1>6. Grown(campaign, campaign')
  BY <1>1, <1>2, UsedTyped DEF SameJudged, Grown
<1>7. RoundsOK(campaign')
  BY <1>1, <1>2, <1>6, RoundsKept
<1>8. StatusOK(campaign')
  BY <1>1 DEF StatusOK
<1> QED BY <1>1, <1>4, <1>5, <1>7, <1>8, HandedPromised

LEMMA StrategyPromises ==
    ASSUME IInv, IInv', PromiseInv, StrategyPanelNode
    PROVE  PromiseInv'
<1>1. /\ node = "strategy_panel" /\ node' = "director" /\ checkpoint' = campaign'
      /\ SameJudged(campaign, campaign')
      /\ campaign.strategies = <<>> /\ campaign'.strategies # <<>>
      /\ campaign'.brief = campaign.brief /\ campaign'.formats = campaign.formats
      /\ campaign'.status = campaign.status
      /\ campaign'.evaluations = campaign.evaluations
      /\ campaign'.rounds = campaign.rounds
      /\ campaign'.generations = campaign.generations
  BY StrategyWrites
<1>2. campaign \in Campaigns
  BY DEF IInv, TypeOK
<1>3. AssetsOK(campaign) /\ LayoutsOK(campaign) /\ StatusOK(campaign)
  BY <1>1 DEF PromiseInv
<1>4. AssetsOK(campaign') /\ LayoutsOK(campaign')
  BY <1>1, <1>3, SameAssets
<1>5. Grown(campaign, campaign')
  BY <1>1, <1>2, UsedTyped DEF SameJudged, Grown
<1>6. RoundsOK(campaign')
  BY <1>1, <1>5, RoundsKept
<1>7. StatusOK(campaign')
  BY <1>1, <1>3 DEF StatusOK
<1> QED BY <1>1, <1>4, <1>6, <1>7, HandedPromised

LEMMA EvaluationPromises ==
    ASSUME IInv, IInv', PromiseInv, EvaluationNode
    PROVE  PromiseInv'
<1>1. /\ node = "evaluation" /\ node' = "director" /\ checkpoint' = campaign'
      /\ SameJudged(campaign, campaign')
      /\ campaign'.brief = campaign.brief /\ campaign'.formats = campaign.formats
      /\ campaign'.status = campaign.status
      /\ campaign'.strategies = campaign.strategies
      /\ Len(campaign'.evaluations) = Len(campaign.evaluations) + 1
      /\ campaign'.rounds = campaign.rounds
      /\ campaign'.generations = campaign.generations
  BY EvaluationWrites
<1>2. campaign \in Campaigns
  BY DEF IInv, TypeOK
<1>3. AssetsOK(campaign) /\ LayoutsOK(campaign) /\ StatusOK(campaign)
  BY <1>1 DEF PromiseInv
<1>4. AssetsOK(campaign') /\ LayoutsOK(campaign')
  BY <1>1, <1>3, SameAssets
<1>5. Grown(campaign, campaign')
  BY <1>1, <1>2, UsedTyped DEF SameJudged, Grown
<1>6. RoundsOK(campaign')
  BY <1>1, <1>5, RoundsKept
<1>7. StatusOK(campaign')
  BY <1>1, <1>3 DEF StatusOK
<1> QED BY <1>1, <1>4, <1>6, <1>7, HandedPromised

LEMMA LayoutPromises ==
    ASSUME IInv, IInv', PromiseInv, LayoutNode
    PROVE  PromiseInv'
<1>1. /\ node = "layout" /\ node' = "director" /\ checkpoint' = campaign'
      /\ campaign'.layouts = BuildLayouts(campaign)
      /\ campaign'.plan.made = campaign.plan.made
      /\ campaign'.plan.tasks = [i \in DOMAIN campaign.plan.tasks |-> "generation"]
      /\ campaign'.assets = campaign.assets
      /\ campaign'.quality = campaign.quality
      /\ campaign'.compliance = campaign.compliance
  BY LayoutEffect
<1>2. /\ campaign'.brief = campaign.brief /\ campaign'.formats = campaign.formats
      /\ campaign'.status = campaign.status
      /\ campaign'.strategies = campaign.strategies
      /\ campaign'.evaluations = campaign.evaluations
      /\ campaign'.rounds = campaign.rounds
      /\ campaign'.generations = campaign.generations
  BY LayoutWrites
<1>3. /\ campaign \in Campaigns /\ CampaignOK(campaign) /\ campaign.brief # "none"
      /\ campaign' \in Campaigns
  BY <1>1, MergedTyped DEF IInv, TypeOK, NodeOK
<1>4. AssetsOK(campaign) /\ LayoutsOK(campaign) /\ StatusOK(campaign)
  BY <1>1 DEF PromiseInv
<1>5. /\ campaign'.layouts.formats = campaign.formats
      /\ campaign'.layouts.basis = Latest(campaign)
      /\ Latest(campaign') = Latest(campaign)
  BY <1>1 DEF BuildLayouts, Latest
<1>6. campaign.assets # <<>> => /\ campaign.layouts.formats = campaign.formats
                                /\ campaign.layouts.formats # <<>>
                                /\ PlanCalls(campaign, "layout")
  BY <1>1, <1>3, <1>4 DEF PromiseInv, Wanted, AssetsOK, CampaignOK
<1>7. campaign.plan.made => campaign.assets # <<>>
  BY <1>3 DEF CampaignOK, PlanCurrent, BothReviewed
<1>8. campaign.plan.made => campaign'.plan.tasks # <<>>
  <2>1. campaign.plan.made => \E i : i \in DOMAIN campaign.plan.tasks
    BY <1>6, <1>7 DEF PlanCalls, ToSet
  <2>2. DOMAIN campaign'.plan.tasks = DOMAIN campaign.plan.tasks
    BY <1>1
  <2> QED BY <2>1, <2>2, EmptySeq
<1>9. ~PlanCalls(campaign', "layout")
  BY <1>1 DEF PlanCalls, ToSet
<1>10. AssetsOK(campaign')
  <2>1. OthersPassed(campaign')
    BY <1>1, <1>4 DEF AssetsOK, OthersPassed, FormatPassed, IsLatestOf, PassedBy
  <2> QED BY <1>1, <1>2, <1>4, <1>5, <1>6, <1>8, <2>1 DEF AssetsOK
<1>11. LayoutsOK(campaign')
  <2>1. campaign.assets # <<>> => campaign.plan.made
    BY <1>6 DEF PlanCalls
  <2>2. Latest(campaign) \in Nat
    BY <1>3, UsedTyped
  <2> QED BY <1>1, <1>5, <1>9, <2>1, <2>2 DEF LayoutsOK
<1>12. RoundsOK(campaign')
  <2>1. CASE campaign.formats = <<>>
    BY <1>2, <1>3, <2>1 DEF RoundsOK
  <2>2. CASE campaign.formats # <<>>
    <3>1. campaign.layouts.basis <= Latest(campaign)
      BY <1>4 DEF LayoutsOK
    <3>2. \/ campaign.layouts.formats = <<>>
          \/ campaign.layouts.basis < Latest(campaign)
      <4>1. SUFFICES ASSUME campaign.layouts.formats # <<>>
                     PROVE  campaign.layouts.basis < Latest(campaign)
        OBVIOUS
      <4>2. PlanCalls(campaign, "layout")
        BY <1>1, <4>1 DEF PromiseInv, Wanted
      <4>3. campaign.assets # <<>>
        BY <1>7, <4>2 DEF PlanCalls
      <4>4. campaign.layouts.basis # Latest(campaign)
        BY <1>4, <4>2, <4>3 DEF LayoutsOK
      <4> QED BY <1>3, <3>1, <4>4, UsedTyped
    <3>3. Grown(campaign, campaign')
      BY <1>1, <1>2, <1>3, <1>5, <2>2, <3>1, <3>2, UsedTyped DEF Grown
    <3> QED BY <1>2, <3>3, RoundsKept
  <2> QED BY <2>1, <2>2
<1>13. StatusOK(campaign')
  BY <1>2, <1>4 DEF StatusOK
<1> QED BY <1>1, <1>10, <1>11, <1>12, <1>13, HandedPromised

(* The format generation chooses is wanted and has not passed; those it     *)
(* leaves behind have.                                                      *)
LEMMA GenerationChooses ==
    ASSUME IInv, PromiseInv, node = "generation"
    PROVE  /\ campaign.brief = "ready"
           /\ campaign.layouts.formats = campaign.formats /\ campaign.formats # <<>>
           /\ TargetFormat(campaign) \in ToSet(campaign.formats)
           /\ ~FormatPassed(campaign, TargetFormat(campaign))
           /\ \A a \in DOMAIN campaign.assets :
                campaign.assets[a].format # TargetFormat(campaign) =>
                  FormatPassed(campaign, campaign.assets[a].format)
<1> DEFINE c == campaign
           g == TargetFormat(campaign)
<1>1. /\ c \in Campaigns /\ CampaignOK(c) /\ InStep(c)
      /\ c.layouts.formats # <<>> /\ Latest(c) = Len(c.quality)
  BY DEF IInv, TypeOK, CampaignOK, NodeOK
<1>2. c.layouts.formats = c.formats
  BY <1>1 DEF CampaignOK
<1>3. /\ c.brief = "ready"
      /\ c.plan.made \/ c.assets = <<>> \/ (BothPassed(c) /\ ~AllFormatsPassed(c))
  BY DEF PromiseInv, Wanted
<1>4. AssetsOK(c)
  BY DEF PromiseInv
<1>5. c.assets # <<>> => BothReviewed(c)
  BY <1>1, Numbers
<1>6. CASE c.plan.made
  <2>1. c.assets # <<>> /\ BothReviewed(c) /\ ~BothPassed(c)
    BY <1>1, <1>6 DEF CampaignOK, PlanCurrent, BothReviewed
  <2>2. g = Last(c.assets).format
    BY <1>1, <1>6, <2>1, TargetFormatChosen
  <2>3. ~FormatPassed(c, g) /\ DOMAIN c.assets = 1..Latest(c)
        /\ Latest(c) \in 1..Latest(c) /\ Last(c.assets) = c.assets[Latest(c)]
    BY <1>1, <2>1, <2>2, LatestFormat
  <2>4. g \in ToSet(c.formats)
    BY <1>4, <2>2, <2>3 DEF AssetsOK
  <2>5. OthersPassed(c)
    BY <1>4 DEF AssetsOK
  <2> QED BY <1>1, <1>2, <1>3, <2>2, <2>3, <2>4, <2>5 DEF OthersPassed
<1>7. CASE ~c.plan.made
  <2>1. \A a \in DOMAIN c.assets : FormatPassed(c, c.assets[a].format)
    <3>1. CASE c.assets = <<>>
      BY <3>1, EmptySeq
    <3>2. CASE c.assets # <<>>
      BY <1>1, <1>3, <1>4, <1>5, <1>7, <3>2, GeneratedPassed DEF AssetsOK
    <3> QED BY <3>1, <3>2
  <2>2. PICK f \in ToSet(c.layouts.formats) : f \notin Generated(c)
    <3>1. CASE c.assets = <<>>
      <4>1. Generated(c) = {}
        BY <3>1, EmptySeq DEF Generated
      <4>2. c.layouts.formats[1] \in ToSet(c.layouts.formats)
        BY <1>1, Parts, EmptySeq, LenProperties DEF ToSet
      <4> QED BY <4>1, <4>2
    <3>2. CASE c.assets # <<>>
      <4>1. PICK f \in ToSet(c.layouts.formats) : ~FormatPassed(c, f)
        BY <1>3, <1>7, <3>2 DEF AllFormatsPassed
      <4>2. f \notin Generated(c)
        BY <2>1, <4>1 DEF Generated
      <4> QED BY <4>1, <4>2
    <3> QED BY <3>1, <3>2
  <2>3. g \in ToSet(c.layouts.formats) \ Generated(c)
    BY <1>1, <1>7, <2>2, TargetFormatChosen
  <2>4. ~FormatPassed(c, g)
    BY <2>3 DEF FormatPassed, IsLatestOf, Generated
  <2> QED BY <1>1, <1>2, <1>3, <2>1, <2>3, <2>4
<1> QED BY <1>6, <1>7

(* The new asset takes the verdict from its format and leaves the others.   *)
LEMMA GenerationPassed ==
    ASSUME IInv, GenerationNode
    PROVE  /\ \A f : f # TargetFormat(campaign) =>
                (FormatPassed(campaign', f) <=> FormatPassed(campaign, f))
           /\ ~FormatPassed(campaign', TargetFormat(campaign))
<1> DEFINE c == campaign
           d == campaign'
           g == TargetFormat(campaign)
           n == Latest(campaign)
<1>1. /\ node = "generation"
      /\ d.quality = c.quality /\ d.compliance = c.compliance
      /\ Latest(d) = n + 1
      /\ \A i \in 1..n : d.assets[i] = c.assets[i]
      /\ d.assets[n + 1] = NewAsset(c)
      /\ d.assets = Append(c.assets, NewAsset(c))
  BY GenerationEffect
<1>2. c \in Campaigns /\ InStep(c) /\ n = Len(c.quality) /\ c.layouts.formats # <<>>
  BY <1>1 DEF IInv, TypeOK, CampaignOK, NodeOK
<1>3. NewAsset(c) \in Assets /\ NewAsset(c).format = g
  BY <1>2, TargetFormatTyped, Parts DEF NewAsset, Assets, Layouts
<1>4. /\ DOMAIN c.assets = 1..n /\ DOMAIN d.assets = 1..(n + 1) /\ n \in Nat
  BY <1>1, <1>2, <1>3, Parts, LenProperties, AppendProperties DEF Latest
<1>5. \A a \in 1..n : a \in 1..(n + 1) /\ a # n + 1
  BY <1>4
<1>6. \A a \in 1..(n + 1) : a \in 1..n \/ a = n + 1
  BY <1>4
<1>7. d.assets[n + 1].format = g
  BY <1>1, <1>3
<1>8. \A a : PassedBy(c.quality, a) /\ PassedBy(c.compliance, a) => a \in 1..n
  BY <1>2, PassedByNumber DEF Approved
<1> HIDE DEF g, n
<1>9. ASSUME NEW f, f # g
      PROVE  FormatPassed(d, f) <=> FormatPassed(c, f)
  <2>1. \A a \in 1..n : IsLatestOf(d, a, f) <=> IsLatestOf(c, a, f)
    <3> SUFFICES ASSUME NEW a \in 1..n
                 PROVE  IsLatestOf(d, a, f) <=> IsLatestOf(c, a, f)
      OBVIOUS
    <3>1. (\A b \in 1..(n + 1) : d.assets[b].format = f => b <= a)
             <=> (\A b \in 1..n : c.assets[b].format = f => b <= a)
      BY <1>1, <1>5, <1>6, <1>7, <1>9
    <3> QED BY <1>1, <1>4, <1>5, <3>1 DEF IsLatestOf
  <2> QED BY <1>1, <1>4, <1>5, <1>8, <2>1 DEF FormatPassed
<1>10. ~FormatPassed(d, g)
  <2>1. n + 1 \in DOMAIN d.assets
    BY <1>4
  <2>2. \A a \in 1..n : ~IsLatestOf(d, a, g)
    BY <1>4, <1>7, <2>1 DEF IsLatestOf
  <2> QED BY <1>1, <1>8, <2>2 DEF FormatPassed
<1> QED BY <1>9, <1>10 DEF g

LEMMA GenerationPromises ==
    ASSUME IInv, IInv', PromiseInv, GenerationNode
    PROVE  PromiseInv'
<1> DEFINE g == TargetFormat(campaign)
           n == Latest(campaign)
<1>1. /\ node = "generation" /\ node' = "director" /\ checkpoint' = campaign'
      /\ campaign'.plan = NoPlan
      /\ campaign'.layouts = campaign.layouts
      /\ campaign'.quality = campaign.quality
      /\ campaign'.compliance = campaign.compliance
      /\ Latest(campaign') = n + 1
      /\ \A i \in 1..n : campaign'.assets[i] = campaign.assets[i]
      /\ campaign'.assets[n + 1] = NewAsset(campaign)
  BY GenerationEffect
<1>2. /\ campaign'.brief = campaign.brief /\ campaign'.formats = campaign.formats
      /\ campaign'.status = campaign.status
      /\ campaign'.strategies = campaign.strategies
      /\ campaign'.evaluations = campaign.evaluations
      /\ campaign'.rounds = campaign.rounds
      /\ campaign'.generations = campaign.generations + 1
  BY GenerationWrites
<1>3. campaign \in Campaigns /\ campaign' \in Campaigns
  BY MergedTyped DEF IInv, TypeOK
<1>4. AssetsOK(campaign) /\ LayoutsOK(campaign) /\ StatusOK(campaign)
  BY <1>1 DEF PromiseInv
<1>5. /\ campaign.brief = "ready"
      /\ campaign.layouts.formats = campaign.formats /\ campaign.formats # <<>>
      /\ g \in ToSet(campaign.formats)
      /\ \A a \in DOMAIN campaign.assets :
           campaign.assets[a].format # g => FormatPassed(campaign, campaign.assets[a].format)
  BY <1>1, GenerationChooses
<1>6. \A f : f # g => (FormatPassed(campaign', f) <=> FormatPassed(campaign, f))
  BY GenerationPassed
<1>7. /\ n \in Nat /\ DOMAIN campaign.assets = 1..n
      /\ DOMAIN campaign'.assets = 1..(n + 1)
  BY <1>1, <1>3, Parts, LenProperties DEF Latest
<1>8. /\ Last(campaign'.assets).format = g /\ campaign'.assets[n + 1].format = g
  BY <1>1 DEF Last, Latest, NewAsset
<1>9. \A a \in 1..(n + 1) : a \in 1..n \/ a = n + 1
  BY <1>7
<1> HIDE DEF g, n
<1>10. AssetsOK(campaign')
  <2>1. \A a \in DOMAIN campaign'.assets :
          campaign'.assets[a].format \in ToSet(campaign'.formats)
    BY <1>1, <1>2, <1>4, <1>5, <1>7, <1>8, <1>9 DEF AssetsOK
  <2>2. OthersPassed(campaign')
    BY <1>1, <1>5, <1>6, <1>7, <1>8, <1>9 DEF OthersPassed
  <2>3. ~campaign'.plan.made
    BY <1>1 DEF NoPlan
  <2>4. Latest(campaign') = campaign'.generations
    BY <1>1, <1>2, <1>4 DEF AssetsOK, n
  <2> QED BY <1>1, <1>2, <1>5, <2>1, <2>2, <2>3, <2>4 DEF AssetsOK
<1>11. LayoutsOK(campaign')
  <2>1. campaign.layouts.basis <= n /\ campaign.layouts.basis \in Nat
    BY <1>3, <1>4, UsedTyped DEF LayoutsOK, n
  <2>2. campaign'.layouts.basis <= n + 1 /\ campaign'.layouts.basis # n + 1
    BY <1>1, <1>7, <2>1
  <2> QED BY <1>1, <2>2 DEF LayoutsOK
<1>12. Grown(campaign, campaign')
  <2>1. Len(campaign'.assets) = Len(campaign.assets) + 1
    BY <1>1 DEF Latest, n
  <2> QED BY <1>1, <1>2, <1>3, <2>1, UsedTyped DEF Grown
<1>13. RoundsOK(campaign')
  BY <1>2, <1>12, RoundsKept
<1>14. StatusOK(campaign')
  BY <1>2, <1>4 DEF StatusOK
<1> QED BY <1>1, <1>10, <1>11, <1>13, <1>14, HandedPromised

(* The reviews of the latest asset decide on its format only.               *)
LEMMA ReviewPassed ==
    ASSUME IInv, IInv', ReviewPanelNode
    PROVE  /\ campaign.assets # <<>> /\ ~BothReviewed(campaign) /\ BothReviewed(campaign')
           /\ campaign'.assets = campaign.assets
           /\ \A f : f # Last(campaign.assets).format =>
                (FormatPassed(campaign', f) <=> FormatPassed(campaign, f))
           /\ ~FormatPassed(campaign, Last(campaign.assets).format)
<1> DEFINE c == campaign
           d == campaign'
           n == Len(campaign.quality)
<1>1. PICK q, p \in Reviews :
           /\ checkpoint' = d
           /\ d.assets = c.assets
           /\ Len(d.quality) = n + 1 /\ Len(d.compliance) = n + 1
           /\ Latest(c) = n + 1
           /\ \A i \in 1..n : /\ d.quality[i] = c.quality[i]
                              /\ d.compliance[i] = c.compliance[i]
  BY ReviewEffect
<1>2. /\ c \in Campaigns /\ InStep(c) /\ d \in Campaigns
  BY MergedTyped DEF IInv, TypeOK, CampaignOK
<1>3. InStep(d)
  BY DEF IInv, CampaignOK, InStep, Latest
<1>4. n \in Nat /\ Latest(d) = n + 1
  BY <1>1, <1>2, LenProperties, Parts DEF Latest
<1>5. c.assets # <<>> /\ ~BothReviewed(c) /\ BothReviewed(d)
  BY <1>1, <1>2, <1>3, <1>4, Numbers
<1>6. /\ DOMAIN c.assets = 1..(n + 1) /\ Last(c.assets) = c.assets[n + 1]
      /\ ~FormatPassed(c, Last(c.assets).format)
  BY <1>1, <1>2, <1>5, LatestFormat
<1>7. ASSUME NEW f, f # Last(c.assets).format
      PROVE  FormatPassed(d, f) <=> FormatPassed(c, f)
  <2>1. \A a : IsLatestOf(d, a, f) <=> IsLatestOf(c, a, f)
    BY <1>1 DEF IsLatestOf
  <2>2. \A a : IsLatestOf(c, a, f) => a \in 1..(n + 1) /\ a # n + 1
    BY <1>6, <1>7 DEF IsLatestOf
  <2>3. \A a \in 1..n : Approved(d, a) <=> Approved(c, a)
    BY <1>1, <1>4 DEF Approved
  <2>4. \A a \in 1..(n + 1) : a # n + 1 => a \in 1..n
    BY <1>4
  <2>5. \A a : IsLatestOf(c, a, f) => (Approved(d, a) <=> Approved(c, a))
    BY <2>2, <2>3, <2>4
  <2> QED BY <1>1, <1>2, <1>3, <2>1, <2>5, FormatPassedNumber
<1> QED BY <1>1, <1>5, <1>6, <1>7

LEMMA ReviewPromises ==
    ASSUME IInv, IInv', PromiseInv, ReviewPanelNode
    PROVE  PromiseInv'
<1>1. PICK q, p \in Reviews :
           /\ node' = "director" /\ checkpoint' = campaign'
           /\ campaign'.assets = campaign.assets
           /\ campaign'.plan = campaign.plan /\ ~campaign.plan.made
           /\ campaign'.layouts = campaign.layouts
           /\ Len(campaign'.quality) = Len(campaign.quality) + 1
  BY ReviewEffect
<1>2. /\ node = "review_panel"
      /\ campaign'.brief = campaign.brief /\ campaign'.formats = campaign.formats
      /\ campaign'.status = campaign.status
      /\ campaign'.strategies = campaign.strategies
      /\ campaign'.evaluations = campaign.evaluations
      /\ campaign'.rounds = campaign.rounds
      /\ campaign'.generations = campaign.generations
  BY ReviewWrites
<1>3. campaign \in Campaigns /\ campaign' \in Campaigns
  BY <1>1, MergedTyped DEF IInv, TypeOK
<1>4. AssetsOK(campaign) /\ LayoutsOK(campaign) /\ StatusOK(campaign)
  BY <1>2 DEF PromiseInv
<1>5. OthersPassed(campaign')
  BY <1>1, <1>4, ReviewPassed DEF AssetsOK, OthersPassed
<1>6. AssetsOK(campaign')
  BY <1>1, <1>2, <1>4, <1>5 DEF AssetsOK, Latest
<1>7. LayoutsOK(campaign')
  BY <1>1, <1>4 DEF LayoutsOK, Latest, PlanCalls
<1>8. Grown(campaign, campaign')
  BY <1>1, <1>2, <1>3, UsedTyped DEF Grown
<1>9. RoundsOK(campaign')
  BY <1>2, <1>8, RoundsKept
<1>10. StatusOK(campaign')
  BY <1>2, <1>4 DEF StatusOK
<1> QED BY <1>1, <1>6, <1>7, <1>9, <1>10, HandedPromised

(* Steps that leave the campaigns alone, or load the stored one.            *)
LEMMA OtherPromises ==
    ASSUME PromiseInv, checkpoint' = checkpoint,
           \/ campaign' = campaign /\ node' = node
           \/ campaign' = campaign /\ node # "end" /\ node' \in {"raised", "down"}
           \/ campaign' = checkpoint /\ node' = "director"
    PROVE  PromiseInv'
<1>1. /\ AssetsOK(campaign') /\ AssetsOK(checkpoint')
      /\ LayoutsOK(campaign') /\ LayoutsOK(checkpoint')
      /\ RoundsOK(checkpoint') /\ StatusOK(checkpoint')
      /\ node' # "end" => StatusOK(campaign')
  BY DEF PromiseInv
<1>2. Wanted'
  BY DEF PromiseInv, Wanted, PlanCalls, BothPassed, AllFormatsPassed, FormatPassed,
         IsLatestOf, PassedBy
<1> QED BY <1>1, <1>2
        DEF PromiseInv, AssetsOK, OthersPassed, FormatPassed, IsLatestOf, PassedBy,
            Findings, LayoutsOK, PlanCalls, Latest, RoundsOK, Used, StatusOK

LEMMA InitPromises ==
    ASSUME Init
    PROVE  PromiseInv
<1>1. /\ Fresh.assets = <<>> /\ Fresh.quality = <<>> /\ Fresh.evaluations = <<>>
      /\ ~Fresh.plan.made /\ Fresh.layouts.basis = 0 /\ Fresh.rounds = 0
      /\ Fresh.generations = 0 /\ Fresh.brief = "none" /\ Fresh.strategies = <<>>
      /\ Fresh.layouts.formats = <<>> /\ Fresh.status = "planning"
      /\ Len(<<>>) = 0 /\ DOMAIN <<>> = {}
  BY EmptySeq DEF Fresh, NoPlan, NoLayouts
<1>2. AssetsOK(Fresh) /\ LayoutsOK(Fresh)
  BY <1>1 DEF AssetsOK, OthersPassed, LayoutsOK, Latest
<1>3. Used(Fresh) = 0
  BY <1>1 DEF Used
<1>4. RoundsOK(Fresh) /\ StatusOK(Fresh)
  BY <1>1, <1>3 DEF RoundsOK, StatusOK
<1> QED BY <1>2, <1>4 DEF Init, PromiseInv, Wanted

(* The director's round leaves of the campaign what the promise is about.   *)
LEMMA DirectWrites ==
    ASSUME IInv, Direct
    PROVE  \E d \in Campaigns :
           /\ d = CountRound(Plan(Select(campaign)))
           /\ campaign \in Campaigns /\ CampaignOK(campaign) /\ campaign = checkpoint
           /\ campaign.rounds < MaxRounds
           /\ CampaignOK(d) /\ SameWork(campaign, d)
           /\ d.rounds = campaign.rounds + 1 /\ d.status = campaign.status
           /\ node = "director" /\ checkpoint' = checkpoint
           /\ node' = Decide(d).node /\ node' \in Working \cup {"end", "raised"}
           /\ SameWork(d, campaign') /\ campaign'.plan = d.plan
           /\ campaign'.status = IF node' = "end" THEN Decide(d).status ELSE d.status
<1> DEFINE s == Select(campaign)
           p == Plan(s)
           d == CountRound(p)
<1>1. /\ node = "director" /\ checkpoint' = checkpoint
      /\ campaign' = [Resolve(d) EXCEPT
                        !.status = IF Decide(d).node = "end" THEN Decide(d).status ELSE @]
      /\ node' = Decide(d).node
  BY DEF Direct
<1>2. /\ campaign \in Campaigns /\ CampaignOK(campaign) /\ campaign.rounds < MaxRounds
      /\ campaign = checkpoint
  BY <1>1 DEF IInv, TypeOK, NodeOK
<1>3. /\ d \in Campaigns /\ CampaignOK(d) /\ SameWork(campaign, d)
      /\ d.rounds = campaign.rounds + 1
  BY <1>2, BeforeDecision
<1>4. d.status = campaign.status
  <2>1. s \in Campaigns /\ s = [campaign EXCEPT !.selected = s.selected]
    BY <1>2, SelectEffect DEF CampaignOK
  <2>2. SameReviews(campaign, s) /\ s.plan = campaign.plan /\ s.status = campaign.status
    BY <1>2, <2>1 DEF Campaigns, SameReviews
  <2>3. PlanCurrent(s)
    BY <1>2, <2>2, SameVerdicts DEF CampaignOK, PlanCurrent
  <2> HIDE DEF s
  <2>4. p \in Campaigns /\ p = [s EXCEPT !.plan = p.plan]
    BY <2>1, <2>3, PlanEffect
  <2>5. p.status = s.status
    BY <2>1, <2>4 DEF Campaigns
  <2> HIDE DEF p
  <2>6. d.status = p.status
    BY <2>4 DEF CountRound, Campaigns
  <2> QED BY <2>2, <2>5, <2>6
<1>5. Decide(d).node \in Working \cup {"end", "raised"}
  BY <1>3, DecideEffect DEF CampaignOK
<1>6. /\ Resolve(d) \in Campaigns
      /\ Resolve(d) = [d EXCEPT !.conflicts = Resolve(d).conflicts]
  BY <1>3, ResolveEffect
<1> HIDE DEF d
<1>7. /\ SameWork(d, campaign') /\ campaign'.plan = d.plan
      /\ campaign'.status = IF node' = "end" THEN Decide(d).status ELSE d.status
  BY <1>1, <1>3, <1>6 DEF Campaigns, SameWork, Contributed
<1> QED BY <1>1, <1>2, <1>3, <1>4, <1>5, <1>7 DEF d, p, s

-----------------------------------------------------------------------------
(* The director keeps it.                                                   *)

(* A plan is empty when there is nothing to revise.                         *)
LEMMA PlanNotEmpty ==
    ASSUME NEW d \in Campaigns, BothReviewed(d), d.plan = BuildRevisionPlan(d)
    PROVE  d.plan.tasks # <<>> \/ Findings(d) = <<>>
<1> DEFINE f == Findings(d)
           m == IF Len(f) < 3 THEN Len(f) ELSE 3
<1>1. f \in Seq(Targets)
  BY FindingsTyped
<1>2. d.plan.tasks = SubSeq(f, 1, m)
  <2>1. BuildRevisionPlan(d).tasks = SubSeq(f, 1, m)
    BY DEF BuildRevisionPlan
  <2> QED BY <2>1
<1> HIDE DEF f
<1>3. CASE f # <<>>
  <2>1. Len(f) \in Nat /\ Len(f) > 0
    BY <1>1, <1>3, EmptySeq, LenProperties
  <2>2. m \in Nat /\ m > 0 /\ m <= Len(f)
    BY <2>1
  <2> HIDE DEF m
  <2>3. \A i \in 1..m : f[i] \in Targets
    <3>1. \A i \in 1..m : i \in 1..Len(f)
      BY <2>1, <2>2
    <3> QED BY <1>1, <3>1, ElementOfSeq
  <2>4. Len(SubSeq(f, 1, m)) = m
    <3>1. Len(SubSeq(f, 1, m)) = IF 1 <= m THEN m - 1 + 1 ELSE 0
      BY <1>1, <2>2, <2>3, SubSeqProperties
    <3> QED BY <2>2, <3>1
  <2>5. SubSeq(f, 1, m) # <<>>
    <3>1. Len(<<>>) = 0
      BY EmptySeq
    <3> QED BY <2>2, <2>4, <3>1
  <2> QED BY <1>2, <2>5
<1> QED BY <1>3 DEF f

(* The early returns of decide, for the promise.                            *)
LEMMA DecidePromised ==
    ASSUME NEW d \in Campaigns, InStep(d), PlanCurrent(d), AssetsOK(d),
           BothReviewed(d) /\ ~BothPassed(d) => d.plan.made
    PROVE  /\ Decide(d).node = "layout" =>
                d.layouts.formats = <<>> \/ PlanCalls(d, "layout")
           /\ Decide(d).node = "generation" =>
                /\ d.brief = "ready"
                /\ \/ d.plan.made \/ d.assets = <<>>
                   \/ BothPassed(d) /\ ~AllFormatsPassed(d)
           /\ Decide(d).node = "end" =>
                \/ Decide(d).status = "aborted" /\ Exhausted(d)
                \/ /\ Decide(d).status = "waiting_for_user"
                   /\ d.status = "waiting_for_user" \/ d.brief = "unclear"
                \/ /\ Decide(d).status = IF ReviewRequired THEN "waiting_for_review"
                                                           ELSE "completed"
                   /\ BothReviewed(d) /\ d.layouts.formats # <<>> /\ AllFormatsPassed(d)
<1>1. d.brief \in {"none", "ready", "unclear"}
  BY DEF Campaigns
<1>2. BothReviewed(d) /\ ~BothPassed(d) /\ ~PlanCalls(d, "layout")
        /\ ~PlanCalls(d, "generation") => RevisionTarget(d) = "generation"
  <2>1. ASSUME BothReviewed(d) /\ ~BothPassed(d),
               ~PlanCalls(d, "layout") /\ ~PlanCalls(d, "generation")
        PROVE  RevisionTarget(d) = "generation"
    <3>1. d.plan.made
      BY <2>1
    <3>2. d.plan.tasks = <<>>
      BY <2>1, <3>1, PlanCallsOne
    <3>3. Findings(d) = <<>>
      BY <3>1, <3>2 DEF AssetsOK
    <3> QED BY <3>3 DEF RevisionTarget
  <2> QED BY <2>1
<1>3. PlanCalls(d, "generation") => d.plan.made
  BY DEF PlanCalls
<1> DEFINE n == Decide(d).node
           L == n = "layout" => d.layouts.formats = <<>> \/ PlanCalls(d, "layout")
           G == n = "generation" => /\ d.brief = "ready"
                                    /\ \/ d.plan.made \/ d.assets = <<>>
                                       \/ BothPassed(d) /\ ~AllFormatsPassed(d)
           E == n = "end" =>
                \/ Decide(d).status = "aborted" /\ Exhausted(d)
                \/ /\ Decide(d).status = "waiting_for_user"
                   /\ d.status = "waiting_for_user" \/ d.brief = "unclear"
                \/ /\ Decide(d).status = IF ReviewRequired THEN "waiting_for_review"
                                                           ELSE "completed"
                   /\ BothReviewed(d) /\ d.layouts.formats # <<>> /\ AllFormatsPassed(d)
<1>4. CASE \/ Exhausted(d) \/ d.status = "waiting_for_user" \/ d.brief # "ready"
           \/ d.strategies = <<>> \/ d.selected = 0 \/ d.layouts.formats = <<>>
           \/ PlanCalls(d, "layout")
  BY <1>1, <1>4 DEF Decide, Go, Stop
<1>5. CASE /\ ~Exhausted(d) /\ d.status # "waiting_for_user" /\ d.brief = "ready"
           /\ d.strategies # <<>> /\ d.selected # 0 /\ d.layouts.formats # <<>>
           /\ ~PlanCalls(d, "layout")
  <2>1. CASE d.assets = <<>> \/ PlanCalls(d, "generation")
    BY <1>3, <1>5, <2>1 DEF Decide, Go, Stop
  <2>2. CASE ~(d.assets = <<>> \/ PlanCalls(d, "generation"))
             /\ ~(Evaluated(d, Latest(d)) /\ BothReviewed(d))
    BY <1>5, <2>2 DEF Decide, Go, Stop
  <2>3. CASE /\ ~(d.assets = <<>> \/ PlanCalls(d, "generation"))
             /\ Evaluated(d, Latest(d)) /\ BothReviewed(d) /\ ~BothPassed(d)
    BY <1>2, <1>5, <2>3 DEF Decide, Go, Stop
  <2>4. CASE /\ ~(d.assets = <<>> \/ PlanCalls(d, "generation"))
             /\ Evaluated(d, Latest(d)) /\ BothReviewed(d) /\ BothPassed(d)
    BY <1>5, <2>4 DEF Decide, Go, Stop
  <2> QED BY <2>1, <2>2, <2>3, <2>4
<1> QED BY <1>1, <1>4, <1>5

(* With enough rounds for all generations, what is exhausted are the        *)
(* generations, if the brief names a format.                                *)
LEMMA GenerationsExhausted ==
    ASSUME IInv, PromiseInv, EnoughRounds, node = "director",
           NEW d \in Campaigns, SameWork(campaign, d), d.rounds = campaign.rounds + 1,
           campaign = checkpoint, campaign.formats # <<>>, Exhausted(d)
    PROVE  campaign.generations = MaxGenerations
<1>1. campaign \in Campaigns /\ InStep(campaign)
  BY DEF IInv, TypeOK, CampaignOK
<1>2. d.generations = campaign.generations
  BY DEF SameWork, Contributed
<1>3. /\ campaign.generations \in 0..MaxGenerations /\ MaxGenerations \in Nat
      /\ MaxRounds \in Nat /\ campaign.rounds \in Nat
  BY <1>1, Parts, Budgets
<1>4. PICK b, s, l \in {0, 1}, x, n, e, q \in Nat :
         /\ Used(campaign) = b + s + l + x + n + e + q
         /\ b = 0 <=> campaign.brief = "none"
         /\ s = 0 <=> campaign.strategies = <<>>
         /\ l = 0 <=> campaign.layouts.formats = <<>>
         /\ x = campaign.layouts.basis /\ n = Len(campaign.assets)
         /\ e = Len(campaign.evaluations) /\ q = Len(campaign.quality)
  BY <1>1, UsedSum
<1>5. campaign.rounds <= Used(campaign)
  BY DEF PromiseInv, RoundsOK
<1>6. /\ n = campaign.generations /\ x <= n /\ q <= e /\ e <= n
  BY <1>1, <1>4 DEF PromiseInv, AssetsOK, LayoutsOK, InStep, Latest
<1>7. Used(campaign) <= 3 + 4 * n
  <2>1. b + s + l + x + n + e + q <= 3 + 4 * n
    <3>1. b <= 1 /\ s <= 1 /\ l <= 1 /\ b \in Nat /\ s \in Nat /\ l \in Nat
      OBVIOUS
    <3>2. e \in Nat /\ q \in Nat /\ x \in Nat /\ n \in Nat /\ q <= n
      BY <1>6
    <3> QED BY <1>6, <3>1, <3>2
  <2> QED BY <1>4, <2>1
<1>8. Used(campaign) \in Nat
  BY <1>1, UsedTyped
<1>9. CASE campaign.rounds + 1 >= MaxRounds
  <2>1. 4 * MaxGenerations < MaxRounds
    BY DEF EnoughRounds
  <2>2. ~(n < MaxGenerations)
    <3>1. ASSUME n + 1 <= MaxGenerations PROVE FALSE
      <4>1. 4 * n + 4 <= 4 * MaxGenerations
        BY <1>3, <3>1
      <4>2. MaxRounds <= 4 * n + 4
        BY <1>3, <1>5, <1>7, <1>8, <1>9
      <4>3. 4 * n \in Nat /\ 4 * MaxGenerations \in Nat
        BY <1>3
      <4> QED BY <1>3, <2>1, <4>1, <4>2, <4>3
    <3> QED BY <1>3, <3>1
  <2> QED BY <1>3, <1>6, <2>2
<1>10. CASE campaign.generations >= MaxGenerations
  BY <1>3, <1>10
<1> QED BY <1>2, <1>9, <1>10 DEF Exhausted

(* The director decides on a campaign that is as good as the one it has.    *)
LEMMA DecidesOn ==
    ASSUME PromiseInv, NEW d \in Campaigns, d = CountRound(Plan(Select(campaign))),
           campaign \in Campaigns, CampaignOK(campaign), campaign.rounds < MaxRounds,
           CampaignOK(d), SameWork(campaign, d)
    PROVE  AssetsOK(d) /\ LayoutsOK(d) /\ (BothReviewed(d) /\ ~BothPassed(d) => d.plan.made)
<1>1. /\ campaign.plan.made => d.plan = campaign.plan
      /\ ~campaign.plan.made /\ d.plan.made => d.plan = BuildRevisionPlan(d)
      /\ BothReviewed(d) /\ ~BothPassed(d) => d.plan.made
  BY PlanMade
<1>2. /\ d.assets = campaign.assets /\ d.quality = campaign.quality
      /\ d.compliance = campaign.compliance /\ d.layouts = campaign.layouts
      /\ d.brief = campaign.brief /\ d.formats = campaign.formats
      /\ d.generations = campaign.generations
  BY DEF SameWork, Contributed
<1>3. AssetsOK(campaign) /\ LayoutsOK(campaign)
  BY DEF PromiseInv
<1>4. d.plan.made => d.plan.tasks # <<>> \/ Findings(d) = <<>>
  <2>1. CASE campaign.plan.made
    BY <1>1, <1>2, <1>3, <2>1 DEF AssetsOK, Findings
  <2>2. CASE ~campaign.plan.made
    BY <1>1, <2>2, PlanNotEmpty DEF CampaignOK, PlanCurrent
  <2> QED BY <2>1, <2>2
<1>5. AssetsOK(d)
  BY <1>2, <1>3, <1>4 DEF AssetsOK, OthersPassed, FormatPassed, IsLatestOf, PassedBy, Latest
<1>6. LayoutsOK(d)
  BY <1>1, <1>2, <1>3 DEF LayoutsOK, PlanCalls, Latest
<1> QED BY <1>1, <1>5, <1>6

LEMMA DirectPromises ==
    ASSUME IInv, IInv', PromiseInv, Direct
    PROVE  PromiseInv'
<1>1. PICK d \in Campaigns :
           /\ d = CountRound(Plan(Select(campaign)))
           /\ campaign \in Campaigns /\ CampaignOK(campaign) /\ campaign = checkpoint
           /\ campaign.rounds < MaxRounds
           /\ CampaignOK(d) /\ SameWork(campaign, d)
           /\ d.rounds = campaign.rounds + 1 /\ d.status = campaign.status
           /\ node = "director" /\ checkpoint' = checkpoint
           /\ node' = Decide(d).node /\ node' \in Working \cup {"end", "raised"}
           /\ SameWork(d, campaign') /\ campaign'.plan = d.plan
           /\ campaign'.status = IF node' = "end" THEN Decide(d).status ELSE d.status
  BY DirectWrites
<1>2. AssetsOK(d) /\ LayoutsOK(d) /\ (BothReviewed(d) /\ ~BothPassed(d) => d.plan.made)
  BY <1>1, DecidesOn
<1>3. AssetsOK(campaign') /\ LayoutsOK(campaign')
  <2>1. /\ campaign'.assets = d.assets /\ campaign'.quality = d.quality
        /\ campaign'.compliance = d.compliance /\ campaign'.layouts = d.layouts
        /\ campaign'.brief = d.brief /\ campaign'.formats = d.formats
        /\ campaign'.generations = d.generations /\ campaign'.plan = d.plan
    BY <1>1 DEF SameWork, Contributed
  <2>2. AssetsOK(campaign')
    BY <1>2, <2>1 DEF AssetsOK, OthersPassed, FormatPassed, IsLatestOf, PassedBy,
                      Findings, Latest
  <2>3. LayoutsOK(campaign')
    BY <1>2, <2>1 DEF LayoutsOK, PlanCalls, Latest
  <2> QED BY <2>2, <2>3
<1>4. node' # "end" => StatusOK(campaign')
  BY <1>1 DEF PromiseInv, StatusOK, SameWork, Contributed
<1>5. Wanted'
  <2>1. /\ node' = "layout" => d.layouts.formats = <<>> \/ PlanCalls(d, "layout")
        /\ node' = "generation" =>
             /\ d.brief = "ready"
             /\ \/ d.plan.made \/ d.assets = <<>>
                \/ BothPassed(d) /\ ~AllFormatsPassed(d)
    BY <1>1, <1>2, DecidePromised DEF CampaignOK
  <2>2. BothPassed(campaign') <=> BothPassed(d)
    BY <1>1 DEF SameWork, Contributed, BothPassed
  <2>3. AllFormatsPassed(campaign') <=> AllFormatsPassed(d)
    BY <1>1 DEF SameWork, Contributed, AllFormatsPassed, FormatPassed, IsLatestOf, PassedBy
  <2>4. /\ campaign'.layouts = d.layouts /\ campaign'.plan = d.plan
        /\ campaign'.assets = d.assets /\ campaign'.brief = d.brief
    BY <1>1 DEF SameWork, Contributed
  <2>5. /\ node' = "layout" =>
             campaign'.layouts.formats = <<>> \/ PlanCalls(campaign', "layout")
        /\ node' = "generation" =>
             /\ campaign'.brief = "ready"
             /\ \/ campaign'.plan.made \/ campaign'.assets = <<>>
                \/ BothPassed(campaign') /\ ~AllFormatsPassed(campaign')
    BY <2>1, <2>2, <2>3, <2>4 DEF PlanCalls
  <2> QED BY <2>5 DEF Wanted, PlanCalls, BothPassed, AllFormatsPassed, FormatPassed,
                      IsLatestOf, PassedBy
<1>6. AssetsOK(checkpoint) /\ LayoutsOK(checkpoint) /\ RoundsOK(checkpoint) /\ StatusOK(checkpoint)
  BY DEF PromiseInv
<1> QED BY <1>1, <1>3, <1>4, <1>5, <1>6
        DEF PromiseInv, AssetsOK, OthersPassed, FormatPassed, IsLatestOf, PassedBy,
            Findings, LayoutsOK, PlanCalls, Latest, RoundsOK, Used, StatusOK

-----------------------------------------------------------------------------
(* The invariant holds of every campaign.                                   *)

LEMMA PromiseInvariance == Spec => []PromiseInv
<1>1. Init => PromiseInv
  BY InitPromises
<1>2. IInv /\ IInv' /\ PromiseInv /\ [Next]_vars => PromiseInv'
  <2> SUFFICES ASSUME IInv, IInv', PromiseInv, [Next]_vars PROVE PromiseInv'
    OBVIOUS
  <2>1. CASE Direct
    BY <2>1, DirectPromises
  <2>2. CASE \E r \in Roles : Succeed(r) \/ Retry(r) \/ GiveUp(r)
    <3>1. campaign' = campaign /\ checkpoint' = checkpoint /\ node' = node
      BY <2>2 DEF Succeed, Retry, GiveUp
    <3> QED BY <3>1, OtherPromises
  <2>3. CASE NodeRaises \/ Crash
    <3>1. /\ campaign' = campaign /\ checkpoint' = checkpoint
          /\ node' \in {"raised", "down"}
      BY <2>3 DEF NodeRaises, Crash
    <3>2. node # "end"
      BY <2>3 DEF NodeRaises, Crash, Stopped, IInv, NodeOK, Working
    <3> QED BY <3>1, <3>2, OtherPromises
  <2>4. CASE Resume
    BY <2>4, OtherPromises DEF Resume
  <2>5. CASE BriefNode
    BY <2>5, BriefPromises
  <2>6. CASE StrategyPanelNode
    BY <2>6, StrategyPromises
  <2>7. CASE LayoutNode
    BY <2>7, LayoutPromises
  <2>8. CASE GenerationNode
    BY <2>8, GenerationPromises
  <2>9. CASE EvaluationNode
    BY <2>9, EvaluationPromises
  <2>10. CASE ReviewPanelNode
    BY <2>10, ReviewPromises
  <2>11. CASE UNCHANGED vars
    BY <2>11, OtherPromises DEF vars
  <2> QED BY <2>1, <2>2, <2>3, <2>4, <2>5, <2>6, <2>7, <2>8, <2>9, <2>10, <2>11
          DEF Next, Run
<1> QED BY <1>1, <1>2, Invariance, PTL DEF Spec

-----------------------------------------------------------------------------
(* Step by step, what a campaign does is a step of the promise or none.     *)

LEMMA PromisedInit == Init => Promised!Init
<1> SUFFICES ASSUME Init PROVE Promised!Init
  OBVIOUS
<1>1. /\ campaign.formats = <<>> /\ campaign.assets = <<>>
      /\ campaign.generations = 0 /\ node = "director"
  BY DEF Init, Fresh
<1>2. ToSet(<<>>) = {}
  BY EmptySeq DEF ToSet
<1> QED BY <1>1, <1>2 DEF Promised!Init

(* What stays when assets, reviews and formats do.                          *)
LEMMA PromisedSame ==
    ASSUME campaign'.formats = campaign.formats,
           campaign'.generations = campaign.generations,
           campaign'.assets = campaign.assets, campaign'.quality = campaign.quality,
           campaign'.compliance = campaign.compliance
    PROVE  /\ ToSet(campaign'.formats) = ToSet(campaign.formats)
           /\ campaign'.generations = campaign.generations
           /\ (campaign'.assets # <<>> /\ ~BothReviewed(campaign'))
                = (campaign.assets # <<>> /\ ~BothReviewed(campaign))
           /\ {f \in ToSet(campaign'.formats) : FormatPassed(campaign', f)}
                = {f \in ToSet(campaign.formats) : FormatPassed(campaign, f)}
<1>1. ASSUME NEW f PROVE FormatPassed(campaign', f) <=> FormatPassed(campaign, f)
  BY DEF FormatPassed, IsLatestOf, PassedBy
<1>2. BothReviewed(campaign') <=> BothReviewed(campaign)
  BY DEF BothReviewed, ReviewedLast, Latest
<1> QED BY <1>1, <1>2

LEMMA PromisedStutter ==
    ASSUME campaign'.formats = campaign.formats,
           campaign'.generations = campaign.generations,
           campaign'.assets = campaign.assets, campaign'.quality = campaign.quality,
           campaign'.compliance = campaign.compliance,
           \/ node # "end" /\ node' # "end"
           \/ node' = node /\ campaign' = campaign
    PROVE  UNCHANGED Promised!pvars
BY PromisedSame DEF Promised!pvars, FormatPassed, IsLatestOf, PassedBy, BothReviewed,
                    ReviewedLast, Latest

LEMMA NoAssetsYet ==
    ASSUME AssetsOK(campaign), campaign \in Campaigns, campaign.brief # "ready"
    PROVE  campaign.assets = <<>> /\ campaign.generations = 0
<1>1. campaign.assets = <<>>
  BY DEF AssetsOK
<1> QED BY <1>1, EmptySeq DEF AssetsOK, Latest

LEMMA BriefPromised ==
    ASSUME IInv, IInv', PromiseInv, BriefNode
    PROVE  Promised!Brief
<1>1. /\ campaign \in Campaigns /\ campaign' \in Campaigns
      /\ node = "brief" /\ node' = "director" /\ campaign.brief = "none"
      /\ campaign'.assets = campaign.assets
      /\ campaign'.generations = campaign.generations
  <2>1. campaign' \in Campaigns
    BY DEF IInv, TypeOK, Campaigns, MaxRounds, MaxGenerations
  <2> QED BY <2>1, BriefWrites DEF IInv, TypeOK, NodeOK, SameJudged
<1>2. campaign.assets = <<>> /\ campaign.generations = 0
  BY <1>1, NoAssetsYet DEF PromiseInv
<1>3. ToSet(campaign'.formats) \in SUBSET Formats
  <2>1. campaign'.formats \in Seq(Formats)
    BY <1>1 DEF Campaigns
  <2> QED BY <2>1, LenProperties, ElementOfSeq DEF ToSet
<1>4. DOMAIN <<>> = {}
  BY EmptySeq
<1>5. ASSUME NEW f PROVE ~FormatPassed(campaign, f) /\ ~FormatPassed(campaign', f)
  BY <1>1, <1>2, <1>4 DEF FormatPassed
<1>6. /\ {f \in ToSet(campaign.formats) : FormatPassed(campaign, f)} = {}
      /\ {f \in ToSet(campaign'.formats) : FormatPassed(campaign', f)} = {}
  BY <1>5
<1> QED BY <1>1, <1>2, <1>3, <1>6
        DEF Promised!Brief, Promised!Running, FormatPassed, IsLatestOf, PassedBy,
            BothReviewed, ReviewedLast, Latest

LEMMA MakePromised ==
    ASSUME IInv, IInv', PromiseInv, GenerationNode
    PROVE  Promised!Make
<1> DEFINE g == TargetFormat(campaign)
<1>1. /\ node = "generation" /\ node' = "director"
      /\ campaign'.quality = campaign.quality
      /\ Latest(campaign') = Latest(campaign) + 1
      /\ campaign'.formats = campaign.formats
      /\ campaign'.generations = campaign.generations + 1
  BY GenerationEffect, GenerationWrites
<1>2. /\ campaign \in Campaigns /\ campaign' \in Campaigns
      /\ InStep(campaign) /\ InStep(campaign')
      /\ campaign.generations < MaxGenerations
      /\ Latest(campaign) = Len(campaign.quality)
  <2>1. campaign' \in Campaigns
    BY DEF IInv, TypeOK, Campaigns, MaxRounds, MaxGenerations
  <2>2. InStep(campaign')
    BY DEF IInv, CampaignOK, InStep, Latest
  <2> QED BY <1>1, <2>1, <2>2 DEF IInv, TypeOK, CampaignOK, NodeOK, Working
<1>3. ~(campaign.assets # <<>> /\ ~BothReviewed(campaign))
  BY <1>2, Numbers
<1>4. campaign'.assets # <<>> /\ ~BothReviewed(campaign')
  BY <1>1, <1>2, Numbers
<1>5. g \in ToSet(campaign.formats) /\ ~FormatPassed(campaign, g)
  BY <1>1, GenerationChooses
<1>6. ASSUME NEW f PROVE FormatPassed(campaign', f) <=> FormatPassed(campaign, f)
  BY <1>5, GenerationPassed
<1>7. {f \in ToSet(campaign'.formats) : FormatPassed(campaign', f)}
        = {f \in ToSet(campaign.formats) : FormatPassed(campaign, f)}
  BY <1>1, <1>6
<1>8. {f \in ToSet(campaign.formats) : FormatPassed(campaign, f)} # ToSet(campaign.formats)
  BY <1>5
<1> QED BY <1>1, <1>2, <1>3, <1>4, <1>7, <1>8
        DEF Promised!Make, Promised!Running, FormatPassed, IsLatestOf, PassedBy,
            BothReviewed, ReviewedLast, Latest

LEMMA JudgePromised ==
    ASSUME IInv, IInv', PromiseInv, ReviewPanelNode
    PROVE  Promised!Accept \/ Promised!Reject
<1> DEFINE g == Last(campaign.assets).format
           s == {f \in ToSet(campaign.formats) : FormatPassed(campaign, f)}
           t == {f \in ToSet(campaign'.formats) : FormatPassed(campaign', f)}
<1>1. /\ node = "review_panel" /\ node' = "director"
      /\ campaign'.formats = campaign.formats
      /\ campaign'.generations = campaign.generations
  BY ReviewEffect, ReviewWrites
<1>2. /\ campaign.assets # <<>> /\ ~BothReviewed(campaign) /\ BothReviewed(campaign')
      /\ campaign'.assets = campaign.assets
      /\ ~FormatPassed(campaign, g)
  BY ReviewPassed
<1>3. ASSUME NEW f, f # g PROVE FormatPassed(campaign', f) <=> FormatPassed(campaign, f)
  BY <1>3, ReviewPassed
<1>4. g \in ToSet(campaign.formats) \ s
  <2>1. campaign \in Campaigns /\ InStep(campaign) /\ AssetsOK(campaign)
    BY DEF IInv, TypeOK, CampaignOK, PromiseInv
  <2>2. g \in ToSet(campaign.formats)
    BY <1>2, <2>1, LatestFormat DEF AssetsOK
  <2> QED BY <1>2, <2>2
<1>5. t = IF FormatPassed(campaign', g) THEN s \cup {g} ELSE s
  BY <1>1, <1>2, <1>3, <1>4
<1>6. CASE FormatPassed(campaign', g)
  <2>1. t = s \cup {g}
    BY <1>5, <1>6
  <2>2. Promised!Accept
    BY <1>1, <1>2, <1>4, <2>1
       DEF Promised!Accept, Promised!Running, FormatPassed, IsLatestOf, PassedBy,
           BothReviewed, ReviewedLast, Latest
  <2> QED BY <2>2
<1>7. CASE ~FormatPassed(campaign', g)
  <2>1. t = s
    BY <1>5, <1>7
  <2>2. Promised!Reject
    BY <1>1, <1>2, <2>1
       DEF Promised!Reject, Promised!Running, FormatPassed, IsLatestOf, PassedBy,
           BothReviewed, ReviewedLast, Latest
  <2> QED BY <2>2
<1> QED BY <1>6, <1>7

(* The director ends a campaign as the promise allows.                      *)
LEMMA EndPromised ==
    ASSUME IInv, PromiseInv, EnoughRounds, Direct, node' = "end"
    PROVE  Promised!Complete \/ Promised!Abort \/ Promised!Clarify
<1>1. PICK d \in Campaigns :
           /\ d = CountRound(Plan(Select(campaign)))
           /\ campaign \in Campaigns /\ CampaignOK(campaign) /\ campaign = checkpoint
           /\ campaign.rounds < MaxRounds
           /\ CampaignOK(d) /\ SameWork(campaign, d)
           /\ d.rounds = campaign.rounds + 1 /\ d.status = campaign.status
           /\ node = "director" /\ checkpoint' = checkpoint
           /\ node' = Decide(d).node /\ node' \in Working \cup {"end", "raised"}
           /\ SameWork(d, campaign') /\ campaign'.plan = d.plan
           /\ campaign'.status = IF node' = "end" THEN Decide(d).status ELSE d.status
  BY DirectWrites
<1>2. AssetsOK(d) /\ LayoutsOK(d) /\ (BothReviewed(d) /\ ~BothPassed(d) => d.plan.made)
  BY <1>1, DecidesOn
<1>3. /\ d.formats = campaign.formats /\ d.brief = campaign.brief
      /\ d.layouts = campaign.layouts /\ d.assets = campaign.assets
      /\ d.quality = campaign.quality /\ d.compliance = campaign.compliance
      /\ campaign'.formats = campaign.formats
      /\ campaign'.generations = campaign.generations
      /\ campaign'.assets = campaign.assets /\ campaign'.quality = campaign.quality
      /\ campaign'.compliance = campaign.compliance
      /\ campaign'.status = Decide(d).status
  BY <1>1 DEF SameWork, Contributed
<1>4. Promised!End(Decide(d).status)
  <2>1. /\ ToSet(campaign'.formats) = ToSet(campaign.formats)
        /\ (campaign'.assets # <<>> /\ ~BothReviewed(campaign'))
             = (campaign.assets # <<>> /\ ~BothReviewed(campaign))
        /\ {f \in ToSet(campaign'.formats) : FormatPassed(campaign', f)}
             = {f \in ToSet(campaign.formats) : FormatPassed(campaign, f)}
    BY <1>3, PromisedSame
  <2> QED BY <1>1, <1>3, <2>1
          DEF Promised!End, Promised!Running, FormatPassed, IsLatestOf, PassedBy,
              BothReviewed, ReviewedLast, Latest
<1>5. \/ Decide(d).status = "aborted" /\ Exhausted(d)
      \/ /\ Decide(d).status = "waiting_for_user"
         /\ d.status = "waiting_for_user" \/ d.brief = "unclear"
      \/ /\ Decide(d).status = IF ReviewRequired THEN "waiting_for_review" ELSE "completed"
         /\ BothReviewed(d) /\ d.layouts.formats # <<>> /\ AllFormatsPassed(d)
  BY <1>1, <1>2, DecidePromised DEF CampaignOK
<1>6. CASE Decide(d).status = "aborted" /\ Exhausted(d)
  <2>1. campaign.generations = MaxGenerations \/ campaign.formats = <<>>
    BY <1>1, <1>6, GenerationsExhausted
  <2>2. ToSet(<<>>) = {}
    BY EmptySeq DEF ToSet
  <2>3. campaign.generations = MaxGenerations \/ ToSet(campaign.formats) = {}
    BY <2>1, <2>2
  <2>4. Promised!End("aborted")
    BY <1>4, <1>6
  <2> QED BY <2>3, <2>4 DEF Promised!Abort
<1>7. CASE /\ Decide(d).status = "waiting_for_user"
           /\ d.status = "waiting_for_user" \/ d.brief = "unclear"
  <2>1. campaign.brief = "unclear"
    BY <1>1, <1>3, <1>7 DEF PromiseInv, StatusOK
  <2>2. campaign.generations = 0
    BY <1>1, <2>1, NoAssetsYet DEF PromiseInv
  <2>3. Promised!End("waiting_for_user")
    BY <1>4, <1>7
  <2> QED BY <2>2, <2>3 DEF Promised!Clarify
<1>8. CASE /\ Decide(d).status = IF ReviewRequired THEN "waiting_for_review"
                                                   ELSE "completed"
           /\ BothReviewed(d) /\ d.layouts.formats # <<>> /\ AllFormatsPassed(d)
  <2>1. campaign.layouts.formats = campaign.formats /\ campaign.formats # <<>>
    BY <1>1, <1>3, <1>8 DEF CampaignOK
  <2>2. ToSet(campaign.formats) # {}
    <3>1. campaign.formats \in Seq(Formats)
      BY <1>1 DEF Campaigns
    <3>2. DOMAIN campaign.formats = 1..Len(campaign.formats) /\ 1 \in DOMAIN campaign.formats
      BY <2>1, <3>1, EmptySeq, LenProperties
    <3> QED BY <3>2 DEF ToSet
  <2>3. BothReviewed(campaign)
    BY <1>3, <1>8 DEF BothReviewed, ReviewedLast, Latest
  <2>4. \A f \in ToSet(campaign.formats) : FormatPassed(campaign, f)
    BY <1>3, <1>8, <2>1 DEF AllFormatsPassed, FormatPassed, IsLatestOf, PassedBy
  <2>5. {f \in ToSet(campaign.formats) : FormatPassed(campaign, f)} = ToSet(campaign.formats)
    BY <2>4
  <2>6. Promised!Complete
    BY <1>4, <1>8, <2>2, <2>3, <2>5 DEF Promised!Complete
  <2> QED BY <2>6
<1> QED BY <1>5, <1>6, <1>7, <1>8

LEMMA PromisedStep ==
    ASSUME IInv, IInv', PromiseInv, EnoughRounds, [Next]_vars
    PROVE  [Promised!Next]_(Promised!pvars)
<1>1. CASE Direct
  <2>1. CASE node' = "end"
    BY <1>1, <2>1, EndPromised DEF Promised!Next
  <2>2. CASE node' # "end"
    <3>1. PICK d \in Campaigns : /\ SameWork(campaign, d) /\ SameWork(d, campaign')
                                 /\ node = "director"
      BY <1>1, DirectWrites
    <3>2. /\ campaign'.formats = campaign.formats
          /\ campaign'.generations = campaign.generations
          /\ campaign'.assets = campaign.assets /\ campaign'.quality = campaign.quality
          /\ campaign'.compliance = campaign.compliance
      BY <3>1 DEF SameWork, Contributed
    <3> QED BY <2>2, <3>1, <3>2, PromisedStutter
  <2> QED BY <2>1, <2>2
<1>2. CASE \E r \in Roles : Succeed(r) \/ Retry(r) \/ GiveUp(r)
  <2>1. campaign' = campaign /\ node' = node
    BY <1>2 DEF Succeed, Retry, GiveUp
  <2> QED BY <2>1, PromisedStutter
<1>3. CASE NodeRaises \/ Crash
  <2>1. campaign' = campaign /\ node' # "end" /\ node # "end"
    BY <1>3 DEF NodeRaises, Crash, Stopped, IInv, NodeOK, Working
  <2> QED BY <2>1, PromisedStutter
<1>4. CASE Resume
  <2>1. /\ campaign' = checkpoint /\ node # "end" /\ node' # "end"
    BY <1>4 DEF Resume
  <2>2. /\ checkpoint.formats = campaign.formats
        /\ checkpoint.generations = campaign.generations
        /\ checkpoint.assets = campaign.assets /\ checkpoint.quality = campaign.quality
        /\ checkpoint.compliance = campaign.compliance
    BY DEF IInv, RecoveryBoundary, Contributed
  <2> QED BY <2>1, <2>2, PromisedStutter
<1>5. CASE BriefNode
  BY <1>5, BriefPromised DEF Promised!Next
<1>6. CASE StrategyPanelNode
  BY <1>6, StrategyWrites, PromisedStutter DEF SameJudged
<1>7. CASE LayoutNode
  BY <1>7, LayoutEffect, LayoutWrites, PromisedStutter
<1>8. CASE GenerationNode
  BY <1>8, MakePromised DEF Promised!Next
<1>9. CASE EvaluationNode
  BY <1>9, EvaluationWrites, PromisedStutter DEF SameJudged
<1>10. CASE ReviewPanelNode
  BY <1>10, JudgePromised DEF Promised!Next
<1>11. CASE UNCHANGED vars
  BY <1>11, PromisedStutter DEF vars
<1> QED BY <1>1, <1>2, <1>3, <1>4, <1>5, <1>6, <1>7, <1>8, <1>9, <1>10, <1>11
        DEF Next, Run

(* The requests whose rounds suffice, of those the API admits               *)
(* (schemas.TaskRequest: one to four formats, one to twenty iterations).    *)
LEMMA RoundsSuffice ==
    ASSUME Len(RequestFormats) \in 1..4, MaxIterations \in 1..20
    PROVE  EnoughRounds <=>
             MaxIterations # 20 /\ (Len(RequestFormats) = 1 => MaxIterations <= 13)
<1> DEFINE f == Len(RequestFormats)
           m == MaxIterations
           g == IF m > f THEN m ELSE f
           r == IF 8 + f * 6 + m * 3 < 80 THEN 8 + f * 6 + m * 3 ELSE 80
<1>1. f \in 1..4 /\ m \in 1..20
  OBVIOUS
<1>2. EnoughRounds <=> 4 * g < r
  BY DEF EnoughRounds, MaxGenerations, MaxRounds
<1> HIDE DEF f, m
<1>3. 4 * g < r <=> m # 20 /\ (f = 1 => m <= 13)
  <2>1. CASE f = 1
    BY <1>1, <2>1
  <2>2. CASE f \in 2..4
    BY <1>1, <2>2
  <2> QED BY <1>1, <2>1, <2>2
<1> QED BY <1>2, <1>3 DEF f, m

(* Whatever the specialists answer, fail and repeat, and wherever the       *)
(* process dies and is resumed, assets are made and judged one at a time,   *)
(* an accepted asset settles its format for good, and a campaign ends       *)
(* because every format has passed, the brief is unclear or empty, or the   *)
(* budget of generations is spent, if the rounds are enough to spend it.    *)
THEOREM CampaignPromiseKept ==
    ASSUME EnoughRounds
    PROVE  Spec => KeepsPromise
<1>1. IInv /\ IInv' /\ PromiseInv /\ [Next]_vars => [Promised!Next]_(Promised!pvars)
  BY PromisedStep
<1>2. Spec => Init /\ [][Next]_vars
  BY DEF Spec
<1>3. KeepsPromise <=> Promised!Init /\ [][Promised!Next]_(Promised!pvars)
  BY DEF KeepsPromise, Promised!Spec
<1> QED BY <1>1, <1>2, <1>3, PromisedInit, Invariance, PromiseInvariance, PTL
=============================================================================
