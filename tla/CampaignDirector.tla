-------------------------- MODULE CampaignDirector --------------------------
(***************************************************************************)
(* A multi-agent campaign: the LangGraph of workflows/multi_agent_graph.py *)
(* with the decisions of agents/director.py and what the specialists of    *)
(* agents/ change.  The director and one node of specialists take turns.   *)
(* The specialists of a node run in parallel on one snapshot of the        *)
(* campaign, each retried on its own; when all have ended their results    *)
(* are merged and the whole campaign is written to the checkpoint store.   *)
(* The process may die anywhere; a caller may run the stored campaign      *)
(* again.                                                                  *)
(*                                                                         *)
(* An asset is known by its number.  A finding is known by the specialist  *)
(* it is routed to.  A list of findings is in the order of the director's  *)
(* sort: severity, then score.  Messages, metrics and records are left out.*)
(***************************************************************************)
EXTENDS Naturals, Sequences, SequencesExt

CONSTANTS
    Formats,            \* schemas.OutputFormat
    RequestFormats,     \* TaskRequest.output_formats
    MaxIterations,      \* TaskRequest.max_iterations
    ReviewRequired,     \* TaskRequest.review_required
    BriefFormats,       \* the output_formats the brief specialist may return
    Panels,             \* the confidences the three strategists may return
    QualityVerdicts,    \* [passed, findings] of the quality critic
    ComplianceFindings, \* the findings compliance may return, all blocking
    ComplianceEnabled,  \* MultiAgentOptions.enable_compliance_agent
    LayoutRepair,       \* MultiAgentOptions.enable_structured_layout_repair
    MaxAttempts,        \* MultiAgentOptions.max_node_attempts
    MaxRestarts         \* bound: how often a campaign is run again

Targets == {"layout", "generation"}

ASSUME CampaignAssumption ==
    /\ RequestFormats \in Seq(Formats) /\ RequestFormats # <<>>
    /\ MaxIterations \in Nat \ {0}
    /\ ReviewRequired \in BOOLEAN
    /\ BriefFormats \subseteq Seq(Formats)
    /\ Panels \subseteq Seq(Nat) /\ \A p \in Panels : Len(p) = 3
    /\ \A v \in QualityVerdicts : /\ v.passed \in BOOLEAN
                                  /\ v.findings \in Seq(Targets)
    /\ ComplianceFindings \subseteq Seq({"layout"})
    /\ ComplianceEnabled \in BOOLEAN
    /\ LayoutRepair \in BOOLEAN
    /\ MaxAttempts \in 1..5
    /\ MaxRestarts \in Nat

VARIABLES
    campaign,    \* MultiAgentCampaign
    node,        \* where the graph is
    attempt,     \* execute_with_retry: the attempts of each specialist
    outcome,     \* and how the last one ended
    checkpoint,  \* the campaign in CampaignCheckpointStore
    restarts

vars == <<campaign, node, attempt, outcome, checkpoint, restarts>>

-----------------------------------------------------------------------------
(* TaskExecutor._execute sets the budgets.                                  *)
MaxGenerations ==
    IF MaxIterations > Len(RequestFormats) THEN MaxIterations ELSE Len(RequestFormats)

MaxRounds ==
    LET rounds == 8 + Len(RequestFormats) * 6 + MaxIterations * 3
    IN  IF rounds < 80 THEN rounds ELSE 80

Exhausted(c) == c.rounds >= MaxRounds \/ c.generations >= MaxGenerations

Roles == {"brief", "brand", "performance", "merchandising", "layout",
          "generation", "quality", "compliance"}

(* The specialists a node runs.                                             *)
Team(n) ==
    CASE n = "brief"          -> {"brief"}
      [] n = "strategy_panel" -> {"brand", "performance", "merchandising"}
      [] n = "layout"         -> {"layout"}
      [] n = "generation"     -> {"generation"}
      [] n = "evaluation"     -> {"quality"}
      [] n = "review_panel"   -> IF ComplianceEnabled THEN {"quality", "compliance"}
                                                      ELSE {"quality"}
      [] OTHER                -> {}

Nodes == {"director", "brief", "strategy_panel", "layout", "generation",
          "evaluation", "review_panel", "end", "raised", "down"}

Stopped == node \in {"end", "raised", "down"}

NoPlan == [made |-> FALSE, tasks |-> <<>>]
NoLayouts == [formats |-> <<>>, basis |-> 0, repaired |-> FALSE]

Fresh == [status |-> "planning", brief |-> "none", formats |-> <<>>,
          strategies |-> <<>>, selected |-> 0, layouts |-> NoLayouts,
          assets |-> <<>>, evaluations |-> <<>>, quality |-> <<>>,
          compliance |-> <<>>, plan |-> NoPlan, conflicts |-> <<>>,
          rounds |-> 0, generations |-> 0]

Layouts == [formats : Seq(Formats), basis : Nat, repaired : BOOLEAN]
Assets  == [format : Formats, basis : Nat, repaired : BOOLEAN]
Reviews == [asset : Nat, passed : BOOLEAN, findings : Seq(Targets)]

Campaigns ==
    [status : {"planning", "running", "waiting_for_user", "waiting_for_review",
               "completed", "aborted"},
     brief : {"none", "ready", "unclear"}, formats : Seq(Formats),
     strategies : Seq(Nat), selected : Nat, layouts : Layouts,
     assets : Seq(Assets), evaluations : Seq(Nat), quality : Seq(Reviews),
     compliance : Seq(Reviews), plan : [made : BOOLEAN, tasks : Seq(Targets)],
     conflicts : Seq([asset : Nat, issue : {"veto", "quality"}]),
     rounds : 0..MaxRounds, generations : 0..MaxGenerations]

(* The campaign is one the contracts admit, within its budgets of rounds    *)
(* and generations; every specialist is within its attempts.                *)
TypeOK ==
    /\ campaign \in Campaigns
    /\ checkpoint \in Campaigns
    /\ node \in Nodes
    /\ attempt \in [Roles -> 0..MaxAttempts]
    /\ outcome \in [Roles -> {"idle", "running", "succeeded", "failed"}]
    /\ restarts \in 0..MaxRestarts

Init ==
    /\ campaign = Fresh
    /\ checkpoint = Fresh
    /\ node = "director"
    /\ attempt = [r \in Roles |-> 0]
    /\ outcome = [r \in Roles |-> "idle"]
    /\ restarts = 0

-----------------------------------------------------------------------------
(* CreativeDirectorAgent.                                                   *)

Latest(c) == Len(c.assets)

Evaluated(c, a) == a \in ToSet(c.evaluations)

(* Slip: the review of an earlier asset is taken for that of asset a.       *)
ReviewedEver(reviews, a) == reviews # <<>> /\ a > 0

(* The review of the last place is of asset a.                              *)
ReviewedLast(reviews, a) == reviews # <<>> /\ Last(reviews).asset = a

BothReviewed(c) ==
    /\ c.assets # <<>>
    /\ ReviewedLast(c.quality, Latest(c))
    /\ ReviewedLast(c.compliance, Latest(c))

BothPassed(c) == Last(c.quality).passed /\ Last(c.compliance).passed

(* The last review of asset a passes it.                                    *)
PassedBy(reviews, a) ==
    \E i \in DOMAIN reviews :
       /\ reviews[i].asset = a /\ reviews[i].passed
       /\ \A j \in DOMAIN reviews : reviews[j].asset = a => j <= i

IsLatestOf(c, a, f) ==
    /\ a \in DOMAIN c.assets
    /\ c.assets[a].format = f
    /\ \A b \in DOMAIN c.assets : c.assets[b].format = f => b <= a

FormatPassed(c, f) ==
    \E a \in DOMAIN c.assets :
       IsLatestOf(c, a, f) /\ PassedBy(c.quality, a) /\ PassedBy(c.compliance, a)

(* Slip: the reviews of one format answer for all.                          *)
LatestFormatPassed(c) == FormatPassed(c, Last(c.assets).format)

AllFormatsPassed(c) == \A f \in ToSet(c.layouts.formats) : FormatPassed(c, f)

(* The first strategy of the greatest confidence (and fewest risks).        *)
SelectStrategy(strategies) ==
    CHOOSE i \in DOMAIN strategies :
       \A j \in DOMAIN strategies :
          /\ strategies[j] <= strategies[i]
          /\ strategies[j] = strategies[i] => i <= j

(* All findings of compliance are blocking, none of quality is.             *)
Findings(c) == Last(c.compliance).findings \o Last(c.quality).findings

(* Slip: the critic's findings first.                                       *)
PlanQualityFirst(c) ==
    [made |-> TRUE,
     tasks |-> SubSeq(Last(c.quality).findings \o Last(c.compliance).findings, 1,
                      IF Len(Findings(c)) < 3 THEN Len(Findings(c)) ELSE 3)]

BuildRevisionPlan(c) ==
    [made |-> TRUE,
     tasks |-> SubSeq(Findings(c), 1,
                      IF Len(Findings(c)) < 3 THEN Len(Findings(c)) ELSE 3)]

RevisionTarget(c) == IF Findings(c) = <<>> THEN "generation" ELSE Head(Findings(c))

Conflict(c) ==
    [asset |-> Last(c.quality).asset,
     issue |-> IF Last(c.compliance).passed THEN "quality" ELSE "veto"]

InConflict(c) ==
    /\ c.assets # <<>> /\ c.quality # <<>> /\ c.compliance # <<>>
    /\ Last(c.quality).asset = Last(c.compliance).asset
    /\ Last(c.quality).passed # Last(c.compliance).passed

Go(n) == [node |-> n, status |-> "none"]
Stop(status) == [node |-> "end", status |-> status]

PlanCalls(c, target) == c.plan.made /\ target \in ToSet(c.plan.tasks)

(* Slip: the latest asset passing is taken for the campaign passing.        *)
DecideOnLatest(c) ==
    IF Exhausted(c) THEN Stop("aborted")
    ELSE IF c.status = "waiting_for_user" THEN Stop("waiting_for_user")
    ELSE IF c.brief = "none" THEN Go("brief")
    ELSE IF c.strategies = <<>> THEN Go("strategy_panel")
    ELSE IF c.layouts.formats = <<>> THEN Go("layout")
    ELSE IF PlanCalls(c, "layout") THEN Go("layout")
    ELSE IF c.assets = <<>> \/ PlanCalls(c, "generation") THEN Go("generation")
    ELSE IF ~Evaluated(c, Latest(c)) THEN Go("evaluation")
    ELSE IF ~BothReviewed(c) THEN Go("review_panel")
    ELSE IF BothPassed(c) THEN Stop("completed")
    ELSE Go(RevisionTarget(c))

(* decide, a chain of early returns, and the route director_node takes.     *)
Decide(c) ==
    IF Exhausted(c) THEN Stop("aborted")
    ELSE IF c.status = "waiting_for_user" THEN Stop("waiting_for_user")
    ELSE IF c.brief = "none" THEN Go("brief")
    ELSE IF c.brief = "unclear" THEN Stop("waiting_for_user")
    ELSE IF c.strategies = <<>> THEN Go("strategy_panel")
    ELSE IF c.selected = 0 THEN Go("raised")   \* no route to the director
    ELSE IF c.layouts.formats = <<>> THEN Go("layout")
    ELSE IF PlanCalls(c, "layout") THEN Go("layout")
    ELSE IF c.assets = <<>> \/ PlanCalls(c, "generation") THEN Go("generation")
    ELSE IF ~Evaluated(c, Latest(c)) THEN Go("evaluation")
    ELSE IF ~BothReviewed(c) THEN Go("review_panel")
    ELSE IF ~BothPassed(c) THEN Go(RevisionTarget(c))
    ELSE IF ~AllFormatsPassed(c) THEN Go("generation")
    ELSE Stop(IF ReviewRequired THEN "waiting_for_review" ELSE "completed")

-----------------------------------------------------------------------------
(* director_node.                                                           *)

Select(c) ==
    IF c.strategies # <<>> /\ c.selected = 0
    THEN [c EXCEPT !.selected = SelectStrategy(c.strategies)] ELSE c

Plan(c) ==
    IF BothReviewed(c) /\ ~BothPassed(c) /\ ~c.plan.made
    THEN [c EXCEPT !.plan = BuildRevisionPlan(c)] ELSE c

CountRound(c) == [c EXCEPT !.rounds = @ + 1]

(* Slip: every disagreement seen is appended.                               *)
ResolveAgain(c) ==
    IF InConflict(c) THEN [c EXCEPT !.conflicts = Append(@, Conflict(c))] ELSE c

Resolve(c) ==
    IF InConflict(c) /\ Conflict(c) \notin ToSet(c.conflicts)
    THEN [c EXCEPT !.conflicts = Append(@, Conflict(c))] ELSE c

(* One round: c is the campaign the director decides on.                    *)
Direct ==
    \E c \in {CountRound(Plan(Select(campaign)))} : \E decision \in {Decide(c)} :
    /\ node = "director"
    /\ campaign' = [Resolve(c) EXCEPT
                      !.status = IF decision.node = "end" THEN decision.status ELSE @]
    /\ node' = decision.node
    /\ attempt' = [r \in Roles |-> IF r \in Team(decision.node) THEN 1 ELSE 0]
    /\ outcome' = [r \in Roles |-> IF r \in Team(decision.node) THEN "running"
                                                                ELSE "idle"]
    /\ UNCHANGED <<checkpoint, restarts>>

-----------------------------------------------------------------------------
(* execute_with_retry, one specialist of the node at a time.                *)

Succeed(r) ==
    /\ outcome[r] = "running"
    /\ outcome' = [outcome EXCEPT ![r] = "succeeded"]
    /\ UNCHANGED <<campaign, node, attempt, checkpoint, restarts>>

(* Slips: one attempt too many; the attempts are counted from one again.    *)
RetryOnceMore(r) ==
    /\ outcome[r] = "running"
    /\ attempt[r] <= MaxAttempts
    /\ attempt' = [attempt EXCEPT ![r] = @ + 1]
    /\ UNCHANGED <<campaign, node, outcome, checkpoint, restarts>>

RetryForEver(r) ==
    /\ outcome[r] = "running"
    /\ attempt' = [attempt EXCEPT ![r] = IF @ < MaxAttempts THEN @ + 1 ELSE 1]
    /\ UNCHANGED <<campaign, node, outcome, checkpoint, restarts>>

(* TimeoutError or ConnectionError, and an attempt left.                    *)
Retry(r) ==
    /\ outcome[r] = "running"
    /\ attempt[r] < MaxAttempts
    /\ attempt' = [attempt EXCEPT ![r] = @ + 1]
    /\ UNCHANGED <<campaign, node, outcome, checkpoint, restarts>>

(* Any other error, or the last attempt: AgentExecutionError.               *)
GiveUp(r) ==
    /\ outcome[r] = "running"
    /\ outcome' = [outcome EXCEPT ![r] = "failed"]
    /\ UNCHANGED <<campaign, node, attempt, checkpoint, restarts>>

(* The node's thread pool has ended and no future raised.                   *)
AllSucceeded(n) == node = n /\ \A r \in Team(n) : outcome[r] = "succeeded"

(* The pool is left when all futures have ended; one of them raised.        *)
NodeRaises ==
    /\ \A r \in Roles : outcome[r] # "running"
    /\ \E r \in Roles : outcome[r] = "failed"
    /\ node' = "raised"
    /\ outcome' = [r \in Roles |-> "idle"]
    /\ attempt' = [r \in Roles |-> 0]
    /\ UNCHANGED <<campaign, checkpoint, restarts>>

(* Slip: the merged campaign is not persisted.                              *)
MergeUnsaved(c) ==
    /\ campaign' = c
    /\ checkpoint' = IF c.assets = campaign.assets THEN c ELSE checkpoint
    /\ node' = "director"
    /\ outcome' = [r \in Roles |-> "idle"]
    /\ attempt' = [r \in Roles |-> 0]
    /\ UNCHANGED restarts

(* _append the results, persist, and back to the director.                  *)
Merge(c) ==
    /\ campaign' = c
    /\ checkpoint' = c
    /\ node' = "director"
    /\ outcome' = [r \in Roles |-> "idle"]
    /\ attempt' = [r \in Roles |-> 0]
    /\ UNCHANGED restarts

-----------------------------------------------------------------------------
(* The nodes: what the specialists' results change.                         *)

BriefNode ==
    /\ AllSucceeded("brief")
    /\ \E formats \in BriefFormats, ready \in BOOLEAN :
         Merge([campaign EXCEPT
                  !.brief   = IF ready THEN "ready" ELSE "unclear",
                  !.formats = formats,
                  !.status  = IF ready THEN "running" ELSE "waiting_for_user"])

StrategyPanelNode ==
    /\ AllSucceeded("strategy_panel")
    /\ \E confidences \in Panels :
         Merge([campaign EXCEPT !.strategies = @ \o confidences])

(* LayoutAgent.act: layouts for every format of the brief, on the basis of  *)
(* the assets so far, repaired by the layout tasks of the plan; without     *)
(* structured layout repair these tasks were handed to generation before.   *)
BuildLayouts(c) ==
    [formats |-> c.formats, basis |-> Latest(c),
     repaired |-> LayoutRepair /\ PlanCalls(c, "layout")]

LayoutNode ==
    /\ AllSucceeded("layout")
    /\ Merge([campaign EXCEPT
                !.layouts = BuildLayouts(campaign),
                !.plan.tasks = [i \in DOMAIN @ |-> "generation"]])

(* _target_layout: a revision of the last asset's format, else the first    *)
(* format without an asset.                                                 *)
Generated(c) == {c.assets[a].format : a \in DOMAIN c.assets}

TargetFormat(c) ==
    LET formats == c.layouts.formats
        missing == {i \in DOMAIN formats : formats[i] \notin Generated(c)}
    IN  IF c.plan.made /\ c.assets # <<>> THEN Last(c.assets).format
        ELSE formats[IF missing = {} THEN 1 ELSE Min(missing)]

NewAsset(c) ==
    [format |-> TargetFormat(c), basis |-> c.layouts.basis,
     repaired |-> c.layouts.repaired]

(* Slip: the plan that was carried out stays.                               *)
GenerateKeepingPlan ==
    /\ AllSucceeded("generation")
    /\ Merge([campaign EXCEPT !.assets = Append(@, NewAsset(campaign)),
                              !.generations = @ + 1])

GenerationNode ==
    /\ AllSucceeded("generation")
    /\ Merge([campaign EXCEPT !.assets = Append(@, NewAsset(campaign)),
                              !.generations = @ + 1,
                              !.plan = NoPlan])

EvaluationNode ==
    /\ AllSucceeded("evaluation")
    /\ Merge([campaign EXCEPT !.evaluations = Append(@, Latest(campaign))])

Compliance == IF ComplianceEnabled THEN ComplianceFindings ELSE {<<>>}

ReviewPanelNode ==
    /\ AllSucceeded("review_panel")
    /\ \E verdict \in QualityVerdicts, findings \in Compliance :
         Merge([campaign EXCEPT
                  !.quality = Append(@, [asset |-> Latest(campaign),
                                         passed |-> verdict.passed,
                                         findings |-> verdict.findings]),
                  !.compliance = Append(@, [asset |-> Latest(campaign),
                                            passed |-> findings = <<>>,
                                            findings |-> findings])])

-----------------------------------------------------------------------------
(* The worker process dies; a caller loads the stored campaign, or begins   *)
(* a fresh one when none is stored, and passes it to                        *)
(* run_multi_agent_campaign.                                                *)

Crash ==
    /\ ~Stopped
    /\ node' = "down"
    /\ outcome' = [r \in Roles |-> "idle"]
    /\ attempt' = [r \in Roles |-> 0]
    /\ UNCHANGED <<campaign, checkpoint, restarts>>

Resume ==
    /\ node \in {"raised", "down"}
    /\ restarts < MaxRestarts
    /\ restarts' = restarts + 1
    /\ campaign' = checkpoint
    /\ node' = "director"
    /\ UNCHANGED <<attempt, outcome, checkpoint>>

Run ==
    \/ Direct
    \/ \E r \in Roles : Succeed(r) \/ Retry(r) \/ GiveUp(r)
    \/ NodeRaises
    \/ BriefNode \/ StrategyPanelNode \/ LayoutNode
    \/ GenerationNode \/ EvaluationNode \/ ReviewPanelNode

Next == Run \/ Crash \/ Resume

Spec == Init /\ [][Next]_vars

(* The thread that runs the graph goes on; nobody need resume a campaign.   *)
FairSpec == Spec /\ WF_vars(Run)

-----------------------------------------------------------------------------
(* campaign_to_final_result.                                                *)

ResultStatus(c) == IF c.status \in {"planning", "running"} THEN "completed" ELSE c.status

(* FormatSummary.compliant.                                                 *)
SummaryCompliant(c, f) ==
    \E a \in DOMAIN c.assets : IsLatestOf(c, a, f) /\ PassedBy(c.compliance, a)

(* The asset that becomes best_asset_id: the latest of the first format     *)
(* that has one; 0 for none.                                                *)
PrimaryAsset(c) ==
    LET formats == c.layouts.formats
        made == {i \in DOMAIN formats : formats[i] \in Generated(c)}
    IN  IF made = {} THEN Latest(c)
        ELSE CHOOSE a \in DOMAIN c.assets : IsLatestOf(c, a, formats[Min(made)])

-----------------------------------------------------------------------------
(* A result reported as completed, or as waiting for the human review that  *)
(* follows completion, has for every format of the brief an asset whose     *)
(* last version passed compliance and the critic, its best asset among      *)
(* them (director.decide, _all_formats_passed, result_adapter).             *)
CompletedMeansDelivered ==
    node = "end" /\ ResultStatus(campaign) \in {"completed", "waiting_for_review"} =>
      /\ campaign.formats # <<>>
      /\ \A f \in ToSet(campaign.formats) :
           SummaryCompliant(campaign, f) /\ FormatPassed(campaign, f)
      /\ PrimaryAsset(campaign) \in DOMAIN campaign.assets
      /\ PassedBy(campaign.compliance, PrimaryAsset(campaign))

(* Every asset is evaluated once and reviewed once by each gate, in the     *)
(* order of generation and before the next one is generated, whatever       *)
(* retries, failed panels and resumed runs came in between.                 *)
InStep(c) ==
    LET n == Len(c.quality) IN
    /\ Len(c.compliance) = n
    /\ \A i \in 1..n : c.quality[i].asset = i /\ c.compliance[i].asset = i
    /\ \A i \in DOMAIN c.evaluations : c.evaluations[i] = i
    /\ n <= Len(c.evaluations)
    /\ Len(c.evaluations) <= Latest(c)
    /\ Latest(c) <= n + 1

ReviewedInStep == InStep(campaign)

(* The director acts on a plan only for the asset it was built for: the     *)
(* latest one, reviewed and not passed; a plan never outlives it.           *)
PlanCurrent(c) == c.plan.made => BothReviewed(c) /\ ~BothPassed(c)

PlanIsCurrent == PlanCurrent(campaign)

(* When critic and compliance disagree on an asset the director records     *)
(* it exactly once, and a record survives every restart once an asset       *)
(* follows (docs/multi-agent-architecture.md, "When Quality Critic ...").   *)
ConflictsRecorded ==
    \A i \in 1..Len(campaign.quality) :
       LET records == {k \in DOMAIN campaign.conflicts :
                         campaign.conflicts[k].asset = i}
       IN
       /\ \A k, l \in records : k = l
       /\ /\ campaign.quality[i].passed # campaign.compliance[i].passed
          /\ i < Latest(campaign) \/ node = "end"
          => records # {}

(* A compliance failure is repaired: the next asset has the same format     *)
(* and is made from layouts that were rebuilt after the review, applying    *)
(* its repairs (unless structured layout repair is switched off).           *)
VetoRepaired ==
    \A i \in 1..Len(campaign.compliance) :
       ~campaign.compliance[i].passed /\ i < Latest(campaign) =>
         campaign.assets[i + 1] =
           [format |-> campaign.assets[i].format, basis |-> i,
            repaired |-> LayoutRepair]

(* What the specialists contributed to a campaign.                          *)
Contributed(c) ==
    <<c.brief, c.formats, c.strategies, c.layouts, c.assets, c.evaluations,
      c.quality, c.compliance, c.generations>>

(* What the specialists produced is in the checkpoint; only the director's  *)
(* own last decisions may be missing from it, and they are made again.      *)
RecoveryBoundary ==
    /\ Contributed(checkpoint) = Contributed(campaign)
    /\ checkpoint.plan.made => campaign.plan = checkpoint.plan
    /\ checkpoint.selected \in {0, campaign.selected}
    /\ IsPrefix(checkpoint.conflicts, campaign.conflicts)
    /\ campaign.rounds \in {checkpoint.rounds, checkpoint.rounds + 1}

(* The campaign keeps its promise; where four rounds for every generation   *)
(* are within the budget of rounds, it never ends a campaign before the     *)
(* budget of generations (for a brief that names a format) does.            *)
Promised == INSTANCE CampaignPromise WITH
    Budget   <- MaxGenerations,
    Outcomes <- {IF ReviewRequired THEN "waiting_for_review" ELSE "completed"},
    wanted   <- ToSet(campaign.formats),
    spent    <- campaign.generations,
    open     <- campaign.assets # <<>> /\ ~BothReviewed(campaign),
    settled  <- {f \in ToSet(campaign.formats) : FormatPassed(campaign, f)},
    outcome  <- IF node = "end" THEN campaign.status ELSE "running"

(* Assets are made and judged as CampaignPromise allows.                    *)
KeepsPromise == Promised!Spec

(* Every run of a campaign comes to an end.                                 *)
RunEnds == []<>Stopped

-----------------------------------------------------------------------------
(* The inductive invariant behind the safety properties                     *)
(* (CampaignDirector_proofs).  Each part of it about the campaign holds for *)
(* the stored campaign too, which may become the campaign again.            *)

Working == {"brief", "strategy_panel", "layout", "generation", "evaluation",
            "review_panel"}

CampaignOK(c) ==
    /\ InStep(c)
    /\ PlanCurrent(c)
    /\ Len(c.strategies) \in {0, 3}
    /\ c.layouts.formats \in {<<>>, c.formats}
    /\ c.brief = "none" => c.layouts.formats = <<>>

(* What the place in the graph says about budgets, reviews and formats.     *)
NodeOK ==
    /\ checkpoint.rounds < MaxRounds
    /\ node # "end" => campaign.rounds < MaxRounds
    /\ node = "director" => campaign = checkpoint
    /\ node \notin Working => outcome = [r \in Roles |-> "idle"]
    /\ node \in Working => campaign.generations < MaxGenerations
    /\ node = "brief" => campaign.brief = "none"
    /\ node = "layout" => campaign.brief # "none"
    /\ node = "strategy_panel" => campaign.strategies = <<>>
    /\ node = "generation" => /\ campaign.layouts.formats # <<>>
                              /\ Latest(campaign) = Len(campaign.quality)
    /\ node = "evaluation" => Latest(campaign) = Len(campaign.evaluations) + 1
    /\ node = "review_panel" =>
         /\ Latest(campaign) = Len(campaign.evaluations)
         /\ Latest(campaign) = Len(campaign.quality) + 1
    /\ node = "end" =>
         /\ campaign.status \notin {"planning", "running"}
         /\ campaign.status \in {"completed", "waiting_for_review"} =>
              campaign.layouts.formats # <<>> /\ AllFormatsPassed(campaign)

IInv ==
    /\ TypeOK
    /\ CampaignOK(campaign)
    /\ CampaignOK(checkpoint)
    /\ NodeOK
    /\ RecoveryBoundary

=============================================================================
