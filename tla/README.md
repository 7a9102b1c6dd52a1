# Verification of marketing_agent

TLA+ models of the control logic of `marketing_agent`, the TLC configurations
that check them on small instances, and theorems about them that TLAPS proves
for every instance.  Paths are relative to the repository; definitions are
mapped to source lines in `PROJECT.json`.

## 1. The system

| Part | State | Operations | Talks to |
|---|---|---|---|
| Task API (`api.py`) | none of its own; a thread per request | create, cancel, review, read, list | executor, store, accounts, uploads |
| Accounts (`auth.py`) | users, sessions, projects | register, login, logout, identify, create project | SQLite |
| Uploads (`asset_store.py`) | a file and a row per upload | save, resolve | file system, SQLite |
| Executor (`executor.py`) | a lock, a thread pool | `submit`, `cancel`, `_execute`, `review` | store, queue, campaigns, memories, provenance |
| Task store (`task_store.py`) | per task: `status.json`, `request.json`, `result.json`, archives, `trace.jsonl`, `final/` | `create`, `set_status`, `save_result`, `archive_result`, `update_request`, `materialize_outputs` | metadata |
| Task metadata (`task_repository.py`) | one row per task, one per event | `create`, `update_status`, `update_request`, queries | SQLite |
| Task queue (`task_queue.py`) | one row per task | `enqueue`, `claim`, `finish`, `cancel`, `recover_running` | SQLite, shared by all processes |
| GPU worker (`worker.py`) | the job in hand | recover, claim, execute, finish, loop | queue, executor |
| Campaign graph (`workflows/multi_agent_graph.py`) | one `MultiAgentCampaign` | director node, six specialist nodes | director, specialists, checkpoints |
| Director (`agents/director.py`) | none | `decide`, `select_strategy`, `build_revision_plan`, `resolve_conflict` | reads the campaign |
| Specialists (`agents/*`) | none | `act`: brief, 3 strategies, layout, generation, critic, compliance | models, tools |
| Retries (`resilience.py`) | attempts of a call | `execute_with_retry` | specialists |
| Checkpoints (`campaign_checkpoint_store.py`) | a file per campaign | `save`, `load` | file system |
| Result adapter (`workflows/result_adapter.py`) | none | campaign to `FinalResult` | |
| Single-agent loop (`graph.py`) | `AgentState` | understand, decide, execute tool, ask, finalize | tools, experience |
| Batches (`candidates.py`) | the candidates in flight | candidates and formats of one request | single-agent loop |
| Experience (`experience.py`) | a JSONL file, a copy of it in each process | `learn_from_trace`, `add`, `strategies` | executor, loop |
| Cases (`case_memory.py`) | a row per case | `add`, search | executor |
| Provenance (`provenance.py`) | a signed copy and a manifest per picture | `process` | executor |
| Copy agent, OCR, brand rules (`copy_agent.py`, `adapters/ocr_text.py`, `creative_tools.py`) | none | write copy, draw it, assess what is read | specialists, loop |
| Model workers (`adapters/subprocess_adapters.py`) | a child process, a lock | `call`, `close` | pipes |
| GPU scheduler (`gpu_scheduler.py`) | a semaphore, counters | `run` | tools |

A task is born in a request thread of the API process, which first finds out
who is asking and whether the project and the uploads are theirs.  It travels
through the queue to a worker process, and for tasks with `review_required`
comes back to request threads and, when revised, to the queue again.  Nothing
spans the store and the queue, and the two processes share no lock, so every
write is a step of its own.  A worker runs either a multi-agent campaign (a
director alternating with nodes of specialists, two of which run in parallel)
or batches of the single-agent loop.  What the engine made is copied, signed,
remembered and learned from by the worker, or by the API on approval.

What is hard here: the interleaving of a worker's last writes with a reviewer's
first ones; crashes between the writes of one operation; recovery of stale jobs;
chains of early returns in the director that read what earlier nodes left;
parallel specialists and candidates with retries and partial failure; budgets at
their limit; resuming from a checkpoint; two processes with copies of one
memory; a text that goes through four components before it is judged.
`PROJECT.json` lists each hazard at its line.

## 2. Modules

| Module | What it is |
|---|---|
| `TaskStore` | `TaskStore` and `SqliteTaskRepository`: the durable writes, one operator per file or row |
| `DurableTaskQueue` (extends it) | the `task_jobs` table: one operator per transaction |
| `TaskLifecycle` (extends it) | request threads and workers over both; `Spec`, `FairSpec`, the properties |
| `TaskPromise` | abstract: the phases and the review round of a task as the API promises them |
| `TaskLifecycleMC`, `TaskLifecycle_proofs`, `TaskReview_proofs` | constants and symmetry; theorems |
| `CampaignDirector` | a multi-agent campaign with director, specialists, retries, checkpoints |
| `CampaignPromise` | abstract: assets made and judged one at a time within a budget |
| `CampaignDirectorMC`, `CampaignDirector_proofs`, `CampaignRepair_proofs` | constants; theorems |
| `QualityLoop`, `QualityLoop_proofs` | the loop of `graph.py` with LangGraph's supersteps; theorems |
| `ExperienceMemory` | the file of lessons, the copies of it, what is learned and recommended |
| `CandidateBatch` (extends it) | candidates and formats of one request |
| `Delivery` (extends it), `DeliveryMC`, `Delivery_proofs` | what the executor does with a single-agent result; theorems |
| `Workspace`, `WorkspaceMC`, `Workspace_proofs` | accounts, projects, uploads and who may see which task; theorems |
| `CriticalCopy`, `CriticalCopyMC` | the texts of a picture from the request to the verdict |
| `GpuScheduler` | slots and counters of `GpuScheduler.run` |
| `ModelWorker` (extends it), `ModelWorker_proofs` | threads that call a model process through pipes, and that process; theorems |

**TaskLifecycle.**  `pc[p]` names the next write of process `p` (a request
thread of `Handlers` or a worker of `Workers`); `task`, `payload`, `result`,
`put`, `then`, `decision` are its locals.  `set_status` is called from many
places and is two writes, `StatusFile` and `StatusRow`; the caller leaves the
status in `put` and the place to return to in `then`.  The actions follow the
code statement by statement: `CreateTask`, `CreateTaskRow`, `EnqueueTask` are
`POST /tasks`; `CancelTask` is `TaskExecutor.cancel`; `BeginReview` (under the
lock), `Approve`, `RefuseRevision`, `Revise`, `Archive`, `UpdateRequest`,
`UpdateRequestRow` are `TaskExecutor.review`; `Record`, `SaveResult`,
`SaveTrace` close a result; `StartWorker`, `ClaimJob`, `Validate`, `Execute`,
`Report`, `FinishJob` are `worker.run` and `_execute`.  `CrashWorker`,
`CrashApi` and `Elapse` are the environment.  A request is its review round (all
else in it is constant), a result its status, round, review history and whether
it holds assets.  A client may submit any round (`FirstRounds`), which the
service stores as it is and does not compare with `max_review_rounds`; the
history variable `submitted` keeps it, since no file does once a revision has
replaced the request.  What a campaign answers is any of `EngineStatuses`.

**CampaignDirector.**  `campaign` is `MultiAgentCampaign` with assets numbered in
the order they are made; `node` is where the graph stands; `attempt` and
`outcome` are the calls of `execute_with_retry` in flight, one per specialist;
`checkpoint` is the stored file.  `Direct` is all of `director_node` (selection,
plan, round, `decide`, conflict, route); the specialists of a node end
independently (`Succeed`, `Retry`, `GiveUp`), then the node merges all their
results and saves the campaign in one step (`BriefNode` ... `ReviewPanelNode`) or
raises (`NodeRaises`).  A finding is the specialist it is routed to, since that
is all the director reads of it besides the order.

**QualityLoop.**  The fields of `AgentState` under their names; one action per
graph node and tool; every action but a failure is one LangGraph superstep.

**Delivery.**  A single-agent request from the claim of its job (`Begin`) to the
end of it (`FinishJob`): the batch, whose candidates run one after the other or
side by side and may raise (`StartCandidate`, `EndCandidate`, `EndFormat`);
`Materialize`, which copies the pictures and makes the best one final; then
signing picture by picture (`SignAsset`, `UpdateFinal`), the case (`Remember`),
the lessons one by one (`Learn`), `result.json` (`SaveResult`), the status
(`SaveStatus`), the job. A reviewed task is saved before it is signed; `Approve`
takes it from the reviewer's list under the lock and `LoadResult` reads what is
saved then, and the API does the rest.  A worker may be killed between any two
of these (`Restart`): its job goes back into the queue, and a task whose result
was saved already is executed again, over that result.  `redone` remembers such
tasks. `file` is the JSONL file of lessons and `known[p]` the copy process `p`
read when it started and has added to since: the worker ranks strategies by its
own copy and does not see what the API learned. A run of the loop is what it
leaves in the trace, its assets and evaluations, drawn from `Runs`;
`QualityLoop` says how the loop comes to them.  An asset is named by execution,
format, candidate and number, so that a property can ask where it came from.

**Workspace.**  A request thread identifies its session first (`Identify`), then
does one transaction or writes one file per step; `call[th]` is what it found
out.  Between the steps other threads register, log in and out, sessions expire
(`Expire`), and the process may be killed (`Crash`), which leaves files and rows
as they are.  `seen` pairs each session with the tasks it was told of.  Users,
projects, sessions and tasks are numbers in the order they are made.

**CriticalCopy.**  A text is a sequence of words without spaces, as Chinese is
written.  `WriteCopy` is the copy agent and the check of forbidden phrases;
`Draw` the image model, or the typography layers of a multi-agent campaign with
their heights, some of which end below the picture; `Read` groups the words that
are legible into regions; `Assess` is the OCR assessment (each expected text
once, removed once, nothing left) and the brand rules, which read across regions
in another way; `Judge` accepts or has the picture made again.

**ModelWorker.**  `pc[t]` is where a thread is in `ScheduledTool.execute`,
`GpuScheduler.run` and `PersistentJsonModelWorker.call`; `retry` and `raised` are
the loop variable and the exception of `call`, `lock` and `process` its object's
fields.  `stdin` and `stdout` are the pipes of the current process, `buffer` what
`readline` has read ahead, which `select` does not see.  `Serve`, `WriteLog` and
`Exit` are the process.  A line may be written in part (`unended`); `readline`
then blocks (`ReadPart`) until the process ends the line or exits.  What it takes out
of the pipe may be undecodable (`ReadUndecodable`): the exception passes both
except clauses, the call ends, and the process stays with the answer it owes;
`garbled` remembers that until the process is replaced.  A deadline
may pass in any wait on `select` (`Timeout`).

## 3. Runs

| Run | Instance | Shows |
|---|---|---|
| `review` | 1 reviewed task submitted at round 0, 1 or 3, 2 workers, 2 threads, 2 rounds, failing executions and memory, API killed | types; one owner at a time; nothing is delivered unapproved; history, archives and rounds since the submission agree; records are written once; ended tasks stay ended; refinement of `TaskPromise` |
| `crash` | 2 tasks (1 reviewed), 2 workers, a worker killed once, the API at will, a seed that leaves no room for a revision | recovery loses no unreviewed task, and its row agrees with its file when it is at rest |
| `settles` | 2 tasks (1 reviewed), 1 worker, failures, fairness | a submitted task ends, is cancelled or waits for review |
| `campaign` | 2 formats, 4 generations, 2 attempts, 2 resumptions, fairness | delivered means passed; reviews in step with assets; plans current; conflicts recorded once; vetoes repaired; the checkpoint is a recovery boundary; refinement of `CampaignPromise`; every run ends |
| `loop` | 4, 5 or 12 iterations, 4 scores | best of history; real plateaus; status tells whether the last asset passed; iterations kept |
| `delivery` | 2 tasks, 7 kinds of requests, runs of up to 3 assets, 1 restart, steps that raise | the best is delivered; the status is the first format's; lessons come from one run; signed, final and case agree with what is delivered, unless the task is executed again over its saved result |
| `workspace` | 2 threads, 2 e-mails, 2 passwords, 2 users, projects and sessions, 1 upload, 1 task, the process killed at will | accounts are whole; tasks stay with their owner; rows have files |
| `copy` | quotes in 3 kinds of marks, 6 brand profiles, stray, missing and repeated texts, 3 ways to group words, 2 generations | which pictures pass; what a passed picture shows; forbidden phrases do not pass |
| `worker` | 3 threads, 2 slots, 3 calls, 1 log line per process, reads that do not decode, 1 `close`, fairness | answers belong to requests while reads decode; one process; slots and counters kept; every call ends |
| `lost`, `limit`, `lessons` | one question each | claims the code does not meet, below |

Bounds.  Two workers and two request threads are what an interleaving needs: the
hazards are between one worker and one reviewer, or two reviewers, or a worker
and its successor.  Two review rounds let a task be revised, executed again and
refused a further revision; a client's round is the first, one that leaves room
for a single revision, or one beyond the maximum.  One kill is enough for a job
to be orphaned and recovered; the proofs below cover any number.  Two formats
with four generations let each format fail, be revised and pass; two attempts
are the configured default (`MULTI_AGENT_MAX_NODE_ATTEMPTS`); two resumptions
reach a campaign resumed twice.  The verdicts contain a pass, a pass with a
finding, a failure without findings, findings for both specialists and more
findings than a plan of three takes.  Four (the default) or five iterations end
the loop in every way within the recursion limit; twelve reach it.  In
`delivery` the first task is one of: two parallel candidates; one candidate or
two formats with review; two formats, of one or two candidates or of one
iteration; the second is an unclear request; or a reviewed task is followed by
one that is not, so that worker and API record at the same time.  Runs have up
to three assets: with and without text compliance, with the last not evaluated,
none at all, and a plateau, for which a run needs three; one fault has an
instruction and one has not.  In `workspace` the second e-mail and password let
a registration and a login fail, the second user has something to be kept from.
In `copy` the quotes contain nothing, part of the copy, all of it, a text within
another and a forbidden phrase; the profiles one required phrase more than fits.
Three threads are one more than there are slots, two contend for the lock of the
model process; a call that times out, its retry and the call after it fit into
three calls.  `MaxRestarts`, `MaxScore`, `Overrun`, `Pids`, `MaxCalls`,
`MaxLogs`, `MaxCloses`, `MaxGenerations` of `CriticalCopy` and the `Max...` of
`Workspace` are the only bounds that are not the program's own.  Processes,
threads, e-mails and passwords are interchangeable where symmetry is used, and
no liveness property is checked with it.  Threads of the model worker have no
names either: `CallTool` takes an idle one, whichever it is.

Deadlock is not checked: tasks, campaigns, loops and pictures end, and the
bounded worlds of `delivery` and `workspace` are used up.

Fairness.  `TaskLifecycle!FairSpec`: a thread or worker that is in the middle of
an operation goes on (the operating system runs it), a worker polls
(`worker.run`), a dead worker is started (`Restart=on-failure` of the systemd
unit), time passes.  Users owe nothing: no fairness of requests or reviews, and
none of crashes.  `CampaignDirector!FairSpec`: the thread that runs the graph
goes on; nobody need resume a campaign.  `ModelWorker!FairSpec`: a thread that can
run runs and time passes while it waits; the model process owes nothing, which is
why `CallsEnd` excepts a call that is `InsideLine`: `readline` waits for the rest
of a line past every deadline.

Assumption `Undisturbed`.  `OneOwner`, `ReviewGate` and `HistoryMatchesRounds`
hold when jobs end within `WORKER_STALE_SECONDS` and either no worker was killed
or the task is not reviewed: outside of it a task can be executed twice, or again
while it is with its reviewer (see the hazards).  The code relies on this and
says so nowhere.

### What the code does not do

Each of these runs has a counterexample, recorded under `findings`:

- `lost`: `finish` updates the job by task id; a worker that finishes after a
  reviewer has re-enqueued the revision marks the new job completed.
- `limit`: twelve iterations and more can exceed LangGraph's recursion limit.
- `lessons`: faults and repair actions are paired by position, while faults
  without an instruction have no action: later faults learn each other's.

The models also do the following, as the code does, and the properties above are
stated so that they allow it:

- a client's `review_round` is stored as it comes, also beyond `max_review_rounds`
  and without a history (`schemas.py:151`): such a task is refused its revisions;
- stale jobs are looked for only at the start of a worker (`worker.py:62`);
- a worker killed after it has saved a result and before it has finished the job
  (`worker.py:75`) has the task executed again: the new pictures replace those in
  `final/`, a signed one too, while `result.json` names the old best and says
  `signed_and_verified`, for good if the new execution fails; and a reviewer may
  approve the task while it is executed, so that cases and lessons come twice;
- the last asset of a generation budget is never evaluated (`agents/director.py:20`);
- the brief of a model decides which formats are delivered (`agents/layout_agent.py:24`);
- the row of a reviewed task can be left behind its file when worker and reviewer
  write both at once (`task_store.py:41`);
- a timeout is an `OSError`, so a timed-out call is sent again and the clause for
  `TimeoutError` is never reached (`adapters/subprocess_adapters.py:125`);
- output of a model process that cannot be decoded ends the call with an exception
  that nobody catches, and leaves the process with its answer unread: until it is
  replaced the following calls may get the answers of earlier ones
  (`adapters/subprocess_adapters.py:125`; a model process that is not configured
  for UTF-8 can write such lines itself, `model_worker.py:53`);
- an answer that follows a log line without an end is taken for part of it
  (`adapters/subprocess_adapters.py:123`);
- a batch is completed when its first format is (`candidates.py:116`);
- without candidates the last evaluation of a format and the first of the next
  are taken for consecutive (`experience.py:75`);
- OCR expects what the prompt quotes, not the copy that was written: a call to
  action or a default headline that is drawn as told is an unexpected text, so a
  request that leaves its copy to the agent passes only if it quotes that
  copy (`adapters/ocr_text.py:62`);
- a text that occurs in another expected text (a brand in the headline that names
  it) is found there: the picture that leaves it out passes, and the one that shows
  it as asked is refused as a repetition (`adapters/ocr_text.py:44`);
- a seventh required phrase is drawn below the picture (`agents/generation_agent.py:86`);
- a forbidden phrase that OCR breaks in two is not seen (`creative_tools.py:83`).

## 4. Proofs

Assumptions on constants are the named ASSUMEs of the modules.  Every proof has
the same shape: an inductive invariant `IInv`, a lemma `Invariance`
(`Spec => []IInv`) from one lemma per conjunct or per action, and the properties
as its consequences.

`TaskLifecycle_proofs`, for every set of tasks, workers and threads, any number
of rounds, kills and failures, and overrunning jobs too: `TypeCorrect` and
`SingleOwner` (`OneOwner`).  That no round passes `max_review_rounds`, or the
round a client submitted where that is larger, is not local: a revision copies
the round through payload, request file and job.  `OneOwner` is not inductive.
`IInv` adds `ControlOK` (what a program counter says about its locals: which
status may be in `put` for each return place), `Unreviewed` (a task without
review never gets near one), `JobsHeld` (an absent task is nobody's; while no
worker was killed a running job has a worker, hence never gets stale and
`recover_running` cannot requeue it) and `Ownership` (`OneOwner` plus: a queued
job's task is not open to reviewers, and a reviewer owns only a task whose job
no recovery can requeue).

The second part of the module is for `~Overrun` only (jobs end within
`WORKER_STALE_SECONDS`): `RecoveryLosesNothing` (`NothingLost`) and `RowsCatchUp`
(`RowFollowsFile`), for any number of kills at any step.  `NothingLost` is not
inductive: that `worker.run` finishes a job only after the status is terminal
has to be known through `set_status` and `save_result`, and that nobody else
writes the status in between.  `SettledInv` says so: a worker that has an
unreviewed task holds its running job alone, what it has written so far is in
file and row, a handler has such a task only before the job exists or after it
was cancelled, and its payload is that of the round it was submitted with (so it
validates).

`TaskReview_proofs`, on top of it: `ReviewGateHolds` (`ReviewGate`),
`HistoryKept` (`HistoryMatchesRounds`), `RecordsOnce` (`RecordedOnce`),
`TerminalStays` (`TerminalIsFinal`) and `PromiseKept` (`KeepsPromise`, the
refinement of `TaskPromise`).  All of these join request file, payload, result,
archives, records and status of one task, written one at a time by three
processes in turn. `LifeInv` says for every place of every owner (the thread
that creates, the queue, the worker at each of its writes, the reviewer at each
of his, or nobody) what each of those files holds in which round, as long as
jobs do not overrun and no worker was killed; `BlankInv` says what a process
without a task holds. An executed-again unreviewed task breaks `LifeInv`, so
`PlainInv` says what is left then: it is never revised or archived, and its
results are those of the round it was submitted with, under any kills.  All of
them count from that round: one revision and one archive for every round since.
`HistoryMatchesRounds` is about `Undisturbed` tasks and combines the two.  For
`KeepsPromise` each call of `set_status` is one move of the abstract task, the
reviewer's write of the request file is `Amend`, and every other action is shown
to stutter, one lemma per action; `MaxRestarts = 0` and `~Overrun` are
assumptions of that theorem, as they are in the run.

`CampaignDirector_proofs`, for every set of formats, any budgets, any answers of
the specialists and any number of failures, crashes and resumed runs:
`TypeCorrect` (`TypeOK`, which bounds rounds, generations and attempts),
`ReviewedOnce` (`ReviewedInStep`), `NoStalePlan` (`PlanIsCurrent`), `NothingLost`
(`RecoveryBoundary`), `NothingUnpassedDelivered` (`CompletedMeansDelivered`).
None of these is inductive alone: that generation adds an asset only when all
are reviewed depends on the early returns of `decide` that sent the graph there,
on a plan being current, and on the campaign loaded by a resumed run.  So `IInv`
has `CampaignOK` of both `campaign` and `checkpoint` (a crash makes the second
the first), and `NodeOK`, what being at a node says of budgets, reviews and
formats; `DecideEffect` proves the latter from the chain of early returns.  Each
helper of `director_node` and each node has a lemma on its effect; `MergeKeeps`
reduces a node to the campaign it merges.

`CampaignRepair_proofs`, on top of it: `VetoesRepaired` (`VetoRepaired`) and
`DisputesRecorded` (`ConflictsRecorded`).  Both speak of pairs of successive
assets, with the director's plan, the layouts and possibly a crash in between.
`RepairInv` says that a veto has findings for the layout, that the plan made on
it calls the layout planner or the layouts are rebuilt already, and that the
graph is at "generation" after a veto only with rebuilt layouts.  `ConflictInv`
says that the entries are of reviewed assets, none twice, none missing of an
asset with a successor, and none missing at all once the director has decided.
Both hold of campaign and checkpoint alike. The module's last theorem is
`CampaignPromiseKept` (`KeepsPromise`, the refinement of `CampaignPromise`): the
brief agent is the abstract `Brief`, generation `Make`, the review panel
`Accept` or `Reject`, a final status `Complete`, `Abort` or `Clarify`;
everything else stutters, also a resumed run, for the campaign it loads differs
from the one that crashed in nothing the promise speaks of.  `PromiseInv` says
that only the last asset can be without a pass and that a plan wants it repaired
(`AssetsOK`), where a final status stands (`StatusOK`), what each place wants of
the director (`Wanted`), and that the rounds used are at most those the campaign
accounts for by what its nodes left (`Used`: three for brief, layout and the
first decision, four for each asset). The theorem assumes `EnoughRounds`, `4 *
MaxGenerations < MaxRounds`.  The code does not ensure it: the rounds are
`min(80, 8 + 6 * formats + 3 * iterations)` (`executor.py:115`), which
`RoundsSuffice` shows to be enough for every admitted request except those of
twenty iterations and those of one format with more than thirteen.  The bound is
exact for one format: with a veto on every asset TLC finds the promise kept at
thirteen iterations and broken at fourteen, where the campaign fails for its
rounds with generations left, although `docs/multi-agent-architecture.md:71` has
it repeat until every format has passed or the generation budget is exhausted.

`QualityLoop_proofs`, for any budget, threshold and scores: `TypeCorrect`,
`BestIsBest` (`BestOfHistory`), `PlateauIsStagnation` (`PlateauIsReal`),
`CompletedIsPassed` (`CompletedMeansPassed`), `WithinBudget` (`BudgetKept`).
`IInv` says what each node may find (`Control`), when the loop ends (`Reasons`),
how evaluations count (`Counting`), what the last evaluation was (`Passing`), that
`no_improvement_count` counts the evaluations at the end that improved nothing
(`Stagnation`), and `BestOfHistory` itself.

`Workspace_proofs`, for any number of users, threads, tasks and kills:
`TypeCorrect`, `WholeAccounts` (`AccountsWhole`), `TasksAtHome`
(`TasksStayHome`), `NoDanglingRow` (`RowsHaveFiles`).  A thread acts on what it
found out some steps ago.  That is sound because rows and files are only ever
added (`Grows`), so what was found (`Knows`) stays true, and because what two
threads are about to add differs (`Apart`).

`ModelWorker_proofs`, for any number of threads, processes, slots, calls, log
lines and reads that do not decode: `TypeCorrect`, `AnswersOwnRequest`
(`OwnAnswer`), `OneProcessAtMost` (`OneProcess`), `SlotsAgree` (`SlotsKept`).
`OwnAnswer` rests on `InFlight`: the pipes of the current process hold nothing
but logs, or the one request of the thread that has the lock, or the one answer
to it, never both; a call that gives up leaves the process dead, and its pipes
with it.  A call that ends because a read did not decode leaves the process
alive: from there to the next process `InFlight` is not known, and `OwnAnswer`
promises nothing.

`Delivery_proofs`, for any tasks, requests, candidates, formats, provenance,
failures and restarts, and any runs of the loop: each evaluation and each
picture is one of the at most twenty iterations of a request (`schemas.py:137`),
so that a run has up to ten assets: `TypeCorrect`, `BestIsDelivered`
(`BestDelivered`), `StatusFromPrimary` (`StatusOfPrimary`), `CredentialsHold`
(`CredentialsKept`), `CasesMatch` (`CasesMatchDelivery`), `LessonsStayWithinRun`
(`LessonsWithinRun`).  The first part is about operators: what a run of the loop
reports (`RunIsFormatResult`), that selecting a candidate and flattening the
lists of all gives a result that reports the best of everything evaluated
(`SelectedIsFormatResult`), and the same for the formats (`JoinedIsDelivered`).
That `_selection_key` has a maximum among any number of candidates, and what
`FlattenSeq` holds of any number of lists, are inductions; they are done by a
smallest counterexample (`SetInduction`, `BoundedInduction`), which needs no
theorem with an operator as a parameter.  The second part is `IInv`: `BatchOK`
(what the candidates and formats that are done have given), `ResultOK` (what
worker and API hold at each place: a delivery of an execution of their task, the
API the saved one), `SavedOK`, `SignedOK` (a signed picture of a task with a
review belongs to one that was approved) and `CasesOK` (an execution has one
case at most, and none before the place where it is recorded).  It is inductive
because two processes have the same task only when it is executed again over its
saved result (`Intact`), so that otherwise what one signs or records is of
another execution; and because a worker whose task asks for a review reaches the
signing only with a result without pictures.  What is known of tasks executed
again is less: `HandsFit`, `AllFit` and what they say of signatures, final
pictures and cases leave them out (`redone`), the rest of the invariant does
not.

The third part is about lessons.  A trace is `Told` if it tells of every asset
once, and if evaluations that follow one another, with no selection of a
candidate in between, are of consecutive assets; that holds of a run
(`RunTells`), survives the selection of a candidate, whose event keeps the
formats apart (`SelectedTells`), and the joining of the formats
(`JoinedTeaches`).  What `learn_from_trace` draws from such a trace is right and
never twice on the same asset and issue (`LessonsTold`); this needs that an
evaluation names no issue twice, which `BatchAssumption` states
(`marketing_tools.py:85` removes duplicates).  `LessonInv` carries it to the
file: an execution has no lessons there before the place where it is learned
from, then only such as agree with the delivery in hand, and what is left to
learn is on other assets and issues; for a task executed again over its saved
result nothing is said of how often it teaches (`LearnedOnce`).  An approval
learns from the result that was saved long before, in another process; that both
are of one execution is where the pictures of the delivery are needed
(`OneExecution`).

Only model-checked: liveness (`Settles`, `RunEnds`, `CallsEnd`), which is out of
the prover's reach; all of `CriticalCopy`, whose operators search, cut and fold
texts, so that what they compute for every text is an induction over data.

## 5. Not modelled

Left out for good: neural model adapters (I/O), the tool registry and its mocks
(a table; tools answer from sets), brief, formats and feedback texts (keyword
tables without state), dashboards, observability, readiness and configuration
(read-only), the web workspace, scripts and deployment (that systemd restarts a
worker is an assumption of `TaskLifecycle`).

Within the modelled parts: the in-process pool used without a queue, failing disk
writes and lines of lessons written in part, the table of events, mask files,
embeddings and search of cases (floating-point similarity that only reads), the
contents of manifests, the one-shot `JsonModelWorker`, logo counts and colours,
password hashes, the checks of an upload's type and signature, prompts, seeds and
sizes, messages and metrics.

## 6. Plan

Done: task lifecycle, campaign director, single-agent loop, model workers with
lines written in part, batches and delivery, accounts and uploads, texts.

Left:

1. The in-process pool of the executor beside the durable queue.
2. The router of review feedback, as operators against a reference definition.
