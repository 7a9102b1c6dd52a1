------------------------------ MODULE Delivery ------------------------------
(***************************************************************************)
(* What TaskExecutor does with the result of a single-agent request: the   *)
(* pictures are copied and the chosen one made final, the chosen ones are  *)
(* signed (provenance.py), a case (case_memory.py) and lessons             *)
(* (experience.py) are recorded, and the result is saved.  With a review   *)
(* the worker saves first and the API does the rest on approval.           *)
(*                                                                         *)
(* One worker, as deployed, and the API.  Either may be killed or          *)
(* restarted, between any two writes.  A worker finishes its job after it  *)
(* has saved the result, so that a task may be executed once more although *)
(* its result is saved, and may then be approved at the same time: redone  *)
(* holds such tasks.  Revisions and the files of a status are              *)
(* TaskLifecycle's.                                                        *)
(***************************************************************************)
EXTENDS CandidateBatch

CONSTANTS
    Tasks,             \* numbered in the order of their jobs
    Requests,          \* what the tasks may ask for: a set of functions of Tasks
    Provenance,        \* what build_provenance_service returns
    StepsFail,         \* may a step raise?
    MaxRestarts        \* bound: restarts of processes

ASSUME DeliveryAssumption ==
    /\ Processes = {"worker", "api"} /\ Tasks \subseteq Nat \ {0}
    /\ Provenance \in {"off", "manifest", "signer"}
    /\ StepsFail \in BOOLEAN
    /\ MaxRestarts \in Nat
    /\ \A qs \in Requests, t \in Tasks : LET q == qs[t] IN
         /\ q.formats \in 1..4 /\ q.candidates \in 1..8 /\ q.iterations \in 1..20
         /\ {q.parallel, q.review, q.unclear} \subseteq BOOLEAN

VARIABLES
    requests,          \* requests[t]: request.json
    job,               \* job[t]: the state of its row in task_jobs
    status,            \* status[t]: status.json
    saved,             \* saved[t]: result.json
    final,             \* final[t]: the picture in final/
    signedFiles,       \* pictures that have a signed and verified copy
    cases,             \* the rows of CaseMemory
    executed,          \* executed[x]: the task of execution x
    redone,            \* history: tasks executed again over a saved result
    pc, task, result, lessons,     \* locals of each process
    restarts

taskVars == <<requests, job, status, saved, final>>
recordVars == <<signedFiles, cases>>
historyVars == <<executed, redone>>
localVars == <<pc, task, result, lessons>>
vars == <<experienceVars, batchVars, taskVars, recordVars, historyVars, localVars,
          restarts>>

NoTask == 0

Init ==
    /\ ExperienceInit /\ BatchInit
    /\ requests \in Requests
    /\ job = [t \in Tasks |-> "queued"] /\ status = [t \in Tasks |-> "queued"]
    /\ saved = [t \in Tasks |-> None]
    /\ final = [t \in Tasks |-> None]
    /\ signedFiles = {} /\ cases = <<>>
    /\ executed = <<>> /\ redone = {}
    /\ pc = [p \in Processes |-> "idle"]
    /\ task = [p \in Processes |-> NoTask]
    /\ result = [p \in Processes |-> None]
    /\ lessons = [p \in Processes |-> <<>>]
    /\ restarts = 0

-----------------------------------------------------------------------------
Goto(p, next) == pc' = [pc EXCEPT ![p] = next]

At(p, label) == pc[p] = label /\ UNCHANGED restarts

(* The process is done with its task.                                       *)
Return(p) ==
    /\ Goto(p, "idle")
    /\ task' = [task EXCEPT ![p] = NoTask]
    /\ result' = [result EXCEPT ![p] = None]
    /\ lessons' = [lessons EXCEPT ![p] = <<>>]

(* The worker claims the first job in the queue and asks its memory for     *)
(* strategies.  It does not look whether the task has a result.             *)
Begin(t) ==
    /\ At("worker", "idle") /\ job[t] = "queued"
    /\ \A u \in Tasks : job[u] = "queued" => t <= u
    /\ job' = [job EXCEPT ![t] = "running"]
    /\ status' = [status EXCEPT ![t] = "running"]
    /\ BeginBatch(requests[t], Strategies(known["worker"]))
    /\ executed' = Append(executed, t)
    /\ redone' = IF saved[t] # None THEN redone \cup {t} ELSE redone
    /\ task' = [task EXCEPT !["worker"] = t]
    /\ Goto("worker", "batch")
    /\ UNCHANGED <<experienceVars, requests, saved, final, recordVars, result, lessons>>

(* One step of the batch; the rest of the state waits for it.               *)
Batch ==
    /\ At("worker", "batch")
    /\ \/ \E c \in Indices : StartCandidate(c)
       \/ \E c \in Indices, r \in RunsFor(request) : EndCandidate(c, Done(r))
       \/ StepsFail /\ \E c \in Indices : EndCandidate(c, Raised)
       \/ EndFormat
    /\ UNCHANGED <<experienceVars, taskVars, recordVars, historyVars, localVars>>

Chosen(res) == {res.summaries[f].best : f \in DOMAIN res.summaries} \ {None}

(* materialize_outputs, and what becomes of the result.                     *)
Materialize ==
    /\ At("worker", "batch")
    /\ Len(formatResults) = request.formats
    /\ LET t == task["worker"]
           joined == JoinFormats(formatResults)
           review == request.review /\ joined.assets # <<>>
           res == [joined EXCEPT !.status = IF review THEN "waiting_for_review" ELSE @]
       IN
       /\ final' = IF res.best = None THEN final
                   ELSE [final EXCEPT ![t] = [asset |-> res.best, signed |-> FALSE]]
       /\ result' = [result EXCEPT !["worker"] = res]
       /\ Goto("worker", IF review THEN "save" ELSE "sign")
    /\ EndBatch
    /\ UNCHANGED <<experienceVars, requests, job, status, saved, recordVars, historyVars,
                   task, lessons>>

(* The API on an approval, under its lock ...                               *)
Approve(t) ==
    /\ At("api", "idle") /\ status[t] = "waiting_for_review"
    /\ status' = [status EXCEPT ![t] = "review_processing"]
    /\ task' = [task EXCEPT !["api"] = t]
    /\ Goto("api", "load")
    /\ UNCHANGED <<experienceVars, batchVars, requests, job, saved, final, recordVars,
                   historyVars, result, lessons>>

(* ... and, when it is released, with result.json as it is then.            *)
LoadResult ==
    /\ At("api", "load")
    /\ result' = [result EXCEPT !["api"] = [saved[task["api"]] EXCEPT !.status = "completed"]]
    /\ Goto("api", "sign")
    /\ UNCHANGED <<experienceVars, batchVars, taskVars, recordVars, historyVars,
                   task, lessons>>

-----------------------------------------------------------------------------
(* ProvenanceService.process, asset by asset: a signed copy is made of each *)
(* chosen one, and takes its place in the result.  A result that has its    *)
(* records is not processed again.                                          *)
SignAsset(p) ==
    /\ At(p, "sign") /\ Provenance = "signer" /\ result[p].credentials = "not_enabled"
    /\ LET res == result[p]
           left == {i \in DOMAIN res.assets : res.assets[i] \in Chosen(res) \ res.signed}
           next == res.assets[Min(left)]
       IN
       /\ left # {}
       /\ signedFiles' = signedFiles \cup {next}
       /\ result' = [result EXCEPT ![p].signed = @ \cup {next}]
    /\ UNCHANGED <<experienceVars, batchVars, taskVars, cases, historyVars, pc, task,
                   lessons>>

Credentials(res) ==
    IF Chosen(res) = {} \/ Provenance = "off" THEN "not_enabled"
    ELSE IF Provenance = "signer" THEN "signed_and_verified" ELSE "manifest_only"

(* Slip: the final picture stays the one that was copied before.            *)
FinalAsCopied(res, old) == old

(* update_final_asset: the picture of the best asset, as the result has it. *)
FinalAsset(res, old) ==
    IF res.best = None THEN old
    ELSE [asset |-> res.best, signed |-> res.best \in res.signed]

(* _write_provenance, when every chosen asset has its record.               *)
UpdateFinal(p) ==
    /\ At(p, "sign")
    /\ Provenance = "signer" => Chosen(result[p]) \subseteq result[p].signed
    /\ result' = [result EXCEPT ![p].credentials = Credentials(result[p])]
    /\ final' = IF Provenance = "off" \/ result[p].credentials # "not_enabled" THEN final
                ELSE [final EXCEPT ![task[p]] = FinalAsset(result[p], @)]
    /\ Goto(p, "remember")
    /\ UNCHANGED <<experienceVars, batchVars, requests, job, status, saved, recordVars,
                   historyVars, task, lessons>>

(* The asset of the case: the best, or the last for want of a best.         *)
CaseAsset(res) == IF res.best # None THEN res.best ELSE Last(res.assets)

(* Slip: the first asset is recorded with the score of the best.            *)
CaseOfFirst(p) ==
    LET res == result[p] IN
    [task |-> task[p], asset |-> Head(res.assets), score |-> res.score,
     compliant |-> res.compliant]

Case(p) ==
    LET res == result[p] IN
    [task |-> task[p], asset |-> CaseAsset(res), score |-> res.score,
     compliant |-> res.compliant /\ res.best = CaseAsset(res)]

(* _write_memory; _write_experience reads the trace next.  A result that    *)
(* has its case or its lessons does not get them again.                     *)
Remember(p) ==
    /\ At(p, "remember")
    /\ LET res == result[p]
           learned == IF res.taught THEN <<>> ELSE Lessons(res.trace)
       IN
       /\ cases' = IF res.assets = <<>> \/ res.recorded THEN cases
                   ELSE Append(cases, Case(p))
       /\ lessons' = [lessons EXCEPT ![p] = learned]
       /\ result' = [result EXCEPT ![p].recorded = res.assets # <<>>,
                                   ![p].taught = @ \/ learned # <<>>]
    /\ Goto(p, "learn")
    /\ UNCHANGED <<experienceVars, batchVars, taskVars, signedFiles, historyVars, task>>

(* learn_from_trace writes one lesson after the other.                      *)
Learn(p) ==
    /\ At(p, "learn") /\ lessons[p] # <<>>
    /\ AddLesson(p, Head(lessons[p]))
    /\ lessons' = [lessons EXCEPT ![p] = Tail(@)]
    /\ UNCHANGED <<batchVars, taskVars, recordVars, historyVars, pc, task, result>>

(* save_result writes result.json ...                                       *)
SaveResult(p) ==
    /\ \/ At(p, "save")
       \/ At(p, "learn") /\ lessons[p] = <<>>
    /\ saved' = [saved EXCEPT ![task[p]] = result[p]]
    /\ Goto(p, "status")
    /\ UNCHANGED <<experienceVars, batchVars, requests, job, status, final, recordVars,
                   historyVars, task, result, lessons>>

(* A request is answered; the worker has yet to finish the job.             *)
Leave(p) ==
    IF p = "api" THEN Return(p)
    ELSE /\ Goto(p, "finish")
         /\ result' = [result EXCEPT ![p] = None]
         /\ lessons' = [lessons EXCEPT ![p] = <<>>]
         /\ UNCHANGED task

(* ... and then status.json.                                                *)
SaveStatus(p) ==
    /\ At(p, "status")
    /\ status' = [status EXCEPT ![task[p]] = result[p].status]
    /\ Leave(p)
    /\ UNCHANGED <<experienceVars, batchVars, requests, job, saved, final, recordVars,
                   historyVars>>

(* queue.finish                                                             *)
FinishJob ==
    /\ At("worker", "finish")
    /\ job' = [job EXCEPT ![task["worker"]] = "finished"]
    /\ Return("worker")
    /\ UNCHANGED <<experienceVars, batchVars, requests, status, saved, final, recordVars,
                   historyVars>>

(* An exception: _execute records the failure, review lets it pass.         *)
Raise(p) ==
    /\ StepsFail
    /\ \/ At(p, "batch") /\ BatchRaises
       \/ \E label \in {"sign", "remember", "learn", "save", "status"} : At(p, label)
    /\ status' = IF p = "worker" THEN [status EXCEPT ![task[p]] = "failed"] ELSE status
    /\ Leave(p)
    /\ IF p = "worker" THEN EndBatch ELSE UNCHANGED batchVars
    /\ UNCHANGED <<experienceVars, requests, job, saved, final, recordVars, historyVars>>

(* Process p is killed and started again; recover_running puts the job that *)
(* the worker had not finished back into the queue.                         *)
Restart(p) ==
    /\ restarts < MaxRestarts
    /\ restarts' = restarts + 1
    /\ LoadLessons(p)
    /\ job' = IF p = "worker" /\ task[p] # NoTask
              THEN [job EXCEPT ![task[p]] = "queued"] ELSE job
    /\ Return(p)
    /\ IF p = "worker" THEN EndBatch ELSE UNCHANGED batchVars
    /\ UNCHANGED <<requests, status, saved, final, recordVars, historyVars>>

Next ==
    \/ \E t \in Tasks : Begin(t) \/ Approve(t)
    \/ Batch \/ Materialize \/ LoadResult \/ FinishJob
    \/ \E p \in Processes :
         \/ SignAsset(p) \/ UpdateFinal(p) \/ Remember(p) \/ Learn(p)
         \/ SaveResult(p) \/ SaveStatus(p) \/ Raise(p) \/ Restart(p)

Spec == Init /\ [][Next]_vars

-----------------------------------------------------------------------------
Labels == {"idle", "batch", "load", "sign", "remember", "learn", "save", "status",
           "finish"}
HasResult == {"sign", "remember", "learn", "save", "status"}
Statuses == {"queued", "running", "waiting_for_review", "review_processing",
             "waiting_for_user", "completed", "aborted", "failed"}

AssetIds == {<<x, f, c, i>> : x \in 1..execution, f \in 1..4, c \in 1..8, i \in 1..10}

(* Types; a process has a task and a result exactly when it is at work, and *)
(* what the processes know of lessons was once in the file.                 *)
TypeOK ==
    /\ requests \in Requests /\ status \in [Tasks -> Statuses]
    /\ job \in [Tasks -> {"queued", "running", "finished"}] /\ redone \subseteq Tasks
    /\ pc \in [Processes -> Labels] /\ task \in [Processes -> Tasks \cup {NoTask}]
    /\ execution = Len(executed) /\ executed \in Seq(Tasks)
    /\ \A p \in Processes :
         /\ pc[p] = "idle" <=> task[p] = NoTask
         /\ pc[p] \in HasResult <=> result[p] # None
         /\ ToSet(known[p]) \subseteq ToSet(file)
    /\ signedFiles \subseteq AssetIds
    /\ \A t \in Tasks : saved[t] # None => ToSet(saved[t].assets) \subseteq AssetIds
    /\ restarts \in 0..MaxRestarts

-----------------------------------------------------------------------------
Saved == {t \in Tasks : saved[t] # None}
Closed == {t \in Saved : saved[t].status # "waiting_for_review"}

(* The evaluations made for format f of task t, by all candidates.          *)
SeenFor(t, f) == {o \in ToSet(saved[t].observations) : o.asset[2] = f}

(* o has better text, or equal text and a better score than b.              *)
Better(o, b) ==
    \/ o.compliant /\ ~b.compliant
    \/ o.compliant = b.compliant /\ o.score > b.score

(* Whatever the number of candidates, the order in which they end, and the  *)
(* restarts: what is delivered for a format is an evaluated asset that none *)
(* of all evaluated assets of the format beats, text compliance first, and  *)
(* its summary says what was seen of it; the first format's is the best     *)
(* asset of the task and the picture in final/ (_selection_key,             *)
(* "text_compliance_then_marketing_score", materialize_outputs).  Only a    *)
(* task executed again over its saved result may have another picture in    *)
(* final/ than the result names, for good if that execution fails.          *)
BestDelivered ==
    \A t \in Saved :
      /\ \A f \in 1..requests[t].formats :
           LET s == saved[t].summaries[f] IN
           IF SeenFor(t, f) = {} THEN s.best = None
           ELSE \E o \in SeenFor(t, f) :
                  /\ s = [best |-> o.asset, score |-> o.score, compliant |-> o.compliant]
                  /\ \A other \in SeenFor(t, f) : ~Better(other, o)
      /\ saved[t].best = saved[t].summaries[1].best
      /\ saved[t].best # None /\ t \notin redone => final[t].asset = saved[t].best

(* A batch is completed exactly when some candidate of its first format     *)
(* passed, though the candidate it reports is chosen by another rule than   *)
(* passing; what became of the other formats does not show in the status    *)
(* (run_campaign_batch takes it from the primary format).                   *)
StatusOfPrimary ==
    \A t \in Saved :
      (~requests[t].review \/ saved[t].assets = <<>>) =>
        saved[t].status =
          IF saved[t].assets = <<>> THEN "waiting_for_user"
          ELSE IF \E o \in SeenFor(t, 1) : Passed(o) THEN "completed" ELSE "aborted"

(* Two assets of one run of the loop, or the last evaluated one of a format *)
(* and the first of the next: without candidates nothing in the trace tells *)
(* the formats apart.                                                       *)
Consecutive(from, to) ==
    \/ from[1] = to[1] /\ from[2] = to[2] /\ from[3] = to[3] /\ to[4] = from[4] + 1
    \/ /\ from[1] = to[1] /\ to[2] = from[2] + 1 /\ to[4] = 1
       /\ requests[executed[from[1]]].candidates = 1

(* Lessons are drawn from consecutive evaluations of one candidate, of the  *)
(* candidate that was selected, and drawn once, even when the approval that *)
(* records them comes much later than the run and from another process      *)
(* (learn_from_trace and the trace of run_candidate_batch).  When a task is *)
(* executed again over its saved result, an approval may meet that          *)
(* execution, and both draw theirs.                                         *)
LessonsWithinRun ==
    \A i \in DOMAIN file :
      LET l == file[i]
          t == executed[l.from[1]]
      IN
      /\ Consecutive(l.from, l.to)
      /\ t \notin redone =>
           /\ t \in Saved /\ l.from \in ToSet(saved[t].assets) =>
                saved[t].summaries[l.from[2]].best[3] = l.from[3]
           /\ \A j \in DOMAIN file \ {i} :
                <<file[j].from, file[j].issue>> # <<l.from, l.issue>>

(* A lesson on an issue is about the action that was taken for that issue:  *)
(* test_experience.py expects the strategy of "composition" to be the       *)
(* action recorded for it.  learn_from_trace pairs issues and actions by    *)
(* position, while repair_actions_for leaves out issues it has no           *)
(* instruction for, so that the actions of the others move up.              *)
LessonsNameTheirIssue == \A i \in DOMAIN file : file[i].issue = file[i].action

(* With signing configured, a result that says so has every chosen picture  *)
(* signed and pointed to, and its final picture is the signed copy of the   *)
(* best; none without says it is finished; nothing a reviewer has not       *)
(* decided on is signed (ProvenanceService.process, update_final_asset).    *)
(* A task executed again over its saved result is excepted: the copies of   *)
(* the new execution replace the signed picture in final/, while            *)
(* result.json says signed_and_verified until it is saved again.            *)
CredentialsKept ==
    \A t \in Saved \ redone :
      LET res == saved[t] IN
      IF t \in Closed
      THEN /\ res.credentials = "signed_and_verified" <=>
                Provenance = "signer" /\ Chosen(res) # {}
           /\ res.credentials = "signed_and_verified" =>
                /\ Chosen(res) \subseteq signedFiles \cap res.signed
                /\ res.best # None => final[t] = [asset |-> res.best, signed |-> TRUE]
      ELSE status[t] = "waiting_for_review" =>
             /\ ToSet(res.assets) \cap signedFiles = {}
             /\ final[t] # None => ~final[t].signed

(* The cases of execution x.                                                *)
CasesOf(x) == {i \in DOMAIN cases : cases[i].asset[1] = x}

(* A finished task with pictures has exactly one case for the execution it  *)
(* delivers, and a task in review none.  The case is of a delivered asset,  *)
(* with the score and the compliance that were seen of that asset.  Cases   *)
(* of executions that were never delivered stay; a task executed again over *)
(* its saved result is excepted, since it may be approved meanwhile.        *)
CasesMatchDelivery ==
    /\ \A x \in DOMAIN executed : executed[x] \notin redone => Cardinality(CasesOf(x)) <= 1
    /\ \A t \in Saved \ redone :
         LET res == saved[t]
             of == IF res.assets = <<>> THEN {} ELSE CasesOf(res.assets[1][1])
         IN
         /\ t \in Closed /\ res.assets # <<>> => Cardinality(of) = 1
         /\ status[t] = "waiting_for_review" => of = {}
         /\ \A i \in of :
              LET c == cases[i] IN
              /\ c.task = t /\ c.asset \in ToSet(res.assets)
              /\ IF \E o \in ToSet(res.observations) : o.asset = c.asset
                 THEN \E o \in ToSet(res.observations) :
                        <<o.asset, o.score, o.compliant>> = <<c.asset, c.score, c.compliant>>
                 ELSE c.score = -1 /\ ~c.compliant
=============================================================================
