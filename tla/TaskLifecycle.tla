--------------------------- MODULE TaskLifecycle ---------------------------
(***************************************************************************)
(* The life of a task in the deployed configuration: the threads of the    *)
(* API process (api.py) and the GPU worker processes (worker.py) run       *)
(* TaskExecutor (executor.py) over one TaskStore and one DurableTaskQueue. *)
(* Nothing spans the store and the queue, so every write is an action of   *)
(* its own and the processes interleave between any two of them.           *)
(*                                                                         *)
(* The program counter of a process names its next write.  set_status and  *)
(* save_result are called from many places: "put" is the status set_status *)
(* is writing (for a worker at "finish", the verdict for the queue) and    *)
(* "then" is where the caller goes on.                                     *)
(***************************************************************************)
EXTENDS DurableTaskQueue

CONSTANTS
    Handlers,        \* threads of the API process, each serving one request
    ReviewRequired,  \* the tasks submitted with review_required
    SeedRoom,        \* the revisions a task's seed leaves room for
    Decisions,       \* the reviews users submit; "blank": revise, no feedback
    Faults,          \* the phases in which the code called may raise
    Crashable,       \* which kinds of process may be killed
    MaxRestarts,     \* bound: how many times a worker is killed
    Overrun          \* may a job run longer than WORKER_STALE_SECONDS?

ASSUME TaskLifecycleAssumption ==
    /\ ReviewRequired \subseteq Tasks
    /\ SeedRoom \in [Tasks -> Nat]
    /\ Decisions \subseteq {"approve", "revise", "blank"}
    /\ Faults \subseteq {"execute", "provenance", "memory", "experience"}
    /\ Crashable \subseteq {"worker", "api"}
    /\ MaxRestarts \in Nat
    /\ Overrun \in BOOLEAN
    /\ Workers \cap Handlers = {}

NoTask == "none"
ASSUME NoTaskAssumption == NoTask \notin Tasks

VARIABLES
    pc, task, payload, result, put, then,  \* the locals of each process
    decision,   \* the decision a handler is processing
    records,    \* per task: rows in case memory, lessons, signed results
    restarts    \* workers killed so far

localVars == <<pc, task, payload, result, put, then, decision>>
vars == <<storeVars, queueVars, localVars, records, restarts>>

Processes == Workers \cup Handlers

Labels == {"down", "idle", "create_row", "status_file", "status_row", "enqueue",
           "load", "archive", "request_file", "request_row", "validate",
           "execute", "provenance", "memory", "experience", "save", "trace",
           "report", "finish"}

Kinds == {"provenance", "memory", "experience"}

LocalTypeOK ==
    /\ pc       \in [Processes -> Labels]
    /\ task     \in [Processes -> Tasks \cup {NoTask}]
    /\ payload  \in [Processes -> Payloads]
    /\ result   \in [Processes -> Results]
    /\ put      \in [Processes -> Statuses]
    /\ then     \in [Processes -> Labels]
    /\ decision \in [Handlers -> Decisions \cup {"none"}]

(* Types of store, queue and locals; wherever a review round is written     *)
(* down it is within max_review_rounds or the one a client sent.            *)
TypeOK ==
    /\ StoreTypeOK
    /\ QueueTypeOK
    /\ LocalTypeOK
    /\ records  \in [Tasks -> [Kinds -> Nat]]
    /\ restarts \in 0..MaxRestarts

Init ==
    /\ StoreInit
    /\ QueueInit
    /\ pc       = [p \in Processes |-> IF p \in Workers THEN "down" ELSE "idle"]
    /\ task     = [p \in Processes |-> NoTask]
    /\ payload  = [p \in Processes |-> NoPayload]
    /\ result   = [p \in Processes |-> NoResult]
    /\ put      = [p \in Processes |-> "absent"]
    /\ then     = [p \in Processes |-> "idle"]
    /\ decision = [h \in Handlers |-> "none"]
    /\ records  = [t \in Tasks |-> [k \in Kinds |-> 0]]
    /\ restarts = 0

-----------------------------------------------------------------------------
(* Control flow of one process.                                             *)

Goto(p, label) ==
    /\ pc' = [pc EXCEPT ![p] = label]
    /\ UNCHANGED <<task, payload, result, put, then, decision>>

(* Call set_status(task, status) and continue at label.                     *)
SetStatus(p, status, label) ==
    /\ pc' = [pc EXCEPT ![p] = "status_file"]
    /\ put' = [put EXCEPT ![p] = status]
    /\ then' = [then EXCEPT ![p] = label]

(* The request or the job is over: its locals are gone.                     *)
Return(p, label) ==
    /\ pc'       = [pc EXCEPT ![p] = label]
    /\ task'     = [task EXCEPT ![p] = NoTask]
    /\ payload'  = [payload EXCEPT ![p] = NoPayload]
    /\ result'   = [result EXCEPT ![p] = NoResult]
    /\ put'      = [put EXCEPT ![p] = "absent"]
    /\ then'     = [then EXCEPT ![p] = "idle"]
    /\ decision' = [h \in Handlers |-> IF h = p THEN "none" ELSE decision[h]]

Continue(p, label) ==
    IF label = "idle" THEN Return(p, "idle") ELSE Goto(p, label)

(* An exception: TaskExecutor._execute reports it as the status "failed";   *)
(* in a request handler it ends the request.                                *)
Raise(p) ==
    IF p \in Workers
    THEN /\ SetStatus(p, "failed", "report")
         /\ UNCHANGED <<task, payload, result, decision>>
    ELSE Return(p, "idle")

(* set_status, shared by all processes.                                     *)
StatusFile(p) ==
    /\ pc[p] = "status_file"
    /\ WriteStatusFile(task[p], put[p])
    /\ Goto(p, "status_row")
    /\ UNCHANGED <<queueVars, records, restarts>>

StatusRow(p) ==
    /\ pc[p] = "status_row"
    /\ WriteStatusRow(task[p], put[p])
    /\ Continue(p, then[p])
    /\ UNCHANGED <<queueVars, records, restarts>>

(* TaskRequest.seed <= 2_147_483_647: a revision adds 97_409 to the seed    *)
(* without validation, the next reader of the request validates.            *)
ValidRequest(t, round) == round <= submitted[t] + SeedRoom[t]

-----------------------------------------------------------------------------
(* POST /tasks: TaskStore.create, then TaskExecutor.submit.  The request is *)
(* stored and submitted as the client sent it, its review_round included,   *)
(* which is not compared with max_review_rounds.                            *)

CreateTask(h, t) ==
    \E round \in FirstRounds :
      /\ pc[h] = "idle"
      /\ CreateFiles(t, round)
      /\ pc' = [pc EXCEPT ![h] = "create_row"]
      /\ task' = [task EXCEPT ![h] = t]
      /\ payload' = [payload EXCEPT ![h] = [round |-> round, history |-> <<>>]]
      /\ UNCHANGED <<result, put, then, decision, queueVars, records, restarts>>

(* Slip: the task is shown as queued and never put in the queue.            *)
CreateUnqueued(h) ==
    /\ pc[h] = "create_row"
    /\ CreateRow(task[h], payload[h].round)
    /\ SetStatus(h, "queued", "idle")
    /\ UNCHANGED <<task, payload, result, decision, queueVars, records, restarts>>

CreateTaskRow(h) ==
    /\ pc[h] = "create_row"
    /\ CreateRow(task[h], payload[h].round)
    /\ SetStatus(h, "queued", "enqueue")
    /\ UNCHANGED <<task, payload, result, decision, queueVars, records, restarts>>

EnqueueTask(h) ==
    /\ pc[h] = "enqueue"
    /\ Enqueue(task[h], payload[h])
    /\ Return(h, "idle")
    /\ UNCHANGED <<storeVars, records, restarts>>

(* DELETE /tasks/{id}: TaskExecutor.cancel.  A job no longer queued is      *)
(* refused and nothing changes.                                             *)
CancelTask(h, t) ==
    /\ pc[h] = "idle"
    /\ CancelJob(t)
    /\ task' = [task EXCEPT ![h] = t]
    /\ SetStatus(h, "cancelled", "idle")
    /\ UNCHANGED <<payload, result, decision, storeVars, records, restarts>>

-----------------------------------------------------------------------------
(* POST /tasks/{id}/review: TaskExecutor.review.  The lock of the API       *)
(* process is held from reading the status to the end of set_status.        *)

HoldsReviewLock(h) == pc[h] \in {"status_file", "status_row"} /\ then[h] = "load"

ReviewLockFree == \A h \in Handlers : ~HoldsReviewLock(h)

(* Slip: the status is read outside the lock.                               *)
BeginUnlocked(h, t, d) ==
    /\ pc[h] = "idle"
    /\ statusFile[t] = "waiting_for_review"
    /\ task' = [task EXCEPT ![h] = t]
    /\ decision' = [decision EXCEPT ![h] = d]
    /\ SetStatus(h, "review_processing", "load")
    /\ UNCHANGED <<payload, result, storeVars, queueVars, records, restarts>>

BeginReview(h, t, d) ==
    /\ pc[h] = "idle"
    /\ ReviewLockFree
    /\ statusFile[t] = "waiting_for_review"
    /\ task' = [task EXCEPT ![h] = t]
    /\ decision' = [decision EXCEPT ![h] = d]
    /\ SetStatus(h, "review_processing", "load")
    /\ UNCHANGED <<payload, result, storeVars, queueVars, records, restarts>>

(* What the review reads back: no result, or a request that does not        *)
(* validate, raises.                                                        *)
ReviewLoads(t) == resultFile[t] # NoResult /\ ValidRequest(t, requestFile[t])

(* Slip: the reviews of earlier rounds are dropped.                         *)
LastReviewOnly(t, d) == <<[round |-> requestFile[t], decision |-> d]>>

ReviewHistory(t, d) ==
    Append(resultFile[t].history, [round |-> requestFile[t], decision |-> d])

LoadFails(h) ==
    /\ pc[h] = "load"
    /\ ~ReviewLoads(task[h])
    /\ Return(h, "idle")
    /\ UNCHANGED <<storeVars, queueVars, records, restarts>>

Approve(h) ==
    LET t == task[h] IN
    /\ pc[h] = "load"
    /\ decision[h] = "approve"
    /\ ReviewLoads(t)
    /\ result' = [result EXCEPT ![h] =
         [resultFile[t] EXCEPT !.status = "completed",
                               !.history = ReviewHistory(t, "approve")]]
    /\ pc' = [pc EXCEPT ![h] = "provenance"]
    /\ then' = [then EXCEPT ![h] = "idle"]
    /\ UNCHANGED <<task, payload, put, decision, storeVars, queueVars, records,
                   restarts>>

(* Slip: a refused revision fails the task.                                 *)
RefuseByFailing(h) ==
    LET t == task[h] IN
    /\ pc[h] = "load"
    /\ ReviewLoads(t)
    /\ \/ decision[h] = "blank"
       \/ decision[h] = "revise" /\ requestFile[t] >= MaxReviewRounds
    /\ SetStatus(h, "failed", "idle")
    /\ UNCHANGED <<task, payload, result, decision, storeVars, queueVars, records,
                   restarts>>

(* Revision without feedback, or past the last round: back to waiting.      *)
RefuseRevision(h) ==
    LET t == task[h] IN
    /\ pc[h] = "load"
    /\ ReviewLoads(t)
    /\ \/ decision[h] = "blank"
       \/ decision[h] = "revise" /\ requestFile[t] >= MaxReviewRounds
    /\ SetStatus(h, "waiting_for_review", "idle")
    /\ UNCHANGED <<task, payload, result, decision, storeVars, queueVars, records,
                   restarts>>

(* Slip: the number of rounds is not bounded.                               *)
ReviseAgain(h) ==
    LET t == task[h] IN
    /\ pc[h] = "load"
    /\ decision[h] = "revise"
    /\ ReviewLoads(t)
    /\ payload' = [payload EXCEPT ![h] = [round |-> requestFile[t] + 1,
                                          history |-> ReviewHistory(t, "revise")]]
    /\ pc' = [pc EXCEPT ![h] = "archive"]
    /\ then' = [then EXCEPT ![h] = "idle"]
    /\ UNCHANGED <<task, result, put, decision, storeVars, queueVars, records,
                   restarts>>

Revise(h) ==
    LET t == task[h] IN
    /\ pc[h] = "load"
    /\ decision[h] = "revise"
    /\ ReviewLoads(t)
    /\ requestFile[t] < MaxReviewRounds
    /\ payload' = [payload EXCEPT ![h] = [round |-> requestFile[t] + 1,
                                          history |-> ReviewHistory(t, "revise")]]
    /\ pc' = [pc EXCEPT ![h] = "archive"]
    /\ then' = [then EXCEPT ![h] = "idle"]
    /\ UNCHANGED <<task, result, put, decision, storeVars, queueVars, records,
                   restarts>>

Archive(h) ==
    LET t == task[h]
        round == payload[h].round - 1
    IN
    /\ pc[h] = "archive"
    /\ \/ /\ ArchiveResult(t, round)
          /\ Goto(h, "request_file")
       \/ /\ ArchiveExists(t, round)
          /\ Return(h, "idle")
          /\ UNCHANGED storeVars
    /\ UNCHANGED <<queueVars, records, restarts>>

UpdateRequest(h) ==
    /\ pc[h] = "request_file"
    /\ WriteRequest(task[h], payload[h].round)
    /\ Goto(h, "request_row")
    /\ UNCHANGED <<queueVars, records, restarts>>

UpdateRequestRow(h) ==
    /\ pc[h] = "request_row"
    /\ WriteRequestRow(task[h], payload[h].round)
    /\ SetStatus(h, "queued", "enqueue")
    /\ UNCHANGED <<task, payload, result, decision, queueVars, records, restarts>>

-----------------------------------------------------------------------------
(* Closing a result, by a worker or by an approving handler:                *)
(* _write_provenance, _write_memory, _write_experience, save_result.        *)

NextPhase(kind) ==
    CASE kind = "provenance" -> "memory"
      [] kind = "memory"     -> "experience"
      [] kind = "experience" -> "save"

(* _write_memory skips a result without assets.                             *)
Record(p, kind) ==
    /\ pc[p] = kind
    /\ records' = IF kind = "memory" /\ ~result[p].assets THEN records
                  ELSE [records EXCEPT ![task[p]][kind] = @ + 1]
    /\ Goto(p, NextPhase(kind))
    /\ UNCHANGED <<storeVars, queueVars, restarts>>

RecordRaises(p, kind) ==
    /\ pc[p] = kind
    /\ kind \in Faults
    /\ Raise(p)
    /\ UNCHANGED <<storeVars, queueVars, records, restarts>>

SaveResult(p) ==
    /\ pc[p] = "save"
    /\ WriteResult(task[p], result[p])
    /\ SetStatus(p, result[p].status, "trace")
    /\ UNCHANGED <<task, payload, result, decision, queueVars, records, restarts>>

SaveTrace(p) ==
    /\ pc[p] = "trace"
    /\ WriteTrace(task[p], result[p].round)
    /\ IF p \in Workers THEN Goto(p, "report") ELSE Return(p, "idle")
    /\ UNCHANGED <<queueVars, records, restarts>>

-----------------------------------------------------------------------------
(* worker.py run(): recover once, then claim, execute_now, finish.          *)

StartWorker(w) ==
    /\ pc[w] = "down"
    /\ RecoverRunning
    /\ Goto(w, "idle")
    /\ UNCHANGED <<storeVars, records, restarts>>

ClaimJob(w, t) ==
    /\ pc[w] = "idle"
    /\ Claim(w, t)
    /\ pc' = [pc EXCEPT ![w] = "validate"]
    /\ task' = [task EXCEPT ![w] = t]
    /\ payload' = [payload EXCEPT ![w] = job[t].payload]
    /\ UNCHANGED <<result, put, then, decision, storeVars, records, restarts>>

(* A payload that does not validate fails the job before _execute, so the   *)
(* task's status is not touched.                                            *)
Validate(w) ==
    /\ pc[w] = "validate"
    /\ IF ValidRequest(task[w], payload[w].round)
       THEN SetStatus(w, "running", "execute")
       ELSE /\ pc' = [pc EXCEPT ![w] = "finish"]
            /\ put' = [put EXCEPT ![w] = "failed"]
            /\ UNCHANGED then
    /\ UNCHANGED <<task, payload, result, decision, storeVars, queueVars, records,
                   restarts>>

(* Slips: only the first preview is reviewed; a preview is recorded as a    *)
(* finished result is.                                                      *)
ExecuteReviewedOnce(w) ==
    \E status \in EngineStatuses, assets \in BOOLEAN :
      LET review == task[w] \in ReviewRequired /\ assets /\ payload[w].round = 0 IN
      /\ pc[w] = "execute"
      /\ result' = [result EXCEPT ![w] =
           [status  |-> IF review THEN "waiting_for_review" ELSE status,
            round   |-> payload[w].round,
            history |-> payload[w].history,
            assets  |-> assets]]
      /\ pc' = [pc EXCEPT ![w] = IF review THEN "save" ELSE "provenance"]
      /\ UNCHANGED <<task, payload, put, then, decision, storeVars, queueVars,
                     records, restarts>>

ExecuteRecordingPreview(w) ==
    \E status \in EngineStatuses, assets \in BOOLEAN :
      LET review == task[w] \in ReviewRequired /\ assets IN
      /\ pc[w] = "execute"
      /\ result' = [result EXCEPT ![w] =
           [status  |-> IF review THEN "waiting_for_review" ELSE status,
            round   |-> payload[w].round,
            history |-> payload[w].history,
            assets  |-> assets]]
      /\ pc' = [pc EXCEPT ![w] = "provenance"]
      /\ UNCHANGED <<task, payload, put, then, decision, storeVars, queueVars,
                     records, restarts>>

(* _execute up to the decision to ask for a review: the campaign run, its   *)
(* materialization, and the result it leaves.                               *)
Execute(w) ==
    \E status \in EngineStatuses, assets \in BOOLEAN :
      LET review == task[w] \in ReviewRequired /\ assets IN
      /\ pc[w] = "execute"
      /\ result' = [result EXCEPT ![w] =
           [status  |-> IF review THEN "waiting_for_review" ELSE status,
            round   |-> payload[w].round,
            history |-> payload[w].history,
            assets  |-> assets]]
      /\ pc' = [pc EXCEPT ![w] = IF review THEN "save" ELSE "provenance"]
      /\ UNCHANGED <<task, payload, put, then, decision, storeVars, queueVars,
                     records, restarts>>

ExecuteRaises(w) ==
    /\ pc[w] = "execute"
    /\ "execute" \in Faults
    /\ Raise(w)
    /\ UNCHANGED <<storeVars, queueVars, records, restarts>>

(* After execute_now: read status.json and choose the queue's verdict.      *)
Report(w) ==
    /\ pc[w] = "report"
    /\ put' = [put EXCEPT ![w] =
                 IF statusFile[task[w]] = "failed" THEN "failed" ELSE "completed"]
    /\ pc' = [pc EXCEPT ![w] = "finish"]
    /\ UNCHANGED <<task, payload, result, then, decision, storeVars, queueVars,
                   records, restarts>>

FinishJob(w) ==
    /\ pc[w] = "finish"
    /\ Finish(task[w], put[w])
    /\ Return(w, "idle")
    /\ UNCHANGED <<storeVars, records, restarts>>

-----------------------------------------------------------------------------
(* The environment: time and process failures.                              *)

(* Without Overrun, only a job whose worker died gets old enough.           *)
Elapse(t) ==
    /\ \A w \in Workers : task[w] = t => Overrun
    /\ BecomeStale(t)
    /\ UNCHANGED <<storeVars, localVars, records, restarts>>

(* A kill, or SIGTERM to an idle worker; one that is busy finishes its job. *)
CrashWorker(w) ==
    /\ "worker" \in Crashable
    /\ restarts < MaxRestarts
    /\ pc[w] # "down"
    /\ Return(w, "down")
    /\ restarts' = restarts + 1
    /\ UNCHANGED <<storeVars, queueVars, records>>

CrashApi ==
    /\ "api" \in Crashable
    /\ \E h \in Handlers : pc[h] # "idle"
    /\ pc'       = [p \in Processes |-> IF p \in Handlers THEN "idle" ELSE pc[p]]
    /\ task'     = [p \in Processes |-> IF p \in Handlers THEN NoTask ELSE task[p]]
    /\ payload'  = [p \in Processes |-> IF p \in Handlers THEN NoPayload
                                                          ELSE payload[p]]
    /\ result'   = [p \in Processes |-> IF p \in Handlers THEN NoResult
                                                          ELSE result[p]]
    /\ put'      = [p \in Processes |-> IF p \in Handlers THEN "absent" ELSE put[p]]
    /\ then'     = [p \in Processes |-> IF p \in Handlers THEN "idle" ELSE then[p]]
    /\ decision' = [h \in Handlers |-> "none"]
    /\ UNCHANGED <<storeVars, queueVars, records, restarts>>

-----------------------------------------------------------------------------
(* The steps of a process once its request or job has begun.                *)
Shared(p) ==
    \/ StatusFile(p)
    \/ StatusRow(p)
    \/ \E kind \in Kinds : Record(p, kind) \/ RecordRaises(p, kind)
    \/ SaveResult(p)
    \/ SaveTrace(p)

HandlerStep(h) ==
    \/ Shared(h)
    \/ CreateTaskRow(h) \/ EnqueueTask(h)
    \/ LoadFails(h) \/ Approve(h) \/ RefuseRevision(h) \/ Revise(h)
    \/ Archive(h) \/ UpdateRequest(h) \/ UpdateRequestRow(h)

WorkerStep(w) ==
    \/ Shared(w)
    \/ Validate(w) \/ Execute(w) \/ ExecuteRaises(w)
    \/ Report(w) \/ FinishJob(w)

Request(h) ==
    \E t \in Tasks :
       \/ CreateTask(h, t)
       \/ CancelTask(h, t)
       \/ \E d \in Decisions : BeginReview(h, t, d)

Poll(w) == StartWorker(w) \/ \E t \in Tasks : ClaimJob(w, t)

Next ==
    \/ \E h \in Handlers : Request(h) \/ HandlerStep(h)
    \/ \E w \in Workers : Poll(w) \/ WorkerStep(w) \/ CrashWorker(w)
    \/ \E t \in Tasks : Elapse(t)
    \/ CrashApi

Spec == Init /\ [][Next]_vars

(* A thread serving a request runs on and so does a worker; systemd starts  *)
(* a worker again.  Users owe nothing: no fairness of Request.              *)
FairSpec ==
    /\ Spec
    /\ \A h \in Handlers : WF_vars(HandlerStep(h))
    /\ \A w \in Workers : WF_vars(Poll(w)) /\ WF_vars(WorkerStep(w))
    /\ \A t \in Tasks : WF_vars(Elapse(t))

-----------------------------------------------------------------------------
(* A process owns a task while it is going to write its status file next    *)
(* among its steps that matter, or to put it in the queue.                  *)
Owns(p, t) ==
    /\ task[p] = t
    /\ \/ pc[p] \in {"create_row", "status_file", "enqueue", "load", "archive",
                     "request_file", "request_row", "validate", "execute",
                     "provenance", "memory", "experience", "save"}
       \/ pc[p] = "status_row" /\ then[p] \in {"enqueue", "load", "execute"}

(* What the design relies on: jobs end within WORKER_STALE_SECONDS, and     *)
(* either no worker was killed or the task cannot be at a reviewer while    *)
(* its job is executed again.                                               *)
Undisturbed(t) == ~Overrun /\ (restarts = 0 \/ t \notin ReviewRequired)

(* Handing a task from request thread to queue to worker to reviewer never  *)
(* gives it to two of them: at most one process owns it, and while one does *)
(* no worker can claim it, and no reviewer can open it but one who is       *)
(* already inside the lock.                                                 *)
OneOwner ==
    \A t \in Tasks, p \in Processes :
       Undisturbed(t) /\ Owns(p, t) =>
         /\ \A q \in Processes : Owns(q, t) => q = p
         /\ job[t].state # "queued"
         /\ statusFile[t] = "waiting_for_review" => HoldsReviewLock(p)

(* A task that asks for human review and shows as completed with assets was *)
(* approved, in the round of the result that is served (executor.review,    *)
(* the review_required branch of _execute).                                 *)
ReviewGate ==
    \A t \in ReviewRequired :
       /\ Undisturbed(t)
       /\ statusFile[t] = "completed"
       /\ resultFile[t].assets
       =>
       LET h == resultFile[t].history IN
       /\ resultFile[t].status = "completed"
       /\ h # <<>>
       /\ h[Len(h)] = [round |-> resultFile[t].round, decision |-> "approve"]

(* The review history of a result tells one revision for each round since   *)
(* the one the client submitted, in order, and the result of every such     *)
(* round was archived under its own number, although request.json,          *)
(* result.json, the archives and the queue's payload carry the round        *)
(* independently of each other.                                             *)
HistoryMatchesRounds ==
    \A t \in Tasks :
       Undisturbed(t) =>
         LET h == resultFile[t].history
             first == submitted[t]
             revisions == resultFile[t].round - first
         IN
         /\ resultFile[t] # NoResult =>
              /\ revisions >= 0
              /\ Len(h) \in {revisions, revisions + 1}
              /\ \A i \in 1..revisions :
                   h[i] = [round |-> first + i - 1, decision |-> "revise"]
              /\ resultFile[t].round <= requestFile[t]
         /\ \A i \in first..(requestFile[t] - 1) :
              archived[t][i].round = i /\ archived[t][i].status = "waiting_for_review"

(* Case memory, experience and provenance receive a task at most once, and  *)
(* nothing of it while its preview awaits review (the test                  *)
(* test_review_approval_delays_memory_writeback).                           *)
RecordedOnce ==
    ~Overrun /\ restarts = 0 =>
      \A t \in Tasks, k \in Kinds :
         /\ records[t][k] <= 1
         /\ statusFile[t] = "waiting_for_review" => records[t][k] = 0

(* Killing processes loses no unreviewed task that entered the queue:       *)
(* until its status is terminal its row is queued, or running and so within *)
(* the reach of recover_running, or an unfinished cancellation holds it.    *)
NothingLost ==
    \A t \in Tasks \ ReviewRequired :
       job[t].state \in {"completed", "failed"} => statusFile[t] \in Terminal

(* status.json and the row that lists show are written one after the other, *)
(* by processes that may be killed in between; still, once the job of an    *)
(* unreviewed task has ended they agree, for whoever executes it again      *)
(* writes both (TaskStore.set_status, worker.run).                          *)
RowFollowsFile ==
    \A t \in Tasks \ ReviewRequired :
       job[t].state \in {"completed", "failed"} => metaStatus[t] = statusFile[t]

(* A task that reached a terminal status stays there: no late write of a    *)
(* worker, reviewer or canceller reopens it.                                *)
TerminalIsFinal ==
    [][~Overrun /\ restarts = 0 =>
         \A t \in Tasks : statusFile[t] \in Terminal =>
                            statusFile'[t] = statusFile[t]]_vars

(* Each task goes through the phases the API promises.  A revision counts   *)
(* from the moment request.json holds its round.                            *)
Promised == INSTANCE TaskPromise WITH
    phase <- [t \in Tasks |->
                IF statusFile[t] = "review_processing"
                   /\ requestFile[t] > resultFile[t].round
                THEN "amended" ELSE statusFile[t]],
    round <- requestFile

(* What the API shows of a task moves as TaskPromise allows.                *)
KeepsPromise == Promised!Spec

(* A newly submitted task is eventually taken up and ends, waits for its    *)
(* reviewer or is cancelled, although a revision of an older task goes      *)
(* ahead of it.  (For revisions themselves see QueuedTaskHasJob.)           *)
Settles ==
    \A t \in Tasks :
       statusFile[t] = "created" ~>
         statusFile[t] \in Terminal \cup {"waiting_for_review"}

-----------------------------------------------------------------------------
(* The inductive invariant behind OneOwner (TaskLifecycle_proofs).          *)

WorkerLabels == {"down", "idle", "status_file", "status_row", "validate",
                 "execute", "provenance", "memory", "experience", "save", "trace",
                 "report", "finish"}

HandlerLabels == {"idle", "create_row", "status_file", "status_row", "enqueue",
                  "load", "archive", "request_file", "request_row", "provenance",
                  "memory", "experience", "save", "trace"}

Outcomes == Terminal \cup {"waiting_for_review"}

(* The calls of set_status, each with the place it returns to.              *)
CallsSetStatus(p) ==
    \/ p \in Handlers /\ then[p] = "enqueue" /\ put[p] = "queued"
    \/ p \in Handlers /\ then[p] = "load" /\ put[p] = "review_processing"
    \/ p \in Handlers /\ then[p] = "idle"
                      /\ put[p] \in {"cancelled", "waiting_for_review"}
    \/ p \in Workers /\ then[p] = "execute" /\ put[p] = "running"
    \/ p \in Workers /\ then[p] = "report" /\ put[p] = "failed"
    \/ then[p] = "trace" /\ put[p] \in Outcomes

(* What the program counter of a process says about its locals.             *)
ControlAt(p) ==
    /\ p \in Workers => pc[p] \in WorkerLabels
    /\ p \in Handlers => pc[p] \in HandlerLabels
    /\ pc[p] \in {"idle", "down"} <=> task[p] = NoTask
    /\ task[p] = NoTask => then[p] = "idle" /\ result[p].status = "none"
    /\ pc[p] \in {"provenance", "memory", "experience", "save"} =>
         result[p].status \in Outcomes
    /\ pc[p] = "finish" => put[p] \in {"completed", "failed"}
    /\ pc[p] \in {"status_file", "status_row"} => CallsSetStatus(p)

ControlOK == \A p \in Processes : ControlAt(p)

(* A task that needs no review never gets near one.                         *)
AwayFromReview(p) ==
    /\ pc[p] # "load" /\ then[p] # "load"
    /\ result[p].status # "waiting_for_review"
    /\ pc[p] = "status_file" => put[p] # "waiting_for_review"

Unreviewed ==
    \A t \in Tasks \ ReviewRequired :
       /\ statusFile[t] # "waiting_for_review"
       /\ \A p \in Processes : task[p] = t => AwayFromReview(p)

(* An absent task is nobody's; while no worker was killed, a running job    *)
(* has a worker and so does not grow stale.                                 *)
JobsHeld ==
    \A t \in Tasks :
       /\ statusFile[t] = "absent" =>
            job[t].state = "absent" /\ \A p \in Processes : task[p] # t
       /\ ~Overrun /\ restarts = 0 /\ job[t].state = "running" =>
            ~job[t].stale /\ \E w \in Workers : task[w] = t

Ownership ==
    \A t \in Tasks :
       Undisturbed(t) =>
         /\ job[t].state = "queued" => statusFile[t] # "waiting_for_review"
         /\ \A p \in Processes :
              Owns(p, t) =>
                /\ \A q \in Processes : Owns(q, t) => q = p
                /\ job[t].state # "queued"
                /\ ~(job[t].state = "running" /\ job[t].stale)
                /\ p \in Handlers /\ t \notin ReviewRequired =>
                     job[t].state # "running"
                /\ statusFile[t] = "waiting_for_review" =>
                     pc[p] = "status_file" /\ then[p] = "load"

IInv == TypeOK /\ ControlOK /\ Unreviewed /\ JobsHeld /\ Ownership

-----------------------------------------------------------------------------
(* Claims of the documentation that the code does not meet.                 *)

(* The queue is durable: a task shown as queued, whose submission is        *)
(* complete, has a job that a worker can claim.                             *)
QueuedTaskHasJob ==
    \A t \in Tasks :
       statusFile[t] = "queued" /\ (\A p \in Processes : ~Owns(p, t)) =>
         job[t].state = "queued"
=============================================================================
