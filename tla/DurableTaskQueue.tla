-------------------------- MODULE DurableTaskQueue --------------------------
(***************************************************************************)
(* task_queue.py: the task_jobs table of the SQLite queue shared by the    *)
(* API process and the GPU workers.  There is one row per task; every      *)
(* operation is one transaction, so one action.  A row that is enqueued    *)
(* again keeps its job_id, so a revision goes ahead of every task first    *)
(* submitted after it.  The time of the claim is abstracted to "older than *)
(* WORKER_STALE_SECONDS or not".  attempts and the other timestamps are    *)
(* never read by the program.                                              *)
(***************************************************************************)
EXTENDS TaskStore

CONSTANTS Workers

VARIABLES
    job,      \* [Tasks -> row]
    nextJob   \* AUTOINCREMENT: the job_id of the next new row

queueVars == <<job, nextJob>>

JobStates == {"absent", "queued", "running", "completed", "failed", "cancelled"}

(* The payload column: the request, known by its round, and review_history. *)
Payloads == [round : Rounds, history : Seq(ReviewRecords)]
NoPayload == [round |-> 0, history |-> <<>>]

NoWorker == "none"
ASSUME NoWorkerAssumption == NoWorker \notin Workers

NoJob == [state |-> "absent", id |-> 0, payload |-> NoPayload,
          worker |-> NoWorker, stale |-> FALSE]

Jobs == [state : JobStates, id : Nat, payload : Payloads,
         worker : Workers \cup {NoWorker}, stale : BOOLEAN]

QueueTypeOK ==
    /\ job \in [Tasks -> Jobs]
    /\ nextJob \in Nat

QueueInit ==
    /\ job = [t \in Tasks |-> NoJob]
    /\ nextJob = 1

-----------------------------------------------------------------------------
(* enqueue: INSERT, or on the task's existing row UPDATE.                   *)
Enqueue(t, payload) ==
    LET fresh == job[t].state = "absent"
    IN  /\ job' = [job EXCEPT ![t] =
                     [state |-> "queued", payload |-> payload,
                      id |-> IF fresh THEN nextJob ELSE job[t].id,
                      worker |-> NoWorker, stale |-> FALSE]]
        /\ nextJob' = IF fresh THEN nextJob + 1 ELSE nextJob

Queued == {t \in Tasks : job[t].state = "queued"}

(* claim: the queued row with the smallest job_id.                          *)
Claim(w, t) ==
    /\ t \in Queued
    /\ \A u \in Queued : job[t].id <= job[u].id
    /\ job' = [job EXCEPT ![t] = [@ EXCEPT !.state = "running", !.worker = w,
                                          !.stale = FALSE]]
    /\ UNCHANGED nextJob

(* finish: by task id alone, whatever state and worker the row has.         *)
Finish(t, state) ==
    /\ job' = [job EXCEPT ![t].state = state]
    /\ UNCHANGED nextJob

(* Slip: a job may be cancelled in any state.                               *)
CancelAnyJob(t) ==
    /\ job[t].state # "absent"
    /\ job' = [job EXCEPT ![t].state = "cancelled"]
    /\ UNCHANGED nextJob

(* cancel: only a row still queued.                                         *)
CancelJob(t) ==
    /\ job[t].state = "queued"
    /\ job' = [job EXCEPT ![t].state = "cancelled"]
    /\ UNCHANGED nextJob

(* Slip: give the old rows up as failed.                                   *)
RecoverAsFailed ==
    /\ job' = [t \in Tasks |->
                 IF job[t].state = "running" /\ job[t].stale
                 THEN [job[t] EXCEPT !.state = "failed"]
                 ELSE job[t]]
    /\ UNCHANGED nextJob

(* recover_running: every running row claimed before the cutoff.            *)
RecoverRunning ==
    /\ job' = [t \in Tasks |->
                 IF job[t].state = "running" /\ job[t].stale
                 THEN [job[t] EXCEPT !.state = "queued", !.worker = NoWorker,
                                     !.stale = FALSE]
                 ELSE job[t]]
    /\ UNCHANGED nextJob

(* The passing of WORKER_STALE_SECONDS since a row was claimed.             *)
BecomeStale(t) ==
    /\ job[t].state = "running"
    /\ ~job[t].stale
    /\ job' = [job EXCEPT ![t].stale = TRUE]
    /\ UNCHANGED nextJob
=============================================================================
