------------------------ MODULE TaskLifecycle_proofs ------------------------
(***************************************************************************)
(* TLAPS proofs about TaskLifecycle for any sets of tasks, workers and     *)
(* handlers and any bound on rounds and restarts.                          *)
(***************************************************************************)
EXTENDS TaskLifecycle, TLAPS

-----------------------------------------------------------------------------
(* Types.  Each write of the store, operation of the queue and move of a    *)
(* program counter keeps its own variables typed.                           *)

LEMMA ConstantTypes ==
    /\ {"created", "queued", "running", "waiting_for_review", "review_processing",
        "cancelled", "failed", "completed", "absent"} \subseteq Statuses
    /\ Outcomes \subseteq Statuses
    /\ 0 \in Rounds
    /\ NoResult \in Results
    /\ NoPayload \in Payloads
    /\ NoJob \in Jobs
BY TaskStoreAssumption
   DEF Statuses, Terminal, Outcomes, Rounds, NoResult, Results, NoPayload, Payloads,
       NoJob, Jobs, JobStates

(* A revision leads to a round that can be written down.                    *)
LEMMA RoundFacts ==
    /\ Rounds \subseteq Nat
    /\ MaxReviewRounds \in Nat
    /\ \A k \in Rounds : k < MaxReviewRounds => k + 1 \in Rounds
<1>1. Rounds \subseteq Nat /\ MaxReviewRounds \in Nat
  BY TaskStoreAssumption DEF Rounds
<1>2. ASSUME NEW k \in Rounds, k < MaxReviewRounds
      PROVE  k + 1 \in 0..MaxReviewRounds
  BY <1>1, <1>2
<1> QED
  BY <1>1, <1>2 DEF Rounds

LEMMA StoreTypes ==
    ASSUME StoreTypeOK, NEW t, NEW s \in Statuses, NEW r \in Rounds,
           NEW res \in Results,
           \/ CreateFiles(t, r) \/ CreateRow(t, r)
           \/ WriteStatusFile(t, s) \/ WriteStatusRow(t, s)
           \/ WriteResult(t, res) \/ WriteTrace(t, r)
           \/ WriteRequest(t, r) \/ WriteRequestRow(t, r)
           \/ UNCHANGED storeVars
    PROVE  StoreTypeOK'
<1> USE DEF StoreTypeOK
<1>0. "created" \in Statuses
  BY ConstantTypes
<1>1. CASE CreateFiles(t, r)
  <2>1. /\ statusFile' \in [Tasks -> Statuses]
        /\ requestFile' \in [Tasks -> Rounds] /\ submitted' \in [Tasks -> Rounds]
    BY <1>0, <1>1 DEF CreateFiles
  <2> QED
    BY <1>1, <2>1 DEF CreateFiles
<1>6. CASE CreateRow(t, r)
  BY <1>0, <1>6 DEF CreateRow
<1>2. CASE WriteStatusFile(t, s) \/ WriteStatusRow(t, s)
  BY <1>2 DEF WriteStatusFile, WriteStatusRow
<1>3. CASE WriteResult(t, res) \/ WriteTrace(t, r)
  BY <1>3 DEF WriteResult, WriteTrace
<1>4. CASE WriteRequest(t, r) \/ WriteRequestRow(t, r)
  BY <1>4 DEF WriteRequest, WriteRequestRow
<1>5. CASE UNCHANGED storeVars
  BY <1>5 DEF storeVars
<1> QED
  BY <1>1, <1>2, <1>3, <1>4, <1>5, <1>6

LEMMA ArchiveTypes ==
    ASSUME StoreTypeOK, NEW t \in Tasks, NEW r, ArchiveResult(t, r)
    PROVE  StoreTypeOK'
BY DEF StoreTypeOK, ArchiveResult

LEMMA QueueTypes ==
    ASSUME QueueTypeOK, NEW t \in Tasks, NEW w \in Workers, NEW pl \in Payloads,
           NEW s \in {"completed", "failed"},
           \/ Enqueue(t, pl) \/ Claim(w, t) \/ Finish(t, s) \/ CancelJob(t)
           \/ RecoverRunning \/ BecomeStale(t) \/ UNCHANGED queueVars
    PROVE  QueueTypeOK'
<1> USE DEF QueueTypeOK, Jobs, JobStates
<1>1. CASE Enqueue(t, pl)
  BY <1>1 DEF Enqueue
<1>2. CASE Claim(w, t)
  <2> DEFINE row == [job[t] EXCEPT !.state = "running", !.worker = w,
                                   !.stale = FALSE]
  <2>1. row \in Jobs
    OBVIOUS
  <2>2. job' = [job EXCEPT ![t] = row] /\ UNCHANGED nextJob
    BY <1>2 DEF Claim
  <2> QED
    BY <2>1, <2>2
<1>3. CASE Finish(t, s)
  BY <1>3 DEF Finish
<1>4. CASE CancelJob(t)
  BY <1>4 DEF CancelJob
<1>5. CASE RecoverRunning
  BY <1>5 DEF RecoverRunning
<1>6. CASE BecomeStale(t)
  BY <1>6 DEF BecomeStale
<1>7. CASE UNCHANGED queueVars
  BY <1>7 DEF queueVars
<1> QED
  BY <1>1, <1>2, <1>3, <1>4, <1>5, <1>6, <1>7

LEMMA GotoTypes ==
    ASSUME LocalTypeOK, NEW p \in Processes, NEW l \in Labels, Goto(p, l)
    PROVE  LocalTypeOK'
BY DEF LocalTypeOK, Goto

LEMMA ReturnTypes ==
    ASSUME LocalTypeOK, NEW p \in Processes, NEW l \in Labels, Return(p, l)
    PROVE  LocalTypeOK'
BY ConstantTypes DEF LocalTypeOK, Return, Labels

LEMMA SetStatusTypes ==
    ASSUME LocalTypeOK, NEW p \in Processes, NEW l \in Labels, NEW s \in Statuses,
           SetStatus(p, s, l), UNCHANGED <<task, payload, result, decision>>
    PROVE  LocalTypeOK'
BY DEF LocalTypeOK, SetStatus, Labels

(* What IInv gives for a step of one process.                               *)
LEMMA ActiveTask ==
    ASSUME ControlOK, NEW p \in Processes, pc[p] \notin {"idle", "down"},
           LocalTypeOK
    PROVE  task[p] \in Tasks
BY DEF ControlOK, ControlAt, LocalTypeOK

LEMMA ContinueTypes ==
    ASSUME LocalTypeOK, NEW p \in Processes, NEW l \in Labels, Continue(p, l)
    PROVE  LocalTypeOK'
BY GotoTypes, ReturnTypes DEF Continue, Labels

LEMMA RaiseTypes ==
    ASSUME LocalTypeOK, NEW p \in Processes, Raise(p)
    PROVE  LocalTypeOK'
BY SetStatusTypes, ReturnTypes, ConstantTypes DEF Raise, Labels

LEMMA HistoryTypes ==
    ASSUME StoreTypeOK, NEW t \in Tasks, NEW d \in {"approve", "revise"}
    PROVE  /\ ReviewHistory(t, d) \in Seq(ReviewRecords)
           /\ [resultFile[t] EXCEPT !.status = "completed",
                                    !.history = ReviewHistory(t, d)] \in Results
<1>1. resultFile[t] \in Results /\ requestFile[t] \in Rounds
  BY DEF StoreTypeOK
<1>2. resultFile[t].history \in Seq(ReviewRecords)
  BY <1>1 DEF Results
<1>3. [round |-> requestFile[t], decision |-> d] \in ReviewRecords
  BY <1>1 DEF ReviewRecords
<1>4. ReviewHistory(t, d) \in Seq(ReviewRecords)
  BY <1>2, <1>3 DEF ReviewHistory
<1> QED
  BY <1>1, <1>4, ConstantTypes DEF Results

LEMMA TypeStep ==
    ASSUME TypeOK, ControlOK, [Next]_vars
    PROVE  TypeOK'
<1> USE DEF Labels, Processes
<1>a. StoreTypeOK /\ QueueTypeOK /\ LocalTypeOK
  BY DEF TypeOK
<1>b. /\ records \in [Tasks -> [Kinds -> Nat]]
      /\ restarts \in 0..MaxRestarts
      /\ MaxRestarts \in Nat
  BY TaskLifecycleAssumption DEF TypeOK
<1>1. ASSUME NEW p \in Processes, StatusFile(p)
      PROVE  TypeOK'
  <2>1. task[p] \in Tasks /\ put[p] \in Statuses
    BY <1>1, <1>a, ActiveTask DEF StatusFile, LocalTypeOK
  <2>2. StoreTypeOK' /\ LocalTypeOK'
    BY <1>1, <1>a, <2>1, StoreTypes, GotoTypes, ConstantTypes DEF StatusFile
  <2> QED
    BY <1>1, <1>a, <1>b, <2>2 DEF StatusFile, TypeOK, queueVars, QueueTypeOK
<1>2. ASSUME NEW p \in Processes, StatusRow(p)
      PROVE  TypeOK'
  <2>1. put[p] \in Statuses /\ then[p] \in Labels
    BY <1>a DEF LocalTypeOK
  <2>2. StoreTypeOK' /\ LocalTypeOK'
    BY <1>2, <1>a, <2>1, StoreTypes, ContinueTypes, ConstantTypes DEF StatusRow
  <2> QED
    BY <1>2, <1>a, <1>b, <2>2 DEF StatusRow, TypeOK, queueVars, QueueTypeOK
<1>3. ASSUME NEW p \in Processes, NEW kind \in Kinds,
             Record(p, kind) \/ RecordRaises(p, kind)
      PROVE  TypeOK'
  <2>1. LocalTypeOK'
    <3>1. NextPhase(kind) \in Labels
      BY DEF NextPhase, Kinds
    <3>2. CASE Record(p, kind)
      BY <3>1, <3>2, <1>a, GotoTypes DEF Record
    <3>3. CASE RecordRaises(p, kind)
      BY <3>3, <1>a, RaiseTypes DEF RecordRaises
    <3> QED
      BY <1>3, <3>2, <3>3
  <2>2. records' \in [Tasks -> [Kinds -> Nat]]
    <3>1. ASSUME records' = [records EXCEPT ![task[p]][kind] = @ + 1]
          PROVE  records' \in [Tasks -> [Kinds -> Nat]]
      <4> DEFINE row == [records[task[p]] EXCEPT ![kind] = @ + 1]
      <4>1. task[p] \in Tasks
        BY <1>3, <1>a, ActiveTask DEF Record, RecordRaises, Kinds
      <4>2. row \in [Kinds -> Nat]
        BY <4>1, <1>b
      <4> QED
        BY <3>1, <4>2, <1>b
    <3> QED
      BY <1>3, <1>b, <3>1 DEF Record, RecordRaises
  <2> QED
    BY <1>3, <1>a, <1>b, <2>1, <2>2
       DEF Record, RecordRaises, TypeOK, queueVars, QueueTypeOK, storeVars,
           StoreTypeOK
<1>4. ASSUME NEW p \in Processes, SaveResult(p) \/ SaveTrace(p)
      PROVE  TypeOK'
  <2>1. result[p] \in Results /\ result[p].round \in Rounds
    BY <1>a DEF LocalTypeOK, Results
  <2>2. CASE SaveResult(p)
    <3>1. result[p].status \in Statuses
      BY <2>2, ConstantTypes DEF SaveResult, ControlOK, ControlAt
    <3>2. StoreTypeOK' /\ LocalTypeOK'
      BY <2>1, <2>2, <3>1, <1>a, StoreTypes, SetStatusTypes, ConstantTypes
         DEF SaveResult
    <3> QED
      BY <2>2, <1>a, <1>b, <3>2 DEF SaveResult, TypeOK, queueVars, QueueTypeOK
  <2>3. CASE SaveTrace(p)
    <3>1. StoreTypeOK' /\ LocalTypeOK'
      BY <2>1, <2>3, <1>a, StoreTypes, GotoTypes, ReturnTypes, ConstantTypes
         DEF SaveTrace
    <3> QED
      BY <2>3, <1>a, <1>b, <3>1 DEF SaveTrace, TypeOK, queueVars, QueueTypeOK
  <2> QED
    BY <1>4, <2>2, <2>3
<1>5. ASSUME NEW h \in Handlers, NEW t \in Tasks, CreateTask(h, t)
      PROVE  TypeOK'
  <2>0. PICK r \in FirstRounds :
          /\ CreateFiles(t, r)
          /\ pc' = [pc EXCEPT ![h] = "create_row"]
          /\ task' = [task EXCEPT ![h] = t]
          /\ payload' = [payload EXCEPT ![h] = [round |-> r, history |-> <<>>]]
          /\ UNCHANGED <<result, put, then, decision>>
    BY <1>5 DEF CreateTask
  <2>a. r \in Rounds /\ [round |-> r, history |-> <<>>] \in Payloads
    BY DEF Rounds, Payloads
  <2>1. StoreTypeOK'
    BY <2>0, <2>a, <1>a, StoreTypes, ConstantTypes
  <2>2. LocalTypeOK'
    BY <2>0, <2>a, <1>a DEF LocalTypeOK
  <2> QED
    BY <1>5, <1>a, <1>b, <2>1, <2>2 DEF CreateTask, TypeOK, queueVars, QueueTypeOK
<1>6. ASSUME NEW h \in Handlers, CreateTaskRow(h)
      PROVE  TypeOK'
  <2>a. task[h] \in Tasks /\ payload[h].round \in Rounds
    BY <1>6, <1>a, ActiveTask DEF CreateTaskRow, LocalTypeOK, Payloads
  <2>1. StoreTypeOK' /\ LocalTypeOK'
    BY <1>6, <1>a, <2>a, StoreTypes, SetStatusTypes, ConstantTypes DEF CreateTaskRow
  <2> QED
    BY <1>6, <1>a, <1>b, <2>1 DEF CreateTaskRow, TypeOK, queueVars, QueueTypeOK
<1>7. ASSUME NEW h \in Handlers, EnqueueTask(h)
      PROVE  TypeOK'
  <2>1. task[h] \in Tasks /\ payload[h] \in Payloads
    BY <1>7, <1>a, ActiveTask DEF EnqueueTask, LocalTypeOK
  <2>2. QueueTypeOK'
    BY <1>7, <1>a, <2>1 DEF EnqueueTask, Enqueue, QueueTypeOK, Jobs, JobStates
  <2>3. LocalTypeOK'
    BY <1>7, <1>a, ReturnTypes DEF EnqueueTask
  <2> QED
    BY <1>7, <1>a, <1>b, <2>2, <2>3 DEF EnqueueTask, TypeOK, storeVars, StoreTypeOK
<1>8. ASSUME NEW h \in Handlers, NEW t \in Tasks, CancelTask(h, t)
      PROVE  TypeOK'
  <2>1. QueueTypeOK'
    BY <1>8, <1>a DEF CancelTask, CancelJob, QueueTypeOK, Jobs, JobStates
  <2>2. LocalTypeOK'
    BY <1>8, <1>a, ConstantTypes DEF CancelTask, LocalTypeOK, SetStatus
  <2> QED
    BY <1>8, <1>a, <1>b, <2>1, <2>2 DEF CancelTask, TypeOK, storeVars, StoreTypeOK
<1>9. ASSUME NEW h \in Handlers, NEW t \in Tasks, NEW d \in Decisions,
             BeginReview(h, t, d)
      PROVE  TypeOK'
  <2>1. LocalTypeOK'
    BY <1>9, <1>a, ConstantTypes DEF BeginReview, LocalTypeOK, SetStatus
  <2> QED
    BY <1>9, <1>a, <1>b, <2>1
       DEF BeginReview, TypeOK, storeVars, StoreTypeOK, queueVars, QueueTypeOK
<1>10. ASSUME NEW h \in Handlers,
              LoadFails(h) \/ Approve(h) \/ RefuseRevision(h) \/ Revise(h)
       PROVE  TypeOK'
  <2>0. pc[h] = "load" /\ task[h] \in Tasks
    BY <1>10, <1>a, ActiveTask DEF LoadFails, Approve, RefuseRevision, Revise
  <2>1. CASE LoadFails(h)
    <3>1. LocalTypeOK'
      BY <2>1, <1>a, ReturnTypes DEF LoadFails
    <3> QED
      BY <2>1, <3>1, <1>a, <1>b
         DEF LoadFails, TypeOK, storeVars, StoreTypeOK, queueVars, QueueTypeOK
  <2>2. CASE Approve(h)
    <3> DEFINE final == [resultFile[task[h]] EXCEPT
                           !.status = "completed",
                           !.history = ReviewHistory(task[h], "approve")]
    <3>1. final \in Results
      BY <2>0, <1>a, HistoryTypes
    <3>2. /\ result' = [result EXCEPT ![h] = final]
          /\ pc' = [pc EXCEPT ![h] = "provenance"]
          /\ then' = [then EXCEPT ![h] = "idle"]
          /\ UNCHANGED <<task, payload, put, decision>>
      BY <2>2 DEF Approve
    <3> HIDE DEF final
    <3>3. LocalTypeOK'
      BY <3>1, <3>2, <1>a DEF LocalTypeOK
    <3> QED
      BY <2>2, <3>3, <1>a, <1>b
         DEF Approve, TypeOK, storeVars, StoreTypeOK, queueVars, QueueTypeOK
  <2>3. CASE RefuseRevision(h)
    <3>1. LocalTypeOK'
      BY <2>3, <1>a, SetStatusTypes, ConstantTypes DEF RefuseRevision
    <3> QED
      BY <2>3, <3>1, <1>a, <1>b
         DEF RefuseRevision, TypeOK, storeVars, StoreTypeOK, queueVars, QueueTypeOK
  <2>4. CASE Revise(h)
    <3>1. [round |-> requestFile[task[h]] + 1,
           history |-> ReviewHistory(task[h], "revise")] \in Payloads
      <4>1. requestFile[task[h]] + 1 \in Rounds
        BY <2>0, <2>4, <1>a, RoundFacts DEF Revise, StoreTypeOK
      <4>2. ReviewHistory(task[h], "revise") \in Seq(ReviewRecords)
        BY <2>0, <1>a, HistoryTypes
      <4> QED
        BY <4>1, <4>2 DEF Payloads
    <3>2. LocalTypeOK'
      BY <2>4, <3>1, <1>a DEF Revise, LocalTypeOK
    <3> QED
      BY <2>4, <3>2, <1>a, <1>b
         DEF Revise, TypeOK, storeVars, StoreTypeOK, queueVars, QueueTypeOK
  <2> QED
    BY <1>10, <2>1, <2>2, <2>3, <2>4
<1>11. ASSUME NEW h \in Handlers, Archive(h)
       PROVE  TypeOK'
  <2>1. task[h] \in Tasks
    BY <1>11, <1>a, ActiveTask DEF Archive
  <2>2. StoreTypeOK'
    BY <1>11, <2>1, <1>a, ArchiveTypes DEF Archive, storeVars, StoreTypeOK
  <2>3. LocalTypeOK'
    BY <1>11, <1>a, GotoTypes, ReturnTypes DEF Archive
  <2> QED
    BY <1>11, <1>a, <1>b, <2>2, <2>3 DEF Archive, TypeOK, queueVars, QueueTypeOK
<1>12. ASSUME NEW h \in Handlers, UpdateRequest(h) \/ UpdateRequestRow(h)
       PROVE  TypeOK'
  <2>1. payload[h].round \in Rounds
    BY <1>a DEF LocalTypeOK, Payloads
  <2>2. StoreTypeOK'
    BY <1>12, <2>1, <1>a, StoreTypes, ConstantTypes
       DEF UpdateRequest, UpdateRequestRow
  <2>3. LocalTypeOK'
    BY <1>12, <1>a, GotoTypes, SetStatusTypes, ConstantTypes
       DEF UpdateRequest, UpdateRequestRow
  <2> QED
    BY <1>12, <1>a, <1>b, <2>2, <2>3
       DEF UpdateRequest, UpdateRequestRow, TypeOK, queueVars, QueueTypeOK
<1>13. ASSUME NEW w \in Workers, StartWorker(w)
       PROVE  TypeOK'
  <2>1. QueueTypeOK'
    BY <1>13, <1>a DEF StartWorker, RecoverRunning, QueueTypeOK, Jobs, JobStates
  <2>2. LocalTypeOK'
    BY <1>13, <1>a, GotoTypes DEF StartWorker
  <2> QED
    BY <1>13, <1>a, <1>b, <2>1, <2>2 DEF StartWorker, TypeOK, storeVars, StoreTypeOK
<1>14. ASSUME NEW w \in Workers, NEW t \in Tasks, ClaimJob(w, t)
       PROVE  TypeOK'
  <2>1. QueueTypeOK'
    BY <1>14, <1>a, QueueTypes, ConstantTypes DEF ClaimJob
  <2>2. job[t].payload \in Payloads
    BY <1>a DEF QueueTypeOK, Jobs
  <2>3. LocalTypeOK'
    BY <1>14, <2>2, <1>a DEF ClaimJob, LocalTypeOK
  <2> QED
    BY <1>14, <1>a, <1>b, <2>1, <2>3 DEF ClaimJob, TypeOK, storeVars, StoreTypeOK
<1>15. ASSUME NEW w \in Workers,
              Validate(w) \/ ExecuteRaises(w) \/ Report(w)
       PROVE  TypeOK'
  <2>1. CASE Validate(w)
    <3>1. LocalTypeOK'
      BY <2>1, <1>a, ConstantTypes DEF Validate, LocalTypeOK, SetStatus
    <3> QED
      BY <2>1, <3>1, <1>a, <1>b
         DEF Validate, TypeOK, storeVars, StoreTypeOK, queueVars, QueueTypeOK
  <2>2. CASE ExecuteRaises(w)
    <3>1. LocalTypeOK'
      BY <2>2, <1>a, RaiseTypes DEF ExecuteRaises
    <3> QED
      BY <2>2, <3>1, <1>a, <1>b
         DEF ExecuteRaises, TypeOK, storeVars, StoreTypeOK, queueVars, QueueTypeOK
  <2>3. CASE Report(w)
    <3>1. LocalTypeOK'
      BY <2>3, <1>a, ConstantTypes DEF Report, LocalTypeOK
    <3> QED
      BY <2>3, <3>1, <1>a, <1>b
         DEF Report, TypeOK, storeVars, StoreTypeOK, queueVars, QueueTypeOK
  <2> QED
    BY <1>15, <2>1, <2>2, <2>3
<1>16. ASSUME NEW w \in Workers, Execute(w)
       PROVE  TypeOK'
  <2>1. PICK status \in EngineStatuses, assets \in BOOLEAN :
          LET review == task[w] \in ReviewRequired /\ assets IN
          /\ result' = [result EXCEPT ![w] =
               [status  |-> IF review THEN "waiting_for_review" ELSE status,
                round   |-> payload[w].round,
                history |-> payload[w].history,
                assets  |-> assets]]
          /\ pc' = [pc EXCEPT ![w] = IF review THEN "save" ELSE "provenance"]
          /\ UNCHANGED <<task, payload, put, then, decision, storeVars, queueVars,
                         records, restarts>>
    BY <1>16 DEF Execute
  <2>2. payload[w].round \in Rounds /\ payload[w].history \in Seq(ReviewRecords)
    BY <1>a DEF LocalTypeOK, Payloads
  <2>3. status \in Statuses
    BY DEF Statuses, Terminal
  <2>4. \A s \in Statuses :
          [status |-> s, round |-> payload[w].round,
           history |-> payload[w].history, assets |-> assets] \in Results
    BY <2>2 DEF Results
  <2>5. LocalTypeOK'
    BY <2>1, <2>3, <2>4, <1>a, ConstantTypes DEF LocalTypeOK
  <2> QED
    BY <2>1, <2>5, <1>a, <1>b
       DEF TypeOK, storeVars, StoreTypeOK, queueVars, QueueTypeOK
<1>17. ASSUME NEW w \in Workers, FinishJob(w)
       PROVE  TypeOK'
  <2>1. task[w] \in Tasks /\ put[w] \in {"completed", "failed"}
    BY <1>17, <1>a, ActiveTask DEF FinishJob, ControlOK, ControlAt
  <2>2. QueueTypeOK'
    BY <1>17, <2>1, <1>a DEF FinishJob, Finish, QueueTypeOK, Jobs, JobStates
  <2>3. LocalTypeOK'
    BY <1>17, <1>a, ReturnTypes DEF FinishJob
  <2> QED
    BY <1>17, <1>a, <1>b, <2>2, <2>3 DEF FinishJob, TypeOK, storeVars, StoreTypeOK
<1>18. ASSUME NEW t \in Tasks, Elapse(t)
       PROVE  TypeOK'
  <2>1. QueueTypeOK'
    BY <1>18, <1>a DEF Elapse, BecomeStale, QueueTypeOK, Jobs, JobStates
  <2> QED
    BY <1>18, <1>a, <1>b, <2>1
       DEF Elapse, TypeOK, storeVars, StoreTypeOK, localVars, LocalTypeOK
<1>19. ASSUME NEW w \in Workers, CrashWorker(w)
       PROVE  TypeOK'
  <2>1. LocalTypeOK'
    BY <1>19, <1>a, ReturnTypes DEF CrashWorker
  <2> QED
    BY <1>19, <1>a, <1>b, <2>1
       DEF CrashWorker, TypeOK, storeVars, StoreTypeOK, queueVars, QueueTypeOK
<1>20. ASSUME CrashApi
       PROVE  TypeOK'
  <2>1. LocalTypeOK'
    BY <1>20, <1>a, ConstantTypes DEF CrashApi, LocalTypeOK
  <2> QED
    BY <1>20, <1>a, <1>b, <2>1
       DEF CrashApi, TypeOK, storeVars, StoreTypeOK, queueVars, QueueTypeOK
<1>21. ASSUME UNCHANGED vars
       PROVE  TypeOK'
  BY <1>21, <1>a, <1>b
     DEF vars, TypeOK, storeVars, StoreTypeOK, queueVars, QueueTypeOK, localVars,
         LocalTypeOK
<1> QED
  BY <1>1, <1>2, <1>3, <1>4, <1>5, <1>6, <1>7, <1>8, <1>9, <1>10, <1>11, <1>12,
     <1>13, <1>14, <1>15, <1>16, <1>17, <1>18, <1>19, <1>20, <1>21
     DEF Next, Request, HandlerStep, WorkerStep, Shared, Poll
-----------------------------------------------------------------------------
(* Locality.  A step of one process leaves the locals of the others alone.  *)

Alone(p) ==
    \A q \in Processes \ {p} :
       /\ pc'[q] = pc[q] /\ task'[q] = task[q] /\ result'[q] = result[q]
       /\ put'[q] = put[q] /\ then'[q] = then[q]

LEMMA GotoEffect ==
    ASSUME LocalTypeOK, NEW p \in Processes, NEW l, Goto(p, l)
    PROVE  /\ Alone(p)
           /\ pc'[p] = l /\ task'[p] = task[p] /\ result'[p] = result[p]
           /\ put'[p] = put[p] /\ then'[p] = then[p]
BY DEF LocalTypeOK, Goto, Alone

LEMMA ReturnEffect ==
    ASSUME LocalTypeOK, NEW p \in Processes, NEW l, Return(p, l)
    PROVE  /\ Alone(p)
           /\ pc'[p] = l /\ task'[p] = NoTask /\ result'[p] = NoResult
           /\ put'[p] = "absent" /\ then'[p] = "idle"
BY DEF LocalTypeOK, Return, Alone

LEMMA SetStatusEffect ==
    ASSUME LocalTypeOK, NEW p \in Processes, NEW l, NEW s, SetStatus(p, s, l),
           UNCHANGED <<task, result>>
    PROVE  /\ Alone(p)
           /\ pc'[p] = "status_file" /\ task'[p] = task[p]
           /\ result'[p] = result[p] /\ put'[p] = s /\ then'[p] = l
BY DEF LocalTypeOK, SetStatus, Alone

(* An exception in a worker is reported as failed, in a handler it ends it. *)
LEMMA RaiseEffect ==
    ASSUME LocalTypeOK, NEW p \in Processes, Raise(p)
    PROVE  /\ Alone(p)
           /\ \/ /\ p \in Workers
                 /\ pc'[p] = "status_file" /\ task'[p] = task[p]
                 /\ result'[p] = result[p]
                 /\ put'[p] = "failed" /\ then'[p] = "report"
              \/ /\ p \notin Workers
                 /\ pc'[p] = "idle" /\ task'[p] = NoTask
                 /\ result'[p] = NoResult /\ then'[p] = "idle"
BY ReturnEffect, SetStatusEffect DEF Raise

LEMMA ControlOfOne ==
    ASSUME ControlOK, NEW p \in Processes, Alone(p), ControlAt(p)'
    PROVE  ControlOK'
<1>1. ASSUME NEW q \in Processes, q # p
      PROVE  ControlAt(q)'
  BY <1>1 DEF ControlOK, ControlAt, CallsSetStatus, Alone, Outcomes, Terminal,
         WorkerLabels, HandlerLabels
<1> QED
  BY <1>1 DEF ControlOK

LEMMA ControlStep ==
    ASSUME TypeOK, ControlOK, [Next]_vars
    PROVE  ControlOK'
<1> USE DEF Processes
<1>a. LocalTypeOK /\ Workers \cap Handlers = {} /\ NoTask \notin Tasks
  BY TaskLifecycleAssumption, NoTaskAssumption DEF TypeOK
<1>b. NoResult.status = "none"
  BY DEF NoResult
<1>c. ASSUME NEW p \in Processes
      PROVE  ControlAt(p)
  BY DEF ControlOK
<1> USE DEF WorkerLabels, HandlerLabels, Outcomes, Terminal, CallsSetStatus
<1>1. ASSUME NEW p \in Processes, StatusFile(p)
      PROVE  ControlOK'
  <2>1. ControlAt(p)' /\ Alone(p)
    BY <1>1, <1>a, <1>c, GotoEffect DEF StatusFile, ControlAt, CallsSetStatus
  <2> QED
    BY <2>1, ControlOfOne
<1>2. ASSUME NEW p \in Processes, StatusRow(p)
      PROVE  ControlOK'
  <2>1. CASE then[p] = "idle"
    <3>1. ControlAt(p)' /\ Alone(p)
      BY <1>2, <2>1, <1>a, <1>b, <1>c, ReturnEffect
         DEF StatusRow, Continue, ControlAt, CallsSetStatus
    <3> QED
      BY <3>1, ControlOfOne
  <2>2. CASE then[p] # "idle"
    <3>1. ControlAt(p)' /\ Alone(p)
      BY <1>2, <2>2, <1>a, <1>c, GotoEffect
         DEF StatusRow, Continue, ControlAt, CallsSetStatus
    <3> QED
      BY <3>1, ControlOfOne
  <2> QED
    BY <2>1, <2>2
<1>3. ASSUME NEW p \in Processes, NEW kind \in Kinds, Record(p, kind)
      PROVE  ControlOK'
  <2>1. ControlAt(p)' /\ Alone(p)
    BY <1>3, <1>a, <1>c, GotoEffect DEF Record, ControlAt, NextPhase, Kinds
  <2> QED
    BY <2>1, ControlOfOne
<1>4. ASSUME NEW p \in Processes, NEW kind \in Kinds, RecordRaises(p, kind)
      PROVE  ControlOK'
  <2>1. ControlAt(p)' /\ Alone(p)
    BY <1>4, <1>a, <1>b, <1>c, RaiseEffect
       DEF RecordRaises, ControlAt, CallsSetStatus, Kinds
  <2> QED
    BY <2>1, ControlOfOne
<1>5. ASSUME NEW p \in Processes, SaveResult(p)
      PROVE  ControlOK'
  <2>1. ControlAt(p)' /\ Alone(p)
    BY <1>5, <1>a, <1>c, SetStatusEffect DEF SaveResult, ControlAt, CallsSetStatus
  <2> QED
    BY <2>1, ControlOfOne
<1>6. ASSUME NEW p \in Processes, SaveTrace(p)
      PROVE  ControlOK'
  <2>1. CASE p \in Workers
    <3>1. ControlAt(p)' /\ Alone(p)
      BY <1>6, <2>1, <1>a, <1>c, GotoEffect DEF SaveTrace, ControlAt
    <3> QED
      BY <3>1, ControlOfOne
  <2>2. CASE p \notin Workers
    <3>1. ControlAt(p)' /\ Alone(p)
      BY <1>6, <2>2, <1>a, <1>b, <1>c, ReturnEffect DEF SaveTrace, ControlAt
    <3> QED
      BY <3>1, ControlOfOne
  <2> QED
    BY <2>1, <2>2
<1>7. ASSUME NEW h \in Handlers, NEW t \in Tasks, CreateTask(h, t)
      PROVE  ControlOK'
  <2>1. ControlAt(h)' /\ Alone(h)
    BY <1>7, <1>a, <1>c DEF CreateTask, ControlAt, LocalTypeOK, Alone
  <2> QED
    BY <2>1, ControlOfOne
<1>8. ASSUME NEW h \in Handlers, CreateTaskRow(h) \/ UpdateRequestRow(h)
      PROVE  ControlOK'
  <2>1. ControlAt(h)' /\ Alone(h)
    BY <1>8, <1>a, <1>c, SetStatusEffect
       DEF CreateTaskRow, UpdateRequestRow, ControlAt, CallsSetStatus
  <2> QED
    BY <2>1, ControlOfOne
<1>9. ASSUME NEW h \in Handlers, EnqueueTask(h) \/ LoadFails(h)
      PROVE  ControlOK'
  <2>1. ControlAt(h)' /\ Alone(h)
    BY <1>9, <1>a, <1>b, <1>c, ReturnEffect DEF EnqueueTask, LoadFails, ControlAt
  <2> QED
    BY <2>1, ControlOfOne
<1>10. ASSUME NEW h \in Handlers, NEW t \in Tasks, CancelTask(h, t)
       PROVE  ControlOK'
  <2>1. ControlAt(h)' /\ Alone(h)
    BY <1>10, <1>a, <1>c
       DEF CancelTask, SetStatus, ControlAt, CallsSetStatus, LocalTypeOK, Alone
  <2> QED
    BY <2>1, ControlOfOne
<1>11. ASSUME NEW h \in Handlers, NEW t \in Tasks, NEW d \in Decisions,
              BeginReview(h, t, d)
       PROVE  ControlOK'
  <2>1. ControlAt(h)' /\ Alone(h)
    BY <1>11, <1>a, <1>c
       DEF BeginReview, SetStatus, ControlAt, CallsSetStatus, LocalTypeOK, Alone
  <2> QED
    BY <2>1, ControlOfOne
<1>12. ASSUME NEW h \in Handlers, Approve(h)
       PROVE  ControlOK'
  <2>1. task[h] \in Tasks
    BY <1>12, <1>a, ActiveTask DEF Approve
  <2> DEFINE final == [resultFile[task[h]] EXCEPT
                         !.status = "completed",
                         !.history = ReviewHistory(task[h], "approve")]
  <2>2. final \in Results /\ final.status = "completed"
    <3>1. resultFile[task[h]] \in Results
      BY <2>1 DEF TypeOK, StoreTypeOK
    <3> QED
      BY <2>1, <3>1, HistoryTypes DEF TypeOK, Results
  <2>3. /\ pc[h] = "load"
        /\ result' = [result EXCEPT ![h] = final]
        /\ pc' = [pc EXCEPT ![h] = "provenance"]
        /\ then' = [then EXCEPT ![h] = "idle"]
        /\ UNCHANGED <<task, payload, put, decision>>
    BY <1>12 DEF Approve
  <2> HIDE DEF final
  <2>4. ControlAt(h)' /\ Alone(h)
    BY <2>2, <2>3, <1>a, <1>c
       DEF ControlAt, LocalTypeOK, Alone, Outcomes, Terminal
  <2> QED
    BY <2>4, ControlOfOne
<1>13. ASSUME NEW h \in Handlers, RefuseRevision(h)
       PROVE  ControlOK'
  <2>1. ControlAt(h)' /\ Alone(h)
    BY <1>13, <1>a, <1>c, SetStatusEffect
       DEF RefuseRevision, ControlAt, CallsSetStatus
  <2> QED
    BY <2>1, ControlOfOne
<1>14. ASSUME NEW h \in Handlers, Revise(h)
       PROVE  ControlOK'
  <2>1. ControlAt(h)' /\ Alone(h)
    BY <1>14, <1>a, <1>c DEF Revise, ControlAt, LocalTypeOK, Alone
  <2> QED
    BY <2>1, ControlOfOne
<1>15. ASSUME NEW h \in Handlers, Archive(h) \/ UpdateRequest(h)
       PROVE  ControlOK'
  <2>1. ControlAt(h)' /\ Alone(h)
    BY <1>15, <1>a, <1>b, <1>c, GotoEffect, ReturnEffect
       DEF Archive, UpdateRequest, ControlAt
  <2> QED
    BY <2>1, ControlOfOne
<1>16. ASSUME NEW w \in Workers, StartWorker(w)
       PROVE  ControlOK'
  <2>1. ControlAt(w)' /\ Alone(w)
    BY <1>16, <1>a, <1>c, GotoEffect DEF StartWorker, ControlAt
  <2> QED
    BY <2>1, ControlOfOne
<1>17. ASSUME NEW w \in Workers, NEW t \in Tasks, ClaimJob(w, t)
       PROVE  ControlOK'
  <2>1. ControlAt(w)' /\ Alone(w)
    BY <1>17, <1>a, <1>c DEF ClaimJob, ControlAt, LocalTypeOK, Alone
  <2> QED
    BY <2>1, ControlOfOne
<1>18. ASSUME NEW w \in Workers, Validate(w) \/ Report(w)
       PROVE  ControlOK'
  <2>1. ControlAt(w)' /\ Alone(w)
    BY <1>18, <1>a, <1>c
       DEF Validate, Report, SetStatus, ControlAt, CallsSetStatus, LocalTypeOK, Alone
  <2> QED
    BY <2>1, ControlOfOne
<1>19. ASSUME NEW w \in Workers, Execute(w)
       PROVE  ControlOK'
  <2>1. PICK status \in EngineStatuses, assets \in BOOLEAN :
          LET review == task[w] \in ReviewRequired /\ assets IN
          /\ pc[w] = "execute"
          /\ result' = [result EXCEPT ![w] =
               [status  |-> IF review THEN "waiting_for_review" ELSE status,
                round   |-> payload[w].round,
                history |-> payload[w].history,
                assets  |-> assets]]
          /\ pc' = [pc EXCEPT ![w] = IF review THEN "save" ELSE "provenance"]
          /\ UNCHANGED <<task, put, then>>
    BY <1>19 DEF Execute
  <2>2. ControlAt(w)' /\ Alone(w)
    BY <2>1, <1>a, <1>c DEF ControlAt, LocalTypeOK, Alone, Outcomes, Terminal
  <2> QED
    BY <2>2, ControlOfOne
<1>20. ASSUME NEW w \in Workers, ExecuteRaises(w)
       PROVE  ControlOK'
  <2>1. ControlAt(w)' /\ Alone(w)
    BY <1>20, <1>a, <1>c, RaiseEffect
       DEF ExecuteRaises, ControlAt, CallsSetStatus
  <2> QED
    BY <2>1, ControlOfOne
<1>21. ASSUME NEW w \in Workers, FinishJob(w) \/ CrashWorker(w)
       PROVE  ControlOK'
  <2>1. ControlAt(w)' /\ Alone(w)
    BY <1>21, <1>a, <1>b, <1>c, ReturnEffect DEF FinishJob, CrashWorker, ControlAt
  <2> QED
    BY <2>1, ControlOfOne
<1>22. ASSUME CrashApi
       PROVE  ControlOK'
  <2>1. ASSUME NEW q \in Processes
        PROVE  ControlAt(q)'
    BY <1>22, <1>a, <1>b, <1>c DEF CrashApi, ControlAt, CallsSetStatus
  <2> QED
    BY <2>1 DEF ControlOK
<1>23. ASSUME UNCHANGED localVars
       PROVE  ControlOK'
  BY <1>23 DEF localVars, ControlOK, ControlAt, CallsSetStatus, Outcomes, Terminal
<1> QED
  BY <1>1, <1>2, <1>3, <1>4, <1>5, <1>6, <1>7, <1>8, <1>9, <1>10, <1>11, <1>12,
     <1>13, <1>14, <1>15, <1>16, <1>17, <1>18, <1>19, <1>20, <1>21, <1>22, <1>23
     DEF Next, Request, HandlerStep, WorkerStep, Shared, Poll, Elapse, vars
-----------------------------------------------------------------------------
(* The steps of a process between taking a task and handing it on touch     *)
(* neither status.json nor the queue, and make it no owner it was not.      *)

Inner(p) ==
    \/ StatusRow(p)
    \/ \E kind \in Kinds : Record(p, kind) \/ RecordRaises(p, kind)
    \/ SaveResult(p) \/ SaveTrace(p)
    \/ /\ p \in Handlers
       /\ \/ CreateTaskRow(p) \/ LoadFails(p) \/ Approve(p) \/ RefuseRevision(p)
          \/ Revise(p) \/ Archive(p) \/ UpdateRequest(p) \/ UpdateRequestRow(p)
    \/ /\ p \in Workers
       /\ Validate(p) \/ Execute(p) \/ ExecuteRaises(p) \/ Report(p)

(* What such a step does to the shared state ...                            *)
NoTransfer(p) ==
    /\ statusFile' = statusFile /\ job' = job /\ restarts' = restarts
    /\ submitted' = submitted
    /\ pc[p] \notin {"idle", "down", "status_file"}

(* ... and to the process that takes it.                                    *)
NoGain(p) ==
    /\ Alone(p)
    /\ task'[p] = task[p] \/ (p \notin Workers /\ task'[p] = NoTask)
    /\ \A t \in Tasks : Owns(p, t)' => Owns(p, t)
    /\ (AwayFromReview(p) /\ task[p] \in Tasks \ ReviewRequired) =>
         (AwayFromReview(p)' \/ task'[p] = NoTask)

LEMMA InnerNoTransfer ==
    ASSUME NEW p \in Processes, Inner(p)
    PROVE  NoTransfer(p)
<1> USE DEF NoTransfer, queueVars, storeVars
<1>1. CASE StatusRow(p)
  BY <1>1 DEF StatusRow, WriteStatusRow
<1>2. CASE \E kind \in Kinds : Record(p, kind) \/ RecordRaises(p, kind)
  BY <1>2 DEF Record, RecordRaises, Kinds
<1>3. CASE SaveResult(p) \/ SaveTrace(p)
  BY <1>3 DEF SaveResult, SaveTrace, WriteResult, WriteTrace
<1>4. CASE CreateTaskRow(p) \/ LoadFails(p) \/ Approve(p)
  BY <1>4 DEF CreateTaskRow, CreateRow, LoadFails, Approve
<1>5. CASE RefuseRevision(p) \/ Revise(p)
  BY <1>5 DEF RefuseRevision, Revise
<1>6. CASE Archive(p) \/ UpdateRequest(p) \/ UpdateRequestRow(p)
  BY <1>6 DEF Archive, ArchiveResult, UpdateRequest, WriteRequest,
              UpdateRequestRow, WriteRequestRow
<1>7. CASE Validate(p) \/ Execute(p) \/ ExecuteRaises(p) \/ Report(p)
  BY <1>7 DEF Validate, Execute, ExecuteRaises, Report
<1> QED
  BY <1>1, <1>2, <1>3, <1>4, <1>5, <1>6, <1>7 DEF Inner

LEMMA InnerNoGain ==
    ASSUME TypeOK, ControlOK, NEW p \in Processes, Inner(p)
    PROVE  NoGain(p)
<1> USE DEF NoGain, Owns, AwayFromReview
<1>a. LocalTypeOK /\ Workers \cap Handlers = {} /\ NoTask \notin Tasks
  BY TaskLifecycleAssumption, NoTaskAssumption DEF TypeOK
<1>1. CASE StatusRow(p)
  BY <1>1, <1>a, GotoEffect, ReturnEffect
     DEF StatusRow, Continue, ControlOK, ControlAt, CallsSetStatus
<1>2. ASSUME NEW kind \in Kinds, Record(p, kind)
      PROVE  NoGain(p)
  BY <1>2, <1>a, GotoEffect DEF Record, Kinds, NextPhase
<1>3. ASSUME NEW kind \in Kinds, RecordRaises(p, kind)
      PROVE  NoGain(p)
  BY <1>3, <1>a, RaiseEffect DEF RecordRaises, Kinds
<1>4. CASE SaveResult(p)
  BY <1>4, <1>a, SetStatusEffect DEF SaveResult
<1>5. CASE SaveTrace(p)
  BY <1>5, <1>a, GotoEffect, ReturnEffect DEF SaveTrace
<1>6. CASE CreateTaskRow(p) \/ UpdateRequestRow(p)
  BY <1>6, <1>a, SetStatusEffect DEF CreateTaskRow, UpdateRequestRow
<1>7. CASE p \in Handlers /\ LoadFails(p)
  BY <1>7, <1>a, ReturnEffect DEF LoadFails
<1>8. CASE p \in Handlers /\ Approve(p)
  <2>1. /\ pc[p] = "load"
        /\ pc' = [pc EXCEPT ![p] = "provenance"]
        /\ then' = [then EXCEPT ![p] = "idle"]
        /\ UNCHANGED <<task, put>>
    BY <1>8 DEF Approve
  <2>2. \E r : result' = [result EXCEPT ![p] = r]
    BY <1>8 DEF Approve
  <2> QED
    BY <2>1, <2>2, <1>a DEF LocalTypeOK, Alone
<1>9. CASE p \in Handlers /\ RefuseRevision(p)
  BY <1>9, <1>a, SetStatusEffect DEF RefuseRevision
<1>10. CASE p \in Handlers /\ Revise(p)
  BY <1>10, <1>a DEF Revise, LocalTypeOK, Alone
<1>11. CASE p \in Handlers /\ (Archive(p) \/ UpdateRequest(p))
  BY <1>11, <1>a, GotoEffect, ReturnEffect DEF Archive, UpdateRequest
<1>12. CASE Validate(p)
  BY <1>12, <1>a DEF Validate, SetStatus, LocalTypeOK, Alone
<1>13. CASE Execute(p)
  <2>1. PICK status \in EngineStatuses, assets \in BOOLEAN :
          LET review == task[p] \in ReviewRequired /\ assets IN
          /\ pc[p] = "execute"
          /\ result' = [result EXCEPT ![p] =
               [status  |-> IF review THEN "waiting_for_review" ELSE status,
                round   |-> payload[p].round,
                history |-> payload[p].history,
                assets  |-> assets]]
          /\ pc' = [pc EXCEPT ![p] = IF review THEN "save" ELSE "provenance"]
          /\ UNCHANGED <<task, put, then>>
    BY <1>13 DEF Execute
  <2> QED
    BY <2>1, <1>a, TaskStoreAssumption DEF LocalTypeOK, Alone
<1>14. CASE ExecuteRaises(p)
  BY <1>14, <1>a, RaiseEffect DEF ExecuteRaises
<1>15. CASE Report(p)
  BY <1>15, <1>a DEF Report, LocalTypeOK, Alone
<1> QED
  BY <1>1, <1>2, <1>3, <1>4, <1>5, <1>6, <1>7, <1>8, <1>9, <1>10, <1>11, <1>12,
     <1>13, <1>14, <1>15 DEF Inner
-----------------------------------------------------------------------------
(* Every step is an inner step or one of those that hand a task on.         *)
LEMMA StepCases ==
    ASSUME [Next]_vars
    PROVE  \/ \E p \in Processes : Inner(p) \/ StatusFile(p)
           \/ \E h \in Handlers, t \in Tasks :
                 \/ CreateTask(h, t) \/ CancelTask(h, t)
                 \/ \E d \in Decisions : BeginReview(h, t, d)
           \/ \E h \in Handlers : EnqueueTask(h)
           \/ \E w \in Workers : StartWorker(w) \/ FinishJob(w) \/ CrashWorker(w)
           \/ \E w \in Workers, t \in Tasks : ClaimJob(w, t)
           \/ \E t \in Tasks : Elapse(t)
           \/ CrashApi
           \/ UNCHANGED vars
BY DEF Next, Request, HandlerStep, WorkerStep, Shared, Poll, Inner, Processes

LEMMA UnreviewedStep ==
    ASSUME TypeOK, ControlOK, Unreviewed, [Next]_vars
    PROVE  Unreviewed'
<1> USE DEF Unreviewed, AwayFromReview, Processes
<1>a. /\ LocalTypeOK
      /\ statusFile \in [Tasks -> Statuses]
      /\ Workers \cap Handlers = {} /\ NoTask \notin Tasks
      /\ NoResult.status # "waiting_for_review"
  BY TaskLifecycleAssumption, NoTaskAssumption DEF TypeOK, StoreTypeOK, NoResult
<1>b. ASSUME NEW p \in Processes
      PROVE  ControlAt(p)
  BY DEF ControlOK
<1>1. ASSUME NEW p \in Processes, Inner(p)
      PROVE  Unreviewed'
  BY <1>1, <1>a, InnerNoGain, InnerNoTransfer DEF NoGain, NoTransfer, Alone
<1>2. ASSUME NEW p \in Processes, StatusFile(p)
      PROVE  Unreviewed'
  BY <1>2, <1>a, GotoEffect DEF StatusFile, WriteStatusFile, Alone
<1>3. ASSUME NEW h \in Handlers, NEW t \in Tasks, CreateTask(h, t)
      PROVE  Unreviewed'
  BY <1>3, <1>a, <1>b
     DEF CreateTask, CreateFiles, LocalTypeOK, ControlAt, CallsSetStatus
<1>4. ASSUME NEW h \in Handlers, NEW t \in Tasks, CancelTask(h, t)
      PROVE  Unreviewed'
  BY <1>4, <1>a, <1>b
     DEF CancelTask, SetStatus, LocalTypeOK, ControlAt, CallsSetStatus, storeVars
<1>5. ASSUME NEW h \in Handlers, NEW t \in Tasks, NEW d \in Decisions,
             BeginReview(h, t, d)
      PROVE  Unreviewed'
  BY <1>5, <1>a DEF BeginReview, SetStatus, LocalTypeOK, storeVars
<1>6. ASSUME NEW h \in Handlers, EnqueueTask(h)
      PROVE  Unreviewed'
  BY <1>6, <1>a, ReturnEffect DEF EnqueueTask, storeVars, Alone
<1>7. ASSUME NEW w \in Workers, StartWorker(w) \/ FinishJob(w) \/ CrashWorker(w)
      PROVE  Unreviewed'
  <2>1. CASE StartWorker(w)
    BY <2>1, <1>a, GotoEffect DEF StartWorker, storeVars, Alone
  <2>2. CASE FinishJob(w) \/ CrashWorker(w)
    BY <2>2, <1>a, ReturnEffect DEF FinishJob, CrashWorker, storeVars, Alone
  <2> QED
    BY <1>7, <2>1, <2>2
<1>8. ASSUME NEW w \in Workers, NEW t \in Tasks, ClaimJob(w, t)
      PROVE  Unreviewed'
  BY <1>8, <1>a, <1>b
     DEF ClaimJob, storeVars, LocalTypeOK, ControlAt, CallsSetStatus
<1>9. ASSUME CrashApi
      PROVE  Unreviewed'
  BY <1>9, <1>a DEF CrashApi, storeVars, LocalTypeOK
<1>10. ASSUME UNCHANGED <<storeVars, localVars>>
       PROVE  Unreviewed'
  BY <1>10 DEF storeVars, localVars
<1> QED
  BY <1>1, <1>2, <1>3, <1>4, <1>5, <1>6, <1>7, <1>8, <1>9, <1>10, StepCases
     DEF Elapse, vars

LEMMA JobsHeldStep ==
    ASSUME TypeOK, ControlOK, JobsHeld, [Next]_vars
    PROVE  JobsHeld'
<1> USE DEF JobsHeld, Processes
<1>a. /\ LocalTypeOK
      /\ statusFile \in [Tasks -> Statuses] /\ job \in [Tasks -> Jobs]
      /\ restarts \in Nat
      /\ Workers \cap Handlers = {} /\ NoTask \notin Tasks
  BY TaskLifecycleAssumption, NoTaskAssumption
     DEF TypeOK, StoreTypeOK, QueueTypeOK
<1>b. ASSUME NEW p \in Processes
      PROVE  ControlAt(p)
  BY DEF ControlOK
<1>1. ASSUME NEW p \in Processes, Inner(p)
      PROVE  JobsHeld'
  BY <1>1, <1>a, InnerNoGain, InnerNoTransfer DEF NoGain, NoTransfer, Alone
<1>2. ASSUME NEW p \in Processes, StatusFile(p)
      PROVE  JobsHeld'
  <2>1. put[p] # "absent"
    BY <1>2, <1>b, TaskStoreAssumption
       DEF StatusFile, ControlAt, CallsSetStatus, Outcomes, Terminal
  <2>2. job' = job /\ restarts' = restarts /\ task' = task
    BY <1>2 DEF StatusFile, Goto, queueVars
  <2> QED
    BY <1>2, <1>a, <2>1, <2>2 DEF StatusFile, WriteStatusFile
<1>3. ASSUME NEW h \in Handlers, NEW t \in Tasks, CreateTask(h, t)
      PROVE  JobsHeld'
  BY <1>3, <1>a, <1>b
     DEF CreateTask, CreateFiles, LocalTypeOK, ControlAt, CallsSetStatus, queueVars
<1>4. ASSUME NEW h \in Handlers, NEW t \in Tasks, CancelTask(h, t)
      PROVE  JobsHeld'
  BY <1>4, <1>a DEF CancelTask, CancelJob, LocalTypeOK, Jobs, storeVars
<1>5. ASSUME NEW h \in Handlers, NEW t \in Tasks, NEW d \in Decisions,
             BeginReview(h, t, d)
      PROVE  JobsHeld'
  BY <1>5, <1>a DEF BeginReview, LocalTypeOK, storeVars, queueVars
<1>6. ASSUME NEW h \in Handlers, EnqueueTask(h)
      PROVE  JobsHeld'
  <2>1. statusFile[task[h]] # "absent" /\ task[h] \in Tasks
    BY <1>6, <1>a, ActiveTask DEF EnqueueTask
  <2> QED
    BY <1>6, <2>1, <1>a, <1>b, ReturnEffect
       DEF EnqueueTask, Enqueue, Alone, storeVars
<1>7. ASSUME NEW w \in Workers, StartWorker(w)
      PROVE  JobsHeld'
  BY <1>7, <1>a DEF StartWorker, RecoverRunning, Goto, Jobs, storeVars
<1>8. ASSUME NEW w \in Workers, NEW t \in Tasks, ClaimJob(w, t)
      PROVE  JobsHeld'
  <2>1. /\ job[t].state = "queued" /\ task[w] = NoTask
        /\ task' = [task EXCEPT ![w] = t]
        /\ statusFile' = statusFile /\ restarts' = restarts
    BY <1>8, <1>b DEF ClaimJob, Claim, Queued, ControlAt, CallsSetStatus, storeVars
  <2>2. /\ job'[t].state = "running" /\ ~job'[t].stale
        /\ \A u \in Tasks \ {t} : job'[u] = job[u]
    BY <1>8, <1>a DEF ClaimJob, Claim, Jobs
  <2> QED
    BY <2>1, <2>2, <1>a DEF LocalTypeOK
<1>9. ASSUME NEW w \in Workers, FinishJob(w)
      PROVE  JobsHeld'
  <2>1. put[w] \in {"completed", "failed"} /\ task[w] \in Tasks
    BY <1>9, <1>a, <1>b, ActiveTask DEF FinishJob, ControlAt, CallsSetStatus
  <2>2. /\ job'[task[w]].state = put[w]
        /\ \A u \in Tasks \ {task[w]} : job'[u] = job[u]
    BY <1>9, <2>1, <1>a DEF FinishJob, Finish, Jobs
  <2>3. Alone(w) /\ task'[w] = NoTask
    BY <1>9, <1>a, ReturnEffect DEF FinishJob
  <2>4. statusFile' = statusFile /\ restarts' = restarts
    BY <1>9 DEF FinishJob, storeVars
  <2> QED
    BY <2>1, <2>2, <2>3, <2>4, <1>a DEF Alone
<1>10. ASSUME NEW w \in Workers, CrashWorker(w)
       PROVE  JobsHeld'
  BY <1>10, <1>a, ReturnEffect DEF CrashWorker, Alone, storeVars, queueVars
<1>11. ASSUME NEW t \in Tasks, Elapse(t)
       PROVE  JobsHeld'
  BY <1>11, <1>a DEF Elapse, BecomeStale, Jobs, storeVars, localVars
<1>12. ASSUME CrashApi
       PROVE  JobsHeld'
  BY <1>12, <1>a DEF CrashApi, storeVars, queueVars
<1>13. ASSUME UNCHANGED vars
       PROVE  JobsHeld'
  BY <1>13 DEF vars, storeVars, queueVars, localVars
<1> QED
  BY <1>1, <1>2, <1>3, <1>4, <1>5, <1>6, <1>7, <1>8, <1>9, <1>10, <1>11, <1>12,
     <1>13, StepCases
-----------------------------------------------------------------------------
(* Ownership.  A step that takes no task and moves none in the store or the *)
(* queue keeps it.                                                          *)
LEMMA OwnershipKept ==
    ASSUME Ownership, restarts \in Nat, restarts' \in Nat, restarts' >= restarts,
           statusFile' = statusFile, job' = job,
           \A q \in Processes, t \in Tasks :
              Owns(q, t)' =>
                /\ Owns(q, t)
                /\ \/ pc'[q] = pc[q] /\ then'[q] = then[q]
                   \/ pc[q] # "status_file"
    PROVE  Ownership'
BY DEF Ownership, Undisturbed

LEMMA OwnershipStep ==
    ASSUME IInv, [Next]_vars
    PROVE  Ownership'
<1> USE DEF IInv, Processes
<1>a. /\ LocalTypeOK
      /\ statusFile \in [Tasks -> Statuses] /\ job \in [Tasks -> Jobs]
      /\ restarts \in Nat
      /\ Workers \cap Handlers = {} /\ NoTask \notin Tasks
  BY TaskLifecycleAssumption, NoTaskAssumption
     DEF TypeOK, StoreTypeOK, QueueTypeOK
<1>b. ASSUME NEW p \in Processes
      PROVE  ControlAt(p)
  BY DEF ControlOK
<1>1. ASSUME NEW p \in Processes, Inner(p)
      PROVE  Ownership'
  <2>1. NoGain(p) /\ NoTransfer(p)
    BY <1>1, InnerNoGain, InnerNoTransfer
  <2>2. ASSUME NEW q \in Processes, NEW t \in Tasks, Owns(q, t)'
        PROVE  /\ Owns(q, t)
               /\ \/ pc'[q] = pc[q] /\ then'[q] = then[q]
                  \/ pc[q] # "status_file"
    BY <2>1, <2>2 DEF NoGain, NoTransfer, Alone, Owns
  <2> QED
    BY <2>1, <2>2, <1>a, OwnershipKept DEF NoTransfer
<1>2. ASSUME NEW p \in Processes, StatusFile(p)
      PROVE  Ownership'
  <2> DEFINE t == task[p]
  <2>1. /\ pc[p] = "status_file" /\ t \in Tasks
        /\ statusFile' = [statusFile EXCEPT ![t] = put[p]]
        /\ job' = job /\ restarts' = restarts
    BY <1>2, <1>a, ActiveTask DEF StatusFile, WriteStatusFile, queueVars
  <2>2. Alone(p) /\ pc'[p] = "status_row" /\ task'[p] = t /\ then'[p] = then[p]
    BY <1>2, <1>a, GotoEffect DEF StatusFile
  <2>3. Owns(p, t) /\ CallsSetStatus(p)
    BY <2>1, <1>b DEF Owns, ControlAt
  <2>4. \A q \in Processes, u \in Tasks : Owns(q, u)' => Owns(q, u)
    BY <2>1, <2>2 DEF Alone, Owns
  <2>5. \A u \in Tasks : Owns(p, u)' => put[p] # "waiting_for_review"
    BY <2>2, <2>3 DEF Owns, CallsSetStatus
  <2>6. ASSUME NEW u \in Tasks, Undisturbed(u)', NEW q \in Processes, Owns(q, u)'
        PROVE  /\ \A r \in Processes : Owns(r, u)' => r = q
               /\ job'[u].state # "queued"
               /\ ~(job'[u].state = "running" /\ job'[u].stale)
               /\ q \in Handlers /\ u \notin ReviewRequired =>
                    job'[u].state # "running"
    BY <2>1, <2>4, <2>6 DEF Ownership, Undisturbed
  <2>7. ASSUME NEW u \in Tasks, Undisturbed(u)', NEW q \in Processes, Owns(q, u)',
               statusFile'[u] = "waiting_for_review"
        PROVE  pc'[q] = "status_file" /\ then'[q] = "load"
    <3>1. CASE u = t
      <4>1. Undisturbed(t)
        BY <2>7, <3>1, <2>1 DEF Undisturbed
      <4>2. q = p
        BY <2>1, <2>3, <2>4, <2>7, <3>1, <4>1 DEF Ownership
      <4> QED
        BY <2>1, <2>5, <2>7, <3>1, <4>2, <1>a
    <3>2. CASE u # t
      <4>1. q # p /\ statusFile[u] = "waiting_for_review" /\ Undisturbed(u)
        BY <2>1, <2>2, <2>7, <3>2, <1>a DEF Owns, Undisturbed
      <4> QED
        BY <2>2, <2>4, <2>7, <4>1 DEF Ownership, Alone
    <3> QED
      BY <3>1, <3>2
  <2>8. ASSUME NEW u \in Tasks, Undisturbed(u)', job'[u].state = "queued"
        PROVE  statusFile'[u] # "waiting_for_review"
    <3>1. Undisturbed(u) /\ job[u].state = "queued"
      BY <2>1, <2>8 DEF Undisturbed
    <3>2. u # t
      BY <2>1, <2>3, <3>1 DEF Ownership
    <3> QED
      BY <2>1, <3>1, <3>2, <1>a DEF Ownership
  <2> QED
    BY <2>6, <2>7, <2>8 DEF Ownership
<1>3. ASSUME NEW h \in Handlers, NEW t \in Tasks, CreateTask(h, t)
      PROVE  Ownership'
  <2>1. /\ statusFile[t] = "absent" /\ task[h] = NoTask
        /\ statusFile' = [statusFile EXCEPT ![t] = "created"]
        /\ task' = [task EXCEPT ![h] = t]
        /\ pc' = [pc EXCEPT ![h] = "create_row"]
        /\ then' = then /\ job' = job /\ restarts' = restarts
    BY <1>3, <1>b
       DEF CreateTask, CreateFiles, ControlAt, CallsSetStatus, queueVars
  <2>2. job[t].state = "absent" /\ \A q \in Processes : ~Owns(q, t)
    BY <2>1 DEF JobsHeld, Owns
  <2>3. \A q \in Processes, u \in Tasks :
          (q # h \/ u # t) => (Owns(q, u)' => Owns(q, u) /\ q # h)
    BY <2>1, <1>a DEF Owns, LocalTypeOK
  <2> QED
    BY <2>1, <2>2, <2>3, <1>a DEF Ownership, Undisturbed, LocalTypeOK
<1>4. ASSUME NEW h \in Handlers, NEW t \in Tasks, CancelTask(h, t)
      PROVE  Ownership'
  <2>1. /\ job[t].state = "queued" /\ task[h] = NoTask
        /\ job' = [job EXCEPT ![t].state = "cancelled"]
        /\ task' = [task EXCEPT ![h] = t]
        /\ pc' = [pc EXCEPT ![h] = "status_file"]
        /\ then' = [then EXCEPT ![h] = "idle"]
        /\ statusFile' = statusFile /\ restarts' = restarts
    BY <1>4, <1>b
       DEF CancelTask, CancelJob, SetStatus, ControlAt, CallsSetStatus, storeVars
  <2>2. \A q \in Processes, u \in Tasks :
          (q # h \/ u # t) => (Owns(q, u)' => Owns(q, u) /\ q # h)
    BY <2>1, <1>a DEF Owns, LocalTypeOK
  <2>3. /\ job'[t].state = "cancelled"
        /\ \A u \in Tasks \ {t} : job'[u] = job[u]
    BY <2>1, <1>a DEF Jobs
  <2>4. Undisturbed(t) =>
          /\ \A q \in Processes : ~Owns(q, t)
          /\ statusFile[t] # "waiting_for_review"
    BY <2>1 DEF Ownership
  <2>5. \A q \in Processes \ {h} : pc'[q] = pc[q] /\ then'[q] = then[q]
    BY <2>1, <1>a DEF LocalTypeOK
  <2>6. \A u \in Tasks : Undisturbed(u)' <=> Undisturbed(u)
    BY <2>1 DEF Undisturbed
  <2> QED
    BY <2>1, <2>2, <2>3, <2>4, <2>5, <2>6 DEF Ownership
<1>5. ASSUME NEW h \in Handlers, NEW t \in Tasks, NEW d \in Decisions,
             BeginReview(h, t, d)
      PROVE  Ownership'
  <2>1. /\ statusFile[t] = "waiting_for_review" /\ task[h] = NoTask
        /\ ReviewLockFree
        /\ task' = [task EXCEPT ![h] = t]
        /\ pc' = [pc EXCEPT ![h] = "status_file"]
        /\ then' = [then EXCEPT ![h] = "load"]
        /\ statusFile' = statusFile /\ job' = job /\ restarts' = restarts
    BY <1>5, <1>b
       DEF BeginReview, SetStatus, ControlAt, CallsSetStatus, storeVars, queueVars
  <2>2. \A q \in Processes, u \in Tasks :
          (q # h \/ u # t) => (Owns(q, u)' => Owns(q, u) /\ q # h)
    BY <2>1, <1>a DEF Owns, LocalTypeOK
  <2>3. \A q \in Processes \ {h} : pc'[q] = pc[q] /\ then'[q] = then[q]
    BY <2>1, <1>a DEF LocalTypeOK
  <2>4. pc'[h] = "status_file" /\ then'[h] = "load"
    BY <2>1, <1>a DEF LocalTypeOK
  <2>5. t \in ReviewRequired
    BY <2>1 DEF Unreviewed
  <2>6. ASSUME Undisturbed(t)
        PROVE  /\ \A q \in Processes : ~Owns(q, t)
               /\ job[t].state # "queued"
               /\ ~(job[t].state = "running" /\ job[t].stale)
    <3>1. ASSUME NEW q \in Processes, Owns(q, t)
          PROVE  FALSE
      <4>1. pc[q] = "status_file" /\ then[q] = "load"
        BY <2>1, <2>6, <3>1 DEF Ownership
      <4>2. q \in Handlers
        BY <4>1, <1>b DEF ControlAt, CallsSetStatus
      <4> QED
        BY <2>1, <4>1, <4>2 DEF ReviewLockFree, HoldsReviewLock
    <3>2. job[t].state # "queued"
      BY <2>1, <2>6 DEF Ownership
    <3>3. ~(job[t].state = "running" /\ job[t].stale)
      BY <2>5, <2>6 DEF JobsHeld, Undisturbed
    <3> QED
      BY <3>1, <3>2, <3>3
  <2>7. \A u \in Tasks : Undisturbed(u)' <=> Undisturbed(u)
    BY <2>1 DEF Undisturbed
  <2> QED
    BY <2>1, <2>2, <2>3, <2>4, <2>5, <2>6, <2>7 DEF Ownership
<1>6. ASSUME NEW h \in Handlers, EnqueueTask(h)
      PROVE  Ownership'
  <2> DEFINE t == task[h]
  <2>1. pc[h] = "enqueue" /\ t \in Tasks /\ Owns(h, t)
    BY <1>6, <1>a, ActiveTask DEF EnqueueTask, Owns
  <2>2. /\ job'[t].state = "queued" /\ ~job'[t].stale
        /\ \A u \in Tasks \ {t} : job'[u] = job[u]
        /\ statusFile' = statusFile /\ restarts' = restarts
    BY <1>6, <2>1, <1>a DEF EnqueueTask, Enqueue, Jobs, storeVars
  <2>3. Alone(h) /\ pc'[h] = "idle"
    BY <1>6, <1>a, ReturnEffect DEF EnqueueTask
  <2>4. \A q \in Processes, u \in Tasks : Owns(q, u)' => Owns(q, u) /\ q # h
    BY <2>3 DEF Owns, Alone
  <2>5. Undisturbed(t) => /\ \A q \in Processes : Owns(q, t) => q = h
                         /\ statusFile[t] # "waiting_for_review"
    BY <2>1 DEF Ownership
  <2>6. \A u \in Tasks : Undisturbed(u)' <=> Undisturbed(u)
    BY <2>2 DEF Undisturbed
  <2> QED
    BY <2>2, <2>3, <2>4, <2>5, <2>6 DEF Ownership, Alone
<1>7. ASSUME NEW w \in Workers, StartWorker(w)
      PROVE  Ownership'
  <2>1. /\ pc[w] = "down" /\ Alone(w) /\ pc'[w] = "idle"
        /\ statusFile' = statusFile /\ restarts' = restarts
    BY <1>7, <1>a, GotoEffect DEF StartWorker, storeVars
  <2>2. \A u \in Tasks :
          \/ job'[u] = job[u]
          \/ job[u].state = "running" /\ job[u].stale /\ job'[u].state = "queued"
    BY <1>7, <1>a DEF StartWorker, RecoverRunning, Jobs
  <2>3. \A q \in Processes, u \in Tasks : Owns(q, u)' => Owns(q, u) /\ q # w
    BY <2>1 DEF Owns, Alone
  <2>4. \A u \in Tasks : Undisturbed(u)' <=> Undisturbed(u)
    BY <2>1 DEF Undisturbed
  <2>5. \A u \in Tasks :
          Undisturbed(u) /\ job[u].state = "running" /\ job[u].stale =>
            /\ statusFile[u] # "waiting_for_review"
            /\ \A q \in Processes : ~Owns(q, u)
    BY DEF Ownership, Unreviewed, JobsHeld, Undisturbed
  <2> QED
    BY <2>1, <2>2, <2>3, <2>4, <2>5 DEF Ownership, Alone
<1>8. ASSUME NEW w \in Workers, NEW t \in Tasks, ClaimJob(w, t)
      PROVE  Ownership'
  <2>1. /\ job[t].state = "queued" /\ task[w] = NoTask
        /\ task' = [task EXCEPT ![w] = t]
        /\ pc' = [pc EXCEPT ![w] = "validate"]
        /\ then' = then /\ statusFile' = statusFile /\ restarts' = restarts
    BY <1>8, <1>b DEF ClaimJob, Claim, Queued, ControlAt, CallsSetStatus, storeVars
  <2>2. /\ job'[t].state = "running" /\ ~job'[t].stale
        /\ \A u \in Tasks \ {t} : job'[u] = job[u]
    BY <1>8, <1>a DEF ClaimJob, Claim, Jobs
  <2>3. \A q \in Processes, u \in Tasks :
          (q # w \/ u # t) => (Owns(q, u)' => Owns(q, u) /\ q # w)
    BY <2>1, <1>a DEF Owns, LocalTypeOK
  <2>4. \A q \in Processes \ {w} : pc'[q] = pc[q] /\ then'[q] = then[q]
    BY <2>1, <1>a DEF LocalTypeOK
  <2>5. Undisturbed(t) => /\ \A q \in Processes : ~Owns(q, t)
                         /\ statusFile[t] # "waiting_for_review"
    BY <2>1 DEF Ownership
  <2>6. \A u \in Tasks : Undisturbed(u)' <=> Undisturbed(u)
    BY <2>1 DEF Undisturbed
  <2> QED
    BY <2>1, <2>2, <2>3, <2>4, <2>5, <2>6, <1>a DEF Ownership
<1>9. ASSUME NEW w \in Workers, FinishJob(w)
      PROVE  Ownership'
  <2>1. put[w] \in {"completed", "failed"} /\ task[w] \in Tasks
    BY <1>9, <1>a, <1>b, ActiveTask DEF FinishJob, ControlAt, CallsSetStatus
  <2>2. /\ job'[task[w]].state = put[w]
        /\ \A u \in Tasks \ {task[w]} : job'[u] = job[u]
        /\ statusFile' = statusFile /\ restarts' = restarts
    BY <1>9, <2>1, <1>a DEF FinishJob, Finish, Jobs, storeVars
  <2>3. Alone(w) /\ task'[w] = NoTask
    BY <1>9, <1>a, ReturnEffect DEF FinishJob
  <2>4. \A q \in Processes, u \in Tasks : Owns(q, u)' => Owns(q, u) /\ q # w
    BY <2>3, <1>a DEF Owns, Alone
  <2>5. \A u \in Tasks : Undisturbed(u)' <=> Undisturbed(u)
    BY <2>2 DEF Undisturbed
  <2> QED
    BY <2>1, <2>2, <2>3, <2>4, <2>5 DEF Ownership, Alone
<1>10. ASSUME NEW w \in Workers, CrashWorker(w)
       PROVE  Ownership'
  <2>1. /\ Alone(w) /\ task'[w] = NoTask
        /\ restarts' = restarts + 1 /\ statusFile' = statusFile /\ job' = job
    BY <1>10, <1>a, ReturnEffect DEF CrashWorker, storeVars, queueVars
  <2>2. \A q \in Processes, u \in Tasks :
          Owns(q, u)' => Owns(q, u) /\ pc'[q] = pc[q] /\ then'[q] = then[q]
    BY <2>1, <1>a DEF Owns, Alone
  <2> QED
    BY <2>1, <2>2, <1>a, OwnershipKept
<1>11. ASSUME NEW t \in Tasks, Elapse(t)
       PROVE  Ownership'
  <2>1. /\ job[t].state = "running" /\ \A w \in Workers : task[w] = t => Overrun
        /\ job'[t].state = "running"
        /\ \A u \in Tasks \ {t} : job'[u] = job[u]
        /\ UNCHANGED <<statusFile, restarts, pc, task, then>>
    BY <1>11, <1>a DEF Elapse, BecomeStale, Jobs, storeVars, localVars
  <2>2. ASSUME Undisturbed(t), NEW q \in Processes, Owns(q, t)
        PROVE  FALSE
    <3>1. CASE q \in Workers
      BY <2>1, <2>2, <3>1 DEF Undisturbed, Owns
    <3>2. CASE q \in Handlers
      BY <2>1, <2>2, <3>2 DEF Undisturbed, Ownership, JobsHeld
    <3> QED
      BY <3>1, <3>2
  <2>3. \A q \in Processes, u \in Tasks : Owns(q, u)' <=> Owns(q, u)
    BY <2>1 DEF Owns
  <2>4. \A u \in Tasks : Undisturbed(u)' <=> Undisturbed(u)
    BY <2>1 DEF Undisturbed
  <2> QED
    BY <2>1, <2>2, <2>3, <2>4 DEF Ownership
<1>12. ASSUME CrashApi
       PROVE  Ownership'
  <2>1. /\ \A h \in Handlers : task'[h] = NoTask
        /\ \A w \in Workers : /\ task'[w] = task[w] /\ pc'[w] = pc[w]
                              /\ then'[w] = then[w]
        /\ statusFile' = statusFile /\ job' = job /\ restarts' = restarts
    BY <1>12, <1>a DEF CrashApi, storeVars, queueVars
  <2>2. \A q \in Processes, u \in Tasks :
          Owns(q, u)' => Owns(q, u) /\ pc'[q] = pc[q] /\ then'[q] = then[q]
    BY <2>1, <1>a DEF Owns
  <2> QED
    BY <2>1, <2>2, <1>a, OwnershipKept
<1>13. ASSUME UNCHANGED vars
       PROVE  Ownership'
  BY <1>13 DEF vars, storeVars, queueVars, localVars, Ownership, Owns, Undisturbed
<1> QED
  BY <1>1, <1>2, <1>3, <1>4, <1>5, <1>6, <1>7, <1>8, <1>9, <1>10, <1>11, <1>12,
     <1>13, StepCases

-----------------------------------------------------------------------------
LEMMA IInvInit == Init => IInv
<1> SUFFICES ASSUME Init PROVE IInv
  OBVIOUS
<1> USE DEF Init, Processes
<1>1. NoResult.status = "none" /\ NoJob.state = "absent" /\ NoJob.stale = FALSE
  BY DEF NoResult, NoJob
<1>2. TypeOK
  <2>1. StoreTypeOK
    BY ConstantTypes DEF StoreInit, StoreTypeOK
  <2>2. QueueTypeOK
    BY ConstantTypes DEF QueueInit, QueueTypeOK
  <2>3. LocalTypeOK
    BY ConstantTypes DEF LocalTypeOK, Labels
  <2> QED
    BY <2>1, <2>2, <2>3, TaskLifecycleAssumption DEF TypeOK
<1>3. ControlOK
  BY <1>1, TaskLifecycleAssumption
     DEF ControlOK, ControlAt, CallsSetStatus, WorkerLabels, HandlerLabels
<1>4. Unreviewed
  BY NoTaskAssumption DEF Unreviewed, StoreInit
<1>5. JobsHeld
  BY <1>1, NoTaskAssumption DEF JobsHeld, StoreInit, QueueInit
<1>6. Ownership
  BY <1>1, NoTaskAssumption DEF Ownership, Owns, QueueInit
<1> QED
  BY <1>2, <1>3, <1>4, <1>5, <1>6 DEF IInv

LEMMA IInvStep == IInv /\ [Next]_vars => IInv'
BY TypeStep, ControlStep, UnreviewedStep, JobsHeldStep, OwnershipStep DEF IInv

(* The invariant is inductive: types, control, what unreviewed tasks never  *)
(* do, who holds a job, and ownership.                                      *)
THEOREM Invariance == Spec => []IInv
BY IInvInit, IInvStep, PTL DEF Spec

(* Every variable stays typed: the statuses of executor.py, the rows of     *)
(* task_queue.py and the locals of each process.                            *)
THEOREM TypeCorrect == Spec => []TypeOK
<1>1. IInv => TypeOK
  BY DEF IInv
<1> QED
  BY <1>1, Invariance, PTL

(* The handover of tasks between request threads, queue, workers and        *)
(* reviewers (executor.py, task_queue.py, worker.py) is exclusive.          *)
THEOREM SingleOwner == Spec => []OneOwner
<1>1. IInv => OneOwner
  <2> SUFFICES ASSUME IInv, NEW t \in Tasks, NEW p \in Processes,
                      Undisturbed(t), Owns(p, t)
               PROVE  /\ \A q \in Processes : Owns(q, t) => q = p
                      /\ job[t].state # "queued"
                      /\ statusFile[t] = "waiting_for_review" =>
                           HoldsReviewLock(p)
    BY DEF OneOwner
  <2> QED
    BY DEF IInv, Ownership, HoldsReviewLock
<1> QED
  BY <1>1, Invariance, PTL
-----------------------------------------------------------------------------
(* What recovery owes a task that nobody reviews: with jobs that end within *)
(* WORKER_STALE_SECONDS, killing workers and the API process loses none,    *)
(* and once its job has ended status.json and the row agree.  The proof     *)
(* rests on the invariant above and adds one.                               *)

(* A handler that has such a task is creating it, before there is a job ... *)
Creating(h) ==
    \/ pc[h] \in {"create_row", "enqueue"}
    \/ pc[h] \in {"status_file", "status_row"} /\ then[h] = "enqueue"

(* ... or has cancelled its job and is writing that down.                   *)
Cancelling(h) == pc[h] \in {"status_file", "status_row"} /\ then[h] = "idle"

HandlerAt(h, t) ==
    \/ job[t].state = "absent" /\ Creating(h) /\ payload[h].round = submitted[t]
    \/ job[t].state = "cancelled" /\ Cancelling(h)

Shown(t) == statusFile[t] \in Terminal /\ metaStatus[t] = statusFile[t]

(* A worker that has it holds its running job, alone; when save_result or   *)
(* set_status has returned, file and row tell the outcome.                  *)
WorkerAt(w, t) ==
    /\ job[t].state = "running" /\ ~job[t].stale
    /\ payload[w].round = submitted[t]
    /\ \A v \in Workers : task[v] = t => v = w
    /\ pc[w] = "status_row" => statusFile[t] = put[w]
    /\ pc[w] \in {"trace", "report", "finish"} => Shown(t)

HeldOK(p, t) ==
    /\ p \in Workers  => WorkerAt(p, t)
    /\ p \in Handlers => HandlerAt(p, t)

(* A task nobody reviews is never revised: it stays in the round in which   *)
(* it was submitted.                                                        *)
Settled(t) ==
    /\ job[t].state # "absent" => job[t].payload.round = submitted[t]
    /\ job[t].state \in {"completed", "failed"} => Shown(t)
    /\ \A p \in Processes : task[p] = t => HeldOK(p, t)

SettledInv == \A t \in Tasks \ ReviewRequired : Settled(t)

-----------------------------------------------------------------------------
(* Locality.                                                                *)

OtherLocals(p) ==
    \A q \in Processes \ {p} :
       /\ pc'[q] = pc[q] /\ task'[q] = task[q] /\ payload'[q] = payload[q]
       /\ put'[q] = put[q] /\ then'[q] = then[q]

LEMMA GotoLocals ==
    ASSUME LocalTypeOK, NEW p \in Processes, NEW l, Goto(p, l)
    PROVE  /\ OtherLocals(p)
           /\ pc'[p] = l /\ task' = task /\ payload' = payload
           /\ put'[p] = put[p] /\ then'[p] = then[p]
BY DEF LocalTypeOK, Goto, OtherLocals

LEMMA ReturnLocals ==
    ASSUME LocalTypeOK, NEW p \in Processes, NEW l, Return(p, l)
    PROVE  OtherLocals(p) /\ task'[p] = NoTask
BY DEF LocalTypeOK, Return, OtherLocals

LEMMA SetStatusLocals ==
    ASSUME LocalTypeOK, NEW p \in Processes, NEW l, NEW s, SetStatus(p, s, l),
           UNCHANGED <<task, payload>>
    PROVE  /\ OtherLocals(p)
           /\ pc'[p] = "status_file" /\ put'[p] = s /\ then'[p] = l
BY DEF LocalTypeOK, SetStatus, OtherLocals

(* A step of p leaves a task alone that p does not have afterwards, if it   *)
(* leaves the store and the queue of that task alone.                       *)
LEMMA Elsewhere ==
    ASSUME NEW p \in Processes, NEW t \in Tasks, Settled(t), OtherLocals(p),
           task'[p] # t,
           statusFile'[t] = statusFile[t], metaStatus'[t] = metaStatus[t],
           job'[t] = job[t], submitted'[t] = submitted[t]
    PROVE  Settled(t)'
<1> USE DEF Processes
<1>1. ASSUME NEW q \in Processes, task'[q] = t
      PROVE  HeldOK(q, t)'
  <2>1. q # p /\ task[q] = t /\ HeldOK(q, t)
    BY <1>1 DEF OtherLocals, Settled
  <2>2. \A v \in Workers : task'[v] = t => task[v] = t
    BY DEF OtherLocals
  <2> QED
    BY <2>1, <2>2
       DEF OtherLocals, HeldOK, WorkerAt, HandlerAt, Creating, Cancelling, Shown
<1> QED
  BY <1>1 DEF Settled, Shown

(* What a step of p must show of the task p has.                            *)
LEMMA OfOne ==
    ASSUME SettledInv, NEW p \in Processes, NEW t \in Tasks, OtherLocals(p),
           \A u \in Tasks \ {t} :
              /\ statusFile'[u] = statusFile[u] /\ metaStatus'[u] = metaStatus[u]
              /\ job'[u] = job[u] /\ submitted'[u] = submitted[u] /\ task'[p] # u,
           t \notin ReviewRequired => Settled(t)'
    PROVE  SettledInv'
<1>1. ASSUME NEW u \in Tasks \ ReviewRequired
      PROVE  Settled(u)'
  <2>1. CASE u = t
    BY <2>1, <1>1
  <2>2. CASE u # t
    <3>1. Settled(u)
      BY DEF SettledInv
    <3> QED
      BY <2>2, <3>1, Elsewhere
  <2> QED
    BY <2>1, <2>2
<1> QED
  BY <1>1 DEF SettledInv

-----------------------------------------------------------------------------
(* Inner steps.                                                             *)

LEMMA InnerElsewhere ==
    ASSUME TypeOK, ControlOK, NEW p \in Processes, Inner(p)
    PROVE  /\ OtherLocals(p)
           /\ statusFile' = statusFile /\ job' = job /\ submitted' = submitted
           /\ \A u \in Tasks \ {task[p]} : metaStatus'[u] = metaStatus[u]
           /\ task[p] \in Tasks
           /\ \/ task'[p] = task[p]
              \/ task'[p] = NoTask
<1> USE DEF storeVars, queueVars
<1>a. LocalTypeOK /\ metaStatus \in [Tasks -> Statuses]
  BY DEF TypeOK, StoreTypeOK
<1>b. task[p] \in Tasks /\ statusFile' = statusFile /\ job' = job /\ submitted' = submitted
  BY <1>a, InnerNoTransfer, ActiveTask DEF NoTransfer
<1>1. CASE StatusRow(p)
  BY <1>1, <1>a, <1>b, GotoLocals, ReturnLocals
     DEF StatusRow, WriteStatusRow, Continue
<1>2. ASSUME NEW kind \in Kinds, Record(p, kind)
      PROVE  /\ OtherLocals(p) /\ task' = task /\ metaStatus' = metaStatus
             /\ submitted' = submitted
  BY <1>2, <1>a, GotoLocals DEF Record
<1>3. ASSUME NEW kind \in Kinds, RecordRaises(p, kind) \/ ExecuteRaises(p)
      PROVE  /\ OtherLocals(p) /\ metaStatus' = metaStatus
             /\ submitted' = submitted
             /\ \/ task'[p] = task[p]
                \/ task'[p] = NoTask
  BY <1>3, <1>a, SetStatusLocals, ReturnLocals DEF RecordRaises, ExecuteRaises, Raise
<1>4. CASE SaveResult(p)
  BY <1>4, <1>a, <1>b, SetStatusLocals DEF SaveResult, WriteResult
<1>5. CASE SaveTrace(p)
  BY <1>5, <1>a, <1>b, GotoLocals, ReturnLocals DEF SaveTrace, WriteTrace
<1>6. CASE CreateTaskRow(p)
  BY <1>6, <1>a, <1>b, SetStatusLocals DEF CreateTaskRow, CreateRow
<1>7. CASE LoadFails(p)
  BY <1>7, <1>a, <1>b, ReturnLocals DEF LoadFails
<1>8. CASE Approve(p) \/ Revise(p)
  BY <1>8, <1>a, <1>b DEF Approve, Revise, LocalTypeOK, OtherLocals
<1>9. CASE RefuseRevision(p)
  BY <1>9, <1>a, <1>b, SetStatusLocals DEF RefuseRevision
<1>10. CASE Archive(p)
  BY <1>10, <1>a, <1>b, GotoLocals, ReturnLocals DEF Archive, ArchiveResult
<1>11. CASE UpdateRequest(p)
  BY <1>11, <1>a, <1>b, GotoLocals DEF UpdateRequest, WriteRequest
<1>12. CASE UpdateRequestRow(p)
  BY <1>12, <1>a, <1>b, SetStatusLocals DEF UpdateRequestRow, WriteRequestRow
<1>13. CASE Validate(p)
  BY <1>13, <1>a, <1>b DEF Validate, SetStatus, LocalTypeOK, OtherLocals
<1>14. CASE Execute(p)
  BY <1>14, <1>a, <1>b DEF Execute, LocalTypeOK, OtherLocals
<1>15. CASE ExecuteRaises(p)
  BY <1>15, <1>3, <1>b DEF Kinds
<1>16. CASE Report(p)
  BY <1>16, <1>a, <1>b DEF Report, LocalTypeOK, OtherLocals
<1> QED
  BY <1>b, <1>1, <1>2, <1>3, <1>4, <1>5, <1>6, <1>7, <1>8, <1>9, <1>10, <1>11,
     <1>12, <1>13, <1>14, <1>15, <1>16 DEF Inner

(* A worker's inner step keeps what holds of its task, of which it is the   *)
(* only process.                                                            *)
LEMMA WorkerInner ==
    ASSUME IInv, NEW w \in Workers, Inner(w), NEW t \in Tasks \ ReviewRequired,
           task[w] = t, Settled(t)
    PROVE  HeldOK(w, t)'
<1> USE DEF storeVars, queueVars, Processes
<1>a. /\ LocalTypeOK /\ metaStatus \in [Tasks -> Statuses]
      /\ t \in Tasks /\ w \in Processes /\ w \notin Handlers /\ NoTask \notin Tasks
      /\ SeedRoom[t] \in Nat /\ submitted[t] \in Nat
  BY TaskLifecycleAssumption, RoundFacts, NoTaskAssumption
     DEF IInv, TypeOK, StoreTypeOK
<1>b. ControlAt(w) /\ statusFile[t] # "waiting_for_review"
  BY <1>a DEF IInv, ControlOK, Unreviewed
<1>c. HeldOK(w, t) /\ WorkerAt(w, t) /\ payload[w].round = submitted[t]
  BY <1>a DEF Settled, HeldOK, WorkerAt
<1>d. /\ OtherLocals(w) /\ statusFile' = statusFile /\ job' = job /\ submitted' = submitted
  BY <1>a, InnerElsewhere DEF IInv
<1>e. \A v \in Workers : task'[v] = t => v = w
  BY <1>c, <1>d DEF OtherLocals, WorkerAt
<1>f. SUFFICES /\ payload'[w].round = submitted[t]
               /\ pc'[w] = "status_row" => statusFile[t] = put'[w]
               /\ pc'[w] \in {"trace", "report", "finish"} => Shown(t)'
  BY <1>a, <1>c, <1>d, <1>e DEF HeldOK, WorkerAt
<1> USE DEF WorkerAt, Shown
<1>1. CASE StatusRow(w)
  <2>1. /\ then[w] \in {"execute", "report", "trace"}
        /\ then[w] \in {"report", "trace"} => put[w] \in Outcomes
    BY <1>1, <1>a, <1>b DEF StatusRow, ControlAt, CallsSetStatus, Outcomes, Terminal
  <2>2. /\ pc'[w] = then[w] /\ payload' = payload
        /\ metaStatus'[t] = put[w]
    BY <1>1, <1>a, <2>1, GotoLocals DEF StatusRow, WriteStatusRow, Continue
  <2>3. statusFile[t] = put[w]
    BY <1>1, <1>c DEF StatusRow
  <2> QED
    BY <1>b, <1>c, <1>d, <2>1, <2>2, <2>3 DEF Outcomes
<1>2. ASSUME NEW kind \in Kinds, Record(w, kind)
      PROVE  pc'[w] \in {"memory", "experience", "save"} /\ payload' = payload
  BY <1>2, <1>a, GotoLocals DEF Record, Kinds, NextPhase
<1>3. ASSUME NEW kind \in Kinds, RecordRaises(w, kind) \/ ExecuteRaises(w)
      PROVE  pc'[w] = "status_file" /\ payload' = payload
  BY <1>3, <1>a, SetStatusLocals DEF RecordRaises, ExecuteRaises, Raise
<1>4. CASE SaveResult(w)
  BY <1>4, <1>a, <1>c, SetStatusLocals DEF SaveResult
<1>5. CASE SaveTrace(w)
  BY <1>5, <1>a, <1>c, <1>d, GotoLocals DEF SaveTrace, WriteTrace
<1>6. CASE Validate(w)
  BY <1>6, <1>a, <1>c, SetStatusLocals DEF Validate, ValidRequest
<1>7. CASE Execute(w)
  <2>1. payload' = payload /\ pc'[w] \in {"save", "provenance"}
    BY <1>7, <1>a DEF Execute, LocalTypeOK
  <2> QED
    BY <2>1, <1>c
<1>8. CASE Report(w)
  BY <1>8, <1>a, <1>c, <1>d DEF Report, LocalTypeOK
<1> QED
  BY <1>1, <1>2, <1>3, <1>4, <1>5, <1>6, <1>7, <1>8, <1>a, <1>c, <1>b
     DEF Inner, Kinds, StatusRow

(* A handler's inner step: it writes a row and goes on, or ends.            *)
LEMMA HandlerInner ==
    ASSUME IInv, NEW h \in Handlers, Inner(h), NEW t \in Tasks \ ReviewRequired,
           task[h] = t, task'[h] = t, Settled(t)
    PROVE  HeldOK(h, t)'
<1> USE DEF storeVars, queueVars, Processes
<1>a. /\ LocalTypeOK /\ h \in Processes /\ h \notin Workers /\ t # NoTask
  BY TaskLifecycleAssumption, NoTaskAssumption DEF IInv, TypeOK
<1>b. ControlAt(h) /\ HandlerAt(h, t)
  BY <1>a DEF IInv, ControlOK, Settled, HeldOK
<1>c. job' = job /\ submitted' = submitted
  BY <1>a, InnerElsewhere DEF IInv
<1>d. \/ pc[h] = "create_row" /\ CreateTaskRow(h)
      \/ pc[h] = "status_row" /\ StatusRow(h)
  BY <1>a, <1>b
     DEF Inner, HandlerAt, Creating, Cancelling, Record, RecordRaises, Kinds,
         SaveResult, SaveTrace, CreateTaskRow, LoadFails, Approve, RefuseRevision,
         Revise, Archive, UpdateRequest, UpdateRequestRow, StatusRow
<1>1. CASE CreateTaskRow(h)
  BY <1>1, <1>a, <1>b, <1>c, SetStatusLocals
     DEF CreateTaskRow, HeldOK, HandlerAt, Creating, Cancelling
<1>2. CASE StatusRow(h)
  <2>1. then[h] = "enqueue"
    BY <1>2, <1>a, <1>b, ReturnLocals
       DEF StatusRow, Continue, HandlerAt, Creating, Cancelling
  <2> QED
    BY <1>2, <2>1, <1>a, <1>b, <1>c, GotoLocals
       DEF StatusRow, Continue, HeldOK, HandlerAt, Creating, Cancelling
<1> QED
  BY <1>d, <1>1, <1>2

LEMMA InnerSettled ==
    ASSUME IInv, SettledInv, NEW p \in Processes, Inner(p)
    PROVE  SettledInv'
<1> USE DEF Processes
<1>a. /\ OtherLocals(p)
      /\ statusFile' = statusFile /\ job' = job /\ submitted' = submitted
      /\ \A u \in Tasks \ {task[p]} : metaStatus'[u] = metaStatus[u]
      /\ task[p] \in Tasks
      /\ \/ task'[p] = task[p]
         \/ task'[p] = NoTask
  BY InnerElsewhere DEF IInv
<1>b. NoTask \notin Tasks /\ Workers \cap Handlers = {}
  BY NoTaskAssumption, TaskLifecycleAssumption
<1>c. PICK t \in Tasks : task[p] = t
  BY <1>a
<1>1. ASSUME t \notin ReviewRequired
      PROVE  Settled(t)'
  <2>1. Settled(t) /\ HeldOK(p, t)
    BY <1>c, <1>1, <1>a DEF SettledInv, Settled
  <2>2. job[t].state \in {"running", "absent", "cancelled"}
    BY <2>1 DEF HeldOK, WorkerAt, HandlerAt
  <2>3. task'[p] = t => HeldOK(p, t)'
    BY <1>c, <1>1, <1>a, <2>1, WorkerInner, HandlerInner
  <2>4. ASSUME NEW q \in Processes \ {p}, task'[q] = t
        PROVE  HeldOK(q, t)'
    <3>1. task[q] = t /\ HeldOK(q, t)
      BY <1>c, <1>a, <2>1, <2>4 DEF OtherLocals, Settled
    <3>2. q \notin Workers
      <4> SUFFICES ASSUME q \in Workers PROVE FALSE
        OBVIOUS
      <4>1. job[t].state = "running" /\ p \notin Workers
        BY <1>c, <2>4, <3>1 DEF HeldOK, WorkerAt
      <4> QED
        BY <4>1, <2>1 DEF HeldOK, HandlerAt
    <3> QED
      BY <1>c, <1>a, <2>4, <3>1, <3>2
         DEF OtherLocals, HeldOK, HandlerAt, Creating, Cancelling
  <2> QED
    BY <1>c, <1>a, <2>1, <2>2, <2>3, <2>4 DEF Settled
<1>2. \A u \in Tasks \ {t} : task'[p] # u
  BY <1>c, <1>a, <1>b
<1> QED
  BY <1>a, <1>c, <1>1, <1>2, OfOne
-----------------------------------------------------------------------------
(* Steps that hand a task on.                                               *)

LEMMA StatusFileSettled ==
    ASSUME IInv, SettledInv, NEW p \in Processes, StatusFile(p)
    PROVE  SettledInv'
<1> USE DEF Processes
<1>a. /\ LocalTypeOK /\ statusFile \in [Tasks -> Statuses]
      /\ task[p] \in Tasks
      /\ NoTask \notin Tasks /\ Workers \cap Handlers = {}
  BY NoTaskAssumption, TaskLifecycleAssumption, ActiveTask
     DEF IInv, TypeOK, StoreTypeOK, StatusFile
<1>c. PICK t \in Tasks : task[p] = t
  BY <1>a
<1>b. /\ OtherLocals(p) /\ task' = task /\ payload' = payload
      /\ pc[p] = "status_file" /\ pc'[p] = "status_row"
      /\ put'[p] = put[p] /\ then'[p] = then[p]
      /\ job' = job /\ metaStatus' = metaStatus
      /\ submitted' = submitted
      /\ statusFile' = [statusFile EXCEPT ![t] = put[p]]
  BY <1>a, <1>c, GotoLocals DEF StatusFile, WriteStatusFile, queueVars
<1>1. ASSUME t \notin ReviewRequired
      PROVE  Settled(t)'
  <2>1. Settled(t) /\ HeldOK(p, t)
    BY <1>c, <1>1, <1>a DEF SettledInv, Settled
  <2>2. job[t].state \in {"running", "absent", "cancelled"}
    BY <2>1 DEF HeldOK, WorkerAt, HandlerAt
  <2>3. HeldOK(p, t)'
    BY <1>c, <1>a, <1>b, <2>1
       DEF HeldOK, WorkerAt, HandlerAt, Creating, Cancelling
  <2>4. ASSUME NEW q \in Processes \ {p}, task'[q] = t
        PROVE  HeldOK(q, t)'
    <3>1. task[q] = t /\ HeldOK(q, t)
      BY <1>c, <1>b, <2>1, <2>4 DEF Settled
    <3>2. q \notin Workers
      <4> SUFFICES ASSUME q \in Workers PROVE FALSE
        OBVIOUS
      <4>1. job[t].state = "running" /\ p \notin Workers
        BY <1>c, <2>4, <3>1 DEF HeldOK, WorkerAt
      <4> QED
        BY <4>1, <2>1 DEF HeldOK, HandlerAt
    <3> QED
      BY <1>c, <1>b, <2>4, <3>1, <3>2
         DEF OtherLocals, HeldOK, HandlerAt, Creating, Cancelling
  <2> QED
    BY <1>c, <1>b, <2>1, <2>2, <2>3, <2>4 DEF Settled
<1>2. \A u \in Tasks \ {t} : task'[p] # u /\ statusFile'[u] = statusFile[u]
  BY <1>c, <1>a, <1>b
<1> QED
  BY <1>b, <1>1, <1>2, OfOne

LEMMA CreateSettled ==
    ASSUME IInv, SettledInv, NEW h \in Handlers, NEW t \in Tasks, CreateTask(h, t)
    PROVE  SettledInv'
<1> USE DEF Processes
<1>a. /\ LocalTypeOK /\ statusFile \in [Tasks -> Statuses]
      /\ submitted \in [Tasks -> Rounds]
      /\ h \in Processes /\ h \notin Workers /\ NoTask # t
  BY NoTaskAssumption, TaskLifecycleAssumption DEF IInv, TypeOK, StoreTypeOK
<1>b. job[t].state = "absent" /\ \A p \in Processes : task[p] # t
  BY DEF CreateTask, CreateFiles, IInv, JobsHeld
<1>c. /\ payload'[h].round = submitted'[t]
      /\ \A u \in Tasks \ {t} : submitted'[u] = submitted[u]
  BY <1>a DEF CreateTask, CreateFiles, LocalTypeOK
<1>d. /\ OtherLocals(h) /\ task'[h] = t /\ pc'[h] = "create_row"
      /\ job' = job /\ metaStatus' = metaStatus
      /\ \A u \in Tasks \ {t} : statusFile'[u] = statusFile[u]
  BY <1>a DEF CreateTask, CreateFiles, LocalTypeOK, OtherLocals, queueVars
<1>1. ASSUME t \notin ReviewRequired
      PROVE  Settled(t)'
  <2>2. HeldOK(h, t)'
    BY <1>a, <1>b, <1>c, <1>d DEF HeldOK, HandlerAt, Creating
  <2>3. \A q \in Processes : task'[q] = t => q = h
    BY <1>b, <1>d DEF OtherLocals
  <2> QED
    BY <1>b, <1>d, <2>2, <2>3 DEF Settled
<1> QED
  BY <1>a, <1>c, <1>d, <1>1, OfOne

LEMMA CancelSettled ==
    ASSUME IInv, SettledInv, NEW h \in Handlers, NEW t \in Tasks, CancelTask(h, t)
    PROVE  SettledInv'
<1> USE DEF Processes
<1>a. /\ LocalTypeOK /\ job \in [Tasks -> Jobs]
      /\ h \in Processes /\ h \notin Workers /\ NoTask # t
  BY NoTaskAssumption, TaskLifecycleAssumption DEF IInv, TypeOK, QueueTypeOK
<1>d. /\ OtherLocals(h) /\ task'[h] = t
      /\ pc'[h] = "status_file" /\ then'[h] = "idle"
      /\ payload' = payload /\ statusFile' = statusFile /\ metaStatus' = metaStatus
      /\ submitted' = submitted
  BY <1>a DEF CancelTask, SetStatus, LocalTypeOK, OtherLocals, storeVars
<1>e. /\ job[t].state = "queued" /\ job'[t].state = "cancelled"
      /\ job'[t].payload = job[t].payload
      /\ \A u \in Tasks \ {t} : job'[u] = job[u]
  BY <1>a DEF CancelTask, CancelJob, Jobs
<1>1. ASSUME t \notin ReviewRequired
      PROVE  Settled(t)'
  <2>1. Settled(t)
    BY <1>1, <1>a DEF SettledInv
  <2>2. HeldOK(h, t)'
    BY <1>a, <1>d, <1>e, <2>1 DEF HeldOK, HandlerAt, Cancelling
  <2>3. \A q \in Processes : task'[q] = t => q = h
    <3>1. \A q \in Processes : task[q] # t
      BY <2>1, <1>e DEF Settled, HeldOK, WorkerAt, HandlerAt
    <3> QED
      BY <3>1, <1>d DEF OtherLocals
  <2> QED
    BY <1>d, <1>e, <2>1, <2>2, <2>3 DEF Settled
<1> QED
  BY <1>a, <1>d, <1>e, <1>1, OfOne

(* No review opens a task nobody reviews.                                   *)
LEMMA BeginSettled ==
    ASSUME IInv, SettledInv, NEW h \in Handlers, NEW t \in Tasks, NEW d \in Decisions,
           BeginReview(h, t, d)
    PROVE  SettledInv'
<1> USE DEF Processes, storeVars, queueVars
<1>a. LocalTypeOK /\ h \in Processes /\ NoTask # t
  BY NoTaskAssumption DEF IInv, TypeOK
<1>1. t \in ReviewRequired
  BY DEF BeginReview, IInv, Unreviewed
<1>2. /\ OtherLocals(h) /\ task'[h] = t
      /\ job' = job /\ statusFile' = statusFile /\ metaStatus' = metaStatus
      /\ submitted' = submitted
  BY <1>a DEF BeginReview, SetStatus, LocalTypeOK, OtherLocals
<1> QED
  BY <1>a, <1>1, <1>2, OfOne

LEMMA EnqueueSettled ==
    ASSUME ~Overrun, IInv, SettledInv, NEW h \in Handlers, EnqueueTask(h)
    PROVE  SettledInv'
<1> USE DEF Processes
<1>a. /\ LocalTypeOK /\ job \in [Tasks -> Jobs]
      /\ h \in Processes /\ h \notin Workers /\ NoTask \notin Tasks
  BY NoTaskAssumption, TaskLifecycleAssumption DEF IInv, TypeOK, QueueTypeOK
<1>c. PICK t \in Tasks : task[h] = t
  BY <1>a, ActiveTask DEF IInv, EnqueueTask
<1>d. /\ OtherLocals(h) /\ task'[h] = NoTask
      /\ statusFile' = statusFile /\ metaStatus' = metaStatus
      /\ submitted' = submitted
  BY <1>a, ReturnLocals DEF EnqueueTask, storeVars
<1>e. /\ job'[t].state = "queued" /\ job'[t].payload = payload[h]
      /\ \A u \in Tasks \ {t} : job'[u] = job[u]
  BY <1>a, <1>c DEF EnqueueTask, Enqueue
<1>1. ASSUME t \notin ReviewRequired
      PROVE  Settled(t)'
  <2>1. Settled(t) /\ HeldOK(h, t)
    BY <1>1, <1>a, <1>c DEF SettledInv, Settled
  <2>2. job[t].state = "absent" /\ payload[h].round = submitted[t]
    BY <2>1 DEF HeldOK, HandlerAt, Cancelling, EnqueueTask
  <2>3. \A q \in Processes : Owns(q, t) => q = h
    BY <1>1, <1>a, <1>c DEF IInv, Ownership, Undisturbed, Owns, EnqueueTask
  <2>4. ASSUME NEW q \in Processes, task[q] = t
        PROVE  q = h
    BY <2>1, <2>2, <2>3, <2>4
       DEF Settled, HeldOK, WorkerAt, HandlerAt, Creating, Owns
  <2>5. \A q \in Processes : task'[q] # t
    BY <1>a, <1>d, <2>4 DEF OtherLocals
  <2> QED
    BY <1>d, <1>e, <2>2, <2>5 DEF Settled
<1> QED
  BY <1>a, <1>d, <1>e, <1>1, OfOne

LEMMA ClaimSettled ==
    ASSUME IInv, SettledInv, NEW w \in Workers, NEW t \in Tasks, ClaimJob(w, t)
    PROVE  SettledInv'
<1> USE DEF Processes
<1>a. /\ LocalTypeOK /\ job \in [Tasks -> Jobs]
      /\ w \in Processes /\ w \notin Handlers /\ NoTask # t
  BY NoTaskAssumption, TaskLifecycleAssumption DEF IInv, TypeOK, QueueTypeOK
<1>d. /\ OtherLocals(w) /\ task'[w] = t /\ pc'[w] = "validate"
      /\ payload'[w] = job[t].payload
      /\ statusFile' = statusFile /\ metaStatus' = metaStatus
      /\ submitted' = submitted
  BY <1>a DEF ClaimJob, LocalTypeOK, OtherLocals, storeVars
<1>e. /\ job[t].state = "queued" /\ job'[t].state = "running" /\ ~job'[t].stale
      /\ job'[t].payload = job[t].payload
      /\ \A u \in Tasks \ {t} : job'[u] = job[u]
  BY <1>a DEF ClaimJob, Claim, Queued, Jobs
<1>1. ASSUME t \notin ReviewRequired
      PROVE  Settled(t)'
  <2>1. Settled(t)
    BY <1>1 DEF SettledInv
  <2>2. \A q \in Processes : task'[q] = t => q = w
    <3>1. \A q \in Processes : task[q] # t
      BY <2>1, <1>e DEF Settled, HeldOK, WorkerAt, HandlerAt
    <3> QED
      BY <3>1, <1>d DEF OtherLocals
  <2>3. HeldOK(w, t)'
    BY <1>a, <1>d, <1>e, <2>1, <2>2 DEF HeldOK, WorkerAt, Settled
  <2> QED
    BY <1>d, <1>e, <2>1, <2>2, <2>3 DEF Settled
<1> QED
  BY <1>a, <1>d, <1>e, <1>1, OfOne

(* The last step of a job: file and row already tell its outcome.           *)
LEMMA FinishSettled ==
    ASSUME IInv, SettledInv, NEW w \in Workers, FinishJob(w)
    PROVE  SettledInv'
<1> USE DEF Processes
<1>a. /\ LocalTypeOK /\ job \in [Tasks -> Jobs]
      /\ w \in Processes /\ w \notin Handlers /\ NoTask \notin Tasks
  BY NoTaskAssumption, TaskLifecycleAssumption DEF IInv, TypeOK, QueueTypeOK
<1>c. PICK t \in Tasks : task[w] = t
  BY <1>a, ActiveTask DEF IInv, FinishJob
<1>d. /\ OtherLocals(w) /\ task'[w] = NoTask
      /\ statusFile' = statusFile /\ metaStatus' = metaStatus
      /\ submitted' = submitted
  BY <1>a, ReturnLocals DEF FinishJob, storeVars
<1>e. /\ job'[t].payload = job[t].payload
      /\ \A u \in Tasks \ {t} : job'[u] = job[u]
  BY <1>a, <1>c DEF FinishJob, Finish, Jobs
<1>1. ASSUME t \notin ReviewRequired
      PROVE  Settled(t)'
  <2>1. Settled(t) /\ HeldOK(w, t) /\ WorkerAt(w, t)
    BY <1>1, <1>a, <1>c DEF SettledInv, Settled, HeldOK
  <2>2. Shown(t)
    BY <2>1 DEF WorkerAt, FinishJob
  <2>3. ASSUME NEW q \in Processes, task[q] = t
        PROVE  q = w
    BY <2>1, <2>3, <1>a DEF Settled, HeldOK, WorkerAt, HandlerAt
  <2>4. \A q \in Processes : task'[q] # t
    BY <1>a, <1>d, <2>3 DEF OtherLocals
  <2> QED
    BY <1>d, <1>e, <2>1, <2>2, <2>4 DEF Settled, Shown, WorkerAt
<1> QED
  BY <1>a, <1>d, <1>e, <1>1, OfOne
-----------------------------------------------------------------------------
(* The environment.                                                         *)

(* recover_running requeues what no worker holds any more.                  *)
LEMMA StartSettled ==
    ASSUME IInv, SettledInv, NEW w \in Workers, StartWorker(w)
    PROVE  SettledInv'
<1> USE DEF Processes
<1>a. LocalTypeOK /\ job \in [Tasks -> Jobs] /\ w \in Processes /\ NoTask \notin Tasks
  BY NoTaskAssumption DEF IInv, TypeOK, QueueTypeOK
<1>b. task[w] = NoTask
  BY <1>a DEF StartWorker, IInv, ControlOK, ControlAt, CallsSetStatus
<1>c. /\ OtherLocals(w) /\ task' = task /\ payload' = payload
      /\ statusFile' = statusFile /\ metaStatus' = metaStatus
      /\ submitted' = submitted
  BY <1>a, GotoLocals DEF StartWorker, storeVars
<1>1. ASSUME NEW t \in Tasks \ ReviewRequired
      PROVE  Settled(t)'
  <2>1. Settled(t)
    BY DEF SettledInv
  <2>2. CASE job[t].state = "running" /\ job[t].stale
    <3>1. job'[t].state = "queued" /\ job'[t].payload = job[t].payload
      BY <1>a, <2>2 DEF StartWorker, RecoverRunning, Jobs
    <3>2. \A q \in Processes : task[q] # t
      BY <2>1, <2>2 DEF Settled, HeldOK, WorkerAt, HandlerAt
    <3> QED
      BY <1>c, <2>1, <2>2, <3>1, <3>2 DEF Settled
  <2>3. CASE ~(job[t].state = "running" /\ job[t].stale)
    <3>1. job'[t] = job[t]
      BY <2>3 DEF StartWorker, RecoverRunning
    <3> QED
      BY <1>a, <1>b, <1>c, <2>1, <3>1, Elsewhere
  <2> QED
    BY <2>2, <2>3
<1> QED
  BY <1>1, <1>c DEF SettledInv

LEMMA CrashSettled ==
    ASSUME IInv, SettledInv, NEW w \in Workers, CrashWorker(w)
    PROVE  SettledInv'
<1> USE DEF Processes
<1>1. LocalTypeOK /\ w \in Processes /\ NoTask \notin Tasks
  BY NoTaskAssumption DEF IInv, TypeOK
<1>2. /\ OtherLocals(w) /\ task'[w] = NoTask
      /\ statusFile' = statusFile /\ metaStatus' = metaStatus /\ job' = job
      /\ submitted' = submitted
  BY <1>1, ReturnLocals DEF CrashWorker, storeVars, queueVars
<1>3. \A t \in Tasks \ ReviewRequired : Settled(t)'
  BY <1>1, <1>2, Elsewhere DEF SettledInv
<1> QED
  BY <1>3 DEF SettledInv

LEMMA CrashApiSettled ==
    ASSUME IInv, SettledInv, CrashApi
    PROVE  SettledInv'
<1> USE DEF Processes
<1>1. /\ LocalTypeOK /\ NoTask \notin Tasks
      /\ Workers \cap Handlers = {}
  BY NoTaskAssumption, TaskLifecycleAssumption DEF IInv, TypeOK
<1>2. /\ \A h \in Handlers : task'[h] = NoTask
      /\ \A w \in Workers :
            /\ pc'[w] = pc[w] /\ task'[w] = task[w] /\ payload'[w] = payload[w]
            /\ put'[w] = put[w] /\ then'[w] = then[w]
      /\ statusFile' = statusFile /\ metaStatus' = metaStatus /\ job' = job
      /\ submitted' = submitted
  BY <1>1 DEF CrashApi, storeVars, queueVars
<1>3. ASSUME NEW t \in Tasks \ ReviewRequired
      PROVE  Settled(t)'
  <2>1. Settled(t)
    BY DEF SettledInv
  <2>2. ASSUME NEW q \in Processes, task'[q] = t
        PROVE  HeldOK(q, t)'
    BY <1>1, <1>2, <2>1, <2>2 DEF Settled, HeldOK, WorkerAt, Shown
  <2> QED
    BY <1>2, <2>1, <2>2 DEF Settled, Shown
<1> QED
  BY <1>2, <1>3 DEF SettledInv

(* A job that a worker still executes does not grow stale.                  *)
LEMMA ElapseSettled ==
    ASSUME ~Overrun, IInv, SettledInv, NEW t \in Tasks, Elapse(t)
    PROVE  SettledInv'
<1> USE DEF Processes
<1>1. job \in [Tasks -> Jobs]
  BY DEF IInv, TypeOK, QueueTypeOK
<1>2. /\ \A w \in Workers : task[w] # t
      /\ job[t].state = "running"
      /\ job'[t].state = "running" /\ job'[t].payload = job[t].payload
      /\ \A u \in Tasks \ {t} : job'[u] = job[u]
  BY <1>1 DEF Elapse, BecomeStale, Jobs
<1>3. UNCHANGED <<pc, task, payload, put, then, statusFile, metaStatus, submitted>>
  BY DEF Elapse, localVars, storeVars
<1>4. ASSUME NEW u \in Tasks \ ReviewRequired
      PROVE  Settled(u)'
  <2>1. Settled(u)
    BY DEF SettledInv
  <2>2. CASE u = t
    <3>1. \A q \in Processes : task[q] # t
      BY <1>2, <2>1, <2>2 DEF Settled, HeldOK, HandlerAt
    <3> QED
      BY <1>2, <1>3, <2>1, <2>2, <3>1 DEF Settled
  <2>3. CASE u # t
    BY <1>2, <1>3, <2>1, <2>3
       DEF Settled, HeldOK, WorkerAt, HandlerAt, Creating, Cancelling, Shown
  <2> QED
    BY <2>2, <2>3
<1> QED
  BY <1>3, <1>4 DEF SettledInv
-----------------------------------------------------------------------------
LEMMA SettledInit == Init => SettledInv
<1> SUFFICES ASSUME Init PROVE SettledInv
  OBVIOUS
<1>1. NoJob.state = "absent"
  BY DEF NoJob
<1> QED
  BY <1>1, NoTaskAssumption DEF Init, QueueInit, SettledInv, Settled, Processes

LEMMA SettledStep ==
    ASSUME ~Overrun, IInv, SettledInv, [Next]_vars
    PROVE  SettledInv'
<1>1. CASE UNCHANGED vars
  BY <1>1
     DEF vars, storeVars, queueVars, localVars, SettledInv, Settled, HeldOK,
         WorkerAt, HandlerAt, Creating, Cancelling, Shown
<1> QED
  BY <1>1, StepCases, InnerSettled, StatusFileSettled, CreateSettled, CancelSettled,
     BeginSettled, EnqueueSettled, StartSettled, FinishSettled, CrashSettled,
     ClaimSettled, ElapseSettled, CrashApiSettled

LEMMA SettledAlways == ASSUME ~Overrun PROVE Spec => []SettledInv
<1>1. IInv /\ SettledInv /\ [Next]_vars => SettledInv'
  BY SettledStep
<1> QED
  BY <1>1, SettledInit, Invariance, PTL DEF Spec

(* If jobs end within WORKER_STALE_SECONDS, however many workers and API    *)
(* processes are killed at any step, no unreviewed task that entered the    *)
(* queue is lost (task_queue.recover_running, worker.run).                  *)
THEOREM RecoveryLosesNothing == ASSUME ~Overrun PROVE Spec => []NothingLost
<1>1. SettledInv => NothingLost
  BY DEF SettledInv, Settled, Shown, NothingLost
<1> QED
  BY <1>1, SettledAlways, PTL

(* Under the same assumption, status.json and the row of an unreviewed task *)
(* agree once its job has ended, although every set_status writes them one  *)
(* after the other (TaskStore.set_status).                                  *)
THEOREM RowsCatchUp == ASSUME ~Overrun PROVE Spec => []RowFollowsFile
<1>1. SettledInv => RowFollowsFile
  BY DEF SettledInv, Settled, Shown, RowFollowsFile
<1> QED
  BY <1>1, SettledAlways, PTL
=============================================================================
