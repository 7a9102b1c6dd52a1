------------------------ MODULE TaskReview_proofs ------------------------
(***************************************************************************)
(* What the service owes a task between its rounds of review: the history  *)
(* of a result, the rounds of request, payload, archives and result, the   *)
(* records of a result, final statuses, and the promise of TaskPromise.    *)
(* As long as jobs end within WORKER_STALE_SECONDS and no worker is        *)
(* killed, one invariant says of every task what its owner knows of it     *)
(* (Life); a task nobody reviews has a simple one of its own (Plain).      *)
(***************************************************************************)
EXTENDS TaskLifecycle_proofs, SequenceTheorems

(* The reviews before round k of a task submitted with round f.             *)
Revisions(f, k) ==
    [i \in 1..(k - f) |-> [round |-> f + i - 1, decision |-> "revise"]]

Approval(f, k) == Append(Revisions(f, k), [round |-> k, decision |-> "approve"])

RequestOf(f, k) == [round |-> k, history |-> Revisions(f, k)]

Preview(f, k) == [status |-> "waiting_for_review", round |-> k,
                  history |-> Revisions(f, k), assets |-> TRUE]

Approved(f, k) ==
    [Preview(f, k) EXCEPT !.status = "completed", !.history = Approval(f, k)]

(* The request as the client submitted it.                                  *)
FirstRequest(t) == [round |-> submitted[t], history |-> <<>>]

Untouched(t) == \A k \in Kinds : records[t][k] = 0

(* A reviewer has opened the task and changed nothing yet.                  *)
UnderReview(t) ==
    /\ statusFile[t] = "review_processing"
    /\ resultFile[t] = Preview(submitted[t], requestFile[t])
    /\ Untouched(t)

(* What a process that closes a result has recorded so far.                 *)
Phase(p, t) ==
    /\ pc[p] = "provenance" => Untouched(t)
    /\ pc[p] = "memory" => records[t]["memory"] = 0 /\ records[t]["experience"] = 0
    /\ pc[p] = "experience" => records[t]["experience"] = 0

(* The result a worker has got, the result a reviewer has approved.         *)
ResultOf(p, t) ==
    IF p \in Workers
    THEN /\ statusFile[t] = "running"
         /\ result[p].round = requestFile[t]
         /\ result[p].history = Revisions(submitted[t], requestFile[t])
         /\ IF t \in ReviewRequired /\ result[p].assets
            THEN /\ result[p] = Preview(submitted[t], requestFile[t])
                 /\ Untouched(t) /\ pc[p] \in {"save", "status_file"}
            ELSE result[p].status \in EngineStatuses
    ELSE /\ statusFile[t] = "review_processing"
         /\ result[p] = Approved(submitted[t], requestFile[t])

(* Before set_status writes status.json.                                    *)
BeforeStatus(p, t) ==
    LET s == statusFile[t]
        r == requestFile[t]
        f == submitted[t]
    IN
    /\ then[p] = "enqueue" =>
         /\ payload[p] = RequestOf(f, r) /\ Untouched(t)
         /\ s = "created" \/ (s = "review_processing" /\ resultFile[t].round < r)
    /\ then[p] = "load" => s = "waiting_for_review"
    /\ then[p] = "idle" => IF put[p] = "cancelled" THEN s = "queued" ELSE UnderReview(t)
    /\ then[p] = "execute" => s = "queued" /\ payload[p] = RequestOf(f, r)
    /\ then[p] = "report" => s = "running"
    /\ then[p] = "trace" =>
         put[p] = result[p].status /\ resultFile[t] = result[p] /\ ResultOf(p, t)

(* What the owner p of t knows of it.                                       *)
OwnerLife(p, t) ==
    LET s == statusFile[t]
        r == requestFile[t]
        f == submitted[t]
    IN
    /\ pc[p] = "create_row" => s = "created" /\ payload[p] = RequestOf(f, r)
    /\ pc[p] = "status_file" => BeforeStatus(p, t)
    /\ pc[p] = "enqueue" \/ (pc[p] = "status_row" /\ then[p] = "enqueue") =>
         s = "queued" /\ payload[p] = RequestOf(f, r)
    /\ pc[p] = "load" \/ (pc[p] = "status_row" /\ then[p] = "load") => UnderReview(t)
    /\ pc[p] \in {"archive", "request_file"} =>
         UnderReview(t) /\ payload[p] = RequestOf(f, r + 1) /\ r < MaxReviewRounds
    /\ pc[p] = "request_file" => archived[t][r] = Preview(f, r)
    /\ pc[p] = "request_row" =>
         /\ s = "review_processing" /\ resultFile[t].round < r
         /\ payload[p] = RequestOf(f, r) /\ Untouched(t)
    /\ pc[p] = "validate" => s = "queued" /\ payload[p] = RequestOf(f, r)
    /\ pc[p] = "execute" \/ (pc[p] = "status_row" /\ then[p] = "execute") =>
         s = "running" /\ payload[p] = RequestOf(f, r) /\ Untouched(t)
    /\ pc[p] \in {"provenance", "memory", "experience", "save"} =>
         /\ ResultOf(p, t) /\ Phase(p, t)
         /\ p \in Handlers => resultFile[t] = Preview(f, r)

(* What files, row and records say of t.                                    *)
FileLife(t) ==
    LET s == statusFile[t]
        r == requestFile[t]
        f == submitted[t]
        res == resultFile[t]
    IN
    /\ f <= r
    /\ res # NoResult =>
         /\ f <= res.round /\ res.round <= r
         /\ res.history \in {Revisions(f, res.round), Approval(f, res.round)}
    /\ \A i \in f..(r - 1) : archived[t][i] = Preview(f, i)
    /\ s = "waiting_for_review" => res = Preview(f, r)
    /\ s = "completed" /\ t \in ReviewRequired /\ res.assets => res = Approved(f, r)
    /\ s \in {"absent", "created", "queued", "waiting_for_review"} => Untouched(t)
    /\ \A k \in Kinds : records[t][k] <= 1
    /\ job[t].state = "queued" => s = "queued" /\ job[t].payload = RequestOf(f, r)

Life(t) == FileLife(t) /\ \A p \in Processes : Owns(p, t) => OwnerLife(p, t)

LifeInv == ~Overrun /\ restarts = 0 => \A t \in Tasks : Life(t)

(* A process without a task has nothing left of the last one.               *)
BlankInv ==
    \A p \in Processes :
       task[p] = NoTask => payload[p] = NoPayload /\ result[p] = NoResult

(* A task nobody has created yet has no result.                             *)
FreshInv == \A t \in Tasks : statusFile[t] = "absent" => resultFile[t] = NoResult

(* A task nobody reviews stays in the round it was submitted with and has   *)
(* no history, whatever happens.                                            *)
PlainResult(res, t) ==
    res # NoResult => res.round = submitted[t] /\ res.history = <<>>

PlainAt(p, t) ==
    /\ PlainResult(result[p], t)
    /\ p \in Workers \/ Creating(p) => payload[p] = FirstRequest(t)
    /\ p \in Handlers => Creating(p) \/ Cancelling(p)

PlainFiles(t) ==
    /\ requestFile[t] = submitted[t]
    /\ PlainResult(resultFile[t], t)
    /\ job[t].state \in {"queued", "running"} => job[t].payload = FirstRequest(t)

Plain(t) ==
    /\ PlainFiles(t)
    /\ \A p \in Processes : task[p] = t => PlainAt(p, t)

PlainInv == \A t \in Tasks \ ReviewRequired : Plain(t)

-----------------------------------------------------------------------------
(* Histories, requests and results of round k.                              *)

LEMMA FirstRevisions ==
    ASSUME NEW f \in Nat
    PROVE  Revisions(f, f) = <<>> /\ RequestOf(f, f) = [round |-> f, history |-> <<>>]
BY DEF Revisions, RequestOf

LEMMA RevisionFacts ==
    ASSUME NEW f \in Nat, NEW k \in Nat, f <= k
    PROVE  /\ Len(Revisions(f, k)) = k - f
           /\ \A i \in 1..(k - f) :
                Revisions(f, k)[i] = [round |-> f + i - 1, decision |-> "revise"]
           /\ Append(Revisions(f, k), [round |-> k, decision |-> "revise"]) =
                Revisions(f, k + 1)
<1> DEFINE Review == [round : Nat, decision : {"revise"}]
<1>1. Revisions(f, k) \in Seq(Review) /\ Revisions(f, k + 1) \in Seq(Review)
  BY DEF Revisions
<1>2. Len(Revisions(f, k)) = k - f /\ Len(Revisions(f, k + 1)) = (k - f) + 1
  BY DEF Revisions
<1>3. [round |-> k, decision |-> "revise"] \in Review
  OBVIOUS
<1> HIDE DEF Review
<1>4. Append(Revisions(f, k), [round |-> k, decision |-> "revise"]) = Revisions(f, k + 1)
  <2>1. PICK s : s = Append(Revisions(f, k), [round |-> k, decision |-> "revise"])
    OBVIOUS
  <2>2. s \in Seq(Review) /\ Len(s) = (k - f) + 1
    BY <1>1, <1>2, <1>3, <2>1, AppendProperties
  <2>3. ASSUME NEW i \in 1..((k - f) + 1)
        PROVE  s[i] = Revisions(f, k + 1)[i]
    <3>1. s[i] = IF i = (k - f) + 1 THEN [round |-> k, decision |-> "revise"]
                 ELSE Revisions(f, k)[i]
      BY <1>1, <1>2, <1>3, <2>1, AppendProperties
    <3>2. Revisions(f, k + 1)[i] = [round |-> f + i - 1, decision |-> "revise"]
      BY DEF Revisions
    <3>3. i # (k - f) + 1 =>
            Revisions(f, k)[i] = [round |-> f + i - 1, decision |-> "revise"]
      BY DEF Revisions
    <3>4. i = (k - f) + 1 => f + i - 1 = k
      OBVIOUS
    <3> QED
      BY <3>1, <3>2, <3>3, <3>4
  <2>4. s = Revisions(f, k + 1)
    BY <1>1, <1>2, <2>2, <2>3, SeqEqual
  <2> QED
    BY <2>1, <2>4
<1> QED
  BY <1>2, <1>4 DEF Revisions

LEMMA ApprovalFacts ==
    ASSUME NEW f \in Nat, NEW k \in Nat, f <= k
    PROVE  /\ Len(Approval(f, k)) = k - f + 1
           /\ Approval(f, k)[k - f + 1] = [round |-> k, decision |-> "approve"]
           /\ \A i \in 1..(k - f) :
                Approval(f, k)[i] = [round |-> f + i - 1, decision |-> "revise"]
<1> DEFINE Review == [round : Nat, decision : {"revise", "approve"}]
<1>1. Revisions(f, k) \in Seq(Review) /\ [round |-> k, decision |-> "approve"] \in Review
  BY DEF Revisions
<1>2. /\ Len(Revisions(f, k)) = k - f
      /\ \A i \in 1..(k - f) :
           Revisions(f, k)[i] = [round |-> f + i - 1, decision |-> "revise"]
  BY RevisionFacts
<1> HIDE DEF Review
<1> QED
  BY <1>1, <1>2, AppendProperties DEF Approval

LEMMA Counted ==
    ASSUME IInv, NEW t \in Tasks
    PROVE  /\ submitted[t] \in Nat /\ requestFile[t] \in Nat
           /\ requestFile[t] \in Rounds /\ resultFile[t].round \in Nat
BY RoundFacts DEF IInv, TypeOK, StoreTypeOK, Results

-----------------------------------------------------------------------------
(* Locality.                                                                *)

SameFiles(t) ==
    /\ statusFile'[t] = statusFile[t] /\ requestFile'[t] = requestFile[t]
    /\ resultFile'[t] = resultFile[t] /\ archived'[t] = archived[t]
    /\ records'[t] = records[t] /\ submitted'[t] = submitted[t]

LEMMA FileSame ==
    ASSUME NEW t, FileLife(t), SameFiles(t),
           job'[t] = job[t] \/ job'[t].state # "queued"
    PROVE  FileLife(t)'
BY DEF FileLife, SameFiles, Untouched

LEMMA OwnerSame ==
    ASSUME NEW t, NEW q, OwnerLife(q, t), SameFiles(t),
           pc'[q] = pc[q], put'[q] = put[q], then'[q] = then[q],
           payload'[q] = payload[q], result'[q] = result[q]
    PROVE  OwnerLife(q, t)'
BY DEF OwnerLife, BeforeStatus, ResultOf, Phase, UnderReview, Untouched, SameFiles

Locals(p) == Alone(p) /\ OtherLocals(p)

(* A step of p that leaves the files of t alone and makes p no owner of t.  *)
LEMMA LifeElsewhere ==
    ASSUME NEW p \in Processes, NEW t \in Tasks, Life(t), Locals(p), SameFiles(t),
           job'[t] = job[t] \/ job'[t].state # "queued",
           ~Owns(p, t)'
    PROVE  Life(t)'
<1>1. ASSUME NEW q \in Processes, Owns(q, t)'
      PROVE  OwnerLife(q, t)'
  <2>1. /\ pc'[q] = pc[q] /\ put'[q] = put[q] /\ then'[q] = then[q]
        /\ payload'[q] = payload[q] /\ result'[q] = result[q] /\ task'[q] = task[q]
    BY <1>1 DEF Locals, Alone, OtherLocals
  <2>2. Owns(q, t)
    BY <1>1, <2>1 DEF Owns
  <2> QED
    BY <2>1, <2>2, OwnerSame DEF Life
<1> QED
  BY <1>1, FileSame DEF Life

(* A step of the owner of t: nobody else has anything to say of t.          *)
LEMMA LifeOfOwner ==
    ASSUME NEW p \in Processes, NEW t \in Tasks, Locals(p),
           \A q \in Processes : Owns(q, t) => q = p,
           FileLife(t)', Owns(p, t)' => OwnerLife(p, t)'
    PROVE  Life(t)'
<1>1. ASSUME NEW q \in Processes, Owns(q, t)'
      PROVE  q = p
  BY <1>1 DEF Locals, Alone, OtherLocals, Owns
<1> QED
  BY <1>1 DEF Life
-----------------------------------------------------------------------------
(* Inner steps.                                                             *)

(* What such a step leaves alone: the files of a task p does not own.       *)
LEMMA InnerFiles ==
    ASSUME TypeOK, ControlOK, NEW p \in Processes, Inner(p)
    PROVE  /\ Locals(p) /\ job' = job /\ statusFile' = statusFile
           /\ restarts' = restarts
           /\ \A t \in Tasks : ~Owns(p, t) => SameFiles(t) /\ ~Owns(p, t)'
<1> USE DEF SameFiles, storeVars, queueVars
<1>a. /\ Locals(p) /\ job' = job /\ statusFile' = statusFile /\ restarts' = restarts
      /\ \A t \in Tasks : ~Owns(p, t) => ~Owns(p, t)'
  BY InnerElsewhere, InnerNoGain, InnerNoTransfer DEF Locals, NoGain, NoTransfer
<1>b. /\ requestFile \in [Tasks -> Rounds] /\ resultFile \in [Tasks -> Results]
      /\ archived \in [Tasks -> [Rounds -> Results]]
      /\ records \in [Tasks -> [Kinds -> Nat]]
  BY DEF TypeOK, StoreTypeOK
<1>c. SUFFICES ASSUME NEW t \in Tasks, ~Owns(p, t)
               PROVE  SameFiles(t)
  BY <1>a
<1>1. CASE StatusRow(p) \/ SaveTrace(p)
  BY <1>1, <1>a DEF StatusRow, WriteStatusRow, SaveTrace, WriteTrace
<1>2. ASSUME NEW kind \in Kinds, Record(p, kind)
      PROVE  SameFiles(t)
  BY <1>2, <1>a, <1>b, <1>c DEF Record, Owns, Kinds
<1>3. ASSUME NEW kind \in Kinds, RecordRaises(p, kind)
      PROVE  SameFiles(t)
  BY <1>3, <1>a DEF RecordRaises
<1>4. CASE SaveResult(p)
  BY <1>4, <1>a, <1>b, <1>c DEF SaveResult, WriteResult, Owns
<1>5. CASE CreateTaskRow(p) \/ LoadFails(p) \/ Approve(p) \/ RefuseRevision(p)
           \/ Revise(p) \/ UpdateRequestRow(p)
  BY <1>5, <1>a
     DEF CreateTaskRow, CreateRow, LoadFails, Approve, RefuseRevision, Revise,
         UpdateRequestRow, WriteRequestRow
<1>6. CASE Archive(p)
  BY <1>6, <1>a, <1>b, <1>c DEF Archive, ArchiveResult, Owns
<1>7. CASE UpdateRequest(p)
  BY <1>7, <1>a, <1>b, <1>c DEF UpdateRequest, WriteRequest, Owns
<1>8. CASE Validate(p) \/ Execute(p) \/ ExecuteRaises(p) \/ Report(p)
  BY <1>8, <1>a DEF Validate, Execute, ExecuteRaises, Report
<1> QED
  BY <1>1, <1>2, <1>3, <1>4, <1>5, <1>6, <1>7, <1>8 DEF Inner

(* The owner p of t, before its step.                                       *)
Carries(p, t) ==
    /\ IInv /\ task[p] = t
    /\ FileLife(t) /\ OwnerLife(p, t)

(* The same after it, if p still owns t.                                    *)
Carried(p, t) == FileLife(t) /\ (Owns(p, t) => OwnerLife(p, t))

(* A step that moves p only: the files stay, and so what they say.          *)
LEMMA Moved ==
    ASSUME NEW p, NEW t, FileLife(t), SameFiles(t), job'[t] = job[t],
           Owns(p, t)' => OwnerLife(p, t)'
    PROVE  Carried(p, t)'
BY FileSame DEF Carried

(* set_status returns.                                                      *)
LEMMA StatusRowLife ==
    ASSUME NEW p \in Processes, NEW t \in Tasks, Carries(p, t), StatusRow(p)
    PROVE  Carried(p, t)'
<1> USE DEF storeVars, queueVars
<1>a. LocalTypeOK /\ ControlAt(p) /\ NoTask \notin Tasks
  BY NoTaskAssumption DEF Carries, IInv, TypeOK, ControlOK
<1>b. SameFiles(t) /\ job' = job
  BY <1>a DEF StatusRow, WriteStatusRow, SameFiles
<1>c. pc[p] = "status_row" /\ CallsSetStatus(p)
  BY <1>a DEF StatusRow, ControlAt
<1>1. CASE then[p] = "idle"
  <2>1. ~Owns(p, t)'
    BY <1>1, <1>a, ReturnEffect DEF StatusRow, Continue, Owns
  <2> QED
    BY <1>b, <2>1, Moved DEF Carries
<1>2. CASE then[p] # "idle"
  <2>1. /\ pc'[p] = then[p] /\ then'[p] = then[p]
        /\ payload'[p] = payload[p] /\ result'[p] = result[p]
    BY <1>2, <1>a, GotoEffect, GotoLocals DEF StatusRow, Continue
  <2>2. then[p] \in {"enqueue", "load", "execute", "report", "trace"}
    BY <1>2, <1>c DEF CallsSetStatus
  <2>3. Owns(p, t)' => OwnerLife(p, t)'
    BY <1>b, <1>c, <2>1, <2>2
       DEF Carries, OwnerLife, SameFiles, Owns, UnderReview, Untouched
  <2> QED
    BY <1>b, <2>3, Moved DEF Carries
<1> QED
  BY <1>1, <1>2

LEMMA CreateTaskRowLife ==
    ASSUME NEW p \in Processes, NEW t \in Tasks, Carries(p, t), CreateTaskRow(p)
    PROVE  Carried(p, t)'
<1> USE DEF storeVars, queueVars
<1>a. LocalTypeOK
  BY DEF Carries, IInv, TypeOK
<1>b. SameFiles(t) /\ job' = job
  BY DEF CreateTaskRow, CreateRow, SameFiles
<1>1. /\ pc'[p] = "status_file" /\ then'[p] = "enqueue"
      /\ payload'[p] = payload[p]
  BY <1>a, SetStatusEffect DEF CreateTaskRow
<1>2. Owns(p, t)' => OwnerLife(p, t)'
  BY <1>b, <1>1
     DEF Carries, CreateTaskRow, OwnerLife, BeforeStatus, FileLife, SameFiles, Untouched
<1> QED
  BY <1>b, <1>2, Moved DEF Carries

LEMMA UpdateRequestRowLife ==
    ASSUME NEW p \in Processes, NEW t \in Tasks, Carries(p, t), UpdateRequestRow(p)
    PROVE  Carried(p, t)'
<1> USE DEF storeVars, queueVars
<1>a. LocalTypeOK
  BY DEF Carries, IInv, TypeOK
<1>b. SameFiles(t) /\ job' = job
  BY DEF UpdateRequestRow, WriteRequestRow, SameFiles
<1>1. /\ pc'[p] = "status_file" /\ then'[p] = "enqueue"
      /\ payload'[p] = payload[p]
  BY <1>a, SetStatusEffect DEF UpdateRequestRow
<1>2. Owns(p, t)' => OwnerLife(p, t)'
  BY <1>b, <1>1
     DEF Carries, UpdateRequestRow, OwnerLife, BeforeStatus, SameFiles, Untouched
<1> QED
  BY <1>b, <1>2, Moved DEF Carries
(* A review reads the task it has opened.                                   *)
LEMMA LoadFailsLife ==
    ASSUME NEW p \in Processes, NEW t \in Tasks, Carries(p, t),
           LoadFails(p)
    PROVE  Carried(p, t)'
<1> USE DEF storeVars, queueVars
<1>a. LocalTypeOK /\ NoTask \notin Tasks
  BY NoTaskAssumption DEF Carries, IInv, TypeOK
<1>b. SameFiles(t) /\ job' = job
  BY DEF LoadFails, SameFiles
<1>1. ~Owns(p, t)'
  BY <1>a, ReturnEffect DEF LoadFails, Owns
<1> QED
  BY <1>b, <1>1, Moved DEF Carries

LEMMA ApproveLife ==
    ASSUME NEW p \in Handlers, NEW t \in Tasks, Carries(p, t), Approve(p)
    PROVE  Carried(p, t)'
<1> USE DEF storeVars, queueVars, Processes
<1>a. /\ LocalTypeOK /\ p \notin Workers
      /\ requestFile[t] \in Nat /\ submitted[t] \in Nat
  BY Counted, TaskLifecycleAssumption DEF Carries, IInv, TypeOK
<1>b. SameFiles(t) /\ job' = job
  BY DEF Approve, SameFiles
<1>c. UnderReview(t)
  BY DEF Approve, Carries, OwnerLife
<1>1. ReviewHistory(t, "approve") = Approval(submitted[t], requestFile[t])
  BY <1>c DEF UnderReview, ReviewHistory, Approval, Preview
<1>2. /\ result'[p] = [resultFile[t] EXCEPT !.status = "completed",
                                            !.history = ReviewHistory(t, "approve")]
      /\ pc'[p] = "provenance"
  BY <1>a DEF Approve, LocalTypeOK, Carries
<1>3. result'[p] = Approved(submitted[t], requestFile[t])
  BY <1>1, <1>2, <1>c DEF UnderReview, Approved
<1>4. Owns(p, t)' => OwnerLife(p, t)'
  BY <1>a, <1>b, <1>c, <1>2, <1>3
     DEF OwnerLife, ResultOf, Phase, UnderReview, Untouched, SameFiles
<1> QED
  BY <1>b, <1>4, Moved DEF Carries

LEMMA RefuseRevisionLife ==
    ASSUME NEW p \in Handlers, NEW t \in Tasks, Carries(p, t), RefuseRevision(p)
    PROVE  Carried(p, t)'
<1> USE DEF storeVars, queueVars, Processes
<1>a. LocalTypeOK
  BY DEF Carries, IInv, TypeOK
<1>b. SameFiles(t) /\ job' = job
  BY DEF RefuseRevision, SameFiles
<1>c. UnderReview(t)
  BY DEF RefuseRevision, Carries, OwnerLife
<1>1. /\ pc'[p] = "status_file" /\ then'[p] = "idle"
      /\ put'[p] = "waiting_for_review"
  BY <1>a, SetStatusEffect DEF RefuseRevision
<1>2. Owns(p, t)' => OwnerLife(p, t)'
  BY <1>b, <1>c, <1>1
     DEF OwnerLife, BeforeStatus, UnderReview, Untouched, SameFiles
<1> QED
  BY <1>b, <1>2, Moved DEF Carries

LEMMA ReviseLife ==
    ASSUME NEW p \in Handlers, NEW t \in Tasks, Carries(p, t), Revise(p)
    PROVE  Carried(p, t)'
<1> USE DEF storeVars, queueVars, Processes
<1>a. /\ LocalTypeOK /\ requestFile[t] \in Nat /\ submitted[t] \in Nat
      /\ submitted[t] <= requestFile[t]
  BY Counted DEF Carries, FileLife, IInv, TypeOK
<1>b. SameFiles(t) /\ job' = job
  BY DEF Revise, SameFiles
<1>c. UnderReview(t)
  BY DEF Revise, Carries, OwnerLife
<1>1. ReviewHistory(t, "revise") = Revisions(submitted[t], requestFile[t] + 1)
  <2>1. resultFile[t].history = Revisions(submitted[t], requestFile[t])
    BY <1>c DEF UnderReview, Preview
  <2> QED
    BY <1>a, <2>1, RevisionFacts DEF ReviewHistory
<1>2. /\ payload'[p] = RequestOf(submitted[t], requestFile[t] + 1)
      /\ pc'[p] = "archive" /\ requestFile[t] < MaxReviewRounds
  BY <1>1, <1>a DEF Revise, LocalTypeOK, Carries, RequestOf
<1>3. Owns(p, t)' => OwnerLife(p, t)'
  BY <1>b, <1>c, <1>2 DEF OwnerLife, UnderReview, Untouched, SameFiles
<1> QED
  BY <1>b, <1>3, Moved DEF Carries

(* A revision is prepared: the result is archived, the request replaced.    *)
LEMMA ArchiveLife ==
    ASSUME NEW p \in Handlers, NEW t \in Tasks, Carries(p, t), Archive(p)
    PROVE  Carried(p, t)'
<1> USE DEF storeVars, queueVars, Processes
<1>a. /\ LocalTypeOK /\ requestFile[t] \in Nat /\ NoTask \notin Tasks
      /\ archived \in [Tasks -> [Rounds -> Results]]
      /\ requestFile[t] \in Rounds /\ submitted[t] \in Nat
  BY Counted, NoTaskAssumption DEF Carries, IInv, TypeOK, StoreTypeOK
<1>b. /\ UnderReview(t) /\ payload[p] = RequestOf(submitted[t], requestFile[t] + 1)
      /\ requestFile[t] < MaxReviewRounds
  BY DEF Archive, Carries, OwnerLife
<1>c. payload[p].round - 1 = requestFile[t]
  BY <1>a, <1>b DEF RequestOf
<1>1. CASE ArchiveExists(t, payload[p].round - 1) /\ Return(p, "idle")
           /\ UNCHANGED storeVars
  <2>1. SameFiles(t) /\ job' = job /\ ~Owns(p, t)'
    BY <1>1, <1>a, ReturnEffect DEF Archive, SameFiles, Owns
  <2> QED
    BY <2>1, Moved DEF Carries
<1>2. CASE ArchiveResult(t, requestFile[t]) /\ Goto(p, "request_file")
  <2>1. /\ pc'[p] = "request_file" /\ payload'[p] = payload[p]
    BY <1>2, <1>a, GotoEffect, GotoLocals
  <2>2. /\ archived'[t] = [archived[t] EXCEPT ![requestFile[t]] = resultFile[t]]
        /\ statusFile' = statusFile /\ requestFile' = requestFile
        /\ resultFile' = resultFile /\ job' = job /\ records' = records
        /\ submitted' = submitted
    BY <1>2, <1>a DEF ArchiveResult, Archive
  <2>3. /\ archived'[t][requestFile[t]] = Preview(submitted[t], requestFile[t])
        /\ \A i \in submitted[t]..(requestFile[t] - 1) :
             archived'[t][i] = archived[t][i]
    <3>1. resultFile[t] = Preview(submitted[t], requestFile[t])
      BY <1>b DEF UnderReview
    <3>2. submitted[t]..(requestFile[t] - 1) \subseteq Rounds
      BY <1>a, <1>b, RoundFacts DEF Rounds
    <3>3. archived[t] \in [Rounds -> Results]
      BY <1>a
    <3>4. ASSUME NEW i \in submitted[t]..(requestFile[t] - 1)
          PROVE  archived'[t][i] = archived[t][i]
      BY <2>2, <1>a, <3>2, <3>3
    <3> QED
      BY <2>2, <1>a, <3>1, <3>3, <3>4
  <2>4. FileLife(t)'
    BY <2>2, <2>3 DEF Carries, FileLife, Untouched
  <2>5. Owns(p, t)' => OwnerLife(p, t)'
    BY <1>b, <2>1, <2>2, <2>3 DEF OwnerLife, UnderReview, Untouched
  <2> QED
    BY <2>4, <2>5 DEF Carried
<1> QED
  BY <1>1, <1>2, <1>c DEF Archive, Carries

LEMMA UpdateRequestLife ==
    ASSUME NEW p \in Handlers, NEW t \in Tasks, Carries(p, t), UpdateRequest(p)
    PROVE  Carried(p, t)'
<1> USE DEF storeVars, queueVars, Processes
<1>a. /\ LocalTypeOK /\ requestFile \in [Tasks -> Rounds]
      /\ requestFile[t] \in Nat /\ submitted[t] \in Nat
      /\ submitted[t] <= requestFile[t]
  BY Counted DEF Carries, FileLife, IInv, TypeOK, StoreTypeOK
<1>b. /\ UnderReview(t) /\ payload[p] = RequestOf(submitted[t], requestFile[t] + 1)
      /\ archived[t][requestFile[t]] = Preview(submitted[t], requestFile[t])
  BY DEF UpdateRequest, Carries, OwnerLife
<1>1. /\ pc'[p] = "request_row" /\ payload'[p] = payload[p]
  BY <1>a, GotoEffect, GotoLocals DEF UpdateRequest
<1>2. /\ requestFile'[t] = requestFile[t] + 1
      /\ statusFile' = statusFile /\ archived' = archived
      /\ resultFile' = resultFile /\ job' = job /\ records' = records
      /\ submitted' = submitted
  BY <1>a, <1>b DEF UpdateRequest, WriteRequest, Carries, RequestOf
<1>3. resultFile[t].round = requestFile[t]
  BY <1>b DEF UnderReview, Preview
<1>4. FileLife(t)'
  <2>1. \A i \in submitted[t]..(requestFile'[t] - 1) : archived'[t][i] = Preview(submitted[t], i)
    BY <1>a, <1>b, <1>2 DEF Carries, FileLife
  <2> QED
    BY <1>a, <1>b, <1>2, <1>3, <2>1 DEF Carries, FileLife, Untouched, UnderReview
<1>5. Owns(p, t)' => OwnerLife(p, t)'
  BY <1>a, <1>b, <1>1, <1>2, <1>3 DEF OwnerLife, UnderReview, Untouched
<1> QED
  BY <1>4, <1>5 DEF Carried

-----------------------------------------------------------------------------
(* A worker's job.                                                          *)

LEMMA ValidateLife ==
    ASSUME NEW p \in Workers, NEW t \in Tasks, Carries(p, t), Validate(p)
    PROVE  Carried(p, t)'
<1> USE DEF storeVars, queueVars, Processes
<1>a. LocalTypeOK
  BY DEF Carries, IInv, TypeOK
<1>b. SameFiles(t) /\ job' = job
  BY DEF Validate, SameFiles
<1>1. /\ payload'[p] = payload[p]
      /\ \/ pc'[p] = "status_file" /\ then'[p] = "execute"
         \/ pc'[p] = "finish"
  BY <1>a DEF Validate, SetStatus, LocalTypeOK
<1>2. Owns(p, t)' => OwnerLife(p, t)'
  BY <1>b, <1>1 DEF Validate, Carries, OwnerLife, BeforeStatus, SameFiles, Owns
<1> QED
  BY <1>b, <1>2, Moved DEF Carries

LEMMA ExecuteLife ==
    ASSUME NEW p \in Workers, NEW t \in Tasks, Carries(p, t), Execute(p)
    PROVE  Carried(p, t)'
<1> USE DEF storeVars, queueVars, Processes
<1>a. /\ LocalTypeOK /\ p \notin Handlers
      /\ requestFile[t] \in Nat /\ submitted[t] \in Nat
  BY Counted, TaskLifecycleAssumption DEF Carries, IInv, TypeOK
<1>b. SameFiles(t) /\ job' = job
  BY DEF Execute, SameFiles
<1>c. /\ statusFile[t] = "running" /\ Untouched(t)
      /\ payload[p] = RequestOf(submitted[t], requestFile[t])
  BY DEF Execute, Carries, OwnerLife
<1>1. PICK status \in EngineStatuses, assets \in BOOLEAN :
        /\ result'[p] =
             [status  |-> IF t \in ReviewRequired /\ assets
                          THEN "waiting_for_review" ELSE status,
              round   |-> payload[p].round,
              history |-> payload[p].history,
              assets  |-> assets]
        /\ pc'[p] = IF t \in ReviewRequired /\ assets THEN "save" ELSE "provenance"
  BY <1>a DEF Execute, LocalTypeOK, Carries
<1>2. /\ payload[p].round = requestFile[t]
      /\ payload[p].history = Revisions(submitted[t], requestFile[t])
  BY <1>c DEF RequestOf
<1>3. t \in ReviewRequired /\ assets =>
        result'[p] = Preview(submitted[t], requestFile[t])
  BY <1>1, <1>2 DEF Preview
<1>4. Owns(p, t)' => OwnerLife(p, t)'
  BY <1>a, <1>b, <1>c, <1>1, <1>2, <1>3
     DEF OwnerLife, ResultOf, Phase, Untouched, SameFiles
<1> QED
  BY <1>b, <1>4, Moved DEF Carries

LEMMA ExecuteRaisesLife ==
    ASSUME NEW p \in Workers, NEW t \in Tasks, Carries(p, t), ExecuteRaises(p)
    PROVE  Carried(p, t)'
<1> USE DEF storeVars, queueVars, Processes
<1>a. LocalTypeOK
  BY DEF Carries, IInv, TypeOK
<1>b. SameFiles(t) /\ job' = job
  BY DEF ExecuteRaises, SameFiles
<1>1. pc'[p] = "status_file" /\ then'[p] = "report"
  BY <1>a, SetStatusEffect DEF ExecuteRaises, Raise
<1>2. Owns(p, t)' => OwnerLife(p, t)'
  BY <1>b, <1>1 DEF ExecuteRaises, Carries, OwnerLife, BeforeStatus, SameFiles
<1> QED
  BY <1>b, <1>2, Moved DEF Carries

-----------------------------------------------------------------------------
(* Closing a result.                                                        *)

LEMMA RecordRaisesLife ==
    ASSUME NEW p \in Processes, NEW t \in Tasks, NEW kind \in Kinds,
           Carries(p, t), RecordRaises(p, kind)
    PROVE  Carried(p, t)'
<1> USE DEF storeVars, queueVars, Processes
<1>a. LocalTypeOK /\ NoTask \notin Tasks
  BY NoTaskAssumption DEF Carries, IInv, TypeOK
<1>b. SameFiles(t) /\ job' = job
  BY DEF RecordRaises, SameFiles
<1>1. \/ p \in Workers /\ pc'[p] = "status_file" /\ then'[p] = "report"
      \/ task'[p] = NoTask
  BY <1>a, RaiseEffect DEF RecordRaises
<1>2. ResultOf(p, t)
  BY DEF RecordRaises, Carries, OwnerLife, Kinds
<1>3. Owns(p, t)' => OwnerLife(p, t)'
  BY <1>a, <1>b, <1>1, <1>2 DEF OwnerLife, BeforeStatus, ResultOf, SameFiles, Owns
<1> QED
  BY <1>b, <1>3, Moved DEF Carries

LEMMA RecordLife ==
    ASSUME NEW p \in Processes, NEW t \in Tasks, NEW kind \in Kinds,
           Carries(p, t), Record(p, kind)
    PROVE  Carried(p, t)'
<1> USE DEF storeVars, queueVars, Processes
<1>a. LocalTypeOK /\ records \in [Tasks -> [Kinds -> Nat]]
  BY DEF Carries, IInv, TypeOK
<1>b. /\ statusFile' = statusFile /\ requestFile' = requestFile
      /\ resultFile' = resultFile /\ archived' = archived /\ job' = job
      /\ submitted' = submitted
  BY DEF Record
<1>c. ResultOf(p, t) /\ Phase(p, t) /\ pc[p] = kind
  BY DEF Record, Carries, OwnerLife, Kinds
<1>1. /\ pc'[p] = NextPhase(kind) /\ result'[p] = result[p]
  BY <1>a, GotoEffect DEF Record
<1>2. \/ records'[t] = records[t]
      \/ records'[t] = [records[t] EXCEPT ![kind] = @ + 1]
  BY <1>a DEF Record, Carries
<1>3. records[t][kind] = 0
  BY <1>c DEF Phase, Untouched, Kinds
<1>4. /\ \A k \in Kinds : k # kind => records'[t][k] = records[t][k]
      /\ records'[t][kind] <= 1
  BY <1>a, <1>2, <1>3
<1>5. statusFile[t] \in {"running", "review_processing"}
  BY <1>c DEF ResultOf
<1>6. FileLife(t)'
  BY <1>b, <1>4, <1>5 DEF Carries, FileLife, Untouched
<1>7. Phase(p, t)'
  BY <1>c, <1>1, <1>4 DEF Phase, NextPhase, Kinds, Untouched
<1>8. ~(t \in ReviewRequired /\ result[p].assets /\ p \in Workers)
  BY <1>c DEF ResultOf, Kinds
<1>9. Owns(p, t)' => OwnerLife(p, t)'
  <2>1. ResultOf(p, t)'
    BY <1>b, <1>c, <1>1, <1>8 DEF ResultOf
  <2>2. pc'[p] \in {"memory", "experience", "save"}
    BY <1>1 DEF NextPhase, Kinds
  <2>3. p \in Handlers => resultFile'[t] = Preview(submitted'[t], requestFile'[t])
    BY <1>b, <1>c DEF Carries, OwnerLife, Kinds
  <2> QED
    BY <1>7, <2>1, <2>2, <2>3 DEF OwnerLife
<1> QED
  BY <1>6, <1>9 DEF Carried

LEMMA SaveResultLife ==
    ASSUME NEW p \in Processes, NEW t \in Tasks, Carries(p, t), SaveResult(p)
    PROVE  Carried(p, t)'
<1> USE DEF storeVars, queueVars, Processes
<1>a. /\ LocalTypeOK /\ resultFile \in [Tasks -> Results]
      /\ requestFile[t] \in Nat /\ submitted[t] \in Nat
      /\ submitted[t] <= requestFile[t] /\ Workers \cap Handlers = {}
  BY Counted, TaskLifecycleAssumption
     DEF Carries, FileLife, IInv, TypeOK, StoreTypeOK
<1>b. /\ statusFile' = statusFile /\ requestFile' = requestFile
      /\ archived' = archived /\ job' = job /\ records' = records
      /\ resultFile'[t] = result[p] /\ submitted' = submitted
  BY <1>a DEF SaveResult, WriteResult, Carries
<1>c. ResultOf(p, t)
  BY DEF SaveResult, Carries, OwnerLife
<1>1. /\ pc'[p] = "status_file" /\ then'[p] = "trace"
      /\ put'[p] = result[p].status /\ result'[p] = result[p]
  BY <1>a, SetStatusEffect DEF SaveResult
<1>2. /\ result[p].round = requestFile[t]
      /\ result[p].history \in {Revisions(submitted[t], requestFile[t]),
                                Approval(submitted[t], requestFile[t])}
      /\ statusFile[t] \in {"running", "review_processing"}
  BY <1>c DEF ResultOf, Approved, Preview
<1>3. FileLife(t)'
  BY <1>a, <1>b, <1>2 DEF Carries, FileLife, Untouched
<1>4. Owns(p, t)' => OwnerLife(p, t)'
  BY <1>b, <1>c, <1>1 DEF OwnerLife, BeforeStatus, ResultOf, Untouched
<1> QED
  BY <1>3, <1>4 DEF Carried
LEMMA OwnerInner ==
    ASSUME NEW p \in Processes, NEW t \in Tasks, Carries(p, t), Owns(p, t), Inner(p)
    PROVE  Carried(p, t)'
<1>1. ~SaveTrace(p) /\ ~Report(p)
  BY DEF Owns, SaveTrace, Report
<1>2. CASE StatusRow(p) \/ SaveResult(p)
  BY <1>2, StatusRowLife, SaveResultLife
<1>3. ASSUME NEW kind \in Kinds, Record(p, kind) \/ RecordRaises(p, kind)
      PROVE  Carried(p, t)'
  BY <1>3, RecordLife, RecordRaisesLife
<1>4. CASE p \in Handlers /\ (CreateTaskRow(p) \/ LoadFails(p) \/ Approve(p)
           \/ RefuseRevision(p) \/ Revise(p) \/ Archive(p) \/ UpdateRequest(p)
           \/ UpdateRequestRow(p))
  BY <1>4, CreateTaskRowLife, LoadFailsLife, ApproveLife, RefuseRevisionLife,
     ReviseLife, ArchiveLife, UpdateRequestLife, UpdateRequestRowLife
<1>5. CASE p \in Workers /\ (Validate(p) \/ Execute(p) \/ ExecuteRaises(p))
  BY <1>5, ValidateLife, ExecuteLife, ExecuteRaisesLife
<1> QED
  BY <1>1, <1>2, <1>3, <1>4, <1>5 DEF Inner

(* Nobody but p has anything to say of its task.                            *)
LEMMA SoleOwner ==
    ASSUME IInv, ~Overrun, restarts = 0, NEW t \in Tasks
    PROVE  /\ \A p, q \in Processes : Owns(p, t) /\ Owns(q, t) => q = p
           /\ \A p \in Processes : Owns(p, t) =>
                /\ job[t].state # "queued"
                /\ statusFile[t] = "waiting_for_review" =>
                     pc[p] = "status_file" /\ then[p] = "load"
BY DEF IInv, Ownership, Undisturbed

LEMMA InnerLife ==
    ASSUME IInv, LifeInv, NEW p \in Processes, Inner(p)
    PROVE  LifeInv'
<1>a. /\ Locals(p) /\ job' = job /\ restarts' = restarts
      /\ \A t \in Tasks : ~Owns(p, t) => SameFiles(t) /\ ~Owns(p, t)'
  BY InnerFiles DEF IInv
<1>b. SUFFICES ASSUME ~Overrun, restarts = 0, NEW t \in Tasks
               PROVE  Life(t)'
  BY <1>a DEF LifeInv
<1>c. Life(t)
  BY <1>b DEF LifeInv
<1>1. CASE Owns(p, t)
  <2>1. Carries(p, t)
    BY <1>1, <1>c DEF Carries, Life, Owns
  <2>2. FileLife(t)' /\ (Owns(p, t)' => OwnerLife(p, t)')
    BY <1>1, <2>1, OwnerInner DEF Carried
  <2>3. \A q \in Processes : Owns(q, t) => q = p
    BY <1>1, <1>b, SoleOwner
  <2> QED
    BY <1>a, <2>2, <2>3, LifeOfOwner
<1>2. CASE ~Owns(p, t)
  BY <1>2, <1>a, <1>c, LifeElsewhere
<1> QED
  BY <1>1, <1>2

-----------------------------------------------------------------------------
(* Steps that hand a task on.                                               *)

(* A step of p about task t says nothing of the others.                     *)
LEMMA LifeOfOne ==
    ASSUME LifeInv, ~Overrun, restarts = 0,
           NEW p \in Processes, NEW t \in Tasks, Locals(p),
           \A u \in Tasks \ {t} :
              SameFiles(u) /\ job'[u] = job[u] /\ ~Owns(p, u)',
           \A q \in Processes : Owns(q, t) => q = p,
           Carried(p, t)'
    PROVE  \A u \in Tasks : Life(u)'
<1>1. Life(t)'
  BY LifeOfOwner DEF Carried
<1>2. ASSUME NEW u \in Tasks \ {t}
      PROVE  Life(u)'
  BY <1>2, LifeElsewhere DEF LifeInv
<1> QED
  BY <1>1, <1>2

LEMMA StatusFileLife ==
    ASSUME NEW p \in Processes, NEW t \in Tasks, Carries(p, t), StatusFile(p),
           job[t].state # "queued"
    PROVE  Carried(p, t)'
<1> USE DEF storeVars, queueVars, Processes
<1>a. /\ LocalTypeOK /\ statusFile \in [Tasks -> Statuses]
      /\ ControlAt(p) /\ pc[p] = "status_file"
      /\ requestFile[t] \in Nat /\ submitted[t] \in Nat
      /\ Workers \cap Handlers = {}
  BY Counted, TaskLifecycleAssumption
     DEF Carries, IInv, TypeOK, StoreTypeOK, ControlOK, StatusFile
<1>b. /\ statusFile'[t] = put[p] /\ submitted' = submitted
      /\ requestFile' = requestFile /\ resultFile' = resultFile
      /\ archived' = archived /\ job' = job /\ records' = records
  BY <1>a DEF StatusFile, WriteStatusFile, Carries
<1>c. /\ pc'[p] = "status_row" /\ put'[p] = put[p] /\ then'[p] = then[p]
      /\ payload'[p] = payload[p] /\ result'[p] = result[p]
  BY <1>a, GotoEffect, GotoLocals DEF StatusFile
<1>d. CallsSetStatus(p) /\ BeforeStatus(p, t)
  BY <1>a DEF ControlAt, Carries, OwnerLife
<1>1. CASE then[p] = "enqueue"
  <2>1. /\ put[p] = "queued" /\ Untouched(t)
        /\ payload[p] = RequestOf(submitted[t], requestFile[t])
    BY <1>1, <1>d DEF CallsSetStatus, BeforeStatus
  <2>2. FileLife(t)'
    BY <1>b, <2>1 DEF Carries, FileLife, Untouched
  <2>3. OwnerLife(p, t)'
    BY <1>1, <1>b, <1>c, <2>1 DEF OwnerLife
  <2> QED
    BY <2>2, <2>3 DEF Carried
<1>2. CASE then[p] = "load"
  <2>1. put[p] = "review_processing" /\ statusFile[t] = "waiting_for_review"
    BY <1>2, <1>d DEF CallsSetStatus, BeforeStatus
  <2>2. resultFile[t] = Preview(submitted[t], requestFile[t]) /\ Untouched(t)
    BY <2>1 DEF Carries, FileLife
  <2>3. FileLife(t)'
    BY <1>b, <2>1 DEF Carries, FileLife, Untouched
  <2>4. OwnerLife(p, t)'
    BY <1>2, <1>b, <1>c, <2>1, <2>2 DEF OwnerLife, UnderReview, Untouched
  <2> QED
    BY <2>3, <2>4 DEF Carried
<1>3. CASE then[p] = "idle"
  <2>1. put[p] = "cancelled" \/ (put[p] = "waiting_for_review" /\ UnderReview(t))
    BY <1>3, <1>d DEF CallsSetStatus, BeforeStatus
  <2>2. FileLife(t)'
    BY <1>b, <2>1 DEF Carries, FileLife, UnderReview, Untouched
  <2> QED
    BY <1>3, <1>c, <2>2 DEF Carried, Owns
<1>4. CASE then[p] = "execute"
  <2>1. /\ put[p] = "running" /\ statusFile[t] = "queued"
        /\ payload[p] = RequestOf(submitted[t], requestFile[t])
    BY <1>4, <1>d DEF CallsSetStatus, BeforeStatus
  <2>2. Untouched(t)
    BY <2>1 DEF Carries, FileLife
  <2>3. FileLife(t)'
    BY <1>b, <2>1 DEF Carries, FileLife, Untouched
  <2>4. OwnerLife(p, t)'
    BY <1>4, <1>b, <1>c, <2>1, <2>2 DEF OwnerLife, Untouched
  <2> QED
    BY <2>3, <2>4 DEF Carried
<1>5. CASE then[p] = "report"
  <2>1. put[p] = "failed"
    BY <1>5, <1>d DEF CallsSetStatus
  <2>2. FileLife(t)'
    BY <1>b, <2>1 DEF Carries, FileLife, Untouched
  <2> QED
    BY <1>5, <1>c, <2>2 DEF Carried, Owns
<1>6. CASE then[p] = "trace"
  <2>a. /\ Approved(submitted[t], requestFile[t]).status = "completed"
        /\ Preview(submitted[t], requestFile[t]).status = "waiting_for_review"
    BY DEF Approved, Preview
  <2>1. /\ put[p] = result[p].status /\ put[p] \in Outcomes
        /\ resultFile[t] = result[p] /\ ResultOf(p, t)
    BY <1>6, <1>d DEF CallsSetStatus, BeforeStatus
  <2>2. put[p] = "waiting_for_review" =>
          result[p] = Preview(submitted[t], requestFile[t]) /\ Untouched(t)
    BY <1>a, <2>1, <2>a, TaskStoreAssumption DEF ResultOf
  <2>3. put[p] = "completed" /\ t \in ReviewRequired /\ result[p].assets =>
          result[p] = Approved(submitted[t], requestFile[t])
    BY <1>a, <2>1, <2>a DEF ResultOf
  <2>4. put[p] \notin {"absent", "created", "queued"}
    BY <2>1, TaskStoreAssumption DEF Outcomes, Terminal
  <2>5. FileLife(t)'
    BY <1>b, <2>1, <2>2, <2>3, <2>4 DEF Carries, FileLife, Untouched
  <2> QED
    BY <1>6, <1>c, <2>5 DEF Carried, Owns
<1> QED
  BY <1>d, <1>1, <1>2, <1>3, <1>4, <1>5, <1>6 DEF CallsSetStatus
LEMMA LocalsOfGoto ==
    ASSUME LocalTypeOK, NEW p \in Processes, NEW l, Goto(p, l)
    PROVE  Locals(p)
BY GotoEffect, GotoLocals DEF Locals

LEMMA LocalsOfReturn ==
    ASSUME LocalTypeOK, NEW p \in Processes, NEW l, Return(p, l)
    PROVE  /\ Locals(p) /\ task'[p] = NoTask
           /\ payload'[p] = NoPayload /\ result'[p] = NoResult
BY ReturnEffect, ReturnLocals DEF Locals, LocalTypeOK, Return

(* A request takes up a task: that of h changes, and its program counter.   *)
LEMMA LocalsOfRequest ==
    ASSUME LocalTypeOK, NEW h \in Handlers, NEW t \in Tasks,
           task' = [task EXCEPT ![h] = t],
           \E s, l : SetStatus(h, s, l),
           UNCHANGED <<payload, result>>
    PROVE  Locals(h) /\ task'[h] = t
BY DEF LocalTypeOK, Locals, Alone, OtherLocals, SetStatus, Processes

(* A request begins: its round is the one the client sent.                  *)
Creates(h, t, round) ==
    /\ Locals(h) /\ task'[h] = t /\ pc'[h] = "create_row"
    /\ result' = result
    /\ payload'[h] = [round |-> round, history |-> <<>>]
    /\ statusFile[t] = "absent"
    /\ statusFile' = [statusFile EXCEPT ![t] = "created"]
    /\ requestFile' = [requestFile EXCEPT ![t] = round]
    /\ submitted' = [submitted EXCEPT ![t] = round]
    /\ resultFile' = resultFile /\ archived' = archived
    /\ job' = job /\ records' = records

LEMMA CreateTaskLocals ==
    ASSUME IInv, NEW h \in Handlers, NEW t \in Tasks, CreateTask(h, t)
    PROVE  \E round \in FirstRounds : Creates(h, t, round)
<1>1. LocalTypeOK
  BY DEF IInv, TypeOK
<1>2. PICK round \in FirstRounds :
        /\ CreateFiles(t, round)
        /\ pc' = [pc EXCEPT ![h] = "create_row"]
        /\ task' = [task EXCEPT ![h] = t]
        /\ payload' = [payload EXCEPT ![h] = [round |-> round, history |-> <<>>]]
        /\ UNCHANGED <<result, put, then, queueVars, records>>
  BY DEF CreateTask
<1>3. /\ Locals(h) /\ task'[h] = t /\ pc'[h] = "create_row"
      /\ payload'[h] = [round |-> round, history |-> <<>>]
  BY <1>1, <1>2 DEF LocalTypeOK, Locals, Alone, OtherLocals, Processes
<1> QED
  BY <1>2, <1>3 DEF Creates, CreateFiles, queueVars

LEMMA CreateTaskLife ==
    ASSUME IInv, LifeInv, FreshInv, ~Overrun, restarts = 0,
           NEW h \in Handlers, NEW t \in Tasks, CreateTask(h, t)
    PROVE  \A u \in Tasks : Life(u)'
<1> USE DEF Processes
<1> PICK round \in FirstRounds : Creates(h, t, round)
  BY CreateTaskLocals
<1>0. /\ Locals(h) /\ task'[h] = t /\ pc'[h] = "create_row"
      /\ payload'[h] = [round |-> round, history |-> <<>>]
      /\ statusFile[t] = "absent"
      /\ statusFile' = [statusFile EXCEPT ![t] = "created"]
      /\ requestFile' = [requestFile EXCEPT ![t] = round]
      /\ submitted' = [submitted EXCEPT ![t] = round]
      /\ resultFile' = resultFile /\ archived' = archived
      /\ job' = job /\ records' = records
  BY DEF Creates
<1>a. /\ statusFile \in [Tasks -> Statuses] /\ requestFile \in [Tasks -> Rounds]
      /\ submitted \in [Tasks -> Rounds] /\ round \in Nat
  BY TaskStoreAssumption DEF IInv, TypeOK, StoreTypeOK
<1>b. /\ statusFile'[t] = "created" /\ requestFile'[t] = round /\ submitted'[t] = round
      /\ resultFile'[t] = NoResult
  BY <1>0, <1>a DEF FreshInv
<1>d. FileLife(t) /\ Untouched(t)
  BY <1>0 DEF LifeInv, Life, FileLife
<1>e. job[t].state = "absent" /\ \A q \in Processes : ~Owns(q, t)
  BY <1>0 DEF IInv, JobsHeld, Owns
<1>f. payload'[h] = RequestOf(round, round)
  BY <1>0, <1>a, FirstRevisions
<1>1. FileLife(t)'
  BY <1>0, <1>a, <1>b, <1>d, <1>e DEF FileLife, Untouched
<1>2. OwnerLife(h, t)'
  BY <1>0, <1>b, <1>f DEF OwnerLife
<1>3. \A u \in Tasks \ {t} : SameFiles(u) /\ job'[u] = job[u] /\ ~Owns(h, u)'
  BY <1>0, <1>a DEF SameFiles, Owns
<1> QED
  BY <1>0, <1>e, <1>1, <1>2, <1>3, LifeOfOne DEF Carried

LEMMA CancelTaskLife ==
    ASSUME IInv, LifeInv, ~Overrun, restarts = 0,
           NEW h \in Handlers, NEW t \in Tasks, CancelTask(h, t)
    PROVE  \A u \in Tasks : Life(u)'
<1> USE DEF storeVars, queueVars, Processes
<1>a. LocalTypeOK /\ job \in [Tasks -> Jobs] /\ job[t].state = "queued"
  BY DEF IInv, TypeOK, QueueTypeOK, CancelTask, CancelJob
<1>b. /\ Locals(h) /\ task'[h] = t /\ pc'[h] = "status_file"
      /\ put'[h] = "cancelled" /\ then'[h] = "idle"
  BY <1>a, LocalsOfRequest DEF CancelTask, LocalTypeOK, SetStatus
<1>c. /\ job'[t].state = "cancelled"
      /\ \A u \in Tasks \ {t} : job'[u] = job[u]
      /\ \A u \in Tasks : SameFiles(u)
  BY <1>a DEF CancelTask, CancelJob, SameFiles, Jobs
<1>d. FileLife(t) /\ statusFile[t] = "queued"
  BY <1>a DEF LifeInv, Life, FileLife
<1>e. \A q \in Processes : ~Owns(q, t)
  BY <1>a, SoleOwner
<1>1. FileLife(t)'
  BY <1>c, <1>d, FileSame
<1>2. OwnerLife(h, t)'
  BY <1>b, <1>c, <1>d DEF OwnerLife, BeforeStatus, SameFiles
<1>3. \A u \in Tasks \ {t} : SameFiles(u) /\ job'[u] = job[u] /\ ~Owns(h, u)'
  BY <1>b, <1>c DEF Owns
<1> QED
  BY <1>b, <1>e, <1>1, <1>2, <1>3, LifeOfOne DEF Carried

LEMMA BeginReviewLife ==
    ASSUME IInv, LifeInv, ~Overrun, restarts = 0,
           NEW h \in Handlers, NEW t \in Tasks, NEW d \in Decisions,
           BeginReview(h, t, d)
    PROVE  \A u \in Tasks : Life(u)'
<1> USE DEF storeVars, queueVars, Processes
<1>a. /\ LocalTypeOK /\ statusFile[t] = "waiting_for_review" /\ ReviewLockFree
      /\ \A q \in Processes : ControlAt(q)
      /\ Workers \cap Handlers = {}
  BY TaskLifecycleAssumption DEF IInv, TypeOK, ControlOK, BeginReview
<1>b. /\ Locals(h) /\ task'[h] = t /\ pc'[h] = "status_file"
      /\ put'[h] = "review_processing" /\ then'[h] = "load"
  BY <1>a, LocalsOfRequest DEF BeginReview, LocalTypeOK, SetStatus
<1>c. job' = job /\ \A u \in Tasks : SameFiles(u)
  BY DEF BeginReview, SameFiles
<1>d. FileLife(t)
  BY DEF LifeInv, Life
<1>e. ASSUME NEW q \in Processes, Owns(q, t)
      PROVE  FALSE
  <2>1. pc[q] = "status_file" /\ then[q] = "load"
    BY <1>a, <1>e, SoleOwner
  <2>2. q \in Handlers
    BY <1>a, <2>1 DEF ControlAt, CallsSetStatus
  <2> QED
    BY <1>a, <2>1, <2>2 DEF ReviewLockFree, HoldsReviewLock
<1>1. FileLife(t)'
  BY <1>c, <1>d, FileSame
<1>2. OwnerLife(h, t)'
  BY <1>a, <1>b, <1>c DEF OwnerLife, BeforeStatus, SameFiles
<1>3. \A u \in Tasks \ {t} : SameFiles(u) /\ job'[u] = job[u] /\ ~Owns(h, u)'
  BY <1>b, <1>c DEF Owns
<1> QED
  BY <1>b, <1>e, <1>1, <1>2, <1>3, LifeOfOne DEF Carried

LEMMA EnqueueTaskLife ==
    ASSUME IInv, LifeInv, ~Overrun, restarts = 0,
           NEW h \in Handlers, EnqueueTask(h)
    PROVE  \A u \in Tasks : Life(u)'
<1> USE DEF storeVars, queueVars, Processes
<1>a. /\ LocalTypeOK /\ job \in [Tasks -> Jobs] /\ pc[h] = "enqueue"
      /\ NoTask \notin Tasks
  BY NoTaskAssumption DEF IInv, TypeOK, QueueTypeOK, EnqueueTask
<1>b. PICK t \in Tasks : task[h] = t
  BY <1>a, ActiveTask DEF IInv
<1>c. Locals(h) /\ task'[h] = NoTask
  BY <1>a, LocalsOfReturn DEF EnqueueTask
<1>d. /\ job'[t].state = "queued" /\ job'[t].payload = payload[h]
      /\ \A u \in Tasks \ {t} : job'[u] = job[u]
      /\ \A u \in Tasks : SameFiles(u)
  BY <1>a, <1>b DEF EnqueueTask, Enqueue, SameFiles
<1>e. Owns(h, t) /\ \A q \in Processes : Owns(q, t) => q = h
  BY <1>a, <1>b, SoleOwner DEF Owns
<1>f. /\ FileLife(t) /\ statusFile[t] = "queued"
      /\ payload[h] = RequestOf(submitted[t], requestFile[t])
  BY <1>a, <1>e DEF LifeInv, Life, OwnerLife
<1>1. FileLife(t)'
  BY <1>d, <1>f DEF FileLife, SameFiles, Untouched
<1>2. \A u \in Tasks : ~Owns(h, u)'
  BY <1>a, <1>c DEF Owns
<1> QED
  BY <1>b, <1>c, <1>d, <1>e, <1>1, <1>2, LifeOfOne DEF Carried

LEMMA ClaimJobLife ==
    ASSUME IInv, LifeInv, ~Overrun, restarts = 0,
           NEW w \in Workers, NEW t \in Tasks, ClaimJob(w, t)
    PROVE  \A u \in Tasks : Life(u)'
<1> USE DEF storeVars, queueVars, Processes
<1>a. LocalTypeOK /\ job \in [Tasks -> Jobs] /\ job[t].state = "queued"
  BY DEF IInv, TypeOK, QueueTypeOK, ClaimJob, Claim, Queued
<1>b. /\ Locals(w) /\ task'[w] = t /\ pc'[w] = "validate"
      /\ payload'[w] = job[t].payload
  BY <1>a DEF ClaimJob, LocalTypeOK, Locals, Alone, OtherLocals
<1>c. /\ job'[t].state = "running"
      /\ \A u \in Tasks \ {t} : job'[u] = job[u]
      /\ \A u \in Tasks : SameFiles(u)
  BY <1>a DEF ClaimJob, Claim, SameFiles, Jobs
<1>d. /\ FileLife(t) /\ statusFile[t] = "queued"
      /\ job[t].payload = RequestOf(submitted[t], requestFile[t])
  BY <1>a DEF LifeInv, Life, FileLife
<1>e. \A q \in Processes : ~Owns(q, t)
  BY <1>a, SoleOwner
<1>1. FileLife(t)'
  BY <1>c, <1>d, FileSame
<1>2. OwnerLife(w, t)'
  BY <1>b, <1>c, <1>d DEF OwnerLife, SameFiles
<1>3. \A u \in Tasks \ {t} : SameFiles(u) /\ job'[u] = job[u] /\ ~Owns(w, u)'
  BY <1>b, <1>c DEF Owns
<1> QED
  BY <1>b, <1>e, <1>1, <1>2, <1>3, LifeOfOne DEF Carried

(* A worker that starts finds no stale job; one that finishes owns nothing. *)
LEMMA WorkerEndsLife ==
    ASSUME IInv, LifeInv, ~Overrun, restarts = 0,
           NEW w \in Workers, StartWorker(w) \/ FinishJob(w)
    PROVE  \A u \in Tasks : Life(u)'
<1> USE DEF storeVars, queueVars, Processes
<1>a. /\ LocalTypeOK /\ job \in [Tasks -> Jobs] /\ ControlAt(w)
      /\ NoTask \notin Tasks
  BY NoTaskAssumption DEF IInv, TypeOK, QueueTypeOK, ControlOK
<1>b. \A u \in Tasks : SameFiles(u)
  BY DEF StartWorker, FinishJob, SameFiles
<1>1. CASE StartWorker(w)
  <2>1. Locals(w) /\ pc'[w] = "idle"
    BY <1>1, <1>a, LocalsOfGoto, GotoEffect DEF StartWorker
  <2>2. \A u \in Tasks : job'[u] = job[u]
    BY <1>1, <1>a DEF StartWorker, RecoverRunning, IInv, JobsHeld
  <2>3. \A u \in Tasks : ~Owns(w, u)'
    BY <2>1 DEF Owns
  <2> QED
    BY <1>b, <2>1, <2>2, <2>3, LifeElsewhere DEF LifeInv
<1>2. CASE FinishJob(w)
  <2>1. Locals(w) /\ task'[w] = NoTask
    BY <1>2, <1>a, LocalsOfReturn DEF FinishJob
  <2>2. put[w] \in {"completed", "failed"}
    BY <1>2, <1>a DEF FinishJob, ControlAt
  <2>3. \A u \in Tasks : job'[u] = job[u] \/ job'[u].state # "queued"
    BY <1>2, <1>a, <2>2 DEF FinishJob, Finish, Jobs
  <2>4. \A u \in Tasks : ~Owns(w, u)'
    BY <1>a, <2>1 DEF Owns
  <2> QED
    BY <1>b, <2>1, <2>3, <2>4, LifeElsewhere DEF LifeInv
<1> QED
  BY <1>1, <1>2

(* Time passes, the API process is killed: whoever goes on sees no change.  *)
LEMMA QuietLife ==
    ASSUME IInv, LifeInv, ~Overrun, restarts = 0,
           CrashApi \/ (\E t \in Tasks : Elapse(t)) \/ UNCHANGED vars
    PROVE  \A u \in Tasks : Life(u)'
<1> USE DEF storeVars, queueVars, localVars, vars
<1>a. job \in [Tasks -> Jobs]
  BY DEF IInv, TypeOK, QueueTypeOK
<1>b. /\ \A u \in Tasks : SameFiles(u)
      /\ \A u \in Tasks : job'[u] = job[u] \/ job'[u].state # "queued"
  BY <1>a DEF CrashApi, Elapse, BecomeStale, SameFiles, Jobs
<1>1. ASSUME NEW u \in Tasks, NEW q \in Processes, Owns(q, u)'
      PROVE  /\ Owns(q, u)
             /\ pc'[q] = pc[q] /\ put'[q] = put[q] /\ then'[q] = then[q]
             /\ payload'[q] = payload[q] /\ result'[q] = result[q]
  BY <1>1, NoTaskAssumption DEF Owns, CrashApi, Elapse
<1>2. ASSUME NEW u \in Tasks
      PROVE  FileLife(u)' /\ \A q \in Processes : Owns(q, u)' => OwnerLife(q, u)'
  <2>1. FileLife(u) /\ \A q \in Processes : Owns(q, u) => OwnerLife(q, u)
    BY DEF LifeInv, Life
  <2>2. FileLife(u)'
    BY <1>b, <2>1, FileSame
  <2>3. ASSUME NEW q \in Processes, Owns(q, u)'
        PROVE  OwnerLife(q, u)'
    BY <1>b, <1>1, <2>1, <2>3, OwnerSame
  <2> QED
    BY <2>2, <2>3
<1> QED
  BY <1>2 DEF Life

LEMMA LifeStep ==
    ASSUME IInv, LifeInv, FreshInv, [Next]_vars
    PROVE  LifeInv'
<1> USE DEF Processes
<1>a. restarts \in Nat
  BY TaskLifecycleAssumption DEF IInv, TypeOK
<1>b. CASE \E p \in Processes : Inner(p)
  BY <1>b, InnerLife
<1>c. CASE \E w \in Workers : CrashWorker(w)
  BY <1>c, <1>a DEF CrashWorker, LifeInv
<1>d. CASE ~\E w \in Workers : CrashWorker(w)
  <2> SUFFICES ASSUME ~\E p \in Processes : Inner(p)
               PROVE  LifeInv'
    BY <1>b
  <2>1. restarts' = restarts
    BY <1>d, StepCases
       DEF StatusFile, CreateTask, CancelTask, BeginReview, EnqueueTask, StartWorker,
           FinishJob, ClaimJob, Elapse, CrashApi, vars
  <2> SUFFICES ASSUME ~Overrun, restarts = 0
               PROVE  \A u \in Tasks : Life(u)'
    BY <2>1 DEF LifeInv
  <2>2. ASSUME NEW p \in Processes, StatusFile(p)
        PROVE  \A u \in Tasks : Life(u)'
    <3>1. LocalTypeOK /\ statusFile \in [Tasks -> Statuses] /\ pc[p] = "status_file"
      BY <2>2 DEF IInv, TypeOK, StoreTypeOK, StatusFile
    <3>2. PICK t \in Tasks : task[p] = t
      BY <3>1, ActiveTask DEF IInv
    <3>3. Owns(p, t)
      BY <3>1, <3>2 DEF Owns
    <3>4. Carries(p, t) /\ job[t].state # "queued"
      BY <3>2, <3>3, SoleOwner DEF Carries, LifeInv, Life
    <3>5. Carried(p, t)'
      BY <2>2, <3>4, StatusFileLife
    <3>6. Locals(p) /\ task'[p] = t
      BY <2>2, <3>1, <3>2, LocalsOfGoto, GotoEffect DEF StatusFile
    <3>7. \A u \in Tasks \ {t} : SameFiles(u) /\ job'[u] = job[u] /\ ~Owns(p, u)'
      BY <2>2, <3>1, <3>2, <3>6
         DEF StatusFile, WriteStatusFile, SameFiles, queueVars, Owns
    <3> QED
      BY <3>3, <3>5, <3>6, <3>7, SoleOwner, LifeOfOne
  <2>3. ASSUME NEW h \in Handlers, NEW t \in Tasks,
               \/ CreateTask(h, t) \/ CancelTask(h, t)
               \/ \E d \in Decisions : BeginReview(h, t, d)
        PROVE  \A u \in Tasks : Life(u)'
    BY <2>3, CreateTaskLife, CancelTaskLife, BeginReviewLife
  <2>4. ASSUME NEW w \in Workers, NEW t \in Tasks, ClaimJob(w, t)
        PROVE  \A u \in Tasks : Life(u)'
    BY <2>4, ClaimJobLife
  <2> QED
    BY <1>d, <2>2, <2>3, <2>4, EnqueueTaskLife, WorkerEndsLife, QuietLife, StepCases
<1> QED
  BY <1>c, <1>d
-----------------------------------------------------------------------------
(* Processes without a task, and tasks that nobody reviews.                 *)

(* An inner step keeps the task or ends the request.                        *)
LEMMA InnerEnds ==
    ASSUME NEW p \in Processes, Inner(p)
    PROVE  task' = task \/ Return(p, "idle")
BY DEF Inner, StatusRow, Continue, Goto, Record, RecordRaises, Raise, SaveResult,
       SaveTrace, CreateTaskRow, LoadFails, Approve, RefuseRevision, Revise, Archive,
       UpdateRequest, UpdateRequestRow, Validate, Execute, ExecuteRaises, Report

LEMMA BlankOfOne ==
    ASSUME BlankInv, NEW p \in Processes, Locals(p),
           task'[p] = NoTask => payload'[p] = NoPayload /\ result'[p] = NoResult
    PROVE  BlankInv'
BY DEF BlankInv, Locals, Alone, OtherLocals

LEMMA BlankStep ==
    ASSUME IInv, BlankInv, [Next]_vars
    PROVE  BlankInv'
<1> USE DEF Processes
<1>a. LocalTypeOK /\ NoTask \notin Tasks
  BY NoTaskAssumption DEF IInv, TypeOK
<1>1. ASSUME NEW p \in Processes, Inner(p)
      PROVE  BlankInv'
  <2>1. Locals(p) /\ task[p] # NoTask
    BY <1>1, <1>a, InnerFiles, InnerElsewhere DEF IInv
  <2>2. task'[p] = NoTask => payload'[p] = NoPayload /\ result'[p] = NoResult
    BY <1>1, <1>a, <2>1, InnerEnds, LocalsOfReturn
  <2> QED
    BY <2>1, <2>2, BlankOfOne
<1>2. ASSUME NEW p \in Processes, StatusFile(p)
      PROVE  BlankInv'
  <2>1. Locals(p) /\ task'[p] = task[p] /\ task[p] \in Tasks
    BY <1>2, <1>a, LocalsOfGoto, GotoEffect, ActiveTask DEF StatusFile, IInv
  <2> QED
    BY <1>a, <2>1, BlankOfOne
<1>3. ASSUME NEW h \in Handlers, NEW t \in Tasks,
             \/ CreateTask(h, t) \/ CancelTask(h, t)
             \/ \E d \in Decisions : BeginReview(h, t, d)
      PROVE  BlankInv'
  <2>1. CASE CreateTask(h, t)
    <3>1. Locals(h) /\ task'[h] = t
      BY <2>1, CreateTaskLocals DEF Creates
    <3> QED
      BY <1>a, <3>1, BlankOfOne
  <2>2. CASE CancelTask(h, t) \/ \E d \in Decisions : BeginReview(h, t, d)
    <3>1. Locals(h) /\ task'[h] = t
      BY <2>2, <1>a, LocalsOfRequest DEF CancelTask, BeginReview
    <3> QED
      BY <1>a, <3>1, BlankOfOne
  <2> QED
    BY <1>3, <2>1, <2>2
<1>4. ASSUME NEW p \in Processes, EnqueueTask(p) \/ FinishJob(p) \/ CrashWorker(p)
      PROVE  BlankInv'
  BY <1>4, <1>a, LocalsOfReturn, BlankOfOne DEF EnqueueTask, FinishJob, CrashWorker
<1>5. ASSUME NEW w \in Workers, StartWorker(w)
      PROVE  BlankInv'
  BY <1>5, <1>a DEF StartWorker, Goto, BlankInv
<1>6. ASSUME NEW w \in Workers, NEW t \in Tasks, ClaimJob(w, t)
      PROVE  BlankInv'
  BY <1>6, <1>a DEF ClaimJob, BlankInv, LocalTypeOK
<1>7. CASE CrashApi
  BY <1>7 DEF CrashApi, BlankInv
<1>8. CASE (\E t \in Tasks : Elapse(t)) \/ UNCHANGED vars
  BY <1>8 DEF Elapse, vars, localVars, BlankInv
<1> QED
  BY <1>1, <1>2, <1>3, <1>4, <1>5, <1>6, <1>7, <1>8, StepCases

(* A result is written by the process that has the task.                    *)
LEMMA FreshStep ==
    ASSUME IInv, FreshInv, [Next]_vars
    PROVE  FreshInv'
<1> USE DEF Processes
<1>a. /\ statusFile \in [Tasks -> Statuses] /\ resultFile \in [Tasks -> Results]
      /\ LocalTypeOK
  BY DEF IInv, TypeOK, StoreTypeOK
<1>1. ASSUME NEW p \in Processes, SaveResult(p)
      PROVE  FreshInv'
  <2>1. PICK t \in Tasks : task[p] = t
    BY <1>1, <1>a, ActiveTask DEF SaveResult, IInv
  <2>2. statusFile[t] # "absent"
    BY <2>1 DEF IInv, JobsHeld
  <2>3. statusFile' = statusFile /\ resultFile' = [resultFile EXCEPT ![t] = result[p]]
    BY <1>1, <2>1 DEF SaveResult, WriteResult
  <2> QED
    BY <1>a, <2>2, <2>3 DEF FreshInv
<1>2. ASSUME NEW p \in Processes, StatusFile(p)
      PROVE  FreshInv'
  <2>1. PICK t \in Tasks : task[p] = t
    BY <1>2, <1>a, ActiveTask DEF StatusFile, IInv
  <2>2. statusFile[t] # "absent"
    BY <2>1 DEF IInv, JobsHeld
  <2>3. put[p] # "absent"
    BY <1>2, TaskStoreAssumption
       DEF StatusFile, IInv, ControlOK, ControlAt, CallsSetStatus, Outcomes, Terminal
  <2>4. statusFile' = [statusFile EXCEPT ![t] = put[p]] /\ resultFile' = resultFile
    BY <1>2, <2>1 DEF StatusFile, WriteStatusFile
  <2> QED
    BY <1>a, <2>3, <2>4 DEF FreshInv
<1>3. ASSUME NEW h \in Handlers, NEW t \in Tasks, CreateTask(h, t)
      PROVE  FreshInv'
  <2>1. statusFile' = [statusFile EXCEPT ![t] = "created"] /\ resultFile' = resultFile
    BY <1>3, CreateTaskLocals DEF Creates
  <2> QED
    BY <1>a, <2>1 DEF FreshInv
<1>4. CASE /\ ~\E p \in Processes : SaveResult(p) \/ StatusFile(p)
           /\ ~\E h \in Handlers, t \in Tasks : CreateTask(h, t)
  <2>1. ASSUME NEW p \in Processes, Inner(p)
        PROVE  statusFile' = statusFile /\ resultFile' = resultFile
    <3>1. statusFile' = statusFile
      BY <2>1, InnerNoTransfer DEF NoTransfer
    <3>2. resultFile' = resultFile
      BY <1>4, <2>1
         DEF Inner, storeVars, StatusRow, WriteStatusRow, Record, RecordRaises,
             SaveTrace, WriteTrace, CreateTaskRow, CreateRow, LoadFails, Approve,
             RefuseRevision, Revise, Archive, ArchiveResult, UpdateRequest,
             WriteRequest, UpdateRequestRow, WriteRequestRow, Validate, Execute,
             ExecuteRaises, Report
    <3> QED
      BY <3>1, <3>2
  <2>2. statusFile' = statusFile /\ resultFile' = resultFile
    BY <1>4, <2>1, StepCases
       DEF storeVars, vars, CancelTask, BeginReview, EnqueueTask, StartWorker,
           FinishJob, CrashWorker, ClaimJob, Elapse, CrashApi
  <2> QED
    BY <2>2 DEF FreshInv
<1> QED
  BY <1>1, <1>2, <1>3, <1>4

(* What others say of a plain task does not change with the step of p.      *)
LEMMA PlainOfOne ==
    ASSUME NEW t \in Tasks, Plain(t), NEW p \in Processes, Locals(p),
           submitted'[t] = submitted[t],
           PlainFiles(t)', task'[p] = t => PlainAt(p, t)'
    PROVE  Plain(t)'
BY DEF Plain, PlainAt, PlainResult, FirstRequest, Creating, Cancelling, Locals,
       Alone, OtherLocals

LEMMA PlainWorkerInner ==
    ASSUME IInv, NEW p \in Workers, Inner(p), NEW t \in Tasks, task[p] = t,
           PlainFiles(t), PlainAt(p, t)
    PROVE  PlainFiles(t)' /\ PlainAt(p, t)'
<1> USE DEF storeVars, queueVars, Processes, PlainResult, FirstRequest
<1>a. /\ LocalTypeOK /\ ControlAt(p) /\ p \notin Handlers
      /\ resultFile \in [Tasks -> Results]
  BY TaskLifecycleAssumption DEF IInv, TypeOK, StoreTypeOK, ControlOK
<1>b. PlainFiles(t) /\ PlainAt(p, t)
  OBVIOUS
<1>c. job' = job /\ submitted' = submitted
  BY InnerNoTransfer DEF NoTransfer
<1>1. CASE SaveResult(p)
  <2>1. resultFile'[t] = result[p] /\ requestFile' = requestFile
    BY <1>1, <1>a DEF SaveResult, WriteResult
  <2>2. payload' = payload /\ result' = result
    BY <1>1 DEF SaveResult
  <2> QED
    BY <1>a, <1>b, <1>c, <2>1, <2>2 DEF PlainFiles, PlainAt
<1>2. CASE Execute(p)
  <2>1. /\ result'[p].round = payload[p].round
        /\ result'[p].history = payload[p].history
        /\ payload' = payload
        /\ requestFile' = requestFile /\ resultFile' = resultFile
    BY <1>2, <1>a DEF Execute, LocalTypeOK
  <2> QED
    BY <1>a, <1>b, <1>c, <2>1 DEF PlainFiles, PlainAt
<1>3. CASE ~SaveResult(p) /\ ~Execute(p)
  <2>1. requestFile' = requestFile /\ resultFile' = resultFile
    BY <1>3, <1>a
       DEF Inner, StatusRow, WriteStatusRow, Record, RecordRaises, SaveTrace,
           WriteTrace, Validate, ExecuteRaises, Report
  <2>2. payload' = payload /\ result' = result
    BY <1>3, <1>a
       DEF Inner, StatusRow, Continue, Goto, Record, RecordRaises, Raise, SaveTrace,
           Validate, ExecuteRaises, Report, ControlAt, CallsSetStatus
  <2> QED
    BY <1>a, <1>b, <1>c, <2>1, <2>2 DEF PlainFiles, PlainAt
<1> QED
  BY <1>1, <1>2, <1>3

LEMMA PlainHandlerInner ==
    ASSUME IInv, NEW p \in Handlers, Inner(p), NEW t \in Tasks, task[p] = t,
           PlainFiles(t), PlainAt(p, t)
    PROVE  PlainFiles(t)' /\ (task'[p] = t => PlainAt(p, t)')
<1> USE DEF storeVars, queueVars, Processes, PlainResult, FirstRequest
<1>a. /\ LocalTypeOK /\ p \notin Workers /\ NoTask \notin Tasks
      /\ Creating(p) \/ Cancelling(p)
  BY TaskLifecycleAssumption, NoTaskAssumption DEF IInv, TypeOK, PlainAt
<1>b. CreateTaskRow(p) \/ StatusRow(p)
  BY <1>a
     DEF Inner, Creating, Cancelling, Record, RecordRaises, Kinds, SaveResult,
         SaveTrace, LoadFails, Approve, RefuseRevision, Revise, Archive,
         UpdateRequest, UpdateRequestRow
<1>1. CASE CreateTaskRow(p)
  <2>1. pc'[p] = "status_file" /\ then'[p] = "enqueue" /\ pc[p] = "create_row"
    BY <1>1, <1>a, SetStatusEffect DEF CreateTaskRow
  <2>2. payload[p] = FirstRequest(t)
    BY <2>1 DEF PlainAt, Creating
  <2>3. PlainFiles(t)' /\ submitted' = submitted
    BY <1>1 DEF CreateTaskRow, CreateRow, PlainFiles
  <2> QED
    BY <1>1, <2>1, <2>2, <2>3 DEF CreateTaskRow, PlainAt, Creating
<1>2. CASE StatusRow(p)
  <2>1. PlainFiles(t)' /\ submitted' = submitted
    BY <1>2 DEF StatusRow, WriteStatusRow, PlainFiles
  <2>2. CASE then[p] = "idle"
    <3>1. task'[p] = NoTask
      BY <1>2, <1>a, <2>2, LocalsOfReturn DEF StatusRow, Continue
    <3> QED
      BY <1>a, <2>1, <3>1
  <2>3. CASE then[p] = "enqueue"
    <3>1. pc'[p] = "enqueue" /\ payload' = payload /\ result' = result
      BY <1>2, <1>a, <2>3, GotoEffect DEF StatusRow, Continue, Goto
    <3>2. payload[p] = FirstRequest(t)
      BY <1>2, <2>3 DEF StatusRow, PlainAt, Creating
    <3> QED
      BY <1>a, <2>1, <3>1, <3>2 DEF PlainAt, Creating
  <2> QED
    BY <1>2, <1>a, <2>2, <2>3 DEF StatusRow, Creating, Cancelling
<1> QED
  BY <1>b, <1>1, <1>2

LEMMA PlainStep ==
    ASSUME IInv, BlankInv, FreshInv, PlainInv, [Next]_vars
    PROVE  PlainInv'
<1> USE DEF Processes, PlainResult, FirstRequest
<1> SUFFICES ASSUME NEW t \in Tasks \ ReviewRequired
             PROVE  Plain(t)'
  BY DEF PlainInv
<1>a. /\ LocalTypeOK /\ NoTask \notin Tasks /\ Plain(t) /\ PlainFiles(t)
      /\ statusFile \in [Tasks -> Statuses] /\ job \in [Tasks -> Jobs]
      /\ requestFile \in [Tasks -> Rounds] /\ submitted \in [Tasks -> Rounds]
      /\ Workers \cap Handlers = {}
  BY NoTaskAssumption, TaskLifecycleAssumption
     DEF IInv, TypeOK, StoreTypeOK, QueueTypeOK, PlainInv, Plain
<1>b. ASSUME NEW p \in Processes
      PROVE  ControlAt(p)
  BY DEF IInv, ControlOK
<1>c. ASSUME NEW p \in Processes, task[p] = NoTask
      PROVE  result[p] = NoResult
  BY <1>c DEF BlankInv
<1>1. ASSUME NEW p \in Processes, Inner(p)
      PROVE  Plain(t)'
  <2>1. /\ Locals(p) /\ job' = job /\ submitted' = submitted
        /\ task'[p] = task[p] \/ task'[p] = NoTask
    BY <1>1, InnerFiles, InnerElsewhere DEF IInv
  <2>2. CASE task[p] = t
    <3>1. PlainFiles(t)' /\ (task'[p] = t => PlainAt(p, t)')
      BY <1>1, <1>a, <2>2, PlainWorkerInner, PlainHandlerInner DEF Plain
    <3> QED
      BY <1>a, <2>1, <3>1, PlainOfOne
  <2>3. CASE task[p] # t
    <3>1. SameFiles(t) /\ task'[p] # t
      BY <1>1, <1>a, <2>1, <2>3, InnerFiles DEF Owns, IInv
    <3>2. PlainFiles(t)'
      BY <1>a, <2>1, <3>1 DEF PlainFiles, SameFiles
    <3> QED
      BY <1>a, <2>1, <3>1, <3>2, PlainOfOne
  <2> QED
    BY <2>2, <2>3
<1>2. ASSUME NEW p \in Processes, StatusFile(p)
      PROVE  Plain(t)'
  <2>1. /\ Locals(p) /\ task' = task /\ payload' = payload /\ result' = result
        /\ pc[p] = "status_file" /\ pc'[p] = "status_row" /\ then' = then
    BY <1>2, <1>a, LocalsOfGoto, GotoEffect DEF StatusFile, Goto
  <2>2. PlainFiles(t)' /\ submitted' = submitted
    BY <1>2, <1>a DEF StatusFile, WriteStatusFile, PlainFiles, queueVars
  <2>3. task[p] = t => PlainAt(p, t)'
    BY <1>a, <2>1, <2>2 DEF Plain, PlainAt, Creating, Cancelling
  <2> QED
    BY <1>a, <2>1, <2>2, <2>3, PlainOfOne
<1>3. ASSUME NEW h \in Handlers, NEW u \in Tasks, CreateTask(h, u)
      PROVE  Plain(t)'
  <2> PICK round \in FirstRounds : Creates(h, u, round)
    BY <1>3, CreateTaskLocals
  <2>1. /\ Locals(h) /\ task'[h] = u /\ pc'[h] = "create_row"
        /\ result' = result
        /\ payload'[h] = [round |-> round, history |-> <<>>]
        /\ statusFile[u] = "absent"
        /\ requestFile' = [requestFile EXCEPT ![u] = round]
        /\ submitted' = [submitted EXCEPT ![u] = round]
        /\ resultFile' = resultFile /\ job' = job
    BY DEF Creates
  <2>2. pc[h] = "idle"
    BY <1>3 DEF CreateTask
  <2>3. CASE u = t
    <3>1. /\ requestFile'[t] = round /\ submitted'[t] = round
          /\ resultFile'[t] = NoResult /\ job'[t].state = "absent"
          /\ \A q \in Processes : task[q] # t
      BY <1>a, <2>1, <2>3 DEF FreshInv, IInv, JobsHeld
    <3>2. PlainFiles(t)'
      BY <3>1 DEF PlainFiles
    <3>3. PlainAt(h, t)'
      BY <1>a, <1>b, <1>c, <2>1, <2>2, <3>1 DEF PlainAt, Creating, ControlAt
    <3>4. \A q \in Processes : task'[q] = t => q = h
      BY <2>1, <3>1 DEF Locals, OtherLocals
    <3> QED
      BY <3>2, <3>3, <3>4 DEF Plain
  <2>4. CASE u # t
    <3>1. requestFile'[t] = requestFile[t] /\ submitted'[t] = submitted[t]
      BY <1>a, <2>1, <2>4
    <3>2. PlainFiles(t)'
      BY <1>a, <2>1, <3>1 DEF PlainFiles
    <3> QED
      BY <1>a, <2>1, <2>4, <3>1, <3>2, PlainOfOne
  <2> QED
    BY <2>3, <2>4
<1>4. ASSUME NEW h \in Handlers, NEW u \in Tasks, CancelTask(h, u)
      PROVE  Plain(t)'
  <2>1. /\ Locals(h) /\ task'[h] = u /\ payload' = payload /\ result' = result
        /\ pc[h] = "idle" /\ pc'[h] = "status_file" /\ then'[h] = "idle"
    BY <1>4, <1>a, LocalsOfRequest DEF CancelTask, LocalTypeOK, SetStatus
  <2>2. PlainFiles(t)' /\ submitted' = submitted
    <3>1. job'[t] = job[t] \/ job'[t].state = "cancelled"
      BY <1>4, <1>a DEF CancelTask, CancelJob, Jobs
    <3> QED
      BY <1>4, <1>a, <3>1 DEF CancelTask, PlainFiles, storeVars
  <2>3. PlainAt(h, t)'
    BY <1>a, <1>b, <1>c, <2>1, <2>2 DEF PlainAt, Creating, Cancelling, ControlAt
  <2> QED
    BY <1>a, <2>1, <2>2, <2>3, PlainOfOne
<1>5. ASSUME NEW h \in Handlers, NEW u \in Tasks, NEW d \in Decisions,
             BeginReview(h, u, d)
      PROVE  Plain(t)'
  <2>1. Locals(h) /\ task'[h] = u
    BY <1>5, <1>a, LocalsOfRequest DEF BeginReview
  <2>2. u # t
    BY <1>5 DEF BeginReview, IInv, Unreviewed
  <2>3. PlainFiles(t)' /\ submitted' = submitted
    BY <1>5, <1>a DEF BeginReview, PlainFiles, storeVars, queueVars
  <2> QED
    BY <1>a, <2>1, <2>2, <2>3, PlainOfOne
<1>6. ASSUME NEW h \in Handlers, EnqueueTask(h)
      PROVE  Plain(t)'
  <2>1. Locals(h) /\ task'[h] = NoTask /\ task[h] \in Tasks
    BY <1>6, <1>a, LocalsOfReturn, ActiveTask DEF EnqueueTask, IInv
  <2>2. job'[t] = job[t] \/ job'[t].payload = FirstRequest(t)
    BY <1>6, <1>a, <2>1 DEF EnqueueTask, Enqueue, Plain, PlainAt, Creating
  <2>3. PlainFiles(t)' /\ submitted' = submitted
    BY <1>6, <1>a, <2>2 DEF EnqueueTask, PlainFiles, storeVars
  <2> QED
    BY <1>a, <2>1, <2>3, PlainOfOne
<1>7. ASSUME NEW w \in Workers, NEW u \in Tasks, ClaimJob(w, u)
      PROVE  Plain(t)'
  <2>1. /\ Locals(w) /\ task'[w] = u /\ payload'[w] = job[u].payload
        /\ result' = result /\ pc[w] = "idle" /\ job[u].state = "queued"
    BY <1>7, <1>a DEF ClaimJob, Claim, Queued, LocalTypeOK, Locals, Alone, OtherLocals
  <2>2. PlainFiles(t)' /\ submitted' = submitted
    <3>1. job'[t] = job[t] \/ (job'[t].payload = job[t].payload
                                /\ job[t].state = "queued")
      BY <1>7, <1>a, <2>1 DEF ClaimJob, Claim, Jobs
    <3> QED
      BY <1>7, <1>a, <3>1 DEF ClaimJob, PlainFiles, storeVars
  <2>3. u = t => PlainAt(w, t)'
    BY <1>a, <1>b, <1>c, <2>1, <2>2 DEF PlainAt, PlainFiles, ControlAt
  <2> QED
    BY <1>a, <2>1, <2>2, <2>3, PlainOfOne
<1>8. ASSUME NEW w \in Workers, StartWorker(w) \/ FinishJob(w) \/ CrashWorker(w)
      PROVE  Plain(t)'
  <2>1. Locals(w) /\ (task'[w] = NoTask \/ (task[w] = NoTask /\ task' = task))
    BY <1>8, <1>a, <1>b, LocalsOfGoto, LocalsOfReturn
       DEF StartWorker, FinishJob, CrashWorker, ControlAt, Goto
  <2>2. \/ job'[t] = job[t]
        \/ job[t].state = "running" /\ job'[t].payload = job[t].payload
        \/ job'[t].state \in {"completed", "failed"}
    <3>1. CASE StartWorker(w)
      BY <3>1, <1>a DEF StartWorker, RecoverRunning, Jobs
    <3>2. CASE FinishJob(w)
      BY <3>2, <1>a, <1>b DEF FinishJob, Finish, Jobs, ControlAt
    <3>3. CASE CrashWorker(w)
      BY <3>3 DEF CrashWorker, queueVars
    <3> QED
      BY <1>8, <3>1, <3>2, <3>3
  <2>3. PlainFiles(t)' /\ submitted' = submitted
    BY <1>8, <1>a, <2>2 DEF StartWorker, FinishJob, CrashWorker, PlainFiles, storeVars
  <2> QED
    BY <1>a, <2>1, <2>3, PlainOfOne
<1>9. CASE CrashApi \/ (\E u \in Tasks : Elapse(u)) \/ UNCHANGED vars
  <2>1. \/ job'[t] = job[t]
        \/ job[t].state = "running" /\ job'[t].payload = job[t].payload
    BY <1>9, <1>a DEF CrashApi, Elapse, BecomeStale, queueVars, vars, Jobs
  <2>2. PlainFiles(t)' /\ submitted' = submitted
    BY <1>9, <1>a, <2>1 DEF CrashApi, Elapse, PlainFiles, storeVars, vars
  <2>3. ASSUME NEW q \in Processes, task'[q] = t
        PROVE  PlainAt(q, t)'
    <3>1. /\ task[q] = t
          /\ pc'[q] = pc[q] /\ then'[q] = then[q]
          /\ payload'[q] = payload[q] /\ result'[q] = result[q]
      BY <1>9, <1>a, <2>3 DEF CrashApi, Elapse, vars, localVars
    <3> QED
      BY <1>a, <2>2, <3>1 DEF Plain, PlainAt, Creating, Cancelling
  <2> QED
    BY <2>2, <2>3 DEF Plain
<1> QED
  BY <1>1, <1>2, <1>3, <1>4, <1>5, <1>6, <1>7, <1>8, <1>9, StepCases
-----------------------------------------------------------------------------
(* The theorems.                                                            *)

ReviewInv == IInv /\ BlankInv /\ FreshInv /\ LifeInv /\ PlainInv

LEMMA ReviewInit == Init => ReviewInv
<1> SUFFICES ASSUME Init PROVE ReviewInv
  OBVIOUS
<1> USE DEF Init, StoreInit, QueueInit, Processes
<1>1. IInv
  BY IInvInit
<1>2. BlankInv /\ FreshInv
  BY DEF BlankInv, FreshInv
<1>3. \A t \in Tasks, p \in Processes : task[p] # t
  BY NoTaskAssumption
<1>4. ASSUME NEW t \in Tasks
      PROVE  FileLife(t)
  <2>1. /\ statusFile[t] = "absent" /\ requestFile[t] = 0 /\ submitted[t] = 0
        /\ resultFile[t] = NoResult /\ job[t].state = "absent"
    BY DEF NoJob
  <2>2. Untouched(t) /\ \A k \in Kinds : records[t][k] <= 1
    BY DEF Untouched
  <2> QED
    BY <2>1, <2>2 DEF FileLife
<1>5. LifeInv
  BY <1>3, <1>4 DEF LifeInv, Life, Owns
<1>6. PlainInv
  BY <1>3 DEF PlainInv, Plain, PlainFiles, PlainResult, NoJob
<1> QED
  BY <1>1, <1>2, <1>5, <1>6 DEF ReviewInv

LEMMA ReviewStep == ReviewInv /\ [Next]_vars => ReviewInv'
BY IInvStep, BlankStep, FreshStep, LifeStep, PlainStep DEF ReviewInv

(* What owners know of their tasks, what files and records say of each      *)
(* other, and what unreviewed tasks never do, is inductive.                 *)
THEOREM ReviewInvariance == Spec => []ReviewInv
BY ReviewInit, ReviewStep, PTL DEF Spec

(* A task with review shown as completed with assets has been approved in   *)
(* the round of the result that is served (executor.review).                *)
THEOREM ReviewGateHolds == Spec => []ReviewGate
<1>1. ReviewInv => ReviewGate
  <2> SUFFICES ASSUME ReviewInv, NEW t \in ReviewRequired, Undisturbed(t),
                      statusFile[t] = "completed", resultFile[t].assets
               PROVE  LET h == resultFile[t].history IN
                      /\ resultFile[t].status = "completed"
                      /\ h # <<>>
                      /\ h[Len(h)] = [round |-> resultFile[t].round,
                                      decision |-> "approve"]
    BY DEF ReviewGate
  <2>1. t \in Tasks /\ requestFile[t] \in Nat /\ submitted[t] \in Nat
    BY TaskLifecycleAssumption, Counted DEF ReviewInv
  <2>2. PICK r \in Nat, f \in Nat : r = requestFile[t] /\ f = submitted[t]
    BY <2>1
  <2>3. resultFile[t] = Approved(f, r) /\ f <= r
    BY <2>1, <2>2 DEF ReviewInv, LifeInv, Life, FileLife, Undisturbed
  <2>4. /\ resultFile[t].status = "completed" /\ resultFile[t].round = r
        /\ resultFile[t].history = Approval(f, r)
    <3>1. /\ Approved(f, r).status = "completed" /\ Approved(f, r).round = r
          /\ Approved(f, r).history = Approval(f, r)
      BY DEF Approved, Preview
    <3> QED
      BY <2>3, <3>1
  <2>5. PICK n \in Nat : n = r - f + 1 /\ n # 0
    BY <2>3
  <2>6. Len(Approval(f, r)) = n /\ Approval(f, r)[n] = [round |-> r, decision |-> "approve"]
    BY <2>3, <2>5, ApprovalFacts
  <2> QED
    BY <2>4, <2>5, <2>6
<1> QED
  BY <1>1, ReviewInvariance, PTL

(* A result tells one revision for each round since the one the client      *)
(* submitted, in order, and the results of those rounds are archived under  *)
(* their own numbers (executor.review, TaskStore.archive_result and         *)
(* update_request), whatever round the client chose.                        *)
THEOREM HistoryKept == Spec => []HistoryMatchesRounds
<1>1. ReviewInv => HistoryMatchesRounds
  <2> SUFFICES ASSUME ReviewInv, NEW t \in Tasks, Undisturbed(t)
               PROVE  LET h == resultFile[t].history
                          first == submitted[t]
                          revisions == resultFile[t].round - first
                      IN
                      /\ resultFile[t] # NoResult =>
                           /\ revisions >= 0
                           /\ Len(h) \in {revisions, revisions + 1}
                           /\ \A i \in 1..revisions :
                                h[i] = [round |-> first + i - 1, decision |-> "revise"]
                           /\ resultFile[t].round <= requestFile[t]
                      /\ \A i \in first..(requestFile[t] - 1) :
                           /\ archived[t][i].round = i
                           /\ archived[t][i].status = "waiting_for_review"
    BY DEF HistoryMatchesRounds
  <2>1. PICK f \in Nat, k \in Nat :
           f = submitted[t] /\ k = resultFile[t].round /\ requestFile[t] \in Nat
    BY Counted DEF ReviewInv
  <2>2. CASE t \notin ReviewRequired
    <3>1. requestFile[t] = f /\ PlainResult(resultFile[t], t)
      BY <2>1, <2>2 DEF ReviewInv, PlainInv, Plain, PlainFiles
    <3>2. resultFile[t] # NoResult => k = f /\ resultFile[t].history = <<>>
      BY <2>1, <3>1 DEF PlainResult
    <3> QED
      BY <2>1, <3>1, <3>2
  <2>3. CASE t \in ReviewRequired
    <3>1. FileLife(t)
      BY <2>3 DEF ReviewInv, LifeInv, Life, Undisturbed
    <3>2. \A i \in f..(requestFile[t] - 1) : archived[t][i] = Preview(f, i)
      BY <2>1, <3>1 DEF FileLife
    <3>3. ASSUME NEW i \in f..(requestFile[t] - 1)
          PROVE  archived[t][i].round = i /\ archived[t][i].status = "waiting_for_review"
      <4>1. archived[t][i] = Preview(f, i)
        BY <3>2
      <4> QED
        BY <4>1 DEF Preview
    <3>4. ASSUME resultFile[t] # NoResult
          PROVE  /\ f <= k /\ k <= requestFile[t]
                 /\ Len(resultFile[t].history) \in {k - f, k - f + 1}
                 /\ \A i \in 1..(k - f) :
                      resultFile[t].history[i] = [round |-> f + i - 1,
                                                  decision |-> "revise"]
      <4>1. /\ f <= k /\ k <= requestFile[t]
            /\ resultFile[t].history \in {Revisions(f, k), Approval(f, k)}
        BY <2>1, <3>1, <3>4 DEF FileLife
      <4>2. /\ Len(Revisions(f, k)) = k - f
            /\ \A i \in 1..(k - f) :
                 Revisions(f, k)[i] = [round |-> f + i - 1, decision |-> "revise"]
        BY <4>1, RevisionFacts
      <4>3. /\ Len(Approval(f, k)) = k - f + 1
            /\ \A i \in 1..(k - f) :
                 Approval(f, k)[i] = [round |-> f + i - 1, decision |-> "revise"]
        BY <4>1, ApprovalFacts
      <4> QED
        BY <4>1, <4>2, <4>3
    <3> QED
      BY <2>1, <3>3, <3>4
  <2> QED
    BY <2>2, <2>3
<1> QED
  BY <1>1, ReviewInvariance, PTL

(* Memory, experience and provenance receive a task at most once and        *)
(* nothing of a preview (_write_memory, _write_experience,                  *)
(* _write_provenance).                                                      *)
THEOREM RecordsOnce == Spec => []RecordedOnce
<1>1. ReviewInv => RecordedOnce
  BY DEF ReviewInv, LifeInv, Life, FileLife, Untouched, RecordedOnce
<1> QED
  BY <1>1, ReviewInvariance, PTL
-----------------------------------------------------------------------------
(* What the writes of status.json may replace.                              *)

(* The owner that calls set_status, with what it knows of the task.         *)
LEMMA StatusWriter ==
    ASSUME ReviewInv, ~Overrun, restarts = 0, NEW p \in Processes, StatusFile(p)
    PROVE  \E t \in Tasks :
              /\ task[p] = t /\ CallsSetStatus(p) /\ BeforeStatus(p, t)
              /\ statusFile' = [statusFile EXCEPT ![t] = put[p]]
              /\ requestFile' = requestFile /\ resultFile' = resultFile
<1>1. LocalTypeOK /\ pc[p] = "status_file" /\ IInv
  BY DEF ReviewInv, IInv, TypeOK, StatusFile
<1>2. PICK t \in Tasks : task[p] = t
  BY <1>1, ActiveTask DEF IInv
<1>3. OwnerLife(p, t)
  BY <1>1, <1>2 DEF ReviewInv, LifeInv, Life, Owns
<1>4. CallsSetStatus(p) /\ BeforeStatus(p, t)
  BY <1>1, <1>3 DEF OwnerLife, IInv, ControlOK, ControlAt
<1> QED
  BY <1>2, <1>4 DEF StatusFile, WriteStatusFile

(* Every other step but the creation of a task leaves the statuses alone.   *)
LEMMA StatusKept ==
    ASSUME [Next]_vars,
           ~\E p \in Processes : StatusFile(p),
           ~\E h \in Handlers, t \in Tasks : CreateTask(h, t)
    PROVE  statusFile' = statusFile
<1> USE DEF storeVars, vars
<1>1. ASSUME NEW p \in Processes, Inner(p)
      PROVE  statusFile' = statusFile
  BY <1>1, InnerNoTransfer DEF NoTransfer
<1> QED
  BY <1>1, StepCases
     DEF CancelTask, BeginReview, EnqueueTask, StartWorker, FinishJob, CrashWorker,
         ClaimJob, Elapse, CrashApi

LEMMA TerminalKept ==
    ASSUME ReviewInv, [Next]_vars, ~Overrun, restarts = 0,
           NEW t \in Tasks, statusFile[t] \in Terminal
    PROVE  statusFile'[t] = statusFile[t]
<1>a. statusFile \in [Tasks -> Statuses]
  BY DEF ReviewInv, IInv, TypeOK, StoreTypeOK
<1>1. ASSUME NEW p \in Processes, StatusFile(p)
      PROVE  statusFile'[t] = statusFile[t]
  <2>1. PICK u \in Tasks :
          /\ CallsSetStatus(p) /\ BeforeStatus(p, u)
          /\ statusFile' = [statusFile EXCEPT ![u] = put[p]]
    BY <1>1, StatusWriter
  <2>2. statusFile[u] \in {"created", "queued", "running", "waiting_for_review",
                           "review_processing"}
    BY <2>1 DEF CallsSetStatus, BeforeStatus, UnderReview, ResultOf
  <2>3. statusFile[u] \notin Terminal
    BY <2>2, TaskStoreAssumption DEF Terminal
  <2> QED
    BY <1>a, <2>1, <2>3
<1>2. ASSUME NEW h \in Handlers, NEW u \in Tasks, CreateTask(h, u)
      PROVE  statusFile'[t] = statusFile[t]
  BY <1>2, <1>a, TaskStoreAssumption DEF CreateTask, CreateFiles, Terminal
<1> QED
  BY <1>1, <1>2, StatusKept

(* No late write of a worker, a reviewer or a canceller reopens a task.     *)
THEOREM TerminalStays == Spec => TerminalIsFinal
<1> DEFINE Final == ~Overrun /\ restarts = 0 =>
                      \A t \in Tasks : statusFile[t] \in Terminal =>
                                         statusFile'[t] = statusFile[t]
<1>1. ReviewInv /\ [Next]_vars => [Final]_vars
  BY TerminalKept
<1>2. Spec => [][Next]_vars
  BY DEF Spec
<1>3. TerminalIsFinal <=> [][Final]_vars
  BY DEF TerminalIsFinal
<1> HIDE DEF Final
<1> QED
  BY <1>1, <1>2, <1>3, ReviewInvariance, PTL

-----------------------------------------------------------------------------
(* The service keeps the promise of TaskPromise.                            *)

PhaseOf(t) ==
    IF statusFile[t] = "review_processing" /\ requestFile[t] > resultFile[t].round
    THEN "amended" ELSE statusFile[t]

LEMMA PromisedMove ==
    ASSUME NEW t \in Tasks, NEW from, NEW to,
           PhaseOf(t) \in from, PhaseOf(t)' = to,
           \A u \in Tasks \ {t} : PhaseOf(u)' = PhaseOf(u),
           requestFile' = requestFile
    PROVE  Promised!Move(t, from, to)
BY DEF Promised!Move, PhaseOf

LEMMA PromisedStutter ==
    ASSUME \A t \in Tasks : PhaseOf(t)' = PhaseOf(t), requestFile' = requestFile
    PROVE  UNCHANGED Promised!pvars
BY DEF Promised!pvars, PhaseOf
(* set_status: each of its calls is a move of the promise.                  *)
LEMMA StatusFileMoves ==
    ASSUME ReviewInv, ~Overrun, restarts = 0, NEW p \in Processes, StatusFile(p)
    PROVE  Promised!Next
<1> USE DEF Processes
<1>1. PICK t \in Tasks :
        /\ task[p] = t /\ CallsSetStatus(p) /\ BeforeStatus(p, t)
        /\ statusFile' = [statusFile EXCEPT ![t] = put[p]]
        /\ requestFile' = requestFile /\ resultFile' = resultFile
  BY StatusWriter
<1>2. /\ statusFile \in [Tasks -> Statuses]
      /\ requestFile[t] \in Nat /\ resultFile[t].round \in Nat
      /\ submitted[t] \in Nat
      /\ Workers \cap Handlers = {}
  <2>1. statusFile \in [Tasks -> Statuses] /\ IInv
    BY DEF ReviewInv, IInv, TypeOK, StoreTypeOK
  <2> QED
    BY <2>1, Counted, TaskLifecycleAssumption
<1>3. /\ PhaseOf(t)' = IF put[p] = "review_processing"
                          /\ requestFile[t] > resultFile[t].round
                       THEN "amended" ELSE put[p]
      /\ \A u \in Tasks \ {t} : PhaseOf(u)' = PhaseOf(u)
  BY <1>1, <1>2 DEF PhaseOf
<1>4. put[p] # "review_processing" => PhaseOf(t)' = put[p]
  BY <1>3
<1>r. /\ Preview(submitted[t], requestFile[t]).round = requestFile[t]
      /\ Approved(submitted[t], requestFile[t]).round = requestFile[t]
      /\ Approved(submitted[t], requestFile[t]).status = "completed"
      /\ Preview(submitted[t], requestFile[t]).status = "waiting_for_review"
  BY DEF Approved, Preview
<1>5. CASE then[p] = "enqueue"
  <2>1. put[p] = "queued" /\ PhaseOf(t) \in {"created", "amended"}
    BY <1>1, <1>2, <1>5 DEF CallsSetStatus, BeforeStatus, PhaseOf
  <2>2. Promised!Queue(t)
    BY <1>1, <1>3, <1>4, <2>1, PromisedMove DEF Promised!Queue
  <2> QED
    BY <2>2 DEF Promised!Next
<1>6. CASE then[p] = "load"
  <2>1. put[p] = "review_processing" /\ statusFile[t] = "waiting_for_review"
    BY <1>1, <1>6 DEF CallsSetStatus, BeforeStatus
  <2>2. FileLife(t)
    BY DEF ReviewInv, LifeInv, Life
  <2>3. resultFile[t].round = requestFile[t]
    BY <1>r, <2>1, <2>2 DEF FileLife
  <2>4. PhaseOf(t)' = "review_processing" /\ PhaseOf(t) \in {"waiting_for_review"}
    BY <1>2, <1>3, <2>1, <2>3 DEF PhaseOf
  <2>5. Promised!OpenReview(t)
    BY <1>1, <1>3, <2>4, PromisedMove DEF Promised!OpenReview
  <2> QED
    BY <2>5 DEF Promised!Next
<1>7. CASE then[p] = "idle"
  <2>1. \/ put[p] = "cancelled" /\ PhaseOf(t) \in {"queued"}
        \/ put[p] = "waiting_for_review" /\ PhaseOf(t) \in {"review_processing"}
    BY <1>1, <1>2, <1>7, <1>r
       DEF CallsSetStatus, BeforeStatus, UnderReview, PhaseOf
  <2>2. Promised!Cancel(t) \/ Promised!Decline(t)
    BY <1>1, <1>3, <1>4, <2>1, PromisedMove DEF Promised!Cancel, Promised!Decline
  <2> QED
    BY <2>2 DEF Promised!Next
<1>8. CASE then[p] = "execute"
  <2>1. put[p] = "running" /\ PhaseOf(t) \in {"queued"}
    BY <1>1, <1>8 DEF CallsSetStatus, BeforeStatus, PhaseOf
  <2>2. Promised!Start(t)
    BY <1>1, <1>3, <1>4, <2>1, PromisedMove DEF Promised!Start
  <2> QED
    BY <2>2 DEF Promised!Next
<1>9. CASE then[p] = "report"
  <2>1. put[p] = "failed" /\ PhaseOf(t) \in {"running"}
    BY <1>1, <1>9 DEF CallsSetStatus, BeforeStatus, PhaseOf
  <2>2. "failed" \in Terminal \ {"cancelled"}
    BY DEF Terminal
  <2>3. Promised!Move(t, {"running"}, "failed")
    BY <1>1, <1>3, <1>4, <2>1, PromisedMove
  <2>4. Promised!End(t)
    BY <2>2, <2>3 DEF Promised!End
  <2> QED
    BY <2>4 DEF Promised!Next
<1>10. CASE then[p] = "trace"
  <2>1. /\ put[p] = result[p].status /\ put[p] \in Outcomes
        /\ resultFile[t] = result[p] /\ ResultOf(p, t)
    BY <1>1, <1>10 DEF CallsSetStatus, BeforeStatus
  <2>2. put[p] # "review_processing"
    BY <2>1, TaskStoreAssumption DEF Outcomes, Terminal
  <2>3. CASE p \in Workers
    <3>1. PhaseOf(t) \in {"running"}
      BY <2>1, <2>3 DEF ResultOf, PhaseOf
    <3>2. PICK s : s = put[p]
      OBVIOUS
    <3>3. s \in Terminal \ {"cancelled"} \/ s = "waiting_for_review"
      BY <1>r, <2>1, <2>3, <3>2, TaskStoreAssumption DEF ResultOf, Terminal
    <3>4. Promised!Move(t, {"running"}, s)
      BY <1>1, <1>3, <1>4, <2>2, <3>1, <3>2, PromisedMove
    <3>5. Promised!End(t) \/ Promised!Submit(t)
      BY <3>3, <3>4 DEF Promised!End, Promised!Submit
    <3> QED
      BY <3>5 DEF Promised!Next
  <2>4. CASE p \notin Workers
    <3>1. put[p] = "completed" /\ PhaseOf(t) \in {"review_processing"}
      BY <1>2, <1>r, <2>1, <2>4 DEF ResultOf, PhaseOf
    <3>2. Promised!Approve(t)
      BY <1>1, <1>3, <1>4, <3>1, PromisedMove DEF Promised!Approve
    <3> QED
      BY <3>2 DEF Promised!Next
  <2> QED
    BY <2>3, <2>4
<1> QED
  BY <1>1, <1>5, <1>6, <1>7, <1>8, <1>9, <1>10 DEF CallsSetStatus

(* A recorded revision amends the task.                                     *)
LEMMA UpdateRequestMoves ==
    ASSUME ReviewInv, ~Overrun, restarts = 0, NEW h \in Handlers, UpdateRequest(h)
    PROVE  Promised!Next
<1> USE DEF Processes
<1>1. /\ LocalTypeOK /\ pc[h] = "request_file"
      /\ requestFile \in [Tasks -> Rounds]
      /\ statusFile' = statusFile /\ resultFile' = resultFile
  BY DEF ReviewInv, IInv, TypeOK, StoreTypeOK, UpdateRequest, WriteRequest
<1>2. PICK t \in Tasks : task[h] = t
  BY <1>1, ActiveTask DEF ReviewInv, IInv
<1>3. requestFile[t] \in Nat
  BY Counted DEF ReviewInv
<1>4. OwnerLife(h, t)
  BY <1>1, <1>2 DEF ReviewInv, LifeInv, Life, Owns
<1>5. /\ statusFile[t] = "review_processing"
      /\ resultFile[t].round = requestFile[t]
      /\ payload[h].round = requestFile[t] + 1
      /\ requestFile[t] < MaxReviewRounds
  BY <1>1, <1>4 DEF OwnerLife, UnderReview, Preview, RequestOf
<1>6. requestFile' = [requestFile EXCEPT ![t] = @ + 1]
  BY <1>2, <1>5 DEF UpdateRequest, WriteRequest
<1>7. /\ PhaseOf(t) = "review_processing" /\ PhaseOf(t)' = "amended"
      /\ \A u \in Tasks \ {t} : PhaseOf(u)' = PhaseOf(u)
  BY <1>1, <1>3, <1>5, <1>6 DEF PhaseOf
<1>8. Promised!Amend(t)
  <2>1. [u \in Tasks |-> PhaseOf(u)'] = [[u \in Tasks |-> PhaseOf(u)] EXCEPT ![t] = "amended"]
    BY <1>7
  <2> QED
    BY <1>5, <1>6, <1>7, <2>1 DEF Promised!Amend, PhaseOf
<1> QED
  BY <1>8 DEF Promised!Next

(* No other step shows: save_result replaces a result by one of its round.  *)
LEMMA OtherStutters ==
    ASSUME ReviewInv, ~Overrun, restarts = 0, [Next]_vars,
           ~\E p \in Processes : StatusFile(p),
           ~\E h \in Handlers : UpdateRequest(h),
           ~\E h \in Handlers, t \in Tasks : CreateTask(h, t)
    PROVE  UNCHANGED Promised!pvars
<1> USE DEF Processes, storeVars, vars
<1>1. statusFile' = statusFile
  BY StatusKept
<1>2. ASSUME NEW p \in Processes, SaveResult(p)
      PROVE  UNCHANGED Promised!pvars
  <2>1. /\ LocalTypeOK /\ pc[p] = "save" /\ resultFile \in [Tasks -> Results]
        /\ Workers \cap Handlers = {}
    BY <1>2, TaskLifecycleAssumption
       DEF ReviewInv, IInv, TypeOK, StoreTypeOK, SaveResult
  <2>2. PICK t \in Tasks : task[p] = t
    BY <2>1, ActiveTask DEF ReviewInv, IInv
  <2>3. requestFile[t] \in Nat /\ submitted[t] \in Nat
    BY Counted DEF ReviewInv
  <2>4. /\ ResultOf(p, t)
        /\ p \in Handlers => resultFile[t] = Preview(submitted[t], requestFile[t])
    BY <2>1, <2>2 DEF ReviewInv, LifeInv, Life, Owns, OwnerLife
  <2>5. /\ requestFile' = requestFile /\ resultFile'[t] = result[p]
        /\ \A u \in Tasks \ {t} : resultFile'[u] = resultFile[u]
    BY <1>2, <2>1, <2>2 DEF SaveResult, WriteResult
  <2>6. /\ Preview(submitted[t], requestFile[t]).round = requestFile[t]
        /\ Approved(submitted[t], requestFile[t]).round = requestFile[t]
    BY DEF Approved, Preview
  <2>7. PhaseOf(t)' = PhaseOf(t)
    BY <1>1, <2>3, <2>4, <2>5, <2>6 DEF PhaseOf, ResultOf
  <2>8. \A u \in Tasks : PhaseOf(u)' = PhaseOf(u)
    BY <1>1, <2>5, <2>7 DEF PhaseOf
  <2> QED
    BY <2>5, <2>8, PromisedStutter
<1>3. CASE ~\E p \in Processes : SaveResult(p)
  <2>1. ASSUME NEW p \in Processes, Inner(p)
        PROVE  requestFile' = requestFile /\ resultFile' = resultFile
    BY <1>3, <2>1
       DEF Inner, StatusRow, WriteStatusRow, Record, RecordRaises, SaveTrace, WriteTrace,
           CreateTaskRow, CreateRow, LoadFails, Approve, RefuseRevision, Revise,
           Archive, ArchiveResult, UpdateRequestRow, WriteRequestRow, Validate,
           Execute, ExecuteRaises, Report
  <2>2. requestFile' = requestFile /\ resultFile' = resultFile
    BY <2>1, StepCases
       DEF CancelTask, BeginReview, EnqueueTask, StartWorker, FinishJob,
           CrashWorker, ClaimJob, Elapse, CrashApi
  <2>3. \A u \in Tasks : PhaseOf(u)' = PhaseOf(u)
    BY <1>1, <2>2 DEF PhaseOf
  <2> QED
    BY <2>2, <2>3, PromisedStutter
<1> QED
  BY <1>2, <1>3

LEMMA PromisedStep ==
    ASSUME ReviewInv, ~Overrun, restarts = 0, [Next]_vars
    PROVE  [Promised!Next]_(Promised!pvars)
<1>1. ASSUME NEW h \in Handlers, NEW t \in Tasks, CreateTask(h, t)
      PROVE  Promised!Next
  <2> PICK round \in FirstRounds : Creates(h, t, round)
    BY <1>1, CreateTaskLocals DEF ReviewInv
  <2>1. /\ statusFile[t] = "absent" /\ resultFile' = resultFile
        /\ statusFile' = [statusFile EXCEPT ![t] = "created"]
        /\ requestFile' = [requestFile EXCEPT ![t] = round]
    BY DEF Creates
  <2>2. statusFile \in [Tasks -> Statuses] /\ requestFile \in [Tasks -> Rounds]
    BY DEF ReviewInv, IInv, TypeOK, StoreTypeOK
  <2>3. /\ PhaseOf(t) = "absent" /\ PhaseOf(t)' = "created"
        /\ \A u \in Tasks \ {t} : PhaseOf(u)' = PhaseOf(u)
    BY <2>1, <2>2 DEF PhaseOf
  <2>4. Promised!Accept(t)
    <3>1. [u \in Tasks |-> PhaseOf(u)'] =
            [[u \in Tasks |-> PhaseOf(u)] EXCEPT ![t] = "created"]
      BY <2>3
    <3> QED
      BY <2>1, <2>3, <3>1 DEF Promised!Accept, PhaseOf
  <2> QED
    BY <2>4 DEF Promised!Next
<1> QED
  BY <1>1, StatusFileMoves, UpdateRequestMoves, OtherStutters

LEMMA PromisedInit == Init => Promised!Init
BY DEF Init, StoreInit, Promised!Init, NoResult

(* With jobs that end within WORKER_STALE_SECONDS and workers that are not  *)
(* killed, whatever the interleaving of request threads and workers, what   *)
(* the API shows of every task moves as TaskPromise allows.                 *)
THEOREM PromiseKept ==
    ASSUME ~Overrun, MaxRestarts = 0
    PROVE  Spec => KeepsPromise
<1>1. ReviewInv => restarts = 0
  BY DEF ReviewInv, IInv, TypeOK
<1>2. ReviewInv /\ [Next]_vars => [Promised!Next]_(Promised!pvars)
  BY <1>1, PromisedStep
<1>3. Spec => Init /\ [][Next]_vars
  BY DEF Spec
<1>4. KeepsPromise <=> Promised!Init /\ [][Promised!Next]_(Promised!pvars)
  BY DEF KeepsPromise, Promised!Spec
<1> QED
  BY <1>2, <1>3, <1>4, PromisedInit, ReviewInvariance, PTL
=============================================================================
