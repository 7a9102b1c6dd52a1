----------------------------- MODULE TaskStore -----------------------------
(***************************************************************************)
(* The durable state of one task as task_store.py and task_repository.py   *)
(* keep it: status.json, request.json, result.json, trace.jsonl and the    *)
(* result.review_N.json archives in the task directory, and the row of the *)
(* metadata database.  A file is replaced atomically; two files, or a file *)
(* and the row, are two writes.  A request is identified by its review     *)
(* round, the only field the lifecycle changes; a result by its status,    *)
(* round, review history and whether it holds assets.                      *)
(***************************************************************************)
EXTENDS Integers, Sequences, FiniteSets

CONSTANTS
    Tasks,            \* the task identifiers that may be created
    MaxReviewRounds,  \* TaskRequest.max_review_rounds
    FirstRounds,      \* TaskRequest.review_round, as clients send it: 0 to 20,
                      \* whatever the maximum is
    EngineStatuses    \* the statuses a campaign run may return

ASSUME TaskStoreAssumption ==
    /\ MaxReviewRounds \in Nat \ {0}
    /\ FirstRounds \subseteq Nat
    /\ EngineStatuses \subseteq {"completed", "aborted", "waiting_for_user", "failed"}

VARIABLES
    statusFile,   \* status.json: the "status" field
    metaStatus,   \* the status column of the tasks row
    requestFile,  \* request.json: the review round
    metaRequest,  \* the request_json column of the tasks row: the review round
    resultFile,   \* result.json
    traceFile,    \* trace.jsonl: the round of the result whose trace it holds
    archived,     \* result.review_N.json
    submitted     \* history: the review round the client submitted, which no
                  \* file keeps once a revision has replaced request.json

storeVars == <<statusFile, metaStatus, requestFile, metaRequest, resultFile,
               traceFile, archived, submitted>>

(* A round is counted up to the maximum, or as the client sent it.          *)
Rounds == (0..MaxReviewRounds) \cup FirstRounds

(* Statuses after which no operation of the service touches the task again. *)
Terminal == EngineStatuses \cup {"completed", "failed", "cancelled"}

Statuses == Terminal \cup {"absent", "created", "queued", "running",
                           "waiting_for_review", "review_processing"}

ReviewRecords == [round : Rounds, decision : {"approve", "revise"}]

Results == [status : Statuses \cup {"none"}, round : Rounds,
            history : Seq(ReviewRecords), assets : BOOLEAN]

NoResult == [status |-> "none", round |-> 0, history |-> <<>>, assets |-> FALSE]

NoRound == -1   \* there is no trace.jsonl yet

StoreTypeOK ==
    /\ statusFile  \in [Tasks -> Statuses]
    /\ metaStatus  \in [Tasks -> Statuses]
    /\ requestFile \in [Tasks -> Rounds]
    /\ metaRequest \in [Tasks -> Rounds]
    /\ resultFile  \in [Tasks -> Results]
    /\ traceFile   \in [Tasks -> Rounds \cup {NoRound}]
    /\ archived    \in [Tasks -> [Rounds -> Results]]
    /\ submitted   \in [Tasks -> Rounds]

StoreInit ==
    /\ statusFile  = [t \in Tasks |-> "absent"]
    /\ metaStatus  = [t \in Tasks |-> "absent"]
    /\ requestFile = [t \in Tasks |-> 0]
    /\ metaRequest = [t \in Tasks |-> 0]
    /\ resultFile  = [t \in Tasks |-> NoResult]
    /\ traceFile   = [t \in Tasks |-> NoRound]
    /\ archived    = [t \in Tasks |-> [r \in Rounds |-> NoResult]]
    /\ submitted   = [t \in Tasks |-> 0]

-----------------------------------------------------------------------------
(* TaskStore.create: the directory and its files, then the metadata row.    *)

CreateFiles(t, round) ==
    /\ statusFile[t] = "absent"
    /\ statusFile' = [statusFile EXCEPT ![t] = "created"]
    /\ requestFile' = [requestFile EXCEPT ![t] = round]
    /\ submitted' = [submitted EXCEPT ![t] = round]
    /\ UNCHANGED <<metaStatus, metaRequest, resultFile, traceFile, archived>>

CreateRow(t, round) ==
    /\ metaStatus' = [metaStatus EXCEPT ![t] = "created"]
    /\ metaRequest' = [metaRequest EXCEPT ![t] = round]
    /\ UNCHANGED <<statusFile, requestFile, resultFile, traceFile, archived,
                   submitted>>

(* TaskStore.set_status: status.json first, the metadata row second.        *)

WriteStatusFile(t, s) ==
    /\ statusFile' = [statusFile EXCEPT ![t] = s]
    /\ UNCHANGED <<metaStatus, requestFile, metaRequest, resultFile, traceFile,
                   archived, submitted>>

(* Slip: the UPDATE of the row is not committed.                            *)
StatusRowUncommitted(t, s) == UNCHANGED storeVars

WriteStatusRow(t, s) ==
    /\ metaStatus' = [metaStatus EXCEPT ![t] = s]
    /\ UNCHANGED <<statusFile, requestFile, metaRequest, resultFile, traceFile,
                   archived, submitted>>

(* TaskStore.save_result: result.json, set_status, trace.jsonl.             *)

WriteResult(t, result) ==
    /\ resultFile' = [resultFile EXCEPT ![t] = result]
    /\ UNCHANGED <<statusFile, metaStatus, requestFile, metaRequest, traceFile,
                   archived, submitted>>

WriteTrace(t, round) ==
    /\ traceFile' = [traceFile EXCEPT ![t] = round]
    /\ UNCHANGED <<statusFile, metaStatus, requestFile, metaRequest, resultFile,
                   archived, submitted>>

(* TaskStore.archive_result: a round already archived is refused.           *)

ArchiveExists(t, round) == archived[t][round] # NoResult

ArchiveResult(t, round) ==
    /\ ~ArchiveExists(t, round)
    /\ archived' = [archived EXCEPT ![t][round] = resultFile[t]]
    /\ UNCHANGED <<statusFile, metaStatus, requestFile, metaRequest, resultFile,
                   traceFile, submitted>>

(* TaskStore.update_request: request.json first, the metadata row second.   *)

WriteRequest(t, round) ==
    /\ requestFile' = [requestFile EXCEPT ![t] = round]
    /\ UNCHANGED <<statusFile, metaStatus, metaRequest, resultFile, traceFile,
                   archived, submitted>>

WriteRequestRow(t, round) ==
    /\ metaRequest' = [metaRequest EXCEPT ![t] = round]
    /\ UNCHANGED <<statusFile, metaStatus, requestFile, resultFile, traceFile,
                   archived, submitted>>
=============================================================================
