---------------------------- MODULE ModelWorker ----------------------------
(***************************************************************************)
(* PersistentJsonModelWorker (adapters/subprocess_adapters.py) and the     *)
(* process it talks to (model_worker.py --serve).  Threads call a tool     *)
(* through the GPU scheduler; the tool sends one request line to the model *)
(* process and reads lines until a result.  The process logs to the same   *)
(* pipe, may leave a line of log unended, may log bytes that are no text,  *)
(* may answer late or never and may exit at any time.                      *)
(*                                                                         *)
(* A request is known by its number, a line of output by the request it    *)
(* answers, or Log.  What follows an unended piece of log is one line with *)
(* it, and no result, since it does not begin with RESULT_PREFIX.  A       *)
(* process is known by its number.  The text of requests and results,      *)
(* restart_count and peak_active are left out.                             *)
(***************************************************************************)
EXTENDS GpuScheduler, Sequences, SequencesExt

CONSTANTS
    Threads,
    NoThread,
    Pids,       \* process numbers, taken again like those of the system
    MaxCalls,   \* bound: calls of all threads
    MaxLogs,    \* bound: log lines of a process
    MaxCloses   \* bound: calls of close()

ASSUME ModelWorkerAssumption ==
    /\ IsFiniteSet(Threads) /\ NoThread \notin Threads
    /\ Pids \subseteq Nat \ {0} /\ Pids # {}
    /\ MaxCalls \in Nat /\ MaxLogs \in Nat /\ MaxCloses \in Nat

VARIABLES
    pc,         \* where a thread is
    request,    \* the number of its request
    retry,      \* call's loop variable
    raised,     \* what was raised inside the try statement
    reply,      \* how its last call ended, and the request that was answered
    calls,
    lock,       \* self.lock
    process,    \* self.process: a number, 0 for None
    alive,      \* the processes that run
    stdin,      \* requests process has not answered yet
    stdout,     \* lines in the pipe,
    buffer,     \* and lines that readline read ahead
    unended,    \* where the beginning of a line is, if there is one
    garbled,    \* history: readline has failed to decode process's output
    logs,
    closes

threadVars == <<pc, request, retry, raised, reply, calls>>
workerVars == <<lock, process, alive, stdin, stdout, buffer, unended,
                garbled, logs, closes>>
vars == <<schedulerVars, threadVars, workerVars>>

Log == 0
NoReply == [status |-> "none", of |-> 0]

Outcomes == {"none", "ok", "failed", "exited", "timeout", "missing", "undecodable"}

Labels == {"idle", "acquire", "enter", "lock", "ready", "send", "await", "read",
           "except", "leave", "release"}

(* Types; no more callbacks are active than the scheduler has slots, and    *)
(* no call is tried more than twice.                                        *)
TypeOK ==
    /\ semaphore \in 0..MaxConcurrent /\ active \in 0..MaxConcurrent
    /\ completed \in 0..MaxCalls
    /\ pc \in [Threads -> Labels]
    /\ request \in [Threads -> 0..MaxCalls]
    /\ retry \in [Threads -> 0..1]
    /\ raised \in [Threads -> {"none", "exited", "timeout"}]
    /\ reply \in [Threads -> [status : Outcomes, of : 0..MaxCalls]]
    /\ calls \in 0..MaxCalls
    /\ lock \in Threads \cup {NoThread}
    /\ process \in Pids \cup {0} /\ alive \subseteq Pids
    /\ stdin \in Seq(1..MaxCalls)
    /\ stdout \in Seq(0..MaxCalls) /\ buffer \in Seq(0..MaxCalls)
    /\ unended \in {"none", "pipe", "buffer"} /\ garbled \in BOOLEAN
    /\ logs \in 0..MaxLogs /\ closes \in 0..MaxCloses

Init ==
    /\ SchedulerInit
    /\ pc = [t \in Threads |-> "idle"]
    /\ request = [t \in Threads |-> 0]
    /\ retry = [t \in Threads |-> 0]
    /\ raised = [t \in Threads |-> "none"]
    /\ reply = [t \in Threads |-> NoReply]
    /\ calls = 0
    /\ lock = NoThread
    /\ process = 0 /\ alive = {}
    /\ stdin = <<>> /\ stdout = <<>> /\ buffer = <<>> /\ unended = "none"
    /\ garbled = FALSE /\ logs = 0 /\ closes = 0

-----------------------------------------------------------------------------
(* ScheduledTool.execute.                                                   *)

Goto(t, label) == pc' = [pc EXCEPT ![t] = label]

(* Threads have no names in the code: an idle one is as good as another.    *)
CallTool(t) ==
    /\ pc[t] = "idle" /\ calls < MaxCalls
    /\ t = CHOOSE u \in Threads : pc[u] = "idle"
    /\ calls' = calls + 1
    /\ request' = [request EXCEPT ![t] = calls + 1]
    /\ Goto(t, "acquire")
    /\ UNCHANGED <<retry, raised, reply, schedulerVars, workerVars>>

Schedule(t) ==
    /\ \/ pc[t] = "acquire" /\ AcquireSlot /\ Goto(t, "enter")
       \/ pc[t] = "enter" /\ Enter /\ Goto(t, "lock")
       \/ pc[t] = "leave" /\ Leave /\ Goto(t, "release")
    /\ UNCHANGED <<request, retry, raised, reply, calls, workerVars>>

(* The slot is given back and the call is over, its locals gone.            *)
Finish(t) ==
    /\ pc[t] = "release" /\ ReleaseSlot /\ Goto(t, "idle")
    /\ request' = [request EXCEPT ![t] = 0]
    /\ retry' = [retry EXCEPT ![t] = 0]
    /\ reply' = [reply EXCEPT ![t] = NoReply]
    /\ UNCHANGED <<raised, calls, workerVars>>

-----------------------------------------------------------------------------
(* PersistentJsonModelWorker.call.                                          *)

LockWorker(t) ==
    /\ pc[t] = "lock" /\ lock = NoThread
    /\ lock' = t
    /\ retry' = [retry EXCEPT ![t] = 0]
    /\ Goto(t, "ready")
    /\ UNCHANGED <<schedulerVars, request, raised, reply, calls, process,
                   alive, stdin, stdout, buffer, unended, garbled, logs,
                   closes>>

(* The call returns or raises, and the with statement unlocks.              *)
End(t, outcome) ==
    /\ reply' = [reply EXCEPT ![t] = outcome]
    /\ lock' = NoThread
    /\ Goto(t, "leave")

NewPipes ==
    /\ stdin' = <<>> /\ stdout' = <<>> /\ buffer' = <<>> /\ unended' = "none"
    /\ garbled' = FALSE /\ logs' = 0

(* _start, when there is no process or poll() says that it exited.          *)
Ready(t) ==
    /\ pc[t] = "ready"
    /\ IF process \in alive
       THEN UNCHANGED <<process, alive, stdin, stdout, buffer, unended, garbled, logs>>
       ELSE /\ process' = CHOOSE p \in Pids : p \notin alive
            /\ alive' = alive \cup {process'}
            /\ NewPipes
    /\ Goto(t, "send")
    /\ UNCHANGED <<schedulerVars, request, retry, raised, reply, calls,
                   lock, closes>>

(* The interpreter is missing, or Popen raises: not within the try.         *)
StartFails(t) ==
    /\ pc[t] = "ready" /\ process \notin alive
    /\ End(t, [status |-> "missing", of |-> 0])
    /\ UNCHANGED <<schedulerVars, request, retry, raised, calls, process,
                   alive, stdin, stdout, buffer, unended, garbled, logs,
                   closes>>

Raise(t, error) ==
    /\ raised' = [raised EXCEPT ![t] = error]
    /\ Goto(t, "except")

(* Writing to a process that has exited raises BrokenPipeError.             *)
Send(t) ==
    /\ pc[t] = "send"
    /\ IF process \in alive
       THEN /\ stdin' = Append(stdin, request[t])
            /\ Goto(t, "await") /\ UNCHANGED raised
       ELSE Raise(t, "exited") /\ UNCHANGED stdin
    /\ UNCHANGED <<schedulerVars, request, retry, reply, calls, lock,
                   process, alive, stdout, buffer, unended, garbled, logs,
                   closes>>

(* select: there is something in the pipe, or its end.  It does not see     *)
(* what readline has read ahead.                                            *)
Select(t) ==
    /\ pc[t] = "await"
    /\ stdout # <<>> \/ unended = "pipe" \/ process \notin alive
    /\ Goto(t, "read")
    /\ UNCHANGED <<schedulerVars, request, retry, raised, reply, calls,
                   workerVars>>

(* The deadline has passed at the top of the loop or during select.         *)
Timeout(t) ==
    /\ pc[t] = "await"
    /\ Raise(t, "timeout")
    /\ UNCHANGED <<schedulerVars, request, retry, reply, calls, workerVars>>

(* readline reads all there is when it has no line left.                    *)
Lines == IF buffer = <<>> THEN stdout ELSE buffer
ReadAhead == IF buffer = <<>> /\ unended = "pipe" THEN "buffer" ELSE unended

(* A line of log, a result (with ok or without), or the end of the pipe.    *)
Read(t) ==
    /\ pc[t] = "read"
    /\ \/ /\ Lines = <<>> /\ process \notin alive
          /\ Raise(t, "exited")
          /\ UNCHANGED <<reply, lock, stdout, buffer, unended>>
       \/ /\ Lines # <<>>
          /\ buffer' = Tail(Lines)
          /\ stdout' = IF buffer = <<>> THEN <<>> ELSE stdout
          /\ unended' = ReadAhead
          /\ UNCHANGED raised
          /\ IF Head(Lines) = Log
             THEN Goto(t, "await") /\ UNCHANGED <<reply, lock>>
             ELSE \E status \in {"ok", "failed"} :
                    End(t, [status |-> status, of |-> Head(Lines)])
    /\ UNCHANGED <<schedulerVars, request, retry, calls, process, alive,
                   stdin, garbled, logs, closes>>

(* What readline takes out of the pipe cannot be decoded (log of a library, *)
(* a result in another encoding).  UnicodeDecodeError is no OSError: it     *)
(* leaves call, all that was taken is lost, and the process is kept with    *)
(* the answer it owes.                                                      *)
ReadUndecodable(t) ==
    /\ pc[t] = "read" /\ buffer = <<>>
    /\ stdout # <<>> \/ unended = "pipe"
    /\ stdout' = <<>> /\ unended' = "none"
    /\ garbled' = TRUE
    /\ End(t, [status |-> "undecodable", of |-> 0])
    /\ UNCHANGED <<schedulerVars, request, retry, raised, calls, process, alive,
                   stdin, buffer, logs, closes>>

(* readline takes the beginning of a line out of the pipe and goes on       *)
(* waiting for its end: past the deadline, with the lock and the slot held. *)
ReadPart(t) ==
    /\ pc[t] = "read" /\ Lines = <<>> /\ unended = "pipe"
    /\ unended' = "buffer"
    /\ UNCHANGED <<schedulerVars, threadVars, lock, process, alive, stdin, stdout,
                   buffer, garbled, logs, closes>>

(* Slip: the process is forgotten and not terminated.                       *)
Forget == process' = 0 /\ NewPipes /\ UNCHANGED alive

(* _stop: terminate, or else kill.                                          *)
Stop == process' = 0 /\ alive' = alive \ {process} /\ NewPipes

(* Slips: the process is kept for the next attempt; no attempt is the last. *)
ExceptKeeping(t) ==
    /\ pc[t] = "except"
    /\ raised' = [raised EXCEPT ![t] = "none"]
    /\ IF retry[t] = 1
       THEN End(t, [status |-> "exited", of |-> 0]) /\ UNCHANGED retry
       ELSE /\ retry' = [retry EXCEPT ![t] = 1]
            /\ Goto(t, "ready") /\ UNCHANGED <<reply, lock>>
    /\ UNCHANGED <<schedulerVars, request, calls, process, alive,
                   stdin, stdout, buffer, unended, garbled, logs,
                   closes>>

ExceptForEver(t) ==
    /\ pc[t] = "except"
    /\ Stop
    /\ raised' = [raised EXCEPT ![t] = "none"]
    /\ Goto(t, "ready")
    /\ UNCHANGED <<schedulerVars, request, retry, reply, calls, lock, closes>>

(* TimeoutError is an OSError, as BrokenPipeError is.                       *)
OSErrors == {"exited", "timeout"}

(* The two except clauses, in their order: any OSError is retried once; a   *)
(* TimeoutError that was not caught as one is raised.                       *)
Except(t) ==
    /\ pc[t] = "except"
    /\ Stop
    /\ raised' = [raised EXCEPT ![t] = "none"]
    /\ IF raised[t] \notin OSErrors
       THEN End(t, [status |-> "timeout", of |-> 0]) /\ UNCHANGED retry
       ELSE IF retry[t] = 1
       THEN End(t, [status |-> "exited", of |-> 0]) /\ UNCHANGED retry
       ELSE /\ retry' = [retry EXCEPT ![t] = 1]
            /\ Goto(t, "ready") /\ UNCHANGED <<reply, lock>>
    /\ UNCHANGED <<schedulerVars, request, calls, closes>>

(* close(), by a thread that shuts the service down.                        *)
Close ==
    /\ lock = NoThread /\ closes < MaxCloses
    /\ closes' = closes + 1
    /\ Stop
    /\ UNCHANGED <<schedulerVars, threadVars, lock>>

-----------------------------------------------------------------------------
(* The model process: serve, libraries that write to its output, its end.   *)

(* A line is written and ends the one that was begun, as one line of log.   *)
Emit(line) ==
    /\ stdout' = Append(stdout, IF unended = "none" THEN line ELSE Log)
    /\ unended' = "none"

Serve ==
    /\ process \in alive /\ stdin # <<>>
    /\ stdin' = Tail(stdin)
    /\ Emit(Head(stdin))
    /\ UNCHANGED <<schedulerVars, threadVars, lock, process, alive, buffer,
                   garbled, logs, closes>>

WriteLog ==
    /\ process \in alive /\ logs < MaxLogs
    /\ logs' = logs + 1
    /\ \/ Emit(Log)
       \/ unended = "none" /\ unended' = "pipe" /\ UNCHANGED stdout
    /\ UNCHANGED <<schedulerVars, threadVars, lock, process, alive, stdin,
                   buffer, garbled, closes>>

(* The end of the pipe ends a line, too.                                    *)
Exit ==
    /\ process \in alive
    /\ alive' = alive \ {process}
    /\ stdin' = <<>>
    /\ IF unended = "none" THEN UNCHANGED <<stdout, unended>> ELSE Emit(Log)
    /\ UNCHANGED <<schedulerVars, threadVars, lock, process, buffer, garbled,
                   logs, closes>>

Step(t) ==
    \/ Schedule(t) \/ Finish(t) \/ LockWorker(t) \/ Ready(t) \/ StartFails(t) \/ Send(t)
    \/ Select(t) \/ Timeout(t) \/ Read(t) \/ ReadUndecodable(t) \/ ReadPart(t)
    \/ Except(t)

Next ==
    \/ \E t \in Threads : CallTool(t) \/ Step(t)
    \/ Close
    \/ Serve \/ WriteLog \/ Exit

Spec == Init /\ [][Next]_vars

(* A thread that can run runs, and time passes in its waits.  The model     *)
(* process owes nothing: it may be silent for ever.                         *)
FairSpec == Spec /\ WF_vars(\E t \in Threads : Step(t))

-----------------------------------------------------------------------------
(* A call that is answered is answered with the result of its own request,  *)
(* whatever earlier calls timed out, left unread or were cut short: unless  *)
(* a read from the process that runs failed to decode.  From there on the   *)
(* answers of that process may be those of earlier calls.                   *)
AnswersRequest ==
    \A t \in Threads :
        reply'[t].status \in {"ok", "failed"} /\ reply'[t] # reply[t] =>
            reply'[t].of = request[t] \/ garbled

OwnAnswer == [][AnswersRequest]_vars

(* At most one model process runs, and it is the one calls go to: no loaded *)
(* model is left behind on the GPU by a timeout, a restart or close().      *)
OneProcess == alive \subseteq {process}

(* However calls end, slots and counters agree: as many slots are taken as  *)
(* threads hold one, as many callbacks counted as run.                      *)
SlotsKept ==
    LET At(labels) == Cardinality({t \in Threads : pc[t] \in labels}) IN
    /\ semaphore + At(Labels \ {"idle", "acquire"}) = MaxConcurrent
    /\ active = At({"lock", "ready", "send", "await", "read", "except", "leave"})
    /\ completed + active + At({"acquire", "enter"}) = calls

(* A line was begun, readline waits for its end, and nothing else goes on.  *)
InsideLine == unended = "buffer" /\ \E t \in Threads : pc[t] = "read"

(* Every call ends, even if the model process never answers: no thread      *)
(* waits for ever for a slot, the lock or the process.  The one exception   *)
(* is a process that hangs in the middle of a line, which no deadline ends. *)
CallsEnd == []<>((\A t \in Threads : pc[t] = "idle") \/ InsideLine)

=============================================================================
