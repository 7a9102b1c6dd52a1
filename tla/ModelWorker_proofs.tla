------------------------- MODULE ModelWorker_proofs -------------------------
(***************************************************************************)
(* TLAPS proofs about ModelWorker for any number of threads, slots,        *)
(* process numbers, calls, logs and closes.                                *)
(***************************************************************************)
EXTENDS ModelWorker, FiniteSetTheorems, TLAPS

-----------------------------------------------------------------------------
(* The inductive invariant.                                                 *)

Inside == {"ready", "send", "await", "read", "except"}

(* The lock is held by the thread that talks to the process; a thread that  *)
(* has no answer to hand over has none; a call has a number.                *)
Control ==
    /\ \A t \in Threads : lock = t <=> pc[t] \in Inside
    /\ \A t \in Threads : pc[t] \notin {"leave", "release"} => reply[t] = NoReply
    /\ \A t \in Threads : pc[t] # "idle" => request[t] # 0

(* No line of s is a result; exactly one is, and it answers request r.      *)
Clean(s) == \A i \in 1..Len(s) : s[i] = Log
Answers(s, r) ==
    \E i \in 1..Len(s) : s[i] = r /\ \A j \in 1..Len(s) : j # i => s[j] = Log

(* What is on its way to or from the process: nothing, or the request of    *)
(* the thread that waits for it, or the answer to that request; anything,   *)
(* once readline has failed to decode what the process wrote.               *)
Quiet == stdin = <<>> /\ Clean(stdout) /\ Clean(buffer)

Asked(r) ==
    \/ stdin = <<r>> /\ Clean(stdout) /\ Clean(buffer)
    \/ stdin = <<>> /\ Answers(stdout, r) /\ Clean(buffer)
    \/ stdin = <<>> /\ Clean(stdout) /\ Answers(buffer, r)

Waiting == {"await", "read", "except"}

InFlight ==
    \/ garbled
    \/ Quiet
    \/ \E t \in Threads : pc[t] \in Waiting /\ Asked(request[t])

Count(labels) == Cardinality({t \in Threads : pc[t] \in labels})

IInv == TypeOK /\ Control /\ InFlight /\ OneProcess /\ SlotsKept

-----------------------------------------------------------------------------
(* Counting threads.                                                        *)

Busy == Labels \ {"idle", "acquire"}
Working == {"lock", "ready", "send", "await", "read", "except", "leave"}
Early == {"acquire", "enter"}

LEMMA SlotsMeaning ==
    /\ SlotsKept <=> /\ semaphore + Count(Busy) = MaxConcurrent
                     /\ active = Count(Working)
                     /\ completed + active + Count(Early) = calls
    /\ SlotsKept' <=> /\ semaphore' + Count(Busy)' = MaxConcurrent
                      /\ active' = Count(Working)'
                      /\ completed' + active' + Count(Early)' = calls'
BY DEF SlotsKept, Count, Busy, Working, Early

(* A thread that changes its place changes a count by at most one.          *)
LEMMA Moves ==
    ASSUME TypeOK, NEW t \in Threads, NEW label, Goto(t, label), NEW labels
    PROVE  /\ Count(labels) \in Nat
           /\ (pc[t] \in labels <=> label \in labels) => Count(labels)' = Count(labels)
           /\ pc[t] \notin labels /\ label \in labels => Count(labels)' = Count(labels) + 1
           /\ pc[t] \in labels /\ label \notin labels => Count(labels)' = Count(labels) - 1
<1> DEFINE S == {u \in Threads : pc[u] \in labels}
<1>1. IsFiniteSet(S) /\ Cardinality(S) \in Nat
  BY ModelWorkerAssumption, FS_Subset, FS_CardinalityType
<1>2. ASSUME pc[t] \in labels <=> label \in labels
      PROVE  {u \in Threads : pc'[u] \in labels} = S
  BY <1>2 DEF Goto, TypeOK
<1>3. ASSUME pc[t] \notin labels, label \in labels
      PROVE  {u \in Threads : pc'[u] \in labels} = S \cup {t} /\ t \notin S
  BY <1>3 DEF Goto, TypeOK
<1>4. ASSUME pc[t] \in labels, label \notin labels
      PROVE  {u \in Threads : pc'[u] \in labels} = S \ {t} /\ t \in S
  BY <1>4 DEF Goto, TypeOK
<1>5. Cardinality(S \cup {t}) = IF t \in S THEN Cardinality(S) ELSE Cardinality(S) + 1
  BY <1>1, FS_AddElement
<1>6. Cardinality(S \ {t}) = IF t \in S THEN Cardinality(S) - 1 ELSE Cardinality(S)
  BY <1>1, FS_RemoveElement
<1> HIDE DEF S
<1>7. Count(labels) = Cardinality(S)
  BY DEF Count, S
<1>8. Count(labels)' = Cardinality({u \in Threads : pc'[u] \in labels})
  BY DEF Count
<1> QED
  BY <1>1, <1>2, <1>3, <1>4, <1>5, <1>6, <1>7, <1>8

(* Within the callback nothing changes for the scheduler.                   *)
LEMMA Callback ==
    ASSUME TypeOK, SlotsKept, NEW t \in Threads, NEW label \in Working, Goto(t, label),
           pc[t] \in Working, UNCHANGED <<schedulerVars, calls>>
    PROVE  SlotsKept'
<1>1. pc[t] \in Busy /\ label \in Busy /\ pc[t] \notin Early /\ label \notin Early
  BY DEF Working, Busy, Early, Labels
<1>2. Count(Busy)' = Count(Busy) /\ Count(Working)' = Count(Working)
      /\ Count(Early)' = Count(Early)
  BY <1>1, Moves
<1> QED
  BY <1>2, SlotsMeaning DEF schedulerVars

(* The counters are within their bounds.                                    *)
LEMMA Bounds ==
    ASSUME (pc \in [Threads -> Labels])', SlotsKept', calls' \in 0..MaxCalls,
           semaphore' \in Nat, completed' \in Nat
    PROVE  /\ semaphore' \in 0..MaxConcurrent
           /\ active' \in 0..MaxConcurrent
           /\ completed' \in 0..MaxCalls
<1> DEFINE At(labels) == {t \in Threads : pc'[t] \in labels}
<1>1. IsFiniteSet(At(Busy)) /\ IsFiniteSet(At(Early))
      /\ Cardinality(At(Busy)) \in Nat /\ Cardinality(At(Early)) \in Nat
  BY ModelWorkerAssumption, FS_Subset, FS_CardinalityType
<1>2. At(Working) \subseteq At(Busy)
  BY DEF Working, Busy, Labels
<1>3. IsFiniteSet(At(Working)) /\ Cardinality(At(Working)) <= Cardinality(At(Busy))
  BY <1>1, <1>2, FS_Subset
<1>4. Cardinality(At(Working)) \in Nat
  BY <1>3, FS_CardinalityType
<1>5. /\ Count(Busy)' = Cardinality(At(Busy)) /\ Count(Working)' = Cardinality(At(Working))
      /\ Count(Early)' = Cardinality(At(Early))
  BY DEF Count
<1> HIDE DEF At
<1>6. /\ semaphore' + Cardinality(At(Busy)) = MaxConcurrent
      /\ active' = Cardinality(At(Working))
      /\ completed' + active' + Cardinality(At(Early)) = calls'
  BY <1>5, SlotsMeaning
<1> QED
  BY <1>1, <1>3, <1>4, <1>6, SchedulerAssumption, ModelWorkerAssumption

-----------------------------------------------------------------------------
(* Lines.                                                                   *)

LEMMA LineTypes ==
    ASSUME NEW S
    PROVE  /\ <<>> \in Seq(S)
           /\ \A s \in Seq(S), x \in S : Append(s, x) \in Seq(S)
           /\ \A s \in Seq(S) : s # <<>> => Head(s) \in S /\ Tail(s) \in Seq(S)
OBVIOUS

LEMMA LinesAreNumbers ==
    ASSUME NEW S, S \subseteq Nat, NEW s \in Seq(S)
    PROVE  s \in Seq(Nat)
<1>1. Len(s) \in Nat /\ s \in [1..Len(s) -> S]
  OBVIOUS
<1>2. s \in [1..Len(s) -> Nat]
  BY <1>1
<1> QED
  BY <1>1, <1>2

LEMMA NoLines == Clean(<<>>)
BY DEF Clean

LEMMA LastLine ==
    ASSUME NEW s \in Seq(Nat), NEW r \in Nat \ {Log}
    PROVE  /\ Clean(s) => Clean(Append(s, Log)) /\ Answers(Append(s, r), r)
           /\ Answers(s, r) => Answers(Append(s, Log), r)
<1>1. ASSUME NEW x \in Nat
      PROVE  /\ Len(Append(s, x)) = Len(s) + 1
             /\ \A i \in 1..Len(s) : Append(s, x)[i] = s[i]
             /\ Append(s, x)[Len(s) + 1] = x
  OBVIOUS
<1>2. Len(s) \in Nat /\ Log \in Nat
  BY DEF Log
<1>3. Clean(s) => Clean(Append(s, Log))
  BY <1>1, <1>2 DEF Clean
<1>4. ASSUME Clean(s) PROVE Answers(Append(s, r), r)
  <2>1. \A j \in 1..Len(Append(s, r)) : j # Len(s) + 1 => Append(s, r)[j] = Log
    BY <1>1, <1>2, <1>4 DEF Clean
  <2>2. Len(s) + 1 \in 1..Len(Append(s, r)) /\ Append(s, r)[Len(s) + 1] = r
    BY <1>1, <1>2
  <2> QED
    BY <2>1, <2>2 DEF Answers
<1>5. ASSUME Answers(s, r) PROVE Answers(Append(s, Log), r)
  <2>1. PICK i \in 1..Len(s) : s[i] = r /\ \A j \in 1..Len(s) : j # i => s[j] = Log
    BY <1>5 DEF Answers
  <2>2. i \in 1..Len(Append(s, Log)) /\ Append(s, Log)[i] = r
    BY <1>1, <1>2, <2>1
  <2>3. \A j \in 1..Len(Append(s, Log)) : j # i => Append(s, Log)[j] = Log
    BY <1>1, <1>2, <2>1
  <2> QED
    BY <2>2, <2>3 DEF Answers
<1> QED
  BY <1>3, <1>4, <1>5

LEMMA FirstLine ==
    ASSUME NEW s \in Seq(Nat), s # <<>>, NEW r \in Nat \ {Log}
    PROVE  /\ Head(s) \in Nat /\ Tail(s) \in Seq(Nat)
           /\ Clean(s) => Head(s) = Log /\ Clean(Tail(s))
           /\ Answers(s, r) /\ Head(s) = Log => Answers(Tail(s), r)
           /\ Answers(s, r) /\ Head(s) # Log => Head(s) = r /\ Clean(Tail(s))
<1>1. /\ Len(s) \in Nat \ {0} /\ Head(s) = s[1] /\ Len(Tail(s)) = Len(s) - 1
      /\ \A i \in 1..Len(Tail(s)) : Tail(s)[i] = s[i + 1]
      /\ Head(s) \in Nat /\ Tail(s) \in Seq(Nat)
  OBVIOUS
<1>2. Clean(s) => Head(s) = Log /\ Clean(Tail(s))
  BY <1>1 DEF Clean
<1>3. ASSUME Answers(s, r), Head(s) = Log PROVE Answers(Tail(s), r)
  <2>1. PICK i \in 1..Len(s) : s[i] = r /\ \A j \in 1..Len(s) : j # i => s[j] = Log
    BY <1>3 DEF Answers
  <2>2. i # 1
    BY <1>1, <1>3, <2>1
  <2>3. i - 1 \in 1..Len(Tail(s)) /\ Tail(s)[i - 1] = r
    BY <1>1, <2>1, <2>2
  <2>4. \A j \in 1..Len(Tail(s)) : j # i - 1 => Tail(s)[j] = Log
    BY <1>1, <2>1, <2>2
  <2> QED
    BY <2>3, <2>4 DEF Answers
<1>4. ASSUME Answers(s, r), Head(s) # Log PROVE Head(s) = r /\ Clean(Tail(s))
  <2>1. PICK i \in 1..Len(s) : s[i] = r /\ \A j \in 1..Len(s) : j # i => s[j] = Log
    BY <1>4 DEF Answers
  <2>2. i = 1
    BY <1>1, <1>4, <2>1
  <2> QED
    BY <1>1, <2>1, <2>2 DEF Clean
<1> QED
  BY <1>1, <1>2, <1>3, <1>4

-----------------------------------------------------------------------------
(* Pipes.                                                                   *)

LEMMA Untouched ==
    ASSUME InFlight, UNCHANGED <<stdin, stdout, buffer, garbled>>,
           \A t \in Threads : pc[t] \in Waiting => pc'[t] \in Waiting /\ request'[t] = request[t]
    PROVE  InFlight'
<1>1. CASE Quiet
  BY <1>1 DEF InFlight, Quiet, Clean
<1>2. CASE \E t \in Threads : pc[t] \in Waiting /\ Asked(request[t])
  <2>1. PICK t \in Threads : pc[t] \in Waiting /\ Asked(request[t])
    BY <1>2
  <2>2. pc'[t] \in Waiting /\ Asked(request[t])'
    BY <2>1 DEF Asked, Clean, Answers
  <2> QED
    BY <2>2 DEF InFlight
<1>3. CASE garbled
  BY <1>3 DEF InFlight
<1> QED
  BY <1>1, <1>2, <1>3 DEF InFlight

LEMMA Spoilt == garbled' => InFlight'
BY DEF InFlight

LEMMA Drained == NewPipes => Quiet' /\ InFlight'
BY DEF NewPipes, Quiet, InFlight, Clean

LEMMA NewTypes ==
    NewPipes => /\ stdin' \in Seq(1..MaxCalls) /\ stdout' \in Seq(0..MaxCalls)
                /\ buffer' \in Seq(0..MaxCalls) /\ unended' \in {"none", "pipe", "buffer"}
                /\ garbled' \in BOOLEAN /\ logs' \in 0..MaxLogs
<1>1. 0 \in 0..MaxLogs
  BY ModelWorkerAssumption
<1> QED
  BY <1>1, LineTypes, Zenon DEF NewPipes

(* Only the thread that holds the lock has something in flight.             *)
LEMMA Owner ==
    ASSUME TypeOK, Control, InFlight, ~garbled
    PROVE  /\ \A t \in Threads : pc[t] \in Inside => Quiet \/ (pc[t] \in Waiting /\ Asked(request[t]))
           /\ (\A t \in Threads : pc[t] \notin Inside) => Quiet
           /\ lock = NoThread => Quiet
BY ModelWorkerAssumption DEF Control, InFlight, Waiting, Inside, TypeOK

-----------------------------------------------------------------------------
(* Each step keeps the invariant.                                           *)

LEMMA InitKeeps == Init => IInv
<1> SUFFICES ASSUME Init PROVE IInv
  OBVIOUS
<1>1. TypeOK
  <2>1. NoReply \in [status : Outcomes, of : 0..MaxCalls]
    BY ModelWorkerAssumption DEF NoReply, Outcomes
  <2>2. reply \in [Threads -> [status : Outcomes, of : 0..MaxCalls]]
    BY <2>1 DEF Init
  <2>3. /\ stdin \in Seq(1..MaxCalls) /\ stdout \in Seq(0..MaxCalls)
        /\ buffer \in Seq(0..MaxCalls)
    BY DEF Init
  <2>4. /\ semaphore \in 0..MaxConcurrent /\ active \in 0..MaxConcurrent
        /\ completed \in 0..MaxCalls /\ calls \in 0..MaxCalls
        /\ logs \in 0..MaxLogs /\ closes \in 0..MaxCloses
    BY ModelWorkerAssumption, SchedulerAssumption DEF Init, SchedulerInit
  <2>5. /\ pc \in [Threads -> Labels] /\ request \in [Threads -> 0..MaxCalls]
        /\ retry \in [Threads -> 0..1]
        /\ raised \in [Threads -> {"none", "exited", "timeout"}]
    BY ModelWorkerAssumption DEF Init, Labels
  <2>6. /\ lock \in Threads \cup {NoThread} /\ process \in Pids \cup {0}
        /\ alive \subseteq Pids /\ unended \in {"none", "pipe", "buffer"}
        /\ garbled \in BOOLEAN
    BY DEF Init
  <2> QED
    BY <2>2, <2>3, <2>4, <2>5, <2>6, Zenon DEF TypeOK
<1>2. Control
  BY ModelWorkerAssumption DEF Init, Control, Inside
<1>3. InFlight
  BY NoLines DEF Init, InFlight, Quiet
<1>4. OneProcess
  BY DEF Init, OneProcess
<1>5. SlotsKept
  <2>1. /\ {t \in Threads : pc[t] \in Busy} = {} /\ {t \in Threads : pc[t] \in Working} = {}
        /\ {t \in Threads : pc[t] \in Early} = {}
    BY DEF Init, Busy, Working, Early
  <2>2. Count(Busy) = 0 /\ Count(Working) = 0 /\ Count(Early) = 0
    BY <2>1, FS_EmptySet DEF Count
  <2> QED
    BY <2>2, SlotsMeaning, SchedulerAssumption DEF Init, SchedulerInit
<1> QED
  BY <1>1, <1>2, <1>3, <1>4, <1>5 DEF IInv

LEMMA CallToolKeeps ==
    ASSUME IInv, NEW t \in Threads, CallTool(t)
    PROVE  IInv'
<1> USE DEF IInv
<1>1. TypeOK'
  <2>1. /\ pc' = [pc EXCEPT ![t] = "acquire"] /\ request' = [request EXCEPT ![t] = calls + 1]
        /\ calls < MaxCalls /\ calls' = calls + 1
        /\ UNCHANGED <<semaphore, active, completed, retry, raised, reply, lock, process,
                       alive, stdin, stdout, buffer, unended, garbled, logs, closes>>
    BY DEF CallTool, Goto, schedulerVars, workerVars
  <2>2. calls' \in 0..MaxCalls /\ calls + 1 \in 0..MaxCalls
    BY <2>1, ModelWorkerAssumption DEF TypeOK
  <2>3. pc' \in [Threads -> Labels]
    BY <2>1 DEF TypeOK, Labels
  <2>4. request' \in [Threads -> 0..MaxCalls]
    BY <2>1, <2>2 DEF TypeOK
  <2> QED
    BY <2>1, <2>2, <2>3, <2>4 DEF TypeOK
<1>2. Control'
  <2>1. /\ pc[t] = "idle" /\ pc' = [pc EXCEPT ![t] = "acquire"]
        /\ request' = [request EXCEPT ![t] = calls + 1] /\ UNCHANGED <<reply, lock>>
    BY DEF CallTool, Goto, workerVars
  <2>2. pc \in [Threads -> Labels] /\ request \in [Threads -> 0..MaxCalls] /\ calls \in Nat
    BY DEF TypeOK
  <2> QED
    BY <2>1, <2>2 DEF Control, Inside
<1>3. InFlight'
  BY Untouched DEF TypeOK, CallTool, Goto, Waiting, workerVars
<1>4. OneProcess'
  BY DEF OneProcess, CallTool, workerVars
<1>5. SlotsKept'
  <2>1. /\ Goto(t, "acquire") /\ calls' = calls + 1 /\ pc[t] = "idle"
        /\ UNCHANGED <<semaphore, active, completed>>
    BY DEF CallTool, schedulerVars
  <2>2. /\ pc[t] \notin Busy \cup Working \cup Early
        /\ "acquire" \notin Busy \cup Working /\ "acquire" \in Early
    BY <2>1 DEF Busy, Working, Early, Labels
  <2>3. /\ Count(Busy)' = Count(Busy) /\ Count(Working)' = Count(Working)
        /\ Count(Early) \in Nat /\ Count(Early)' = Count(Early) + 1
    BY <2>1, <2>2, Moves
  <2>4. completed \in Int /\ active \in Int /\ calls \in Int
    BY DEF TypeOK
  <2> QED
    BY <2>1, <2>3, <2>4, SlotsMeaning
<1> QED
  BY <1>1, <1>2, <1>3, <1>4, <1>5

LEMMA ScheduleKeeps ==
    ASSUME IInv, NEW t \in Threads, Schedule(t)
    PROVE  IInv'
<1> USE DEF IInv
<1>1. \E label \in {"enter", "lock", "release"} :
        Goto(t, label) /\ (label = "release" <=> pc[t] = "leave")
        /\ pc[t] \in {"acquire", "enter", "leave"}
  BY DEF Schedule
<1>2. UNCHANGED <<request, retry, raised, reply, calls, lock, process, alive, stdin, stdout,
                  buffer, unended, garbled, logs, closes>>
  BY DEF Schedule, workerVars
<1>3. SlotsKept'
  <2> completed \in Int /\ active \in Int /\ semaphore \in Int /\ calls \in Int
    BY DEF TypeOK
  <2>1. CASE pc[t] = "acquire" /\ AcquireSlot /\ Goto(t, "enter")
    <3>1. /\ "acquire" \notin Busy \cup Working /\ "acquire" \in Early
          /\ "enter" \in Busy \cap Early /\ "enter" \notin Working
      BY DEF Busy, Working, Early, Labels
    <3>2. /\ Count(Busy) \in Nat /\ Count(Busy)' = Count(Busy) + 1
          /\ Count(Working)' = Count(Working) /\ Count(Early)' = Count(Early)
      BY <2>1, <3>1, Moves
    <3> QED
      BY <1>2, <2>1, <3>2, SlotsMeaning, SchedulerAssumption DEF AcquireSlot
  <2>2. CASE pc[t] = "enter" /\ Enter /\ Goto(t, "lock")
    <3>1. /\ "enter" \in Busy \cap Early /\ "enter" \notin Working
          /\ "lock" \in Busy \cap Working /\ "lock" \notin Early
      BY DEF Busy, Working, Early, Labels
    <3>2. /\ Count(Busy)' = Count(Busy) /\ Count(Working)' = Count(Working) + 1
          /\ Count(Early) \in Nat /\ Count(Early)' = Count(Early) - 1
      BY <2>2, <3>1, Moves
    <3> QED
      BY <1>2, <2>2, <3>2, SlotsMeaning DEF Enter
  <2>3. CASE pc[t] = "leave" /\ Leave /\ Goto(t, "release")
    <3>1. /\ "leave" \in Busy \cap Working /\ "leave" \notin Early
          /\ "release" \in Busy /\ "release" \notin Working \cup Early
      BY DEF Busy, Working, Early, Labels
    <3>2. /\ Count(Busy)' = Count(Busy) /\ Count(Working)' = Count(Working) - 1
          /\ Count(Early)' = Count(Early)
      BY <2>3, <3>1, Moves
    <3> QED
      BY <1>2, <2>3, <3>2, SlotsMeaning DEF Leave
  <2> QED
    BY <2>1, <2>2, <2>3 DEF Schedule
<1>4. TypeOK'
  <2>1. pc' \in [Threads -> Labels]
    BY <1>1 DEF Goto, TypeOK, Labels
  <2>2. /\ semaphore' \in Nat /\ completed' \in Nat /\ calls' \in 0..MaxCalls
    <3>1. /\ semaphore \in Nat /\ completed \in Nat /\ calls \in 0..MaxCalls
      BY SchedulerAssumption, ModelWorkerAssumption DEF TypeOK
    <3>2. /\ \/ semaphore' = semaphore
             \/ semaphore > 0 /\ semaphore' = semaphore - 1
          /\ completed' \in {completed, completed + 1}
      BY DEF Schedule, AcquireSlot, Enter, Leave
    <3> HIDE DEF IInv
    <3> QED
      BY <1>2, <3>1, <3>2
  <2>3. /\ semaphore' \in 0..MaxConcurrent /\ active' \in 0..MaxConcurrent
        /\ completed' \in 0..MaxCalls
    BY <1>3, <2>1, <2>2, Bounds
  <2> QED
    BY <1>2, <2>1, <2>2, <2>3 DEF TypeOK
<1>5. Control'
  BY <1>1, <1>2 DEF Control, Goto, Inside, TypeOK
<1>6. InFlight'
  BY <1>1, <1>2, Untouched DEF Goto, Waiting, TypeOK
<1>7. OneProcess'
  BY <1>2 DEF OneProcess
<1> QED
  BY <1>3, <1>4, <1>5, <1>6, <1>7

LEMMA FinishKeeps ==
    ASSUME IInv, NEW t \in Threads, Finish(t)
    PROVE  IInv'
<1> USE DEF IInv
<1>1. /\ pc[t] = "release" /\ Goto(t, "idle") /\ semaphore' = semaphore + 1
      /\ request' = [request EXCEPT ![t] = 0] /\ retry' = [retry EXCEPT ![t] = 0]
      /\ reply' = [reply EXCEPT ![t] = NoReply]
      /\ UNCHANGED <<active, completed, raised, calls, lock, process, alive, stdin, stdout,
                     buffer, unended, garbled, logs, closes>>
  BY DEF Finish, ReleaseSlot, workerVars
<1>2. SlotsKept'
  <2>1. /\ "release" \in Busy /\ "release" \notin Working \cup Early
        /\ "idle" \notin Busy \cup Working \cup Early
    BY DEF Busy, Working, Early, Labels
  <2>2. /\ Count(Busy) \in Nat /\ Count(Busy)' = Count(Busy) - 1
        /\ Count(Working)' = Count(Working) /\ Count(Early)' = Count(Early)
    BY <1>1, <2>1, Moves
  <2>3. semaphore \in Int
    BY DEF TypeOK
  <2> QED
    BY <1>1, <2>2, <2>3, SlotsMeaning, SchedulerAssumption
<1>3. TypeOK'
  <2>1. /\ pc' \in [Threads -> Labels] /\ calls' \in 0..MaxCalls
        /\ semaphore' \in Nat /\ completed' \in Nat
    BY <1>1, SchedulerAssumption, ModelWorkerAssumption DEF Goto, TypeOK, Labels
  <2>2. /\ semaphore' \in 0..MaxConcurrent /\ active' \in 0..MaxConcurrent
        /\ completed' \in 0..MaxCalls
    BY <1>2, <2>1, Bounds
  <2>3. request' \in [Threads -> 0..MaxCalls]
    BY <1>1, ModelWorkerAssumption DEF TypeOK
  <2>4. retry' \in [Threads -> 0..1]
    BY <1>1 DEF TypeOK
  <2>5. NoReply \in [status : Outcomes, of : 0..MaxCalls]
    BY ModelWorkerAssumption DEF NoReply, Outcomes
  <2>6. reply' \in [Threads -> [status : Outcomes, of : 0..MaxCalls]]
    BY <1>1, <2>5 DEF TypeOK
  <2> QED
    BY <1>1, <2>1, <2>2, <2>3, <2>4, <2>6 DEF TypeOK
<1>4. Control'
  BY <1>1 DEF Control, Goto, Inside, TypeOK
<1>5. InFlight'
  BY <1>1, Untouched DEF Goto, Waiting, TypeOK
<1>7. OneProcess'
  BY <1>1 DEF OneProcess
<1> QED
  BY <1>2, <1>3, <1>4, <1>5, <1>7

(* Steps that only move a thread within the callback.                       *)
LEMMA Inward ==
    ASSUME TypeOK, SlotsKept, NEW t \in Threads, NEW label \in Working, Goto(t, label),
           pc[t] \in Working, UNCHANGED <<schedulerVars, calls>>
    PROVE  /\ SlotsKept' /\ pc' \in [Threads -> Labels] /\ pc'[t] = label
           /\ \A u \in Threads : u # t => pc'[u] = pc[u]
           /\ semaphore' \in 0..MaxConcurrent /\ active' \in 0..MaxConcurrent
           /\ completed' \in 0..MaxCalls /\ calls' \in 0..MaxCalls
<1>1. SlotsKept'
  BY Callback
<1>2. label \in Labels
  BY DEF Working, Labels
<1> QED
  BY <1>1, <1>2 DEF Goto, TypeOK, schedulerVars

LEMMA LockWorkerKeeps ==
    ASSUME IInv, NEW t \in Threads, LockWorker(t)
    PROVE  IInv'
<1> USE DEF IInv
<1>1. /\ pc[t] = "lock" /\ lock = NoThread /\ lock' = t /\ Goto(t, "ready")
      /\ retry' = [retry EXCEPT ![t] = 0]
      /\ UNCHANGED <<schedulerVars, request, raised, reply, calls, process, alive, stdin,
                     stdout, buffer, unended, garbled, logs, closes>>
  BY DEF LockWorker
<1>2. pc[t] \in Working /\ "ready" \in Working
  BY <1>1 DEF Working
<1>3. /\ SlotsKept' /\ pc' \in [Threads -> Labels] /\ pc'[t] = "ready"
      /\ \A u \in Threads : u # t => pc'[u] = pc[u]
      /\ semaphore' \in 0..MaxConcurrent /\ active' \in 0..MaxConcurrent
      /\ completed' \in 0..MaxCalls /\ calls' \in 0..MaxCalls
  BY <1>1, <1>2, Inward
<1>4. TypeOK'
  <2>1. retry' \in [Threads -> 0..1] /\ lock' \in Threads \cup {NoThread}
    BY <1>1 DEF TypeOK
  <2> QED
    BY <1>1, <1>3, <2>1 DEF TypeOK
<1>5. Control'
  BY <1>1, <1>3, ModelWorkerAssumption DEF Control, Inside
<1>6. InFlight'
  BY <1>1, <1>3, Untouched DEF Waiting
<1>7. OneProcess'
  BY <1>1 DEF OneProcess
<1> QED
  BY <1>3, <1>4, <1>5, <1>6, <1>7

LEMMA ReadyKeeps ==
    ASSUME IInv, NEW t \in Threads, Ready(t)
    PROVE  IInv'
<1> USE DEF IInv
<1>1. /\ pc[t] = "ready" /\ Goto(t, "send")
      /\ UNCHANGED <<schedulerVars, request, retry, raised, reply, calls, lock, closes>>
  BY DEF Ready
<1>2. pc[t] \in Working /\ "send" \in Working
  BY <1>1 DEF Working
<1>3. /\ SlotsKept' /\ pc' \in [Threads -> Labels] /\ pc'[t] = "send"
      /\ \A u \in Threads : u # t => pc'[u] = pc[u]
      /\ semaphore' \in 0..MaxConcurrent /\ active' \in 0..MaxConcurrent
      /\ completed' \in 0..MaxCalls /\ calls' \in 0..MaxCalls
  BY <1>1, <1>2, Inward
<1>4. Control'
  BY <1>1, <1>3 DEF Control, Inside
<1>6. CASE UNCHANGED <<process, alive, stdin, stdout, buffer, unended, garbled, logs>>
  <2>1. TypeOK'
    BY <1>1, <1>3, <1>6 DEF TypeOK
  <2>2. InFlight'
    BY <1>1, <1>3, <1>6, Untouched DEF Waiting
  <2>3. OneProcess'
    BY <1>6 DEF OneProcess
  <2> QED
    BY <1>3, <1>4, <2>1, <2>2, <2>3
<1>7. CASE /\ process \notin alive /\ process' = CHOOSE p \in Pids : p \notin alive
           /\ alive' = alive \cup {process'} /\ NewPipes
  <2>1. alive = {}
    BY <1>7 DEF OneProcess
  <2>2. process' \in Pids /\ alive' = {process'}
    BY <1>7, <2>1, ModelWorkerAssumption
  <2>3. TypeOK'
    <3>1. process' \in Pids \cup {0} /\ alive' \subseteq Pids
      BY <2>2
    <3> QED
      BY <1>1, <1>3, <1>7, <3>1, NewTypes DEF TypeOK
  <2>4. InFlight'
    BY <1>7, Drained
  <2>5. OneProcess'
    BY <2>2 DEF OneProcess
  <2> QED
    BY <1>3, <1>4, <2>3, <2>4, <2>5
<1> QED
  BY <1>6, <1>7 DEF Ready

LEMMA StartFailsKeeps ==
    ASSUME IInv, NEW t \in Threads, StartFails(t)
    PROVE  IInv'
<1> USE DEF IInv
<1>1. /\ pc[t] = "ready" /\ Goto(t, "leave") /\ lock' = NoThread
      /\ reply' = [reply EXCEPT ![t] = [status |-> "missing", of |-> 0]]
      /\ UNCHANGED <<schedulerVars, request, retry, raised, calls, process, alive, stdin,
                     stdout, buffer, unended, garbled, logs, closes>>
  BY DEF StartFails, End
<1>2. pc[t] \in Working /\ "leave" \in Working
  BY <1>1 DEF Working
<1>3. /\ SlotsKept' /\ pc' \in [Threads -> Labels] /\ pc'[t] = "leave"
      /\ \A u \in Threads : u # t => pc'[u] = pc[u]
      /\ semaphore' \in 0..MaxConcurrent /\ active' \in 0..MaxConcurrent
      /\ completed' \in 0..MaxCalls /\ calls' \in 0..MaxCalls
  BY <1>1, <1>2, Inward
<1>4. TypeOK'
  <2>1. [status |-> "missing", of |-> 0]
          \in [status : Outcomes, of : 0..MaxCalls]
    BY ModelWorkerAssumption DEF Outcomes
  <2>2. reply' \in [Threads -> [status : Outcomes, of : 0..MaxCalls]]
    BY <1>1, <2>1 DEF TypeOK
  <2> QED
    BY <1>1, <1>3, <2>2 DEF TypeOK
<1>5. Control'
  BY <1>1, <1>3, ModelWorkerAssumption DEF Control, Inside, TypeOK
<1>6. InFlight'
  BY <1>1, <1>3, Untouched DEF Waiting
<1>8. OneProcess'
  BY <1>1 DEF OneProcess
<1> QED
  BY <1>3, <1>4, <1>5, <1>6, <1>8

LEMMA SendKeeps ==
    ASSUME IInv, NEW t \in Threads, Send(t)
    PROVE  IInv'
<1> USE DEF IInv
<1>1. /\ pc[t] = "send"
      /\ UNCHANGED <<schedulerVars, request, retry, reply, calls, lock, process, alive,
                     stdout, buffer, unended, garbled, logs, closes>>
  BY DEF Send
<1>2. PICK label \in {"await", "except"} : Goto(t, label)
  BY DEF Send, Raise
<1>3. pc[t] \in Working /\ label \in Working /\ label \in Inside /\ label \in Waiting
      /\ pc[t] \in Inside /\ pc[t] \notin Waiting /\ label \notin {"leave", "release", "idle"}
  BY <1>1 DEF Working, Inside, Waiting
<1>4. /\ SlotsKept' /\ pc' \in [Threads -> Labels] /\ pc'[t] = label
      /\ \A u \in Threads : u # t => pc'[u] = pc[u]
      /\ semaphore' \in 0..MaxConcurrent /\ active' \in 0..MaxConcurrent
      /\ completed' \in 0..MaxCalls /\ calls' \in 0..MaxCalls
  BY <1>1, <1>2, <1>3, Inward
<1>5. request[t] \in 1..MaxCalls
  BY <1>1, ModelWorkerAssumption DEF TypeOK, Control
<1>6. TypeOK'
  <2>1. raised' \in [Threads -> {"none", "exited", "timeout"}]
    BY DEF Send, Raise, TypeOK
  <2>2. stdin \in Seq(1..MaxCalls) /\ (stdin' = Append(stdin, request[t]) \/ stdin' = stdin)
    BY DEF Send, TypeOK
  <2>3. stdin' \in Seq(1..MaxCalls)
    BY <1>5, <2>2, LineTypes, Zenon
  <2> QED
    BY <1>1, <1>4, <2>1, <2>3 DEF TypeOK
<1>7. Control'
  BY <1>1, <1>3, <1>4 DEF Control
<1>8. ASSUME ~garbled PROVE InFlight'
  <2>1. Quiet
    BY <1>3, <1>8, Owner
  <2>2. CASE stdin' = Append(stdin, request[t])
    <3>1. stdin' = <<request[t]>>
      BY <2>1, <2>2 DEF Quiet
    <3>2. Asked(request[t])'
      BY <1>1, <2>1, <3>1 DEF Asked, Quiet, Clean
    <3> QED
      BY <1>3, <1>4, <3>2 DEF InFlight
  <2>3. CASE UNCHANGED stdin
    BY <1>1, <2>1, <2>3 DEF InFlight, Quiet, Clean
  <2> QED
    BY <2>2, <2>3 DEF Send
<1>9. InFlight'
  BY <1>1, <1>8, Spoilt
<1>10. OneProcess'
  BY <1>1 DEF OneProcess
<1> QED
  BY <1>4, <1>6, <1>7, <1>9, <1>10

(* The types, apart by what steps change.                                   *)
CallTypes ==
    /\ request \in [Threads -> 0..MaxCalls]
    /\ retry \in [Threads -> 0..1]
    /\ reply \in [Threads -> [status : Outcomes, of : 0..MaxCalls]]
    /\ lock \in Threads \cup {NoThread}
    /\ closes \in 0..MaxCloses

ProcessTypes ==
    /\ process \in Pids \cup {0} /\ alive \subseteq Pids
    /\ stdin \in Seq(1..MaxCalls)
    /\ garbled \in BOOLEAN /\ logs \in 0..MaxLogs

OutputTypes ==
    /\ stdout \in Seq(0..MaxCalls) /\ buffer \in Seq(0..MaxCalls)
    /\ unended \in {"none", "pipe", "buffer"}

SlotTypes ==
    /\ semaphore \in 0..MaxConcurrent /\ active \in 0..MaxConcurrent
    /\ completed \in 0..MaxCalls /\ calls \in 0..MaxCalls
    /\ pc \in [Threads -> Labels]

LEMMA Types ==
    /\ TypeOK <=> /\ CallTypes /\ ProcessTypes /\ OutputTypes /\ SlotTypes
                  /\ raised \in [Threads -> {"none", "exited", "timeout"}]
    /\ TypeOK' <=> /\ CallTypes' /\ ProcessTypes' /\ OutputTypes' /\ SlotTypes'
                   /\ raised' \in [Threads -> {"none", "exited", "timeout"}]
BY Zenon DEF TypeOK, CallTypes, ProcessTypes, OutputTypes, SlotTypes

LEMMA TypesKept ==
    /\ CallTypes /\ UNCHANGED <<request, retry, reply, lock, closes>> => CallTypes'
    /\ ProcessTypes /\ UNCHANGED <<process, alive, stdin, garbled, logs>> => ProcessTypes'
    /\ OutputTypes /\ UNCHANGED <<stdout, buffer, unended>> => OutputTypes'
BY DEF CallTypes, ProcessTypes, OutputTypes

LEMMA SelectKeeps ==
    ASSUME IInv, NEW t \in Threads, Select(t)
    PROVE  IInv'
<1> USE DEF IInv
<1>1. /\ pc[t] = "await" /\ Goto(t, "read")
      /\ UNCHANGED <<schedulerVars, request, retry, raised, reply, calls, lock, closes>>
      /\ UNCHANGED <<process, alive, stdin, stdout, buffer, unended, garbled, logs>>
  BY DEF Select, workerVars
<1>2. pc[t] \in Working /\ "read" \in Working
  BY <1>1 DEF Working
<1>3. /\ SlotsKept' /\ pc' \in [Threads -> Labels] /\ pc'[t] = "read"
      /\ \A u \in Threads : u # t => pc'[u] = pc[u]
      /\ semaphore' \in 0..MaxConcurrent /\ active' \in 0..MaxConcurrent
      /\ completed' \in 0..MaxCalls /\ calls' \in 0..MaxCalls
  BY <1>1, <1>2, Inward
<1>4. TypeOK'
  <2>1. SlotTypes'
    BY <1>3 DEF SlotTypes
  <2> QED
    BY <1>1, <2>1, Types, TypesKept
<1>5. Control'
  BY <1>1, <1>3 DEF Control, Inside
<1>6. InFlight'
  BY <1>1, <1>3, Untouched DEF Waiting
<1>7. OneProcess'
  BY <1>1 DEF OneProcess
<1> QED
  BY <1>3, <1>4, <1>5, <1>6, <1>7

LEMMA TimeoutKeeps ==
    ASSUME IInv, NEW t \in Threads, Timeout(t)
    PROVE  IInv'
<1> USE DEF IInv
<1>1. /\ pc[t] = "await" /\ Goto(t, "except") /\ raised' = [raised EXCEPT ![t] = "timeout"]
      /\ UNCHANGED <<schedulerVars, request, retry, reply, calls, lock, closes>>
      /\ UNCHANGED <<process, alive, stdin, stdout, buffer, unended, garbled, logs>>
  BY DEF Timeout, Raise, workerVars
<1>2. pc[t] \in Working /\ "except" \in Working
  BY <1>1 DEF Working
<1>3. /\ SlotsKept' /\ pc' \in [Threads -> Labels] /\ pc'[t] = "except"
      /\ \A u \in Threads : u # t => pc'[u] = pc[u]
      /\ semaphore' \in 0..MaxConcurrent /\ active' \in 0..MaxConcurrent
      /\ completed' \in 0..MaxCalls /\ calls' \in 0..MaxCalls
  BY <1>1, <1>2, Inward
<1>4. TypeOK'
  <2>1. raised' \in [Threads -> {"none", "exited", "timeout"}]
    BY <1>1 DEF TypeOK
  <2>2. SlotTypes'
    BY <1>3 DEF SlotTypes
  <2> QED
    BY <1>1, <2>1, <2>2, Types, TypesKept
<1>5. Control'
  BY <1>1, <1>3 DEF Control, Inside
<1>6. InFlight'
  BY <1>1, <1>3, Untouched DEF Waiting
<1>7. OneProcess'
  BY <1>1 DEF OneProcess
<1> QED
  BY <1>3, <1>4, <1>5, <1>6, <1>7

(* What is read is no longer in flight.                                      *)
LEMMA ReadKeeps ==
    ASSUME IInv, NEW t \in Threads, Read(t)
    PROVE  IInv'
<1> USE DEF IInv
<1>1. /\ pc[t] = "read"
      /\ UNCHANGED <<schedulerVars, request, retry, calls, process, alive, stdin, garbled,
                     logs, closes>>
  BY DEF Read
<1>2. /\ pc[t] \in Working \cap Inside \cap Waiting
      /\ {"await", "except", "leave"} \subseteq Working
  BY <1>1 DEF Working, Inside, Waiting
<1>3. request[t] \in Nat \ {Log} /\ request[t] \in 1..MaxCalls
  BY <1>1, ModelWorkerAssumption DEF TypeOK, Control, Log
<1>4. OneProcess'
  BY <1>1 DEF OneProcess
<1>5. CASE /\ Raise(t, "exited") /\ UNCHANGED <<reply, lock, stdout, buffer, unended>>
  <2>1. Goto(t, "except") /\ raised' = [raised EXCEPT ![t] = "exited"]
    BY <1>5 DEF Raise
  <2>2. /\ SlotsKept' /\ pc' \in [Threads -> Labels] /\ pc'[t] = "except"
        /\ \A u \in Threads : u # t => pc'[u] = pc[u]
        /\ semaphore' \in 0..MaxConcurrent /\ active' \in 0..MaxConcurrent
        /\ completed' \in 0..MaxCalls /\ calls' \in 0..MaxCalls
    BY <1>1, <1>2, <2>1, Inward
  <2>3. raised' \in [Threads -> {"none", "exited", "timeout"}]
    BY <2>1 DEF TypeOK
  <2>4. TypeOK'
    <3>1. SlotTypes'
      BY <2>2 DEF SlotTypes
    <3> QED
      BY <1>1, <1>5, <2>3, <3>1, Types, TypesKept
  <2>5. Control'
    BY <1>1, <1>5, <2>2 DEF Control, Inside
  <2>6. InFlight'
    BY <1>1, <1>5, <2>2, Untouched DEF Waiting
  <2> QED
    BY <1>4, <2>2, <2>4, <2>5, <2>6
<1>6. CASE /\ Lines # <<>> /\ buffer' = Tail(Lines)
           /\ stdout' = IF buffer = <<>> THEN <<>> ELSE stdout
           /\ unended' = ReadAhead /\ UNCHANGED raised
           /\ IF Head(Lines) = Log
              THEN Goto(t, "await") /\ UNCHANGED <<reply, lock>>
              ELSE \E status \in {"ok", "failed"} :
                     End(t, [status |-> status, of |-> Head(Lines)])
  <2>1. stdout \in Seq(0..MaxCalls) /\ buffer \in Seq(0..MaxCalls) /\ Lines \in Seq(0..MaxCalls)
    BY DEF TypeOK, Lines
  <2>2. Head(Lines) \in 0..MaxCalls /\ buffer' \in Seq(0..MaxCalls) /\ stdout' \in Seq(0..MaxCalls)
    BY <1>6, <2>1, LineTypes, Zenon
  <2>3. unended' \in {"none", "pipe", "buffer"}
    BY <1>6 DEF ReadAhead, TypeOK
  <2>4. Lines \in Seq(Nat) /\ stdout \in Seq(Nat) /\ buffer \in Seq(Nat)
    <3>1. 0..MaxCalls \subseteq Nat
      BY ModelWorkerAssumption
    <3> QED
      BY <2>1, <3>1, LinesAreNumbers
  <2>5. /\ Clean(Lines) => Head(Lines) = Log /\ Clean(Tail(Lines))
        /\ Answers(Lines, request[t]) /\ Head(Lines) = Log => Answers(Tail(Lines), request[t])
        /\ Answers(Lines, request[t]) /\ Head(Lines) # Log =>
             Head(Lines) = request[t] /\ Clean(Tail(Lines))
    BY <1>3, <1>6, <2>4, FirstLine
  <2>6. ASSUME ~garbled PROVE Quiet \/ Asked(request[t])
    BY <1>2, <2>6, Owner
  <2>7. CASE Head(Lines) = Log
    <3>1. Goto(t, "await") /\ UNCHANGED <<reply, lock>>
      BY <1>6, <2>7
    <3>2. /\ SlotsKept' /\ pc' \in [Threads -> Labels] /\ pc'[t] = "await"
          /\ \A u \in Threads : u # t => pc'[u] = pc[u]
          /\ semaphore' \in 0..MaxConcurrent /\ active' \in 0..MaxConcurrent
          /\ completed' \in 0..MaxCalls /\ calls' \in 0..MaxCalls
      BY <1>1, <1>2, <3>1, Inward
    <3>3. TypeOK'
      <4>1. SlotTypes' /\ OutputTypes'
        BY <2>2, <2>3, <3>2 DEF SlotTypes, OutputTypes
      <4> QED
        BY <1>1, <1>6, <3>1, <4>1, Types, TypesKept
    <3>4. Control'
      BY <1>1, <3>1, <3>2 DEF Control, Inside
    <3>5. ASSUME ~garbled PROVE Quiet' \/ Asked(request[t])'
      <4>1. CASE buffer = <<>>
        BY <1>1, <1>6, <2>5, <2>6, <2>7, <3>5, <4>1, NoLines
        DEF Quiet, Asked, Lines, Answers, Clean
      <4>2. CASE buffer # <<>>
        BY <1>1, <1>6, <2>5, <2>6, <2>7, <3>5, <4>2 DEF Quiet, Asked, Lines
      <4> QED
        BY <4>1, <4>2
    <3>6. InFlight'
      BY <1>1, <3>2, <3>5, Spoilt DEF InFlight, Waiting
    <3> QED
      BY <1>4, <3>2, <3>3, <3>4, <3>6
  <2>8. CASE Head(Lines) # Log
    <3>1. PICK status \in {"ok", "failed"} : End(t, [status |-> status, of |-> Head(Lines)])
      BY <1>6, <2>8
    <3>2. /\ reply' = [reply EXCEPT ![t] = [status |-> status, of |-> Head(Lines)]]
          /\ lock' = NoThread /\ Goto(t, "leave")
      BY <3>1 DEF End
    <3>3. /\ SlotsKept' /\ pc' \in [Threads -> Labels] /\ pc'[t] = "leave"
          /\ \A u \in Threads : u # t => pc'[u] = pc[u]
          /\ semaphore' \in 0..MaxConcurrent /\ active' \in 0..MaxConcurrent
          /\ completed' \in 0..MaxCalls /\ calls' \in 0..MaxCalls
      BY <1>1, <1>2, <3>2, Inward
    <3>4. reply' \in [Threads -> [status : Outcomes, of : 0..MaxCalls]]
      <4>1. [status |-> status, of |-> Head(Lines)]
              \in [status : Outcomes, of : 0..MaxCalls]
        BY <2>2 DEF Outcomes
      <4> QED
        BY <3>2, <4>1 DEF TypeOK
    <3>5. TypeOK'
      <4>1. SlotTypes' /\ OutputTypes'
        BY <2>2, <2>3, <3>3 DEF SlotTypes, OutputTypes
      <4>2. CallTypes'
        BY <1>1, <3>2, <3>4 DEF CallTypes, TypeOK
      <4> QED
        BY <1>1, <1>6, <4>1, <4>2, Types, TypesKept
    <3>6. Control'
      BY <1>1, <3>2, <3>3, ModelWorkerAssumption DEF Control, Inside, TypeOK
    <3>7. ASSUME ~garbled PROVE Quiet'
      <4>1. CASE buffer = <<>>
        BY <1>1, <1>6, <2>5, <2>6, <2>8, <3>7, <4>1, NoLines
        DEF Quiet, Asked, Lines, Answers, Clean
      <4>2. CASE buffer # <<>>
        BY <1>1, <1>6, <2>5, <2>6, <2>8, <3>7, <4>2 DEF Quiet, Asked, Lines
      <4> QED
        BY <4>1, <4>2
    <3>8. InFlight'
      BY <1>1, <3>7, Spoilt DEF InFlight
    <3> QED
      BY <1>4, <3>3, <3>5, <3>6, <3>8
  <2> QED
    BY <2>7, <2>8
<1> QED
  BY <1>5, <1>6 DEF Read

(* The call ends; what was in the pipe is lost, what comes may be stale.    *)
LEMMA ReadUndecodableKeeps ==
    ASSUME IInv, NEW t \in Threads, ReadUndecodable(t)
    PROVE  IInv'
<1> USE DEF IInv
<1>1. /\ pc[t] = "read" /\ Goto(t, "leave") /\ lock' = NoThread
      /\ reply' = [reply EXCEPT ![t] = [status |-> "undecodable", of |-> 0]]
      /\ stdout' = <<>> /\ unended' = "none" /\ garbled' = TRUE
      /\ UNCHANGED <<schedulerVars, request, retry, raised, calls, process, alive, stdin,
                     buffer, logs, closes>>
  BY DEF ReadUndecodable, End
<1>2. pc[t] \in Working /\ "leave" \in Working
  BY <1>1 DEF Working
<1>3. /\ SlotsKept' /\ pc' \in [Threads -> Labels] /\ pc'[t] = "leave"
      /\ \A u \in Threads : u # t => pc'[u] = pc[u]
      /\ semaphore' \in 0..MaxConcurrent /\ active' \in 0..MaxConcurrent
      /\ completed' \in 0..MaxCalls /\ calls' \in 0..MaxCalls
  BY <1>1, <1>2, Inward
<1>4. TypeOK'
  <2>1. [status |-> "undecodable", of |-> 0] \in [status : Outcomes, of : 0..MaxCalls]
    BY ModelWorkerAssumption DEF Outcomes
  <2>2. reply' \in [Threads -> [status : Outcomes, of : 0..MaxCalls]]
    BY <1>1, <2>1 DEF TypeOK
  <2>3. CallTypes'
    BY <1>1, <2>2 DEF CallTypes, TypeOK
  <2>4. ProcessTypes'
    BY <1>1 DEF ProcessTypes, TypeOK
  <2>5. OutputTypes'
    BY <1>1, LineTypes DEF OutputTypes, TypeOK
  <2>6. SlotTypes'
    BY <1>3 DEF SlotTypes
  <2>7. raised' \in [Threads -> {"none", "exited", "timeout"}]
    BY <1>1 DEF TypeOK
  <2> QED
    BY <2>3, <2>4, <2>5, <2>6, <2>7, Types
<1>5. Control'
  BY <1>1, <1>3, ModelWorkerAssumption DEF Control, Inside, TypeOK
<1>6. InFlight'
  BY <1>1, Spoilt
<1>7. OneProcess'
  BY <1>1 DEF OneProcess
<1> QED
  BY <1>3, <1>4, <1>5, <1>6, <1>7

(* Steps that nothing of the scheduler or of any thread takes part in.      *)
LEMMA Idle ==
    ASSUME SlotsKept, UNCHANGED <<schedulerVars, pc, calls>>
    PROVE  SlotsKept'
BY DEF SlotsKept, schedulerVars

LEMMA ReadPartKeeps ==
    ASSUME IInv, NEW t \in Threads, ReadPart(t)
    PROVE  IInv'
<1> USE DEF IInv
<1>1. /\ unended' = "buffer" /\ UNCHANGED <<schedulerVars, pc, calls>>
      /\ UNCHANGED <<request, retry, reply, lock, closes, raised>>
      /\ UNCHANGED <<process, alive, stdin, stdout, buffer, garbled, logs>>
  BY DEF ReadPart, threadVars
<1>2. TypeOK'
  <2>1. SlotTypes' /\ OutputTypes'
    BY <1>1 DEF SlotTypes, OutputTypes, TypeOK, schedulerVars
  <2> QED
    BY <1>1, <2>1, Types, TypesKept
<1>3. Control'
  BY <1>1 DEF Control
<1>4. InFlight'
  BY <1>1, Untouched
<1>5. OneProcess'
  BY <1>1 DEF OneProcess
<1>6. SlotsKept'
  BY <1>1, Idle
<1> QED
  BY <1>2, <1>3, <1>4, <1>5, <1>6

(* A process is stopped before the lock is given up or another is started.  *)
LEMMA ExceptKeeps ==
    ASSUME IInv, NEW t \in Threads, Except(t)
    PROVE  IInv'
<1> USE DEF IInv
<1>1. /\ pc[t] = "except" /\ Stop /\ raised' = [raised EXCEPT ![t] = "none"]
      /\ UNCHANGED <<schedulerVars, request, calls, closes>>
  BY DEF Except
<1>2. process' = 0 /\ alive' = alive \ {process} /\ NewPipes
  BY <1>1 DEF Stop
<1>3. InFlight'
  BY <1>2, Drained
<1>4. OneProcess'
  BY <1>2 DEF OneProcess
<1>5. /\ raised' \in [Threads -> {"none", "exited", "timeout"}] /\ OutputTypes' /\ ProcessTypes'
  <2>1. raised' \in [Threads -> {"none", "exited", "timeout"}]
    BY <1>1 DEF TypeOK
  <2>2. OutputTypes'
    BY <1>2, NewTypes DEF OutputTypes
  <2>3. process' \in Pids \cup {0} /\ alive' \subseteq Pids
    BY <1>2 DEF TypeOK
  <2>4. ProcessTypes'
    BY <1>2, <2>3, NewTypes DEF ProcessTypes
  <2> QED
    BY <2>1, <2>2, <2>4
<1>6. pc[t] \in Working /\ {"leave", "ready"} \subseteq Working
  BY <1>1 DEF Working
<1>7. ASSUME NEW status \in {"timeout", "exited"}, End(t, [status |-> status, of |-> 0]),
             UNCHANGED retry
      PROVE  IInv'
  <2>1. /\ Goto(t, "leave") /\ lock' = NoThread
        /\ reply' = [reply EXCEPT ![t] = [status |-> status, of |-> 0]]
    BY <1>7 DEF End
  <2>2. /\ SlotsKept' /\ pc' \in [Threads -> Labels] /\ pc'[t] = "leave"
        /\ \A u \in Threads : u # t => pc'[u] = pc[u]
        /\ semaphore' \in 0..MaxConcurrent /\ active' \in 0..MaxConcurrent
        /\ completed' \in 0..MaxCalls /\ calls' \in 0..MaxCalls
    BY <1>1, <1>6, <2>1, Inward
  <2>3. TypeOK'
    <3>1. SlotTypes'
      BY <2>2 DEF SlotTypes
    <3>2. [status |-> status, of |-> 0]
            \in [status : Outcomes, of : 0..MaxCalls]
      BY ModelWorkerAssumption DEF Outcomes
    <3>3. CallTypes'
      BY <1>1, <1>7, <2>1, <3>2 DEF CallTypes, TypeOK
    <3> QED
      BY <1>5, <3>1, <3>3, Types
  <2>4. Control'
    BY <1>1, <2>1, <2>2, ModelWorkerAssumption DEF Control, Inside, TypeOK
  <2> QED
    BY <1>3, <1>4, <2>2, <2>3, <2>4
<1>8. ASSUME retry' = [retry EXCEPT ![t] = 1], Goto(t, "ready"), UNCHANGED <<reply, lock>>
      PROVE  IInv'
  <2>1. /\ SlotsKept' /\ pc' \in [Threads -> Labels] /\ pc'[t] = "ready"
        /\ \A u \in Threads : u # t => pc'[u] = pc[u]
        /\ semaphore' \in 0..MaxConcurrent /\ active' \in 0..MaxConcurrent
        /\ completed' \in 0..MaxCalls /\ calls' \in 0..MaxCalls
    BY <1>1, <1>6, <1>8, Inward
  <2>2. TypeOK'
    <3>1. SlotTypes'
      BY <2>1 DEF SlotTypes
    <3>2. CallTypes'
      BY <1>1, <1>8 DEF CallTypes, TypeOK
    <3> QED
      BY <1>5, <3>1, <3>2, Types
  <2>3. Control'
    BY <1>1, <1>8, <2>1 DEF Control, Inside
  <2> QED
    BY <1>3, <1>4, <2>1, <2>2, <2>3
<1> QED
  BY <1>7, <1>8 DEF Except

LEMMA CloseKeeps ==
    ASSUME IInv, Close
    PROVE  IInv'
<1> USE DEF IInv
<1>1. /\ closes < MaxCloses /\ closes' = closes + 1
      /\ process' = 0 /\ alive' = alive \ {process} /\ NewPipes
      /\ UNCHANGED <<schedulerVars, pc, calls>> /\ UNCHANGED <<request, retry, raised, reply, lock>>
  BY DEF Close, Stop, threadVars
<1>2. TypeOK'
  <2>1. SlotTypes'
    BY <1>1 DEF SlotTypes, TypeOK, schedulerVars
  <2>2. OutputTypes'
    BY <1>1, NewTypes DEF OutputTypes
  <2>3. process' \in Pids \cup {0} /\ alive' \subseteq Pids
    BY <1>1 DEF TypeOK
  <2>4. ProcessTypes'
    BY <1>1, <2>3, NewTypes DEF ProcessTypes
  <2>5. closes' \in 0..MaxCloses
    BY <1>1, ModelWorkerAssumption DEF TypeOK
  <2>6. CallTypes'
    BY <1>1, <2>5 DEF CallTypes, TypeOK
  <2>7. raised' \in [Threads -> {"none", "exited", "timeout"}]
    BY <1>1 DEF TypeOK
  <2> QED
    BY <2>1, <2>2, <2>4, <2>6, <2>7, Types
<1>3. Control'
  BY <1>1 DEF Control
<1>4. InFlight'
  BY <1>1, Drained
<1>5. OneProcess'
  BY <1>1 DEF OneProcess
<1>7. SlotsKept'
  BY <1>1, Idle
<1> QED
  BY <1>2, <1>3, <1>4, <1>5, <1>7

(* What the process does concerns the pipes only.                           *)
LEMMA Elsewhere ==
    ASSUME IInv, UNCHANGED <<schedulerVars, pc, calls>>,
           UNCHANGED <<request, retry, reply, lock, closes, raised>>, process' = process,
           alive' \subseteq alive, ProcessTypes', OutputTypes', InFlight'
    PROVE  IInv'
<1> USE DEF IInv
<1>1. TypeOK'
  <2>1. SlotTypes'
    BY DEF SlotTypes, TypeOK, schedulerVars
  <2> QED
    BY <2>1, Types, TypesKept
<1>2. Control'
  BY DEF Control
<1>3. OneProcess'
  BY DEF OneProcess
<1>4. SlotsKept'
  BY Idle
<1> QED
  BY <1>1, <1>2, <1>3, <1>4

(* Emit puts one line into the pipe.                                        *)
LEMMA Emitted ==
    ASSUME OutputTypes, NEW line \in 0..MaxCalls, Emit(line), UNCHANGED buffer
    PROVE  /\ OutputTypes' /\ stdout \in Seq(Nat)
           /\ stdout' = Append(stdout, line) \/ stdout' = Append(stdout, Log)
<1>1. stdout' = Append(stdout, line) \/ stdout' = Append(stdout, Log)
  BY DEF Emit
<1>2. Log \in 0..MaxCalls /\ 0..MaxCalls \subseteq Nat
  BY ModelWorkerAssumption DEF Log
<1>3. stdout \in Seq(0..MaxCalls) /\ stdout \in Seq(Nat)
  BY <1>2, LinesAreNumbers DEF OutputTypes
<1>4. stdout' \in Seq(0..MaxCalls)
  BY <1>1, <1>2, <1>3, LineTypes, Zenon
<1> QED
  BY <1>1, <1>3, <1>4 DEF OutputTypes, Emit

(* A line of log changes nothing about what is in flight.                   *)
LEMMA Logged ==
    ASSUME IInv, stdout' = Append(stdout, Log), UNCHANGED <<pc, request, buffer, garbled>>,
           stdin' = stdin \/ (stdin' = <<>> /\ stdout \in Seq(Nat))
    PROVE  InFlight'
<1> USE DEF IInv
<1>1. stdout \in Seq(Nat)
  <2>1. 0..MaxCalls \subseteq Nat /\ stdout \in Seq(0..MaxCalls)
    BY ModelWorkerAssumption DEF TypeOK
  <2> QED
    BY <2>1, LinesAreNumbers
<1>2. 1 \in Nat \ {Log}
  BY DEF Log
<1>3. CASE Quiet
  <2>1. Clean(stdout)' /\ Clean(buffer)'
    BY <1>1, <1>2, <1>3, LastLine DEF Quiet, Clean
  <2> QED
    BY <1>3, <2>1 DEF Quiet, InFlight
<1>4. ASSUME NEW t \in Threads, pc[t] \in Waiting, Asked(request[t])
      PROVE  InFlight'
  <2>1. request[t] \in Nat \ {Log}
    BY <1>4, ModelWorkerAssumption DEF TypeOK, Control, Waiting, Log
  <2>2. /\ Clean(stdout) => Clean(stdout)'
        /\ Answers(stdout, request[t]) => Answers(stdout, request[t])'
        /\ Clean(buffer)' <=> Clean(buffer)
        /\ Answers(buffer, request[t])' <=> Answers(buffer, request[t])
    <3>1. /\ Clean(stdout) => Clean(Append(stdout, Log))
          /\ Answers(stdout, request[t]) => Answers(Append(stdout, Log), request[t])
      BY <1>1, <2>1, LastLine
    <3> QED
      BY <3>1 DEF Clean, Answers
  <2>3. Asked(request[t])' \/ Quiet'
    BY <1>4, <2>2 DEF Asked, Quiet
  <2> QED
    BY <1>4, <2>3 DEF InFlight
<1> QED
  BY <1>3, <1>4, Spoilt DEF InFlight

LEMMA ServeKeeps ==
    ASSUME IInv, Serve
    PROVE  IInv'
<1> USE DEF IInv
<1>1. /\ stdin # <<>> /\ stdin' = Tail(stdin) /\ Emit(Head(stdin))
      /\ UNCHANGED <<schedulerVars, pc, calls>>
      /\ UNCHANGED <<request, retry, reply, lock, closes, raised>>
      /\ UNCHANGED <<process, alive, buffer, garbled, logs>>
  BY DEF Serve, threadVars
<1>2. Head(stdin) \in 0..MaxCalls /\ Tail(stdin) \in Seq(1..MaxCalls)
  <2>1. Head(stdin) \in 1..MaxCalls /\ Tail(stdin) \in Seq(1..MaxCalls)
    BY <1>1, LineTypes, Zenon DEF TypeOK
  <2> QED
    BY <2>1
<1>3. OutputTypes
  BY Types
<1>4. /\ OutputTypes' /\ stdout \in Seq(Nat)
      /\ stdout' = Append(stdout, Head(stdin)) \/ stdout' = Append(stdout, Log)
  BY <1>1, <1>2, <1>3, Emitted
<1>5. ProcessTypes'
  BY <1>1, <1>2 DEF ProcessTypes, TypeOK
<1>6. ASSUME ~garbled PROVE InFlight'
  <2>1. PICK t \in Threads : pc[t] \in Waiting /\ Asked(request[t])
    BY <1>1, <1>6 DEF InFlight, Quiet
  <2>2. stdin = <<request[t]>> /\ Clean(stdout) /\ Clean(buffer)
    BY <1>1, <2>1 DEF Asked
  <2>3. request[t] \in 0..MaxCalls /\ request[t] \in Nat \ {Log}
    BY <2>1, ModelWorkerAssumption DEF TypeOK, Control, Waiting, Log
  <2>4. stdin' = <<>> /\ Head(stdin) = request[t]
    BY <1>1, <2>2
  <2>5. CASE stdout' = Append(stdout, Log)
    BY <1>1, <1>4, <2>4, <2>5, Logged
  <2>6. CASE stdout' = Append(stdout, request[t])
    <3>1. Answers(Append(stdout, request[t]), request[t])
      BY <1>4, <2>2, <2>3, LastLine
    <3>2. Asked(request[t])'
      BY <1>1, <2>2, <2>4, <2>6, <3>1 DEF Asked, Answers, Clean
    <3> QED
      BY <1>1, <2>1, <3>2 DEF InFlight
  <2> QED
    BY <1>4, <2>4, <2>5, <2>6
<1>7. InFlight'
  BY <1>1, <1>6, Spoilt
<1> QED
  BY <1>1, <1>4, <1>5, <1>7, Elsewhere

LEMMA WriteLogKeeps ==
    ASSUME IInv, WriteLog
    PROVE  IInv'
<1> USE DEF IInv
<1>1. /\ logs < MaxLogs /\ logs' = logs + 1
      /\ UNCHANGED <<schedulerVars, pc, calls>>
      /\ UNCHANGED <<request, retry, reply, lock, closes, raised>>
      /\ UNCHANGED <<process, alive, stdin, buffer, garbled>>
  BY DEF WriteLog, threadVars
<1>2. ProcessTypes'
  <2>1. logs' \in 0..MaxLogs
    BY <1>1, ModelWorkerAssumption DEF TypeOK
  <2> QED
    BY <1>1, <2>1 DEF ProcessTypes, TypeOK
<1>3. OutputTypes
  BY Types
<1>4. CASE Emit(Log)
  <2>1. Log \in 0..MaxCalls
    BY ModelWorkerAssumption DEF Log
  <2>2. OutputTypes' /\ stdout' = Append(stdout, Log)
    BY <1>1, <1>3, <1>4, <2>1, Emitted
  <2>3. InFlight'
    BY <1>1, <2>2, Logged
  <2> QED
    BY <1>1, <1>2, <2>2, <2>3, Elsewhere
<1>5. CASE unended = "none" /\ unended' = "pipe" /\ UNCHANGED stdout
  <2>1. OutputTypes'
    BY <1>1, <1>3, <1>5 DEF OutputTypes
  <2>2. InFlight'
    BY <1>1, <1>5, Untouched
  <2> QED
    BY <1>1, <1>2, <2>1, <2>2, Elsewhere
<1> QED
  BY <1>4, <1>5 DEF WriteLog

LEMMA ExitKeeps ==
    ASSUME IInv, Exit
    PROVE  IInv'
<1> USE DEF IInv
<1>1. /\ alive' = alive \ {process} /\ stdin' = <<>>
      /\ UNCHANGED <<schedulerVars, pc, calls>>
      /\ UNCHANGED <<request, retry, reply, lock, closes, raised>>
      /\ UNCHANGED <<process, buffer, garbled, logs>>
  BY DEF Exit, threadVars
<1>2. ProcessTypes'
  <2>1. alive' \subseteq Pids
    BY <1>1 DEF TypeOK
  <2> QED
    BY <1>1, <2>1, LineTypes DEF ProcessTypes, TypeOK
<1>3. OutputTypes
  BY Types
<1>4. CASE Emit(Log)
  <2>1. Log \in 0..MaxCalls
    BY ModelWorkerAssumption DEF Log
  <2>2. OutputTypes' /\ stdout \in Seq(Nat) /\ stdout' = Append(stdout, Log)
    BY <1>1, <1>3, <1>4, <2>1, Emitted
  <2>3. InFlight'
    BY <1>1, <2>2, Logged
  <2> QED
    BY <1>1, <1>2, <2>2, <2>3, Elsewhere
<1>5. CASE UNCHANGED <<stdout, unended>>
  <2>1. OutputTypes'
    BY <1>1, <1>3, <1>5 DEF OutputTypes
  <2>2. InFlight'
    BY <1>1, <1>5 DEF InFlight, Quiet, Asked, Clean, Answers
  <2> QED
    BY <1>1, <1>2, <2>1, <2>2, Elsewhere
<1> QED
  BY <1>4, <1>5 DEF Exit

-----------------------------------------------------------------------------
LEMMA StepKeeps == IInv /\ [Next]_vars => IInv'
<1> SUFFICES ASSUME IInv, [Next]_vars PROVE IInv'
  OBVIOUS
<1>1. ASSUME NEW t \in Threads, CallTool(t) PROVE IInv'
  BY <1>1, CallToolKeeps
<1>2. ASSUME NEW t \in Threads, Step(t) PROVE IInv'
  BY <1>2, ScheduleKeeps, FinishKeeps, LockWorkerKeeps, ReadyKeeps, StartFailsKeeps, SendKeeps,
     SelectKeeps, TimeoutKeeps, ReadKeeps, ReadUndecodableKeeps, ReadPartKeeps, ExceptKeeps
  DEF Step
<1>3. CASE Close
  BY <1>3, CloseKeeps
<1>4. CASE Serve
  BY <1>4, ServeKeeps
<1>5. CASE WriteLog
  BY <1>5, WriteLogKeeps
<1>6. CASE Exit
  BY <1>6, ExitKeeps
<1>7. CASE UNCHANGED vars
  <2>1. UNCHANGED schedulerVars /\ UNCHANGED threadVars /\ UNCHANGED workerVars
    BY <1>7 DEF vars
  <2>2. /\ UNCHANGED <<schedulerVars, pc, calls>>
        /\ UNCHANGED <<request, retry, reply, lock, closes, raised>>
        /\ UNCHANGED <<process, alive, stdin, garbled, logs>>
        /\ UNCHANGED <<stdout, buffer, unended>>
    BY <2>1 DEF threadVars, workerVars
  <2>3. ProcessTypes' /\ OutputTypes'
    BY <2>2, Types, TypesKept DEF IInv
  <2>4. InFlight'
    BY <2>2, Untouched DEF IInv
  <2> QED
    BY <2>2, <2>3, <2>4, Elsewhere
<1> QED
  BY <1>1, <1>2, <1>3, <1>4, <1>5, <1>6, <1>7 DEF Next

(* The invariant holds in every state, whatever the process does and        *)
(* whenever waits time out (PersistentJsonModelWorker.call, GpuScheduler).  *)
THEOREM Invariance == Spec => []IInv
<1>1. Init => IInv
  BY InitKeeps
<1>2. IInv /\ [Next]_vars => IInv'
  BY StepKeeps
<1> QED
  BY <1>1, <1>2, PTL DEF Spec

(* Types: no more callbacks are active than there are slots.                *)
THEOREM TypeCorrect == Spec => []TypeOK
<1>1. IInv => TypeOK
  BY DEF IInv
<1> QED
  BY <1>1, Invariance, PTL

(* A result that is read is the answer to the reader's own request, as long *)
(* as all the process wrote could be decoded.                               *)
LEMMA ReadAnswers ==
    ASSUME IInv, ~garbled, NEW t \in Threads, Read(t), Lines # <<>>, Head(Lines) # Log
    PROVE  Head(Lines) = request[t]
<1> USE DEF IInv
<1>1. pc[t] = "read"
  BY DEF Read
<1>2. request[t] \in Nat \ {Log}
  BY <1>1, ModelWorkerAssumption DEF TypeOK, Control, Log
<1>3. Lines \in Seq(Nat)
  <2>1. Lines \in Seq(0..MaxCalls) /\ 0..MaxCalls \subseteq Nat
    BY ModelWorkerAssumption DEF TypeOK, Lines
  <2> QED
    BY <2>1, LinesAreNumbers
<1>4. /\ Clean(Lines) => Head(Lines) = Log
      /\ Answers(Lines, request[t]) => Head(Lines) = request[t]
  BY <1>2, <1>3, FirstLine
<1>5. Quiet \/ Asked(request[t])
  BY <1>1, Owner DEF Inside
<1> QED
  BY <1>4, <1>5 DEF Quiet, Asked, Lines

(* No other step hands over a result.                                       *)
LEMMA StepAnswers ==
    ASSUME IInv, [Next]_vars
    PROVE  [AnswersRequest]_vars
<1> SUFFICES ASSUME Next, NEW t \in Threads, reply'[t].status \in {"ok", "failed"},
                    reply'[t] # reply[t]
             PROVE  reply'[t].of = request[t] \/ garbled
  BY DEF AnswersRequest
<1>1. reply \in [Threads -> [status : Outcomes, of : 0..MaxCalls]]
  BY DEF IInv, TypeOK
<1>2. \E u \in Threads : Finish(u) \/ StartFails(u) \/ Read(u) \/ ReadUndecodable(u) \/ Except(u)
  BY DEF Next, Step, CallTool, Schedule, LockWorker, Ready, Send, Select, Timeout, ReadPart,
         Close, Serve, WriteLog, Exit, threadVars
<1>3. PICK u \in Threads :
        Finish(u) \/ StartFails(u) \/ Read(u) \/ ReadUndecodable(u) \/ Except(u)
  BY <1>2
<1>4. ASSUME NEW outcome, reply' = [reply EXCEPT ![u] = outcome]
      PROVE  u = t /\ outcome.status \in {"ok", "failed"} /\ reply'[t] = outcome
  BY <1>1, <1>4
<1>5. ASSUME NEW outcome, reply' = [reply EXCEPT ![u] = outcome],
             outcome.status \notin {"ok", "failed"}
      PROVE  FALSE
  BY <1>4, <1>5
<1>6. ~Finish(u)
  <2>1. NoReply.status \notin {"ok", "failed"}
    BY DEF NoReply
  <2> QED
    BY <1>5, <2>1 DEF Finish
<1>7. ~StartFails(u) /\ ~ReadUndecodable(u)
  BY <1>5 DEF StartFails, ReadUndecodable, End
<1>8. ~Except(u)
  BY <1>5 DEF Except, End
<1>9. CASE Read(u)
  <2>1. /\ Lines # <<>> /\ Head(Lines) # Log
        /\ \E status \in {"ok", "failed"} :
             reply' = [reply EXCEPT ![u] = [status |-> status, of |-> Head(Lines)]]
    BY <1>9 DEF Read, End
  <2>2. u = t /\ reply'[t].of = Head(Lines)
    BY <1>4, <2>1
  <2> QED
    BY <1>9, <2>1, <2>2, ReadAnswers
<1> QED
  BY <1>3, <1>6, <1>7, <1>8, <1>9

(* A call gets the result of its own request and no other, unless a read    *)
(* from the process that runs failed to decode.                             *)
THEOREM AnswersOwnRequest == Spec => OwnAnswer
<1>1. IInv /\ [Next]_vars => [AnswersRequest]_vars
  BY StepAnswers
<1> QED
  BY <1>1, Invariance, PTL DEF Spec, OwnAnswer

(* No model process is ever left behind.                                    *)
THEOREM OneProcessAtMost == Spec => []OneProcess
<1>1. IInv => OneProcess
  BY DEF IInv
<1> QED
  BY <1>1, Invariance, PTL

(* Slots and counters agree with the threads that hold or passed them.      *)
THEOREM SlotsAgree == Spec => []SlotsKept
<1>1. IInv => SlotsKept
  BY DEF IInv
<1> QED
  BY <1>1, Invariance, PTL
=============================================================================
