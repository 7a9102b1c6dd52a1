---------------------------- MODULE TaskPromise ----------------------------
(***************************************************************************)
(* What the task API promises its clients about one task at a time,        *)
(* without processes, files or queues: the phases a task goes through and  *)
(* the number of its review round.  TaskLifecycle implements it as long as *)
(* it is undisturbed.  The phases are the statuses of GET /tasks/{id};     *)
(* "amended" is a revision recorded but not yet queued.                    *)
(***************************************************************************)
EXTENDS Naturals

CONSTANTS Tasks, MaxReviewRounds, FirstRounds, Terminal

VARIABLES phase, round

pvars == <<phase, round>>

Init ==
    /\ phase = [t \in Tasks |-> "absent"]
    /\ round = [t \in Tasks |-> 0]

Move(t, from, to) ==
    /\ phase[t] \in from
    /\ phase' = [phase EXCEPT ![t] = to]
    /\ UNCHANGED round

Accept(t) ==
    /\ phase[t] = "absent"
    /\ phase' = [phase EXCEPT ![t] = "created"]
    /\ \E first \in FirstRounds : round' = [round EXCEPT ![t] = first]

Queue(t)  == Move(t, {"created", "amended"}, "queued")
Cancel(t) == Move(t, {"queued"}, "cancelled")
Start(t)  == Move(t, {"queued"}, "running")
End(t)    == \E s \in Terminal \ {"cancelled"} : Move(t, {"running"}, s)
Submit(t) == Move(t, {"running"}, "waiting_for_review")

OpenReview(t) == Move(t, {"waiting_for_review"}, "review_processing")
Approve(t)    == Move(t, {"review_processing"}, "completed")
Decline(t)    == Move(t, {"review_processing"}, "waiting_for_review")

Amend(t) ==
    /\ phase[t] = "review_processing"
    /\ round[t] < MaxReviewRounds
    /\ phase' = [phase EXCEPT ![t] = "amended"]
    /\ round' = [round EXCEPT ![t] = @ + 1]

Next ==
    \E t \in Tasks :
       \/ Accept(t) \/ Queue(t) \/ Cancel(t) \/ Start(t) \/ End(t) \/ Submit(t)
       \/ OpenReview(t) \/ Approve(t) \/ Decline(t) \/ Amend(t)

Spec == Init /\ [][Next]_pvars
=============================================================================
