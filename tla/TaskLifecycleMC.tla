-------------------------- MODULE TaskLifecycleMC --------------------------
(* Values for the constants of TaskLifecycle that a .cfg cannot write.      *)
EXTENDS TaskLifecycle, TLC

AmpleSeed == [t \in Tasks |-> MaxReviewRounds]

(* A seed within 97_409 of the largest one admits no revision.              *)
TopSeed == [t \in Tasks |-> 0]

ProcessSymmetry == Permutations(Workers) \cup Permutations(Handlers)
=============================================================================
