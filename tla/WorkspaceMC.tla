---------------------------- MODULE WorkspaceMC ----------------------------
(* Threads are alike, and so are e-mails and passwords.                     *)
EXTENDS Workspace, TLC

NameSymmetry ==
    Permutations(Threads) \cup Permutations(Emails) \cup Permutations(Passwords)
=============================================================================
