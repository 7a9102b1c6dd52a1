-------------------------- MODULE Workspace_proofs --------------------------
(***************************************************************************)
(* TLAPS proofs about Workspace for any sets of threads, e-mails and       *)
(* passwords and any bounds.                                               *)
(*                                                                         *)
(* Every thread remembers what its request has found out so far; what it   *)
(* found stays true, because rows and files are only ever added (Grows),   *)
(* and what it is about to add is still its own (Apart).                   *)
(***************************************************************************)
EXTENDS Workspace, TLAPS

-----------------------------------------------------------------------------
(* The inductive invariant.                                                 *)

Locals ==
    [user : Nat, token : Nat, project : Nat, input : Nat, task : Nat,
     email : Emails \cup {""}, password : Passwords \cup {""}]

Creating == {"create", "create_row", "submit"}
Identified == Endpoints \cup Creating \cup {"upload_row", "input", "list", "act"}

(* What thread th knows of accounts, uploads and tasks.                     *)
KnowsUser(th) ==
    /\ pc[th] \in {"login", "session"} =>
         call[th].email \in Emails /\ call[th].password \in Passwords
    /\ pc[th] = "session" =>
         /\ call[th].user \in DOMAIN users
         /\ users[call[th].user].email = call[th].email
         /\ users[call[th].user].password = call[th].password
    /\ pc[th] \in Identified =>
         /\ call[th].token \in DOMAIN issued
         /\ call[th].user \in DOMAIN users
         /\ issued[call[th].token].user = call[th].user

KnowsInput(th) ==
    /\ pc[th] \in Creating \cup {"input"} =>
         /\ call[th].project \in DOMAIN projects
         /\ projects[call[th].project] = call[th].user
    /\ pc[th] \in Creating =>
         /\ call[th].input \in 0..uploadFiles
         /\ call[th].input # 0 => [asset |-> call[th].input, owner |-> call[th].user] \in uploads
    /\ pc[th] = "upload_row" => call[th].input \in 1..uploadFiles

KnowsTask(th) ==
    /\ pc[th] \in {"create_row", "submit"} =>
         /\ call[th].task \in DOMAIN requests
         /\ requests[call[th].task].project = call[th].project
         /\ requests[call[th].task].input = call[th].input
    /\ pc[th] = "submit" =>
         \E row \in tasks : row.task = call[th].task /\ row.owner = call[th].user
    /\ pc[th] = "act" =>
         \E row \in tasks : row.task = call[th].task /\ row.owner = call[th].user

Knows == \A th \in Threads : KnowsUser(th) /\ KnowsInput(th) /\ KnowsTask(th)

(* Uploads and tasks whose row is still to be written have none yet and     *)
(* belong to one thread each.                                               *)
Apart ==
    /\ \A th \in Threads : pc[th] = "upload_row" =>
         \A u \in uploads : u.asset # call[th].input
    /\ \A th \in Threads : pc[th] = "create_row" =>
         \A row \in tasks : row.task # call[th].task
    /\ \A th, o \in Threads : th # o /\ pc[th] = "upload_row" /\ pc[o] = "upload_row" =>
         call[th].input # call[o].input
    /\ \A th, o \in Threads : th # o /\ pc[th] = "create_row" /\ pc[o] = "create_row" =>
         call[th].task # call[o].task

LocalsOK == call \in [Threads -> Locals]

IInv ==
    /\ TypeOK /\ LocalsOK /\ Knows /\ Apart
    /\ AccountsWhole /\ TasksStayHome /\ RowsHaveFiles

-----------------------------------------------------------------------------
(* Sequences that are appended to, and the locals of one thread.            *)

LEMMA SeqGrows ==
    ASSUME NEW A, NEW B, A \subseteq B, NEW s \in Seq(A)
    PROVE  s \in Seq(B)
<1>1. Len(s) \in Nat /\ s \in [1..Len(s) -> A]
  OBVIOUS
<1>2. s \in [1..Len(s) -> B]
  BY <1>1
<1> QED
  BY <1>1, <1>2

LEMMA Appended ==
    ASSUME NEW S, NEW s \in Seq(S), NEW e \in S
    PROVE  /\ Append(s, e) \in Seq(S)
           /\ Len(Append(s, e)) = Len(s) + 1
           /\ DOMAIN Append(s, e) = DOMAIN s \cup {Len(s) + 1}
           /\ Len(s) + 1 \notin DOMAIN s
           /\ \A i \in DOMAIN s : Append(s, e)[i] = s[i]
           /\ Append(s, e)[Len(s) + 1] = e
<1>1. Len(s) \in Nat /\ DOMAIN s = 1..Len(s)
  OBVIOUS
<1> QED
  BY <1>1

LEMMA NoCallTyped == NoCall \in Locals
BY DEF NoCall, Locals

LEMMA LoginLocals ==
    ASSUME NEW email \in Emails, NEW password \in Passwords
    PROVE  LET c == [NoCall EXCEPT !.email = email, !.password = password] IN
           c \in Locals /\ c.email = email /\ c.password = password
BY DEF NoCall, Locals

LEMMA RequestLocals ==
    ASSUME NEW u \in Nat, NEW k \in Nat
    PROVE  LET c == [NoCall EXCEPT !.user = u, !.token = k] IN
           c \in Locals /\ c.user = u /\ c.token = k
BY DEF NoCall, Locals

LEMMA UserLocals ==
    ASSUME NEW c \in Locals, NEW u \in Nat
    PROVE  LET d == [c EXCEPT !.user = u] IN
           d \in Locals /\ d.user = u /\ d.email = c.email /\ d.password = c.password
BY DEF Locals

LEMMA ProjectLocals ==
    ASSUME NEW c \in Locals, NEW p \in Nat
    PROVE  LET d == [c EXCEPT !.project = p] IN
           d \in Locals /\ d.project = p /\ d.user = c.user /\ d.token = c.token
BY DEF Locals

LEMMA InputLocals ==
    ASSUME NEW c \in Locals, NEW a \in Nat
    PROVE  LET d == [c EXCEPT !.input = a] IN
           /\ d \in Locals /\ d.input = a
           /\ d.user = c.user /\ d.token = c.token /\ d.project = c.project
BY DEF Locals

LEMMA TaskLocals ==
    ASSUME NEW c \in Locals, NEW t \in Nat
    PROVE  LET d == [c EXCEPT !.task = t] IN
           /\ d \in Locals /\ d.task = t
           /\ d.user = c.user /\ d.token = c.token
           /\ d.project = c.project /\ d.input = c.input
BY DEF Locals

Labels == {"idle"} \cup Endpoints \cup Inside

(* The control part of TypeOK.                                              *)
ControlOK ==
    /\ pc \in [Threads -> Labels]
    /\ \A th \in Threads : pc[th] = "idle" => call[th] = NoCall

LEMMA GotoEffect ==
    ASSUME ControlOK, LocalsOK, NEW th \in Threads, NEW next \in Labels,
           NEW locals \in Locals, Goto(th, next, locals),
           next = "idle" => locals = NoCall
    PROVE  /\ ControlOK' /\ LocalsOK'
           /\ pc'[th] = next /\ call'[th] = locals
           /\ \A o \in Threads \ {th} : pc'[o] = pc[o] /\ call'[o] = call[o]
BY DEF ControlOK, LocalsOK, Goto

LEMMA AnswerEffect ==
    ASSUME ControlOK, LocalsOK, NEW th \in Threads, Answer(th)
    PROVE  /\ ControlOK' /\ LocalsOK'
           /\ pc'[th] = "idle" /\ call'[th] = NoCall
           /\ \A o \in Threads \ {th} : pc'[o] = pc[o] /\ call'[o] = call[o]
BY GotoEffect, NoCallTyped DEF Answer, Labels

(* Rows, files and records of requests are added and never changed.         *)
Grows ==
    /\ \A u \in DOMAIN users : u \in DOMAIN users' /\ users'[u] = users[u]
    /\ \A p \in DOMAIN projects : p \in DOMAIN projects' /\ projects'[p] = projects[p]
    /\ \A k \in DOMAIN issued : k \in DOMAIN issued' /\ issued'[k] = issued[k]
    /\ \A t \in DOMAIN requests : t \in DOMAIN requests' /\ requests'[t] = requests[t]
    /\ uploadFiles \in Nat /\ uploadFiles' \in Nat /\ uploadFiles <= uploadFiles'
    /\ uploads \subseteq uploads'
    /\ tasks \subseteq tasks'

Stays(o) == pc'[o] = pc[o] /\ call'[o] = call[o]

(* What a thread has found out stays true whatever other threads add.       *)
LEMMA StillKnows ==
    ASSUME Grows, LocalsOK, NEW o \in Threads, Stays(o),
           KnowsUser(o), KnowsInput(o), KnowsTask(o)
    PROVE  KnowsUser(o)' /\ KnowsInput(o)' /\ KnowsTask(o)'
<1> USE DEF Stays, Grows
<1>1. KnowsUser(o)'
  BY DEF KnowsUser
<1>2. KnowsInput(o)'
  <2>1. call[o].input \in Nat
    BY DEF LocalsOK, Locals
  <2> QED
    BY <2>1 DEF KnowsInput
<1>3. KnowsTask(o)'
  BY DEF KnowsTask
<1> QED
  BY <1>1, <1>2, <1>3

LEMMA AllKnow ==
    ASSUME Grows, LocalsOK, Knows, NEW th \in Threads,
           \A o \in Threads \ {th} : pc'[o] = pc[o] /\ call'[o] = call[o],
           KnowsUser(th)', KnowsInput(th)', KnowsTask(th)'
    PROVE  Knows'
<1> SUFFICES ASSUME NEW o \in Threads
             PROVE  (KnowsUser(o) /\ KnowsInput(o) /\ KnowsTask(o))'
  BY DEF Knows
<1>1. CASE o = th
  BY <1>1
<1>2. CASE o # th
  BY <1>2, StillKnows DEF Knows, Stays
<1> QED
  BY <1>1, <1>2

(* A thread that waits for nothing to be written leaves the rest apart.     *)
LEMMA StillApart ==
    ASSUME Apart, NEW th \in Threads,
           \A o \in Threads \ {th} : pc'[o] = pc[o] /\ call'[o] = call[o],
           pc'[th] \notin {"upload_row", "create_row"},
           UNCHANGED <<uploads, tasks>>
    PROVE  Apart'
BY DEF Apart

LEMMA IdleKnows ==
    ASSUME NEW th \in Threads, pc'[th] = "idle"
    PROVE  KnowsUser(th)' /\ KnowsInput(th)' /\ KnowsTask(th)'
BY DEF KnowsUser, KnowsInput, KnowsTask, Identified, Endpoints, Creating

-----------------------------------------------------------------------------
(* Steps that only find something out.                                      *)

(* TypeOK without its control part.                                         *)
DataOK ==
    /\ users \in Seq([email : Emails, password : Passwords]) /\ Len(users) <= MaxUsers
    /\ projects \in Seq(DOMAIN users) /\ Len(projects) <= MaxProjects
    /\ issued \in Seq([user : DOMAIN users, email : Emails, password : Passwords])
    /\ live \subseteq DOMAIN issued
    /\ uploadFiles \in 0..MaxUploads
    /\ uploads \subseteq [asset : 1..MaxUploads, owner : DOMAIN users]
    /\ requests \in Seq([project : DOMAIN projects, input : 0..MaxUploads])
    /\ Len(requests) <= MaxTasks
    /\ tasks \subseteq [task : 1..MaxTasks, owner : DOMAIN users, project : DOMAIN projects]
    /\ jobs \subseteq 1..MaxTasks
    /\ seen \subseteq (DOMAIN issued) \X (1..MaxTasks)

LEMMA TypeSplit == TypeOK <=> DataOK /\ ControlOK
BY DEF TypeOK, DataOK, ControlOK, Labels

LEMMA TypeSplitNext == TypeOK' <=> DataOK' /\ ControlOK'
BY DEF TypeOK, DataOK, ControlOK, Labels

LEMMA Element ==
    ASSUME NEW S, NEW s \in Seq(S), NEW i \in DOMAIN s
    PROVE  s[i] \in S /\ i \in Nat
OBVIOUS

LEMMA DataFacts ==
    ASSUME DataOK
    PROVE  /\ DOMAIN users \subseteq Nat /\ DOMAIN projects \subseteq Nat
           /\ DOMAIN issued \subseteq Nat /\ DOMAIN requests \subseteq Nat
           /\ \A p \in DOMAIN projects : projects[p] \in DOMAIN users
           /\ \A k \in DOMAIN issued : issued[k].user \in DOMAIN users
           /\ live \subseteq DOMAIN issued
           /\ uploadFiles \in Nat
<1>1. DOMAIN users \subseteq Nat /\ DOMAIN requests \subseteq Nat
  BY Element DEF DataOK
<1>2. \A p \in DOMAIN projects : projects[p] \in DOMAIN users /\ p \in Nat
  BY Element DEF DataOK
<1>3. \A k \in DOMAIN issued :
        issued[k] \in [user : DOMAIN users, email : Emails, password : Passwords] /\ k \in Nat
  BY Element DEF DataOK
<1>4. live \subseteq DOMAIN issued /\ uploadFiles \in Nat
  BY WorkspaceAssumption DEF DataOK
<1> QED
  BY <1>1, <1>2, <1>3, <1>4

Kept == UNCHANGED <<accounts, files, taskVars>>

LEMMA KeptGrows ==
    ASSUME DataOK, Kept
    PROVE  Grows
<1>1. uploadFiles \in Nat
  BY WorkspaceAssumption DEF DataOK
<1> QED
  BY <1>1 DEF Kept, Grows, accounts, files, taskVars

LEMMA KeptRest ==
    ASSUME Kept, DataOK, AccountsWhole, TasksStayHome, RowsHaveFiles
    PROVE  DataOK' /\ AccountsWhole' /\ TasksStayHome' /\ RowsHaveFiles'
<1> USE DEF Kept, accounts, files, taskVars
<1>1. DataOK'
  BY DEF DataOK
<1>2. AccountsWhole'
  BY DEF AccountsWhole
<1>3. TasksStayHome'
  BY DEF TasksStayHome
<1>4. RowsHaveFiles'
  BY DEF RowsHaveFiles
<1> QED
  BY <1>1, <1>2, <1>3, <1>4

LEMMA FindsOut ==
    ASSUME IInv, Kept, NEW th \in Threads, ControlOK', LocalsOK',
           \A o \in Threads \ {th} : pc'[o] = pc[o] /\ call'[o] = call[o],
           pc'[th] \notin {"upload_row", "create_row"},
           KnowsUser(th)', KnowsInput(th)', KnowsTask(th)'
    PROVE  IInv'
<1>1. DataOK' /\ AccountsWhole' /\ TasksStayHome' /\ RowsHaveFiles'
  BY KeptRest, TypeSplit DEF IInv
<1>2. Grows
  BY KeptGrows, TypeSplit DEF IInv
<1>3. Knows'
  BY <1>2, AllKnow DEF IInv
<1>4. Apart'
  BY StillApart DEF IInv, Kept, files, taskVars
<1> QED
  BY <1>1, <1>3, <1>4, TypeSplitNext DEF IInv

LEMMA Refuses ==
    ASSUME IInv, Kept, NEW th \in Threads, Answer(th)
    PROVE  IInv'
<1>1. /\ ControlOK' /\ LocalsOK' /\ pc'[th] = "idle"
      /\ \A o \in Threads \ {th} : pc'[o] = pc[o] /\ call'[o] = call[o]
  BY AnswerEffect, TypeSplit DEF IInv
<1>2. KnowsUser(th)' /\ KnowsInput(th)' /\ KnowsTask(th)'
  BY <1>1, IdleKnows
<1> QED
  BY <1>1, <1>2, FindsOut

LEMMA LoginStep ==
    ASSUME IInv, NEW th \in Threads, NEW email \in Emails, NEW password \in Passwords,
           Login(th, email, password)
    PROVE  IInv'
<1> DEFINE c == [NoCall EXCEPT !.email = email, !.password = password]
<1>1. c \in Locals /\ c.email = email /\ c.password = password
  BY LoginLocals
<1>2. Kept /\ Goto(th, "login", c)
  BY DEF Login, Kept
<1> HIDE DEF c
<1>3. /\ ControlOK' /\ LocalsOK' /\ pc'[th] = "login" /\ call'[th] = c
      /\ \A o \in Threads \ {th} : pc'[o] = pc[o] /\ call'[o] = call[o]
  BY <1>1, <1>2, GotoEffect, TypeSplit DEF IInv, Labels, Inside
<1>4. KnowsUser(th)' /\ KnowsInput(th)' /\ KnowsTask(th)'
  BY <1>1, <1>3
     DEF KnowsUser, KnowsInput, KnowsTask, Identified, Endpoints, Creating
<1> QED
  BY <1>2, <1>3, <1>4, FindsOut

LEMMA ReadUserStep ==
    ASSUME IInv, NEW th \in Threads, ReadUser(th)
    PROVE  IInv'
<1>0. Kept
  BY DEF ReadUser, Kept
<1>1. CASE Answer(th)
  BY <1>0, <1>1, Refuses
<1>2. ASSUME NEW u \in KnownUsers(call[th].email, call[th].password),
             Goto(th, "session", [call[th] EXCEPT !.user = u])
      PROVE  IInv'
  <2> DEFINE c == [call[th] EXCEPT !.user = u]
  <2>1. call[th] \in Locals /\ pc[th] = "login"
    BY DEF IInv, LocalsOK, ReadUser
  <2>2. /\ u \in DOMAIN users
        /\ users[u] = [email |-> call[th].email, password |-> call[th].password]
    BY DEF KnownUsers
  <2>3. u \in Nat
    BY <2>2, TypeSplit DEF IInv, DataOK
  <2>4. c \in Locals /\ c.user = u /\ c.email = call[th].email /\ c.password = call[th].password
    BY <2>1, <2>3, UserLocals
  <2>5. Goto(th, "session", c)
    BY <1>2
  <2> HIDE DEF c
  <2>6. /\ ControlOK' /\ LocalsOK' /\ pc'[th] = "session" /\ call'[th] = c
        /\ \A o \in Threads \ {th} : pc'[o] = pc[o] /\ call'[o] = call[o]
    BY <2>4, <2>5, GotoEffect, TypeSplit DEF IInv, Labels, Inside
  <2>7. call[th].email \in Emails /\ call[th].password \in Passwords
    BY <2>1 DEF IInv, Knows, KnowsUser
  <2>8. KnowsUser(th)' /\ KnowsInput(th)' /\ KnowsTask(th)'
    BY <1>0, <2>2, <2>4, <2>6, <2>7
       DEF KnowsUser, KnowsInput, KnowsTask, Identified, Endpoints, Creating, Kept, accounts
  <2> QED
    BY <1>0, <2>6, <2>8, FindsOut
<1> QED
  BY <1>1, <1>2 DEF ReadUser

LEMMA IdentifyStep ==
    ASSUME IInv, NEW th \in Threads, NEW k \in live, NEW endpoint \in Endpoints,
           Identify(th, k, endpoint)
    PROVE  IInv'
<1> DEFINE c == [NoCall EXCEPT !.user = issued[k].user, !.token = k]
<1>1. k \in DOMAIN issued /\ k \in Nat /\ issued[k].user \in DOMAIN users
  BY TypeSplit, DataFacts DEF IInv
<1>2. issued[k].user \in Nat
  BY <1>1, TypeSplit, DataFacts DEF IInv
<1>3. c \in Locals /\ c.user = issued[k].user /\ c.token = k
  BY <1>1, <1>2, RequestLocals
<1>4. Kept /\ Goto(th, endpoint, c)
  BY DEF Identify, Kept
<1> HIDE DEF c
<1>5. /\ ControlOK' /\ LocalsOK' /\ pc'[th] = endpoint /\ call'[th] = c
      /\ \A o \in Threads \ {th} : pc'[o] = pc[o] /\ call'[o] = call[o]
  BY <1>3, <1>4, GotoEffect, TypeSplit DEF IInv, Labels, Endpoints
<1>6. KnowsUser(th)' /\ KnowsInput(th)' /\ KnowsTask(th)'
  BY <1>1, <1>3, <1>4, <1>5
     DEF KnowsUser, KnowsInput, KnowsTask, Identified, Endpoints, Creating, Kept, accounts
<1> QED
  BY <1>4, <1>5, <1>6, FindsOut DEF Endpoints

LEMMA CheckProjectStep ==
    ASSUME IInv, NEW th \in Threads, NEW p \in DOMAIN projects, CheckProject(th, p)
    PROVE  IInv'
<1>0. Kept /\ pc[th] = "create_task"
  BY DEF CheckProject, Kept
<1>1. CASE Answer(th)
  BY <1>0, <1>1, Refuses
<1>2. CASE /\ OwnsProject(call[th].user, p)
           /\ Goto(th, "input", [call[th] EXCEPT !.project = p])
  <2> DEFINE c == [call[th] EXCEPT !.project = p]
  <2>1. call[th] \in Locals /\ p \in Nat
    BY TypeSplit, DataFacts DEF IInv, LocalsOK
  <2>2. c \in Locals /\ c.project = p /\ c.user = call[th].user /\ c.token = call[th].token
    BY <2>1, ProjectLocals
  <2>3. Goto(th, "input", c)
    BY <1>2
  <2> HIDE DEF c
  <2>4. /\ ControlOK' /\ LocalsOK' /\ pc'[th] = "input" /\ call'[th] = c
        /\ \A o \in Threads \ {th} : pc'[o] = pc[o] /\ call'[o] = call[o]
    BY <2>2, <2>3, GotoEffect, TypeSplit DEF IInv, Labels, Inside
  <2>5. KnowsUser(th)
    BY DEF IInv, Knows
  <2>6. KnowsUser(th)' /\ KnowsInput(th)' /\ KnowsTask(th)'
    BY <1>0, <1>2, <2>2, <2>4, <2>5
       DEF KnowsUser, KnowsInput, KnowsTask, Identified, Endpoints, Creating, Kept,
           accounts, OwnsProject
  <2> QED
    BY <1>0, <2>4, <2>6, FindsOut
<1> QED
  BY <1>1, <1>2 DEF CheckProject

LEMMA ResolveInputStep ==
    ASSUME IInv, NEW th \in Threads, NEW a \in 0..uploadFiles, ResolveInput(th, a)
    PROVE  IInv'
<1>0. Kept /\ pc[th] = "input"
  BY DEF ResolveInput, Kept
<1>1. CASE Answer(th)
  BY <1>0, <1>1, Refuses
<1>2. CASE /\ a = 0 \/ Resolves(call[th].user, a)
           /\ Goto(th, "create", [call[th] EXCEPT !.input = a])
  <2> DEFINE c == [call[th] EXCEPT !.input = a]
  <2>1. call[th] \in Locals /\ a \in Nat
    BY TypeSplit, DataFacts DEF IInv, LocalsOK
  <2>2. /\ c \in Locals /\ c.input = a
        /\ c.user = call[th].user /\ c.token = call[th].token /\ c.project = call[th].project
    BY <2>1, InputLocals
  <2>3. Goto(th, "create", c)
    BY <1>2
  <2> HIDE DEF c
  <2>4. /\ ControlOK' /\ LocalsOK' /\ pc'[th] = "create" /\ call'[th] = c
        /\ \A o \in Threads \ {th} : pc'[o] = pc[o] /\ call'[o] = call[o]
    BY <2>2, <2>3, GotoEffect, TypeSplit DEF IInv, Labels, Inside
  <2>5. KnowsUser(th) /\ KnowsInput(th)
    BY DEF IInv, Knows
  <2>6. KnowsUser(th)' /\ KnowsInput(th)' /\ KnowsTask(th)'
    BY <1>0, <1>2, <2>2, <2>4, <2>5
       DEF KnowsUser, KnowsInput, KnowsTask, Identified, Endpoints, Creating, Kept,
           accounts, files, Resolves
  <2> QED
    BY <1>0, <2>4, <2>6, FindsOut
<1> QED
  BY <1>1, <1>2 DEF ResolveInput

LEMMA ListProjectStep ==
    ASSUME IInv, NEW th \in Threads, NEW p \in {0} \cup DOMAIN projects, ListProject(th, p)
    PROVE  IInv'
<1>0. Kept /\ pc[th] = "list_tasks"
  BY DEF ListProject, Kept
<1>1. CASE Answer(th)
  BY <1>0, <1>1, Refuses
<1>2. CASE Goto(th, "list", [call[th] EXCEPT !.project = p])
  <2> DEFINE c == [call[th] EXCEPT !.project = p]
  <2>1. call[th] \in Locals /\ p \in Nat
    BY TypeSplit, DataFacts DEF IInv, LocalsOK
  <2>2. c \in Locals /\ c.user = call[th].user /\ c.token = call[th].token
    BY <2>1, ProjectLocals
  <2>3. Goto(th, "list", c)
    BY <1>2
  <2> HIDE DEF c
  <2>4. /\ ControlOK' /\ LocalsOK' /\ pc'[th] = "list" /\ call'[th] = c
        /\ \A o \in Threads \ {th} : pc'[o] = pc[o] /\ call'[o] = call[o]
    BY <2>2, <2>3, GotoEffect, TypeSplit DEF IInv, Labels, Inside
  <2>5. KnowsUser(th)
    BY DEF IInv, Knows
  <2>6. KnowsUser(th)' /\ KnowsInput(th)' /\ KnowsTask(th)'
    BY <1>0, <2>2, <2>4, <2>5
       DEF KnowsUser, KnowsInput, KnowsTask, Identified, Endpoints, Creating, Kept, accounts
  <2> QED
    BY <1>0, <2>4, <2>6, FindsOut
<1> QED
  BY <1>1, <1>2 DEF ListProject

LEMMA AuthorizeStep ==
    ASSUME IInv, NEW th \in Threads, NEW t \in DOMAIN requests, Authorize(th, t)
    PROVE  IInv'
<1>0. Kept /\ pc[th] = "task"
  BY DEF Authorize, Kept
<1>1. CASE Answer(th)
  BY <1>0, <1>1, Refuses
<1>2. CASE /\ \E r \in tasks : r.task = t /\ r.owner = call[th].user
           /\ Goto(th, "act", [call[th] EXCEPT !.task = t])
  <2> DEFINE c == [call[th] EXCEPT !.task = t]
  <2>1. call[th] \in Locals /\ t \in Nat
    BY TypeSplit, DataFacts DEF IInv, LocalsOK
  <2>2. c \in Locals /\ c.task = t /\ c.user = call[th].user /\ c.token = call[th].token
    BY <2>1, TaskLocals
  <2>3. Goto(th, "act", c)
    BY <1>2
  <2> HIDE DEF c
  <2>4. /\ ControlOK' /\ LocalsOK' /\ pc'[th] = "act" /\ call'[th] = c
        /\ \A o \in Threads \ {th} : pc'[o] = pc[o] /\ call'[o] = call[o]
    BY <2>2, <2>3, GotoEffect, TypeSplit DEF IInv, Labels, Inside
  <2>5. KnowsUser(th)
    BY DEF IInv, Knows
  <2>6. KnowsUser(th)' /\ KnowsInput(th)' /\ KnowsTask(th)'
    BY <1>0, <1>2, <2>2, <2>4, <2>5
       DEF KnowsUser, KnowsInput, KnowsTask, Identified, Endpoints, Creating, Kept,
           accounts, taskVars
  <2> QED
    BY <1>0, <2>4, <2>6, FindsOut
<1> QED
  BY <1>1, <1>2 DEF Authorize

-----------------------------------------------------------------------------
(* Steps that add something.                                                *)

LEMMA TaskFacts ==
    ASSUME DataOK, RowsHaveFiles
    PROVE  /\ \A row \in tasks : /\ row.project \in DOMAIN projects
                                 /\ row.task \in DOMAIN requests
                                 /\ row.owner \in DOMAIN users
           /\ \A answer \in seen : answer[1] \in DOMAIN issued /\ answer[2] \in 1..MaxTasks
BY DEF DataOK, RowsHaveFiles

LEMMA TasksKept ==
    ASSUME DataOK, RowsHaveFiles, TasksStayHome, Grows, UNCHANGED <<tasks, seen>>
    PROVE  TasksStayHome'
BY TaskFacts DEF TasksStayHome, Grows

LEMMA RowsKept ==
    ASSUME DataOK, RowsHaveFiles, Grows, UNCHANGED <<tasks, jobs, uploads>>
    PROVE  RowsHaveFiles'
BY DEF RowsHaveFiles, Grows

LEMMA AccountsKept ==
    ASSUME AccountsWhole, UNCHANGED <<users, projects, issued>>
    PROVE  AccountsWhole'
BY DEF AccountsWhole

LEMMA Adds ==
    ASSUME IInv, Grows, NEW th \in Threads, ControlOK', LocalsOK', DataOK',
           \A o \in Threads \ {th} : pc'[o] = pc[o] /\ call'[o] = call[o],
           KnowsUser(th)', KnowsInput(th)', KnowsTask(th)',
           Apart', AccountsWhole', TasksStayHome', RowsHaveFiles'
    PROVE  IInv'
<1>1. Knows'
  BY AllKnow DEF IInv
<1> QED
  BY <1>1, TypeSplitNext DEF IInv

(* Users and projects grow: what refers to them still does.                 *)
LEMMA AccountTypes ==
    ASSUME DataOK, UNCHANGED <<files, taskVars, issued, live>>,
           DOMAIN users \subseteq DOMAIN users', DOMAIN projects \subseteq DOMAIN projects',
           users' \in Seq([email : Emails, password : Passwords]), Len(users') <= MaxUsers,
           projects' \in Seq(DOMAIN users'), Len(projects') <= MaxProjects
    PROVE  DataOK'
<1> USE DEF files, taskVars
<1>1. issued' \in Seq([user : DOMAIN users', email : Emails, password : Passwords])
  <2>1. [user : DOMAIN users, email : Emails, password : Passwords]
          \subseteq [user : DOMAIN users', email : Emails, password : Passwords]
    OBVIOUS
  <2>2. issued \in Seq([user : DOMAIN users, email : Emails, password : Passwords])
    BY DEF DataOK
  <2> QED
    BY <2>1, <2>2, SeqGrows
<1>2. requests' \in Seq([project : DOMAIN projects', input : 0..MaxUploads])
  <2>1. [project : DOMAIN projects, input : 0..MaxUploads]
          \subseteq [project : DOMAIN projects', input : 0..MaxUploads]
    OBVIOUS
  <2>2. requests \in Seq([project : DOMAIN projects, input : 0..MaxUploads])
    BY DEF DataOK
  <2> QED
    BY <2>1, <2>2, SeqGrows
<1>3. /\ uploads' \subseteq [asset : 1..MaxUploads, owner : DOMAIN users']
      /\ tasks' \subseteq [task : 1..MaxTasks, owner : DOMAIN users',
                           project : DOMAIN projects']
  BY DEF DataOK
<1> QED
  BY <1>1, <1>2, <1>3 DEF DataOK

LEMMA RegisterStep ==
    ASSUME IInv, NEW th \in Threads, NEW email \in Emails, NEW password \in Passwords,
           Register(th, email, password)
    PROVE  IInv'
<1> DEFINE c == [NoCall EXCEPT !.email = email, !.password = password]
           r == [email |-> email, password |-> password]
           new == Len(users) + 1
<1>1. c \in Locals /\ c.email = email /\ c.password = password
  BY LoginLocals
<1>2. /\ Goto(th, "login", c) /\ UNCHANGED <<issued, live, files, taskVars>>
      /\ users' = Append(users, r) /\ projects' = Append(projects, new)
      /\ Len(users) < MaxUsers /\ Len(projects) < MaxProjects
      /\ \A u \in DOMAIN users : users[u].email # email
  BY DEF Register
<1>3. r \in [email : Emails, password : Passwords] /\ r.email = email
  OBVIOUS
<1> HIDE DEF c, r
<1>4. /\ ControlOK' /\ LocalsOK' /\ pc'[th] = "login" /\ call'[th] = c
      /\ \A o \in Threads \ {th} : pc'[o] = pc[o] /\ call'[o] = call[o]
  BY <1>1, <1>2, GotoEffect, TypeSplit DEF IInv, Labels, Inside
<1>5. DataOK
  BY TypeSplit DEF IInv
<1>6. /\ users' \in Seq([email : Emails, password : Passwords])
      /\ Len(users') = new /\ DOMAIN users' = DOMAIN users \cup {new}
      /\ new \notin DOMAIN users
      /\ \A u \in DOMAIN users : users'[u] = users[u]
      /\ users'[new] = r
  <2>1. users \in Seq([email : Emails, password : Passwords])
    BY <1>5 DEF DataOK
  <2> QED
    BY <1>2, <1>3, <2>1, Appended
<1>7. /\ projects' \in Seq(DOMAIN users')
      /\ Len(projects') = Len(projects) + 1
      /\ DOMAIN projects' = DOMAIN projects \cup {Len(projects) + 1}
      /\ \A p \in DOMAIN projects : projects'[p] = projects[p]
      /\ projects'[Len(projects) + 1] = new
  <2>1. projects \in Seq(DOMAIN users)
    BY <1>5 DEF DataOK
  <2>2. projects \in Seq(DOMAIN users') /\ new \in DOMAIN users'
    BY <1>6, <2>1, SeqGrows
  <2> QED
    BY <1>2, <2>2, Appended
<1>8. Len(users') <= MaxUsers /\ Len(projects') <= MaxProjects
  <2>1. Len(users) \in Nat /\ Len(projects) \in Nat
    BY <1>5 DEF DataOK
  <2> QED
    BY <1>2, <1>6, <1>7, <2>1, WorkspaceAssumption
<1> HIDE DEF new
<1>9. DataOK'
  BY <1>2, <1>5, <1>6, <1>7, <1>8, AccountTypes
<1>10. Grows
  BY <1>2, <1>5, <1>6, <1>7, DataFacts DEF Grows, files, taskVars
<1>11. KnowsUser(th)' /\ KnowsInput(th)' /\ KnowsTask(th)'
  BY <1>1, <1>4 DEF KnowsUser, KnowsInput, KnowsTask, Identified, Endpoints, Creating
<1>12. Apart'
  BY <1>2, <1>4, StillApart DEF IInv, files, taskVars
<1>13. AccountsWhole'
  <2>1. /\ \A u, v \in DOMAIN users' : users'[u].email = users'[v].email => u = v
    BY <1>2, <1>3, <1>6 DEF IInv, AccountsWhole
  <2>2. \A u \in DOMAIN users' : \E p \in DOMAIN projects' : projects'[p] = u
    BY <1>6, <1>7 DEF IInv, AccountsWhole
  <2>3. \A k \in DOMAIN issued' :
          users'[issued'[k].user] = [email |-> issued'[k].email, password |-> issued'[k].password]
    BY <1>2, <1>5, <1>6, DataFacts DEF IInv, AccountsWhole
  <2> QED
    BY <2>1, <2>2, <2>3 DEF AccountsWhole
<1>14. TasksStayHome' /\ RowsHaveFiles'
  BY <1>2, <1>5, <1>10, TasksKept, RowsKept DEF IInv, files, taskVars
<1> QED
  BY <1>4, <1>9, <1>10, <1>11, <1>12, <1>13, <1>14, Adds

LEMMA CreateProjectStep ==
    ASSUME IInv, NEW th \in Threads, CreateProject(th)
    PROVE  IInv'
<1> DEFINE owner == call[th].user
<1>1. /\ pc[th] = "create_project" /\ Answer(th)
      /\ UNCHANGED <<users, issued, live, files, taskVars>>
      /\ projects' = Append(projects, owner) /\ Len(projects) < MaxProjects
  BY DEF CreateProject
<1>2. /\ ControlOK' /\ LocalsOK' /\ pc'[th] = "idle"
      /\ \A o \in Threads \ {th} : pc'[o] = pc[o] /\ call'[o] = call[o]
  BY <1>1, AnswerEffect, TypeSplit DEF IInv
<1>3. DataOK /\ owner \in DOMAIN users
  BY <1>1, TypeSplit DEF IInv, Knows, KnowsUser, Identified, Endpoints
<1>4. projects \in Seq(DOMAIN users) /\ Len(projects) \in Nat
  BY <1>3 DEF DataOK
<1>5. /\ projects' \in Seq(DOMAIN users)
      /\ Len(projects') = Len(projects) + 1
      /\ DOMAIN projects' = DOMAIN projects \cup {Len(projects) + 1}
      /\ \A p \in DOMAIN projects : projects'[p] = projects[p]
  BY <1>1, <1>3, <1>4, Appended
<1>6. Len(projects') <= MaxProjects
  BY <1>1, <1>4, <1>5, WorkspaceAssumption
<1>7. DataOK'
  <2>1. users' \in Seq([email : Emails, password : Passwords]) /\ Len(users') <= MaxUsers
    BY <1>1, <1>3 DEF DataOK
  <2>2. projects' \in Seq(DOMAIN users')
    BY <1>1, <1>5
  <2> QED
    BY <1>1, <1>3, <1>5, <1>6, <2>1, <2>2, AccountTypes
<1>8. Grows
  BY <1>1, <1>3, <1>5, DataFacts DEF Grows, files, taskVars
<1>9. KnowsUser(th)' /\ KnowsInput(th)' /\ KnowsTask(th)'
  BY <1>2, IdleKnows
<1>10. Apart'
  BY <1>1, <1>2, StillApart DEF IInv, files, taskVars
<1>11. AccountsWhole'
  BY <1>1, <1>5 DEF IInv, AccountsWhole
<1>12. TasksStayHome' /\ RowsHaveFiles'
  BY <1>1, <1>3, <1>8, TasksKept, RowsKept DEF IInv, files, taskVars
<1> QED
  BY <1>2, <1>7, <1>8, <1>9, <1>10, <1>11, <1>12, Adds

LEMMA InsertSessionStep ==
    ASSUME IInv, NEW th \in Threads, InsertSession(th)
    PROVE  IInv'
<1> DEFINE r == [user |-> call[th].user, email |-> call[th].email,
                 password |-> call[th].password]
           S == [user : DOMAIN users, email : Emails, password : Passwords]
<1>1. /\ pc[th] = "session" /\ Answer(th) /\ UNCHANGED <<users, projects, files, taskVars>>
      /\ issued' = Append(issued, r) /\ live' = live \cup {Len(issued) + 1}
  BY DEF InsertSession
<1>2. /\ ControlOK' /\ LocalsOK' /\ pc'[th] = "idle"
      /\ \A o \in Threads \ {th} : pc'[o] = pc[o] /\ call'[o] = call[o]
  BY <1>1, AnswerEffect, TypeSplit DEF IInv
<1>3. DataOK /\ KnowsUser(th)
  BY TypeSplit DEF IInv, Knows
<1>4. r \in S
  BY <1>1, <1>3 DEF KnowsUser
<1>5. issued \in Seq(S)
  BY <1>3 DEF DataOK
<1>6. users[r.user] = [email |-> r.email, password |-> r.password]
  <2>1. users[call[th].user] \in [email : Emails, password : Passwords]
    BY <1>1, <1>3, Element DEF KnowsUser, DataOK
  <2> QED
    BY <1>1, <1>3, <2>1 DEF KnowsUser
<1> HIDE DEF r
<1>7. /\ issued' \in Seq(S)
      /\ DOMAIN issued' = DOMAIN issued \cup {Len(issued) + 1}
      /\ \A k \in DOMAIN issued : issued'[k] = issued[k]
      /\ issued'[Len(issued) + 1] = r
  BY <1>1, <1>4, <1>5, Appended
<1>8. DataOK'
  <2>1. live' \subseteq DOMAIN issued' /\ seen' \subseteq (DOMAIN issued') \X (1..MaxTasks)
    BY <1>1, <1>3, <1>7 DEF DataOK, taskVars
  <2> QED
    BY <1>1, <1>3, <1>7, <2>1 DEF DataOK, files, taskVars
<1>9. Grows
  BY <1>1, <1>3, <1>7, DataFacts DEF Grows, files, taskVars
<1>10. KnowsUser(th)' /\ KnowsInput(th)' /\ KnowsTask(th)'
  BY <1>2, IdleKnows
<1>11. Apart'
  BY <1>1, <1>2, StillApart DEF IInv, files, taskVars
<1>12. AccountsWhole'
  BY <1>1, <1>6, <1>7 DEF IInv, AccountsWhole
<1>13. TasksStayHome' /\ RowsHaveFiles'
  BY <1>1, <1>3, <1>9, TasksKept, RowsKept DEF IInv, files, taskVars
<1> QED
  BY <1>2, <1>8, <1>9, <1>10, <1>11, <1>12, <1>13, Adds

(* A session ends: nothing else depends on its being live.                  *)
LEMMA SessionEnds ==
    ASSUME IInv, NEW k \in live, live' = live \ {k},
           UNCHANGED <<users, projects, issued, files, taskVars, pc, call>>
    PROVE  IInv'
<1> USE DEF files, taskVars
<1>1. DataOK'
  BY TypeSplit DEF IInv, DataOK
<1>2. ControlOK' /\ LocalsOK'
  BY TypeSplit DEF IInv, ControlOK, LocalsOK
<1>3. Knows'
  BY DEF IInv, Knows, KnowsUser, KnowsInput, KnowsTask
<1>4. Apart'
  BY DEF IInv, Apart
<1>5. AccountsWhole' /\ TasksStayHome' /\ RowsHaveFiles'
  BY DEF IInv, AccountsWhole, TasksStayHome, RowsHaveFiles
<1> QED
  BY <1>1, <1>2, <1>3, <1>4, <1>5, TypeSplitNext DEF IInv

LEMMA WriteUploadStep ==
    ASSUME IInv, NEW th \in Threads, WriteUpload(th)
    PROVE  IInv'
<1> DEFINE c == [call[th] EXCEPT !.input = Upload]
<1>1. /\ pc[th] = "upload" /\ Upload <= MaxUploads /\ uploadFiles' = Upload
      /\ Goto(th, "upload_row", c) /\ UNCHANGED <<accounts, uploads, taskVars>>
  BY DEF WriteUpload
<1>2. DataOK /\ uploadFiles \in Nat /\ Upload = uploadFiles + 1 /\ Upload \in Nat
  BY TypeSplit, DataFacts DEF IInv, Upload
<1>3. /\ c \in Locals /\ c.input = Upload
      /\ c.user = call[th].user /\ c.token = call[th].token
  BY <1>2, InputLocals DEF IInv, LocalsOK
<1> HIDE DEF c
<1>4. /\ ControlOK' /\ LocalsOK' /\ pc'[th] = "upload_row" /\ call'[th] = c
      /\ \A o \in Threads \ {th} : pc'[o] = pc[o] /\ call'[o] = call[o]
  BY <1>1, <1>3, GotoEffect, TypeSplit DEF IInv, Labels, Inside
<1>5. DataOK'
  <2>1. uploadFiles' \in 0..MaxUploads
    BY <1>1, <1>2, WorkspaceAssumption
  <2> QED
    BY <1>1, <1>2, <2>1 DEF DataOK, accounts, taskVars
<1>6. Grows
  BY <1>1, <1>2 DEF Grows, accounts, taskVars
<1>7. KnowsUser(th)' /\ KnowsInput(th)' /\ KnowsTask(th)'
  <2>1. KnowsUser(th)
    BY DEF IInv, Knows
  <2> QED
    BY <1>1, <1>2, <1>3, <1>4, <2>1
       DEF KnowsUser, KnowsInput, KnowsTask, Identified, Endpoints, Creating, accounts
<1>8. Apart'
  <2>1. \A u \in uploads : u.asset # Upload
    BY <1>2 DEF IInv, RowsHaveFiles
  <2>2. \A o \in Threads : pc[o] = "upload_row" => call[o].input # Upload
    <3> SUFFICES ASSUME NEW o \in Threads, pc[o] = "upload_row"
                 PROVE  call[o].input # Upload
      OBVIOUS
    <3>1. call[o].input \in 1..uploadFiles
      BY DEF IInv, Knows, KnowsInput
    <3> QED
      BY <1>2, <3>1
  <2>3. uploads' = uploads /\ tasks' = tasks
    BY <1>1 DEF taskVars
  <2>4. \A o \in Threads : pc'[o] = "upload_row" =>
          \A u \in uploads' : u.asset # call'[o].input
    BY <1>3, <1>4, <2>1, <2>3 DEF IInv, Apart
  <2>5. \A o \in Threads : pc'[o] = "create_row" =>
          \A row \in tasks' : row.task # call'[o].task
    BY <1>4, <2>3 DEF IInv, Apart
  <2>6. \A x, o \in Threads : x # o /\ pc'[x] = "upload_row" /\ pc'[o] = "upload_row" =>
          call'[x].input # call'[o].input
    BY <1>3, <1>4, <2>2 DEF IInv, Apart
  <2>7. \A x, o \in Threads : x # o /\ pc'[x] = "create_row" /\ pc'[o] = "create_row" =>
          call'[x].task # call'[o].task
    BY <1>4 DEF IInv, Apart
  <2> QED
    BY <2>4, <2>5, <2>6, <2>7 DEF Apart
<1>9. AccountsWhole'
  BY <1>1, AccountsKept DEF IInv, accounts
<1>10. TasksStayHome' /\ RowsHaveFiles'
  BY <1>1, <1>2, <1>6, TasksKept, RowsKept DEF IInv, taskVars
<1> QED
  BY <1>4, <1>5, <1>6, <1>7, <1>8, <1>9, <1>10, Adds

LEMMA InsertUploadStep ==
    ASSUME IInv, NEW th \in Threads, InsertUpload(th)
    PROVE  IInv'
<1> DEFINE a == call[th].input
           r == [asset |-> a, owner |-> call[th].user]
<1>1. /\ pc[th] = "upload_row" /\ Answer(th) /\ uploads' = uploads \cup {r}
      /\ UNCHANGED <<accounts, uploadFiles, taskVars>>
  BY DEF InsertUpload
<1>2. /\ ControlOK' /\ LocalsOK' /\ pc'[th] = "idle"
      /\ \A o \in Threads \ {th} : pc'[o] = pc[o] /\ call'[o] = call[o]
  BY <1>1, AnswerEffect, TypeSplit DEF IInv
<1>3. DataOK /\ a \in 1..uploadFiles /\ call[th].user \in DOMAIN users
  BY <1>1, TypeSplit DEF IInv, Knows, KnowsUser, KnowsInput, Identified
<1>4. \A u \in uploads : u.asset # a
  BY <1>1 DEF IInv, Apart
<1>5. r.asset = a /\ r \in [asset : 1..MaxUploads, owner : DOMAIN users]
  BY <1>3, WorkspaceAssumption DEF DataOK
<1> HIDE DEF r
<1>6. DataOK'
  BY <1>1, <1>3, <1>5 DEF DataOK, accounts, taskVars
<1>7. Grows
  BY <1>1, <1>3, DataFacts DEF Grows, accounts, taskVars
<1>8. KnowsUser(th)' /\ KnowsInput(th)' /\ KnowsTask(th)'
  BY <1>2, IdleKnows
<1>9. Apart'
  <2>1. tasks' = tasks
    BY <1>1 DEF taskVars
  <2>2. \A o \in Threads : pc'[o] = "upload_row" =>
          \A u \in uploads' : u.asset # call'[o].input
    BY <1>1, <1>2, <1>5 DEF IInv, Apart
  <2>3. \A o \in Threads : pc'[o] = "create_row" =>
          \A row \in tasks' : row.task # call'[o].task
    BY <1>2, <2>1 DEF IInv, Apart
  <2>4. \A x, o \in Threads : x # o /\ pc'[x] = "upload_row" /\ pc'[o] = "upload_row" =>
          call'[x].input # call'[o].input
    BY <1>2 DEF IInv, Apart
  <2>5. \A x, o \in Threads : x # o /\ pc'[x] = "create_row" /\ pc'[o] = "create_row" =>
          call'[x].task # call'[o].task
    BY <1>2 DEF IInv, Apart
  <2> QED
    BY <2>2, <2>3, <2>4, <2>5 DEF Apart
<1>10. AccountsWhole'
  BY <1>1, AccountsKept DEF IInv, accounts
<1>11. TasksStayHome'
  BY <1>1, <1>3, <1>7, TasksKept DEF IInv, taskVars
<1>12. RowsHaveFiles'
  <2>1. \A u \in uploads' : u.asset \in 1..uploadFiles'
    BY <1>1, <1>3, <1>5 DEF IInv, RowsHaveFiles
  <2>2. \A u, v \in uploads' : u.asset = v.asset => u = v
    BY <1>1, <1>4, <1>5 DEF IInv, RowsHaveFiles
  <2> QED
    BY <1>1, <2>1, <2>2 DEF IInv, RowsHaveFiles, taskVars
<1> QED
  BY <1>2, <1>6, <1>7, <1>8, <1>9, <1>10, <1>11, <1>12, Adds

LEMMA CreateTaskStep ==
    ASSUME IInv, NEW th \in Threads, CreateTask(th)
    PROVE  IInv'
<1> DEFINE t == Len(requests) + 1
           c == [call[th] EXCEPT !.task = t]
           r == [project |-> call[th].project, input |-> call[th].input]
           S == [project : DOMAIN projects, input : 0..MaxUploads]
<1>1. /\ pc[th] = "create" /\ Len(requests) < MaxTasks /\ requests' = Append(requests, r)
      /\ Goto(th, "create_row", c) /\ UNCHANGED <<accounts, files, tasks, jobs, seen>>
  BY DEF CreateTask
<1>2. DataOK /\ KnowsUser(th) /\ KnowsInput(th)
  BY TypeSplit DEF IInv, Knows
<1>3. requests \in Seq(S) /\ Len(requests) \in Nat
  BY <1>2 DEF DataOK
<1>4. r \in S /\ r.project = call[th].project /\ r.input = call[th].input
  BY <1>1, <1>2, WorkspaceAssumption DEF KnowsInput, DataOK, Creating
<1>5. /\ c \in Locals /\ c.task = t /\ c.user = call[th].user /\ c.token = call[th].token
      /\ c.project = call[th].project /\ c.input = call[th].input
  <2>1. call[th] \in Locals /\ t \in Nat
    BY <1>3 DEF IInv, LocalsOK
  <2> HIDE DEF t
  <2> QED
    BY <2>1, TaskLocals
<1> HIDE DEF c, r
<1>6. /\ ControlOK' /\ LocalsOK' /\ pc'[th] = "create_row" /\ call'[th] = c
      /\ \A o \in Threads \ {th} : pc'[o] = pc[o] /\ call'[o] = call[o]
  BY <1>1, <1>5, GotoEffect, TypeSplit DEF IInv, Labels, Inside
<1>7. /\ requests' \in Seq(S) /\ Len(requests') = t
      /\ DOMAIN requests' = DOMAIN requests \cup {t} /\ t \notin DOMAIN requests
      /\ \A i \in DOMAIN requests : requests'[i] = requests[i]
      /\ requests'[t] = r
  BY <1>1, <1>3, <1>4, Appended
<1>8. Len(requests') <= MaxTasks
  BY <1>1, <1>3, <1>7, WorkspaceAssumption
<1> HIDE DEF t
<1>9. DataOK'
  BY <1>1, <1>2, <1>7, <1>8 DEF DataOK, accounts, files
<1>10. Grows
  BY <1>1, <1>2, <1>7, DataFacts DEF Grows, accounts, files
<1>11. KnowsUser(th)' /\ KnowsInput(th)' /\ KnowsTask(th)'
  BY <1>1, <1>2, <1>4, <1>5, <1>6, <1>7
     DEF KnowsUser, KnowsInput, KnowsTask, Identified, Endpoints, Creating, accounts, files
<1>12. Apart'
  <2>1. \A row \in tasks : row.task # t
    BY <1>7 DEF IInv, RowsHaveFiles
  <2>2. \A o \in Threads : pc[o] = "create_row" => call[o].task # t
    BY <1>7 DEF IInv, Knows, KnowsTask
  <2>3. uploads' = uploads /\ tasks' = tasks
    BY <1>1 DEF files
  <2>4. \A o \in Threads : pc'[o] = "upload_row" =>
          \A u \in uploads' : u.asset # call'[o].input
    BY <1>6, <2>3 DEF IInv, Apart
  <2>5. \A o \in Threads : pc'[o] = "create_row" =>
          \A row \in tasks' : row.task # call'[o].task
    BY <1>5, <1>6, <2>1, <2>3 DEF IInv, Apart
  <2>6. \A x, o \in Threads : x # o /\ pc'[x] = "upload_row" /\ pc'[o] = "upload_row" =>
          call'[x].input # call'[o].input
    BY <1>6 DEF IInv, Apart
  <2>7. \A x, o \in Threads : x # o /\ pc'[x] = "create_row" /\ pc'[o] = "create_row" =>
          call'[x].task # call'[o].task
    BY <1>5, <1>6, <2>2 DEF IInv, Apart
  <2> QED
    BY <2>4, <2>5, <2>6, <2>7 DEF Apart
<1>13. AccountsWhole'
  BY <1>1, AccountsKept DEF IInv, accounts
<1>14. TasksStayHome' /\ RowsHaveFiles'
  BY <1>1, <1>2, <1>10, TasksKept, RowsKept DEF IInv, files
<1> QED
  BY <1>6, <1>9, <1>10, <1>11, <1>12, <1>13, <1>14, Adds

LEMMA CreateTaskRowStep ==
    ASSUME IInv, NEW th \in Threads, CreateTaskRow(th)
    PROVE  IInv'
<1> DEFINE t == call[th].task
           r == [task |-> t, owner |-> call[th].user, project |-> call[th].project]
<1>1. /\ pc[th] = "create_row" /\ tasks' = tasks \cup {r} /\ Goto(th, "submit", call[th])
      /\ UNCHANGED <<accounts, files, requests, jobs, seen>>
  BY DEF CreateTaskRow
<1>2. /\ ControlOK' /\ LocalsOK' /\ pc'[th] = "submit" /\ call'[th] = call[th]
      /\ \A o \in Threads \ {th} : pc'[o] = pc[o] /\ call'[o] = call[o]
  <2>1. call[th] \in Locals
    BY DEF IInv, LocalsOK
  <2> QED
    BY <1>1, <2>1, GotoEffect, TypeSplit DEF IInv, Labels, Inside
<1>3. DataOK /\ KnowsUser(th) /\ KnowsInput(th) /\ KnowsTask(th)
  BY TypeSplit DEF IInv, Knows
<1>4. \A row \in tasks : row.task # t
  BY <1>1 DEF IInv, Apart
<1>5. /\ call[th].user \in DOMAIN users
      /\ call[th].project \in DOMAIN projects
      /\ projects[call[th].project] = call[th].user
      /\ call[th].input # 0 => [asset |-> call[th].input, owner |-> call[th].user] \in uploads
      /\ t \in DOMAIN requests
      /\ requests[t].project = call[th].project
      /\ requests[t].input = call[th].input
  BY <1>1, <1>3 DEF KnowsUser, KnowsInput, KnowsTask, Identified, Creating
<1>6. t \in 1..MaxTasks
  <2>1. DOMAIN requests = 1..Len(requests) /\ Len(requests) \in Nat /\ Len(requests) <= MaxTasks
    BY <1>3 DEF DataOK
  <2> QED
    BY <1>5, <2>1, WorkspaceAssumption
<1>7. /\ r \in [task : 1..MaxTasks, owner : DOMAIN users, project : DOMAIN projects]
      /\ r.task = t /\ r.owner = call[th].user /\ r.project = call[th].project
  BY <1>5, <1>6
<1> HIDE DEF r
<1>8. DataOK'
  BY <1>1, <1>3, <1>7 DEF DataOK, accounts, files
<1>9. Grows
  BY <1>1, <1>3, DataFacts DEF Grows, accounts, files
<1>10. KnowsUser(th)' /\ KnowsInput(th)' /\ KnowsTask(th)'
  <2>1. KnowsUser(th)' /\ KnowsInput(th)'
    BY <1>1, <1>2, <1>3
       DEF KnowsUser, KnowsInput, Identified, Endpoints, Creating, accounts, files
  <2>2. r \in tasks' /\ r.task = call'[th].task /\ r.owner = call'[th].user
    BY <1>1, <1>2, <1>7
  <2>3. KnowsTask(th)'
    BY <1>1, <1>2, <1>5, <2>2 DEF KnowsTask
  <2> QED
    BY <2>1, <2>3
<1>11. Apart'
  <2>1. uploads' = uploads
    BY <1>1 DEF files
  <2>2. \A o \in Threads : pc'[o] = "upload_row" =>
          \A u \in uploads' : u.asset # call'[o].input
    BY <1>2, <2>1 DEF IInv, Apart
  <2>3. \A o \in Threads : pc'[o] = "create_row" =>
          \A row \in tasks' : row.task # call'[o].task
    BY <1>1, <1>2, <1>7 DEF IInv, Apart
  <2>4. \A x, o \in Threads : x # o /\ pc'[x] = "upload_row" /\ pc'[o] = "upload_row" =>
          call'[x].input # call'[o].input
    BY <1>2 DEF IInv, Apart
  <2>5. \A x, o \in Threads : x # o /\ pc'[x] = "create_row" /\ pc'[o] = "create_row" =>
          call'[x].task # call'[o].task
    BY <1>2 DEF IInv, Apart
  <2> QED
    BY <2>2, <2>3, <2>4, <2>5 DEF Apart
<1>12. AccountsWhole'
  BY <1>1, AccountsKept DEF IInv, accounts
<1>13. TasksStayHome'
  <2>1. \A row \in tasks' :
          /\ projects'[row.project] = row.owner
          /\ row.project = requests'[row.task].project
          /\ requests'[row.task].input # 0 =>
               [asset |-> requests'[row.task].input, owner |-> row.owner] \in uploads'
    BY <1>1, <1>5, <1>7 DEF IInv, TasksStayHome, accounts, files
  <2>2. \A answer \in seen' :
          \E row \in tasks' : row.task = answer[2] /\ row.owner = issued'[answer[1]].user
    BY <1>1 DEF IInv, TasksStayHome, accounts
  <2> QED
    BY <2>1, <2>2 DEF TasksStayHome
<1>14. RowsHaveFiles'
  <2>1. \A id \in jobs' : \E row \in tasks' : row.task = id
    BY <1>1 DEF IInv, RowsHaveFiles
  <2>2. \A row \in tasks' : row.task \in DOMAIN requests'
    BY <1>1, <1>5, <1>7 DEF IInv, RowsHaveFiles
  <2>3. \A row, other \in tasks' : row.task = other.task => row = other
    BY <1>1, <1>4, <1>7 DEF IInv, RowsHaveFiles
  <2>4. /\ \A u \in uploads' : u.asset \in 1..uploadFiles'
        /\ \A u, v \in uploads' : u.asset = v.asset => u = v
    BY <1>1 DEF IInv, RowsHaveFiles, files
  <2> QED
    BY <2>1, <2>2, <2>3, <2>4 DEF RowsHaveFiles
<1> QED
  BY <1>2, <1>8, <1>9, <1>10, <1>11, <1>12, <1>13, <1>14, Adds

(* A request is answered about tasks of its own user.                       *)
LEMMA Answers ==
    ASSUME IInv, NEW th \in Threads, Answer(th), pc[th] \in Identified,
           NEW T, \A t \in T : \E row \in tasks : row.task = t /\ row.owner = call[th].user,
           seen' = seen \cup {<<call[th].token, t>> : t \in T},
           UNCHANGED <<accounts, files, requests, tasks>>,
           jobs' \subseteq jobs \cup T
    PROVE  IInv'
<1>1. /\ ControlOK' /\ LocalsOK' /\ pc'[th] = "idle"
      /\ \A o \in Threads \ {th} : pc'[o] = pc[o] /\ call'[o] = call[o]
  BY AnswerEffect, TypeSplit DEF IInv
<1>2. DataOK /\ KnowsUser(th)
  BY TypeSplit DEF IInv, Knows
<1>3. call[th].token \in DOMAIN issued /\ issued[call[th].token].user = call[th].user
  BY <1>2 DEF KnowsUser
<1>4. T \subseteq 1..MaxTasks
  BY <1>2 DEF DataOK
<1>5. DataOK'
  <2>1. seen' \subseteq (DOMAIN issued') \X (1..MaxTasks)
    <3>1. issued' = issued
      BY DEF accounts
    <3>2. seen \subseteq (DOMAIN issued) \X (1..MaxTasks)
      BY <1>2 DEF DataOK
    <3>3. \A t \in T : <<call[th].token, t>> \in (DOMAIN issued) \X (1..MaxTasks)
      BY <1>3, <1>4
    <3> QED
      BY <3>1, <3>2, <3>3
  <2>2. jobs' \subseteq 1..MaxTasks
    BY <1>2, <1>4 DEF DataOK
  <2> QED
    BY <1>2, <2>1, <2>2 DEF DataOK, accounts, files
<1>6. Grows
  BY <1>2, DataFacts DEF Grows, accounts, files
<1>7. KnowsUser(th)' /\ KnowsInput(th)' /\ KnowsTask(th)'
  BY <1>1, IdleKnows
<1>8. Apart'
  BY <1>1, StillApart DEF IInv, files
<1>9. AccountsWhole'
  BY AccountsKept DEF IInv, accounts
<1>10. TasksStayHome'
  <2>1. \A row \in tasks' :
          /\ projects'[row.project] = row.owner
          /\ row.project = requests'[row.task].project
          /\ requests'[row.task].input # 0 =>
               [asset |-> requests'[row.task].input, owner |-> row.owner] \in uploads'
    BY DEF IInv, TasksStayHome, accounts, files
  <2>2. \A answer \in seen' :
          \E row \in tasks' : row.task = answer[2] /\ row.owner = issued'[answer[1]].user
    <3> SUFFICES ASSUME NEW answer \in seen'
                 PROVE  \E row \in tasks : row.task = answer[2] /\ row.owner = issued[answer[1]].user
      BY DEF accounts
    <3>1. CASE answer \in seen
      BY <3>1 DEF IInv, TasksStayHome
    <3>2. CASE \E t \in T : answer = <<call[th].token, t>>
      BY <3>2, <1>3
    <3> QED
      BY <3>1, <3>2
  <2> QED
    BY <2>1, <2>2 DEF TasksStayHome
<1>11. RowsHaveFiles'
  <2>1. \A id \in jobs' : \E row \in tasks' : row.task = id
    BY DEF IInv, RowsHaveFiles
  <2> QED
    BY <2>1 DEF IInv, RowsHaveFiles, files
<1> QED
  BY <1>1, <1>5, <1>6, <1>7, <1>8, <1>9, <1>10, <1>11, Adds

LEMMA SubmitStep ==
    ASSUME IInv, NEW th \in Threads, Submit(th)
    PROVE  IInv'
<1> DEFINE T == {call[th].task}
<1>1. /\ pc[th] \in Identified /\ Answer(th) /\ jobs' \subseteq jobs \cup T
      /\ UNCHANGED <<accounts, files, requests, tasks>>
  BY DEF Submit, Identified, Creating
<1>2. seen' = seen \cup {<<call[th].token, t>> : t \in T}
  BY DEF Submit
<1>3. \A t \in T : \E row \in tasks : row.task = t /\ row.owner = call[th].user
  BY DEF Submit, IInv, Knows, KnowsTask
<1> HIDE DEF T
<1> QED
  BY <1>1, <1>2, <1>3, Answers

LEMMA ActOnTaskStep ==
    ASSUME IInv, NEW th \in Threads, ActOnTask(th)
    PROVE  IInv'
<1> DEFINE T == {call[th].task}
<1>1. /\ pc[th] \in Identified /\ Answer(th) /\ jobs' \subseteq jobs \cup T
      /\ UNCHANGED <<accounts, files, requests, tasks>>
  BY DEF ActOnTask, Identified
<1>2. seen' = seen \cup {<<call[th].token, t>> : t \in T}
  BY DEF ActOnTask
<1>3. \A t \in T : \E row \in tasks : row.task = t /\ row.owner = call[th].user
  BY DEF ActOnTask, IInv, Knows, KnowsTask
<1> HIDE DEF T
<1> QED
  BY <1>1, <1>2, <1>3, Answers

LEMMA ListTasksStep ==
    ASSUME IInv, NEW th \in Threads, ListTasks(th)
    PROVE  IInv'
<1> DEFINE of == {r \in tasks : /\ r.owner = call[th].user
                                /\ call[th].project \in {0, r.project}}
           T == {r.task : r \in of}
<1>1. /\ pc[th] \in Identified /\ Answer(th) /\ jobs' \subseteq jobs \cup T
      /\ UNCHANGED <<accounts, files, requests, tasks>>
  BY DEF ListTasks, Identified
<1>2. seen' = seen \cup {<<call[th].token, t>> : t \in T}
  BY DEF ListTasks
<1>3. \A t \in T : \E row \in tasks : row.task = t /\ row.owner = call[th].user
  OBVIOUS
<1> HIDE DEF T
<1> QED
  BY <1>1, <1>2, <1>3, Answers

LEMMA CrashStep ==
    ASSUME IInv, Crash
    PROVE  IInv'
<1>1. Kept /\ pc' = [th \in Threads |-> "idle"] /\ call' = [th \in Threads |-> NoCall]
  BY DEF Crash, Kept
<1>2. DataOK' /\ AccountsWhole' /\ TasksStayHome' /\ RowsHaveFiles'
  BY <1>1, KeptRest, TypeSplit DEF IInv
<1>3. ControlOK' /\ LocalsOK'
  BY <1>1, NoCallTyped DEF ControlOK, LocalsOK, Labels
<1>4. Knows'
  BY <1>1, IdleKnows DEF Knows
<1>5. Apart'
  BY <1>1 DEF Apart
<1> QED
  BY <1>2, <1>3, <1>4, <1>5, TypeSplitNext DEF IInv

-----------------------------------------------------------------------------
LEMMA IInvInit == Init => IInv
<1> SUFFICES ASSUME Init PROVE IInv
  OBVIOUS
<1> USE DEF Init
<1>1. DataOK
  BY WorkspaceAssumption DEF DataOK
<1>2. ControlOK /\ LocalsOK
  BY NoCallTyped DEF ControlOK, LocalsOK, Labels
<1>3. Knows
  BY DEF Knows, KnowsUser, KnowsInput, KnowsTask, Identified, Endpoints, Creating
<1>4. Apart
  BY DEF Apart
<1>5. AccountsWhole /\ TasksStayHome /\ RowsHaveFiles
  BY DEF AccountsWhole, TasksStayHome, RowsHaveFiles
<1> QED
  BY <1>1, <1>2, <1>3, <1>4, <1>5, TypeSplit DEF IInv

LEMMA AccountSteps ==
    ASSUME IInv, NEW th \in Threads, AccountStep(th)
    PROVE  IInv'
<1>1. ASSUME NEW email \in Emails, NEW password \in Passwords,
             Register(th, email, password) \/ Login(th, email, password)
      PROVE  IInv'
  BY <1>1, RegisterStep, LoginStep
<1>2. CASE ReadUser(th) \/ InsertSession(th) \/ CreateProject(th)
  BY <1>2, ReadUserStep, InsertSessionStep, CreateProjectStep
<1>3. ASSUME NEW k \in live, Logout(th, k)
      PROVE  IInv'
  BY <1>3, SessionEnds DEF Logout
<1>4. ASSUME NEW k \in live, NEW endpoint \in Endpoints, Identify(th, k, endpoint)
      PROVE  IInv'
  BY <1>4, IdentifyStep
<1> QED
  BY <1>1, <1>2, <1>3, <1>4 DEF AccountStep

LEMMA TaskSteps ==
    ASSUME IInv, NEW th \in Threads, TaskStep(th)
    PROVE  IInv'
BY WriteUploadStep, InsertUploadStep, CheckProjectStep, ListProjectStep, ResolveInputStep,
   CreateTaskStep, CreateTaskRowStep, SubmitStep, ListTasksStep, AuthorizeStep, ActOnTaskStep
   DEF TaskStep

LEMMA StutterStep ==
    ASSUME IInv, UNCHANGED vars
    PROVE  IInv'
<1> USE DEF vars
<1>1. Kept
  BY DEF Kept
<1>2. DataOK' /\ AccountsWhole' /\ TasksStayHome' /\ RowsHaveFiles'
  BY <1>1, KeptRest, TypeSplit DEF IInv
<1>3. ControlOK' /\ LocalsOK'
  BY TypeSplit DEF IInv, ControlOK, LocalsOK
<1>4. Knows'
  BY <1>1, KeptGrows, StillKnows, TypeSplit DEF IInv, Knows, Stays
<1>5. Apart'
  BY DEF IInv, Apart, files, taskVars
<1> QED
  BY <1>2, <1>3, <1>4, <1>5, TypeSplitNext DEF IInv

LEMMA IInvStep == IInv /\ [Next]_vars => IInv'
<1> SUFFICES ASSUME IInv, [Next]_vars PROVE IInv'
  OBVIOUS
<1>1. ASSUME NEW th \in Threads, AccountStep(th) \/ TaskStep(th)
      PROVE  IInv'
  BY <1>1, AccountSteps, TaskSteps
<1>2. ASSUME NEW k \in live, Expire(k)
      PROVE  IInv'
  BY <1>2, SessionEnds DEF Expire
<1> QED
  BY <1>1, <1>2, CrashStep, StutterStep DEF Next

(* The invariant is inductive: types, what threads know of rows that other  *)
(* threads may be adding to, and which rows they still have to write.       *)
THEOREM Invariance == Spec => []IInv
BY IInvInit, IInvStep, PTL DEF Spec

(* Every variable stays typed (auth.py, asset_store.py, api.py).            *)
THEOREM TypeCorrect == Spec => []TypeOK
<1>1. IInv => TypeOK
  BY DEF IInv
<1> QED
  BY <1>1, Invariance, PTL

(* However registrations and logins interleave and wherever they are cut    *)
(* short: one user per e-mail, each with a project, and sessions only for   *)
(* the right password (AuthService.register, AuthService.login).            *)
THEOREM WholeAccounts == Spec => []AccountsWhole
<1>1. IInv => AccountsWhole
  BY DEF IInv
<1> QED
  BY <1>1, Invariance, PTL

(* Checks made in earlier transactions still hold when the task is created  *)
(* or answered about (create_task, protect_task, list_tasks).               *)
THEOREM TasksAtHome == Spec => []TasksStayHome
<1>1. IInv => TasksStayHome
  BY DEF IInv
<1> QED
  BY <1>1, Invariance, PTL

(* Rows never refer to a file or row that a crash kept from being written   *)
(* (TaskStore.create, TaskExecutor.submit, AssetStore.save).                *)
THEOREM NoDanglingRow == Spec => []RowsHaveFiles
<1>1. IInv => RowsHaveFiles
  BY DEF IInv
<1> QED
  BY <1>1, Invariance, PTL
=============================================================================
