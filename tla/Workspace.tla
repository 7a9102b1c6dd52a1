----------------------------- MODULE Workspace -----------------------------
(***************************************************************************)
(* Accounts, projects, uploads and the ownership of tasks: auth.py,        *)
(* asset_store.py and the endpoints of api.py with authentication enabled. *)
(* A request thread identifies its session first and acts later, one       *)
(* transaction or file at a time, while other threads log out, register,   *)
(* upload; the process may be killed between any two steps.                *)
(*                                                                         *)
(* Users, projects, sessions, uploads and tasks are numbers, given in the  *)
(* order they are made (the code draws random identifiers).  A request     *)
(* that is refused at once, with nothing done, is no step.                 *)
(***************************************************************************)
EXTENDS Naturals, Sequences

CONSTANTS
    Threads, Emails, Passwords,
    MaxUsers, MaxProjects, MaxSessions, MaxUploads, MaxTasks       \* bounds

ASSUME WorkspaceAssumption ==
    {MaxUsers, MaxProjects, MaxSessions, MaxUploads, MaxTasks} \subseteq Nat

VARIABLES
    users,             \* users[u]: [email, password]
    projects,          \* projects[p]: its owner
    issued,            \* issued[k]: the user of session k, and what was asked
    live,              \* sessions neither deleted nor expired
    uploadFiles,       \* how many files AssetStore has written
    uploads,           \* rows of AssetStore: [asset, owner]
    requests,          \* requests[t]: [project, input] of request.json
    tasks,             \* rows of the task metadata: [task, owner, project]
    jobs,              \* tasks in the queue
    seen,              \* <<k, t>>: session k was answered about task t
    pc, call           \* where each thread is, and its locals

accounts == <<users, projects, issued, live>>
files == <<uploadFiles, uploads>>
taskVars == <<requests, tasks, jobs, seen>>
vars == <<accounts, files, taskVars, pc, call>>

NoCall == [user |-> 0, token |-> 0, project |-> 0, input |-> 0, task |-> 0,
           email |-> "", password |-> ""]

Endpoints == {"create_project", "upload", "create_task", "list_tasks", "task"}
Inside == {"login", "session", "upload_row", "input", "create", "create_row", "submit",
           "list", "act"}

(* Types; numbers are given without gaps, and an idle thread has no locals. *)
TypeOK ==
    /\ users \in Seq([email : Emails, password : Passwords]) /\ Len(users) <= MaxUsers
    /\ projects \in Seq(DOMAIN users) /\ Len(projects) <= MaxProjects
    /\ issued \in Seq([user : DOMAIN users, email : Emails, password : Passwords])
    /\ live \subseteq DOMAIN issued
    /\ uploadFiles \in 0..MaxUploads
    /\ uploads \subseteq [asset : 1..MaxUploads, owner : DOMAIN users]
    /\ requests \in Seq([project : DOMAIN projects, input : 0..MaxUploads])
    /\ Len(requests) <= MaxTasks
    /\ tasks \subseteq [task : 1..MaxTasks, owner : DOMAIN users, project : DOMAIN projects]
    /\ jobs \subseteq 1..MaxTasks
    /\ seen \subseteq (DOMAIN issued) \X (1..MaxTasks)
    /\ pc \in [Threads -> {"idle"} \cup Endpoints \cup Inside]
    /\ \A th \in Threads : pc[th] = "idle" => call[th] = NoCall

Init ==
    /\ users = <<>> /\ projects = <<>> /\ issued = <<>> /\ live = {}
    /\ uploadFiles = 0 /\ uploads = {}
    /\ requests = <<>> /\ tasks = {} /\ jobs = {} /\ seen = {}
    /\ pc = [th \in Threads |-> "idle"]
    /\ call = [th \in Threads |-> NoCall]

-----------------------------------------------------------------------------
Goto(th, next, locals) ==
    /\ pc' = [pc EXCEPT ![th] = next]
    /\ call' = [call EXCEPT ![th] = locals]

Answer(th) == Goto(th, "idle", NoCall)

(* Slip: a taken e-mail is no obstacle.                                     *)
RegisterAnyway(th, email, password) ==
    /\ pc[th] = "idle"
    /\ Len(users) < MaxUsers /\ Len(projects) < MaxProjects
    /\ users' = Append(users, [email |-> email, password |-> password])
    /\ projects' = Append(projects, Len(users) + 1)
    /\ Goto(th, "login", [NoCall EXCEPT !.email = email, !.password = password])
    /\ UNCHANGED <<issued, live, files, taskVars>>

(* POST /auth/register: a user and a first project in one transaction, or,  *)
(* when the e-mail is taken, nothing; then a login of its own.              *)
Register(th, email, password) ==
    /\ pc[th] = "idle"
    /\ Len(users) < MaxUsers /\ Len(projects) < MaxProjects
    /\ \A u \in DOMAIN users : users[u].email # email
    /\ users' = Append(users, [email |-> email, password |-> password])
    /\ projects' = Append(projects, Len(users) + 1)
    /\ Goto(th, "login", [NoCall EXCEPT !.email = email, !.password = password])
    /\ UNCHANGED <<issued, live, files, taskVars>>

(* POST /auth/login                                                         *)
Login(th, email, password) ==
    /\ pc[th] = "idle"
    /\ Goto(th, "login", [NoCall EXCEPT !.email = email, !.password = password])
    /\ UNCHANGED <<accounts, files, taskVars>>

(* The row of the e-mail, if its password is the one given.                 *)
KnownUsers(email, password) ==
    {u \in DOMAIN users : users[u] = [email |-> email, password |-> password]}

ReadUser(th) ==
    /\ pc[th] = "login"
    /\ LET found == KnownUsers(call[th].email, call[th].password) IN
       IF found = {} THEN Answer(th)
       ELSE \E u \in found : Goto(th, "session", [call[th] EXCEPT !.user = u])
    /\ UNCHANGED <<accounts, files, taskVars>>

(* Slip: the cookie names a session that was never committed.               *)
SessionUncommitted(th) ==
    /\ pc[th] = "session" /\ Len(issued) < MaxSessions
    /\ live' = live \cup {Len(issued) + 1}
    /\ Answer(th)
    /\ UNCHANGED <<users, projects, issued, files, taskVars>>

InsertSession(th) ==
    /\ pc[th] = "session" /\ Len(issued) < MaxSessions
    /\ issued' = Append(issued, [user |-> call[th].user, email |-> call[th].email,
                                 password |-> call[th].password])
    /\ live' = live \cup {Len(issued) + 1}
    /\ Answer(th)
    /\ UNCHANGED <<users, projects, files, taskVars>>

(* POST /auth/logout                                                        *)
Logout(th, k) ==
    /\ pc[th] = "idle" /\ k \in live
    /\ live' = live \ {k}
    /\ UNCHANGED <<users, projects, issued, files, taskVars, pc, call>>

(* session_hours go by.                                                     *)
Expire(k) ==
    /\ k \in live
    /\ live' = live \ {k}
    /\ UNCHANGED <<users, projects, issued, files, taskVars, pc, call>>

(* identity: a request with cookie k arrives at an endpoint.                *)
Identify(th, k, endpoint) ==
    /\ pc[th] = "idle" /\ k \in live
    /\ Goto(th, endpoint, [NoCall EXCEPT !.user = issued[k].user, !.token = k])
    /\ UNCHANGED <<accounts, files, taskVars>>

-----------------------------------------------------------------------------
(* POST /projects                                                           *)
CreateProject(th) ==
    /\ pc[th] = "create_project" /\ Len(projects) < MaxProjects
    /\ projects' = Append(projects, call[th].user)
    /\ Answer(th)
    /\ UNCHANGED <<users, issued, live, files, taskVars>>

Upload == uploadFiles + 1

(* Slip: the row first.                                                     *)
RegisterUpload(th) ==
    /\ pc[th] = "upload" /\ Upload <= MaxUploads
    /\ uploads' = uploads \cup {[asset |-> Upload, owner |-> call[th].user]}
    /\ Goto(th, "upload_row", [call[th] EXCEPT !.input = Upload])
    /\ UNCHANGED <<accounts, uploadFiles, taskVars>>

(* POST /assets: AssetStore.save writes the file, then the row.             *)
WriteUpload(th) ==
    /\ pc[th] = "upload" /\ Upload <= MaxUploads
    /\ uploadFiles' = Upload
    /\ Goto(th, "upload_row", [call[th] EXCEPT !.input = Upload])
    /\ UNCHANGED <<accounts, uploads, taskVars>>

InsertUpload(th) ==
    /\ pc[th] = "upload_row"
    /\ uploads' = uploads \cup {[asset |-> call[th].input, owner |-> call[th].user]}
    /\ Answer(th)
    /\ UNCHANGED <<accounts, uploadFiles, taskVars>>

-----------------------------------------------------------------------------
(* AuthService.owns_project                                                 *)
OwnsProject(user, p) == p \in DOMAIN projects /\ projects[p] = user

(* AssetStore.resolve: a row of the owner, and the file.                    *)
Resolves(user, a) == [asset |-> a, owner |-> user] \in uploads /\ a \in 1..uploadFiles

(* Slip: it is enough that the project exists.                              *)
TakeProject(th, p) ==
    /\ pc[th] = "create_task"
    /\ Goto(th, "input", [call[th] EXCEPT !.project = p])
    /\ UNCHANGED <<accounts, files, taskVars>>

(* POST /tasks: project and input first; another user's are not found.      *)
CheckProject(th, p) ==
    /\ pc[th] = "create_task"
    /\ IF OwnsProject(call[th].user, p)
       THEN Goto(th, "input", [call[th] EXCEPT !.project = p])
       ELSE Answer(th)
    /\ UNCHANGED <<accounts, files, taskVars>>

ResolveInput(th, a) ==
    /\ pc[th] = "input"
    /\ IF a = 0 \/ Resolves(call[th].user, a)
       THEN Goto(th, "create", [call[th] EXCEPT !.input = a])
       ELSE Answer(th)
    /\ UNCHANGED <<accounts, files, taskVars>>

(* TaskStore.create: the directory with request.json, then the row.         *)
CreateTask(th) ==
    /\ pc[th] = "create" /\ Len(requests) < MaxTasks
    /\ requests' = Append(requests, [project |-> call[th].project, input |-> call[th].input])
    /\ Goto(th, "create_row", [call[th] EXCEPT !.task = Len(requests) + 1])
    /\ UNCHANGED <<accounts, files, tasks, jobs, seen>>

CreateTaskRow(th) ==
    /\ pc[th] = "create_row"
    /\ tasks' = tasks \cup
         {[task |-> call[th].task, owner |-> call[th].user, project |-> call[th].project]}
    /\ Goto(th, "submit", call[th])
    /\ UNCHANGED <<accounts, files, requests, jobs, seen>>

(* TaskExecutor.submit, and the answer names the task.                      *)
Submit(th) ==
    /\ pc[th] = "submit"
    /\ jobs' = jobs \cup {call[th].task}
    /\ seen' = seen \cup {<<call[th].token, call[th].task>>}
    /\ Answer(th)
    /\ UNCHANGED <<accounts, files, requests, tasks>>

(* GET /tasks, of one project or of all.                                    *)
ListProject(th, p) ==
    /\ pc[th] = "list_tasks"
    /\ IF p = 0 \/ OwnsProject(call[th].user, p)
       THEN Goto(th, "list", [call[th] EXCEPT !.project = p])
       ELSE Answer(th)
    /\ UNCHANGED <<accounts, files, taskVars>>

ListTasks(th) ==
    /\ pc[th] = "list"
    /\ LET of == {r \in tasks : /\ r.owner = call[th].user
                                /\ call[th].project \in {0, r.project}}
       IN  seen' = seen \cup {<<call[th].token, r.task>> : r \in of}
    /\ Answer(th)
    /\ UNCHANGED <<accounts, files, requests, tasks, jobs>>

(* protect_task, then what the endpoint does: read, cancel or review.       *)
Authorize(th, t) ==
    /\ pc[th] = "task"
    /\ IF \E r \in tasks : r.task = t /\ r.owner = call[th].user
       THEN Goto(th, "act", [call[th] EXCEPT !.task = t])
       ELSE Answer(th)
    /\ UNCHANGED <<accounts, files, taskVars>>

ActOnTask(th) ==
    /\ pc[th] = "act"
    /\ seen' = seen \cup {<<call[th].token, call[th].task>>}
    /\ Answer(th)
    /\ UNCHANGED <<accounts, files, requests, tasks, jobs>>

(* The process is killed; files and rows stay.                              *)
Crash ==
    /\ \E th \in Threads : pc[th] # "idle"
    /\ pc' = [th \in Threads |-> "idle"]
    /\ call' = [th \in Threads |-> NoCall]
    /\ UNCHANGED <<accounts, files, taskVars>>

AccountStep(th) ==
    \/ \E email \in Emails, password \in Passwords :
         Register(th, email, password) \/ Login(th, email, password)
    \/ ReadUser(th) \/ InsertSession(th)
    \/ \E k \in live : Logout(th, k) \/ \E endpoint \in Endpoints : Identify(th, k, endpoint)
    \/ CreateProject(th)

TaskStep(th) ==
    \/ WriteUpload(th) \/ InsertUpload(th)
    \/ \E p \in DOMAIN projects : CheckProject(th, p)
    \/ \E p \in {0} \cup DOMAIN projects : ListProject(th, p)
    \/ \E a \in 0..uploadFiles : ResolveInput(th, a)
    \/ CreateTask(th) \/ CreateTaskRow(th) \/ Submit(th) \/ ListTasks(th)
    \/ \E t \in DOMAIN requests : Authorize(th, t)
    \/ ActOnTask(th)

Next ==
    \/ \E th \in Threads : AccountStep(th) \/ TaskStep(th)
    \/ \E k \in live : Expire(k)
    \/ Crash

Spec == Init /\ [][Next]_vars

-----------------------------------------------------------------------------
(* Concurrent registrations and logins, cut short anywhere, leave one user  *)
(* per e-mail, each with a project, and no session that was not asked for   *)
(* with the password of its user (register, login).                         *)
AccountsWhole ==
    /\ \A u, v \in DOMAIN users : users[u].email = users[v].email => u = v
    /\ \A u \in DOMAIN users : \E p \in DOMAIN projects : projects[p] = u
    /\ \A k \in DOMAIN issued :
         users[issued[k].user] = [email |-> issued[k].email, password |-> issued[k].password]

(* Although a request checks its session, its project and its input in      *)
(* transactions of their own: a task is of its owner's project and reads an *)
(* upload of its owner, and a session is only ever answered about tasks of  *)
(* its user (create_task, protect_task, list; test_auth_isolation.py).      *)
TasksStayHome ==
    /\ \A row \in tasks :
         /\ projects[row.project] = row.owner
         /\ row.project = requests[row.task].project
         /\ requests[row.task].input # 0 =>
              [asset |-> requests[row.task].input, owner |-> row.owner] \in uploads
    /\ \A answer \in seen :
         \E row \in tasks : row.task = answer[2] /\ row.owner = issued[answer[1]].user

(* Wherever a request is cut short, a row refers to a file that is there: a *)
(* task in the queue to its row, a row to its directory, an upload to its   *)
(* picture; and there is one row for each (create, submit, save).           *)
RowsHaveFiles ==
    /\ \A t \in jobs : \E row \in tasks : row.task = t
    /\ \A row \in tasks : row.task \in DOMAIN requests
    /\ \A u \in uploads : u.asset \in 1..uploadFiles
    /\ \A row, other \in tasks : row.task = other.task => row = other
    /\ \A u, v \in uploads : u.asset = v.asset => u = v
=============================================================================
