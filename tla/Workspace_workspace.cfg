SPECIFICATION Spec
CONSTANTS
    Threads = {th1, th2}
    Emails = {e1, e2}
    Passwords = {w1, w2}
    MaxUsers = 2
    MaxProjects = 2
    MaxSessions = 2
    MaxUploads = 1
    MaxTasks = 1
SYMMETRY NameSymmetry
INVARIANTS
    TypeOK
    AccountsWhole
    TasksStayHome
    RowsHaveFiles
CHECK_DEADLOCK FALSE
