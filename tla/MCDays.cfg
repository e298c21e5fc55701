\* The rows of a workday, the queue of absences, and the days they excuse.
SPECIFICATION DaysSpec
CONSTANTS
    l1 = l1  l2 = l2  d1 = d1  d2 = d2  t1 = t1  t2 = t2  e1 = e1
    r1 = r1  fixed = fixed
    c1 = c1  c2 = c2  w1 = w1  w2 = w2
    Assignment = {t1}
    EmployeeOf <- OneSeat
    Lane = {l1, l2}
    Editor = {d1, d2}
    Multi = FALSE
    Event = {"edit", "resave", "status"}
    Kind = {"CANCEL", "RESTORE", "TIME_OVERRIDE"}
    MaxEdits = 2
    MaxVersion = 3
    MaxFaults = 1
    NoRequest = NoRequest
    Request = {r1}
    Workday = {fixed}
    Recurring = {}
    Caller = {c1, c2}
    Worker = {w1, w2}
    Planner = {}
    Edition = {0}
    Dated <- OneDated
    Covers <- OneCovers
    Integrated = TRUE
    MaxAttempts = 2
    MaxImpact = 2
    MaxJobs = 1
    MaxSyncFaults = 2
SYMMETRY Symmetry
CHECK_DEADLOCK FALSE
INVARIANTS ClosedMeansReconciled SyncIsRetried
PROPERTIES VersionsRise
