\* One queue, the days, and one fair sender with its durable context.
SPECIFICATION SettleSpec
CONSTANTS
    r1 = r1  r2 = r2  fixed = fixed  recurring = recurring
    c1 = c1  w1 = w1  p1 = p1  s1 = s1
    t1 = t1  e1 = e1  l1 = l1  l2 = l2  d1 = d1
    NoRequest = NoRequest
    Request = {r1, r2}
    Workday = {recurring}
    Recurring = {recurring}
    Caller = {c1}
    Worker = {}
    Planner = {p1}
    Edition = {0, 1}
    Dated <- BothDated
    Covers <- BothCovers
    Integrated = FALSE
    MaxAttempts = 1
    MaxImpact = 1
    MaxJobs = 2
    MaxSyncFaults = 0
INVARIANTS JustifiedIsBacked
PROPERTIES JobsLeave AbsencesReachDays AbsencesSettle ReminderSettles
    PlansSettle
CHECK_DEADLOCK FALSE
