\* The inbox with three lanes and two contents, and three turns with two limits.
SPECIFICATION IntakeSpec
CONSTANTS
    w1 = w1  w2 = w2  w3 = w3  h1 = h1  h2 = h2
    s1 = s1  s2 = s2  s3 = s3  e1 = e1  e2 = e2  l1 = l1  l2 = l2
    company = company
    Sid = {s1}
    Hash = {h1, h2}
    Worker = {w1, w2, w3}
    MaxAttempts = 2
    MaxDeliveries = 3
SYMMETRY Interchangeable
INVARIANTS
    OneOutcomeTold
    ConfirmedIsRecorded
    TurnsCompeteWithinLimits
PROPERTIES
    ClosedStaysClosed
CHECK_DEADLOCK FALSE
