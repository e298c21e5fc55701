\* Four leased queues: faults, leases that expire, overlapping workers.
SPECIFICATION QueuesSpec
CONSTANTS
    n1 = n1  w1 = w1  w2 = w2
    c1 = c1  p1 = p1  p2 = p2  a1 = a1  r1 = r1
    Note = {n1}
    Informational = {n1}
    Worker = {w1, w2}
    Batch = 2
    MaxAttempts = 2
    MaxFaults = 1
    MaxLapses = 2
    NoOne = NoOne
    Evaluator = {e1}
    MaxEvaluations = 2
    MaxChanges = 2
    MaxEdits = 1
    MaxEvaluationLapses = 1
    MaxEvaluationFaults = 1
INVARIANTS AcceptedIsNotDenied QuietMeansCurrent
PROPERTIES AlertsAreOneEffect NoSendAfterCutover AlertsDrain
    CrossingsAreAlerted DeletionsEnd RecipientsAreAnswered
CHECK_DEADLOCK FALSE
