CONSTANTS
    s1 = s1
    e1 = e1
    Company = company
    Sid = {s1}
    Employee = {e1}
    EmployeeOf <- OneTurn
    Worker = {w1, w2}
    NDocs = 2
    Policy <- StrictOnly
    MaxDay = 1
    MaxTakes = 2
    DaysPerWeek = 2
SPECIFICATION Spec
SYMMETRY Interchangeable
INVARIANT SentIsCounted
CHECK_DEADLOCK FALSE
