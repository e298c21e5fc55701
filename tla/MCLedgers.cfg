CONSTANTS
    s1 = s1
    e1 = e1
    Company = company
    Sid = {s1}
    Employee = {e1}
    EmployeeOf <- OneTurn
    Worker = {w1, w2}
    NDocs = 2
    Policy <- Changing
    MaxDay = 2
    MaxTakes = 2
    DaysPerWeek = 2
    r1 = r1  r2 = r2  m1 = m1  c1 = c1
    annual = annual  study = study  medical = medical
    NoMessage = NoMessage  NoRequest = NoRequest
    Request = {r1, r2}
    Type = {annual, study, medical}
    Deducting = {annual, study}
    Automatic = {study, medical}
    NeedsFile = {medical}
    Date = {1, 2}
    YearOf <- Yearly
    Message = {m1}
    Desk = {w1, w2}
    Command = {c1}
    Start = 1
    LedgerFrom = {TRUE, FALSE}
    MaxVersion = 2
    MaxHolidays = 1
SPECIFICATION LedgersSpec
SYMMETRY Interchangeable
INVARIANTS
    CountersMatchLedger
    SendersAreAdmitted
    WithinLimits
    DaysAreHeld
    AbsencesAreDisjoint
PROPERTIES
    RefundOnlyBeforeEffect
CHECK_DEADLOCK FALSE
