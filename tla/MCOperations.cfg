\* Marks, documents, vacancies, reports and deletions: handlers that interleave.
SPECIFICATION OperationsSpec
CONSTANTS
    m1 = m1  m2 = m2  m3 = m3
    d1 = d1  o1 = o1
    Receipt = {d1, d2}  Request = {q1, q2}  Operator = {o1}
    MaxVersion = 3  MaxChanges = 1  MaxFaults = 1
    Employee = {tina, a, b}  Titular = {tina}  Manager = {g1}  Worker = {w1, w2}
    MaxRequests = 3  MaxReports = 3  MaxOffice = 1  Nobody = Nobody
    Recipient = {r1}  Ticker = {w1}  ReportAdmin = {a1, a2}  NoSender = NoSender
    MaxReportAttempts = 2  MaxCommands = 2  MaxSettings = 1  MaxReportFaults = 0
    MaxLapses = 2
    Company = {c1, c2}  Dormant = {c2}  Protected = {}  Purger = {p1, p2}
    Admin = {a1, a2}  MaxAttempts = 3  MaxPurgeFaults = 2  MaxMoves = 4  Null = Null
    Day = {d1, d2}
    Message = {m1, m2, m3}
    MaxFails = 2
    MaxEvents = 1
    NoOne = NoOne
    Office = Office
SYMMETRY Interchangeable
INVARIANTS OneMarkPerMessage RepliesKeepTheHeadcount SentMeansMailed
PROPERTIES MarksEndTheirSession FirstExitStands
    DocumentsAreOneEffect ButtonsKeepTheirMeaning
    TombstoneMeansEmpty
CHECK_DEADLOCK FALSE
