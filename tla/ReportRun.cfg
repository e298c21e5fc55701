\* One tick, one recipient and one failed call.
SPECIFICATION ReportSpec
CONSTANTS
    Recipient = {r1}
    Ticker = {w1}
    ReportAdmin = {a1}
    MaxReportAttempts = 2
    MaxCommands = 1
    MaxSettings = 1
    MaxReportFaults = 1
    MaxLapses = 1
    NoSender = NoSender
INVARIANT DueGenerationIsClaimed
CHECK_DEADLOCK FALSE
