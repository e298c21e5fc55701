\* Two senders of one reminder; two replies to it.
SPECIFICATION RemindersSpec
CONSTANTS
    l1 = l1  l2 = l2  l3 = l3  r1 = r1  r2 = r2
    Lane = {l1, l2, l3}
    Replier = {r1, r2}
    ContextEnabled = TRUE
    Event = {"reschedule", "unassign", "attend", "start", "end", "lapse", "crash"}
    MaxAttempts = 2
    MaxVersion = 2
    Ceiling = 3
    MaxFaults = 2
SYMMETRY Symmetry
INVARIANTS EveryMessageIsCounted OverlapOnlyWhenStale OpenQuestionWasAsked AcceptedOnce
PROPERTY AnswersAreFinal
CHECK_DEADLOCK FALSE
