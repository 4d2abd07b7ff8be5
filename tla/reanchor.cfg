\* A sender is killed between publishing and recording it.
CONSTANTS
    Backdate = 2
    Slack = 1
    Start = 2
    MaxTime = 6
    MayDieUnrecorded = TRUE
SPECIFICATION Spec
INVARIANTS ReplyInWindow
