\* Back-dating and skew scaled down; a sender dies anywhere but unrecorded.
CONSTANTS
    Backdate = 2
    Slack = 1
    Start = 2
    MaxTime = 6
    MayDieUnrecorded = FALSE
SPECIFICATION Spec
INVARIANTS IInv RequestInWindow ReplyInWindow
