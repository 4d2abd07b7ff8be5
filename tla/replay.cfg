\* A payment, and a story that was begun anew, watched at three speeds.
CONSTANTS
    Recordings <- Quiet
    MaxGap = 4
    FrameCap = 2
    Speeds = {1, 2, 4}
    MaxLoops = 3
    MaxHidden = 4
SPECIFICATION WatchedSpec
INVARIANTS NotTooFast ShowsThatMoment EndIsTheEnd EndsWithBalances
PROPERTIES NoLeap PlayEnds
