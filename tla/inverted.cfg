\* Two tasks record in the other order than they took the time.
CONSTANTS
    Recordings <- Inverted
    MaxGap = 4
    FrameCap = 2
    Speeds = {1, 2, 4}
    MaxLoops = 3
    MaxHidden = 4
SPECIFICATION Spec
INVARIANTS EndIsTheEnd
