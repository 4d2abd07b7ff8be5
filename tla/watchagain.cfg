\* The payment of replay, watched twice or dragged back, one INVARIANT at a time.
CONSTANTS
    Recordings <- Quiet
    MaxGap = 4
    FrameCap = 2
    Speeds = {1, 2, 4}
    MaxLoops = 3
    MaxHidden = 4
SPECIFICATION Spec
INVARIANTS
    PickedUpThatMoment
    CaptionFits
