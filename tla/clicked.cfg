\* The presenter clicks after the confirmation, before the balances arrive.
CONSTANTS
    Recordings <- Clicked
    MaxGap = 4
    FrameCap = 2
    Speeds = {1, 2, 4}
    MaxLoops = 3
    MaxHidden = 4
SPECIFICATION Spec
INVARIANTS EndsWithBalances
