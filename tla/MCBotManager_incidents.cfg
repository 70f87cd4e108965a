CONSTANTS
    Loop = {"loop1", "loop2"}
    Bot = {b1, b2}
    NoBot = NoBot
    NoLoop = NoLoop
    Threshold = 2
    Exposure = {"none"}
    Happens = {"start", "stopTimed", "fail", "reject", "read", "mode", "unclosed"}
SPECIFICATION Spec
INVARIANTS RunningHasLoop
SYMMETRY BotSymmetry
CHECK_DEADLOCK FALSE
