CONSTANTS
    Loop = {"loop1", "loop2"}
    Bot = {b1, b2, b3}
    NoBot = NoBot
    NoLoop = NoLoop
    Threshold = 2
    Exposure = {"none", "intents", "positions"}
    Happens = {"start", "stop", "once", "mode", "heal", "edit", "unclosed"}
SPECIFICATION FairSpec
INVARIANTS SingleLoop CycleExclusive OneOpenBot NoCycleOnClosedBot
PROPERTIES LockReleased StopTakesEffect
CHECK_DEADLOCK FALSE
