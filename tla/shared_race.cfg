SPECIFICATION PromptSpec
CONSTANTS
 D = 1
 K = 2
 Win = 2
 LocSize = 2
 RingSize = 4
 TickMod = 12
 StallMax = 1
 ReadCap = 2
 MaxTick = 5
 MaxNet = 4
 MaxPresses = 0
 MaxFaults = 0
 MayLeave = {}
INVARIANTS SameInputs RingCorrect
PROPERTIES OneRace RaceGoesOn
CHECK_DEADLOCK FALSE
