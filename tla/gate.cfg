SPECIFICATION Spec
CONSTANTS
 D = 1
 K = 1
 Win = 2
 LocSize = 2
 RingSize = 4
 TickMod = 12
 StallMax = 1
 ReadCap = 2
 MaxTick = 3
 MaxNet = 2
 MaxPresses = 0
 MaxFaults = 0
 MayLeave = {}
INVARIANTS SkewBound WrapInvisible RingHolds
CHECK_DEADLOCK FALSE
