SPECIFICATION Spec
CONSTANTS
 D = 1
 K = 2
 Win = 2
 LocSize = 2
 RingSize = 4
 TickMod = 12
 StallMax = 1
 ReadCap = 2
 MaxTick = 1
 MaxNet = 2
 MaxPresses = 1
 MaxFaults = 1
 MayLeave = {"host"}
INVARIANTS TypeOK RecordsImmutable NoFalseAlarm
PROPERTIES WatermarkMonotone
CHECK_DEADLOCK FALSE
