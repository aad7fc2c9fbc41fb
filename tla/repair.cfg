SPECIFICATION RepairSpec
CONSTANTS
 D = 2
 K = 4
 Win = 3
 LocSize = 4
 RingSize = 8
 TickMod = 256
 StallMax = 15
 ReadCap = 31
 MaxTick = 14
 MaxNet = 17
 MaxPresses = 0
 MaxFaults = 0
 MayLeave = {}
 Slack = 5
 HostTrip = {1, 3, 5}
 GuestTrip = {1, 3, 5}
 HostFetch = {1}
 GuestFetch = {2}
 Few = 8
INVARIANTS Repaired
CHECK_DEADLOCK FALSE
