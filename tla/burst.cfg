SPECIFICATION PacedSpec
CONSTANTS
 D = 2
 K = 4
 Win = 3
 LocSize = 4
 RingSize = 8
 TickMod = 256
 StallMax = 15
 ReadCap = 31
 MaxTick = 12
 MaxNet = 12
 MaxPresses = 0
 MaxFaults = 0
 MayLeave = {}
 Slack = 5
 HostTrip = {3}
 GuestTrip = {3, 12}
 HostFetch = {1}
 GuestFetch = {1}
INVARIANTS RacingAsOne
CHECK_DEADLOCK FALSE
