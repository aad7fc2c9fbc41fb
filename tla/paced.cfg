SPECIFICATION PacedSpec
CONSTANTS
 D = 2
 K = 4
 Win = 3
 LocSize = 4
 RingSize = 8
 TickMod = 256
 StallMax = 15
 ReadCap = 31
 MaxTick = 9
 MaxNet = 12
 MaxPresses = 0
 MaxFaults = 0
 MayLeave = {"guest"}
 Slack = 5
 HostTrip = {3, 5}
 GuestTrip = {3, 5}
 HostFetch = {2}
 GuestFetch = {1, 2}
INVARIANTS RacingAsOne WindowCovers NobodyLeft
CHECK_DEADLOCK FALSE
