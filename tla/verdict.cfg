SPECIFICATION Spec
CONSTANTS
 Client = {host, guest}
 NoClient = NoClient
 TickMod = 10
 Keep = 2
 D = 1
 MaxTick = 11
INVARIANTS LapExact NoFalseMismatch KeptUntilAnswered
CHECK_DEADLOCK FALSE
