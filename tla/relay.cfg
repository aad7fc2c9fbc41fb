SPECIFICATION Spec
CONSTANTS
 Client = {1, 2, 3}
 NoClient = NoClient
 TickMod = 4
 Keep = 2
 Setup <- MCSetup
 MaxClients = 3
 MaxPerIP = 1
 Backlog = 2
 Name = {"PLAYER"}
 Digits = {1, 2}
 Extra = {"BYE", "PING"}
 MaxInputs = 2
INVARIANTS TypeOK Matched InOrder OneMatchAtATime Announced
CHECK_DEADLOCK FALSE
