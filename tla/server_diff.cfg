SPECIFICATION DiffSpec
CONSTANTS
 Client = {1, 2, 3, 4, 5, 6, 7, 8, 9, 10, 11, 12, 13, 14, 15, 16, 17, 18}
 NoClient = NoClient
 TickMod = 256
 Keep = 4
 Setup <- MCSetup
 MaxClients = 64
 MaxPerIP = 8
 Backlog = 100
 Name = {"NAME"}
 Digits = {1, 2}
 Extra = {}
 MaxInputs = 0
 Scenarios = {"lobby", "pairing", "dupname", "relay", "crcevict", "drops", "framing", "limits"}
INVARIANTS SameTranscript SameVerdict EveryoneListed
