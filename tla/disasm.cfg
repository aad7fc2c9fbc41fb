SPECIFICATION FairSpec
CONSTANTS
 ByteMod = 8
 ROM_BASE = 8
 ROM_END = 14
 OPS <- MCOPS
 JSR = 4
 JMP = 5
 TERMINAL = {0, 5}
 Named = {8, 11}
 BIAS <- MCBIAS
 Near = 2
 Vectors = 12
 VectorBytes = 2
 Images <- MCImages
 Maps <- MCMaps
INVARIANTS TypeOK OnlyReachable AllReachable MapIsTrue Exact
PROPERTIES Ends
CHECK_DEADLOCK FALSE
