SPECIFICATION FairSpec
CONSTANTS
 Players = {0, 1, 2}
 MaxUpdates = 2
 MaxTrouble = 2
 MaxOdd = 1
 MaxSignals = 2
INVARIANTS TypeOK NoLostUpdate OfflineLast
PROPERTIES KeptHonest ShutsDown
CHECK_DEADLOCK FALSE
