SPECIFICATION Spec
CONSTANTS
 REGIONS <- MCREGIONS
 Source <- MCSource
 Tables <- MCTables
 Fill = 255
INVARIANTS TypeOK AsDeclared NoWolf
CHECK_DEADLOCK FALSE
