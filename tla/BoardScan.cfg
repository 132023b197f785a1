SPECIFICATION Spec
CONSTANTS
 Torn=Torn
 Null=Null
 StaleAfter=1
 WritesEnabled=TRUE
 Symbol={1}
 Request={1}
 AlertTail=1
 Pool={1}
 MaxTime=3
 MaxCycles=2
 MaxBriefs=1
 MaxForms=0
 MaxPosts=0
 MaxBuilds=0
 MaxProofs=0
 MaxRenders=0
 MaxAsks=1
 MaxFaults=0
INVARIANTS ScanIsReal
CHECK_DEADLOCK FALSE
