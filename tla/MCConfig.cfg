CONSTANTS
    Types <- MCTypes
    Networks <- MCNetworks
    ConfigList <- MCConfigList
    TableNetworks <- MCTable
    Rewirings <- MCRewirings
    FaultyNetworks <- MCFaulty
    EC_MAXEEPBUF = 320
    EC_MAXSM = 4
    EC_MAXNAME = 2
    EC_MAXEEPDO = 4
    EC_SOE_MAX_DRIVES = 8
    EC_SOE_MAXMAPPING = 64
    EC_MAXSLAVE = 6
    MaxFaults = 1
    MaxScans = 2
    Width = 16
    SyncDelay = 10
    Cycles = {4}
    Shifts = {0, 1}
    Nows = {3, 9}
    MaxSync = 2
SPECIFICATION Spec
INVARIANT SiiIsOwn
INVARIANT MappingIsOwn
INVARIANT TreeIsRight
INVARIANT SignalsInPhase
CHECK_DEADLOCK FALSE
