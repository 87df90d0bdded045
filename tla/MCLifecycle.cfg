SPECIFICATION Spec
CONSTANTS
    s1 = s1
    s2 = s2
    a = a
    b = b
    Servers <- MCServers
    Order <- MCOrder
    Names <- MCNames
    Configs <- MCConfigs
    MaxStarts = 2
    MaxRows = 3
INVARIANTS
    TypeOK
    DesiredIsWanted
    SeededOnce
    SeedIsWhole
PROPERTIES
    MetricStopsOnRequest
