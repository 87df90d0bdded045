SPECIFICATION FairSpec
CONSTANTS
    s1 = s1
    p1 = p1
    r1 = r1
    v1 = v1
    v2 = v2
    v3 = v3
    v4 = v4
    f1 = f1
    Nil = Nil
    Servers <- MCServers
    Players <- MCPlayers
    Requests = {}
    Variables <- MCVariables
    Env <- MCEnv
    Files <- MCFiles
    Configs <- MCIntervals
    MaxMoments = 2
    MaxRotations = 0
INVARIANTS
    StatusWasTrue
PROPERTIES
    StatusMovesForward
    OutageIsShown
CHECK_DEADLOCK FALSE
