SPECIFICATION FairSpec
CONSTANTS
    s1 = s1
    p1 = p1
    r1 = r1
    v1 = v1
    v2 = v2
    v3 = v3
    v4 = v4
    f1 = f1
    Nil = Nil
    Servers <- MCServers
    Players <- MCPlayers
    Requests <- MCRequests
    Variables <- MCVariables
    Env <- MCEnv
    Files <- MCFiles
    Configs <- MCConfigs
    MaxMoments = 0
    MaxRotations = 1
INVARIANTS
    SecretsWereChecked
    RequestsAreCarriedOut
PROPERTIES
    SignalEndsProcess
CHECK_DEADLOCK FALSE
