SPECIFICATION FairSpec
CONSTANTS
    poller = poller
    handler = handler
    b1 = b1
    b2 = b2
    c1 = c1
    c2 = c2
    c3 = c3
    Nil = Nil
    Nobody = Nobody
    Callers <- MCCallers
    Reconnectors <- OneReconnectorId
    Conns <- TwoConns
    Deadlined <- MCDeadlined
    Cancellable <- MCCancellable
    Sizes <- Fitting
    AuthAnswers <- Accepting
    ExecAnswers <- AllExec
    MaxCalls = 1
    InitialBackoff = 1
    MaxBackoff = 2
PROPERTIES
    EveryCallReturns
    ReconnectorFinishes
