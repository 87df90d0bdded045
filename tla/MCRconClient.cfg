SPECIFICATION Spec
CONSTANTS
    poller = poller
    handler = handler
    b1 = b1
    b2 = b2
    c1 = c1
    c2 = c2
    c3 = c3
    Nil = Nil
    Nobody = Nobody
    Callers <- MCCallers
    Reconnectors <- TwoReconnectorIds
    Conns <- MCConns
    Deadlined <- MCDeadlined
    Cancellable <- MCCancellable
    Sizes <- AllSizes
    AuthAnswers <- AllAuth
    ExecAnswers <- AllExec
    MaxCalls = 1
    InitialBackoff = 1
    MaxBackoff = 3
INVARIANTS
    TypeOK
    LockCoversExchange
    ReplyMatchesRequest
    QuietConnection
    OneReconnector
    NoLeakedSocket
    ConnectedImpliesAuthenticated
PROPERTIES
    ImplementsService
SYMMETRY Symmetry
