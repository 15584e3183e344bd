CONSTANTS
    c1 = c1
    c2 = c2
    n = n
    None = None
    Conns = {c1, c2}
    Speaks <- Backtest
    Names = {n}
    MaxClients = 1
    MaxQueries = 1
    Depth = 2
    Tidy = TRUE
    MaxIds = 2
    MaxStrays = 1
SPECIFICATION FairSpec
INVARIANTS
    FetchAttended
    NothingLeftBehind
    DurableFirst

    
    
CHECK_DEADLOCK FALSE
