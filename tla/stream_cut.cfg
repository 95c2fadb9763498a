\* A body that ends inside an event.
SPECIFICATION OneServiceSpec
CONSTANTS
    Null = Null
    l1 = l1
    l2 = l2
    ip1 = ip1
    MaxEvents = 3
    MaxFailures = 4
    GiveUpAfter = 2
    Credentials = TRUE
    CutsBlocks = TRUE
    Version = "v4"
    Transactions = 2
    BatchSize = 1
    TransportAttempts = 2
    ReadAttempts = 2
    Loads = {l1, l2}
    Ips = {ip1}
    GLOBAL_LIMIT = 1
    PER_IP_LIMIT = 1
    REFRESH_LIMIT = 2
    WINDOW = 2
    requestTimeout = 1
    maxRetries = 1
    circuitFailureThreshold = 1
    circuitCooldown = 2
    quoteCacheTtl = 1
    maxQuoteAge = 1
    Skew = 1
    MaxTime = 4
    MaxCalls = 2
INVARIANT
    ResumeSkipsNothing
CHECK_DEADLOCK FALSE
