SPECIFICATION Spec
CONSTANTS
    M = 32
    Iss <- Numbers
    Bytes <- Nothing
    MSS = 1
    Rbuf = 1
    Sbuf = 2
    OooMax = 1
    Cwnds = {1, 2}
    SynRetries = 1
    MaxRetries = 2
    MaxNet = 2
    MaxFaults = 1
    Aborters = {}
    Prompt = TRUE
INVARIANT OrderlyClose
CHECK_DEADLOCK FALSE
