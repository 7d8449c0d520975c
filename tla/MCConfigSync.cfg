CONSTANTS
    n1 = n1
    n2 = n2
    i1 = i1
    i2 = i2
    pw = pw
    px = px
    ca1 = ca1
    c1 = c1
    c2 = c2
    k1 = k1
    k2 = k2
    k3 = k3
    p1 = p1
    p2 = p2
    p3 = p3
    s1 = s1
    s2 = s2
    None = None
    Unset = Unset
    Partial = Partial
    Nets <- MCNets
    Plains <- MCPlains
    Settings <- MCSettings
    Unstorable <- MCUnstorable
    Passwords <- MCPasswords
    CAs <- MCCAs
    Certs <- MCCerts
    Keys <- MCKeys
    Phrases <- MCPhrases
    Clients <- MCClients
    ServerCerts <- MCServerCerts
    InitialNet = n1
    InitialPlain = i1
    InitialServerCert = s1
    MaxEdits = 2
    MaxFaults = 1
    MaxQueue = 1
SPECIFICATION FairSpec
INVARIANTS
    NoDrift
    RestartResumes
    WorkerSurvives
    ArchiveApplies
PROPERTIES
    Converges
CHECK_DEADLOCK FALSE
