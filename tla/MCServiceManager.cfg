CONSTANTS
    s1 = s1
    s12 = s12
    r1 = r1
    r2 = r2
    n1 = n1
    n2 = n2
    None = None
    Services <- MCServices
    Revisions <- MCRevisions
    Choices <- MCChoices
    CatchAll <- MCCatchAll
    NameIn <- MCSubstring
    Subnets <- MCSubnets
    IPs <- MCIPs
    MaxAssigns = 2
    MaxCrashes = 1
    MaxFaults = 1
    MaxRestarts = 1
SPECIFICATION FairSpec
INVARIANTS
    ManagedContainers
    NoStaleRules
PROPERTIES
    Converges
CHECK_DEADLOCK FALSE
