SPECIFICATION FormsSpec
CONSTANTS
    ada = ada
    bob = bob
    d1 = d1
    d2 = d2
    None = None
    Unset = Unset
    ServiceChoices = {"dionaea", "cowrie"}
    AssignedAtFirst = {"dionaea"}
    KeptParts = {"endpoint"}
    ClearedParts = {}
    LooseParts = {"endpoint"}
    PemFiles = {"pem", "torn"}
    TornFiles = {"torn"}
    NoFile = None
    NotSent = Unset
    Fingerprint = Fingerprint
    MaxModels = 1
    MaxSensorForms = 2
    MaxChanges = 3
    MaxBoxes = 1
    MaxSensorAsks = 1
    AllFilters = {"noise", "scans"}
    FirstFilters = {"noise"}
    ChosenFields = {"classification"}
    TypedFields = {"source"}
    NoValue = None
    MaxConditions = 2
    MaxFilterForms = 2
    MaxFilterEdits = 2
    MaxFilterClicks = 1
    Users <- MCUsers
    Admin = ada
    Divisions <- MCDivisions
    MaxClicks = 3
    MaxAsks = 2
INVARIANTS
    ContactsAreMembers
    PasswordsAreAsked
    NothingIsMissing
PROPERTIES
    MembersStay
    OthersStayAssigned
    StoredAsSent
CHECK_DEADLOCK FALSE
