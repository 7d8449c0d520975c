SPECIFICATION PagesSpec
CONSTANTS
    Views <- MCViews
    MaxClosing = 2
    v1 = v1
    v2 = v2
    v3 = v3
    v4 = v4
    None = None
    e1 = e1
    u1 = u1
    m1 = m1
    ExportTasks <- MCExports
    UploadTasks <- MCUploads
    MailTasks <- MCMails
    NoTask = NoTask
    MaxTasks = 1
    MaxTaskRequests = 2
    MaxEventId = 2
    RowsPerPage = 1
    MaxAnswers = 2
    MaxChoices = 2
    MaxOthers = 1
    Administrators <- MCAdministrators
    Devices <- MCDevices
    FirmwareVersions <- MCVersions
    ServiceNames <- MCServices
    RevisionNames <- MCRevisions
    ServiceArchives <- MCArchives
    Absent = Absent
    MaxFirmware = 3
    MaxEntries = 9
    MaxAsked = 3
    MaxFailures = 1
INVARIANTS
    NothingIsLeft
    ResultsAreKept
    SentAsShown
    FirmwareHasFile
    DefaultCanBePulled
PROPERTIES
    ExportsArrive
CHECK_DEADLOCK FALSE
