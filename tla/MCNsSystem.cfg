SPECIFICATION MCSpec
CONSTANTS
    app = app
    c2 = c2
    c3 = c3
    mailbox = mailbox
    Nobody = Nobody
    App = app
    MailboxThread = mailbox
    Threads = {app, c2, c3, mailbox}
    Clients = {app, c2, c3}
    Builds = {"trustzone", "mailbox", "thread"}
    Settings <- MCSettings
    NumSlots = 2
    MaxCalls = 1
INVARIANTS
    TypeOK
    BootObjectsCreated
    OneInside
    PermitMeansSlot
    AnsweredOwnRequest
    CleanBetweenCalls
    StatisticsBounded
PROPERTIES
    EveryCallReturns
    StarvedOnlyByOthers
CHECK_DEADLOCK FALSE
