SPECIFICATION FairSpec
CONSTANTS
    inbox = inbox
    outbox = outbox
    work = work
    c1 = c1
    m1 = m1
    m2 = m2
    Box <- Names
    Inbox = inbox
    Outbox = outbox
    Protected <- Defaults
    NoBox = NoBox
    Flag = {"Seen", "Deleted"}
    Msg <- TwoMails
    NoMsg = NoMsg
    Size <- Sizes
    Header = 1
    Threshold = 2
    Limits = {2}
    Default = 4
    Client = {c1}
    App = App
    MaxId = 2
    MaxRows = 3
    MaxArrivals = 1
    MaxOps = 2
    Events = {"storage", "crash"}
INVARIANTS
    TypeOK
    StoredMailKept
PROPERTIES
    OnlyFlaggedMailGoes
    ToldTheCount
