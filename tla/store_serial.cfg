SPECIFICATION Spec
CONSTANTS
    m1 = m1
    m2 = m2
    Inbox = "INBOX"
    Outbox = "Outbox"
    Sent = "Sent"
    Box = {"INBOX", "Outbox", "Sent"}
    Msg <- TwoMails
    NoMsg = NoMsg
    Large <- TwoMails
    MaxId = 2
    MaxFaults = 1
    Events = {"storage", "crash"}
INVARIANTS
    TypeOK
    FileNamedAfterRow
    NoForeignContent
    NoContentLost
PROPERTY ImplementsShelf
CHECK_DEADLOCK FALSE
SYMMETRY MailSymmetry
