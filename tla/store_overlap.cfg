SPECIFICATION Spec
CONSTANTS
    m1 = m1
    m2 = m2
    Inbox = "INBOX"
    Outbox = "Outbox"
    Sent = "Sent"
    Box = {"INBOX", "Outbox", "Sent"}
    Msg <- TwoMails
    NoMsg = NoMsg
    Large <- TwoMails
    MaxId = 2
    MaxFaults = 0
    Events = {"overlap"}
INVARIANT NoForeignContent
CHECK_DEADLOCK FALSE
