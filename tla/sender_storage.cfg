SPECIFICATION Spec
CONSTANTS
    self = self
    r1 = r1
    bad = bad
    m1 = m1
    m2 = m2
    Dest <- SelfAndOne
    Self = self
    Bad = bad
    Msg <- TwoMails
    NoMsg = none
    Rcpts <- RcptsSingle
    Gen = {1, 2}
    MaxId = 2
    MaxCopies = 1
    Events = {"storage"}
INVARIANTS
    TypeOK
    NoMailLost
    RightRecipient
    QueueInv
\* The manager chain ends with the first failing QueueListDestinations.
CHECK_DEADLOCK FALSE
