SPECIFICATION FairSpec
CONSTANTS
    self = self
    r1 = r1
    bad = bad
    m1 = m1
    m2 = m2
    Dest <- SelfAndOne
    Self = self
    Bad = bad
    Msg <- OneMail
    NoMsg = none
    Rcpts <- RcptsBoth
    Gen = {1, 2}
    MaxId = 1
    MaxCopies = 1
    Events = {"user", "expire"}
PROPERTIES
    OutboxDrains
    RetriedEventually
    DeletedMailGoes
