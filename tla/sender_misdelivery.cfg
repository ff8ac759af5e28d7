SPECIFICATION Spec
CONSTANTS
    self = self
    r1 = r1
    bad = bad
    m1 = m1
    m2 = m2
    Dest <- SelfAndOne
    Self = self
    Bad = bad
    Msg <- TwoMails
    NoMsg = none
    Rcpts <- RcptsMulti
    Gen = {1, 2}
    MaxId = 2
    MaxCopies = 1
    Events = {}
INVARIANTS
    RightRecipient
