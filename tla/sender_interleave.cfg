SPECIFICATION Spec
CONSTANTS
    self = self
    r1 = r1
    bad = bad
    m1 = m1
    m2 = m2
    Dest <- SelfAndOne
    Self = self
    Bad = bad
    Msg <- TwoMails
    NoMsg = none
    Rcpts <- RcptsFailing
    Gen = {1, 2}
    MaxId = 2
    MaxCopies = 2
    Events = {"expire"}
INVARIANTS
    SingleRunner
    NoDuplicateCopy
PROPERTIES
    MovesOnlySettled
