SPECIFICATION Spec
CONSTANTS
    RcInitSize = 2
    InBufSize = 7
    OutBufSize = 2
    FooterSize = 2
    MaxRuns = 2
    Files <- CutAfterGood
INVARIANT
    AcceptedOnItsOwnFooter
