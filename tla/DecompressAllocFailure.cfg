SPECIFICATION FairSpec
CONSTANTS
    RcInitSize = 2
    InBufSize = 5
    OutBufSize = 2
    FooterSize = 2
    MaxRuns = 1
    Files <- OneMarked
PROPERTY
    RunsReturn
