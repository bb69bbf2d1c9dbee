SPECIFICATION FairSpec
CONSTANTS
    RcInitSize = 2
    InBufSize = 5
    OutBufSize = 2
    FooterSize = 2
    MaxRuns = 2
    Files <- AllFiles
INVARIANTS
    TypeOK
    AccountsAgree
    CallsHaveRoom
    OkMeansComplete
    ErrorsHaveCauses
    NothingLeaked
PROPERTIES
    WorkingRunsReturn
