\* Each command on every clean chain of up to four transactions.
SPECIFICATION CmdSpec
CONSTANTS
    MaxTxs = 4
    MaxInputs = 2
    MaxOutputs = 2
    MaxRepeats = 1
    NoTxo = NoTxo
    NoCutoff = NoCutoff
    BaseReward = 4
    HalvingInterval = 2
    Word = 256
    Threshold = 4
    Sessions <- MCSessions
INVARIANTS
    PristineAreUnspent
    TaintIsDownstream
    StatisticsAreTrue
    RewardsAreMinted
    DumpIsComplete
    RowsAreConnected
    ClustersAreComponents
    TallyIsLedger
    FirstOfEachType
