\* tx: the sums and the number of the transactions printed.
SPECIFICATION CmdSpec
CONSTANTS
    MaxTxs = 4
    MaxInputs = 2
    MaxOutputs = 2
    MaxRepeats = 1
    NoTxo = NoTxo
    NoCutoff = NoCutoff
    BaseReward = 4
    HalvingInterval = 3
    Word = 256
    Threshold = 4
    Sessions <- MCDumps
INVARIANT
    DumpHasAllDetails
