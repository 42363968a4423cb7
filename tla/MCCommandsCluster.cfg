\* closure: the cluster of an address that pays alone.
SPECIFICATION CmdSpec
CONSTANTS
    MaxTxs = 4
    MaxInputs = 2
    MaxOutputs = 2
    MaxRepeats = 1
    NoTxo = NoTxo
    NoCutoff = NoCutoff
    BaseReward = 4
    HalvingInterval = 2
    Word = 256
    Threshold = 4
    Sessions <- MCClosure
INVARIANT
    ListedWithItsCluster
