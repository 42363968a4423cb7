\* With -a 2.
SPECIFICATION Spec
CONSTANTS
    a1 = a1
    a2 = a2
    none = none
    Owners = {a1, a2}
    Unsolved = none
    NoAddr = NoAddr
    NoBlock = NoBlock
    NoLimit = NoLimit
    MaxBlocks = 2
    MaxTxs = 3
    MaxInputs = 2
    MaxOutputs = 2
    Options <- MCCutoff
    Reward = 2
INVARIANT OnlyOlderBlocks
