\* Without options: a cell is used again.
SPECIFICATION Spec
CONSTANTS
    a1 = a1
    a2 = a2
    none = none
    Owners = {a1, a2, none}
    Unsolved = none
    NoAddr = NoAddr
    NoBlock = NoBlock
    NoLimit = NoLimit
    MaxBlocks = 2
    MaxTxs = 3
    MaxInputs = 2
    MaxOutputs = 2
    Options <- MCPlain
    Reward = 2
INVARIANT LastTimeOutIsOwn
