\* With -c; -a 2 -l 1; -a 2 -d with one address.  ^C at any moment.
SPECIFICATION Spec
CONSTANTS
    a1 = a1
    a2 = a2
    none = none
    Owners = {a1, a2}
    Unsolved = none
    NoAddr = NoAddr
    NoBlock = NoBlock
    NoLimit = NoLimit
    MaxBlocks = 3
    MaxTxs = 3
    MaxInputs = 2
    MaxOutputs = 2
    Options <- MCOptions
    Reward = 2
SYMMETRY Symmetry
INVARIANTS
    TypeOK
    BalanceIsLedger
    AddrsAreOwn
    ReportIsLedger
    InterruptIsPrompt
    TopBalances
    CutoffIsHonoured
    UnspentAreListed
