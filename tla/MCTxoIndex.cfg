\* Every chain of four transactions of up to two inputs and outputs,
\* one of them possibly a repeated coinbase.
CONSTANTS
    MaxTxs = 4
    MaxInputs = 2
    MaxOutputs = 2
    MaxRepeats = 1
    NoTxo = NoTxo
SPECIFICATION Spec
INVARIANTS
    TypeOK
    IndexIsCoins
    CleanChainIsParsed
    EdgeIsGenuine
    KeysAreIntact
    NoSharedMemory
    NoLeak
    FreeArraysAreNull
PROPERTIES
    ImplementsUtxoSet
