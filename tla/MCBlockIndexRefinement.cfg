\* Refinement with liveness: one record more than hashes.
CONSTANTS
    NbHashes = 3
    MaxBlocks = 4
    NbFiles = 1
    NoBlock = NoBlock
SPECIFICATION FairSpec
INVARIANTS
    ChainInv
PROPERTIES
    ImplementsLongestChain
