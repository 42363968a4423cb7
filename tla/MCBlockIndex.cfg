\* Safety: four hashes, so that two branches of two blocks compete, and four
\* records in two files, in every order, with duplicates and orphans.
CONSTANTS
    NbHashes = 4
    MaxBlocks = 4
    NbFiles = 2
    NoBlock = NoBlock
SPECIFICATION Spec
INVARIANTS
    TypeOK
    HeightIsDepth
    ConnectedHaveHeights
    TrailsAreOffChain
    NoNullDereference
    ParsedInOrder
    MaximumIsKept
    CrashOnlyWithoutGenesis
PROPERTIES
    HeightsAreFinal
