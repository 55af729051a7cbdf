CONSTANTS
    c1 = c1
    c2 = c2
    k1 = k1
    k2 = k2
    h1 = h1
    h2 = h2
    a = a
    b = b
    CipherObjects <- OneCipher
    Keys <- TwoKeys
    Algs <- Algorithms
    BlockSize = 3
    MaxMessage = 6
    HashObjects = {h1, h2}
    Fragments = {a, b}
    MaxFragments = 1
    HeapSize = 3
SPECIFICATION HeldSpec
SYMMETRY MCSymmetry
INVARIANTS
    TypeOK
    UnprocessedFits
    WholeMessageFinishes
    NothingLost
    CbcFinishedIsMessage
    CtrExactOnWholeBlocks
    OwnState
    DigestIsRightOrMissing
