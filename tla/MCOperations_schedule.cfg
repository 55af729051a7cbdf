CONSTANTS
    c1 = c1
    c2 = c2
    k1 = k1
    k2 = k2
    h1 = h1
    h2 = h2
    a = a
    b = b
    CipherObjects <- TwoCiphers
    Keys <- TwoKeys
    Algs = {"CBC_NO_PADDING"}
    BlockSize = 2
    MaxMessage = 2
    HashObjects = {}
    Fragments = {a}
    MaxFragments = 1
    HeapSize = 2
SPECIFICATION Spec
INVARIANT FinishedIsMessage
