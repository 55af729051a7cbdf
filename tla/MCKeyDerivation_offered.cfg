CONSTANTS
    HashLength = 1
    LastBlock = 1
    Lengths = {0, 1}
    PskMaxSize = 1
    ReadLengths = {1}
SPECIFICATION Spec
INVARIANT KeysComeFromKeys
