CONSTANTS
    Uids = {k1, k2}
    f1 = f1
    f2 = f2
    f3 = f3
    Values = {f1, f2, f3}
    SizeOf <- MCSizeOf
    Faults = {"open", "set", "erase", "read", "buffer", "tear"}
SPECIFICATION Spec
INVARIANTS
    SavedOnFlash
