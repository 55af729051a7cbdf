CONSTANTS
    Uids = {k1}
    f1 = f1
    f2 = f2
    f3 = f3
    Values = {f1, f2, f3}
    SizeOf <- MCSizeOf
    Faults = {"set"}
SPECIFICATION Spec
PROPERTY FailedStoreLeavesNothing
