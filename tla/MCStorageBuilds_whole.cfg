CONSTANTS
    f1 = f1
    f2 = f2
    f3 = f3
    Uids = {u1, u2}
    Values = {f1, f2, f3}
    SizeOf <- MCSizeOf
    FileUids = {u1, u2}
    FileValues = {f1, f2}
    FileSizeOf <- MCFileSizeOf
    Faults = {"set", "commit", "erase"}
    FileFaults = {"fopen", "fwrite", "fclose", "rename", "remove"}
    Slots = 5
    SlotCells = 2
    MagicLength = 1
    HeaderLength = 2
    PlaceLimit = 10
    FlashUids = {2, 6, 11}
    FlashFiles = {f2, f3}
    CellsOf <- MCCellsOf
    FlashFaults = {}
SPECIFICATION BuildsSpec
INVARIANT FlashKeepsFiles
