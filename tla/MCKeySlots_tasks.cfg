CONSTANTS
    Tasks = {t1, t2}
    SlotCount = 2
    PersistentIds <- MCPersistentIds
    VolatileMin <- MCVolatileMin
    Materials = {m1, m2}
SPECIFICATION Spec
PROPERTY LockedSlotNotReset
SYMMETRY MCSymmetry
