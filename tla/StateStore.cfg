SPECIFICATION Spec
CONSTANTS
    location = location
    head = head
    wield = wield
    r1 = r1
    r2 = r2
    h1 = h1
    RowFields <- OneColumn
    Slots <- TwoSlots
    Writers <- TwoWriters
    Readers <- OneReader
    MaxDeltas = 3
SYMMETRY StoreSymmetry
INVARIANTS StoredIsKept SnapshotsMoveForward EquipmentHasRow
