CONSTANTS
    Bytes = {"a", "b"}
    KeyStrings <- MCKeys
    ValueStrings <- MCVals
    Absent = Absent
    Fingerprints = {0, 3, 7}
    InitialSlots = 2
    MaxLoadNum = 9
    MaxLoadDen = 10
    MinGarbage = 3
    MaxOffset = 9
SPECIFICATION PartSpec
INVARIANTS LookupAgrees SnapshotAgrees ArenaBounded
