CONSTANTS
    Threads = {t1, t2}
    NoOne = NoOne
    Keys = {k1, k2}
    Payloads = {p1, p2}
    Buckets = {r1, r2}
    Phases = {f1, f2}
    MaxCalls = 5
SYMMETRY BancoSymmetry
SPECIFICATION Spec
INVARIANTS StructureSound BuscarWithinCall CountersRight
CHECK_DEADLOCK FALSE
