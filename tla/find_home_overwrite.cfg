SPECIFICATION Spec
CONSTANTS
    Memories = {m1, m2}
    Procs = {p1, p2}
    CrashAt = {}
SYMMETRY Symmetric
INVARIANT NothingErased
