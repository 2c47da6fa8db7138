SPECIFICATION Spec
CONSTANTS
    Memories = {m1, m2, m3}
    Procs = {p1}
    CrashAt = {"init", "command"}
INVARIANT TypeOK
INVARIANT NothingErased
INVARIANT MigratedWhole
INVARIANT ConfigFirst
