SPECIFICATION AloneSpec
CONSTANTS
    Ids = {i1, i2}
    Contents = {c1}
    Metas = {m1}
    Procs = {p1, p2}
    Ops = {"add", "invalidate", "delete", "relate", "supersede", "backfill"}
    FkFlags = {TRUE}
    None = None
SYMMETRY Symmetric
INVARIANT SourcesExist
INVARIANT ReopenRepairs
PROPERTY RefinesLifecycle
