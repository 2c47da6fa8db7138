SPECIFICATION AloneSpec
CONSTANTS
    Ids = {i1, i2}
    Contents = {c1, c2}
    Metas = {m1, m2}
    Procs = {p1}
    Ops = {"add", "update", "invalidate", "delete", "relate", "supersede", "backfill", "export", "import"}
    FkFlags = {TRUE}
    None = None
SYMMETRY Symmetric
CONSTRAINT ExportBound
INVARIANT TypeOK
INVARIANT EmbeddingFresh
INVARIANT ShadowComplete
INVARIANT NoGhostRow
PROPERTY DeleteCascades
PROPERTY MetadataKept
PROPERTY ImportRestores
PROPERTY RefinesLifecycle
