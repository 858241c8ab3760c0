SPECIFICATION MCSpec
CONSTANTS
    Procs = {p1, p2}
    p1 = p1  k1 = k1  k2 = k2  m1 = m1  m2 = m2  r1 = r1  r2 = r2
    Keys = {k1, k2}
    Metas = {m1, m2}
    Reports = {r1, r2}
    TempNames = {t1, t2, t3}
    Miss = Miss  Stored = Stored  Raised = Raised
    None = None  Truncated = Truncated  Undecodable = Undecodable
    MetaOf <- MCMetaOf
    EditForms <- MCEditFormsTwoKeys
    MaxEdits = 2
    MaxCrashes = 1
    MaxStuck = 1
INVARIANTS TypeOK HitIsPublished NeverTorn TempsRemoved
PROPERTIES EntriesPersist ImplementsAbstractCache CallsReturn
