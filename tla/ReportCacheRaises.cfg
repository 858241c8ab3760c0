SPECIFICATION MCSpec
CONSTANTS
    Procs = {p1}
    p1 = p1  k1 = k1  k2 = k2  m1 = m1  m2 = m2  r1 = r1  r2 = r2
    Keys = {k1}
    Metas = {m1, m2}
    Reports = {r1, r2}
    TempNames = {t1}
    Miss = Miss  Stored = Stored  Raised = Raised
    None = None  Truncated = Truncated  Undecodable = Undecodable
    MetaOf <- MCMetaOf
    EditForms <- MCEditForms
    MaxEdits = 1
    MaxCrashes = 0
    MaxStuck = 1
PROPERTIES DamagedIsAMiss
