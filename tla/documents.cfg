SPECIFICATION Spec
CONSTANTS
    Docs = {d1}
    DraftDocs = {d1}
    Texts = {t1, t2}
    Items = {i1}
    MaxVersions = 1
    Restorers = {r1}
    MaxIds = 4
    None = None
SYMMETRY Symmetry
CHECK_DEADLOCK FALSE
INVARIANTS OneLatest HistoryMatches SearchFresh DeletedForGood
