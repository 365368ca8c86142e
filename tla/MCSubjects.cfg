CONSTANTS
    Codes = {k1}
    IntranetCodes = {k1}
    Titles = {t1, t2, ti}
    IntranetTitle = ti
    Requests = {r1, r2, r3}
    NoRow = NoRow
    NoJob = NoJob
SPECIFICATION Spec
SYMMETRY Symmetry
INVARIANTS TypeOK SavedIsTrue
PROPERTY CatalogueSpec
