SPECIFICATION Spec
CONSTANTS
    Names = {t, u, v}
    Schemas <- TwoColumns
    Literals <- SomeLiterals
    PageCapacity = 5
    KeyCapacity = 1
    CatalogCapacity = 5
    MaxPage = 5
    MaxRows = 3
    MinInt <- SmallestInt
SYMMETRY NameSymmetry
INVARIANTS
    TypeOK
    IndexAgreesWithScan
    QueriesNeverFail
    PagesOwnedOnce
    CatalogReadsBack
    FunctionsCallable
PROPERTIES
    RowsKept
