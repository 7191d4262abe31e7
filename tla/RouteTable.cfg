CONSTANTS
    Order <- MCOrder
    Prefix <- MCPrefix
    Catalog <- MCCatalog
    Admins = {a1}
SPECIFICATION FairTableSpec
INVARIANTS
    RoutesAreFirstWins
PROPERTIES
    EntriesSurviveFailure
    CatalogConverges
    CloseReturns
