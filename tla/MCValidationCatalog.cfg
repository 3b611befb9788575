CONSTANTS
    NoId = NoId
    Names = {1, 2}
    NoExt = NoExt
    Contracts <- MCContracts
SPECIFICATION Spec
INVARIANTS
    RecursionBounded
    CatalogComplete
    RefusedForCause
    LoneRulesEnforced
