CONSTANTS
    Terms <- MCTerms
    NoCategory = NoCategory
INIT Init
NEXT Next
INVARIANTS
    TypeOK
    QueryMatchesReference
