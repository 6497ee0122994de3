CONSTANTS
    Products <- MCProducts
    Price <- MCPrice
    DetailCatalog <- MCDetailCatalog
    DetailFallback = 1
    MaxQty = 3
    MinQty <- MCMinQty
    TypedValues <- MCTypedValues
    NaN = NaN
INIT CartInit
NEXT CartNext
INVARIANTS
    CartTypeOK
