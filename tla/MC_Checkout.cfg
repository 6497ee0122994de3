CONSTANTS
    Products <- MCLiveProducts
    Price <- MCPrice
    DetailCatalog <- MCDetailCatalog
    DetailFallback = 1
    MaxQty = 2
    MinQty <- MCMinQty
    TypedValues <- MCTypedValues
    NaN = NaN
    MaxMounts = 3
SPECIFICATION Spec
PROPERTIES
    PlacementReachesOrders
INVARIANTS
    TypeOK
    ReviewedFormsValid
    
