CONSTANTS
    Products <- MCLiveProducts
    Price <- MCPrice
    DetailCatalog <- MCDetailCatalog
    DetailFallback = 1
    MaxQty = 2
    MinQty <- MCMinQty
    TypedValues <- MCTypedValues
    NaN = NaN
    MaxMounts = 2
SPECIFICATION Spec
PROPERTIES
    ClearsOnlyReviewedCart
