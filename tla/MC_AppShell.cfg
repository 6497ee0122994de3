CONSTANTS
    MaxQty = 3
SPECIFICATION AppSpec
INVARIANTS
    AppTypeOK
    AppUniqueLines
PROPERTIES
    AppImplementsBag
