CONSTANTS
    CardChars <- MCCardChars
    Chars <- MCChars
    EditedFields <- MCAllFields
SPECIFICATION Spec
INVARIANTS
    TypeOK
    CardNumberGrouped
    DigitFieldsShaped
    ConfirmationShowsLastDigits
