CONSTANTS
    CardChars <- MCLetters
    Chars <- MCChars
    EditedFields <- MCCardOnly
SPECIFICATION Spec
INVARIANTS
    CardNumberDigits
