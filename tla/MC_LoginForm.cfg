CONSTANTS
    Emails <- MCEmails
    Passwords <- MCPasswords
    Names <- MCNames
    Providers <- MCProviders
    EmailProbes <- MCEmailProbes
    NoRequest = NoRequest
    MaxTimers = 2
SPECIFICATION Spec
INVARIANTS
    TypeOK
    EmailPatternMatchesReference
    SubmittedFormValid
    FieldErrorsCurrent
PROPERTIES
    LoginReachesHome
