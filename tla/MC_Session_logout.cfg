CONSTANTS
    Emails = {a, b}
    NoUser = NoUser
    MaxMounts = 3
    MaxReloads = 2
    MaxTimers = 2
SPECIFICATION Spec
PROPERTIES
    LogoutSticks
