SPECIFICATION Spec
CONSTANTS
    d1 = d1
    d2 = d2
    real = real
    Account <- MCAccount
    Demo <- MCDemo
    NoAccount = NoAccount
    DemoOnly = TRUE
    Login = NoAccount
    TTL = 2
    CallBound = 1
    MaxTime = 3
    MaxSeen = 5
    MaxRecords = 1
PROPERTIES
    ManifestModeIsCurrent
