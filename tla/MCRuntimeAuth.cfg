SPECIFICATION Spec
CONSTANTS
    Accounts = {work, home}
    Saved = {work, home}
    Old = {home}
    Restored = {home, "failing"}
    MaxSessions = 2
    MaxVersions = 3
    MaxCalls = 2
    MaxUpsets = 1
INVARIANTS
    AccountsAgree
PROPERTIES
    TurnsAreAuthenticated
    VersionsNeverGoBack
CHECK_DEADLOCK FALSE
