SPECIFICATION FairSpec
CONSTANTS
    Calls = {c1}
    Browsers = {1, 2}
    Settings <- SettingsChecked
    Initial <- Pinned
    Candidates = 2
    External = {1}
ACTION_CONSTRAINT WithinBounds
INVARIANTS
    BrowsersAreReleased
PROPERTIES
    OperationsDieWithTheirBrowser
    LaunchesEnd
