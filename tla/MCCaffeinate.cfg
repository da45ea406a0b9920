SPECIFICATION FairSpec
CONSTANTS
    Worlds <- WorldsChecked
    MaxEvents = 7
    MaxModes = 2
INVARIANTS
    InhibitorsAreKnown
    AwakeWithTheRun
PROPERTIES
    ShutdownReleases
CHECK_DEADLOCK FALSE
