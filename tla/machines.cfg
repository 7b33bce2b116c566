SPECIFICATION Spec
CONSTANTS
    DeviceSpecs <- Layouts
    ZoneNetworks <- Networks
    Scenarios <- Mixed
INVARIANTS NothingLeftBehind ProviderIDMatches ClaimsReleased
PROPERTIES ComesUp GoesDown
CHECK_DEADLOCK FALSE
