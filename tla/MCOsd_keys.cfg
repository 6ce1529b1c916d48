CONSTANTS
    Code <- MCCode
    Centre <- MCCentre
    vrows <- MCvrows
    ToggleCodes = {88}
    Bound <- MCBound
    bind_default <- MCbind_default
    keybind_cycle <- MCkeybind_cycle
    menus <- MCmenus
    Words <- MCWords
    DockCodes = {90}
    Profiles <- MCProfiles
    HoldTicks = 2
    BlankTicks = 1
SPECIFICATION Spec
INVARIANTS TypeOK NothingStuck OverlayClean
PROPERTIES OverlayQuiet
