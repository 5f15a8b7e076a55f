SPECIFICATION DisplaySpec
CONSTANTS
    Screens <- MCScreens
    CharWidth = 14
    RasterHeight = 24
    LogoWidth = 774
    LogoHeight = 774
    BreakpointText <- MCBreakpointText
    MaxBreakpoints = 3
INVARIANTS ConsoleFits LogoPitch
PROPERTIES LogoShown
CHECK_DEADLOCK FALSE
