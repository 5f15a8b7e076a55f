SPECIFICATION SafeSpec
CONSTANTS
    Logging = TRUE
    Raised <- VectorsAndNmi
INVARIANTS TypeOK SwitchContract EndedBeforeEnabled NoReentry HangsOnOwnLock IdsAreOwn
PROPERTIES ImplementsScheduler
CHECK_DEADLOCK FALSE
