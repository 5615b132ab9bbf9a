CONSTANTS segments <- TwoThenOne Troubled = {1} MaxMishaps = 1
SPECIFICATION FairSpec
INVARIANTS TypeOK IntentBeforeInput PermitMeansReserved DeferredNotInjected
PROPERTIES ReleasedAtRest StopIsConfirmed ReleasedIsLetGo
CHECK_DEADLOCK FALSE
