SPECIFICATION MCSpec
CONSTANTS
    Run <- Runs
    WakingRun <- WakingRuns
    FaultLimit = 2
    OneShots = {"once"}
    Repeating = {"every"}
    Seconds <- Intervals
    TimerInstants = 4
    Failures = 1
    Edits = 2
    Crashes = 1
    PipelineInstants = 1
INVARIANTS TypesOK WakeIsHeld ToldThenAcceptedInOrder FiresOncePerPeriod RetiredHasRun
PROPERTIES LedgerSpec DeliveredIsRetired DueIsAnswered
CHECK_DEADLOCK FALSE
