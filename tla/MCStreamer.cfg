CONSTANTS
    s1 = s1
    s2 = s2
    f1 = f1
    f2 = f2
    f3 = f3
    f4 = f4
    NoFile = NoFile
    NumRows = 2
    ChannelBuffer = 1
    MaxRetries = 1
    Procs = {s1}
    Files = {f1, f2}
    MaxReadings = 3
SPECIFICATION LiveSpec
INVARIANTS TypeOK FileIsWhole FileReflectsRows Accounted CopiesBounded
PROPERTIES ImplementsReporting NeverStuck EveryReadingConcluded RunReturns
CHECK_DEADLOCK FALSE
