CONSTANTS
    r1 = r1
    r2 = r2
    w1 = w1
    Job = {r1}
    NoJob = NoJob
    Dir <- MCDir
    Timeouts = TRUE
    Interrupts = TRUE
    HostErrs = TRUE
SPECIFICATION Spec
INVARIANTS DoneIsRecent
