CONSTANTS
    r1 = r1
    r2 = r2
    w1 = w1
    Job = {r1, r2, w1}
    NoJob = NoJob
    Dir <- MCDir
    Timeouts = FALSE
    Interrupts = FALSE
    HostErrs = TRUE
SPECIFICATION FairSpec
INVARIANTS CommandWhole
PROPERTIES TransferFaithful CallReturns Implements
