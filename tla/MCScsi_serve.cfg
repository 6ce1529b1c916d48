CONSTANTS
    Kinds = {"flat", "nhd", "refused"}
    FileLen = 2
    MaxBlocks = 2
    MaxTries = 2
    HeaderFails = TRUE
SPECIFICATION Spec
INVARIANTS ClassRight OneCompletion
PROPERTIES AnswerRight WriteRight WriteKept
