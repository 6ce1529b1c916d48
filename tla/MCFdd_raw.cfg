CONSTANTS
    Drives = {0}
    Image = {"raw"}
    Fmt <- MCFmt
    Width <- MCWidth
    TableWidth <- MCTable
    Count <- MCCount
    Len512 <- MCLen
    Layout <- MCLayout
    Protect <- MCProtect
    InitFile <- MCInitFile
    Val <- MCVal
    Junk = "junk"
    Fill = "g1"
    Saved = "saved"
    GuestData <- MCGuestData
    HostFails = TRUE
    GuestResets = FALSE
    OsdBusy = FALSE
SPECIFICATION FairSpec
INVARIANTS TypeOK
PROPERTIES WriteReachesItsSector 
