CONSTANTS
    Drives = {0}
    Image = {"raw"}
    Fmt <- MCFmt
    Width <- MCWidth
    TableWidth <- MCTable
    Count <- MCCount
    Len512 <- MCLen
    Layout <- MCLayout
    Protect <- MCProtect
    InitFile <- MCInitFile
    Val <- MCVal
    Junk = "junk"
    Fill = "g1"
    Saved = "saved"
    GuestData = {}
    HostFails = FALSE
    GuestResets = TRUE
    OsdBusy = FALSE
SPECIFICATION Spec
PROPERTIES SettingsWindowKept
