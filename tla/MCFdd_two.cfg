CONSTANTS
    Drives = {0, 1}
    Image = {"fdi", "d88p"}
    Fmt <- MCFmt
    Width <- MCWidth
    TableWidth <- MCTable
    Count <- MCCount
    Len512 <- MCLen
    Layout <- MCLayout
    Protect <- MCProtect
    InitFile <- MCInitFile
    Val <- MCVal
    Junk = "junk"
    Fill = "g1"
    Saved = "saved"
    GuestData <- MCGuestData
    HostFails = FALSE
    GuestResets = FALSE
    OsdBusy = FALSE
SPECIFICATION Spec
PROPERTIES ReadServesRequested
