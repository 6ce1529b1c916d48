CONSTANTS
    NoDisk = NoDisk
    EntryCount = 2
    BlockWords = 2
    Value = {0, 1}
    Zero = 0
    Defaults <- MCDefaults
    Residues <- MCResidues
    OsdInserts = FALSE
    TornSaves = FALSE
    Disk = {d1, d2, d3}
SPECIFICATION FairSpec
INVARIANTS TypeOK Current OneProfile 
PROPERTIES OutgoingSaved OthersKept EditSaved
