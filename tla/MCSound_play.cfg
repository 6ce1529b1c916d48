CONSTANTS
    PageBytes = 2
    MaxStep = 2
    Inc <- MCInc
    PosSize = 720896
    Channels = 2
    HalfPages = 4
    Chunk = 4
    WavData <- MCWav
    WavRate <- MCWavRate
    BinData <- MCBin
    BinPair <- MCBinPair
    KitData <- MCKit
    KitRate = 24000
    Starts <- MCStarts
    Late <- MCLate
    NoWav = {}
    BadVoice = {0}
    BadSeg = {2}
    Hold = 2
    AgeMax = 2
SPECIFICATION FairSpec
INVARIANTS StoreRight HandedBack KeepsLatency
PROPERTIES Returned
