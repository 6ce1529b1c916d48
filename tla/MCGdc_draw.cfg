CONSTANTS
    DivBits = 31
    Counts = 4
    PatBits = 4
    MaxCells = 4
    Figures <- MCFigures
    Accels <- MCAccels
    Slow <- MCSlow
SPECIFICATION FairSpec
INVARIANTS InPlane FigureRight
PROPERTIES DoneMeansDrawn Retired
