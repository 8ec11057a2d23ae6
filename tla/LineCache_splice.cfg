SPECIFICATION LineSpec
CONSTANTS
    IncWindow = 3
    MaxCached = 5
INVARIANT
    SpliceIsSound
