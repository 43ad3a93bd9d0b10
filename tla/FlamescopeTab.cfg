SPECIFICATION Spec
CONSTANTS
    Thread = {1, 2}
    NoThread = NoThread
    Rows = 3
    Time = {0, 3, 4, 7, 9}
    NoTime = NoTime
    GridCols = 3
    LabelWidth = 1
    MinWidth = 3
    MinHeight = 1
    Areas <- MCAreas
    Updates <- MCUpdates
    MaxSamples = 6
INVARIANTS TypeOK HeatmapExact NamesSorted FilterHasData
PROPERTY DrawShowsCursor
