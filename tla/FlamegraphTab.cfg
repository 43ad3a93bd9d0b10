SPECIFICATION Spec
CONSTANTS
    Exports <- MCExports
    Names <- MCNames
    ThreadNames <- MCThreadNames
    Width = 6
    Height = 2
    MaxProfiles = 3
    Unit <- MCUnit
    Fractions <- MCFractions
INVARIANTS
    WeightsConserved
    IndexedAndSorted
    ZoomResolves
    FramesInOrder
    HighlightShowsCursor
    SelectionIsCurrent
PROPERTIES
    KeysKeepCursor
    DrawShowsCursor
