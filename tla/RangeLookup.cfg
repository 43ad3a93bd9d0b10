SPECIFICATION Spec
CONSTANTS
    MaxAddr = 4
    MaxLength = 4
    MaxDepth = 3
    DepthModulus = 2
    MaxRanges = 4
INVARIANTS TypeOK LookupIsExact FramesAreInlineChain
