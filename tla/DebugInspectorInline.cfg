SPECIFICATION MCSpec
CONSTANTS
    Pattern = {"f"}
    NoPattern = NoPattern
    Requests <- MCRequests
    Lines <- MCLines
    Decoded <- MCDecoded
    BaseOf <- MCBaseOf
    Symbols <- MCSymbols
    MaxStrings = 7
    Height = 4
    Page = 20
    MaxRequests = 1
    MaxScroll = 2
INVARIANT CallerIsNotInlined
CHECK_DEADLOCK FALSE
