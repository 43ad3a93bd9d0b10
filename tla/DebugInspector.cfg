SPECIFICATION MCSpec
CONSTANTS
    Pattern = {"f", "inline", "scope"}
    NoPattern = NoPattern
    Requests <- MCRequests
    Lines <- MCLines
    Decoded <- MCDecoded
    BaseOf <- MCBaseOf
    Symbols <- MCSymbols
    MaxStrings = 7
    Height = 4
    Page = 20
    MaxRequests = 3
    MaxScroll = 25
INVARIANTS HitsAreCurrent ViewsAgree StringsAndSamplesShown
PROPERTY JumpShowsHit
CHECK_DEADLOCK FALSE
