SPECIFICATION OrderlySpec
CONSTANTS
    Worker = {w1, w2}
    FileId = {1, 2}
    Name = {1, 2}
    NoFile = NoFile
    NoName = NoName
    MaxQueue = 2
INVARIANTS TypeOK ListAgrees PromptTargetListed
PROPERTIES StatusIsAnswered CursorSticks
