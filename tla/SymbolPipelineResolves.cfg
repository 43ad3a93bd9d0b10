SPECIFICATION Spec
CONSTANTS
    Worker = {w1}
    FileId = {1}
    Name = {1, 2}
    NoFile = NoFile
    NoName = NoName
    MaxQueue = 1
INVARIANT LoadedResolves
