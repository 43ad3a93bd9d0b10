SPECIFICATION Spec
CONSTANTS
    Worker = {w1}
    FileId = {1, 2}
    Name = {n1}
    NoFile = NoFile
    NoName = NoName
INVARIANT StoredNamesResolve
