SPECIFICATION Spec
CONSTANTS
    Worker = {w1, w2}
    FileId = {1, 2}
    Name = {n1}
    NoFile = NoFile
    NoName = NoName
SYMMETRY Interchangeable
INVARIANTS
    TypeOK
    ListedIsComplete
    IndexNamesStored
    StoredIsIndexed
    OrphansAreRaced
    UnknownIsOvertaken
PROPERTY ImplementsCatalog
