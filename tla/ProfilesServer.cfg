SPECIFICATION FairSpec
CONSTANTS
    Task = {t1, t2}
    p1 = p1
    p2 = p2
    p3 = p3
    vdso = vdso
    n1 = n1
    n2 = n2
    Path = {p1, p2, p3, vdso}
    Name = {n1, n2}
    NoName = NoName
    BaseOf <- MCBaseOf
    Requests <- MCRequests
    NoRequest = NoRequest
    MaxQueue = 6
INVARIANTS TypeOK NothingForgotten NamesComeFirst TabsAgreeOnThreads
PROPERTY AcceptedIsListed
