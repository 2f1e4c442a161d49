SPECIFICATION Spec
CONSTANTS
    a1 = a1
    a2 = a2
    a3 = a3
    NoTag = NoTag
    Addr <- MCAddr
    assoc = 3
    MaxVer <- MCMaxVer
    WriteBuffers = 2
    BusFree = {TRUE, FALSE}
SYMMETRY Symm
INVARIANTS
    TypeOK
    SingleCopy
    NoStoreLost
    SharedIsUnmodified
