SPECIFICATION Spec
CONSTANTS
    MaxPending = 64
    MaxId = 64
    ResultSize = 4096
    InfoSize = 2048
    ResponseSize = 4096
    ClientSize = 4096
    Counts = {0, 1, 25, 37, 38, 63, 64}
INVARIANTS TypeOK BufferIsKept ListsAreComplete ShortIdsGetAll IdsCanBeEscaped
