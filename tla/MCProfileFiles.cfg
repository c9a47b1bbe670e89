SPECIFICATION Spec
CONSTANTS
    c1 = c1
    c2 = c2
    Callers = {c1, c2}
    Texts <- MCTexts
    AsText <- MCAsText
    SizeOf <- MCSizeOf
    BufferSize = 5
    Requests <- MCRequests
    FirstFiles <- MCFirstFiles
INVARIANTS
    UndisturbedSavesLoad
PROPERTY
    LoadedWasSaved
