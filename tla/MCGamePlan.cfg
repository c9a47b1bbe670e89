SPECIFICATION Spec
CONSTANTS
    PackageIds = {"p", "q", "r"}
    Locations = {"staging", "store"}
    Inputs <- MCInputs
INVARIANTS
    EntriesMoveWithTheirRoot
    PlansSourceTheirClaims
    ObstructionsAreComplete
    BlockedByConflictsOnly
    NamespaceIsTree
    StrongestClaimsWin
    SourcesAreReal
