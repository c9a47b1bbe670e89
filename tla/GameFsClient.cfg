SPECIFICATION Spec
CONSTANTS
    Clients = {c1, c2, c3}
    Contexts = {h1, h2, h3}
    nullptr = nullptr
    MaxFiles = 2
INVARIANTS
    ContextsHaveOneOwner
    PlansAreAppliedByOwners
PROPERTY
    ContextsOutliveMoves
