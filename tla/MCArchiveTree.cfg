SPECIFICATION Spec
CONSTANTS
    Letters = {"a", "b"}
    Archives <- MCArchives
INVARIANTS
    TypeOK
    RefusedWhereItLeadsOut
    TreeIsThatOfItsEntries
