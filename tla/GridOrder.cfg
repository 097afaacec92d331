CHECK_DEADLOCK FALSE
CONSTANTS
    Columns = {1, 2, 3, 4, 5, 6, 7}
    Rows = {1, 2, 3, 4}
    Products = {1, 2}
    Roles <- Names
    BaseRoles <- OneGroup
    Lookups <- OneLookup
    Companions = {"pkg_count"}
    Requests = {q1, q2}
    Ops = {"addColumn", "renameColumn", "moveColumn", "deleteColumn", "relabel", "normalize", "nextGroup", "restoreColumn", "moveRow", "deleteRow", "linkRow", "readGrid", "populate", "restoreRow", "deleteProduct", "addProduct"}
    Budget = 3
    None = None
SYMMETRY RequestSymmetry
SPECIFICATION Spec
PROPERTIES SoloOrder SoloLayout SoloGroupIsNew SoloRead
