SPECIFICATION Spec
CONSTANTS
    Items = {i1}
    Inqs = {c1, c2}
    Quotes = {}
    Txns = {t1, t2}
    Qtys = {1, 2}
    Batch = 1
    Decisions = {"approved", "rejected"}
    Ops = {"edit", "shift", "approve", "delete", "purgeLine"}
    Free = Free
    None = None
\* Without rows there is nothing to request.
CHECK_DEADLOCK FALSE
SYMMETRY Symmetry
PROPERTIES
    NoLostUpdate
    SoloRefresh
