SPECIFICATION Spec
CONSTANTS
    Items = {i1}
    Inqs = {c1}
    Quotes = {k1}
    Txns = {t1, t2}
    Qtys = {1}
    Batch = 1
    Decisions = {"approved", "rejected"}
    Ops = {"add", "deleteConsignment", "restoreHeader", "newCode", "quote", "decide", "unquote", "restoreLine", "purgeLine", "approve"}
    Free = Free
    None = None
CHECK_DEADLOCK FALSE
SYMMETRY Symmetry
PROPERTIES
    SoloQuoteSync
    SoloStale
