SPECIFICATION Spec
CONSTANTS
    Items = {i1, i2}
    Inqs = {c1}
    Quotes = {k1, k2}
    Txns = {t1}
    Qtys = {1}
    Batch = 1
    Decisions = {"approved", "rejected"}
    Ops = {"add", "import", "approve", "revert", "delete", "quote", "decide", "unquote", "restoreLine", "purgeLine"}
    Free = Free
    None = None
SYMMETRY Symmetry
INVARIANTS
    TypeOK
    ApprovalIsStamped
    QuoteNumbersDiffer
