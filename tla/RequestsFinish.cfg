SPECIFICATION FairSpec
CONSTANTS
    Items = {i1, i2}
    Inqs = {c1}
    Quotes = {}
    Txns = {t1, t2}
    Qtys = {1}
    Batch = 2
    Decisions = {"approved", "rejected"}
    Ops = {"tally", "delete"}
    Free = Free
    None = None
\* Without rows there is nothing to request.
CHECK_DEADLOCK FALSE
PROPERTIES
    RequestsFinish
