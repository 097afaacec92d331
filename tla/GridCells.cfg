CHECK_DEADLOCK FALSE
CONSTANTS
    Rows = {r1, r2}
    Products = {p1, p2}
    Quantities = {1, 2}
    Groups = {1}
    Typed <- Inputs
    Sources = {"manual", "lookup", "sum", "formula"}
    Colours = {"blue", "red"}
    Budget = 7
    Text = Text
    None = None
SYMMETRY RowSymmetry
SPECIFICATION Spec
INVARIANTS CellsAreSound LookupsAreFresh
PROPERTIES WritesRefresh TypedStays
