----------------------------- MODULE GridCells -----------------------------
(***************************************************************************)
(* The cells of one planning sheet (planning/service.py).  What a computed *)
(* column shows is stored in its cells when something it depends on is     *)
(* written, and read back as it is: every writer must remember the cells   *)
(* that depend on it.                                                      *)
(*                                                                         *)
(* Requests are served one at a time here; an operation maps a state of    *)
(* the sheet to the next one.                                              *)
(***************************************************************************)
EXTENDS Integers, FiniteSetsExt

CONSTANTS
    Rows,           \* slots of rows
    Products,       \* Product Master
    Quantities,     \* packaging quantities a product may have
    Groups,         \* the sheet's groups
    Typed,          \* Typed[k]: what clients type into columns of kind k
    Sources,        \* what the free column may be configured as
    Colours,        \* colours of a status
    Budget,         \* how many requests are served
    Text,           \* a value that is not a number
    None            \* no value, link or colour

ASSUME QuantitiesAssumption == Quantities \subseteq Nat \ {0} /\ Quantities # {}
ASSUME BudgetAssumption == Budget \in Nat
ASSUME GroupsAssumption == Groups # {}
ASSUME SourcesAssumption == Sources \subseteq {"manual", "lookup", "sum", "formula"}
ASSUME ColoursAssumption == "blue" \in Colours
ASSUME NoneAssumption == None \notin Int \cup Products \cup {Text}
ASSUME TypedAssumption == \A k \in DOMAIN Typed : Typed[k] \subseteq Int \cup {Text, None}

(* Columns.  The quantity column looks PKG QTY up; the free one is         *)
(* configured by clients; the formula column adds one to the free one.     *)
Main(g) == <<"main", g>>
Remarks(g) == <<"remarks", g>>
Pkg(g) == <<"pkg", g>>
Qty == <<"qty", 0>>
Free == <<"free", 0>>
Formula == <<"formula", 0>>
Approval == <<"approval", 0>>
Columns == {f[g] : f \in {[g \in Groups |-> Main(g)], [g \in Groups |-> Remarks(g)],
                          [g \in Groups |-> Pkg(g)]}, g \in Groups}
           \cup {Qty, Free, Formula, Approval}

VARIABLES
    row,        \* row[w]: [link, life] of row w
    product,    \* product[p]: [live, qty]
    cell,       \* cell[w][c]: [value, link, colour]; one never written has none of them
    source,     \* source[c]: where column c takes its values from
    coloured,   \* columns whose cells may have a status
    served,     \* how many requests have been served
    byHand      \* rows one of whose cells was linked by hand, and rows from the trash

vars == <<row, product, cell, source, coloured, served, byHand>>

Sheet == [row |-> row, product |-> product, cell |-> cell, source |-> source,
          coloured |-> coloured, byHand |-> byHand]
Becomes(s) ==
    /\ row' = s.row /\ product' = s.product /\ cell' = s.cell
    /\ source' = s.source /\ coloured' = s.coloured /\ byHand' = s.byHand

Valued(x, v) == [x EXCEPT !.value = v]
Coloured(x, colour) == [x EXCEPT !.colour = colour]
WithCell(s, w, c, x) == [s EXCEPT !.cell[w][c] = x]

EmptyCell == [value |-> None, link |-> None, colour |-> None]

IsNumber(v) == v \notin {None, Text}
(* A text counts as a quantity wherever float() is tried. *)
Active(v) == v = Text \/ (IsNumber(v) /\ v > 0)

Live(s, w) == s.row[w].life = "live"
LiveProducts(s) == {p \in Products : s.product[p].live}

-----------------------------------------------------------------------------
(* Values *)

(* A lookup shows the record of the cell's own link, or of its row's.      *)
LookedUp(s, w, link) ==
    LET p == IF link = None THEN s.row[w].link ELSE link
    IN  IF p \in LiveProducts(s) THEN s.product[p].qty ELSE None

Total(records) == MapThenSumSet(LAMBDA p : records[p].qty, {p \in Products : records[p].live})

(* What a formula sees in column c: the live value, and nothing where that *)
(* is a formula itself.                                                    *)
Sibling(s, w, c) ==
    CASE s.source[c] = "manual" -> s.cell[w][c].value
      [] s.source[c] = "lookup" -> LookedUp(s, w, s.cell[w][c].link)
      [] s.source[c] = "sum" -> Total(s.product)
      [] OTHER -> None

(* NO. OF PKG: the quantity over PKG QTY, kept as the pair of them. *)
PkgCount(s, w, g) ==
    LET m == Sibling(s, w, Main(g))
        q == Sibling(s, w, Qty)
    IN  IF IsNumber(m) /\ IsNumber(q) THEN <<m, q>> ELSE None

(* The formula of a client: the column named, and one. *)
Operand(c) == IF c = Free THEN Main(CHOOSE g \in Groups : TRUE) ELSE Free
Evaluated(s, w, c) ==
    LET v == Sibling(s, w, Operand(c)) IN IF IsNumber(v) THEN v + 1 ELSE None

(* compute_cell_display_value as recompute_and_store_cell calls it: without *)
(* the cell, so its own link does not count.                               *)
Computed(s, w, c) ==
    CASE s.source[c] = "lookup" -> LookedUp(s, w, None)
      [] s.source[c] = "sum" -> Total(s.product)
      [] s.source[c] = "formula" -> IF c[1] = "pkg" THEN PkgCount(s, w, c[2]) ELSE Evaluated(s, w, c)
      [] OTHER -> s.cell[w][c].value

(* (mutant) Formula columns are left to the next edit. *)
WithRecomputedLookups(s, w, columns) ==
    [s EXCEPT !.cell[w] = [c \in Columns |->
        IF c \in columns /\ s.source[c] \in {"lookup", "sum"}
        THEN Valued(s.cell[w][c], Computed(s, w, c))
        ELSE s.cell[w][c]]]

(* recompute_and_store_row, and recompute_and_store_cell of some columns. *)
WithRecomputed(s, w, columns) ==
    [s EXCEPT !.cell[w] = [c \in Columns |->
        IF c \in columns /\ s.source[c] # "manual"
        THEN Valued(s.cell[w][c], Computed(s, w, c))
        ELSE s.cell[w][c]]]

(* The cells of some columns are recomputed in each of some rows. *)
EachRecomputed(s, rows, columns) ==
    [s EXCEPT !.cell = [w \in Rows |->
        IF w \in rows THEN WithRecomputed(s, w, columns).cell[w] ELSE s.cell[w]]]

-----------------------------------------------------------------------------
(* Cells *)

(* set_cell_status, when the request passes: the column carries colours,   *)
(* and a colour needs a quantity.  Colours are switched on in main columns *)
(* by the way.                                                             *)
WithColoursOn(s, c) ==
    [s EXCEPT !.coloured = IF c[1] = "main" THEN @ \cup {c} ELSE @]
MayColour(s, w, c, colour) ==
    colour # None => c \in s.coloured /\ Active(s.cell[w][c].value)
WithColour(s, w, c, colour) ==
    LET on == WithColoursOn(s, c)
    IN  IF MayColour(on, w, c, colour)
        THEN WithCell(on, w, c, Coloured(on.cell[w][c], colour))
        ELSE on

SetCellStatus(w, c, colour) ==
    /\ Live(Sheet, w)
    /\ MayColour(WithColoursOn(Sheet, c), w, c, colour)
    /\ Becomes(WithColour(Sheet, w, c, colour))

(* Main columns store no zero. *)
Stored(c, v) == IF c[1] = "main" /\ v = 0 THEN None ELSE v

Blank(s, w, c) == WithCell(s, w, c, Valued(s.cell[w][c], None))

(* (mutant) The remarks of the group stay. *)
ClearedRow(s, w, g) ==
    LET bare == WithColour(s, w, Main(g), None)
    IN  IF \E h \in Groups : Active(bare.cell[w][Main(h)].value)
        THEN bare
        ELSE Blank(bare, w, Approval)

(* A main cell was blanked: its status and its remarks go, and with the    *)
(* last quantity of the row the approval date that was typed in.           *)
Cleared(s, w, g) ==
    LET bare == Blank(WithColour(s, w, Main(g), None), w, Remarks(g))
    IN  IF \E h \in Groups : Active(bare.cell[w][Main(h)].value)
        THEN bare
        ELSE Blank(bare, w, Approval)

(* What follows from value v in column c, before the row is recomputed. *)
Followed(s, w, c, v) ==
    CASE c[1] = "main" /\ v = None -> Cleared(s, w, c[2])
      [] c[1] = "main" /\ v # None -> WithColour(s, w, c, "blue")
      [] c = Free /\ v # None /\ c \in s.coloured -> WithColour(s, w, c, "blue")
      [] OTHER -> s

(* set_cell_value.  A value equal to the old one changes nothing; remarks  *)
(* are for a quantity.                                                     *)
SetCellValue(w, c, typed) ==
    LET v == Stored(c, typed) IN
    /\ Live(Sheet, w) /\ source[c] = "manual"
    /\ c[1] = "remarks" /\ v # None => Active(cell[w][Main(c[2])].value)
    /\ v # cell[w][c].value
    /\ LET written == WithCell(Sheet, w, c, Valued(cell[w][c], v))
       IN  Becomes(WithRecomputed(Followed(written, w, c, v), w, Columns))

SetStatusColorEnabled(on) ==
    /\ coloured' = IF on THEN coloured \cup {Free} ELSE coloured \ {Free}
    /\ UNCHANGED <<row, product, cell, source, byHand>>

-----------------------------------------------------------------------------
(* Links and configuration *)

(* link_row_to_source_record stores the link and then recomputes the cell  *)
(* without passing either link on: as in a row without one, it is blank.   *)
Linked(x, p) == [x EXCEPT !.link = p, !.value = None]

LinkCell(w, c, p) ==
    /\ Live(Sheet, w) /\ source[c] = "lookup" /\ p \in LiveProducts(Sheet)
    /\ cell' = [cell EXCEPT ![w][c] = Linked(@, p)]
    /\ byHand' = byHand \cup {w}
    /\ UNCHANGED <<row, product, source, coloured>>

(* auto_link_column_to_item_records does so in every row that has a link   *)
(* its cell has not.                                                       *)
AutoLinkColumn(c) ==
    LET linked == {w \in Rows : Live(Sheet, w) /\ row[w].link \notin {None, cell[w][c].link}} IN
    /\ source[c] = "lookup" /\ linked # {}
    /\ cell' = [w \in Rows |->
                IF w \in linked THEN [cell[w] EXCEPT ![c] = Linked(@, row[w].link)] ELSE cell[w]]
    /\ byHand' = byHand \cup linked
    /\ UNCHANGED <<row, product, source, coloured>>

LinkRow(w, p) ==
    /\ Live(Sheet, w) /\ p \in LiveProducts(Sheet)
    /\ Becomes(WithRecomputed([Sheet EXCEPT !.row[w].link = p], w, Columns))

(* configure_column_source recomputes the column that was configured. *)
ConfigureColumnSource(kind) ==
    /\ Becomes(EachRecomputed([Sheet EXCEPT !.source[Free] = kind],
                              {w \in Rows : Live(Sheet, w)}, {Free}))

-----------------------------------------------------------------------------
(* Rows and products *)

(* A row is made for product p: its lookups are filled in, nothing else.   *)
Populate(w, p) ==
    /\ row[w].life = "unmade" /\ p \in LiveProducts(Sheet)
    /\ \A v \in Rows : Live(Sheet, v) => row[v].link # p
    /\ LET made == [Sheet EXCEPT !.row[w] = [link |-> p, life |-> "live"]]
       IN  Becomes(WithRecomputed(made, w, {c \in Columns : source[c] = "lookup"}))

DeleteRow(w) ==
    /\ Live(Sheet, w)
    /\ row' = [row EXCEPT ![w].life = "trashed"]
    /\ UNCHANGED <<product, cell, source, coloured, byHand>>

RestoreRow(w) ==
    /\ row[w].life = "trashed"
    /\ row' = [row EXCEPT ![w].life = "live"]
    /\ byHand' = byHand \cup {w}
    /\ UNCHANGED <<product, cell, source, coloured>>

(* (mutant) Only cells with a link of their own are found. *)
RowsShowingByCell(s, p) ==
    {w \in Rows : Live(s, w) /\ \E c \in Columns : s.cell[w][c].link = p}

(* The rows that show product p, by their own link or by a cell's. *)
RowsShowing(s, p) ==
    {w \in Rows : Live(s, w) /\ (s.row[w].link = p \/ \E c \in Columns : s.cell[w][c].link = p)}

(* A product is saved: refresh_planning_cells_for_record recomputes the    *)
(* rows that show it, and the sums everywhere.                             *)
UpdateProduct(p, q) ==
    /\ product[p].live /\ q # product[p].qty
    /\ LET saved == [Sheet EXCEPT !.product[p].qty = q]
           shown == EachRecomputed(saved, RowsShowing(saved, p), Columns)
       IN  Becomes(EachRecomputed(shown, {w \in Rows : Live(shown, w)},
                                  {c \in Columns : source[c] = "sum"}))

(* (mutant) The cells of the product's rows are cleared with them. *)
DeleteProductClearing(p) ==
    /\ product[p].live
    /\ product' = [product EXCEPT ![p].live = FALSE]
    /\ row' = [w \in Rows |->
                IF row[w].link = p /\ row[w].life = "live" THEN [row[w] EXCEPT !.life = "trashed"] ELSE row[w]]
    /\ cell' = [w \in Rows |-> [c \in Columns |->
                IF cell[w][c].link = p \/ row[w].link = p
                THEN Linked(cell[w][c], None) ELSE cell[w][c]]]
    /\ UNCHANGED <<source, coloured, byHand>>

(* A product is deleted: its rows go, cells linked to it lose link and     *)
(* value, and nothing is recomputed.                                       *)
DeleteProduct(p) ==
    /\ product[p].live
    /\ product' = [product EXCEPT ![p].live = FALSE]
    /\ row' = [w \in Rows |->
                IF row[w].link = p /\ row[w].life = "live" THEN [row[w] EXCEPT !.life = "trashed"] ELSE row[w]]
    /\ cell' = [w \in Rows |-> [c \in Columns |->
                IF cell[w][c].link = p
                THEN Linked(cell[w][c], None) ELSE cell[w][c]]]
    /\ UNCHANGED <<source, coloured, byHand>>

(* A product is created, or restored from the trash: no cell is touched. *)
AddProduct(p) ==
    /\ ~product[p].live
    /\ product' = [product EXCEPT ![p].live = TRUE]
    /\ UNCHANGED <<row, cell, source, coloured, byHand>>

-----------------------------------------------------------------------------
(* Specification *)

Init ==
    /\ row = [w \in Rows |-> [link |-> None, life |-> "unmade"]]
    /\ product = [p \in Products |-> [live |-> TRUE, qty |-> CHOOSE q \in Quantities : TRUE]]
    /\ cell = [w \in Rows |-> [c \in Columns |-> EmptyCell]]
    /\ source = [c \in Columns |->
                    CASE c = Qty -> "lookup"
                      [] c = Formula \/ c[1] = "pkg" -> "formula"
                      [] OTHER -> "manual"]
    /\ coloured = {}
    /\ served = 0
    /\ byHand = {}

Step ==
    \/ \E w \in Rows, c \in Columns :
        \/ \E v \in Typed[c[1]] : SetCellValue(w, c, v)
        \/ \E colour \in Colours \cup {None} : SetCellStatus(w, c, colour)
        \/ \E p \in Products : LinkCell(w, c, p)
    \/ \E w \in Rows, p \in Products : LinkRow(w, p) \/ Populate(w, p)
    \/ \E w \in Rows : DeleteRow(w) \/ RestoreRow(w)
    \/ \E c \in Columns : AutoLinkColumn(c)
    \/ \E kind \in Sources : ConfigureColumnSource(kind)
    \/ \E on \in BOOLEAN : SetStatusColorEnabled(on)
    \/ \E p \in Products : DeleteProduct(p) \/ AddProduct(p) \/ \E q \in Quantities : UpdateProduct(p, q)

Next == served < Budget /\ served' = served + 1 /\ Step

Spec == Init /\ [][Next]_vars

-----------------------------------------------------------------------------
(* Properties *)

(* Values have their types, a main cell stores no zero, and a cell is      *)
(* linked only where it was done by hand.                                  *)
TypeOK ==
    /\ row \in [Rows -> [link : Products \cup {None}, life : {"unmade", "live", "trashed"}]]
    /\ product \in [Products -> [live : BOOLEAN, qty : Quantities]]
    /\ \A w \in Rows, c \in Columns :
        /\ cell[w][c].link \in Products \cup {None}
        /\ cell[w][c].colour \in Colours \cup {None}
        /\ cell[w][c].link # None => w \in byHand
    /\ source \in [Columns -> {"manual", "lookup", "sum", "formula"}]
    /\ \A w \in Rows, g \in Groups : cell[w][Main(g)].value # 0
    /\ coloured \subseteq Columns
    /\ served \in 0..Budget

(* A main cell without a quantity has no status and no remarks             *)
(* (set_cell_value: "clear status, store blank, and clear any group        *)
(* remarks"), whatever was typed, coloured, deleted or configured before.  *)
BlankIsBare ==
    \A w \in Rows, g \in Groups : cell[w][Main(g)].value = None =>
        cell[w][Main(g)].colour = None /\ cell[w][Remarks(g)].value = None
CellsAreSound == TypeOK /\ BlankIsBare

Fresh(w, c) == cell[w][c].value = Computed(Sheet, w, c)

(* In rows that nobody linked cells of or fetched from the trash, lookups  *)
(* and package counts always store what Product Master says now: whatever  *)
(* the order of edits, links, saves, deletions and configurations was.     *)
LookupsAreFresh ==
    \A w \in {v \in Rows : Live(Sheet, v)} \ byHand, c \in Columns :
        source[c] = "lookup" \/ c[1] = "pkg" => Fresh(w, c)

(* Whoever types a value or changes a row's link leaves every computed     *)
(* cell of that row as it would be computed now, the formulas that depend  *)
(* on others included (recompute_and_store_row).                           *)
Edited(w) ==
    /\ Live(Sheet, w) /\ row'[w].life = "live"
    /\ \/ row'[w].link # row[w].link
       \/ \E c \in Columns : /\ source[c] = "manual" /\ source'[c] = "manual"
                             /\ cell'[w][c].link = cell[w][c].link
                             /\ cell'[w][c].value # cell[w][c].value
(* A saved product leaves no stale cell in the rows it was looked up for,  *)
(* and no stale sum anywhere.                                              *)
Shows(w, c, p) == Live(Sheet, w) /\ (row[w].link = p \/ source[c] = "sum")
WritesRefresh == [][
    /\ \A w \in Rows : Edited(w) => (\A c \in Columns : Fresh(w, c))'
    /\ \A p \in Products : product'[p].qty # product[p].qty =>
         (\A w \in Rows, c \in Columns : Shows(w, c, p) => Fresh(w, c))']_vars

(* What a client typed stays until someone types over it in that row:      *)
(* reconfiguring a column keeps it, and so does every change of products   *)
(* unless the cell still has a link from when the column was a lookup.     *)
TypedStays == [][\A w \in Rows, c \in Columns :
    source[c] = "manual" /\ cell[w][c].link = None /\ cell'[w][c].value # cell[w][c].value =>
        \/ source'[c] # "manual"
        \/ \E d \in Columns : cell'[w][d].value # cell[w][d].value /\ source[d] = "manual" /\ Edited(w)]_vars
=============================================================================
