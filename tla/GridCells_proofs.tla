------------------------- MODULE GridCells_proofs -------------------------
(***************************************************************************)
(* Stored values of the planning grid (CellsAreSound, LookupsAreFresh,     *)
(* WritesRefresh, TypedStays) for any number of rows, products, groups and *)
(* operations.                                                             *)
(*                                                                         *)
(* The argument is about sheets, as the operators are: what an operator    *)
(* keeps of a sheet (Frame), what recomputing does to it (Recomputes), and *)
(* that a computed value depends on nothing that recomputing changes       *)
(* (ComputedAlike), so that one pass is enough.                            *)
(***************************************************************************)
EXTENDS GridCells, TLAPS

Kinds == {"manual", "lookup", "sum", "formula"}
Row == [link : Products \cup {None}, life : {"unmade", "live", "trashed"}]
Product == [live : BOOLEAN, qty : Quantities]
Fields == {"row", "product", "cell", "source", "coloured", "byHand"}
CellFields == {"value", "link", "colour"}

(* The source that a column keeps, unless it is the free one. *)
Given(c) ==
    IF c = Qty THEN "lookup" ELSE IF c = Formula \/ c[1] = "pkg" THEN "formula" ELSE "manual"

Shaped(s) ==
    /\ DOMAIN s = Fields
    /\ s.row \in [Rows -> Row] /\ s.product \in [Products -> Product] /\ s.source \in [Columns -> Kinds]
    /\ DOMAIN s.cell = Rows
    /\ \A w \in Rows : DOMAIN s.cell[w] = Columns
    /\ \A w \in Rows, c \in Columns : DOMAIN s.cell[w][c] = CellFields
    /\ s.coloured \subseteq Columns /\ s.byHand \subseteq Rows

LinksFit(s) == \A w \in Rows, c \in Columns :
    /\ s.cell[w][c].link \in Products \cup {None}
    /\ s.cell[w][c].link # None => w \in s.byHand /\ c \in {Qty, Free}
ColoursFit(s) == \A w \in Rows, c \in Columns : s.cell[w][c].colour \in Colours \cup {None}
NoZero(s) == \A w \in Rows, g \in Groups : s.cell[w][Main(g)].value # 0
Bare(s) == \A w \in Rows, g \in Groups : s.cell[w][Main(g)].value = None =>
    s.cell[w][Main(g)].colour = None /\ s.cell[w][Remarks(g)].value = None
SourcesFit(s) == \A c \in Columns \ {Free} : s.source[c] = Given(c)
(* A row that was never made is blank; one that was made and not fetched   *)
(* from the trash shows a product there is.                                *)
RowsFit(s) == \A w \in Rows :
    /\ s.row[w].life = "unmade" => \A c \in Columns : s.cell[w][c].value = None
    /\ s.row[w].life = "live" /\ w \notin s.byHand => s.row[w].link \in LiveProducts(s)
Sound(s) ==
    /\ Shaped(s) /\ LinksFit(s) /\ ColoursFit(s) /\ NoZero(s) /\ Bare(s) /\ SourcesFit(s) /\ RowsFit(s)

FreshRow(s, w) == \A c \in Columns :
    s.source[c] = "lookup" \/ c[1] = "pkg" => s.cell[w][c].value = Computed(s, w, c)
FreshIn(s) == \A w \in Rows \ s.byHand : Live(s, w) => FreshRow(s, w)

IInv == Sound(Sheet) /\ FreshIn(Sheet) /\ served \in 0..Budget

-----------------------------------------------------------------------------
(* Columns *)
LEMMA ColumnsAre ==
    /\ \A g \in Groups : Main(g) \in Columns /\ Remarks(g) \in Columns /\ Pkg(g) \in Columns
    /\ {Qty, Free, Formula, Approval} \subseteq Columns
    /\ \A c \in Columns : \/ \E g \in Groups : c = Main(g) \/ c = Remarks(g) \/ c = Pkg(g)
                          \/ c \in {Qty, Free, Formula, Approval}
<1>1. PICK a : a = [g \in Groups |-> Main(g)]
    OBVIOUS
<1>2. PICK b : b = [g \in Groups |-> Remarks(g)]
    OBVIOUS
<1>3. PICK p : p = [g \in Groups |-> Pkg(g)]
    OBVIOUS
<1>4. Columns = {f[g] : f \in {a, b, p}, g \in Groups} \cup {Qty, Free, Formula, Approval}
    BY <1>1, <1>2, <1>3 DEF Columns
<1>5. \A g \in Groups : a[g] = Main(g) /\ b[g] = Remarks(g) /\ p[g] = Pkg(g)
    BY <1>1, <1>2, <1>3
<1>6. \A g \in Groups : {a[g], b[g], p[g]} \subseteq Columns
    BY <1>4
<1>7. \A c \in Columns : (\E g \in Groups : c \in {a[g], b[g], p[g]}) \/ c \in {Qty, Free, Formula, Approval}
    BY <1>4
<1>8. {Qty, Free, Formula, Approval} \subseteq Columns
    BY <1>4
<1> HIDE DEF Columns
<1> QED BY <1>5, <1>6, <1>7, <1>8

LEMMA NamesAre ==
    /\ \A g : Main(g)[1] = "main" /\ Main(g)[2] = g
    /\ \A g : Remarks(g)[1] = "remarks" /\ Remarks(g)[2] = g
    /\ \A g : Pkg(g)[1] = "pkg" /\ Pkg(g)[2] = g
    /\ Qty[1] = "qty" /\ Free[1] = "free" /\ Formula[1] = "formula" /\ Approval[1] = "approval"
BY DEF Main, Remarks, Pkg, Qty, Free, Formula, Approval

(* What the name of a column says of it. *)
LEMMA NamedColumn ==
    ASSUME NEW c \in Columns
    PROVE  /\ c[1] = "main" => c[2] \in Groups /\ c = Main(c[2])
           /\ c[1] = "remarks" => c[2] \in Groups /\ c = Remarks(c[2])
           /\ c[1] = "pkg" => c[2] \in Groups /\ c = Pkg(c[2])
           /\ c[1] \notin {"main", "remarks", "pkg"} => c \in {Qty, Free, Formula, Approval}
BY ColumnsAre, NamesAre

LEMMA GivenIs ==
    /\ \A g : Given(Main(g)) = "manual" /\ Given(Remarks(g)) = "manual" /\ Given(Pkg(g)) = "formula"
    /\ \A g : Free \notin {Main(g), Remarks(g), Pkg(g)} /\ Qty \notin {Main(g), Remarks(g), Pkg(g)}
    /\ Given(Qty) = "lookup" /\ Given(Formula) = "formula" /\ Given(Approval) = "manual"
    /\ Free \notin {Qty, Formula, Approval}
    /\ \A c : Given(c) = "lookup" => c = Qty
BY NamesAre DEF Given

-----------------------------------------------------------------------------
(* Cells *)
LEMMA CellsAre ==
    ASSUME NEW x, DOMAIN x = CellFields, NEW v
    PROVE  /\ DOMAIN Valued(x, v) = CellFields /\ DOMAIN Coloured(x, v) = CellFields /\ DOMAIN Linked(x, v) = CellFields
           /\ Valued(x, v).value = v /\ Valued(x, v).link = x.link /\ Valued(x, v).colour = x.colour
           /\ Coloured(x, v).value = x.value /\ Coloured(x, v).link = x.link /\ Coloured(x, v).colour = v
           /\ Linked(x, v).value = None /\ Linked(x, v).link = v /\ Linked(x, v).colour = x.colour
BY DEF Valued, Coloured, Linked, CellFields

Frame(s, t) == t.row = s.row /\ t.product = s.product /\ t.source = s.source /\ t.byHand = s.byHand

(* A sheet whose cells alone are replaced. *)
LEMMA CellsPut ==
    ASSUME NEW s, Shaped(s), NEW cells, DOMAIN cells = Rows, \A w \in Rows : DOMAIN cells[w] = Columns,
           \A w \in Rows, c \in Columns : DOMAIN cells[w][c] = CellFields,
           NEW t, t = [s EXCEPT !.cell = cells]
    PROVE  Shaped(t) /\ Frame(s, t) /\ t.coloured = s.coloured /\ t.cell = cells
<1>1. DOMAIN t = Fields /\ Frame(s, t) /\ t.coloured = s.coloured /\ t.cell = cells
    BY DEF Shaped, Frame, Fields
<1> QED BY <1>1 DEF Shaped, Frame

LEMMA WithCellIs ==
    ASSUME NEW s, Shaped(s), NEW w \in Rows, NEW c \in Columns, NEW x, DOMAIN x = CellFields,
           NEW t, t = WithCell(s, w, c, x)
    PROVE  /\ Shaped(t) /\ Frame(s, t) /\ t.coloured = s.coloured /\ t.cell[w][c] = x
           /\ \A v \in Rows, d \in Columns : v # w \/ d # c => t.cell[v][d] = s.cell[v][d]
<1>1. PICK r : r = [s.cell[w] EXCEPT ![c] = x]
    OBVIOUS
<1>2. PICK cells : cells = [s.cell EXCEPT ![w] = r]
    OBVIOUS
<1>3. t = [s EXCEPT !.cell = cells]
    BY <1>1, <1>2 DEF WithCell
<1>4. DOMAIN r = Columns /\ r[c] = x /\ \A d \in Columns : d # c => r[d] = s.cell[w][d]
    BY <1>1 DEF Shaped
<1>5. DOMAIN cells = Rows /\ cells[w] = r /\ \A v \in Rows : v # w => cells[v] = s.cell[v]
    BY <1>2 DEF Shaped
<1>6. /\ \A v \in Rows : DOMAIN cells[v] = Columns
      /\ \A v \in Rows, d \in Columns : DOMAIN cells[v][d] = CellFields
    BY <1>4, <1>5 DEF Shaped
<1>7. Shaped(t) /\ Frame(s, t) /\ t.coloured = s.coloured /\ t.cell = cells
    BY <1>3, <1>5, <1>6, CellsPut
<1> QED BY <1>4, <1>5, <1>7

-----------------------------------------------------------------------------
(* Values *)

(* What a value is computed from. *)
Agree(s, t, w) ==
    /\ t.row[w].link = s.row[w].link /\ t.product = s.product /\ t.source = s.source
    /\ \A c \in Columns : t.cell[w][c].link = s.cell[w][c].link
    /\ \A c \in Columns : s.source[c] = "manual" => t.cell[w][c].value = s.cell[w][c].value

LEMMA LookedUpAlike ==
    ASSUME NEW s, NEW t, NEW w, t.row[w].link = s.row[w].link, t.product = s.product
    PROVE  \A link : LookedUp(t, w, link) = LookedUp(s, w, link)
BY DEF LookedUp, LiveProducts

LEMMA ComputedAlike ==
    ASSUME NEW s, NEW t, NEW w \in Rows, Agree(s, t, w), s.source \in [Columns -> Kinds]
    PROVE  \A c \in Columns : s.source[c] # "manual" => Computed(t, w, c) = Computed(s, w, c)
<1>1. \A link : LookedUp(t, w, link) = LookedUp(s, w, link)
    BY LookedUpAlike DEF Agree
<1>2. Total(t.product) = Total(s.product)
    BY DEF Agree
<1>3. ASSUME NEW d \in Columns
      PROVE  Sibling(t, w, d) = Sibling(s, w, d)
    <2>1. t.source[d] = s.source[d] /\ t.cell[w][d].link = s.cell[w][d].link
          /\ (s.source[d] = "manual" => t.cell[w][d].value = s.cell[w][d].value)
        BY DEF Agree
    <2> QED BY <1>1, <1>2, <2>1 DEF Sibling
<1>4. \A c : Operand(c) \in Columns
    BY ColumnsAre, GroupsAssumption DEF Operand
<1>5. \A c : Evaluated(t, w, c) = Evaluated(s, w, c)
    BY <1>3, <1>4 DEF Evaluated
<1>6. \A g \in Groups : PkgCount(t, w, g) = PkgCount(s, w, g)
    BY <1>3, ColumnsAre DEF PkgCount
<1>7. ASSUME NEW c \in Columns, s.source[c] # "manual"
      PROVE  Computed(t, w, c) = Computed(s, w, c)
    <2>1. t.source[c] = s.source[c]
        BY DEF Agree
    <2>2. CASE s.source[c] = "lookup"
        BY <2>1, <2>2, <1>1 DEF Computed
    <2>3. CASE s.source[c] = "sum"
        BY <2>1, <2>3, <1>2 DEF Computed
    <2>4. CASE s.source[c] = "formula"
        <3>1. CASE c[1] = "pkg"
            <4>1. PICK g : g = c[2]
                OBVIOUS
            <4>2. PkgCount(t, w, g) = PkgCount(s, w, g)
                BY <1>6, <3>1, <4>1, NamedColumn
            <4>3. Computed(t, w, c) = PkgCount(t, w, g) /\ Computed(s, w, c) = PkgCount(s, w, g)
                BY <2>1, <2>4, <3>1, <4>1 DEF Computed
            <4> QED BY <4>2, <4>3
        <3>2. CASE c[1] # "pkg"
            <4>1. Computed(t, w, c) = Evaluated(t, w, c) /\ Computed(s, w, c) = Evaluated(s, w, c)
                BY <2>1, <2>4, <3>2 DEF Computed
            <4> QED BY <4>1, <1>5
        <3> QED BY <3>1, <3>2
    <2>5. s.source[c] \in Kinds
        OBVIOUS
    <2> QED BY <1>7, <2>2, <2>3, <2>4, <2>5 DEF Kinds
<1> QED BY <1>7

Cur(s, w, c) == s.cell[w][c].value = Computed(s, w, c)

(* t is s with columns C of rows R recomputed. *)
Recomputes(s, t, R, C) ==
    /\ Shaped(t) /\ Frame(s, t) /\ t.coloured = s.coloured
    /\ \A w \in Rows, c \in Columns :
        /\ t.cell[w][c].link = s.cell[w][c].link /\ t.cell[w][c].colour = s.cell[w][c].colour
        /\ w \in R /\ c \in C /\ s.source[c] # "manual" => t.cell[w][c].value = Computed(s, w, c)
        /\ ~(w \in R /\ c \in C /\ s.source[c] # "manual") => t.cell[w][c].value = s.cell[w][c].value

LEMMA RecomputedIs ==
    ASSUME NEW s, Shaped(s), NEW w \in Rows, NEW C, NEW t, t = WithRecomputed(s, w, C)
    PROVE  Recomputes(s, t, {w}, C)
<1>1. PICK r : r = [c \in Columns |-> IF c \in C /\ s.source[c] # "manual"
                                      THEN Valued(s.cell[w][c], Computed(s, w, c)) ELSE s.cell[w][c]]
    OBVIOUS
<1>2. PICK cells : cells = [s.cell EXCEPT ![w] = r]
    OBVIOUS
<1>3. t = [s EXCEPT !.cell = cells]
    BY <1>1, <1>2 DEF WithRecomputed
<1>4. DOMAIN r = Columns
    BY <1>1
<1>5. DOMAIN cells = Rows /\ cells[w] = r /\ \A v \in Rows : v # w => cells[v] = s.cell[v]
    BY <1>2 DEF Shaped
<1>6. ASSUME NEW c \in Columns
      PROVE  /\ DOMAIN r[c] = CellFields
             /\ r[c].link = s.cell[w][c].link /\ r[c].colour = s.cell[w][c].colour
             /\ c \in C /\ s.source[c] # "manual" => r[c].value = Computed(s, w, c)
             /\ ~(c \in C /\ s.source[c] # "manual") => r[c] = s.cell[w][c]
    <2>1. DOMAIN s.cell[w][c] = CellFields
        BY DEF Shaped
    <2>2. CASE c \in C /\ s.source[c] # "manual"
        <3>1. r[c] = Valued(s.cell[w][c], Computed(s, w, c))
            BY <1>1, <2>2
        <3> QED BY <2>1, <2>2, <3>1, CellsAre
    <2>3. CASE ~(c \in C /\ s.source[c] # "manual")
        <3>1. r[c] = s.cell[w][c]
            BY <1>1, <2>3
        <3> QED BY <2>1, <2>3, <3>1
    <2> QED BY <2>2, <2>3
<1>7. /\ \A v \in Rows : DOMAIN cells[v] = Columns
      /\ \A v \in Rows, c \in Columns : DOMAIN cells[v][c] = CellFields
    BY <1>4, <1>5, <1>6 DEF Shaped
<1>8. Shaped(t) /\ Frame(s, t) /\ t.coloured = s.coloured /\ t.cell = cells
    BY <1>3, <1>5, <1>7, CellsPut
<1> QED BY <1>5, <1>6, <1>8 DEF Recomputes

LEMMA EachIs ==
    ASSUME NEW s, Shaped(s), NEW R, NEW C, NEW t, t = EachRecomputed(s, R, C)
    PROVE  Recomputes(s, t, R, C)
<1>1. PICK cells : cells = [w \in Rows |-> IF w \in R THEN WithRecomputed(s, w, C).cell[w] ELSE s.cell[w]]
    OBVIOUS
<1>2. t = [s EXCEPT !.cell = cells]
    BY <1>1 DEF EachRecomputed
<1>3. ASSUME NEW w \in Rows
      PROVE  /\ DOMAIN cells[w] = Columns
             /\ \A c \in Columns :
                /\ DOMAIN cells[w][c] = CellFields
                /\ cells[w][c].link = s.cell[w][c].link /\ cells[w][c].colour = s.cell[w][c].colour
                /\ w \in R /\ c \in C /\ s.source[c] # "manual" => cells[w][c].value = Computed(s, w, c)
                /\ ~(w \in R /\ c \in C /\ s.source[c] # "manual") => cells[w][c].value = s.cell[w][c].value
    <2>1. CASE w \in R
        <3>1. PICK u : u = WithRecomputed(s, w, C)
            OBVIOUS
        <3>2. Recomputes(s, u, {w}, C)
            BY <3>1, RecomputedIs
        <3>3. cells[w] = u.cell[w]
            BY <1>1, <2>1, <3>1
        <3> QED BY <2>1, <3>2, <3>3 DEF Recomputes, Shaped
    <2>2. CASE w \notin R
        <3>1. cells[w] = s.cell[w]
            BY <1>1, <2>2
        <3> QED BY <2>2, <3>1 DEF Shaped
    <2> QED BY <2>1, <2>2
<1>4. DOMAIN cells = Rows
    BY <1>1
<1>5. Shaped(t) /\ Frame(s, t) /\ t.coloured = s.coloured /\ t.cell = cells
    BY <1>2, <1>3, <1>4, CellsPut
<1> QED BY <1>3, <1>5 DEF Recomputes

(* One pass is enough, and it spoils no other cell. *)
LEMMA Recomputing ==
    ASSUME NEW s, NEW t, NEW R, NEW C, Shaped(s), Recomputes(s, t, R, C)
    PROVE  \A w \in Rows, c \in Columns :
              /\ Computed(t, w, c) = Computed(s, w, c) \/ s.source[c] = "manual"
              /\ w \in R /\ c \in C => Cur(t, w, c)
              /\ Cur(s, w, c) => Cur(t, w, c)
<1> SUFFICES ASSUME NEW w \in Rows, NEW c \in Columns
             PROVE  /\ Computed(t, w, c) = Computed(s, w, c) \/ s.source[c] = "manual"
                    /\ w \in R /\ c \in C => Cur(t, w, c)
                    /\ Cur(s, w, c) => Cur(t, w, c)
    OBVIOUS
<1>1. Agree(s, t, w)
    BY DEF Recomputes, Agree, Frame
<1>2. CASE s.source[c] # "manual"
    <2>1. Computed(t, w, c) = Computed(s, w, c)
        BY <1>1, <1>2, ComputedAlike DEF Shaped
    <2> QED BY <1>2, <2>1 DEF Recomputes, Cur
<1>3. CASE s.source[c] = "manual"
    <2>1. t.source[c] = "manual"
        BY <1>3 DEF Recomputes, Frame
    <2>2. Computed(t, w, c) = t.cell[w][c].value
        BY <2>1 DEF Computed
    <2> QED BY <1>3, <2>2 DEF Cur
<1> QED BY <1>2, <1>3

LEMMA RecomputedSound ==
    ASSUME NEW s, NEW t, NEW R, NEW C, Sound(s), Recomputes(s, t, R, C),
           \A w \in R : s.row[w].life # "unmade"
    PROVE  Sound(t)
<1>1. Shaped(s) /\ Shaped(t) /\ Frame(s, t)
    BY DEF Sound, Recomputes
<1>2. \A g \in Groups : s.source[Main(g)] = "manual" /\ s.source[Remarks(g)] = "manual"
    BY ColumnsAre, GivenIs DEF Sound, SourcesFit
<1>3. \A w \in Rows, g \in Groups :
        /\ t.cell[w][Main(g)].value = s.cell[w][Main(g)].value
        /\ t.cell[w][Remarks(g)].value = s.cell[w][Remarks(g)].value
        /\ t.cell[w][Main(g)].colour = s.cell[w][Main(g)].colour
    BY <1>2, ColumnsAre DEF Recomputes
<1>4. LinksFit(t) /\ ColoursFit(t)
    BY <1>1 DEF Sound, LinksFit, ColoursFit, Recomputes, Frame
<1>5. NoZero(t) /\ Bare(t)
    BY <1>3 DEF Sound, NoZero, Bare
<1>6. SourcesFit(t)
    BY <1>1 DEF Sound, SourcesFit, Frame
<1>7. RowsFit(t)
    <2>1. LiveProducts(t) = LiveProducts(s)
        BY <1>1 DEF LiveProducts, Frame
    <2>2. \A w \in Rows : t.row[w].life = "unmade" => \A c \in Columns : t.cell[w][c].value = None
        BY <1>1 DEF Sound, RowsFit, Recomputes, Frame
    <2> QED BY <1>1, <2>1, <2>2 DEF Sound, RowsFit, Frame
<1> QED BY <1>1, <1>4, <1>5, <1>6, <1>7 DEF Sound

-----------------------------------------------------------------------------
(* Lookups and package counts *)

Kept(s, c) == s.source[c] = "lookup" \/ c[1] = "pkg"

(* What a row's lookups and package counts are computed from. *)
SameView(s, t, w) ==
    /\ LookedUp(t, w, None) = LookedUp(s, w, None)
    /\ t.cell[w][Qty].link = s.cell[w][Qty].link
    /\ LookedUp(t, w, t.cell[w][Qty].link) = LookedUp(s, w, s.cell[w][Qty].link)
    /\ \A g \in Groups : t.cell[w][Main(g)].value = s.cell[w][Main(g)].value

LEMMA LookupIs ==
    ASSUME NEW s, SourcesFit(s), NEW w \in Rows
    PROVE  /\ \A c \in Columns : s.source[c] = "lookup" => Computed(s, w, c) = LookedUp(s, w, None)
           /\ \A g \in Groups : Computed(s, w, Pkg(g)) = PkgCount(s, w, g)
           /\ \A g \in Groups : Sibling(s, w, Main(g)) = s.cell[w][Main(g)].value
           /\ Sibling(s, w, Qty) = LookedUp(s, w, s.cell[w][Qty].link)
<1>1. \A c \in Columns : s.source[c] = "lookup" => Computed(s, w, c) = LookedUp(s, w, None)
    BY DEF Computed
<1>2. ASSUME NEW g \in Groups
      PROVE  Computed(s, w, Pkg(g)) = PkgCount(s, w, g) /\ Sibling(s, w, Main(g)) = s.cell[w][Main(g)].value
    <2>1. PICK c : c = Pkg(g)
        OBVIOUS
    <2>2. s.source[c] = "formula" /\ c[1] = "pkg" /\ c[2] = g
        BY <2>1, ColumnsAre, GivenIs, NamesAre DEF SourcesFit
    <2>3. Computed(s, w, c) = PkgCount(s, w, g)
        BY <2>2 DEF Computed
    <2>4. s.source[Main(g)] = "manual"
        BY ColumnsAre, GivenIs DEF SourcesFit
    <2>5. Sibling(s, w, Main(g)) = s.cell[w][Main(g)].value
        BY <2>4 DEF Sibling
    <2> QED BY <2>1, <2>3, <2>5
<1>3. s.source[Qty] = "lookup"
    BY ColumnsAre, GivenIs DEF SourcesFit
<1>4. Sibling(s, w, Qty) = LookedUp(s, w, s.cell[w][Qty].link)
    BY <1>3 DEF Sibling
<1> QED BY <1>1, <1>2, <1>4

LEMMA KeptIs ==
    ASSUME NEW s, SourcesFit(s), NEW c \in Columns, Kept(s, c)
    PROVE  s.source[c] = "lookup" \/ \E g \in Groups : c = Pkg(g)
BY NamedColumn DEF Kept

LEMMA ViewAlike ==
    ASSUME NEW s, NEW t, SourcesFit(s), SourcesFit(t), NEW w \in Rows, SameView(s, t, w)
    PROVE  \A c \in Columns : Kept(s, c) /\ Kept(t, c) => Computed(t, w, c) = Computed(s, w, c)
<1> SUFFICES ASSUME NEW c \in Columns, Kept(s, c), Kept(t, c)
             PROVE  Computed(t, w, c) = Computed(s, w, c)
    OBVIOUS
<1>1. CASE \E g \in Groups : c = Pkg(g)
    <2>1. PICK g \in Groups : c = Pkg(g)
        BY <1>1
    <2>2. Sibling(t, w, Main(g)) = Sibling(s, w, Main(g)) /\ Sibling(t, w, Qty) = Sibling(s, w, Qty)
        BY LookupIs DEF SameView
    <2>3. PkgCount(t, w, g) = PkgCount(s, w, g)
        BY <2>2 DEF PkgCount
    <2> QED BY <2>1, <2>3, LookupIs
<1>2. CASE ~\E g \in Groups : c = Pkg(g)
    <2>1. s.source[c] = "lookup" /\ t.source[c] = "lookup"
        BY <1>2, KeptIs
    <2> QED BY <2>1, LookupIs DEF SameView
<1> QED BY <1>1, <1>2

(* A row stays fresh when nothing it looks at and nothing it stores moves. *)
LEMMA StaysFresh ==
    ASSUME NEW s, NEW t, SourcesFit(s), SourcesFit(t), NEW w \in Rows, SameView(s, t, w), FreshRow(s, w),
           \A c \in Columns : Kept(t, c) => (Kept(s, c) /\ t.cell[w][c].value = s.cell[w][c].value) \/ Cur(t, w, c)
    PROVE  FreshRow(t, w)
<1> SUFFICES ASSUME NEW c \in Columns, Kept(t, c)
             PROVE  t.cell[w][c].value = Computed(t, w, c)
    BY DEF FreshRow, Kept
<1>1. CASE Kept(s, c) /\ t.cell[w][c].value = s.cell[w][c].value
    BY <1>1, ViewAlike DEF FreshRow, Kept
<1>2. CASE Cur(t, w, c)
    BY <1>2 DEF Cur
<1> QED BY <1>1, <1>2

-----------------------------------------------------------------------------
(* Statuses and what follows from a typed value *)

(* u is s but for colours, and for some cells of row w. *)
Near(s, u, w) ==
    /\ Shaped(u) /\ Frame(s, u)
    /\ \A v \in Rows, d \in Columns : u.cell[v][d].link = s.cell[v][d].link
    /\ \A v \in Rows, d \in Columns : v # w => u.cell[v][d] = s.cell[v][d]

LEMMA NearChain ==
    ASSUME NEW s, NEW t, NEW u, NEW w, Near(s, t, w), Near(t, u, w)
    PROVE  Near(s, u, w)
BY DEF Near, Frame

LEMMA NearSelf ==
    ASSUME NEW s, Shaped(s), NEW w
    PROVE  Near(s, s, w)
BY DEF Near, Frame

LEMMA PutNear ==
    ASSUME NEW s, Shaped(s), NEW w \in Rows, NEW c \in Columns, NEW x, DOMAIN x = CellFields,
           x.link = s.cell[w][c].link, NEW t, t = WithCell(s, w, c, x)
    PROVE  Near(s, t, w) /\ t.cell[w][c] = x /\ \A d \in Columns : d # c => t.cell[w][d] = s.cell[w][d]
<1>1. /\ Shaped(t) /\ Frame(s, t) /\ t.cell[w][c] = x
      /\ \A v \in Rows, d \in Columns : v # w \/ d # c => t.cell[v][d] = s.cell[v][d]
    BY WithCellIs
<1> QED BY <1>1 DEF Near

LEMMA ColoursOn ==
    ASSUME NEW s, Shaped(s), NEW w \in Rows, NEW c \in Columns, NEW t, t = WithColoursOn(s, c)
    PROVE  Near(s, t, w) /\ t.cell = s.cell
<1>1. PICK on : on = IF c[1] = "main" THEN s.coloured \cup {c} ELSE s.coloured
    OBVIOUS
<1>2. on \subseteq Columns
    BY <1>1 DEF Shaped
<1>3. t = [s EXCEPT !.coloured = on]
    BY <1>1 DEF WithColoursOn
<1>4. DOMAIN t = Fields /\ Frame(s, t) /\ t.coloured = on /\ t.cell = s.cell
    BY <1>3 DEF Shaped, Frame, Fields
<1>5. Shaped(t)
    BY <1>2, <1>4 DEF Shaped, Frame
<1> QED BY <1>4, <1>5 DEF Near

LEMMA ColourIs ==
    ASSUME NEW s, Shaped(s), NEW w \in Rows, NEW c \in Columns, NEW colour, NEW t, t = WithColour(s, w, c, colour)
    PROVE  /\ Near(s, t, w)
           /\ \A d \in Columns : d # c => t.cell[w][d] = s.cell[w][d]
           /\ t.cell[w][c].value = s.cell[w][c].value
           /\ t.cell[w][c].colour \in {s.cell[w][c].colour, colour}
           /\ colour = None => t.cell[w][c].colour = None
           /\ t.cell[w][c].colour # s.cell[w][c].colour /\ colour # None => Active(s.cell[w][c].value)
<1>1. PICK on : on = WithColoursOn(s, c)
    OBVIOUS
<1>2. Near(s, on, w) /\ on.cell = s.cell
    BY <1>1, ColoursOn
<1>3. PICK x : x = Coloured(on.cell[w][c], colour)
    OBVIOUS
<1>4. DOMAIN x = CellFields /\ x.value = s.cell[w][c].value /\ x.link = s.cell[w][c].link /\ x.colour = colour
    BY <1>2, <1>3, CellsAre DEF Near, Shaped
<1>5. CASE MayColour(on, w, c, colour)
    <2>1. t = WithCell(on, w, c, x)
        BY <1>1, <1>3, <1>5 DEF WithColour
    <2>2. Near(on, t, w) /\ t.cell[w][c] = x /\ \A d \in Columns : d # c => t.cell[w][d] = on.cell[w][d]
        <3>1. Shaped(on) /\ x.link = on.cell[w][c].link
            BY <1>2, <1>4 DEF Near
        <3> QED BY ONLY <1>4, <2>1, <3>1, PutNear, w \in Rows, c \in Columns
    <2>3. Near(s, t, w)
        BY <1>2, <2>2, NearChain
    <2>4. colour # None => Active(s.cell[w][c].value)
        BY <1>2, <1>5 DEF MayColour
    <2> QED BY <1>2, <1>4, <2>2, <2>3, <2>4
<1>6. CASE ~MayColour(on, w, c, colour)
    <2>1. t = on /\ colour # None
        BY <1>1, <1>6 DEF WithColour, MayColour
    <2> QED BY <1>2, <2>1
<1> QED BY <1>5, <1>6

LEMMA BlankIs ==
    ASSUME NEW s, Shaped(s), NEW w \in Rows, NEW c \in Columns, NEW t, t = Blank(s, w, c)
    PROVE  /\ Near(s, t, w) /\ t.cell[w][c].value = None /\ t.cell[w][c].colour = s.cell[w][c].colour
           /\ \A d \in Columns : d # c => t.cell[w][d] = s.cell[w][d]
<1>1. PICK x : x = Valued(s.cell[w][c], None)
    OBVIOUS
<1>2. DOMAIN x = CellFields /\ x.value = None /\ x.link = s.cell[w][c].link /\ x.colour = s.cell[w][c].colour
    BY <1>1, CellsAre DEF Shaped
<1>3. t = WithCell(s, w, c, x)
    BY <1>1 DEF Blank
<1>4. Near(s, t, w) /\ t.cell[w][c] = x /\ \A d \in Columns : d # c => t.cell[w][d] = s.cell[w][d]
    BY <1>2, <1>3, PutNear
<1> QED BY <1>2, <1>4

LEMMA NamesDiffer ==
    /\ \A g, h : Main(g) # Remarks(h) /\ Main(g) # Approval /\ Main(g) # Free /\ Remarks(g) # Approval /\ Remarks(g) # Free
    /\ \A g, h : Main(g) = Main(h) => g = h
    /\ \A g, h : Remarks(g) = Remarks(h) => g = h
BY NamesAre

(* What clearing main column g of row w leaves. *)
LEMMA ClearedIs ==
    ASSUME NEW s, Shaped(s), NEW w \in Rows, NEW g \in Groups, NEW t, t = Cleared(s, w, g)
    PROVE  /\ Near(s, t, w)
           /\ t.cell[w][Main(g)].colour = None /\ t.cell[w][Main(g)].value = s.cell[w][Main(g)].value
           /\ t.cell[w][Remarks(g)].value = None /\ t.cell[w][Remarks(g)].colour = s.cell[w][Remarks(g)].colour
           /\ t.cell[w][Approval].colour = s.cell[w][Approval].colour
           /\ \A d \in Columns \ {Main(g), Remarks(g), Approval} : t.cell[w][d] = s.cell[w][d]
<1> DEFINE W == WithColour(s, w, Main(g), None)
           B == Blank(W, w, Remarks(g))
<1>1. {Main(g), Remarks(g), Approval} \subseteq Columns
    BY ColumnsAre
<1>2. Main(g) # Remarks(g) /\ Main(g) # Approval /\ Remarks(g) # Approval
    BY NamesDiffer
<1>3. PICK m, r, a : m = Main(g) /\ r = Remarks(g) /\ a = Approval
    OBVIOUS
<1>4. PICK white : white = W
    OBVIOUS
<1>5. PICK bare : bare = B
    OBVIOUS
<1>6. t = bare \/ t = Blank(bare, w, a)
    BY <1>3, <1>5 DEF Cleared
<1>7. white = WithColour(s, w, m, None) /\ bare = Blank(white, w, r)
    BY <1>3, <1>4, <1>5
<1> HIDE DEF W, B
<1>8. m \in Columns /\ r \in Columns /\ a \in Columns /\ m # r /\ m # a /\ r # a
    BY <1>1, <1>2, <1>3
<1>9. /\ Near(s, white, w) /\ Shaped(white)
      /\ \A d \in Columns : d # m => white.cell[w][d] = s.cell[w][d]
      /\ white.cell[w][m].value = s.cell[w][m].value /\ white.cell[w][m].colour = None
    <2>1. /\ Near(s, white, w)
          /\ \A d \in Columns : d # m => white.cell[w][d] = s.cell[w][d]
          /\ white.cell[w][m].value = s.cell[w][m].value /\ white.cell[w][m].colour = None
        BY <1>7, <1>8, ColourIs
    <2> QED BY <2>1 DEF Near
<1>10. /\ Near(white, bare, w) /\ Shaped(bare)
       /\ bare.cell[w][r].value = None /\ bare.cell[w][r].colour = white.cell[w][r].colour
       /\ \A d \in Columns : d # r => bare.cell[w][d] = white.cell[w][d]
    <2>1. /\ Near(white, bare, w)
          /\ bare.cell[w][r].value = None /\ bare.cell[w][r].colour = white.cell[w][r].colour
          /\ \A d \in Columns : d # r => bare.cell[w][d] = white.cell[w][d]
        BY <1>7, <1>8, <1>9, BlankIs
    <2> QED BY <2>1 DEF Near
<1>11. /\ Near(bare, t, w) /\ t.cell[w][a].colour = bare.cell[w][a].colour
       /\ \A d \in Columns : d # a => t.cell[w][d] = bare.cell[w][d]
    BY <1>6, <1>8, <1>10, BlankIs, NearSelf
<1>12. Near(s, t, w)
    BY <1>9, <1>10, <1>11, NearChain
<1>13. /\ t.cell[w][m].colour = None /\ t.cell[w][m].value = s.cell[w][m].value
       /\ t.cell[w][r].value = None /\ t.cell[w][r].colour = s.cell[w][r].colour
       /\ t.cell[w][a].colour = s.cell[w][a].colour
       /\ \A d \in Columns \ {m, r, a} : t.cell[w][d] = s.cell[w][d]
    BY <1>8, <1>9, <1>10, <1>11
<1> QED BY <1>3, <1>12, <1>13

(* What following up value v in column c leaves. *)
Follows(s, t, w, c, v) ==
    /\ Near(s, t, w) /\ t.cell[w][c].value = v
    /\ \A d \in Columns : /\ t.cell[w][d].value \in {s.cell[w][d].value, None}
                          /\ t.cell[w][d].colour \in {s.cell[w][d].colour, "blue", None}
    /\ \A g \in Groups : /\ t.cell[w][Main(g)].value = s.cell[w][Main(g)].value
                         /\ Main(g) # c => t.cell[w][Main(g)] = s.cell[w][Main(g)]
    /\ v = None => \A g \in Groups :
        c = Main(g) => t.cell[w][c].colour = None /\ t.cell[w][Remarks(g)].value = None

LEMMA FollowedIs ==
    ASSUME NEW s, Shaped(s), NEW w \in Rows, NEW c \in Columns, NEW v, v = s.cell[w][c].value,
           NEW t, t = Followed(s, w, c, v)
    PROVE  Follows(s, t, w, c, v)
<1>1. CASE c[1] = "main" /\ v = None
    <2>1. PICK g \in Groups : g = c[2] /\ c = Main(g)
        BY <1>1, NamedColumn
    <2>2. t = Cleared(s, w, g)
        BY <1>1, <2>1 DEF Followed
    <2>3. /\ Near(s, t, w)
          /\ t.cell[w][c].colour = None /\ t.cell[w][c].value = s.cell[w][c].value
          /\ t.cell[w][Remarks(g)].value = None /\ t.cell[w][Remarks(g)].colour = s.cell[w][Remarks(g)].colour
          /\ t.cell[w][Approval].colour = s.cell[w][Approval].colour
          /\ \A d \in Columns \ {c, Remarks(g), Approval} : t.cell[w][d] = s.cell[w][d]
        <3>1. PICK m : m = Main(g)
            OBVIOUS
        <3>2. /\ Near(s, t, w)
              /\ t.cell[w][m].colour = None /\ t.cell[w][m].value = s.cell[w][m].value
              /\ t.cell[w][Remarks(g)].value = None /\ t.cell[w][Remarks(g)].colour = s.cell[w][Remarks(g)].colour
              /\ t.cell[w][Approval].colour = s.cell[w][Approval].colour
              /\ \A d \in Columns \ {m, Remarks(g), Approval} : t.cell[w][d] = s.cell[w][d]
            BY <2>2, <3>1, ClearedIs
        <3>3. m = c
            BY <2>1, <3>1
        <3> QED BY <3>2, <3>3
    <2>4. \A d \in Columns : t.cell[w][d].value = s.cell[w][d].value \/ d \in {Remarks(g), Approval}
        BY <2>3
    <2>5. t.cell[w][Approval].value \in {s.cell[w][Approval].value, None}
        <3>1. PICK white : white = WithColour(s, w, Main(g), None)
            OBVIOUS
        <3>2. PICK bare : bare = Blank(white, w, Remarks(g))
            OBVIOUS
        <3>3. t = bare \/ t = Blank(bare, w, Approval)
            BY <2>2, <3>1, <3>2 DEF Cleared
        <3>4. Near(s, white, w) /\ white.cell[w][Approval] = s.cell[w][Approval]
            BY <3>1, ColourIs, ColumnsAre, NamesDiffer
        <3>5. Shaped(white)
            BY <3>4 DEF Near
        <3>6. Near(white, bare, w) /\ bare.cell[w][Approval] = white.cell[w][Approval]
            BY <3>2, <3>5, BlankIs, ColumnsAre, NamesDiffer
        <3>7. Shaped(bare)
            BY <3>6 DEF Near
        <3>8. CASE t = bare
            BY <3>4, <3>6, <3>8
        <3>9. CASE t = Blank(bare, w, Approval)
            BY <3>7, <3>9, BlankIs, ColumnsAre
        <3> QED BY <3>3, <3>8, <3>9
    <2>6. \A d \in Columns : t.cell[w][d].value \in {s.cell[w][d].value, None}
        BY <2>3, <2>4, <2>5
    <2>7. \A d \in Columns : t.cell[w][d].colour \in {s.cell[w][d].colour, "blue", None}
        BY <2>3
    <2>8. \A h \in Groups : Main(h) # c => t.cell[w][Main(h)] = s.cell[w][Main(h)]
        <3> SUFFICES ASSUME NEW h \in Groups, Main(h) # c
                     PROVE  t.cell[w][Main(h)] = s.cell[w][Main(h)]
            OBVIOUS
        <3>1. PICK m : m = Main(h)
            OBVIOUS
        <3>2. m \in Columns \ {c, Remarks(g), Approval}
            BY <3>1, ColumnsAre, NamesDiffer
        <3> QED BY <2>3, <3>1, <3>2
    <2>9. \A h \in Groups : c = Main(h) => h = g
        BY <2>1, NamesDiffer
    <2> QED BY <2>1, <2>3, <2>6, <2>7, <2>8, <2>9 DEF Follows
<1>2. CASE t = WithColour(s, w, c, "blue") /\ ~(c[1] = "main" /\ v = None)
    <2>0. v = None => \A g \in Groups : c # Main(g)
        BY <1>2, NamesAre
    <2>1. /\ Near(s, t, w)
          /\ \A d \in Columns : d # c => t.cell[w][d] = s.cell[w][d]
          /\ t.cell[w][c].value = s.cell[w][c].value
          /\ t.cell[w][c].colour \in {s.cell[w][c].colour, "blue"}
        BY <1>2, ColourIs
    <2>2. \A d \in Columns : /\ t.cell[w][d].value \in {s.cell[w][d].value, None}
                             /\ t.cell[w][d].colour \in {s.cell[w][d].colour, "blue", None}
        BY <2>1
    <2> QED BY <1>2, <2>0, <2>1, <2>2, ColumnsAre DEF Follows
<1>3. CASE t = s /\ ~(c[1] = "main" /\ v = None)
    <2>1. v = None => \A g \in Groups : c # Main(g)
        BY <1>3, NamesAre
    <2> QED BY <1>3, <2>1, NearSelf DEF Follows
<1>4. ~(c[1] = "main" /\ v = None) => t = s \/ t = WithColour(s, w, c, "blue")
    BY NamesAre DEF Followed
<1> QED BY <1>1, <1>2, <1>3, <1>4

(* The sheet after a value was typed and what follows was done, before the *)
(* row is recomputed.                                                      *)
LEMMA TypedIs ==
    ASSUME NEW s, Sound(s), NEW w \in Rows, s.row[w].life = "live", NEW c \in Columns, s.source[c] = "manual",
           NEW typed, NEW v, v = Stored(c, typed),
           c[1] = "remarks" /\ v # None => Active(s.cell[w][Main(c[2])].value),
           NEW written, written = WithCell(s, w, c, Valued(s.cell[w][c], v)),
           NEW t, t = Followed(written, w, c, v)
    PROVE  Sound(t) /\ Near(s, t, w) /\ t.cell[w][c].value = v
<1>1. PICK x : x = Valued(s.cell[w][c], v)
    OBVIOUS
<1>2. Shaped(s) /\ DOMAIN x = CellFields /\ x.value = v /\ x.link = s.cell[w][c].link /\ x.colour = s.cell[w][c].colour
    BY <1>1, CellsAre DEF Sound, Shaped
<1>3. written = WithCell(s, w, c, x)
    BY <1>1
<1>4. Near(s, written, w) /\ written.cell[w][c] = x /\ \A d \in Columns : d # c => written.cell[w][d] = s.cell[w][d]
    BY <1>2, <1>3, PutNear
<1>5. Shaped(written) /\ v = written.cell[w][c].value
    BY <1>2, <1>4 DEF Near
<1>6. /\ Near(written, t, w) /\ t.cell[w][c].value = v
      /\ \A d \in Columns : /\ t.cell[w][d].value \in {written.cell[w][d].value, None}
                            /\ t.cell[w][d].colour \in {written.cell[w][d].colour, "blue", None}
      /\ \A g \in Groups : /\ t.cell[w][Main(g)].value = written.cell[w][Main(g)].value
                           /\ Main(g) # c => t.cell[w][Main(g)] = written.cell[w][Main(g)]
      /\ v = None => \A g \in Groups : c = Main(g) =>
                         t.cell[w][c].colour = None /\ t.cell[w][Remarks(g)].value = None
    <2>1. Follows(written, t, w, c, v)
        BY ONLY <1>5, FollowedIs, t = Followed(written, w, c, v), w \in Rows, c \in Columns
    <2> QED BY <2>1 DEF Follows
<1>7. Near(s, t, w)
    BY <1>4, <1>6, NearChain
<1>8. Shaped(t) /\ Frame(s, t)
    BY <1>7 DEF Near
<1>9. /\ \A d \in Columns : t.cell[w][d].colour \in {s.cell[w][d].colour, "blue", None}
      /\ \A g \in Groups : Main(g) # c => t.cell[w][Main(g)] = s.cell[w][Main(g)]
      /\ \A d \in Columns : d # c => t.cell[w][d].value \in {s.cell[w][d].value, None}
    BY <1>2, <1>4, <1>6, ColumnsAre
<1>10. \A u \in Rows, d \in Columns : u # w => t.cell[u][d] = s.cell[u][d]
    BY <1>7 DEF Near
<1>11. LinksFit(t)
    BY <1>7 DEF Sound, LinksFit, Near, Frame
<1>12. ColoursFit(t)
    BY <1>9, <1>10, ColoursAssumption DEF Sound, ColoursFit
<1>13. NoZero(t)
    <2>1. c[1] = "main" => v # 0
        BY NoneAssumption DEF Stored
    <2> SUFFICES ASSUME NEW u \in Rows, NEW g \in Groups
                 PROVE  t.cell[u][Main(g)].value # 0
        BY DEF NoZero
    <2>2. PICK m \in Columns : m = Main(g)
        BY ColumnsAre
    <2>3. s.cell[u][m].value # 0
        BY <2>2 DEF Sound, NoZero
    <2>4. CASE u = w /\ m = c
        <3>1. c[1] = "main"
            BY <2>2, <2>4 DEF Main
        <3>2. t.cell[w][c].value = v
            BY <1>6
        <3>3. u = w /\ Main(g) = c
            BY <2>2, <2>4
        <3> QED BY <2>1, <3>1, <3>2, <3>3
    <2>5. CASE u = w /\ m # c
        BY <1>9, <2>2, <2>3, <2>5
    <2>6. CASE u # w
        BY <1>10, <2>2, <2>3, <2>6
    <2> QED BY <2>2, <2>4, <2>5, <2>6
<1>14. Bare(t)
    <2> SUFFICES ASSUME NEW u \in Rows, NEW g \in Groups, t.cell[u][Main(g)].value = None
                 PROVE  t.cell[u][Main(g)].colour = None /\ t.cell[u][Remarks(g)].value = None
        BY DEF Bare
    <2>1. CASE u # w
        <3>1. PICK m, r \in Columns : m = Main(g) /\ r = Remarks(g)
            BY ColumnsAre
        <3>2. t.cell[u][m] = s.cell[u][m] /\ t.cell[u][r] = s.cell[u][r]
            BY <1>10, <2>1, <3>1
        <3>3. s.cell[u][m].value = None => s.cell[u][m].colour = None /\ s.cell[u][r].value = None
            BY <3>1 DEF Sound, Bare
        <3> QED BY <3>1, <3>2, <3>3
    <2>2. CASE u = w /\ c = Main(g)
        BY <1>6, <2>2
    <2>3. CASE u = w /\ c # Main(g)
        <3>1. /\ t.cell[w][Main(g)] = s.cell[w][Main(g)]
              /\ s.cell[w][Main(g)].colour = None /\ s.cell[w][Remarks(g)].value = None
            BY <1>9, <2>3 DEF Sound, Bare
        <3>2. CASE c # Remarks(g)
            BY <1>9, <2>3, <3>1, <3>2, ColumnsAre
        <3>3. CASE c = Remarks(g)
            <4>1. ~Active(None)
                BY NoneAssumption DEF Active, IsNumber
            <4>2. v = None
                BY <2>3, <3>1, <3>3, <4>1, NamesAre
            <4> QED BY <1>6, <2>3, <3>1, <3>3, <4>2
        <3> QED BY <3>2, <3>3
    <2> QED BY <2>1, <2>2, <2>3
<1>15. SourcesFit(t)
    BY <1>8 DEF Sound, SourcesFit, Frame
<1>16. RowsFit(t)
    <2>1. LiveProducts(t) = LiveProducts(s)
        BY <1>8 DEF LiveProducts, Frame
    <2>2. \A u \in Rows : t.row[u].life = "unmade" => \A d \in Columns : t.cell[u][d].value = None
        BY <1>8, <1>10 DEF Sound, RowsFit, Frame
    <2> QED BY <1>8, <2>1, <2>2 DEF Sound, RowsFit, Frame
<1> QED BY <1>6, <1>7, <1>8, <1>11, <1>12, <1>13, <1>14, <1>15, <1>16 DEF Sound

-----------------------------------------------------------------------------
(* Steps *)

(* What WritesRefresh and TypedStays say of a step from s to t. *)
Edit(s, t, w) ==
    /\ Live(s, w) /\ Live(t, w)
    /\ \/ t.row[w].link # s.row[w].link
       \/ \E c \in Columns : /\ s.source[c] = "manual" /\ t.source[c] = "manual"
                             /\ t.cell[w][c].link = s.cell[w][c].link
                             /\ t.cell[w][c].value # s.cell[w][c].value
EditsRefresh(s, t) == \A w \in Rows : Edit(s, t, w) => \A c \in Columns : Cur(t, w, c)
SavesRefresh(s, t) == \A p \in Products : t.product[p].qty # s.product[p].qty =>
    \A w \in Rows, c \in Columns :
        Live(t, w) /\ (t.row[w].link = p \/ t.source[c] = "sum") => Cur(t, w, c)
Retyped(s, t, w) ==
    \E d \in Columns : t.cell[w][d].value # s.cell[w][d].value /\ s.source[d] = "manual" /\ Edit(s, t, w)
Stay(s, t) == \A w \in Rows, c \in Columns :
    s.source[c] = "manual" /\ s.cell[w][c].link = None /\ t.cell[w][c].value # s.cell[w][c].value =>
        t.source[c] # "manual" \/ Retyped(s, t, w)
Good(s, t) == Sound(t) /\ FreshIn(t) /\ EditsRefresh(s, t) /\ SavesRefresh(s, t) /\ Stay(s, t)

(* Most steps change no typed value but one that had a link, no link of a  *)
(* live row and no product's quantity.                                     *)
CalmCells(s, t) == \A w \in Rows, c \in Columns :
    s.source[c] = "manual" /\ t.source[c] = "manual" =>
        \/ t.cell[w][c].value = s.cell[w][c].value
        \/ s.cell[w][c].link # None /\ t.cell[w][c].link # s.cell[w][c].link
CalmRows(s, t) == \A w \in Rows : Live(s, w) /\ Live(t, w) => t.row[w].link = s.row[w].link
CalmProducts(s, t) == \A p \in Products : t.product[p].qty = s.product[p].qty

LEMMA CalmGood ==
    ASSUME NEW s, NEW t, Sound(t), FreshIn(t), CalmCells(s, t), CalmRows(s, t), CalmProducts(s, t)
    PROVE  Good(s, t)
<1>1. \A w \in Rows : ~Edit(s, t, w)
    BY DEF Edit, CalmCells, CalmRows
<1>2. Stay(s, t)
    BY DEF Stay, CalmCells
<1> QED BY <1>1, <1>2 DEF Good, EditsRefresh, SavesRefresh, CalmProducts

Twin(t, u) == DOMAIN u = Fields /\ Frame(t, u) /\ u.cell = t.cell /\ u.coloured = t.coloured

LEMMA TwinIs ==
    ASSUME NEW s, NEW t, NEW u, Good(s, t), Twin(t, u)
    PROVE  Good(s, u)
<1>1. Shaped(u)
    BY DEF Good, Sound, Shaped, Twin, Frame
<1>2. \A w \in Rows, c \in Columns : Computed(u, w, c) = Computed(t, w, c)
    <2> SUFFICES ASSUME NEW w \in Rows, NEW c \in Columns
                 PROVE  Computed(u, w, c) = Computed(t, w, c)
        OBVIOUS
    <2>1. CASE t.source[c] = "manual"
        BY <2>1 DEF Computed, Twin, Frame
    <2>2. CASE t.source[c] # "manual"
        <3>1. Agree(t, u, w)
            BY DEF Agree, Twin, Frame
        <3>2. t.source \in [Columns -> Kinds]
            BY DEF Good, Sound, Shaped
        <3> QED BY <2>2, <3>1, <3>2, ComputedAlike
    <2> QED BY <2>1, <2>2
<1>3. \A w \in Rows, c \in Columns : Cur(t, w, c) => Cur(u, w, c)
    BY <1>2 DEF Cur, Twin
<1>4. LiveProducts(u) = LiveProducts(t)
    BY DEF LiveProducts, Twin, Frame
<1>5. LinksFit(u) /\ ColoursFit(u) /\ NoZero(u) /\ Bare(u)
    BY DEF Good, Sound, LinksFit, ColoursFit, NoZero, Bare, Twin, Frame
<1>6. SourcesFit(u) /\ RowsFit(u)
    BY <1>4 DEF Good, Sound, SourcesFit, RowsFit, Twin, Frame
<1>7. FreshIn(u)
    BY <1>2 DEF Good, FreshIn, FreshRow, Live, Twin, Frame
<1>8. \A w \in Rows : Edit(s, u, w) <=> Edit(s, t, w)
    BY DEF Edit, Live, Twin, Frame
<1>9. EditsRefresh(s, u)
    BY <1>3, <1>8 DEF Good, EditsRefresh
<1>10. SavesRefresh(s, u)
    BY <1>3 DEF Good, SavesRefresh, Live, Twin, Frame
<1>11. Stay(s, u)
    BY <1>8 DEF Good, Stay, Retyped, Twin, Frame
<1> QED BY <1>1, <1>5, <1>6, <1>7, <1>9, <1>10, <1>11 DEF Good, Sound

Lands == \E t : Becomes(t) /\ Good(Sheet, t)

LEMMA SheetIs ==
    /\ DOMAIN Sheet = Fields
    /\ Sheet.row = row /\ Sheet.product = product /\ Sheet.cell = cell
    /\ Sheet.source = source /\ Sheet.coloured = coloured /\ Sheet.byHand = byHand
BY DEF Sheet, Fields

(* The sheet that a step writes to. *)
LEMMA NextSheet ==
    \E u : /\ u = Sheet' /\ DOMAIN u = Fields /\ Becomes(u)
           /\ u.row = row' /\ u.product = product' /\ u.cell = cell'
           /\ u.source = source' /\ u.coloured = coloured' /\ u.byHand = byHand'
<1>1. PICK u : u = [row |-> row', product |-> product', cell |-> cell', source |-> source',
                    coloured |-> coloured', byHand |-> byHand']
    OBVIOUS
<1>2. u = Sheet'
    BY <1>1 DEF Sheet
<1>3. /\ DOMAIN u = Fields
      /\ u.row = row' /\ u.product = product' /\ u.cell = cell'
      /\ u.source = source' /\ u.coloured = coloured' /\ u.byHand = byHand'
    BY <1>1 DEF Fields
<1> QED BY <1>2, <1>3 DEF Becomes

LEMMA Landed ==
    ASSUME Lands
    PROVE  Good(Sheet, Sheet')
<1>1. PICK t : Becomes(t) /\ Good(Sheet, t)
    BY DEF Lands
<1>2. PICK u : /\ u = Sheet' /\ DOMAIN u = Fields
               /\ u.row = row' /\ u.product = product' /\ u.cell = cell'
               /\ u.source = source' /\ u.coloured = coloured' /\ u.byHand = byHand'
    BY NextSheet
<1>3. Twin(t, u)
    BY <1>1, <1>2 DEF Becomes, Twin, Frame
<1>4. Good(Sheet, u)
    BY <1>1, <1>3, TwinIs
<1> QED BY <1>2, <1>4

LEMMA Primed ==
    ASSUME Good(Sheet, Sheet')
    PROVE  Sound(Sheet)' /\ FreshIn(Sheet)'
BY DEF Good

LEMMA AlikeFresh ==
    ASSUME NEW s, NEW t, SourcesFit(s), SourcesFit(t), t.source = s.source, NEW w \in Rows,
           t.row[w].link = s.row[w].link, t.product = s.product,
           \A c \in Columns : t.cell[w][c].link = s.cell[w][c].link /\ t.cell[w][c].value = s.cell[w][c].value,
           FreshRow(s, w)
    PROVE  FreshRow(t, w)
<1>1. \A link : LookedUp(t, w, link) = LookedUp(s, w, link)
    BY LookedUpAlike
<1>2. SameView(s, t, w)
    BY <1>1, ColumnsAre DEF SameView
<1>3. \A c \in Columns : Kept(t, c) => Kept(s, c) /\ t.cell[w][c].value = s.cell[w][c].value
    BY DEF Kept
<1> QED BY ONLY <1>2, <1>3, StaysFresh, SourcesFit(s), SourcesFit(t), FreshRow(s, w), w \in Rows

LEMMA SheetSound ==
    ASSUME IInv
    PROVE  /\ Sound(Sheet) /\ FreshIn(Sheet) /\ Shaped(Sheet) /\ SourcesFit(Sheet) /\ RowsFit(Sheet) /\ LinksFit(Sheet)
           /\ \A w : Live(Sheet, w) <=> row[w].life = "live"
BY DEF IInv, Sound, Live, Sheet

(* Typing a value. *)
LEMMA SetCellValueLands ==
    ASSUME IInv, NEW w \in Rows, NEW c \in Columns, NEW typed, SetCellValue(w, c, typed)
    PROVE  Lands
<1>1. PICK s : s = Sheet
    OBVIOUS
<1>2. PICK v : v = Stored(c, typed)
    OBVIOUS
<1>3. PICK written : written = WithCell(s, w, c, Valued(s.cell[w][c], v))
    OBVIOUS
<1>4. PICK f : f = Followed(written, w, c, v)
    OBVIOUS
<1>5. PICK t : t = WithRecomputed(f, w, Columns)
    OBVIOUS
<1>6. Becomes(t)
    BY <1>1, <1>2, <1>3, <1>4, <1>5, SheetIs DEF SetCellValue
<1>7. /\ s.row[w].life = "live" /\ s.source[c] = "manual"
      /\ c[1] = "remarks" /\ v # None => Active(s.cell[w][Main(c[2])].value)
      /\ v # s.cell[w][c].value
    BY <1>1, <1>2, SheetIs DEF SetCellValue, Live
<1>8. Sound(s) /\ FreshIn(s)
    BY <1>1, SheetSound
<1>9. Sound(f) /\ Near(s, f, w) /\ f.cell[w][c].value = v
    BY <1>2, <1>3, <1>4, <1>7, <1>8, TypedIs
<1>10. Shaped(f) /\ Frame(s, f) /\ \A u \in Rows, d \in Columns : u # w => f.cell[u][d] = s.cell[u][d]
    BY <1>9 DEF Near
<1>11. Recomputes(f, t, {w}, Columns)
    BY <1>5, <1>10, RecomputedIs
<1>12. Sound(t)
    <2>1. f.row[w].life # "unmade"
        BY <1>7, <1>10 DEF Frame
    <2> QED BY <1>9, <1>11, <2>1, RecomputedSound
<1>13. Frame(s, t)
    BY <1>10, <1>11 DEF Frame, Recomputes
<1>14. \A d \in Columns : Cur(t, w, d)
    BY <1>10, <1>11, Recomputing
<1>15. \A u \in Rows, d \in Columns : u # w =>
            t.cell[u][d].link = s.cell[u][d].link /\ t.cell[u][d].value = s.cell[u][d].value
    BY <1>10, <1>11 DEF Recomputes
<1>16. FreshIn(t)
    <2> SUFFICES ASSUME NEW u \in Rows, u \notin t.byHand, Live(t, u)
                 PROVE  FreshRow(t, u)
        BY DEF FreshIn
    <2>1. CASE u = w
        BY <1>14, <2>1 DEF FreshRow, Cur
    <2>2. CASE u # w
        <3>1. FreshRow(s, u)
            BY <1>8, <1>13 DEF FreshIn, Live, Frame
        <3>2. t.source = s.source /\ t.row[u].link = s.row[u].link /\ t.product = s.product
            BY <1>13 DEF Frame
        <3>3. SourcesFit(s) /\ SourcesFit(t)
            BY <1>8, <1>12 DEF Sound
        <3>4. \A d \in Columns : t.cell[u][d].link = s.cell[u][d].link /\ t.cell[u][d].value = s.cell[u][d].value
            BY <1>15, <2>2
        <3> QED BY ONLY <3>1, <3>2, <3>3, <3>4, AlikeFresh, u \in Rows
    <2> QED BY <2>1, <2>2
<1>17. \A u \in Rows : Edit(s, t, u) => u = w
    BY <1>13, <1>15 DEF Edit, Frame
<1>18. Edit(s, t, w) /\ t.cell[w][c].value # s.cell[w][c].value
    <2>1. t.cell[w][c].link = s.cell[w][c].link
        BY <1>9, <1>11 DEF Near, Recomputes
    <2>2. t.cell[w][c].value = v
        BY <1>7, <1>9, <1>10, <1>11 DEF Recomputes, Frame
    <2>3. Live(s, w) /\ Live(t, w) /\ t.source[c] = "manual"
        BY <1>7, <1>13 DEF Live, Frame
    <2> QED BY <1>7, <2>1, <2>2, <2>3 DEF Edit
<1>19. EditsRefresh(s, t)
    BY <1>14, <1>17 DEF EditsRefresh
<1>20. SavesRefresh(s, t)
    BY <1>13 DEF SavesRefresh, Frame
<1>21. Stay(s, t)
    <2>1. Retyped(s, t, w)
        BY <1>7, <1>18 DEF Retyped
    <2> QED BY <1>15, <2>1 DEF Stay
<1>22. Good(s, t)
    BY <1>12, <1>16, <1>19, <1>20, <1>21 DEF Good
<1> QED BY <1>1, <1>6, <1>22 DEF Lands

(* A step that changes no value, link or row. *)
LEMMA StillLands ==
    ASSUME IInv, NEW t, Becomes(t), Sound(t), Frame(Sheet, t),
           \A w \in Rows, c \in Columns : /\ t.cell[w][c].link = Sheet.cell[w][c].link
                                          /\ t.cell[w][c].value = Sheet.cell[w][c].value
    PROVE  Lands
<1>1. PICK s : s = Sheet
    OBVIOUS
<1>2. Sound(s) /\ FreshIn(s) /\ Frame(s, t)
    BY <1>1, SheetSound
<1>3. \A w \in Rows, c \in Columns : t.cell[w][c].link = s.cell[w][c].link /\ t.cell[w][c].value = s.cell[w][c].value
    BY <1>1
<1>4. FreshIn(t)
    <2> SUFFICES ASSUME NEW u \in Rows, u \notin t.byHand, Live(t, u)
                 PROVE  FreshRow(t, u)
        BY DEF FreshIn
    <2>1. FreshRow(s, u)
        BY <1>2 DEF FreshIn, Live, Frame
    <2>2. t.source = s.source /\ t.row[u].link = s.row[u].link /\ t.product = s.product
        BY <1>2 DEF Frame
    <2>3. SourcesFit(s) /\ SourcesFit(t)
        BY <1>2 DEF Sound
    <2>4. \A d \in Columns : t.cell[u][d].link = s.cell[u][d].link /\ t.cell[u][d].value = s.cell[u][d].value
        BY <1>3
    <2> QED BY ONLY <2>1, <2>2, <2>3, <2>4, AlikeFresh, u \in Rows
<1>5. CalmCells(s, t) /\ CalmRows(s, t) /\ CalmProducts(s, t)
    BY <1>2, <1>3 DEF CalmCells, CalmRows, CalmProducts, Frame
<1>6. Good(s, t)
    BY <1>2, <1>4, <1>5, CalmGood
<1> QED BY <1>1, <1>6 DEF Lands

LEMMA SetCellStatusLands ==
    ASSUME IInv, NEW w \in Rows, NEW c \in Columns, NEW colour \in Colours \cup {None}, SetCellStatus(w, c, colour)
    PROVE  Lands
<1>1. PICK s : s = Sheet
    OBVIOUS
<1>2. PICK t : t = WithColour(s, w, c, colour)
    OBVIOUS
<1>3. Becomes(t)
    BY <1>1, <1>2 DEF SetCellStatus
<1>4. Sound(s) /\ Shaped(s)
    BY <1>1, SheetSound
<1>5. /\ Near(s, t, w)
      /\ \A d \in Columns : d # c => t.cell[w][d] = s.cell[w][d]
      /\ t.cell[w][c].value = s.cell[w][c].value
      /\ t.cell[w][c].colour \in {s.cell[w][c].colour, colour}
      /\ colour = None => t.cell[w][c].colour = None
      /\ t.cell[w][c].colour # s.cell[w][c].colour /\ colour # None => Active(s.cell[w][c].value)
    BY <1>2, <1>4, ColourIs
<1>6. Shaped(t) /\ Frame(s, t)
    BY <1>5 DEF Near
<1>7. \A u \in Rows, d \in Columns :
        /\ t.cell[u][d].link = s.cell[u][d].link /\ t.cell[u][d].value = s.cell[u][d].value
        /\ t.cell[u][d].colour # s.cell[u][d].colour =>
            t.cell[u][d].colour = colour /\ (colour = None \/ Active(t.cell[u][d].value))
    BY <1>5 DEF Near
<1>8. ~Active(None)
    BY NoneAssumption DEF Active, IsNumber
<1>9. LinksFit(t) /\ ColoursFit(t)
    BY <1>4, <1>6, <1>7 DEF Sound, LinksFit, ColoursFit, Frame
<1>10. NoZero(t)
    BY <1>4, <1>7, ColumnsAre DEF Sound, NoZero
<1>11. Bare(t)
    <2> SUFFICES ASSUME NEW u \in Rows, NEW g \in Groups, t.cell[u][Main(g)].value = None
                 PROVE  t.cell[u][Main(g)].colour = None /\ t.cell[u][Remarks(g)].value = None
        BY DEF Bare
    <2>1. PICK m, r \in Columns : m = Main(g) /\ r = Remarks(g)
        BY ColumnsAre
    <2>2. s.cell[u][m].value = None => s.cell[u][m].colour = None /\ s.cell[u][r].value = None
        BY <1>4, <2>1 DEF Sound, Bare
    <2> QED BY <1>7, <1>8, <2>1, <2>2
<1>12. SourcesFit(t)
    BY <1>4, <1>6 DEF Sound, SourcesFit, Frame
<1>13. RowsFit(t)
    <2>1. LiveProducts(t) = LiveProducts(s)
        BY <1>6 DEF LiveProducts, Frame
    <2> QED BY <1>4, <1>6, <1>7, <2>1 DEF Sound, RowsFit, Frame
<1>14. Sound(t)
    BY <1>6, <1>9, <1>10, <1>11, <1>12, <1>13 DEF Sound
<1> QED BY <1>1, <1>3, <1>6, <1>7, <1>14, StillLands

LEMMA SetStatusColorEnabledLands ==
    ASSUME IInv, NEW on \in BOOLEAN, SetStatusColorEnabled(on)
    PROVE  Lands
<1>1. PICK t : /\ DOMAIN t = Fields /\ Becomes(t)
               /\ t.row = row' /\ t.product = product' /\ t.cell = cell'
               /\ t.source = source' /\ t.coloured = coloured' /\ t.byHand = byHand'
    BY NextSheet
<1>2. Frame(Sheet, t) /\ t.cell = Sheet.cell
    BY <1>1, SheetIs DEF SetStatusColorEnabled, Frame
<1>3. t.coloured \subseteq Columns
    <2>1. coloured \subseteq Columns /\ Free \in Columns
        BY SheetSound, SheetIs, ColumnsAre DEF Shaped
    <2>2. coloured' = coloured \cup {Free} \/ coloured' = coloured \ {Free}
        BY DEF SetStatusColorEnabled
    <2> QED BY <1>1, <2>1, <2>2
<1>4. Sound(t)
    <2>1. PICK s : s = Sheet
        OBVIOUS
    <2>2. Sound(s) /\ Frame(s, t) /\ t.cell = s.cell
        BY <1>2, <2>1, SheetSound
    <2>3. Shaped(t)
        BY <1>1, <1>3, <2>2 DEF Sound, Shaped, Frame
    <2>4. LiveProducts(t) = LiveProducts(s)
        BY <2>2 DEF LiveProducts, Frame
    <2>5. LinksFit(t) /\ ColoursFit(t) /\ NoZero(t) /\ Bare(t)
        BY <2>2 DEF Sound, LinksFit, ColoursFit, NoZero, Bare, Frame
    <2>6. SourcesFit(t) /\ RowsFit(t)
        BY <2>2, <2>4 DEF Sound, SourcesFit, RowsFit, Frame
    <2> QED BY <2>3, <2>5, <2>6 DEF Sound
<1> QED BY <1>1, <1>2, <1>4, StillLands

(* Some rows get a link in one lookup column, and count as linked by hand. *)
LEMMA LinkedLands ==
    ASSUME IInv, NEW c \in Columns, source[c] = "lookup", NEW H \in SUBSET Rows,
           UNCHANGED <<row, product, source, coloured>>, byHand' = byHand \cup H,
           DOMAIN cell' = Rows, \A u \in Rows : DOMAIN cell'[u] = Columns,
           \A u \in Rows, d \in Columns :
                IF u \in H /\ d = c THEN \E q \in Products : cell'[u][d] = Linked(cell[u][d], q)
                                    ELSE cell'[u][d] = cell[u][d]
    PROVE  Lands
<1>1. PICK s : s = Sheet
    OBVIOUS
<1>2. PICK t : /\ DOMAIN t = Fields /\ Becomes(t)
               /\ t.row = row' /\ t.product = product' /\ t.cell = cell'
               /\ t.source = source' /\ t.coloured = coloured' /\ t.byHand = byHand'
    BY NextSheet
<1>3. Sound(s) /\ FreshIn(s) /\ Shaped(s) /\ s.source[c] = "lookup"
    BY <1>1, SheetSound, SheetIs
<1>4. /\ t.row = s.row /\ t.product = s.product /\ t.source = s.source /\ t.coloured = s.coloured
      /\ t.byHand = s.byHand \cup H
    BY <1>1, <1>2, SheetIs
<1>5. ASSUME NEW u \in Rows, NEW d \in Columns
      PROVE  /\ DOMAIN t.cell[u][d] = CellFields /\ t.cell[u][d].colour = s.cell[u][d].colour
             /\ u \in H /\ d = c => t.cell[u][d].link \in Products /\ t.cell[u][d].value = None
             /\ ~(u \in H /\ d = c) => t.cell[u][d] = s.cell[u][d]
    <2>1. DOMAIN s.cell[u][d] = CellFields /\ s.cell = cell
        BY <1>1, <1>3, SheetIs DEF Shaped
    <2>2. CASE u \in H /\ d = c
        <3>1. PICK q \in Products : cell'[u][d] = Linked(cell[u][d], q)
            BY <2>2
        <3>2. t.cell[u][d] = Linked(s.cell[u][d], q)
            BY <1>2, <2>1, <3>1
        <3> QED BY <2>1, <2>2, <3>2, CellsAre
    <2>3. CASE ~(u \in H /\ d = c)
        <3>1. t.cell[u][d] = s.cell[u][d]
            BY <1>2, <2>1, <2>3
        <3> QED BY <2>1, <2>3, <3>1
    <2> QED BY <2>2, <2>3
<1>6. Shaped(t)
    BY <1>2, <1>3, <1>4, <1>5 DEF Shaped
<1>7. c \in {Qty, Free} /\ \A g \in Groups : c # Main(g) /\ c # Remarks(g)
    BY <1>3, GivenIs DEF Sound, SourcesFit
<1>8. LinksFit(t) /\ ColoursFit(t)
    BY <1>3, <1>4, <1>5, <1>7 DEF Sound, LinksFit, ColoursFit
<1>9. \A u \in Rows, g \in Groups : t.cell[u][Main(g)] = s.cell[u][Main(g)] /\ t.cell[u][Remarks(g)] = s.cell[u][Remarks(g)]
    BY <1>5, <1>7, ColumnsAre
<1>10. NoZero(t) /\ Bare(t)
    BY <1>3, <1>9 DEF Sound, NoZero, Bare
<1>11. SourcesFit(t)
    BY <1>3, <1>4 DEF Sound, SourcesFit
<1>12. RowsFit(t)
    <2>1. LiveProducts(t) = LiveProducts(s)
        BY <1>4 DEF LiveProducts
    <2> QED BY <1>3, <1>4, <1>5, <2>1 DEF Sound, RowsFit
<1>13. Sound(t)
    BY <1>6, <1>8, <1>10, <1>11, <1>12 DEF Sound
<1>14. FreshIn(t)
    <2> SUFFICES ASSUME NEW u \in Rows, u \notin t.byHand, Live(t, u)
                 PROVE  FreshRow(t, u)
        BY DEF FreshIn
    <2>1. FreshRow(s, u) /\ u \notin H
        BY <1>3, <1>4 DEF FreshIn, Live
    <2>2. t.source = s.source /\ t.row[u].link = s.row[u].link /\ t.product = s.product
        BY <1>4
    <2>3. SourcesFit(s) /\ SourcesFit(t)
        BY <1>3, <1>11 DEF Sound
    <2>4. \A d \in Columns : t.cell[u][d].link = s.cell[u][d].link /\ t.cell[u][d].value = s.cell[u][d].value
        BY <1>5, <2>1
    <2> QED BY ONLY <2>1, <2>2, <2>3, <2>4, AlikeFresh, u \in Rows
<1>15. CalmCells(s, t) /\ CalmRows(s, t) /\ CalmProducts(s, t)
    BY <1>3, <1>4, <1>5 DEF CalmCells, CalmRows, CalmProducts
<1>16. Good(s, t)
    BY <1>13, <1>14, <1>15, CalmGood
<1> QED BY <1>1, <1>2, <1>16 DEF Lands

LEMMA LinkCellLands ==
    ASSUME IInv, NEW w \in Rows, NEW c \in Columns, NEW p \in Products, LinkCell(w, c, p)
    PROVE  Lands
<1>1. DOMAIN cell = Rows /\ \A u \in Rows : DOMAIN cell[u] = Columns
    BY SheetSound, SheetIs DEF Shaped
<1>2. PICK x : x = Linked(cell[w][c], p)
    OBVIOUS
<1>3. PICK r : r = [cell[w] EXCEPT ![c] = x]
    OBVIOUS
<1>4. cell' = [cell EXCEPT ![w] = r]
    BY <1>2, <1>3 DEF LinkCell
<1>5. DOMAIN r = Columns /\ r[c] = x /\ \A d \in Columns : d # c => r[d] = cell[w][d]
    BY <1>1, <1>3
<1>6. DOMAIN cell' = Rows /\ cell'[w] = r /\ \A u \in Rows : u # w => cell'[u] = cell[u]
    BY <1>1, <1>4
<1>7. \A u \in Rows : DOMAIN cell'[u] = Columns
    BY <1>1, <1>5, <1>6
<1>8. \A u \in Rows, d \in Columns :
        IF u \in {w} /\ d = c THEN \E q \in Products : cell'[u][d] = Linked(cell[u][d], q)
                              ELSE cell'[u][d] = cell[u][d]
    BY <1>2, <1>5, <1>6
<1>9. source[c] = "lookup" /\ byHand' = byHand \cup {w} /\ UNCHANGED <<row, product, source, coloured>>
    BY DEF LinkCell
<1>10. {w} \in SUBSET Rows
    OBVIOUS
<1> HIDE DEF LinkCell
<1> QED BY ONLY IInv, <1>6, <1>7, <1>8, <1>9, <1>10, LinkedLands, c \in Columns

LEMMA AutoLinkColumnLands ==
    ASSUME IInv, NEW c \in Columns, AutoLinkColumn(c)
    PROVE  Lands
<1>1. DOMAIN cell = Rows /\ \A u \in Rows : DOMAIN cell[u] = Columns
    BY SheetSound, SheetIs DEF Shaped
<1>2. row \in [Rows -> Row]
    BY SheetSound, SheetIs DEF Shaped
<1>3. PICK H : H = {w \in Rows : Live(Sheet, w) /\ row[w].link \notin {None, cell[w][c].link}}
    OBVIOUS
<1>4. /\ source[c] = "lookup" /\ byHand' = byHand \cup H /\ UNCHANGED <<row, product, source, coloured>>
      /\ cell' = [w \in Rows |-> IF w \in H THEN [cell[w] EXCEPT ![c] = Linked(@, row[w].link)] ELSE cell[w]]
    BY <1>3 DEF AutoLinkColumn
<1>5. H \in SUBSET Rows /\ \A w \in H : row[w].link \in Products
    BY <1>2, <1>3 DEF Row
<1>6. ASSUME NEW u \in Rows
      PROVE  /\ DOMAIN cell'[u] = Columns
             /\ \A d \in Columns :
                  IF u \in H /\ d = c THEN \E q \in Products : cell'[u][d] = Linked(cell[u][d], q)
                                      ELSE cell'[u][d] = cell[u][d]
    <2>1. CASE u \in H
        <3>1. PICK x : x = Linked(cell[u][c], row[u].link)
            OBVIOUS
        <3>2. cell'[u] = [cell[u] EXCEPT ![c] = x]
            BY <1>4, <2>1, <3>1
        <3>3. DOMAIN cell'[u] = Columns /\ cell'[u][c] = x /\ \A d \in Columns : d # c => cell'[u][d] = cell[u][d]
            BY <1>1, <3>2
        <3> QED BY <1>5, <2>1, <3>1, <3>3
    <2>2. CASE u \notin H
        <3>1. cell'[u] = cell[u]
            BY <1>4, <2>2
        <3> QED BY <1>1, <2>2, <3>1
    <2> QED BY <2>1, <2>2
<1>7. DOMAIN cell' = Rows
    BY <1>4
<1> QED BY ONLY IInv, <1>4, <1>5, <1>6, <1>7, LinkedLands, c \in Columns

(* The link of a row changes, and its cells are recomputed. *)
LEMMA LinkRowLands ==
    ASSUME IInv, NEW w \in Rows, NEW p \in Products, LinkRow(w, p)
    PROVE  Lands
<1>1. PICK s : s = Sheet
    OBVIOUS
<1>2. PICK r : r = [s.row EXCEPT ![w].link = p]
    OBVIOUS
<1>3. PICK f : f = [s EXCEPT !.row = r]
    OBVIOUS
<1>4. PICK t : t = WithRecomputed(f, w, Columns)
    OBVIOUS
<1>5. Becomes(t) /\ s.row[w].life = "live" /\ p \in LiveProducts(s)
    BY <1>1, <1>2, <1>3, <1>4 DEF LinkRow, Live
<1>6. Sound(s) /\ FreshIn(s) /\ Shaped(s)
    BY <1>1, SheetSound
<1>7. r \in [Rows -> Row] /\ r[w].link = p /\ r[w].life = "live" /\ \A u \in Rows : u # w => r[u] = s.row[u]
    BY <1>2, <1>5, <1>6 DEF Shaped, Row
<1>8. /\ DOMAIN f = Fields /\ f.row = r /\ f.product = s.product /\ f.cell = s.cell
      /\ f.source = s.source /\ f.coloured = s.coloured /\ f.byHand = s.byHand
    BY <1>3, <1>6 DEF Shaped, Fields
<1>9. Sound(f)
    <2>1. Shaped(f)
        BY <1>6, <1>7, <1>8 DEF Shaped
    <2>2. LiveProducts(f) = LiveProducts(s)
        BY <1>8 DEF LiveProducts
    <2>3. LinksFit(f) /\ ColoursFit(f) /\ NoZero(f) /\ Bare(f)
        BY <1>6, <1>8 DEF Sound, LinksFit, ColoursFit, NoZero, Bare
    <2>4. SourcesFit(f) /\ RowsFit(f)
        BY <1>5, <1>6, <1>7, <1>8, <2>2 DEF Sound, SourcesFit, RowsFit
    <2> QED BY <2>1, <2>3, <2>4 DEF Sound
<1>10. Shaped(f)
    BY <1>9 DEF Sound
<1>11. Recomputes(f, t, {w}, Columns)
    BY <1>4, <1>10, RecomputedIs
<1>12. Sound(t)
    BY <1>7, <1>8, <1>9, <1>11, RecomputedSound
<1>13. Frame(f, t)
    BY <1>11 DEF Recomputes
<1>14. \A d \in Columns : Cur(t, w, d)
    BY <1>10, <1>11, Recomputing
<1>15. \A u \in Rows, d \in Columns : u # w \/ s.source[d] = "manual" =>
            t.cell[u][d].link = s.cell[u][d].link /\ t.cell[u][d].value = s.cell[u][d].value
    BY <1>8, <1>11 DEF Recomputes
<1>16. FreshIn(t)
    <2> SUFFICES ASSUME NEW u \in Rows, u \notin t.byHand, Live(t, u)
                 PROVE  FreshRow(t, u)
        BY DEF FreshIn
    <2>1. CASE u = w
        BY <1>14, <2>1 DEF FreshRow, Cur
    <2>2. CASE u # w
        <3>1. FreshRow(s, u)
            BY <1>6, <1>7, <1>8, <1>13, <2>2 DEF FreshIn, Live, Frame
        <3>2. t.source = s.source /\ t.row[u].link = s.row[u].link /\ t.product = s.product
            BY <1>7, <1>8, <1>13, <2>2 DEF Frame
        <3>3. SourcesFit(s) /\ SourcesFit(t)
            BY <1>6, <1>12 DEF Sound
        <3>4. \A d \in Columns : t.cell[u][d].link = s.cell[u][d].link /\ t.cell[u][d].value = s.cell[u][d].value
            BY <1>15, <2>2
        <3> QED BY ONLY <3>1, <3>2, <3>3, <3>4, AlikeFresh, u \in Rows
    <2> QED BY <2>1, <2>2
<1>17. \A u \in Rows : Edit(s, t, u) => u = w
    BY <1>7, <1>8, <1>13, <1>15 DEF Edit, Frame
<1>18. EditsRefresh(s, t)
    BY <1>14, <1>17 DEF EditsRefresh
<1>19. SavesRefresh(s, t)
    BY <1>8, <1>13 DEF SavesRefresh, Frame
<1>20. Stay(s, t)
    BY <1>15 DEF Stay
<1>21. Good(s, t)
    BY <1>12, <1>16, <1>18, <1>19, <1>20 DEF Good
<1> QED BY <1>1, <1>5, <1>21 DEF Lands

(* The free column is configured, and recomputed in every live row. *)
LEMMA ConfigureLands ==
    ASSUME IInv, NEW kind \in Sources, ConfigureColumnSource(kind)
    PROVE  Lands
<1>1. PICK s : s = Sheet
    OBVIOUS
<1>2. PICK o : o = [s.source EXCEPT ![Free] = kind]
    OBVIOUS
<1>3. PICK f : f = [s EXCEPT !.source = o]
    OBVIOUS
<1>4. PICK R : R = {w \in Rows : Live(s, w)}
    OBVIOUS
<1>5. PICK t : t = EachRecomputed(f, R, {Free})
    OBVIOUS
<1>6. Becomes(t)
    BY <1>1, <1>2, <1>3, <1>4, <1>5 DEF ConfigureColumnSource
<1>7. Sound(s) /\ FreshIn(s) /\ Shaped(s)
    BY <1>1, SheetSound
<1>8. o \in [Columns -> Kinds] /\ o[Free] = kind /\ \A c \in Columns : c # Free => o[c] = s.source[c]
    BY <1>2, <1>7, ColumnsAre, SourcesAssumption DEF Shaped, Kinds
<1>9. /\ DOMAIN f = Fields /\ f.row = s.row /\ f.product = s.product /\ f.cell = s.cell
      /\ f.source = o /\ f.coloured = s.coloured /\ f.byHand = s.byHand
    BY <1>3, <1>7 DEF Shaped, Fields
<1>10. Sound(f)
    <2>1. Shaped(f)
        BY <1>7, <1>8, <1>9 DEF Shaped
    <2>2. LiveProducts(f) = LiveProducts(s)
        BY <1>9 DEF LiveProducts
    <2>3. LinksFit(f) /\ ColoursFit(f) /\ NoZero(f) /\ Bare(f)
        BY <1>7, <1>9 DEF Sound, LinksFit, ColoursFit, NoZero, Bare
    <2>4. SourcesFit(f) /\ RowsFit(f)
        BY <1>7, <1>8, <1>9, <2>2 DEF Sound, SourcesFit, RowsFit
    <2> QED BY <2>1, <2>3, <2>4 DEF Sound
<1>11. Shaped(f)
    BY <1>10 DEF Sound
<1>12. Recomputes(f, t, R, {Free})
    BY <1>5, <1>11, EachIs
<1>13. Sound(t)
    <2>1. \A w \in R : f.row[w].life # "unmade"
        BY <1>4, <1>9 DEF Live
    <2> QED BY <1>10, <1>12, <2>1, RecomputedSound
<1>14. Frame(f, t)
    BY <1>12 DEF Recomputes
<1>15. \A w \in R : Cur(t, w, Free)
    BY <1>4, <1>11, <1>12, Recomputing, ColumnsAre
<1>16. \A w \in Rows, c \in Columns :
        /\ t.cell[w][c].link = s.cell[w][c].link
        /\ c # Free \/ o[c] = "manual" => t.cell[w][c].value = s.cell[w][c].value
    BY <1>9, <1>12 DEF Recomputes
<1>17. SourcesFit(s) /\ SourcesFit(t)
    BY <1>7, <1>13 DEF Sound
<1>18. t.row = s.row /\ t.product = s.product /\ t.source = o /\ t.byHand = s.byHand
    BY <1>9, <1>14 DEF Frame
<1>19. FreshIn(t)
    <2> SUFFICES ASSUME NEW u \in Rows, u \notin t.byHand, Live(t, u)
                 PROVE  FreshRow(t, u)
        BY DEF FreshIn
    <2>1. FreshRow(s, u) /\ u \in R
        BY <1>4, <1>7, <1>18 DEF FreshIn, Live
    <2>2. \A link : LookedUp(t, u, link) = LookedUp(s, u, link)
        BY <1>18, LookedUpAlike
    <2>3. \A g \in Groups : Main(g) \in Columns /\ Main(g) # Free
        BY ColumnsAre, NamesDiffer
    <2>4. SameView(s, t, u)
        BY <1>16, <2>2, <2>3, ColumnsAre DEF SameView
    <2>5. \A c \in Columns : Kept(t, c) => (Kept(s, c) /\ t.cell[u][c].value = s.cell[u][c].value) \/ Cur(t, u, c)
        BY <1>8, <1>15, <1>16, <1>18, <2>1 DEF Kept
    <2> QED BY ONLY <1>17, <2>1, <2>4, <2>5, StaysFresh, u \in Rows
<1>20. CalmCells(s, t) /\ CalmRows(s, t) /\ CalmProducts(s, t)
    BY <1>16, <1>18 DEF CalmCells, CalmRows, CalmProducts
<1>21. Good(s, t)
    BY <1>13, <1>19, <1>20, CalmGood
<1> QED BY <1>1, <1>6, <1>21 DEF Lands

(* A row is made: its lookups are filled in, and without a quantity its    *)
(* package counts are rightly empty.                                       *)
LEMMA PopulateLands ==
    ASSUME IInv, NEW w \in Rows, NEW p \in Products, Populate(w, p)
    PROVE  Lands
<1>1. PICK s : s = Sheet
    OBVIOUS
<1>2. PICK r : r = [s.row EXCEPT ![w] = [link |-> p, life |-> "live"]]
    OBVIOUS
<1>3. PICK f : f = [s EXCEPT !.row = r]
    OBVIOUS
<1>4. PICK C : C = {c \in Columns : s.source[c] = "lookup"}
    OBVIOUS
<1>5. PICK t : t = WithRecomputed(f, w, C)
    OBVIOUS
<1>6. Sound(s) /\ FreshIn(s) /\ Shaped(s)
    BY <1>1, SheetSound
<1>7. Becomes(t) /\ s.row[w].life = "unmade" /\ p \in LiveProducts(s)
    <2>1. f = [s EXCEPT !.row[w] = [link |-> p, life |-> "live"]]
        BY <1>2, <1>3
    <2> QED BY <1>1, <1>4, <1>5, <2>1, SheetIs DEF Populate
<1>8. r \in [Rows -> Row] /\ r[w].link = p /\ r[w].life = "live" /\ \A u \in Rows : u # w => r[u] = s.row[u]
    BY <1>2, <1>6 DEF Shaped, Row
<1>9. /\ DOMAIN f = Fields /\ f.row = r /\ f.product = s.product /\ f.cell = s.cell
      /\ f.source = s.source /\ f.coloured = s.coloured /\ f.byHand = s.byHand
    BY <1>3, <1>6 DEF Shaped, Fields
<1>10. Sound(f)
    <2>1. Shaped(f)
        BY <1>6, <1>8, <1>9 DEF Shaped
    <2>2. LiveProducts(f) = LiveProducts(s)
        BY <1>9 DEF LiveProducts
    <2>3. LinksFit(f) /\ ColoursFit(f) /\ NoZero(f) /\ Bare(f)
        BY <1>6, <1>9 DEF Sound, LinksFit, ColoursFit, NoZero, Bare
    <2>4. SourcesFit(f) /\ RowsFit(f)
        BY <1>6, <1>7, <1>8, <1>9, <2>2 DEF Sound, SourcesFit, RowsFit
    <2> QED BY <2>1, <2>3, <2>4 DEF Sound
<1>11. Shaped(f)
    BY <1>10 DEF Sound
<1>12. Recomputes(f, t, {w}, C)
    BY <1>5, <1>11, RecomputedIs
<1>13. Sound(t)
    BY <1>8, <1>9, <1>10, <1>12, RecomputedSound
<1>14. /\ t.row = r /\ t.product = s.product /\ t.source = s.source /\ t.byHand = s.byHand
    BY <1>9, <1>12 DEF Recomputes, Frame
<1>15. \A c \in C : Cur(t, w, c)
    BY <1>4, <1>11, <1>12, Recomputing
<1>16. \A u \in Rows, d \in Columns :
        /\ t.cell[u][d].link = s.cell[u][d].link
        /\ u # w \/ d \notin C => t.cell[u][d].value = s.cell[u][d].value
    BY <1>9, <1>12 DEF Recomputes
<1>17. SourcesFit(s) /\ SourcesFit(t)
    BY <1>6, <1>13 DEF Sound
<1>18. FreshIn(t)
    <2> SUFFICES ASSUME NEW u \in Rows, u \notin t.byHand, Live(t, u)
                 PROVE  FreshRow(t, u)
        BY DEF FreshIn
    <2>1. CASE u = w
        <3> SUFFICES ASSUME NEW c \in Columns, Kept(t, c)
                     PROVE  t.cell[w][c].value = Computed(t, w, c)
            BY <2>1 DEF FreshRow, Kept
        <3>1. CASE c \in C
            BY <1>15, <3>1 DEF Cur
        <3>2. CASE c \notin C
            <4>1. t.source[c] # "lookup"
                BY <1>4, <1>14, <3>2
            <4>2. PICK g \in Groups : c = Pkg(g)
                BY <1>17, <4>1, KeptIs
            <4>3. s.source[Main(g)] = "manual" /\ Main(g) \in Columns
                BY <1>17, ColumnsAre, GivenIs DEF SourcesFit
            <4>4. s.cell[w][c].value = None /\ s.cell[w][Main(g)].value = None
                BY <1>6, <1>7, <4>3 DEF Sound, RowsFit
            <4>5. t.cell[w][c].value = None /\ t.cell[w][Main(g)].value = None
                BY <1>4, <1>16, <3>2, <4>3, <4>4
            <4>6. Computed(t, w, c) = PkgCount(t, w, g) /\ Sibling(t, w, Main(g)) = None
                BY <1>17, <4>2, <4>5, LookupIs
            <4>7. PkgCount(t, w, g) = None
                BY <4>6 DEF PkgCount, IsNumber
            <4> QED BY <4>5, <4>6, <4>7
        <3> QED BY <3>1, <3>2
    <2>2. CASE u # w
        <3>1. FreshRow(s, u)
            BY <1>6, <1>8, <1>14, <2>2 DEF FreshIn, Live
        <3>2. t.source = s.source /\ t.row[u].link = s.row[u].link /\ t.product = s.product
            BY <1>8, <1>14, <2>2
        <3>3. \A d \in Columns : t.cell[u][d].link = s.cell[u][d].link /\ t.cell[u][d].value = s.cell[u][d].value
            BY <1>16, <2>2
        <3> QED BY ONLY <1>17, <3>1, <3>2, <3>3, AlikeFresh, u \in Rows
    <2> QED BY <2>1, <2>2
<1>19. CalmCells(s, t)
    BY <1>4, <1>16 DEF CalmCells
<1>20. CalmRows(s, t) /\ CalmProducts(s, t)
    BY <1>7, <1>8, <1>14 DEF CalmRows, CalmProducts, Live
<1>21. Good(s, t)
    BY <1>13, <1>18, <1>19, <1>20, CalmGood
<1> QED BY <1>1, <1>7, <1>21 DEF Lands

(* Rows come and go with the cells they have. *)
LEMMA LivesLand ==
    ASSUME IInv, UNCHANGED <<product, cell, source, coloured>>, row' \in [Rows -> Row],
           byHand \subseteq byHand', byHand' \subseteq Rows,
           \A u \in Rows : /\ row'[u].link = row[u].link /\ (row'[u].life = "unmade" => row[u].life = "unmade")
                           /\ row'[u].life = "live" => row[u].life = "live" \/ u \in byHand'
    PROVE  Lands
<1>1. PICK s : s = Sheet
    OBVIOUS
<1>2. PICK t : /\ DOMAIN t = Fields /\ Becomes(t)
               /\ t.row = row' /\ t.product = product' /\ t.cell = cell'
               /\ t.source = source' /\ t.coloured = coloured' /\ t.byHand = byHand'
    BY NextSheet
<1>3. Sound(s) /\ FreshIn(s) /\ Shaped(s)
    BY <1>1, SheetSound
<1>4. /\ t.product = s.product /\ t.cell = s.cell /\ t.source = s.source /\ t.coloured = s.coloured
      /\ s.byHand \subseteq t.byHand /\ t.byHand \subseteq Rows /\ t.row \in [Rows -> Row]
      /\ \A u \in Rows : /\ t.row[u].link = s.row[u].link /\ (t.row[u].life = "unmade" => s.row[u].life = "unmade")
                         /\ t.row[u].life = "live" => s.row[u].life = "live" \/ u \in t.byHand
    BY <1>1, <1>2, SheetIs
<1>5. Shaped(t)
    BY <1>2, <1>3, <1>4 DEF Shaped
<1>6. LinksFit(t) /\ ColoursFit(t) /\ NoZero(t) /\ Bare(t)
    BY <1>3, <1>4 DEF Sound, LinksFit, ColoursFit, NoZero, Bare
<1>7. SourcesFit(t) /\ RowsFit(t)
    <2>1. LiveProducts(t) = LiveProducts(s)
        BY <1>4 DEF LiveProducts
    <2> QED BY <1>3, <1>4, <2>1 DEF Sound, SourcesFit, RowsFit
<1>8. Sound(t)
    BY <1>5, <1>6, <1>7 DEF Sound
<1>9. FreshIn(t)
    <2> SUFFICES ASSUME NEW u \in Rows, u \notin t.byHand, Live(t, u)
                 PROVE  FreshRow(t, u)
        BY DEF FreshIn
    <2>1. FreshRow(s, u)
        BY <1>3, <1>4 DEF FreshIn, Live
    <2>2. t.source = s.source /\ t.row[u].link = s.row[u].link /\ t.product = s.product /\ SourcesFit(s)
        BY <1>3, <1>4 DEF Sound
    <2>3. \A d \in Columns : t.cell[u][d].link = s.cell[u][d].link /\ t.cell[u][d].value = s.cell[u][d].value
        BY <1>4
    <2> QED BY ONLY <1>7, <2>1, <2>2, <2>3, AlikeFresh, u \in Rows
<1>10. CalmCells(s, t) /\ CalmRows(s, t) /\ CalmProducts(s, t)
    BY <1>4 DEF CalmCells, CalmRows, CalmProducts
<1>11. Good(s, t)
    BY <1>8, <1>9, <1>10, CalmGood
<1> QED BY <1>1, <1>2, <1>11 DEF Lands

LEMMA DeleteRowLands ==
    ASSUME IInv, NEW w \in Rows, DeleteRow(w)
    PROVE  Lands
<1>1. row \in [Rows -> Row] /\ byHand \subseteq Rows /\ row[w].life = "live"
    BY SheetSound, SheetIs DEF Shaped, DeleteRow
<1>2. row' = [row EXCEPT ![w].life = "trashed"] /\ UNCHANGED <<product, cell, source, coloured, byHand>>
    BY DEF DeleteRow
<1>3. row' \in [Rows -> Row]
    BY <1>1, <1>2 DEF Row
<1>4. \A u \in Rows : /\ row'[u].link = row[u].link /\ (row'[u].life = "unmade" => row[u].life = "unmade")
                      /\ row'[u].life = "live" => row[u].life = "live" \/ u \in byHand'
    BY <1>1, <1>2 DEF Row
<1> QED BY <1>1, <1>2, <1>3, <1>4, LivesLand

LEMMA RestoreRowLands ==
    ASSUME IInv, NEW w \in Rows, RestoreRow(w)
    PROVE  Lands
<1>1. row \in [Rows -> Row] /\ byHand \subseteq Rows /\ row[w].life = "trashed"
    BY SheetSound, SheetIs DEF Shaped, RestoreRow
<1>2. row' = [row EXCEPT ![w].life = "live"] /\ byHand' = byHand \cup {w} /\ UNCHANGED <<product, cell, source, coloured>>
    BY DEF RestoreRow
<1>3. row' \in [Rows -> Row]
    BY <1>1, <1>2 DEF Row
<1>4. \A u \in Rows : /\ row'[u].link = row[u].link /\ (row'[u].life = "unmade" => row[u].life = "unmade")
                      /\ row'[u].life = "live" => row[u].life = "live" \/ u \in byHand'
    BY <1>1, <1>2 DEF Row
<1> QED BY <1>1, <1>2, <1>3, <1>4, LivesLand

-----------------------------------------------------------------------------
(* Products *)

(* A row keeps what it shows when its product does. *)
LEMMA RestView ==
    ASSUME NEW s, NEW t, NEW u \in Rows, NEW l \in LiveProducts(s), s.row[u].link = l, t.row[u].link = l,
           l \in LiveProducts(t), t.product[l].qty = s.product[l].qty,
           s.cell[u][Qty].link = None, t.cell[u][Qty].link = None,
           \A g \in Groups : t.cell[u][Main(g)].value = s.cell[u][Main(g)].value
    PROVE  SameView(s, t, u)
<1>1. LookedUp(s, u, None) = s.product[l].qty /\ LookedUp(t, u, None) = t.product[l].qty
    BY DEF LookedUp
<1> QED BY <1>1 DEF SameView

(* What RowsFit and LinksFit say of a live row that nobody linked by hand. *)
LEMMA UnlinkedRow ==
    ASSUME NEW s, Sound(s), NEW u \in Rows, Live(s, u), u \notin s.byHand
    PROVE  s.row[u].link \in LiveProducts(s) /\ \A c \in Columns : s.cell[u][c].link = None
BY DEF Sound, RowsFit, LinksFit, Live

LEMMA NoneIsNoProduct == None \notin Products
BY NoneAssumption

LEMMA LivesPut ==
    ASSUME NEW f \in [Products -> Product], NEW p \in Products, NEW x \in Product, x.qty = f[p].qty,
           NEW o, o = [f EXCEPT ![p] = x]
    PROVE  /\ o \in [Products -> Product] /\ o[p] = x
           /\ \A l \in Products : o[l].qty = f[l].qty /\ (l # p => o[l] = f[l])
OBVIOUS

LEMMA UpdateProductLands ==
    ASSUME IInv, NEW p \in Products, NEW q \in Quantities, UpdateProduct(p, q)
    PROVE  Lands
<1>1. PICK s : s = Sheet
    OBVIOUS
<1>2. PICK o : o = [s.product EXCEPT ![p].qty = q]
    OBVIOUS
<1>3. PICK f : f = [s EXCEPT !.product = o]
    OBVIOUS
<1>4. PICK R : R = RowsShowing(f, p)
    OBVIOUS
<1>5. PICK shown : shown = EachRecomputed(f, R, Columns)
    OBVIOUS
<1>6. PICK A : A = {w \in Rows : Live(shown, w)}
    OBVIOUS
<1>7. PICK C : C = {c \in Columns : s.source[c] = "sum"}
    OBVIOUS
<1>8. PICK t : t = EachRecomputed(shown, A, C)
    OBVIOUS
<1>9. Sound(s) /\ FreshIn(s) /\ Shaped(s)
    BY <1>1, SheetSound
<1>10. Becomes(t)
    <2>1. f = [s EXCEPT !.product[p].qty = q]
        BY <1>2, <1>3
    <2>2. f = [Sheet EXCEPT !.product[p].qty = q] /\ C = {c \in Columns : source[c] = "sum"}
        BY <1>1, <1>7, <2>1, SheetIs
    <2>3. LET saved == [Sheet EXCEPT !.product[p].qty = q]
              shows == EachRecomputed(saved, RowsShowing(saved, p), Columns)
          IN  Becomes(EachRecomputed(shows, {w \in Rows : Live(shows, w)}, {c \in Columns : source[c] = "sum"}))
        BY DEF UpdateProduct
    <2>4. Becomes(EachRecomputed(shown, A, C))
        BY ONLY <1>4, <1>5, <1>6, <2>2, <2>3
    <2> QED BY <1>8, <2>4
<1>11. /\ o \in [Products -> Product] /\ o[p].qty = q
       /\ \A l \in Products : o[l].live = s.product[l].live /\ (l # p => o[l] = s.product[l])
    BY <1>2, <1>9 DEF Shaped, Product
<1>12. /\ DOMAIN f = Fields /\ f.row = s.row /\ f.product = o /\ f.cell = s.cell
       /\ f.source = s.source /\ f.coloured = s.coloured /\ f.byHand = s.byHand
    BY <1>3, <1>9 DEF Shaped, Fields
<1>13. LiveProducts(f) = LiveProducts(s)
    BY <1>11, <1>12 DEF LiveProducts
<1>14. Sound(f)
    <2>1. Shaped(f)
        BY <1>9, <1>11, <1>12 DEF Shaped
    <2>2. LinksFit(f) /\ ColoursFit(f) /\ NoZero(f) /\ Bare(f)
        BY <1>9, <1>12 DEF Sound, LinksFit, ColoursFit, NoZero, Bare
    <2>3. SourcesFit(f) /\ RowsFit(f)
        BY <1>9, <1>12, <1>13 DEF Sound, SourcesFit, RowsFit
    <2> QED BY <2>1, <2>2, <2>3 DEF Sound
<1>15. Shaped(f)
    BY <1>14 DEF Sound
<1>16. \A w \in Rows : w \in R <=> Live(s, w) /\ (s.row[w].link = p \/ \E c \in Columns : s.cell[w][c].link = p)
    BY <1>4, <1>12 DEF RowsShowing, Live
<1>17. Recomputes(f, shown, R, Columns)
    BY <1>5, <1>15, EachIs
<1>18. Sound(shown) /\ Shaped(shown)
    <2>1. R \subseteq Rows /\ \A w \in R : f.row[w].life # "unmade"
        BY <1>4, <1>12 DEF RowsShowing, Live
    <2>2. Sound(shown)
        BY <1>14, <1>17, <2>1, RecomputedSound
    <2> QED BY <2>2 DEF Sound
<1>19. Recomputes(shown, t, A, C)
    BY <1>8, <1>18, EachIs
<1>20. Sound(t)
    <2>1. \A w \in A : shown.row[w].life # "unmade"
        BY <1>6 DEF Live
    <2> QED BY <1>18, <1>19, <2>1, RecomputedSound
<1>21. shown.row = s.row /\ shown.source = s.source
    BY <1>12, <1>17 DEF Recomputes, Frame
<1>22. t.row = s.row /\ t.product = o /\ t.source = s.source /\ t.byHand = s.byHand
    BY <1>12, <1>17, <1>19 DEF Recomputes, Frame
<1>23. \A w \in R, c \in Columns : Cur(t, w, c)
    <2>1. R \subseteq Rows
        BY <1>4 DEF RowsShowing
    <2>2. \A w \in R, c \in Columns : Cur(shown, w, c)
        BY <1>15, <1>17, <2>1, Recomputing
    <2> QED BY <1>18, <1>19, <2>1, <2>2, Recomputing
<1>24. \A w \in A, c \in C : Cur(t, w, c)
    BY <1>6, <1>7, <1>18, <1>19, Recomputing
<1>25. \A w \in Rows, c \in Columns :
        /\ t.cell[w][c].link = s.cell[w][c].link
        /\ s.source[c] = "manual" => t.cell[w][c].value = s.cell[w][c].value
        /\ w \notin R /\ c \notin C => t.cell[w][c].value = s.cell[w][c].value
    BY <1>12, <1>17, <1>19, <1>21 DEF Recomputes
<1>26. SourcesFit(s) /\ SourcesFit(t)
    BY <1>9, <1>20 DEF Sound
<1>27. FreshIn(t)
    <2> SUFFICES ASSUME NEW u \in Rows, u \notin t.byHand, Live(t, u)
                 PROVE  FreshRow(t, u)
        BY DEF FreshIn
    <2>1. CASE u \in R
        BY <1>23, <2>1 DEF FreshRow, Cur
    <2>2. CASE u \notin R
        <3>1. FreshRow(s, u) /\ Live(s, u) /\ u \notin s.byHand
            BY <1>9, <1>22 DEF FreshIn, Live
        <3>2. s.row[u].link \in LiveProducts(s) /\ \A c \in Columns : s.cell[u][c].link = None
            BY <1>9, <3>1, UnlinkedRow
        <3>3. PICK l \in LiveProducts(s) : l = s.row[u].link
            BY <3>2
        <3>4. l \in Products /\ l # p
            BY <1>16, <2>2, <3>1, <3>3 DEF LiveProducts
        <3>5. l \in LiveProducts(t) /\ t.product[l].qty = s.product[l].qty
            BY <1>11, <1>22, <3>3, <3>4 DEF LiveProducts
        <3>6. \A g \in Groups : t.cell[u][Main(g)].value = s.cell[u][Main(g)].value
            BY <1>25, <1>26, ColumnsAre, GivenIs DEF SourcesFit
        <3>7. s.cell[u][Qty].link = None /\ t.cell[u][Qty].link = None
            BY <1>25, <3>2, ColumnsAre
        <3>8. SameView(s, t, u)
            BY <1>22, <3>3, <3>5, <3>6, <3>7, RestView
        <3>9. \A c \in Columns : Kept(t, c) => (Kept(s, c) /\ t.cell[u][c].value = s.cell[u][c].value) \/ Cur(t, u, c)
            <4> SUFFICES ASSUME NEW c \in Columns, Kept(t, c)
                         PROVE  Kept(s, c) /\ t.cell[u][c].value = s.cell[u][c].value
                OBVIOUS
            <4>1. Kept(s, c)
                BY <1>22 DEF Kept
            <4>2. s.source[c] # "sum"
                <5>1. \A g \in Groups : s.source[Pkg(g)] = "formula"
                    BY <1>26, ColumnsAre, GivenIs DEF SourcesFit
                <5> QED BY <1>26, <4>1, <5>1, KeptIs
            <4> QED BY <1>7, <1>25, <2>2, <4>1, <4>2
        <3> QED BY ONLY <1>26, <3>1, <3>8, <3>9, StaysFresh, u \in Rows
    <2> QED BY <2>1, <2>2
<1>28. \A u \in Rows : ~Edit(s, t, u)
    BY <1>22, <1>25 DEF Edit
<1>29. EditsRefresh(s, t) /\ Stay(s, t)
    BY <1>25, <1>28 DEF EditsRefresh, Stay
<1>30. SavesRefresh(s, t)
    <2> SUFFICES ASSUME NEW l \in Products, t.product[l].qty # s.product[l].qty,
                        NEW w \in Rows, NEW c \in Columns, Live(t, w), t.row[w].link = l \/ t.source[c] = "sum"
                 PROVE  Cur(t, w, c)
        BY DEF SavesRefresh
    <2>0. Live(s, w) /\ (s.row[w].link = l \/ s.source[c] = "sum")
        BY <1>22 DEF Live
    <2>1. l = p
        BY <1>11, <1>22
    <2>2. w \in A
        BY <1>6, <1>21, <2>0 DEF Live
    <2>3. CASE s.row[w].link = l
        BY <1>16, <1>23, <2>0, <2>1, <2>3
    <2>4. CASE s.source[c] = "sum"
        BY <1>7, <1>24, <2>2, <2>4
    <2> QED BY <2>0, <2>3, <2>4
<1>31. Good(s, t)
    BY <1>20, <1>27, <1>29, <1>30 DEF Good
<1> QED BY <1>1, <1>10, <1>31 DEF Lands

LEMMA DeleteProductLands ==
    ASSUME IInv, NEW p \in Products, DeleteProduct(p)
    PROVE  Lands
<1>1. PICK s : s = Sheet
    OBVIOUS
<1>2. PICK t : /\ DOMAIN t = Fields /\ Becomes(t)
               /\ t.row = row' /\ t.product = product' /\ t.cell = cell'
               /\ t.source = source' /\ t.coloured = coloured' /\ t.byHand = byHand'
    BY NextSheet
<1>3. Sound(s) /\ FreshIn(s) /\ Shaped(s)
    BY <1>1, SheetSound
<1>4. /\ t.source = s.source /\ t.coloured = s.coloured /\ t.byHand = s.byHand
      /\ t.product = [s.product EXCEPT ![p].live = FALSE]
      /\ t.row = [w \in Rows |-> IF s.row[w].link = p /\ s.row[w].life = "live"
                                 THEN [s.row[w] EXCEPT !.life = "trashed"] ELSE s.row[w]]
      /\ t.cell = [w \in Rows |-> [c \in Columns |->
                    IF s.cell[w][c].link = p THEN Linked(s.cell[w][c], None) ELSE s.cell[w][c]]]
    BY <1>1, <1>2, SheetIs DEF DeleteProduct
<1>5. /\ t.product \in [Products -> Product] /\ t.product[p].live = FALSE
      /\ \A l \in Products : t.product[l].qty = s.product[l].qty /\ (l # p => t.product[l] = s.product[l])
    <2>1. s.product \in [Products -> Product]
        BY <1>3 DEF Shaped
    <2>2. PICK f : f = s.product
        OBVIOUS
    <2>3. PICK x : x = [f[p] EXCEPT !.live = FALSE]
        OBVIOUS
    <2>4. PICK o : o = [f EXCEPT ![p] = x]
        OBVIOUS
    <2>5. f \in [Products -> Product] /\ t.product = o
        BY <1>4, <2>1, <2>2, <2>3, <2>4
    <2>6. x \in Product /\ x.live = FALSE /\ x.qty = f[p].qty
        BY <2>3, <2>5 DEF Product
    <2>7. /\ o \in [Products -> Product] /\ o[p] = x
          /\ \A l \in Products : o[l].qty = f[l].qty /\ (l # p => o[l] = f[l])
        BY ONLY <2>4, <2>5, <2>6, LivesPut, p \in Products
    <2> QED BY <2>2, <2>5, <2>6, <2>7
<1>6. ASSUME NEW u \in Rows
      PROVE  /\ t.row[u] \in Row /\ t.row[u].link = s.row[u].link
             /\ t.row[u].life = "unmade" => s.row[u].life = "unmade"
             /\ t.row[u].life = "live" => s.row[u].life = "live" /\ s.row[u].link # p
    <2>1. s.row[u] \in Row
        BY <1>3 DEF Shaped
    <2>2. t.row[u] = IF s.row[u].link = p /\ s.row[u].life = "live"
                     THEN [s.row[u] EXCEPT !.life = "trashed"] ELSE s.row[u]
        BY <1>4
    <2> QED BY <2>1, <2>2 DEF Row
<1>7. t.row \in [Rows -> Row]
    <2>1. PICK r : r = t.row
        OBVIOUS
    <2>2. DOMAIN r = Rows /\ r = [w \in Rows |-> r[w]]
        BY <1>4, <2>1
    <2>3. \A w \in Rows : r[w] \in Row
        BY <1>6, <2>1
    <2>4. r \in [Rows -> Row]
        BY ONLY <2>2, <2>3
    <2> QED BY <2>1, <2>4
<1>8. ASSUME NEW u \in Rows, NEW d \in Columns
      PROVE  /\ DOMAIN t.cell[u][d] = CellFields /\ t.cell[u][d].colour = s.cell[u][d].colour
             /\ s.cell[u][d].link = p => t.cell[u][d].link = None /\ t.cell[u][d].value = None
             /\ s.cell[u][d].link # p => t.cell[u][d] = s.cell[u][d]
    <2>1. DOMAIN s.cell[u][d] = CellFields
        BY <1>3 DEF Shaped
    <2>2. CASE s.cell[u][d].link = p
        <3>1. t.cell[u][d] = Linked(s.cell[u][d], None)
            BY <1>4, <2>2
        <3> QED BY <2>1, <2>2, <3>1, CellsAre
    <2>3. CASE s.cell[u][d].link # p
        <3>1. t.cell[u][d] = s.cell[u][d]
            BY <1>4, <2>3
        <3> QED BY <2>1, <2>3, <3>1
    <2> QED BY <2>2, <2>3
<1>9. Shaped(t)
    <2>1. DOMAIN t.cell = Rows /\ \A u \in Rows : DOMAIN t.cell[u] = Columns
        BY <1>4
    <2> QED BY <1>2, <1>3, <1>4, <1>5, <1>7, <1>8, <2>1 DEF Shaped
<1>10. LinksFit(t) /\ ColoursFit(t)
    BY <1>3, <1>4, <1>8 DEF Sound, LinksFit, ColoursFit
<1>11. \A u \in Rows, g \in Groups : t.cell[u][Main(g)] = s.cell[u][Main(g)] /\ t.cell[u][Remarks(g)] = s.cell[u][Remarks(g)]
    <2> SUFFICES ASSUME NEW u \in Rows, NEW g \in Groups, NEW d \in {Main(g), Remarks(g)}
                 PROVE  t.cell[u][d] = s.cell[u][d]
        OBVIOUS
    <2>1. d \in Columns /\ d \notin {Qty, Free}
        BY ColumnsAre, GivenIs
    <2>2. s.cell[u][d].link = None
        BY <1>3, <2>1 DEF Sound, LinksFit
    <2> QED BY <1>8, <2>1, <2>2, NoneIsNoProduct
<1>12. NoZero(t) /\ Bare(t)
    BY <1>3, <1>11 DEF Sound, NoZero, Bare
<1>13. \A l \in LiveProducts(s) : l # p => l \in LiveProducts(t) /\ t.product[l].qty = s.product[l].qty
    BY <1>5 DEF LiveProducts
<1>14. SourcesFit(t)
    BY <1>3, <1>4 DEF Sound, SourcesFit
<1>15. RowsFit(t)
    <2>1. \A u \in Rows : t.row[u].life = "unmade" => \A c \in Columns : t.cell[u][c].value = None
        BY <1>3, <1>6, <1>8 DEF Sound, RowsFit
    <2>2. \A u \in Rows : t.row[u].life = "live" /\ u \notin t.byHand => t.row[u].link \in LiveProducts(t)
        BY <1>3, <1>4, <1>6, <1>13 DEF Sound, RowsFit
    <2> QED BY <2>1, <2>2 DEF RowsFit
<1>16. Sound(t)
    BY <1>9, <1>10, <1>12, <1>14, <1>15 DEF Sound
<1>17. FreshIn(t)
    <2> SUFFICES ASSUME NEW u \in Rows, u \notin t.byHand, Live(t, u)
                 PROVE  FreshRow(t, u)
        BY DEF FreshIn
    <2>1. FreshRow(s, u) /\ Live(s, u) /\ u \notin s.byHand /\ s.row[u].link # p
        BY <1>3, <1>4, <1>6 DEF FreshIn, Live
    <2>2. s.row[u].link \in LiveProducts(s) /\ \A c \in Columns : s.cell[u][c].link = None
        BY <1>3, <2>1, UnlinkedRow
    <2>3. \A c \in Columns : t.cell[u][c] = s.cell[u][c]
        BY <1>8, <2>2, NoneIsNoProduct
    <2>4. PICK l \in LiveProducts(s) : l = s.row[u].link
        BY <2>2
    <2>5. l \in LiveProducts(t) /\ t.product[l].qty = s.product[l].qty /\ t.row[u].link = l
        BY <1>6, <1>13, <2>1, <2>4
    <2>6. \A g \in Groups : t.cell[u][Main(g)].value = s.cell[u][Main(g)].value
        BY <2>3, ColumnsAre
    <2>7. s.cell[u][Qty].link = None /\ t.cell[u][Qty].link = None
        BY <2>2, <2>3, ColumnsAre
    <2>8. SameView(s, t, u)
        BY <2>4, <2>5, <2>6, <2>7, RestView
    <2>9. \A c \in Columns : Kept(t, c) => (Kept(s, c) /\ t.cell[u][c].value = s.cell[u][c].value) \/ Cur(t, u, c)
        BY <1>4, <2>3 DEF Kept
    <2>10. SourcesFit(s) /\ SourcesFit(t)
        BY <1>3, <1>14 DEF Sound
    <2> QED BY ONLY <2>1, <2>8, <2>9, <2>10, StaysFresh, u \in Rows
<1>18. CalmCells(s, t) /\ CalmRows(s, t) /\ CalmProducts(s, t)
    BY <1>5, <1>6, <1>8, NoneIsNoProduct DEF CalmCells, CalmRows, CalmProducts
<1>19. Good(s, t)
    BY <1>16, <1>17, <1>18, CalmGood
<1> QED BY <1>1, <1>2, <1>19 DEF Lands

LEMMA AddProductLands ==
    ASSUME IInv, NEW p \in Products, AddProduct(p)
    PROVE  Lands
<1>1. PICK s : s = Sheet
    OBVIOUS
<1>2. PICK t : /\ DOMAIN t = Fields /\ Becomes(t)
               /\ t.row = row' /\ t.product = product' /\ t.cell = cell'
               /\ t.source = source' /\ t.coloured = coloured' /\ t.byHand = byHand'
    BY NextSheet
<1>3. Sound(s) /\ FreshIn(s) /\ Shaped(s)
    BY <1>1, SheetSound
<1>4. /\ t.row = s.row /\ t.cell = s.cell /\ t.source = s.source /\ t.coloured = s.coloured /\ t.byHand = s.byHand
      /\ t.product = [s.product EXCEPT ![p].live = TRUE] /\ ~s.product[p].live
    BY <1>1, <1>2, SheetIs DEF AddProduct
<1>5. /\ t.product \in [Products -> Product]
      /\ \A l \in Products : t.product[l].qty = s.product[l].qty /\ (l # p => t.product[l] = s.product[l])
    <2>1. s.product \in [Products -> Product]
        BY <1>3 DEF Shaped
    <2>2. PICK f : f = s.product
        OBVIOUS
    <2>3. PICK x : x = [f[p] EXCEPT !.live = TRUE]
        OBVIOUS
    <2>4. PICK o : o = [f EXCEPT ![p] = x]
        OBVIOUS
    <2>5. f \in [Products -> Product] /\ t.product = o
        BY <1>4, <2>1, <2>2, <2>3, <2>4
    <2>6. x \in Product /\ x.live = TRUE /\ x.qty = f[p].qty
        BY <2>3, <2>5 DEF Product
    <2>7. /\ o \in [Products -> Product] /\ o[p] = x
          /\ \A l \in Products : o[l].qty = f[l].qty /\ (l # p => o[l] = f[l])
        BY ONLY <2>4, <2>5, <2>6, LivesPut, p \in Products
    <2> QED BY <2>2, <2>5, <2>6, <2>7
<1>6. \A l \in LiveProducts(s) : l \in LiveProducts(t) /\ t.product[l].qty = s.product[l].qty
    BY <1>4, <1>5 DEF LiveProducts
<1>7. Shaped(t)
    BY <1>2, <1>3, <1>4, <1>5 DEF Shaped
<1>8. LinksFit(t) /\ ColoursFit(t) /\ NoZero(t) /\ Bare(t)
    BY <1>3, <1>4 DEF Sound, LinksFit, ColoursFit, NoZero, Bare
<1>9. SourcesFit(t) /\ RowsFit(t)
    BY <1>3, <1>4, <1>6 DEF Sound, SourcesFit, RowsFit
<1>10. Sound(t)
    BY <1>7, <1>8, <1>9 DEF Sound
<1>11. FreshIn(t)
    <2> SUFFICES ASSUME NEW u \in Rows, u \notin t.byHand, Live(t, u)
                 PROVE  FreshRow(t, u)
        BY DEF FreshIn
    <2>1. FreshRow(s, u) /\ Live(s, u) /\ u \notin s.byHand
        BY <1>3, <1>4 DEF FreshIn, Live
    <2>2. s.row[u].link \in LiveProducts(s) /\ \A c \in Columns : s.cell[u][c].link = None
        BY <1>3, <2>1, UnlinkedRow
    <2>3. PICK l \in LiveProducts(s) : l = s.row[u].link
        BY <2>2
    <2>4. l \in LiveProducts(t) /\ t.product[l].qty = s.product[l].qty /\ t.row[u].link = l
        BY <1>4, <1>6, <2>3
    <2>5. s.cell[u][Qty].link = None /\ t.cell[u][Qty].link = None
        BY <1>4, <2>2, ColumnsAre
    <2>6. SameView(s, t, u)
        BY <1>4, <2>3, <2>4, <2>5, RestView
    <2>7. \A c \in Columns : Kept(t, c) => (Kept(s, c) /\ t.cell[u][c].value = s.cell[u][c].value) \/ Cur(t, u, c)
        BY <1>4 DEF Kept
    <2>8. SourcesFit(s) /\ SourcesFit(t)
        BY <1>3, <1>9 DEF Sound
    <2> QED BY ONLY <2>1, <2>6, <2>7, <2>8, StaysFresh, u \in Rows
<1>12. CalmCells(s, t) /\ CalmRows(s, t) /\ CalmProducts(s, t)
    BY <1>4, <1>5 DEF CalmCells, CalmRows, CalmProducts
<1>13. Good(s, t)
    BY <1>10, <1>11, <1>12, CalmGood
<1> QED BY <1>1, <1>2, <1>13 DEF Lands

-----------------------------------------------------------------------------
(* The theorems *)

LEMMA InitIInv == Init => IInv
<1> SUFFICES ASSUME Init PROVE IInv
    OBVIOUS
<1>1. PICK s : s = Sheet
    OBVIOUS
<1>2. /\ DOMAIN s = Fields /\ s.row = [w \in Rows |-> [link |-> None, life |-> "unmade"]]
      /\ s.product = [p \in Products |-> [live |-> TRUE, qty |-> CHOOSE q \in Quantities : TRUE]]
      /\ s.cell = [w \in Rows |-> [c \in Columns |-> EmptyCell]]
      /\ s.source = source /\ s.coloured = {} /\ s.byHand = {}
    BY <1>1, SheetIs DEF Init
<1>3. source = [c \in Columns |-> Given(c)]
    <2>1. ASSUME NEW c \in Columns
          PROVE  (CASE c = Qty -> "lookup" [] c = Formula \/ c[1] = "pkg" -> "formula" [] OTHER -> "manual") = Given(c)
        <3>1. c = Qty => c # Formula /\ c[1] # "pkg"
            BY NamesAre
        <3> QED BY <3>1 DEF Given
    <2> QED BY <2>1 DEF Init
<1>4. \A w \in Rows, c \in Columns : s.cell[w][c] = EmptyCell
    BY <1>2
<1>5. DOMAIN EmptyCell = CellFields /\ EmptyCell.value = None /\ EmptyCell.link = None /\ EmptyCell.colour = None
    BY DEF EmptyCell, CellFields
<1>6. Shaped(s)
    <2>1. s.row \in [Rows -> Row]
        BY <1>2 DEF Row
    <2>2. s.product \in [Products -> Product]
        <3>1. PICK q \in Quantities : q = CHOOSE k \in Quantities : TRUE
            BY QuantitiesAssumption
        <3> QED BY <1>2, <3>1 DEF Product
    <2>3. s.source \in [Columns -> Kinds]
        BY <1>2, <1>3 DEF Given, Kinds
    <2>4. DOMAIN s.cell = Rows /\ \A w \in Rows : DOMAIN s.cell[w] = Columns
        BY <1>2
    <2>5. \A w \in Rows, c \in Columns : DOMAIN s.cell[w][c] = CellFields
        BY <1>4, <1>5
    <2> QED BY <1>2, <2>1, <2>2, <2>3, <2>4, <2>5 DEF Shaped
<1>7. LinksFit(s) /\ ColoursFit(s)
    BY <1>4, <1>5 DEF LinksFit, ColoursFit
<1>8. NoZero(s) /\ Bare(s)
    <2>1. None # 0
        BY NoneAssumption
    <2> QED BY <1>4, <1>5, <2>1, ColumnsAre DEF NoZero, Bare
<1>9. SourcesFit(s)
    BY <1>2, <1>3 DEF SourcesFit
<1>10. RowsFit(s) /\ FreshIn(s)
    BY <1>2, <1>4, <1>5 DEF RowsFit, FreshIn, Live
<1>11. Sound(s)
    BY <1>6, <1>7, <1>8, <1>9, <1>10 DEF Sound
<1>12. served \in 0..Budget
    BY BudgetAssumption DEF Init
<1> QED BY <1>1, <1>10, <1>11, <1>12 DEF IInv

LEMMA StepLands ==
    ASSUME IInv, [Next]_vars
    PROVE  Good(Sheet, Sheet')
<1>1. Lands
    <2>1. CASE UNCHANGED vars
        <3>1. Becomes(Sheet)
            BY <2>1, SheetIs DEF vars, Becomes
        <3>2. Frame(Sheet, Sheet)
            BY DEF Frame
        <3> QED BY <3>1, <3>2, SheetSound, StillLands
    <2>2. CASE Next
        <3>1. ASSUME NEW w \in Rows, NEW c \in Columns, NEW v, SetCellValue(w, c, v) PROVE Lands
            BY <3>1, SetCellValueLands
        <3>2. ASSUME NEW w \in Rows, NEW c \in Columns, NEW colour \in Colours \cup {None}, SetCellStatus(w, c, colour)
              PROVE  Lands
            BY <3>2, SetCellStatusLands
        <3>3. ASSUME NEW w \in Rows, NEW c \in Columns, NEW p \in Products, LinkCell(w, c, p) PROVE Lands
            BY <3>3, LinkCellLands
        <3>4. ASSUME NEW w \in Rows, NEW p \in Products, LinkRow(w, p) \/ Populate(w, p) PROVE Lands
            BY <3>4, LinkRowLands, PopulateLands
        <3>5. ASSUME NEW w \in Rows, DeleteRow(w) \/ RestoreRow(w) PROVE Lands
            BY <3>5, DeleteRowLands, RestoreRowLands
        <3>6. ASSUME NEW c \in Columns, AutoLinkColumn(c) PROVE Lands
            BY <3>6, AutoLinkColumnLands
        <3>7. ASSUME NEW kind \in Sources, ConfigureColumnSource(kind) PROVE Lands
            BY <3>7, ConfigureLands
        <3>8. ASSUME NEW on \in BOOLEAN, SetStatusColorEnabled(on) PROVE Lands
            BY <3>8, SetStatusColorEnabledLands
        <3>9. ASSUME NEW p \in Products, DeleteProduct(p) \/ AddProduct(p) PROVE Lands
            BY <3>9, DeleteProductLands, AddProductLands
        <3>10. ASSUME NEW p \in Products, NEW q \in Quantities, UpdateProduct(p, q) PROVE Lands
            BY <3>10, UpdateProductLands
        <3> QED BY <2>2, <3>1, <3>2, <3>3, <3>4, <3>5, <3>6, <3>7, <3>8, <3>9, <3>10 DEF Next, Step
    <2> QED BY <2>1, <2>2
<1> QED BY <1>1, Landed

(* Stored values have their types, blank cells are bare, and the lookups   *)
(* of rows nobody linked by hand are fresh, after every operation.         *)
THEOREM Invariance == Spec => []IInv
<1>1. IInv /\ [Next]_vars => IInv'
    <2> SUFFICES ASSUME IInv, [Next]_vars PROVE IInv'
        OBVIOUS
    <2>1. Sound(Sheet)' /\ FreshIn(Sheet)'
        BY StepLands, Primed
    <2>2. served' \in 0..Budget
        BY BudgetAssumption DEF IInv, Next, vars
    <2> QED BY <2>1, <2>2 DEF IInv
<1> QED BY InitIInv, <1>1, PTL DEF Spec

(* CellsAreSound: types hold, and a main cell without a quantity has no    *)
(* status and no remarks, whatever was typed, coloured, deleted or         *)
(* configured before (set_cell_value, set_cell_status).                    *)
THEOREM CellsHold == Spec => []CellsAreSound
<1>1. IInv => CellsAreSound
    <2> SUFFICES ASSUME IInv PROVE CellsAreSound
        OBVIOUS
    <2>1. PICK s : s = Sheet
        OBVIOUS
    <2>2. Sound(s) /\ s.row = row /\ s.product = product /\ s.cell = cell
          /\ s.source = source /\ s.coloured = coloured /\ s.byHand = byHand
        BY <2>1, SheetSound, SheetIs
    <2>3. /\ row \in [Rows -> Row] /\ product \in [Products -> Product]
          /\ source \in [Columns -> Kinds] /\ coloured \subseteq Columns
        BY <2>2 DEF Sound, Shaped
    <2>4. \A w \in Rows, c \in Columns :
            /\ cell[w][c].link \in Products \cup {None}
            /\ cell[w][c].colour \in Colours \cup {None}
            /\ cell[w][c].link # None => w \in byHand
        BY <2>2 DEF Sound, LinksFit, ColoursFit
    <2>5. \A w \in Rows, g \in Groups : cell[w][Main(g)].value # 0
        BY <2>2 DEF Sound, NoZero
    <2>6. BlankIsBare
        BY <2>2 DEF Sound, Bare, BlankIsBare
    <2>7. TypeOK
        BY <2>3, <2>4, <2>5 DEF TypeOK, IInv, Row, Product, Kinds
    <2> QED BY <2>6, <2>7 DEF CellsAreSound
<1> QED BY <1>1, Invariance, PTL

(* LookupsAreFresh: in rows that nobody linked cells of or fetched from    *)
(* the trash, lookups and package counts are what Product Master says now  *)
(* (recompute_and_store_row, refresh_planning_cells_for_record).           *)
THEOREM FreshnessHolds == Spec => []LookupsAreFresh
<1>1. IInv => LookupsAreFresh
    <2> SUFFICES ASSUME IInv PROVE LookupsAreFresh
        OBVIOUS
    <2> SUFFICES ASSUME NEW w \in {v \in Rows : Live(Sheet, v)} \ byHand, NEW c \in Columns,
                        source[c] = "lookup" \/ c[1] = "pkg"
                 PROVE  Fresh(w, c)
        BY DEF LookupsAreFresh
    <2>1. FreshRow(Sheet, w)
        BY SheetSound, SheetIs DEF FreshIn
    <2> QED BY <2>1, SheetIs DEF FreshRow, Fresh
<1> QED BY <1>1, Invariance, PTL

LEMMA EditedIs ==
    ASSUME NEW u, u = Sheet', NEW w \in Rows, Edited(w)
    PROVE  Edit(Sheet, u, w)
BY SheetIs DEF Edited, Edit, Live, Sheet

LEMMA FreshNext ==
    ASSUME NEW u, u = Sheet', NEW w \in Rows, NEW c \in Columns, Cur(u, w, c)
    PROVE  Fresh(w, c)'
BY DEF Cur, Fresh, Sheet

(* WritesRefresh: whoever types a value or changes a row's link leaves     *)
(* every computed cell of the row fresh, and a saved product those of the  *)
(* rows it was looked up for and every sum.                                *)
THEOREM WritesRefreshAll == Spec => WritesRefresh
<1>1. ASSUME IInv, [Next]_vars
      PROVE  /\ \A w \in Rows : Edited(w) => (\A c \in Columns : Fresh(w, c))'
             /\ \A p \in Products : product'[p].qty # product[p].qty =>
                  (\A w \in Rows, c \in Columns : Shows(w, c, p) => Fresh(w, c))'
    <2>1. PICK u : u = Sheet'
        OBVIOUS
    <2>2. Good(Sheet, u)
        BY <1>1, <2>1, StepLands
    <2>3. \A w \in Rows, c \in Columns : Cur(u, w, c) => Fresh(w, c)'
        BY <2>1, FreshNext
    <2>4. ASSUME NEW w \in Rows, Edited(w)
          PROVE  (\A c \in Columns : Fresh(w, c))'
        <3>1. Edit(Sheet, u, w)
            BY <2>1, <2>4, EditedIs
        <3>2. \A c \in Columns : Cur(u, w, c)
            BY <2>2, <3>1 DEF Good, EditsRefresh
        <3> QED BY <2>3, <3>2
    <2>5. ASSUME NEW p \in Products, product'[p].qty # product[p].qty
          PROVE  (\A w \in Rows, c \in Columns : Shows(w, c, p) => Fresh(w, c))'
        <3>1. u.product[p].qty # Sheet.product[p].qty
            BY <2>1, <2>5 DEF Sheet
        <3>2. \A w \in Rows, c \in Columns :
                Live(u, w) /\ (u.row[w].link = p \/ u.source[c] = "sum") => Cur(u, w, c)
            BY <2>2, <3>1 DEF Good, SavesRefresh
        <3>3. u.row = row' /\ u.source = source'
            BY <2>1 DEF Sheet
        <3>4. \A w \in Rows, c \in Columns : Shows(w, c, p)' => Cur(u, w, c)
            BY <2>1, <3>2, <3>3 DEF Shows
        <3> QED BY <2>3, <3>4
    <2> QED BY <2>4, <2>5
<1>2. IInv /\ [Next]_vars =>
        [/\ \A w \in Rows : Edited(w) => (\A c \in Columns : Fresh(w, c))'
         /\ \A p \in Products : product'[p].qty # product[p].qty =>
              (\A w \in Rows, c \in Columns : Shows(w, c, p) => Fresh(w, c))']_vars
    BY <1>1
<1> QED BY <1>2, Invariance, PTL DEF Spec, WritesRefresh

(* TypedStays: what a client typed stays until someone types over it in    *)
(* that row, or the column is configured to take its values elsewhere      *)
(* (configure_column_source, unlink_product_from_sheets).                  *)
THEOREM TypedStaysHold == Spec => TypedStays
<1>1. ASSUME IInv, [Next]_vars
      PROVE  \A w \in Rows, c \in Columns :
                source[c] = "manual" /\ cell[w][c].link = None /\ cell'[w][c].value # cell[w][c].value =>
                    \/ source'[c] # "manual"
                    \/ \E d \in Columns : cell'[w][d].value # cell[w][d].value /\ source[d] = "manual" /\ Edited(w)
    <2> SUFFICES ASSUME NEW w \in Rows, NEW c \in Columns, source[c] = "manual", cell[w][c].link = None,
                        cell'[w][c].value # cell[w][c].value, source'[c] = "manual"
                 PROVE  \E d \in Columns : cell'[w][d].value # cell[w][d].value /\ source[d] = "manual" /\ Edited(w)
        OBVIOUS
    <2>1. PICK u : u = Sheet'
        OBVIOUS
    <2>2. Good(Sheet, u)
        BY <1>1, <2>1, StepLands
    <2>3. u.row = row' /\ u.source = source' /\ u.cell = cell'
        BY <2>1 DEF Sheet
    <2>4. Retyped(Sheet, u, w)
        BY <2>2, <2>3, SheetIs DEF Good, Stay
    <2>5. PICK d \in Columns : /\ u.cell[w][d].value # Sheet.cell[w][d].value
                               /\ Sheet.source[d] = "manual" /\ Edit(Sheet, u, w)
        BY <2>4 DEF Retyped
    <2>6. Edited(w)
        BY <2>3, <2>5, SheetIs DEF Edit, Edited, Live
    <2> QED BY <2>3, <2>5, <2>6, SheetIs
<1>2. IInv /\ [Next]_vars => [\A w \in Rows, c \in Columns :
        source[c] = "manual" /\ cell[w][c].link = None /\ cell'[w][c].value # cell[w][c].value =>
            \/ source'[c] # "manual"
            \/ \E d \in Columns : cell'[w][d].value # cell[w][d].value /\ source[d] = "manual" /\ Edited(w)]_vars
    BY <1>1
<1> QED BY <1>2, Invariance, PTL DEF Spec, TypedStays
================================================================================
