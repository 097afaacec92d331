----------------------------- MODULE GridOrder -----------------------------
(***************************************************************************)
(* The order of the columns and rows of one planning sheet                 *)
(* (planning/service.py): positions are plain integers, re-sequenced by    *)
(* range UPDATEs, and no constraint of the database relates them.          *)
(*                                                                         *)
(* A request first lists the sheet (one action for each route) and then    *)
(* writes and commits (a second action); others may do so in between.      *)
(***************************************************************************)
EXTENDS Integers, FiniteSets

CONSTANTS
    Columns,        \* slots of columns, numbered in the order of creation
    Rows,           \* slots of rows, numbered in the order of creation
    Products,       \* products of the sheet's branch, in Product Master's order
    Roles,          \* the roles of columns that clients add: [part, group]
    BaseRoles,      \* roles of the columns the sheet begins with
    Lookups,        \* roles of the shared columns every group needs
    Companions,     \* the parts a new group has besides its main column
    Requests,       \* requests that may be open at once
    Ops,            \* operations the instance has
    Budget,         \* how many requests are served
    None            \* no product

ASSUME SlotsAssumption == Columns \subseteq Nat /\ Rows \subseteq Nat /\ Products \subseteq Nat
ASSUME NoneAssumption == None \notin Products
ASSUME BudgetAssumption == Budget \in Nat

VARIABLES
    col,        \* col[c]: [role, pos, live] of column c
    row,        \* row[w]: [link, pos, live, made] of row w
    product,    \* product[p]: p is not deleted
    req,        \* req[q]: the request q serves, with what it listed
    served      \* how many requests have begun

vars == <<col, row, product, req, served>>

Role(part, group) == [part |-> part, group |-> group]
NoRole == Role("none", 0)
Unmade == [role |-> NoRole, pos |-> 0, live |-> FALSE]
UnmadeRow == [link |-> None, pos |-> 0, live |-> FALSE, made |-> FALSE]
Idle == [op |-> "none", at |-> 0, to |-> 0, role |-> NoRole, link |-> None,
         list |-> <<>>, gone |-> {}, has |-> {}, alone |-> TRUE]

-----------------------------------------------------------------------------
(* Lists and range updates *)

(* list_for_sheet: the live lines, by position, then by creation. *)
Listed(lines) == [l \in {m \in DOMAIN lines : lines[m].live} |-> lines[l]]
Before(list, a, b) == list[a].pos < list[b].pos \/ (list[a].pos = list[b].pos /\ a < b)
Index(list, a) == Cardinality({b \in DOMAIN list : Before(list, b, a)})
Size(list) == Cardinality(DOMAIN list)

(* The positions are those of a list: 0, 1, 2 and so on. *)
Dense(list) == \A a \in DOMAIN list : list[a].pos = Index(list, a)

SmallestOf(S) == CHOOSE x \in S : \A y \in S : x <= y
LargestOf(S) == CHOOSE x \in S : \A y \in S : y <= x
Clamp(n, low, high) == IF n < low THEN low ELSE IF n > high THEN high ELSE n

(* What an UPDATE that waited for a lock does not match: lines that        *)
(* appeared or moved up to its bound since the request listed the sheet    *)
(* need not be in the statement's snapshot.                                *)
Missable(lines, list, from) ==
    {l \in DOMAIN Listed(lines) :
        lines[l].pos >= from /\ (l \notin DOMAIN list \/ list[l].pos < from)}

(* (mutant) The bound is exclusive. *)
ShiftedPast(lines, from, delta, missed) ==
    [l \in DOMAIN lines |->
        IF lines[l].live /\ lines[l].pos > from /\ l \notin missed
        THEN [lines[l] EXCEPT !.pos = @ + delta]
        ELSE lines[l]]

(* shift_positions_after: one UPDATE of every live line at or after from.  *)
Shifted(lines, from, delta, missed) ==
    [l \in DOMAIN lines |->
        IF lines[l].live /\ lines[l].pos >= from /\ l \notin missed
        THEN [lines[l] EXCEPT !.pos = @ + delta]
        ELSE lines[l]]

(* The two range updates of a move, and the update of the line itself.     *)
Moved(lines, l, old, new, missed) ==
    LET others == IF new < old
                  THEN Shifted(Shifted(lines, new, 1, missed), old + 1, -1, missed)
                  ELSE Shifted(Shifted(lines, old, -1, missed), new + 1, 1, missed)
    IN  [others EXCEPT ![l].pos = new]

(* A soft deletion and the range update after it. *)
Removed(lines, l, old, missed) ==
    Shifted([lines EXCEPT ![l].live = FALSE], old + 1, -1, missed)

-----------------------------------------------------------------------------
(* The canonical layout of columns *)

(* An "alien" column is named like a main column under another label.      *)
Single == {"item", "test", "approval", "shared"}
GroupParts == {"main", "remarks", "pkg_count", "total_weight", "total_cbm"}

(* The sections of the layout, and the order of the parts in a section.    *)
Section(part) ==
    CASE part = "item" -> 0
      [] part = "test" -> 1
      [] part = "approval" -> 2
      [] part \in {"main", "remarks"} -> 3
      [] part = "shared" -> 4
      [] part \in {"pkg_count", "total_weight", "total_cbm"} -> 5
      [] OTHER -> 6
Within(part) ==
    CASE part \in {"remarks", "total_weight"} -> 1
      [] part = "total_cbm" -> 2
      [] OTHER -> 0

(* The column the scan of the list keeps for its role: the first one where *)
(* a sheet has one, the last one for a group, whose entry a later column   *)
(* of the same name overwrites.                                            *)
Holds(list, c) ==
    \A d \in DOMAIN list : list[d].role = list[c].role /\ d # c =>
        IF list[c].role.part \in Single THEN Before(list, c, d) ELSE Before(list, d, c)

HasMain(list, g) == \E d \in DOMAIN list : list[d].role = Role("main", g)

InLayout(list, c) ==
    LET r == list[c].role IN
    /\ r.part \in Single \/ (r.part \in GroupParts /\ HasMain(list, r.group))
    /\ Holds(list, c)

(* A group's column that another one overwrote is in no list any more: it  *)
(* keeps the position it has.                                              *)
Forgotten(list, c) == list[c].role.part \in GroupParts /\ ~Holds(list, c)

(* Where the layout puts a column.  What is left over comes last, by old   *)
(* position, a group without its main column after its equals.             *)
Rank(list, c) ==
    LET r == list[c].role IN
    IF InLayout(list, c)
    THEN <<Section(r.part), r.group, Within(r.part), 0>>
    ELSE <<6, list[c].pos, IF r.part \in GroupParts THEN 1 ELSE 0, Index(list, c)>>

Precedes(a, b) ==
    \/ a[1] < b[1]
    \/ a[1] = b[1] /\ a[2] < b[2]
    \/ a[1] = b[1] /\ a[2] = b[2] /\ a[3] < b[3]
    \/ a[1] = b[1] /\ a[2] = b[2] /\ a[3] = b[3] /\ a[4] < b[4]

RoleBefore(r, s) ==
    Precedes(<<Section(r.part), r.group, Within(r.part), 0>>,
             <<Section(s.part), s.group, Within(s.part), 0>>)

(* (mutant) Positions count from the first group, not from the first column. *)
LayoutOfGroups(list) ==
    LET kept == {c \in DOMAIN list : ~Forgotten(list, c)}
    IN  [c \in kept |-> Cardinality({d \in kept :
            list[d].role.part # "test" /\ Precedes(Rank(list, d), Rank(list, c))})]

(* normalize_column_order, and the end of create_next_mum_group: the new   *)
(* position of each column that gets one.                                  *)
Layout(list) ==
    LET kept == {c \in DOMAIN list : ~Forgotten(list, c)}
        ranks == {<<Rank(list, c), c>> : c \in kept}
    IN  [c \in kept |-> Cardinality({r \in ranks : \E s \in ranks : s[2] = c /\ Precedes(r[1], s[1])})]

(* (mutant) Only main columns are counted. *)
NextGroupByMain(list) ==
    1 + LargestOf({0} \cup {list[c].role.group :
            c \in {d \in DOMAIN list : list[d].role.part = "main"}})

(* The number of the next group: past every group any column names.        *)
NextGroup(list) ==
    1 + LargestOf({0} \cup {list[c].role.group :
            c \in {d \in DOMAIN list : list[d].role.part \in GroupParts}})

(* The columns "+Next" adds: the lookups the sheet lacks, and the group.   *)
NewRoles(list) ==
    {r \in Lookups : \A c \in DOMAIN list : list[c].role # r}
        \cup {Role(part, NextGroup(list)) : part \in {"main"} \cup Companions}

-----------------------------------------------------------------------------
(* Requests *)

(* Request q begins and lists the sheet; whoever else is open is no longer *)
(* alone.                                                                  *)
Begin(q, request) ==
    /\ request.op \in Ops
    /\ req[q] = Idle
    /\ served < Budget
    /\ served' = served + 1
    /\ LET quiet == \A o \in Requests : req[o] = Idle
       IN  req' = [o \in Requests |->
                    IF o = q THEN [request EXCEPT !.alone = quiet]
                    ELSE IF req[o] = Idle THEN Idle ELSE [req[o] EXCEPT !.alone = FALSE]]
    /\ UNCHANGED <<col, row, product>>

(* A request for columns, or for rows, that names line l and a place. *)
ForColumns(op) == [Idle EXCEPT !.op = op, !.list = Listed(col)]
ForRows(op) == [Idle EXCEPT !.op = op, !.list = Listed(row)]
Places(list) == 0..Size(list)

AskAddColumn(q) == \E r \in Roles, to \in Places(Listed(col)) :
    Begin(q, [ForColumns("addColumn") EXCEPT !.role = r, !.to = to])
AskRenameColumn(q) == \E c \in DOMAIN Listed(col), r \in Roles :
    /\ \A d \in DOMAIN Listed(col) \ {c} : col[d].role # r
    /\ Begin(q, [ForColumns("renameColumn") EXCEPT !.at = c, !.role = r])

(* The position a client asks for is clamped to the list; asking for the   *)
(* line's own one ends the request.                                        *)
AskMoveColumn(q) == \E c \in DOMAIN Listed(col), to \in Places(Listed(col)) :
    LET new == Clamp(to, 0, Size(Listed(col)) - 1) IN
    /\ new # col[c].pos
    /\ Begin(q, [ForColumns("moveColumn") EXCEPT !.at = c, !.to = new])
AskRelabel(q) == Begin(q, ForColumns("relabel"))
AskMoveRow(q) == \E w \in DOMAIN Listed(row), to \in Places(Listed(row)) :
    LET new == Clamp(to, 0, Size(Listed(row)) - 1) IN
    /\ new # row[w].pos
    /\ Begin(q, [ForRows("moveRow") EXCEPT !.at = w, !.to = new])
AskDeleteColumn(q) == \E c \in DOMAIN Listed(col) :
    /\ col[c].role.part \notin {"item", "test", "approval"}
    /\ Begin(q, [ForColumns("deleteColumn") EXCEPT !.at = c])
AskDeleteRow(q) == \E w \in DOMAIN Listed(row) :
    Begin(q, [ForRows("deleteRow") EXCEPT !.at = w])
AskNormalize(q) == Begin(q, ForColumns("normalize"))
AskNextGroup(q) == Begin(q, ForColumns("nextGroup"))
AskLinkRow(q) == \E w \in DOMAIN Listed(row), p \in Products :
    /\ product[p]
    /\ Begin(q, [ForRows("linkRow") EXCEPT !.at = w, !.link = p])

LiveProducts == {p \in Products : product[p]}
Linked(list) == {list[w].link : w \in DOMAIN list} \ {None}
Orphans == {w \in DOMAIN Listed(row) : row[w].link # None /\ ~product[row[w].link]}
Left(list, gone) == [w \in DOMAIN list \ gone |-> list[w]]
(* (mutant) The check is for an empty sheet only. *)
AskReadEmptyGrid(q) ==
    LET left == Left(Listed(row), Orphans)
    IN  Begin(q, [Idle EXCEPT
            !.op = "readGrid", !.list = left, !.gone = Orphans,
            !.has = IF left = <<>> THEN LiveProducts ELSE {}])

(* get_grid and get_filter_values read the sheet and bring it up to date:  *)
(* rows whose product is gone go, and if fewer rows than products are      *)
(* left, rows are added.  The count is of rows.                            *)
AskReadGrid(q) ==
    LET left == Left(Listed(row), Orphans)
        counted == {w \in DOMAIN left : left[w].link \in LiveProducts}
    IN  Begin(q, [Idle EXCEPT
            !.op = "readGrid", !.list = left, !.gone = Orphans,
            !.has = IF Cardinality(counted) < Cardinality(LiveProducts)
                    THEN LiveProducts \ Linked(left) ELSE {}])

(* auto_populate_rows_from_item_source, asked for by a client: the first   *)
(* limit products.  The branch search asks for all of them if rows are     *)
(* missing, and removes none (search_organization_branches).               *)
AskPopulate(q) == \E limit \in Products :
    Begin(q, [ForRows("populate") EXCEPT
        !.has = {p \in LiveProducts \ Linked(Listed(row)) :
                    Cardinality({o \in LiveProducts : o < p}) < limit}])

-----------------------------------------------------------------------------
(* Writes *)

Serving(q, op) == req[q].op = op
Done(q) == req' = [req EXCEPT ![q] = Idle] /\ UNCHANGED served
ColumnsOnly == UNCHANGED <<row, product>>
RowsOnly == UNCHANGED <<col, product>>

NextColumn == SmallestOf({c \in Columns : col[c] = Unmade})
RoomFor(n) == Cardinality({c \in Columns : col[c] = Unmade}) >= n

AddColumn(q) ==
    /\ Serving(q, "addColumn")
    /\ RoomFor(1)
    /\ \E missed \in SUBSET Missable(col, req[q].list, req[q].to) :
        col' = [Shifted(col, req[q].to, 1, missed) EXCEPT
                    ![NextColumn] = [role |-> req[q].role, pos |-> req[q].to, live |-> TRUE]]
    /\ Done(q) /\ ColumnsOnly

RenameColumn(q) ==
    /\ Serving(q, "renameColumn")
    /\ col' = [col EXCEPT ![req[q].at].role = req[q].role]
    /\ Done(q) /\ ColumnsOnly

(* update_mum_group_label: the listed columns of the groups are renamed, so *)
(* they stay what they are.  A column that bore the new label's name is    *)
(* one of the group's now, and one that was not listed is no longer.       *)
Relabelled(role, listed) ==
    CASE role.part = "alien" -> Role("main", role.group)
      [] role.part = "main" /\ ~listed -> Role("alien", role.group)
      [] role.part \in GroupParts \ {"main"} /\ ~listed -> Role("other", 0)
      [] OTHER -> role
Relabel(q) ==
    /\ Serving(q, "relabel")
    /\ col' = [c \in Columns |->
                [col[c] EXCEPT !.role = Relabelled(@, c \in DOMAIN req[q].list)]]
    /\ Done(q) /\ ColumnsOnly

MoveColumn(q) ==
    /\ Serving(q, "moveColumn")
    /\ LET old == req[q].list[req[q].at].pos IN
       \E missed \in SUBSET Missable(col, req[q].list, IF req[q].to < old THEN req[q].to ELSE old) :
        col' = Moved(col, req[q].at, old, req[q].to, missed)
    /\ Done(q) /\ ColumnsOnly

MoveRow(q) ==
    /\ Serving(q, "moveRow")
    /\ LET old == req[q].list[req[q].at].pos IN
       \E missed \in SUBSET Missable(row, req[q].list, IF req[q].to < old THEN req[q].to ELSE old) :
        row' = Moved(row, req[q].at, old, req[q].to, missed)
    /\ Done(q) /\ RowsOnly

DeleteColumn(q) ==
    /\ Serving(q, "deleteColumn")
    /\ LET old == req[q].list[req[q].at].pos IN
       \E missed \in SUBSET Missable(col, req[q].list, old + 1) :
        col' = Removed(col, req[q].at, old, missed)
    /\ Done(q) /\ ColumnsOnly

DeleteRow(q) ==
    /\ Serving(q, "deleteRow")
    /\ LET old == req[q].list[req[q].at].pos IN
       \E missed \in SUBSET Missable(row, req[q].list, old + 1) :
        row' = Removed(row, req[q].at, old, missed)
    /\ Done(q) /\ RowsOnly

(* Only the columns whose position differs from the one listed are written. *)
Arranged(lines, list, layout) ==
    [c \in DOMAIN lines |->
        IF c \in DOMAIN layout /\ layout[c] # list[c].pos
        THEN [lines[c] EXCEPT !.pos = layout[c]]
        ELSE lines[c]]

Normalize(q) ==
    /\ Serving(q, "normalize")
    /\ col' = Arranged(col, req[q].list, Layout(req[q].list))
    /\ Done(q) /\ ColumnsOnly

(* The new columns come after the listed ones and are then laid out with   *)
(* them, all in one flush.                                                 *)
WithGroup(list) ==
    LET new == NewRoles(list)
        nth(r) == Cardinality({s \in new : RoleBefore(s, r)})
    IN  [c \in DOMAIN list \cup {NextColumn + nth(r) : r \in new} |->
            IF c \in DOMAIN list THEN list[c]
            ELSE LET r == CHOOSE s \in new : NextColumn + nth(s) = c
                 IN  [role |-> r, pos |-> Size(list) + nth(r), live |-> TRUE]]
CreateNextGroup(q) ==
    /\ Serving(q, "nextGroup")
    /\ RoomFor(Cardinality(NewRoles(req[q].list)))
    /\ \E all \in {WithGroup(req[q].list)} :
        col' = Arranged([c \in Columns |->
                            IF c \in DOMAIN all \ DOMAIN req[q].list THEN all[c] ELSE col[c]],
                        all, Layout(all))
    /\ Done(q) /\ ColumnsOnly

LinkRow(q) ==
    /\ Serving(q, "linkRow")
    /\ row' = [row EXCEPT ![req[q].at].link = req[q].link]
    /\ Done(q) /\ RowsOnly

(* One new row for each product in has, from the number of listed rows on. *)
WithRowsFor(list, has) ==
    LET first == SmallestOf({w \in Rows : ~row[w].made})
        nth(p) == Cardinality({o \in has : o < p})
    IN  [w \in Rows |->
            IF \E p \in has : w = first + nth(p)
            THEN LET p == CHOOSE p \in has : w = first + nth(p)
                 IN  [link |-> p, pos |-> Size(list) + nth(p), live |-> TRUE, made |-> TRUE]
            ELSE row[w]]
HaveSlots(has) == Cardinality({w \in Rows : ~row[w].made}) >= Cardinality(has)

Populate(q) ==
    /\ Serving(q, "populate")
    /\ HaveSlots(req[q].has)
    /\ row' = IF req[q].has = {} THEN row ELSE WithRowsFor(req[q].list, req[q].has)
    /\ Done(q) /\ RowsOnly

ReadGrid(q) ==
    /\ Serving(q, "readGrid")
    /\ HaveSlots(req[q].has)
    /\ LET swept == [w \in Rows |-> IF w \in req[q].gone THEN [row[w] EXCEPT !.live = FALSE] ELSE row[w]]
       IN  row' = IF req[q].has = {} THEN swept
                  ELSE [w \in Rows |-> IF row[w].made THEN swept[w]
                                       ELSE WithRowsFor(req[q].list, req[q].has)[w]]
    /\ Done(q) /\ RowsOnly

-----------------------------------------------------------------------------
(* The trash and Product Master *)

(* A commit beside the open requests; it counts as one served. *)
Outside(op) ==
    /\ op \in Ops
    /\ served < Budget
    /\ served' = served + 1
    /\ req' = [o \in Requests |-> IF req[o] = Idle THEN Idle ELSE [req[o] EXCEPT !.alone = FALSE]]

(* restore_item clears deleted_at and nothing else. *)
RestoreColumn(c) ==
    /\ Outside("restoreColumn")
    /\ col[c] # Unmade /\ ~col[c].live
    /\ col' = [col EXCEPT ![c].live = TRUE]
    /\ UNCHANGED <<row, product>>

RestoreRow(w) ==
    /\ Outside("restoreRow")
    /\ row[w].made /\ ~row[w].live
    /\ row' = [row EXCEPT ![w].live = TRUE]
    /\ UNCHANGED <<col, product>>

(* Deleting a product soft-deletes its rows in the same transaction and    *)
(* leaves the positions of the others.                                     *)
DeleteProduct(p) ==
    /\ Outside("deleteProduct")
    /\ product[p]
    /\ product' = [product EXCEPT ![p] = FALSE]
    /\ row' = [w \in Rows |-> IF row[w].link = p THEN [row[w] EXCEPT !.live = FALSE] ELSE row[w]]
    /\ UNCHANGED col

(* A product is created, or restored from the trash, which leaves its rows. *)
AddProduct(p) ==
    /\ Outside("addProduct")
    /\ ~product[p]
    /\ product' = [product EXCEPT ![p] = TRUE]
    /\ UNCHANGED <<col, row>>

-----------------------------------------------------------------------------
(* Specification *)

(* create_sheet: the base columns in their order and a row for each        *)
(* product of the branch.                                                  *)
Init ==
    /\ LET nth(r) == Cardinality({s \in BaseRoles : RoleBefore(s, r)})
       IN  col = [c \in Columns |->
                    IF \E r \in BaseRoles : nth(r) + 1 = c
                    THEN LET r == CHOOSE s \in BaseRoles : nth(s) + 1 = c
                         IN  [role |-> r, pos |-> nth(r), live |-> TRUE]
                    ELSE Unmade]
    /\ product = [p \in Products |-> TRUE]
    /\ row = [w \in Rows |-> IF w \in Products
                             THEN [link |-> w, pos |-> w - 1, live |-> TRUE, made |-> TRUE]
                             ELSE UnmadeRow]
    /\ req = [q \in Requests |-> Idle]
    /\ served = 0

Ask(q) ==
    \/ AskAddColumn(q) \/ AskRenameColumn(q) \/ AskMoveColumn(q) \/ AskDeleteColumn(q)
    \/ AskRelabel(q) \/ AskNormalize(q) \/ AskNextGroup(q) \/ AskMoveRow(q) \/ AskDeleteRow(q)
    \/ AskLinkRow(q) \/ AskReadGrid(q) \/ AskPopulate(q)

Apply(q) ==
    \/ AddColumn(q) \/ RenameColumn(q) \/ MoveColumn(q) \/ DeleteColumn(q)
    \/ Relabel(q) \/ Normalize(q) \/ CreateNextGroup(q) \/ MoveRow(q) \/ DeleteRow(q)
    \/ LinkRow(q) \/ ReadGrid(q) \/ Populate(q)

Next ==
    \/ \E q \in Requests : Ask(q) \/ Apply(q)
    \/ \E c \in Columns : RestoreColumn(c)
    \/ \E w \in Rows : RestoreRow(w)
    \/ \E p \in Products : DeleteProduct(p) \/ AddProduct(p)

Spec == Init /\ [][Next]_vars

-----------------------------------------------------------------------------
(* Properties *)

Parts == Single \cup GroupParts \cup {"alien", "other"}

(* Request q writes and commits, with nothing committed beside it. *)
EndsAlone(q) == req[q].op # "none" /\ req'[q] = Idle /\ req[q].alone

KeepsOrder(old, new, moved) ==
    \A a, b \in (DOMAIN old \cap DOMAIN new) \ {moved} :
        Before(old, a, b) => Before(new, a, b)

(* A request that had the sheet to itself leaves the lines numbered from 0 *)
(* without gaps if it found them so, puts the line it names at the place   *)
(* it was given, and leaves the others in their order (add_column,         *)
(* move_column, move_row, delete_column, delete_row, and rows appended to  *)
(* a sheet that had no orphan).  A move towards the end is left out unless *)
(* it goes to the very end: it shifts its neighbours once too many.        *)
Resequences(r) ==
    \/ r.op \in {"addColumn", "deleteColumn", "deleteRow", "populate"}
    \/ r.op = "readGrid" /\ r.gone = {}
    \/ r.op \in {"moveColumn", "moveRow"} /\ (r.to < r.list[r.at].pos \/ r.to = Size(r.list) - 1)
StaysSequenced(old, new, moved) == Dense(old) => Dense(new) /\ KeepsOrder(old, new, moved)
SoloOrder == [][\A q \in Requests : EndsAlone(q) /\ Resequences(req[q]) =>
    /\ StaysSequenced(Listed(col), Listed(col'), req[q].at)
    /\ StaysSequenced(Listed(row), Listed(row'), req[q].at)
    /\ req[q].op = "moveColumn" => col'[req[q].at].pos = req[q].to
    /\ req[q].op = "moveRow" => row'[req[q].at].pos = req[q].to]_vars

(* Whatever order the columns had, normalizing them, or adding a group,    *)
(* leaves them numbered from 0 in the intended layout (normalize_column_   *)
(* order: "fixes ANY accumulated ordering drift"), provided no column of a *)
(* group is named like another one.                                        *)
HasTwins(list) == \E c \in DOMAIN list : Forgotten(list, c)
LaidOut(list) ==
    \A a, b \in {c \in DOMAIN list : InLayout(list, c)} :
        Section(list[a].role.part) < Section(list[b].role.part) => list[a].pos < list[b].pos
SoloLayout == [][\A q \in Requests :
    EndsAlone(q) /\ req[q].op \in {"normalize", "nextGroup"} /\ ~HasTwins(Listed(col'))
        => Dense(Listed(col')) /\ LaidOut(Listed(col'))]_vars

(* Each "+Next" that ran alone adds a group no column belonged to before,  *)
(* so columns get the same name only from a client or from two requests.   *)
SoloGroupIsNew == [][\A q \in Requests :
    EndsAlone(q) /\ req[q].op = "nextGroup" /\ ~HasTwins(Listed(col))
        => ~HasTwins(Listed(col'))]_vars

(* A read of the grid that ran alone leaves no row of a deleted product,   *)
(* and a row for every product of the branch, unless two rows share one:   *)
(* the code compares the number of rows with the number of products.       *)
SharedProduct == \E v, w \in DOMAIN Listed(row) : v # w /\ row[v].link # None /\ row[v].link = row[w].link
SoloRead == [][\A q \in Requests : EndsAlone(q) /\ req[q].op = "readGrid" =>
    /\ Linked(Listed(row')) \subseteq {p \in Products : product'[p]}
    /\ {p \in Products : product'[p]} \subseteq Linked(Listed(row')) \/ SharedProduct]_vars

=============================================================================
