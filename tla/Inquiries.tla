------------------------------ MODULE Inquiries ------------------------------
(***************************************************************************)
(* The inquiry workflow of app/inquiries: consignments ("inquiries"), the  *)
(* product lines under them, the suppliers' quotations on a line, and the  *)
(* rollup (status and totals) that every consignment header stores about   *)
(* its lines.  Restoring from app/trash, and deleting a line for good      *)
(* there, are included, because they change the same rows.                 *)
(*                                                                         *)
(* Every request runs in one transaction of RowStore, one step per SQL     *)
(* statement, so the steps of two requests interleave as they do in the    *)
(* program.  A step that raises rolls the request back.                    *)
(***************************************************************************)
EXTENDS Integers, Sequences, FiniteSets

CONSTANTS
    Items,      \* slots for rows of inquiry_items
    Inqs,       \* consignments; each stands for one (buyer, code) pair
    Quotes,     \* slots for rows of quotations
    Txns,       \* requests that may be in progress at once
    Qtys,       \* quantities a line may have
    Batch,      \* how many lines one bulk request may name
    Decisions,  \* statuses a request may give a quotation
    Ops,        \* the operations the requests use
    Free, None

LOCAL INSTANCE FiniteSetsExt    \* MapThenSumSet

Code(c) == <<"code", c>>        \* the row of consignment_codes behind c
Codes == {Code(c) : c \in Inqs}
Rows == Items \cup Inqs \cup Quotes \cup Codes

VARIABLES
    committed, working, owner,  \* the database (RowStore)
    req                         \* req[t]: the request transaction t serves

INSTANCE RowStore

ASSUME FreeIsNoTxn == Free \notin Txns
ASSUME TablesAreDisjoint ==
    /\ Items \cap Inqs = {} /\ Items \cap Quotes = {} /\ Items \cap Codes = {}
    /\ Inqs \cap Quotes = {} /\ Inqs \cap Codes = {} /\ Quotes \cap Codes = {}
ASSUME NoneIsNothing == None \notin Items \cup Inqs \cup Quotes
ASSUME QtysArePositive == Qtys \subseteq Nat \ {0}
ASSUME TablesAreFinite == IsFiniteSet(Quotes)
ASSUME BatchIsNumber == Batch \in Nat

storeVars == <<committed, working, owner>>
vars == <<committed, working, owner, req>>

-----------------------------------------------------------------------------
(***************************************************************************)
(* The tables.  "trash" is a row whose deleted_at is set, and "purged" one *)
(* that was deleted for good: its id is not used again, although clients   *)
(* may still name it.                                                      *)
(***************************************************************************)
Life == {"absent", "live", "trash"}
LineLife == Life \cup {"purged"}
ItemStatus == {"proposed", "approved"}
QuoteStatus == {"pending", "approved", "rejected", "po_created"}
HeaderStatus == {"proposed", "partial_approved", "fully_approved"}

ASSUME DecisionsAreStatuses == Decisions \subseteq QuoteStatus

(* total_cbm and total_weight are sums of quantity times a product's unit; *)
(* every product has the unit 1 here.                                      *)
Total(q) == MapThenSumSet(LAMBDA i : q[i], Items)
Totals == {Total(q) : q \in [Items -> Qtys \cup {0}]}
NoTotal == Total([i \in Items |-> 0])

ItemRow == [life : LineLife, inq : Inqs \cup {None}, status : ItemStatus,
            at : BOOLEAN,           \* approved_at and approved_by are set
            qty : Qtys \cup {0},
            posted : BOOLEAN]       \* tally_entry_posted
InqRow == [life : Life, status : HeaderStatus, total : Totals]
QuoteRow == [life : LineLife, item : Items \cup {None}, status : QuoteStatus, num : Nat]
CodeRow == [life : Life]

NoItem == [life |-> "absent", inq |-> None, status |-> "proposed", at |-> FALSE,
           qty |-> 0, posted |-> FALSE]
NoInq == [life |-> "absent", status |-> "proposed", total |-> NoTotal]
NoQuote == [life |-> "absent", item |-> None, status |-> "pending", num |-> 0]

NewItem(c, status, q) ==
    [life |-> "live", inq |-> c, status |-> status, at |-> status = "approved",
     qty |-> q, posted |-> FALSE]

LinesOf(s, c) == {i \in Items : s[i].life = "live" /\ s[i].inq = c}

Approved(s, c) == {i \in LinesOf(s, c) : s[i].status = "approved"}

(* (mutant) The header gets the status an item would get. *)
RollupItemStatus(s, c) ==
    [status |-> IF Approved(s, c) = {} THEN "proposed"
                ELSE IF Approved(s, c) = LinesOf(s, c) THEN "approved" ELSE "partial_approved",
     total |-> Total([i \in Items |-> IF i \in LinesOf(s, c) THEN s[i].qty ELSE 0])]

(* compute_rollup on the rows s. *)
Rollup(s, c) ==
    [status |-> IF Approved(s, c) = {} THEN "proposed"
                ELSE IF Approved(s, c) = LinesOf(s, c) THEN "fully_approved"
                ELSE "partial_approved",
     total |-> Total([i \in Items |-> IF i \in LinesOf(s, c) THEN s[i].qty ELSE 0])]

(* A SELECT without a condition on deleted_at finds the row. *)
Exists(row) == row.life \in {"live", "trash"}

(* count_approved_for_item on the rows s, as far as the code looks at it. *)
HasApprovedQuote(s, i) ==
    \E k \in Quotes : s[k].life = "live" /\ s[k].item = i /\ s[k].status = "approved"

Agrees(s, c) ==
    s[c].life = "live" => Rollup(s, c) = [status |-> s[c].status, total |-> s[c].total]

(* A header, in the trash or not, stores what its lines add up to. *)
Stores(s, c) ==
    s[c].life # "absent" => Rollup(s, c) = [status |-> s[c].status, total |-> s[c].total]

-----------------------------------------------------------------------------
(***************************************************************************)
(* A request in progress.                                                  *)
(***************************************************************************)
Blank ==
    [pc |-> "idle",         \* the SQL statement that comes next
     op |-> None,
     items |-> <<>>,        \* lines still to change
     left |-> 0,            \* how many lines are still to insert
     inq |-> None,          \* the consignment in the URL; None: the op has none
     to |-> None,           \* the consignment that receives lines
     quote |-> None,
     row |-> None,          \* the row taken out of the trash, or deleted for good
     status |-> "proposed", \* the status asked for, later the item's new one
     qty |-> 0,
     seen |-> NoItem,       \* rows as first loaded: the ORM's identity map
     seenInq |-> [c \in Inqs |-> NoInq],
     seenQuote |-> NoQuote,
     seenCode |-> "absent",
     todo |-> {},           \* consignments whose rollup is still to refresh
     header |-> None,       \* the one being refreshed, and its new rollup
     roll |-> [status |-> "proposed", total |-> NoTotal],
     num |-> 0,             \* number for a new quotation
     alone |-> FALSE]       \* no other request was ever active beside it

Active(t) == req[t].pc # "idle"

Known(r) == committed[r].life # "absent"

(* An id nobody uses yet (uuid4). *)
Fresh(r) == committed[r].life = "absent" /\ owner[r] = Free

(* There are ids for n more lines: the bound of the instance. *)
RoomFor(n) == n <= Cardinality({i \in Items : Fresh(i)})

Distinct(s) == \A j, k \in DOMAIN s : s[j] = s[k] => j = k

Begin(t, r) ==
    /\ ~Active(t) /\ r.op \in Ops
    /\ req' = [u \in Txns |->
                 IF u = t THEN [r EXCEPT !.alone = \A v \in Txns : ~Active(v)]
                 ELSE [req[u] EXCEPT !.alone = FALSE]]
    /\ UNCHANGED storeVars

Goes(t, r) == req' = [req EXCEPT ![t] = r]

(* The handler raises, or commits: either way the request is over. *)
Abort(t) == RollbackTxn(t) /\ Goes(t, Blank)

Commit(t) == req[t].pc = "commit" /\ CommitTxn(t) /\ Goes(t, Blank)

-----------------------------------------------------------------------------
(***************************************************************************)
(* Arrival: one action per route.                                          *)
(***************************************************************************)
Add(t) ==           \* POST /items, /items/bulk
    \E c \in Inqs, n \in 0..Batch, status \in ItemStatus, q \in Qtys :
        /\ RoomFor(n)
        /\ Begin(t, [Blank EXCEPT !.pc = "findCode", !.op = "add", !.left = n,
                                  !.to = c, !.status = status, !.qty = q])

Import(t) ==        \* POST /{inquiry_id}/items/import
    \E c \in {c \in Inqs : Known(c)}, n \in 1..Batch, status \in ItemStatus, q \in Qtys :
        /\ RoomFor(n)
        /\ Begin(t, [Blank EXCEPT !.pc = "findInquiry", !.op = "import", !.left = n,
                                  !.inq = c, !.to = c, !.status = status, !.qty = q])

OnItem(t, op, c, q) ==  \* a route under /{inquiry_id}/items/{item_id}
    \E i \in {i \in Items : Known(i)} :
        Begin(t, [Blank EXCEPT !.pc = "findItem", !.op = op, !.items = <<i>>,
                               !.inq = committed[i].inq, !.to = c, !.qty = q])

Edit(t) == \E q \in Qtys : OnItem(t, "edit", None, q)
Shift(t) == \E c \in Inqs : OnItem(t, "shift", c, 0)
Approve(t) == OnItem(t, "approve", None, 0)
Revert(t) == OnItem(t, "revert", None, 0)
Delete(t) == OnItem(t, "delete", None, 0)

Tally(t) ==         \* POST /items/bulk-tally-post
    \E n \in 1..Batch : \E lines \in [1..n -> {i \in Items : Known(i)}] :
        /\ Distinct(lines)
        /\ Begin(t, [Blank EXCEPT !.pc = "findItem", !.op = "tally", !.items = lines])

DeleteConsignment(t) ==
    \E c \in {c \in Inqs : Known(c)} :
        Begin(t, [Blank EXCEPT !.pc = "findInquiry", !.op = "deleteConsignment", !.inq = c])

NewCode(t) ==       \* POST /consignment-codes, by the buyer of the code
    \E c \in Inqs :
        Begin(t, [Blank EXCEPT !.pc = "findAnyCode", !.op = "newCode", !.inq = c])

Quote(t) ==         \* POST /items/{item_id}/quotations
    /\ \E k \in Quotes : Fresh(k)
    /\ \E i \in {i \in Items : Known(i)} :
        Begin(t, [Blank EXCEPT !.pc = "findItem", !.op = "quote", !.items = <<i>>])

Decide(t) ==        \* PATCH /quotations/{id}/status
    \E k \in {k \in Quotes : Known(k)}, status \in Decisions :
        Begin(t, [Blank EXCEPT !.pc = "findQuote", !.op = "decide", !.quote = k,
                               !.status = status])

Unquote(t) ==       \* DELETE /quotations/{id}
    \E k \in {k \in Quotes : Known(k)} :
        Begin(t, [Blank EXCEPT !.pc = "findQuote", !.op = "unquote", !.quote = k])

RestoreLine(t) ==   \* POST /trash/restore of an inquiry item
    \E i \in {i \in Items : Known(i)} :
        Begin(t, [Blank EXCEPT !.pc = "findRow", !.op = "restoreLine", !.row = i])

RestoreHeader(t) == \* the same for a consignment or for its code
    \E r \in {r \in Inqs \cup Codes : Known(r)} :
        Begin(t, [Blank EXCEPT !.pc = "findRow", !.op = "restoreHeader", !.row = r])

PurgeLine(t) ==     \* POST /trash/permanent-delete of an inquiry item
    \E i \in {i \in Items : Known(i)} :
        Begin(t, [Blank EXCEPT !.pc = "findRow", !.op = "purgeLine", !.row = i])

Arrive(t) ==
    \/ Add(t) \/ Import(t) \/ Edit(t) \/ Shift(t) \/ Approve(t) \/ Revert(t) \/ Delete(t)
    \/ Tally(t) \/ DeleteConsignment(t) \/ NewCode(t) \/ Quote(t) \/ Decide(t)
    \/ Unquote(t) \/ RestoreLine(t) \/ RestoreHeader(t) \/ PurgeLine(t)

-----------------------------------------------------------------------------
(***************************************************************************)
(* The item of a request: get_by_id or get_item_or_raise, then one UPDATE. *)
(***************************************************************************)
Scoped == {"edit", "shift", "approve", "revert", "delete"}
QuoteSync == {"decide", "unquote"}

(* After the last line of a request come the refreshes that are due. *)
AfterItem(t, r) ==
    Goes(t, [r EXCEPT !.pc = IF r.items # <<>> THEN "findItem"
                             ELSE IF r.todo = {} THEN "commit" ELSE "loadHeader"])

FindItem(t) ==
    LET r == req[t]
        row == Read(t, Head(r.items))
        found == row.life = "live" /\ (r.op \in Scoped => row.inq = r.inq)
    IN  /\ r.pc = "findItem"
        /\ \/ /\ found
              /\ Goes(t, [r EXCEPT !.seen = row,
                                   !.pc = IF r.op = "shift" THEN "findInquiry"
                                          ELSE IF r.op = "quote" THEN "countQuotes"
                                          ELSE "writeItem"])
              /\ UNCHANGED storeVars
           \/ ~found /\ r.op \in Scoped \cup {"quote"} /\ Abort(t)
           \/ /\ ~found /\ r.op \in QuoteSync \cup {"tally"}
              /\ AfterItem(t, [r EXCEPT !.items = Tail(r.items)])
              /\ UNCHANGED storeVars

(* (mutant) revert_item_to_proposed leaves the approval's date and user. *)
EditedKeepsStamp(r) ==
    CASE r.op = "approve" -> [r.seen EXCEPT !.status = "approved", !.at = TRUE]
      [] r.op = "revert" -> [r.seen EXCEPT !.status = "proposed"]
      [] OTHER -> r.seen

(* What the handler assigns to the loaded item. *)
Edited(r) ==
    CASE r.op = "approve" -> [r.seen EXCEPT !.status = "approved", !.at = TRUE]
      [] r.op = "revert" -> [r.seen EXCEPT !.status = "proposed", !.at = FALSE]
      [] r.op \in QuoteSync -> [r.seen EXCEPT !.status = r.status, !.at = (r.status = "approved")]
      [] r.op = "edit" -> [r.seen EXCEPT !.qty = r.qty]
      [] r.op = "shift" -> [r.seen EXCEPT !.inq = r.to]
      [] r.op = "tally" -> [r.seen EXCEPT !.posted = TRUE]
      [] r.op = "delete" -> [r.seen EXCEPT !.life = "trash"]
      [] OTHER -> r.seen

(* A time is assigned: the column is dirty whatever it held. *)
StampsApproval(r) == r.op \in QuoteSync \cup {"approve"} /\ Edited(r).at

IsDirty(r) == StampsApproval(r) \/ r.op \in {"tally", "delete"} \/ Edited(r) # r.seen

(* The value a column gets: the assigned one if the ORM finds it changed   *)
(* since the row was loaded, else the one the row has now.                 *)
Column(stamped, new, loaded, now) == IF stamped \/ new # loaded THEN new ELSE now

(* (mutant) Every column is sent back as it was loaded. *)
MergeWholeRow(r, now) == Edited(r)

(* The UPDATE of an item sets only its dirty columns. *)
Merge(r, now) ==
    LET new == Edited(r)
        old == r.seen
    IN  [life |-> Column(r.op = "delete", new.life, old.life, now.life),
         inq |-> Column(FALSE, new.inq, old.inq, now.inq),
         status |-> Column(FALSE, new.status, old.status, now.status),
         at |-> Column(StampsApproval(r), new.at, old.at, now.at),
         qty |-> Column(FALSE, new.qty, old.qty, now.qty),
         posted |-> Column(r.op = "tally", new.posted, old.posted, now.posted)]

(* (mutant) shift_item refreshes the target only. *)
DueTargetOnly(r) == IF r.op = "shift" THEN {r.to} ELSE r.todo \cup {r.seen.inq}

(* (mutant) A decision on a quotation leaves the header alone. *)
DueSilentDecision(r) ==
    IF r.op = "shift" THEN {r.inq, r.to}
    ELSE r.todo \cup {c \in {r.seen.inq} : r.op \notin QuoteSync}

(* The consignments a changed line makes due for a refresh. *)
Due(r) == IF r.op = "shift" THEN {r.inq, r.to} ELSE r.todo \cup {r.seen.inq}

(* The UPDATE waits for the row's lock and then finds the row deleted: the *)
(* ORM, which expects to change one row, raises.                           *)
Gone(t, r) == Lockable(t, r) /\ working[r].life = "purged"

WriteItem(t) ==
    LET r == req[t]
        i == Head(r.items)
    IN  /\ r.pc = "writeItem"
        /\ \/ IsDirty(r) /\ Gone(t, i) /\ Abort(t)
           \/ /\ IsDirty(r) => working[i].life # "purged"
              /\ IF IsDirty(r) THEN Write(t, i, Merge(r, working[i])) ELSE UNCHANGED storeVars
              /\ AfterItem(t, [r EXCEPT !.items = Tail(r.items), !.todo = Due(r), !.seen = NoItem])

-----------------------------------------------------------------------------
(***************************************************************************)
(* get_or_create_consignment, and inserting lines.                         *)
(***************************************************************************)

(* The consignment that receives lines is there. *)
Received(t, r) ==
    Goes(t, [r EXCEPT !.pc = IF r.op = "shift"
                             THEN IF r.to = r.inq THEN "commit" ELSE "writeItem"
                             ELSE IF r.left = 0 THEN "loadHeader" ELSE "insertItem",
                      !.todo = IF r.op = "shift" THEN {} ELSE {r.to}])

(* get_inquiry_or_raise at the start of a handler. *)
FindInquiry(t) ==
    LET r == req[t]
        row == Read(t, r.inq)
        loaded == [r EXCEPT !.seenInq[r.inq] = row]
    IN  /\ r.pc = "findInquiry"
        /\ \/ row.life # "live" /\ Abort(t)
           \/ /\ row.life = "live"
              /\ UNCHANGED storeVars
              /\ \/ r.op = "shift" /\ Goes(t, [loaded EXCEPT !.pc = "findCode"])
                 \/ r.op = "import" /\ Received(t, loaded)
                 \/ r.op = "deleteConsignment" /\ Goes(t, [loaded EXCEPT !.pc = "trashInquiry"])

(* A code in the trash is looked up again by a text that is no code        *)
(* (str(consignment_code_id)), so it is never found there.                 *)
FindCode(t) ==
    LET r == req[t] IN
    /\ r.pc = "findCode"
    /\ \/ Read(t, Code(r.to)).life # "live" /\ Abort(t)
       \/ /\ Read(t, Code(r.to)).life = "live"
          /\ Goes(t, [r EXCEPT !.pc = "findConsignment"])
          /\ UNCHANGED storeVars

(* A consignment the request has loaded before (the line's own one, if it  *)
(* is shifted to where it is) is looked at as it was loaded.               *)
FindConsignment(t) ==
    LET r == req[t]
        row == IF r.seenInq[r.to] = NoInq THEN Read(t, r.to) ELSE r.seenInq[r.to]
        loaded == [r EXCEPT !.seenInq[r.to] = row]
    IN  /\ r.pc = "findConsignment"
        /\ UNCHANGED storeVars
        /\ \/ row.life = "live" /\ Received(t, loaded)
           \/ row.life = "trash" /\ Goes(t, [loaded EXCEPT !.pc = "reviveConsignment"])
           \/ row.life = "absent" /\ Goes(t, [loaded EXCEPT !.pc = "createConsignment"])

ReviveConsignment(t) ==
    LET r == req[t] IN
    /\ r.pc = "reviveConsignment"
    /\ Write(t, r.to, [working[r.to] EXCEPT !.life = "live"])
    /\ Received(t, r)

(* uq_inquiry_buyer_consignment: the INSERT waits for another transaction  *)
(* that inserts the same key, and fails if that one commits.               *)
CreateConsignment(t) ==
    LET r == req[t]
        new == [NoInq EXCEPT !.life = "live"]
    IN  /\ r.pc = "createConsignment"
        /\ Lockable(t, r.to)
        /\ \/ working[r.to].life # "absent" /\ Abort(t)
           \/ /\ working[r.to].life = "absent"
              /\ Write(t, r.to, new)
              /\ Received(t, [r EXCEPT !.seenInq[r.to] = new])

InsertItem(t) ==
    LET r == req[t] IN
    /\ r.pc = "insertItem"
    /\ \E i \in {i \in Items : Fresh(i)} : Write(t, i, NewItem(r.to, r.status, r.qty))
    /\ Goes(t, [r EXCEPT !.left = r.left - 1,
                         !.pc = IF r.left = 1 THEN "loadHeader" ELSE "insertItem"])

-----------------------------------------------------------------------------
(***************************************************************************)
(* _refresh_rollup: load the header, aggregate its lines, store the result.*)
(***************************************************************************)
LoadHeader(t) ==
    LET r == req[t] IN
    /\ r.pc = "loadHeader"
    /\ \E c \in r.todo :
        /\ r.op = "shift" /\ r.inq \in r.todo => c = r.inq
        /\ \/ Read(t, c).life # "live" /\ Abort(t)
           \/ /\ Read(t, c).life = "live"
              /\ Goes(t, [r EXCEPT !.pc = "aggregate", !.header = c,
                                   !.seenInq[c] = IF @ = NoInq THEN Read(t, c) ELSE @])
              /\ UNCHANGED storeVars

Aggregate(t) ==
    LET r == req[t] IN
    /\ r.pc = "aggregate"
    /\ Goes(t, [r EXCEPT !.pc = "storeHeader", !.roll = Rollup(Snapshot(t), r.header)])
    /\ UNCHANGED storeVars

(* The version column is assigned in every update, so the row is always    *)
(* written; its rollup columns only where they differ from those loaded.   *)
StoreHeader(t) ==
    LET r == req[t]
        c == r.header
        old == r.seenInq[c]
        now == working[c]
    IN  /\ r.pc = "storeHeader"
        /\ Write(t, c, [life |-> now.life,
                        status |-> Column(FALSE, r.roll.status, old.status, now.status),
                        total |-> Column(FALSE, r.roll.total, old.total, now.total)])
        /\ Goes(t, [r EXCEPT !.todo = r.todo \ {c}, !.header = None, !.roll = Blank.roll,
                             !.seenInq[c] = NoInq,
                             !.pc = IF r.todo = {c} THEN "commit" ELSE "loadHeader"])

-----------------------------------------------------------------------------
(***************************************************************************)
(* Quotations, and the sync of an item with them.                          *)
(***************************************************************************)
FindQuote(t) ==
    LET r == req[t]
        row == Read(t, r.quote)
    IN  /\ r.pc = "findQuote"
        /\ \/ row.life # "live" /\ Abort(t)
           \/ /\ row.life = "live"
              /\ Goes(t, [r EXCEPT !.pc = "writeQuote", !.seenQuote = row])
              /\ UNCHANGED storeVars

(* An unchanged status writes nothing; a deletion always writes its time. *)
WriteQuote(t) ==
    LET r == req[t]
        k == r.quote
        dirty == r.op = "unquote" \/ r.status # r.seenQuote.status
    IN  /\ r.pc = "writeQuote"
        /\ \/ dirty /\ Gone(t, k) /\ Abort(t)
           \/ /\ dirty => working[k].life # "purged"
              /\ IF r.op = "unquote" THEN Write(t, k, [working[k] EXCEPT !.life = "trash"])
                 ELSE IF dirty THEN Write(t, k, [working[k] EXCEPT !.status = r.status])
                 ELSE UNCHANGED storeVars
              /\ Goes(t, [r EXCEPT !.pc = "countApproved",
                                   !.seenQuote = [NoQuote EXCEPT !.item = r.seenQuote.item]])

(* (mutant) Quotations in the trash still count. *)
VerdictWithTrash(s, i) ==
    IF \E k \in Quotes : Exists(s[k]) /\ s[k].item = i /\ s[k].status = "approved"
    THEN "approved" ELSE "proposed"

Verdict(s, i) == IF HasApprovedQuote(s, i) THEN "approved" ELSE "proposed"

CountApproved(t) ==
    LET r == req[t]
        i == r.seenQuote.item
    IN  /\ r.pc = "countApproved"
        /\ Goes(t, [r EXCEPT !.pc = "findItem", !.items = <<i>>,
                             !.status = Verdict(Snapshot(t), i)])
        /\ UNCHANGED storeVars

(* (mutant) generate_quote_number counts live quotations only. *)
NextNumberLive(s) == Cardinality({k \in Quotes : s[k].life = "live"}) + 1

(* generate_quote_number: rows in the trash count too, those deleted for   *)
(* good do not.                                                            *)
NextNumber(s) == Cardinality({k \in Quotes : Exists(s[k])}) + 1

CountQuotes(t) ==
    LET r == req[t] IN
    /\ r.pc = "countQuotes"
    /\ Goes(t, [r EXCEPT !.pc = "insertQuote", !.num = NextNumber(Snapshot(t))])
    /\ UNCHANGED storeVars

(* The foreign key: the INSERT waits for a transaction that is deleting    *)
(* the line for good, and fails if it commits.                             *)
InsertQuote(t) ==
    LET r == req[t]
        i == Head(r.items)
    IN  /\ r.pc = "insertQuote"
        /\ \/ Gone(t, i) /\ Abort(t)
           \/ /\ working[i].life # "purged"
              /\ \E k \in {k \in Quotes : Fresh(k)} :
                    Write(t, k, [life |-> "live", item |-> i, status |-> "pending",
                                 num |-> r.num])
              /\ Goes(t, [r EXCEPT !.pc = "commit"])

-----------------------------------------------------------------------------
(***************************************************************************)
(* Consignments and their codes (delete_consignment,                       *)
(* create_consignment_code), and the trash's restore_item and              *)
(* hard_delete_item: none of them refreshes a rollup.                      *)
(***************************************************************************)
TrashInquiry(t) ==
    LET r == req[t] IN
    /\ r.pc = "trashInquiry"
    /\ Write(t, r.inq, [working[r.inq] EXCEPT !.life = "trash"])
    /\ Goes(t, [r EXCEPT !.pc = "findOwnCode"])

FindOwnCode(t) ==
    LET r == req[t] IN
    /\ r.pc = "findOwnCode"
    /\ Goes(t, [r EXCEPT !.pc = IF Read(t, Code(r.inq)).life = "live"
                                THEN "trashCode" ELSE "commit"])
    /\ UNCHANGED storeVars

TrashCode(t) ==
    LET r == req[t] IN
    /\ r.pc = "trashCode"
    /\ Write(t, Code(r.inq), [life |-> "trash"])
    /\ Goes(t, [r EXCEPT !.pc = "commit"])

FindAnyCode(t) ==
    LET r == req[t]
        life == Read(t, Code(r.inq)).life
    IN  /\ r.pc = "findAnyCode"
        /\ \/ life = "live" /\ Abort(t)
           \/ /\ life # "live"
              /\ Goes(t, [r EXCEPT !.pc = "putCode", !.seenCode = life])
              /\ UNCHANGED storeVars

(* An INSERT if no such code was seen (the code is unique), else an UPDATE. *)
PutCode(t) ==
    LET r == req[t]
        code == Code(r.inq)
    IN  /\ r.pc = "putCode"
        /\ Lockable(t, code)
        /\ \/ /\ r.seenCode = "absent" /\ working[code].life # "absent"
              /\ Abort(t)
           \/ /\ r.seenCode = "absent" => working[code].life = "absent"
              /\ Write(t, code, [life |-> "live"])
              /\ Goes(t, [r EXCEPT !.pc = "commit"])

FindRow(t) ==
    LET r == req[t]
        row == Read(t, r.row)
    IN  /\ r.pc = "findRow"
        /\ \/ ~Exists(row) /\ Abort(t)
           \/ /\ Exists(row)
              /\ Goes(t, [r EXCEPT !.pc = IF r.op = "purgeLine" THEN "purgeQuotes"
                                          ELSE IF row.life = "trash" THEN "restoreRow"
                                          ELSE "commit"])
              /\ UNCHANGED storeVars

RestoreRow(t) ==
    LET r == req[t] IN
    /\ r.pc = "restoreRow"
    /\ \/ Gone(t, r.row) /\ Abort(t)
       \/ /\ working[r.row].life # "purged"
          /\ Write(t, r.row, [working[r.row] EXCEPT !.life = "live"])
          /\ Goes(t, [r EXCEPT !.pc = "commit"])

(* The quotations still to delete with the line: the live ones by the ORM, *)
(* before the line; then, by the cascade of their foreign key, any other.  *)
Dependent(t, r) ==
    {k \in Quotes : /\ Read(t, k).item = r.row
                    /\ Read(t, k).life \in IF r.pc = "cascade" THEN {"live", "trash"} ELSE {"live"}}

PurgeQuote(t) ==
    LET r == req[t] IN
    /\ r.pc \in {"purgeQuotes", "cascade"}
    /\ \/ /\ \E k \in Dependent(t, r) : Write(t, k, [working[k] EXCEPT !.life = "purged"])
          /\ Goes(t, r)
       \/ /\ Dependent(t, r) = {}
          /\ Goes(t, [r EXCEPT !.pc = IF @ = "cascade" THEN "commit" ELSE "purgeItem"])
          /\ UNCHANGED storeVars

(* Quotations of line i that others have inserted but not committed. *)
Unborn(t, i) ==
    {k \in Quotes : ~Lockable(t, k) /\ committed[k].life = "absent" /\ working[k].item = i}

(* The DELETE waits for the requests that are inserting quotations of it.  *)
PurgeItem(t) ==
    LET r == req[t] IN
    /\ r.pc = "purgeItem"
    /\ Unborn(t, r.row) = {}
    /\ Write(t, r.row, [working[r.row] EXCEPT !.life = "purged"])
    /\ Goes(t, [r EXCEPT !.pc = "cascade"])

-----------------------------------------------------------------------------
(***************************************************************************)
(* Failures, and the specification.                                        *)
(***************************************************************************)

(* The rows the next statement of t's request must lock. *)
Targets(t) ==
    LET r == req[t] IN
    CASE r.pc = "writeItem" /\ IsDirty(r) -> {Head(r.items)}
      [] r.pc = "storeHeader" -> {r.header}
      [] r.pc \in {"createConsignment", "reviveConsignment"} -> {r.to}
      [] r.pc = "writeQuote" -> {r.quote}
      [] r.pc = "insertQuote" -> {i \in {Head(r.items)} : working[i].life = "purged"}
      [] r.pc = "trashInquiry" -> {r.inq}
      [] r.pc \in {"trashCode", "putCode"} -> {Code(r.inq)}
      [] r.pc = "restoreRow" -> {r.row}
      [] r.pc = "purgeItem" -> {r.row} \cup Unborn(t, r.row)
      [] r.pc \in {"purgeQuotes", "cascade"} -> Dependent(t, r)
      [] OTHER -> {}

WaitsFor(t, u) == t # u /\ \E r \in Targets(t) : owner[r] = u

(* PostgreSQL breaks a cycle of waiting transactions: one of them fails. *)
DeadlockVictim(t) ==
    /\ \E S \in SUBSET Txns :
        /\ t \in S
        /\ \A u \in S : (\E v \in S : WaitsFor(u, v)) /\ (\E v \in S : WaitsFor(v, u))
    /\ Abort(t)

(* A client that disconnects, a lost connection, a crash of the process:   *)
(* nothing the request did was committed.                                  *)
Fail(t) == Active(t) /\ Abort(t)

Step(t) ==
    \/ FindItem(t) \/ WriteItem(t) \/ FindInquiry(t) \/ FindCode(t) \/ FindConsignment(t)
    \/ ReviveConsignment(t) \/ CreateConsignment(t) \/ InsertItem(t)
    \/ LoadHeader(t) \/ Aggregate(t) \/ StoreHeader(t)
    \/ FindQuote(t) \/ WriteQuote(t) \/ CountApproved(t) \/ CountQuotes(t) \/ InsertQuote(t)
    \/ TrashInquiry(t) \/ FindOwnCode(t) \/ TrashCode(t) \/ FindAnyCode(t) \/ PutCode(t)
    \/ FindRow(t) \/ RestoreRow(t) \/ PurgeQuote(t) \/ PurgeItem(t) \/ Commit(t)

Next == \E t \in Txns : Arrive(t) \/ Step(t) \/ DeadlockVictim(t) \/ Fail(t)

(* A quiet moment: consignments with proposed lines, every header in       *)
(* agreement with them.  All of it is made by Add from an empty database.  *)
InitialItems ==
    {NoItem} \cup {NewItem(c, "proposed", q) : c \in Inqs, q \in Qtys}

InitialRow(lines, open, coded, r) ==
    IF r \in Items THEN lines[r]
    ELSE IF r \in open
    THEN [life |-> "live", status |-> Rollup(lines, r).status, total |-> Rollup(lines, r).total]
    ELSE IF r \in Inqs THEN NoInq
    ELSE IF r \in Quotes THEN NoQuote
    ELSE [life |-> IF \E c \in coded : r = Code(c) THEN "live" ELSE "absent"]

Init ==
    /\ \E lines \in [Items -> InitialItems], coded \in SUBSET Inqs : \E open \in SUBSET coded :
        /\ \A i \in Items : lines[i].life = "live" => lines[i].inq \in open
        /\ committed = [r \in Rows |-> InitialRow(lines, open, coded, r)]
    /\ working = committed
    /\ owner = [r \in Rows |-> Free]
    /\ req = [t \in Txns |-> Blank]

Spec == Init /\ [][Next]_vars

(* A waiting request gets its row lock (PostgreSQL serves lock waiters in  *)
(* order) and a request that can run is run by the event loop; clients owe *)
(* nothing.                                                                *)
FairSpec == Spec /\ \A t \in Txns : SF_vars(Step(t)) /\ WF_vars(DeadlockVictim(t))

-----------------------------------------------------------------------------
(***************************************************************************)
(* Properties.                                                             *)
(***************************************************************************)
Pcs == {"idle", "findItem", "writeItem", "findInquiry", "findCode", "findConsignment",
        "reviveConsignment", "createConsignment", "insertItem", "loadHeader", "aggregate",
        "storeHeader", "findQuote", "writeQuote", "countApproved", "countQuotes", "insertQuote",
        "trashInquiry", "findOwnCode", "trashCode", "findAnyCode", "putCode", "findRow",
        "restoreRow", "purgeQuotes", "purgeItem", "cascade", "commit"}

RefreshOps == Scoped \cup QuoteSync \cup {"add", "import", "tally"}
LineTrashOps == {"restoreLine", "purgeLine"}
AllOps == RefreshOps \cup LineTrashOps \cup {"deleteConsignment", "newCode", "quote", "restoreHeader"}

Request ==
    [pc : Pcs, op : AllOps \cup {None}, items : Seq(Items), left : Nat, inq : Inqs \cup {None},
     to : Inqs \cup {None}, quote : Quotes \cup {None}, row : Rows \cup {None},
     status : ItemStatus \cup QuoteStatus, qty : Qtys \cup {0},
     seen : ItemRow, seenInq : [Inqs -> InqRow], seenQuote : QuoteRow, seenCode : Life,
     todo : SUBSET Inqs, header : Inqs \cup {None},
     roll : [status : HeaderStatus, total : Totals], num : Nat, alone : BOOLEAN]

StoreOK(s) ==
    /\ DOMAIN s = Rows
    /\ \A i \in Items : s[i] \in ItemRow /\ (s[i].life # "absent" => s[i].inq \in Inqs)
    /\ \A c \in Inqs : s[c] \in InqRow
    /\ \A k \in Quotes : s[k] \in QuoteRow /\ (s[k].life # "absent" => s[k].item \in Items)
    /\ \A c \in Codes : s[c] \in CodeRow

(* Every row keeps the columns of its table, and every request refers to   *)
(* rows of the right tables.                                               *)
TypeOK ==
    /\ StoreOK(committed)
    /\ StoreOK(working)
    /\ owner \in [Rows -> Txns \cup {Free}]
    /\ req \in [Txns -> Request]

(* What request op may do to an item, from version old to version new.     *)
MayChange(op, old, new) ==
    \/ op \in {"add", "import"} /\ old.life = "absent"
    \/ /\ op \notin LineTrashOps \cup {"delete"} => new.life = old.life
       /\ old.life = "purged" => new.life = "purged"
       /\ op # "shift" => new.inq = old.inq
       /\ op \notin QuoteSync \cup {"approve", "revert"} =>
            new.status = old.status /\ new.at = old.at
       /\ op # "edit" => new.qty = old.qty
       /\ op # "tally" => new.posted = old.posted

(* However requests overlap, a commit changes an item only in the columns  *)
(* its operation is about: an approval never undoes a shift, a deletion or *)
(* a new quantity that was committed after the approval loaded the row,    *)
(* although repositories load, assign and flush whole ORM objects.         *)
NoLostUpdate ==
    [][\A i \in Items : committed'[i] # committed[i] =>
         \E t \in Txns : /\ req[t].pc = "commit" /\ owner[i] = t
                         /\ MayChange(req[t].op, committed[i], committed'[i])]_vars

(* A request nothing overlaps leaves every consignment it refreshed in     *)
(* agreement with its lines, even one that was stale before, and makes no  *)
(* other one stale (_refresh_rollup of both sides of a shift, of every     *)
(* consignment of a bulk request, of the item's present consignment).      *)
SoloRefresh ==
    [][\A t \in Txns, c \in Inqs :
         /\ req[t].alone /\ req[t].op \in RefreshOps
         /\ owner[c] = t \/ Agrees(committed, c)
         /\ Commit(t)
         => Agrees(committed', c)]_vars

(* No request that nothing overlaps makes a header stale that stored what  *)
(* its lines add up to, nor one in the trash that will come back as it is  *)
(* (delete_consignment, restore_item, a new line's revival): only taking a *)
(* line out of the trash, or deleting it for good, does.                   *)
SoloStale ==
    [][\A t \in Txns, c \in Inqs :
         req[t].alone /\ req[t].op \notin LineTrashOps /\ Stores(committed, c) /\ Commit(t)
         => Stores(committed', c)]_vars

(* A quotation that is decided or deleted, with nothing beside it, leaves  *)
(* its item approved exactly if an approved quotation remains.             *)
SoloQuoteSync ==
    [][\A t \in Txns :
         LET i == req[t].seenQuote.item IN
         req[t].alone /\ req[t].op \in QuoteSync /\ Commit(t) =>
           (committed'[i].life = "live" =>
             (committed'[i].status = "approved" <=> HasApprovedQuote(committed', i)))]_vars

(* Every header stores what its lines add up to: the claim of class        *)
(* Inquiry that the rollup is recomputed whenever an item changes.  The    *)
(* trash's restore_item and hard_delete_item do not do it.                 *)
RollupFresh == \A c \in Inqs : Agrees(committed, c)

(* An item is approved exactly if it carries the date of an approval.      *)
ApprovalIsStamped ==
    \A i \in Items : committed[i].at <=> committed[i].status = "approved"

(* As long as no quotation was deleted for good, which lowers the count    *)
(* the next number is made from, no two quotations that create_quotation   *)
(* made have the same number, although some are in the trash.              *)
QuoteNumbersDiffer ==
    LET made == {k \in Quotes : Known(k)} IN
    (\A k \in made : Exists(committed[k])) =>
        \A j, k \in made : committed[j].num = committed[k].num => j = k

(* Every request ends: it commits, fails, or is the victim of a deadlock.  *)
RequestsFinish == \A t \in Txns : Active(t) ~> ~Active(t)

(***************************************************************************)
(* The inductive invariant behind TypeOK and NoLostUpdate.                 *)
(***************************************************************************)
Adders == {"add", "import"}

(* The statements of a shift between loading the line and writing it. *)
Shifting == {"findInquiry", "findCode", "findConsignment", "reviveConsignment",
             "createConsignment"}

Purging == {"purgeQuotes", "purgeItem", "cascade"}

(* At each statement a request names the rows the statement needs.         *)
Refers(r) ==
    /\ r.pc \in {"findItem", "writeItem", "countQuotes", "insertQuote"} => r.items # <<>>
    /\ r.pc \in {"countQuotes", "insertQuote"} => r.op = "quote"
    /\ r.pc \in {"findItem", "writeItem"} =>
         r.op \notin Adders /\ (r.op \in QuoteSync => r.status \in ItemStatus)
    /\ r.op = "shift" /\ r.pc \notin {"idle", "commit"} => r.inq \in Inqs /\ r.to \in Inqs
    /\ r.op = "shift" /\ r.pc \in Shifting => r.items # <<>> /\ r.seen.inq \in Inqs
    /\ r.pc = "writeItem" => r.seen.inq \in Inqs
    /\ r.pc = "findInquiry" => r.inq \in Inqs /\ r.op \in {"shift", "import", "deleteConsignment"}
    /\ r.pc \in Shifting \ {"findInquiry"} => r.op \in Adders \cup {"shift"}
    /\ r.op \in Adders /\ r.pc \in Shifting \cup {"insertItem"} =>
         r.to \in Inqs /\ r.status \in ItemStatus
    /\ r.pc = "insertItem" => r.op \in Adders /\ r.left > 0
    /\ r.pc \in {"aggregate", "storeHeader"} => r.header \in Inqs
    /\ r.pc \in {"findQuote", "writeQuote", "countApproved"} =>
         r.quote \in Quotes /\ r.op \in QuoteSync
    /\ r.pc \in {"findQuote", "writeQuote"} /\ r.op = "decide" => r.status \in QuoteStatus
    /\ r.pc \in {"writeQuote", "countApproved"} => r.seenQuote.item \in Items
    /\ r.pc \in {"trashInquiry", "findOwnCode", "trashCode", "findAnyCode", "putCode"} =>
         r.inq \in Inqs
    /\ r.pc \in {"findRow", "restoreRow"} =>
         \/ (r.op = "restoreLine" /\ r.row \in Items)
         \/ (r.op = "restoreHeader" /\ r.row \in Inqs \cup Codes)
         \/ (r.op = "purgeLine" /\ r.row \in Items /\ r.pc = "findRow")
    /\ r.pc \in Purging => r.op = "purgeLine" /\ r.row \in Items

(* A line or quotation about to be changed was committed before: only those*)
(* that are inserted are new.                                              *)
KnownFor(r) ==
    /\ (r.pc = "writeItem" \/ (r.op = "shift" /\ r.pc \in Shifting)) => Known(Head(r.items))
    /\ r.pc \in Purging \cup {"restoreRow"} /\ r.row \in Items => Known(r.row)
    /\ r.pc = "writeQuote" => Known(r.quote)

(* Only a request in progress holds locks, and its version of a line       *)
(* differs from the committed one only where its operation may change it.  *)
Rights ==
    \A t \in Txns :
        /\ \A r \in Rows : owner[r] = t => Active(t)
        /\ \A i \in Items : owner[i] = t =>
             /\ MayChange(req[t].op, committed[i], working[i])
             /\ req[t].op \notin Adders => Known(i)
        /\ \A k \in Quotes : owner[k] = t /\ req[t].op # "quote" => Known(k)

(* No line or quotation goes back to never having existed. *)
Kept ==
    \A x \in Items \cup Quotes : committed[x].life # "absent" => working[x].life # "absent"

IInv ==
    /\ TypeOK
    /\ \A t \in Txns : Refers(req[t]) /\ KnownFor(req[t])
    /\ UnlockedIsCommitted
    /\ Rights
    /\ Kept

(***************************************************************************)
(* The inductive invariant behind what requests do that nothing overlaps:  *)
(* about a request r of transaction t, the database C when it came, its    *)
(* own version W of it and who has locked what.                            *)
(***************************************************************************)

SameHeader(x, y) == x.status = y.status /\ x.total = y.total

Stamped(s) == \A i \in Items : s[i].at <=> s[i].status = "approved"

(* If no quotation was deleted for good, numbers differ and the next one   *)
(* is new.                                                                 *)
Numbered(s) ==
    LET known == {k \in Quotes : s[k].life # "absent"}
    IN  (\A k \in known : Exists(s[k])) =>
            /\ \A j, k \in known : s[j].num = s[k].num => j = k
            /\ \A k \in known : s[k].num < NextNumber(s)

(* The consignments r has still to refresh.  A shift forgets the line's old*)
(* one when it finds the new one, and comes back to it with the line.      *)
Pending(r) ==
    r.todo \cup (IF r.op = "shift" /\ r.pc = "writeItem" THEN {r.inq, r.to} ELSE {})

(* What r has refreshed is fresh; of the others, r has changed neither what*)
(* they store nor what they add up to.                                     *)
Refreshed(t, r, C, W, own) ==
    r.op \notin LineTrashOps => \A c \in Inqs \ Pending(r) :
        IF own[c] = t /\ r.op \in RefreshOps
        THEN Stores(W, c)
        ELSE /\ SameHeader(W[c], C[c]) /\ Rollup(W, c) = Rollup(C, c)
             /\ W[c].life # "absent" => C[c].life # "absent"

(* r has loaded the header of c, and what it loaded is what is stored. *)
Loaded(r, W, c) == SameHeader(r.seenInq[c], W[c])

(* Before the consignment that receives lines, r has loaded no header but  *)
(* that of the line it shifts, which was live.                             *)
LoadsFirst(r) ==
    /\ r.op = "shift" /\ r.pc \in {"findItem", "findInquiry"} =>
         \A c \in Inqs : r.seenInq[c] = NoInq
    /\ r.pc \in {"findCode", "findConsignment"} => \A c \in Inqs :
         r.seenInq[c] = NoInq \/ (r.op = "shift" /\ c = r.inq /\ r.seenInq[c].life = "live")

(* What r has read is still so. *)
Undisturbed(r, W) ==
    /\ \A c \in Inqs : r.seenInq[c] = NoInq \/ Loaded(r, W, c)
    /\ (r.pc = "writeItem" \/ (r.op = "shift" /\ r.pc \in Shifting)) =>
         r.seen = W[Head(r.items)] /\ r.seen.life = "live" /\ (r.op \in Scoped => r.seen.inq = r.inq)
    /\ r.op = "shift" /\ r.pc \in Shifting \ {"findInquiry"} => W[r.inq].life = "live"
    /\ LoadsFirst(r)
    /\ r.pc = "reviveConsignment" => W[r.to].life = "trash"
    /\ r.pc = "createConsignment" => W[r.to].life = "absent"
    /\ r.pc \in {"aggregate", "storeHeader"} =>
         r.header \in r.todo /\ W[r.header].life = "live" /\ Loaded(r, W, r.header)
    /\ r.pc = "storeHeader" => r.roll = Rollup(W, r.header)
    /\ r.pc = "insertQuote" => r.num = NextNumber(W)
    /\ r.pc = "trashInquiry" => W[r.inq].life # "absent"
    /\ r.pc = "restoreRow" /\ r.row \in Inqs => W[r.row].life # "absent"

(* r refreshes what is due before it commits, and nobody else has to. *)
Owes(r) ==
    /\ (r.op \notin RefreshOps \/ r.pc = "commit") => r.todo = {}
    /\ r.pc \in {"writeItem", "insertItem", "loadHeader", "aggregate", "storeHeader"} \cup (
                Shifting \ {"findInquiry"}) => r.op \in RefreshOps
    /\ r.pc = "findItem" => r.op \in RefreshOps \cup {"quote"}
    /\ r.pc \in {"trashInquiry", "findOwnCode", "trashCode", "findAnyCode", "putCode",
                "findRow", "restoreRow"} \cup Purging => r.op \notin RefreshOps
    /\ r.pc \in Shifting => r.todo = {}
    /\ r.op = "shift" /\ r.pc \in {"findItem", "writeItem"} \cup Shifting =>
         r.todo = {} /\ Tail(r.items) = <<>>
    /\ r.pc = "insertItem" => r.to \in r.todo

(* The item of a quotation follows what is left of its quotations. *)
Synced(r, W) ==
    LET i == r.seenQuote.item IN
    r.op \in QuoteSync =>
        /\ r.pc \in {"findItem", "writeItem"} => r.items = <<i>> /\ r.status = Verdict(W, i)
        /\ r.pc \in {"loadHeader", "aggregate", "storeHeader", "commit"} =>
             i \in Items /\ (W[i].life = "live" =>
                              (W[i].status = "approved" <=> HasApprovedQuote(W, i)))

Serves(t, r, C, W, own) ==
    /\ Refreshed(t, r, C, W, own)
    /\ Undisturbed(r, W)
    /\ Owes(r)
    /\ Synced(r, W)
    /\ Stamped(C) => Stamped(W)
    /\ Numbered(C) => Numbered(W)

SoloInv ==
    \A t \in Txns : req[t].alone =>
        /\ \A u \in Txns \ {t} : ~Active(u)
        /\ Serves(t, req[t], committed, working, owner)

=============================================================================
