--------------------------- MODULE Inquiries_proofs ---------------------------
(***************************************************************************)
(* Proofs about Inquiries, for any number of items, consignments,          *)
(* quotations and overlapping requests.                                    *)
(*                                                                         *)
(* IInv is inductive.  A step of a request either moves on without writing *)
(* (Moves), writes one row and moves on (Writes), or ends the request      *)
(* (Ends, Commits): the lemmas of those names say what each of them needs  *)
(* to preserve IInv, and one lemma per statement shows that it has it.     *)
(*                                                                         *)
(* SoloInv is inductive with it.  What a request that nothing overlaps has *)
(* read is still so when it writes (Undisturbed), what it owes is what its *)
(* writes made stale (Owes, Pending), and the rest it has not touched      *)
(* (Refreshed); again one lemma per statement.                             *)
(***************************************************************************)
EXTENDS Inquiries, FiniteSetTheorems, TLAPS

(* The part of IInv that is about the database and its locks. *)
Stored ==
    /\ StoreOK(committed) /\ StoreOK(working)
    /\ owner \in [Rows -> Txns \cup {Free}]
    /\ UnlockedIsCommitted /\ Rights /\ Kept

Asking == req \in [Txns -> Request] /\ \A t \in Txns : Refers(req[t]) /\ KnownFor(req[t])

LEMMA Split == IInv <=> Stored /\ Asking
BY DEF IInv, TypeOK, Stored, Asking

-----------------------------------------------------------------------------
(***************************************************************************)
(* The operators.                                                          *)
(***************************************************************************)
LEMMA BlankType ==
    /\ NoItem \in ItemRow /\ NoInq \in InqRow /\ NoQuote \in QuoteRow
    /\ NoTotal \in Totals
    /\ Blank \in Request /\ Blank.pc = "idle"
<1>1. NoTotal \in Totals
    <2>1. [i \in Items |-> 0] \in [Items -> Qtys \cup {0}]
        OBVIOUS
    <2> QED BY <2>1 DEF NoTotal, Totals
<1>2. NoItem \in ItemRow /\ NoInq \in InqRow /\ NoQuote \in QuoteRow
    BY <1>1 DEF NoItem, NoInq, NoQuote, ItemRow, InqRow, QuoteRow, Life, LineLife, ItemStatus,
                HeaderStatus, QuoteStatus
<1>3. <<>> \in Seq(Items)
    OBVIOUS
<1>4. Blank \in Request /\ Blank.pc = "idle"
    BY <1>1, <1>2, <1>3 DEF Blank, Request, Pcs, ItemStatus, HeaderStatus, Life
<1> QED BY <1>1, <1>2, <1>4

(* A request that is over, or only has to commit, refers to nothing. *)
LEMMA NothingToRefer ==
    ASSUME NEW r, r.pc \in {"idle", "commit"}
    PROVE  Refers(r) /\ KnownFor(r)
BY DEF Refers, KnownFor, Shifting, Purging

LEMMA MergeType ==
    ASSUME NEW r \in Request, NEW now \in ItemRow,
           r.op = "shift" => r.to \in Inqs,
           r.op \in QuoteSync => r.status \in ItemStatus,
           r.op \notin Adders, r.seen.inq \in Inqs, now.inq \in Inqs,
           now.life \notin {"absent", "purged"}
    PROVE  /\ Merge(r, now) \in ItemRow
           /\ Merge(r, now).inq \in Inqs
           /\ Merge(r, now).life # "absent"
           /\ MayChange(r.op, now, Merge(r, now))
<1>0. "trash" \in LineLife
    BY DEF LineLife, Life
<1>1. Edited(r) \in ItemRow
    BY <1>0 DEF Edited, Request, ItemRow, QuoteSync, ItemStatus
<1>2. Merge(r, now) \in ItemRow
    BY <1>1 DEF Merge, Column, Request, ItemRow
<1>3. Merge(r, now).inq \in Inqs
    BY <1>1 DEF Merge, Column, Edited, Request, ItemRow
<1>4. MayChange(r.op, now, Merge(r, now))
    <2>1. PICK e \in ItemRow : e = Edited(r)
        BY <1>1
    <2>2. PICK o \in ItemRow : o = r.seen
        BY DEF Request
    <2>3. /\ r.op # "delete" => e.life = o.life
          /\ r.op # "shift" => e.inq = o.inq
          /\ r.op # "edit" => e.qty = o.qty
          /\ r.op # "tally" => e.posted = o.posted
          /\ r.op \notin QuoteSync \cup {"approve", "revert"} => e.status = o.status /\ e.at = o.at
        <3>1. DOMAIN o = {"life", "inq", "status", "at", "qty", "posted"}
            BY DEF ItemRow
        <3>2. CASE r.op \in {"approve", "revert"} \cup QuoteSync
            BY <2>1, <2>2, <3>1, <3>2 DEF Edited, QuoteSync
        <3>3. CASE r.op = "edit"
            BY <2>1, <2>2, <3>1, <3>3 DEF Edited, QuoteSync
        <3>4. CASE r.op = "shift"
            BY <2>1, <2>2, <3>1, <3>4 DEF Edited, QuoteSync
        <3>5. CASE r.op = "tally"
            BY <2>1, <2>2, <3>1, <3>5 DEF Edited, QuoteSync
        <3>6. CASE r.op = "delete"
            BY <2>1, <2>2, <3>1, <3>6 DEF Edited, QuoteSync
        <3>7. CASE r.op \notin {"approve", "revert", "edit", "shift", "tally", "delete"} \cup QuoteSync
            BY <2>1, <2>2, <3>7 DEF Edited
        <3> QED BY <3>2, <3>3, <3>4, <3>5, <3>6, <3>7
    <2>4. PICK p : p = Merge(r, now)
        OBVIOUS
    <2>5. /\ p.life = Column(r.op = "delete", e.life, o.life, now.life)
          /\ p.inq = Column(FALSE, e.inq, o.inq, now.inq)
          /\ p.status = Column(FALSE, e.status, o.status, now.status)
          /\ p.at = Column(StampsApproval(r), e.at, o.at, now.at)
          /\ p.qty = Column(FALSE, e.qty, o.qty, now.qty)
          /\ p.posted = Column(r.op = "tally", e.posted, o.posted, now.posted)
        BY <2>1, <2>2, <2>4 DEF Merge
    <2>6. StampsApproval(r) => r.op \in QuoteSync \cup {"approve"}
        BY DEF StampsApproval
    <2>7. /\ r.op # "delete" => p.life = now.life
          /\ r.op # "shift" => p.inq = now.inq
          /\ r.op # "edit" => p.qty = now.qty
          /\ r.op # "tally" => p.posted = now.posted
        BY <2>3, <2>5 DEF Column
    <2>8. r.op \notin QuoteSync \cup {"approve", "revert"} => p.status = now.status /\ p.at = now.at
        BY <2>3, <2>5, <2>6 DEF Column
    <2> QED BY <2>4, <2>7, <2>8 DEF MayChange, LineTrashOps
<1>5. Merge(r, now).life # "absent"
    BY <1>1 DEF Merge, Column, Edited, Request, ItemRow
<1> QED BY <1>2, <1>3, <1>4, <1>5

(* Two changes of one operation are one change it may make. *)
LEMMA MayChangeTwice ==
    ASSUME NEW op, NEW a, NEW b, NEW c, op \notin Adders,
           MayChange(op, a, b), MayChange(op, b, c)
    PROVE  MayChange(op, a, c)
BY DEF MayChange, Adders, LineTrashOps

LEMMA RollupType ==
    ASSUME NEW s, NEW c, \A i \in Items : s[i] \in ItemRow
    PROVE  Rollup(s, c) \in [status : HeaderStatus, total : Totals]
<1>1. [i \in Items |-> IF i \in LinesOf(s, c) THEN s[i].qty ELSE 0] \in [Items -> Qtys \cup {0}]
    BY DEF LinesOf, ItemRow
<1>2. Rollup(s, c).total \in Totals
    BY <1>1 DEF Rollup, Totals
<1> QED BY <1>2 DEF Rollup, HeaderStatus

LEMMA NextNumberType == ASSUME NEW s PROVE NextNumber(s) \in Nat
<1>1. IsFiniteSet({k \in Quotes : Exists(s[k])})
    BY TablesAreFinite, FS_Subset
<1>2. Cardinality({k \in Quotes : Exists(s[k])}) \in Nat
    BY <1>1, FS_CardinalityType
<1> QED BY <1>2 DEF NextNumber

(* What a transaction reads has its table's columns. *)
LEMMA ReadType ==
    ASSUME Stored, NEW t \in Txns
    PROVE  /\ \A i \in Items : /\ Read(t, i) \in ItemRow
                               /\ Read(t, i).life # "absent" => Read(t, i).inq \in Inqs
           /\ \A c \in Inqs : Read(t, c) \in InqRow
           /\ \A k \in Quotes : /\ Read(t, k) \in QuoteRow
                                /\ Read(t, k).life # "absent" => Read(t, k).item \in Items
           /\ \A c \in Codes : Read(t, c) \in CodeRow
BY DEF Stored, StoreOK, Read

(* A line that is read live by a request that inserts nothing is committed. *)
LEMMA ReadKnown ==
    ASSUME Stored, NEW t \in Txns, NEW i \in Items, req[t].op \notin Adders,
           Read(t, i).life # "absent"
    PROVE  Known(i)
BY DEF Stored, Rights, Read, Known

LEMMA QuoteReadKnown ==
    ASSUME Stored, NEW t \in Txns, NEW k \in Quotes, req[t].op # "quote",
           Read(t, k).life # "absent"
    PROVE  Known(k)
BY DEF Stored, Rights, Read, Known

-----------------------------------------------------------------------------
(***************************************************************************)
(* The four ways a step changes the state.                                 *)
(***************************************************************************)

(* t goes on as r; everybody else stays where he is. *)
LEMMA GoesOn ==
    ASSUME Asking, NEW t \in Txns, NEW r \in Request, Goes(t, r)
    PROVE  /\ req' \in [Txns -> Request]
           /\ req'[t] = r
           /\ \A u \in Txns \ {t} : req'[u] = req[u]
BY DEF Goes, Asking

(* A request moves on and leaves the database alone. *)
LEMMA Moves ==
    ASSUME IInv, NEW t \in Txns, Active(t), NEW r \in Request, Goes(t, r),
           r.pc # "idle", r.op = req[t].op, Refers(r), KnownFor(r), UNCHANGED storeVars
    PROVE  IInv'
<1>1. Stored /\ Asking
    BY Split
<1>2. /\ req' \in [Txns -> Request]
      /\ req'[t] = r
      /\ \A u \in Txns \ {t} : req'[u] = req[u]
    BY <1>1, GoesOn
<1>3. Asking'
    <2>1. \A u \in Txns : Refers(req'[u])
        BY <1>1, <1>2 DEF Asking
    <2>2. \A u \in Txns : KnownFor(req[u])'
        BY <1>1, <1>2 DEF Asking, KnownFor, Known, storeVars
    <2> QED BY <1>2, <2>1, <2>2 DEF Asking
<1>4. Rights'
    BY <1>1, <1>2 DEF Stored, Rights, Active, Known, storeVars
<1>5. Stored'
    BY <1>1, <1>4 DEF Stored, StoreOK, UnlockedIsCommitted, Kept, storeVars
<1> QED BY <1>3, <1>5 DEF IInv, TypeOK, Stored, Asking

(* What t may write into row x without breaking Stored. *)
Writable(t, x, v) ==
    /\ x \in Items => /\ v \in ItemRow /\ v.life # "absent" /\ v.inq \in Inqs
                      /\ MayChange(req[t].op, committed[x], v)
                      /\ req[t].op \notin Adders => Known(x)
    /\ x \in Inqs => v \in InqRow
    /\ x \in Quotes => /\ v \in QuoteRow /\ v.item \in Items /\ v.life # "absent"
                       /\ req[t].op # "quote" => Known(x)
    /\ x \in Codes => v \in CodeRow

(* A request writes one row and moves on. *)
LEMMA Writes ==
    ASSUME IInv, NEW t \in Txns, Active(t), NEW r \in Request, Goes(t, r),
           r.pc # "idle", r.op = req[t].op, Refers(r), KnownFor(r),
           NEW x \in Rows, NEW v, Write(t, x, v), Writable(t, x, v)
    PROVE  IInv'
<1>1. Stored /\ Asking
    BY Split
<1>2. /\ req' \in [Txns -> Request]
      /\ req'[t] = r
      /\ \A u \in Txns \ {t} : req'[u] = req[u]
    BY <1>1, GoesOn
<1>3. /\ DOMAIN working' = Rows /\ working'[x] = v
      /\ \A y \in Rows \ {x} : working'[y] = working[y]
      /\ owner' \in [Rows -> Txns \cup {Free}] /\ owner'[x] = t
      /\ \A y \in Rows \ {x} : owner'[y] = owner[y]
      /\ committed' = committed
    BY <1>1 DEF Stored, StoreOK, Write
<1>4. Asking'
    <2>1. \A u \in Txns : Refers(req'[u])
        BY <1>1, <1>2 DEF Asking
    <2>2. \A u \in Txns : KnownFor(req[u])'
        BY <1>1, <1>2, <1>3 DEF Asking, KnownFor, Known
    <2> QED BY <1>2, <2>1, <2>2 DEF Asking
<1>5. StoreOK(working)'
    <2>1. \A i \in Items : i \in Rows
        BY DEF Rows
    <2>2. \A c \in Inqs : c \in Rows
        BY DEF Rows
    <2>3. \A k \in Quotes : k \in Rows
        BY DEF Rows
    <2>4. \A c \in Codes : c \in Rows
        BY DEF Rows
    <2> QED BY <1>1, <1>3, <2>1, <2>2, <2>3, <2>4 DEF Stored, StoreOK, Writable
<1>6. Rights'
    <2>1. \A i \in Items : i \in Rows
        BY DEF Rows
    <2> SUFFICES ASSUME NEW u \in Txns
                 PROVE  /\ \A y \in Rows : owner'[y] = u => Active(u)'
                        /\ \A i \in Items : owner'[i] = u =>
                             /\ MayChange(req'[u].op, committed'[i], working'[i])
                             /\ req'[u].op \notin Adders => Known(i)'
                        /\ \A k \in Quotes : owner'[k] = u /\ req'[u].op # "quote" =>
                             Known(k)'
        BY DEF Rights
    <2>2. ASSUME NEW y \in Rows, owner'[y] = u PROVE Active(u)'
        BY <1>1, <1>2, <1>3, <2>2 DEF Stored, Rights, Active
    <2>3. ASSUME NEW i \in Items, owner'[i] = u
          PROVE  /\ MayChange(req'[u].op, committed'[i], working'[i])
                 /\ req'[u].op \notin Adders => Known(i)'
        <3>1. CASE i = x
            BY <1>2, <1>3, <2>1, <2>3, <3>1 DEF Writable, Known
        <3>2. CASE i # x
            BY <1>1, <1>2, <1>3, <2>1, <2>3, <3>2 DEF Stored, Rights, Known
        <3> QED BY <3>1, <3>2
    <2>4. ASSUME NEW k \in Quotes, owner'[k] = u, req'[u].op # "quote" PROVE Known(k)'
        <3>1. k \in Rows
            BY DEF Rows
        <3>2. CASE k = x
            BY <1>2, <1>3, <2>4, <3>1, <3>2 DEF Writable, Known
        <3>3. CASE k # x
            BY <1>1, <1>2, <1>3, <2>4, <3>1, <3>3 DEF Stored, Rights, Known
        <3> QED BY <3>2, <3>3
    <2> QED BY <2>2, <2>3, <2>4
<1>7. Kept' /\ UnlockedIsCommitted'
    BY <1>1, <1>3, FreeIsNoTxn DEF Stored, Kept, UnlockedIsCommitted, Writable, Rows
<1>8. Stored'
    BY <1>1, <1>3, <1>5, <1>6, <1>7 DEF Stored, StoreOK
<1> QED BY <1>4, <1>8 DEF IInv, TypeOK, Stored, Asking

(* A request is rolled back. *)
LEMMA Ends ==
    ASSUME IInv, NEW t \in Txns, Abort(t)
    PROVE  IInv'
<1>1. Stored /\ Asking /\ Blank \in Request /\ Blank.pc = "idle"
    BY Split, BlankType
<1>2. /\ req' \in [Txns -> Request]
      /\ req'[t] = Blank
      /\ \A u \in Txns \ {t} : req'[u] = req[u]
    BY <1>1, GoesOn DEF Abort
<1>3. /\ working' = [r \in Rows |-> IF owner[r] = t THEN committed[r] ELSE working[r]]
      /\ owner' = [r \in Rows |-> IF owner[r] = t THEN Free ELSE owner[r]]
      /\ committed' = committed
    BY DEF Abort, RollbackTxn
<1>4. Asking'
    <2>1. \A u \in Txns : Refers(req'[u])
        BY <1>1, <1>2, NothingToRefer DEF Asking
    <2>2. \A u \in Txns : KnownFor(req[u])'
        <3>1. KnownFor(Blank)'
            BY <1>1 DEF KnownFor, Shifting, Purging
        <3>2. \A u \in Txns \ {t} : KnownFor(req[u])'
            BY <1>1, <1>2, <1>3 DEF Asking, KnownFor, Known
        <3> QED BY <1>2, <3>1, <3>2
    <2> QED BY <1>2, <2>1, <2>2 DEF Asking
<1>5. StoreOK(working)'
    BY <1>1, <1>3 DEF Stored, StoreOK, Rows
<1>6. Rights'
    BY <1>1, <1>2, <1>3, FreeIsNoTxn DEF Stored, Rights, Active, Known, Rows
<1>7. Kept' /\ UnlockedIsCommitted'
    BY <1>1, <1>3 DEF Stored, Kept, UnlockedIsCommitted, Rows
<1>8. Stored'
    BY <1>1, <1>3, <1>5, <1>6, <1>7 DEF Stored, StoreOK
<1> QED BY <1>4, <1>8 DEF IInv, TypeOK, Stored, Asking

(* A request commits. *)
LEMMA Commits ==
    ASSUME IInv, NEW t \in Txns, Commit(t)
    PROVE  IInv'
<1>1. Stored /\ Asking /\ Blank \in Request /\ Blank.pc = "idle"
    BY Split, BlankType
<1>2. /\ req' \in [Txns -> Request]
      /\ req'[t] = Blank
      /\ \A u \in Txns \ {t} : req'[u] = req[u]
    BY <1>1, GoesOn DEF Commit
<1>3. /\ committed' = [r \in Rows |-> IF owner[r] = t THEN working[r] ELSE committed[r]]
      /\ owner' = [r \in Rows |-> IF owner[r] = t THEN Free ELSE owner[r]]
      /\ working' = working
    BY DEF Commit, CommitTxn, Read
<1>4. \A x \in Items \cup Quotes : Known(x) => Known(x)'
    BY <1>1, <1>3 DEF Stored, Kept, Known, Rows
<1>5. Asking'
    <2>1. \A u \in Txns : Refers(req'[u])
        BY <1>1, <1>2, NothingToRefer DEF Asking
    <2>2. \A u \in Txns : KnownFor(req[u])'
        <3>1. KnownFor(Blank)'
            BY <1>1 DEF KnownFor, Shifting, Purging
        <3>2. ASSUME NEW u \in Txns \ {t} PROVE KnownFor(req[u])'
            <4>1. req[u] \in Request /\ Refers(req[u]) /\ KnownFor(req[u])
                BY <1>1 DEF Asking
            <4>2. req[u].pc = "writeItem" \/ (req[u].op = "shift" /\ req[u].pc \in Shifting)
                  => Head(req[u].items) \in Items
                BY <4>1 DEF Refers, Request
            <4>3. req[u].pc = "writeQuote" => req[u].quote \in Quotes
                BY <4>1 DEF Refers
            <4> QED BY <1>2, <1>4, <4>1, <4>2, <4>3 DEF KnownFor
        <3> QED BY <1>2, <3>1, <3>2
    <2> QED BY <1>2, <2>1, <2>2 DEF Asking
<1>6. StoreOK(committed)'
    BY <1>1, <1>3 DEF Stored, StoreOK, Rows
<1>7. Rights'
    BY <1>1, <1>2, <1>3, <1>4, FreeIsNoTxn DEF Stored, Rights, Active, Known, Rows
<1>8. Kept' /\ UnlockedIsCommitted'
    BY <1>1, <1>3, FreeIsNoTxn DEF Stored, Kept, UnlockedIsCommitted, Rows
<1>9. Stored'
    BY <1>1, <1>3, <1>6, <1>7, <1>8 DEF Stored, StoreOK
<1> QED BY <1>5, <1>9 DEF IInv, TypeOK, Stored, Asking

-----------------------------------------------------------------------------
(***************************************************************************)
(* The statements, one lemma each.                                         *)
(***************************************************************************)

(* What is known of the request that takes a step. *)
LEMMA Mine ==
    ASSUME IInv, NEW t \in Txns
    PROVE  /\ Stored /\ Asking
           /\ req[t] \in Request /\ Refers(req[t]) /\ KnownFor(req[t])
BY Split DEF Asking

LEMMA AfterItemGoes ==
    ASSUME NEW t \in Txns, NEW s \in Request, AfterItem(t, s),
           s.op \notin Adders, s.op \in QuoteSync => s.status \in ItemStatus,
           s.op = "shift" => s.inq \in Inqs /\ s.to \in Inqs
    PROVE  \E z \in Request : /\ Goes(t, z) /\ z.pc # "idle" /\ z.op = s.op
                              /\ Refers(z) /\ KnownFor(z)
<1> DEFINE pc == IF s.items # <<>> THEN "findItem"
                 ELSE IF s.todo = {} THEN "commit" ELSE "loadHeader"
           z == [s EXCEPT !.pc = pc]
<1>1. z \in Request
    BY DEF Request, Pcs
<1>2. /\ z.pc = pc /\ z.op = s.op /\ z.items = s.items /\ z.status = s.status
      /\ z.inq = s.inq /\ z.to = s.to
    BY DEF Request
<1>3. Goes(t, z)
    BY DEF AfterItem
<1> HIDE DEF z
<1>4. Refers(z)
    BY <1>2 DEF Refers, Shifting, Purging
<1>5. KnownFor(z)
    BY <1>2 DEF KnownFor, Shifting, Purging
<1>6. z.pc # "idle"
    BY <1>2
<1> QED BY <1>1, <1>2, <1>3, <1>4, <1>5, <1>6

LEMMA FindItemStep ==
    ASSUME IInv, NEW t \in Txns, FindItem(t)
    PROVE  IInv'
<1> PICK r \in Request : r = req[t]
    BY Mine
<1> DEFINE i == Head(r.items)
           row == Read(t, i)
           found == row.life = "live" /\ (r.op \in Scoped => row.inq = r.inq)
<1>1. /\ Stored /\ Refers(r) /\ Active(t)
      /\ r.pc = "findItem" /\ r.items # <<>> /\ r.op \notin Adders
      /\ r.op \in QuoteSync => r.status \in ItemStatus
      /\ r.op = "shift" => r.inq \in Inqs /\ r.to \in Inqs
    BY Mine DEF FindItem, Refers, Active
<1>2. /\ i \in Items /\ Tail(r.items) \in Seq(Items)
    BY <1>1 DEF Request
<1>3. CASE /\ found
           /\ Goes(t, [r EXCEPT !.seen = row,
                                !.pc = IF r.op = "shift" THEN "findInquiry"
                                       ELSE IF r.op = "quote" THEN "countQuotes"
                                       ELSE "writeItem"])
           /\ UNCHANGED storeVars
    <2>1. row \in ItemRow /\ row.inq \in Inqs /\ Known(i)
        BY <1>1, <1>2, <1>3, ReadType, ReadKnown
    <2>2. PICK seen \in ItemRow : seen = row
        BY <2>1
    <2>3. PICK pc \in Pcs : pc = IF r.op = "shift" THEN "findInquiry"
                                 ELSE IF r.op = "quote" THEN "countQuotes" ELSE "writeItem"
        BY DEF Pcs
    <2> DEFINE z == [r EXCEPT !.seen = seen, !.pc = pc]
    <2>4. /\ z \in Request
          /\ z.pc = pc /\ z.op = r.op /\ z.items = r.items /\ z.status = r.status
          /\ z.inq = r.inq /\ z.to = r.to /\ z.seen = seen
        BY DEF Request
    <2>5. Goes(t, z) /\ UNCHANGED storeVars
        BY <1>3, <2>2, <2>3
    <2> HIDE DEF z
    <2>6. Refers(z)
        BY <1>1, <2>1, <2>2, <2>3, <2>4 DEF Refers, Shifting, Purging
    <2>7. KnownFor(z)
        BY <2>1, <2>3, <2>4 DEF KnownFor, Shifting, Purging
    <2> QED BY <1>1, <2>3, <2>4, <2>5, <2>6, <2>7, Moves
<1>4. CASE Abort(t)
    BY <1>4, Ends
<1>5. CASE AfterItem(t, [r EXCEPT !.items = Tail(r.items)]) /\ UNCHANGED storeVars
    <2> DEFINE s == [r EXCEPT !.items = Tail(r.items)]
    <2>1. /\ s \in Request /\ s.op = r.op /\ s.status = r.status
          /\ s.inq = r.inq /\ s.to = r.to
        BY <1>1, <1>2 DEF Request
    <2>2. AfterItem(t, s) /\ UNCHANGED storeVars
        BY <1>5
    <2> HIDE DEF s
    <2>3. PICK z \in Request : /\ Goes(t, z) /\ z.pc # "idle" /\ z.op = s.op
                              /\ Refers(z) /\ KnownFor(z)
        BY <1>1, <2>1, <2>2, AfterItemGoes
    <2> QED BY <1>1, <2>1, <2>2, <2>3, Moves
<1> QED BY <1>1, <1>3, <1>4, <1>5 DEF FindItem

LEMMA WriteItemStep ==
    ASSUME IInv, NEW t \in Txns, WriteItem(t)
    PROVE  IInv'
<1> PICK r \in Request : r = req[t]
    BY Mine
<1> DEFINE i == Head(r.items)
           s == [r EXCEPT !.items = Tail(r.items), !.todo = Due(r), !.seen = NoItem]
<1>1. /\ Stored /\ Refers(r) /\ KnownFor(r) /\ Active(t)
      /\ r.pc = "writeItem" /\ r.items # <<>> /\ r.op \notin Adders
      /\ r.op \in QuoteSync => r.status \in ItemStatus
      /\ r.op = "shift" => r.inq \in Inqs /\ r.to \in Inqs
      /\ r.seen.inq \in Inqs /\ Known(i)
    BY Mine DEF WriteItem, Refers, KnownFor, Active
<1>2. i \in Items /\ i \in Rows /\ Tail(r.items) \in Seq(Items)
    BY <1>1 DEF Request, Rows
<1>3. Due(r) \subseteq Inqs
    BY <1>1 DEF Due, Request
<1>4. /\ s \in Request /\ s.op = r.op /\ s.status = r.status
      /\ s.inq = r.inq /\ s.to = r.to
    BY <1>1, <1>2, <1>3, BlankType DEF Request
<1>5. CASE Abort(t)
    BY <1>5, Ends
<1>9. SUFFICES ASSUME AfterItem(t, s),
                      \/ UNCHANGED storeVars
                      \/ /\ working[i].life # "purged"
                         /\ Write(t, i, Merge(r, working[i]))
               PROVE  IInv'
    BY <1>5 DEF WriteItem
<1> HIDE DEF s
<1>6. PICK z \in Request : /\ Goes(t, z) /\ z.pc # "idle" /\ z.op = s.op
                          /\ Refers(z) /\ KnownFor(z)
    BY <1>1, <1>4, <1>9, AfterItemGoes
<1>7. CASE working[i].life # "purged" /\ Write(t, i, Merge(r, working[i]))
    <2> DEFINE now == working[i]
    <2>1. /\ now \in ItemRow /\ now.life \notin {"absent", "purged"} /\ now.inq \in Inqs
        BY <1>1, <1>2, <1>7 DEF Stored, StoreOK, Kept, Known
    <2>2. /\ Merge(r, now) \in ItemRow /\ Merge(r, now).inq \in Inqs
          /\ Merge(r, now).life # "absent" /\ MayChange(r.op, now, Merge(r, now))
        BY <1>1, <2>1, MergeType
    <2>3. owner[i] \in {Free, t}
        BY <1>7 DEF Write, Lockable
    <2>4. MayChange(r.op, committed[i], Merge(r, now))
        <3>1. CASE owner[i] = Free
            BY <1>1, <1>2, <2>2, <3>1 DEF Stored, UnlockedIsCommitted
        <3>2. CASE owner[i] = t
            BY <1>1, <1>2, <2>2, <3>2, MayChangeTwice DEF Stored, Rights
        <3> QED BY <2>3, <3>1, <3>2
    <2>5. Writable(t, i, Merge(r, now))
        BY <1>1, <1>2, <2>2, <2>4, TablesAreDisjoint DEF Writable
    <2> QED BY <1>1, <1>2, <1>4, <1>6, <1>7, <2>5, Writes
<1>8. CASE UNCHANGED storeVars
    BY <1>1, <1>4, <1>6, <1>8, Moves
<1> QED BY <1>7, <1>8, <1>9

LEMMA ReceivedGoes ==
    ASSUME NEW t \in Txns, NEW s \in Request, Received(t, s), Refers(s), KnownFor(s),
           s.pc \in Shifting, s.op \in Adders \cup {"shift"}, s.to \in Inqs
    PROVE  \E z \in Request : /\ Goes(t, z) /\ z.pc # "idle" /\ z.op = s.op
                              /\ Refers(z) /\ KnownFor(z)
<1>1. PICK pc \in Pcs : pc = IF s.op = "shift"
                             THEN IF s.to = s.inq THEN "commit" ELSE "writeItem"
                             ELSE IF s.left = 0 THEN "loadHeader" ELSE "insertItem"
    BY DEF Pcs
<1>2. PICK todo \in SUBSET Inqs : todo = IF s.op = "shift" THEN {} ELSE {s.to}
    OBVIOUS
<1> DEFINE z == [s EXCEPT !.pc = pc, !.todo = todo]
<1>3. /\ z \in Request
      /\ z.pc = pc /\ z.op = s.op /\ z.items = s.items /\ z.status = s.status
      /\ z.inq = s.inq /\ z.to = s.to /\ z.seen = s.seen /\ z.left = s.left
    BY DEF Request
<1>4. Goes(t, z)
    BY <1>1, <1>2 DEF Received
<1>5. s.left \in Nat
    BY DEF Request
<1> HIDE DEF z
<1>6. Refers(z)
    BY <1>1, <1>3, <1>5 DEF Refers, Shifting, Purging, Adders, QuoteSync
<1>7. KnownFor(z)
    BY <1>1, <1>3 DEF KnownFor, Shifting, Purging, Adders
<1> QED BY <1>1, <1>3, <1>4, <1>6, <1>7

(* A request whose place alone is set stays a request and keeps the rest. *)
LEMMA PlaceOnly ==
    ASSUME NEW r \in Request, NEW pc \in Pcs, NEW z, z = [r EXCEPT !.pc = pc]
    PROVE  /\ z \in Request /\ z.pc = pc /\ z.op = r.op /\ z.items = r.items
           /\ z.status = r.status /\ z.inq = r.inq /\ z.to = r.to /\ z.seen = r.seen
BY DEF Request

LEMMA FindInquiryStep ==
    ASSUME IInv, NEW t \in Txns, FindInquiry(t)
    PROVE  IInv'
<1>1. PICK r \in Request : r = req[t]
    BY Mine
<1>2. /\ Stored /\ Refers(r) /\ KnownFor(r) /\ Active(t)
      /\ r.pc = "findInquiry" /\ r.inq \in Inqs
      /\ r.op \in {"shift", "import", "deleteConsignment"}
    BY <1>1, Mine DEF FindInquiry, Refers, Active
<1>3. PICK row \in InqRow : row = Read(t, r.inq)
    BY <1>2, ReadType
<1>4. PICK loaded \in Request : loaded = [r EXCEPT !.seenInq[r.inq] = row]
    <2>1. [r EXCEPT !.seenInq[r.inq] = row] \in Request
        BY <1>2 DEF Request
    <2> QED BY <2>1
<1>5. /\ loaded.pc = r.pc /\ loaded.op = r.op /\ loaded.items = r.items
      /\ loaded.status = r.status /\ loaded.inq = r.inq /\ loaded.to = r.to
      /\ loaded.seen = r.seen /\ loaded.left = r.left
    BY <1>4 DEF Request
<1>6. Refers(loaded) /\ KnownFor(loaded)
    BY <1>2, <1>5 DEF Refers, KnownFor, Shifting, Purging, Adders
<1>7. CASE Abort(t)
    BY <1>7, Ends
<1>8. CASE r.op = "import" /\ Received(t, loaded) /\ UNCHANGED storeVars
    <2>1. PICK z \in Request : /\ Goes(t, z) /\ z.pc # "idle" /\ z.op = loaded.op
                              /\ Refers(z) /\ KnownFor(z)
        BY <1>2, <1>5, <1>6, <1>8, ReceivedGoes DEF Shifting, Purging, Refers, Adders
    <2> QED BY <1>1, <1>2, <1>5, <1>8, <2>1, Moves
<1>9. ASSUME NEW pc \in {"findCode", "trashInquiry"}, Goes(t, [loaded EXCEPT !.pc = pc]),
             pc = "findCode" <=> r.op = "shift", UNCHANGED storeVars
      PROVE  IInv'
    <2> DEFINE z == [loaded EXCEPT !.pc = pc]
    <2>1. /\ z \in Request /\ z.pc = pc /\ z.op = r.op /\ z.items = r.items
          /\ z.status = r.status /\ z.inq = r.inq /\ z.to = r.to /\ z.seen = r.seen
        <3>1. loaded \in Request /\ pc \in Pcs
            BY DEF Pcs
        <3> QED BY <1>5, <3>1, PlaceOnly
    <2>2. Goes(t, z)
        BY <1>9
    <2> HIDE DEF z
    <2>3. Refers(z) /\ KnownFor(z)
        BY <1>2, <1>9, <2>1 DEF Refers, KnownFor, Shifting, Purging, Adders
    <2> QED BY <1>1, <1>2, <1>9, <2>1, <2>2, <2>3, Moves
<1> QED BY <1>1, <1>2, <1>3, <1>4, <1>7, <1>8, <1>9 DEF FindInquiry

LEMMA FindCodeStep ==
    ASSUME IInv, NEW t \in Txns, FindCode(t)
    PROVE  IInv'
<1>1. PICK r \in Request : r = req[t]
    BY Mine
<1>2. /\ Refers(r) /\ KnownFor(r) /\ Active(t) /\ r.pc = "findCode"
    BY <1>1, Mine DEF FindCode, Active
<1>3. CASE Abort(t)
    BY <1>3, Ends
<1>4. CASE Goes(t, [r EXCEPT !.pc = "findConsignment"]) /\ UNCHANGED storeVars
    <2> DEFINE z == [r EXCEPT !.pc = "findConsignment"]
    <2>1. /\ z \in Request /\ z.pc = "findConsignment" /\ z.op = r.op /\ z.items = r.items
          /\ z.status = r.status /\ z.inq = r.inq /\ z.to = r.to /\ z.seen = r.seen
        <3>1. "findConsignment" \in Pcs
            BY DEF Pcs
        <3> QED BY <3>1, PlaceOnly
    <2>2. Goes(t, z)
        BY <1>4
    <2> HIDE DEF z
    <2>3. Refers(z) /\ KnownFor(z)
        BY <1>2, <2>1 DEF Refers, KnownFor, Shifting, Purging, Adders
    <2> QED BY <1>1, <1>2, <1>4, <2>1, <2>2, <2>3, Moves
<1> QED BY <1>1, <1>3, <1>4 DEF FindCode

LEMMA FindConsignmentStep ==
    ASSUME IInv, NEW t \in Txns, FindConsignment(t)
    PROVE  IInv'
<1>1. PICK r \in Request : r = req[t]
    BY Mine
<1>2. /\ Stored /\ Refers(r) /\ KnownFor(r) /\ Active(t) /\ r.pc = "findConsignment"
      /\ r.op \in Adders \cup {"shift"} /\ r.to \in Inqs
    BY <1>1, Mine DEF FindConsignment, Active, Refers, Shifting, Purging
<1>3. PICK row \in InqRow :
        row = IF r.seenInq[r.to] = NoInq THEN Read(t, r.to) ELSE r.seenInq[r.to]
    BY <1>2, ReadType DEF Request
<1>4. PICK loaded \in Request : loaded = [r EXCEPT !.seenInq[r.to] = row]
    <2>1. [r EXCEPT !.seenInq[r.to] = row] \in Request
        BY <1>2 DEF Request
    <2> QED BY <2>1
<1>5. /\ loaded.pc = r.pc /\ loaded.op = r.op /\ loaded.items = r.items
      /\ loaded.status = r.status /\ loaded.inq = r.inq /\ loaded.to = r.to
      /\ loaded.seen = r.seen /\ loaded.left = r.left
    BY <1>4 DEF Request
<1>6. Refers(loaded) /\ KnownFor(loaded)
    BY <1>2, <1>5 DEF Refers, KnownFor, Shifting, Purging, Adders
<1>7. CASE Received(t, loaded) /\ UNCHANGED storeVars
    <2>1. PICK z \in Request : /\ Goes(t, z) /\ z.pc # "idle" /\ z.op = loaded.op
                              /\ Refers(z) /\ KnownFor(z)
        BY <1>2, <1>5, <1>6, <1>7, ReceivedGoes DEF Shifting
    <2> QED BY <1>1, <1>2, <1>5, <1>7, <2>1, Moves
<1>8. ASSUME NEW pc \in {"reviveConsignment", "createConsignment"},
             Goes(t, [loaded EXCEPT !.pc = pc]), UNCHANGED storeVars
      PROVE  IInv'
    <2> DEFINE z == [loaded EXCEPT !.pc = pc]
    <2>1. /\ z \in Request /\ z.pc = pc /\ z.op = r.op /\ z.items = r.items
          /\ z.status = r.status /\ z.inq = r.inq /\ z.to = r.to /\ z.seen = r.seen
        <3>1. loaded \in Request /\ pc \in Pcs
            BY DEF Pcs
        <3> QED BY <1>5, <3>1, PlaceOnly
    <2>2. Goes(t, z)
        BY <1>8
    <2> HIDE DEF z
    <2>3. Refers(z) /\ KnownFor(z)
        BY <1>2, <1>8, <2>1 DEF Refers, KnownFor, Shifting, Purging, Adders
    <2> QED BY <1>1, <1>2, <1>8, <2>1, <2>2, <2>3, Moves
<1> QED BY <1>1, <1>3, <1>4, <1>7, <1>8 DEF FindConsignment

(* A consignment may be written by any request. *)
LEMMA InqWritable ==
    ASSUME NEW t, NEW c \in Inqs, NEW v \in InqRow
    PROVE  c \in Rows /\ Writable(t, c, v)
BY TablesAreDisjoint DEF Writable, Rows

LEMMA CodeWritable ==
    ASSUME NEW t, NEW c \in Codes, NEW v \in CodeRow
    PROVE  c \in Rows /\ Writable(t, c, v)
BY TablesAreDisjoint DEF Writable, Rows

LEMMA QuoteWritable ==
    ASSUME NEW t, NEW k \in Quotes, NEW v \in QuoteRow, v.item \in Items,
           v.life # "absent", req[t].op # "quote" => Known(k)
    PROVE  k \in Rows /\ Writable(t, k, v)
BY TablesAreDisjoint DEF Writable, Rows

LEMMA ReviveConsignmentStep ==
    ASSUME IInv, NEW t \in Txns, ReviveConsignment(t)
    PROVE  IInv'
<1>1. PICK r \in Request : r = req[t]
    BY Mine
<1>2. /\ Stored /\ Refers(r) /\ KnownFor(r) /\ Active(t) /\ r.pc = "reviveConsignment"
      /\ r.op \in Adders \cup {"shift"} /\ r.to \in Inqs /\ r.pc \in Shifting
    BY <1>1, Mine DEF ReviveConsignment, Active, Refers, Shifting, Purging
<1>3. PICK row \in InqRow : row = working[r.to]
    BY <1>2 DEF Stored, StoreOK
<1> DEFINE v == [row EXCEPT !.life = "live"]
<1>4. v \in InqRow /\ v.life = "live"
    BY DEF InqRow, Life
<1>5. Write(t, r.to, v) /\ Received(t, r)
    BY <1>1, <1>3 DEF ReviveConsignment
<1>6. PICK z \in Request : /\ Goes(t, z) /\ z.pc # "idle" /\ z.op = r.op
                          /\ Refers(z) /\ KnownFor(z)
    BY <1>2, <1>5, ReceivedGoes
<1> HIDE DEF v
<1> QED BY <1>1, <1>2, <1>4, <1>5, <1>6, InqWritable, Writes

LEMMA CreateConsignmentStep ==
    ASSUME IInv, NEW t \in Txns, CreateConsignment(t)
    PROVE  IInv'
<1>1. PICK r \in Request : r = req[t]
    BY Mine
<1>2. /\ Stored /\ Refers(r) /\ KnownFor(r) /\ Active(t) /\ r.pc = "createConsignment"
      /\ r.op \in Adders \cup {"shift"} /\ r.to \in Inqs /\ r.pc \in Shifting
    BY <1>1, Mine DEF CreateConsignment, Active, Refers, Shifting, Purging
<1>3. CASE Abort(t)
    BY <1>3, Ends
<1>4. PICK v \in InqRow : v = [NoInq EXCEPT !.life = "live"]
    <2>1. [NoInq EXCEPT !.life = "live"] \in InqRow
        BY BlankType DEF InqRow, Life
    <2> QED BY <2>1
<1>5. v.life = "live"
    BY <1>4, BlankType DEF InqRow
<1>6. CASE Write(t, r.to, v) /\ Received(t, [r EXCEPT !.seenInq[r.to] = v])
    <2> DEFINE s == [r EXCEPT !.seenInq[r.to] = v]
    <2>1. /\ s \in Request /\ s.pc = r.pc /\ s.op = r.op /\ s.items = r.items
          /\ s.status = r.status /\ s.inq = r.inq /\ s.to = r.to
          /\ s.seen = r.seen /\ s.left = r.left
        BY <1>2 DEF Request
    <2>2. Received(t, s)
        BY <1>6
    <2> HIDE DEF s
    <2>3. Refers(s) /\ KnownFor(s)
        BY <1>2, <2>1 DEF Refers, KnownFor, Shifting, Purging, Adders
    <2>4. PICK z \in Request : /\ Goes(t, z) /\ z.pc # "idle" /\ z.op = s.op
                              /\ Refers(z) /\ KnownFor(z)
        BY <1>2, <2>1, <2>2, <2>3, ReceivedGoes
    <2> QED BY <1>1, <1>2, <1>5, <1>6, <2>1, <2>4, InqWritable, Writes
<1> QED BY <1>1, <1>3, <1>4, <1>6 DEF CreateConsignment

LEMMA InsertItemStep ==
    ASSUME IInv, NEW t \in Txns, InsertItem(t)
    PROVE  IInv'
<1>1. PICK r \in Request : r = req[t]
    BY Mine
<1>2. /\ Stored /\ Refers(r) /\ Active(t) /\ r.pc = "insertItem" /\ r.op \in Adders
      /\ r.left > 0 /\ r.to \in Inqs /\ r.status \in ItemStatus
    BY <1>1, Mine DEF InsertItem, Active, Refers
<1>3. PICK i \in Items : Fresh(i) /\ Write(t, i, NewItem(r.to, r.status, r.qty))
    BY <1>1 DEF InsertItem
<1>4. PICK v \in ItemRow : v = NewItem(r.to, r.status, r.qty)
    <2>1. NewItem(r.to, r.status, r.qty) \in ItemRow
        BY <1>2 DEF NewItem, ItemRow, LineLife, Life, Request
    <2> QED BY <2>1
<1>5. v.life = "live" /\ v.inq = r.to
    BY <1>4 DEF NewItem
<1>6. Writable(t, i, v) /\ i \in Rows
    BY <1>1, <1>2, <1>3, <1>5, TablesAreDisjoint DEF Writable, Rows, MayChange, Fresh, Adders
<1>7. PICK pc \in Pcs : pc = IF r.left = 1 THEN "loadHeader" ELSE "insertItem"
    BY DEF Pcs
<1>8. PICK left \in Nat : left = r.left - 1
    <2>1. r.left - 1 \in Nat
        BY <1>2 DEF Request
    <2> QED BY <2>1
<1> DEFINE z == [r EXCEPT !.left = left, !.pc = pc]
<1>9. z \in Request
    BY DEF Request
<1>13. /\ z.pc = pc /\ z.op = r.op /\ z.items = r.items
       /\ z.status = r.status /\ z.inq = r.inq /\ z.to = r.to /\ z.left = left
    BY DEF Request
<1>10. Goes(t, z)
    BY <1>1, <1>7, <1>8 DEF InsertItem
<1>11. r.left \in Nat
    BY DEF Request
<1> HIDE DEF z
<1>12. Refers(z) /\ KnownFor(z)
    BY <1>2, <1>7, <1>8, <1>11, <1>13 DEF Refers, KnownFor, Shifting, Purging, Adders, QuoteSync
<1> QED BY <1>1, <1>2, <1>3, <1>4, <1>6, <1>7, <1>9, <1>10, <1>12, <1>13, Writes

LEMMA LoadHeaderStep ==
    ASSUME IInv, NEW t \in Txns, LoadHeader(t)
    PROVE  IInv'
<1>1. PICK r \in Request : r = req[t]
    BY Mine
<1>2. /\ Stored /\ Refers(r) /\ Active(t) /\ r.pc = "loadHeader"
    BY <1>1, Mine DEF LoadHeader, Active
<1>3. PICK c \in Inqs :
        \/ Abort(t)
        \/ /\ Goes(t, [r EXCEPT !.pc = "aggregate", !.header = c,
                               !.seenInq[c] = IF @ = NoInq THEN Read(t, c) ELSE @])
           /\ UNCHANGED storeVars
    BY <1>1 DEF LoadHeader, Request
<1>4. CASE Abort(t)
    BY <1>4, Ends
<1>5. CASE /\ Goes(t, [r EXCEPT !.pc = "aggregate", !.header = c,
                               !.seenInq[c] = IF @ = NoInq THEN Read(t, c) ELSE @])
           /\ UNCHANGED storeVars
    <2>1. PICK row \in InqRow : row = Read(t, c)
        BY <1>2, ReadType
    <2> DEFINE z == [r EXCEPT !.pc = "aggregate", !.header = c,
                              !.seenInq[c] = IF @ = NoInq THEN row ELSE @]
    <2>2. z \in Request
        BY DEF Request, Pcs
    <2>3. /\ z.pc = "aggregate" /\ z.op = r.op /\ z.header = c
          /\ z.inq = r.inq /\ z.to = r.to
        BY DEF Request
    <2>4. Goes(t, z)
        BY <1>5, <2>1
    <2> HIDE DEF z
    <2>5. Refers(z) /\ KnownFor(z)
        BY <1>2, <2>3 DEF Refers, KnownFor, Shifting, Purging
    <2> QED BY <1>1, <1>2, <1>5, <2>2, <2>3, <2>4, <2>5, Moves
<1> QED BY <1>3, <1>4, <1>5

LEMMA AggregateStep ==
    ASSUME IInv, NEW t \in Txns, Aggregate(t)
    PROVE  IInv'
<1>1. PICK r \in Request : r = req[t]
    BY Mine
<1>2. /\ Stored /\ Refers(r) /\ Active(t) /\ r.pc = "aggregate" /\ r.header \in Inqs
    BY <1>1, Mine DEF Aggregate, Active, Refers
<1>3. PICK roll \in [status : HeaderStatus, total : Totals] :
        roll = Rollup(Snapshot(t), r.header)
    <2>1. \A i \in Items : Snapshot(t)[i] \in ItemRow
        BY <1>2, ReadType DEF Snapshot, Rows
    <2> QED BY <2>1, RollupType
<1> DEFINE z == [r EXCEPT !.pc = "storeHeader", !.roll = roll]
<1>4. z \in Request
    BY DEF Request, Pcs
<1>7. /\ z.pc = "storeHeader" /\ z.op = r.op /\ z.header = r.header
      /\ z.inq = r.inq /\ z.to = r.to
    BY DEF Request
<1>5. Goes(t, z) /\ UNCHANGED storeVars
    BY <1>1, <1>3 DEF Aggregate
<1> HIDE DEF z
<1>6. Refers(z) /\ KnownFor(z)
    BY <1>2, <1>7 DEF Refers, KnownFor, Shifting, Purging
<1> QED BY <1>1, <1>2, <1>4, <1>5, <1>6, <1>7, Moves

LEMMA StoreHeaderStep ==
    ASSUME IInv, NEW t \in Txns, StoreHeader(t)
    PROVE  IInv'
<1>1. PICK r \in Request : r = req[t]
    BY Mine
<1>2. /\ Stored /\ Refers(r) /\ Active(t) /\ r.pc = "storeHeader"
    BY <1>1, Mine DEF StoreHeader, Active
<1>3. PICK c \in Inqs : c = r.header
    BY <1>2 DEF Refers
<1>4. PICK now \in InqRow : now = working[c]
    BY <1>2 DEF Stored, StoreOK
<1>5. PICK old \in InqRow : old = r.seenInq[c]
    BY DEF Request
<1> DEFINE v == [life |-> now.life,
                 status |-> Column(FALSE, r.roll.status, old.status, now.status),
                 total |-> Column(FALSE, r.roll.total, old.total, now.total)]
<1>6. v \in InqRow /\ v.life = now.life
    BY DEF Request, InqRow, Column
<1>7. Write(t, c, v)
    BY <1>1, <1>3, <1>4, <1>5 DEF StoreHeader
<1>8. NoInq \in InqRow
    BY BlankType
<1>9. PICK pc \in Pcs : pc = IF r.todo = {c} THEN "commit" ELSE "loadHeader"
    BY DEF Pcs
<1>10. PICK roll \in [status : HeaderStatus, total : Totals] : roll = Blank.roll
    BY BlankType DEF Request
<1> DEFINE z == [r EXCEPT !.todo = r.todo \ {c}, !.header = None, !.roll = roll,
                          !.seenInq[c] = NoInq, !.pc = pc]
<1>11. z \in Request
    BY <1>8 DEF Request
<1>12. /\ z.pc = pc /\ z.op = r.op /\ z.inq = r.inq /\ z.to = r.to
    BY DEF Request
<1>13. Goes(t, z)
    BY <1>1, <1>3, <1>9, <1>10 DEF StoreHeader
<1> HIDE DEF z, v
<1>14. Refers(z) /\ KnownFor(z)
    BY <1>2, <1>9, <1>12 DEF Refers, KnownFor, Shifting, Purging
<1> QED BY <1>1, <1>2, <1>6, <1>7, <1>9, <1>11, <1>12, <1>13, <1>14, InqWritable, Writes

(* A request that only moves to its next statement. *)
LEMMA NextStatement ==
    ASSUME NEW r \in Request, NEW pc \in Pcs
    PROVE  \E z \in Request :
             /\ z = [r EXCEPT !.pc = pc] /\ z.pc = pc /\ z.op = r.op
             /\ z.items = r.items /\ z.status = r.status /\ z.inq = r.inq /\ z.to = r.to
             /\ z.quote = r.quote /\ z.row = r.row /\ z.seenQuote = r.seenQuote
<1> DEFINE z == [r EXCEPT !.pc = pc]
<1>1. z \in Request
    BY DEF Request
<1>2. /\ z.pc = pc /\ z.op = r.op /\ z.items = r.items /\ z.status = r.status
      /\ z.inq = r.inq /\ z.to = r.to /\ z.quote = r.quote /\ z.row = r.row
      /\ z.seenQuote = r.seenQuote
    BY DEF Request
<1> QED BY <1>1, <1>2

LEMMA FindQuoteStep ==
    ASSUME IInv, NEW t \in Txns, FindQuote(t)
    PROVE  IInv'
<1>1. PICK r \in Request : r = req[t]
    BY Mine
<1>2. /\ Stored /\ Refers(r) /\ Active(t) /\ r.pc = "findQuote"
      /\ r.quote \in Quotes /\ r.op \in QuoteSync
      /\ r.op = "decide" => r.status \in QuoteStatus
    BY <1>1, Mine DEF FindQuote, Active, Refers
<1>3. CASE Abort(t)
    BY <1>3, Ends
<1>4. CASE /\ Read(t, r.quote).life = "live"
           /\ Goes(t, [r EXCEPT !.pc = "writeQuote", !.seenQuote = Read(t, r.quote)])
           /\ UNCHANGED storeVars
    <2>1. PICK row \in QuoteRow : row = Read(t, r.quote) /\ row.item \in Items
        BY <1>2, <1>4, ReadType
    <2>6. Known(r.quote)
        BY <1>1, <1>2, <1>4, QuoteReadKnown DEF QuoteSync
    <2> DEFINE z == [r EXCEPT !.pc = "writeQuote", !.seenQuote = row]
    <2>2. z \in Request
        BY DEF Request, Pcs
    <2>3. /\ z.pc = "writeQuote" /\ z.op = r.op /\ z.quote = r.quote
          /\ z.status = r.status /\ z.seenQuote = row
        BY DEF Request
    <2>4. Goes(t, z)
        BY <1>4, <2>1
    <2> HIDE DEF z
    <2>5. Refers(z) /\ KnownFor(z)
        BY <1>2, <2>1, <2>3, <2>6 DEF Refers, KnownFor, Shifting, Purging, QuoteSync
    <2> QED BY <1>1, <1>2, <1>4, <2>2, <2>3, <2>4, <2>5, Moves
<1> QED BY <1>1, <1>3, <1>4 DEF FindQuote

LEMMA WriteQuoteStep ==
    ASSUME IInv, NEW t \in Txns, WriteQuote(t)
    PROVE  IInv'
<1>1. PICK r \in Request : r = req[t]
    BY Mine
<1>2. /\ Stored /\ Refers(r) /\ Active(t) /\ r.pc = "writeQuote" /\ Known(r.quote)
      /\ r.quote \in Quotes /\ r.op \in QuoteSync
      /\ r.op = "decide" => r.status \in QuoteStatus
      /\ r.seenQuote.item \in Items
    BY <1>1, Mine DEF WriteQuote, Active, Refers, KnownFor
<1>3. PICK kept \in QuoteRow : kept = [NoQuote EXCEPT !.item = r.seenQuote.item]
    <2>1. [NoQuote EXCEPT !.item = r.seenQuote.item] \in QuoteRow
        BY <1>2, BlankType DEF QuoteRow
    <2> QED BY <2>1
<1>4. kept.item \in Items
    BY <1>2, <1>3, BlankType DEF QuoteRow
<1> DEFINE z == [r EXCEPT !.pc = "countApproved", !.seenQuote = kept]
<1>5. z \in Request
    BY DEF Request, Pcs
<1>6. /\ z.pc = "countApproved" /\ z.op = r.op /\ z.quote = r.quote /\ z.seenQuote = kept
    BY DEF Request
<1>16. CASE Abort(t)
    BY <1>16, Ends
<1>7. SUFFICES ASSUME Goes(t, z),
                      IF r.op = "unquote"
                      THEN Write(t, r.quote, [working[r.quote] EXCEPT !.life = "trash"])
                      ELSE \/ Write(t, r.quote, [working[r.quote] EXCEPT !.status = r.status])
                           \/ UNCHANGED storeVars
               PROVE  IInv'
    BY <1>1, <1>3, <1>16 DEF WriteQuote
<1> HIDE DEF z
<1>8. Refers(z) /\ KnownFor(z)
    BY <1>2, <1>4, <1>6 DEF Refers, KnownFor, Shifting, Purging, QuoteSync
<1>9. PICK now \in QuoteRow : now = working[r.quote]
    BY <1>2 DEF Stored, StoreOK
<1>10. now.item \in Items /\ now.life # "absent"
    BY <1>2, <1>9 DEF Stored, StoreOK, Kept, Known
<1>11. r.op # "quote"
    BY <1>2 DEF QuoteSync
<1>12. CASE UNCHANGED storeVars
    BY <1>1, <1>2, <1>5, <1>6, <1>7, <1>8, <1>12, Moves
<1>13. ASSUME NEW v \in QuoteRow, v.item = now.item, v.life # "absent", Write(t, r.quote, v)
       PROVE  IInv'
    <2>1. r.quote \in Rows /\ Writable(t, r.quote, v)
        BY <1>1, <1>2, <1>10, <1>13, QuoteWritable
    <2> QED BY <1>1, <1>2, <1>5, <1>6, <1>7, <1>8, <1>13, <2>1, Writes
<1>14. CASE r.op = "unquote"
    <2>1. /\ [now EXCEPT !.life = "trash"] \in QuoteRow
          /\ [now EXCEPT !.life = "trash"].item = now.item
          /\ [now EXCEPT !.life = "trash"].life # "absent"
        BY DEF QuoteRow, Life, LineLife
    <2> QED BY <1>7, <1>9, <1>13, <1>14, <2>1
<1>15. CASE r.op # "unquote"
    <2>1. r.status \in QuoteStatus
        BY <1>2, <1>15 DEF QuoteSync
    <2>2. /\ [now EXCEPT !.status = r.status] \in QuoteRow
          /\ [now EXCEPT !.status = r.status].item = now.item
          /\ [now EXCEPT !.status = r.status].life # "absent"
        BY <1>10, <2>1 DEF QuoteRow
    <2> QED BY <1>7, <1>9, <1>12, <1>13, <1>15, <2>2
<1> QED BY <1>14, <1>15

LEMMA CountApprovedStep ==
    ASSUME IInv, NEW t \in Txns, CountApproved(t)
    PROVE  IInv'
<1>1. PICK r \in Request : r = req[t]
    BY Mine
<1>2. /\ Refers(r) /\ Active(t) /\ r.pc = "countApproved" /\ r.op \in QuoteSync
    BY <1>1, Mine DEF CountApproved, Active, Refers
<1>3. PICK i \in Items : i = r.seenQuote.item
    BY <1>2 DEF Refers
<1>4. PICK verdict \in ItemStatus : verdict = Verdict(Snapshot(t), i)
    BY DEF Verdict, ItemStatus
<1>9. PICK items \in Seq(Items) : items = <<i>>
    <2>1. <<i>> \in Seq(Items)
        OBVIOUS
    <2> QED BY <2>1
<1> DEFINE z == [r EXCEPT !.pc = "findItem", !.items = items, !.status = verdict]
<1>5. z \in Request
    BY DEF Request, Pcs
<1>6. z.pc = "findItem" /\ z.op = r.op /\ z.items = items /\ z.status = verdict
    BY DEF Request
<1>7. Goes(t, z) /\ UNCHANGED storeVars
    BY <1>1, <1>3, <1>4, <1>9 DEF CountApproved
<1> HIDE DEF z
<1>8. Refers(z) /\ KnownFor(z)
    BY <1>2, <1>6, <1>9 DEF Refers, KnownFor, Shifting, Purging, QuoteSync, Adders
<1> QED BY <1>1, <1>2, <1>5, <1>6, <1>7, <1>8, Moves

LEMMA CountQuotesStep ==
    ASSUME IInv, NEW t \in Txns, CountQuotes(t)
    PROVE  IInv'
<1>1. PICK r \in Request : r = req[t]
    BY Mine
<1>2. /\ Refers(r) /\ Active(t) /\ r.pc = "countQuotes" /\ r.items # <<>>
    BY <1>1, Mine DEF CountQuotes, Active, Refers
<1>3. PICK num \in Nat : num = NextNumber(Snapshot(t))
    BY NextNumberType
<1> DEFINE z == [r EXCEPT !.pc = "insertQuote", !.num = num]
<1>4. z \in Request
    BY DEF Request, Pcs
<1>5. /\ z.pc = "insertQuote" /\ z.op = r.op /\ z.items = r.items
      /\ z.inq = r.inq /\ z.to = r.to
    BY DEF Request
<1>6. Goes(t, z) /\ UNCHANGED storeVars
    BY <1>1, <1>3 DEF CountQuotes
<1> HIDE DEF z
<1>7. Refers(z) /\ KnownFor(z)
    BY <1>2, <1>5 DEF Refers, KnownFor, Shifting, Purging
<1> QED BY <1>1, <1>2, <1>4, <1>5, <1>6, <1>7, Moves

(* A request that is about to commit. *)
LEMMA LastStatement ==
    ASSUME NEW r \in Request
    PROVE  \E z \in Request : /\ z = [r EXCEPT !.pc = "commit"] /\ z.pc = "commit"
                              /\ z.op = r.op /\ Refers(z) /\ KnownFor(z)
<1>1. "commit" \in Pcs
    BY DEF Pcs
<1> QED BY <1>1, NextStatement, NothingToRefer

LEMMA InsertQuoteStep ==
    ASSUME IInv, NEW t \in Txns, InsertQuote(t)
    PROVE  IInv'
<1>1. PICK r \in Request : r = req[t]
    BY Mine
<1>2. /\ Stored /\ Refers(r) /\ Active(t) /\ r.pc = "insertQuote" /\ r.items # <<>>
      /\ r.op = "quote"
    BY <1>1, Mine DEF InsertQuote, Active, Refers
<1>9. CASE Abort(t)
    BY <1>9, Ends
<1>10. SUFFICES ASSUME \E k \in Quotes : Write(t, k, [life |-> "live", item |-> Head(r.items),
                                                     status |-> "pending", num |-> r.num]),
                       Goes(t, [r EXCEPT !.pc = "commit"])
                PROVE  IInv'
    BY <1>1, <1>9 DEF InsertQuote
<1>3. PICK k \in Quotes : Write(t, k, [life |-> "live", item |-> Head(r.items),
                                      status |-> "pending", num |-> r.num])
    BY <1>10
<1>4. Head(r.items) \in Items
    BY <1>2 DEF Request
<1>5. PICK v \in QuoteRow : v = [life |-> "live", item |-> Head(r.items),
                                 status |-> "pending", num |-> r.num]
    <2>1. [life |-> "live", item |-> Head(r.items), status |-> "pending", num |-> r.num]
          \in QuoteRow
        BY <1>4 DEF QuoteRow, Life, LineLife, QuoteStatus, Request
    <2> QED BY <2>1
<1>6. k \in Rows /\ Writable(t, k, v)
    <2>1. v.item \in Items /\ v.life # "absent"
        BY <1>4, <1>5
    <2> QED BY <1>1, <1>2, <2>1, QuoteWritable
<1>7. PICK z \in Request : /\ z = [r EXCEPT !.pc = "commit"] /\ z.pc = "commit"
                          /\ z.op = r.op /\ Refers(z) /\ KnownFor(z)
    BY LastStatement
<1>8. Goes(t, z)
    BY <1>7, <1>10
<1> QED BY <1>1, <1>2, <1>3, <1>5, <1>6, <1>7, <1>8, Writes

LEMMA TrashInquiryStep ==
    ASSUME IInv, NEW t \in Txns, TrashInquiry(t)
    PROVE  IInv'
<1>1. PICK r \in Request : r = req[t]
    BY Mine
<1>2. /\ Stored /\ Refers(r) /\ Active(t) /\ r.pc = "trashInquiry" /\ r.inq \in Inqs
    BY <1>1, Mine DEF TrashInquiry, Active, Refers
<1>3. PICK row \in InqRow : row = working[r.inq]
    BY <1>2 DEF Stored, StoreOK
<1>4. PICK v \in InqRow : v = [row EXCEPT !.life = "trash"]
    <2>1. [row EXCEPT !.life = "trash"] \in InqRow
        BY DEF InqRow, Life
    <2> QED BY <2>1
<1>5. PICK z \in Request : /\ z = [r EXCEPT !.pc = "findOwnCode"] /\ z.pc = "findOwnCode"
                          /\ z.op = r.op /\ z.inq = r.inq /\ z.to = r.to
    <2>1. "findOwnCode" \in Pcs
        BY DEF Pcs
    <2> QED BY <2>1, NextStatement
<1>6. Refers(z) /\ KnownFor(z)
    BY <1>2, <1>5 DEF Refers, KnownFor, Shifting, Purging
<1>7. Write(t, r.inq, v) /\ Goes(t, z)
    BY <1>1, <1>3, <1>4, <1>5 DEF TrashInquiry
<1> QED BY <1>1, <1>2, <1>5, <1>6, <1>7, InqWritable, Writes

LEMMA FindOwnCodeStep ==
    ASSUME IInv, NEW t \in Txns, FindOwnCode(t)
    PROVE  IInv'
<1>1. PICK r \in Request : r = req[t]
    BY Mine
<1>2. /\ Refers(r) /\ Active(t) /\ r.pc = "findOwnCode" /\ r.inq \in Inqs
    BY <1>1, Mine DEF FindOwnCode, Active, Refers
<1>3. PICK pc \in Pcs : pc = IF Read(t, Code(r.inq)).life = "live"
                             THEN "trashCode" ELSE "commit"
    BY DEF Pcs
<1>4. PICK z \in Request : /\ z = [r EXCEPT !.pc = pc] /\ z.pc = pc
                          /\ z.op = r.op /\ z.inq = r.inq /\ z.to = r.to
    BY NextStatement
<1>5. Refers(z) /\ KnownFor(z)
    BY <1>2, <1>3, <1>4 DEF Refers, KnownFor, Shifting, Purging
<1>6. Goes(t, z) /\ UNCHANGED storeVars
    BY <1>1, <1>3, <1>4 DEF FindOwnCode
<1>7. z.pc # "idle" /\ z.op = req[t].op
    BY <1>1, <1>3, <1>4
<1> QED BY <1>2, <1>5, <1>6, <1>7, Moves

LEMMA TrashCodeStep ==
    ASSUME IInv, NEW t \in Txns, TrashCode(t)
    PROVE  IInv'
<1>1. PICK r \in Request : r = req[t]
    BY Mine
<1>2. /\ Active(t) /\ r.inq \in Inqs /\ Code(r.inq) \in Codes
    BY <1>1, Mine DEF TrashCode, Active, Refers, Codes
<1>3. PICK v \in CodeRow : v = [life |-> "trash"]
    BY DEF CodeRow, Life
<1>4. PICK z \in Request : /\ z = [r EXCEPT !.pc = "commit"] /\ z.pc = "commit"
                          /\ z.op = r.op /\ Refers(z) /\ KnownFor(z)
    BY LastStatement
<1>5. Write(t, Code(r.inq), v) /\ Goes(t, z)
    BY <1>1, <1>3, <1>4 DEF TrashCode
<1> QED BY <1>1, <1>2, <1>4, <1>5, CodeWritable, Writes

LEMMA FindAnyCodeStep ==
    ASSUME IInv, NEW t \in Txns, FindAnyCode(t)
    PROVE  IInv'
<1>1. PICK r \in Request : r = req[t]
    BY Mine
<1>2. /\ Stored /\ Refers(r) /\ Active(t) /\ r.pc = "findAnyCode" /\ r.inq \in Inqs
      /\ Code(r.inq) \in Codes
    BY <1>1, Mine DEF FindAnyCode, Active, Refers, Codes
<1>3. PICK life \in Life : life = Read(t, Code(r.inq)).life
    <2>1. Read(t, Code(r.inq)) \in CodeRow
        BY <1>2, ReadType
    <2> QED BY <2>1 DEF CodeRow
<1>4. CASE Abort(t)
    BY <1>4, Ends
<1>5. CASE /\ Goes(t, [r EXCEPT !.pc = "putCode", !.seenCode = life])
           /\ UNCHANGED storeVars
    <2> DEFINE z == [r EXCEPT !.pc = "putCode", !.seenCode = life]
    <2>1. z \in Request
        <3>1. "putCode" \in Pcs
            BY DEF Pcs
        <3> QED BY <3>1 DEF Request
    <2>2. z.pc = "putCode" /\ z.op = r.op /\ z.inq = r.inq /\ z.to = r.to
        BY DEF Request
    <2>3. Goes(t, z)
        BY <1>5
    <2> HIDE DEF z
    <2>4. Refers(z) /\ KnownFor(z)
        BY <1>2, <2>2 DEF Refers, KnownFor, Shifting, Purging
    <2> QED BY <1>1, <1>2, <1>5, <2>1, <2>2, <2>3, <2>4, Moves
<1> QED BY <1>1, <1>3, <1>4, <1>5 DEF FindAnyCode

LEMMA PutCodeStep ==
    ASSUME IInv, NEW t \in Txns, PutCode(t)
    PROVE  IInv'
<1>1. PICK r \in Request : r = req[t]
    BY Mine
<1>2. /\ Active(t) /\ r.inq \in Inqs /\ Code(r.inq) \in Codes
    BY <1>1, Mine DEF PutCode, Active, Refers, Codes
<1>3. PICK v \in CodeRow : v = [life |-> "live"]
    BY DEF CodeRow, Life
<1>4. PICK z \in Request : /\ z = [r EXCEPT !.pc = "commit"] /\ z.pc = "commit"
                          /\ z.op = r.op /\ Refers(z) /\ KnownFor(z)
    BY LastStatement
<1>5. CASE Abort(t)
    BY <1>5, Ends
<1>6. CASE Write(t, Code(r.inq), v) /\ Goes(t, z)
    BY <1>1, <1>2, <1>4, <1>6, CodeWritable, Writes
<1> QED BY <1>1, <1>3, <1>4, <1>5, <1>6 DEF PutCode

LEMMA FindRowStep ==
    ASSUME IInv, NEW t \in Txns, FindRow(t)
    PROVE  IInv'
<1>1. PICK r \in Request : r = req[t]
    BY Mine
<1>2. /\ Stored /\ Refers(r) /\ Active(t) /\ r.pc = "findRow"
      /\ \/ (r.op \in LineTrashOps /\ r.row \in Items)
         \/ (r.op = "restoreHeader" /\ r.row \in Inqs \cup Codes)
    BY <1>1, Mine DEF FindRow, Active, Refers, LineTrashOps
<1>3. CASE Abort(t)
    BY <1>3, Ends
<1>4. PICK pc \in {"purgeQuotes", "restoreRow", "commit"} :
        pc = IF r.op = "purgeLine" THEN "purgeQuotes"
             ELSE IF Read(t, r.row).life = "trash" THEN "restoreRow" ELSE "commit"
    OBVIOUS
<1>5. CASE /\ Exists(Read(t, r.row))
           /\ Goes(t, [r EXCEPT !.pc = pc])
           /\ UNCHANGED storeVars
    <2>1. pc \in Pcs
        BY DEF Pcs
    <2>2. PICK z \in Request : /\ z = [r EXCEPT !.pc = pc] /\ z.pc = pc /\ z.op = r.op
                              /\ z.row = r.row /\ z.inq = r.inq /\ z.to = r.to
        BY <2>1, NextStatement
    <2>3. r.row \in Items => Known(r.row)
        BY <1>1, <1>2, <1>5, ReadKnown, TablesAreDisjoint DEF Adders, Exists, LineTrashOps
    <2>4. Refers(z)
        BY <1>2, <1>4, <2>2 DEF Refers, Shifting, Purging, LineTrashOps
    <2>5. KnownFor(z)
        BY <1>2, <1>4, <2>2, <2>3 DEF KnownFor, Shifting, Purging, LineTrashOps
    <2>6. Goes(t, z)
        BY <1>5, <2>2
    <2>7. z.pc # "idle" /\ z.op = req[t].op
        BY <1>1, <2>2
    <2> QED BY <1>2, <1>5, <2>4, <2>5, <2>6, <2>7, Moves
<1> QED BY <1>1, <1>3, <1>4, <1>5 DEF FindRow

(* Only the place of a line in the trash changes, by a request that may.   *)
LEMMA LifeWritable ==
    ASSUME Stored, NEW t \in Txns, req[t].op \in LineTrashOps, NEW i \in Items, Known(i),
           Lockable(t, i), NEW life \in LineLife \ {"absent"},
           life = "purged" \/ working[i].life # "purged"
    PROVE  \E v \in ItemRow : /\ v = [working[i] EXCEPT !.life = life]
                             /\ i \in Rows /\ Writable(t, i, v)
<1>1. i \in Rows /\ req[t].op \notin Adders
    BY DEF Rows, Adders, LineTrashOps
<1>2. PICK now \in ItemRow : now = working[i]
    BY DEF Stored, StoreOK
<1>3. now.life # "absent" /\ now.inq \in Inqs
    BY <1>2 DEF Stored, StoreOK, Kept, Known
<1>4. PICK v \in ItemRow : v = [now EXCEPT !.life = life]
    <2>1. [now EXCEPT !.life = life] \in ItemRow
        BY DEF ItemRow
    <2> QED BY <2>1
<1>5. /\ v.life = life /\ v.inq = now.inq /\ v.status = now.status
      /\ v.at = now.at /\ v.qty = now.qty /\ v.posted = now.posted
    BY <1>4 DEF ItemRow
<1>6. MayChange(req[t].op, now, v)
    BY <1>2, <1>5 DEF MayChange, QuoteSync, LineTrashOps
<1>7. MayChange(req[t].op, committed[i], v)
    <2>1. owner[i] \in {Free, t}
        BY DEF Lockable
    <2>2. CASE owner[i] = Free
        BY <1>1, <1>2, <1>6, <2>2 DEF Stored, UnlockedIsCommitted
    <2>3. CASE owner[i] = t
        <3>1. MayChange(req[t].op, committed[i], now)
            BY <1>2, <2>3 DEF Stored, Rights
        <3> QED BY <1>1, <1>6, <3>1, MayChangeTwice
    <2> QED BY <2>1, <2>2, <2>3
<1>8. Writable(t, i, v)
    BY <1>1, <1>3, <1>5, <1>7, TablesAreDisjoint DEF Writable
<1> QED BY <1>1, <1>2, <1>4, <1>8

LEMMA RestoreRowStep ==
    ASSUME IInv, NEW t \in Txns, RestoreRow(t)
    PROVE  IInv'
<1>1. PICK r \in Request : r = req[t]
    BY Mine
<1>2. /\ Stored /\ KnownFor(r) /\ Active(t) /\ r.pc = "restoreRow"
      /\ \/ (r.op = "restoreLine" /\ r.row \in Items)
         \/ (r.op = "restoreHeader" /\ r.row \in Inqs \cup Codes)
    BY <1>1, Mine DEF RestoreRow, Active, Refers
<1>3. PICK z \in Request : /\ z = [r EXCEPT !.pc = "commit"] /\ z.pc = "commit"
                          /\ z.op = r.op /\ Refers(z) /\ KnownFor(z)
    BY LastStatement
<1>8. CASE Abort(t)
    BY <1>8, Ends
<1>4. SUFFICES ASSUME working[r.row].life # "purged",
                      Write(t, r.row, [working[r.row] EXCEPT !.life = "live"]),
                      Goes(t, z)
               PROVE  IInv'
    BY <1>1, <1>3, <1>8 DEF RestoreRow
<1>5. CASE r.row \in Items
    <2>1. /\ req[t].op \in LineTrashOps /\ Known(r.row) /\ Lockable(t, r.row)
          /\ "live" \in LineLife \ {"absent"}
        BY <1>1, <1>2, <1>4, <1>5, TablesAreDisjoint DEF KnownFor, LineTrashOps, Write, LineLife, Life
    <2>2. PICK v \in ItemRow : /\ v = [working[r.row] EXCEPT !.life = "live"]
                              /\ r.row \in Rows /\ Writable(t, r.row, v)
        BY <1>2, <1>4, <1>5, <2>1, LifeWritable
    <2> QED BY <1>1, <1>2, <1>3, <1>4, <2>2, Writes
<1>6. CASE r.row \in Inqs
    <2>1. PICK now \in InqRow : now = working[r.row]
        BY <1>2, <1>6 DEF Stored, StoreOK
    <2>2. PICK v \in InqRow : v = [now EXCEPT !.life = "live"]
        <3>1. [now EXCEPT !.life = "live"] \in InqRow
            BY DEF InqRow, Life
        <3> QED BY <3>1
    <2>3. Write(t, r.row, v) /\ r.row \in Rows /\ Writable(t, r.row, v)
        BY <1>4, <1>6, <2>1, <2>2, InqWritable
    <2> QED BY <1>1, <1>2, <1>3, <1>4, <2>3, Writes
<1>7. CASE r.row \in Codes
    <2>1. PICK now \in CodeRow : now = working[r.row]
        BY <1>2, <1>7 DEF Stored, StoreOK
    <2>2. PICK v \in CodeRow : v = [now EXCEPT !.life = "live"]
        <3>1. [now EXCEPT !.life = "live"] \in CodeRow
            BY DEF CodeRow, Life
        <3> QED BY <3>1
    <2>3. Write(t, r.row, v) /\ r.row \in Rows /\ Writable(t, r.row, v)
        BY <1>4, <1>7, <2>1, <2>2, CodeWritable
    <2> QED BY <1>1, <1>2, <1>3, <1>4, <2>3, Writes
<1> QED BY <1>2, <1>5, <1>6, <1>7

(* A statement of a permanent deletion is followed by another one. *)
LEMMA PurgeGoesOn ==
    ASSUME NEW r \in Request, r.op = "purgeLine", r.row \in Items, Known(r.row),
           NEW pc \in Purging \cup {"commit"}
    PROVE  \E z \in Request : /\ z = [r EXCEPT !.pc = pc] /\ z.pc = pc
                             /\ z.op = r.op /\ Refers(z) /\ KnownFor(z)
<1>1. pc \in Pcs
    BY DEF Pcs, Purging
<1>2. PICK z \in Request : /\ z = [r EXCEPT !.pc = pc] /\ z.pc = pc
                          /\ z.op = r.op /\ z.row = r.row
    BY <1>1, NextStatement
<1>3. Refers(z)
    BY <1>2 DEF Refers, Shifting, Purging
<1>4. KnownFor(z)
    BY <1>2 DEF KnownFor, Shifting, Purging
<1> QED BY <1>2, <1>3, <1>4

LEMMA PurgeQuoteStep ==
    ASSUME IInv, NEW t \in Txns, PurgeQuote(t)
    PROVE  IInv'
<1>1. PICK r \in Request : r = req[t]
    BY Mine
<1>2. /\ Stored /\ Refers(r) /\ KnownFor(r) /\ Active(t) /\ r.pc \in {"purgeQuotes", "cascade"}
      /\ r.op = "purgeLine" /\ r.row \in Items /\ Known(r.row)
    BY <1>1, Mine DEF PurgeQuote, Active, Refers, KnownFor, Purging
<1>3. ASSUME NEW k \in Dependent(t, r), Goes(t, r),
             Write(t, k, [working[k] EXCEPT !.life = "purged"])
      PROVE  IInv'
    <2>1. k \in Quotes /\ Known(k)
        BY <1>1, <1>2, <1>3, QuoteReadKnown DEF Dependent
    <2>2. PICK now \in QuoteRow : now = working[k]
        BY <1>2, <2>1 DEF Stored, StoreOK
    <2>3. now.item \in Items
        BY <1>2, <2>1, <2>2 DEF Stored, StoreOK, Kept, Known
    <2>4. PICK v \in QuoteRow : v = [now EXCEPT !.life = "purged"]
        <3>1. [now EXCEPT !.life = "purged"] \in QuoteRow
            BY DEF QuoteRow, LineLife
        <3> QED BY <3>1
    <2>5. v.item = now.item /\ v.life = "purged"
        BY <2>4 DEF QuoteRow
    <2>6. k \in Rows /\ Writable(t, k, v)
        BY <2>1, <2>3, <2>5, QuoteWritable
    <2> QED BY <1>1, <1>2, <1>3, <2>2, <2>4, <2>6, Writes
<1>4. CASE /\ Goes(t, [r EXCEPT !.pc = IF @ = "cascade" THEN "commit" ELSE "purgeItem"])
           /\ UNCHANGED storeVars
    <2>1. PICK pc \in Purging \cup {"commit"} :
            pc = IF r.pc = "cascade" THEN "commit" ELSE "purgeItem"
        BY DEF Purging
    <2>2. PICK z \in Request : /\ z = [r EXCEPT !.pc = pc] /\ z.pc = pc
                              /\ z.op = r.op /\ Refers(z) /\ KnownFor(z)
        BY <1>2, <2>1, PurgeGoesOn
    <2>3. Goes(t, z) /\ z.pc # "idle"
        BY <1>4, <2>1, <2>2 DEF Purging
    <2> QED BY <1>1, <1>2, <1>4, <2>2, <2>3, Moves
<1> QED BY <1>1, <1>3, <1>4 DEF PurgeQuote

LEMMA PurgeItemStep ==
    ASSUME IInv, NEW t \in Txns, PurgeItem(t)
    PROVE  IInv'
<1>1. PICK r \in Request : r = req[t]
    BY Mine
<1>2. /\ Stored /\ Active(t) /\ r.pc = "purgeItem"
      /\ r.op = "purgeLine" /\ r.row \in Items /\ Known(r.row)
    BY <1>1, Mine DEF PurgeItem, Active, Refers, KnownFor, Purging
<1>3. PICK z \in Request : /\ z = [r EXCEPT !.pc = "cascade"] /\ z.pc = "cascade"
                          /\ z.op = r.op /\ Refers(z) /\ KnownFor(z)
    <2>1. "cascade" \in Purging \cup {"commit"}
        BY DEF Purging
    <2> QED BY <1>2, <2>1, PurgeGoesOn
<1>4. /\ Write(t, r.row, [working[r.row] EXCEPT !.life = "purged"])
      /\ Goes(t, z)
    BY <1>1, <1>3 DEF PurgeItem
<1>5. /\ req[t].op \in LineTrashOps /\ Lockable(t, r.row)
      /\ "purged" \in LineLife \ {"absent"}
    BY <1>1, <1>2, <1>4 DEF LineTrashOps, Write, LineLife
<1>6. PICK v \in ItemRow : /\ v = [working[r.row] EXCEPT !.life = "purged"]
                          /\ r.row \in Rows /\ Writable(t, r.row, v)
    BY <1>2, <1>5, LifeWritable
<1> QED BY <1>1, <1>2, <1>3, <1>4, <1>6, Writes

(* Every statement of a request. *)
LEMMA StepPreserves ==
    ASSUME IInv, NEW t \in Txns, Step(t)
    PROVE  IInv'
BY FindItemStep, WriteItemStep, FindInquiryStep, FindCodeStep, FindConsignmentStep,
   ReviveConsignmentStep, CreateConsignmentStep, InsertItemStep, LoadHeaderStep,
   AggregateStep, StoreHeaderStep, FindQuoteStep, WriteQuoteStep, CountApprovedStep,
   CountQuotesStep, InsertQuoteStep, TrashInquiryStep, FindOwnCodeStep, TrashCodeStep,
   FindAnyCodeStep, PutCodeStep, FindRowStep, RestoreRowStep, PurgeQuoteStep, PurgeItemStep,
   Commits DEF Step

-----------------------------------------------------------------------------
(***************************************************************************)
(* Arrivals: a request begins where its route does.                        *)
(***************************************************************************)

(* A request that has executed no statement yet. *)
Arrived(r) ==
    /\ r.todo = {} /\ r.seenInq = Blank.seenInq
    /\ r.pc = "findCode" => r.op = "add"
    /\ r.pc = "findInquiry" => r.op \in {"import", "deleteConsignment"}
    /\ r.pc = "findItem" => r.op \in Scoped \cup {"tally", "quote"}
    /\ r.pc = "findRow" => r.op \in LineTrashOps \cup {"restoreHeader"}
    /\ r.pc = "findAnyCode" => r.op = "newCode"
    /\ r.op = "shift" => r.pc = "findItem" /\ Tail(r.items) = <<>>
    /\ r.pc \in {"findCode", "findInquiry", "findItem", "findQuote", "findRow", "findAnyCode"}

(* Something new for t arrives, and it refers to what is there. *)
Comes(t) ==
    \E r \in Request : Begin(t, r) /\ Refers(r) /\ KnownFor(r) /\ Arrived(r)

(* Whether a request is alone matters to nothing it refers to. *)
LEMMA Accompanied ==
    ASSUME NEW r \in Request, NEW b \in BOOLEAN, Refers(r), KnownFor(r)
    PROVE  LET z == [r EXCEPT !.alone = b] IN
           /\ z \in Request /\ z.alone = b /\ z.pc = r.pc /\ z.op = r.op /\ Refers(z) /\ KnownFor(z)
           /\ Arrived(r) => Arrived(z)
<1> DEFINE z == [r EXCEPT !.alone = b]
<1>1. z \in Request /\ z.alone = b
    BY DEF Request
<1>2. /\ z.pc = r.pc /\ z.op = r.op /\ z.items = r.items /\ z.left = r.left
      /\ z.inq = r.inq /\ z.to = r.to /\ z.quote = r.quote /\ z.row = r.row
      /\ z.status = r.status /\ z.seen = r.seen /\ z.seenQuote = r.seenQuote
      /\ z.header = r.header /\ z.todo = r.todo /\ z.seenInq = r.seenInq
    BY DEF Request
<1> HIDE DEF z
<1>3. Refers(z)
    BY <1>2 DEF Refers
<1>4. KnownFor(z)
    BY <1>2 DEF KnownFor
<1>5. Arrived(r) => Arrived(z)
    BY <1>2 DEF Arrived
<1> QED BY <1>1, <1>2, <1>3, <1>4, <1>5 DEF z

(* A transaction that serves no request holds no lock, so beginning one    *)
(* keeps Rights whatever its operation.                                    *)
LEMMA Begins ==
    ASSUME IInv, NEW t \in Txns, NEW r \in Request, Begin(t, r),
           Refers(r), KnownFor(r), r.pc # "idle"
    PROVE  IInv'
<1>1. Stored /\ Asking /\ ~Active(t) /\ UNCHANGED storeVars
    BY Split DEF Begin
<1> DEFINE z == [r EXCEPT !.alone = \A v \in Txns : ~Active(v)]
           waits(u) == [req[u] EXCEPT !.alone = FALSE]
<1>2. req' = [u \in Txns |-> IF u = t THEN z ELSE waits(u)]
    BY DEF Begin
<1>3. z \in Request /\ z.pc = r.pc /\ z.op = r.op /\ Refers(z) /\ KnownFor(z)
    BY Accompanied
<1>5. ASSUME NEW u \in Txns
      PROVE  /\ waits(u) \in Request /\ waits(u).pc = req[u].pc /\ waits(u).op = req[u].op
             /\ Refers(waits(u)) /\ KnownFor(waits(u))
    BY <1>1, Accompanied DEF Asking
<1> HIDE DEF z, waits
<1>6. Asking'
    <2>1. req' \in [Txns -> Request] /\ \A u \in Txns : Refers(req'[u])
        BY <1>2, <1>3, <1>5
    <2>2. \A u \in Txns : KnownFor(req[u])'
        BY <1>1, <1>2, <1>3, <1>5 DEF KnownFor, Known, storeVars
    <2> QED BY <2>1, <2>2 DEF Asking
<1>7. Rights'
    <2>1. \A u \in Txns \ {t} : req'[u].pc = req[u].pc /\ req'[u].op = req[u].op
        BY <1>2, <1>5
    <2>2. req'[t].pc # "idle"
        BY <1>2, <1>3
    <2>3. \A x \in Rows : owner[x] # t
        BY <1>1 DEF Stored, Rights
    <2> QED BY <1>1, <2>1, <2>2, <2>3 DEF Stored, Rights, Active, Known, storeVars, Rows
<1>8. Stored'
    BY <1>1, <1>7 DEF Stored, StoreOK, UnlockedIsCommitted, Kept, storeVars
<1> QED BY <1>6, <1>8 DEF IInv, TypeOK, Stored, Asking

LEMMA AddBegins ==
    ASSUME IInv, NEW t \in Txns, Add(t)
    PROVE  Comes(t)
<1>1. PICK c \in Inqs, n \in 0..Batch, status \in ItemStatus, q \in Qtys :
        Begin(t, [Blank EXCEPT !.pc = "findCode", !.op = "add", !.left = n,
                               !.to = c, !.status = status, !.qty = q])
    BY DEF Add, Known
<1>6. n \in Nat
    BY BatchIsNumber
<1> DEFINE z == [Blank EXCEPT !.pc = "findCode", !.op = "add", !.left = n,
                              !.to = c, !.status = status, !.qty = q]
<1>2. z \in Request
    BY <1>6, BlankType DEF Request, Pcs, AllOps, RefreshOps
<1>3. /\ z.pc = "findCode" /\ z.op = "add" /\ z.to = c /\ z.status = status
      /\ z.todo = {} /\ z.seenInq = Blank.seenInq
    BY BlankType DEF Request, Blank
<1>4. Begin(t, z)
    BY <1>1
<1> HIDE DEF z
<1>5. Refers(z) /\ KnownFor(z)
    BY <1>3 DEF Refers, KnownFor, Shifting, Purging, Adders
<1>9. Arrived(z)
    BY <1>3 DEF Arrived, Scoped
<1> QED BY <1>2, <1>3, <1>4, <1>5, <1>9 DEF Comes

LEMMA ImportBegins ==
    ASSUME IInv, NEW t \in Txns, Import(t)
    PROVE  Comes(t)
<1>1. PICK c \in Inqs, n \in 1..Batch, status \in ItemStatus, q \in Qtys :
        Begin(t, [Blank EXCEPT !.pc = "findInquiry", !.op = "import", !.left = n,
                               !.inq = c, !.to = c, !.status = status, !.qty = q])
    BY DEF Import, Known
<1>6. n \in Nat
    BY BatchIsNumber
<1> DEFINE z == [Blank EXCEPT !.pc = "findInquiry", !.op = "import", !.left = n,
                              !.inq = c, !.to = c, !.status = status, !.qty = q]
<1>2. z \in Request
    BY <1>6, BlankType DEF Request, Pcs, AllOps, RefreshOps
<1>3. /\ z.pc = "findInquiry" /\ z.op = "import" /\ z.inq = c /\ z.to = c /\ z.status = status
      /\ z.todo = {} /\ z.seenInq = Blank.seenInq
    BY BlankType DEF Request, Blank
<1>4. Begin(t, z)
    BY <1>1
<1> HIDE DEF z
<1>5. Refers(z) /\ KnownFor(z)
    BY <1>3 DEF Refers, KnownFor, Shifting, Purging, Adders
<1>9. Arrived(z)
    BY <1>3 DEF Arrived, Scoped
<1> QED BY <1>2, <1>3, <1>4, <1>5, <1>9 DEF Comes

LEMMA OnItemBegins ==
    ASSUME IInv, NEW t \in Txns, NEW op \in Scoped, NEW c \in Inqs \cup {None},
           NEW q \in Qtys \cup {0}, op = "shift" => c \in Inqs, OnItem(t, op, c, q)
    PROVE  Comes(t)
<1>1. PICK i \in Items :
        /\ Known(i)
        /\ Begin(t, [Blank EXCEPT !.pc = "findItem", !.op = op, !.items = <<i>>,
                                  !.inq = committed[i].inq, !.to = c, !.qty = q])
    BY DEF OnItem
<1>2. PICK d \in Inqs : d = committed[i].inq
    BY <1>1, Mine DEF Stored, StoreOK, Known
<1>3. PICK items \in Seq(Items) : items = <<i>> /\ items # <<>> /\ Tail(items) = <<>>
    <2>1. <<i>> \in Seq(Items) /\ <<i>> # <<>> /\ Tail(<<i>>) = <<>>
        OBVIOUS
    <2> QED BY <2>1
<1> DEFINE z == [Blank EXCEPT !.pc = "findItem", !.op = op, !.items = items,
                              !.inq = d, !.to = c, !.qty = q]
<1>4. op \in AllOps /\ op \notin Adders /\ op \notin QuoteSync
    BY DEF Scoped, AllOps, RefreshOps, Adders, QuoteSync
<1>5. z \in Request
    BY <1>4, BlankType DEF Request, Pcs
<1>6. /\ z.pc = "findItem" /\ z.op = op /\ z.items = items
      /\ z.inq = d /\ z.to = c
      /\ z.todo = {} /\ z.seenInq = Blank.seenInq
    BY BlankType DEF Request, Blank
<1>7. Begin(t, z)
    BY <1>1, <1>2, <1>3
<1> HIDE DEF z
<1>8. Refers(z) /\ KnownFor(z)
    BY <1>3, <1>4, <1>6 DEF Refers, KnownFor, Shifting, Purging
<1>9. Arrived(z)
    BY <1>3, <1>4, <1>6 DEF Arrived, Scoped
<1> QED BY <1>5, <1>6, <1>7, <1>8, <1>9 DEF Comes

LEMMA TallyBegins ==
    ASSUME IInv, NEW t \in Txns, Tally(t)
    PROVE  Comes(t)
<1>1. PICK n \in 1..Batch : \E lines \in [1..n -> {i \in Items : Known(i)}] :
        Begin(t, [Blank EXCEPT !.pc = "findItem", !.op = "tally", !.items = lines])
    BY DEF Tally
<1>7. PICK lines \in [1..n -> {i \in Items : Known(i)}] :
        Begin(t, [Blank EXCEPT !.pc = "findItem", !.op = "tally", !.items = lines])
    BY <1>1
<1>2. PICK items \in Seq(Items) : items = lines /\ items # <<>>
    <2>1. n \in Nat /\ n > 0
        BY BatchIsNumber
    <2>2. lines \in [1..n -> Items]
        OBVIOUS
    <2>3. lines \in Seq(Items) /\ Len(lines) = n
        BY <2>1, <2>2
    <2>4. lines # <<>>
        BY <2>1, <2>3
    <2> QED BY <2>3, <2>4
<1> DEFINE z == [Blank EXCEPT !.pc = "findItem", !.op = "tally", !.items = items]
<1>3. z \in Request
    BY BlankType DEF Request, Pcs, AllOps, RefreshOps
<1>4. /\ z.pc = "findItem" /\ z.op = "tally" /\ z.items = items
      /\ z.todo = {} /\ z.seenInq = Blank.seenInq
    BY BlankType DEF Request, Blank
<1>5. Begin(t, z)
    BY <1>2, <1>7
<1> HIDE DEF z
<1>6. Refers(z) /\ KnownFor(z)
    BY <1>2, <1>4 DEF Refers, KnownFor, Shifting, Purging, Adders, QuoteSync
<1>9. Arrived(z)
    BY <1>2, <1>4 DEF Arrived, Scoped
<1> QED BY <1>3, <1>4, <1>5, <1>6, <1>9 DEF Comes

LEMMA DeleteConsignmentBegins ==
    ASSUME IInv, NEW t \in Txns, DeleteConsignment(t)
    PROVE  Comes(t)
<1>1. PICK c \in Inqs :
        Begin(t, [Blank EXCEPT !.pc = "findInquiry", !.op = "deleteConsignment", !.inq = c])
    BY DEF DeleteConsignment
<1> DEFINE z == [Blank EXCEPT !.pc = "findInquiry", !.op = "deleteConsignment", !.inq = c]
<1>2. z \in Request
    BY BlankType DEF Request, Pcs, AllOps
<1>3. /\ z.pc = "findInquiry" /\ z.op = "deleteConsignment" /\ z.inq = c
      /\ z.todo = {} /\ z.seenInq = Blank.seenInq
    BY BlankType DEF Request, Blank
<1>4. Begin(t, z)
    BY <1>1
<1> HIDE DEF z
<1>5. Refers(z) /\ KnownFor(z)
    BY <1>3 DEF Refers, KnownFor, Shifting, Purging, Adders
<1>9. Arrived(z)
    BY <1>3 DEF Arrived, Scoped
<1> QED BY <1>2, <1>3, <1>4, <1>5, <1>9 DEF Comes

LEMMA NewCodeBegins ==
    ASSUME IInv, NEW t \in Txns, NewCode(t)
    PROVE  Comes(t)
<1>1. PICK c \in Inqs :
        Begin(t, [Blank EXCEPT !.pc = "findAnyCode", !.op = "newCode", !.inq = c])
    BY DEF NewCode
<1> DEFINE z == [Blank EXCEPT !.pc = "findAnyCode", !.op = "newCode", !.inq = c]
<1>2. z \in Request
    BY BlankType DEF Request, Pcs, AllOps
<1>3. /\ z.pc = "findAnyCode" /\ z.op = "newCode" /\ z.inq = c
      /\ z.todo = {} /\ z.seenInq = Blank.seenInq
    BY BlankType DEF Request, Blank
<1>4. Begin(t, z)
    BY <1>1
<1> HIDE DEF z
<1>5. Refers(z) /\ KnownFor(z)
    BY <1>3 DEF Refers, KnownFor, Shifting, Purging, Adders
<1>9. Arrived(z)
    BY <1>3 DEF Arrived, Scoped
<1> QED BY <1>2, <1>3, <1>4, <1>5, <1>9 DEF Comes

LEMMA QuoteBegins ==
    ASSUME IInv, NEW t \in Txns, Quote(t)
    PROVE  Comes(t)
<1>1. PICK i \in Items :
        Begin(t, [Blank EXCEPT !.pc = "findItem", !.op = "quote", !.items = <<i>>])
    BY DEF Quote
<1>2. PICK items \in Seq(Items) : items = <<i>> /\ items # <<>>
    <2>1. <<i>> \in Seq(Items) /\ <<i>> # <<>>
        OBVIOUS
    <2> QED BY <2>1
<1> DEFINE z == [Blank EXCEPT !.pc = "findItem", !.op = "quote", !.items = items]
<1>3. z \in Request
    BY BlankType DEF Request, Pcs, AllOps
<1>4. /\ z.pc = "findItem" /\ z.op = "quote" /\ z.items = items
      /\ z.todo = {} /\ z.seenInq = Blank.seenInq
    BY BlankType DEF Request, Blank
<1>5. Begin(t, z)
    BY <1>1, <1>2
<1> HIDE DEF z
<1>6. Refers(z) /\ KnownFor(z)
    BY <1>2, <1>4 DEF Refers, KnownFor, Shifting, Purging, Adders, QuoteSync
<1>9. Arrived(z)
    BY <1>2, <1>4 DEF Arrived, Scoped
<1> QED BY <1>3, <1>4, <1>5, <1>6, <1>9 DEF Comes

LEMMA DecideBegins ==
    ASSUME IInv, NEW t \in Txns, Decide(t)
    PROVE  Comes(t)
<1>1. PICK k \in Quotes, status \in QuoteStatus :
        Begin(t, [Blank EXCEPT !.pc = "findQuote", !.op = "decide", !.quote = k,
                               !.status = status])
    BY DecisionsAreStatuses DEF Decide
<1> DEFINE z == [Blank EXCEPT !.pc = "findQuote", !.op = "decide", !.quote = k,
                              !.status = status]
<1>2. z \in Request
    BY BlankType DEF Request, Pcs, AllOps, RefreshOps, QuoteSync
<1>3. /\ z.pc = "findQuote" /\ z.op = "decide" /\ z.quote = k /\ z.status = status
      /\ z.todo = {} /\ z.seenInq = Blank.seenInq
    BY BlankType DEF Request, Blank
<1>4. Begin(t, z)
    BY <1>1
<1> HIDE DEF z
<1>5. Refers(z) /\ KnownFor(z)
    BY <1>3 DEF Refers, KnownFor, Shifting, Purging, Adders, QuoteSync
<1>9. Arrived(z)
    BY <1>3 DEF Arrived, Scoped
<1> QED BY <1>2, <1>3, <1>4, <1>5, <1>9 DEF Comes

LEMMA UnquoteBegins ==
    ASSUME IInv, NEW t \in Txns, Unquote(t)
    PROVE  Comes(t)
<1>1. PICK k \in Quotes :
        Begin(t, [Blank EXCEPT !.pc = "findQuote", !.op = "unquote", !.quote = k])
    BY DEF Unquote
<1> DEFINE z == [Blank EXCEPT !.pc = "findQuote", !.op = "unquote", !.quote = k]
<1>2. z \in Request
    BY BlankType DEF Request, Pcs, AllOps, RefreshOps, QuoteSync
<1>3. /\ z.pc = "findQuote" /\ z.op = "unquote" /\ z.quote = k
      /\ z.todo = {} /\ z.seenInq = Blank.seenInq
    BY BlankType DEF Request, Blank
<1>4. Begin(t, z)
    BY <1>1
<1> HIDE DEF z
<1>5. Refers(z) /\ KnownFor(z)
    BY <1>3 DEF Refers, KnownFor, Shifting, Purging, Adders, QuoteSync
<1>9. Arrived(z)
    BY <1>3 DEF Arrived, Scoped
<1> QED BY <1>2, <1>3, <1>4, <1>5, <1>9 DEF Comes

LEMMA TrashBegins ==
    ASSUME IInv, NEW t \in Txns, RestoreLine(t) \/ RestoreHeader(t) \/ PurgeLine(t)
    PROVE  Comes(t)
<1>1. PICK x \in Rows, op \in {"restoreLine", "restoreHeader", "purgeLine"} :
        /\ op \in {"restoreLine", "purgeLine"} => x \in Items
        /\ op = "restoreHeader" => x \in Inqs \cup Codes
        /\ Begin(t, [Blank EXCEPT !.pc = "findRow", !.op = op, !.row = x])
    BY DEF RestoreLine, RestoreHeader, PurgeLine, Rows
<1> DEFINE z == [Blank EXCEPT !.pc = "findRow", !.op = op, !.row = x]
<1>2. z \in Request
    BY BlankType DEF Request, Pcs, AllOps, LineTrashOps
<1>3. /\ z.pc = "findRow" /\ z.op = op /\ z.row = x
      /\ z.todo = {} /\ z.seenInq = Blank.seenInq
    BY BlankType DEF Request, Blank
<1>4. Begin(t, z)
    BY <1>1
<1> HIDE DEF z
<1>5. Refers(z) /\ KnownFor(z)
    BY <1>1, <1>3 DEF Refers, KnownFor, Shifting, Purging, Adders, QuoteSync
<1>9. Arrived(z)
    BY <1>1, <1>3 DEF Arrived, Scoped, LineTrashOps
<1> QED BY <1>2, <1>3, <1>4, <1>5, <1>9 DEF Comes

LEMMA ArriveComes ==
    ASSUME IInv, NEW t \in Txns, Arrive(t)
    PROVE  Comes(t)
<1>1. CASE Edit(t) \/ Shift(t) \/ Approve(t) \/ Revert(t) \/ Delete(t)
    BY <1>1, OnItemBegins DEF Edit, Shift, Approve, Revert, Delete, Scoped
<1> QED BY <1>1, AddBegins, ImportBegins, TallyBegins, DeleteConsignmentBegins,
           NewCodeBegins, QuoteBegins, DecideBegins, UnquoteBegins, TrashBegins DEF Arrive

LEMMA ArrivePreserves ==
    ASSUME IInv, NEW t \in Txns, Arrive(t)
    PROVE  IInv'
<1>1. PICK r \in Request : Begin(t, r) /\ Refers(r) /\ KnownFor(r) /\ r.pc # "idle"
    BY ArriveComes DEF Comes, Arrived
<1> QED BY <1>1, Begins

-----------------------------------------------------------------------------
(***************************************************************************)
(* The theorems.                                                           *)
(***************************************************************************)
LEMMA InitiallyInvariant == Init => IInv
<1> SUFFICES ASSUME Init PROVE IInv
    OBVIOUS
<1>1. PICK lines \in [Items -> InitialItems], coded \in SUBSET Inqs :
        \E open \in SUBSET coded :
            committed = [r \in Rows |-> InitialRow(lines, open, coded, r)]
    BY DEF Init
<1>2. PICK open \in SUBSET coded :
        committed = [r \in Rows |-> InitialRow(lines, open, coded, r)]
    BY <1>1
<1>3. /\ working = committed
      /\ owner = [r \in Rows |-> Free]
      /\ req = [t \in Txns |-> Blank]
    BY DEF Init
<1>4. \A x \in InitialItems : x \in ItemRow /\ (x.life # "absent" => x.inq \in Inqs)
    <2>1. ASSUME NEW c \in Inqs, NEW q \in Qtys
          PROVE  /\ NewItem(c, "proposed", q) \in ItemRow
                 /\ NewItem(c, "proposed", q).inq \in Inqs
        BY DEF NewItem, ItemRow, LineLife, Life, ItemStatus
    <2>2. NoItem \in ItemRow /\ NoItem.life = "absent"
        BY BlankType DEF NoItem
    <2> QED BY <2>1, <2>2 DEF InitialItems
<1>5. StoreOK(committed)
    <2>1. DOMAIN committed = Rows
        BY <1>2
    <2>2. \A i \in Items : committed[i] = lines[i]
        BY <1>2 DEF Rows, InitialRow
    <2>3. ASSUME NEW c \in Inqs PROVE committed[c] \in InqRow
        <3>1. committed[c] = IF c \in open
                             THEN [life |-> "live", status |-> Rollup(lines, c).status,
                                   total |-> Rollup(lines, c).total]
                             ELSE NoInq
            BY <1>2, TablesAreDisjoint DEF Rows, InitialRow
        <3>2. Rollup(lines, c) \in [status : HeaderStatus, total : Totals]
            BY <1>4, RollupType
        <3>3. PICK roll \in [status : HeaderStatus, total : Totals] : roll = Rollup(lines, c)
            BY <3>2
        <3>4. [life |-> "live", status |-> roll.status, total |-> roll.total] \in InqRow
            BY DEF InqRow, Life
        <3> QED BY <3>1, <3>3, <3>4, BlankType
    <2>4. ASSUME NEW k \in Quotes PROVE committed[k] = NoQuote
        BY <1>2, TablesAreDisjoint DEF Rows, InitialRow
    <2>5. ASSUME NEW c \in Codes PROVE committed[c] \in CodeRow
        BY <1>2, TablesAreDisjoint DEF Rows, InitialRow, CodeRow, Life
    <2>6. NoQuote \in QuoteRow /\ NoQuote.life = "absent"
        BY BlankType DEF NoQuote
    <2> QED BY <1>4, <2>1, <2>2, <2>3, <2>4, <2>5, <2>6 DEF StoreOK
<1>6. Asking
    <2>1. Blank \in Request /\ Refers(Blank) /\ KnownFor(Blank)
        BY BlankType, NothingToRefer
    <2> QED BY <1>3, <2>1 DEF Asking
<1>7. owner \in [Rows -> Txns \cup {Free}] /\ UnlockedIsCommitted /\ Kept
    BY <1>3 DEF UnlockedIsCommitted, Kept
<1>8. Rights
    BY <1>3, FreeIsNoTxn DEF Rights, Rows
<1>9. Stored
    BY <1>3, <1>5, <1>7, <1>8 DEF Stored
<1> QED BY <1>6, <1>9, Split

LEMMA NextPreserves == IInv /\ [Next]_vars => IInv'
<1> SUFFICES ASSUME IInv, [Next]_vars PROVE IInv'
    OBVIOUS
<1>1. CASE UNCHANGED vars
    BY <1>1 DEF vars, IInv, TypeOK, StoreOK, Refers, KnownFor, Known, UnlockedIsCommitted,
                Rights, Active, Kept
<1>2. CASE Next
    <2>1. PICK t \in Txns : Arrive(t) \/ Step(t) \/ DeadlockVictim(t) \/ Fail(t)
        BY <1>2 DEF Next
    <2>2. DeadlockVictim(t) \/ Fail(t) => Abort(t)
        BY DEF DeadlockVictim, Fail
    <2> QED BY <2>1, <2>2, ArrivePreserves, StepPreserves, Ends
<1> QED BY <1>1, <1>2

(* The strengthening is an invariant of the specification. *)
THEOREM Invariance == Spec => []IInv
BY InitiallyInvariant, NextPreserves, PTL DEF Spec

(* Every row keeps the columns of its table and every request in progress  *)
(* refers to rows of the right tables, whatever the requests do to each    *)
(* other.                                                                  *)
THEOREM TypeCorrect == Spec => []TypeOK
<1>1. IInv => TypeOK
    BY DEF IInv
<1> QED BY <1>1, Invariance, PTL

(* Only a commit changes what other transactions read. *)
LEMMA OnlyCommitsPublish ==
    ASSUME NEW t \in Txns, Step(t), ~Commit(t)
    PROVE  UNCHANGED committed
<1>1. FindItem(t) => UNCHANGED committed
    BY DEF FindItem, Write, Abort, RollbackTxn, storeVars
<1>2. WriteItem(t) => UNCHANGED committed
    BY DEF WriteItem, Write, Abort, RollbackTxn, storeVars
<1>3. FindInquiry(t) => UNCHANGED committed
    BY DEF FindInquiry, Write, Abort, RollbackTxn, storeVars
<1>4. FindCode(t) => UNCHANGED committed
    BY DEF FindCode, Write, Abort, RollbackTxn, storeVars
<1>5. FindConsignment(t) => UNCHANGED committed
    BY DEF FindConsignment, Write, Abort, RollbackTxn, storeVars
<1>6. ReviveConsignment(t) => UNCHANGED committed
    BY DEF ReviveConsignment, Write, Abort, RollbackTxn, storeVars
<1>7. CreateConsignment(t) => UNCHANGED committed
    BY DEF CreateConsignment, Write, Abort, RollbackTxn, storeVars
<1>8. InsertItem(t) => UNCHANGED committed
    BY DEF InsertItem, Write, Abort, RollbackTxn, storeVars
<1>9. LoadHeader(t) => UNCHANGED committed
    BY DEF LoadHeader, Write, Abort, RollbackTxn, storeVars
<1>10. Aggregate(t) => UNCHANGED committed
    BY DEF Aggregate, Write, Abort, RollbackTxn, storeVars
<1>11. StoreHeader(t) => UNCHANGED committed
    BY DEF StoreHeader, Write, Abort, RollbackTxn, storeVars
<1>12. FindQuote(t) => UNCHANGED committed
    BY DEF FindQuote, Write, Abort, RollbackTxn, storeVars
<1>13. WriteQuote(t) => UNCHANGED committed
    BY DEF WriteQuote, Write, Abort, RollbackTxn, storeVars
<1>14. CountApproved(t) => UNCHANGED committed
    BY DEF CountApproved, Write, Abort, RollbackTxn, storeVars
<1>15. CountQuotes(t) => UNCHANGED committed
    BY DEF CountQuotes, Write, Abort, RollbackTxn, storeVars
<1>16. InsertQuote(t) => UNCHANGED committed
    BY DEF InsertQuote, Write, Abort, RollbackTxn, storeVars
<1>17. TrashInquiry(t) => UNCHANGED committed
    BY DEF TrashInquiry, Write, Abort, RollbackTxn, storeVars
<1>18. FindOwnCode(t) => UNCHANGED committed
    BY DEF FindOwnCode, Write, Abort, RollbackTxn, storeVars
<1>19. TrashCode(t) => UNCHANGED committed
    BY DEF TrashCode, Write, Abort, RollbackTxn, storeVars
<1>20. FindAnyCode(t) => UNCHANGED committed
    BY DEF FindAnyCode, Write, Abort, RollbackTxn, storeVars
<1>21. PutCode(t) => UNCHANGED committed
    BY DEF PutCode, Write, Abort, RollbackTxn, storeVars
<1>22. FindRow(t) => UNCHANGED committed
    BY DEF FindRow, Write, Abort, RollbackTxn, storeVars
<1>23. RestoreRow(t) => UNCHANGED committed
    BY DEF RestoreRow, Write, Abort, RollbackTxn, storeVars
<1>24. PurgeQuote(t) => UNCHANGED committed
    BY DEF PurgeQuote, Write, storeVars
<1>25. PurgeItem(t) => UNCHANGED committed
    BY DEF PurgeItem, Write, storeVars
<1> QED BY <1>1, <1>2, <1>3, <1>4, <1>5, <1>6, <1>7, <1>8, <1>9, <1>10, <1>11, <1>12, <1>13, <1>14, <1>15, <1>16, <1>17, <1>18, <1>19, <1>20, <1>21, <1>22, <1>23, <1>24, <1>25 DEF Step

LEMMA ArrivalsPublishNothing ==
    ASSUME NEW t \in Txns, Arrive(t)
    PROVE  UNCHANGED committed
<1>1. Add(t) => UNCHANGED committed
    BY DEF Add, Begin, storeVars
<1>2. Import(t) => UNCHANGED committed
    BY DEF Import, Begin, storeVars
<1>3. Tally(t) => UNCHANGED committed
    BY DEF Tally, Begin, storeVars
<1>4. DeleteConsignment(t) => UNCHANGED committed
    BY DEF DeleteConsignment, Begin, storeVars
<1>5. NewCode(t) => UNCHANGED committed
    BY DEF NewCode, Begin, storeVars
<1>6. Quote(t) => UNCHANGED committed
    BY DEF Quote, Begin, storeVars
<1>7. Decide(t) => UNCHANGED committed
    BY DEF Decide, Begin, storeVars
<1>8. Unquote(t) => UNCHANGED committed
    BY DEF Unquote, Begin, storeVars
<1>9. RestoreLine(t) => UNCHANGED committed
    BY DEF RestoreLine, Begin, storeVars
<1>10. RestoreHeader(t) => UNCHANGED committed
    BY DEF RestoreHeader, Begin, storeVars
<1>12. PurgeLine(t) => UNCHANGED committed
    BY DEF PurgeLine, Begin, storeVars
<1>11. CASE Edit(t) \/ Shift(t) \/ Approve(t) \/ Revert(t) \/ Delete(t)
    BY <1>11 DEF Edit, Shift, Approve, Revert, Delete, OnItem, Begin, storeVars
<1> QED BY <1>1, <1>2, <1>3, <1>4, <1>5, <1>6, <1>7, <1>8, <1>9, <1>10, <1>11, <1>12 DEF Arrive

(* A commit changes a line only in the columns its operation is about,     *)
(* however many requests overlap on it: read, assign and flush of whole    *)
(* ORM objects lose no update of an item's other columns.                  *)
THEOREM NoUpdateIsLost == Spec => NoLostUpdate
<1> DEFINE Granted ==
        \A i \in Items : committed'[i] # committed[i] =>
          \E t \in Txns : /\ req[t].pc = "commit" /\ owner[i] = t
                          /\ MayChange(req[t].op, committed[i], committed'[i])
<1>1. IInv /\ [Next]_vars => [Granted]_vars
    <2> SUFFICES ASSUME IInv, Next PROVE Granted
        OBVIOUS
    <2>1. PICK t \in Txns : Arrive(t) \/ Step(t) \/ DeadlockVictim(t) \/ Fail(t)
        BY DEF Next
    <2>2. CASE UNCHANGED committed
        BY <2>2
    <2>3. CASE Commit(t)
        <3> SUFFICES ASSUME NEW i \in Items, committed'[i] # committed[i]
                     PROVE  /\ req[t].pc = "commit" /\ owner[i] = t
                            /\ MayChange(req[t].op, committed[i], committed'[i])
            OBVIOUS
        <3>1. /\ req[t].pc = "commit" /\ i \in Rows
              /\ committed' = [x \in Rows |-> Read(t, x)]
            BY <2>3 DEF Commit, CommitTxn, Rows
        <3>2. owner[i] = t /\ committed'[i] = working[i]
            BY <3>1 DEF Read
        <3>3. Rights
            BY DEF IInv
        <3> QED BY <3>1, <3>2, <3>3 DEF Rights
    <2>4. DeadlockVictim(t) \/ Fail(t) => UNCHANGED committed
        BY DEF DeadlockVictim, Fail, Abort, RollbackTxn
    <2> QED BY <2>1, <2>2, <2>3, <2>4, ArrivalsPublishNothing, OnlyCommitsPublish
<1>2. NoLostUpdate <=> [][Granted]_vars
    BY DEF NoLostUpdate
<1> QED BY <1>1, <1>2, Invariance, PTL DEF Spec

-----------------------------------------------------------------------------
(***************************************************************************)
(* Requests that nothing overlaps.                                         *)
(***************************************************************************)

(* t is served with nothing beside it: what it reads is its own version. *)
Served(t) ==
    /\ req[t].alone /\ Serves(t, req[t], committed, working, owner)
    /\ \A x \in Rows : Read(t, x) = working[x]

StillServes(t) == req'[t].alone => Serves(t, req'[t], committed', working', owner')

-----------------------------------------------------------------------------
(***************************************************************************)
(* What rollups, verdicts and numbers depend on.                           *)
(***************************************************************************)
SameIn(table, s, u) == \A x \in table : u[x] = s[x]

LEMMA RollupsOfSameLines ==
    ASSUME NEW s, NEW u, SameIn(Items, s, u)
    PROVE  /\ \A c : Rollup(u, c) = Rollup(s, c)
           /\ Stamped(u) <=> Stamped(s)
<1>1. ASSUME NEW c PROVE Rollup(u, c) = Rollup(s, c)
    <2>1. LinesOf(u, c) = LinesOf(s, c)
        BY DEF SameIn, LinesOf
    <2>2. Approved(u, c) = Approved(s, c)
        BY <2>1 DEF SameIn, Approved, LinesOf
    <2>3. [i \in Items |-> IF i \in LinesOf(u, c) THEN u[i].qty ELSE 0]
          = [i \in Items |-> IF i \in LinesOf(s, c) THEN s[i].qty ELSE 0]
        BY <2>1 DEF SameIn
    <2> QED BY <2>1, <2>2, <2>3 DEF Rollup
<1>2. Stamped(u) <=> Stamped(s)
    BY DEF SameIn, Stamped
<1> QED BY <1>1, <1>2

(* A line counts for the consignment it is under and for no other. *)
LEMMA RollupOfOthers ==
    ASSUME NEW s, NEW u, NEW i \in Items, SameIn(Items \ {i}, s, u), NEW c,
           i \notin LinesOf(s, c), i \notin LinesOf(u, c)
    PROVE  Rollup(u, c) = Rollup(s, c)
<1>1. LinesOf(u, c) = LinesOf(s, c)
    <2>1. ASSUME NEW j \in Items PROVE j \in LinesOf(u, c) <=> j \in LinesOf(s, c)
        BY DEF SameIn, LinesOf
    <2> QED BY <2>1 DEF LinesOf
<1>2. Approved(u, c) = Approved(s, c)
    BY <1>1 DEF SameIn, Approved, LinesOf
<1>3. [j \in Items |-> IF j \in LinesOf(u, c) THEN u[j].qty ELSE 0]
      = [j \in Items |-> IF j \in LinesOf(s, c) THEN s[j].qty ELSE 0]
    BY <1>1 DEF SameIn
<1> QED BY <1>1, <1>2, <1>3 DEF Rollup

LEMMA VerdictsOfSameQuotes ==
    ASSUME NEW s, NEW u, SameIn(Quotes, s, u)
    PROVE  /\ \A i : HasApprovedQuote(u, i) <=> HasApprovedQuote(s, i)
           /\ \A i : Verdict(u, i) = Verdict(s, i)
           /\ NextNumber(u) = NextNumber(s)
           /\ Numbered(u) <=> Numbered(s)
<1>1. \A i : HasApprovedQuote(u, i) <=> HasApprovedQuote(s, i)
    BY DEF SameIn, HasApprovedQuote
<1>2. {k \in Quotes : Exists(u[k])} = {k \in Quotes : Exists(s[k])}
    BY DEF SameIn
<1>3. NextNumber(u) = NextNumber(s)
    BY <1>2 DEF NextNumber
<1>4. Numbered(u) <=> Numbered(s)
    BY <1>3 DEF SameIn, Numbered
<1> QED BY <1>1, <1>3, <1>4 DEF Verdict

(* One row was written: the tables it is not in are as they were. *)
LEMMA OneRow ==
    ASSUME Stored, NEW t \in Txns, NEW x \in Rows, NEW v, Write(t, x, v)
    PROVE  /\ working'[x] = v /\ owner'[x] = t /\ committed' = committed
           /\ \A y \in Rows \ {x} : working'[y] = working[y] /\ owner'[y] = owner[y]
           /\ x \notin Items => SameIn(Items, working, working')
           /\ x \notin Inqs => SameIn(Inqs, working, working') /\ SameIn(Inqs, owner, owner')
           /\ x \notin Quotes => SameIn(Quotes, working, working')
<1>1. DOMAIN working = Rows /\ DOMAIN owner = Rows
    BY DEF Stored, StoreOK
<1>2. /\ working'[x] = v /\ owner'[x] = t /\ committed' = committed
      /\ \A y \in Rows \ {x} : working'[y] = working[y] /\ owner'[y] = owner[y]
    BY <1>1 DEF Write
<1> QED BY <1>2 DEF SameIn, Rows

-----------------------------------------------------------------------------
(***************************************************************************)
(* The ways a step of t changes the state.                                 *)
(***************************************************************************)

(* What is known of the request that takes a step, and of what it reads. *)
LEMMA Mine1 ==
    ASSUME IInv, NEW t \in Txns, Served(t)
    PROVE  /\ Stored /\ Asking
           /\ req[t] \in Request /\ Refers(req[t]) /\ KnownFor(req[t])
           /\ Refreshed(t, req[t], committed, working, owner)
           /\ Undisturbed(req[t], working) /\ Owes(req[t]) /\ Synced(req[t], working)
           /\ \A x \in Rows : Read(t, x) = working[x]
           /\ Snapshot(t) = [x \in Rows |-> working[x]]
BY Mine DEF Served, Serves, Snapshot

LEMMA MovesOn ==
    ASSUME IInv, NEW t \in Txns, Served(t), NEW z \in Request, Goes(t, z),
           UNCHANGED storeVars, z.op = req[t].op, Pending(req[t]) \subseteq Pending(z),
           Undisturbed(z, working), Owes(z), Synced(z, working)
    PROVE  StillServes(t)
<1>1. req'[t] = z
    BY Mine, GoesOn
<1>2. /\ Serves(t, req[t], committed, working, owner)
      /\ working' = working /\ committed' = committed /\ owner' = owner
    BY DEF Served, storeVars
<1>3. Refreshed(t, z, committed, working, owner)
    BY <1>2 DEF Serves, Refreshed
<1>4. Serves(t, z, committed, working, owner)
    BY <1>2, <1>3 DEF Serves
<1> QED BY <1>1, <1>2, <1>4 DEF StillServes

LEMMA Aborts ==
    ASSUME IInv, NEW t \in Txns, Goes(t, Blank)
    PROVE  StillServes(t)
<1>1. req'[t] = Blank
    BY BlankType, Mine, GoesOn
<1> QED BY <1>1 DEF StillServes, Blank

(* A row that is no line was written. *)
LEMMA WritesElsewhere ==
    ASSUME IInv, NEW t \in Txns, Served(t), NEW z \in Request, Goes(t, z), z.op = req[t].op,
           NEW x \in Rows \ Items, NEW v, Write(t, x, v),
           Undisturbed(z, working'), Owes(z), Synced(z, working'),
           \A c \in Inqs \ Pending(z) : c # x => c \notin Pending(req[t]),
           /\ z.op \notin LineTrashOps /\ x \in Inqs \ Pending(z)
           => IF z.op \in RefreshOps THEN Stores(working', x)
              ELSE /\ SameHeader(v, working[x]) /\ working[x].life # "absent"
                   /\ x \notin Pending(req[t]),
           Numbered(working) => Numbered(working')
    PROVE  StillServes(t)
<1>1. req'[t] = z
    BY Mine, GoesOn
<1>2. /\ working'[x] = v /\ owner'[x] = t /\ committed' = committed
      /\ \A y \in Rows \ {x} : working'[y] = working[y] /\ owner'[y] = owner[y]
      /\ SameIn(Items, working, working')
    BY Mine, OneRow
<1>3. /\ \A c : Rollup(working', c) = Rollup(working, c)
      /\ Stamped(working') <=> Stamped(working)
    BY <1>2, RollupsOfSameLines
<1>4. Serves(t, req[t], committed, working, owner)
    BY DEF Served
<1>5. Refreshed(t, z, committed, working', owner')
    <2> SUFFICES ASSUME z.op \notin LineTrashOps, NEW c \in Inqs \ Pending(z)
                 PROVE  IF owner'[c] = t /\ z.op \in RefreshOps
                        THEN Stores(working', c)
                        ELSE /\ SameHeader(working'[c], committed[c])
                             /\ Rollup(working', c) = Rollup(committed, c)
                             /\ working'[c].life # "absent" => committed[c].life # "absent"
        BY DEF Refreshed
    <2>1. CASE c # x
        <3>1. c \in Rows \ {x} /\ c \notin Pending(req[t])
            BY <2>1 DEF Rows
        <3>2. working'[c] = working[c] /\ owner'[c] = owner[c]
            BY <1>2, <3>1
        <3>3. IF owner[c] = t /\ z.op \in RefreshOps
              THEN Stores(working, c)
              ELSE /\ SameHeader(working[c], committed[c]) /\ Rollup(working, c) = Rollup(committed, c)
                   /\ working[c].life # "absent" => committed[c].life # "absent"
            BY <1>4, <3>1 DEF Serves, Refreshed
        <3> QED BY <1>3, <3>2, <3>3 DEF Stores
    <2>2. CASE c = x /\ z.op \in RefreshOps
        BY <1>2, <2>2
    <2>3. CASE c = x /\ z.op \notin RefreshOps
        <3>1. /\ SameHeader(v, working[x]) /\ working[x].life # "absent"
              /\ x \notin Pending(req[t])
            BY <2>3
        <3>2. /\ SameHeader(working[x], committed[x]) /\ Rollup(working, x) = Rollup(committed, x)
              /\ working[x].life # "absent" => committed[x].life # "absent"
            BY <1>4, <2>3, <3>1 DEF Serves, Refreshed
        <3> QED BY <1>2, <1>3, <2>3, <3>1, <3>2 DEF SameHeader
    <2> QED BY <2>1, <2>2, <2>3
<1>6. Serves(t, z, committed, working', owner')
    BY <1>3, <1>4, <1>5 DEF Serves
<1> QED BY <1>1, <1>2, <1>6 DEF StillServes

(* A line was written; what is due of the consignments it was and is under *)
(* is pending.                                                             *)
LEMMA WritesLine ==
    ASSUME IInv, NEW t \in Txns, Served(t), NEW z \in Request, Goes(t, z), z.op = req[t].op,
           NEW i \in Items, NEW v, Write(t, i, v),
           Stamped(working) => (v.at <=> v.status = "approved"),
           Undisturbed(z, working'), Owes(z), Synced(z, working'),
           Pending(req[t]) \subseteq Pending(z),
           z.op \notin LineTrashOps =>
             \A c \in Inqs : i \in LinesOf(working, c) \/ i \in LinesOf(working', c) => c \in Pending(z)
    PROVE  StillServes(t)
<1>1. req'[t] = z
    BY Mine, GoesOn
<1>0. i \in Rows /\ i \notin Inqs /\ i \notin Quotes
    BY TablesAreDisjoint DEF Rows
<1>2. /\ working'[i] = v /\ owner'[i] = t /\ committed' = committed
      /\ \A y \in Rows \ {i} : working'[y] = working[y] /\ owner'[y] = owner[y]
      /\ SameIn(Inqs, working, working') /\ SameIn(Inqs, owner, owner')
      /\ SameIn(Quotes, working, working')
    BY <1>0, Mine, OneRow
<1>3. Serves(t, req[t], committed, working, owner)
    BY DEF Served
<1>4. Stamped(working) => Stamped(working')
    BY <1>2 DEF Stamped, Rows
<1>5. Numbered(working') <=> Numbered(working)
    BY <1>2, VerdictsOfSameQuotes
<1>6. Refreshed(t, z, committed, working', owner')
    <2> SUFFICES ASSUME z.op \notin LineTrashOps, NEW c \in Inqs \ Pending(z)
                 PROVE  IF owner'[c] = t /\ z.op \in RefreshOps
                        THEN Stores(working', c)
                        ELSE /\ SameHeader(working'[c], committed[c])
                             /\ Rollup(working', c) = Rollup(committed, c)
                             /\ working'[c].life # "absent" => committed[c].life # "absent"
        BY DEF Refreshed
    <2>1. working'[c] = working[c] /\ owner'[c] = owner[c]
        BY <1>2 DEF SameIn
    <2>2. Rollup(working', c) = Rollup(working, c)
        <3>1. SameIn(Items \ {i}, working, working')
            BY <1>2 DEF SameIn, Rows
        <3> QED BY <3>1, RollupOfOthers
    <2>3. IF owner[c] = t /\ z.op \in RefreshOps
          THEN Stores(working, c)
          ELSE /\ SameHeader(working[c], committed[c]) /\ Rollup(working, c) = Rollup(committed, c)
               /\ working[c].life # "absent" => committed[c].life # "absent"
        BY <1>3 DEF Serves, Refreshed
    <2> QED BY <2>1, <2>2, <2>3 DEF Stores
<1>7. Serves(t, z, committed, working', owner')
    BY <1>3, <1>4, <1>5, <1>6 DEF Serves
<1> QED BY <1>1, <1>2, <1>7 DEF StillServes

-----------------------------------------------------------------------------
(***************************************************************************)
(* The item of a request.                                                  *)
(***************************************************************************)

(* Past the search for a consignment it does not matter what was loaded.   *)
LEMMA LoadsLater ==
    ASSUME NEW z, z.pc \notin {"findCode", "findConsignment"},
           z.op = "shift" => z.pc \notin {"findItem", "findInquiry"}
    PROVE  LoadsFirst(z)
BY DEF LoadsFirst

(* The place after a line is a place to find or refresh from, or the end. *)
LEMMA AfterItemServes ==
    ASSUME NEW t \in Txns, NEW s \in Request, AfterItem(t, s), NEW W, s.op \in RefreshOps,
           \A c \in Inqs : s.seenInq[c] = NoInq \/ Loaded(s, W, c),
           s.op \in QuoteSync => s.items = <<>> /\ s.seenQuote.item \in Items,
           s.op = "shift" => s.items = <<>>,
           s.op \in QuoteSync /\ W[s.seenQuote.item].life = "live" =>
             (W[s.seenQuote.item].status = "approved" <=> HasApprovedQuote(W, s.seenQuote.item))
    PROVE  \E z \in Request : /\ Goes(t, z) /\ z.op = s.op /\ s.todo = Pending(z)
                              /\ Undisturbed(z, W) /\ Owes(z) /\ Synced(z, W)
<1>1. PICK pc \in Pcs : pc = IF s.items # <<>> THEN "findItem"
                             ELSE IF s.todo = {} THEN "commit" ELSE "loadHeader"
    BY DEF Pcs
<1> DEFINE z == [s EXCEPT !.pc = pc]
<1>2. /\ z \in Request /\ z.pc = pc /\ z.op = s.op /\ z.items = s.items /\ z.todo = s.todo
      /\ z.seenInq = s.seenInq /\ z.seenQuote = s.seenQuote
    BY DEF Request
<1>3. Goes(t, z)
    BY <1>1 DEF AfterItem
<1> HIDE DEF z
<1>4. Pending(z) = s.todo
    BY <1>1, <1>2 DEF Pending
<1>5. Undisturbed(z, W)
    <2>1. LoadsFirst(z)
        BY <1>1, <1>2, LoadsLater
    <2> QED BY <1>1, <1>2, <2>1 DEF Undisturbed, Shifting, Loaded
<1>6. Owes(z)
    BY <1>1, <1>2 DEF Owes, Purging, Shifting
<1>7. Synced(z, W)
    BY <1>1, <1>2 DEF Synced
<1> QED BY <1>2, <1>3, <1>4, <1>5, <1>6, <1>7

LEMMA OneItem ==
    ASSUME NEW s, NEW i, s = <<i>>
    PROVE  Head(s) = i /\ Tail(s) = <<>>
OBVIOUS

LEMMA FindItemServes ==
    ASSUME IInv, NEW t \in Txns, Served(t), FindItem(t)
    PROVE  StillServes(t)
<1> PICK r \in Request : r = req[t]
    BY Mine
<1> DEFINE i == Head(r.items)
           row == Read(t, i)
           found == row.life = "live" /\ (r.op \in Scoped => row.inq = r.inq)
<1>1. /\ Stored /\ Refers(r) /\ r.pc = "findItem" /\ r.items # <<>>
      /\ Undisturbed(r, working) /\ Owes(r) /\ Synced(r, working)
      /\ \A x \in Rows : Read(t, x) = working[x]
    BY Mine1 DEF FindItem, Refers
<1>2. i \in Items /\ i \in Rows /\ Tail(r.items) \in Seq(Items)
    BY <1>1 DEF Request, Rows
<1>3. CASE /\ found
           /\ Goes(t, [r EXCEPT !.seen = row,
                                !.pc = IF r.op = "shift" THEN "findInquiry"
                                       ELSE IF r.op = "quote" THEN "countQuotes"
                                       ELSE "writeItem"])
           /\ UNCHANGED storeVars
    <2>1. PICK seen \in ItemRow : seen = row
        BY <1>1, <1>2, ReadType
    <2>2. PICK pc \in Pcs : pc = IF r.op = "shift" THEN "findInquiry"
                                 ELSE IF r.op = "quote" THEN "countQuotes" ELSE "writeItem"
        BY DEF Pcs
    <2> DEFINE z == [r EXCEPT !.seen = seen, !.pc = pc]
    <2>3. /\ z \in Request
          /\ z.pc = pc /\ z.op = r.op /\ z.items = r.items /\ z.status = r.status
          /\ z.inq = r.inq /\ z.to = r.to /\ z.seen = seen /\ z.todo = r.todo
          /\ z.seenInq = r.seenInq /\ z.seenQuote = r.seenQuote
        BY DEF Request
    <2>4. Goes(t, z)
        BY <1>3, <2>1, <2>2
    <2> HIDE DEF z
    <2>5. seen = working[i] /\ seen.life = "live" /\ (r.op \in Scoped => seen.inq = r.inq)
        BY <1>1, <1>2, <1>3, <2>1
    <2>6. Undisturbed(z, working)
        <3>1. \A c \in Inqs : z.seenInq[c] = NoInq \/ Loaded(z, working, c)
            BY <1>1, <2>3 DEF Undisturbed, Loaded
        <3>2. pc \in {"findInquiry", "countQuotes", "writeItem"}
            BY <2>2
        <3>3. z.seen = working[Head(z.items)] /\ z.seen.life = "live"
              /\ (z.op \in Scoped => z.seen.inq = z.inq)
            BY <2>3, <2>5
        <3>4. LoadsFirst(z)
            BY <1>1, <2>3, <3>2 DEF Undisturbed, LoadsFirst
        <3> QED BY <2>3, <3>1, <3>2, <3>3, <3>4 DEF Undisturbed, Shifting
    <2>7. Owes(z)
        BY <1>1, <2>2, <2>3 DEF Owes, Purging, Shifting
    <2>8. Synced(z, working)
        BY <1>1, <2>2, <2>3 DEF Synced
    <2>9. Pending(r) \subseteq Pending(z)
        BY <1>1, <2>2, <2>3 DEF Pending
    <2> QED BY <1>3, <2>3, <2>4, <2>6, <2>7, <2>8, <2>9, MovesOn
<1>4. CASE Abort(t)
    BY <1>4, Aborts DEF Abort
<1>5. CASE /\ ~found /\ r.op \in QuoteSync \cup {"tally"}
           /\ AfterItem(t, [r EXCEPT !.items = Tail(r.items)]) /\ UNCHANGED storeVars
    <2> DEFINE s == [r EXCEPT !.items = Tail(r.items)]
    <2>1. /\ s \in Request /\ s.op = r.op /\ s.status = r.status /\ s.items = Tail(r.items)
          /\ s.todo = r.todo /\ s.seenInq = r.seenInq /\ s.seenQuote = r.seenQuote
        BY <1>1, <1>2 DEF Request
    <2>2. AfterItem(t, s) /\ UNCHANGED storeVars
        BY <1>5
    <2> HIDE DEF s
    <2>3. r.op \in QuoteSync =>
            /\ s.items = <<>> /\ i = r.seenQuote.item
            /\ working[r.seenQuote.item].life # "live"
        <3>1. r.op \in QuoteSync => r.op \notin Scoped
            BY DEF QuoteSync, Scoped
        <3>2. r.op \in QuoteSync => r.items = <<r.seenQuote.item>>
            BY <1>1 DEF Synced
        <3>3. r.op \in QuoteSync => Tail(r.items) = <<>> /\ i = r.seenQuote.item
            BY <3>2, OneItem
        <3>4. r.op \in QuoteSync => working[i].life # "live"
            BY <1>1, <1>2, <1>5, <3>1
        <3> QED BY <2>1, <3>3, <3>4
    <2>4. s.op \in RefreshOps /\ s.op # "shift"
        BY <1>5, <2>1 DEF RefreshOps, QuoteSync
    <2>7. \A c \in Inqs : s.seenInq[c] = NoInq \/ Loaded(s, working, c)
        BY <1>1, <2>1 DEF Undisturbed, Loaded
    <2>5. PICK z \in Request : /\ Goes(t, z) /\ z.op = s.op /\ s.todo = Pending(z)
                              /\ Undisturbed(z, working) /\ Owes(z) /\ Synced(z, working)
        <3>1. PICK W : W = working
            OBVIOUS
        <3>2. \A c \in Inqs : s.seenInq[c] = NoInq \/ Loaded(s, W, c)
            BY <2>7, <3>1
        <3>3. /\ s.op \in QuoteSync => s.items = <<>> /\ s.seenQuote.item \in Items
              /\ s.op \in QuoteSync => W[s.seenQuote.item].life # "live"
            BY <1>2, <2>1, <2>3, <3>1
        <3>4. \E z \in Request : /\ Goes(t, z) /\ z.op = s.op /\ s.todo = Pending(z)
                                 /\ Undisturbed(z, W) /\ Owes(z) /\ Synced(z, W)
            BY <2>1, <2>2, <2>4, <3>2, <3>3, AfterItemServes
        <3> QED BY <3>1, <3>4
    <2>6. Pending(r) = r.todo
        BY <1>1 DEF Pending
    <2> QED BY <2>1, <2>2, <2>5, <2>6, MovesOn
<1> QED BY <1>1, <1>3, <1>4, <1>5 DEF FindItem

(* Nothing came between: the UPDATE stores what the handler assigned. *)
LEMMA MergeUndisturbed ==
    ASSUME NEW r \in Request, r.op \in QuoteSync => r.status \in ItemStatus,
           r.op = "shift" => r.to \in Inqs
    PROVE  /\ Merge(r, r.seen) = Edited(r) /\ Edited(r) \in ItemRow
           /\ ~IsDirty(r) => Edited(r) = r.seen
           /\ Edited(r).inq = IF r.op = "shift" THEN r.to ELSE r.seen.inq
           /\ (r.seen.at <=> r.seen.status = "approved")
              => (Edited(r).at <=> Edited(r).status = "approved")
           /\ r.op \in QuoteSync => Edited(r).status = r.status
<1>0. "trash" \in LineLife
    BY DEF LineLife, Life
<1>3. Edited(r) \in ItemRow
    BY <1>0 DEF Edited, Request, ItemRow, QuoteSync, ItemStatus
<1>1. PICK o \in ItemRow : o = r.seen
    BY DEF Request
<1>2. /\ DOMAIN o = {"life", "inq", "status", "at", "qty", "posted"}
      /\ o.at \in BOOLEAN
    BY DEF ItemRow
<1>4. PICK e \in ItemRow : e = Edited(r)
    BY <1>3
<1>5. /\ DOMAIN e = {"life", "inq", "status", "at", "qty", "posted"}
      /\ e.at \in BOOLEAN
    BY DEF ItemRow
<1>6. Merge(r, o) = [life |-> e.life, inq |-> e.inq, status |-> e.status, at |-> e.at,
                     qty |-> e.qty, posted |-> e.posted]
    BY <1>1, <1>4 DEF Merge, Column
<1>7. Merge(r, o) = e
    BY <1>6 DEF ItemRow
<1>8. e.inq = IF r.op = "shift" THEN r.to ELSE o.inq
    BY <1>1, <1>2, <1>4 DEF Edited, QuoteSync
<1>9. (o.at <=> o.status = "approved") => (e.at <=> e.status = "approved")
    BY <1>1, <1>2, <1>4 DEF Edited, QuoteSync
<1>10. r.op \in QuoteSync => e.status = r.status
    BY <1>1, <1>2, <1>4 DEF Edited, QuoteSync
<1> QED BY <1>1, <1>3, <1>4, <1>7, <1>8, <1>9, <1>10 DEF IsDirty

LEMMA WriteItemServes ==
    ASSUME IInv, NEW t \in Txns, Served(t), WriteItem(t)
    PROVE  StillServes(t)
<1> PICK r \in Request : r = req[t]
    BY Mine
<1>11. CASE Abort(t)
    BY <1>11, Aborts DEF Abort
<1> DEFINE i == Head(r.items)
           q == r.seenQuote.item
           s == [r EXCEPT !.items = Tail(r.items), !.todo = Due(r), !.seen = NoItem]
<1>1. /\ Stored /\ Refers(r) /\ r.pc = "writeItem" /\ r.items # <<>>
      /\ r.op \in QuoteSync => r.status \in ItemStatus
      /\ r.op = "shift" => r.inq \in Inqs /\ r.to \in Inqs
      /\ r.seen.inq \in Inqs
      /\ Undisturbed(r, working) /\ Owes(r) /\ Synced(r, working)
    BY Mine1 DEF WriteItem, Refers
<1>2. i \in Items /\ i \in Rows /\ Tail(r.items) \in Seq(Items)
    BY <1>1 DEF Request, Rows
<1>3. Due(r) \subseteq Inqs
    BY <1>1 DEF Due, Request
<1>4. /\ s \in Request /\ s.op = r.op /\ s.todo = Due(r) /\ s.items = Tail(r.items)
      /\ s.seenInq = r.seenInq /\ s.seenQuote = r.seenQuote
    BY <1>1, <1>2, <1>3, BlankType DEF Request
<1>5. SUFFICES ASSUME AfterItem(t, s),
                      IF IsDirty(r) THEN Write(t, i, Merge(r, working[i])) ELSE UNCHANGED storeVars
               PROVE  StillServes(t)
    BY <1>11 DEF WriteItem
<1> HIDE DEF s
<1>6. /\ r.seen = working[i] /\ (r.op \in Scoped => r.seen.inq = r.inq)
      /\ r.op \in RefreshOps
      /\ r.op \in QuoteSync => s.items = <<>> /\ i = q /\ r.status = Verdict(working, q)
      /\ r.op = "shift" => s.items = <<>> /\ r.todo = {}
    <2>1. r.op \in QuoteSync => r.items = <<q>> /\ r.status = Verdict(working, q)
        BY <1>1 DEF Synced
    <2>2. r.op \in QuoteSync => Tail(r.items) = <<>> /\ i = q
        BY <2>1, OneItem
    <2> QED BY <1>1, <1>4, <2>1, <2>2 DEF Undisturbed, Owes
<1>7. /\ Merge(r, working[i]) = Edited(r) /\ Edited(r) \in ItemRow
      /\ ~IsDirty(r) => Edited(r) = working[i]
      /\ Edited(r).inq = IF r.op = "shift" THEN r.to ELSE r.seen.inq
      /\ (working[i].at <=> working[i].status = "approved")
         => (Edited(r).at <=> Edited(r).status = "approved")
      /\ r.op \in QuoteSync => Edited(r).status = r.status
    BY <1>1, <1>6, MergeUndisturbed
<1>8. Pending(r) \subseteq Due(r) /\ r.seen.inq \in Due(r) /\ Edited(r).inq \in Due(r)
    BY <1>1, <1>6, <1>7 DEF Pending, Due, Scoped
<1>9. CASE IsDirty(r) /\ Write(t, i, Merge(r, working[i]))
    <2>1. PICK v \in ItemRow : v = Edited(r)
        BY <1>7
    <2>2. Write(t, i, v)
        BY <1>7, <1>9, <2>1
    <2>3. i \notin Inqs /\ i \notin Quotes
        BY <1>2, TablesAreDisjoint
    <2>4. /\ working'[i] = v
          /\ \A y \in Rows \ {i} : working'[y] = working[y]
          /\ SameIn(Inqs, working, working') /\ SameIn(Quotes, working, working')
        BY <1>1, <1>2, <2>2, <2>3, OneRow
    <2>5. \A j : HasApprovedQuote(working', j) <=> HasApprovedQuote(working, j)
        BY <2>4, VerdictsOfSameQuotes
    <2>6. PICK W : W = working'
        OBVIOUS
    <2>7. \A c \in Inqs : s.seenInq[c] = NoInq \/ Loaded(s, W, c)
        BY <1>1, <1>4, <2>4, <2>6 DEF Undisturbed, Loaded, SameIn
    <2>8. s.op \in QuoteSync => (W[q].status = "approved" <=> HasApprovedQuote(W, q))
        <3>1. r.op \in QuoteSync => W[q].status = Verdict(working, q)
            BY <1>6, <1>7, <2>1, <2>4, <2>6
        <3> QED BY <1>4, <2>5, <2>6, <3>1 DEF Verdict
    <2>9. /\ s.op \in RefreshOps
          /\ s.op \in QuoteSync => s.items = <<>> /\ s.seenQuote.item \in Items
          /\ s.op = "shift" => s.items = <<>>
          /\ s.op \in QuoteSync /\ W[s.seenQuote.item].life = "live" =>
               (W[s.seenQuote.item].status = "approved" <=> HasApprovedQuote(W, s.seenQuote.item))
        BY <1>2, <1>4, <1>6, <2>8
    <2>10. \E z \in Request : /\ Goes(t, z) /\ z.op = s.op /\ s.todo = Pending(z)
                              /\ Undisturbed(z, W) /\ Owes(z) /\ Synced(z, W)
        BY <1>4, <1>5, <2>7, <2>9, AfterItemServes
    <2>11. PICK z \in Request : /\ Goes(t, z) /\ z.op = s.op /\ s.todo = Pending(z)
                              /\ Undisturbed(z, working') /\ Owes(z) /\ Synced(z, working')
        BY <2>6, <2>10
    <2>12. ASSUME NEW c \in Inqs, i \in LinesOf(working, c) \/ i \in LinesOf(working', c)
           PROVE  c \in Pending(z)
        BY <1>4, <1>6, <1>8, <2>1, <2>4, <2>11, <2>12 DEF LinesOf
    <2>13. Stamped(working) => (v.at <=> v.status = "approved")
        BY <1>2, <1>7, <2>1 DEF Stamped
    <2>14. Pending(r) \subseteq Pending(z)
        BY <1>4, <1>8, <2>11
    <2> QED BY <1>2, <1>4, <2>2, <2>11, <2>12, <2>13, <2>14, WritesLine
<1>10. CASE ~IsDirty(r) /\ UNCHANGED storeVars
    <2>6. PICK W : W = working
        OBVIOUS
    <2>7. \A c \in Inqs : s.seenInq[c] = NoInq \/ Loaded(s, W, c)
        BY <1>1, <1>4, <2>6 DEF Undisturbed, Loaded
    <2>8. s.op \in QuoteSync => (W[q].status = "approved" <=> HasApprovedQuote(W, q))
        <3>1. r.op \in QuoteSync => W[q].status = Verdict(working, q)
            BY <1>6, <1>7, <1>10, <2>6
        <3> QED BY <1>4, <2>6, <3>1 DEF Verdict
    <2>9. /\ s.op \in RefreshOps
          /\ s.op \in QuoteSync => s.items = <<>> /\ s.seenQuote.item \in Items
          /\ s.op = "shift" => s.items = <<>>
          /\ s.op \in QuoteSync /\ W[s.seenQuote.item].life = "live" =>
               (W[s.seenQuote.item].status = "approved" <=> HasApprovedQuote(W, s.seenQuote.item))
        BY <1>2, <1>4, <1>6, <2>8
    <2>10. \E z \in Request : /\ Goes(t, z) /\ z.op = s.op /\ s.todo = Pending(z)
                              /\ Undisturbed(z, W) /\ Owes(z) /\ Synced(z, W)
        BY <1>4, <1>5, <2>7, <2>9, AfterItemServes
    <2>11. PICK z \in Request : /\ Goes(t, z) /\ z.op = s.op /\ s.todo = Pending(z)
                              /\ Undisturbed(z, working) /\ Owes(z) /\ Synced(z, working)
        BY <2>6, <2>10
    <2>12. Pending(r) \subseteq Pending(z)
        BY <1>4, <1>8, <2>11
    <2> QED BY <1>4, <1>10, <2>11, <2>12, MovesOn
<1> QED BY <1>5, <1>9, <1>10

-----------------------------------------------------------------------------
(***************************************************************************)
(* The consignment that receives lines, and inserting them.                *)
(***************************************************************************)
LEMMA ReceivedServes ==
    ASSUME NEW t \in Txns, NEW s \in Request, Received(t, s), Refers(s), NEW W,
           s.op \in Adders \cup {"shift"}, s.pc \in Shifting, s.to \in Inqs, Owes(s),
           \A c \in Inqs : s.seenInq[c] = NoInq \/ Loaded(s, W, c),
           s.op = "shift" => /\ s.seen = W[Head(s.items)] /\ s.seen.life = "live"
                             /\ s.seen.inq = s.inq
    PROVE  \E z \in Request :
             /\ Goes(t, z) /\ z.op = s.op
             /\ Pending(z) = IF s.op # "shift" THEN {s.to}
                             ELSE IF s.to = s.inq THEN {} ELSE {s.inq, s.to}
             /\ Undisturbed(z, W) /\ Owes(z) /\ Synced(z, W)
<1>1. PICK pc \in Pcs : pc = IF s.op = "shift"
                             THEN IF s.to = s.inq THEN "commit" ELSE "writeItem"
                             ELSE IF s.left = 0 THEN "loadHeader" ELSE "insertItem"
    BY DEF Pcs
<1>2. PICK todo \in SUBSET Inqs : todo = IF s.op = "shift" THEN {} ELSE {s.to}
    OBVIOUS
<1> DEFINE z == [s EXCEPT !.pc = pc, !.todo = todo]
<1>3. /\ z \in Request
      /\ z.pc = pc /\ z.op = s.op /\ z.items = s.items /\ z.todo = todo
      /\ z.inq = s.inq /\ z.to = s.to /\ z.seen = s.seen /\ z.seenInq = s.seenInq
    BY DEF Request
<1>4. Goes(t, z)
    BY <1>1, <1>2 DEF Received
<1> HIDE DEF z
<1>5. Pending(z) = IF s.op # "shift" THEN {s.to} ELSE IF s.to = s.inq THEN {} ELSE {s.inq, s.to}
    BY <1>1, <1>2, <1>3 DEF Pending
<1>6. Undisturbed(z, W)
    <2>1. \A c \in Inqs : z.seenInq[c] = NoInq \/ Loaded(z, W, c)
        BY <1>3 DEF Loaded
    <2>2. pc = "writeItem" => s.op = "shift"
        BY <1>1
    <2>3. pc \in {"commit", "writeItem", "loadHeader", "insertItem"}
        BY <1>1
    <2>4. LoadsFirst(z)
        BY <1>3, <2>3, LoadsLater
    <2> QED BY <1>3, <2>1, <2>2, <2>3, <2>4 DEF Undisturbed, Shifting
<1>7. Owes(z)
    BY <1>1, <1>2, <1>3 DEF Owes, Purging, Shifting, RefreshOps, Adders, Scoped, QuoteSync
<1>8. Synced(z, W)
    BY <1>3 DEF Synced, QuoteSync, Adders
<1> QED BY <1>3, <1>4, <1>5, <1>6, <1>7, <1>8

(* A request of which only the place and one header it loaded are new. *)
LEMMA NextPlace ==
    ASSUME NEW r \in Request, NEW pc \in Pcs, NEW z, z = [r EXCEPT !.pc = pc]
    PROVE  /\ z \in Request /\ z.pc = pc /\ z.op = r.op /\ z.items = r.items
           /\ z.status = r.status /\ z.inq = r.inq /\ z.to = r.to /\ z.seen = r.seen
           /\ z.todo = r.todo /\ z.seenInq = r.seenInq /\ z.seenQuote = r.seenQuote
           /\ z.header = r.header /\ z.roll = r.roll /\ z.num = r.num /\ z.row = r.row
           /\ z.quote = r.quote
BY DEF Request

LEMMA LoadsHeader ==
    ASSUME NEW r \in Request, NEW c \in Inqs, NEW x \in InqRow
    PROVE  LET z == [r EXCEPT !.seenInq[c] = x] IN
           /\ z \in Request /\ z.pc = r.pc /\ z.op = r.op /\ z.items = r.items
           /\ z.status = r.status /\ z.inq = r.inq /\ z.to = r.to /\ z.seen = r.seen
           /\ z.todo = r.todo /\ z.seenQuote = r.seenQuote /\ z.left = r.left
           /\ z.seenInq[c] = x /\ \A d \in Inqs \ {c} : z.seenInq[d] = r.seenInq[d]
BY DEF Request

LEMMA FindInquiryServes ==
    ASSUME IInv, NEW t \in Txns, Served(t), FindInquiry(t)
    PROVE  StillServes(t)
<1> PICK r \in Request : r = req[t]
    BY Mine
<1>1. /\ Stored /\ Refers(r) /\ r.pc = "findInquiry" /\ r.inq \in Inqs /\ r.inq \in Rows
      /\ r.op \in {"shift", "import", "deleteConsignment"}
      /\ Undisturbed(r, working) /\ Owes(r) /\ Synced(r, working)
      /\ Read(t, r.inq) = working[r.inq]
    BY Mine1 DEF FindInquiry, Refers, Rows
<1>2. PICK row \in InqRow : row = working[r.inq]
    BY <1>1, ReadType
<1>3. PICK loaded \in Request : loaded = [r EXCEPT !.seenInq[r.inq] = row]
    <2>1. [r EXCEPT !.seenInq[r.inq] = row] \in Request
        BY <1>1 DEF Request
    <2> QED BY <2>1
<1>4. /\ loaded.pc = r.pc /\ loaded.op = r.op /\ loaded.items = r.items
      /\ loaded.status = r.status /\ loaded.inq = r.inq /\ loaded.to = r.to
      /\ loaded.seen = r.seen /\ loaded.left = r.left /\ loaded.todo = r.todo
      /\ loaded.seenQuote = r.seenQuote /\ loaded.seenInq[r.inq] = row
      /\ \A d \in Inqs \ {r.inq} : loaded.seenInq[d] = r.seenInq[d]
    BY <1>1, <1>3, LoadsHeader
<1>5. \A c \in Inqs : loaded.seenInq[c] = NoInq \/ Loaded(loaded, working, c)
    BY <1>1, <1>2, <1>4 DEF Undisturbed, Loaded, SameHeader
<1>6. CASE Abort(t)
    BY <1>6, Aborts DEF Abort
<1>7. CASE r.op = "import" /\ Received(t, loaded) /\ UNCHANGED storeVars
    <2>1. PICK W : W = working
        OBVIOUS
    <2>2. /\ Refers(loaded) /\ loaded.op \in Adders \cup {"shift"} /\ loaded.pc \in Shifting
          /\ loaded.to \in Inqs /\ Owes(loaded) /\ loaded.op # "shift"
        BY <1>1, <1>4, <1>7 DEF Refers, Adders, Shifting, Purging, Owes
    <2>3. \A c \in Inqs : loaded.seenInq[c] = NoInq \/ Loaded(loaded, W, c)
        BY <1>5, <2>1
    <2>4. \E z \in Request : /\ Goes(t, z) /\ z.op = loaded.op /\ Undisturbed(z, W)
                             /\ Owes(z) /\ Synced(z, W)
        BY <1>7, <2>2, <2>3, ReceivedServes
    <2>5. PICK z \in Request : /\ Goes(t, z) /\ z.op = loaded.op /\ Undisturbed(z, working)
                              /\ Owes(z) /\ Synced(z, working)
        BY <2>1, <2>4
    <2>6. Pending(r) = {}
        BY <1>1, <1>7 DEF Pending, Owes, Shifting
    <2> QED BY <1>4, <1>7, <2>5, <2>6, MovesOn
<1>8. ASSUME NEW pc \in {"findCode", "trashInquiry"}, Goes(t, [loaded EXCEPT !.pc = pc]),
             pc = "findCode" <=> r.op = "shift", r.op \in {"shift", "deleteConsignment"},
             row.life = "live", UNCHANGED storeVars
      PROVE  StillServes(t)
    <2>1. PICK z : z = [loaded EXCEPT !.pc = pc]
        OBVIOUS
    <2>2. /\ z \in Request /\ z.pc = pc /\ z.op = r.op /\ z.items = r.items
          /\ z.inq = r.inq /\ z.to = r.to /\ z.seen = r.seen /\ z.todo = r.todo
          /\ z.seenInq = loaded.seenInq
        <3>1. pc \in Pcs
            BY DEF Pcs
        <3> QED BY <1>4, <2>1, <3>1, NextPlace
    <2>3. Goes(t, z)
        BY <1>8, <2>1
    <2>4. Undisturbed(z, working)
        <3>1. \A c \in Inqs : z.seenInq[c] = NoInq \/ Loaded(z, working, c)
            BY <1>5, <2>2 DEF Loaded
        <3>2. working[r.inq].life = "live"
            BY <1>2, <1>8
        <3>3. r.op = "shift" => /\ r.seen = working[Head(r.items)] /\ r.seen.life = "live"
                                /\ (r.op \in Scoped => r.seen.inq = r.inq)
            BY <1>1 DEF Undisturbed, Shifting
        <3>4. r.op = "shift" => \A c \in Inqs : c # r.inq => z.seenInq[c] = NoInq
            BY <1>1, <1>4, <2>2 DEF Undisturbed, LoadsFirst
        <3>5. r.op = "shift" => z.seenInq[r.inq].life = "live"
            BY <1>4, <1>8, <2>2
        <3>6. LoadsFirst(z)
            BY <1>8, <2>2, <3>4, <3>5 DEF LoadsFirst
        <3> QED BY <1>8, <2>2, <3>1, <3>2, <3>3, <3>6 DEF Undisturbed, Shifting
    <2>5. Owes(z)
        BY <1>1, <1>8, <2>2 DEF Owes, Purging, Shifting, RefreshOps, Scoped, QuoteSync
    <2>6. Synced(z, working)
        BY <1>8, <2>2 DEF Synced, QuoteSync
    <2>7. Pending(r) \subseteq Pending(z)
        BY <1>1, <2>2 DEF Pending
    <2> QED BY <1>8, <2>2, <2>3, <2>4, <2>5, <2>6, <2>7, MovesOn
<1> QED BY <1>1, <1>2, <1>3, <1>6, <1>7, <1>8 DEF FindInquiry

LEMMA FindCodeServes ==
    ASSUME IInv, NEW t \in Txns, Served(t), FindCode(t)
    PROVE  StillServes(t)
<1> PICK r \in Request : r = req[t]
    BY Mine
<1>1. /\ r.pc = "findCode" /\ Undisturbed(r, working) /\ Owes(r) /\ Synced(r, working)
    BY Mine1 DEF FindCode
<1>2. CASE Abort(t)
    BY <1>2, Aborts DEF Abort
<1>3. CASE Goes(t, [r EXCEPT !.pc = "findConsignment"]) /\ UNCHANGED storeVars
    <2>1. PICK z : z = [r EXCEPT !.pc = "findConsignment"]
        OBVIOUS
    <2>2. /\ z \in Request /\ z.pc = "findConsignment" /\ z.op = r.op /\ z.items = r.items
          /\ z.inq = r.inq /\ z.to = r.to /\ z.seen = r.seen /\ z.todo = r.todo
          /\ z.seenInq = r.seenInq
        <3>1. "findConsignment" \in Pcs
            BY DEF Pcs
        <3> QED BY <2>1, <3>1, NextPlace
    <2>3. Goes(t, z)
        BY <1>3, <2>1
    <2>4. Undisturbed(z, working)
        <3>1. LoadsFirst(z)
            BY <1>1, <2>2 DEF Undisturbed, LoadsFirst
        <3> QED BY <1>1, <2>2, <3>1 DEF Undisturbed, Shifting, Loaded
    <2>5. Owes(z) /\ Synced(z, working) /\ Pending(r) \subseteq Pending(z)
        BY <1>1, <2>2 DEF Owes, Purging, Shifting, Synced, Pending
    <2> QED BY <1>3, <2>2, <2>3, <2>4, <2>5, MovesOn
<1> QED BY <1>2, <1>3 DEF FindCode

LEMMA FindConsignmentServes ==
    ASSUME IInv, NEW t \in Txns, Served(t), FindConsignment(t)
    PROVE  StillServes(t)
<1> PICK r \in Request : r = req[t]
    BY Mine
<1>1. /\ Stored /\ Refers(r) /\ r.pc = "findConsignment" /\ r.to \in Inqs /\ r.to \in Rows
      /\ r.op \in Adders \cup {"shift"}
      /\ Undisturbed(r, working) /\ Owes(r) /\ Synced(r, working)
      /\ Read(t, r.to) = working[r.to]
    BY Mine1 DEF FindConsignment, Refers, Rows, Shifting, Purging
<1>2. PICK row \in InqRow : row = working[r.to]
    BY <1>1, ReadType
<1>3. PICK x \in InqRow : x = IF r.seenInq[r.to] = NoInq THEN row ELSE r.seenInq[r.to]
    BY <1>1 DEF Request
<1>4. PICK loaded \in Request : loaded = [r EXCEPT !.seenInq[r.to] = x]
    <2>1. [r EXCEPT !.seenInq[r.to] = x] \in Request
        BY <1>1 DEF Request
    <2> QED BY <2>1
<1>5. /\ loaded.pc = r.pc /\ loaded.op = r.op /\ loaded.items = r.items
      /\ loaded.status = r.status /\ loaded.inq = r.inq /\ loaded.to = r.to
      /\ loaded.seen = r.seen /\ loaded.left = r.left /\ loaded.todo = r.todo
      /\ loaded.seenQuote = r.seenQuote /\ loaded.seenInq[r.to] = x
      /\ \A d \in Inqs \ {r.to} : loaded.seenInq[d] = r.seenInq[d]
    BY <1>1, <1>4, LoadsHeader
<1>6. \A c \in Inqs : loaded.seenInq[c] = NoInq \/ Loaded(loaded, working, c)
    <2>1. SameHeader(x, working[r.to])
        BY <1>1, <1>2, <1>3 DEF Undisturbed, Loaded, SameHeader
    <2> QED BY <1>1, <1>5, <2>1 DEF Undisturbed, Loaded
<1>7. r.op = "shift" => /\ r.seen = working[Head(r.items)] /\ r.seen.life = "live"
                        /\ r.seen.inq = r.inq /\ working[r.inq].life = "live"
    BY <1>1 DEF Undisturbed, Shifting, Scoped
<1>8. CASE Received(t, loaded) /\ UNCHANGED storeVars
    <2>1. PICK W : W = working
        OBVIOUS
    <2>2. /\ Refers(loaded) /\ loaded.op \in Adders \cup {"shift"} /\ loaded.pc \in Shifting
          /\ loaded.to \in Inqs /\ Owes(loaded)
        BY <1>1, <1>5 DEF Refers, Adders, Shifting, Purging, Owes
    <2>3. /\ \A c \in Inqs : loaded.seenInq[c] = NoInq \/ Loaded(loaded, W, c)
          /\ loaded.op = "shift" => /\ loaded.seen = W[Head(loaded.items)]
                                    /\ loaded.seen.life = "live" /\ loaded.seen.inq = loaded.inq
        BY <1>5, <1>6, <1>7, <2>1
    <2>4. \E z \in Request : /\ Goes(t, z) /\ z.op = loaded.op /\ Undisturbed(z, W)
                             /\ Owes(z) /\ Synced(z, W)
        BY <1>8, <2>2, <2>3, ReceivedServes
    <2>5. PICK z \in Request : /\ Goes(t, z) /\ z.op = loaded.op /\ Undisturbed(z, working)
                              /\ Owes(z) /\ Synced(z, working)
        BY <2>1, <2>4
    <2>6. Pending(r) = {}
        BY <1>1 DEF Pending, Owes, Shifting
    <2> QED BY <1>5, <1>8, <2>5, <2>6, MovesOn
<1>9. ASSUME NEW pc \in {"reviveConsignment", "createConsignment"},
             Goes(t, [loaded EXCEPT !.pc = pc]),
             x.life = IF pc = "reviveConsignment" THEN "trash" ELSE "absent",
             UNCHANGED storeVars
      PROVE  StillServes(t)
    <2>1. PICK z : z = [loaded EXCEPT !.pc = pc]
        OBVIOUS
    <2>2. /\ z \in Request /\ z.pc = pc /\ z.op = r.op /\ z.items = r.items
          /\ z.inq = r.inq /\ z.to = r.to /\ z.seen = r.seen /\ z.todo = r.todo
          /\ z.seenInq = loaded.seenInq
        <3>1. pc \in Pcs
            BY DEF Pcs
        <3> QED BY <1>5, <2>1, <3>1, NextPlace
    <2>3. Goes(t, z)
        BY <1>9, <2>1
    <2>4. Undisturbed(z, working)
        <3>1. \A c \in Inqs : z.seenInq[c] = NoInq \/ Loaded(z, working, c)
            BY <1>6, <2>2 DEF Loaded
        <3>2. working[z.to].life = IF pc = "reviveConsignment" THEN "trash" ELSE "absent"
            BY <1>1, <1>2, <1>3, <1>9, <2>2 DEF Undisturbed, LoadsFirst
        <3>3. LoadsFirst(z)
            BY <2>2, LoadsLater
        <3> QED BY <1>7, <2>2, <3>1, <3>2, <3>3 DEF Undisturbed, Shifting
    <2>5. Owes(z)
        BY <1>1, <2>2 DEF Owes, Purging, Shifting
    <2>6. Synced(z, working)
        BY <1>1, <2>2 DEF Synced, QuoteSync, Adders
    <2>7. Pending(r) \subseteq Pending(z)
        BY <1>1, <2>2 DEF Pending
    <2> QED BY <1>9, <2>2, <2>3, <2>4, <2>5, <2>6, <2>7, MovesOn
<1> QED BY <1>1, <1>2, <1>3, <1>4, <1>8, <1>9 DEF FindConsignment

(* The consignment that receives lines is written: it is refreshed later. *)
LEMMA ReceiverWritten ==
    ASSUME IInv, NEW t \in Txns, Served(t), NEW s \in Request, Received(t, s), Refers(s),
           s.op = req[t].op, s.op \in Adders \cup {"shift"}, s.pc \in Shifting, s.to \in Inqs,
           Owes(s), Pending(req[t]) = {},
           NEW v, Write(t, s.to, v), SameHeader(s.seenInq[s.to], v) \/ s.seenInq[s.to] = NoInq,
           \A c \in Inqs \ {s.to} : s.seenInq[c] = NoInq \/ Loaded(s, working, c),
           s.op = "shift" => /\ s.seen = working[Head(s.items)] /\ s.seen.life = "live"
                             /\ s.seen.inq = s.inq /\ s.to # s.inq /\ Head(s.items) \in Items
    PROVE  StillServes(t)
<1>1. s.to \in Rows /\ s.to \notin Items /\ s.to \notin Quotes
    BY TablesAreDisjoint DEF Rows
<1>2. /\ working'[s.to] = v
      /\ \A y \in Rows \ {s.to} : working'[y] = working[y]
      /\ SameIn(Items, working, working') /\ SameIn(Quotes, working, working')
    BY <1>1, Mine, OneRow
<1>3. PICK W : W = working'
    OBVIOUS
<1>4. \A c \in Inqs : s.seenInq[c] = NoInq \/ Loaded(s, W, c)
    BY <1>2, <1>3 DEF Loaded, Rows
<1>5. s.op = "shift" => /\ s.seen = W[Head(s.items)] /\ s.seen.life = "live"
                        /\ s.seen.inq = s.inq
    BY <1>2, <1>3 DEF SameIn
<1>6. \E z \in Request :
             /\ Goes(t, z) /\ z.op = s.op
             /\ Pending(z) = IF s.op # "shift" THEN {s.to}
                             ELSE IF s.to = s.inq THEN {} ELSE {s.inq, s.to}
             /\ Undisturbed(z, W) /\ Owes(z) /\ Synced(z, W)
    BY <1>4, <1>5, ReceivedServes
<1>7. PICK z \in Request :
             /\ Goes(t, z) /\ z.op = s.op /\ s.to \in Pending(z)
             /\ Undisturbed(z, working') /\ Owes(z) /\ Synced(z, working')
    BY <1>3, <1>6
<1>8. Numbered(working) => Numbered(working')
    BY <1>2, VerdictsOfSameQuotes
<1> QED BY <1>1, <1>7, <1>8, WritesElsewhere

LEMMA ReviveConsignmentServes ==
    ASSUME IInv, NEW t \in Txns, Served(t), ReviveConsignment(t)
    PROVE  StillServes(t)
<1> PICK r \in Request : r = req[t]
    BY Mine
<1>1. /\ Stored /\ Refers(r) /\ r.pc = "reviveConsignment" /\ r.to \in Inqs /\ r.to \in Rows
      /\ r.op \in Adders \cup {"shift"} /\ r.pc \in Shifting
      /\ Undisturbed(r, working) /\ Owes(r)
    BY Mine1 DEF ReviveConsignment, Refers, Rows, Shifting, Purging
<1>2. PICK row \in InqRow : row = working[r.to]
    BY <1>1 DEF Stored, StoreOK
<1>3. PICK v : v = [row EXCEPT !.life = "live"]
    OBVIOUS
<1>4. SameHeader(v, row)
    BY <1>3 DEF SameHeader, InqRow
<1>5. Write(t, r.to, v) /\ Received(t, r)
    BY <1>2, <1>3 DEF ReviveConsignment
<1>6. r.op = "shift" => /\ r.seen = working[Head(r.items)] /\ r.seen.life = "live"
                        /\ r.seen.inq = r.inq /\ r.to # r.inq /\ Head(r.items) \in Items
    <2>1. r.op = "shift" => r.items # <<>>
        BY <1>1 DEF Refers
    <2> QED BY <1>1, <2>1 DEF Undisturbed, Shifting, Scoped, Request
<1>7. \A c \in Inqs : r.seenInq[c] = NoInq \/ Loaded(r, working, c)
    BY <1>1 DEF Undisturbed
<1>8. SameHeader(r.seenInq[r.to], v) \/ r.seenInq[r.to] = NoInq
    BY <1>1, <1>2, <1>4, <1>7 DEF Loaded, SameHeader
<1>9. Pending(r) = {}
    BY <1>1 DEF Pending, Owes, Shifting
<1> QED BY <1>1, <1>5, <1>6, <1>7, <1>8, <1>9, ReceiverWritten

LEMMA CreateConsignmentServes ==
    ASSUME IInv, NEW t \in Txns, Served(t), CreateConsignment(t)
    PROVE  StillServes(t)
<1> PICK r \in Request : r = req[t]
    BY Mine
<1>1. /\ Stored /\ Refers(r) /\ r.pc = "createConsignment" /\ r.to \in Inqs /\ r.to \in Rows
      /\ r.op \in Adders \cup {"shift"} /\ r.pc \in Shifting
      /\ Undisturbed(r, working) /\ Owes(r)
    BY Mine1 DEF CreateConsignment, Refers, Rows, Shifting, Purging
<1>2. CASE Abort(t)
    BY <1>2, Aborts DEF Abort
<1>3. PICK v \in InqRow : v = [NoInq EXCEPT !.life = "live"]
    <2>1. [NoInq EXCEPT !.life = "live"] \in InqRow
        BY BlankType DEF InqRow, Life
    <2> QED BY <2>1
<1>4. CASE Write(t, r.to, v) /\ Received(t, [r EXCEPT !.seenInq[r.to] = v])
    <2>1. PICK s \in Request : s = [r EXCEPT !.seenInq[r.to] = v]
        <3>1. r.to \in Inqs
            BY <1>1
        <3>2. [r EXCEPT !.seenInq[r.to] = v] \in Request
            BY ONLY r \in Request, v \in InqRow, <3>1 DEF Request
        <3> QED BY <3>2
    <2>2. /\ s.pc = r.pc /\ s.op = r.op /\ s.items = r.items
          /\ s.status = r.status /\ s.inq = r.inq /\ s.to = r.to
          /\ s.seen = r.seen /\ s.left = r.left /\ s.todo = r.todo
          /\ s.seenQuote = r.seenQuote /\ s.seenInq[r.to] = v
          /\ \A d \in Inqs \ {r.to} : s.seenInq[d] = r.seenInq[d]
        BY <1>1, <2>1, LoadsHeader
    <2>3. Refers(s) /\ Owes(s)
        BY <1>1, <2>2 DEF Refers, Owes, Shifting, Purging, Adders
    <2>4. r.op = "shift" => /\ r.seen = working[Head(r.items)] /\ r.seen.life = "live"
                            /\ r.seen.inq = r.inq /\ r.to # r.inq /\ Head(r.items) \in Items
        <3>1. r.op = "shift" => r.items # <<>>
            BY <1>1 DEF Refers
        <3> QED BY <1>1, <3>1 DEF Undisturbed, Shifting, Scoped, Request
    <2>5. \A c \in Inqs \ {r.to} : s.seenInq[c] = NoInq \/ Loaded(s, working, c)
        BY <1>1, <2>2 DEF Undisturbed, Loaded
    <2>6. Pending(r) = {}
        BY <1>1 DEF Pending, Owes, Shifting
    <2>7. SameHeader(s.seenInq[s.to], v)
        BY <2>2 DEF SameHeader
    <2>8. Write(t, s.to, v) /\ Received(t, s)
        BY <1>4, <2>1, <2>2
    <2> QED BY <1>1, <2>2, <2>3, <2>4, <2>5, <2>6, <2>7, <2>8, ReceiverWritten
<1> QED BY <1>2, <1>3, <1>4 DEF CreateConsignment

LEMMA InsertItemServes ==
    ASSUME IInv, NEW t \in Txns, Served(t), InsertItem(t)
    PROVE  StillServes(t)
<1> PICK r \in Request : r = req[t]
    BY Mine
<1>1. /\ Stored /\ Refers(r) /\ r.pc = "insertItem" /\ r.to \in Inqs
      /\ r.op \in Adders /\ r.left \in Nat /\ r.left > 0 /\ r.to \in r.todo
      /\ Undisturbed(r, working) /\ Owes(r)
    BY Mine1 DEF InsertItem, Refers, Owes, Request
<1>2. PICK i \in Items : Fresh(i) /\ Write(t, i, NewItem(r.to, r.status, r.qty))
    BY DEF InsertItem
<1>3. PICK v : v = NewItem(r.to, r.status, r.qty)
    OBVIOUS
<1>4. v.inq = r.to /\ (v.at <=> v.status = "approved")
    BY <1>3 DEF NewItem
<1>5. i \in Rows /\ i \notin Inqs /\ i \notin Quotes
    BY TablesAreDisjoint DEF Rows
<1>6. working[i].life = "absent"
    BY <1>1, <1>2, <1>5 DEF Fresh, Stored, UnlockedIsCommitted
<1>7. PICK pc \in Pcs : pc = IF r.left = 1 THEN "loadHeader" ELSE "insertItem"
    BY DEF Pcs
<1>8. PICK z : z = [r EXCEPT !.left = r.left - 1, !.pc = pc]
    OBVIOUS
<1>9. /\ z \in Request /\ z.pc = pc /\ z.op = r.op /\ z.to = r.to /\ z.todo = r.todo
      /\ z.seenInq = r.seenInq /\ z.items = r.items /\ z.seenQuote = r.seenQuote
    <2>1. r.left - 1 \in Nat
        BY <1>1
    <2> QED BY <1>8, <2>1 DEF Request
<1>10. Goes(t, z)
    BY <1>7, <1>8 DEF InsertItem
<1>11. /\ working'[i] = v /\ SameIn(Inqs, working, working')
    BY <1>1, <1>2, <1>3, <1>5, OneRow
<1>12. Undisturbed(z, working')
    <2>1. \A c \in Inqs : z.seenInq[c] = NoInq \/ Loaded(z, working', c)
        BY <1>1, <1>9, <1>11 DEF Undisturbed, Loaded, SameIn
    <2>2. LoadsFirst(z)
        BY <1>1, <1>7, <1>9, LoadsLater
    <2> QED BY <1>1, <1>7, <1>9, <2>1, <2>2 DEF Undisturbed, Adders, Shifting
<1>13. Owes(z)
    BY <1>1, <1>7, <1>9 DEF Owes, Purging, Adders, RefreshOps, Shifting
<1>14. Synced(z, working')
    BY <1>1, <1>9 DEF Synced, Adders, QuoteSync
<1>15. Pending(z) = Pending(r) /\ r.to \in Pending(z)
    BY <1>1, <1>9 DEF Pending, Adders
<1>16. \A c \in Inqs : i \in LinesOf(working, c) \/ i \in LinesOf(working', c) => c \in Pending(z)
    BY <1>4, <1>6, <1>11, <1>15 DEF LinesOf
<1> QED BY <1>2, <1>3, <1>4, <1>9, <1>10, <1>12, <1>13, <1>14, <1>15, <1>16, WritesLine

-----------------------------------------------------------------------------
(***************************************************************************)
(* Refreshing a header.                                                    *)
(***************************************************************************)
LEMMA LoadHeaderServes ==
    ASSUME IInv, NEW t \in Txns, Served(t), LoadHeader(t)
    PROVE  StillServes(t)
<1> PICK r \in Request : r = req[t]
    BY Mine
<1>1. /\ Stored /\ r.pc = "loadHeader" /\ r.todo \subseteq Inqs
      /\ Undisturbed(r, working) /\ Owes(r) /\ Synced(r, working)
      /\ \A x \in Rows : Read(t, x) = working[x]
    BY Mine1 DEF LoadHeader, Request
<1>2. PICK c \in r.todo :
        \/ Abort(t)
        \/ /\ Read(t, c).life = "live"
           /\ Goes(t, [r EXCEPT !.pc = "aggregate", !.header = c,
                               !.seenInq[c] = IF @ = NoInq THEN Read(t, c) ELSE @])
           /\ UNCHANGED storeVars
    BY DEF LoadHeader
<1>3. CASE Abort(t)
    BY <1>3, Aborts DEF Abort
<1>4. CASE /\ Read(t, c).life = "live"
           /\ Goes(t, [r EXCEPT !.pc = "aggregate", !.header = c,
                               !.seenInq[c] = IF @ = NoInq THEN Read(t, c) ELSE @])
           /\ UNCHANGED storeVars
    <2>1. c \in Inqs /\ c \in Rows
        BY <1>1 DEF Rows
    <2>2. PICK row \in InqRow : row = working[c] /\ row = Read(t, c)
        BY <1>1, <2>1, ReadType
    <2>3. PICK x \in InqRow : x = IF r.seenInq[c] = NoInq THEN row ELSE r.seenInq[c]
        BY <2>1 DEF Request
    <2>4. PICK z \in Request : z = [r EXCEPT !.pc = "aggregate", !.header = c, !.seenInq[c] = x]
        <3>1. [r EXCEPT !.pc = "aggregate", !.header = c, !.seenInq[c] = x] \in Request
            BY ONLY r \in Request, c \in Inqs, x \in InqRow DEF Request, Pcs
        <3> QED BY <3>1
    <2>5. /\ z.pc = "aggregate" /\ z.op = r.op /\ z.header = c
          /\ z.todo = r.todo /\ z.seenQuote = r.seenQuote
          /\ z.seenInq[c] = x /\ \A d \in Inqs \ {c} : z.seenInq[d] = r.seenInq[d]
        BY <2>1, <2>4 DEF Request
    <2>6. Goes(t, z)
        BY <1>4, <2>2, <2>3, <2>4
    <2>7. SameHeader(x, working[c])
        BY <1>1, <2>1, <2>2, <2>3 DEF Undisturbed, Loaded, SameHeader
    <2>8. Undisturbed(z, working)
        <3>1. \A d \in Inqs : z.seenInq[d] = NoInq \/ Loaded(z, working, d)
            BY <1>1, <2>5, <2>7 DEF Undisturbed, Loaded
        <3>2. z.header \in z.todo /\ working[z.header].life = "live" /\ Loaded(z, working, z.header)
            BY <1>4, <2>2, <2>5, <2>7 DEF Loaded
        <3>3. LoadsFirst(z)
            BY <2>5, LoadsLater
        <3> QED BY <2>5, <3>1, <3>2, <3>3 DEF Undisturbed, Shifting
    <2>9. Owes(z) /\ Synced(z, working) /\ Pending(r) \subseteq Pending(z)
        BY <1>1, <2>5 DEF Owes, Purging, Synced, Pending, Shifting
    <2> QED BY <1>4, <2>5, <2>6, <2>8, <2>9, MovesOn
<1> QED BY <1>2, <1>3, <1>4

LEMMA AggregateServes ==
    ASSUME IInv, NEW t \in Txns, Served(t), Aggregate(t)
    PROVE  StillServes(t)
<1> PICK r \in Request : r = req[t]
    BY Mine
<1>1. /\ Stored /\ r.pc = "aggregate"
      /\ Undisturbed(r, working) /\ Owes(r) /\ Synced(r, working)
      /\ Snapshot(t) = [x \in Rows |-> working[x]]
    BY Mine1 DEF Aggregate
<1>2. Rollup(Snapshot(t), r.header) = Rollup(working, r.header)
    <2>1. SameIn(Items, working, Snapshot(t))
        BY <1>1 DEF SameIn, Rows
    <2> QED BY <2>1, RollupsOfSameLines
<1>3. PICK roll \in [status : HeaderStatus, total : Totals] : roll = Rollup(working, r.header)
    <2>1. \A i \in Items : working[i] \in ItemRow
        BY <1>1 DEF Stored, StoreOK
    <2> QED BY <2>1, RollupType
<1>4. PICK z \in Request : z = [r EXCEPT !.pc = "storeHeader", !.roll = roll]
    <2>1. [r EXCEPT !.pc = "storeHeader", !.roll = roll] \in Request
        BY ONLY r \in Request, roll \in [status : HeaderStatus, total : Totals] DEF Request, Pcs
    <2> QED BY <2>1
<1>5. /\ z.pc = "storeHeader" /\ z.op = r.op /\ z.header = r.header
      /\ z.roll = roll /\ z.todo = r.todo /\ z.seenQuote = r.seenQuote /\ z.seenInq = r.seenInq
    BY <1>4 DEF Request
<1>6. Goes(t, z) /\ UNCHANGED storeVars
    BY <1>2, <1>3, <1>4 DEF Aggregate
<1>7. Undisturbed(z, working)
    <2>1. \A d \in Inqs : z.seenInq[d] = NoInq \/ Loaded(z, working, d)
        BY <1>1, <1>5 DEF Undisturbed, Loaded
    <2>2. z.header \in z.todo /\ working[z.header].life = "live" /\ Loaded(z, working, z.header)
        BY <1>1, <1>5 DEF Undisturbed, Loaded
    <2>3. LoadsFirst(z)
        BY <1>5, LoadsLater
    <2> QED BY <1>3, <1>5, <2>1, <2>2, <2>3 DEF Undisturbed, Shifting
<1>8. Owes(z) /\ Synced(z, working) /\ Pending(r) \subseteq Pending(z)
    BY <1>1, <1>5 DEF Owes, Purging, Synced, Pending, Shifting
<1> QED BY <1>5, <1>6, <1>7, <1>8, MovesOn

LEMMA StoreHeaderServes ==
    ASSUME IInv, NEW t \in Txns, Served(t), StoreHeader(t)
    PROVE  StillServes(t)
<1> PICK r \in Request : r = req[t]
    BY Mine
<1>1. /\ Stored /\ Refers(r) /\ r.pc = "storeHeader" /\ r.op \in RefreshOps
      /\ Undisturbed(r, working) /\ Owes(r) /\ Synced(r, working)
    BY Mine1 DEF StoreHeader, Owes
<1>2. PICK c \in Inqs : c = r.header
    BY <1>1 DEF Refers
<1>3. PICK now \in InqRow : now = working[c]
    BY <1>1 DEF Stored, StoreOK
<1>4. PICK old \in InqRow : old = r.seenInq[c]
    BY DEF Request
<1>5. PICK roll \in [status : HeaderStatus, total : Totals] : roll = r.roll
    BY DEF Request
<1>6. /\ c \in r.todo /\ now.life = "live" /\ old.status = now.status /\ old.total = now.total
      /\ roll = Rollup(working, c)
    BY <1>1, <1>2, <1>3, <1>4, <1>5 DEF Undisturbed, Loaded, SameHeader
<1>7. PICK v : v = [life |-> now.life, status |-> roll.status, total |-> roll.total]
    OBVIOUS
<1>8. v.life = "live" /\ [status |-> v.status, total |-> v.total] = roll
    BY <1>6, <1>7
<1>9. Write(t, c, v)
    <2>1. /\ Column(FALSE, r.roll.status, old.status, now.status) = roll.status
          /\ Column(FALSE, r.roll.total, old.total, now.total) = roll.total
        BY <1>5, <1>6 DEF Column
    <2> QED BY <1>2, <1>3, <1>4, <1>7, <2>1 DEF StoreHeader
<1>10. PICK pc \in Pcs : pc = IF r.todo = {c} THEN "commit" ELSE "loadHeader"
    BY DEF Pcs
<1>11. PICK none \in [status : HeaderStatus, total : Totals] : none = Blank.roll
    BY BlankType DEF Request
<1>12. PICK z \in Request :
         z = [r EXCEPT !.todo = r.todo \ {c}, !.header = None, !.roll = none,
                       !.seenInq[c] = NoInq, !.pc = pc]
    <2>1. NoInq \in InqRow
        BY BlankType
    <2>2. [r EXCEPT !.todo = r.todo \ {c}, !.header = None, !.roll = none,
                    !.seenInq[c] = NoInq, !.pc = pc] \in Request
        BY ONLY r \in Request, c \in Inqs, <2>1, pc \in Pcs,
                none \in [status : HeaderStatus, total : Totals] DEF Request
    <2> QED BY <2>2
<1>13. /\ z.pc = pc /\ z.op = r.op /\ z.todo = r.todo \ {c}
       /\ z.seenQuote = r.seenQuote
       /\ z.seenInq[c] = NoInq /\ \A d \in Inqs \ {c} : z.seenInq[d] = r.seenInq[d]
    BY <1>12 DEF Request
<1>14. Goes(t, z)
    BY <1>2, <1>10, <1>11, <1>12 DEF StoreHeader
<1>15. c \in Rows /\ c \notin Items /\ c \notin Quotes
    BY TablesAreDisjoint DEF Rows
<1>16. /\ working'[c] = v /\ \A y \in Rows \ {c} : working'[y] = working[y]
       /\ SameIn(Items, working, working') /\ SameIn(Quotes, working, working')
    BY <1>1, <1>9, <1>15, OneRow
<1>17. /\ Rollup(working', c) = Rollup(working, c)
       /\ \A i : HasApprovedQuote(working', i) <=> HasApprovedQuote(working, i)
       /\ Numbered(working) => Numbered(working')
    BY <1>16, RollupsOfSameLines, VerdictsOfSameQuotes
<1>18. Stores(working', c)
    BY <1>6, <1>8, <1>16, <1>17 DEF Stores
<1>19. Undisturbed(z, working')
    <2>1. \A d \in Inqs : z.seenInq[d] = NoInq \/ Loaded(z, working', d)
        BY <1>1, <1>13, <1>16 DEF Undisturbed, Loaded, Rows
    <2>2. LoadsFirst(z)
        BY <1>10, <1>13, LoadsLater
    <2> QED BY <1>10, <1>13, <2>1, <2>2 DEF Undisturbed, Shifting
<1>20. Owes(z)
    BY <1>1, <1>10, <1>13 DEF Owes, Purging, Shifting
<1>21. Synced(z, working')
    <2>1. r.op \in QuoteSync => r.seenQuote.item \in Items
        BY <1>1 DEF Synced
    <2> QED BY <1>1, <1>10, <1>13, <1>16, <1>17, <2>1 DEF Synced, SameIn
<1>22. Pending(r) = r.todo /\ Pending(z) = r.todo \ {c}
    BY <1>1, <1>10, <1>13 DEF Pending
<1> QED BY <1>1, <1>9, <1>13, <1>14, <1>15, <1>17, <1>18, <1>19, <1>20, <1>21, <1>22, WritesElsewhere

-----------------------------------------------------------------------------
(***************************************************************************)
(* Quotations.                                                             *)
(***************************************************************************)

(* At most statements a request only has to know the headers it loaded. *)
LEMMA UndisturbedElsewhere ==
    ASSUME NEW z, NEW W,
           z.pc \in {"findQuote", "writeQuote", "countApproved", "countQuotes", "findOwnCode",
                     "trashCode", "findAnyCode", "putCode", "findRow", "commit"} \cup Purging,
           \A c \in Inqs : z.seenInq[c] = NoInq \/ Loaded(z, W, c)
    PROVE  Undisturbed(z, W)
<1>1. LoadsFirst(z)
    BY LoadsLater DEF Purging
<1> QED BY <1>1 DEF Undisturbed, Shifting, Purging

LEMMA FindQuoteServes ==
    ASSUME IInv, NEW t \in Txns, Served(t), FindQuote(t)
    PROVE  StillServes(t)
<1>0. PICK r \in Request : r = req[t]
    BY Mine
<1>1. /\ Stored /\ r.pc = "findQuote" /\ r.quote \in Quotes /\ r.op \in QuoteSync
      /\ Undisturbed(r, working) /\ Owes(r)
    BY <1>0, Mine1 DEF FindQuote, Refers
<1>2. CASE Abort(t)
    BY <1>2, Aborts DEF Abort
<1>3. CASE /\ Goes(t, [r EXCEPT !.pc = "writeQuote", !.seenQuote = Read(t, r.quote)])
           /\ UNCHANGED storeVars
    <2>1. PICK row \in QuoteRow : row = Read(t, r.quote)
        BY <1>1, ReadType
    <2>2. PICK z \in Request : z = [r EXCEPT !.pc = "writeQuote", !.seenQuote = row]
        <3>1. [r EXCEPT !.pc = "writeQuote", !.seenQuote = row] \in Request
            BY ONLY r \in Request, row \in QuoteRow DEF Request, Pcs
        <3> QED BY <3>1
    <2>3. /\ z.pc = "writeQuote" /\ z.op = r.op /\ z.todo = r.todo /\ z.seenInq = r.seenInq
        BY <2>2 DEF Request
    <2>4. Goes(t, z)
        BY <1>3, <2>1, <2>2
    <2>5. Undisturbed(z, working)
        <3>1. \A c \in Inqs : z.seenInq[c] = NoInq \/ Loaded(z, working, c)
            BY <1>1, <2>3 DEF Undisturbed, Loaded
        <3> QED BY <2>3, <3>1, UndisturbedElsewhere
    <2>6. Owes(z) /\ Synced(z, working) /\ Pending(r) \subseteq Pending(z)
        BY <1>1, <2>3 DEF Owes, Purging, Synced, Pending, Shifting
    <2> QED BY <1>0, <1>3, <2>3, <2>4, <2>5, <2>6, MovesOn
<1> QED BY <1>0, <1>2, <1>3 DEF FindQuote

(* A quotation that is there keeps its number until it is purged. *)
LEMMA NumberKept ==
    ASSUME NEW s, NEW u, NEW k \in Quotes, SameIn(Quotes \ {k}, s, u), s[k].life # "absent",
           Exists(u[k]) => Exists(s[k]), u[k].life # "absent", u[k].num = s[k].num
    PROVE  Numbered(s) => Numbered(u)
<1> SUFFICES ASSUME Numbered(s), \A j \in Quotes : u[j].life # "absent" => Exists(u[j])
             PROVE  /\ \A j, l \in Quotes : u[j].life # "absent" /\ u[l].life # "absent"
                                            /\ u[j].num = u[l].num => j = l
                    /\ \A j \in Quotes : u[j].life # "absent" => u[j].num < NextNumber(u)
    BY DEF Numbered
<1>1. \A j \in Quotes : /\ u[j].num = s[j].num
                        /\ u[j].life # "absent" <=> s[j].life # "absent"
                        /\ Exists(u[j]) <=> Exists(s[j])
                        /\ s[j].life # "absent" => Exists(s[j])
    <2>1. \A j \in Quotes \ {k} : u[j] = s[j]
        BY DEF SameIn
    <2> QED BY <2>1
<1>2. {j \in Quotes : Exists(u[j])} = {j \in Quotes : Exists(s[j])}
    BY <1>1
<1>3. NextNumber(u) = NextNumber(s)
    BY <1>2 DEF NextNumber
<1> QED BY <1>1, <1>3 DEF Numbered

LEMMA OneMore ==
    ASSUME NEW S, IsFiniteSet(S), NEW x, x \notin S
    PROVE  Cardinality(S \cup {x}) = Cardinality(S) + 1 /\ Cardinality(S) \in Nat
BY FS_AddElement, FS_CardinalityType

(* A new quotation with the next number has a number of its own. *)
LEMMA NumberNew ==
    ASSUME NEW s, NEW u, NEW k \in Quotes, SameIn(Quotes \ {k}, s, u),
           \A j \in Quotes : s[j].num \in Nat,
           s[k].life = "absent", u[k].life = "live", u[k].num = NextNumber(s), Numbered(s)
    PROVE  Numbered(u)
<1> DEFINE known == {j \in Quotes : Exists(s[j])}
           with == {j \in Quotes : Exists(u[j])}
<1> SUFFICES ASSUME \A j \in Quotes : u[j].life # "absent" => Exists(u[j])
             PROVE  /\ \A j, l \in with : u[j].num = u[l].num => j = l
                    /\ \A j \in with : u[j].num < NextNumber(u)
    BY DEF Numbered
<1>0. /\ \A j \in Quotes \ {k} : u[j] = s[j]
      /\ ~Exists(s[k]) /\ Exists(u[k])
    BY DEF SameIn, Exists
<1>1. /\ with = known \cup {k} /\ k \notin known /\ IsFiniteSet(known)
    <2>1. IsFiniteSet(known)
        BY TablesAreFinite, FS_Subset
    <2>2. \A j \in Quotes : j \in with <=> j \in known \/ j = k
        BY <1>0
    <2> QED BY <1>0, <2>1, <2>2
<1>2. Cardinality(with) = Cardinality(known) + 1 /\ Cardinality(known) \in Nat
    BY <1>1, OneMore
<1>3. NextNumber(u) = NextNumber(s) + 1 /\ NextNumber(s) \in Nat
    BY <1>2 DEF NextNumber
<1>7. \A j \in Quotes : s[j].life # "absent" => Exists(s[j])
    BY <1>0
<1>4. /\ \A j \in known : u[j].num = s[j].num /\ s[j].num < NextNumber(s) /\ s[j].num \in Nat
      /\ \A j, l \in known : s[j].num = s[l].num => j = l
    <2>1. \A j \in known : s[j].life # "absent" /\ j # k
        BY <1>0 DEF Exists
    <2> QED BY <1>0, <1>7, <2>1 DEF Numbered
<1>5. \A j \in with : u[j].num < NextNumber(u)
    BY <1>1, <1>3, <1>4
<1>6. \A j, l \in with : u[j].num = u[l].num => j = l
    <2>1. \A j, l \in known : u[j].num = u[l].num => j = l
        BY <1>4
    <2>2. \A j \in known : u[j].num # u[k].num
        BY <1>3, <1>4
    <2> QED BY <1>1, <2>1, <2>2
<1> QED BY <1>5, <1>6

LEMMA WriteQuoteServes ==
    ASSUME IInv, NEW t \in Txns, Served(t), WriteQuote(t)
    PROVE  StillServes(t)
<1>0. PICK r \in Request : r = req[t]
    BY Mine
<1>1. /\ Stored /\ r.pc = "writeQuote" /\ r.quote \in Quotes /\ r.op \in QuoteSync
      /\ r.seenQuote.item \in Items /\ Known(r.quote)
      /\ Undisturbed(r, working) /\ Owes(r)
    BY <1>0, Mine1 DEF WriteQuote, Refers, KnownFor
<1>2. PICK k \in Quotes : k = r.quote
    BY <1>1
<1>3. PICK seenQuote \in QuoteRow : seenQuote = [NoQuote EXCEPT !.item = r.seenQuote.item]
    <2>1. [NoQuote EXCEPT !.item = r.seenQuote.item] \in QuoteRow
        BY <1>1, BlankType DEF QuoteRow
    <2> QED BY <2>1
<1>4. PICK z \in Request : z = [r EXCEPT !.pc = "countApproved", !.seenQuote = seenQuote]
    <2>1. [r EXCEPT !.pc = "countApproved", !.seenQuote = seenQuote] \in Request
        BY ONLY r \in Request, seenQuote \in QuoteRow DEF Request, Pcs
    <2> QED BY <2>1
<1>5. /\ z.pc = "countApproved" /\ z.op = r.op /\ z.todo = r.todo /\ z.seenInq = r.seenInq
    BY <1>4 DEF Request
<1>14. CASE Abort(t)
    BY <1>14, Aborts DEF Abort
<1>6. SUFFICES ASSUME Goes(t, z),
                      (r.op = "unquote" \/ r.status # r.seenQuote.status) => working[k].life # "purged",
                      IF r.op = "unquote" THEN Write(t, k, [working[k] EXCEPT !.life = "trash"])
                      ELSE IF r.status # r.seenQuote.status
                      THEN Write(t, k, [working[k] EXCEPT !.status = r.status])
                      ELSE UNCHANGED storeVars
               PROVE  StillServes(t)
    <2>1. \/ Abort(t)
          \/ /\ (r.op = "unquote" \/ r.status # r.seenQuote.status) => working[k].life # "purged"
             /\ IF r.op = "unquote" THEN Write(t, k, [working[k] EXCEPT !.life = "trash"])
                ELSE IF r.status # r.seenQuote.status
                THEN Write(t, k, [working[k] EXCEPT !.status = r.status])
                ELSE UNCHANGED storeVars
             /\ Goes(t, [r EXCEPT !.pc = "countApproved",
                                  !.seenQuote = [NoQuote EXCEPT !.item = r.seenQuote.item]])
        BY <1>0, <1>2 DEF WriteQuote
    <2>2. Goes(t, [r EXCEPT !.pc = "countApproved",
                            !.seenQuote = [NoQuote EXCEPT !.item = r.seenQuote.item]]) => Goes(t, z)
        BY <1>3, <1>4
    <2> QED BY <1>14, <2>1, <2>2
<1>7. \A W : Owes(z) /\ Synced(z, W) /\ Pending(z) = Pending(r)
    BY <1>1, <1>5 DEF Owes, Purging, Synced, Pending, Shifting
<1>8. CASE UNCHANGED storeVars
    <2>1. Undisturbed(z, working)
        BY <1>1, <1>5, UndisturbedElsewhere DEF Undisturbed, Loaded
    <2> QED BY <1>0, <1>5, <1>6, <1>7, <1>8, <2>1, MovesOn
<1>9. PICK now \in QuoteRow : now = working[k]
    BY <1>1 DEF Stored, StoreOK
<1>10. now.life # "absent"
    BY <1>1, <1>2, <1>9 DEF Stored, Kept, Known
<1>11. ASSUME NEW v, v.life # "absent", v.num = now.num, Write(t, k, v), now.life # "purged"
       PROVE  StillServes(t)
    <2>1. k \in Rows /\ k \notin Items /\ k \notin Inqs
        BY TablesAreDisjoint DEF Rows
    <2>2. /\ working'[k] = v /\ \A y \in Rows \ {k} : working'[y] = working[y]
          /\ SameIn(Inqs, working, working')
        BY <1>1, <1>11, <2>1, OneRow
    <2>3. Undisturbed(z, working')
        BY <1>1, <1>5, <2>2, UndisturbedElsewhere DEF Undisturbed, Loaded, SameIn
    <2>4. Numbered(working) => Numbered(working')
        <3>1. SameIn(Quotes \ {k}, working, working')
            BY <2>2 DEF SameIn, Rows
        <3>2. Exists(now)
            BY <1>10, <1>11 DEF QuoteRow, LineLife, Life, Exists
        <3> QED BY <1>9, <1>10, <1>11, <2>2, <3>1, <3>2, NumberKept
    <2> QED BY <1>0, <1>5, <1>6, <1>7, <1>11, <2>1, <2>3, <2>4, WritesElsewhere
<1>12. CASE r.op = "unquote"
    <2>1. PICK v : v = [now EXCEPT !.life = "trash"]
        OBVIOUS
    <2>2. v.life # "absent" /\ v.num = now.num
        BY <2>1 DEF QuoteRow
    <2> QED BY <1>6, <1>9, <1>11, <1>12, <2>1, <2>2
<1>13. CASE r.op # "unquote"
    <2>1. PICK v : v = [now EXCEPT !.status = r.status]
        OBVIOUS
    <2>2. v.life # "absent" /\ v.num = now.num
        BY <1>10, <2>1 DEF QuoteRow
    <2> QED BY <1>6, <1>8, <1>9, <1>11, <1>13, <2>1, <2>2
<1> QED BY <1>12, <1>13

LEMMA CountApprovedServes ==
    ASSUME IInv, NEW t \in Txns, Served(t), CountApproved(t)
    PROVE  StillServes(t)
<1>0. PICK r \in Request : r = req[t]
    BY Mine
<1>1. /\ Stored /\ r.pc = "countApproved" /\ r.op \in QuoteSync /\ r.seenQuote.item \in Items
      /\ Undisturbed(r, working) /\ Owes(r)
      /\ Snapshot(t) = [x \in Rows |-> working[x]]
    BY <1>0, Mine1 DEF CountApproved, Refers
<1>2. PICK i \in Items : i = r.seenQuote.item
    BY <1>1
<1>3. Verdict(Snapshot(t), i) = Verdict(working, i)
    <2>1. SameIn(Quotes, working, Snapshot(t))
        BY <1>1 DEF SameIn, Rows
    <2> QED BY <2>1, VerdictsOfSameQuotes
<1>4. PICK verdict \in ItemStatus : verdict = Verdict(working, i)
    BY DEF Verdict, ItemStatus
<1>5. PICK items \in Seq(Items) : items = <<i>>
    <2>1. <<i>> \in Seq(Items)
        OBVIOUS
    <2> QED BY <2>1
<1>6. PICK z \in Request : z = [r EXCEPT !.pc = "findItem", !.items = items, !.status = verdict]
    <2>1. [r EXCEPT !.pc = "findItem", !.items = items, !.status = verdict] \in Request
        BY ONLY r \in Request, items \in Seq(Items), verdict \in ItemStatus DEF Request, Pcs
    <2> QED BY <2>1
<1>7. /\ z.pc = "findItem" /\ z.op = r.op /\ z.items = items /\ z.status = verdict
      /\ z.todo = r.todo /\ z.seenInq = r.seenInq /\ z.seenQuote = r.seenQuote
    BY <1>6 DEF Request
<1>8. Goes(t, z) /\ UNCHANGED storeVars
    BY <1>0, <1>2, <1>3, <1>4, <1>5, <1>6 DEF CountApproved
<1>9. Undisturbed(z, working)
    <2>1. LoadsFirst(z)
        BY <1>1, <1>7, LoadsLater DEF QuoteSync
    <2> QED BY <1>1, <1>7, <2>1 DEF Undisturbed, Shifting, Loaded, QuoteSync
<1>10. Owes(z) /\ Pending(r) \subseteq Pending(z)
    BY <1>1, <1>7 DEF Owes, Purging, Pending, Shifting, QuoteSync, RefreshOps
<1>11. Synced(z, working)
    BY <1>2, <1>4, <1>5, <1>7 DEF Synced
<1> QED BY <1>0, <1>7, <1>8, <1>9, <1>10, <1>11, MovesOn

LEMMA CountQuotesServes ==
    ASSUME IInv, NEW t \in Txns, Served(t), CountQuotes(t)
    PROVE  StillServes(t)
<1>0. PICK r \in Request : r = req[t]
    BY Mine
<1>1. /\ r.pc = "countQuotes" /\ r.op = "quote" /\ Undisturbed(r, working) /\ Owes(r)
      /\ Snapshot(t) = [x \in Rows |-> working[x]]
    BY <1>0, Mine1 DEF CountQuotes, Refers
<1>2. PICK num \in Nat : num = NextNumber(Snapshot(t)) /\ num = NextNumber(working)
    <2>1. SameIn(Quotes, working, Snapshot(t))
        BY <1>1 DEF SameIn, Rows
    <2> QED BY <2>1, VerdictsOfSameQuotes, NextNumberType
<1>3. PICK z \in Request : z = [r EXCEPT !.pc = "insertQuote", !.num = num]
    <2>1. [r EXCEPT !.pc = "insertQuote", !.num = num] \in Request
        BY ONLY r \in Request, num \in Nat DEF Request, Pcs
    <2> QED BY <2>1
<1>4. /\ z.pc = "insertQuote" /\ z.op = r.op /\ z.num = num /\ z.todo = r.todo
      /\ z.seenInq = r.seenInq
    BY <1>3 DEF Request
<1>5. Goes(t, z) /\ UNCHANGED storeVars
    BY <1>0, <1>2, <1>3 DEF CountQuotes
<1>6. Undisturbed(z, working)
    <2>1. LoadsFirst(z)
        BY <1>1, <1>4, LoadsLater
    <2> QED BY <1>1, <1>2, <1>4, <2>1 DEF Undisturbed, Shifting, Loaded
<1>7. Owes(z) /\ Synced(z, working) /\ Pending(r) \subseteq Pending(z)
    BY <1>1, <1>4 DEF Owes, Purging, Synced, Pending, Shifting, QuoteSync
<1> QED BY <1>0, <1>4, <1>5, <1>6, <1>7, MovesOn

LEMMA InsertQuoteServes ==
    ASSUME IInv, NEW t \in Txns, Served(t), InsertQuote(t)
    PROVE  StillServes(t)
<1>0. PICK r \in Request : r = req[t]
    BY Mine
<1>1. /\ Stored /\ r.pc = "insertQuote" /\ r.op = "quote" /\ Undisturbed(r, working) /\ Owes(r)
    BY <1>0, Mine1 DEF InsertQuote, Refers
<1>14. CASE Abort(t)
    BY <1>14, Aborts DEF Abort
<1>2. SUFFICES ASSUME Goes(t, [r EXCEPT !.pc = "commit"]),
                      NEW k \in Quotes, Fresh(k),
                      Write(t, k, [life |-> "live", item |-> Head(r.items),
                                   status |-> "pending", num |-> r.num])
               PROVE  StillServes(t)
    BY <1>0, <1>14 DEF InsertQuote
<1>3. PICK v : v = [life |-> "live", item |-> Head(r.items), status |-> "pending", num |-> r.num]
    OBVIOUS
<1>4. v.life = "live" /\ v.num = NextNumber(working)
    BY <1>1, <1>3 DEF Undisturbed
<1>5. k \in Rows /\ k \notin Items /\ k \notin Inqs
    BY TablesAreDisjoint DEF Rows
<1>6. /\ working'[k] = v /\ \A y \in Rows \ {k} : working'[y] = working[y]
      /\ SameIn(Inqs, working, working')
    BY <1>1, <1>2, <1>3, <1>5, OneRow
<1>7. Numbered(working) => Numbered(working')
    <2>1. SameIn(Quotes \ {k}, working, working')
        BY <1>6 DEF SameIn, Rows
    <2>2. working[k].life = "absent"
        BY <1>1, <1>2, <1>5 DEF Fresh, Stored, UnlockedIsCommitted
    <2>3. \A j \in Quotes : working[j].num \in Nat
        BY <1>1 DEF Stored, StoreOK, QuoteRow
    <2> QED BY <1>4, <1>6, <2>1, <2>2, <2>3, NumberNew
<1>8. "commit" \in Pcs
    BY DEF Pcs
<1>9. PICK z : z = [r EXCEPT !.pc = "commit"]
    OBVIOUS
<1>10. /\ z \in Request /\ z.pc = "commit" /\ z.op = r.op /\ z.todo = r.todo
       /\ z.seenInq = r.seenInq
    BY <1>8, <1>9, NextPlace
<1>11. Goes(t, z)
    BY <1>2, <1>9
<1>12. Undisturbed(z, working')
    BY <1>1, <1>6, <1>10, UndisturbedElsewhere DEF Undisturbed, Loaded, SameIn
<1>13. Owes(z) /\ Synced(z, working') /\ Pending(z) = Pending(r)
    BY <1>1, <1>10 DEF Owes, Purging, Synced, Pending, Shifting, QuoteSync, RefreshOps, Scoped
<1> QED BY <1>0, <1>2, <1>3, <1>5, <1>7, <1>10, <1>11, <1>12, <1>13, WritesElsewhere

-----------------------------------------------------------------------------
(***************************************************************************)
(* Consignments, codes and the trash.                                      *)
(***************************************************************************)

(* A request that refreshes nothing goes on. *)
LEMMA PlainMove ==
    ASSUME IInv, NEW t \in Txns, Served(t), req[t].op \notin RefreshOps,
           NEW z \in Request, Goes(t, z), UNCHANGED storeVars, z.op = req[t].op,
           z.pc \in {"findOwnCode", "trashCode", "putCode", "commit"} \cup Purging,
           z.todo = req[t].todo, z.seenInq = req[t].seenInq
    PROVE  StillServes(t)
<1>1. Undisturbed(req[t], working) /\ Owes(req[t])
    BY Mine1
<1>2. Undisturbed(z, working)
    BY <1>1, UndisturbedElsewhere DEF Undisturbed, Loaded
<1>3. Owes(z) /\ Synced(z, working) /\ Pending(req[t]) \subseteq Pending(z)
    BY <1>1 DEF Owes, Synced, Pending, Shifting, Purging, QuoteSync, RefreshOps, Scoped
<1> QED BY <1>2, <1>3, MovesOn

(* The same with a row that is neither line nor quotation, which leaves a  *)
(* header with the rollup it had.                                          *)
LEMMA PlainWrite ==
    ASSUME IInv, NEW t \in Txns, Served(t), req[t].op \notin RefreshOps,
           NEW pc \in {"findOwnCode", "commit"}, Goes(t, [req[t] EXCEPT !.pc = pc]),
           NEW x \in Inqs \cup Codes, NEW v, Write(t, x, v),
           x \in Inqs => SameHeader(v, working[x]) /\ working[x].life # "absent"
    PROVE  StillServes(t)
<1>0. PICK r \in Request : r = req[t]
    BY Mine
<1>1. Stored /\ Undisturbed(r, working) /\ Owes(r)
    BY <1>0, Mine1
<1>2. PICK z : z = [r EXCEPT !.pc = pc]
    OBVIOUS
<1>3. /\ z \in Request /\ z.pc = pc /\ z.op = r.op /\ z.todo = r.todo /\ z.seenInq = r.seenInq
    <2>1. pc \in Pcs
        BY DEF Pcs
    <2> QED BY <1>2, <2>1, NextPlace
<1>4. Goes(t, z)
    BY <1>0, <1>2
<1>5. x \in Rows /\ x \notin Items /\ x \notin Quotes
    BY TablesAreDisjoint DEF Rows
<1>6. /\ working'[x] = v /\ \A y \in Rows \ {x} : working'[y] = working[y]
      /\ SameIn(Quotes, working, working')
    BY <1>1, <1>5, OneRow
<1>7. Numbered(working) => Numbered(working')
    BY <1>6, VerdictsOfSameQuotes
<1>8. \A c \in Inqs : z.seenInq[c] = NoInq \/ Loaded(z, working', c)
    BY <1>1, <1>3, <1>6 DEF Undisturbed, Loaded, SameHeader, Rows
<1>9. Undisturbed(z, working')
    BY <1>3, <1>8, UndisturbedElsewhere
<1>10. Owes(z) /\ Synced(z, working') /\ Pending(z) = Pending(r) /\ Pending(r) = {}
    BY <1>0, <1>1, <1>3 DEF Owes, Purging, Synced, Pending, Shifting, QuoteSync, RefreshOps, Scoped
<1> QED BY <1>0, <1>3, <1>4, <1>5, <1>7, <1>9, <1>10, WritesElsewhere

LEMMA TrashInquiryServes ==
    ASSUME IInv, NEW t \in Txns, Served(t), TrashInquiry(t)
    PROVE  StillServes(t)
<1>1. /\ Stored /\ req[t].pc = "trashInquiry" /\ req[t].inq \in Inqs
      /\ req[t].op \notin RefreshOps /\ working[req[t].inq].life # "absent"
    BY Mine1 DEF TrashInquiry, Refers, Owes, Undisturbed
<1>2. PICK c \in Inqs : c = req[t].inq
    BY <1>1
<1>3. PICK v : v = [working[c] EXCEPT !.life = "trash"]
    OBVIOUS
<1>4. SameHeader(v, working[c])
    BY <1>1, <1>3 DEF Stored, StoreOK, InqRow, SameHeader
<1>5. Write(t, c, v) /\ Goes(t, [req[t] EXCEPT !.pc = "findOwnCode"])
    BY <1>2, <1>3 DEF TrashInquiry
<1> QED BY <1>1, <1>2, <1>4, <1>5, PlainWrite

LEMMA FindOwnCodeServes ==
    ASSUME IInv, NEW t \in Txns, Served(t), FindOwnCode(t)
    PROVE  StillServes(t)
<1>1. req[t] \in Request /\ req[t].pc = "findOwnCode" /\ req[t].op \notin RefreshOps
    BY Mine1 DEF FindOwnCode, Owes
<1>2. PICK pc \in Pcs : pc = IF Read(t, Code(req[t].inq)).life = "live"
                             THEN "trashCode" ELSE "commit"
    BY DEF Pcs
<1>3. PICK z : z = [req[t] EXCEPT !.pc = pc]
    OBVIOUS
<1>4. /\ z \in Request /\ z.pc = pc /\ z.op = req[t].op /\ z.todo = req[t].todo
      /\ z.seenInq = req[t].seenInq
    BY <1>1, <1>3, NextPlace
<1>5. Goes(t, z) /\ UNCHANGED storeVars
    BY <1>2, <1>3 DEF FindOwnCode
<1> QED BY <1>1, <1>2, <1>4, <1>5, PlainMove

LEMMA TrashCodeServes ==
    ASSUME IInv, NEW t \in Txns, Served(t), TrashCode(t)
    PROVE  StillServes(t)
<1>1. req[t].pc = "trashCode" /\ req[t].inq \in Inqs /\ req[t].op \notin RefreshOps
    BY Mine1 DEF TrashCode, Refers, Owes
<1>2. PICK c \in Codes : c = Code(req[t].inq)
    BY <1>1 DEF Codes
<1>3. PICK v : v = [life |-> "trash"]
    OBVIOUS
<1>4. Write(t, c, v) /\ Goes(t, [req[t] EXCEPT !.pc = "commit"])
    BY <1>2, <1>3 DEF TrashCode
<1>5. c \notin Inqs
    BY TablesAreDisjoint
<1> QED BY <1>1, <1>4, <1>5, PlainWrite

LEMMA FindAnyCodeServes ==
    ASSUME IInv, NEW t \in Txns, Served(t), FindAnyCode(t)
    PROVE  StillServes(t)
<1>0. PICK r \in Request : r = req[t]
    BY Mine
<1>1. Stored /\ r.pc = "findAnyCode" /\ r.inq \in Inqs /\ r.op \notin RefreshOps
    BY <1>0, Mine1 DEF FindAnyCode, Refers, Owes
<1>2. CASE Abort(t)
    BY <1>2, Aborts DEF Abort
<1>3. CASE /\ Goes(t, [r EXCEPT !.pc = "putCode", !.seenCode = Read(t, Code(r.inq)).life])
           /\ UNCHANGED storeVars
    <2>1. PICK life \in Life : life = Read(t, Code(r.inq)).life
        <3>1. Code(r.inq) \in Codes
            BY <1>1 DEF Codes
        <3>2. Read(t, Code(r.inq)) \in CodeRow
            BY <1>1, <3>1, ReadType
        <3> QED BY <3>2 DEF CodeRow
    <2>2. PICK z \in Request : z = [r EXCEPT !.pc = "putCode", !.seenCode = life]
        <3>1. [r EXCEPT !.pc = "putCode", !.seenCode = life] \in Request
            BY ONLY r \in Request, life \in Life DEF Request, Pcs
        <3> QED BY <3>1
    <2>3. z.pc = "putCode" /\ z.op = r.op /\ z.todo = r.todo /\ z.seenInq = r.seenInq
        BY <2>2 DEF Request
    <2>4. Goes(t, z)
        BY <1>3, <2>1, <2>2
    <2> QED BY <1>0, <1>1, <1>3, <2>3, <2>4, PlainMove
<1> QED BY <1>0, <1>2, <1>3 DEF FindAnyCode

LEMMA PutCodeServes ==
    ASSUME IInv, NEW t \in Txns, Served(t), PutCode(t)
    PROVE  StillServes(t)
<1>1. req[t].pc = "putCode" /\ req[t].inq \in Inqs /\ req[t].op \notin RefreshOps
    BY Mine1 DEF PutCode, Refers, Owes
<1>2. PICK c \in Codes : c = Code(req[t].inq)
    BY <1>1 DEF Codes
<1>3. PICK v : v = [life |-> "live"]
    OBVIOUS
<1>4. CASE Abort(t)
    BY <1>4, Aborts DEF Abort
<1>5. CASE Write(t, c, v) /\ Goes(t, [req[t] EXCEPT !.pc = "commit"])
    <2>1. c \notin Inqs
        BY TablesAreDisjoint
    <2> QED BY <1>1, <1>5, <2>1, PlainWrite
<1> QED BY <1>2, <1>3, <1>4, <1>5 DEF PutCode

LEMMA FindRowServes ==
    ASSUME IInv, NEW t \in Txns, Served(t), FindRow(t)
    PROVE  StillServes(t)
<1>0. PICK r \in Request : r = req[t]
    BY Mine
<1>1. /\ r.pc = "findRow" /\ r.op \notin RefreshOps /\ r.row \in Items \cup Inqs \cup Codes
      /\ Undisturbed(r, working) /\ Owes(r) /\ \A x \in Rows : Read(t, x) = working[x]
    BY <1>0, Mine1 DEF FindRow, Refers, Owes
<1>2. CASE Abort(t)
    BY <1>2, Aborts DEF Abort
<1>3. CASE /\ Exists(Read(t, r.row)) /\ UNCHANGED storeVars
           /\ Goes(t, [r EXCEPT !.pc = IF r.op = "purgeLine" THEN "purgeQuotes"
                                       ELSE IF Read(t, r.row).life = "trash" THEN "restoreRow"
                                       ELSE "commit"])
    <2>1. PICK pc \in Pcs : pc = IF r.op = "purgeLine" THEN "purgeQuotes"
                                 ELSE IF Read(t, r.row).life = "trash" THEN "restoreRow" ELSE "commit"
        BY DEF Pcs
    <2>2. PICK z : z = [r EXCEPT !.pc = pc]
        OBVIOUS
    <2>3. /\ z \in Request /\ z.pc = pc /\ z.op = r.op /\ z.todo = r.todo
          /\ z.seenInq = r.seenInq /\ z.row = r.row
        BY <2>2, NextPlace
    <2>4. Goes(t, z)
        BY <1>3, <2>1, <2>2
    <2>5. working[r.row].life # "absent"
        BY <1>1, <1>3 DEF Rows, Exists
    <2>6. Undisturbed(z, working)
        <3>1. \A c \in Inqs : z.seenInq[c] = NoInq \/ Loaded(z, working, c)
            BY <1>1, <2>3 DEF Undisturbed, Loaded
        <3>2. LoadsFirst(z)
            BY <2>1, <2>3, LoadsLater
        <3> QED BY <2>1, <2>3, <2>5, <3>1, <3>2 DEF Undisturbed, Shifting
    <2>7. Owes(z) /\ Synced(z, working) /\ Pending(r) \subseteq Pending(z)
        BY <1>1, <2>1, <2>3 DEF Owes, Synced, Pending, Shifting, Purging, QuoteSync, RefreshOps, Scoped
    <2> QED BY <1>0, <1>3, <2>3, <2>4, <2>6, <2>7, MovesOn
<1> QED BY <1>0, <1>2, <1>3 DEF FindRow

(* A line is taken out of the trash, or deleted for good. *)
LEMMA LineMoved ==
    ASSUME IInv, NEW t \in Txns, Served(t), req[t].op \in LineTrashOps, NEW i \in Items, NEW life,
           NEW v, v = [working[i] EXCEPT !.life = life], Write(t, i, v),
           NEW pc \in Purging \cup {"commit"}, Goes(t, [req[t] EXCEPT !.pc = pc])
    PROVE  StillServes(t)
<1>0. PICK r \in Request : r = req[t]
    BY Mine
<1>1. /\ Stored /\ r.op \in LineTrashOps /\ r.op \notin RefreshOps
      /\ Undisturbed(r, working) /\ Owes(r)
    BY <1>0, Mine1 DEF LineTrashOps, RefreshOps, Scoped, QuoteSync
<1>2. i \in Rows /\ i \notin Inqs /\ i \notin Quotes
    BY TablesAreDisjoint DEF Rows
<1>3. working'[i] = v /\ SameIn(Inqs, working, working')
    BY <1>1, <1>2, OneRow
<1>4. PICK z : z = [r EXCEPT !.pc = pc]
    OBVIOUS
<1>5. /\ z \in Request /\ z.pc = pc /\ z.op = r.op /\ z.todo = r.todo
      /\ z.seenInq = r.seenInq
    <2>1. pc \in Pcs
        BY DEF Pcs, Purging
    <2> QED BY <1>4, <2>1, NextPlace
<1>6. Goes(t, z)
    BY <1>0, <1>4
<1>7. Undisturbed(z, working')
    BY <1>1, <1>3, <1>5, UndisturbedElsewhere DEF Undisturbed, Loaded, SameIn
<1>8. Owes(z) /\ Synced(z, working') /\ Pending(r) \subseteq Pending(z)
    BY <1>1, <1>5 DEF Owes, Synced, Pending, Shifting, Purging, QuoteSync, RefreshOps, Scoped
<1>9. v.at = working[i].at /\ v.status = working[i].status
    BY <1>1 DEF Stored, StoreOK, ItemRow
<1>10. Stamped(working) => (v.at <=> v.status = "approved")
    BY <1>9 DEF Stamped
<1> QED BY <1>0, <1>1, <1>5, <1>6, <1>7, <1>8, <1>10, WritesLine

LEMMA RestoreRowServes ==
    ASSUME IInv, NEW t \in Txns, Served(t), RestoreRow(t)
    PROVE  StillServes(t)
<1>0. PICK r \in Request : r = req[t]
    BY Mine
<1>1. /\ Stored /\ r.pc = "restoreRow" /\ r.op \notin RefreshOps
      /\ (r.op = "restoreLine" /\ r.row \in Items) \/ r.row \in Inqs \cup Codes
      /\ Undisturbed(r, working) /\ Owes(r)
    BY <1>0, Mine1 DEF RestoreRow, Refers, Owes
<1>2. PICK x : x = r.row
    OBVIOUS
<1>3. PICK v : v = [working[x] EXCEPT !.life = "live"]
    OBVIOUS
<1>7. CASE Abort(t)
    BY <1>7, Aborts DEF Abort
<1>4. SUFFICES ASSUME Write(t, x, v), Goes(t, [r EXCEPT !.pc = "commit"])
               PROVE  StillServes(t)
    BY <1>0, <1>2, <1>3, <1>7 DEF RestoreRow
<1>5. CASE x \in Inqs \cup Codes
    <2>1. x \in Inqs => SameHeader(v, working[x]) /\ working[x].life # "absent"
        BY <1>1, <1>2, <1>3 DEF Stored, StoreOK, InqRow, SameHeader, Undisturbed
    <2> QED BY <1>0, <1>1, <1>4, <1>5, <2>1, PlainWrite
<1>6. CASE r.op = "restoreLine" /\ x \in Items
    <2>1. "commit" \in Purging \cup {"commit"} /\ r.op \in LineTrashOps
        BY <1>6 DEF LineTrashOps
    <2> QED BY <1>0, <1>1, <1>3, <1>4, <1>6, <2>1, LineMoved
<1> QED BY <1>1, <1>2, <1>5, <1>6

LEMMA PurgeQuoteServes ==
    ASSUME IInv, NEW t \in Txns, Served(t), PurgeQuote(t)
    PROVE  StillServes(t)
<1>0. PICK r \in Request : r = req[t]
    BY Mine
<1>1. /\ Stored /\ r.pc \in {"purgeQuotes", "cascade"} /\ r.op = "purgeLine" /\ r.op \notin RefreshOps
      /\ Undisturbed(r, working) /\ Owes(r) /\ Synced(r, working)
      /\ \A x \in Rows : Read(t, x) = working[x]
    BY <1>0, Mine1 DEF PurgeQuote, Refers, Owes, Purging
<1>2. CASE /\ Goes(t, [r EXCEPT !.pc = IF @ = "cascade" THEN "commit" ELSE "purgeItem"])
           /\ UNCHANGED storeVars
    <2>1. PICK pc \in Pcs : pc = IF r.pc = "cascade" THEN "commit" ELSE "purgeItem"
        BY DEF Pcs
    <2>2. PICK z : z = [r EXCEPT !.pc = pc]
        OBVIOUS
    <2>3. /\ z \in Request /\ z.pc = pc /\ z.op = r.op /\ z.todo = r.todo
          /\ z.seenInq = r.seenInq
        BY <2>2, NextPlace
    <2>4. Goes(t, z)
        BY <1>2, <2>1, <2>2
    <2>5. z.pc \in {"commit"} \cup Purging
        BY <2>1, <2>3 DEF Purging
    <2> QED BY <1>0, <1>1, <1>2, <2>3, <2>4, <2>5, PlainMove
<1>3. ASSUME NEW k \in Dependent(t, r), Goes(t, r),
             Write(t, k, [working[k] EXCEPT !.life = "purged"])
      PROVE  StillServes(t)
    <2>1. k \in Quotes /\ k \in Rows /\ k \notin Items /\ k \notin Inqs
        BY TablesAreDisjoint DEF Dependent, Rows
    <2>2. PICK now \in QuoteRow : now = working[k]
        BY <1>1, <2>1 DEF Stored, StoreOK
    <2>3. now.life # "absent"
        BY <1>1, <2>1, <2>2 DEF Dependent
    <2>4. PICK v : v = [now EXCEPT !.life = "purged"]
        OBVIOUS
    <2>5. v.life = "purged" /\ v.num = now.num
        BY <2>4 DEF QuoteRow
    <2>6. Write(t, k, v)
        BY <1>3, <2>2, <2>4
    <2>7. /\ working'[k] = v /\ \A y \in Rows \ {k} : working'[y] = working[y]
          /\ SameIn(Inqs, working, working')
        BY <1>1, <2>1, <2>6, OneRow
    <2>8. Numbered(working) => Numbered(working')
        <3>1. SameIn(Quotes \ {k}, working, working')
            BY <2>7 DEF SameIn, Rows
        <3>2. ~Exists(v) /\ v.life # "absent"
            BY <2>5 DEF Exists
        <3> QED BY <2>1, <2>2, <2>3, <2>5, <2>7, <3>1, <3>2, NumberKept
    <2>9. Undisturbed(r, working')
        <3>1. r.pc \in Purging
            BY <1>1 DEF Purging
        <3> QED BY <1>1, <2>7, <3>1, UndisturbedElsewhere DEF Undisturbed, Loaded, SameIn
    <2>10. Synced(r, working')
        BY <1>1 DEF Synced, QuoteSync
    <2> QED BY <1>0, <1>1, <1>3, <2>1, <2>6, <2>8, <2>9, <2>10, WritesElsewhere
<1> QED BY <1>0, <1>2, <1>3 DEF PurgeQuote

LEMMA PurgeItemServes ==
    ASSUME IInv, NEW t \in Txns, Served(t), PurgeItem(t)
    PROVE  StillServes(t)
<1>1. req[t].row \in Items /\ req[t].op \in LineTrashOps
    BY Mine1 DEF PurgeItem, Refers, Purging, LineTrashOps
<1>2. PICK i \in Items : i = req[t].row
    BY <1>1
<1>3. PICK v : v = [working[i] EXCEPT !.life = "purged"]
    OBVIOUS
<1>4. Write(t, i, v) /\ Goes(t, [req[t] EXCEPT !.pc = "cascade"]) /\ "cascade" \in Purging \cup {"commit"}
    BY <1>2, <1>3 DEF PurgeItem, Purging
<1> QED BY <1>1, <1>3, <1>4, LineMoved

LEMMA StepServes ==
    ASSUME IInv, NEW t \in Txns, Served(t), Step(t)
    PROVE  StillServes(t)
<1>1. CASE Commit(t)
    BY <1>1, Aborts DEF Commit
<1> QED BY <1>1, FindItemServes, WriteItemServes, FindInquiryServes, FindCodeServes,
           FindConsignmentServes, ReviveConsignmentServes, CreateConsignmentServes,
           InsertItemServes, LoadHeaderServes, AggregateServes, StoreHeaderServes,
           FindQuoteServes, WriteQuoteServes, CountApprovedServes, CountQuotesServes,
           InsertQuoteServes, TrashInquiryServes, FindOwnCodeServes, TrashCodeServes,
           FindAnyCodeServes, PutCodeServes, FindRowServes, RestoreRowServes,
           PurgeQuoteServes, PurgeItemServes DEF Step

-----------------------------------------------------------------------------
(***************************************************************************)
(* SoloInv is inductive.                                                   *)
(***************************************************************************)

(* With nobody else active, nobody else has locked anything. *)
LEMMA AloneIsServed ==
    ASSUME IInv, SoloInv, NEW t \in Txns, req[t].alone
    PROVE  Served(t) /\ \A u \in Txns \ {t} : ~Active(u)
<1>1. Stored
    BY Split
<1>2. (\A u \in Txns \ {t} : ~Active(u)) /\ Serves(t, req[t], committed, working, owner)
    BY DEF SoloInv
<1>3. \A x \in Rows : owner[x] \in {Free, t}
    BY <1>1, <1>2 DEF Stored, Rights
<1>4. \A x \in Rows : Read(t, x) = working[x]
    BY <1>1, <1>3 DEF Stored, UnlockedIsCommitted, Read
<1> QED BY <1>2, <1>4 DEF Served

(* A step of t leaves the other requests alone, and t's own is over or     *)
(* still the same.                                                         *)
Keeps(t) ==
    /\ \A u \in Txns \ {t} : req'[u] = req[u]
    /\ req'[t] = Blank \/ (req'[t].alone = req[t].alone /\ req'[t].op = req[t].op)

LEMMA GoesKeeps ==
    ASSUME Asking, NEW t \in Txns, NEW z, Goes(t, z),
           z = Blank \/ (z.alone = req[t].alone /\ z.op = req[t].op)
    PROVE  Keeps(t)
BY DEF Asking, Goes, Keeps

LEMMA AbortKeeps ==
    ASSUME Asking, NEW t \in Txns, Goes(t, Blank)
    PROVE  Keeps(t)
BY GoesKeeps

LEMMA AfterItemKeeps ==
    ASSUME Asking, NEW t \in Txns, NEW s \in Request, AfterItem(t, s),
           s.alone = req[t].alone /\ s.op = req[t].op
    PROVE  Keeps(t)
<1>1. PICK pc \in Pcs : Goes(t, [s EXCEPT !.pc = pc])
    BY DEF AfterItem, Pcs
<1>2. [s EXCEPT !.pc = pc].alone = s.alone /\ [s EXCEPT !.pc = pc].op = s.op
    BY DEF Request
<1> QED BY <1>1, <1>2, GoesKeeps

LEMMA StepKeeps ==
    ASSUME IInv, NEW t \in Txns, Step(t)
    PROVE  Active(t) /\ Keeps(t)
<1>0. PICK r \in Request : r = req[t]
    BY Mine
<1>1. Asking /\ (Goes(t, Blank) => Keeps(t))
    BY Mine, AbortKeeps
<1>2. ASSUME NEW z, Goes(t, z), z.alone = r.alone, z.op = r.op PROVE Keeps(t)
    BY <1>0, <1>1, <1>2, GoesKeeps
<1>3. CASE FindItem(t)
    <2>1. r.pc = "findItem" /\ Tail(r.items) \in Seq(Items)
        BY <1>0, <1>3, Mine DEF FindItem, Refers, Request
    <2>2. CASE AfterItem(t, [r EXCEPT !.items = Tail(r.items)])
        <3>1. PICK items \in Seq(Items) : items = Tail(r.items)
            BY <2>1
        <3>2. [r EXCEPT !.items = items] \in Request
            BY ONLY r \in Request, items \in Seq(Items) DEF Request
        <3>3. [r EXCEPT !.items = items].alone = r.alone /\ [r EXCEPT !.items = items].op = r.op
            BY ONLY r \in Request DEF Request
        <3>4. AfterItem(t, [r EXCEPT !.items = items])
            BY <2>2, <3>1
        <3> QED BY <1>0, <1>1, <2>1, <3>2, <3>3, <3>4, AfterItemKeeps DEF Active
    <2>3. PICK row, pc :
            /\ row = Read(t, Head(r.items))
            /\ pc = IF r.op = "shift" THEN "findInquiry"
                    ELSE IF r.op = "quote" THEN "countQuotes" ELSE "writeItem"
        OBVIOUS
    <2>4. CASE Goes(t, [r EXCEPT !.seen = row, !.pc = pc])
        <3>1. [r EXCEPT !.seen = row, !.pc = pc].alone = r.alone
              /\ [r EXCEPT !.seen = row, !.pc = pc].op = r.op
            BY ONLY r \in Request DEF Request
        <3> QED BY <1>0, <1>2, <2>1, <2>4, <3>1 DEF Active
    <2>5. \/ Goes(t, Blank)
          \/ Goes(t, [r EXCEPT !.seen = row, !.pc = pc])
          \/ AfterItem(t, [r EXCEPT !.items = Tail(r.items)])
        BY <1>0, <1>3, <2>3 DEF FindItem, Abort
    <2> QED BY <1>0, <1>1, <2>1, <2>2, <2>4, <2>5 DEF Active
<1>4. CASE WriteItem(t)
    <2>1. r.pc = "writeItem"
        BY <1>0, <1>4 DEF WriteItem
    <2>5. CASE Abort(t)
        BY <1>0, <1>1, <2>1, <2>5 DEF Active, Abort
    <2>2. SUFFICES ASSUME NEW pc, NEW items, NEW todo, NEW seen,
              Goes(t, [[r EXCEPT !.items = items, !.todo = todo, !.seen = seen] EXCEPT !.pc = pc])
          PROVE  Active(t) /\ Keeps(t)
        BY <1>0, <1>4, <2>5 DEF WriteItem, AfterItem, Pcs
    <2>3. PICK z : z = [[r EXCEPT !.items = items, !.todo = todo, !.seen = seen] EXCEPT !.pc = pc]
        OBVIOUS
    <2>4. z.alone = r.alone /\ z.op = r.op
        BY <2>3 DEF Request
    <2> QED BY <1>0, <1>2, <2>1, <2>2, <2>3, <2>4 DEF Active
<1>5. CASE FindInquiry(t)
    BY <1>0, <1>1, <1>2, <1>5 DEF FindInquiry, Active, Abort, Received, Request
<1>6. CASE FindCode(t)
    BY <1>0, <1>1, <1>2, <1>6 DEF FindCode, Active, Abort, Received, Request
<1>7. CASE FindConsignment(t)
    BY <1>0, <1>1, <1>2, <1>7 DEF FindConsignment, Active, Abort, Received, Request
<1>8. CASE ReviveConsignment(t)
    BY <1>0, <1>1, <1>2, <1>8 DEF ReviveConsignment, Active, Abort, Received, Request
<1>9. CASE CreateConsignment(t)
    BY <1>0, <1>1, <1>2, <1>9 DEF CreateConsignment, Active, Abort, Received, Request
<1>10. CASE InsertItem(t)
    BY <1>0, <1>1, <1>2, <1>10 DEF InsertItem, Active, Abort, Received, Request
<1>11. CASE LoadHeader(t)
    BY <1>0, <1>1, <1>2, <1>11 DEF LoadHeader, Active, Abort, Received, Request
<1>12. CASE Aggregate(t)
    BY <1>0, <1>1, <1>2, <1>12 DEF Aggregate, Active, Abort, Received, Request
<1>13. CASE StoreHeader(t)
    BY <1>0, <1>1, <1>2, <1>13 DEF StoreHeader, Active, Abort, Received, Request
<1>14. CASE FindQuote(t)
    BY <1>0, <1>1, <1>2, <1>14 DEF FindQuote, Active, Abort, Received, Request
<1>15. CASE WriteQuote(t)
    BY <1>0, <1>1, <1>2, <1>15 DEF WriteQuote, Active, Abort, Received, Request
<1>16. CASE CountApproved(t)
    BY <1>0, <1>1, <1>2, <1>16 DEF CountApproved, Active, Abort, Received, Request
<1>17. CASE CountQuotes(t)
    BY <1>0, <1>1, <1>2, <1>17 DEF CountQuotes, Active, Abort, Received, Request
<1>18. CASE InsertQuote(t)
    BY <1>0, <1>1, <1>2, <1>18 DEF InsertQuote, Active, Abort, Received, Request
<1>19. CASE TrashInquiry(t)
    BY <1>0, <1>1, <1>2, <1>19 DEF TrashInquiry, Active, Abort, Received, Request
<1>20. CASE FindOwnCode(t)
    BY <1>0, <1>1, <1>2, <1>20 DEF FindOwnCode, Active, Abort, Received, Request
<1>21. CASE TrashCode(t)
    BY <1>0, <1>1, <1>2, <1>21 DEF TrashCode, Active, Abort, Received, Request
<1>22. CASE FindAnyCode(t)
    BY <1>0, <1>1, <1>2, <1>22 DEF FindAnyCode, Active, Abort, Received, Request
<1>23. CASE PutCode(t)
    BY <1>0, <1>1, <1>2, <1>23 DEF PutCode, Active, Abort, Received, Request
<1>24. CASE FindRow(t)
    BY <1>0, <1>1, <1>2, <1>24 DEF FindRow, Active, Abort, Received, Request
<1>25. CASE RestoreRow(t)
    BY <1>0, <1>1, <1>2, <1>25 DEF RestoreRow, Active, Abort, Received, Request
<1>27. CASE PurgeQuote(t)
    BY <1>0, <1>1, <1>2, <1>27 DEF PurgeQuote, Active, Request
<1>28. CASE PurgeItem(t)
    BY <1>0, <1>1, <1>2, <1>28 DEF PurgeItem, Active, Request
<1>26. CASE Commit(t)
    BY <1>0, <1>1, <1>2, <1>26 DEF Commit, Active, Abort, Received, Request
<1> QED BY <1>3, <1>4, <1>5, <1>6, <1>7, <1>8, <1>9, <1>10, <1>11, <1>12, <1>13, <1>14, <1>15, <1>16, <1>17, <1>18, <1>19, <1>20, <1>21, <1>22, <1>23, <1>24, <1>25, <1>26, <1>27, <1>28 DEF Step

(* A request that has just arrived where nothing is in progress. *)
LEMMA ArrivedServes ==
    ASSUME IInv, NEW t \in Txns, NEW r \in Request, Arrived(r), Refers(r),
           \A u \in Txns : ~Active(u)
    PROVE  Serves(t, r, committed, working, owner)
<1>1. Stored
    BY Split
<1>2. \A x \in Rows : owner[x] = Free /\ working[x] = committed[x]
    BY <1>1 DEF Stored, Rights, UnlockedIsCommitted
<1>3. SameIn(Items, committed, working) /\ SameIn(Quotes, committed, working)
    BY <1>2 DEF SameIn, Rows
<1>4. /\ \A c : Rollup(working, c) = Rollup(committed, c)
      /\ Stamped(working) <=> Stamped(committed)
      /\ Numbered(working) <=> Numbered(committed)
    BY <1>3, RollupsOfSameLines, VerdictsOfSameQuotes
<1>5. Refreshed(t, r, committed, working, owner)
    BY <1>2, <1>4, FreeIsNoTxn DEF Refreshed, SameHeader, Rows
<1>6. \A c \in Inqs : r.seenInq[c] = NoInq
    BY DEF Arrived, Blank
<1>7. Undisturbed(r, working)
    <2>1. LoadsFirst(r)
        BY <1>6 DEF LoadsFirst
    <2> QED BY <1>6, <2>1 DEF Undisturbed, Arrived, Shifting
<1>8. Owes(r)
    BY DEF Owes, Arrived, Shifting, RefreshOps, Scoped, QuoteSync, LineTrashOps, Purging
<1>9. Synced(r, working)
    BY DEF Synced, Arrived, QuoteSync, Scoped
<1> QED BY <1>4, <1>5, <1>7, <1>8, <1>9 DEF Serves

LEMMA ArriveServes ==
    ASSUME IInv, NEW t \in Txns, Arrive(t), NEW u \in Txns, req'[u].alone
    PROVE  /\ \A v \in Txns \ {u} : req'[v].pc = "idle"
           /\ Serves(u, req'[u], committed', working', owner')
<1>1. PICK r \in Request : Begin(t, r) /\ Refers(r) /\ KnownFor(r) /\ Arrived(r)
    BY ArriveComes DEF Comes
<1>2. PICK b \in BOOLEAN : b <=> \A v \in Txns : ~Active(v)
    OBVIOUS
<1>3. PICK z \in Request : /\ z.alone = b /\ Refers(z) /\ Arrived(z)
                           /\ z = [r EXCEPT !.alone = b]
    BY <1>1, Accompanied
<1>4. /\ UNCHANGED storeVars
      /\ req' = [v \in Txns |-> IF v = t THEN [r EXCEPT !.alone = \A w \in Txns : ~Active(w)]
                                ELSE [req[v] EXCEPT !.alone = FALSE]]
    BY <1>1 DEF Begin
<1>5. ASSUME NEW v \in Txns
      PROVE  [req[v] EXCEPT !.alone = FALSE].alone = FALSE /\ [req[v] EXCEPT !.alone = FALSE].pc = req[v].pc
    <2>1. req[v] \in Request
        BY Mine
    <2> QED BY ONLY <2>1 DEF Request
<1>6. u = t
    BY <1>4, <1>5
<1>7. req'[t] = z
    <2>1. b = (\A w \in Txns : ~Active(w))
        BY <1>2
    <2> QED BY <1>3, <1>4, <2>1
<1>8. \A v \in Txns : ~Active(v)
    BY <1>2, <1>3, <1>6, <1>7
<1>9. Serves(t, z, committed, working, owner)
    BY <1>3, <1>8, ArrivedServes
<1>10. \A v \in Txns \ {u} : req'[v].pc = "idle"
    BY <1>4, <1>5, <1>6, <1>8 DEF Active
<1> QED BY <1>4, <1>6, <1>7, <1>9, <1>10 DEF storeVars

LEMMA VictimIsActive ==
    ASSUME NEW t \in Txns, DeadlockVictim(t) \/ Fail(t)
    PROVE  Active(t) /\ Abort(t)
<1>1. CASE Fail(t)
    BY <1>1 DEF Fail
<1>2. CASE DeadlockVictim(t)
    <2>1. PICK u \in Txns : WaitsFor(t, u)
        BY <1>2 DEF DeadlockVictim
    <2>2. Targets(t) # {}
        BY <2>1 DEF WaitsFor
    <2>3. Active(t)
        BY <2>2 DEF Targets, Active
    <2> QED BY <1>2, <2>3 DEF DeadlockVictim
<1> QED BY <1>1, <1>2

LEMMA SoloPreserved == IInv /\ SoloInv /\ [Next]_vars => SoloInv'
<1> SUFFICES ASSUME IInv, SoloInv, [Next]_vars PROVE SoloInv'
    OBVIOUS
<1>1. CASE UNCHANGED vars
    BY <1>1 DEF vars, SoloInv, Active
<1>2. ASSUME NEW t \in Txns, Arrive(t) PROVE SoloInv'
    BY <1>2, ArriveServes DEF SoloInv, Active
<1>3. ASSUME NEW t \in Txns, Step(t) \/ DeadlockVictim(t) \/ Fail(t) PROVE SoloInv'
    <2>1. Active(t) /\ Keeps(t)
        BY <1>3, StepKeeps, VictimIsActive, Mine, AbortKeeps DEF Abort
    <2> SUFFICES ASSUME NEW u \in Txns, req'[u].alone
                 PROVE  /\ \A v \in Txns \ {u} : req'[v].pc = "idle"
                        /\ Serves(u, req'[u], committed', working', owner')
        BY DEF SoloInv, Active
    <2>2. u = t /\ req[t].alone
        <3>1. Blank.alone = FALSE
            BY DEF Blank
        <3>2. u # t => req[u].alone
            BY <2>1 DEF Keeps
        <3>3. req[u].alone => \A v \in Txns \ {u} : ~Active(v)
            BY DEF SoloInv
        <3> QED BY <2>1, <3>1, <3>2, <3>3 DEF Keeps
    <2>3. Served(t) /\ \A v \in Txns \ {t} : req[v].pc = "idle"
        BY <2>2, AloneIsServed DEF Active
    <2>4. StillServes(t)
        BY <1>3, <2>3, StepServes, VictimIsActive, Aborts DEF Abort
    <2> QED BY <2>1, <2>2, <2>3, <2>4 DEF Keeps, StillServes
<1> QED BY <1>1, <1>2, <1>3 DEF Next

LEMMA InitiallySolo == Init => SoloInv
BY DEF Init, SoloInv, Blank

(* A request that nothing overlaps acts on what it has read. *)
THEOREM SoloInvariance == Spec => [](IInv /\ SoloInv)
BY InitiallyInvariant, NextPreserves, InitiallySolo, SoloPreserved, PTL DEF Spec

-----------------------------------------------------------------------------
(***************************************************************************)
(* What a request that nothing overlaps leaves behind.                     *)
(***************************************************************************)

(* When a request that was alone commits, its version is everybody's, and  *)
(* nothing that is due is left.                                            *)
LEMMA CommitsAlone ==
    ASSUME IInv, SoloInv, NEW t \in Txns, req[t].alone, Commit(t)
    PROVE  /\ \A x \in Rows : committed'[x] = working[x] /\ (owner[x] # t => committed[x] = working[x])
           /\ \A c : Rollup(committed', c) = Rollup(working, c)
           /\ \A i : HasApprovedQuote(committed', i) <=> HasApprovedQuote(working, i)
           /\ Stamped(committed) => Stamped(committed')
           /\ Numbered(committed) => Numbered(committed')
           /\ Pending(req[t]) = {} /\ Synced(req[t], working) /\ req[t].pc = "commit"
           /\ Refreshed(t, req[t], committed, working, owner)
<1>1. /\ \A x \in Rows : Read(t, x) = working[x]
      /\ Serves(t, req[t], committed, working, owner)
    BY AloneIsServed DEF Served
<1>2. /\ committed' = [x \in Rows |-> Read(t, x)] /\ req[t].pc = "commit"
    BY DEF Commit, CommitTxn
<1>3. \A x \in Rows : committed'[x] = working[x] /\ (owner[x] # t => committed[x] = working[x])
    BY <1>1, <1>2 DEF Read
<1>4. PICK C : C = committed'
    OBVIOUS
<1>5. SameIn(Items, working, C) /\ SameIn(Quotes, working, C)
    BY <1>3, <1>4 DEF SameIn, Rows
<1>6. /\ \A c : Rollup(C, c) = Rollup(working, c)
      /\ \A i : HasApprovedQuote(C, i) <=> HasApprovedQuote(working, i)
      /\ Stamped(C) <=> Stamped(working)
      /\ Numbered(C) <=> Numbered(working)
    BY <1>5, RollupsOfSameLines, VerdictsOfSameQuotes
<1>7. Pending(req[t]) = {}
    BY <1>1, <1>2 DEF Serves, Owes, Pending
<1> QED BY <1>1, <1>2, <1>3, <1>4, <1>6, <1>7 DEF Serves

LEMMA CommitKeepsStored ==
    ASSUME IInv, SoloInv, NEW t \in Txns, req[t].alone, req[t].op \notin LineTrashOps,
           NEW c \in Inqs, Stores(committed, c), Commit(t)
    PROVE  Stores(committed', c)
<1>1. /\ committed'[c] = working[c]
      /\ Rollup(committed', c) = Rollup(working, c)
      /\ Pending(req[t]) = {} /\ Refreshed(t, req[t], committed, working, owner)
    BY CommitsAlone DEF Rows
<1>2. IF owner[c] = t /\ req[t].op \in RefreshOps
      THEN Stores(working, c)
      ELSE /\ SameHeader(working[c], committed[c])
           /\ Rollup(working, c) = Rollup(committed, c)
           /\ working[c].life # "absent" => committed[c].life # "absent"
    BY <1>1 DEF Refreshed
<1> QED BY <1>1, <1>2 DEF Stores, SameHeader

(* _refresh_rollup: a request of the inquiry service that nothing overlaps *)
(* leaves every consignment it refreshed in agreement with its lines, and  *)
(* makes no other one stale.                                               *)
THEOREM SoloRefreshHolds == Spec => SoloRefresh
<1> DEFINE Fresh1 ==
        \A t \in Txns, c \in Inqs :
          /\ req[t].alone /\ req[t].op \in RefreshOps
          /\ owner[c] = t \/ Agrees(committed, c)
          /\ Commit(t)
          => Agrees(committed', c)
<1>1. IInv /\ SoloInv /\ [Next]_vars => [Fresh1]_vars
    <2> SUFFICES ASSUME IInv, SoloInv, NEW t \in Txns, NEW c \in Inqs,
                        req[t].alone, req[t].op \in RefreshOps,
                        owner[c] = t \/ Agrees(committed, c), Commit(t)
                 PROVE  Agrees(committed', c)
        OBVIOUS
    <2>1. /\ committed'[c] = working[c] /\ (owner[c] # t => committed[c] = working[c])
          /\ Rollup(committed', c) = Rollup(working, c)
          /\ Pending(req[t]) = {} /\ Refreshed(t, req[t], committed, working, owner)
        BY CommitsAlone DEF Rows
    <2>2. req[t].op \notin LineTrashOps
        BY DEF RefreshOps, Scoped, QuoteSync, LineTrashOps
    <2>3. CASE owner[c] = t
        BY <2>1, <2>2, <2>3 DEF Refreshed, Stores, Agrees
    <2>4. CASE owner[c] # t
        BY <2>1, <2>2, <2>4 DEF Refreshed, SameHeader, Agrees
    <2> QED BY <2>3, <2>4
<1>2. SoloRefresh <=> [][Fresh1]_vars
    BY DEF SoloRefresh
<1> QED BY <1>1, <1>2, SoloInvariance, PTL DEF Spec

(* Only taking a line out of the trash, or deleting it for good, makes a   *)
(* header stale if nothing overlaps: every other request refreshes the     *)
(* headers whose lines it changes, or changes no line, and leaves those in *)
(* the trash fit to come back.                                             *)
THEOREM SoloStaleHolds == Spec => SoloStale
<1> DEFINE Remains ==
        \A t \in Txns, c \in Inqs :
          req[t].alone /\ req[t].op \notin LineTrashOps /\ Stores(committed, c) /\ Commit(t)
          => Stores(committed', c)
<1>1. IInv /\ SoloInv /\ [Next]_vars => [Remains]_vars
    <2> SUFFICES ASSUME IInv, SoloInv, NEW t \in Txns, NEW c \in Inqs,
                        req[t].alone, req[t].op \notin LineTrashOps,
                        Stores(committed, c), Commit(t)
                 PROVE  Stores(committed', c)
        OBVIOUS
    <2> QED BY CommitKeepsStored
<1>2. SoloStale <=> [][Remains]_vars
    BY DEF SoloStale
<1> QED BY <1>1, <1>2, SoloInvariance, PTL DEF Spec

(* _sync_item_status_from_quotations: a quotation decided or deleted with  *)
(* nothing beside it leaves its line approved exactly if an approved       *)
(* quotation of the line remains.                                          *)
THEOREM SoloQuoteSyncHolds == Spec => SoloQuoteSync
<1> DEFINE Follows ==
        \A t \in Txns :
          LET i == req[t].seenQuote.item IN
          req[t].alone /\ req[t].op \in QuoteSync /\ Commit(t) =>
            (committed'[i].life = "live" =>
              (committed'[i].status = "approved" <=> HasApprovedQuote(committed', i)))
<1>1. IInv /\ SoloInv /\ [Next]_vars => [Follows]_vars
    <2> SUFFICES ASSUME IInv, SoloInv, NEW t \in Txns, req[t].alone,
                        req[t].op \in QuoteSync, Commit(t), NEW i, i = req[t].seenQuote.item,
                        committed'[i].life = "live"
                 PROVE  committed'[i].status = "approved" <=> HasApprovedQuote(committed', i)
        OBVIOUS
    <2>1. /\ \A x \in Rows : committed'[x] = working[x]
          /\ HasApprovedQuote(committed', i) <=> HasApprovedQuote(working, i)
          /\ Synced(req[t], working) /\ req[t].pc = "commit"
        BY CommitsAlone
    <2>2. i \in Items /\ (working[i].life = "live" =>
                           (working[i].status = "approved" <=> HasApprovedQuote(working, i)))
        BY <2>1 DEF Synced
    <2> QED BY <2>1, <2>2 DEF Rows
<1>2. SoloQuoteSync <=> [][Follows]_vars
    BY DEF SoloQuoteSync
<1> QED BY <1>1, <1>2, SoloInvariance, PTL DEF Spec

-----------------------------------------------------------------------------
(***************************************************************************)
(* Requests that come one at a time.                                       *)
(***************************************************************************)
OneAtATime == \A t, u \in Txns : t = u

(* Every request is alone, and what is committed between two of them is    *)
(* in order.  A line that is restored from the trash, or deleted there for *)
(* good, is the one thing that leaves a header stale.                      *)
Orderly ==
    /\ OneAtATime
    /\ \A t \in Txns : Active(t) => req[t].alone /\ req[t].op \in Ops
    /\ Stamped(committed) /\ Numbered(committed)
    /\ LineTrashOps \cap Ops = {} => \A c \in Inqs : Stores(committed, c)

LEMMA InitiallyOrderly == OneAtATime /\ Init => Orderly
<1> SUFFICES ASSUME OneAtATime, Init PROVE Orderly
    OBVIOUS
<1>1. PICK lines \in [Items -> InitialItems], coded \in SUBSET Inqs :
        \E open \in SUBSET coded :
            committed = [r \in Rows |-> InitialRow(lines, open, coded, r)]
    BY DEF Init
<1>2. PICK open \in SUBSET coded :
        committed = [r \in Rows |-> InitialRow(lines, open, coded, r)]
    BY <1>1
<1>3. \A t \in Txns : ~Active(t)
    BY DEF Init, Active, Blank
<1>4. \A i \in Items : committed[i] = lines[i]
    BY <1>2 DEF Rows, InitialRow
<1>5. Stamped(committed)
    <2>1. \A c \in Inqs, q \in Qtys : /\ NewItem(c, "proposed", q).status = "proposed"
                                      /\ ~NewItem(c, "proposed", q).at
        BY DEF NewItem
    <2>2. NoItem.status = "proposed" /\ ~NoItem.at
        BY DEF NoItem
    <2>3. \A x \in InitialItems : ~x.at /\ x.status = "proposed"
        BY <2>1, <2>2 DEF InitialItems
    <2> QED BY <1>4, <2>3 DEF Stamped
<1>6. Numbered(committed)
    <2>1. \A k \in Quotes : committed[k].life = "absent"
        BY <1>2, TablesAreDisjoint DEF Rows, InitialRow, NoQuote
    <2> QED BY <2>1 DEF Numbered
<1>7. ASSUME NEW c \in Inqs PROVE Stores(committed, c)
    <2>1. committed[c] = IF c \in open
                         THEN [life |-> "live", status |-> Rollup(lines, c).status,
                               total |-> Rollup(lines, c).total]
                         ELSE NoInq
        BY <1>2, TablesAreDisjoint DEF Rows, InitialRow
    <2>2. Rollup(committed, c) = Rollup(lines, c)
        BY <1>4, RollupsOfSameLines DEF SameIn
    <2>3. CASE c \notin open
        BY <2>1, <2>3 DEF NoInq, Stores
    <2>4. CASE c \in open
        <3>1. committed[c].status = Rollup(lines, c).status /\ committed[c].total = Rollup(lines, c).total
            BY <2>1, <2>4
        <3>2. Rollup(lines, c) = [status |-> Rollup(lines, c).status, total |-> Rollup(lines, c).total]
            BY DEF Rollup
        <3> QED BY <2>2, <3>1, <3>2 DEF Stores
    <2> QED BY <2>3, <2>4
<1> QED BY <1>3, <1>5, <1>6, <1>7 DEF Orderly

LEMMA OrderlyPreserved == IInv /\ SoloInv /\ Orderly /\ [Next]_vars => Orderly'
<1> SUFFICES ASSUME IInv, SoloInv, Orderly, [Next]_vars PROVE Orderly'
    OBVIOUS
<1>1. CASE UNCHANGED vars
    BY <1>1 DEF vars, Orderly, Active
<1>2. ASSUME NEW t \in Txns, Arrive(t) PROVE Orderly'
    <2>1. PICK r \in Request : Begin(t, r)
        BY <1>2, ArriveComes DEF Comes
    <2>2. /\ \A u \in Txns : u = t
          /\ ~Active(t) /\ r.op \in Ops /\ committed' = committed
          /\ req' = [v \in Txns |-> IF v = t THEN [r EXCEPT !.alone = \A w \in Txns : ~Active(w)]
                                    ELSE [req[v] EXCEPT !.alone = FALSE]]
        BY <2>1 DEF Begin, storeVars, Orderly, OneAtATime
    <2>3. (\A w \in Txns : ~Active(w)) = TRUE
        BY <2>2
    <2>4. req'[t] = [r EXCEPT !.alone = TRUE]
        BY <2>2, <2>3
    <2>5. req'[t].alone = TRUE /\ req'[t].op = r.op
        BY <2>4 DEF Request
    <2> QED BY <2>2, <2>5 DEF Orderly, OneAtATime, Active
<1>3. ASSUME NEW t \in Txns, Step(t) \/ DeadlockVictim(t) \/ Fail(t) PROVE Orderly'
    <2>1. /\ Active(t) /\ Keeps(t) /\ \A u \in Txns : u = t
          /\ req[t].alone /\ req[t].op \in Ops
        BY <1>3, StepKeeps, VictimIsActive, Mine, AbortKeeps DEF Abort, Orderly, OneAtATime
    <2>2. \A u \in Txns : Active(u)' => req'[u].alone /\ req'[u].op \in Ops
        <3>1. Blank.pc = "idle"
            BY BlankType
        <3> QED BY <2>1, <3>1 DEF Keeps, Active
    <2>3. CASE Commit(t)
        <3>1. Stamped(committed') /\ Numbered(committed')
            BY <2>1, <2>3, CommitsAlone DEF Orderly
        <3>2. ASSUME LineTrashOps \cap Ops = {}, NEW c \in Inqs PROVE Stores(committed', c)
            <4>1. Stores(committed, c) /\ req[t].op \notin LineTrashOps
                BY <2>1, <3>2 DEF Orderly
            <4> QED BY <2>1, <2>3, <4>1, CommitKeepsStored
        <3> QED BY <2>2, <3>1, <3>2 DEF Orderly, OneAtATime
    <2>4. CASE ~Commit(t)
        <3>1. committed' = committed
            BY <1>3, <2>4, OnlyCommitsPublish, VictimIsActive DEF Abort, RollbackTxn
        <3> QED BY <2>2, <3>1 DEF Orderly, OneAtATime
    <2> QED BY <2>3, <2>4
<1> QED BY <1>1, <1>2, <1>3 DEF Next

LEMMA AlwaysOrderly == OneAtATime /\ Spec => []Orderly
BY InitiallyOrderly, OrderlyPreserved, SoloInvariance, PTL DEF Spec

(* Requests that come one at a time keep every line's approval date and    *)
(* status together, whichever of the six routes changes them.              *)
THEOREM ApprovalsAreStamped == OneAtATime /\ Spec => []ApprovalIsStamped
<1>1. Orderly => ApprovalIsStamped
    BY DEF Orderly, Stamped, ApprovalIsStamped
<1> QED BY <1>1, AlwaysOrderly, PTL

(* Requests that come one at a time give every quotation a number of its   *)
(* own for as long as no quotation is deleted for good with its line:      *)
(* counting the rows in the trash too is enough, with no sequence.         *)
THEOREM QuoteNumbersStayApart == OneAtATime /\ Spec => []QuoteNumbersDiffer
<1>1. Orderly => QuoteNumbersDiffer
    BY DEF Orderly, Numbered, QuoteNumbersDiffer, Known
<1> QED BY <1>1, AlwaysOrderly, PTL

(* Requests that come one at a time, none of which takes a line out of the *)
(* trash or deletes one for good, keep every header in agreement with its  *)
(* lines.                                                                  *)
THEOREM RollupsStayFresh ==
    OneAtATime /\ LineTrashOps \cap Ops = {} /\ Spec => []RollupFresh
<1>1. ASSUME Orderly, LineTrashOps \cap Ops = {} PROVE RollupFresh
    BY <1>1 DEF Orderly, Stores, Agrees, RollupFresh
<1>2. ASSUME LineTrashOps \cap Ops = {}
      PROVE  OneAtATime /\ Spec => []RollupFresh
    <2>1. Orderly => RollupFresh
        BY <1>1, <1>2
    <2> QED BY <2>1, AlwaysOrderly, PTL
<1> QED BY <1>2
================================================================================
