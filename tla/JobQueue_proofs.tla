---------------------------- MODULE JobQueue_proofs ----------------------------
(***************************************************************************)
(* Proofs about JobQueue, for any number of jobs, workers, requests and    *)
(* losses.                                                                 *)
(*                                                                         *)
(* StoreInv says what the database, its locks and each process have to do  *)
(* with each other.  A step leaves the database alone (Moves), changes the *)
(* row of its job (Writes), rolls back (Rolls) or commits (Commits): the   *)
(* lemmas of those names say what each needs to preserve StoreInv, and     *)
(* PreservesStore shows for every action that it has it.                   *)
(*                                                                         *)
(* Accounted relates the row of a job to the attempts that were made; it   *)
(* is shown action by action on top of StoreInv.                           *)
(***************************************************************************)
EXTENDS JobQueue, TLAPS

(* What one process is about to do, well typed. *)
Ready(p, r) == r \in Proc /\ Fits(p, r)

Counters == runs \in [Jobs -> Nat] /\ lost \in [Jobs -> Nat] /\ losses \in 0..MaxLosses

LEMMA RowTypes ==
    /\ NoRow \in Row /\ NoRow.status = "absent" /\ NoRow.tries = 0
    /\ \A b \in Budgets : NewRow(b) \in Row
BY BudgetsAreNumbers DEF NoRow, NewRow, Row, Status

LEMMA AtType ==
    ASSUME NEW pc \in {"recover", "claim", "claimed", "handling", "store", "dead", "down",
                       "idle", "log", "cancel", "retry", "commit", "requeue"}
    PROVE  /\ At(pc) \in Proc /\ At(pc).pc = pc /\ At(pc).linked /\ At(pc).job = None
           /\ \A j \in Jobs : /\ [At(pc) EXCEPT !.job = j] \in Proc
                              /\ [At(pc) EXCEPT !.job = j].pc = pc
                              /\ [At(pc) EXCEPT !.job = j].linked
                              /\ [At(pc) EXCEPT !.job = j].job = j
BY RowTypes DEF At, Proc

LEMMA OutcomeTypes ==
    ASSUME NEW row \in Row
    PROVE  /\ Completed(row) \in Row /\ FailedOrRetry(row) \in Row
           /\ Completed(row).status = "completed"
           /\ FailedOrRetry(row).status \in {"pending", "failed"}
<1>1. row.tries \in Nat /\ row.tries + 1 \in Nat
    BY DEF Row
<1>2. Completed(row) \in Row /\ Completed(row).status = "completed"
    BY DEF Completed, Row, Status
<1>3. CASE row.tries + 1 < row.budget
    <2>1. FailedOrRetry(row) = [row EXCEPT !.status = "pending", !.tries = row.tries + 1]
        BY <1>3 DEF FailedOrRetry
    <2> QED BY <1>1, <1>2, <2>1 DEF Row, Status
<1>4. CASE ~(row.tries + 1 < row.budget)
    <2>1. FailedOrRetry(row) = [row EXCEPT !.status = "failed", !.done = TRUE]
        BY <1>4 DEF FailedOrRetry
    <2> QED BY <1>2, <2>1 DEF Row, Status
<1> QED BY <1>3, <1>4

LEMMA RequeuedType ==
    ASSUME NEW row \in Row, NEW seen \in Row
    PROVE  /\ Requeued(row, seen) \in Row
           /\ Requeued(row, seen).status = "pending" /\ Requeued(row, seen).tries = 0
<1> DEFINE fresh == [row EXCEPT !.status = "pending", !.tries = 0]
<1>1. fresh \in Row /\ fresh.status = "pending" /\ fresh.tries = 0
    BY DEF Row, Status
<1> HIDE DEF fresh
<1>2. [fresh EXCEPT !.done = FALSE] \in Row
    BY <1>1 DEF Row
<1>3. /\ [fresh EXCEPT !.done = FALSE].status = "pending"
      /\ [fresh EXCEPT !.done = FALSE].tries = 0
    BY <1>1 DEF Row
<1>4. Requeued(row, seen) \in {fresh, [fresh EXCEPT !.done = FALSE]}
    BY DEF Requeued, fresh
<1> QED BY <1>1, <1>2, <1>3, <1>4

(* A change that can be committed is of the right type. *)
LEMMA ChangeType ==
    ASSUME NEW pc \in {"store", "commit", "requeue"}, NEW old \in Row, NEW new \in Row,
           Change(pc, old, new)
    PROVE  new.status \notin {"absent", "running"}
<1>1. CASE pc = "store"
    <2>1. [old EXCEPT !.status = "running"] \in Row
        BY DEF Row, Status
    <2> QED BY <1>1, <2>1, OutcomeTypes DEF Change, Outcomes
<1>2. CASE pc = "commit"
    BY <1>2 DEF Change, NewRow, Row
<1>3. CASE pc = "requeue"
    BY <1>3 DEF Change
<1> QED BY <1>1, <1>2, <1>3
-----------------------------------------------------------------------------
(***************************************************************************)
(* The four ways a step changes the state.                                 *)
(***************************************************************************)
LEMMA GoesOn ==
    ASSUME proc \in [Txns -> Proc], NEW p \in Txns, NEW r \in Proc, Goes(p, r)
    PROVE  /\ proc' \in [Txns -> Proc] /\ proc'[p] = r
           /\ \A q \in Txns \ {p} : proc'[q] = proc[q]
BY DEF Goes

(* p moves on and leaves the database alone. *)
LEMMA Moves ==
    ASSUME StoreInv, NEW p \in Txns, NEW r \in Proc, Goes(p, r), Fits(p, r),
           \A j \in Jobs : owner[j] = p => Carries(r) /\ r.job = j,
           UNCHANGED storeVars, Counters'
    PROVE  StoreInv'
<1>1. /\ proc' \in [Txns -> Proc] /\ proc'[p] = r
      /\ \A q \in Txns \ {p} : proc'[q] = proc[q]
    BY GoesOn DEF StoreInv, TypeOK
<1>2. TypeOK' /\ UnlockedIsCommitted'
    BY <1>1 DEF StoreInv, TypeOK, UnlockedIsCommitted, storeVars, Counters
<1>3. LocksAreCarried'
    BY <1>1 DEF StoreInv, TypeOK, LocksAreCarried, storeVars
<1>4. \A q \in Txns : Fits(q, proc'[q])
    BY <1>1 DEF StoreInv
<1>5. (\A q \in Txns : Fits(q, proc[q]))'
    BY <1>4 DEF Fits, storeVars
<1> QED BY <1>2, <1>3, <1>5 DEF StoreInv

(* p puts an uncommitted version into the row of its job. *)
LEMMA Writes ==
    ASSUME StoreInv, NEW p \in Txns, NEW j \in Jobs, NEW row \in Row, NEW r \in Proc,
           Write(p, j, row), Goes(p, r),
           Carries(r), r.job = j, Change(r.pc, committed[j], row),
           p \in Workers => r.pc \in {"claimed", "handling", "store"},
           p \in Clients => r.pc \in {"log", "commit", "requeue"},
           r.pc \notin {"log", "commit"} => committed[j].status # "absent",
           r.pc = "handling" => j \in Handled,
           \A k \in Jobs : owner[k] = p => k = j,
           Counters'
    PROVE  StoreInv'
<1>1. /\ proc' \in [Txns -> Proc] /\ proc'[p] = r
      /\ \A q \in Txns \ {p} : proc'[q] = proc[q]
    BY GoesOn DEF StoreInv, TypeOK
<1>2. /\ committed' = committed
      /\ working' = [working EXCEPT ![j] = row]
      /\ owner' = [owner EXCEPT ![j] = p]
      /\ owner[j] \in {Free, p}
    BY DEF Write, Lockable
<1>3. TypeOK'
    BY <1>1, <1>2 DEF StoreInv, TypeOK, Counters
<1>4. UnlockedIsCommitted'
    BY <1>2, FreeIsNoTxn DEF StoreInv, TypeOK, UnlockedIsCommitted, Rows
<1>5. LocksAreCarried'
    BY <1>1, <1>2 DEF StoreInv, TypeOK, LocksAreCarried, Carries
<1>6. ASSUME NEW q \in Txns \ {p}
      PROVE  Fits(q, proc[q])'
    <2>1. Fits(q, proc[q]) /\ proc'[q] = proc[q]
        BY <1>1 DEF StoreInv
    <2>2. Carries(proc[q]) => proc[q].job # j
        BY <2>1, <1>2, FreeIsNoTxn DEF Fits
    <2>3. Carries(proc[q]) => proc[q].job \in Jobs
        BY <2>1 DEF Fits, Carries
    <2>4. Carries(proc[q]) => /\ working'[proc[q].job] = working[proc[q].job]
                              /\ owner'[proc[q].job] = owner[proc[q].job]
        BY <2>2, <2>3, <1>2 DEF StoreInv, TypeOK
    <2> QED BY <2>1, <2>4, <1>2 DEF Fits
<1>7. Fits(p, proc[p])'
    <2>1. working'[j] = row /\ owner'[j] = p /\ committed'[j] = committed[j]
        BY <1>2 DEF StoreInv, TypeOK
    <2> QED BY <1>1, <2>1 DEF Fits, Carries
<1> QED BY <1>3, <1>4, <1>5, <1>6, <1>7 DEF StoreInv

(* p ends its transaction without a trace. *)
LEMMA Rolls ==
    ASSUME StoreInv, NEW p \in Txns, NEW r \in Proc, RollbackTxn(p), Goes(p, r),
           Fits(p, r), ~Carries(r), Counters'
    PROVE  StoreInv'
<1>1. /\ proc' \in [Txns -> Proc] /\ proc'[p] = r
      /\ \A q \in Txns \ {p} : proc'[q] = proc[q]
    BY GoesOn DEF StoreInv, TypeOK
<1>2. /\ committed' = committed
      /\ \A j \in Jobs : /\ working'[j] = IF owner[j] = p THEN committed[j] ELSE working[j]
                         /\ owner'[j] = IF owner[j] = p THEN Free ELSE owner[j]
      /\ working' \in [Jobs -> Row] /\ owner' \in [Jobs -> Txns \cup {Free}]
    BY DEF RollbackTxn, Rows, StoreInv, TypeOK
<1>3. TypeOK'
    BY <1>1, <1>2 DEF StoreInv, TypeOK, Counters
<1>4. UnlockedIsCommitted'
    BY <1>2 DEF StoreInv, UnlockedIsCommitted, Rows
<1>5. LocksAreCarried'
    BY <1>1, <1>2 DEF StoreInv, TypeOK, LocksAreCarried
<1>6. ASSUME NEW q \in Txns \ {p}
      PROVE  Fits(q, proc[q])'
    <2>1. Fits(q, proc[q]) /\ proc'[q] = proc[q]
        BY <1>1 DEF StoreInv
    <2>2. Carries(proc[q]) => proc[q].job \in Jobs /\ owner[proc[q].job] = q
        BY <2>1 DEF Fits, Carries
    <2>3. Carries(proc[q]) => /\ working'[proc[q].job] = working[proc[q].job]
                              /\ owner'[proc[q].job] = owner[proc[q].job]
        BY <2>2, <1>2
    <2> QED BY <2>1, <2>3, <1>2 DEF Fits
<1>7. Fits(p, proc[p])'
    BY <1>1, <1>2 DEF Fits
<1> QED BY <1>3, <1>4, <1>5, <1>6, <1>7 DEF StoreInv

(* p's change becomes the row every transaction reads. *)
LEMMA Commits ==
    ASSUME StoreInv, NEW p \in Txns, NEW r \in Proc, CommitTxn(p), Goes(p, r),
           proc[p].pc \in {"store", "commit", "requeue"},
           r.linked, r.pc = IF p \in Workers THEN "recover" ELSE "idle", Counters'
    PROVE  StoreInv'
<1>1. /\ proc' \in [Txns -> Proc] /\ proc'[p] = r
      /\ \A q \in Txns \ {p} : proc'[q] = proc[q]
    BY GoesOn DEF StoreInv, TypeOK
<1>2. /\ working' = working
      /\ \A j \in Jobs : /\ committed'[j] = IF owner[j] = p THEN working[j] ELSE committed[j]
                         /\ owner'[j] = IF owner[j] = p THEN Free ELSE owner[j]
    BY DEF CommitTxn, Read, Rows
<1>3. ASSUME NEW j \in Jobs, owner[j] = p
      PROVE  /\ committed'[j] \in Row
             /\ committed'[j].status \notin {"absent", "running"}
    <2>1. Carries(proc[p]) /\ proc[p].job = j
        BY <1>3, FreeIsNoTxn DEF StoreInv, LocksAreCarried
    <2>2. Change(proc[p].pc, committed[j], working[j])
        BY <2>1 DEF StoreInv, Fits
    <2>3. committed[j] \in Row /\ working[j] \in Row
        BY DEF StoreInv, TypeOK
    <2> QED BY <2>2, <2>3, <1>2, <1>3, ChangeType
<1>4. TypeOK'
    <2>1. \A j \in Jobs : committed'[j] \in {x \in Row : x.status # "running"}
        BY <1>2, <1>3 DEF StoreInv, TypeOK
    <2>2. committed' \in [Jobs -> {x \in Row : x.status # "running"}]
        BY <2>1 DEF CommitTxn, Rows
    <2>3. owner' \in [Jobs -> Txns \cup {Free}]
        BY DEF CommitTxn, Rows, StoreInv, TypeOK
    <2> QED BY <1>1, <1>2, <2>2, <2>3 DEF StoreInv, TypeOK, Counters
<1>5. UnlockedIsCommitted'
    BY <1>2, FreeIsNoTxn DEF StoreInv, UnlockedIsCommitted, Rows
<1>6. LocksAreCarried'
    BY <1>1, <1>2 DEF StoreInv, TypeOK, LocksAreCarried
<1>7. ASSUME NEW q \in Txns \ {p}
      PROVE  Fits(q, proc[q])'
    <2>1. Fits(q, proc[q]) /\ proc'[q] = proc[q]
        BY <1>1 DEF StoreInv
    <2>2. \A j \in Jobs : committed[j].status # "absent" => committed'[j].status # "absent"
        BY <1>2, <1>3
    <2>3. Carries(proc[q]) => proc[q].job \in Jobs /\ owner[proc[q].job] = q
        BY <2>1 DEF Fits, Carries
    <2>4. Carries(proc[q]) => /\ committed'[proc[q].job] = committed[proc[q].job]
                              /\ owner'[proc[q].job] = owner[proc[q].job]
        BY <2>3, <1>2
    <2>5. proc[q].pc \in Engaged => proc[q].job \in Jobs
        BY <2>1 DEF Fits
    <2> QED BY <2>1, <2>2, <2>4, <2>5, <1>2 DEF Fits
<1>8. Fits(p, proc[p])'
    BY <1>1, WorkersAreNoClients DEF Fits, Carries, Engaged
<1> QED BY <1>4, <1>5, <1>6, <1>7, <1>8 DEF StoreInv

-----------------------------------------------------------------------------
(***************************************************************************)
(* StoreInv is preserved: the actions of a worker.                         *)
(***************************************************************************)

(* Who holds no lock can take one; who holds one has it on his own job. *)
LEMMA OwnJob ==
    ASSUME StoreInv, NEW p \in Txns, NEW j \in Jobs, owner[j] = p
    PROVE  Carries(proc[p]) /\ proc[p].job = j
BY FreeIsNoTxn DEF StoreInv, LocksAreCarried

LEMMA ProcTypes ==
    ASSUME StoreInv, NEW p \in Txns
    PROVE  proc[p] \in Proc /\ Fits(p, proc[p])
BY DEF StoreInv, TypeOK

LEMMA WorkersAreTxns == ASSUME NEW w \in Workers PROVE w \in Txns /\ w \notin Clients
BY WorkersAreNoClients DEF Txns

LEMMA ClientsAreTxns == ASSUME NEW c \in Clients PROVE c \in Txns /\ c \notin Workers
BY WorkersAreNoClients DEF Txns

LEMMA CountersKept ==
    ASSUME StoreInv, UNCHANGED counters
    PROVE  Counters'
BY DEF StoreInv, TypeOK, Counters, counters

LEMMA RecoverStep ==
    ASSUME StoreInv, NEW w \in Workers, Recover(w)
    PROVE  StoreInv' /\ UNCHANGED storeVars
<1>1. \A j \in Jobs : committed[j].status # "running"
    BY DEF StoreInv, TypeOK
<1>2. UNCHANGED storeVars
    <2>1. PICK stuck \in SUBSET {j \in Jobs : committed[j].status = "running" /\ owner[j] = Free} :
             /\ committed' = [j \in Jobs |->
                    IF j \in stuck THEN [committed[j] EXCEPT !.status = "pending"] ELSE committed[j]]
             /\ working' = [j \in Jobs |->
                    IF j \in stuck THEN [working[j] EXCEPT !.status = "pending"] ELSE working[j]]
        BY DEF Recover
    <2>2. stuck = {}
        BY <1>1
    <2>3. committed' = [j \in Jobs |-> committed[j]] /\ working' = [j \in Jobs |-> working[j]]
        BY <2>1, <2>2
    <2> QED BY <2>3 DEF Recover, storeVars, StoreInv, TypeOK
<1>3. Goes(w, At("claim")) /\ proc[w].pc = "recover" /\ Counters'
    BY CountersKept DEF Recover
<1>4. \A j \in Jobs : owner[j] # w
    BY <1>3, OwnJob, WorkersAreTxns DEF Carries, Engaged
<1>5. Fits(w, At("claim"))
    BY AtType, WorkersAreTxns DEF Fits, Carries, Engaged
<1> QED BY <1>2, <1>3, <1>4, <1>5, AtType, WorkersAreTxns, Moves

LEMMA ClaimStep ==
    ASSUME StoreInv, NEW w \in Workers, NEW j \in Jobs, Claim(w, j)
    PROVE  StoreInv'
<1> DEFINE row == [committed[j] EXCEPT !.status = "running"]
           r == [At("claimed") EXCEPT !.job = j]
<1>1. /\ r \in Proc /\ r.pc = "claimed" /\ r.linked /\ r.job = j /\ Carries(r)
    BY AtType DEF Carries, Engaged
<1>2. Write(w, j, row) /\ Goes(w, r) /\ committed[j].status = "pending"
      /\ proc[w].pc = "claim" /\ Counters'
    BY CountersKept DEF Claim
<1>3. row \in Row
    BY DEF StoreInv, TypeOK, Row, Status
<1>4. \A k \in Jobs : owner[k] # w
    BY <1>2, OwnJob, WorkersAreTxns DEF Carries, Engaged
<1>5. Change(r.pc, committed[j], row)
    BY <1>1, <1>2 DEF Change
<1> HIDE DEF row, r
<1> QED BY <1>1, <1>2, <1>3, <1>4, <1>5, WorkersAreTxns, Writes

LEMMA FindNothingStep ==
    ASSUME StoreInv, NEW w \in Workers, FindNothing(w)
    PROVE  StoreInv'
<1>1. /\ Goes(w, At("recover")) /\ proc[w].pc = "claim"
      /\ UNCHANGED storeVars /\ Counters'
    BY CountersKept DEF FindNothing
<1>2. \A j \in Jobs : owner[j] # w
    BY <1>1, OwnJob, WorkersAreTxns DEF Carries, Engaged
<1>3. Fits(w, At("recover"))
    BY AtType, WorkersAreTxns DEF Fits, Carries, Engaged
<1> QED BY <1>1, <1>2, <1>3, AtType, WorkersAreTxns, Moves

LEMMA DieStep ==
    ASSUME StoreInv, NEW w \in Workers, Die(w)
    PROVE  StoreInv'
<1>1. Goes(w, At("dead")) /\ RollbackTxn(w) /\ Counters'
    BY CountersKept DEF Die
<1>2. Fits(w, At("dead")) /\ ~Carries(At("dead"))
    BY AtType, WorkersAreTxns DEF Fits, Carries, Engaged
<1> QED BY <1>1, <1>2, AtType, WorkersAreTxns, Rolls

LEMMA HandleStep ==
    ASSUME StoreInv, NEW w \in Workers, Handle(w)
    PROVE  StoreInv'
<1> DEFINE r == [proc[w] EXCEPT !.pc = "handling"]
<1>1. proc[w] \in Proc /\ Fits(w, proc[w]) /\ w \in Txns /\ w \notin Clients
    BY ProcTypes, WorkersAreTxns
<1>2. proc[w].pc = "claimed" /\ proc[w].job \in Handled /\ Goes(w, r) /\ UNCHANGED storeVars
    BY DEF Handle
<1>3. r \in Proc /\ r.pc = "handling" /\ r.job = proc[w].job /\ r.linked = proc[w].linked
    BY <1>1 DEF Proc
<1>4. Fits(w, r)
    BY <1>1, <1>2, <1>3 DEF Fits, Carries, Engaged, Change
<1>5. \A j \in Jobs : owner[j] = w => Carries(r) /\ r.job = j
    BY <1>1, <1>2, <1>3, OwnJob DEF Carries, Engaged
<1>6. Counters'
    BY HandledAreJobs, <1>2 DEF Handle, StoreInv, TypeOK, Counters
<1> HIDE DEF r
<1> QED BY <1>1, <1>2, <1>3, <1>4, <1>5, <1>6, Moves

(* The outcome of an attempt is stored, or the connection is found lost. *)
LEMMA StoreStep ==
    ASSUME StoreInv, NEW w \in Workers, NEW row,
           proc[w].pc \in {"claimed", "handling"},
           row \in Outcomes(working[proc[w].job]), Store(w, row), UNCHANGED counters
    PROVE  StoreInv'
<1> DEFINE j == proc[w].job
           r == [proc[w] EXCEPT !.pc = "store"]
<1>1. proc[w] \in Proc /\ Fits(w, proc[w]) /\ w \in Txns /\ w \notin Clients /\ Counters'
    BY ProcTypes, WorkersAreTxns, CountersKept
<1>2. j \in Jobs
    BY <1>1 DEF Fits, Engaged
<1>3. CASE proc[w].linked
    <2>1. Write(w, j, row) /\ Goes(w, r)
        BY <1>3 DEF Store
    <2>2. r \in Proc /\ r.pc = "store" /\ r.job = j /\ r.linked /\ Carries(r) /\ Carries(proc[w])
        BY <1>1, <1>3 DEF Proc, Carries, Engaged
    <2>3. row \in Row
        BY <1>2, OutcomeTypes DEF Outcomes, StoreInv, TypeOK
    <2>4. Change(r.pc, committed[j], row)
        BY <1>1, <2>2 DEF Fits, Change
    <2>5. committed[j].status # "absent"
        BY <1>1 DEF Fits, Engaged
    <2>6. \A k \in Jobs : owner[k] = w => k = j
        BY <1>1, OwnJob
    <2> HIDE DEF j, r
    <2> QED BY <1>1, <1>2, <2>1, <2>2, <2>3, <2>4, <2>5, <2>6, Writes
<1>4. CASE ~proc[w].linked
    <2>1. UNCHANGED storeVars /\ Goes(w, At("recover"))
        BY <1>4 DEF Store
    <2>2. \A k \in Jobs : owner[k] # w
        BY <1>1, <1>4, OwnJob DEF Carries
    <2>3. Fits(w, At("recover"))
        BY <1>1, AtType DEF Fits, Carries, Engaged
    <2> QED BY <1>1, <2>1, <2>2, <2>3, AtType, Moves
<1> QED BY <1>3, <1>4

LEMMA ReturnStep ==
    ASSUME StoreInv, NEW w \in Workers, Return(w)
    PROVE  StoreInv'
<1>1. Completed(working[proc[w].job]) \in Outcomes(working[proc[w].job])
    BY DEF Outcomes
<1> QED BY <1>1, StoreStep DEF Return

LEMMA RaiseStep ==
    ASSUME StoreInv, NEW w \in Workers, Raise(w) \/ NoHandler(w)
    PROVE  StoreInv'
<1>1. FailedOrRetry(working[proc[w].job]) \in Outcomes(working[proc[w].job])
    BY DEF Outcomes
<1> QED BY <1>1, StoreStep DEF Raise, NoHandler

LEMMA CommitStep ==
    ASSUME StoreInv, NEW w \in Workers, Commit(w)
    PROVE  StoreInv'
<1>1. /\ w \in Txns /\ w \notin Clients /\ Counters' /\ proc[w].pc = "store"
      /\ Goes(w, At("recover"))
    BY WorkersAreTxns, CountersKept DEF Commit
<1>2. CASE proc[w].linked
    BY <1>1, <1>2, AtType, Commits DEF Commit
<1>3. CASE ~proc[w].linked
    <2>1. \A k \in Jobs : owner[k] # w
        BY <1>1, <1>3, OwnJob DEF Carries
    <2>2. Fits(w, At("recover"))
        BY <1>1, AtType DEF Fits, Carries, Engaged
    <2> QED BY <1>1, <1>3, <2>1, <2>2, AtType, Moves DEF Commit
<1> QED BY <1>2, <1>3

LEMMA StartStep ==
    ASSUME StoreInv, NEW w \in Workers, Start(w)
    PROVE  StoreInv'
<1>1. /\ w \in Txns /\ w \notin Clients /\ Counters' /\ proc[w].pc = "down"
      /\ Goes(w, At("recover")) /\ UNCHANGED storeVars
    BY WorkersAreTxns, CountersKept DEF Start
<1>2. \A k \in Jobs : owner[k] # w
    BY <1>1, OwnJob DEF Carries, Engaged
<1>3. Fits(w, At("recover"))
    BY <1>1, AtType DEF Fits, Carries, Engaged
<1> QED BY <1>1, <1>2, <1>3, AtType, Moves

LEMMA LoseCounts ==
    ASSUME StoreInv, NEW w \in Workers, Lose(w)
    PROVE  Counters' /\ RollbackTxn(w)
<1>1. losses' \in 0..MaxLosses
    BY LossesAreBounded DEF Lose, StoreInv, TypeOK
<1>2. lost' \in [Jobs -> Nat]
    BY HandledAreJobs DEF Lose, Attempting, StoreInv, TypeOK
<1> QED BY <1>1, <1>2 DEF Lose, StoreInv, TypeOK, Counters

LEMMA CrashStep ==
    ASSUME StoreInv, NEW w \in Workers, Crash(w)
    PROVE  StoreInv'
<1>1. /\ w \in Txns /\ w \notin Clients /\ Goes(w, At("down"))
      /\ Counters' /\ RollbackTxn(w)
    BY WorkersAreTxns, LoseCounts DEF Crash
<1>2. Fits(w, At("down")) /\ ~Carries(At("down"))
    BY <1>1, AtType DEF Fits, Carries, Engaged
<1> QED BY <1>1, <1>2, AtType, Rolls

LEMMA DisconnectStep ==
    ASSUME StoreInv, NEW w \in Workers, Disconnect(w)
    PROVE  StoreInv'
<1> DEFINE r == [proc[w] EXCEPT !.linked = FALSE]
<1>1. /\ w \in Txns /\ w \notin Clients /\ Goes(w, r)
      /\ Counters' /\ RollbackTxn(w) /\ proc[w] \in Proc /\ Fits(w, proc[w])
    BY WorkersAreTxns, LoseCounts, ProcTypes DEF Disconnect
<1>2. r \in Proc /\ r.pc = proc[w].pc /\ r.job = proc[w].job /\ ~r.linked
    BY <1>1 DEF Proc
<1>3. Fits(w, r) /\ ~Carries(r)
    BY <1>1, <1>2 DEF Fits, Carries
<1> HIDE DEF r
<1> QED BY <1>1, <1>2, <1>3, Rolls

-----------------------------------------------------------------------------
(***************************************************************************)
(* StoreInv is preserved: the requests.                                    *)
(***************************************************************************)
LEMMA RefuseStep ==
    ASSUME StoreInv, NEW c \in Clients, Refuse(c)
    PROVE  StoreInv'
<1>1. c \in Txns /\ c \notin Workers /\ Counters' /\ RollbackTxn(c) /\ Goes(c, At("idle"))
    BY ClientsAreTxns, CountersKept DEF Refuse
<1>2. Fits(c, At("idle")) /\ ~Carries(At("idle"))
    BY <1>1, AtType DEF Fits, Carries, Engaged
<1> QED BY <1>1, <1>2, AtType, Rolls

LEMMA EnqueueStep ==
    ASSUME StoreInv, NEW c \in Clients, NEW j \in Jobs, Enqueue(c, j)
    PROVE  StoreInv'
<1> DEFINE r == [At("log") EXCEPT !.job = j]
<1>1. c \in Txns /\ c \notin Workers /\ Counters' /\ Goes(c, r)
      /\ committed[j].status = "absent" /\ proc[c].pc = "idle"
    BY ClientsAreTxns, CountersKept DEF Enqueue
<1>2. PICK b \in Budgets : Write(c, j, NewRow(b))
    BY DEF Enqueue
<1>3. r \in Proc /\ r.pc = "log" /\ r.linked /\ r.job = j /\ Carries(r)
    BY AtType DEF Carries, Engaged
<1>4. Change(r.pc, committed[j], NewRow(b)) /\ NewRow(b) \in Row
    BY <1>1, <1>3, RowTypes DEF Change
<1>5. \A k \in Jobs : owner[k] # c
    BY <1>1, OwnJob DEF Carries, Engaged
<1> HIDE DEF r
<1> QED BY <1>1, <1>2, <1>3, <1>4, <1>5, Writes

LEMMA LogStep ==
    ASSUME StoreInv, NEW c \in Clients, Log(c)
    PROVE  StoreInv'
<1> DEFINE r == [proc[c] EXCEPT !.pc = "commit"]
<1>1. CASE c \in Verbose
    BY <1>1, RefuseStep DEF Log, Refuse
<1>2. CASE c \notin Verbose
    <2>1. c \in Txns /\ c \notin Workers /\ Counters' /\ Goes(c, r) /\ UNCHANGED storeVars
          /\ proc[c].pc = "log" /\ proc[c] \in Proc /\ Fits(c, proc[c])
        BY <1>2, ClientsAreTxns, CountersKept, ProcTypes DEF Log
    <2>2. r \in Proc /\ r.pc = "commit" /\ r.job = proc[c].job /\ r.linked = proc[c].linked
        BY <2>1 DEF Proc
    <2>3. Fits(c, r)
        BY <2>1, <2>2 DEF Fits, Carries, Engaged, Change
    <2>4. \A k \in Jobs : owner[k] = c => Carries(r) /\ r.job = k
        BY <2>1, <2>2, OwnJob DEF Carries, Engaged
    <2> HIDE DEF r
    <2> QED BY <2>1, <2>2, <2>3, <2>4, Moves
<1> QED BY <1>1, <1>2

LEMMA AskStep ==
    ASSUME StoreInv, NEW c \in Clients, NEW j \in Jobs, NEW pc \in {"cancel", "retry"}, Ask(c, j, pc)
    PROVE  StoreInv'
<1> DEFINE r == [At(pc) EXCEPT !.job = j, !.seen = committed[j]]
<1>1. c \in Txns /\ c \notin Workers /\ Counters' /\ Goes(c, r) /\ UNCHANGED storeVars
      /\ committed[j].status # "absent" /\ proc[c].pc = "idle"
    BY ClientsAreTxns, CountersKept DEF Ask
<1>2. committed[j] \in Row
    BY DEF StoreInv, TypeOK
<1>3. r \in Proc /\ r.pc = pc /\ r.linked /\ r.job = j
    BY <1>2 DEF At, Proc
<1>4. Fits(c, r)
    BY <1>1, <1>3 DEF Fits, Carries, Engaged
<1>5. \A k \in Jobs : owner[k] # c
    BY <1>1, OwnJob DEF Carries, Engaged
<1> HIDE DEF r
<1> QED BY <1>1, <1>3, <1>4, <1>5, Moves

LEMMA CancelStep ==
    ASSUME StoreInv, NEW c \in Clients, Cancel(c)
    PROVE  StoreInv'
<1> DEFINE j == proc[c].job
           r == [proc[c] EXCEPT !.pc = "commit"]
           row == [working[j] EXCEPT !.status = "cancelled"]
<1>1. CASE Refuse(c)
    BY <1>1, RefuseStep
<1>2. CASE /\ proc[c].pc = "cancel" /\ Lockable(c, j) /\ working[j].status = "pending"
           /\ Write(c, j, row) /\ Goes(c, r) /\ UNCHANGED counters
    <2>1. c \in Txns /\ c \notin Workers /\ Counters' /\ proc[c] \in Proc /\ Fits(c, proc[c])
        BY <1>2, ClientsAreTxns, CountersKept, ProcTypes
    <2>2. j \in Jobs /\ \A k \in Jobs : owner[k] # c
        BY <1>2, <2>1, OwnJob DEF Fits, Carries, Engaged
    <2>3. r \in Proc /\ r.pc = "commit" /\ r.linked /\ r.job = j /\ Carries(r)
        BY <2>1 DEF Proc, Carries, Engaged, Fits
    <2>4. working[j] = committed[j] /\ row \in Row
        BY <1>2, <2>2 DEF Lockable, StoreInv, UnlockedIsCommitted, Rows, TypeOK, Row, Status
    <2>5. Change(r.pc, committed[j], row)
        BY <1>2, <2>3, <2>4 DEF Change
    <2>6. Write(c, j, row) /\ Goes(c, r)
        BY <1>2
    <2> HIDE DEF j, r, row
    <2> QED BY <2>1, <2>2, <2>3, <2>4, <2>5, <2>6, Writes
<1> QED BY <1>1, <1>2 DEF Cancel, Cancellable

LEMMA RetryStep ==
    ASSUME StoreInv, NEW c \in Clients, Retry(c)
    PROVE  StoreInv'
<1> DEFINE j == proc[c].job
           r == [proc[c] EXCEPT !.pc = "requeue"]
           row == Requeued(working[j], proc[c].seen)
<1>1. CASE Refuse(c)
    BY <1>1, RefuseStep
<1>2. CASE /\ proc[c].pc = "retry" /\ Write(c, j, row) /\ Goes(c, r) /\ UNCHANGED counters
    <2>1. c \in Txns /\ c \notin Workers /\ Counters' /\ proc[c] \in Proc /\ Fits(c, proc[c])
        BY <1>2, ClientsAreTxns, CountersKept, ProcTypes
    <2>2. j \in Jobs /\ committed[j].status # "absent" /\ \A k \in Jobs : owner[k] # c
        BY <1>2, <2>1, OwnJob DEF Fits, Carries, Engaged
    <2>3. r \in Proc /\ r.pc = "requeue" /\ r.linked /\ r.job = j /\ Carries(r)
        BY <2>1 DEF Proc, Carries, Engaged, Fits
    <2>4. row \in Row /\ row.status = "pending" /\ row.tries = 0
        <3>1. working[j] \in Row /\ proc[c].seen \in Row
            BY <2>1, <2>2 DEF StoreInv, TypeOK, Proc
        <3> QED BY <3>1, RequeuedType
    <2>5. Change(r.pc, committed[j], row)
        BY <2>3, <2>4 DEF Change
    <2>6. Write(c, j, row) /\ Goes(c, r)
        BY <1>2
    <2> HIDE DEF j, r, row
    <2> QED BY <2>1, <2>2, <2>3, <2>4, <2>5, <2>6, Writes
<1> QED BY <1>1, <1>2 DEF Retry

LEMMA FinishStep ==
    ASSUME StoreInv, NEW c \in Clients, Finish(c)
    PROVE  StoreInv'
<1>1. /\ c \in Txns /\ c \notin Workers /\ Goes(c, At("idle")) /\ CommitTxn(c)
      /\ proc[c].pc \in {"store", "commit", "requeue"}
    BY ClientsAreTxns DEF Finish
<1>2. Counters'
    <2>1. runs \in [Jobs -> Nat] /\ lost \in [Jobs -> Nat] /\ losses \in 0..MaxLosses
        BY DEF StoreInv, TypeOK
    <2>2. CASE proc[c].pc = "requeue"
        BY <2>1, <2>2 DEF Finish, Counters
    <2>3. CASE proc[c].pc # "requeue"
        BY <2>1, <2>3 DEF Finish, Counters
    <2> QED BY <2>2, <2>3
<1> QED BY <1>1, <1>2, AtType, Commits

LEMMA TransactionStep ==
    ASSUME StoreInv, NEW c \in Clients, Serve(c) \/ Fail(c)
    PROVE  StoreInv'
BY LogStep, CancelStep, RetryStep, FinishStep, RefuseStep DEF Serve, Fail

LEMMA WorkStep ==
    ASSUME StoreInv, NEW w \in Workers, Work(w)
    PROVE  StoreInv'
BY RecoverStep, FindNothingStep, DieStep, HandleStep, ReturnStep, RaiseStep, CommitStep DEF Work

LEMMA PreservesStore ==
    ASSUME StoreInv, [Next]_vars
    PROVE  StoreInv'
<1>1. CASE UNCHANGED vars
    <2>1. TypeOK' /\ UnlockedIsCommitted' /\ LocksAreCarried'
        BY <1>1 DEF StoreInv, TypeOK, UnlockedIsCommitted, LocksAreCarried, vars
    <2>2. (\A p \in Txns : Fits(p, proc[p]))'
        BY <1>1 DEF StoreInv, Fits, vars
    <2> QED BY <2>1, <2>2 DEF StoreInv
<1>2. ASSUME NEW w \in Workers,
             Work(w) \/ (\E j \in Jobs : Claim(w, j)) \/ Start(w) \/ Crash(w) \/ Disconnect(w)
      PROVE  StoreInv'
    BY <1>2, WorkStep, ClaimStep, StartStep, CrashStep, DisconnectStep
<1>3. ASSUME NEW c \in Clients,
             \/ Serve(c) \/ Fail(c)
             \/ \E j \in Jobs : Enqueue(c, j) \/ Ask(c, j, "cancel") \/ Ask(c, j, "retry")
      PROVE  StoreInv'
    BY <1>3, TransactionStep, EnqueueStep, AskStep
<1> QED BY <1>1, <1>2, <1>3 DEF Next

LEMMA StartsWithStore == Init => StoreInv
<1> SUFFICES ASSUME Init PROVE StoreInv
    OBVIOUS
<1>1. TypeOK
    <2>1. committed \in [Jobs -> {r \in Row : r.status # "running"}]
        BY RowTypes DEF Init, NewRow
    <2>2. proc \in [Txns -> Proc]
        BY AtType DEF Init
    <2> QED BY <2>1, <2>2, LossesAreBounded DEF Init, TypeOK
<1>2. UnlockedIsCommitted /\ LocksAreCarried
    BY DEF Init, UnlockedIsCommitted, LocksAreCarried, Rows
<1>3. ASSUME NEW p \in Txns PROVE Fits(p, proc[p])
    <2>1. proc[p] = At(IF p \in Workers THEN "recover" ELSE "idle")
        BY DEF Init
    <2> QED BY <2>1, AtType, WorkersAreNoClients DEF Fits, Carries, Engaged
<1> QED BY <1>1, <1>2, <1>3 DEF StoreInv

-----------------------------------------------------------------------------
(***************************************************************************)
(* Every attempt is accounted for.                                         *)
(***************************************************************************)
LEMMA AttemptsType ==
    ASSUME StoreInv, NEW j \in Jobs
    PROVE  /\ committed[j] \in Row /\ committed[j].tries \in Nat /\ committed[j].budget \in Nat
           /\ Attempts(j) \in Nat /\ Attempts(j) >= 1
           /\ runs[j] \in Nat /\ lost[j] \in Nat
<1>1. committed[j] \in Row /\ runs[j] \in Nat /\ lost[j] \in Nat
    BY DEF StoreInv, TypeOK
<1>2. committed[j].tries \in Nat /\ committed[j].budget \in Nat
    BY <1>1, BudgetsAreNumbers DEF Row
<1>3. Attempts(j) \in Nat /\ Attempts(j) >= 1
    BY <1>2 DEF Attempts
<1> QED BY <1>1, <1>2, <1>3

(* Nothing that counts has changed. *)
LEMMA StillAccounted ==
    ASSUME NEW j \in Jobs, Accounted(j),
           committed'[j] = committed[j], runs'[j] = runs[j], lost'[j] = lost[j],
           committed[j].status = "pending" => (Underway(j)' <=> Underway(j))
    PROVE  Accounted(j)'
BY DEF Accounted, Attempts

(* A lock that neither p took nor gave back, and no attempt of p's at its  *)
(* start or end: what is under way stays so.                               *)
LEMMA StaysUnderway ==
    ASSUME StoreInv, NEW p \in Txns, NEW r \in Proc, Goes(p, r), NEW j \in Jobs,
           owner'[j] = owner[j],
           p \in Workers /\ owner[j] = p =>
             (r.pc \in {"handling", "store"} <=> proc[p].pc \in {"handling", "store"})
    PROVE  Underway(j)' <=> Underway(j)
<1>1. /\ proc'[p] = r /\ \A q \in Txns \ {p} : proc'[q] = proc[q]
    BY GoesOn DEF StoreInv, TypeOK
<1> QED BY <1>1, WorkersAreTxns DEF Underway

(* p rolls back, and no attempt of a worker's goes with it. *)
LEMMA RollbackAccounted ==
    ASSUME StoreInv, NEW p \in Txns, NEW r \in Proc, RollbackTxn(p), Goes(p, r),
           NEW j \in Jobs, Accounted(j), runs'[j] = runs[j], lost'[j] = lost[j],
           p \in Workers /\ owner[j] = p => proc[p].pc \notin {"handling", "store"}
    PROVE  Accounted(j)'
<1>1. committed'[j] = committed[j] /\ owner'[j] = IF owner[j] = p THEN Free ELSE owner[j]
    BY DEF RollbackTxn, Rows
<1>2. CASE owner[j] = p
    <2>1. ~Underway(j) /\ ~Underway(j)'
        BY <1>1, <1>2, FreeIsNoTxn, WorkersAreTxns DEF Underway
    <2> QED BY <1>1, <2>1, StillAccounted
<1>3. CASE owner[j] # p
    <2>1. Underway(j)' <=> Underway(j)
        BY <1>1, <1>3, StaysUnderway
    <2> QED BY <1>1, <2>1, StillAccounted
<1> QED BY <1>2, <1>3

(* p moves on holding what it held, without beginning or ending an attempt. *)
LEMMA MoveAccounted ==
    ASSUME StoreInv, NEW p \in Txns, NEW r \in Proc, Goes(p, r), UNCHANGED storeVars,
           NEW j \in Jobs, Accounted(j), runs'[j] = runs[j], lost'[j] = lost[j],
           p \in Workers /\ owner[j] = p =>
             (r.pc \in {"handling", "store"} <=> proc[p].pc \in {"handling", "store"})
    PROVE  Accounted(j)'
<1>1. committed'[j] = committed[j] /\ owner'[j] = owner[j]
    BY DEF storeVars
<1>2. Underway(j)' <=> Underway(j)
    BY <1>1, StaysUnderway
<1> QED BY <1>1, <1>2, StillAccounted

(* p writes the row k, which is j's or not, and begins or ends no attempt. *)
LEMMA WriteAccounted ==
    ASSUME StoreInv, NEW p \in Txns, NEW k \in Jobs, NEW row, NEW r \in Proc,
           Write(p, k, row), Goes(p, r),
           NEW j \in Jobs, Accounted(j), runs'[j] = runs[j], lost'[j] = lost[j],
           owner[j] = p => j = k,
           p \in Workers /\ j = k =>
             \/ owner[k] = p /\ (r.pc \in {"handling", "store"} <=> proc[p].pc \in {"handling", "store"})
             \/ owner[k] = Free /\ r.pc = "claimed"
    PROVE  Accounted(j)'
<1>1. /\ committed'[j] = committed[j]
      /\ owner'[j] = IF j = k THEN p ELSE owner[j]
      /\ owner[k] \in {Free, p}
    BY DEF Write, Lockable, StoreInv, TypeOK
<1>2. CASE owner'[j] = owner[j]
    <2>1. Underway(j)' <=> Underway(j)
        BY <1>1, <1>2, FreeIsNoTxn, StaysUnderway
    <2> QED BY <1>1, <2>1, StillAccounted
<1>3. CASE owner'[j] # owner[j]
    <2>1. j = k /\ owner[j] = Free /\ owner'[j] = p
        BY <1>1, <1>3
    <2>2. proc'[p] = r
        BY GoesOn DEF StoreInv, TypeOK
    <2>3. ~Underway(j) /\ ~Underway(j)'
        BY <2>1, <2>2, FreeIsNoTxn, WorkersAreTxns DEF Underway
    <2> QED BY <1>1, <2>3, StillAccounted
<1> QED BY <1>2, <1>3

(* An attempt begins. *)
LEMMA HandleAccounted ==
    ASSUME StoreInv, NEW w \in Workers, Handle(w), NEW j \in Handled, Accounted(j)
    PROVE  Accounted(j)'
<1> DEFINE r == [proc[w] EXCEPT !.pc = "handling"]
<1>1. /\ proc[w] \in Proc /\ Fits(w, proc[w]) /\ w \in Txns /\ j \in Jobs
      /\ proc[w].pc = "claimed" /\ Goes(w, r) /\ UNCHANGED storeVars
    BY ProcTypes, WorkersAreTxns, HandledAreJobs DEF Handle
<1>2. r \in Proc /\ r.pc = "handling" /\ r.job = proc[w].job /\ r.linked = proc[w].linked
    BY <1>1 DEF Proc
<1>3. committed'[j] = committed[j] /\ owner'[j] = owner[j]
    BY <1>1 DEF storeVars
<1>4. CASE proc[w].job # j
    <2>1. owner[j] # w
        BY <1>1, <1>4, OwnJob
    <2>2. runs'[j] = runs[j] /\ lost'[j] = lost[j]
        BY <1>1, <1>4 DEF Handle, StoreInv, TypeOK
    <2> HIDE DEF r
    <2> QED BY <1>1, <1>2, <2>1, <2>2, MoveAccounted
<1>5. CASE proc[w].job = j /\ proc[w].linked
    <2>1. owner[j] = w /\ committed[j].status = "pending"
        BY <1>1, <1>5 DEF Fits, Carries, Engaged, Change
    <2>2. ~Underway(j) /\ Underway(j)'
        <3>1. proc'[w].pc = "handling"
            BY <1>1, <1>2, GoesOn DEF StoreInv, TypeOK
        <3> QED BY <1>1, <1>3, <2>1, <3>1 DEF Underway
    <2>3. runs'[j] = runs[j] + 1 /\ lost'[j] = lost[j]
        BY <1>1, <1>5 DEF Handle, StoreInv, TypeOK
    <2> QED BY <1>1, <1>3, <2>1, <2>2, <2>3, AttemptsType DEF Accounted, Attempts
<1>6. CASE proc[w].job = j /\ ~proc[w].linked
    <2>1. owner[j] # w /\ committed[j].status # "absent"
        BY <1>1, <1>6, OwnJob DEF Fits, Carries, Engaged
    <2>2. Underway(j)' <=> Underway(j)
        <3> HIDE DEF r
        <3> QED BY <1>1, <1>2, <1>3, <2>1, StaysUnderway
    <2>3. runs'[j] = runs[j] + 1 /\ lost'[j] = lost[j] + 1
        BY <1>1, <1>6 DEF Handle, StoreInv, TypeOK
    <2>4. runs'[j] - lost'[j] = runs[j] - lost[j]
        BY <1>1, <2>3, AttemptsType
    <2> QED BY <1>3, <2>1, <2>2, <2>4 DEF Accounted, Attempts
<1> QED BY <1>4, <1>5, <1>6

(* Its outcome is stored. *)
LEMMA StoreAccounted ==
    ASSUME StoreInv, NEW w \in Workers, NEW row,
           proc[w].pc \in {"claimed", "handling"}, Store(w, row), UNCHANGED counters,
           NEW j \in Handled, Accounted(j),
           proc[w].pc = "claimed" => proc[w].job \notin Handled
    PROVE  Accounted(j)'
<1> DEFINE r == [proc[w] EXCEPT !.pc = "store"]
<1>1. /\ proc[w] \in Proc /\ Fits(w, proc[w]) /\ w \in Txns /\ j \in Jobs
      /\ proc[w].job \in Jobs
      /\ runs'[j] = runs[j] /\ lost'[j] = lost[j]
    BY ProcTypes, WorkersAreTxns, HandledAreJobs DEF Fits, Engaged, counters
<1>2. CASE proc[w].linked
    <2>1. Write(w, proc[w].job, row) /\ Goes(w, r) /\ owner[proc[w].job] = w
        BY <1>1, <1>2 DEF Store, Fits, Carries, Engaged
    <2>2. r \in Proc /\ r.pc = "store"
        BY <1>1 DEF Proc
    <2>3. owner[j] = w => j = proc[w].job
        BY <1>1, OwnJob
    <2> HIDE DEF r
    <2> QED BY <1>1, <2>1, <2>2, <2>3, WriteAccounted
<1>3. CASE ~proc[w].linked
    <2>1. UNCHANGED storeVars /\ Goes(w, At("recover"))
        BY <1>3 DEF Store
    <2>2. owner[j] # w
        BY <1>1, <1>3, OwnJob DEF Carries
    <2> QED BY <1>1, <2>1, <2>2, AtType, MoveAccounted
<1> QED BY <1>2, <1>3

(* What a commit makes of the row of a job, and what it leaves alone. *)
LEMMA CommitChanges ==
    ASSUME StoreInv, NEW p \in Txns, CommitTxn(p), NEW j \in Jobs
    PROVE  /\ owner[j] # p => committed'[j] = committed[j] /\ owner'[j] = owner[j]
           /\ owner[j] = p => /\ committed'[j] = working[j] /\ owner'[j] = Free
                              /\ proc[p].job = j /\ Carries(proc[p])
                              /\ Change(proc[p].pc, committed[j], working[j])
<1>1. /\ committed'[j] = IF owner[j] = p THEN working[j] ELSE committed[j]
      /\ owner'[j] = IF owner[j] = p THEN Free ELSE owner[j]
    BY DEF CommitTxn, Read, Rows
<1>2. owner[j] = p => Carries(proc[p]) /\ proc[p].job = j
    BY OwnJob
<1> QED BY <1>1, <1>2, ProcTypes DEF Fits

LEMMA CommitAccounted ==
    ASSUME StoreInv, NEW w \in Workers, Commit(w), NEW j \in Handled, Accounted(j)
    PROVE  Accounted(j)'
<1>1. /\ w \in Txns /\ j \in Jobs /\ proc[w].pc = "store" /\ Goes(w, At("recover"))
      /\ runs'[j] = runs[j] /\ lost'[j] = lost[j]
      /\ proc[w] \in Proc /\ Fits(w, proc[w])
    BY WorkersAreTxns, HandledAreJobs, ProcTypes DEF Commit, counters
<1>2. CASE owner[j] # w
    <2>1. committed'[j] = committed[j] /\ owner'[j] = owner[j]
        BY <1>1, <1>2, CommitChanges DEF Commit, storeVars
    <2>2. Underway(j)' <=> Underway(j)
        BY <1>1, <1>2, <2>1, AtType, StaysUnderway
    <2> QED BY <1>1, <2>1, <2>2, StillAccounted
<1>3. CASE owner[j] = w
    <2>1. proc[w].linked /\ CommitTxn(w)
        BY <1>1, <1>3, OwnJob DEF Carries, Commit
    <2>2. /\ committed'[j] = working[j] /\ owner'[j] = Free
          /\ Change("store", committed[j], working[j])
        BY <1>1, <1>3, <2>1, CommitChanges
    <2>3. Underway(j) /\ ~Underway(j)'
        BY <1>1, <1>3, <2>2, FreeIsNoTxn, WorkersAreTxns DEF Underway
    <2> DEFINE old == committed[j]
               run == [old EXCEPT !.status = "running"]
    <2>4. old \in Row /\ old.status = "pending" /\ working[j] \in {Completed(run), FailedOrRetry(run)}
        BY <1>1, <2>2, AttemptsType DEF Change, Outcomes
    <2>5. /\ run \in Row /\ run.tries = old.tries /\ run.budget = old.budget
        BY <2>4 DEF Row, Status
    <2>6. runs[j] - lost[j] = old.tries + 1 /\ old.tries < Attempts(j)
        BY <2>3, <2>4 DEF Accounted
    <2>7. old.tries \in Nat /\ old.budget \in Nat
        BY <1>1, AttemptsType
    <2>8. CASE working[j] = Completed(run)
        <3>1. working[j].status = "completed" /\ working[j].tries = old.tries /\ working[j].budget = old.budget
            <4> HIDE DEF old, run
            <4> QED BY <2>5, <2>8 DEF Completed, Row
        <3> QED BY <1>1, <2>2, <2>6, <3>1 DEF Accounted, Attempts
    <2>9. CASE working[j] = FailedOrRetry(run) /\ old.tries + 1 < old.budget
        <3>1. /\ working[j].status = "pending" /\ working[j].tries = old.tries + 1
              /\ working[j].budget = old.budget
            <4> HIDE DEF old, run
            <4> QED BY <2>5, <2>7, <2>9 DEF FailedOrRetry, Row
        <3> QED BY <1>1, <2>2, <2>3, <2>6, <2>7, <2>9, <3>1 DEF Accounted, Attempts
    <2>10. CASE working[j] = FailedOrRetry(run) /\ ~(old.tries + 1 < old.budget)
        <3>1. /\ working[j].status = "failed" /\ working[j].tries = old.tries
              /\ working[j].budget = old.budget
            <4> HIDE DEF old, run
            <4> QED BY <2>5, <2>7, <2>10 DEF FailedOrRetry, Row
        <3>2. old.tries + 1 = Attempts(j)
            BY <2>6, <2>7, <2>10 DEF Attempts
        <3> QED BY <1>1, <2>2, <2>6, <3>1, <3>2 DEF Accounted, Attempts
    <2> QED BY <2>4, <2>8, <2>9, <2>10
<1> QED BY <1>2, <1>3

(* An attempt whose transaction is lost is counted as lost. *)
LEMMA LoseAccounted ==
    ASSUME StoreInv, NEW w \in Workers, Lose(w), NEW r \in Proc, Goes(w, r),
           NEW j \in Handled, Accounted(j)
    PROVE  Accounted(j)'
<1>1. /\ w \in Txns /\ j \in Jobs /\ RollbackTxn(w) /\ runs'[j] = runs[j]
      /\ proc[w] \in Proc /\ Fits(w, proc[w])
    BY WorkersAreTxns, HandledAreJobs, ProcTypes DEF Lose
<1>2. CASE Attempting(w) /\ proc[w].job = j
    <2>1. owner[j] = w /\ committed[j].status = "pending"
        BY <1>1, <1>2 DEF Attempting, Fits, Carries, Engaged, Change
    <2>2. committed'[j] = committed[j] /\ owner'[j] = Free /\ lost'[j] = lost[j] + 1
        BY <1>1, <1>2, <2>1 DEF RollbackTxn, Rows, Lose, StoreInv, TypeOK
    <2>3. Underway(j) /\ ~Underway(j)'
        BY <1>1, <1>2, <2>1, <2>2, FreeIsNoTxn, WorkersAreTxns DEF Underway, Attempting
    <2> QED BY <1>1, <2>1, <2>2, <2>3, AttemptsType DEF Accounted, Attempts
<1>3. CASE ~(Attempting(w) /\ proc[w].job = j)
    <2>1. lost'[j] = lost[j]
        BY <1>1, <1>3 DEF Lose, StoreInv, TypeOK
    <2>2. owner[j] = w => proc[w].pc \notin {"handling", "store"}
        BY <1>1, <1>3, OwnJob DEF Attempting, Carries
    <2> QED BY <1>1, <2>1, <2>2, RollbackAccounted
<1> QED BY <1>2, <1>3

(* A request's commit enqueues a job, cancels it or queues it afresh. *)
LEMMA FinishAccounted ==
    ASSUME StoreInv, NEW c \in Clients, Finish(c), NEW j \in Handled, Accounted(j)
    PROVE  Accounted(j)'
<1>1. /\ c \in Txns /\ c \notin Workers /\ j \in Jobs /\ CommitTxn(c) /\ Goes(c, At("idle"))
      /\ proc[c].pc \in {"commit", "requeue"}
      /\ proc[c] \in Proc /\ Fits(c, proc[c])
    BY ClientsAreTxns, HandledAreJobs, ProcTypes DEF Finish
<1>2. CASE owner[j] # c
    <2>1. committed'[j] = committed[j] /\ owner'[j] = owner[j]
        BY <1>1, <1>2, CommitChanges
    <2>2. Underway(j)' <=> Underway(j)
        BY <1>1, <1>2, <2>1, AtType, StaysUnderway
    <2>3. proc[c].pc = "requeue" => proc[c].job # j
        BY <1>1, <1>2 DEF Fits, Carries, Engaged
    <2>4. runs'[j] = runs[j] /\ lost'[j] = lost[j]
        BY <1>1, <2>3 DEF Finish, StoreInv, TypeOK
    <2> QED BY <1>1, <2>1, <2>2, <2>4, StillAccounted
<1>3. CASE owner[j] = c
    <2>1. /\ committed'[j] = working[j] /\ owner'[j] = Free /\ proc[c].job = j
          /\ Change(proc[c].pc, committed[j], working[j])
        BY <1>1, <1>3, CommitChanges
    <2>2. ~Underway(j) /\ ~Underway(j)'
        BY <1>1, <1>3, <2>1, FreeIsNoTxn, WorkersAreTxns DEF Underway
    <2>3. committed'[j] \in Row /\ committed'[j].tries \in Nat /\ committed'[j].budget \in Nat
        BY <1>1, <2>1, BudgetsAreNumbers DEF StoreInv, TypeOK, Row
    <2>4. Attempts(j)' >= 1 /\ Attempts(j)' \in Nat
        BY <2>3 DEF Attempts
    <2>5. CASE proc[c].pc = "requeue"
        <3>1. runs'[j] = 0 /\ lost'[j] = 0
            BY <1>1, <2>1, <2>5 DEF Finish, StoreInv, TypeOK
        <3>2. committed'[j].status = "pending" /\ committed'[j].tries = 0
            BY <2>1, <2>5 DEF Change
        <3> QED BY <2>2, <2>4, <3>1, <3>2 DEF Accounted
    <2>6. CASE proc[c].pc = "commit"
        <3>1. runs'[j] = runs[j] /\ lost'[j] = lost[j]
            BY <2>6 DEF Finish
        <3>2. CASE committed[j].status = "absent" /\ working[j] \in {NewRow(b) : b \in Budgets}
            <4>1. committed'[j].status = "pending" /\ committed'[j].tries = 0
                BY <2>1, <3>2 DEF NewRow
            <4>2. runs'[j] = 0 /\ lost'[j] = 0
                BY <3>1, <3>2 DEF Accounted
            <4> QED BY <2>2, <2>4, <4>1, <4>2 DEF Accounted
        <3>3. CASE committed[j].status = "pending" /\ working[j] = [committed[j] EXCEPT !.status = "cancelled"]
            <4>1. /\ committed'[j].status = "cancelled" /\ committed'[j].tries = committed[j].tries
                  /\ committed'[j].budget = committed[j].budget
                BY <1>1, <2>1, <3>3, AttemptsType DEF Row
            <4>2. runs[j] - lost[j] = committed[j].tries /\ committed[j].tries < Attempts(j)
                BY <1>1, <2>2, <3>3, AttemptsType DEF Accounted
            <4> QED BY <3>1, <4>1, <4>2 DEF Accounted, Attempts
        <3> QED BY <2>1, <2>6, <3>2, <3>3 DEF Change
    <2> QED BY <1>1, <2>5, <2>6
<1> QED BY <1>2, <1>3

LEMMA WorkerAccounted ==
    ASSUME StoreInv, NEW w \in Workers, NEW j \in Handled, Accounted(j),
           Work(w) \/ (\E k \in Jobs : Claim(w, k)) \/ Start(w) \/ Crash(w) \/ Disconnect(w)
    PROVE  Accounted(j)'
<1>1. w \in Txns /\ j \in Jobs /\ proc[w] \in Proc /\ Fits(w, proc[w])
    BY WorkersAreTxns, HandledAreJobs, ProcTypes
<1>2. CASE Recover(w) \/ FindNothing(w) \/ Start(w)
    <2>1. PICK pc \in {"claim", "recover"} :
            Goes(w, At(pc)) /\ UNCHANGED storeVars /\ UNCHANGED counters
        BY <1>2, RecoverStep DEF Recover, FindNothing, Start
    <2>2. proc[w].pc \in {"recover", "claim", "down"}
        BY <1>2 DEF Recover, FindNothing, Start
    <2>3. owner[j] # w
        BY <1>1, <2>2, OwnJob DEF Carries, Engaged
    <2> QED BY <1>1, <2>1, <2>3, AtType, MoveAccounted DEF counters
<1>3. ASSUME NEW k \in Jobs, Claim(w, k)
      PROVE  Accounted(j)'
    <2> DEFINE r == [At("claimed") EXCEPT !.job = k]
    <2>1. /\ Write(w, k, [committed[k] EXCEPT !.status = "running"]) /\ Goes(w, r)
          /\ owner[k] = Free /\ proc[w].pc = "claim" /\ UNCHANGED counters
        BY <1>3 DEF Claim
    <2>2. owner[j] # w
        BY <1>1, <2>1, OwnJob DEF Carries, Engaged
    <2>3. r \in Proc /\ r.pc = "claimed"
        BY AtType
    <2> HIDE DEF r
    <2> QED BY <1>1, <2>1, <2>2, <2>3, WriteAccounted DEF counters
<1>4. CASE Die(w)
    <2>1. /\ RollbackTxn(w) /\ Goes(w, At("dead")) /\ proc[w].pc = "claimed" /\ UNCHANGED counters
        BY <1>4 DEF Die
    <2> QED BY <1>1, <2>1, AtType, RollbackAccounted DEF counters
<1>5. CASE Handle(w)
    BY <1>5, HandleAccounted
<1>6. CASE Return(w) \/ Raise(w) \/ NoHandler(w)
    BY <1>6, StoreAccounted DEF Return, Raise, NoHandler
<1>7. CASE Commit(w)
    BY <1>7, CommitAccounted
<1>8. CASE Crash(w)
    BY <1>8, AtType, LoseAccounted DEF Crash
<1>9. CASE Disconnect(w)
    <2>1. [proc[w] EXCEPT !.linked = FALSE] \in Proc
        BY <1>1 DEF Proc
    <2> QED BY <1>9, <2>1, LoseAccounted DEF Disconnect
<1> QED BY <1>2, <1>3, <1>4, <1>5, <1>6, <1>7, <1>8, <1>9 DEF Work

LEMMA RequestAccounted ==
    ASSUME StoreInv, NEW c \in Clients, NEW j \in Handled, Accounted(j),
           \/ Serve(c) \/ Fail(c)
           \/ \E k \in Jobs : Enqueue(c, k) \/ Ask(c, k, "cancel") \/ Ask(c, k, "retry")
    PROVE  Accounted(j)'
<1>1. c \in Txns /\ c \notin Workers /\ j \in Jobs /\ proc[c] \in Proc /\ Fits(c, proc[c])
    BY ClientsAreTxns, HandledAreJobs, ProcTypes
<1>2. CASE Refuse(c)
    BY <1>1, <1>2, AtType, RollbackAccounted DEF Refuse, counters
<1>3. ASSUME NEW k \in Jobs, Enqueue(c, k)
      PROVE  Accounted(j)'
    <2> DEFINE r == [At("log") EXCEPT !.job = k]
    <2>1. (\E row : Write(c, k, row)) /\ Goes(c, r) /\ proc[c].pc = "idle" /\ UNCHANGED counters
        BY <1>3 DEF Enqueue
    <2>2. owner[j] # c /\ r \in Proc
        BY <1>1, <2>1, OwnJob, AtType DEF Carries, Engaged
    <2> HIDE DEF r
    <2> QED BY <1>1, <2>1, <2>2, WriteAccounted DEF counters
<1>4. ASSUME NEW r \in Proc, Goes(c, r), UNCHANGED storeVars, UNCHANGED counters
      PROVE  Accounted(j)'
    BY <1>1, <1>4, MoveAccounted DEF counters
<1>5. ASSUME NEW k \in Jobs, NEW pc \in {"cancel", "retry"}, Ask(c, k, pc)
      PROVE  Accounted(j)'
    <2>1. [At(pc) EXCEPT !.job = k, !.seen = committed[k]] \in Proc
        BY <1>1, AttemptsType, RowTypes DEF At, Proc
    <2> QED BY <1>4, <1>5, <2>1 DEF Ask
<1>6. CASE Log(c)
    <2>1. [proc[c] EXCEPT !.pc = "commit"] \in Proc
        BY <1>1 DEF Proc
    <2> QED BY <1>2, <1>4, <1>6, <2>1 DEF Log, Refuse
<1>7. ASSUME NEW row, NEW pc \in {"commit", "requeue"}, proc[c].pc \in {"cancel", "retry"},
             Write(c, proc[c].job, row), Goes(c, [proc[c] EXCEPT !.pc = pc]), UNCHANGED counters
      PROVE  Accounted(j)'
    <2>1. [proc[c] EXCEPT !.pc = pc] \in Proc /\ proc[c].job \in Jobs
        BY <1>1, <1>7 DEF Proc, Fits, Engaged
    <2>2. owner[j] # c
        BY <1>1, <1>7, OwnJob DEF Carries, Engaged
    <2> QED BY <1>1, <1>7, <2>1, <2>2, WriteAccounted DEF counters
<1>8. CASE Cancel(c)
    BY <1>2, <1>7, <1>8 DEF Cancel
<1>9. CASE Retry(c)
    BY <1>2, <1>7, <1>9 DEF Retry
<1>10. CASE Finish(c)
    BY <1>10, FinishAccounted
<1> QED BY <1>2, <1>3, <1>5, <1>6, <1>8, <1>9, <1>10 DEF Serve, Fail

-----------------------------------------------------------------------------
(***************************************************************************)
(* The theorems.                                                           *)
(***************************************************************************)

(* What every action of the queue preserves: who holds which row, what an  *)
(* uncommitted row may look like, and where every attempt is accounted.    *)
THEOREM Invariance == Spec => []IInv
<1>1. Init => IInv
    <2> SUFFICES ASSUME Init PROVE IInv
        OBVIOUS
    <2>1. StoreInv
        BY StartsWithStore
    <2>2. ASSUME NEW j \in Handled PROVE Accounted(j)
        <3>1. j \in Jobs /\ runs[j] = 0 /\ lost[j] = 0 /\ ~Underway(j)
            BY HandledAreJobs, FreeIsNoTxn, WorkersAreTxns DEF Init, Underway
        <3>2. committed[j].status \in {"absent", "pending"} /\ committed[j].tries = 0
            BY <3>1, RowTypes DEF Init, NewRow
        <3> QED BY <2>1, <3>1, <3>2, AttemptsType DEF Accounted
    <2> QED BY <2>1, <2>2 DEF IInv
<1>2. IInv /\ [Next]_vars => IInv'
    <2> SUFFICES ASSUME IInv, [Next]_vars PROVE IInv'
        OBVIOUS
    <2>1. StoreInv /\ StoreInv'
        BY PreservesStore DEF IInv
    <2>2. ASSUME NEW j \in Handled PROVE Accounted(j)'
        <3>1. CASE UNCHANGED vars
            BY <3>1 DEF vars, IInv, Accounted, Attempts, Underway
        <3>2. CASE Next
            BY <2>1, <3>2, WorkerAccounted, RequestAccounted DEF Next, IInv
        <3> QED BY <3>1, <3>2
    <2> QED BY <2>1, <2>2 DEF IInv
<1> QED BY <1>1, <1>2, PTL DEF Spec

(* Every row, lock and process stays of its type, and no committed row is  *)
(* ever RUNNING: what recover_stuck_jobs looks for does not exist.         *)
THEOREM TypeCorrect == Spec => []TypeOK
<1>1. IInv => TypeOK
    BY DEF IInv, StoreInv
<1> QED BY <1>1, Invariance, PTL

(* No two workers that can still store an outcome work on one job.         *)
THEOREM RunsAlone == Spec => []OneRunner
<1>1. IInv => OneRunner
    BY WorkersAreTxns DEF IInv, StoreInv, Fits, Carries, Engaged, OneRunner, Busy
<1> QED BY <1>1, Invariance, PTL

(* A worker or request that died, failed or lost its connection leaves no  *)
(* job locked behind it.                                                   *)
THEOREM LocksAreReleased == Spec => []NothingLeftLocked
<1>1. IInv => NothingLeftLocked
    BY DEF IInv, StoreInv, LocksAreCarried, Carries, Engaged, NothingLeftLocked
<1> QED BY <1>1, Invariance, PTL

(* The attempts the table has seen since a job was enqueued stay within    *)
(* max_retries, and a job is given up exactly with the last of them.       *)
THEOREM AttemptsAreBounded == Spec => []WithinBudget
<1>1. IInv => WithinBudget
    <2> SUFFICES ASSUME IInv, NEW j \in Handled
                 PROVE  /\ runs[j] - lost[j] <= Attempts(j)
                        /\ committed[j].status = "failed" => runs[j] - lost[j] = Attempts(j)
                        /\ committed[j].status = "completed" => runs[j] - lost[j] >= 1
        BY DEF WithinBudget
    <2>1. j \in Jobs /\ StoreInv /\ Accounted(j)
        BY HandledAreJobs DEF IInv
    <2>2. committed[j].status \in {"absent", "pending", "cancelled", "completed", "failed"}
        BY <2>1 DEF StoreInv, TypeOK, Row, Status
    <2>3. committed[j].tries \in Nat /\ Attempts(j) \in Nat /\ Attempts(j) >= 1
        BY <2>1, AttemptsType
    <2> QED BY <2>1, <2>2, <2>3 DEF Accounted
<1> QED BY <1>1, Invariance, PTL

-----------------------------------------------------------------------------
(***************************************************************************)
(* JobQueue implements JobLedger, if requests come one at a time: with two *)
(* of them a retry may reset a row that is not as it was read.             *)
(***************************************************************************)
RequestsComeAlone == \A c, d \in Clients : c = d

(* A retry finds the row as it read it, and makes a new one of it. *)
RetriesAreFresh ==
    \A c \in Clients :
        LET j == proc[c].job IN
        /\ proc[c].pc = "retry" /\ proc[c].seen.status \in {"failed", "cancelled"} =>
             committed[j] = proc[c].seen
        /\ proc[c].pc = "requeue" =>
             /\ committed[j].status \in {"failed", "cancelled"}
             /\ working[j] = NewRow(committed[j].budget)

LEMMA RequeuedIsNew ==
    ASSUME NEW row \in Row
    PROVE  Requeued(row, row) = NewRow(row.budget)
<1>1. /\ Requeued(row, row) \in Row /\ Requeued(row, row).status = "pending"
      /\ Requeued(row, row).tries = 0
    BY RequeuedType
<1>2. Requeued(row, row).budget = row.budget
    BY DEF Requeued, Row
<1>3. Requeued(row, row).done = FALSE
    BY DEF Requeued, Row
<1> HIDE DEF Requeued
<1> QED BY <1>1, <1>2, <1>3 DEF NewRow, Row

(* What an attempt makes of a row is what the ledger allows it. *)
LEMMA OutcomesAreAttempts ==
    ASSUME NEW old \in Row, old.status = "pending",
           NEW new \in Outcomes([old EXCEPT !.status = "running"])
    PROVE  new \in Ledger!Attempted(old)
<1> DEFINE run == [old EXCEPT !.status = "running"]
<1>1. Completed(run) = [old EXCEPT !.status = "completed", !.done = TRUE]
    BY DEF Completed, Row
<1>2. /\ run.tries = old.tries /\ run.budget = old.budget
    BY DEF Row
<1>3. CASE old.tries + 1 < old.budget
    <2>1. FailedOrRetry(run) = [run EXCEPT !.status = "pending", !.tries = run.tries + 1]
        BY <1>2, <1>3 DEF FailedOrRetry
    <2>2. FailedOrRetry(run) = [old EXCEPT !.tries = old.tries + 1]
        BY <2>1 DEF Row
    <2> QED BY <1>1, <1>3, <2>2 DEF Outcomes, Ledger!Attempted
<1>4. CASE ~(old.tries + 1 < old.budget)
    <2>1. FailedOrRetry(run) = [run EXCEPT !.status = "failed", !.done = TRUE]
        BY <1>2, <1>4 DEF FailedOrRetry
    <2>2. FailedOrRetry(run) = [old EXCEPT !.status = "failed", !.done = TRUE]
        BY <2>1 DEF Row
    <2> QED BY <1>1, <1>4, <2>2 DEF Outcomes, Ledger!Attempted
<1> QED BY <1>3, <1>4

(* A commit is one step of the ledger, or changes no row. *)
LEMMA CommitIsEntry ==
    ASSUME StoreInv, NEW p \in Txns, CommitTxn(p), proc[p].pc \in {"store", "commit", "requeue"},
           proc[p].pc = "requeue" =>
             /\ committed[proc[p].job].status \in {"failed", "cancelled"}
             /\ working[proc[p].job] = NewRow(committed[proc[p].job].budget)
    PROVE  Ledger!Next \/ UNCHANGED committed
<1>1. committed \in [Jobs -> Row] /\ committed' = [j \in Jobs |-> IF owner[j] = p THEN working[j] ELSE committed[j]]
    BY DEF CommitTxn, Read, Rows, StoreInv, TypeOK
<1>2. CASE \A j \in Jobs : owner[j] # p
    BY <1>1, <1>2
<1>3. ASSUME NEW j \in Jobs, owner[j] = p
      PROVE  Ledger!Next
    <2>1. /\ proc[p].job = j /\ Change(proc[p].pc, committed[j], working[j])
          /\ \A k \in Jobs : owner[k] = p => k = j
        BY <1>3, OwnJob, CommitChanges
    <2>2. committed' = [committed EXCEPT ![j] = working[j]]
        BY <1>1, <1>3, <2>1
    <2>3. working[j] \in Ledger!Successors(committed[j])
        <3>1. CASE proc[p].pc = "store"
            BY <1>1, <2>1, <3>1, OutcomesAreAttempts DEF Change, Ledger!Successors
        <3>2. CASE proc[p].pc = "commit"
            BY <2>1, <3>2 DEF Change, NewRow, Ledger!Successors, Ledger!Enqueued
        <3>3. CASE proc[p].pc = "requeue"
            <4>1. committed[j].budget \in Budgets
                BY <1>1 DEF Row
            <4>2. NewRow(committed[j].budget) \in {n \in Ledger!Enqueued : n.budget = committed[j].budget}
                BY <4>1 DEF NewRow, Ledger!Enqueued
            <4> QED BY <2>1, <3>3, <4>2 DEF Ledger!Successors
        <3> QED BY <3>1, <3>2, <3>3
    <2> QED BY <2>2, <2>3 DEF Ledger!Next
<1> QED BY <1>2, <1>3

LEMMA StepIsEntry ==
    ASSUME StoreInv, RetriesAreFresh, Next
    PROVE  Ledger!Next \/ UNCHANGED committed
<1>1. ASSUME NEW w \in Workers, Commit(w)
      PROVE  Ledger!Next \/ UNCHANGED committed
    BY <1>1, CommitIsEntry, WorkersAreTxns DEF Commit, storeVars
<1>2. ASSUME NEW c \in Clients, Finish(c)
      PROVE  Ledger!Next \/ UNCHANGED committed
    BY <1>2, CommitIsEntry, ClientsAreTxns DEF Finish, RetriesAreFresh
<1>3. ASSUME NEW w \in Workers,
             Work(w) \/ (\E j \in Jobs : Claim(w, j)) \/ Start(w) \/ Crash(w) \/ Disconnect(w)
      PROVE  Commit(w) \/ UNCHANGED committed
    BY <1>3, RecoverStep DEF Work, FindNothing, Die, Handle, Return, Raise, NoHandler, Store,
       Claim, Start, Crash, Disconnect, Lose, Write, RollbackTxn, storeVars
<1>4. ASSUME NEW c \in Clients,
             \/ Serve(c) \/ Fail(c)
             \/ \E j \in Jobs : Enqueue(c, j) \/ Ask(c, j, "cancel") \/ Ask(c, j, "retry")
      PROVE  Finish(c) \/ UNCHANGED committed
    BY <1>4 DEF Serve, Log, Cancel, Retry, Fail, Refuse, Enqueue, Ask, Write, RollbackTxn, storeVars
<1> QED BY <1>1, <1>2, <1>3, <1>4 DEF Next

LEMMA WorkerMovesItself ==
    ASSUME StoreInv, NEW w \in Workers,
           Work(w) \/ (\E k \in Jobs : Claim(w, k)) \/ Start(w) \/ Crash(w) \/ Disconnect(w)
    PROVE  \A c \in Clients : proc'[c] = proc[c]
<1>1. proc \in [Txns -> Proc]
    BY DEF StoreInv, TypeOK
<1>2. \E r : Goes(w, r)
    BY DEF Work, Recover, FindNothing, Die, Handle, Return, Raise, NoHandler, Store, Commit,
           Claim, Start, Crash, Disconnect
<1> QED BY <1>1, <1>2, WorkersAreTxns, ClientsAreTxns DEF Goes

(* What a worker does to a job a request has in hand. *)
LEMMA WorkerKeepsOut ==
    ASSUME StoreInv, NEW w \in Workers, NEW j \in Jobs,
           Work(w) \/ (\E k \in Jobs : Claim(w, k)) \/ Start(w) \/ Crash(w) \/ Disconnect(w)
    PROVE  /\ committed'[j] = committed[j] \/ committed[j].status = "pending"
           /\ owner[j] \in Clients => working'[j] = working[j]
<1>1. w \in Txns /\ w \notin Clients /\ Fits(w, proc[w])
    BY WorkersAreTxns DEF StoreInv
<1>2. CASE UNCHANGED storeVars
    BY <1>2 DEF storeVars
<1>3. CASE RollbackTxn(w)
    BY <1>1, <1>3 DEF RollbackTxn, Rows
<1>4. CASE CommitTxn(w) /\ proc[w].pc = "store"
    <2>1. owner[j] # w => committed'[j] = committed[j]
        BY <1>1, <1>4, CommitChanges
    <2>2. owner[j] = w => committed[j].status = "pending"
        BY <1>1, <1>4, CommitChanges DEF Change
    <2> QED BY <1>4, <2>1, <2>2 DEF CommitTxn
<1>5. ASSUME NEW k \in Jobs, NEW row, Write(w, k, row)
      PROVE  /\ committed'[j] = committed[j]
             /\ owner[j] \in Clients => working'[j] = working[j]
    BY <1>1, <1>5, FreeIsNoTxn, ClientsAreTxns DEF Write, Lockable, StoreInv, TypeOK
<1>6. Store(w, Completed(working[proc[w].job])) \/ Store(w, FailedOrRetry(working[proc[w].job]))
        => UNCHANGED storeVars \/ \E row : Write(w, proc[w].job, row)
    BY DEF Store
<1>7. proc[w].pc \in {"claimed", "handling"} => proc[w].job \in Jobs
    BY <1>1 DEF Fits, Engaged
<1>8. \/ UNCHANGED storeVars \/ RollbackTxn(w)
      \/ CommitTxn(w) /\ proc[w].pc = "store"
      \/ \E k \in Jobs : \E row : Write(w, k, row)
    BY <1>6, <1>7, RecoverStep DEF Work, FindNothing, Die, Handle, Return, Raise, NoHandler,
       Commit, Claim, Start, Crash, Disconnect, Lose
<1> QED BY <1>2, <1>3, <1>4, <1>5, <1>8

LEMMA RetryStaysFresh ==
    ASSUME StoreInv, RequestsComeAlone, RetriesAreFresh, NEW c \in Clients, Retry(c)
    PROVE  RetriesAreFresh'
<1> DEFINE j == proc[c].job
           seen == proc[c].seen
<1>1. /\ c \in Txns /\ proc[c] \in Proc /\ Fits(c, proc[c]) /\ proc[c].pc = "retry"
      /\ \A d \in Clients : d = c
    BY ClientsAreTxns, ProcTypes DEF Retry, RequestsComeAlone
<1>2. CASE Refuse(c)
    <2>1. proc'[c].pc = "idle"
        BY <1>1, <1>2, AtType, GoesOn DEF Refuse, StoreInv, TypeOK
    <2> QED BY <1>1, <2>1 DEF RetriesAreFresh
<1>3. CASE /\ seen.status \in {"failed", "cancelled"} /\ Write(c, j, Requeued(working[j], seen))
           /\ Goes(c, [proc[c] EXCEPT !.pc = "requeue"])
    <2>1. j \in Jobs /\ owner[j] # c /\ committed[j] = seen
        BY <1>1, <1>3, OwnJob DEF Fits, Carries, Engaged, RetriesAreFresh
    <2>2. working[j] = seen /\ seen \in Row
        BY <1>1, <1>3, <2>1 DEF Write, Lockable, StoreInv, UnlockedIsCommitted, Rows, Proc
    <2>3. Requeued(working[j], seen) = NewRow(seen.budget)
        BY <2>2, RequeuedIsNew
    <2>4. committed'[j] = seen /\ working'[j] = NewRow(seen.budget)
        BY <1>3, <2>1, <2>3 DEF Write, StoreInv, TypeOK
    <2>5. proc'[c].pc = "requeue" /\ proc'[c].job = j
        <3>1. [proc[c] EXCEPT !.pc = "requeue"] \in Proc
            BY <1>1 DEF Proc
        <3> QED BY <1>1, <1>3, <3>1, GoesOn DEF StoreInv, TypeOK, Proc
    <2> QED BY <1>1, <1>3, <2>4, <2>5 DEF RetriesAreFresh
<1> QED BY <1>1, <1>2, <1>3 DEF Retry

LEMMA RequestsStayFresh ==
    ASSUME StoreInv, RequestsComeAlone, RetriesAreFresh, NEW c \in Clients,
           \/ Serve(c) \/ Fail(c)
           \/ \E j \in Jobs : Enqueue(c, j) \/ Ask(c, j, "cancel") \/ Ask(c, j, "retry")
    PROVE  RetriesAreFresh'
<1>1. /\ c \in Txns /\ proc[c] \in Proc /\ \A d \in Clients : d = c
      /\ proc \in [Txns -> Proc]
    BY ClientsAreTxns, ProcTypes DEF RequestsComeAlone, StoreInv, TypeOK
<1>2. ASSUME NEW r \in Proc, Goes(c, r), r.pc \notin {"retry", "requeue"}
      PROVE  RetriesAreFresh'
    BY <1>1, <1>2, GoesOn DEF RetriesAreFresh
<1>3. ASSUME NEW j \in Jobs, Ask(c, j, "retry")
      PROVE  RetriesAreFresh'
    <2> DEFINE r == [At("retry") EXCEPT !.job = j, !.seen = committed[j]]
    <2>1. Goes(c, r) /\ UNCHANGED storeVars
        BY <1>3 DEF Ask
    <2>2. r \in Proc /\ r.pc = "retry" /\ r.job = j /\ r.seen = committed[j]
        BY AttemptsType, RowTypes DEF At, Proc
    <2>3. proc'[c] = r
        <3> HIDE DEF r
        <3> QED BY <1>1, <2>1, <2>2, GoesOn
    <2>4. committed'[j] = committed[j]
        BY <2>1 DEF storeVars
    <2> HIDE DEF r
    <2> QED BY <1>1, <2>2, <2>3, <2>4 DEF RetriesAreFresh
<1>4. ASSUME NEW j \in Jobs, Enqueue(c, j) \/ Ask(c, j, "cancel")
      PROVE  RetriesAreFresh'
    <2>1. /\ [At("cancel") EXCEPT !.job = j, !.seen = committed[j]] \in Proc
          /\ [At("cancel") EXCEPT !.job = j, !.seen = committed[j]].pc = "cancel"
        BY AttemptsType, RowTypes DEF At, Proc
    <2>2. CASE Ask(c, j, "cancel")
        BY <1>2, <2>1, <2>2 DEF Ask
    <2>3. CASE Enqueue(c, j)
        BY <1>2, <2>3, AtType DEF Enqueue
    <2> QED BY <1>4, <2>2, <2>3
<1>5. CASE Refuse(c) \/ Finish(c)
    BY <1>2, <1>5, AtType DEF Refuse, Finish
<1>6. [proc[c] EXCEPT !.pc = "commit"] \in Proc /\ [proc[c] EXCEPT !.pc = "commit"].pc = "commit"
    BY <1>1 DEF Proc
<1>7. CASE Log(c)
    BY <1>2, <1>5, <1>6, <1>7 DEF Log, Refuse
<1>8. CASE Cancel(c)
    BY <1>2, <1>5, <1>6, <1>8 DEF Cancel
<1> QED BY <1>3, <1>4, <1>5, <1>7, <1>8, RetryStaysFresh DEF Serve, Fail

LEMMA WorkersKeepFresh ==
    ASSUME StoreInv, RetriesAreFresh, NEW w \in Workers,
           Work(w) \/ (\E k \in Jobs : Claim(w, k)) \/ Start(w) \/ Crash(w) \/ Disconnect(w)
    PROVE  RetriesAreFresh'
<1> SUFFICES ASSUME NEW c \in Clients
             PROVE  /\ proc'[c].pc = "retry" /\ proc'[c].seen.status \in {"failed", "cancelled"} =>
                         committed'[proc'[c].job] = proc'[c].seen
                    /\ proc'[c].pc = "requeue" =>
                         /\ committed'[proc'[c].job].status \in {"failed", "cancelled"}
                         /\ working'[proc'[c].job] = NewRow(committed'[proc'[c].job].budget)
    BY DEF RetriesAreFresh
<1>1. c \in Txns /\ proc[c] \in Proc /\ Fits(c, proc[c])
    BY ClientsAreTxns, ProcTypes
<1>2. proc'[c] = proc[c]
    BY WorkerMovesItself
<1>3. CASE proc[c].pc \notin {"retry", "requeue"}
    BY <1>2, <1>3
<1>4. CASE proc[c].pc \in {"retry", "requeue"}
    <2>1. proc[c].job \in Jobs
        BY <1>1, <1>4 DEF Fits, Engaged
    <2>2. /\ committed'[proc[c].job] = committed[proc[c].job] \/ committed[proc[c].job].status = "pending"
          /\ owner[proc[c].job] \in Clients => working'[proc[c].job] = working[proc[c].job]
        BY <2>1, WorkerKeepsOut
    <2>3. proc[c].pc = "requeue" => owner[proc[c].job] \in Clients
        BY <1>1 DEF Fits, Carries, Engaged
    <2> QED BY <1>2, <2>2, <2>3 DEF RetriesAreFresh
<1> QED BY <1>3, <1>4

(* Whatever workers, crashes and lost connections do, the table changes as *)
(* the ledger does: one job at a time, every recorded attempt counted, a   *)
(* completed job left alone.                                               *)
THEOREM Implementation == RequestsComeAlone => (Spec => ImplementsLedger)
<1> SUFFICES ASSUME RequestsComeAlone PROVE Spec => ImplementsLedger
    OBVIOUS
<1>1. Init => RetriesAreFresh /\ Ledger!Init
    <2> SUFFICES ASSUME Init PROVE RetriesAreFresh /\ Ledger!Init
        OBVIOUS
    <2>1. RetriesAreFresh
        <3>1. \A c \in Clients : proc[c].pc = "idle"
            BY ClientsAreTxns, AtType DEF Init
        <3> QED BY <3>1 DEF RetriesAreFresh
    <2>2. Ledger!Init
        BY RowTypes DEF Init, NewRow, Ledger!Init, Ledger!Enqueued
    <2> QED BY <2>1, <2>2
<1>2. IInv /\ RetriesAreFresh /\ [Next]_vars => RetriesAreFresh'
    <2>1. CASE UNCHANGED vars
        BY <2>1 DEF vars, RetriesAreFresh
    <2>2. CASE Next
        BY <2>2, RequestsStayFresh, WorkersKeepFresh DEF Next, IInv
    <2> QED BY <2>1, <2>2
<1>3. IInv /\ RetriesAreFresh /\ [Next]_vars => [Ledger!Next]_committed
    <2>1. CASE UNCHANGED vars
        BY <2>1 DEF vars
    <2>2. CASE Next
        BY <2>2, StepIsEntry DEF IInv
    <2> QED BY <2>1, <2>2
<1> QED BY <1>1, <1>2, <1>3, Invariance, PTL DEF Spec, ImplementsLedger, Ledger!Spec
=============================================================================
