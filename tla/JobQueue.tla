------------------------------ MODULE JobQueue ------------------------------
(***************************************************************************)
(* The background queue of app/queue: the table queue_jobs in RowStore,    *)
(* the worker of each process, and the requests that enqueue, cancel and   *)
(* retry jobs.                                                             *)
(*                                                                         *)
(* A worker claims a job, runs its handler and stores the outcome in one   *)
(* transaction.  The handler works outside of it, so an attempt can be     *)
(* made and leave no trace in the table: runs and lost count those.        *)
(*                                                                         *)
(* run_at and priority decide only which of the pending jobs is claimed    *)
(* when: here any of them may be, at any time.                             *)
(***************************************************************************)
EXTENDS Integers, FiniteSets

CONSTANTS
    Jobs,       \* slots for rows of queue_jobs
    Handled,    \* the jobs whose job_name has a registered handler
    Workers,    \* one for each process
    Clients,    \* requests in progress at once
    Budgets,    \* max_retries a job may be enqueued with
    Verbose,    \* workers and requests whose LOG_LEVEL lets INFO through
    MaxLosses,  \* bound on lost connections and crashes
    Free, None

Txns == Workers \cup Clients
Rows == Jobs

ASSUME FreeIsNoTxn == Free \notin Txns
ASSUME WorkersAreNoClients == Workers \cap Clients = {}
ASSUME NoneIsNoJob == None \notin Jobs
ASSUME BudgetsAreNumbers == Budgets \subseteq Nat /\ Budgets # {}
ASSUME HandledAreJobs == Handled \subseteq Jobs
ASSUME VerboseAreTxns == Verbose \subseteq Txns
ASSUME LossesAreBounded == MaxLosses \in Nat

VARIABLES
    committed, working, owner,  \* the database (RowStore)
    proc,       \* proc[p]: what worker or request p is doing
    runs,       \* runs[j]: attempts begun since j was last enqueued
    lost,       \* lost[j]: those of them whose transaction was lost
    losses      \* lost connections and crashes so far

INSTANCE RowStore

storeVars == <<committed, working, owner>>
counters == <<runs, lost, losses>>
vars == <<committed, working, owner, proc, runs, lost, losses>>

-----------------------------------------------------------------------------
Status == {"absent", "pending", "running", "completed", "failed", "cancelled"}

Row == [status : Status,
        tries : Nat,        \* retry_count
        budget : Budgets,   \* max_retries
        done : BOOLEAN]     \* completed_at is set

NewRow(b) == [status |-> "pending", tries |-> 0, budget |-> b, done |-> FALSE]

NoRow == [NewRow(CHOOSE b \in Budgets : TRUE) EXCEPT !.status = "absent"]

Completed(row) == [row EXCEPT !.status = "completed", !.done = TRUE]

(* (mutant) next_retry <= max_retries. *)
FailedOrRetryOneMore(row) ==
    IF row.tries + 1 <= row.budget
    THEN [row EXCEPT !.status = "pending", !.tries = @ + 1]
    ELSE [row EXCEPT !.status = "failed", !.done = TRUE]

FailedOrRetry(row) ==
    IF row.tries + 1 < row.budget
    THEN [row EXCEPT !.status = "pending", !.tries = @ + 1]
    ELSE [row EXCEPT !.status = "failed", !.done = TRUE]

(* (mutant) The UPDATE of a cancellation does not look at the status. *)
CancellableAlways(row) == TRUE

Cancellable(row) == row.status = "pending"

(* An UPDATE by id, and the completed_at the ORM clears if it had loaded one. *)
Requeued(row, seen) ==
    LET fresh == [row EXCEPT !.status = "pending", !.tries = 0]
    IN  IF seen.done THEN [fresh EXCEPT !.done = FALSE] ELSE fresh

(* A worker or request about to do pc.  linked: its transaction is open on *)
(* the server; after a lost connection every statement raises.             *)
At(pc) == [pc |-> pc, job |-> None, linked |-> TRUE, seen |-> NoRow]

Goes(p, r) == proc' = [proc EXCEPT ![p] = r]

-----------------------------------------------------------------------------
(***************************************************************************)
(* The worker of a process: recover, claim, handle, commit, and again.     *)
(***************************************************************************)

(* recover_stuck_jobs, in a transaction of its own. *)
Recover(w) ==
    /\ proc[w].pc = "recover"
    /\ \E stuck \in SUBSET {j \in Jobs : committed[j].status = "running" /\ owner[j] = Free} :
         LET reset(s) == [j \in Jobs |->
                            IF j \in stuck THEN [s[j] EXCEPT !.status = "pending"] ELSE s[j]]
         IN  committed' = reset(committed) /\ working' = reset(working)
    /\ Goes(w, At("claim"))
    /\ UNCHANGED <<owner, counters>>

(* (mutant) Neither locked nor marked. *)
ClaimByReading(w, j) ==
    /\ proc[w].pc = "claim"
    /\ committed[j].status = "pending"
    /\ Goes(w, [At("claimed") EXCEPT !.job = j])
    /\ UNCHANGED <<storeVars, counters>>

(* (mutant) The mark is committed at once. *)
ClaimCommitted(w, j) ==
    /\ proc[w].pc = "claim"
    /\ owner[j] = Free /\ committed[j].status = "pending"
    /\ committed' = [committed EXCEPT ![j].status = "running"]
    /\ working' = [working EXCEPT ![j].status = "running"]
    /\ owner' = [owner EXCEPT ![j] = w]
    /\ Goes(w, [At("claimed") EXCEPT !.job = j])
    /\ UNCHANGED counters

(* SELECT ... FOR UPDATE SKIP LOCKED, and the mark. *)
Claim(w, j) ==
    /\ proc[w].pc = "claim"
    /\ owner[j] = Free /\ committed[j].status = "pending"
    /\ Write(w, j, [committed[j] EXCEPT !.status = "running"])
    /\ Goes(w, [At("claimed") EXCEPT !.job = j])
    /\ UNCHANGED counters

(* Nothing is due, or the claim raised. *)
FindNothing(w) ==
    /\ proc[w].pc = "claim"
    /\ Goes(w, At("recover"))
    /\ UNCHANGED <<storeVars, counters>>

(* The log record of the claim has a reserved key: the KeyError leaves     *)
(* _process_one_job and _run, and nothing starts the task again.           *)
Die(w) ==
    /\ proc[w].pc = "claimed" /\ w \in Verbose
    /\ RollbackTxn(w)
    /\ Goes(w, At("dead"))
    /\ UNCHANGED counters

(* The handler is called, with or without a connection left to record it. *)
Handle(w) ==
    LET j == proc[w].job IN
    /\ proc[w].pc = "claimed" /\ w \notin Verbose
    /\ j \in Handled
    /\ Goes(w, [proc[w] EXCEPT !.pc = "handling"])
    /\ runs' = [runs EXCEPT ![j] = @ + 1]
    /\ lost' = IF proc[w].linked THEN lost ELSE [lost EXCEPT ![j] = @ + 1]
    /\ UNCHANGED <<storeVars, losses>>

(* One statement stores the outcome; without a connection it raises, the   *)
(* attempt to store that raises too, and the loop goes on.                 *)
Store(w, row) ==
    IF proc[w].linked
    THEN Write(w, proc[w].job, row) /\ Goes(w, [proc[w] EXCEPT !.pc = "store"])
    ELSE UNCHANGED storeVars /\ Goes(w, At("recover"))

Return(w) ==
    /\ proc[w].pc = "handling"
    /\ Store(w, Completed(working[proc[w].job]))
    /\ UNCHANGED counters

Raise(w) ==
    /\ proc[w].pc = "handling"
    /\ Store(w, FailedOrRetry(working[proc[w].job]))
    /\ UNCHANGED counters

(* (mutant) Nothing is stored for a job without a handler. *)
NoHandlerIgnored(w) ==
    /\ proc[w].pc = "claimed" /\ w \notin Verbose
    /\ proc[w].job \notin Handled
    /\ RollbackTxn(w)
    /\ Goes(w, At("recover"))
    /\ UNCHANGED counters

NoHandler(w) ==
    /\ proc[w].pc = "claimed" /\ w \notin Verbose
    /\ proc[w].job \notin Handled
    /\ Store(w, FailedOrRetry(working[proc[w].job]))
    /\ UNCHANGED counters

Commit(w) ==
    /\ proc[w].pc = "store"
    /\ IF proc[w].linked THEN CommitTxn(w) ELSE UNCHANGED storeVars
    /\ Goes(w, At("recover"))
    /\ UNCHANGED counters

Start(w) ==
    /\ proc[w].pc = "down"
    /\ Goes(w, At("recover"))
    /\ UNCHANGED <<storeVars, counters>>

(* w's transaction is the only record of an attempt. *)
Attempting(w) ==
    /\ proc[w].linked /\ proc[w].job \in Handled
    /\ proc[w].pc \in {"handling", "store"}

Lose(w) ==
    /\ losses < MaxLosses /\ losses' = losses + 1
    /\ RollbackTxn(w)
    /\ lost' = IF Attempting(w) THEN [lost EXCEPT ![proc[w].job] = @ + 1] ELSE lost
    /\ UNCHANGED runs

(* The process ends: a crash, or stop() after its 30 seconds of grace. *)
Crash(w) ==
    /\ proc[w].pc # "down"
    /\ Lose(w)
    /\ Goes(w, At("down"))

(* The server ends the session; the worker finds out at its next statement. *)
Disconnect(w) ==
    /\ proc[w].pc \in {"claimed", "handling", "store"} /\ proc[w].linked
    /\ Lose(w)
    /\ Goes(w, [proc[w] EXCEPT !.linked = FALSE])

-----------------------------------------------------------------------------
(***************************************************************************)
(* The requests: one transaction each.                                     *)
(***************************************************************************)
Enqueue(c, j) ==        \* POST /queue/jobs
    /\ proc[c].pc = "idle"
    /\ committed[j].status = "absent"
    /\ \E b \in Budgets : Write(c, j, NewRow(b))
    /\ Goes(c, [At("log") EXCEPT !.job = j])
    /\ UNCHANGED counters

(* "Job enqueued." is logged with a reserved key. *)
Log(c) ==
    /\ proc[c].pc = "log"
    /\ IF c \in Verbose THEN RollbackTxn(c) /\ Goes(c, At("idle"))
       ELSE UNCHANGED storeVars /\ Goes(c, [proc[c] EXCEPT !.pc = "commit"])
    /\ UNCHANGED counters

Ask(c, j, pc) ==        \* POST /queue/jobs/{id}/cancel and /retry: get_job_or_raise
    /\ proc[c].pc = "idle"
    /\ committed[j].status # "absent"
    /\ Goes(c, [At(pc) EXCEPT !.job = j, !.seen = committed[j]])
    /\ UNCHANGED <<storeVars, counters>>

Refuse(c) == RollbackTxn(c) /\ Goes(c, At("idle")) /\ UNCHANGED counters

(* The UPDATE waits for the row's lock and looks at the status it then has. *)
Cancel(c) ==
    LET j == proc[c].job IN
    /\ proc[c].pc = "cancel"
    /\ \/ proc[c].seen.status # "pending" /\ Refuse(c)
       \/ /\ proc[c].seen.status = "pending" /\ Lockable(c, j)
          /\ \/ ~Cancellable(working[j]) /\ Refuse(c)
             \/ /\ Cancellable(working[j])
                /\ Write(c, j, [working[j] EXCEPT !.status = "cancelled"])
                /\ Goes(c, [proc[c] EXCEPT !.pc = "commit"])
                /\ UNCHANGED counters

(* The status is looked at as it was loaded; the UPDATE is by id alone. *)
Retry(c) ==
    LET j == proc[c].job IN
    /\ proc[c].pc = "retry"
    /\ \/ proc[c].seen.status \notin {"failed", "cancelled"} /\ Refuse(c)
       \/ /\ proc[c].seen.status \in {"failed", "cancelled"}
          /\ Write(c, j, Requeued(working[j], proc[c].seen))
          /\ Goes(c, [proc[c] EXCEPT !.pc = "requeue"])
          /\ UNCHANGED counters

(* A job that is queued afresh has no attempts behind it. *)
Finish(c) ==
    LET j == proc[c].job IN
    /\ proc[c].pc \in {"commit", "requeue"}
    /\ CommitTxn(c)
    /\ Goes(c, At("idle"))
    /\ IF proc[c].pc = "requeue"
       THEN runs' = [runs EXCEPT ![j] = 0] /\ lost' = [lost EXCEPT ![j] = 0]
       ELSE UNCHANGED <<runs, lost>>
    /\ UNCHANGED losses

(* The client, the connection or the process goes away. *)
Fail(c) == proc[c].pc # "idle" /\ Refuse(c)

-----------------------------------------------------------------------------
Work(w) ==
    \/ Recover(w) \/ FindNothing(w) \/ Die(w) \/ Handle(w) \/ Return(w) \/ Raise(w)
    \/ NoHandler(w) \/ Commit(w)

Serve(c) == Log(c) \/ Cancel(c) \/ Retry(c) \/ Finish(c)

Next ==
    \/ \E w \in Workers :
         Work(w) \/ (\E j \in Jobs : Claim(w, j)) \/ Start(w) \/ Crash(w) \/ Disconnect(w)
    \/ \E c \in Clients :
         Serve(c) \/ Fail(c)
         \/ \E j \in Jobs : Enqueue(c, j) \/ Ask(c, j, "cancel") \/ Ask(c, j, "retry")

(* Jobs may be left from an earlier life of the program. *)
Init ==
    /\ committed \in [Jobs -> {NoRow} \cup {NewRow(b) : b \in Budgets}]
    /\ working = committed
    /\ owner = [j \in Jobs |-> Free]
    /\ proc = [p \in Txns |-> At(IF p \in Workers THEN "recover" ELSE "idle")]
    /\ runs = [j \in Jobs |-> 0]
    /\ lost = [j \in Jobs |-> 0]
    /\ losses = 0

Spec == Init /\ [][Next]_vars

(* The event loop runs a worker that can run, a handler ends, and a        *)
(* process that went down is started again; one whose worker alone ended   *)
(* is not.  A job's run_at comes, and its turn among the other jobs.       *)
FairSpec ==
    /\ Spec
    /\ \A w \in Workers : WF_vars(Work(w)) /\ WF_vars(Start(w))
    /\ \A w \in Workers, j \in Jobs : SF_vars(Claim(w, j))
    /\ \A c \in Clients : SF_vars(Serve(c))

-----------------------------------------------------------------------------
(***************************************************************************)
(* Properties.                                                             *)
(***************************************************************************)
Proc ==
    [pc : {"recover", "claim", "claimed", "handling", "store", "dead", "down",
           "idle", "log", "cancel", "retry", "commit", "requeue"},
     job : Jobs \cup {None}, linked : BOOLEAN, seen : Row]

(* A claimed job is RUNNING inside its worker's transaction only: no other *)
(* transaction, no crash and no statistics ever find one RUNNING, so what  *)
(* recover_stuck_jobs looks for does not exist.                            *)
TypeOK ==
    /\ committed \in [Jobs -> {r \in Row : r.status # "running"}]
    /\ working \in [Jobs -> Row]
    /\ owner \in [Jobs -> Txns \cup {Free}]
    /\ proc \in [Txns -> Proc]
    /\ runs \in [Jobs -> Nat] /\ lost \in [Jobs -> Nat] /\ losses \in 0..MaxLosses

Busy(w) == proc[w].pc \in {"claimed", "handling", "store"}

(* Two workers that can both still store an outcome never work on one job  *)
(* (FOR UPDATE SKIP LOCKED in claim_next_job).                             *)
OneRunner ==
    \A v, w \in Workers :
        /\ Busy(v) /\ proc[v].linked /\ Busy(w) /\ proc[w].linked
        /\ proc[v].job = proc[w].job
        => v = w

(* Whose uncommitted change a job carries: a worker or request that can    *)
(* still commit it, and has this job in hand.  A worker that died or lost  *)
(* its connection leaves no job locked behind it (async with session).     *)
NothingLeftLocked ==
    \A j \in Jobs : owner[j] # Free =>
        LET holder == proc[owner[j]] IN
        /\ holder.linked /\ holder.job = j
        /\ holder.pc \in {"claimed", "handling", "store", "log", "commit", "requeue"}

(* The attempts a job is given: at least one, even for max_retries = 0. *)
Attempts(j) == IF committed[j].budget = 0 THEN 1 ELSE committed[j].budget

(* Of the attempts since a job was last enqueued, those the table has seen *)
(* never exceed max_retries; a job is given up exactly with the last, and  *)
(* one that completed was run (mark_job_failed_or_retry, retry_job).       *)
WithinBudget ==
    \A j \in Handled :
        /\ runs[j] - lost[j] <= Attempts(j)
        /\ committed[j].status = "failed" => runs[j] - lost[j] = Attempts(j)
        /\ committed[j].status = "completed" => runs[j] - lost[j] >= 1

(* Whatever workers, requests and losses do, the table changes as the      *)
(* ledger of JobLedger does: one job at a time, every attempt counted, a   *)
(* completed job left alone.  Needs requests that come one at a time.      *)
Ledger == INSTANCE JobLedger WITH entry <- committed
ImplementsLedger == Ledger!Spec

(* A job that is pending is completed, given up or cancelled in the end,   *)
(* if one worker survives its log records and requests do not go on and on *)
(* cancelling, retrying or failing.                                        *)
JobsEnd ==
    \/ []<><<\E c \in Clients : Serve(c) \/ Fail(c)>>_vars
    \/ \A j \in Jobs :
        committed[j].status = "pending" ~>
            committed[j].status \in {"completed", "failed", "cancelled"}

-----------------------------------------------------------------------------
(***************************************************************************)
(* The inductive invariant (JobQueue_proofs).                              *)
(***************************************************************************)
Engaged == {"claimed", "handling", "store", "log", "cancel", "retry", "commit", "requeue"}

(* A process whose transaction carries an uncommitted change of its job. *)
Carries(r) == r.linked /\ r.pc \in Engaged \ {"cancel", "retry"}

Outcomes(row) == {Completed(row), FailedOrRetry(row)}

(* The uncommitted change a process at pc may carry. *)
Change(pc, old, new) ==
    /\ pc \in {"claimed", "handling", "store"} => old.status = "pending"
    /\ pc \in {"claimed", "handling"} => new = [old EXCEPT !.status = "running"]
    /\ pc = "store" => new \in Outcomes([old EXCEPT !.status = "running"])
    /\ pc \in {"log", "commit"} =>
         \/ old.status = "absent" /\ new \in {NewRow(b) : b \in Budgets}
         \/ pc = "commit" /\ old.status = "pending" /\ new = [old EXCEPT !.status = "cancelled"]
    /\ pc = "requeue" => new.status = "pending" /\ new.tries = 0

(* What holds of a process p that is about to do what r says. *)
Fits(p, r) ==
    /\ p \in Workers => r.pc \in {"recover", "claim", "claimed", "handling", "store", "dead", "down"}
    /\ p \in Clients => r.linked /\ r.pc \in {"idle", "log", "cancel", "retry", "commit", "requeue"}
    /\ r.pc \in Engaged => r.job \in Jobs
    /\ r.pc \in Engaged \ {"log", "commit"} => committed[r.job].status # "absent"
    /\ r.pc = "handling" => r.job \in Handled
    /\ Carries(r) => owner[r.job] = p /\ Change(r.pc, committed[r.job], working[r.job])

LocksAreCarried ==
    \A j \in Jobs : owner[j] # Free => Carries(proc[owner[j]]) /\ proc[owner[j]].job = j

(* An attempt is under way whose outcome can still be committed. *)
Underway(j) == owner[j] \in Workers /\ proc[owner[j]].pc \in {"handling", "store"}

(* Every attempt since the job was enqueued is in its row, lost or under way. *)
Accounted(j) ==
    LET row == committed[j]
        recorded == runs[j] - lost[j]
    IN  /\ row.status = "absent" => runs[j] = 0 /\ lost[j] = 0
        /\ row.status = "pending" => recorded = row.tries + (IF Underway(j) THEN 1 ELSE 0)
        /\ row.status = "cancelled" => recorded = row.tries
        /\ row.status \in {"completed", "failed"} => recorded = row.tries + 1
        /\ row.status = "failed" => row.tries + 1 = Attempts(j)
        /\ row.tries < Attempts(j)

StoreInv ==
    /\ TypeOK /\ UnlockedIsCommitted /\ LocksAreCarried
    /\ \A p \in Txns : Fits(p, proc[p])

IInv == StoreInv /\ \A j \in Handled : Accounted(j)
=============================================================================
