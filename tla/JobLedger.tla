------------------------------ MODULE JobLedger ------------------------------
(***************************************************************************)
(* What the background queue (app/queue) promises about a job, whatever    *)
(* workers, requests and failures do: a ledger with one entry for each job *)
(* and one atomic change at a time.  A failed attempt is written into the  *)
(* entry; a job that has used up its attempts, or was cancelled, waits for *)
(* somebody to ask for it again; a completed job never runs again.         *)
(***************************************************************************)
EXTENDS Naturals

CONSTANTS
    Jobs,
    Budgets     \* max_retries a job may be enqueued with

VARIABLE entry  \* entry[j]: [status, tries, budget, done] of job j

Enqueued == {[status |-> "pending", tries |-> 0, budget |-> b, done |-> FALSE] : b \in Budgets}

(* What one attempt may make of a pending job. *)
Attempted(e) ==
    {[e EXCEPT !.status = "completed", !.done = TRUE]}
    \cup IF e.tries + 1 < e.budget THEN {[e EXCEPT !.tries = @ + 1]}
         ELSE {[e EXCEPT !.status = "failed", !.done = TRUE]}

Successors(e) ==
    IF e.status = "absent" THEN Enqueued
    ELSE IF e.status = "pending" THEN Attempted(e) \cup {[e EXCEPT !.status = "cancelled"]}
    ELSE IF e.status \in {"failed", "cancelled"} THEN {n \in Enqueued : n.budget = e.budget}
    ELSE {}

Init == \A j \in Jobs : entry[j].status = "absent" \/ entry[j] \in Enqueued

Next == \E j \in Jobs : \E e \in Successors(entry[j]) : entry' = [entry EXCEPT ![j] = e]

Spec == Init /\ [][Next]_entry
=============================================================================
