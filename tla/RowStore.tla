------------------------------ MODULE RowStore ------------------------------
(***************************************************************************)
(* The database as the request handlers see it: PostgreSQL under READ      *)
(* COMMITTED, one transaction per request (get_db_session), one UPDATE or  *)
(* INSERT per flush.                                                       *)
(*                                                                         *)
(* A row has a committed version, which every transaction reads, and a     *)
(* working version, which only the transaction that wrote the row reads    *)
(* until it commits.  Writing a row takes its lock; the lock is held until *)
(* the transaction commits or rolls back, and another writer waits.        *)
(***************************************************************************)
CONSTANTS
    Rows,       \* identities of the rows, whatever table they belong to
    Txns,       \* the requests' transactions
    Free        \* owner of a row nobody has locked

VARIABLES
    committed,  \* committed[r]: the version of row r every transaction can read
    working,    \* working[r]: the newest version, with uncommitted changes
    owner       \* owner[r]: the transaction that holds r's row lock, or Free

-----------------------------------------------------------------------------

(* What transaction t reads now: its own writes over the committed rows.   *)
(* Two reads of one transaction may differ: READ COMMITTED takes a new     *)
(* snapshot for every statement.                                           *)
Read(t, r) == IF owner[r] = t THEN working[r] ELSE committed[r]

Snapshot(t) == [r \in Rows |-> Read(t, r)]

(* t can lock r without waiting. *)
Lockable(t, r) == owner[r] \in {Free, t}

(* One INSERT or UPDATE of r by primary key, flushed but not committed.  A *)
(* writer that had to wait finds, in working[r], what was committed        *)
(* meanwhile.                                                              *)
Write(t, r, version) ==
    /\ Lockable(t, r)
    /\ working' = [working EXCEPT ![r] = version]
    /\ owner' = [owner EXCEPT ![r] = t]
    /\ UNCHANGED committed

CommitTxn(t) ==
    /\ committed' = [r \in Rows |-> Read(t, r)]
    /\ owner' = [r \in Rows |-> IF owner[r] = t THEN Free ELSE owner[r]]
    /\ UNCHANGED working

(* (mutant) The session is left open: its locks stay. *)
RollbackKeepsLocks(t) ==
    /\ working' = [r \in Rows |-> IF owner[r] = t THEN committed[r] ELSE working[r]]
    /\ UNCHANGED <<committed, owner>>

(* Any exception that leaves the handler: get_db_session rolls back. *)
RollbackTxn(t) ==
    /\ working' = [r \in Rows |-> IF owner[r] = t THEN committed[r] ELSE working[r]]
    /\ owner' = [r \in Rows |-> IF owner[r] = t THEN Free ELSE owner[r]]
    /\ UNCHANGED committed

(* An unlocked row has no uncommitted version. *)
UnlockedIsCommitted == \A r \in Rows : owner[r] = Free => working[r] = committed[r]
=============================================================================
