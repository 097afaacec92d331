----------------------------- MODULE MCAccounts -----------------------------
(* Instances of Accounts for TLC. *)
EXTENDS Accounts, TLC

RoleNames == {"super_admin", "user", "clerk", "spare"}

Person(login) == [status |-> IF login THEN "active" ELSE "inactive", active |-> TRUE, login |-> login, mustChange |-> FALSE]
On(u) == [life |-> "active", user |-> u, access |-> "live", from |-> "none"]
RolesHeld == [r \in RoleNames |->
    [life |-> IF r = "spare" THEN "none" ELSE "live",
     perms |-> IF r = "super_admin" THEN {"act", "see"} ELSE IF r = "clerk" THEN {"act"} ELSE {"see"}]]

(* The administrator, a clerk who may administer, both signed in. *)
Office == [
    user |-> [u \in Users |-> IF u \in {"root", "clara"} THEN Person(TRUE) ELSE Nobody],
    held |-> [u \in Users |-> IF u = "root" THEN {"super_admin"} ELSE IF u = "clara" THEN {"clerk"} ELSE {}],
    role |-> RolesHeld,
    session |-> [s \in Slots |-> IF s = "s1" THEN On("root") ELSE IF s = "s2" THEN On("clara") ELSE NoSession]]
AllScenes == {Office}
RequestSymmetry == Permutations(Requests)
=============================================================================
