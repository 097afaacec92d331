------------------------- MODULE Accounts_proofs -------------------------
(***************************************************************************)
(* The properties of Accounts for any number of users, roles, sessions and *)
(* overlapping requests.                                                   *)
(*                                                                         *)
(* The invariant says of every open request that what it will write fits   *)
(* the rows (Fits), that the session it makes is nobody else's (Rotates),  *)
(* and that whatever came from a rotated session did so once (Spent).      *)
(*                                                                         *)
(* SoloInv says of a request that runs alone what it relies on until it    *)
(* ends (Ready), from which SoloPermissions, SoloShutOut and SoloAdmin     *)
(* follow.                                                                 *)
(***************************************************************************)
EXTENDS Accounts, FiniteSetTheorems, TLAPS

Columns == {"status", "active", "login", "mustChange"}
Fields == {"op", "on", "put", "roles", "role", "to", "set", "slot", "old", "revoke", "users", "alone"}
Settings == {"none", "grant", "deny"}

(* What a request writes into the row of a user. *)
FitsRow(r) ==
    /\ r.on \in Users
    /\ "status" \in DOMAIN r.put => r.put["status"] \in Statuses \ {"none"}
    /\ \A c \in DOMAIN r.put : c \in {"active", "login", "mustChange"} => r.put[c] \in BOOLEAN
    /\ "active" \in DOMAIN r.put /\ r.put["active"] = TRUE => r.op \in {"createUser", "activate", "unlock"}
    /\ "active" \in DOMAIN r.put /\ r.put["active"] = FALSE => r.op \in {"suspend", "deactivate"}
    /\ "login" \in DOMAIN r.put => r.op = "createUser"
    /\ r.op = "createUser" => "status" \in DOMAIN r.put

(* What it writes into other tables. *)
FitsTables(r) ==
    /\ r.op \in {"createUser", "assign", "remove"} => r.on \in Users /\ r.roles \subseteq Roles
    /\ r.op = "deleteRole" => r.to \in Roles
    /\ r.op \in {"createRole", "deleteRole", "regrant"} => r.role \in Roles
    /\ r.op = "createRole" => r.set \subseteq Permissions
    /\ r.op = "regrant" => DOMAIN r.set \subseteq Permissions
    /\ r.op \in {"createUser", "override"} =>
        r.on \in Users /\ DOMAIN r.set \subseteq Permissions /\ \A p \in DOMAIN r.set : r.set[p] \in Settings
    /\ r.op \in {"createUser", "assign", "deleteRole"} => r.role # Super
    /\ r.op = "verify" => r.on \in Users /\ r.set \subseteq Permissions

(* Whom it finds: the accounts U. *)
Finds(U, r) ==
    /\ r.op \in (RowOps \ {"createUser"}) \cup {"assign", "remove", "verify"} => U[r.on].status # "none"
    /\ r.op = "createUser" => U[r.on].status = "none"
    /\ r.op = "deleteRole" => r.users \subseteq Users /\ \A u \in r.users : U[u].status # "none"

Fits(U, r) == DOMAIN r = Fields /\ (r.op \in RowOps => FitsRow(r)) /\ FitsTables(r) /\ Finds(U, r)

(* The session it makes, and the one it presents. *)
Rotates(S, r) ==
    /\ {r.old, r.slot} \subseteq Slots \cup {"none"}
    /\ r.old # "none" => S[r.old].life \in {"active", "revoked", "spent"}
    /\ r.slot # "none" => /\ S[r.slot].life = "pending" /\ S[r.slot].from = r.old
                          /\ r.old # "none" => r.op = "refresh"
                          /\ r.op \in {"login", "refresh"}
    /\ r.op = "refresh" => r.old # "none" /\ r.slot # "none"

Registered(U) == \A u \in Users : U[u].login => U[u].status # "none"

(* The cache C of permissions knows accounts among U only. *)
Cached(U, C) ==
    /\ C \in [Users -> (SUBSET Permissions) \cup {Unknown}]
    /\ \A u \in Users : C[u] # Unknown => U[u].status # "none"

Committed(S) == {s \in Slots : S[s].life \in {"active", "revoked", "spent"}}
Spent(S) == \A s \in Committed(S) : S[s].from # "none" => S[S[s].from].life = "spent"
Once(S) == \A s, t \in Committed(S) : s # t /\ S[s].from # "none" => S[s].from # S[t].from

Apart(p, q) ==
    /\ req[p].slot # "none" => req[p].slot # req[q].slot
    /\ req[p].op = "createUser" /\ req[q].op = "createUser" => req[p].on # req[q].on

IInv ==
    /\ TypeOK /\ Registered(user) /\ Cached(user, perms) /\ Spent(session) /\ Once(session)
    /\ DOMAIN req = Requests
    /\ \A q \in Requests : Fits(user, req[q]) /\ Rotates(session, req[q])
    /\ \A p, q \in Requests : p # q => Apart(p, q)

-----------------------------------------------------------------------------
(* What a request that runs alone may rely on until it ends.               *)
Outs == {"forceLogout", "suspend", "deactivate", "reset", "changePassword"}
OfOne == {"assign", "remove", "override"}
OfRoles == {"createRole", "deleteRole", "regrant"}

(* No token of the user it forces out is accepted, and it revokes every    *)
(* session: S the sessions, M the marks.                                   *)
Refuses(S, M, r) == r.op \in Outs =>
    /\ M[r.on]
    /\ \A s \in Slots : S[s].user = r.on => S[s].access # "live" /\ (S[s].life = "active" => s \in r.revoke)
(* The cache C has forgotten those whose permissions it changes. *)
Forgets(C, r) ==
    /\ r.op \in OfOne => C[r.on] = Unknown
    /\ r.op \in OfRoles => \A u \in Users : C[u] = Unknown
(* What it will put into the cache is in effect. *)
ReadsTrue(r) == r.op = "verify" => r.set = Effective(r.on)
(* Someone else stays an active super administrator. *)
Governs(u) == IsSuper(u) /\ user[u].active
Spares(r) ==
    /\ r.op \in {"suspend", "deactivate"} \/ (r.op = "remove" /\ r.role = Super)
    /\ \E u \in Users : Governs(u)
    => \E u \in Users \ {r.on} : Governs(u)

Ready(S, C, M, r) == Refuses(S, M, r) /\ Forgets(C, r) /\ ReadsTrue(r) /\ Spares(r)
SoloInv == \A q \in Requests : req[q].op # "none" /\ req[q].alone =>
    (\A o \in Requests \ {q} : req[o] = Idle) /\ Ready(session, perms, mark, req[q])

-----------------------------------------------------------------------------
LEMMA IdleFits ==
    /\ Idle.op = "none" /\ Idle.slot = "none" /\ Idle.old = "none" /\ DOMAIN Idle = Fields
    /\ \A U : Fits(U, Idle)
    /\ \A S : Rotates(S, Idle)
BY DEF Idle, Fits, FitsTables, Finds, Rotates, Fields, RowOps

(* What a request that begins must bring. *)
Opening(q, r) ==
    /\ Begin(q, r)
    /\ Fits(user, r) /\ r.op # "none"
    /\ Rotates(session', r)
    /\ session' \in [Slots -> Session]
    /\ \A s \in Slots : s # r.slot => session'[s].life = session[s].life /\ session'[s].from = session[s].from
    /\ r.slot # "none" => session[r.slot].life = "none"
    /\ r.op = "createUser" => \A o \in Requests : req[o].op = "createUser" => req[o].on # r.on
    /\ Cached(user, perms')
    /\ mark' \in [Users -> BOOLEAN]
    /\ attempts' = attempts
    /\ Ready(session', perms', mark', r)

(* Losing the flag alone changes nothing else of a request. *)
LEMMA FlagOnly ==
    ASSUME NEW x, DOMAIN x = Fields, NEW b
    PROVE  /\ [x EXCEPT !.alone = b].op = x.op /\ [x EXCEPT !.alone = b].on = x.on
           /\ [x EXCEPT !.alone = b].slot = x.slot /\ [x EXCEPT !.alone = b].old = x.old
           /\ \A U : Fits(U, x) => Fits(U, [x EXCEPT !.alone = b])
           /\ \A S : Rotates(S, x) => Rotates(S, [x EXCEPT !.alone = b])
<1> DEFINE y == [x EXCEPT !.alone = b]
<1>1. /\ DOMAIN y = Fields /\ y.op = x.op /\ y.on = x.on /\ y.put = x.put /\ y.roles = x.roles /\ y.role = x.role
      /\ y.to = x.to /\ y.set = x.set /\ y.slot = x.slot /\ y.old = x.old /\ y.revoke = x.revoke /\ y.users = x.users
    BY DEF Fields
<1> HIDE DEF y
<1>2. FitsRow(x) => FitsRow(y)
    BY <1>1 DEF FitsRow
<1>3. FitsTables(x) => FitsTables(y)
    BY <1>1 DEF FitsTables
<1>4. \A U : Finds(U, x) => Finds(U, y)
    BY <1>1 DEF Finds
<1>5. \A U : Fits(U, x) => Fits(U, y)
    BY <1>1, <1>2, <1>3, <1>4 DEF Fits
<1>6. \A S : Rotates(S, x) => Rotates(S, y)
    BY <1>1 DEF Rotates
<1> QED BY <1>1, <1>5, <1>6 DEF y

LEMMA BeginsWell ==
    ASSUME IInv, NEW q \in Requests, Accepts(q), NEW r, Opening(q, r)
    PROVE  IInv'
<1>1. UNCHANGED <<user, held, role, override, attempts>>
    BY DEF Opening, Begin, stored
<1>2. PICK b \in BOOLEAN : b = \A o \in Requests : req[o] = Idle
    OBVIOUS
<1>3. /\ DOMAIN req' = Requests /\ req'[q] = [r EXCEPT !.alone = b]
      /\ \A o \in Requests \ {q} : req'[o] = req[o] \/ req'[o] = [req[o] EXCEPT !.alone = FALSE]
    BY <1>2 DEF Opening, Begin
<1>4. /\ DOMAIN r = Fields /\ Fits(user, r) /\ Rotates(session', r)
    BY DEF Opening, Fits
<1>5. /\ Fits(user, req'[q]) /\ Rotates(session', req'[q])
      /\ req'[q].op = r.op /\ req'[q].on = r.on /\ req'[q].slot = r.slot
    BY <1>3, <1>4, FlagOnly
<1>6. \A o \in Requests : DOMAIN req[o] = Fields /\ Fits(user, req[o]) /\ Rotates(session, req[o])
    BY DEF IInv, Fits
<1>7. req[q] = Idle
    BY DEF Accepts
<1>8. \A o \in Requests \ {q} : Rotates(session', req[o])
    <2> SUFFICES ASSUME NEW o \in Requests \ {q} PROVE Rotates(session', req[o])
        OBVIOUS
    <2>1. Rotates(session, req[o])
        BY <1>6
    <2>2. \A s \in Slots : session[s].life # "none" => session'[s].life = session[s].life /\ session'[s].from = session[s].from
        BY NamesAssumption DEF Opening
    <2> QED BY <2>1, <2>2 DEF Rotates
<1>9. \A o \in Requests \ {q} : /\ Fits(user, req'[o]) /\ Rotates(session', req'[o])
                                /\ req'[o].op = req[o].op /\ req'[o].on = req[o].on /\ req'[o].slot = req[o].slot
    <2> SUFFICES ASSUME NEW o \in Requests \ {q}
                 PROVE  /\ Fits(user, req'[o]) /\ Rotates(session', req'[o])
                        /\ req'[o].op = req[o].op /\ req'[o].on = req[o].on /\ req'[o].slot = req[o].slot
        OBVIOUS
    <2>1. CASE req'[o] = req[o]
        BY <2>1, <1>6, <1>8
    <2>2. CASE req'[o] = [req[o] EXCEPT !.alone = FALSE]
        BY <2>2, <1>6, <1>8, FlagOnly
    <2> QED BY <1>3, <2>1, <2>2
<1>10. \A o \in Requests \ {q} : r.slot # "none" => req[o].slot # r.slot
    <2> SUFFICES ASSUME NEW o \in Requests \ {q}, r.slot # "none", req[o].slot = r.slot PROVE FALSE
        OBVIOUS
    <2>1. session[r.slot].life = "pending"
        BY <1>6 DEF Rotates
    <2> QED BY <2>1 DEF Opening
<1>11. ASSUME NEW o \in Requests, NEW p \in Requests, o # p
       PROVE  Apart(o, p)'
    <2>1. Apart(o, p) /\ Apart(p, o)
        BY <1>11 DEF IInv
    <2>2. CASE o = q
        BY <2>1, <2>2, <1>5, <1>9, <1>10, <1>11 DEF Apart, Opening
    <2>3. CASE p = q
        BY <2>1, <2>3, <1>5, <1>9, <1>10, <1>11 DEF Apart, Opening
    <2>4. CASE o # q /\ p # q
        BY <2>1, <2>4, <1>9 DEF Apart
    <2> QED BY <2>2, <2>3, <2>4
<1>12. \A s \in Slots : session'[s].life = "pending" <=> \E o \in Requests : req'[o].slot = s
    <2> SUFFICES ASSUME NEW s \in Slots PROVE session'[s].life = "pending" <=> \E o \in Requests : req'[o].slot = s
        OBVIOUS
    <2>1. CASE s = r.slot
        <3>1. r.slot # "none"
            BY <2>1, NamesAssumption
        <3> QED BY <2>1, <3>1, <1>4, <1>5 DEF Rotates
    <2>2. CASE s # r.slot
        <3>1. session'[s].life = session[s].life
            BY <2>2 DEF Opening
        <3>2. session[s].life = "pending" <=> \E o \in Requests : req[o].slot = s
            BY DEF IInv, TypeOK
        <3>3. req[q].slot # s
            BY <1>7, IdleFits, NamesAssumption
        <3> QED BY <2>2, <3>1, <3>2, <3>3, <1>5, <1>9
    <2> QED BY <2>1, <2>2
<1>13. Committed(session') = Committed(session) /\ \A s \in Committed(session) :
            session'[s].life = session[s].life /\ session'[s].from = session[s].from
    <2>1. \A s \in Slots : s \notin Committed(session) => s \notin Committed(session')
        <3> SUFFICES ASSUME NEW s \in Slots, s \notin Committed(session) PROVE s \notin Committed(session')
            OBVIOUS
        <3>1. CASE s = r.slot
            BY <3>1, NamesAssumption DEF Opening, Rotates, Committed
        <3>2. CASE s # r.slot
            BY <3>2 DEF Opening, Committed
        <3> QED BY <3>1, <3>2
    <2>2. \A s \in Committed(session) : session'[s].life = session[s].life /\ session'[s].from = session[s].from
        BY NamesAssumption DEF Opening, Committed
    <2> QED BY <2>1, <2>2 DEF Committed
<1>14. Spent(session')
    <2> SUFFICES ASSUME NEW s \in Committed(session), session[s].from # "none" PROVE session'[session[s].from].life = "spent"
        BY <1>13 DEF Spent
    <2>1. session[session[s].from].life = "spent" /\ session[s].from \in Slots
        BY DEF IInv, Spent, TypeOK, Session, Committed
    <2>2. session[s].from \in Committed(session)
        BY <2>1 DEF Committed
    <2> QED BY <2>1, <2>2, <1>13
<1>15. Once(session')
    BY <1>13 DEF IInv, Once
<1>16. Cached(user', perms')
    BY <1>1 DEF Opening
<1>17. TypeOK'
    BY <1>1, <1>12 DEF IInv, TypeOK, Opening, Exists, Cached
<1>18. \A o \in Requests : Fits(user', req'[o]) /\ Rotates(session', req'[o])
    BY <1>1, <1>5, <1>9
<1> QED BY <1>1, <1>3, <1>11, <1>14, <1>15, <1>16, <1>17, <1>18 DEF IInv

-----------------------------------------------------------------------------
(* The end of a request. *)
Lasting == {"active", "revoked", "spent"}

LEMMA EndsWell ==
    ASSUME IInv, NEW q \in Requests, req' = [req EXCEPT ![q] = Idle],
           user' \in [Users -> Account], held' \in [Users -> SUBSET Roles], role' \in [Roles -> Role],
           override' \in [Users -> [Permissions -> {"none", "grant", "deny"}]], session' \in [Slots -> Session],
           Cached(user', perms'), UNCHANGED <<mark, attempts>>,
           \A u \in Users : held'[u] # {} => user'[u].status # "none",
           Registered(user'),
           \A u \in Users : user[u].status # "none" => user'[u].status # "none",
           \A u \in Users : user[u].status = "none" /\ user'[u].status # "none" =>
                req[q].op = "createUser" /\ req[q].on = u,
           \A s \in Slots : s # req[q].slot =>
                /\ session'[s].from = session[s].from
                /\ session'[s].life = session[s].life \/ {session[s].life, session'[s].life} \subseteq Lasting,
           req[q].slot # "none" => session'[req[q].slot].life # "pending",
           Spent(session'), Once(session')
    PROVE  IInv'
<1>1. DOMAIN req' = Requests /\ req'[q] = Idle /\ \A o \in Requests \ {q} : req'[o] = req[o]
    BY DEF IInv
<1>2. \A o \in Requests : Fits(user, req[o]) /\ Rotates(session, req[o])
    BY DEF IInv
<1>3. \A o \in Requests \ {q} : Apart(o, q) /\ Apart(q, o)
    BY DEF IInv
<1>4. \A o \in Requests : Fits(user', req'[o])
    <2> SUFFICES ASSUME NEW o \in Requests, o # q PROVE Finds(user', req[o])
        BY <1>1, <1>2, IdleFits DEF Fits
    <2>1. Finds(user, req[o]) /\ (req[o].op \in RowOps => req[o].on \in Users)
          /\ (req[o].op \in {"assign", "remove", "verify"} => req[o].on \in Users)
        BY <1>2 DEF Fits, FitsRow, FitsTables
    <2>2. req[o].op \in (RowOps \ {"createUser"}) \cup {"assign", "remove", "verify"} => user'[req[o].on].status # "none"
        BY <2>1 DEF Finds
    <2>3. req[o].op = "createUser" => user'[req[o].on].status = "none"
        <3> SUFFICES ASSUME req[o].op = "createUser", user'[req[o].on].status # "none" PROVE FALSE
            OBVIOUS
        <3>1. req[o].on \in Users /\ user[req[o].on].status = "none"
            BY <2>1 DEF Finds, RowOps
        <3>2. req[q].op = "createUser" /\ req[q].on = req[o].on
            BY <3>1
        <3> QED BY <3>2, <1>3 DEF Apart
    <2>4. req[o].op = "deleteRole" => req[o].users \subseteq Users /\ \A u \in req[o].users : user'[u].status # "none"
        BY <2>1 DEF Finds
    <2> QED BY <2>2, <2>3, <2>4 DEF Finds
<1>5. \A o \in Requests : Rotates(session', req'[o])
    <2> SUFFICES ASSUME NEW o \in Requests, o # q PROVE Rotates(session', req[o])
        BY <1>1, IdleFits
    <2>1. Rotates(session, req[o]) /\ Rotates(session, req[q])
        BY <1>2
    <2>2. req[o].slot # "none" => req[o].slot # req[q].slot
        BY <1>3 DEF Apart
    <2>3. req[o].old # "none" => session'[req[o].old].life \in Lasting
        <3>1. req[o].old # "none" /\ req[q].slot # "none" => req[o].old # req[q].slot
            BY <2>1 DEF Rotates
        <3> QED BY <2>1, <3>1 DEF Rotates, Lasting
    <2>4. req[o].slot # "none" => session'[req[o].slot].life = "pending" /\ session'[req[o].slot].from = req[o].old
        BY <2>1, <2>2 DEF Rotates, Lasting
    <2> QED BY <2>1, <2>3, <2>4 DEF Rotates, Lasting
<1>6. ASSUME NEW o \in Requests, NEW p \in Requests, o # p PROVE Apart(o, p)'
    <2>1. Apart(o, p)
        BY <1>6 DEF IInv
    <2>2. CASE o = q
        BY <2>2, <1>1, IdleFits DEF Apart
    <2>3. CASE p = q
        BY <2>3, <1>1, <1>6, IdleFits DEF Apart
    <2>4. CASE o # q /\ p # q
        BY <2>1, <2>4, <1>1 DEF Apart
    <2> QED BY <2>2, <2>3, <2>4
<1>7. \A s \in Slots : session'[s].life = "pending" <=> \E o \in Requests : req'[o].slot = s
    <2> SUFFICES ASSUME NEW s \in Slots PROVE session'[s].life = "pending" <=> \E o \in Requests : req'[o].slot = s
        OBVIOUS
    <2>1. session[s].life = "pending" <=> \E o \in Requests : req[o].slot = s
        BY DEF IInv, TypeOK
    <2>2. s # "none"
        BY NamesAssumption
    <2>3. CASE s = req[q].slot
        BY <2>2, <2>3, <1>1, <1>3, IdleFits DEF Apart
    <2>4. CASE s # req[q].slot
        <3>1. session'[s].life = "pending" <=> session[s].life = "pending"
            BY <2>4 DEF Lasting
        <3>2. (\E o \in Requests : req'[o].slot = s) <=> \E o \in Requests : req[o].slot = s
            BY <2>2, <2>4, <1>1, IdleFits
        <3> QED BY <2>1, <3>1, <3>2
    <2> QED BY <2>3, <2>4
<1>8. TypeOK'
    BY <1>7 DEF IInv, TypeOK, Exists, Cached
<1> QED BY <1>1, <1>4, <1>5, <1>6, <1>8 DEF IInv

-----------------------------------------------------------------------------
(* What a commit writes into the accounts. *)
LEMMA UserIs ==
    ASSUME IInv, NEW q \in Requests, user' = UserWritten(req[q])
    PROVE  /\ user' \in [Users -> Account] /\ Registered(user')
           /\ \A u \in Users : user[u].status # "none" => user'[u].status # "none"
           /\ \A u \in Users : user[u].status = "none" /\ user'[u].status # "none" =>
                req[q].op = "createUser" /\ req[q].on = u
           /\ req[q].op = "createUser" => user'[req[q].on].status # "none"
           /\ \A u \in Users : user'[u].active => \/ user[u].active
                                                  \/ req[q].on = u /\ req[q].op \in {"createUser", "activate", "unlock"}
<1>1. PICK r : r = req[q]
    OBVIOUS
<1>2. user \in [Users -> Account] /\ Registered(user) /\ Fits(user, r)
    BY <1>1 DEF IInv, TypeOK
<1>3. CASE r.op \in RowOps
    <2>1. FitsRow(r) /\ r.on \in Users /\ Finds(user, r)
        BY <1>2, <1>3 DEF Fits, FitsRow
    <2>2. PICK row : row = [f \in DOMAIN Nobody |-> IF f \in DOMAIN r.put THEN r.put[f] ELSE user[r.on][f]]
        OBVIOUS
    <2>3. DOMAIN Nobody = Columns
        BY DEF Nobody, Columns
    <2>4. DOMAIN row = Columns /\ \A f \in Columns : row[f] = IF f \in DOMAIN r.put THEN r.put[f] ELSE user[r.on][f]
        BY <2>2, <2>3
    <2>5. user[r.on] \in Account
        BY <1>2, <2>1
    <2>6. row.status \in Statuses \ {"none"}
        <3>1. user[r.on].status \in Statuses
            BY <2>5 DEF Account
        <3>2. "status" \in DOMAIN r.put \/ user[r.on].status # "none"
            BY <1>3, <2>1 DEF FitsRow, Finds
        <3> QED BY <2>1, <2>4, <3>1, <3>2 DEF Columns, FitsRow
    <2>7. row.active \in BOOLEAN /\ row.login \in BOOLEAN /\ row.mustChange \in BOOLEAN
        <3>1. user[r.on].active \in BOOLEAN /\ user[r.on].login \in BOOLEAN /\ user[r.on].mustChange \in BOOLEAN
            BY <2>5 DEF Account
        <3> QED BY <2>1, <2>4, <3>1 DEF Columns, FitsRow
    <2>8. row \in Account
        <3>1. row = [status |-> row.status, active |-> row.active, login |-> row.login, mustChange |-> row.mustChange]
            BY <2>2, <2>3 DEF Columns
        <3> QED BY <2>6, <2>7, <3>1 DEF Account
    <2>9. user' = [user EXCEPT ![r.on] = row]
        BY <1>1, <1>3, <2>2 DEF UserWritten
    <2>10. user' \in [Users -> Account] /\ user'[r.on] = row /\ \A u \in Users \ {r.on} : user'[u] = user[u]
        BY <1>2, <2>1, <2>8, <2>9
    <2>11. row.active => user[r.on].active \/ r.op \in {"createUser", "activate", "unlock"}
        BY <2>1, <2>4, <2>7 DEF FitsRow, Columns
    <2>12. r.op # "createUser" => user[r.on].status # "none"
        BY <1>3, <2>1 DEF Finds
    <2> QED BY <1>1, <1>2, <2>1, <2>6, <2>10, <2>11, <2>12 DEF Registered
<1>4. CASE r.op \notin RowOps
    <2>1. user' = user /\ r.op # "createUser"
        BY <1>1, <1>4 DEF UserWritten, RowOps
    <2> QED BY <1>1, <1>2, <2>1
<1> QED BY <1>3, <1>4

LEMMA HeldIs ==
    ASSUME IInv, NEW q \in Requests, held' = HeldWritten(req[q]),
           \A u \in Users : user[u].status # "none" => user'[u].status # "none",
           req[q].op = "createUser" => user'[req[q].on].status # "none"
    PROVE  held' \in [Users -> SUBSET Roles] /\ \A u \in Users : held'[u] # {} => user'[u].status # "none"
<1>1. PICK r : r = req[q]
    OBVIOUS
<1>2. /\ held \in [Users -> SUBSET Roles] /\ FitsTables(r) /\ Finds(user, r)
      /\ \A u \in Users : held[u] # {} => user[u].status # "none"
    BY <1>1 DEF IInv, TypeOK, Fits, Exists
<1>3. ASSUME NEW u \in Users PROVE held'[u] \in SUBSET Roles /\ (held'[u] # {} => user'[u].status # "none")
    <2>1. CASE r.op = "deleteRole" /\ u \in r.users
        <3>1. held'[u] = (held[u] \cup (IF r.put[u] THEN {r.to} ELSE {})) \ {r.role}
            BY <1>1, <2>1 DEF HeldWritten
        <3> QED BY <1>2, <2>1, <3>1 DEF FitsTables, Finds
    <2>2. CASE r.op \in {"createUser", "assign", "remove"} /\ u = r.on
        <3>1. held'[u] = (held[u] \cup r.roles) \ {r.role}
            BY <1>1, <2>2 DEF HeldWritten
        <3> QED BY <1>1, <1>2, <2>2, <3>1 DEF FitsTables, Finds
    <2>3. CASE ~(r.op = "deleteRole" /\ u \in r.users) /\ ~(r.op \in {"createUser", "assign", "remove"} /\ u = r.on)
        <3>1. held'[u] = held[u]
            BY <1>1, <2>3 DEF HeldWritten
        <3> QED BY <1>2, <3>1
    <2> QED BY <2>1, <2>2, <2>3
<1>4. held' = [u \in Users |-> held'[u]]
    BY DEF HeldWritten
<1> QED BY <1>3, <1>4

LEMMA RoleIs ==
    ASSUME IInv, NEW q \in Requests, role' = RoleWritten(req[q])
    PROVE  role' \in [Roles -> Role]
<1>1. PICK r : r = req[q]
    OBVIOUS
<1>2. role \in [Roles -> Role] /\ FitsTables(r)
    BY <1>1 DEF IInv, TypeOK, Fits
<1>3. CASE r.op = "createRole"
    <2>1. role' = [role EXCEPT ![r.role] = [life |-> "live", perms |-> r.set]]
        BY <1>1, <1>3 DEF RoleWritten
    <2>2. [life |-> "live", perms |-> r.set] \in Role
        BY <1>2, <1>3 DEF Role, FitsTables
    <2> QED BY <1>2, <2>1, <2>2
<1>4. CASE r.op = "deleteRole"
    <2>1. role' = [role EXCEPT ![r.role].life = "trashed"]
        BY <1>1, <1>4 DEF RoleWritten
    <2>2. r.role \in Roles
        BY <1>2, <1>4 DEF FitsTables
    <2> QED BY <1>2, <2>1, <2>2 DEF Role
<1>5. CASE r.op = "regrant"
    <2>1. role' = [role EXCEPT ![r.role].perms =
                (@ \cup {p \in DOMAIN r.set : r.set[p]}) \ {p \in DOMAIN r.set : ~r.set[p]}]
        BY <1>1, <1>5 DEF RoleWritten
    <2>2. r.role \in Roles /\ DOMAIN r.set \subseteq Permissions /\ role[r.role].perms \subseteq Permissions
        BY <1>2, <1>5 DEF FitsTables, Role
    <2>3. PICK new : new = (role[r.role].perms \cup {p \in DOMAIN r.set : r.set[p]}) \ {p \in DOMAIN r.set : ~r.set[p]}
        OBVIOUS
    <2>4. new \in SUBSET Permissions
        BY <2>2, <2>3
    <2>5. role' = [role EXCEPT ![r.role].perms = new]
        BY <2>1, <2>3
    <2> QED BY <1>2, <2>2, <2>4, <2>5 DEF Role
<1>6. CASE r.op \notin {"createRole", "deleteRole", "regrant"}
    BY <1>1, <1>2, <1>6 DEF RoleWritten
<1> QED BY <1>3, <1>4, <1>5, <1>6

LEMMA OverrideIs ==
    ASSUME IInv, NEW q \in Requests, override' = OverrideWritten(req[q])
    PROVE  override' \in [Users -> [Permissions -> {"none", "grant", "deny"}]]
<1>1. PICK r : r = req[q]
    OBVIOUS
<1>2. PICK T : T = [Permissions -> {"none", "grant", "deny"}]
    OBVIOUS
<1>3. override \in [Users -> T] /\ FitsTables(r)
    BY <1>1, <1>2 DEF IInv, TypeOK, Fits
<1>4. CASE r.op \in {"override", "createUser"}
    <2>1. r.on \in Users /\ \A p \in DOMAIN r.set : r.set[p] \in Settings
        BY <1>3, <1>4 DEF FitsTables
    <2>2. PICK new : new = [p \in Permissions |-> IF p \in DOMAIN r.set THEN r.set[p] ELSE override[r.on][p]]
        OBVIOUS
    <2>3. override[r.on] \in [Permissions -> {"none", "grant", "deny"}]
        BY <1>2, <1>3, <2>1
    <2>4. new \in T
        BY <1>2, <2>1, <2>2, <2>3 DEF Settings
    <2>5. override' = [override EXCEPT ![r.on] = new]
        BY <1>1, <1>4, <2>2 DEF OverrideWritten
    <2> QED BY <1>2, <1>3, <2>4, <2>5
<1>5. CASE r.op \notin {"override", "createUser"}
    BY <1>1, <1>2, <1>3, <1>5 DEF OverrideWritten
<1> QED BY <1>4, <1>5

(* The row a request writes for a session. *)
LEMMA SessionRow ==
    ASSUME NEW r, NEW s \in Slots
    PROVE  /\ s = r.slot => SessionWritten(r)[s] = Turned(session[s], "active")
           /\ s # r.slot /\ s = r.old /\ r.op = "refresh" => SessionWritten(r)[s] = Turned(session[s], "spent")
           /\ s # r.slot /\ s = r.old /\ r.op = "logout" => SessionWritten(r)[s] = LoggedOut(session[s], r.put)
           /\ s # r.slot /\ ~(s = r.old /\ r.op \in {"refresh", "logout"}) /\ s \in r.revoke /\ session[s].life = "active" =>
                SessionWritten(r)[s] = Turned(session[s], "revoked")
           /\ s # r.slot /\ ~(s = r.old /\ r.op \in {"refresh", "logout"}) /\ ~(s \in r.revoke /\ session[s].life = "active") =>
                SessionWritten(r)[s] = session[s]
<1>1. CASE s = r.slot
    BY <1>1 DEF SessionWritten
<1>2. CASE s # r.slot /\ s = r.old /\ r.op = "refresh"
    BY <1>2 DEF SessionWritten
<1>3. CASE s # r.slot /\ s = r.old /\ r.op = "logout"
    BY <1>3 DEF SessionWritten
<1>4. CASE s # r.slot /\ ~(s = r.old /\ r.op \in {"refresh", "logout"}) /\ s \in r.revoke /\ session[s].life = "active"
    BY <1>4 DEF SessionWritten
<1>5. CASE s # r.slot /\ ~(s = r.old /\ r.op \in {"refresh", "logout"}) /\ ~(s \in r.revoke /\ session[s].life = "active")
    BY <1>5 DEF SessionWritten
<1> QED BY <1>1, <1>2, <1>3, <1>4, <1>5

(* What it writes into the sessions. *)
LEMMA SessionIs ==
    ASSUME IInv, NEW q \in Requests, req[q].op # "none", Admitted(req[q]), session' = SessionWritten(req[q])
    PROVE  /\ session' \in [Slots -> Session] /\ Spent(session') /\ Once(session')
           /\ \A s \in Slots : s # req[q].slot =>
                /\ session'[s].from = session[s].from
                /\ session'[s].life = session[s].life \/ {session[s].life, session'[s].life} \subseteq Lasting
           /\ req[q].slot # "none" => session'[req[q].slot].life # "pending"
<1>1. PICK r : r = req[q]
    OBVIOUS
<1>2. session \in [Slots -> Session] /\ Rotates(session, r) /\ Spent(session) /\ Once(session)
    BY <1>1 DEF IInv, TypeOK
<1>3. ASSUME NEW s \in Slots
      PROVE  /\ session'[s] \in Session /\ session'[s].from = session[s].from
             /\ s = r.slot => session'[s].life = "active"
             /\ s # r.slot /\ session[s].life \notin Lasting => session'[s].life = session[s].life
             /\ s # r.slot /\ session[s].life \in Lasting => session'[s].life \in Lasting
             /\ s # r.slot /\ session[s].life = "spent" => session'[s].life = "spent"
             /\ s # r.slot /\ s = r.old /\ r.op = "refresh" => session'[s].life = "spent"
    <2>1. session[s] \in Session
        BY <1>2
    <2>2. CASE s = r.slot
        <3>1. session'[s] = Turned(session[s], "active")
            BY <1>1, <2>2, SessionRow
        <3> QED BY <2>1, <2>2, <3>1 DEF Session, Turned
    <2>3. CASE s # r.slot /\ s = r.old /\ r.op = "refresh"
        <3>1. session'[s] = Turned(session[s], "spent")
            BY <1>1, <2>3, SessionRow
        <3>2. session[s].life \in Lasting
            BY <1>2, <2>3, NamesAssumption DEF Rotates, Lasting
        <3> QED BY <2>1, <2>3, <3>1, <3>2 DEF Session, Turned, Lasting
    <2>4. CASE s # r.slot /\ s = r.old /\ r.op = "logout"
        <3>1. session'[s] = LoggedOut(session[s], r.put)
            BY <1>1, <2>4, SessionRow
        <3>2. session[s].life \in Lasting
            BY <1>2, <2>4, NamesAssumption DEF Rotates, Lasting
        <3>3. PICK l, a : l = (IF r.put.session THEN "spent" ELSE session[s].life)
                          /\ a = (IF r.put.access THEN "blacklisted" ELSE session[s].access)
            OBVIOUS
        <3>4. session'[s] = [session[s] EXCEPT !.life = l, !.access = a]
            BY <3>1, <3>3 DEF LoggedOut
        <3>5. l \in {"spent", session[s].life} /\ a \in {"blacklisted", session[s].access}
            BY <3>3
        <3>6. l \in Lasting /\ a \in {"none", "live", "marked", "blacklisted"}
              /\ (session[s].life = "spent" => l = "spent")
            BY <2>1, <3>2, <3>5 DEF Session, Lasting
        <3>7. PICK w \in Session : w = session[s]
            BY <2>1
        <3>8. PICK x : x = [w EXCEPT !.life = l, !.access = a]
            OBVIOUS
        <3>9. x \in Session /\ x.from = w.from /\ x.life = l
            BY <3>6, <3>8 DEF Session, Lasting
        <3> QED BY <2>4, <3>2, <3>4, <3>6, <3>7, <3>8, <3>9
    <2>5. CASE s # r.slot /\ ~(s = r.old /\ r.op \in {"refresh", "logout"}) /\ s \in r.revoke /\ session[s].life = "active"
        <3>1. session'[s] = Turned(session[s], "revoked")
            BY <1>1, <2>5, SessionRow
        <3> QED BY <2>1, <2>5, <3>1 DEF Session, Turned, Lasting
    <2>6. CASE s # r.slot /\ ~(s = r.old /\ r.op \in {"refresh", "logout"}) /\ ~(s \in r.revoke /\ session[s].life = "active")
        <3>1. session'[s] = session[s]
            BY <1>1, <2>6, SessionRow
        <3> QED BY <2>1, <2>6, <3>1
    <2> QED BY <2>2, <2>3, <2>4, <2>5, <2>6
<1>4. session' = [s \in Slots |-> session'[s]]
    BY DEF SessionWritten
<1>5. session' \in [Slots -> Session]
    BY <1>3, <1>4
<1>6. \A s \in Slots : s \in Committed(session') <=> s \in Committed(session) \/ s = r.slot
    BY <1>3 DEF Committed, Lasting
<1>7. r.slot # "none" => r.slot \in Slots /\ r.slot \notin Committed(session) /\ session[r.slot].from = r.old
    BY <1>2 DEF Rotates, Committed
<1>8. r.slot # "none" /\ r.old # "none" => /\ r.op = "refresh" /\ r.old \in Slots /\ r.old # r.slot
                                           /\ session[r.old].life # "spent"
    BY <1>1, <1>2 DEF Rotates, Admitted
<1>9. Spent(session')
    <2> SUFFICES ASSUME NEW s \in Committed(session'), session'[s].from # "none"
                 PROVE  session'[session'[s].from].life = "spent"
        BY DEF Spent
    <2>1. s \in Slots /\ session'[s].from = session[s].from
        BY <1>3 DEF Committed
    <2>2. CASE s \in Committed(session)
        <3>1. session[session[s].from].life = "spent" /\ session[s].from \in Slots
            BY <1>2, <2>1, <2>2 DEF Spent, Session
        <3>2. session[s].from # r.slot
            BY <3>1, <1>7, NamesAssumption DEF Committed
        <3> QED BY <1>3, <2>1, <3>1, <3>2
    <2>3. CASE s = r.slot
        <3>1. s # "none"
            BY <2>1, NamesAssumption
        <3>2. session[s].from = r.old /\ r.old # "none" /\ r.slot # "none"
            BY <1>7, <2>1, <2>3, <3>1
        <3>3. r.op = "refresh" /\ r.old \in Slots /\ r.old # r.slot
            BY <1>8, <3>2
        <3> QED BY <1>3, <2>1, <3>2, <3>3
    <2> QED BY <1>6, <2>1, <2>2, <2>3
<1>10. Once(session')
    <2> SUFFICES ASSUME NEW s \in Committed(session'), NEW t \in Committed(session'), s # t,
                        session'[s].from # "none", session'[s].from = session'[t].from
                 PROVE  FALSE
        BY DEF Once
    <2>1. /\ s \in Slots /\ t \in Slots /\ session[s].from = session'[s].from /\ session[t].from = session[s].from
        BY <1>3 DEF Committed
    <2>2. CASE s \in Committed(session) /\ t \in Committed(session)
        BY <1>2, <2>1, <2>2 DEF Once
    <2>3. ASSUME NEW x \in Committed(session), NEW y, y = r.slot, y \in Slots,
                 session[x].from # "none", session[x].from = session[y].from
          PROVE  FALSE
        <3>1. r.slot # "none"
            BY <2>3, NamesAssumption
        <3>2. session[x].from = r.old /\ r.old # "none"
            BY <1>7, <2>3, <3>1
        <3>3. session[r.old].life = "spent"
            BY <1>2, <2>3, <3>2 DEF Spent
        <3> QED BY <1>8, <3>1, <3>2, <3>3
    <2> QED BY <1>6, <2>1, <2>2, <2>3
<1>11. \A s \in Slots : s # r.slot =>
            session'[s].life = session[s].life \/ {session[s].life, session'[s].life} \subseteq Lasting
    BY <1>3
<1>12. r.slot # "none" => session'[r.slot].life # "pending"
    BY <1>3, <1>7
<1> QED BY <1>1, <1>3, <1>5, <1>9, <1>10, <1>11, <1>12

LEMMA CommitWell ==
    ASSUME IInv, NEW q \in Requests, Commit(q)
    PROVE  IInv'
<1>1. /\ req[q].op # "none" /\ Admitted(req[q])
      /\ user' = UserWritten(req[q]) /\ held' = HeldWritten(req[q]) /\ role' = RoleWritten(req[q])
      /\ override' = OverrideWritten(req[q]) /\ session' = SessionWritten(req[q])
      /\ req' = [req EXCEPT ![q] = Idle] /\ UNCHANGED <<perms, mark, attempts>>
    BY DEF Commit
<1>2. /\ user' \in [Users -> Account] /\ Registered(user')
      /\ \A u \in Users : user[u].status # "none" => user'[u].status # "none"
      /\ \A u \in Users : user[u].status = "none" /\ user'[u].status # "none" =>
                req[q].op = "createUser" /\ req[q].on = u
      /\ req[q].op = "createUser" => user'[req[q].on].status # "none"
    BY <1>1, UserIs
<1>3. Cached(user', perms')
    BY <1>1, <1>2 DEF IInv, Cached
<1>4. held' \in [Users -> SUBSET Roles] /\ \A u \in Users : held'[u] # {} => user'[u].status # "none"
    BY <1>1, <1>2, HeldIs
<1>5. role' \in [Roles -> Role] /\ override' \in [Users -> [Permissions -> {"none", "grant", "deny"}]]
    BY <1>1, RoleIs, OverrideIs
<1>6. /\ session' \in [Slots -> Session] /\ Spent(session') /\ Once(session')
      /\ \A s \in Slots : s # req[q].slot =>
            /\ session'[s].from = session[s].from
            /\ session'[s].life = session[s].life \/ {session[s].life, session'[s].life} \subseteq Lasting
      /\ req[q].slot # "none" => session'[req[q].slot].life # "pending"
    BY <1>1, SessionIs
<1> QED BY <1>1, <1>3, <1>2, <1>4, <1>5, <1>6, EndsWell

LEMMA RollbackWell ==
    ASSUME IInv, NEW q \in Requests, Rollback(q)
    PROVE  IInv'
<1>1. /\ session' = [s \in Slots |-> IF s = req[q].slot THEN NoSession ELSE session[s]]
      /\ req' = [req EXCEPT ![q] = Idle] /\ UNCHANGED <<user, held, role, override, perms, mark, attempts>>
    BY DEF Rollback, stored
<1>2. session \in [Slots -> Session] /\ Rotates(session, req[q]) /\ Spent(session) /\ Once(session)
    BY DEF IInv, TypeOK
<1>3. NoSession \in Session /\ NoSession.life = "none"
    BY BootstrapAssumption DEF NoSession, Session
<1>4. session' \in [Slots -> Session]
    BY <1>1, <1>2, <1>3
<1>5. \A s \in Committed(session) : s # req[q].slot
    BY <1>2, NamesAssumption DEF Rotates, Committed
<1>6. Committed(session') = Committed(session)
    BY <1>1, <1>3, <1>5 DEF Committed
<1>7. \A s \in Committed(session) : session'[s] = session[s]
    BY <1>1, <1>5 DEF Committed
<1>8. Spent(session')
    <2> SUFFICES ASSUME NEW s \in Committed(session), session[s].from # "none"
                 PROVE  session'[session[s].from].life = "spent"
        BY <1>6, <1>7 DEF Spent
    <2>1. session[session[s].from].life = "spent" /\ session[s].from \in Slots
        BY <1>2 DEF Spent, Session, Committed
    <2> QED BY <2>1, <1>7 DEF Committed
<1>9. Once(session')
    BY <1>2, <1>6, <1>7 DEF Once
<1>10. \A s \in Slots : s # req[q].slot => session'[s] = session[s]
    BY <1>1
<1>11. req[q].slot # "none" => session'[req[q].slot].life # "pending"
    BY <1>1, <1>2, <1>3 DEF Rotates
<1>12. /\ user' \in [Users -> Account] /\ held' \in [Users -> SUBSET Roles] /\ role' \in [Roles -> Role]
       /\ override' \in [Users -> [Permissions -> {"none", "grant", "deny"}]]
       /\ Cached(user', perms') /\ Registered(user')
       /\ \A u \in Users : held'[u] # {} => user'[u].status # "none"
    BY <1>1 DEF IInv, TypeOK, Exists
<1> QED BY <1>1, <1>4, <1>8, <1>9, <1>10, <1>11, <1>12, EndsWell

LEMMA StoreWell ==
    ASSUME IInv, NEW q \in Requests, StorePermissions(q)
    PROVE  IInv'
<1>1. /\ req[q].op = "verify" /\ perms' = [perms EXCEPT ![req[q].on] = req[q].set]
      /\ req' = [req EXCEPT ![q] = Idle] /\ UNCHANGED <<user, held, role, override, session, mark, attempts>>
    BY DEF StorePermissions, stored
<1>2. req[q].on \in Users /\ req[q].set \subseteq Permissions /\ user[req[q].on].status # "none"
    BY <1>1 DEF IInv, Fits, FitsTables, Finds
<1>3. Cached(user', perms')
    BY <1>1, <1>2 DEF IInv, Cached
<1>4. req[q].slot = "none"
    BY <1>1 DEF IInv, Rotates
<1>5. /\ user' \in [Users -> Account] /\ held' \in [Users -> SUBSET Roles] /\ role' \in [Roles -> Role]
      /\ override' \in [Users -> [Permissions -> {"none", "grant", "deny"}]] /\ session' \in [Slots -> Session]
      /\ Registered(user') /\ Spent(session') /\ Once(session')
      /\ \A u \in Users : held'[u] # {} => user'[u].status # "none"
    BY <1>1 DEF IInv, TypeOK, Exists
<1> QED BY <1>1, <1>3, <1>4, <1>5, EndsWell

-----------------------------------------------------------------------------
LEMMA InitIInv ==
    Init => IInv
<1> SUFFICES ASSUME Init PROVE IInv
    OBVIOUS
<1>1. PICK s \in Scenes : user = s.user /\ held = s.held /\ role = s.role /\ session = s.session
    BY DEF Init
<1>2. /\ user \in [Users -> Account] /\ held \in [Users -> SUBSET Roles]
      /\ role \in [Roles -> Role] /\ session \in [Slots -> Session]
      /\ \A u \in Users : user[u].status = "none" => ~user[u].login /\ held[u] = {}
      /\ \A x \in Slots : session[x].life \in {"none", "active"} /\ session[x].from = "none"
    BY <1>1, ScenesAssumption
<1>3. /\ override \in [Users -> [Permissions -> {"none", "grant", "deny"}]]
      /\ perms \in [Users -> (SUBSET Permissions) \cup {Unknown}]
      /\ mark \in [Users -> BOOLEAN] /\ attempts \in [Users -> 0..Limit]
    BY BoundsAssumption DEF Init, NoOverride, Forgotten
<1>4. DOMAIN req = Requests /\ \A q \in Requests : req[q] = Idle
    BY DEF Init
<1>5. \A x \in Slots : session[x].life = "pending" <=> \E q \in Requests : req[q].slot = x
    BY <1>2, <1>4, IdleFits, NamesAssumption
<1>6. TypeOK
    BY <1>2, <1>3, <1>5 DEF TypeOK, Exists
<1>7. Registered(user) /\ Cached(user, perms) /\ Spent(session) /\ Once(session)
    BY <1>2, <1>3 DEF Registered, Spent, Once, Committed, Cached, Init, Forgotten
<1>8. \A q \in Requests : Fits(user, req[q]) /\ Rotates(session, req[q])
    BY <1>4, IdleFits
<1>9. \A p, q \in Requests : Apart(p, q)
    BY <1>4, IdleFits DEF Apart
<1> QED BY <1>4, <1>6, <1>7, <1>8, <1>9 DEF IInv

(* What is read into the cache are permissions. *)
LEMMA EffectiveIs ==
    ASSUME IInv, NEW u \in Users
    PROVE  Effective(u) \subseteq Permissions
<1>1. \A r \in held[u] : role[r].perms \subseteq Permissions
    BY DEF IInv, TypeOK, Role
<1>2. UNION {role[r].perms : r \in {h \in held[u] : LiveRole(h)}} \subseteq Permissions
    BY <1>1
<1>3. PICK g : g = UNION {role[r].perms : r \in {h \in held[u] : LiveRole(h)}}
    OBVIOUS
<1>4. PICK plus : plus = {p \in Permissions : override[u][p] = "grant"}
    OBVIOUS
<1>5. PICK minus : minus = {p \in Permissions : override[u][p] = "deny"}
    OBVIOUS
<1>6. (g \cup plus) \ minus \subseteq Permissions
    BY <1>2, <1>3, <1>4
<1>7. Effective(u) = IF Super \in held[u] /\ LiveRole(Super) THEN Permissions ELSE (g \cup plus) \ minus
    BY <1>3, <1>4, <1>5 DEF Effective
<1> QED BY <1>6, <1>7

LEMMA FilledIs ==
    ASSUME IInv, NEW a \in Users, Exists(a)
    PROVE  /\ Cached(user, Filled(a)) /\ Cached(user, Forgotten)
           /\ \A u \in Users : Cached(user, [Filled(a) EXCEPT ![u] = Unknown]) /\ [Filled(a) EXCEPT ![u] = Unknown][u] = Unknown
<1>1. PICK T : T = (SUBSET Permissions) \cup {Unknown}
    OBVIOUS
<1>2. perms \in [Users -> T] /\ Unknown \in T /\ \A u \in Users : perms[u] # Unknown => user[u].status # "none"
    BY <1>1 DEF IInv, Cached
<1>3. PICK k \in T : k = Known(a)
    BY <1>1, <1>2, EffectiveIs DEF Known
<1>4. PICK C : C = [perms EXCEPT ![a] = k]
    OBVIOUS
<1>5. C \in [Users -> T] /\ \A u \in Users : C[u] # Unknown => user[u].status # "none"
    BY <1>2, <1>3, <1>4 DEF Exists
<1>6. Filled(a) = C
    BY <1>3, <1>4 DEF Filled
<1>7. Cached(user, C)
    BY <1>1, <1>5 DEF Cached
<1>8. ASSUME NEW u \in Users
      PROVE  Cached(user, [C EXCEPT ![u] = Unknown]) /\ [C EXCEPT ![u] = Unknown][u] = Unknown
    <2>1. PICK D : D = [C EXCEPT ![u] = Unknown]
        OBVIOUS
    <2>2. D \in [Users -> T] /\ D[u] = Unknown /\ \A v \in Users : D[v] # Unknown => user[v].status # "none"
        BY <1>2, <1>5, <2>1
    <2> QED BY <1>1, <2>1, <2>2 DEF Cached
<1>9. Cached(user, Forgotten)
    BY DEF Cached, Forgotten
<1> QED BY <1>6, <1>7, <1>8, <1>9

(* A request that forces nobody out and changes no permissions relies on   *)
(* nothing.                                                                *)
LEMMA NothingToMind ==
    ASSUME NEW r, NEW S, NEW C, NEW M,
           r.op \notin Outs \cup OfOne \cup OfRoles \cup {"verify"}
    PROVE  Ready(S, C, M, r)
BY DEF Ready, Refuses, Forgets, ReadsTrue, Spares, Outs, OfOne

-----------------------------------------------------------------------------
(* Requests that make no session. *)
LEMMA AdministersOpens ==
    ASSUME IInv, NEW q \in Requests, NEW a, NEW r, Administers(q, a, r),
           Fits(user, r), r.op \notin {"none", "refresh"}, r.slot = "none", r.old = "none",
           r.op = "createUser" => \A o \in Requests : req[o].op = "createUser" => req[o].on # r.on,
           Cached(user, perms'), r.op \notin Outs, Forgets(perms', r), ReadsTrue(r), Spares(r)
    PROVE  Opening(q, r)
<1>1. Begin(q, r) /\ UNCHANGED <<session, mark, attempts>>
    BY DEF Administers
<1>2. Rotates(session', r)
    BY DEF Rotates
<1>3. session' \in [Slots -> Session] /\ mark' \in [Users -> BOOLEAN]
    BY <1>1 DEF IInv, TypeOK
<1>4. Ready(session', perms', mark', r)
    BY DEF Ready, Refuses
<1> QED BY <1>1, <1>2, <1>3, <1>4 DEF Opening

LEMMA ForcesOutOpens ==
    ASSUME IInv, NEW q \in Requests, NEW u \in Users, NEW x, ForcesOut(q, u, x),
           NEW r, r = [x EXCEPT !.on = u, !.revoke = Sessions(u)],
           Fits(user, r), r.op \in Outs, r.slot = "none", r.old = "none", r.on = u, r.revoke = Sessions(u),
           Cached(user, perms'), Spares(r)
    PROVE  Opening(q, r)
<1>1. Begin(q, r) /\ mark' = [mark EXCEPT ![u] = TRUE] /\ session' = Marked(u) /\ attempts' = attempts
    BY DEF ForcesOut
<1>2. Rotates(session', r)
    BY DEF Rotates, Outs
<1>3. ASSUME NEW s \in Slots
      PROVE  session'[s] \in Session /\ session'[s].life = session[s].life /\ session'[s].from = session[s].from
    <2>1. PICK w \in Session : w = session[s]
        BY DEF IInv, TypeOK
    <2>2. session'[s] = w \/ session'[s] = [w EXCEPT !.access = "marked"]
        BY <1>1, <2>1 DEF Marked
    <2>3. PICK x2 : x2 = [w EXCEPT !.access = "marked"]
        OBVIOUS
    <2>4. x2 \in Session /\ x2.life = w.life /\ x2.from = w.from
        BY <2>3 DEF Session
    <2> QED BY <2>1, <2>2, <2>3, <2>4
<1>4. ASSUME NEW s \in Slots, session'[s].user = u
      PROVE  session'[s].access # "live" /\ (session'[s].life = "active" => s \in Sessions(u))
    <2>1. PICK w \in Session : w = session[s]
        BY DEF IInv, TypeOK
    <2>2. PICK x2 : x2 = [w EXCEPT !.access = "marked"]
        OBVIOUS
    <2>3. x2.user = w.user /\ x2.life = w.life /\ x2.access = "marked"
        BY <2>2 DEF Session
    <2>4. session'[s] = IF w.user = u /\ w.access = "live" THEN x2 ELSE w
        BY <1>1, <2>1, <2>2 DEF Marked
    <2>5. w.user = u /\ session'[s].life = w.life /\ session'[s].access # "live"
        BY <1>4, <2>3, <2>4
    <2> QED BY <2>1, <2>5 DEF Sessions
<1>5. session' = [s \in Slots |-> session'[s]]
    BY <1>1 DEF Marked
<1>6. session' \in [Slots -> Session]
    BY <1>3, <1>5
<1>7. mark' \in [Users -> BOOLEAN] /\ mark'[u]
    BY <1>1 DEF IInv, TypeOK
<1>8. Refuses(session', mark', r)
    BY <1>7, <1>4 DEF Refuses
<1>9. Ready(session', perms', mark', r)
    BY <1>8 DEF Ready, Forgets, ReadsTrue, Outs, OfOne, OfRoles
<1>10. r.op \notin {"none", "refresh", "createUser"}
    BY DEF Outs
<1> QED BY <1>1, <1>2, <1>3, <1>6, <1>7, <1>9, <1>10 DEF Opening

(* A change of the columns new of a row that is there. *)
LEMMA RowFits ==
    ASSUME NEW z, DOMAIN z = Fields, z.op \in RowOps \ {"createUser"}, z.on \in Users, Exists(z.on),
           NEW new, z.put = Changed(z.on, new),
           "status" \in DOMAIN new => new["status"] \in Statuses \ {"none"},
           "active" \in DOMAIN new => new["active"] \in BOOLEAN,
           "active" \in DOMAIN new => \/ new["active"] = FALSE /\ z.op \in {"suspend", "deactivate"}
                                      \/ new["active"] = TRUE /\ z.op \in {"activate", "unlock"},
           "mustChange" \in DOMAIN new => new["mustChange"] \in BOOLEAN,
           "login" \notin DOMAIN new
    PROVE  Fits(user, z)
<1>1. DOMAIN z.put \subseteq DOMAIN new /\ \A c \in DOMAIN z.put : z.put[c] = new[c]
    BY DEF Changed
<1>2. FitsRow(z)
    BY <1>1 DEF FitsRow, RowOps
<1>3. FitsTables(z)
    BY DEF FitsTables, RowOps
<1>4. Finds(user, z)
    BY DEF Finds, RowOps, Exists
<1> QED BY <1>2, <1>3, <1>4 DEF Fits

-----------------------------------------------------------------------------
(* One lemma per request. *)
LEMMA NextFreeIs ==
    ASSUME Free # {}
    PROVE  NextFree \in Slots /\ session[NextFree] = NoSession
BY DEF NextFree, Free

LEMMA IssuedOpens ==
    ASSUME IInv, NEW q \in Requests, NEW u \in Users, NEW old \in Slots \cup {"none"}, Free # {},
           session' = Issued(NextFree, u, old), NEW r, Begin(q, r), Fits(user, r),
           r.op = IF old = "none" THEN "login" ELSE "refresh", r.slot = NextFree, r.old = old,
           old # "none" => session[old].life = "active",
           Cached(user, perms'),
           mark' \in [Users -> BOOLEAN], attempts' = attempts
    PROVE  Opening(q, r)
<1>1. PICK n \in Slots : n = NextFree /\ session[n] = NoSession
    BY NextFreeIs
<1>2. PICK new : new = [life |-> "pending", user |-> u, access |-> "live", from |-> old]
    OBVIOUS
<1>3. new \in Session /\ new.life = "pending" /\ new.from = old
    BY <1>2 DEF Session
<1>4. session \in [Slots -> Session] /\ session' = [session EXCEPT ![n] = new]
    BY <1>1, <1>2 DEF IInv, TypeOK, Issued
<1>5. session' \in [Slots -> Session] /\ session'[n] = new /\ \A s \in Slots : s # n => session'[s] = session[s]
    BY <1>3, <1>4
<1>6. session[n].life = "none" /\ n # "none"
    BY <1>1, NamesAssumption DEF NoSession
<1>7. Rotates(session', r)
    BY <1>1, <1>3, <1>5, <1>6 DEF Rotates
<1>8. Ready(session', perms', mark', r)
    BY NothingToMind DEF Outs, OfOne, OfRoles
<1> QED BY <1>1, <1>5, <1>6, <1>7, <1>8 DEF Opening

LEMMA CanLoginExists ==
    ASSUME NEW u
    PROVE  /\ CanLogin(u) => Exists(u)
           /\ SignedIn(u) => Exists(u)
BY DEF CanLogin, SignedIn, Accepted, Exists

LEMMA LoginOpens ==
    ASSUME IInv, NEW q \in Requests, Login(q)
    PROVE  \E r : Opening(q, r)
<1>1. PICK u \in Users :
        /\ CanLogin(u) /\ Free # {} /\ session' = Issued(NextFree, u, "none")
        /\ mark' = [mark EXCEPT ![u] = FALSE] /\ perms' = Filled(u) /\ UNCHANGED attempts
        /\ Begin(q, [Idle EXCEPT !.op = "login", !.on = u, !.slot = NextFree])
    BY DEF Login
<1>2. PICK n : n = NextFree
    OBVIOUS
<1>3. PICK z : z = [Idle EXCEPT !.op = "login", !.on = u, !.slot = n]
    OBVIOUS
<1>4. DOMAIN z = Fields /\ z.op = "login" /\ z.slot = n /\ z.old = "none"
    BY <1>3 DEF Idle, Fields
<1>5. Fits(user, z)
    BY <1>4 DEF Fits, FitsTables, Finds, RowOps
<1>6. mark' \in [Users -> BOOLEAN]
    BY <1>1 DEF IInv, TypeOK
<1>7. Begin(q, z)
    BY <1>1, <1>2, <1>3
<1>8. Cached(user, perms')
    BY <1>1, FilledIs, CanLoginExists
<1>9. Opening(q, z)
    BY <1>1, <1>2, <1>4, <1>5, <1>6, <1>7, <1>8, IssuedOpens
<1> QED BY <1>9

LEMMA RefreshOpens ==
    ASSUME IInv, NEW q \in Requests, Refresh(q)
    PROVE  \E r : Opening(q, r)
<1>1. PICK s \in Slots :
        /\ session[s].life = "active" /\ CanLogin(session[s].user)
        /\ Free # {} /\ session' = Issued(NextFree, session[s].user, s)
        /\ perms' = Filled(session[s].user) /\ UNCHANGED <<mark, attempts>>
        /\ Begin(q, [Idle EXCEPT !.op = "refresh", !.on = session[s].user, !.slot = NextFree, !.old = s])
    BY DEF Refresh
<1>2. PICK n : n = NextFree
    OBVIOUS
<1>3. PICK u \in Users : u = session[s].user
    BY DEF IInv, TypeOK, Session
<1>4. PICK z : z = [Idle EXCEPT !.op = "refresh", !.on = u, !.slot = n, !.old = s]
    OBVIOUS
<1>5. DOMAIN z = Fields /\ z.op = "refresh" /\ z.slot = n /\ z.old = s
    BY <1>4 DEF Idle, Fields
<1>6. Fits(user, z)
    BY <1>5 DEF Fits, FitsTables, Finds, RowOps
<1>7. mark' \in [Users -> BOOLEAN] /\ s # "none"
    BY <1>1, NamesAssumption DEF IInv, TypeOK
<1>8. Begin(q, z)
    BY <1>1, <1>2, <1>3, <1>4
<1>9. Cached(user, perms')
    BY <1>1, <1>3, FilledIs, CanLoginExists
<1>10. Opening(q, z)
    BY <1>1, <1>2, <1>3, <1>5, <1>6, <1>7, <1>8, <1>9, IssuedOpens
<1> QED BY <1>10

LEMMA LogoutOpens ==
    ASSUME IInv, NEW q \in Requests, Logout(q)
    PROVE  \E r : Opening(q, r)
<1>1. PICK s \in Slots :
        /\ session[s].life \in {"active", "revoked", "spent"} /\ UNCHANGED <<session, perms, mark, attempts>>
        /\ Begin(q, [Idle EXCEPT !.op = "logout", !.on = session[s].user, !.old = s,
                        !.put = [access |-> session[s].access # "blacklisted", session |-> session[s].life = "active"]])
    BY DEF Logout
<1>2. PICK u, p : u = session[s].user
                  /\ p = [access |-> session[s].access # "blacklisted", session |-> session[s].life = "active"]
    OBVIOUS
<1>3. PICK z : z = [Idle EXCEPT !.op = "logout", !.on = u, !.old = s, !.put = p]
    OBVIOUS
<1>4. DOMAIN z = Fields /\ z.op = "logout" /\ z.slot = "none" /\ z.old = s
    BY <1>3 DEF Idle, Fields
<1>5. Fits(user, z)
    BY <1>4 DEF Fits, FitsTables, Finds, RowOps
<1>6. Begin(q, z)
    BY <1>1, <1>2, <1>3
<1>7. Rotates(session', z)
    BY <1>1, <1>4 DEF Rotates
<1>8. Ready(session', perms', mark', z)
    BY <1>4, NothingToMind DEF Outs, OfOne, OfRoles
<1>9. Cached(user, perms')
    BY <1>1 DEF IInv
<1>10. Opening(q, z)
    BY <1>1, <1>4, <1>5, <1>6, <1>7, <1>8, <1>9 DEF Opening, IInv, TypeOK
<1> QED BY <1>10

LEMMA VerifyOpens ==
    ASSUME IInv, NEW q \in Requests, Verify(q)
    PROVE  \E r : Opening(q, r)
<1>1. PICK u \in Users :
        /\ SignedIn(u) /\ UNCHANGED <<session, perms, mark, attempts>>
        /\ Begin(q, [Idle EXCEPT !.op = "verify", !.on = u, !.set = Effective(u)])
    BY DEF Verify
<1>2. PICK e : e = Effective(u)
    OBVIOUS
<1>3. PICK z : z = [Idle EXCEPT !.op = "verify", !.on = u, !.set = e]
    OBVIOUS
<1>4. DOMAIN z = Fields /\ z.op = "verify" /\ z.on = u /\ z.set = e /\ z.slot = "none" /\ z.old = "none"
    BY <1>3 DEF Idle, Fields
<1>5. Fits(user, z)
    BY <1>1, <1>2, <1>4, EffectiveIs, CanLoginExists DEF Fits, FitsTables, Finds, RowOps, Exists
<1>6. Administers(q, u, z)
    BY <1>1, <1>2, <1>3 DEF Administers
<1>7. Cached(user, perms')
    BY <1>1 DEF IInv
<1>8. z.op \notin Outs /\ Forgets(perms', z) /\ ReadsTrue(z) /\ Spares(z)
    BY <1>2, <1>4 DEF Outs, OfOne, OfRoles, Forgets, ReadsTrue, Spares
<1> QED BY <1>4, <1>5, <1>6, <1>7, <1>8, AdministersOpens

LEMMA ChangePasswordOpens ==
    ASSUME IInv, NEW q \in Requests, ChangePassword(q)
    PROVE  \E r : Opening(q, r)
<1>1. PICK u \in Users : /\ SignedIn(u) /\ perms' = Filled(u)
        /\ ForcesOut(q, u, [Idle EXCEPT !.op = "changePassword", !.put = Changed(u, [mustChange |-> FALSE,
                status |-> IF user[u].status = "changeRequired" THEN "active" ELSE user[u].status])])
    BY DEF ChangePassword
<1>2. user[u].status \in {"active", "changeRequired"}
    BY <1>1 DEF SignedIn, Accepted, CanLogin
<1>3. PICK st \in {"active"} : st = IF user[u].status = "changeRequired" THEN "active" ELSE user[u].status
    BY <1>2
<1>4. PICK new : new = [mustChange |-> FALSE, status |-> st]
    OBVIOUS
<1>5. PICK p : p = Changed(u, new)
    OBVIOUS
<1>6. PICK x : x = [Idle EXCEPT !.op = "changePassword", !.put = p]
    OBVIOUS
<1>7. PICK z : z = [x EXCEPT !.on = u, !.revoke = Sessions(u)]
    OBVIOUS
<1>8. /\ DOMAIN z = Fields /\ z.op = "changePassword" /\ z.on = u /\ z.put = p /\ z.slot = "none" /\ z.old = "none"
      /\ z.revoke = Sessions(u)
    BY <1>6, <1>7 DEF Idle, Fields
<1>9. Fits(user, z)
    <2>1. DOMAIN new = {"mustChange", "status"} /\ new["mustChange"] = FALSE /\ new["status"] = "active"
        BY <1>3, <1>4
    <2>2. z.op \in RowOps \ {"createUser"} /\ Exists(u)
        BY <1>2, <1>8 DEF RowOps, Exists
    <2> QED BY <1>5, <1>8, <2>1, <2>2, RowFits DEF Statuses
<1>10. Cached(user, perms')
    BY <1>1, FilledIs, CanLoginExists
<1>11. ForcesOut(q, u, x)
    BY <1>1, <1>3, <1>4, <1>5, <1>6
<1>12. z.op \in Outs /\ Spares(z)
    BY <1>8 DEF Outs, Spares
<1>13. Opening(q, z)
    BY <1>7, <1>8, <1>9, <1>10, <1>11, <1>12, ForcesOutOpens
<1> QED BY <1>13

LEMMA ForgotPasswordOpens ==
    ASSUME IInv, NEW q \in Requests, ForgotPassword(q)
    PROVE  \E r : Opening(q, r)
<1>1. PICK u \in Users : /\ user[u].login /\ UNCHANGED <<session, perms, mark, attempts>>
        /\ Begin(q, [Idle EXCEPT !.op = "forgot", !.on = u,
                    !.put = Changed(u, [mustChange |-> TRUE, status |-> "changeRequired"])])
    BY DEF ForgotPassword
<1>2. PICK new : new = [mustChange |-> TRUE, status |-> "changeRequired"]
    OBVIOUS
<1>3. PICK p : p = Changed(u, new)
    OBVIOUS
<1>4. PICK z : z = [Idle EXCEPT !.op = "forgot", !.on = u, !.put = p]
    OBVIOUS
<1>5. DOMAIN z = Fields /\ z.op = "forgot" /\ z.on = u /\ z.put = p /\ z.slot = "none" /\ z.old = "none"
    BY <1>4 DEF Idle, Fields
<1>6. Fits(user, z)
    <2>1. DOMAIN new = {"mustChange", "status"} /\ new["mustChange"] = TRUE /\ new["status"] = "changeRequired"
        BY <1>2
    <2>2. z.op \in RowOps \ {"createUser"} /\ Exists(u)
        BY <1>1, <1>5 DEF RowOps, Exists, IInv, Registered
    <2> QED BY <1>3, <1>5, <2>1, <2>2, RowFits DEF Statuses
<1>7. Administers(q, u, z)
    BY <1>1, <1>2, <1>3, <1>4 DEF Administers
<1>8. Cached(user, perms')
    BY <1>1 DEF IInv
<1>9. z.op \notin Outs /\ Forgets(perms', z) /\ ReadsTrue(z) /\ Spares(z)
    BY <1>5 DEF Outs, OfOne, OfRoles, Forgets, ReadsTrue, Spares
<1>10. Opening(q, z)
    BY <1>5, <1>6, <1>7, <1>8, <1>9, AdministersOpens
<1> QED BY <1>10

(* The last active super administrator may not be taken away. *)
LEMMA SparesOthers ==
    ASSUME NEW u \in Users, NotLastSuper(u), \E v \in Users : Governs(v)
    PROVE  \E v \in Users \ {u} : Governs(v)
<1> SUFFICES ASSUME \A v \in Users : Governs(v) => v = u PROVE FALSE
    OBVIOUS
<1>1. PICK G : G = {v \in Users : IsSuper(v) /\ user[v].active}
    OBVIOUS
<1>2. G = {u} /\ IsSuper(u)
    BY <1>1 DEF Governs
<1>3. Cardinality(G) = 1
    BY <1>2, FS_Singleton
<1>4. Cardinality(G) > 1
    BY <1>1, <1>2 DEF NotLastSuper
<1> QED BY <1>3, <1>4

(* An administrator changes the row of a user, and forces the user out. *)
LEMMA ForcedRowOpens ==
    ASSUME IInv, NEW q \in Requests, NEW a \in Users, Exists(a), perms' = Filled(a), NEW u \in Users, Exists(u), NEW new,
           NEW op \in Outs \cap RowOps, op \in {"suspend", "deactivate"} => NotLastSuper(u),
           ForcesOut(q, u, [Idle EXCEPT !.op = op, !.put = Changed(u, new)]),
           "status" \in DOMAIN new => new["status"] \in Statuses \ {"none"},
           "active" \in DOMAIN new => new["active"] = FALSE /\ op \in {"suspend", "deactivate"},
           "mustChange" \in DOMAIN new => new["mustChange"] \in BOOLEAN,
           "login" \notin DOMAIN new
    PROVE  \E r : Opening(q, r)
<1>1. PICK p : p = Changed(u, new)
    OBVIOUS
<1>2. PICK x : x = [Idle EXCEPT !.op = op, !.put = p]
    OBVIOUS
<1>3. PICK z : z = [x EXCEPT !.on = u, !.revoke = Sessions(u)]
    OBVIOUS
<1>4. /\ DOMAIN z = Fields /\ z.op = op /\ z.on = u /\ z.put = p /\ z.slot = "none" /\ z.old = "none"
      /\ z.revoke = Sessions(u)
    BY <1>2, <1>3 DEF Idle, Fields
<1>5. Fits(user, z)
    BY <1>1, <1>4, RowFits DEF Outs
<1>6. Cached(user, perms')
    BY FilledIs
<1>7. ForcesOut(q, u, x)
    BY <1>1, <1>2
<1>8. Spares(z)
    BY <1>4, SparesOthers DEF Spares, Outs
<1>9. Opening(q, z)
    BY <1>3, <1>4, <1>5, <1>6, <1>7, <1>8, ForcesOutOpens
<1> QED BY <1>9

(* An administrator changes the row of a user. *)
LEMMA RowOpens ==
    ASSUME IInv, NEW q \in Requests, NEW a \in Users, Exists(a), perms' = Filled(a), NEW u \in Users, Exists(u), NEW new,
           NEW op \in {"activate", "unlock"},
           Administers(q, a, [Idle EXCEPT !.op = op, !.on = u, !.put = Changed(u, new)]),
           "status" \in DOMAIN new => new["status"] \in Statuses \ {"none"},
           "active" \in DOMAIN new => new["active"] = TRUE,
           DOMAIN new \subseteq {"status", "active"}
    PROVE  \E r : Opening(q, r)
<1>1. PICK p : p = Changed(u, new)
    OBVIOUS
<1>2. PICK z : z = [Idle EXCEPT !.op = op, !.on = u, !.put = p]
    OBVIOUS
<1>3. DOMAIN z = Fields /\ z.op = op /\ z.on = u /\ z.put = p /\ z.slot = "none" /\ z.old = "none"
    BY <1>2 DEF Idle, Fields
<1>4. op \in RowOps \ {"createUser"} /\ "mustChange" \notin DOMAIN new /\ "login" \notin DOMAIN new
    BY DEF RowOps
<1>5. Fits(user, z)
    BY <1>1, <1>3, <1>4, RowFits
<1>6. Cached(user, perms')
    BY FilledIs
<1>7. Administers(q, a, z)
    BY <1>1, <1>2
<1>8. z.op \notin Outs /\ Forgets(perms', z) /\ ReadsTrue(z) /\ Spares(z)
    BY <1>3 DEF Outs, OfOne, OfRoles, Forgets, ReadsTrue, Spares
<1>9. Opening(q, z)
    BY <1>3, <1>5, <1>6, <1>7, <1>8, AdministersOpens
<1> QED BY <1>9

LEMMA UserStatesOpen ==
    ASSUME IInv, NEW q \in Requests, NEW a \in Users, Exists(a), UserStates(q, a)
    PROVE  \E r : Opening(q, r)
<1>1. CASE ResetPassword(q, a)
    <2>1. PICK u \in Users, must \in BOOLEAN : /\ user[u].login /\ perms' = Filled(a)
            /\ ForcesOut(q, u, [Idle EXCEPT !.op = "reset", !.put = Changed(u,
                    IF must THEN [mustChange |-> TRUE, status |-> "changeRequired"] ELSE [mustChange |-> FALSE])])
        BY <1>1 DEF ResetPassword
    <2>2. PICK new : new = IF must THEN [mustChange |-> TRUE, status |-> "changeRequired"] ELSE [mustChange |-> FALSE]
        OBVIOUS
    <2>3. /\ DOMAIN new \subseteq {"mustChange", "status"} /\ new["mustChange"] \in BOOLEAN
          /\ "status" \in DOMAIN new => new["status"] = "changeRequired"
        <3>1. CASE must
            BY <2>2, <3>1
        <3>2. CASE ~must
            BY <2>2, <3>2
        <3> QED BY <3>1, <3>2
    <2>4. Exists(u) /\ "reset" \in Outs \cap RowOps
        BY <2>1 DEF Exists, IInv, Registered, RowOps, Outs
    <2>5. ForcesOut(q, u, [Idle EXCEPT !.op = "reset", !.put = Changed(u, new)])
        BY <2>1, <2>2
    <2>6. "active" \notin DOMAIN new /\ "login" \notin DOMAIN new /\ "changeRequired" \in Statuses \ {"none"}
        BY <2>3 DEF Statuses
    <2> QED BY <2>1, <2>3, <2>4, <2>5, <2>6, ForcedRowOpens
<1>2. CASE Activate(q, a)
    <2>1. PICK u \in Users : /\ Exists(u) /\ perms' = Filled(a)
            /\ Administers(q, a, [Idle EXCEPT !.op = "activate", !.on = u,
                    !.put = Changed(u, [status |-> "active", active |-> TRUE])])
        BY <1>2 DEF Activate
    <2>2. PICK new : new = [status |-> "active", active |-> TRUE]
        OBVIOUS
    <2>3. DOMAIN new = {"status", "active"} /\ new["status"] \in Statuses \ {"none"} /\ new["active"] = TRUE
        BY <2>2 DEF Statuses
    <2>4. Administers(q, a, [Idle EXCEPT !.op = "activate", !.on = u, !.put = Changed(u, new)])
        BY <2>1, <2>2
    <2> QED BY <2>1, <2>3, <2>4, RowOpens
<1>3. CASE Deactivate(q, a)
    <2>1. PICK u \in Users : /\ Exists(u) /\ NotLastSuper(u) /\ perms' = Filled(a)
            /\ ForcesOut(q, u, [Idle EXCEPT !.op = "deactivate", !.put = Changed(u, [status |-> "inactive", active |-> FALSE])])
        BY <1>3 DEF Deactivate
    <2>2. PICK new : new = [status |-> "inactive", active |-> FALSE]
        OBVIOUS
    <2>3. /\ DOMAIN new = {"status", "active"} /\ new["status"] \in Statuses \ {"none"} /\ new["active"] = FALSE
          /\ "deactivate" \in Outs \cap RowOps
        BY <2>2 DEF Statuses, RowOps, Outs
    <2>4. ForcesOut(q, u, [Idle EXCEPT !.op = "deactivate", !.put = Changed(u, new)])
        BY <2>1, <2>2
    <2> QED BY <2>1, <2>3, <2>4, ForcedRowOpens
<1>4. CASE Suspend(q, a)
    <2>1. PICK u \in Users : /\ Exists(u) /\ NotLastSuper(u) /\ perms' = Filled(a)
            /\ ForcesOut(q, u, [Idle EXCEPT !.op = "suspend", !.put = Changed(u, [status |-> "suspended", active |-> FALSE])])
        BY <1>4 DEF Suspend
    <2>2. PICK new : new = [status |-> "suspended", active |-> FALSE]
        OBVIOUS
    <2>3. /\ DOMAIN new = {"status", "active"} /\ new["status"] \in Statuses \ {"none"} /\ new["active"] = FALSE
          /\ "suspend" \in Outs \cap RowOps
        BY <2>2 DEF Statuses, RowOps, Outs
    <2>4. ForcesOut(q, u, [Idle EXCEPT !.op = "suspend", !.put = Changed(u, new)])
        BY <2>1, <2>2
    <2> QED BY <2>1, <2>3, <2>4, ForcedRowOpens
<1>5. CASE Unlock(q, a)
    <2>1. PICK u \in Users : /\ Exists(u) /\ perms' = Filled(a)
            /\ Administers(q, a, [Idle EXCEPT !.op = "unlock", !.on = u, !.put = Changed(u, [active |-> TRUE])])
        BY <1>5 DEF Unlock
    <2>2. PICK new : new = [active |-> TRUE]
        OBVIOUS
    <2>3. DOMAIN new = {"active"} /\ new["active"] = TRUE
        BY <2>2
    <2>4. Administers(q, a, [Idle EXCEPT !.op = "unlock", !.on = u, !.put = Changed(u, new)])
        BY <2>1, <2>2
    <2> QED BY <2>1, <2>3, <2>4, RowOpens
<1> QED BY <1>1, <1>2, <1>3, <1>4, <1>5 DEF UserStates

LEMMA CreateUserOpens ==
    ASSUME IInv, NEW q \in Requests, NEW a \in Users, Exists(a), CreateUser(q, a)
    PROVE  \E r : Opening(q, r)
<1>0. PICK u \in Users, login \in BOOLEAN, granted \in {{}, {"act"}} : \E roles \in SUBSET Assignable(u) :
        /\ ~Exists(u)
        /\ \A o \in Requests : req[o].on = u => req[o].op # "createUser"
        /\ perms' = Filled(a)
        /\ Administers(q, a, [Idle EXCEPT !.op = "createUser", !.on = u,
                !.roles = IF roles = {} /\ LiveRole(Default) THEN {Default} ELSE roles,
                !.set = [p \in granted |-> "grant"],
                !.put = [status |-> IF login THEN "changeRequired" ELSE "inactive",
                         active |-> TRUE, login |-> login, mustChange |-> login]])
    BY DEF CreateUser
<1>1. PICK roles \in SUBSET Assignable(u) :
        /\ ~Exists(u)
        /\ \A o \in Requests : req[o].on = u => req[o].op # "createUser"
        /\ perms' = Filled(a)
        /\ Administers(q, a, [Idle EXCEPT !.op = "createUser", !.on = u,
                !.roles = IF roles = {} /\ LiveRole(Default) THEN {Default} ELSE roles,
                !.set = [p \in granted |-> "grant"],
                !.put = [status |-> IF login THEN "changeRequired" ELSE "inactive",
                         active |-> TRUE, login |-> login, mustChange |-> login]])
    BY <1>0
<1>2. PICK given : given = IF roles = {} /\ LiveRole(Default) THEN {Default} ELSE roles
    OBVIOUS
<1>3. given \subseteq Roles
    BY <1>2, RolesAssumption DEF Assignable, Default
<1>4. PICK set : set = [p \in granted |-> "grant"]
    OBVIOUS
<1>5. DOMAIN set \subseteq Permissions /\ \A p \in DOMAIN set : set[p] \in Settings
    BY <1>4, RolesAssumption DEF Settings
<1>6. PICK st \in {"changeRequired", "inactive"} : st = IF login THEN "changeRequired" ELSE "inactive"
    OBVIOUS
<1>7. PICK put : put = [status |-> st, active |-> TRUE, login |-> login, mustChange |-> login]
    OBVIOUS
<1>8. /\ DOMAIN put = Columns /\ put["status"] \in Statuses \ {"none"}
      /\ put["active"] = TRUE /\ put["login"] \in BOOLEAN /\ put["mustChange"] \in BOOLEAN
    BY <1>6, <1>7 DEF Columns, Statuses
<1>9. PICK z : z = [Idle EXCEPT !.op = "createUser", !.on = u, !.roles = given, !.set = set, !.put = put]
    OBVIOUS
<1>10. /\ DOMAIN z = Fields /\ z.op = "createUser" /\ z.on = u /\ z.roles = given /\ z.set = set /\ z.put = put
       /\ z.role = "none" /\ z.slot = "none" /\ z.old = "none"
    BY <1>9 DEF Idle, Fields
<1>11. FitsRow(z)
    BY <1>8, <1>10 DEF FitsRow, Columns
<1>12. FitsTables(z) /\ Finds(user, z)
    BY <1>1, <1>3, <1>5, <1>10 DEF FitsTables, Finds, Exists, RowOps, Super
<1>13. Fits(user, z)
    BY <1>10, <1>11, <1>12 DEF Fits
<1>14. Administers(q, a, z)
    BY <1>1, <1>2, <1>4, <1>6, <1>7, <1>9
<1>15. Cached(user, perms')
    BY <1>1, FilledIs
<1>16. z.op \notin Outs /\ Forgets(perms', z) /\ ReadsTrue(z) /\ Spares(z)
    BY <1>10 DEF Outs, OfOne, OfRoles, Forgets, ReadsTrue, Spares
<1>17. Opening(q, z)
    BY <1>1, <1>10, <1>13, <1>14, <1>15, <1>16, AdministersOpens
<1> QED BY <1>17

(* A request that changes roles, when the cache has been emptied. *)
LEMMA RolesForgotten ==
    ASSUME perms' = Forgotten, NEW z, z.op \in OfRoles
    PROVE  z.op \in OfOne \cup OfRoles /\ Forgets(perms', z) /\ Spares(z)
BY DEF Forgotten, Forgets, Spares, OfOne, OfRoles

(* A request that writes no row of a user. *)
LEMMA ElsewhereOpens ==
    ASSUME IInv, NEW q \in Requests, NEW a, NEW z, Administers(q, a, z), DOMAIN z = Fields,
           z.op \in OfOne \cup OfRoles,
           z.slot = "none", z.old = "none", FitsTables(z), Finds(user, z),
           Cached(user, perms'), Forgets(perms', z), Spares(z)
    PROVE  \E r : Opening(q, r)
<1>1. Fits(user, z)
    BY DEF Fits, RowOps, OfOne, OfRoles
<1>2. z.op \notin Outs \cup {"verify", "none", "refresh", "createUser"}
    BY DEF Outs, OfOne, OfRoles
<1>3. ReadsTrue(z)
    BY <1>2 DEF ReadsTrue
<1>4. Opening(q, z)
    BY <1>1, <1>2, <1>3, AdministersOpens
<1> QED BY <1>4

LEMMA UserRolesOpen ==
    ASSUME IInv, NEW q \in Requests, NEW a \in Users, Exists(a), UserRoles(q, a)
    PROVE  \E r : Opening(q, r)
<1>1. CASE AssignRole(q, a)
    <2>1. PICK u \in Users : \E r \in Assignable(u) \ held[u] :
            /\ Exists(u) /\ perms' = [Filled(a) EXCEPT ![u] = Unknown]
            /\ Administers(q, a, [Idle EXCEPT !.op = "assign", !.on = u, !.roles = {r}])
        BY <1>1 DEF AssignRole
    <2>2. PICK r \in Assignable(u) \ held[u] :
            /\ Exists(u) /\ perms' = [Filled(a) EXCEPT ![u] = Unknown]
            /\ Administers(q, a, [Idle EXCEPT !.op = "assign", !.on = u, !.roles = {r}])
        BY <2>1
    <2>3. PICK z : z = [Idle EXCEPT !.op = "assign", !.on = u, !.roles = {r}]
        OBVIOUS
    <2>4. /\ DOMAIN z = Fields /\ z.op = "assign" /\ z.on = u /\ z.roles = {r} /\ z.role = "none"
          /\ z.slot = "none" /\ z.old = "none"
        BY <2>3 DEF Idle, Fields
    <2>5. FitsTables(z) /\ Finds(user, z)
        BY <2>2, <2>4 DEF FitsTables, Finds, Exists, Assignable, RowOps, Super
    <2>6. Cached(user, perms') /\ perms'[u] = Unknown
        BY <2>2, FilledIs
    <2>7. Administers(q, a, z)
        BY <2>2, <2>3
    <2>8. z.op \in OfOne /\ Forgets(perms', z) /\ Spares(z)
        BY <2>4, <2>6 DEF OfOne, OfRoles, Forgets, Spares
    <2> QED BY <2>4, <2>5, <2>6, <2>7, <2>8, ElsewhereOpens
<1>2. CASE RemoveRole(q, a)
    <2>1. PICK u \in Users : \E r \in held[u] :
            /\ (r = Super => NotLastSuper(u)) /\ perms' = [Filled(a) EXCEPT ![u] = Unknown]
            /\ Administers(q, a, [Idle EXCEPT !.op = "remove", !.on = u, !.role = r,
                    !.roles = IF held[u] = {r} /\ LiveRole(Default) THEN {Default} \ {r} ELSE {}])
        BY <1>2 DEF RemoveRole
    <2>2. PICK r \in held[u] :
            /\ (r = Super => NotLastSuper(u)) /\ perms' = [Filled(a) EXCEPT ![u] = Unknown]
            /\ Administers(q, a, [Idle EXCEPT !.op = "remove", !.on = u, !.role = r,
                    !.roles = IF held[u] = {r} /\ LiveRole(Default) THEN {Default} \ {r} ELSE {}])
        BY <2>1
    <2>3. PICK given : given = IF held[u] = {r} /\ LiveRole(Default) THEN {Default} \ {r} ELSE {}
        OBVIOUS
    <2>4. given \subseteq Roles
        BY <2>3, RolesAssumption DEF Default
    <2>5. PICK z : z = [Idle EXCEPT !.op = "remove", !.on = u, !.role = r, !.roles = given]
        OBVIOUS
    <2>6. /\ DOMAIN z = Fields /\ z.op = "remove" /\ z.on = u /\ z.roles = given /\ z.role = r
          /\ z.slot = "none" /\ z.old = "none"
        BY <2>5 DEF Idle, Fields
    <2>7. user[u].status # "none"
        BY <2>2 DEF IInv, TypeOK, Exists
    <2>8. FitsTables(z) /\ Finds(user, z)
        BY <2>4, <2>6, <2>7 DEF FitsTables, Finds, RowOps
    <2>9. Cached(user, perms') /\ perms'[u] = Unknown
        BY <2>2, FilledIs
    <2>10. Administers(q, a, z)
        BY <2>2, <2>3, <2>5
    <2>11. Spares(z)
        BY <2>2, <2>6, SparesOthers DEF Spares
    <2>12. z.op \in OfOne /\ Forgets(perms', z)
        BY <2>6, <2>9 DEF OfOne, OfRoles, Forgets
    <2> QED BY <2>6, <2>8, <2>9, <2>10, <2>11, <2>12, ElsewhereOpens
<1>3. CASE ForceLogout(q, a)
    <2>1. PICK u \in Users : perms' = Filled(a) /\ ForcesOut(q, u, [Idle EXCEPT !.op = "forceLogout"])
        BY <1>3 DEF ForceLogout
    <2>2. PICK x : x = [Idle EXCEPT !.op = "forceLogout"]
        OBVIOUS
    <2>3. PICK z : z = [x EXCEPT !.on = u, !.revoke = Sessions(u)]
        OBVIOUS
    <2>4. /\ DOMAIN z = Fields /\ z.op = "forceLogout" /\ z.on = u /\ z.revoke = Sessions(u)
          /\ z.slot = "none" /\ z.old = "none"
        BY <2>2, <2>3 DEF Idle, Fields
    <2>5. Fits(user, z)
        BY <2>4 DEF Fits, FitsTables, Finds, RowOps
    <2>6. Cached(user, perms')
        BY <2>1, FilledIs
    <2>7. ForcesOut(q, u, x)
        BY <2>1, <2>2
    <2>8. z.op \in Outs /\ Spares(z)
        BY <2>4 DEF Outs, Spares
    <2>9. Opening(q, z)
        BY <2>3, <2>4, <2>5, <2>6, <2>7, <2>8, ForcesOutOpens
    <2> QED BY <2>9
<1> QED BY <1>1, <1>2, <1>3 DEF UserRoles

LEMMA CreateRoleOpens ==
    ASSUME IInv, NEW q \in Requests, NEW a \in Users, Exists(a), CreateRole(q, a)
    PROVE  \E r : Opening(q, r)
<1>1. PICK r \in Roles, granted \in SUBSET Permissions : perms' = Forgotten
            /\ Administers(q, a, [Idle EXCEPT !.op = "createRole", !.role = r, !.set = granted])
    BY DEF CreateRole
<1>2. PICK z : z = [Idle EXCEPT !.op = "createRole", !.role = r, !.set = granted]
    OBVIOUS
<1>3. DOMAIN z = Fields /\ z.op = "createRole" /\ z.role = r /\ z.set = granted /\ z.slot = "none" /\ z.old = "none"
    BY <1>2 DEF Idle, Fields
<1>4. FitsTables(z) /\ Finds(user, z)
    BY <1>3 DEF FitsTables, Finds, RowOps
<1>5. Cached(user, perms')
    BY <1>1, FilledIs
<1>6. z.op \in OfRoles
    BY <1>3 DEF OfRoles
<1> QED BY <1>1, <1>2, <1>3, <1>4, <1>5, <1>6, RolesForgotten, ElsewhereOpens

LEMMA DeleteRoleOpens ==
    ASSUME IInv, NEW q \in Requests, NEW a \in Users, Exists(a), DeleteRole(q, a)
    PROVE  \E r : Opening(q, r)
<1>1. PICK r \in Roles \ System, to \in Roles : perms' = Forgotten
            /\ Administers(q, a, [Idle EXCEPT !.op = "deleteRole", !.role = r, !.to = to,
                    !.users = {u \in Users : r \in held[u]},
                    !.put = [u \in {w \in Users : r \in held[w]} |-> to \notin held[u]]])
    BY DEF DeleteRole
<1>2. PICK holders : holders = {u \in Users : r \in held[u]}
    OBVIOUS
<1>3. PICK put : put = [u \in holders |-> to \notin held[u]]
    OBVIOUS
<1>4. PICK z : z = [Idle EXCEPT !.op = "deleteRole", !.role = r, !.to = to, !.users = holders, !.put = put]
    OBVIOUS
<1>5. /\ DOMAIN z = Fields /\ z.op = "deleteRole" /\ z.role = r /\ z.to = to /\ z.users = holders
      /\ z.slot = "none" /\ z.old = "none"
    BY <1>4 DEF Idle, Fields
<1>6. \A u \in holders : u \in Users /\ user[u].status # "none"
    BY <1>2 DEF IInv, TypeOK, Exists
<1>7. FitsTables(z) /\ Finds(user, z)
    BY <1>5, <1>6 DEF FitsTables, Finds, RowOps, System
<1>8. Cached(user, perms')
    BY <1>1, FilledIs
<1>9. Administers(q, a, z)
    BY <1>1, <1>2, <1>3, <1>4
<1>10. z.op \in OfRoles
    BY <1>5 DEF OfRoles
<1> QED BY <1>1, <1>5, <1>7, <1>8, <1>9, <1>10, RolesForgotten, ElsewhereOpens

LEMMA RegrantsOpens ==
    ASSUME IInv, NEW q \in Requests, NEW a \in Users, Exists(a), NEW r \in Roles, NEW granted,
           DOMAIN granted \subseteq Permissions, Regrants(q, a, r, granted)
    PROVE  \E x : Opening(q, x)
<1>1. PICK changes : changes = {p \in DOMAIN granted : granted[p] # (p \in role[r].perms)}
    OBVIOUS
<1>2. PICK put : put = [inserts |-> {p \in changes : granted[p]}, updates |-> {}]
    OBVIOUS
<1>3. PICK set : set = [p \in changes |-> granted[p]]
    OBVIOUS
<1>4. PICK z : z = [Idle EXCEPT !.op = "regrant", !.role = r, !.put = put, !.set = set]
    OBVIOUS
<1>5. perms' = Forgotten /\ Administers(q, a, z)
    BY <1>1, <1>2, <1>3, <1>4 DEF Regrants
<1>6. DOMAIN z = Fields /\ z.op = "regrant" /\ z.role = r /\ z.set = set /\ z.slot = "none" /\ z.old = "none"
    BY <1>4 DEF Idle, Fields
<1>7. DOMAIN set \subseteq Permissions
    BY <1>1, <1>3
<1>8. FitsTables(z) /\ Finds(user, z)
    BY <1>6, <1>7 DEF FitsTables, Finds, RowOps
<1>9. Cached(user, perms')
    BY <1>5, FilledIs
<1>10. z.op \in OfRoles
    BY <1>6 DEF OfRoles
<1> QED BY <1>5, <1>6, <1>8, <1>9, <1>10, RolesForgotten, ElsewhereOpens

LEMMA RoleRoutesOpen ==
    ASSUME IInv, NEW q \in Requests, NEW a \in Users, Exists(a), RoleRoutes(q, a)
    PROVE  \E r : Opening(q, r)
<1>1. \A v : \A p \in Permissions : DOMAIN At(p, v) \subseteq Permissions
    BY DEF At
<1>2. CASE GrantPermission(q, a)
    <2>1. PICK r \in Roles, p \in Permissions : Regrants(q, a, r, At(p, TRUE))
        BY <1>2 DEF GrantPermission
    <2> QED BY <1>1, <2>1, RegrantsOpens
<1>3. CASE RevokePermission(q, a)
    <2>1. PICK r \in Roles, p \in Permissions : Regrants(q, a, r, At(p, FALSE))
        BY <1>3 DEF RevokePermission
    <2> QED BY <1>1, <2>1, RegrantsOpens
<1> QED BY <1>2, <1>3, DeleteRoleOpens DEF RoleRoutes

(* The settings of a user, of which some may be left out of the updates. *)
LEMMA OverriddenIs ==
    ASSUME NEW u, NEW settings, NEW z, z = Overridden(u, settings)
    PROVE  /\ DOMAIN z = Fields /\ z.op = "override" /\ z.on = u /\ z.slot = "none" /\ z.old = "none"
           /\ DOMAIN z.set \subseteq DOMAIN settings /\ \A p \in DOMAIN z.set : z.set[p] = settings[p]
<1>1. PICK changes : changes = {p \in DOMAIN settings : settings[p] # override[u][p]}
    OBVIOUS
<1>2. PICK put : put = [inserts |-> {p \in changes : override[u][p] = "none"},
                        updates |-> {p \in changes : "none" \notin {override[u][p], settings[p]}}]
    OBVIOUS
<1>3. PICK set : set = [p \in changes |-> settings[p]]
    OBVIOUS
<1>4. z = [Idle EXCEPT !.op = "override", !.on = u, !.set = set, !.put = put]
    BY <1>1, <1>2, <1>3 DEF Overridden
<1>5. DOMAIN z = Fields /\ z.op = "override" /\ z.on = u /\ z.set = set /\ z.slot = "none" /\ z.old = "none"
    BY <1>4 DEF Idle, Fields
<1> QED BY <1>1, <1>3, <1>5

LEMMA OverridesOpens ==
    ASSUME IInv, NEW q \in Requests, NEW a \in Users, NEW u \in Users, NEW z, Administers(q, a, z), Exists(u),
           DOMAIN z = Fields, z.op = "override", z.on = u, z.slot = "none", z.old = "none",
           DOMAIN z.set \subseteq Permissions, \A p \in DOMAIN z.set : z.set[p] \in Settings,
           Cached(user, perms'), perms'[u] = Unknown
    PROVE  \E r : Opening(q, r)
<1>1. FitsTables(z) /\ Finds(user, z)
    BY DEF FitsTables, Finds, RowOps
<1>2. z.op \in OfOne /\ Forgets(perms', z) /\ Spares(z)
    BY DEF OfOne, OfRoles, Forgets, Spares
<1> QED BY <1>1, <1>2, ElsewhereOpens

LEMMA OverrideRoutesOpen ==
    ASSUME IInv, NEW q \in Requests, NEW a \in Users, Exists(a), OverrideRoutes(q, a)
    PROVE  \E r : Opening(q, r)
<1>1. ASSUME NEW u \in Users, NEW p \in Permissions, NEW given \in Settings, Overrides(q, a, u, Overridden(u, At(p, given)))
      PROVE  \E r : Opening(q, r)
    <2>1. PICK settings : settings = At(p, given)
        OBVIOUS
    <2>2. DOMAIN settings \subseteq Permissions /\ \A x \in DOMAIN settings : settings[x] \in Settings
        BY <2>1 DEF At
    <2>3. PICK z : z = Overridden(u, settings)
        OBVIOUS
    <2>4. Exists(u) /\ perms' = [Filled(a) EXCEPT ![u] = Unknown] /\ Administers(q, a, z)
        BY <1>1, <2>1, <2>3 DEF Overrides
    <2>5. Cached(user, perms') /\ perms'[u] = Unknown
        BY <2>4, FilledIs
    <2>6. /\ DOMAIN z = Fields /\ z.op = "override" /\ z.on = u /\ z.slot = "none" /\ z.old = "none"
          /\ DOMAIN z.set \subseteq DOMAIN settings /\ \A x \in DOMAIN z.set : z.set[x] = settings[x]
        BY <2>3, OverriddenIs
    <2>7. DOMAIN z.set \subseteq Permissions /\ \A x \in DOMAIN z.set : z.set[x] \in Settings
        BY <2>2, <2>6
    <2> QED BY <2>4, <2>5, <2>6, <2>7, OverridesOpens
<1>2. CASE OverrideOne(q, a)
    BY <1>1, <1>2 DEF OverrideOne, Settings
<1>3. CASE RemoveOverride(q, a)
    BY <1>1, <1>3 DEF RemoveOverride, Settings
<1>4. CASE OverrideAll(q, a)
    <2>1. PICK u \in Users, settings \in [Permissions -> Settings] :
            Overrides(q, a, u, [Overridden(u, settings) EXCEPT !.put.updates = {}])
        BY <1>4 DEF OverrideAll, Settings
    <2>2. PICK x : x = Overridden(u, settings)
        OBVIOUS
    <2>3. PICK z : z = [x EXCEPT !.put.updates = {}]
        OBVIOUS
    <2>4. /\ DOMAIN x = Fields /\ x.op = "override" /\ x.on = u /\ x.slot = "none" /\ x.old = "none"
          /\ DOMAIN x.set \subseteq DOMAIN settings /\ \A p \in DOMAIN x.set : x.set[p] = settings[p]
        BY <2>2, OverriddenIs
    <2>5. DOMAIN z = Fields /\ z.op = x.op /\ z.on = x.on /\ z.slot = x.slot /\ z.old = x.old /\ z.set = x.set
        BY <2>3, <2>4 DEF Fields
    <2>6. Exists(u) /\ perms' = [Filled(a) EXCEPT ![u] = Unknown] /\ Administers(q, a, z)
        BY <2>1, <2>2, <2>3 DEF Overrides
    <2>7. Cached(user, perms') /\ perms'[u] = Unknown
        BY <2>6, FilledIs
    <2>8. DOMAIN settings \subseteq Permissions /\ \A p \in DOMAIN settings : settings[p] \in Settings
        BY <2>1
    <2>9. /\ z.op = "override" /\ z.on = u /\ z.slot = "none" /\ z.old = "none"
          /\ DOMAIN z.set \subseteq Permissions /\ \A p \in DOMAIN z.set : z.set[p] \in Settings
        BY <2>4, <2>5, <2>8
    <2> QED BY <2>5, <2>6, <2>7, <2>9, OverridesOpens
<1>5. ASSUME NEW source \in Sources
      PROVE  source \subseteq Permissions
    BY <1>5 DEF Sources, IInv, TypeOK, Role
<1>6. CASE CloneToRole(q, a)
    <2>1. PICK r \in Roles, source \in Sources :
            Regrants(q, a, r, [p \in source |-> TRUE])
        BY <1>6 DEF CloneToRole
    <2>2. DOMAIN [p \in source |-> TRUE] \subseteq Permissions
        BY <1>5, <2>1
    <2> QED BY <2>1, <2>2, RegrantsOpens
<1>7. CASE CloneToUser(q, a)
    <2>1. PICK u \in Users, source \in Sources :
            Exists(u) /\ perms' = Forgotten /\ Administers(q, a, Overridden(u, [p \in source |-> "grant"]))
        BY <1>7 DEF CloneToUser
    <2>2. PICK settings : settings = [p \in source |-> "grant"]
        OBVIOUS
    <2>3. DOMAIN settings \subseteq Permissions /\ \A x \in DOMAIN settings : settings[x] \in Settings
        BY <1>5, <2>1, <2>2 DEF Settings
    <2>4. PICK z : z = Overridden(u, settings)
        OBVIOUS
    <2>5. Administers(q, a, z)
        BY <2>1, <2>2, <2>4
    <2>6. Cached(user, perms') /\ perms'[u] = Unknown
        BY <2>1, FilledIs DEF Forgotten
    <2>7. /\ DOMAIN z = Fields /\ z.op = "override" /\ z.on = u /\ z.slot = "none" /\ z.old = "none"
          /\ DOMAIN z.set \subseteq DOMAIN settings /\ \A x \in DOMAIN z.set : z.set[x] = settings[x]
        BY <2>4, OverriddenIs
    <2>8. DOMAIN z.set \subseteq Permissions /\ \A x \in DOMAIN z.set : z.set[x] \in Settings
        BY <2>3, <2>7
    <2> QED BY <2>1, <2>5, <2>6, <2>7, <2>8, OverridesOpens
<1> QED BY <1>2, <1>3, <1>4, <1>6, <1>7 DEF OverrideRoutes

-----------------------------------------------------------------------------
(* All requests together. *)
LEMMA ServeOpens ==
    ASSUME IInv, NEW q \in Requests, Serve(q)
    PROVE  \E r : Opening(q, r)
<1>1. CASE Tokens(q)
    BY <1>1, LoginOpens, RefreshOpens, LogoutOpens DEF Tokens
<1>2. CASE Passwords(q)
    BY <1>2, ChangePasswordOpens, ForgotPasswordOpens DEF Passwords
<1>3. CASE Verify(q)
    BY <1>3, VerifyOpens
<1>4. CASE Administer(q)
    <2>1. PICK a \in Users : /\ May(a)
                             /\ \/ CreateUser(q, a) \/ UserStates(q, a) \/ UserRoles(q, a)
                                \/ CreateRole(q, a) \/ RoleRoutes(q, a) \/ OverrideRoutes(q, a)
        BY <1>4 DEF Administer
    <2>2. Exists(a)
        BY <2>1, CanLoginExists DEF May
    <2> QED BY <2>1, <2>2, CreateUserOpens, UserStatesOpen, UserRolesOpen, CreateRoleOpens, RoleRoutesOpen, OverrideRoutesOpen
<1> QED BY <1>1, <1>2, <1>3, <1>4 DEF Serve

(* The cache is emptied; open requests lose their flag. *)
LEMMA FlushWell ==
    ASSUME IInv, Flush
    PROVE  IInv'
<1>1. /\ perms' = Forgotten /\ mark' = [u \in Users |-> FALSE] /\ attempts' = [u \in Users |-> 0]
      /\ UNCHANGED <<user, held, role, override, session>>
      /\ DOMAIN req' = Requests
      /\ \A q \in Requests : req'[q] = req[q] \/ req'[q] = [req[q] EXCEPT !.alone = FALSE]
    BY DEF Flush, stored
<1>2. \A q \in Requests : DOMAIN req[q] = Fields /\ Fits(user, req[q]) /\ Rotates(session, req[q])
    BY DEF IInv, Fits
<1>3. \A q \in Requests : /\ Fits(user, req'[q]) /\ Rotates(session, req'[q])
                          /\ req'[q].op = req[q].op /\ req'[q].on = req[q].on /\ req'[q].slot = req[q].slot
    <2> SUFFICES ASSUME NEW q \in Requests
                 PROVE  /\ Fits(user, req'[q]) /\ Rotates(session, req'[q])
                        /\ req'[q].op = req[q].op /\ req'[q].on = req[q].on /\ req'[q].slot = req[q].slot
        OBVIOUS
    <2>1. CASE req'[q] = req[q]
        BY <2>1, <1>2
    <2>2. CASE req'[q] = [req[q] EXCEPT !.alone = FALSE]
        BY <2>2, <1>2, FlagOnly
    <2> QED BY <1>1, <2>1, <2>2
<1>4. \A p, q \in Requests : p # q => Apart(p, q)'
    BY <1>3 DEF IInv, Apart
<1>5. \A s \in Slots : session'[s].life = "pending" <=> \E q \in Requests : req'[q].slot = s
    BY <1>1, <1>3 DEF IInv, TypeOK
<1>6. Forgotten \in [Users -> (SUBSET Permissions) \cup {Unknown}]
    BY DEF Forgotten
<1>7. attempts' \in [Users -> 0..Limit] /\ mark' \in [Users -> BOOLEAN]
    BY <1>1, BoundsAssumption
<1>8. TypeOK'
    BY <1>1, <1>5, <1>6, <1>7 DEF IInv, TypeOK, Exists
<1>9. Registered(user') /\ Cached(user', perms') /\ Spent(session') /\ Once(session')
    BY <1>1, <1>6 DEF IInv, Cached, Forgotten
<1> QED BY <1>1, <1>3, <1>4, <1>8, <1>9 DEF IInv

LEMMA CountsWell ==
    ASSUME IInv, FailLogin \/ WindowPasses
    PROVE  IInv'
<1>1. UNCHANGED <<user, held, role, override, session, perms, mark, req>>
    BY DEF FailLogin, WindowPasses, stored
<1>2. attempts' \in [Users -> 0..Limit]
    <2>1. PICK u \in Users : \/ attempts[u] < Limit /\ attempts' = [attempts EXCEPT ![u] = @ + 1]
                             \/ attempts' = [attempts EXCEPT ![u] = 0]
        BY DEF FailLogin, WindowPasses
    <2>2. attempts \in [Users -> 0..Limit] /\ Limit \in Nat
        BY BoundsAssumption DEF IInv, TypeOK
    <2>3. attempts[u] < Limit => attempts[u] + 1 \in 0..Limit
        BY <2>2
    <2> QED BY <2>1, <2>2, <2>3
<1>3. TypeOK'
    BY <1>1, <1>2 DEF IInv, TypeOK, Exists
<1>4. \A p, q \in Requests : p # q => Apart(p, q)'
    BY <1>1 DEF IInv, Apart
<1> QED BY <1>1, <1>3, <1>4 DEF IInv

LEMMA NextIInv ==
    ASSUME IInv, [Next]_vars
    PROVE  IInv'
<1>1. ASSUME NEW q \in Requests, Accepts(q), Serve(q)
      PROVE  IInv'
    BY <1>1, ServeOpens, BeginsWell
<1>2. ASSUME NEW q \in Requests, Commit(q) \/ Rollback(q) \/ StorePermissions(q)
      PROVE  IInv'
    BY <1>2, CommitWell, RollbackWell, StoreWell
<1>3. CASE UNCHANGED vars
    <2>1. UNCHANGED <<user, held, role, override, session, perms, mark, attempts, req>>
        BY <1>3 DEF vars
    <2>2. TypeOK'
        BY <2>1 DEF IInv, TypeOK, Exists
    <2>3. \A p, q \in Requests : p # q => Apart(p, q)'
        BY <2>1 DEF IInv, Apart
    <2> QED BY <2>1, <2>2, <2>3 DEF IInv
<1> QED BY <1>1, <1>2, <1>3, FlushWell, CountsWell DEF Next

(* The invariant of the accounts: every request that is open will write    *)
(* rows that fit the tables whatever commits before it, the session it     *)
(* makes is its own, and what came from a rotated session did so once.     *)
THEOREM Invariance == Spec => []IInv
<1>1. IInv /\ [Next]_vars => IInv'
    BY NextIInv
<1> QED BY InitIInv, <1>1, PTL DEF Spec

(* SessionsAreSound: types hold, and a refresh token buys one session at   *)
(* most, however many requests present it (auth/service.py refresh, the    *)
(* unique index on blacklisted token ids).                                 *)
THEOREM SessionsHold == Spec => []SessionsAreSound
<1>1. IInv => SessionsAreSound
    <2> SUFFICES ASSUME IInv PROVE SessionsAreSound
        OBVIOUS
    <2>1. ASSUME NEW s \in Slots, NEW t \in Slots, s # t,
                 {session[s].life, session[t].life} \cap {"none", "pending"} = {}, session[s].from # "none"
          PROVE  session[s].from # session[t].from
        <3>1. session[s].life \in Lasting /\ session[t].life \in Lasting
            <4>1. session[s] \in Session /\ session[t] \in Session
                BY DEF IInv, TypeOK
            <4>2. \A l \in {session[s].life, session[t].life} : l \notin {"none", "pending"}
                BY <2>1
            <4>3. \A x \in Session : x.life \in {"none", "pending"} \cup Lasting
                BY DEF Session, Lasting
            <4> QED BY <4>1, <4>2, <4>3
        <3>2. s \in Committed(session) /\ t \in Committed(session)
            BY <3>1 DEF Committed, Lasting
        <3> QED BY <2>1, <3>2 DEF IInv, Once
    <2> QED BY <2>1 DEF SessionsAreSound, RotatedOnce, IInv
<1> QED BY <1>1, Invariance, PTL

LEMMA ShutOutStep ==
    ASSUME IInv, [Next]_vars, NEW u \in Users, ~user[u].active, Exists(u), CanLogin(u)'
    PROVE  \E q \in Requests : req[q].op \in {"activate", "unlock"} /\ req[q].on = u /\ req'[q] = Idle
<1>1. user'[u].active
    BY DEF CanLogin
<1>2. user' # user
    BY <1>1
<1>3. PICK q \in Requests : Commit(q)
    <2>1. ASSUME NEW q \in Requests, Accepts(q), Serve(q) PROVE user' = user
        BY <2>1, ServeOpens DEF Opening, Begin, stored
    <2>2. ASSUME NEW q \in Requests, Rollback(q) \/ StorePermissions(q) PROVE user' = user
        BY <2>2 DEF Rollback, StorePermissions, stored
    <2>3. UNCHANGED vars \/ FailLogin \/ WindowPasses \/ Flush => user' = user
        BY DEF vars, FailLogin, WindowPasses, Flush, stored
    <2> QED BY <1>2, <2>1, <2>2, <2>3 DEF Next
<1>4. req'[q] = Idle /\ user' = UserWritten(req[q]) /\ req[q].op # "none" /\ Admitted(req[q])
    BY <1>3 DEF Commit, IInv
<1>5. req[q].on = u /\ req[q].op \in {"createUser", "activate", "unlock"}
    BY <1>1, <1>4, UserIs
<1>6. req[q].op # "createUser"
    BY <1>5 DEF IInv, Fits, Finds, Exists
<1> QED BY <1>4, <1>5, <1>6

(* StaysShutOut: whoever was suspended or deactivated comes back only by   *)
(* a commit that activates or unlocks that account; no reset of a password *)
(* and no other request, begun before or after, brings the account back    *)
(* (users/service.py writes only the columns it changes).                  *)
THEOREM ShutOutHolds == Spec => StaysShutOut
<1>1. IInv /\ [Next]_vars => [\A u \in Users : ~user[u].active /\ Exists(u) /\ CanLogin(u)' =>
            \E q \in Requests : req[q].op \in {"activate", "unlock"} /\ req[q].on = u /\ req'[q] = Idle]_vars
    BY ShutOutStep
<1> QED BY <1>1, Invariance, PTL DEF Spec, StaysShutOut

-----------------------------------------------------------------------------
(* What a request that runs alone relies on. *)
LEMMA FlagReady ==
    ASSUME NEW x, DOMAIN x = Fields, NEW b, NEW S, NEW C, NEW M, Ready(S, C, M, x)
    PROVE  Ready(S, C, M, [x EXCEPT !.alone = b]) /\ [x EXCEPT !.alone = b].alone = b
<1>1. PICK y : y = [x EXCEPT !.alone = b]
    OBVIOUS
<1>2. /\ y.op = x.op /\ y.on = x.on /\ y.revoke = x.revoke /\ y.role = x.role /\ y.set = x.set /\ y.alone = b
    BY <1>1 DEF Fields
<1>3. Refuses(S, M, y)
    BY <1>2 DEF Ready, Refuses
<1>4. Forgets(C, y) /\ ReadsTrue(y)
    BY <1>2 DEF Ready, Forgets, ReadsTrue
<1>5. Spares(y)
    BY <1>2 DEF Ready, Spares
<1> QED BY <1>1, <1>2, <1>3, <1>4, <1>5 DEF Ready

(* Ready speaks of stored tables that no beginning changes. *)
LEMMA ReadyStays ==
    ASSUME UNCHANGED <<user, held, role, override>>, NEW r,
           Ready(session', perms', mark', r)
    PROVE  Ready(session, perms, mark, r)'
<1>1. ReadsTrue(r) => ReadsTrue(r)'
    BY DEF ReadsTrue, Effective, LiveRole
<1>2. Spares(r) => Spares(r)'
    BY DEF Spares, Governs, IsSuper
<1> QED BY <1>1, <1>2 DEF Ready, Refuses, Forgets

LEMMA BeginsSolo ==
    ASSUME IInv, NEW q \in Requests, NEW r, Opening(q, r)
    PROVE  SoloInv'
<1>1. UNCHANGED <<user, held, role, override>>
    BY DEF Opening, Begin, stored
<1>2. PICK b \in BOOLEAN : b = \A o \in Requests : req[o] = Idle
    OBVIOUS
<1>3. /\ req'[q] = [r EXCEPT !.alone = b]
      /\ \A o \in Requests \ {q} :
            /\ req[o] = Idle => req'[o] = Idle
            /\ req[o] # Idle => req'[o] = [req[o] EXCEPT !.alone = FALSE]
    BY <1>2 DEF Opening, Begin
<1>4. DOMAIN r = Fields /\ Ready(session', perms', mark', r) /\ \A o \in Requests : DOMAIN req[o] = Fields
    BY DEF Opening, Fits, IInv
<1>5. Ready(session', perms', mark', req'[q]) /\ req'[q].alone = b
    BY <1>3, <1>4, FlagReady
<1>6. \A o \in Requests \ {q} : req'[o].op = "none" \/ ~req'[o].alone
    <2> SUFFICES ASSUME NEW o \in Requests \ {q} PROVE req'[o].op = "none" \/ ~req'[o].alone
        OBVIOUS
    <2>1. CASE req[o] = Idle
        BY <2>1, <1>3, IdleFits
    <2>2. CASE req[o] # Idle
        BY <2>2, <1>3, <1>4 DEF Fields
    <2> QED BY <2>1, <2>2
<1>7. PICK z : z = req'[q]
    OBVIOUS
<1>8. Ready(session, perms, mark, z)'
    BY <1>1, <1>5, <1>7, ReadyStays
<1>9. b => \A o \in Requests \ {q} : req'[o] = Idle
    BY <1>2, <1>3
<1> QED BY <1>5, <1>6, <1>7, <1>8, <1>9 DEF SoloInv

(* The end of another request: there is none while one runs alone. *)
LEMMA EndsSolo ==
    ASSUME IInv, SoloInv, NEW q \in Requests, req[q].op # "none", req' = [req EXCEPT ![q] = Idle]
    PROVE  SoloInv'
<1>1. req'[q] = Idle /\ \A o \in Requests \ {q} : req'[o] = req[o]
    BY DEF IInv
<1>2. \A o \in Requests : req'[o].op = "none" \/ ~req'[o].alone
    <2> SUFFICES ASSUME NEW o \in Requests, req'[o].op # "none", req'[o].alone PROVE FALSE
        OBVIOUS
    <2>1. o # q
        BY <1>1, IdleFits
    <2>2. req[q] = Idle
        BY <1>1, <2>1 DEF SoloInv
    <2> QED BY <2>2, IdleFits
<1> QED BY <1>2 DEF SoloInv

LEMMA NextSolo ==
    ASSUME IInv, SoloInv, [Next]_vars
    PROVE  SoloInv'
<1>1. ASSUME NEW q \in Requests, Accepts(q), Serve(q)
      PROVE  SoloInv'
    BY <1>1, ServeOpens, BeginsSolo
<1>2. ASSUME NEW q \in Requests, Commit(q) \/ Rollback(q) \/ StorePermissions(q)
      PROVE  SoloInv'
    <2>1. req[q].op # "none" /\ req' = [req EXCEPT ![q] = Idle]
        BY <1>2 DEF Commit, Rollback, StorePermissions
    <2> QED BY <2>1, EndsSolo
<1>3. CASE Flush
    <2>1. \A q \in Requests : DOMAIN req[q] = Fields
        BY DEF IInv, Fits
    <2>2. \A q \in Requests : req'[q].op = "none" \/ ~req'[q].alone
        <3> SUFFICES ASSUME NEW q \in Requests PROVE req'[q].op = "none" \/ ~req'[q].alone
            OBVIOUS
        <3>1. req'[q] = IF req[q] = Idle THEN Idle ELSE [req[q] EXCEPT !.alone = FALSE]
            BY <1>3 DEF Flush
        <3>2. CASE req[q] = Idle
            BY <3>1, <3>2, IdleFits
        <3>3. CASE req[q] # Idle
            BY <2>1, <3>1, <3>3 DEF Fields
        <3> QED BY <3>2, <3>3
    <2> QED BY <2>2 DEF SoloInv
<1>4. CASE UNCHANGED vars \/ FailLogin \/ WindowPasses
    <2>1. UNCHANGED <<user, held, role, override, session, perms, mark, req>>
        BY <1>4 DEF vars, FailLogin, WindowPasses, stored
    <2>2. ASSUME NEW q \in Requests, Ready(session, perms, mark, req[q])
          PROVE  Ready(session, perms, mark, req[q])'
        <3>1. PICK z : z = req[q]
            OBVIOUS
        <3>2. Ready(session', perms', mark', z)
            BY <2>1, <2>2, <3>1
        <3>3. Ready(session, perms, mark, z)'
            BY <2>1, <3>2, ReadyStays
        <3> QED BY <2>1, <3>1, <3>3
    <2> QED BY <2>1, <2>2 DEF SoloInv
<1> QED BY <1>1, <1>2, <1>3, <1>4 DEF Next

(* A request that runs alone keeps what it relied on until it ends: no     *)
(* accepted token of whom it forces out, no cached permissions of whom it  *)
(* changes, and another active super administrator.                        *)
THEOREM SoloInvariance == Spec => []SoloInv
<1>1. Init => SoloInv
    BY IdleFits DEF Init, SoloInv
<1>2. IInv /\ SoloInv /\ [Next]_vars => SoloInv'
    BY NextSolo
<1> QED BY <1>1, <1>2, Invariance, PTL DEF Spec

(* The steps that end a request. *)
Ends(q) == Commit(q) \/ Rollback(q) \/ StorePermissions(q)
LEMMA SoloEnds ==
    ASSUME IInv, SoloInv, [Next]_vars, NEW q \in Requests, EndsAlone(q)
    PROVE  Ends(q) /\ Ready(session, perms, mark, req[q])
<1>1. req[q].op # "none" /\ req'[q] = Idle /\ req'[q] # req[q] /\ req[q] # Idle
    BY IdleFits DEF EndsAlone
<1>2. ~(UNCHANGED vars \/ FailLogin \/ WindowPasses)
    BY <1>1 DEF vars, FailLogin, WindowPasses
<1>3. DOMAIN req = Requests /\ \A o \in Requests : DOMAIN req[o] = Fields
    BY DEF IInv, Fits
<1>4. ~Flush
    <2> SUFFICES ASSUME Flush PROVE FALSE
        OBVIOUS
    <2>1. req'[q] = [req[q] EXCEPT !.alone = FALSE]
        BY <1>1 DEF Flush
    <2>2. req'[q].op = req[q].op
        BY <1>3, <2>1, FlagOnly
    <2> QED BY <1>1, <2>2, IdleFits
<1>5. ASSUME NEW o \in Requests, Accepts(o), Serve(o) PROVE FALSE
    <2>1. PICK r : Opening(o, r)
        BY <1>5, ServeOpens
    <2>2. o # q
        BY <1>1, <1>5 DEF Accepts
    <2>3. req'[q] = [req[q] EXCEPT !.alone = FALSE]
        BY <1>1, <2>1, <2>2 DEF Opening, Begin
    <2>4. req'[q].op = req[q].op
        BY <1>3, <2>3, FlagOnly
    <2> QED BY <1>1, <2>4, IdleFits
<1>6. PICK o \in Requests : Ends(o)
    BY <1>2, <1>4, <1>5 DEF Next, Ends
<1>7. o = q
    BY <1>1, <1>3, <1>6 DEF Ends, Commit, Rollback, StorePermissions
<1> QED BY <1>1, <1>6, <1>7 DEF SoloInv, EndsAlone

(* A rollback and a stored answer leave the tables as they are. *)
LEMMA UnlessCommit ==
    ASSUME NEW q, Ends(q), ~Commit(q)
    PROVE  UNCHANGED <<user, held, role, override>>
BY DEF Ends, Rollback, StorePermissions, stored

(* The permissions of a user change only with what a request of that user  *)
(* or of roles writes.                                                     *)
LEMMA EffectiveStays ==
    ASSUME IInv, NEW q \in Requests, Commit(q), NEW u \in Users, perms[u] # Unknown, Forgets(perms, req[q])
    PROVE  Effective(u)' = Effective(u)
<1>1. PICK r : r = req[q] /\ Fits(user, r)
    BY DEF IInv
<1>2. /\ held' = HeldWritten(r) /\ role' = RoleWritten(r) /\ override' = OverrideWritten(r)
    BY <1>1 DEF Commit
<1>3. r.op \notin OfRoles /\ (r.op \in OfOne => r.on # u)
    BY <1>1 DEF Forgets
<1>4. r.op = "createUser" => r.on # u
    BY <1>1 DEF IInv, Cached, Fits, Finds
<1>5. role' = role
    BY <1>2, <1>3 DEF RoleWritten, OfRoles
<1>6. held'[u] = held[u]
    <2>1. ~(r.op = "deleteRole" /\ u \in r.users) /\ ~(r.op \in {"createUser", "assign", "remove"} /\ u = r.on)
        BY <1>3, <1>4 DEF OfOne, OfRoles
    <2> QED BY <1>2, <2>1 DEF HeldWritten
<1>7. override'[u] = override[u]
    <2>1. CASE r.op \in {"override", "createUser"}
        <3>1. r.on # u
            BY <2>1, <1>3, <1>4 DEF OfOne
        <3>2. PICK new : new = [p \in Permissions |-> IF p \in DOMAIN r.set THEN r.set[p] ELSE override[r.on][p]]
            OBVIOUS
        <3>3. override' = [override EXCEPT ![r.on] = new]
            BY <1>2, <2>1, <3>2 DEF OverrideWritten
        <3>4. u \in DOMAIN override
            BY DEF IInv, TypeOK
        <3> QED BY <3>1, <3>3, <3>4
    <2>2. CASE r.op \notin {"override", "createUser"}
        BY <1>2, <2>2 DEF OverrideWritten
    <2> QED BY <2>1, <2>2
<1> QED BY <1>5, <1>6, <1>7 DEF Effective, LiveRole

(* SoloPermissions: however stale the cache has become through overlaps, a *)
(* request that runs alone leaves no cached permissions behind those in    *)
(* effect (rbac/service.py invalidate_user_permissions_cache,              *)
(* auth/service.py get_user_effective_permissions).                        *)
THEOREM SoloPermissionsHold == Spec => SoloPermissions
<1> DEFINE Body == \A q \in Requests, u \in Users :
        EndsAlone(q) /\ perms'[u] # Unknown =>
            \/ perms'[u] = Effective(u)'
            \/ perms'[u] = perms[u] /\ perms[u] # Effective(u)
<1>1. ASSUME IInv, SoloInv, [Next]_vars
      PROVE  Body
    <2> SUFFICES ASSUME NEW q \in Requests, NEW u \in Users, EndsAlone(q), perms'[u] # Unknown
                 PROVE  perms'[u] = Effective(u)' \/ (perms'[u] = perms[u] /\ perms[u] # Effective(u))
        OBVIOUS
    <2>1. Ends(q) /\ Ready(session, perms, mark, req[q])
        BY <1>1, SoloEnds
    <2>2. CASE Commit(q)
        <3>1. perms' = perms
            BY <2>2 DEF Commit
        <3>2. Effective(u)' = Effective(u)
            BY <1>1, <2>1, <2>2, <3>1, EffectiveStays DEF Ready
        <3> QED BY <3>1, <3>2
    <2>3. CASE Rollback(q) \/ (StorePermissions(q) /\ req[q].on # u)
        <3>1. perms'[u] = perms[u] /\ UNCHANGED <<user, held, role, override>>
            BY <1>1, <2>3 DEF Rollback, StorePermissions, stored, IInv, Cached
        <3>2. Effective(u)' = Effective(u)
            BY <3>1 DEF Effective, LiveRole
        <3> QED BY <3>1, <3>2
    <2>4. CASE StorePermissions(q) /\ req[q].on = u
        <3>1. /\ perms'[u] = req[q].set /\ req[q].op = "verify" /\ UNCHANGED <<user, held, role, override>>
            BY <1>1, <2>4 DEF StorePermissions, stored, IInv, Cached
        <3>2. req[q].set = Effective(u)
            BY <2>1, <2>4, <3>1 DEF Ready, ReadsTrue
        <3>3. Effective(u)' = Effective(u)
            BY <3>1 DEF Effective, LiveRole
        <3> QED BY <3>1, <3>2, <3>3
    <2> QED BY <2>1, <2>2, <2>3, <2>4 DEF Ends
<1>2. IInv /\ SoloInv /\ [Next]_vars => [Body]_vars
    BY <1>1
<1>3. SoloPermissions <=> [][Body]_vars
    BY DEF SoloPermissions
<1> QED BY <1>2, <1>3, Invariance, SoloInvariance, PTL DEF Spec

(* SoloShutOut: a forced logout, a suspension, a deactivation or a new     *)
(* password leaves no session and no accepted token of the user, whatever  *)
(* sessions the user had (auth/service.py force_logout_user).              *)
THEOREM SoloShutOutHolds == Spec => SoloShutOut
<1> DEFINE Body == \A q \in Requests :
        EndsAlone(q) /\ req[q].op \in {"forceLogout", "suspend", "deactivate", "reset", "changePassword"} =>
            \A s \in Slots : session[s].user = req[q].on => session'[s].life # "active" /\ ~Accepted(s)'
<1>1. ASSUME IInv, SoloInv, [Next]_vars
      PROVE  Body
    <2> SUFFICES ASSUME NEW q \in Requests, EndsAlone(q), req[q].op \in Outs, NEW s \in Slots, session[s].user = req[q].on
                 PROVE  session'[s].life # "active" /\ ~Accepted(s)'
        BY DEF Outs
    <2>1. Ends(q) /\ Ready(session, perms, mark, req[q])
        BY <1>1, SoloEnds
    <2>2. PICK r : r = req[q]
        OBVIOUS
    <2>3. mark[r.on] /\ session[s].access # "live" /\ (session[s].life = "active" => s \in r.revoke)
        BY <2>1, <2>2 DEF Ready, Refuses
    <2>4. Commit(q)
        BY <2>1 DEF Ends, Rollback, StorePermissions, Admitted, Outs
    <2>5. session' = SessionWritten(r) /\ mark' = mark
        BY <2>2, <2>4 DEF Commit
    <2>6. r.slot # s
        <3>1. r.slot = "none"
            BY <1>1, <2>2 DEF IInv, Rotates, Outs
        <3> QED BY <3>1, NamesAssumption
    <2>7. ~(s = r.old /\ r.op \in {"refresh", "logout"})
        BY <2>2 DEF Outs
    <2>8. PICK w \in Session : w = session[s]
        BY <1>1 DEF IInv, TypeOK
    <2>9. PICK x : x = Turned(w, "revoked")
        OBVIOUS
    <2>10. x.life = "revoked" /\ x.user = w.user /\ x.access = w.access
        BY <2>9 DEF Turned, Session
    <2>11. /\ w.life = "active" => session'[s] = x
           /\ w.life # "active" => session'[s] = w
        BY <2>2, <2>3, <2>5, <2>6, <2>7, <2>8, <2>9, SessionRow
    <2>12. session'[s].life # "active" /\ session'[s].user = r.on /\ session'[s].access # "live"
        BY <2>2, <2>3, <2>8, <2>10, <2>11
    <2>13. mark'[session'[s].user]
        BY <2>3, <2>5, <2>12
    <2> QED BY <2>12, <2>13 DEF Accepted
<1>2. IInv /\ SoloInv /\ [Next]_vars => [Body]_vars
    BY <1>1
<1>3. SoloShutOut <=> [][Body]_vars
    BY DEF SoloShutOut
<1> QED BY <1>2, <1>3, Invariance, SoloInvariance, PTL DEF Spec

(* What a commit leaves of a super administrator. *)
LEMMA HeldSuper ==
    ASSUME IInv, NEW q \in Requests, Commit(q), NEW v \in Users, IsSuper(v),
           v = req[q].on => ~(req[q].op = "remove" /\ req[q].role = Super)
    PROVE  Super \in held'[v]
<1>1. PICK r : r = req[q] /\ FitsTables(r)
    BY DEF IInv, Fits
<1>2. held' = HeldWritten(r)
    BY <1>1 DEF Commit
<1>3. CASE r.op = "deleteRole" /\ v \in r.users
    <2>1. held'[v] = (held[v] \cup (IF r.put[v] THEN {r.to} ELSE {})) \ {r.role}
        BY <1>2, <1>3 DEF HeldWritten
    <2> QED BY <1>1, <1>3, <2>1 DEF FitsTables, IsSuper
<1>4. CASE r.op \in {"createUser", "assign", "remove"} /\ v = r.on
    <2>1. held'[v] = (held[v] \cup r.roles) \ {r.role}
        BY <1>2, <1>4 DEF HeldWritten
    <2>2. r.role # Super
        BY <1>1, <1>4 DEF FitsTables
    <2> QED BY <2>1, <2>2 DEF IsSuper
<1>5. CASE ~(r.op = "deleteRole" /\ v \in r.users) /\ ~(r.op \in {"createUser", "assign", "remove"} /\ v = r.on)
    <2>1. held'[v] = held[v]
        BY <1>2, <1>5 DEF HeldWritten
    <2> QED BY <2>1 DEF IsSuper
<1> QED BY <1>3, <1>4, <1>5

LEMMA StaysActive ==
    ASSUME IInv, NEW q \in Requests, Commit(q), NEW v \in Users, user[v].active,
           v = req[q].on => req[q].op \notin {"suspend", "deactivate"}
    PROVE  user'[v].active
<1>1. PICK r : r = req[q] /\ (r.op \in RowOps => FitsRow(r))
    BY DEF IInv, Fits
<1>2. user' = UserWritten(r) /\ user \in [Users -> Account]
    BY <1>1 DEF Commit, IInv, TypeOK
<1>3. CASE r.op \in RowOps /\ v = r.on
    <2>1. PICK row : row = [f \in DOMAIN Nobody |-> IF f \in DOMAIN r.put THEN r.put[f] ELSE user[v][f]]
        OBVIOUS
    <2>2. user' = [user EXCEPT ![v] = row]
        BY <1>2, <1>3, <2>1 DEF UserWritten
    <2>3. user'[v] = row
        BY <1>2, <2>2
    <2>4. DOMAIN Nobody = Columns
        BY DEF Nobody, Columns
    <2>5. row.active = IF "active" \in DOMAIN r.put THEN r.put["active"] ELSE user[v].active
        BY <2>1, <2>4 DEF Columns
    <2>6. "active" \in DOMAIN r.put => r.put["active"] = TRUE
        BY <1>1, <1>3 DEF FitsRow
    <2> QED BY <2>3, <2>5, <2>6
<1>4. CASE r.op \notin RowOps \/ v # r.on
    BY <1>2, <1>4 DEF UserWritten
<1> QED BY <1>3, <1>4

(* SoloAdmin: no request that runs alone takes the last active super       *)
(* administrator, whichever route it comes by (users/service.py            *)
(* _ensure_not_last_super_admin).                                          *)
THEOREM SoloAdminHolds == Spec => SoloAdmin
<1> DEFINE Body == \A q \in Requests :
        EndsAlone(q) /\ (\E u \in Users : IsSuper(u) /\ user[u].active) =>
            \E u \in Users : Super \in held'[u] /\ user'[u].active
<1>1. ASSUME IInv, SoloInv, [Next]_vars
      PROVE  Body
    <2> SUFFICES ASSUME NEW q \in Requests, EndsAlone(q), NEW u \in Users, Governs(u)
                 PROVE  \E v \in Users : Super \in held'[v] /\ user'[v].active
        BY DEF Governs
    <2>1. Ends(q) /\ Ready(session, perms, mark, req[q])
        BY <1>1, SoloEnds
    <2>2. CASE Commit(q)
        <3>1. PICK v \in Users :
                /\ Governs(v)
                /\ v = req[q].on => /\ req[q].op \notin {"suspend", "deactivate"}
                                    /\ ~(req[q].op = "remove" /\ req[q].role = Super)
            BY <2>1 DEF Ready, Spares
        <3>2. IsSuper(v) /\ user[v].active
            BY <3>1 DEF Governs
        <3>3. Super \in held'[v]
            BY <1>1, <2>2, <3>1, <3>2, HeldSuper
        <3>4. user'[v].active
            BY <1>1, <2>2, <3>1, <3>2, StaysActive
        <3> QED BY <3>3, <3>4
    <2>3. CASE ~Commit(q)
        BY <2>1, <2>3, UnlessCommit DEF Governs, IsSuper
    <2> QED BY <2>2, <2>3
<1>2. IInv /\ SoloInv /\ [Next]_vars => [Body]_vars
    BY <1>1
<1>3. SoloAdmin <=> [][Body]_vars
    BY DEF SoloAdmin
<1> QED BY <1>2, <1>3, Invariance, SoloInvariance, PTL DEF Spec
================================================================================
