----------------------------- MODULE Accounts -----------------------------
(***************************************************************************)
(* Accounts, sessions, roles and permissions (auth/, users/, rbac/) with   *)
(* the cache of effective permissions and the marks of forced logouts.     *)
(*                                                                         *)
(* A request checks its caller, reads, checks, and touches the cache in    *)
(* its first action; its transaction commits in a second one, and fails    *)
(* there if a unique index has been filled in the meantime.                *)
(***************************************************************************)
EXTENDS Naturals, FiniteSets

CONSTANTS
    Users,          \* people, and slots for more
    Bootstrap,      \* the one bootstrap administrator
    Roles,          \* "super_admin", "user" and others
    Permissions,    \* "act", which administration requires, and others
    Slots,          \* slots for sessions
    Requests,       \* requests that may be open at once
    Scenes,         \* what the database starts from
    Limit,          \* failed logins that the rate limiter bears
    Budget          \* how many requests are served

ASSUME BootstrapAssumption == Bootstrap \in Users /\ IsFiniteSet(Users)
ASSUME RolesAssumption == {"super_admin", "user"} \subseteq Roles /\ "act" \in Permissions
ASSUME NamesAssumption == "none" \notin Slots
ASSUME BoundsAssumption == Limit \in Nat \ {0} /\ Budget \in Nat

VARIABLES
    user,           \* user[u]: the columns that decide about a login
    held,           \* held[u]: the roles of u
    role,           \* role[r]: whether r exists, and what it permits
    override,       \* override[u][p]: an individual grant or denial
    session,        \* session[s]: a session and the access token given with it
    perms,          \* perms[u]: cached effective permissions
    mark,           \* mark[u]: whether the cache holds a forced logout of u
    attempts,       \* attempts[u]: failed logins in the rate limiter's window
    req,            \* req[q]: the request q serves
    served          \* how many requests have begun

vars == <<user, held, role, override, session, perms, mark, attempts, req, served>>
stored == <<user, held, role, override>>

Super == "super_admin"
Default == "user"
System == {Super, Default}

Statuses == {"none", "active", "inactive", "suspended", "changeRequired"}
Account == [status : Statuses, active : BOOLEAN, login : BOOLEAN, mustChange : BOOLEAN]
Role == [life : {"none", "live", "trashed"}, perms : SUBSET Permissions]
Session == [life : {"none", "pending", "active", "revoked", "spent"}, user : Users,
            access : {"none", "live", "marked", "blacklisted"}, from : Slots \cup {"none"}]

Nobody == [status |-> "none", active |-> FALSE, login |-> FALSE, mustChange |-> FALSE]
NoSession == [life |-> "none", user |-> Bootstrap, access |-> "none", from |-> "none"]
Unknown == {"unknown"}
NoOverride == [p \in Permissions |-> "none"]
Idle == [op |-> "none", on |-> Bootstrap, put |-> <<>>, roles |-> {}, role |-> "none", to |-> "none",
         set |-> <<>>, slot |-> "none", old |-> "none", revoke |-> {}, users |-> {}, alone |-> TRUE]

-----------------------------------------------------------------------------
(* What queries find *)

Exists(u) == user[u].status # "none"
LiveRole(r) == role[r].life = "live"
IsSuper(u) == Super \in held[u]

(* can_login.  No account is ever locked: the counter of failed logins is  *)
(* rolled back with the request that raises.                               *)
CanLogin(u) == user[u].login /\ user[u].active /\ user[u].status \in {"active", "changeRequired"}

(* get_permission_codes_for_user *)
Effective(u) ==
    IF Super \in held[u] /\ LiveRole(Super) THEN Permissions
    ELSE ((UNION {role[r].perms : r \in {h \in held[u] : LiveRole(h)}})
            \cup {p \in Permissions : override[u][p] = "grant"})
         \ {p \in Permissions : override[u][p] = "deny"}

(* The cached permissions, read through. *)
Known(u) == IF perms[u] = Unknown THEN Effective(u) ELSE perms[u]
Filled(u) == [perms EXCEPT ![u] = Known(u)]

(* verify_access_token *)
Accepted(s) ==
    /\ session[s].life \in {"active", "revoked", "spent"}
    /\ \/ session[s].access = "live"
       \/ session[s].access = "marked" /\ ~mark[session[s].user]
    /\ CanLogin(session[s].user)
SignedIn(a) == \E s \in Slots : session[s].user = a /\ Accepted(s)

(* get_current_user and require_permission *)
May(a) == SignedIn(a) /\ ~user[a].mustChange /\ "act" \in Known(a)

-----------------------------------------------------------------------------
(* Requests *)

Accepts(q) == req[q] = Idle /\ served < Budget

Begin(q, request) ==
    /\ served' = served + 1
    /\ LET quiet == \A o \in Requests : req[o] = Idle
       IN  req' = [o \in Requests |->
                    IF o = q THEN [request EXCEPT !.alone = quiet]
                    ELSE IF req[o] = Idle THEN Idle ELSE [req[o] EXCEPT !.alone = FALSE]]
    /\ UNCHANGED stored

(* (mutant) Every column is written, as it was when the row was loaded. *)
Rewritten(u, new) == [f \in DOMAIN user[u] |-> IF f \in DOMAIN new THEN new[f] ELSE user[u][f]]
(* A function given at one point. *)
At(x, v) == [y \in {x} |-> v]
(* The columns of a row that an assignment changes; the others are left    *)
(* out of the UPDATE.                                                      *)
Changed(u, new) == [f \in {g \in DOMAIN new : new[g] # user[u][g]} |-> new[f]]

(* A new pair of tokens for u; the client gets it when the request ends.   *)
Issued(s, u, old) ==
    [session EXCEPT ![s] = [life |-> "pending", user |-> u, access |-> "live", from |-> old]]
Free == {s \in Slots : session[s] = NoSession}
NextFree == CHOOSE s \in Free : TRUE

Login(q) == \E u \in Users :
    /\ attempts[u] < Limit
    /\ CanLogin(u)
    /\ Free # {}
    /\ session' = Issued(NextFree, u, "none")
    /\ mark' = [mark EXCEPT ![u] = FALSE]
    /\ perms' = Filled(u)
    /\ Begin(q, [Idle EXCEPT !.op = "login", !.on = u, !.slot = NextFree])
    /\ UNCHANGED attempts

(* A wrong password, or an account that may not log in: only the rate      *)
(* limiter remembers it.                                                   *)
FailLogin == \E u \in Users :
    /\ user[u].login
    /\ attempts[u] < Limit
    /\ attempts' = [attempts EXCEPT ![u] = @ + 1]
    /\ served' = served + 1
    /\ UNCHANGED <<stored, session, perms, mark, req>>
WindowPasses == \E u \in Users :
    /\ attempts[u] > 0
    /\ attempts' = [attempts EXCEPT ![u] = 0]
    /\ UNCHANGED <<stored, session, perms, mark, req, served>>

Refresh(q) == \E s \in Slots :
    /\ session[s].life = "active"
    /\ CanLogin(session[s].user)
    /\ Free # {}
    /\ session' = Issued(NextFree, session[s].user, s)
    /\ perms' = Filled(session[s].user)
    /\ Begin(q, [Idle EXCEPT !.op = "refresh", !.on = session[s].user, !.slot = NextFree, !.old = s])
    /\ UNCHANGED <<mark, attempts>>

(* The access token need only be genuine, not accepted. *)
Logout(q) == \E s \in Slots :
    /\ session[s].life \in {"active", "revoked", "spent"}
    /\ Begin(q, [Idle EXCEPT !.op = "logout", !.on = session[s].user, !.old = s,
                    !.put = [access |-> session[s].access # "blacklisted", session |-> session[s].life = "active"]])
    /\ UNCHANGED <<session, perms, mark, attempts>>

(* force_logout_user: the sessions the UPDATE sees, and a mark that        *)
(* refuses every token issued so far.                                      *)
Sessions(u) == {s \in Slots : session[s].user = u /\ session[s].life = "active"}
Marked(u) == [s \in Slots |->
    IF session[s].user = u /\ session[s].access = "live" THEN [session[s] EXCEPT !.access = "marked"] ELSE session[s]]
(* (mutant) The access tokens stay valid until they expire. *)
ForcesSessionsOut(q, u, request) ==
    /\ Begin(q, [request EXCEPT !.on = u, !.revoke = Sessions(u)])
    /\ UNCHANGED <<session, mark, attempts>>
ForcesOut(q, u, request) ==
    /\ Begin(q, [request EXCEPT !.on = u, !.revoke = Sessions(u)])
    /\ mark' = [mark EXCEPT ![u] = TRUE]
    /\ session' = Marked(u)
    /\ UNCHANGED attempts

ChangePassword(q) == \E u \in Users :
    LET new == [mustChange |-> FALSE, status |-> IF user[u].status = "changeRequired" THEN "active" ELSE user[u].status]
    IN  /\ SignedIn(u)
        /\ perms' = Filled(u)
        /\ ForcesOut(q, u, [Idle EXCEPT !.op = "changePassword", !.put = Changed(u, new)])

ForgotPassword(q) == \E u \in Users :
    /\ user[u].login
    /\ Begin(q, [Idle EXCEPT !.op = "forgot", !.on = u,
                    !.put = Changed(u, [mustChange |-> TRUE, status |-> "changeRequired"])])
    /\ UNCHANGED <<session, perms, mark, attempts>>

(* Any other request of a user who is signed in: the permissions it read   *)
(* are cached in a second step.                                            *)
Verify(q) == \E u \in Users :
    /\ SignedIn(u)
    /\ perms[u] = Unknown
    /\ Begin(q, [Idle EXCEPT !.op = "verify", !.on = u, !.set = Effective(u)])
    /\ UNCHANGED <<session, perms, mark, attempts>>
StorePermissions(q) ==
    /\ req[q].op = "verify"
    /\ perms' = [perms EXCEPT ![req[q].on] = req[q].set]
    /\ req' = [req EXCEPT ![q] = Idle]
    /\ UNCHANGED <<stored, session, mark, attempts, served>>

-----------------------------------------------------------------------------
(* Administration of users *)

(* Only a super administrator changes one. *)
Outranks(a, u) == IsSuper(u) => IsSuper(a)

(* (mutant) Accounts that are not active count. *)
NotLastHolder(u) == IsSuper(u) => Cardinality({v \in Users : IsSuper(v)}) > 1
(* _ensure_not_last_super_admin *)
NotLastSuper(u) == IsSuper(u) => Cardinality({v \in Users : IsSuper(v) /\ user[v].active}) > 1

Administers(q, a, request) ==
    /\ Begin(q, request)
    /\ UNCHANGED <<session, mark, attempts>>

(* Roles that may be handed to u. *)
Assignable(u) == {r \in Roles : LiveRole(r) /\ (r = Super => u = Bootstrap)}

CreateUser(q, a) == \E u \in Users, login \in BOOLEAN, granted \in {{}, {"act"}} :
    \E roles \in SUBSET Assignable(u) :
        LET given == IF roles = {} /\ LiveRole(Default) THEN {Default} ELSE roles
        IN  /\ ~Exists(u)
            /\ \A o \in Requests : req[o].on = u => req[o].op # "createUser"
            /\ perms' = Filled(a)
            /\ Administers(q, a, [Idle EXCEPT !.op = "createUser", !.on = u, !.roles = given,
                    !.set = [p \in granted |-> "grant"],
                    !.put = [status |-> IF login THEN "changeRequired" ELSE "inactive",
                             active |-> TRUE, login |-> login, mustChange |-> login]])

ResetPassword(q, a) == \E u \in Users, must \in BOOLEAN :
    LET new == IF must THEN [mustChange |-> TRUE, status |-> "changeRequired"] ELSE [mustChange |-> FALSE]
    IN  /\ user[u].login
        /\ Outranks(a, u)
        /\ perms' = Filled(a)
        /\ ForcesOut(q, u, [Idle EXCEPT !.op = "reset", !.put = Changed(u, new)])

Activate(q, a) == \E u \in Users :
    /\ Exists(u)
    /\ Outranks(a, u)
    /\ perms' = Filled(a)
    /\ Administers(q, a, [Idle EXCEPT !.op = "activate", !.on = u,
            !.put = Changed(u, [status |-> "active", active |-> TRUE])])

Deactivate(q, a) == \E u \in Users \ {a, Bootstrap} :
    /\ Exists(u)
    /\ Outranks(a, u)
    /\ NotLastSuper(u)
    /\ perms' = Filled(a)
    /\ ForcesOut(q, u, [Idle EXCEPT !.op = "deactivate", !.put = Changed(u, [status |-> "inactive", active |-> FALSE])])

Suspend(q, a) == \E u \in Users :
    /\ Exists(u)
    /\ Outranks(a, u)
    /\ NotLastSuper(u)
    /\ perms' = Filled(a)
    /\ ForcesOut(q, u, [Idle EXCEPT !.op = "suspend", !.put = Changed(u, [status |-> "suspended", active |-> FALSE])])

Unlock(q, a) == \E u \in Users :
    /\ Exists(u)
    /\ Outranks(a, u)
    /\ perms' = Filled(a)
    /\ Administers(q, a, [Idle EXCEPT !.op = "unlock", !.on = u, !.put = Changed(u, [active |-> TRUE])])

ForceLogout(q, a) == \E u \in Users :
    /\ Exists(u)
    /\ perms' = Filled(a)
    /\ ForcesOut(q, u, [Idle EXCEPT !.op = "forceLogout"])

AssignRole(q, a) == \E u \in Users : \E r \in Assignable(u) \ held[u] :
    /\ Exists(u)
    /\ perms' = [Filled(a) EXCEPT ![u] = Unknown]
    /\ Administers(q, a, [Idle EXCEPT !.op = "assign", !.on = u, !.roles = {r}])

(* The last role of a user gives way to the default one. *)
RemoveRole(q, a) == \E u \in Users : \E r \in held[u] :
    /\ LiveRole(r)
    /\ r = Super => IsSuper(a) /\ NotLastSuper(u)
    /\ perms' = [Filled(a) EXCEPT ![u] = Unknown]
    /\ Administers(q, a, [Idle EXCEPT !.op = "remove", !.on = u, !.role = r,
            !.roles = IF held[u] = {r} /\ LiveRole(Default) THEN {Default} \ {r} ELSE {}])

-----------------------------------------------------------------------------
(* Administration of roles and overrides *)

Forgotten == [u \in Users |-> Unknown]

CreateRole(q, a) == \E r \in Roles, granted \in SUBSET Permissions :
    /\ role[r].life = "none"
    /\ \A o \in Requests : req[o].role = r => req[o].op # "createRole"
    /\ perms' = Forgotten
    /\ Administers(q, a, [Idle EXCEPT !.op = "createRole", !.role = r, !.set = granted])

(* (mutant) The cached permissions of those who held the role stay. *)
DeleteRoleQuietly(q, a) == \E r \in Roles \ System, to \in Roles :
    LET holders == {u \in Users : r \in held[u]}
    IN  /\ LiveRole(r)
        /\ holders # {} => to # r /\ LiveRole(to)
        /\ perms' = Filled(a)
        /\ Administers(q, a, [Idle EXCEPT !.op = "deleteRole", !.role = r, !.to = to, !.users = holders,
                !.put = [u \in holders |-> to \notin held[u]]])

(* Its holders move to another role. *)
DeleteRole(q, a) == \E r \in Roles \ System, to \in Roles :
    LET holders == {u \in Users : r \in held[u]}
    IN  /\ LiveRole(r)
        /\ holders # {} => to # r /\ LiveRole(to)
        /\ perms' = Forgotten
        /\ Administers(q, a, [Idle EXCEPT !.op = "deleteRole", !.role = r, !.to = to, !.users = holders,
                !.put = [u \in holders |-> to \notin held[u]]])

(* Only links that are missing are inserted, only those found are deleted. *)
Regrants(q, a, r, granted) ==
    LET changes == {p \in DOMAIN granted : granted[p] # (p \in role[r].perms)}
    IN  /\ LiveRole(r)
        /\ perms' = Forgotten
        /\ Administers(q, a, [Idle EXCEPT !.op = "regrant", !.role = r,
                !.put = [inserts |-> {p \in changes : granted[p]}, updates |-> {}],
                !.set = [p \in changes |-> granted[p]]])
GrantPermission(q, a) == \E r \in Roles, p \in Permissions :
    (r = Super => IsSuper(a)) /\ Regrants(q, a, r, At(p, TRUE))
RevokePermission(q, a) == \E r \in Roles, p \in Permissions :
    (r = Super => IsSuper(a)) /\ p \in role[r].perms /\ Regrants(q, a, r, At(p, FALSE))

(* The rows of overrides that settings insert, update and delete. *)
Overridden(u, settings) ==
    LET changes == {p \in DOMAIN settings : settings[p] # override[u][p]}
    IN  [Idle EXCEPT !.op = "override", !.on = u, !.set = [p \in changes |-> settings[p]],
            !.put = [inserts |-> {p \in changes : override[u][p] = "none"},
                     updates |-> {p \in changes : "none" \notin {override[u][p], settings[p]}}]]
Overrides(q, a, u, request) ==
    /\ Exists(u)
    /\ perms' = [Filled(a) EXCEPT ![u] = Unknown]
    /\ Administers(q, a, request)
OverrideOne(q, a) == \E u \in Users, p \in Permissions, given \in {"grant", "deny"} :
    Overrides(q, a, u, Overridden(u, At(p, given)))
RemoveOverride(q, a) == \E u \in Users, p \in Permissions :
    override[u][p] # "none" /\ Overrides(q, a, u, Overridden(u, At(p, "none")))
(* Every row of the user is deleted before the new ones are inserted. *)
OverrideAll(q, a) == \E u \in Users, settings \in [Permissions -> {"none", "grant", "deny"}] :
    Overrides(q, a, u, [Overridden(u, settings) EXCEPT !.put.updates = {}])

(* The permissions of a role, or the grants of a user, are added to        *)
(* another role or user.                                                   *)
Sources == {role[r].perms : r \in {x \in Roles : LiveRole(x)}}
           \cup {{p \in Permissions : override[v][p] = "grant"} : v \in Users}
CloneToRole(q, a) == \E r \in Roles, source \in Sources :
    Regrants(q, a, r, [p \in source |-> TRUE])
CloneToUser(q, a) == \E u \in Users, source \in Sources :
    /\ Exists(u)
    /\ perms' = Forgotten
    /\ Administers(q, a, Overridden(u, [p \in source |-> "grant"]))

-----------------------------------------------------------------------------
(* Commits *)

(* (mutant) The index on blacklisted tokens is missing. *)
AdmittedTwice(request) == TRUE
(* The unique indexes on token ids, roles of users, permissions of roles   *)
(* and overrides; an UPDATE whose row is gone fails too.                   *)
Admitted(request) ==
    /\ request.op = "refresh" => session[request.old].life # "spent"
    /\ request.op = "logout" =>
        /\ request.put.session => session[request.old].life # "spent"
        /\ request.put.access => session[request.old].access # "blacklisted"
    /\ request.op \in {"assign", "remove"} => request.roles \cap held[request.on] = {}
    /\ request.op = "deleteRole" =>
        \A u \in DOMAIN request.put : request.put[u] => request.to \notin held[u]
    /\ request.op = "regrant" => request.put.inserts \cap role[request.role].perms = {}
    /\ request.op = "override" =>
        /\ \A p \in request.put.inserts : override[request.on][p] = "none"
        /\ \A p \in request.put.updates : override[request.on][p] # "none"

RowOps == {"createUser", "changePassword", "forgot", "reset", "activate", "deactivate", "suspend", "unlock"}
UserWritten(request) ==
    IF request.op \in RowOps
    THEN [user EXCEPT ![request.on] =
            [f \in DOMAIN Nobody |-> IF f \in DOMAIN request.put THEN request.put[f] ELSE @[f]]]
    ELSE user
HeldWritten(request) == [u \in Users |->
    CASE request.op = "deleteRole" /\ u \in request.users ->
            (held[u] \cup (IF request.put[u] THEN {request.to} ELSE {})) \ {request.role}
      [] request.op \in {"createUser", "assign", "remove"} /\ u = request.on ->
            (held[u] \cup request.roles) \ {request.role}
      [] OTHER -> held[u]]
RoleWritten(request) ==
    CASE request.op = "createRole" -> [role EXCEPT ![request.role] = [life |-> "live", perms |-> request.set]]
      [] request.op = "deleteRole" -> [role EXCEPT ![request.role].life = "trashed"]
      [] request.op = "regrant" -> [role EXCEPT ![request.role].perms =
            (@ \cup {p \in DOMAIN request.set : request.set[p]}) \ {p \in DOMAIN request.set : ~request.set[p]}]
      [] OTHER -> role
OverrideWritten(request) ==
    IF request.op \in {"override", "createUser"}
    THEN [override EXCEPT ![request.on] =
            [p \in Permissions |-> IF p \in DOMAIN request.set THEN request.set[p] ELSE @[p]]]
    ELSE override
Turned(old, life) == [old EXCEPT !.life = life]
LoggedOut(old, put) ==
    [old EXCEPT !.life = IF put.session THEN "spent" ELSE @,
                !.access = IF put.access THEN "blacklisted" ELSE @]
SessionWritten(request) == [s \in Slots |->
    IF s = request.slot THEN Turned(session[s], "active")
    ELSE IF s = request.old /\ request.op = "refresh" THEN Turned(session[s], "spent")
    ELSE IF s = request.old /\ request.op = "logout" THEN LoggedOut(session[s], request.put)
    ELSE IF s \in request.revoke /\ session[s].life = "active" THEN Turned(session[s], "revoked")
    ELSE session[s]]

Commit(q) ==
    /\ req[q].op \notin {"none", "verify"}
    /\ Admitted(req[q])
    /\ user' = UserWritten(req[q])
    /\ held' = HeldWritten(req[q])
    /\ role' = RoleWritten(req[q])
    /\ override' = OverrideWritten(req[q])
    /\ session' = SessionWritten(req[q])
    /\ req' = [req EXCEPT ![q] = Idle]
    /\ UNCHANGED <<perms, mark, attempts, served>>

(* A refused transaction takes its tokens with it; what it did to the      *)
(* cache stays.                                                            *)
Rollback(q) ==
    /\ req[q].op \notin {"none", "verify"}
    /\ ~Admitted(req[q])
    /\ session' = [s \in Slots |-> IF s = req[q].slot THEN NoSession ELSE session[s]]
    /\ req' = [req EXCEPT ![q] = Idle]
    /\ UNCHANGED <<stored, perms, mark, attempts, served>>

(* An administrator flushes the cache, or it runs full: the marks and the  *)
(* counters go with it.                                                    *)
Flush ==
    /\ perms' = Forgotten
    /\ mark' = [u \in Users |-> FALSE]
    /\ attempts' = [u \in Users |-> 0]
    /\ req' = [q \in Requests |-> IF req[q] = Idle THEN Idle ELSE [req[q] EXCEPT !.alone = FALSE]]
    /\ served' = served + 1
    /\ UNCHANGED <<stored, session>>

-----------------------------------------------------------------------------
(* What may be there at first. *)
ASSUME ScenesAssumption == \A s \in Scenes :
    /\ s.user \in [Users -> Account] /\ s.held \in [Users -> SUBSET Roles]
    /\ s.role \in [Roles -> Role] /\ s.session \in [Slots -> Session]
    /\ \A u \in Users : s.user[u].status = "none" => ~s.user[u].login /\ s.held[u] = {}
    /\ \A x \in Slots : s.session[x].life \in {"none", "active"} /\ s.session[x].from = "none"

Init ==
    /\ \E s \in Scenes :
        /\ user = s.user
        /\ held = s.held
        /\ role = s.role
        /\ session = s.session
    /\ override = [u \in Users |-> NoOverride]
    /\ perms = Forgotten
    /\ mark = [u \in Users |-> FALSE]
    /\ attempts = [u \in Users |-> 0]
    /\ req = [q \in Requests |-> Idle]
    /\ served = 0

(* The requests, router by router. *)
UserStates(q, a) ==
    \/ ResetPassword(q, a) \/ Activate(q, a) \/ Deactivate(q, a) \/ Suspend(q, a) \/ Unlock(q, a)
UserRoles(q, a) == AssignRole(q, a) \/ RemoveRole(q, a) \/ ForceLogout(q, a)
RoleRoutes(q, a) == DeleteRole(q, a) \/ GrantPermission(q, a) \/ RevokePermission(q, a)
OverrideRoutes(q, a) ==
    \/ OverrideOne(q, a) \/ RemoveOverride(q, a) \/ OverrideAll(q, a)
    \/ CloneToRole(q, a) \/ CloneToUser(q, a)
Administer(q) == \E a \in {u \in Users : May(u)} :
    \/ CreateUser(q, a) \/ UserStates(q, a) \/ UserRoles(q, a)
    \/ CreateRole(q, a) \/ RoleRoutes(q, a) \/ OverrideRoutes(q, a)

Tokens(q) == Login(q) \/ Refresh(q) \/ Logout(q)
Passwords(q) == ChangePassword(q) \/ ForgotPassword(q)
Serve(q) == Tokens(q) \/ Passwords(q) \/ Verify(q) \/ Administer(q)

Next ==
    \/ \E q \in Requests : (Accepts(q) /\ Serve(q)) \/ Commit(q) \/ Rollback(q) \/ StorePermissions(q)
    \/ WindowPasses
    \/ served < Budget /\ (FailLogin \/ Flush)

Spec == Init /\ [][Next]_vars

-----------------------------------------------------------------------------
(* Properties *)

TypeOK ==
    /\ user \in [Users -> Account] /\ held \in [Users -> SUBSET Roles]
    /\ \A u \in Users : held[u] # {} => Exists(u)
    /\ role \in [Roles -> Role]
    /\ override \in [Users -> [Permissions -> {"none", "grant", "deny"}]]
    /\ session \in [Slots -> Session]
    /\ \A s \in Slots : session[s].life = "pending" <=> \E q \in Requests : req[q].slot = s
    /\ perms \in [Users -> (SUBSET Permissions) \cup {Unknown}]
    /\ mark \in [Users -> BOOLEAN] /\ attempts \in [Users -> 0..Limit]

EndsAlone(q) == req[q].op # "none" /\ req'[q] = Idle /\ req[q].alone

(* Whatever overlaps left behind, no request that ran alone lets cached    *)
(* permissions fall behind those in effect.                                *)
SoloPermissions == [][\A q \in Requests, u \in Users :
    EndsAlone(q) /\ perms'[u] # Unknown =>
        \/ perms'[u] = Effective(u)'
        \/ perms'[u] = perms[u] /\ perms[u] # Effective(u)]_vars

(* A refresh token is exchanged once, however many requests present it. *)
RotatedOnce == \A s, t \in Slots :
    s # t /\ {session[s].life, session[t].life} \cap {"none", "pending"} = {} /\ session[s].from # "none" =>
        session[s].from # session[t].from
SessionsAreSound == TypeOK /\ RotatedOnce

(* A forced logout, a suspension, a deactivation or a new password that    *)
(* ran alone leaves the user without a session and without an access token *)
(* that is accepted.                                                       *)
SoloShutOut == [][\A q \in Requests :
    EndsAlone(q) /\ req[q].op \in {"forceLogout", "suspend", "deactivate", "reset", "changePassword"} =>
        \A s \in Slots : session[s].user = req[q].on => session'[s].life # "active" /\ ~Accepted(s)']_vars

(* Who was suspended or deactivated comes back by being activated or       *)
(* unlocked, not by a new password or a login, in whatever order requests  *)
(* overlap.                                                                *)
StaysShutOut == [][\A u \in Users :
    ~user[u].active /\ Exists(u) /\ CanLogin(u)' =>
        \E q \in Requests : req[q].op \in {"activate", "unlock"} /\ req[q].on = u /\ req'[q] = Idle]_vars

(* No request that ran alone takes the last active super administrator.    *)
SoloAdmin == [][\A q \in Requests :
    EndsAlone(q) /\ (\E u \in Users : IsSuper(u) /\ user[u].active) =>
        \E u \in Users : Super \in held'[u] /\ user'[u].active]_vars

=============================================================================
