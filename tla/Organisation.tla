---------------------------- MODULE Organisation ----------------------------
(***************************************************************************)
(* Who reports to whom, which department lies under which, and who holds   *)
(* which position (org_structure/, the hierarchy of rbac/, and the         *)
(* position in users/).                                                    *)
(*                                                                         *)
(* A request reads and checks in its first action and commits in a second  *)
(* one: the columns it changed, the rows it inserts or deletes.            *)
(***************************************************************************)
EXTENDS Naturals, FiniteSets, Paths

CONSTANTS
    People,
    Types,          \* "primary" and other kinds of reporting lines
    Scopes,         \* "everywhere", or a department the line is limited to
    Lines,          \* slots for reporting lines
    Departments,
    Positions,
    Requests,       \* requests that may be open at once
    Scenes,         \* an area (no two share a row) and what its rows start from
    Budget          \* how many requests are served

ASSUME TypesAssumption == "primary" \in Types /\ "everywhere" \in Scopes
ASSUME NamesAssumption == "none" \notin Departments /\ "none" \notin Positions
ASSUME BudgetAssumption == Budget \in Nat

VARIABLES
    line,           \* line[l]: a reporting line, ended ones included
    links,          \* <<child, parent>> in department_hierarchy
    parent,         \* parent[d]: the older column roles.parent_department_id
    dept,           \* dept[d]: "none", "live" or "trashed"
    position,       \* position[p]: the same
    post,           \* post[e, p, k]: e's assignment to p of kind k
    lead,           \* lead[d, e, t]: status of e's leadership of d
    area,           \* the area this behaviour is about
    req,            \* req[q]: what the request q will write
    served          \* how many requests have begun

rows == <<line, links, parent, dept, position, post, lead>>
vars == <<line, links, parent, dept, position, post, lead, area, req, served>>

Statuses == {"none", "active", "inactive"}
Life == {"none", "live", "trashed"}
PostKinds == {"primary", "acting"}
LeadTypes == {"manager", "assistant"}
Posts == People \X Positions \X PostKinds
Leads == Departments \X People \X LeadTypes

Row == [of : People, to : People, type : Types, scope : Scopes, status : Statuses, primary : BOOLEAN]
Post == [status : Statuses, primary : BOOLEAN]
Vacant == [status |-> "none", primary |-> FALSE]
Nothing == [x \in {} |-> x]
Idle == [op |-> "none", who |-> <<>>, put |-> Nothing, add |-> {}, cut |-> {}, parent |-> Nothing,
         dept |-> Nothing, position |-> Nothing, post |-> Nothing, lead |-> Nothing, born |-> {}, alone |-> TRUE]

-----------------------------------------------------------------------------
(* Requests *)

Accepts(q) == req[q] = Idle /\ served < Budget

Begin(q, request) ==
    /\ served' = served + 1
    /\ req' = [o \in Requests |->
                IF o = q THEN [request EXCEPT !.alone = \A r \in Requests : req[r] = Idle]
                ELSE IF req[o] = Idle THEN Idle ELSE [req[o] EXCEPT !.alone = FALSE]]
    /\ UNCHANGED <<rows, area>>

(* A function given at one point, and one function laid over another. *)
At(x, v) == [y \in {x} |-> v]
Over(f, g) == [x \in DOMAIN f \cup DOMAIN g |-> IF x \in DOMAIN g THEN g[x] ELSE f[x]]

(* The columns an assignment changes, and a table after such changes. *)
Changed(row, new) == [c \in {d \in DOMAIN new : row[d] # new[d]} |-> new[c]]
Merged(table, put) == [x \in DOMAIN table |->
    IF x \in DOMAIN put
    THEN [c \in DOMAIN table[x] |-> IF c \in DOMAIN put[x] THEN put[x][c] ELSE table[x][c]]
    ELSE table[x]]

-----------------------------------------------------------------------------
(* Reporting *)

Active(table) == {l \in Lines : table[l].status = "active"}
Edges(table) == {<<table[l].of, table[l].to>> : l \in Active(table)}
Reports(m) == {l \in Active(line) : line[l].to = m}

(* get_exact *)
Exact(table, e, m, t, s) ==
    {l \in Lines : /\ table[l].status # "none" /\ table[l].of = e /\ table[l].to = m
                   /\ table[l].type = t /\ table[l].scope = s}
(* get_active_primary_manager *)
Primaries(table, e) == {l \in Active(table) : table[l].of = e /\ table[l].type = "primary"}

(* scalar_one_or_none raises if there are more. *)
One(S) == \A x, y \in S : x = y

Free == {l \in Lines : line[l].status = "none" /\ \A q \in Requests : l \notin DOMAIN req[q].put}
NextFree == CHOOSE l \in Free : TRUE

(* (mutant) Only a direct loop is found. *)
LoopsDirectly(table, e, m) == e = m \/ <<m, e>> \in Edges(table)
(* would_create_cycle *)
Loops(table, e, m) == e \in Above(m, Edges(table), People)

Appointable(table, e, m, t, s, primary) ==
    /\ ~Loops(table, e, m)
    /\ One(Exact(table, e, m, t, s))
    /\ \A l \in Exact(table, e, m, t, s) : table[l].status = "inactive"
    /\ primary /\ t = "primary" => Primaries(table, e) = {}
    /\ Exact(table, e, m, t, s) = {} => Free # {}

Appointed(table, e, m, t, s, primary) ==
    IF Exact(table, e, m, t, s) = {}
    THEN At(NextFree, [of |-> e, to |-> m, type |-> t, scope |-> s, status |-> "active", primary |-> primary])
    ELSE [l \in Exact(table, e, m, t, s) |->
            Changed(table[l], [status |-> "active", primary |-> primary])]

CreateLine(q) == \E e, m \in People, t \in Types, s \in Scopes, primary \in BOOLEAN :
    /\ Appointable(line, e, m, t, s, primary)
    /\ Begin(q, [Idle EXCEPT !.op = "create", !.put = Appointed(line, e, m, t, s, primary)])

Ended(S) == [l \in S |-> [status |-> "inactive"]]

(* (mutant) The line the employee has stays. *)
SetManagerToo(q) == \E e, m \in People :
    /\ Appointable(line, e, m, "primary", "everywhere", FALSE)
    /\ Begin(q, [Idle EXCEPT !.op = "setManager", !.put = Appointed(line, e, m, "primary", "everywhere", TRUE)])
(* set_primary_manager: the drop of a card on another one. *)
SetManager(q) == \E e, m \in People :
    LET ended == Ended(Primaries(line, e))
        table == Merged(line, ended)
    IN  /\ One(Primaries(line, e))
        /\ \A l \in Primaries(line, e) : line[l].to # m
        /\ Appointable(table, e, m, "primary", "everywhere", TRUE)
        /\ Begin(q, [Idle EXCEPT !.op = "setManager",
                !.put = Over(ended, Appointed(table, e, m, "primary", "everywhere", TRUE))])

(* Ending what has ended already changes nothing. *)
RemoveLine(q) == \E l \in Active(line) : Begin(q, [Idle EXCEPT !.op = "remove", !.put = Ended({l})])

(* (mutant) Only primary lines are handed over. *)
HandedPrimary(from) == {l \in Reports(from) : line[l].type = "primary"}
Handed(from) == Reports(from)
Twins(l, S) == {k \in S : line[k].of = line[l].of /\ line[k].type = line[l].type /\ line[k].scope = line[l].scope}

(* reassign_direct_reports: a line of the same shape to the new manager,   *)
(* active or not, takes the place of the old one.  The checks of one line  *)
(* after the other amount to checking all of them first, since a manager   *)
(* who cannot reach a report gains no way there when lines turn to him.    *)
Reassign(q) == \E from, to \in People :
    /\ from # to
    /\ \A l \in Handed(from) : ~Loops(line, line[l].of, to) /\ One(Exact(line, line[l].of, to, line[l].type, line[l].scope))
    /\ Begin(q, [Idle EXCEPT !.op = "reassign", !.who = <<from, to>>, !.put =
            [l \in Handed(from) |->
                IF \/ Exact(line, line[l].of, to, line[l].type, line[l].scope) # {}
                   \/ l # CHOOSE k \in Twins(l, Handed(from)) : TRUE
                THEN [status |-> "inactive"] ELSE At("to", to)]])

Reporting(q) == CreateLine(q) \/ SetManager(q) \/ RemoveLine(q) \/ Reassign(q)
-----------------------------------------------------------------------------
(* Departments *)

Live == {d \in Departments : dept[d] = "live"}
Parents(d, L) == {p \in Departments : <<d, p>> \in L}
DeptEdges(L, P) == L \cup {<<d, P[d]>> : d \in {x \in Departments : P[x] # "none"}}

(* would_create_cycle *)
DeptLoops(c, p) == c \in Above(p, DeptEdges(links, parent), Departments)

(* get_parents and get_children: links that only the older column knows. *)
Synced(d, L, P) == ({<<d, p>> : p \in {P[d]} \cap Live} \cup {<<c, d>> : c \in {x \in Live : P[x] = d}}) \ L

(* add_parent_link, and the hierarchy that is then shown of the child or the parent. *)
AddLink(q, c, p, shown) ==
    LET P == IF parent[c] = "none" THEN At(c, p) ELSE Nothing
        new == {<<c, p>>} \ links
    IN  /\ c \in Live /\ p \in Live
        /\ ~DeptLoops(c, p)
        /\ Begin(q, [Idle EXCEPT !.op = "link", !.parent = P,
                !.add = new \cup Synced(shown, links \cup new, Over(parent, P))])

AddParent(q) == \E c, p \in Departments : AddLink(q, c, p, c)
AddChild(q) == \E c, p \in Departments : AddLink(q, c, p, p)

(* remove_parent_link: the column then names any link that is left. *)
RemoveLink(q, c, p, shown) ==
    LET L == links \ {<<c, p>>}
    IN  /\ shown \in Live
        /\ \E rest \in IF Parents(c, L) = {} THEN {"none"} ELSE Parents(c, L) :
            LET P == IF c \in Live /\ parent[c] # rest THEN At(c, rest) ELSE Nothing
            IN  Begin(q, [Idle EXCEPT !.op = "unlink", !.parent = P, !.cut = {<<c, p>>} \cap links,
                        !.add = Synced(shown, L, Over(parent, P))])

RemoveParent(q) == \E c, p \in Departments : RemoveLink(q, c, p, c)
RemoveChild(q) == \E c, p \in Departments : RemoveLink(q, c, p, p)

(* update_role with a parent, or with null for one. *)
UpdateRole(q) == \E d \in Live :
    \/ \E p \in Live :
        /\ parent[d] # p
        /\ ~DeptLoops(d, p)
        /\ Begin(q, [Idle EXCEPT !.op = "move", !.parent = At(d, p), !.add = {<<d, p>>} \ links])
    \/ /\ parent[d] # "none"
       /\ Begin(q, [Idle EXCEPT !.op = "unset", !.parent = At(d, "none"), !.cut = {<<d, parent[d]>>} \cap links])

CreateRole(q) == \E d \in Departments, p \in Live \cup {"none"} :
    /\ dept[d] = "none" /\ \A o \in Requests : d \notin DOMAIN req[o].dept
    /\ Begin(q, [Idle EXCEPT !.op = "create", !.dept = At(d, "live"), !.parent = At(d, p),
            !.add = IF p = "none" THEN {} ELSE {<<d, p>>}])

(* Rows elsewhere keep the name of a trashed department. *)
DeleteRole(q) == \E d \in Live : Begin(q, [Idle EXCEPT !.op = "trash", !.dept = At(d, "trashed")])
RestoreRole(q) == \E d \in Departments :
    /\ dept[d] = "trashed"
    /\ Begin(q, [Idle EXCEPT !.op = "restore", !.dept = At(d, "live")])

(* get_hierarchy writes the links it finds missing. *)
ViewHierarchy(q) == \E d \in Live :
    /\ Synced(d, links, parent) # {}
    /\ Begin(q, [Idle EXCEPT !.op = "view", !.add = Synced(d, links, parent)])

Structure(q) ==
    \/ AddParent(q) \/ AddChild(q) \/ RemoveParent(q) \/ RemoveChild(q)
    \/ UpdateRole(q) \/ CreateRole(q) \/ DeleteRole(q) \/ RestoreRole(q) \/ ViewHierarchy(q)

-----------------------------------------------------------------------------
(* Positions and the people who hold or lead *)

CreatePosition(q) == \E p \in Positions :
    /\ position[p] = "none" /\ \A o \in Requests : p \notin DOMAIN req[o].position
    /\ Begin(q, [Idle EXCEPT !.op = "create", !.position = At(p, "live")])

DeletePosition(q) == \E p \in Positions :
    /\ position[p] = "live"
    /\ \A x \in Posts : x[2] = p => post[x].status # "active"
    /\ Begin(q, [Idle EXCEPT !.op = "trash", !.position = At(p, "trashed")])

(* (mutant) Only what e holds in the same way loses the mark. *)
UnmarkedKind(e, k) == [x \in {y \in Posts : y[1] = e /\ y[3] = k /\ post[y].primary} |-> [primary |-> FALSE]]
(* clear_primary_flag *)
Unmarked(e, k) == [x \in {y \in Posts : y[1] = e /\ post[y].primary} |-> [primary |-> FALSE]]

(* A post that exists already changes; another one is inserted. *)
Posted(x, table, primary) == At(x,
    IF table[x].status = "none" THEN [status |-> "active", primary |-> primary]
    ELSE Changed(table[x], [status |-> "active", primary |-> primary]))
Fresh(x, table) == {y \in {x} : table[y].status = "none"}

(* assign_employee *)
Assign(q) == \E x \in Posts, primary \in BOOLEAN :
    LET cleared == IF primary THEN Unmarked(x[1], x[3]) ELSE Nothing
        table == Merged(post, cleared)
    IN  /\ position[x[2]] = "live"
        /\ post[x].status # "active"
        /\ Begin(q, [Idle EXCEPT !.op = "assign", !.born = Fresh(x, post),
                !.post = Over(cleared, Posted(x, table, primary))])

RemovePost(q) == \E x \in Posts :
    /\ post[x].status = "active"
    /\ Begin(q, [Idle EXCEPT !.op = "resign", !.post = At(x, [status |-> "inactive"])])

(* The position in update_user: none, or one that nobody looks up. *)
EditUser(q) == \E e \in People, p \in Positions \cup {"none"} :
    LET ended == [x \in {y \in Posts : y[1] = e /\ post[y].primary /\ post[y].status = "active"} |->
                    [status |-> "inactive", primary |-> FALSE]]
        table == Merged(post, ended)
        x == <<e, p, "primary">>
    IN  IF p = "none" THEN Begin(q, [Idle EXCEPT !.op = "edit", !.post = ended])
        ELSE /\ position[p] # "none"
             /\ Begin(q, [Idle EXCEPT !.op = "edit", !.born = Fresh(x, post),
                    !.post = Over(ended, Posted(x, table, TRUE))])

Staffing(q) == CreatePosition(q) \/ DeletePosition(q) \/ Assign(q) \/ RemovePost(q) \/ EditUser(q)

(* create_leadership_assignment; only a client who asks for it is refused a second manager. *)
CreateLead(q) == \E x \in Leads, single \in BOOLEAN :
    /\ x[1] \in Live
    /\ lead[x] # "active"
    /\ single /\ x[3] = "manager" => \A y \in Leads : y[1] = x[1] /\ y[3] = "manager" => lead[y] # "active"
    /\ Begin(q, [Idle EXCEPT !.op = "lead", !.lead = At(x, "active"), !.born = {y \in {x} : lead[y] = "none"}])

RemoveLead(q) == \E x \in Leads :
    /\ lead[x] = "active"
    /\ Begin(q, [Idle EXCEPT !.op = "unlead", !.lead = At(x, "inactive")])

Leading(q) == CreateLead(q) \/ RemoveLead(q) \/ DeleteRole(q) \/ RestoreRole(q)

-----------------------------------------------------------------------------
(* The end of a request *)

Done(q) == req' = [req EXCEPT ![q] = Idle] /\ UNCHANGED <<area, served>>

(* Two lines of one shape; NULL, the line without a department, differs from itself. *)
Clash(table) == \E k, l \in Lines :
    /\ k # l /\ table[k].status # "none" /\ table[l].status # "none" /\ table[k].scope # "everywhere"
    /\ \A c \in {"of", "to", "type", "scope"} : table[k][c] = table[l][c]

(* What the unique constraints refuse. *)
Conflict(q) ==
    \/ Clash(Merged(line, req[q].put))
    \/ req[q].add \cap links # {}
    \/ \E x \in req[q].born \cap Posts : post[x].status # "none"
    \/ \E x \in req[q].born \cap Leads : lead[x] # "none"

Commit(q) ==
    /\ req[q] # Idle /\ ~Conflict(q)
    /\ line' = Merged(line, req[q].put)
    /\ links' = (links \ req[q].cut) \cup req[q].add
    /\ parent' = Over(parent, req[q].parent)
    /\ dept' = Over(dept, req[q].dept)
    /\ position' = Over(position, req[q].position)
    /\ post' = Merged(post, req[q].post)
    /\ lead' = Over(lead, req[q].lead)
    /\ Done(q)

Rollback(q) == req[q] # Idle /\ Conflict(q) /\ Done(q) /\ UNCHANGED rows

-----------------------------------------------------------------------------
(* What may be there at first. *)
ASSUME ScenesAssumption == \A s \in Scenes :
    /\ s.line \in [Lines -> Row] /\ ~Clash(s.line)
    /\ s.links \subseteq Departments \X Departments
    /\ s.parent \in [Departments -> Departments \cup {"none"}]
    /\ s.dept \in [Departments -> Life] /\ s.position \in [Positions -> Life]
    /\ \A e \in DeptEdges(s.links, s.parent) : s.dept[e[2]] # "none"

Init ==
    /\ \E s \in Scenes :
        /\ area = s.area /\ line = s.line /\ links = s.links /\ parent = s.parent
        /\ dept = s.dept /\ position = s.position
    /\ post = [x \in Posts |-> Vacant]
    /\ lead = [x \in Leads |-> "none"]
    /\ req = [q \in Requests |-> Idle]
    /\ served = 0

Next == \E q \in Requests :
    \/ /\ Accepts(q)
       /\ \/ area = "reporting" /\ Reporting(q)
          \/ area = "structure" /\ Structure(q)
          \/ area = "staffing" /\ Staffing(q)
          \/ area = "leading" /\ Leading(q)
    \/ Commit(q)
    \/ Rollback(q)

Spec == Init /\ [][Next]_vars

-----------------------------------------------------------------------------
(* Properties *)

(* The end of a request none other was open with. *)
Solo(q) == req[q].alone /\ req[q].op # "none" /\ req'[q] = Idle

(* No request that had the database to itself closes a loop, neither of    *)
(* people who report to each other nor of departments that lie under each  *)
(* other: would_create_cycle is asked before every new line or link, and   *)
(* the links a mere view adds were in the older column before.             *)
NoLoops(q) == Solo(q) =>
    /\ Acyclic(Edges(line), People) => Acyclic(Edges(line'), People)
    /\ Acyclic(DeptEdges(links, parent), Departments) => Acyclic(DeptEdges(links', parent'), Departments)
SoloAcyclic == [][\A q \in Requests : NoLoops(q)]_vars

Marked(table, e) == {l \in Primaries(table, e) : table[l].primary}
Held(table, e) == {x \in Posts : x[1] = e /\ table[x].status = "active" /\ table[x].primary}

(* A request that had the database to itself leaves nobody with two marked *)
(* primary managers or two marked positions who had not two before: the    *)
(* earlier mark goes in the same request (set_primary_manager,             *)
(* clear_primary_flag, update_user).                                       *)
NoSecond(q) == Solo(q) => \A e \in People :
    /\ One(Marked(line, e)) => One(Marked(line', e))
    /\ One(Held(post, e)) => One(Held(post', e))
SoloOnePrimary == [][\A q \in Requests : NoSecond(q)]_vars

(* What becomes of l, a line to the manager who leaves, when from's reports *)
(* are handed over to another manager.                                     *)
Taken(l, old, new, to) == Exact(new, old[l].of, to, old[l].type, old[l].scope) \cap Active(new) # {}
EndedBefore(l, old, to) == ~(Exact(old, old[l].of, to, old[l].type, old[l].scope) \subseteq Active(old))

(* A handover leaves no active line to the manager who goes, and each      *)
(* employee who had one has an active line of that shape to the new        *)
(* manager - but for those who once reported to him in that shape and did  *)
(* no more, whom HandoverLosesNobody is about: get_exact finds the ended   *)
(* line too, and nothing revives it (reassign_direct_reports).             *)
HandedOver(old, new, from, to) == \A l \in Active(old) : old[l].to = from =>
    /\ new[l].to = from => l \notin Active(new)
    /\ EndedBefore(l, old, to) \/ Taken(l, old, new, to)
SoloHandover == [][\A q \in Requests :
    Solo(q) /\ req[q].op = "reassign" => HandedOver(line, line', req[q].who[1], req[q].who[2])]_vars

(* A handover leaves no reporting relationship dangling, as the docstring  *)
(* of reassign_direct_reports has it: each employee with an active line to *)
(* the manager who goes has an active line of that shape to the new one.   *)
HandoverLosesNobody == [][\A q \in Requests :
    Solo(q) /\ req[q].op = "reassign" =>
        \A l \in Active(line) : line[l].to = req[q].who[1] => Taken(l, line, line', req[q].who[2])]_vars
=============================================================================
