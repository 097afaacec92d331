------------------------ MODULE Organisation_proofs ------------------------
(***************************************************************************)
(* What a request may write when no other one was open (NoLoops, NoSecond, *)
(* HandedOver), for every number of people, departments and requests.      *)
(*                                                                         *)
(* The invariant keeps, of each request that is still alone, that what it  *)
(* will write is harmless to the rows as they are (Keeps): its first step  *)
(* checked just that, and no other step has come between.                  *)
(***************************************************************************)
EXTENDS Organisation, TLAPS

(***************************************************************************)
(* Relations without loops.                                                *)
(***************************************************************************)
LEMMA FewerEdges ==
    ASSUME NEW E, NEW F, NEW N, F \subseteq E, Acyclic(E, N)
    PROVE  Acyclic(F, N)
BY DEF Acyclic

(* New edges to m close no loop if none of them starts from what lies above m. *)
LEMMA EdgesBelow ==
    ASSUME NEW E, NEW F, NEW N, NEW R, NEW m,
           Acyclic(E, N), R \cap Above(m, E, N) = {}, F \subseteq E \cup (R \X {m})
    PROVE  Acyclic(F, N)
<1> DEFINE A == Above(m, E, N)
<1>1. SUFFICES ASSUME NEW S \in SUBSET N, S # {}
               PROVE  \E x \in S : \A y \in S : <<x, y>> \notin F
    BY DEF Acyclic
<1>2. CASE m \notin S
    <2>1. PICK x \in S : \A y \in S : <<x, y>> \notin E
        BY <1>1 DEF Acyclic
    <2>2. \A y \in S : <<x, y>> \notin R \X {m}
        BY <1>2
    <2> QED BY <2>1, <2>2
<1>3. CASE m \in S
    <2>1. m \in A
        BY <1>3 DEF Above
    <2>2. S \cap A # {} /\ S \cap A \in SUBSET N
        BY <1>3, <2>1
    <2>3. PICK x \in S \cap A : \A y \in S \cap A : <<x, y>> \notin E
        BY <2>2 DEF Acyclic
    <2>4. ASSUME NEW y \in S, <<x, y>> \in E PROVE y \in A
        <3>1. ASSUME NEW T \in SUBSET N, m \in T, Closed(T, E) PROVE y \in T
            <4>1. x \in T
                BY <2>3, <3>1 DEF Above
            <4>2. \A e \in E : e[1] \in T => e[2] \in T
                BY <3>1 DEF Closed
            <4>3. <<x, y>>[1] \in T => <<x, y>>[2] \in T
                BY <2>4, <4>2
            <4> QED BY <4>1, <4>3
        <3> QED BY <3>1 DEF Above
    <2>5. ASSUME NEW y \in S PROVE <<x, y>> \notin F
        <3>1. <<x, y>> \notin E
            BY <2>3, <2>4
        <3>2. <<x, y>> \notin R \X {m}
            BY <2>3
        <3> QED BY <3>1, <3>2
    <2> QED BY <2>3, <2>5
<1> QED BY <1>2, <1>3

-----------------------------------------------------------------------------
Columns == {"of", "to", "type", "scope", "status", "primary"}
Tabled(table) == DOMAIN table = Lines /\ \A l \in Lines : DOMAIN table[l] = Columns

LEMMA LineAfter ==
    ASSUME NEW table, Tabled(table), NEW put
    PROVE  /\ Tabled(Merged(table, put))
           /\ \A l \in Lines, c \in Columns :
                Merged(table, put)[l][c] = IF l \in DOMAIN put /\ c \in DOMAIN put[l] THEN put[l][c] ELSE table[l][c]
BY DEF Tabled, Merged

(***************************************************************************)
(* The invariant.                                                          *)
(***************************************************************************)
PostColumns == {"status", "primary"}
PostTabled(table) == DOMAIN table = Posts /\ \A x \in Posts : DOMAIN table[x] = PostColumns

(* No edge leads to a department that was never made. *)
Made(d, E) == \A e \in E : e[2] \in Departments /\ d[e[2]] # "none"

Stored ==
    /\ Tabled(line) /\ ~Clash(line) /\ PostTabled(post)
    /\ DOMAIN parent = Departments /\ DOMAIN dept = Departments
    /\ Made(dept, DeptEdges(links, parent))

Fields == {"op", "who", "put", "add", "cut", "parent", "dept", "position", "post", "lead", "born", "alone"}

(* A request is a record, and what it will write names departments there are. *)
Sound(d, r) ==
    /\ DOMAIN r = Fields
    /\ DOMAIN r.parent \subseteq Departments /\ DOMAIN r.dept \subseteq Departments
    /\ \A x \in DOMAIN r.dept : r.dept[x] # "none"
    /\ Made(d, r.add)
    /\ \A x \in DOMAIN r.parent : r.parent[x] # "none" => r.parent[x] \in Departments /\ d[r.parent[x]] # "none"

(* What the writes of r do to the rows it was checked against. *)
KeepsLines(t, r) == Acyclic(Edges(t), People) => Acyclic(Edges(Merged(t, r.put)), People)
KeepsLinks(L, P, r) == Acyclic(DeptEdges(L, P), Departments) =>
                        Acyclic(DeptEdges((L \ r.cut) \cup r.add, Over(P, r.parent)), Departments)
KeepsMarked(t, r) == \A e \in People : One(Marked(t, e)) => One(Marked(Merged(t, r.put), e))
KeepsHeld(p, r) == \A e \in People : One(Held(p, e)) => One(Held(Merged(p, r.post), e))
KeepsReports(t, r) == r.op = "reassign" =>
    /\ HandedOver(t, Merged(t, r.put), r.who[1], r.who[2])
    /\ ~Clash(Merged(t, r.put)) /\ r.add = {} /\ r.born = {}
Keeps(t, L, P, p, r) == KeepsLines(t, r) /\ KeepsLinks(L, P, r) /\ KeepsMarked(t, r) /\ KeepsHeld(p, r) /\ KeepsReports(t, r)

Good(r) == Sound(dept, r) /\ Keeps(line, links, parent, post, r) /\ r.op # "none"

IInv ==
    /\ Stored
    /\ DOMAIN req = Requests
    /\ \A q \in Requests : Sound(dept, req[q])
    /\ \A q \in Requests : req[q] # Idle /\ req[q].alone =>
        /\ \A o \in Requests \ {q} : req[o] = Idle
        /\ Keeps(line, links, parent, post, req[q])

LEMMA IdleIsSound == Sound(dept, Idle) /\ Idle.op = "none" /\ Idle.alone = TRUE
BY DEF Sound, Idle, Made, Nothing, Fields

LEMMA InitIInv == Init => IInv
<1> SUFFICES ASSUME Init PROVE IInv
    OBVIOUS
<1>1. PICK s \in Scenes : line = s.line /\ links = s.links /\ parent = s.parent /\ dept = s.dept
    BY DEF Init
<1>2. line \in [Lines -> Row] /\ ~Clash(line) /\ parent \in [Departments -> Departments \cup {"none"}]
      /\ dept \in [Departments -> Life] /\ \A e \in DeptEdges(links, parent) : e[2] \in Departments /\ dept[e[2]] # "none"
    <2>1. links \subseteq Departments \X Departments /\ line \in [Lines -> Row] /\ ~Clash(line)
          /\ parent \in [Departments -> Departments \cup {"none"}]
          /\ dept \in [Departments -> Life] /\ \A e \in DeptEdges(links, parent) : dept[e[2]] # "none"
        BY <1>1, ScenesAssumption
    <2>2. \A e \in DeptEdges(links, parent) : e[2] \in Departments
        BY <2>1 DEF DeptEdges
    <2> QED BY <2>1, <2>2
<1>3. Tabled(line)
    BY <1>2 DEF Tabled, Row, Columns
<1>4. PostTabled(post)
    BY DEF Init, PostTabled, Vacant, PostColumns
<1>5. Stored
    BY <1>2, <1>3, <1>4 DEF Stored, Made
<1>6. DOMAIN req = Requests /\ \A q \in Requests : req[q] = Idle
    BY DEF Init
<1> QED BY <1>5, <1>6, IdleIsSound DEF IInv

(* A request begins, checked against the rows as they are. *)
LEMMA BeginsWell ==
    ASSUME IInv, NEW q \in Requests, NEW r, Begin(q, r), Good(r), Accepts(q)
    PROVE  IInv' /\ \A o \in Requests : req[o] # Idle => req'[o] # Idle
<1>1. UNCHANGED <<line, links, parent, dept, position, post, lead>>
    BY DEF Begin, rows
<1>2. /\ DOMAIN req' = Requests
      /\ req'[q] = [r EXCEPT !.alone = \A o \in Requests : req[o] = Idle]
      /\ \A o \in Requests \ {q} : req'[o] = IF req[o] = Idle THEN Idle ELSE [req[o] EXCEPT !.alone = FALSE]
    BY DEF Begin
<1>3. \A x, b : Sound(dept, x) =>
        /\ Sound(dept, [x EXCEPT !.alone = b]) /\ [x EXCEPT !.alone = b].alone = b
        /\ [x EXCEPT !.alone = b].op = x.op
        /\ Keeps(line, links, parent, post, x) => Keeps(line, links, parent, post, [x EXCEPT !.alone = b])
    <2> TAKE x, b
    <2> HAVE Sound(dept, x)
    <2> DEFINE y == [x EXCEPT !.alone = b]
    <2>1. DOMAIN x = Fields
        BY DEF Sound
    <2>2. /\ DOMAIN y = Fields /\ y.op = x.op /\ y.who = x.who /\ y.put = x.put /\ y.add = x.add
          /\ y.cut = x.cut /\ y.parent = x.parent /\ y.dept = x.dept /\ y.post = x.post /\ y.born = x.born
          /\ y.alone = b
        BY <2>1 DEF Fields
    <2> HIDE DEF y
    <2>3. Sound(dept, y)
        BY <2>2 DEF Sound
    <2>4. Keeps(line, links, parent, post, x) => Keeps(line, links, parent, post, y)
        BY <2>2 DEF Keeps, KeepsLines, KeepsLinks, KeepsMarked, KeepsHeld, KeepsReports
    <2> QED BY <2>2, <2>3, <2>4 DEF y
<1>4. \A o \in Requests : Sound(dept, req'[o])
    BY <1>2, <1>3, IdleIsSound DEF IInv, Good
<1>5. req[q] = Idle
    BY DEF Accepts
<1>6. \A o \in Requests \ {q} : req[o] # Idle => req'[o].alone = FALSE
    <2> TAKE o \in Requests \ {q}
    <2> HAVE req[o] # Idle
    <2>1. Sound(dept, req[o])
        BY DEF IInv
    <2>2. [req[o] EXCEPT !.alone = FALSE].alone = FALSE
        BY <1>3, <2>1
    <2> QED BY <1>2, <2>2
<1>7. (req'[q].alone => \A o \in Requests : req[o] = Idle) /\ Keeps(line, links, parent, post, req'[q])
    <2>1. PICK b \in BOOLEAN : b = (\A o \in Requests : req[o] = Idle)
        OBVIOUS
    <2>2. req'[q] = [r EXCEPT !.alone = b]
        BY <1>2, <2>1
    <2>3. req'[q].alone = b /\ Keeps(line, links, parent, post, req'[q])
        BY <1>3, <2>2 DEF Good
    <2> QED BY <2>1, <2>3
<1>8. ASSUME NEW o \in Requests, req'[o] # Idle, req'[o].alone
      PROVE  (\A p \in Requests \ {o} : req'[p] = Idle) /\ Keeps(line, links, parent, post, req'[o])
    <2>1. o = q
        BY <1>2, <1>6, <1>8
    <2> QED BY <1>2, <1>7, <1>8, <2>1
<1>9. \A o \in Requests : req[o] # Idle => req'[o] # Idle
    BY <1>2, <1>5, <1>6, IdleIsSound
<1>10. IInv'
    BY <1>1, <1>2, <1>4, <1>8 DEF IInv, Stored
<1> QED BY <1>9, <1>10

(* A request ends; what it leaves to the others. *)
LEMMA Ends ==
    ASSUME IInv, NEW q \in Requests, req[q] # Idle, Done(q), Stored',
           \A d \in Departments : dept[d] # "none" => dept'[d] # "none"
    PROVE  IInv'
<1>1. req' = [req EXCEPT ![q] = Idle]
    BY DEF Done
<1>2. DOMAIN req' = Requests /\ req'[q] = Idle /\ \A o \in Requests \ {q} : req'[o] = req[o]
    BY <1>1 DEF IInv
<1>3. \A r : Sound(dept, r) => Sound(dept', r)
    BY DEF Sound, Made
<1>4. \A o \in Requests : Sound(dept', req'[o])
    BY <1>2, <1>3, IdleIsSound DEF IInv
<1>5. \A o \in Requests : ~(req'[o] # Idle /\ req'[o].alone)
    BY <1>2 DEF IInv
<1> QED BY <1>2, <1>4, <1>5 DEF IInv

LEMMA CommitKeeps ==
    ASSUME IInv, NEW q \in Requests, Commit(q)
    PROVE  IInv'
<1> DEFINE r == req[q]
<1>1. /\ r # Idle /\ ~Conflict(q) /\ Done(q)
      /\ line' = Merged(line, r.put) /\ links' = (links \ r.cut) \cup r.add
      /\ parent' = Over(parent, r.parent) /\ dept' = Over(dept, r.dept) /\ post' = Merged(post, r.post)
    BY DEF Commit
<1>2. Stored /\ Sound(dept, r)
    BY DEF IInv
<1> HIDE DEF r
<1>3. Tabled(line') /\ ~Clash(line')
    BY <1>1, <1>2, LineAfter DEF Stored, Conflict, r
<1>4. PostTabled(post')
    BY <1>1, <1>2 DEF Stored, PostTabled, Merged
<1>5. DOMAIN parent' = Departments /\ DOMAIN dept' = Departments
    BY <1>1, <1>2 DEF Stored, Sound, Over
<1>6. \A d \in Departments : dept[d] # "none" => dept'[d] # "none"
    BY <1>1, <1>2 DEF Stored, Sound, Over
<1>7. \A d \in Departments : parent'[d] = IF d \in DOMAIN r.parent THEN r.parent[d] ELSE parent[d]
    BY <1>1, <1>2 DEF Stored, Sound, Over
<1>8. ASSUME NEW e \in DeptEdges(links', parent') PROVE e[2] \in Departments /\ dept[e[2]] # "none"
    <2>1. CASE e \in links'
        <3>1. CASE e \in r.add
            BY <3>1, <1>2 DEF Sound, Made
        <3>2. CASE e \in links
            BY <3>2, <1>2 DEF Stored, Made, DeptEdges
        <3> QED BY <2>1, <3>1, <3>2, <1>1
    <2>2. ASSUME NEW d \in Departments, parent'[d] # "none", e = <<d, parent'[d]>>
          PROVE  e[2] \in Departments /\ dept[e[2]] # "none"
        <3>1. CASE d \in DOMAIN r.parent
            BY <3>1, <2>2, <1>2, <1>7 DEF Sound
        <3>2. CASE d \notin DOMAIN r.parent
            <4>1. <<d, parent[d]>> \in DeptEdges(links, parent) /\ parent'[d] = parent[d]
                BY <3>2, <2>2, <1>7 DEF DeptEdges
            <4> QED BY <4>1, <2>2, <1>2 DEF Stored, Made
        <3> QED BY <3>1, <3>2
    <2> QED BY <2>1, <2>2 DEF DeptEdges
<1>9. Stored'
    BY <1>3, <1>4, <1>5, <1>6, <1>8 DEF Stored, Made
<1> QED BY <1>1, <1>6, <1>9, Ends DEF r

LEMMA RollbackKeeps ==
    ASSUME IInv, NEW q \in Requests, Rollback(q)
    PROVE  IInv'
<1>1. UNCHANGED <<line, links, parent, dept, post>> /\ req[q] # Idle /\ Done(q)
    BY DEF Rollback, rows
<1>2. Stored'
    BY <1>1 DEF IInv, Stored
<1> QED BY <1>1, <1>2, Ends

-----------------------------------------------------------------------------
(* What a request does not write it keeps. *)

LEMMA NothingTypes == DOMAIN Nothing = {}
BY DEF Nothing

LEMMA DeptEdgesAfter ==
    ASSUME Stored, NEW A, NEW C, NEW P, DOMAIN P \subseteq Departments, NEW E,
           links \subseteq E, A \subseteq E,
           \A d \in Departments : parent[d] # "none" => <<d, parent[d]>> \in E,
           \A d \in DOMAIN P : P[d] # "none" => <<d, P[d]>> \in E
    PROVE  DeptEdges((links \ C) \cup A, Over(parent, P)) \subseteq E
<1>1. \A d \in Departments : Over(parent, P)[d] = IF d \in DOMAIN P THEN P[d] ELSE parent[d]
    BY DEF Over, Stored
<1>2. \A d \in Departments : Over(parent, P)[d] # "none" => <<d, Over(parent, P)[d]>> \in E
    BY <1>1
<1> QED BY <1>2 DEF DeptEdges

LEMMA GoodRequest ==
    ASSUME Stored, NEW r, Sound(dept, r), r.op # "none",
           r.put = Nothing \/ (KeepsLines(line, r) /\ KeepsMarked(line, r)),
           (r.add = {} /\ r.parent = Nothing) \/ KeepsLinks(links, parent, r),
           r.post = Nothing \/ KeepsHeld(post, r),
           r.op # "reassign" \/ KeepsReports(line, r)
    PROVE  Good(r)
<1>1. KeepsLines(line, r) /\ KeepsMarked(line, r)
    <2>1. SUFFICES ASSUME r.put = Nothing PROVE KeepsLines(line, r) /\ KeepsMarked(line, r)
        OBVIOUS
    <2> DEFINE u == Merged(line, r.put)
    <2>2. Tabled(line) /\ Tabled(u) /\ \A l \in Lines, c \in Columns : u[l][c] = line[l][c]
        BY <2>1, LineAfter, NothingTypes DEF Stored
    <2> HIDE DEF u
    <2>3. Active(u) = Active(line) /\ \A l \in Lines : u[l].of = line[l].of /\ u[l].to = line[l].to
            /\ u[l].type = line[l].type /\ u[l].primary = line[l].primary
        BY <2>2 DEF Active, Columns
    <2>4. Edges(u) \subseteq Edges(line)
        BY <2>3 DEF Edges, Active
    <2>5. \A e \in People : Marked(u, e) \subseteq Marked(line, e)
        BY <2>3 DEF Marked, Primaries, Active
    <2> QED BY <2>4, <2>5, FewerEdges DEF KeepsLines, KeepsMarked, One, u
<1>2. KeepsLinks(links, parent, r)
    <2>1. SUFFICES ASSUME r.add = {}, r.parent = Nothing PROVE KeepsLinks(links, parent, r)
        OBVIOUS
    <2>2. DeptEdges((links \ r.cut) \cup r.add, Over(parent, r.parent)) \subseteq DeptEdges(links, parent)
        <3> DEFINE E == DeptEdges(links, parent)
        <3>1. links \subseteq E /\ \A d \in Departments : parent[d] # "none" => <<d, parent[d]>> \in E
            BY DEF DeptEdges
        <3> HIDE DEF E
        <3>2. DeptEdges((links \ r.cut) \cup r.add, Over(parent, r.parent)) \subseteq E
            BY <2>1, <3>1, NothingTypes, DeptEdgesAfter
        <3> QED BY <3>2 DEF E
    <2> QED BY <2>2, FewerEdges DEF KeepsLinks
<1>3. KeepsHeld(post, r)
    <2>1. SUFFICES ASSUME r.post = Nothing PROVE KeepsHeld(post, r)
        OBVIOUS
    <2>2. \A x \in Posts : /\ Merged(post, r.post)[x].status = post[x].status
                           /\ Merged(post, r.post)[x].primary = post[x].primary
        BY <2>1, NothingTypes DEF Merged, Stored, PostTabled, PostColumns
    <2>3. \A e \in People : Held(Merged(post, r.post), e) \subseteq Held(post, e)
        BY <2>2 DEF Held
    <2> QED BY <2>3 DEF KeepsHeld, One
<1> QED BY <1>1, <1>2, <1>3 DEF Good, Keeps, KeepsReports

-----------------------------------------------------------------------------
(* Reporting lines. *)

LEMMA GoodLineRequest ==
    ASSUME Stored, NEW op, op # "none", NEW put, NEW u, u = Merged(line, put), NEW r,
           \/ r = [Idle EXCEPT !.op = op, !.put = put]
           \/ \E who : r = [Idle EXCEPT !.op = op, !.who = who, !.put = put],
           Acyclic(Edges(line), People) => Acyclic(Edges(u), People),
           \A e \in People : One(Marked(line, e)) => One(Marked(u, e)),
           op = "reassign" => HandedOver(line, u, r.who[1], r.who[2]) /\ ~Clash(u)
    PROVE  Good(r)
<1>1. DOMAIN r = Fields /\ r.op = op /\ r.put = put /\ r.add = {} /\ r.born = {} /\ r.parent = Nothing
      /\ r.dept = Nothing /\ r.post = Nothing
    BY DEF Idle, Fields
<1>3. Sound(dept, r)
    BY <1>1, NothingTypes DEF Sound, Made
<1>4. KeepsLines(line, r)
    BY <1>1 DEF KeepsLines
<1>5. KeepsMarked(line, r)
    BY <1>1 DEF KeepsMarked
<1>6. KeepsReports(line, r)
    BY <1>1 DEF KeepsReports
<1> QED BY <1>1, <1>3, <1>4, <1>5, <1>6, GoodRequest

(* No edge is new but those to one manager. *)
LEMMA EdgesGrow ==
    ASSUME NEW t, NEW u, NEW R, NEW m,
           \A l \in Active(u) : \/ l \in Active(t) /\ u[l].of = t[l].of /\ u[l].to = t[l].to
                                \/ u[l].of \in R /\ u[l].to = m
    PROVE  Edges(u) \subseteq Edges(t) \cup (R \X {m})
<1> SUFFICES ASSUME NEW l \in Active(u) PROVE <<u[l].of, u[l].to>> \in Edges(t) \cup (R \X {m})
    BY DEF Edges
<1>1. CASE l \in Active(t) /\ u[l].of = t[l].of /\ u[l].to = t[l].to
    BY <1>1 DEF Edges
<1> QED BY <1>1

(* Lines end. *)
LEMMA EndedAre ==
    ASSUME NEW t, Tabled(t), NEW S \in SUBSET Lines
    PROVE  /\ Tabled(Merged(t, Ended(S)))
           /\ \A l \in Lines : /\ Merged(t, Ended(S))[l].of = t[l].of /\ Merged(t, Ended(S))[l].to = t[l].to
                               /\ Merged(t, Ended(S))[l].type = t[l].type
                               /\ Merged(t, Ended(S))[l].scope = t[l].scope
                               /\ Merged(t, Ended(S))[l].primary = t[l].primary
                               /\ l \in S => Merged(t, Ended(S))[l].status = "inactive"
                               /\ l \notin S => Merged(t, Ended(S))[l].status = t[l].status
<1>1. DOMAIN Ended(S) = S /\ \A l \in S : DOMAIN Ended(S)[l] = {"status"} /\ Ended(S)[l]["status"] = "inactive"
    BY DEF Ended
<1> QED BY <1>1, LineAfter DEF Columns

LEMMA RemoveLineGood ==
    ASSUME IInv, NEW q \in Requests, RemoveLine(q)
    PROVE  \E r : Begin(q, r) /\ Good(r)
<1>1. PICK k \in Active(line) : Begin(q, [Idle EXCEPT !.op = "remove", !.put = Ended({k})])
    BY DEF RemoveLine
<1>2. PICK e : e = Ended({k})
    OBVIOUS
<1>3. PICK u : u = Merged(line, e)
    OBVIOUS
<1>4. Stored /\ Tabled(line) /\ {k} \in SUBSET Lines
    BY DEF IInv, Stored, Active
<1>5. \A l \in Active(u) : l \in Active(line) /\ u[l].of = line[l].of /\ u[l].to = line[l].to
                           /\ u[l].type = line[l].type /\ u[l].primary = line[l].primary
    BY <1>2, <1>3, <1>4, EndedAre DEF Active
<1>6. Edges(u) \subseteq Edges(line)
    BY <1>5 DEF Edges
<1>7. \A p \in People : Marked(u, p) \subseteq Marked(line, p)
    BY <1>5 DEF Marked, Primaries
<1>8. Acyclic(Edges(line), People) => Acyclic(Edges(u), People)
    BY <1>6, FewerEdges
<1>9. \A p \in People : One(Marked(line, p)) => One(Marked(u, p))
    BY <1>7 DEF One
<1>10. PICK r : r = [Idle EXCEPT !.op = "remove", !.put = e]
    OBVIOUS
<1>11. Good(r)
    BY <1>3, <1>4, <1>8, <1>9, <1>10, GoodLineRequest
<1> QED BY <1>1, <1>2, <1>10, <1>11

(* What an appointment to table t writes: one line that was not active, to the manager. *)
LEMMA AppointedIs ==
    ASSUME NEW t, Tabled(t), NEW e, NEW m, NEW ty, NEW s, NEW p, Appointable(t, e, m, ty, s, p),
           \A l \in Free : t[l].status = "none",
           NEW a, a = Appointed(t, e, m, ty, s, p)
    PROVE  /\ DOMAIN a \subseteq Lines /\ One(DOMAIN a) /\ DOMAIN a \cap Active(t) = {}
           /\ \A l \in DOMAIN a : /\ DOMAIN a[l] \subseteq Columns /\ "status" \in DOMAIN a[l]
                                  /\ a[l]["status"] = "active"
                                  /\ "of" \in DOMAIN a[l] => a[l]["of"] = e
                                  /\ "of" \notin DOMAIN a[l] => t[l].of = e
                                  /\ "to" \in DOMAIN a[l] => a[l]["to"] = m
                                  /\ "to" \notin DOMAIN a[l] => t[l].to = m
                                  /\ "type" \in DOMAIN a[l] => a[l]["type"] = ty
                                  /\ "type" \notin DOMAIN a[l] => t[l].type = ty
                                  /\ "primary" \in DOMAIN a[l] => a[l]["primary"] = p
                                  /\ "primary" \notin DOMAIN a[l] => t[l].primary = p
<1>1. CASE Exact(t, e, m, ty, s) = {}
    <2>1. Free # {}
        BY <1>1 DEF Appointable
    <2>2. NextFree \in Free /\ Free \subseteq Lines
        BY <2>1 DEF NextFree, Free
    <2>3. PICK k \in Free : k = NextFree
        BY <2>2
    <2>4. PICK row : row = [of |-> e, to |-> m, type |-> ty, scope |-> s, status |-> "active", primary |-> p]
        OBVIOUS
    <2>5. DOMAIN row = Columns /\ row["of"] = e /\ row["to"] = m /\ row["type"] = ty /\ row["status"] = "active"
          /\ row["primary"] = p
        BY <2>4 DEF Columns
    <2>6. a = At(k, row)
        BY <1>1, <2>3, <2>4 DEF Appointed
    <2>7. DOMAIN a = {k} /\ a[k] = row
        BY <2>6 DEF At
    <2>8. k \in Lines /\ k \notin Active(t)
        BY <2>2 DEF Active
    <2> QED BY <2>5, <2>7, <2>8 DEF Columns, One
<1>2. CASE Exact(t, e, m, ty, s) # {}
    <2> DEFINE X == Exact(t, e, m, ty, s)
               new == [status |-> "active", primary |-> p]
    <2>1. a = [l \in X |-> Changed(t[l], new)]
        BY <1>2 DEF Appointed
    <2>2. DOMAIN new = {"status", "primary"} /\ new["status"] = "active" /\ new["primary"] = p
        OBVIOUS
    <2>3. X \subseteq Lines /\ One(X) /\ \A l \in X : t[l].status = "inactive" /\ t[l].of = e /\ t[l].to = m /\ t[l].type = ty
        BY DEF Appointable, Exact
    <2> HIDE DEF X, new
    <2>4. \A l \in X : DOMAIN Changed(t[l], new) = {d \in {"status", "primary"} : t[l][d] # new[d]}
                       /\ \A c \in DOMAIN Changed(t[l], new) : Changed(t[l], new)[c] = new[c]
        BY <2>2 DEF Changed
    <2>5. DOMAIN a = X /\ \A l \in X : DOMAIN a[l] = {d \in {"status", "primary"} : t[l][d] # new[d]}
                                       /\ \A c \in DOMAIN a[l] : a[l][c] = new[c]
        <3>1. DOMAIN a = X /\ \A l \in X : a[l] = Changed(t[l], new)
            BY <2>1
        <3>2. ASSUME NEW l \in X
              PROVE  /\ DOMAIN a[l] = {d \in {"status", "primary"} : t[l][d] # new[d]}
                     /\ \A c \in DOMAIN a[l] : a[l][c] = new[c]
            <4>1. PICK b : b = Changed(t[l], new)
                OBVIOUS
            <4>2. DOMAIN b = {d \in {"status", "primary"} : t[l][d] # new[d]} /\ \A c \in DOMAIN b : b[c] = new[c]
                BY <2>4, <4>1
            <4>3. a[l] = b
                BY <3>1, <4>1
            <4> QED BY <4>2, <4>3
        <3> QED BY <3>1, <3>2
    <2>6. X \cap Active(t) = {}
        BY <2>3 DEF Active
    <2> QED BY <2>2, <2>3, <2>5, <2>6 DEF Columns
<1> QED BY <1>1, <1>2

(* A table that has such an appointment besides. *)
LEMMA AppointmentKeeps ==
    ASSUME NEW t, Tabled(t), NEW e \in People, NEW m \in People, NEW ty, NEW s, NEW p \in BOOLEAN,
           Appointable(t, e, m, ty, s, p), \A l \in Free : t[l].status = "none",
           NEW a, a = Appointed(t, e, m, ty, s, p), NEW u,
           \A l \in Lines, c \in Columns :
                /\ l \notin DOMAIN a => u[l][c] = t[l][c]
                /\ l \in DOMAIN a /\ c \in DOMAIN a[l] => u[l][c] = a[l][c]
                /\ l \in DOMAIN a /\ c \notin DOMAIN a[l] => u[l][c] = t[l][c]
    PROVE  /\ Acyclic(Edges(t), People) => Acyclic(Edges(u), People)
           /\ \A x \in People : One(Marked(t, x)) => One(Marked(u, x))
<1>1. /\ DOMAIN a \subseteq Lines /\ One(DOMAIN a) /\ DOMAIN a \cap Active(t) = {}
      /\ \A l \in DOMAIN a : u[l].of = e /\ u[l].to = m /\ u[l].type = ty /\ u[l].primary = p /\ u[l].status = "active"
    BY AppointedIs DEF Columns
<1>2. \A l \in Lines \ DOMAIN a : /\ u[l].of = t[l].of /\ u[l].to = t[l].to /\ u[l].type = t[l].type
                                  /\ u[l].primary = t[l].primary /\ u[l].status = t[l].status
    BY DEF Columns
<1>3. \A l \in Active(u) : \/ l \in Active(t) /\ u[l].of = t[l].of /\ u[l].to = t[l].to
                           \/ u[l].of \in {e} /\ u[l].to = m
    BY <1>1, <1>2 DEF Active
<1>4. Edges(u) \subseteq Edges(t) \cup ({e} \X {m})
    BY <1>3, EdgesGrow
<1>5. {e} \cap Above(m, Edges(t), People) = {}
    BY DEF Appointable, Loops
<1>6. Acyclic(Edges(t), People) => Acyclic(Edges(u), People)
    <2>1. PICK R : R = {e}
        OBVIOUS
    <2>2. PICK E : E = Edges(t)
        OBVIOUS
    <2>3. PICK F : F = Edges(u)
        OBVIOUS
    <2>4. R \cap Above(m, E, People) = {}
        BY <1>5, <2>1, <2>2
    <2>5. F \subseteq E \cup (R \X {m})
        BY <1>4, <2>1, <2>2, <2>3
    <2>6. Acyclic(E, People) => Acyclic(F, People)
        BY ONLY <2>4, <2>5, EdgesBelow
    <2> QED BY <2>2, <2>3, <2>6
<1>7. ASSUME NEW x \in People, One(Marked(t, x)) PROVE One(Marked(u, x))
    <2>1. \A l \in Marked(u, x) : l \in Marked(t, x) \/ (l \in DOMAIN a /\ x = e /\ ty = "primary" /\ p)
        BY <1>1, <1>2 DEF Marked, Primaries, Active
    <2>2. p /\ ty = "primary" => Marked(t, e) = {}
        BY DEF Appointable, Marked
    <2> QED BY <1>1, <1>7, <2>1, <2>2 DEF One
<1> QED BY <1>6, <1>7

LEMMA CreateLineGood ==
    ASSUME IInv, NEW q \in Requests, CreateLine(q)
    PROVE  \E r : Begin(q, r) /\ Good(r)
<1>1. PICK e \in People, m \in People, ty \in Types, s \in Scopes, p \in BOOLEAN :
        /\ Appointable(line, e, m, ty, s, p)
        /\ Begin(q, [Idle EXCEPT !.op = "create", !.put = Appointed(line, e, m, ty, s, p)])
    BY DEF CreateLine
<1>2. PICK a : a = Appointed(line, e, m, ty, s, p)
    OBVIOUS
<1>3. PICK u : u = Merged(line, a)
    OBVIOUS
<1>4. Stored /\ Tabled(line) /\ \A l \in Free : line[l].status = "none"
    BY DEF IInv, Stored, Free
<1>5. \A l \in Lines, c \in Columns : u[l][c] = IF l \in DOMAIN a /\ c \in DOMAIN a[l] THEN a[l][c] ELSE line[l][c]
    BY <1>3, <1>4, LineAfter
<1>6. /\ Acyclic(Edges(line), People) => Acyclic(Edges(u), People)
      /\ \A x \in People : One(Marked(line, x)) => One(Marked(u, x))
    BY <1>1, <1>2, <1>4, <1>5, AppointmentKeeps
<1>7. PICK r : r = [Idle EXCEPT !.op = "create", !.put = a]
    OBVIOUS
<1>8. Good(r)
    BY <1>3, <1>4, <1>6, <1>7, GoodLineRequest
<1> QED BY <1>1, <1>2, <1>7, <1>8

LEMMA SetManagerGood ==
    ASSUME IInv, NEW q \in Requests, SetManager(q)
    PROVE  \E r : Begin(q, r) /\ Good(r)
<1>1. PICK e \in People, m \in People :
        LET ended == Ended(Primaries(line, e))
            table == Merged(line, ended)
        IN  /\ Appointable(table, e, m, "primary", "everywhere", TRUE)
            /\ Begin(q, [Idle EXCEPT !.op = "setManager",
                    !.put = Over(ended, Appointed(table, e, m, "primary", "everywhere", TRUE))])
    BY DEF SetManager
<1>23. PICK p \in BOOLEAN : p = TRUE
    OBVIOUS
<1>2. PICK d : d = Ended(Primaries(line, e))
    OBVIOUS
<1>3. PICK t : t = Merged(line, d)
    OBVIOUS
<1>4. PICK a : a = Appointed(t, e, m, "primary", "everywhere", p)
    OBVIOUS
<1>5. PICK put : put = Over(d, a)
    OBVIOUS
<1>6. PICK u : u = Merged(line, put)
    OBVIOUS
<1>7. Stored /\ Tabled(line) /\ Primaries(line, e) \in SUBSET Lines
    BY DEF IInv, Stored, Primaries, Active
<1>8. /\ Tabled(t) /\ \A l \in Lines : /\ t[l].of = line[l].of /\ t[l].to = line[l].to /\ t[l].type = line[l].type
                                       /\ t[l].primary = line[l].primary
                                       /\ t[l].status = line[l].status \/ t[l].status = "inactive"
      /\ \A l \in Lines : l \notin Primaries(line, e) => t[l].status = line[l].status
    BY <1>2, <1>3, <1>7, EndedAre
<1>9. \A l \in Free : t[l].status = "none"
    BY <1>8 DEF Free, Primaries, Active
<1>10. Appointable(t, e, m, "primary", "everywhere", p)
    BY <1>1, <1>2, <1>3, <1>23
<1>11. DOMAIN d = Primaries(line, e) /\ \A l \in DOMAIN d : DOMAIN d[l] = {"status"}
    BY <1>2 DEF Ended
<1>12. \A l \in DOMAIN a : DOMAIN a[l] \subseteq Columns /\ "status" \in DOMAIN a[l]
    BY <1>4, <1>8, <1>9, <1>10, AppointedIs
<1>13. DOMAIN put = DOMAIN d \cup DOMAIN a /\ \A l \in DOMAIN put : put[l] = IF l \in DOMAIN a THEN a[l] ELSE d[l]
    BY <1>5 DEF Over
<1>14. \A l \in Lines, c \in Columns : u[l][c] = IF l \in DOMAIN put /\ c \in DOMAIN put[l] THEN put[l][c] ELSE line[l][c]
    BY <1>6, <1>7, LineAfter
<1>15. \A l \in Lines, c \in Columns : t[l][c] = IF l \in DOMAIN d /\ c \in DOMAIN d[l] THEN d[l][c] ELSE line[l][c]
    BY <1>3, <1>7, LineAfter
<1>16. \A l \in Lines, c \in Columns :
            /\ l \notin DOMAIN a => u[l][c] = t[l][c]
            /\ l \in DOMAIN a /\ c \in DOMAIN a[l] => u[l][c] = a[l][c]
            /\ l \in DOMAIN a /\ c \notin DOMAIN a[l] => u[l][c] = t[l][c]
    BY <1>11, <1>12, <1>13, <1>14, <1>15
<1>17. /\ Acyclic(Edges(t), People) => Acyclic(Edges(u), People)
       /\ \A x \in People : One(Marked(t, x)) => One(Marked(u, x))
    BY <1>4, <1>8, <1>9, <1>10, <1>16, AppointmentKeeps
<1>18. Active(t) \subseteq Active(line)
    BY <1>8 DEF Active
<1>19. Edges(t) \subseteq Edges(line) /\ \A x \in People : Marked(t, x) \subseteq Marked(line, x)
    BY <1>8, <1>18 DEF Edges, Marked, Primaries, Active
<1>20. /\ Acyclic(Edges(line), People) => Acyclic(Edges(u), People)
       /\ \A x \in People : One(Marked(line, x)) => One(Marked(u, x))
    <2>1. Acyclic(Edges(line), People) => Acyclic(Edges(t), People)
        BY <1>19, FewerEdges
    <2>2. \A x \in People : One(Marked(line, x)) => One(Marked(t, x))
        BY <1>19 DEF One
    <2> QED BY <1>17, <2>1, <2>2
<1>21. PICK r : r = [Idle EXCEPT !.op = "setManager", !.put = put]
    OBVIOUS
<1>22. Good(r)
    BY <1>6, <1>7, <1>20, <1>21, GoodLineRequest
<1> QED BY <1>1, <1>2, <1>3, <1>4, <1>5, <1>21, <1>22, <1>23

(* A handover: the lines in M turn to the new manager, the others to the old one end. *)
LEMMA ReassignGood ==
    ASSUME IInv, NEW q \in Requests, Reassign(q)
    PROVE  \E r : Begin(q, r) /\ Good(r)
<1>1. PICK from \in People, to \in People :
        /\ from # to
        /\ \A l \in Handed(from) : ~Loops(line, line[l].of, to)
        /\ Begin(q, [Idle EXCEPT !.op = "reassign", !.who = <<from, to>>, !.put =
            [l \in Handed(from) |->
                IF \/ Exact(line, line[l].of, to, line[l].type, line[l].scope) # {}
                   \/ l # CHOOSE k \in Twins(l, Handed(from)) : TRUE
                THEN [status |-> "inactive"] ELSE At("to", to)]])
    BY DEF Reassign
<1>2. PICK put : put = [l \in Handed(from) |->
                IF \/ Exact(line, line[l].of, to, line[l].type, line[l].scope) # {}
                   \/ l # CHOOSE k \in Twins(l, Handed(from)) : TRUE
                THEN [status |-> "inactive"] ELSE At("to", to)]
    OBVIOUS
<1>3. PICK u : u = Merged(line, put)
    OBVIOUS
<1>4. PICK H \in SUBSET Lines : H = Handed(from)
    BY DEF Handed, Reports, Active
<1>5. PICK M \in SUBSET H : \A l \in H : l \in M <=>
        /\ Exact(line, line[l].of, to, line[l].type, line[l].scope) = {}
        /\ l = CHOOSE k \in Twins(l, H) : TRUE
    <2>1. {l \in H : /\ Exact(line, line[l].of, to, line[l].type, line[l].scope) = {}
                     /\ l = CHOOSE k \in Twins(l, H) : TRUE} \in SUBSET H
        OBVIOUS
    <2> QED BY <2>1
<1>6. DOMAIN put = H /\ \A l \in H : put[l] = IF l \in M THEN At("to", to) ELSE [status |-> "inactive"]
    BY <1>2, <1>4, <1>5
<1>7. Stored /\ Tabled(line) /\ ~Clash(line)
    BY DEF IInv, Stored
<1>8. \A l \in H : l \in Active(line) /\ line[l].to = from /\ line[l].status = "active"
    BY <1>4 DEF Handed, Reports, Active
<1>9. \A l \in Lines \ H : l \in Active(line) => line[l].to # from
    BY <1>4 DEF Handed, Reports, Active
<1>10. \A l \in M : DOMAIN put[l] = {"to"} /\ put[l]["to"] = to
    BY <1>6 DEF At
<1>11. \A l \in H \ M : DOMAIN put[l] = {"status"} /\ put[l]["status"] = "inactive"
    BY <1>6
<1>12. \A l \in Lines, c \in Columns : u[l][c] = IF l \in DOMAIN put /\ c \in DOMAIN put[l] THEN put[l][c] ELSE line[l][c]
    BY <1>3, <1>7, LineAfter
<1>13. \A l \in Lines : /\ u[l].of = line[l].of /\ u[l].type = line[l].type /\ u[l].scope = line[l].scope
                        /\ u[l].primary = line[l].primary
                        /\ u[l].to = IF l \in M THEN to ELSE line[l].to
                        /\ u[l].status = IF l \in H \ M THEN "inactive" ELSE line[l].status
    BY <1>6, <1>10, <1>11, <1>12 DEF Columns
<1>14. Acyclic(Edges(line), People) => Acyclic(Edges(u), People)
    <2>1. PICK R : R = {line[l].of : l \in H}
        OBVIOUS
    <2>2. R \cap Above(to, Edges(line), People) = {}
        BY <1>1, <1>4, <2>1 DEF Loops
    <2>3. \A l \in Active(u) : \/ l \in Active(line) /\ u[l].of = line[l].of /\ u[l].to = line[l].to
                               \/ u[l].of \in R /\ u[l].to = to
        BY <1>13, <2>1 DEF Active
    <2>4. Edges(u) \subseteq Edges(line) \cup (R \X {to})
        BY <2>3, EdgesGrow
    <2>5. PICK E : E = Edges(line)
        OBVIOUS
    <2>6. PICK G : G = Edges(u)
        OBVIOUS
    <2>7. R \cap Above(to, E, People) = {} /\ G \subseteq E \cup (R \X {to})
        BY <2>2, <2>4, <2>5, <2>6
    <2>8. Acyclic(E, People) => Acyclic(G, People)
        BY ONLY <2>7, EdgesBelow
    <2> QED BY <2>5, <2>6, <2>8
<1>15. \A x \in People : One(Marked(line, x)) => One(Marked(u, x))
    <2>1. \A x \in People : Marked(u, x) \subseteq Marked(line, x)
        BY <1>13 DEF Marked, Primaries, Active
    <2> QED BY <2>1 DEF One
<1>16. \A k, l \in H : /\ line[k].of = line[l].of /\ line[k].type = line[l].type /\ line[k].scope = line[l].scope
                       /\ k \in M /\ l \in M
                       => k = l
    <2>1. ASSUME NEW k \in H, NEW l \in H, k \in M, l \in M,
                 line[k].of = line[l].of, line[k].type = line[l].type, line[k].scope = line[l].scope
          PROVE  k = l
        <3>1. Twins(k, H) = Twins(l, H)
            BY <2>1 DEF Twins
        <3> QED BY <1>5, <2>1, <3>1
    <2> QED BY <2>1
<1>17. HandedOver(line, u, from, to)
    <2>1. SUFFICES ASSUME NEW l \in Active(line), line[l].to = from
                   PROVE  /\ u[l].to = from => l \notin Active(u)
                          /\ EndedBefore(l, line, to) \/ Taken(l, line, u, to)
        BY DEF HandedOver
    <2>2. l \in H /\ l \in Lines
        BY <1>9, <2>1 DEF Active
    <2>3. u[l].to = from => l \notin Active(u)
        BY <1>1, <1>13, <2>2 DEF Active
    <2>4. CASE Exact(line, line[l].of, to, line[l].type, line[l].scope) # {}
        <3>1. PICK k \in Exact(line, line[l].of, to, line[l].type, line[l].scope) : TRUE
            BY <2>4
        <3>2. /\ k \in Lines /\ line[k].status # "none" /\ line[k].of = line[l].of /\ line[k].to = to
              /\ line[k].type = line[l].type /\ line[k].scope = line[l].scope
            BY <3>1 DEF Exact
        <3>3. k \notin H
            BY <1>1, <1>8, <3>2
        <3>4. CASE line[k].status # "active"
            BY <2>3, <3>1, <3>4 DEF EndedBefore, Active
        <3>5. CASE line[k].status = "active"
            <4>1. k \in Exact(u, line[l].of, to, line[l].type, line[l].scope) /\ k \in Active(u)
                BY <1>13, <3>2, <3>3, <3>5 DEF Exact, Active
            <4> QED BY <2>3, <4>1 DEF Taken
        <3> QED BY <3>4, <3>5
    <2>5. CASE Exact(line, line[l].of, to, line[l].type, line[l].scope) = {}
        <3>1. PICK k : k = CHOOSE j \in Twins(l, H) : TRUE
            OBVIOUS
        <3>2. l \in Twins(l, H)
            BY <2>2 DEF Twins
        <3>3. k \in Twins(l, H)
            BY <3>1, <3>2
        <3>4. k \in H /\ line[k].of = line[l].of /\ line[k].type = line[l].type /\ line[k].scope = line[l].scope
            BY <3>3 DEF Twins
        <3>5. Twins(k, H) = Twins(l, H)
            BY <3>4 DEF Twins
        <3>6. k \in M
            BY <1>5, <2>5, <3>1, <3>4, <3>5
        <3>7. k \in Exact(u, line[l].of, to, line[l].type, line[l].scope) /\ k \in Active(u)
            BY <1>8, <1>13, <3>4, <3>6 DEF Exact, Active
        <3> QED BY <2>3, <3>7 DEF Taken
    <2> QED BY <2>4, <2>5
<1>18. ~Clash(u)
    <2>1. SUFFICES ASSUME NEW k \in Lines, NEW l \in Lines, k # l, u[k].status # "none", u[l].status # "none",
                          u[k].scope # "everywhere", u[k].of = u[l].of, u[k].to = u[l].to,
                          u[k].type = u[l].type, u[k].scope = u[l].scope
                   PROVE  FALSE
        BY DEF Clash
    <2>2. /\ line[k].status # "none" /\ line[l].status # "none" /\ line[k].scope # "everywhere"
          /\ line[k].of = line[l].of /\ line[k].type = line[l].type /\ line[k].scope = line[l].scope
        BY <1>8, <1>13, <2>1
    <2>3. line[k].to # line[l].to
        <3>1. SUFFICES ASSUME line[k].to = line[l].to PROVE FALSE
            OBVIOUS
        <3>2. \A c \in {"of", "to", "type", "scope"} : line[k][c] = line[l][c]
            BY <2>2, <3>1
        <3> QED BY <1>7, <2>1, <2>2, <3>2 DEF Clash
    <2>4. ASSUME NEW x \in M, NEW y \in Lines \ M, line[y].to = to, line[y].status # "none",
                 line[x].of = line[y].of, line[x].type = line[y].type, line[x].scope = line[y].scope
          PROVE  FALSE
        <3>1. y \in Exact(line, line[x].of, to, line[x].type, line[x].scope)
            BY <2>4 DEF Exact
        <3> QED BY <1>5, <2>4, <3>1
    <2>5. CASE k \in M /\ l \in M
        BY <1>16, <2>1, <2>2, <2>5
    <2>6. CASE k \in M /\ l \notin M
        BY <1>13, <2>1, <2>2, <2>4, <2>6
    <2>7. CASE k \notin M /\ l \in M
        BY <1>13, <2>1, <2>2, <2>4, <2>7
    <2>8. CASE k \notin M /\ l \notin M
        BY <1>13, <2>1, <2>3, <2>8
    <2> QED BY <2>5, <2>6, <2>7, <2>8
<1>19. PICK who : who = <<from, to>>
    OBVIOUS
<1>20. who[1] = from /\ who[2] = to
    BY <1>19
<1>21. PICK r : r = [Idle EXCEPT !.op = "reassign", !.who = who, !.put = put]
    OBVIOUS
<1>22. r.who = who
    BY <1>21 DEF Idle
<1>23. HandedOver(line, u, r.who[1], r.who[2]) /\ ~Clash(u)
    BY <1>17, <1>18, <1>20, <1>22
<1>24. \E w : r = [Idle EXCEPT !.op = "reassign", !.who = w, !.put = put]
    BY <1>21
<1>25. Good(r)
    BY <1>3, <1>7, <1>14, <1>15, <1>23, <1>24, GoodLineRequest
<1>26. Begin(q, r)
    BY <1>1, <1>2, <1>19, <1>21
<1> QED BY <1>25, <1>26

-----------------------------------------------------------------------------
(* Departments. *)

(* Every new edge leads from R to p, and p does not lie under R. *)
LEMMA GoodLinkRequest ==
    ASSUME Stored, NEW r, DOMAIN r = Fields, r.op \notin {"none", "reassign"},
           r.put = Nothing, r.post = Nothing, r.dept = Nothing,
           NEW E, E = DeptEdges(links, parent), NEW R, NEW p,
           R = {} \/ (p \in Departments /\ dept[p] # "none"),
           R \cap Above(p, E, Departments) = {},
           r.add \subseteq E \cup (R \X {p}),
           DOMAIN r.parent \subseteq Departments,
           \A d \in DOMAIN r.parent : r.parent[d] # "none" => <<d, r.parent[d]>> \in E \cup (R \X {p})
    PROVE  Good(r)
<1> DEFINE F == E \cup (R \X {p})
<1>1. \A e \in F : e[2] \in Departments /\ dept[e[2]] # "none"
    <2>1. \A e \in E : e[2] \in Departments /\ dept[e[2]] # "none"
        BY DEF Stored, Made
    <2>2. \A e \in R \X {p} : e[2] = p /\ R # {}
        OBVIOUS
    <2> QED BY <2>1, <2>2
<1>2. Made(dept, r.add)
    BY <1>1 DEF Made
<1>3. \A d \in DOMAIN r.parent : r.parent[d] # "none" => r.parent[d] \in Departments /\ dept[r.parent[d]] # "none"
    <2>1. SUFFICES ASSUME NEW d \in DOMAIN r.parent, r.parent[d] # "none"
                   PROVE  r.parent[d] \in Departments /\ dept[r.parent[d]] # "none"
        OBVIOUS
    <2>2. <<d, r.parent[d]>> \in F
        BY <2>1
    <2>3. <<d, r.parent[d]>>[2] = r.parent[d]
        OBVIOUS
    <2> QED BY <1>1, <2>2, <2>3
<1>4. Sound(dept, r)
    BY <1>2, <1>3, NothingTypes DEF Sound
<1>5. links \subseteq F /\ \A d \in Departments : parent[d] # "none" => <<d, parent[d]>> \in F
    BY DEF DeptEdges
<1>6. KeepsLinks(links, parent, r)
    <2> HIDE DEF F
    <2>1. DeptEdges((links \ r.cut) \cup r.add, Over(parent, r.parent)) \subseteq F
        <3>1. r.add \subseteq F /\ \A d \in DOMAIN r.parent : r.parent[d] # "none" => <<d, r.parent[d]>> \in F
            BY DEF F
        <3> QED BY <1>5, <3>1, DeptEdgesAfter
    <2>2. F = E \cup (R \X {p})
        BY DEF F
    <2>3. PICK G : G = DeptEdges((links \ r.cut) \cup r.add, Over(parent, r.parent))
        OBVIOUS
    <2>4. G \subseteq E \cup (R \X {p})
        BY <2>1, <2>2, <2>3
    <2>5. Acyclic(E, Departments) => Acyclic(G, Departments)
        BY <2>4, EdgesBelow
    <2> QED BY <2>3, <2>5 DEF KeepsLinks
<1> QED BY <1>4, <1>6, GoodRequest

(* Links the older column knows. *)
LEMMA SyncedAre ==
    ASSUME NEW s \in Departments, NEW L, NEW Q, NEW E,
           \A d \in Departments : Q[d] # "none" => <<d, Q[d]>> \in E
    PROVE  Synced(s, L, Q) \subseteq E
<1>1. "none" \notin Departments /\ Live \subseteq Departments
    BY NamesAssumption DEF Live
<1>2. ASSUME NEW p \in {Q[s]} \cap Live PROVE <<s, p>> \in E
    BY <1>1, <1>2
<1>3. ASSUME NEW c \in Live, Q[c] = s PROVE <<c, s>> \in E
    BY <1>1, <1>3
<1> QED BY <1>2, <1>3 DEF Synced

LEMMA AtIs == ASSUME NEW x, NEW v PROVE DOMAIN At(x, v) = {x} /\ At(x, v)[x] = v
BY DEF At

LEMMA AddLinkGood ==
    ASSUME IInv, NEW q \in Requests, NEW c \in Departments, NEW p \in Departments, NEW s \in {c, p}, AddLink(q, c, p, s)
    PROVE  \E r : Begin(q, r) /\ Good(r)
<1>1. PICK P : P = IF parent[c] = "none" THEN At(c, p) ELSE Nothing
    OBVIOUS
<1>2. PICK new : new = {<<c, p>>} \ links
    OBVIOUS
<1>3. PICK Q : Q = Over(parent, P)
    OBVIOUS
<1>4. PICK A : A = new \cup Synced(s, links \cup new, Q)
    OBVIOUS
<1>5. PICK r : r = [Idle EXCEPT !.op = "link", !.parent = P, !.add = A]
    OBVIOUS
<1>6. /\ p \in Live /\ ~DeptLoops(c, p) /\ Begin(q, r)
    BY <1>1, <1>2, <1>3, <1>4, <1>5 DEF AddLink
<1>7. PICK E : E = DeptEdges(links, parent)
    OBVIOUS
<1>8. PICK R : R = {c}
    OBVIOUS
<1>9. p \in Departments /\ dept[p] # "none" /\ R \cap Above(p, E, Departments) = {}
    BY <1>6, <1>7, <1>8 DEF Live, DeptLoops
<1>10. DOMAIN P \subseteq {c} /\ \A d \in DOMAIN P : P[d] = p
    <2>1. DOMAIN At(c, p) = {c} /\ At(c, p)[c] = p
        BY AtIs
    <2>2. P = At(c, p) \/ P = Nothing
        BY <1>1
    <2> QED BY <2>1, <2>2, NothingTypes
<1>11. Stored
    BY DEF IInv
<1>12. \A d \in Departments : Q[d] = IF d \in DOMAIN P THEN p ELSE parent[d]
    BY <1>3, <1>10, <1>11 DEF Over, Stored
<1>13. <<c, p>> \in R \X {p}
    BY <1>8
<1>14. \A d \in Departments : Q[d] # "none" => <<d, Q[d]>> \in E \cup (R \X {p})
    BY <1>7, <1>10, <1>12, <1>13 DEF DeptEdges
<1>15. A \subseteq E \cup (R \X {p})
    <2>1. PICK F : F = E \cup (R \X {p})
        OBVIOUS
    <2>2. Synced(s, links \cup new, Q) \subseteq F
        BY <1>14, <2>1, SyncedAre
    <2> QED BY <1>2, <1>4, <1>13, <2>1, <2>2
<1>16. \A d \in DOMAIN P : <<d, P[d]>> \in E \cup (R \X {p})
    BY <1>10, <1>13
<1>17. DOMAIN r = Fields /\ r.op = "link" /\ r.put = Nothing /\ r.post = Nothing /\ r.dept = Nothing
       /\ r.add = A /\ r.parent = P
    BY <1>5 DEF Idle, Fields
<1>18. Good(r)
    BY <1>7, <1>9, <1>10, <1>11, <1>15, <1>16, <1>17, GoodLinkRequest
<1> QED BY <1>6, <1>18

LEMMA RemoveLinkGood ==
    ASSUME IInv, NEW q \in Requests, NEW c \in Departments, NEW p \in Departments, NEW s \in {c, p}, RemoveLink(q, c, p, s)
    PROVE  \E r : Begin(q, r) /\ Good(r)
<1>1. PICK L : L = links \ {<<c, p>>}
    OBVIOUS
<1>2. PICK rest \in IF Parents(c, L) = {} THEN {"none"} ELSE Parents(c, L) :
            LET P == IF c \in Live /\ parent[c] # rest THEN At(c, rest) ELSE Nothing
            IN  Begin(q, [Idle EXCEPT !.op = "unlink", !.parent = P, !.cut = {<<c, p>>} \cap links,
                        !.add = Synced(s, L, Over(parent, P))])
    BY <1>1 DEF RemoveLink
<1>3. PICK P : P = IF c \in Live /\ parent[c] # rest THEN At(c, rest) ELSE Nothing
    OBVIOUS
<1>4. PICK Q : Q = Over(parent, P)
    OBVIOUS
<1>5. PICK A : A = Synced(s, L, Q)
    OBVIOUS
<1>6. PICK C : C = {<<c, p>>} \cap links
    OBVIOUS
<1>7. PICK r : r = [Idle EXCEPT !.op = "unlink", !.parent = P, !.cut = C, !.add = A]
    OBVIOUS
<1>8. Begin(q, r)
    BY <1>2, <1>3, <1>4, <1>5, <1>6, <1>7
<1>9. PICK E : E = DeptEdges(links, parent)
    OBVIOUS
<1>10. PICK R : R = {}
    OBVIOUS
<1>11. DOMAIN P \subseteq {c} /\ \A d \in DOMAIN P : P[d] = rest
    <2>1. DOMAIN At(c, rest) = {c} /\ At(c, rest)[c] = rest
        BY AtIs
    <2>2. P = At(c, rest) \/ P = Nothing
        BY <1>3
    <2> QED BY <2>1, <2>2, NothingTypes
<1>12. Stored
    BY DEF IInv
<1>13. \A d \in Departments : Q[d] = IF d \in DOMAIN P THEN rest ELSE parent[d]
    BY <1>4, <1>11, <1>12 DEF Over, Stored
<1>14. rest # "none" => <<c, rest>> \in E
    BY <1>1, <1>2, <1>9 DEF Parents, DeptEdges
<1>15. \A d \in Departments : Q[d] # "none" => <<d, Q[d]>> \in E
    BY <1>9, <1>11, <1>13, <1>14 DEF DeptEdges
<1>16. A \subseteq E
    BY <1>5, <1>15, SyncedAre
<1>17. \A d \in DOMAIN P : P[d] # "none" => <<d, P[d]>> \in E
    BY <1>11, <1>14
<1>18. DOMAIN r = Fields /\ r.op = "unlink" /\ r.put = Nothing /\ r.post = Nothing /\ r.dept = Nothing
       /\ r.add = A /\ r.parent = P
    BY <1>7 DEF Idle, Fields
<1>19. R \cap Above(p, E, Departments) = {} /\ A \subseteq E \cup (R \X {p})
       /\ \A d \in DOMAIN P : P[d] # "none" => <<d, P[d]>> \in E \cup (R \X {p})
    BY <1>10, <1>16, <1>17
<1>20. DOMAIN P \subseteq Departments
    BY <1>11
<1>21. Good(r)
    BY <1>9, <1>10, <1>12, <1>18, <1>19, <1>20, GoodLinkRequest
<1> QED BY <1>8, <1>21

LEMMA MoveGood ==
    ASSUME IInv, NEW q \in Requests, NEW d \in Live, NEW p \in Live, ~DeptLoops(d, p),
           Begin(q, [Idle EXCEPT !.op = "move", !.parent = At(d, p), !.add = {<<d, p>>} \ links])
    PROVE  \E r : Begin(q, r) /\ Good(r)
<1>1. PICK P : P = At(d, p)
    OBVIOUS
<1>2. PICK A : A = {<<d, p>>} \ links
    OBVIOUS
<1>3. PICK r : r = [Idle EXCEPT !.op = "move", !.parent = P, !.add = A]
    OBVIOUS
<1>4. PICK E : E = DeptEdges(links, parent)
    OBVIOUS
<1>5. PICK R : R = {d}
    OBVIOUS
<1>6. p \in Departments /\ dept[p] # "none" /\ R \cap Above(p, E, Departments) = {}
    BY <1>4, <1>5 DEF Live, DeptLoops
<1>7. DOMAIN P = {d} /\ P[d] = p
    BY <1>1, AtIs
<1>8. <<d, p>> \in R \X {p}
    BY <1>5
<1>9. A \subseteq E \cup (R \X {p}) /\ \A x \in DOMAIN P : <<x, P[x]>> \in E \cup (R \X {p})
    BY <1>2, <1>7, <1>8
<1>10. DOMAIN P \subseteq Departments /\ Stored
    BY <1>7 DEF IInv, Live
<1>11. DOMAIN r = Fields /\ r.op = "move" /\ r.put = Nothing /\ r.post = Nothing /\ r.dept = Nothing
       /\ r.add = A /\ r.parent = P
    BY <1>3 DEF Idle, Fields
<1>12. Good(r)
    BY <1>4, <1>6, <1>9, <1>10, <1>11, GoodLinkRequest
<1> QED BY <1>1, <1>2, <1>3, <1>12

LEMMA UnsetGood ==
    ASSUME IInv, NEW q \in Requests, NEW d \in Live,
           Begin(q, [Idle EXCEPT !.op = "unset", !.parent = At(d, "none"), !.cut = {<<d, parent[d]>>} \cap links])
    PROVE  \E r : Begin(q, r) /\ Good(r)
<1>1. PICK P : P = At(d, "none")
    OBVIOUS
<1>2. PICK C : C = {<<d, parent[d]>>} \cap links
    OBVIOUS
<1>3. PICK r : r = [Idle EXCEPT !.op = "unset", !.parent = P, !.cut = C]
    OBVIOUS
<1>4. PICK E : E = DeptEdges(links, parent)
    OBVIOUS
<1>5. PICK R : R = {}
    OBVIOUS
<1>6. DOMAIN P = {d} /\ P[d] = "none"
    BY <1>1, AtIs
<1>7. R \cap Above(d, E, Departments) = {} /\ {} \subseteq E \cup (R \X {d})
      /\ \A x \in DOMAIN P : P[x] # "none" => <<x, P[x]>> \in E \cup (R \X {d})
    BY <1>5, <1>6
<1>8. DOMAIN P \subseteq Departments /\ Stored
    BY <1>6 DEF IInv, Live
<1>9. DOMAIN r = Fields /\ r.op = "unset" /\ r.put = Nothing /\ r.post = Nothing /\ r.dept = Nothing
       /\ r.add = {} /\ r.parent = P
    BY <1>3 DEF Idle, Fields
<1>10. Good(r)
    BY <1>4, <1>5, <1>7, <1>8, <1>9, GoodLinkRequest
<1> QED BY <1>1, <1>2, <1>3, <1>10

(* No edge leads to the new department, so it does not lie above its parent. *)
LEMMA CreateRoleGood ==
    ASSUME IInv, NEW q \in Requests, CreateRole(q)
    PROVE  \E r : Begin(q, r) /\ Good(r)
<1>1. PICK d \in Departments, p \in Live \cup {"none"} :
        /\ dept[d] = "none"
        /\ Begin(q, [Idle EXCEPT !.op = "create", !.dept = At(d, "live"), !.parent = At(d, p),
            !.add = IF p = "none" THEN {} ELSE {<<d, p>>}])
    BY DEF CreateRole
<1>2. PICK P : P = At(d, p)
    OBVIOUS
<1>3. PICK A : A = IF p = "none" THEN {} ELSE {<<d, p>>}
    OBVIOUS
<1>4. PICK D : D = At(d, "live")
    OBVIOUS
<1>5. PICK r : r = [Idle EXCEPT !.op = "create", !.dept = D, !.parent = P, !.add = A]
    OBVIOUS
<1>6. DOMAIN r = Fields /\ r.op = "create" /\ r.put = Nothing /\ r.post = Nothing /\ r.dept = D
       /\ r.add = A /\ r.parent = P /\ r.cut = {}
    BY <1>5 DEF Idle, Fields
<1>7. PICK E : E = DeptEdges(links, parent)
    OBVIOUS
<1>8. Stored /\ Made(dept, E)
    BY <1>7 DEF IInv, Stored
<1>9. DOMAIN P = {d} /\ P[d] = p /\ DOMAIN D = {d} /\ D[d] = "live"
    BY <1>2, <1>4, AtIs
<1>10. p # "none" => p \in Departments /\ dept[p] # "none"
    BY DEF Live
<1>11. Sound(dept, r)
    <2>1. \A e \in A : e[2] = p /\ p # "none"
        BY <1>3
    <2>2. Made(dept, r.add)
        BY <1>6, <1>10, <2>1 DEF Made
    <2>3. DOMAIN r.parent \subseteq Departments /\ DOMAIN r.dept \subseteq Departments
          /\ \A x \in DOMAIN r.dept : r.dept[x] # "none"
        BY <1>6, <1>9
    <2>4. \A x \in DOMAIN r.parent : r.parent[x] # "none" => r.parent[x] \in Departments /\ dept[r.parent[x]] # "none"
        BY <1>6, <1>9, <1>10
    <2> QED BY <1>6, <2>2, <2>3, <2>4 DEF Sound
<1>12. PICK R : R = IF p = "none" THEN {} ELSE {d}
    OBVIOUS
<1>13. R \cap Above(p, E, Departments) = {}
    <2>1. SUFFICES ASSUME p # "none", d \in Above(p, E, Departments) PROVE FALSE
        BY <1>12
    <2>2. PICK T \in SUBSET Departments : T = {x \in Departments : dept[x] # "none"}
        OBVIOUS
    <2>3. Closed(T, E)
        BY <1>8, <2>2 DEF Closed, Made
    <2>4. p \in T /\ d \notin T
        BY <1>1, <1>10, <2>1, <2>2
    <2> QED BY <2>1, <2>3, <2>4 DEF Above
<1>14. p # "none" => <<d, p>> \in R \X {p}
    BY <1>12
<1>15. KeepsLinks(links, parent, r)
    <2>1. PICK F : F = E \cup (R \X {p})
        OBVIOUS
    <2>2. A \subseteq F /\ \A x \in DOMAIN P : P[x] # "none" => <<x, P[x]>> \in F
        BY <1>3, <1>9, <1>14, <2>1
    <2>3. links \subseteq F /\ \A x \in Departments : parent[x] # "none" => <<x, parent[x]>> \in F
        BY <1>7, <2>1 DEF DeptEdges
    <2>4. PICK G : G = DeptEdges((links \ r.cut) \cup r.add, Over(parent, r.parent))
        OBVIOUS
    <2>5. G \subseteq F
        <3>1. G = DeptEdges((links \ {}) \cup A, Over(parent, P)) /\ DOMAIN P \subseteq Departments
            BY <1>6, <1>9, <2>4
        <3> QED BY <1>8, <2>2, <2>3, <3>1, DeptEdgesAfter
    <2>6. G \subseteq E \cup (R \X {p})
        BY <2>1, <2>5
    <2>7. Acyclic(E, Departments) => Acyclic(G, Departments)
        BY <1>13, <2>6, EdgesBelow
    <2> QED BY <1>7, <2>4, <2>7 DEF KeepsLinks
<1>16. Good(r)
    BY <1>6, <1>8, <1>11, <1>15, GoodRequest
<1> QED BY <1>1, <1>2, <1>3, <1>4, <1>5, <1>16

LEMMA ViewHierarchyGood ==
    ASSUME IInv, NEW q \in Requests, ViewHierarchy(q)
    PROVE  \E r : Begin(q, r) /\ Good(r)
<1>1. PICK d \in Live : Begin(q, [Idle EXCEPT !.op = "view", !.add = Synced(d, links, parent)])
    BY DEF ViewHierarchy
<1>2. PICK A : A = Synced(d, links, parent)
    OBVIOUS
<1>3. PICK r : r = [Idle EXCEPT !.op = "view", !.add = A]
    OBVIOUS
<1>4. DOMAIN r = Fields /\ r.op = "view" /\ r.put = Nothing /\ r.post = Nothing /\ r.dept = Nothing
       /\ r.add = A /\ r.parent = Nothing
    BY <1>3 DEF Idle, Fields
<1>5. PICK E : E = DeptEdges(links, parent)
    OBVIOUS
<1>6. PICK R : R = {}
    OBVIOUS
<1>7. \A x \in Departments : parent[x] # "none" => <<x, parent[x]>> \in E
    BY <1>5 DEF DeptEdges
<1>8. d \in Departments /\ Stored
    BY DEF Live, IInv
<1>9. A \subseteq E
    BY <1>2, <1>7, <1>8, SyncedAre
<1>10. R \cap Above(d, E, Departments) = {} /\ A \subseteq E \cup (R \X {d})
    BY <1>6, <1>9
<1>11. DOMAIN r.parent = {}
    BY <1>4, NothingTypes
<1>12. Good(r)
    BY <1>4, <1>5, <1>6, <1>8, <1>10, <1>11, GoodLinkRequest
<1> QED BY <1>1, <1>2, <1>3, <1>12

(* Requests that touch neither lines, links nor posts. *)
LEMMA GoodPlainRequest ==
    ASSUME Stored, NEW r, DOMAIN r = Fields, r.op \notin {"none", "reassign"},
           r.put = Nothing, r.add = {}, r.parent = Nothing, r.post = Nothing \/ KeepsHeld(post, r),
           DOMAIN r.dept \subseteq Departments, \A x \in DOMAIN r.dept : r.dept[x] # "none"
    PROVE  Good(r)
<1>1. Sound(dept, r)
    BY NothingTypes DEF Sound, Made
<1> QED BY <1>1, GoodRequest

LEMMA TrashGood ==
    ASSUME IInv, NEW q \in Requests, DeleteRole(q) \/ RestoreRole(q)
    PROVE  \E r : Begin(q, r) /\ Good(r)
<1>1. PICK d \in Departments, op \in {"trash", "restore"}, v \in {"trashed", "live"} :
            Begin(q, [Idle EXCEPT !.op = op, !.dept = At(d, v)])
    BY DEF DeleteRole, RestoreRole, Live
<1>2. PICK D : D = At(d, v)
    OBVIOUS
<1>3. PICK r : r = [Idle EXCEPT !.op = op, !.dept = D]
    OBVIOUS
<1>4. DOMAIN r = Fields /\ r.op = op /\ r.put = Nothing /\ r.add = {} /\ r.parent = Nothing /\ r.post = Nothing /\ r.dept = D
    BY <1>3 DEF Idle, Fields
<1>5. DOMAIN D = {d} /\ D[d] = v
    BY <1>2, AtIs
<1>6. DOMAIN r.dept \subseteq Departments /\ \A x \in DOMAIN r.dept : r.dept[x] # "none"
    BY <1>4, <1>5
<1>7. Good(r)
    BY <1>4, <1>6, GoodPlainRequest DEF IInv
<1> QED BY <1>1, <1>2, <1>3, <1>7

LEMMA StructureGood ==
    ASSUME IInv, NEW q \in Requests, Structure(q)
    PROVE  \E r : Begin(q, r) /\ Good(r)
<1>1. CASE AddParent(q) \/ AddChild(q)
    <2>1. PICK c \in Departments, p \in Departments : AddLink(q, c, p, c) \/ AddLink(q, c, p, p)
        BY <1>1 DEF AddParent, AddChild
    <2> QED BY <2>1, AddLinkGood
<1>2. CASE RemoveParent(q) \/ RemoveChild(q)
    <2>1. PICK c \in Departments, p \in Departments : RemoveLink(q, c, p, c) \/ RemoveLink(q, c, p, p)
        BY <1>2 DEF RemoveParent, RemoveChild
    <2> QED BY <2>1, RemoveLinkGood
<1>3. CASE UpdateRole(q)
    BY <1>3, MoveGood, UnsetGood DEF UpdateRole
<1> QED BY <1>1, <1>2, <1>3, CreateRoleGood, TrashGood, ViewHierarchyGood DEF Structure

-----------------------------------------------------------------------------
(* Positions. *)

(* What Posted writes, over what was cleared before. *)
LEMMA PostedIs ==
    ASSUME PostTabled(post), NEW x \in Posts, NEW p \in BOOLEAN, NEW t, NEW a, NEW u, NEW put,
           NEW c, DOMAIN c \subseteq Posts, \A y \in DOMAIN c : DOMAIN c[y] \subseteq PostColumns,
           t = Merged(post, c), a = Posted(x, t, p), put = Over(c, a), u = Merged(post, put),
           x \in DOMAIN c => /\ "status" \in DOMAIN c[x] => c[x]["status"] # "active"
                             /\ "primary" \in DOMAIN c[x] => c[x]["primary"] # p
    PROVE  /\ u[x].status = "active" /\ u[x].primary = p
           /\ \A y \in Posts \ {x} : u[y].status = t[y].status /\ u[y].primary = t[y].primary
<1>1. PICK new : new = [status |-> "active", primary |-> p]
    OBVIOUS
<1>2. DOMAIN new = PostColumns /\ new["status"] = "active" /\ new["primary"] = p
    BY <1>1 DEF PostColumns
<1>3. \A y \in Posts, k \in PostColumns :
        t[y][k] = IF y \in DOMAIN c /\ k \in DOMAIN c[y] THEN c[y][k] ELSE post[y][k]
    BY DEF Merged, PostTabled
<1>4. \A y \in Posts, k \in PostColumns :
        u[y][k] = IF y \in DOMAIN put /\ k \in DOMAIN put[y] THEN put[y][k] ELSE post[y][k]
    BY DEF Merged, PostTabled
<1>5. PICK b : b = IF t[x].status = "none" THEN new ELSE Changed(t[x], new)
    OBVIOUS
<1>6. \A k \in PostColumns : /\ k \in DOMAIN b => b[k] = new[k]
                             /\ k \notin DOMAIN b => t[x][k] = new[k]
    <2>1. CASE t[x].status = "none"
        BY <1>2, <1>5, <2>1
    <2>2. CASE t[x].status # "none"
        <3>1. b = Changed(t[x], new)
            BY <1>5, <2>2
        <3>2. DOMAIN b = {d \in DOMAIN new : t[x][d] # new[d]} /\ \A k \in DOMAIN b : b[k] = new[k]
            BY <3>1 DEF Changed
        <3> QED BY <1>2, <3>2
    <2> QED BY <2>1, <2>2
<1>7. a = At(x, b)
    BY <1>1, <1>5 DEF Posted
<1>8. DOMAIN a = {x} /\ a[x] = b
    BY <1>7, AtIs
<1>9. DOMAIN put = DOMAIN c \cup {x} /\ put[x] = b /\ \A y \in DOMAIN c \ {x} : put[y] = c[y]
    BY <1>8 DEF Over
<1>10. ASSUME NEW k \in PostColumns PROVE u[x][k] = new[k]
    <2>1. CASE k \in DOMAIN b
        BY <1>4, <1>6, <1>9, <2>1
    <2>2. CASE k \notin DOMAIN b
        <3>1. u[x][k] = post[x][k] /\ t[x][k] = new[k]
            BY <1>4, <1>6, <1>9, <2>2
        <3>2. x \in DOMAIN c /\ k \in DOMAIN c[x] => c[x][k] # new[k]
            BY <1>2 DEF PostColumns
        <3> QED BY <1>3, <3>1, <3>2
    <2> QED BY <2>1, <2>2
<1>11. \A y \in Posts \ {x}, k \in PostColumns : u[y][k] = t[y][k]
    BY <1>3, <1>4, <1>9
<1> QED BY <1>2, <1>10, <1>11 DEF PostColumns

(* One mark more, given only to who lost all others. *)
LEMMA HeldByOne ==
    ASSUME NEW t, NEW u, NEW x \in Posts, NEW e, e = x[1],
           \A y \in Posts \ {x} : u[y].status = t[y].status /\ u[y].primary = t[y].primary,
           \A f \in People : Held(t, f) \subseteq Held(post, f),
           u[x].primary => Held(t, e) = {}
    PROVE  \A f \in People : One(Held(post, f)) => One(Held(u, f))
<1>1. SUFFICES ASSUME NEW f \in People, One(Held(post, f)), NEW y \in Held(u, f), NEW z \in Held(u, f) PROVE y = z
    BY DEF One
<1>2. \A w \in Held(u, f) : w = x \/ w \in Held(t, f)
    BY DEF Held
<1>3. x \in Held(u, f) => f = e /\ Held(t, f) = {}
    BY DEF Held
<1>4. \A v, w \in Held(t, f) : v = w
    BY <1>1 DEF One
<1> QED BY <1>1, <1>2, <1>3, <1>4

LEMMA AssignGood ==
    ASSUME IInv, NEW q \in Requests, Assign(q)
    PROVE  \E r : Begin(q, r) /\ Good(r)
<1>1. PICK x \in Posts, p \in BOOLEAN :
        LET cleared == IF p THEN Unmarked(x[1], x[3]) ELSE Nothing
            table == Merged(post, cleared)
        IN  Begin(q, [Idle EXCEPT !.op = "assign", !.born = Fresh(x, post),
                !.post = Over(cleared, Posted(x, table, p))])
    BY DEF Assign
<1>2. PICK e : e = x[1]
    OBVIOUS
<1>3. PICK c : c = IF p THEN Unmarked(e, x[3]) ELSE Nothing
    OBVIOUS
<1>4. PICK t : t = Merged(post, c)
    OBVIOUS
<1>5. PICK a : a = Posted(x, t, p)
    OBVIOUS
<1>6. PICK put : put = Over(c, a)
    OBVIOUS
<1>7. PICK u : u = Merged(post, put)
    OBVIOUS
<1>8. Stored /\ PostTabled(post)
    BY DEF IInv, Stored
<1>9. PICK U : U = Unmarked(e, x[3])
    OBVIOUS
<1>10. DOMAIN U = {y \in Posts : y[1] = e /\ post[y].primary}
       /\ \A y \in DOMAIN U : DOMAIN U[y] = {"primary"} /\ U[y]["primary"] = FALSE
    BY <1>9 DEF Unmarked
<1>11. c = IF p THEN U ELSE Nothing
    BY <1>3, <1>9
<1>12. DOMAIN c \subseteq Posts /\ \A y \in DOMAIN c : /\ DOMAIN c[y] = {"primary"} /\ c[y]["primary"] = FALSE
                                                      /\ p = TRUE /\ post[y].primary
    <2>1. CASE p
        BY <1>10, <1>11, <2>1
    <2>2. CASE ~p
        BY <1>11, <2>2, NothingTypes
    <2> QED BY <2>1, <2>2
<1>13. p => \A y \in Posts : y[1] = e /\ post[y].primary => y \in DOMAIN c
    BY <1>10, <1>11
<1>14. \A y \in Posts, k \in PostColumns :
        t[y][k] = IF y \in DOMAIN c /\ k \in DOMAIN c[y] THEN c[y][k] ELSE post[y][k]
    BY <1>4, <1>8 DEF Merged, PostTabled
<1>15. /\ \A y \in DOMAIN c : t[y].status = post[y].status /\ t[y].primary = FALSE
       /\ \A y \in Posts \ DOMAIN c : t[y].status = post[y].status /\ t[y].primary = post[y].primary
    BY <1>12, <1>14 DEF PostColumns
<1>16. u[x].primary = p /\ \A y \in Posts \ {x} : u[y].status = t[y].status /\ u[y].primary = t[y].primary
    <2>1. \A y \in DOMAIN c : DOMAIN c[y] \subseteq PostColumns
        BY <1>12 DEF PostColumns
    <2>2. x \in DOMAIN c => /\ "status" \in DOMAIN c[x] => c[x]["status"] # "active"
                            /\ "primary" \in DOMAIN c[x] => c[x]["primary"] # p
        BY <1>12
    <2> QED BY <1>4, <1>5, <1>6, <1>7, <1>8, <1>12, <2>1, <2>2, PostedIs
<1>17. \A f \in People : Held(t, f) \subseteq Held(post, f)
    BY <1>15 DEF Held
<1>18. u[x].primary => Held(t, e) = {}
    BY <1>13, <1>15, <1>16 DEF Held
<1>19. \A f \in People : One(Held(post, f)) => One(Held(u, f))
    BY <1>2, <1>16, <1>17, <1>18, HeldByOne
<1>20. PICK born : born = Fresh(x, post)
    OBVIOUS
<1>21. PICK r : r = [Idle EXCEPT !.op = "assign", !.born = born, !.post = put]
    OBVIOUS
<1>22. DOMAIN r = Fields /\ r.op = "assign" /\ r.put = Nothing /\ r.add = {} /\ r.parent = Nothing /\ r.post = put
       /\ r.dept = Nothing
    BY <1>21 DEF Idle, Fields
<1>23. KeepsHeld(post, r) /\ DOMAIN r.dept = {}
    BY <1>7, <1>19, <1>22, NothingTypes DEF KeepsHeld
<1>24. Good(r)
    BY <1>8, <1>22, <1>23, GoodPlainRequest
<1> QED BY <1>1, <1>2, <1>3, <1>4, <1>5, <1>6, <1>20, <1>21, <1>24

LEMMA EditUserGood ==
    ASSUME IInv, NEW q \in Requests, EditUser(q)
    PROVE  \E r : Begin(q, r) /\ Good(r)
<1>1. PICK e \in People, p \in Positions \cup {"none"} :
        LET ended == [x \in {y \in Posts : y[1] = e /\ post[y].primary /\ post[y].status = "active"} |->
                        [status |-> "inactive", primary |-> FALSE]]
            table == Merged(post, ended)
            x == <<e, p, "primary">>
        IN  IF p = "none" THEN Begin(q, [Idle EXCEPT !.op = "edit", !.post = ended])
            ELSE Begin(q, [Idle EXCEPT !.op = "edit", !.born = Fresh(x, post),
                        !.post = Over(ended, Posted(x, table, TRUE))])
    BY DEF EditUser
<1>2. PICK c : c = [x \in {y \in Posts : y[1] = e /\ post[y].primary /\ post[y].status = "active"} |->
                        [status |-> "inactive", primary |-> FALSE]]
    OBVIOUS
<1>3. PICK t : t = Merged(post, c)
    OBVIOUS
<1>4. Stored /\ PostTabled(post)
    BY DEF IInv, Stored
<1>5. DOMAIN c = {y \in Posts : y[1] = e /\ post[y].primary /\ post[y].status = "active"}
      /\ \A y \in DOMAIN c : DOMAIN c[y] = PostColumns /\ c[y]["status"] = "inactive" /\ c[y]["primary"] = FALSE
    BY <1>2 DEF PostColumns
<1>6. \A y \in Posts, k \in PostColumns :
        t[y][k] = IF y \in DOMAIN c /\ k \in DOMAIN c[y] THEN c[y][k] ELSE post[y][k]
    BY <1>3, <1>4 DEF Merged, PostTabled
<1>7. /\ \A y \in DOMAIN c : t[y].status = "inactive" /\ t[y].primary = FALSE
      /\ \A y \in Posts \ DOMAIN c : t[y].status = post[y].status /\ t[y].primary = post[y].primary
    BY <1>5, <1>6 DEF PostColumns
<1>8. (\A f \in People : Held(t, f) \subseteq Held(post, f)) /\ Held(t, e) = {}
    BY <1>5, <1>7 DEF Held
<1>9. CASE p = "none"
    <2>1. PICK r : r = [Idle EXCEPT !.op = "edit", !.post = c]
        OBVIOUS
    <2>2. DOMAIN r = Fields /\ r.op = "edit" /\ r.put = Nothing /\ r.add = {} /\ r.parent = Nothing /\ r.post = c
          /\ r.dept = Nothing
        BY <2>1 DEF Idle, Fields
    <2>3. KeepsHeld(post, r) /\ DOMAIN r.dept = {}
        BY <1>3, <1>8, <2>2, NothingTypes DEF KeepsHeld, One
    <2>4. Good(r)
        BY <1>4, <2>2, <2>3, GoodPlainRequest
    <2> QED BY <1>1, <1>2, <1>9, <2>1, <2>4
<1>10. CASE p # "none"
    <2>1. PICK x \in Posts : x = <<e, p, "primary">>
        BY <1>10 DEF Posts, PostKinds
    <2>2. x[1] = e
        BY <2>1
    <2>3. PICK yes \in BOOLEAN : yes = TRUE
        OBVIOUS
    <2>4. PICK a : a = Posted(x, t, yes)
        OBVIOUS
    <2>5. PICK put : put = Over(c, a)
        OBVIOUS
    <2>6. PICK u : u = Merged(post, put)
        OBVIOUS
    <2>7. \A y \in Posts \ {x} : u[y].status = t[y].status /\ u[y].primary = t[y].primary
        <3>1. DOMAIN c \subseteq Posts /\ \A y \in DOMAIN c : DOMAIN c[y] \subseteq PostColumns
            BY <1>5
        <3>2. x \in DOMAIN c => /\ "status" \in DOMAIN c[x] => c[x]["status"] # "active"
                                /\ "primary" \in DOMAIN c[x] => c[x]["primary"] # yes
            BY <1>5, <2>3
        <3> QED BY <1>3, <1>4, <2>4, <2>5, <2>6, <3>1, <3>2, PostedIs
    <2>8. \A f \in People : One(Held(post, f)) => One(Held(u, f))
        BY <1>8, <2>2, <2>7, HeldByOne
    <2>9. PICK born : born = Fresh(x, post)
        OBVIOUS
    <2>10. PICK r : r = [Idle EXCEPT !.op = "edit", !.born = born, !.post = put]
        OBVIOUS
    <2>11. DOMAIN r = Fields /\ r.op = "edit" /\ r.put = Nothing /\ r.add = {} /\ r.parent = Nothing /\ r.post = put
          /\ r.dept = Nothing
        BY <2>10 DEF Idle, Fields
    <2>12. KeepsHeld(post, r) /\ DOMAIN r.dept = {}
        BY <2>6, <2>8, <2>11, NothingTypes DEF KeepsHeld
    <2>13. Good(r)
        BY <1>4, <2>11, <2>12, GoodPlainRequest
    <2>14. Begin(q, r)
        BY <1>1, <1>2, <1>3, <1>10, <2>1, <2>3, <2>4, <2>5, <2>9, <2>10
    <2> QED BY <2>13, <2>14
<1> QED BY <1>9, <1>10

LEMMA RemovePostGood ==
    ASSUME IInv, NEW q \in Requests, RemovePost(q)
    PROVE  \E r : Begin(q, r) /\ Good(r)
<1>1. PICK x \in Posts : Begin(q, [Idle EXCEPT !.op = "resign", !.post = At(x, [status |-> "inactive"])])
    BY DEF RemovePost
<1>2. PICK a : a = At(x, [status |-> "inactive"])
    OBVIOUS
<1>3. DOMAIN a = {x} /\ a[x] = [status |-> "inactive"]
    BY <1>2, AtIs
<1>4. DOMAIN a = {x} /\ DOMAIN a[x] = {"status"} /\ a[x]["status"] = "inactive"
    BY <1>3
<1>5. Stored /\ PostTabled(post)
    BY DEF IInv, Stored
<1>6. PICK u : u = Merged(post, a)
    OBVIOUS
<1>7. \A y \in Posts : /\ u[y].primary = post[y].primary
                       /\ u[y].status = post[y].status \/ u[y].status = "inactive"
    BY <1>4, <1>5, <1>6 DEF Merged, PostTabled, PostColumns
<1>8. \A f \in People : Held(u, f) \subseteq Held(post, f)
    BY <1>7 DEF Held
<1>9. PICK r : r = [Idle EXCEPT !.op = "resign", !.post = a]
    OBVIOUS
<1>10. DOMAIN r = Fields /\ r.op = "resign" /\ r.put = Nothing /\ r.add = {} /\ r.parent = Nothing /\ r.post = a
       /\ r.dept = Nothing
    BY <1>9 DEF Idle, Fields
<1>11. KeepsHeld(post, r) /\ DOMAIN r.dept = {}
    BY <1>6, <1>8, <1>10, NothingTypes DEF KeepsHeld, One
<1>12. Good(r)
    BY <1>5, <1>10, <1>11, GoodPlainRequest
<1> QED BY <1>1, <1>2, <1>9, <1>12

LEMMA PositionGood ==
    ASSUME IInv, NEW q \in Requests, CreatePosition(q) \/ DeletePosition(q)
    PROVE  \E r : Begin(q, r) /\ Good(r)
<1>1. PICK p \in Positions, op \in {"create", "trash"}, v \in {"live", "trashed"} :
            Begin(q, [Idle EXCEPT !.op = op, !.position = At(p, v)])
    BY DEF CreatePosition, DeletePosition
<1>2. PICK a : a = At(p, v)
    OBVIOUS
<1>3. PICK r : r = [Idle EXCEPT !.op = op, !.position = a]
    OBVIOUS
<1>4. DOMAIN r = Fields /\ r.op = op /\ r.put = Nothing /\ r.add = {} /\ r.parent = Nothing /\ r.post = Nothing
      /\ DOMAIN r.dept = {}
    BY <1>3, NothingTypes DEF Idle, Fields
<1>5. Good(r)
    BY <1>4, GoodPlainRequest DEF IInv
<1> QED BY <1>1, <1>2, <1>3, <1>5

LEMMA LeadGood ==
    ASSUME IInv, NEW q \in Requests, CreateLead(q) \/ RemoveLead(q)
    PROVE  \E r : Begin(q, r) /\ Good(r)
<1>1. PICK r : /\ Begin(q, r)
               /\ \/ \E a, B : r = [Idle EXCEPT !.op = "lead", !.lead = a, !.born = B]
                  \/ \E a : r = [Idle EXCEPT !.op = "unlead", !.lead = a]
    <2>1. CASE CreateLead(q)
        <3>1. PICK x \in Leads : Begin(q, [Idle EXCEPT !.op = "lead", !.lead = At(x, "active"),
                                            !.born = {y \in {x} : lead[y] = "none"}])
            BY <2>1 DEF CreateLead
        <3> QED BY <3>1
    <2>2. CASE RemoveLead(q)
        <3>1. PICK x \in Leads : Begin(q, [Idle EXCEPT !.op = "unlead", !.lead = At(x, "inactive")])
            BY <2>2 DEF RemoveLead
        <3> QED BY <3>1
    <2> QED BY <2>1, <2>2
<1>2. DOMAIN r = Fields /\ r.op \notin {"none", "reassign"} /\ r.put = Nothing /\ r.add = {} /\ r.parent = Nothing
      /\ r.post = Nothing /\ r.dept = Nothing
    BY <1>1 DEF Idle, Fields
<1>3. Good(r)
    BY <1>2, NothingTypes, GoodPlainRequest DEF IInv
<1> QED BY <1>1, <1>3

-----------------------------------------------------------------------------
(***************************************************************************)
(* Steps and behaviours.                                                   *)
(***************************************************************************)
Opens(q) == Reporting(q) \/ Structure(q) \/ Staffing(q) \/ Leading(q)

LEMMA OpensWell ==
    ASSUME IInv, NEW q \in Requests, Accepts(q), Opens(q)
    PROVE  IInv' /\ \A o \in Requests : req[o] # Idle => req'[o] # Idle
<1>1. \E r : Begin(q, r) /\ Good(r)
    <2>1. CASE Reporting(q)
        BY <2>1, CreateLineGood, SetManagerGood, RemoveLineGood, ReassignGood DEF Reporting
    <2>2. CASE Structure(q)
        BY <2>2, StructureGood
    <2>3. CASE Staffing(q)
        BY <2>3, PositionGood, AssignGood, RemovePostGood, EditUserGood DEF Staffing
    <2>4. CASE Leading(q)
        BY <2>4, LeadGood, TrashGood DEF Leading
    <2> QED BY <2>1, <2>2, <2>3, <2>4 DEF Opens
<1> QED BY <1>1, BeginsWell

LEMMA StepIs ==
    ASSUME Next
    PROVE  \E q \in Requests : (Accepts(q) /\ Opens(q)) \/ Commit(q) \/ Rollback(q)
BY DEF Next, Opens

(* Every row and every open request stay as the invariant has them. *)
THEOREM Invariance == Spec => []IInv
<1>1. Init => IInv
    BY InitIInv
<1>2. IInv /\ [Next]_vars => IInv'
    <2>1. ASSUME IInv, Next PROVE IInv'
        BY <2>1, StepIs, OpensWell, CommitKeeps, RollbackKeeps
    <2>2. ASSUME IInv, UNCHANGED vars PROVE IInv'
        BY <2>2 DEF IInv, Stored, vars
    <2> QED BY <2>1, <2>2
<1> QED BY <1>1, <1>2, PTL DEF Spec

(* A request that was alone to its end was checked against the rows it     *)
(* commits to.                                                             *)
LEMMA SoloEnds ==
    ASSUME IInv, Next, NEW q \in Requests, Solo(q)
    PROVE  /\ Commit(q) \/ Rollback(q)
           /\ Keeps(line, links, parent, post, req[q])
<1>1. req[q] # Idle /\ req[q].alone /\ req'[q] = Idle
    BY IdleIsSound DEF Solo
<1>2. PICK o \in Requests : (Accepts(o) /\ Opens(o)) \/ Commit(o) \/ Rollback(o)
    BY StepIs
<1>3. ~(Accepts(o) /\ Opens(o))
    BY <1>1, OpensWell
<1>4. o = q
    <2>1. req' = [req EXCEPT ![o] = Idle] /\ DOMAIN req = Requests
        BY <1>2, <1>3 DEF Commit, Rollback, Done, IInv
    <2>2. o # q => req'[q] = req[q]
        BY <2>1
    <2> QED BY <1>1, <2>2
<1> QED BY <1>1, <1>2, <1>3, <1>4 DEF IInv

LEMMA SoloKeeps ==
    ASSUME IInv, Next, NEW q \in Requests, Solo(q)
    PROVE  NoLoops(q) /\ NoSecond(q) /\ (req[q].op = "reassign" => HandedOver(line, line', req[q].who[1], req[q].who[2]))
<1>1. Keeps(line, links, parent, post, req[q])
    BY SoloEnds
<1>2. CASE Commit(q)
    <2>1. /\ line' = Merged(line, req[q].put) /\ post' = Merged(post, req[q].post)
          /\ links' = (links \ req[q].cut) \cup req[q].add /\ parent' = Over(parent, req[q].parent)
        BY <1>2 DEF Commit
    <2>2. NoLoops(q)
        BY <1>1, <2>1 DEF NoLoops, Keeps, KeepsLines, KeepsLinks
    <2>3. NoSecond(q)
        BY <1>1, <2>1 DEF NoSecond, Keeps, KeepsMarked, KeepsHeld
    <2>4. req[q].op = "reassign" => HandedOver(line, line', req[q].who[1], req[q].who[2])
        BY <1>1, <2>1 DEF Keeps, KeepsReports
    <2> QED BY <2>2, <2>3, <2>4
<1>3. CASE Rollback(q)
    <2>1. UNCHANGED <<line, links, parent, post>> /\ Conflict(q)
        BY <1>3 DEF Rollback, rows
    <2>2. req[q].op # "reassign"
        BY <1>1, <2>1 DEF Conflict, Keeps, KeepsReports
    <2> QED BY <2>1, <2>2 DEF NoLoops, NoSecond
<1> QED BY <1>2, <1>3, SoloEnds

(* would_create_cycle, asked by a request that is alone, keeps people and  *)
(* departments free of loops, whatever the request goes on to write.       *)
THEOREM NoLoopsAlone == Spec => SoloAcyclic
<1>1. IInv /\ [Next]_vars => [\A q \in Requests : NoLoops(q)]_vars
    BY SoloKeeps DEF NoLoops
<1> QED BY <1>1, Invariance, PTL DEF Spec, SoloAcyclic

(* No request that is alone gives anyone a second primary manager or a     *)
(* second primary position (clear_primary_flag and its like).              *)
THEOREM OnePrimaryAlone == Spec => SoloOnePrimary
<1>1. IInv /\ [Next]_vars => [\A q \in Requests : NoSecond(q)]_vars
    BY SoloKeeps DEF NoSecond
<1> QED BY <1>1, Invariance, PTL DEF Spec, SoloOnePrimary

(* reassign_direct_reports, when it is alone, is never refused by the      *)
(* unique constraint, ends every line to the manager who goes, and gives   *)
(* each employee one to the new manager who has no ended one to him.       *)
THEOREM HandoverAlone == Spec => SoloHandover
<1>1. IInv /\ [Next]_vars =>
        [\A q \in Requests : Solo(q) /\ req[q].op = "reassign" => HandedOver(line, line', req[q].who[1], req[q].who[2])]_vars
    BY SoloKeeps
<1> QED BY <1>1, Invariance, PTL DEF Spec, SoloHandover
================================================================================
