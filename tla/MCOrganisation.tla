--------------------------- MODULE MCOrganisation ---------------------------
(* Instances of Organisation for TLC. *)
EXTENDS Organisation, TLC

CONSTANTS ann, bob, cas

None == [of |-> ann, to |-> ann, type |-> "primary", scope |-> "everywhere", status |-> "none", primary |-> FALSE]
Line(e, m, t, s, status, primary) ==
    [of |-> e, to |-> m, type |-> t, scope |-> s, status |-> status, primary |-> primary]

Empty == [area |-> "reporting", line |-> [l \in Lines |-> None], links |-> {},
          parent |-> [d \in Departments |-> "none"], dept |-> [d \in Departments |-> "none"],
          position |-> [p \in Positions |-> "none"]]

(* Bob reports to Ann, at times also for one department only; he once did to Cas. *)
Reports1 == [Empty EXCEPT !.line[1] = Line(bob, ann, "primary", "everywhere", "active", TRUE)]
Reports2 == [Reports1 EXCEPT !.line[2] = Line(bob, cas, "primary", "everywhere", "inactive", TRUE)]
Reports3 == [Reports1 EXCEPT !.line[2] = Line(cas, bob, "functional", "everywhere", "active", FALSE)]

(* Three departments, none linked; two linked and one trashed; a chain only the older column knows. *)
AllLive == [Empty EXCEPT !.area = "structure", !.dept = [d \in Departments |-> "live"]]
Chain == [AllLive EXCEPT !.parent["d2"] = "d1", !.links = {<<"d3", "d2">>}, !.parent["d3"] = "d2"]
Young == [AllLive EXCEPT !.dept["d3"] = "none", !.dept["d2"] = "trashed", !.parent["d2"] = "d1", !.links = {<<"d2", "d1">>}]

Desks == [Empty EXCEPT !.area = "staffing", !.position["p1"] = "live"]
Heads == [Empty EXCEPT !.area = "leading", !.dept["d1"] = "live", !.dept["d2"] = "trashed"]

EmptyScene == {Empty}
AllScenes == {Empty, Reports1, Reports2, Reports3, AllLive, Chain, Young, Desks, Heads}
RequestSymmetry == Permutations(Requests)
=============================================================================
