SPECIFICATION Spec
CONSTANTS
    ann = ann
    bob = bob
    cas = cas
    People = {ann, bob, cas}
    Types = {"primary", "functional"}
    Scopes = {"everywhere", "sales"}
    Lines = {1, 2, 3}
    Departments = {"d1", "d2", "d3"}
    Positions = {"p1", "p2"}
    Requests = {q1}
    Budget = 4
    Scenes <- EmptyScene
PROPERTIES HandoverLosesNobody
CHECK_DEADLOCK FALSE
