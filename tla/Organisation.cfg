SPECIFICATION Spec
CONSTANTS
    ann = ann
    bob = bob
    cas = cas
    People = {ann, bob, cas}
    Types = {"primary", "functional"}
    Scopes = {"everywhere", "sales"}
    Lines = {1, 2, 3}
    Departments = {"d1", "d2", "d3"}
    Positions = {"p1", "p2"}
    Requests = {q1, q2}
    Budget = 3
    Scenes <- AllScenes
SYMMETRY RequestSymmetry
PROPERTIES SoloAcyclic SoloOnePrimary SoloHandover
CHECK_DEADLOCK FALSE
