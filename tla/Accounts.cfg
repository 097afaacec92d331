CHECK_DEADLOCK FALSE
CONSTANTS
    Users = {"root", "clara", "new"}
    Bootstrap = "root"
    Roles <- RoleNames
    Permissions = {"act", "see"}
    Slots = {"s1", "s2", "s3", "s4"}
    Requests = {q1, q2}
    Scenes <- AllScenes
    Limit = 1
    Budget = 3
SYMMETRY RequestSymmetry
SPECIFICATION Spec
INVARIANT SessionsAreSound
PROPERTIES SoloPermissions SoloShutOut StaysShutOut SoloAdmin
