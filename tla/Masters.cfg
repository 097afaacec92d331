CHECK_DEADLOCK FALSE
CONSTANTS
    Rows <- Slots
    Kind <- KindOf
    Names = {"a", "A"}
    Fold <- Lower
    Scenes <- AllScenes
    Requests = {q1, q2}
    Fields <- FieldsOf
    Budget = 3
SYMMETRY RequestSymmetry
SPECIFICATION Spec
INVARIANTS TypeOK
PROPERTIES SoloParents SoloAgreement SoloDropdown SoloNames SoloPrimary
