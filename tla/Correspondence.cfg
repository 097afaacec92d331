SPECIFICATION FairSpec
CONSTANTS
    Lines = {1, 2}
    Suppliers = {"li"}
    Texts = {"offer"}
    Mails = {1, 2}
    Kinds <- AllKinds
    Starts <- AllStarts
    Requests = {q1}
    Window = 1
    Budget = 1
    Crashes = 1
INVARIANTS TypeOK TimelineAgrees
PROPERTIES SoloFirstQuote NoMailWaits
CHECK_DEADLOCK FALSE
