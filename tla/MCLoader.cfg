CONSTANTS
    Instance = {"1", "2"}
    Load = {"l1"}
    Write = {"w1"}
    MaxVersion = 2
SPECIFICATION Spec
PROPERTIES PeersCatchUp
CHECK_DEADLOCK FALSE
