CONSTANTS
    Window = 3
    Families = {"v4", "v6"}
    StagedFamilies = {"v4"}
    Ports = {1, 2}
    PeerPort = 9
SPECIFICATION Spec
INVARIANT InferAsSpecified
INVARIANT ClosesOnlyLeakedListener
