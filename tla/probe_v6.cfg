CONSTANTS
    Window = 3
    Families = {"v4", "v6"}
    StagedFamilies = {"v6"}
    Ports = {1, 2}
    PeerPort = 9
SPECIFICATION Spec
INVARIANT InferAsSpecified
