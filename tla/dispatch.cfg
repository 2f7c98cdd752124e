CONSTANTS
    d = d
    w1 = w1
    none = none
    Threads <- MC_Threads
    Dispatcher = d
    NoThread = none
    HEADER_SIZE = 8
    DWORD_MOD <- MC_DWORD_MOD
    PayloadLens = {0, 3}
    OutTypes = {1, 11}
    PeerTypes = {0}
    PLAIN_REQUEST = 10
    PLAIN_RESPONSE = 11
    Cipher = TRUE
    WriteFail <- MC_WriteFail
    MaxPackets = 2
    MaxIn = 2
    Comms = 1
    ExpirationEnd = 3
    MaxTime = 4
SPECIFICATION Spec
INVARIANT QuiescentOnReturn
PROPERTY DispatchTerminates
