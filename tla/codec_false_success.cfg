CONSTANTS
    t1 = t1
    t2 = t2
    none = none
    Threads <- MC_Threads
    NoThread = none
    HEADER_SIZE = 8
    DWORD_MOD <- MC_DWORD_MOD
    PayloadLens = {0, 3, 5}
    OutTypes = {1, 11}
    PeerTypes = {0}
    PLAIN_REQUEST = 10
    PLAIN_RESPONSE = 11
    Cipher = TRUE
    WriteFail <- MC_WriteFail
    MaxPackets = 3
    MaxIn = 2
INIT CodecInit
NEXT CodecNext
INVARIANT TransmitSuccessMeansSent
