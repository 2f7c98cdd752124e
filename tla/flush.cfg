CONSTANTS
    RecvSize = 4
    StagerLeft <- MC_StagerLeft
    MaxSends = 2
    DWORD_MOD <- MC_DWORD_MOD
SPECIFICATION Spec
INVARIANT FlusherTypeOK
PROPERTY FlushReturnsUnlessReset
CHECK_DEADLOCK FALSE
