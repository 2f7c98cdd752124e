CONSTANTS
    Handles <- MCHandles
    UrlKinds = {"reverse4", "bind4", "staged"}
    StagedFd = 1
    RetryTotal = 2
    RetryWait = 1
    ExpirationEnd = 3
    MaxTime = 4
    DWORD_MOD <- MC_DWORD_MOD
    MaxSessions = 2
    ResetGarbage = {0, 1, 2, 3}
SPECIFICATION Spec
INVARIANT SessionSocketLive
