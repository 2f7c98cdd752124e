------------------------- MODULE MC_SocketFlusher -------------------------
EXTENDS SocketFlusher

MC_DWORD_MOD == 65536

MC_StagerLeft == {0, 3, 6}

=============================================================================
