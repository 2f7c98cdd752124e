---------------------------- MODULE MC_Establisher ----------------------------
EXTENDS Establisher

MCHandles == 1..3

MC_DWORD_MOD == 65536
=============================================================================
