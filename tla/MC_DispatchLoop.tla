-------------------------- MODULE MC_DispatchLoop --------------------------
(* The dispatch thread and one worker thread over one connection.         *)
EXTENDS DispatchLoop

CONSTANTS d, w1, none

MC_Threads == {d, w1}

(* 2^16 stands for 2^32: lengths stay far below either, and TLC's        *)
(* integers are 32-bit.                                                   *)
MC_DWORD_MOD == 65536

(* SSL_write fails with -1 on a broken Winsock connection. *)
MC_WriteFail == {-1}

(* SSL_write's documented return for a write that failed because the    *)
(* underlying connection was closed.                                      *)
MC_WriteFailZero == {0}

=============================================================================
