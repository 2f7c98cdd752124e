--------------------------- MODULE MC_PacketCodec ---------------------------
(* The codec with two threads transmitting concurrently and any thread    *)
(* receiving, over a connection the controller may close or reset.        *)
EXTENDS CodecChannel

CONSTANTS t1, t2, none

MC_Threads == {t1, t2}

(* 2^16 stands for 2^32: lengths stay far below either, and TLC's        *)
(* integers are 32-bit.                                                   *)
MC_DWORD_MOD == 65536

(* SSL_write fails with -1 on a broken Winsock connection. *)
MC_WriteFail == {-1}

=============================================================================
