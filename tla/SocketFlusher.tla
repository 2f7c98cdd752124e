--------------------------- MODULE SocketFlusher ---------------------------
(***************************************************************************)
(* server_socket_flush (server_transport_tcp.c lines 361-400): before TLS *)
(* starts, configure_tcp_connection drains the bytes a stager left on the *)
(* socket, under remote->lock.  Each round waits up to one second for the *)
(* socket to become readable and reads up to 4 KiB into a scratch buffer; *)
(* the loop ends when a wait times out or a read returns 0.               *)
(*                                                                         *)
(* Bytes are counted, in units of RecvSize-sized reads scaled down.  The  *)
(* controller may send more bytes while the connection is up, close its   *)
(* side (FIN) or reset the connection.                                    *)
(***************************************************************************)
EXTENDS Integers

CONSTANTS
    RecvSize,     \* sizeof(buff): the most one recv returns
    StagerLeft,   \* byte counts the stager may have left on the socket
    MaxSends,     \* bound on the controller's sends during the flush
    DWORD_MOD     \* 2^32 in the build: the range of the DWORD ret

ASSUME FlusherAssumption ==
    /\ RecvSize \in Nat \ {0}
    /\ StagerLeft \subseteq Nat
    /\ MaxSends \in Nat
    /\ DWORD_MOD \in Nat \ {0}

VARIABLES
    fpc,       \* "enter", "select", "recv" or "done"
    lockHeld,  \* the flusher holds remote->lock
    buffered,  \* bytes received by the socket and not yet read
    conn,      \* "up", "closed" (FIN) or "reset"
    sends,     \* controller sends so far
    ret        \* the DWORD ret: the last recv result

vars == <<fpc, lockHeld, buffered, conn, sends, ret>>

FlusherTypeOK ==
    /\ fpc \in {"enter", "select", "recv", "done"}
    /\ lockHeld \in BOOLEAN
    /\ buffered \in Nat
    /\ conn \in {"up", "closed", "reset"}
    /\ sends \in 0..MaxSends
    /\ ret \in 0..(DWORD_MOD - 1)

Init ==
    /\ fpc = "enter"
    /\ lockHeld = FALSE
    /\ buffered \in StagerLeft
    /\ conn = "up"
    /\ sends = 0
    /\ ret = 0

-----------------------------------------------------------------------------
(* select reports the socket readable when bytes are buffered, at end of  *)
(* stream, and when the connection is reset (a recv would fail).          *)
Readable == buffered > 0 \/ conn # "up"

(* What recv returns: buffered bytes up to the buffer size, 0 at the end  *)
(* of the stream, SOCKET_ERROR (-1) once the connection is reset.         *)
RecvResult ==
    CASE conn = "reset" -> -1
      [] buffered > 0   -> IF buffered < RecvSize THEN buffered ELSE RecvSize
      [] OTHER          -> 0

(* Line 368: take remote->lock. *)
FlushEnter ==
    /\ fpc = "enter"
    /\ fpc' = "select"
    /\ lockHeld' = TRUE
    /\ UNCHANGED <<buffered, conn, sends, ret>>

(***************************************************************************)
(* Lines 372-386 and 399: wait up to one second.  select returns 0 only   *)
(* when nothing became readable in that second; then the loop is left and *)
(* the lock released.                                                     *)
(***************************************************************************)
FlushSelect ==
    /\ fpc = "select"
    /\ IF Readable
         THEN /\ fpc' = "recv"
              /\ UNCHANGED lockHeld
         ELSE /\ fpc' = "done"
              /\ lockHeld' = FALSE
    /\ UNCHANGED <<buffered, conn, sends, ret>>

(* Variant of FlushRecv that keeps recv's result in a signed int. *)
FlushRecvSignedRet ==
    /\ fpc = "recv"
    /\ ret' = RecvResult
    /\ buffered' = IF RecvResult > 0 THEN buffered - RecvResult ELSE buffered
    /\ IF ret' = 0
         THEN /\ fpc' = "done"
              /\ lockHeld' = FALSE
         ELSE /\ fpc' = "select"
              /\ UNCHANGED lockHeld
    /\ UNCHANGED <<conn, sends>>

(* Variant of FlushRecv that does not leave the loop at the end of the    *)
(* stream.                                                                *)
FlushRecvNoEof ==
    /\ fpc = "recv"
    /\ ret' = RecvResult % DWORD_MOD
    /\ buffered' = IF RecvResult > 0 THEN buffered - RecvResult ELSE buffered
    /\ fpc' = "select"
    /\ UNCHANGED <<lockHeld, conn, sends>>

(***************************************************************************)
(* Lines 388-397 and 399: read into the scratch buffer; the int recv       *)
(* returns is stored in the DWORD ret, and only ret == 0 leaves the loop:  *)
(* SOCKET_ERROR becomes 2^32-1 and the loop continues.                    *)
(***************************************************************************)
FlushRecv ==
    /\ fpc = "recv"
    /\ ret' = RecvResult % DWORD_MOD
    /\ buffered' = IF RecvResult > 0 THEN buffered - RecvResult ELSE buffered
    /\ IF ret' = 0
         THEN /\ fpc' = "done"
              /\ lockHeld' = FALSE
         ELSE /\ fpc' = "select"
              /\ UNCHANGED lockHeld
    /\ UNCHANGED <<conn, sends>>

-----------------------------------------------------------------------------
(* The controller sends more bytes while the connection is up. *)
PeerSend ==
    /\ conn = "up"
    /\ sends < MaxSends
    /\ \E n \in 1..RecvSize : buffered' = buffered + n
    /\ sends' = sends + 1
    /\ UNCHANGED <<fpc, lockHeld, conn, ret>>

(* The controller closes its side, or the connection is reset; a reset   *)
(* discards what was buffered.  (A reset after a FIN leads to the same    *)
(* states as a reset straight away.)                                      *)
PeerClose ==
    /\ conn = "up"
    /\ \/ /\ conn' = "closed"
          /\ UNCHANGED buffered
       \/ /\ conn' = "reset"
          /\ buffered' = 0
    /\ UNCHANGED <<fpc, lockHeld, sends, ret>>

FlushStep == FlushEnter \/ FlushSelect \/ FlushRecv

Next == FlushStep \/ PeerSend \/ PeerClose

(* The thread running configure_tcp_connection is scheduled; the          *)
(* controller need not do anything.                                       *)
Spec == Init /\ [][Next]_vars /\ WF_vars(FlushStep)

-----------------------------------------------------------------------------
(***************************************************************************)
(* server_socket_flush returns, releasing remote->lock, unless the        *)
(* connection is reset: a quiet controller ends it by the one-second       *)
(* timeout and a closing one by the 0 that recv returns at end of stream.  *)
(***************************************************************************)
FlushReturnsUnlessReset == <>(fpc = "done" /\ ~lockHeld) \/ <>(conn = "reset")

(***************************************************************************)
(* Spec section 4.4 and the comment at line 391 ("The socket closed while *)
(* we waited"): the drain loop ends once nothing arrives for a second or  *)
(* the peer has gone away, so configure_tcp_connection always goes on to  *)
(* TLS and remote->lock is released, whatever the controller does.        *)
(***************************************************************************)
FlushReturns == <>(fpc = "done")

=============================================================================
