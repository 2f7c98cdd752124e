--------------------------- MODULE FlusherProofs ---------------------------
(***************************************************************************)
(* Proof that server_socket_flush (lines 361-400) stays well typed for    *)
(* every receive-buffer size, DWORD width and number of controller sends: *)
(* a recv never returns more than is buffered, so the count of unread     *)
(* bytes never goes negative, and the int stored in the DWORD ret is a    *)
(* DWORD whatever its sign.                                               *)
(***************************************************************************)
EXTENDS SocketFlusher, TLAPS

USE FlusherAssumption

(* What recv returns is SOCKET_ERROR or a count no larger than what is    *)
(* buffered.                                                              *)
LEMMA RecvResultBounded ==
  ASSUME buffered \in Nat, conn \in {"up", "closed", "reset"}
  PROVE  /\ RecvResult \in Int
         /\ RecvResult > 0 => RecvResult <= buffered
  BY DEF RecvResult

(***************************************************************************)
(* FlusherTypeOK is inductive: the type of every variable holds after     *)
(* every step of the flush, of the controller and of the connection.      *)
(***************************************************************************)
THEOREM FlusherTyped == Spec => []FlusherTypeOK
<1>1. Init => FlusherTypeOK
  <2> SUFFICES ASSUME Init PROVE FlusherTypeOK
    OBVIOUS
  <2>1. buffered \in Nat
    BY DEF Init
  <2>2. sends \in 0..MaxSends /\ ret \in 0..(DWORD_MOD - 1)
    BY DEF Init
  <2>3. QED
    BY <2>1, <2>2 DEF Init, FlusherTypeOK
<1>2. FlusherTypeOK /\ [Next]_vars => FlusherTypeOK'
  <2> SUFFICES ASSUME FlusherTypeOK, [Next]_vars PROVE FlusherTypeOK'
    OBVIOUS
  <2>1. CASE FlushEnter
    BY <2>1 DEF FlushEnter, FlusherTypeOK
  <2>2. CASE FlushSelect
    BY <2>2 DEF FlushSelect, FlusherTypeOK
  <2>3. CASE FlushRecv
    <3>1. /\ RecvResult \in Int
          /\ RecvResult > 0 => RecvResult <= buffered
      BY RecvResultBounded DEF FlusherTypeOK
    <3>2. /\ ret' \in 0..(DWORD_MOD - 1)
          /\ buffered' \in Nat
      BY <2>3, <3>1 DEF FlushRecv, FlusherTypeOK
    <3>3. QED
      BY <2>3, <3>2 DEF FlushRecv, FlusherTypeOK
  <2>4. CASE PeerSend
    BY <2>4 DEF PeerSend, FlusherTypeOK
  <2>5. CASE PeerClose
    BY <2>5 DEF PeerClose, FlusherTypeOK
  <2>6. CASE UNCHANGED vars
    BY <2>6 DEF vars, FlusherTypeOK
  <2>7. QED
    BY <2>1, <2>2, <2>3, <2>4, <2>5, <2>6 DEF Next, FlushStep
<1>3. QED
  BY <1>1, <1>2, PTL DEF Spec

=============================================================================
