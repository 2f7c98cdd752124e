------------------------- MODULE EstablisherProofs -------------------------
(***************************************************************************)
(* Proofs about reverse_tcp_run's retry loop (lines 31-59) for every value *)
(* of the constants: at most one connect is attempted after the session   *)
(* has expired, and, when retry_wait * 1000 fits in a DWORD, two attempts *)
(* are at least retry_wait seconds apart.                                 *)
(***************************************************************************)
EXTENDS Establisher, FiniteSetTheorems, TLAPS

(***************************************************************************)
(* The strengthening.  retryStart is the clock reading of the last        *)
(* connect, and the clock never goes back.  Between a failed connect and  *)
(* the expiry test retryStart <= now; the loop sleeps only when the test  *)
(* found the session unexpired, so from then until the next connect the   *)
(* last attempt was made before expiration_end, and the sleep has put at  *)
(* least SleepSecs(retry_wait) seconds between it and now.                *)
(***************************************************************************)
RetryInv ==
    /\ now \in Nat
    /\ retryStart \in Int
    /\ pc \in Pcs
    /\ pc = "rev_expiry" => retryStart <= now
    /\ pc = "rev_sleep" => retryStart <= now /\ retryStart < ExpirationEnd
    /\ (pc \in {"rev_loop", "rev_connect"} /\ retryStart # -1) =>
           /\ retryStart < ExpirationEnd
           /\ now - retryStart >= SleepSecs(RetryWait)

USE EstablisherAssumption

-----------------------------------------------------------------------------
(* Sleep never moves the clock back. *)
LEMMA SleepSecsNat == SleepSecs(RetryWait) \in Nat
  BY DEF SleepSecs

(* Without the DWORD wrap the sleep lasts exactly retry_wait seconds. *)
LEMMA SleepSecsExact ==
  ASSUME RetryWait * 1000 < DWORD_MOD
  PROVE  SleepSecs(RetryWait) = RetryWait
  BY DEF SleepSecs

(* The steps that neither move the clock nor touch the retry loop. *)
LEMMA Unrelated ==
  ASSUME RetryInv,
         UNCHANGED <<now, retryStart>>,
         pc' \in Pcs,
         pc' = pc \/ pc' \notin {"rev_expiry", "rev_sleep", "rev_loop", "rev_connect"}
  PROVE  RetryInv'
  BY DEF RetryInv

-----------------------------------------------------------------------------
THEOREM RetryInvariant == Spec => []RetryInv
<1>1. Init => RetryInv
  BY DEF Init, RetryInv, Pcs
<1>2. RetryInv /\ [Next]_vars => RetryInv'
  <2> SUFFICES ASSUME RetryInv, [Next]_vars PROVE RetryInv'
    OBVIOUS
  <2>1. CASE ConfigureReverse4
    BY <2>1 DEF ConfigureReverse4, RetryInv, Pcs
  <2>2. CASE ConfigureBind4
    BY <2>2, Unrelated DEF ConfigureBind4, Pcs
  <2>3. CASE ReconnectBind
    BY <2>3, Unrelated DEF ReconnectBind, Pcs
  <2>4. CASE ReconnectReverse
    BY <2>4 DEF ReconnectReverse, RetryInv, Pcs
  <2>5. CASE InferStaged
    BY <2>5, Unrelated DEF InferStaged, Pcs
  <2>6. CASE RevConnect
    BY <2>6 DEF RevConnect, RetryInv, Pcs
  <2>7. CASE RevExpiry
    BY <2>7 DEF RevExpiry, RetryInv, Pcs
  <2>8. CASE RevSleep
    BY <2>8, SleepSecsNat DEF RevSleep, RetryInv, Pcs
  <2>9. CASE RevLoop
    BY <2>9 DEF RevLoop, RetryInv, Pcs
  <2>10. CASE RevDone
    BY <2>10, Unrelated DEF RevDone, Pcs
  <2>11. CASE BindRun
    BY <2>11, Unrelated DEF BindRun, Pcs
  <2>12. CASE Tls
    BY <2>12, Unrelated DEF Tls, Pcs
  <2>13. CASE Deinit
    BY <2>13, Unrelated DEF Deinit, Pcs
  <2>14. CASE TransportReset
    BY <2>14, Unrelated DEF TransportReset, Pcs
  <2>15. CASE Stopped
    <3>1. /\ UNCHANGED <<now, retryStart, pc>>
          /\ pc \in Pcs
      BY <2>15 DEF Stopped, vars, RetryInv
    <3>2. QED
      BY <3>1, Unrelated
  <2>16. CASE ControllerFlip \/ OtherOpen \/ OtherClose
    <3>1. /\ UNCHANGED <<now, retryStart, pc>>
          /\ pc \in Pcs
      BY <2>16 DEF ControllerFlip, OtherOpen, OtherClose, RetryInv
    <3>2. QED
      BY <3>1, Unrelated
  <2>17. CASE Tick
    BY <2>17, SleepSecsNat DEF Tick, RetryInv
  <2>18. CASE UNCHANGED vars
    <3>1. /\ UNCHANGED <<now, retryStart, pc>>
          /\ pc \in Pcs
      BY <2>18 DEF vars, RetryInv
    <3>2. QED
      BY <3>1, Unrelated
  <2>19. QED
    BY <2>1, <2>2, <2>3, <2>4, <2>5, <2>6, <2>7, <2>8, <2>9, <2>10, <2>11,
       <2>12, <2>13, <2>14, <2>15, <2>16, <2>17, <2>18 DEF Next
<1>3. QED
  BY <1>1, <1>2, PTL DEF Spec

(***************************************************************************)
(* reverse_tcp_run tests the expiry only after a failed connect (lines    *)
(* 38-47), yet for every retry_total, retry_wait and expiration_end it    *)
(* makes at most one connect attempt once the session has expired.        *)
(***************************************************************************)
THEOREM LateConnectBounded == Spec => []AtMostOneLateConnect
<1>1. RetryInv => AtMostOneLateConnect
  BY DEF RetryInv, AtMostOneLateConnect
<1>2. QED
  BY <1>1, RetryInvariant, PTL

(***************************************************************************)
(* When retry_wait * 1000 does not pass the DWORD range, Sleep at line 50 *)
(* waits retry_wait seconds, so reverse_tcp_run's connect attempts are at *)
(* least retry_wait seconds apart.  The condition is needed: the product *)
(* is a DWORD, and a larger retry_wait sleeps for less than it asks.      *)
(***************************************************************************)
THEOREM RetryWaitCorrect ==
  ASSUME RetryWait * 1000 < DWORD_MOD
  PROVE  Spec => []RetryWaitHonoured
<1>1. RetryInv => RetryWaitHonoured
  BY SleepSecsExact DEF RetryInv, RetryWaitHonoured
<1>2. QED
  BY <1>1, RetryInvariant, PTL

-----------------------------------------------------------------------------
(***************************************************************************)
(* The strengthening of LeakPerReset.  Each init/reset round may drop one *)
(* live ctx->fd: configure_tcp_connection zeroes or overwrites it at the  *)
(* start of a reverse or bind4 round, and a staged bind reconnect         *)
(* overwrites it when accept succeeds.  The socket that is, or in the     *)
(* connect loop will become, ctx->fd is counted as pending; a round that  *)
(* has not yet dropped ctx->fd has no credit.  A listener reopened on     *)
(* ctx->fd's own handle value is closed by bind_tcp_run on every path and *)
(* is not pending.                                                        *)
(***************************************************************************)
RevPcs == {"rev_connect", "rev_expiry", "rev_sleep", "rev_loop", "rev_done"}

SockVals == {ClosedSock, OwnOpen, OwnConn, OtherConn}

LiveSock(h) == h # 0 /\ sock[h].by = "transport"

CurrentFd == IF pc \in RevPcs THEN lsock ELSE fd

Pending == IF LiveSock(CurrentFd) /\ ~(pc = "bind" /\ fd = lsock) THEN 1 ELSE 0

RoundCredit == IF pc \in {"configure", "bind"} THEN 0 ELSE 1

(* The part of the type the count needs; sessions is not bounded here.   *)
LeakTypeOK ==
    /\ url \in UrlKinds
    /\ sock \in [Handles -> SockVals]
    /\ otherHeld \subseteq Handles
    /\ fd \in {0} \cup Handles
    /\ lsock \in {0} \cup Handles
    /\ result \in {"ok", "fail"}
    /\ pc \in Pcs
    /\ sessions \in Nat

LeakInv ==
    /\ LeakTypeOK
    /\ pc \in RevPcs => fd \in {0, lsock}
    /\ Cardinality(Leaked) + Pending <= sessions + RoundCredit
    /\ LeakPerReset

(* Leaked is a finite set of handles whose size is a natural number.     *)
LEMMA LeakedFinite ==
  ASSUME IsFiniteSet(Handles)
  PROVE  /\ IsFiniteSet(Leaked)
         /\ Cardinality(Leaked) \in Nat
<1>1. Leaked \subseteq Handles
  BY DEF Leaked
<1>2. IsFiniteSet(Leaked)
  BY <1>1, FS_Subset
<1>3. QED
  BY <1>2, FS_CardinalityType

LEMMA CountBounds == Pending \in {0, 1} /\ RoundCredit \in {0, 1}
  BY DEF Pending, RoundCredit

LEMMA CountBoundsNext == Pending' \in {0, 1} /\ RoundCredit' \in {0, 1}
  BY DEF Pending, RoundCredit

(* The arithmetic of KeepCount and DropCount. *)
LEMMA CountArith ==
  ASSUME NEW l \in Nat, NEW l2 \in Nat, NEW s \in Nat, NEW s2 \in Nat,
         NEW p \in {0, 1}, NEW p2 \in {0, 1}, NEW c \in {0, 1}, NEW c2 \in {0, 1},
         l2 <= l, l + p <= s + c, p2 + s + c <= p + s2 + c2
  PROVE  l2 + p2 <= s2 + c2
  OBVIOUS

LEMMA PerResetArith ==
  ASSUME NEW l \in Nat, NEW l2 \in Nat, NEW s \in Nat, NEW s2 \in {s, s + 1},
         l2 <= l, l <= s
  PROVE  l2 <= s2
  OBVIOUS

LEMMA DropArith ==
  ASSUME NEW l \in Nat, NEW l2 \in Nat, NEW s \in Nat, NEW p \in {0, 1},
         l2 <= l + p, l + p <= s
  PROVE  l2 <= s
  OBVIOUS

LEMMA ResetArith ==
  ASSUME NEW s \in Nat, NEW p \in {0, 1}, NEW p2 \in {0, 1}, NEW c2 \in {0, 1},
         p2 <= p
  PROVE  p2 + s + 1 <= p + (s + 1) + c2
  OBVIOUS

LEMMA FailArith ==
  ASSUME NEW s \in Nat, NEW p \in {0, 1}, NEW p2 \in {0, 1}
  PROVE  p2 + s + 0 <= p + s + 1
  OBVIOUS

LEMMA SameArith ==
  ASSUME NEW s \in Nat, NEW p \in {0, 1}, NEW p2 \in {0, 1}, NEW c \in {0, 1},
         p2 <= p
  PROVE  p2 + s + c <= p + s + c
  OBVIOUS

(***************************************************************************)
(* A step that leaves every socket it does not drop referenced keeps the  *)
(* count, as long as what is pending and the credit of the round grow no  *)
(* more than the resets completed.                                        *)
(***************************************************************************)
LEMMA KeepCount ==
  ASSUME IsFiniteSet(Handles), LeakInv,
         sessions' \in Nat, sessions' \in {sessions, sessions + 1},
         Leaked' \subseteq Leaked,
         Pending' + sessions + RoundCredit <= Pending + sessions' + RoundCredit'
  PROVE  /\ Cardinality(Leaked') + Pending' <= sessions' + RoundCredit'
         /\ LeakPerReset'
<1>1. /\ IsFiniteSet(Leaked)
      /\ Cardinality(Leaked) \in Nat
  BY LeakedFinite
<1>2. Cardinality(Leaked') <= Cardinality(Leaked)
  BY <1>1, FS_Subset
<1>3. /\ Cardinality(Leaked') \in Nat
      /\ sessions \in Nat
      /\ Cardinality(Leaked) + Pending <= sessions + RoundCredit
      /\ Cardinality(Leaked) <= sessions
  BY <1>1, FS_Subset, FS_CardinalityType DEF LeakInv, LeakTypeOK, LeakPerReset
<1>4. Cardinality(Leaked') + Pending' <= sessions' + RoundCredit'
  BY <1>1, <1>2, <1>3, CountBounds, CountBoundsNext,
     CountArith, Zenon
<1>5. LeakPerReset'
  BY <1>1, <1>2, <1>3, PerResetArith, Zenon DEF LeakPerReset
<1>6. QED
  BY <1>4, <1>5

(***************************************************************************)
(* A step that drops ctx->fd before the round has spent its credit (it is *)
(* at configure or in bind_tcp_run) leaks at most that one socket, and   *)
(* none when it was not pending.                                          *)
(***************************************************************************)
LEMMA DropCount ==
  ASSUME IsFiniteSet(Handles), LeakInv,
         RoundCredit = 0,
         sessions' = sessions,
         Leaked' \subseteq Leaked \cup {fd},
         Pending = 0 => Leaked' \subseteq Leaked,
         Pending' <= RoundCredit'
  PROVE  /\ Cardinality(Leaked') + Pending' <= sessions' + RoundCredit'
         /\ LeakPerReset'
<1>1. /\ IsFiniteSet(Leaked)
      /\ Cardinality(Leaked) \in Nat
      /\ sessions \in Nat
  BY LeakedFinite DEF LeakInv, LeakTypeOK
<1>2. /\ IsFiniteSet(Leaked \cup {fd})
      /\ Cardinality(Leaked \cup {fd}) <= Cardinality(Leaked) + 1
  <2>1. /\ IsFiniteSet(Leaked \cup {fd})
        /\ Cardinality(Leaked \cup {fd}) =
             IF fd \in Leaked THEN Cardinality(Leaked) ELSE Cardinality(Leaked) + 1
    BY <1>1, FS_AddElement
  <2>2. QED
    BY <1>1, <2>1
<1>3. /\ Cardinality(Leaked') <= Cardinality(Leaked) + Pending
      /\ Cardinality(Leaked') \in Nat
  <2>1. CASE Pending = 0
    BY <1>1, <2>1, FS_Subset, FS_CardinalityType
  <2>2. CASE Pending = 1
    BY <1>1, <1>2, <2>2, FS_Subset, FS_CardinalityType
  <2>3. QED
    BY <2>1, <2>2, CountBounds
<1>4. Cardinality(Leaked') + Pending' <= sessions' + RoundCredit'
  BY <1>1, <1>3, CountBounds, CountBoundsNext DEF LeakInv
<1>5. LeakPerReset'
  <2>0. Cardinality(Leaked) + Pending <= sessions + RoundCredit
    BY DEF LeakInv
  <2>1. Cardinality(Leaked) + Pending <= sessions
    BY <1>1, <2>0, CountBounds
  <2>2. Cardinality(Leaked') <= sessions
    BY <1>1, <1>3, <2>1, CountBounds, DropArith, Zenon
  <2>3. QED
    BY <2>2 DEF LeakPerReset
<1>6. QED
  BY <1>4, <1>5

(***************************************************************************)
(* A step that gives the transport no new socket, keeps ctx->fd, the      *)
(* routine's socket and the URL, and does not move the thread between a   *)
(* connect loop, bind_tcp_run, configure and the rest keeps LeakInv: the  *)
(* other components' open and close, the controller, the clock, the       *)
(* steps inside reverse_tcp_run, and the TLS and deinit steps.            *)
(***************************************************************************)
LEMMA SameRound ==
  ASSUME IsFiniteSet(Handles), LeakInv, LeakTypeOK',
         UNCHANGED <<url, fd, captured, lsock, sessions>>,
         pc' \in RevPcs <=> pc \in RevPcs,
         pc' = "bind" <=> pc = "bind",
         pc' = "configure" <=> pc = "configure",
         \A x \in Handles : sock'[x].by = "transport" => sock[x].by = "transport"
  PROVE  LeakInv'
<1>1. Referenced' = Referenced
  BY DEF Referenced, RevPcs
<1>2. Leaked' \subseteq Leaked
  BY <1>1 DEF Leaked
<1>3. CurrentFd' = CurrentFd /\ CurrentFd \in {0} \cup Handles
  BY DEF CurrentFd, LeakInv, LeakTypeOK
<1>4. Pending' <= Pending
  <2>1. LiveSock(CurrentFd)' => LiveSock(CurrentFd)
    BY <1>3 DEF LiveSock
  <2>2. (pc' = "bind" /\ fd' = lsock') <=> (pc = "bind" /\ fd = lsock)
    OBVIOUS
  <2>3. QED
    BY <2>1, <2>2 DEF Pending
<1>5. RoundCredit' = RoundCredit
  BY DEF RoundCredit
<1>6. sessions' \in Nat /\ sessions' = sessions
  BY DEF LeakInv, LeakTypeOK
<1>7. Pending' + sessions + RoundCredit <= Pending + sessions' + RoundCredit'
  BY <1>4, <1>5, <1>6, CountBounds, CountBoundsNext, SameArith, Zenon
<1>8. Cardinality(Leaked') + Pending' <= sessions' + RoundCredit' /\ LeakPerReset'
  BY <1>2, <1>6, <1>7, KeepCount, Zenon
<1>9. QED
  <2>1. pc \in RevPcs => fd \in {0, lsock}
    BY DEF LeakInv
  <2>2. QED
    BY <1>8, <2>1 DEF LeakInv

(* socket(), accept() and closesocket() keep the socket table typed. *)
LEMMA TableOps ==
  ASSUME sock \in [Handles -> SockVals]
  PROVE  /\ NewHandles \subseteq {0} \cup Handles
         /\ FreeHandles \subseteq Handles
         /\ \A h \in {0} \cup Handles : Opened(h) \in [Handles -> SockVals]
         /\ \A t \in [Handles -> SockVals], h \in {0} \cup Handles :
               Closed(t, h) \in [Handles -> SockVals]
  BY DEF NewHandles, FreeHandles, Opened, Closed, SockVals, OwnOpen, ClosedSock

(***************************************************************************)
(* configure_tcp_connection on a reverse4 or bind4 URL zeroes ctx->fd     *)
(* (lines 1028 and 1040): the old ctx->fd is lost if it was still open,  *)
(* which spends the round's credit.  The new socket, if any, is the       *)
(* routine's and referenced.                                              *)
(***************************************************************************)
LEMMA FreshRound ==
  ASSUME IsFiniteSet(Handles), LeakInv,
         pc = "configure", url # "staged",
         fd' = 0, result' \in {"ok", "fail"},
         UNCHANGED <<url, captured, sessions, otherHeld>>,
         \/ /\ pc' = "failed"
            /\ UNCHANGED <<sock, lsock>>
         \/ \E h \in NewHandles :
              /\ sock' = Opened(h)
              /\ lsock' = h
              /\ pc' \in {"rev_connect", "bind"}
  PROVE  LeakInv'
<1>0. /\ sock \in [Handles -> SockVals]
      /\ fd \in {0} \cup Handles
      /\ 0 \notin Handles
      /\ RoundCredit = 0
      /\ Referenced = {fd}
      /\ Pending = IF LiveSock(fd) THEN 1 ELSE 0
  BY DEF LeakInv, LeakTypeOK, RoundCredit, Referenced, Pending, CurrentFd, RevPcs
<1>1. CASE pc' = "failed" /\ UNCHANGED <<sock, lsock>>
  <2>1. LeakTypeOK'
    BY <1>1 DEF LeakInv, LeakTypeOK, Pcs
  <2>2. Referenced' = {0}
    BY <1>1 DEF Referenced
  <2>3. /\ Leaked' \subseteq Leaked \cup {fd}
        /\ Pending = 0 => Leaked' \subseteq Leaked
    BY <1>0, <1>1, <2>2 DEF Leaked, LiveSock
  <2>4. Pending' = 0 /\ RoundCredit' = 1
    BY <1>0, <1>1 DEF Pending, CurrentFd, LiveSock, RevPcs, RoundCredit
  <2>5. Cardinality(Leaked') + Pending' <= sessions' + RoundCredit' /\ LeakPerReset'
    BY <1>0, <2>3, <2>4, DropCount
  <2>6. QED
    BY <1>1, <2>1, <2>5 DEF LeakInv, RevPcs
<1>2. CASE \E h \in NewHandles :
              /\ sock' = Opened(h)
              /\ lsock' = h
              /\ pc' \in {"rev_connect", "bind"}
  <2>1. PICK h \in NewHandles :
              /\ sock' = Opened(h)
              /\ lsock' = h
              /\ pc' \in {"rev_connect", "bind"}
    BY <1>2
  <2>2. /\ h \in {0} \cup Handles
        /\ h # 0 => sock[h].by = "none"
    BY <1>0 DEF NewHandles, FreeHandles
  <2>3. \A x \in Handles : x # h => sock'[x] = sock[x]
    BY <1>0, <2>1, <2>2 DEF Opened
  <2>4. LeakTypeOK'
    BY <1>0, <2>1, <2>2, TableOps DEF LeakInv, LeakTypeOK, Pcs
  <2>5. Referenced' = {0, h}
    BY <2>1 DEF Referenced, RevPcs
  <2>6. /\ Leaked' \subseteq Leaked \cup {fd}
        /\ Pending = 0 => Leaked' \subseteq Leaked
    <3>1. \A x \in Leaked' : x \in Handles /\ x # h /\ sock[x].by = "transport"
      BY <2>3, <2>5 DEF Leaked
    <3>2. Leaked' \subseteq Leaked \cup {fd}
      BY <1>0, <3>1 DEF Leaked
    <3>3. ~LiveSock(fd) => fd \notin Leaked'
      BY <1>0, <3>1 DEF LiveSock
    <3>4. QED
      BY <1>0, <3>2, <3>3
  <2>7. Pending' <= RoundCredit'
    BY <2>1 DEF Pending, CurrentFd, LiveSock, RevPcs, RoundCredit
  <2>8. Cardinality(Leaked') + Pending' <= sessions' + RoundCredit' /\ LeakPerReset'
    BY <1>0, <2>6, <2>7, DropCount
  <2>9. QED
    BY <2>1, <2>4, <2>8 DEF LeakInv, RevPcs
<1>3. QED
  BY <1>1, <1>2

(* A staged reverse reconnect (lines 1064-1068) overwrites ctx->fd with  *)
(* the new socket: the old one is lost if it was still open.             *)
LEMMA ReconnectReverseStep ==
  ASSUME IsFiniteSet(Handles), LeakInv, ReconnectReverse
  PROVE  LeakInv'
<1>0. /\ sock \in [Handles -> SockVals]
      /\ fd \in {0} \cup Handles
      /\ 0 \notin Handles
      /\ RoundCredit = 0
      /\ Referenced = {fd}
      /\ Pending = IF LiveSock(fd) THEN 1 ELSE 0
  BY DEF ReconnectReverse, LeakInv, LeakTypeOK, RoundCredit, Referenced, Pending,
         CurrentFd, RevPcs
<1>1. PICK h \in NewHandles :
           /\ sock' = Opened(h)
           /\ fd' = h
           /\ lsock' = h
  BY DEF ReconnectReverse
<1>2. /\ h \in {0} \cup Handles
      /\ \A x \in Handles : x # h => sock'[x] = sock[x]
  BY <1>0, <1>1 DEF NewHandles, FreeHandles, Opened
<1>3. LeakTypeOK'
  BY <1>0, <1>1, <1>2, TableOps DEF ReconnectReverse, LeakInv, LeakTypeOK, Pcs
<1>4. Referenced' = {h}
  BY <1>1 DEF ReconnectReverse, Referenced
<1>5. /\ Leaked' \subseteq Leaked \cup {fd}
      /\ Pending = 0 => Leaked' \subseteq Leaked
  <2>1. \A x \in Leaked' : x \in Handles /\ x # h /\ sock[x].by = "transport"
    BY <1>2, <1>4 DEF Leaked
  <2>2. QED
    BY <1>0, <2>1 DEF Leaked, LiveSock
<1>6. Pending' <= RoundCredit' /\ sessions' = sessions
  BY DEF ReconnectReverse, Pending, RoundCredit, RevPcs
<1>7. Cardinality(Leaked') + Pending' <= sessions' + RoundCredit' /\ LeakPerReset'
  BY <1>0, <1>5, <1>6, DropCount
<1>8. QED
  BY <1>1, <1>3, <1>7 DEF LeakInv

(* The first call of a staged transport (lines 1079-1086) sets ctx->fd to *)
(* the stager's socket, which stops being referenced as the stager's.     *)
LEMMA InferStagedStep ==
  ASSUME IsFiniteSet(Handles), LeakInv, InferStaged
  PROVE  LeakInv'
<1>0. /\ sock \in [Handles -> SockVals]
      /\ fd \in {0} \cup Handles
      /\ 0 \notin Handles
      /\ RoundCredit = 0
      /\ Referenced = {fd, StagedFd}
      /\ Pending = IF LiveSock(fd) THEN 1 ELSE 0
  BY DEF InferStaged, LeakInv, LeakTypeOK, RoundCredit, Referenced, Pending,
         CurrentFd, RevPcs
<1>1. LeakTypeOK'
  BY DEF InferStaged, LeakInv, LeakTypeOK, Pcs
<1>2. Referenced' = {StagedFd}
  BY DEF InferStaged, Referenced
<1>3. /\ Leaked' \subseteq Leaked \cup {fd}
      /\ Pending = 0 => Leaked' \subseteq Leaked
  BY <1>0, <1>2 DEF InferStaged, Leaked, LiveSock
<1>4. Pending' <= RoundCredit' /\ sessions' = sessions
  BY DEF InferStaged, Pending, RoundCredit, RevPcs
<1>5. Cardinality(Leaked') + Pending' <= sessions' + RoundCredit' /\ LeakPerReset'
  BY <1>0, <1>3, <1>4, DropCount
<1>6. QED
  BY <1>1, <1>5 DEF InferStaged, LeakInv, RevPcs

(* A staged bind reconnect (lines 1056-1063) opens a listener and keeps  *)
(* ctx->fd; if the listener got ctx->fd's old handle value, the socket   *)
(* ctx->fd names is that listener and is not pending.                    *)
LEMMA ReconnectBindStep ==
  ASSUME IsFiniteSet(Handles), LeakInv, ReconnectBind
  PROVE  LeakInv'
<1>0. /\ sock \in [Handles -> SockVals]
      /\ fd \in {0} \cup Handles
      /\ 0 \notin Handles
      /\ RoundCredit = 0
      /\ Referenced = {fd}
      /\ Pending = IF LiveSock(fd) THEN 1 ELSE 0
  BY DEF ReconnectBind, LeakInv, LeakTypeOK, RoundCredit, Referenced, Pending,
         CurrentFd, RevPcs
<1>1. PICK h \in NewHandles :
           /\ sock' = Opened(h)
           /\ lsock' = h
  BY DEF ReconnectBind
<1>2. /\ h \in {0} \cup Handles
      /\ \A x \in Handles : x # h => sock'[x] = sock[x]
  BY <1>0, <1>1 DEF NewHandles, FreeHandles, Opened
<1>3. LeakTypeOK'
  BY <1>0, <1>1, <1>2, TableOps DEF ReconnectBind, LeakInv, LeakTypeOK, Pcs
<1>4. Referenced' = {fd, h}
  BY <1>1 DEF ReconnectBind, Referenced, RevPcs
<1>5. Leaked' \subseteq Leaked
  <2>1. \A x \in Leaked' : x \in Handles /\ x # h /\ x # fd /\ sock[x].by = "transport"
    BY <1>2, <1>4 DEF Leaked
  <2>2. QED
    BY <1>0, <2>1 DEF Leaked
<1>6. Pending' <= Pending
  <2>1. Pending' = IF LiveSock(fd)' /\ fd # h THEN 1 ELSE 0
    BY <1>1 DEF ReconnectBind, Pending, CurrentFd, RevPcs
  <2>2. fd # h => (LiveSock(fd)' <=> LiveSock(fd))
    BY <1>0, <1>2 DEF ReconnectBind, LiveSock
  <2>3. QED
    BY <1>0, <2>1, <2>2
<1>7. RoundCredit' = 0 /\ sessions' = sessions /\ sessions \in Nat
  BY DEF ReconnectBind, RoundCredit, LeakInv, LeakTypeOK
<1>8. Pending' + sessions + RoundCredit <= Pending + sessions' + RoundCredit'
  BY <1>0, <1>6, <1>7, CountBounds, CountBoundsNext, SameArith, Zenon
<1>9. Cardinality(Leaked') + Pending' <= sessions' + RoundCredit' /\ LeakPerReset'
  BY <1>5, <1>7, <1>8, KeepCount, Zenon
<1>10. QED
  BY <1>3, <1>9 DEF ReconnectBind, LeakInv, RevPcs

(* The sockets the stager's handover keeps referenced, in every state. *)
StagerRef == IF url = "staged" /\ ~captured THEN {StagedFd} ELSE {}

(***************************************************************************)
(* reverse_tcp_run's end (lines 53-58): ctx->fd is the routine's socket,  *)
(* or 0 with the socket closed; ctx->fd was 0 or that socket already.    *)
(***************************************************************************)
LEMMA RevDoneStep ==
  ASSUME IsFiniteSet(Handles), LeakInv, RevDone
  PROVE  LeakInv'
<1>0. /\ sock \in [Handles -> SockVals]
      /\ fd \in {0, lsock}
      /\ lsock \in {0} \cup Handles
      /\ 0 \notin Handles
      /\ Referenced = {fd, lsock} \cup StagerRef
      /\ RoundCredit = 1 /\ RoundCredit' = 1
      /\ sessions' = sessions /\ sessions \in Nat
  BY DEF RevDone, LeakInv, LeakTypeOK, RevPcs, Referenced, StagerRef, RoundCredit
<1>1. CASE result = "ok"
  <2>1. sock' = sock /\ fd' = lsock /\ pc' = "tls"
    BY <1>1 DEF RevDone
  <2>2. LeakTypeOK'
    BY <1>0, <2>1 DEF RevDone, LeakInv, LeakTypeOK, Pcs
  <2>3. Referenced' = {lsock} \cup StagerRef
    BY <2>1 DEF RevDone, Referenced, StagerRef
  <2>4. Leaked' \subseteq Leaked
    BY <1>0, <2>1, <2>3 DEF Leaked
  <2>5. Pending' <= Pending
    <3>1. Pending' = Pending
      BY <2>1 DEF RevDone, Pending, CurrentFd, LiveSock, RevPcs
    <3>2. QED
      BY <3>1, CountBounds
  <2>6. Pending' + sessions + RoundCredit <= Pending + sessions' + RoundCredit'
    BY <1>0, <2>5, CountBounds, CountBoundsNext, SameArith, Zenon
  <2>7. Cardinality(Leaked') + Pending' <= sessions' + RoundCredit' /\ LeakPerReset'
    BY <1>0, <2>4, <2>6, KeepCount, Zenon
  <2>8. QED
    BY <2>1, <2>2, <2>7 DEF LeakInv, RevPcs
<1>2. CASE result # "ok"
  <2>1. /\ sock' = Closed(sock, lsock)
        /\ fd' = 0 /\ pc' = "failed"
    BY <1>2 DEF RevDone, LeakInv, LeakTypeOK
  <2>2. \A x \in Handles : sock'[x].by = "transport" => x # lsock /\ sock'[x] = sock[x]
    BY <1>0, <2>1 DEF Closed, ClosedSock
  <2>3. LeakTypeOK'
    BY <1>0, <2>1, TableOps DEF RevDone, LeakInv, LeakTypeOK, Pcs
  <2>4. Referenced' = {0} \cup StagerRef
    BY <2>1 DEF RevDone, Referenced, StagerRef
  <2>5. Leaked' \subseteq Leaked
    <3>1. \A x \in Leaked' : x \in Handles /\ x # lsock /\ sock[x].by = "transport"
      BY <1>0, <2>1, <2>2, <2>4 DEF Leaked, Closed, ClosedSock
    <3>2. QED
      BY <1>0, <2>4, <3>1 DEF Leaked
  <2>6. Pending' = 0
    BY <2>1 DEF Pending, CurrentFd, LiveSock, RevPcs
  <2>7. Pending' + sessions + RoundCredit <= Pending + sessions' + RoundCredit'
    BY <1>0, <2>6, CountBounds
  <2>8. Cardinality(Leaked') + Pending' <= sessions' + RoundCredit' /\ LeakPerReset'
    BY <1>0, <2>5, <2>7, KeepCount, Zenon
  <2>9. QED
    BY <2>1, <2>3, <2>8 DEF LeakInv, RevPcs
<1>3. QED
  BY <1>1, <1>2

(***************************************************************************)
(* transport_reset_tcp (lines 853-864) closes a stale handle value and     *)
(* starts a new round: the count of resets grows by one while the credit  *)
(* of the new round is not yet given.                                     *)
(***************************************************************************)
LEMMA TransportResetStep ==
  ASSUME IsFiniteSet(Handles), LeakInv, TransportReset
  PROVE  LeakInv'
<1>0. /\ sock \in [Handles -> SockVals]
      /\ fd \in {0} \cup Handles
      /\ sessions \in Nat
      /\ sessions' = sessions + 1
      /\ sessions' \in Nat
      /\ pc' \in {"configure", "stopped"}
      /\ RoundCredit = 1
  BY DEF TransportReset, LeakInv, LeakTypeOK, RoundCredit
<1>1. PICK g \in ResetGarbage : sock' = Closed(sock, g)
  BY DEF TransportReset
<1>2. \A x \in Handles : sock'[x].by = "transport" => sock[x].by = "transport"
  BY <1>0, <1>1 DEF Closed, ClosedSock
<1>3. LeakTypeOK'
  BY <1>0, <1>1, TableOps DEF TransportReset, LeakInv, LeakTypeOK, Pcs
<1>4. Leaked' \subseteq Leaked
  <2>1. Referenced' = Referenced
    BY <1>0 DEF TransportReset, Referenced
  <2>2. QED
    BY <1>2, <2>1 DEF Leaked
<1>5. Pending' <= Pending
  <2>1. /\ CurrentFd' = fd /\ CurrentFd = fd
        /\ pc' # "bind" /\ pc # "bind"
    BY <1>0 DEF TransportReset, CurrentFd, RevPcs
  <2>2. LiveSock(CurrentFd)' => LiveSock(CurrentFd)
    BY <1>0, <1>2, <2>1 DEF TransportReset, LiveSock
  <2>3. QED
    BY <2>1, <2>2 DEF Pending
<1>6. Pending' + sessions + RoundCredit <= Pending + sessions' + RoundCredit'
  BY <1>0, <1>5, CountBounds, CountBoundsNext, ResetArith, Zenon
<1>7. Cardinality(Leaked') + Pending' <= sessions' + RoundCredit' /\ LeakPerReset'
  BY <1>0, <1>4, <1>6, KeepCount, Zenon
<1>8. QED
  BY <1>0, <1>3, <1>7 DEF LeakInv, RevPcs

(***************************************************************************)
(* bind_tcp_run (lines 184-214) closes the listener on every path; when   *)
(* accept succeeds its socket replaces ctx->fd, which is lost if it was   *)
(* still open and not the listener's own handle.                          *)
(***************************************************************************)
LEMMA BindRunStep ==
  ASSUME IsFiniteSet(Handles), LeakInv, BindRun
  PROVE  LeakInv'
<1>0. /\ sock \in [Handles -> SockVals]
      /\ fd \in {0} \cup Handles
      /\ lsock \in {0} \cup Handles
      /\ 0 \notin Handles
      /\ RoundCredit = 0
      /\ Referenced = {fd, lsock} \cup StagerRef
      /\ Pending = IF LiveSock(fd) /\ fd # lsock THEN 1 ELSE 0
      /\ sessions' = sessions /\ sessions \in Nat
  BY DEF BindRun, LeakInv, LeakTypeOK, RoundCredit, Referenced, StagerRef, Pending,
         CurrentFd, RevPcs
<1>1. CASE /\ sock' = Closed(sock, lsock)
           /\ result' = "fail"
           /\ pc' = "failed"
           /\ UNCHANGED fd
  <2>1. \A x \in Handles : sock'[x].by = "transport" => x # lsock /\ sock'[x] = sock[x]
    BY <1>0, <1>1 DEF Closed, ClosedSock
  <2>2. LeakTypeOK'
    BY <1>0, <1>1, TableOps DEF BindRun, LeakInv, LeakTypeOK, Pcs
  <2>3. Referenced' = {fd} \cup StagerRef
    BY <1>1 DEF BindRun, Referenced, StagerRef, RevPcs
  <2>4. Leaked' \subseteq Leaked
    <3>1. \A x \in Leaked' : x \in Handles /\ x # lsock /\ sock[x].by = "transport"
      BY <2>1 DEF Leaked
    <3>2. QED
      BY <1>0, <2>3, <3>1 DEF Leaked
  <2>5. RoundCredit' = 1
    BY <1>1 DEF RoundCredit
  <2>6. Pending' + sessions + RoundCredit <= Pending + sessions' + RoundCredit'
    BY <1>0, <2>5, CountBounds, CountBoundsNext, FailArith, Zenon
  <2>7. Cardinality(Leaked') + Pending' <= sessions' + RoundCredit' /\ LeakPerReset'
    BY <1>0, <2>4, <2>6, KeepCount, Zenon
  <2>8. QED
    BY <1>1, <2>2, <2>7 DEF LeakInv, RevPcs
<1>2. CASE /\ lsock # 0
           /\ sock[lsock] = OwnOpen
           /\ \E a \in FreeHandles :
                /\ sock' = Closed([sock EXCEPT ![a] = OwnConn], lsock)
                /\ fd' = a
           /\ result' = "ok"
           /\ pc' = "tls"
  <2>1. PICK a \in FreeHandles :
             /\ sock' = Closed([sock EXCEPT ![a] = OwnConn], lsock)
             /\ fd' = a
    BY <1>2
  <2>2. /\ a \in Handles
        /\ a # lsock
        /\ [sock EXCEPT ![a] = OwnConn] \in [Handles -> SockVals]
    BY <1>0, <1>2 DEF FreeHandles, OwnOpen, SockVals
  <2>3. \A x \in Handles : sock'[x].by = "transport" =>
            /\ x # lsock
            /\ x = a \/ sock'[x] = sock[x]
    BY <1>0, <1>2, <2>1, <2>2 DEF Closed, ClosedSock
  <2>4. LeakTypeOK'
    BY <1>0, <1>2, <2>1, <2>2, TableOps DEF BindRun, LeakInv, LeakTypeOK, Pcs
  <2>5. Referenced' = {a} \cup StagerRef
    BY <1>2, <2>1 DEF BindRun, Referenced, StagerRef, RevPcs
  <2>6. /\ Leaked' \subseteq Leaked \cup {fd}
        /\ Pending = 0 => Leaked' \subseteq Leaked
    <3>1. \A x \in Leaked' : /\ x \in Handles /\ x # lsock
                             /\ sock[x].by = "transport"
                             /\ x \notin StagerRef
      BY <2>3, <2>5 DEF Leaked
    <3>2. Leaked' \subseteq Leaked \cup {fd}
      BY <1>0, <3>1 DEF Leaked
    <3>3. Pending = 0 => fd \notin Leaked'
      BY <1>0, <3>1 DEF LiveSock
    <3>4. QED
      BY <3>2, <3>3
  <2>7. Pending' <= RoundCredit'
    BY <1>2, CountBoundsNext DEF RoundCredit
  <2>8. Cardinality(Leaked') + Pending' <= sessions' + RoundCredit' /\ LeakPerReset'
    BY <1>0, <2>6, <2>7, DropCount
  <2>9. QED
    BY <1>2, <2>4, <2>8 DEF LeakInv, RevPcs
<1>3. QED
  BY <1>1, <1>2 DEF BindRun

-----------------------------------------------------------------------------
THEOREM LeakInvariant ==
  ASSUME IsFiniteSet(Handles)
  PROVE  Spec => []LeakInv
<1>1. Init => LeakInv
  <2> SUFFICES ASSUME Init PROVE LeakInv
    OBVIOUS
  <2>1. LeakTypeOK
    BY DEF Init, LeakTypeOK, SockVals, Pcs
  <2>2. Leaked = {}
    <3>1. \A h \in Handles : sock[h].by = "transport" => url = "staged" /\ h = StagedFd
      <4>1. PICK t \in [Handles -> {ClosedSock, OtherConn}] :
                 sock = [h \in Handles |-> IF url = "staged" /\ h = StagedFd
                                           THEN OwnConn ELSE t[h]]
        BY DEF Init
      <4>2. QED
        BY <4>1 DEF ClosedSock, OtherConn, OwnConn
    <3>2. QED
      BY <3>1 DEF Init, Leaked, Referenced
  <2>3. Pending = 0 /\ RoundCredit = 0 /\ sessions = 0
    BY DEF Init, Pending, LiveSock, CurrentFd, RevPcs, RoundCredit
  <2>4. QED
    BY <2>1, <2>2, <2>3, FS_EmptySet DEF Init, LeakInv, RevPcs, LeakPerReset
<1>2. LeakInv /\ [Next]_vars => LeakInv'
  <2> SUFFICES ASSUME LeakInv, [Next]_vars PROVE LeakInv'
    OBVIOUS
  <2> USE IsFiniteSet(Handles)
  <2>0. /\ sock \in [Handles -> SockVals]
        /\ fd \in {0} \cup Handles
        /\ lsock \in {0} \cup Handles
        /\ 0 \notin Handles
    BY DEF LeakInv, LeakTypeOK
  <2>1. CASE RevConnect \/ RevExpiry \/ RevSleep \/ RevLoop
    <3>1. sock' \in [Handles -> SockVals]
      BY <2>0, <2>1 DEF RevConnect, RevExpiry, RevSleep, RevLoop, SockVals, OwnConn
    <3>2. \A x \in Handles : sock'[x].by = "transport" => sock[x].by = "transport"
      BY <2>0, <2>1 DEF RevConnect, RevExpiry, RevSleep, RevLoop, OwnConn, OwnOpen
    <3>3. QED
      BY <2>1, <3>1, <3>2, SameRound
         DEF RevConnect, RevExpiry, RevSleep, RevLoop, LeakInv, LeakTypeOK, RevPcs, Pcs
  <2>2. CASE Tls \/ Deinit \/ Stopped \/ ControllerFlip \/ Tick \/ UNCHANGED vars
    BY <2>2, SameRound
       DEF Tls, Deinit, Stopped, ControllerFlip, Tick, vars, LeakInv, LeakTypeOK, RevPcs, Pcs
  <2>3. CASE OtherOpen
    <3>1. PICK h \in FreeHandles :
                /\ sock' = [sock EXCEPT ![h] = OtherConn]
                /\ otherHeld' = otherHeld \cup {h}
      BY <2>3 DEF OtherOpen
    <3>2. /\ sock' \in [Handles -> SockVals]
          /\ otherHeld' \subseteq Handles
          /\ \A x \in Handles : sock'[x].by = "transport" => sock[x].by = "transport"
      BY <2>0, <3>1, TableOps DEF LeakInv, LeakTypeOK, SockVals, OtherConn
    <3>3. QED
      BY <2>3, <3>2, SameRound DEF OtherOpen, LeakInv, LeakTypeOK
  <2>4. CASE OtherClose
    <3>1. PICK h \in otherHeld :
                /\ sock' = Closed(sock, h)
                /\ otherHeld' = otherHeld \ {h}
      BY <2>4 DEF OtherClose
    <3>2. h \in Handles
      BY <3>1 DEF LeakInv, LeakTypeOK
    <3>3. /\ sock' \in [Handles -> SockVals]
          /\ otherHeld' \subseteq Handles
          /\ \A x \in Handles : sock'[x].by = "transport" => sock[x].by = "transport"
      BY <2>0, <3>1, <3>2, TableOps DEF LeakInv, LeakTypeOK, Closed, ClosedSock
    <3>4. QED
      BY <2>4, <3>3, SameRound DEF OtherClose, LeakInv, LeakTypeOK
  <2>5. CASE ConfigureReverse4
    <3>1. /\ pc = "configure" /\ url # "staged"
          /\ fd' = 0 /\ result' \in {"ok", "fail"}
          /\ UNCHANGED <<url, captured, sessions, otherHeld>>
          /\ \/ pc' = "failed" /\ UNCHANGED <<sock, lsock>>
             \/ \E h \in NewHandles :
                  /\ sock' = Opened(h)
                  /\ lsock' = h
                  /\ pc' \in {"rev_connect", "bind"}
      BY <2>5 DEF ConfigureReverse4
    <3>2. QED
      BY <3>1, FreshRound
  <2>6. CASE ConfigureBind4
    <3>1. /\ pc = "configure" /\ url # "staged"
          /\ fd' = 0 /\ result' \in {"ok", "fail"}
          /\ UNCHANGED <<url, captured, sessions, otherHeld>>
          /\ \/ pc' = "failed" /\ UNCHANGED <<sock, lsock>>
             \/ \E h \in NewHandles :
                  /\ sock' = Opened(h)
                  /\ lsock' = h
                  /\ pc' \in {"rev_connect", "bind"}
      BY <2>6 DEF ConfigureBind4
    <3>2. QED
      BY <3>1, FreshRound
  <2>7. CASE ReconnectReverse
    BY <2>7, ReconnectReverseStep
  <2>8. CASE InferStaged
    BY <2>8, InferStagedStep
  <2>9. CASE ReconnectBind
    BY <2>9, ReconnectBindStep
  <2>10. CASE RevDone
    BY <2>10, RevDoneStep
  <2>11. CASE BindRun
    BY <2>11, BindRunStep
  <2>12. CASE TransportReset
    BY <2>12, TransportResetStep
  <2>13. QED
    BY <2>1, <2>2, <2>3, <2>4, <2>5, <2>6, <2>7, <2>8, <2>9, <2>10, <2>11, <2>12
       DEF Next
<1>3. QED
  BY <1>1, <1>2, PTL DEF Spec


(***************************************************************************)
(* The connect and listen routines release every socket they open, so    *)
(* for any finite handle table the transport holds at most one socket per *)
(* reset that nothing refers to: the ctx->fd that transport_reset_tcp      *)
(* fails to close (it works on a fresh context, line 856) and the next    *)
(* configure_tcp_connection overwrites.                                   *)
(***************************************************************************)
THEOREM LeakBounded ==
  ASSUME IsFiniteSet(Handles)
  PROVE  Spec => []LeakPerReset
<1>1. LeakInv => LeakPerReset
  BY DEF LeakInv
<1>2. QED
  BY <1>1, LeakInvariant, PTL

=============================================================================
