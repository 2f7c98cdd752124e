----------------------------- MODULE Establisher -----------------------------
(***************************************************************************)
(* How the TCP transport gets a connected socket into ctx->fd, and what    *)
(* transport_reset_tcp does between two sessions.                          *)
(*                                                                         *)
(*  - configure_tcp_connection (server_transport_tcp.c lines 1004-1114)    *)
(*    picks the branch: a "tcp://host:port" URL connects out               *)
(*    (reverse_tcp4, lines 70-98), a "tcp://:port" URL listens             *)
(*    (bind_tcp, lines 224-281), no tcp URL means a staged transport,      *)
(*    which records the stager's socket on the first call (the inference   *)
(*    is the InheritanceProber module; here its outcome is a choice) and   *)
(*    reconnects the same way on later calls (lines 1051-1078);            *)
(*  - reverse_tcp_run (lines 31-59): connect, retrying every retry_wait    *)
(*    seconds for retry_total seconds or until the session expires, and    *)
(*    close the socket on failure;                                         *)
(*  - bind_tcp_run (lines 184-214): bind, listen, accept one connection    *)
(*    and close the listener on every path;                                *)
(*  - transport_reset_tcp (lines 853-864).                                 *)
(*                                                                         *)
(* The process's socket table is shared with other components, which open *)
(* and close handles of their own; a closed handle value is reused by the *)
(* next socket() or accept().  The driver that calls init, dispatch,      *)
(* deinit and reset in turn is not in this file (server_setup.c); it is   *)
(* modelled from the spec: after a session or a failed init the transport *)
(* is reset and initialised again, MaxSessions times.                     *)
(***************************************************************************)
EXTENDS Integers, FiniteSets

CONSTANTS
    Handles,        \* the socket handle values of the process
    UrlKinds,       \* "reverse4" (tcp://host:port), "bind4" (tcp://:port), "staged"
    StagedFd,       \* the socket a stager hands over
    RetryTotal,     \* timeouts.retry_total, in seconds
    RetryWait,      \* timeouts.retry_wait, in seconds
    ExpirationEnd,  \* transport->expiration_end
    MaxTime,        \* bound on the clock
    MaxSessions,    \* bound on the number of init/reset rounds
    DWORD_MOD,      \* 2^32 in the build: the range of a DWORD
    ResetGarbage    \* the values the uninitialised ctx->fd of line 858 can hold

ASSUME EstablisherAssumption ==
    /\ Handles \subseteq Nat \ {0}
    /\ StagedFd \in Handles
    /\ UrlKinds \subseteq {"reverse4", "bind4", "staged"}
    /\ {RetryTotal, RetryWait, ExpirationEnd, MaxTime, MaxSessions} \subseteq Nat
    /\ DWORD_MOD \in Nat \ {0}
    /\ ResetGarbage \subseteq {0} \cup Handles

(* An entry of the socket table: who opened the handle and its state. *)
ClosedSock == [by |-> "none", st |-> "closed"]
OwnOpen    == [by |-> "transport", st |-> "open"]
OwnConn    == [by |-> "transport", st |-> "conn"]
OtherConn  == [by |-> "other", st |-> "conn"]

VARIABLES
    url,        \* the kind of transport->url
    sock,       \* the process's socket table
    otherHeld,  \* the handles other components believe they hold
    fd,         \* ctx->fd (0: none)
    captured,   \* ctx->sock_desc_size > 0: the stager's connection was recorded
    bound,      \* ctx->bound
    lsock,      \* the socket of the connect or listen routine running
    start,      \* reverse_tcp_run's start
    result,     \* the result of the routine running
    pc,         \* where the transport thread is
    now,        \* current_unix_timestamp()
    listening,  \* the controller accepts (reverse) or makes (bind) a connection
    sessions,   \* init/reset rounds completed
    retryStart  \* reverse_tcp_run's retryStart: the last connect attempt (-1: none)

vars == <<url, sock, otherHeld, fd, captured, bound, lsock, start, result, pc,
          now, listening, sessions, retryStart>>

Pcs == {"configure", "rev_connect", "rev_expiry", "rev_sleep", "rev_loop",
        "rev_done", "bind", "tls", "session", "failed", "reset", "stopped"}

EstablisherTypeOK ==
    /\ url \in UrlKinds
    /\ sock \in [Handles -> {ClosedSock, OwnOpen, OwnConn, OtherConn}]
    /\ otherHeld \subseteq Handles
    /\ fd \in {0} \cup Handles
    /\ captured \in BOOLEAN
    /\ bound \in BOOLEAN
    /\ lsock \in {0} \cup Handles
    /\ start \in 0..MaxTime
    /\ result \in {"ok", "fail"}
    /\ pc \in Pcs
    /\ now \in 0..MaxTime
    /\ listening \in BOOLEAN
    /\ sessions \in 0..MaxSessions
    /\ retryStart \in -1..MaxTime

FreeHandles == {h \in Handles : sock[h].by = "none"}

(* socket() and accept(): a free handle, or INVALID_SOCKET (0 here). *)
NewHandles == IF FreeHandles = {} THEN {0} ELSE FreeHandles

(* The table after the transport opens h; INVALID_SOCKET changes nothing. *)
Opened(h) == IF h = 0 THEN sock ELSE [sock EXCEPT ![h] = OwnOpen]

(* closesocket(h): frees the handle whoever opened it; on INVALID_SOCKET  *)
(* or a closed handle it fails and changes nothing.                       *)
Closed(s, h) == IF h = 0 THEN s ELSE [s EXCEPT ![h] = ClosedSock]

(* transport_create_tcp zeroes the context (lines 1255-1282); other       *)
(* components may hold sockets, and a stager has handed over StagedFd.    *)
Init ==
    /\ url \in UrlKinds
    /\ sock \in {[h \in Handles |-> IF url = "staged" /\ h = StagedFd
                                     THEN OwnConn ELSE s[h]] :
                   s \in [Handles -> {ClosedSock, OtherConn}]}
    /\ otherHeld = {h \in Handles : sock[h] = OtherConn}
    /\ fd = 0
    /\ captured = FALSE
    /\ bound = FALSE
    /\ lsock = 0
    /\ start = 0
    /\ result = "ok"
    /\ pc = "configure"
    /\ now = 0
    /\ listening \in BOOLEAN
    /\ sessions = 0
    /\ retryStart = -1

-----------------------------------------------------------------------------
(***************************************************************************)
(* Lines 1017-1050 with reverse_tcp4 (lines 70-98): ctx->fd is zeroed,    *)
(* WSAStartup may fail; socket() is not checked, and reverse_tcp_run      *)
(* starts on what it returned.                                            *)
(***************************************************************************)
ConfigureReverse4 ==
    /\ pc = "configure"
    /\ url = "reverse4"
    /\ fd' = 0
    /\ retryStart' = -1
    /\ \/ /\ pc' = "failed"
          /\ result' = "fail"
          /\ UNCHANGED <<sock, lsock, start>>
       \/ \E h \in NewHandles :
            /\ sock' = Opened(h)
            /\ lsock' = h
            /\ start' = now
            /\ pc' = "rev_connect"
            /\ result' = "ok"
    /\ UNCHANGED <<url, otherHeld, captured, bound, now, listening, sessions>>

(***************************************************************************)
(* Lines 1038-1042 with bind_tcp (lines 224-281): ctx->fd is zeroed,      *)
(* WSAStartup may fail; the IPv6 socket, or after a failed socket() or    *)
(* setsockopt the IPv4 one (the IPv6 one closed), is the listener.        *)
(***************************************************************************)
ConfigureBind4 ==
    /\ pc = "configure"
    /\ url = "bind4"
    /\ fd' = 0
    /\ \/ /\ pc' = "failed"
          /\ result' = "fail"
          /\ UNCHANGED <<retryStart, sock, lsock>>
       \/ \E h \in NewHandles :
            /\ sock' = Opened(h)
            /\ lsock' = h
            /\ pc' = "bind"
            /\ result' = "ok"
    /\ UNCHANGED <<retryStart, url, otherHeld, captured, bound, start, now, listening, sessions>>

(* Lines 1056-1063: a staged bind reconnect listens on a new socket; only *)
(* a success writes ctx->fd.                                              *)
ReconnectBind ==
    /\ pc = "configure"
    /\ url = "staged" /\ captured /\ bound
    /\ \E h \in NewHandles :
         /\ sock' = Opened(h)
         /\ lsock' = h
    /\ pc' = "bind"
    /\ result' = "ok"
    /\ UNCHANGED <<retryStart, url, otherHeld, fd, captured, bound, start, now, listening, sessions>>

(* Lines 1064-1068: a staged reverse reconnect puts a new socket straight *)
(* into ctx->fd and runs reverse_tcp_run on it.                          *)
ReconnectReverse ==
    /\ pc = "configure"
    /\ url = "staged" /\ captured /\ ~bound
    /\ \E h \in NewHandles :
         /\ sock' = Opened(h)
         /\ fd' = h
         /\ lsock' = h
    /\ start' = now
    /\ retryStart' = -1
    /\ pc' = "rev_connect"
    /\ result' = "ok"
    /\ UNCHANGED <<url, otherHeld, captured, bound, now, listening, sessions>>

(* Lines 1079-1086: the first call of a staged transport records the     *)
(* stager's socket and infers bind or reverse; it always succeeds.        *)
InferStaged ==
    /\ pc = "configure"
    /\ url = "staged" /\ ~captured
    /\ fd' = StagedFd
    /\ captured' = TRUE
    /\ bound' \in BOOLEAN
    /\ pc' = "tls"
    /\ result' = "ok"
    /\ UNCHANGED <<retryStart, url, sock, otherHeld, lsock, start, now, listening, sessions>>

-----------------------------------------------------------------------------
(* reverse_tcp_run, lines 37-41: note retryStart and connect; it succeeds *)
(* only on an open socket while the controller listens, and may fail at   *)
(* any time.                                                              *)
RevConnect ==
    /\ pc = "rev_connect"
    /\ retryStart' = now
    /\ \/ /\ lsock # 0
          /\ sock[lsock] = OwnOpen
          /\ listening
          /\ sock' = [sock EXCEPT ![lsock] = OwnConn]
          /\ result' = "ok"
          /\ pc' = "rev_done"
       \/ /\ result' = "fail"
          /\ pc' = "rev_expiry"
          /\ UNCHANGED sock
    /\ UNCHANGED <<url, otherHeld, fd, captured, bound, lsock, start, now, listening, sessions>>

(* Variant of RevExpiry that never gives up on expiry. *)
RevExpiryNever ==
    /\ pc = "rev_expiry"
    /\ pc' = "rev_sleep"
    /\ UNCHANGED <<retryStart, url, sock, otherHeld, fd, captured, bound, lsock, start,
                   result, now, listening, sessions>>

(* Lines 44-47: give up once the session has expired. *)
RevExpiry ==
    /\ pc = "rev_expiry"
    /\ pc' = IF now >= ExpirationEnd THEN "rev_done" ELSE "rev_sleep"
    /\ UNCHANGED <<retryStart, url, sock, otherHeld, fd, captured, bound, lsock, start,
                   result, now, listening, sessions>>

(***************************************************************************)
(* Line 50: Sleep(retryWait * 1000).  The product is a DWORD, so the      *)
(* sleep lasts (retryWait * 1000) mod 2^32 milliseconds; the clock counts *)
(* whole seconds.  A sleep that would pass the clock's bound is not taken.*)
(***************************************************************************)
SleepSecs(w) == ((w * 1000) % DWORD_MOD) \div 1000

(* Variant of RevSleep that passes retryWait to Sleep as milliseconds. *)
RevSleepMillis ==
    /\ pc = "rev_sleep"
    /\ now + (RetryWait % DWORD_MOD) \div 1000 <= MaxTime
    /\ now' = now + (RetryWait % DWORD_MOD) \div 1000
    /\ pc' = "rev_loop"
    /\ UNCHANGED <<retryStart, url, sock, otherHeld, fd, captured, bound, lsock, start,
                   result, listening, sessions>>

RevSleep ==
    /\ pc = "rev_sleep"
    /\ now + SleepSecs(RetryWait) <= MaxTime
    /\ now' = now + SleepSecs(RetryWait)
    /\ pc' = "rev_loop"
    /\ UNCHANGED <<retryStart, url, sock, otherHeld, fd, captured, bound, lsock, start,
                   result, listening, sessions>>

(* Line 51: retry while less than retry_total seconds have passed. *)
RevLoop ==
    /\ pc = "rev_loop"
    /\ pc' = IF now - start < RetryTotal THEN "rev_connect" ELSE "rev_done"
    /\ UNCHANGED <<retryStart, url, sock, otherHeld, fd, captured, bound, lsock, start, result,
                   now, listening, sessions>>

(* Variant of RevDone that does not close the socket when connect failed. *)
RevDoneKeepOnFailure ==
    /\ pc = "rev_done"
    /\ fd' = IF result = "ok" THEN lsock ELSE 0
    /\ pc' = IF result = "ok" THEN "tls" ELSE "failed"
    /\ UNCHANGED <<retryStart, url, sock, otherHeld, captured, bound, lsock, start, result, now,
                   listening, sessions>>

(***************************************************************************)
(* Lines 53-58 and the callers' handling of the result (lines 92-95 and   *)
(* 1074-1077): on failure the socket is closed and ctx->fd is 0, on       *)
(* success ctx->fd is the connected socket; configure_tcp_connection      *)
(* returns FALSE on failure (lines 1088-1092).                            *)
(***************************************************************************)
RevDone ==
    /\ pc = "rev_done"
    /\ sock' = IF result = "fail" THEN Closed(sock, lsock) ELSE sock
    /\ fd' = IF result = "ok" THEN lsock ELSE 0
    /\ pc' = IF result = "ok" THEN "tls" ELSE "failed"
    /\ UNCHANGED <<retryStart, url, otherHeld, captured, bound, lsock, start, result, now,
                   listening, sessions>>

(***************************************************************************)
(* bind_tcp_run (lines 184-214): bind, listen and accept; a failure of    *)
(* any of them (INVALID_SOCKET, port in use, no handle left) leaves       *)
(* ctx->fd as it was; an accepted socket goes to ctx->fd.  The listener   *)
(* is closed on every path (line 211).                                    *)
(***************************************************************************)
BindRun ==
    /\ pc = "bind"
    /\ \/ /\ sock' = Closed(sock, lsock)
          /\ result' = "fail"
          /\ pc' = "failed"
          /\ UNCHANGED fd
       \/ /\ lsock # 0
          /\ sock[lsock] = OwnOpen
          /\ listening
          /\ \E a \in FreeHandles :
               /\ sock' = Closed([sock EXCEPT ![a] = OwnConn], lsock)
               /\ fd' = a
          /\ result' = "ok"
          /\ pc' = "tls"
    /\ UNCHANGED <<retryStart, url, otherHeld, captured, bound, lsock, start, now, listening, sessions>>

(***************************************************************************)
(* Lines 1094-1113: SetHandleInformation, server_socket_flush,            *)
(* server_initialize_ssl and server_negotiate_ssl.  The handshake needs a *)
(* connected socket; any of them may fail, and then configure returns     *)
(* FALSE without closing ctx->fd.                                         *)
(***************************************************************************)
Tls ==
    /\ pc = "tls"
    /\ \/ /\ sock[fd] = OwnConn
          /\ pc' = "session"
       \/ pc' = "failed"
    /\ UNCHANGED <<retryStart, url, sock, otherHeld, fd, captured, bound, lsock, start, result,
                   now, listening, sessions>>

-----------------------------------------------------------------------------
(* The driver: the session ends, or init failed; deinit (server_destroy_ssl *)
(* touches no socket) and the driver resets the transport.                  *)
Deinit ==
    /\ pc \in {"session", "failed"}
    /\ pc' = "reset"
    /\ UNCHANGED <<retryStart, url, sock, otherHeld, fd, captured, bound, lsock, start, result,
                   now, listening, sessions>>

(***************************************************************************)
(* transport_reset_tcp (lines 853-864): it mallocs a new context and      *)
(* works on it, not on transport->ctx.  The new context's fd is whatever  *)
(* the heap held; a non-zero value is passed to closesocket.  The real    *)
(* context, its fd and its recorded address are left as they were.  The   *)
(* driver then initialises the transport again.                           *)
(***************************************************************************)
TransportReset ==
    /\ pc = "reset"
    /\ \E g \in ResetGarbage : sock' = Closed(sock, g)
    /\ sessions' = sessions + 1
    /\ pc' = IF sessions + 1 < MaxSessions THEN "configure" ELSE "stopped"
    /\ UNCHANGED <<retryStart, url, otherHeld, fd, captured, bound, lsock, start, result, now,
                   listening>>

(* The driver has given up; transport_destroy_tcp frees the memory only. *)
Stopped ==
    /\ pc = "stopped"
    /\ UNCHANGED vars

-----------------------------------------------------------------------------
(* The environment: the controller, other components' sockets, the clock. *)
ControllerFlip ==
    /\ listening' = ~listening
    /\ UNCHANGED <<retryStart, url, sock, otherHeld, fd, captured, bound, lsock, start, result,
                   pc, now, sessions>>

OtherOpen ==
    /\ \E h \in FreeHandles :
         /\ sock' = [sock EXCEPT ![h] = OtherConn]
         /\ otherHeld' = otherHeld \cup {h}
    /\ UNCHANGED <<retryStart, url, fd, captured, bound, lsock, start, result, pc, now,
                   listening, sessions>>

(* Another component closes a handle it believes it holds. *)
OtherClose ==
    /\ \E h \in otherHeld :
         /\ sock' = Closed(sock, h)
         /\ otherHeld' = otherHeld \ {h}
    /\ UNCHANGED <<retryStart, url, fd, captured, bound, lsock, start, result, pc, now,
                   listening, sessions>>

Tick ==
    /\ now < MaxTime
    /\ now' = now + 1
    /\ UNCHANGED <<retryStart, url, sock, otherHeld, fd, captured, bound, lsock, start, result,
                   pc, listening, sessions>>

Next ==
    \/ ConfigureReverse4 \/ ConfigureBind4 \/ ReconnectBind \/ ReconnectReverse
    \/ InferStaged
    \/ RevConnect \/ RevExpiry \/ RevSleep \/ RevLoop \/ RevDone
    \/ BindRun \/ Tls
    \/ Deinit \/ TransportReset \/ Stopped
    \/ ControllerFlip \/ OtherOpen \/ OtherClose \/ Tick

Spec == Init /\ [][Next]_vars

-----------------------------------------------------------------------------
(* The sockets the transport refers to: ctx->fd, the local socket of a    *)
(* connect or listen routine while it runs, the stager's socket until it  *)
(* is recorded.                                                           *)
Referenced ==
    {fd}
    \cup (IF pc \in {"rev_connect", "rev_expiry", "rev_sleep", "rev_loop",
                     "rev_done", "bind"} THEN {lsock} ELSE {})
    \cup (IF url = "staged" /\ ~captured THEN {StagedFd} ELSE {})

(* The sockets the transport holds that nothing refers to any more. *)
Leaked == {h \in Handles : sock[h].by = "transport" /\ h \notin Referenced}

(***************************************************************************)
(* The transport loses at most one socket per reset: the connect and      *)
(* listen routines release every socket they open on every path, so the  *)
(* only socket left behind is the ctx->fd that transport_reset_tcp fails  *)
(* to close and the next configure_tcp_connection overwrites.             *)
(***************************************************************************)
LeakPerReset == Cardinality(Leaked) <= sessions

(***************************************************************************)
(* During a session ctx->fd is a connected socket of the transport: no    *)
(* other component closed it or got its handle value, whatever the        *)
(* earlier resets closed.                                                 *)
(***************************************************************************)
SessionSocketLive == pc = "session" => sock[fd] = OwnConn

(***************************************************************************)
(* Spec section 4.2 has the retry loop honour expiration_end; the code    *)
(* (lines 38-47) checks it only after a failed connect, so a sleep that   *)
(* crosses the expiry is followed by one more attempt.  That attempt is   *)
(* the only late one: a connect made at or after expiration_end comes     *)
(* right after one made before it, or is the first of its run.           *)
(***************************************************************************)
AtMostOneLateConnect ==
    (pc = "rev_connect" /\ now >= ExpirationEnd /\ retryStart # -1)
        => retryStart < ExpirationEnd

(***************************************************************************)
(* Spec section 4.2: after a failed connect the loop sleeps retry_wait    *)
(* seconds before it retries, so two connect attempts of one              *)
(* reverse_tcp_run are at least retry_wait seconds apart (line 50).       *)
(***************************************************************************)
RetryWaitHonoured ==
    (pc = "rev_connect" /\ retryStart # -1) => now - retryStart >= RetryWait

=============================================================================
