---------------------------- MODULE DispatchLoop ----------------------------
(***************************************************************************)
(* server_dispatch_tcp (server_transport_tcp.c lines 748-817) composed    *)
(* with the packet codec.  The dispatch thread polls the socket under the *)
(* session lock, receives a packet, hands it to the command handler and   *)
(* checks the comms timeout and the session expiry.  The command handler  *)
(* answers inline on the dispatch thread or hands the work to a worker    *)
(* thread; both answer through packet_transmit_via_ssl.  On exit the      *)
(* scheduler is destroyed and the command threads joined.                 *)
(***************************************************************************)
EXTENDS PacketCodec

CONSTANTS
    Dispatcher,     \* the dispatch thread (a member of Threads)
    Comms,          \* transport->timeouts.comms, in seconds
    ExpirationEnd,  \* transport->expiration_end, in seconds
    MaxTime         \* bound on the clock

ASSUME DispatchAssumption ==
    /\ Dispatcher \in Threads
    /\ Comms \in Nat
    /\ ExpirationEnd \in Nat
    /\ MaxTime \in Nat
    /\ ExpirationEnd < MaxTime

Workers == Threads \ {Dispatcher}

VARIABLES
    dpc,        \* where the dispatch thread is in server_dispatch_tcp
    running,    \* the value command_handle returned
    lastPacket, \* the local lastPacket of server_dispatch_tcp
    now,        \* current_unix_timestamp()
    sigterm,    \* dispatchThread->sigterm has been signalled
    dres        \* the result server_dispatch_tcp returns

dispatchVars == <<dpc, running, lastPacket, now, sigterm, dres>>

vars == <<codecVars, dispatchVars>>

DPcs == {"start", "top", "poll", "recv", "handle", "respond", "exit", "done"}

DispatchTypeOK ==
    /\ CodecTypeOK
    /\ dpc \in DPcs
    /\ running \in BOOLEAN
    /\ lastPacket \in 0..MaxTime
    /\ now \in 0..MaxTime
    /\ sigterm \in BOOLEAN
    /\ dres \in Results \cup {"SCHEDULER_ERROR"}

Init ==
    /\ CodecInit
    /\ dpc = "start"
    /\ running = TRUE
    /\ lastPacket = 0
    /\ now = 0
    /\ sigterm = FALSE
    /\ dres = "SUCCESS"

-----------------------------------------------------------------------------
(* Lines 759-765: bring up the scheduler; a failure returns at once.      *)
DispatchStart ==
    /\ dpc = "start"
    /\ \/ /\ dpc' = "top"
          /\ lastPacket' = now
          /\ UNCHANGED dres
       \/ /\ dpc' = "done"
          /\ dres' = "SCHEDULER_ERROR"
          /\ UNCHANGED lastPacket
    /\ UNCHANGED <<codecVars, running, now, sigterm>>

(* Lines 766-772: the loop test and the termination event. *)
DispatchCheckSigterm ==
    /\ dpc = "top"
    /\ dpc' = IF running /\ ~sigterm THEN "poll" ELSE "exit"
    /\ UNCHANGED <<codecVars, running, lastPacket, now, sigterm, dres>>

(***************************************************************************)
(* Lines 774-800: server_socket_poll (select under the lock, lines        *)
(* 408-428) with a 50 ms timeout.  The socket is readable when a frame is *)
(* buffered or the connection is down.  On a timeout the comms timeout    *)
(* and the session expiry are checked.                                    *)
(***************************************************************************)
Readable == rcvd < Len(peerSent) \/ conn # "up"

(* Variant of TimedOut that forgets the session expiry. *)
TimedOutCommsOnly == now - lastPacket > Comms

TimedOut == now > ExpirationEnd \/ now - lastPacket > Comms

DispatchPoll ==
    /\ dpc = "poll"
    /\ lock = NoThread
    /\ dpc' = CASE Readable  -> "recv"
                [] TimedOut  -> "exit"
                [] OTHER     -> "top"
    /\ dres' = IF ~Readable /\ TimedOut THEN "SUCCESS" ELSE dres
    /\ UNCHANGED <<codecVars, running, lastPacket, now, sigterm>>

(* Lines 777-782: receive one packet; a failure leaves the loop. *)
DispatchReceive ==
    /\ dpc = "recv"
    /\ PacketReceive(Dispatcher)
    /\ dpc' = IF rxRes' = "SUCCESS" THEN "handle" ELSE "exit"
    /\ dres' = rxRes'
    /\ UNCHANGED <<running, lastPacket, now, sigterm>>

(* Line 788, after command_handle returns: reset the timer. *)
CommandReturned(cont) ==
    /\ lastPacket' = now
    /\ dpc' = IF cont THEN "top" ELSE "exit"

(***************************************************************************)
(* Line 784: command_handle.  The handler answers inline (the dispatch    *)
(* thread transmits), or starts a worker thread that will transmit, or    *)
(* sends nothing; it returns whether to keep running.                     *)
(***************************************************************************)
DispatchHandle ==
    /\ dpc = "handle"
    /\ \E cont \in BOOLEAN, type \in OutTypes, plen \in PayloadLens :
         /\ running' = cont
         /\ \/ /\ TransmitCall(Dispatcher, type, plen)
               /\ dpc' = "respond"
               /\ UNCHANGED lastPacket
            \/ \E w \in Workers :
                 /\ TransmitCall(w, type, plen)
                 /\ CommandReturned(cont)
            \/ /\ CommandReturned(cont)
               /\ UNCHANGED <<tx, nextId>>
    /\ UNCHANGED <<lock, conn, wire, okIds, peerSent, rcvd, delivered, rxRes,
                   now, sigterm, dres>>

(* The inline answer has been transmitted; command_handle returns. *)
DispatchResponded ==
    /\ dpc = "respond"
    /\ TransmitReturn(Dispatcher)
    /\ CommandReturned(running)
    /\ UNCHANGED <<lock, conn, wire, nextId, okIds, peerSent, rcvd, delivered,
                   rxRes, running, now, sigterm, dres>>

(* Variant of DispatchExit that does not join the command threads. *)
DispatchExitNoJoin ==
    /\ dpc = "exit"
    /\ dpc' = "done"
    /\ UNCHANGED <<codecVars, running, lastPacket, now, sigterm, dres>>

(* Lines 809-816: scheduler_destroy and command_join_threads. *)
DispatchExit ==
    /\ dpc = "exit"
    /\ \A w \in Workers : tx[w].pc = "idle"
    /\ dpc' = "done"
    /\ UNCHANGED <<codecVars, running, lastPacket, now, sigterm, dres>>

(* A worker thread runs its transmit and ends. *)
WorkerFinish(w) ==
    /\ TransmitReturn(w)
    /\ UNCHANGED <<lock, conn, wire, nextId, okIds, peerSent, rcvd, delivered,
                   rxRes, dispatchVars>>

(* The codec steps of a thread's transmit. *)
TransmitStep(t) ==
    /\ \/ TransmitBegin(t)
       \/ TransmitHeader(t)
       \/ TransmitPayload(t)
       \/ TransmitFinish(t)
    /\ UNCHANGED dispatchVars

-----------------------------------------------------------------------------
(* The environment: the controller, the session signalling termination,   *)
(* and the clock.                                                         *)
Environment ==
    /\ \/ PeerSend
       \/ PeerClose
    /\ UNCHANGED dispatchVars

Signal ==
    /\ ~sigterm
    /\ sigterm' = TRUE
    /\ UNCHANGED <<codecVars, dpc, running, lastPacket, now, dres>>

Tick ==
    /\ now < MaxTime
    /\ now' = now + 1
    /\ UNCHANGED <<codecVars, dpc, running, lastPacket, sigterm, dres>>

(* server_dispatch_tcp has returned. *)
Returned ==
    /\ dpc = "done"
    /\ UNCHANGED vars

DispatcherStep ==
    \/ DispatchStart
    \/ DispatchCheckSigterm
    \/ DispatchPoll
    \/ DispatchReceive
    \/ DispatchHandle
    \/ DispatchResponded
    \/ DispatchExit
    \/ TransmitStep(Dispatcher)

WorkerStep(w) ==
    \/ TransmitStep(w)
    \/ WorkerFinish(w)

Next ==
    \/ DispatcherStep
    \/ \E w \in Workers : WorkerStep(w)
    \/ Environment
    \/ Signal
    \/ Tick
    \/ Returned

(***************************************************************************)
(* Fairness: the dispatch thread and the worker threads are scheduled by  *)
(* the OS and keep running while they can; the clock keeps advancing.     *)
(* The controller and the session's termination signal get no fairness.   *)
(***************************************************************************)
Spec ==
    /\ Init /\ [][Next]_vars
    /\ WF_vars(DispatcherStep)
    /\ \A w \in Workers : WF_vars(WorkerStep(w))
    /\ WF_vars(Tick)

-----------------------------------------------------------------------------
(***************************************************************************)
(* When server_dispatch_tcp returns, no worker is inside or waiting for   *)
(* packet_transmit_via_ssl and the session lock is free: the caller frees *)
(* the SSL session next (server_destroy_ssl), so a transmit still running *)
(* would write through a freed SSL object.                                *)
(***************************************************************************)
QuiescentOnReturn ==
    dpc = "done" => (lock = NoThread /\ \A t \in Threads : tx[t].pc = "idle")

(***************************************************************************)
(* server_dispatch_tcp always returns: whatever the controller does, the  *)
(* dispatch thread gets the lock back from transmitting threads, and the  *)
(* comms timeout or the session expiry ends a quiet or a chatty session.  *)
(***************************************************************************)
DispatchTerminates == <>(dpc = "done")

=============================================================================
