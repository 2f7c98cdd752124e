--------------------------- MODULE DispatchProofs ---------------------------
(***************************************************************************)
(* Proofs about server_dispatch_tcp (lines 748-817) composed with the     *)
(* codec, for every number of worker threads, comms timeout and session   *)
(* expiry: the dispatch loop's steps are codec steps, so the codec's      *)
(* invariants hold of the composition; the loop is well typed; and when  *)
(* it returns no thread is inside packet_transmit_via_ssl.                *)
(***************************************************************************)
EXTENDS DispatchLoop, PacketCodecProofs

(***************************************************************************)
(* The strengthening of QuiescentOnReturn.  Besides the codec's framing   *)
(* invariant (which says the lock is held only by a thread inside the     *)
(* write loops), the dispatch thread is inside a transmit only while it   *)
(* answers inline, and no worker has a transmit before the loop starts or *)
(* after it has joined the command threads.                               *)
(***************************************************************************)
DispatcherTransmitsInline == tx[Dispatcher].pc # "idle" => dpc = "respond"

WorkersIdleOutsideLoop ==
    dpc \in {"start", "done"} => \A w \in Workers : tx[w].pc = "idle"

QInv ==
    /\ IInv
    /\ DispatchTypeOK
    /\ DispatcherTransmitsInline
    /\ WorkersIdleOutsideLoop

USE DispatchAssumption

-----------------------------------------------------------------------------
(***************************************************************************)
(* Every step of the composition is a step of the codec or leaves the    *)
(* codec's state alone: the dispatch thread receives and answers only    *)
(* through packet_receive_via_ssl and packet_transmit_via_ssl.           *)
(***************************************************************************)
LEMMA CodecStep == [Next]_vars => [CodecNext]_codecVars
<1> SUFFICES ASSUME [Next]_vars PROVE [CodecNext]_codecVars
  OBVIOUS
<1>1. CASE DispatchStart \/ DispatchCheckSigterm \/ DispatchPoll \/ DispatchExit
           \/ Signal \/ Tick \/ Returned \/ UNCHANGED vars
  BY <1>1 DEF DispatchStart, DispatchCheckSigterm, DispatchPoll, DispatchExit,
              Signal, Tick, Returned, vars
<1>2. CASE DispatchReceive
  BY <1>2 DEF DispatchReceive, CodecNext
<1>3. CASE DispatchHandle
  <2>1. PICK cont \in BOOLEAN, type \in OutTypes, plen \in PayloadLens :
          /\ \/ TransmitCall(Dispatcher, type, plen)
             \/ \E w \in Workers : TransmitCall(w, type, plen)
             \/ UNCHANGED <<tx, nextId>>
          /\ UNCHANGED <<lock, conn, wire, okIds, peerSent, rcvd, delivered, rxRes>>
    BY <1>3 DEF DispatchHandle
  <2>2. QED
    BY <2>1 DEF CodecNext, codecVars, Workers
<1>4. CASE DispatchResponded
  BY <1>4 DEF DispatchResponded, CodecNext
<1>5. CASE \E t \in Threads : TransmitStep(t)
  BY <1>5 DEF TransmitStep, CodecNext
<1>6. CASE \E w \in Workers : WorkerFinish(w)
  BY <1>6 DEF WorkerFinish, CodecNext, Workers
<1>7. CASE Environment
  BY <1>7 DEF Environment, CodecNext
<1>8. QED
  BY <1>1, <1>2, <1>3, <1>4, <1>5, <1>6, <1>7
     DEF Next, DispatcherStep, WorkerStep, Workers

(***************************************************************************)
(* A step inside packet_transmit_via_ssl (TransmitBegin to TransmitFinish) *)
(* is taken by a thread that is in a transmit and stays in it, and leaves *)
(* the other threads' locals alone.                                       *)
(***************************************************************************)
LEMMA TransmitStepBusy ==
  ASSUME CodecTypeOK, NEW t \in Threads, TransmitStep(t)
  PROVE  /\ tx[t].pc # "idle"
         /\ tx'[t].pc # "idle"
         /\ \A u \in Threads \ {t} : tx'[u] = tx[u]
         /\ UNCHANGED dispatchVars
<1>0. UNCHANGED dispatchVars
  BY DEF TransmitStep
<1>1. tx \in [Threads -> TxState]
  BY DEF CodecTypeOK
<1>2. CASE TransmitBegin(t)
  <2>1. \/ tx' = [tx EXCEPT ![t].pc = "ret", ![t].result = "CRYPTO_ERROR"]
        \/ \E e \in PayloadLens :
             tx' = [tx EXCEPT ![t].pc = "hdr", ![t].plen = e,
                              ![t].hlen = e + HEADER_SIZE, ![t].idx = 0]
        \/ tx' = [tx EXCEPT ![t].pc = "hdr", ![t].idx = 0]
    BY <1>2, Zenon DEF TransmitBegin
  <2>2. tx[t].pc = "call"
    BY <1>2 DEF TransmitBegin
  <2>3. CASE tx' = [tx EXCEPT ![t].pc = "ret", ![t].result = "CRYPTO_ERROR"]
    BY <1>0, <1>1, <2>2, <2>3 DEF TxState
  <2>4. CASE \E e \in PayloadLens :
               tx' = [tx EXCEPT ![t].pc = "hdr", ![t].plen = e,
                                ![t].hlen = e + HEADER_SIZE, ![t].idx = 0]
    BY <1>0, <1>1, <2>2, <2>4 DEF TxState
  <2>5. CASE tx' = [tx EXCEPT ![t].pc = "hdr", ![t].idx = 0]
    BY <1>0, <1>1, <2>2, <2>5 DEF TxState
  <2>6. QED
    BY <2>1, <2>3, <2>4, <2>5
<1>3. CASE TransmitHeader(t)
  <2>1. \/ tx' = [tx EXCEPT ![t].pc = "ret", ![t].result = "WRITE_ERROR"]
        \/ \E res, idx : \E pc \in {"pay", "hdr"} :
             tx' = [tx EXCEPT ![t].res = res, ![t].idx = idx, ![t].pc = pc]
    <3>1. PICK r \in WriteOutcomes(HEADER_SIZE - tx[t].idx) : HeaderWrite(t, r)
      BY <1>3 DEF TransmitHeader
    <3>2. QED
      BY <3>1 DEF HeaderWrite
  <2>2. QED
    BY <1>0, <1>1, <1>3, <2>1 DEF TransmitHeader, TxState
<1>4. CASE TransmitPayload(t)
  <2>1. \E res, idx : tx' = [tx EXCEPT ![t].res = res, ![t].idx = idx]
    <3>1. PICK r \in WriteOutcomes(tx[t].plen - tx[t].idx) : PayloadWrite(t, r)
      BY <1>4 DEF TransmitPayload
    <3>2. QED
      BY <3>1 DEF PayloadWrite
  <2>2. QED
    BY <1>0, <1>1, <1>4, <2>1 DEF TransmitPayload, TxState
<1>5. CASE TransmitFinish(t)
  BY <1>0, <1>1, <1>5 DEF TransmitFinish, TxState
<1>6. QED
  BY <1>2, <1>3, <1>4, <1>5 DEF TransmitStep

(* The dispatch part of the strengthening. *)
DispatchLocals ==
    /\ dpc \in DPcs
    /\ running \in BOOLEAN
    /\ lastPacket \in 0..MaxTime
    /\ now \in 0..MaxTime
    /\ sigterm \in BOOLEAN
    /\ dres \in Results \cup {"SCHEDULER_ERROR"}
    /\ DispatcherTransmitsInline
    /\ WorkersIdleOutsideLoop

(***************************************************************************)
(* Every step keeps the dispatch part: the dispatch thread starts a       *)
(* transmit only when it answers inline and leaves "respond" only when    *)
(* the transmit has returned; a worker is handed a transmit only inside   *)
(* the loop, and server_dispatch_tcp returns only once the workers are    *)
(* joined.                                                                *)
(***************************************************************************)
LEMMA DispatchLocalsStep ==
  ASSUME DispatchLocals, CodecTypeOK, CodecTypeOK', [Next]_vars
  PROVE  DispatchLocals'
<1>0. /\ tx \in [Threads -> TxState]
      /\ Dispatcher \in Threads
      /\ \A w \in Workers : w \in Threads /\ w # Dispatcher
  BY DEF CodecTypeOK, Workers
<1>1. CASE DispatchStart
  BY <1>1 DEF DispatchStart, DispatchLocals, DispatcherTransmitsInline,
              WorkersIdleOutsideLoop, codecVars, DPcs, Results
<1>2. CASE DispatchCheckSigterm
  BY <1>2 DEF DispatchCheckSigterm, DispatchLocals, DispatcherTransmitsInline,
              WorkersIdleOutsideLoop, codecVars, DPcs
<1>3. CASE DispatchPoll
  BY <1>3 DEF DispatchPoll, DispatchLocals, DispatcherTransmitsInline,
              WorkersIdleOutsideLoop, codecVars, DPcs, Results
<1>4. CASE DispatchReceive
  <2>1. UNCHANGED tx
    BY <1>4 DEF DispatchReceive, PacketReceive
  <2>2. QED
    BY <1>4, <2>1 DEF DispatchReceive, DispatchLocals, DispatcherTransmitsInline,
                      WorkersIdleOutsideLoop, CodecTypeOK, DPcs, Results
<1>5. CASE DispatchHandle
  <2>1. PICK cont \in BOOLEAN, type \in OutTypes, plen \in PayloadLens :
          /\ running' = cont
          /\ \/ /\ TransmitCall(Dispatcher, type, plen)
                /\ dpc' = "respond"
                /\ UNCHANGED lastPacket
             \/ \E w \in Workers :
                  /\ TransmitCall(w, type, plen)
                  /\ CommandReturned(cont)
             \/ /\ CommandReturned(cont)
                /\ UNCHANGED <<tx, nextId>>
          /\ UNCHANGED <<now, sigterm, dres>>
    BY <1>5 DEF DispatchHandle
  <2>2. dpc = "handle"
    BY <1>5 DEF DispatchHandle
  <2>3. CASE TransmitCall(Dispatcher, type, plen) /\ dpc' = "respond" /\ UNCHANGED lastPacket
    <3>1. \A w \in Workers : tx'[w] = tx[w]
      BY <1>0, <2>3 DEF TransmitCall
    <3>2. QED
      BY <2>1, <2>3, <3>1 DEF DispatchLocals, DispatcherTransmitsInline,
                              WorkersIdleOutsideLoop, DPcs
  <2>4. CASE \E w \in Workers : TransmitCall(w, type, plen) /\ CommandReturned(cont)
    <3>1. PICK w \in Workers : TransmitCall(w, type, plen) /\ CommandReturned(cont)
      BY <2>4
    <3>2. /\ tx'[Dispatcher] = tx[Dispatcher]
          /\ dpc' \in {"top", "exit"}
          /\ lastPacket' = now
      BY <1>0, <3>1 DEF TransmitCall, CommandReturned
    <3>3. tx[Dispatcher].pc = "idle"
      BY <2>2 DEF DispatchLocals, DispatcherTransmitsInline
    <3>4. QED
      BY <2>1, <3>2, <3>3 DEF DispatchLocals, DispatcherTransmitsInline,
                              WorkersIdleOutsideLoop, DPcs
  <2>5. CASE CommandReturned(cont) /\ UNCHANGED <<tx, nextId>>
    BY <2>1, <2>2, <2>5 DEF CommandReturned, DispatchLocals, DispatcherTransmitsInline,
                            WorkersIdleOutsideLoop, DPcs
  <2>6. QED
    BY <2>1, <2>3, <2>4, <2>5
<1>6. CASE DispatchResponded
  <2>1. /\ tx' = [tx EXCEPT ![Dispatcher] = TxIdle]
        /\ dpc' \in {"top", "exit"}
        /\ lastPacket' = now
        /\ UNCHANGED <<running, now, sigterm, dres>>
    BY <1>6 DEF DispatchResponded, TransmitReturn, CommandReturned
  <2>2. /\ tx'[Dispatcher].pc = "idle"
        /\ \A w \in Workers : tx'[w] = tx[w]
    BY <1>0, <2>1 DEF TxIdle
  <2>3. QED
    BY <2>1, <2>2 DEF DispatchLocals, DispatcherTransmitsInline,
                      WorkersIdleOutsideLoop, DPcs
<1>7. CASE DispatchExit
  BY <1>7 DEF DispatchExit, DispatchLocals, DispatcherTransmitsInline,
              WorkersIdleOutsideLoop, codecVars, DPcs
<1>8. CASE \E t \in Threads : TransmitStep(t)
  <2>1. PICK t \in Threads : TransmitStep(t)
    BY <1>8
  <2>2. /\ tx[t].pc # "idle"
        /\ tx'[t].pc # "idle"
        /\ \A u \in Threads \ {t} : tx'[u] = tx[u]
        /\ UNCHANGED dispatchVars
    BY <2>1, TransmitStepBusy
  <2>3. CASE t = Dispatcher
    BY <1>0, <2>2, <2>3 DEF DispatchLocals, DispatcherTransmitsInline,
                            WorkersIdleOutsideLoop, dispatchVars
  <2>4. CASE t # Dispatcher
    <3>1. t \in Workers
      BY <2>4 DEF Workers
    <3>2. QED
      BY <1>0, <2>2, <2>4, <3>1 DEF DispatchLocals, DispatcherTransmitsInline,
                                    WorkersIdleOutsideLoop, dispatchVars
  <2>7. QED
    BY <2>3, <2>4
<1>9. CASE \E w \in Workers : WorkerFinish(w)
  <2>1. PICK w \in Workers : WorkerFinish(w)
    BY <1>9
  <2>2. /\ tx' = [tx EXCEPT ![w] = TxIdle]
        /\ UNCHANGED dispatchVars
    BY <2>1 DEF WorkerFinish, TransmitReturn
  <2>3. /\ tx'[w].pc = "idle"
        /\ \A u \in Threads \ {w} : tx'[u] = tx[u]
    BY <1>0, <2>2 DEF TxIdle
  <2>4. QED
    BY <1>0, <2>2, <2>3 DEF DispatchLocals, DispatcherTransmitsInline,
                            WorkersIdleOutsideLoop, dispatchVars
<1>10. CASE Environment
  <2>1. UNCHANGED <<tx, dispatchVars>>
    BY <1>10 DEF Environment, PeerSend, PeerClose
  <2>2. QED
    BY <2>1 DEF DispatchLocals, DispatcherTransmitsInline, WorkersIdleOutsideLoop,
                dispatchVars
<1>11. CASE Signal \/ Tick
  <2>1. /\ UNCHANGED <<tx, dpc, running, lastPacket, dres>>
        /\ sigterm' \in BOOLEAN
        /\ now' \in 0..MaxTime
    <3>1. CASE Signal
      BY <3>1 DEF Signal, codecVars, DispatchLocals
    <3>2. CASE Tick
      BY <3>2 DEF Tick, codecVars, DispatchLocals
    <3>3. QED
      BY <1>11, <3>1, <3>2
  <2>2. QED
    BY <2>1 DEF DispatchLocals, DispatcherTransmitsInline, WorkersIdleOutsideLoop
<1>12. CASE Returned \/ UNCHANGED vars
  <2>1. UNCHANGED <<tx, dispatchVars>>
    BY <1>12 DEF Returned, vars, codecVars
  <2>2. QED
    BY <2>1 DEF DispatchLocals, DispatcherTransmitsInline, WorkersIdleOutsideLoop,
                dispatchVars
<1>13. QED
  BY <1>0, <1>1, <1>2, <1>3, <1>4, <1>5, <1>6, <1>7, <1>8, <1>9, <1>10, <1>11, <1>12
     DEF Next, DispatcherStep, WorkerStep

-----------------------------------------------------------------------------
(* QInv holds in every state of the composition. *)
THEOREM QuiescenceInvariant == Spec => []QInv
<1>1. Init => QInv
  <2> SUFFICES ASSUME Init PROVE QInv
    OBVIOUS
  <2>1. IInv
    BY FramingInit DEF Init
  <2>2. \A t \in Threads : tx[t].pc = "idle"
    BY DEF Init, CodecInit, TxIdle
  <2>3. CodecTypeOK
    BY <2>1 DEF IInv
  <2>4. DispatchTypeOK
    <3>1. /\ dpc \in DPcs
          /\ running \in BOOLEAN
          /\ sigterm \in BOOLEAN
          /\ dres \in Results \cup {"SCHEDULER_ERROR"}
      BY DEF Init, DPcs, Results
    <3>2. lastPacket \in 0..MaxTime /\ now \in 0..MaxTime
      BY DEF Init
    <3>3. QED
      BY <2>3, <3>1, <3>2 DEF DispatchTypeOK
  <2>5. DispatcherTransmitsInline /\ WorkersIdleOutsideLoop
    BY <2>2 DEF Init, DispatcherTransmitsInline, WorkersIdleOutsideLoop, Workers
  <2>6. QED
    BY <2>1, <2>4, <2>5 DEF QInv
<1>2. QInv /\ [Next]_vars => QInv'
  <2> SUFFICES ASSUME QInv, [Next]_vars PROVE QInv'
    OBVIOUS
  <2>1. IInv'
    BY CodecStep, FramingStep DEF QInv
  <2>2. DispatchLocals
    BY DEF QInv, DispatchTypeOK, DispatchLocals
  <2>3. DispatchLocals'
    BY <2>1, <2>2, DispatchLocalsStep DEF QInv, IInv
  <2>4. QED
    BY <2>1, <2>3 DEF QInv, IInv, DispatchTypeOK, DispatchLocals
<1>3. QED
  BY <1>1, <1>2, PTL DEF Spec

(***************************************************************************)
(* For every number of worker threads, comms timeout and expiry, every    *)
(* state of server_dispatch_tcp composed with the codec is well typed.    *)
(***************************************************************************)
THEOREM DispatchTyped == Spec => []DispatchTypeOK
<1>1. QInv => DispatchTypeOK
  BY DEF QInv
<1>2. QED
  BY <1>1, QuiescenceInvariant, PTL

(***************************************************************************)
(* For every number of worker threads, when server_dispatch_tcp returns   *)
(* (and its caller frees the SSL session) no thread is inside or about to *)
(* enter packet_transmit_via_ssl and remote->lock is free: the inline     *)
(* answer has returned, and command_join_threads has waited for every     *)
(* worker, which a worker holding the lock also had to release.           *)
(***************************************************************************)
THEOREM DispatchQuiescent == Spec => []QuiescentOnReturn
<1>1. QInv => QuiescentOnReturn
  <2> SUFFICES ASSUME QInv, dpc = "done"
               PROVE  lock = NoThread /\ \A t \in Threads : tx[t].pc = "idle"
    BY DEF QuiescentOnReturn
  <2>1. \A t \in Threads : tx[t].pc = "idle"
    BY DEF QInv, DispatcherTransmitsInline, WorkersIdleOutsideLoop, Workers
  <2>2. /\ lock \in Threads \cup {NoThread}
        /\ \A t \in Threads : lock = t => tx[t].pc \in {"hdr", "pay"}
    BY DEF QInv, IInv, CodecTypeOK, LockHeldByWriter, Writing
  <2>3. QED
    BY <2>1, <2>2
<1>2. QED
  BY <1>1, QuiescenceInvariant, PTL

=============================================================================
