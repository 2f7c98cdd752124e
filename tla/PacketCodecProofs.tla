------------------------- MODULE PacketCodecProofs -------------------------
(***************************************************************************)
(* Proofs about the packet codec for every value of the constants: the     *)
(* type invariant, and that the controller can always parse the agent's   *)
(* stream by its length prefixes (WireFramed) however the transmitting    *)
(* threads interleave and wherever the connection fails.                  *)
(***************************************************************************)
EXTENDS PacketCodec, SequenceTheorems, TLAPS

(***************************************************************************)
(* The strengthening of WireFramed.  Only the lock holder is inside the   *)
(* write loops; it writes a header only when the stream ends at a frame   *)
(* boundary, and its payload only right after its own header, which       *)
(* announces the (possibly encrypted) payload length.  While the          *)
(* connection is not reset every SSL_write so far succeeded, so the       *)
(* holder's progress is exact; after a reset nothing more is written.     *)
(***************************************************************************)
Writing(t) == tx[t].pc \in {"hdr", "pay"}

LockHeldByWriter == \A t \in Threads : Writing(t) <=> lock = t

WriterPacket ==
    \A t \in Threads : tx[t].pc \in {"call", "hdr", "pay"} =>
        /\ tx[t].plen \in PayloadLens
        /\ tx[t].hlen = HEADER_SIZE + tx[t].plen
        /\ tx[t].pc = "hdr" => tx[t].idx = 0

AtBoundary ==
    (conn # "reset" /\ (lock = NoThread \/ tx[lock].pc = "hdr")) => FrameClosed(wire)

PayloadPending ==
    \A t \in Threads : (tx[t].pc = "pay" /\ conn # "reset") =>
        \/ /\ tx[t].idx = 0
           /\ tx[t].plen > 0
           /\ Len(wire) > 0
           /\ wire[Len(wire)] = [id |-> tx[t].id, part |-> "hdr", len |-> tx[t].hlen]
        \/ /\ tx[t].idx = tx[t].plen
           /\ FrameClosed(wire)

IInv ==
    /\ CodecTypeOK
    /\ WireFramed
    /\ LockHeldByWriter
    /\ WriterPacket
    /\ AtBoundary
    /\ PayloadPending

-----------------------------------------------------------------------------
(* A header appended at a frame boundary keeps the stream parseable. *)
LEMMA FramedAppendHdr ==
  ASSUME NEW w \in Seq(Chunk), NEW c \in Chunk, Framed(w), FrameClosed(w), c.part = "hdr"
  PROVE  Framed(Append(w, c))
  <1>1. /\ Len(Append(w, c)) = Len(w) + 1
        /\ Append(w, c)[Len(w) + 1] = c
        /\ \A i \in 1..Len(w) : Append(w, c)[i] = w[i]
    BY AppendProperties
  <1>2. QED
    BY <1>1 DEF Framed, FrameClosed, EndsFrame

(* A header closes the stream when it announces no payload. *)
LEMMA ClosedAppendHdr ==
  ASSUME NEW w \in Seq(Chunk), NEW c \in Chunk, c.part = "hdr", c.len = HEADER_SIZE
  PROVE  FrameClosed(Append(w, c))
  BY AppendProperties DEF FrameClosed, EndsFrame

(***************************************************************************)
(* The payload appended right after its own header, with the length that   *)
(* header announces, keeps the stream parseable and closes the frame.      *)
(***************************************************************************)
LEMMA FramedAppendPay ==
  ASSUME NEW w \in Seq(Chunk), NEW id \in Nat, NEW n \in Nat, Framed(w),
         n > 0, Len(w) > 0,
         w[Len(w)] = [id |-> id, part |-> "hdr", len |-> HEADER_SIZE + n],
         HEADER_SIZE \in Nat
  PROVE  /\ Framed(Append(w, [id |-> id, part |-> "pay", len |-> n]))
         /\ FrameClosed(Append(w, [id |-> id, part |-> "pay", len |-> n]))
  <1> DEFINE c == [id |-> id, part |-> "pay", len |-> n]
             v == Append(w, c)
  <1>1. /\ Len(v) = Len(w) + 1
        /\ v[Len(w) + 1] = c
        /\ \A i \in 1..Len(w) : v[i] = w[i]
    BY AppendProperties
  <1>2. Framed(v)
    <2> SUFFICES ASSUME NEW i \in 1..Len(v)
                 PROVE  /\ v[i].part = "pay" =>
                              /\ i > 1
                              /\ v[i - 1].part = "hdr"
                              /\ v[i - 1].id = v[i].id
                              /\ v[i - 1].len = HEADER_SIZE + v[i].len
                        /\ (v[i].part = "hdr" /\ i < Len(v)) =>
                              IF v[i].len = HEADER_SIZE THEN v[i + 1].part = "hdr"
                              ELSE v[i + 1].part = "pay" /\ v[i + 1].id = v[i].id
      BY Zenon DEF Framed
    <2>1. CASE i < Len(w)
      <3>1. i \in 1..Len(w) /\ i + 1 \in 1..Len(w) /\ (i > 1 => i - 1 \in 1..Len(w))
        BY <1>1, <2>1
      <3>2. QED
        BY <1>1, <2>1, <3>1 DEF Framed
    <2>2. CASE i = Len(w)
      BY <1>1, <2>2
    <2>3. CASE i = Len(w) + 1
      BY <1>1, <2>3
    <2>4. QED
      BY <1>1, <2>1, <2>2, <2>3
  <1>3. FrameClosed(v)
    BY <1>1 DEF FrameClosed, EndsFrame
  <1>4. QED
    BY <1>2, <1>3

-----------------------------------------------------------------------------
(* The range of a DWORD is not empty: the build's DWORD_MOD exceeds a     *)
(* frame length.                                                          *)
LEMMA DwordPositive == DWORD_MOD \in Nat \ {0}
  <1>1. PICK n \in PayloadLens : TRUE
    BY CodecAssumption
  <1>2. QED
    BY <1>1, CodecAssumption

(* Storing the int SSL_write returns in the DWORD res (lines 1193, 1222)  *)
(* gives a value of the DWORD range, whatever the sign of the return.     *)
LEMMA ToDwordRange ==
  ASSUME NEW r \in Int
  PROVE  ToDword(r) \in Dword
  BY DwordPositive DEF ToDword, Dword

(* What SSL_write may return is an integer. *)
LEMMA WriteOutcomesInt ==
  ASSUME NEW n \in Int, conn \in {"up", "closed", "reset"}
  PROVE  WriteOutcomes(n) \subseteq Int
  BY CodecAssumption DEF WriteOutcomes

(* A failed SSL_write returns no positive count. *)
LEMMA WriteFailNotPositive == \A r \in WriteFail : ~(r > 0)
  BY CodecAssumption

(* Replacing one thread's transmit locals by well-typed ones keeps the   *)
(* per-thread state well typed.                                           *)
LEMMA TxUpdate ==
  ASSUME NEW f \in [Threads -> TxState], NEW t \in Threads, NEW s \in TxState
  PROVE  [f EXCEPT ![t] = s] \in [Threads -> TxState]
  OBVIOUS

(* Each assignment to one local of packet_transmit_via_ssl keeps the      *)
(* locals well typed when the value assigned has the local's type.        *)
LEMMA TxFieldUpdate ==
  ASSUME NEW s \in TxState
  PROVE  /\ \A v \in TxPcs : [s EXCEPT !.pc = v] \in TxState
         /\ \A v \in Nat : [s EXCEPT !.plen = v] \in TxState
         /\ \A v \in Nat : [s EXCEPT !.hlen = v] \in TxState
         /\ \A v \in Dword : [s EXCEPT !.idx = v] \in TxState
         /\ \A v \in Dword : [s EXCEPT !.res = v] \in TxState
         /\ \A v \in Results \cup {"NONE"} : [s EXCEPT !.result = v] \in TxState
  BY DEF TxState

-----------------------------------------------------------------------------
(* transport_create_tcp's zeroed state is well typed. *)
LEMMA TypeInit == CodecInit => CodecTypeOK
  <1> SUFFICES ASSUME CodecInit PROVE CodecTypeOK
    OBVIOUS
  <1>1. TxIdle \in TxState
    BY DwordPositive DEF TxIdle, TxState, TxPcs, Dword
  <1>2. QED
    BY <1>1 DEF CodecInit, CodecTypeOK, Results

(***************************************************************************)
(* Every step of the codec keeps it well typed: in particular idx and res *)
(* stay in the DWORD range although SSL_write's int is stored in them     *)
(* unsigned.                                                              *)
(***************************************************************************)
LEMMA TypeStep == CodecTypeOK /\ [CodecNext]_codecVars => CodecTypeOK'
  <1> SUFFICES ASSUME CodecTypeOK, [CodecNext]_codecVars PROVE CodecTypeOK'
    OBVIOUS
  <1> USE CodecAssumption, DwordPositive
  <1>0. 0 \in Dword /\ Dword \subseteq Nat /\ Dword \subseteq Int
    BY DEF Dword
  <1>1. ASSUME NEW t \in Threads, NEW type \in OutTypes, NEW plen \in PayloadLens,
               TransmitCall(t, type, plen),
               UNCHANGED <<lock, conn, wire, okIds, peerSent, rcvd, delivered, rxRes>>
        PROVE  CodecTypeOK'
    <2>1. [pc |-> "call", id |-> nextId, type |-> type, plen |-> plen,
           hlen |-> HEADER_SIZE + plen, idx |-> 0, res |-> 0, result |-> "NONE"] \in TxState
      BY <1>0 DEF CodecTypeOK, TxState, TxPcs
    <2>2. QED
      BY <1>1, <2>1, TxUpdate DEF TransmitCall, CodecTypeOK
  <1>2. ASSUME NEW t \in Threads, TransmitBegin(t) PROVE CodecTypeOK'
    <2>1. tx[t] \in TxState
      BY DEF CodecTypeOK
    <2>2. [tx[t] EXCEPT !.pc = "ret", !.result = "CRYPTO_ERROR"] \in TxState
      <3>1. [tx[t] EXCEPT !.pc = "ret"] \in TxState
        BY <2>1, TxFieldUpdate DEF TxPcs
      <3>2. QED
        BY <3>1, TxFieldUpdate DEF Results
    <2>3. ASSUME NEW e \in PayloadLens
          PROVE  [tx[t] EXCEPT !.pc = "hdr", !.plen = e, !.hlen = e + HEADER_SIZE, !.idx = 0]
                   \in TxState
      <3>1. [tx[t] EXCEPT !.pc = "hdr"] \in TxState
        BY <2>1, TxFieldUpdate DEF TxPcs
      <3>2. [tx[t] EXCEPT !.pc = "hdr", !.plen = e] \in TxState
        BY <3>1, TxFieldUpdate, Zenon
      <3>3. e + HEADER_SIZE \in Nat
        OBVIOUS
      <3>4. [tx[t] EXCEPT !.pc = "hdr", !.plen = e, !.hlen = e + HEADER_SIZE] \in TxState
        BY <3>2, <3>3, TxFieldUpdate, Zenon
      <3>5. QED
        BY <3>4, <1>0, TxFieldUpdate, Zenon
    <2>4. [tx[t] EXCEPT !.pc = "hdr", !.idx = 0] \in TxState
      <3>1. [tx[t] EXCEPT !.pc = "hdr"] \in TxState
        BY <2>1, TxFieldUpdate DEF TxPcs
      <3>2. QED
        BY <3>1, <1>0, TxFieldUpdate, Zenon
    <2>5. tx' \in [Threads -> TxState]
      <3>1. CASE Cipher /\ tx[t].type \notin PlainTypes
        <4>1. \/ tx' = [tx EXCEPT ![t] = [tx[t] EXCEPT !.pc = "ret", !.result = "CRYPTO_ERROR"]]
              \/ \E e \in PayloadLens :
                   tx' = [tx EXCEPT ![t] = [tx[t] EXCEPT !.pc = "hdr", !.plen = e,
                                            !.hlen = e + HEADER_SIZE, !.idx = 0]]
          BY <1>2, <3>1 DEF TransmitBegin
        <4>2. CASE tx' = [tx EXCEPT ![t] = [tx[t] EXCEPT !.pc = "ret", !.result = "CRYPTO_ERROR"]]
          BY <4>2, <2>2, TxUpdate DEF CodecTypeOK
        <4>3. CASE \E e \in PayloadLens :
                     tx' = [tx EXCEPT ![t] = [tx[t] EXCEPT !.pc = "hdr", !.plen = e,
                                              !.hlen = e + HEADER_SIZE, !.idx = 0]]
          <5>1. PICK e \in PayloadLens :
                     tx' = [tx EXCEPT ![t] = [tx[t] EXCEPT !.pc = "hdr", !.plen = e,
                                              !.hlen = e + HEADER_SIZE, !.idx = 0]]
            BY <4>3
          <5>2. QED
            BY <5>1, <2>3, TxUpdate DEF CodecTypeOK
        <4>4. QED
          BY <4>1, <4>2, <4>3
      <3>2. CASE ~(Cipher /\ tx[t].type \notin PlainTypes)
        <4>1. tx' = [tx EXCEPT ![t] = [tx[t] EXCEPT !.pc = "hdr", !.idx = 0]]
          BY <1>2, <3>2 DEF TransmitBegin
        <4>2. QED
          BY <4>1, <2>4, TxUpdate DEF CodecTypeOK
      <3>3. QED
        BY <3>1, <3>2
    <2>6. lock' \in Threads \cup {NoThread}
      BY <1>2 DEF TransmitBegin, CodecTypeOK
    <2>7. QED
      BY <1>2, <2>5, <2>6 DEF TransmitBegin, CodecTypeOK
  <1>3. ASSUME NEW t \in Threads, TransmitHeader(t) PROVE CodecTypeOK'
    <2>1. tx[t] \in TxState /\ tx[t].idx \in Int
      <3>1. tx[t] \in TxState
        BY DEF CodecTypeOK
      <3>2. tx[t].idx \in Dword
        BY <3>1 DEF TxState
      <3>3. QED
        BY <3>1, <3>2, <1>0, Zenon
    <2>2. PICK r \in WriteOutcomes(HEADER_SIZE - tx[t].idx) : HeaderWrite(t, r)
      BY <1>3 DEF TransmitHeader
    <2>3. r \in Int
      BY <2>1, WriteOutcomesInt DEF CodecTypeOK
    <2> DEFINE res == ToDword(r)
               idx == (tx[t].idx + res) % DWORD_MOD
               leave == res = 0 \/ ~(idx < HEADER_SIZE)
    <2>4. res \in Dword /\ idx \in Dword
      BY <2>1, <2>3, ToDwordRange DEF Dword
    <2>5. [tx[t] EXCEPT !.pc = "ret", !.result = "WRITE_ERROR"] \in TxState
      <3>1. [tx[t] EXCEPT !.pc = "ret"] \in TxState
        BY <2>1, TxFieldUpdate DEF TxPcs
      <3>2. QED
        BY <3>1, TxFieldUpdate DEF Results
    <2>6. [tx[t] EXCEPT !.res = res, !.idx = IF leave THEN 0 ELSE idx,
                        !.pc = IF leave THEN "pay" ELSE "hdr"] \in TxState
      <3>1. [tx[t] EXCEPT !.res = res] \in TxState
        BY <2>1, <2>4, TxFieldUpdate, Zenon
      <3>2. (IF leave THEN 0 ELSE idx) \in Dword /\ (IF leave THEN "pay" ELSE "hdr") \in TxPcs
        BY <1>0, <2>4 DEF TxPcs
      <3>3. [tx[t] EXCEPT !.res = res, !.idx = IF leave THEN 0 ELSE idx] \in TxState
        BY <3>1, <3>2, TxFieldUpdate, Zenon
      <3>4. QED
        BY <3>2, <3>3, TxFieldUpdate, Zenon
    <2>7. tx' \in [Threads -> TxState] /\ lock' \in Threads \cup {NoThread}
      <3>1. CASE leave /\ res < 0
        <4>1. tx' = [tx EXCEPT ![t] = [tx[t] EXCEPT !.pc = "ret", !.result = "WRITE_ERROR"]]
              /\ lock' = NoThread
          BY <2>2, <3>1 DEF HeaderWrite
        <4>2. QED
          BY <4>1, <2>5, TxUpdate DEF CodecTypeOK
      <3>2. CASE ~(leave /\ res < 0)
        <4>1. tx' = [tx EXCEPT ![t] = [tx[t] EXCEPT !.res = res,
                                       !.idx = IF leave THEN 0 ELSE idx,
                                       !.pc = IF leave THEN "pay" ELSE "hdr"]]
              /\ lock' = lock
          BY <2>2, <3>2 DEF HeaderWrite
        <4>2. QED
          BY <4>1, <2>6, TxUpdate DEF CodecTypeOK
      <3>3. QED
        BY <3>1, <3>2
    <2>8. [id |-> tx[t].id, part |-> "hdr", len |-> tx[t].hlen] \in Chunk
      BY <2>1 DEF TxState, Chunk
    <2>9. wire' \in Seq(Chunk)
      BY <2>2, <2>8 DEF HeaderWrite, CodecTypeOK
    <2>10. conn' \in {"up", "closed", "reset"}
      BY <2>2 DEF HeaderWrite, AfterWrite, CodecTypeOK
    <2>11. QED
      BY <1>3, <2>7, <2>9, <2>10 DEF TransmitHeader, CodecTypeOK
  <1>4. ASSUME NEW t \in Threads, TransmitPayload(t) PROVE CodecTypeOK'
    <2>1. tx[t] \in TxState /\ tx[t].idx \in Int /\ tx[t].plen \in Int
      <3>1. tx[t] \in TxState
        BY DEF CodecTypeOK
      <3>2. tx[t].idx \in Dword /\ tx[t].plen \in Nat
        BY <3>1 DEF TxState
      <3>3. tx[t].idx \in Int
        BY <3>2, <1>0, Zenon
      <3>4. QED
        BY <3>1, <3>2, <3>3
    <2>2. PICK r \in WriteOutcomes(tx[t].plen - tx[t].idx) : PayloadWrite(t, r)
      BY <1>4 DEF TransmitPayload
    <2>3. r \in Int
      BY <2>1, WriteOutcomesInt DEF CodecTypeOK
    <2>4. ToDword(r) \in Dword /\ (tx[t].idx + ToDword(r)) % DWORD_MOD \in Dword
      BY <2>1, <2>3, ToDwordRange DEF Dword
    <2>5. [tx[t] EXCEPT !.res = ToDword(r),
                        !.idx = (tx[t].idx + ToDword(r)) % DWORD_MOD] \in TxState
      <3>1. [tx[t] EXCEPT !.res = ToDword(r)] \in TxState
        BY <2>1, <2>4, TxFieldUpdate, Zenon
      <3>2. QED
        BY <3>1, <2>4, TxFieldUpdate, Zenon
    <2>6. tx' \in [Threads -> TxState]
      BY <2>2, <2>5, TxUpdate DEF PayloadWrite, CodecTypeOK
    <2>7. r > 0 => [id |-> tx[t].id, part |-> "pay", len |-> r] \in Chunk
      BY <2>1, <2>3 DEF TxState, Chunk
    <2>8. wire' \in Seq(Chunk)
      BY <2>2, <2>7 DEF PayloadWrite, CodecTypeOK
    <2>9. conn' \in {"up", "closed", "reset"}
      BY <2>2 DEF PayloadWrite, AfterWrite, CodecTypeOK
    <2>10. QED
      BY <1>4, <2>6, <2>8, <2>9 DEF TransmitPayload, CodecTypeOK
  <1>5. ASSUME NEW t \in Threads, TransmitFinish(t) PROVE CodecTypeOK'
    <2>1. tx[t] \in TxState
      BY DEF CodecTypeOK
    <2>2. [tx[t] EXCEPT !.pc = "ret", !.result = "SUCCESS"] \in TxState
      <3>1. [tx[t] EXCEPT !.pc = "ret"] \in TxState
        BY <2>1, TxFieldUpdate DEF TxPcs
      <3>2. QED
        BY <3>1, TxFieldUpdate DEF Results
    <2>3. okIds' \subseteq Nat
      BY <1>5, <2>1 DEF TransmitFinish, CodecTypeOK, TxState
    <2>4. tx' = [tx EXCEPT ![t] = [tx[t] EXCEPT !.pc = "ret", !.result = "SUCCESS"]]
      BY <1>5 DEF TransmitFinish
    <2>5. QED
      BY <1>5, <2>2, <2>3, <2>4, TxUpdate DEF TransmitFinish, CodecTypeOK
  <1>6. ASSUME NEW t \in Threads, TransmitReturn(t),
               UNCHANGED <<lock, conn, wire, nextId, okIds, peerSent, rcvd, delivered, rxRes>>
        PROVE  CodecTypeOK'
    <2>1. TxIdle \in TxState
      BY <1>0 DEF TxIdle, TxState, TxPcs
    <2>2. QED
      BY <1>6, <2>1, TxUpdate DEF TransmitReturn, CodecTypeOK
  <1>7. ASSUME NEW t \in Threads, PacketReceive(t) PROVE CodecTypeOK'
    <2>1. CASE conn # "reset" /\ rcvd < Len(peerSent)
      <3> DEFINE f == peerSent[rcvd + 1]
      <3>1. f \in [type : PeerTypes, enc : BOOLEAN] /\ f.type \in Nat
        <4>1. rcvd + 1 \in 1..Len(peerSent)
          BY <2>1 DEF CodecTypeOK
        <4>2. f \in [type : PeerTypes, enc : BOOLEAN]
          BY <4>1, ElementOfSeq DEF CodecTypeOK
        <4>3. QED
          BY <4>2
      <3>2. /\ [type |-> f.type, body |-> rcvd + 1] \in [type : Nat, body : Nat]
            /\ [type |-> f.type, body |-> Garbage] \in [type : Nat, body : Nat]
        BY <3>1 DEF CodecTypeOK, Garbage
      <3>3. /\ rcvd' = rcvd + 1
            /\ \/ delivered' = Append(delivered, [type |-> f.type, body |-> rcvd + 1])
               \/ delivered' = Append(delivered, [type |-> f.type, body |-> Garbage])
               \/ delivered' = delivered
            /\ rxRes' \in Results
        <4>1. rcvd' = rcvd + 1
          BY <1>7, <2>1 DEF PacketReceive
        <4>2. \/ delivered' = Append(delivered, [type |-> f.type, body |-> rcvd + 1])
              \/ delivered' = Append(delivered, [type |-> f.type, body |-> Garbage])
              \/ delivered' = delivered
          BY <1>7, <2>1 DEF PacketReceive
        <4>3. rxRes' \in Results
          BY <1>7, <2>1 DEF PacketReceive, Results
        <4>4. QED
          BY <4>1, <4>2, <4>3
      <3>4. delivered' \in Seq([type : Nat, body : Nat])
        <4>1. Append(delivered, [type |-> f.type, body |-> rcvd + 1])
                \in Seq([type : Nat, body : Nat])
          BY <3>2, AppendProperties DEF CodecTypeOK
        <4>2. Append(delivered, [type |-> f.type, body |-> Garbage])
                \in Seq([type : Nat, body : Nat])
          BY <3>2, AppendProperties DEF CodecTypeOK
        <4>3. QED
          BY <3>3, <4>1, <4>2 DEF CodecTypeOK
      <3>5. rcvd' \in 0..Len(peerSent')
        BY <1>7, <2>1, <3>3 DEF PacketReceive, CodecTypeOK
      <3>6. QED
        BY <1>7, <3>3, <3>4, <3>5 DEF PacketReceive, CodecTypeOK
    <2>2. CASE ~(conn # "reset" /\ rcvd < Len(peerSent))
      BY <1>7, <2>2 DEF PacketReceive, CodecTypeOK, Results
    <2>3. QED
      BY <2>1, <2>2
  <1>8. CASE PeerSend
    BY <1>8 DEF PeerSend, CodecTypeOK, PeerEncrypts
  <1>9. CASE PeerClose
    BY <1>9 DEF PeerClose, CodecTypeOK
  <1>10. CASE UNCHANGED codecVars
    BY <1>10 DEF codecVars, CodecTypeOK
  <1>11. QED
    BY <1>1, <1>2, <1>3, <1>4, <1>5, <1>6, <1>7, <1>8, <1>9, <1>10 DEF CodecNext

(***************************************************************************)
(* Type correctness of packet_transmit_via_ssl and packet_receive_via_ssl *)
(* for every set of threads and every DWORD width.                        *)
(***************************************************************************)
THEOREM CodecTypeCorrect == CodecSpec => []CodecTypeOK
  BY TypeInit, TypeStep, PTL DEF CodecSpec

-----------------------------------------------------------------------------
(* The zeroed state of a new transport satisfies the strengthening. *)
LEMMA FramingInit == CodecInit => IInv
  <1> SUFFICES ASSUME CodecInit PROVE IInv
    OBVIOUS
  <1>1. CodecTypeOK
    BY TypeInit
  <1>2. \A t \in Threads : tx[t].pc = "idle" /\ lock # t
    BY CodecAssumption DEF CodecInit, TxIdle
  <1>3. QED
    BY <1>1, <1>2 DEF CodecInit, IInv, WireFramed, Framed, LockHeldByWriter, Writing,
                      WriterPacket, AtBoundary, FrameClosed, PayloadPending

(* The framing conjuncts mention only lock, conn, tx and wire. *)
LEMMA FramingFrame ==
  ASSUME IInv, CodecTypeOK', UNCHANGED <<lock, conn, tx, wire>>
  PROVE  IInv'
  BY DEF IInv, WireFramed, Framed, LockHeldByWriter, Writing, WriterPacket, AtBoundary,
         FrameClosed, EndsFrame, PayloadPending

(* A connection that goes down only weakens the framing obligations. *)
LEMMA FramingPeerClose ==
  ASSUME IInv, CodecTypeOK', PeerClose
  PROVE  IInv'
  <1>1. conn = "up" /\ conn' \in {"closed", "reset"} /\ UNCHANGED <<lock, tx, wire>>
    BY DEF PeerClose
  <1>2. QED
    BY <1>1 DEF IInv, WireFramed, Framed, LockHeldByWriter, Writing, WriterPacket, AtBoundary,
                FrameClosed, EndsFrame, PayloadPending

(***************************************************************************)
(* A thread outside the write loops (taking a packet, or returning its    *)
(* result) holds no lock and leaves the stream alone, so it disturbs no   *)
(* framing obligation; its new locals satisfy WriterPacket.               *)
(***************************************************************************)
LEMMA FramingOutside ==
  ASSUME IInv, CodecTypeOK', NEW t \in Threads,
         \A u \in Threads \ {t} : tx'[u] = tx[u], UNCHANGED <<lock, conn, wire>>,
         ~Writing(t), tx'[t].pc \in {"idle", "call", "ret"},
         tx'[t].pc = "call" => tx'[t].plen \in PayloadLens /\ tx'[t].hlen = HEADER_SIZE + tx'[t].plen
  PROVE  IInv'
  <1>2. lock # t
    BY DEF IInv, LockHeldByWriter
  <1>3. WireFramed'
    BY DEF IInv, WireFramed
  <1>4. LockHeldByWriter'
    BY <1>2 DEF IInv, LockHeldByWriter, Writing
  <1>5. WriterPacket'
    BY DEF IInv, WriterPacket
  <1>6. AtBoundary'
    <2>1. lock = NoThread \/ (lock \in Threads \ {t})
      BY <1>2 DEF IInv, CodecTypeOK
    <2>2. QED
      BY <2>1 DEF IInv, AtBoundary
  <1>7. PayloadPending'
    BY DEF IInv, PayloadPending
  <1>8. QED
    BY <1>3, <1>4, <1>5, <1>6, <1>7 DEF IInv

(***************************************************************************)
(* Taking the free lock to write a header: nobody else is in the write    *)
(* loops, and the stream ends at a frame boundary while the connection    *)
(* is not reset, which is what the new holder needs.                      *)
(***************************************************************************)
LEMMA FramingTakeLock ==
  ASSUME IInv, CodecTypeOK', NEW t \in Threads,
         \A u \in Threads \ {t} : tx'[u] = tx[u],
         lock = NoThread, lock' = t, UNCHANGED <<conn, wire>>,
         tx'[t].pc = "hdr", tx'[t].idx = 0, tx'[t].plen \in PayloadLens,
         tx'[t].hlen = HEADER_SIZE + tx'[t].plen
  PROVE  IInv'
  <1>2. \A u \in Threads : ~Writing(u)
    BY CodecAssumption DEF IInv, LockHeldByWriter
  <1>3. WireFramed'
    BY DEF IInv, WireFramed
  <1>4. LockHeldByWriter'
    BY <1>2 DEF LockHeldByWriter, Writing
  <1>5. WriterPacket'
    BY DEF IInv, WriterPacket
  <1>6. AtBoundary'
    BY DEF IInv, AtBoundary
  <1>7. PayloadPending'
    BY <1>2 DEF PayloadPending, Writing
  <1>8. QED
    BY <1>3, <1>4, <1>5, <1>6, <1>7 DEF IInv

(* The step of TransmitBegin keeps the strengthening. *)
LEMMA FramingBegin ==
  ASSUME IInv, CodecTypeOK', NEW t \in Threads, TransmitBegin(t)
  PROVE  IInv'
  <1>0. tx \in [Threads -> TxState] /\ tx[t] \in TxState
    BY DEF IInv, CodecTypeOK
  <1>1. tx[t].pc = "call" /\ lock = NoThread /\ UNCHANGED <<conn, wire>>
    BY Zenon DEF TransmitBegin
  <1>2. ~Writing(t) /\ tx[t].plen \in PayloadLens /\ tx[t].hlen = HEADER_SIZE + tx[t].plen
    BY <1>1 DEF IInv, WriterPacket, Writing
  <1>4. CASE Cipher /\ tx[t].type \notin PlainTypes
    <2>0. \/ /\ tx' = [tx EXCEPT ![t].pc = "ret", ![t].result = "CRYPTO_ERROR"]
             /\ UNCHANGED lock
          \/ \E e \in PayloadLens :
               /\ lock' = t
               /\ tx' = [tx EXCEPT ![t].pc = "hdr", ![t].plen = e,
                                   ![t].hlen = e + HEADER_SIZE, ![t].idx = 0]
      BY <1>4, Zenon DEF TransmitBegin
    <2>1. CASE /\ tx' = [tx EXCEPT ![t].pc = "ret", ![t].result = "CRYPTO_ERROR"]
               /\ UNCHANGED lock
      <3>1. tx'[t].pc = "ret" /\ \A u \in Threads \ {t} : tx'[u] = tx[u]
        BY <1>0, <2>1
      <3>2. QED
        BY <1>1, <1>2, <2>1, <3>1, FramingOutside, Zenon
    <2>2. CASE \E e \in PayloadLens :
                 /\ lock' = t
                 /\ tx' = [tx EXCEPT ![t].pc = "hdr", ![t].plen = e,
                                     ![t].hlen = e + HEADER_SIZE, ![t].idx = 0]
      <3>1. PICK e \in PayloadLens :
                 /\ lock' = t
                 /\ tx' = [tx EXCEPT ![t].pc = "hdr", ![t].plen = e,
                                     ![t].hlen = e + HEADER_SIZE, ![t].idx = 0]
        BY <2>2, Zenon
      <3>2. /\ tx'[t].pc = "hdr" /\ tx'[t].idx = 0 /\ tx'[t].plen = e
            /\ tx'[t].hlen = e + HEADER_SIZE
            /\ \A u \in Threads \ {t} : tx'[u] = tx[u]
        BY <1>0, <3>1
      <3>3. tx'[t].hlen = HEADER_SIZE + tx'[t].plen
        BY <3>2, CodecAssumption
      <3>4. QED
        BY <1>1, <3>1, <3>2, <3>3, FramingTakeLock, Zenon
    <2>3. QED
      BY <2>0, <2>1, <2>2, Zenon
  <1>5. CASE ~(Cipher /\ tx[t].type \notin PlainTypes)
    <2>1. lock' = t /\ tx' = [tx EXCEPT ![t].pc = "hdr", ![t].idx = 0]
      BY <1>5, Zenon DEF TransmitBegin
    <2>2. /\ tx'[t].pc = "hdr" /\ tx'[t].idx = 0 /\ tx'[t].plen = tx[t].plen
          /\ tx'[t].hlen = tx[t].hlen
          /\ \A u \in Threads \ {t} : tx'[u] = tx[u]
      BY <1>0, <2>1
    <2>3. QED
      BY <1>1, <1>2, <2>1, <2>2, FramingTakeLock, Zenon
  <1>6. QED
    BY <1>4, <1>5

(* A caller handing a packet to packet_transmit_via_ssl keeps it. *)
LEMMA FramingCall ==
  ASSUME IInv, CodecTypeOK', NEW t \in Threads, NEW type \in OutTypes,
         NEW plen \in PayloadLens, TransmitCall(t, type, plen),
         UNCHANGED <<lock, conn, wire, okIds, peerSent, rcvd, delivered, rxRes>>
  PROVE  IInv'
  <1>0. tx \in [Threads -> TxState] /\ tx[t].pc = "idle"
    BY DEF IInv, CodecTypeOK, TransmitCall
  <1>1. /\ tx'[t].pc = "call" /\ tx'[t].plen = plen /\ tx'[t].hlen = HEADER_SIZE + plen
        /\ \A u \in Threads \ {t} : tx'[u] = tx[u]
    BY <1>0 DEF TransmitCall
  <1>2. ~Writing(t)
    BY <1>0 DEF Writing
  <1>3. QED
    BY <1>1, <1>2, FramingOutside, Zenon

(* A caller taking the result of packet_transmit_via_ssl keeps it. *)
LEMMA FramingReturn ==
  ASSUME IInv, CodecTypeOK', NEW t \in Threads, TransmitReturn(t),
         UNCHANGED <<lock, conn, wire, nextId, okIds, peerSent, rcvd, delivered, rxRes>>
  PROVE  IInv'
  <1>0. tx \in [Threads -> TxState] /\ tx[t].pc = "ret"
    BY DEF IInv, CodecTypeOK, TransmitReturn
  <1>1. tx'[t].pc = "idle" /\ \A u \in Threads \ {t} : tx'[u] = tx[u]
    BY <1>0 DEF TransmitReturn, TxIdle
  <1>2. ~Writing(t)
    BY <1>0 DEF Writing
  <1>3. QED
    BY <1>1, <1>2, FramingOutside, Zenon

(***************************************************************************)
(* Leaving the payload loop releases the lock; the holder's payload is    *)
(* complete, so the stream ends at a frame boundary for the next holder.  *)
(***************************************************************************)
LEMMA FramingFinish ==
  ASSUME IInv, CodecTypeOK', NEW t \in Threads, TransmitFinish(t)
  PROVE  IInv'
  <1>0. tx \in [Threads -> TxState] /\ tx[t] \in TxState
    BY DEF IInv, CodecTypeOK
  <1>1. /\ tx[t].pc = "pay" /\ ~(tx[t].idx < tx[t].plen) /\ lock' = NoThread
        /\ UNCHANGED <<conn, wire>>
        /\ tx'[t].pc = "ret" /\ \A u \in Threads \ {t} : tx'[u] = tx[u]
    BY <1>0 DEF TransmitFinish
  <1>2. lock = t /\ \A u \in Threads \ {t} : ~Writing(u)
    BY <1>1 DEF IInv, LockHeldByWriter, Writing
  <1>3. conn # "reset" => FrameClosed(wire)
    <2>1. tx[t].idx \in Int /\ tx[t].plen \in Int
      BY <1>0, DwordPositive DEF TxState, Dword
    <2>2. conn # "reset" =>
            \/ tx[t].idx = 0 /\ tx[t].plen > 0
            \/ tx[t].idx = tx[t].plen /\ FrameClosed(wire)
      BY <1>1, Zenon DEF IInv, PayloadPending
    <2>3. QED
      BY <1>1, <2>1, <2>2
  <1>4. WireFramed'
    BY <1>1 DEF IInv, WireFramed
  <1>5. LockHeldByWriter'
    BY <1>1, <1>2, CodecAssumption DEF LockHeldByWriter, Writing
  <1>6. WriterPacket'
    BY <1>1 DEF IInv, WriterPacket
  <1>7. AtBoundary'
    BY <1>1, <1>3 DEF AtBoundary
  <1>8. PayloadPending'
    BY <1>1 DEF IInv, PayloadPending
  <1>9. QED
    BY <1>4, <1>5, <1>6, <1>7, <1>8 DEF IInv

(***************************************************************************)
(* One iteration of the header loop (lines 1189-1210).  The holder writes *)
(* its header at a frame boundary; whatever SSL_write returns, the loop   *)
(* is left (a failure's 2^32-1 pushes idx past the header size) and the   *)
(* payload loop entered with idx reset.  A successful write appends the   *)
(* header; a failed one resets the connection and appends nothing.        *)
(***************************************************************************)
LEMMA FramingHeader ==
  ASSUME IInv, CodecTypeOK', NEW t \in Threads, TransmitHeader(t)
  PROVE  IInv'
  <1>0. /\ tx \in [Threads -> TxState] /\ tx[t] \in TxState /\ wire \in Seq(Chunk)
        /\ conn \in {"up", "closed", "reset"}
    BY DEF IInv, CodecTypeOK
  <1>1. /\ tx[t].pc = "hdr" /\ lock = t /\ \A u \in Threads \ {t} : ~Writing(u)
        /\ tx[t].idx = 0 /\ tx[t].plen \in PayloadLens /\ tx[t].hlen = HEADER_SIZE + tx[t].plen
    BY DEF TransmitHeader, IInv, LockHeldByWriter, Writing, WriterPacket
  <1>2. PICK r \in WriteOutcomes(HEADER_SIZE - tx[t].idx) : HeaderWrite(t, r)
    BY DEF TransmitHeader
  <1>3. r \in {HEADER_SIZE, 0, -1} /\ (conn = "reset" => r \in {0, -1})
    BY <1>0, <1>1, <1>2, CodecAssumption DEF WriteOutcomes
  <1> DEFINE res == ToDword(r)
             idx == (tx[t].idx + res) % DWORD_MOD
             leave == res = 0 \/ ~(idx < HEADER_SIZE)
  <1>4. leave /\ ~(res < 0)
    <2>1. DWORD_MOD \in Nat \ {0} /\ HEADER_SIZE < DWORD_MOD
      <3>1. tx[t].plen \in Nat /\ HEADER_SIZE + tx[t].plen < DWORD_MOD
        BY <1>1, CodecAssumption, Zenon
      <3>2. QED
        BY <3>1, DwordPositive, CodecAssumption
    <2>2. QED
      BY <1>1, <1>3, <2>1, CodecAssumption DEF ToDword
  <1>5. /\ tx' = [tx EXCEPT ![t].res = res, ![t].idx = 0, ![t].pc = "pay"]
        /\ lock' = lock
        /\ wire' = IF r > 0
                     THEN Append(wire, [id |-> tx[t].id, part |-> "hdr", len |-> tx[t].hlen])
                     ELSE wire
        /\ conn' = AfterWrite(r)
    BY <1>2, <1>4, Zenon DEF HeaderWrite
  <1>6. /\ tx'[t].pc = "pay" /\ tx'[t].idx = 0 /\ tx'[t].plen = tx[t].plen
        /\ tx'[t].hlen = tx[t].hlen /\ tx'[t].id = tx[t].id
        /\ \A u \in Threads \ {t} : tx'[u] = tx[u]
    BY <1>0, <1>5 DEF TxState
  <1>7. LockHeldByWriter'
    <2> SUFFICES ASSUME NEW u \in Threads PROVE Writing(u)' <=> lock' = u
      BY DEF LockHeldByWriter
    <2>1. CASE u = t
      BY <1>1, <1>5, <1>6, <2>1 DEF Writing
    <2>2. CASE u # t
      <3>1. tx'[u] = tx[u] /\ ~Writing(u) /\ lock' = t
        BY <1>1, <1>5, <1>6, <2>2, Zenon
      <3>2. QED
        BY <3>1, <2>2 DEF Writing
    <2>3. QED
      BY <2>1, <2>2
  <1>8. WriterPacket'
    BY <1>1, <1>6 DEF IInv, WriterPacket
  <1>9. AtBoundary'
    BY <1>1, <1>5, <1>6, CodecAssumption DEF AtBoundary
  <1>10. CASE r > 0
    <2> DEFINE hc == [id |-> tx[t].id, part |-> "hdr", len |-> tx[t].hlen]
    <2>1. conn # "reset" /\ conn' = conn /\ wire' = Append(wire, hc)
      BY <1>3, <1>5, <1>10 DEF AfterWrite
    <2>2. FrameClosed(wire)
      BY <1>1, <2>1 DEF IInv, AtBoundary
    <2>3. hc \in Chunk
      BY <1>0 DEF TxState, Chunk
    <2>4. WireFramed'
      BY <1>0, <2>1, <2>2, <2>3, FramedAppendHdr DEF IInv, WireFramed
    <2>5. PayloadPending'
      <3> SUFFICES ASSUME NEW u \in Threads, tx'[u].pc = "pay", conn' # "reset"
                   PROVE  \/ /\ tx'[u].idx = 0
                             /\ tx'[u].plen > 0
                             /\ Len(wire') > 0
                             /\ wire'[Len(wire')] = [id |-> tx'[u].id, part |-> "hdr", len |-> tx'[u].hlen]
                          \/ /\ tx'[u].idx = tx'[u].plen
                             /\ FrameClosed(wire')
        BY DEF PayloadPending
      <3>1. u = t
        BY <1>1, <1>6 DEF Writing
      <3>2. tx[t].plen \in Nat
        BY <1>1, CodecAssumption, Zenon
      <3>3. CASE tx[t].plen > 0
        <4>1. Len(wire') > 0 /\ wire'[Len(wire')] = hc
          BY <1>0, <2>1, <2>3, AppendProperties
        <4>2. QED
          BY <1>6, <3>1, <3>3, <4>1
      <3>4. CASE tx[t].plen = 0
        <4>1. hc.len = HEADER_SIZE /\ hc.part = "hdr"
          BY <1>1, <3>4, CodecAssumption
        <4>2. FrameClosed(Append(wire, hc))
          BY <1>0, <2>3, <4>1, ClosedAppendHdr
        <4>3. QED
          BY <1>6, <2>1, <3>1, <3>4, <4>2
      <3>5. QED
        BY <3>2, <3>3, <3>4
    <2>10. QED
      BY <1>7, <1>8, <1>9, <2>4, <2>5 DEF IInv
  <1>11. CASE ~(r > 0)
    <2>1. conn' = "reset" /\ wire' = wire
      BY <1>5, <1>11 DEF AfterWrite
    <2>2. QED
      BY <1>7, <1>8, <1>9, <2>1 DEF IInv, WireFramed, PayloadPending
  <1>12. QED
    BY <1>10, <1>11

(***************************************************************************)
(* One iteration of the payload loop (lines 1212-1228).  While the        *)
(* connection is not reset the holder's header is the last chunk, so the *)
(* payload lands right after it with the length it announces; a failed    *)
(* write resets the connection and appends nothing.                       *)
(***************************************************************************)
LEMMA FramingPayload ==
  ASSUME IInv, CodecTypeOK', NEW t \in Threads, TransmitPayload(t)
  PROVE  IInv'
  <1>0. /\ tx \in [Threads -> TxState] /\ tx[t] \in TxState /\ wire \in Seq(Chunk)
        /\ conn \in {"up", "closed", "reset"}
    BY DEF IInv, CodecTypeOK
  <1>1. /\ tx[t].pc = "pay" /\ tx[t].idx < tx[t].plen /\ lock = t
        /\ tx[t].plen \in PayloadLens /\ tx[t].hlen = HEADER_SIZE + tx[t].plen
    BY DEF TransmitPayload, IInv, LockHeldByWriter, Writing, WriterPacket
  <1>2. \A u \in Threads \ {t} : ~Writing(u)
    BY <1>1 DEF IInv, LockHeldByWriter
  <1>3. PICK r \in WriteOutcomes(tx[t].plen - tx[t].idx) : PayloadWrite(t, r)
    BY DEF TransmitPayload
  <1>4. /\ tx' = [tx EXCEPT ![t].res = ToDword(r),
                            ![t].idx = (tx[t].idx + ToDword(r)) % DWORD_MOD]
        /\ lock' = lock
        /\ wire' = IF r > 0
                     THEN Append(wire, [id |-> tx[t].id, part |-> "pay", len |-> r])
                     ELSE wire
        /\ conn' = AfterWrite(r)
    BY <1>3, Zenon DEF PayloadWrite, TransmitPayload
  <1>5. /\ tx'[t].pc = "pay" /\ tx'[t].idx = (tx[t].idx + ToDword(r)) % DWORD_MOD
        /\ tx'[t].plen = tx[t].plen /\ tx'[t].hlen = tx[t].hlen /\ tx'[t].id = tx[t].id
        /\ \A u \in Threads \ {t} : tx'[u] = tx[u]
    BY <1>0, <1>1, <1>4 DEF TxState
  <1>6. LockHeldByWriter'
    <2> SUFFICES ASSUME NEW u \in Threads PROVE Writing(u)' <=> lock' = u
      BY DEF LockHeldByWriter
    <2>1. CASE u = t
      BY <1>1, <1>4, <1>5, <2>1 DEF Writing
    <2>2. CASE u # t
      <3>1. tx'[u] = tx[u] /\ ~Writing(u) /\ lock' = t
        BY <1>1, <1>2, <1>4, <1>5, <2>2, Zenon
      <3>2. QED
        BY <3>1, <2>2 DEF Writing
    <2>3. QED
      BY <2>1, <2>2
  <1>7. WriterPacket'
    BY <1>1, <1>5 DEF IInv, WriterPacket
  <1>8. AtBoundary'
    BY <1>1, <1>4, <1>5, CodecAssumption DEF AtBoundary
  <1>9. PayloadPending' <=> ((tx'[t].pc = "pay" /\ conn' # "reset") =>
                              \/ /\ tx'[t].idx = 0
                                 /\ tx'[t].plen > 0
                                 /\ Len(wire') > 0
                                 /\ wire'[Len(wire')] = [id |-> tx'[t].id, part |-> "hdr", len |-> tx'[t].hlen]
                              \/ /\ tx'[t].idx = tx'[t].plen
                                 /\ FrameClosed(wire'))
    BY <1>2, <1>5 DEF PayloadPending, Writing
  <1>10. CASE r > 0
    <2>1. conn # "reset" /\ conn' = conn
      <3>1. conn = "reset" => r \in WriteFail
        BY <1>3 DEF WriteOutcomes
      <3>2. conn # "reset"
        BY <3>1, <1>10, WriteFailNotPositive
      <3>3. QED
        BY <3>2, <1>4, <1>10 DEF AfterWrite
    <2>2. /\ tx[t].idx = 0 /\ tx[t].plen > 0 /\ Len(wire) > 0
          /\ wire[Len(wire)] = [id |-> tx[t].id, part |-> "hdr", len |-> tx[t].hlen]
      <3>1. tx[t].idx \in Int /\ tx[t].plen \in Int
        BY <1>0, DwordPositive DEF TxState, Dword
      <3>2. \/ /\ tx[t].idx = 0 /\ tx[t].plen > 0 /\ Len(wire) > 0
               /\ wire[Len(wire)] = [id |-> tx[t].id, part |-> "hdr", len |-> tx[t].hlen]
            \/ tx[t].idx = tx[t].plen
        BY <1>1, <2>1, Zenon DEF IInv, PayloadPending
      <3>3. QED
        BY <1>1, <3>1, <3>2
    <2>3. r = tx[t].plen /\ tx[t].plen \in Nat /\ tx[t].id \in Nat
      <3>1. r \in {tx[t].plen - tx[t].idx} \cup WriteFail
        BY <1>0, <1>3, <2>1 DEF WriteOutcomes
      <3>2. tx[t].plen \in Nat /\ tx[t].id \in Nat
        BY <1>0, <1>1, CodecAssumption DEF TxState
      <3>3. QED
        BY <3>1, <3>2, <2>2, <1>10, WriteFailNotPositive
    <2>4. tx'[t].idx = tx[t].plen
      <3>1. tx[t].plen < DWORD_MOD
        <4>1. HEADER_SIZE \in Nat \ {0} /\ HEADER_SIZE + tx[t].plen < DWORD_MOD
          BY <1>1, CodecAssumption
        <4>2. QED
          BY <4>1, <2>3, DwordPositive
      <3>2. ToDword(r) = tx[t].plen
        BY <2>3, <3>1, DwordPositive DEF ToDword
      <3>3. QED
        BY <1>5, <2>2, <2>3, <3>1, <3>2, DwordPositive
    <2> DEFINE pc == [id |-> tx[t].id, part |-> "pay", len |-> tx[t].plen]
    <2>5. wire' = Append(wire, pc)
      BY <1>4, <1>10, <2>3
    <2>6. Framed(Append(wire, pc)) /\ FrameClosed(Append(wire, pc))
      BY <1>0, <1>1, <2>2, <2>3, FramedAppendPay, CodecAssumption DEF IInv, WireFramed
    <2>7. QED
      BY <1>5, <1>6, <1>7, <1>8, <1>9, <2>4, <2>5, <2>6 DEF IInv, WireFramed
  <1>11. CASE ~(r > 0)
    <2>1. conn' = "reset" /\ wire' = wire
      BY <1>4, <1>11 DEF AfterWrite
    <2>2. QED
      BY <1>6, <1>7, <1>8, <1>9, <2>1 DEF IInv, WireFramed
  <1>12. QED
    BY <1>10, <1>11

(* Every step of the codec keeps the strengthening. *)
LEMMA FramingStep == IInv /\ [CodecNext]_codecVars => IInv'
  <1> SUFFICES ASSUME IInv, [CodecNext]_codecVars PROVE IInv'
    OBVIOUS
  <1>0. CodecTypeOK'
    BY TypeStep DEF IInv
  <1>1. ASSUME NEW t \in Threads, NEW type \in OutTypes, NEW plen \in PayloadLens,
               TransmitCall(t, type, plen),
               UNCHANGED <<lock, conn, wire, okIds, peerSent, rcvd, delivered, rxRes>>
        PROVE  IInv'
    BY <1>0, <1>1, FramingCall
  <1>2. ASSUME NEW t \in Threads, TransmitBegin(t) PROVE IInv'
    BY <1>0, <1>2, FramingBegin
  <1>3. ASSUME NEW t \in Threads, TransmitHeader(t) PROVE IInv'
    BY <1>0, <1>3, FramingHeader
  <1>4. ASSUME NEW t \in Threads, TransmitPayload(t) PROVE IInv'
    BY <1>0, <1>4, FramingPayload
  <1>5. ASSUME NEW t \in Threads, TransmitFinish(t) PROVE IInv'
    BY <1>0, <1>5, FramingFinish
  <1>6. ASSUME NEW t \in Threads, TransmitReturn(t),
               UNCHANGED <<lock, conn, wire, nextId, okIds, peerSent, rcvd, delivered, rxRes>>
        PROVE  IInv'
    BY <1>0, <1>6, FramingReturn
  <1>7. ASSUME NEW t \in Threads, PacketReceive(t) PROVE IInv'
    <2>1. UNCHANGED <<lock, conn, tx, wire>>
      BY <1>7 DEF PacketReceive
    <2>2. QED
      BY <1>0, <2>1, FramingFrame
  <1>8. CASE PeerSend
    <2>1. UNCHANGED <<lock, conn, tx, wire>>
      BY <1>8 DEF PeerSend
    <2>2. QED
      BY <1>0, <2>1, FramingFrame
  <1>9. CASE PeerClose
    BY <1>0, <1>9, FramingPeerClose
  <1>10. CASE UNCHANGED codecVars
    BY <1>0, <1>10, FramingFrame DEF codecVars
  <1>11. QED
    BY <1>1, <1>2, <1>3, <1>4, <1>5, <1>6, <1>7, <1>8, <1>9, <1>10 DEF CodecNext

(* The strengthening implies the framing property. *)
LEMMA IInvFramed == IInv => WireFramed
  BY DEF IInv

(***************************************************************************)
(* However the threads that call packet_transmit_via_ssl interleave under *)
(* remote->lock, whatever SSL_write returns and wherever the connection   *)
(* fails, the controller can split the agent's stream into frames by the  *)
(* length prefixes: every payload follows its own header and has the     *)
(* length that header announces, including an encrypted payload's.        *)
(***************************************************************************)
THEOREM CodecWireFramed == CodecSpec => []WireFramed
  <1>1. CodecInit => IInv
    BY FramingInit
  <1>2. IInv /\ [CodecNext]_codecVars => IInv'
    BY FramingStep
  <1>3. IInv => WireFramed
    BY IInvFramed
  <1>4. QED
    BY <1>1, <1>2, <1>3, PTL DEF CodecSpec

(***************************************************************************)
(* For every number of threads and payload lengths, a step that releases  *)
(* remote->lock while the connection is not reset leaves the agent's      *)
(* stream at a frame boundary: a transmitting thread never hands the lock *)
(* to another with its frame half written.  It follows from the framing *)
(* strengthening holding after the step.                                  *)
(***************************************************************************)
THEOREM LockReleaseFramed == CodecSpec => LockReleasedAtBoundary
  <1>1. IInv /\ [CodecNext]_codecVars =>
          [(lock # NoThread /\ lock' = NoThread /\ conn' # "reset") => FrameClosed(wire')]_codecVars
    BY FramingStep DEF IInv, AtBoundary
  <1>2. QED
    BY <1>1, FramingInit, FramingStep, PTL DEF CodecSpec, LockReleasedAtBoundary

=============================================================================
