---------------------------- MODULE PacketCodec ----------------------------
(***************************************************************************)
(* The packet codec of the TCP/TLS transport (server_transport_tcp.c):    *)
(* packet_transmit_via_ssl and packet_receive_via_ssl, both run under the *)
(* session lock remote->lock by any thread of the agent.                  *)
(*                                                                         *)
(* Data is abstracted: a packet is its type and its payload length; the   *)
(* agent-to-controller byte stream is a sequence of chunks, one per       *)
(* successful SSL_write, each tagged with the packet it belongs to.  The  *)
(* header chunk carries the value of the length field, the payload chunk  *)
(* the number of payload bytes.  The controller-to-agent stream is the    *)
(* sequence of frames the controller sent and the number the agent read.  *)
(*                                                                         *)
(* SSL_MODE_ENABLE_PARTIAL_WRITE is not set (line 526 sets only           *)
(* SSL_MODE_AUTO_RETRY), so SSL_write returns either the full count or a  *)
(* failure value; a failure is sticky (the connection is reset).          *)
(***************************************************************************)
EXTENDS Integers, Sequences, SequencesExt

CONSTANTS
    Threads,        \* the agent threads that call the codec
    NoThread,       \* the lock owner when remote->lock is free
    HEADER_SIZE,    \* sizeof(TlvHeader)
    DWORD_MOD,      \* 2^32 in the build: the range of a DWORD
    PayloadLens,    \* payload lengths a packet (or a ciphertext) can have
    OutTypes,       \* packet types the agent transmits
    PeerTypes,      \* packet types the controller sends
    PLAIN_REQUEST,  \* PACKET_TLV_TYPE_PLAIN_REQUEST
    PLAIN_RESPONSE, \* PACKET_TLV_TYPE_PLAIN_RESPONSE
    Cipher,         \* remote_get_cipher(remote) # NULL
    WriteFail,      \* what SSL_write returns on failure (a subset of {0, -1})
    MaxPackets,     \* bound on the packets the agent transmits
    MaxIn           \* bound on the frames the controller sends

ASSUME CodecAssumption ==
    /\ NoThread \notin Threads
    /\ HEADER_SIZE \in Nat \ {0}
    /\ PayloadLens \subseteq Nat /\ PayloadLens # {}
    /\ DWORD_MOD \in Nat
    /\ \A n \in PayloadLens : HEADER_SIZE + n < DWORD_MOD
    /\ OutTypes \subseteq Nat /\ PeerTypes \subseteq Nat
    /\ PLAIN_REQUEST \in Nat /\ PLAIN_RESPONSE \in Nat
    /\ Cipher \in BOOLEAN
    /\ WriteFail \subseteq {0, -1} /\ WriteFail # {}
    /\ MaxPackets \in Nat /\ MaxIn \in Nat

(* packet_get_type of the zeroed Packet that packet_receive_via_ssl       *)
(* allocates at line 683: ntohl(0).                                        *)
ZeroedPacketType == 0

PlainTypes == {PLAIN_REQUEST, PLAIN_RESPONSE}

(* The controller encrypts a frame exactly when a cipher is established   *)
(* and the type is not a plaintext type (spec section 4.6).               *)
PeerEncrypts(type) == Cipher /\ type \notin PlainTypes

Results == {"SUCCESS", "NOT_FOUND", "CRYPTO_ERROR", "WRITE_ERROR"}

(* The body the handler sees when a payload was decrypted wrongly or not  *)
(* decrypted at all; frame bodies are 1..MaxIn.                           *)
Garbage == 0

VARIABLES
    lock,       \* owner of remote->lock
    conn,       \* "up", "closed" (FIN from the peer) or "reset"
    tx,         \* per thread: the state of its packet_transmit_via_ssl call
    wire,       \* chunks written by SSL_write, agent -> controller
    nextId,     \* next packet identity
    okIds,      \* packets whose transmit returned ERROR_SUCCESS
    peerSent,   \* frames the controller sent: [type, enc]
    rcvd,       \* number of frames the agent has read
    delivered,  \* packets returned by packet_receive_via_ssl: [type, body]
    rxRes       \* result of the last packet_receive_via_ssl

codecVars == <<lock, conn, tx, wire, nextId, okIds, peerSent, rcvd, delivered, rxRes>>

TxPcs == {"idle", "call", "hdr", "pay", "ret"}

TxIdle == [pc |-> "idle", id |-> 0, type |-> 0, plen |-> 0, hlen |-> 0, idx |-> 0, res |-> 0,
          result |-> "NONE"]

Chunk == [id : Nat, part : {"hdr", "pay"}, len : Nat]

(* The values of a DWORD. *)
Dword == 0..(DWORD_MOD - 1)

(* The locals of one packet_transmit_via_ssl call; idx and res are DWORDs. *)
TxState == [pc : TxPcs, id : Nat, type : Nat, plen : Nat, hlen : Nat,
            idx : Dword, res : Dword,
            result : Results \cup {"NONE"}]

CodecTypeOK ==
    /\ lock \in Threads \cup {NoThread}
    /\ conn \in {"up", "closed", "reset"}
    /\ tx \in [Threads -> TxState]
    /\ wire \in Seq(Chunk)
    /\ nextId \in Nat \ {0}
    /\ okIds \subseteq Nat
    /\ peerSent \in Seq([type : PeerTypes, enc : BOOLEAN])
    /\ rcvd \in 0..Len(peerSent)
    /\ delivered \in Seq([type : Nat, body : Nat])
    /\ rxRes \in Results

CodecInit ==
    /\ lock = NoThread
    /\ conn = "up"
    /\ tx = [t \in Threads |-> TxIdle]
    /\ wire = <<>>
    /\ nextId = 1
    /\ okIds = {}
    /\ peerSent = <<>>
    /\ rcvd = 0
    /\ delivered = <<>>
    /\ rxRes = "SUCCESS"

(***************************************************************************)
(* SSL_write of n bytes: the full count while the connection is up; after *)
(* a FIN either the full count or a failure; after a reset a failure.     *)
(***************************************************************************)
WriteOutcomes(n) ==
    CASE conn = "up"     -> {n}
      [] conn = "closed" -> {n} \cup WriteFail
      [] conn = "reset"  -> WriteFail

(* A failed write leaves the connection reset. *)
AfterWrite(r) == IF r > 0 THEN conn ELSE "reset"

(* Variant keeping the int returned by SSL_write signed. *)
ToLong(r) == r

(* The int returned by SSL_write stored in the DWORD res. *)
ToDword(r) == r % DWORD_MOD

-----------------------------------------------------------------------------
(* The caller side: a thread hands a packet to packet_transmit_via_ssl.   *)
TransmitCall(t, type, plen) ==
    /\ tx[t].pc = "idle"
    /\ nextId <= MaxPackets
    /\ tx' = [tx EXCEPT ![t] = [pc |-> "call", id |-> nextId, type |-> type, plen |-> plen,
                                 hlen |-> HEADER_SIZE + plen, idx |-> 0, res |-> 0,
                                 result |-> "NONE"]]
    /\ nextId' = nextId + 1

(* Variant of TransmitBegin that does not wait for remote->lock. *)
TransmitBeginUnlocked(t) ==
    /\ tx[t].pc = "call"
    /\ IF Cipher /\ tx[t].type \notin PlainTypes
         THEN \/ /\ tx' = [tx EXCEPT ![t].pc = "ret", ![t].result = "CRYPTO_ERROR"]
                 /\ UNCHANGED lock
              \/ \E e \in PayloadLens :
                   /\ lock' = t
                   /\ tx' = [tx EXCEPT ![t].pc = "hdr", ![t].plen = e,
                                       ![t].hlen = e + HEADER_SIZE, ![t].idx = 0]
         ELSE /\ lock' = t
              /\ tx' = [tx EXCEPT ![t].pc = "hdr", ![t].idx = 0]
    /\ UNCHANGED <<conn, wire, nextId, okIds, peerSent, rcvd, delivered, rxRes>>

(***************************************************************************)
(* Lines 1134-1187: take the lock, add a request id, register the         *)
(* completion, and encrypt a non-plaintext packet when a cipher is        *)
(* established, updating the header length.  A failed encrypt breaks out  *)
(* to the cleanup: the packet is destroyed, the lock released and the     *)
(* crypto error returned.                                                 *)
(***************************************************************************)
TransmitBegin(t) ==
    /\ tx[t].pc = "call"
    /\ lock = NoThread
    /\ IF Cipher /\ tx[t].type \notin PlainTypes
         THEN \/ /\ tx' = [tx EXCEPT ![t].pc = "ret", ![t].result = "CRYPTO_ERROR"]
                 /\ UNCHANGED lock
              \/ \E e \in PayloadLens :
                   /\ lock' = t
                   /\ tx' = [tx EXCEPT ![t].pc = "hdr", ![t].plen = e,
                                       ![t].hlen = e + HEADER_SIZE, ![t].idx = 0]
         ELSE /\ lock' = t
              /\ tx' = [tx EXCEPT ![t].pc = "hdr", ![t].idx = 0]
    /\ UNCHANGED <<conn, wire, nextId, okIds, peerSent, rcvd, delivered, rxRes>>

(***************************************************************************)
(* Lines 1189-1210: one iteration of the header loop.  res is a DWORD, so *)
(* "res <= 0" only catches 0 and "res < 0" never holds: a failed write    *)
(* (-1) adds 2^32-1 to idx, which leaves the loop, and the payload loop   *)
(* is entered anyway.                                                     *)
(***************************************************************************)
HeaderWrite(t, r) ==
    LET res == ToDword(r)
        idx == (tx[t].idx + res) % DWORD_MOD
        leave == res = 0 \/ ~(idx < HEADER_SIZE)
    IN /\ wire' = IF r > 0
                    THEN Append(wire, [id |-> tx[t].id, part |-> "hdr", len |-> tx[t].hlen])
                    ELSE wire
       /\ conn' = AfterWrite(r)
       /\ IF leave /\ res < 0
            THEN /\ tx' = [tx EXCEPT ![t].pc = "ret", ![t].result = "WRITE_ERROR"]
                 /\ lock' = NoThread
            ELSE /\ tx' = [tx EXCEPT ![t].res = res,
                                    ![t].idx = IF leave THEN 0 ELSE idx,
                                    ![t].pc = IF leave THEN "pay" ELSE "hdr"]
                 /\ UNCHANGED lock

TransmitHeader(t) ==
    /\ tx[t].pc = "hdr"
    /\ \E r \in WriteOutcomes(HEADER_SIZE - tx[t].idx) : HeaderWrite(t, r)
    /\ UNCHANGED <<nextId, okIds, peerSent, rcvd, delivered, rxRes>>

(***************************************************************************)
(* Lines 1212-1228: one iteration of the payload loop.  A failure (-1)    *)
(* adds 2^32-1 to idx; a return of 0 adds nothing and the loop repeats.   *)
(***************************************************************************)
(* Variant of PayloadWrite that does not advance idx by res. *)
PayloadWriteNoAdvance(t, r) ==
    /\ wire' = IF r > 0
                 THEN Append(wire, [id |-> tx[t].id, part |-> "pay", len |-> r])
                 ELSE wire
    /\ conn' = AfterWrite(r)
    /\ tx' = [tx EXCEPT ![t].res = ToDword(r)]

PayloadWrite(t, r) ==
    /\ wire' = IF r > 0
                 THEN Append(wire, [id |-> tx[t].id, part |-> "pay", len |-> r])
                 ELSE wire
    /\ conn' = AfterWrite(r)
    /\ tx' = [tx EXCEPT ![t].res = ToDword(r),
                        ![t].idx = (tx[t].idx + ToDword(r)) % DWORD_MOD]

TransmitPayload(t) ==
    /\ tx[t].pc = "pay"
    /\ tx[t].idx < tx[t].plen
    /\ \E r \in WriteOutcomes(tx[t].plen - tx[t].idx) : PayloadWrite(t, r)
    /\ UNCHANGED <<lock, nextId, okIds, peerSent, rcvd, delivered, rxRes>>

(***************************************************************************)
(* Lines 1230-1246: the payload loop is left; "res < 0" never holds for a *)
(* DWORD, so ERROR_SUCCESS is set; the packet is destroyed and the lock   *)
(* released.                                                              *)
(***************************************************************************)
(* Variant of TransmitFinish that does not test the payload index.       *)
TransmitFinishNoCheck(t) ==
    /\ tx[t].pc = "pay"
    /\ lock' = NoThread
    /\ tx' = [tx EXCEPT ![t].pc = "ret", ![t].result = "SUCCESS"]
    /\ okIds' = okIds \cup {tx[t].id}
    /\ UNCHANGED <<conn, wire, nextId, peerSent, rcvd, delivered, rxRes>>

TransmitFinish(t) ==
    /\ tx[t].pc = "pay"
    /\ ~(tx[t].idx < tx[t].plen)
    /\ lock' = NoThread
    /\ tx' = [tx EXCEPT ![t].pc = "ret", ![t].result = "SUCCESS"]
    /\ okIds' = okIds \cup {tx[t].id}
    /\ UNCHANGED <<conn, wire, nextId, peerSent, rcvd, delivered, rxRes>>

(* The caller takes the result of packet_transmit_via_ssl. *)
TransmitReturn(t) ==
    /\ tx[t].pc = "ret"
    /\ tx' = [tx EXCEPT ![t] = TxIdle]

-----------------------------------------------------------------------------
(***************************************************************************)
(* packet_receive_via_ssl (lines 585-740), under the lock, as one step:   *)
(* the reads block until a whole frame is there or the connection is     *)
(* down.  A reset fails the read (-1), a FIN with nothing buffered reads  *)
(* 0; both give ERROR_NOT_FOUND.  With a cipher, the decision to decrypt  *)
(* is taken on the type of the freshly zeroed packet (line 694), not on  *)
(* the received header.  Decrypting a payload that is not ciphertext     *)
(* either fails or yields garbage; not decrypting a ciphertext hands the *)
(* handler garbage.                                                       *)
(***************************************************************************)
(* Variant that never decrypts a received payload. *)
DecryptingNever == FALSE

Decrypting == Cipher /\ ZeroedPacketType \notin PlainTypes

PacketReceive(t) ==
    /\ lock = NoThread
    /\ \/ /\ conn # "reset"
          /\ rcvd < Len(peerSent)
          /\ LET f == peerSent[rcvd + 1]
                 ok == [type |-> f.type, body |-> rcvd + 1]
                 bad == [type |-> f.type, body |-> Garbage]
             IN /\ rcvd' = rcvd + 1
                /\ \/ /\ Decrypting /\ f.enc
                      /\ delivered' = Append(delivered, ok)
                      /\ rxRes' = "SUCCESS"
                   \/ /\ Decrypting /\ ~f.enc
                      /\ \/ /\ delivered' = Append(delivered, bad)
                            /\ rxRes' = "SUCCESS"
                         \/ /\ rxRes' = "CRYPTO_ERROR"
                            /\ UNCHANGED delivered
                   \/ /\ ~Decrypting
                      /\ delivered' = Append(delivered, IF f.enc THEN bad ELSE ok)
                      /\ rxRes' = "SUCCESS"
       \/ /\ \/ conn = "reset"
             \/ conn = "closed" /\ rcvd = Len(peerSent)
          /\ rxRes' = "NOT_FOUND"
          /\ UNCHANGED <<rcvd, delivered>>
    /\ UNCHANGED <<lock, conn, tx, wire, nextId, okIds, peerSent>>

-----------------------------------------------------------------------------
(* The controller sends a frame while the connection is up. *)
PeerSend ==
    /\ conn = "up"
    /\ Len(peerSent) < MaxIn
    /\ \E type \in PeerTypes :
         peerSent' = Append(peerSent, [type |-> type, enc |-> PeerEncrypts(type)])
    /\ UNCHANGED <<lock, conn, tx, wire, nextId, okIds, rcvd, delivered, rxRes>>

(* The controller closes the connection or it is reset. *)
PeerClose ==
    /\ conn = "up"
    /\ conn' \in {"closed", "reset"}
    /\ UNCHANGED <<lock, tx, wire, nextId, okIds, peerSent, rcvd, delivered, rxRes>>

(***************************************************************************)
(* The codec alone: any thread transmits any packet, any thread receives. *)
(***************************************************************************)
CodecNext ==
    \/ \E t \in Threads :
         \/ \E type \in OutTypes, plen \in PayloadLens :
              /\ TransmitCall(t, type, plen)
              /\ UNCHANGED <<lock, conn, wire, okIds, peerSent, rcvd, delivered, rxRes>>
         \/ TransmitBegin(t)
         \/ TransmitHeader(t)
         \/ TransmitPayload(t)
         \/ TransmitFinish(t)
         \/ /\ TransmitReturn(t)
            /\ UNCHANGED <<lock, conn, wire, nextId, okIds, peerSent, rcvd, delivered, rxRes>>
         \/ PacketReceive(t)
    \/ PeerSend
    \/ PeerClose

CodecSpec == CodecInit /\ [][CodecNext]_codecVars

-----------------------------------------------------------------------------
(***************************************************************************)
(* Properties.                                                            *)
(***************************************************************************)

(* The chunk at i ends a frame: a payload, or a header with no payload. *)
EndsFrame(w, i) == w[i].part = "pay" \/ w[i].len = HEADER_SIZE

FrameClosed(w) == Len(w) = 0 \/ EndsFrame(w, Len(w))

(***************************************************************************)
(* The controller can parse the agent's stream by its length prefixes:    *)
(* every payload chunk directly follows the header of the same packet and *)
(* has exactly the length that header announces less the header size,    *)
(* and a header that announces a payload is followed by nothing or by     *)
(* that payload.  Breaking this takes two threads whose SSL_writes        *)
(* interleave, or a header length not updated after encryption.          *)
(***************************************************************************)
Framed(w) ==
    \A i \in 1..Len(w) :
        /\ w[i].part = "pay" =>
              /\ i > 1
              /\ w[i - 1].part = "hdr"
              /\ w[i - 1].id = w[i].id
              /\ w[i - 1].len = HEADER_SIZE + w[i].len
        /\ (w[i].part = "hdr" /\ i < Len(w)) =>
              IF w[i].len = HEADER_SIZE THEN w[i + 1].part = "hdr"
              ELSE w[i + 1].part = "pay" /\ w[i + 1].id = w[i].id

WireFramed == Framed(wire)

(***************************************************************************)
(* packet_transmit_via_ssl gives up remote->lock only at a frame boundary *)
(* of the agent's stream, unless the connection is reset: another thread *)
(* that takes the lock next never writes its header into the middle of a *)
(* frame.  A thread that leaves the write loops early, or returns with   *)
(* part of its payload unwritten, breaks this.                           *)
(***************************************************************************)
LockReleasedAtBoundary ==
    [][(lock # NoThread /\ lock' = NoThread /\ conn' # "reset") => FrameClosed(wire')]_codecVars

(***************************************************************************)
(* Every packet packet_receive_via_ssl hands to the command handler is    *)
(* the next frame the controller sent, with its type and its plaintext    *)
(* body: none is skipped, duplicated, reordered or garbled by decryption. *)
(***************************************************************************)
DeliveredAsSent ==
    \A i \in 1..Len(delivered) :
        delivered[i] = [type |-> peerSent[i].type, body |-> i]

(***************************************************************************)
(* When packet_transmit_via_ssl returns ERROR_SUCCESS the whole frame, its *)
(* header and (if any) its payload, is in the stream (spec section 7:      *)
(* transmit errors are returned to the caller).                           *)
(***************************************************************************)
SentFrame(id) == \E i \in 1..Len(wire) :
                    /\ wire[i].id = id
                    /\ EndsFrame(wire, i)

TransmitSuccessMeansSent == \A id \in okIds : SentFrame(id)

=============================================================================
