------------------------ MODULE CodecDeliveryProofs ------------------------
(***************************************************************************)
(* Proof that packet_receive_via_ssl (lines 585-740) hands the command    *)
(* handler exactly the frames the controller sent, in order and with      *)
(* their plaintext bodies, for every value of the constants, provided the *)
(* decision to decrypt (line 694) agrees with how the controller encodes: *)
(* either no cipher is established, or the zeroed packet's type and every *)
(* type the controller sends are not plaintext types.  The run           *)
(* plain_under_cipher shows the proviso is needed.                        *)
(***************************************************************************)
EXTENDS PacketCodecProofs

(* The decision at line 694 agrees with the controller's encoding. *)
DecryptAgrees ==
    Cipher => (ZeroedPacketType \notin PlainTypes /\ PeerTypes \cap PlainTypes = {})

(***************************************************************************)
(* The strengthening: every frame read so far was delivered, the stream   *)
(* holds frames encoded as the controller encodes them, and the delivered *)
(* packets are those frames.                                              *)
(***************************************************************************)
PeerEncoded ==
    \A i \in 1..Len(peerSent) : peerSent[i].enc = PeerEncrypts(peerSent[i].type)

DeliveryInv ==
    /\ CodecTypeOK
    /\ Len(delivered) = rcvd
    /\ PeerEncoded
    /\ DeliveredAsSent

USE CodecAssumption

-----------------------------------------------------------------------------
(* Steps that neither send, read nor deliver a frame keep DeliveryInv. *)
LEMMA DeliveryUnchanged ==
  ASSUME DeliveryInv, CodecTypeOK', UNCHANGED <<peerSent, rcvd, delivered>>
  PROVE  DeliveryInv'
  BY DEF DeliveryInv, PeerEncoded, DeliveredAsSent

(* A frame the controller sends is encoded as PeerEncrypts says and does *)
(* not change the frames already read.                                   *)
LEMMA DeliveryPeerSend ==
  ASSUME DeliveryInv, CodecTypeOK', PeerSend
  PROVE  DeliveryInv'
<1>1. PICK ty \in PeerTypes :
        peerSent' = Append(peerSent, [type |-> ty, enc |-> PeerEncrypts(ty)])
  BY DEF PeerSend
<1>2. UNCHANGED <<rcvd, delivered>>
  BY DEF PeerSend
<1>3. /\ peerSent \in Seq([type : PeerTypes, enc : BOOLEAN])
      /\ rcvd \in 0..Len(peerSent)
  BY DEF DeliveryInv, CodecTypeOK
<1>4. /\ Len(peerSent') = Len(peerSent) + 1
      /\ \A i \in 1..Len(peerSent) : peerSent'[i] = peerSent[i]
      /\ peerSent'[Len(peerSent) + 1] = [type |-> ty, enc |-> PeerEncrypts(ty)]
  BY <1>1, <1>3, AppendProperties
<1>5. PeerEncoded'
  BY <1>4 DEF DeliveryInv, PeerEncoded
<1>6. DeliveredAsSent'
  BY <1>2, <1>3, <1>4 DEF DeliveryInv, DeliveredAsSent
<1>7. QED
  BY <1>2, <1>5, <1>6 DEF DeliveryInv

(***************************************************************************)
(* When the decision to decrypt agrees with the controller's encoding,    *)
(* packet_receive_via_ssl delivers the next frame with its type and its   *)
(* plaintext body, or reports NOT_FOUND and delivers nothing.             *)
(***************************************************************************)
LEMMA DeliveryReceive ==
  ASSUME DecryptAgrees, DeliveryInv, CodecTypeOK', NEW t \in Threads, PacketReceive(t)
  PROVE  DeliveryInv'
<1>0. /\ peerSent \in Seq([type : PeerTypes, enc : BOOLEAN])
      /\ rcvd \in 0..Len(peerSent)
      /\ delivered \in Seq([type : Nat, body : Nat])
      /\ Len(delivered) = rcvd
  BY DEF DeliveryInv, CodecTypeOK
<1>1. UNCHANGED peerSent
  BY DEF PacketReceive
<1>2. CASE rcvd' = rcvd /\ delivered' = delivered
  BY <1>1, <1>2, DeliveryUnchanged
<1>3. CASE rcvd < Len(peerSent) /\ rcvd' = rcvd + 1
  <2> DEFINE f == peerSent[rcvd + 1]
             ok == [type |-> f.type, body |-> rcvd + 1]
  <2>0. rcvd + 1 \in 1..Len(peerSent)
    BY <1>0, <1>3
  <2>1. /\ f \in [type : PeerTypes, enc : BOOLEAN]
        /\ f.enc = PeerEncrypts(f.type)
    <3>1. f \in [type : PeerTypes, enc : BOOLEAN]
      BY <1>0, <2>0, ElementOfSeq DEF f
    <3>2. f.enc = PeerEncrypts(f.type)
      BY <2>0, Zenon DEF DeliveryInv, PeerEncoded, f
    <3>3. QED
      BY <3>1, <3>2
  <2>2. f.enc = Decrypting
    BY <2>1 DEF DecryptAgrees, PeerEncrypts, Decrypting
  <2>3. delivered' = Append(delivered, ok)
    <3>1. /\ \/ /\ Decrypting /\ f.enc
                /\ delivered' = Append(delivered, ok)
             \/ /\ Decrypting /\ ~f.enc
             \/ /\ ~Decrypting
                /\ delivered' = Append(delivered, IF f.enc THEN [type |-> f.type, body |-> Garbage] ELSE ok)
      BY <1>3 DEF PacketReceive
    <3>2. QED
      BY <3>1, <2>1, <2>2
  <2>4. /\ Len(delivered') = rcvd'
        /\ \A i \in 1..Len(delivered) : delivered'[i] = delivered[i]
        /\ delivered'[rcvd + 1] = ok
    BY <1>0, <1>3, <2>3, AppendProperties
  <2>5. DeliveredAsSent'
    <3> SUFFICES ASSUME NEW i \in 1..Len(delivered')
                 PROVE  delivered'[i] = [type |-> peerSent'[i].type, body |-> i]
      BY DEF DeliveredAsSent
    <3>1. CASE i \in 1..Len(delivered)
      BY <1>0, <1>1, <2>4, <3>1 DEF DeliveryInv, DeliveredAsSent
    <3>2. CASE i = rcvd + 1
      BY <1>1, <2>4, <3>2 DEF f, ok
    <3>3. QED
      BY <1>0, <1>3, <2>4, <3>1, <3>2
  <2>6. PeerEncoded'
    BY <1>1 DEF DeliveryInv, PeerEncoded
  <2>7. QED
    BY <2>4, <2>5, <2>6 DEF DeliveryInv
<1>4. \/ rcvd' = rcvd /\ delivered' = delivered
      \/ rcvd < Len(peerSent) /\ rcvd' = rcvd + 1
  BY DEF PacketReceive
<1>5. QED
  BY <1>2, <1>3, <1>4

-----------------------------------------------------------------------------
(* DeliveryInv holds in every state when the decryption decision agrees. *)
THEOREM DeliveryInvariant ==
  ASSUME DecryptAgrees
  PROVE  CodecSpec => []DeliveryInv
<1>1. CodecInit => DeliveryInv
  BY TypeInit DEF CodecInit, DeliveryInv, PeerEncoded, DeliveredAsSent
<1>2. DeliveryInv /\ [CodecNext]_codecVars => DeliveryInv'
  <2> SUFFICES ASSUME DeliveryInv, [CodecNext]_codecVars PROVE DeliveryInv'
    OBVIOUS
  <2>0. CodecTypeOK'
    BY TypeStep DEF DeliveryInv
  <2>1. ASSUME NEW t \in Threads, PacketReceive(t) PROVE DeliveryInv'
    BY <2>0, <2>1, DeliveryReceive
  <2>2. CASE PeerSend
    BY <2>0, <2>2, DeliveryPeerSend
  <2>3. CASE UNCHANGED <<peerSent, rcvd, delivered>>
    BY <2>0, <2>3, DeliveryUnchanged
  <2>4. QED
    BY <2>1, <2>2, <2>3
       DEF CodecNext, TransmitBegin, TransmitHeader, TransmitPayload, TransmitFinish,
           PeerClose, codecVars
<1>3. QED
  BY <1>1, <1>2, PTL DEF CodecSpec

(***************************************************************************)
(* When no cipher is established, or the zeroed packet's type and the     *)
(* controller's types are not plaintext types, packet_receive_via_ssl      *)
(* hands the handler every frame the controller sent, once, in order,     *)
(* with its plaintext body, however the agent's threads interleave.       *)
(***************************************************************************)
THEOREM DeliveryCorrect ==
  ASSUME DecryptAgrees
  PROVE  CodecSpec => []DeliveredAsSent
<1>1. DeliveryInv => DeliveredAsSent
  BY DEF DeliveryInv
<1>2. QED
  BY <1>1, DeliveryInvariant, PTL

=============================================================================
