---------------------------- MODULE CodecChannel ----------------------------
(***************************************************************************)
(* The packet codec implements the frame channel: the controller's view   *)
(* of the agent's stream, the frames it can parse out of it, changes only *)
(* as FrameChannel allows.  The refinement mapping reads the frames off   *)
(* the chunks written so far: a frame is complete at a header that        *)
(* announces no payload or at a payload chunk, and its length is the one  *)
(* its header announces.  A header still waiting for its payload is not   *)
(* yet a frame.  A stream the controller cannot split by its length        *)
(* prefixes maps to a channel state FrameChannel never reaches.           *)
(***************************************************************************)
EXTENDS PacketCodec

(* The positions of the chunks that complete a frame, in order. *)
FrameEnds(w) == SelectSeq([i \in 1..Len(w) |-> i], LAMBDA i : EndsFrame(w, i))

(* The frame completed at position i: its packet and announced length. *)
FrameAt(w, i) ==
    LET h == IF w[i].part = "pay" THEN i - 1 ELSE i
    IN  [id |-> w[i].id, len |-> w[h].len - HEADER_SIZE]

Frames(w) == [k \in 1..Len(FrameEnds(w)) |-> FrameAt(w, FrameEnds(w)[k])]

Channel == INSTANCE FrameChannel
               WITH Ids <- 1..MaxPackets,
                    Lens <- PayloadLens,
                    frames <- Frames(wire),
                    chan <- IF Framed(wire) THEN conn ELSE "garbled"

(***************************************************************************)
(* Every step of packet_transmit_via_ssl, packet_receive_via_ssl and the   *)
(* connection is a step of the frame channel or leaves the controller's   *)
(* view alone: a frame appears whole (the header and payload writes of    *)
(* one packet under remote->lock), at most once per packet, with a length *)
(* a packet can have, and never after a reset; frames already parsed are  *)
(* never changed.                                                         *)
(***************************************************************************)
ChannelRefined == Channel!ChannelSpec

=============================================================================
