---------------------------- MODULE FrameChannel ----------------------------
(***************************************************************************)
(* What the agent-to-controller direction of the TCP/TLS transport        *)
(* promises the controller (spec sections 4.6 and 5): the stream is a     *)
(* sequence of whole frames, each packet's frame appears at most once and *)
(* in one piece, its length is one a packet can have, and once the        *)
(* connection is reset nothing more arrives.  A FIN from the controller   *)
(* does not stop the agent's writes (the half-closed socket still         *)
(* accepts them).                                                         *)
(***************************************************************************)
EXTENDS Sequences

CONSTANTS
    Ids,    \* packet identities
    Lens    \* payload lengths a frame can announce

VARIABLES
    frames, \* the frames the controller can read, in order
    chan    \* "up", "closed" (FIN from the controller) or "reset"

chanVars == <<frames, chan>>

Frame == [id : Ids, len : Lens]

ChannelTypeOK ==
    /\ frames \in Seq(Frame)
    /\ chan \in {"up", "closed", "reset"}

SentIds == {frames[i].id : i \in DOMAIN frames}

ChannelInit ==
    /\ frames = <<>>
    /\ chan = "up"

(* One whole frame of a packet not sent before arrives. *)
Deliver(id, n) ==
    /\ chan # "reset"
    /\ id \notin SentIds
    /\ frames' = Append(frames, [id |-> id, len |-> n])
    /\ UNCHANGED chan

(* The controller closes its side, or the connection is reset. *)
Break ==
    /\ chan # "reset"
    /\ chan' \in {"closed", "reset"}
    /\ UNCHANGED frames

ChannelNext ==
    \/ \E id \in Ids, n \in Lens : Deliver(id, n)
    \/ Break

ChannelSpec == ChannelInit /\ [][ChannelNext]_chanVars

=============================================================================
