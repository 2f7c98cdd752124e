------------------------- MODULE InheritanceProber -------------------------
(***************************************************************************)
(* infer_staged_connection_type (server_transport_tcp.c lines 872-996):   *)
(* given the socket a stager handed over, guess whether the stager        *)
(* accepted it on a listener (bind) or connected out (reverse), so that a *)
(* later reconnect has the same shape.  The guess scans the Window        *)
(* handles below the socket, 4 apart, for a listening socket of the same  *)
(* family and port; on a match it records the listener's address and      *)
(* closes the listener the stager leaked, otherwise it records the peer.  *)
(*                                                                         *)
(* The handle table is the environment: each candidate handle is not a    *)
(* socket (getsockopt fails), a socket that is not listening, or a        *)
(* listener with a family and a port.  At most one listener is the        *)
(* stager's; it has the family and the local port of the handed socket,   *)
(* and no other listener of that family has that port.                    *)
(***************************************************************************)
EXTENDS Integers, FiniteSets

CONSTANTS
    Window,          \* candidate handles scanned (16 in the code)
    Families,        \* address families of sockets in the process
    StagedFamilies,  \* families the handed-over socket can have
    Ports,           \* local ports
    PeerPort         \* the controller's port

ASSUME ProberAssumption ==
    /\ Window \in Nat \ {0}
    /\ StagedFamilies \subseteq Families
    /\ Families \subseteq {"v4", "v6"}
    /\ PeerPort \notin Ports

Candidate == [kind : {"none", "socket"}]
               \cup [kind : {"listen"}, family : Families, port : Ports, stager : BOOLEAN]

Addr == [host : {"self", "ctrl"}, family : Families, port : Ports \cup {PeerPort}]

(* The zeroed sockaddr_storage of a new context. *)
ZeroAddr == [host |-> "none", family |-> "unspec", port |-> 0]

VARIABLES
    staged,  \* the handed-over socket: its family and local port
    cands,   \* cands[i]: what handle sock - 4*i is
    fd,      \* ctx->fd
    bound,   \* ctx->bound
    desc,    \* ctx->sock_desc, the address a reconnect will use
    closed,  \* candidate handles closed by the prober
    probed   \* infer_staged_connection_type has returned

vars == <<staged, cands, fd, bound, desc, closed, probed>>

IsStager(c) == c.kind = "listen" /\ c.stager

(* The handle tables a stager can leave behind. *)
Consistent(s, cs) ==
    /\ \A i, j \in 1..Window : IsStager(cs[i]) /\ IsStager(cs[j]) => i = j
    /\ \A i \in 1..Window : cs[i].kind = "listen" /\ cs[i].family = s.family =>
          (cs[i].port = s.port <=> cs[i].stager)
    /\ \A i \in 1..Window : IsStager(cs[i]) => cs[i].family = s.family

StagerWasBind == \E i \in 1..Window : IsStager(cands[i])

LocalAddr == [host |-> "self", family |-> staged.family, port |-> staged.port]

PeerAddr == [host |-> "ctrl", family |-> staged.family, port |-> PeerPort]

ListenAddr(i) == [host |-> "self", family |-> cands[i].family, port |-> cands[i].port]

ProberTypeOK ==
    /\ staged \in [family : StagedFamilies, port : Ports]
    /\ cands \in [1..Window -> Candidate]
    /\ fd \in {"none", "staged"}
    /\ bound \in BOOLEAN
    /\ desc \in Addr \cup {ZeroAddr}
    /\ closed \subseteq 1..Window
    /\ probed \in BOOLEAN

(* transport_create_tcp zeroes the context (lines 1261-1265). *)
Init ==
    /\ staged \in [family : StagedFamilies, port : Ports]
    /\ cands \in {cs \in [1..Window -> Candidate] : Consistent(staged, cs)}
    /\ fd = "none"
    /\ bound = FALSE
    /\ desc = ZeroAddr
    /\ closed = {}
    /\ probed = FALSE

-----------------------------------------------------------------------------
(* Variant of SameListener that does not compare the families. *)
SameListenerAnyFamily(i) ==
    /\ cands[i].kind = "listen"
    /\ CASE cands[i].family = "v4" -> cands[i].port = staged.port
         [] cands[i].family = "v6" -> cands[i].port # staged.port

(* Variant of SameListener comparing the ports with != in both families. *)
SameListenerPortDiffers(i) ==
    /\ cands[i].kind = "listen"
    /\ cands[i].family = staged.family
    /\ cands[i].port # staged.port

(***************************************************************************)
(* Lines 918-957: the loop body's tests.  getsockopt(SO_ACCEPTCONN) fails *)
(* on a handle that is not a socket and is FALSE on one that is not       *)
(* listening; the family must be that of ctx->sock_desc; then the v4      *)
(* branch matches on equal ports and the v6 branch on different ports     *)
(* (line 959).                                                            *)
(***************************************************************************)
SameListener(i) ==
    /\ cands[i].kind = "listen"
    /\ cands[i].family = staged.family
    /\ CASE cands[i].family = "v4" -> cands[i].port = staged.port
         [] cands[i].family = "v6" -> cands[i].port # staged.port

(* Lines 909-967: the first candidate handle, scanning down from the     *)
(* socket, that is a matching listener; 0 when none is.                   *)
FirstListener ==
    IF \E i \in 1..Window : SameListener(i)
    THEN CHOOSE i \in 1..Window : SameListener(i) /\ \A j \in 1..(i - 1) : ~SameListener(j)
    ELSE 0

(* Variant that closes the last handle scanned also when none matched.    *)
InferStagedConnectionTypeCloseAlways ==
    /\ ~probed
    /\ LET m == FirstListener
       IN /\ fd' = "staged"
          /\ bound' = (m # 0)
          /\ desc' = IF m # 0 THEN ListenAddr(m) ELSE PeerAddr
          /\ closed' = IF m # 0 THEN {m} ELSE {Window}
    /\ probed' = TRUE
    /\ UNCHANGED <<staged, cands>>

(***************************************************************************)
(* Lines 872-996, as one step: record the socket and its local address    *)
(* (getsockname), scan, and on a match record the listener's address and  *)
(* close the listener; otherwise record the peer's address (getpeername). *)
(***************************************************************************)
InferStagedConnectionType ==
    /\ ~probed
    /\ LET m == FirstListener
       IN /\ fd' = "staged"
          /\ bound' = (m # 0)
          /\ desc' = IF m # 0 THEN ListenAddr(m) ELSE PeerAddr
          /\ closed' = IF m # 0 THEN {m} ELSE {}
    /\ probed' = TRUE
    /\ UNCHANGED <<staged, cands>>

(* The prober runs once per handed-over socket. *)
Done ==
    /\ probed
    /\ UNCHANGED vars

Next == InferStagedConnectionType \/ Done

Spec == Init /\ [][Next]_vars

-----------------------------------------------------------------------------
(***************************************************************************)
(* The inference recovers the shape of the stager's connection as spec    *)
(* section 4.3 describes it: bound exactly when the stager left a         *)
(* listener of the socket's family and port within the window, and then   *)
(* a reconnect binds to that listener's address; otherwise it connects    *)
(* back to the peer.                                                      *)
(***************************************************************************)
InferAsSpecified ==
    probed =>
        /\ bound = StagerWasBind
        /\ desc = IF StagerWasBind
                  THEN ListenAddr(CHOOSE i \in 1..Window : IsStager(cands[i]))
                  ELSE PeerAddr

(***************************************************************************)
(* The only handle infer_staged_connection_type closes is the listener    *)
(* the stager leaked: a listener of another component of the process is   *)
(* never closed.                                                          *)
(***************************************************************************)
ClosesOnlyLeakedListener == \A i \in closed : IsStager(cands[i])

=============================================================================
