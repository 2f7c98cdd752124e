---------------------------- MODULE ProberProofs ----------------------------
(***************************************************************************)
(* Proofs about infer_staged_connection_type (lines 872-996) for every    *)
(* window size, set of ports and handle table a stager can leave: for an  *)
(* IPv4 socket the inference recovers the stager's shape as spec section  *)
(* 4.3 says, and closes no listener but the stager's.  For IPv6 the run   *)
(* probe_v6 shows both can fail (the port test of line 959 is inverted).  *)
(***************************************************************************)
EXTENDS InheritanceProber, TLAPS

(***************************************************************************)
(* The strengthening: the handle table is one a stager can leave and      *)
(* never changes, and once the prober has run the context holds what one *)
(* scan computes from it.                                                 *)
(***************************************************************************)
ProbeInv ==
    /\ staged \in [family : StagedFamilies, port : Ports]
    /\ cands \in [1..Window -> Candidate]
    /\ Consistent(staged, cands)
    /\ probed \in BOOLEAN
    /\ ~probed => closed = {}
    /\ probed =>
         LET m == FirstListener
         IN  /\ bound = (m # 0)
             /\ desc = IF m # 0 THEN ListenAddr(m) ELSE PeerAddr
             /\ closed = IF m # 0 THEN {m} ELSE {}

USE ProberAssumption

-----------------------------------------------------------------------------
(***************************************************************************)
(* For an IPv4 socket the loop's tests (lines 918-957) match exactly the  *)
(* listener the stager leaked: a listener of the socket's family matches  *)
(* iff it has the socket's port, and only the stager's listener does.     *)
(***************************************************************************)
LEMMA MatchIsStager ==
  ASSUME staged \in [family : StagedFamilies, port : Ports],
         cands \in [1..Window -> Candidate],
         Consistent(staged, cands),
         staged.family = "v4",
         NEW i \in 1..Window
  PROVE  SameListener(i) <=> IsStager(cands[i])
<1>0. cands[i] \in Candidate
  OBVIOUS
<1>1. CASE cands[i].kind = "listen"
  <2>1. cands[i] \in [kind : {"listen"}, family : Families, port : Ports, stager : BOOLEAN]
    BY <1>0, <1>1 DEF Candidate
  <2>2. SameListener(i) <=> (cands[i].family = "v4" /\ cands[i].port = staged.port)
    BY <1>1, <2>1 DEF SameListener
  <2>3. QED
    BY <1>1, <2>1, <2>2 DEF Consistent, IsStager
<1>2. CASE cands[i].kind # "listen"
  BY <1>2 DEF SameListener, IsStager
<1>3. QED
  BY <1>1, <1>2

(***************************************************************************)
(* Hence the scan stops at the stager's listener when there is one, and   *)
(* finds nothing otherwise.                                               *)
(***************************************************************************)
LEMMA FirstIsStager ==
  ASSUME staged \in [family : StagedFamilies, port : Ports],
         cands \in [1..Window -> Candidate],
         Consistent(staged, cands),
         staged.family = "v4"
  PROVE  /\ (FirstListener # 0) <=> StagerWasBind
         /\ FirstListener # 0 =>
               /\ FirstListener \in 1..Window
               /\ IsStager(cands[FirstListener])
               /\ FirstListener = CHOOSE i \in 1..Window : IsStager(cands[i])
<1>1. \A i \in 1..Window : SameListener(i) <=> IsStager(cands[i])
  BY MatchIsStager
<1>2. CASE StagerWasBind
  <2>1. PICK s \in 1..Window : IsStager(cands[s])
    BY <1>2 DEF StagerWasBind
  <2>2. \A j \in 1..Window : IsStager(cands[j]) => j = s
    BY <2>1 DEF Consistent
  <2>3. /\ SameListener(s)
        /\ \A j \in 1..(s - 1) : ~SameListener(j)
    BY <1>1, <2>1, <2>2
  <2>4. FirstListener =
          CHOOSE i \in 1..Window : SameListener(i) /\ \A j \in 1..(i - 1) : ~SameListener(j)
    BY <2>3 DEF FirstListener
  <2>5. FirstListener = s
    <3>1. /\ FirstListener \in 1..Window
          /\ SameListener(FirstListener)
      BY <2>3, <2>4
    <3>2. QED
      BY <3>1, <1>1, <2>2
  <2>6. (CHOOSE i \in 1..Window : IsStager(cands[i])) = s
    BY <2>1, <2>2
  <2>7. QED
    BY <1>2, <2>1, <2>5, <2>6
<1>3. CASE ~StagerWasBind
  <2>1. ~\E i \in 1..Window : SameListener(i)
    BY <1>1, <1>3 DEF StagerWasBind
  <2>2. QED
    BY <1>3, <2>1 DEF FirstListener
<1>4. QED
  BY <1>2, <1>3

(* The scan yields a scanned handle or 0. *)
LEMMA FirstInRange == FirstListener # 0 => FirstListener \in 1..Window
  BY DEF FirstListener

-----------------------------------------------------------------------------
(* ProbeInv holds in every state, whatever the staged family. *)
THEOREM ProbeInvariant == Spec => []ProbeInv
<1>1. Init => ProbeInv
  BY DEF Init, ProbeInv
<1>2. ProbeInv /\ [Next]_vars => ProbeInv'
  <2> SUFFICES ASSUME ProbeInv, [Next]_vars PROVE ProbeInv'
    OBVIOUS
  <2>1. CASE InferStagedConnectionType
    <3>1. UNCHANGED <<staged, cands>> /\ probed'
      BY <2>1 DEF InferStagedConnectionType
    <3>2. /\ FirstListener' = FirstListener
          /\ PeerAddr' = PeerAddr
          /\ \A i \in 1..Window : ListenAddr(i)' = ListenAddr(i)
      BY <3>1 DEF FirstListener, SameListener, PeerAddr, ListenAddr
    <3>3. /\ bound' = (FirstListener # 0)
          /\ desc' = IF FirstListener # 0 THEN ListenAddr(FirstListener) ELSE PeerAddr
          /\ closed' = IF FirstListener # 0 THEN {FirstListener} ELSE {}
      BY <2>1 DEF InferStagedConnectionType
    <3>4. FirstListener # 0 => ListenAddr(FirstListener)' = ListenAddr(FirstListener)
      BY FirstInRange, <3>2
    <3>5. QED
      BY <3>1, <3>2, <3>3, <3>4 DEF ProbeInv
  <2>2. CASE Done \/ UNCHANGED vars
    <3>1. UNCHANGED vars
      BY <2>2 DEF Done
    <3>2. /\ FirstListener' = FirstListener
          /\ PeerAddr' = PeerAddr
          /\ \A i \in 1..Window : ListenAddr(i)' = ListenAddr(i)
      BY <3>1 DEF vars, FirstListener, SameListener, PeerAddr, ListenAddr
    <3>3. Consistent(staged, cands)'
      BY <3>1 DEF vars, Consistent, IsStager, ProbeInv
    <3>4. /\ staged' = staged /\ cands' = cands /\ probed' = probed
          /\ bound' = bound /\ desc' = desc /\ closed' = closed
      BY <3>1 DEF vars
    <3>5. QED
      BY <3>2, <3>3, <3>4, FirstInRange DEF ProbeInv
  <2>3. QED
    BY <2>1, <2>2 DEF Next
<1>3. QED
  BY <1>1, <1>2, PTL DEF Spec

(***************************************************************************)
(* When the handed-over socket is IPv4, infer_staged_connection_type      *)
(* recovers the stager's shape for every window and handle table: bound  *)
(* exactly when the stager's listener is among the scanned handles, with *)
(* that listener's address, and the peer's address otherwise.            *)
(***************************************************************************)
THEOREM InferCorrectV4 ==
  ASSUME StagedFamilies = {"v4"}
  PROVE  Spec => []InferAsSpecified
<1>1. ProbeInv => InferAsSpecified
  <2> SUFFICES ASSUME ProbeInv, probed PROVE InferAsSpecified
    BY DEF InferAsSpecified
  <2>1. staged.family = "v4"
    BY DEF ProbeInv
  <2>2. /\ bound = (FirstListener # 0)
        /\ desc = IF FirstListener # 0 THEN ListenAddr(FirstListener) ELSE PeerAddr
    BY DEF ProbeInv
  <2>3. /\ (FirstListener # 0) <=> StagerWasBind
        /\ FirstListener # 0 =>
              FirstListener = CHOOSE i \in 1..Window : IsStager(cands[i])
    BY <2>1, FirstIsStager DEF ProbeInv
  <2>4. CASE StagerWasBind
    BY <2>2, <2>3, <2>4, Zenon DEF InferAsSpecified
  <2>5. CASE ~StagerWasBind
    <3>1. FirstListener = 0
      BY <2>3, <2>5
    <3>2. bound = FALSE /\ desc = PeerAddr
      BY <3>1, <2>2
    <3>3. QED
      BY <3>2, <2>5 DEF InferAsSpecified, StagerWasBind
  <2>6. QED
    BY <2>4, <2>5
<1>2. QED
  BY <1>1, ProbeInvariant, PTL

(***************************************************************************)
(* When the handed-over socket is IPv4, the prober closes no handle but  *)
(* the listener the stager leaked.                                       *)
(***************************************************************************)
THEOREM ClosesOnlyStagerV4 ==
  ASSUME StagedFamilies = {"v4"}
  PROVE  Spec => []ClosesOnlyLeakedListener
<1>1. ProbeInv => ClosesOnlyLeakedListener
  BY FirstIsStager DEF ProbeInv, ClosesOnlyLeakedListener
<1>2. QED
  BY <1>1, ProbeInvariant, PTL

=============================================================================
