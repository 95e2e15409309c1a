---------------------------- MODULE BridgeProofs ----------------------------
(***************************************************************************)
(* Proofs about Bridge for both transports and every bound.                *)
(***************************************************************************)
EXTENDS Bridge, TLAPS

(* Where bytes and frames can wait, by the place each pump is in.          *)
UpHolds ==
  /\ (up = "done") <=> (upEnd # "none")
  /\ up = "flush" => client = "eof" /\ inbox = 0 /\ held = 0
  /\ up \in {"check", "read"} => outbox = 0
  /\ up = "send" => outbox > 0
  /\ upEnd = "eof" => client = "eof"
  /\ outbox + held <= Kept + Window

DownHolds ==
  /\ (down = "done") <=> (downEnd # "none")
  /\ down \in {"check", "recv", "pong", "bye"} => owed = 0
  /\ down = "write" => owed = 1

(* Only Recv of a Close frame and the last Close mark a transport closed.  *)
ClosedRight ==
  /\ kind = "direct" /\ main # "ended" => ~closed
  /\ main = "ended" => closed

(* wg.Wait: the handler goes on when both pumps are done.                  *)
Joined == main # "wait" => up = "done" /\ down = "done"

BridgeInv ==
  /\ TypeOK /\ UpHolds /\ DownHolds /\ ClosedRight
  /\ Joined /\ UpComplete /\ DownComplete

-----------------------------------------------------------------------------
(* It holds before the first read.                                         *)
LEMMA BridgeInit == Init => BridgeInv
<1> SUFFICES ASSUME Init PROVE BridgeInv OBVIOUS
<1>1. PeersTyped
  <2>1. wire \in Seq(Frames \cup {"fin", "rst"}) BY DEF Init
  <2> QED BY <2>1, BridgeAssumption DEF Init, PeersTyped
<1>2. UpTyped /\ DownTyped /\ SessionTyped
  <2>1. UpTyped
    <3>1. 0 \in 0..Kept /\ 0 \in 0..(Kept + Window) BY BridgeAssumption
    <3> QED BY <3>1 DEF Init, UpTyped
  <2>2. DownTyped BY DEF Init, DownTyped
  <2>3. SessionTyped BY DEF Init, SessionTyped
  <2> QED BY <2>1, <2>2, <2>3
<1>3. UpHolds /\ UpComplete BY BridgeAssumption DEF Init, UpHolds, UpComplete
<1>4. DownHolds /\ DownComplete BY DEF Init, DownHolds, DownComplete
<1>5. ClosedRight /\ Joined BY DEF Init, ClosedRight, Joined
<1> QED BY <1>1, <1>2, <1>3, <1>4, <1>5 DEF BridgeInv, TypeOK

(* Bytes cut and bytes kept are together what was kept and what was read.  *)
LEMMA CutFits ==
  ASSUME NEW h \in Nat, NEW i \in Nat, NEW n \in Nat, NEW k \in Nat,
         NEW H \in Nat, NEW I \in Nat, h <= H, i <= I, n <= i, k <= h + n
  PROVE  h + n - k \in 0..(H + I) /\ (h + n - k) + k <= H + I
OBVIOUS

(* The transport of a session does not change, nor do the frames it has.   *)
LEMMA KindStays == [Next]_vars => kind' = kind /\ Frames' = Frames
<1> SUFFICES ASSUME [Next]_vars PROVE kind' = kind
  BY DEF Frames
<1> USE DEF mainVars
<1>1. CASE Peers \/ Stop BY <1>1 DEF Peers, Stop
<1>2. CASE Up BY <1>2 DEF Up, UpCheck, UpRead, UpEOF, UpReadFails, UpSend, UpFlush
<1>3. CASE Down
  BY <1>3 DEF Down, DownCheck, RecvData, RecvControl, RecvClose, Answer, RecvEnds, DownWrite
<1>4. CASE RunReturns \/ CloseTransport BY <1>4 DEF RunReturns, CloseTransport
<1>5. CASE UNCHANGED vars BY <1>5 DEF vars
<1> QED BY <1>1, <1>2, <1>3, <1>4, <1>5 DEF Next

(* What the peers hold keeps its type.                                     *)
LEMMA PeersStep == PeersTyped /\ [Next]_vars => PeersTyped'
<1> SUFFICES ASSUME PeersTyped, [Next]_vars PROVE PeersTyped' OBVIOUS
<1> USE BridgeAssumption DEF clientVars, dcVars
<1>0. Frames' = Frames BY KindStays
<1>1. CASE Peers
  <2>1. CASE ClientSends /\ UNCHANGED dcVars BY <1>0, <2>1 DEF ClientSends, PeersTyped
  <2>2. CASE (ClientLeaves \/ ClientStalls) /\ UNCHANGED dcVars
    BY <1>0, <2>2 DEF ClientLeaves, ClientStalls, PeersTyped
  <2>3. CASE (DCSends \/ DCLeaves) /\ UNCHANGED clientVars
    <3>1. wire' \in Seq(Frames \cup {"fin", "rst"})
      BY <2>3 DEF DCSends, DCLeaves, PeersTyped
    <3>2. dc' \in {"open", "gone"} /\ dcReads' = dcReads
      BY <2>3 DEF DCSends, DCLeaves
    <3> QED BY <1>0, <2>3, <3>1, <3>2 DEF PeersTyped
  <2>4. CASE DCStalls /\ UNCHANGED clientVars BY <1>0, <2>4 DEF DCStalls, PeersTyped
  <2> QED BY <1>1, <2>1, <2>2, <2>3, <2>4 DEF Peers
<1>2. CASE UpRead BY <1>0, <1>2 DEF UpRead, PeersTyped
<1>3. ASSUME NEW f, TakeFrame(f), UNCHANGED clientVars PROVE PeersTyped'
  BY <1>0, <1>3 DEF TakeFrame, PeersTyped
<1>4. CASE UNCHANGED <<clientVars, dcVars>> BY <1>0, <1>4 DEF PeersTyped
<1>5. CASE Up
  BY <1>2, <1>4, <1>5 DEF Up, UpCheck, UpEOF, UpReadFails, UpSend, UpFlush
<1>6. CASE Down
  BY <1>3, <1>4, <1>6
     DEF Down, DownCheck, RecvData, RecvControl, RecvClose, Answer, RecvEnds, DownWrite
<1> QED BY <1>1, <1>4, <1>5, <1>6 DEF Next, vars, Stop, RunReturns, CloseTransport

(* What the upward pump holds, and that EOF leaves nothing behind.         *)
LEMMA UpStep ==
  PeersTyped /\ UpTyped /\ UpHolds /\ UpComplete /\ [Next]_vars
    => UpTyped' /\ UpHolds' /\ UpComplete'
<1> SUFFICES ASSUME PeersTyped, UpTyped, UpHolds, UpComplete, [Next]_vars
             PROVE  UpTyped' /\ UpHolds' /\ UpComplete'
  OBVIOUS
<1> USE DEF UpTyped, UpHolds, UpComplete, clientVars, upVars, UpReturns
<1>1. inbox \in Nat /\ inbox <= Window /\ Window \in Nat /\ Kept \in Nat
  BY BridgeAssumption DEF PeersTyped
<1>2. CASE Peers
  <2>1. CASE ClientSends
    <3>1. client = "open" /\ client' = client BY <2>1 DEF ClientSends
    <3>2. inbox < Window BY <2>1 DEF ClientSends
    <3>3. UNCHANGED upVars BY <1>2, <2>1 DEF Peers
    <3> QED BY <2>1, <3>1, <3>2, <3>3
  <2>2. CASE ClientLeaves \/ ClientStalls
    BY <1>2, <2>2 DEF Peers, ClientLeaves, ClientStalls
  <2>3. CASE UNCHANGED clientVars BY <1>2, <2>3 DEF Peers
  <2> QED BY <1>2, <2>1, <2>2, <2>3 DEF Peers
<1>3. CASE UpCheck BY <1>3 DEF UpCheck
<1>4. CASE UpRead
  <2>1. PICK n \in 1..inbox :
           /\ inbox' = inbox - n
           /\ held' \in {k \in 0..Kept : k <= held + n}
           /\ outbox' = held + n - held'
    BY <1>4 DEF UpRead
  <2>2. /\ held' \in Nat /\ held' <= Kept /\ held' <= held + n
        /\ outbox' = held + n - held'
    BY ONLY <2>1, <1>1
  <2>3. /\ held \in Nat /\ n \in Nat /\ n <= inbox
        /\ held <= Kept
    <3>1. n \in Nat /\ n <= inbox BY ONLY <2>1, <1>1
    <3>2. held \in Nat /\ held <= Kept BY ONLY <1>1, UpTyped DEF UpTyped
    <3> QED BY <3>1, <3>2
  <2>4. outbox' \in 0..(Kept + Window) /\ outbox' + held' <= Kept + Window
    <3>1. /\ held + n - held' \in 0..(Kept + Window)
          /\ (held + n - held') + held' <= Kept + Window
      BY ONLY <1>1, <2>2, <2>3, CutFits
    <3> QED BY ONLY <2>2, <3>1
  <2>5. /\ up' = (IF outbox' = 0 THEN "check" ELSE "send")
        /\ upEnd' = upEnd /\ up = "read" /\ upEnd = "none"
    BY <1>4 DEF UpRead
  <2>6. outbox' = 0 \/ outbox' > 0 BY <2>4
  <2>7. held' \in 0..Kept BY <2>2, <1>1
  <2> QED BY <2>4, <2>5, <2>6, <2>7
<1>5. CASE UpEOF BY <1>1, <1>5 DEF UpEOF
<1>6. CASE UpReadFails BY <1>6 DEF UpReadFails
<1>7. CASE UpSend
  <2>1. outbox \in Nat /\ outbox > 0 /\ held \in Nat BY <1>1, <1>7 DEF UpSend
  <2> QED BY <1>1, <1>7, <2>1 DEF UpSend
<1>8. CASE UpFlush BY <1>1, <1>8 DEF UpFlush
<1>9. CASE UNCHANGED <<upVars, clientVars>> BY <1>9
<1>10. CASE Down
  BY <1>9, <1>10
     DEF Down, DownCheck, RecvData, RecvControl, RecvClose, Answer, RecvEnds, DownWrite
<1> QED BY <1>2, <1>3, <1>4, <1>5, <1>6, <1>7, <1>8, <1>9, <1>10
        DEF Next, vars, Up, Stop, RunReturns, CloseTransport

(* The downward pump keeps its invariant (bridge.go:153-201).              *)
LEMMA DownStep ==
  DownTyped /\ DownHolds /\ DownComplete /\ [Next]_vars
    => DownTyped' /\ DownHolds' /\ DownComplete'
<1> SUFFICES ASSUME DownTyped, DownHolds, DownComplete, [Next]_vars
             PROVE  DownTyped' /\ DownHolds' /\ DownComplete'
  OBVIOUS
<1> USE DEF DownReturns, DownTyped, DownHolds, DownComplete, downVars
<1>1. CASE DownCheck BY <1>1 DEF DownCheck
<1>2. CASE RecvData BY <1>2 DEF RecvData, TakeFrame
<1>3. CASE RecvControl BY <1>3 DEF RecvControl, TakeFrame
<1>4. CASE RecvClose BY <1>4 DEF RecvClose, TakeFrame
<1>5. CASE Answer BY <1>5 DEF Answer
<1>6. CASE RecvEnds BY <1>6 DEF RecvEnds, TakeFrame
<1>7. CASE DownWrite BY <1>7 DEF DownWrite
<1>8. CASE UNCHANGED downVars BY <1>8
<1>9. CASE Peers \/ Up \/ Stop \/ RunReturns \/ CloseTransport
  BY <1>8, <1>9 DEF Up, Peers, Stop, UpCheck, UpRead, UpEOF, UpReadFails,
                    UpSend, UpFlush, RunReturns, CloseTransport
<1> QED BY <1>1, <1>2, <1>3, <1>4, <1>5, <1>6, <1>7, <1>8, <1>9
        DEF Next, vars, Down

(* No pump leaves "done", so what the session waited for stays true.       *)
LEMMA EndStep ==
  PeersTyped /\ SessionTyped /\ ClosedRight /\ Joined /\ [Next]_vars
    => SessionTyped' /\ Joined' /\ ClosedRight'
<1> SUFFICES ASSUME PeersTyped, SessionTyped, ClosedRight, Joined, [Next]_vars
             PROVE  SessionTyped' /\ Joined' /\ ClosedRight'
  OBVIOUS
<1> USE DEF SessionTyped, UpReturns, DownReturns, Joined, ClosedRight,
            upVars, downVars, mainVars
<1> DEFINE Quiet ==
      /\ main' = main /\ socket' = socket /\ closed' = closed
      /\ cancelled' \in BOOLEAN
      /\ up = "done" => up' = "done"
      /\ down = "done" => down' = "done"
<1>k. kind' = kind BY KindStays
<1>0. CASE Quiet BY <1>0, <1>k
<1> HIDE DEF Joined, ClosedRight
<1>1. ASSUME Peers \/ Stop PROVE Quiet BY <1>1 DEF Peers, Stop
<1>2. ASSUME Up PROVE Quiet
  <2>1. CASE UpCheck BY <2>1 DEF UpCheck
  <2>2. CASE UpRead BY <2>2 DEF UpRead
  <2>3. CASE UpEOF BY <2>3 DEF UpEOF
  <2>4. CASE UpReadFails BY <2>4 DEF UpReadFails
  <2>5. CASE UpSend BY <2>5 DEF UpSend
  <2>6. CASE UpFlush BY <2>6 DEF UpFlush
  <2> QED BY ONLY <1>2, <2>1, <2>2, <2>3, <2>4, <2>5, <2>6 DEF Up
<1>3. ASSUME DownCheck \/ RecvData \/ RecvControl \/ Answer \/ RecvEnds \/ DownWrite
      PROVE  Quiet
  <2>1. CASE DownCheck BY <2>1 DEF DownCheck
  <2>2. CASE RecvData BY <2>2 DEF RecvData, TakeFrame
  <2>3. CASE RecvControl BY <2>3 DEF RecvControl, TakeFrame
  <2>4. CASE Answer BY <2>4 DEF Answer
  <2>5. CASE RecvEnds BY <2>5 DEF RecvEnds, TakeFrame
  <2>6. CASE DownWrite BY <2>6 DEF DownWrite
  <2> QED BY ONLY <1>3, <2>1, <2>2, <2>3, <2>4, <2>5, <2>6
<1> USE DEF Joined, ClosedRight
<1> HIDE DEF Quiet
<1>4. CASE RecvClose
  <2>1. kind # "direct"
    <3>1. Head(wire) = "close" /\ wire # <<>> BY <1>4 DEF RecvClose, TakeFrame
    <3>2. Head(wire) \in Frames \cup {"fin", "rst"} BY <3>1 DEF PeersTyped
    <3> QED BY <3>1, <3>2 DEF Frames
  <2> QED BY <1>k, <1>4, <2>1 DEF RecvClose, TakeFrame
<1>5. CASE RunReturns BY <1>k, <1>5 DEF RunReturns
<1>6. CASE CloseTransport
  <2>1. socket' \in BOOLEAN BY <1>6 DEF CloseTransport
  <2> QED BY <1>k, <1>6, <2>1 DEF CloseTransport
<1>7. CASE UNCHANGED vars BY <1>7 DEF vars
<1> QED BY <1>0, <1>1, <1>2, <1>3, <1>4, <1>5, <1>6, <1>7 DEF Next, Down

(* Every step of a session keeps the invariant.                            *)
LEMMA BridgeStep == BridgeInv /\ [Next]_vars => BridgeInv'
BY PeersStep, UpStep, DownStep, EndStep DEF BridgeInv, TypeOK

(* So it holds throughout.                                                 *)
LEMMA BridgeAlways == Spec => []BridgeInv
BY BridgeInit, BridgeStep, PTL DEF Spec

-----------------------------------------------------------------------------
(* Every variable keeps its type.                                          *)
THEOREM TypeCorrect == Spec => []TypeOK
BY BridgeAlways, PTL DEF BridgeInv

(* A clean EOF of the client leaves no byte of it behind.                  *)
THEOREM NothingLeftUpward == Spec => []UpComplete
BY BridgeAlways, PTL DEF BridgeInv

(* A frame taken from the DC is written before the pump can end by itself. *)
THEOREM NothingLeftDownward == Spec => []DownComplete
BY BridgeAlways, PTL DEF BridgeInv

(* On plain TCP the end of a session always closes its socket.             *)
THEOREM DirectCloses == Spec => []DirectSocketClosed
<1>1. Init => DirectSocketClosed BY DEF Init, DirectSocketClosed
<1>2. BridgeInv /\ DirectSocketClosed /\ [Next]_vars => DirectSocketClosed'
  <2> SUFFICES ASSUME BridgeInv, DirectSocketClosed, [Next]_vars
               PROVE  DirectSocketClosed'
    OBVIOUS
  <2> USE DEF DirectSocketClosed, mainVars
  <2>1. CASE CloseTransport
    BY <2>1 DEF CloseTransport, BridgeInv, ClosedRight
  <2>2. CASE RunReturns BY <2>2 DEF RunReturns
  <2>3. CASE UNCHANGED mainVars BY <2>3
  <2> QED BY <2>1, <2>2, <2>3
          DEF Next, vars, Peers, Stop, Up, UpCheck, UpRead, UpEOF, UpReadFails,
              UpSend, UpFlush, Down, DownCheck, RecvData, RecvControl, RecvClose,
              Answer, RecvEnds, DownWrite
<1> QED BY <1>1, <1>2, BridgeAlways, PTL DEF Spec
=============================================================================
