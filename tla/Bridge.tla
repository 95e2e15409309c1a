------------------------------- MODULE Bridge -------------------------------
(***************************************************************************)
(* One session: Bridge.Run (internal/bridge/bridge.go) with its two pumps, *)
(* the transport they share (websocket.Client or DirectClient) and the end *)
(* of handleClient, which closes transport and client connection.          *)
(*                                                                         *)
(* Bytes are counted where they wait and not looked at: in the client's    *)
(* socket, in the splitter (module Splitter says what it does with them),  *)
(* cut but not sent, received but not written.  A peer that stops reading  *)
(* stops for good; a pause is a step taken later.  The context is looked   *)
(* at only between two items, and a read, a write or a Recv that blocks    *)
(* ends only by data, by the peer, or by a deadline where the code sets    *)
(* one: the WebSocket has none after its handshake (clearDeadlines).       *)
(***************************************************************************)
EXTENDS Naturals, Sequences

CONSTANTS
  Kinds,      \* transports a session may have: "ws", "direct" or both
  Window,     \* most bytes waiting in the client's socket (bound)
  Kept,       \* most bytes kept by the splitter (bound)
  Wire        \* most frames on the way from the DC (bound)

ASSUME BridgeAssumption ==
  /\ Kinds \subseteq {"ws", "direct"}
  /\ Window \in Nat /\ Kept \in Nat /\ Wire \in Nat

VARIABLES
  client,       \* "open", "eof" (it closed), "reset"
  clientReads,  \* the client takes what it is sent
  inbox,        \* bytes the client sent and the bridge has not read
  dc,           \* "open", "gone" (FIN or reset behind the frames on the wire)
  dcReads,      \* the DC takes what it is sent
  wire,         \* what the DC sent and Recv has not read
  up,           \* the pump tcpToWS
  held,         \* bytes the splitter keeps
  outbox,       \* bytes cut by the splitter that the pump has to Send
  upEnd,        \* how tcpToWS ended
  down,         \* the pump wsToTCP
  owed,         \* frames received and not yet written to the client
  downEnd,      \* how wsToTCP ended
  cancelled,    \* ctx of Run
  closed,       \* c.closed of the transport
  kind,         \* the transport handleClient gave to the bridge
  socket,       \* the transport's socket is open
  main          \* handleClient: "wait", "close", "ended"

clientVars == <<client, clientReads, inbox>>
dcVars == <<dc, dcReads, wire>>
upVars == <<up, held, outbox, upEnd>>
downVars == <<down, owed, downEnd>>
mainVars == <<kind, socket, main>>
vars == <<clientVars, dcVars, upVars, downVars, cancelled, closed, mainVars>>

(* A Text, Pong or unknown frame is read and dropped: "other".             *)
Frames == IF kind = "ws" THEN {"bin", "ping", "other", "close"} ELSE {"bin"}

Init ==
  /\ client = "open" /\ clientReads = TRUE /\ inbox = 0
  /\ dc = "open" /\ dcReads = TRUE /\ wire = <<>>
  /\ up = "check" /\ held = 0 /\ outbox = 0 /\ upEnd = "none"
  /\ down = "check" /\ owed = 0 /\ downEnd = "none"
  /\ cancelled = FALSE
  /\ closed = FALSE
  /\ kind \in Kinds
  /\ socket = TRUE
  /\ main = "wait"

-----------------------------------------------------------------------------
(* The client and the DC do what they like.                                *)
ClientSends ==
  /\ client = "open"
  /\ inbox < Window
  /\ inbox' = inbox + 1
  /\ UNCHANGED <<client, clientReads>>

ClientLeaves ==
  /\ client = "open"
  /\ client' \in {"eof", "reset"}
  /\ UNCHANGED <<clientReads, inbox>>

ClientStalls ==
  /\ clientReads
  /\ clientReads' = FALSE
  /\ UNCHANGED <<client, inbox>>

DCSends ==
  /\ dc = "open"
  /\ Len(wire) < Wire
  /\ \E f \in Frames :
       /\ wire' = Append(wire, f)
       /\ dc' = IF f = "close" THEN "gone" ELSE "open"
  /\ UNCHANGED dcReads

DCLeaves ==
  /\ dc = "open"
  /\ dc' = "gone"
  /\ \E f \in {"fin", "rst"} : wire' = Append(wire, f)
  /\ UNCHANGED dcReads

DCStalls ==
  /\ dcReads
  /\ dcReads' = FALSE
  /\ UNCHANGED <<dc, wire>>

Peers ==
  \/ /\ ClientSends \/ ClientLeaves \/ ClientStalls
     /\ UNCHANGED <<dcVars, upVars, downVars, cancelled, closed, mainVars>>
  \/ /\ DCSends \/ DCLeaves \/ DCStalls
     /\ UNCHANGED <<clientVars, upVars, downVars, cancelled, closed, mainVars>>

(* Server.Stop cancels the context of every handler.                       *)
Stop ==
  /\ ~cancelled
  /\ cancelled' = TRUE
  /\ UNCHANGED <<clientVars, dcVars, upVars, downVars, closed, mainVars>>

-----------------------------------------------------------------------------
(* Transport.Send of one part, as the pump sees it.  c.closed is a plain   *)
(* bool: while Recv sets it (only a Close frame does, as long as the pumps *)
(* run) Send may read the old value and write all the same.                *)
SendOK == dcReads

SendFails == closed \/ dc = "gone" \/ (kind = "direct" /\ ~dcReads)

(* tcpToWS.  Its deferred cancel is part of every return.                  *)
UpReturns(end) ==
  /\ up' = "done"
  /\ upEnd' = end
  /\ cancelled' = TRUE

(* Mutant: the select on ctx.Done is left out.                             *)
UpIgnoresCancel ==
  /\ up = "check"
  /\ up' = "read"
  /\ UNCHANGED <<held, outbox, upEnd, cancelled>>
  /\ UNCHANGED <<clientVars, dcVars, downVars, closed, mainVars>>

UpCheck ==
  /\ up = "check"
  /\ \/ cancelled /\ UpReturns("cancelled")
     \/ ~cancelled /\ up' = "read" /\ UNCHANGED <<upEnd, cancelled>>
  /\ UNCHANGED <<held, outbox>>
  /\ UNCHANGED <<clientVars, dcVars, downVars, closed, mainVars>>

(* Read and Split: some of the bytes now held are cut, the others kept.    *)
UpRead ==
  /\ up = "read"
  /\ client # "reset"
  /\ \E n \in 1..inbox :
       /\ inbox' = inbox - n
       /\ held' \in {k \in 0..Kept : k <= held + n}
       /\ outbox' = held + n - held'
  /\ up' = IF outbox' = 0 THEN "check" ELSE "send"
  /\ UNCHANGED <<client, clientReads, upEnd, cancelled>>
  /\ UNCHANGED <<dcVars, downVars, closed, mainVars>>

(* Mutant: the pump ends at EOF without flushing the splitter.             *)
UpEndsUnflushed ==
  /\ up = "read" /\ client = "eof" /\ inbox = 0
  /\ UpReturns("eof")
  /\ UNCHANGED <<held, outbox>>
  /\ UNCHANGED <<clientVars, dcVars, downVars, closed, mainVars>>

UpEOF ==
  /\ up = "read" /\ client = "eof" /\ inbox = 0
  /\ up' = "flush"
  /\ held' = 0
  /\ outbox' = held
  /\ UNCHANGED <<upEnd, cancelled>>
  /\ UNCHANGED <<clientVars, dcVars, downVars, closed, mainVars>>

(* The client reset the connection, or sent nothing for five minutes.      *)
UpReadFails ==
  /\ up = "read"
  /\ client = "reset" \/ (client = "open" /\ inbox = 0)
  /\ UpReturns("error")
  /\ UNCHANGED <<held, outbox>>
  /\ UNCHANGED <<clientVars, dcVars, downVars, closed, mainVars>>

UpSend ==
  /\ up = "send"
  /\ \/ /\ SendOK
        /\ outbox' = outbox - 1
        /\ up' = IF outbox' = 0 THEN "check" ELSE "send"
        /\ UNCHANGED <<upEnd, cancelled>>
     \/ SendFails /\ UpReturns("error") /\ UNCHANGED outbox
  /\ UNCHANGED held
  /\ UNCHANGED <<clientVars, dcVars, downVars, closed, mainVars>>

(* The flush ignores the result of Send.                                   *)
UpFlush ==
  /\ up = "flush"
  /\ \/ outbox > 0 /\ SendOK /\ outbox' = 0 /\ UpReturns("eof")
     \/ outbox > 0 /\ SendFails /\ UNCHANGED outbox /\ UpReturns("lost")
     \/ outbox = 0 /\ UNCHANGED outbox /\ UpReturns("eof")
  /\ UNCHANGED held
  /\ UNCHANGED <<clientVars, dcVars, downVars, closed, mainVars>>

Up == UpCheck \/ UpRead \/ UpEOF \/ UpReadFails \/ UpSend \/ UpFlush

-----------------------------------------------------------------------------
(* wsToTCP.                                                                *)
DownReturns(end) ==
  /\ down' = "done"
  /\ downEnd' = end
  /\ cancelled' = TRUE

(* Mutant: the select on ctx.Done is left out.                             *)
DownIgnoresCancel ==
  /\ down = "check"
  /\ down' = "recv"
  /\ UNCHANGED <<owed, downEnd, cancelled>>
  /\ UNCHANGED <<clientVars, dcVars, upVars, closed, mainVars>>

DownCheck ==
  /\ down = "check"
  /\ \/ cancelled /\ DownReturns("cancelled")
     \/ ~cancelled /\ down' = "recv" /\ UNCHANGED <<downEnd, cancelled>>
  /\ UNCHANGED owed
  /\ UNCHANGED <<clientVars, dcVars, upVars, closed, mainVars>>

TakeFrame(f) ==
  /\ down = "recv"
  /\ wire # <<>>
  /\ Head(wire) = f
  /\ wire' = Tail(wire)
  /\ UNCHANGED <<dc, dcReads>>

(* Mutant: a frame that arrives after cancel is dropped.                   *)
RecvDataUnlessCancelled ==
  /\ TakeFrame("bin")
  /\ owed' = owed + 1
  /\ IF cancelled THEN DownReturns("cancelled")
                  ELSE down' = "write" /\ UNCHANGED <<downEnd, cancelled>>
  /\ UNCHANGED <<clientVars, upVars, closed, mainVars>>

(* Mutant: Recv goes on reading after a data frame.                        *)
RecvDataLoops ==
  /\ TakeFrame("bin")
  /\ owed' = owed + 1
  /\ UNCHANGED <<down, downEnd, cancelled>>
  /\ UNCHANGED <<clientVars, upVars, closed, mainVars>>

RecvData ==
  /\ TakeFrame("bin")
  /\ owed' = owed + 1
  /\ down' = "write"
  /\ UNCHANGED <<downEnd, cancelled>>
  /\ UNCHANGED <<clientVars, upVars, closed, mainVars>>

(* A control frame does not end Recv; a ping is answered first.            *)
RecvControl ==
  /\ \/ TakeFrame("ping") /\ down' = "pong"
     \/ TakeFrame("other") /\ down' = "recv"
  /\ UNCHANGED <<owed, downEnd, cancelled>>
  /\ UNCHANGED <<clientVars, upVars, closed, mainVars>>

(* Mutant: a Close frame is marked and answered, and Recv reads on.        *)
RecvCloseStays ==
  /\ TakeFrame("close")
  /\ closed' = TRUE
  /\ down' = "pong"
  /\ UNCHANGED <<owed, downEnd, cancelled>>
  /\ UNCHANGED <<clientVars, upVars, mainVars>>

RecvClose ==
  /\ TakeFrame("close")
  /\ closed' = TRUE
  /\ down' = "bye"
  /\ UNCHANGED <<owed, downEnd, cancelled>>
  /\ UNCHANGED <<clientVars, upVars, mainVars>>

(* The pong and the answer to a Close frame are frames like any other: the *)
(* DC has to take them, or the connection has to be gone.                  *)
Answer ==
  /\ dcReads \/ dc = "gone"
  /\ \/ /\ down = "pong"
        /\ down' = "recv"
        /\ UNCHANGED <<downEnd, cancelled>>
     \/ down = "bye" /\ DownReturns("eof")
  /\ UNCHANGED owed
  /\ UNCHANGED <<clientVars, dcVars, upVars, closed, mainVars>>

(* The DC's FIN, its reset, or five minutes of silence on plain TCP.       *)
RecvEnds ==
  /\ \/ TakeFrame("fin") /\ DownReturns("eof")
     \/ TakeFrame("rst") /\ DownReturns("error")
     \/ /\ kind = "direct" /\ down = "recv" /\ wire = <<>>
        /\ DownReturns("error")
        /\ UNCHANGED dcVars
  /\ UNCHANGED owed
  /\ UNCHANGED <<clientVars, upVars, closed, mainVars>>

(* Write to the client, at most 30 seconds.                                *)
DownWrite ==
  /\ down = "write"
  /\ \/ /\ clientReads /\ client # "reset"
        /\ owed' = owed - 1
        /\ down' = "check"
        /\ UNCHANGED <<downEnd, cancelled>>
     \/ /\ ~clientReads \/ client # "open"
        /\ UNCHANGED owed
        /\ DownReturns("unwritten")
  /\ UNCHANGED <<clientVars, dcVars, upVars, closed, mainVars>>

Down ==
  \/ DownCheck \/ RecvData \/ RecvControl \/ RecvClose \/ Answer \/ RecvEnds
  \/ DownWrite

-----------------------------------------------------------------------------
RunReturns ==
  /\ main = "wait"
  /\ up = "done" /\ down = "done"
  /\ main' = "close"
  /\ cancelled' = TRUE
  /\ UNCHANGED <<clientVars, dcVars, upVars, downVars, closed, kind, socket>>

(* handleClient's deferred transport.Close and conn.Close.  A transport    *)
(* already marked closed is left as it is; a WebSocket sends a last frame. *)
CloseTransport ==
  /\ main = "close"
  /\ closed \/ kind = "direct" \/ dcReads \/ dc = "gone"
  /\ closed' = TRUE
  /\ socket' = (socket /\ closed)
  /\ main' = "ended"
  /\ UNCHANGED <<clientVars, dcVars, upVars, downVars, cancelled, kind>>

Next == Peers \/ Stop \/ Up \/ Down \/ RunReturns \/ CloseTransport

Spec == Init /\ [][Next]_vars

(* The three goroutines run when they can and deadlines expire; the peers  *)
(* and Stop promise nothing.                                               *)
Fairness ==
  WF_vars(Up) /\ WF_vars(Down) /\ WF_vars(RunReturns) /\ WF_vars(CloseTransport)

FairSpec == Spec /\ Fairness

-----------------------------------------------------------------------------
PeersTyped ==
  /\ client \in {"open", "eof", "reset"}
  /\ clientReads \in BOOLEAN
  /\ inbox \in 0..Window
  /\ dc \in {"open", "gone"}
  /\ dcReads \in BOOLEAN
  /\ wire \in Seq(Frames \cup {"fin", "rst"})

UpTyped ==
  /\ up \in {"check", "read", "send", "flush", "done"}
  /\ held \in 0..Kept
  /\ outbox \in 0..(Kept + Window)
  /\ upEnd \in {"none", "cancelled", "eof", "error", "lost"}

DownTyped ==
  /\ down \in {"check", "recv", "pong", "bye", "write", "done"}
  /\ owed \in {0, 1}
  /\ downEnd \in {"none", "cancelled", "eof", "error", "unwritten"}

SessionTyped ==
  /\ cancelled \in BOOLEAN
  /\ closed \in BOOLEAN
  /\ kind \in Kinds
  /\ socket \in BOOLEAN
  /\ main \in {"wait", "close", "ended"}

TypeOK == PeersTyped /\ UpTyped /\ DownTyped /\ SessionTyped

(* A client that sends everything and closes has everything sent to the    *)
(* DC, the splitter's tail included, unless a Send failed or the session   *)
(* was cancelled first (bridge.go:90-100).                                 *)
UpComplete == upEnd = "eof" => inbox = 0 /\ held = 0 /\ outbox = 0

(* A frame that Recv returned is written to the client before the pump     *)
(* looks at the context or reads again (bridge.go:161-200).                *)
DownComplete == downEnd \in {"cancelled", "eof", "error"} => owed = 0

(* On plain TCP the first pump to end takes the session with it: after     *)
(* cancel, which is also what Stop does, both pumps return and it ends.    *)
CancelEndsSession == cancelled /\ kind = "direct" ~> main = "ended"

(* A data centre that leaves, by a Close frame, FIN or reset, takes the    *)
(* session with it, wherever the two pumps are: Recv's mark on c.closed,   *)
(* which Send may miss and Close obeys, the answer to the Close frame, a   *)
(* client that sends on or does not read, and frames that came before      *)
(* (client.go:246, 266-272, 284, bridge.go:55-58).                         *)
GoneDCEndsSession == dc = "gone" ~> main = "ended"

(* On a WebSocket the pump that waits in Recv is freed by the next data    *)
(* frame, however many control frames come before it.                      *)
DataFrameFreesDown ==
  (cancelled /\ \E i \in DOMAIN wire : wire[i] = "bin")
    ~> (down = "done" \/ ~dcReads)

(* "соединение живёт пока есть трафик" (client.go:135): a session whose    *)
(* client has left ends when no traffic comes from the DC either.          *)
SilentSessionEnds ==
  (client # "open" /\ wire = <<>>) ~> (main = "ended" \/ wire # <<>> \/ ~dcReads)

(* On plain TCP a finished session has closed its socket; a WebSocket that *)
(* received a Close frame has not (client.go:268, 285).                    *)
DirectSocketClosed == kind = "direct" /\ main = "ended" => ~socket
=============================================================================
