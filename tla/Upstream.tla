------------------------------ MODULE Upstream ------------------------------
(***************************************************************************)
(* A client's bytes on their way up, from the first one the handler reads  *)
(* to the messages for the data centre: Front hands what it reads to the   *)
(* splitter (tcpToWS in internal/bridge/bridge.go), one read at a time,    *)
(* beside the masking goroutine of a rejected client.                      *)
(***************************************************************************)
EXTENDS Splitter, Front

upVars == <<vars, frontVars>>

UpInit == Init /\ FrontInit

-----------------------------------------------------------------------------
(* One turn of the pump: a read and the call of Split with what it read.   *)
Forward(n) ==
  /\ Read(n)
  /\ Feed(n) \/ FeedDisabled(n)

(* io.EOF flushes the splitter, any other error does not.                  *)
End == ReadEnds /\ pc = "read" /\ (Flush \/ UNCHANGED vars)

(* It may also end in a Send or at the head of its loop; then Run waits.   *)
Stops ==
  \/ pc = "read" /\ (SendBlocks \/ PumpStops)
  \/ DownEnds

(* The pump reads again only after Split has returned.                     *)
Idle == ReadNothing \/ (SkipCCS /\ step = "session")

Opening ==
  \/ ReadFirst \/ ReadHeader \/ ReadBody \/ ReadRest
  \/ ReadFails
  \/ Fill \/ FillFails \/ (SkipCCS /\ step = "init")
  \/ ParseHandshake \/ Connect

Masking == DialSite \/ PumpUpEnds \/ PumpDownEnds \/ SiteCloses \/ MaskEnds

Scan == Disable \/ Cut \/ Panic \/ Keep

UpNext ==
  \/ \E n \in 1..(Bytes - fed) : Forward(n)
  \/ End
  \/ Stops /\ UNCHANGED vars
  \/ pc = "read" /\ Idle /\ UNCHANGED vars
  \/ Opening /\ UNCHANGED vars
  \/ Leave /\ UNCHANGED vars
  \/ Masking /\ UNCHANGED vars
  \/ Scan /\ UNCHANGED frontVars

(* A deadline passes: ten seconds in ReadClientInit, five minutes in a     *)
(* read of the bridge (which a client that keeps sending puts off: the     *)
(* bounds on its bytes stand for the end of its patience).  The client     *)
(* owes nothing, nor does the data centre: a Send may block and wsToTCP    *)
(* wait for ever.  What is in readBuf is read without waiting.  Dials have *)
(* their own timeouts.  The masking site need not close; when it has, both *)
(* pumps run into it.                                                      *)
Fairness ==
  /\ WF_upVars((ParseHandshake \/ Connect) /\ UNCHANGED vars)
  /\ WF_upVars(ReadFails /\ UNCHANGED vars)
  /\ WF_upVars(\E n \in 1..(Bytes - fed) : ReadLeft(n) /\ (Feed(n) \/ FeedDisabled(n)))
  /\ WF_upVars(End)
  /\ WF_upVars(Leave /\ UNCHANGED vars)
  /\ WF_upVars(Scan /\ UNCHANGED frontVars)
  /\ WF_upVars(DialSite /\ UNCHANGED vars)
  /\ WF_upVars(site = "closed" /\ (PumpUpEnds \/ PumpDownEnds) /\ UNCHANGED vars)
  /\ WF_upVars(MaskEnds /\ UNCHANGED vars)

UpSpec == UpInit /\ [][UpNext]_upVars /\ Fairness

-----------------------------------------------------------------------------
UpTypeOK ==
  /\ TypeOK
  /\ masking \in BOOLEAN /\ kind \in Kinds /\ wire \in Wires
  /\ step \in {"first", "header", "body", "init", "rest", "handshake", "connect",
              "session", "blocked", "waiting", "rejected", "left"}
  /\ at \in 0..WireLen /\ buf \in Nat /\ taken \in Nat
  /\ conn \in {"open", "closed"}
  /\ mask \in {"none", "dial", "relay", "done"}
  /\ pumps \subseteq {"up", "down"} /\ site \in {"none", "open", "closed"}
  /\ req \in Indexes \cup {NoIndex}

(* The records the client meant, one after the other: where the k-th one   *)
(* starts, and how much data there is before it.                           *)
RecordEnd(p) == p + HdrLen + wire[p].len

Following(r) ==
  IF RecordEnd(r.at) > WireLen THEN r
  ELSE [at   |-> RecordEnd(r.at),
        data |-> r.data + IF wire[r.at].type = "data" THEN wire[r.at].len ELSE 0]

Records[k \in Nat] == IF k = 0 THEN [at |-> 0, data |-> 0] ELSE Following(Records[k - 1])

(* A record of another type with a body: its body is read as records.      *)
Derails(p) == p < at /\ wire[p].type = "other" /\ wire[p].len > 0

Derailed == \E k \in 0..(at - 1) : Derails(Records[k].at)

(* What was read up to here is what the records before here hold.          *)
InPlace == \E k \in 0..at : Records[k] = [at |-> at, data |-> taken + buf]

(* The byte the bridge decrypts next is the one at which its ciphers,      *)
(* wound forward by the length of the handshake, stand.                    *)
Aligned == fed > 0 \/ step = "session" => taken = InitLen + fed

(* Until such a record, what the handler and the splitter were given is    *)
(* the data of the client's records, whole and in order, whatever sizes    *)
(* the records have and wherever the handshake ends in one, and the        *)
(* ciphers keep their place in it (stream.go:45-150, mtproto.go:173,       *)
(* bridge.go:115).                                                         *)
StreamIntact ==
  /\ Aligned
  /\ kind = "true" => Derailed \/ InPlace

(* The data centre reads the client's number and kind out of relay_init,   *)
(* for every index; a route is of that number, and a client without the    *)
(* test flag finds under its pool key what it would dial (server.go:477,   *)
(* handler.go:171-207).                                                    *)
RouteFitsClient ==
  req # NoIndex =>
    LET h == HandshakeInfo(req) IN
      /\ Number(h.relay) = h.dc
      /\ IsMedia(h.relay) <=> h.media /\ h.dc # 0
      /\ h.ip = NoAddress \/ h.ip.dc = h.dc
      /\ \A i \in Indexes :
           LET g == HandshakeInfo(i) IN
             ~h.test /\ ~g.test /\ h.dc = g.dc /\ h.media = g.media => h = g

(* Every connection is closed in the end, with everything the proxy holds  *)
(* for it, however the client opens and wherever the client falls silent,  *)
(* unless another peer holds it for ever: a data centre that takes nothing *)
(* or sends nothing keeps a pump of the session, a masking site that stays *)
(* open keeps the masking goroutine.  (Or the process died before.)        *)
(* (handler.go:40, server.go:427, bridge.go:55-58, proxy.go:13-74.)        *)
HeldByPeer == step \in {"blocked", "waiting"} \/ (mask = "relay" /\ site = "open")

Finished == conn = "closed" /\ mask \in {"none", "done"}

ConnectionEnds == <>[]HeldByPeer \/ <>(Finished \/ pc = "panicked")

(* "Это делает прокси невидимым: сканеры видят обычный HTTPS сайт"         *)
(* (proxy.go:12): while a rejected client is carried to the masking site   *)
(* its connection is not closed under it.                                  *)
MaskingUndisturbed == mask \in {"dial", "relay"} => conn = "open"
=============================================================================
