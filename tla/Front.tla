------------------------------- MODULE Front -------------------------------
(***************************************************************************)
(* The proxy's side of one client connection up to the session and while   *)
(* the bridge reads from it: ReadClientInit (internal/proxy/handler.go),   *)
(* the fake TLS stream (internal/fake_tls/stream.go), and the goroutine    *)
(* that carries a rejected client to the masking site                      *)
(* (internal/fake_tls/proxy.go) beside handleClient's deferred Close.      *)
(*                                                                         *)
(* What the client opens with, "kind":                                     *)
(*   "true"    a ClientHello with the right HMAC and a fresh timestamp     *)
(*   "forged"  one that VerifyClientHello refuses                          *)
(*   "empty"   a handshake record of length zero                           *)
(*   "alert", "ccs"  the first byte of such a TLS record                   *)
(*   "http"    one of the letters G, P, H, D, O                            *)
(*   "trace"   64 bytes that begin like another HTTP method                *)
(*   "plain"   64 bytes of anything else                                   *)
(*                                                                         *)
(* After a true ClientHello the connection carries records.  Bytes are     *)
(* positions, and "wire" says what a record header that is read at a       *)
(* position would say, whether or not the client meant one to start there. *)
(***************************************************************************)
EXTENDS Handshake

CONSTANTS
  HdrLen,   \* length of a record header (5)
  InitLen,  \* length of an MTProto handshake (64)
  WireLen,  \* the connection carries at most this many bytes (bounds the run)
  Wires,    \* what headers say, position by position
  Indexes   \* DC indexes that handshakes carry

Kinds == {"true", "forged", "empty", "alert", "ccs", "http", "trace", "plain"}
TLSKinds == {"true", "forged", "empty"}

Record == [type : {"data", "ccs", "other"}, len : Nat]

ASSUME FrontAssumption ==
  /\ HdrLen \in Nat \ {0} /\ InitLen \in Nat \ {0} /\ WireLen \in Nat
  /\ Wires \subseteq [0..WireLen -> Record]
  /\ Indexes \subseteq Index

VARIABLES
  masking,  \* cfg.FakeTLSDomain is set
  kind,     \* what the client opens with
  wire,     \* what follows a true ClientHello
  step,     \* where handleClient is
  at,       \* bytes of wire read from the connection
  buf,      \* Len(s.readBuf)
  taken,    \* bytes handed to the handler and the bridge
  conn,     \* the proxy's end of the connection
  mask,     \* the masking goroutine
  pumps,    \* its two inner goroutines that still run
  site,     \* the connection to the masking site
  req       \* the index being served, until a transport is found

client == <<masking, kind, wire>>
stream == <<at, buf, taken>>
masker == <<mask, pumps, site>>
frontVars == <<client, step, stream, conn, masker, req>>

NoWire == CHOOSE w \in Wires : TRUE  \* where nothing is read from it
NoIndex == 40000  \* no 16-bit index

(* Mutant: the deadline does not cover the rest of a plain handshake.      *)
ReadingTLS == {"first", "header", "body", "init"}

(* The states in which the handler waits for bytes of the client, under    *)
(* the deadline set at the start of ReadClientInit.                        *)
Reading == {"first", "header", "body", "init", "rest"}

FrontInit ==
  /\ masking \in BOOLEAN
  /\ kind \in Kinds
  /\ wire \in Wires
  /\ (masking /\ kind = "true") \/ wire = NoWire
  /\ step = "first"
  /\ at = 0 /\ buf = 0 /\ taken = 0
  /\ conn = "open"
  /\ mask = "none" /\ pumps = {} /\ site = "none"
  /\ req = NoIndex

-----------------------------------------------------------------------------
(* ReadClientInit: every "rejected" is an error return.                    *)

GoMask == mask' = "dial" /\ UNCHANGED <<pumps, site>>

ReadFirst ==
  /\ step = "first"
  /\ \/ /\ kind \in TLSKinds
        /\ step' = "header"
        /\ UNCHANGED masker
     \/ /\ masking /\ kind = "http"
        /\ step' = "rejected"           \* redirect
        /\ UNCHANGED masker
     \/ /\ masking /\ kind \in {"alert", "ccs"}
        /\ step' = "rejected"
        /\ GoMask
     \/ /\ kind \notin TLSKinds
        /\ masking => kind \in {"trace", "plain"}
        /\ step' = "rest"
        /\ UNCHANGED masker
  /\ UNCHANGED <<client, stream, conn, req>>

ReadHeader ==
  /\ step = "header"
  /\ \/ kind = "empty" /\ step' = "rejected" /\ GoMask
     \/ kind # "empty" /\ step' = "body" /\ UNCHANGED masker
  /\ UNCHANGED <<client, stream, conn, req>>

ReadBody ==
  /\ step = "body"
  /\ \/ ~masking /\ step' = "rejected" /\ UNCHANGED masker      \* an alert
     \/ masking /\ kind = "forged" /\ step' = "rejected" /\ GoMask
     \/ /\ masking /\ kind = "true"
        /\ step' \in {"init", "rejected"}    \* ServerHello, if it can be written
        /\ UNCHANGED masker
  /\ UNCHANGED <<client, stream, conn, req>>

ReadRest ==
  /\ step = "rest"
  /\ \/ /\ masking /\ kind = "trace"
        /\ step' = "rejected"                \* redirect
        /\ UNCHANGED stream
     \/ /\ ~(masking /\ kind = "trace")
        /\ step' = "handshake"
        /\ taken' = InitLen
        /\ UNCHANGED <<at, buf>>
  /\ UNCHANGED <<client, conn, masker, req>>

(* The client closes, is reset, or lets the deadline pass.                 *)
ReadFails ==
  /\ step \in Reading
  /\ step' = "rejected"
  /\ UNCHANGED <<client, stream, conn, masker, req>>

-----------------------------------------------------------------------------
(* FakeTlsStream: readTLSPayload, under ReadExactly and ReadN.             *)

Here == wire[at]

HeaderArrives == at + HdrLen <= WireLen
RecordArrives == HeaderArrives /\ at + HdrLen + Here.len <= WireLen

NextRecord == at' = at + HdrLen + Here.len

(* A change of cipher spec is read over and the next record is tried.      *)
SkipCCS ==
  /\ kind = "true" /\ step \in {"init", "session"}
  /\ step = "session" => buf = 0
  /\ RecordArrives /\ Here.type = "ccs"
  /\ NextRecord
  /\ UNCHANGED <<client, step, buf, taken, conn, masker, req>>

(* Mutant: what ReadExactly read beyond the handshake is dropped.          *)
FillAndDrop ==
  /\ step = "init"
  /\ RecordArrives /\ Here.type = "data" /\ Here.len > 0
  /\ NextRecord
  /\ IF buf + Here.len < InitLen
     THEN buf' = buf + Here.len /\ UNCHANGED <<step, taken>>
     ELSE buf' = 0 /\ taken' = InitLen /\ step' = "handshake"
  /\ UNCHANGED <<client, conn, masker, req>>

(* ReadExactly(HandshakeLen): records until there are enough bytes.        *)
Fill ==
  /\ step = "init"
  /\ RecordArrives /\ Here.type = "data" /\ Here.len > 0
  /\ NextRecord
  /\ IF buf + Here.len < InitLen
     THEN buf' = buf + Here.len /\ UNCHANGED <<step, taken>>
     ELSE /\ buf' = buf + Here.len - InitLen
          /\ taken' = InitLen
          /\ step' = "handshake"
  /\ UNCHANGED <<client, conn, masker, req>>

(* A record that is not data, or is empty: no payload.  Of the former only *)
(* the header has been read.                                               *)
EmptyPayload ==
  \/ HeaderArrives /\ Here.type = "other" /\ at' = at + HdrLen
  \/ RecordArrives /\ Here.type = "data" /\ Here.len = 0 /\ NextRecord

FillFails ==
  /\ step = "init"
  /\ EmptyPayload
  /\ step' = "rejected"                      \* io.ErrUnexpectedEOF
  /\ UNCHANGED <<client, buf, taken, conn, masker, req>>

(* Read of the bridge: what is left, else a record.  The bridge's buffer   *)
(* (65536) is larger than any record and any rest, so ReadN cuts neither.  *)
ReadLeft(n) ==
  /\ step = "session" /\ kind = "true"
  /\ buf > 0 /\ n = buf
  /\ buf' = 0
  /\ taken' = taken + n
  /\ UNCHANGED <<client, step, at, conn, masker, req>>

ReadRecord(n) ==
  /\ step = "session" /\ kind = "true"
  /\ buf = 0
  /\ RecordArrives /\ Here.type = "data" /\ Here.len > 0 /\ n = Here.len
  /\ NextRecord
  /\ taken' = taken + n
  /\ UNCHANGED <<client, step, buf, conn, masker, req>>

ReadPlain(n) ==
  /\ step = "session" /\ kind # "true"
  /\ taken' = taken + n
  /\ UNCHANGED <<client, step, at, buf, conn, masker, req>>

Read(n) == ReadLeft(n) \/ ReadRecord(n) \/ ReadPlain(n)

(* Read returns no bytes and no error; the bridge reads again.             *)
ReadNothing ==
  /\ step = "session" /\ kind = "true"
  /\ buf = 0
  /\ EmptyPayload
  /\ UNCHANGED <<client, step, buf, taken, conn, masker, req>>

(* The pump of the bridge ends: at io.EOF, or at any other error, which    *)
(* includes an end of the connection inside a record.  Run waits for the   *)
(* other pump.                                                             *)
ReadEnds ==
  /\ step = "session"
  /\ kind = "true" => buf = 0
  /\ step' = "waiting"
  /\ UNCHANGED <<client, stream, conn, masker, req>>

(* The data centre takes nothing: a WebSocket's Send has no deadline, and  *)
(* the pump reads no more.                                                 *)
SendBlocks ==
  /\ step = "session"
  /\ step' = "blocked"
  /\ UNCHANGED <<client, stream, conn, masker, req>>

(* Send fails, or the context is cancelled: by Stop, or by the other pump. *)
PumpStops ==
  /\ step \in {"session", "blocked"}
  /\ step' = "waiting"
  /\ UNCHANGED <<client, stream, conn, masker, req>>

(* wsToTCP has returned too, and so does Run.  What it waits for in Recv   *)
(* is module Bridge's matter: a silent data centre may keep it for ever.   *)
DownEnds ==
  /\ step = "waiting"
  /\ step' = "rejected"
  /\ UNCHANGED <<client, stream, conn, masker, req>>

-----------------------------------------------------------------------------
(* handleClient.                                                           *)

ParseHandshake ==
  /\ step = "handshake"
  /\ \/ \E i \in Indexes : req' = i /\ step' = "connect"
     \/ req' = req /\ step' = "rejected"     \* no protocol tag
  /\ UNCHANGED <<client, stream, conn, masker>>

(* A transport is found and takes relay_init, or not: module Route.        *)
Connect ==
  /\ step = "connect"
  /\ step' \in {"session", "rejected"}
  /\ req' = NoIndex
  /\ UNCHANGED <<client, stream, conn, masker>>

(* Every return of handleClient runs its deferred conn.Close().            *)
Leave ==
  /\ step = "rejected"
  /\ step' = "left"
  /\ conn' = "closed"
  /\ UNCHANGED <<client, stream, masker, req>>

-----------------------------------------------------------------------------
(* ProxyToMaskingDomain, on its own goroutine.                             *)

DialSite ==
  /\ mask = "dial"
  /\ \/ mask' = "relay" /\ pumps' = {"up", "down"} /\ site' = "open" /\ conn' = conn
     \/ mask' = "done" /\ conn' = "closed" /\ UNCHANGED <<pumps, site>>
  /\ UNCHANGED <<client, step, stream, req>>

(* Client to site: ends when the client leaves, at the deadline that       *)
(* ReadClientInit set, when the connection is closed here, or when the     *)
(* site takes no more.                                                     *)
PumpUpEnds ==
  /\ "up" \in pumps
  /\ pumps' = pumps \ {"up"}
  /\ UNCHANGED <<client, step, stream, conn, mask, site, req>>

(* Site to client: ends when the site closes, or with the first bytes of   *)
(* the site after the connection was closed here.                          *)
PumpDownEnds ==
  /\ "down" \in pumps
  /\ site = "closed" \/ conn = "closed"
  /\ pumps' = pumps \ {"down"}
  /\ UNCHANGED <<client, step, stream, conn, mask, site, req>>

(* The site closes.                                                        *)
SiteCloses ==
  /\ site = "open"
  /\ site' = "closed"
  /\ UNCHANGED <<client, step, stream, conn, mask, pumps, req>>

(* wg.Wait returned: the deferred calls close both connections.            *)
MaskEnds ==
  /\ mask = "relay" /\ pumps = {}
  /\ mask' = "done"
  /\ conn' = "closed"
  /\ site' = "closed"
  /\ UNCHANGED <<client, step, stream, pumps, req>>
=============================================================================
