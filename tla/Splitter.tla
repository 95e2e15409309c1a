------------------------------ MODULE Splitter ------------------------------
(***************************************************************************)
(* The message splitter of the bridge (internal/bridge/splitter.go): it    *)
(* keeps the same bytes encrypted and decrypted, reads packet lengths in   *)
(* the decrypted copy and cuts the encrypted copy into WebSocket messages. *)
(*                                                                         *)
(* Bytes are the positions of the upstream stream, so a buffer is an       *)
(* interval of positions and a part is the interval it was cut from.  The  *)
(* decrypted stream is known only by what a header starting at a position  *)
(* would say: its form and its payload length.  The header forms:          *)
(*   "short"  abridged, one byte: length below 0x7F words                  *)
(*   "long"   abridged, 0x7F or 0xFF and three bytes of length             *)
(*   "word"   intermediate and padded intermediate, four bytes             *)
(***************************************************************************)
EXTENDS Integers, Sequences

CONSTANTS
  Bytes,      \* the stream has at most this many bytes (bounds the run)
  MaxPayload, \* the 1 MB limit on an intermediate payload
  Heads       \* the streams: what a header at each position would say

Position == 0..Bytes

Header == [form : {"short", "long", "word"}, pay : Nat]

ASSUME SplitterAssumption ==
  /\ Bytes \in Nat
  /\ MaxPayload \in Nat
  /\ Heads \subseteq [Position -> Header]
  /\ \A h \in Heads, p \in Position : h[p].form = "short" => h[p].pay <= MaxPayload

VARIABLES
  head,       \* the decrypted stream
  pc,         \* "read": between two calls; "scan": in the loop of Split;
              \* "flushed": the client sent EOF; "panicked": process killed
  fed,        \* bytes given to Split so far
  lo, hi,     \* s.cipherBuf holds the positions lo..hi-1
  plainLo,    \* s.plainBuf starts at plainLo
  plainHi,    \* and ends before plainHi
  offset,     \* the local variable of Split
  disabled,   \* s.disabled
  parts       \* every message cut so far, oldest first

buffers == <<lo, hi, plainLo, plainHi>>
vars == <<head, pc, fed, buffers, offset, disabled, parts>>

HeadLen(h) == IF h.form = "short" THEN 1 ELSE 4

avail == (hi - lo) - offset

(* The header the code reads: at offset in the decrypted buffer.           *)
Peek == head[plainLo + offset]

HeaderHere == avail >= HeadLen(Peek)

BadLength ==
  \/ Peek.pay = 0
  \/ Peek.form = "word" /\ Peek.pay > MaxPayload

PacketLen == HeadLen(Peek) + Peek.pay

(* Mutant: the header is not counted.                                      *)
PayloadHere == avail >= Peek.pay

(* Mutant: avail <= packetLen waits for one more byte.                     *)
LastByteMissed == avail > PacketLen

PacketHere == avail >= PacketLen

Part(from, to) == [from |-> from, to |-> to]

Init ==
  /\ head \in Heads
  /\ pc = "read"
  /\ fed = 0
  /\ lo = 0 /\ hi = 0 /\ plainLo = 0 /\ plainHi = 0
  /\ offset = 0
  /\ disabled = FALSE
  /\ parts = <<>>

-----------------------------------------------------------------------------
(* Split is called with a chunk of n bytes.                                *)
Feed(n) ==
  /\ pc = "read"
  /\ ~disabled
  /\ fed' = fed + n
  /\ hi' = hi + n
  /\ plainHi' = plainHi + n
  /\ pc' = "scan"
  /\ UNCHANGED <<head, lo, plainLo, offset, disabled, parts>>

FeedDisabled(n) ==
  /\ pc = "read"
  /\ disabled
  /\ fed' = fed + n
  /\ parts' = Append(parts, Part(fed, fed + n))
  /\ UNCHANGED <<head, pc, buffers, offset, disabled>>

(* nextPacketLen: a length that is zero or too large ends the splitting.   *)
Disable ==
  /\ pc = "scan"
  /\ HeaderHere
  /\ Peek.form # "long"
  /\ BadLength
  /\ parts' = Append(parts, Part(lo + offset, hi))
  /\ offset' = hi - lo
  /\ disabled' = TRUE
  /\ UNCHANGED <<head, pc, fed, buffers>>

Cut ==
  /\ pc = "scan"
  /\ HeaderHere
  /\ Peek.form # "long"
  /\ ~BadLength
  /\ PacketHere
  /\ parts' = Append(parts, Part(lo + offset, lo + offset + PacketLen))
  /\ offset' = offset + PacketLen
  /\ UNCHANGED <<head, pc, fed, buffers, disabled>>

(* binary.LittleEndian.Uint32 of the three bytes plainBuf[offset+1:offset+4]: *)
(* index out of range, in a goroutine nobody recovers.                     *)
Panic ==
  /\ pc = "scan"
  /\ HeaderHere
  /\ Peek.form = "long"
  /\ pc' = "panicked"
  /\ UNCHANGED <<head, fed, buffers, offset, disabled, parts>>

(* nextPacketLen returned nil: the header or the packet is not complete.   *)
Incomplete ==
  \/ ~HeaderHere
  \/ (Peek.form # "long" /\ ~BadLength /\ ~PacketHere)

(* Mutant: only the encrypted buffer drops what was cut.                   *)
KeepPlain ==
  /\ pc = "scan"
  /\ Incomplete
  /\ lo' = lo + offset
  /\ offset' = 0
  /\ pc' = "read"
  /\ UNCHANGED <<head, fed, hi, plainLo, plainHi, disabled, parts>>

(* The loop is over: both buffers drop what was cut.                       *)
Keep ==
  /\ pc = "scan"
  /\ Incomplete
  /\ lo' = lo + offset
  /\ plainLo' = plainLo + offset
  /\ offset' = 0
  /\ pc' = "read"
  /\ UNCHANGED <<head, fed, hi, plainHi, disabled, parts>>

(* Mutant: the tail is forgotten.                                          *)
FlushNothing ==
  /\ pc = "read"
  /\ lo' = hi
  /\ plainLo' = plainHi
  /\ pc' = "flushed"
  /\ UNCHANGED <<head, fed, hi, plainHi, offset, disabled, parts>>

(* The client closed the stream: the bridge sends what is left, as it is.  *)
Flush ==
  /\ pc = "read"
  /\ parts' = IF hi > lo THEN Append(parts, Part(lo, hi)) ELSE parts
  /\ lo' = hi
  /\ plainLo' = plainHi
  /\ pc' = "flushed"
  /\ UNCHANGED <<head, fed, hi, plainHi, offset, disabled>>

Next ==
  \/ \E n \in 1..(Bytes - fed) : Feed(n) \/ FeedDisabled(n)
  \/ Disable \/ Cut \/ Panic \/ Keep \/ Flush

Spec == Init /\ [][Next]_vars

-----------------------------------------------------------------------------
TypeOK ==
  /\ head \in Heads
  /\ pc \in {"read", "scan", "flushed", "panicked"}
  /\ fed \in Position
  /\ lo \in Position /\ hi \in Position
  /\ plainLo \in Position /\ plainHi \in Position
  /\ offset \in 0..(hi - lo)
  /\ disabled \in BOOLEAN
  /\ parts \in Seq([from : Position, to : Position])

(* The messages s are the first n bytes of the stream, in order, none      *)
(* empty, no byte twice.                                                   *)
Tile(s, n) ==
  /\ \A i \in DOMAIN s : s[i].from < s[i].to
  /\ \A i \in DOMAIN s : s[i].from = IF i = 1 THEN 0 ELSE s[i - 1].to
  /\ n = IF s = <<>> THEN 0 ELSE s[Len(s)].to

(* However the client's bytes are chunked, what was cut and what is kept   *)
(* are together exactly what came in, and after the flush nothing is kept  *)
(* (splitter.go:44-123).                                                   *)
Lossless ==
  pc \in {"read", "flushed"} =>
    /\ Tile(parts, fed - (hi - lo))
    /\ hi > lo => hi = fed
    /\ pc = "flushed" => hi = lo

SaysBad(h) == h.pay = 0 \/ (h.form = "word" /\ h.pay > MaxPayload)

(* Every message is exactly one packet, as the header at its first byte    *)
(* says, up to the first header without a usable length and but for the    *)
(* tail sent at EOF (splitter.go:73-98).                                   *)
OnePacketEach ==
  \A i \in DOMAIN parts :
    LET h == head[parts[i].from] IN
      \/ /\ ~SaysBad(h)
         /\ parts[i].to - parts[i].from = HeadLen(h) + h.pay
      \/ \E j \in 1..i : SaysBad(head[parts[j].from])
      \/ (pc = "flushed" /\ i = Len(parts))

(* Split never returns with a whole packet still in its buffer: a packet   *)
(* is forwarded with the chunk that completes it (splitter.go:73-103).     *)
NothingHeldBack ==
  pc = "read" /\ ~disabled =>
    LET h == head[lo] IN
      \/ hi - lo < HeadLen(h)
      \/ /\ h.form # "long"
         /\ ~SaysBad(h)
         /\ hi - lo < HeadLen(h) + h.pay

(* The memory one client can make the splitter hold between two reads is   *)
(* bounded by the largest packet it accepts (splitter.go:189); it follows  *)
(* from NothingHeldBack (theorem MemoryBounded).                           *)
BufferBounded == pc = "read" => hi - lo < 4 + MaxPayload

(* "Ищем пакеты в буфере" (splitter.go:72): looking for packets in the     *)
(* buffer never kills the process, whatever packets the client sends.      *)
NoPanic == pc # "panicked"
=============================================================================
