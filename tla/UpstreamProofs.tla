--------------------------- MODULE UpstreamProofs ---------------------------
(***************************************************************************)
(* Proofs about Splitter, for streams and packets of any length, and about *)
(* Upstream: fed by any client through the front, the splitter behaves as  *)
(* Splitter says, so that everything proved of it holds there; what the    *)
(* handler and the bridge read is the data of the client's records, and    *)
(* the ciphers keep their place in it; and every 16-bit index is routed    *)
(* and handed on faithfully.                                               *)
(***************************************************************************)
EXTENDS Upstream, Induction

(* How far the messages reach into the stream.                             *)
Sent == IF disabled THEN fed ELSE lo + offset

(* The two buffers cover the same bytes: the last ones that came in.       *)
Buffered ==
  /\ plainLo = lo /\ plainHi = hi
  /\ lo <= hi /\ hi <= fed
  /\ ~disabled => hi = fed
  /\ disabled => lo + offset = hi
  /\ pc = "scan" => hi = fed
  /\ pc \in {"read", "flushed"} => offset = 0
  /\ pc = "flushed" => hi = lo

(* Splitting stops only at a header that is bad.                           *)
StoppedForBad == disabled => \E j \in DOMAIN parts : SaysBad(head[parts[j].from])

SplitInv ==
  /\ TypeOK /\ Buffered /\ Tile(parts, Sent)
  /\ StoppedForBad /\ OnePacketEach /\ NothingHeldBack

-----------------------------------------------------------------------------
(* A message that starts where the others end keeps the tiling.            *)
LEMMA TileAppend ==
  ASSUME NEW s \in Seq([from : Position, to : Position]), NEW t,
         NEW n \in Int, NEW m \in Int, n < m, Tile(s, n),
         t = Append(s, Part(n, m))
  PROVE  Tile(t, m)
<1>1. Len(s) \in Nat /\ DOMAIN s = 1..Len(s) OBVIOUS
<1>2. Len(t) = Len(s) + 1 /\ DOMAIN t = 1..(Len(s) + 1)
  OBVIOUS
<1>3. \A i \in DOMAIN s : t[i] = s[i] OBVIOUS
<1>4. t[Len(s) + 1] = Part(n, m) OBVIOUS
<1>5. n = IF Len(s) = 0 THEN 0 ELSE s[Len(s)].to
  BY DEF Tile
<1>6. \A i \in DOMAIN t : t[i].from < t[i].to
  BY <1>1, <1>2, <1>3, <1>4 DEF Tile, Part
<1>7. \A i \in DOMAIN t :
        t[i].from = IF i = 1 THEN 0 ELSE t[i - 1].to
  <2> SUFFICES ASSUME NEW i \in DOMAIN t
               PROVE  t[i].from = IF i = 1 THEN 0 ELSE t[i - 1].to
    OBVIOUS
  <2>1. CASE i \in DOMAIN s
    <3>1. i # 1 => i - 1 \in DOMAIN s BY <1>1, <2>1
    <3> QED BY <1>3, <2>1, <3>1 DEF Tile
  <2>2. CASE i = Len(s) + 1
    <3>1. i # 1 => Len(s) # 0 /\ i - 1 = Len(s) /\ i - 1 \in DOMAIN s
      BY <1>1, <2>2
    <3>2. i = 1 => Len(s) = 0 BY <1>1, <2>2
    <3> QED BY <1>3, <1>4, <1>5, <2>2, <3>1, <3>2 DEF Part
  <2> QED BY <1>1, <1>2, <2>1, <2>2
<1>8. m = IF t = <<>> THEN 0 ELSE t[Len(t)].to
  BY <1>1, <1>2, <1>4 DEF Part
<1> QED BY <1>6, <1>7, <1>8 DEF Tile

(* A new message changes nothing about the ones before it.                 *)
LEMMA EarlierParts ==
  ASSUME parts \in Seq([from : Position, to : Position]), NEW x,
         parts' = Append(parts, x)
  PROVE  /\ DOMAIN parts = 1..Len(parts) /\ Len(parts) \in Nat
         /\ DOMAIN parts' = 1..(Len(parts) + 1)
         /\ Len(parts') = Len(parts) + 1
         /\ \A i \in DOMAIN parts : parts'[i] = parts[i]
         /\ parts'[Len(parts) + 1] = x
OBVIOUS

(* A header says a length or none.                                         *)
LEMMA HeadTyped ==
  ASSUME TypeOK, Buffered, offset <= hi - lo
  PROVE  /\ Peek = head[lo + offset]
         /\ Peek \in Header
         /\ Peek.form = "short" => Peek.pay <= MaxPayload
         /\ PacketLen \in Nat /\ PacketLen >= 1
<1>1. lo + offset \in Position
  BY SplitterAssumption DEF TypeOK, Position, Buffered
<1>2. head \in [Position -> Header] BY SplitterAssumption DEF TypeOK
<1>3. Peek = head[lo + offset] BY DEF Peek, Buffered
<1>4. Peek.pay \in Nat BY <1>1, <1>2, <1>3 DEF Header
<1> QED BY <1>1, <1>2, <1>3, <1>4, SplitterAssumption
        DEF TypeOK, PacketLen, HeadLen, Header

(* It holds before the first byte.                                         *)
LEMMA SplitInit == Init => SplitInv
<1> SUFFICES ASSUME Init PROVE SplitInv OBVIOUS
<1> USE DEF Init
<1>1. TypeOK BY SplitterAssumption DEF TypeOK, Position
<1>2. Buffered /\ Tile(parts, Sent) /\ StoppedForBad /\ OnePacketEach
  BY DEF Buffered, Tile, Sent, StoppedForBad, OnePacketEach
<1>3. NothingHeldBack BY DEF NothingHeldBack, HeadLen
<1> QED BY <1>1, <1>2, <1>3 DEF SplitInv

(* A step that only reads more, or only drops what was cut, keeps every    *)
(* message as it was.                                                      *)
LEMMA SamePartsKeepOne ==
  ASSUME OnePacketEach, StoppedForBad, UNCHANGED <<head, parts, disabled>>,
         pc # "flushed"
  PROVE  OnePacketEach' /\ StoppedForBad'
BY DEF OnePacketEach, StoppedForBad

(* Every call of Split and Flush keeps the invariant.                      *)
LEMMA SplitStep == SplitInv /\ [Next]_vars => SplitInv'
<1> SUFFICES ASSUME SplitInv, [Next]_vars PROVE SplitInv' OBVIOUS
<1> USE DEF SplitInv
<1>1. ASSUME NEW n \in 1..(Bytes - fed), Feed(n) PROVE SplitInv'
  <2>1. TypeOK' /\ Buffered'
    BY <1>1, SplitterAssumption DEF Feed, TypeOK, Buffered, Position
  <2>2. Tile(parts', Sent') BY <1>1 DEF Feed, Tile, Sent
  <2>3. OnePacketEach' /\ StoppedForBad' BY <1>1, SamePartsKeepOne DEF Feed
  <2>4. NothingHeldBack' BY <1>1 DEF Feed, NothingHeldBack
  <2> QED BY <2>1, <2>2, <2>3, <2>4
<1>2. ASSUME NEW n \in 1..(Bytes - fed), FeedDisabled(n) PROVE SplitInv'
  <2>1. parts' = Append(parts, Part(fed, fed + n)) /\ fed < fed + n
        /\ fed \in Int /\ fed + n \in Int
    BY <1>2, SplitterAssumption DEF FeedDisabled, TypeOK, Position
  <2>2. TypeOK'
    <3>1. Part(fed, fed + n) \in [from : Position, to : Position]
      BY <1>2, SplitterAssumption DEF TypeOK, Position, Part
    <3> QED BY <1>2, <2>1, <3>1, SplitterAssumption
            DEF FeedDisabled, TypeOK, Position, buffers
  <2>3. Buffered'
    BY <1>2, SplitterAssumption DEF FeedDisabled, Buffered, buffers, TypeOK, Position
  <2>4. Tile(parts', fed + n)
    <3>1. Tile(parts, fed) BY <1>2 DEF FeedDisabled, Sent
    <3> QED BY <2>1, <3>1, TileAppend DEF TypeOK
  <2>5. Tile(parts', Sent') BY <1>2, <2>4 DEF FeedDisabled, Sent
  <2>6. OnePacketEach' /\ StoppedForBad'
    <3>1. PICK j \in DOMAIN parts : SaysBad(head[parts[j].from])
      BY <1>2 DEF FeedDisabled, StoppedForBad
    <3>2. parts \in Seq([from : Position, to : Position]) BY DEF TypeOK
    <3>3. j \in DOMAIN parts' /\ SaysBad(head'[parts'[j].from])
      BY <1>2, <2>1, <3>1, <3>2, EarlierParts DEF FeedDisabled
    <3>4. pc # "flushed" /\ head' = head BY <1>2 DEF FeedDisabled
    <3>5. /\ DOMAIN parts = 1..Len(parts) /\ Len(parts) \in Nat
          /\ DOMAIN parts' = 1..(Len(parts) + 1)
          /\ \A i \in DOMAIN parts : parts'[i] = parts[i]
      BY <2>1, <3>2, EarlierParts
    <3>6. StoppedForBad' BY <3>3 DEF StoppedForBad
    <3>7. ASSUME NEW i \in DOMAIN parts, \E k \in 1..i : SaysBad(head[parts[k].from])
          PROVE  \E k \in 1..i : SaysBad(head'[parts'[k].from])
      BY <3>4, <3>5, <3>7
    <3>8. ASSUME NEW i \in DOMAIN parts'
          PROVE  LET h == head'[parts'[i].from] IN
                   \/ /\ ~SaysBad(h)
                      /\ parts'[i].to - parts'[i].from = HeadLen(h) + h.pay
                   \/ \E k \in 1..i : SaysBad(head'[parts'[k].from])
      <4>1. CASE i \in DOMAIN parts BY <3>4, <3>5, <3>7, <4>1 DEF OnePacketEach
      <4>2. CASE i = Len(parts) + 1
        <5>1. j \in 1..i BY <3>1, <3>5, <4>2
        <5> QED BY <3>3, <5>1
      <4> QED BY <3>5, <4>1, <4>2
    <3>9. OnePacketEach' BY <3>8 DEF OnePacketEach
    <3> QED BY <3>6, <3>9
  <2>7. NothingHeldBack' BY <1>2 DEF FeedDisabled, NothingHeldBack
  <2> QED BY <2>2, <2>3, <2>5, <2>6, <2>7
<1>3. ASSUME Disable PROVE SplitInv'
  <2>1. offset < hi - lo
    BY <1>3 DEF Disable, HeaderHere, avail, HeadLen, TypeOK, Position
  <2>2. Peek = head[lo + offset] BY <2>1, HeadTyped DEF TypeOK, Position
  <2>3. parts' = Append(parts, Part(lo + offset, hi)) /\ lo + offset < hi
        /\ lo + offset \in Position /\ hi \in Position
        /\ lo + offset \in Int /\ hi \in Int
    BY <1>3, <2>1, SplitterAssumption DEF Disable, TypeOK, Position
  <2>4. ~disabled BY <2>1 DEF Buffered, TypeOK, Position
  <2>5. TypeOK'
    <3>1. Part(lo + offset, hi) \in [from : Position, to : Position]
      BY <2>3 DEF Part
    <3> QED BY <1>3, <2>1, <2>3, <3>1, SplitterAssumption
            DEF Disable, TypeOK, Position, buffers
  <2>6. Buffered'
    BY <1>3, <2>1 DEF Disable, Buffered, buffers, TypeOK, Position
  <2>7. Tile(parts', hi)
    <3>1. Tile(parts, lo + offset) BY <2>4 DEF Sent
    <3> QED BY <2>3, <3>1, TileAppend, <1>3 DEF TypeOK, Disable, buffers
  <2>8. Tile(parts', Sent') BY <1>3, <2>7 DEF Disable, Sent, Buffered, buffers
  <2>9. OnePacketEach' /\ StoppedForBad'
    <3>1. parts \in Seq([from : Position, to : Position]) BY DEF TypeOK
    <3>2. SaysBad(head[lo + offset])
      BY <1>3, <2>2 DEF Disable, BadLength, SaysBad
    <3>3. parts'[Len(parts) + 1].from = lo + offset
      BY <2>3, <3>1, EarlierParts DEF Part
    <3>4. pc # "flushed" /\ head' = head BY <1>3 DEF Disable
    <3> QED BY <2>3, <3>1, <3>2, <3>3, <3>4, EarlierParts
            DEF OnePacketEach, StoppedForBad
  <2>10. NothingHeldBack' BY <1>3 DEF Disable, NothingHeldBack
  <2> QED BY <2>5, <2>6, <2>8, <2>9, <2>10
<1>4. ASSUME Cut PROVE SplitInv'
  <2>1. Peek = head[lo + offset] /\ PacketLen \in Nat /\ PacketLen >= 1
    BY HeadTyped DEF TypeOK, Position
  <2>2. offset + PacketLen <= hi - lo
    BY <1>4, <2>1 DEF Cut, PacketHere, avail, TypeOK, Position
  <2>3. ~disabled BY <2>1, <2>2 DEF Buffered, TypeOK, Position
  <2> DEFINE end == lo + offset + PacketLen
  <2>4. parts' = Append(parts, Part(lo + offset, end)) /\ lo + offset < end
        /\ lo + offset \in Position /\ end \in Position
        /\ lo + offset \in Int /\ end \in Int
    BY <1>4, <2>1, <2>2, SplitterAssumption DEF Cut, TypeOK, Position
  <2>5. TypeOK'
    <3>1. Part(lo + offset, end) \in [from : Position, to : Position]
      BY <2>4 DEF Part
    <3> QED BY <1>4, <2>1, <2>2, <2>4, <3>1, SplitterAssumption
            DEF Cut, TypeOK, Position, buffers
  <2>6. Buffered'
    BY <1>4, <2>2, <2>3 DEF Cut, Buffered, buffers
  <2>7. Tile(parts', end)
    <3>1. Tile(parts, lo + offset) BY <2>3 DEF Sent
    <3> QED BY <2>4, <3>1, TileAppend DEF TypeOK
  <2>8. Tile(parts', Sent')
    <3>1. Sent' = end
      BY <1>4, <2>1, <2>3 DEF Cut, Sent, buffers, TypeOK, Position
    <3> QED BY <2>7, <3>1
  <2>9. OnePacketEach' /\ StoppedForBad'
    <3>1. parts \in Seq([from : Position, to : Position]) BY DEF TypeOK
    <3>2. ~SaysBad(head[lo + offset]) BY <1>4, <2>1 DEF Cut, BadLength, SaysBad
    <3>3. /\ parts'[Len(parts) + 1].from = lo + offset
          /\ parts'[Len(parts) + 1].to = end
      BY <2>4, <3>1, EarlierParts DEF Part
    <3>4. end - (lo + offset) = HeadLen(head[lo + offset]) + head[lo + offset].pay
      BY <2>1, <2>4 DEF PacketLen, TypeOK, Position
    <3>5. pc # "flushed" /\ head' = head /\ disabled' = disabled BY <1>4 DEF Cut
    <3> HIDE DEF end
    <3> QED BY <2>3, <2>4, <3>1, <3>2, <3>3, <3>4, <3>5, EarlierParts
            DEF OnePacketEach, StoppedForBad
  <2>10. NothingHeldBack' BY <1>4 DEF Cut, NothingHeldBack
  <2> QED BY <2>5, <2>6, <2>8, <2>9, <2>10
<1>5. ASSUME Panic PROVE SplitInv'
  BY <1>5, SamePartsKeepOne
     DEF Panic, TypeOK, Buffered, Tile, Sent, NothingHeldBack, buffers, StoppedForBad, OnePacketEach
<1>6. ASSUME Keep PROVE SplitInv'
  <2>1. TypeOK' /\ Buffered'
    BY <1>6, SplitterAssumption DEF Keep, TypeOK, Buffered, Position
  <2>2. Sent' = Sent BY <1>6 DEF Keep, Sent, TypeOK, Position
  <2>3. Tile(parts', Sent') BY <1>6, <2>2 DEF Keep, Tile
  <2>4. OnePacketEach' /\ StoppedForBad' BY <1>6, SamePartsKeepOne DEF Keep
  <2>5. NothingHeldBack'
    <3>1. Peek = head[lo'] /\ head' = head /\ hi' - lo' = avail
      BY <1>6, HeadTyped DEF Keep, avail, TypeOK, Position
    <3>2. Peek.pay \in Nat BY HeadTyped DEF Header, TypeOK, Position
    <3>3. avail \in Int BY DEF avail, TypeOK, Position
    <3> QED BY <1>6, <3>1, <3>2, <3>3
            DEF Keep, Incomplete, HeaderHere, PacketHere, PacketLen, BadLength,
                SaysBad, NothingHeldBack, HeadLen
  <2> QED BY <2>1, <2>3, <2>4, <2>5
<1>7. ASSUME Flush PROVE SplitInv'
  <2>1. CASE hi > lo
    <3>1. parts' = Append(parts, Part(lo, hi)) /\ lo < hi /\ ~disabled /\ offset = 0
          /\ lo \in Int /\ hi \in Int
      BY <1>7, <2>1 DEF Flush, Buffered, TypeOK, Position
    <3>2. TypeOK'
      <4>1. Part(lo, hi) \in [from : Position, to : Position]
        BY DEF TypeOK, Part
      <4> QED BY <1>7, <3>1, <4>1, SplitterAssumption DEF Flush, TypeOK, Position
    <3>3. Buffered' BY <1>7 DEF Flush, Buffered, TypeOK, Position
    <3>4. Tile(parts, lo) BY <3>1 DEF Sent, TypeOK, Position
    <3>5. Tile(parts', hi) BY <1>7, <3>1, <3>4, TileAppend DEF TypeOK, Flush
    <3>6. Tile(parts', Sent')
      BY <1>7, <3>1, <3>5 DEF Flush, Sent, Buffered, TypeOK, Position
    <3>7. OnePacketEach' /\ StoppedForBad'
      <4>1. parts \in Seq([from : Position, to : Position]) BY DEF TypeOK
      <4>2. head' = head /\ pc # "flushed" /\ pc' = "flushed" /\ disabled' = disabled
        BY <1>7 DEF Flush
      <4> QED BY <3>1, <4>1, <4>2, EarlierParts DEF OnePacketEach, StoppedForBad
    <3>8. NothingHeldBack' BY <1>7 DEF Flush, NothingHeldBack
    <3> QED BY <3>2, <3>3, <3>6, <3>7, <3>8
  <2>2. CASE ~(hi > lo)
    <3>1. parts' = parts /\ hi = lo
      BY <1>7, <2>2 DEF Flush, Buffered, TypeOK, Position
    <3>2. TypeOK' /\ Buffered'
      BY <1>7, <3>1, SplitterAssumption DEF Flush, TypeOK, Buffered, Position
    <3>3. Tile(parts', Sent') BY <1>7, <3>1 DEF Flush, Sent, Tile
    <3>4. OnePacketEach' /\ StoppedForBad'
      BY <1>7, <3>1, SamePartsKeepOne DEF Flush
    <3>5. NothingHeldBack' BY <1>7 DEF Flush, NothingHeldBack
    <3> QED BY <3>2, <3>3, <3>4, <3>5
  <2> QED BY <2>1, <2>2
<1>8. CASE UNCHANGED vars
  BY <1>8 DEF vars, buffers, TypeOK, Buffered, Tile, Sent, StoppedForBad,
              OnePacketEach, NothingHeldBack
<1> QED BY <1>1, <1>2, <1>3, <1>4, <1>5, <1>6, <1>7, <1>8 DEF Next

(* So it holds throughout.                                                 *)
LEMMA SplitAlways == Spec => []SplitInv
BY SplitInit, SplitStep, PTL DEF Spec

-----------------------------------------------------------------------------
(* Every variable keeps its type: in particular no slice of the buffers is *)
(* ever out of range.                                                      *)
THEOREM TypeCorrect == Spec => []TypeOK
BY SplitAlways, PTL DEF SplitInv

(* No byte of the client is lost, duplicated or reordered by the splitter, *)
(* for every stream and every way of cutting it into chunks.               *)
THEOREM NoByteLost == Spec => []Lossless
<1>1. SplitInv => Lossless
  <2> SUFFICES ASSUME SplitInv, pc \in {"read", "flushed"}
               PROVE  /\ Tile(parts, fed - (hi - lo))
                      /\ hi > lo => hi = fed
                      /\ pc = "flushed" => hi = lo
    BY DEF Lossless
  <2>1. Sent = fed - (hi - lo)
    BY DEF SplitInv, Sent, Buffered, TypeOK, Position
  <2>2. hi > lo => hi = fed BY DEF SplitInv, Buffered, TypeOK, Position
  <2> QED BY <2>1, <2>2 DEF SplitInv, Buffered
<1> QED BY <1>1, SplitAlways, PTL

(* Every message is one packet until a header has no usable length.        *)
THEOREM MessagesArePackets == Spec => []OnePacketEach
BY SplitAlways, PTL DEF SplitInv

(* A packet leaves with the chunk that completes it.                       *)
THEOREM ForwardsAtOnce == Spec => []NothingHeldBack
BY SplitAlways, PTL DEF SplitInv

(* What the splitter keeps between two reads is less than one packet of    *)
(* the largest size.                                                       *)
THEOREM MemoryBounded == Spec => []BufferBounded
<1>1. SplitInv => BufferBounded
  <2> SUFFICES ASSUME SplitInv, pc = "read" PROVE hi - lo < 4 + MaxPayload
    BY DEF BufferBounded
  <2>1. CASE disabled
    BY <2>1, SplitterAssumption DEF SplitInv, Buffered, TypeOK, Position
  <2>2. CASE ~disabled
    <3>1. /\ Peek = head[lo] /\ Peek \in Header
          /\ Peek.form = "short" => Peek.pay <= MaxPayload
      BY HeadTyped DEF SplitInv, Buffered, TypeOK, Position
    <3>2. hi - lo \in Int BY DEF SplitInv, TypeOK, Position
    <3>3. Peek.pay \in Nat /\ Peek.form \in {"short", "long", "word"}
      BY <3>1 DEF Header
    <3> QED BY <2>2, <3>1, <3>2, <3>3, SplitterAssumption
            DEF SplitInv, NothingHeldBack, SaysBad, HeadLen
  <2> QED BY <2>1, <2>2
<1> QED BY <1>1, SplitAlways, PTL

-----------------------------------------------------------------------------
(* Every step of the composition is one of the splitter, or none.          *)
LEMMA UpStepSplits == [UpNext]_upVars => [Next]_vars
<1> SUFFICES ASSUME [UpNext]_upVars PROVE [Next]_vars OBVIOUS
<1>1. CASE \E n \in 1..(Bytes - fed) : Forward(n)
  BY <1>1 DEF Forward, Next
<1>2. CASE End
  BY <1>2 DEF End, Next
<1>3. CASE Scan
  BY <1>3 DEF Scan, Next
<1>4. CASE UNCHANGED vars
  BY <1>4
<1>5. CASE UNCHANGED upVars
  BY <1>5 DEF upVars
<1> QED BY <1>1, <1>2, <1>3, <1>4, <1>5 DEF UpNext

(* Upstream implements Splitter: whatever a client opens with and whatever *)
(* records it sends, Split is called on chunks of one stream, one call at  *)
(* a time, and Flush at its end (bridge.go:80-130).                        *)
THEOREM UpstreamSplits == UpSpec => Spec
BY UpStepSplits, PTL DEF UpSpec, UpInit, Spec

(* What holds of the splitter holds of it behind the front.                *)
THEOREM UpNoByteLost == UpSpec => []Lossless
BY UpstreamSplits, NoByteLost, PTL

(* Every message for the DC is one packet of the client                    *)
(* (splitter.go:44-123).                                                   *)
THEOREM UpMessagesArePackets == UpSpec => []OnePacketEach
BY UpstreamSplits, MessagesArePackets, PTL

-----------------------------------------------------------------------------
(* What the front counts, and where it may stand.                          *)
Past == {"blocked", "waiting", "rejected", "left"}

Counted ==
  /\ buf \in Nat /\ taken \in Nat /\ fed \in Nat /\ at \in 0..WireLen
  /\ step \in Reading \cup {"handshake", "connect", "session"} \cup Past
  /\ step \in Reading => fed = 0
  /\ step \in {"handshake", "connect"} => fed = 0 /\ taken = InitLen
  /\ step \in {"first", "header", "body"} => buf = 0
  /\ step = "init" => buf < InitLen
  /\ wire \in [0..WireLen -> Record]
  /\ req \in Indexes \cup {NoIndex}

UpInv == Counted /\ Aligned

(* It holds when the connection is accepted.                               *)
LEMMA UpStart == UpInit => UpInv
BY FrontAssumption DEF UpInit, Init, FrontInit, UpInv, Counted, Aligned, Reading, Past

(* Reading a record keeps to the connection.                               *)
LEMMA RecordFits ==
  ASSUME UpInv
  PROVE  /\ Here.len \in Nat
         /\ RecordArrives /\ NextRecord => at' \in 0..WireLen
         /\ EmptyPayload => at' \in 0..WireLen
<1>1. at \in Nat /\ HdrLen \in Nat /\ WireLen \in Nat /\ at <= WireLen
  BY FrontAssumption DEF UpInv, Counted
<1>2. Here \in Record
  BY DEF Here, UpInv, Counted
<1>3. Here.len \in Nat
  BY <1>2 DEF Record
<1> QED BY <1>1, <1>3 DEF RecordArrives, NextRecord, EmptyPayload, HeaderArrives

(* A read of the bridge keeps it.                                          *)
LEMMA KeepsForward ==
  ASSUME UpInv, NEW n \in 1..(Bytes - fed), Forward(n) PROVE UpInv'
<1>1. n \in Nat /\ n > 0
  BY SplitterAssumption DEF UpInv, Counted
<1>2. taken' = taken + n /\ fed' = fed + n /\ step = "session"
  BY DEF Forward, Read, ReadLeft, ReadRecord, ReadPlain, Feed, FeedDisabled
<1>3. UNCHANGED <<step, wire, req>> /\ buf' \in Nat /\ at' \in 0..WireLen
  BY RecordFits DEF Forward, Read, ReadLeft, ReadRecord, ReadPlain, UpInv, Counted, client
<1>4. InitLen \in Nat /\ taken = InitLen + fed
  BY <1>2, FrontAssumption DEF UpInv, Aligned
<1> QED BY <1>1, <1>2, <1>3, <1>4 DEF UpInv, Counted, Aligned, Reading, Past

(* The opening of the connection keeps it.                                 *)
LEMMA KeepsOpening ==
  ASSUME UpInv, Opening, UNCHANGED vars PROVE UpInv'
<1> USE FrontAssumption DEF UpInv, Counted, Aligned, Reading, Past, client, stream, masker, vars
<1>1. CASE ReadFirst BY <1>1 DEF ReadFirst
<1>2. CASE ReadHeader BY <1>2 DEF ReadHeader
<1>3. CASE ReadBody
  <2>1. step = "body" /\ step' \in {"init", "rejected"} BY <1>3 DEF ReadBody
  <2>2. UNCHANGED <<at, buf, taken, wire, req, fed>> BY <1>3 DEF ReadBody
  <2> QED BY <2>1, <2>2
<1>4. CASE ReadRest BY <1>4 DEF ReadRest
<1>5. CASE ReadFails BY <1>5 DEF ReadFails
<1>6. CASE Fill
  <2>1. Here.len \in Nat /\ at' \in 0..WireLen BY <1>6, RecordFits DEF Fill
  <2> QED BY <1>6, <2>1 DEF Fill
<1>7. CASE FillFails
  <2>1. at' \in 0..WireLen BY <1>7, RecordFits DEF FillFails
  <2> QED BY <1>7, <2>1 DEF FillFails
<1>8. CASE SkipCCS /\ step = "init"
  <2>1. at' \in 0..WireLen BY <1>8, RecordFits DEF SkipCCS
  <2> QED BY <1>8, <2>1 DEF SkipCCS
<1>9. CASE ParseHandshake BY <1>9 DEF ParseHandshake
<1>10. CASE Connect BY <1>10 DEF Connect
<1> QED BY <1>1, <1>2, <1>3, <1>4, <1>5, <1>6, <1>7, <1>8, <1>9, <1>10 DEF Opening

(* The steps after which nothing more is read, and those beside the reads. *)
LEMMA KeepsRest ==
  ASSUME UpInv, UNCHANGED <<fed, taken, buf, wire, req>>,
         at' = at \/ at' \in 0..WireLen, step' = step \/ step' \in Past
  PROVE  UpInv'
BY DEF UpInv, Counted, Aligned, Reading, Past

(* Every step keeps the invariant.                                         *)
LEMMA UpStep == UpInv /\ [UpNext]_upVars => UpInv'
<1> SUFFICES ASSUME UpInv, [UpNext]_upVars PROVE UpInv' OBVIOUS
<1>1. CASE \E n \in 1..(Bytes - fed) : Forward(n)
  BY <1>1, KeepsForward
<1>2. CASE End
  <2>1. UNCHANGED <<fed, taken, buf, wire, req, at>> /\ step' \in Past
    BY <1>2 DEF End, ReadEnds, Flush, vars, stream, client, Past
  <2> QED BY <2>1, KeepsRest
<1>3. CASE Idle /\ UNCHANGED vars
  <2>1. UNCHANGED <<fed, taken, buf, wire, req, step>>
    BY <1>3 DEF Idle, ReadNothing, SkipCCS, vars, client
  <2>2. at' \in 0..WireLen
    BY <1>3, RecordFits DEF Idle, ReadNothing, SkipCCS
  <2> QED BY <2>1, <2>2, KeepsRest
<1>4. CASE Opening /\ UNCHANGED vars
  BY <1>4, KeepsOpening
<1>5. CASE (Stops \/ Leave) /\ UNCHANGED vars
  <2>1. UNCHANGED <<fed, taken, buf, wire, req, at>> /\ step' \in Past
    BY <1>5 DEF Stops, SendBlocks, PumpStops, DownEnds, Leave, vars, stream, client, Past
  <2> QED BY <2>1, KeepsRest
<1>6. CASE Masking /\ UNCHANGED vars
  <2>1. UNCHANGED <<fed, taken, buf, wire, req, step, at>>
    <3>1. UNCHANGED fed BY <1>6 DEF vars
    <3>2. CASE DialSite BY <3>1, <3>2 DEF DialSite, stream, client
    <3>3. CASE PumpUpEnds BY <3>1, <3>3 DEF PumpUpEnds, stream, client
    <3>4. CASE PumpDownEnds BY <3>1, <3>4 DEF PumpDownEnds, stream, client
    <3>5. CASE SiteCloses BY <3>1, <3>5 DEF SiteCloses, stream, client
    <3>6. CASE MaskEnds BY <3>1, <3>6 DEF MaskEnds, stream, client
    <3> QED BY <1>6, <3>2, <3>3, <3>4, <3>5, <3>6 DEF Masking
  <2> QED BY <2>1, KeepsRest
<1>7. CASE Scan /\ UNCHANGED frontVars
  <2>1. UNCHANGED <<fed, taken, buf, wire, req, step, at>>
    BY <1>7 DEF Scan, Disable, Cut, Panic, Keep, frontVars, client, stream
  <2> QED BY <2>1, KeepsRest
<1>8. CASE UNCHANGED upVars
  <2>1. UNCHANGED <<fed, taken, buf, wire, req, step, at>>
    BY <1>8 DEF upVars, vars, frontVars, client, stream
  <2> QED BY <2>1, KeepsRest
<1> QED BY <1>1, <1>2, <1>3, <1>4, <1>5, <1>6, <1>7, <1>8 DEF UpNext

(* So it holds throughout.                                                 *)
LEMMA UpAlways == UpSpec => []UpInv
BY UpStart, UpStep, PTL DEF UpSpec

(* The ciphers of the bridge stand at the byte it decrypts next, whatever  *)
(* ReadExactly left in the buffer (mtproto.go:173, stream.go:49-66).       *)
THEOREM CiphersAligned == UpSpec => []Aligned
BY UpAlways, PTL DEF UpInv

-----------------------------------------------------------------------------
(* Both conversions to 16 bits lose nothing: no index overflows on its way.*)
LEMMA RelayFits ==
  ASSUME NEW i \in Index
  PROVE  /\ DC(i) \in Int /\ DC(i) >= 0
         /\ RelayIndex(i) = IF IsMedia(i) THEN -DC(i) ELSE DC(i)
<1>1. i \in Int /\ i >= -32768 /\ i <= 32767
  BY DEF Index
<1>2. Number(i) \in Int /\ Number(i) >= 0 /\ Number(i) <= 32768
  BY <1>1 DEF Number
<1>3. DC(i) \in Int /\ DC(i) >= 0 /\ DC(i) <= 22768
  BY <1>2 DEF DC, TestOffset
<1>4. ASSUME NEW n \in Int, n >= -32768, n <= 32767 PROVE Int16(n) = n
  <2>1. n + 32768 \in Int /\ n + 32768 >= 0 /\ n + 32768 < 65536 BY <1>4
  <2>2. (n + 32768) % 65536 = n + 32768 BY <2>1
  <2> QED BY <2>2, <1>4 DEF Int16
<1>5. -DC(i) \in Int /\ -DC(i) >= -32768 /\ -DC(i) <= 32767
  BY <1>3
<1>6. Int16(DC(i)) = DC(i) /\ Int16(-DC(i)) = -DC(i)
  BY <1>3, <1>4, <1>5
<1> QED BY <1>3, <1>6 DEF RelayIndex

(* Two indexes without the test flag and of one pool key have one route.   *)
LEMMA KeyDecides ==
  ASSUME NEW i \in Index, NEW j \in Index,
         ~IsTest(i), ~IsTest(j), DC(i) = DC(j), IsMedia(i) <=> IsMedia(j)
  PROVE  HandshakeInfo(i) = HandshakeInfo(j)
<1>1. IsMedia(i) = IsMedia(j) BY DEF IsMedia
<1>2. TargetIP(i) = TargetIP(j) BY DEF TargetIP
<1>3. RelayIndex(i) = RelayIndex(j) BY <1>1 DEF RelayIndex
<1>4. IsTest(i) = IsTest(j) BY DEF IsTest
<1> QED BY <1>1, <1>2, <1>3, <1>4 DEF HandshakeInfo

(* For every set of 16-bit indexes and every dc_ip: the data centre reads  *)
(* the client's number and kind out of relay_init, and a pool key stands   *)
(* for one route (handler.go:171-207, mtproto.go:71-76, 129).              *)
THEOREM RoutesFit == UpSpec => []RouteFitsClient
<1>1. ASSUME UpInv PROVE RouteFitsClient
  <2> SUFFICES ASSUME req # NoIndex PROVE RouteFitsClient
    BY DEF RouteFitsClient
  <2>1. req \in Index
    BY <1>1, FrontAssumption DEF UpInv, Counted
  <2> DEFINE h == HandshakeInfo(req)
  <2>2. /\ h.dc = DC(req) /\ h.relay = RelayIndex(req) /\ h.ip = TargetIP(req)
        /\ h.media = IsMedia(req) /\ h.test = IsTest(req)
    BY DEF HandshakeInfo
  <2>3. Number(h.relay) = h.dc
    BY <2>1, <2>2, RelayFits DEF Number, IsMedia
  <2>4. IsMedia(h.relay) <=> h.media /\ h.dc # 0
    <3>1. DC(req) \in Int /\ DC(req) >= 0 BY <2>1, RelayFits
    <3>2. CASE IsMedia(req)
      <4>1. RelayIndex(req) = -DC(req) BY <2>1, <3>2, RelayFits
      <4>2. -DC(req) < 0 <=> DC(req) # 0 BY <3>1
      <4> QED BY <2>2, <3>2, <4>1, <4>2 DEF IsMedia
    <3>3. CASE ~IsMedia(req)
      <4>1. RelayIndex(req) = DC(req) BY <2>1, <3>3, RelayFits
      <4>2. ~(DC(req) < 0) BY <3>1
      <4> QED BY <2>2, <3>3, <4>1, <4>2 DEF IsMedia
    <3> QED BY <3>2, <3>3
  <2>5. h.ip = NoAddress \/ h.ip.dc = h.dc
    BY <2>2 DEF TargetIP, Address
  <2>6. ASSUME NEW i \in Indexes, ~h.test, ~HandshakeInfo(i).test,
               h.dc = HandshakeInfo(i).dc, h.media = HandshakeInfo(i).media
        PROVE  h = HandshakeInfo(i)
    <3>1. i \in Index BY FrontAssumption
    <3>2. /\ HandshakeInfo(i).dc = DC(i) /\ HandshakeInfo(i).media = IsMedia(i)
          /\ HandshakeInfo(i).test = IsTest(i)
      BY DEF HandshakeInfo
    <3> QED BY <2>1, <2>2, <2>6, <3>1, <3>2, KeyDecides
  <2> QED BY <2>3, <2>4, <2>5, <2>6 DEF RouteFitsClient
<1> QED BY <1>1, UpAlways, PTL

-----------------------------------------------------------------------------
(* The client and the masking goroutine stay what they are.                *)
Typed ==
  /\ masking \in BOOLEAN /\ kind \in Kinds /\ wire \in Wires
  /\ conn \in {"open", "closed"}
  /\ mask \in {"none", "dial", "relay", "done"}
  /\ pumps \subseteq {"up", "down"} /\ site \in {"none", "open", "closed"}

(* No step changes what the client opened with or what it sends.           *)
LEMMA ClientStays == [UpNext]_upVars => UNCHANGED client
<1> SUFFICES ASSUME [UpNext]_upVars PROVE UNCHANGED client OBVIOUS
<1>1. CASE \E n \in 1..(Bytes - fed) : Forward(n)
  BY <1>1 DEF Forward, Read, ReadLeft, ReadRecord, ReadPlain
<1>2. CASE End BY <1>2 DEF End, ReadEnds
<1>3. CASE Idle BY <1>3 DEF Idle, ReadNothing, SkipCCS
<1>4. CASE Opening
  BY <1>4 DEF Opening, ReadFirst, ReadHeader, ReadBody, ReadRest, ReadFails, Fill, FillFails,
     SkipCCS, ParseHandshake, Connect
<1>5. CASE Stops \/ Leave BY <1>5 DEF Stops, SendBlocks, PumpStops, DownEnds, Leave
<1>6. CASE Masking
  BY <1>6 DEF Masking, DialSite, PumpUpEnds, PumpDownEnds, SiteCloses, MaskEnds
<1>7. CASE UNCHANGED frontVars BY <1>7 DEF frontVars
<1>8. CASE UNCHANGED upVars BY <1>8 DEF upVars, frontVars
<1> QED BY <1>1, <1>2, <1>3, <1>4, <1>5, <1>6, <1>7, <1>8 DEF UpNext

(* Every step keeps the types.                                             *)
LEMMA TypedStep == Typed /\ [UpNext]_upVars => Typed'
<1> SUFFICES ASSUME Typed, [UpNext]_upVars PROVE Typed' OBVIOUS
<1> USE DEF Typed, masker
<1>0. UNCHANGED <<masking, kind, wire>> BY ClientStays DEF client
<1>1. CASE \E n \in 1..(Bytes - fed) : Forward(n)
  BY <1>0, <1>1 DEF Forward, Read, ReadLeft, ReadRecord, ReadPlain
<1>2. CASE End BY <1>0, <1>2 DEF End, ReadEnds
<1>3. CASE Idle BY <1>0, <1>3 DEF Idle, ReadNothing, SkipCCS
<1>4. CASE Opening
  <2>1. CASE ReadFirst BY <1>0, <2>1 DEF ReadFirst, GoMask
  <2>2. CASE ReadHeader BY <1>0, <2>2 DEF ReadHeader, GoMask
  <2>3. CASE ReadBody BY <1>0, <2>3 DEF ReadBody, GoMask
  <2>4. CASE ReadRest \/ ReadFails \/ Fill \/ FillFails \/ SkipCCS \/ ParseHandshake \/ Connect
    BY <1>0, <2>4 DEF ReadRest, ReadFails, Fill, FillFails, SkipCCS, ParseHandshake, Connect
  <2> QED BY <1>4, <2>1, <2>2, <2>3, <2>4 DEF Opening
<1>5. CASE Stops \/ Leave
  BY <1>0, <1>5 DEF Stops, SendBlocks, PumpStops, DownEnds, Leave
<1>6. CASE Masking
  <2>1. CASE DialSite BY <1>0, <2>1 DEF DialSite
  <2>2. CASE PumpUpEnds BY <1>0, <2>2 DEF PumpUpEnds
  <2>3. CASE PumpDownEnds BY <1>0, <2>3 DEF PumpDownEnds
  <2>4. CASE SiteCloses BY <1>0, <2>4 DEF SiteCloses
  <2>5. CASE MaskEnds BY <1>0, <2>5 DEF MaskEnds
  <2> QED BY <1>6, <2>1, <2>2, <2>3, <2>4, <2>5 DEF Masking
<1>7. CASE UNCHANGED frontVars BY <1>0, <1>7 DEF frontVars
<1>8. CASE UNCHANGED upVars BY <1>0, <1>8 DEF upVars, frontVars
<1> QED BY <1>1, <1>2, <1>3, <1>4, <1>5, <1>6, <1>7, <1>8 DEF UpNext

(* Every variable of the connection keeps its type.                        *)
THEOREM UpTypeCorrect == UpSpec => []UpTypeOK
<1>1. UpInit => Typed BY DEF UpInit, FrontInit, Typed
<1>2. TypeOK /\ UpInv /\ Typed => UpTypeOK
  BY DEF UpInv, Counted, Typed, UpTypeOK, Reading, Past
<1> QED BY <1>1, <1>2, TypedStep, UpAlways, UpstreamSplits, TypeCorrect, PTL DEF UpSpec

-----------------------------------------------------------------------------
(* The records the client meant.                                           *)

Place == [at : 0..WireLen, data : Nat]

(* The record that follows lies further on.                                *)
LEMMA FollowingFits ==
  ASSUME wire \in [0..WireLen -> Record], NEW r \in Place
  PROVE  Following(r) \in Place
<1>1. r.at \in 0..WireLen /\ r.data \in Nat /\ wire[r.at].len \in Nat BY DEF Place, Record
<1>2. WireLen \in Nat /\ HdrLen \in Nat BY FrontAssumption
<1>3. CASE RecordEnd(r.at) > WireLen BY <1>3 DEF Following
<1>4. CASE ~(RecordEnd(r.at) > WireLen)
  <2>1. RecordEnd(r.at) \in 0..WireLen BY <1>1, <1>2, <1>4 DEF RecordEnd
  <2>2. r.data + (IF wire[r.at].type = "data" THEN wire[r.at].len ELSE 0) \in Nat BY <1>1
  <2> QED BY <1>4, <2>1, <2>2 DEF Following, Place
<1> QED BY <1>3, <1>4

(* Records is defined: there is a next record, or the last one again.      *)
LEMMA RecordsBuilt ==
  ASSUME wire \in [0..WireLen -> Record]
  PROVE  /\ Records[0] = [at |-> 0, data |-> 0]
         /\ \A k \in Nat : Records[k] \in Place /\ Records[k + 1] = Following(Records[k])
<1> DEFINE c == [at |-> 0, data |-> 0]
           g == [x \in Nat \X Place |-> Following(x[2])]
           Fits(h) == h = [k \in Nat |-> IF k = 0 THEN c ELSE Following(h[k - 1])]
<1>1. c \in Place BY FrontAssumption DEF Place
<1>2. g \in [Nat \X Place -> Place] BY FollowingFits
<1>3. PICK f : Iterates(f, Place, c, g)
  <2> HIDE DEF c, g
  <2> QED BY <1>1, <1>2, PrimitiveRecursion
<1>4. \A k \in Nat : f[k] \in Place /\ f[k + 1] = Following(f[k])
  <2>1. ASSUME NEW k \in Nat PROVE f[k] \in Place /\ f[k + 1] = Following(f[k])
    <3>1. f[k] \in Place /\ f[k + 1] = g[<<k, f[k]>>]
      <4> HIDE DEF g
      <4> QED BY <1>3 DEF Iterates
    <3>2. g[<<k, f[k]>>] = Following(f[k]) BY <3>1
    <3> HIDE DEF g
    <3> QED BY <3>1, <3>2
  <2> QED BY <2>1
<1>5. Fits(f)
  <2>1. f \in [Nat -> Place] /\ f[0] = c
    <3> HIDE DEF g
    <3> QED BY <1>3 DEF Iterates
  <2>2. ASSUME NEW k \in Nat PROVE f[k] = IF k = 0 THEN c ELSE Following(f[k - 1])
    <3> HIDE DEF c
    <3>1. CASE k = 0 BY <2>1, <3>1
    <3>2. CASE k # 0
      <4>1. k - 1 \in Nat /\ (k - 1) + 1 = k BY <3>2
      <4>2. f[(k - 1) + 1] = Following(f[k - 1]) BY <1>4, <4>1
      <4> QED BY <3>2, <4>1, <4>2
    <3> QED BY <3>1, <3>2
  <2> HIDE DEF c
  <2> QED BY <2>1, <2>2
<1>6. Records = CHOOSE h : Fits(h) BY DEF Records
<1>7. Fits(Records)
  <2> HIDE DEF Fits
  <2> QED BY <1>5, <1>6
<1>8. Records[0] = c
  <2> HIDE DEF c
  <2> QED BY <1>7
<1>9. ASSUME NEW k \in Nat PROVE Records[k + 1] = Following(Records[k])
  <2>1. k + 1 \in Nat /\ k + 1 # 0 /\ (k + 1) - 1 = k OBVIOUS
  <2> HIDE DEF c
  <2>2. Records[k + 1] = Following(Records[(k + 1) - 1]) BY <1>7, <2>1
  <2> QED BY <2>1, <2>2
<1>10. \A k \in Nat : Records[k] \in Place
  <2> DEFINE T == {k \in Nat : Records[k] \in Place}
  <2>1. 0 \in T BY <1>1, <1>8
  <2>2. ASSUME NEW k \in Nat, k \in T PROVE k + 1 \in T
    BY <1>9, <2>2, FollowingFits
  <2>3. \A k \in Nat : k \in T
    <3> HIDE DEF T
    <3> QED BY <2>1, <2>2, NaturalInduction
  <2> QED BY <2>3
<1> QED BY <1>8, <1>9, <1>10

-----------------------------------------------------------------------------
(* The stream is intact, and nothing is handed on before the handshake.    *)
Intact ==
  /\ step \in Reading => taken = 0
  /\ step = "rest" => kind # "true"
  /\ kind = "true" => Derailed \/ InPlace

(* The client's records do not move while it is served.                    *)
LEMMA RecordsStay == wire' = wire => Records' = Records
BY DEF Records, Following, RecordEnd

(* A stream that left the client's records has left them for good.         *)
LEMMA StaysDerailed ==
  ASSUME UpInv, Derailed, wire' = wire, at' \in Nat, at' >= at PROVE Derailed'
<1>1. Records' = Records BY RecordsStay
<1>2. PICK k \in 0..(at - 1) : Derails(Records[k].at) BY DEF Derailed
<1>3. at \in Nat BY FrontAssumption DEF UpInv, Counted
<1>4. k \in 0..(at' - 1)
  <2>1. k \in Int /\ k >= 0 /\ k <= at - 1 BY <1>3
  <2>2. ASSUME NEW a \in Nat, a >= at PROVE k \in 0..(a - 1)
    BY ONLY <1>3, <2>1, <2>2
  <2> QED BY <2>2
<1>5. Records[k].at \in Nat
  <2>1. k \in Nat BY <1>3
  <2>2. Records[k] \in Place BY <2>1, RecordsBuilt DEF UpInv, Counted
  <2> QED BY <2>2 DEF Place
<1>6. Derails(Records[k].at)' BY <1>1, <1>2, <1>3, <1>5 DEF Derails
<1> QED BY <1>1, <1>4, <1>6 DEF Derailed

(* A record that is read to its end leads to the next one; its data is     *)
(* handed on or kept for the next read.                                    *)
LEMMA WholeRecord ==
  ASSUME UpInv, InPlace, wire' = wire, RecordArrives, NextRecord,
         taken' + buf' = taken + buf + IF Here.type = "data" THEN Here.len ELSE 0
  PROVE  InPlace'
<1>1. PICK k \in 0..at : Records[k] = [at |-> at, data |-> taken + buf] BY DEF InPlace
<1>2. Records' = Records BY RecordsStay
<1>3. at \in Nat /\ HdrLen \in Nat \ {0} /\ WireLen \in Nat /\ Here.len \in Nat
  <2>1. Here.len \in Nat BY DEF UpInv, Counted, Here, Record
  <2> QED BY <2>1, FrontAssumption DEF UpInv, Counted
<1>4. k \in Nat /\ k + 1 \in 0..at' BY <1>3 DEF NextRecord
<1>5. Records[k + 1] = Following(Records[k])
  BY <1>4, RecordsBuilt DEF UpInv, Counted
<1>6. Following(Records[k]) = [at |-> at', data |-> taken' + buf']
  <2>1. RecordEnd(at) = at' /\ ~(RecordEnd(at) > WireLen)
    BY <1>3 DEF RecordEnd, NextRecord, RecordArrives, Here
  <2> QED BY <1>1, <2>1 DEF Following, Here
<1>7. Records'[k + 1] = [at |-> at', data |-> taken' + buf'] BY <1>2, <1>5, <1>6
<1> QED BY <1>4, <1>7 DEF InPlace

(* Of a record of another type only the header is read.                    *)
LEMMA OtherRecord ==
  ASSUME UpInv, InPlace, wire' = wire, EmptyPayload, taken' + buf' = taken + buf
  PROVE  Derailed' \/ InPlace'
<1>1. PICK k \in 0..at : Records[k] = [at |-> at, data |-> taken + buf] BY DEF InPlace
<1>2. Records' = Records BY RecordsStay
<1>3. at \in Nat /\ HdrLen \in Nat \ {0} /\ Here.len \in Nat /\ taken + buf \in Nat
  <2>1. Here.len \in Nat BY DEF UpInv, Counted, Here, Record
  <2> QED BY <2>1, FrontAssumption DEF UpInv, Counted
<1>4. CASE Here.type = "other" /\ Here.len > 0
  <2>1. at' = at + HdrLen BY <1>4 DEF EmptyPayload
  <2>2. k \in 0..(at' - 1) /\ at < at' BY <1>3, <2>1
  <2>3. Derails(Records[k].at)' BY <1>1, <1>2, <1>4, <2>2 DEF Derails, Here
  <2> QED BY <1>2, <2>2, <2>3 DEF Derailed
<1>5. CASE ~(Here.type = "other" /\ Here.len > 0)
  <2>1. RecordArrives /\ NextRecord
    BY <1>3, <1>5 DEF EmptyPayload, RecordArrives, NextRecord, HeaderArrives
  <2>2. taken' + buf' = taken + buf + IF Here.type = "data" THEN Here.len ELSE 0
    BY <1>3, <1>5 DEF EmptyPayload
  <2> QED BY <2>1, <2>2, WholeRecord
<1> QED BY <1>4, <1>5

(* A step that reads nothing from the connection.                          *)
LEMMA NothingRead ==
  ASSUME UpInv, Intact, UNCHANGED client, at' = at, taken' + buf' = taken + buf
  PROVE  kind' = "true" => Derailed' \/ InPlace'
<1> USE DEF client
<1>1. Records' = Records BY RecordsStay
<1>2. at \in Nat BY FrontAssumption DEF UpInv, Counted
<1>3. Derailed => Derailed' BY <1>2, StaysDerailed
<1>4. InPlace => InPlace' BY <1>1 DEF InPlace
<1> QED BY <1>3, <1>4 DEF Intact

(* A step that reads a record, or the header of one.                       *)
LEMMA SomethingRead ==
  ASSUME UpInv, Intact, UNCHANGED client,
         \/ RecordArrives /\ NextRecord
            /\ taken' + buf' = taken + buf + IF Here.type = "data" THEN Here.len ELSE 0
         \/ EmptyPayload /\ taken' + buf' = taken + buf
  PROVE  kind' = "true" => Derailed' \/ InPlace'
<1> USE DEF client
<1>1. at \in Nat /\ HdrLen \in Nat /\ Here.len \in Nat
  <2>1. Here.len \in Nat BY DEF UpInv, Counted, Here, Record
  <2> QED BY <2>1, FrontAssumption DEF UpInv, Counted
<1>2. at' \in Nat /\ at' >= at BY <1>1 DEF NextRecord, EmptyPayload
<1>3. Derailed => Derailed' BY <1>2, StaysDerailed
<1>4. InPlace => Derailed' \/ InPlace' BY WholeRecord, OtherRecord
<1> QED BY <1>3, <1>4 DEF Intact

(* A read of the bridge keeps the stream intact (stream.go:47-146).        *)
LEMMA IntactForward ==
  ASSUME UpInv, Intact, NEW n \in 1..(Bytes - fed), Forward(n), UNCHANGED client PROVE Intact'
<1>1. step = "session" /\ step' = step
  BY DEF Forward, Read, ReadLeft, ReadRecord, ReadPlain
<1>2. n \in Nat /\ buf \in Nat /\ taken \in Nat
  BY SplitterAssumption DEF UpInv, Counted
<1>3. kind' = "true" => Derailed' \/ InPlace'
  <2>1. CASE ReadLeft(n)
    <3>1. at' = at /\ taken' + buf' = taken + buf BY <1>2, <2>1 DEF ReadLeft
    <3> QED BY <3>1, NothingRead
  <2>2. CASE ReadRecord(n)
    <3>1. /\ RecordArrives /\ NextRecord
          /\ taken' + buf' = taken + buf + IF Here.type = "data" THEN Here.len ELSE 0
      BY <1>2, <2>2 DEF ReadRecord
    <3> QED BY <3>1, SomethingRead
  <2>3. CASE ReadPlain(n) BY <2>3 DEF ReadPlain, client
  <2> QED BY <2>1, <2>2, <2>3 DEF Forward, Read
<1> QED BY <1>1, <1>3 DEF Intact, Reading

(* So does the opening of the connection.                                  *)
LEMMA IntactOpening ==
  ASSUME UpInv, Intact, Opening, UNCHANGED client PROVE Intact'
<1>0. buf \in Nat /\ taken \in Nat /\ InitLen \in Nat /\ Here.len \in Nat
  BY FrontAssumption DEF UpInv, Counted, Here, Record
<1>1. CASE ReadFirst \/ ReadHeader \/ ReadBody
  <2>1. UNCHANGED stream /\ step \in Reading
    BY <1>1 DEF ReadFirst, ReadHeader, ReadBody, Reading
  <2>2. kind' = "true" => Derailed' \/ InPlace' BY <2>1, NothingRead DEF stream
  <2>3. step' = "rest" => kind # "true"
    BY <1>1 DEF ReadFirst, ReadHeader, ReadBody, TLSKinds
  <2> QED BY <2>1, <2>2, <2>3 DEF Intact, stream, client
<1>2. CASE ReadRest
  <2>1. kind # "true" /\ step' \notin Reading
    BY <1>2 DEF ReadRest, Intact, Reading
  <2> QED BY <2>1 DEF Intact, client, Reading
<1>3. CASE ReadFails \/ ParseHandshake \/ Connect
  <2>1. UNCHANGED stream /\ step' \notin Reading
    BY <1>3 DEF ReadFails, ParseHandshake, Connect, Reading
  <2>2. kind' = "true" => Derailed' \/ InPlace' BY <2>1, NothingRead DEF stream
  <2> QED BY <2>1, <2>2 DEF Intact, Reading
<1>4. CASE Fill
  <2>1. step = "init" /\ step' \in {"init", "handshake"} /\ taken = 0
    BY <1>4 DEF Fill, Intact, Reading
  <2>2. /\ RecordArrives /\ NextRecord
        /\ taken' + buf' = taken + buf + IF Here.type = "data" THEN Here.len ELSE 0
    BY <1>0, <1>4, <2>1 DEF Fill
  <2>3. kind' = "true" => Derailed' \/ InPlace' BY <2>2, SomethingRead
  <2>4. step' = "init" => taken' = 0 BY <1>4, <2>1 DEF Fill
  <2> QED BY <2>1, <2>3, <2>4 DEF Intact, Reading
<1>5. CASE FillFails
  <2>1. EmptyPayload /\ UNCHANGED <<buf, taken>> /\ step' \notin Reading
    BY <1>5 DEF FillFails, Reading
  <2>2. kind' = "true" => Derailed' \/ InPlace' BY <2>1, SomethingRead
  <2> QED BY <2>1, <2>2 DEF Intact, Reading
<1>6. CASE SkipCCS /\ step = "init"
  <2>1. /\ RecordArrives /\ NextRecord /\ UNCHANGED <<step, buf, taken>>
        /\ taken' + buf' = taken + buf + IF Here.type = "data" THEN Here.len ELSE 0
    BY <1>0, <1>6 DEF SkipCCS
  <2>2. kind' = "true" => Derailed' \/ InPlace' BY <2>1, SomethingRead
  <2> QED BY <1>6, <2>1, <2>2 DEF Intact, Reading
<1> QED BY <1>1, <1>2, <1>3, <1>4, <1>5, <1>6 DEF Opening

(* So does all that reads nothing.                                         *)
LEMMA IntactIdle ==
  ASSUME UpInv, Intact, Idle, UNCHANGED client PROVE Intact'
<1>0. buf \in Nat /\ taken \in Nat BY DEF UpInv, Counted
<1>1. UNCHANGED <<step, buf, taken>> /\ step = "session"
  BY DEF Idle, ReadNothing, SkipCCS
<1>2. kind' = "true" => Derailed' \/ InPlace'
  <2>1. CASE ReadNothing BY <2>1, SomethingRead DEF ReadNothing
  <2>2. CASE SkipCCS
    <3>1. /\ RecordArrives /\ NextRecord
          /\ taken' + buf' = taken + buf + IF Here.type = "data" THEN Here.len ELSE 0
      BY <1>0, <2>2 DEF SkipCCS
    <3> QED BY <3>1, SomethingRead
  <2> QED BY <2>1, <2>2 DEF Idle
<1> QED BY <1>1, <1>2 DEF Intact, Reading

(* The other steps leave the stream alone.                                 *)
LEMMA IntactElsewhere ==
  ASSUME UpInv, Intact, UNCHANGED <<client, stream>>, step' = step \/ step' \in Past
  PROVE  Intact'
<1>1. kind' = "true" => Derailed' \/ InPlace' BY NothingRead DEF stream
<1> QED BY <1>1 DEF Intact, Reading, stream, client, Past

(* Every step keeps it.                                                    *)
LEMMA IntactStep == UpInv /\ Intact /\ [UpNext]_upVars => Intact'
<1> SUFFICES ASSUME UpInv, Intact, [UpNext]_upVars PROVE Intact' OBVIOUS
<1>0. UNCHANGED client BY ClientStays
<1>1. CASE \E n \in 1..(Bytes - fed) : Forward(n) BY <1>0, <1>1, IntactForward
<1>2. CASE Opening BY <1>0, <1>2, IntactOpening
<1>3. CASE Idle BY <1>0, <1>3, IntactIdle
<1>4. CASE End \/ Stops \/ Leave
  <2>1. UNCHANGED stream /\ step' \in Past
    BY <1>4 DEF End, ReadEnds, Stops, SendBlocks, PumpStops, DownEnds, Leave, Past
  <2> QED BY <1>0, <2>1, IntactElsewhere
<1>5. CASE Masking
  <2>1. UNCHANGED stream /\ step' = step
    BY <1>5 DEF Masking, DialSite, PumpUpEnds, PumpDownEnds, SiteCloses, MaskEnds
  <2> QED BY <1>0, <2>1, IntactElsewhere
<1>6. CASE UNCHANGED frontVars BY <1>0, <1>6, IntactElsewhere DEF frontVars
<1>7. CASE UNCHANGED upVars BY <1>0, <1>7, IntactElsewhere DEF upVars, frontVars
<1> QED BY <1>1, <1>2, <1>3, <1>4, <1>5, <1>6, <1>7 DEF UpNext

(* What the handler and the bridge are given is the data of the client's   *)
(* records, whole and in order, as long as no record of another type with  *)
(* a body was met, for records of any sizes and any length of handshake    *)
(* (stream.go:45-150, mtproto.go:173).                                     *)
THEOREM StreamKeptIntact == UpSpec => []StreamIntact
<1>1. UpInit => Intact
  <2> SUFFICES ASSUME UpInit PROVE Intact OBVIOUS
  <2>1. UpInv BY UpStart
  <2>2. Records[0] = [at |-> 0, data |-> 0] BY <2>1, RecordsBuilt DEF UpInv, Counted
  <2>3. InPlace BY <2>2 DEF UpInit, FrontInit, InPlace
  <2> QED BY <2>3 DEF Intact, UpInit, FrontInit
<1>2. UpInv /\ Intact => StreamIntact BY DEF UpInv, Intact, StreamIntact
<1> QED BY <1>1, <1>2, IntactStep, UpAlways, PTL DEF UpSpec
=============================================================================
