----------------------------- MODULE MCUpstream -----------------------------
(***************************************************************************)
(* Streams for Upstream.  Packets: the headers of abridged, or of          *)
(* intermediate packets, repeating every Period positions, so that packets *)
(* of all lengths, bad lengths and long headers meet in every order.       *)
(* Records: of data, cipher change and another type, repeating likewise.   *)
(* Indexes: every edge of the 16-bit index, of the tables and of the test  *)
(* offset.                                                                 *)
(***************************************************************************)
EXTENDS Upstream

CONSTANTS Period, WirePeriod

Periodic(T, n, of) == {[p \in T |-> s[p % n]] : s \in [0..(n - 1) -> of]}

Streams(forms, pays) == Periodic(Position, Period, [form : forms, pay : pays])

MCHeads ==
  Streams({"short"}, 0..MaxPayload) \cup Streams({"short", "long"}, {1})
    \cup Streams({"word"}, 0..(MaxPayload + 1))

Rec(type, len) == [type |-> type, len |-> len]

MCWires ==
  Periodic(0..WireLen, WirePeriod,
           {Rec("data", n) : n \in 0..3} \cup {Rec("ccs", 1), Rec("other", 0), Rec("other", 1)})

MCIndexes ==
  {-32768, -10203, -10000, -203, -2, 0, 2, 5, 203, 9999, 10000, 10002, 10203, 32767}
=============================================================================
