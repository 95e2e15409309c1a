----------------------------- MODULE Handshake -----------------------------
(***************************************************************************)
(* What the proxy makes of a client's MTProto handshake (HandleHandshake   *)
(* in internal/proxy/handler.go, TryHandshake and GenerateRelayInit in     *)
(* internal/crypto/mtproto.go): the signed 16-bit index in it becomes a    *)
(* data centre, a kind, an address, domains and a path, and goes back into *)
(* the handshake that the proxy sends to the data centre.                  *)
(*                                                                         *)
(* The keys and ciphers around the index are library code; an address is   *)
(* the name of the table it was found in and the number it stands under.   *)
(***************************************************************************)
EXTENDS Integers, Sequences

CONSTANTS
  Redirects,   \* the numbers dc_ip gives an address to
  ForceTestDC  \* cfg.ForceTestDC

ASSUME HandshakeAssumption == Redirects \subseteq Nat /\ ForceTestDC \in BOOLEAN

(* What two bytes of a handshake can hold, and uint16(int16(n)) read back. *)
Index == {i \in Int : i >= -32768 /\ i <= 32767}
Int16(n) == ((n + 32768) % 65536) - 32768

TestOffset == 10000

(* TryHandshake: the sign says media, the rest is the number.              *)
IsMedia(i) == i < 0
Number(i) == IF i < 0 THEN -i ELSE i

IsTest(i) == ForceTestDC \/ Number(i) >= TestOffset

DC(i) == IF Number(i) >= TestOffset THEN Number(i) - TestOffset ELSE Number(i)

DCDefaultIPs == (1..5) \cup {203}
DCTestIPs == 1..3

Address(table, dc) == [table |-> table, dc |-> dc]
NoAddress == Address("none", 0)

TargetIP(i) ==
  LET dc == DC(i) IN
  IF dc \in Redirects THEN Address("redirect", dc)
  ELSE IF IsTest(i) /\ dc \in DCTestIPs THEN Address("test", dc)
  ELSE IF ~IsTest(i) /\ dc \in DCDefaultIPs THEN Address("default", dc)
  ELSE NoAddress

(* kws<host>.web.telegram.org and kws<host>-1.web.telegram.org; DC 203 has *)
(* the hosts of DC 2, and media tries the second one first.                *)
WSDomains(dc, media) ==
  LET host == IF dc = 203 THEN 2 ELSE dc
      plain == [host |-> host, suffix |-> FALSE]
      second == [host |-> host, suffix |-> TRUE]
  IN IF media THEN <<second, plain>> ELSE <<plain, second>>

(* Mutant: the sign is lost on the way to the data centre.                 *)
RelayWithoutSign(i) == Int16(DC(i))

(* The index written into relay_init.                                      *)
RelayIndex(i) == Int16(IF IsMedia(i) THEN -DC(i) ELSE DC(i))

HandshakeInfo(i) ==
  [ dc      |-> DC(i),
    media   |-> IsMedia(i),
    test    |-> IsTest(i),
    ip      |-> TargetIP(i),
    domains |-> WSDomains(DC(i), IsMedia(i)),
    path    |-> IF IsTest(i) THEN "/apiws_test" ELSE "/apiws",
    relay   |-> RelayIndex(i) ]
=============================================================================
