------------------------------ MODULE ConnPool ------------------------------
(***************************************************************************)
(* What the pool of warm WebSocket connections promises, without its       *)
(* locks, goroutines and clocks.  Every connection is in exactly one       *)
(* place: not dialled yet, held by the goroutine that dialled it, idle     *)
(* under a key, with one client, being closed, or closed.  It only moves   *)
(* forward, a bucket never holds more than PoolSize connections, and a     *)
(* freshly dialled connection is thrown away only when a bucket is full.   *)
(*                                                                         *)
(* Module Pool is shown to implement this specification.                   *)
(***************************************************************************)
EXTENDS Naturals, FiniteSets

CONSTANTS Key, WS, PoolSize

VARIABLE place

IdleUnder(k) == {c \in WS : place[c] = k}

IdleAnywhere == {c \in WS : place[c] \in Key}

Full(k) == Cardinality(IdleUnder(k)) >= PoolSize

Init == place = [c \in WS |-> "unborn"]

Dial(c) == place[c] = "unborn" /\ place' = [place EXCEPT ![c] = "held"]

Park(c, k) ==
  /\ place[c] = "held"
  /\ ~Full(k)
  /\ place' = [place EXCEPT ![c] = k]

Reject(c) ==
  /\ place[c] = "held"
  /\ \E k \in Key : Full(k)
  /\ place' = [place EXCEPT ![c] = "closing"]

(* One client takes c; connections found too old on the way are discarded. *)
Take(c, old) ==
  /\ place[c] \in Key
  /\ old \subseteq IdleUnder(place[c]) \ {c}
  /\ place' = [d \in WS |-> IF d = c THEN "client"
                            ELSE IF d \in old THEN "closing" ELSE place[d]]

Discard(old) ==
  /\ old \subseteq IdleAnywhere
  /\ place' = [d \in WS |-> IF d \in old THEN "closing" ELSE place[d]]

Finish(c) ==
  /\ place[c] \in {"client", "closing"}
  /\ place' = [place EXCEPT ![c] = "closed"]

Next ==
  \/ \E c \in WS : Dial(c) \/ Reject(c) \/ Finish(c)
  \/ \E c \in WS, k \in Key : Park(c, k)
  \/ \E c \in WS, old \in SUBSET WS : Take(c, old)
  \/ \E old \in SUBSET WS : Discard(old)

Spec == Init /\ [][Next]_place
=============================================================================
