-------------------------------- MODULE Pool --------------------------------
(***************************************************************************)
(* The pool of warm WebSocket connections (internal/pool/pool.go) with the *)
(* goroutines that touch it: client handlers that call Get, the refill     *)
(* goroutine every Get starts, the warm-up goroutines of Server.Start, the *)
(* rotation ticker, the closers and Server.Stop.  One critical section of  *)
(* p.mu is one action; a dial happens between two of them, unlocked.       *)
(*                                                                         *)
(* Time.  Put stamps a connection with time.Now() while it holds p.mu, so  *)
(* the order of the stamps is the order of the Puts, and also the order of *)
(* the bucket (append at the end, take from the front).  A bucket is kept  *)
(* as the set of its connections; stamp[c] is the number of the Put that   *)
(* stored c, and the connections with a stamp below horizon are those      *)
(* older than maxAge.                                                      *)
(***************************************************************************)
EXTENDS Naturals, FiniteSets

CONSTANTS
  Key,        \* bucket keys: a DC number and the media flag
  WarmKey,    \* the keys warmupPool dials for at start: one per configured DC
  WS,         \* every connection that can be dialled (bounds the dials)
  Refiller,   \* refill goroutines (bounds how many run at a time)
  PoolSize,   \* p.poolSize
  None        \* no connection in hand

ASSUME PoolAssumption ==
  /\ PoolSize \in Nat
  /\ WarmKey \subseteq Key
  /\ IsFiniteSet(WS)
  /\ None \notin WS
  /\ Key \cap {"unborn", "held", "client", "closing", "closed"} = {}

VARIABLES
  idle,       \* p.idle
  stamp,      \* conn.created, as the number of the Put
  puts,       \* Puts that stored a connection so far
  horizon,    \* stamps below it are older than p.maxAge
  pc,         \* where each refill goroutine is
  key,        \* the key it refills
  left,       \* dials it still has to make
  hand,       \* the connection it has dialled and not yet Put
  warm,       \* where each warm-up goroutine is
  warmHand,   \* the connection it has dialled and not yet Put
  given,      \* connections handed to a client
  closing,    \* connections a `go ws.Close()` was started for
  closed,     \* connections closed
  stop,       \* how far Server.Stop is: "no", "cancelled", "swept"
  rotating    \* the rotation goroutine has not returned

refillVars == <<pc, key, left, hand>>
warmVars == <<warm, warmHand>>
stopVars == <<stop, rotating>>
bucketVars == <<idle, stamp, puts>>
vars == <<bucketVars, horizon, refillVars, warmVars, given, closing, closed,
          stopVars>>

Expired(c) == stamp[c] < horizon

Idle == UNION {idle[k] : k \in Key}

Held == {c \in WS : \/ \E r \in Refiller : hand[r] = c
                    \/ \E k \in WarmKey : warmHand[k] = c}

Unborn == WS \ (Idle \cup Held \cup given \cup closing \cup closed)

(* NewPool and warmupPool: nothing pooled, one warm-up dial per DC begun.  *)
Init ==
  /\ idle = [k \in Key |-> {}]
  /\ stamp = [c \in WS |-> 0]
  /\ puts = 0
  /\ horizon = 0
  /\ pc = [r \in Refiller |-> "off"]
  /\ key \in [Refiller -> Key]
  /\ left = [r \in Refiller |-> 0]
  /\ hand = [r \in Refiller |-> None]
  /\ warm = [k \in WarmKey |-> "dial"]
  /\ warmHand = [k \in WarmKey |-> None]
  /\ given = {} /\ closing = {} /\ closed = {}
  /\ stop = "no"
  /\ rotating = TRUE

-----------------------------------------------------------------------------
(* Put: a full bucket closes the newcomer, otherwise it joins at the end.  *)
Put(k, c) ==
  \/ /\ Cardinality(idle[k]) >= PoolSize
     /\ closing' = closing \cup {c}
     /\ UNCHANGED bucketVars
  \/ /\ Cardinality(idle[k]) < PoolSize
     /\ idle' = [idle EXCEPT ![k] = @ \cup {c}]
     /\ stamp' = [stamp EXCEPT ![c] = puts]
     /\ puts' = puts + 1
     /\ UNCHANGED closing

StartRefill(k) ==
  \E r \in Refiller :
    /\ pc[r] = "off"
    /\ pc' = [pc EXCEPT ![r] = "count"]
    /\ key' = [key EXCEPT ![r] = k]
    /\ UNCHANGED <<left, hand>>

(* Mutant: the loop runs over the bucket from its end, newest first.       *)
LastFresh(k, c) ==
  /\ c \in idle[k]
  /\ ~Expired(c)
  /\ \A d \in idle[k] : stamp[d] > stamp[c] => Expired(d)

(* The loop of Get stopped at c: everything ahead of c had expired.        *)
FirstFresh(k, c) ==
  /\ c \in idle[k]
  /\ ~Expired(c)
  /\ \A d \in idle[k] : stamp[d] < stamp[c] => Expired(d)

GetHit(k) ==
  \E c \in idle[k] :
    /\ FirstFresh(k, c)
    /\ LET skipped == {d \in idle[k] : stamp[d] < stamp[c]} IN
         /\ idle' = [idle EXCEPT ![k] = @ \ (skipped \cup {c})]
         /\ closing' = closing \cup skipped
    /\ given' = given \cup {c}
    /\ StartRefill(k)
    /\ UNCHANGED <<stamp, puts, horizon, warmVars, closed, stopVars>>

(* Mutant: the expired connections are dropped and never closed.           *)
GetMissLeaks(k) ==
  /\ \A c \in idle[k] : Expired(c)
  /\ idle' = [idle EXCEPT ![k] = {}]
  /\ StartRefill(k)
  /\ UNCHANGED <<stamp, puts, horizon, warmVars, given, closing, closed, stopVars>>

GetMiss(k) ==
  /\ \A c \in idle[k] : Expired(c)
  /\ closing' = closing \cup idle[k]
  /\ idle' = [idle EXCEPT ![k] = {}]
  /\ StartRefill(k)
  /\ UNCHANGED <<stamp, puts, horizon, warmVars, given, closed, stopVars>>

-----------------------------------------------------------------------------
(* refill: count the gap once under the lock, then dial that many times.   *)
RefillCount(r) ==
  /\ pc[r] = "count"
  /\ LET have == Cardinality(idle[key[r]]) IN
       IF have >= PoolSize
         THEN /\ pc' = [pc EXCEPT ![r] = "off"]
              /\ UNCHANGED left
         ELSE /\ pc' = [pc EXCEPT ![r] = "dial"]
              /\ left' = [left EXCEPT ![r] = PoolSize - have]
  /\ UNCHANGED <<bucketVars, horizon, key, hand, warmVars, given, closing,
                 closed, stopVars>>

RefillDial(r) ==
  /\ pc[r] = "dial"
  /\ \/ \E c \in Unborn :
          /\ hand' = [hand EXCEPT ![r] = c]
          /\ pc' = [pc EXCEPT ![r] = "put"]
     \/ pc' = [pc EXCEPT ![r] = "off"] /\ UNCHANGED hand
  /\ UNCHANGED <<bucketVars, horizon, key, left, warmVars, given, closing,
                 closed, stopVars>>

(* Mutant: the loop bound is i <= needed.                                  *)
RefillPutOneMore(r) ==
  /\ pc[r] = "put"
  /\ Put(key[r], hand[r])
  /\ hand' = [hand EXCEPT ![r] = None]
  /\ left' = [left EXCEPT ![r] = @ - 1]
  /\ pc' = [pc EXCEPT ![r] = IF left[r] = 0 THEN "off" ELSE "dial"]
  /\ UNCHANGED <<horizon, key, warmVars, given, closed, stopVars>>

RefillPut(r) ==
  /\ pc[r] = "put"
  /\ Put(key[r], hand[r])
  /\ hand' = [hand EXCEPT ![r] = None]
  /\ left' = [left EXCEPT ![r] = @ - 1]
  /\ pc' = [pc EXCEPT ![r] = IF left[r] = 1 THEN "off" ELSE "dial"]
  /\ UNCHANGED <<horizon, key, warmVars, given, closed, stopVars>>

(* warmupPool: one dial, then the connection goes to the pool.             *)
WarmDial(k) ==
  /\ warm[k] = "dial"
  /\ \/ \E c \in Unborn :
          /\ warmHand' = [warmHand EXCEPT ![k] = c]
          /\ warm' = [warm EXCEPT ![k] = "put"]
     \/ warm' = [warm EXCEPT ![k] = "off"] /\ UNCHANGED warmHand
  /\ UNCHANGED <<bucketVars, horizon, refillVars, given, closing, closed,
                 stopVars>>

WarmPut(k) ==
  /\ warm[k] = "put"
  /\ Put(k, warmHand[k])
  /\ warmHand' = [warmHand EXCEPT ![k] = None]
  /\ warm' = [warm EXCEPT ![k] = "off"]
  /\ UNCHANGED <<horizon, refillVars, given, closed, stopVars>>

-----------------------------------------------------------------------------
(* Mutant: rotate closes the expired connections and keeps them pooled.    *)
RotateKeeps ==
  /\ rotating
  /\ closing' = closing \cup {c \in Idle : Expired(c) /\ c \notin closed}
  /\ UNCHANGED <<bucketVars, horizon, refillVars, warmVars, given, closed, stopVars>>

Rotate ==
  /\ rotating
  /\ idle' = [k \in Key |-> {c \in idle[k] : ~Expired(c)}]
  /\ closing' = closing \cup {c \in Idle : Expired(c)}
  /\ UNCHANGED <<stamp, puts, horizon, refillVars, warmVars, given, closed,
                 stopVars>>

(* Server.Stop cancels the context, and only then sweeps the pool.         *)
Cancel ==
  /\ stop = "no"
  /\ stop' = "cancelled"
  /\ UNCHANGED <<bucketVars, horizon, refillVars, warmVars, given, closing,
                 closed, rotating>>

RotationEnds ==
  /\ rotating
  /\ stop # "no"
  /\ rotating' = FALSE
  /\ UNCHANGED <<bucketVars, horizon, refillVars, warmVars, given, closing,
                 closed, stop>>

(* Mutant: CloseAll closes every connection and forgets to empty the map.  *)
CloseAllKeeps ==
  /\ stop = "cancelled"
  /\ stop' = "swept"
  /\ closing' = closing \cup Idle
  /\ UNCHANGED <<bucketVars, horizon, refillVars, warmVars, given, closed, rotating>>

CloseAll ==
  /\ stop = "cancelled"
  /\ stop' = "swept"
  /\ closing' = closing \cup Idle
  /\ idle' = [k \in Key |-> {}]
  /\ UNCHANGED <<stamp, puts, horizon, refillVars, warmVars, given, closed,
                 rotating>>

(* The client is done with the connection: handleClient's deferred Close.  *)
Release(c) ==
  /\ c \in given
  /\ given' = given \ {c}
  /\ closed' = closed \cup {c}
  /\ UNCHANGED <<bucketVars, horizon, refillVars, warmVars, closing, stopVars>>

Close(c) ==
  /\ c \in closing
  /\ closing' = closing \ {c}
  /\ closed' = closed \cup {c}
  /\ UNCHANGED <<bucketVars, horizon, refillVars, warmVars, given, stopVars>>

(* Time passes: the connections of the oldest Puts outlive maxAge.         *)
Age ==
  /\ \E h \in (horizon + 1)..puts : horizon' = h
  /\ UNCHANGED <<bucketVars, refillVars, warmVars, given, closing, closed,
                 stopVars>>

Next ==
  \/ \E k \in Key : GetHit(k) \/ GetMiss(k)
  \/ \E r \in Refiller : RefillCount(r) \/ RefillDial(r) \/ RefillPut(r)
  \/ \E k \in WarmKey : WarmDial(k) \/ WarmPut(k)
  \/ Rotate \/ Cancel \/ RotationEnds \/ CloseAll
  \/ \E c \in WS : Release(c) \/ Close(c)
  \/ Age

Spec == Init /\ [][Next]_vars

(* Goroutines that can run do run; clients, time and Stop promise nothing. *)
Fairness ==
  /\ \A r \in Refiller :
       WF_vars(RefillCount(r)) /\ WF_vars(RefillDial(r)) /\ WF_vars(RefillPut(r))
  /\ \A k \in WarmKey : WF_vars(WarmDial(k)) /\ WF_vars(WarmPut(k))
  /\ WF_vars(Rotate)
  /\ WF_vars(RotationEnds)
  /\ \A c \in WS : WF_vars(Close(c))

FairSpec == Spec /\ Fairness

-----------------------------------------------------------------------------
TypeOK ==
  /\ idle \in [Key -> SUBSET WS]
  /\ stamp \in [WS -> Nat]
  /\ puts \in Nat
  /\ horizon \in Nat
  /\ pc \in [Refiller -> {"off", "count", "dial", "put"}]
  /\ key \in [Refiller -> Key]
  /\ left \in [Refiller -> Nat]
  /\ hand \in [Refiller -> WS \cup {None}]
  /\ warm \in [WarmKey -> {"dial", "put", "off"}]
  /\ warmHand \in [WarmKey -> WS \cup {None}]
  /\ given \in SUBSET WS
  /\ closing \in SUBSET WS
  /\ closed \in SUBSET WS
  /\ stop \in {"no", "cancelled", "swept"}
  /\ rotating \in BOOLEAN

(* Refills count the gap, unlock, dial and Put later, several of them for  *)
(* one key at a time, yet no bucket ever exceeds pool_size (pool.go:80).   *)
Capacity == \A k \in Key : Cardinality(idle[k]) <= PoolSize

(* No connection has two owners: it is pooled under at most one key, held  *)
(* by at most one goroutine, and never pooled, in use by a client and being *)
(* closed at once (pool.go:44-86, server.go:184-199).                      *)
SoleOwner ==
  /\ \A j, k \in Key : j # k => idle[j] \cap idle[k] = {}
  /\ \A r, s \in Refiller : r # s /\ hand[r] # None => hand[r] # hand[s]
  /\ \A j, k \in WarmKey : j # k /\ warmHand[j] # None => warmHand[j] # warmHand[k]
  /\ \A r \in Refiller, k \in WarmKey : hand[r] # None => hand[r] # warmHand[k]
  /\ Idle \cap (Held \cup given \cup closing \cup closed) = {}
  /\ Held \cap (given \cup closing \cup closed) = {}
  /\ given \cap (closing \cup closed) = {}
  /\ closing \cap closed = {}

(* A client is handed the oldest connection of a bucket that is still      *)
(* fresh: never one past maxAge.  What stays behind in the bucket is       *)
(* younger, and whatever else leaves with it had expired (pool.go:50-64).  *)
HandsOutOldestFresh ==
  [][\A c \in given' \ given :
       /\ ~Expired(c)
       /\ \A k \in Key : c \in idle[k] =>
            /\ \A d \in idle'[k] : stamp[d] > stamp[c]
            /\ \A d \in idle[k] \ idle'[k] : d = c \/ Expired(d)]_vars

(* While the server runs, a connection that outlives maxAge in the pool    *)
(* leaves it, even if no client ever asks for its key (pool.go:125-141).   *)
ExpiredLeaves ==
  \A c \in WS :
    (c \in Idle /\ Expired(c) /\ stop = "no") ~> (c \notin Idle \/ stop # "no")

(* Every connection moves through the places of ConnPool, one owner at a   *)
(* time, and buckets respect their bound: Pool implements ConnPool.        *)
Place ==
  [c \in WS |->
     IF c \in Idle THEN CHOOSE k \in Key : c \in idle[k]
     ELSE IF c \in Held THEN "held"
     ELSE IF c \in given THEN "client"
     ELSE IF c \in closing THEN "closing"
     ELSE IF c \in closed THEN "closed" ELSE "unborn"]

CP == INSTANCE ConnPool WITH place <- Place

ImplementsConnPool == CP!Spec
=============================================================================
