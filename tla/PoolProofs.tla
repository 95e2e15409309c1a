----------------------------- MODULE PoolProofs -----------------------------
(***************************************************************************)
(* Proofs about Pool for every number of connections, keys, refillers and  *)
(* every pool size; and that Pool implements ConnPool: under the mapping   *)
(* Place every step of the pool and its goroutines moves connections as    *)
(* ConnPool allows, or moves none.                                         *)
(***************************************************************************)
EXTENDS Pool, FiniteSetTheorems, TLAPS

(* What the goroutines' program counters say about what they hold.         *)
HandsMatch ==
  /\ \A r \in Refiller : (pc[r] = "put") <=> (hand[r] # None)
  /\ \A r \in Refiller : pc[r] \in {"dial", "put"} => left[r] >= 1
  /\ \A k \in WarmKey : (warm[k] = "put") <=> (warmHand[k] # None)

(* The stamps order a bucket, and the next Put is later than all of them.  *)
StampsOrder ==
  /\ \A c \in Idle : stamp[c] < puts
  /\ \A c, d \in Idle : c # d => stamp[c] # stamp[d]

PoolInv == TypeOK /\ HandsMatch /\ StampsOrder /\ Capacity /\ SoleOwner

-----------------------------------------------------------------------------
(* A connection is idle when some bucket has it.                           *)
LEMMA InIdle == \A c : c \in Idle <=> \E k \in Key : c \in idle[k]
BY DEF Idle

(* A connection is held when some goroutine has it.                        *)
LEMMA InHeld ==
  \A c \in WS : c \in Held <=> \/ \E r \in Refiller : hand[r] = c
                               \/ \E k \in WarmKey : warmHand[k] = c
BY DEF Held

(* Buckets are finite.                                                     *)
LEMMA BucketFinite == TypeOK => \A k \in Key : IsFiniteSet(idle[k])
BY PoolAssumption, FS_Subset DEF TypeOK

(* A bucket that shrinks stays within its bound.                           *)
LEMMA ShrinkKeepsCapacity ==
  ASSUME TypeOK, Capacity, TypeOK', \A k \in Key : idle'[k] \subseteq idle[k]
  PROVE  Capacity'
<1> SUFFICES ASSUME NEW k \in Key PROVE Cardinality(idle'[k]) <= PoolSize
  BY DEF Capacity
<1>1. IsFiniteSet(idle[k]) BY BucketFinite
<1>2. Cardinality(idle'[k]) <= Cardinality(idle[k]) BY <1>1, FS_Subset
<1>3. Cardinality(idle[k]) \in Nat /\ Cardinality(idle'[k]) \in Nat
  BY <1>1, FS_Subset, FS_CardinalityType
<1> QED BY <1>2, <1>3, PoolAssumption DEF Capacity

(* Put never takes a bucket past PoolSize.                                 *)
LEMMA PutKeepsCapacity ==
  ASSUME TypeOK, Capacity, NEW k \in Key, NEW c \in WS, Put(k, c)
  PROVE  Capacity'
<1>1. CASE UNCHANGED idle BY <1>1 DEF Capacity
<1>2. CASE /\ Cardinality(idle[k]) < PoolSize
           /\ idle' = [idle EXCEPT ![k] = @ \cup {c}]
  <2>1. IsFiniteSet(idle[k]) BY BucketFinite
  <2>2. Cardinality(idle[k]) \in Nat BY <2>1, FS_CardinalityType
  <2>3. Cardinality(idle[k] \cup {c}) <= Cardinality(idle[k]) + 1
    BY <2>1, <2>2, FS_AddElement
  <2>4. Cardinality(idle[k] \cup {c}) \in Nat
    BY <2>1, FS_AddElement, FS_CardinalityType
  <2>5. idle'[k] = idle[k] \cup {c} BY <1>2 DEF TypeOK
  <2>6. Cardinality(idle'[k]) <= PoolSize
    <3>1. PoolSize \in Nat BY PoolAssumption
    <3>2. Cardinality(idle[k] \cup {c}) <= PoolSize
      BY ONLY <1>2, <2>2, <2>3, <2>4, <3>1
    <3> QED BY ONLY <3>2, <2>5
  <2>7. \A j \in Key \ {k} : idle'[j] = idle[j] BY <1>2 DEF TypeOK
  <2> QED BY <2>6, <2>7 DEF Capacity
<1> QED BY <1>1, <1>2 DEF Put, bucketVars

-----------------------------------------------------------------------------
(* It holds for an empty pool.                                             *)
LEMMA InitInv == Init => PoolInv
<1> SUFFICES ASSUME Init PROVE PoolInv OBVIOUS
<1>1. TypeOK BY PoolAssumption DEF Init, TypeOK
<1>2. HandsMatch BY DEF Init, HandsMatch
<1>3. Idle = {} BY DEF Init, Idle
<1>4. StampsOrder BY <1>3 DEF StampsOrder
<1>5. Capacity BY FS_EmptySet, PoolAssumption DEF Init, Capacity
<1>6. Held = {} BY PoolAssumption DEF Init, Held
<1>7. SoleOwner BY <1>3, <1>6 DEF Init, SoleOwner
<1> QED BY <1>1, <1>2, <1>4, <1>5, <1>7 DEF PoolInv

(* Every step keeps the types.                                             *)
LEMMA TypeStep == TypeOK /\ HandsMatch /\ [Next]_vars => TypeOK'
<1> SUFFICES ASSUME TypeOK, HandsMatch, [Next]_vars PROVE TypeOK' OBVIOUS
<1> USE DEF TypeOK
<1>1. ASSUME NEW k \in Key, GetHit(k) PROVE TypeOK'
  BY <1>1 DEF GetHit, StartRefill, FirstFresh, warmVars, stopVars
<1>2. ASSUME NEW k \in Key, GetMiss(k) PROVE TypeOK'
  BY <1>2 DEF GetMiss, StartRefill, warmVars, stopVars
<1>3. ASSUME NEW r \in Refiller, RefillCount(r) PROVE TypeOK'
  <2>1. Cardinality(idle[key[r]]) \in Nat
    BY BucketFinite, FS_CardinalityType
  <2> QED BY <1>3, <2>1, PoolAssumption
       DEF RefillCount, bucketVars, warmVars, stopVars
<1>4. ASSUME NEW r \in Refiller, RefillDial(r) PROVE TypeOK'
  BY <1>4 DEF RefillDial, Unborn, bucketVars, warmVars, stopVars
<1>5. ASSUME NEW r \in Refiller, RefillPut(r) PROVE TypeOK'
  <2>1. hand[r] \in WS /\ left[r] - 1 \in Nat
    BY <1>5, PoolAssumption DEF RefillPut, HandsMatch
  <2> QED BY <1>5, <2>1 DEF RefillPut, Put, bucketVars, warmVars, stopVars
<1>6. ASSUME NEW k \in WarmKey, WarmDial(k) PROVE TypeOK'
  BY <1>6 DEF WarmDial, Unborn, bucketVars, refillVars, stopVars
<1>7. ASSUME NEW k \in WarmKey, WarmPut(k) PROVE TypeOK'
  <2>1. warmHand[k] \in WS /\ k \in Key
    BY <1>7, PoolAssumption DEF WarmPut, HandsMatch
  <2> QED BY <1>7, <2>1 DEF WarmPut, Put, bucketVars, refillVars, stopVars
<1>8. CASE Rotate
  BY <1>8, InIdle DEF Rotate, Idle, refillVars, warmVars, stopVars
<1>9. CASE Cancel \/ RotationEnds
  BY <1>9 DEF Cancel, RotationEnds, bucketVars, refillVars, warmVars
<1>10. CASE CloseAll
  BY <1>10, InIdle DEF CloseAll, refillVars, warmVars
<1>11. ASSUME NEW c \in WS, Release(c) \/ Close(c) PROVE TypeOK'
  BY <1>11 DEF Release, Close, bucketVars, refillVars, warmVars, stopVars
<1>12. CASE Age
  BY <1>12 DEF Age, bucketVars, refillVars, warmVars, stopVars
<1>13. CASE UNCHANGED vars
  BY <1>13 DEF vars, bucketVars, refillVars, warmVars, stopVars
<1> QED BY <1>1, <1>2, <1>3, <1>4, <1>5, <1>6, <1>7, <1>8, <1>9, <1>10,
           <1>11, <1>12, <1>13 DEF Next

(* Every step keeps what goroutines hold in hand.                          *)
LEMMA HandsStep == TypeOK /\ HandsMatch /\ [Next]_vars => HandsMatch'
<1> SUFFICES ASSUME TypeOK, HandsMatch, [Next]_vars PROVE HandsMatch' OBVIOUS
<1> USE DEF HandsMatch
<1>1. ASSUME NEW k \in Key, GetHit(k) \/ GetMiss(k) PROVE HandsMatch'
  BY <1>1 DEF GetHit, GetMiss, StartRefill, warmVars, TypeOK
<1>2. ASSUME NEW r \in Refiller, RefillCount(r) PROVE HandsMatch'
  <2>1. Cardinality(idle[key[r]]) \in Nat
    BY BucketFinite, FS_CardinalityType DEF TypeOK
  <2> DEFINE have == Cardinality(idle[key[r]])
  <2>2. have < PoolSize => PoolSize - have >= 1 BY <2>1, PoolAssumption
  <2>3. have >= PoolSize \/ have < PoolSize BY <2>1, PoolAssumption
  <2> QED BY <1>2, <2>2, <2>3 DEF RefillCount, warmVars, TypeOK
<1>3. ASSUME NEW r \in Refiller, RefillDial(r) PROVE HandsMatch'
  BY <1>3, PoolAssumption DEF RefillDial, Unborn, warmVars, TypeOK
<1>4. ASSUME NEW r \in Refiller, RefillPut(r) PROVE HandsMatch'
  BY <1>4 DEF RefillPut, warmVars, TypeOK
<1>5. ASSUME NEW k \in WarmKey, WarmDial(k) PROVE HandsMatch'
  BY <1>5, PoolAssumption DEF WarmDial, Unborn, refillVars, TypeOK
<1>6. ASSUME NEW k \in WarmKey, WarmPut(k) PROVE HandsMatch'
  BY <1>6 DEF WarmPut, refillVars, TypeOK
<1>7. CASE UNCHANGED <<refillVars, warmVars>>
  BY <1>7 DEF refillVars, warmVars
<1> QED BY <1>1, <1>2, <1>3, <1>4, <1>5, <1>6, <1>7
        DEF Next, vars, Rotate, Cancel, RotationEnds, CloseAll, Release, Close, Age

(* Put adds a connection nobody pools, stamped later than all the others.  *)
LEMMA PutKeepsOrder ==
  ASSUME TypeOK, StampsOrder, NEW k \in Key, NEW c \in WS, c \notin Idle, Put(k, c)
  PROVE  StampsOrder'
<1>1. CASE UNCHANGED bucketVars
  BY <1>1 DEF bucketVars, StampsOrder, Idle
<1>2. CASE /\ idle' = [idle EXCEPT ![k] = @ \cup {c}]
           /\ stamp' = [stamp EXCEPT ![c] = puts]
           /\ puts' = puts + 1
  <2>1. Idle' = Idle \cup {c} BY <1>2 DEF Idle, TypeOK
  <2>2. Idle \subseteq WS BY DEF Idle, TypeOK
  <2>3. \A d \in Idle : stamp'[d] = stamp[d] /\ stamp[d] \in Nat
    BY <1>2, <2>2 DEF TypeOK
  <2>4. stamp'[c] = puts BY <1>2 DEF TypeOK
  <2> QED BY <1>2, <2>1, <2>3, <2>4 DEF StampsOrder, TypeOK
<1> QED BY <1>1, <1>2 DEF Put

(* Every step keeps the order of stamps.                                   *)
LEMMA OrderStep == PoolInv /\ [Next]_vars => StampsOrder'
<1> SUFFICES ASSUME PoolInv, [Next]_vars PROVE StampsOrder' OBVIOUS
<1> USE DEF PoolInv
<1>1. ASSUME UNCHANGED <<stamp, puts>>, \A k \in Key : idle'[k] \subseteq idle[k]
      PROVE  StampsOrder'
  BY <1>1 DEF StampsOrder, Idle
<1>2. ASSUME NEW k \in Key, GetHit(k) \/ GetMiss(k) PROVE StampsOrder'
  BY <1>1, <1>2 DEF GetHit, GetMiss, TypeOK
<1>3. ASSUME NEW r \in Refiller, RefillPut(r) PROVE StampsOrder'
  <2>1. hand[r] \in WS /\ key[r] \in Key /\ hand[r] \notin Idle
    BY <1>3 DEF RefillPut, HandsMatch, SoleOwner, Held, TypeOK
  <2> QED BY <1>3, <2>1, PutKeepsOrder DEF RefillPut
<1>4. ASSUME NEW k \in WarmKey, WarmPut(k) PROVE StampsOrder'
  <2>1. warmHand[k] \in WS /\ k \in Key /\ warmHand[k] \notin Idle
    BY <1>4, PoolAssumption DEF WarmPut, HandsMatch, SoleOwner, Held, TypeOK
  <2> QED BY <1>4, <2>1, PutKeepsOrder DEF WarmPut
<1>5. CASE Rotate \/ CloseAll
  BY <1>1, <1>5 DEF Rotate, CloseAll, TypeOK
<1>6. CASE UNCHANGED bucketVars
  BY <1>1, <1>6 DEF bucketVars
<1> QED BY <1>2, <1>3, <1>4, <1>5, <1>6
        DEF Next, vars, RefillCount, RefillDial, WarmDial, Cancel, RotationEnds,
            Release, Close, Age

(* No step overfills a bucket (pool.go:74-107).                            *)
LEMMA CapacityStep == PoolInv /\ TypeOK' /\ [Next]_vars => Capacity'
<1> SUFFICES ASSUME PoolInv, TypeOK', [Next]_vars PROVE Capacity' OBVIOUS
<1> USE DEF PoolInv
<1>1. ASSUME NEW k \in Key, GetHit(k) \/ GetMiss(k) PROVE Capacity'
  BY <1>1, ShrinkKeepsCapacity DEF GetHit, GetMiss, TypeOK
<1>2. ASSUME NEW r \in Refiller, RefillPut(r) PROVE Capacity'
  <2>1. hand[r] \in WS /\ key[r] \in Key
    BY <1>2 DEF RefillPut, HandsMatch, TypeOK
  <2> QED BY <1>2, <2>1, PutKeepsCapacity DEF RefillPut
<1>3. ASSUME NEW k \in WarmKey, WarmPut(k) PROVE Capacity'
  <2>1. warmHand[k] \in WS /\ k \in Key
    BY <1>3, PoolAssumption DEF WarmPut, HandsMatch, TypeOK
  <2> QED BY <1>3, <2>1, PutKeepsCapacity DEF WarmPut
<1>4. CASE Rotate \/ CloseAll
  BY <1>4, ShrinkKeepsCapacity DEF Rotate, CloseAll, TypeOK
<1>5. CASE UNCHANGED idle
  BY <1>5 DEF Capacity
<1> QED BY <1>1, <1>2, <1>3, <1>4, <1>5
        DEF Next, vars, bucketVars, RefillCount, RefillDial, WarmDial, Cancel,
            RotationEnds, Release, Close, Age
(* Put moves a connection from its goroutine to the pool or to its closer. *)
LEMMA OwnerStep == PoolInv /\ [Next]_vars => SoleOwner'
<1> SUFFICES ASSUME PoolInv, [Next]_vars PROVE SoleOwner' OBVIOUS
<1> USE DEF PoolInv
<1>1. ASSUME NEW k \in Key, GetHit(k) PROVE SoleOwner'
  <2>1. PICK c \in idle[k] :
           LET skipped == {d \in idle[k] : stamp[d] < stamp[c]} IN
             /\ idle' = [idle EXCEPT ![k] = @ \ (skipped \cup {c})]
             /\ closing' = closing \cup skipped
             /\ given' = given \cup {c}
    BY <1>1 DEF GetHit
  <2>2. UNCHANGED <<hand, warmHand, closed>>
    BY <1>1 DEF GetHit, StartRefill, warmVars
  <2>3. Held' = Held BY <2>2 DEF Held
  <2>4. c \in Idle /\ c \notin closing' /\ c \notin Idle'
        /\ Idle' \subseteq Idle
        /\ closing' \cap Idle' = {}
        /\ closing' \subseteq closing \cup Idle
    BY <2>1 DEF Idle, SoleOwner, TypeOK
  <2>5. \A i, j \in Key : i # j => idle'[i] \cap idle'[j] = {}
    BY <2>1 DEF SoleOwner, TypeOK
  <2> QED BY <2>1, <2>2, <2>3, <2>4, <2>5 DEF SoleOwner
<1>2. ASSUME NEW swept \in SUBSET Idle,
             closing' = closing \cup swept,
             \A k \in Key : idle'[k] = idle[k] \ swept,
             UNCHANGED <<hand, warmHand, given, closed>>
      PROVE  SoleOwner'
  <2>1. Held' = Held /\ Idle' = Idle \ swept BY <1>2 DEF Held, Idle
  <2>2. \A i, j \in Key : i # j => idle'[i] \cap idle'[j] = {}
    BY <1>2 DEF SoleOwner
  <2> QED BY <1>2, <2>1, <2>2 DEF SoleOwner
<1>3. ASSUME NEW k \in Key, GetMiss(k) PROVE SoleOwner'
  <2>1. \A j \in Key : idle'[j] = idle[j] \ idle[k]
    BY <1>3 DEF GetMiss, SoleOwner, TypeOK
  <2> QED BY <1>2, <1>3, <2>1 DEF GetMiss, StartRefill, warmVars, Idle
<1>4. CASE Rotate
  <2> DEFINE old == {c \in Idle : Expired(c)}
  <2>1. \A j \in Key : idle'[j] = idle[j] \ old
    BY <1>4 DEF Rotate, Idle, TypeOK
  <2> QED BY <1>2, <1>4, <2>1 DEF Rotate, refillVars, warmVars
<1>5. CASE CloseAll
  <2>1. \A j \in Key : idle'[j] = idle[j] \ Idle
    BY <1>5 DEF CloseAll, Idle
  <2> QED BY <1>2, <1>5, <2>1 DEF CloseAll, refillVars, warmVars
<1>6. ASSUME NEW r \in Refiller, RefillDial(r) PROVE SoleOwner'
  <2>1. CASE UNCHANGED hand
    <3>1. Held' = Held /\ Idle' = Idle
      BY <1>6, <2>1 DEF RefillDial, bucketVars, warmVars, Held, Idle
    <3> QED BY <1>6, <2>1, <3>1 DEF RefillDial, bucketVars, warmVars, SoleOwner
  <2>2. CASE \E c \in Unborn : hand' = [hand EXCEPT ![r] = c]
    <3>1. PICK c \in Unborn : hand' = [hand EXCEPT ![r] = c] BY <2>2
    <3>2. c \in WS /\ c # None BY PoolAssumption DEF Unborn
    <3>3. Idle' = Idle BY <1>6 DEF RefillDial, bucketVars, Idle
    <3>4. Held' \subseteq Held \cup {c}
      BY <1>6, <3>1, <3>2 DEF RefillDial, warmVars, Held, TypeOK
    <3>5. \A s \in Refiller : hand[s] # c
      BY <3>2 DEF Unborn, Held
    <3>6. \A k \in WarmKey : warmHand[k] # c
      BY <3>2 DEF Unborn, Held
    <3>7. \A s \in Refiller : hand'[s] = IF s = r THEN c ELSE hand[s]
      BY <3>1 DEF TypeOK
    <3>8. \A s, t \in Refiller : s # t /\ hand'[s] # None => hand'[s] # hand'[t]
      BY <3>2, <3>5, <3>7 DEF SoleOwner
    <3>9. \A s \in Refiller, k \in WarmKey : hand'[s] # None => hand'[s] # warmHand[k]
      BY <3>6, <3>7 DEF SoleOwner
    <3> QED BY <1>6, <3>3, <3>4, <3>8, <3>9
            DEF RefillDial, bucketVars, warmVars, SoleOwner, Unborn
  <2> QED BY <1>6, <2>1, <2>2 DEF RefillDial
<1>7. ASSUME NEW k \in WarmKey, WarmDial(k) PROVE SoleOwner'
  <2>1. CASE UNCHANGED warmHand
    <3>1. Held' = Held /\ Idle' = Idle
      BY <1>7, <2>1 DEF WarmDial, bucketVars, refillVars, Held, Idle
    <3> QED BY <1>7, <2>1, <3>1 DEF WarmDial, bucketVars, refillVars, SoleOwner
  <2>2. CASE \E c \in Unborn : warmHand' = [warmHand EXCEPT ![k] = c]
    <3>1. PICK c \in Unborn : warmHand' = [warmHand EXCEPT ![k] = c] BY <2>2
    <3>2. c \in WS /\ c # None BY PoolAssumption DEF Unborn
    <3>3. Idle' = Idle BY <1>7 DEF WarmDial, bucketVars, Idle
    <3>4. Held' \subseteq Held \cup {c}
      BY <1>7, <3>1, <3>2 DEF WarmDial, refillVars, Held, TypeOK
    <3>5. \A s \in Refiller : hand[s] # c
      BY <3>2 DEF Unborn, Held
    <3>6. \A j \in WarmKey : warmHand[j] # c
      BY <3>2 DEF Unborn, Held
    <3>7. \A j \in WarmKey : warmHand'[j] = IF j = k THEN c ELSE warmHand[j]
      BY <3>1 DEF TypeOK
    <3>8. \A i, j \in WarmKey : i # j /\ warmHand'[i] # None => warmHand'[i] # warmHand'[j]
      BY <3>2, <3>6, <3>7 DEF SoleOwner
    <3>9. \A s \in Refiller, j \in WarmKey : hand[s] # None => hand[s] # warmHand'[j]
      BY <3>5, <3>7 DEF SoleOwner
    <3> QED BY <1>7, <3>3, <3>4, <3>8, <3>9
            DEF WarmDial, bucketVars, refillVars, SoleOwner, Unborn
  <2> QED BY <1>7, <2>1, <2>2 DEF WarmDial
<1>8. ASSUME NEW c \in WS, Release(c) \/ Close(c) PROVE SoleOwner'
  <2>1. Held' = Held /\ Idle' = Idle
    BY <1>8 DEF Release, Close, bucketVars, refillVars, warmVars, Held, Idle
  <2> QED BY <1>8, <2>1
          DEF Release, Close, bucketVars, refillVars, warmVars, SoleOwner
<1>9. ASSUME NEW k \in Key, NEW c \in Held, Put(k, c), UNCHANGED <<given, closed>>,
             Held' = Held \ {c},
             \A r \in Refiller : hand'[r] \in {hand[r], None},
             \A j \in WarmKey : warmHand'[j] \in {warmHand[j], None}
      PROVE  SoleOwner'
  <2>1. /\ \A i, j \in Key : i # j => idle'[i] \cap idle'[j] = {}
        /\ \/ Idle' = Idle /\ closing' = closing \cup {c}
           \/ Idle' = Idle \cup {c} /\ closing' = closing
    <3>1. c \notin Idle BY <1>9 DEF SoleOwner
    <3>2. CASE UNCHANGED bucketVars /\ closing' = closing \cup {c}
      BY <3>2 DEF bucketVars, SoleOwner, Idle
    <3>3. CASE idle' = [idle EXCEPT ![k] = @ \cup {c}] /\ closing' = closing
      <4>1. \A j \in Key : idle'[j] = IF j = k THEN idle[k] \cup {c} ELSE idle[j]
        BY <3>3 DEF TypeOK
      <4>2. Idle' = Idle \cup {c} BY <4>1 DEF Idle
      <4>3. \A j \in Key : c \notin idle[j] BY <3>1 DEF Idle
      <4> QED BY <3>3, <4>1, <4>2, <4>3 DEF SoleOwner
    <3> QED BY <1>9, <3>2, <3>3 DEF Put
  <2>2. /\ \A r, s \in Refiller : r # s /\ hand'[r] # None => hand'[r] # hand'[s]
        /\ \A i, j \in WarmKey : i # j /\ warmHand'[i] # None => warmHand'[i] # warmHand'[j]
        /\ \A r \in Refiller, j \in WarmKey : hand'[r] # None => hand'[r] # warmHand'[j]
    BY <1>9 DEF SoleOwner
  <2> QED BY <1>9, <2>1, <2>2 DEF SoleOwner
<1>10. ASSUME NEW r \in Refiller, RefillPut(r) PROVE SoleOwner'
  <2>1. hand[r] \in WS /\ hand[r] # None /\ key[r] \in Key
    BY <1>10, PoolAssumption DEF RefillPut, HandsMatch, TypeOK
  <2>2. hand[r] \in Held BY <2>1 DEF Held
  <2>3. \A s \in Refiller : hand'[s] = IF s = r THEN None ELSE hand[s]
    BY <1>10 DEF RefillPut, TypeOK
  <2>4. UNCHANGED <<warmHand, given, closed>> BY <1>10 DEF RefillPut, warmVars
  <2>5. Held' = Held \ {hand[r]}
    BY <2>1, <2>3, <2>4, PoolAssumption DEF Held, SoleOwner
  <2> QED BY <1>9, <1>10, <2>1, <2>2, <2>3, <2>4, <2>5 DEF RefillPut
<1>11. ASSUME NEW k \in WarmKey, WarmPut(k) PROVE SoleOwner'
  <2>1. warmHand[k] \in WS /\ warmHand[k] # None /\ k \in Key
    BY <1>11, PoolAssumption DEF WarmPut, HandsMatch, TypeOK
  <2>2. warmHand[k] \in Held BY <2>1 DEF Held
  <2>3. \A j \in WarmKey : warmHand'[j] = IF j = k THEN None ELSE warmHand[j]
    BY <1>11 DEF WarmPut, TypeOK
  <2>4. UNCHANGED <<hand, given, closed>> BY <1>11 DEF WarmPut, refillVars
  <2>5. Held' = Held \ {warmHand[k]}
    BY <2>1, <2>3, <2>4, PoolAssumption DEF Held, SoleOwner
  <2> QED BY <1>9, <1>11, <2>1, <2>2, <2>3, <2>4, <2>5 DEF WarmPut
<1>12. CASE UNCHANGED <<idle, hand, warmHand, given, closing, closed>>
  BY <1>12 DEF SoleOwner, Idle, Held
<1> QED BY <1>1, <1>3, <1>4, <1>5, <1>6, <1>7, <1>8, <1>10, <1>11, <1>12
        DEF Next, vars, bucketVars, refillVars, warmVars, RefillCount, Cancel,
            RotationEnds, Age

-----------------------------------------------------------------------------
(* Every step keeps the invariant.                                         *)
LEMMA InvStep == PoolInv /\ [Next]_vars => PoolInv'
BY TypeStep, HandsStep, OrderStep, CapacityStep, OwnerStep DEF PoolInv

(* So it holds throughout.                                                 *)
LEMMA InvAlways == Spec => []PoolInv
BY InitInv, InvStep, PTL DEF Spec

(* Every variable keeps its type, whatever the number of goroutines.       *)
THEOREM TypeCorrect == Spec => []TypeOK
BY InvAlways, PTL DEF PoolInv

(* Refills that race each other and the warm-up never overfill a bucket:   *)
(* Put checks the size again under the lock it appends under.              *)
THEOREM BucketsBounded == Spec => []Capacity
BY InvAlways, PTL DEF PoolInv

(* A connection never has two owners: no client is handed a connection     *)
(* that is still pooled, that another client has, or that is being closed. *)
THEOREM OwnersUnique == Spec => []SoleOwner
BY InvAlways, PTL DEF PoolInv

(* Get hands out the oldest fresh connection of its bucket, leaves only    *)
(* younger ones behind and drops only expired ones.                        *)
THEOREM OldestFresh == Spec => HandsOutOldestFresh
<1> DEFINE Hands == \A c \in given' \ given :
                      /\ ~Expired(c)
                      /\ \A k \in Key : c \in idle[k] =>
                           /\ \A d \in idle'[k] : stamp[d] > stamp[c]
                           /\ \A d \in idle[k] \ idle'[k] : d = c \/ Expired(d)
<1>1. PoolInv /\ [Next]_vars => [Hands]_vars
  <2> SUFFICES ASSUME PoolInv, [Next]_vars, NEW c \in given' \ given
               PROVE  /\ ~Expired(c)
                      /\ \A k \in Key : c \in idle[k] =>
                           /\ \A d \in idle'[k] : stamp[d] > stamp[c]
                           /\ \A d \in idle[k] \ idle'[k] : d = c \/ Expired(d)
    OBVIOUS
  <2>1. ASSUME NEW j \in Key, GetHit(j)
        PROVE  /\ ~Expired(c)
               /\ \A k \in Key : c \in idle[k] =>
                    /\ \A d \in idle'[k] : stamp[d] > stamp[c]
                    /\ \A d \in idle[k] \ idle'[k] : d = c \/ Expired(d)
    <3>1. /\ c \in idle[j]
          /\ FirstFresh(j, c)
          /\ idle' = [idle EXCEPT ![j] =
                        @ \ ({d \in idle[j] : stamp[d] < stamp[c]} \cup {c})]
      BY <2>1 DEF GetHit
    <3>2. ASSUME NEW k \in Key, c \in idle[k], NEW d \in idle'[k]
          PROVE  stamp[d] > stamp[c]
      <4>1. k = j BY <3>1, <3>2 DEF PoolInv, SoleOwner
      <4>2. d \in idle[j] /\ d # c /\ ~(stamp[d] < stamp[c])
        BY <3>1, <3>2, <4>1 DEF PoolInv, TypeOK
      <4>3. stamp[d] # stamp[c]
        BY <3>1, <4>2 DEF PoolInv, StampsOrder, Idle
      <4>4. stamp[d] \in Nat /\ stamp[c] \in Nat
        BY <3>1, <4>2 DEF PoolInv, TypeOK
      <4> QED BY <4>2, <4>3, <4>4
    <3>3. ASSUME NEW k \in Key, c \in idle[k], NEW d \in idle[k] \ idle'[k]
          PROVE  d = c \/ Expired(d)
      <4>1. k = j BY <3>1, <3>3 DEF PoolInv, SoleOwner
      <4>2. d \in idle[j] /\ (d = c \/ stamp[d] < stamp[c])
        BY <3>1, <3>3, <4>1 DEF PoolInv, TypeOK
      <4> QED BY <3>1, <4>2 DEF FirstFresh
    <3> QED BY <3>1, <3>2, <3>3 DEF FirstFresh
  <2>2. CASE given' \subseteq given BY <2>2
  <2> QED BY <2>1, <2>2
          DEF Next, vars, GetMiss, RefillCount, RefillDial, RefillPut, WarmDial,
              WarmPut, Rotate, Cancel, RotationEnds, CloseAll, Release, Close, Age
<1> QED BY <1>1, InvAlways, PTL DEF Spec, HandsOutOldestFresh

-----------------------------------------------------------------------------
(* Place read the way SoleOwner lets it be read: each owner has one place. *)
PlaceFacts ==
  /\ \A k \in Key : \A c \in idle[k] : c \in WS /\ Place[c] = k
  /\ \A c \in Held : c \in WS /\ Place[c] = "held"
  /\ \A c \in given : c \in WS /\ Place[c] = "client"
  /\ \A c \in closing : c \in WS /\ Place[c] = "closing"
  /\ \A c \in closed : c \in WS /\ Place[c] = "closed"
  /\ \A c \in Unborn : c \in WS /\ Place[c] = "unborn"
  /\ \A c \in Idle : \E k \in Key : c \in idle[k]

(* What the mapping says of each connection.                               *)
LEMMA PlaceOf == PoolInv => PlaceFacts
<1> SUFFICES ASSUME PoolInv PROVE PlaceFacts OBVIOUS
<1> USE DEF PoolInv
<1>1. ASSUME NEW k \in Key, NEW c \in idle[k] PROVE c \in WS /\ Place[c] = k
  <2>1. c \in WS /\ c \in Idle BY <1>1 DEF TypeOK, Idle
  <2>2. \A j \in Key : c \in idle[j] => j = k BY <1>1 DEF SoleOwner
  <2>3. (CHOOSE j \in Key : c \in idle[j]) = k BY <1>1, <2>2
  <2> QED BY <2>1, <2>3 DEF Place
<1>2. /\ \A c \in Held : c \in WS /\ c \notin Idle
      /\ \A c \in given : c \in WS /\ c \notin Idle /\ c \notin Held
      /\ \A c \in closing : c \in WS /\ c \notin Idle /\ c \notin Held /\ c \notin given
      /\ \A c \in closed : c \in WS /\ c \notin Idle /\ c \notin Held /\ c \notin given
                            /\ c \notin closing
  BY DEF TypeOK, SoleOwner, Held
<1>3. /\ \A c \in Held : Place[c] = "held"
      /\ \A c \in given : Place[c] = "client"
      /\ \A c \in closing : Place[c] = "closing"
      /\ \A c \in closed : Place[c] = "closed"
      /\ \A c \in Unborn : c \in WS /\ Place[c] = "unborn"
  BY <1>2 DEF Place, Unborn
<1> QED BY <1>1, <1>2, <1>3, InIdle DEF PlaceFacts

(* The same after a step.                                                  *)
LEMMA PlaceAfter == PoolInv' => PlaceFacts'
BY PlaceOf, PTL

(* Every connection is in one of the places.                               *)
LEMMA Somewhere ==
  \A c \in WS : c \in Idle \/ c \in Held \/ c \in given \/ c \in closing
                \/ c \in closed \/ c \in Unborn
BY DEF Unborn

(* ConnPool counts with the same cardinality.                              *)
LEMMA SameCardinality == \A S : CP!Cardinality(S) = Cardinality(S)
BY DEF CP!Cardinality, Cardinality

(* The buckets of the two specifications are the same sets.                *)
LEMMA SameBuckets ==
  ASSUME PoolInv
  PROVE  /\ \A k \in Key : CP!IdleUnder(k) = idle[k]
         /\ CP!IdleAnywhere = Idle
<1>1. ASSUME NEW k \in Key, NEW c \in WS PROVE Place[c] = k <=> c \in idle[k]
  BY PlaceOf, Somewhere, PoolAssumption DEF PlaceFacts
<1>2. \A k \in Key : idle[k] \subseteq WS BY DEF PoolInv, TypeOK
<1> QED BY <1>1, <1>2, InIdle DEF CP!IdleUnder, CP!IdleAnywhere

(* Nothing moves when no owner changes.                                    *)
LEMMA SamePlaces ==
  ASSUME UNCHANGED <<idle, hand, warmHand, given, closing, closed>>
  PROVE  UNCHANGED Place
BY DEF Place, Idle, Held

(* An empty pool is an empty ConnPool.                                     *)
LEMMA InitRefines == Init => CP!Init
<1> SUFFICES ASSUME Init PROVE CP!Init OBVIOUS
<1>1. Idle = {} BY DEF Init, Idle
<1>2. \A c \in WS : c \notin Held BY PoolAssumption DEF Init, Held
<1> QED BY <1>1, <1>2 DEF Init, CP!Init, Place

(* One connection c moves to the place p; all the others stay.             *)
LEMMA OneMoves ==
  ASSUME NEW c \in WS, NEW p, Place'[c] = p, \A d \in WS : d # c => Place'[d] = Place[d]
  PROVE  Place' = [Place EXCEPT ![c] = p]
<1>1. Place = [d \in WS |-> Place[d]] BY DEF Place
<1>2. Place' = [d \in WS |-> Place'[d]] BY DEF Place
<1> QED BY <1>1, <1>2

(* A dialled connection is parked, or thrown away because of a full bucket.*)
LEMMA PutRefines ==
  ASSUME PoolInv, PoolInv', NEW k \in Key, NEW c \in Held, Put(k, c),
         Held' = Held \ {c}, UNCHANGED <<given, closed>>
  PROVE  CP!Next
<1> USE PlaceOf, PlaceAfter, Somewhere DEF PlaceFacts
<1>1. c \in WS /\ Place[c] = "held" /\ c \notin Idle BY DEF PoolInv, SoleOwner
<1>2. CASE Cardinality(idle[k]) >= PoolSize /\ closing' = closing \cup {c}
           /\ UNCHANGED bucketVars
  <2>1. CP!Full(k) BY <1>2, SameBuckets, SameCardinality DEF CP!Full
  <2>2. Idle' = Idle BY <1>2 DEF bucketVars, Idle
  <2>3. \A d \in Unborn : d # c => d \in Unborn' BY <1>2, <2>2 DEF Unborn
  <2>4. \A d \in WS : d # c => Place'[d] = Place[d]
    BY <1>2, <2>3 DEF bucketVars
  <2>5. Place' = [Place EXCEPT ![c] = "closing"]
    BY <1>1, <1>2, <2>4, OneMoves
  <2> QED BY <1>1, <2>1, <2>5 DEF CP!Reject, CP!Next
<1>3. CASE Cardinality(idle[k]) < PoolSize /\ idle' = [idle EXCEPT ![k] = @ \cup {c}]
           /\ UNCHANGED closing
  <2>1. ~CP!Full(k)
    <3>1. Cardinality(idle[k]) \in Nat
      BY BucketFinite, FS_CardinalityType DEF PoolInv
    <3>2. CP!IdleUnder(k) = idle[k] BY SameBuckets
    <3> QED BY <1>3, <3>1, <3>2, SameCardinality, PoolAssumption DEF CP!Full
  <2>2. \A j \in Key : idle'[j] = IF j = k THEN idle[k] \cup {c} ELSE idle[j]
    BY <1>3 DEF PoolInv, TypeOK
  <2>3. Idle' = Idle \cup {c} BY <2>2 DEF Idle
  <2>4. \A d \in Unborn : d # c => d \in Unborn' BY <1>3, <2>3 DEF Unborn
  <2>5. \A d \in WS : d # c => Place'[d] = Place[d]
    BY <1>3, <2>2, <2>4
  <2>6. Place' = [Place EXCEPT ![c] = k]
    BY <1>1, <2>2, <2>5, OneMoves
  <2> QED BY <1>1, <2>1, <2>6 DEF CP!Park, CP!Next
<1> QED BY <1>2, <1>3 DEF Put

(* A sweep closes some pooled connections and touches nothing else.        *)
LEMMA SweepRefines ==
  ASSUME PoolInv, PoolInv', NEW old \in SUBSET Idle,
         \A k \in Key : idle'[k] = idle[k] \ old, closing' = closing \cup old,
         UNCHANGED <<hand, warmHand, given, closed>>
  PROVE  CP!Next
<1> USE PlaceOf, PlaceAfter, Somewhere DEF PlaceFacts
<1>1. Idle' = Idle \ old /\ Held' = Held BY DEF Idle, Held
<1>2. \A d \in Unborn : d \in Unborn' BY <1>1 DEF Unborn
<1>3. old \subseteq WS BY DEF PoolInv, TypeOK, Idle
<1>4. \A d \in WS : Place'[d] = IF d \in old THEN "closing" ELSE Place[d]
  BY <1>1, <1>2
<1>5. Place' = [d \in WS |-> Place'[d]] BY DEF Place
<1>6. Place' = [d \in WS |-> IF d \in old THEN "closing" ELSE Place[d]]
  BY ONLY <1>4, <1>5
<1>7. CP!Discard(old) BY <1>6, SameBuckets DEF CP!Discard
<1> QED BY <1>3, <1>7 DEF CP!Next

(* A hit takes one connection and closes the expired ones.                 *)
LEMMA GetHitRefines ==
  ASSUME PoolInv, PoolInv', NEW k \in Key, GetHit(k)
  PROVE  CP!Next
<1> USE PlaceOf, PlaceAfter, Somewhere DEF PlaceFacts
<1>1. PICK c \in idle[k] :
         LET skipped == {d \in idle[k] : stamp[d] < stamp[c]} IN
           /\ idle' = [idle EXCEPT ![k] = @ \ (skipped \cup {c})]
           /\ closing' = closing \cup skipped
           /\ given' = given \cup {c}
  BY DEF GetHit
<1> DEFINE old == {d \in idle[k] : stamp[d] < stamp[c]}
<1>2. UNCHANGED <<hand, warmHand, closed>> BY DEF GetHit, StartRefill, warmVars
<1>3. c \notin old /\ old \subseteq idle[k]
  BY DEF PoolInv, TypeOK
<1>4. Idle' \subseteq Idle /\ Held' = Held
  BY <1>1, <1>2 DEF Idle, Held, PoolInv, TypeOK
<1>5. \A d \in Unborn : d \in Unborn' BY <1>1, <1>2, <1>3, <1>4 DEF Unborn, Idle
<1>6. \A j \in Key : \A d \in idle[j] : d \in old \/ d = c \/ d \in idle'[j]
  BY <1>1 DEF PoolInv, TypeOK
<1>7. \A d \in WS : Place'[d] = IF d = c THEN "client"
                               ELSE IF d \in old THEN "closing" ELSE Place[d]
  <2> HIDE DEF old
  <2>1. closing' = closing \cup old BY <1>1 DEF old
  <2> QED BY <1>1, <1>2, <1>3, <1>4, <1>5, <1>6, <2>1
<1>8. Place' = [d \in WS |-> Place'[d]] BY DEF Place
<1>9. Place' = [d \in WS |-> IF d = c THEN "client"
                             ELSE IF d \in old THEN "closing" ELSE Place[d]]
  BY ONLY <1>7, <1>8
<1>10. Place[c] = k /\ c \in WS /\ old \in SUBSET WS
  BY DEF PoolInv, TypeOK
<1>11. CP!Take(c, old) BY <1>3, <1>9, <1>10, SameBuckets DEF CP!Take
<1> QED BY <1>10, <1>11 DEF CP!Next

(* A dial makes a connection that somebody holds.                          *)
LEMMA DialRefines ==
  ASSUME PoolInv, PoolInv', NEW c \in Unborn, Held' = Held \cup {c},
         UNCHANGED <<idle, given, closing, closed>>
  PROVE  CP!Next
<1> USE PlaceOf, PlaceAfter, Somewhere DEF PlaceFacts
<1>1. Idle' = Idle BY DEF Idle
<1>2. \A d \in Unborn : d # c => d \in Unborn' BY <1>1 DEF Unborn
<1>3. \A d \in WS : d # c => Place'[d] = Place[d] BY <1>1, <1>2
<1>4. c \in WS /\ Place[c] = "unborn" /\ Place'[c] = "held" BY DEF Unborn
<1>5. Place' = [Place EXCEPT ![c] = "held"] BY <1>3, <1>4, OneMoves
<1> QED BY <1>4, <1>5 DEF CP!Dial, CP!Next

(* A client or a closer lets go of a connection.                           *)
LEMMA FinishRefines ==
  ASSUME PoolInv, PoolInv', NEW c \in WS, Release(c) \/ Close(c)
  PROVE  CP!Next
<1> USE PlaceOf, PlaceAfter, Somewhere DEF PlaceFacts
<1>1. Idle' = Idle /\ Held' = Held /\ idle' = idle
  BY DEF Release, Close, bucketVars, refillVars, warmVars, Idle, Held
<1>2. \A d \in Unborn : d \in Unborn' BY <1>1 DEF Unborn, Release, Close
<1>3. \A d \in WS : d # c => Place'[d] = Place[d]
  BY <1>1, <1>2 DEF Release, Close
<1>4. Place[c] \in {"client", "closing"} /\ Place'[c] = "closed"
  BY DEF Release, Close
<1>5. Place' = [Place EXCEPT ![c] = "closed"] BY <1>3, <1>4, OneMoves
<1> QED BY <1>4, <1>5 DEF CP!Finish, CP!Next

-----------------------------------------------------------------------------
(* Every step of the pool is a step of ConnPool or none.                   *)
LEMMA StepRefines == PoolInv /\ PoolInv' /\ [Next]_vars => [CP!Next]_Place
<1> SUFFICES ASSUME PoolInv, PoolInv', [Next]_vars PROVE CP!Next \/ UNCHANGED Place
  OBVIOUS
<1> USE DEF PoolInv
<1>1. ASSUME NEW k \in Key, GetHit(k) PROVE CP!Next BY <1>1, GetHitRefines
<1>2. ASSUME NEW k \in Key, GetMiss(k) PROVE CP!Next
  <2>1. \A j \in Key : idle'[j] = idle[j] \ idle[k]
    BY <1>2 DEF GetMiss, SoleOwner, TypeOK
  <2> QED BY <1>2, <2>1, SweepRefines DEF GetMiss, StartRefill, warmVars, Idle
<1>3. ASSUME NEW r \in Refiller, RefillDial(r) PROVE CP!Next \/ UNCHANGED Place
  <2>1. CASE UNCHANGED hand
    BY <1>3, <2>1, SamePlaces DEF RefillDial, bucketVars, warmVars
  <2>2. ASSUME NEW c \in Unborn, hand' = [hand EXCEPT ![r] = c] PROVE CP!Next
    <3>1. hand[r] = None BY <1>3 DEF RefillDial, HandsMatch
    <3>2. c \in WS /\ c # None BY PoolAssumption DEF Unborn
    <3>3. Held' = Held \cup {c}
      BY <1>3, <2>2, <3>1, <3>2, PoolAssumption DEF RefillDial, warmVars, Held, TypeOK
    <3> QED BY <1>3, <3>3, DialRefines DEF RefillDial, bucketVars
  <2> QED BY <1>3, <2>1, <2>2 DEF RefillDial
<1>4. ASSUME NEW k \in WarmKey, WarmDial(k) PROVE CP!Next \/ UNCHANGED Place
  <2>1. CASE UNCHANGED warmHand
    BY <1>4, <2>1, SamePlaces DEF WarmDial, bucketVars, refillVars
  <2>2. ASSUME NEW c \in Unborn, warmHand' = [warmHand EXCEPT ![k] = c] PROVE CP!Next
    <3>1. warmHand[k] = None BY <1>4 DEF WarmDial, HandsMatch
    <3>2. c \in WS /\ c # None BY PoolAssumption DEF Unborn
    <3>3. Held' = Held \cup {c}
      BY <1>4, <2>2, <3>1, <3>2, PoolAssumption DEF WarmDial, refillVars, Held, TypeOK
    <3> QED BY <1>4, <3>3, DialRefines DEF WarmDial, bucketVars
  <2> QED BY <1>4, <2>1, <2>2 DEF WarmDial
<1>5. ASSUME NEW r \in Refiller, RefillPut(r) PROVE CP!Next
  <2>1. hand[r] \in WS /\ hand[r] # None /\ key[r] \in Key /\ hand[r] \in Held
    BY <1>5, PoolAssumption DEF RefillPut, HandsMatch, TypeOK, Held
  <2>2. \A s \in Refiller : hand'[s] = IF s = r THEN None ELSE hand[s]
    BY <1>5 DEF RefillPut, TypeOK
  <2>3. UNCHANGED <<warmHand, given, closed>> BY <1>5 DEF RefillPut, warmVars
  <2>4. Held' = Held \ {hand[r]}
    BY <2>1, <2>2, <2>3, PoolAssumption DEF Held, SoleOwner
  <2> QED BY <1>5, <2>1, <2>3, <2>4, PutRefines DEF RefillPut
<1>6. ASSUME NEW k \in WarmKey, WarmPut(k) PROVE CP!Next
  <2>1. warmHand[k] \in WS /\ warmHand[k] # None /\ k \in Key /\ warmHand[k] \in Held
    BY <1>6, PoolAssumption DEF WarmPut, HandsMatch, TypeOK, Held
  <2>2. \A j \in WarmKey : warmHand'[j] = IF j = k THEN None ELSE warmHand[j]
    BY <1>6 DEF WarmPut, TypeOK
  <2>3. UNCHANGED <<hand, given, closed>> BY <1>6 DEF WarmPut, refillVars
  <2>4. Held' = Held \ {warmHand[k]}
    BY <2>1, <2>2, <2>3, PoolAssumption DEF Held, SoleOwner
  <2> QED BY <1>6, <2>1, <2>3, <2>4, PutRefines DEF WarmPut
<1>7. CASE Rotate
  <2> DEFINE old == {c \in Idle : Expired(c)}
  <2>1. \A j \in Key : idle'[j] = idle[j] \ old
    BY <1>7 DEF Rotate, Idle, TypeOK
  <2> QED BY <1>7, <2>1, SweepRefines DEF Rotate, refillVars, warmVars
<1>8. CASE CloseAll
  <2>1. \A j \in Key : idle'[j] = idle[j] \ Idle
    BY <1>8 DEF CloseAll, Idle
  <2> QED BY <1>8, <2>1, SweepRefines DEF CloseAll, refillVars, warmVars
<1>9. ASSUME NEW c \in WS, Release(c) \/ Close(c) PROVE CP!Next
  BY <1>9, FinishRefines
<1>10. CASE UNCHANGED <<idle, hand, warmHand, given, closing, closed>>
  BY <1>10, SamePlaces
<1> QED BY <1>1, <1>2, <1>3, <1>4, <1>5, <1>6, <1>7, <1>8, <1>9, <1>10
        DEF Next, vars, bucketVars, refillVars, warmVars, RefillCount, Cancel,
            RotationEnds, Age

(* The pool keeps every promise of ConnPool: each connection has one place *)
(* at a time, moves only forward, a bucket respects its bound, and a       *)
(* dialled connection is rejected only for a full bucket.                  *)
THEOREM PoolRefinesConnPool == Spec => ImplementsConnPool
<1>1. PoolInv /\ PoolInv' /\ [Next]_vars => [CP!Next]_Place BY StepRefines
<1> QED BY <1>1, InitRefines, InvAlways, PTL DEF Spec, ImplementsConnPool, CP!Spec
=============================================================================
