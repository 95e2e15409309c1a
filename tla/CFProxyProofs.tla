--------------------------- MODULE CFProxyProofs ---------------------------
(***************************************************************************)
(* Proofs about CFProxy: what the merged list holds, that Next looks at    *)
(* every domain of it from any place, and what follows for bans, for the   *)
(* attempts of one call and for the turns of the domains.                  *)
(***************************************************************************)
EXTENDS CFProxy, Integers, Induction, FiniteSetTheorems, FunctionTheorems, SequenceTheorems

-----------------------------------------------------------------------------
(* m.all(): the loops run to their ends and list every name once.          *)

Out(names, out, n) ==
  IF n = 0 THEN <<>>
  ELSE IF names[n] \in Range(out[n - 1]) THEN out[n - 1]
  ELSE Append(out[n - 1], names[n])

(* Merged is defined: there is a list after every pass.                    *)
LEMMA MergedPasses ==
  ASSUME NEW D, NEW names \in Seq(D)
  PROVE  /\ Merged(names) \in [0..Len(names) -> Seq(D)]
         /\ \A n \in 0..Len(names) :
              Merged(names)[n] = Out(names, Merged(names), n)
<1> DEFINE N == Len(names)
           Pass(n, s) == IF names[n] \in Range(s) THEN s ELSE Append(s, names[n])
           g == [x \in (1..N) \X Seq(D) |-> Pass(x[1], x[2])]
           Fits(k) == k = [n \in 0..N |-> Out(names, k, n)]
<1>1. N \in Nat /\ \A n \in 1..N : names[n] \in D
  OBVIOUS
<1>2. ASSUME NEW n \in 1..N, NEW s \in Seq(D) PROVE Pass(n, s) \in Seq(D)
  BY <1>1, AppendProperties
<1>3. g \in [(1..N) \X Seq(D) -> Seq(D)]
  <2> HIDE DEF Pass
  <2> QED BY <1>2
<1>4. PICK f : Passes(f, Seq(D), <<>>, N, g)
  <2>1. <<>> \in Seq(D) BY EmptySeq
  <2> HIDE DEF g
  <2> QED BY <1>1, <1>3, <2>1, LoopRecursion
<1>5. Fits(f)
  <2>1. ASSUME NEW n \in 0..N PROVE f[n] = Out(names, f, n)
    <3>1. CASE n = 0 BY <1>4, <3>1 DEF Out, Passes
    <3>2. CASE n # 0
      <4>1. n \in 1..N /\ n - 1 \in 0..N BY <1>1, <3>2
      <4>2. g[<<n, f[n - 1]>>] = Pass(n, f[n - 1])
        <5> HIDE DEF Pass
        <5> QED BY <1>4, <4>1 DEF Passes
      <4>3. f[n] = Pass(n, f[n - 1])
        <5> HIDE DEF Pass, g
        <5> QED BY <1>4, <4>1, <4>2 DEF Passes
      <4> QED BY <3>2, <4>3 DEF Out
    <3> QED BY <3>1, <3>2
  <2> QED BY <1>4, <2>1 DEF Passes
<1>6. Merged(names) = CHOOSE k : Fits(k)
  BY DEF Merged, Out
<1>7. Fits(Merged(names))
  <2> HIDE DEF Fits
  <2> QED BY <1>5, <1>6
<1>8. \A n \in 0..N : Merged(names)[n] \in Seq(D)
  <2> DEFINE M == Merged(names)
             T == {n \in 0..N : M[n] \in Seq(D)}
  <2>1. 0 \in T BY <1>1, <1>7, EmptySeq DEF Out
  <2>2. ASSUME NEW n \in 0..(N - 1), n \in T PROVE n + 1 \in T
    <3>1. n + 1 \in 1..N /\ n + 1 \in 0..N /\ (n + 1) - 1 = n /\ n + 1 # 0 BY <1>1
    <3>2. M[n + 1] = Pass(n + 1, M[n]) BY <1>7, <3>1 DEF Out
    <3> QED BY <1>2, <2>2, <3>1, <3>2
  <2> HIDE DEF T
  <2>3. \A n \in 0..N : n \in T BY <1>1, <2>1, <2>2, LoopInduction
  <2> QED BY <2>3 DEF T
<1> QED BY <1>7, <1>8

Distinct(s) == \A i, j \in 1..Len(s) : s[i] = s[j] => i = j

(* Appending a name that is not listed yet keeps the names apart.          *)
LEMMA AppendDistinct ==
  ASSUME NEW D, NEW s \in Seq(D), NEW d \in D, Distinct(s), d \notin Range(s)
  PROVE  Distinct(Append(s, d)) /\ Range(Append(s, d)) = Range(s) \cup {d}
<1> DEFINE t == Append(s, d)
<1>1. /\ Len(s) \in Nat /\ Len(t) = Len(s) + 1 /\ t \in Seq(D)
      /\ \A i \in 1..Len(s) : t[i] = s[i]
      /\ t[Len(s) + 1] = d
  BY AppendProperties
<1>2. Range(s) = {s[i] : i \in 1..Len(s)} /\ Range(t) = {t[i] : i \in 1..Len(t)}
  <2> HIDE DEF t
  <2> QED BY <1>1 DEF Range
<1>3. Distinct(t)
  <2> HIDE DEF t
  <2> QED BY <1>1, <1>2 DEF Distinct
<1>4. Range(t) = Range(s) \cup {d}
  <2> HIDE DEF t
  <2>1. 1..Len(t) = (1..Len(s)) \cup {Len(s) + 1} BY <1>1
  <2> QED BY <1>1, <1>2, <2>1
<1> QED BY <1>3, <1>4

(* After n passes the list holds each of the first n names once.           *)
LEMMA MergedHolds ==
  ASSUME NEW D, NEW names \in Seq(D), NEW n \in 0..Len(names)
  PROVE  /\ Distinct(Merged(names)[n])
         /\ Range(Merged(names)[n]) = {names[m] : m \in 1..n}
<1> DEFINE N == Len(names)
           M == Merged(names)
           T == {k \in 0..N : Distinct(M[k]) /\ Range(M[k]) = {names[m] : m \in 1..k}}
<1>1. N \in Nat /\ \A k \in 1..N : names[k] \in D
  OBVIOUS
<1>2. /\ \A k \in 0..N : M[k] \in Seq(D)
      /\ \A k \in 0..N : M[k] = Out(names, M, k)
  BY MergedPasses
<1>3. 0 \in T
  <2>1. M[0] = <<>> BY <1>1, <1>2 DEF Out
  <2>2. Distinct(<<>>) /\ Range(<<>>) = {} BY DEF Distinct, Range
  <2> HIDE DEF M
  <2> QED BY <1>1, <2>1, <2>2
<1>4. ASSUME NEW k \in 0..(N - 1), k \in T PROVE k + 1 \in T
  <2> HIDE DEF M
  <2>1. k + 1 \in 1..N /\ k + 1 \in 0..N /\ k \in 0..N /\ (k + 1) - 1 = k /\ k + 1 # 0
    BY <1>1
  <2>2. M[k] \in Seq(D) /\ names[k + 1] \in D BY <1>1, <1>2, <2>1
  <2>3. M[k + 1] = IF names[k + 1] \in Range(M[k]) THEN M[k] ELSE Append(M[k], names[k + 1])
    BY <1>2, <2>1 DEF Out
  <2>4. {names[m] : m \in 1..(k + 1)} = {names[m] : m \in 1..k} \cup {names[k + 1]}
    <3>1. 1..(k + 1) = (1..k) \cup {k + 1} BY <1>1
    <3> QED BY <3>1
  <2>5. Distinct(M[k]) /\ Range(M[k]) = {names[m] : m \in 1..k} BY <1>4
  <2>6. CASE names[k + 1] \in Range(M[k])
    BY <2>1, <2>3, <2>4, <2>5, <2>6
  <2>7. CASE names[k + 1] \notin Range(M[k])
    <3>1. /\ Distinct(Append(M[k], names[k + 1]))
          /\ Range(Append(M[k], names[k + 1])) = Range(M[k]) \cup {names[k + 1]}
      BY <2>2, <2>5, <2>7, AppendDistinct
    <3> QED BY <2>1, <2>3, <2>4, <2>5, <2>7, <3>1
  <2> QED BY <2>6, <2>7
<1>5. \A k \in 0..N : k \in T
  <2> HIDE DEF T
  <2> QED BY <1>1, <1>3, <1>4, LoopInduction
<1> QED BY <1>5

(* What m.all() returns: every name of both lists, each of them once, and  *)
(* so no more of them than there are domains (cfproxy.go:128-145).         *)
THEOREM AllListsOnce ==
  ASSUME fetched \in Lists \cup {<<>>}
  PROVE  /\ All \in Seq(Domains) /\ Distinct(All)
         /\ Listed = Range(User) \cup Range(fetched)
         /\ Len(All) <= Cardinality(Domains)
<1>1. Named \in Seq(Domains) /\ fetched \in Seq(Domains) /\ User \in Seq(Domains)
  <2>1. User \in Seq(Domains) BY CFAssumption
  <2>2. fetched \in Seq(Domains)
    <3>1. <<>> \in Seq(Domains) BY EmptySeq
    <3> QED BY <3>1, CFAssumption
  <2> QED BY <2>1, <2>2, ConcatProperties DEF Named
<1>2. Len(Named) \in Nat /\ Len(Named) \in 0..Len(Named) BY <1>1
<1>3. All \in Seq(Domains) BY <1>1, <1>2, MergedPasses DEF All
<1>4. Distinct(All) /\ Listed = {Named[m] : m \in 1..Len(Named)}
  BY <1>1, <1>2, MergedHolds DEF All, Listed
<1>5. Listed = Range(User) \cup Range(fetched)
  <2>1. /\ Len(Named) = Len(User) + Len(fetched) /\ Len(User) \in Nat /\ Len(fetched) \in Nat
        /\ \A i \in 1..(Len(User) + Len(fetched)) :
              Named[i] = IF i <= Len(User) THEN User[i] ELSE fetched[i - Len(User)]
    BY <1>1, ConcatProperties DEF Named
  <2>2. /\ Range(User) = {User[i] : i \in 1..Len(User)}
        /\ Range(fetched) = {fetched[i] : i \in 1..Len(fetched)}
    BY <1>1 DEF Range
  <2>3. ASSUME NEW i \in 1..Len(User) PROVE User[i] \in Listed
    <3>1. i \in 1..Len(Named) /\ Named[i] = User[i] BY <2>1
    <3> QED BY <1>4, <3>1
  <2>4. ASSUME NEW i \in 1..Len(fetched) PROVE fetched[i] \in Listed
    <3>1. i + Len(User) \in 1..Len(Named) /\ Named[i + Len(User)] = fetched[i] BY <2>1
    <3> QED BY <1>4, <3>1
  <2>5. ASSUME NEW m \in 1..Len(Named) PROVE Named[m] \in Range(User) \cup Range(fetched)
    <3>1. CASE m <= Len(User)
      BY <2>1, <2>2, <3>1
    <3>2. CASE m > Len(User)
      <4>1. m - Len(User) \in 1..Len(fetched) /\ Named[m] = fetched[m - Len(User)]
        BY <2>1, <3>2
      <4> QED BY <2>2, <4>1
    <3> QED BY <2>1, <3>1, <3>2
  <2> QED BY <1>4, <2>2, <2>3, <2>4, <2>5
<1>6. Len(All) <= Cardinality(Domains)
  <2>1. Len(All) \in Nat /\ All \in [1..Len(All) -> Domains] BY <1>3
  <2>2. All \in Injection(1..Len(All), Domains)
    BY <1>4, <2>1, Fun_IsInj DEF Distinct
  <2>3. Cardinality(1..Len(All)) <= Cardinality(Domains)
    BY <2>2, FS_Injection, CFAssumption
  <2>4. ASSUME NEW n \in Nat PROVE Cardinality(1..n) = n
    <3>1. 1 \in Int /\ n \in Int /\ (1 > n => n = 0) OBVIOUS
    <3>2. Cardinality(1..n) = IF 1 > n THEN 0 ELSE n - 1 + 1 BY <3>1, FS_Interval
    <3> QED BY <3>1, <3>2
  <2> QED BY <2>1, <2>3, <2>4
<1> QED BY <1>3, <1>4, <1>5, <1>6

-----------------------------------------------------------------------------
(* The remainders that Next steps by.                                      *)

(* Quotient and remainder, as the round robin uses them (cfproxy.go:159).  *)
LEMMA DivMod ==
  ASSUME NEW a \in Nat, NEW n \in Nat \ {0}
  PROVE  /\ a % n \in 0..(n - 1) /\ a \div n \in Nat
         /\ a = n * (a \div n) + (a % n)
OBVIOUS

(* A quotient and a remainder below the divisor are the only ones.         *)
LEMMA OneRemainder ==
  ASSUME NEW n \in Nat \ {0}, NEW q \in Int, NEW p \in Int,
         NEW r \in 0..(n - 1), NEW s \in 0..(n - 1), q * n + r = p * n + s
  PROVE  r = s
<1>1. (q - p) * n = s - r OBVIOUS
<1>2. CASE q - p >= 1
  <2>1. (q - p) * n >= n BY <1>2
  <2> QED BY <2>1, <1>1
<1>3. CASE q - p <= -1
  <2>1. (p - q) * n >= n BY <1>3
  <2>2. (p - q) * n = r - s BY <1>1
  <2> QED BY <2>1, <2>2
<1>4. CASE q = p BY <1>4, <1>1
<1> QED BY <1>2, <1>3, <1>4

(* Whole turns change no remainder.                                        *)
LEMMA WholeTurns ==
  ASSUME NEW a \in Nat, NEW k \in Nat, NEW n \in Nat \ {0}
  PROVE  (a + k * n) % n = a % n
<1> DEFINE b == a + k * n
<1>1. a = n * (a \div n) + (a % n) /\ a % n \in 0..(n - 1) /\ (a \div n) \in Nat
  BY DivMod
<1>2. b \in Nat OBVIOUS
<1>3. b = n * (b \div n) + (b % n) /\ b % n \in 0..(n - 1) /\ (b \div n) \in Nat
  BY <1>2, DivMod
<1>4. b = n * (a \div n + k) + (a % n) BY <1>1
<1>5. b % n = a % n
  <2> HIDE DEF b
  <2>1. (b \div n) * n + (b % n) = (a \div n + k) * n + (a % n) BY <1>1, <1>3, <1>4
  <2>2. b \div n \in Int /\ a \div n + k \in Int BY <1>1, <1>3
  <2> QED BY <1>1, <1>3, <2>1, <2>2, OneRemainder
<1> QED BY <1>5

(* A turn kept modulo t counts the same modulo every divisor of t.         *)
LEMMA TurnKept ==
  ASSUME NEW a \in Nat, NEW i \in Nat, NEW t \in Nat \ {0}, NEW n \in Nat \ {0}, t % n = 0
  PROVE  ((a % t) + i) % n = (a + i) % n
<1>1. a = t * (a \div t) + (a % t) /\ a % t \in Nat /\ a \div t \in Nat
  BY DivMod
<1>2. t = n * (t \div n) /\ t \div n \in Nat
  BY DivMod
<1> DEFINE k == (t \div n) * (a \div t)
<1>3. k \in Nat /\ k * n = t * (a \div t) BY <1>1, <1>2
<1> HIDE DEF k
<1>4. a + i = ((a % t) + i) + k * n BY <1>1, <1>3
<1>5. (a % t) + i \in Nat BY <1>1
<1> DEFINE b == (a % t) + i
<1>6. (b + k * n) % n = b % n
  <2>1. b \in Nat BY <1>5
  <2> HIDE DEF b
  <2> QED BY <1>3, <2>1, WholeTurns
<1> QED BY <1>4, <1>6

(* The n numbers after a leave every remainder.                            *)
LEMMA EveryRemainder ==
  ASSUME NEW a \in Nat, NEW n \in Nat \ {0}, NEW r \in 0..(n - 1)
  PROVE  \E i \in 1..n : (a + i) % n = r
<1>1. a = n * (a \div n) + (a % n) /\ a % n \in 0..(n - 1) /\ a \div n \in Nat
  BY DivMod
<1>2. r % n = r
  <2> r \in Nat OBVIOUS
  <2>1. r = n * (r \div n) + (r % n) /\ r % n \in 0..(n - 1) /\ r \div n \in Nat
    BY DivMod
  <2>2. (r \div n) * n + (r % n) = 0 * n + r BY <2>1
  <2> QED BY <2>1, <2>2, OneRemainder
<1>3. CASE r > a % n
  <2> DEFINE i == r - (a % n)
  <2>1. i \in 1..n /\ a + i = r + (a \div n) * n BY <1>1, <1>3
  <2>2. (r + (a \div n) * n) % n = r
    <3>1. r \in Nat /\ a \div n \in Nat BY <1>1
    <3> QED BY <3>1, <1>2, WholeTurns
  <2> HIDE DEF i
  <2> QED BY <2>1, <2>2
<1>4. CASE r <= a % n
  <2> DEFINE i == r + n - (a % n)
  <2>1. i \in 1..n /\ a + i = r + ((a \div n) + 1) * n BY <1>1, <1>4
  <2>2. (r + ((a \div n) + 1) * n) % n = r
    <3>1. r \in Nat /\ (a \div n) + 1 \in Nat BY <1>1
    <3> QED BY <3>1, <1>2, WholeTurns
  <2> HIDE DEF i
  <2> QED BY <2>1, <2>2
<1> QED BY <1>1, <1>3, <1>4

-----------------------------------------------------------------------------
(* Where Next looks (cfproxy.go:158-168).                                  *)

Kept == fetched \in Lists \cup {<<>>} /\ rr \in 0..(Turns - 1)

(* The bound on m.rr is a whole number of turns of the list.               *)
LEMMA Length ==
  ASSUME Kept
  PROVE  /\ Len(All) \in Nat
         /\ Len(All) # 0 => Turns % Len(All) = 0 /\ Turns \in Nat \ {0}
<1>1. All \in Seq(Domains) /\ Len(All) <= Cardinality(Domains)
  BY AllListsOnce DEF Kept
<1>2. Cardinality(Domains) \in Nat BY FS_CardinalityType, CFAssumption
<1>3. Len(All) \in Nat BY <1>1
<1>4. Len(All) # 0 => Len(All) \in 1..Cardinality(Domains) BY <1>1, <1>2, <1>3
<1> QED BY <1>3, <1>4, TurnsAssumption, CFAssumption

(* It looks at domains of the list.                                        *)
LEMMA PlaceListed ==
  ASSUME Kept, Len(All) # 0, NEW i \in Nat
  PROVE  Place(i) \in Listed /\ Place(i) \in Domains
<1>1. All \in Seq(Domains) BY AllListsOnce DEF Kept
<1>2. rr + i \in Nat /\ Len(All) \in Nat \ {0}
  BY Length, CFAssumption DEF Kept
<1>3. ((rr + i) % Len(All)) + 1 \in 1..Len(All)
  <2>1. ASSUME NEW a \in Nat, NEW n \in Nat \ {0} PROVE (a % n) + 1 \in 1..n
    <3>1. a % n \in 0..(n - 1) BY DivMod
    <3> QED BY <3>1
  <2> QED BY <1>2, <2>1
<1>4. \A j \in 1..Len(All) : All[j] \in Domains /\ All[j] \in Range(All)
  BY <1>1 DEF Range
<1> QED BY <1>3, <1>4 DEF Place, Listed

PlacesIn == Kept /\ Len(All) # 0 => \A i \in Nat : Place(i) \in Domains

(* Every place of the list holds a domain of it, now and after a step.     *)
LEMMA PlacesKnown == PlacesIn /\ PlacesIn'
<1>1. PlacesIn BY PlaceListed DEF PlacesIn
<1> QED BY <1>1, PTL

(* From any place it comes to every domain of the list.                    *)
LEMMA PlaceReaches ==
  ASSUME Kept, NEW d \in Listed
  PROVE  \E i \in 1..Len(All) : Place(i) = d
<1>1. All \in Seq(Domains) BY AllListsOnce DEF Kept
<1>2. PICK j \in 1..Len(All) : All[j] = d
  BY <1>1 DEF Listed, Range
<1>3. Len(All) \in Nat \ {0} /\ j - 1 \in 0..(Len(All) - 1) /\ rr \in Nat
  BY <1>1, <1>2, CFAssumption DEF Kept
<1>4. PICK i \in 1..Len(All) : (rr + i) % Len(All) = j - 1
  BY <1>3, EveryRemainder
<1>5. Place(i) = All[(j - 1) + 1] BY <1>4 DEF Place
<1>6. (j - 1) + 1 = j BY <1>3, <1>2
<1> QED BY <1>2, <1>4, <1>5, <1>6

(* One turn of the list further it looks at the same domain.               *)
LEMMA PlaceAround ==
  ASSUME Kept, Len(All) # 0, NEW i \in Nat
  PROVE  Place(i + Len(All)) = Place(i)
<1>1. Len(All) \in Nat \ {0} /\ rr \in Nat BY Length, CFAssumption DEF Kept
<1>2. ASSUME NEW n \in Nat \ {0}, NEW a \in Nat PROVE (a + (i + n)) % n = (a + i) % n
  <2>1. a + i \in Nat /\ 1 \in Nat /\ a + (i + n) = (a + i) + 1 * n OBVIOUS
  <2>2. ASSUME NEW b \in Nat PROVE (b + 1 * n) % n = b % n BY WholeTurns
  <2> QED BY <2>1, <2>2
<1> QED BY <1>1, <1>2 DEF Place

(* After the n-th domain was taken, the next one to look at is the one     *)
(* after it: the bound on m.rr does not show.                              *)
LEMMA PlaceMoves ==
  ASSUME Kept, Len(All) # 0, NEW n \in Nat, NEW i \in Nat, TurnsBy(n), fetched' = fetched
  PROVE  All' = All /\ Place(i)' = Place(n + i)
<1>1. Len(All) \in Nat \ {0} /\ rr \in Nat /\ Turns \in Nat \ {0} /\ Turns % Len(All) = 0
  BY Length, CFAssumption DEF Kept
<1>2. All' = All BY DEF All, Named
<1>3. ASSUME NEW l \in Nat \ {0}, Turns % l = 0
      PROVE  (rr' + i) % l = (rr + (n + i)) % l
  <2>1. rr + n \in Nat /\ (rr + n) + i = rr + (n + i) BY <1>1
  <2>2. ASSUME NEW b \in Nat PROVE ((b % Turns) + i) % l = (b + i) % l
    <3>1. ASSUME NEW t \in Nat \ {0}, t % l = 0 PROVE ((b % t) + i) % l = (b + i) % l
      BY <1>3, <3>1, TurnKept
    <3> QED BY <1>1, <1>3, <3>1
  <2> QED BY <2>1, <2>2 DEF TurnsBy
<1>4. (rr' + i) % Len(All) = (rr + (n + i)) % Len(All) BY <1>1, <1>3
<1> QED BY <1>2, <1>4 DEF Place

(* The turn m.rr stays below its bound.                                    *)
LEMMA TurnBounded ==
  ASSUME Kept, NEW n \in Nat, TurnsBy(n) PROVE rr' \in 0..(Turns - 1)
<1>1. rr + n \in Nat /\ Turns \in Nat \ {0} BY CFAssumption DEF Kept
<1> QED BY <1>1, DivMod DEF TurnsBy

-----------------------------------------------------------------------------
(* The inductive invariant.                                                *)

(* What a call counts on: the attempts it has left and the domains it has  *)
(* seen fail make up all of them, unless one of those has answered somebody *)
(* since; and the bans of those domains last longer than the attempts that *)
(* are left can take.                                                      *)
Remaining(c) == IF trying[c] = None THEN left[c] ELSE left[c] - 1 + due[c]

Counted(c) == left[c] > 0 /\ c \notin cleared => Cardinality(spent[c]) + left[c] = Attempts

Running(c) ==
  /\ trying[c] # None => left[c] > 0
  /\ due[c] > 0 => trying[c] # None
  /\ left[c] > 0 => \A d \in spent[c] : ban[d] > Remaining(c)

(* A domain without a ban was passed over no more often than Next has gone *)
(* forward since it last looked at it.                                     *)
TurnsKept == \A i \in 1..Len(All) : passed[Place(i)] + i <= Len(All)

CFInv ==
  /\ TypeOK
  /\ NoSecondTry
  /\ \A c \in Clients : Counted(c)
  /\ \A c \in Clients : Running(c)
  /\ TurnsKept

(* It holds for a new manager.                                             *)
LEMMA CFInit == Init => CFInv
<1> SUFFICES ASSUME Init PROVE CFInv OBVIOUS
<1> USE CFAssumption DEF Init
<1>1. TypeOK BY DEF TypeOK
<1>2. NoSecondTry BY DEF NoSecondTry
<1>3. \A c \in Clients : Counted(c) BY DEF Counted
<1>4. \A c \in Clients : Running(c) BY DEF Running
<1>5. TurnsKept
  <2> SUFFICES ASSUME NEW i \in 1..Len(All) PROVE passed[Place(i)] + i <= Len(All)
    BY DEF TurnsKept
  <2>1. Kept BY DEF Kept
  <2>2. Len(All) \in Nat BY <2>1, Length
  <2>3. Len(All) # 0 /\ i \in Nat BY <2>2
  <2>4. Place(i) \in Domains BY <2>1, <2>3, PlaceListed
  <2>5. passed[Place(i)] = 0 BY <2>4
  <2> QED BY <2>2, <2>5
<1> QED BY <1>1, <1>2, <1>3, <1>4, <1>5 DEF CFInv

(* As long as neither the list nor the turn moves, the turns are kept.     *)
LEMMA TurnsSame ==
  ASSUME TurnsKept, UNCHANGED <<fetched, rr, passed>> PROVE TurnsKept'
BY DEF TurnsKept, Place, All, Named

(* A set of domains can be counted.                                        *)
LEMMA SpentCounted ==
  ASSUME NEW S, S \subseteq Domains
  PROVE  /\ IsFiniteSet(S) /\ Cardinality(S) \in Nat
         /\ \A d : d \notin S => Cardinality(S \cup {d}) = Cardinality(S) + 1
BY FS_Subset, FS_CardinalityType, FS_AddElement, CFAssumption

(* Calls keeps the invariant (server.go:394-401).                          *)
LEMMA CallsInv == ASSUME CFInv, NEW c \in Clients, Calls(c) PROVE CFInv'
<1> USE CFAssumption DEF CFInv, Calls, Begins
<1>1. TypeOK' BY DEF TypeOK
<1>2. NoSecondTry' BY DEF NoSecondTry, TypeOK
<1>3. ASSUME NEW b \in Clients PROVE Counted(b)'
  <2>1. Cardinality({}) = 0 BY FS_EmptySet
  <2> QED BY <2>1 DEF Counted, TypeOK
<1>4. ASSUME NEW b \in Clients PROVE Running(b)'
  BY DEF Running, Remaining, TypeOK
<1>5. TurnsKept' BY TurnsSame
<1> QED BY <1>1, <1>2, <1>3, <1>4, <1>5

(* CallOff keeps the invariant (server.go:366).                            *)
LEMMA CallOffInv == ASSUME CFInv, NEW c \in Clients, CallOff(c) PROVE CFInv'
<1> USE DEF CFInv, CallOff
<1>1. TypeOK' BY DEF TypeOK
<1>2. NoSecondTry' BY DEF NoSecondTry
<1>3. ASSUME NEW b \in Clients PROVE Counted(b)' BY DEF Counted
<1>4. ASSUME NEW b \in Clients PROVE Running(b)' BY DEF Running, Remaining
<1>5. TurnsKept' BY TurnsSame
<1> QED BY <1>1, <1>2, <1>3, <1>4, <1>5

(* Cancelled keeps the invariant (server.go:408-412).                      *)
LEMMA CancelledInv == ASSUME CFInv, NEW c \in Clients, Cancelled(c) PROVE CFInv'
<1> USE CFAssumption DEF CFInv, Cancelled, Ends
<1>1. TypeOK' BY DEF TypeOK
<1>2. NoSecondTry'
  <2>1. \A b \in Clients : None \notin spent[b] BY DEF TypeOK
  <2> QED BY <2>1 DEF NoSecondTry, TypeOK
<1>3. ASSUME NEW b \in Clients PROVE Counted(b)' BY DEF Counted, TypeOK
<1>4. ASSUME NEW b \in Clients PROVE Running(b)'
  BY DEF Running, Remaining, TypeOK
<1>5. TurnsKept' BY TurnsSame
<1> QED BY <1>1, <1>2, <1>3, <1>4, <1>5

(* Connects keeps the invariant (cfproxy.go:179-184): the ban it lifts is  *)
(* one that no call counts on any more.                                    *)
LEMMA ConnectsInv == ASSUME CFInv, NEW c \in Clients, Connects(c) PROVE CFInv'
<1> USE CFAssumption DEF CFInv, Connects, Ends
<1>0. trying[c] \in Domains BY DEF TypeOK
<1>1. TypeOK'
  <2>1. spent' \in [Clients -> SUBSET Domains] /\ cleared' \in SUBSET Clients BY DEF TypeOK
  <2>2. ban' \in [Domains -> 0..BanTicks] BY DEF TypeOK
  <2> QED BY <2>1, <2>2 DEF TypeOK
<1>2. NoSecondTry'
  <2>1. \A b \in Clients : None \notin spent[b] /\ spent'[b] \subseteq spent[b] BY DEF TypeOK
  <2> QED BY <2>1 DEF NoSecondTry, TypeOK
<1>3. ASSUME NEW b \in Clients PROVE Counted(b)'
  <2>1. b \notin cleared' => b \notin cleared /\ spent'[b] = spent[b] OBVIOUS
  <2>2. left'[b] \in {left[b], 0} /\ left[b] \in Nat BY DEF TypeOK
  <2>3. Counted(b) OBVIOUS
  <2> QED BY ONLY <2>1, <2>2, <2>3 DEF Counted
<1>4. ASSUME NEW b \in Clients PROVE Running(b)'
  <2>1. \A d \in spent'[b] : d \in spent[b] /\ ban'[d] = ban[d] BY DEF TypeOK
  <2>2. b # c => trying'[b] = trying[b] /\ left'[b] = left[b] /\ due'[b] = due[b]
    BY DEF TypeOK
  <2>3. b = c => trying'[b] = None /\ left'[b] = 0 /\ due'[b] = 0 BY DEF TypeOK
  <2> QED BY <2>1, <2>2, <2>3 DEF Running, Remaining
<1>5. TurnsKept' BY TurnsSame
<1> QED BY <1>1, <1>2, <1>3, <1>4, <1>5

(* Fails keeps the invariant (server.go:409-417, cfproxy.go:171-177).      *)
LEMMA FailsInv == ASSUME CFInv, NEW c \in Clients, Fails(c) PROVE CFInv'
<1> USE CFAssumption DEF CFInv, Fails, Ends
<1>0. trying[c] # None /\ left[c] > 0 /\ trying[c] \in Domains
  BY DEF Running, TypeOK
<1>1. TypeOK' BY <1>0 DEF TypeOK
<1>2. NoSecondTry'
  <2>1. \A b \in Clients : None \notin spent[b] BY DEF TypeOK
  <2> QED BY <1>0, <2>1 DEF NoSecondTry, TypeOK
<1>3. ASSUME NEW b \in Clients PROVE Counted(b)'
  <2>1. CASE b = c
    <3>1. spent'[c] = spent[c] \cup {trying[c]} /\ spent[c] \subseteq Domains BY DEF TypeOK
    <3>2. Cardinality(spent'[c]) = Cardinality(spent[c]) + 1 /\ Cardinality(spent[c]) \in Nat
      BY <3>1, SpentCounted DEF NoSecondTry
    <3>3. left'[c] = left[c] - 1 /\ left[c] \in Nat BY DEF TypeOK
    <3>4. c \notin cleared => Cardinality(spent[c]) + left[c] = Attempts
      BY <1>0 DEF Counted
    <3>5. c \notin cleared => Cardinality(spent'[c]) + left'[c] = Attempts
      BY ONLY <3>2, <3>3, <3>4
    <3> QED BY <2>1, <3>5 DEF Counted
  <2>2. CASE b # c BY <2>2 DEF Counted, TypeOK
  <2> QED BY <2>1, <2>2
<1>4. ASSUME NEW b \in Clients PROVE Running(b)'
  <2>1. /\ left[b] \in 0..Attempts /\ due[b] \in 0..1
        /\ BanTicks \in Nat /\ Attempts \in Nat /\ BanTicks > Attempts
    BY DEF TypeOK
  <2>2. \A d \in Domains : ban'[d] = IF d = trying[c] THEN BanTicks ELSE ban[d]
    BY <1>0 DEF TypeOK
  <2>3. \A d \in spent[b] : d \in Domains /\ ban[d] \in Nat BY DEF TypeOK
  <2>4. left[b] > 0 => \A d \in spent[b] : ban[d] > Remaining(b) BY DEF Running
  <2>5. CASE b = c
    <3>1. spent'[b] = spent[b] \cup {trying[c]} BY <2>5 DEF TypeOK
    <3>2. trying'[b] = None /\ due'[b] = 0 /\ left'[b] = left[b] - 1 BY <2>5 DEF TypeOK
    <3>3. Remaining(b) = left[b] - 1 + due[b] BY <1>0, <2>5 DEF Remaining
    <3>4. Remaining(b)' = left[b] - 1 BY <3>2 DEF Remaining
    <3>5. ASSUME NEW d \in spent'[b] PROVE ban'[d] > left[b] - 1
      <4>1. CASE d = trying[c] BY ONLY <1>0, <2>1, <2>2, <4>1
      <4>2. CASE d # trying[c]
        <5>1. d \in spent[b] BY <3>1, <4>2
        <5>2. left[b] > 0 BY <1>0, <2>5
        <5>3. ban[d] > left[b] - 1 + due[b] BY <2>4, <3>3, <5>1, <5>2
        <5>4. ban'[d] = ban[d] /\ ban[d] \in Nat BY <2>2, <2>3, <4>2, <5>1
        <5> QED BY ONLY <2>1, <5>3, <5>4
      <4> QED BY <4>1, <4>2
    <3> HIDE DEF Remaining
    <3> QED BY ONLY <3>2, <3>4, <3>5 DEF Running
  <2>6. CASE b # c
    <3>1. /\ spent'[b] = spent[b] /\ left'[b] = left[b] /\ trying'[b] = trying[b]
          /\ due'[b] = due[b]
      BY <2>6 DEF TypeOK
    <3>2. left[b] > 0 => BanTicks > Remaining(b) BY ONLY <2>1 DEF Remaining
    <3>3. Remaining(b)' = Remaining(b) BY <3>1 DEF Remaining
    <3>4. Running(b) OBVIOUS
    <3> HIDE DEF Remaining
    <3> QED BY ONLY <2>2, <2>3, <3>1, <3>2, <3>3, <3>4 DEF Running
  <2> QED BY <2>5, <2>6
<1>5. TurnsKept' BY TurnsSame
<1> QED BY <1>1, <1>2, <1>3, <1>4, <1>5

(* Tick keeps the invariant.                                               *)
LEMMA TickInv == ASSUME CFInv, Tick PROVE CFInv'
<1> USE CFAssumption DEF CFInv, Tick
<1>1. TypeOK' BY DEF TypeOK
<1>2. NoSecondTry' BY DEF NoSecondTry
<1>3. ASSUME NEW b \in Clients PROVE Counted(b)' BY DEF Counted
<1>4. ASSUME NEW b \in Clients PROVE Running(b)'
  <2>1. left[b] > 0 => due[b] = 1 /\ trying[b] # None BY DEF Running, TypeOK
  <2>2. \A d \in spent[b] : ban'[d] = IF ban[d] > 0 THEN ban[d] - 1 ELSE 0
    BY DEF TypeOK
  <2>3. \A d \in spent[b] : ban[d] \in Nat BY DEF TypeOK
  <2>4. left[b] \in Nat BY DEF TypeOK
  <2> QED BY <2>1, <2>2, <2>3, <2>4 DEF Running, Remaining
<1>5. TurnsKept' BY TurnsSame
<1> QED BY <1>1, <1>2, <1>3, <1>4, <1>5

(* Fetch keeps the invariant (cfproxy.go:70-126).                          *)
LEMMA FetchInv == ASSUME CFInv, Fetch PROVE CFInv'
<1> USE CFAssumption DEF CFInv, Fetch, calls
<1>1. TypeOK' BY DEF TypeOK
<1>2. NoSecondTry' BY DEF NoSecondTry
<1>3. ASSUME NEW b \in Clients PROVE Counted(b)' BY DEF Counted
<1>4. ASSUME NEW b \in Clients PROVE Running(b)' BY DEF Running, Remaining
<1>5. TurnsKept'
  <2>1. Kept' BY <1>1 DEF Kept, TypeOK
  <2>2. (Len(All) \in Nat)' BY <2>1, Length
  <2>3. ASSUME NEW i \in 1..Len(All)' PROVE (passed[Place(i)] + i <= Len(All))'
    <3>1. (Len(All) # 0)' /\ i \in Nat BY <2>2
    <3>2. (Place(i) \in Domains)'
      BY <2>1, <3>1, PlacesKnown DEF PlacesIn
    <3>3. passed'[Place(i)'] = 0 BY <3>2
    <3> QED BY <2>2, <3>3
  <2> QED BY <2>3 DEF TurnsKept
<1> QED BY <1>1, <1>2, <1>3, <1>4, <1>5

(* FindsNone keeps the invariant (cfproxy.go:152-169).                     *)
LEMMA FindsNoneInv == ASSUME CFInv, NEW c \in Clients, FindsNone(c) PROVE CFInv'
<1> USE CFAssumption DEF CFInv, FindsNone
<1>0. Kept /\ Len(All) \in Nat
  <2>1. Kept BY DEF Kept, TypeOK
  <2> QED BY <2>1, Length
<1>1. TypeOK'
  <2>1. rr' \in 0..(Turns - 1) BY <1>0, TurnBounded
  <2> QED BY <2>1 DEF TypeOK
<1>2. NoSecondTry' BY DEF NoSecondTry
<1>3. ASSUME NEW b \in Clients PROVE Counted(b)' BY DEF Counted, TypeOK
<1>4. ASSUME NEW b \in Clients PROVE Running(b)' BY DEF Running, Remaining, TypeOK
<1>5. TurnsKept'
  <2>1. All' = All BY DEF All, Named
  <2>2. ASSUME NEW i \in 1..Len(All) PROVE Place(i)' = Place(i)
    <3>1. i \in Nat /\ Len(All) # 0 BY <1>0
    <3>2. Place(i)' = Place(Len(All) + i) BY <1>0, <3>1, PlaceMoves
    <3>3. Place(i + Len(All)) = Place(i) BY <1>0, <3>1, PlaceAround
    <3>4. i + Len(All) = Len(All) + i BY <1>0, <3>1
    <3> QED BY <3>2, <3>3, <3>4
  <2> QED BY <2>1, <2>2 DEF TurnsKept
<1> QED BY <1>1, <1>2, <1>3, <1>4, <1>5

Taken(n) ==
  /\ rr' \in 0..(Turns - 1) /\ passed' \in [Domains -> Nat]
  /\ Place(n) \in Domains /\ ban[Place(n)] = 0
  /\ TurnsKept'

(* What Next returns is free, and taking it keeps the turns                *)
(* (cfproxy.go:147-169).                                                   *)
LEMMA TakesKeepsTurns ==
  ASSUME TypeOK, TurnsKept, NEW n \in 1..Len(All), Takes(n), fetched' = fetched
  PROVE  Taken(n)
<1> USE CFAssumption DEF Taken
<1>1. /\ Found(n) /\ TurnsBy(n)
      /\ passed' = [d \in Domains |->
                      IF d \in Listed \ {Place(n)} /\ ban[d] = 0 THEN passed[d] + 1 ELSE 0]
  BY DEF Takes
<1>2. Kept /\ Len(All) \in Nat /\ n \in Nat /\ Len(All) # 0
  <2>1. Kept BY DEF Kept, TypeOK
  <2>2. Len(All) \in Nat BY <2>1, Length
  <2> QED BY <2>1, <2>2
<1>3. Place(n) \in Domains /\ Place(n) \in Listed /\ ban[Place(n)] = 0
  BY <1>1, <1>2, PlaceListed DEF Found
<1> DEFINE L == Len(All)
<1>4. All' = All /\ \A i \in Nat : Place(i)' = Place(n + i)
  BY <1>1, <1>2, PlaceMoves
<1>5. ASSUME NEW i \in 1..L PROVE passed'[Place(n + i)] + i <= L
  <2>1. i \in Nat /\ n + i \in Nat /\ Place(n + i) \in Domains
    <3>1. i \in Nat /\ n + i \in Nat BY <1>2
    <3> QED BY <3>1, <1>2, PlaceListed
  <2>2. CASE n + i <= L
    <3>1. n + i \in 1..L /\ n >= 1 BY <1>2, <2>2
    <3>2. passed[Place(n + i)] + (n + i) <= L BY <3>1 DEF TurnsKept
    <3>3. passed[Place(n + i)] \in Nat BY <2>1 DEF TypeOK
    <3>4. passed'[Place(n + i)] \in {0, passed[Place(n + i)] + 1} BY <1>1, <2>1
    <3> QED BY ONLY <1>2, <2>1, <3>1, <3>2, <3>3, <3>4
  <2>3. CASE n + i > L
    <3> DEFINE j == n + i - L
    <3>1. j \in 1..n /\ j \in Nat /\ n + i = j + L BY <1>2, <2>3
    <3>2. Place(n + i) = Place(j)
      <4> HIDE DEF j
      <4> QED BY <1>2, <3>1, PlaceAround
    <3>3. passed'[Place(j)] = 0
      <4> HIDE DEF j
      <4>1. CASE j = n BY <1>1, <1>3, <4>1
      <4>2. CASE j # n
        <5>1. j \in 1..(n - 1) BY <1>2, <3>1, <4>2
        <5>2. ban[Place(j)] > 0 BY <1>1, <5>1 DEF Found
        <5>3. Place(j) \in Domains BY <1>2, <3>1, PlaceListed
        <5>4. ban[Place(j)] \in Nat BY <5>3 DEF TypeOK
        <5>5. ban[Place(j)] # 0 BY <5>2, <5>4
        <5> QED BY <1>1, <5>3, <5>5
      <4> QED BY <4>1, <4>2
    <3> QED BY <1>2, <2>1, <3>2, <3>3
  <2> QED BY <1>2, <2>1, <2>2, <2>3
<1>6. ASSUME NEW i \in 1..L PROVE passed'[Place(i)'] + i <= L
  <2>1. i \in Nat BY <1>2
  <2> QED BY <1>4, <1>5, <2>1
<1>7. TurnsKept' BY <1>4, <1>6 DEF TurnsKept
<1> QED BY <1>1, <1>2, <1>3, <1>7, TurnBounded DEF TypeOK

(* Picks keeps the invariant: what Next returns has no ban, so it is none  *)
(* of the domains whose bans the call counts on.                           *)
LEMMA PicksInv == ASSUME CFInv, NEW c \in Clients, Picks(c) PROVE CFInv'
<1> USE CFAssumption DEF CFInv
<1>1. PICK n \in 1..Len(All) : Takes(n) /\ trying' = [trying EXCEPT ![c] = Place(n)]
  BY DEF Picks
<1>2. /\ left[c] > 0 /\ trying[c] = None /\ due' = [due EXCEPT ![c] = 1]
      /\ UNCHANGED <<fetched, ban, left, off, spent, cleared>>
  BY DEF Picks
<1>3. Taken(n) BY <1>1, <1>2, TakesKeepsTurns
<1>4. TypeOK' BY <1>1, <1>2, <1>3 DEF TypeOK, Taken
<1>5. Place(n) \notin spent[c]
  <2>1. left[c] \in Nat /\ Remaining(c) = left[c] BY <1>2 DEF Remaining, TypeOK
  <2>2. ASSUME NEW d \in spent[c] PROVE ban[d] # 0
    <3>1. ban[d] > left[c] BY <1>2, <2>1 DEF Running
    <3>2. ban[d] \in Nat BY DEF TypeOK
    <3> QED BY ONLY <2>1, <1>2, <3>1, <3>2
  <2> QED BY <1>3, <2>2 DEF Taken
<1>6. NoSecondTry' BY <1>1, <1>2, <1>5 DEF NoSecondTry, TypeOK
<1>7. ASSUME NEW b \in Clients PROVE Counted(b)' BY <1>2 DEF Counted
<1>8. ASSUME NEW b \in Clients PROVE Running(b)'
  <2>1. CASE b = c
    <3>1. trying'[c] # None /\ due'[c] = 1 BY <1>1, <1>2, <1>3 DEF TypeOK, Taken
    <3>2. left[c] \in Nat BY DEF TypeOK
    <3>3. Remaining(c)' = Remaining(c)
      BY <1>2, <3>1, <3>2 DEF Remaining
    <3>4. Running(c) OBVIOUS
    <3>5. Running(c)'
      <4> HIDE DEF Remaining
      <4> QED BY ONLY <1>2, <3>1, <3>3, <3>4 DEF Running
    <3> QED BY <2>1, <3>5
  <2>2. CASE b # c
    <3>1. trying'[b] = trying[b] /\ due'[b] = due[b] BY <1>1, <1>2, <2>2 DEF TypeOK
    <3> QED BY <1>2, <3>1 DEF Running, Remaining
  <2> QED BY <2>1, <2>2
<1>9. TurnsKept' BY <1>3 DEF Taken
<1> QED BY <1>4, <1>6, <1>7, <1>8, <1>9

(* PicksInVain keeps the invariant: the call is over.                      *)
LEMMA PicksInVainInv == ASSUME CFInv, NEW c \in Clients, PicksInVain(c) PROVE CFInv'
<1> USE CFAssumption DEF CFInv
<1>1. PICK n \in 1..Len(All) : Takes(n)
  BY DEF PicksInVain
<1>2. /\ left' = [left EXCEPT ![c] = 0] /\ trying[c] = None
      /\ UNCHANGED <<fetched, ban, trying, due, off, spent, cleared>>
  BY DEF PicksInVain
<1>3. Taken(n) BY <1>1, <1>2, TakesKeepsTurns
<1>4. TypeOK' BY <1>2, <1>3 DEF TypeOK, Taken
<1>5. NoSecondTry' BY <1>2 DEF NoSecondTry
<1>6. ASSUME NEW b \in Clients PROVE Counted(b)' BY <1>2 DEF Counted, TypeOK
<1>7. ASSUME NEW b \in Clients PROVE Running(b)' BY <1>2 DEF Running, Remaining, TypeOK
<1>8. TurnsKept' BY <1>3 DEF Taken
<1> QED BY <1>4, <1>5, <1>6, <1>7, <1>8

(* Every step keeps the invariant.                                         *)
LEMMA CFNext == CFInv /\ [Next]_vars => CFInv'
<1> SUFFICES ASSUME CFInv, [Next]_vars PROVE CFInv' OBVIOUS
<1>1. CASE UNCHANGED vars
  <2> USE <1>1 DEF CFInv, vars, calls
  <2>1. TypeOK' BY DEF TypeOK
  <2>2. NoSecondTry' BY DEF NoSecondTry
  <2>3. ASSUME NEW b \in Clients PROVE Counted(b)' BY DEF Counted
  <2>4. ASSUME NEW b \in Clients PROVE Running(b)' BY DEF Running, Remaining
  <2>5. TurnsKept' BY TurnsSame
  <2> QED BY <2>1, <2>2, <2>3, <2>4, <2>5
<1> QED
  BY <1>1, CallsInv, CallOffInv, PicksInv, PicksInVainInv, FindsNoneInv, ConnectsInv,
     FailsInv, CancelledInv, FetchInv, TickInv DEF Next

(* So it holds throughout.                                                 *)
LEMMA CFInvariant == Spec => []CFInv
BY CFInit, CFNext, PTL DEF Spec

(* The lists, the bans, the turn and the calls stay what they are.         *)
THEOREM CFTypeCorrect == Spec => []TypeOK
<1>1. CFInv => TypeOK BY DEF CFInv
<1> QED BY <1>1, CFInvariant, PTL

(* No call tries a domain again that failed in it, unless the domain has   *)
(* answered another client since: its ban outlasts the attempts that are   *)
(* left, and only MarkGood lifts it (server.go:394-417, cfproxy.go:171-184). *)
THEOREM NoDomainTwice == Spec => []NoSecondTry
<1>1. CFInv => NoSecondTry BY DEF CFInv
<1> QED BY <1>1, CFInvariant, PTL

(* No domain is passed over as often as the list is long                   *)
(* (cfproxy.go:148-169).                                                   *)
THEOREM NoDomainPassedOver == Spec => []NotPassedOver
<1>1. ASSUME CFInv PROVE NotPassedOver
  <2> SUFFICES ASSUME NEW d \in Listed PROVE passed[d] < Len(All) BY DEF NotPassedOver
  <2>1. Kept BY <1>1 DEF Kept, CFInv, TypeOK
  <2>2. PICK i \in 1..Len(All) : Place(i) = d BY <2>1, PlaceReaches
  <2>3. Len(All) \in Nat BY <2>1, Length
  <2>4. Place(i) \in Domains
    <3>1. i \in Nat /\ Len(All) # 0 BY <2>3
    <3> QED BY <2>1, <3>1, PlaceListed
  <2>5. passed[d] + i <= Len(All) /\ passed[d] \in Nat
    BY <1>1, <2>2, <2>4 DEF CFInv, TurnsKept, TypeOK
  <2> QED BY <2>3, <2>5
<1> QED BY <1>1, CFInvariant, PTL

(* When Next returns "" every domain of the list is banned: no place it    *)
(* looked at was free, and it looked at them all (cfproxy.go:158-168).     *)
LEMMA NoneIsFree ==
  ASSUME TypeOK, ~\E n \in 1..Len(All) : Found(n)
  PROVE  \A d \in Listed : ban[d] > 0
<1> SUFFICES ASSUME NEW d \in Listed PROVE ban[d] > 0 OBVIOUS
<1>1. Kept BY DEF Kept, TypeOK
<1>2. Len(All) \in Nat BY <1>1, Length
<1> DEFINE T == {i \in 1..Len(All) : ban[Place(i)] = 0}
<1>3. PICK i \in 1..Len(All) : Place(i) = d BY <1>1, PlaceReaches
<1>4. ASSUME NEW k \in 1..Len(All) PROVE ban[Place(k)] \in Nat
  <2>1. k \in Nat /\ Len(All) # 0 BY <1>2
  <2>2. Place(k) \in Domains BY <1>1, <2>1, PlaceListed
  <2> QED BY <2>2 DEF TypeOK
<1>5. T = {}
  <2> SUFFICES ASSUME T # {} PROVE FALSE OBVIOUS
  <2>1. T \subseteq Nat BY <1>2
  <2>2. PICK n \in T : \A m \in T : n <= m
    <3> HIDE DEF T
    <3> QED BY <2>1, LeastNatural
  <2>3. ASSUME NEW k \in 1..(n - 1) PROVE ban[Place(k)] > 0
    <3>1. k \in 1..Len(All) /\ k < n /\ k \in Nat BY <1>2, <2>1
    <3>2. k \notin T
      <4> HIDE DEF T
      <4> QED BY <2>1, <2>2, <3>1
    <3> QED BY <1>4, <3>1, <3>2
  <2> QED BY <2>3 DEF Found
<1> QED BY <1>3, <1>4, <1>5

(* tryCF gives up, uncancelled, only when as many different domains as it  *)
(* has attempts have failed in the call (fewer only if one of them answered *)
(* another client in between), or when every domain of the list is banned  *)
(* (server.go:394-423, cfproxy.go:147-169).                                *)
THEOREM NilOnlyWhenDeserved == Spec => NilIsDeserved
<1>1. ASSUME CFInv, NEW c \in Clients, FindsNone(c) PROVE \A d \in Listed : ban[d] > 0
  BY <1>1, NoneIsFree DEF FindsNone, CFInv
<1>2. ASSUME CFInv, NEW c \in Clients, Fails(c), left'[c] = 0, c \notin cleared
      PROVE  Cardinality(spent'[c]) = Attempts
  <2>1. trying[c] # None /\ left[c] > 0 /\ trying[c] \in Domains /\ trying[c] \notin spent[c]
    BY <1>2 DEF CFInv, Fails, Running, NoSecondTry, TypeOK
  <2>2. left[c] - 1 = 0 /\ spent'[c] = spent[c] \cup {trying[c]} /\ spent[c] \subseteq Domains
    BY <1>2 DEF CFInv, TypeOK, Fails, Ends
  <2>3. Cardinality(spent'[c]) = Cardinality(spent[c]) + 1 /\ Cardinality(spent[c]) \in Nat
    BY <2>1, <2>2, SpentCounted
  <2>4. Cardinality(spent[c]) + left[c] = Attempts /\ left[c] \in Nat
    BY <1>2, <2>1 DEF CFInv, Counted, TypeOK
  <2> QED BY ONLY <2>2, <2>3, <2>4
<1>3. ASSUME CFInv, [Next]_vars, NEW c \in Clients, ReturnsNil(c) PROVE Deserved(c)
  <2> USE <1>3 DEF ReturnsNil
  <2>1. left[c] \in Nat /\ left[c] # left'[c] BY DEF CFInv, TypeOK
  <2>2. CASE UNCHANGED vars BY <2>1, <2>2 DEF vars, calls
  <2>3. CASE Fetch \/ Tick BY <2>1, <2>3 DEF Fetch, Tick, calls
  <2>4. ASSUME NEW b \in Clients, Calls(b) PROVE FALSE
    BY <2>4, CFAssumption DEF CFInv, TypeOK, Calls, Begins
  <2>5. ASSUME NEW b \in Clients, CallOff(b) \/ Picks(b) PROVE FALSE
    BY <2>1, <2>5 DEF CallOff, Picks
  <2>6. ASSUME NEW b \in Clients, PicksInVain(b) \/ Cancelled(b) PROVE FALSE
    BY <2>1, <2>6 DEF CFInv, TypeOK, PicksInVain, Cancelled, Ends
  <2>7. ASSUME NEW b \in Clients, Connects(b) PROVE Deserved(c)
    <3>1. b = c /\ trying[c] # None BY <2>1, <2>7 DEF CFInv, TypeOK, Connects, Ends
    <3>2. spent'[c] = spent[c] \ {trying[c]} BY <2>7, <3>1 DEF Connects
    <3>3. trying[c] \notin spent[c] BY DEF CFInv, NoSecondTry
    <3> QED BY <3>1, <3>2, <3>3
  <2>8. ASSUME NEW b \in Clients, FindsNone(b) PROVE Deserved(c)
    BY <1>1, <2>8 DEF Deserved
  <2>9. ASSUME NEW b \in Clients, Fails(b) PROVE Deserved(c)
    <3>1. b = c BY <2>1, <2>9 DEF CFInv, TypeOK, Fails, Ends
    <3>2. cleared' = cleared BY <2>9 DEF Fails
    <3> QED BY <1>2, <2>9, <3>1, <3>2 DEF Deserved
  <2> QED BY <2>2, <2>3, <2>4, <2>5, <2>6, <2>7, <2>8, <2>9 DEF Next
<1>4. CFInv /\ [Next]_vars => [\A c \in Clients : ReturnsNil(c) => Deserved(c)]_vars
  BY <1>3
<1> QED BY <1>4, CFInvariant, PTL DEF Spec, NilIsDeserved
=============================================================================
