----------------------------- MODULE RouteProofs -----------------------------
(***************************************************************************)
(* Proofs about Route for any set of clients, numbers of attempts and      *)
(* deadlines.  The invariant of one client is written over the values of   *)
(* its variables, so that a step of another client leaves it as it is.     *)
(***************************************************************************)
EXTENDS Route, TLAPS

(* A chain whose result has not been received.                             *)
Active == {"dial", "shake", "failed", "gave", "sent"}

(* While the handler waits nobody else does; later one chain at most is    *)
(* left, and the reaper outlasts its handshake.                            *)
Waiting(s, a, k, re, t) ==
  /\ s = "ask" => \A r \in Chains : a[r] = "idle"
  /\ s = "cf" => a["ws"] = "idle" /\ a["cf"] \in Active
  /\ s = "ws" => a["cf"] \in {"idle", "over"}
  /\ s \in {"ask", "race", "cf", "ws"} => re = "none"
  /\ \A r \in Chains : a[r] = "shake" => k[r] <= ShakeTicks
  /\ s = "direct" => \A r \in Chains : a[r] \in {"idle", "over"}
  /\ s \in {"direct", "serve", "ended"} =>
       \A r \in Chains : a[r] \in Active =>
         /\ re = "waits"
         /\ t > (IF a[r] = "shake" THEN k[r] ELSE 0)
         /\ \A q \in Chains \ {r} : a[q] \notin Active

(* Failures and blame of one chain; open: nobody has cancelled it.         *)
Blame(open, a, f, m) ==
  /\ m <= f
  /\ open => f = IF a = "failed" THEN m + 1 ELSE m

Fresh(s, f, m) == s = "ask" => \A r \in Chains : f[r] = 0 /\ m[r] = 0

(* The WebSocket chain gives up by itself only after its last attempt.     *)
Exhausted(st, s, a, l) ==
  /\ \A r \in Chains : a[r] \in {"dial", "shake", "failed"} => l[r] > 0
  /\ ~st /\ s \in {"race", "ws", "direct"} /\ a["ws"] \in {"gave", "over"} => l["ws"] = 0
  /\ ~st /\ s = "direct" => a["ws"] = "over"
  /\ s \in {"ws", "race"} => a["ws"] # "idle"
  /\ s \in {"ask", "cf"} => l["ws"] > 0

ClientInv(c) ==
  /\ Waiting(stage[c], at[c], clock[c], reaper[c], timer[c])
  /\ \A r \in Chains : Blame(~Cancelled(c), at[c][r], failed[c][r], marked[c][r])
  /\ Fresh(stage[c], failed[c], marked[c])
  /\ Exhausted(stopped, stage[c], at[c], left[c])

RouteInv == TypeOK /\ \A c \in Clients : ClientInv(c)

-----------------------------------------------------------------------------
(* What an assignment to one chain of one client changes and keeps.        *)
LEMMA MoveDoes ==
  ASSUME TypeOK, NEW c \in Clients, NEW r \in Chains,
         NEW phase \in Phases, NEW ticks \in Nat, Move(c, r, phase, ticks)
  PROVE  /\ at' \in [Clients -> [Chains -> Phases]]
         /\ clock' \in [Clients -> [Chains -> Nat]]
         /\ at'[c][r] = phase /\ clock'[c][r] = ticks
         /\ \A q \in Chains \ {r} : at'[c][q] = at[c][q] /\ clock'[c][q] = clock[c][q]
         /\ \A d \in Clients \ {c} : at'[d] = at[d] /\ clock'[d] = clock[d]
BY DEF TypeOK, Move

(* The constants are numbers.                                              *)
LEMMA Constants ==
  /\ DialTicks \in Nat /\ ShakeTicks \in Nat /\ ReapTicks \in Nat /\ ReapTicks > ShakeTicks
  /\ ByIP \in Nat /\ MaxHops \in Nat /\ MaxHops > 0
  /\ DeadStreak \in Nat /\ DeadTicks \in Nat
  /\ \A r \in Chains : Attempts(r) \in Nat /\ Attempts(r) > 0
BY RouteAssumption DEF Attempts, Chains

HealthTyped == streak \in 0..DeadStreak /\ since \in 0..(DeadTicks + 1)

(* The health counters keep their types (server.go:78-94).                 *)
LEMMA HealthStep ==
  ASSUME HealthTyped, wsOK \/ wsFail \/ UNCHANGED health
  PROVE  HealthTyped'
BY Constants DEF HealthTyped, wsOK, wsFail, health

(* Counting one more keeps a table of numbers.                             *)
LEMMA Counted ==
  ASSUME NEW f \in [Clients -> [Chains -> Nat]], NEW c \in Clients, NEW r \in Chains
  PROVE  [f EXCEPT ![c][r] = @ + 1] \in [Clients -> [Chains -> Nat]]
<1>1. f[c][r] + 1 \in Nat OBVIOUS
<1> QED BY <1>1

(* A chain keeps its type.                                                 *)
LEMMA ChainTyped ==
  ASSUME TypeOK, NEW c \in Clients, NEW r \in Chains, Chain(c, r),
         at[c][r] = "failed" => left[c][r] > 0
  PROVE  TypeOK'
<1>1. HealthTyped'
  <2>1. wsOK \/ wsFail \/ UNCHANGED health
    BY DEF Chain, DialOK, DialFails, DialAborted, ShakeOK, ShakeFails, GivesUp,
           TriesNext, Redirected
  <2> QED BY <2>1, HealthStep DEF TypeOK, HealthTyped
<1>2. UNCHANGED Others
  BY DEF Chain, DialOK, DialFails, DialAborted, ShakeOK, ShakeFails, GivesUp,
         TriesNext, Redirected
<1>3. /\ at' \in [Clients -> [Chains -> Phases]]
      /\ clock' \in [Clients -> [Chains -> Nat]]
  <2>1. PICK q \in Chains, phase \in Phases, ticks \in Nat : Move(c, q, phase, ticks)
    <3>1. CASE TriesNext(c, r)
      BY <3>1, Constants DEF TriesNext, Begins, Phases
    <3>2. CASE Redirected(c) BY <3>2, Constants DEF Redirected, Phases, Chains
    <3> QED BY <3>1, <3>2, Constants
            DEF Chain, DialOK, DialFails, DialAborted, ShakeOK, ShakeFails, GivesUp, Phases
  <2> QED BY <2>1, MoveDoes
<1>4. failed' \in [Clients -> [Chains -> Nat]]
  <2>1. UNCHANGED failed \/ failed' = [failed EXCEPT ![c][r] = @ + 1]
    BY DEF Chain, DialOK, DialFails, DialAborted, ShakeOK, ShakeFails, GivesUp,
           TriesNext, Redirected
  <2>2. failed \in [Clients -> [Chains -> Nat]] BY DEF TypeOK
  <2>3. [failed EXCEPT ![c][r] = @ + 1] \in [Clients -> [Chains -> Nat]]
    BY ONLY <2>2, Counted, c \in Clients, r \in Chains
  <2> QED BY ONLY <2>1, <2>2, <2>3
<1>5. marked' \in [Clients -> [Chains -> Nat]]
  <2>1. UNCHANGED marked \/ marked' = [marked EXCEPT ![c][r] = @ + 1]
    BY DEF Chain, DialOK, DialFails, DialAborted, ShakeOK, ShakeFails, GivesUp,
           TriesNext, Redirected
  <2>2. marked \in [Clients -> [Chains -> Nat]] BY DEF TypeOK
  <2>3. [marked EXCEPT ![c][r] = @ + 1] \in [Clients -> [Chains -> Nat]]
    BY ONLY <2>2, Counted, c \in Clients, r \in Chains
  <2> QED BY ONLY <2>1, <2>2, <2>3
<1>7. left' \in [Clients -> [Chains -> Nat]]
  <2>1. CASE UNCHANGED left BY <2>1 DEF TypeOK
  <2>2. CASE TriesNext(c, r)
    <3>1. left[c][r] \in Nat /\ left[c][r] > 0 BY <2>2 DEF TypeOK, TriesNext
    <3>2. left[c][r] - 1 \in Nat BY <3>1
    <3> QED BY <2>2, <3>2 DEF TypeOK, TriesNext
  <2> QED BY <2>1, <2>2
          DEF Chain, DialOK, DialFails, DialAborted, ShakeOK, ShakeFails, GivesUp, Redirected
<1>6. hops' \in [Clients -> [Chains -> 0..(MaxHops - 1)]]
  <2>1. CASE TriesNext(c, r) BY <2>1, Constants DEF TypeOK, TriesNext
  <2>2. CASE Redirected(c) BY <2>2, Constants DEF TypeOK, Redirected, Chains
  <2>3. CASE UNCHANGED hops BY <2>3 DEF TypeOK
  <2> QED BY <2>1, <2>2, <2>3
          DEF Chain, DialOK, DialFails, DialAborted, ShakeOK, ShakeFails, GivesUp
<1> QED BY <1>1, <1>2, <1>3, <1>4, <1>5, <1>6, <1>7
        DEF TypeOK, HealthTyped, Others, reaperVars

(* What the start of a chain does to its variables.                        *)
LEMMA BeginDoes ==
  ASSUME TypeOK, NEW c \in Clients, NEW started \in SUBSET Chains, Begin(c, started)
  PROVE  /\ at' \in [Clients -> [Chains -> Phases]]
         /\ clock' \in [Clients -> [Chains -> Nat]]
         /\ \A r \in started : at'[c][r] \in Begins(r, left[c][r])
         /\ \A r \in Chains \ started : at'[c][r] = at[c][r]
         /\ \A r \in Chains : at'[c][r] \in {"idle", "dial", "gave"}
         /\ \A d \in Clients \ {c} : at'[d] = at[d] /\ clock'[d] = clock[d]
         /\ UNCHANGED <<left, hops, failed, marked>>
<1>1. PICK p \in [Chains -> {"idle", "dial", "gave"}] : at' = [at EXCEPT ![c] = p]
  BY DEF Begin
<1>2. at'[c] = p /\ \A d \in Clients \ {c} : at'[d] = at[d]
  BY <1>1 DEF TypeOK
<1>3. at' \in [Clients -> [Chains -> Phases]]
  <2>1. p \in [Chains -> Phases] BY DEF Phases
  <2> QED BY <1>1, <2>1 DEF TypeOK
<1>4. /\ clock' \in [Clients -> [Chains -> Nat]]
      /\ \A d \in Clients \ {c} : clock'[d] = clock[d]
  BY Constants DEF Begin, TypeOK
<1> QED BY <1>2, <1>3, <1>4 DEF Begin

(* What a step of the handler does to the variables of its client.         *)
LEMMA HandlerTyped ==
  ASSUME TypeOK, NEW c \in Clients, Handler(c) \/ SessionEnds(c) \/ Reaper(c)
  PROVE  TypeOK'
<1> USE DEF reaperVars, chainVars, health
<1>1. CASE PoolHit(c)
  <2>1. HealthTyped' BY <1>1, HealthStep DEF PoolHit, TypeOK, HealthTyped
  <2> QED BY <1>1, <2>1 DEF PoolHit, TypeOK, HealthTyped
<1>2. CASE PoolMiss(c)
  <2>1. PICK started \in SUBSET Chains : Begin(c, started) BY <1>2 DEF PoolMiss, Chains
  <2>2. stage' \in [Clients -> {"ask", "race", "cf", "ws", "direct", "serve", "ended"}]
    BY <1>2 DEF PoolMiss, TypeOK
  <2> QED BY <1>2, <2>1, <2>2, BeginDoes DEF PoolMiss, TypeOK
<1>3. CASE Direct(c) BY <1>3 DEF Direct, TypeOK
<1>4. ASSUME NEW r \in Chains, ChainReturns(c, r) PROVE TypeOK'
  <2>1. /\ at' \in [Clients -> [Chains -> Phases]]
        /\ clock' \in [Clients -> [Chains -> Nat]]
    <3>1. CASE \E phase \in Phases : Move(c, r, phase, 0) BY <3>1, MoveDoes
    <3>2. CASE /\ at' = [at EXCEPT ![c] = [ws |-> "dial", cf |-> "over"]]
               /\ clock' = [clock EXCEPT ![c]["ws"] = DialTicks]
      <4>1. [ws |-> "dial", cf |-> "over"] \in [Chains -> Phases] BY DEF Chains, Phases
      <4>2. at' \in [Clients -> [Chains -> Phases]] BY <3>2, <4>1 DEF TypeOK
      <4>3. "ws" \in Chains BY DEF Chains
      <4>4. clock' \in [Clients -> [Chains -> Nat]] BY <3>2, <4>3, Constants DEF TypeOK
      <4> QED BY <4>2, <4>4
    <3> QED BY <1>4, <3>1, <3>2 DEF ChainReturns, Phases
  <2>2. /\ stage' \in [Clients -> {"ask", "race", "cf", "ws", "direct", "serve", "ended"}]
        /\ uses' \in [Clients -> {"none", "pool", "direct"} \cup Chains]
    BY <1>4 DEF ChainReturns, TypeOK
  <2> QED BY <1>4, <2>1, <2>2 DEF ChainReturns, TypeOK
<1>5. ASSUME NEW r \in Chains, RaceWon(c, r) \/ RaceNil(c, r) PROVE TypeOK'
  <2>1. \E phase \in Phases : Move(c, r, phase, 0) BY <1>5 DEF RaceWon, RaceNil, Phases
  <2>2. stage' \in [Clients -> {"ask", "race", "cf", "ws", "direct", "serve", "ended"}]
    <3>1. \/ UNCHANGED stage
          \/ stage' = [stage EXCEPT ![c] = "serve"]
          \/ stage' = [stage EXCEPT ![c] = "direct"]
      BY <1>5 DEF RaceWon, RaceNil
    <3> QED BY <3>1 DEF TypeOK
  <2>3. uses' \in [Clients -> {"none", "pool", "direct"} \cup Chains]
    <3>1. UNCHANGED uses \/ uses' = [uses EXCEPT ![c] = r] BY <1>5 DEF RaceWon, RaceNil
    <3> QED BY <3>1 DEF TypeOK
  <2>4. /\ reaper' \in [Clients -> {"none", "waits", "ended"}]
        /\ timer' \in [Clients -> 0..ReapTicks]
    <3>1. UNCHANGED reaperVars \/ StartReaper(c) BY <1>5 DEF RaceWon, RaceNil
    <3>2. ReapTicks \in 0..ReapTicks BY Constants
    <3>3. CASE StartReaper(c) BY <3>2, <3>3 DEF StartReaper, TypeOK
    <3>4. CASE UNCHANGED reaperVars BY <3>4 DEF TypeOK
    <3> QED BY <3>1, <3>3, <3>4
  <2> QED BY <1>5, <2>1, <2>2, <2>3, <2>4, MoveDoes DEF RaceWon, RaceNil, TypeOK
<1>6. CASE SessionEnds(c)
  <2>1. at' \in [Clients -> [Chains -> Phases]]
    BY <1>6 DEF SessionEnds, TypeOK, Phases
  <2> QED BY <1>6, <2>1 DEF SessionEnds, TypeOK
<1>7. ASSUME NEW r \in Chains, Reap(c, r) PROVE TypeOK'
  <2>1. \E phase \in Phases : Move(c, r, phase, 0) BY <1>7 DEF Reap, Phases
  <2> QED BY <1>7, <2>1, MoveDoes DEF Reap, TypeOK
<1>8. CASE ReaperTimesOut(c) BY <1>8 DEF ReaperTimesOut, TypeOK
<1> QED BY <1>1, <1>2, <1>3, <1>4, <1>5, <1>6, <1>7, <1>8 DEF Handler, Reaper

(* Time keeps the types.                                                   *)
LEMMA TickTyped == TypeOK /\ Tick => TypeOK'
<1> SUFFICES ASSUME TypeOK, Tick PROVE TypeOK' OBVIOUS
<1>1. clock' \in [Clients -> [Chains -> Nat]] BY DEF Tick, TypeOK, Down
<1>2. timer' \in [Clients -> 0..ReapTicks]
  <2>1. \A n \in 0..ReapTicks : Down(n) \in 0..ReapTicks BY Constants DEF Down
  <2> QED BY <2>1 DEF Tick, TypeOK
<1>3. since' \in 0..(DeadTicks + 1) BY Constants DEF Tick, TypeOK
<1> QED BY <1>1, <1>2, <1>3 DEF Tick, TypeOK

-----------------------------------------------------------------------------
(* The variables of client d stay as they are.                             *)
Same(d) ==
  /\ stage'[d] = stage[d] /\ at'[d] = at[d] /\ clock'[d] = clock[d]
  /\ reaper'[d] = reaper[d] /\ timer'[d] = timer[d]
  /\ left'[d] = left[d] /\ failed'[d] = failed[d] /\ marked'[d] = marked[d]

(* A client that does not move keeps its invariant.                        *)
LEMMA SameKeeps ==
  ASSUME NEW d \in Clients, ClientInv(d), Same(d), stopped' = stopped
  PROVE  ClientInv(d)'
<1>1. Cancelled(d)' <=> Cancelled(d) BY DEF Same, Cancelled
<1> QED BY <1>1 DEF Same, ClientInv

(* The seven ways a chain goes on.                                         *)
Step(c, r) ==
  \/ /\ at[c][r] = "dial" /\ at'[c][r] = "shake" /\ clock'[c][r] = ShakeTicks
     /\ ~Cancelled(c)
     /\ UNCHANGED <<left[c][r], failed[c][r], marked[c][r]>>
  \/ /\ at[c][r] \in {"dial", "shake"} /\ at'[c][r] = "failed"
     /\ failed'[c][r] = failed[c][r] + 1
     /\ UNCHANGED <<left[c][r], marked[c][r]>>
  \/ /\ at[c][r] = "dial" /\ at'[c][r] = "failed" /\ Cancelled(c)
     /\ UNCHANGED <<left[c][r], failed[c][r], marked[c][r]>>
  \/ /\ at[c][r] = "shake" /\ at'[c][r] = "sent"
     /\ UNCHANGED <<left[c][r], failed[c][r], marked[c][r]>>
  \/ /\ at[c][r] = "shake" /\ at'[c][r] = "dial"
     /\ UNCHANGED <<left[c][r], failed[c][r], marked[c][r]>>
  \/ /\ at[c][r] = "failed" /\ at'[c][r] = "gave" /\ Cancelled(c)
     /\ UNCHANGED <<left[c][r], failed[c][r], marked[c][r]>>
  \/ /\ at[c][r] = "failed" /\ at'[c][r] \in Begins(r, left[c][r] - 1) /\ ~Cancelled(c)
     /\ left'[c][r] = left[c][r] - 1 /\ marked'[c][r] = marked[c][r] + 1
     /\ UNCHANGED failed[c][r]

(* What a step of a chain does to its variables.                           *)
LEMMA ChainDoes ==
  ASSUME TypeOK, NEW c \in Clients, NEW r \in Chains, Chain(c, r)
  PROVE  /\ Step(c, r)
         /\ UNCHANGED <<stage, reaper, timer, stopped>>
         /\ \A q \in Chains \ {r} :
              /\ at'[c][q] = at[c][q] /\ clock'[c][q] = clock[c][q]
              /\ left'[c][q] = left[c][q]
              /\ failed'[c][q] = failed[c][q] /\ marked'[c][q] = marked[c][q]
         /\ \A d \in Clients \ {c} : Same(d)
<1> DEFINE Elsewhere ==
      /\ \A q \in Chains \ {r} :
           /\ at'[c][q] = at[c][q] /\ clock'[c][q] = clock[c][q]
           /\ left'[c][q] = left[c][q]
           /\ failed'[c][q] = failed[c][q] /\ marked'[c][q] = marked[c][q]
      /\ \A d \in Clients \ {c} : Same(d)
<1>0. UNCHANGED <<stage, reaper, timer, stopped>>
  BY DEF Chain, DialOK, DialFails, DialAborted, ShakeOK, ShakeFails, GivesUp,
         TriesNext, Redirected, Others, reaperVars
<1>a. /\ left \in [Clients -> [Chains -> Nat]]
      /\ failed \in [Clients -> [Chains -> Nat]]
      /\ marked \in [Clients -> [Chains -> Nat]]
  BY DEF TypeOK
<1>b. {"dial", "shake", "failed", "gave", "sent"} \subseteq Phases BY DEF Phases
<1>c. DialTicks \in Nat /\ ShakeTicks \in Nat /\ 0 \in Nat BY Constants
<1>1. CASE DialOK(c, r)
  <2>1. Move(c, r, "shake", ShakeTicks) BY <1>1 DEF DialOK
  <2> QED BY <1>0, <1>1, <1>b, <1>c, <2>1, MoveDoes DEF DialOK, Step, Same
<1>2. CASE DialFails(c, r)
  <2>1. Move(c, r, "failed", 0) BY <1>2 DEF DialFails
  <2> QED BY <1>0, <1>2, <1>a, <1>b, <1>c, <2>1, MoveDoes DEF DialFails, Step, Same
<1>3. CASE DialAborted(c, r)
  <2>1. Move(c, r, "failed", 0) BY <1>3 DEF DialAborted
  <2> QED BY <1>0, <1>3, <1>b, <1>c, <2>1, MoveDoes DEF DialAborted, Step, Same
<1>4. CASE ShakeOK(c, r)
  <2>1. Move(c, r, "sent", 0) BY <1>4 DEF ShakeOK
  <2> QED BY <1>0, <1>4, <1>b, <1>c, <2>1, MoveDoes DEF ShakeOK, Step, Same
<1>5. CASE ShakeFails(c, r)
  <2>1. Move(c, r, "failed", 0) BY <1>5 DEF ShakeFails
  <2> QED BY <1>0, <1>5, <1>a, <1>b, <1>c, <2>1, MoveDoes DEF ShakeFails, Step, Same
<1>6. CASE GivesUp(c, r)
  <2>1. Move(c, r, "gave", 0) BY <1>6 DEF GivesUp
  <2> QED BY <1>0, <1>6, <1>b, <1>c, <2>1, MoveDoes DEF GivesUp, Step, Same
<1>7. CASE TriesNext(c, r)
  <2>1. PICK phase \in Begins(r, left[c][r] - 1) :
          Move(c, r, phase, IF phase = "dial" THEN DialTicks ELSE 0)
    BY <1>7 DEF TriesNext
  <2>2. phase \in Phases /\ (IF phase = "dial" THEN DialTicks ELSE 0) \in Nat
    BY <1>c, <2>1 DEF Begins, Phases
  <2>3. at'[c][r] = phase /\ Elsewhere
    <3>1. /\ at'[c][r] = phase
          /\ \A q \in Chains \ {r} : at'[c][q] = at[c][q] /\ clock'[c][q] = clock[c][q]
          /\ \A d \in Clients \ {c} : at'[d] = at[d] /\ clock'[d] = clock[d]
      BY <2>1, <2>2, MoveDoes
    <3>2. /\ \A q \in Chains \ {r} :
               left'[c][q] = left[c][q] /\ marked'[c][q] = marked[c][q]
          /\ \A d \in Clients \ {c} : left'[d] = left[d] /\ marked'[d] = marked[d]
          /\ failed' = failed
      BY <1>7, <1>a DEF TriesNext
    <3> QED BY ONLY <1>0, <3>1, <3>2 DEF Same
  <2>4. /\ left'[c][r] = left[c][r] - 1 /\ marked'[c][r] = marked[c][r] + 1
        /\ UNCHANGED failed[c][r]
    BY <1>7, <1>a DEF TriesNext
  <2> QED BY <1>0, <1>7, <2>1, <2>3, <2>4 DEF TriesNext, Step
<1>8. CASE r = "ws" /\ Redirected(c)
  <2>1. Move(c, r, "dial", DialTicks) BY <1>8 DEF Redirected
  <2> QED BY <1>0, <1>8, <1>b, <1>c, <2>1, MoveDoes DEF Redirected, Step, Same
<1> QED BY <1>1, <1>2, <1>3, <1>4, <1>5, <1>6, <1>7, <1>8 DEF Chain

(* A step of a chain keeps the invariant.                                  *)
LEMMA ChainKeeps ==
  ASSUME TypeOK, NEW c \in Clients, NEW r \in Chains, Chain(c, r),
         \A d \in Clients : ClientInv(d)
  PROVE  \A d \in Clients : ClientInv(d)'
<1>1. \A d \in Clients \ {c} : ClientInv(d)' BY ChainDoes, SameKeeps
<1>2. Waiting(stage[c], at[c], clock[c], reaper[c], timer[c])'
  <2>1. Waiting(stage[c], at[c], clock[c], reaper[c], timer[c]) BY DEF ClientInv
  <2>2. at[c][r] \in Active /\ at'[c][r] \in Active /\ at[c][r] # "gave"
    BY ChainDoes DEF Step, Active, Begins
  <2>3. at'[c][r] = "shake" => clock'[c][r] <= ShakeTicks /\ ~Cancelled(c)
    BY ChainDoes, Constants DEF Step, Begins
  <2>4. stage[c] \in {"direct", "serve", "ended"} => Cancelled(c) BY DEF Cancelled
  <2>5. clock[c][r] \in Nat /\ timer[c] \in Nat BY DEF TypeOK
  <2> QED BY <2>1, <2>2, <2>3, <2>4, <2>5, ChainDoes DEF Waiting, Active, Chains
<1>3. \A q \in Chains : Blame(~Cancelled(c), at[c][q], failed[c][q], marked[c][q])'
  <2>1. \A q \in Chains : Blame(~Cancelled(c), at[c][q], failed[c][q], marked[c][q])
    BY DEF ClientInv
  <2>2. Cancelled(c)' <=> Cancelled(c) BY ChainDoes DEF Cancelled
  <2>3. failed[c][r] \in Nat /\ marked[c][r] \in Nat BY DEF TypeOK
  <2>4. Blame(~Cancelled(c), at[c][r], failed[c][r], marked[c][r])'
    BY <2>1, <2>2, <2>3, ChainDoes DEF Step, Blame, Begins
  <2> QED BY <2>1, <2>2, <2>4, ChainDoes
<1>4. Fresh(stage[c], failed[c], marked[c])'
  <2>1. stage[c] # "ask"
    BY ChainDoes DEF Step, ClientInv, Waiting
  <2> QED BY <2>1, ChainDoes DEF Fresh
<1>5. Exhausted(stopped, stage[c], at[c], left[c])'
  <2>1. Exhausted(stopped, stage[c], at[c], left[c]) BY DEF ClientInv
  <2>2. left[c][r] \in Nat BY DEF TypeOK
  <2>3. stage[c] # "ask" /\ stage[c] # "direct" /\ (stage[c] = "cf" => r = "cf")
    <3>1. at[c][r] \in {"dial", "shake", "failed"} BY ChainDoes DEF Step
    <3>2. Waiting(stage[c], at[c], clock[c], reaper[c], timer[c]) BY DEF ClientInv
    <3> QED BY ONLY <3>1, <3>2, r \in Chains DEF Waiting, Chains
  <2>4. stage[c] \in {"race", "ws"} /\ ~stopped => ~Cancelled(c) BY DEF Cancelled
  <2>5. at'[c][r] \in {"dial", "shake", "failed"} => left'[c][r] > 0
    BY <2>1, <2>2, ChainDoes DEF Step, Exhausted, Begins
  <2>6. /\ at'[c][r] # "over" /\ at'[c][r] # "idle"
        /\ at'[c][r] = "gave" /\ r = "ws" /\ ~Cancelled(c) => left'[c][r] = 0
    BY <2>2, ChainDoes DEF Step, Begins
  <2> QED BY <2>1, <2>3, <2>4, <2>5, <2>6, ChainDoes DEF Exhausted, Chains
<1>6. ClientInv(c)' BY <1>2, <1>3, <1>4, <1>5 DEF ClientInv
<1> QED BY <1>1, <1>6

-----------------------------------------------------------------------------
(* A step of the handler or of the reaper touches one client only.         *)
LEMMA HandlerElsewhere ==
  ASSUME TypeOK, NEW c \in Clients, Handler(c) \/ SessionEnds(c) \/ Reaper(c)
  PROVE  stopped' = stopped /\ \A d \in Clients \ {c} : Same(d)
<1> USE DEF Same, reaperVars, chainVars, TypeOK
<1>1. CASE PoolHit(c) BY <1>1 DEF PoolHit
<1>2. CASE PoolMiss(c)
  <2>1. PICK started \in SUBSET Chains : Begin(c, started) BY <1>2 DEF PoolMiss, Chains
  <2> QED BY <1>2, <2>1, BeginDoes DEF PoolMiss
<1>3. CASE Direct(c) BY <1>3 DEF Direct
<1>4. ASSUME NEW r \in Chains, ChainReturns(c, r)
      PROVE  stopped' = stopped /\ \A d \in Clients \ {c} : Same(d)
  <2>1. CASE \E phase \in Phases : Move(c, r, phase, 0)
    BY <1>4, <2>1, MoveDoes DEF ChainReturns
  <2>2. CASE /\ at' = [at EXCEPT ![c] = [ws |-> "dial", cf |-> "over"]]
             /\ clock' = [clock EXCEPT ![c]["ws"] = DialTicks]
    BY <1>4, <2>2 DEF ChainReturns
  <2> QED BY <1>4, <2>1, <2>2 DEF ChainReturns, Phases
<1>5. ASSUME NEW r \in Chains, RaceWon(c, r) \/ RaceNil(c, r) \/ Reap(c, r)
      PROVE  stopped' = stopped /\ \A d \in Clients \ {c} : Same(d)
  <2>1. \E phase \in Phases : Move(c, r, phase, 0)
    BY <1>5 DEF RaceWon, RaceNil, Reap, Phases
  <2>2. \A d \in Clients \ {c} : at'[d] = at[d] /\ clock'[d] = clock[d]
    BY <2>1, MoveDoes
  <2>3. \A d \in Clients \ {c} :
          stage'[d] = stage[d] /\ reaper'[d] = reaper[d] /\ timer'[d] = timer[d]
    <3>1. CASE RaceWon(c, r) BY <3>1 DEF RaceWon, StartReaper
    <3>2. CASE RaceNil(c, r) BY <3>2 DEF RaceNil, StartReaper
    <3>3. CASE Reap(c, r) BY <3>3 DEF Reap
    <3> QED BY <1>5, <3>1, <3>2, <3>3
  <2> QED BY <1>5, <2>2, <2>3 DEF RaceWon, RaceNil, Reap
<1>6. CASE SessionEnds(c) BY <1>6 DEF SessionEnds
<1>7. CASE ReaperTimesOut(c) BY <1>7 DEF ReaperTimesOut
<1> QED BY <1>1, <1>2, <1>3, <1>4, <1>5, <1>6, <1>7 DEF Handler, Reaper

(* The pool hit and the start of the race keep the invariant.              *)
LEMMA AskKeeps ==
  ASSUME TypeOK, NEW c \in Clients, ClientInv(c), PoolHit(c) \/ PoolMiss(c)
  PROVE  ClientInv(c)'
<1>1. stage[c] = "ask" BY DEF PoolHit, PoolMiss
<1>2. /\ Waiting("ask", at[c], clock[c], reaper[c], timer[c])
      /\ \A r \in Chains : failed[c][r] = 0 /\ marked[c][r] = 0
      /\ left[c]["ws"] > 0
      /\ at[c]["ws"] = "idle" /\ at[c]["cf"] = "idle" /\ reaper[c] = "none"
  BY <1>1 DEF ClientInv, Fresh, Exhausted, Waiting, Chains
<1>3. CASE PoolHit(c)
  <2>1. stage'[c] = "serve" /\ UNCHANGED <<chainVars, reaperVars, stopped>>
    BY <1>3 DEF PoolHit, TypeOK
  <2> QED BY <1>2, <2>1
          DEF ClientInv, Waiting, Blame, Fresh, Exhausted, Cancelled, chainVars,
              reaperVars, Active, Chains
<1>4. CASE PoolMiss(c)
  <2>1. PICK started \in SUBSET Chains :
          /\ Begin(c, started)
          /\ \/ stage'[c] = "cf" /\ started = {"cf"}
             \/ stage'[c] = "race" /\ started = Chains
             \/ stage'[c] = "ws" /\ started = {"ws"}
    BY <1>4 DEF PoolMiss, Chains, TypeOK
  <2>2. UNCHANGED <<reaper, timer, stopped>> BY <1>4 DEF PoolMiss, reaperVars
  <2>3. /\ \A r \in started : at'[c][r] \in Begins(r, left[c][r])
        /\ \A r \in Chains \ started : at'[c][r] = at[c][r]
        /\ \A r \in Chains : at'[c][r] \in {"idle", "dial", "gave"}
        /\ UNCHANGED <<left, failed, marked>>
    BY <2>1, BeginDoes
  <2>4. \A r \in Chains : left[c][r] \in Nat BY DEF TypeOK
  <2>5. "ws" \in started => at'[c]["ws"] = "dial"
    BY <1>2, <2>3, <2>4 DEF Begins, Chains
  <2>6. \A r \in Chains : at'[c][r] = "dial" => left[c][r] > 0
    BY <1>2, <2>3, <2>4 DEF Begins, Chains
  <2>7. Waiting(stage[c], at[c], clock[c], reaper[c], timer[c])'
    BY <1>2, <2>1, <2>2, <2>3 DEF Waiting, Active, Chains, Begins
  <2>8. Exhausted(stopped, stage[c], at[c], left[c])'
    BY <1>2, <2>1, <2>2, <2>3, <2>5, <2>6 DEF Exhausted, Chains
  <2>9. \A r \in Chains : Blame(~Cancelled(c), at[c][r], failed[c][r], marked[c][r])'
    BY <1>2, <2>3 DEF Blame
  <2>10. Fresh(stage[c], failed[c], marked[c])' BY <2>1 DEF Fresh
  <2> QED BY <2>7, <2>8, <2>9, <2>10 DEF ClientInv
<1> QED BY <1>3, <1>4

(* The handler receives a result, tries plain TCP, or ends.                *)
LEMMA ReturnKeeps ==
  ASSUME TypeOK, NEW c \in Clients, NEW r \in Chains, ClientInv(c), ChainReturns(c, r)
  PROVE  ClientInv(c)'
<1>1. stage[c] = r /\ r \in {"ws", "cf"} /\ UNCHANGED <<reaper, timer, stopped, left, failed, marked>>
  BY DEF ChainReturns, Chains, reaperVars
<1>2. /\ Waiting(r, at[c], clock[c], reaper[c], timer[c])
      /\ Exhausted(stopped, r, at[c], left[c])
      /\ \A q \in Chains : Blame(~Cancelled(c), at[c][q], failed[c][q], marked[c][q])
      /\ Cancelled(c) <=> stopped
  BY <1>1 DEF ClientInv, Cancelled
<1>3. stage'[c] # "ask" /\ Fresh(stage[c], failed[c], marked[c])'
  BY <1>1 DEF ChainReturns, Fresh, TypeOK
<1>4. CASE at[c][r] = "sent"
  <2>1. stage'[c] = "serve" /\ Move(c, r, "taken", 0)
    BY <1>4 DEF ChainReturns, TypeOK
  <2>2. at'[c][r] = "taken" /\ \A q \in Chains \ {r} : at'[c][q] = at[c][q]
    BY <2>1, MoveDoes DEF Phases
  <2>3. \A q \in Chains : at'[c][q] \notin Active
    BY <1>1, <1>2, <2>2 DEF Waiting, Active, Chains
  <2>4. Waiting(stage[c], at[c], clock[c], reaper[c], timer[c])'
    BY <2>1, <2>3 DEF Waiting, Active
  <2>5. Exhausted(stopped, stage[c], at[c], left[c])'
    BY <2>1, <2>3 DEF Exhausted, Active
  <2>6. \A q \in Chains : Blame(~Cancelled(c), at[c][q], failed[c][q], marked[c][q])'
    BY <1>1, <1>2, <2>1 DEF Blame, Cancelled
  <2> QED BY <1>3, <2>4, <2>5, <2>6 DEF ClientInv
<1>5. CASE at[c][r] = "gave" /\ r = "ws"
  <2>1. stage'[c] = "direct" /\ Move(c, r, "over", 0)
    BY <1>5 DEF ChainReturns, TypeOK
  <2>2. at'[c][r] = "over" /\ \A q \in Chains \ {r} : at'[c][q] = at[c][q]
    BY <2>1, MoveDoes DEF Phases
  <2>3. at'[c]["ws"] = "over" /\ at'[c]["cf"] \in {"idle", "over"}
    BY <1>2, <1>5, <2>2 DEF Waiting, Chains
  <2>4. Waiting(stage[c], at[c], clock[c], reaper[c], timer[c])'
    BY <2>1, <2>3 DEF Waiting, Active, Chains
  <2>5. Exhausted(stopped, stage[c], at[c], left[c])'
    BY <1>1, <1>2, <1>5, <2>1, <2>3 DEF Exhausted, Chains
  <2>6. \A q \in Chains : Blame(~Cancelled(c), at[c][q], failed[c][q], marked[c][q])'
    BY <1>1, <1>2, <2>1 DEF Blame, Cancelled
  <2> QED BY <1>3, <2>4, <2>5, <2>6 DEF ClientInv
<1>6. CASE at[c][r] = "gave" /\ r = "cf"
  <2>1. /\ stage'[c] = "ws"
        /\ at'[c] = [ws |-> "dial", cf |-> "over"]
    BY <1>6 DEF ChainReturns, TypeOK
  <2>2. at'[c]["ws"] = "dial" /\ at'[c]["cf"] = "over" BY <2>1
  <2>3. at[c]["ws"] = "idle" BY <1>2, <1>6 DEF Waiting
  <2>4. Waiting(stage[c], at[c], clock[c], reaper[c], timer[c])'
    BY <1>1, <1>2, <2>1, <2>2 DEF Waiting, Chains
  <2>5. Exhausted(stopped, stage[c], at[c], left[c])'
    BY <1>1, <1>2, <1>6, <2>1, <2>2 DEF Exhausted, Chains
  <2>6. \A q \in Chains : Blame(~Cancelled(c), at[c][q], failed[c][q], marked[c][q])'
    BY <1>1, <1>2, <1>6, <2>1, <2>2, <2>3 DEF Blame, Cancelled, Chains
  <2> QED BY <1>3, <2>4, <2>5, <2>6 DEF ClientInv
<1> QED BY <1>4, <1>5, <1>6 DEF ChainReturns

(* The end of the race keeps the invariant.                                *)
LEMMA RaceKeeps ==
  ASSUME TypeOK, NEW c \in Clients, NEW r \in Chains, ClientInv(c),
         RaceWon(c, r) \/ RaceNil(c, r)
  PROVE  ClientInv(c)'
<1>1. stage[c] = "race" /\ UNCHANGED <<stopped, left, failed, marked>>
  BY DEF RaceWon, RaceNil
<1>2. /\ Waiting("race", at[c], clock[c], reaper[c], timer[c])
      /\ Exhausted(stopped, "race", at[c], left[c])
      /\ \A q \in Chains : Blame(~Cancelled(c), at[c][q], failed[c][q], marked[c][q])
      /\ Cancelled(c) <=> stopped
  BY <1>1 DEF ClientInv, Cancelled
<1>3. stage'[c] # "ask" /\ Fresh(stage[c], failed[c], marked[c])'
  BY <1>1 DEF RaceWon, RaceNil, Fresh, TypeOK
<1>4. PICK phase \in {"taken", "over"} : Move(c, r, phase, 0) BY DEF RaceWon, RaceNil
<1>5. /\ at'[c][r] = phase
      /\ \A q \in Chains \ {r} : at'[c][q] = at[c][q] /\ clock'[c][q] = clock[c][q]
  BY <1>4, MoveDoes DEF Phases
<1>6. CASE RaceWon(c, r)
  <2>1. /\ stage'[c] = "serve" /\ reaper'[c] = "waits" /\ timer'[c] = ReapTicks
    BY <1>6 DEF RaceWon, StartReaper, TypeOK
  <2>2. Waiting(stage[c], at[c], clock[c], reaper[c], timer[c])'
    <3>1. \A q \in Chains \ {r} :
            at'[c][q] = "shake" => clock'[c][q] \in Nat /\ clock'[c][q] <= ShakeTicks
      BY <1>2, <1>5 DEF Waiting, TypeOK
    <3>2. \A q \in Chains \ {r} : ReapTicks > (IF at'[c][q] = "shake" THEN clock'[c][q] ELSE 0)
      BY <3>1, Constants
    <3>3. at'[c][r] \notin Active BY <1>5 DEF Active
    <3> QED BY <1>5, <2>1, <3>1, <3>2, <3>3 DEF Waiting, Chains, Active
  <2>3. Exhausted(stopped, stage[c], at[c], left[c])'
    BY <1>1, <1>2, <1>5, <2>1 DEF Exhausted
  <2>4. \A q \in Chains : Blame(~Cancelled(c), at[c][q], failed[c][q], marked[c][q])'
    BY <1>1, <1>2, <2>1 DEF Blame, Cancelled
  <2> QED BY <1>3, <2>2, <2>3, <2>4 DEF ClientInv
<1>7. ASSUME RaceNil(c, r), \A q \in Chains \ {r} : at[c][q] = "over"
      PROVE  ClientInv(c)'
  <2>1. stage'[c] = "direct" /\ at'[c][r] = "over"
    BY <1>4, <1>5, <1>7, MoveDoes DEF RaceNil, TypeOK, Phases
  <2>2. \A q \in Chains : at'[c][q] = "over" BY <1>5, <1>7, <2>1
  <2>3. Waiting(stage[c], at[c], clock[c], reaper[c], timer[c])'
    BY <2>1, <2>2 DEF Waiting, Active
  <2>4. at[c]["ws"] \in {"gave", "over"} BY <1>7 DEF RaceNil, Chains
  <2>5. Exhausted(stopped, stage[c], at[c], left[c])'
    BY <1>1, <1>2, <2>1, <2>2, <2>4 DEF Exhausted, Chains
  <2>6. \A q \in Chains : Blame(~Cancelled(c), at[c][q], failed[c][q], marked[c][q])'
    BY <1>1, <1>2, <2>1 DEF Blame, Cancelled
  <2> QED BY <1>3, <2>3, <2>5, <2>6 DEF ClientInv
<1>8. ASSUME RaceNil(c, r), UNCHANGED <<stage, reaperVars>>
      PROVE  ClientInv(c)'
  <2>1. at[c][r] = "gave" /\ at'[c][r] = "over"
    BY <1>8, MoveDoes DEF RaceNil, Phases
  <2>2. stage'[c] = "race" /\ UNCHANGED <<reaper, timer>> BY <1>1, <1>8 DEF reaperVars
  <2>3. Waiting(stage[c], at[c], clock[c], reaper[c], timer[c])'
    BY <1>2, <1>5, <2>1, <2>2 DEF Waiting
  <2>4. Exhausted(stopped, stage[c], at[c], left[c])'
    BY <1>1, <1>2, <1>5, <2>1, <2>2 DEF Exhausted, Chains
  <2>5. \A q \in Chains : Blame(~Cancelled(c), at[c][q], failed[c][q], marked[c][q])'
    BY <1>1, <1>2, <1>5, <2>1, <2>2 DEF Blame, Cancelled
  <2> QED BY <1>3, <2>3, <2>4, <2>5 DEF ClientInv
<1> QED BY <1>6, <1>7, <1>8 DEF RaceNil

(* Plain TCP, the end of a session and the reaper keep the invariant.      *)
LEMMA LateKeeps ==
  ASSUME TypeOK, NEW c \in Clients, ClientInv(c),
         Direct(c) \/ SessionEnds(c) \/ Reaper(c)
  PROVE  ClientInv(c)'
<1> USE DEF reaperVars, chainVars
<1>1. CASE Direct(c)
  <2>1. /\ stage[c] = "direct" /\ stage'[c] \in {"serve", "ended"}
        /\ UNCHANGED <<chainVars, reaperVars, stopped>>
    BY <1>1 DEF Direct, TypeOK
  <2> QED BY <2>1 DEF ClientInv, Waiting, Blame, Fresh, Exhausted, Cancelled
<1>2. CASE SessionEnds(c)
  <2>1. /\ stage[c] = "serve" /\ stage'[c] = "ended"
        /\ UNCHANGED <<left, clock, failed, marked, reaper, timer, stopped>>
        /\ \A q \in Chains : at'[c][q] \in {at[c][q], "closed"}
    BY <1>2 DEF SessionEnds, TypeOK
  <2>2. Waiting("serve", at[c], clock[c], reaper[c], timer[c]) BY <2>1 DEF ClientInv
  <2>3. Waiting("ended", at'[c], clock'[c], reaper'[c], timer'[c])
    BY <2>1, <2>2 DEF Waiting, Active
  <2>4. Exhausted(stopped, stage[c], at[c], left[c])'
    BY <2>1 DEF ClientInv, Exhausted
  <2>5. \A q \in Chains : Blame(~Cancelled(c), at[c][q], failed[c][q], marked[c][q])'
    BY <2>1 DEF ClientInv, Blame, Cancelled
  <2> QED BY <2>1, <2>3, <2>4, <2>5 DEF ClientInv, Fresh
<1>3. CASE ReaperTimesOut(c)
  <2>1. /\ reaper[c] = "waits" /\ timer[c] = 0
        /\ reaper'[c] = "ended"
        /\ UNCHANGED <<stage, at, clock, left, failed, marked, timer, stopped>>
    BY <1>3 DEF ReaperTimesOut, TypeOK
  <2>2. Waiting(stage[c], at[c], clock[c], reaper[c], timer[c]) BY DEF ClientInv
  <2>3. stage[c] \in {"direct", "serve", "ended"} BY <2>1, <2>2 DEF Waiting, TypeOK
  <2>4. \A q \in Chains : clock[c][q] \in Nat BY DEF TypeOK
  <2>5. \A q \in Chains : at[c][q] \notin Active
    BY <2>1, <2>2, <2>3, <2>4 DEF Waiting
  <2>6. Waiting(stage[c], at[c], clock[c], reaper[c], timer[c])'
    BY <2>1, <2>2, <2>3, <2>5 DEF Waiting
  <2> QED BY <2>1, <2>6 DEF ClientInv, Cancelled
<1>4. ASSUME NEW r \in Chains, Reap(c, r) PROVE ClientInv(c)'
  <2>1. PICK phase \in {"closed", "over"} : Move(c, r, phase, 0) BY <1>4 DEF Reap
  <2>2. /\ at'[c][r] = phase
        /\ \A q \in Chains \ {r} : at'[c][q] = at[c][q] /\ clock'[c][q] = clock[c][q]
    BY <2>1, MoveDoes DEF Phases
  <2>3. /\ reaper[c] = "waits" /\ at[c][r] \in {"sent", "gave"}
        /\ UNCHANGED <<stage, timer, left, failed, marked, stopped>>
    BY <1>4 DEF Reap
  <2>4. Waiting(stage[c], at[c], clock[c], reaper[c], timer[c]) BY DEF ClientInv
  <2>5. stage[c] \in {"serve", "ended"}
    BY <2>3, <2>4 DEF Waiting, TypeOK
  <2>6. \A q \in Chains : at'[c][q] \notin Active
    BY <2>2, <2>3, <2>4, <2>5 DEF Waiting, Active
  <2>7. Waiting(stage[c], at[c], clock[c], reaper[c], timer[c])'
    BY <2>3, <2>5, <2>6 DEF Waiting, Active
  <2>8. Exhausted(stopped, stage[c], at[c], left[c])'
    BY <2>3, <2>5, <2>6 DEF Exhausted, Active
  <2>9. \A q \in Chains : Blame(~Cancelled(c), at[c][q], failed[c][q], marked[c][q])'
    BY <2>3, <2>5 DEF ClientInv, Blame, Cancelled
  <2> QED BY <2>3, <2>5, <2>7, <2>8, <2>9 DEF ClientInv, Fresh
<1> QED BY <1>1, <1>2, <1>3, <1>4 DEF Reaper

(* While a chain can still deliver, time passes only with its handshake,   *)
(* and the reaper's timer stays ahead of it.                               *)
LEMMA TickKeeps ==
  ASSUME TypeOK, NEW c \in Clients, ClientInv(c), Tick
  PROVE  ClientInv(c)'
<1>1. UNCHANGED <<stage, at, left, failed, marked, reaper, stopped>> BY DEF Tick
<1>2. /\ \A r \in Chains : clock'[c][r] = Down(clock[c][r])
      /\ timer'[c] = IF reaper[c] = "waits" THEN Down(timer[c]) ELSE timer[c]
      /\ reaper[c] = "waits" => timer[c] # 0
      /\ \A r \in Chains : ~Urgent(c, r)
  BY DEF Tick
<1>3. Waiting(stage[c], at[c], clock[c], reaper[c], timer[c]) BY DEF ClientInv
<1>4. timer[c] \in Nat /\ \A r \in Chains : clock[c][r] \in Nat BY DEF TypeOK
<1>5. ASSUME stage[c] \in {"direct", "serve", "ended"}, NEW r \in Chains, at[c][r] \in Active
      PROVE  /\ at[c][r] = "shake" /\ clock[c][r] > 0
             /\ reaper[c] = "waits" /\ timer[c] > clock[c][r]
  <2>1. reaper[c] = "waits" BY <1>3, <1>5 DEF Waiting
  <2>2. Cancelled(c) BY <1>5 DEF Cancelled
  <2>3. at[c][r] = "shake" /\ clock[c][r] # 0
    BY <1>2, <1>5, <2>1, <2>2 DEF Urgent, Receivable, Active
  <2> QED BY <1>3, <1>4, <1>5, <2>1, <2>3 DEF Waiting
<1>6. ASSUME stage[c] \in {"direct", "serve", "ended"}, NEW r \in Chains, at[c][r] \in Active
      PROVE  timer'[c] > (IF at[c][r] = "shake" THEN clock'[c][r] ELSE 0)
  BY <1>2, <1>4, <1>5, <1>6 DEF Down
<1>7. \A r \in Chains : clock'[c][r] <= clock[c][r] /\ clock'[c][r] \in Nat
  BY <1>2, <1>4 DEF Down
<1>8. \A r \in Chains : at[c][r] = "shake" => clock'[c][r] <= ShakeTicks
  BY <1>3, <1>4, <1>7, Constants DEF Waiting
<1>9. Waiting(stage[c], at[c], clock[c], reaper[c], timer[c])'
  BY <1>1, <1>3, <1>6, <1>8 DEF Waiting
<1> QED BY <1>1, <1>9 DEF ClientInv, Cancelled

-----------------------------------------------------------------------------
(* It holds before a client asks.                                          *)
LEMMA RouteInit == Init => RouteInv
<1> SUFFICES ASSUME Init PROVE RouteInv OBVIOUS
<1>1. TypeOK
  <2>1. "idle" \in Phases BY DEF Phases
  <2>2. HealthTyped BY Constants DEF Init, HealthTyped
  <2>3. 0 \in 0..(MaxHops - 1) /\ 0 \in 0..ReapTicks BY Constants
  <2>4. /\ left \in [Clients -> [Chains -> Nat]]
        /\ hops \in [Clients -> [Chains -> 0..(MaxHops - 1)]]
        /\ timer \in [Clients -> 0..ReapTicks]
    BY <2>3, Constants DEF Init
  <2> QED BY <2>1, <2>2, <2>4 DEF Init, TypeOK, HealthTyped
<1>2. ASSUME NEW c \in Clients PROVE ClientInv(c)
  <2>1. /\ stage[c] = "ask" /\ reaper[c] = "none" /\ stopped = FALSE
        /\ \A r \in Chains : /\ at[c][r] = "idle" /\ left[c][r] = Attempts(r)
                             /\ failed[c][r] = 0 /\ marked[c][r] = 0
    BY DEF Init
  <2>2. "ws" \in Chains /\ "cf" \in Chains BY DEF Chains
  <2>3. left[c]["ws"] > 0 BY <2>1, <2>2, Constants
  <2>4. Waiting(stage[c], at[c], clock[c], reaper[c], timer[c])
    BY <2>1 DEF Waiting
  <2>5. Exhausted(stopped, stage[c], at[c], left[c]) BY <2>1, <2>3 DEF Exhausted
  <2> QED BY <2>1, <2>4, <2>5 DEF ClientInv, Blame, Fresh
<1> QED BY <1>1, <1>2 DEF RouteInv

(* Every step keeps the invariant.                                         *)
LEMMA RouteStep == RouteInv /\ [Next]_vars => RouteInv'
<1> SUFFICES ASSUME RouteInv, [Next]_vars PROVE RouteInv' OBVIOUS
<1>0. TypeOK /\ \A c \in Clients : ClientInv(c) BY DEF RouteInv
<1>1. ASSUME NEW c \in Clients, NEW r \in Chains, Chain(c, r) PROVE RouteInv'
  <2>1. at[c][r] = "failed" => left[c][r] > 0 BY <1>0 DEF ClientInv, Exhausted
  <2> QED BY <1>0, <1>1, <2>1, ChainTyped, ChainKeeps DEF RouteInv
<1>2. ASSUME NEW c \in Clients, Handler(c) \/ SessionEnds(c) \/ Reaper(c) PROVE RouteInv'
  <2>1. TypeOK' BY <1>0, <1>2, HandlerTyped
  <2>2. \A d \in Clients \ {c} : ClientInv(d)'
    BY <1>0, <1>2, HandlerElsewhere, SameKeeps
  <2>3. ClientInv(c)'
    BY <1>0, <1>2, AskKeeps, ReturnKeeps, RaceKeeps, LateKeeps DEF Handler
  <2> QED BY <2>1, <2>2, <2>3 DEF RouteInv
<1>3. CASE Stop
  <2>1. TypeOK' BY <1>0, <1>3 DEF Stop, TypeOK, chainVars, reaperVars, health
  <2>2. ASSUME NEW c \in Clients PROVE ClientInv(c)'
    BY <1>0, <1>3 DEF Stop, ClientInv, Waiting, Blame, Fresh, Exhausted, Cancelled,
                      chainVars, reaperVars
  <2> QED BY <2>1, <2>2 DEF RouteInv
<1>4. CASE Tick BY <1>0, <1>4, TickTyped, TickKeeps DEF RouteInv
<1>5. CASE UNCHANGED vars
  <2>1. TypeOK' BY <1>0, <1>5 DEF vars, TypeOK, chainVars, reaperVars, health
  <2>2. ASSUME NEW c \in Clients PROVE ClientInv(c)'
    BY <1>0, <1>5, SameKeeps DEF vars, Same, chainVars, reaperVars
  <2> QED BY <2>1, <2>2 DEF RouteInv
<1> QED BY <1>1, <1>2, <1>3, <1>4, <1>5 DEF Next

(* So it holds throughout.                                                 *)
LEMMA RouteAlways == Spec => []RouteInv
BY RouteInit, RouteStep, PTL DEF Spec

-----------------------------------------------------------------------------
(* Every variable keeps its type.                                          *)
THEOREM TypeCorrect == Spec => []TypeOK
BY RouteAlways, PTL DEF RouteInv

(* Whatever the number of attempts and the deadlines, as long as the       *)
(* reaper waits longer than a handshake may take, no connected transport   *)
(* is left without somebody to receive it.                                 *)
THEOREM EveryTransportReceived == Spec => []NoOrphan
<1>1. RouteInv => NoOrphan
  <2> SUFFICES ASSUME RouteInv, NEW c \in Clients, NEW r \in Chains,
                      at[c][r] \in {"dial", "shake", "failed", "sent"}
               PROVE  Receivable(c, r)
    BY DEF NoOrphan
  <2>1. Waiting(stage[c], at[c], clock[c], reaper[c], timer[c]) /\ TypeOK
    BY DEF RouteInv, ClientInv
  <2> QED BY <2>1 DEF Waiting, Receivable, TypeOK, Active, Chains
<1> QED BY <1>1, RouteAlways, PTL

(* No route is blamed for the end of a race, and every failure while       *)
(* nobody cancels is counted.                                              *)
THEOREM FairBlame == Spec => []BlameIsFair
<1>1. RouteInv => BlameIsFair BY DEF RouteInv, ClientInv, Blame, BlameIsFair
<1> QED BY <1>1, RouteAlways, PTL

(* Plain TCP is used only when both chains have come to nothing.           *)
THEOREM DirectIsLast == Spec => []LastResort
<1>1. RouteInv => LastResort
  BY DEF RouteInv, ClientInv, Waiting, Exhausted, LastResort, Chains
<1> QED BY <1>1, RouteAlways, PTL
=============================================================================
