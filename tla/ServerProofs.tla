---------------------------- MODULE ServerProofs ----------------------------
(***************************************************************************)
(* Proofs about module Server, for any callers, clients and runs.  The     *)
(* argument: an open port has one owner, the current run or the Stop that  *)
(* is about to close it, and a context that is not cancelled belongs to    *)
(* the owner of the port.  With it each run is at one point of its life,   *)
(* and every step moves one run, one client or nobody as Service allows.   *)
(***************************************************************************)
EXTENDS Server, TLAPS

(* k is inside Stop and has not closed the port yet.                       *)
Stopping(k) == pc[k] \in {"cancel", "close"}

(* s.mu excludes: one caller inside Start, and none while the server runs. *)
Exclusive ==
  /\ \A j, k \in Callers : pc[j] \in Locked /\ pc[k] \in Locked => j = k
  /\ \A j, k \in Callers : Stopping(j) /\ Stopping(k) => j = k
  /\ running => \A k \in Callers : pc[k] \notin Locked /\ ~Stopping(k)

(* What a caller inside Start has created so far.                          *)
Creates(k) ==
  /\ pc[k] \in Locked => cur # 0 /\ cur \notin cancelled
  /\ pc[k] \in {"listen", "serve"} => loop[cur] = "none"
  /\ pc[k] \in {"serve", "fetch"} => open = {cur} /\ lis = cur
  /\ pc[k] = "fetch" => loop[cur] \in {"check", "accept"}

(* What a caller inside Stop has not ended so far.                         *)
Destroys(k) ==
  Stopping(k) =>
    /\ took[k].ctx = took[k].listener
    /\ took[k].ctx \in 1..cur
    /\ open = {took[k].listener}
    /\ \A j \in Callers : pc[j] \in Locked => took[k].ctx # cur

Serves == running => cur # 0 /\ cur \notin cancelled /\ open = {cur} /\ lis = cur
                     /\ loop[cur] \in {"check", "accept"}

(* Runs that are still to come.                                            *)
Future == \A r \in Runs : r > cur => r \notin cancelled /\ r \notin open /\ loop[r] = "none"

ContextOwned ==
  \A r \in 1..cur :
    \/ r \in cancelled
    \/ r = cur /\ (running \/ \E k \in Callers : pc[k] \in Locked)
    \/ \E k \in Callers : pc[k] = "cancel" /\ took[k].ctx = r

PortOwned ==
  open # {} => \/ running
               \/ \E k \in Callers : pc[k] \in {"serve", "fetch"} \/ Stopping(k)

LifeInv ==
  /\ Exclusive
  /\ \A k \in Callers : Creates(k)
  /\ \A k \in Callers : Destroys(k)
  /\ Serves
  /\ Future
  /\ ContextOwned
  /\ PortOwned

(* A connection belongs to a run there has been.                           *)
Arrived == \A c \in Conns : conn[c] # "away" => of[c] \in 1..cur

ServerInv == TypeOK /\ LifeInv /\ Arrived /\ RefusedIsStopped /\ NoStaleEntry

life == <<running, cur, lis, pc, took, cancelled, open, loop>>

-----------------------------------------------------------------------------
(* It holds before the first Start.                                        *)
LEMMA ServerInit == Init => ServerInv
<1> SUFFICES ASSUME Init PROVE ServerInv OBVIOUS
<1> USE ServerAssumption DEF Init
<1>1. TypeOK
  <2>1. 0 \in 0..MaxRuns /\ 0 \in 0..WarmDials OBVIOUS
  <2>2. took \in [Callers -> [ctx : 0..MaxRuns, listener : 0..MaxRuns]] BY <2>1 DEF NoRun
  <2>3. pc \in [Callers -> {"idle", "start", "stop", "cancel", "close", "drain"} \cup Locked]
    OBVIOUS
  <2> QED BY <2>1, <2>2, <2>3 DEF TypeOK
<1>2. LifeInv
  BY DEF LifeInv, Exclusive, Creates, Destroys, Serves, Future, ContextOwned,
         PortOwned, Locked, Stopping
<1>3. Arrived /\ RefusedIsStopped /\ NoStaleEntry
  BY DEF Arrived, RefusedIsStopped, NoStaleEntry
<1> QED BY <1>1, <1>2, <1>3 DEF ServerInv

-----------------------------------------------------------------------------
(* The steps of Start, of Stop and of the accept loops, one by one.        *)
LEMMA WaitsLife ==
  ASSUME TypeOK, TypeOK', LifeInv, NEW k \in Callers,
         Calls(k) \/ StartRefused(k) \/ StartWithoutLog(k) \/ StopNothing(k)
  PROVE  LifeInv'
<1>0. /\ UNCHANGED <<running, cur, lis, took, cancelled, open, loop>>
      /\ \A j \in Callers, p \in {"listen", "serve", "fetch", "cancel", "close"} :
           pc'[j] = p <=> pc[j] = p
  BY DEF TypeOK, Calls, StartRefused, StartWithoutLog, StopNothing, Goes, fields
<1> USE <1>0 DEF LifeInv, Exclusive, Creates, Destroys, Locked, Stopping
<1>1. Exclusive' OBVIOUS
<1>2. (\A j \in Callers : Creates(j))' OBVIOUS
<1>3. (\A j \in Callers : Destroys(j))' OBVIOUS
<1>4. Serves' BY DEF Serves
<1>5. Future' BY DEF Future
<1>6. ContextOwned' BY DEF ContextOwned
<1>7. PortOwned' BY DEF PortOwned
<1> QED BY <1>1, <1>2, <1>3, <1>4, <1>5, <1>6, <1>7

(* StartBegins keeps the invariant (server.go:97-122).                     *)
LEMMA StartBeginsLife ==
  ASSUME TypeOK, TypeOK', LifeInv, NEW k \in Callers, StartBegins(k)
  PROVE  LifeInv'
<1> USE DEF TypeOK, LifeInv, Exclusive, Creates, Destroys, Locked, Stopping, Runs,
            StartBegins, Goes, MuFree, fields
<1>1. Exclusive' OBVIOUS
<1>2. (\A j \in Callers : Creates(j))' BY DEF Future
<1>3. (\A j \in Callers : Destroys(j))' OBVIOUS
<1>4. Serves' BY DEF Serves
<1>5. Future' BY DEF Future
<1>6. ContextOwned' BY DEF ContextOwned
<1>7. PortOwned' BY DEF PortOwned
<1> QED BY <1>1, <1>2, <1>3, <1>4, <1>5, <1>6, <1>7

(* StartListens keeps the invariant (server.go:122-128).                   *)
LEMMA StartListensLife ==
  ASSUME TypeOK, TypeOK', LifeInv, NEW k \in Callers, StartListens(k)
  PROVE  LifeInv'
<1> USE DEF TypeOK, LifeInv, Exclusive, Creates, Destroys, Locked, Stopping, Runs,
            StartListens, Goes, MuFree, fields
<1>1. Exclusive' OBVIOUS
<1>2. (\A j \in Callers : Creates(j))' OBVIOUS
<1>3. (\A j \in Callers : Destroys(j))' OBVIOUS
<1>4. Serves' BY DEF Serves
<1>5. Future' BY DEF Future
<1>6. ContextOwned' BY DEF ContextOwned
<1>7. PortOwned' BY DEF PortOwned
<1> QED BY <1>1, <1>2, <1>3, <1>4, <1>5, <1>6, <1>7

(* StartFails keeps the invariant (server.go:123-127).                     *)
LEMMA StartFailsLife ==
  ASSUME TypeOK, TypeOK', LifeInv, NEW k \in Callers, StartFails(k)
  PROVE  LifeInv'
<1> USE DEF TypeOK, LifeInv, Exclusive, Creates, Destroys, Locked, Stopping, Runs,
            StartFails, Goes, MuFree, fields
<1>1. Exclusive' OBVIOUS
<1>2. (\A j \in Callers : Creates(j))' OBVIOUS
<1>3. (\A j \in Callers : Destroys(j))' OBVIOUS
<1>4. Serves' BY DEF Serves
<1>5. Future' BY DEF Future
<1>6. ContextOwned' BY DEF ContextOwned
<1>7. PortOwned' BY DEF PortOwned
<1> QED BY <1>1, <1>2, <1>3, <1>4, <1>5, <1>6, <1>7

(* StartServes keeps the invariant (server.go:128-170).                    *)
LEMMA StartServesLife ==
  ASSUME TypeOK, TypeOK', LifeInv, NEW k \in Callers, StartServes(k)
  PROVE  LifeInv'
<1> USE DEF TypeOK, LifeInv, Exclusive, Creates, Destroys, Locked, Stopping, Runs,
            StartServes, Goes, MuFree, fields
<1>1. Exclusive' OBVIOUS
<1>2. (\A j \in Callers : Creates(j))' OBVIOUS
<1>3. (\A j \in Callers : Destroys(j))' OBVIOUS
<1>4. Serves' BY DEF Serves
<1>5. Future' BY DEF Future
<1>6. ContextOwned' BY DEF ContextOwned
<1>7. PortOwned' BY DEF PortOwned
<1> QED BY <1>1, <1>2, <1>3, <1>4, <1>5, <1>6, <1>7

(* StartReturns keeps the invariant (server.go:168-181).                   *)
LEMMA StartReturnsLife ==
  ASSUME TypeOK, TypeOK', LifeInv, NEW k \in Callers, StartReturns(k)
  PROVE  LifeInv'
<1> USE DEF TypeOK, LifeInv, Exclusive, Creates, Destroys, Locked, Stopping, Runs,
            StartReturns, Goes, MuFree, fields
<1>1. Exclusive'
  <2>1. open = {cur} /\ pc[k] \in Locked OBVIOUS
  <2>2. ASSUME NEW j \in Callers PROVE ~Stopping(j)
    <3>1. SUFFICES ASSUME Stopping(j) PROVE FALSE OBVIOUS
    <3>2. open = {took[j].ctx} /\ took[j].ctx # cur BY <2>1, <3>1
    <3> QED BY <2>1, <3>2
  <2> QED BY <2>1, <2>2
<1>2. (\A j \in Callers : Creates(j))' OBVIOUS
<1>3. (\A j \in Callers : Destroys(j))' OBVIOUS
<1>4. Serves' BY DEF Serves
<1>5. Future' BY DEF Future
<1>6. ContextOwned' BY DEF ContextOwned
<1>7. PortOwned' BY DEF PortOwned
<1> QED BY <1>1, <1>2, <1>3, <1>4, <1>5, <1>6, <1>7

(* StopTakes keeps the invariant (server.go:216-227).                      *)
LEMMA StopTakesLife ==
  ASSUME TypeOK, TypeOK', LifeInv, NEW k \in Callers, StopTakes(k)
  PROVE  LifeInv'
<1> USE DEF TypeOK, LifeInv, Exclusive, Creates, Destroys, Locked, Stopping, Runs,
            StopTakes, Goes, MuFree, fields
<1>1. Exclusive' OBVIOUS
<1>2. (\A j \in Callers : Creates(j))' OBVIOUS
<1>3. (\A j \in Callers : Destroys(j))' BY DEF Serves
<1>4. Serves' BY DEF Serves
<1>5. Future' BY DEF Future
<1>6. ContextOwned' BY DEF ContextOwned
<1>7. PortOwned' BY DEF PortOwned
<1> QED BY <1>1, <1>2, <1>3, <1>4, <1>5, <1>6, <1>7

(* StopCancels keeps the invariant (server.go:229-230).                    *)
LEMMA StopCancelsLife ==
  ASSUME TypeOK, TypeOK', LifeInv, NEW k \in Callers, StopCancels(k)
  PROVE  LifeInv'
<1> USE DEF TypeOK, LifeInv, Exclusive, Creates, Destroys, Locked, Stopping, Runs,
            StopCancels, Goes, MuFree, fields
<1>1. Exclusive' OBVIOUS
<1>2. (\A j \in Callers : Creates(j))' OBVIOUS
<1>3. (\A j \in Callers : Destroys(j))' OBVIOUS
<1>4. Serves' BY DEF Serves
<1>5. Future' BY DEF Future
<1>6. ContextOwned' BY DEF ContextOwned
<1>7. PortOwned' BY DEF PortOwned
<1> QED BY <1>1, <1>2, <1>3, <1>4, <1>5, <1>6, <1>7

(* StopCloses keeps the invariant (server.go:231-236).                     *)
LEMMA StopClosesLife ==
  ASSUME TypeOK, TypeOK', LifeInv, NEW k \in Callers, StopCloses(k)
  PROVE  LifeInv'
<1> USE DEF TypeOK, LifeInv, Exclusive, Creates, Destroys, Locked, Stopping, Runs,
            StopCloses, Goes, MuFree, fields
<1>1. Exclusive' OBVIOUS
<1>2. (\A j \in Callers : Creates(j))' OBVIOUS
<1>3. (\A j \in Callers : Destroys(j))' OBVIOUS
<1>4. Serves' BY DEF Serves
<1>5. Future' BY DEF Future
<1>6. ContextOwned' BY DEF ContextOwned
<1>7. PortOwned' BY DEF PortOwned
<1> QED BY <1>1, <1>2, <1>3, <1>4, <1>5, <1>6, <1>7

(* StopReturns keeps the invariant (server.go:237-241).                    *)
LEMMA StopReturnsLife ==
  ASSUME TypeOK, TypeOK', LifeInv, NEW k \in Callers, StopReturns(k)
  PROVE  LifeInv'
<1> USE DEF TypeOK, LifeInv, Exclusive, Creates, Destroys, Locked, Stopping, Runs,
            StopReturns, Goes, MuFree, fields
<1>1. Exclusive' OBVIOUS
<1>2. (\A j \in Callers : Creates(j))' OBVIOUS
<1>3. (\A j \in Callers : Destroys(j))' OBVIOUS
<1>4. Serves' BY DEF Serves
<1>5. Future' BY DEF Future
<1>6. ContextOwned' BY DEF ContextOwned
<1>7. PortOwned' BY DEF PortOwned
<1> QED BY <1>1, <1>2, <1>3, <1>4, <1>5, <1>6, <1>7

(* LoopChecks keeps the invariant (server.go:250-256).                     *)
LEMMA LoopChecksLife ==
  ASSUME TypeOK, TypeOK', LifeInv, NEW r \in Runs, LoopChecks(r)
  PROVE  LifeInv'
<1> USE DEF TypeOK, LifeInv, Exclusive, Creates, Destroys, Locked, Stopping, Runs,
            LoopChecks, fields, callers
<1>1. Exclusive' OBVIOUS
<1>2. (\A j \in Callers : Creates(j))' OBVIOUS
<1>3. (\A j \in Callers : Destroys(j))' OBVIOUS
<1>4. Serves' BY DEF Serves
<1>5. Future' BY DEF Future
<1>6. ContextOwned' BY DEF ContextOwned
<1>7. PortOwned' BY DEF PortOwned
<1> QED BY <1>1, <1>2, <1>3, <1>4, <1>5, <1>6, <1>7

(* LoopAccepts keeps the invariant (server.go:258-267).                    *)
LEMMA LoopAcceptsLife ==
  ASSUME TypeOK, TypeOK', LifeInv, NEW r \in Runs, LoopAccepts(r)
  PROVE  LifeInv'
<1> USE DEF TypeOK, LifeInv, Exclusive, Creates, Destroys, Locked, Stopping, Runs,
            LoopAccepts, fields, callers
<1>1. Exclusive' OBVIOUS
<1>2. (\A j \in Callers : Creates(j))' OBVIOUS
<1>3. (\A j \in Callers : Destroys(j))' OBVIOUS
<1>4. Serves' BY DEF Serves
<1>5. Future' BY DEF Future
<1>6. ContextOwned' BY DEF ContextOwned
<1>7. PortOwned' BY DEF PortOwned
<1> QED BY <1>1, <1>2, <1>3, <1>4, <1>5, <1>6, <1>7

(* LoopFails keeps the invariant (server.go:258-265).                      *)
LEMMA LoopFailsLife ==
  ASSUME TypeOK, TypeOK', LifeInv, NEW r \in Runs, LoopFails(r)
  PROVE  LifeInv'
<1> USE DEF TypeOK, LifeInv, Exclusive, Creates, Destroys, Locked, Stopping, Runs,
            LoopFails, fields, callers
<1>1. Exclusive' OBVIOUS
<1>2. (\A j \in Callers : Creates(j))' OBVIOUS
<1>3. (\A j \in Callers : Destroys(j))' OBVIOUS
<1>4. Serves' BY DEF Serves
<1>5. Future' BY DEF Future
<1>6. ContextOwned' BY DEF ContextOwned
<1>7. PortOwned' BY DEF PortOwned
<1> QED BY <1>1, <1>2, <1>3, <1>4, <1>5, <1>6, <1>7

(* The other steps leave the life of the runs alone.                       *)
LEMMA LifeStep == TypeOK /\ TypeOK' /\ LifeInv /\ [Next]_vars => LifeInv'
<1> SUFFICES ASSUME TypeOK, TypeOK', LifeInv, [Next]_vars PROVE LifeInv' OBVIOUS
<1>1. CASE UNCHANGED life
  BY <1>1 DEF life, LifeInv, Exclusive, Creates, Destroys, Serves, Future,
              ContextOwned, PortOwned, Stopping
<1>2. ASSUME NEW k \in Callers, CallerSteps(k) PROVE LifeInv'
  BY <1>2, WaitsLife, StartBeginsLife, StartListensLife, StartFailsLife, StartServesLife,
     StartReturnsLife, StopTakesLife, StopCancelsLife, StopClosesLife, StopReturnsLife
     DEF CallerSteps
<1>3. ASSUME NEW r \in Runs, RunSteps(r) PROVE LifeInv'
  <2>1. CASE WarmOK(r) \/ WarmFails(r)
    BY <1>1, <2>1 DEF WarmOK, WarmFails, life, fields, callers
  <2> QED BY <1>3, <2>1, LoopChecksLife, LoopAcceptsLife, LoopFailsLife DEF RunSteps
<1>4. ASSUME NEW c \in Conns, Connects(c) \/ Refuses(c) \/ Registers(c) \/ Leaves(c)
      PROVE  LifeInv'
  BY <1>1, <1>4 DEF Connects, Refuses, Registers, Leaves, life, fields, callers
<1>5. CASE UNCHANGED vars BY <1>1, <1>5 DEF vars, life, fields, callers
<1> QED BY <1>2, <1>3, <1>4, <1>5 DEF Next

(* Every step keeps the types.                                             *)
LEMMA TypeStep == TypeOK /\ LifeInv /\ [Next]_vars => TypeOK'
<1> SUFFICES ASSUME TypeOK, LifeInv, [Next]_vars PROVE TypeOK' OBVIOUS
<1> USE ServerAssumption DEF TypeOK, Runs, Locked, fields, callers, clients
<1>1. ASSUME NEW k \in Callers, CallerSteps(k), alive' = alive PROVE TypeOK'
  <2> USE <1>1 DEF Goes
  <2>1. CASE Calls(k) \/ StartRefused(k) \/ StartWithoutLog(k) \/ StopNothing(k)
    BY <2>1 DEF Calls, StartRefused, StartWithoutLog, StopNothing
  <2>2. CASE StartBegins(k) BY <2>2 DEF StartBegins
  <2>3. CASE StartListens(k) BY <2>3 DEF StartListens, LifeInv, Creates
  <2>4. CASE StartFails(k) BY <2>4 DEF StartFails, LifeInv, Creates
  <2>5. CASE StartServes(k) BY <2>5 DEF StartServes
  <2>6. CASE StartReturns(k)
    <3>1. warming' \in [Runs -> 0..WarmDials]
      <4>1. WarmDials \in 0..WarmDials OBVIOUS
      <4> QED BY <2>6, <4>1 DEF StartReturns
    <3> QED BY <2>6, <3>1 DEF StartReturns
  <2>7. CASE StopTakes(k) BY <2>7 DEF StopTakes
  <2>8. CASE StopCancels(k) BY <2>8 DEF StopCancels, LifeInv, Destroys, Stopping
  <2>9. CASE StopCloses(k) BY <2>9 DEF StopCloses
  <2>10. CASE StopReturns(k) BY <2>10 DEF StopReturns, NoRun
  <2> QED
    BY <2>1, <2>2, <2>3, <2>4, <2>5, <2>6, <2>7, <2>8, <2>9, <2>10 DEF CallerSteps
<1>2. ASSUME NEW r \in Runs, RunSteps(r), alive' = alive PROVE TypeOK'
  <2>1. CASE LoopChecks(r) BY <1>2, <2>1 DEF LoopChecks
  <2>2. CASE LoopAccepts(r) BY <1>2, <2>2 DEF LoopAccepts
  <2>3. CASE LoopFails(r) BY <1>2, <2>3 DEF LoopFails
  <2>4. CASE WarmOK(r) BY <1>2, <2>4 DEF WarmOK
  <2>5. CASE WarmFails(r) BY <1>2, <2>5 DEF WarmFails
  <2> QED BY <1>2, <2>1, <2>2, <2>3, <2>4, <2>5 DEF RunSteps
<1>3. ASSUME NEW c \in Conns, Connects(c) \/ Refuses(c), alive' = alive PROVE TypeOK'
  <2>1. CASE Connects(c)
    <3>1. of' \in [Conns -> 0..MaxRuns] BY <2>1 DEF Connects
    <3> QED BY <1>3, <2>1, <3>1 DEF Connects
  <2>2. CASE Refuses(c) BY <1>3, <2>2 DEF Refuses
  <2> QED BY <1>3, <2>1, <2>2
<1>4. ASSUME NEW c \in Conns, Registers(c) \/ Leaves(c) PROVE TypeOK'
  <2>1. alive' \in BOOLEAN BY <1>4 DEF Registers, Leaves, MapWrite
  <2>2. CASE Registers(c) BY <2>1, <2>2 DEF Registers, Without
  <2>3. CASE Leaves(c) BY <2>1, <2>3 DEF Leaves, Without
  <2> QED BY <1>4, <2>2, <2>3
<1>5. CASE UNCHANGED vars BY <1>5 DEF vars
<1> QED BY <1>1, <1>2, <1>3, <1>4, <1>5 DEF Next

-----------------------------------------------------------------------------
(* What the clients see.                                                   *)
LEMMA ArrivedStep == TypeOK /\ LifeInv /\ Arrived /\ [Next]_vars => Arrived'
<1> SUFFICES ASSUME TypeOK, LifeInv, Arrived, [Next]_vars PROVE Arrived' OBVIOUS
<1> USE ServerAssumption DEF TypeOK, Arrived, Runs
<1>1. ASSUME NEW k \in Callers, CallerSteps(k) PROVE Arrived'
  <2>1. cur' \in Nat /\ cur <= cur' /\ of' = of
        /\ \A c \in Conns : conn'[c] # "away" => conn[c] # "away"
    BY <1>1 DEF CallerSteps, Calls, StartRefused, StartWithoutLog, StartBegins, StartListens, StartFails,
        StartServes, StartReturns, StopNothing, StopTakes, StopCancels, StopCloses,
        StopReturns, fields, clients
  <2> QED BY <2>1
<1>2. ASSUME NEW r \in Runs, RunSteps(r) PROVE Arrived'
  BY <1>2 DEF RunSteps, LoopChecks, LoopAccepts, LoopFails, WarmOK, WarmFails, fields, clients
<1>3. ASSUME NEW c \in Conns, Refuses(c) \/ Registers(c) \/ Leaves(c) PROVE Arrived'
  BY <1>3 DEF Refuses, Registers, Leaves, fields
<1>4. ASSUME NEW c \in Conns, Connects(c) PROVE Arrived'
  <2>1. PICK r \in open : of' = [of EXCEPT ![c] = r] BY <1>4 DEF Connects
  <2>2. r \in 1..cur BY <2>1 DEF LifeInv, Future
  <2> QED BY <1>4, <2>1, <2>2 DEF Connects, fields
<1>5. CASE UNCHANGED vars BY <1>5 DEF vars, fields, clients
<1> QED BY <1>1, <1>2, <1>3, <1>4, <1>5 DEF Next

(* A run that is being stopped stays so until its context is cancelled.    *)
StopAsked(r) == r \in cancelled \/ \E k \in Callers : pc[k] = "cancel" /\ took[k].ctx = r

(* That a Stop was asked is never forgotten.                               *)
LEMMA StopAskedStays ==
  ASSUME TypeOK, [Next]_vars, NEW r \in Nat, StopAsked(r)
  PROVE  StopAsked(r)'
<1> USE DEF StopAsked
<1>1. ASSUME NEW k \in Callers, CallerSteps(k) PROVE StopAsked(r)'
  <2>1. CASE StopCancels(k) BY <2>1 DEF StopCancels, Goes, TypeOK
  <2>2. CASE StopTakes(k) BY <2>2 DEF StopTakes, Goes, TypeOK
  <2>3. CASE ~StopCancels(k) /\ ~StopTakes(k)
    <3>1. /\ cancelled \subseteq cancelled'
          /\ \A j \in Callers : pc[j] = "cancel" => pc'[j] = "cancel" /\ took'[j] = took[j]
      BY <1>1, <2>3 DEF CallerSteps, Calls, StartRefused, StartWithoutLog, StartBegins, StartListens,
          StartFails, StartServes, StartReturns, StopNothing, StopCloses, StopReturns,
          Goes, TypeOK
    <3> QED BY <3>1
  <2> QED BY <2>1, <2>2, <2>3
<1>2. CASE UNCHANGED <<cancelled, callers>> BY <1>2 DEF callers
<1>3. CASE \E q \in Runs : RunSteps(q)
  BY <1>2, <1>3 DEF RunSteps, LoopChecks, LoopAccepts, LoopFails, WarmOK, WarmFails
<1>4. CASE \E c \in Conns : Connects(c) \/ Refuses(c) \/ Registers(c) \/ Leaves(c)
  BY <1>2, <1>4 DEF Connects, Refuses, Registers, Leaves
<1>5. CASE UNCHANGED vars BY <1>2, <1>5 DEF vars
<1> QED BY <1>1, <1>3, <1>4, <1>5 DEF Next

(* No step refuses a client without a Stop.                                *)
LEMMA RefusedStep ==
  TypeOK /\ LifeInv /\ Arrived /\ RefusedIsStopped /\ [Next]_vars => RefusedIsStopped'
<1> SUFFICES ASSUME TypeOK, LifeInv, Arrived, RefusedIsStopped, [Next]_vars,
                    NEW c \in Conns, conn'[c] = "refused"
             PROVE  StopAsked(of[c])' /\ of'[c] = of[c]
  BY DEF RefusedIsStopped, StopAsked
<1>1. of[c] \in Nat BY ServerAssumption DEF TypeOK
<1>2. CASE conn[c] = "refused"
  <2>1. of'[c] = of[c]
    BY <1>2 DEF Next, vars, clients, CallerSteps, Calls, StartRefused, StartWithoutLog, StartBegins,
       StartListens, StartFails, StartServes, StartReturns, StopNothing, StopTakes,
       StopCancels, StopCloses, StopReturns, RunSteps, LoopChecks, LoopAccepts, LoopFails,
       WarmOK, WarmFails, Connects, Refuses, Registers, Leaves, TypeOK
  <2> QED BY <1>1, <1>2, <2>1, StopAskedStays DEF RefusedIsStopped, StopAsked
<1>3. CASE conn[c] # "refused"
  <2>1. Refuses(c)
    BY <1>3 DEF Next, vars, clients, CallerSteps, Calls, StartRefused, StartWithoutLog, StartBegins,
       StartListens, StartFails, StartServes, StartReturns, StopNothing, StopTakes,
       StopCancels, StopCloses, StopReturns, RunSteps, LoopChecks, LoopAccepts, LoopFails,
       WarmOK, WarmFails, Connects, Refuses, Registers, Leaves, TypeOK
  <2>2. of[c] \in 1..cur /\ MuFree /\ ~running /\ of' = of
    BY <2>1 DEF Refuses, Arrived
  <2>3. StopAsked(of[c]) BY <2>2 DEF LifeInv, ContextOwned, MuFree, StopAsked
  <2> QED BY <1>1, <2>2, <2>3, StopAskedStays
<1> QED BY <1>2, <1>3

(* Every step keeps the map of sessions true.                              *)
LEMMA EntryStep == TypeOK /\ NoStaleEntry /\ [Next]_vars => NoStaleEntry'
<1> SUFFICES ASSUME TypeOK, NoStaleEntry, [Next]_vars PROVE NoStaleEntry' OBVIOUS
<1> USE DEF NoStaleEntry, TypeOK, fields, clients
<1>1. ASSUME NEW k \in Callers, CallerSteps(k) PROVE NoStaleEntry'
  <2>1. CASE StartBegins(k) BY <2>1, ServerAssumption DEF StartBegins
  <2>2. CASE ~StartBegins(k)
    <3>1. /\ cur' = cur /\ active' = active
          /\ \A c \in Conns : conn[c] = "serving" => conn'[c] = "serving"
      BY <1>1, <2>2 DEF CallerSteps, Calls, StartRefused, StartWithoutLog, StartListens, StartFails,
          StartServes, StartReturns, StopNothing, StopTakes, StopCancels, StopCloses,
          StopReturns
    <3> QED BY <3>1
  <2> QED BY <2>1, <2>2
<1>2. ASSUME NEW r \in Runs, RunSteps(r) PROVE NoStaleEntry'
  BY <1>2 DEF RunSteps, LoopChecks, LoopAccepts, LoopFails, WarmOK, WarmFails
<1>3. ASSUME NEW c \in Conns, Connects(c) \/ Refuses(c) PROVE NoStaleEntry'
  BY <1>3 DEF Connects, Refuses
<1>4. ASSUME NEW c \in Conns, Registers(c) PROVE NoStaleEntry'
  BY <1>4 DEF Registers, Without
<1>5. ASSUME NEW c \in Conns, Leaves(c) PROVE NoStaleEntry'
  BY <1>5 DEF Leaves, Without
<1>6. CASE UNCHANGED vars BY <1>6 DEF vars
<1> QED BY <1>1, <1>2, <1>3, <1>4, <1>5, <1>6 DEF Next

(* Every step keeps the invariant.                                         *)
LEMMA ServerStep == ServerInv /\ [Next]_vars => ServerInv'
BY TypeStep, LifeStep, ArrivedStep, RefusedStep, EntryStep DEF ServerInv

(* So it holds throughout.                                                 *)
LEMMA ServerAlways == Spec => []ServerInv
BY ServerInit, ServerStep, PTL DEF Spec

-----------------------------------------------------------------------------
(* Every variable keeps its type.                                          *)
THEOREM TypeCorrect == Spec => []TypeOK
BY ServerAlways, PTL DEF ServerInv

(* A server that says it runs has a live context, an open port of its own  *)
(* and an accept loop, however Starts and Stops overlap.                   *)
THEOREM RunningMeansServing == Spec => []RunningServes
<1>1. ServerInv => RunningServes BY DEF ServerInv, LifeInv, Serves, RunningServes
<1> QED BY <1>1, ServerAlways, PTL

(* Two runs never serve at once.                                           *)
THEOREM OneRunAtATime == Spec => []OneRunLives
<1>1. ASSUME ServerInv, NEW r \in Live PROVE open = {r}
  <2>1. r \in Runs /\ loop[r] # "none" /\ r \notin cancelled BY DEF Live
  <2>2. r \in 1..cur BY <1>1, <2>1 DEF ServerInv, TypeOK, LifeInv, Future, Runs
  <2>3. CASE r = cur /\ running BY <1>1, <2>3 DEF ServerInv, LifeInv, Serves
  <2>4. CASE \E k \in Callers : r = cur /\ pc[k] \in Locked
    BY <1>1, <2>1, <2>4 DEF ServerInv, LifeInv, Creates, Locked
  <2>5. CASE \E k \in Callers : pc[k] = "cancel" /\ took[k].ctx = r
    BY <1>1, <2>5 DEF ServerInv, LifeInv, Destroys, Stopping
  <2> QED BY <1>1, <2>1, <2>2, <2>3, <2>4, <2>5 DEF ServerInv, LifeInv, ContextOwned
<1>2. ServerInv => OneRunLives
  <2> SUFFICES ASSUME ServerInv, NEW r \in Live, NEW q \in Live PROVE r = q
    BY DEF OneRunLives
  <2>1. open = {r} /\ open = {q} BY <1>1
  <2> QED BY <2>1
<1> QED BY <1>2, ServerAlways, PTL

(* A Stop that nothing follows leaves no port open and no context alive.   *)
THEOREM StopLeavesNothing == Spec => []NothingLeft
<1>1. ServerInv => NothingLeft
  BY DEF ServerInv, LifeInv, ContextOwned, PortOwned, NothingLeft, Locked, Stopping
<1> QED BY <1>1, ServerAlways, PTL

(* Only a client of a run that is being stopped is refused.                *)
THEOREM RefusalMeansStop == Spec => []RefusedIsStopped
BY ServerAlways, PTL DEF ServerInv

(* The map of sessions never names a session that is over.                 *)
THEOREM EntriesAreServed == Spec => []NoStaleEntry
BY ServerAlways, PTL DEF ServerInv
-----------------------------------------------------------------------------
(* Phase read the way the invariant lets it be read: the points of Start   *)
(* and Stop exclude each other, so the order of its cases does not matter. *)
Stopped(r, point) == \E k \in Callers : pc[k] = point /\ took[k].ctx = r

PhaseFacts ==
  \A r \in Runs :
    /\ Phase[r] = "new" <=> r > cur
    /\ Phase[r] = "serving" <=> r = cur /\ running
    /\ Phase[r] = "starting" <=> r = cur /\ \E k \in Callers : pc[k] = "listen"
    /\ Phase[r] = "listening" <=> r = cur /\ \E k \in Callers : pc[k] \in {"serve", "fetch"}
    /\ Phase[r] = "stopping" <=> Stopped(r, "cancel")
    /\ Phase[r] = "closing" <=> Stopped(r, "close")
    /\ Phase[r] \in {"new", "serving", "starting", "listening", "stopping", "closing", "over"}

(* What the mapping says of each run.                                      *)
LEMMA PhaseOf == TypeOK /\ LifeInv => PhaseFacts
<1> SUFFICES ASSUME TypeOK, LifeInv, NEW r \in Runs
             PROVE  /\ Phase[r] = "new" <=> r > cur
                    /\ Phase[r] = "serving" <=> r = cur /\ running
                    /\ Phase[r] = "starting" <=> r = cur /\ \E k \in Callers : pc[k] = "listen"
                    /\ Phase[r] = "listening"
                         <=> r = cur /\ \E k \in Callers : pc[k] \in {"serve", "fetch"}
                    /\ Phase[r] = "stopping" <=> Stopped(r, "cancel")
                    /\ Phase[r] = "closing" <=> Stopped(r, "close")
                    /\ Phase[r] \in {"new", "serving", "starting", "listening",
                                     "stopping", "closing", "over"}
  BY DEF PhaseFacts
<1>1. \A k \in Callers : Stopping(k) => took[k].ctx <= cur /\ cur \in Nat /\ r \in Nat
  BY ServerAssumption DEF LifeInv, Destroys, TypeOK, Runs
<1>2. r > cur => r # cur /\ ~Stopped(r, "cancel") /\ ~Stopped(r, "close")
  BY <1>1, ServerAssumption DEF Stopped, Stopping, TypeOK, Runs
<1>3. r = cur /\ running =>
        ~Stopped(r, "cancel") /\ ~Stopped(r, "close") /\ \A k \in Callers : pc[k] \notin Locked
  BY DEF LifeInv, Exclusive, Stopped, Stopping
<1>4. \A k \in Callers : r = cur /\ pc[k] \in Locked =>
        /\ ~Stopped(r, "cancel") /\ ~Stopped(r, "close")
        /\ \A j \in Callers : pc[j] \in Locked => pc[j] = pc[k]
  BY DEF LifeInv, Exclusive, Destroys, Stopped, Stopping
<1>5. ~(Stopped(r, "cancel") /\ Stopped(r, "close"))
  BY DEF LifeInv, Exclusive, Stopped, Stopping
<1>6. Phase[r] =
        CASE r > cur -> "new"
          [] r = cur /\ running -> "serving"
          [] r = cur /\ \E k \in Callers : pc[k] \in {"listen"} -> "starting"
          [] r = cur /\ \E k \in Callers : pc[k] \in {"serve", "fetch"} -> "listening"
          [] Stopped(r, "cancel") -> "stopping"
          [] Stopped(r, "close") -> "closing"
          [] OTHER -> "over"
  BY DEF Phase, Stopped
<1> HIDE DEF Stopped
<1> QED BY <1>2, <1>3, <1>4, <1>5, <1>6 DEF Locked

(* The same after a step.                                                  *)
LEMMA PhaseAfter == TypeOK' /\ LifeInv' => PhaseFacts'
BY PhaseOf, PTL

(* No run moves when nothing that Phase reads changes.                     *)
LEMMA SamePhase == UNCHANGED <<running, cur, pc, took>> => UNCHANGED Phase
BY DEF Phase

(* A run that nobody starts or stops in a step stays where it is.          *)
LEMMA OthersStay ==
  ASSUME TypeOK, TypeOK', LifeInv, LifeInv', NEW q \in Runs, cur' = cur,
         q = cur => UNCHANGED running,
         q = cur => \A k \in Callers : pc'[k] = "listen" <=> pc[k] = "listen",
         q = cur => \A k \in Callers : pc'[k] \in {"serve", "fetch"}
                                         <=> pc[k] \in {"serve", "fetch"},
         Stopped(q, "cancel")' <=> Stopped(q, "cancel"),
         Stopped(q, "close")' <=> Stopped(q, "close")
  PROVE  Phase'[q] = Phase[q]
<1>1. PhaseFacts /\ PhaseFacts' BY PhaseOf, PhaseAfter
<1>2. /\ Phase'[q] = "new" <=> Phase[q] = "new"
      /\ Phase'[q] = "serving" <=> Phase[q] = "serving"
  BY <1>1 DEF PhaseFacts
<1>3. Phase'[q] = "starting" <=> Phase[q] = "starting"
  <2>1. CASE q # cur BY <1>1, <2>1 DEF PhaseFacts
  <2>2. CASE q = cur
    <3>1. (\E k \in Callers : pc[k] = "listen") <=> (\E k \in Callers : pc'[k] = "listen")
      BY <2>2
    <3> QED BY <1>1, <2>2, <3>1 DEF PhaseFacts
  <2> QED BY <2>1, <2>2
<1>4. Phase'[q] = "listening" <=> Phase[q] = "listening"
  <2>1. CASE q # cur BY <1>1, <2>1 DEF PhaseFacts
  <2>2. CASE q = cur
    <3>1. (\E k \in Callers : pc[k] \in {"serve", "fetch"})
            <=> (\E k \in Callers : pc'[k] \in {"serve", "fetch"})
      BY <2>2
    <3> QED BY <1>1, <2>2, <3>1 DEF PhaseFacts
  <2> QED BY <2>1, <2>2
<1>5. /\ Phase'[q] = "stopping" <=> Phase[q] = "stopping"
      /\ Phase'[q] = "closing" <=> Phase[q] = "closing"
  BY <1>1 DEF PhaseFacts
<1>6. {Phase[q], Phase'[q]} \subseteq
        {"new", "serving", "starting", "listening", "stopping", "closing", "over"}
  BY <1>1 DEF PhaseFacts
<1> QED BY <1>2, <1>3, <1>4, <1>5, <1>6

(* One run r moves from one phase to another; all the others stay.         *)
LEMMA OneMoves ==
  ASSUME NEW r \in Runs, NEW from, NEW to, Phase[r] = from, Phase'[r] = to,
         \A q \in Runs : q # r => Phase'[q] = Phase[q]
  PROVE  Promise!Moves(r, from, to)
<1>1. Phase = [q \in Runs |-> Phase[q]] BY DEF Phase
<1>2. Phase' = [q \in Runs |-> Phase'[q]] BY DEF Phase, Runs
<1>3. Phase' = [Phase EXCEPT ![r] = to] BY <1>1, <1>2
<1> QED BY <1>3 DEF Promise!Moves

(* Before the first Start no run has begun.                                *)
LEMMA InitPromise == Init => Promise!Init
<1> SUFFICES ASSUME Init PROVE Promise!Init OBVIOUS
<1>1. \A r \in Runs : Phase[r] = "new" BY ServerAssumption DEF Init, Phase, Runs
<1>2. Phase = [r \in Runs |-> Phase[r]] BY DEF Phase
<1> QED BY <1>1, <1>2 DEF Init, Promise!Init
-----------------------------------------------------------------------------
(* What the steps of Start and Stop are to somebody outside.               *)
LEMMA StartBeginsPromise ==
  ASSUME ServerInv, ServerInv', NEW k \in Callers, StartBegins(k)
  PROVE  Promise!Next
<1> USE ServerAssumption DEF ServerInv, TypeOK, StartBegins, Goes, fields, clients
<1>1. PhaseFacts /\ PhaseFacts' BY PhaseOf, PhaseAfter
<1> DEFINE r == cur + 1
<1>2. r \in Runs /\ Phase[r] = "new" BY <1>1 DEF PhaseFacts, Runs
<1>3. Phase'[r] = "starting" BY <1>1, <1>2 DEF PhaseFacts
<1>4. \A q \in Runs : q # r => Phase'[q] = Phase[q]
  <2> SUFFICES ASSUME NEW q \in Runs, q # r PROVE Phase'[q] = Phase[q] OBVIOUS
  <2>1. q > cur <=> q > cur' BY DEF Runs
  <2>2. ~running /\ ~running' OBVIOUS
  <2>3. \A j \in Callers : pc[j] \notin Locked BY DEF MuFree
  <2>4. q # cur' OBVIOUS
  <2>5. (Stopped(q, "cancel") <=> Stopped(q, "cancel")')
        /\ (Stopped(q, "close") <=> Stopped(q, "close")') BY DEF Stopped
  <2> QED BY <1>1, <2>1, <2>2, <2>3, <2>4, <2>5 DEF PhaseFacts, Locked
<1>5. Promise!Moves(r, "new", "starting")
  <2> HIDE DEF r
  <2> QED BY <1>2, <1>3, <1>4, OneMoves
<1>6. \A q \in Runs : ~Promise!Begun(q) /\ (Phase[q] = "new" <=> q >= r)
  BY <1>1 DEF PhaseFacts, Promise!Begun, MuFree, Locked, Runs
<1>7. Promise!Begins(r) BY <1>5, <1>6 DEF Promise!Begins
<1> QED BY <1>2, <1>7 DEF Promise!Next, Promise!RunMoves

(* Listen succeeds when nobody holds the port.                             *)
LEMMA StartListensPromise ==
  ASSUME ServerInv, ServerInv', NEW k \in Callers, StartListens(k)
  PROVE  Promise!Next
<1> USE ServerAssumption DEF ServerInv, TypeOK, StartListens, Goes, clients
<1>1. PhaseFacts /\ PhaseFacts' BY PhaseOf, PhaseAfter
<1>2. cur \in Runs BY DEF LifeInv, Creates, Locked, Runs
<1>3. Phase[cur] = "starting" /\ Phase'[cur] = "listening" BY <1>1, <1>2 DEF PhaseFacts
<1>4. \A q \in Runs : q # cur => Phase'[q] = Phase[q]
  BY OthersStay DEF Stopped
<1>5. Promise!Moves(cur, "starting", "listening") BY <1>2, <1>3, <1>4, OneMoves
<1>6. \A q \in Runs : ~Promise!HoldsPort(q)
  <2>1. ~running BY DEF LifeInv, Serves
  <2>2. \A j \in Callers : pc[j] \notin {"serve", "fetch", "cancel", "close"}
    BY DEF LifeInv, Creates, Destroys, Stopping
  <2> QED BY <1>1, <2>1, <2>2 DEF PhaseFacts, Stopped, Promise!HoldsPort
<1>7. Promise!Listens(cur) BY <1>5, <1>6 DEF Promise!Listens
<1> QED BY <1>2, <1>7 DEF Promise!Next, Promise!RunMoves

(* A Start that finds the port taken gives its run up.                     *)
LEMMA StartFailsPromise ==
  ASSUME ServerInv, ServerInv', NEW k \in Callers, StartFails(k)
  PROVE  Promise!Next
<1> USE ServerAssumption DEF ServerInv, TypeOK, StartFails, Goes, fields, clients
<1>1. PhaseFacts /\ PhaseFacts' BY PhaseOf, PhaseAfter
<1>2. cur \in Runs BY DEF LifeInv, Creates, Locked, Runs
<1>3. Phase[cur] = "starting" BY <1>1, <1>2 DEF PhaseFacts
<1>4. Phase'[cur] = "over"
  <2>1. ~running' BY DEF LifeInv, Exclusive, Locked
  <2>2. \A j \in Callers : pc'[j] \notin Locked BY DEF LifeInv, Exclusive, Locked
  <2>3. ~Stopped(cur, "cancel")' /\ ~Stopped(cur, "close")'
    BY DEF LifeInv, Destroys, Stopping, Locked, Stopped
  <2> QED BY <1>1, <1>2, <2>1, <2>2, <2>3 DEF PhaseFacts, Locked, Stopped
<1>5. \A q \in Runs : q # cur => Phase'[q] = Phase[q]
  BY OthersStay DEF Stopped
<1>6. Promise!Moves(cur, "starting", "over") BY <1>2, <1>3, <1>4, <1>5, OneMoves
<1> QED BY <1>2, <1>6 DEF Promise!Next, Promise!RunMoves

(* The start of the goroutines is not seen.                                *)
LEMMA StartServesPromise ==
  ASSUME ServerInv, ServerInv', NEW k \in Callers, StartServes(k)
  PROVE  UNCHANGED Promise!service
<1> USE ServerAssumption DEF ServerInv, TypeOK, StartServes, Goes, fields, clients
<1>1. PhaseFacts /\ PhaseFacts' BY PhaseOf, PhaseAfter
<1>2. \A q \in Runs : Phase'[q] = Phase[q]
  BY OthersStay DEF Stopped
<1>3. Phase' = Phase
  <2>1. Phase = [q \in Runs |-> Phase[q]] BY DEF Phase
  <2>2. Phase' = [q \in Runs |-> Phase'[q]] BY DEF Phase, Runs
  <2> QED BY <1>2, <2>1, <2>2
<1> QED BY <1>3 DEF Promise!service

(* Start returns and the run serves.                                       *)
LEMMA StartReturnsPromise ==
  ASSUME ServerInv, ServerInv', NEW k \in Callers, StartReturns(k)
  PROVE  Promise!Next
<1> USE ServerAssumption DEF ServerInv, TypeOK, StartReturns, Goes, clients
<1>1. PhaseFacts /\ PhaseFacts' BY PhaseOf, PhaseAfter
<1>2. cur \in Runs BY DEF LifeInv, Creates, Locked, Runs
<1>3. Phase[cur] = "listening" /\ Phase'[cur] = "serving" BY <1>1, <1>2 DEF PhaseFacts
<1>4. \A q \in Runs : q # cur => Phase'[q] = Phase[q]
  BY OthersStay DEF Stopped
<1>5. Promise!Moves(cur, "listening", "serving") BY <1>2, <1>3, <1>4, OneMoves
<1> QED BY <1>2, <1>5 DEF Promise!Next, Promise!RunMoves

(* Stop takes the run away from the clients.                               *)
LEMMA StopTakesPromise ==
  ASSUME ServerInv, ServerInv', NEW k \in Callers, StopTakes(k)
  PROVE  Promise!Next
<1> USE ServerAssumption DEF ServerInv, TypeOK, StopTakes, Goes, clients
<1>1. PhaseFacts /\ PhaseFacts' BY PhaseOf, PhaseAfter
<1>2. cur \in Runs BY DEF LifeInv, Serves, Runs
<1>3. Phase[cur] = "serving" /\ Phase'[cur] = "stopping"
  BY <1>1, <1>2 DEF PhaseFacts, Stopped
<1>4. \A q \in Runs : q # cur => Phase'[q] = Phase[q]
  BY OthersStay DEF Stopped
<1>5. Promise!Moves(cur, "serving", "stopping") BY <1>2, <1>3, <1>4, OneMoves
<1> QED BY <1>2, <1>5 DEF Promise!Next, Promise!RunMoves

(* Stop cancels the context of the run it took.                            *)
LEMMA StopCancelsPromise ==
  ASSUME ServerInv, ServerInv', NEW k \in Callers, StopCancels(k)
  PROVE  Promise!Next
<1> USE ServerAssumption DEF ServerInv, TypeOK, StopCancels, Goes, fields, clients
<1>1. PhaseFacts /\ PhaseFacts' BY PhaseOf, PhaseAfter
<1> DEFINE r == took[k].ctx
<1>2. r \in Runs BY DEF LifeInv, Destroys, Stopping, Runs
<1>3. Phase[r] = "stopping" /\ Phase'[r] = "closing" BY <1>1, <1>2 DEF PhaseFacts, Stopped
<1>4. \A q \in Runs : q # r => Phase'[q] = Phase[q]
  BY OthersStay DEF Stopped
<1>5. Promise!Moves(r, "stopping", "closing")
  <2> HIDE DEF r
  <2> QED BY <1>2, <1>3, <1>4, OneMoves
<1> QED BY <1>2, <1>5 DEF Promise!Next, Promise!RunMoves

(* Stop frees the port; who waited in its queue is gone.                   *)
LEMMA StopClosesPromise ==
  ASSUME ServerInv, ServerInv', NEW k \in Callers, StopCloses(k)
  PROVE  Promise!Next
<1> USE ServerAssumption DEF ServerInv, TypeOK, StopCloses, Goes, fields
<1>1. PhaseFacts /\ PhaseFacts' BY PhaseOf, PhaseAfter
<1> DEFINE r == took[k].ctx
<1>2. r \in Runs /\ took[k].listener = r BY DEF LifeInv, Destroys, Stopping, Runs
<1>3. Phase[r] = "closing" BY <1>1, <1>2 DEF PhaseFacts, Stopped
<1>4. Phase'[r] = "over"
  <2>1. ~running' BY DEF LifeInv, Exclusive, Stopping
  <2>2. r <= cur' BY DEF LifeInv, Destroys, Stopping
  <2>3. r = cur' => \A j \in Callers : pc'[j] \notin Locked
    BY DEF LifeInv, Destroys, Stopping, Locked
  <2>4. \A j \in Callers : pc'[j] \notin {"cancel", "close"}
    BY DEF LifeInv, Exclusive, Stopping
  <2> HIDE DEF r
  <2> QED BY <1>1, <1>2, <2>1, <2>2, <2>3, <2>4 DEF PhaseFacts, Locked, Stopped, Runs
<1>5. \A q \in Runs : q # r => Phase'[q] = Phase[q]
  BY OthersStay DEF Stopped
<1>6. Promise!Moves(r, "closing", "over")
  <2> HIDE DEF r
  <2> QED BY <1>2, <1>3, <1>4, <1>5, OneMoves
<1>7. Promise!Frees(r) BY <1>2, <1>6 DEF Promise!Frees
<1> QED BY <1>2, <1>7 DEF Promise!Next

(* Every other step of a caller is not seen.                               *)
LEMMA WaitsPromise ==
  ASSUME ServerInv, ServerInv', NEW k \in Callers,
         Calls(k) \/ StartRefused(k) \/ StartWithoutLog(k) \/ StopNothing(k) \/ StopReturns(k)
  PROVE  UNCHANGED Promise!service
<1> USE ServerAssumption DEF ServerInv, TypeOK, Goes
<1>1. PhaseFacts /\ PhaseFacts' BY PhaseOf, PhaseAfter
<1>2. /\ UNCHANGED <<running, cur, conn, of>>
      /\ \A j \in Callers, p \in {"listen", "serve", "fetch", "cancel", "close"} :
           pc'[j] = p <=> pc[j] = p
      /\ \A j \in Callers : pc[j] \in {"cancel", "close"} => took'[j] = took[j]
  BY DEF Calls, StartRefused, StartWithoutLog, StopNothing, StopReturns, fields, clients
<1>3. \A q \in Runs : Phase'[q] = Phase[q]
  <2> SUFFICES ASSUME NEW q \in Runs PROVE Phase'[q] = Phase[q] OBVIOUS
  <2>1. /\ Stopped(q, "cancel")' <=> Stopped(q, "cancel")
        /\ Stopped(q, "close")' <=> Stopped(q, "close")
    BY <1>2 DEF Stopped
  <2> QED BY <1>2, <2>1, OthersStay
<1>4. Phase' = Phase
  <2>1. Phase = [q \in Runs |-> Phase[q]] BY DEF Phase
  <2>2. Phase' = [q \in Runs |-> Phase'[q]] BY DEF Phase, Runs
  <2> QED BY <1>3, <2>1, <2>2
<1> QED BY <1>2, <1>4 DEF Promise!service

-----------------------------------------------------------------------------
(* What the steps of a client are to somebody outside.                     *)
LEMMA AcceptsPromise ==
  ASSUME ServerInv, NEW r \in Runs, LoopAccepts(r)
  PROVE  Promise!Next
<1> USE DEF ServerInv, LoopAccepts
<1>1. PhaseFacts BY PhaseOf
<1>2. PICK c \in Conns : /\ conn[c] = "queued" /\ of[c] = r
                         /\ conn' = [conn EXCEPT ![c] = "accepted"]
  OBVIOUS
<1>3. Promise!HoldsPort(r)
  <2>1. CASE running BY <1>1, <2>1 DEF LifeInv, Serves, PhaseFacts, Promise!HoldsPort
  <2>2. CASE \E k \in Callers : pc[k] \in {"serve", "fetch"}
    BY <1>1, <2>2 DEF LifeInv, Creates, Locked, PhaseFacts, Promise!HoldsPort
  <2>3. CASE \E k \in Callers : Stopping(k)
    BY <1>1, <2>3 DEF LifeInv, Destroys, Stopping, Stopped, PhaseFacts, Promise!HoldsPort
  <2> QED BY <2>1, <2>2, <2>3 DEF LifeInv, PortOwned
<1>4. UNCHANGED Phase /\ UNCHANGED of BY SamePhase DEF fields, callers
<1>5. Promise!ClientMoves(c) BY <1>2, <1>3, <1>4 DEF Promise!ClientMoves, Promise!Turns
<1> QED BY <1>4, <1>5 DEF Promise!Next

(* A client reaches the port that is open.                                 *)
LEMMA ConnectsPromise ==
  ASSUME ServerInv, NEW c \in Conns, Connects(c)
  PROVE  Promise!Next
<1> USE DEF ServerInv, Connects
<1>1. PhaseFacts BY PhaseOf
<1>2. PICK r \in open : of' = [of EXCEPT ![c] = r] OBVIOUS
<1>3. r \in Runs BY DEF TypeOK
<1>4. Promise!HoldsPort(r)
  <2>1. CASE running BY <1>1, <1>3, <2>1 DEF LifeInv, Serves, PhaseFacts, Promise!HoldsPort
  <2>2. CASE \E k \in Callers : pc[k] \in {"serve", "fetch"}
    BY <1>1, <1>3, <2>2 DEF LifeInv, Creates, Locked, PhaseFacts, Promise!HoldsPort
  <2>3. CASE \E k \in Callers : Stopping(k)
    BY <1>1, <1>3, <2>3 DEF LifeInv, Destroys, Stopping, Stopped, PhaseFacts,
       Promise!HoldsPort
  <2> QED BY <2>1, <2>2, <2>3 DEF LifeInv, PortOwned
<1>5. UNCHANGED Phase BY SamePhase DEF fields, callers
<1>6. Promise!Arrives(c, r) BY <1>2, <1>4 DEF Promise!Arrives, Promise!Turns
<1> QED BY <1>3, <1>5, <1>6 DEF Promise!Next

(* A handler refuses, registers or leaves.                                 *)
LEMMA HandlerPromise ==
  ASSUME ServerInv, NEW c \in Conns, Refuses(c) \/ Registers(c) \/ Leaves(c)
  PROVE  Promise!Next
<1> USE DEF ServerInv
<1>1. PhaseFacts BY PhaseOf
<1>2. UNCHANGED Phase /\ UNCHANGED of
  BY SamePhase DEF Refuses, Registers, Leaves, fields, callers
<1>3. CASE Refuses(c)
  <2>1. of[c] \in Runs /\ of[c] <= cur /\ cur \in Nat
    BY <1>3, ServerAssumption DEF Refuses, Arrived, TypeOK, Runs
  <2>2. Promise!Told(of[c])
    BY <1>1, <1>3, <2>1 DEF Refuses, MuFree, Locked, PhaseFacts, Promise!Told, Runs
  <2> QED BY <1>2, <1>3, <2>2
          DEF Refuses, Promise!Next, Promise!ClientMoves, Promise!Turns
<1>4. CASE Registers(c)
  <2>1. cur \in Runs BY <1>4, ServerAssumption DEF Registers, LifeInv, Serves, TypeOK, Runs
  <2>2. Phase[cur] = "serving" BY <1>1, <1>4, <2>1 DEF Registers, PhaseFacts
  <2> QED BY <1>2, <1>4, <2>1, <2>2
          DEF Registers, Promise!Next, Promise!ClientMoves, Promise!Turns
<1>5. CASE Leaves(c)
  BY <1>2, <1>5 DEF Leaves, Promise!Next, Promise!ClientMoves, Promise!Turns
<1> QED BY <1>3, <1>4, <1>5

-----------------------------------------------------------------------------
(* Every step of the server is one the promise allows, or is not seen.     *)
LEMMA PromiseStep ==
  ServerInv /\ ServerInv' /\ [Next]_vars => [Promise!Next]_(Promise!service)
<1> SUFFICES ASSUME ServerInv, ServerInv', [Next]_vars
             PROVE  Promise!Next \/ UNCHANGED Promise!service
  OBVIOUS
<1>1. ASSUME NEW k \in Callers, CallerSteps(k)
      PROVE  Promise!Next \/ UNCHANGED Promise!service
  BY <1>1, StartBeginsPromise, StartListensPromise, StartFailsPromise, StartServesPromise,
     StartReturnsPromise, StopTakesPromise, StopCancelsPromise, StopClosesPromise,
     WaitsPromise DEF CallerSteps
<1>2. CASE UNCHANGED <<running, cur, pc, took, conn, of>>
  BY <1>2, SamePhase DEF Promise!service
<1>3. ASSUME NEW r \in Runs, RunSteps(r)
      PROVE  Promise!Next \/ UNCHANGED Promise!service
  <2>1. CASE LoopAccepts(r) BY <2>1, AcceptsPromise
  <2>2. CASE ~LoopAccepts(r)
    BY <1>2, <1>3, <2>2 DEF RunSteps, LoopChecks, LoopFails, WarmOK, WarmFails, fields,
       callers, clients
  <2> QED BY <2>1, <2>2
<1>4. ASSUME NEW c \in Conns, Connects(c) \/ Refuses(c) \/ Registers(c) \/ Leaves(c)
      PROVE  Promise!Next
  BY <1>4, ConnectsPromise, HandlerPromise
<1>5. CASE UNCHANGED vars BY <1>2, <1>5 DEF vars, fields, callers, clients
<1> QED BY <1>1, <1>3, <1>4, <1>5 DEF Next

(* Start and Stop keep what module Service promises of them: runs follow   *)
(* each other in order, one at a time on the port, and clients are served  *)
(* by a run that serves and refused only by one told to stop.              *)
THEOREM ServerRefinesService == Spec => ImplementsService
BY ServerAlways, InitPromise, PromiseStep, PTL DEF Spec, ImplementsService, Promise!Spec
=============================================================================
