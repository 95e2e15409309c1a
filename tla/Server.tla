------------------------------- MODULE Server -------------------------------
(***************************************************************************)
(* The life cycle of the proxy (proxy/server.go): Start, Stop and IsRunning*)
(* called by the main goroutine, the signal handler and the tray, the      *)
(* accept loop, the warm-up of the pool and the entry and exit of          *)
(* handleClient.  A run is what one Start creates: a context, a listener,  *)
(* a pool and a map of active sessions; runs are numbered.                 *)
(*                                                                         *)
(* Start holds s.mu from its first line to its last; Stop releases it      *)
(* before it acts on what it read; a handler locks twice, for a moment.    *)
(* A session is module Route and then module Bridge; it ends when it likes *)
(* (module Bridge shows that it may outlive its context).                  *)
(***************************************************************************)
EXTENDS Naturals, FiniteSets

CONSTANTS
  Callers,    \* goroutines that call Start and Stop
  Addrs,      \* remote addresses of clients; handleClient calls one a label
  MaxConns,   \* connections one address may make (bound)
  MaxRuns,    \* runs (bound)
  WarmDials   \* len(s.cfg.DCRedirects), or 0 when cf_first is set

ASSUME ServerAssumption ==
  MaxConns \in Nat /\ MaxRuns \in Nat /\ WarmDials \in Nat

VARIABLES
  alive,      \* the process has not been ended by the Go runtime
  running,    \* s.running
  cur,        \* the run s.ctx, s.cancel, s.wsPool and s.active belong to
  lis,        \* the run s.listener belongs to
  pc,         \* where each caller is in Start or Stop
  took,       \* what Stop copied out of the server
  cancelled,  \* runs whose context is cancelled
  open,       \* runs whose listener is open
  active,     \* connections in the map of each run, at most one per label
  loop,       \* the accept loop of each run
  warming,    \* warm-up dials of each run that have not ended
  streak,     \* s.wsFailStreak, as far as warm-ups change it
  conn,       \* where each client connection is
  of          \* the run that accepted it

fields == <<running, cur, lis>>
callers == <<pc, took>>
clients == <<conn, of>>
vars == <<alive, fields, callers, cancelled, open, active, loop, warming, streak, clients>>

Runs == 1..MaxRuns

Conns == Addrs \X (1..MaxConns)

Label(c) == c[1]

NoRun == [ctx |-> 0, listener |-> 0]

(* A caller between these two points of Start holds s.mu.                  *)
Locked == {"listen", "serve", "fetch"}

MuFree == \A k \in Callers : pc[k] \notin Locked

Init ==
  /\ alive = TRUE /\ running = FALSE
  /\ cur = 0 /\ lis = 0
  /\ pc = [k \in Callers |-> "idle"]
  /\ took = [k \in Callers |-> NoRun]
  /\ cancelled = {} /\ open = {}
  /\ active = [r \in 0..MaxRuns |-> {}]
  /\ loop = [r \in Runs |-> "none"]
  /\ warming = [r \in Runs |-> 0]
  /\ streak = 0
  /\ conn = [c \in Conns |-> "away"]
  /\ of = [c \in Conns |-> 0]

Goes(k, from, to) == pc[k] = from /\ pc' = [pc EXCEPT ![k] = to]

-----------------------------------------------------------------------------
(* A goroutine calls Start or Stop and waits for the lock.                 *)
Calls(k) ==
  /\ \/ /\ Goes(k, "idle", "start")
        /\ cur + Cardinality({j \in Callers : pc[j] = "start"}) < MaxRuns
     \/ Goes(k, "idle", "stop")
  /\ UNCHANGED <<fields, took, cancelled, open, active, loop, warming, streak, clients>>

(* "server already running"                                                *)
StartRefused(k) ==
  /\ MuFree
  /\ running
  /\ Goes(k, "start", "idle")
  /\ UNCHANGED <<fields, took, cancelled, open, active, loop, warming, streak, clients>>

(* The log cannot be opened.  Only the first run opens it (s.logStarted),  *)
(* and the next Start tries again.                                         *)
StartWithoutLog(k) ==
  /\ MuFree
  /\ ~running
  /\ cur = 0
  /\ Goes(k, "start", "idle")
  /\ UNCHANGED <<fields, took, cancelled, open, active, loop, warming, streak, clients>>

StartBegins(k) ==
  /\ MuFree
  /\ ~running
  /\ cur < MaxRuns
  /\ Goes(k, "start", "listen")
  /\ cur' = cur + 1
  /\ active' = [active EXCEPT ![cur + 1] = {}]
  /\ UNCHANGED <<running, lis, took, cancelled, open, loop, warming, streak, clients>>

(* The port is free only if no listener of an earlier run is open.         *)
StartListens(k) ==
  /\ open = {}
  /\ Goes(k, "listen", "serve")
  /\ lis' = cur
  /\ open' = {cur}
  /\ UNCHANGED <<running, cur, took, cancelled, active, loop, warming, streak, clients>>

(* The port is taken, by an earlier run or by another program: the fields  *)
(* already belong to the run that fails here.                              *)
StartFails(k) ==
  /\ Goes(k, "listen", "idle")
  /\ cancelled' = cancelled \cup {cur}
  /\ UNCHANGED <<fields, took, open, active, loop, warming, streak, clients>>

StartServes(k) ==
  /\ Goes(k, "serve", "fetch")
  /\ loop' = [loop EXCEPT ![cur] = "check"]
  /\ UNCHANGED <<fields, took, cancelled, open, active, warming, streak, clients>>

(* The first fetch of the CF domains has returned; it may take 15 seconds. *)
StartReturns(k) ==
  /\ Goes(k, "fetch", "idle")
  /\ warming' = [warming EXCEPT ![cur] = WarmDials]
  /\ running' = TRUE
  /\ UNCHANGED <<cur, lis, took, cancelled, open, active, loop, streak, clients>>

-----------------------------------------------------------------------------
StopNothing(k) ==
  /\ MuFree
  /\ ~running
  /\ Goes(k, "stop", "idle")
  /\ UNCHANGED <<fields, took, cancelled, open, active, loop, warming, streak, clients>>

(* Mutants: Stop clears s.running only when it is done; Stop closes        *)
(* the listener before it cancels the context.                             *)
StopTakesRunning(k) ==
  /\ MuFree
  /\ running
  /\ Goes(k, "stop", "cancel")
  /\ took' = [took EXCEPT ![k] = [ctx |-> cur, listener |-> lis]]
  /\ UNCHANGED <<fields, cancelled, open, active, loop, warming, streak, clients>>

StopTakesAndCloses(k) ==
  /\ MuFree
  /\ running
  /\ Goes(k, "stop", "cancel")
  /\ running' = FALSE
  /\ took' = [took EXCEPT ![k] = [ctx |-> cur, listener |-> lis]]
  /\ open' = open \ {lis}
  /\ UNCHANGED <<cur, lis, cancelled, active, loop, warming, streak, clients>>

StopTakes(k) ==
  /\ MuFree
  /\ running
  /\ Goes(k, "stop", "cancel")
  /\ running' = FALSE
  /\ took' = [took EXCEPT ![k] = [ctx |-> cur, listener |-> lis]]
  /\ UNCHANGED <<cur, lis, cancelled, open, active, loop, warming, streak, clients>>

(* Mutant: Stop reads s.cancel again after it let go of s.mu.              *)
StopCancelsCurrent(k) ==
  /\ Goes(k, "cancel", "close")
  /\ cancelled' = cancelled \cup {cur}
  /\ UNCHANGED <<fields, took, open, active, loop, warming, streak, clients>>

StopCancels(k) ==
  /\ Goes(k, "cancel", "close")
  /\ cancelled' = cancelled \cup {took[k].ctx}
  /\ UNCHANGED <<fields, took, open, active, loop, warming, streak, clients>>

(* The system resets the connections the listener has not handed out.      *)
(* wsPool.CloseAll, which follows, is module Pool.                         *)
StopCloses(k) ==
  /\ Goes(k, "close", "drain")
  /\ open' = open \ {took[k].listener}
  /\ conn' = [c \in Conns |-> IF conn[c] = "queued" /\ of[c] = took[k].listener
                              THEN "gone" ELSE conn[c]]
  /\ UNCHANGED <<fields, took, cancelled, active, loop, warming, streak, of>>

(* Mutant: Stop waits until every session has left.                        *)
StopReturnsLast(k) ==
  /\ active[took[k].ctx] = {}
  /\ Goes(k, "drain", "idle")
  /\ took' = [took EXCEPT ![k] = NoRun]
  /\ UNCHANGED <<fields, cancelled, open, active, loop, warming, streak, clients>>

(* The range over the map of the run ends.  What it cancels derives from   *)
(* the context that is already cancelled.                                  *)
StopReturns(k) ==
  /\ Goes(k, "drain", "idle")
  /\ took' = [took EXCEPT ![k] = NoRun]
  /\ UNCHANGED <<fields, cancelled, open, active, loop, warming, streak, clients>>

-----------------------------------------------------------------------------
LoopChecks(r) ==
  /\ loop[r] = "check"
  /\ loop' = [loop EXCEPT ![r] = IF r \in cancelled THEN "done" ELSE "accept"]
  /\ UNCHANGED <<fields, callers, cancelled, open, active, warming, streak, clients>>

LoopAccepts(r) ==
  /\ loop[r] = "accept"
  /\ r \in open
  /\ \E c \in Conns :
       /\ conn[c] = "queued" /\ of[c] = r
       /\ conn' = [conn EXCEPT ![c] = "accepted"]
  /\ loop' = [loop EXCEPT ![r] = "check"]
  /\ UNCHANGED <<fields, callers, cancelled, open, active, warming, streak, of>>

(* Mutant: the loop accepts again without looking at the error.            *)
LoopFailsAndRetries(r) ==
  /\ loop[r] = "accept"
  /\ UNCHANGED <<fields, callers, cancelled, open, active, loop, warming, streak, clients>>

(* Accept fails.  An error of a living listener (no file descriptors) is   *)
(* logged and the loop goes on, unless the run was stopped.                *)
LoopFails(r) ==
  /\ loop[r] = "accept"
  /\ loop' = [loop EXCEPT ![r] = IF r \in cancelled \/ r \notin open
                                 THEN "done" ELSE "check"]
  /\ UNCHANGED <<fields, callers, cancelled, open, active, warming, streak, clients>>

-----------------------------------------------------------------------------
(* A warm-up dial ends; it does not ask whether it was cancelled.          *)
WarmOK(r) ==
  /\ warming[r] > 0
  /\ warming' = [warming EXCEPT ![r] = @ - 1]
  /\ streak' = 0
  /\ UNCHANGED <<fields, callers, cancelled, open, active, loop, clients>>

(* Mutant: a failed dial is counted twice.                                 *)
WarmFailsTwice(r) ==
  /\ warming[r] > 0
  /\ warming' = [warming EXCEPT ![r] = @ - 2]
  /\ streak' = streak + 2
  /\ UNCHANGED <<fields, callers, cancelled, open, active, loop, clients>>

WarmFails(r) ==
  /\ warming[r] > 0
  /\ warming' = [warming EXCEPT ![r] = @ - 1]
  /\ streak' = streak + 1
  /\ UNCHANGED <<fields, callers, cancelled, open, active, loop, clients>>

-----------------------------------------------------------------------------
(* A client comes back to its port only after its last connection, which   *)
(* the proxy may not have noticed to be gone.                              *)
Connects(c) ==
  /\ conn[c] = "away"
  /\ c[2] > 1 => conn[<<Label(c), c[2] - 1>>] # "away"
  /\ \E r \in open : of' = [of EXCEPT ![c] = r]
  /\ conn' = [conn EXCEPT ![c] = "queued"]
  /\ UNCHANGED <<fields, callers, cancelled, open, active, loop, warming, streak>>

(* Stop ranges over the map of run r without the lock.                     *)
Ranged(r) == \E k \in Callers : pc[k] = "drain" /\ took[k].ctx = r

(* Writing to a map while another goroutine ranges over it may end the     *)
(* process: "fatal error: concurrent map iteration and map write".         *)
MapWrite == alive' \in IF Ranged(cur) /\ active[cur] # {} THEN BOOLEAN ELSE {TRUE}

(* The map as it is after the label of c is removed.                       *)
Without(c) == {d \in active[cur] : Label(d) # Label(c)}

Refuses(c) ==
  /\ conn[c] = "accepted"
  /\ MuFree
  /\ ~running
  /\ conn' = [conn EXCEPT ![c] = "refused"]
  /\ UNCHANGED <<fields, callers, cancelled, open, active, loop, warming, streak, of>>

(* s.active is the map of the current run, whichever run accepted c.       *)
Registers(c) ==
  /\ conn[c] = "accepted"
  /\ MuFree
  /\ running
  /\ conn' = [conn EXCEPT ![c] = "serving"]
  /\ active' = [active EXCEPT ![cur] = Without(c) \cup {c}]
  /\ MapWrite
  /\ UNCHANGED <<fields, callers, cancelled, open, loop, warming, streak, of>>

(* Mutant: the handler forgets its label in the map.                       *)
LeavesLabel(c) ==
  /\ conn[c] = "serving"
  /\ MuFree
  /\ conn' = [conn EXCEPT ![c] = "gone"]
  /\ alive' = alive
  /\ UNCHANGED <<fields, callers, cancelled, open, active, loop, warming, streak, of>>

(* The deferred delete and close of handleClient.                          *)
Leaves(c) ==
  /\ conn[c] = "serving"
  /\ MuFree
  /\ conn' = [conn EXCEPT ![c] = "gone"]
  /\ active' = [active EXCEPT ![cur] = Without(c)]
  /\ MapWrite
  /\ UNCHANGED <<fields, callers, cancelled, open, loop, warming, streak, of>>

CallerSteps(k) ==
  \/ Calls(k)
  \/ StartRefused(k) \/ StartWithoutLog(k)
  \/ StartBegins(k) \/ StartListens(k) \/ StartFails(k)
  \/ StartServes(k) \/ StartReturns(k)
  \/ StopNothing(k) \/ StopTakes(k) \/ StopCancels(k) \/ StopCloses(k) \/ StopReturns(k)

RunSteps(r) ==
  \/ LoopChecks(r) \/ LoopAccepts(r) \/ LoopFails(r)
  \/ WarmOK(r) \/ WarmFails(r)

Next ==
  /\ alive
  /\ \/ /\ \/ \E k \in Callers : CallerSteps(k)
           \/ \E r \in Runs : RunSteps(r)
           \/ \E c \in Conns : Connects(c) \/ Refuses(c)
        /\ alive' = alive
     \/ \E c \in Conns : Registers(c) \/ Leaves(c)

Spec == Init /\ [][Next]_vars

-----------------------------------------------------------------------------
(* The goroutines are scheduled, the lock goes to somebody who waits for   *)
(* it, the first fetch ends by the timeout of the HTTP client and a warm-up*)
(* dial by its own.  Runs being bounded, the lock is free for good some day*)
(* and weak fairness is enough.  Clients and sessions owe nothing.         *)
Going(A) == alive /\ A /\ alive' = alive

Locks(k) ==
  \/ StartRefused(k) \/ StartWithoutLog(k) \/ StartBegins(k)
  \/ StopNothing(k) \/ StopTakes(k)

Proceeds(k) ==
  \/ StartListens(k) \/ StartFails(k) \/ StartServes(k) \/ StartReturns(k)
  \/ StopCancels(k) \/ StopCloses(k) \/ StopReturns(k)

Fairness ==
  /\ \A k \in Callers : WF_vars(Going(Locks(k))) /\ WF_vars(Going(Proceeds(k)))
  /\ \A r \in Runs :
       /\ WF_vars(Going(LoopChecks(r)))
       /\ WF_vars(Going(LoopAccepts(r)))
       /\ WF_vars(Going(r \notin open /\ LoopFails(r)))
       /\ WF_vars(Going(WarmOK(r) \/ WarmFails(r)))
  /\ \A c \in Conns : WF_vars(Going(Refuses(c))) /\ WF_vars(alive /\ Registers(c))

FairSpec == Spec /\ Fairness
-----------------------------------------------------------------------------
TypeOK ==
  /\ alive \in BOOLEAN /\ running \in BOOLEAN
  /\ cur \in 0..MaxRuns /\ lis \in 0..MaxRuns
  /\ pc \in [Callers -> {"idle", "start", "stop", "cancel", "close", "drain"} \cup Locked]
  /\ took \in [Callers -> [ctx : 0..MaxRuns, listener : 0..MaxRuns]]
  /\ cancelled \subseteq Runs /\ open \subseteq Runs
  /\ active \in [0..MaxRuns -> SUBSET Conns]
  /\ loop \in [Runs -> {"none", "check", "accept", "done"}]
  /\ warming \in [Runs -> 0..WarmDials]
  /\ streak \in Nat
  /\ conn \in [Conns -> {"away", "queued", "accepted", "serving", "refused", "gone"}]
  /\ of \in [Conns -> 0..MaxRuns]

(* While the server says that it runs, the current run serves: its context *)
(* lives, its listener is the one that is open, and its accept loop goes on*)
(* (server.go: Start sets running last, Stop clears it first).             *)
RunningServes ==
  running => /\ cur \notin cancelled
             /\ open = {cur}
             /\ loop[cur] \in {"check", "accept"}

(* Runs whose goroutines have been started and not been told to end.       *)
Live == {r \in Runs : loop[r] # "none" /\ r \notin cancelled}

(* Two runs never serve at once, whoever calls Start and Stop and when:    *)
(* Stop cancels the context before it frees the port (server.go:229-233).  *)
OneRunLives == \A r, q \in Live : r = q

(* When Stop has returned and nobody has started the server again, no port *)
(* is open and every context ever created is cancelled, those of the runs  *)
(* that overlapped with the Stop included (server.go:216-241).             *)
NothingLeft ==
  ~running /\ (\A k \in Callers : pc[k] \in {"idle", "start", "stop"})
     => open = {} /\ \A r \in 1..cur : r \in cancelled

(* A client is sent away only by a Stop: a connection accepted while Start *)
(* is still busy waits for the lock and is served (server.go:449-453).     *)
RefusedIsStopped ==
  \A c \in Conns :
    conn[c] = "refused" =>
      \/ of[c] \in cancelled
      \/ \E k \in Callers : pc[k] = "cancel" /\ took[k].ctx = of[c]

(* The map of active sessions names only sessions that are being served,   *)
(* though a session of a former run may delete the label of another        *)
(* (server.go:454-458).                                                    *)
NoStaleEntry == \A c \in active[cur] : conn[c] = "serving"

(* Seen from outside, a run is where the caller is that starts or stops it:*)
(* Start and Stop let runs follow each other in order, with the port held  *)
(* by one at a time, and turn clients away only for a Stop, although both  *)
(* act in several steps and Stop without the lock (server.go:96-241).      *)
Phase ==
  LET Starter(r, points) == r = cur /\ \E k \in Callers : pc[k] \in points
      Stopper(r, point) == \E k \in Callers : pc[k] = point /\ took[k].ctx = r
  IN [r \in Runs |->
        CASE r > cur                         -> "new"
          [] r = cur /\ running              -> "serving"
          [] Starter(r, {"listen"})          -> "starting"
          [] Starter(r, {"serve", "fetch"})  -> "listening"
          [] Stopper(r, "cancel")            -> "stopping"
          [] Stopper(r, "close")             -> "closing"
          [] OTHER                           -> "over"]

Promise == INSTANCE Service WITH phase <- Phase

ImplementsService == Promise!Spec

(* Start and Stop return, whatever the others do (a caller that hangs is a *)
(* tray that hangs).                                                       *)
CallsReturn == \A k \in Callers : pc[k] # "idle" ~> pc[k] = "idle" \/ ~alive

(* Once its context is cancelled a run comes to rest: no accept loop, no   *)
(* warm-up, no client that waits for an answer.                            *)
Rests(r) ==
  /\ loop[r] \in {"none", "done"} /\ warming[r] = 0
  /\ \A c \in Conns : of[c] = r => conn[c] \notin {"queued", "accepted"}

StoppedRunRests == \A r \in Runs : r \in cancelled ~> Rests(r) \/ ~alive

(* server.go:215 says of Stop that it stops the server without ending the  *)
(* process.                                                                *)
StopKeepsProcess == alive
=============================================================================
