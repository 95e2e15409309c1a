-------------------------------- MODULE Route --------------------------------
(***************************************************************************)
(* How handleClient finds a transport for its clients (proxy/server.go):   *)
(* the pool, the chain of WebSocket routes, the chain of CF workers, the   *)
(* race of both chains with the goroutine that closes the loser's late     *)
(* transport, plain TCP as the last resort, and the health of the          *)
(* WebSocket routes that every client reads and writes.                    *)
(*                                                                         *)
(* Time passes in ticks of 15 seconds.  A dial ends at once when its       *)
(* context is cancelled; a handshake does not look at the context and ends *)
(* by its own deadlines.  A goroutine that can go on does so before the    *)
(* next tick.  Which domain is tried is left out: an attempt is numbered.  *)
(***************************************************************************)
EXTENDS Integers

CONSTANTS
  Clients,    \* sessions that look for a transport
  ByName,     \* WebSocket attempts by domain name, which follow redirects
  ByIP,       \* WebSocket attempts by IP, after those
  ByCF,       \* attempts of tryCF: 3
  MaxHops,    \* connections one attempt may make following redirects: 3
  DialTicks,  \* the dial deadline, in ticks: 1
  ShakeTicks, \* write deadline and read deadline of a handshake: 2
  ReapTicks,  \* how long the loser of a race is waited for: 6
  DeadStreak, \* failures in a row before WebSocket may be called dead: 4
  DeadTicks   \* and how long ago the last success must be: 8

ASSUME RouteAssumption ==
  /\ {ByName, ByIP, ByCF, DialTicks, ShakeTicks, ReapTicks, DeadTicks} \subseteq Nat
  /\ ByName + ByIP > 0 /\ ByCF > 0
  /\ MaxHops \in Nat \ {0} /\ DeadStreak \in Nat \ {0}
  /\ ReapTicks > ShakeTicks

VARIABLES
  cfFirst,    \* s.cfg.CFFirst
  stage,      \* where handleClient is
  uses,       \* the transport it took: "none", "pool", "ws", "cf", "direct"
  at,         \* where each chain is, and then where its transport is
  left,       \* attempts each chain has left, the running one included
  hops,       \* redirects followed in the running attempt
  clock,      \* ticks before the deadline of the running dial or handshake
  failed,     \* attempts of a chain that failed by the route's own fault
  marked,     \* attempts for which the route was blamed
  reaper,     \* the goroutine that waits for the loser: "none", "waits", "ended"
  timer,      \* ticks before it stops waiting
  streak,     \* s.wsFailStreak, counted up to DeadStreak
  since,      \* ticks since s.wsLastOK, counted up to DeadTicks + 1
  stopped     \* Server.Stop cancelled every client's context

chainVars == <<at, left, hops, clock, failed, marked>>
health == <<streak, since>>
reaperVars == <<reaper, timer>>
vars == <<cfFirst, stage, uses, chainVars, reaperVars, health, stopped>>

Chains == {"ws", "cf"}

Attempts(r) == IF r = "ws" THEN ByName + ByIP ELSE ByCF

(* "gave": the chain returned nil, "sent": a transport; nobody has received *)
(* it yet.  "over", "taken", "closed": received, and what became of it.    *)
Phases == {"idle", "dial", "shake", "failed", "gave", "sent", "over", "taken", "closed"}

(* The context the chains of c run under is cancelled: by Stop, at the end *)
(* of the race, at the end of the handler.                                 *)
Cancelled(c) == stopped \/ stage[c] \notin {"race", "cf", "ws"}

Dead == streak >= DeadStreak /\ since > DeadTicks

wsOK == streak' = 0 /\ since' = 0

wsFail ==
  /\ streak' = IF streak < DeadStreak THEN streak + 1 ELSE streak
  /\ UNCHANGED since

Init ==
  /\ cfFirst \in BOOLEAN
  /\ stage = [c \in Clients |-> "ask"]
  /\ uses = [c \in Clients |-> "none"]
  /\ at = [c \in Clients |-> [r \in Chains |-> "idle"]]
  /\ left = [c \in Clients |-> [r \in Chains |-> Attempts(r)]]
  /\ hops = [c \in Clients |-> [r \in Chains |-> 0]]
  /\ clock = [c \in Clients |-> [r \in Chains |-> 0]]
  /\ failed = [c \in Clients |-> [r \in Chains |-> 0]]
  /\ marked = [c \in Clients |-> [r \in Chains |-> 0]]
  /\ reaper = [c \in Clients |-> "none"]
  /\ timer = [c \in Clients |-> 0]
  /\ streak = 0
  /\ since = DeadTicks + 1
  /\ stopped = FALSE

-----------------------------------------------------------------------------
(* One chain.  An attempt of tryCF may find every worker blacklisted.      *)
Begins(r, n) ==
  IF n = 0 THEN {"gave"} ELSE IF r = "cf" THEN {"dial", "gave"} ELSE {"dial"}

Move(c, r, phase, ticks) ==
  /\ at' = [at EXCEPT ![c][r] = phase]
  /\ clock' = [clock EXCEPT ![c][r] = ticks]

Others == <<cfFirst, stage, uses, reaperVars, stopped>>

DialOK(c, r) ==
  /\ at[c][r] = "dial"
  /\ ~Cancelled(c)
  /\ Move(c, r, "shake", ShakeTicks)
  /\ UNCHANGED <<left, hops, failed, marked, health, Others>>

DialFails(c, r) ==
  /\ at[c][r] = "dial"
  /\ Move(c, r, "failed", 0)
  /\ failed' = [failed EXCEPT ![c][r] = @ + 1]
  /\ UNCHANGED <<left, hops, marked, health, Others>>

DialAborted(c, r) ==
  /\ at[c][r] = "dial"
  /\ Cancelled(c)
  /\ Move(c, r, "failed", 0)
  /\ UNCHANGED <<left, hops, failed, marked, health, Others>>

ShakeOK(c, r) ==
  /\ at[c][r] = "shake"
  /\ Move(c, r, "sent", 0)
  /\ IF r = "ws" THEN wsOK ELSE UNCHANGED health
  /\ UNCHANGED <<left, hops, failed, marked, Others>>

ShakeFails(c, r) ==
  /\ at[c][r] = "shake"
  /\ Move(c, r, "failed", 0)
  /\ failed' = [failed EXCEPT ![c][r] = @ + 1]
  /\ UNCHANGED <<left, hops, marked, health, Others>>

(* ConnectDomainWithRedirect dials again under the same context.           *)
Redirected(c) ==
  /\ at[c]["ws"] = "shake"
  /\ left[c]["ws"] > ByIP
  /\ hops[c]["ws"] + 1 < MaxHops
  /\ hops' = [hops EXCEPT ![c]["ws"] = @ + 1]
  /\ Move(c, "ws", "dial", DialTicks)
  /\ UNCHANGED <<left, failed, marked, health, Others>>

(* Mutant: the loser of a race blames its route.                           *)
BlamesAnyway(c, r) ==
  /\ at[c][r] = "failed"
  /\ marked' = [marked EXCEPT ![c][r] = @ + 1]
  /\ Move(c, r, "gave", 0)
  /\ IF r = "ws" THEN wsFail ELSE UNCHANGED health
  /\ UNCHANGED <<left, hops, failed, Others>>

(* canceled: the attempt was cut short, and the chain ends without blame.  *)
GivesUp(c, r) ==
  /\ at[c][r] = "failed"
  /\ Cancelled(c)
  /\ Move(c, r, "gave", 0)
  /\ UNCHANGED <<left, hops, failed, marked, health, Others>>

(* Mutant: one attempt too many.                                           *)
TriesOneMore(c, r) ==
  /\ at[c][r] = "failed"
  /\ ~Cancelled(c)
  /\ marked' = [marked EXCEPT ![c][r] = @ + 1]
  /\ left' = [left EXCEPT ![c][r] = @ - 1]
  /\ hops' = [hops EXCEPT ![c][r] = 0]
  /\ \E phase \in Begins(r, left[c][r]) : Move(c, r, phase, DialTicks)
  /\ IF r = "ws" THEN wsFail ELSE UNCHANGED health
  /\ UNCHANGED <<failed, Others>>

(* wsFail and MarkFail, or MarkBad, and the next attempt.                  *)
TriesNext(c, r) ==
  /\ at[c][r] = "failed"
  /\ ~Cancelled(c)
  /\ marked' = [marked EXCEPT ![c][r] = @ + 1]
  /\ left' = [left EXCEPT ![c][r] = @ - 1]
  /\ hops' = [hops EXCEPT ![c][r] = 0]
  /\ \E phase \in Begins(r, left[c][r] - 1) :
       Move(c, r, phase, IF phase = "dial" THEN DialTicks ELSE 0)
  /\ IF r = "ws" THEN wsFail ELSE UNCHANGED health
  /\ UNCHANGED <<failed, Others>>

Chain(c, r) ==
  \/ DialOK(c, r) \/ DialFails(c, r) \/ DialAborted(c, r)
  \/ ShakeOK(c, r) \/ ShakeFails(c, r)
  \/ GivesUp(c, r) \/ TriesNext(c, r)
  \/ r = "ws" /\ Redirected(c)

-----------------------------------------------------------------------------
(* handleClient.                                                           *)
PoolHit(c) ==
  /\ stage[c] = "ask"
  /\ stage' = [stage EXCEPT ![c] = "serve"]
  /\ uses' = [uses EXCEPT ![c] = "pool"]
  /\ wsOK
  /\ UNCHANGED <<cfFirst, chainVars, reaperVars, stopped>>

(* The chains in started begin their first attempt.                        *)
Begin(c, started) ==
  /\ at' \in {[at EXCEPT ![c] = p] : p \in [Chains -> {"idle", "dial", "gave"}]}
  /\ \A r \in Chains :
       IF r \in started THEN at'[c][r] \in Begins(r, left[c][r])
                        ELSE at'[c][r] = at[c][r]
  /\ clock' = [clock EXCEPT ![c] =
                 [r \in Chains |-> IF at'[c][r] = "dial" THEN DialTicks ELSE 0]]
  /\ UNCHANGED <<left, hops, failed, marked>>

PoolMiss(c) ==
  /\ stage[c] = "ask"
  /\ \/ /\ cfFirst \/ Dead
        /\ stage' = [stage EXCEPT ![c] = "cf"]
        /\ Begin(c, {"cf"})
     \/ /\ ~(cfFirst \/ Dead)
        /\ stage' = [stage EXCEPT ![c] = "race"]
        /\ Begin(c, Chains)
     \/ /\ ~(cfFirst \/ Dead)
        /\ stage' = [stage EXCEPT ![c] = "ws"]  \* no CF domain is configured
        /\ Begin(c, {"ws"})
  /\ UNCHANGED <<cfFirst, uses, reaperVars, health, stopped>>

(* The handler runs one chain after the other.                             *)
ChainReturns(c, r) ==
  /\ stage[c] = r
  /\ \/ /\ at[c][r] = "sent"
        /\ stage' = [stage EXCEPT ![c] = "serve"]
        /\ uses' = [uses EXCEPT ![c] = r]
        /\ Move(c, r, "taken", 0)
     \/ /\ at[c][r] = "gave" /\ r = "ws"
        /\ stage' = [stage EXCEPT ![c] = "direct"]
        /\ Move(c, r, "over", 0)
        /\ UNCHANGED uses
     \/ /\ at[c][r] = "gave" /\ r = "cf"
        /\ stage' = [stage EXCEPT ![c] = "ws"]
        /\ at' = [at EXCEPT ![c] = [ws |-> "dial", cf |-> "over"]]
        /\ clock' = [clock EXCEPT ![c]["ws"] = DialTicks]
        /\ UNCHANGED uses
  /\ UNCHANGED <<cfFirst, left, hops, failed, marked, reaperVars, health, stopped>>

(* Mutant: the timer lasts as long as one dial.                            *)
StartReaperShort(c) ==
  /\ reaper' = [reaper EXCEPT ![c] = "waits"]
  /\ timer' = [timer EXCEPT ![c] = DialTicks]

StartReaper(c) ==
  /\ reaper' = [reaper EXCEPT ![c] = "waits"]
  /\ timer' = [timer EXCEPT ![c] = ReapTicks]

(* The first transport wins the race and cancels the other chain.          *)
RaceWon(c, r) ==
  /\ stage[c] = "race"
  /\ at[c][r] = "sent"
  /\ Move(c, r, "taken", 0)
  /\ uses' = [uses EXCEPT ![c] = r]
  /\ stage' = [stage EXCEPT ![c] = "serve"]
  /\ StartReaper(c)
  /\ UNCHANGED <<cfFirst, left, hops, failed, marked, health, stopped>>

(* Mutant: one nil ends the race.                                          *)
FirstNilLoses(c, r) ==
  /\ stage[c] = "race"
  /\ at[c][r] = "gave"
  /\ Move(c, r, "over", 0)
  /\ stage' = [stage EXCEPT ![c] = "direct"]
  /\ StartReaper(c)
  /\ UNCHANGED <<cfFirst, uses, left, hops, failed, marked, health, stopped>>

(* Mutant: the loop waits for a third result.                              *)
WaitsForThird(c, r) ==
  /\ stage[c] = "race"
  /\ at[c][r] = "gave"
  /\ Move(c, r, "over", 0)
  /\ UNCHANGED <<cfFirst, stage, uses, left, hops, failed, marked, reaperVars, health, stopped>>

(* One nil makes the race wait for the other result, the second ends it.   *)
RaceNil(c, r) ==
  /\ stage[c] = "race"
  /\ at[c][r] = "gave"
  /\ Move(c, r, "over", 0)
  /\ \/ /\ \A q \in Chains \ {r} : at[c][q] = "over"
        /\ stage' = [stage EXCEPT ![c] = "direct"]
        /\ StartReaper(c)
     \/ /\ \E q \in Chains \ {r} : at[c][q] # "over"
        /\ UNCHANGED <<stage, reaperVars>>
  /\ UNCHANGED <<cfFirst, uses, left, hops, failed, marked, health, stopped>>

Direct(c) ==
  /\ stage[c] = "direct"
  /\ \/ /\ ~stopped
        /\ stage' = [stage EXCEPT ![c] = "serve"]
        /\ uses' = [uses EXCEPT ![c] = "direct"]
     \/ stage' = [stage EXCEPT ![c] = "ended"] /\ UNCHANGED uses
  /\ UNCHANGED <<cfFirst, chainVars, reaperVars, health, stopped>>

(* relay_init cannot be sent, or the bridge has ended: transport.Close.    *)
SessionEnds(c) ==
  /\ stage[c] = "serve"
  /\ stage' = [stage EXCEPT ![c] = "ended"]
  /\ at' = [at EXCEPT ![c] =
              [r \in Chains |-> IF r = uses[c] THEN "closed" ELSE at[c][r]]]
  /\ UNCHANGED <<cfFirst, uses, left, hops, clock, failed, marked, reaperVars, health, stopped>>

Handler(c) ==
  \/ PoolHit(c) \/ PoolMiss(c) \/ Direct(c)
  \/ \E r \in Chains : ChainReturns(c, r) \/ RaceWon(c, r) \/ RaceNil(c, r)

-----------------------------------------------------------------------------
(* The goroutine raceWSvsCF leaves behind takes one more result.           *)
(* Mutant: the transport received last is not closed.                      *)
ReapLeaks(c, r) ==
  /\ reaper[c] = "waits"
  /\ at[c][r] \in {"sent", "gave"}
  /\ Move(c, r, IF at[c][r] = "sent" THEN "taken" ELSE "over", 0)
  /\ reaper' = [reaper EXCEPT ![c] = "ended"]
  /\ UNCHANGED <<cfFirst, stage, uses, left, hops, failed, marked, timer, health, stopped>>

Reap(c, r) ==
  /\ reaper[c] = "waits"
  /\ at[c][r] \in {"sent", "gave"}
  /\ Move(c, r, IF at[c][r] = "sent" THEN "closed" ELSE "over", 0)
  /\ reaper' = [reaper EXCEPT ![c] = "ended"]
  /\ UNCHANGED <<cfFirst, stage, uses, left, hops, failed, marked, timer, health, stopped>>

ReaperTimesOut(c) ==
  /\ reaper[c] = "waits"
  /\ timer[c] = 0
  /\ reaper' = [reaper EXCEPT ![c] = "ended"]
  /\ UNCHANGED <<cfFirst, stage, uses, chainVars, timer, health, stopped>>

Reaper(c) == ReaperTimesOut(c) \/ \E r \in Chains : Reap(c, r)

Stop ==
  /\ ~stopped
  /\ stopped' = TRUE
  /\ UNCHANGED <<cfFirst, stage, uses, chainVars, reaperVars, health>>

-----------------------------------------------------------------------------
(* Somebody can go on without the network, or a deadline is due.           *)
Receivable(c, r) == stage[c] \in {"race", r} \/ reaper[c] = "waits"

Urgent(c, r) ==
  \/ at[c][r] = "failed"
  \/ at[c][r] = "dial" /\ (Cancelled(c) \/ clock[c][r] = 0)
  \/ at[c][r] = "shake" /\ clock[c][r] = 0
  \/ at[c][r] \in {"sent", "gave"} /\ Receivable(c, r)

Down(n) == IF n > 0 THEN n - 1 ELSE 0

Tick ==
  /\ \A c \in Clients : ~(reaper[c] = "waits" /\ timer[c] = 0)
  /\ \A c \in Clients, r \in Chains : ~Urgent(c, r)
  /\ clock' = [c \in Clients |-> [r \in Chains |-> Down(clock[c][r])]]
  /\ timer' = [c \in Clients |-> IF reaper[c] = "waits" THEN Down(timer[c]) ELSE timer[c]]
  /\ since' = IF since <= DeadTicks THEN since + 1 ELSE since
  /\ UNCHANGED <<cfFirst, stage, uses, at, left, hops, failed, marked, reaper, streak, stopped>>

Next ==
  \/ \E c \in Clients :
       \/ Handler(c) \/ SessionEnds(c) \/ Reaper(c)
       \/ \E r \in Chains : Chain(c, r)
  \/ Stop
  \/ Tick

Spec == Init /\ [][Next]_vars

(* Goroutines run, dials and handshakes have deadlines, time passes; a     *)
(* session may last for ever and nobody has to stop the server.            *)
Fairness ==
  /\ WF_vars(Tick)
  /\ \A c \in Clients :
       /\ WF_vars(Handler(c)) /\ WF_vars(Reaper(c))
       /\ \A r \in Chains : WF_vars(Chain(c, r))

FairSpec == Spec /\ Fairness

-----------------------------------------------------------------------------
TypeOK ==
  /\ cfFirst \in BOOLEAN /\ stopped \in BOOLEAN
  /\ stage \in [Clients -> {"ask", "race", "cf", "ws", "direct", "serve", "ended"}]
  /\ uses \in [Clients -> {"none", "pool", "direct"} \cup Chains]
  /\ at \in [Clients -> [Chains -> Phases]]
  /\ left \in [Clients -> [Chains -> Nat]]
  /\ hops \in [Clients -> [Chains -> 0..(MaxHops - 1)]]
  /\ clock \in [Clients -> [Chains -> Nat]]
  /\ failed \in [Clients -> [Chains -> Nat]]
  /\ marked \in [Clients -> [Chains -> Nat]]
  /\ reaper \in [Clients -> {"none", "waits", "ended"}]
  /\ timer \in [Clients -> 0..ReapTicks]
  /\ streak \in 0..DeadStreak
  /\ since \in 0..(DeadTicks + 1)

(* A transport that a chain has connected always has somebody who will     *)
(* receive it: the handler, or the goroutine that waits for the loser and  *)
(* must not stop waiting while the loser's handshake can still succeed     *)
(* (server.go:376-389).                                                    *)
NoOrphan ==
  \A c \in Clients, r \in Chains :
    at[c][r] \in {"dial", "shake", "failed", "sent"} => Receivable(c, r)

(* "гонка отменена — worker НЕ черним": a route is blamed only for what    *)
(* failed by itself, and while nobody cancels every such failure is        *)
(* counted (server.go:284-289, 410-415).                                   *)
BlameIsFair ==
  \A c \in Clients, r \in Chains :
    /\ marked[c][r] <= failed[c][r]
    /\ ~Cancelled(c) /\ at[c][r] # "failed" => marked[c][r] = failed[c][r]

(* Plain TCP is tried only when no WebSocket or CF transport exists or can *)
(* still arrive, unless the server is stopping (server.go:502-514).        *)
LastResort ==
  \A c \in Clients :
    stage[c] = "direct" =>
      /\ \A r \in Chains : at[c][r] \in {"idle", "over"}
      /\ ~stopped => at[c]["ws"] = "over" /\ left[c]["ws"] = 0

(* Every client gets a transport or is let go (server.go:486-519).         *)
Answered == \A c \in Clients : stage[c] = "ask" ~> stage[c] \in {"serve", "ended"}

(* The loser's transport is closed, however late it arrives.               *)
LosersClosed ==
  \A c \in Clients, r \in Chains :
    (at[c][r] = "sent" /\ uses[c] \notin {"none", r}) ~> at[c][r] = "closed"
=============================================================================
