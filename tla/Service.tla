------------------------------ MODULE Service ------------------------------
(***************************************************************************)
(* What Start and Stop promise to whoever calls them, without the lock,    *)
(* the goroutines and the fields of the server.  A run begins when no      *)
(* other begins or serves, holds the port alone, serves, and ends in the   *)
(* order: no more clients, context cancelled, port free.  A client that    *)
(* reached the port is served by whatever run serves when its turn comes,  *)
(* and is sent away only when the run it reached has been told to stop.    *)
(*                                                                         *)
(* Module Server is shown to implement this specification.                 *)
(***************************************************************************)
EXTENDS Naturals

CONSTANTS Runs, Conns

VARIABLES
  phase,   \* where each run is
  conn,    \* where each client connection is
  of       \* the run whose port it reached

service == <<phase, conn, of>>

(* The port is bound from Listen to the Close of the listener.             *)
HoldsPort(r) == phase[r] \in {"listening", "serving", "stopping", "closing"}

Begun(r) == phase[r] \in {"starting", "listening", "serving"}

Told(r) == phase[r] \in {"stopping", "closing", "over"}

Init ==
  /\ phase = [r \in Runs |-> "new"]
  /\ conn = [c \in Conns |-> "away"]
  /\ of = [c \in Conns |-> 0]

Moves(r, from, to) == phase[r] = from /\ phase' = [phase EXCEPT ![r] = to]

Begins(r) ==
  /\ \A q \in Runs : ~Begun(q) /\ (phase[q] = "new" <=> q >= r)
  /\ Moves(r, "new", "starting")

Listens(r) ==
  /\ \A q \in Runs : ~HoldsPort(q)
  /\ Moves(r, "starting", "listening")

(* Over: the port is free, and who waited in its queue is gone.            *)
Frees(r) ==
  /\ Moves(r, "closing", "over")
  /\ conn' = [c \in Conns |-> IF conn[c] = "queued" /\ of[c] = r THEN "gone" ELSE conn[c]]
  /\ UNCHANGED of

RunMoves(r) ==
  /\ \/ Begins(r) \/ Listens(r)
     \/ Moves(r, "starting", "over")
     \/ Moves(r, "listening", "serving")
     \/ Moves(r, "serving", "stopping")
     \/ Moves(r, "stopping", "closing")
  /\ UNCHANGED <<conn, of>>

Turns(c, from, to) == conn[c] = from /\ conn' = [conn EXCEPT ![c] = to]

Arrives(c, r) ==
  /\ HoldsPort(r)
  /\ Turns(c, "away", "queued")
  /\ of' = [of EXCEPT ![c] = r]

ClientMoves(c) ==
  /\ \/ Turns(c, "queued", "accepted") /\ HoldsPort(of[c])
     \/ Turns(c, "accepted", "serving") /\ \E r \in Runs : phase[r] = "serving"
     \/ Turns(c, "accepted", "refused") /\ Told(of[c])
     \/ Turns(c, "serving", "gone")
  /\ UNCHANGED of

Next ==
  \/ \E r \in Runs : RunMoves(r) \/ Frees(r)
  \/ \E c \in Conns :
       /\ UNCHANGED phase
       /\ ClientMoves(c) \/ \E r \in Runs : Arrives(c, r)

Spec == Init /\ [][Next]_service
=============================================================================
