------------------------------- MODULE CFProxy -------------------------------
(***************************************************************************)
(* The CF domains (cfproxy/cfproxy.go) and the clients that try them       *)
(* (Server.tryCF, proxy/server.go): round robin over the configured and    *)
(* the fetched domains, a ban of ten minutes for a domain that failed, the *)
(* periodic fetch of the list, and calls of many clients in between.  A    *)
(* domain may answer one client and fail the next: what it does is decided *)
(* anew at every attempt.                                                  *)
(*                                                                         *)
(* Time passes in ticks of 30 seconds, the deadlines of one attempt.       *)
(* m.rr is kept modulo Turns, a multiple of every length the list can have:*)
(* only its remainder by the length is used.  Normalisation of names is    *)
(* left out: a domain is a value.                                          *)
(***************************************************************************)
EXTENDS Naturals, Sequences, FiniteSets, Functions

CONSTANTS
  Clients,
  Domains,
  User,      \* m.user, the list of the configuration
  Lists,     \* lists the update URL may return
  Attempts,  \* domains one tryCF tries: 3
  BanTicks,  \* how long MarkBad lasts
  None,      \* no domain
  Turns      \* the modulus m.rr is kept by (bound)

ASSUME CFAssumption ==
  /\ IsFiniteSet(Domains) /\ None \notin Domains
  /\ User \in Seq(Domains) /\ Lists \subseteq Seq(Domains)
  /\ Attempts \in Nat \ {0} /\ Turns \in Nat \ {0}
  /\ BanTicks \in Nat /\ BanTicks > Attempts

(* The bound on m.rr changes no remainder, whatever length the list has.   *)
ASSUME TurnsAssumption == \A n \in 1..Cardinality(Domains) : Turns % n = 0

VARIABLES
  fetched,   \* m.fetched
  ban,       \* ticks before the ban of a domain ends, 0 without one
  rr,        \* m.rr
  trying,    \* the domain each client is connecting to, or None
  left,      \* attempts each client has left, the running one included
  due,       \* ticks before the running attempt meets its deadline
  off,       \* clients whose call of tryCF is called off: ctx.Err() # nil
  spent,     \* domains that failed in the call, and have not answered anybody
             \* since (history)
  cleared,   \* clients for whom a domain that failed in the call has answered
             \* another one since (history)
  passed     \* times Next passed over a domain it could take (history)

calls == <<trying, left, due, off, spent, cleared>>
vars == <<fetched, ban, rr, calls, passed>>

(* The loops of m.all(): the list that is built from the first n names.    *)
Merged(names) ==
  LET out[n \in 0..Len(names)] ==
        IF n = 0 THEN <<>>
        ELSE IF names[n] \in Range(out[n - 1]) THEN out[n - 1]
        ELSE Append(out[n - 1], names[n])
  IN out

(* Every domain once, the configured ones first.                           *)
Named == User \o fetched
All == Merged(Named)[Len(Named)]

Listed == Range(All)

Init ==
  /\ fetched = <<>>
  /\ ban = [d \in Domains |-> 0]
  /\ rr = 0
  /\ trying = [c \in Clients |-> None]
  /\ left = [c \in Clients |-> 0]
  /\ due = [c \in Clients |-> 0]
  /\ off = {}
  /\ spent = [c \in Clients |-> {}]
  /\ cleared = {}
  /\ passed = [d \in Domains |-> 0]

-----------------------------------------------------------------------------
(* The i-th domain that m.Next looks at.                                   *)
Place(i) == All[((rr + i) % Len(All)) + 1]

(* Mutant: the loop of Next stops one domain too early.                    *)
FoundShort(n) ==
  /\ n \in 1..(Len(All) - 1)
  /\ ban[Place(n)] = 0
  /\ \A i \in 1..(n - 1) : ban[Place(i)] > 0

(* It returns the n-th it looks at, the first without a ban.               *)
Found(n) ==
  /\ n \in 1..Len(All)
  /\ ban[Place(n)] = 0
  /\ \A i \in 1..(n - 1) : ban[Place(i)] > 0

(* Mutant: the turn is taken from a copy of m.rr and not stored.           *)
TurnsNowhere(n) == rr' = rr

TurnsBy(n) == rr' = (rr + n) % Turns

-----------------------------------------------------------------------------
(* tryCF begins a call with l attempts.                                    *)
Begins(c, l) ==
  /\ left[c] = 0
  /\ left' = [left EXCEPT ![c] = l]
  /\ off' = off \ {c}
  /\ spent' = [spent EXCEPT ![c] = {}]
  /\ cleared' = cleared \ {c}
  /\ UNCHANGED <<fetched, ban, rr, trying, due, passed>>

(* Mutant: the loop bound is attempt <= 3.                                 *)
CallsOnceMore(c) == Begins(c, Attempts + 1)

Calls(c) == Begins(c, Attempts)

(* The race is decided, or the server stops: the context is cancelled.     *)
CallOff(c) ==
  /\ left[c] > 0
  /\ off' = off \cup {c}
  /\ UNCHANGED <<fetched, ban, rr, trying, left, due, spent, cleared, passed>>

Takes(n) ==
  /\ Found(n)
  /\ TurnsBy(n)
  /\ passed' = [d \in Domains |->
                  IF d \in Listed \ {Place(n)} /\ ban[d] = 0 THEN passed[d] + 1 ELSE 0]

Picks(c) ==
  /\ left[c] > 0 /\ trying[c] = None /\ c \notin off
  /\ \E n \in 1..Len(All) :
       Takes(n) /\ trying' = [trying EXCEPT ![c] = Place(n)]
  /\ due' = [due EXCEPT ![c] = 1]
  /\ UNCHANGED <<fetched, ban, left, off, spent, cleared>>

(* Next does not look at the context, but the dial does: it fails at once. *)
PicksInVain(c) ==
  /\ left[c] > 0 /\ trying[c] = None /\ c \in off
  /\ \E n \in 1..Len(All) : Takes(n)
  /\ left' = [left EXCEPT ![c] = 0]
  /\ UNCHANGED <<fetched, ban, trying, due, off, spent, cleared>>

(* Next returns "": every domain is banned, or there is none.              *)
FindsNone(c) ==
  /\ left[c] > 0 /\ trying[c] = None
  /\ ~\E n \in 1..Len(All) : Found(n)
  /\ TurnsBy(Len(All))
  /\ left' = [left EXCEPT ![c] = 0]
  /\ UNCHANGED <<fetched, ban, trying, due, off, spent, cleared, passed>>

(* The attempt of c is over; l attempts are left.                          *)
Ends(c, l) ==
  /\ trying' = [trying EXCEPT ![c] = None]
  /\ left' = [left EXCEPT ![c] = l]
  /\ due' = [due EXCEPT ![c] = 0]

(* ConnectDomain succeeds, a dial that was called off too late included,   *)
(* and MarkGood lifts a ban that other clients have put on the domain.     *)
Connects(c) ==
  /\ trying[c] # None
  /\ ban' = [ban EXCEPT ![trying[c]] = 0]
  /\ spent' = [b \in Clients |-> spent[b] \ {trying[c]}]
  /\ cleared' = cleared \cup {b \in Clients : trying[c] \in spent[b]}
  /\ Ends(c, 0)
  /\ UNCHANGED <<fetched, rr, off, passed>>

(* It fails, and MarkBad bans the domain.                                  *)
Fails(c) ==
  /\ trying[c] # None /\ c \notin off
  /\ ban' = [ban EXCEPT ![trying[c]] = BanTicks]
  /\ spent' = [spent EXCEPT ![c] = @ \cup {trying[c]}]
  /\ Ends(c, left[c] - 1)
  /\ UNCHANGED <<fetched, rr, off, cleared, passed>>

(* It fails, but canceled() holds: nobody is to blame.                     *)
Cancelled(c) ==
  /\ trying[c] # None /\ c \in off
  /\ Ends(c, 0)
  /\ UNCHANGED <<fetched, ban, rr, off, spent, cleared, passed>>

(* Mutant: a fetch starts with a clean slate.                              *)
FetchUnbans ==
  /\ fetched' \in Lists
  /\ ban' = [d \in Domains |-> 0]
  /\ passed' = [d \in Domains |-> 0]
  /\ UNCHANGED <<rr, calls>>

(* The update URL answers 200: its list replaces the last one, an empty    *)
(* list included.  Bans and the place of the round robin stay.             *)
Fetch ==
  /\ fetched' \in Lists
  /\ passed' = [d \in Domains |-> 0]
  /\ UNCHANGED <<ban, rr, calls>>

(* An attempt is over before its deadline, and tryCF does not dawdle.      *)
Tick ==
  /\ \A c \in Clients : left[c] > 0 => due[c] > 0
  /\ due' = [c \in Clients |-> 0]
  /\ ban' = [d \in Domains |-> IF ban[d] > 0 THEN ban[d] - 1 ELSE 0]
  /\ UNCHANGED <<fetched, rr, trying, left, off, spent, cleared, passed>>

Next ==
  \/ \E c \in Clients :
       \/ Calls(c) \/ CallOff(c)
       \/ Picks(c) \/ PicksInVain(c) \/ FindsNone(c)
       \/ Connects(c) \/ Fails(c) \/ Cancelled(c)
  \/ Fetch
  \/ Tick

Spec == Init /\ [][Next]_vars

-----------------------------------------------------------------------------
TypeOK ==
  /\ fetched \in Lists \cup {<<>>}
  /\ ban \in [Domains -> 0..BanTicks]
  /\ rr \in 0..(Turns - 1)
  /\ trying \in [Clients -> Domains \cup {None}]
  /\ left \in [Clients -> 0..Attempts]
  /\ due \in [Clients -> 0..1]
  /\ off \in SUBSET Clients
  /\ spent \in [Clients -> SUBSET Domains]
  /\ cleared \in SUBSET Clients
  /\ passed \in [Domains -> Nat]

(* Within one tryCF no domain is tried again after it failed, unless it    *)
(* has answered another client since: neither the time the other attempts  *)
(* take nor a fetch of the list brings it back (server.go:394-417,         *)
(* cfproxy.go:171-177).                                                    *)
NoSecondTry == \A c \in Clients : trying[c] \notin spent[c]

(* tryCF returns nil, uncancelled, only when as many different domains as  *)
(* it has attempts have failed in this call (where one that answered       *)
(* another client in between may have failed again), or when every domain  *)
(* of the list is banned at that moment: Next reaches all of them from any *)
(* place (cfproxy.go:158-168).                                             *)
ReturnsNil(c) ==
  /\ c \notin off
  /\ left[c] > 0 /\ left'[c] = 0
  /\ trying[c] = None \/ spent'[c] # spent[c]

Deserved(c) ==
  \/ Cardinality(spent'[c]) = Attempts
  \/ c \in cleared'
  \/ \A d \in Listed : ban[d] > 0

NilIsDeserved == [][\A c \in Clients : ReturnsNil(c) => Deserved(c)]_vars

(* The load is spread: as long as the list stays, Next does not pass over  *)
(* a domain without a ban as often as there are domains, whatever bans come*)
(* and go and however long the lists were before.                          *)
NotPassedOver == \A d \in Listed : passed[d] < Len(All)
=============================================================================
