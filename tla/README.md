# A TLA+ model of tgws

tgws is a local MTProto proxy for Telegram. It accepts obfuscated client
connections (plain, or wrapped in fake TLS) and carries each of them to a Telegram
data centre (DC): over a WebSocket, over a WebSocket behind a Cloudflare worker, or
as a last resort over plain TCP. This directory models the parts of the program
whose correctness depends on the order of steps of several goroutines, on failures,
deadlines and crashes, or on arithmetic over streams. Paths below are relative to
`src/internal/` unless they start with `src/`.

## Inventory

| component | code | state it keeps | operations | who it meets | hard behaviour | what makes it correct |
|---|---|---|---|---|---|---|
| server life cycle | `proxy/server.go` (`Start`, `Stop`, `acceptLoop`, `warmupPool`, ends of `handleClient`), `src/cmd/main.go` | `running`, context, listener, pool and map of sessions of the current run | Start, Stop, accept, register, leave | main, signal handler and tray call it; it starts handlers, warm-ups, the pool's rotation | `Stop` acts after unlocking; `Start` holds the lock for up to 15 s; handlers of one run outlive it | one run serves at a time, a finished Stop leaves nothing, calls return |
| front | `proxy/handler.go` (`ReadClientInit`), `fake_tls/proxy.go`, deferred Close of `handleClient` | none of its own | choice of mode, masking | client, masking site, server | the masking goroutine uses a connection its caller closes; a client may fall silent anywhere | every connection ends, with the goroutines it started, unless a peer holds it |
| fake TLS stream | `fake_tls/stream.go` | `readBuf` | ReadExactly, ReadN | front, bridge | the handshake may end inside a record; records that are not data | the payload bytes, all and in order, the ciphers in step |
| handshake, ciphers | `proxy/handler.go` (`HandleHandshake`), `crypto/` | four stream ciphers | TryHandshake, GenerateRelayInit, BuildCryptoContext | front, route selection | signed 16-bit index with an offset for the test DCs | number and kind survive the way to the DC, one pool key means one target |
| route selection | `proxy/server.go` (`handleClient`, `raceWSvsCF`, `tryWSChain`, `tryCF`), `websocket/client.go` (`ConnectDomain`) | result channels, contexts, attempts, `wsFailStreak`, `wsLastOK` | pool hit, race, chains, reaper, direct | pool, balancer, CF manager | the loser of a race connects late; cancelled dials look like broken routes; a handshake ignores the context | every transport is received and closed, blame is fair, plain TCP comes last, every client is answered |
| connection pool | `pool/pool.go`, `proxy/server.go` (`warmupPool`) | idle buckets with the age of each connection | Get, Put, refill, rotate, CloseAll | handlers, warm-ups, rotation ticker, Stop | dials happen unlocked between two critical sections; several refills of one key | bounded buckets, one owner per connection, fresh ones only, nothing leaks |
| session bridge | `bridge/bridge.go`, `direct.go`, `transport.go`, `websocket/client.go` (`Send`, `Recv`, `Close`) | two pumps, `closed`, deadlines, bytes on their way | tcpToWS, wsToTCP, Send, Recv, Close | client socket, transport, Stop's cancel | blocking reads between two looks at the context; control frames; half-open ends | no data lost in either direction, sessions end |
| message splitter | `bridge/splitter.go` | the same bytes encrypted and decrypted, `disabled` | Split, Flush | tcpToWS | packets cut by TCP anywhere, lengths chosen by the client | one packet per message, lossless, at once, bounded memory |
| CF domain manager | `cfproxy/cfproxy.go`, `proxy/server.go` (`tryCF`) | fetched list, bans, round-robin place | Next, MarkBad, MarkGood, fetch | all handlers, the update goroutine | list and bans change between the calls of one client | fair turns, no second try of a domain that failed the call, no needless "" |
| log writer | `logger/logger.go` | file, size; on disk the numbered files | Write, rotate, Close | every goroutine, main | every call of a rotation may fail, or the process die after it; `log_max_files` changes between runs | the oldest lines go first |
| configuration, main | `config/config.go`, `src/cmd/main.go` | the configuration; on disk `config.ini` | load, create, save, validate | user, server, log writer | a save is not atomic; a secret must survive restarts | what a run used comes back in the next |
| domain balancer | `balancer/balancer.go` | failures and last failure per worker | Order, MarkOK, MarkFail | `tryWSChain` | penalty decays on read only | only a preference: every chain tries every domain |
| statistics, tray icon, console | `stats/stats.go`, `gui/` | atomic counters; none | | | | |

How they interact. `main` loads the configuration, sets up the log and calls
`Server.Start` (`Process` is this frame, `Server` what happens after it). `Server.Start` makes a run
(context, listener, pool, map of sessions) and the accept loop starts one `handleClient` per
connection. That handler registers itself (module `Server`), reads the client's
opening and its handshake (`Front`, `Handshake`), asks the pool (`Pool`) and otherwise
races the WebSocket chain against the CF chain (`Route`, with the domains of `CFProxy`),
and then runs the bridge (`Bridge`), which cuts the upward stream into messages
(`Splitter`; `Upstream` is the whole way up). `Server.Stop` cancels the context of the
run, which is the only message the components get from it, and sweeps the pool.

## Modules

| module | models | state and actions against the code |
|---|---|---|
| `Server` | life cycle of runs | a run is what one `Start` creates; `pc[k]` is where a caller is inside `Start` or `Stop`, and the points `listen`, `serve`, `fetch` are those where it holds `s.mu`. `StartWithoutLog` is the error return of `logger.Setup`. `StopTakes` is the locked part of `Stop`, `StopCancels`, `StopCloses`, `StopReturns` the unlocked steps after it. `active` is the map of each run, at most one connection per label. |
| `Service` | what `Start` and `Stop` promise | a run begins when no other begins or serves, holds the port alone, serves, and ends in the order told, cancelled, port free; a client is served only while some run serves, and refused only by a run told to stop |
| `Handshake` | the DC index as a pure algorithm | `HandshakeInfo(i)` is what the proxy derives from index `i`: number, kind, test flag, address, domains, path and the index in `relay_init`, 16 bits wide. Keys and ciphers are left out. |
| `Front` | one connection up to and under the bridge's reads | `kind` is what the client opens with, one value per way through `ReadClientInit`; `step` is the place of the handler. `wire` says what a record header read at a position would say, so that reading at a wrong place is visible; `buf` is `len(readBuf)`, `taken` what the handler got. A pump of the bridge that has ended leaves the handler in `waiting` until the other pump has ended too (`br.Run`'s `wg.Wait`), and one that is stuck in `Send` is `blocked`; only then does the deferred Close run. `mask`, `pumps`, `site` are the masking goroutine, which shares `conn` with that Close. |
| `Splitter` | the splitter | bytes are stream positions and a buffer an interval, so losing, repeating or mixing bytes is visible; the decrypted stream is known by what a header at each position says. |
| `Upstream`, `MCUpstream` | `Front` and `Splitter` together | every read of the bridge is one step with the call of `Split` it feeds (`Forward`); the end of the reads flushes the splitter at io.EOF only. `Upstream` implements `Splitter`. |
| `Route` | how clients get a transport | each chain is a goroutine with a phase (`dial`, `shake`, ...) and a deadline in ticks of 15 s; `Receivable` says who will receive its result; `Reap` is the goroutine that waits 90 s for a loser. `Urgent` lets goroutines that can move do so before time passes. |
| `ConnPool` | what a pool of connections promises | each connection is in one place and only moves forward |
| `Pool` | the pool with every goroutine that touches it | one critical section of `p.mu` is one action, a dial lies between two. A bucket is a set ordered by `stamp`; `horizon` divides expired stamps from fresh ones. |
| `Bridge` | one session | two pumps, two peers that stop or leave when they like, and the handler that closes. Bytes are counted where they wait: socket, splitter, cut, received. `c.closed` is a plain bool that `Recv` sets while `Send` reads it, so `Send` may see the old value (`SendOK`). |
| `CFProxy`, `MCCFProxy` | CF domains and the clients that try them | round robin, bans in ticks of 30 s, the fetched list replaced at any time. A domain's answer is open at every attempt (`Connects`, `Fails`), so a domain may fail one client and answer the next, whose `MarkGood` lifts the ban; `off` are the clients whose call is called off. `spent` and `cleared` are history: what has failed in the call, and whether one of these has answered somebody since. |
| `Config` | configuration and file as pure functions | a file is a sequence of settings; `setValue`, `Load` (`Loaded` is the loop over the lines), `Saved` and `Valid` are the functions of the code. A text is its form and what it says. |
| `LogWriter` | the rotating log over a directory that outlives it | every system call is a step. `there` and `lines` are the directory, a line is its number, so a lost line and the order of loss are visible. `stuck` only records that a rename failed. |
| `Process`, `MCProcess` | the process, over and over | `run` is the place of `main`; `ini` is the file, `config` the memory of a run, `past` what the last run had. `Edit` is the user, `Dies` a crash, a fatal error or the end of `main`. |
| `Induction` | nothing of the code | induction over the natural numbers and the existence of recursive functions, for the proofs about loops |
| `PoolProofs`, `UpstreamProofs`, `BridgeProofs`, `RouteProofs`, `ServerProofs`, `CFProxyProofs`, `ProcessProofs` | proofs | see below |

Definitions whose comment starts with "Mutant:" are plausible bugs kept next to the
definition they damage; no specification uses them. They show that each property
can fail: replacing the definition by its mutant makes the property fail in its
own run.

## Runs

| run | bounds | what it shows |
|---|---|---|
| `Server.cfg` | 2 callers, 2 runs, one address with 2 connections, 1 warm-up dial | a server that says it runs serves; two runs never serve at once; a finished Stop leaves no port and no context; the map names only living sessions; `Service` implemented; calls return and a stopped run comes to rest |
| `ServerMap.cfg` | the same | *violated*: finding 3 |
| `Upstream.cfg` | streams of 12 bytes and connections of 10, every opening, records of 0 to 3 bytes of every type, packets of every form and of payloads up to 2 (limit 2, so 3 is too large), both repeating every 2 positions, 14 indexes | the records' data reach the bridge whole and in order with the ciphers in step, packets come out whole, one per message and at once, memory is bounded, routes fit the client's index, and every connection ends unless the data centre or the masking site holds it for ever |
| `UpstreamPanic.cfg` | streams of 5 bytes | *violated*: finding 1 |
| `FrontMask.cfg` | the same | *violated*: finding 4 |
| `Route.cfg` | 1 client, 4+2 WebSocket and 3 CF attempts, 3 hops, deadlines of the code | transports always have a receiver, blame is fair, plain TCP is last, every client is answered, losers are closed |
| `Pool.cfg` | 2 keys, 3 connections, pool size 2, a warm-up and one refill at a time | owners unique, the oldest fresh connection first and only expired ones skipped, expired ones leave, `ConnPool` implemented |
| `Bridge.cfg` | both transports, 1 byte window, 1 kept, 2 frames on the wire | nothing lost upward after EOF, every received frame written, a session whose DC has left ends, a cancelled session ends (plain TCP) or is freed by the next data frame (WebSocket) |
| `BridgeSilent.cfg` | WebSocket | *violated*: finding 2 |
| `CFProxy.cfg` | 2 clients, 3 domains that answer or fail at every attempt, one of them configured, fetched lists that bring the others, repeat, shrink and vanish, calls called off at any time | no second try of a domain that failed the call, unless it has answered another client since; "" only when it must be; fair turns |
| `Process.cfg` | 5 files a user may leave, 4 drawn secrets, 4 lines of length 1 or 2, files up to number 4, crashes and failing calls anywhere | a configuration nobody touched comes back the same; the log loses its oldest lines first |
| `ProcessSecret.cfg` | a file with an empty secret | *violated*: finding 5 |

Why the bounds are enough. In `Pool` the interesting cases are two goroutines that
both saw the same gap and a bucket whose connections are of different age: with three
connections, a refill and a warm-up over-fill a bucket of size 2, so that a Put is rejected, and a
bucket may hold an expired connection before a fresh one, or two fresh ones. A second key makes
misplacing visible. More refills at a time, of one key or of several, exceed the run; the safety claims
and the refinement are proved for any number of them and every size. In `Server` the hazards need a Stop that overlaps with the next
Start (two callers, two runs) and a label used twice (two connections of one address).
`Route` with one client has the very numbers of the code, and every pair of chains
of the race. A session of `Bridge` has every order of events with one
item in each place; a second item in a socket only repeats a step, and the wire has two
so that a control frame can stand before a data frame.

In `Upstream` a header takes 1 byte instead of 5 and a handshake 2 instead of 64: a
record shorter than a handshake, one as long, and one that is longer (3) are the three cases
`ReadExactly` tells apart, and 10 bytes hold several records in every order, with an
end of the connection inside a header or a body. 12 bytes of stream are several packets
of every small form, cut at every place, and a header that is bad in the middle. A client whose
connection is plain is read in pieces of every length. The 14 indexes are both ends of the
16-bit range, both sides of zero and of the test offset, and numbers in and out of each table,
with and without a redirect.

In `CFProxy` the lists have lengths 1, 2 and 3 without repetitions, and `Turns` is a multiple of
each, so the round robin is exact; a ban lasts 4 ticks instead of the 20 of the code,
which is still longer than a call of three attempts, and that is all the properties use.

In `Process` the user's files have an empty secret, a good one, a good one replaced by a later one
and followed by a bad one, a port that is out of range and one that is no number, texts that do not
parse, and two logs of one and of three old files, so that a run meets the files of a run
that kept more. `log_max_size` counts in lengths of lines, so that one or two lines fill a file and four
lines rotate up to three times. A save that is cut short ends between two settings. Two
secrets are drawn per start without a file, so four draws are at least two starts, and up to four with a file.

Deadlock. `CHECK_DEADLOCK FALSE` stands where the system may come to rest: a session that has
ended, a server whose bound of runs is used up, a pool whose connections are all
used, a stream that has been read, a process that may draw no more secrets.

## Fairness

Only what the Go scheduler, the lock and deadlines give is assumed, always weak.
`Pool`: refills, warm-ups, closers and the rotation ticker run; clients, time and
Stop promise nothing. `Bridge`: both pumps and the handler run when they can, where a
deadline of the code counts as being able to; peers and Stop promise nothing.
`Route`: the handler, chains, reaper and the clock run. `Server`: callers that wait for the lock
or are past it go on, accept loops, warm-up dials (which have a deadline) and waiting handlers
go on; clients and sessions owe nothing. A lock wait needs no strong fairness
because a bounded number of runs leaves the lock free in the end.
`Upstream`: the handler and the splitter run, the client owes nothing; a read of the opening ends by its
deadline of 10 s (`ReadFails`), a read of the bridge by its own of 5 minutes (`End`), and what
lies in `readBuf` is read without waiting; dials have timeouts. Nothing is assumed of the data centre or of the
masking site: a `Send` may block and the other pump wait in `Recv` for ever (finding 2), and the site may
stay open, in which case `ConnectionEnds` claims nothing (`HeldByPeer`). Once the site has closed, both pumps
of the masking goroutine run into it.
`Process` claims no liveness.

## Findings

1. `UpstreamPanic.cfg`: the three-byte length of a long abridged header is read as
   four bytes of a three-byte slice, which panics in a goroutine without a recover
   (`bridge/splitter.go:154`).
2. `BridgeSilent.cfg`: when the client leaves, the pump that waits in `Recv` of a
   WebSocket has no deadline, and the transport is closed only after it returns: with
   a silent DC the session stays (`websocket/client.go:136`).
3. `ServerMap.cfg`: `Stop` ranges over the map of sessions without the lock while the sessions it has
   just cancelled delete their entries; the Go runtime may end the process
   (`proxy/server.go:237`).
4. `FrontMask.cfg`: a client that fails the Fake TLS check is handed to a goroutine that carries it to
   the masking site, and `ReadClientInit` returns an error, on which the deferred
   Close of `handleClient` closes the same connection: the scanner sees a closed connection,
   not the site (`proxy/handler.go:82`, `proxy/server.go:427`).
5. `ProcessSecret.cfg`: `loadOrCreateConfig` looks for an empty secret after the default has put a random one
   in its place and an empty value was ignored; it is never saved, and each start has another
   secret and other links (`src/cmd/main.go:133`).

Observations that contradict no document, and so have no run:

- A refill dial does not look at the server's context, and `Put` has no closed state: a
  dial that ends after `CloseAll` parks a live connection in a stopped pool.
- A Stop during the warm-up counts the cancelled dials as failures of WebSocket (`proxy/server.go:190`).
- A received Close frame sets `c.closed`, so the later `Close` returns without closing
  the socket (`websocket/client.go:285`).
- The splitter is flushed at io.EOF only. A fake TLS client that ends inside a record gives
  another error, and what the splitter kept is dropped.
- A fake TLS record that is neither data nor a cipher change leaves its body in the stream
  (`fake_tls/stream.go:128`); after it `StreamIntact` promises nothing but the place of the ciphers.
- The 10 s deadline of the opening stays on a connection that is handed to the masking goroutine.
  A site that neither speaks nor closes keeps that goroutine.
- A plain client whose first byte happens to be that of a TLS record or of an HTTP method is not
  read as a plain client.
- Addresses of `dc_ip` are used for test DCs too.
- After a rotation that could not reopen the file, lines are lost without a retry until one is
  long enough to rotate again. A smaller `log_max_files` never removes the older files.
- A configuration that cannot be read is replaced by the defaults with a fresh secret.

## Proofs

All theorems hold for every value of the constants that satisfies the named assumptions of
the module (`PoolAssumption`, ...). TLC evaluates these assumptions in every run. Each
follows one pattern: a strengthened invariant holds in `Init`, is kept by every
action (one step or lemma per action), and implies the property. Every invariant that a run checks
is proved, and so are the action properties and the refinements, none of which needs fairness.

| module | theorem | invariant and argument |
|---|---|---|
| `PoolProofs` | types, `Capacity`, `SoleOwner`, `HandsOutOldestFresh` | `PoolInv`: a goroutine holds a connection exactly between dial and Put, and stamps order a bucket below the next Put. Without the former a Put could add a connection that somebody else owns; without the latter the first fresh connection of a bucket need not be the only candidate. Buckets are finite because the set of connections is assumed finite. |
| `PoolProofs` | `Pool` implements `ConnPool` | under `SoleOwner` the mapping `Place` gives each connection the place of its only owner; then each action is a step of `ConnPool` or a stutter. |
| `UpstreamProofs` | of `Splitter`: types, `Lossless`, `OnePacketEach`, `NothingHeldBack`; and `BufferBounded`, which follows from it | `SplitInv`: both buffers cover the same last bytes of the stream, messages tile what lies before, and splitting stops only at a bad header. |
| `UpstreamProofs` | `Upstream` implements `Splitter`; from it `Lossless`, `OnePacketEach` | every step of `Upstream` is a step of `Splitter` on the splitter's variables or a stutter, so the theorems above carry over. |
| `UpstreamProofs` | types, `Aligned` | `taken` is 0 before the handshake is read and exactly the handshake plus what the splitter was fed after; no read hands on bytes while `Split` works. |
| `UpstreamProofs` | `StreamIntact` | `Intact`: the place of the stream is that of a record in the client's sequence `Records`, and the data before it is what was taken plus what `readBuf` holds. The sequence is a recursive function; one `readTLSPayload` goes from a member to the next. |
| `UpstreamProofs` | `RouteFitsClient` | arithmetic over all of `Index`: the number without offset always fits 16 bits with either sign, and two indexes without the test flag that share number and kind share the route. |
| `BridgeProofs` | types, `UpComplete`, `DownComplete`, `DirectSocketClosed` | `BridgeInv`: which program counter of a pump allows which bytes to wait, that the handler closes only after both pumps, and that plain TCP is marked closed only by the last Close. |
| `RouteProofs` | types, `NoOrphan`, `BlameIsFair`, `LastResort` | `RouteInv`, per client and over the values of its variables: at most one chain outlives the choice, and the reaper's timer exceeds the clock of its handshake. Needs `ReapTicks > ShakeTicks`: in the code 90 s against 30 s. |
| `ServerProofs` | types, `RunningServes`, `OneRunLives`, `NothingLeft`, `RefusedIsStopped`, `NoStaleEntry` | `ServerInv`: an open port has one owner (the caller in `Start`, the running server or the caller in `Stop`), and a context that is not cancelled belongs to the owner of the port. |
| `ServerProofs` | `Server` implements `Service` | under `ServerInv` the points of `Start` and `Stop` exclude each other, so the mapping `Phase` gives each run one place (`PhaseOf`), and a step that starts or stops one run leaves all the others where they are (`OthersStay`). |
| `CFProxyProofs` | `AllListsOnce` | induction over the passes of `m.all()`: after n names the list has just these, each once, so it is no longer than there are domains. |
| `CFProxyProofs` | types, `NoSecondTry`, `NotPassedOver`, `NilIsDeserved` | `CFInv`: a domain that failed in a running call, and has answered nobody since, keeps a ban of more ticks than the call has attempts left; unless one has answered somebody (`cleared`), the call has as many such domains as it has used attempts; and the i-th domain `Next` would look at has been passed over at most `Len(All) - i` times (`TurnsKept`), where moving the counter moves every place by the same number (modular arithmetic). From any counter the places 1 to n of `Next` are n different domains (`PlaceReaches`). |
| `ProcessProofs` | `LogInv`, `OldestGoFirst` | `LogInv`: lines of a file with a larger number are older, a file that does not exist has none, and in a rotation the number above the next file to be moved is free, or the last one, or some rename has failed (`stuck`). With it every rename that replaces a file and every removal meets only older lines, from whatever directory earlier processes left. Holds for any file a user leaves, since only `SetsUpLog` looks at the configuration. |
| `ProcessProofs` | `SavedIsReadBack`, `SecretKept` | induction over the settings of a file: after n lines of a saved file the first n keys of `SaveOrder` have their saved values; a configuration with a secret has one after every line. The latter is why the branch of finding 5 is dead for every file. |
| `ProcessProofs` | types, `ConfigKept` | `ConfInv`: a process has a secret from its first step on; what is saved or read into is a fresh default configuration; and a run that failed in nothing has `Load(defaults, file)` for its file, by reading it or, by `SavedIsReadBack`, by writing it. Two defaults differ in the secret only, and a file with a secret replaces it (`LoadAgrees`), so two runs over one file agree. |

Recursion and induction. The loops of `m.all()`, of `LoadFromFile` and of the fake TLS reads are recursive
functions. `Induction` derives induction on sets of natural numbers from the well-foundedness of their order
and shows that a function with given first value and step exists (`PrimitiveRecursion`, `LoopRecursion`); it is a library and claims nothing of the code;
each proof about a loop first shows that its function is such a one, and then argues pass by pass.

Assumptions that are about the bounds rather than the code. `TurnsAssumption`: the bound of `m.rr` is a
multiple of every length a list can have, so that wrapping it changes no remainder (the counter of the
code does not wrap in any run that ends). `BanTicks > Attempts`: ten minutes against three dials of at most
15 s. `ProcessAssumption`: 32 hex digits in a user's file are a secret, that is, not empty.

Only model-checked: every liveness property (`ExpiredLeaves`, `GoneDCEndsSession`, `DataFrameFreesDown`,
`CancelEndsSession`, `Answered`, `LosersClosed`, `CallsReturn`, `StoppedRunRests`, `ConnectionEnds`), since
reasoning about ENABLED is beyond the prover.

## Not modelled

The bytes of frames, HTTP upgrades, ClientHello, ServerHello and `WrapTLSRecord`, AES, SHA-256 and HMAC themselves
(library code, formatting): a client is told apart by what the code decides about it. Byte counters, statistics
and what is logged; the tray icon and the Windows console. `ParseFlags` is not
called by the program, `readLeft` of the fake TLS stream is never set. The domain balancer only orders the two domains of a client;
`Route` leaves their order open, which covers each of its answers. `Server`, `Upstream`, `Route` and
`Bridge` are separate specifications that meet in one place each (a handler enters, has an
index, has a transport): composed as one state space they would exceed
model checking without a property that spans them, except for what `Upstream` joins. Two clients that share the health counters of
`Route` are checked only in what one client can do to them.
The race on `c.closed` is modelled by what a stale read can do, not as the data race the race detector would report.

## Plan

1. (present) `Pool` with `ConnPool`, `Splitter`, `Front` with `Handshake` and `Upstream`, `Bridge`, `Route`, `Server` with `Service`,
   `CFProxy`, `Config` with `LogWriter` and `Process`, with their runs and proofs.
2. An abstract session (bytes in order, both ways, then closed) that `Bridge` with `Upstream`
   implements.
3. Proofs: the refinement of item 2; `MaskEnds` closing both ends as an invariant of `Upstream`; that the
   steps of `Route` implement a race with one winner.
