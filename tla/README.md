# MOPS in TLA+

MOPS is a proxy that spreads the connections of one machine over the machines
of a local network. Every machine runs one daemon: a *server* port that relays
for others, a *client* port (SOCKS5 and HTTP) that takes local connections and
sends each through some node, a REST API, mDNS discovery, file transfer between
nodes. A GUI (Svelte and Tauri) polls the API. The Go code is in `src/pkg/mops`;
most of what is discussed here is in `engine.go`.

This directory holds TLA+ models of the daemon and of the desktop around it, their
model checking configurations, and proofs of every safety property the passing
runs check.

    tlc -workers 2 -config Routing.cfg MCRouting     # any run, see "Runs"
    tlapm RoutingProofs.tla                          # any module of proofs, see "Proofs"

`TunnelProofs` takes tlapm about twelve minutes, every other module less than two.

## Inventory

| Component | State | Operations | What is hard |
|---|---|---|---|
| Node selection, fail-over (`selectNode`, `dialAndHandshakeNode`, `RemoveNode`) | `nodes[].Status`, `rrIndex` | pick, dial, handshake, retry, mark OFFLINE | connections share one counter; the list it indexes changes between attempts; a removal is late |
| Health loop and internet probe (`nodeHealthLoop`, `probeOnce`) | `nodes[].Status`, `discovery.paused` | probe API, probe port, apply verdict, pause and resume advertising | verdicts are written after the lock was released, over newer ones |
| Discovery (`discovery.go`) | mDNS registration, `paused` | announce, receive, pause, resume, stop | lost and late datagrams; resume after stop |
| File transfer (`SendFileToNode`, `handleIncomingFile`, `createUniqueFile`) | connection, file, hash, `progress` | header, blocks, trailer, verify, remove | broken connections, a full disk, one directory, one progress record, no acknowledgement |
| Lifecycle (`Start`, `Stop`, `Set*Enabled`, API shutdown) | `running`, flags, listeners | start, stop, switch a proxy | Start works without the lock, Stop waits with it |
| Tunnel server and relays (`handleServerConn`, `relay*`) | two connections per tunnel | dial target, acknowledge, copy both ways, close both | slow targets against deadlines, half-closed connections, leaks on early return |
| SOCKS5 and HTTP front ends | one client connection | parse, dial, answer, relay | buffered bytes behind the request; an HTTP head that is not complete in time |
| Configuration (`config.go`) | `config.json`, `Engine.cfg` | load, incremental update | crash while writing, ignored read errors, memory and file under different locks |
| System proxy (`proxy_windows.go`) | registry, environment | enable, disable, restore | several writes, errors ignored, no lock |
| REST API, service control, command line | none of their own | thin wrappers; service start and stop | retries across API and local execution |
| GUI store, Tauri shell | last polled state; daemon process | poll, read-then-toggle, start and kill the daemon | answers out of order, stale toggles |
| Status text, interface choice, browser launcher, build scripts | none | pure or start a process | nothing for a model checker |

They interact through the node table (written by connections, both loops,
discovery and the command line, under `Engine.mu`), through TCP between
daemons, and through the API. `PROJECT.json` lists every component with its
status and every hazard with the line where it bites.

What makes each correct: *routing* - connections are spread evenly and fail over
until somebody works or nobody is left; *health* - the table ends up agreeing with
the world; *discovery* - a machine advertises itself if and only if it is of use;
*file transfer* - a file that is kept is whole and nobody else's; *lifecycle* -
flags tell the truth and a stopped engine holds nothing; *tunnel* - what comes out
is a prefix of what went in, and both ends are closed in the end; *configuration* -
an update is kept whatever happens to another one; *system proxy* - on or off, never
half; *GUI* - it shows the latest state and toggles what the user saw.

## Modules

    Balancer          what routing promises                       (abstract)
      ^ implemented by
    Routing           connections against a table anybody writes
    RoutingProofs     theorems about Routing
    Health            the loops that write the table, and the world
    HealthProofs      theorems about Health
    NodePool          Routing and Health over one table           (composition)
    NodePoolProofs    theorems about NodePool
    FileTransfer      senders, connections, receivers, one directory
    FileTransferProofs  theorems about FileTransfer
    Pipe              what one direction of a connection promises (abstract)
      ^ implemented, in both directions, by
    Tunnel            one proxied connection, application to target
    TunnelProofs      theorems about Tunnel, the refinement of Pipe among them
    Lifecycle         Start, Stop, switches, ports
    LifecycleProofs   theorems about Lifecycle
    Daemon            Lifecycle, Discovery, probe loop, service   (composition)
    DaemonProofs      theorems about Daemon
    Config            settings in memory and in config.json
    SystemProxy       registry and environment
    Desktop           Config, SystemProxy, a daemon that is killed
                      and started again, the GUI                  (composition)
    DesktopProofs     theorems about Desktop, Config and SystemProxy
    MCRouting         symmetry for TLC, and a table only announcements write

**Balancer.** A pool of nodes and their loads: `Pick(n)` for a node of least load,
`Repool` starts a new count. It says nothing of counters and lists.

**Routing.** One goroutine per proxy connection. `Select` is `selectNode` under
its read lock, `DialAccepted`/`DialRefused` the dial without a lock, `RemoveNode`
the write that follows a refusal, `HandshakeAcked`/`HandshakeFailed` the exchange
of header and acknowledgement, `NextAttempt` the loop of three. Ids are numbers in
the order of the id strings, since `selectNode` only sorts them. `UpdateNode`,
`HealthVerdict` and `ProbeVerdict` let anybody write the table at any time.
`load`, `tried`, `stayed` and `alone` are history and guard nothing; what of it a write to
the table changes is in `Observe`.

**Health.** `HealthTick` takes the targets of a round under the lock, `ProbeApi` and
`ProbeTcp` are the network calls of a target's goroutine, `ApplyVerdict` its write;
`ProbeInternet`, `ApplyProbe`, `ApplyAdvertise` the three parts of `probeOnce` (no
lock, engine's lock, discovery's lock). `Announce`/`Lose`/`Deliver` are datagrams,
`DialRefused`/`RemoveNode` connections that find a node closed, `Flip` the world.

**NodePool.** `INSTANCE Health WITH refused <- Refused`: the pending removals of
Health are the requests of Routing between dial and `RemoveNode`; `status` is the
shared table. The loops, the announcements and the world take Health's own steps, which leave
the requests and the counter alone (`Aside`) and of which Routing's history notices
what becomes of the table (`Observe`); that what they write is what Routing allows its environment
is not built in but checked (`RoutingHolds`). The requests take Routing's steps, and
`HealthHolds` says that Health allows these.

**FileTransfer.** Sender and receiver of each transfer, the connection between them
and one directory. Content is a sequence of blocks; the hash is injective (it *is*
the sequence hashed); a file is the number of its candidate name. The header's size
may differ from the content (`Claim`) and the caller may have given the hash
of something else (`given`; engine_test.go does). `Begin`, `Connect` and `SendHeader` are three
steps, since the connection may be lost between them (`NoHeader`). `Reset` loses what was not read.
`Store` brings a block to the file, or does not, which nobody notices (`lost` remembers);
the hasher gets it in either case. `NoTrailer` is the branch of the code that verifies nothing.

**Lifecycle.** `e.mu` is held over several steps by Stop only (`stop # "idle"`);
the switches are single steps under it; Start takes it for its first step and
opens its ports in pairs of steps `Listen`, `Store` outside. `Foreign` is another
program taking or releasing a port. An engine is started once, as in `runDaemon`
and `program.run`. Its passing run is the one of Daemon.

**Tunnel.** The application's connection `A`, and for every try `i` of the request
the tunnel `T(i)` to a node and its connection `X(i)` to the target. The client
engine runs through `Parse`, `Dial`, `Acked`, `Reply` and its relay; the server engine of
each try, which goes on when the client has given it up, through `ReadHeader`,
`DialTarget`, `Ack` and another relay. A deadline that is set (`armed`) may expire at
any moment. `CloseEnds` is TCP's close: bytes that were not read are gone, and may take
with them what was sent the other way. A front end is one of `socks`, `connect`,
`plain`; what they do differently is in `ParseSocks`, `ParseHttp`, `Reply` and `ReplyFails`.
A request line is one item; the first `head` bytes behind it are the rest of an HTTP head. An HTTP
front end takes the head, or, when a read fails or the deadline expires amid it, a part
(`taken`) and goes on with its complete lines (`kept`); a SOCKS5 front end may take bytes that
were buffered with the request.
`Collect` is the garbage collector, which closes a connection the HTTP front end forgot.

**Daemon.** The whole of `Lifecycle`, every step of it taken by somebody: Start by
`program.run` or `runDaemon`, Stop by `program.Stop` or the end of `runDaemon`. To this
come `d.mu` (`boot = "discovery"` is Discovery.Start holding it), the registration of
the own node, `periodicBroadcastLoop` (`caster`) and `probeLoop` (`prober`), whose
`probeOnce` notes its verdict under `e.mu` (`verdict`, "unheard" if no Discovery was linked)
and switches the advertising under `d.mu`.

**Config.** A request goes through memory, `configMu`, reading, truncating and writing
the file; a daemon may end between any two. Reading may fail: an update then goes on as if
nothing had been stored, and a daemon that starts falls back to its flags. `Loaded` is what
`mops run` or plain `mops` makes of flags and file, at which each looks twice: of the two
settings, `download_dir` has a flag with a default that is not empty and `advertise` has not. `told` is what the user was told
last; `damaged` says that a write was cut short or failed, or that an update wrote the file anew
without having been able to read it; `how = "unread"` that the daemon could not read it at
its start.

**SystemProxy.** A call writes ProxyEnable, ProxyServer and the variables one by
one; the first two may fail and end it, the rest fail silently. `own` is the daemon's
environment, which hides the registry's (`Shown`).

**Desktop.** A daemon that is killed (`End`, also the desktop's `cleanup_daemon`) and
started again, and the GUI, of whose questions several may be under way.

Operators named `Bug...` are slips a programmer could make in the definition they
precede, kept to show that each property notices one. They are not part of
any specification.

## Runs

| Run | Question | Bounds |
|---|---|---|
| `Routing.cfg` (module `MCRouting`) | balanced picks, fail-over, early exits, refinement of Balancer | 3 nodes, 2 connections, 3 attempts |
| `RoutingFailover.cfg` (`MCRouting`) | *violated*: "All available nodes failed" | 2 nodes, 2 connections, table only grows |
| `Health.cfg` | table and advertising converge | own node, one with API, one without; 1 change of the world |
| `NodePool.cfg` | Routing and Health fit together; connections end; the table converges | own node and one with API, 1 connection, 2 attempts, 1 change of the world |
| `FileTransfer.cfg` | names, hashes, progress; transfers end | 2 transfers of the same name, one block each; announced sizes below, at and above the content |
| `FileTransferWhole.cfg` | *violated*: COMPLETED means whole | 1 transfer of two blocks |
| `Tunnel.cfg` | both directions are pipes; one target; closing spreads; what was sent arrives | 2 tries, 2 bytes up behind the request line, both of its head or none, 1 byte down |
| `Daemon.cfg` | ports, flags, registration; Stop and the loops end | any subset of 3 ports configured, 1 request that switches |
| `Desktop.cfg` | confirmed settings survive; a call repairs the system proxy; the GUI catches up | 2 requests, 1 value besides the default; 2 calls, 1 address, 2 variables; 2 polls |
| `ConfigReload.cfg` (`Config`) | *violated*: a restart loads what was set | 2 requests |
| `LifecycleStop.cfg` | *violated*: a stopped engine has no port open | 1 switch |
| `LifecycleServed.cfg` | *violated*: an enabled proxy is served | 1 switch |

Where the table names no module it has the name of the cfg up to the word that
tells the runs of a module apart (`Lifecycle` for `LifecycleStop.cfg`).
`CHECK_DEADLOCK FALSE` is set where all transfers or connections may come to their
end; everywhere else something can always happen. `Daemon.cfg`, `FileTransfer.cfg`,
`Tunnel.cfg` and `Desktop.cfg` take about three minutes each, the others less than two.

Why the bounds suffice. For safety they need not: every invariant and action property
and every refinement of these runs is also proved without bounds (see "Proofs"), and the
runs are there to find a mistake quickly. What rests on the bounds is liveness. Routing: the pool can shrink, grow and be
replaced with three nodes, and two connections are what it takes to move each other's
cursor; the counter is bounded by the attempts that can be made, so the state
space is finite without a constraint. Health: the hazards are a late write of each of four kinds against a
newer one; one change of the world (in any initial state of it) makes each of
them late, and two were tried with the same result. Convergence is asked after the
last change, so fewer changes do not make it easier. NodePool: the two modules meet
in a dial, its removal and the four kinds of table writes, all of which one connection
with a second attempt meets; several connections are in `Routing.cfg`. FileTransfer:
conflicts are pairwise, over a name or the progress record; with one block of
content an announced size of 0, 1, 2 is short, right and long. Tunnel: one try is given
up and goes on at its server while another is served, or both are given up; two bytes
behind the request line are one that was read together with it and one that was not,
or one forwarded and one under way, or two lines of a head that is cut between or amid
them. Daemon: Start, Stop, the loops and one request are four who want the locks. Desktop: conflicts
over the file, the registry and the screen are pairwise; of the variables,
HTTPS_PROXY is written like HTTP_PROXY and left out. In one behaviour of Desktop the user
either changes settings or switches the proxy (`topic`), since the two share
nothing but the process, and questions about the proxy do not overlap (`Room`): both
bound the state space.

Two things may look like a bound and are not. `rrIndex` is a uint64, taken not to wrap.
`MaxName` bounds the number of candidate names; with every name of it in use a
receiver would wait in the model where the code goes on, and the instances are
chosen so that this does not occur.

### Fairness

Weak fairness of the goroutine that is at work, never of what it waits for from
outside without a timeout. Routing: dial, write and read have deadlines (2 s, 5 s).
Health: both loops are driven by tickers, every network call of theirs has a
timeout; nothing is promised of announcements and connections. FileTransfer: the
receiver has *no* read deadline behind the header (engine.go:632), so its progress rests on the
sender's: a sender that has begun is assumed to go on or fail. Tunnel: engines go on and
their deadlines expire; application and target read what arrives, since an engine's
write has no deadline, but need not send, close or half-close; the garbage collector
runs some time. What an engine can do is finite, so it suffices that the goroutines
together go on as long as one of them can, and likewise those who read. Daemon: whoever was started goes on, locks are handed on; the service
manager or the user need not stop anything. A loop whose context is cancelled while its ticker
has fired takes either branch, since Go's `select` picks at random: it may tick again and
again, but not for ever, which is strong fairness of `ProbeEnds` and `CastEnds`. Desktop:
only the GUI's timer is fair; requests may hang, and a question too if others do not.

### What the violated runs show

* `AllAvailableFailed`: connections failing over at the same time share the
  counter; one can draw the same bad node on all its attempts, and the message says
  that all available nodes failed. One connection alone can do so too, since the counter is taken
  modulo a list that its own refused dials shorten: of nodes 1, 2, 3 the first fails its
  handshake, the second refuses the dial and is marked OFFLINE, and the counter, 2 by now, modulo the
  two nodes left is entry 0, node 1 again; 3 is never tried. `ExhaustiveFailover` is what remains true: a request nobody
  else disturbs tries every node, if its refused dials come before any failed handshake.
* `CompletedIsWhole`: a connection that ends early skips the verification; the
  truncated file stays and is reported COMPLETED. `KeptMatchesHash` and
  `WholeWhenUndisturbed` are what remains true.
* `SettingsReload`: plain `mops`, and with it the installed service, takes the defaults
  of its flags for given explicitly and ignores what is stored. `SettingsKept` holds
  for `mops run`.
* `StoppedIsClosed`: a Stop between Start's ports leaves the later ones open for good,
  with `running` false. `StopClosesAll` holds for every other Stop.
* `EnabledIsServed`: one failed Accept ends an accept loop; flag and open listener
  stay. `FlagMatchesListener` still holds.

### What the properties leave out because the code does not do it

Some exceptions that properties and theorems name are behaviours of the code one would not
expect. They are in the models; without the exception TLC finds the property violated.

* `lost` in `KeptMatchesHash` and `WholeWhenUndisturbed`: the errors of writing the received file
  are ignored (engine.go:690, 699-700) while the hasher is fed all the same, so that on a full disk
  a file with a block missing passes the verification.
* `verdict # "unheard"` in `OfflineIsUnregistered`: in a console the first probe may end before
  NewDiscovery has linked a Discovery to pause (engine.go:1420, 1437), and a machine without internet
  is registered until the next probe. In a service there is no exception.
* `taken` and `kept` in `IsTwoPipes`: an HTTP head that is not complete within ten seconds is
  cut, not refused (engine.go:1209-1212, 1239-1241). A line begun by then is lost, and the target gets
  the rest of the head as data, that of a CONNECT request too, whose head is to be discarded. Bytes
  buffered with a SOCKS5 request are lost as well (engine.go:1177).
* `damaged` and `how = "unread"` in `SettingsKept`: config.json is truncated and written anew; an
  update that cannot read it ignores that and writes one setting (config.go:86-101), a daemon that
  cannot read it falls back to its flags (config.go:43-50).
* `alone` in `Acknowledge` of `Config`: two concurrent calls of SetAdvertise may come in one order
  in memory and in the other in the file (engine.go:1344-1351); which of them counts is left open.
* `late` in `StopWithdraws`: a probe that ends after Discovery.Stop registers the node again
  (discovery.go:503).
* `alone` in `ExhaustiveFailover`: see `AllAvailableFailed`.
* `Byte(n)` on its way down to an application that half-closes, in `SentArrives`: the direction
  that ends first cuts off the other (engine.go:848).

## Proofs

Every invariant, action property and refinement a passing run checks is a theorem
for all values of the constants that satisfy the module's `ASSUME`. The last step is
always the same: an inductive invariant, `Init => Inv`, `Inv /\ [Next]_vars => Inv'`, and
what follows from it. What differs is what has to be added to a property before it is
inductive; most of the additions were model checked first.

**RoutingProofs**, for any finite set of numbered nodes, any set of connections and any
positive number of attempts:

* `RoutingTypes`: `TypeOK`, with the strengthening `AttemptsLeft` (a request about to
  select has an attempt left), without which the bound on `tries` is not inductive.
* `RoutingBalances`: Routing implements Balancer; and `RoutingEvenLoad`. The inductive
  invariant `BalanceInv` says that the loads are those of a cursor that started at
  some entry `b` of the sorted list and has gone round `q` times; `EvenLoad` alone
  does not say *which* nodes are behind, so it is not inductive. The arithmetic of a
  counter modulo a changing length is in `Euclid` to `NextEntry`, the numbering of the
  sorted list in `RankRange`, `RankGrows`, `RankInjective`.
* `RoutingFailover` and `RoutingEarlyGiveUp`. The invariant `FailoverInv` says of an undisturbed
  request that the nodes it has tried are, of those still in the pool, exactly the ones no
  further behind the cursor than some count (`GonePast`, `Covered`), and that it has tried a new one
  with every attempt, or the whole pool. Its own refused dials take nodes out of the pool; as long
  as none of those that stay was tried, the count is 0 and the cursor may land anywhere.

**HealthProofs**: `HealthTypes` and `HealthAdvertised`. The probe notes its verdict and
switches the advertising in two steps; `PauseIsDue` adds that nobody makes the own
node ONLINE between them.

**NodePoolProofs**: each step of the pool is a step, or a stutter, of Routing
(`PoolIsRouting`) and of Health (`PoolIsHealth`). The first needs an invariant because Routing lets
nobody but an announcement bring a node into the table, and a verdict speaks of a node seen
some time ago: `ProbedPresent` (a node that is probed is in the table) and `ProbeTyped`. The
second needs `PickedPresent` (a node a request has picked stays in the table until the
request is done with it), since Health lets a refusal happen to known nodes only. The
theorems about Routing carry over: `PoolBalances`, `PoolFailover`.

**LifecycleProofs**, for any set of API requests and any choice of configured ports:
`LifecycleTypes`, `LifecycleStopCloses`, `LifecycleFailedStart` and
`LifecycleFlags`, the four safety properties of the engine in `Daemon.cfg`. None of them is
inductive: they speak of moments at which nobody is at work, and say nothing of how
far Start or Stop has come. `IInv` does: `Accounted` (the open ports are
those the engine's fields refer to and the one Start is about to store),
`Progress` (before the API port is open there are no requests, so a Start that
fails has nobody to reopen what it closes), `Flags` (flags and listeners agree except
inside Stop) and `Closed` (what each phase of Stop has closed stays closed).
A Stop that overtakes Start sets `early`, from which on `Flags` and `Closed`
promise nothing; `StoppedIsClosed` shows why.

**DaemonProofs** carries them over: `DaemonIsLifecycle` shows that every step of the
daemon is one of Lifecycle or leaves the engine alone, so that for instance
`DaemonStopCloses` follows for the whole process. `DaemonTypes`, `DaemonOffline` and
`DaemonWithdraws` come from `DInv`, whose part `Quiet` says what `StopWithdraws` does
not: once Discovery.Stop has gone by without being `late`, no Start is still to come
and no probe is on its way to register the node again. Its part `Heard` ties the last
verdict to what Discovery was told of it.

**FileTransferProofs**, for any finite set of transfers, any length of the content and
announced sizes, and any files there before. `FInv` says of each transfer where its
sender, connection and receiver can be (`Stages`), and that what was read and
what is under way are consecutive stretches of what its sender writes (`InOrder`); of
all of them together, that a file somebody holds has his name on it and
exactly what he has read in it (`HoldsWhatItGot`, which is more than `OneOwner`: without
the content nothing could be said when it is kept), and that the one who wrote
TRANSFERRING into the common progress record is still at it (`ReporterAtWork`). From
these come `TransferTypes`, `TransferOneOwner`, `TransferProgressSettles`, `TransferWhole` and the
action properties `TransferKeepsFiles` and `TransferKeptMatchesHash`. The assumption
that no transfer is called "none" or "user" was added for them: the owner of a
file is a transfer or one of these, and the model tells them apart.

**TunnelProofs**, for any number of tries and of bytes in each direction.

* `SetupInv` is about how the connections come to be and end: what the client engine
  knows of the try it is at (`ClientSide`), what each server engine has done to its two
  connections (`ServerSide`), and that nothing but a header is in the tunnel of a
  try that is not acknowledged and relayed (`Early`). `TunnelOneTarget`, `TunnelServedIsConnected`
  and `TunnelClosedWithReason` follow. The last one is not inductive by itself: it
  rests on which deadlines are set at which ends at each moment.
* `TunnelIsTwoPipes` is the refinement: Tunnel implements Pipe in both directions.
  The items of a direction are numbered, n for the n-th byte; the answer is item 0, and a plain
  request stands in the place of the last byte that was taken with it, so that the next item
  is the first byte behind it. `UpFlow` and `DownFlow` say that what the reader has and what
  each connection on the way carries are consecutive stretches of that numbering:
  without a gap as long as the connections before it are intact, and never beyond what was sent.
  A connection that breaks may lose its tail, and from there on nothing is promised of
  what is upstream of the break (it will never be read); this is why the conjuncts are
  guarded by `Intact`. Downwards this holds of every try, not only of the acknowledged
  one, because a late server's target sends too; item 0 is there the
  acknowledgement, which the client engine replaces by its own answer (`OpenInv`: nobody
  is acknowledged by a server that has not sent it).
  A step then appends to what was sent (`Put`), or to what was read (`Take`), or neither.
  The lemmas on numbered sequences (`NumberedTail` to `NumberedSame`, `Grows`) carry the proof.

**DesktopProofs**, for any sets of requests, values, addresses, variables and questions.

* `DesktopKeepsSettings`. `SettingsKept` compares memory with what the user was told; the
  step that tells him comes last. `SettingsInv` follows the request before it: its value is
  in memory unless somebody else is about the same setting (`InMemory`, `AsksAlone`), what
  it has read is the file (`HasRead`), what the file had is in the hands of the one
  writer while it is truncated (`OnDisk`), nobody has been told of a setting that is
  being changed (`Untold`), and there is one writer (`OneWriter`, from which the
  cardinality in `ConfigTypeOK` follows).
* `DesktopCallRepairs`. `Repairing` says that an undisturbed call is the only one and that
  what it has written so far is there; `CallRepairs` speaks of its end only.
* `DesktopTypesHold`: `DesktopTypeOK`, with the addition that no call is under way while the
  settings are the topic, else one could outlive its daemon.

Only model-checked: everything under fairness - `RequestsSettle`, `RemoteConverges`,
`SelfConverges`, `AdvertiseConverges`, `PoolConverges`, `TransfersEnd`, `StopEnds`,
`LoopsEnd`, `CloseSpreads`, `SentArrives`, `GuiCatchesUp` -, since the prover has no rules for
fairness and `ENABLED`. That the model violates what the violated runs check is shown by
their counterexamples.

## Not modelled

Formats and parsing (headers, DNS packets, SOCKS5 and HTTP requests, CLI flags),
counters and speeds, timestamps, log messages, the choice of a network interface, the
Windows service manager and what `ControlService` asks of it, process and browser
launching, GUI components, build scripts. Data races on strings and flags are not given
a weaker memory model. `relay`, `SavePersistentConfig` and `RestoreSystemProxyInfo` have no
callers outside tests. A sender of a file reports success without hearing from the
receiver; nothing is stated about that, because nothing could be true.

## Plan

1. `Cluster`: two engines with Health, Discovery and each other's reported status,
   explicit and announced ids of one machine, and the own node's change of id by
   SetAdvertise. These are the hazards of `PROJECT.json` without a property.
2. Proofs: of the safety properties, what is left are lemmas towards liveness that need no
   fairness: that a step of a goroutine at work is possible whenever it should be, stated
   without `ENABLED`, and measures that such steps decrease.
