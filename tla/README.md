# A TLA+ model of SpotProxy

SpotProxy hides censorship-circumvention proxies behind short-lived cloud (spot)
instances: proxies come and go all the time, and their clients are migrated to the
replacements. This directory holds TLA+ modules translated from the repository's
source, the TLC configurations that check them, and TLAPS proofs about them. Paths
below are relative to the root of the repository. `PROJECT.json` lists every component,
run, mutant, hazard and theorem and maps each definition to the lines it models.

## The system and its parts

```
 instance manager --swap--> controller --"migrate"--> WireGuard proxies --> clients
        |
        +--rescale--> broker <--poll, notice-- proxy <==WebRTC==> client
                        |                        ^                  |
                        +---- /add, /transfer ---+     broker <-offer-+
                                                 |
                                          WebSocket -> server -> bridge
```

| Part | Source | State | Operations | Hard behaviours |
|---|---|---|---|---|
| Broker pool | `iceball/broker/snowflake-heap.go`, `broker.go` | two heaps of proxies ordered by clients served, an index field per proxy, polls that wait with a timeout | register, match, time out, remove | keys changed in place, removal behind the heap's back, positions used long after they were read |
| Broker handlers | `iceball/broker/ipc.go`, `http.go` | maps `Cid2Client`, `Proxy2Client`, `ProxyIP2Snowflake`, `idToSnowflake` | `ProxyPolls`, `ClientOffers`, `ProxyNotice`, `Rescale`, `ProxyAnswers` | concurrent handlers on unguarded maps, HTTP calls inside a handler, lost notices, restart with empty memory |
| Server address memory | `iceball/server/lib/turbotunnel.go` | circular buffer and lookup map | `Set`, `Get` | duplicates and wrap-around |
| Server packet queues | `iceball/common/turbotunnel/clientmap.go`, `queuepacketconn.go`, `iceball/server/lib/http.go` | heap of client records by age, a channel per client | `SendQueue`, sweep, `WriteTo`, `OutgoingQueue`, read and write loops, `QueueIncoming`, `ReadFrom`, `Close` | expiry racing use, channels closed under senders and receivers |
| Server process and listener | `iceball/server/server.go`, `iceball/server/lib/snowflake.go` | listeners, accept queue, closed channel, proxied streams | bind, `Listen`, `Accept`, `Close`, session and stream loops, `handleConn`, `proxy` | a late listen error, shutdown against queued connections, half-closed streams |
| Encapsulation | `iceball/common/encapsulation`, `iceball/client/lib/turbotunnel.go` | a byte stream of chunks | `WriteData`, `WritePadding`, `ReadData`, `MaxDataForSize` | prefix boundaries, a stream cut at any byte |
| Client packet connection | `iceball/common/turbotunnel/redialpacketconn.go` | send and receive queue, one conn after another | dial loop, reader, writer, `ReadFrom`, `WriteTo`, `Close` | goroutines of an old conn that live on, errors handed over unbuffered channels |
| Client peers | `iceball/client/lib/peers.go`, `snowflake.go`, `webrtc.go` | list of peers, channel of ready peers, melt | `Collect`, `Pop`, `Push`, `End`, connect loop, transfer callbacks | `Push` without the lock, blocking send under the lock, shutdown |
| Client front end | `iceball/client/snowflake.go`, `iceball/client/lib/snowflake.go` | one configuration shared by all SOCKS handlers, a shutdown channel, a wait group | accept loop, handler, `Dial`, `Close`, copy loops, signal | options of one connection in another, shutdown against a dial under way |
| Rendezvous and NAT probe | `iceball/client/lib/rendezvous*.go`, `iceball/common/nat/nat.go`, `iceball/common/messages`, `iceball/broker/http.go`, `amp.go`, `metrics.go` | NAT type, a call under way, the broker's handler, counters of denials | probe, `Negotiate`, `Exchange`, `ClientOffers`, print and reset of metrics | UDP that loses, delays and repeats; calls with hardly a timeout; a reset without the lock |
| Client transfer handshake | `iceball/client/lib/webrtc.go` | global `transfer` flag and `connected` channel, a probe timer per peer | probe message, timer, `DirectConnect` | one flag shared by overlapping transfers |
| Proxy | `iceball/proxy/lib` | tokens, `client2Dc`, `client2TransferIP` | `/add`, `/transfer`, data and control channels, copy loops, polling | capacity, timeouts against late channels, sessions of the same client that overlap |
| Common packages | `iceball/common` | periodic task, event bus; the rest are conversions | `Start`, `Close`; encapsulation, name matcher, AMP armor, messages, uTLS, NAT probing | a timer chain against `Close` |
| Controller | `spotcontroller/controller/assignments` | clients, proxies with capacity, assignments, id counter | assign, scale up, scale down, swap, id | read-modify-write without transactions, failure in the middle of a list |
| Matching simulation | `spotcontroller/controller/scripts` | preferences, matching, censor's knowledge | deferred acceptance, request rounds, rejuvenation, censor's moves | stability of the matching |
| Instance manager | `instance_manager/rejuvenation.py`, `api.py` | current and previous fleet | create, ping, notify, terminate | order of notify and terminate, failing instances |
| WireGuard proxy and client | `wireguard/src` | three parallel lists of addresses and sockets | accept, forward, migrate, poll | lists that drift apart, a client that cannot be reached |

What makes each part correct:

* pool: a client gets a least loaded proxy of a NAT class that suits it; a proxy that
  timed out or was rescaled away is never handed out;
* handlers: a rescaled proxy leaves the pool and every client it serves is told to move;
* address memory: a lookup answers with the newest address still in the window;
* packet queues: packets reach their client only, in order; only idle clients are cut
  off, nobody waits on a forgotten queue;
* packet connection: a failed conn is left, `Close` ends the loop, old goroutines do
  bounded harm;
* peers: the capacity is respected, `End` reaches every peer, no send on a closed channel;
* transfer: the new peer is open before the old one is closed, and the handover ends;
* proxy: each session returns one token and leaves no goroutine behind; a task runs once
  at a time and not after its last `Close`;
* front end: a connection gets its own options, a failed `Dial` releases what it took, a
  signal ends the process;
* rendezvous: a client behind a restricted NAT never gets a proxy it cannot reach, probes
  end, counters add up;
* controller: assignments stay within capacity, a swap is all or nothing for each proxy;
  rejuvenation: no client is left on a terminated proxy.

## Modules

| Module | Models | Notes |
|---|---|---|
| `SnowflakeHeap` | `SnowflakeHeap` methods and the `container/heap` operations run on them | operators on a record of slice and index fields; loops are recursive functions; proofs in `HeapProofs` |
| `SnowflakePool` | the critical sections under `snowflakeLock` | extended by the next two |
| `BrokerPoll` | polls with a timeout, matching, removal | abstract specification: `ProxyPool`, a set of proxies with loads; proofs in `BrokerPollProofs` |
| `Broker` | all handlers as processes, split at every unguarded map access and every HTTP call | proxies, clients and the instance manager are its environment; proofs in `BrokerProofs` |
| `NATProbe` | `updateNATType`, `isRestrictedMapping`, `RoundTrip`, `listen` | STUN servers, the NAT and UDP are its environment; proofs in `WebRTCProofs` |
| `Rendezvous` | one client's calls of `Negotiate` through the broker's endpoints, and the counters of denials | extends `NATProbe`; of the heaps only whether they are empty; proofs in `WebRTCProofs` |
| `ClientIDMap` | the server's address memory | abstract specification: `RecentAddrs`, the window of the last `Capacity` calls; proofs in `ServerProofs` |
| `Server` | the server process from bind to exit | extends `ClientIDMap`, which all its listeners share; proofs in `ServerProofs` |
| `ClientMap` | the client map and its sweep goroutine | reuses `SnowflakeHeap` with `LastSeen` as the key; abstract specification: `ExpiringMap` |
| `QueuePacketConn` | downstream: `WriteTo`, the WebSocket write loops and the sweep on the channels of `ClientMap` | extends `ClientMap`; proofs of both in `QueueProofs` |
| `Encapsulation` | prefixes and chunks as operators on streams of items | a run of content is one item; proofs in `ServerProofs` |
| `Upstream` | the client's `WriteTo`, the server's read loops, `QueueIncoming`, the buffer pool, `ReadFrom`, `Close` | extends `Encapsulation`; proofs in `ServerProofs` |
| `RedialPacketConn` | dial loop, reader and writer per conn, the methods | proofs in `ClientProofs` |
| `Peers` | one session of the client: connect loop, dial loop, transfers, `End` | proofs in `ClientProofs` |
| `Migration` | one client moving between proxies: its peers' callbacks and probe timers, `/add`, `/transfer` and the control channel of the proxies | composes client and proxy over lossy control messages; proofs in `WebRTCProofs` |
| `Relay` | one session of a proxy: `/add`, the token, `datachannelHandler`, `webRTCConn`, both copiers, the WebSocket | payloads are absent; what counts is who is blocked on which pipe, lock or channel; proofs in `ProxyProofs` |
| `Periodic` | `task.Periodic` for a set of tasks | extended by the next |
| `ProxyTasks` | the NAT retest and the traffic summary that run on it, the bytes logger and the event bus | proofs of both in `ProxyProofs` |
| `Front` | the client's `main`, SOCKS handlers, `Dial`, `SnowflakeConn.Close`, `copyLoop` | one option stands for every field of the configuration; proofs in `ClientProofs` |
| `MC...` | the instances TLC checks | model values and constant definitions only |

One action is one uninterrupted stretch of a goroutine: a critical section, or the code
between two blocking operations (a lock, a channel, an HTTP call, an unguarded shared
access). A `pc` field says where a goroutine is. Panics that `net/http` recovers end the
handler; others stop the model. Definitions named in a comment "Mutant of D" are faulty
versions of `D`, used only to show that the properties can fail. A module that shares a
proof module with another names its specification after itself (`UpSpec`, `RelaySpec`,
`RedialSpec`, `FrontSpec`, `RdvSpec`, `SSpec`). Variables called ghost or
history in their module record what happened for a property and guard no step.

### What is abstracted

* SDP, tokens and payloads are absent; a packet is the client it is written to, or its
  number and its length; NAT types are the strings of the code.
* Logs, statistics by country, Prometheus counters, the AMP armor.
* `Broker`: proxies report 0 clients when they poll, since they poll once at start. The
  Go runtime may notice two handlers in one map and kill the process (`Crash`), after
  which `Restart` empties the memory while proxies and clients go on. Handlers on
  different addresses of the same map are not told apart there, which only adds crashes.
  A value of `Proxy2Client` is a slice as Go has it: a header (array and length, read and
  written as a unit) over an array of `*Client`. `append` writes in place when the array has
  a spare cell and else allocates one with as many spare cells as `Rooms` allows;
  `slices.Delete` shifts the cells behind in the shared array, in one step, and clears the
  last or not, as the Go release has it. Handlers interleave at every one of these accesses;
  a map that grows between the look-up of a cell and the write to it is left out. An index
  or nil panic ends its handler (`net/http` recovers). The fields `listed`, `posted` and
  `moved` of a rescale are history for one property: the clients that `Proxy2Client` showed
  when it began and whose control channel is open since, those a `/transfer` was posted for
  (delivered or not: `Rescale` looks at no error), and the addresses whose slice changed
  otherwise than by growing. The instance manager may send an empty list, with which
  `Rescale` is done at once.
* `BrokerPoll`: the wait of a poll and its timeout (`RequestOffer`, `Broker` in
  `iceball/broker/broker.go`) are reached from the repository's tests only; a proxy that polls
  in production stays in the pool (`ProxyPolls` of `Broker`).
* `Peers`: one session; the list is the set of its elements and the number of elements that
  its length counts and its links do not reach; two list insertions at the same time lose one element
  (`PushBackRace`), while insertions racing the purge or `End`'s traversal are taken as
  atomic. `Catch` returns an open peer or fails, `DirectConnect` returns an opening one,
  none, or nil.
* `ClientMap`: time is counted in ticks; a record that was popped is forgotten.
* `Rendezvous`: a torn increment of a counter is a read and a later write; what
  `printMetrics` reads is taken before `binCount` rounds it up; the assignments of
  `zeroMetrics` are one step, so that a denial that falls between two of them is one more of
  those that race with it, which `CountsSound` leaves out anyway. A call ends by an answer
  or by any failure (`ExchangeFails`); no timer of its own is modelled, see "Fairness". Messages of the code's own
  making are well formed; a fingerprint can be malformed because it is configured.
* `Upstream`: `sync.Pool` hands out any free buffer, so the model takes a fixed one; a cut
  leaves whole items or the last run of content in part. Items carry the number of their
  packet, which no step reads: `DeliveredInOrder` compares numbers and lengths with what
  was written. `WritePadding` has no caller outside its tests and is written once per
  behaviour.
* `Server`: certificate handling and the ports' options are one choice of success or
  failure per bind address; statistics are left out.
* `ProxyTasks`: `NatRetestTask` is closed only as the process ends, so that only the
  summary's task meets callers of `Close`.

## Runs

All runs allow the system to stop (`CHECK_DEADLOCK FALSE`), since goroutines may wait for
ever for the outside world and the bounds end every behaviour. A run names its properties
in the configuration; those that only make sense together (the consistency of one
component's tables, the two ends of one cleanup) are conjoined under one name at the end
of the module, next to the parts, which are commented one by one.

| Run | Instance | What it shows |
|---|---|---|
| `broker_poll` | 4 proxies, both NAT types, 3 clients each, no `Rescale` | the heaps stay ordered and indexed although `clients` is raised after the push; they implement `ProxyPool`; a timeout removes its own proxy |
| `broker` | 2 addresses, 2 interchangeable clients, 1 offer, 2 notices and 1 rescale at once, a restart after which no client is offered | old proxies are out of the pool from the first critical section of `Rescale` on; the pool stays indexed by address; every listed client is posted a transfer unless the slice of its address changed otherwise than by growing (all proved without the bounds, for any number of rescales at once) |
| `rendezvous` | 1 STUN server, 1 duplicated datagram, 2 calls, 5 client configurations, 1 round of metrics, fair | no client that needs an unrestricted proxy gets another, unless a duplicate deceived the probe; denials add up unless the reset met one; probes end |
| `server` | 2 ClientIDs, memory of 2 entries, 1 listener with HTTP-01, 1 session, 1 stream, fair | the memory implements `RecentAddrs`; a session is credited with its client's newest address or none; a refused address is not served; a signal ends the process, the end of one side of a stream ends the other |
| `queue` | 2 clients, 2 WebSockets, 1 writer, queues of 1, timeout 1, fair write loops | positions in the client map stay right and a sweep expires exactly the idle clients; packets reach their owner, only idle clients are cut off, forgotten channels are closed, write loops end |
| `upstream` | 2 clients, 2 writes of lengths with prefixes of 1 and 3 bytes or refused, padding of two chunks with prefixes of 2 and 1, a queue of 1, fair readers | packets come out in order, under their client, each once; the reader tells a clean end from a torn one; sizes are exact; readers end |
| `redial` | 2 conns, 3 packets, queue of 2, fair | at most one stolen packet and one blocked goroutine per old conn; failed conns are left; `Close` ends the loop unless it waits for `dialContext` |
| `peers` | capacity 1, 3 peers, 2 transfers, fair | no send of `Collect` on the closed channel, capacity respected, every live peer within `End`'s reach, nothing collected alive after `End`, the dial loop stops |
| `migration` | 2 proxies, 2 sessions at a time, 2 connects, 2 orders, 1 fault, fair | the old peer is closed only when its successor is open, as long as handovers do not meet; orders reach open control channels; a handover whose proxy has answered completes |
| `relay` | 1 session, unlimited and limited capacity, fair | one token is returned for a session (but for the double return of the timeout race); sessions end and are reported; no goroutine stays but the ones described below |
| `proxy_tasks` | 2 tasks, 2 goroutines and 2 starts each, fair | one chain of executions while a task was never closed; rest after the last `Close`; traffic is reported and, without a race, not twice |
| `front` | 2 SOCKS connections, 2 option values, fair | a connection that names its option gets it; a failed `Dial` releases what it took; the end of one copy ends the other; a signal ends the process |

Why the bounds are enough. Four heap elements are the first size with two levels below
the root and a root with two children, so that sifting has a choice; three matches per
proxy let every relative order of loads occur. Two notices
on one address are the first instance in which a notice overwrites another one's slice, and
with two clients an array has a cell behind the one that is deleted, so that a delete
shifts. Rescales that remove behind each other's back, and walks with clients at a second
old address, which need a third address to move to, are left to the proofs. A
buffer of two slots with two ClientIDs, one of them the zero ClientID that marks empty
slots, has duplicates that are older, newer and absent besides the overwritten slot (the
proofs cover every capacity). Two WebSockets of one client, or of two, share or do not
share a queue; a queue of one packet is empty or full at every step, and with four buffers
the pool is never what blocks. Two conns are one old and one new, which is all the bounds
on old goroutines speak of. Two transfers and `Collect` make every pair of racing
insertions. Two calls of `Negotiate` let a late handler of the first meet the second and
the reset of the metrics. Two goroutines per task are an old execution and a new chain.
`MaxQueues`, `MaxMatches`, `MaxDials`, `MaxPeers`, `MaxStarts`, `MaxWrites`, `MaxOffers`,
`MaxCalls` and their like bound what is allocated or sent: in the fair runs they are never
what stops a process that the property waits for.

### Fairness

Weak fairness is assumed of goroutines that can run: the Go scheduler is preemptive and
does not starve them. Timers fire: `RoundTrip` gives up after ten seconds, probe timers
expire, a WebRTC connection whose two ends have their descriptions opens unless it fails.
In `Server` the ORPort closes a connection whose other direction was closed, as tor does.

Nothing makes an HTTP call return, since none of them is bounded throughout. `DirectConnect`
and the broker use `http.Post`, whose default client has a timeout for the dial and none for
the answer; the client's own transport (`iceball/client/lib/rendezvous.go:54`) has one for
the response header, fifteen seconds from the written request, and none for the dial, the
TLS handshake (although the comment above it wants the defaults of both) and the body; uTLS
has none at all. So `Catch` and `DirectConnect` of `Peers`, the dial of `RedialPacketConn`,
the answer that a handover of `Migration` waits for and the calls of `Rendezvous` may take
for ever in every fair behaviour, and no property says that a negotiation ends. Nothing is
assumed either of the network, KCP, the clock, the user or the instance manager: messages
need not arrive, peers need not open, proxies need not answer, sessions need not be closed.

### What the models reach and the code's comments do not say

Each of these is a behaviour of a module; TLC prints it for the formula given.

* `SnowflakeHeap.Remove` deletes from the slice without restoring order or index, while
  `Less` says that Snowflakes serving fewer clients sort earlier. In `BrokerPoll` with
  `Rescales = TRUE`, `LeastLoadedFirst` fails.
* `Rescale` walks a slice that `ProxyNotice` edits in place, and skips a client; of two
  notices at a time one overwrites the other's slice, so that a client is listed nowhere,
  or a list ends in the nil that `slices.Delete` left; and the entry that `Rescale` indexes
  after it has compared lengths (`iceball/broker/ipc.go:336`) may be gone, which ends the
  handler in a panic with the fleet half migrated. In `Broker`, `AllClientsMigrated` without
  the condition on `moved` fails. `Rescale` removes from `i.ctx.snowflakes` only,
  so a rescaled proxy of another NAT type stays in the pool: `PoolConsistent` fails with both
  NAT types.
* `Peers.End` needs a lock that `Collect` can hold for ever, blocked on a full channel. In
  `Peers`, `(close = "melt" /\ loop.pc = "send") ~> (close = "ended" \/ panicked # "no")`
  fails under `FairSpec`.
* `WriteTo` uses a channel after releasing the lock that guards its life: not a loss of
  packets, as the comment on `ClientMap` says, but a panic. In `QueuePacketConn` with
  timeout 2, `~panicked` fails.
* An address that the server has forgotten reaches `handleConn` as nil, where
  `RemoteAddr().String()` panics (`iceball/server/server.go:76`), while the comment on the
  memory says that forgetting is not critical. In `Server`, `~Panicked` fails.
* `addHandler` never takes a token: `count` is zero or negative, and with a capacity `ret`
  blocks for ever before the connection is closed. The timeout of the data channel and a
  late data channel can both return one (`Relay`, whose `OneTokenPerSession` names both).
* In `Relay`, `OnClose` waits for the lock that `Write` holds while it waits for the
  buffer to drain, and only the inactivity timeout of an hour frees it; only downstream
  writes count as activity; a message stuck in the pipe after its copier ended stays.
* A proxy that takes the offer of a handover and never answers leaves `transfer` set and the
  old peer waiting on `connected` for ever (`iceball/client/lib/webrtc.go:436`). In
  `Migration`, `HandoverCompletes` without its condition `Answered` fails.
* In `Migration`, overlapping handovers take each other's signal, so that an old peer is
  closed before its successor is open (history `clean`); so does a peer that `Collect` made
  while an `OnMessage` was still in progress, in instances of four sessions and more, which
  the attempt at a proof found and `clean` therefore names; a probe message before the probe
  timer is made dereferences nil; an order for a client that is gone is kept and given to
  its next session; `OnClose` of an old control channel deletes the newer one's entry.
* In `Periodic`, `Close` and `Start` while `Execute` runs make two chains, and `Close` does
  not stop the timer of `WaitThenStart`. The summary is read and reset without a lock
  (ghost `raced` of `ProxyTasks`); `GetStat` misses amounts still queued.
* In `Front`, the options of one SOCKS connection stay in the configuration for the next
  (a connection is only sure of the options it names); `Peers.End` that hangs leaves the
  packet connection, the session and the SOCKS connection open.
* In `Server`, an error of `ListenAndServe` after 100 ms is lost and its goroutine blocked;
  connections queued at `Close` are closed by nobody; `log.Fatal` of HTTP-01 races the
  orderly end.
* In `NATProbe`, both tests reuse one message, so that a repeated answer to the first is
  taken for the second and the NAT seems unrestricted (ghost `strayed`); a listener with
  an answer that came too late is blocked for ever. In `Rendezvous`, the AMP endpoint does
  not look for a candidate; a denial counted between print and reset is lost
  (ghost `raced`); a legacy client whose proxy cannot be reached makes the handler panic.
* `MaxDataForSize` is one byte short of "the longest slice" at 64, 8192 and 8193 and a few
  bytes short from 2^20 on, as its test expects; `EncodedSizes` allows the one byte.

Seen while modelling and outside the modules: the package variable `Snowflakes` is
overwritten by each `Dial`, so that transfers go to the latest connection; the gauge
`AvailableProxies` falls with every served offer and is never raised; `Debug` counts
`idToSnowflake`, from which `ClientOffers` deletes proxies that stay in the pool; a peer
that dies between `Pop` and the first write ends the whole session, while the comment on
`newSession` says that another will take its place; a status other than 200 makes
`DirectConnect` return a nil peer that `Pop` dereferences; `UpdateCountryStats` returns
before it counts the NAT type when no geoip database is loaded; a failed uTLS handshake
leaves its TCP connection open.

## Proofs

Each theorem is about the specification as TLC runs it, for every value of the constants;
bounds such as `MaxQueues` become arbitrary numbers. Every invariant and every refinement or
action property that a run checks is the statement of a theorem; what TLC alone shows is
liveness. The assumptions are the named `ASSUME`s of the modules, which TLC evaluates on the
runs: sets and numbers of the right type, nil is no member, queues and timeouts are not
zero, clients and buffers are finitely many, and the budgets given to `MaxDataForSize` are
below 2^20, from where on it falls short by more than a byte (see above). Some theorems have
a hypothesis besides, which is needed and not convenient:

* `Rescales = FALSE` (`BrokerPollProofs`): `SnowflakeHeap.Remove` breaks order and index;
* `PollsPerIP <= 1` (`FleetSoundHolds`, `PoolConsistentHolds`): a second poll from an
  address overwrites the index by address while the first is in the pool. Proxies poll once,
  at start;
* `NATs = {NATUnrestricted}` (`PoolConsistentHolds`): `Rescale` removes from one heap only.
  `FleetSoundHolds` says what is left without it: the same of the unrestricted heap.

Each of these invariants was checked with TLC on an instance before it was proved.

`HeapProofs`: what `container/heap` computes on the slices of `SnowflakeHeap`, for heaps of
every size and any integer keys. `HeapPushOK`, `HeapPopOK` and `HeapRemoveOK` say that the
heap order is restored, that exactly one element comes or goes, and that index fields stay
the positions; `HeadIsLeast` that order between parents and children makes the head a least
element. The rounds of `up` and `down` keep the slice a permutation (`Permuted`) and the
order everywhere but at one place (`OrderedAbove`, `OrderedAround`); a loop has at most as
many rounds as there are positions, so it ends where the order holds. The induction over the
rounds is `SetInduction`, derived from the well-foundedness of `<` on `Nat` and stated for a
set instead of a predicate. The last conjunct of `HeapPushOK`, that the pushed element lies
above strictly greater ones only (`StrictAt` in the proof of `up`), is what lets
`matchSnowflake` raise `clients` after the push without `heap.Fix`. The last section is
about slices in no order and with index fields that are wrong (`Loose`), as
`SnowflakeHeap.Remove` leaves them: the heap operations still neither lose nor double an
element but for the one they add or take (`LoosePush`, `LoosePop`, `LooseRemove`).

`BrokerPollProofs` (any number of proxies, clients and polls): `PoolIntactHolds`,
`TimedOutLeavesHolds` and, as a refinement, `LeastLoadedFirstHolds`. `IInv` says that both
heaps are in order and hold Snowflakes of their own kind, that the index of a Snowflake in
neither is -1, and that a poll waits exactly while its Snowflake is in its heap: this is
what makes the position that a timeout uses the right one.

`BrokerProofs` (any number of proxies, clients, offers, notices, rescales and restarts).
First `AllClientsMigratedHolds`. `BrokerInv` says of every rescale that a listed client with
no transfer posted yet, at an address whose slice has not been disturbed (`moved`), has an
entry in the slice of an address ahead, at the present position or later if that slice is
being walked (`Owed`, `Walk`), and that the client read in this round still stands at the
position (`AtIdx`). What notices do in between is followed down to the arrays: every header,
in the map or in a notice's hand, lies within its array (`ArraysSound`, `NoticesSound`), so
that an append in place or into a new array, a shift and a store either extend what a slice
shows or are noted in `moved` (`AddAppendsOK`, `DeleteShiftsOK`, `NoticeStoresOK`). A walk
survives slices that only grow (`WalkGrows`). `Cid2Client` must lead to a struct of its own
client for that (`MapsSound`), whichever handlers allocate. The heaps play no part there:
any match will do. Then the pool: `TypeOKHolds` rests on `PoolInv`, that both
slices are `Loose` and hold allocated Snowflakes, none of them twice, so that a slice is
never longer than `MaxFlakes` (`FewDiffer`, a pigeonhole argument). `FleetSound` says that a
Snowflake in the unrestricted heap is the one indexed under its address and that no rescale
is to remove that address; it is kept because an address that polled does not poll again,
and because `RemoveRuns` follows the critical section of `Rescale` through its rounds, each
of which removes the one element its address has (`SliceRemoveAllOK`). `PoolConsistentHolds`
follows.

`QueueProofs` (any number of clients, WebSockets, writers, packets; any queue size and
timeout): `QueuesServeOwnersHolds` and the refinement `ExpiresExactlyHolds`. `SweepOK` is an
induction over the rounds of `removeExpired`: what the head's age decides holds for the rest
by `HeadIsLeast`. `QueueInv` adds to the consistency of heap, index and map that every
channel has one owner for good (`Owned`, an existentially quantified history), whoever holds
it after the lock is released, that the map holds the open channels and no other
(`OpenSound`), and that a waiting write loop used the map when it began to wait
(`WaitersSeen`), without which a sweep could cut off a client that is not idle.

`ServerProofs` (every capacity, zero included, and any number of ClientIDs, addresses,
listeners, sessions and streams). First the address memory alone: `TypeCorrect` needs the
wrap-around lemma only. The correctness of the lookup map is the conjunction `Inv` of the
type, `CurrentPointsHome` and `CurrentIsNewest`; neither of the last two is inductive alone:
that a lookup points home after its slot was reused needs that `Set` clears exactly the
mapping that points at the slot, and that the newest entry survives needs the ages of the
entries, `Rank`, which a `Set` shifts by one (`RankAfterSet`). From `Inv`:
`LookupMapCorrect`, `ForgetsOldest` (an action property), and `Refinement`, that the
circular buffer implements `RecentAddrs` under the mapping that unrolls the buffer from its
oldest slot. Then the server: each of its steps is a `Set` or leaves the memory alone
(`ServerStepsMemory`), so `ServerRemembersWindow` and `ServerFindsNewest` follow. `SInv`
adds the types of sessions, streams and accept queues, that bind addresses main has not
reached have neither a server nor a report (`BindingOK`), and that the memory answers with
the newest address or none (`AnswersNewest`); `ServerListenersSound` and the action property
`ServerCreditsMostRecent` follow.

The last part of `ServerProofs` is the way upstream (any number of clients, any lengths,
queue and pool, a cut at any byte): `DeliveredInOrderHolds` and `ChunksSoundHolds`. `UpInv`
has four parts. `UpTyped` is the type. `StreamInv`: a WebSocket holds whole chunks as the
encapsulation writes them (`Framed`), with rising numbers, but for a last one that a cut
left in part, so that the read loop's error tells the two ends apart. `BufferInv`: a buffer
is in the pool, in the queue or in one reader's hand, and in one of them only; this is what
keeps a queued packet from being overwritten. `PipeInv`: of one client, the packets
delivered come before those queued, these before the one in its reader's hand and that
before those in its WebSocket, without a gap unless a packet was dropped. What a prefix
decodes to is a matter of arithmetic for each of its one to three bytes, since the code
refuses longer ones.

`WebRTCProofs`, `Migration` (any set of proxies, any number of sessions, orders, messages
and faults): `OrdersArriveHolds` and `MakeBeforeBreakHolds`. The first rests on `Basic`:
sessions are made in the order of their numbers and are blank before. The second needs
`CleanOK`: while no handover has met anything else, either nobody uses `connected` (`Rest`),
or exactly one peer hands over, its successor is the only other one that lives, and the
signal is sent exactly when that one has opened (`Handover`). The attempt showed a case
TLC's two sessions do not reach, a peer collected while a callback is in progress, and the
history `clean` now excludes it.

`WebRTCProofs`, `Rendezvous` with `NATProbe` (any number of servers, datagrams, calls and
configurations): `RestrictedClientReachedHolds` and `CountsSoundHolds`. `ProbeInv` says that
one test at a time uses the probe's one message, so that without a repeated datagram the
second answer is compared with the first, and that a NAT found unrestricted then maps
independently of the address (`NATKnown`). `OffersTrue` carries this through the client's
message into the handler, which takes from the restricted proxies only for a client that
says so. For the counters, `PrintedAddsUp` says how printed and counted denials add up at
each of the logger's positions; a denial that is between its read and its write holds the
lock (`LockHeld`, `ReadStands`), which the reset does not look at, hence `raced`.

`ClientProofs`. `RedialPacketConn` (every queue size, any number of dials and packets): the
inductive invariant `RedialInv` says which conn is in use and with which goroutines, that
conns not yet dialled have none, that a writer which has taken a packet after its conn was
closed is on its way out (`StolenStops`), and that an exchange is left only with one of its
goroutines done (`LeftHasOneDone`). `StealsAtMostOneHolds` and `AtMostOneBlockedHolds`
follow.

`Peers` (every capacity, any number of transfers and peers): `IInv` ties `collectLock` to
the stretch of `Collect` past its check of `melt`, and the closed channel to a closed
`melt`; `CollectSendsOnOpenHolds` follows. For `EndReachesAllHolds` the invariant `Reach`
counts: a peer of `Collect` that neither the list nor `Collect` holds was lost by a race,
and the length of the list, which `Collect` compares with its capacity, still counts it
(`StraysCounted`, an argument about cardinalities).

`Front` (any number of connections and options): `OptionsSoundHolds`. `ArgStands` says that
between a handler's write to the shared configuration and its `Dial` the configuration holds
that handler's option, unless another handler wrote it meanwhile; `UnusedBefore`, that a
transport is made once. The types need `ReleasesAll`: what a `Dial` that failed still has to
release is what it holds, in the order of its deferred calls.

`ProxyProofs`. `Relay` (any capacity): `TokensReturnedHolds`. That a session returns at most
one token is excluded only by where `addHandler` and the data channel's handler are, so
`RelayInv` counts one token for each that has passed its `tokens.ret` (`TokensCounted`), and
says that there is no handler before the client has an answer.

`ProxyTasks` with `Periodic` (any number of goroutines, starts, connections and bytes):
`ChainsSoundHolds` and `TrafficNotInventedHolds`. `ChainsInv` says of a task never closed
that while it does not run all its goroutines are at rest, and while it runs it has one
armed timer or one execution, not both; a `Start` that comes later finds `running` set.
`AmountsSound` follows the bytes of a connection through the logger's channel and counter,
the sum and the event bus: as long as no connection ended during a `logTick`, what is in
these places and what was printed do not exceed what was relayed, at each of the positions
of a `logTick`.

Only model-checked: the liveness properties (`HandoverCompletes`, `SessionEnds`, `ReadersEnd`
and the like), which need fairness and `ENABLED`. They hold of the runs' instances.

## Not modelled

AMP armor, name matcher, log scrubbing, IP counting (conversions of data); uTLS (one
pending connection between two calls, the next candidate); statistics of the broker by
country and its Prometheus counters; `ProxyAnswers` and `isRestrictedFiltering` (no
caller); probe test, distinct counter, cost analysis (stand-alone tools). The Python half
of the system (controller, instance manager, WireGuard proxies, matching simulation) is
planned. KCP, smux, WebRTC, tor and Go's runtime are external and appear by what the code
sees of them.

## Plan

1. `Controller`: assignment, scale up and down, swap, id counter, with two requests at a
   time and proxies that refuse the connection. Abstract specification: an assignment
   table with capacities.
2. `Rejuvenation`: the instance manager's loops, composed with `Controller` and
   `WireGuardProxy` (accept, forward, migrate with its three lists). Property: no client is
   left on a terminated proxy; two fleets at most are alive. Proof: the safety of the loop.
3. `DeferredAcceptance`: the simulation's matching against the definition of a stable
   matching over all small preference profiles; then the censor's rounds around it.
4. The uTLS round tripper and the name matcher.
5. Proofs for these: the capacity of `Controller`, the safety of `Rejuvenation`'s loop.
