# NetPulse Monitor: TLA+ models and proofs

NetPulse is a network monitor (a Python process with an HTTP server, collectors
and an SQLite database), a peer-to-peer mesh of nodes (asyncio, WebSocket) that
call each other's services, and a desktop program (threads around a Tk loop).
This directory holds models of their protocols, the TLC configurations that
check them, and TLAPS proofs about them.  Every definition is written from the
source; `PROJECT.json` names its lines.

Paths below are relative to `src/netpulse/` unless they begin with `src/`;
`net/` is `p2p_core/networking/`, `modules/` is `p2p_core/internal_modules/`,
`services/` is `p2p_core/services/`.

## 1. Inventory

| Component | State it keeps | Operations | Modules |
|---|---|---|---|
| Incidents (`operations.py`, `mikrotik.py`) | tables `incidents`, `incident_timeline`, `router_health` | `open_incident`, `change_incident`, `observe_router`, `receive_alerts` | `Incidents` |
| Notification delivery (`notifications.py`) | table `notification_delivery`, a semaphore of 32 slots, 3 workers, the stop event | `enqueue`, `_deliver`, `_send`, `stop`, `history` | `Notifications` |
| Peer links (`net/network.py`, `net/node_connector.py`) | registries of sockets, transport cache, status of the peer | accept, replace, dial, handshake, keepalive, close | `PeerLink` |
| Neighbour tables (`net/neighbor_table.py`) | an entry per node: status, via, hops, age | `register_connected`, `merge_gossip`, `sweep`, `mark_unreachable`, `touch` | `Mesh` |
| Remote calls (`net/router.py`, `net/sessions.py`) | sessions, answers owed to clients, methods under way | `call`, `handle`, `_forward`, `_on_remote_request`, `_route_back` | `Rpc` |
| Mesh client (`mesh.py`) | pending calls, a socket, a lock | `call`, receiver, reconnect, keepalive, stop | `MeshClient`, `MeshCall` |
| Streams and downloads (`modules/memory.py`, `net/stream_registry.py`, `services/files`) | pipes, acknowledgements, the `.part` file | serve, feed, acknowledge, resume, cancel, verify, rename | `Transfer` |
| Self-update (`modules/updater.py`, `modules/update.py`) | program, backup copy, state file, helper | check, download, apply, confirm, roll back | `Update` |
| Editor of `config.yaml` (`services/config`) | file, temporary file, backups | save, restore | `ConfigFile` |
| What a node keeps on its machine (`services/system`, `services/purge`, `config.py`) | settings, autostart, program | connect, rename, autorun, purge | `Machine` |
| Service loader (`services/loader.py`, `manager.py`, `context.py`) | modules, methods served, swaps under way | scan, reload, start, stop | `Loader` |
| Index of certificates (`modules/certs_index.py`, `services/certstool`) | certificates here and offered elsewhere, digests | fetch, load, mend, delete, sync, merge | `Certs` |
| Web panel (`services/webpanel`) | process on the port, a client per tab, pending calls | start, stop, login, call, reconnect | `Panel` |
| Speed tests, scans, bridge (`services/speedtest`, `nmap`, `netpulse`) | registries of tests, events, processes | download, upload, sweep, scan, summary, write | `Tools` |
| Jobs (`server.py`) | jobs, slots, pool, the CVE lock | `submit_job`, `prune_jobs`, watcher, poll | `Jobs` |
| Requests (`server.py`) | failed logins, the actor per thread, audit | `do_GET`, `do_POST`, login | `Http` |
| Settings (`config.py`, `onboarding.py`, `services.py`) | configuration in memory and on disk, a lock | `apply_settings`, `save_device`, whitelist | `Settings` |
| Backup (`server.py`, `recovery.py`) | bundles, stamp of the day | create, rotate | `Backup` |
| Watchdog, healing, runbooks | streaks, times of events and of rules | poll, note, heal | `Watch` |
| Persistence (`src/core/database.py`) | pool of connections | execute, retry, close | `DbPool` |
| Monitoring service (`services.py`, `planner.py`, `backupwatch.py`, `customchecks.py`) | alerts, connections, devices, route samples, quotas, dates | `push_alert`, escalation, loops of the parts | `Alerts`, `Ids`, `LanScan`, `Mtr`, `Quota`, `Duties` |
| Desktop (`src/main.py`, `src/core`, `src/ui`, `src/ai`) | buffers of samples, windows and their workers, model, settings | measure, trace, check, train, save, export, shut down | `Pinger`, `Sniffer`, `Windows`, `Desktop` |
| Other node services, scanners and inventories, pages, legacy | none that outlives a call, or presentation | | none, see section 6 |

How they interact: collectors and the webhook write incidents in transactions
and then enqueue notifications, so an exception in between separates the two.
Links feed the tables (a connection registers a neighbour), the tables choose
the relays of remote calls, and the tasks that read a link execute what they
read, so a slow method may hold up a link.  HTTP threads reach the mesh through
the client, and wait for jobs of a pool.  The watchdog's events start runbooks.
The loops of the monitoring service meet in `push_alert`; the windows of the
desktop meet its loop; its end has to stop, flush and close in an order.

What is hard here: threads and transactions that act on what an earlier
transaction or a copy said; tasks that go on after an `await` with what they
knew before it; sockets and services that are replaced while their old owner
still has its `finally` to run; tables and registries shared by calls that
believe they are alone; answers that come after their timeout; files that are
replaced in several steps with a crash between any two; shutdown in the middle
of it all.  `hazards` in `PROJECT.json` has forty such places by line.

## 2. How the project is laid out

One module per component (above), written so that it stands alone: its state,
one action per operation, its properties, and before them the mutated forms of
some definitions, which the properties must refute.  The mesh and the
server's protocols have a run of their own.  The other parts are
small and their models share no variable, so three modules compose them,
`Node`, `Hub` and `Monitor`, with the sizes as constants.  `MCNode`, `MCHub` and
`MCMonitor` give them small ones, and `NodeProofs`, `HubProofs` and `MonitorProofs`
prove about them.  A variable `which`, chosen at the start, says which part a
behaviour is about, and the others stand still.  That is no less than an
interleaving of the models would show, because no action of one reads a variable
of another, and it costs the sum of their states and not the product.  In the
program some of these parts do meet, and what follows from that is not shown:
`ConfigFile` and `Machine` both have a `config.yaml` (`HandEdits` of `Machine`
stands for a save of the editor, whose own model has no purge), `Update` and a
purge both move the program, and the jobs of the server run what other modules
model.
Fairness is stated per part with `which` in the action, so that a part that
stands still is owed nothing and a liveness property cannot hold for want of a
fair behaviour.

Abstract specifications: `MeshCall` is what a caller of the bridge is promised,
and `MeshClient` implements it (checked and proved).  Left for later: `Rpc` as
an implementation of the same promise; two `PeerLink`s as the two ends of one
connection in place of the environment actions of `Mesh`.

## 3. Modules, runs and what they show

Fairness is about steps of the program that it takes by itself: a thread that
can run runs, a task of the event loop goes on, a socket operation ends by its
timeout.  It is weak but for three actions.  `Mesh` needs strong fairness of
`Age`: time passes at a node although the model lets it wait while frames are
under way.  `MeshClient` needs it of `DialSucceeds`, which takes the lock that
callers take in between, each of them once, from a server that can be reached
again and again, and of `ReadFails` on a socket that is not open: a lost
connection is noticed although reads may time out before.  Nothing is assumed
of operators, of faults, or of when requests come.

### Incidents (`MCIncidents.cfg`)

`status`, `key` and `nextId` are the table `incidents`; `failures` is
`router_health`; `maint` says whether a window is open.  `colPc` and `webPc` are
the places where the poll thread and a webhook thread stand between two
transactions.  One action is one transaction, because SQLite serialises them
(`BEGIN IMMEDIATE`); reads in a transaction of their own are actions of their
own.  Faults (an exception in a transaction) are bounded by `MaxFaults`.

Shown: one active incident per key (`OneActivePerKey`); openings and closings
announced once, and none unannounced without an exception (`Announced`); the
life cycle (`LifeCycle`); a router that stays down is reported in the end and
one that stays up is cleared (`ReportedAndCleared`).

Bounds: one router, whose key the webhook shares, batches of at most two alerts,
two incidents in a behaviour (liveness claims nothing once they are used up),
failures counted up to three (the code looks at the second), one fault.  The
collector and a request are two writers with a lookup and a write each, which
already gives every order of these.

### Notifications (`MCNotifications.cfg`)

A caller of `enqueue` and a worker of the pool each have a place in the code;
`row` is the table.  The receiver is external: it may take a message and answer,
or the send raises before or after the receiver took it (an answer that times out
or cannot be read, `notifications.py:95`).  `accepted` counts what a receiver has
taken and `heard` what the service has been told of it.  `StopEvent`, `PoolShutdown` and
`CloseDb` are the steps of shutdown, and every database call that follows
`CloseDb` raises.  `Restart` runs `__init__` on the rows that are left.

Shown: no slot is lost (`SlotsConserved`); a receiver has a message at most as
often as its row counts attempts, one whose arrival the service was told of is not
sent again while the database works, a row says "sent" only of such a one, one
that says queued or sending has somebody working on it, the history is bounded
(`HistoryTrue`); every accepted row reaches a result and keeps it, over restarts
(`EveryRowFinishes`).  That a message arrives at most once, and that one which is
told "failed" has not arrived, is refuted (section 5).

Bounds: two slots (32 in the code), two channels, one worker (3), one caller that
comes again and again, two attempts (3), one finished row kept (2000), ids up to
4, one fault.  The caller can fill the slots while the worker sends, so the limit
is reached, and the purge takes some rows.  Workers take different rows and meet
only in the counters of the semaphore, about which `NotificationsProofs` speaks
for any number of them.

### PeerLink (`MCPeerLink.cfg`)

One node and one peer: `Inbound` connections that the peer opened (several,
since it reconnects before the old one is noticed) and `Connector`s of this node.
An action is the code between two `await`s.  `nodeWs`, `clientWs` and `cache` are
the registries; `status` and `quiet` the entry of the table; `inPc`, `conPc` and
the like the places of the tasks.

Shown: what is registered has a task that will remove it, the cache names a
registered socket or one being replaced, one incoming connection is live
(`RegistriesSound`); closed sockets leave (`DeadSocketLeaves`).  A socket that is
half dead and was never closed is another matter: it is pinged until a send
raises, and nothing is claimed of it.

Bounds: two incoming connections and one connector, enough for a replacement
under way while the connector acts; time has three values (fresh, quiet, dead)
because the code compares with two limits.

### Mesh (`MCMesh`, `MCMeshChain`)

`table[n]` is the `NeighborTable` of node n.  Gossip frames are messages under
way on a connection; one that breaks loses them.  `merge_gossip` is a fold over
the frame's entries, `sweep` the two passes over the dict.

Shown on a triangle: no two nodes route through each other and distances are not
understated (`RoutesSound`), a relay was a neighbour once (`ViaWasNeighbour`), a
direct entry is not overwritten (`DirectStays`); on a chain, in the long run: a
node that is gone is forgotten and one that is there is known (`TablesHeal`).

`MaxChanges` bounds lost and new connections and restarts (5 in the triangle, 4
in the chain), which suffices for a node to leave, come back and leave again.
The triangle is symmetric and TLC uses that; liveness is checked without it.
Time: `age` says which deadline of `sweep` an entry has passed.  A connected peer
is heard every 30 s, and `_keepalive_loop` marks a silent one after 90 s, so its
entry passes no second deadline (`Older`); a frame does not stay under way for
the 300 s of `ttl_unreach`, at the node it comes from or the one it goes to
(`Age`).  That no two of many nodes route through each other rests on both facts
(section 4).

### Rpc (`MCRpc`, `MCRpcBlocked`)

The packets of a call between nodes, the path each carries and the answers on
their way back.  `peers` are the sockets a node still holds, the connections
there really are may differ until an end notices.  `busy` is a reader that
executes a method itself, which only the end that dialled does.  Routes are
environment: they may change to any neighbour at any time, which covers every
table that `Mesh` can produce, loops included.

Shown on a ring with a client and a call that calls another node: at most one
execution, true answers, requests that do not circle (`CallsSound`), sessions
only of calls that wait or whose send raised, whose session does stay
(`NothingKept`), readers that go on (`ReaderFreed`).  `MCRpcBlocked`
refutes that a call needs no timeout where nothing fails (section 5).

Bounds: two calls over four nodes and a client, `Ttl` 4 (16 in the code: the path
check stops a loop before either value does), two changes of connections or
routes; the refuted run has a chain of three with no change.  Only `TimedSpec`
lets timeouts be relied upon.

### MeshClient, MeshCall (`MCMeshClient`)

`pc` is where a calling thread stands in `call`, `rpc` where the thread
`p2p-mesh` stands; `lock` is `_lock`, which the receiver holds while it reads.
`pending` is changed by callers without the lock: the walk of `_resolve_all` is
one action per entry, and it raises when the table has changed its size, as the
iterator of a dict does.  `aligned` is lost when a read times out in the middle
of a frame.

Shown: the promise (`Implements`), no entry left behind (`PendingOwned`), the
thread goes on and ends when it is stopped (`ReceiverGoesOn`).  Two callers
suffice for one to change the table while the other's entry is walked over; two
sockets are reused for any number of reconnections.  That every call ends is not
claimed: the receiver takes the lock again at once, and Python's lock is not
fair.

### Node (`MCNode`): parts of a node

| Part | What its model holds | Bounds |
|---|---|---|
| `Update` | files and processes of node and helper, power failures between any two steps | three versions: one that dies, one whose package is wrong; two faults |
| `ConfigFile` | two overlapping calls, the conflict check, the mask of the secret, one temporary file that is opened, written and moved, backups | one text that is valid and one cut off, two secrets; four writes; one backup kept (10) |
| `Transfer` | the source's thread, dispatcher and pump, the reader, the consumer, `.part` and rename on Windows | two downloads of one file of two chunks, pipes of one; `.part` shorter than twice the file |
| `Certs` | two nodes, their loops and digests, jobs of several steps with CryptoPro | one certificate, two jobs, one fault |
| `Panel` | process, tabs, clients under one id, late answers | two tabs with a call each, one fault |
| `Machine` | `config.yaml`, autostart, program, a purge item by item, its starter, crashes | one peer, two names, two calls, three choices of items, one fault |
| `Loader` | the service's versions, swaps, startup and shutdown | three versions, two methods, one fault |

Shown: `ProgramsSafe` (a program to go back to is at hand and none is replaced
under a running node; the node's panel is its own and hears one client; one
instance of a service serves, runs and is stopped, while swaps do not overlap);
`ConfigSound` (the file stays valid unless two calls write at once, what a save
that nothing overlaps replaces can be restored, the node uses what the file says
until somebody edits or purges it, a purged program stays away wherever the purge
was cut off); `HeldAsTold` (a
file with its final name is whole; a certificate offered or reported is there;
no answer is kept for nobody); `WorkEnds` (every update ends with a node that
runs, every download ends, the indexes agree).  The second backup or version
suffices for a rotation or a rollback; downloads are alike, so what is shown of
one holds of the other.  `MCUpdateTwice` refutes that a version is rolled back
once (section 5).

Three simplifications.  `ConfigFile` assumes that the placeholder of the secret
stands where `get` has put it, on a line of its own, because only there does
`_unmask_secret` find it (`services/config/service.py:47`).  A window and a pipe
of one in `Transfer` lie below what the code allows (two), so `WorkEnds` rules
out a deadlock of window, acknowledgement and pipe for a tighter case only; with
two of each the states are too many for a run, while the invariants of
`HeldAsTold` are proved for any sizes.  `Loader` makes the start of a service's
new instance one step with its registration, and `Panel` leaves out that an old
panel may refuse to be killed (`AccessDenied`).

### Hub (`MCHub`): parts of the server, and tools

| Part | What its model holds | Bounds |
|---|---|---|
| `Jobs` | requests, slots, queue and threads of the pool, watcher of a scan, the CVE lock | a scan, a polling request and two CVE checks, two slots, one thread, two jobs kept |
| `Http` | handlers up to the audit, throttle, state of each thread | four requests of one address, in two instances: changes and a failing login; reads, a receiver and a login that succeeds |
| `Settings` | copies under the lock, the writer without it, saves and loads | four changes by three kinds of writer, two faults |
| `Watch` | polls that overlap, streaks of targets, rows of names, events with windows, healing with its rate | two cycles (three begun) of two targets that are one machine, its name and its address; offline after two polls |
| `Backup` | the loop and two jobs, staging, renaming, rotation, restarts | four bundles, one kept, two days, one fault |
| `DbPool` | borrowed and temporary connections, retries, close | two threads, a pool of one, two attempts |
| `Tools` | tests with their streams, registries and events; sweeps and scans; writes repeated | two downloads and an upload of two chunks, two hosts, one fault |

Shown: `NothingLeaks` (slots, the CVE lock and connections come back, no process
outlives its scan); `Reported` (the audit names who did what, events and healing
follow the polls, a speed test tells what came); `StateKept` (a change made under
the lock is kept and a refused one has no effect, the newest bundles are kept);
`JobsEnd`.  The end of a job takes three steps (the work and its lock, the
outcome, the slot), between which requests come in.  A target of the watchdog is
a name or an address, its streak is its own, and an answer marks the row of the
name that the machine reports (`Says`), which the address is not; the targets are
polled in the order of the list as far as it is fixed (`Before`).  Each limit is
reached: four requests for two slots, two threads for
one connection, four bundles for one kept.  The two downloads of `Tools` share
their registries, and two chunks tell a partial from a whole stream.

### MCMonitor: parts of the monitoring service and of the desktop

The reminders and the desktop come in mixes, which `Monitor` takes as constants
(`Duty`, `Use`): what a behaviour holds of works, backups and checks, of training,
dialogs and the end of the program.  `MCMonitor` has three of each, and the
theorems hold for any.

| Part | What its model holds | Bounds |
|---|---|---|
| `Alerts` | threads in `push_alert`, the escalation's rows and its set | two threads, one type, two alerts, four moments |
| `Ids` | connections of a sample one after the other, endpoints seen, the window of ports, the list of events | one process, one address, two ports, six new connections, three events kept |
| `LanScan` | two scanners, the lock, table and memory | two devices, one trusted, two faults |
| `Mtr` | starts and stops without a lock, the thread, the schedule | two callers, two targets, two threads |
| `Pinger`, `Sniffer` | buffers and counters with writers that overlap | five samples; three bytes with a wrap after one, two threads, two addresses and one kept |
| `Duties` | works, backups, checks (an instance each) | two of each, two runners |
| `Quota` | counters, rows of the day, the cached answer, the limited alert | one interface, two readers, at most one midnight |
| `Windows` | a window, its tracer and workers, closing while they work | one window of either kind, two workers, five things to come across |
| `Desktop` | loop, training, dialogs, exit (three instances) | two trainings; one alert; three samples of two sources |

Shown: `AlertsTold` (what is told is so and is not repeated within its limit
unless two threads overlap; connections, devices and quotas likewise);
`DutiesDone` (what is overdue, stale or checked is noted, and only that);
`MeasuresTrue` (one thread probes one target, no sample or byte is lost or
written twice but for the cases named in the properties; a window has one worker
and shows its own results; an analysis uses one model; the exit writes what was
measured); `LoopsDo` (an alert nobody reads is told again, a probe stopped for
good ends, buttons come back, the badge agrees with the alerts, the shutdown
ends).  One window is enough, because two windows share nothing.

What `AlertsTold` says of scans is that each stands for as many new connections
as the threshold, which no other scan counts.  It does not say endpoints: several
connections of a process to one endpoint in one sample are all new
(`services.py:141`), and so the ports of one scan may raise another.  The table of
addresses in `MeasuresTrue` may exceed its bound by what came since the last
cleaning, which is due once a minute only (`src/core/sniffer.py:207`).  An
escalation is told when it is handed to the notifications, even if no channel has
a slot for it (`notifications.py:49`).

The exceptions in these properties (`overlap`, `clash`, `late`, `caught` and the
like are history variables) exclude what the models themselves show: two threads
that report one type at once both get past its limit (`services.py:1309`), and of
two runners of checks one may undo what the other has written
(`customchecks.py:94`).  The properties are silent on these cases.

## 4. Proofs

All theorems hold for every value of the constants, under the assumptions named
in the modules (finite or infinite sets of nodes alike, distinct null values).

* `MonitorProofs`, first of `Incidents`: `TypeCorrect`, `OneActive`, `CollectorActs`,
  `LifeCycleHolds`, `TransitionsAnnounced`.
  The invariant adds to the property that rows from `nextId` on do not exist yet,
  so that an insertion of a key with no active row leaves exactly one; and that a
  thread between lookup and write holds the id of a row that exists.
  `TransitionsAnnounced` needs who still has to tell (`AInv`): between its
  transaction and its telling a writer owes a note, the collector by its place, a
  request by its list.  One owes it, of a transition that is committed and not told
  yet; as long as nothing fails, the opening of every automatic incident is owed or
  told; a request that is idle owes nothing.
* `NotificationsProofs`: `TypeCorrect`, `PermitsConserved`, `HistoryIsTrue`.  The invariant adds
  that a back-off is only entered below the last attempt and that the scan of
  channels has not ended while a caller holds a slot; slots are counted with
  cardinalities of the callers and the workers that hold one.
  `HistoryIsTrue` needs who answers for a row (`HInv`): one caller, one place of the
  queue or one worker, and what the worker knows of it by the place where it stands:
  before its next attempt the service has heard of no arrival, and the receiver has
  the message as often as there were attempts at most.
  That the table is bounded is counted: unfinished rows, callers about to insert and
  workers about to leave hold a permit each until the pool is closed, and of any set
  of rows the DELETE leaves at most as many as it retains.
* `PeerLinkProofs`: `TypeCorrect`, `RegistriesAreSound`.  The parts of the
  property are inductive together with the types: whoever registers a socket
  stands in a place whose `finally` removes it.
* `MeshProofs`: `TypeCorrect`, `RoutesStartWithNeighbours`,
  `DirectConnectionsStay`, `RoutesAreSound`.  For the first three the invariant
  adds that connections there are have been, and that frames travel only between
  nodes that have been connected; the fold over the entries of a frame is handled
  by a lemma on one entry.  `RoutesAreSound` says for any number of nodes what
  the run shows for three, and needs the frames under way (`Routes`): what a frame
  tells has a path (`Honest`), its sender still holds an entry as short that the
  next sweep leaves (`Backed`), and if the sender leads to the receiver by now,
  the receiver holds such an entry and will not take the frame's (`NotBack`).
  These facts are proved about any tables and frames, not about the variables, so
  that a step which does two things (a sweep and its gossip, a registration and
  its merge) is two uses of a lemma.
* `MeshClientProofs`: `TypeCorrect`, `PendingIsOwned`, `PromiseKept`.  The
  invariant adds that an answer belongs to a request that was sent, that a
  result in a dict is such an answer, that a caller that was woken finds its
  dict filled, and that outcomes and places agree; the refinement goes action by
  action, most of them stuttering.
* `RpcProofs`: `TypeCorrect`, `NothingIsKept`, `CallsAreSound`.  The invariant adds that packets
  are under way only on connections that exist, that both ends of one hold a
  socket, and that a request which is not for the node it goes to comes straight
  from its caller with the full `Ttl`, which is why two steps of
  `_on_remote_request` cannot exhaust it.  `CallsAreSound` adds that a call is in
  one place only (`CInv`): its request or its answer under way, or one method that
  runs, and it has been executed exactly if it is past its request; of a call that
  has its result nothing is left.  The request's path has no node twice, which
  bounds it and leaves its `ttl` enough.
* `HubProofs`: `TypesHold`, `NothingEverLeaks`, `ReportsAreTrue`, `KeptStateStays`,
  the four invariants of `MCHub`, for all sizes that `Sizes` allows.  `Hub` names what
  the code fixes of them: requests and threads are finitely many, the table keeps at
  least as many finished jobs as there are slots less one, a rotation keeps one bundle
  at least, a login may fail once.  Each part has an inductive invariant of its own and
  a lemma that its steps keep it (`JobsNextInv`, `HttpNextInv`, ...); `HubSteps` says
  that a step of the hub is a step of one part and a stutter of the others, so that
  `HubNextInv` is those lemmas together.
  * Jobs: a slot is missing for each running job, a task is in the pool once and only
    after its request has put it there, each finished job is listed once; with these,
    pruning leaves at most `KeepJobs` finished jobs and the one that finishes.
  * Http: a thread that is about to run its handler has been permitted and holds its
    sender; only a thread that has been answered has a row.
  * Settings: whoever has made a copy under the lock still holds it, so the copy
    contains every acknowledged change; what is not in place yet is in no copy of
    another request; and, as long as nobody has changed the whitelist, the file is the
    copy of whoever has saved and not yet updated.
  * Watch: while no two cycles have overlapped one is under way at most, and for every
    target the histories, its streak and the row of its name agree by the place where
    the cycle stands in the plan of its poll.
  * Backup: the numbers of the bundles above `made - KeepBundles` are all there, what is
    listed to be removed lies below, and what lies below is listed once nobody is about
    to rotate.  That the bundles with at least `KeepBundles` newer ones are those below
    is counted, by an injection into an interval in one direction and a surjection in
    the other.
  * DbPool: a connection is held only between its borrowing and the `finally`, the pool
    stays empty once `close` is through, and a statement that may be tried again has
    had no effect.
  * Tools: a count is written at the end of its stream, which nothing changes after;
    a host of a scan has a row exactly when its part is no longer under way.

* `NodeProofs`: `TypesHold`, `WhatRunsIsRight`, `ConfigStaysSound`,
  `WhatIsToldIsThere`, the four invariants of `MCNode`, for all sizes that `Sizes`
  allows (a version is installed, a batch and the backups hold one at least, the index
  is of two nodes), put together as in `HubProofs`.
  * Update: the helper renames, copies and starts only while no process of the node
    runs and has a program of its own throughout; during an update what is in place
    is another version than the new one until it is copied, and what was in place is
    `.old` from then on; a node that rolls back by itself meets no helper but one that
    watches a restart.  So an unconfirmed version always has another to go back to.
  * ConfigFile: a call that nothing has overlapped is the only one under way, what it
    replaces is the newest backup, and the temporary file holds what it was given; as
    long as no two calls have been writing at once, an open handle is that of the one
    writer, so what is moved in place is a whole text; the rotation keeps the last of
    any number of backups.
  * Transfer: the chunks of a download on the link and in its pipe are increasing, those
    in the pipe come before those on the link, and all lie between what the consumer has
    written and what the source has yet to send (`TransferFlow`).  That is a statement on
    every pair of positions of two sequences, and each of the operations on them (append,
    take the first, drain, drop) is one lemma about any two such sequences.
  * Certs: what a node has, lists, has put on the wire or is asked for lies in what it
    held once; a job that has passed its installation has a certificate that is there
    while no other job takes it away.
  * Panel and Machine: the properties are inductive with the types and, for the panel,
    with where a call that has returned stands.
  * Loader: an instance of a service is not made yet, waits in a swap, is in the list of
    modules or was stopped by the swap of its successor, and runs accordingly; startup
    and shutdown have done their part of the list up to `pos`.

* `MonitorProofs`, of the composition: `TypesHold`, `AlertsAreTold`, `DutiesAreDone`,
  `MeasuresAreTrue`, the four invariants of `MCMonitor`, for all sizes that `Sizes`
  allows, put together as in `HubProofs`.
  * Alerts: the rows are those below the next id, and the escalation is about rows
    that had waited.  As long as no two threads have overlapped on a type and nothing
    has failed, one thread at most reports a type, no row of it is newer than its mark,
    and whoever is inside is as far from all rows as the limit says.
  * Ids: the connections that scans stood for and those in the window of ports are
    together no more than the new ones.
  * LanScan: whoever does not rest holds the lock; as long as the table could be
    written and read, whoever was told of once is known and what is known is in the
    table; as long as nothing failed, what is known has been told of.
  * Mtr: as long as no two requests have overlapped and nothing has failed, the thread
    that lives is the last one started, with its own target and its own list, and each
    place of a request says how far the stop or the start has come; so a probe that is
    said to run does, and one that is said to be stopped has ended.
  * Pinger: a sample on its way is in the buffer or in one batch and not in the
    database, and every sample is somewhere; after a thread that ended in time, the
    flush of the closer empties the buffer.
  * Sniffer: the thread with the lock and whoever stops it are the only writers, so what
    was seen is what is saved, lost, not yet marked, or carried by these two; a packet
    adds one address at most, and a cleaning leaves no more than the bound.
  * Duties: a stale row has its event or a runner that is about to write it; while one
    runner at a time is at work, what it read is what there is but for its own check.
  * Quota: what was counted and what the next look will count (`Growth`, the bytes of an
    interface above the last look) has gone through; an answer is no more than the table
    holds; the mark is a time at which a level was told.
  * Windows: a window has one worker and knows it; a scan has what the checks it is
    through with were to find; a closed window has told its tracer to stop, so at most
    one ping comes late.
  * Desktop: a trainer holds the lock as long as the model is not of one piece; after
    its own step of the shutdown a source that is still measuring is a straggler, only
    stragglers leave a buffer unwritten or lose samples, and the last step is the one
    that closes the database.

`Quota` and `Sniffer` count with cardinalities and sums of two terms instead of a fold
over a set, because what a fold computes needs an induction the provers cannot do.

Model-checked only: everything under fairness (`LoopsDo`, `WorkEnds` and the like; there
is no ENABLED in the prover) and the counterexamples.  Every invariant of a run is
stated by a theorem.

## 5. Findings

Two runs end in a counterexample to something the source says: after a rollback
the state file still asks for a confirmation, so the version that came back is
counted and rolled back again (`MCUpdateTwice`, `modules/updater.py:147`); the
dialling side executes requests in its reader, so a method that calls back waits
for its timeout (`MCRpcBlocked`, `net/node_connector.py:146`).

For the following the refuted statement is kept in its module, by the name given
here, and TLC refutes it when it is added to the configuration of its run (of a
part, through its instance in the composing module).

* Incidents and mesh.  `AlertmanagerDefers`: the health is read before it is used
  (`operations.py:249`).  `DeliveredOnce`, `FailedIsUndelivered`: an answer that is
  lost after the receiver took the message makes it sent again, up to three times,
  or told as failed (`notifications.py:95`).  `LiveNeighbourNotBuried`: the end of an
  incoming connection buries a peer whose outgoing one lives (`net/network.py:361`).
  `DeadForgotten` on a triangle: two nodes keep a dead third one alive
  (`net/neighbor_table.py:259`).  `ReturnsAnswer`: a lost connection is returned
  as an empty answer (`mesh.py:349`).
* Server.  `DedupWindow`: overlapping polls note an event twice
  (`inventory.py:117`).  `BackIsOn`: a machine polled by its address is marked off in
  one row and on in another, so the first stays off (`watchdog.py:221`).
  `ScanReportTrue`: the alert of a scan says completed of
  one that failed (`server.py:980`).  `RuleKept`: the whitelist is changed without
  the lock and lost (`server.py:1394`).
* Monitoring.  `FanTurns`: the schedule asks whether the probe runs before it has
  started it (`services.py:381`).  `EscalatedInTime`: times are compared as texts
  of two forms, so an alert of the same day is never old enough
  (`services.py:1526`).  `EachDueTold`: the limit of a day belongs to the type, so
  one overdue work hides the others (`planner.py:103`).  `LimitTold`: the warning
  hides the alert that the limit is used up (`services.py:765`).  `RowsTrue`: the
  quota's rows are the speed of the last second, not what went through.
  `DumpRestored`: the dump is read before there is a database
  (`src/core/pinger.py:68`).  `ScansApart`: the connections of a sample are compared
  with the former samples only, so the ports of one scan raise the next one
  (`services.py:141`).
* Node.  `EndAwakes`: the event a speed test waits on is replaced, so every
  download waits for its deadline; `ThreadsBack`: the producer thread of a refused
  upload goes on for ever (`modules/memory.py:239`); `OfflineNotDone`: a write told
  "offline" may have been done, and repeating it doubles it; `Forgotten`: late
  streams leave entries behind.  `ProducerReleased`: likewise for downloads.
  `PasswordReplaced`, `FixKeeps`: certificates keep the password of a transfer, or
  are lost between deletion and installation (`services/certstool/service.py:655`,
  `:788`).  `Reconnects`, `ConnectedKept`: the panel's client cancels its own
  reconnection (`services/webpanel/rpc_client.py:127`, `:124`).  `StarterDeletes`:
  the starter of a purge does not wait for the program to end; `OnlyAsked`: it
  deletes the program when only the process was chosen (`services/purge/service.py:317`);
  `ConfigGone`: a call that awaits its connection writes `config.yaml` again.
  `OneRuns`, `StartedOnce`, `ServedRuns`, `CallsAwayKept`: overlapping reloads leave
  two instances, one added to a running node is not started, calls to the same
  service elsewhere are cut (`services/loader.py:101`).  `ConflictRefused`: two
  saves pass the check of one file (`services/config/service.py:210`).
  `FileStaysWhole`: two saves write one temporary file, which the second empties
  before the first moves it in place (`services/config/service.py:363`).
  `ConfirmsNewVersion`: what is confirmed may be the old version.
* Desktop.  `StopHonoured`: a trace not yet begun survives its window
  (`src/core/tracer.py:98`).  `AllClearTrue`: a check that failed reads as no threat
  (`src/ui/security_window.py:212`).  `Retrains`: the training selects a column its
  table does not have (`src/ui/ai_dashboard_window.py:288`).  `SavedIsTold`,
  `AppliedIsTold`: the window says saved and applied of what was neither
  (`src/ui/settings_window.py:212`).  `SavedAtExit`: the last save finds the database
  closed (`src/main.py:115`).  `RunsWhenItSays`: a counter that has no mode stays
  running (`src/core/sniffer.py:70`).

Seen while modelling, without a property.  Maintenance windows are read once for a
batch (`operations.py:229`).  A replaced socket stays cached while it is being
closed (`net/network.py:195`), a refused outgoing socket counts as active during
the back-off and a deferred connector never dials (`net/node_connector.py:102`,
`:51`), a former neighbour comes back as known with no relay
(`net/neighbor_table.py:260`), a send that raises leaves its session
(`net/router.py:737`).  `DatabaseManager.execute` never raises, so the branch of the
pinger that keeps a failed batch never runs.  `ids` looks for duplicates at the
oldest ten events, and its window never ends.  Failed logins are counted by
several threads with no lock and may be lost (`server.py:95`; `Http` has the step,
no property forbids it).  A second tab under one node id closes the first.
`gather` of the bridge makes blocking calls on the event loop.  An upload that was
refused is told ok.  The level an agent needs for an anomaly is never reached with
its defaults (`src/ai/traffic_agent.py:129`).

## 6. Not modelled

Data that no property is about: titles, payloads, formatting, host names, metadata
of nodes, rates in megabits.  HELLO signatures and TLS.  Scanners and inventories,
and node services that only call the operating system: they keep no state between
calls.  The pages of the web panel and the layout of the desktop.  The numerical
models of the agents.  `_legacy` and the tools beside it, which the running system
does not use.  Streams relayed over a third node; the restore of a backup, which is
done offline; runbooks that wait for a confirmation; a watchdog that is stopped in
the middle of a cycle; the choice between several bridges.
