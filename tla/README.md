# A verification development of travelmode

travelmode is a per-application firewall for Linux: a root daemon
(`crates/daemon`) queues the first packet of every outgoing flow to itself,
finds the executable behind it and drops the packet if there is a Block rule;
a GUI (`crates/gui`) and a command line client (`crates/cli`) talk to it over a
Unix socket. This directory holds TLA+ models of the daemon, the command line
client and the GUI, their TLC configurations, and proofs for TLAPS. Each model is translated from the source
lines that `PROJECT.json` gives for every definition.

## The system

| Component | State | Operations | Talks to |
|---|---|---|---|
| Rule store (`daemon/rules.rs`) | rules and `next_id` behind a mutex; `rules.json`, `rules.json.tmp` | load, add, remove, reap_expired, is_blocked, save | called by dispatch, reaper, worker |
| Firewall (`daemon/firewall.rs`) | nftables table, chain, queue rule; `state.firewall` handle behind a tokio mutex | setup, pause, resume, teardown | runs `nft` |
| NFQUEUE worker (`daemon/firewall.rs`) | one packet in hand, `filtering_active`, `blocked_count` | bind, recv, decide, verdict | pause flag, attribution, rule store, log limiter |
| Log limiter (`daemon/firewall.rs`) | per (executable, destination): window start, suppressed count | should_log | called by the worker |
| Conntrack tracker (`daemon/conntrack.rs`) | map of flows, each with the executable it was attributed to | a pass every few seconds | attribution, event bus, flow killing |
| Flow killing (`daemon/flowkill.rs`) | none | kill the flows of one executable, of all Block rules at the start | flow map, `ss -K`, `conntrack -D` |
| Attribution and scanner (`daemon/attrib.rs`, `procs.rs`, `state.rs`) | inode cache, pid cache, process map | lookup, scan | /proc, event bus |
| Dispatch and lifecycle (`daemon/main.rs`, `state.rs`) | pause flag, all of the above | one handler per request, start, shutdown, reaper | everything |
| IPC server, event bus, framing (`daemon/ipc.rs`, `core/ipc.rs`) | connections, a broadcast channel of 256 events | one request per connection, or a stream of events | GUI, CLI |
| GUI session (`gui/client.rs`, `app.rs`) | stream, command queue | subscribe, fetch, stream, reconnect, commands | IPC, client state |
| GUI client state (`gui/state.rs`) | rules, applications, connections, totals, pause | snapshot, event, tick | pages, tray |
| GUI pages and tray (`gui/pages`, `gui/tray.rs`) | rows in sorted sections, switches, the flag the tray reads | refresh, click | client state, command queue |
| CLI (`cli/main.rs`) | one command | resolve the target, one request, an exit status | IPC, `PATH` |
| Network snapshot (`daemon/netinfo.rs`) | the last snapshot | three netlink dumps and NetworkManager, every 30 s | netlink, D-Bus |
| Configuration (`daemon/config.rs`) | constants | load | |

What is hard in it: one store mutex shared by requests, reaper and packet
path and held during disk writes; saves that fail or are cut short; answers
that are given before the work they report is done (SetPaused); a flow map that
is always a few seconds old while kills rely on it; external commands that
fail; a daemon that dies and leaves its table behind; subscribers that miss
events. `PROJECT.json` lists these hazards at their lines, with the properties
that cover them.

## What makes each component correct

- Rule store: at most one rule per executable and action; ids name one rule for
  ever; what is on disk brings back what was enforced; expired rules go; every
  operation ends; rules are announced.
- Firewall: the chain follows the flag; one queue rule after a start; nothing
  comes back after a shutdown; toggles and shutdowns get through.
- Worker, killing, poll: an acknowledged block holds; a pause lets everything
  through; a flow suffers only for a rule of an executable that a lookup of it has
  named; flows that were known are killed;
  saved blocks reach old flows; every packet gets a verdict.
- Log limiter: every block is counted once; lines are a window apart.
- GUI: once it has caught up it shows what the daemon has; its own lists agree
  with each other whatever it missed.
- Attribution: a process is named only if it held the port during the lookup; one
  that is alone on its port is found; its executable is no older than a scan.
- Locks: no circle of waiting threads.
- Lifecycle: a daemon that is alone is in control whatever was left behind; a
  clean stop leaves only what could not be removed; the service comes back.
- GUI client: widgets settle on the daemon's state; no click is lost.
- CLI: a success means that the daemon did it, to the program that was meant.
- Network snapshot: its parts belong together, and are those of the network.
- Readers (packets, conntrack lines, passwd, configuration, NetworkManager): what
  is read is what was written.
- Pages: the lists are the state, in order.

## Modules

`X_Y` next to a definition `X` is a faulty variant of it (a dropped guard, a
missing reset, another order). No specification uses the variants: they are
there to see that each property fails when `X` is replaced by `X_Y`. The pairs are
in `PROJECT.json` under `mutants`.

### RuleStore, BlockList

`RuleStore` has one thread per IPC connection (`Clients`), the reaper and the
main thread. An operation is: read the clock (`Begin...`), take the mutex and
change the rules (`Lock...`), truncate the temporary file, write it, rename it
(`BeginWrite`, `EndWrite`, `Rename`), publish and answer (`Publish...`);
`SaveFails` may end a save at any of its steps, `Crash` and `Exit` may end the
daemon between any two steps, `Restart` loads the file. A file that does not
parse loads as the empty store, so the empty store also stands for a truncated
file. Rules keep id, executable, action, persistence and expiry; names, profile
and timestamps are left out. `ttl_secs` keeps its conversions: `as i64` of a
scaled-down `u64`, the range where `Duration::seconds` panics, and the overflow
of the date; the third input of the run overflows it and is stored as permanent,
as the code does. `told` is the rule list of a subscriber that misses nothing;
`shown`, `dirty` and `lost` are history.

`BlockList` is what the rest of the daemon may rely on: one verdict per
executable (allowed, temporary, permanent), changed for one executable at a
time, and a durable copy replaced as a whole. `ImplementsBlockList` states that
`RuleStore` refines it, with verdicts computed by `is_blocked`'s rule from
memory and from the file.

### Firewall

The table, the pause flag and the life of the daemon. `SetPaused` stores the
flag, `Answer` publishes, spawns the task and replies, `Lock` and `Toggle` are
the task with and without the tokio mutex; `Boot` and `Install` are `setup`;
`Signal`, `Take`, `Teardown`, `ExitProcess` are the shutdown; `KillProcess` leaves the
kernel's table as it is. `Nft` is one command, which may fail.
`queueRules` counts the queue rules in the chain, because resume appends.

### Enforcement

How a block reaches the traffic. Flows are 5-tuples with an owner; `Connect`
queues a first packet if the chain has a rule and the worker is bound, and lets
it through otherwise (`bypass`). The worker goes through `Recv` (reads the
pause flag), `Attribute`, `Decide`, `Verdict`; the poll through `ReadTable` and
`Apply`; `AddRule` changes the store, `FindVictims` copies the victims from the
map, `KillOne` kills them one at a time, `KillsDone` answers. The poll runs the
same kill once after its first pass (`EnforceSaved`). The toggle of the chain
is `Firewall`'s, reduced to "some time after the flag" and one at a time: its
reordering is that module's subject. The store is a set of blocked executables,
which is what `BlockList` allows.

The daemon looks for the socket of a flow by its port alone (`attrib.rs:68-88`) and takes
the executable of a pid from the last scan (`state.rs:80-93`), so a lookup may answer with
the owner, with nobody, or with one of the executables that the constant `Mates` gives
for the flow (`Answers`): those that have the same port under another address, or had
the pid before. Both the worker (`Attribute`) and the poll (`Apply`) take such an answer at
its word; the poll keeps it for as long as the flow lasts. `OnlyBlockedSuffer` says what is
left of the promise that only blocked programs suffer: a flow is refused or killed only if
a lookup of this flow has named (`named`) an executable that has had a rule, its owner or a
mate. So a flow without mates suffers for its own executable only. That the rule of a mate
does reach the flow is the violated run `enforcement_mates`.

A lookup that finds nobody or a mate and a full queue are bounded by `MaxMisses`, a failed
kill or read by `MaxFaults`, and history variables (`guarded`, `spared`, `known`, `atAdd`,
`atBoot`, `freed`) remember for which flows a promise was made.

### LogThrottle

`should_log` with its three outcomes, per key, with a monotonic clock.

### Attribution

From a port to an executable. The world is processes and sockets: `Start` (alone
or forked, with the sockets of the parent), `Exec`, `OpenSocket`, `CloseSocket`, `Exit`; a pid
can be used again, an inode cannot. A call of `DaemonState::attribute` takes
the mutex (`Lock`), reads `/proc/net` (`Find`, any holder of the port), checks
the cached pid (`Hit`, `Miss`), scans `/proc/<pid>/fd` one pid at a time
(`ScanPid`, `ScanDone`), then reads the process map (`Info`) or `/proc` (`Direct`).
The periodic scanner goes through `BeginScan`, `HasSocket`, `Inspect` per pid and
`Publish`, and the world changes between any two of these steps. `Inspect` of a
process that has died gives an entry without executable or none, because the
scanner reads through a handle that it opened before. `owners`, `sole` and `had`
are history: who held the port during the call, who was alone on it all along,
what each pid has run since the last published scan began.
`AnswersWereTrue` and `OwnerIsFound` bound what the cache and an overtaken scan can
do, `ExeIsRecent` what the process map can.

### DaemonLocks

Each operation of the worker, the poll, the scanner, the reaper and the request
handlers is the sequence of locks it takes and drops, read off the scopes of its
guards: a guard in a `let` lives to the end of its block, one in an expression to
the end of the statement, so that `GetStatus` holds the read guards of both maps
at once. Waiting writers keep new readers out, as std's futex RwLock does; with
that, a cycle could go through two readers. A thread that asked again for what it
holds would wait for itself. The firewall mutex is in `Firewall`.

### Lifecycle

Several daemons on one machine: the service, which systemd restarts when it fails
(`StartAgain`), and one started by hand with the same paths. `DeleteStale`,
`Install`, `BindQueue` (the worker thread), `RemoveStale`, `Listen`; `Signal`,
`Teardown`, `Unsocket`, `Exit`; `Die` at any moment. The table, the queue and
the socket file are taken and deleted by name, whoever owns them: overlapping
daemons do spoil each other's, and the properties say what holds for one that has
been alone (`company`), whatever earlier ones left. nft may fail to delete the table at
a start (`DeleteStale`, where the result is ignored) and at a stop (`Teardown`, where it is
logged), and the file system may refuse to remove the socket file at a start
(`RemoveStale`, which ends it) and at a stop (`Unsocket`, logged); the exit status is the
same. `kept` is history: what a daemon has failed to remove and has not replaced or
removed since. `StopLeavesOnlyWhatFailed` compares it with what is there after the exit,
in both directions: nothing else is left, and what failed is.

### GuiClient

The client thread, the main loop and the tray, with the daemon reduced to one rule
and the pause. A frame is a length and a body; `TakeCmd` wins over a read that had
begun (`select!` drops the future), after which a body is taken for a length: JSON
text is a length above `MAX_FRAME`, so `ReadFrame` ends the session. `Fetch` fails
when an answer is too long (`big`). `ClickApp`, `ClickPause`, `ClickTray`,
`ClickRetry` move a widget and queue a command, `Update` and `Tick` set the widgets
from the state. Commands and events carry the id of the rule as the row knew it.

### CommandLine

One command at a time against a daemon that stops and starts, processes that
change and other clients. `ResolvePath`, `ResolveWhich`, `ResolveProcess` are the
three ways to an executable, `SendRequest`, `Serve`, `SimpleRequest`, `Query`,
`WatchEvent` and `WatchEnds` the connection. `running` is the process map by pid, so two
processes of one program are two matches for a name, as in the code.

`done` records the effect of the request on the daemon's state (`TakesEffect`): the rule is
in the store, the rule of that id was there and is not any more, the flag has the value.
For pause and resume that is all that Ok says, since nft runs after the answer; that the
chain follows is `TogglesTakeEffect` in `Firewall`. `IsMeant` is the program as
`/proc/<pid>/exe` has it: a path or a hit in `PATH` with its links followed. `which` gives
the path as it found it, so for a name that `PATH` has as a link (`ThroughLink`) the rule is
about no executable: `SuccessMeansDone` leaves these names to the violated run
`cli_link`. With `--json` an Error is printed and the status is success, and a
query that is answered by an Error succeeds: the code does so, and the property is about
commands without `--json`.

### NetSnapshot, Readers

`NetSnapshot` has the three dumps in their order, each atomic, with the network
changing in between, and then the choice among the default routes of the last dump,
one route per step (`NextRoute`), until an IPv4 gateway ends it (`Enough`). A failure
at any of these points leaves an empty answer (`DumpFails`). `SnapshotHangsTogether` says
exactly which route an answer follows, the first with an IPv4 gateway, else the first with
an IPv6 one, else the last of those without a gateway, and what an answer is when nothing
changed: all interfaces with exactly the addresses the loop takes for theirs, and the
choice among exactly the routes there are. Both halves state what the code does where its comments read
otherwise: `netinfo.rs:95` wants the remote address of a point-to-point link only
where there is no local one, but the dump gives both attributes and both are listed; `netinfo.rs:128` speaks of
taking "whatever appears first", but each later default route without a gateway replaces the one
before it. The variant that keeps
the interface of the first route (`Consider_FirstName`) breaks the property, and so would
a list without the peer's address: a correction of the code has to come with a change of it.

`Readers` has the parsers as operators, each beside what it is expected to return
for an input that is built field by field: packets cut anywhere, with and without
options; conntrack lines with and without counters, reply and NAT; `/etc/passwd`
with a line that does not parse; the configuration, with unknown keys; the answers
of NetworkManager, some of which fail. The two readers that gather their answer in a
loop take a step for each word of the line (`NextField`) and each active connection
(`NextConnection`), so that NetworkManager can go away half-way (`ManagerFails`).

### Pages

`SectionList` and the `update` of the two pages with rows, as three passes that visit
one element per step, in any order, as a HashMap yields them: rows of what has left
the state go (`DropStale`); each item keeps its row (`Stay`), has it moved to another
section (`Move`) or gets a new one (`Create`); the sections are sorted (`Sort`). The
refresh runs on the GUI's main loop, so the state stands still until it is over
(`Changed`). Keys are found by the address of the widget, and a new widget may have the
address of any that is gone. Rows that compare as equal may come in any order. An item
says which sections it may be in (`GroupsOf`): an application is allowed or
blocked, a flow of the other page stays under its protocol.

### MCStoreAndSwitch, MCDaemonParts, MCLiveParts

These instantiate several modules that share no state in one run each: the store and
the switch with their liveness, the eight parts that have safety properties only, the three others that
have liveness. `part` says
which of them a behaviour is about; the variables of the others stay in an initial
state. So the state space is the sum of the parts and not their product, and the
properties of each part are checked on all its behaviours. In `MCLiveParts` the
fairness of each component holds in the behaviours of its part; in `MCStoreAndSwitch`
too, where a condition of the store and one of the switch are written as one
(`Step`): `part` never changes, so that in a behaviour it is one or the other.

`MCRuleStore`, `MCEnforcement`, `MCFirewall`, `MCGuiSession` and `MCCommandLine`
instantiate a single module: the first two for the runs of the modules with the most
states, and all of them for the violated runs.

### Collections, ClientState, GuiSession

`Collections` holds the two operators on the daemon's and the GUI's containers that
several modules need: `Put` (`HashMap::insert`) and `Retain` (`Vec::retain`).

`ClientState` is the reducer of `gui/state.rs` as operators on a record: what a
snapshot (`ApplySnapshot`) and each event (`ApplyEvent`) make of the lists of
rules, applications and connections, the eviction order and the totals. Sent
and received bytes are one counter, rules are Block rules, and the speeds that
`tick` derives are left out.

`GuiSession` puts it at the end of the event path. The daemon's conntrack poll
changes its map and publishes under one lock (`Opened`, `Updated`, `Closed`); a
request handler changes the state (`AddRule`, `RemoveRule`, `SetPaused`) and
publishes later (`PublishOne`), so that announcements may overtake each other;
`Broadcast` is the channel of one subscriber, which drops its oldest
event when it is full; `Forward` writes to the socket. The client thread goes
through `Connect`, four fetches and `Receive`. Subscribe is not answered, so
`Subscribed` may come after the fetch has begun. `Drop` loses the stream,
`DaemonRestarts` the daemon's pause and connections. History variables say when a
session may have missed something: `gap` (an event before the subscription, a
full channel, a change that was overtaken), `replaced` (a rule was replaced),
`evicted` (what the cap took out), `seen` (the traffic there has been).
`QuietViewAgrees` is about sessions without `gap`; the two
violated runs are about what is left: bytes replayed on top of the snapshot, and
the id of a replaced rule.

## Runs

| Run | Shows | Bounds |
|---|---|---|
| `rule_store` | six safety properties of the store, among them the refinement of `BlockList` | two connections, two executables, three inputs (temporary block, allow, permanent block), two ids, one tick, one failed save, one death |
| `store_and_switch`: store | expired rules are reaped, operations end | one connection, a block for one tick, two ids, one tick, one failed save, one death |
| `rule_no_persist` | *violated*: a rule that is not persistent survives a restart | |
| `store_and_switch`: switch | four safety and two liveness properties of switch and table | two connections, three requests, one failure, two starts |
| `firewall_overlap` | *violated*: after overlapping pause and resume a running daemon has no queue rule | two requests |
| `enforcement` | what a block and a pause guarantee, to whom, from when | two executables with a TCP flow each, two connections, two changes, one lookup that finds nobody or the other executable, one failure |
| `enforcement_mates` | *violated*: a first packet is dropped for the rule of another executable | one connection, one change, one miss |
| `enforcement_existing` | *violated*: a flow the poll has not seen outlives the block | |
| `daemon_parts`: session | what the GUI shows when it has caught up, and what its lists agree on always | two flows, one executable, a cap of one connection, a channel of two events, three changes, one loss or restart |
| `gui_replay` | *violated*: events older than the snapshot count bytes twice | three changes, no loss |
| `gui_ghost` | *violated*: a switch names a rule that was replaced | three changes, no loss |
| `daemon_parts`: log | accounting and rate of log lines | two keys, window two, five ticks, four blocks |
| `daemon_parts`: attribution | truth, completeness and age of answers | two pids, two executables, two sockets on one port, the worker and the poll, three changes of the world |
| `daemon_parts`: locks | nobody waits in a circle | four threads and a request that repeat any of their operations, without a bound |
| `daemon_parts`: cli | exit status against what was done | every command once, five kinds of file, two names, two processes, two changes |
| `daemon_parts`: network | a snapshot hangs together | two interfaces, any routes that two changes make |
| `daemon_parts`: readers | readers against their reference | header lengths 4, 5, 6 and 15, two ports, every cut; two counters; files, connections and devices up to two |
| `daemon_parts`: pages | lists against state | three applications, two with one name, two byte counts, three widgets, any state after any other, every order of a pass |
| `cli_link` | *violated*: a rule is made for a link that `PATH` has, with success | one command, one change, otherwise as in `daemon_parts` |
| `live_parts`: traffic | packets are decided, AddRule is answered | a TCP and a UDP flow of one executable, no conntrack-tools, one change, one failure |
| `live_parts`: life | control, what a stop leaves, restarts | two daemons, three starts by hand, two failures (of a start, of the worker, of a removal) or deaths |
| `live_parts`: gui | widgets settle, commands are taken | two clicks or foreign requests, one end of the daemon or oversized answer |

Why the bounds are enough to be interesting: two ids and two connections give
replacement, add against remove, and a removal that overtakes an announcement;
one death and one failed save give every cut of a save and a loss of an
unsaved change; three pause requests give two resumes in a row and a reordering,
two starts a stale table; two flows of two executables give the killing of the
wrong flow, and two changes give add-remove, add-pause, add-add; two flows under a
cap of one give an eviction, and three changes against a channel of two a lost event.
Three changes of the world give a fork, an exec and an exit around a scan, or a pid
that is used again; the initial process saves the first change. Two daemons give every
overlap of a start with a stop; two failures give a death and a failed restart. Two
clicks give a command that cuts the frame of the event the first one caused. Two
changes of the network give an interface that goes and one that comes between two dumps.
A header length of 4 is too short, 15 is the longest. Three applications over two
sections give a row that moves past another, two rows that compare as equal, and a new
row in the widget of one that has just gone.

Symmetry is used in safety runs only: over connections in `rule_store` and `enforcement`, in
`daemon_parts` over flow keys, sockets, processes and widgets, each in its own
part and so exchanged together, and over executables, and in
`enforcement` also over the exchange of the two executables together with their
flows, which leaves `Owner` as it is.

The violated runs are disagreements between the code and what its comments or
documents say; `findings` in `PROJECT.json` quotes the lines.

## Fairness

- `RuleStore`: a running thread is scheduled (weak fairness of save and publish
  steps). The standard mutex is not fair, so acquiring it is only assumed
  strongly fair: a thread that waits while the mutex is free again and again
  gets it. The reaper wakes up every five seconds (weak fairness). Nobody has
  to send a request, a failing save is never required, and a dead daemon need
  not come back.
- `Firewall`: the runtime polls tasks and `nft` ends (weak fairness); the tokio
  mutex is first come first served, so acquiring it is strongly fair.
- `Enforcement`: the daemon starts, the worker and the poll go on, spawned
  toggles run, external commands end. Applications and clients owe nothing; a
  read of the table that fails is never required.
  Each thread is fair by itself (`StartStep`, `WorkerStep`, `PollStep`,
  `KillStep`), not each of its steps.
- `Lifecycle`: a live process and its worker thread go on, and systemd restarts a
  service that failed. Nobody has to start a daemon by hand or to stop one, and no
  step has to fail.
- `GuiClient`: the client thread and the main loop go on, the tick comes every
  second. `select!` picks at random among the branches that are ready, so a command
  is taken in spite of a stream of events: strong fairness of `TakeCmd`, and weak
  fairness of the session. The daemon owes neither an end nor a restart, and
  `WidgetsSettle` is about behaviours in which it stays up in the end.
- The other modules have safety properties only, and no fairness.

## Proofs

`RuleStoreProofs` proves for any set of connections, executables and inputs and
any bounds that the four state properties and the action property hold. The
properties are not inductive: that a restart restores the rules needs to know
that the temporary file equals the memory when it is renamed (`FilesFollow`),
that the id of a rule in a thread's hands is below the next id (`IdsRemembered`),
and that what a thread announces agrees with the store (`OutAgrees`). `IInv` is
their conjunction; there is a lemma per action, and per conjunct that the action
can disturb. The assumptions are the named `ASSUME`s of the module: threads are
distinct, inputs are well typed, the numbers are integers. Nothing is assumed
about how the clock and ttl widths relate.

The same module proves that the store implements `BlockList` (`Refinement`). The
refinement mapping is `VerdictOf`, which reads the clock, so most of the argument is
about time: no thread has read a clock that is ahead (`ClockRead`), a tick can only
turn temporary verdicts into none (`TimeLapses`), and a step of the store changes the
rules in force of one executable at most, which determine its verdict (`OneVerdict`).
A rename copies the verdicts of the memory to those of the file, by `FilesFollow`;
every other step stutters.

`FirewallProofs` proves for any number of requests, failures and starts that serial
toggles agree, that a start leaves one queue rule, and that a shutdown is final.
`Serial` strengthens the first: with requests that do not overlap there is nothing
under way, or one request, or one toggle, and it carries the flag's value. The
last rests on `Handle` and `Mutex`: a toggle that holds the mutex has a handle,
and the handle is gone before the table is. The only assumption is `Bounds`.

`LifecycleProofs` proves for any number of daemons that one that has been alone since
its start is in control of table, queue and socket, and that it leaves no queue behind when
it stops in good order, and a table or a socket file exactly if it is in `kept`. `HoldsWhileAlive` says what a process may hold at
each step, company or not; `AloneIsAlone` that a daemon without company is the only
one that runs, so that nobody else can have taken the queue; `Control` what it has
achieved by that step: its table is there, or one that it could not delete, or none, and
the same of the socket file; `KeptChanges` follows `kept` through the removals that fail. The assumptions are that `Nobody` is no daemon and that the
service is one.

`AttributionProofs` proves for any number of processes, sockets, ports and callers,
and any changes of them, that answers are true of the time of the call, that who is
alone on a port is found, and that executables are at most one scan old.
`OneLookup` (the mutex) keeps one caller's scan apart from another's. `Truth` says
that a pid in the map of a scan under way is among those seen on the port during the
call, `SoleIsFound` that a scan which has come past the sole owner has it, and
`Recent` that the two maps of the process scanner are of the scan they belong to.
The assumptions say what the constants are: `None` and `Absent` are nobody's pid,
socket, port or name.

`EnforcementProofs` proves the six safety properties of `Enforcement` for any flows,
owners, executables, clients and changes. None is inductive; `IInv` says who still owes
what. `InHand`, `Guarded` and `Freed` follow the packet in the worker's hands: under an
acknowledged block the worker has not decided to let it through, and one that
began under pause is in hand only to be accepted. `Blamed` gives every
victim and every refusal a lookup of the flow that named an executable with a rule, and
keeps what lookups name among `Answers`. `Tracking` says what the map of flows
can be wrong about; an unattributed flow is in `spared`. `Pursued` gives every tracked
flow of a new block that is still open to an `AddRule` that has not answered, and
`Startups` with `Outdated` does it for the flows older than the daemon and the first
pass of the poll. The assumptions: every flow has an owner, mates are executables, `Unknown` is no
executable, and the start is not one of the clients.

`CollectionProofs` proves what `Put` and `Retain` give for any map and list, and a few
facts on queues. `Retain` picks the positions to keep in their order: that each
number up to their count is the rank of one of them is an induction, made from the least
element of a set of numbers, which the library proves for the relation < as a set.

`GuiSessionProofs` proves three of the properties of `GuiSession` for any executables
and connections, any cap, channel and socket buffer, and any number of changes, losses and
restarts. The invariant has three layers, each proved on top of the one before.
- `Types`: shapes, and for the GUI's state `Sound`: its eviction order lists its
  connections once each, and its switches show its rules.
  Every snapshot and every event keeps it, so `SwitchesFollowRules` and
  `EvictionOrderIsSound` hold in every session, faithful or not.
- `Sessions`: what the step of the client says of its stream (`Wiring`); unless changes
  have crossed, at most one waits to be announced and the daemon is as it tells
  (`OneAtATime`); an id names one rule for ever (`Naming`).
- `Views`: for the pause (`PauseView`), each connection (`ConnView`), each rule
  (`RuleView`) and each removed one (`GoneView`): the last event on its way about the subject
  tells what the daemon holds, and when none is on its way the view agrees. The socket
  and the channel are one queue (`Coming`), so that an event replayed on top of a newer
  snapshot is always followed by the one that puts the view right again.
  With nothing on its way these are `QuietViewAgrees`.
Assumed are only that cap and capacities are positive, the bounds numbers and `NoExe`
no executable.

`DaemonPartsProofs` has six parts without common variables.
- The log limiter: accounting and rate, from the fact that an entry's window began with
  its last line.
- `DaemonLocks`: `NoDeadlock` for any set of requests handled at once. All locks but the map of
  connections are leaves, freed by the step after the one that takes them; the
  connections are taken once by an operation, with no leaf held, and freed by its
  last step (`Ordered`, proved of every operation). So who holds a leaf goes on; if nobody
  does and everybody waits for the connections, nobody holds them.
- `CommandLine`: `SuccessMeansDone` for any programs, names, paths and processes. Past the
  resolution the rule is about the program that was meant (`Meant`), unless `PATH` has
  the name as a link, and an answer of success is given only when the request has had its
  effect on store or flag (`Answered`).
- `NetSnapshot`: `SnapshotHangsTogether` for any interfaces and changes. `Choice` is the
  invariant of the loop: what is chosen is the first route with a gateway among those
  looked at. Here it counts that the dump has the IPv4 routes first: an IPv4
  gateway would otherwise replace an IPv6 one that came before it. `Undisturbed` follows
  a snapshot during which nothing changes. The assumption is that `NoIndex` is no index.
- `Pages`: `ListsShowTheState` for any items, sections, traffic and widgets, and any order
  of visiting. `RowsAreListed` relates the three copies of what is shown: a row and the
  entry of its section name each other, no widget has two rows, and nothing else is
  listed. `PassesVisitAll` says what a pass has done: after the first the rows
  are those of items that are still there, in the second those that are not `due` are as
  the state wants them, in the third those sections are in order. That an
  arrangement of finitely many widgets lists each once is `SetToSeqsIs` of
  `CollectionProofs`.
- `Readers`: `ReadersAreExact` for any ports, header lengths, counters and lists. The packet
  is read at fixed offsets (`PacketIs`); the user is in the line where the search stops
  (`UserIs`). The loops have invariants. `FieldsSoFar` says which keys are noted when the
  words before the next one have been looked at, from where each word is in a line
  (`WordsAre`): in particular the second `src` comes after all four keys, so the reply
  never overwrites them. `AskedSoFar` says that the answer so far is that of the first
  connection, among those asked, that has one. Assumed are that ports have 16 bits,
  counters are numbers, header lengths have 4 bits and `Nil` is none of the answers.

With these, every safety property that a passing run checks, invariants and action
properties and the refinement, is a theorem. Only model-checked remain the nine liveness
properties, in `RuleStore`, `Firewall`, `Enforcement`, `Lifecycle` and `GuiClient`:
fairness and ENABLED are out of the prover's reach. What a theorem says about a reader is
about the inputs the model builds: that the text of a line is split into the words of
`ConntrackLine`, or a number parsed from its digits, is left to the code's own tests.

## Not modelled

Not modelled: a 5-tuple that is used again between two conntrack passes (the poll
then keeps the old owner); the speeds the GUI derives with every tick; icons,
number formats and the dashboard, which are pure functions to text and pixels;
closing to the tray; resolv.conf, MAC addresses and kinds of interfaces; the
transport of netlink and D-Bus; JSON; logging. The client has no timeouts on its
requests (`client.rs:237`): a daemon that is stopped, not ended, holds the GUI up,
and the models have no such daemon.
