# 2nnel in TLA+

2nnel is a self-hosted tunnel: clients behind NAT keep one WebSocket to a public
server, which routes HTTP subdomains and TCP ports to them over yamux streams. A
project can also be *promoted*: uploaded, built with Nixpacks and run on the
server in Docker. This directory models the server's shared state and everything
that runs against it concurrently.

## The system

| Part | State | Operations | Talks to |
|---|---|---|---|
| Registry (`server.go:207-425`) | `byID`, `bySubdomain`, `byPort`, each entry's `tunnels` | add and remove a client, register HTTP and TCP, remove a tunnel by name, disconnect, close all, lookups, snapshot | everything below |
| Control handler (`server/control.go`) | one goroutine per session: where it is, the message it works on; a heartbeat goroutine beside it | authenticate, register, heartbeat, promote error | registry, `deployedApps`, `pendingBuilds`, operating system (`net.Listen`) |
| Public HTTP (`http_proxy.go`) | one goroutine per request | look a route up, then a tunnel or an app, then relay | registry, `deployedApps`, yamux session |
| TCP forwarding (`control.go:264-297`) | one goroutine per listener and connection | accept, open a stream, copy both ways | listener, yamux session |
| Promoted apps (`deploy.go`) | `deployedApps`, `pendingBuilds`, the state file, project directories, containers | upload and build, stop, delete a build, save, load, stop all | Docker, `ss`, file system, registry (eviction) |
| Dashboard (`dashboard.go`, `metrics.go`) | none of its own | add, remove, disconnect, set directory, promote, stop; SSE and metrics | all of the above, clients through `sendMsg` |
| Life cycle (`server.go:48-101`) | the process | load state, serve, graceful shutdown | registry, promoted apps |
| Client session (`client/client.go`, `client/control.go`) | configuration, current session | connect, register, control loop, reconnect with back-off, dynamic tunnels | server, configuration file |
| Client data (`client/proxy.go`), relays (`util.go`) | one goroutine per stream | dial, copy both ways | local service |
| Client promotion (`client/promote.go`) | none | tar a directory, post it, report an error | server |
| Protocol (`proto/`) | read and write buffers | JSON envelopes, bytes over WebSocket messages | yamux |
| TLS, command line, configuration | none after start | | |

What makes each part correct:

- **Registry**: a route leads to a registered client that has the tunnel; a port is
  held by one client, whose listener lives as long as its registration; whoever is
  disconnected is removed, with everything it registered meanwhile.
- **Public HTTP**: the answer fits the routes that existed while the request was
  under way, although it looks at three things one after the other.
- **Promoted apps**: what the dashboard shows is what runs; a served app has its
  container and its port; nothing is left behind; a restart finds what was served.
- **Their meeting**: a subdomain passes from a client to an app without a gap, and
  belongs to the app afterwards.
- **Client session**: after a break the client has its tunnels again.
- **Relays**: the bytes arrive in order, and both directions end.

The hard behaviours are interleavings: each critical section is right, and the
programs made of several of them (check, act, register; store, save, evict) are
where the questions are. `PROJECT.json` lists the hazards at their lines.

## The modules

| Module | What it is |
|---|---|
| `Lease` | What a table of exclusive leases promises: acquire a free port, release one's own, end all. 30 lines, no 2nnel in it. |
| `Registry` | The registry with control handlers, admin, public requests and shutdown. |
| `RegistryProofs` | Theorems about `Registry`, for every value of its constants. |
| `Deploy` | Promoted apps with Docker, the state file, crash, shutdown, restart. |
| `DeployWatch` | `Deploy` with history variables: which saves of the state file overlapped or failed. |
| `Server` | `Registry` and `Deploy` together, and the eviction that involves both. |
| `ServerWatch` | `Server` with history variables: what each request in flight has lived through, and which promotions met a registration half done. |
| `Session` | One client and its successive sessions: connect, registration replies, reconnect, dynamic tunnels, project directories; the server's handlers and the dashboard at the other end. |
| `SessionWatch` | `Session` with history variables: whether sessions have overlapped, operations crossed and handlers raced. |
| `Promotion` | `Deploy` with the clients that post to it and report back: the whole way of a promotion. |
| `Pipe` | What one direction of a relayed connection promises its receiver. 30 lines, no 2nnel in it. |
| `Relay` | One public connection (TCP, WebSocket or HTTP) on its way over a stream to a local service. |
| `DeployProofs`, `ServerProofs`, `PromotionProofs`, `SessionProofs`, `RelayProofs` | The same of `Deploy` with `DeployWatch`, `Server` with `ServerWatch`, `Promotion`, `Session` with `SessionWatch`, `Relay`. |
| `RelayHeard` | A theorem of `Relay` with an invariant of its own, on top of `RelayProofs`. |
| `SequenceLemmas` | What these proofs need to know of sequences, least numbers and induction; no 2nnel in it. |
| `MCRegistry`, `MCDeploy`, `MCServer`, `MCSession`, `MCPromotion`, `MCRelay` | Instances for TLC. |

### Registry

An action is one critical section of `registry.mu`, or one step between two that
others can see. A handler's program counter `pc[s]` is where its goroutine is in
`run`; `httpCheck`, `httpCheckApp`, `httpRegister` are the three looks at shared
state in `registerHTTP`, `tcpPick`, `tcpCheck`, `tcpListen`, `tcpRegister` the
steps of `registerTCP`, with one `TcpPick` per port looked at. `tunnels[s]` is the
entry's slice; `open` says that a tunnel has a listener and that it is not closed.
The variable outlives the entry, as the Go pointer does: a request that found the
entry still reads its tunnels after `removeClient`.

Abstractions. Subdomains and tunnel names are the same small set of labels. Yamux is
`closed`: a closed session makes the next `Recv` fail, but messages already received are
still read. The heartbeat and the network are `SessionDies` at any moment, which covers
every timing of them. Replies to the client are left out, and with them
`handleAddTunnel` and `handleSetTunnelDir`, which are `Session`'s. `net.Listen` succeeds
only on a port nobody in the process listens on and may fail for any other reason. In
`Registry` alone promoted apps come and go freely (`DeployedAppsChange`); in `Server`
they are those of `Deploy`.

### Deploy

An action is one access to what others see: a `sync.Map`, Docker, the list of listening
ports, the state file. `container[n]` is the container `2nnel-<n>`: there is one per
name, which is what overlapping uploads share. An upload's container ID and directory
are the upload itself. `saveState` is three steps (walk the map, truncate, write);
`SaveWrite` over a file that another save has written meanwhile may leave the end of a
longer text behind, which no longer parses (`Torn`). A save may fail as well, which is
logged and changes nothing else (`deploy.go:118-120`): the file is as it was when it
could not be opened, and old, empty or partial when it could not be written. `Crash` may
happen between any two steps; `Restart` is `loadState`, and requests that were under way
are `dead`. It takes back the apps of the file whose container runs, except those whose
`docker inspect` fails or takes more than ten seconds (`missed`, `deploy.go:142-147`); a
file that cannot be read (`deploy.go:130-133`) misses them all. Ports below 1024 and the
known debug ports are left out, since detection skips them.

Abstractions. `Range` over the map is one step, in `saveState` and in
`stopAllDeployedApps`: Go promises less, but a range that misses a concurrent
change is a range taken earlier or later. Build logs are not modelled.
`DockerMayFail` says whether docker commands may fail or time out, `StateMayFail` the
same of a save, of the inspections and of the reading at the start. An app that
ends by itself (Docker restarts it) and a reboot of the host are not modelled.

### Server

`Server` instantiates both with a refinement-style substitution: Registry's
`deployedApps` is the set of names Deploy serves. The eviction is two steps, the
lookup under `RLock` (`EvictLookup`) and the removal (`EvictRemove`), which is
`Deploy`'s `Evict` joined with `Registry`'s `RemoveTunnelByName` or with nothing.
The process does not crash here; that is `Deploy`'s part.

### Session

`client` is where `Run` is: dialling, waiting for the acknowledgement, reading the
replies to its registrations, or in `controlLoop`. Every connection is a session of
its own with a queue of control messages in each direction; `cur` is the one the
client uses, the others are what the server still holds. `Break(k)` takes a
connection down; what was on its way may still be read, what is sent afterwards is
lost, and the two ends notice on their own (`SessionEnds`, `GiveUp`), in either
order and as late as they like. `RemoveTunnel` and `RemoveTunnelByName` are the two
steps of `handleRemoveTunnel`: the client is told first. `SetEntryDir` and
`SendDir` are those of `handleSetTunnelDir`, where the client is told last; several
may be under way at once. `dir` is the client's directory of each tunnel, `entryDir`
the copy in the server's entry, which a registration brings along (`DirMsg`) and a
dynamic one does not.

Abstractions. One client, HTTP tunnels whose subdomain is their name, no promoted apps:
a registration is refused exactly when the subdomain is routed at `CheckSubdomain`.
`RegisterHTTP` stores the tunnel and the route later, whatever has happened since
(`control.go:165`, `188`); in between the handler is at `register` and the request still
first in its queue. `GiveUp` is the end of `loop` with the `removeClient` that `run` has
deferred. Of two tunnels of one name on a session, which only a race can make, the
dashboard finds the first; what directory the second has once the first is removed is
left open. A wrong token is left out (the client then dials again and again), and so are
heartbeat and promote messages. The client's configuration is saved after every change,
so a restart of its process is a break. One removal is under way at a time. A directory
stands for what the client's machine resolves it to: the client replaces a leading `~`
(`expandHome`), the server keeps the text. A tunnel that is listed twice has its
directory in the first of the two (`DirAt`), as the loops of the client find it.

### Promotion

`Promotion` keeps all of `Deploy`'s state for one life of the server process
(`MaxRestarts <- 0`, no crash, no stop) and adds `stage[u]`: where the client is with
promotion `u`. `Trigger` is the click with the message to the client, `NoTarball` an
unknown directory or one that cannot be packed, `Post` the start of the request,
`Answered` its answer, `GivesUp` the ten minutes of `http.Client.Timeout` while the
server is at work, `Report` the `PromoteError` on the control stream, joined with
`Deploy`'s action of that name, `ReportLost` a control connection that is gone.
`ServerStep` starts an upload only when its client is posting. `Deploy` itself has
`BuildHangs` for it: a build that never ends, because nobody reads its output any
more (`deploy.go:239-248`); the constant `LongLines` says whether a build prints such
a line.

Abstractions. The ten minutes and the durations of commands have no relation: a post
may be given up at any step of the server. The early returns of `handlePromote`
without a report (errors of `multipart` over a memory buffer and of
`http.NewRequest`) do not happen and are left out. Stops, crashes and shutdown are
`Deploy`'s part.

### Relay

One connection. Each direction `d` ("up" to the local service, "down" back) has five
places where data can be: the socket it comes from (`in[d]`), the WebSocket messages
under way between client and server (`wire[d]`, with `rest[d]` the part of a message
that `WSConn.Read` has not handed out), the receive buffer of the yamux stream
(`stream[d]`) and the socket it goes to (`out[d]`); `Fin` is an end of data in any of
them. `into[d]` and `outof[d]` are the two goroutines that copy it, one at the server
and one at the client. `handler` is where `forwardTCP`, `handleWSProxy` or
`RoundTrip` is at the server and `handleDataStream` at the client. `CopyIn` and
`CopyOut` take pieces of any size, `WSRead` breaks messages anywhere, so every
fragmentation happens. `ServerPipeEnds` and `ClientPipeEnds` are the `<-done` of
`pipeCount` and `handleDataStream` with the deferred closes behind it: they close the
stream and the socket while the other copy is still at work.

Abstractions. A copy's `Read` and `Write` are one step, and there is no flow control:
a slow peer slows nobody else, as every stream has its own window. Yamux and TCP are
external: a closed stream is read to the end of what has arrived and half-closed
until the other side closes; a socket closed with unread data may send a reset, which
destroys what the peer had not read (`AfterClose`). `SessionDies` empties `wire` and
`rest` at once: what would be read after the break is read before it here, and nobody
can tell. Requests and responses have a fixed length; the head of a request has been
read before it is routed. `DialFails` may answer with a 502 or with nothing whatever
the kind of the connection: `cfg.Tunnels` may have changed since the tunnel was
registered, and a tunnel that is not found counts as HTTP (`proxy.go:36-45`), so that a
TCP visitor may get HTTP text. A WebSocket visitor waits for the answer to its
upgrade before it sends more. One connection at a time, since streams share only the
session, whose end is in the model. Counters are left out.

## What is checked

| Run | Expected | Instance | Question |
|---|---|---|---|
| `ports` | holds | 2 sessions, 2 ports, 1 name, 2 messages each | leases, listeners and purging, under every interleaving of the handlers with the admin and shutdown |
| `routes` | holds | 2 sessions, 2 names, 1 port, 1 public request | routes lead to tunnels; an uncontended subdomain is kept; a missing tunnel is explained |
| `shared_subdomain` | violated | the same with one contended subdomain | does a registered client keep its subdomain? |
| `deploy` | holds | 2 uploads and a stop of one name, hanging builds, failing saves and restores, 1 restart | the dashboard, backing, leaks, what a crash loses |
| `promotion` | holds | 2 promotions of one name, failing docker and saves, hanging builds | builds end; a failure that is shown while the server is at work is explained |
| `restart` | violated | 1 upload, 1 restart | do promoted apps survive a restart? |
| `app_port` | violated | 2 uploads of two names | is an app served on its own port? |
| `handover` | holds | 2 sessions that want the app's subdomain, 1 upload, 1 request | no gap at promotion; who may shadow the app afterwards |
| `eviction_by_name` | violated | a tunnel with another name than its subdomain | is the client evicted? |
| `session` | holds | 1 tunnel of 2 names, 2 sessions, 1 directory, 2 dashboard operations | registration ends, an old session's end is harmless without a race, tunnels are restored without overlap, both ends agree on tunnels and directories |
| `session_restore` | violated | 2 tunnels, no dashboard | are tunnels restored on reconnect? |
| `relay` | holds | 1 connection of each kind, 2 pieces of data up, 1 (HTTP: 2) down | order and completeness, who is heard, the whole answer, nothing left running |

### Bounds

Every race in this code is between two parties over one key: two handlers, a handler and
the admin, a request and a removal, two uploads. Two sessions, two messages per session
(`MaxMessages`), two ports and two names give each of them, with a third party (admin,
shutdown) always there. Two messages let a session register, lose the tunnel and
register again, or hold two tunnels under one name or one subdomain. `ports` has one
name, so that both tunnels of a session may have it; `routes` has two, so that one
subdomain comes under two names. One restart (`MaxRestarts`) lets an upload be cut off
at every step and another one find what it left; the saves of two uploads and a stop
overlap in every way, with one name, while what two names do to each other is left to
the theorem. In `handover` the second client registers what the eviction of the first
has freed, or is between check and registration when the app is stored. Two sessions of
one client (`MaxSession`) are an old one and a new one, whose handlers can both be past
the check of a subdomain; two dashboard operations (`MaxOps`) can add a second tunnel
and change it, set a directory twice, and fall between the replies that `connect` reads.
Two overlapping promotions of one name are what their checks fail to keep apart; a third
one would only repeat what the second does, and `OtherPorts` is empty since a port that
another program opens changes which address an app gets and not whether its build ends.
`Pieces` is two where data can be cut: two pieces make messages of one and of two, a
header with data behind it in one buffer, and a rest. One piece is enough for the other
direction, which is there to be lost or ended.

The runs switch deadlock checking off: the system may stop when all sessions are
done, the bounds are reached and no request is under way.

### Fairness

`Registry!FairSpec`: a handler goroutine that can take a step does. Only steps that
wait for nothing outside are fair: not `RecvRegister` (the client may be silent),
not authentication (it has no deadline), not the admin. `LoopExit` is fair for
closed sessions, since `Recv` on a closed yamux session returns. `net.Listen`
returns, one way or the other.

`Promotion!FairSpec`: an upload that has begun goes on. Docker commands run under a
context with a timeout and detection ends after five minutes. `nixpacks build` has
no timeout, and it does not end if it prints a line of more than 64 KiB: the
`bufio.Scanner` that reads its output (`deploy.go:241`) stops there and the pipe fills
up. That build is `BuildHangs`; any other one is assumed to end. The client's
handling of a promotion goes on too: its post is answered or times out, and it
reports to a connection that takes the message or is gone. Clicks, the dashboard and
the host are not fair.

`Relay!FairSpec`: the handlers, the copying goroutines and the loops that read the
WebSocket go on, and `net.Dial` returns. The visitor, the local service and the
network owe nothing: they may be silent for ever, and `RelayEnds` asks for nothing
until one of them has ended something.

`Session!FairSpec`, and the same of `WatchSpec` in `MCSession!MCSpec`: the client goes
on, and so does the server's handler of a session, which reads what has arrived and in
the end gives up a session whose connection is gone (the end of the connection, or 90 s
of missed heartbeats). Fairness of `Dial` says that the server can be reached in the
end; the back-off has no last attempt. Breaks and the dashboard are not fair.

### The properties

The registry's invariants relate three tables that are written by key, whoever owns the
entry: `NoDanglingRoute` (a route's owner still has a tunnel for it), `PortTableExact`
(until shutdown `byPort` and the clients' tunnels say the same), `ListenersLive`
(listening sockets against registrations), and `EntryWhileHandled` (the entry that
`registerHTTP` dereferences unchecked exists). `LeaseSpec` says the same of ports as a
refinement. `Purged` is the liveness that joins them: a session closed at any moment,
also between `net.Listen` and `registerTCP`, eventually leaves nothing behind, for good.
`OwnSubdomainKept` is what remains of exclusivity for HTTP: it needs that nobody else
ever asks for the subdomain. `MissingOnlyIfRerouted` and `NoGap` are about requests that
look at state twice; `PromotionKeepsServing` says that no step of a promotion itself
leaves a subdomain to nobody, which `NoGap` alone would excuse. Both speak of apps that
nobody stops (`Unstopped`): stopping an app leaves its subdomain to nobody by intent.
`AppNotShadowed` is the other end of the promotion: when it is over, and for as long as
the app is served, no client has the route to its subdomain, which `handleHTTP` would
prefer. A registration that had passed both its checks when the app was stored, and
writes its route after the eviction, is the one exception (`late`); it takes the check
of `deployedApps`, the eviction and the order of the two to make it the only one.

For `Deploy`, `NoGhostBuild` says that the list of builds is not ahead of the uploads,
with overlap. `AppBacked` and `NothingLeaks` are stated for uploads that nobody of the
same name disturbs (`Undisturbed`): a second upload that got past both checks, or a stop
at work, shares the container's name, and then they do not hold. `NothingLeaks` is about
one life of the process: a crash in the middle of a build leaves the directory and the
container behind.

`SurvivesCrash` is about a crash at any moment, with uploads and stops of any name at
work, overlapping saves and all. It names what may be lost: an app whose own upload has
not got it into the file (`Unsaved`); one whose container does not run, as after a
shutdown, or whose inspection fails, in which case the other apps are still taken back;
and everything when the crash falls between the truncation and the write of a save, or
when the save that ended last had failed or had been under way together with another
(`stale`). As saves take no lock, the one of two that read the map first may write last.
A later save that is alone and succeeds makes up for all of it, since it writes the
whole map: this is what the property says of overlap, and what it would not say if a
save wrote only its own app.

For `Promotion`, `BuildsEnd` says that the list is not behind either: what is shown
as running ends, is dismissed or replaced. A hanging build ends only because its
client gives up and reports, over another connection; the property says when that
does not help: the report was lost, or came while another build, or none, was shown.
`AlarmsExplained` is the other side of the same report: a build shown as failed while
the server works on it is one whose client gave up, or one that was hit by the report
of another promotion of the name. There is no third way.

For `Relay`, `PipeSpec` is a refinement: each direction implements `Pipe`. It is the
sum of four buffers that must not lose or repeat a byte between them: the
`bufio.Reader` of the header, the copies, `WSConn`'s rest of a message, and a 502 that
may be written only in place of data. `Pipe` allows an end at any point;
`FirstCloserHeard` says what is promised about the end although both sides return with
the first of their copies: whoever ends the connection first has everything it sent
delivered, as long as nothing of the other direction is lost with it. `HttpAnswered`
is the stronger promise of an HTTP exchange, where the request has no end that could
cut the response off. `RelayEnds` says that each end reaches all four copies and both
handlers.

For `Session`, `ConnectNeverStarves` relates the count in `connect` to what is under
way: `connect` takes any message for a reply, so this is not the same as every request
being answered, and the dashboard does send between them. With it `Reconnects` holds:
the client gets through to `controlLoop` again after every break. `RouteLostByOwnerOnly`
is about `removeClient`, which deletes routes by subdomain: it is safe because a new
session is refused a subdomain while the old one has it, until the handlers of both are
past the check of it together. Then the second to store takes the route over, and the
end of the first deletes it; `SessionWatch` records that as `raced`, and the property
speaks of the time before. (It is what `shared_subdomain` shows for two clients.) The
same refusal is why tunnels are not always restored; `RestoredUnlessOverlap` says when
they are: if the server had given the old sessions up before the client came back. Both
restore properties leave the dashboard out (`ops = 0`), which may remove a tunnel that
stays configured. `DirsAgree` relates the server's and the client's copy of a tunnel's
directory, which two steps write and two kinds of message carry, at every moment when
nothing is under way. Three things part them for good, and `SessionWatch` records them:
`connect` swallows the message (`swallowed`), two handlers race (`raced`), or an
operation on a tunnel is begun while something else concerning the tunnel is under way
on that session, an earlier operation or a registration (`crossed`). It takes no more
than that: two directories set at once may arrive in the other order; a tunnel removed
while its registration is on its way is dropped by the client and then registered by the
server, which from then on has a tunnel that the client does not list and takes no
directory for; one that is removed and added again between the two steps of
`handleSetTunnelDir` gets, at the client, the directory meant for its predecessor.
Operations on different tunnels, or on different sessions, do not cross. A tunnel that
the client lists twice, as the dashboard can make it, is left out (`Once`).
`NoStrayTunnel` compares the lists themselves and does without `swallowed`: whatever
`connect` takes for a reply, the server is left with no tunnel that the client does not
list. A removal that `connect` drops is carried out at the server, and at the client the
tunnel comes back with the next connection; an addition that it drops happens at neither
end.

### What the code does not do

Five runs show a disagreement between the code and what it, or the
documentation, says.

1. `shared_subdomain`: two clients that register one subdomain at once both win.
2. `restart`: a graceful shutdown stops the containers, and the next start skips
   apps whose container is stopped; only a crash keeps promoted apps.
3. `app_port`: two overlapping promotions take each other's port.
4. `eviction_by_name`: the client is found by subdomain and its tunnel removed by
   name.
5. `session_restore`: a client that is back before the server has noticed the break
   has its tunnels refused by its own old session and does not ask again.

Others are reachable in the models and not given a run of their own: a registration that
passed the `deployedApps` check before a promotion and writes its route after the
eviction shadows the app; two saves may lose an update; a save that fails is only
logged, and an app whose inspection fails at the start is dropped while its container
runs on; the old session of a client that has come back may take the new one's route
with it, if both were past the check; a request for an automatic port is refused when
the first free port of the range is held by another program or excluded by
`--allowed-ports`, though others are free; two uploads of one name that both pass the
checks remove each other's container; a stop whose docker commands fail forgets a
container that runs on; an add or remove from the dashboard that reaches the client
while it reads registration replies is taken for one of them and dropped, although the
dashboard has answered ok, and a new directory likewise; two updates of a directory that
cross leave the dashboard showing one directory and the client packing the other; the
refusal of a second promotion is reported as the failure of the tunnel's promotion and
marks the first build as failed, while it runs on; a report that finds no build shown is
dropped, so a missing directory shows nowhere; a failed build stays in `pendingBuilds`
until it is dismissed, and a new upload is answered "already building"
(`deploy.go:191`); a visitor that half-closes after its request over TCP gets no answer,
since `pipeCount` returns with its first copy (`FirstCloserHeard` is what remains); an
HTTP visitor that goes away is not noticed while the local service is silent, because
`RoundTrip` does not look at the request's context; bytes that a WebSocket visitor sends
before the answer to its upgrade are dropped with `Hijack`'s buffer
(`http_proxy.go:201`).

Two more are outside the models and were met on the way: `activeConns` of an HTTP
request goes down when `RoundTrip` returns, which is before the body is relayed
(`http_proxy.go:106`), and the byte counters of a TCP connection change only when it
ends (`util.go:24-27`), although the dashboard is said to show live metrics
(`README.md:235`).

## What is proved

Every theorem is about the whole specification of its module, for every value of
the constants: any number of clients, names, uploads, sessions, pieces of data. A
safety proof has one shape throughout: an inductive invariant `IInv` in the module
itself, which TLC checked first; a lemma for each variable, or for each conjunct, and
each group of actions that moves it; a lemma that says which actions move what
(`QuietStep`, `Moves`), so that the others are not looked at again; and
theorems that read the properties off the invariant.

| Module | Theorem | States |
|---|---|---|
| `RegistryProofs` | `TypeCorrect`, `Invariant` | `TypeOK`, `IInv` |
| | `EntryNeverNil`, `RoutesLeadToTunnels`, `NoListenerLeaks`, `PortTableIsExact` | the registry's invariants |
| | `PortsAreLeased` | `Registry` implements `Lease` |
| | `MissingIsExplained` | the action property of `handleHTTP` |
| | `OwnSubdomainStays` | `OwnSubdomainKept` |
| `ServerProofs` | `PromotionsKeepServing` | `PromotionKeepsServing`, if tunnels are named after their subdomains |
| | `NoGapForVisitors` | `NoGap` |
| | `NotShadowed` | `AppNotShadowed`, if moreover no client has a TCP and an HTTP tunnel of one name |
| `DeployProofs` | `TypeCorrect`, `Invariant` | `TypeOK`, `IInv` |
| | `NoGhosts` | `NoGhostBuild` |
| | `CrashSurvived` | `SurvivesCrash` of `DeployWatch` |
| | `AppsAreBacked`, `NothingIsLeft` | `AppBacked`, `NothingLeaks`, if docker's commands work |
| `PromotionProofs` | `AlarmsAreExplained` | `AlarmsExplained` |
| `SessionProofs` | `TypeCorrect`, `Invariant` | `TypeOK`, `IInv` |
| | `NeverStarves` | `ConnectNeverStarves` |
| | `RoutesLostByOwner`, `RestoredIfGivenUp` | `RouteLostByOwnerOnly`, `RestoredUnlessOverlap` of `SessionWatch` |
| | `DirectoriesAgree`, `NoneStrays` | `DirsAgree`, `NoStrayTunnel` of `SessionWatch` |
| `RelayProofs` | `TypeCorrect`, `Invariant` | `TypeOK`, `IInv` |
| | `PipesKeepOrder` | each direction of `Relay` implements `Pipe` |
| | `HttpIsAnswered` | `HttpAnswered` |
| `RelayHeard` | `FirstCloserIsHeard` | `FirstCloserHeard` |

The assumptions are the named ones of the modules. `Registry`: `PortAssumption`,
`RequestAssumption`, `BoundAssumption`, `NoneAssumption`. `Deploy`: `AppAssumption`
(each upload has a name and a port, each stop a name), `DisjointAssumption`,
`MarkAssumption` (`None` and `Torn` are no app, container or map). `Session`:
`ConfiguredAssumption`, `DirAssumption` (only listed tunnels start with a directory),
`BoundAssumption`, `NoneAssumption` (`None` is no name and no removal under way).
`Relay`: `PiecesAssumption` (each direction has something to send), `MarkAssumption`
(header, end and refusal are no data). They hold of any parsed configuration or only say
that the model's marks differ from its data; TLC evaluates them in every run. `Server`
and `Promotion` have the assumptions of the modules they instantiate
(`RegistryAssumption`, `DeployAssumption`).

### Registry

None of the invariants is inductive by itself. `RegisterHTTP` keeps
`NoDanglingRoute` only if the registering session is in `byID`, which is
`EntryWhileHandled`. `RegisterTCP` keeps `PortTableExact` only if no other tunnel
claims the port: it has an open listener until shutdown, and the handler between
`net.Listen` and `registerTCP` excludes one (`OneListener`, which the operating
system sees to and which is part of `IInv` only for this); `ListenersLive` and
`FreshIsEmpty` (a session has no tunnels before `addClient`) are needed when sessions
come and go.

`OwnSubdomainStays` has an invariant of its own on top, `OwnInv`. Routes are deleted by
key, so a client could lose one by three ways: another client's removal, its own removal
of another tunnel with the same subdomain, and a registration that overwrites it.
`AskedFor` (a client's tunnels are of its own requests) excludes the first, `SoleOnce`
(a client has such a subdomain once) the second; `SoleOnce` holds because what
`httpCheck` saw is still true at `httpRegister` (`SoleUnrouted`), which is what fails
for a subdomain that two clients ask for.

### Server

`ServerProofs` instantiates the two proof modules, as `RP` and `DP`, and carries their
invariants over. A module instantiated twice is two copies for the prover: the lemmas
`SameRegistryNext` and `SameDeployNext` say action by action that they are the same.
`DeployNext` maps each step of the composition to one of `Deploy` or to a stutter,
`RegistryNext` to one of `Registry`; the second needs `Deploy`'s invariant, since an app
comes and goes in one step of `Registry` only if `deployedApps` changes for one name at
a time. These two are lemmas, true by the way the composition is written; they carry the
invariants and state nothing of their own.

`PromotionsKeepServing` rests on `AppStands` (from `storeApp` on the app is there, also
while it saves and evicts) and on `TunnelsNamed`. Its hypothesis `NamedBySubdomain` is
needed: `deploy.go:330` removes the first tunnel with the app's *name*, and if that one
serves another subdomain, that one is left to nobody; what the client sends by default
satisfies it (`client/control.go:220`). `NoGapForVisitors` needs no such hypothesis: it
follows from the order of the two questions alone.

`NotShadowed` rests on `KeptOff`: while an app is served, no handler that passed its
checks later is about to write the app's route, so that from its lookup on the eviction
knows who has it; the handlers that had passed them already are what the property
excepts (`late`). That the eviction then takes the route with the tunnel needs
`FromRequests` (a client's tunnels, and what its handler registers, are of its own
requests) and two
hypotheses on these. Without `NamedBySubdomain` the tunnel has another name than the
app and stays; without `NamesApart` a TCP tunnel of that name may stand before it in the
list, and `removeTunnelByName` takes that one (`server.go:335-358`).

### Deploy

`NoGhostBuild` becomes inductive as `BuildsWF` (a build is listed under the name of
its upload). The other three need to know where everything comes from: every copy of
the map (`deployedApps`, what a save has marshalled, the file, what a stop has loaded)
holds an app under its own name that was once stored (`AppsWF`), every container is
that of an upload that got as far as `docker run` (`ContainersWF`), and directories
follow the upload (`DirsWF`). On top of it stands what one upload can rely on as long
as it is `Alone`: its container runs (`AloneRuns`).

`AppsAreBacked` and `NothingIsLeft` have the hypothesis `DockerMayFail = FALSE`. It is
not a convenience: with failing commands both are false (`stopApp` forgets an app
whose container runs on, `cleanStop` leaves a container behind), and the run checks
them without failures as well. `DockerInv` is the part of the invariant that needs it.
Crashes, shutdown, restarts, failing builds and failing saves are in these theorems.
`NoGhosts` and `CrashSurvived` have no hypothesis: they hold as well when docker's
commands and the saves fail.

`CrashSurvived` is about a crash at any moment, in the middle of other requests' steps.
Its invariant `WatchInv` compares the file with the map. `FileWF` says that the file has
every app whose upload is past its own save, unless a save is between its truncation and
its write or the last one was `stale`: it failed, or another one was under way with it.
`SavesWF` says why: a save that nobody overlaps has marshalled every app but those
stored since, and these have a save of their own still to do. What the restart then
takes back depends on docker (`deploy.go:142-147`): the app's container must run, and
its inspection must not fail. The property names all of these cases, since in each of
them the code does lose the app.

### Promotion

`AlarmsInv` says more than `AlarmsExplained`: every build that has ever ended is
explained, or its upload is cleaning up. It holds because builds are listed under
their own name, so that a report, which goes by name, ends its own build or that of
another promotion of the name; and because the server turns to cleaning up in the step
in which it ends a build itself. What has been explained stays so, since no report is
taken back.

### Session

`ConnectNeverStarves` is the core of its own invariant: as it compares a counter with
the lengths of two queues, every action that takes a message out or puts one in has
its case. It needs that all the server is sent are registrations (`RequestsWF`) and
that a client that waits has a session and waits for something (`ClientWF`).
`HandlerWF` says that a handler past the check still has the request to answer.

`dynamicRemove`'s loop is the function `Without`, which is `SelectSeq` in a form that
the provers can work with (`SelectSeq` is recursive in the library). What it keeps is
proved by induction along the list (`WithoutElements`).

The four theorems about `SessionWatch` rest on three more invariants. `WatchInv` says
what a session looks like before its client has proved itself (`SessionsWF`), that the
client asks for its tunnels on a session where nothing has happened yet (`ClientAsks`),
and that a route always leads to a tunnel of the session it names (`RecordsWF`).
`TunnelsWF`, its fourth part, says that a session has each of its tunnels once, with the
route to it, and that nobody has the route of a name that a handler is about to
register. It holds only as long as no two handlers have been past the check of one name
together (`raced`): `isSubdomainTaken` and `registerHTTP` take the lock one after the
other (`control.go:165`, `188`), and of two that race the second takes the route over.
`RoutesLostByOwner` is read off it, under the same premise: `removeClient` deletes by
subdomain, and the subdomains of its tunnels are routed to no other session.

`RestoreInv` follows each listed tunnel from the client's request, which `RegisterAll`
sends for all of them, to the session's list: a request is taken off the queue by
`CheckSubdomain`, which refuses it, or by `RegisterHTTP`, and when no other session is
left (so that nobody is there to race with), a name is refused only if this session has
it. From then on nothing but the dashboard takes it away, nor its route.

`AgreeInv` speaks of the tunnels one by one, and only while the client has asked for
its tunnels and is connected (`Up`): a reconnect starts from nothing, with requests that
carry the client's directories (`AgreeingFirst`). `OneAtATime` says that at most one
operation on a tunnel is under way, in the handler, in the queue or in a removal's
second step, and none together with a registration; this is what `crossed` is for.
`Agreed` says that the server's directory is the last one that was set, wherever the
message with it is, and that a request carries the client's; only this part needs that
`connect` has swallowed nothing, since a swallowed `setDir` is lost for good. Neither is
inductive without `Listed`: the server has no tunnel, and will have none, that the
client does not list, or else a tunnel added again would find the old directory in the
server's entry. At rest `Listed` is `NoStrayTunnel`. There is one lemma for each kind of
step, and `Untouched` for all the steps that have nothing to do with the tunnel.

### Relay

The invariant says that each direction is one line of pieces. `Content(d)` is what
there is to receive, the i-th piece at i, the header at 0 (for a client that could not
dial: a refusal). `Fits(c, q, a)` says that a buffer holds the pieces from the a-th
on, and nothing is read past an end; `Chain` says it of a queue of messages, with a
place for every message where the one before it stops. `StreamFits` puts `stream`,
`rest`, `wire` and `in` one behind the other, and `InOrder` puts them behind `out` and
`got`. Lost pieces break the line only where nobody hands on what is behind the gap:
a destination that is gone, a writer that is closed, a session that is dead, a reader
that is closed. The exception is a 502 of the server's own (`OwnAnswer`). From this
`PipesKeepOrder` follows step by step: `Receive` takes the first piece of `out`, which
is the next one.

`HttpIsAnswered` needs the other half, that nobody ends too early. `HttpWF` says that
no end is on its way anywhere until the server closes, as long as no party has failed;
that it closes in `RelayResponse` only, with the last piece of the response, follows
from the line: the piece with the number `Total` is in its place, behind all others.

`FirstCloserIsHeard` is the longest of the proofs. That a line has no gap in it does not
say that all of it arrives: copies and handlers end early here, and what is in a buffer
of theirs is gone. `HeardInv` therefore follows one piece, the last one sent. `Carried`
says that it is in the socket, in transit or written, and behind nobody who has ended:
a reader that is done has nothing left to read, a writer that is done has written it.
`Excused` lists when this may fail: the session is dead, the receiver has closed as
well or never came to be, or the receiver was itself not heard (`Unheard`), which is
what `Complete(Other(d))` excludes at the end. The rest of the invariant says why a
copy may end at all: an end is the last thing in its queue (`SourceWF`, `StreamEnds`,
`OutEnds`) and comes of a close, a copy ends because of such an end or of a missing
receiver (`CopiesWF`), pieces are in one stage only (`Once`), and a receiver that left
having got everything has left nothing on its way (`NothingMissed`), so that writing to
it does not fail. A handler closes when the first of its copies ends: by `CopiesWF` the
peer of that copy has closed, so the other direction is excused, and its own is through.

`Chain` quantifies over functions to the naturals, which TLC cannot enumerate: `IInv`
was checked with the places computed from the messages' lengths.

### Model-checked only

- Liveness (`Purged`, `BuildsEnd`, `Reconnects`, `RelayEnds`): the prover has no
  support for fairness and ENABLED.
- `Server!EvictedRoute` and the four other statements of violation runs are false.

## Not modelled, and the plan

| Step | Module | Content |
|---|---|---|
| 1 | `Session`, more | TCP tunnels with their ports, which `Registry` has at the server's end |

Left out with a reason: heartbeat timing (the models let the server give up a session
whose connection is gone at any moment, which covers every timing of it; a healthy
session that is given up is `Registry!SessionDies`); the server's own end beyond
`Deploy!Shutdown` and `Exit` (what `Serve` does not wait for dies with the process);
host-name parsing (`extractSubdomain`) and gitignore patterns, which are character
work without state.

Not planned: TLS (delegated to autocert), SSE, metrics and the web page (output
only), the tarball and gitignore code (file-system I/O), flags and YAML.

## Running

    tlc -config MCRegistryPorts.cfg MCRegistry
    tlapm RegistryProofs.tla     # and the other proof modules
