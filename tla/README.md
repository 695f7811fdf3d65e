# DemiMine in TLA+

DemiMine is a manager for Minecraft networks on home computers. This directory
holds TLA+ models of its concurrent parts, configurations that model-check them
with TLC, and theorems about them that TLAPS checks.

Contents: [the system](#1-the-system) · [modules](#2-modules-and-the-code) ·
[runs](#3-runs) · [fairness](#4-fairness) · [proofs](#5-proofs) ·
[disagreements](#6-where-the-code-and-its-documentation-disagree) ·
[not modelled](#7-what-is-not-modelled) · [plan](#8-plan)

Paths are relative to the repository. `manager/` stands for `src/manager/`,
`DemiDynamic/` for `src/DemiDynamic/src/main/java/net/demimine/dynamic/`.

## 1. The system

Four programs work together:

- the **manager**, a Go server with an SQLite database. It creates, starts and
  stops one Docker container per game server and proxy, answers the web
  interface and the proxy plugins over HTTP, and pushes events over WebSockets;
- **DemiDynamic**, a Java plugin of the Velocity proxy. It starts servers that
  players ask for and stops those nobody is on;
- **DemiAuth**, another plugin of the proxy, which admits players and routes
  their logins;
- the **web interface**, a Svelte application in the administrator's browser.

```
 players -> Velocity [DemiDynamic, DemiAuth] -> game servers (containers)
                 |  HTTP: can-start, start, stop,        ^
                 v        status, join, leave            | Docker API
              manager  ----------------------------------+
                 ^  HTTP and WebSocket                   | event stream
                 |                                       v
              web interface                       rows of the database
```

There is no common lock. In the manager every HTTP request, every tick of the
scheduler, every container's log stream and the event stream is a goroutine;
they meet in the database, in Docker and in a few mutex-protected maps. In the
plugin the handlers of Velocity events and the scheduled tasks run on a thread
pool and meet in concurrent maps.

### Inventory

| Component | Source | State it keeps | Operations | What makes it correct |
|---|---|---|---|---|
| DemiDynamic queue | `DemiDynamic/QueueManager.java` | who waits for which server, and the reverse index | add, remove, clear, read | one server per player; the two maps agree; no set leaks; "empty" is true when said |
| DemiDynamic auto-start | `DemiDynamic/handlers/ServerPreConnectHandler.java`, `commands/CancelCommand.java` | servers being started, countdowns | queue, start, poll, count down, teleport, cancel | whoever waits is served or let go; a start ends; players go where they wait for |
| DemiDynamic auto-stop | `DemiDynamic/AutoStopManager.java`, the connect and disconnect handlers | who is where, stop timers | track, arm, cancel, stop, evict | only idle servers are stopped; each timer can be cancelled; those who left are forgotten |
| Plugin configuration, API client | `DemiDynamic/Config.java`, `ApiClient.java` | none that changes | read file, HTTP | its answers are inputs of the two above |
| WebSocket hub | `manager/internal/websocket/` | clients, a buffered channel each, one broadcast channel | register, unregister, broadcast, evict, pumps | never sends on a closed channel; no gaps in what a client gets; never blocks or ends the process |
| Server lifecycle | `manager/internal/api/handlers/servers.go`, `internal/docker/`, `cmd/server/main.go` | rows, status, players, containers | start, stop, restart, delete, events, boot, shutdown | the table says what Docker does; no players on servers that are gone; nothing runs when the manager is off |
| Task scheduler | `manager/internal/scheduler/scheduler.go` | scheduled tasks, day last checked | tick | at most one scheduled backup a day |
| Resource budget | `manager/internal/api/handlers/resources.go` | none: reads rows | can-start | what the boot starts fits in memory |
| Backups | `manager/internal/backup/backup.go`, `api/handlers/backups.go` | backups table, archives | run, list, delete, clean up, restore | copies are cold; records settle; the newest archives are kept; a restore brings back what the archive has and nothing else |
| Proxies | `proxies.go`, `proxy_utils.go`, `docker/proxy_containers.go`, `mc/velocity.go` | rows, members, containers, velocity.toml, forwarding files | create, update, move, delete, start, stop, restart | the file lists the members, and they trust the proxy; names and ports are nobody else's; the status settles |
| MiniMOTD configuration | `internal/minimotd/` | config files, icons | write, rename, drop, refresh | a member with lines has its config and nobody else has; each icon it names is there |
| File links | `links.go`, `files.go` | links between directories, symlinks, mounts | link, unlink, delete, write, rename | each row has its symlink and back; nobody's data goes with a link |
| Jar updates | `mc/updates.go`, `mc/download.go`, `jar_updates.go`, `manual_updates.go` | jar, its row, cached answers | check, update, upload | the row says what the jar is; after an update no update is offered |
| Plugins | `internal/plugin/`, `handlers/plugins.go`, `main.go` | files, rows, cached lists | install, update, remove, put the bundled ones in place | row and file agree; needs are installed once; each boot ends with the image's own jars |
| Log streams, consoles | `docker/logmanager.go`, `consolemanager.go` | a stream or connection per container | follow, stop, write | one per container; a new one is not dropped with the old |
| RCON | `internal/rcon/` | a pool of connections, a lock each | execute | every call ends, with its own answer |
| Spark profiler | `internal/spark/`, `logmanager.go` | expected URLs, in log streaming | start, await, parse | an URL goes to who asked for it; every request is answered |
| DemiAuth | `src/DemiAuth/` | bypass list, attempts, scheduled kicks | login, admin commands | who waits at the login server is timed; who is past it is not kicked |
| Rate limit | `api/middleware/ratelimit.go` | counters per address | count, expire, clean up | no window lets more through than the limit |
| Database | `internal/db/` | tables and their version | migrate | no crash loses a row; the schema ends as the code expects it |
| Sessions, keys, settings | `handlers/auth.go`, `settings.go`, `api/middleware/` | rows | check, read, write | sequential |
| Versions, Minecraft settings, Modrinth, routing | `internal/mc/`, `internal/modrinth/`, `api/router.go` | files | edit, list | texts and I/O |
| Web interface | `src/webui/src/lib/` | copies of the manager's state | reconnect, reload | a view catches up after reconnecting |

### What is hard

- *Check, then act.* The plugin tests a concurrent map and acts a line later
  (`QueueManager.java:50`, `AutoStopManager.java:70`,
  `ServerPreConnectHandler.java:58` and `:111`); the manager asks Docker whether
  a container exists and then replaces it (`containers.go:116`).
- *Two writers of one fact.* `servers.status` is written by requests, by the
  event stream, by the boot and by the shutdown, in whatever order they come.
- *Work that outlives its reason.* Wait loops, countdowns, stop timers and
  backup runs go on after the player, entry or record they are for is gone.
- *Locks.* The hub's `RWMutex`, with an eviction that changes the kind of lock.
- *A row and a file.* Nothing ties what the database says of a server, proxy,
  link, jar or plugin to what is on the disk but the order of a handler's
  steps; any of them may fail, and the manager may be killed between two.
- *Ends.* The manager is killed with events unread and backups half written,
  and shuts down while requests still come.

`PROJECT.json` lists each hazard with the line where it bites and the
properties that would catch it, or a note on what goes wrong (section 6) or is left out.

## 2. Modules and the code

`PROJECT.json` maps every definition to its lines. A definition right before
another one with a longer name for a fault (`DropMemberForgotten`,
`ForgetKeepsEntry`, `LeaveRowUnsynced`, ...) is a plausible slip of that step; no
specification uses it. It stands there so that each property can be seen to
fail when the code is changed.

### WaitQueue — what a waiting queue promises

A player waits for at most one server, joins only when waiting nowhere, and
changes server only by leaving. `QueueManager` implements it.

### QueueManager — `DemiDynamic/QueueManager.java`

One step per operation on a `ConcurrentHashMap`, which is what the maps make atomic and
no more. `playerQueues` is the map of entries, `waitingPlayers` the index. A set of the
index is an object that threads hold on to after the map has dropped it, so sets have
identities (`members`, `ref`). `addToQueue` is `PutEntry`, `FetchSet`, `AddMember`;
`removeFromQueue` is `DropEntry`, `GetSet`, `DropMember`, `TestEmpty`, `DropSet`;
`/cancel`'s `isQueueEmpty` and `clearQueue` are `ReadTarget`, `EmptyGet`, `EmptyTest`,
`ClearDrop` and `ClearEach`; they go by the target that `/cancel` has read itself
(`aim`), which need not be that of the entry its `removeFromQueue` has taken out
meanwhile. The iteration of a concurrent set is weakly consistent: it meets what was
there from beginning to end, and may or may not meet the rest.

### StartQueue — `ServerPreConnectHandler.java`, the countdown, `/cancel`

`conn` is the handler of one connection attempt, made by a player or by a task
that teleports one; `job` a background task; `cancel` a `/cancel` under way.
`Check` is the handler's first part with its early returns, then
`Enqueue`, `Claim` (the two steps of the test and the addition to
`startingServers`), `Gate` and `Transfer`. A job asks (`CanStart`), starts
(`StartServer`), is refused (`Refuse`, `Release`), polls (`PollAnswers`,
`PollExpires`), counts down (`Ready`, `Tick`), teleports and dequeues
(`Teleport`, `Dequeue`). The manager's answers are choices, for a request can
fail at any time; servers go up and down by themselves too (`Boot`, `Operate`).
The queue is one variable here: `QueueManager` says what the two maps make of
it. Attempts of the wait loop are not counted, any one may be the last.
Requests for the hub, queue and login servers, which pass the handler
untouched, are left out.

### AutoStop — `AutoStopManager.java`, `ServerConnectedHandler.java`, `DisconnectHandler.java`, the eviction

`tracked` and `stopTimers` are the maps of `AutoStopManager`; `timer` the
scheduled tasks, each with its own thread (`Fire` tests for players,
`StopServer` asks the manager, `Forget` removes the entry); `rows` the manager's
players table. The handlers are asynchronous and go step by step through their
calls (`Conn...`, `Disc...`). What Velocity does in between is external:
`Player.getCurrentServer()` is empty from the moment a change of server begins,
and set after the handlers of `ServerConnectedEvent` are done. `Evict` and
`EvictStop` are `startServerAndQueue`'s search for idle servers to stop.

### Hub — `manager/internal/websocket/{hub,client,ws}.go`

`Run` is the hub's goroutine: it takes a registration, an unregistration or a
broadcast, and holds the lock while it serves it; a slow client is evicted
(`EvictClose`, `EvictDelete`, `EvictUnlock`). Each client has a handler
(`Connect`, `CountLock`, `CountUnlock`), a read pump (`ReadCommand`,
`ReadFails`), a write pump (`Write`) and goroutines for its commands
(`SendError`). `sync.RWMutex` follows Go's rules: a waiting writer holds off
new readers, and an `RUnlock` without its `RLock` ends the process or, when
readers are blocked, lets one of them in by mistake. `Broadcast` blocks when
its channel is full.

### ServerLifecycle — `servers.go`, `containers.go`, `events.go`, `main.go`, `scheduler.go`, `players.go`

`rows`, `status` and `players` are the tables; `container` is what Docker has;
`events` what its stream has still to deliver to `ProcessEvent`. A `task` is
the goroutine of a request (start, stop, restart, delete, the plugin's
start), of the boot or of the shutdown; `Arrive` accepts it, the others are its
Docker calls and writes in order (`CheckBudget`, `Exists`, `Replace`, `Create`,
`RunContainer`, `MarkUp`; `Signal`, `WaitExit`, `MarkDown`, `WaitGone`,
`Remove`, `Drop`). `Boot` is `SyncServerStatus`, `BootGate` and `BootTask`
`startOnBoot` with its count of committed memory, `Terminate` and `PowerOff`
the shutdown, `Killed` a crash. Containers exit, crash and, being created with
auto-remove, vanish. A Docker call is atomic except a stop, which signals the
container and waits for its exit. Docker's events are of two kinds to the
manager, up and down. Every server needs one unit of memory. Docker may refuse
to create, start and stop a container; it always tells whether one exists.
Joins and leaves are reported at once. Pausing is left out.

### Backup — `backup.go`, `backups.go`, `scheduler.go`

A `run` is one `RunBackup`, of the scheduler or of a request: `CreatePending`
(or `Create`), `Query`, `StopOne`, `AllStopped`, `OpenArchive`,
`CloseArchive` or `ArchiveFails`, `CleanupOldBackups`, `StartFlagged`.
`CheckAndRun` is the scheduler's test of date and interval, `List` and `Delete`
the requests that remove rows (`RemoveRows`), `ManagerRestarts` a crash of the
manager. Archives are named after the day, so `archive` is indexed by days: two
runs of one day share a file. Servers and proxies are alike here. What tar
reads, uploads and downloads are left out; `Restore` has the restores.

### Restore — `backup.go`, `backups.go`

`store` is what is live: the files of the data directory, the database among
them, and the trees of servers and Java runtimes. `saved` is what each archive
has of them, `temp` what lies in `temp_restore`, which all restores share and
which lies in the data directory itself, so that an archive may hold one. A
`RunRestore` clears and fills it (`ClearTemp`, `ExtractOne`) and then replaces
data, servers and java one part at a time (`Proceed`): remove what is there
(`RemoveOld`), rename onto it (`MoveNew`), ignoring both errors. Nothing is
stopped meanwhile: the games and the manager write (`Rewrite`), backups run
(`Archive`), the manager may be killed (`Cut`). `Mounted` are the trees on
another file system. Here every archive has a name of its own. The manager's
open connections to the database file that is removed are left out.

### ContainerStreams — `logmanager.go`, `consolemanager.go`, `events.go`, `client.go`, `main.go`

`streams` and `consoles` are the maps of `LogManager` and `ConsoleManager`.
`stream` are the goroutines of `streamLogs`: `Attach`, `Backoff`, `ReadEnds`,
`ReadFails`, `SeeCancel` and the deferred `Cleanup`, which removes what is
registered for the container by then. `console` are the attachments, each with a
goroutine that waits for the end of its context (`Woken`). `processEvent` gives
each event to one manager (`HandleLogs`), then to the other (`HandleConsole`);
`BootLogs`, `BootConsoles` and `Subscribe` are the order of `main`. A container
has a number for each run, so that one can say which run a goroutine or a
connection belongs to. Servers and proxies have the same code twice and are
alike here. The lines themselves, the search for profiler URLs in them, and
`ConsoleManager.Close`, which nothing calls, are left out. Docker is external.

### Network — `servers.go`, `proxies.go`, `proxy_utils.go`, `mc/velocity.go`, `minimotd/manager.go`, `proxy_containers.go`

`servers` and `proxies` are the rows. `dirs` has, by name, what a directory holds of
interest: online-mode in the member's server.properties (`online`), port and secret in
the configuration it takes them from (`port`, `secret`; for NanoLimbo servers
settings.yml, which only a creation behind a proxy writes), a proxy's velocity.toml
(`toml`), its MiniMOTD configs and icons. A request is a list of steps (`todo`) in the
order of the handler: checks and the row, directories, files, the proxy's files; a
handler that returns early drops the rest (`Abort`). `syncVelocityConfig` reads the rows
in one step and writes in another (`SyncRead`, `SyncWrite`). `users` chooses for each
behaviour what is asked, whether servers are NanoLimbo servers, whether requests
overlap, whether steps fail and whether names are indexed as unique, which is so in an
upgraded database and not in a fresh one. `Reboot` is a crash between any two steps and
the next boot, which writes the proxies' files anew. A proxy's container is in `up`;
`news` are its events, and the status comes from them and from the requests (`Mark`,
`ProxyEvent`).

### Links — `links.go`, the file handlers, the mounts of a container

`disk` says what is at each place, `links` is the table, `mounts` what running
containers have mounted over their files. Linking and unlinking are several
steps (`CreateLink`, `InsertLink`; `UnlinkLink`, `RemoveSymlink`, `PlaceCopy`),
deletions, renames and writes are those of `files.go` and follow symlinks where
the system does.

### JarUpdates — `mc/updates.go`, `mc/download.go`, `jar_updates.go`, `manual_updates.go`

`upstream` is what the site lists, `jar` the file (whole or not, and who writes to it),
`jarRow` what the database calls it, `jarCache` the answers kept for an hour. An update
downloads over the jar (`CreateFile`, `CopyFile`) and records the build. An upload is
written to `.upload_temp.jar` (`jarUpload`), which all uploads for a server share
(`SaveUpload`, `FillUpload`), and that file, whatever it is by then, is renamed onto the
jar (`PlaceJar`). Creating a file truncates the one that is there, a writer goes on with
the file he has opened wherever it is renamed to, and what is cut short counts as broken
(`Truncated`, `Filled`, `Abandoned`). `VersionLess` and `LatestVelocityBuild` translate
the ordering of versions and the choice of a build; while one request looks, the builds
of any versions may be unreadable (`Silences`). NanoLimbo's update takes the version
that the check's answer names, cached or not. An installer jar leaves what it made at
the first start; a manual update keeps or cleans it.

### Plugins — `plugin/manager.go`, `handlers/plugins.go`, `updateBundledPlugins`

Rows and files of one server, Modrinth's newest versions and the client's cached
lists. `InstallPlugin`, `DownloadPlugin`, `InsertPlugin`, `InstallNeeds` walk
the required dependencies, which may be circular; `UpdatePlugin` fetches, swaps
and rewrites the row. `boot` is the loop that puts the image's jars in place.

### RateLimiter — `api/middleware/ratelimit.go`

One entry by address: count and time of the first request. `Fresh`, `Counted`
and `Cleanup` are the branches of the handler, under its mutex, and the
cleaning goroutine; `served` is history: what was let through by window.

### DemiAuth — `PlayerConnection`, `BypassList`, `AdminCommand`

Where a player is and heads for, the session he is in, his attempts, the kicks
ever made and those still alive, the plugin's `scheduledKicks`. Velocity's
part (connecting, losing a server, quitting) is external; the permission
system's answer takes time (`Granted`). `strayed` and `misfired` are history.

### Profiler — `spark/service.go`, `internal/rcon/`, `logmanager.go:467-530`

A goroutine per request. A stop registers a channel (`WaitForProfilerURL`), takes
the pool's lock, a connection and the client's lock, sends and reads, then waits
for the address or the deadline (`Receive`, `Timeout`), and cancels. The reader
of the server's log takes a line and the channel (`ReadLine`), and sends later
(`Deliver`). A server and a proxy of the same number share the map.

### Schema — `db.go`

`RunMigrations` statement by statement, each of which commits by itself: create
the tables, add columns, recreate `players` and `backups`, fill and index
`sanitized_name`, moving directories. `SchemaCrash` comes between any two.

### MC modules

`MCQueueManager`, `MCStartQueue`, `MCAutoStop`, `MCHub`, `MCServerLifecycle`,
`MCBackup` and `MCStreams` bound the state space of one module each.
`MCWorkers` puts `MCStreams` and `MCBackup` side by side, `MCEntities` `Network`,
`Links`, `JarUpdates`, `Plugins` and `Restore`, and
`MCServices` `RateLimiter`, `DemiAuth`, `Profiler` and `Schema`: these share no
state here, so one of them moves in each behaviour (`part`) and the others stay
as they start. Most have *ways of using* them (`MCNetUsers`, `MCJarUsers`, ...), one of
which a behaviour chooses: which requests are made, how many, whether they
overlap and whether steps fail.

Much of this code is right as long as one thing happens at a time. A behaviour
therefore decides at the start whether it is serial (`serial`, or its way of
use; in `MCStartQueue` *patient*, without `/cancel`; in `MCStreams` *prompt*,
with goroutines that end before the next start of their container is handled),
and properties named `Serial...`, `Patient...` and `Prompt...` are about those.
The other properties are about all behaviours. Serial does not mean atomic: a
start, its Docker calls, the events they cause and the handlers of a player's
change of server still interleave with everything that follows from them.
Properties of one theme are conjoined under one name (`StartInv`, `HubInv`, ...),
whose parts are named too.

## 3. Runs

| Run | Instance | Shows |
|---|---|---|
| `queue` | 2 players, 2 servers, 2 threads, 4 sets | `EntriesAreAQueue`: the entries implement `WaitQueue` however threads interleave. `QueueInv`: no registered set is empty once every call is over (`NoEmptySetLeft`). With one caller at a time the maps agree and "empty" is true (`SerialMapsAgree`) |
| `start_safe` | 2 players, 2 servers, 2 jobs, hub and queue server the same | `StartInv`: nobody waits (`QueuedHasWorker`) and nothing stays marked as starting (`StartingHasWorker`) without somebody at work on it. `PatientExact`: without `/cancel` players are teleported to the server they wait for, a loop that gives up dequeues only from its own queue, only awaited servers are started |
| `start_live` | 1 player, 2 servers, one excluded, fair | `WaitsEnd`: each wait and each start ends (`QueueDrains`, `StartingReleased`); an excluded server is neither queued for, started nor stopped (`ExcludedUntouched`) |
| `stop` | 2 players, login and one server, 2 timers, lossy requests, fair | `StopInv`: a registered timer has a task that has not ended (`EntryIsLive`). `StopsAsPromised`: login and excluded servers are never stopped (`NeverStopped`), timers end (`TimerEnds`), and with one event at a time only idle servers are stopped (`SerialStopsIdleOnly`). `SerialReports`: tracking is where players are, timers can be cancelled |
| `hub` | 2 clients, buffers of 1, 3 broadcasts, fair | `HubInv`: `Run` sends on open channels (`RegisteredIsOpen`). `NoGaps`: a client gets consecutive broadcasts. `HubServes`: while the hub lives, broadcasts are handed on and clients let go |
| `hub_crash` | 1 client, a buffer of 1 | `HubSurvives` fails: see section 6 |
| `lifecycle` | 2 servers, both flagged, memory for 1, 2 requests, 2 boots, faults | `LifecycleInv`: no players on a server without container, whatever overlaps and whenever the manager is killed (`NoGhosts`); the boot stays in its memory (`BootWithinBudget`). One thing at a time: the table agrees with Docker when all is over (`SerialStatusAgrees`), no start takes a server down (`SerialStartKeeps`) |
| `workers` | *Backup*: 2 units, a manual run and the scheduler, 3 days, 2 records, 1 restart, faults, fair; *ContainerStreams*: 1 container with 3 runs, 1 retry, 2 read errors, boot and events, fair | *Backup*: `BackupInv`: at most one scheduled attempt a day (`OneScheduledADay`). `RecordsSettle`: a pending record settles or goes, but for restarts. `SerialBackupGood`: one run at a time, nothing runs while the archive is written (`SerialColdCopy`) and a run keeps its own archive and record (`SerialCleanupKeepsOwn`). *Streams*: `StreamsInv`: what is registered is open (`ConsoleIsOpen`). `RetriesEnd`: a goroutine reads or ends. `PromptSettles`: with prompt goroutines, and once all is settled, a running container's output is followed exactly once, by the registered goroutine, unless reading failed (`PromptFollowed`), its console leads to its present run (`PromptConnected`), and nothing is left of the others |
| `entities` | 3 names, 1 domain, 2 ports, 2 threads; 1 server and 1 proxy with 2 files; 2 requests for jars and plugins, 3 projects; 1 restore, 2 archives, 2 data files, 1 write, 1 crash | *Network*: proxies' ports stay unique, and names where they are indexed, whatever overlaps (`NetInv`); request by request velocity.toml and the members' files say what the rows say, NanoLimbo servers that join by an update aside (`SerialFilesAgree`), MiniMOTD configs follow the rows and name icons that are there (`SerialMotdRight`: `SerialMotdFollowsRows`, `SerialIconsResolve`), everybody has a directory and his own (`SerialOwnDirectory`); a proxy's status is its container's when events are handled, unless it was renamed while it ran (`ProxyStatusSettles`). *Links*: a path is the target of one link at most and no entity links to itself (`LinksInv`); rows and symlinks agree (`SerialLinksAgree`); no request about one entity loses another's file (`SerialLinksKeepData`). *Jars*: request by request the row names the jar that is there, and no upload that was cut short becomes the jar (`SerialJarMatchesRow`), the chosen Velocity build is the newest of the best channel among those that could be read (`VelocityIsNewest`), an update leaves no update to offer (`UpdateSettles`). *Plugins*: rows and files agree and required projects are installed (`SerialPluginsAgree`); however often it was cut short, a boot with no failing step ends with the image's jars (`BundledReady`). *Restore*: on one file system, a restore that reports success has brought back its archive and touched nothing else, whatever an earlier one has left (`SerialRestoreExact`) |
| `services` | 2 addresses, limit 2, window 2, 5 ticks; 1 player, 2 sessions, 2 kicks; 3 requests; 2 servers in an old database, 5 crashes; fair | `ServedApart`: windows lie apart and let no more through than the limit. `AuthInv`: who waits at the login server is timed (`LoginIsTimed`), kicks hit only who has not left it properly (`KicksHitWaiting`). `SerialProfileFound`: a stop that ends a profile answers with its own report, if nothing overlaps; `ProfilerEnds`: every request is answered. `SchemaKeepsData`: no crash in the migrations loses a row (`RowsKept`), after a boot that was not cut short directories follow the names (`DirectoriesFollow`) |
| `schema_players` | a fresh or an old database, no crash | `PlayersUnique` fails: see section 6 |
| `restore_mounts` | 1 restore, servers and runtimes on file systems of their own | `RestoresServers` fails: see section 6 |

Every run of a full module checks its types as well.

### Why the bounds are enough

- *Two of everything that races.* The races of this code are between pairs: two
  threads in one queue, two handlers and one server, a request and an event.
  `queue` has four sets so that a thread may hold a dropped set while two
  others are registered.
- *Two servers* let a player leave one queue for another, which is where stale
  wait loops matter. `MCStartQueue` explores two players with one server and
  one player with two, not both at once. `MaxAdmissions` 2 lets a player come
  back into a queue while the work of his first time is still about.
- *Buffers of one.* A capacity of 256 is full after one message here; what
  matters is before, at and beyond full, and three broadcasts cover these.
- *Memory for one of two servers* makes the budget bind at each boot.
- *Two boots* are a start, an end and a start that has to heal what the first
  left. `MaxEvents` 2 keeps a start's and a stop's events both unread.
- *Retention 1 and three days with interval 2*: an archive becomes old, a day
  is skipped, a day has two runs. Overlapping runs need two days only.
- *Restore*: two archives, a change between them and a crash let a later restore,
  of older or newer contents, meet what an earlier one has left behind.
- In `MCServerLifecycle` overlapping requests are for one server (`Few`); rows,
  container and events of different servers are independent but for the budget.
  No container goes between a boot's look at Docker and the first event the manager
  listens to (`NoneGoesAtBoot`): nothing would tell it of that one before its next boot.
- `MCStreams` has one container, for the entries of two never meet; three runs
  let an old goroutine, its successor and the next one be about at once, and
  four goroutines and consoles are more than ever needed. At most three events
  are unread. Behaviours that are not prompt have two runs.
- `MCAutoStop` has one player in its behaviours that are not serial and both in
  the serial ones; `MCHub` has one client that sends commands.
- *Network*: three names are the two that rows have and one to rename to or to
  collide with; every behaviour starts with a server behind a proxy. Four requests in a
  row create, join, rename and delete one thing; two overlap, with all of their
  steps interleaved. Two ports let one be taken. Requests of unlike kinds that
  touch no common file are not mixed.
- *Links*: directory and file make links nest; two files let one lie beside a
  link. Four requests link, replace, unlink and look again.
- *Jars*: four or five requests are a check, a publication, a check of the
  cached answer and an update, with a start; three where builds may be unreadable.
  Four uploads, some of which fail or are cut short by a crash, meet what the one
  before has left. `MCVelocityNames` has the cases the
  ordering treats apart: shorter, longer, a snapshot and its release.
- *Plugins*: `a` and `b` need each other, `b` needs `c`, `a` may do without it:
  a cycle, a chain and an optional need.
- *Rate limit*: five ticks are two windows and the tick between.
- *DemiAuth*: a second session of a player meets the kick of the first.
- *Profiler*: two overlapping stops, or three requests one after another with a
  restart of the game in between.
- *Schema*: any number of crashes up to five; old databases of every version,
  with names that sanitize to the same.

`CHECK_DEADLOCK FALSE` is set where the modelled system may stop: the bounded
number of broadcasts, boots, days, records or requests is used up.

## 4. Fairness

- `StartQueue`: the plugin's threads go on (`Handle`, `Work`, `CancelSteps`).
  Velocity's pool runs each task to its end and every HTTP call has a time
  limit. Players, operators and servers owe nothing: a server need never come
  up.
- `AutoStop`: handlers and scheduled tasks go on, for the same reasons.
- `Hub`: `Run` goes on; so does the handler that counts clients, and the read
  pump whose connection is lost ends. A slow client need not read and a write
  pump need not write.
- `Backup`: each step of a run goes on: stops and archives have time limits.
  The clock, requests and restarts owe nothing.
- `ContainerStreams`: goroutines go on, but a read need not fail; the events
  are handled and the boot goes on. Docker owes nothing.
- `MCWorkers` states the same of the steps of its parts (`StreamGoes`, `Woken`,
  `ManagerGoes`, `BackupStep`), each while its part is the one that moves.
- `Profiler`: the goroutine of each request goes on (`ProfFairness`): dialling,
  reading and waiting all have deadlines. The game need not answer, and nothing
  need appear in its log.

`QueueManager`, `ServerLifecycle`, `Network`, `Links`, `JarUpdates`, `Plugins`,
`Restore`, `RateLimiter`, `DemiAuth` and `Schema` are checked for safety only. All fairness
is weak.

## 5. Proofs

`tlapm` checks every step of the eight `...Proofs` modules. The theorems hold for
every value of the constants: any number of players, servers, proxies, requests,
threads, clients, messages, addresses, links, files, rows, days, kicks, boots,
crashes, tasks and containers, any capacity, limit and window. They assume only
the named assumptions of the modules: `NoneIsFresh`, and in most of the others that
a marker for "nothing" is no entity (`ServersAssumption`, `LinkAssumption`,
`NetAssumption`, `NetDirAssumption`, `RestoreAssumption`, `ProfAssumption`,
`SchemaAssumption`, ...);
that bounds are numbers and capacities, limits and intervals positive
(`HubAssumption`, `RateAssumption`, `BackupAssumption`, `AuthAssumption`,
`StreamsAssumption`, `LifecycleAssumption`); that the login server, the excluded and the
flagged ones are servers (`AutoStopAssumption`, ...); that the ways of use choose
among the constants (`NetAssumption`, `ProfAssumption`); that the bundled jars are a
sequence (`PlugAssumption`); that sanitizing a name twice changes nothing more
(`SchemaAssumption`, as `util.SanitizeName` has it). TLC evaluates them in the runs.

A property named `Serial...` or `Patient...` that a run checks through an MC module
is proved of that module's specification (`MCSpec`, `MCBackupSpec`,
`MCRestoreSpec`), which only restricts what comes when.

**QueueManagerProofs.** `QueueInvHolds` (`QueueInv`: the types, and
`NoEmptySetLeft`), `EntriesImplementQueue` (the entries implement
`WaitQueue`) and, with one caller at a time, `SerialMapsAgreeHolds`.

`NoEmptySetLeft` speaks of quiet states only and is not inductive. `IInv`
(`Invariance`) says what holds in between:

- `LocalsOK`: a thread past a step has the local that step fetched;
- `OneServerPerSet`: a set is registered for one server;
- `HolderKnowsServer`: a thread that holds a registered set works on the server
  it is registered for;
- `EmptySetHasCaretaker`: while an empty set is registered, some thread holds
  it and is about to fill it or to unregister it.

`SerialInv` (preserved by `SerialStep` with `IInv`) is the same for one caller at a
time. `Agreed`: a set holds exactly the players whose entry names its server, but for
the one who is being added (entry first, then the set) or removed. `SeenOK`: the set
the thread has fetched is still the registered one, and what it found empty is still
empty, so `DropSet` and `ClearDrop` unregister nobody.

Of `IInv`, the last one is the argument. A set becomes empty only in `DropMember`, whose
thread then becomes its caretaker, and is registered empty only in `FetchSet`,
whose thread will fill it. A caretaker resigns when it has found the set not
empty, filled it, or unregistered the server's set, and never sooner. That
another thread's `DropSet` may unregister a set that is not empty is the race of
section 6; it harms those who wait, not this invariant. The refinement needs no
invariant beyond the types: `putIfAbsent` and `remove` are atomic.

**StartQueueProofs.** `StartInvHolds`: the types, and whoever waits and whatever is
marked as starting has somebody at work on it. `StartIInv` adds `CountdownOwn` (a
countdown that can be cancelled is its player's own job, past the start): only then
does `/cancel` end the right job, and what it takes from the queue is what that job
would have taken. Each step of a worker hands its work to the next one or finishes
it. `ExcludedUntouchedHolds`: an attempt past the handler's test has no excluded
server (`AllowedOnly`), and every server in a queue, job or `/cancel` came from one.
`PatientExactHolds`: without `/cancel` one worker at most works for a player, and for
the entry he has (`OneWorker`), so what a job read before its wait is still true after
it; with `/cancel` it is not (section 6).

**AutoStopProofs.** `StopInvHolds`: the types, and a registered stop timer is a
task for its server that has still to end. `NeverStoppedHolds`: neither a timer
nor the eviction stops the login server or an excluded one. Entries are removed by
server, not by task, and that is what carries the first: whoever frees a task drops
the entry of that task's server. The inductive invariant adds what handlers hold
between their steps: the servers they will cancel and arm for are servers
(`GoodConns`, `GoodDiscs`), and past `MaySchedule` not protected ones; so are the
tasks' (`GoodTasks`), hence the entries', hence what `Evict` collects.
`SerialReportsHolds` and `SerialStopsIdleOnlyHolds` are about one event at a time. A
handler moves a player in steps, so `SerialInv` says where `serverPlayers` has him at
each of them (`On`, `Followed`): at his old server until `untrack`, nowhere, then at the
new one before he has landed. A task that may still stop its server waits for an
empty one, or for the handler that has just tracked somebody there and is about to
cancel it (`Deserted`); nothing else can have come in between (`Sole`), and every live
task is the registered one of its server (`Reachable`). With handlers that overlap none
of this holds (section 6).

**LifecycleProofs.** `LifecycleInvHolds`: the types, `NoGhosts` and
`BootWithinBudget`, for `WatchedSpec`, in which no container goes between a boot's
look at Docker and the manager's first event. Without that restriction it does not
hold: nobody tells the manager of that container. `NoGhosts` speaks of settled
states; `GhostsHeard` says why it holds: a server whose container has gone from
under its players has its "down" among the unread events.

`SerialStatusAgreesHolds`: with one request, boot or crash at a time, the table says
what Docker does once nothing is under way. The events of a request are read in the
middle of its own writes or long after them, so what counts is what the last unread
event will write (`Final`): while the manager serves, this agrees with Docker at
every moment (`WillAgree`). It needs to know what each goroutine knows of its
container (`Known`), that nobody else works on that server (`Apart`), that a stopping
container is waited for (`Awaited`), and how wrong the table may be between a crash
and the end of the next boot. `SerialStartKeepsHolds` follows from `Known`: a start
that removes a container has seen that there is none.

**WorkersProofs** (`Backup`, `ContainerStreams`). `BackupInvHolds`: the types, and one
scheduled attempt a day at most. That is not inductive: `Marked` says why it holds,
the day of the last check is never ahead of the clock and no record of the scheduler
is younger than it. A failed, deleted or interrupted run changes nothing of this,
which is why it is not repeated on its day. `SerialBackupGoodHolds`: while an archive
is written nothing runs, because what is left to stop covers what is up (`Cold`); a
run's cleanup spares its own archive, because no archive has a later date
(`NoneAhead`), so today's is among the newest whatever the retention.

`StreamsInvHolds`: the types, and a registered console's connection is open. A woken
goroutine closes whatever console its container has, so openness alone is not
inductive. `Registered` adds that a registered console's own goroutine still waits
and that it is registered for its container only: closing it drops the one entry
that leads to it.

`PromptSettlesHolds`, where goroutines end before the next start of their container is
handled (`MCStreamsNext`): `PromptIInv` follows the events. What is still unread says how
the container came to be as it is (`Told`, `Follows`), so a handled start finds no
goroutine left over from the run before and there is one at most per container
(`OneFollower`); it has the container's console, or will open it (`OneConsole`,
`Connects`), and a boot that is still going over the containers has those it has not
reached ahead of it (`Booting`).

**NetworkProofs** (`Network`). `NetInvHolds`: rows and steps keep their types, no two
proxies have one port and, where they are indexed, no two servers and no two proxies one name, and a server's proxy has been created. The
uniqueness comes from the index under which a row is written, not from the handler's
test, which may be stale; the rest from the steps under way, each of which holds a
row or a name that it read, or checked, long before (`StepsOK`). No id is used
twice, so a proxy that was created stays so.

`SerialOwnDirectoryHolds` and `ProxyStatusSettlesHolds` are about one request at a time.
A handler tests names and ports and then takes steps, so `NetSerial` says at each of
them what the test still stands for. `Stage` has one case per way a request can be
under way: nothing that matters is left (`Calm`), a row is about to be entered
(`Inserting`, `InsertingProxy`) or renamed after its directory (`Renaming`,
`RenamingProxy`), a server's or a proxy's directory and row go one after the other
(`Removing`, `Deleting`, `DeletingProxy`), a container is switched and then marked
(`Switching`). `RowsApart` needs that a new member's port is above all the others',
which rests on the greatest of finitely many ports being one of them (`Greatest`, by the
least-number principle). `Told` says what the events that are still unread will leave in
the row of a proxy: the last of them agrees with its container (`RunsTold`).

`SerialFilesAgreeHolds`, under the same regime where no step fails: `FileSerial` names
the one file that is wrong for the moment. `KeptBut(I)` says that all servers' own files
are right but those of `I`, `SyncedBut(P)` that every velocity.toml is but those of `P`.
`FileStage` has one case per way a request can be under way: nothing is wrong (`Resting`),
one velocity.toml still has to follow (`Syncing`), a server joins (`Assigning`,
`Joining`), is updated (`ChangingRow`, `Changing`), is new (`Entering`, `Filling`) or
leaves (`Going`), a proxy is new or renamed (`Founding`) or leaves (`Leaving`). Each says
which step that is still to come will put the file right. Names are unique then even
without an index (`NamesApart`), so each directory has one owner. velocity.toml depends
on the members' rows alone (`VelocityStays`), and MOTD and icon steps leave ports, secrets
and velocity.toml as they are (`Fit`, `Written`). Where a request may move a server
straight from one proxy to another, the property leaves velocity.toml out, as the old
proxy's is not written again (section 6); `Mine` is where the proof uses that. Where
servers join by an update it leaves port and secret of NanoLimbo servers out, whose
settings nobody writes then (`Follows`).

**ManagerProofs** (`Links`, `Plugins`, `Restore`, `JarUpdates`, `Hub`). `LinksInvHolds`:
rows and mounts have their types, a path is the target of one link at most and no entity links to itself, whatever overlaps, fails or crashes.
`LinkInvariance` adds `JobOK`: a request between its test and its insertion holds a
link between two entities. Symlinks and files play no part.

`BundledReadyHolds`: a jar that is not as it should be is one that the boot has still to
do, and the jar it is busy with has no old copy left (`BundleIInv`). A crash in between
starts the list anew. `SerialRestoreExactHolds`: `RestoreProgress` follows the parts
through the stages. What is still to do, or of a later stage, is extracted and
untouched; what is being moved is extracted; all else is as it must be in the end.
With one restore at a time (`OneRestore`) nobody else touches `temp_restore`, so this is
kept. Archives that hold a `temp_restore` of their own are excepted (section 6).

`SerialJarMatchesRowHolds` and `UpdateSettlesHolds` (`JarIInv`, `JarSerial`): what the
sites list matters only in that ids are numbers of which one is the greatest, and that a
new build is above it (`ListsOK`, `BuildAdded`), so Purpur's newest build never goes
down between the look and the download. `AtWork` says how far a request has come with
the jar or the temporary file, whose only writer it then is; the row follows from it in
the last step. Where steps fail and the manager crashes, `JarUploads` says of what an
upload that was cut short has left that nobody writes to it: the next one truncates it,
so what is filled is whole. With two uploads at once it is not (section 6).
`UpdateSettles` needs `CacheOK`: an answer cached for a row is still right for it,
except for those kinds whose answer the update drops. It asks again under the lists of
builds that the update could read, and speaks of an update that wrote its row
(`WriteRow`): one whose write fails keeps the old answer, as the code has it. Which
build is picked plays no part.

`HubInvHolds` (`HubInv`: the types, which bound every channel by
its capacity, and `RegisteredIsOpen`); `RunSendsOnOpen` (no step of `Run` pushes
on a closed channel). The inductive invariant (`HubInvariance`) adds that
a handler registers its client once and that only clients which have been
registered are closed: without this a closed client could be registered again,
and nothing in the map would tell. The mutex plays no part in the argument: only
`Run` closes channels and only `Run` changes the map. `NoGapsHolds`: what is on its
way to a client, sent but not written, ends with the broadcast before the one it is
due (`UpToDate`), while broadcasts wait in the order of their numbers (`Numbered`) and
a client gets nothing before `Run` has entered it (`Untouched`). Error answers come in
between, and a client that is being evicted is due nothing more.

**ServicesProofs** (`RateLimiter`, `DemiAuth`, `Profiler`, `Schema`). `ServedApartHolds`: no
window lets more through than the limit, and two windows of one address begin more
than `Window` apart. The inductive invariant ties the history to the map: what an
address was served in its present window is what its entry counts, up to the limit;
every earlier window began more than a window before that entry; and where the map
has no entry, every window is over. The last is what `Cleanup` needs: dropping an
entry must not forget a window that still runs.

`AuthInvHolds`: the types, `LoginIsTimed` and `KicksHitWaiting`. A kick's task knows its
session but removes whatever entry its player has. The inductive invariant says why
this does no harm to those who have never strayed: an entry names a task of its own
player (`OwnEntry`), and such a player's only live task is the one in his entry, is
of his present session, and lives only while he is at the login server (`OneKick`).

`SerialProfileFoundHolds`: while requests do not overlap and no report comes late,
one report at most is on its way, in one of four places (with spark, in the log, with
the log's reader, in a channel; `Report`), and its request still waits for it
(`OneReport`). The map knows the one stop that waits (`PendingWaits`), so the reader
finds that stop's channel; a channel is closed only when its request is done
(`ClosedAfter`), so the send that comes later finds it open.

`SchemaKeepsDataHolds` has two invariants, over the whole list of statements.
`RowsInv`: a table is dropped only because the statement before it has copied its rows
to the new one (`KeptInNew`), which was empty before (`CopyReady`); where rows are does
not change otherwise. What makes this an invariant is that the jump over a recreation
that is not needed (`NextGroup`) lands on the beginning of a group and never behind a
copy (`Jump`, `Landing`). `NamesInv`: how far `migrateSanitizedNames` has come by the
number of the statement (`NamesProgress`); moving one server's files never takes
another's place.

**Only model-checked.**

- Liveness (`WaitsEnd`, `TimerEnds` in `StopsAsPromised`, `HubServes`, `RecordsSettle`,
  `RetriesEnd`, `ProfilerEnds`): the prover has no rules for fairness, nor for `ENABLED`.
- What rests on recursion, sorting, filtering or counting of sequences and strings, of
  which the prover knows nothing: `VelocityIsNewest`, `SerialPluginsAgree`. So do
  `SerialLinksAgree` and `SerialLinksKeepData`: where a chain of links ends is a
  recursive function.
- `SerialMotdRight`: within reach, but it needs of every MiniMOTD config what
  `FileSerial` says of velocity.toml, and of the icons too. Not done.

## 6. Where the code and its documentation disagree

Three runs end in a counterexample:

- `hub_crash`. `Run` evicts a slow client under the write lock and leaves with
  `RUnlock` (`hub.go:102`). Go ends the process for that. With readers blocked
  in `ClientCount`, one is let in instead and the lock is lost for ever.
- `schema_players`. A fresh database gets `players` without a unique uuid; the
  columns of versions 4 to 7 raise `currentVersion` (`db.go:310`) past the
  recreation of version 2, which is skipped then and at each later boot.
  `ON CONFLICT(uuid)` (`players.go:87`) needs that uniqueness.
- `restore_mounts`. `RunRestore` empties the servers' directory and renames the
  extracted one onto it (`backup.go:291`), but `docker-compose.yml:23-26` mounts
  data, servers and java separately: the rename fails between mounts, its error
  is ignored, the deferred removal takes the extracted copy, and success is
  reported over an empty directory. `PROGRESS.md:121-122` and
  `backup_test.go:127` have the servers restored.

Others were met on the way and have no run of their own. Where a property is
restricted, it is because of these.

*DemiDynamic*

- `removeFromQueue` tests the set for emptiness and then unregisters whatever
  set the server has (`QueueManager.java:50`). A player added in between waits
  in a set nobody finds, and `isQueueEmpty` makes `/cancel` stop the server he
  waits for.
- A disconnect while the server is being changed finds no current server; the
  handler then clears the player at the manager but not in the plugin's own map
  (`DisconnectHandler.java:60`), and his server never counts as empty again.
- `/cancel` tells the hub from the queue server by the current server's name
  alone (`CancelCommand.java:59`); by default they are the same server
  (`Config.java:49-50`), and a player waiting in the hub is disconnected instead
  of kept there (`src/DemiDynamic/README.md:99`).
- Stop timers do not use `auto_shutdown_minutes` of the server
  (`src/DemiDynamic/README.md:16`); the eviction stops every pending server
  rather than "the one with shortest timer" (`:80`); a player admitted through
  the gate is not reported as a join (`:85`).
- Two handlers that arm a timer for one server at once leave the first one's task in
  no map (`AutoStopManager.java:79`), where nobody can cancel it: it stops the server
  if that is empty when its time has come.
- `/cancel`'s stop and a task's start are sent by different threads and may
  reach the manager in either order. A wait loop that outlives a cancelled entry
  takes its player out of a later queue (why `PatientExact` is about patient
  behaviours). The stop task tests for players and stops in two steps.

*Hub, lifecycle, backups, streams*

- `SendError` may send on a channel that `Run` has closed (`hub.go:193`), which
  panics; in the model it ends the process (`fate`). Subscriptions are recorded
  and not used by broadcasts.
- The shutdown stops the servers whose row says `running` when it asks
  (`main.go:182`), while start requests are still served; a server marked late
  outlives the manager. `backupdesign.md:9` says that nothing runs then.
- `Delete` removes a container by a name without the prefix (`servers.go:554`),
  so a container that runs under a stopped row survives its row.
- Two starts at once: both find no container, and the second removes the one
  the first has started (`containers.go:116-122`); why `SerialStartKeeps` is
  about serial behaviours. A container that dies between its start and the
  `UPDATE` leaves the status at `running` when its events were read first.
- `SyncServerStatus` heals `running` to `stopped` only, and takes a container
  that was created but never run for a running one, so `NoGhosts` speaks of
  containers, not of running ones.
- `Restart` of a stopped server fails (`servers.go:1115`).
- `ListBackups` deletes the record of a backup that is being made
  (`backup.go:411-421`); two backups of a day share a file; a failed run leaves
  servers stopped and may leave a partial archive, which retention counts; nothing
  keeps a request from starting a server while the archive is written.
  `PROGRESS.md:116` says that servers are restarted after a backup.
- A log stream that ends removes the entry of the one that has replaced it
  (`logmanager.go:112`): the new one goes on unregistered and a third is added
  beside it at the next start. The goroutine that waits for the end of a
  console's context closes whatever console is registered by then
  (`consolemanager.go:87`): a restart that is quick loses its console until the
  next one, though `design.md:32` promises console access. Neither happens in
  prompt behaviours. A stream counts its failed attempts over its whole life.
  The signal that precedes a stop ends the stream already: a server's last
  lines are not shown. A container that starts between the boot's lists and its
  subscription is missed.

- A restore stops nothing and no restart follows, though `PROGRESS.md:122`,
  `backupdesign.md:18` and its own last message say so: games write into what is
  being replaced, and the manager's open connections go on with the removed
  database. Two restores at once share `temp_restore` and lose data. An archive
  made while one was left there replaces its own extraction with it, and reports
  success with nothing more restored. A crash between removing and renaming leaves
  the boot to make an empty database.

*Servers, proxies and their files* (`Network`)

- A server moved straight from one proxy to another stays in the old one's
  velocity.toml (`design.md:1206` has it removed there);
  `RemoveVirtualHost` removes nothing; renaming a server and giving it MOTD lines
  in one request leaves a stray config under its old name.
- A proxy renamed while it runs keeps its container's old name; `Stop` then marks
  it stopped and the container runs on.
- Only an index made while a database is upgraded keeps names apart
  (`db.go:490-491`); without it two requests at once give two servers, or a
  server and a proxy, one name and directory. A proxy and a server can share
  one in any case.
- Deleting a proxy leaves its members offline-mode, with its port and secret.
  `ConfigurePaperProxy` rewrites paper-global.yml with the velocity section only.
- Renaming a server looks for its icon under a directory name that is gone by
  then; an icon uploaded before there are MOTD lines is never copied.
- `ConfigureServerProxy` has no case for NanoLimbo (`proxy_utils.go:167`): only its
  creation behind a proxy writes port and secret into settings.yml
  (`servers.go:379`). A NanoLimbo server that joins by an update keeps those it had,
  none or another proxy's, beside a row and a velocity.toml that have the new port; why
  `SerialFilesAgree` leaves it out.
- A file that cannot be written leaves it and the row apart until the next request or
  boot that writes it.
- A crash between the renaming of a directory and the row leaves a directory
  without a row. `udp_port: null` of the interface never clears a port.

*Links*

- The comments at `links.go:218` and `:224` speak of links above; the code tests
  those under. A rename onto a linked path replaces the symlink and strands
  its row, and a later unlink overwrites the real file.
- `DeleteFile` may take a running target's link, though deleting and unlinking a
  link need it stopped; when it is refused (409) the row is dropped already.
- Creating a link, deleting and writing the same path at once can lose a real
  file; a link made while its target starts stays unmounted.

*Jars and plugins*

- The Paper check may name an unstable first build that the download never
  takes; NanoLimbo's one cached answer is shared by all and stays. A Purpur build
  published between look and download is recorded under the number before.
- A failed download leaves a truncated jar or plugin with the row of before.
- All uploads for a server share `.upload_temp.jar` (`manual_updates.go:124`): a second
  one truncates what the first is filling or about to rename, and a half-written jar is
  put in place; why `SerialJarMatchesRow` is about requests one by one.
- The comment on `latestVelocityBuild` (`updates.go:158-164`) says that check and
  download "can never disagree". When the builds of a version cannot be read, the next
  older version is taken (`updates.go:197-206`): they do, and an update may go back.
- Required plugins that fail to install are passed over, and the request succeeds.
- No index makes a project's plugin row unique; a failed update leaves a row
  without file; a list cached for ten minutes lets an update go back. Plugin rows
  of proxies name servers in their foreign key, which is not enforced. A bundled
  jar of equal size counts as equal.

*Small services*

- `PROGRESS.md:95` and `:115` give 500 requests in 15 minutes as the limit;
  `router.go:32` has 5000.
- A kick's task removes whatever entry its player has: after a quick reconnect a
  player who has logged in and is at the hub can be kicked. Leaving the login
  server for one that is not the hub never cancels the kick (`strayed`). With the
  plugin disabled kicks are still scheduled, and no password is asked. Attempts
  outlive a session. A login server the proxy does not know makes the handler
  throw past its catch.
- `broadcastProfilerURL` sends on a channel that `CancelProfilerURLWait` may
  have closed in between (`logmanager.go:516`), which panics (`panicked`). A second
  stop of one server replaces the channel of the first, whose cancel closes the
  second's. The stop of a proxy's profiler looks under the proxy's number in the servers'
  map, where no line of a proxy ever is: it always times out, and meanwhile may take
  a server's address. A pooled connection that is dead is never replaced
  (`MaintainConnections` is never started). Any other report of spark in the log
  answers too.
- A crash between `DROP` and `RENAME` of a recreated table strands its rows in
  the new one for good; one after the update of a name and before
  the renaming of its directory leaves the directory where it was. Both are
  within what `SchemaKeepsData` allows: the rows exist.
  `migrateProxyConfigs` overwrites `loginServer` with the proxy's own name.

## 7. What is not modelled

- *Pure I/O and texts*: listing and downloading files, searching Modrinth, settings
  pages, download pages, routing, the web interface's presentation, the wording of
  MOTDs. They hold no state that two actors share.
- *Sequential key/value code*: settings, sessions, API keys.
- *Parts of modelled components*: pausing, the scheduler's five-minute window,
  uploads and downloads of backups, tar's own failures, the loss of
  Docker's event stream, plugins uploaded by hand, split RCON packets, the
  rewriting of the proxies' own configuration at boot (`migrateProxyConfigs`,
  `migrateVelocityConfig`, `resolveServersDir`), Java's unsynchronised `HashMap`
  in DemiAuth, whose timer's body is one step.
- *Composition*: the plugins see the manager as choices, and `Network` and
  `ServerLifecycle` see different columns of the same rows. A start reads a
  directory that a rename may be moving; `Network` has that for proxies only.

The models trust Java's concurrent maps, Go's channels, SQLite's statements,
single file operations and single Docker calls to be atomic.

## 8. Plan

The order was: the plugin's queue and what uses it, since its threads share
most; the hub, on which the manager's survival hangs; the lifecycle of servers,
where most writers meet; backups and streams; then what rows and files say of
each other, and the small services.

Done, models: `WaitQueue`, `QueueManager`, `StartQueue`, `AutoStop`, `Hub`,
`ServerLifecycle`, `Backup`, `ContainerStreams`, `Network`, `Links`,
`JarUpdates`, `Plugins`, `Restore`, `RateLimiter`, `DemiAuth`, `Profiler`,
`Schema`, and the compositions `MCEntities`, `MCServices`, `MCWorkers`.

Done, proofs: `QueueManagerProofs`, `StartQueueProofs`, `AutoStopProofs`,
`LifecycleProofs`, `WorkersProofs`, `NetworkProofs`, `ManagerProofs`, `ServicesProofs`.

Next, models, by importance: the plugin and the manager composed, with the
manager's answers taken from `ServerLifecycle`; the liveness of the manager's boot
and shutdown on a smaller instance; the loss of Docker's event stream.

Next, proofs: of the proxies, `SerialMotdRight`; then the links,
once their chains are a relation and no recursive function.
