# A model of audioctl

TLA+ modules, TLC configurations and TLAPS proofs for audioctl, a macOS program that routes all
sound through a virtual output device so that each application can have a volume of its own.
Paths below are relative to the repository; `main.c`, `audio_router.c` and so on are in `src/src`.

## 1. The system

### Components

| Component | State | Operations | Runs in |
|---|---|---|---|
| **Router** (`audio_router.c`) | one `AudioRouterContext`: a ring buffer with two atomic positions and atomic gauges, two IO procs, a running flag, a gain, a monitor thread | `audio_router_start(_with_volume)`, `audio_router_stop`, `input_callback` -> `rb_write`, `output_callback` -> `rb_read`, the monitor | the process `audioctl internal-route`, and for a second `use-virtual` itself |
| **HAL driver, IO** (`driver/virtual_audio_driver.c`) | IO counter, loopback buffer with two positions, frame count, anchor time, seed | `StartIO`, `StopIO`, `DoIOOperation` (`WriteMix`, `ReadInput`), `GetZeroTimeStamp` | coreaudiod, threads of the host |
| **HAL driver, clients** (`driver/app_volume_driver.c`) | a table of clients under a lock, one IPC context under none | `add_client`, `remove_client`, volume lookup and scaling | coreaudiod |
| **IPC** (`ipc/*.c`) | client context: descriptor, connected flag, attempts; server: listening socket, connections, registry of applications | `connect`, `send`, `recv`, one function per command; `handle_client_message` | every client process; `audioctl internal-ipc-service` |
| **IPC service process** (`ipc_server.c`, `main.c`) | the process, the path of its socket, its running flag | init, signal handler, loop, cleanup; spawn, kill, unlink | its own |
| **Session** (`main.c`, `virtual_device_manager.c`) | `last_device.txt`, `binding_info.txt`, the default output device, router processes | `use-virtual`, `use-physical`, `set` | one process for each command |
| **Application list** (`app_volume_control.c`) | entries under a mutex, one IPC context under none | register, unregister, set, mute, set-active, queries | a client process |
| **Service manager** (`service_manager.c`) | a pid file, a daemon and the processes that fork it | `service_start`, `service_stop`, `service_restart`, `run_daemon`, status | commands; only status is called today |
| **Device control** (`audio_control.c`, `main.c`) | none of its own: the volumes, mutes and default devices CoreAudio keeps, `bound_physical_device.txt` | `list`, `set -i`, `set -o`, `set <device>`, the volume `use-virtual` passes on | one process for each command |
| **Standalone virtual device** (`driver/virtual_audio_device.c`) | device state under a mutex | start, stop, volume, output callback | the tests |
| **Driver object model, command line, application list and path wrappers, installer** | none of consequence | dispatch, parsing, printing, calls of the system | - |

### How they interact

Applications play to the virtual device; the host mixes them and calls `WriteMix`. The router
records from the virtual device (`ReadInput`, delivered to `input_callback`) and plays to the
physical one (`output_callback`). The driver tells the IPC service of every client that the
host adds or removes, and commands ask the service for the list and change volumes. `use-virtual`
saves the default device, makes the virtual device the default, spawns the service, runs a router of its
own while it spawns the one that stays; `use-physical` undoes this; `set` replaces the
router by one that is bound to another device, and while the virtual device is the default `set -o` turns the volume of the bound one,
which `list` also shows as the virtual device's. Commands know processes by name only
(`pkill`, `pgrep`) and share nothing but files, the default device and the socket's path.

### What is hard

Real-time callbacks on two threads share memory without a lock. Starts and stops tear down what
callbacks are using and can fail at each of several calls. The host calls the driver from
any thread, and two fields of one clock are read in separate loads. The IPC is a byte stream
with timeouts, and nobody matches replies to requests. Processes are signalled and not waited
for, signals reach them while they start or end, and all of them use one path. A device is unplugged, picked or turned
between any two calls a command makes of CoreAudio, each of which may be refused or take effect later. A command leaves
its lock before it tells the service what it has done. Each is listed with its line
in `PROJECT.json` under `hazards`.

### What makes each component correct

* Router ring: unread samples are not overwritten; samples are played once and in order; the
  plain slots are never raced; neither side waits for the other; it is a bounded queue.
* Router life: no callback uses a freed buffer; a call leaves a whole router or nothing; calls return.
* Driver IO: a router records what is played in its session; the buffer is cleared in quiet;
  time stamps of one seed lie on one line.
* Driver clients: once calls are over, the service lists the processes in the table, as long as the one connection is in step.
* IPC: a call that succeeds has its own answer and between calls the streams are empty, until one of three things puts the two
  sides out of step; a request takes effect at most once; calls return.
* Session: after a command has settled, the device, the files, the router and the service are what
  that command promises.
* Application list: list and registry agree, unless the service missed something.
* Service manager: one daemon at most, the pid file leads to it, and a command reports what it left, unless another process has its pid.
* Device control: what `set` writes is what `list` reads; a `set` that fails has changed no volume.

## 2. The modules

| Module | Models | Properties |
|---|---|---|
| `RouterQueue` | what the ring promises: a bounded queue that takes a block whole or drops it | abstract specification |
| `RouterRing` | `rb_write`, `rb_read`, `rb_update_stats` in the two callbacks | `TypeOK UnreadIntact PlayedInOrder NoSlotRace InWaitFree OutWaitFree EveryAcceptedIsPlayed ImplementsQueue` |
| `RouterLifecycle` | start, stop, callbacks' checks, monitor | `LifeTypeOK NoUseAfterFree AllOrNothing CallsReturn` |
| `RouterProofs` | theorems about `RouterRing` and about `RouterLifecycle` | |
| `DriverIO` | StartIO, StopIO, WriteMix, ReadInput, GetZeroTimeStamp | `TypeOK ReaderGetsStream ClearedInQuiet StampsMatch` |
| `DriverIOProofs` | theorems about `DriverIO` | |
| `DriverClients` | add_client, remove_client and the IPC after the lock | `TypeOK RegistryFollowsTable` |
| `DriverClientsProofs` | theorems about `DriverClients` | |
| `IPCRegistry` | the server's registry and what each command makes of it | used by three modules |
| `RegistryCalls` | abstract: what a process that makes one call at a time may rely on | (implemented by `IPCChannel`) |
| `IPCChannel` | the byte streams between a client and the server | `TypeOK AnswerIsOwn InStep ImplementsCalls CallReturns ServedCallSucceeds` |
| `IPCChannelProofs` | theorems about `IPCChannel` | |
| `IPCService` | the service's processes, signals, the socket's path | `ServiceType`, in Session's `TypeOK` |
| `Session` | the three commands, composed with `IPCService` | `TypeOK ServedAfterUseVirtual RoutedToWanted DeviceRestored StoppedAfterUsePhysical CommandEnds` |
| `SessionProofs` | theorems about `Session` | |
| `AppVolumeControl` | the application list and what it tells the service | `TypeOK RegistryMirrorsList ConnectsAgain` |
| `AppVolumeControlProofs` | theorems about `AppVolumeControl` | |
| `ServiceManager` | start, stop, restart, the daemon's forks and its pid file | `TypeOK FileNamesDaemon OneDaemon ReportIsTrue` |
| `ServiceManagerProofs` | theorems about `ServiceManager` | |
| `DeviceControl` | `set -i`, `set -o`, `set <device>`, what `list` reads, the volume `use-virtual` passes on | `TypeOK ReadBack FailedKeepsLevels` |
| `DeviceControlProofs` | theorems about `DeviceControl` | |

`MC<module>.tla` holds the values of constants that a `.cfg` cannot write.
An operator that stands just before another one and is its near twin (`FreeUpToFull` before `Free`,
`SpawnFirst` before `UseVirtualSteps`) is a mistake the code could have made. Nothing uses it: putting it in the
place of its neighbour shows that a property notices (`mutants` in `PROJECT.json`).

### RouterRing

Each access to a variable both threads use is a step: `InLoad` loads the other side's position and
decides to drop or to copy, `InCopy` copies one sample, `InPublish` stores `write_pos`; `OutLoad`,
`OutCopy`, `OutPublish` are the reader's. `StoreUsage`, `StoreBuffered`, `LoadPeak`, `StorePeak` are
`rb_update_stats`, run by both threads. `InFrames` and `Return` end the callbacks. Relaxed accesses of one
variable and acquire/release pairs of the positions are read as sequentially consistent: a
position is published only after the slots it covers, which is what release and acquire
guarantee. Accepted samples are numbered, so that a lost, repeated or early one is seen.

`ImplementsQueue` maps the queue to what lies between the positions. Positions are
integers modulo `Word`, as `uint32_t` is modulo 2^32.

### RouterLifecycle

`at` is the line the caller is on. `Start` to `SetGain` are `audio_router_start_with_volume`, with a failing
alternative at each HAL call that undoes what the code undoes; `Stop` to `FreeRing` are
`audio_router_stop`. Each callback enters, tests `is_running` and the pointer, and copies; the
monitor tests its flags, sleeps and reports. External: `AudioDeviceStop` keeps the HAL from entering a callback and
returns when the one under way has returned. `NoUseAfterFree` rests on that; nothing in
the code does it by other means.

### DriverIO

`StartIO` and `StopIO` elect the first and the last client by the counter's old value and then take one step for each
store. `WriteMix` and `ReadInput` copy sample by sample and publish their position; `LoadAnchor`,
`LoadFrames`, `ReturnStamp` are `GetZeroTimeStamp`. Two things are asked of the host,
as constants: `Serialized` (StartIO and StopIO are not called at the same time, which CoreAudio's
plug-in interface leaves to the host) and `Lead` (the recorder keeps within a buffer of the player). The
divergences in section 5 drop one of them.

### DriverClients and AppVolumeControl

Both change a table under a lock in one step and tell the service in later ones.

The host's threads share one IPC context in `DriverClients`, with no lock around it, so a call of the IPC begins (`Send`) and ends in
two steps, between which another thread's may begin. A call alone on the connection is `Served`; one may find that the server has read
its header without its payload (`Cut`), and one may give the connection up (`LoseServer`), for good, as in the code. `mixed` remembers that
two threads were sending at once or that a request was cut. From then on, as `IPCChannel` shows, any reply or none may end a call
and leave `connected` as it is (`Misled`), and the server may make a registration or a removal of any process, or of nobody, out of what it finds in
the stream (`Misread`). `RegistryFollowsTable` speaks of the time before that.

In `AppVolumeControl` an exchange with the service is a single step, and the next operation connects
again. `EnsureConnected` is the check, or the connect that succeeds, before it, so the same operation may connect and then miss its answer;
`Refused` and `Reconnect` are the failed connect, the delay and the second attempt, after which the operation gives
up even if it succeeded. `Request` reads a registration's volume from its slot when it is sent, not when the
lock was held. `lost` holds the applications of which the service has missed something; an accepted registration or
removal takes an application out of it again. `link = "stale"` is a descriptor whose service has ended, and writing to
it ends the process, for nothing handles SIGPIPE.

### IPCChannel and IPCRegistry

A stream is a sequence of messages and a number of bytes already read of the first, so that a read that is
too short or too long shifts what follows, as on a socket. `SendHead`, `SendBody`, `RecvHead`, `RecvBody`
are the client's four calls; `HandleMessage` is one turn of the server, which may come between the two sends of a request. A process of
the client may be killed at any point and another one begins; a receive may time out. A payload that is not the one that belongs to
the header is decoded all the same (`Decoded`): it begins with a pid, another request's or nobody's, and what it says of volume and mute may be
anything, which a registration keeps as it is (`Floats`). `IPCRegistry` holds the registry as a set of entries: the order of the linked list
shows only in a listing.

`skewed` remembers the connections that may have lost step, for the properties. Three things put a connection there: a thread begins a call while
another's is under way, the server reads a header without its payload, a client refuses a reply that is longer than its buffer.
`InStep` and `AnswerIsOwn` say that there is no fourth; `AnswerAlwaysOwn` is the second without the exception.

`RegistryCalls` is the promise without the streams: a request takes effect in one step (`Take`) or never, a call succeeds only after its
own request was granted, unless its connection is `astray`, and a call that fails says nothing of its request, which may still take effect. `IPCChannel` implements it for a process
with one thread: `asked` is the request about to be sent and the headers in the streams to a server that has not closed them, `answers` the replies in
the streams back, `number` the call made last. The step of the server that reads a whole payload is `Take`, one that answers without effect
`Refuse`; a connect or disconnect leaves requests behind (`Lose`) and begins in step (`Renew`); a process that
is killed and a service that dies lose what nobody has read (`Vanish`, `Die`).

### IPCService and Session

A service goes through `spawned`, `handlers`, `unlinked`, `bound`, `running`, `stopping`, `exited`; one that could not begin, before or after its bind (`InitFails`), or that
crashed is `failed`. `Signalled` says what
SIGTERM makes of each: before the handler is installed it ends the process, until `running` is set it is lost, afterwards it
ends the loop. The end removes whatever socket the path names by then (`Sweep`), and `swept` remembers whose.
`Session` lists the steps of each command in the order of the code (`UseVirtualSteps`, `UsePhysicalSteps`, `SetSteps`), one for each
call that reads or changes something another process or the user can reach; `command.at` is the step it is on. One
command runs at a time. Between any two steps the user may pick, plug or unplug a device, a router or service may die, a device's
UID may be unreadable, a spawn may fail, and CoreAudio may refuse a switch, which `use-virtual` tries three times. `lost` and `meddled`
remember which of this happened, for the properties. `use-virtual` asks for the default device three
times, as the code does, so what it binds, saves and was called on need not be one device. `pending` is a change of the default device that CoreAudio has
accepted and not made; `saved` is the device that now has the number in the file, which `Renumber` changes and counts as meddling.
`Restore` makes its reads of CoreAudio and its switch in one step: a device that is unplugged among them is what `saved \in plugged` or a refusal stands
for, and a user who picks one there is one who picks it just before or after.

Two constants say what is asked of the rest of the system: with `PromptSwitch` a switch is made before the command looks (the code waits
200 ms); with `PromptStart` a service has settled before the next command begins. The code
enforces neither; section 5 has what happens without them. Nothing is asked of how long a signalled service takes to end: the commands do
not wait for it, and its successor is spawned beside it. `set` with a physical default device is the same step as the user's own choice (`Pick`).

### ServiceManager

`process` says what the process with each pid is: `child`, `leader` and `daemon` are the three processes of `run_daemon`, `writing` is the
daemon between `fopen`, which truncates the file, and the write. A command is a caller's sequence of look, fork,
wait, look again, or read, kill, unlink; a restart is both. Forks and files may be refused, a daemon may die, other processes come and go
and the machine may be started anew (`Reboot`), which leaves the file. `Prompt` is the assumption that what
was forked has settled after the 100 ms a start waits. The system may give any free pid away, also the one that the file still holds; `reused` remembers
that. A daemon that has the file open while a stop unlinks it writes where nobody looks (`Unlink`).

### DeviceControl

A device is what it can do: its channels, the elements whose volume can be set or only read, whether it can be muted. `Aim` is
the choice of the device (`handleVolumeSet`, `findRunningDevice`), `Info` the check that it has a volume at all, `Unmute`, `SetMain` and `SetChannel` the
calls of `setDeviceVolume`, any of which CoreAudio may refuse: `status` is the result of the last call and `success` whether a
channel took it, as in the code. `ReadDevice`, `SetDefault` and `Verify` are `set <device>`, `Bind`, `SwitchOver` and `PassOn`
what `use-virtual` does with the volume, which is taken to be full when there is no device to ask. `VolumeInfo` is what `list` reads, in its order: main
element, first channel, decibels, which the code puts on a scale of its own (`Scalar`); `Readings` is all it may come to when CoreAudio refuses some of that. The user turns, mutes, picks, plugs
and unplugs between any two calls (`Turn` to `Play`); a device in `Slow` may become the default only later (`TakeEffect`).

## 3. The runs

| Run | Question | Bounds | Distinct states |
|---|---|---|---|
| `MCRouterRing` | safety of the ring and the bounded queue | 4 slots, words of 8, blocks that fit, fill and exceed the buffer, 6 samples accepted | 1,566,583 |
| `MCRouterRingProgress` | wait-freedom and progress | the same with equal blocks | 6,232 |
| `MCRouterLifecycle` | starts and stops with every failure | volumes below, at and without compensation; no other bound | 8,662 |
| `MCDriverIO` | recording, clearing, time stamps | a player and a router, 4 slots, 5 samples, 2 sessions and more, 2 ticks | 716,351 |
| `MCIPCChannel` | framing, timeouts, killed processes; requests take effect at most once | one thread, three calls, two connections, every command, any cut of a request | 378,436 |
| `MCIPCChannelThreads` | two threads on one context: calls return | two calls, two connections, Ping and SetVolume | 53,666 |
| `MCDriverClients` | table and registry | two host threads, three clients, two slots, one connection | 29,902 |
| `MCSession` | the three commands while the user meddles | two physical devices, two services spawned, one act of meddling | 780,736 |
| `MCAppVolumeControl` | list and registry | one caller, two applications, two slots, volumes in and out of range, two attempts | 106,797 |
| `MCServiceManager` | start, stop and restart with every failure | one caller, four pids; no other bound | 293,409 |
| `MCDeviceControl` | volumes and default devices | a speaker with two channels, a microphone, the virtual device, two volumes, one touch of the user's | 375,752 |
| `MCIPCChannelGet` | a served GetVolume succeeds | violated | |

Why these are enough: four slots make room for a block of one, two and three samples, for a full ring, for one that has
gone round, and for each block boundary on every slot; six samples go round once and a half. A word of eight is twice
the capacity, and the passing runs stay below it (`MCRouterRingWrap`, in section 5, does not). Two slots and three clients make the table overflow and
free a slot in its middle; two slots and two applications let a removal move an entry. Two services are an old and a new one, which is what the path can be disputed by, and two
devices tell the one saved from the one CoreAudio lists first. Three IPC calls are one that fails, one that may take its
answer and one that follows. Four pids are a daemon, the process
that forks its successor, that successor and a stranger. The speaker has no main element and the microphone no other one, which are the two ways a volume is set;
one act of the user at any step is enough to separate any two reads of a command, and the proofs of both modules have no such
bound. `MaxTotal`, `MaxSamples`, `MaxSeed`, `MaxNow`, `MaxCalls`, `MaxConns`, `MaxSpawns`, `MaxMeddles`, `MaxTouches` are the only bounds the code does not have. `CHECK_DEADLOCK FALSE` stands where these bounds stop the
model: `DriverIO` and `IPCChannel`.

### Fairness

* `RouterRing`: the specification has none. The liveness properties assume it in their statement: a callback that was entered
  goes on (its thread is scheduled), and for `EveryAcceptedIsPlayed` the output callback keeps being called. `InWaitFree` assumes it of the
  input thread only.
* `RouterLifecycle`: the caller, a callback under way and the monitor are scheduled; nothing says that starts, stops or callbacks are ever called.
* `IPCChannel`, `AppVolumeControl`: a thread in a call goes on, for its sockets have timeouts. The server need not.
* `ServiceManager`, `DeviceControl`: none; only safety is asked of them.
* `Session`: a command goes on, CoreAudio does what it has accepted, a service that starts or ends gets there. Users, crashes and refusals are not fair.

## 4. What is proved

`RouterProofs` proves of the ring, for every capacity, word size that is a multiple of it, block size and counter width, under
`NoWrap` (fewer samples are accepted in a session than a position can count: about 12 hours at 48 kHz stereo):

| Theorem | Statement |
|---|---|
| `TypeCorrect` | positions, fills, counters and histories stay in range |
| `NoUnreadLost` | `UnreadIntact` |
| `NoneLostOrRepeated` | `PlayedInOrder` |
| `NoDataRace` | `NoSlotRace` |
| `RingIsQueue` | `ImplementsQueue`: every step of the ring is one of `RouterQueue` or a stutter |

`UnreadIntact` is not inductive: that `InCopy` spares unread slots follows from what `InLoad` computed from a reader's position that may be
stale by then. `IInv` adds that position and count agree and one slot stays free (`PositionsInv`), that the block being
written fits after what the writer saw (`WriterInv`), and that what the reader copied is what was due (`ReaderInv`). The
arithmetic lemma is `SlotsDiffer`: positions less than a buffer apart fall on different slots. `NoWrap` is needed: `MCRouterRingWrap` is the
counterexample without it.

`RingIsQueue` rests on one equation, `ContentIsDue`: under `IInv` the queue that the mapping reads from the slots is the run
of numbers from `played + 1` to `accepted`. A publishing step then lengthens or shortens that run by its block
(`NumberedConcat`, `NumberedSplit`), a load that finds too little is the queue's drop or silence, and everything else stutters.

Its second part is about start and stop, for every set of volumes in percent; it extends both modules, which is why the names they
would share begin with `Life` in `RouterLifecycle`:

| Theorem | Statement |
|---|---|
| `LifeTypeCorrect` | `LifeTypeOK`: the HAL never calls a proc that does not exist |
| `BufferWhileCopying` | `NoUseAfterFree` |
| `WholeOrNone` | `AllOrNothing` |

Neither property is inductive: what is left at the end depends on what each stage of a start or a stop holds. The invariant says for
each stage (`LifeInv`) which procs exist (`ProcsInv`), which are started (`StartedInv`), and that a callback runs only while its proc is started
or waited for (`CallbackInv`), so none is inside when the buffer is freed.

`DriverIOProofs` proves for any finite set of clients, any buffer, blocks and bounds, under a host that makes one StartIO or StopIO at a time
(`Serialized`):

| Theorem | Statement | Provided also |
|---|---|---|
| `TypeCorrect` | `TypeOK`: the counter never goes below zero, positions stay inside the buffer | |
| `QuietCleared` | `ClearedInQuiet` | |
| `StampsOnLine` | `StampsMatch` | |
| `StreamRead` | `ReaderGetsStream` | one client records (`OneReader`) and keeps within a buffer of what is played (`KeepsUp`) |

`QuietInv` is what electing by a counter amounts to: the counter is the number of clients that are starting or on, and a client on its way
is alone. `StampInv` says that the last time stamp is on this session's line or has an older seed, and that a stamp half loaded has
this session's anchor. `StreamInv` says that a position is the number of samples of the session that passed it (`PositionsInv`), how far the
reader is behind (`LagInv`), and that what it has not had is in its slot (`SlotsInv`). The writer spares that slot because two numbers less
than a buffer apart have two positions (`SameSlot`), and `AvailableIsLag` is why a difference of positions is a number of
samples. Each condition is needed: `MCDriverIOTogether`, `MCDriverIOTwoRouters` and `MCDriverIOOverflow` (section 5) drop one.

`DriverClientsProofs` proves for every number of threads, clients and slots:

| Theorem | Statement |
|---|---|
| `TypeCorrect` | `TypeOK`: a client has one slot, and the count is that of the slots in use |
| `Mirrors` | `RegistryFollowsTable`, when each client has a process of its own |

The invariant says for each client who is at work on it: while the connection is in step (`~mixed`) a process is registered exactly if its client has a slot and no
registration of it is under way, or has none and its removal is under way. The assumption is `OwnPid`; with shared pids the theorem is
false, and so is the property without its `~mixed` (section 5).

`IPCChannelProofs` proves for any set of requests and processes, and any number of calls and connections:

| Theorem | Statement | Provided |
|---|---|---|
| `TypeCorrect` | `TypeOK`: an application has one entry, and no more is read than was sent | |
| `OwnAnswer` | `AnswerIsOwn` | |
| `AlwaysInStep` | `InStep` | |
| `Implements` | `ImplementsCalls`: every step is one of `RegistryCalls` or a stutter | `OneThread` |

The first three hold for any number of threads, wherever the server cuts a stream, and whatever volumes it reads in the wrong
bytes. The exceptions are in the properties, as the three causes that put a connection in `skewed`, and each cause is needed: two threads
(`MCIPCChannelShared`), a server that reads between the two sends (`MCIPCChannelSplit`), a reply that does not fit (the requests of `MCIPCChannelGet` and
`MCIPCChannelLists`). What is proved is that timeouts, processes killed between any two sends or receives, links abandoned with a request or a
reply in them, and a service that dies are not among the causes.

The argument has three parts. `FormInv` is the type with what keeps it: a call in progress
has a descriptor, which may be closed or given up meanwhile; a stream is a `Flow` of any length, of which no more has been read than was sent; the
registry has one entry for each pid and one, at most, for nobody. That a receive leaves a flow (`TakenFacts`) needs the sum
of the sizes of a sequence cut in two (`SizedFacts`), for which `Induction` is stated over a set of numbers and proved from the
well-foundedness of `<`: the library's own rule takes an operator, which the provers here cannot instantiate.

`StepInv` says of the connection in use, if it is not in `skewed`, that nobody calls and it is empty (`Quiet`), or that one thread calls, alone,
and for each place it may be at what the connection holds (`Going`): nothing before the first send, half the request at `send_body`, then the whole request or a reply to it,
the same without its header at `recv_body`. A timeout keeps this because it gives the connection up; a receive that left a byte would break it.
Such streams have at most two pieces, so what a receive makes of them can be said exactly (`TwoFacts`, `TakenFirst`).

`OrderInv` is for the refinement, which also speaks of connections out of step and of abandoned ones, whose streams have any length. It says that
each call number has one header, in one place (`HeadersOnce`, `Numbered`), that a header's payload is right behind it (`AllFramed`), and that a
header whose payload is still to come belongs to the call that is at `send_body` (`LastOpens`). So a header that the server takes with the payload behind it is
a request that is asked and then is no longer, and whatever else it takes has no effect that anybody asked for: `HandleDoes` says which of the two, or the
service's death, a turn of the server is. `OneThread` is used here: with two threads a payload may follow another thread's header.

Each action has a lemma that says that it keeps the form (`SendHeadForm`), the step (`SendHeadStep`) and the order (`SendHeadOrder`), and one that `RegistryCalls`
allows it (`SendMaps`). Only `HandleMessage` is the registry's `Take` or `Refuse`, only the end of a call its `Succeed` or `Fail`; killed processes
and the death of the service are `Vanish` and `Die`, connecting and closing `Lose` and `Renew`; the sends and the receipt of a header are not noticed.

`SessionProofs` proves for any devices, any number of commands and whatever the user does:

| Theorem | Statement | Provided |
|---|---|---|
| `TypeCorrect` | `TypeOK`: one background router at most, the other one inside `use-virtual` only | |
| `ServiceThere` | `ServedAfterUseVirtual` | `PromptStart` |
| `NothingLeft` | `StoppedAfterUsePhysical` | `PromptStart` |
| `OldDeviceBack` | `DeviceRestored` | `PromptSwitch` |
| `RouterWhereWanted` | `RoutedToWanted` | `PromptSwitch` |

The properties speak of the end of a command; the invariants say what each of its steps has made true so far. `WellFormed` is the type, which
step of which command is next, and that a router is spawned only where there is none. `ServInv` has where services may live: none
starts while a command begins, none starts or runs between `unlink` and `spawn`, though older ones may still be ending, and afterwards the spawned one is the only
one that starts or runs, and has the path, which only an older one may take away (`Serves`). `StopInv` is what `use-physical` has taken away so far; with `ServInv` it makes `NothingLeft`. `AudioInv` says when a switch can be
pending, that an undisturbed `use-virtual` saw one default device each time, and which device `saved` is then; `RouteInv` that the device of an
undisturbed command is what binding and router have. The first group is independent of CoreAudio and the second of the services' timing, which is why
each theorem has only one of the two conditions.

`AppVolumeControlProofs` proves for any applications, any room, volumes and number of attempts, with one caller (`OneThread`):

| Theorem | Statement |
|---|---|
| `TypeCorrect` | `TypeOK`: an application has one entry |
| `ListMirrored` | `RegistryMirrorsList` |

While an operation is between the list and the service the two differ. `MirrorInv` says by how much: for the application whose request is
pending, `AgreeBut` names what may differ and `Due` that the request carries what the list now has; for every other one of which
nothing was missed they agree. `Due` is what a second caller breaks, by moving the entry whose slot a registration is about to read
(`MCAppVolumeControlThreads`).

`ServiceManagerProofs` proves for every set of pids:

| Theorem | Statement | Provided |
|---|---|---|
| `TypeCorrect` | `TypeOK`: a signal is sent to a pid that was read | |
| `FileCorrect` | `FileNamesDaemon`, with any number of callers | |
| `OneDaemonAtRest` | `OneDaemon` | one caller, `Prompt` |
| `ReportsTrue` | `ReportIsTrue` | one caller, `Prompt` |

`ChainInv` says that a process of the chain exists only while the caller waits for it, that there is one at most and then no daemon, and that what
the caller is about to signal is what the file names; `ReportInv` carries what the report will rest on from the fork to the second look. A pid that has been given away is an exception the properties name: `FileNamesDaemon`
speaks of a file whose pid has not been, and a report of a daemon is wrong then only.

`DeviceControlProofs` proves for every list of devices and set of volumes:

| Theorem | Statement | Provided |
|---|---|---|
| `TypeCorrect` | `TypeOK` | |
| `FailedIsClean` | `FailedKeepsLevels` | |
| `WhatIsSetIsRead` | `ReadBack` | `PlainDevices`: a device whose volume can be read in decibels has a main element or a first channel that can be set |

`LevelInv` says that a command that has changed a volume and is not done is between its channels, and will succeed; `TryInv` that an
undisturbed command has so far written what the elements `list` looks at now hold; `DoneInv` keeps that until somebody else touches the device. Without
`PlainDevices` the code takes a volume it may only read for one it has set (section 5).

Out of reach of the proof system, and left to TLC: liveness under fairness (`InWaitFree`, `OutWaitFree`, `EveryAcceptedIsPlayed`, `CallsReturn`,
`CallReturns`, `CommandEnds`, `ConnectsAgain`) and `ENABLED`. Every invariant and refinement a passing run checks has a
theorem. The bounds on calls, samples, meddling and so on are constants in the theorems, of any size.

## 5. Known divergences

One is a run, `MCIPCChannelGet`: a GetVolume that is served fails at the client, whose limit for the payload is smaller than the
answer (`PROJECT.json`, `findings`). The other configurations in this
directory reproduce what else the models show. Each property in the table ends in a counterexample; where a configuration lists several, take
away those before it to see the next.

| Configuration | Property | What the code does |
|---|---|---|
| `MCRouterRingWrap` | `UnreadIntact` | the free space is computed with a comparison of positions that fails once one of them has wrapped (`audio_router.c:150`) |
| `MCRouterRingKnown` | `PeakOnlyRises` | two threads load, compare and store the peak in separate steps: a lower one can replace a higher one (`audio_router.c:122`) |
| `MCRouterRingKnown` | `TransferredWereAccepted` | a dropped block is counted as transferred (`audio_router.c:262`) |
| `MCRouterLifecycleGain` | `NeverLouderThanStarted` | the gain is set after both procs run (`audio_router.c:549`) |
| `MCDriverIOTogether` | `ClearedInQuiet` | a client can start between the last one's decrement and its clear, if the host allows it (`virtual_audio_driver.c:310`) |
| `MCDriverIOTogether` | `StampsMatch` | a time stamp can mix two sessions, if the host allows it (`:350`) |
| `MCDriverIOOverflow` | `UnreadKept` | `WriteMix` never reads the read position, though `decisions.md:147` describes an overflow protection (`:475`) |
| `MCDriverIOTwoRouters` | `NoSampleTwice` | two recorders share a read position, and use-virtual runs two for a second (`:489`) |
| `MCDriverClientsShared` | `RegistryFollowsTable` | two clients of one process: the first removal unregisters both (`app_volume_driver.c:177`) |
| `MCDriverClientsFull` | `EveryClientKnown` | a client that finds the table full is unknown, the host is told noErr (`virtual_audio_driver.c:981`) |
| `MCDriverClientsFull` | `RegistryAlwaysFollows` | two threads use the context at once, or the server reads a header without its payload, and registers what nobody asked for while the connection stays (`app_volume_driver.c:145`, `:177`, `ipc_server.c:464`) |
| `MCIPCChannelSplit` | `AnswerAlwaysOwn` | a server that reads between header and payload answers twice (`ipc_server.c:464`) |
| `MCIPCChannelShared` | `AnswerAlwaysOwn` | two threads on one context take each other's answers (`app_volume_driver.c:145`) |
| `MCIPCChannelKnown` | `ServerOutlivesClients` | a client killed before its answer is sent takes the service with it by SIGPIPE (`ipc_server.c:422`, against `ipc_server.h:60`) |
| `MCIPCChannelLists` | `ServedCallSucceeds` | a list of 15 applications is over the client's own limit (`ipc_protocol.c:66`) |
| `MCIPCChannelLists` | `ListedAreRegistered` | the list is parsed eight bytes too early (`ipc_client.c:732`) |
| `MCIPCChannelKnown` | `OneConnection` | after a failed receive the next connect forgets the descriptor (`ipc_client.c:82`) |
| `MCSessionKnown` | `ReachedAfterUseVirtual` | an old service that ends late unlinks the path of its successor (`ipc_server.c:745`) |
| `MCSessionKnown` | `OneService` | a service is spawned while the one that was signalled is still ending (`main.c:74`, though `:87` says that the old one has been ended) |
| `MCSessionKnown` | `ServedAfterUseVirtual` | two services that start together: the older one's unlink or bind takes the path from the newer one (`main.c:74`) |
| `MCSessionKnown` | `StoppedAfterUsePhysical` | a SIGTERM during the service's init is lost (`ipc_server.c:39`) |
| `MCSessionKnown` | `SavedStays` | the device is saved by a number, which CoreAudio gives to another one when it starts again (`virtual_device_manager.c:150`, `:503`) |
| `MCSessionKnown` | `BoundToPhysical`, `SavedIsBound` | the default device is read anew for the binding and for the saved file; a choice in between parts them, and may bind the router to the virtual device (`main.c:1008`, `virtual_device_manager.c:493`) |
| `MCSessionKnown` | `BindingIsPlayed` | the binding is written before the switch is known to succeed (`main.c:1028`): after a failed use-virtual it names another device than the router has |
| `MCSessionKnown` | `OneRouter` | use-virtual's own router still plays when the background one starts (`main.c:1068`, `:1090`) |
| `MCSessionKnown` | `OutputKept` | a virtual device that is the default input only makes use-physical change the output (`virtual_device_manager.c:612`) |
| `MCAppVolumeControlThreads` | `RegistryMirrorsList` | with two callers a registration can send another slot's volume (`app_volume_control.c:273`) |
| `MCServiceManagerKnown` | `OneDaemon` | two starts at once both find no daemon; the second pid replaces the first, whose daemon no stop reaches (`service_manager.c:215`) |
| `MCServiceManagerKnown` | `StrangersUnharmed` | the pid of a daemon that died may be another process's by the time stop signals it (`service_manager.c:139`) |
| `MCServiceManagerKnown` | `RunningIsTrue` | once another process has the pid of a daemon that died, start reports that the service is running (`service_manager.c:139`, `:215`) |
| `MCServiceManagerKnown` | `RestartStarts` | restart fails on a pid nobody has any more and leaves the file, so it fails for good (`service_manager.c:258`) |
| `MCDeviceControlKnown` | `ReadBack` | to learn that an element cannot be set is taken for success (`audio_control.c:655`) |
| `MCDeviceControlKnown` | `FailedKeepsMutes` | the device is unmuted before its volume is set, and stays so when that fails (`audio_control.c:622`) |
| `MCDeviceControlKnown` | `FailedIsOver` | a switch is read back at once and reported failed; it takes effect later all the same (`audio_control.c:713`) |
| `MCDeviceControlKnown` | `BoundPlays` | `set` binds the router to a microphone (`main.c:822`) |
| `MCDeviceControlKnown` | `SetsCurrentOutput` | `set -o` turns the first output in use, which need not be the default one (`main.c:694`) |
| `MCDeviceControlKnown` | `UseVirtualKeepsLevels` | use-virtual sets the volume it read from the physical device on whatever is the output by then (`main.c:1048`); the virtual device itself has no volume that can be set |

`RoutedToWanted` also fails without `PromptSwitch`, `OneDaemon` and `ReportIsTrue` without `Prompt`. A refused reply, too, leaves its rest in the stream, where the next call reads on
(`ipc_client.c:245`): that is the third of the causes of a lost step.
The gain compensation of `use-virtual` is lost after a second: its own router has the volume, the background one is spawned
without it (`main.c:1090`, `:864`). No property states that, for `RouterLifecycle` leaves the choice of the volume to its caller.

## 6. Not modelled

* The HAL plug-in's object model and property dispatch: a table of constants.
* The volume lookup of the audio thread: `ipc_client_get_volume_fast` reads a cache nothing fills, and always has one answer.
* `virtual_audio_device.c`: no program uses it, only its own tests do, from one thread; each operation that changes its
  state is one critical section. `virtual_device_activate` and the input half of `virtual_device_is_active`: nothing calls them.
* Two commands at once; two reads of CoreAudio's list within one call are one step.
* Sample formats, mixing, gain arithmetic, the text of reports and lists, option parsing, the installer.
* Compiler reordering of the plain flags (`is_running`, `g_monitor_running`): they are read in program order.

## 7. Plan

Done: the ring with its abstract queue, the router's life, the driver's IO and clients, the IPC with its abstract registry, the service
and the session with a user who meddles, the application list, the service manager, the device control; a proof of every invariant and
refinement that a passing run checks.

Next, in this order:

1. `Session` with two commands at once.
2. `RegistryCalls` for several threads, if the context ever gets a lock.
