------------------------------ MODULE Session -------------------------------
(***************************************************************************)
(* The commands that set the system up and take it down (src/main.c,       *)
(* src/virtual_device_manager.c): use-virtual, use-physical, and set,      *)
(* which binds the router to another device.  Between them they keep two   *)
(* files, the default output device, the background router process and     *)
(* the IPC service in agreement, each in steps of its own, while the user  *)
(* picks, plugs and unplugs devices.                                       *)
(*                                                                         *)
(* One command runs at a time.  CoreAudio, external, may refuse to make a  *)
(* device the default, and takes its time to do so.  With PromptSwitch     *)
(* that is over before the command looks; with PromptStart a service is    *)
(* ready before the command after the one that spawned it (main.c:122).    *)
(* Nothing waits for a service that was told to end.  A router ends when   *)
(* it is told.                                                             *)
(***************************************************************************)
EXTENDS IPCService, Sequences

CONSTANTS
  Listed,       \* physical output devices, in the order of CoreAudio's list
  Virtual,      \* the device of the driver
  NoDevice,     \* kAudioObjectUnknown, no file, a device nobody knows
  PromptStart, PromptSwitch,
  MaxMeddles    \* bound: what the user does that he does not do all the time

Physical == {Listed[i] : i \in DOMAIN Listed}
Devices == Physical \union {Virtual}

ASSUME SessionAssumption ==
  /\ Virtual \notin Physical /\ NoDevice \notin Devices
  /\ {PromptStart, PromptSwitch} \subseteq BOOLEAN
  /\ MaxMeddles \in Nat

VARIABLES
  plugged,   \* external: the physical devices there are
  default,   \* external: the default output device
  pending,   \* external: the device that is about to be it
  input,     \* external: the virtual device is the default input
  writable,  \* external: the support directory can be written
  saved,     \* last_device.txt: the device that has the number in it by now
  binding,   \* binding_info.txt
  routers,   \* background router processes: where and on which device
  inProcess, \* the router use-virtual runs itself
  command,   \* the command under way: what it does next, its device, its tries
             \* and how it will have ended
  last,      \* history: how the last command ended
  before,    \* history: the default device when use-virtual was last called
  wanted,    \* history: the device the last command was to play to
  lost,      \* history: what this command could not have, or has died since:
             \* the device's "uid", the "service", the "router"
  meddled,   \* history: the commands the user has last meddled with, or CoreAudio
             \* with what they saved
  meddles

audio == <<plugged, default, pending, input>>
files == <<writable, saved, binding>>
procs == <<service, routers, inProcess>>
hist  == <<before, wanted, lost, meddled, meddles>>
vars  == <<procs, audio, files, command, last, hist>>

Idle == [name |-> "none", at |-> "idle", device |-> NoDevice, tries |-> 0, how |-> "none"]

Init ==
  /\ ServiceInit
  /\ plugged = Physical
  /\ default \in Physical /\ pending = NoDevice /\ input = FALSE
  /\ writable \in BOOLEAN
  /\ saved = NoDevice /\ binding = NoDevice
  /\ routers = {} /\ inProcess = FALSE
  /\ command = Idle /\ last = "none"
  /\ before = NoDevice /\ wanted = NoDevice /\ lost = {} /\ meddled = {} /\ meddles = 0

\* What each command does, in order.
SpawnFirst ==
  <<"bind-default", "save", "set-default", "check", "verify", "spawn", "kill", "unlink",
    "play", "kill-router", "route", "return">>
UseVirtualSteps ==
  <<"bind-default", "save", "set-default", "check", "verify", "kill", "unlink", "spawn",
    "play", "kill-router", "route", "return">>
UsePhysicalSteps == <<"kill-router", "unbind", "kill", "unlink", "restore", "return">>
SetSteps         == <<"bind", "kill-router", "route", "return">>

Steps == [use_virtual |-> UseVirtualSteps, use_physical |-> UsePhysicalSteps, set |-> SetSteps]

Does(step) == command.at = step

\* The step after this one.
GoesOn(new) ==
  LET steps == Steps[command.name] IN
  /\ \E i \in DOMAIN steps :
       steps[i] = command.at /\ command' = [new EXCEPT !.at = steps[i + 1]]
  /\ UNCHANGED last
GoOn == GoesOn(command)

Begin(name, d) ==
  /\ command = Idle
  /\ PromptStart => ~Busy(Starting)
  /\ PromptSwitch => pending = NoDevice
  /\ command' = [name |-> name, at |-> Steps[name][1], device |-> d, tries |-> 0, how |-> name]
  /\ last' = "none" /\ lost' = {} /\ meddled' = meddled \ {name}
  /\ UNCHANGED <<procs, audio, files, meddles>>

Ends(how) == command' = Idle /\ last' = how

\* A file that cannot be written stays as it is, and the command goes on.
Saved(file, d) == IF writable THEN d ELSE file

-----------------------------------------------------------------------------
(* The commands                                                             *)

\* use-virtual returns at once while the virtual device is the default.
UseVirtual ==
  /\ default # Virtual /\ spawned < MaxSpawns
  /\ Begin("use_virtual", NoDevice)
  /\ before' = default /\ wanted' = default

UsePhysical ==
  /\ Begin("use_physical", NoDevice)
  /\ wanted' = NoDevice
  /\ UNCHANGED before

\* set binds anew while the virtual device is the default; otherwise it is
\* Pick.
Rebind(d) ==
  /\ default = Virtual /\ d \in plugged
  /\ Begin("set", d)
  /\ wanted' = d
  /\ UNCHANGED before

\* use-virtual asks which device is the default once more, and for its UID.
BindDefault ==
  /\ Does("bind-default")
  /\ \/ /\ binding' = Saved(binding, default)
        /\ GoesOn([command EXCEPT !.device = default])
        /\ UNCHANGED lost
     \/ /\ lost' = lost \union {"uid"}
        /\ GoOn
        /\ UNCHANGED binding
  /\ UNCHANGED <<procs, audio, writable, saved, before, wanted, meddled, meddles>>

SaveBindingNever ==
  /\ Does("bind")
  /\ GoOn
  /\ UNCHANGED <<procs, audio, files, hist>>
SaveBinding ==
  /\ Does("bind")
  /\ binding' = Saved(binding, command.device)
  /\ GoOn
  /\ UNCHANGED <<procs, audio, writable, saved, hist>>

Unbind ==
  /\ Does("unbind")
  /\ binding' = NoDevice
  /\ GoOn
  /\ UNCHANGED <<procs, audio, writable, saved, hist>>

\* virtual_device_activate_with_router asks a third time.
SaveOnce ==
  /\ Does("save")
  /\ saved' = IF saved = NoDevice THEN Saved(saved, default) ELSE saved
  /\ GoOn
  /\ UNCHANGED <<procs, audio, writable, binding, hist>>
Save ==
  /\ Does("save")
  /\ saved' = Saved(saved, default)
  /\ GoOn
  /\ UNCHANGED <<procs, audio, writable, binding, hist>>

MaxTries == 3

TryForever == command' = [command EXCEPT !.at = "set-default"] /\ UNCHANGED last
\* Up to three tries; then use-virtual fails.
TryAgain ==
  \/ /\ command.tries + 1 < MaxTries
     /\ command' = [command EXCEPT !.at = "set-default", !.tries = @ + 1]
     /\ UNCHANGED last
  \/ command.tries + 1 >= MaxTries /\ Ends("failed")

\* CoreAudio accepts the request, which may come to nothing, or refuses it.
SetDefault ==
  /\ Does("set-default")
  /\ \/ pending' \in {pending, Virtual} /\ GoOn
     \/ UNCHANGED pending /\ TryAgain
  /\ UNCHANGED <<procs, plugged, default, input, files, hist>>

CheckDefault ==
  /\ Does("check")
  /\ PromptSwitch => pending = NoDevice
  /\ IF default = Virtual THEN GoOn ELSE TryAgain
  /\ UNCHANGED <<procs, audio, files, hist>>

VerifyDefault ==
  /\ Does("verify")
  /\ IF default = Virtual THEN GoOn ELSE Ends("failed")
  /\ UNCHANGED <<procs, audio, files, hist>>

Kill ==
  /\ Does("kill") /\ KillService
  /\ GoOn
  /\ UNCHANGED <<audio, files, routers, inProcess, hist>>

Unlink ==
  /\ Does("unlink") /\ UnlinkSocket
  /\ GoOn
  /\ UNCHANGED <<audio, files, routers, inProcess, hist>>

\* A process that cannot be spawned is reported, and the command goes on.
Spawn ==
  /\ Does("spawn")
  /\ \/ SpawnService /\ UNCHANGED lost
     \/ UNCHANGED service /\ lost' = lost \union {"service"}
  /\ GoOn
  /\ UNCHANGED <<audio, files, routers, inProcess, before, wanted, meddled, meddles>>

\* The router use-virtual runs until it returns; it may not start.  Without a
\* UID there is none, here or in the background.
Play ==
  /\ Does("play")
  /\ \/ /\ command.device # NoDevice /\ inProcess' \in BOOLEAN
        /\ inProcess' => command.device \in plugged \union {Virtual}
        /\ GoOn
     \/ /\ command.device = NoDevice
        /\ command' = [command EXCEPT !.at = "return"]
        /\ UNCHANGED <<inProcess, last>>
  /\ UNCHANGED <<service, audio, files, routers, hist>>

KillRouter ==
  /\ Does("kill-router")
  /\ routers' = {}
  /\ GoOn
  /\ UNCHANGED <<service, audio, files, inProcess, hist>>

\* Only set tells that the router could not be spawned.
Route ==
  /\ Does("route")
  /\ \/ /\ routers' = routers \union {[at |-> "starting", target |-> command.device]}
        /\ lost' = lost \ {"router"}
        /\ GoOn
     \/ /\ UNCHANGED routers
        /\ lost' = lost \union {"router"}
        /\ GoesOn([command EXCEPT !.how = IF command.name = "set" THEN "failed" ELSE @])
  /\ UNCHANGED <<service, audio, files, inProcess, before, wanted, meddled, meddles>>

\* virtual_device_deactivate: the saved device, or the first physical one if
\* there is none, it has gone, it is the virtual one or CoreAudio refuses it.
\* A device without outputs that comes first is one CoreAudio refuses.
FirstPhysical ==
  {Listed[i] : i \in {j \in DOMAIN Listed : /\ Listed[j] \in plugged
                                            /\ \A k \in 1..(j - 1) : Listed[k] \notin plugged}}

Restored(d, how) ==
  pending' = d /\ GoesOn([command EXCEPT !.how = how])

Restore ==
  /\ Does("restore")
  /\ \/ default # Virtual /\ ~input /\ GoOn /\ UNCHANGED pending
     \/ /\ default = Virtual \/ input
        /\ \/ saved \in plugged /\ Restored(saved, "restored")
           \/ \E d \in FirstPhysical : Restored(d, "fell-back")
           \/ Restored(pending, "failed")
  /\ UNCHANGED <<procs, plugged, default, input, files, hist>>

Return ==
  /\ Does("return")
  /\ Ends(command.how)
  /\ inProcess' = FALSE
  /\ UNCHANGED <<service, routers, audio, files, hist>>

-----------------------------------------------------------------------------
(* Everything else that moves                                               *)

TakeEffect ==
  /\ pending # NoDevice
  /\ default' = pending /\ pending' = NoDevice
  /\ UNCHANGED <<procs, plugged, input, files, command, last, hist>>

\* What the user does to the output between commands is the last word; during
\* one it is meddling.
Chosen ==
  IF command = Idle
  THEN last' = "picked" /\ wanted' = NoDevice /\ lost' = {} /\ UNCHANGED <<meddled, meddles>>
  ELSE /\ meddles < MaxMeddles /\ meddles' = meddles + 1
       /\ meddled' = meddled \union {command.name}
       /\ UNCHANGED <<last, wanted, lost>>

\* The user picks another device, here or in the system's settings.
Pick(d) ==
  /\ pending = NoDevice /\ d # default /\ d \in plugged \union {Virtual}
  /\ default' = d
  /\ Chosen
  /\ UNCHANGED <<procs, plugged, pending, input, files, command, before>>

\* The default passes to another device.
Unplug(d) ==
  /\ d \in plugged /\ meddles < MaxMeddles /\ meddles' = meddles + 1
  /\ plugged' = plugged \ {d}
  /\ pending' = IF pending = d THEN NoDevice ELSE pending
  /\ default' \in IF default = d THEN plugged' \union {Virtual} ELSE {default}
  /\ last' = IF command = Idle /\ d \in {default, pending} THEN "picked" ELSE last
  /\ meddled' = IF command = Idle THEN meddled ELSE meddled \union {command.name}
  /\ UNCHANGED <<procs, input, files, command, before, wanted, lost>>

Plug(d) ==
  /\ d \in Physical \ plugged
  /\ plugged' = plugged \union {d}
  /\ UNCHANGED <<procs, default, pending, input, files, command, last, hist>>

PickInput ==
  /\ meddles < MaxMeddles /\ meddles' = meddles + 1
  /\ input' = ~input
  /\ UNCHANGED <<procs, plugged, default, pending, files, command, last, before, wanted, lost,
                 meddled>>

\* Devices are numbered anew when CoreAudio starts again: what use-virtual
\* saved is another device.
Renumber ==
  /\ saved # NoDevice
  /\ meddles < MaxMeddles /\ meddles' = meddles + 1
  /\ saved' \in Devices \union {NoDevice}
  /\ meddled' = meddled \union {"use_virtual"}
  /\ UNCHANGED <<procs, audio, writable, binding, command, last, before, wanted, lost>>

RouterRuns(r) ==
  /\ r.at = "starting" /\ r.target \in plugged \union {Virtual}
  /\ routers' = (routers \ {r}) \union {[r EXCEPT !.at = "running"]}
  /\ UNCHANGED <<service, inProcess, audio, files, command, last, hist>>

\* A router that cannot start ends, and one that runs may die.
RouterEnds(r) ==
  /\ routers' = routers \ {r}
  /\ lost' = IF wanted = NoDevice THEN lost ELSE lost \union {"router"}
  /\ UNCHANGED <<service, inProcess, audio, files, command, last, before, wanted, meddled, meddles>>

ServiceMoves ==
  /\ \E s \in Servers : ServiceStep(s) \/ InitFails(s) \/ Crash(s)
  /\ UNCHANGED <<routers, inProcess, audio, files, command, last, hist>>

Proceed ==
  \/ BindDefault \/ SaveBinding \/ Unbind \/ Save \/ SetDefault \/ CheckDefault \/ VerifyDefault
  \/ Kill \/ Unlink \/ Spawn \/ Play \/ KillRouter \/ Route \/ Restore \/ Return

Next ==
  \/ UseVirtual \/ UsePhysical \/ \E d \in Physical : Rebind(d)
  \/ Proceed
  \/ TakeEffect \/ \E d \in Devices : Pick(d)
  \/ \E d \in Physical : Unplug(d) \/ Plug(d)
  \/ PickInput \/ Renumber
  \/ \E r \in routers : RouterRuns(r) \/ RouterEnds(r)
  \/ ServiceMoves

\* A command that was called goes on, CoreAudio does what it has accepted,
\* and a service that starts or ends gets there.
Fairness ==
  /\ WF_vars(Proceed) /\ WF_vars(TakeEffect)
  /\ WF_vars(\E s \in Servers : ServiceStep(s) /\ UNCHANGED
               <<routers, inProcess, audio, files, command, last, hist>>)

Spec == Init /\ [][Next]_vars /\ Fairness

-----------------------------------------------------------------------------
(* Properties                                                               *)

\* The state is well formed; only use-virtual itself runs a router inside a
\* command, and there is one background router at most.
TypeOK ==
  /\ ServiceType
  /\ plugged \subseteq Physical /\ default \in Devices /\ pending \in Devices \union {NoDevice}
  /\ input \in BOOLEAN /\ writable \in BOOLEAN
  /\ {saved, binding, wanted, before, command.device} \subseteq Devices \union {NoDevice}
  /\ \A r, q \in routers : r.target \in Devices /\ r = q
  /\ inProcess \in BOOLEAN /\ inProcess => command.name = "use_virtual"
  /\ command.tries \in 0..(MaxTries - 1)
  /\ lost \subseteq {"uid", "service", "router"}

AtRest == command = Idle /\ pending = NoDevice /\ ~Busy(Starting \union Ending)

\* When use-virtual has run and everything has settled, the service it
\* spawned runs and the path leads to it (README.md:89: use-virtual starts the
\* service), unless it could not be spawned, could not begin or crashed; and
\* only an older one that ended after its bind can have taken the path away:
\* nobody tells it to end, refuses it the path or takes its place.
ServedAfterUseVirtual ==
  AtRest /\ last = "use_virtual" /\ "service" \notin lost =>
    \/ server[spawned] = "failed"
    \/ server[spawned] = "running" /\ (path = spawned \/ (path = NoFile /\ spawned \in swept))

\* The same without that exception.
ReachedAfterUseVirtual ==
  AtRest /\ last = "use_virtual" /\ "service" \notin lost =>
    server[spawned] = "failed" \/ path = spawned

\* After use-virtual or set, if nobody meddled, one router plays to the device
\* that was asked for, and the binding file, which set -o and virtual-status
\* read, names it (README.md:55), unless its UID cannot be read, the router
\* died or the file cannot be written.
RoutedToWanted ==
  AtRest /\ last \in {"use_virtual", "set"} /\ last \notin meddled =>
    /\ default = Virtual
    /\ lost \intersect {"uid", "router"} = {} => {r.target : r \in routers} = {wanted}
    /\ writable /\ "uid" \notin lost => binding = wanted

\* use-physical brings back the device that was the default before
\* use-virtual, however often the router was bound anew meanwhile
\* (README.md:59), unless somebody meddled or its number was given away; and
\* whatever anybody does, it ends on a physical device unless CoreAudio refuses.
DeviceRestored ==
  AtRest =>
    /\ last = "restored" /\ meddled \intersect {"use_virtual", "use_physical"} = {} =>
         default = before
    /\ last \in {"restored", "fell-back", "use_physical"} /\ "use_physical" \notin meddled =>
         default \in Physical

\* When use-physical has run and everything has settled, no service is left
\* behind, nor its socket, a router or a binding (README.md:59, 90), whatever
\* the user did to the devices meanwhile.
StoppedAfterUsePhysical ==
  AtRest /\ last \in {"use_physical", "restored", "fell-back"} =>
    ~Busy({"running"}) /\ path = NoFile /\ routers = {} /\ binding = NoDevice

\* No service is spawned beside another one (main.c:87: spawn_ipc_service
\* makes sure that the old one has stopped); the code waits for none.
OneService == \A s, t \in Servers : server[s] \notin Over /\ server[t] \notin Over => s = t

\* Every command ends.
CommandEnds == command # Idle ~> command = Idle

\* Between commands the file stands for one device, the one that was the
\* default (virtual_device_manager.c:503 writes its number of that day).
SavedStays == [][command = Idle => UNCHANGED saved]_vars

\* The router is bound to a physical device, as the file's name says
\* (main.c:1006), never to the virtual one.
BoundToPhysical == binding # Virtual

\* The device saved is the one the router was bound to: main.c:1024 and
\* virtual_device_manager.c:496 mean the same one.
SavedIsBound == AtRest /\ last = "use_virtual" /\ "uid" \notin lost /\ writable => saved = binding

\* While the virtual device is the output, what set -o turns (main.c:742) is
\* what the router plays to.
BindingIsPlayed ==
  AtRest /\ default = Virtual /\ writable /\ binding # NoDevice =>
    \A r \in routers : r.target = binding

\* use-physical leaves an output that is not the virtual device alone
\* (virtual_device_manager.c:612).
OutputKept == [][command.at = "restore" /\ default # Virtual => UNCHANGED pending]_vars

\* The router inside use-virtual and the one in the background never play at
\* once: they share one read position in the driver (MCDriverIOTwoRouters).
OneRouter == inProcess => routers = {}

=============================================================================
