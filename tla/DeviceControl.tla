---------------------------- MODULE DeviceControl ----------------------------
(***************************************************************************)
(* Volume and default device (src/audio_control.c and the set command of   *)
(* src/main.c).  A command looks for its device, reads what the device can *)
(* do, and then tries its volume elements one after the other; CoreAudio,  *)
(* external, may refuse any of it, while the user turns, picks, plugs and  *)
(* unplugs.  A device without inputs or outputs, and reading the list in   *)
(* two calls, are left out: a device that has gone is in neither.          *)
(***************************************************************************)
EXTENDS Integers, Sequences, Functions

CONSTANTS
  Devices,   \* the order of CoreAudio's list
  Kind,      \* of each: the channels in and out, the elements whose volume
             \* is settable or fixed, whether the mute is settable, whether
             \* decibels are readable, whether it is a phone as a camera, and
             \* whether four bytes of its stream configuration can be read
  Virtual,   \* the device of the driver: no element, no mute of it is settable
  Volumes,   \* that a command may ask for
  Scalar,    \* what the code's scale of 96 dB makes of the decibels at each volume
  Nothing,   \* kAudioObjectUnknown, no file, no volume
  Slow,      \* the devices that may take their time to become the default
  Full, MaxTouches

All == Range(Devices)
Physical == All \ {Virtual}

IsInput(d)  == Kind[d].out = 0
IsOutput(d) == Kind[d].in = 0

\* The channels of the scope a device's volume is in, and the main element.
Channels(d) == IF IsInput(d) THEN Kind[d].in ELSE Kind[d].out
Elements(d) == 0..Channels(d)
Settable(d) == Kind[d].settable

\* The volumes an element may have or a command show.
Shown == DOMAIN Scalar

ASSUME DeviceControlAssumption ==
  /\ Virtual \in All /\ Nothing \notin All /\ Nothing \notin Shown
  /\ Volumes \union {0} \subseteq Shown /\ Scalar \in [Shown -> Shown]
  /\ ~IsInput(Virtual) /\ ~IsOutput(Virtual) /\ Settable(Virtual) = {} /\ ~Kind[Virtual].mute
  /\ \A d \in All : /\ Kind[d].in \in Nat /\ Kind[d].out \in Nat
                    /\ Kind[d].in > 0 \/ Kind[d].out > 0
                    /\ Settable(d) \union Kind[d].fixed \subseteq Elements(d)
  /\ Slow \subseteq All /\ Full \in Volumes /\ MaxTouches \in Nat

VARIABLES
  plugged, running,   \* external: the devices there are; that play or record
  default,            \* external: the default device of each direction
  pending,            \* external: a default device that is yet to take effect
  level, muted,       \* external: the volume of each element; muted devices
  binding,            \* the device whose UID bound_physical_device.txt holds
  call,               \* the command: what it does next, and with what
  done,               \* history: the volume command that succeeded last, until
                      \* something else touches its device
  changed,            \* history: what the command has changed of the two,
                      \* "level" and "mute"
  touched,            \* history: the user has meddled since it began
  touches             \* how often the user has, bounded

world == <<plugged, running, default, pending, level, muted>>
hist  == <<done, changed, touched, touches>>
vars  == <<world, binding, call, hist>>

Directions == {"input", "output"}

Idle == [at |-> "idle", cmd |-> "none", input |-> FALSE, volume |-> Nothing,
         device |-> Nothing, channel |-> 0, status |-> TRUE, success |-> FALSE,
         bound |-> FALSE, refused |-> FALSE]

None == [cmd |-> "none", device |-> Nothing, volume |-> Nothing, bound |-> FALSE]

\* The default device of a direction is one that has it.
Defaults(dir) == {d \in plugged : IF dir = "input" THEN Kind[d].in > 0 ELSE Kind[d].out > 0}

Init ==
  /\ plugged = All /\ running = {}
  /\ default \in [Directions -> All] /\ \A dir \in Directions : default[dir] \in Defaults(dir)
  /\ pending = Nothing
  /\ \E v \in Volumes : level = [d \in All |-> [e \in Elements(d) |-> v]]
  /\ muted \in SUBSET {d \in All : Kind[d].mute}
  /\ binding = Nothing
  /\ call = Idle
  /\ done = None /\ changed = {} /\ touched = FALSE /\ touches = 0

-----------------------------------------------------------------------------
(* What the code reads of a device                                          *)

\* As it would be if decibels went before the first channel.
DecibelsFirst(d) ==
  CASE 0 \in Settable(d) -> level[d][0]
    [] 0 \notin Settable(d) /\ Kind[d].decibels -> Scalar[level[d][0]]
    [] Settable(d) \intersect {0, 1} = {1} /\ ~Kind[d].decibels -> level[d][1]
    [] OTHER -> Nothing

\* getVolumeInfo where CoreAudio refuses it nothing: the virtual device shows the
\* output volume of the bound one.
PhysicalVolume(d) ==
  CASE 0 \in Settable(d) -> level[d][0]
    [] 0 \notin Settable(d) /\ 1 \in Settable(d) -> level[d][1]
    [] Settable(d) \intersect {0, 1} = {} /\ Kind[d].decibels -> Scalar[level[d][0]]
    [] OTHER -> Nothing

VolumeInfo(d) ==
  CASE d # Virtual -> PhysicalVolume(d)
    [] d = Virtual /\ binding \in plugged /\ ~IsInput(binding) -> PhysicalVolume(binding)
    [] OTHER -> Nothing

\* All it may come to: an element whose value is refused is passed over.
PhysicalReadings(d) ==
  {level[d][e] : e \in Settable(d) \intersect {0, 1}} \union {Nothing}
    \union (IF Kind[d].decibels THEN {Scalar[level[d][0]]} ELSE {})

Readings(d) ==
  CASE d # Virtual -> PhysicalReadings(d)
    [] d = Virtual /\ binding \in plugged /\ ~IsInput(binding) -> PhysicalReadings(binding)
    [] OTHER -> {Nothing}

\* getDeviceTransportType: a camera that is a phone has no volume control.
MayHaveVolumeControl(d) == Readings(d) # {Nothing} /\ ~Kind[d].camera

virtual_device_is_active_output == Virtual \in plugged /\ default["output"] = Virtual

\* checkDeviceRunningStatus; the virtual device only counts as the default.  In
\* the configuration's first bytes, the number of streams is taken for a state.
IsRunning(d) ==
  \/ d \in running
  \/ d # Virtual /\ Kind[d].partial
  \/ default["input"] = d /\ ~IsOutput(d)
  \/ default["output"] = d /\ ~IsInput(d)

\* What findRunningDevice looks for, by the place in the list: devices of both
\* directions are passed over.
RunningDevices(isInput) ==
  {i \in DOMAIN Devices : /\ Devices[i] \in plugged /\ IsRunning(Devices[i])
                          /\ IF isInput THEN IsInput(Devices[i]) ELSE IsOutput(Devices[i])}

-----------------------------------------------------------------------------
(* set -i and set -o                                                        *)

Begin(new) ==
  /\ call = Idle
  /\ call' = new
  /\ done' = None /\ changed' = {}
  /\ UNCHANGED <<world, binding, touched, touches>>

SetVolume(isInput, v) ==
  Begin([Idle EXCEPT !.at = "aim", !.cmd = "volume", !.input = isInput, !.volume = v])

Changes(new, what) == call' = new /\ changed' = changed \union what /\ UNCHANGED <<done, touched>>
Goes(new) == Changes(new, {})

\* A volume command that succeeded, and was refused nothing on the way, is kept
\* to compare with what is read later.
Ends(c, ok) ==
  /\ call' = Idle
  /\ done' = CASE ~ok -> [None EXCEPT !.cmd = "failed"]
               [] ok /\ c.cmd = "volume" /\ ~touched /\ ~c.refused ->
                    [cmd |-> "volume", device |-> c.device, volume |-> c.volume, bound |-> c.bound]
               [] OTHER -> None
  /\ changed' = IF ok THEN {} ELSE changed
  /\ touched' = FALSE

\* As it would be if the bound device were not looked for.
AimAnyhow ==
  /\ call.at = "aim"
  /\ Goes([call EXCEPT !.at = "info", !.device = binding])
  /\ UNCHANGED <<world, binding, touches>>

\* handleVolumeSet: the bound device while the virtual one is the output,
\* otherwise the first of the list that is in use.
AimAtBound ==
  IF binding \in plugged
  THEN Goes([call EXCEPT !.at = "info", !.device = binding, !.bound = TRUE])
  ELSE Ends(call, FALSE)

findRunningDevice ==
  LET found == RunningDevices(call.input) IN
  \/ found = {} /\ Ends(call, FALSE)
  \/ \E i \in found : /\ \A j \in found : i <= j
                      /\ Goes([call EXCEPT !.at = "info", !.device = Devices[i]])

Aim ==
  /\ call.at = "aim"
  /\ IF ~call.input /\ virtual_device_is_active_output THEN AimAtBound ELSE findRunningDevice
  /\ UNCHANGED <<world, binding, touches>>

\* setDeviceVolume, which reads first what the device can do.
Info ==
  /\ call.at = "info"
  /\ \/ /\ call.device \in plugged /\ MayHaveVolumeControl(call.device)
        /\ Goes([call EXCEPT !.at = "unmute"])
     \/ Ends(call, FALSE)
  /\ UNCHANGED <<world, binding, touches>>

\* Whether that fails is ignored.
Unmute ==
  /\ call.at = "unmute"
  /\ \/ /\ call.device \in plugged /\ Kind[call.device].mute
        /\ muted' = muted \ {call.device}
        /\ Changes([call EXCEPT !.at = "main"], IF muted' = muted THEN {} ELSE {"mute"})
     \/ /\ Goes([call EXCEPT !.at = "main",
                             !.refused = call.device \in plugged /\ Kind[call.device].mute])
        /\ UNCHANGED muted
  /\ UNCHANGED <<plugged, running, default, pending, level, binding, touches>>

\* CoreAudio takes the volume of element e.
Takes(e) ==
  /\ call.device \in plugged /\ e \in Settable(call.device)
  /\ level' = [level EXCEPT ![call.device][e] = call.volume]

Turned == IF level' = level THEN {} ELSE {"level"}

\* It does not: status is that of the last call, and to learn that an element
\* cannot be set is no error.
Refusal(e) ==
  [call EXCEPT !.status = call.device \in plugged /\ e \in Kind[call.device].fixed,
               !.refused = @ \/ (call.device \in plugged /\ e \in Settable(call.device))]

SetMain ==
  /\ call.at = "main"
  /\ \/ Takes(0) /\ Ends(call, TRUE)
     \/ /\ Goes([Refusal(0) EXCEPT !.at = "channel", !.channel = 1])
        /\ UNCHANGED level
  /\ UNCHANGED <<plugged, running, default, pending, muted, binding, touches>>

\* As it would be if the last channel alone told success.
SetChannelLast ==
  /\ call.at = "channel" /\ call.channel <= Channels(call.device)
  /\ \/ /\ Takes(call.channel)
        /\ Changes([call EXCEPT !.channel = @ + 1, !.status = TRUE, !.success = TRUE], Turned)
     \/ /\ Goes([Refusal(call.channel) EXCEPT !.channel = @ + 1, !.success = FALSE])
        /\ UNCHANGED level
  /\ UNCHANGED <<plugged, running, default, pending, muted, binding, touches>>

SetChannel ==
  /\ call.at = "channel" /\ call.channel <= Channels(call.device)
  /\ \/ /\ Takes(call.channel)
        /\ Changes([call EXCEPT !.channel = @ + 1, !.status = TRUE, !.success = TRUE], Turned)
     \/ /\ Goes([Refusal(call.channel) EXCEPT !.channel = @ + 1])
        /\ UNCHANGED level
  /\ UNCHANGED <<plugged, running, default, pending, muted, binding, touches>>

AllChannelsTried ==
  /\ call.at = "channel" /\ call.channel > Channels(call.device)
  /\ Ends(call, call.success \/ call.status)
  /\ UNCHANGED <<world, binding, touches>>

-----------------------------------------------------------------------------
(* set <device>                                                             *)

Switch(d) == Begin([Idle EXCEPT !.at = "read", !.cmd = "switch", !.device = d])

\* handleDeviceSwitch: while the virtual device is the output, a binding only
\* (what follows of that is in Session).
ReadDevice ==
  /\ call.at = "read"
  /\ \/ /\ call.device \in plugged /\ ~virtual_device_is_active_output
        /\ Goes([call EXCEPT !.at = "activate"])
        /\ UNCHANGED binding
     \/ /\ call.device \in plugged \ {Virtual} /\ virtual_device_is_active_output
        /\ binding' = call.device
        /\ Ends(call, TRUE)
     \/ /\ call.device \notin plugged \/ (call.device = Virtual /\ virtual_device_is_active_output)
        /\ Ends(call, FALSE)
        /\ UNCHANGED binding
  /\ UNCHANGED <<world, touches>>

Direction(d) == IF IsInput(d) THEN "input" ELSE "output"

\* setDeviceActive: a device of both directions becomes the output.
SetDefault ==
  /\ call.at = "activate"
  /\ \/ /\ call.device \in plugged
        /\ \/ call.device \in Slow /\ pending' = call.device /\ UNCHANGED default
           \/ /\ default' = [default EXCEPT ![Direction(call.device)] = call.device]
              /\ UNCHANGED pending
        /\ Goes([call EXCEPT !.at = "verify"])
     \/ Ends(call, FALSE) /\ UNCHANGED <<default, pending>>
  /\ UNCHANGED <<plugged, running, level, muted, binding, touches>>

Verify ==
  /\ call.at = "verify"
  /\ Ends(call, default[Direction(call.device)] = call.device)
  /\ UNCHANGED <<world, binding, touches>>

-----------------------------------------------------------------------------
(* The volume that use-virtual passes on                                    *)

UseVirtual == Begin([Idle EXCEPT !.at = "bind", !.cmd = "use-virtual"])

\* Without a device, or one that tells nothing of itself, the volume is taken
\* to be full; one without a volume has 0.
Bind ==
  LET from == default["output"] IN
  /\ call.at = "bind"
  /\ \/ virtual_device_is_active_output /\ Ends(call, TRUE) /\ UNCHANGED binding
     \/ Virtual \notin plugged /\ Ends(call, FALSE) /\ UNCHANGED binding
     \/ /\ Virtual \in plugged /\ ~virtual_device_is_active_output
        /\ from = Nothing
        /\ Goes([call EXCEPT !.at = "over", !.volume = Full]) /\ UNCHANGED binding
     \/ /\ Virtual \in plugged /\ ~virtual_device_is_active_output
        /\ from # Nothing /\ binding' \in {binding, from}
        /\ \E v \in Readings(from) \union {Full} :
             Goes([call EXCEPT !.at = "over", !.volume = IF v = Nothing THEN 0 ELSE v])
  /\ UNCHANGED <<world, touches>>

\* A full volume is not passed on.
SwitchOver ==
  /\ call.at = "over"
  /\ \/ Ends(call, FALSE) /\ UNCHANGED default
     \/ /\ Virtual \in plugged
        /\ default' = [default EXCEPT !["output"] = Virtual]
        /\ IF call.volume = Full THEN Ends(call, TRUE) ELSE Goes([call EXCEPT !.at = "pass-on"])
  /\ UNCHANGED <<plugged, running, pending, level, muted, binding, touches>>

\* To whatever is the output by now; the result is ignored.
PassOn ==
  /\ call.at = "pass-on"
  /\ Goes([call EXCEPT !.at = "info", !.device = default["output"]])
  /\ UNCHANGED <<world, binding, touches>>

-----------------------------------------------------------------------------
(* CoreAudio and the user                                                   *)

\* What is done to a device is no longer the last command's doing; plugging
\* in again is not counted.
Disturbs(d) ==
  /\ touched' = (call # Idle)
  /\ done' = IF done.device = d THEN None ELSE done
  /\ UNCHANGED <<binding, call, changed>>

Meddles(d) == touches < MaxTouches /\ touches' = touches + 1 /\ Disturbs(d)

Turn(d, e, v) ==
  /\ d \in plugged /\ e \in Settable(d) /\ level[d][e] # v
  /\ level' = [level EXCEPT ![d][e] = v]
  /\ Meddles(d) /\ UNCHANGED <<plugged, running, default, pending, muted>>

Mute(d) ==
  /\ d \in plugged \ muted /\ Kind[d].mute
  /\ muted' = muted \union {d}
  /\ Meddles(d) /\ UNCHANGED <<plugged, running, default, pending, level>>

\* CoreAudio makes another device the default, if there is one.
Others(dir, d) == IF Defaults(dir) = {d} THEN {Nothing} ELSE Defaults(dir) \ {d}

Unplug(d) ==
  /\ d \in plugged
  /\ plugged' = plugged \ {d} /\ running' = running \ {d}
  /\ default' \in {f \in [Directions -> All \union {Nothing}] : \A dir \in Directions :
                     IF default[dir] = d THEN f[dir] \in Others(dir, d) ELSE f[dir] = default[dir]}
  /\ Meddles(d) /\ UNCHANGED <<pending, level, muted>>

Plug(d) ==
  /\ d \in All \ plugged
  /\ plugged' = plugged \union {d}
  /\ default' = [dir \in Directions |->
                   IF default[dir] = Nothing /\ d \in Defaults(dir)' THEN d ELSE default[dir]]
  /\ Disturbs(d) /\ UNCHANGED <<touches, running, pending, level, muted>>

Pick(dir, d) ==
  /\ d \in Defaults(dir) \ {default[dir]}
  /\ default' = [default EXCEPT ![dir] = d]
  /\ Meddles(Nothing) /\ UNCHANGED <<plugged, running, pending, level, muted>>

Play(d) ==
  /\ d \in plugged \ (running \union {Virtual})
  /\ running' = running \union {d}
  /\ Meddles(Nothing) /\ UNCHANGED <<plugged, default, pending, level, muted>>

TakeEffect ==
  /\ pending # Nothing
  /\ default' = IF pending \in plugged THEN [default EXCEPT ![Direction(pending)] = pending]
                ELSE default
  /\ pending' = Nothing
  /\ UNCHANGED <<plugged, running, level, muted, binding, call, hist>>

-----------------------------------------------------------------------------
Next ==
  \/ \E isInput \in BOOLEAN, v \in Volumes : SetVolume(isInput, v)
  \/ Aim \/ Info \/ Unmute \/ SetMain \/ SetChannel \/ AllChannelsTried
  \/ \E d \in All : Switch(d)
  \/ ReadDevice \/ SetDefault \/ Verify
  \/ UseVirtual \/ Bind \/ SwitchOver \/ PassOn
  \/ \E d \in All :
       \/ \E e \in Elements(d), v \in Volumes : Turn(d, e, v)
       \/ Mute(d) \/ Unplug(d) \/ Plug(d) \/ Play(d)
       \/ \E dir \in Directions : Pick(dir, d)
  \/ TakeEffect

Spec == Init /\ [][Next]_vars

-----------------------------------------------------------------------------
(* Properties                                                               *)

\* The state is well formed: a command that asks a device for anything has
\* found one, and whatever has become of it meanwhile, tries elements it has.
TypeOK ==
  /\ plugged \subseteq All /\ running \subseteq plugged /\ muted \subseteq All
  /\ \A dir \in Directions : default[dir] \in Defaults(dir) \union {Nothing}
  /\ binding \in Physical \union {Nothing}
  /\ \A d \in All : \A e \in Elements(d) : level[d][e] \in Shown
  /\ call.at = "info" /\ call.cmd = "volume" => call.device \in All
  /\ call.at \in {"unmute", "main", "channel", "activate", "verify"} => call.device \in All
  /\ call.at = "channel" => call.channel \in 1..(Channels(call.device) + 1)

\* After a volume command that succeeded, and was refused nothing on the way,
\* the device is listed, if CoreAudio lets it be read, with that volume and not
\* muted: what set writes (audio_control.c:626) is what list reads (:160), for the virtual device,
\* which shows the bound one's volume, too.
ReadBack ==
  done.cmd = "volume" =>
    /\ VolumeInfo(done.device) = done.volume
    /\ Kind[done.device].mute => done.device \notin muted
    /\ done.bound /\ ~IsInput(binding) => VolumeInfo(Virtual) = done.volume

\* A command that failed has left every volume as it was, however many of the
\* elements refused (audio_control.c:645).
FailedKeepsLevels == done.cmd = "failed" => "level" \notin changed

\* It has not unmuted anything either.
FailedKeepsMutes == done.cmd = "failed" => "mute" \notin changed

\* set -o is for the current output (README.md:73): the bound device while the
\* virtual one is the output, otherwise the default device.
SetsCurrentOutput ==
  [][call.at = "aim" /\ ~call.input /\ call'.at = "info" =>
       call'.device = IF virtual_device_is_active_output THEN binding ELSE default["output"]]_vars

\* What the virtual device is bound to plays (main.c:817 asks only whether it is
\* virtual itself).
BoundPlays == binding # Nothing => ~IsInput(binding)

\* use-virtual passes a volume on to the virtual device (main.c:1047), and
\* leaves the volumes of the others alone.
UseVirtualKeepsLevels ==
  [][call.cmd = "use-virtual" /\ touched' = touched => level' = level]_vars

\* A switch that is reported not to have taken effect takes none later
\* (audio_control.c:716).
FailedIsOver == done.cmd = "failed" => pending = Nothing

=============================================================================
