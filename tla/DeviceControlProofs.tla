------------------------- MODULE DeviceControlProofs -------------------------
(***************************************************************************)
(* For every list of devices: a set that fails has changed no volume; and  *)
(* where each device that shows a volume lets one set its main volume or   *)
(* its first channel's (PlainDevices), what set writes is what list reads. *)
(***************************************************************************)
EXTENDS DeviceControl, TLAPS

\* A device whose volume can be read has one of the two elements that count.
PlainDevices == \A d \in Physical : Kind[d].decibels => Settable(d) \intersect {0, 1} # {}

WorldInv ==
  /\ plugged \subseteq All /\ running \subseteq plugged /\ muted \subseteq All
  /\ default \in [Directions -> All \union {Nothing}]
  /\ \A dir \in Directions : default[dir] \in Defaults(dir) \union {Nothing}
  /\ pending \in All \union {Nothing}
  /\ binding \in Physical \union {Nothing}

LevelsInv ==
  /\ level = [d \in All |-> level[d]]
  /\ \A d \in All : level[d] \in [Elements(d) -> Shown]

Places == {"idle", "aim", "info", "unmute", "main", "channel", "read", "activate", "verify",
           "bind", "over", "pass-on"}
Trying == {"unmute", "main", "channel"}

CallInv ==
  /\ call \in [at : Places, cmd : {"none", "volume", "switch", "use-virtual"}, input : BOOLEAN,
               volume : Shown \union {Nothing}, device : All \union {Nothing}, channel : Nat,
               status : BOOLEAN, success : BOOLEAN, bound : BOOLEAN, refused : BOOLEAN]
  /\ call.at = "aim" => call.cmd = "volume" /\ call.volume # Nothing
  /\ call.at \in {"bind", "over", "pass-on"} => call.cmd = "use-virtual"
  /\ call.at \in {"over", "pass-on"} => call.volume # Nothing
  /\ call.at \in {"read", "activate", "verify"} => call.device \in All /\ call.cmd = "switch"
  /\ call.at \in {"info"} \union Trying =>
       /\ call.volume # Nothing
       /\ call.cmd = "volume" => call.device \in Physical
  /\ call.at \in Trying => call.device \in All
  /\ call.at = "channel" => call.channel \in 1..(Channels(call.device) + 1)

\* Only between its channels can a command have changed a volume and not be
\* done, and then it will succeed.
LevelInv ==
  /\ "level" \in changed => call.at = "channel" /\ call.success
  /\ done.cmd # "none" => call.at = "idle"

\* What a volume command, undisturbed, has done so far to its device, and what
\* it has when it is done.
TryInv ==
  /\ call.at \in {"idle", "aim"} => ~call.bound
  /\ call.cmd = "volume" /\ call.at \in {"info"} \union Trying =>
    /\ call.bound => call.device = binding
    /\ call.at \in Trying => Settable(call.device) \intersect {0, 1} # {}
    /\ call.at \in Trying /\ ~touched => call.device \in plugged
    /\ call.at \in {"main", "channel"} /\ ~touched /\ ~call.refused /\ Kind[call.device].mute =>
         call.device \notin muted
    /\ call.at = "channel" /\ ~touched /\ ~call.refused =>
         /\ 0 \notin Settable(call.device)
         /\ call.channel > 1 => level[call.device][1] = call.volume

DoneInv ==
  done.cmd = "volume" =>
    /\ done.device \in Physical \intersect plugged
    /\ Settable(done.device) \intersect {0, 1} # {}
    /\ PhysicalVolume(done.device) = done.volume
    /\ Kind[done.device].mute => done.device \notin muted
    /\ done.bound => done.device = binding

-----------------------------------------------------------------------------
(* Types                                                                    *)

\* A device has a number of channels.
LEMMA ChannelsAreNat == \A d \in All : Channels(d) \in Nat
<1>1. \A d \in All : Kind[d].in \in Nat /\ Kind[d].out \in Nat
  BY DeviceControlAssumption
<1> QED BY <1>1 DEF Channels, IsInput

\* What a device shows is a volume or nothing.
LEMMA VolumeShown ==
  ASSUME LevelsInv, WorldInv, NEW d \in All
  PROVE  Readings(d) \subseteq Shown \union {Nothing}
<1>1. ASSUME NEW x \in All PROVE PhysicalReadings(x) \subseteq Shown \union {Nothing}
  <2>1. /\ Settable(x) \subseteq Elements(x) /\ 0 \in Elements(x)
        /\ level[x] \in [Elements(x) -> Shown]
    BY DeviceControlAssumption DEF LevelsInv, Elements, Channels
  <2>2. Scalar[level[x][0]] \in Shown
    BY <2>1, DeviceControlAssumption
  <2> QED BY <2>1, <2>2 DEF PhysicalReadings
<1> QED BY <1>1 DEF Readings, WorldInv, Physical

\* The steps of a command that leave CoreAudio and the binding alone.
Quiet == UNCHANGED <<world, binding>>

\* A step that leaves levels and the call alone.
LEMMA QuietSteps ==
  /\ \A i \in BOOLEAN, v \in Volumes : SetVolume(i, v) => Quiet
  /\ \A d \in All : Switch(d) => Quiet
  /\ Aim \/ Info \/ AllChannelsTried \/ Verify \/ UseVirtual \/ PassOn => Quiet
BY DEF SetVolume, Switch, UseVirtual, Begin, Aim, Info, AllChannelsTried, Verify, PassOn, Quiet

\* Levels are only those of the elements a device has.
LEMMA LevelsStep == LevelsInv /\ CallInv /\ [Next]_vars => LevelsInv'
<1> SUFFICES ASSUME LevelsInv, CallInv, [Next]_vars PROVE LevelsInv'
  OBVIOUS
<1>0. ASSUME UNCHANGED level PROVE LevelsInv'
  BY <1>0 DEF LevelsInv
<1>1. ASSUME NEW d \in All, NEW e \in Settable(d), NEW v \in Shown,
             level' = [level EXCEPT ![d][e] = v]
      PROVE  LevelsInv'
  <2>1. e \in Elements(d)
    BY DeviceControlAssumption
  <2> QED BY <1>1, <2>1 DEF LevelsInv
<1>2. ASSUME NEW e, Takes(e), call.at \in Trying PROVE LevelsInv'
  <2>1. call.device \in All /\ call.volume \in Shown
    BY <1>2 DEF CallInv
  <2> QED BY <1>1, <1>2, <2>1 DEF Takes
<1>3. CASE SetMain \/ SetChannel
  BY <1>0, <1>2, <1>3 DEF SetMain, SetChannel, Trying
<1>4. ASSUME NEW d \in All, NEW e \in Elements(d), NEW v \in Volumes, Turn(d, e, v)
      PROVE  LevelsInv'
  BY <1>1, <1>4, DeviceControlAssumption DEF Turn
<1>5. CASE Unmute \/ ReadDevice \/ SetDefault \/ Bind \/ SwitchOver \/ TakeEffect
  BY <1>0, <1>5 DEF Unmute, ReadDevice, SetDefault, Bind, SwitchOver, TakeEffect, world
<1>6. ASSUME NEW d \in All, Mute(d) \/ Unplug(d) \/ Plug(d) \/ Play(d) PROVE LevelsInv'
  BY <1>0, <1>6 DEF Mute, Unplug, Plug, Play
<1>7. ASSUME NEW d \in All, NEW dir \in Directions, Pick(dir, d) PROVE LevelsInv'
  BY <1>0, <1>7 DEF Pick
<1>8. CASE Quiet
  BY <1>0, <1>8 DEF Quiet, world
<1>9. CASE UNCHANGED vars
  BY <1>0, <1>9 DEF vars, world
<1> QED
  BY <1>3, <1>4, <1>5, <1>6, <1>7, <1>8, <1>9, QuietSteps DEF Next

\* Devices, volumes and mutes stay what they are.
LEMMA WorldStep == WorldInv /\ CallInv /\ [Next]_vars => WorldInv'
<1> SUFFICES ASSUME WorldInv, CallInv, [Next]_vars PROVE WorldInv'
  OBVIOUS
<1> USE DEF WorldInv, world
<1>1. CASE Unmute
  BY <1>1 DEF Unmute, Defaults
<1>2. CASE SetMain \/ SetChannel
  BY <1>2 DEF SetMain, SetChannel, Defaults
<1>3. CASE ReadDevice
  BY <1>3 DEF ReadDevice, Physical, CallInv, Defaults
<1>4. CASE SetDefault
  <2>1. call.device \in All
    BY <1>4 DEF SetDefault, CallInv
  <2>2. plugged' = plugged /\ running' = running /\ muted' = muted /\ binding' = binding
    BY <1>4 DEF SetDefault
  <2>3. \A dir \in Directions : Defaults(dir)' = Defaults(dir)
    BY <2>2 DEF Defaults
  <2>4. CASE UNCHANGED <<default, pending>>
    BY <2>2, <2>3, <2>4
  <2>5. CASE pending' = call.device /\ UNCHANGED default
    BY <2>1, <2>2, <2>3, <2>5
  <2>6. CASE /\ default' = [default EXCEPT ![Direction(call.device)] = call.device]
             /\ call.device \in plugged /\ UNCHANGED pending
    <3>1. call.device \in Defaults(Direction(call.device))
      BY <2>1, <2>6, DeviceControlAssumption DEF Direction, IsInput, Defaults
    <3> QED BY <2>1, <2>2, <2>3, <2>6, <3>1
  <2> QED BY <1>4, <2>4, <2>5, <2>6 DEF SetDefault
<1>5. CASE Bind \/ SwitchOver
  <2>1. Virtual \in plugged => Virtual \in Defaults("output")
    BY DeviceControlAssumption DEF Defaults, IsInput
  <2>2. Virtual \in plugged /\ ~virtual_device_is_active_output =>
          default["output"] \in Physical \union {Nothing}
    BY DEF virtual_device_is_active_output, Physical, Directions
  <2>3. CASE SwitchOver
    <3>1. /\ UNCHANGED <<plugged, running, pending, muted, binding>>
          /\ \/ UNCHANGED default
             \/ Virtual \in plugged /\ default' = [default EXCEPT !["output"] = Virtual]
      BY <2>3 DEF SwitchOver
    <3> QED BY <2>1, <3>1 DEF Directions, Defaults
  <2> QED BY <1>5, <2>2, <2>3 DEF Bind, Directions, Defaults
<1>6. ASSUME NEW d \in All, NEW e \in Elements(d), NEW v \in Volumes, Turn(d, e, v)
      PROVE  WorldInv'
  BY <1>6 DEF Turn, Meddles, Disturbs, Defaults
<1>7. ASSUME NEW d \in All, Mute(d) PROVE WorldInv'
  BY <1>7 DEF Mute, Meddles, Disturbs, Defaults
<1>8. ASSUME NEW d \in All, Unplug(d) PROVE WorldInv'
  BY <1>8 DEF Unplug, Meddles, Disturbs, Others, Defaults
<1>9. ASSUME NEW d \in All, Plug(d) PROVE WorldInv'
  BY <1>9 DEF Plug, Disturbs, Defaults
<1>10. ASSUME NEW d \in All, NEW dir \in Directions, Pick(dir, d) PROVE WorldInv'
  BY <1>10 DEF Pick, Meddles, Disturbs, Defaults
<1>11. ASSUME NEW d \in All, Play(d) PROVE WorldInv'
  BY <1>11 DEF Play, Meddles, Disturbs, Defaults
<1>12. CASE TakeEffect
  BY <1>12, DeviceControlAssumption DEF TakeEffect, Direction, Directions, IsInput, Defaults
<1>13. CASE Quiet
  BY <1>13 DEF Quiet, Defaults
<1>14. CASE UNCHANGED vars
  BY <1>14 DEF vars, Defaults
<1> HIDE DEF WorldInv
<1> QED
  BY <1>1, <1>2, <1>3, <1>4, <1>5, <1>6, <1>7, <1>8, <1>9, <1>10, <1>11, <1>12, <1>13, <1>14,
     QuietSteps
     DEF Next


\* A command that ends leaves nothing behind it.
LEMMA IdleCall == (call' = Idle => CallInv') /\ (call' = call /\ CallInv => CallInv')
<1>1. call' = Idle => CallInv'
  BY DEF CallInv, Idle, Places, Trying
<1>2. call' = call /\ CallInv => CallInv'
  BY DEF CallInv
<1> QED BY <1>1, <1>2

\* A call goes on at a place it can be in.
LEMMA CallStep == WorldInv /\ LevelsInv /\ CallInv /\ [Next]_vars => CallInv'
<1> SUFFICES ASSUME WorldInv, LevelsInv, CallInv, [Next]_vars PROVE CallInv'
  OBVIOUS
<1>0. \A c, ok : Ends(c, ok) => CallInv'
  BY IdleCall DEF Ends
<1>1. ASSUME NEW i \in BOOLEAN, NEW v \in Volumes, SetVolume(i, v) PROVE CallInv'
  BY <1>1, DeviceControlAssumption DEF SetVolume, Begin, Idle, CallInv, Places, Trying
<1>2. ASSUME NEW d \in All, Switch(d) PROVE CallInv'
  BY <1>2 DEF Switch, Begin, Idle, CallInv, Places, Trying
<1>3. CASE Aim
  <2>1. ASSUME NEW d \in Physical, NEW b \in BOOLEAN,
               call' = [call EXCEPT !.at = "info", !.device = d, !.bound = b]
        PROVE  CallInv'
    BY <1>3, <2>1 DEF Aim, CallInv, Places, Trying, Physical
  <2>2. CASE AimAtBound
    <3>1. CASE Ends(call, FALSE)
      BY <1>0, <3>1
    <3>2. CASE binding \in plugged /\ call' = [call EXCEPT !.at = "info", !.device = binding, !.bound = TRUE]
      <4>1. binding \in Physical
        BY <3>2, DeviceControlAssumption DEF WorldInv
      <4> QED BY <2>1, <3>2, <4>1
    <3> QED BY <2>2, <3>1, <3>2 DEF AimAtBound, Goes, Changes
  <2>3. CASE findRunningDevice
    <3>1. CASE Ends(call, FALSE)
      BY <1>0, <3>1
    <3>2. ASSUME NEW i \in RunningDevices(call.input),
                 call' = [call EXCEPT !.at = "info", !.device = Devices[i]]
          PROVE  CallInv'
      <4>1. Devices[i] \in Physical
        BY <3>2, DeviceControlAssumption DEF RunningDevices, Physical, WorldInv
      <4>2. call' = [call EXCEPT !.at = "info", !.device = Devices[i], !.bound = call.bound]
            /\ call.bound \in BOOLEAN
        BY <3>2 DEF CallInv
      <4> QED BY <2>1, <4>1, <4>2
    <3> QED BY <2>3, <3>1, <3>2 DEF findRunningDevice, Goes, Changes
  <2> QED BY <1>3, <2>2, <2>3 DEF Aim
<1>4. CASE Info
  <2>1. CASE Ends(call, FALSE)
    BY <1>0, <2>1
  <2>2. CASE call.device \in plugged /\ call' = [call EXCEPT !.at = "unmute"]
    <3>1. call.device \in All
      BY <2>2 DEF WorldInv
    <3> QED BY <1>4, <2>2, <3>1 DEF Info, CallInv, Places, Trying
  <2> QED BY <1>4, <2>1, <2>2 DEF Info, Goes, Changes
<1>5. CASE Unmute
  <2>1. PICK r \in BOOLEAN : call' = [call EXCEPT !.at = "main", !.refused = r]
    <3>1. call' = [call EXCEPT !.at = "main"] =>
            call' = [call EXCEPT !.at = "main", !.refused = call.refused]
      BY DEF CallInv
    <3>2. call.refused \in BOOLEAN
      BY DEF CallInv
    <3> QED BY <1>5, <3>1, <3>2 DEF Unmute, Goes, Changes
  <2> QED BY <1>5, <2>1 DEF Unmute, CallInv, Places, Trying
<1>6. CASE SetMain
  <2>1. CASE Ends(call, TRUE)
    BY <1>0, <2>1
  <2>2. CASE call' = [Refusal(0) EXCEPT !.at = "channel", !.channel = 1]
    <3>1. /\ call.device \in All /\ (call.cmd = "volume" => call.device \in Physical)
          /\ call.volume # Nothing /\ call.at = "main"
      BY <1>6 DEF SetMain, CallInv, Trying
    <3>2. Channels(call.device) \in Nat
      BY <3>1, ChannelsAreNat
    <3>3. 1 \in 1..(Channels(call.device) + 1)
      BY <3>2
    <3> QED BY <2>2, <3>1, <3>3 DEF Refusal, CallInv, Places, Trying
  <2> QED BY <1>6, <2>1, <2>2 DEF SetMain, Goes, Changes
<1>7. CASE SetChannel
  <2>1. /\ call.device \in All /\ (call.cmd = "volume" => call.device \in Physical)
        /\ call.volume # Nothing /\ call.at = "channel"
        /\ call.channel \in 1..(Channels(call.device) + 1) /\ call.channel <= Channels(call.device)
    BY <1>7 DEF SetChannel, CallInv, Trying
  <2>2. Channels(call.device) \in Nat
    BY <2>1, ChannelsAreNat
  <2>3. call.channel + 1 \in 1..(Channels(call.device) + 1) /\ call.channel + 1 \in Nat
    BY <2>1, <2>2
  <2>4. CASE call' = [call EXCEPT !.channel = @ + 1, !.status = TRUE, !.success = TRUE]
    BY <2>1, <2>3, <2>4 DEF CallInv, Places, Trying
  <2>5. CASE call' = [Refusal(call.channel) EXCEPT !.channel = @ + 1]
    BY <2>1, <2>3, <2>5 DEF Refusal, CallInv, Places, Trying
  <2> QED BY <1>7, <2>4, <2>5 DEF SetChannel, Goes, Changes
<1>8. CASE AllChannelsTried \/ Verify
  BY <1>0, <1>8 DEF AllChannelsTried, Verify
<1>9. CASE ReadDevice
  <2>1. CASE call' = [call EXCEPT !.at = "activate"] /\ call.device \in plugged
    BY <1>9, <2>1 DEF ReadDevice, CallInv, Places, Trying, WorldInv
  <2> QED BY <1>0, <1>9, <2>1 DEF ReadDevice, Goes, Changes
<1>10. CASE SetDefault
  <2>1. CASE call' = [call EXCEPT !.at = "verify"]
    BY <1>10, <2>1 DEF SetDefault, CallInv, Places, Trying, WorldInv
  <2> QED BY <1>0, <1>10, <2>1 DEF SetDefault, Goes, Changes
<1>11. CASE UseVirtual
  BY <1>11 DEF UseVirtual, Begin, Idle, CallInv, Places, Trying
<1>12. CASE Bind
  <2>1. ASSUME NEW v \in Shown, call' = [call EXCEPT !.at = "over", !.volume = v]
        PROVE  CallInv'
    BY <1>12, <2>1, DeviceControlAssumption DEF Bind, CallInv, Places, Trying
  <2>2. CASE call' = [call EXCEPT !.at = "over", !.volume = Full]
    BY <2>1, <2>2, DeviceControlAssumption
  <2>3. ASSUME NEW v \in Readings(default["output"]) \union {Full}, default["output"] # Nothing,
               call' = [call EXCEPT !.at = "over", !.volume = IF v = Nothing THEN 0 ELSE v]
        PROVE  CallInv'
    <3>1. default["output"] \in All
      BY <2>3 DEF WorldInv, Directions
    <3>2. v \in Shown \union {Nothing} /\ 0 \in Shown
      BY <3>1, VolumeShown, DeviceControlAssumption
    <3> QED BY <2>1, <2>3, <3>2
  <2> QED BY <1>0, <1>12, <2>2, <2>3 DEF Bind, Goes, Changes
<1>over. CASE SwitchOver
  <2>1. CASE call' = [call EXCEPT !.at = "pass-on"]
    BY <1>over, <2>1 DEF SwitchOver, CallInv, Places, Trying
  <2> QED BY <1>0, <1>over, <2>1 DEF SwitchOver, Goes, Changes
<1>13. CASE PassOn
  <2>1. default["output"] \in All \union {Nothing}
    BY DEF WorldInv, Directions
  <2>2. call' = [call EXCEPT !.at = "info", !.device = default["output"]]
    BY <1>13 DEF PassOn, Goes, Changes
  <2> QED BY <1>13, <2>1, <2>2 DEF PassOn, CallInv, Places, Trying
<1>14. CASE UNCHANGED call
  BY <1>14, IdleCall
<1>15. CASE TakeEffect \/ UNCHANGED vars
  BY <1>14, <1>15 DEF TakeEffect, vars
<1>16. ASSUME NEW d \in All,
              \/ \E e \in Elements(d), v \in Volumes : Turn(d, e, v)
              \/ Mute(d) \/ Unplug(d) \/ Plug(d) \/ Play(d)
              \/ \E dir \in Directions : Pick(dir, d)
       PROVE  CallInv'
  BY <1>14, <1>16 DEF Turn, Mute, Unplug, Plug, Play, Pick, Meddles, Disturbs
<1> QED
  BY <1>1, <1>2, <1>3, <1>4, <1>5, <1>6, <1>7, <1>8, <1>9, <1>10, <1>11, <1>12, <1>over, <1>13, <1>15, <1>16
     DEF Next

-----------------------------------------------------------------------------
(* What a command that fails leaves behind                                  *)

\* The user's steps and CoreAudio's: they leave the command alone, and what
\* succeeded is forgotten when its device is touched.
Outside == /\ UNCHANGED <<call, changed, binding>>
           /\ UNCHANGED done \/ done' = None

\* What the rest of the system does, it does to the levels of one device.
LEMMA OutsideSteps ==
  /\ \A d \in All : \A e \in Elements(d), v \in Volumes : Turn(d, e, v) => Outside
  /\ \A d \in All : Mute(d) \/ Unplug(d) \/ Plug(d) \/ Play(d) => Outside
  /\ \A d \in All, dir \in Directions : Pick(dir, d) => Outside
  /\ TakeEffect \/ UNCHANGED vars => Outside
BY DEF Turn, Mute, Unplug, Plug, Play, Pick, TakeEffect, Meddles, Disturbs, Outside, vars, hist

\* Levels that were set stay in range.
LEMMA LevelInvStep == CallInv /\ LevelInv /\ [Next]_vars => LevelInv'
<1> SUFFICES ASSUME CallInv, LevelInv, [Next]_vars PROVE LevelInv'
  OBVIOUS
<1>1. ASSUME NEW c, NEW ok, Ends(c, ok), ok \/ "level" \notin changed PROVE LevelInv'
  BY <1>1 DEF Ends, LevelInv, Idle
<1>2. ASSUME call'.at # "channel", "level" \notin changed', call.at # "idle", UNCHANGED done
      PROVE  LevelInv'
  BY <1>2 DEF LevelInv
<1>3. ASSUME NEW new, Begin(new) PROVE LevelInv'
  BY <1>3 DEF Begin, LevelInv, None
<1>4. CASE Outside
  BY <1>4 DEF Outside, LevelInv, None
<1>5. CASE Aim
  <2>1. ASSUME NEW d, NEW b, Goes([call EXCEPT !.at = "info", !.device = d, !.bound = b])
        PROVE  LevelInv'
    BY <1>5, <2>1 DEF Aim, Goes, Changes, LevelInv, CallInv
  <2>2. ASSUME NEW d, Goes([call EXCEPT !.at = "info", !.device = d]) PROVE LevelInv'
    BY <1>5, <2>2 DEF Aim, Goes, Changes, LevelInv, CallInv
  <2>3. CASE Ends(call, FALSE)
    BY <1>1, <1>5, <2>3 DEF Aim, LevelInv
  <2> QED BY <1>5, <2>1, <2>2, <2>3 DEF Aim, AimAtBound, findRunningDevice
<1>6. CASE Info
  <2>1. CASE Goes([call EXCEPT !.at = "unmute"])
    BY <1>6, <2>1 DEF Info, Goes, Changes, LevelInv, CallInv
  <2> QED BY <1>1, <1>6, <2>1 DEF Info, LevelInv
<1>7. CASE Unmute
  <2>1. "level" \notin changed /\ call.at = "unmute"
    BY <1>7 DEF Unmute, LevelInv
  <2>2. call'.at = "main" /\ "level" \notin changed' /\ UNCHANGED done
    BY <1>7, <2>1 DEF Unmute, Goes, Changes, CallInv
  <2> QED BY <2>1, <2>2 DEF LevelInv
<1>8. CASE SetMain
  <2>1. CASE Goes([Refusal(0) EXCEPT !.at = "channel", !.channel = 1])
    BY <1>8, <2>1 DEF SetMain, Goes, Changes, LevelInv, CallInv, Refusal
  <2> QED BY <1>1, <1>8, <2>1 DEF SetMain
<1>9. CASE SetChannel
  <2>1. CASE Changes([call EXCEPT !.channel = @ + 1, !.status = TRUE, !.success = TRUE], Turned)
    BY <1>9, <2>1 DEF SetChannel, Changes, LevelInv, CallInv
  <2>2. CASE Goes([Refusal(call.channel) EXCEPT !.channel = @ + 1])
    BY <1>9, <2>2 DEF SetChannel, Goes, Changes, LevelInv, CallInv, Refusal
  <2> QED BY <1>9, <2>1, <2>2 DEF SetChannel
<1>10. CASE AllChannelsTried
  <2>1. CASE call.success
    BY <1>1, <1>10, <2>1 DEF AllChannelsTried
  <2>2. CASE ~call.success
    <3>1. "level" \notin changed
      BY <2>2 DEF LevelInv
    <3> QED BY <1>1, <1>10, <3>1 DEF AllChannelsTried
  <2> QED BY <2>1, <2>2
<1>11. CASE ReadDevice
  <2>1. CASE Goes([call EXCEPT !.at = "activate"])
    BY <1>11, <2>1 DEF ReadDevice, Goes, Changes, LevelInv, CallInv
  <2> QED BY <1>1, <1>11, <2>1 DEF ReadDevice, LevelInv
<1>12. CASE SetDefault
  <2>1. CASE Goes([call EXCEPT !.at = "verify"])
    BY <1>12, <2>1 DEF SetDefault, Goes, Changes, LevelInv, CallInv
  <2> QED BY <1>1, <1>12, <2>1 DEF SetDefault, LevelInv
<1>13. CASE Verify
  BY <1>1, <1>13 DEF Verify, LevelInv
<1>14. CASE Bind
  <2>1. ASSUME NEW v, Goes([call EXCEPT !.at = "over", !.volume = v]) PROVE LevelInv'
    BY <1>14, <2>1 DEF Bind, Goes, Changes, LevelInv, CallInv
  <2>2. ASSUME NEW ok, Ends(call, ok) PROVE LevelInv'
    BY <1>1, <1>14, <2>2 DEF Bind, LevelInv
  <2> QED BY <1>14, <2>1, <2>2 DEF Bind
<1>over. CASE SwitchOver
  <2>1. CASE Goes([call EXCEPT !.at = "pass-on"])
    BY <1>over, <2>1 DEF SwitchOver, Goes, Changes, LevelInv, CallInv
  <2> QED BY <1>1, <1>over, <2>1 DEF SwitchOver, LevelInv
<1>15. CASE PassOn
  BY <1>15 DEF PassOn, Goes, Changes, LevelInv, CallInv
<1> QED
  BY <1>3, <1>4, <1>5, <1>6, <1>7, <1>8, <1>9, <1>10, <1>11, <1>12, <1>over, <1>13, <1>14, <1>15,
     OutsideSteps DEF Next, SetVolume, Switch, UseVirtual

\* In the beginning there is nothing to go wrong.
LEMMA InitInv == Init => WorldInv /\ LevelsInv /\ CallInv /\ LevelInv /\ TryInv /\ DoneInv
<1> SUFFICES ASSUME Init PROVE WorldInv /\ LevelsInv /\ CallInv /\ LevelInv /\ TryInv /\ DoneInv
  OBVIOUS
<1>1. WorldInv
  BY DEF Init, WorldInv
<1>2. LevelsInv
  BY DeviceControlAssumption DEF Init, LevelsInv
<1>3. CallInv
  BY DEF Init, CallInv, Idle, Places, Trying
<1>4. LevelInv /\ TryInv /\ DoneInv
  BY DEF Init, LevelInv, TryInv, DoneInv, Idle, None, Trying
<1> QED BY <1>1, <1>2, <1>3, <1>4

\* All of that holds always.
LEMMA InvAlways == Spec => [](WorldInv /\ LevelsInv /\ CallInv /\ LevelInv)
<1>1. WorldInv /\ LevelsInv /\ CallInv /\ LevelInv /\ [Next]_vars
        => (WorldInv /\ LevelsInv /\ CallInv /\ LevelInv)'
  BY WorldStep, LevelsStep, CallStep, LevelInvStep
<1> QED BY <1>1, InitInv, PTL DEF Spec

\* The state is well formed, whatever devices there are: every step of a
\* command finds the device and the element it works on.
THEOREM TypeCorrect == Spec => []TypeOK
<1>1. WorldInv /\ LevelsInv /\ CallInv => TypeOK
  <2> SUFFICES ASSUME WorldInv, LevelsInv, CallInv PROVE TypeOK
    OBVIOUS
  <2>1. \A d \in All : \A e \in Elements(d) : level[d][e] \in Shown
    BY DEF LevelsInv
  <2>2. /\ call.at = "info" /\ call.cmd = "volume" => call.device \in All
        /\ call.at \in {"unmute", "main", "channel", "activate", "verify"} => call.device \in All
        /\ call.at = "channel" => call.channel \in 1..(Channels(call.device) + 1)
    BY DEF CallInv, Trying, Physical
  <2> QED BY <2>1, <2>2 DEF WorldInv, TypeOK
<1> QED BY <1>1, InvAlways, PTL

\* A command that fails has left every volume as it was, whatever elements
\* refused, and whoever else turned them meanwhile (audio_control.c:645).
THEOREM FailedIsClean == Spec => []FailedKeepsLevels
<1>1. LevelInv => FailedKeepsLevels
  BY DEF LevelInv, FailedKeepsLevels
<1> QED BY <1>1, InvAlways, PTL

-----------------------------------------------------------------------------
(* What set writes is what list reads                                       *)

\* While set tries the elements, what it has tried is what it has written.
LEMMA TryInvStep ==
  PlainDevices /\ WorldInv /\ LevelsInv /\ CallInv /\ TryInv /\ [Next]_vars => TryInv'
<1> SUFFICES ASSUME PlainDevices, WorldInv, LevelsInv, CallInv, TryInv, [Next]_vars
             PROVE  TryInv'
  OBVIOUS
<1>0. ASSUME call'.at \notin {"idle", "aim", "info"} \union Trying PROVE TryInv'
  BY <1>0 DEF TryInv
<1>1. ASSUME NEW c, NEW ok, Ends(c, ok) PROVE TryInv'
  BY <1>1 DEF Ends, TryInv, Idle, Trying
<1>2. ASSUME NEW i \in BOOLEAN, NEW v \in Volumes, SetVolume(i, v) PROVE TryInv'
  BY <1>2 DEF SetVolume, Begin, Idle, TryInv, Trying
<1>3. CASE \/ \E d \in All : Switch(d)
           \/ UseVirtual
  BY <1>3 DEF Switch, UseVirtual, Begin, Idle, TryInv, Trying
<1>4. CASE Aim
  <2>1. ASSUME NEW d, call' = [call EXCEPT !.at = "info", !.device = d] PROVE TryInv'
    BY <1>4, <2>1 DEF Aim, TryInv, Trying, CallInv
  <2>2. CASE AimAtBound
    BY <1>1, <1>4, <2>2 DEF Aim, AimAtBound, Goes, Changes, TryInv, Trying, CallInv
  <2> QED BY <1>1, <1>4, <2>1, <2>2 DEF Aim, findRunningDevice, Goes, Changes
<1>5. CASE Info
  <2>1. CASE /\ call' = [call EXCEPT !.at = "unmute"] /\ call.device \in plugged
             /\ MayHaveVolumeControl(call.device) /\ UNCHANGED <<world, binding, touched>>
    <3>1. CASE call.cmd # "volume"
      BY <2>1, <3>1 DEF TryInv, Trying, CallInv
    <3>2. CASE call.cmd = "volume"
      <4>1. call.device \in Physical /\ call.at = "info"
        BY <1>5, <3>2 DEF Info, CallInv
      <4>2. PhysicalReadings(call.device) # {Nothing}
        BY <2>1, <4>1 DEF MayHaveVolumeControl, Readings, Physical
      <4>3. Settable(call.device) \intersect {0, 1} # {}
        BY <4>1, <4>2 DEF PhysicalReadings, PlainDevices
      <4> QED BY <2>1, <3>2, <4>1, <4>3 DEF TryInv, Trying, CallInv, world
    <3> QED BY <3>1, <3>2
  <2> QED BY <1>1, <1>5, <2>1 DEF Info, Goes, Changes
<1>6. CASE Unmute
  <2>1. /\ call.at = "unmute" /\ UNCHANGED <<plugged, binding, touched>>
        /\ call'.at = "main" /\ call'.device = call.device /\ call'.bound = call.bound
        /\ call'.cmd = call.cmd
    BY <1>6 DEF Unmute, Goes, Changes, CallInv
  <2>2. call.device \in plugged /\ Kind[call.device].mute =>
          call.device \notin muted' \/ call'.refused
    BY <1>6 DEF Unmute, Goes, Changes, CallInv
  <2> QED BY <2>1, <2>2 DEF TryInv, Trying
<1>7. CASE SetMain
  <2>1. CASE Goes([Refusal(0) EXCEPT !.at = "channel", !.channel = 1])
    <3>1. /\ call.at = "main" /\ UNCHANGED <<plugged, binding, touched, muted>>
          /\ call'.at = "channel" /\ call'.device = call.device /\ call'.bound = call.bound
          /\ call'.cmd = call.cmd /\ call'.channel = 1
          /\ ~call'.refused => ~call.refused
          /\ ~call'.refused => ~(call.device \in plugged /\ 0 \in Settable(call.device))
      BY <1>7, <2>1 DEF SetMain, Goes, Changes, CallInv, Refusal
    <3> QED BY <3>1 DEF TryInv, Trying
  <2> QED BY <1>1, <1>7, <2>1 DEF SetMain
<1>8. CASE SetChannel
  <2>1. /\ call.at = "channel" /\ UNCHANGED <<plugged, binding, touched, muted>>
        /\ call'.at = "channel" /\ call'.device = call.device /\ call'.bound = call.bound
        /\ call'.cmd = call.cmd /\ call'.channel = call.channel + 1
        /\ call'.volume = call.volume
        /\ ~call'.refused => ~call.refused
    BY <1>8 DEF SetChannel, Goes, Changes, CallInv, Refusal
  <2>2. call.device \in All /\ call.channel \in Nat /\ call.channel # 0
    BY <2>1, ChannelsAreNat DEF CallInv, Trying
  <2>3. ASSUME call.cmd = "volume", ~touched, ~call'.refused
        PROVE  level'[call.device][1] = call.volume
    <3>1. ~call.refused /\ call.device \in plugged
          /\ 0 \notin Settable(call.device) /\ 1 \in Settable(call.device)
          /\ (call.channel > 1 => level[call.device][1] = call.volume)
      BY <2>1, <2>3 DEF TryInv, Trying
    <3>2. level[call.device] \in [Elements(call.device) -> Shown] /\ level = [d \in All |-> level[d]]
          /\ 1 \in Elements(call.device)
      BY <2>2, <3>1, DeviceControlAssumption DEF LevelsInv
    <3>3. CASE Takes(call.channel)
      BY <2>2, <3>1, <3>2, <3>3 DEF Takes
    <3>4. CASE call' = [Refusal(call.channel) EXCEPT !.channel = @ + 1] /\ UNCHANGED level
      <4>1. call.channel # 1
        BY <2>3, <3>1, <3>4 DEF Refusal, CallInv
      <4> QED BY <2>2, <3>1, <3>4, <4>1
    <3> QED BY <1>8, <3>3, <3>4 DEF SetChannel, Goes, Changes
  <2> QED BY <2>1, <2>3 DEF TryInv, Trying
<1>9. CASE AllChannelsTried \/ Verify
  BY <1>1, <1>9 DEF AllChannelsTried, Verify
<1>10. CASE ReadDevice
  <2>1. CASE Goes([call EXCEPT !.at = "activate"])
    BY <1>0, <2>1 DEF Goes, Changes, Trying, CallInv
  <2> QED BY <1>1, <1>10, <2>1 DEF ReadDevice
<1>11. CASE SetDefault
  <2>1. CASE Goes([call EXCEPT !.at = "verify"])
    BY <1>0, <2>1 DEF Goes, Changes, Trying, CallInv
  <2> QED BY <1>1, <1>11, <2>1 DEF SetDefault
<1>12. CASE Bind
  <2>1. ASSUME NEW v, Goes([call EXCEPT !.at = "over", !.volume = v]) PROVE TryInv'
    BY <1>0, <2>1 DEF Goes, Changes, Trying, CallInv
  <2> QED BY <1>1, <1>12, <2>1 DEF Bind
<1>over. CASE SwitchOver
  <2>1. CASE Goes([call EXCEPT !.at = "pass-on"])
    BY <1>0, <2>1 DEF Goes, Changes, Trying, CallInv
  <2> QED BY <1>1, <1>over, <2>1 DEF SwitchOver
<1>13. CASE PassOn
  BY <1>13 DEF PassOn, Goes, Changes, TryInv, Trying, CallInv
<1>14. ASSUME UNCHANGED <<call, binding>>, touched' = (call # Idle) PROVE TryInv'
  <2>1. CASE call = Idle
    BY <1>14, <2>1 DEF TryInv, Trying, Idle
  <2>2. CASE call # Idle
    <3>1. touched'
      BY <1>14, <2>2
    <3> QED BY <1>14, <3>1 DEF TryInv, Trying
  <2> QED BY <2>1, <2>2
<1>15. ASSUME NEW d \in All, NEW e \in Elements(d), NEW v \in Volumes, Turn(d, e, v)
       PROVE  TryInv'
  BY <1>14, <1>15 DEF Turn, Meddles, Disturbs
<1>16. ASSUME NEW d \in All,
              Mute(d) \/ Unplug(d) \/ Plug(d) \/ Play(d) \/ \E dir \in Directions : Pick(dir, d)
       PROVE  TryInv'
  BY <1>14, <1>16 DEF Mute, Unplug, Plug, Play, Pick, Meddles, Disturbs
<1>17. CASE TakeEffect \/ UNCHANGED vars
  BY <1>17 DEF TakeEffect, vars, world, hist, TryInv, Trying
<1> QED
  BY <1>2, <1>3, <1>4, <1>5, <1>6, <1>7, <1>8, <1>9, <1>10, <1>11, <1>12, <1>over, <1>13, <1>14, <1>15,
     <1>16, <1>17 DEF Next

\* When set has succeeded, what it wrote is what list shows.
LEMMA DoneInvStep ==
  WorldInv /\ LevelsInv /\ CallInv /\ LevelInv /\ TryInv /\ DoneInv /\ [Next]_vars => DoneInv'
<1> SUFFICES ASSUME WorldInv, LevelsInv, CallInv, LevelInv, TryInv, DoneInv, [Next]_vars
             PROVE  DoneInv'
  OBVIOUS
<1>0. ASSUME done'.cmd # "volume" PROVE DoneInv'
  BY <1>0 DEF DoneInv
<1>1. ASSUME UNCHANGED done, call.at # "idle" PROVE DoneInv'
  BY <1>0, <1>1 DEF LevelInv
<1>2. ASSUME NEW ok, Ends(call, ok), call.cmd # "volume" \/ ~ok PROVE DoneInv'
  BY <1>0, <1>2 DEF Ends, None
<1>3. ASSUME NEW new, Begin(new) PROVE DoneInv'
  BY <1>0, <1>3 DEF Begin, None
<1>4. CASE Aim \/ Info
  BY <1>1, <1>2, <1>4 DEF Aim, AimAtBound, findRunningDevice, Info, Goes, Changes
<1>5. CASE Unmute \/ SetChannel
  BY <1>1, <1>5 DEF Unmute, SetChannel, Goes, Changes
<1>6. ASSUME call.at \in {"main", "channel"}, Ends(call, TRUE), UNCHANGED <<plugged, muted, binding>>,
             call.cmd = "volume" /\ ~touched /\ ~call.refused =>
               \/ 0 \in Settable(call.device) /\ level'[call.device][0] = call.volume
               \/ /\ Settable(call.device) \intersect {0, 1} = {1}
                  /\ level'[call.device][1] = call.volume
      PROVE  DoneInv'
  <2>1. CASE ~(call.cmd = "volume" /\ ~touched /\ ~call.refused)
    BY <1>0, <1>6, <2>1 DEF Ends, None
  <2>2. CASE call.cmd = "volume" /\ ~touched /\ ~call.refused
    <3>1. done' = [cmd |-> "volume", device |-> call.device, volume |-> call.volume,
                   bound |-> call.bound]
      BY <1>6, <2>2 DEF Ends
    <3>2. /\ call.device \in Physical \intersect plugged
          /\ Settable(call.device) \intersect {0, 1} # {}
          /\ Kind[call.device].mute => call.device \notin muted
          /\ call.bound => call.device = binding
      BY <1>6, <2>2 DEF TryInv, CallInv, Trying
    <3>3. PhysicalVolume(done.device)' = done'.volume
      <4>1. CASE 0 \in Settable(call.device) /\ level'[call.device][0] = call.volume
        BY <3>1, <4>1 DEF PhysicalVolume, Settable
      <4>2. CASE /\ Settable(call.device) \intersect {0, 1} = {1}
                 /\ level'[call.device][1] = call.volume
        BY <3>1, <4>2 DEF PhysicalVolume, Settable
      <4> QED BY <1>6, <2>2, <4>1, <4>2
    <3> QED BY <1>6, <3>1, <3>2, <3>3 DEF DoneInv
  <2> QED BY <2>1, <2>2
<1>7. CASE SetMain
  <2>1. CASE Takes(0) /\ Ends(call, TRUE)
    <3>1. call.device \in All /\ 0 \in Elements(call.device) /\ 0 \in Settable(call.device)
      BY <1>7, <2>1, DeviceControlAssumption DEF SetMain, Takes, CallInv, Trying
    <3>2. level'[call.device][0] = call.volume
      BY <2>1, <3>1 DEF Takes, LevelsInv
    <3> QED BY <1>6, <1>7, <2>1, <3>1, <3>2 DEF SetMain
  <2> QED BY <1>1, <1>7, <2>1 DEF SetMain, Goes, Changes
<1>8. CASE AllChannelsTried
  <2>1. call.at = "channel" /\ call.channel > Channels(call.device)
        /\ UNCHANGED <<plugged, muted, binding, level>>
    BY <1>8 DEF AllChannelsTried, world
  <2>2. Channels(call.device) >= 1 /\ call.channel > 1
    <3>1. call.device \in All /\ call.channel \in Nat
      BY <2>1 DEF CallInv, Trying
    <3>2. /\ Kind[call.device].in \in Nat /\ Kind[call.device].out \in Nat
          /\ Kind[call.device].in > 0 \/ Kind[call.device].out > 0
      BY <3>1, DeviceControlAssumption
    <3>3. Channels(call.device) >= 1 /\ Channels(call.device) \in Nat
      BY <3>2 DEF Channels, IsInput
    <3> QED BY <2>1, <3>1, <3>3
  <2>3. CASE Ends(call, FALSE)
    BY <1>2, <2>3
  <2>4. CASE Ends(call, TRUE)
    <3>1. ASSUME call.cmd = "volume", ~touched, ~call.refused
          PROVE  /\ Settable(call.device) \intersect {0, 1} = {1}
                 /\ level'[call.device][1] = call.volume
      BY <2>1, <2>2, <3>1 DEF TryInv, Trying
    <3> QED BY <1>6, <2>1, <2>4, <3>1
  <2>5. call.success \/ call.status \in BOOLEAN
    BY DEF CallInv
  <2> QED BY <1>8, <2>3, <2>4, <2>5 DEF AllChannelsTried
<1>9. CASE ReadDevice \/ SetDefault \/ Verify \/ Bind \/ SwitchOver \/ PassOn
  BY <1>1, <1>2, <1>9 DEF ReadDevice, SetDefault, Verify, Bind, SwitchOver, PassOn, Goes, Changes, CallInv
<1>10. ASSUME NEW d, done' = IF done.device = d THEN None ELSE done,
              UNCHANGED binding,
              done.device # d => /\ done.device \in plugged => done.device \in plugged'
                                 /\ level'[done.device] = level[done.device]
                                 /\ done.device \in muted' => done.device \in muted
       PROVE  DoneInv'
  <2>1. CASE done' = None
    BY <1>0, <2>1 DEF None
  <2>2. CASE done' = done /\ done.device # d
    <3>1. PhysicalVolume(done.device)' = PhysicalVolume(done.device)
      BY <1>10, <2>2 DEF PhysicalVolume
    <3> QED BY <1>10, <2>2, <3>1 DEF DoneInv
  <2> QED BY <1>10, <2>1, <2>2
<1>11. ASSUME NEW d \in All, NEW e \in Elements(d), NEW v \in Volumes, Turn(d, e, v)
       PROVE  DoneInv'
  <2>1. done.device # d => level'[done.device] = level[done.device]
    BY <1>11 DEF Turn, LevelsInv
  <2> QED BY <1>10, <1>11, <2>1 DEF Turn, Meddles, Disturbs
<1>12. ASSUME NEW d \in All, Mute(d) PROVE DoneInv'
  BY <1>10, <1>12 DEF Mute, Meddles, Disturbs
<1>13. ASSUME NEW d \in All, Unplug(d) PROVE DoneInv'
  BY <1>10, <1>13 DEF Unplug, Meddles, Disturbs
<1>14. ASSUME NEW d \in All, Plug(d) PROVE DoneInv'
  BY <1>10, <1>14 DEF Plug, Disturbs
<1>15. ASSUME NEW d \in All, Play(d) PROVE DoneInv'
  BY <1>10, <1>15 DEF Play, Meddles, Disturbs
<1>16. ASSUME NEW d \in All, NEW dir \in Directions, Pick(dir, d) PROVE DoneInv'
  BY <1>10, <1>16 DEF Pick, Meddles, Disturbs
<1>17. CASE TakeEffect \/ UNCHANGED vars
  BY <1>17 DEF TakeEffect, vars, world, hist, DoneInv, PhysicalVolume
<1> QED
  BY <1>3, <1>4, <1>5, <1>7, <1>8, <1>9, <1>11, <1>12, <1>13, <1>14, <1>15, <1>16, <1>17
     DEF Next, SetVolume, Switch, UseVirtual

\* Where each device that shows a volume lets one set its main volume or its
\* first channel's, a volume command that succeeded, and was refused nothing on
\* the way, is what list reads (audio_control.c:160, :626), whatever other
\* devices do, and whether the command was for the device itself or for the
\* virtual one in front of it.
THEOREM WhatIsSetIsRead == PlainDevices /\ Spec => []ReadBack
<1> SUFFICES ASSUME PlainDevices PROVE Spec => []ReadBack
  OBVIOUS
<1>1. WorldInv /\ LevelsInv /\ CallInv /\ LevelInv /\ TryInv /\ DoneInv /\ [Next]_vars
        => (TryInv /\ DoneInv)'
  BY TryInvStep, DoneInvStep
<1>2. DoneInv => ReadBack
  <2> SUFFICES ASSUME DoneInv, done.cmd = "volume" PROVE ReadBack
    BY DEF ReadBack
  <2>1. done.device \in Physical \intersect plugged /\ VolumeInfo(done.device) = done.volume
    BY DEF DoneInv, VolumeInfo, Physical
  <2>2. done.bound /\ ~IsInput(binding) => VolumeInfo(Virtual) = done.volume
    BY <2>1 DEF DoneInv, VolumeInfo
  <2> QED BY <2>1, <2>2 DEF DoneInv, ReadBack
<1> QED BY <1>1, <1>2, InitInv, InvAlways, PTL DEF Spec

=============================================================================
