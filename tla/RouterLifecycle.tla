-------------------------- MODULE RouterLifecycle ---------------------------
(***************************************************************************)
(* Starting and stopping the router of src/audio_router.c.  The caller     *)
(* runs audio_router_start_with_volume and audio_router_stop one step at a *)
(* time; the HAL runs the two IO callbacks on threads of their own while   *)
(* their procs are started; the monitor thread runs until it is told to    *)
(* end.  is_running, g_monitor_running and the buffer pointer are plain    *)
(* memory all of them read.                                                *)
(*                                                                         *)
(* The HAL is external: AudioDeviceStop keeps it from entering a callback  *)
(* and returns when the one under way has returned.                        *)
(*                                                                         *)
(* Init, Next, Spec and TypeOK begin with Life here and the buffer is the  *)
(* allocation, so that one module can extend this one and RouterRing.      *)
(***************************************************************************)
EXTENDS Integers

CONSTANT Volumes   \* physical volumes in percent a caller may pass

ASSUME VolumesAssumption == Volumes \subseteq 0..100

\* The input callback, on the virtual device, and the output one, on the
\* physical device.
Dirs == {"in", "out"}

VARIABLES
  is_running, allocation, output_gain,         \* g_router; ring_buffer.buffer
  g_monitor_running, g_monitor_thread,
  procs,     \* external: IO procs created
  started,   \* external: IO procs the HAL may call
  at,        \* where the caller is
  volume,    \* its argument
  callback,  \* where each callback is
  monitor,   \* where the monitor thread is
  heard      \* history: the gain of the last block of this session

router == <<is_running, allocation, output_gain>>
flags  == <<g_monitor_running, g_monitor_thread>>
hal    == <<procs, started>>

lifeVars == <<router, flags, hal, at, volume, callback, monitor, heard>>

Unity == 100
None == -1

LifeInit ==
  /\ is_running = FALSE /\ allocation = "NULL" /\ output_gain = 0
  /\ g_monitor_running = FALSE /\ g_monitor_thread = FALSE
  /\ procs = {} /\ started = {}
  /\ at = "idle" /\ volume = None
  /\ callback = [d \in Dirs |-> "out"]
  /\ monitor = "none"
  /\ heard = None

\* A volume the router takes for its gain.
Compensates(v) == v > 0 /\ v <= Unity

-----------------------------------------------------------------------------
(* audio_router_start_with_volume                                           *)

\* Already running: audio_router_start returns at once with noErr, and the
\* gain follows.
StartAgain(v) ==
  /\ at = "idle" /\ is_running
  /\ output_gain' = IF Compensates(v) THEN v ELSE output_gain
  /\ UNCHANGED <<is_running, allocation, flags, hal, at, volume, callback, monitor, heard>>

\* Both devices were found; the lookups that fail change nothing.
Start(v) ==
  /\ at = "idle" /\ ~is_running
  /\ at' = "alloc"
  /\ volume' = v
  /\ heard' = None
  /\ UNCHANGED <<router, flags, hal, callback, monitor>>

\* An allocation that fails leaves NULL and the start goes on.
InitRing ==
  /\ at = "alloc"
  /\ allocation' \in {"allocated", "NULL"}
  /\ output_gain' = Unity
  /\ at' = "create in"
  /\ UNCHANGED <<is_running, flags, hal, volume, callback, monitor, heard>>

CreateFirst ==
  /\ at = "create in"
  /\ \/ /\ procs' = procs \union {"in"}
        /\ at' = "create out"
        /\ UNCHANGED allocation
     \/ /\ allocation' = "NULL"
        /\ at' = "idle"
        /\ UNCHANGED procs
  /\ UNCHANGED <<is_running, output_gain, flags, started, volume, callback,
                 monitor, heard>>

CreateSecondLeavingFirst ==
  /\ at = "create out"
  /\ \/ /\ procs' = procs \union {"out"}
        /\ at' = "start in"
        /\ UNCHANGED allocation
     \/ /\ allocation' = "NULL"
        /\ at' = "idle"
        /\ UNCHANGED procs
  /\ UNCHANGED <<is_running, output_gain, flags, started, volume, callback,
                 monitor, heard>>
CreateSecond ==
  /\ at = "create out"
  /\ \/ /\ procs' = procs \union {"out"}
        /\ at' = "start in"
        /\ UNCHANGED allocation
     \/ /\ procs' = procs \ {"in"}
        /\ allocation' = "NULL"
        /\ at' = "idle"
  /\ UNCHANGED <<is_running, output_gain, flags, started, volume, callback,
                 monitor, heard>>

\* AudioDeviceStart succeeds, or the start goes on at `unwind`.
StartProc(d, here, next, unwind) ==
  /\ at = here
  /\ \/ /\ started' = started \union {d}
        /\ at' = next
     \/ /\ at' = unwind
        /\ UNCHANGED started
  /\ UNCHANGED <<router, flags, procs, volume, callback, monitor, heard>>

StartIn  == StartProc("in", "start in", "start out", "cleanup")
StartOutKeepingIn == StartProc("out", "start out", "run", "cleanup")
StartOut == StartProc("out", "start out", "run", "halt in")

Run ==
  /\ at = "run"
  /\ is_running' = TRUE
  /\ at' = "monitor"
  /\ UNCHANGED <<allocation, output_gain, flags, hal, volume, callback, monitor, heard>>

\* start_monitor_thread: without a thread the router runs on unmonitored.
StartMonitor ==
  /\ at = "monitor"
  /\ \E created \in BOOLEAN :
       /\ g_monitor_running' = created
       /\ g_monitor_thread' = (created \/ g_monitor_thread)
       /\ monitor' = IF created THEN "loop" ELSE monitor
  /\ at' = "gain"
  /\ UNCHANGED <<router, hal, volume, callback, heard>>

\* Only now does the router take the volume it was started with.
SetGain ==
  /\ at = "gain"
  /\ output_gain' = IF Compensates(volume) THEN volume ELSE output_gain
  /\ at' = "idle"
  /\ UNCHANGED <<is_running, allocation, flags, hal, volume, callback, monitor, heard>>

-----------------------------------------------------------------------------
(* audio_router_stop, and the end of a start that failed                    *)

Stop ==
  /\ at = "idle" /\ is_running
  /\ is_running' = FALSE
  /\ at' = "flag"
  /\ UNCHANGED <<allocation, output_gain, flags, hal, volume, callback, monitor, heard>>

\* stop_monitor_thread
LowerFlag ==
  /\ at = "flag"
  /\ g_monitor_running' = FALSE
  /\ at' = "join"
  /\ UNCHANGED <<router, g_monitor_thread, hal, volume, callback, monitor, heard>>

JoinWithoutHalt ==
  /\ at = "join"
  /\ g_monitor_thread => monitor = "ended"
  /\ g_monitor_thread' = FALSE
  /\ monitor' = IF g_monitor_thread THEN "none" ELSE monitor
  /\ at' = "cleanup"
  /\ UNCHANGED <<router, g_monitor_running, hal, volume, callback, heard>>
Join ==
  /\ at = "join"
  /\ g_monitor_thread => monitor = "ended"
  /\ g_monitor_thread' = FALSE
  /\ monitor' = IF g_monitor_thread THEN "none" ELSE monitor
  /\ at' = "halt out"
  /\ UNCHANGED <<router, g_monitor_running, hal, volume, callback, heard>>

\* AudioDeviceStop: no new callback, then wait for the one under way; the
\* output side first.
Halting == [in |-> "halt in", out |-> "halt out"]
Waiting == [in |-> "wait in", out |-> "wait out"]

Halt(d) ==
  /\ at = Halting[d]
  /\ started' = started \ {d}
  /\ at' = Waiting[d]
  /\ UNCHANGED <<router, flags, procs, volume, callback, monitor, heard>>

Halted(d) ==
  /\ at = Waiting[d]
  /\ callback[d] = "out"
  /\ at' = IF d = "out" THEN "halt in" ELSE "cleanup"
  /\ UNCHANGED <<router, flags, hal, volume, callback, monitor, heard>>

DestroyProcs ==
  /\ at = "cleanup"
  /\ procs' = {}
  /\ at' = "free"
  /\ UNCHANGED <<router, flags, started, volume, callback, monitor, heard>>

FreeRing ==
  /\ at = "free"
  /\ allocation' = "NULL"
  /\ at' = "idle"
  /\ UNCHANGED <<is_running, output_gain, flags, hal, volume, callback, monitor, heard>>

-----------------------------------------------------------------------------
(* The callbacks                                                            *)

Step(d, from, to) ==
  /\ callback[d] = from
  /\ callback' = [callback EXCEPT ![d] = to]
  /\ UNCHANGED <<router, flags, hal, at, volume, monitor>>

\* The HAL calls; a call with no buffer to work on returns and is left out.
Enter(d) == d \in started /\ Step(d, "out", "entered") /\ UNCHANGED heard

CheckRunning(d) ==
  /\ Step(d, "entered", IF is_running THEN "running" ELSE "out")
  /\ UNCHANGED heard

\* rb_write and rb_read return at once when there is no buffer.
CheckBuffer(d) ==
  /\ Step(d, "running", IF allocation # "NULL" THEN "copy"
                        ELSE IF d = "in" THEN "out" ELSE "gain")
  /\ UNCHANGED heard

Copied(d) ==
  /\ Step(d, "copy", IF d = "in" THEN "out" ELSE "gain")
  /\ UNCHANGED heard

\* Outside (0, 1) the block keeps its level.
ApplyGain ==
  /\ Step("out", "gain", "out")
  /\ heard' = IF Compensates(output_gain) THEN output_gain ELSE Unity

-----------------------------------------------------------------------------
(* monitor_thread_func                                                      *)

LoopForever == TRUE
KeepsMonitoring == g_monitor_running /\ is_running

\* The loop's test, then the sleep and the report.
MonitorTest ==
  /\ monitor = "loop"
  /\ monitor' = IF KeepsMonitoring THEN "sleep" ELSE "ended"
  /\ UNCHANGED <<router, flags, hal, at, volume, callback, heard>>

MonitorReport ==
  /\ monitor = "sleep"
  /\ monitor' = "loop"
  /\ UNCHANGED <<router, flags, hal, at, volume, callback, heard>>

-----------------------------------------------------------------------------
\* A step of a start or a stop that is under way.
Proceed ==
  \/ InitRing \/ CreateFirst \/ CreateSecond \/ StartIn \/ StartOut
  \/ Run \/ StartMonitor \/ SetGain
  \/ LowerFlag \/ Join \/ DestroyProcs \/ FreeRing
  \/ \E d \in Dirs : Halt(d) \/ Halted(d)

CallbackStep(d) ==
  CheckRunning(d) \/ CheckBuffer(d) \/ Copied(d) \/ (d = "out" /\ ApplyGain)

MonitorStep == MonitorTest \/ MonitorReport

LifeNext ==
  \/ \E v \in Volumes : Start(v) \/ StartAgain(v)
  \/ Stop
  \/ Proceed
  \/ \E d \in Dirs : Enter(d) \/ CallbackStep(d)
  \/ MonitorStep

\* A caller inside start or stop goes on, a callback under way returns, and
\* the monitor's sleep ends.  Nobody has to start, stop or call.
LifeFairness ==
  /\ WF_lifeVars(Proceed)
  /\ \A d \in Dirs : WF_lifeVars(CallbackStep(d))
  /\ WF_lifeVars(MonitorStep)

LifeSpec == LifeInit /\ [][LifeNext]_lifeVars /\ LifeFairness

-----------------------------------------------------------------------------
(* Properties                                                               *)

Stages ==
  {"idle", "alloc", "create in", "create out", "start in", "start out", "run",
   "monitor", "gain", "flag", "join", "halt out", "wait out", "halt in",
   "wait in", "cleanup", "free"}

\* The state is well formed.
LifeTypeOK ==
  /\ is_running \in BOOLEAN /\ allocation \in {"allocated", "NULL"}
  /\ output_gain \in Volumes \union {0, Unity}
  /\ g_monitor_running \in BOOLEAN /\ g_monitor_thread \in BOOLEAN
  /\ started \subseteq procs /\ procs \subseteq Dirs
  /\ at \in Stages
  /\ volume \in Volumes \union {None}
  /\ callback \in [Dirs -> {"out", "entered", "running", "copy", "gain"}]
  /\ monitor \in {"none", "loop", "sleep", "ended"}
  /\ heard \in 0..Unity \union {None}

\* A callback that copies has its buffer, whatever the caller is tearing
\* down meanwhile: rb_destroy frees what rb_write and rb_read use.
NoUseAfterFree == \A d \in Dirs : callback[d] = "copy" => allocation = "allocated"

\* Every way out of start and stop, through each step that can fail, leaves
\* either a whole router or nothing at all: no proc created or called, no
\* buffer leaked by the next rb_init, no monitor thread left behind.
AllOrNothing ==
  at = "idle" =>
    IF is_running
    THEN procs = Dirs /\ started = Dirs
    ELSE /\ procs = {} /\ allocation = "NULL"
         /\ monitor = "none" /\ ~g_monitor_thread
         /\ \A d \in Dirs : callback[d] = "out"

\* A start or stop under way returns: the join ends because the monitor sees
\* one of its flags, the halts because callbacks return.
CallsReturn == at # "idle" ~> at = "idle"

\* From its first block on, a session plays no louder than the volume it was
\* started with: the gain is there to keep the sound from rising suddenly
\* (audio_router.h:60-61, audio_router.c:299-300).
NeverLouderThanStarted ==
  /\ at \in {"monitor", "gain"} /\ allocation = "allocated"
  /\ heard # None /\ Compensates(volume)
  => heard <= volume

=============================================================================
