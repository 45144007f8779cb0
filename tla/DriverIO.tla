------------------------------ MODULE DriverIO -------------------------------
(***************************************************************************)
(* The IO side of src/driver/virtual_audio_driver.c: StartIO and StopIO    *)
(* with the counter that elects the first and the last client, the shared  *)
(* loopback buffer that WriteMix fills and ReadInput empties, and the      *)
(* clock that GetZeroTimeStamp reads.  Every atomic load and store is a    *)
(* step; so is every sample copied.  One sample stands for a frame and one *)
(* host tick for its duration.                                             *)
(*                                                                         *)
(* The host (coreaudiod) is external.  It runs an operation only for a     *)
(* client whose StartIO has returned and ends it before it calls that      *)
(* client's StopIO; it mixes all output into one WriteMix at a time, and   *)
(* calls ReadInput for every client that records, on a thread of its own.  *)
(* Two more things are asked of it or not, as the constants say: that it   *)
(* serialises StartIO and StopIO, and that the recording side keeps up.    *)
(***************************************************************************)
EXTENDS Integers, Sequences, FiniteSets

CONSTANTS
  Clients,     \* the clients of the device
  Readers,     \* those that record: routers
  Size,        \* samples in gLoopbackBuffer
  Blocks,      \* sample counts of an operation
  Serialized,  \* the host makes one StartIO or StopIO at a time
  Lead,        \* the host keeps the writer at most Lead samples ahead
  MaxSamples,  \* bound: samples written
  MaxSeed,     \* bound: sessions, two seeds each
  MaxNow       \* bound: host time

ASSUME DriverIOAssumption ==
  /\ IsFiniteSet(Clients) /\ Readers \subseteq Clients
  /\ Size \in Nat \ {0} /\ Blocks \subseteq Nat \ {0}
  /\ Serialized \in BOOLEAN /\ Lead \in Nat
  /\ MaxSamples \in Nat /\ MaxSeed \in Nat \ {0} /\ MaxNow \in Nat

VARIABLES
  ioRunning, frameCount, anchor, seed,     \* gDevice_IOIsRunning, ..., gZTS_Seed
  loopback, writePos, readPos,             \* gLoopbackBuffer and its positions
  now,       \* external: mach_absolute_time
  io,        \* where each client's StartIO or StopIO is
  mix,       \* the WriteMix under way
  read,      \* the ReadInput under way for each client
  stamp,     \* the GetZeroTimeStamp under way
  produced,  \* history: samples published by WriteMix
  base,      \* history: samples published before this session
  got,       \* history: samples each client was given in this session
  returned   \* history: the last time stamp returned

clock   == <<frameCount, anchor, seed>>
buffers == <<loopback, writePos, readPos>>
ops     == <<mix, read, stamp>>
hist    == <<produced, base, got, returned>>
vars    == <<ioRunning, clock, buffers, now, io, ops, hist>>

Silence == 0
Idle == [at |-> "idle", block |-> 0, pos |-> 0, done |-> 0]
NoStamp == [frames |-> 0, host |-> 0, seed |-> 0]

Init ==
  /\ ioRunning = 0 /\ frameCount = 0 /\ anchor = 0 /\ seed = 1
  /\ loopback = [s \in 0..(Size - 1) |-> Silence] /\ writePos = 0 /\ readPos = 0
  /\ now = 0
  /\ io = [c \in Clients |-> "off"]
  /\ mix = Idle
  /\ read = [c \in Clients |-> Idle]
  /\ stamp = [at |-> "idle", anchor |-> 0, frames |-> 0]
  /\ produced = 0 /\ base = 0
  /\ got = [c \in Clients |-> <<>>]
  /\ returned = NoStamp

On == {c \in Clients : io[c] = "on"}

\* The host starts and stops one client at a time, if it serialises.
HostFree(c) == Serialized => \A d \in Clients \ {c} : io[d] \in {"off", "on"}

-----------------------------------------------------------------------------
(* VirtualAudioDriver_StartIO                                               *)

FirstAlways == TRUE
First == ioRunning = 0

\* The counter's old value elects the client that restarts the clock.
StartIO(c) ==
  /\ io[c] = "off" /\ HostFree(c)
  /\ ioRunning = 0 => seed + 2 <= MaxSeed
  /\ ioRunning' = ioRunning + 1
  /\ io' = [io EXCEPT ![c] = IF First THEN "start_frames" ELSE "on"]
  /\ IF ioRunning = 0
     THEN base' = produced /\ got' = [d \in Clients |-> <<>>]
     ELSE UNCHANGED <<base, got>>
  /\ UNCHANGED <<clock, buffers, now, ops, produced, returned>>

ResetFrames(c) ==
  /\ io[c] = "start_frames"
  /\ frameCount' = 0
  /\ io' = [io EXCEPT ![c] = "start_anchor"]
  /\ UNCHANGED <<ioRunning, anchor, seed, buffers, now, ops, hist>>

SetAnchor(c) ==
  /\ io[c] = "start_anchor"
  /\ anchor' = now
  /\ io' = [io EXCEPT ![c] = "start_seed"]
  /\ UNCHANGED <<ioRunning, frameCount, seed, buffers, now, ops, hist>>

\* A new seed tells the host to look at the clock afresh.
NewSeed(c) ==
  /\ io[c] \in {"start_seed", "stop_seed"}
  /\ seed' = seed + 1
  /\ io' = [io EXCEPT ![c] = IF @ = "start_seed" THEN "on" ELSE "off"]
  /\ UNCHANGED <<ioRunning, frameCount, anchor, buffers, now, ops, hist>>

-----------------------------------------------------------------------------
(* VirtualAudioDriver_StopIO                                                *)

LastOfTwo == ioRunning <= 2
LastNever == FALSE
Last == ioRunning = 1

\* The counter's old value elects the client that clears the buffer.
StopIO(c) ==
  /\ io[c] = "on" /\ HostFree(c)
  /\ read[c] = Idle
  /\ On = {c} => mix = Idle /\ stamp.at = "idle"
  /\ ioRunning' = ioRunning - 1
  /\ io' = [io EXCEPT ![c] = IF Last THEN "stop_write" ELSE "off"]
  /\ UNCHANGED <<clock, buffers, now, ops, hist>>

ResetWritePos(c) ==
  /\ io[c] = "stop_write"
  /\ writePos' = 0
  /\ io' = [io EXCEPT ![c] = "stop_read"]
  /\ UNCHANGED <<ioRunning, clock, loopback, readPos, now, ops, hist>>

ResetReadPos(c) ==
  /\ io[c] = "stop_read"
  /\ readPos' = 0
  /\ io' = [io EXCEPT ![c] = "stop_clear"]
  /\ UNCHANGED <<ioRunning, clock, loopback, writePos, now, ops, hist>>

Clear(c) ==
  /\ io[c] = "stop_clear"
  /\ loopback' = [s \in 0..(Size - 1) |-> Silence]
  /\ io' = [io EXCEPT ![c] = "stop_seed"]
  /\ UNCHANGED <<ioRunning, clock, writePos, readPos, now, ops, hist>>

-----------------------------------------------------------------------------
(* VirtualAudioDriver_DoIOOperation                                         *)

NextPosUnwrapped(p) == p + 1
NextPos(p) == (p + 1) % Size

Unread(c) == produced - (base + Len(got[c]))

\* WriteMix looks at no one's position but its own.
WriteMix(n) ==
  /\ mix = Idle /\ On # {}
  /\ produced + n <= MaxSamples
  /\ \A c \in Readers : Unread(c) + n <= Lead
  /\ mix' = [at |-> "copy", block |-> n, pos |-> writePos, done |-> 0]
  /\ UNCHANGED <<ioRunning, clock, buffers, now, io, read, stamp, hist>>

WriteSample ==
  /\ mix.at = "copy" /\ mix.done < mix.block
  /\ loopback' = [loopback EXCEPT ![mix.pos] = produced + mix.done + 1]
  /\ mix' = [mix EXCEPT !.pos = NextPos(@), !.done = @ + 1]
  /\ UNCHANGED <<ioRunning, clock, writePos, readPos, now, io, read, stamp, hist>>

PublishMix ==
  /\ mix.at = "copy" /\ mix.done = mix.block
  /\ writePos' = mix.pos
  /\ produced' = produced + mix.block
  /\ mix' = [mix EXCEPT !.at = "advance"]
  /\ UNCHANGED <<ioRunning, clock, loopback, readPos, now, io, read, stamp,
                 base, got, returned>>

\* Time goes on only as sound is written.
AdvanceFrames ==
  /\ mix.at = "advance"
  /\ frameCount' = frameCount + mix.block
  /\ mix' = Idle
  /\ UNCHANGED <<ioRunning, anchor, seed, buffers, now, io, read, stamp, hist>>

Available(w, r) == IF w >= r THEN w - r ELSE Size - r + w

\* ReadInput loads the position all readers share...
ReadInput(c, n) ==
  /\ c \in Readers /\ io[c] = "on" /\ read[c] = Idle
  /\ read' = [read EXCEPT ![c] =
       [at |-> "loaded", block |-> n, pos |-> readPos, done |-> 0]]
  /\ UNCHANGED <<ioRunning, clock, buffers, now, io, mix, stamp, hist>>

\* ... and then the writer's; less than the whole block is silence.
LoadWritePos(c) ==
  /\ read[c].at = "loaded"
  /\ read' = [read EXCEPT ![c] =
       IF Available(writePos, @.pos) >= @.block THEN [@ EXCEPT !.at = "copy"]
       ELSE Idle]
  /\ UNCHANGED <<ioRunning, clock, buffers, now, io, mix, stamp, hist>>

ReadSample(c) ==
  /\ read[c].at = "copy" /\ read[c].done < read[c].block
  /\ got' = [got EXCEPT ![c] = Append(@, loopback[read[c].pos])]
  /\ read' = [read EXCEPT ![c].pos = NextPos(@), ![c].done = @ + 1]
  /\ UNCHANGED <<ioRunning, clock, buffers, now, io, mix, stamp, produced, base,
                 returned>>

PublishRead(c) ==
  /\ read[c].at = "copy" /\ read[c].done = read[c].block
  /\ readPos' = read[c].pos
  /\ read' = [read EXCEPT ![c] = Idle]
  /\ UNCHANGED <<ioRunning, clock, loopback, writePos, now, io, mix, stamp, hist>>

-----------------------------------------------------------------------------
(* VirtualAudioDriver_GetZeroTimeStamp                                      *)

LoadAnchor ==
  /\ stamp.at = "idle" /\ On # {}
  /\ stamp' = [stamp EXCEPT !.at = "frames", !.anchor = anchor]
  /\ UNCHANGED <<ioRunning, clock, buffers, now, io, mix, read, hist>>

LoadFrames ==
  /\ stamp.at = "frames"
  /\ stamp' = [stamp EXCEPT !.at = "seed", !.frames = frameCount]
  /\ UNCHANGED <<ioRunning, clock, buffers, now, io, mix, read, hist>>

ReturnStamp ==
  /\ stamp.at = "seed"
  /\ returned' = [frames |-> stamp.frames, host |-> stamp.anchor + stamp.frames,
                  seed |-> seed]
  /\ stamp' = [at |-> "idle", anchor |-> 0, frames |-> 0]
  /\ UNCHANGED <<ioRunning, clock, buffers, now, io, mix, read, produced, base, got>>

Tick ==
  /\ now < MaxNow
  /\ now' = now + 1
  /\ UNCHANGED <<ioRunning, clock, buffers, io, ops, hist>>

-----------------------------------------------------------------------------
StartStep(c) == ResetFrames(c) \/ SetAnchor(c) \/ NewSeed(c)
StopStep(c)  == ResetWritePos(c) \/ ResetReadPos(c) \/ Clear(c)
MixStep      == WriteSample \/ PublishMix \/ AdvanceFrames
ReadStep(c)  == LoadWritePos(c) \/ ReadSample(c) \/ PublishRead(c)

Next ==
  \/ \E c \in Clients : StartIO(c) \/ StopIO(c) \/ StartStep(c) \/ StopStep(c)
  \/ \E n \in Blocks : WriteMix(n)
  \/ MixStep
  \/ \E c \in Clients, n \in Blocks : ReadInput(c, n)
  \/ \E c \in Clients : ReadStep(c)
  \/ LoadAnchor \/ LoadFrames \/ ReturnStamp
  \/ Tick

Spec == Init /\ [][Next]_vars

-----------------------------------------------------------------------------
(* Properties                                                               *)

Operation(ats) ==
  [at : ats, block : Blocks \union {0}, pos : 0..(Size - 1), done : Nat]

\* The state is well formed: the counter never goes below zero and the
\* positions stay inside the buffer.
TypeOK ==
  /\ ioRunning \in 0..Cardinality(Clients)
  /\ frameCount \in Nat /\ anchor \in 0..MaxNow /\ seed \in 1..MaxSeed
  /\ loopback \in [0..(Size - 1) -> 0..MaxSamples]
  /\ writePos \in 0..(Size - 1) /\ readPos \in 0..(Size - 1)
  /\ now \in 0..MaxNow
  /\ io \in [Clients -> {"off", "start_frames", "start_anchor", "start_seed", "on",
                         "stop_write", "stop_read", "stop_clear", "stop_seed"}]
  /\ mix \in Operation({"idle", "copy", "advance"})
  /\ read \in [Clients -> Operation({"idle", "loaded", "copy"})]
  /\ stamp \in [at : {"idle", "frames", "seed"}, anchor : 0..MaxNow, frames : Nat]
  /\ produced \in 0..MaxSamples /\ base \in 0..produced
  /\ got \in [Clients -> Seq(0..MaxSamples)]
  /\ returned \in [frames : Nat, host : Nat, seed : 0..MaxSeed]

\* What a recording client is given is what was written in this session, from
\* its start, in order, with nothing lost, repeated, overtaken or left over
\* from the session before.
ReaderGetsStream ==
  \A c \in Readers : got[c] = [i \in 1..Len(got[c]) |-> base + i]

\* While the last client clears the buffer all IO has stopped
\* (virtual_audio_driver.c:316).
ClearedInQuiet ==
  \A c \in Clients : io[c] \in {"stop_write", "stop_read", "stop_clear"} =>
    On = {} /\ mix = Idle /\ \A d \in Clients : read[d] = Idle

\* Two time stamps with one seed lie on one line: the host time between them
\* is the time their samples take, and neither goes back
\* (virtual_audio_driver.c:361-363).
StampsMatch ==
  [][ returned'.seed = returned.seed =>
        /\ returned'.frames >= returned.frames
        /\ returned'.host - returned.host = returned'.frames - returned.frames
    ]_returned

\* A sample no one has recorded yet is not overwritten (decisions.md:147:
\* new data that would catch up with the read position is discarded).
UnreadKept ==
  On # {} => \A c \in Readers : \A k \in (base + Len(got[c]) + 1)..produced :
    loopback[(k - base - 1) % Size] = k

\* No recording client is given a sample twice, or an older one after a newer
\* (decisions.md:317: one producer and one consumer).
NoSampleTwice ==
  \A c \in Readers : \A i \in 1..(Len(got[c]) - 1) : got[c][i] < got[c][i + 1]

=============================================================================
