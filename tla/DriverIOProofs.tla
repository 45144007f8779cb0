--------------------------- MODULE DriverIOProofs ----------------------------
(***************************************************************************)
(* For any clients, buffer, blocks and bounds: under a host that makes one *)
(* StartIO or StopIO at a time (Serialized) the buffer is cleared in quiet *)
(* and the time stamps of one seed lie on one line; a router that is alone *)
(* (OneReader) and keeps up (KeepsUp) is given exactly what is played.     *)
(***************************************************************************)
EXTENDS DriverIO, FiniteSetTheorems, TLAPS

\* One client records, and it keeps within a buffer of what is played.
OneReader == \A c, d \in Readers : c = d
KeepsUp   == Lead < Size

Starting(c) == io[c] \in {"start_frames", "start_anchor", "start_seed"}
Stopping(c) == io[c] \in {"stop_write", "stop_read", "stop_clear", "stop_seed"}

\* The clients the counter counts.
Counted == {c \in Clients : io[c] = "on" \/ Starting(c)}

\* One client at most starts or stops the clock, and then no other is on; IO
\* runs only while one is on.
QuietInv ==
  /\ ioRunning = Cardinality(Counted)
  /\ \A c, d \in Clients : io[c] \notin {"off", "on"} /\ io[d] \notin {"off", "on"} => c = d
  /\ (\E c \in Clients : io[c] \notin {"off", "on"}) => On = {}
  /\ On = {} => mix = Idle /\ stamp.at = "idle"
  /\ \A c \in Clients : read[c] # Idle => c \in Readers /\ io[c] = "on"

\* A session that began can end: there are seeds left for it.
SeedInv ==
  /\ \A c \in Clients : io[c] # "off" => seed < MaxSeed
  /\ \A c \in Clients : Starting(c) => seed + 1 < MaxSeed

\* What WriteMix established before it copies.
RoomInv == mix.at = "copy" => mix.done <= mix.block /\ produced + mix.block <= MaxSamples

IOInv == TypeOK /\ QuietInv /\ SeedInv /\ RoomInv

\* The last time stamp is of this session and on its line, or of an earlier one.
StampInv ==
  /\ returned.seed <= seed
  /\ On = {} /\ (\A c \in Clients : ~Stopping(c)) => returned.seed < seed
  /\ On # {} =>
       /\ returned.seed = seed =>
            returned.host = anchor + returned.frames /\ returned.frames <= frameCount
       /\ stamp.at # "idle" => stamp.anchor = anchor
       /\ stamp.at = "seed" =>
            /\ stamp.frames <= frameCount
            /\ returned.seed = seed => returned.frames <= stamp.frames

\* A position is the number of samples of this session that passed it.
PositionsInv ==
  /\ Counted # {} =>
       /\ writePos = (produced - base) % Size
       /\ mix.at = "copy" => mix.pos = ((produced - base) + mix.done) % Size
       /\ \A c \in Readers :
            /\ read[c].at # "copy" => readPos = Len(got[c]) % Size
            /\ read[c].at # "idle" => read[c].pos = Len(got[c]) % Size
  /\ (\A c \in Clients : io[c] \in {"off", "stop_clear", "stop_seed"}) =>
       writePos = 0 /\ readPos = 0
  /\ \A c \in Clients : io[c] = "stop_read" => writePos = 0

\* The reader is less than a buffer behind, and there is as much to read as it
\* found.
LagInv ==
  Counted # {} => \A c \in Readers :
    /\ Len(got[c]) <= produced - base
    /\ Unread(c) + (IF mix.at = "copy" THEN mix.block ELSE 0) <= Lead
    /\ read[c].at = "loaded" => read[c].done = 0
    /\ read[c].at = "copy" =>
         /\ read[c].done <= read[c].block
         /\ read[c].block - read[c].done <= Unread(c)

\* What is written and not read is in its slot.
SlotsInv ==
  Counted # {} => \A c \in Readers :
    \A k \in (base + Len(got[c]) + 1)..(produced + (IF mix.at = "copy" THEN mix.done ELSE 0)) :
      loopback[(k - base - 1) % Size] = k

StreamInv == PositionsInv /\ LagInv /\ SlotsInv /\ ReaderGetsStream

-----------------------------------------------------------------------------
(* The counter and who is on                                                *)

IoStates == {"off", "start_frames", "start_anchor", "start_seed", "on",
             "stop_write", "stop_read", "stop_clear", "stop_seed"}

\* The types the steps use, one by one.
LEMMA Types ==
  ASSUME TypeOK
  PROVE  /\ ioRunning \in Nat /\ Cardinality(Clients) \in Nat
         /\ seed \in Nat /\ seed >= 1 /\ seed <= MaxSeed /\ MaxSeed \in Nat
         /\ io \in [Clients -> IoStates]
<1>1. Cardinality(Clients) \in Nat
  BY FS_CardinalityType, DriverIOAssumption
<1> QED BY <1>1, DriverIOAssumption DEF TypeOK, IoStates

Still == UNCHANGED <<io, ioRunning, seed>>

LEMMA CountedFinite == IsFiniteSet(Counted) /\ Cardinality(Counted) <= Cardinality(Clients)
<1>1. Counted \in SUBSET Clients
  BY DEF Counted
<1> QED BY <1>1, FS_Subset, DriverIOAssumption

\* The counter is zero exactly if no client is counted.
LEMMA ZeroIsNone == ASSUME QuietInv PROVE ioRunning = 0 <=> Counted = {}
BY CountedFinite, FS_EmptySet DEF QuietInv

\* One client is the last one if the counter says so.
LEMMA OneIsLast ==
  ASSUME QuietInv, NEW c \in Clients, io[c] = "on", ioRunning = 1
  PROVE  Counted = {c}
<1>1. PICK x : Counted = {x}
  BY CountedFinite, FS_Singleton DEF QuietInv
<1>2. c \in Counted
  BY DEF Counted
<1> QED BY <1>1, <1>2

LEMMA StartIOQuiet ==
  ASSUME Serialized, IOInv, NEW c \in Clients, StartIO(c)
  PROVE  QuietInv' /\ SeedInv' /\ ioRunning' \in 0..Cardinality(Clients)
<1> USE DEF IOInv, StartIO, ops, buffers, clock
<1>1. io \in [Clients -> IoStates]
  BY Types
<1>2. \A d \in Clients : io[d] \in {"off", "on"}
  BY DEF HostFree
<1>3. Counted' = Counted \union {c} /\ c \notin Counted
  BY <1>1 DEF IoStates, Counted, Starting
<1>4. ioRunning' = Cardinality(Counted') /\ ioRunning' <= Cardinality(Clients) /\ ioRunning' \in Nat
  <2>1. Counted' \in SUBSET Clients
    BY DEF Counted
  <2>2. Cardinality(Counted) \in Nat /\ Cardinality(Counted') = Cardinality(Counted) + 1
    BY <1>3, CountedFinite, FS_AddElement, FS_CardinalityType
  <2>3. Cardinality(Counted') <= Cardinality(Clients)
    BY <2>1, FS_Subset, DriverIOAssumption
  <2>4. ioRunning' = Cardinality(Counted')
    BY <2>2 DEF QuietInv
  <2> QED BY <2>2, <2>3, <2>4
<1>5. Cardinality(Clients) \in Nat
  BY FS_CardinalityType, DriverIOAssumption
<1>6. CASE ioRunning = 0
  <2>1. \A d \in Clients : io[d] = "off"
    BY <1>2, <1>6, ZeroIsNone DEF Counted
  <2>2. io' = [io EXCEPT ![c] = "start_frames"]
    BY <1>6 DEF First
  <2>3. On = {} /\ On' = {}
    BY <1>1, <2>1, <2>2 DEF IoStates, On
  <2>4. seed \in Nat /\ MaxSeed \in Nat /\ seed + 2 <= MaxSeed
    BY <1>6, Types
  <2>5. QuietInv'
    BY <1>1, <1>4, <2>1, <2>2, <2>3 DEF IoStates, QuietInv
  <2>6. SeedInv'
    BY <1>1, <2>1, <2>2, <2>4 DEF IoStates, SeedInv, Starting
  <2> QED BY <1>4, <1>5, <2>5, <2>6
<1>7. CASE ioRunning # 0
  <2>1. PICK d \in Clients : io[d] = "on"
    BY <1>2, <1>7, ZeroIsNone DEF Counted, Starting
  <2>2. io' = [io EXCEPT ![c] = "on"]
    BY <1>7 DEF First
  <2>3. On # {} /\ On' # {}
    BY <1>1, <2>1, <2>2 DEF IoStates, On
  <2>4. QuietInv'
    BY <1>1, <1>2, <1>4, <2>2, <2>3 DEF IoStates, QuietInv
  <2>5. seed \in Nat /\ MaxSeed \in Nat /\ seed < MaxSeed
    BY <2>1, Types DEF SeedInv
  <2>6. SeedInv'
    BY <1>1, <1>2, <2>2, <2>5 DEF IoStates, SeedInv, Starting
  <2> QED BY <1>4, <1>5, <2>4, <2>6
<1> QED BY <1>6, <1>7

LEMMA StopIOQuiet ==
  ASSUME Serialized, IOInv, NEW c \in Clients, StopIO(c)
  PROVE  QuietInv' /\ SeedInv' /\ ioRunning' \in 0..Cardinality(Clients)
<1> USE DEF IOInv, StopIO, ops, buffers, clock, hist
<1>1. io \in [Clients -> IoStates]
  BY Types
<1>2. \A d \in Clients : io[d] \in {"off", "on"}
  BY DEF HostFree
<1>3. Counted' = Counted \ {c} /\ c \in Counted
  BY <1>1 DEF IoStates, Counted, Starting
<1>4. ioRunning' = Cardinality(Counted') /\ ioRunning' <= Cardinality(Clients) /\ ioRunning' \in Nat
  <2>1. Counted' \in SUBSET Clients
    BY DEF Counted
  <2>2. Cardinality(Counted) \in Nat /\ Cardinality(Counted') = Cardinality(Counted) - 1
        /\ Cardinality(Counted') \in Nat
    BY <1>3, CountedFinite, FS_RemoveElement, FS_CardinalityType
  <2>3. Cardinality(Counted') <= Cardinality(Clients)
    BY <2>1, FS_Subset, DriverIOAssumption
  <2>4. ioRunning' = Cardinality(Counted')
    BY <2>2 DEF QuietInv
  <2> QED BY <2>2, <2>3, <2>4
<1>5. Cardinality(Clients) \in Nat
  BY FS_CardinalityType, DriverIOAssumption
<1>6. CASE ioRunning = 1
  <2>1. \A d \in Clients \ {c} : io[d] = "off"
    BY <1>2, <1>6, OneIsLast DEF Counted
  <2>2. io' = [io EXCEPT ![c] = "stop_write"]
    BY <1>6 DEF Last
  <2>3. On = {c} /\ On' = {}
    BY <1>1, <2>1, <2>2 DEF IoStates, On
  <2>4. QuietInv'
    BY <1>1, <1>4, <2>1, <2>2, <2>3 DEF IoStates, QuietInv
  <2>5. SeedInv'
    BY <1>1, <2>1, <2>2 DEF IoStates, SeedInv, Starting
  <2> QED BY <1>4, <1>5, <2>4, <2>5
<1>7. CASE ioRunning # 1
  <2>1. Counted # {c}
    BY <1>7, FS_Singleton DEF QuietInv
  <2>2. io' = [io EXCEPT ![c] = "off"]
    BY <1>7 DEF Last
  <2>3. PICK d \in Clients \ {c} : io[d] = "on"
    BY <1>2, <1>3, <2>1 DEF Counted, Starting
  <2>4. On # {} /\ On' # {}
    BY <1>1, <2>2, <2>3 DEF IoStates, On
  <2>5. QuietInv'
    BY <1>1, <1>2, <1>4, <2>2, <2>4 DEF IoStates, QuietInv
  <2>6. SeedInv'
    BY <1>1, <1>2, <2>2 DEF IoStates, SeedInv, Starting
  <2> QED BY <1>4, <1>5, <2>5, <2>6
<1> QED BY <1>6, <1>7

\* A step of a start or a stop that leaves its client on its way.
LEMMA OnTheWay ==
  ASSUME IOInv, NEW c \in Clients, NEW at, UNCHANGED <<ioRunning, seed, mix, read, stamp>>,
         io' = [io EXCEPT ![c] = at],
         \/ Starting(c) /\ at \in {"start_frames", "start_anchor", "start_seed"}
         \/ Stopping(c) /\ at \in {"stop_write", "stop_read", "stop_clear", "stop_seed"}
  PROVE  QuietInv' /\ SeedInv' /\ On' = On /\ On = {} /\ Counted' = Counted
<1> USE DEF IOInv
<1>1. io \in [Clients -> IoStates]
  BY Types
<1>2. Counted' = Counted
  BY <1>1 DEF IoStates, Counted, Starting, Stopping
<1>3. On' = On /\ On = {}
  BY <1>1 DEF IoStates, On, Starting, Stopping, QuietInv
<1>4. QuietInv'
  BY <1>1, <1>2, <1>3 DEF IoStates, QuietInv, Starting, Stopping
<1> QED BY <1>1, <1>2, <1>3, <1>4 DEF IoStates, SeedInv, Starting, Stopping

LEMMA NewSeedQuiet ==
  ASSUME IOInv, NEW c \in Clients, NewSeed(c)
  PROVE  QuietInv' /\ SeedInv' /\ seed' \in 1..MaxSeed
<1> USE DEF IOInv, NewSeed, ops, buffers, hist
<1>1. io \in [Clients -> IoStates]
  BY Types
<1>2. On = {} /\ \A d \in Clients \ {c} : io[d] = "off"
  BY <1>1 DEF IoStates, QuietInv, On
<1>3. seed \in Nat /\ MaxSeed \in Nat /\ seed < MaxSeed /\ seed >= 1
  BY <1>1, Types DEF SeedInv, IoStates
<1>4. Counted' = Counted
  BY <1>1 DEF IoStates, Counted, Starting
<1>5. QuietInv'
  BY <1>1, <1>2, <1>4 DEF IoStates, QuietInv, On
<1>6. SeedInv'
  BY <1>1, <1>2, <1>3 DEF IoStates, SeedInv, Starting
<1> QED BY <1>3, <1>5, <1>6

\* A step of IO, which needs a client that is on.
LEMMA IOStays ==
  ASSUME IOInv, Still, On = {} => UNCHANGED <<mix, stamp>>,
         \A c \in Clients : read'[c] = Idle \/ read'[c] = read[c] \/ (c \in Readers /\ io[c] = "on")
  PROVE  QuietInv' /\ SeedInv' /\ On' = On /\ Counted' = Counted
<1>1. On' = On /\ Counted' = Counted
  BY DEF Still, On, Counted, Starting
<1>2. QuietInv'
  BY <1>1 DEF IoStates, IOInv, QuietInv, Still
<1> QED BY <1>1, <1>2 DEF IoStates, IOInv, SeedInv, Starting, Still

-----------------------------------------------------------------------------
(* Types                                                                    *)

LEMMA InBuffer == ASSUME NEW p \in Int PROVE p % Size \in 0..(Size - 1)
BY DriverIOAssumption

LEMMA NextInBuffer == ASSUME NEW p \in 0..(Size - 1) PROVE NextPos(p) \in 0..(Size - 1)
BY DriverIOAssumption DEF NextPos

\* What an operation under way consists of.
LEMMA Fields ==
  ASSUME NEW ats, NEW o \in Operation(ats)
  PROVE  /\ o.at \in ats /\ o.block \in Blocks \union {0} /\ o.block \in Nat
         /\ o.pos \in 0..(Size - 1) /\ o.pos \in Nat /\ o.done \in Nat
<1>1. /\ o.at \in ats /\ o.block \in Blocks \union {0}
      /\ o.pos \in 0..(Size - 1) /\ o.done \in Nat
  BY DEF Operation
<1>2. \A b \in Blocks \union {0} : b \in Nat
  BY DriverIOAssumption
<1>3. \A p \in 0..(Size - 1) : p \in Nat
  BY DriverIOAssumption
<1> QED BY <1>1, <1>2, <1>3

\* One sample further.
LEMMA OneFurther ==
  ASSUME NEW ats, NEW o \in Operation(ats)
  PROVE  [o EXCEPT !.pos = NextPos(o.pos), !.done = o.done + 1] \in Operation(ats)
<1>1. NextPos(o.pos) \in 0..(Size - 1) /\ o.done + 1 \in Nat
  BY Fields, NextInBuffer
<1> QED BY <1>1 DEF Operation

\* Moved on.
LEMMA MovedOn ==
  ASSUME NEW ats, NEW o \in Operation(ats), NEW at \in ats
  PROVE  [o EXCEPT !.at = at] \in Operation(ats)
BY DEF Operation

LEMMA IdleIsOperation == ASSUME NEW ats, "idle" \in ats PROVE Idle \in Operation(ats)
<1>1. 0 \in 0..(Size - 1) /\ 0 \in Nat /\ 0 \in Blocks \union {0}
  BY DriverIOAssumption
<1> QED BY <1>1 DEF Operation, Idle

LEMMA StartTypes ==
  ASSUME Serialized, IOInv, NEW c \in Clients, StartIO(c) \/ StopIO(c) \/ StartStep(c) \/ StopStep(c)
  PROVE  IOInv'
<1> USE DriverIOAssumption
<1>0. TypeOK /\ Silence \in 0..MaxSamples /\ 0 \in 0..(Size - 1)
  BY DEF IOInv, Silence
<1>1. CASE StartIO(c)
  <2>1. QuietInv' /\ SeedInv' /\ ioRunning' \in 0..Cardinality(Clients)
    BY <1>1, StartIOQuiet
  <2>2. UNCHANGED <<frameCount, anchor, seed, loopback, writePos, readPos, now, mix, read, stamp, produced, returned>>
    BY <1>1 DEF StartIO, clock, buffers, ops
  <2>3. RoomInv'
    BY <2>2 DEF IOInv, RoomInv
  <2>4. io' \in [Clients -> IoStates]
    BY <1>0, <1>1, Types DEF StartIO, IoStates
  <2>5. base' \in 0..produced' /\ got' \in [Clients -> Seq(0..MaxSamples)]
    <3>1. produced \in Nat /\ base \in 0..produced /\ got \in [Clients -> Seq(0..MaxSamples)]
      BY <1>0 DEF TypeOK
    <3>2. << >> \in Seq(0..MaxSamples)
      OBVIOUS
    <3>3. CASE ioRunning = 0
      <4>1. base' = produced /\ got' = [d \in Clients |-> << >>] /\ produced' = produced
        BY <1>1, <3>3 DEF StartIO
      <4>2. produced \in 0..produced
        BY <3>1
      <4> QED BY <3>2, <4>1, <4>2
    <3>4. CASE ioRunning # 0
      BY <1>1, <2>2, <3>1, <3>4 DEF StartIO
    <3> QED BY <3>3, <3>4
  <2>6. TypeOK'
    BY <1>0, <2>1, <2>2, <2>4, <2>5 DEF TypeOK, IoStates
  <2> QED BY <2>1, <2>3, <2>6 DEF IOInv
<1>2. CASE StopIO(c)
  <2>1. QuietInv' /\ SeedInv' /\ ioRunning' \in 0..Cardinality(Clients)
    BY <1>2, StopIOQuiet
  <2>2. UNCHANGED <<frameCount, anchor, seed, loopback, writePos, readPos, now, mix, read, stamp, produced, base, got, returned>>
    BY <1>2 DEF StopIO, clock, buffers, ops, hist
  <2>3. RoomInv'
    BY <2>2 DEF IOInv, RoomInv
  <2>4. io' \in [Clients -> IoStates]
    BY <1>0, <1>2, Types DEF StopIO, IoStates
  <2>5. TypeOK'
    BY <1>0, <2>1, <2>2, <2>4 DEF TypeOK, IoStates
  <2> QED BY <2>1, <2>3, <2>5 DEF IOInv
<1>3. CASE NewSeed(c)
  <2>1. QuietInv' /\ SeedInv' /\ seed' \in 1..MaxSeed
    BY <1>3, NewSeedQuiet
  <2>2. UNCHANGED <<ioRunning, frameCount, anchor, loopback, writePos, readPos, now, mix, read, stamp, produced, base, got, returned>>
    BY <1>3 DEF NewSeed, buffers, ops, hist
  <2>3. RoomInv'
    BY <2>2 DEF IOInv, RoomInv
  <2>4. io' \in [Clients -> IoStates]
    BY <1>0, <1>3, Types DEF NewSeed, IoStates
  <2>5. TypeOK'
    BY <1>0, <2>1, <2>2, <2>4 DEF TypeOK, IoStates
  <2> QED BY <2>1, <2>3, <2>5 DEF IOInv
<1>4. CASE ResetFrames(c) \/ SetAnchor(c) \/ StopStep(c)
  <2> DEFINE Way == ResetFrames(c) \/ SetAnchor(c) \/ StopStep(c)
  <2>1. /\ UNCHANGED <<ioRunning, seed, mix, read, stamp>>
        /\ UNCHANGED <<now, produced, base, got, returned>>
    BY <1>4 DEF ResetFrames, SetAnchor, StopStep, ResetWritePos, ResetReadPos, Clear, buffers, ops, hist, clock
  <2>2. PICK at \in IoStates : /\ io' = [io EXCEPT ![c] = at]
                               /\ \/ Starting(c) /\ at \in {"start_frames", "start_anchor", "start_seed"}
                                  \/ Stopping(c) /\ at \in {"stop_write", "stop_read", "stop_clear", "stop_seed"}
    BY <1>4 DEF ResetFrames, SetAnchor, StopStep, ResetWritePos, ResetReadPos, Clear, Starting, Stopping, IoStates
  <2>3. QuietInv' /\ SeedInv'
    BY <2>1, <2>2, OnTheWay
  <2>4. RoomInv'
    BY <2>1 DEF IOInv, RoomInv
  <2>5. io' \in [Clients -> IoStates]
    BY <1>0, <2>2, Types
  <2>6. /\ frameCount' \in Nat /\ anchor' \in 0..MaxNow
        /\ loopback' \in [0..(Size - 1) -> 0..MaxSamples]
        /\ writePos' \in 0..(Size - 1) /\ readPos' \in 0..(Size - 1)
    <3>1. /\ frameCount \in Nat /\ anchor \in 0..MaxNow /\ now \in 0..MaxNow
          /\ loopback \in [0..(Size - 1) -> 0..MaxSamples]
          /\ writePos \in 0..(Size - 1) /\ readPos \in 0..(Size - 1)
      BY <1>0 DEF TypeOK
    <3>2. CASE ResetFrames(c)
      BY <3>1, <3>2 DEF ResetFrames, buffers
    <3>3. CASE SetAnchor(c)
      BY <3>1, <3>3 DEF SetAnchor, buffers
    <3>4. CASE ResetWritePos(c)
      BY <1>0, <3>1, <3>4 DEF ResetWritePos, clock
    <3>5. CASE ResetReadPos(c)
      BY <1>0, <3>1, <3>5 DEF ResetReadPos, clock
    <3>6. CASE Clear(c)
      BY <1>0, <3>1, <3>6 DEF Clear, clock
    <3> QED BY <1>4, <3>2, <3>3, <3>4, <3>5, <3>6 DEF StopStep
  <2>7. TypeOK'
    BY <1>0, <2>1, <2>5, <2>6 DEF TypeOK, IoStates
  <2> QED BY <2>3, <2>4, <2>7 DEF IOInv
<1> QED BY <1>1, <1>2, <1>3, <1>4 DEF StartStep

LEMMA MixTypes ==
  ASSUME IOInv, (\E n \in Blocks : WriteMix(n)) \/ MixStep
  PROVE  IOInv'
<1> USE DriverIOAssumption
<1>0. TypeOK /\ RoomInv /\ QuietInv
  BY DEF IOInv
<1>1. /\ UNCHANGED <<ioRunning, anchor, seed, readPos, now, io, read, stamp, base, got, returned>>
      /\ On # {}
  BY <1>0 DEF WriteMix, MixStep, WriteSample, PublishMix, AdvanceFrames, clock, buffers, hist, QuietInv, Idle
<1>2. QuietInv' /\ SeedInv'
  BY <1>1, IOStays DEF Still
<1>3. /\ mix' \in Operation({"idle", "copy", "advance"}) /\ RoomInv'
      /\ produced' \in 0..MaxSamples /\ produced <= produced' /\ frameCount' \in Nat
      /\ loopback' \in [0..(Size - 1) -> 0..MaxSamples] /\ writePos' \in 0..(Size - 1)
  <2>1. /\ mix \in Operation({"idle", "copy", "advance"})
        /\ loopback \in [0..(Size - 1) -> 0..MaxSamples] /\ writePos \in 0..(Size - 1)
        /\ produced \in 0..MaxSamples /\ frameCount \in Nat
    BY <1>0 DEF TypeOK
  <2>2. CASE \E n \in Blocks : WriteMix(n)
    BY <1>0, <2>1, <2>2 DEF WriteMix, Operation, RoomInv, clock, buffers, hist
  <2>3. CASE WriteSample
    <3>2. /\ mix' = [mix EXCEPT !.pos = NextPos(mix.pos), !.done = mix.done + 1]
          /\ mix.at = "copy" /\ mix.done < mix.block
          /\ loopback' = [loopback EXCEPT ![mix.pos] = produced + mix.done + 1]
          /\ UNCHANGED <<writePos, produced, frameCount>>
      BY <2>3 DEF WriteSample, clock, hist
    <3>3. mix.done \in Nat /\ mix.block \in Nat /\ produced \in Nat
      BY <2>1, Fields
    <3>4. produced + mix.done + 1 \in 0..MaxSamples
      <4>1. produced + mix.block <= MaxSamples /\ mix.done + 1 <= mix.block
        BY <1>0, <3>2, <3>3 DEF RoomInv
      <4> QED BY <3>3, <4>1
    <3>5. mix' \in Operation({"idle", "copy", "advance"})
      BY <2>1, <3>2, OneFurther
    <3>6. RoomInv'
      <4>1. mix'.done = mix.done + 1 /\ mix'.block = mix.block
        BY <2>1, <3>2 DEF Operation
      <4> QED BY <1>0, <3>2, <3>3, <4>1 DEF RoomInv
    <3>7. loopback' \in [0..(Size - 1) -> 0..MaxSamples]
      BY <2>1, <3>2, <3>4
    <3> QED BY <2>1, <3>2, <3>5, <3>6, <3>7
  <2>4. CASE PublishMix
    <3>1. /\ mix' = [mix EXCEPT !.at = "advance"] /\ writePos' = mix.pos
          /\ produced' = produced + mix.block /\ mix.at = "copy"
          /\ UNCHANGED <<loopback, frameCount>>
      BY <2>4 DEF PublishMix, clock
    <3>2. mix.block \in Nat /\ mix.pos \in 0..(Size - 1) /\ produced \in Nat
      BY <2>1, Fields
    <3>3. mix' \in Operation({"idle", "copy", "advance"}) /\ mix'.at = "advance"
      <4>1. mix' \in Operation({"idle", "copy", "advance"})
        BY <2>1, <3>1, MovedOn
      <4> QED BY <2>1, <3>1, <4>1 DEF Operation
    <3>4. produced + mix.block <= MaxSamples
      BY <1>0, <3>1 DEF RoomInv
    <3> QED BY <2>1, <3>1, <3>2, <3>3, <3>4 DEF RoomInv
  <2>5. CASE AdvanceFrames
    <3>1. mix' = Idle /\ frameCount' = frameCount + mix.block /\ UNCHANGED <<loopback, writePos, produced>>
      BY <2>5 DEF AdvanceFrames, buffers, hist
    <3>2. frameCount' \in Nat
      BY <2>1, <3>1, Fields
    <3>3. mix' \in Operation({"idle", "copy", "advance"}) /\ mix'.at = "idle"
      BY <3>1, IdleIsOperation DEF Idle
    <3> QED BY <2>1, <3>1, <3>2, <3>3 DEF RoomInv
  <2> QED BY <2>2, <2>3, <2>4, <2>5 DEF MixStep
<1>4. base' \in 0..produced'
  <2>1. base \in Nat /\ base <= produced /\ produced \in Nat
    BY <1>0 DEF TypeOK
  <2> QED BY <1>1, <1>3, <2>1
<1>5. TypeOK'
  BY <1>0, <1>1, <1>3, <1>4 DEF TypeOK
<1> QED BY <1>2, <1>3, <1>5 DEF IOInv

LEMMA ReadTypes ==
  ASSUME IOInv, NEW c \in Clients, (\E n \in Blocks : ReadInput(c, n)) \/ ReadStep(c)
  PROVE  IOInv'
<1> USE DriverIOAssumption
<1>0. TypeOK /\ RoomInv /\ QuietInv
  BY DEF IOInv
<1>1. /\ UNCHANGED <<ioRunning, frameCount, anchor, seed, loopback, writePos, now, io, mix, stamp, produced, base, returned>>
      /\ c \in Readers /\ io[c] = "on"
  BY <1>0 DEF ReadInput, ReadStep, LoadWritePos, ReadSample, PublishRead, clock, buffers, hist, QuietInv, Idle
<1>2. /\ read' \in [Clients -> Operation({"idle", "loaded", "copy"})]
      /\ got' \in [Clients -> Seq(0..MaxSamples)] /\ readPos' \in 0..(Size - 1)
      /\ \A d \in Clients \ {c} : read'[d] = read[d]
  <2>1. /\ read \in [Clients -> Operation({"idle", "loaded", "copy"})]
        /\ got \in [Clients -> Seq(0..MaxSamples)] /\ readPos \in 0..(Size - 1)
        /\ loopback \in [0..(Size - 1) -> 0..MaxSamples]
        /\ Idle \in Operation({"idle", "loaded", "copy"})
    BY <1>0, IdleIsOperation DEF TypeOK
  <2> DEFINE op == read[c]
  <2>2. op \in Operation({"idle", "loaded", "copy"})
    BY <2>1
  <2>3. CASE \E n \in Blocks : ReadInput(c, n)
    BY <2>1, <2>3 DEF ReadInput, buffers, hist, Operation
  <2>4. CASE LoadWritePos(c)
    <3>1. read' = [read EXCEPT ![c] =
            IF Available(writePos, op.pos) >= op.block THEN [op EXCEPT !.at = "copy"] ELSE Idle]
      BY <2>4 DEF LoadWritePos
    <3>2. [op EXCEPT !.at = "copy"] \in Operation({"idle", "loaded", "copy"})
      BY <2>2 DEF Operation
    <3> QED BY <2>1, <2>4, <3>1, <3>2 DEF LoadWritePos, buffers, hist
  <2>5. CASE ReadSample(c)
    <3>2. read' = [read EXCEPT ![c] = [op EXCEPT !.pos = NextPos(op.pos), !.done = op.done + 1]]
      BY <2>1, <2>5 DEF ReadSample
    <3>3. [op EXCEPT !.pos = NextPos(op.pos), !.done = op.done + 1] \in Operation({"idle", "loaded", "copy"})
      BY <2>2, OneFurther
    <3>4. loopback[op.pos] \in 0..MaxSamples
      BY <2>1, <2>2 DEF Operation
    <3>5. Append(got[c], loopback[op.pos]) \in Seq(0..MaxSamples)
      BY <2>1, <3>4
    <3>6. got' = [got EXCEPT ![c] = Append(got[c], loopback[op.pos])] /\ readPos' = readPos
      BY <2>5 DEF ReadSample, buffers
    <3> QED BY <2>1, <3>2, <3>3, <3>5, <3>6
  <2>6. CASE PublishRead(c)
    BY <2>1, <2>2, <2>6 DEF PublishRead, buffers, hist, Operation
  <2> QED BY <2>3, <2>4, <2>5, <2>6 DEF ReadStep
<1>3. QuietInv' /\ SeedInv'
  <2>1. \A d \in Clients : read'[d] = Idle \/ read'[d] = read[d] \/ (d \in Readers /\ io[d] = "on")
    BY <1>1, <1>2
  <2> QED BY <1>1, <2>1, IOStays DEF Still
<1>4. RoomInv'
  BY <1>0, <1>1 DEF RoomInv
<1>5. TypeOK'
  BY <1>0, <1>1, <1>2 DEF TypeOK
<1> QED BY <1>3, <1>4, <1>5 DEF IOInv

LEMMA ClockTypes ==
  ASSUME IOInv, LoadAnchor \/ LoadFrames \/ ReturnStamp \/ Tick
  PROVE  IOInv'
<1> USE DriverIOAssumption
<1>0. TypeOK /\ RoomInv /\ QuietInv
  BY DEF IOInv
<1>1. /\ UNCHANGED <<ioRunning, frameCount, anchor, seed, loopback, writePos, readPos, io, mix, read, produced, base, got>>
      /\ On = {} => UNCHANGED stamp
  BY <1>0 DEF LoadAnchor, LoadFrames, ReturnStamp, Tick, clock, buffers, hist, ops, QuietInv
<1>2. QuietInv' /\ SeedInv'
  BY <1>1, IOStays DEF Still
<1>3. /\ stamp' \in [at : {"idle", "frames", "seed"}, anchor : 0..MaxNow, frames : Nat]
      /\ returned' \in [frames : Nat, host : Nat, seed : 0..MaxSeed]
      /\ now' \in 0..MaxNow
  <2>1. /\ stamp \in [at : {"idle", "frames", "seed"}, anchor : 0..MaxNow, frames : Nat]
        /\ returned \in [frames : Nat, host : Nat, seed : 0..MaxSeed]
        /\ now \in 0..MaxNow /\ anchor \in 0..MaxNow /\ frameCount \in Nat /\ seed \in 1..MaxSeed
    BY <1>0 DEF TypeOK
  <2>2. CASE LoadAnchor
    BY <2>1, <2>2 DEF LoadAnchor, hist
  <2>3. CASE LoadFrames
    BY <2>1, <2>3 DEF LoadFrames, hist
  <2>4. CASE ReturnStamp
    <3>1. stamp.frames \in Nat /\ stamp.anchor \in Nat /\ seed \in 0..MaxSeed /\ 0 \in 0..MaxNow
      BY <2>1
    <3>2. stamp.anchor + stamp.frames \in Nat
      BY <3>1
    <3> QED BY <2>1, <2>4, <3>1, <3>2 DEF ReturnStamp
  <2>5. CASE Tick
    BY <2>1, <2>5 DEF Tick, hist, ops
  <2> QED BY <2>2, <2>3, <2>4, <2>5
<1>4. RoomInv'
  BY <1>0, <1>1 DEF RoomInv
<1>5. TypeOK'
  BY <1>0, <1>1, <1>3 DEF TypeOK
<1> QED BY <1>2, <1>4, <1>5 DEF IOInv

LEMMA IOInvInit == Init => IOInv
<1> SUFFICES ASSUME Init PROVE IOInv
  OBVIOUS
<1> USE DriverIOAssumption DEF Init
<1>1. Counted = {} /\ On = {}
  BY DEF Counted, On, Starting
<1>2. Cardinality(Clients) \in Nat /\ Cardinality(Counted) = 0
  BY <1>1, FS_CardinalityType, FS_EmptySet
<1>3. TypeOK
  BY <1>2 DEF TypeOK, Operation, Idle, NoStamp, Silence
<1>4. QuietInv /\ SeedInv /\ RoomInv
  BY <1>1, <1>2 DEF QuietInv, SeedInv, RoomInv, Starting, Idle
<1> QED BY <1>3, <1>4 DEF IOInv

LEMMA IOInvStep == ASSUME Serialized, IOInv, [Next]_vars PROVE IOInv'
<1>1. CASE UNCHANGED vars
  BY <1>1 DEF vars, clock, buffers, ops, hist, IOInv, TypeOK, QuietInv, SeedInv, RoomInv,
              Counted, On, Starting
<1>2. CASE Next
  BY <1>2, StartTypes, MixTypes, ReadTypes, ClockTypes DEF Next
<1> QED BY <1>1, <1>2

LEMMA AlwaysIOInv == Serialized /\ Spec => []IOInv
<1> SUFFICES ASSUME Serialized PROVE Spec => []IOInv
  OBVIOUS
<1>1. IOInv /\ [Next]_vars => IOInv'
  BY IOInvStep
<1> QED BY <1>1, IOInvInit, PTL DEF Spec

-----------------------------------------------------------------------------
(* Clearing and time stamps                                                 *)

\* The type, for any clients and bounds: the counter never goes below zero
\* (virtual_audio_driver.c:301), positions stay inside the buffer, and there
\* is room in the history for what is written.
THEOREM TypeCorrect == Serialized /\ Spec => []TypeOK
BY AlwaysIOInv, PTL DEF IOInv

\* For any number of clients and any blocks, the last client clears the buffer
\* while no one plays or records (virtual_audio_driver.c:316), if the host
\* makes one StartIO or StopIO at a time.
THEOREM QuietCleared == Serialized /\ Spec => []ClearedInQuiet
<1>1. IOInv => ClearedInQuiet
  <2> SUFFICES ASSUME IOInv, NEW c \in Clients, io[c] \in {"stop_write", "stop_read", "stop_clear"}
               PROVE  On = {} /\ mix = Idle /\ \A d \in Clients : read[d] = Idle
    BY DEF ClearedInQuiet
  <2>1. On = {}
    BY DEF IOInv, QuietInv
  <2> QED BY <2>1 DEF IOInv, QuietInv, On
<1> QED BY <1>1, AlwaysIOInv, PTL

LEMMA StampTypes ==
  ASSUME TypeOK
  PROVE  /\ returned.seed \in Nat /\ returned.frames \in Nat /\ returned.host \in Nat
         /\ stamp.at \in {"idle", "frames", "seed"} /\ stamp.anchor \in Nat /\ stamp.frames \in Nat
         /\ frameCount \in Nat /\ anchor \in Nat /\ seed \in Nat
<1>1. /\ stamp \in [at : {"idle", "frames", "seed"}, anchor : 0..MaxNow, frames : Nat]
      /\ returned \in [frames : Nat, host : Nat, seed : 0..MaxSeed]
      /\ anchor \in 0..MaxNow /\ frameCount \in Nat /\ seed \in 1..MaxSeed
  BY DEF TypeOK
<1> QED BY <1>1

LEMMA StartStamp ==
  ASSUME Serialized, IOInv, StampInv, NEW c \in Clients,
         StartIO(c) \/ StopIO(c) \/ StartStep(c) \/ StopStep(c)
  PROVE  StampInv'
<1>1. returned' = returned /\ stamp' = stamp
  BY DEF StartIO, StopIO, StartStep, StopStep, ResetFrames, SetAnchor, NewSeed, ResetWritePos,
         ResetReadPos, Clear, ops, hist
<1>2. returned.seed \in Nat /\ seed \in Nat
  BY StampTypes DEF IOInv
<1>3. io \in [Clients -> IoStates]
  BY Types DEF IOInv
<1>4. CASE StartIO(c)
  <2>1. UNCHANGED <<frameCount, anchor, seed>> /\ \A d \in Clients : io[d] \in {"off", "on"}
    BY <1>4 DEF StartIO, clock, HostFree
  <2>2. On = {} <=> ioRunning = 0
    BY <2>1, ZeroIsNone DEF IOInv, On, Counted, Starting
  <2>3. CASE ioRunning = 0
    <3>1. io' = [io EXCEPT ![c] = "start_frames"]
      BY <1>4, <2>3 DEF StartIO, First
    <3>2. On' = {} /\ returned.seed < seed
      BY <1>3, <2>1, <2>2, <2>3, <3>1 DEF On, StampInv, Stopping
    <3> QED BY <1>1, <1>2, <2>1, <3>2 DEF StampInv
  <2>4. CASE ioRunning # 0
    <3>1. io' = [io EXCEPT ![c] = "on"]
      BY <1>4, <2>4 DEF StartIO, First
    <3>2. On' # {} /\ On # {}
      BY <1>3, <2>2, <2>4, <3>1 DEF On
    <3> QED BY <1>1, <2>1, <3>2 DEF StampInv
  <2> QED BY <2>3, <2>4
<1>5. CASE StopIO(c)
  <2>1. UNCHANGED <<frameCount, anchor, seed>> /\ io[c] = "on" /\ On # {}
    BY <1>5 DEF StopIO, clock, On
  <2>2. CASE ioRunning = 1
    <3>1. io' = [io EXCEPT ![c] = "stop_write"] /\ Counted = {c}
      BY <1>5, <2>1, <2>2, OneIsLast DEF StopIO, Last, IOInv
    <3>2. On' = {} /\ \E d \in Clients : Stopping(d)'
      BY <1>3, <3>1 DEF On, Counted, Stopping
    <3> QED BY <1>1, <2>1, <3>2 DEF StampInv
  <2>3. CASE ioRunning # 1
    <3>1. io' = [io EXCEPT ![c] = "off"]
      BY <1>5, <2>3 DEF StopIO, Last
    <3>2. Counted # {c}
      BY <2>3, FS_Singleton DEF IOInv, QuietInv
    <3>3. PICK d \in Clients \ {c} : io[d] = "on"
      BY <1>5, <2>1, <3>2 DEF StopIO, HostFree, Counted, Starting
    <3>4. On' # {}
      BY <1>3, <3>1, <3>3 DEF On
    <3> QED BY <1>1, <2>1, <3>4 DEF StampInv
  <2> QED BY <2>2, <2>3
<1>6. CASE NewSeed(c)
  <2>1. seed' = seed + 1 /\ UNCHANGED <<frameCount, anchor>>
    BY <1>6 DEF NewSeed
  <2>2. On = {}
    BY <1>6 DEF NewSeed, IOInv, QuietInv
  <2>3. stamp.at = "idle" /\ returned.seed < seed + 1
    BY <1>2, <2>2 DEF IOInv, QuietInv, StampInv
  <2> QED BY <1>1, <1>2, <2>1, <2>3 DEF StampInv
<1>7. CASE ResetFrames(c) \/ SetAnchor(c)
  <2>1. PICK at \in {"start_anchor", "start_seed"} : io' = [io EXCEPT ![c] = at] /\ Starting(c)
    BY <1>7 DEF ResetFrames, SetAnchor, Starting
  <2>2. On' = {} /\ On = {}
    BY <1>3, <2>1 DEF On, IOInv, QuietInv, Starting
  <2>3. \A d \in Clients : ~Stopping(d)
    BY <1>3, <2>1 DEF IOInv, QuietInv, Starting, Stopping
  <2>4. UNCHANGED seed
    BY <1>7 DEF ResetFrames, SetAnchor
  <2> QED BY <1>1, <2>2, <2>3, <2>4 DEF StampInv
<1>8. CASE StopStep(c)
  <2>1. PICK at \in {"stop_read", "stop_clear", "stop_seed"} : io' = [io EXCEPT ![c] = at] /\ Stopping(c)
    BY <1>8 DEF StopStep, ResetWritePos, ResetReadPos, Clear, Stopping
  <2>2. On' = {} /\ Stopping(c)'
    BY <1>3, <2>1 DEF On, IOInv, QuietInv, Stopping
  <2>3. UNCHANGED seed
    BY <1>8 DEF StopStep, ResetWritePos, ResetReadPos, Clear, clock
  <2> QED BY <1>1, <2>2, <2>3 DEF StampInv
<1> QED BY <1>4, <1>5, <1>6, <1>7, <1>8 DEF StartStep

LEMMA OtherStamp ==
  ASSUME IOInv, StampInv,
         \/ (\E n \in Blocks : WriteMix(n)) \/ MixStep
         \/ \E c \in Clients : (\E n \in Blocks : ReadInput(c, n)) \/ ReadStep(c)
         \/ LoadAnchor \/ LoadFrames \/ ReturnStamp \/ Tick
  PROVE  StampInv'
<1>1. UNCHANGED <<io, anchor, seed>>
  BY DEF WriteMix, MixStep, WriteSample, PublishMix, AdvanceFrames, ReadInput, ReadStep, LoadWritePos,
         ReadSample, PublishRead, LoadAnchor, LoadFrames, ReturnStamp, Tick, clock
<1>2. On' = On /\ \A c \in Clients : Stopping(c)' <=> Stopping(c)
  BY <1>1 DEF On, Stopping
<1>3. /\ returned.seed \in Nat /\ returned.frames \in Nat /\ returned.host \in Nat
      /\ stamp.at \in {"idle", "frames", "seed"} /\ stamp.anchor \in Nat /\ stamp.frames \in Nat
      /\ frameCount \in Nat /\ anchor \in Nat /\ seed \in Nat
      /\ stamp \in [at : {"idle", "frames", "seed"}, anchor : 0..MaxNow, frames : Nat]
  BY StampTypes DEF IOInv, TypeOK
<1>4. On = {} => stamp.at = "idle"
  BY DEF IOInv, QuietInv
<1>5. CASE AdvanceFrames
  <2>1. frameCount' = frameCount + mix.block /\ UNCHANGED <<stamp, returned>>
    BY <1>5 DEF AdvanceFrames, hist
  <2>2. mix.block \in Nat
    BY Fields DEF IOInv, TypeOK
  <2>3. \A f \in Nat : f <= frameCount => f <= frameCount'
    BY <1>3, <2>1, <2>2
  <2> QED BY <1>1, <1>2, <1>3, <2>1, <2>3 DEF StampInv
<1>6. CASE LoadAnchor
  <2>1. stamp' = [stamp EXCEPT !.at = "frames", !.anchor = anchor] /\ UNCHANGED <<frameCount, returned>>
    BY <1>6 DEF LoadAnchor, clock, hist
  <2>2. stamp'.at = "frames" /\ stamp'.anchor = anchor
    BY <1>3, <2>1
  <2> QED BY <1>1, <1>2, <2>1, <2>2 DEF StampInv
<1>7. CASE LoadFrames
  <2>1. /\ stamp' = [stamp EXCEPT !.at = "seed", !.frames = frameCount]
        /\ stamp.at = "frames" /\ UNCHANGED <<frameCount, returned>>
    BY <1>7 DEF LoadFrames, clock, hist
  <2>2. stamp'.at = "seed" /\ stamp'.anchor = stamp.anchor /\ stamp'.frames = frameCount
    BY <1>3, <2>1
  <2> QED BY <1>1, <1>2, <1>3, <2>1, <2>2 DEF StampInv
<1>8. CASE ReturnStamp
  <2>1. /\ returned' = [frames |-> stamp.frames, host |-> stamp.anchor + stamp.frames, seed |-> seed]
        /\ stamp' = [at |-> "idle", anchor |-> 0, frames |-> 0]
        /\ stamp.at = "seed" /\ UNCHANGED frameCount
    BY <1>8 DEF ReturnStamp, clock
  <2>2. stamp'.at = "idle" /\ returned'.frames = stamp.frames
        /\ returned'.host = stamp.anchor + stamp.frames /\ returned'.seed = seed
    BY <2>1
  <2>3. On # {}
    BY <1>4, <2>1
  <2>4. stamp.anchor = anchor /\ stamp.frames <= frameCount
    BY <2>1, <2>3 DEF StampInv
  <2> QED BY <1>1, <1>2, <1>3, <2>1, <2>2, <2>3, <2>4 DEF StampInv
<1>9. CASE UNCHANGED <<frameCount, stamp, returned>>
  BY <1>1, <1>2, <1>9 DEF StampInv
<1>10. CASE (\E n \in Blocks : WriteMix(n)) \/ WriteSample \/ PublishMix \/ Tick
            \/ \E c \in Clients : (\E n \in Blocks : ReadInput(c, n)) \/ ReadStep(c)
  BY <1>9, <1>10 DEF WriteMix, WriteSample, PublishMix, ReadInput, ReadStep, LoadWritePos,
         ReadSample, PublishRead, Tick, clock, hist, ops
<1> QED BY <1>5, <1>6, <1>7, <1>8, <1>10 DEF MixStep

LEMMA AlwaysStampInv == Serialized /\ Spec => [](IOInv /\ StampInv)
<1> SUFFICES ASSUME Serialized PROVE Spec => [](IOInv /\ StampInv)
  OBVIOUS
<1>1. Init => StampInv
  BY DEF Init, StampInv, On, NoStamp
<1>2. IOInv /\ StampInv /\ [Next]_vars => StampInv'
  <2>1. ASSUME StampInv, UNCHANGED vars PROVE StampInv'
    BY <2>1 DEF vars, clock, ops, hist, StampInv, On, Stopping
  <2> QED BY <2>1, StartStamp, OtherStamp DEF Next
<1>3. IOInv /\ [Next]_vars => IOInv'
  BY IOInvStep
<1> QED BY <1>1, <1>2, <1>3, IOInvInit, PTL DEF Spec

\* For any clients and bounds two time stamps with one seed lie on one line
\* and neither goes back (virtual_audio_driver.c:361), though frame count,
\* anchor and seed are loaded one by one, if the host makes one StartIO or
\* StopIO at a time.
THEOREM StampsOnLine == Serialized /\ Spec => StampsMatch
<1>1. IOInv /\ StampInv /\ [Next]_vars =>
        [ returned'.seed = returned.seed =>
            /\ returned'.frames >= returned.frames
            /\ returned'.host - returned.host = returned'.frames - returned.frames ]_returned
  <2> SUFFICES ASSUME IOInv, StampInv, [Next]_vars, returned' # returned, returned'.seed = returned.seed
               PROVE  /\ returned'.frames >= returned.frames
                      /\ returned'.host - returned.host = returned'.frames - returned.frames
    OBVIOUS
  <2>1. ReturnStamp
    BY DEF Next, StartIO, StopIO, StartStep, StopStep, ResetFrames, SetAnchor, NewSeed, ResetWritePos,
           ResetReadPos, Clear, WriteMix, MixStep, WriteSample, PublishMix, AdvanceFrames, ReadInput,
           ReadStep, LoadWritePos, ReadSample, PublishRead, LoadAnchor, LoadFrames, Tick, vars, hist
  <2>2. /\ returned.seed \in Nat /\ returned.frames \in Nat /\ returned.host \in Nat
        /\ stamp.anchor \in Nat /\ stamp.frames \in Nat /\ anchor \in Nat
    BY StampTypes DEF IOInv
  <2>3. /\ returned'.frames = stamp.frames /\ returned'.host = stamp.anchor + stamp.frames
        /\ returned'.seed = seed /\ stamp.at = "seed"
    BY <2>1 DEF ReturnStamp
  <2>4. On # {}
    BY <2>3 DEF IOInv, QuietInv
  <2>5. /\ stamp.anchor = anchor /\ returned.frames <= stamp.frames
        /\ returned.host = anchor + returned.frames
    BY <2>3, <2>4 DEF StampInv
  <2> QED BY <2>2, <2>3, <2>5
<1> QED BY <1>1, AlwaysStampInv, PTL DEF StampsMatch, Spec

-----------------------------------------------------------------------------
(* Positions in a ring                                                      *)

\* A number is a whole number of rounds and a position.
LEMMA Rounds ==
  ASSUME NEW p \in Nat
  PROVE  \E a \in Nat : p = Size * a + (p % Size) /\ p % Size \in 0..(Size - 1)
<1> DEFINE a == p \div Size
<1>1. a \in Nat /\ p = Size * a + (p % Size) /\ p % Size \in 0..(Size - 1)
  BY DriverIOAssumption
<1> QED BY <1>1

\* Two numbers at one position are a number of rounds apart.
LEMMA SameSlot ==
  ASSUME NEW p \in Nat, NEW q \in Nat, p <= q, q - p < Size, p % Size = q % Size
  PROVE  p = q
<1>1. PICK a \in Nat : p = Size * a + (p % Size)
  BY Rounds
<1>2. PICK b \in Nat : q = Size * b + (q % Size)
  BY Rounds
<1>3. p % Size \in Nat /\ Size \in Nat /\ Size >= 1
  BY DriverIOAssumption
<1>4. q - p = Size * (b - a)
  BY <1>1, <1>2, <1>3
<1>5. CASE b - a <= 0
  <2>1. Size * (b - a) <= 0
    BY <1>3, <1>5
  <2> QED BY <1>4, <2>1
<1>6. CASE b - a >= 1
  <2>1. Size * (b - a) >= Size
    BY <1>3, <1>6
  <2> QED BY <1>3, <1>4, <2>1
<1> QED BY <1>5, <1>6

\* NextPos is the position of the next number.
LEMMA NextIsNext ==
  ASSUME NEW p \in Nat
  PROVE  NextPos(p % Size) = (p + 1) % Size
<1> DEFINE r == p % Size
<1>1. PICK a \in Nat : p = Size * a + r /\ r \in 0..(Size - 1)
  BY Rounds
<1>2. PICK b \in Nat : p + 1 = Size * b + ((p + 1) % Size) /\ (p + 1) % Size \in 0..(Size - 1)
  BY Rounds
<1>3. Size \in Nat /\ Size >= 1
  BY DriverIOAssumption
<1> HIDE DEF r
<1>4. CASE r + 1 < Size
  <2>1. (r + 1) % Size = r + 1
    BY <1>1, <1>3, <1>4
  <2>2. (Size * a + (r + 1)) % Size = r + 1
    BY <1>1, <1>3, <1>4
  <2>3. p + 1 = Size * a + (r + 1)
    BY <1>1, <1>3
  <2> QED BY <2>1, <2>2, <2>3 DEF NextPos, r
<1>5. CASE r + 1 >= Size
  <2>1. r + 1 = Size
    BY <1>1, <1>3, <1>5
  <2>2. (r + 1) % Size = 0
    BY <1>3, <2>1
  <2>3. p + 1 = Size * (a + 1)
    BY <1>1, <1>3, <2>1
  <2>4. (Size * (a + 1)) % Size = 0
    BY <1>3
  <2> QED BY <2>2, <2>3, <2>4 DEF NextPos, r
<1> QED BY <1>1, <1>3, <1>4, <1>5

\* ReadInput finds as much as there is, if that is less than a buffer.
LEMMA AvailableIsLag ==
  ASSUME NEW p \in Nat, NEW q \in Nat, p <= q, q - p < Size
  PROVE  Available(q % Size, p % Size) = q - p
<1> DEFINE r == p % Size
           s == q % Size
<1>1. PICK a \in Nat : p = Size * a + r /\ r \in 0..(Size - 1)
  BY Rounds
<1>2. PICK b \in Nat : q = Size * b + s /\ s \in 0..(Size - 1)
  BY Rounds
<1>3. Size \in Nat /\ Size >= 1
  BY DriverIOAssumption
<1> HIDE DEF r, s
<1>4. q - p = Size * (b - a) + (s - r)
  BY <1>1, <1>2, <1>3
<1>5. b - a = 0 \/ b - a = 1
  <2>1. CASE b - a <= -1
    <3>1. Size * (b - a) <= -Size
      BY <1>3, <2>1
    <3> QED BY <1>1, <1>2, <1>3, <1>4, <3>1
  <2>2. CASE b - a >= 2
    <3>1. Size * (b - a) >= 2 * Size
      BY <1>3, <2>2
    <3> QED BY <1>1, <1>2, <1>3, <1>4, <3>1
  <2> QED BY <2>1, <2>2
<1>6. CASE b - a = 0
  <2>1. q - p = s - r
    BY <1>1, <1>2, <1>3, <1>4, <1>6
  <2> QED BY <1>1, <1>2, <2>1 DEF Available, r, s
<1>7. CASE b - a = 1
  <2>1. q - p = Size + (s - r)
    BY <1>1, <1>2, <1>3, <1>4, <1>7
  <2>2. s < r
    BY <1>1, <1>2, <1>3, <2>1
  <2> QED BY <1>1, <1>2, <1>3, <2>1, <2>2 DEF Available, r, s
<1> QED BY <1>5, <1>6, <1>7

-----------------------------------------------------------------------------
(* What a reader is given                                                   *)

LEMMA StreamTypes ==
  ASSUME TypeOK
  PROVE  /\ produced \in Nat /\ base \in Nat /\ base <= produced
         /\ writePos \in 0..(Size - 1) /\ readPos \in 0..(Size - 1)
         /\ mix.at \in {"idle", "copy", "advance"} /\ mix.block \in Nat /\ mix.done \in Nat
         /\ got \in [Clients -> Seq(0..MaxSamples)]
         /\ \A c \in Clients : got[c] \in Seq(0..MaxSamples) /\ Len(got[c]) \in Nat
         /\ \A c \in Clients : read[c].at \in {"idle", "loaded", "copy"}
                               /\ read[c].block \in Nat /\ read[c].done \in Nat
         /\ loopback \in [0..(Size - 1) -> 0..MaxSamples]
<1>1. /\ produced \in 0..MaxSamples /\ base \in 0..produced
      /\ mix \in Operation({"idle", "copy", "advance"})
      /\ read \in [Clients -> Operation({"idle", "loaded", "copy"})]
      /\ got \in [Clients -> Seq(0..MaxSamples)]
      /\ loopback \in [0..(Size - 1) -> 0..MaxSamples]
      /\ writePos \in 0..(Size - 1) /\ readPos \in 0..(Size - 1)
  BY DEF TypeOK
<1>2. \A c \in Clients : read[c] \in Operation({"idle", "loaded", "copy"})
  BY <1>1
<1>3. \A c \in Clients : got[c] \in Seq(0..MaxSamples) /\ Len(got[c]) \in Nat
  BY <1>1
<1>4. produced \in Nat /\ base \in Nat /\ base <= produced
  BY <1>1
<1> QED BY <1>1, <1>2, <1>3, <1>4, Fields

\* A step that leaves the buffer and what is done with it, and starts no
\* session.
LEMMA KeptStream ==
  ASSUME StreamInv, UNCHANGED <<loopback, writePos, readPos, mix, read, produced, base, got>>,
         Counted' # {} => Counted # {},
         (\A c \in Clients : io'[c] \in {"off", "stop_clear", "stop_seed"}) =>
           \A c \in Clients : io[c] \in {"off", "stop_clear", "stop_seed"},
         \A c \in Clients : io'[c] = "stop_read" => io[c] = "stop_read"
  PROVE  StreamInv'
<1>1. PositionsInv'
  BY DEF StreamInv, PositionsInv
<1>2. LagInv'
  BY DEF StreamInv, LagInv, Unread
<1>3. SlotsInv'
  BY DEF StreamInv, SlotsInv
<1>4. ReaderGetsStream'
  BY DEF StreamInv, ReaderGetsStream
<1> QED BY <1>1, <1>2, <1>3, <1>4 DEF StreamInv

LEMMA StartIOStream ==
  ASSUME Serialized, IOInv, StreamInv, NEW c \in Clients, StartIO(c)
  PROVE  StreamInv'
<1>1. UNCHANGED <<loopback, writePos, readPos, mix, read, produced>>
  BY DEF StartIO, buffers, ops
<1>2. \A d \in Clients : io[d] \in {"off", "on"}
  BY DEF StartIO, HostFree
<1>3. io \in [Clients -> IoStates]
  BY Types DEF IOInv
<1>4. CASE ioRunning # 0
  <2>1. Counted # {} /\ UNCHANGED <<base, got>> /\ io' = [io EXCEPT ![c] = "on"]
    BY <1>4, ZeroIsNone DEF IOInv, StartIO, First
  <2> QED BY <1>1, <1>2, <1>3, <2>1, KeptStream
<1>5. CASE ioRunning = 0
  <2>1. /\ base' = produced /\ got' = [d \in Clients |-> << >>]
        /\ io' = [io EXCEPT ![c] = "start_frames"] /\ Counted = {}
    BY <1>5, ZeroIsNone DEF IOInv, StartIO, First
  <2>2. \A d \in Clients : io[d] = "off"
    BY <1>2, <2>1 DEF Counted
  <2>3. writePos = 0 /\ readPos = 0
    BY <2>2 DEF StreamInv, PositionsInv
  <2>4. mix = Idle /\ \A d \in Clients : read[d] = Idle
    BY <2>2 DEF IOInv, QuietInv, On
  <2>5. produced - produced = 0 /\ produced \in Nat /\ 0 % Size = 0 /\ Lead \in Nat
    BY StreamTypes, DriverIOAssumption DEF IOInv
  <2>6. \A d \in Readers : got'[d] = << >> /\ Len(got'[d]) = 0
    BY <2>1, DriverIOAssumption
  <2>7. mix.at = "idle" /\ \A d \in Readers : read[d].at = "idle"
    BY <2>4, DriverIOAssumption DEF Idle
  <2>8. PositionsInv'
    <3>1. io'[c] = "start_frames" /\ \A d \in Clients \ {c} : io'[d] = "off"
      BY <1>3, <2>1, <2>2
    <3> QED BY <1>1, <2>1, <2>3, <2>5, <2>6, <2>7, <3>1 DEF PositionsInv
  <2>9. LagInv'
    BY <1>1, <2>1, <2>5, <2>6, <2>7 DEF LagInv, Unread
  <2>10. SlotsInv'
    BY <1>1, <2>1, <2>5, <2>6, <2>7 DEF SlotsInv
  <2>11. ReaderGetsStream'
    BY <2>6 DEF ReaderGetsStream
  <2> QED BY <2>8, <2>9, <2>10, <2>11 DEF StreamInv
<1> QED BY <1>4, <1>5

LEMMA StopStream ==
  ASSUME Serialized, IOInv, StreamInv, NEW c \in Clients,
         StopIO(c) \/ ResetFrames(c) \/ SetAnchor(c) \/ NewSeed(c)
  PROVE  StreamInv'
<1>1. UNCHANGED <<loopback, writePos, readPos, mix, read, produced, base, got>>
  BY DEF StopIO, ResetFrames, SetAnchor, NewSeed, buffers, ops, hist
<1>2. io \in [Clients -> IoStates]
  BY Types DEF IOInv
<1>3. CASE StopIO(c)
  <2>1. io[c] = "on" /\ io' = [io EXCEPT ![c] = IF Last THEN "stop_write" ELSE "off"]
    BY <1>3 DEF StopIO
  <2>2. Counted # {}
    BY <2>1 DEF Counted
  <2>3. ~Last => \E d \in Clients \ {c} : io[d] = "on"
    <3>1. SUFFICES ASSUME ~Last PROVE \E d \in Clients \ {c} : io[d] = "on"
      OBVIOUS
    <3>2. Counted # {c}
      BY <3>1, FS_Singleton DEF IOInv, QuietInv, Last
    <3> QED BY <1>3, <2>2, <3>2 DEF StopIO, HostFree, Counted, Starting
  <2> QED BY <1>1, <1>2, <2>1, <2>2, <2>3, KeptStream
<1>4. CASE ResetFrames(c) \/ SetAnchor(c)
  <2>1. PICK at \in {"start_anchor", "start_seed"} : io' = [io EXCEPT ![c] = at] /\ Starting(c)
    BY <1>4 DEF ResetFrames, SetAnchor, Starting
  <2>2. Counted # {}
    BY <2>1 DEF Counted
  <2> QED BY <1>1, <1>2, <2>1, <2>2, KeptStream
<1>5. CASE NewSeed(c)
  <2>1. /\ io[c] \in {"start_seed", "stop_seed"}
        /\ io' = [io EXCEPT ![c] = IF io[c] = "start_seed" THEN "on" ELSE "off"]
    BY <1>5 DEF NewSeed
  <2>2. Counted' = Counted
    BY <1>2, <2>1 DEF Counted, Starting
  <2> QED BY <1>1, <1>2, <2>1, <2>2, KeptStream
<1> QED BY <1>3, <1>4, <1>5

LEMMA ClearStream ==
  ASSUME IOInv, StreamInv, NEW c \in Clients, StopStep(c)
  PROVE  StreamInv'
<1>1. UNCHANGED <<got, base>> /\ Stopping(c)
  BY DEF StopStep, ResetWritePos, ResetReadPos, Clear, hist, Stopping
<1>2. io \in [Clients -> IoStates]
  BY Types DEF IOInv
<1>3. \A d \in Clients \ {c} : io[d] = "off"
  BY <1>1, <1>2 DEF IOInv, QuietInv, Stopping, On
<1>4. Counted' = {}
  BY <1>1, <1>2, <1>3 DEF Counted, Starting, StopStep, ResetWritePos, ResetReadPos, Clear
<1>5. PositionsInv'
  <2>1. CASE ResetWritePos(c)
    BY <1>2, <1>3, <1>4, <2>1 DEF ResetWritePos, PositionsInv
  <2>2. CASE ResetReadPos(c)
    BY <1>2, <1>3, <1>4, <2>2 DEF ResetReadPos, PositionsInv, StreamInv
  <2>3. CASE Clear(c)
    BY <1>2, <1>3, <1>4, <2>3 DEF Clear, PositionsInv, StreamInv
  <2> QED BY <2>1, <2>2, <2>3 DEF StopStep
<1>6. LagInv' /\ SlotsInv'
  BY <1>4 DEF LagInv, SlotsInv
<1>7. ReaderGetsStream'
  BY <1>1 DEF ReaderGetsStream, StreamInv
<1> QED BY <1>5, <1>6, <1>7 DEF StreamInv

LEMMA ClockStream ==
  ASSUME StreamInv, LoadAnchor \/ LoadFrames \/ ReturnStamp \/ Tick
  PROVE  StreamInv'
<1>1. UNCHANGED <<io, loopback, writePos, readPos, mix, read, produced, base, got>>
  BY DEF LoadAnchor, LoadFrames, ReturnStamp, Tick, buffers, hist, ops
<1>2. Counted' = Counted
  BY <1>1 DEF Counted, Starting
<1> QED BY <1>1, <1>2, KeptStream

\* A number that waits to be read is less than a buffer from the one written.
LEMMA WithinBuffer ==
  ASSUME NEW P \in Nat, NEW B \in Nat, NEW G \in Nat, NEW D \in Nat, NEW N \in Nat, NEW k \in Int,
         B <= P, D < N, (P - (B + G)) + N <= Lead, KeepsUp, k >= B + G + 1, k <= P + (D + 1)
  PROVE  /\ k - B - 1 \in Nat /\ k - B - 1 <= (P - B) + D
         /\ ((P - B) + D) - (k - B - 1) < Size
BY DriverIOAssumption DEF KeepsUp

\* The block that is published was counted by the lag.
LEMMA LagAfter ==
  ASSUME NEW P \in Nat, NEW B \in Nat, NEW G \in Nat, NEW N \in Nat, NEW m \in Int,
         G <= P - B, (P - (B + G)) + N <= Lead
  PROVE  /\ G <= (P + N) - B /\ ((P + N) - (B + G)) + 0 <= Lead
         /\ m <= P - (B + G) => m <= (P + N) - (B + G)
BY DriverIOAssumption

LEMMA MixStream ==
  ASSUME KeepsUp, IOInv, StreamInv, (\E n \in Blocks : WriteMix(n)) \/ MixStep
  PROVE  StreamInv'
<1>1. UNCHANGED <<io, readPos, read, base, got>> /\ On # {}
  BY DEF WriteMix, MixStep, WriteSample, PublishMix, AdvanceFrames, buffers, hist, IOInv, QuietInv, Idle
<1>2. Counted' = Counted /\ Counted # {} /\ \E d \in Clients : io[d] = "on"
  BY <1>1 DEF Counted, Starting, On
<1>3. ReaderGetsStream'
  BY <1>1 DEF ReaderGetsStream, StreamInv
<1>4. /\ produced \in Nat /\ base \in Nat /\ base <= produced
      /\ mix.block \in Nat /\ mix.done \in Nat /\ Lead \in Nat /\ Size \in Nat /\ Lead < Size
      /\ mix \in Operation({"idle", "copy", "advance"})
      /\ loopback \in [0..(Size - 1) -> 0..MaxSamples]
      /\ \A c \in Readers : Len(got[c]) \in Nat
  BY StreamTypes, DriverIOAssumption DEF IOInv, TypeOK, KeepsUp
<1>5. /\ writePos = (produced - base) % Size
      /\ mix.at = "copy" => mix.pos = ((produced - base) + mix.done) % Size
      /\ \A c \in Readers : /\ Len(got[c]) <= produced - base
                            /\ Unread(c) + (IF mix.at = "copy" THEN mix.block ELSE 0) <= Lead
  BY <1>2 DEF StreamInv, PositionsInv, LagInv
<1>6. ASSUME NEW c \in Readers,
             NEW k \in (base + Len(got[c]) + 1)..(produced + (IF mix.at = "copy" THEN mix.done ELSE 0))
      PROVE  loopback[(k - base - 1) % Size] = k
  BY <1>2, <1>6 DEF StreamInv, SlotsInv
<1>7. CASE \E n \in Blocks : WriteMix(n)
  <2>1. PICK n \in Blocks : WriteMix(n)
    BY <1>7
  <2>2. /\ mix.at = "idle" /\ mix' = [at |-> "copy", block |-> n, pos |-> writePos, done |-> 0]
        /\ \A c \in Readers : Unread(c) + n <= Lead
        /\ UNCHANGED <<loopback, writePos, produced>>
    BY <2>1 DEF WriteMix, buffers, hist, Idle
  <2>3. mix'.at = "copy" /\ mix'.block = n /\ mix'.pos = writePos /\ mix'.done = 0
    BY <2>2
  <2>4. PositionsInv'
    BY <1>1, <1>2, <1>4, <1>5, <2>2, <2>3 DEF StreamInv, PositionsInv
  <2>5. LagInv'
    BY <1>1, <1>2, <2>2, <2>3 DEF StreamInv, LagInv, Unread
  <2>6. SlotsInv'
    BY <1>1, <1>2, <2>2, <2>3 DEF StreamInv, SlotsInv
  <2> QED BY <1>3, <2>4, <2>5, <2>6 DEF StreamInv
<1>8. CASE WriteSample
  <2>1. /\ mix' = [mix EXCEPT !.pos = NextPos(mix.pos), !.done = mix.done + 1]
        /\ mix.at = "copy" /\ mix.done < mix.block
        /\ loopback' = [loopback EXCEPT ![mix.pos] = produced + mix.done + 1]
        /\ UNCHANGED <<writePos, produced>>
    BY <1>8 DEF WriteSample, hist
  <2>2. mix'.at = "copy" /\ mix'.block = mix.block /\ mix'.done = mix.done + 1 /\ mix'.pos = NextPos(mix.pos)
    BY <1>4, <2>1 DEF Operation
  <2> DEFINE p == (produced - base) + mix.done
  <2>3. p \in Nat /\ mix.pos = p % Size /\ p + 1 = (produced - base) + (mix.done + 1)
    <3>1. mix.pos = p % Size
      BY <1>5, <2>1
    <3>2. produced \in Nat /\ base \in Nat /\ base <= produced /\ mix.done \in Nat
      BY <1>4
    <3>3. p \in Nat /\ p + 1 = (produced - base) + (mix.done + 1)
      BY <3>2
    <3> QED BY <3>1, <3>3
  <2>4. mix'.pos = (p + 1) % Size
    BY <2>2, <2>3, NextIsNext
  <2>5. PositionsInv'
    BY <1>1, <1>2, <2>1, <2>2, <2>3, <2>4 DEF StreamInv, PositionsInv
  <2>6. LagInv'
    BY <1>1, <1>2, <2>1, <2>2 DEF StreamInv, LagInv, Unread
  <2>7. SlotsInv'
    <3>1. SUFFICES ASSUME NEW c \in Readers,
                          NEW k \in (base + Len(got[c]) + 1)..(produced + (mix.done + 1))
                   PROVE  loopback'[(k - base - 1) % Size] = k
      BY <1>1, <2>1, <2>2 DEF SlotsInv
    <3>2. k \in Int /\ k >= base + Len(got[c]) + 1 /\ k <= produced + (mix.done + 1) /\ Len(got[c]) \in Nat
      BY <1>4, <3>1
    <3> DEFINE q == k - base - 1
    <3>3. q \in Nat /\ q <= p /\ p - q < Size
      <4>1. produced - (base + Len(got[c])) + mix.block <= Lead
        BY <1>5, <2>1 DEF Unread
      <4>2. /\ produced \in Nat /\ base \in Nat /\ base <= produced /\ mix.done < mix.block
            /\ mix.block \in Nat /\ mix.done \in Nat
        BY <1>4, <2>1
      <4> QED BY <3>2, <4>1, <4>2, WithinBuffer
    <3>4. mix.pos \in 0..(Size - 1) /\ q % Size \in 0..(Size - 1)
      BY <1>4, <3>3, Fields, InBuffer
    <3>5. CASE q = p
      <4>1. k = produced + mix.done + 1
        <5>1. produced \in Nat /\ base \in Nat /\ mix.done \in Nat
          BY <1>4
        <5> QED BY <3>2, <3>5, <5>1
      <4>2. loopback'[mix.pos] = produced + mix.done + 1
        BY <1>4, <2>1, <3>4
      <4>3. mix.pos = q % Size
        BY <2>3, <3>5
      <4> QED BY <4>1, <4>2, <4>3
    <3>6. CASE q # p
      <4>1. q % Size # p % Size
        BY <2>3, <3>3, <3>6, SameSlot
      <4>2. loopback'[q % Size] = loopback[q % Size]
        BY <1>4, <2>1, <2>3, <3>4, <4>1
      <4>3. k \in (base + Len(got[c]) + 1)..(produced + mix.done)
        <5>1. produced \in Nat /\ base \in Nat /\ mix.done \in Nat
          BY <1>4
        <5> QED BY <3>2, <3>3, <3>6, <5>1
      <4> QED BY <1>6, <2>1, <4>2, <4>3
    <3> QED BY <3>5, <3>6
  <2> QED BY <1>3, <2>5, <2>6, <2>7 DEF StreamInv
<1>9. CASE PublishMix
  <2>1. /\ mix.at = "copy" /\ mix.done = mix.block /\ writePos' = mix.pos
        /\ produced' = produced + mix.block /\ mix' = [mix EXCEPT !.at = "advance"]
        /\ UNCHANGED loopback
    BY <1>9 DEF PublishMix
  <2>2. mix'.at = "advance"
    BY <1>4, <2>1 DEF Operation
  <2>3. produced' - base = (produced - base) + mix.done
    BY <1>4, <2>1
  <2>4. PositionsInv'
    <3>1. writePos' = (produced' - base) % Size
      <4>1. mix.pos = ((produced - base) + mix.done) % Size
        BY <1>5, <2>1
      <4> QED BY <2>1, <2>3, <4>1
    <3>2. \A c \in Clients : io'[c] # "stop_read"
      BY <1>1 DEF IOInv, QuietInv
    <3> QED BY <1>1, <1>2, <2>2, <3>1, <3>2 DEF StreamInv, PositionsInv
  <2>5. LagInv'
    <3>1. SUFFICES ASSUME NEW c \in Readers
                   PROVE  /\ Len(got[c]) <= produced' - base
                          /\ produced' - (base + Len(got[c])) + 0 <= Lead
                          /\ read[c].at = "loaded" => read[c].done = 0
                          /\ read[c].at = "copy" =>
                               /\ read[c].done <= read[c].block
                               /\ read[c].block - read[c].done <= produced' - (base + Len(got[c]))
      BY <1>1, <2>2 DEF LagInv, Unread
    <3>2. /\ Len(got[c]) <= produced - base
          /\ produced - (base + Len(got[c])) + mix.block <= Lead
          /\ read[c].at = "loaded" => read[c].done = 0
          /\ read[c].at = "copy" =>
               /\ read[c].done <= read[c].block
               /\ read[c].block - read[c].done <= produced - (base + Len(got[c]))
      BY <1>2, <2>1 DEF StreamInv, LagInv, Unread
    <3>3. read[c].done \in Nat /\ read[c].block \in Nat
      BY StreamTypes, DriverIOAssumption DEF IOInv
    <3>4. /\ produced \in Nat /\ base \in Nat /\ base <= produced /\ mix.block \in Nat
          /\ Lead \in Nat /\ Len(got[c]) \in Nat /\ produced' = produced + mix.block
      BY <1>4, <2>1
    <3>5. read[c].block - read[c].done \in Int
      BY <3>3
    <3> QED BY <3>2, <3>4, <3>5, LagAfter
  <2>6. SlotsInv'
    <3>1. SUFFICES ASSUME NEW c \in Readers, NEW k \in (base + Len(got[c]) + 1)..(produced' + 0)
                   PROVE  loopback[(k - base - 1) % Size] = k
      BY <1>1, <2>1, <2>2 DEF SlotsInv
    <3>2. produced' + 0 = produced + mix.done
      BY <1>4, <2>1
    <3> QED BY <1>6, <2>1, <3>1, <3>2
  <2> QED BY <1>3, <2>4, <2>5, <2>6 DEF StreamInv
<1>10. CASE AdvanceFrames
  <2>1. mix.at = "advance" /\ mix' = Idle /\ UNCHANGED <<loopback, writePos, produced>>
    BY <1>10 DEF AdvanceFrames, buffers, hist
  <2>2. mix'.at = "idle"
    BY <2>1 DEF Idle
  <2>3. PositionsInv'
    BY <1>1, <1>2, <2>1, <2>2 DEF StreamInv, PositionsInv
  <2>4. LagInv'
    BY <1>1, <1>2, <2>1, <2>2 DEF StreamInv, LagInv, Unread
  <2>5. SlotsInv'
    BY <1>1, <1>2, <2>1, <2>2 DEF StreamInv, SlotsInv
  <2> QED BY <1>3, <2>3, <2>4, <2>5 DEF StreamInv
<1> QED BY <1>7, <1>8, <1>9, <1>10 DEF MixStep

LEMMA ReadStream ==
  ASSUME OneReader, KeepsUp, IOInv, StreamInv, NEW c \in Clients,
         (\E n \in Blocks : ReadInput(c, n)) \/ ReadStep(c)
  PROVE  StreamInv'
<1>1. /\ UNCHANGED <<io, loopback, writePos, mix, produced, base>>
      /\ c \in Readers /\ io[c] = "on"
  BY DEF ReadInput, ReadStep, LoadWritePos, ReadSample, PublishRead, clock, buffers, hist, IOInv,
         QuietInv, Idle
<1>2. Counted' = Counted /\ c \in Counted
  BY <1>1 DEF Counted, Starting
<1>3. \A d \in Readers : d = c
  BY <1>1 DEF OneReader
<1>4. \A d \in Clients : io[d] # "stop_read"
  BY <1>1 DEF IOInv, QuietInv, On
<1> DEFINE G == Len(got[c])
           op == read[c]
<1>5. /\ produced \in Nat /\ base \in Nat /\ base <= produced /\ G \in Nat
      /\ op.block \in Nat /\ op.done \in Nat /\ op \in Operation({"idle", "loaded", "copy"})
      /\ Lead \in Nat /\ Size \in Nat /\ Lead < Size /\ mix.block \in Nat
      /\ got \in [Clients -> Seq(0..MaxSamples)] /\ got[c] \in Seq(0..MaxSamples)
      /\ read \in [Clients -> Operation({"idle", "loaded", "copy"})]
  BY StreamTypes, DriverIOAssumption DEF IOInv, TypeOK, KeepsUp
<1>6. /\ writePos = (produced - base) % Size
      /\ op.at # "copy" => readPos = G % Size
      /\ op.at # "idle" => op.pos = G % Size
      /\ G <= produced - base
      /\ produced - (base + G) <= Lead
      /\ op.at = "loaded" => op.done = 0
      /\ op.at = "copy" => op.done <= op.block /\ op.block - op.done <= produced - (base + G)
  <2>1. /\ writePos = (produced - base) % Size
        /\ op.at # "copy" => readPos = G % Size
        /\ op.at # "idle" => op.pos = G % Size
    BY <1>1, <1>2 DEF StreamInv, PositionsInv
  <2>2. /\ G <= produced - base
        /\ Unread(c) + (IF mix.at = "copy" THEN mix.block ELSE 0) <= Lead
        /\ op.at = "loaded" => op.done = 0
        /\ op.at = "copy" => op.done <= op.block /\ op.block - op.done <= Unread(c)
    BY <1>1, <1>2 DEF StreamInv, LagInv
  <2>3. Unread(c) = produced - (base + G)
    BY DEF Unread
  <2>4. produced - (base + G) <= Lead
    BY <1>5, <2>2, <2>3
  <2> QED BY <2>1, <2>2, <2>3, <2>4
<1>7. ASSUME /\ UNCHANGED got
             /\ read'[c].at # "copy" => readPos' = G % Size
             /\ read'[c].at # "idle" => read'[c].pos = G % Size
             /\ read'[c].at = "loaded" => read'[c].done = 0
             /\ read'[c].at = "copy" =>
                  read'[c].done <= read'[c].block /\ read'[c].block - read'[c].done <= produced - (base + G)
      PROVE  StreamInv'
  <2>1. PositionsInv'
    BY <1>1, <1>2, <1>3, <1>4, <1>6, <1>7 DEF StreamInv, PositionsInv
  <2>2. LagInv'
    BY <1>1, <1>2, <1>3, <1>7 DEF StreamInv, LagInv, Unread
  <2>3. SlotsInv'
    BY <1>1, <1>2, <1>7 DEF StreamInv, SlotsInv
  <2>4. ReaderGetsStream'
    BY <1>1, <1>7 DEF StreamInv, ReaderGetsStream
  <2> QED BY <2>1, <2>2, <2>3, <2>4 DEF StreamInv
<1>8. CASE \E n \in Blocks : ReadInput(c, n)
  <2>1. PICK n \in Blocks : ReadInput(c, n)
    BY <1>8
  <2>2. /\ op = Idle /\ UNCHANGED <<readPos, got>>
        /\ read' = [read EXCEPT ![c] = [at |-> "loaded", block |-> n, pos |-> readPos, done |-> 0]]
    BY <2>1 DEF ReadInput, buffers, hist
  <2>3. op.at = "idle"
    BY <2>2 DEF Idle
  <2>4. read'[c].at = "loaded" /\ read'[c].pos = readPos /\ read'[c].done = 0
    BY <1>5, <2>2
  <2> QED BY <1>6, <1>7, <2>2, <2>3, <2>4
<1>9. CASE LoadWritePos(c)
  <2>1. /\ op.at = "loaded" /\ UNCHANGED <<readPos, got>>
        /\ read' = [read EXCEPT ![c] =
             IF Available(writePos, op.pos) >= op.block THEN [op EXCEPT !.at = "copy"] ELSE Idle]
    BY <1>9 DEF LoadWritePos, buffers, hist
  <2>2. Available(writePos, op.pos) = produced - (base + G)
    <3>1. /\ produced - base \in Nat /\ (produced - base) - G < Size
          /\ (produced - base) - G = produced - (base + G)
      BY <1>5, <1>6
    <3> QED BY <1>5, <1>6, <2>1, <3>1, AvailableIsLag
  <2>3. CASE Available(writePos, op.pos) >= op.block
    <3>1. read'[c] = [op EXCEPT !.at = "copy"]
      BY <1>5, <2>1, <2>3
    <3>2. read'[c].at = "copy" /\ read'[c].pos = op.pos /\ read'[c].done = op.done /\ read'[c].block = op.block
      BY <1>5, <3>1 DEF Operation
    <3>3. op.done = 0 /\ op.pos = G % Size
      BY <1>6, <2>1
    <3>4. op.done <= op.block /\ op.block - op.done <= produced - (base + G)
      BY <1>5, <2>2, <2>3, <3>3
    <3> QED BY <1>7, <2>1, <3>2, <3>3, <3>4
  <2>4. CASE ~(Available(writePos, op.pos) >= op.block)
    <3>1. read'[c] = Idle
      BY <1>5, <2>1, <2>4
    <3>2. read'[c].at = "idle"
      BY <3>1 DEF Idle
    <3> QED BY <1>6, <1>7, <2>1, <3>2
  <2> QED BY <2>3, <2>4
<1>10. CASE PublishRead(c)
  <2>1. op.at = "copy" /\ readPos' = op.pos /\ UNCHANGED got /\ read' = [read EXCEPT ![c] = Idle]
    BY <1>10 DEF PublishRead, hist
  <2>2. read'[c].at = "idle"
    BY <1>5, <2>1 DEF Idle
  <2> QED BY <1>6, <1>7, <2>1, <2>2
<1>11. CASE ReadSample(c)
  <2>1. /\ op.at = "copy" /\ op.done < op.block /\ UNCHANGED readPos
        /\ got' = [got EXCEPT ![c] = Append(got[c], loopback[op.pos])]
        /\ read' = [read EXCEPT ![c] = [op EXCEPT !.pos = NextPos(op.pos), !.done = op.done + 1]]
    BY <1>5, <1>11 DEF ReadSample, buffers
  <2>2. /\ read'[c].at = "copy" /\ read'[c].block = op.block /\ read'[c].done = op.done + 1
        /\ read'[c].pos = NextPos(op.pos)
    <3>1. read'[c] = [op EXCEPT !.pos = NextPos(op.pos), !.done = op.done + 1]
      BY <1>5, <2>1
    <3> QED BY <1>5, <2>1, <3>1 DEF Operation
  <2>3. op.pos = G % Size /\ read'[c].pos = (G + 1) % Size
    BY <1>5, <1>6, <2>1, <2>2, NextIsNext
  <2>4. /\ op.done + 1 <= op.block /\ G + 1 <= produced - base
        /\ op.block - (op.done + 1) <= produced - (base + (G + 1))
    <3>1. /\ produced \in Nat /\ base \in Nat /\ G \in Nat /\ op.block \in Nat /\ op.done \in Nat
          /\ op.done < op.block /\ op.block - op.done <= produced - (base + G)
      BY <1>5, <1>6, <2>1
    <3> HIDE DEF G, op
    <3> QED BY <3>1
  <2>5. loopback[op.pos] = base + G + 1
    <3>1. /\ base + G + 1 \in (base + G + 1)..produced
          /\ ((base + G + 1) - base) - 1 = G
      BY <1>5, <2>4
    <3>2. /\ mix.done \in Nat /\ produced \in Nat
          /\ \A k \in (base + G + 1)..produced :
               k \in (base + G + 1)..(produced + (IF mix.at = "copy" THEN mix.done ELSE 0))
      BY <1>5, StreamTypes DEF IOInv
    <3>3. \A k \in (base + G + 1)..produced : loopback[(k - base - 1) % Size] = k
      BY <1>1, <1>2, <3>2 DEF StreamInv, SlotsInv
    <3> QED BY <2>3, <3>1, <3>3
  <2>6. /\ got'[c] = Append(got[c], base + G + 1)
        /\ Len(got'[c]) = G + 1
    BY <1>5, <2>1, <2>5
  <2>7. PositionsInv'
    BY <1>1, <1>2, <1>3, <1>4, <1>6, <2>2, <2>3, <2>6 DEF StreamInv, PositionsInv
  <2>8. LagInv'
    <3>1. SUFFICES /\ G + 1 <= produced - base
                   /\ (produced - (base + (G + 1))) + (IF mix.at = "copy" THEN mix.block ELSE 0) <= Lead
                   /\ op.done + 1 <= op.block
                   /\ op.block - (op.done + 1) <= produced - (base + (G + 1))
      BY <1>1, <1>3, <2>2, <2>6 DEF LagInv, Unread
    <3>2. (produced - (base + G)) + (IF mix.at = "copy" THEN mix.block ELSE 0) <= Lead
      BY <1>1, <1>2 DEF StreamInv, LagInv, Unread
    <3> QED BY <1>5, <2>4, <3>2
  <2>9. SlotsInv'
    <3>1. SUFFICES ASSUME NEW k \in (base + (G + 1) + 1)..(produced + (IF mix.at = "copy" THEN mix.done ELSE 0))
                   PROVE  loopback[(k - base - 1) % Size] = k
      BY <1>1, <1>3, <2>6 DEF SlotsInv
    <3>2. k \in (base + G + 1)..(produced + (IF mix.at = "copy" THEN mix.done ELSE 0))
      BY <1>5, <3>1
    <3> QED BY <1>1, <1>2, <3>2 DEF StreamInv, SlotsInv
  <2>10. ReaderGetsStream'
    <3>1. got[c] = [i \in 1..G |-> base + i]
      BY <1>1 DEF StreamInv, ReaderGetsStream
    <3>2. Append(got[c], base + G + 1) = [i \in 1..(G + 1) |-> base + i]
      BY <1>5, <3>1
    <3> QED BY <1>1, <1>3, <2>6, <3>2 DEF ReaderGetsStream
  <2> QED BY <2>7, <2>8, <2>9, <2>10 DEF StreamInv
<1> QED BY <1>8, <1>9, <1>10, <1>11 DEF ReadStep

LEMMA StreamInit == Init => StreamInv
<1> SUFFICES ASSUME Init PROVE StreamInv
  OBVIOUS
<1> USE DEF Init
<1>1. Counted = {}
  BY DEF Counted, Starting
<1>2. PositionsInv /\ LagInv /\ SlotsInv
  BY <1>1 DEF PositionsInv, LagInv, SlotsInv
<1>3. ReaderGetsStream
  <2>1. \A c \in Readers : got[c] = << >> /\ Len(got[c]) = 0
    BY DriverIOAssumption
  <2> QED BY <2>1 DEF ReaderGetsStream
<1> QED BY <1>2, <1>3 DEF StreamInv

\* For any buffer, blocks and sessions a router that is alone and keeps within
\* a buffer of the player is given what is played in its session, in order and
\* with nothing lost or left over (virtual_audio_driver.c:475, 489), though
\* the writer looks at no position but its own.
THEOREM StreamRead == Serialized /\ OneReader /\ KeepsUp /\ Spec => []ReaderGetsStream
<1> SUFFICES ASSUME Serialized, OneReader, KeepsUp PROVE Spec => []ReaderGetsStream
  OBVIOUS
<1>1. IOInv /\ StreamInv /\ [Next]_vars => IOInv' /\ StreamInv'
  <2>1. ASSUME StreamInv, UNCHANGED vars PROVE StreamInv'
    <3>1. UNCHANGED <<io, loopback, writePos, readPos, mix, read, produced, base, got>>
      BY <2>1 DEF vars, buffers, ops, hist
    <3>2. Counted' = Counted
      BY <3>1 DEF Counted, Starting
    <3> QED BY <2>1, <3>1, <3>2, KeptStream
  <2> QED BY <2>1, IOInvStep, StartIOStream, StopStream, ClearStream, ClockStream, MixStream, ReadStream
          DEF Next, StartStep
<1>2. StreamInv => ReaderGetsStream
  BY DEF StreamInv
<1> QED BY <1>1, <1>2, IOInvInit, StreamInit, PTL DEF Spec
==============================================================================
