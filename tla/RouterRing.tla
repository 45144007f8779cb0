----------------------------- MODULE RouterRing ------------------------------
(***************************************************************************)
(* The lock-free ring buffer of src/audio_router.c.  One HAL thread runs   *)
(* input_callback -> rb_write, another runs output_callback -> rb_read.    *)
(* Every access to a variable both threads use is a step of its own:       *)
(* loading the other side's position, copying one sample, storing one's    *)
(* own position, and each store and load of rb_update_stats.  The samples  *)
(* accepted are numbered 1, 2, ... so that a sample that is lost, repeated *)
(* or overwritten can be told from the one that was due.                   *)
(***************************************************************************)
EXTENDS Integers, Sequences

CONSTANTS
  Capacity,   \* TOTAL_SAMPLES: samples in the buffer, 4096 in the code
  Word,       \* positions are unsigned integers modulo Word, 2^32 in the code
  InBlocks,   \* sample counts an input callback may bring
  OutBlocks,  \* sample counts an output callback may ask for
  CountWord,  \* the statistics counters are modulo CountWord
  MaxTotal    \* bound: samples accepted in one session

ASSUME RingAssumption ==
  /\ Capacity \in Nat \ {0}
  /\ Word \in Nat \ {0}
  /\ Capacity <= Word /\ Word % Capacity = 0
  /\ InBlocks \subseteq Nat \ {0}
  /\ OutBlocks \subseteq Nat \ {0}
  /\ CountWord \in Nat \ {0}
  /\ MaxTotal \in Nat

\* The thread running input_callback and the one running output_callback.
Threads == {"in", "out"}

VARIABLES
  buffer, write_pos, read_pos,                      \* RouterRingBuffer
  current_usage, samples_buffered, peak_usage,
  overrun_count, underrun_count, frames_transferred,
  pc,        \* where each thread is
  block,     \* its sample_count
  level,     \* its size (available), then the fill it reports
  done,      \* samples it has copied
  data,      \* the output block as copied so far
  accepted,  \* history: samples published by the writer
  played,    \* history: samples released by the reader
  output,    \* history: the block delivered last
  dropped    \* history: the size of the block dropped last

ring   == <<buffer, write_pos, read_pos>>
gauges == <<current_usage, samples_buffered, peak_usage>>
counts == <<overrun_count, underrun_count, frames_transferred>>
locals == <<pc, block, level, done, data>>
hist   == <<accepted, played, output, dropped>>
vars   == <<ring, gauges, counts, locals, hist>>

Silence == 0

\* buffer[pos & ROUTER_BUFFER_MASK]
SlotOfFrames(pos) == pos % (Capacity \div 2)
Slot(pos) == pos % Capacity

\* The samples between the positions, as rb_write and rb_read compute them.
UsedLessOne(w, r) == IF w > r THEN w - r - 1 ELSE 0
Used(w, r) == IF w >= r THEN w - r ELSE (Capacity - r + w) % Word

\* Room for the writer: one slot is kept back to tell full from empty.
FreeUpToFull(size) == (Capacity - size) % Word
FreeKeepingTwo(size) == (Capacity - 2 - size) % Word
FreeWhenEmpty(size) == Capacity - 1
Free(size) == (Capacity - 1 - size) % Word

UsagePercent(samples) == (samples * 100) \div Capacity

\* The copy loop has run to its end.
LoopEntered(t) == TRUE
LoopEnded(t) == done[t] = block[t]

Goto(t, label) == pc' = [pc EXCEPT ![t] = label]

Init ==
  /\ buffer = [s \in 0..(Capacity - 1) |-> Silence]
  /\ write_pos = 0 /\ read_pos = 0
  /\ current_usage = 0 /\ samples_buffered = 0 /\ peak_usage = 0
  /\ overrun_count = 0 /\ underrun_count = 0 /\ frames_transferred = 0
  /\ pc = [t \in Threads |-> "idle"]
  /\ block = [t \in Threads |-> 0]
  /\ level = [t \in Threads |-> 0]
  /\ done = [t \in Threads |-> 0]
  /\ data = <<>>
  /\ accepted = 0 /\ played = 0 /\ output = <<>> /\ dropped = 0

-----------------------------------------------------------------------------
(* rb_write                                                                 *)

\* Loads both positions; a block that does not fit is dropped whole.
InLoad(n) ==
  LET size == Used(write_pos, read_pos)
      full == Free(size) < n
  IN
  /\ pc["in"] = "idle"
  /\ accepted + n <= MaxTotal
  /\ block' = [block EXCEPT !["in"] = n]
  /\ level' = [level EXCEPT !["in"] = size]
  /\ done' = [done EXCEPT !["in"] = 0]
  /\ overrun_count' = IF full THEN (overrun_count + 1) % CountWord ELSE overrun_count
  /\ dropped' = IF full THEN n ELSE dropped
  /\ Goto("in", IF full THEN "frames" ELSE "copy")
  /\ UNCHANGED <<ring, gauges, underrun_count, frames_transferred, data,
                 accepted, played, output>>

InCopy ==
  /\ pc["in"] = "copy" /\ done["in"] < block["in"]
  /\ buffer' = [buffer EXCEPT ![Slot(write_pos + done["in"])] = accepted + done["in"] + 1]
  /\ done' = [done EXCEPT !["in"] = @ + 1]
  /\ UNCHANGED <<write_pos, read_pos, gauges, counts, pc, block, level, data, hist>>

\* The release store of write_pos makes the block visible to the reader.
InPublish ==
  /\ pc["in"] = "copy" /\ LoopEnded("in")
  /\ write_pos' = (write_pos + block["in"]) % Word
  /\ accepted' = accepted + block["in"]
  /\ level' = [level EXCEPT !["in"] = @ + block["in"]]
  /\ Goto("in", "usage")
  /\ UNCHANGED <<buffer, read_pos, gauges, counts, block, done, data, played, output,
                 dropped>>

\* input_callback counts the block's frames, dropped or not.
InFrames ==
  /\ pc["in"] = "frames"
  /\ frames_transferred' = (frames_transferred + block["in"]) % CountWord
  /\ Goto("in", "idle")
  /\ UNCHANGED <<ring, gauges, overrun_count, underrun_count, block, level, done,
                 data, hist>>

-----------------------------------------------------------------------------
(* rb_read                                                                  *)

\* Loads both positions; a block that is not all there is played as silence.
OutLoad(n) ==
  LET available == Used(write_pos, read_pos)
      short == available < n
  IN
  /\ pc["out"] = "idle"
  /\ block' = [block EXCEPT !["out"] = n]
  /\ level' = [level EXCEPT !["out"] = available]
  /\ done' = [done EXCEPT !["out"] = 0]
  /\ data' = <<>>
  /\ underrun_count' = IF short THEN (underrun_count + 1) % CountWord ELSE underrun_count
  /\ output' = IF short THEN [i \in 1..n |-> Silence] ELSE output
  /\ Goto("out", IF short THEN "usage" ELSE "copy")
  /\ UNCHANGED <<ring, gauges, overrun_count, frames_transferred, accepted, played,
                 dropped>>

OutCopy ==
  /\ pc["out"] = "copy" /\ done["out"] < block["out"]
  /\ data' = Append(data, buffer[Slot(read_pos + done["out"])])
  /\ done' = [done EXCEPT !["out"] = @ + 1]
  /\ UNCHANGED <<ring, gauges, counts, pc, block, level, hist>>

\* The release store of read_pos gives the slots back to the writer.
OutPublish ==
  /\ pc["out"] = "copy" /\ LoopEnded("out")
  /\ read_pos' = (read_pos + block["out"]) % Word
  /\ played' = played + block["out"]
  /\ output' = data
  /\ level' = [level EXCEPT !["out"] = @ - block["out"]]
  /\ Goto("out", "usage")
  /\ UNCHANGED <<buffer, write_pos, gauges, counts, block, done, data, accepted, dropped>>

-----------------------------------------------------------------------------
(* rb_update_stats, run by both threads                                     *)

StoreUsageAlone(t) ==
  /\ pc[t] = "usage"
  /\ \A u \in Threads \ {t} : pc[u] \notin {"buffered", "peak", "raise"}
  /\ current_usage' = UsagePercent(level[t])
  /\ Goto(t, "buffered")
  /\ UNCHANGED <<ring, samples_buffered, peak_usage, counts, block, level, done,
                 data, hist>>
StoreUsage(t) ==
  /\ pc[t] = "usage"
  /\ current_usage' = UsagePercent(level[t])
  /\ Goto(t, "buffered")
  /\ UNCHANGED <<ring, samples_buffered, peak_usage, counts, block, level, done,
                 data, hist>>

StoreBuffered(t) ==
  /\ pc[t] = "buffered"
  /\ samples_buffered' = level[t]
  /\ Goto(t, "peak")
  /\ UNCHANGED <<ring, current_usage, peak_usage, counts, block, level, done,
                 data, hist>>

\* Where the thread goes once its statistics are stored.
Return(t) == IF t = "in" THEN "frames" ELSE "idle"

LoadPeak(t) ==
  /\ pc[t] = "peak"
  /\ Goto(t, IF UsagePercent(level[t]) > peak_usage THEN "raise" ELSE Return(t))
  /\ UNCHANGED <<ring, gauges, counts, block, level, done, data, hist>>

StorePeak(t) ==
  /\ pc[t] = "raise"
  /\ peak_usage' = UsagePercent(level[t])
  /\ Goto(t, Return(t))
  /\ UNCHANGED <<ring, current_usage, samples_buffered, counts, block, level,
                 done, data, hist>>

-----------------------------------------------------------------------------
UpdateStats(t) == StoreUsage(t) \/ StoreBuffered(t) \/ LoadPeak(t) \/ StorePeak(t)

\* One step of a callback that is under way.
InStep  == InCopy \/ InPublish \/ InFrames \/ UpdateStats("in")
OutStep == OutCopy \/ OutPublish \/ UpdateStats("out")

Next ==
  \/ \E n \in InBlocks : InLoad(n)
  \/ \E n \in OutBlocks : OutLoad(n)
  \/ InStep
  \/ OutStep

Spec == Init /\ [][Next]_vars

\* The HAL keeps calling the output callback and never stops its threads in
\* the middle of one.
Fairness ==
  /\ WF_vars(InStep)
  /\ WF_vars(OutStep)
  /\ WF_vars(\E n \in OutBlocks : OutLoad(n))

-----------------------------------------------------------------------------
(* Properties                                                               *)

Labels == {"idle", "copy", "usage", "buffered", "peak", "raise", "frames"}

RingType ==
  /\ buffer \in [0..(Capacity - 1) -> 0..MaxTotal]
  /\ write_pos \in 0..(Word - 1) /\ read_pos \in 0..(Word - 1)

StatsType ==
  /\ current_usage \in Nat /\ peak_usage \in Nat
  /\ samples_buffered \in 0..(Capacity - 1)
  /\ overrun_count \in 0..(CountWord - 1)
  /\ underrun_count \in 0..(CountWord - 1)
  /\ frames_transferred \in 0..(CountWord - 1)

LocalsType ==
  /\ pc \in [Threads -> Labels]
  /\ block \in [Threads -> Nat]
  /\ level \in [Threads -> 0..(Capacity - 1)]
  /\ done \in [Threads -> Nat]
  /\ data \in Seq(0..MaxTotal)

HistType ==
  /\ accepted \in 0..MaxTotal /\ played \in 0..MaxTotal
  /\ output \in Seq(0..MaxTotal)
  /\ dropped \in Nat

\* The state is well formed: positions are words, and the fill a thread
\* computes and reports never reaches the capacity.
TypeOK == RingType /\ StatsType /\ LocalsType /\ HistType

\* Between the acceptance of a sample and the store that releases its slot,
\* nothing overwrites it, whatever the two callbacks are in the middle of.
UnreadIntact ==
  \A k \in (played + 1)..accepted : buffer[Slot(k - 1)] = k

\* rb_read hands out the samples it is due, in order, without loss,
\* repetition or one the writer has not published yet.
PlayedInOrder ==
  pc["out"] = "copy" => \A i \in 1..Len(data) : data[i] = played + i

\* The float slots are plain memory: the writer's next slot is never one the
\* reader still has to copy in the block it is delivering.
NoSlotRace ==
  pc["in"] = "copy" /\ done["in"] < block["in"] /\ pc["out"] = "copy" =>
    \A i \in done["out"]..(block["out"] - 1) :
      Slot(write_pos + done["in"]) # Slot(read_pos + i)

\* The two sides never wait for each other: a callback whose own thread runs
\* returns, even if the other thread stands still in the middle of its own.
InWaitFree  == WF_vars(InStep) => (pc["in"] # "idle" ~> pc["in"] = "idle")
OutWaitFree == WF_vars(OutStep) => (pc["out"] # "idle" ~> pc["out"] = "idle")

\* With blocks of one size on both sides no accepted sample stays in the
\* buffer for ever.
EveryAcceptedIsPlayed ==
  Fairness => \A k \in 1..MaxTotal : accepted >= k ~> played >= k

\* The watermark is the highest fill seen, so it only rises
\* (audio_router.h:28, audio_router.c:121).
PeakOnlyRises == [][peak_usage' >= peak_usage]_peak_usage

\* frames_transferred counts what went through the router
\* (audio_router.h:131): at most what the writer has put into the buffer.
TransferredWereAccepted ==
  pc["in"] = "idle" => frames_transferred <= accepted

\* The ring buffer is the bounded queue of RouterQueue, whose content is what
\* lies between the two positions.
Queue == INSTANCE RouterQueue WITH
  queue <- [i \in 1..((write_pos - read_pos) % Word) |-> buffer[Slot(read_pos + i - 1)]],
  overruns <- overrun_count,
  underruns <- underrun_count
ImplementsQueue == Queue!Spec

=============================================================================
