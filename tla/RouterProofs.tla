---------------------------- MODULE RouterProofs ----------------------------
(***************************************************************************)
(* The router is correct.  First its ring buffer, RouterRing: for every    *)
(* capacity, block size and word, as long as the positions do not wrap     *)
(* around (NoWrap).  Then its start and stop, RouterLifecycle: for every   *)
(* set of volumes, and whichever calls of the HAL fail.                    *)
(***************************************************************************)
EXTENDS RouterRing, RouterLifecycle, TLAPS

\* In one session fewer samples are accepted than a position can count.
NoWrap == MaxTotal < Word

\* Without wrap-around a position is the number of samples that passed it, and
\* one slot always stays free.
PositionsInv ==
  /\ write_pos = accepted /\ read_pos = played
  /\ played <= accepted /\ accepted - played <= Capacity - 1

\* What rb_write established before it copies, and what it has copied.
WriterInv ==
  pc["in"] = "copy" =>
    /\ done["in"] <= block["in"]
    /\ accepted + block["in"] <= MaxTotal
    /\ accepted + block["in"] - played <= Capacity - 1
    /\ level["in"] + block["in"] <= Capacity - 1
    /\ \A k \in (accepted + 1)..(accepted + done["in"]) : buffer[Slot(k - 1)] = k

\* What rb_read established before it copies, and what it has copied.
ReaderInv ==
  pc["out"] = "copy" =>
    /\ done["out"] <= block["out"]
    /\ block["out"] <= accepted - played
    /\ block["out"] <= level["out"]
    /\ Len(data) = done["out"]
    /\ \A i \in 1..Len(data) : data[i] = played + i

IInv == TypeOK /\ PositionsInv /\ WriterInv /\ ReaderInv /\ UnreadIntact

-----------------------------------------------------------------------------
\* Slot(pos) is an index of the buffer.
LEMMA SlotInRange ==
  ASSUME NEW p \in Nat
  PROVE  Slot(p) \in 0..(Capacity - 1)
BY RingAssumption DEF Slot

\* Positions less than a buffer apart fall on different slots: the mask loses
\* nothing while at most Capacity samples are in the ring.
LEMMA SlotsDiffer ==
  ASSUME NEW p \in Nat, NEW q \in Nat, p < q, q - p < Capacity
  PROVE  Slot(p) # Slot(q)
<1>1. SUFFICES ASSUME Slot(p) = Slot(q) PROVE FALSE
  OBVIOUS
<1> DEFINE a == p \div Capacity
           b == q \div Capacity
           r == p % Capacity
<1>2. /\ a \in Int /\ b \in Int /\ r \in Int
      /\ p = Capacity * a + r /\ q = Capacity * b + r
  BY <1>1, RingAssumption DEF Slot
<1> HIDE DEF a, b, r
<1>3. q - p = Capacity * (b - a)
  BY <1>2, RingAssumption
<1>4. CASE b - a <= 0
  BY <1>2, <1>3, <1>4, RingAssumption
<1>5. CASE b - a >= 1
  BY <1>2, <1>3, <1>5, RingAssumption
<1> QED BY <1>2, <1>4, <1>5

-----------------------------------------------------------------------------
\* Without wrap-around both callbacks compute the true fill.
LEMMA UsedIsFill ==
  ASSUME PositionsInv, HistType
  PROVE  /\ Used(write_pos, read_pos) = accepted - played
         /\ Used(write_pos, read_pos) \in 0..(Capacity - 1)
BY RingAssumption DEF PositionsInv, HistType, Used

\* The room the writer computes is the buffer less the fill and the slot kept free.
LEMMA FreeIsRoom ==
  ASSUME NEW size \in 0..(Capacity - 1)
  PROVE  Free(size) = Capacity - 1 - size
BY RingAssumption DEF Free

\* A usage is a percentage of the buffer.
LEMMA UsageIsNat ==
  ASSUME NEW s \in Nat
  PROVE  UsagePercent(s) \in Nat
BY RingAssumption DEF UsagePercent

\* What is unread when the reader has moved on was unread before.
LEMMA SmallerRange ==
  ASSUME NEW a \in Nat, NEW b \in Nat, NEW c \in Nat, a <= b
  PROVE  (b + 1)..c \subseteq (a + 1)..c
OBVIOUS

\* Counters stay in their word.
LEMMA CountInRange ==
  ASSUME NEW c \in Nat
  PROVE  c % CountWord \in 0..(CountWord - 1)
BY RingAssumption

\* One thread moves, the other stays.
LEMMA GotoMoves ==
  ASSUME LocalsType, NEW t \in Threads, NEW l \in Labels, Goto(t, l)
  PROVE  /\ pc' \in [Threads -> Labels]
         /\ pc'[t] = l
         /\ \A u \in Threads \ {t} : pc'[u] = pc[u]
BY DEF LocalsType, Goto

\* The invariant holds of the empty ring.
LEMMA InitIInv == Init => IInv
<1> SUFFICES ASSUME Init PROVE IInv
  OBVIOUS
<1> USE DEF Init
<1>1. TypeOK
  <2>1. RingType /\ StatsType /\ HistType
    BY RingAssumption DEF RingType, StatsType, HistType, Silence
  <2>2. LocalsType
    BY RingAssumption DEF LocalsType, Threads, Labels
  <2> QED BY <2>1, <2>2 DEF TypeOK
<1>2. PositionsInv
  BY RingAssumption DEF PositionsInv
<1>3. WriterInv /\ ReaderInv
  BY DEF WriterInv, ReaderInv, Threads
<1>4. UnreadIntact
  BY DEF UnreadIntact
<1> QED BY <1>1, <1>2, <1>3, <1>4 DEF IInv

\* What the writer reads of the other's position stays a lower bound of the room.
LEMMA InLoadKeepsIInv ==
  ASSUME IInv, NEW n \in InBlocks, InLoad(n)
  PROVE  IInv'
<1> DEFINE size == Used(write_pos, read_pos)
           label == IF Free(size) < n THEN "frames" ELSE "copy"
<1>1. RingType /\ StatsType /\ LocalsType /\ HistType /\ PositionsInv /\ ReaderInv
  BY DEF IInv, TypeOK
<1>2. size = accepted - played /\ size \in 0..(Capacity - 1)
  BY <1>1, UsedIsFill
<1>3. Free(size) = Capacity - 1 - size
  BY <1>2, FreeIsRoom
<1>4. n \in Nat \ {0} /\ accepted + n <= MaxTotal
  BY RingAssumption DEF InLoad
<1>5. UNCHANGED <<ring, gauges, underrun_count, frames_transferred, data,
                  accepted, played, output>>
  BY DEF InLoad
<1>6. Goto("in", label) /\ "in" \in Threads /\ "out" \in Threads /\ label \in Labels
  BY DEF InLoad, Threads, Labels
<1>7. /\ block' = [block EXCEPT !["in"] = n]
      /\ level' = [level EXCEPT !["in"] = size]
      /\ done' = [done EXCEPT !["in"] = 0]
      /\ overrun_count' \in {overrun_count, (overrun_count + 1) % CountWord}
      /\ dropped' \in {dropped, n}
  BY DEF InLoad
<1> HIDE DEF size, label
<1>8. /\ block' \in [Threads -> Nat] /\ block'["in"] = n /\ block'["out"] = block["out"]
      /\ level' \in [Threads -> 0..(Capacity - 1)]
      /\ level'["in"] = size /\ level'["out"] = level["out"]
      /\ done' \in [Threads -> Nat] /\ done'["in"] = 0 /\ done'["out"] = done["out"]
  BY <1>1, <1>2, <1>4, <1>7 DEF LocalsType, Threads
<1>9. /\ pc' \in [Threads -> Labels]
      /\ pc'["in"] = label /\ pc'["out"] = pc["out"]
  BY <1>1, <1>6, GotoMoves DEF Threads
<1>10. TypeOK'
  <2>1. RingType' /\ HistType'
    BY <1>1, <1>4, <1>5, <1>7 DEF RingType, HistType, ring
  <2>2. StatsType'
    BY <1>1, <1>5, <1>7, CountInRange DEF StatsType, gauges
  <2>3. LocalsType'
    BY <1>1, <1>5, <1>8, <1>9 DEF LocalsType
  <2> QED BY <2>1, <2>2, <2>3 DEF TypeOK
<1>11. PositionsInv' /\ UnreadIntact'
  BY <1>5 DEF IInv, PositionsInv, UnreadIntact, ring
<1>12. WriterInv'
  <2>1. pc'["in"] = "copy" => n <= Capacity - 1 - size
    BY <1>2, <1>3, <1>4, <1>9, RingAssumption DEF label
  <2>2. accepted' = accepted /\ played' = played /\ accepted \in Nat /\ played \in Nat
    BY <1>1, <1>5 DEF HistType
  <2> QED BY <1>2, <1>4, <1>8, <2>1, <2>2, RingAssumption DEF WriterInv
<1>13. ReaderInv'
  BY <1>1, <1>5, <1>8, <1>9 DEF ReaderInv
<1> QED BY <1>10, <1>11, <1>12, <1>13 DEF IInv

\* The slot written is none of the unread ones, nor one already copied.
LEMMA InCopyKeepsIInv ==
  ASSUME IInv, InCopy
  PROVE  IInv'
<1> DEFINE next == accepted + done["in"]
           s == Slot(next)
<1>1. RingType /\ StatsType /\ LocalsType /\ HistType /\ PositionsInv /\ ReaderInv
  BY DEF IInv, TypeOK
<1>2. /\ pc["in"] = "copy" /\ done["in"] < block["in"]
      /\ buffer' = [buffer EXCEPT ![s] = next + 1]
      /\ done' = [done EXCEPT !["in"] = @ + 1]
      /\ UNCHANGED <<write_pos, read_pos, gauges, counts, pc, block, level, data, hist>>
  BY <1>1 DEF InCopy, PositionsInv
<1>3. /\ done["in"] \in Nat /\ block["in"] \in Nat
      /\ done' \in [Threads -> Nat]
      /\ done'["in"] = done["in"] + 1 /\ done'["out"] = done["out"]
  BY <1>1, <1>2 DEF LocalsType, Threads
<1>4. /\ accepted \in Nat /\ played \in Nat /\ played <= accepted
      /\ accepted + block["in"] <= MaxTotal
      /\ accepted + block["in"] - played <= Capacity - 1
      /\ level["in"] + block["in"] <= Capacity - 1
      /\ \A k \in (accepted + 1)..next : buffer[Slot(k - 1)] = k
  BY <1>1, <1>2 DEF IInv, WriterInv, HistType, PositionsInv
<1>5. next \in Nat /\ next + 1 \in 0..MaxTotal /\ s \in 0..(Capacity - 1)
  BY <1>2, <1>3, <1>4, SlotInRange, RingAssumption
<1>6. \A k \in (played + 1)..next : buffer'[Slot(k - 1)] = buffer[Slot(k - 1)]
  <2> TAKE k \in (played + 1)..next
  <2>1. k - 1 \in Nat /\ k - 1 < next /\ next - (k - 1) < Capacity
    BY <1>2, <1>3, <1>4, <1>5, RingAssumption
  <2>2. Slot(k - 1) # s /\ Slot(k - 1) \in 0..(Capacity - 1)
    BY <1>5, <2>1, SlotsDiffer, SlotInRange
  <2> QED BY <1>1, <1>2, <2>2 DEF RingType
<1>7. buffer'[s] = next + 1
  BY <1>1, <1>2, <1>5 DEF RingType
<1> HIDE DEF s
<1>8. TypeOK'
  <2>1. RingType'
    BY <1>1, <1>2, <1>5 DEF RingType
  <2>2. StatsType' /\ HistType'
    BY <1>1, <1>2 DEF StatsType, HistType, gauges, counts, hist
  <2>3. LocalsType'
    BY <1>1, <1>2, <1>3 DEF LocalsType
  <2> QED BY <2>1, <2>2, <2>3 DEF TypeOK
<1>9. PositionsInv'
  BY <1>1, <1>2 DEF PositionsInv, hist
<1>10. WriterInv'
  <2>1. \A k \in (accepted + 1)..(next + 1) : buffer'[Slot(k - 1)] = k
    <3> TAKE k \in (accepted + 1)..(next + 1)
    <3>1. CASE k = next + 1
      <4>1. k - 1 = next
        BY <1>5, <3>1
      <4> QED BY <1>7, <3>1, <4>1 DEF s
    <3>2. CASE k # next + 1
      <4>1. k \in (accepted + 1)..next /\ k \in (played + 1)..next
        BY <1>3, <1>4, <1>5, <3>2
      <4> QED BY <1>4, <1>6, <4>1
    <3> QED BY <3>1, <3>2
  <2>2. next + 1 = accepted + done'["in"]
    BY <1>3, <1>4
  <2>3. accepted' = accepted /\ played' = played /\ block' = block /\ level' = level
    BY <1>2 DEF hist
  <2> HIDE DEF next
  <2> QED BY <1>2, <1>3, <1>4, <2>1, <2>2, <2>3 DEF WriterInv
<1>11. ReaderInv'
  BY <1>1, <1>2, <1>3 DEF ReaderInv, hist
<1>12. UnreadIntact'
  <2>1. \A k \in (played + 1)..accepted : buffer'[Slot(k - 1)] = k
    <3> TAKE k \in (played + 1)..accepted
    <3>1. k \in (played + 1)..next
      BY <1>3, <1>4
    <3> QED BY <1>6, <3>1 DEF IInv, UnreadIntact
  <2> QED BY <1>2, <2>1 DEF UnreadIntact, hist
<1> QED BY <1>8, <1>9, <1>10, <1>11, <1>12 DEF IInv

\* Publishing hands the copied samples over to the unread ones.
LEMMA InPublishKeepsIInv ==
  ASSUME NoWrap, IInv, InPublish
  PROVE  IInv'
<1>1. RingType /\ StatsType /\ LocalsType /\ HistType /\ PositionsInv /\ ReaderInv
  BY DEF IInv, TypeOK
<1>2. /\ pc["in"] = "copy" /\ done["in"] = block["in"]
      /\ write_pos' = (write_pos + block["in"]) % Word
      /\ accepted' = accepted + block["in"]
      /\ level' = [level EXCEPT !["in"] = @ + block["in"]]
      /\ Goto("in", "usage")
      /\ UNCHANGED <<buffer, read_pos, gauges, counts, block, done, data, played,
                     output, dropped>>
  BY DEF InPublish, LoopEnded
<1>3. /\ block["in"] \in Nat /\ level["in"] \in Nat
      /\ accepted \in Nat /\ played \in Nat /\ played <= accepted
      /\ accepted + block["in"] <= MaxTotal
      /\ accepted + block["in"] - played <= Capacity - 1
      /\ level["in"] + block["in"] <= Capacity - 1
      /\ \A k \in (accepted + 1)..(accepted + block["in"]) : buffer[Slot(k - 1)] = k
  BY <1>1, <1>2 DEF IInv, WriterInv, HistType, PositionsInv, LocalsType, Threads
<1>4. /\ level' \in [Threads -> 0..(Capacity - 1)] /\ level'["out"] = level["out"]
  BY <1>1, <1>2, <1>3, RingAssumption DEF LocalsType, Threads
<1>5. /\ pc' \in [Threads -> Labels]
      /\ pc'["in"] = "usage" /\ pc'["out"] = pc["out"]
  BY <1>1, <1>2, GotoMoves DEF Threads, Labels
<1>6. /\ write_pos' = accepted' /\ write_pos' \in 0..(Word - 1)
      /\ accepted' \in 0..MaxTotal
  <2>1. accepted + block["in"] \in 0..(Word - 1)
    BY <1>3, RingAssumption DEF NoWrap
  <2>2. write_pos' = (accepted + block["in"]) % Word
    BY <1>1, <1>2 DEF PositionsInv
  <2>3. (accepted + block["in"]) % Word = accepted + block["in"]
    BY <2>1, RingAssumption
  <2> QED BY <1>2, <1>3, <2>1, <2>2, <2>3, RingAssumption
<1>7. TypeOK'
  <2>1. RingType'
    BY <1>1, <1>2, <1>6 DEF RingType
  <2>2. HistType'
    BY <1>1, <1>2, <1>6 DEF HistType
  <2>3. StatsType'
    BY <1>1, <1>2 DEF StatsType, gauges, counts
  <2>4. LocalsType'
    BY <1>1, <1>2, <1>4, <1>5 DEF LocalsType
  <2> QED BY <2>1, <2>2, <2>3, <2>4 DEF TypeOK
<1>8. PositionsInv'
  BY <1>1, <1>2, <1>3, <1>6 DEF PositionsInv
<1>9. WriterInv'
  BY <1>5 DEF WriterInv
<1>10. ReaderInv'
  <2>1. block["out"] \in Nat
    BY <1>1 DEF LocalsType, Threads
  <2> QED BY <1>1, <1>2, <1>3, <1>4, <1>5, <2>1 DEF ReaderInv
<1>11. UnreadIntact'
  <2>1. \A k \in (played + 1)..(accepted + block["in"]) : buffer[Slot(k - 1)] = k
    BY <1>3 DEF IInv, UnreadIntact
  <2> QED BY <1>2, <2>1 DEF UnreadIntact
<1> QED BY <1>7, <1>8, <1>9, <1>10, <1>11 DEF IInv

\* Counting frames touches no sample.
LEMMA InFramesKeepsIInv ==
  ASSUME IInv, InFrames
  PROVE  IInv'
<1>1. RingType /\ StatsType /\ LocalsType /\ HistType /\ PositionsInv /\ ReaderInv
  BY DEF IInv, TypeOK
<1>2. /\ frames_transferred' = (frames_transferred + block["in"]) % CountWord
      /\ Goto("in", "idle")
      /\ UNCHANGED <<ring, gauges, overrun_count, underrun_count, block, level, done,
                     data, hist>>
  BY DEF InFrames
<1>3. /\ pc' \in [Threads -> Labels]
      /\ pc'["in"] = "idle" /\ pc'["out"] = pc["out"]
  BY <1>1, <1>2, GotoMoves DEF Threads, Labels
<1>4. TypeOK'
  <2>1. RingType' /\ HistType'
    BY <1>1, <1>2 DEF RingType, HistType, ring, hist
  <2>2. frames_transferred + block["in"] \in Nat
    BY <1>1, RingAssumption DEF StatsType, LocalsType, Threads
  <2>3. StatsType'
    BY <1>1, <1>2, <2>2, CountInRange DEF StatsType, gauges
  <2>4. LocalsType'
    BY <1>1, <1>2, <1>3 DEF LocalsType
  <2> QED BY <2>1, <2>3, <2>4 DEF TypeOK
<1>5. PositionsInv' /\ UnreadIntact'
  BY <1>2 DEF IInv, PositionsInv, UnreadIntact, ring, hist
<1>6. WriterInv' /\ ReaderInv'
  BY <1>1, <1>2, <1>3 DEF WriterInv, ReaderInv, hist
<1> QED BY <1>4, <1>5, <1>6 DEF IInv

\* What the reader reads of the other's position stays a lower bound of the fill.
LEMMA OutLoadKeepsIInv ==
  ASSUME IInv, NEW n \in OutBlocks, OutLoad(n)
  PROVE  IInv'
<1> DEFINE available == Used(write_pos, read_pos)
           label == IF available < n THEN "usage" ELSE "copy"
<1>1. RingType /\ StatsType /\ LocalsType /\ HistType /\ PositionsInv /\ WriterInv
  BY DEF IInv, TypeOK
<1>2. available = accepted - played /\ available \in 0..(Capacity - 1)
  BY <1>1, UsedIsFill
<1>3. n \in Nat \ {0}
  BY RingAssumption
<1>4. UNCHANGED <<ring, gauges, overrun_count, frames_transferred, accepted,
                  played, dropped>>
  BY DEF OutLoad
<1>5. Goto("out", label) /\ "in" \in Threads /\ "out" \in Threads /\ label \in Labels
  BY DEF OutLoad, Threads, Labels
<1>6. /\ block' = [block EXCEPT !["out"] = n]
      /\ level' = [level EXCEPT !["out"] = available]
      /\ done' = [done EXCEPT !["out"] = 0]
      /\ data' = <<>>
      /\ underrun_count' \in {underrun_count, (underrun_count + 1) % CountWord}
      /\ output' \in {output, [i \in 1..n |-> Silence]}
  BY DEF OutLoad
<1> HIDE DEF available, label
<1>7. /\ block' \in [Threads -> Nat] /\ block'["out"] = n /\ block'["in"] = block["in"]
      /\ level' \in [Threads -> 0..(Capacity - 1)]
      /\ level'["out"] = available /\ level'["in"] = level["in"]
      /\ done' \in [Threads -> Nat] /\ done'["out"] = 0 /\ done'["in"] = done["in"]
  BY <1>1, <1>2, <1>3, <1>6 DEF LocalsType, Threads
<1>8. /\ pc' \in [Threads -> Labels]
      /\ pc'["out"] = label /\ pc'["in"] = pc["in"]
  BY <1>1, <1>5, GotoMoves DEF Threads
<1>9. TypeOK'
  <2>1. RingType'
    BY <1>1, <1>4 DEF RingType, ring
  <2>2. StatsType'
    <3>1. underrun_count + 1 \in Nat /\ underrun_count \in 0..(CountWord - 1)
      BY <1>1, RingAssumption DEF StatsType
    <3>2. underrun_count' \in 0..(CountWord - 1)
      BY <1>6, <3>1, CountInRange
    <3> QED BY <1>1, <1>4, <3>2 DEF StatsType, gauges
  <2>3. LocalsType'
    BY <1>1, <1>6, <1>7, <1>8 DEF LocalsType
  <2>4. [i \in 1..n |-> Silence] \in Seq(0..MaxTotal)
    BY <1>3, RingAssumption DEF Silence
  <2>5. HistType'
    BY <1>1, <1>4, <1>6, <2>4 DEF HistType
  <2> QED BY <2>1, <2>2, <2>3, <2>5 DEF TypeOK
<1>10. PositionsInv' /\ UnreadIntact'
  BY <1>4 DEF IInv, PositionsInv, UnreadIntact, ring
<1>11. WriterInv'
  BY <1>1, <1>4, <1>7, <1>8 DEF WriterInv, ring
<1>12. ReaderInv'
  BY <1>2, <1>3, <1>4, <1>6, <1>7, <1>8 DEF ReaderInv, label
<1> QED BY <1>9, <1>10, <1>11, <1>12 DEF IInv

\* The sample copied is the next one due: the reader stays behind the writer.
LEMMA OutCopyKeepsIInv ==
  ASSUME IInv, OutCopy
  PROVE  IInv'
<1> DEFINE x == buffer[Slot(read_pos + done["out"])]
<1>1. RingType /\ StatsType /\ LocalsType /\ HistType /\ PositionsInv /\ WriterInv
  BY DEF IInv, TypeOK
<1>2. /\ pc["out"] = "copy" /\ done["out"] < block["out"]
      /\ data' = Append(data, x)
      /\ done' = [done EXCEPT !["out"] = @ + 1]
      /\ UNCHANGED <<ring, gauges, counts, pc, block, level, hist>>
  BY DEF OutCopy
<1>3. /\ done["out"] \in Nat /\ block["out"] \in Nat
      /\ done' \in [Threads -> Nat]
      /\ done'["out"] = done["out"] + 1 /\ done'["in"] = done["in"]
  BY <1>1, <1>2 DEF LocalsType, Threads
<1>4. /\ accepted \in 0..MaxTotal /\ played \in Nat /\ read_pos = played
      /\ block["out"] <= accepted - played /\ block["out"] <= level["out"]
      /\ Len(data) = done["out"] /\ data \in Seq(0..MaxTotal)
      /\ \A i \in 1..Len(data) : data[i] = played + i
  BY <1>1, <1>2 DEF IInv, ReaderInv, HistType, PositionsInv, LocalsType
<1>5. x = played + done["out"] + 1
  <2> DEFINE k == played + done["out"] + 1
  <2>1. k \in (played + 1)..accepted /\ k - 1 = read_pos + done["out"]
    BY <1>2, <1>3, <1>4
  <2> HIDE DEF k
  <2>2. buffer[Slot(k - 1)] = k
    BY <2>1 DEF IInv, UnreadIntact
  <2> QED BY <2>1, <2>2 DEF k
<1>6. x \in 0..MaxTotal
  BY <1>2, <1>3, <1>4, <1>5, RingAssumption
<1> HIDE DEF x
<1>7. data' \in Seq(0..MaxTotal) /\ Len(data') = Len(data) + 1
  BY <1>2, <1>4, <1>6
<1>8. \A i \in 1..Len(data') : data'[i] = played + i
  <2> TAKE i \in 1..Len(data')
  <2>1. CASE i = Len(data) + 1
    BY <1>2, <1>3, <1>4, <1>5, <1>7, <2>1
  <2>2. CASE i # Len(data) + 1
    <3>1. i \in 1..Len(data)
      BY <1>3, <1>4, <1>7, <2>2
    <3> QED BY <1>2, <1>4, <3>1
  <2> QED BY <2>1, <2>2
<1>9. TypeOK'
  <2>1. RingType' /\ StatsType' /\ HistType'
    BY <1>1, <1>2 DEF RingType, StatsType, HistType, ring, gauges, counts, hist
  <2>2. LocalsType'
    BY <1>1, <1>2, <1>3, <1>7 DEF LocalsType
  <2> QED BY <2>1, <2>2 DEF TypeOK
<1>10. PositionsInv' /\ UnreadIntact'
  BY <1>2 DEF IInv, PositionsInv, UnreadIntact, ring, hist
<1>11. WriterInv'
  BY <1>1, <1>2, <1>3 DEF WriterInv, ring, hist
<1>12. ReaderInv'
  BY <1>2, <1>3, <1>4, <1>7, <1>8 DEF ReaderInv, hist
<1> QED BY <1>9, <1>10, <1>11, <1>12 DEF IInv

\* Publishing gives the copied slots back to the writer.
LEMMA OutPublishKeepsIInv ==
  ASSUME NoWrap, IInv, OutPublish
  PROVE  IInv'
<1>1. RingType /\ StatsType /\ LocalsType /\ HistType /\ PositionsInv /\ WriterInv
  BY DEF IInv, TypeOK
<1>2. /\ pc["out"] = "copy" /\ done["out"] = block["out"]
      /\ read_pos' = (read_pos + block["out"]) % Word
      /\ played' = played + block["out"]
      /\ output' = data
      /\ level' = [level EXCEPT !["out"] = @ - block["out"]]
      /\ Goto("out", "usage")
      /\ UNCHANGED <<buffer, write_pos, gauges, counts, block, done, data, accepted,
                     dropped>>
  BY DEF OutPublish, LoopEnded
<1>3. /\ block["out"] \in Nat /\ level["out"] \in 0..(Capacity - 1)
      /\ accepted \in 0..MaxTotal /\ played \in Nat
      /\ block["out"] <= accepted - played /\ block["out"] <= level["out"]
  BY <1>1, <1>2 DEF IInv, ReaderInv, HistType, PositionsInv, LocalsType, Threads
<1>4. /\ level' \in [Threads -> 0..(Capacity - 1)] /\ level'["in"] = level["in"]
  BY <1>1, <1>2, <1>3, RingAssumption DEF LocalsType, Threads
<1>5. /\ pc' \in [Threads -> Labels]
      /\ pc'["out"] = "usage" /\ pc'["in"] = pc["in"]
  BY <1>1, <1>2, GotoMoves DEF Threads, Labels
<1>6. /\ read_pos' = played' /\ read_pos' \in 0..(Word - 1)
      /\ played' \in 0..MaxTotal /\ played' >= played /\ played' <= accepted
  <2>1. played + block["out"] \in 0..(Word - 1) /\ played + block["out"] <= accepted
    BY <1>3, RingAssumption DEF NoWrap
  <2>2. read_pos' = (played + block["out"]) % Word
    BY <1>1, <1>2 DEF PositionsInv
  <2>3. (played + block["out"]) % Word = played + block["out"]
    BY <2>1, RingAssumption
  <2> QED BY <1>2, <1>3, <2>1, <2>2, <2>3, RingAssumption
<1>7. TypeOK'
  <2>1. RingType'
    BY <1>1, <1>2, <1>6 DEF RingType
  <2>2. HistType'
    BY <1>1, <1>2, <1>6 DEF HistType, LocalsType
  <2>3. StatsType'
    BY <1>1, <1>2 DEF StatsType, gauges, counts
  <2>4. LocalsType'
    BY <1>1, <1>2, <1>4, <1>5 DEF LocalsType
  <2> QED BY <2>1, <2>2, <2>3, <2>4 DEF TypeOK
<1>8. PositionsInv'
  BY <1>1, <1>2, <1>3, <1>6, RingAssumption DEF PositionsInv
<1>9. UnreadIntact'
  <2>1. played' \in Nat /\ played \in Nat /\ accepted \in Nat /\ played <= played'
    BY <1>3, <1>6, RingAssumption
  <2>2. (played' + 1)..accepted \subseteq (played + 1)..accepted
    BY <2>1, SmallerRange
  <2>3. UnreadIntact /\ buffer' = buffer /\ accepted' = accepted
    BY <1>2 DEF IInv
  <2> QED BY <2>2, <2>3 DEF UnreadIntact
<1>10. WriterInv'
  <2>1. block["in"] \in Nat
    BY <1>1 DEF LocalsType, Threads
  <2>2. accepted + block["in"] - played' <= accepted + block["in"] - played
    BY <1>3, <1>6, <2>1
  <2> QED BY <1>1, <1>2, <1>3, <1>4, <1>5, <1>6, <2>1, <2>2, RingAssumption DEF WriterInv
<1>11. ReaderInv'
  BY <1>5 DEF ReaderInv
<1> QED BY <1>7, <1>8, <1>9, <1>10, <1>11 DEF IInv

\* The statistics touch neither the buffer nor the positions.
LEMMA UpdateStatsKeepsIInv ==
  ASSUME IInv, NEW t \in Threads, UpdateStats(t)
  PROVE  IInv'
<1>1. RingType /\ StatsType /\ LocalsType /\ HistType /\ WriterInv /\ ReaderInv
  BY DEF IInv, TypeOK
<1>2. level[t] \in 0..(Capacity - 1) /\ level[t] \in Nat /\ UsagePercent(level[t]) \in Nat
  BY <1>1, UsageIsNat, RingAssumption DEF LocalsType
<1>3. UNCHANGED <<ring, counts, block, level, done, data, hist>>
  BY DEF UpdateStats, StoreUsage, StoreBuffered, LoadPeak, StorePeak, gauges
<1>4. \E l \in Labels \ {"copy"} : Goto(t, l)
  BY DEF UpdateStats, StoreUsage, StoreBuffered, LoadPeak, StorePeak, Return, Labels
<1>5. /\ pc' \in [Threads -> Labels]
      /\ \A u \in Threads : pc'[u] = "copy" => pc[u] = "copy"
  BY <1>1, <1>4, GotoMoves
<1>6. StatsType'
  BY <1>1, <1>2, <1>3 DEF StatsType, UpdateStats, StoreUsage, StoreBuffered, LoadPeak,
                          StorePeak, gauges, counts
<1>7. TypeOK'
  <2>1. RingType' /\ HistType'
    BY <1>1, <1>3 DEF RingType, HistType, ring, hist
  <2>2. LocalsType'
    BY <1>1, <1>3, <1>5 DEF LocalsType
  <2> QED BY <1>6, <2>1, <2>2 DEF TypeOK
<1>8. PositionsInv' /\ UnreadIntact'
  BY <1>3 DEF IInv, PositionsInv, UnreadIntact, ring, hist
<1>9. WriterInv' /\ ReaderInv'
  BY <1>1, <1>3, <1>5 DEF WriterInv, ReaderInv, ring, hist, Threads
<1> QED BY <1>7, <1>8, <1>9 DEF IInv

\* Nothing happens.
LEMMA StutterKeepsIInv ==
  ASSUME IInv, UNCHANGED vars
  PROVE  IInv'
<1>1. UNCHANGED <<ring, gauges, counts, locals, hist>>
  BY DEF vars
<1>2. TypeOK'
  BY <1>1 DEF IInv, TypeOK, RingType, StatsType, LocalsType, HistType, ring, gauges,
              counts, locals, hist
<1>3. PositionsInv' /\ WriterInv' /\ ReaderInv' /\ UnreadIntact'
  BY <1>1 DEF IInv, PositionsInv, WriterInv, ReaderInv, UnreadIntact, ring, locals, hist
<1> QED BY <1>2, <1>3 DEF IInv

\* Every step keeps the invariant.
LEMMA NextKeepsIInv ==
  ASSUME NoWrap, IInv, [Next]_vars
  PROVE  IInv'
<1>1. CASE \E n \in InBlocks : InLoad(n)
  BY <1>1, InLoadKeepsIInv
<1>2. CASE \E n \in OutBlocks : OutLoad(n)
  BY <1>2, OutLoadKeepsIInv
<1>3. CASE InStep
  BY <1>3, InCopyKeepsIInv, InPublishKeepsIInv, InFramesKeepsIInv,
     UpdateStatsKeepsIInv DEF InStep, Threads
<1>4. CASE OutStep
  BY <1>4, OutCopyKeepsIInv, OutPublishKeepsIInv, UpdateStatsKeepsIInv
  DEF OutStep, Threads
<1>5. CASE UNCHANGED vars
  BY <1>5, StutterKeepsIInv
<1> QED BY <1>1, <1>2, <1>3, <1>4, <1>5 DEF Next

\* Hence it always holds.
LEMMA Invariance ==
  ASSUME NoWrap
  PROVE  Spec => []IInv
<1>1. Init => IInv
  BY InitIInv
<1>2. IInv /\ [Next]_vars => IInv'
  BY NextKeepsIInv
<1> QED BY <1>1, <1>2, PTL DEF Spec

-----------------------------------------------------------------------------
\* The state of the ring buffer stays well formed: in particular no fill a
\* callback computes or reports (rb_update_stats) ever reaches the capacity.
THEOREM TypeCorrect ==
  ASSUME NoWrap
  PROVE  Spec => []TypeOK
<1>1. IInv => TypeOK
  BY DEF IInv
<1> QED BY <1>1, Invariance, PTL

\* rb_write never overwrites a sample that rb_read has not released.
THEOREM NoUnreadLost ==
  ASSUME NoWrap
  PROVE  Spec => []UnreadIntact
<1>1. IInv => UnreadIntact
  BY DEF IInv
<1> QED BY <1>1, Invariance, PTL

\* rb_read hands out exactly the samples that are due, in order.
THEOREM NoneLostOrRepeated ==
  ASSUME NoWrap
  PROVE  Spec => []PlayedInOrder
<1>1. IInv => PlayedInOrder
  BY DEF IInv, ReaderInv, PlayedInOrder
<1> QED BY <1>1, Invariance, PTL

\* The two callbacks never touch the same slot at the same time.
THEOREM NoDataRace ==
  ASSUME NoWrap
  PROVE  Spec => []NoSlotRace
<1>1. ASSUME IInv PROVE NoSlotRace
  <2> SUFFICES ASSUME pc["in"] = "copy", done["in"] < block["in"], pc["out"] = "copy",
                      NEW i \in done["out"]..(block["out"] - 1)
               PROVE  Slot(write_pos + done["in"]) # Slot(read_pos + i)
    BY DEF NoSlotRace
  <2>1. LocalsType /\ HistType /\ PositionsInv /\ WriterInv /\ ReaderInv
    BY <1>1 DEF IInv, TypeOK
  <2>2. /\ done["in"] \in Nat /\ block["in"] \in Nat
        /\ done["out"] \in Nat /\ block["out"] \in Nat
        /\ accepted \in Nat /\ played \in Nat
    BY <2>1 DEF LocalsType, HistType, Threads
  <2>3. /\ write_pos = accepted /\ read_pos = played
        /\ accepted + block["in"] - played <= Capacity - 1
        /\ block["out"] <= accepted - played
    BY <2>1 DEF PositionsInv, WriterInv, ReaderInv
  <2>4. /\ read_pos + i \in Nat /\ write_pos + done["in"] \in Nat
        /\ read_pos + i < write_pos + done["in"]
        /\ (write_pos + done["in"]) - (read_pos + i) < Capacity
    BY <2>2, <2>3, RingAssumption
  <2> QED BY <2>4, SlotsDiffer
<1> QED BY <1>1, Invariance, PTL

-----------------------------------------------------------------------------
(* The ring implements the queue                                            *)

\* What RouterQueue's queue stands for, and what it is below the wrap.
RingContent ==
  [i \in 1..((write_pos - read_pos) % Word) |-> buffer[Slot(read_pos + i - 1)]]
Numbered(first, n) == [i \in 1..n |-> first + i]

\* A block under way is one a callback may bring or ask for.
BlocksInv ==
  /\ pc["in"] = "copy" => block["in"] \in InBlocks
  /\ pc["out"] = "copy" => block["out"] \in OutBlocks

\* A block that is copied is one a callback may bring or ask for.
LEMMA NextKeepsBlocksInv ==
  ASSUME IInv, BlocksInv, [Next]_vars
  PROVE  BlocksInv'
<1> USE DEF BlocksInv
<1>1. LocalsType /\ "in" \in Threads /\ "out" \in Threads
  BY DEF IInv, TypeOK, Threads
<1>2. ASSUME NEW n \in InBlocks, InLoad(n) PROVE BlocksInv'
  <2>1. /\ block' = [block EXCEPT !["in"] = n]
        /\ \E l \in Labels : Goto("in", l)
    BY <1>2 DEF InLoad, Labels
  <2>2. pc'["out"] = pc["out"]
    BY <1>1, <2>1, GotoMoves
  <2> QED BY <1>1, <2>1, <2>2 DEF LocalsType
<1>3. ASSUME NEW n \in OutBlocks, OutLoad(n) PROVE BlocksInv'
  <2>1. /\ block' = [block EXCEPT !["out"] = n]
        /\ \E l \in Labels : Goto("out", l)
    BY <1>3 DEF OutLoad, Labels
  <2>2. pc'["in"] = pc["in"]
    BY <1>1, <2>1, GotoMoves
  <2> QED BY <1>1, <2>1, <2>2 DEF LocalsType
<1>4. ASSUME block' = block, \/ pc' = pc
                            \/ \E t \in Threads : \E l \in Labels \ {"copy"} : Goto(t, l)
      PROVE  BlocksInv'
  <2>1. \A t \in Threads : pc'[t] = "copy" => pc[t] = "copy"
    BY <1>1, <1>4, GotoMoves
  <2> QED BY <1>1, <1>4, <2>1
<1>5. CASE InCopy \/ OutCopy \/ UNCHANGED vars
  BY <1>4, <1>5 DEF InCopy, OutCopy, vars, locals
<1>6. CASE InPublish \/ InFrames \/ OutPublish
  BY <1>1, <1>4, <1>6 DEF InPublish, InFrames, OutPublish, Labels
<1>7. ASSUME NEW t \in Threads, UpdateStats(t) PROVE BlocksInv'
  <2>1. block' = block
    BY <1>7 DEF UpdateStats, StoreUsage, StoreBuffered, LoadPeak, StorePeak
  <2>2. \E l \in Labels \ {"copy"} : Goto(t, l)
    BY <1>7 DEF UpdateStats, StoreUsage, StoreBuffered, LoadPeak, StorePeak, Return, Labels
  <2> QED BY <1>4, <2>1, <2>2
<1> QED BY <1>1, <1>2, <1>3, <1>5, <1>6, <1>7 DEF Next, InStep, OutStep

\* Between the positions lie the samples accepted and not yet played.
LEMMA ContentIsDue ==
  NoWrap /\ IInv => RingContent = Numbered(played, accepted - played)
<1> SUFFICES ASSUME NoWrap, IInv
             PROVE  RingContent = Numbered(played, accepted - played)
  OBVIOUS
<1>1. HistType /\ PositionsInv /\ UnreadIntact
  BY DEF IInv, TypeOK
<1>2. /\ accepted \in Nat /\ played \in Nat
      /\ accepted - played \in 0..(Word - 1)
      /\ write_pos = accepted /\ read_pos = played
  BY <1>1, RingAssumption DEF HistType, PositionsInv
<1>3. (write_pos - read_pos) % Word = accepted - played
  BY <1>2, RingAssumption
<1>4. ASSUME NEW i \in 1..(accepted - played)
      PROVE  buffer[Slot(read_pos + i - 1)] = played + i
  <2> DEFINE k == played + i
  <2>1. k \in (played + 1)..accepted /\ k - 1 = read_pos + i - 1
    BY <1>2
  <2> HIDE DEF k
  <2>2. buffer[Slot(k - 1)] = k
    BY <1>1, <2>1 DEF UnreadIntact
  <2> QED BY <2>1, <2>2 DEF k
<1> QED BY <1>3, <1>4 DEF RingContent, Numbered

\* Numbered sequences are put together and taken apart by their lengths.
LEMMA NumberedConcat ==
  ASSUME NEW p \in Nat, NEW m \in Nat, NEW n \in Nat
  PROVE  Numbered(p, m) \o [i \in 1..n |-> p + m + i] = Numbered(p, m + n)
BY DEF Numbered

\* ... and taken apart.
LEMMA NumberedSplit ==
  ASSUME NEW p \in Nat, NEW m \in Nat, NEW n \in Nat, n <= m
  PROVE  /\ SubSeq(Numbered(p, m), 1, n) = Numbered(p, n)
         /\ SubSeq(Numbered(p, m), n + 1, m) = Numbered(p + n, m - n)
BY DEF Numbered

\* ... of the length they were built with.
LEMMA NumberedLen ==
  ASSUME NEW p \in Nat, NEW m \in Nat
  PROVE  Len(Numbered(p, m)) = m
BY DEF Numbered

\* The same after a step.
LEMMA ContentIsDueNext ==
  ASSUME NoWrap, IInv'
  PROVE  RingContent' = Numbered(played', accepted' - played')
<1>1. (NoWrap /\ IInv => RingContent = Numbered(played, accepted - played))'
  BY ContentIsDue, PTL
<1> QED BY <1>1

\* A step that leaves the content, the last blocks and the error counters
\* alone is none of the queue's.
LEMMA Stutters ==
  ASSUME NoWrap, IInv, IInv',
         UNCHANGED <<accepted, played, output, dropped, overrun_count, underrun_count>>
  PROVE  UNCHANGED Queue!vars
<1>1. RingContent' = Numbered(played', accepted' - played')
  BY ContentIsDueNext
<1>2. RingContent' = RingContent
  BY <1>1, ContentIsDue
<1> QED BY <1>2 DEF Queue!vars, RingContent

\* Every step is one of the queue, or none.
LEMMA NextRefines ==
  ASSUME NoWrap, IInv, IInv', BlocksInv, [Next]_vars
  PROVE  [Queue!Next]_(Queue!vars)
<1>1. RingContent = Numbered(played, accepted - played)
  BY ContentIsDue
<1>2. RingContent' = Numbered(played', accepted' - played')
  BY ContentIsDueNext
<1>3. /\ LocalsType /\ HistType /\ PositionsInv /\ WriterInv /\ ReaderInv
      /\ accepted \in Nat /\ played \in Nat /\ accepted - played \in 0..(Capacity - 1)
      /\ block["in"] \in Nat /\ block["out"] \in Nat
  BY DEF IInv, TypeOK, LocalsType, HistType, PositionsInv, Threads
<1>4. Len(RingContent) = accepted - played
  BY <1>1, <1>3, NumberedLen, RingAssumption
<1>5. ASSUME NEW n \in InBlocks, InLoad(n) PROVE [Queue!Next]_(Queue!vars)
  <2> DEFINE size == Used(write_pos, read_pos)
  <2>1. size = accepted - played /\ Free(size) = Capacity - 1 - size
    BY <1>3, UsedIsFill, FreeIsRoom
  <2>2. UNCHANGED <<accepted, played, output, underrun_count>>
    BY <1>5 DEF InLoad
  <2>3. CASE Free(size) < n
    <3>1. dropped' = n /\ overrun_count' = (overrun_count + 1) % CountWord
      BY <1>5, <2>3 DEF InLoad
    <3>2. Len(RingContent) + n > Capacity - 1
      BY <1>3, <1>4, <2>1, <2>3, RingAssumption
    <3>3. RingContent' = RingContent
      BY <1>1, <1>2, <2>2
    <3>4. Queue!Drop(n)
      BY <2>2, <3>1, <3>2, <3>3 DEF Queue!Drop, RingContent
    <3> QED BY <3>4 DEF Queue!Next
  <2>4. CASE ~(Free(size) < n)
    <3>1. dropped' = dropped /\ overrun_count' = overrun_count
      BY <1>5, <2>4 DEF InLoad
    <3> QED BY <2>2, <3>1, Stutters
  <2> QED BY <2>3, <2>4
<1>6. ASSUME InPublish PROVE [Queue!Next]_(Queue!vars)
  <2> DEFINE n == block["in"]
  <2>1. /\ accepted' = accepted + n
        /\ UNCHANGED <<played, output, dropped, overrun_count, underrun_count>>
    BY <1>6 DEF InPublish, counts
  <2>2. n \in InBlocks /\ accepted + n - played <= Capacity - 1
    BY <1>3, <1>6 DEF InPublish, WriterInv, BlocksInv
  <2>3. Len(RingContent) + n <= Capacity - 1
    BY <1>3, <1>4, <2>2, RingAssumption
  <2>4. RingContent' = RingContent \o [i \in 1..n |-> accepted + i]
    <3> DEFINE m == accepted - played
    <3>1. m \in Nat /\ n \in Nat /\ accepted = played + m
          /\ accepted' - played' = m + n
      BY <1>3, <2>1, RingAssumption
    <3> HIDE DEF m, n
    <3>2. Numbered(played, m) \o [i \in 1..n |-> played + m + i] = Numbered(played, m + n)
      BY <1>3, <3>1, NumberedConcat
    <3>3. RingContent = Numbered(played, m)
      BY <1>1 DEF m
    <3>4. RingContent' = Numbered(played, m + n)
      BY <1>2, <2>1, <3>1
    <3> QED BY <3>1, <3>2, <3>3, <3>4
  <2>5. Queue!Accept(n)
    BY <2>1, <2>3, <2>4 DEF Queue!Accept, RingContent
  <2> QED BY <2>2, <2>5 DEF Queue!Next
<1>7. ASSUME NEW n \in OutBlocks, OutLoad(n) PROVE [Queue!Next]_(Queue!vars)
  <2> DEFINE available == Used(write_pos, read_pos)
  <2>1. available = accepted - played
    BY <1>3, UsedIsFill
  <2>2. UNCHANGED <<accepted, played, dropped, overrun_count>>
    BY <1>7 DEF OutLoad
  <2>3. CASE available < n
    <3>1. /\ output' = [i \in 1..n |-> Queue!Silence]
          /\ underrun_count' = (underrun_count + 1) % CountWord
      BY <1>7, <2>3 DEF OutLoad, Silence, Queue!Silence
    <3>2. n > Len(RingContent)
      BY <1>3, <1>4, <2>1, <2>3, RingAssumption
    <3>3. RingContent' = RingContent
      BY <1>1, <1>2, <2>2
    <3>4. Queue!PlaySilence(n)
      BY <2>2, <3>1, <3>2, <3>3 DEF Queue!PlaySilence, RingContent
    <3> QED BY <3>4 DEF Queue!Next
  <2>4. CASE ~(available < n)
    <3>1. output' = output /\ underrun_count' = underrun_count
      BY <1>7, <2>4 DEF OutLoad
    <3> QED BY <2>2, <3>1, Stutters
  <2> QED BY <2>3, <2>4
<1>8. ASSUME OutPublish PROVE [Queue!Next]_(Queue!vars)
  <2> DEFINE n == block["out"]
  <2>1. /\ played' = played + n /\ output' = data
        /\ UNCHANGED <<accepted, dropped, overrun_count, underrun_count>>
    BY <1>8 DEF OutPublish, counts
  <2>2. /\ n \in OutBlocks /\ n <= accepted - played
        /\ Len(data) = n /\ \A i \in 1..Len(data) : data[i] = played + i
    BY <1>3, <1>8 DEF OutPublish, LoopEnded, ReaderInv, BlocksInv
  <2>3. n <= Len(RingContent)
    BY <1>4, <2>2
  <2>4. data = Numbered(played, n)
    BY <1>3, <2>2 DEF Numbered, LocalsType
  <2>5. /\ SubSeq(RingContent, 1, n) = data
        /\ SubSeq(RingContent, n + 1, Len(RingContent)) = RingContent'
    <3>1. accepted - played \in Nat /\ (accepted - played) - n = accepted - (played + n)
      BY <1>3, RingAssumption
    <3>2. /\ SubSeq(Numbered(played, accepted - played), 1, n) = Numbered(played, n)
          /\ SubSeq(Numbered(played, accepted - played), n + 1, accepted - played)
               = Numbered(played + n, (accepted - played) - n)
      BY <1>3, <2>2, <3>1, NumberedSplit
    <3> QED BY <1>1, <1>2, <1>4, <2>1, <2>4, <3>1, <3>2
  <2>6. Queue!Play(n)
    BY <2>1, <2>3, <2>5 DEF Queue!Play, RingContent
  <2> QED BY <2>2, <2>6 DEF Queue!Next
<1>9. CASE InCopy \/ InFrames \/ OutCopy \/ UNCHANGED vars
  <2>1. UNCHANGED <<accepted, played, output, dropped, overrun_count, underrun_count>>
    BY <1>9 DEF InCopy, InFrames, OutCopy, vars, counts, hist
  <2> QED BY <2>1, Stutters
<1>10. ASSUME NEW t \in Threads, UpdateStats(t) PROVE [Queue!Next]_(Queue!vars)
  <2>1. UNCHANGED <<accepted, played, output, dropped, overrun_count, underrun_count>>
    BY <1>10 DEF UpdateStats, StoreUsage, StoreBuffered, LoadPeak, StorePeak, counts, hist
  <2> QED BY <2>1, Stutters
<1> QED BY <1>5, <1>6, <1>7, <1>8, <1>9, <1>10 DEF Next, InStep, OutStep, Threads

\* The lock-free ring buffer is a bounded queue that takes a block whole or
\* drops it, and plays a block whole or plays silence: what rb_write and
\* rb_read do in many steps looks like one.
THEOREM RingIsQueue ==
  ASSUME NoWrap
  PROVE  Spec => ImplementsQueue
<1>1. Init => Queue!Init /\ BlocksInv
  <2> SUFFICES ASSUME Init PROVE Queue!Init /\ BlocksInv
    OBVIOUS
  <2>1. (write_pos - read_pos) % Word = 0
    BY RingAssumption DEF Init
  <2>2. RingContent = <<>>
    BY <2>1 DEF RingContent
  <2>3. Queue!Init
    BY <2>2 DEF Init, Queue!Init, RingContent
  <2>4. BlocksInv
    BY DEF Init, BlocksInv, Threads
  <2> QED BY <2>3, <2>4
<1>2. Spec => []BlocksInv
  BY <1>1, Invariance, NextKeepsBlocksInv, PTL DEF Spec
<1> QED BY <1>1, <1>2, Invariance, NextRefines, PTL DEF Spec, ImplementsQueue, Queue!Spec

-----------------------------------------------------------------------------
(***************************************************************************)
(* Starting and stopping.  The two views of the router share no variable:  *)
(* there the buffer is what the samples are in, here allocation is whether *)
(* there is one.                                                           *)
(***************************************************************************)

\* The router is down: nothing created yet, or everything taken down.
Down == at = "idle" /\ ~is_running

\* The router is up, between calls.
Up == at = "idle" /\ is_running

\* Where the caller stands says which procs exist ...
ProcsInv ==
  /\ Down \/ at \in {"alloc", "create in", "free"} => procs = {}
  /\ at = "create out" => procs = {"in"}
  /\ \/ Up
     \/ at \in {"start in", "start out", "run", "monitor", "gain", "flag",
                "join", "halt out", "wait out", "halt in", "wait in", "cleanup"}
     => procs = Dirs

\* ... which the HAL may call ...
StartedInv ==
  /\ \/ Down
     \/ at \in {"alloc", "create in", "create out", "start in", "wait in",
                "cleanup", "free"}
     => started = {}
  /\ at \in {"start out", "wait out", "halt in"} => started = {"in"}
  /\ Up \/ at \in {"run", "monitor", "gain", "flag", "join", "halt out"}
     => started = Dirs

\* ... and what is_running says.
RunningInv ==
  /\ at \in {"monitor", "gain"} => is_running
  /\ is_running => at \in {"idle", "monitor", "gain"}

\* A callback runs only while its proc is started or being waited for.
CallbackInv ==
  \A d \in Dirs : callback[d] # "out" => d \in started \/ at = Waiting[d]

\* The buffer is NULL when the next rb_init allocates one, and is there for
\* a callback that found it.
BufferInv ==
  /\ Down \/ at = "alloc" => allocation = "NULL"
  /\ NoUseAfterFree

\* A monitor thread exists between its creation and its join.
MonitorInv ==
  /\ g_monitor_thread <=> monitor # "none"
  /\ g_monitor_thread => Up \/ at \in {"gain", "flag", "join"}

LifeInv ==
  /\ LifeTypeOK /\ ProcsInv /\ StartedInv /\ RunningInv
  /\ CallbackInv /\ BufferInv /\ MonitorInv

-----------------------------------------------------------------------------
\* At first the router is down.
LEMMA LifeInvInit == LifeInit => LifeInv
BY DEF LifeInit, LifeInv, LifeTypeOK, ProcsInv, StartedInv, RunningInv, CallbackInv, BufferInv,
       MonitorInv, NoUseAfterFree, Down, Up, None, Stages, Dirs

\* While no proc is started or waited for, no callback is under way.
LEMMA NoneInside ==
  ASSUME CallbackInv, started = {}, at \notin {"wait in", "wait out"}
  PROVE  \A d \in Dirs : callback[d] = "out"
BY DEF CallbackInv, Waiting, Dirs

\* Every step of caller, callbacks and monitor keeps the invariant.
LEMMA LifeInvNext ==
  ASSUME LifeInv, [LifeNext]_lifeVars
  PROVE  LifeInv'
<1> USE VolumesAssumption
<1>1. LifeInv /\ [LifeNext]_lifeVars
  OBVIOUS
<1>2. ASSUME NEW v \in Volumes, StartAgain(v) PROVE LifeInv'
  <2>1. LifeTypeOK'
    BY <1>1, <1>2 DEF StartAgain, flags, hal, LifeInv, LifeTypeOK
  <2>2. (ProcsInv /\ StartedInv /\ RunningInv)'
    BY <1>1, <1>2
    DEF StartAgain, hal, LifeInv, ProcsInv, StartedInv, RunningInv, Down, Up
  <2>3. CallbackInv'
    BY <1>1, <1>2 DEF StartAgain, hal, LifeInv, CallbackInv
  <2>4. (BufferInv /\ MonitorInv)'
    BY <1>1, <1>2
    DEF StartAgain, flags, LifeInv, BufferInv, MonitorInv, NoUseAfterFree, Down, Up
  <2> QED BY <2>1, <2>2, <2>3, <2>4 DEF LifeInv
<1>3. ASSUME NEW v \in Volumes, Start(v) PROVE LifeInv'
  <2>1. LifeTypeOK'
    BY <1>1, <1>3 DEF Start, router, flags, hal, LifeInv, LifeTypeOK, Stages
  <2>2. (ProcsInv /\ StartedInv /\ RunningInv)'
    BY <1>1, <1>3
    DEF Start, router, hal, LifeInv, ProcsInv, StartedInv, RunningInv, Down, Up
  <2>3. CallbackInv'
    BY <1>1, <1>3 DEF Start, Waiting, LifeInv, CallbackInv, StartedInv, Down, Dirs
  <2>4. (BufferInv /\ MonitorInv)'
    BY <1>1, <1>3
    DEF Start, router, flags, LifeInv, BufferInv, MonitorInv, NoUseAfterFree, Down,
        Up
  <2> QED BY <2>1, <2>2, <2>3, <2>4 DEF LifeInv
<1>4. ASSUME InitRing PROVE LifeInv'
  <2>1. LifeTypeOK'
    BY <1>1, <1>4 DEF InitRing, flags, hal, LifeInv, LifeTypeOK, Stages
  <2>2. (ProcsInv /\ StartedInv /\ RunningInv)'
    BY <1>1, <1>4 DEF InitRing, hal, LifeInv, ProcsInv, StartedInv, RunningInv, Up
  <2>3. CallbackInv'
    BY <1>1, <1>4 DEF InitRing, Waiting, LifeInv, CallbackInv, StartedInv, Dirs
  <2>4. (BufferInv /\ MonitorInv)'
    BY <1>1, <1>4
    DEF InitRing, flags, LifeInv, BufferInv, MonitorInv, NoUseAfterFree, Down, Up
  <2> QED BY <2>1, <2>2, <2>3, <2>4 DEF LifeInv
<1>5. ASSUME CreateFirst PROVE LifeInv'
  <2>0. (started \subseteq procs /\ procs \subseteq Dirs)'
    BY <1>1, <1>5 DEF CreateFirst, LifeInv, ProcsInv, StartedInv, Dirs
  <2>1. LifeTypeOK'
    BY <1>1, <1>5, <2>0 DEF CreateFirst, LifeInv, LifeTypeOK, Stages, flags
  <2>2. (ProcsInv /\ StartedInv /\ RunningInv)'
    BY <1>1, <1>5 DEF CreateFirst, LifeInv, ProcsInv, StartedInv, RunningInv, Down, Up
  <2>3. CallbackInv'
    BY <1>1, <1>5 DEF CreateFirst, Waiting, LifeInv, CallbackInv, Dirs
  <2>4. (BufferInv /\ MonitorInv)'
    BY <1>1, <1>5, NoneInside
    DEF CreateFirst, flags, LifeInv, BufferInv, MonitorInv, NoUseAfterFree,
        StartedInv, Down, Up
  <2> QED BY <2>1, <2>2, <2>3, <2>4 DEF LifeInv
<1>6. ASSUME CreateSecond PROVE LifeInv'
  <2>0. (started \subseteq procs /\ procs \subseteq Dirs)'
    BY <1>1, <1>6 DEF CreateSecond, LifeInv, ProcsInv, StartedInv, Dirs
  <2>1. LifeTypeOK'
    BY <1>1, <1>6, <2>0 DEF CreateSecond, LifeInv, LifeTypeOK, Stages, flags
  <2>2. (ProcsInv /\ StartedInv /\ RunningInv)'
    BY <1>1, <1>6
    DEF CreateSecond, LifeInv, ProcsInv, StartedInv, RunningInv, Down, Up, Dirs
  <2>3. CallbackInv'
    BY <1>1, <1>6 DEF CreateSecond, Waiting, LifeInv, CallbackInv, Dirs
  <2>4. (BufferInv /\ MonitorInv)'
    BY <1>1, <1>6, NoneInside
    DEF CreateSecond, flags, LifeInv, BufferInv, MonitorInv, NoUseAfterFree,
        StartedInv, Down, Up
  <2> QED BY <2>1, <2>2, <2>3, <2>4 DEF LifeInv
<1>7. ASSUME StartIn PROVE LifeInv'
  <2>0. (started \subseteq procs /\ procs \subseteq Dirs)'
    BY <1>1, <1>7 DEF StartIn, StartProc, LifeInv, ProcsInv, StartedInv, Dirs
  <2>1. LifeTypeOK'
    BY <1>1, <1>7, <2>0 DEF StartIn, StartProc, LifeInv, LifeTypeOK, Stages, router, flags
  <2>2. (ProcsInv /\ StartedInv /\ RunningInv)'
    BY <1>1, <1>7
    DEF StartIn, StartProc, router, LifeInv, ProcsInv, StartedInv, RunningInv,
        Down, Up
  <2>3. CallbackInv'
    BY <1>1, <1>7 DEF StartIn, StartProc, Waiting, LifeInv, CallbackInv, Dirs
  <2>4. (BufferInv /\ MonitorInv)'
    BY <1>1, <1>7
    DEF StartIn, StartProc, router, flags, LifeInv, BufferInv, MonitorInv,
        NoUseAfterFree, Down, Up
  <2> QED BY <2>1, <2>2, <2>3, <2>4 DEF LifeInv
<1>8. ASSUME StartOut PROVE LifeInv'
  <2>0. (started \subseteq procs /\ procs \subseteq Dirs)'
    BY <1>1, <1>8 DEF StartOut, StartProc, LifeInv, ProcsInv, StartedInv, Dirs
  <2>1. LifeTypeOK'
    BY <1>1, <1>8, <2>0 DEF StartOut, StartProc, LifeInv, LifeTypeOK, Stages, router, flags
  <2>2. (ProcsInv /\ StartedInv /\ RunningInv)'
    BY <1>1, <1>8
    DEF StartOut, StartProc, router, LifeInv, ProcsInv, StartedInv, RunningInv,
        Down, Up, Dirs
  <2>3. CallbackInv'
    BY <1>1, <1>8 DEF StartOut, StartProc, Waiting, LifeInv, CallbackInv, Dirs
  <2>4. (BufferInv /\ MonitorInv)'
    BY <1>1, <1>8
    DEF StartOut, StartProc, router, flags, LifeInv, BufferInv, MonitorInv,
        NoUseAfterFree, Down, Up
  <2> QED BY <2>1, <2>2, <2>3, <2>4 DEF LifeInv
<1>9. ASSUME Run PROVE LifeInv'
  <2>1. LifeTypeOK'
    BY <1>1, <1>9 DEF Run, flags, hal, LifeInv, LifeTypeOK, Stages
  <2>2. (ProcsInv /\ StartedInv /\ RunningInv)'
    BY <1>1, <1>9 DEF Run, hal, LifeInv, ProcsInv, StartedInv, RunningInv, Down
  <2>3. CallbackInv'
    BY <1>1, <1>9 DEF Run, hal, LifeInv, CallbackInv, StartedInv
  <2>4. (BufferInv /\ MonitorInv)'
    BY <1>1, <1>9
    DEF Run, flags, LifeInv, BufferInv, MonitorInv, NoUseAfterFree, Down, Up
  <2> QED BY <2>1, <2>2, <2>3, <2>4 DEF LifeInv
<1>10. ASSUME StartMonitor PROVE LifeInv'
  <2>1. LifeTypeOK'
    BY <1>1, <1>10 DEF StartMonitor, router, hal, LifeInv, LifeTypeOK, Stages
  <2>2. (ProcsInv /\ StartedInv /\ RunningInv)'
    BY <1>1, <1>10
    DEF StartMonitor, router, hal, LifeInv, ProcsInv, StartedInv, RunningInv, Down
  <2>3. CallbackInv'
    BY <1>1, <1>10 DEF StartMonitor, hal, LifeInv, CallbackInv, StartedInv
  <2>4. (BufferInv /\ MonitorInv)'
    BY <1>1, <1>10
    DEF StartMonitor, router, LifeInv, BufferInv, MonitorInv, NoUseAfterFree, Down
  <2> QED BY <2>1, <2>2, <2>3, <2>4 DEF LifeInv
<1>11. ASSUME SetGain PROVE LifeInv'
  <2>1. LifeTypeOK'
    BY <1>1, <1>11 DEF SetGain, Compensates, flags, hal, LifeInv, LifeTypeOK, Stages, None
  <2>2. (ProcsInv /\ StartedInv /\ RunningInv)'
    BY <1>1, <1>11 DEF SetGain, hal, LifeInv, ProcsInv, StartedInv, RunningInv, Down
  <2>3. CallbackInv'
    BY <1>1, <1>11 DEF SetGain, hal, LifeInv, CallbackInv, StartedInv
  <2>4. (BufferInv /\ MonitorInv)'
    BY <1>1, <1>11
    DEF SetGain, flags, LifeInv, BufferInv, MonitorInv, NoUseAfterFree, RunningInv,
        Down, Up
  <2> QED BY <2>1, <2>2, <2>3, <2>4 DEF LifeInv
<1>12. ASSUME Stop PROVE LifeInv'
  <2>1. LifeTypeOK'
    BY <1>1, <1>12
    DEF Stop, flags, hal, LifeInv, LifeTypeOK, StartedInv, Down, Stages, None
  <2>2. (ProcsInv /\ StartedInv /\ RunningInv)'
    BY <1>1, <1>12 DEF Stop, hal, LifeInv, ProcsInv, StartedInv, RunningInv, Down, Up
  <2>3. CallbackInv'
    BY <1>1, <1>12 DEF Stop, hal, LifeInv, CallbackInv, StartedInv, Up
  <2>4. (BufferInv /\ MonitorInv)'
    BY <1>1, <1>12
    DEF Stop, flags, LifeInv, BufferInv, MonitorInv, NoUseAfterFree, Down
  <2> QED BY <2>1, <2>2, <2>3, <2>4 DEF LifeInv
<1>13. ASSUME LowerFlag PROVE LifeInv'
  <2>1. LifeTypeOK'
    BY <1>1, <1>13 DEF LowerFlag, router, hal, LifeInv, LifeTypeOK, Stages, None
  <2>2. (ProcsInv /\ StartedInv /\ RunningInv)'
    BY <1>1, <1>13
    DEF LowerFlag, router, hal, LifeInv, ProcsInv, StartedInv, RunningInv, Down
  <2>3. CallbackInv'
    BY <1>1, <1>13 DEF LowerFlag, hal, LifeInv, CallbackInv, StartedInv
  <2>4. (BufferInv /\ MonitorInv)'
    BY <1>1, <1>13
    DEF LowerFlag, router, LifeInv, BufferInv, MonitorInv, NoUseAfterFree, Down
  <2> QED BY <2>1, <2>2, <2>3, <2>4 DEF LifeInv
<1>14. ASSUME Join PROVE LifeInv'
  <2>1. LifeTypeOK'
    BY <1>1, <1>14 DEF Join, router, hal, LifeInv, LifeTypeOK, Stages
  <2>2. (ProcsInv /\ StartedInv /\ RunningInv)'
    BY <1>1, <1>14
    DEF Join, router, hal, LifeInv, ProcsInv, StartedInv, RunningInv, Down
  <2>3. CallbackInv'
    BY <1>1, <1>14 DEF Join, hal, LifeInv, CallbackInv, StartedInv
  <2>4. (BufferInv /\ MonitorInv)'
    BY <1>1, <1>14
    DEF Join, router, LifeInv, BufferInv, MonitorInv, NoUseAfterFree, Down
  <2> QED BY <2>1, <2>2, <2>3, <2>4 DEF LifeInv
<1>15. ASSUME DestroyProcs PROVE LifeInv'
  <2>1. LifeTypeOK'
    BY <1>1, <1>15 DEF DestroyProcs, router, flags, LifeInv, LifeTypeOK, StartedInv, Stages
  <2>2. (ProcsInv /\ StartedInv /\ RunningInv)'
    BY <1>1, <1>15
    DEF DestroyProcs, router, LifeInv, ProcsInv, StartedInv, RunningInv, Up
  <2>3. CallbackInv'
    BY <1>1, <1>15 DEF DestroyProcs, Waiting, LifeInv, CallbackInv, Dirs
  <2>4. (BufferInv /\ MonitorInv)'
    BY <1>1, <1>15
    DEF DestroyProcs, router, flags, LifeInv, BufferInv, MonitorInv,
        NoUseAfterFree, Down, Up
  <2> QED BY <2>1, <2>2, <2>3, <2>4 DEF LifeInv
<1>16. ASSUME FreeRing PROVE LifeInv'
  <2>1. LifeTypeOK'
    BY <1>1, <1>16 DEF FreeRing, flags, hal, LifeInv, LifeTypeOK, Stages
  <2>2. (ProcsInv /\ StartedInv /\ RunningInv)'
    BY <1>1, <1>16 DEF FreeRing, hal, LifeInv, ProcsInv, StartedInv, RunningInv, Up
  <2>3. CallbackInv'
    BY <1>1, <1>16 DEF FreeRing, Waiting, LifeInv, CallbackInv, StartedInv, Dirs
  <2>4. (BufferInv /\ MonitorInv)'
    BY <1>1, <1>16, NoneInside
    DEF FreeRing, flags, LifeInv, BufferInv, MonitorInv, NoUseAfterFree,
        StartedInv, Up
  <2> QED BY <2>1, <2>2, <2>3, <2>4 DEF LifeInv
<1>17. ASSUME NEW d \in Dirs, Halt(d) PROVE LifeInv'
  <2>1. /\ \/ d = "in" /\ at = "halt in" /\ at' = "wait in"
           \/ d = "out" /\ at = "halt out" /\ at' = "wait out"
        /\ started' = started \ {d}
        /\ UNCHANGED <<router, flags, procs, volume, callback, monitor, heard>>
    <3>1. CASE d = "in"
      BY <1>17, <3>1 DEF Halt, Halting, Waiting
    <3>2. CASE d = "out"
      BY <1>17, <3>2 DEF Halt, Halting, Waiting
    <3> QED BY <3>1, <3>2 DEF Dirs
  <2>2. started = IF d = "in" THEN {"in"} ELSE {"in", "out"}
    BY <1>1, <2>1 DEF LifeInv, StartedInv, Dirs
  <2>3. LifeTypeOK'
    BY <1>1, <2>1 DEF LifeInv, LifeTypeOK, Stages, router, flags
  <2>4. (ProcsInv /\ StartedInv /\ RunningInv)'
    BY <1>1, <2>1, <2>2 DEF LifeInv, ProcsInv, StartedInv, RunningInv, Down, Up, router
  <2>5. CallbackInv'
    <3>1. at' = Waiting[d]
      BY <1>17 DEF Halt
    <3>2. \A e \in Dirs : callback[e] # "out" => e \in started
      BY <1>1, <2>1 DEF LifeInv, CallbackInv, Waiting, Dirs
    <3> QED BY <2>1, <3>1, <3>2 DEF CallbackInv
  <2>6. (BufferInv /\ MonitorInv)'
    BY <1>1, <2>1
    DEF LifeInv, BufferInv, MonitorInv, NoUseAfterFree, Down, Up, router, flags
  <2> QED BY <2>3, <2>4, <2>5, <2>6 DEF LifeInv
<1>18. ASSUME NEW d \in Dirs, Halted(d) PROVE LifeInv'
  <2>1. /\ \/ d = "in" /\ at = "wait in" /\ at' = "cleanup"
           \/ d = "out" /\ at = "wait out" /\ at' = "halt in"
        /\ callback[d] = "out"
        /\ UNCHANGED <<router, flags, hal, volume, callback, monitor, heard>>
    <3>1. CASE d = "in"
      BY <1>18, <3>1 DEF Halted, Waiting
    <3>2. CASE d = "out"
      BY <1>18, <3>2 DEF Halted, Waiting
    <3> QED BY <3>1, <3>2 DEF Dirs
  <2>2. LifeTypeOK'
    BY <1>1, <2>1 DEF LifeInv, LifeTypeOK, Stages, router, flags, hal
  <2>3. (ProcsInv /\ StartedInv /\ RunningInv)'
    BY <1>1, <2>1 DEF LifeInv, ProcsInv, StartedInv, RunningInv, Down, Up, router, hal
  <2>4. CallbackInv'
    BY <1>1, <2>1 DEF LifeInv, CallbackInv, Waiting, Dirs, hal
  <2>5. (BufferInv /\ MonitorInv)'
    BY <1>1, <2>1
    DEF LifeInv, BufferInv, MonitorInv, NoUseAfterFree, Down, Up, router, flags
  <2> QED BY <2>2, <2>3, <2>4, <2>5 DEF LifeInv
<1>19. ASSUME NEW d \in Dirs, Enter(d) \/ CallbackStep(d) PROVE LifeInv'
  <2>1. /\ UNCHANGED <<router, flags, hal, at, volume, monitor>>
        /\ \A e \in Dirs \ {d} : callback'[e] = callback[e]
    BY <1>1, <1>19
    DEF Enter, CallbackStep, CheckRunning, CheckBuffer, Copied, ApplyGain, Step,
        LifeInv, LifeTypeOK
  <2>2. /\ callback' \in [Dirs -> {"out", "entered", "running", "copy", "gain"}]
        /\ callback[d] = "out" => d \in started
        /\ callback'[d] = "copy" => allocation = "allocated"
    BY <1>1, <1>19
    DEF Enter, CallbackStep, CheckRunning, CheckBuffer, Copied, ApplyGain, Step,
        LifeInv, LifeTypeOK
  <2>3. heard' \in 0..Unity \union {None}
    BY <1>1, <1>19
    DEF Enter, CallbackStep, CheckRunning, CheckBuffer, Copied, ApplyGain, LifeInv,
        LifeTypeOK, Unity
  <2>4. LifeTypeOK'
    BY <1>1, <2>1, <2>2, <2>3 DEF LifeInv, LifeTypeOK, router, flags, hal
  <2>5. (ProcsInv /\ StartedInv /\ RunningInv /\ MonitorInv)'
    BY <1>1, <2>1
    DEF LifeInv, ProcsInv, StartedInv, RunningInv, MonitorInv, Down, Up, router,
        flags, hal
  <2>6. CallbackInv'
    BY <1>1, <2>1, <2>2 DEF LifeInv, CallbackInv, router, hal
  <2>7. BufferInv'
    BY <1>1, <2>1, <2>2 DEF LifeInv, BufferInv, NoUseAfterFree, Down, router
  <2> QED BY <2>4, <2>5, <2>6, <2>7 DEF LifeInv
<1>20. ASSUME MonitorStep PROVE LifeInv'
  <2>1. /\ UNCHANGED <<router, flags, hal, at, volume, callback, heard>>
        /\ monitor # "none" /\ monitor' \in {"loop", "sleep", "ended"}
    BY <1>20 DEF MonitorStep, MonitorTest, MonitorReport
  <2>2. (LifeTypeOK /\ MonitorInv)'
    BY <1>1, <2>1 DEF LifeInv, LifeTypeOK, MonitorInv, Up, router, flags, hal
  <2>3. (ProcsInv /\ StartedInv /\ RunningInv)'
    BY <1>1, <2>1 DEF LifeInv, ProcsInv, StartedInv, RunningInv, Down, Up, router, hal
  <2>4. (CallbackInv /\ BufferInv)'
    BY <1>1, <2>1
    DEF LifeInv, CallbackInv, BufferInv, NoUseAfterFree, Down, router, hal
  <2> QED BY <2>2, <2>3, <2>4 DEF LifeInv
<1>21. CASE UNCHANGED lifeVars
  <2>1. (LifeTypeOK /\ MonitorInv)'
    BY <1>1, <1>21 DEF LifeInv, LifeTypeOK, MonitorInv, Up, lifeVars, router, flags, hal
  <2>2. (ProcsInv /\ StartedInv /\ RunningInv)'
    BY <1>1, <1>21
    DEF LifeInv, ProcsInv, StartedInv, RunningInv, Down, Up, lifeVars, router, hal
  <2>3. (CallbackInv /\ BufferInv)'
    BY <1>1, <1>21
    DEF LifeInv, CallbackInv, BufferInv, NoUseAfterFree, Down, lifeVars, router, hal
  <2> QED BY <2>1, <2>2, <2>3 DEF LifeInv
<1> QED BY <1>1, <1>2, <1>3, <1>4, <1>5, <1>6, <1>7, <1>8, <1>9, <1>10, <1>11, <1>12, <1>13, <1>14, <1>15, <1>16, <1>17, <1>18, <1>19, <1>20, <1>21
  DEF LifeNext, Proceed

\* Hence it always holds.
LEMMA LifeInvAlways == LifeSpec => []LifeInv
BY LifeInvInit, LifeInvNext, PTL DEF LifeSpec

\* The router's state is well formed, and the HAL never calls a proc that does
\* not exist.
THEOREM LifeTypeCorrect == LifeSpec => []LifeTypeOK
<1>1. LifeInv => LifeTypeOK
  BY DEF LifeInv
<1> QED BY <1>1, LifeInvAlways, PTL

\* No callback copies to or from a buffer that rb_destroy has freed: stop waits
\* for the callbacks under way before it gets there.
THEOREM BufferWhileCopying == LifeSpec => []NoUseAfterFree
<1>1. LifeInv => NoUseAfterFree
  BY DEF LifeInv, BufferInv
<1> QED BY <1>1, LifeInvAlways, PTL

\* Start and stop leave a whole router or none, whichever step of them fails.
THEOREM WholeOrNone == LifeSpec => []AllOrNothing
<1>1. ASSUME LifeInv PROVE AllOrNothing
  <2>1. CASE Up
    BY <1>1, <2>1 DEF LifeInv, ProcsInv, StartedInv, Up, AllOrNothing
  <2>2. CASE Down
    <3>1. procs = {} /\ started = {} /\ allocation = "NULL" /\ ~g_monitor_thread
      BY <1>1, <2>2 DEF LifeInv, ProcsInv, StartedInv, BufferInv, MonitorInv, Up, Down
    <3>2. monitor = "none"
      BY <1>1, <3>1 DEF LifeInv, MonitorInv
    <3>3. \A d \in Dirs : callback[d] = "out"
      BY <1>1, <2>2, <3>1, NoneInside DEF LifeInv, Down
    <3> QED BY <2>2, <3>1, <3>2, <3>3 DEF AllOrNothing, Down
  <2> QED BY <2>1, <2>2 DEF Up, Down, AllOrNothing
<1> QED BY <1>1, LifeInvAlways, PTL

=============================================================================
