----------------------------- MODULE RouterQueue -----------------------------
(***************************************************************************)
(* What the router's ring buffer promises, without saying how: a bounded   *)
(* first-in first-out queue of samples between the input callback and the  *)
(* output callback.  A block is taken whole or dropped whole, and is       *)
(* played whole or replaced by silence.  RouterRing is shown to implement  *)
(* this module.                                                            *)
(***************************************************************************)
EXTENDS Integers, Sequences

CONSTANTS
  Capacity,   \* samples allocated; one of them is never used
  InBlocks,   \* sample counts an input callback may bring
  OutBlocks,  \* sample counts an output callback may ask for
  CountWord   \* the statistics counters are modulo CountWord

VARIABLES
  queue,      \* the samples accepted and not yet played, oldest first
  accepted,   \* how many samples were ever accepted
  output,     \* the block the output callback delivered last
  dropped,    \* the size of the block discarded last
  overruns, underruns

vars == <<queue, accepted, output, dropped, overruns, underruns>>

\* A sample of silence; the accepted samples are numbered from 1.
Silence == 0

Init ==
  /\ queue = <<>>
  /\ accepted = 0
  /\ output = <<>>
  /\ dropped = 0
  /\ overruns = 0
  /\ underruns = 0

\* The whole block fits beside what is queued.
Accept(n) ==
  /\ Len(queue) + n <= Capacity - 1
  /\ queue' = queue \o [i \in 1..n |-> accepted + i]
  /\ accepted' = accepted + n
  /\ UNCHANGED <<output, dropped, overruns, underruns>>

\* It does not: the new block is discarded, what is queued is kept.
Drop(n) ==
  /\ Len(queue) + n > Capacity - 1
  /\ dropped' = n
  /\ overruns' = (overruns + 1) % CountWord
  /\ UNCHANGED <<queue, accepted, output, underruns>>

\* The block asked for is there: the oldest samples are played, in order.
Play(n) ==
  /\ n <= Len(queue)
  /\ output' = SubSeq(queue, 1, n)
  /\ queue' = SubSeq(queue, n + 1, Len(queue))
  /\ UNCHANGED <<accepted, dropped, overruns, underruns>>

\* It is not: silence is played and the queue keeps its partial block.
PlaySilence(n) ==
  /\ n > Len(queue)
  /\ output' = [i \in 1..n |-> Silence]
  /\ underruns' = (underruns + 1) % CountWord
  /\ UNCHANGED <<queue, accepted, dropped, overruns>>

Next ==
  \/ \E n \in InBlocks : Accept(n) \/ Drop(n)
  \/ \E n \in OutBlocks : Play(n) \/ PlaySilence(n)

Spec == Init /\ [][Next]_vars

=============================================================================
