-------------------------- MODULE IPCChannelProofs ---------------------------
(***************************************************************************)
(* For any threads, requests, calls and connections, wherever the server   *)
(* cuts a stream and whatever it reads there, the state is well formed,    *)
(* and a connection that has not lost step carries one call at a time: it  *)
(* is empty between calls, and the reply on it is the call's own.          *)
(*                                                                         *)
(* The calls of a process with one thread take effect as in RegistryCalls. *)
(***************************************************************************)
EXTENDS IPCChannel, FiniteSetTheorems, SequenceTheorems, WellFoundedInduction, TLAPS

-----------------------------------------------------------------------------
(* Streams of any length                                                    *)

\* No bytes in no piece.
LEMMA SizedNone == Sized(<<>>) = 0
<1> DEFINE P(h) == h = [k \in 0..0 |-> IF k = 0 THEN 0 ELSE h[k - 1] + <<>>[k].size]
           f == [k \in 0..0 |-> 0]
<1>1. P(f)
  OBVIOUS
<1>2. P(CHOOSE h : P(h))
  BY <1>1
<1>3. ASSUME NEW h, P(h) PROVE h[0] = 0
  BY <1>3
<1>4. Sized(<<>>) = (CHOOSE h : P(h))[0]
  BY DEF Sized
<1> QED BY <1>2, <1>3, <1>4

\* What is appended goes behind what was there.
LEMMA AppendKeeps ==
  ASSUME NEW S, NEW q \in Seq(S), NEW e \in S
  PROVE  \A i \in 1..Len(q) : Append(q, e)[i] = q[i]
BY AppendProperties, SMT

\* A set of numbers that holds 0 and, with each of its numbers, the next one,
\* holds them all: there is no least one it lacks.
LEMMA Induction ==
  ASSUME NEW S, 0 \in S, \A n \in Nat : n \in S => n + 1 \in S
  PROVE  \A n \in Nat : n \in S
<1> DEFINE T == {n \in Nat : n \notin S}
<1>1. SUFFICES ASSUME T # {} PROVE FALSE
  OBVIOUS
<1>2. T \subseteq Nat
  OBVIOUS
<1>3. PICK x \in T : \A y \in T : ~ (<<y, x>> \in OpToRel(<, Nat))
  <2> HIDE DEF T
  <2> QED BY <1>1, <1>2, NatLessThanWellFounded, WFMin, Zenon
<1>4. \A y \in T : ~ (y < x)
  <2> HIDE DEF T
  <2> QED BY <1>2, <1>3 DEF OpToRel
<1>5. x \in Nat /\ x - 1 \in Nat /\ x - 1 < x /\ (x - 1) + 1 = x
  OBVIOUS
<1>6. x - 1 \in S
  BY <1>4, <1>5
<1> QED BY <1>5, <1>6

\* Sequences of pieces of some set, each of so many bytes.
Sizes(P) == \A p \in P : p.size \in Nat

\* f adds up the sizes of the pieces of s.
SumsUp(f, s) ==
  /\ f[0] = 0
  /\ \A k \in 1..Len(s) : f[k] = f[k - 1] + s[k].size

\* Every sequence of pieces has such sums.
LEMMA SumsExist ==
  ASSUME NEW P, Sizes(P), NEW s \in Seq(P)
  PROVE  \E f \in [0..Len(s) -> Nat] : SumsUp(f, s)
<1> DEFINE Upto(n) == \E f \in [0..n -> Nat] :
                        f[0] = 0 /\ \A k \in 1..n : f[k] = f[k - 1] + s[k].size
           S == {n \in Nat : n <= Len(s) => Upto(n)}
<1>1. Upto(0)
  <2> DEFINE g == [k \in 0..0 |-> 0]
  <2>1. g \in [0..0 -> Nat] /\ g[0] = 0 /\ 1..0 = {}
    OBVIOUS
  <2> HIDE DEF g
  <2> QED BY <2>1
<1>2. ASSUME NEW n \in Nat, n + 1 <= Len(s), Upto(n) PROVE Upto(n + 1)
  <2>1. PICK f \in [0..n -> Nat] : f[0] = 0 /\ \A k \in 1..n : f[k] = f[k - 1] + s[k].size
    BY <1>2
  <2>2. s[n + 1].size \in Nat
    BY <1>2 DEF Sizes
  <2> DEFINE g == [k \in 0..(n + 1) |-> IF k = n + 1 THEN f[n] + s[n + 1].size ELSE f[k]]
  <2>3. g \in [0..(n + 1) -> Nat]
    BY <2>2
  <2>4. g[0] = 0 /\ \A k \in 1..(n + 1) : g[k] = g[k - 1] + s[k].size
    BY <2>1
  <2> HIDE DEF g
  <2> QED BY <2>3, <2>4
<1> HIDE DEF Upto
<1>5. 0 \in S /\ \A n \in Nat : n \in S => n + 1 \in S
  BY <1>1, <1>2
<1>6. Upto(Len(s))
  <2> HIDE DEF S
  <2>1. \A n \in Nat : n \in S
    BY <1>5, Induction, Zenon
  <2> QED BY <2>1 DEF S
<1> QED BY <1>6 DEF Upto, SumsUp

\* They are the only ones.
LEMMA SumsAgree ==
  ASSUME NEW s, Len(s) \in Nat, NEW f, NEW g, SumsUp(f, s), SumsUp(g, s)
  PROVE  \A k \in 0..Len(s) : f[k] = g[k]
<1> DEFINE S == {n \in Nat : n <= Len(s) => f[n] = g[n]}
<1>1. 0 \in S
  BY DEF SumsUp
<1>2. ASSUME NEW n \in Nat, n \in S PROVE n + 1 \in S
  <2> SUFFICES ASSUME n + 1 <= Len(s) PROVE f[n + 1] = g[n + 1]
    OBVIOUS
  <2>1. n + 1 \in 1..Len(s) /\ (n + 1) - 1 = n
    OBVIOUS
  <2>2. f[n] = g[n]
    BY <1>2
  <2> QED BY <2>1, <2>2 DEF SumsUp
<1> HIDE DEF S
<1>3. \A n \in Nat : n \in S
  BY <1>1, <1>2, Induction, Zenon
<1> QED BY <1>3 DEF S

\* Hence Sized is the last of them.
LEMMA SizedIs ==
  ASSUME NEW s, Len(s) \in Nat, NEW f, SumsUp(f, s)
  PROVE  Sized(s) = f[Len(s)]
<1> DEFINE P(h) == h = [k \in 0..Len(s) |-> IF k = 0 THEN 0 ELSE h[k - 1] + s[k].size]
           g == [k \in 0..Len(s) |-> f[k]]
           h == CHOOSE h : P(h)
<1>1. P(g)
  BY DEF SumsUp
<1> HIDE DEF g
<1>2. P(h)
  BY <1>1
<1>3. Sized(s) = h[Len(s)]
  BY DEF Sized
<1> HIDE DEF h
<1>4. SumsUp(h, s)
  <2>1. /\ h[0] = 0
        /\ \A k \in 1..Len(s) : h[k] = h[k - 1] + s[k].size
    BY <1>2
  <2> QED BY <2>1 DEF SumsUp
<1>5. \A k \in 0..Len(s) : f[k] = h[k]
  BY <1>4, SumsAgree
<1> QED BY <1>3, <1>5

\* The bytes of a sequence, of a first part of it, and of the rest.
LEMMA SizedFacts ==
  ASSUME NEW P, Sizes(P), NEW s \in Seq(P)
  PROVE  /\ Sized(s) \in Nat
         /\ \A k \in 0..Len(s) : /\ Sized(SubSeq(s, 1, k)) \in Nat
                                 /\ Sized(SubSeq(s, k + 1, Len(s)))
                                      = Sized(s) - Sized(SubSeq(s, 1, k))
<1>1. PICK f \in [0..Len(s) -> Nat] : SumsUp(f, s)
  BY SumsExist
<1>2. Sized(s) = f[Len(s)]
  BY <1>1, SizedIs
<1>3. ASSUME NEW k \in 0..Len(s)
      PROVE  /\ Sized(SubSeq(s, 1, k)) = f[k]
             /\ Sized(SubSeq(s, k + 1, Len(s))) = f[Len(s)] - f[k]
  <2>1. Sized(SubSeq(s, 1, k)) = f[k]
    <3> DEFINE t == SubSeq(s, 1, k)
    <3>1. Len(t) = k /\ \A j \in 1..k : t[j] = s[j]
      OBVIOUS
    <3> HIDE DEF t
    <3>2. SumsUp(f, t)
      BY <1>1, <3>1 DEF SumsUp
    <3> QED BY <3>1, <3>2, SizedIs DEF t
  <2>2. Sized(SubSeq(s, k + 1, Len(s))) = f[Len(s)] - f[k]
    <3> DEFINE t == SubSeq(s, k + 1, Len(s))
               m == Len(s) - k
               g == [j \in 0..m |-> f[k + j] - f[k]]
    <3>1. m \in Nat /\ Len(t) = m /\ \A j \in 1..m : t[j] = s[k + j]
      OBVIOUS
    <3>2. ASSUME NEW j \in 1..m
          PROVE  g[j] = g[j - 1] + t[j].size
      <4>1. k + j \in 1..Len(s) /\ (k + j) - 1 = k + (j - 1) /\ t[j] = s[k + j]
        BY <3>1
      <4>2. f[k + j] = f[k + (j - 1)] + t[j].size
        BY <1>1, <4>1 DEF SumsUp
      <4>3. t[j].size \in Nat
        BY <4>1 DEF Sizes
      <4>4. f[k + j] \in Nat /\ f[k + (j - 1)] \in Nat /\ f[k] \in Nat
        BY <4>1
      <4> HIDE DEF t
      <4> QED BY SMTT(40), <4>2, <4>3, <4>4
    <3>3. g[0] = 0 /\ g[m] = f[Len(s)] - f[k]
      OBVIOUS
    <3> HIDE DEF t, g
    <3>4. SumsUp(g, t)
      BY <3>1, <3>2, <3>3 DEF SumsUp
    <3>5. Sized(t) = g[m]
      BY <3>1, <3>4, SizedIs
    <3> QED BY <3>3, <3>5 DEF t
  <2> QED BY <2>1, <2>2
<1>4. Sized(s) \in Nat /\ Len(s) \in Nat /\ \A k \in 0..Len(s) : f[k] \in Nat
  BY <1>2
<1> QED BY <1>2, <1>3, <1>4, Zenon

\* A piece more.
LEMMA SizedAppend ==
  ASSUME NEW P, Sizes(P), NEW s \in Seq(P), NEW p \in P
  PROVE  Sized(Append(s, p)) = Sized(s) + p.size
<1> DEFINE t == Append(s, p)
<1>1. t \in Seq(P) /\ Len(t) = Len(s) + 1 /\ t[Len(s) + 1] = p
  BY AppendProperties
<1>2. \A k \in 1..Len(s) : t[k] = s[k]
  BY AppendKeeps, Zenon
<1>3. Len(s) \in Nat
  OBVIOUS
<1> HIDE DEF t
<1>4. PICK f \in [0..Len(t) -> Nat] : SumsUp(f, t)
  BY <1>1, SumsExist
<1>5. SumsUp(f, s)
  BY <1>1, <1>2, <1>3, <1>4 DEF SumsUp
<1>6. Sized(t) = f[Len(s) + 1] /\ Sized(s) = f[Len(s)]
  BY <1>1, <1>3, <1>4, <1>5, SizedIs
<1>7. f[Len(s) + 1] = f[Len(s)] + p.size
  BY <1>1, <1>3, <1>4 DEF SumsUp
<1> QED BY <1>6, <1>7 DEF t

\* Numbers with a bound have a greatest one.
LEMMA MaxOf ==
  ASSUME NEW m \in Nat, NEW G, G \subseteq 0..m, G # {}
  PROVE  Max(G) \in G /\ \A k \in G : Max(G) >= k
<1> DEFINE T == {m - k : k \in G}
<1>1. T \subseteq Nat /\ T # {}
  <2>1. \A k \in G : m - k \in Nat
    OBVIOUS
  <2> QED BY <2>1, Zenon
<1>2. PICK x \in T : \A y \in T : ~ (<<y, x>> \in OpToRel(<, Nat))
  <2> HIDE DEF T
  <2> QED BY <1>1, NatLessThanWellFounded, WFMin, Zenon
<1>3. \A y \in T : ~ (y < x)
  <2> HIDE DEF T
  <2> QED BY <1>1, <1>2 DEF OpToRel
<1>4. PICK g \in G : x = m - g
  OBVIOUS
<1>5. \A k \in G : g >= k
  <2> TAKE k \in G
  <2>1. ~ (m - k < m - g)
    BY <1>3, <1>4, Zenon
  <2>2. k \in Int /\ g \in Int
    OBVIOUS
  <2> QED BY <2>1, <2>2
<1> QED BY <1>5 DEF Max

\* What recv leaves of a stream are its last pieces.
LEMMA TakenParts ==
  ASSUME NEW P, Sizes(P), NEW s \in Stream(P), NEW n \in Nat
  PROVE  LET ps == s.pieces IN
         \E g \in 0..Len(ps) :
           /\ Sized(SubSeq(ps, 1, g)) <= s.skew + n
           /\ \A k \in 0..Len(ps) : Sized(SubSeq(ps, 1, k)) <= s.skew + n => k <= g
           /\ Taken(s, n) = [pieces |-> SubSeq(ps, g + 1, Len(ps)),
                             skew   |-> s.skew + n - Sized(SubSeq(ps, 1, g))]
<1> DEFINE ps == s.pieces
           G  == {k \in 0..Len(ps) : Sized(SubSeq(ps, 1, k)) <= s.skew + n}
           g  == Max(G)
           t  == SubSeq(ps, g + 1, Len(ps))
<1>1. ps \in Seq(P) /\ s.skew \in Nat /\ Len(ps) \in Nat
  BY DEF Stream
<1>2. g \in G /\ \A k \in G : g >= k
  <2>1. Sized(SubSeq(ps, 1, 0)) = 0
    <3>1. SubSeq(ps, 1, 0) = <<>>
      BY SubSeqEmpty
    <3> QED BY <3>1, SizedNone, Zenon
  <2>2. 0 \in G
    BY <1>1, <2>1
  <2>3. G \subseteq 0..Len(ps) /\ G # {}
    BY <2>2
  <2> HIDE DEF G
  <2> QED BY <1>1, <2>3, MaxOf
<1>3. /\ g \in 0..Len(ps) /\ Sized(SubSeq(ps, 1, g)) <= s.skew + n
      /\ \A k \in 0..Len(ps) : Sized(SubSeq(ps, 1, k)) <= s.skew + n => k <= g
  <2> HIDE DEF g
  <2> QED BY <1>2
<1>4. Taken(s, n) = [pieces |-> t, skew |-> s.skew + n - Sized(SubSeq(ps, 1, g))]
  BY DEF Taken
<1> HIDE DEF g, G
<1> QED BY <1>3, <1>4

\* They are a stream, with as many bytes less.
LEMMA TakenFacts ==
  ASSUME NEW P, Sizes(P), NEW s \in Stream(P), NEW n \in Nat
  PROVE  /\ Taken(s, n) \in Stream(P)
         /\ Available(Taken(s, n)) = Available(s) - n
<1> DEFINE ps == s.pieces
<1>1. ps \in Seq(P) /\ s.skew \in Nat /\ Len(ps) \in Nat
  BY DEF Stream
<1>2. PICK g \in 0..Len(ps) :
        /\ Sized(SubSeq(ps, 1, g)) <= s.skew + n
        /\ Taken(s, n) = [pieces |-> SubSeq(ps, g + 1, Len(ps)),
                          skew   |-> s.skew + n - Sized(SubSeq(ps, 1, g))]
  BY TakenParts, Zenon
<1> HIDE DEF ps
<1> DEFINE t == SubSeq(ps, g + 1, Len(ps))
<1>5. t \in Seq(P)
  BY <1>1, <1>2
<1>6. /\ Sized(ps) \in Nat /\ Sized(SubSeq(ps, 1, g)) \in Nat
      /\ Sized(t) = Sized(ps) - Sized(SubSeq(ps, 1, g))
  BY <1>1, <1>2, SizedFacts
<1> HIDE DEF t
<1>7. s.skew + n - Sized(SubSeq(ps, 1, g)) \in Nat
  BY <1>1, <1>2, <1>6
<1>8. Taken(s, n) \in Stream(P)
  BY <1>2, <1>5, <1>7 DEF Stream, t
<1>9. Available(Taken(s, n)) = Sized(t) - (s.skew + n - Sized(SubSeq(ps, 1, g)))
  BY <1>2 DEF Available, t
<1>10. Available(s) = Sized(ps) - s.skew
  BY DEF Available, ps
<1> QED BY <1>1, <1>6, <1>8, <1>9, <1>10

\* What send makes of it.
LEMMA PutFacts ==
  ASSUME NEW P, Sizes(P), NEW s \in Stream(P), NEW p \in P
  PROVE  Put(s, p) \in Stream(P) /\ Available(Put(s, p)) = Available(s) + p.size
<1>1. s.pieces \in Seq(P) /\ s.skew \in Nat /\ s = [pieces |-> s.pieces, skew |-> s.skew]
  BY DEF Stream
<1>2. Put(s, p) = [pieces |-> Append(s.pieces, p), skew |-> s.skew]
  <2> DEFINE a == s.pieces  b == s.skew
  <2>1. s = [pieces |-> a, skew |-> b]
    BY <1>1
  <2>2. Put(s, p) = [s EXCEPT !.pieces = Append(a, p)]
    BY DEF Put
  <2> HIDE DEF a, b
  <2>3. Put(s, p) = [pieces |-> Append(a, p), skew |-> b]
    BY <2>1, <2>2
  <2> QED BY <2>3 DEF a, b
<1>3. Append(s.pieces, p) \in Seq(P)
  BY <1>1, AppendProperties, Zenon
<1>4. Sized(Append(s.pieces, p)) = Sized(s.pieces) + p.size
  BY <1>1, SizedAppend
<1>5. Sized(s.pieces) \in Nat /\ p.size \in Nat
  BY <1>1, SizedFacts DEF Sizes
<1>6. Put(s, p) \in Stream(P)
  BY <1>1, <1>2, <1>3 DEF Stream
<1> QED BY <1>1, <1>2, <1>4, <1>5, <1>6 DEF Available

\* Bytes to read are those of a piece.
LEMMA HeadFacts ==
  ASSUME NEW P, Sizes(P), NEW s \in Stream(P), Available(s) > 0
  PROVE  s.pieces # <<>> /\ Head(s.pieces) \in P
<1>1. s.pieces \in Seq(P) /\ s.skew \in Nat
  BY DEF Stream
<1>2. s.pieces # <<>>
  BY <1>1, SizedNone DEF Available
<1> QED BY <1>1, <1>2

\* A receive takes no more than there is.
LEMMA AtMostFacts ==
  ASSUME NEW P, Sizes(P), NEW s \in Stream(P), NEW n \in Int, Available(s) >= 0
  PROVE  /\ Available(s) \in Nat /\ AtMost(s, n) \in Int
         /\ AtMost(s, n) <= Available(s) /\ AtMost(s, n) <= n
         /\ n \in Nat => AtMost(s, n) \in Nat
<1>1. Available(s) \in Int
  BY SizedFacts DEF Stream, Available
<1> QED BY <1>1 DEF AtMost

\* What a receive of some bytes finds at the head, and leaves.
LEMMA ReceiveFacts ==
  ASSUME NEW P, Sizes(P), NEW s \in Stream(P), NEW n \in Int, Available(s) >= 0,
         AtMost(s, n) > 0
  PROVE  /\ Head(s.pieces) \in P
         /\ Taken(s, AtMost(s, n)) \in Stream(P) /\ Available(Taken(s, AtMost(s, n))) >= 0
<1>1. AtMost(s, n) \in Nat /\ AtMost(s, n) <= Available(s) /\ Available(s) \in Nat
  BY AtMostFacts
<1>2. Available(s) > 0
  BY <1>1
<1>3. Head(s.pieces) \in P
  BY <1>2, HeadFacts
<1>4. /\ Taken(s, AtMost(s, n)) \in Stream(P)
      /\ Available(Taken(s, AtMost(s, n))) = Available(s) - AtMost(s, n)
  BY <1>1, TakenFacts
<1> QED BY <1>1, <1>3, <1>4

-----------------------------------------------------------------------------
(* Streams of one piece or two                                              *)

\* A stream with one piece, k bytes of which have been read.
One(piece, k) == [pieces |-> <<piece>>, skew |-> k]

\* The bytes of one piece.
LEMMA SizedOne ==
  ASSUME NEW a, a.size \in Nat
  PROVE  Sized(<<a>>) = a.size
<1>1. Sizes({a}) /\ <<>> \in Seq({a}) /\ Append(<<>>, a) = <<a>>
  BY DEF Sizes
<1>2. Sized(Append(<<>>, a)) = Sized(<<>>) + a.size
  BY <1>1, SizedAppend
<1> QED BY <1>1, <1>2, SizedNone

\* A second piece behind the first.
LEMMA AppendOne ==
  ASSUME NEW a, NEW b
  PROVE  Append(<<a>>, b) = <<a, b>>
<1> DEFINE t == <<a, b>>  x == <<a>>  y == Append(x, b)
<1>1. x \in Seq({a, b}) /\ Len(x) = 1 /\ x[1] = a
  OBVIOUS
<1> HIDE DEF x
<1>2. y \in Seq({a, b}) /\ Len(y) = 2 /\ y[2] = b /\ y[1] = a
  <2>1. b \in {a, b}
    OBVIOUS
  <2>2. y \in Seq({a, b}) /\ Len(y) = Len(x) + 1
    BY <1>1, <2>1, AppendProperties, Zenon
  <2>3. \A i \in 1..Len(x) : y[i] = x[i]
    BY <1>1, <2>1, AppendKeeps, Zenon
  <2>4. y[Len(x) + 1] = b
    BY <1>1, <2>1, AppendProperties, Zenon
  <2> HIDE DEF y
  <2> QED BY <1>1, <2>2, <2>3, <2>4
<1> HIDE DEF y
<1>3. Len(t) = 2 /\ t[1] = a /\ t[2] = b
  OBVIOUS
<1>4. y = t
  BY <1>2, <1>3
<1> QED BY <1>4 DEF x, y

\* The bytes of two pieces.
LEMMA SizedTwo ==
  ASSUME NEW a, NEW b, a.size \in Nat, b.size \in Nat
  PROVE  Sized(<<a, b>>) = a.size + b.size
<1>1. Sizes({a, b})
  BY DEF Sizes
<1>2. <<a>> \in Seq({a, b})
  OBVIOUS
<1>3. Append(<<a>>, b) = <<a, b>>
  BY AppendOne
<1>4. Sized(Append(<<a>>, b)) = Sized(<<a>>) + b.size
  BY <1>1, <1>2, SizedAppend
<1> QED BY <1>3, <1>4, SizedOne

\* The parts of a stream of one piece or two.
LEMMA PartsOfOne ==
  ASSUME NEW a
  PROVE  /\ Len(<<a>>) = 1 /\ SubSeq(<<a>>, 1, 1) = <<a>>
         /\ SubSeq(<<a>>, 1, 0) = <<>> /\ SubSeq(<<a>>, 2, 1) = <<>>
<1>1. <<a>> \in Seq({a}) /\ Len(<<a>>) = 1
  OBVIOUS
<1>2. SubSeq(<<a>>, 1, Len(<<a>>)) = <<a>>
  BY <1>1, SubSeqFull
<1> QED BY <1>1, <1>2, SubSeqEmpty

\* The pieces of a sequence of two.
LEMMA PartsOfTwo ==
  ASSUME NEW a, NEW b
  PROVE  /\ Len(<<a, b>>) = 2 /\ SubSeq(<<a, b>>, 1, 2) = <<a, b>>
         /\ SubSeq(<<a, b>>, 1, 1) = <<a>> /\ SubSeq(<<a, b>>, 2, 2) = <<b>>
<1> DEFINE s == <<a, b>>
<1>1. s \in Seq({a, b}) /\ Len(s) = 2 /\ s[1] = a /\ s[2] = b
  OBVIOUS
<1> HIDE DEF s
<1>2. SubSeq(s, 1, 2) = s
  BY <1>1, SubSeqFull
<1>3. ASSUME NEW t \in Seq({a, b}), NEW x, Len(t) = 1, t[1] = x PROVE t = <<x>>
  BY <1>3
<1>4. \A i \in 1..2 : s[i] \in {a, b}
  BY <1>1
<1>5. /\ SubSeq(s, 1, 1) \in Seq({a, b}) /\ Len(SubSeq(s, 1, 1)) = 1
      /\ SubSeq(s, 1, 1)[1] = a
  BY <1>1, <1>4, SubSeqProperties
<1>6. /\ SubSeq(s, 2, 2) \in Seq({a, b}) /\ Len(SubSeq(s, 2, 2)) = 1
      /\ SubSeq(s, 2, 2)[1] = b
  BY <1>1, <1>4, SubSeqProperties
<1> QED BY <1>1, <1>2, <1>3, <1>5, <1>6 DEF s

\* The bytes up to the end of each piece.
UpTo(s) == [k \in 0..Len(s.pieces) |-> Sized(SubSeq(s.pieces, 1, k))]

\* recv takes the whole pieces that its bytes reach the end of.
LEMMA TakenIs ==
  ASSUME NEW s, NEW n, NEW g \in 0..Len(s.pieces), Len(s.pieces) \in Nat,
         s.skew + n \in Nat, UpTo(s) \in [0..Len(s.pieces) -> Nat],
         UpTo(s)[g] <= s.skew + n,
         \A k \in 0..Len(s.pieces) : k > g => UpTo(s)[k] > s.skew + n
  PROVE  Taken(s, n) = [pieces |-> SubSeq(s.pieces, g + 1, Len(s.pieces)),
                        skew   |-> s.skew + n - UpTo(s)[g]]
<1> DEFINE G == {k \in 0..Len(s.pieces) : UpTo(s)[k] <= s.skew + n}
<1>1. g \in G /\ \A k \in G : k <= g
  OBVIOUS
<1>2. G \subseteq Nat
  OBVIOUS
<1>3. \A k \in 0..Len(s.pieces) : UpTo(s)[k] = Sized(SubSeq(s.pieces, 1, k))
  BY DEF UpTo
<1>4. G = {k \in 0..Len(s.pieces) : Sized(SubSeq(s.pieces, 1, k)) <= s.skew + n}
  BY <1>3, Zenon
<1>5. Taken(s, n) = [pieces |-> SubSeq(s.pieces, Max(G) + 1, Len(s.pieces)),
                     skew   |-> s.skew + n - Sized(SubSeq(s.pieces, 1, Max(G)))]
  BY <1>4, Zenon DEF Taken
<1> HIDE DEF G
<1>6. Max(G) \in G /\ \A k \in G : Max(G) >= k
  BY <1>1, <1>2 DEF Max
<1>7. Max(G) \in Nat /\ Max(G) >= g /\ Max(G) <= g
  BY <1>1, <1>2, <1>6
<1>8. Max(G) = g
  BY <1>7
<1>9. UpTo(s)[g] = Sized(SubSeq(s.pieces, 1, g))
  BY <1>3, Zenon
<1>10. Taken(s, n) = [pieces |-> SubSeq(s.pieces, g + 1, Len(s.pieces)),
                      skew   |-> s.skew + n - Sized(SubSeq(s.pieces, 1, g))]
  BY <1>5, <1>8, Zenon
<1> QED BY <1>9, <1>10, Zenon

\* Where the piece of a stream of one ends.
LEMMA UpToOne ==
  ASSUME NEW a, a.size \in Nat, NEW k
  PROVE  UpTo(One(a, k)) = [j \in 0..1 |-> IF j = 0 THEN 0 ELSE a.size]
<1>1. /\ Sized(SubSeq(<<a>>, 1, 0)) = 0 /\ Sized(SubSeq(<<a>>, 1, 1)) = a.size
      /\ Len(<<a>>) = 1
  BY PartsOfOne, SizedNone, SizedOne
<1>2. \A j \in 0..1 : j = 0 \/ j = 1
  OBVIOUS
<1>3. \A j \in 0..1 : Sized(SubSeq(<<a>>, 1, j)) = IF j = 0 THEN 0 ELSE a.size
  BY <1>1, <1>2, Zenon
<1>4. One(a, k).pieces = <<a>>
  BY DEF One
<1> QED BY <1>1, <1>3, <1>4, Zenon DEF UpTo

\* Where the pieces of a stream of two end.
LEMMA UpToTwo ==
  ASSUME NEW a, NEW b, a.size \in Nat, b.size \in Nat
  PROVE  UpTo([pieces |-> <<a, b>>, skew |-> 0])
           = [j \in 0..2 |-> IF j = 0 THEN 0 ELSE IF j = 1 THEN a.size ELSE a.size + b.size]
<1> DEFINE s == <<a, b>>
<1>1. /\ SubSeq(s, 1, 0) = <<>> /\ SubSeq(s, 1, 1) = <<a>> /\ SubSeq(s, 1, 2) = s
      /\ Len(s) = 2
  BY PartsOfTwo, SubSeqEmpty
<1>2. Sized(<<>>) = 0 /\ Sized(<<a>>) = a.size /\ Sized(s) = a.size + b.size
  BY SizedNone, SizedOne, SizedTwo
<1>3. \A j \in 0..2 : j = 0 \/ j = 1 \/ (j = 2 /\ j # 1 /\ j # 0)
  OBVIOUS
<1>4. 1 # 0
  OBVIOUS
<1>5. \A j \in 0..2 : Sized(SubSeq(s, 1, j))
                      = IF j = 0 THEN 0 ELSE IF j = 1 THEN a.size ELSE a.size + b.size
  BY <1>1, <1>2, <1>3, <1>4, Zenon
<1>6. [pieces |-> s, skew |-> 0].pieces = s
  OBVIOUS
<1> HIDE DEF s
<1> QED BY <1>1, <1>5, <1>6, Zenon DEF UpTo, s

\* recv that ends within a piece, with the last one, and with the first of two.
LEMMA TakenNone ==
  ASSUME NEW a, a.size \in Nat, NEW k \in Nat, NEW n \in Nat, k + n < a.size
  PROVE  Taken(One(a, k), n) = One(a, k + n)
<1> DEFINE s == One(a, k)
<1>1. Len(s.pieces) = 1 /\ s.skew = k /\ s.pieces = <<a>> /\ SubSeq(s.pieces, 1, 1) = <<a>>
  BY PartsOfOne DEF One
<1>2. UpTo(s) = [j \in 0..1 |-> IF j = 0 THEN 0 ELSE a.size]
  BY UpToOne
<1> HIDE DEF s
<1>5. /\ 0 \in 0..Len(s.pieces) /\ Len(s.pieces) \in Nat /\ s.skew + n \in Nat
      /\ UpTo(s) \in [0..Len(s.pieces) -> Nat] /\ UpTo(s)[0] <= s.skew + n
      /\ \A j \in 0..Len(s.pieces) : j > 0 => UpTo(s)[j] > s.skew + n
  BY <1>1, <1>2
<1>3. Taken(s, n) = [pieces |-> SubSeq(s.pieces, 0 + 1, Len(s.pieces)),
                    skew   |-> s.skew + n - UpTo(s)[0]]
  BY <1>5, TakenIs, Zenon
<1>4. s.skew + n - UpTo(s)[0] = k + n
  BY <1>1, <1>2
<1> QED BY <1>1, <1>3, <1>4 DEF One, s

\* Reading the rest of the only piece leaves nothing.
LEMMA TakenOne ==
  ASSUME NEW a, a.size \in Nat, NEW k \in Nat, NEW n \in Nat, k + n = a.size
  PROVE  Taken(One(a, k), n) = Empty
<1> DEFINE s == One(a, k)
<1>1. Len(s.pieces) = 1 /\ s.skew = k /\ SubSeq(s.pieces, 2, 1) = <<>>
  BY PartsOfOne DEF One
<1>2. UpTo(s) = [j \in 0..1 |-> IF j = 0 THEN 0 ELSE a.size]
  BY UpToOne
<1> HIDE DEF s
<1>5. /\ 1 \in 0..Len(s.pieces) /\ Len(s.pieces) \in Nat /\ s.skew + n \in Nat
      /\ UpTo(s) \in [0..Len(s.pieces) -> Nat] /\ UpTo(s)[1] <= s.skew + n
      /\ \A j \in 0..Len(s.pieces) : j > 1 => UpTo(s)[j] > s.skew + n
  BY <1>1, <1>2
<1>3. Taken(s, n) = [pieces |-> SubSeq(s.pieces, 1 + 1, Len(s.pieces)),
                    skew   |-> s.skew + n - UpTo(s)[1]]
  BY <1>5, TakenIs, Zenon
<1>4. s.skew + n - UpTo(s)[1] = 0
  BY <1>1, <1>2
<1> QED BY <1>1, <1>3, <1>4 DEF Empty, s

\* Reading the first piece of two leaves the second.
LEMMA TakenFirst ==
  ASSUME NEW a, NEW b, a.size \in Nat, b.size \in Nat \ {0}
  PROVE  Taken([pieces |-> <<a, b>>, skew |-> 0], a.size) = One(b, 0)
<1> DEFINE s == [pieces |-> <<a, b>>, skew |-> 0]
<1>1. Len(s.pieces) = 2 /\ s.skew = 0 /\ SubSeq(s.pieces, 2, 2) = <<b>>
  BY PartsOfTwo
<1>2. UpTo(s) = [j \in 0..2 |-> IF j = 0 THEN 0 ELSE IF j = 1 THEN a.size ELSE a.size + b.size]
  BY UpToTwo
<1> HIDE DEF s
<1>5. /\ 1 \in 0..Len(s.pieces) /\ Len(s.pieces) \in Nat /\ s.skew + a.size \in Nat
      /\ UpTo(s) \in [0..Len(s.pieces) -> Nat] /\ UpTo(s)[1] <= s.skew + a.size
      /\ \A j \in 0..Len(s.pieces) : j > 1 => UpTo(s)[j] > s.skew + a.size
  BY <1>1, <1>2
<1>3. Taken(s, a.size) = [pieces |-> SubSeq(s.pieces, 1 + 1, Len(s.pieces)),
                    skew   |-> s.skew + a.size - UpTo(s)[1]]
  BY <1>5, TakenIs, Zenon
<1>4. s.skew + a.size - UpTo(s)[1] = 0
  BY <1>1, <1>2
<1> QED BY <1>1, <1>3, <1>4 DEF One, s

-----------------------------------------------------------------------------
(* What the streams hold                                                    *)
\* The two pieces of request r of call n.
Header(n, r) == [of |-> n, size |-> HeaderSize, header |-> TRUE, request |-> r]
Body(n, r)   == [of |-> n, size |-> PayloadSize[r.cmd], header |-> FALSE, request |-> r]

\* A stream to the server between the two sends of a request, and after them.
Half(n, r)  == One(Header(n, r), 0)
Whole(n, r) == IF PayloadSize[r.cmd] = 0 THEN Half(n, r)
               ELSE [pieces |-> <<Header(n, r), Body(n, r)>>, skew |-> 0]

\* Replies have a payload.
Replies == {p \in Pieces : p.size > HeaderSize}

\* What a request is made of.
LEMMA RequestType ==
  ASSUME NEW r \in Requests
  PROVE  /\ r \in [cmd : Commands, pid : Pids, volume : Int, muted : BOOLEAN]
         /\ PayloadSize[r.cmd] \in Nat
BY IPCChannelAssumption DEF Commands, PayloadSize

\* Nothing on a stream.
LEMMA EmptyFacts == Available(Empty) = 0 /\ ToSet(Empty.pieces) = {}
<1>1. Empty.pieces = <<>> /\ Empty.skew = 0 /\ DOMAIN <<>> = {}
  BY DEF Empty
<1> QED BY <1>1, SizedNone DEF Available, ToSet

\* One piece on a stream.
LEMMA OneFacts ==
  ASSUME NEW p, p.size \in Nat, NEW k \in Nat
  PROVE  /\ Available(One(p, k)) = p.size - k
         /\ Head(One(p, k).pieces) = p /\ One(p, k).skew = k
         /\ ToSet(One(p, k).pieces) = {p}
         /\ One(p, k).pieces # <<>> /\ One(p, k) # Empty
         /\ Put(Empty, p) = One(p, 0)
<1>1. /\ One(p, k).pieces = <<p>> /\ One(p, k).skew = k
      /\ Head(<<p>>) = p /\ <<p>> # <<>> /\ DOMAIN <<p>> = {1} /\ <<p>>[1] = p
      /\ Append(<<>>, p) = <<p>>
  BY DEF One
<1>2. Available(One(p, k)) = p.size - k
  BY <1>1, SizedOne DEF Available
<1>3. ToSet(<<p>>) = {p}
  BY <1>1, Zenon DEF ToSet
<1>4. Put(Empty, p) = One(p, 0)
  BY <1>1 DEF Put, Empty, One
<1>5. Empty.pieces = <<>>
  BY DEF Empty
<1>6. One(p, k) # Empty
  BY <1>1, <1>5, Zenon
<1> QED BY <1>1, <1>2, <1>3, <1>4, <1>6

\* Two pieces on a stream.
LEMMA TwoFacts ==
  ASSUME NEW a, NEW b, a.size \in Nat, b.size \in Nat
  PROVE  LET s == [pieces |-> <<a, b>>, skew |-> 0] IN
         /\ Available(s) = a.size + b.size
         /\ Head(s.pieces) = a /\ s.skew = 0
         /\ ToSet(s.pieces) = {a, b}
         /\ s.pieces # <<>> /\ s # Empty
         /\ Put(One(a, 0), b) = s
<1> DEFINE t == <<a, b>>
           s == [pieces |-> t, skew |-> 0]
<1>6. Len(t) = 2 /\ t[1] = a /\ t[2] = b
  OBVIOUS
<1>7. DOMAIN t = {1, 2}
  OBVIOUS
<1>8. Head(t) = a /\ t # <<>>
  OBVIOUS
<1>9. Append(<<a>>, b) = t
  BY AppendOne
<1>10. s.pieces = t /\ s.skew = 0
  OBVIOUS
<1>1. /\ s.pieces = t /\ s.skew = 0 /\ Head(t) = a /\ t # <<>> /\ DOMAIN t = {1, 2}
      /\ t[1] = a /\ t[2] = b /\ Append(<<a>>, b) = t
  BY <1>6, <1>7, <1>8, <1>9, <1>10, Zenon
<1>2. Available(s) = a.size + b.size
  <2>1. Sized(t) = a.size + b.size
    BY SizedTwo
  <2> HIDE DEF t
  <2> QED BY <1>1, <2>1 DEF Available
<1>3. ToSet(t) = {a, b}
  BY <1>1, Zenon DEF ToSet
<1>4. Put(One(a, 0), b) = s
  BY <1>1 DEF Put, One
<1>11. Empty.pieces = <<>>
  BY DEF Empty
<1>5. s # Empty
  BY <1>1, <1>11, Zenon
<1> QED BY <1>1, <1>2, <1>3, <1>4, <1>5

\* A header alone.
LEMMA HalfFacts ==
  ASSUME NEW n, NEW r \in Requests
  PROVE  /\ Half(n, r) # Empty /\ Available(Half(n, r)) = HeaderSize
         /\ ToSet(Half(n, r).pieces) = {Header(n, r)}
         /\ Put(Empty, Header(n, r)) = Half(n, r)
<1> DEFINE h == Header(n, r)
<1>1. h.size = HeaderSize /\ h.size \in Nat /\ h.size - 0 = HeaderSize
  BY DEF Header, HeaderSize
<1>2. Half(n, r) = One(h, 0)
  BY DEF Half
<1> HIDE DEF h
<1>3. /\ Available(One(h, 0)) = h.size - 0 /\ ToSet(One(h, 0).pieces) = {h}
      /\ One(h, 0) # Empty /\ Put(Empty, h) = One(h, 0)
  BY <1>1, OneFacts
<1> QED BY <1>1, <1>2, <1>3 DEF h

\* A request whose two parts are there, and what is left when its header is read.
Rest(n, r) == IF PayloadSize[r.cmd] = 0 THEN Empty ELSE One(Body(n, r), 0)

\* A request whose two parts are on a stream.
LEMMA WholeFacts ==
  ASSUME NEW n, NEW r \in Requests
  PROVE  /\ Whole(n, r) # Empty /\ Available(Whole(n, r)) = HeaderSize + PayloadSize[r.cmd]
         /\ ToSet(Whole(n, r).pieces)
              = IF PayloadSize[r.cmd] = 0 THEN {Header(n, r)} ELSE {Header(n, r), Body(n, r)}
         /\ PayloadSize[r.cmd] # 0 => Put(Half(n, r), Body(n, r)) = Whole(n, r)
         /\ AtHeader(Whole(n, r)) /\ Head(Whole(n, r).pieces) = Header(n, r)
         /\ Taken(Whole(n, r), HeaderSize) = Rest(n, r)
<1> DEFINE h == Header(n, r)  b == Body(n, r)
<1>1. /\ h.size = HeaderSize /\ b.size = PayloadSize[r.cmd] /\ h.header
      /\ h.size \in Nat /\ b.size \in Nat
  BY RequestType DEF Header, Body, HeaderSize
<1>2. CASE PayloadSize[r.cmd] = 0
  <2>1. Whole(n, r) = One(h, 0)
    BY <1>2 DEF Whole, Half
  <2>2. Taken(One(h, 0), HeaderSize) = Empty
    BY <1>1, TakenOne DEF HeaderSize
  <2> HIDE DEF h
  <2>3. /\ Available(One(h, 0)) = h.size - 0 /\ ToSet(One(h, 0).pieces) = {h}
        /\ Head(One(h, 0).pieces) = h /\ One(h, 0).skew = 0
        /\ One(h, 0).pieces # <<>> /\ One(h, 0) # Empty
    BY <1>1, OneFacts
  <2>4. h.size - 0 = HeaderSize + PayloadSize[r.cmd]
    BY <1>1, <1>2
  <2>5. AtHeader(One(h, 0))
    BY <1>1, <2>3 DEF AtHeader
  <2> QED BY <1>2, <2>1, <2>2, <2>3, <2>4, <2>5 DEF Rest, h
<1>3. CASE PayloadSize[r.cmd] # 0
  <2> DEFINE s == [pieces |-> <<h, b>>, skew |-> 0]
  <2>1. Whole(n, r) = s
    BY <1>3 DEF Whole
  <2>2. Taken(s, h.size) = One(b, 0)
    BY <1>1, <1>3, TakenFirst
  <2>3. /\ Available(s) = h.size + b.size /\ Head(s.pieces) = h /\ s.skew = 0
        /\ ToSet(s.pieces) = {h, b} /\ s.pieces # <<>> /\ s # Empty
        /\ Put(One(h, 0), b) = s
    BY <1>1, TwoFacts
  <2> HIDE DEF s, h, b
  <2> QED BY <1>1, <1>3, <2>1, <2>2, <2>3 DEF AtHeader, Rest, Half, h, b
<1> QED BY <1>2, <1>3

\* What is left of it once its header is read.
LEMMA RestFacts ==
  ASSUME NEW n, NEW r \in Requests
  PROVE  /\ Available(Rest(n, r)) = PayloadSize[r.cmd]
         /\ Taken(Rest(n, r), PayloadSize[r.cmd]) = Empty
         /\ PayloadSize[r.cmd] # 0 => Head(Rest(n, r).pieces) = Body(n, r)
<1> DEFINE b == Body(n, r)
<1>1. b.size = PayloadSize[r.cmd] /\ b.size \in Nat
  BY RequestType DEF Body
<1>2. CASE PayloadSize[r.cmd] = 0
  <2>1. Taken(Empty, 0) = Empty
    <3>1. Len(Empty.pieces) = 0 /\ Empty.skew = 0 /\ Empty.pieces = <<>>
      BY DEF Empty
    <3>2. SubSeq(<<>>, 1, 0) = <<>>
      BY SubSeqEmpty
    <3>3. UpTo(Empty) = [k \in 0..0 |-> 0]
      <4>1. \A k \in 0..0 : SubSeq(<<>>, 1, k) = <<>>
        BY SubSeqEmpty
      <4> QED BY <3>1, <4>1, SizedNone, Zenon DEF UpTo
    <3>4. Taken(Empty, 0) = [pieces |-> SubSeq(Empty.pieces, 0 + 1, Len(Empty.pieces)),
                             skew   |-> Empty.skew + 0 - UpTo(Empty)[0]]
      <4>1. /\ 0 \in 0..Len(Empty.pieces) /\ Len(Empty.pieces) \in Nat /\ Empty.skew + 0 \in Nat
            /\ UpTo(Empty) \in [0..Len(Empty.pieces) -> Nat] /\ UpTo(Empty)[0] <= Empty.skew + 0
            /\ \A j \in 0..Len(Empty.pieces) : j > 0 => UpTo(Empty)[j] > Empty.skew + 0
        BY <3>1, <3>3
      <4> QED BY <4>1, TakenIs, Zenon
    <3> QED BY <3>1, <3>2, <3>3, <3>4 DEF Empty
  <2> QED BY <1>2, <2>1, EmptyFacts DEF Rest
<1>3. CASE PayloadSize[r.cmd] # 0
  <2>1. Taken(One(b, 0), b.size) = Empty
    BY <1>1, TakenOne
  <2> HIDE DEF b
  <2> QED BY <1>1, <1>3, <2>1, OneFacts DEF Rest, b
<1> QED BY <1>2, <1>3
\* A reply, and what is left when its header is read.
LEMMA ReplyFacts ==
  ASSUME NEW p \in Replies
  PROVE  /\ p.size \in Nat /\ p.size > HeaderSize
         /\ AtHeader(One(p, 0))
         /\ Taken(One(p, 0), HeaderSize) = One(p, HeaderSize)
         /\ Taken(One(p, HeaderSize), p.size - HeaderSize) = Empty
<1>1. p.size \in Nat /\ p.size > HeaderSize /\ p.header = TRUE /\ HeaderSize \in Nat
  BY DEF Replies, Pieces, HeaderSize
<1>2. AtHeader(One(p, 0))
  BY <1>1, OneFacts DEF AtHeader
<1>3. Taken(One(p, 0), HeaderSize) = One(p, 0 + HeaderSize)
  BY <1>1, TakenNone
<1>4. Taken(One(p, HeaderSize), p.size - HeaderSize) = Empty
  BY <1>1, TakenOne
<1> QED BY <1>1, <1>2, <1>3, <1>4
-----------------------------------------------------------------------------
(* The state is well formed, whatever the threads share and wherever the    *)
(* streams are cut                                                          *)

\* The constants of this channel.
LEMMA Bounds == MaxCalls \in Nat /\ MaxConns \in Nat /\ MaxPayload \in Nat /\ Floats \subseteq Int
BY IPCChannelAssumption, Zenon

Links  == 1..MaxConns
Places == {"idle", "send_head", "send_body", "recv_head", "recv_body"}
Shown  == SUBSET (Pids \union {Nobody})
Heads  == [of : 0..MaxCalls, size : Nat, status : Statuses, pids : Shown]

Calling == [at : Places, id : 0..MaxCalls, cmd : Commands, request : Requests \union {<<>>},
            reply : Heads, result : {"none", "OK", "error"}, answered : 0..MaxCalls,
            sure : BOOLEAN, listed : Shown]

\* What may be registered, and how loud.
Ids    == Pids \union {Nobody}
Levels == 0..100 \union Floats

\* Each of ids has one entry at most.
Known(es, ids) ==
  /\ es \subseteq [pid : ids, volume : Levels, muted : BOOLEAN]
  /\ \A e, f \in es : e.pid = f.pid => e = f

UpPieces == [of : 0..MaxCalls, size : Nat, header : BOOLEAN, request : Requests]

\* A stream of pieces of which no more has been read than was sent.
Flow(P) == {s \in Stream(P) : Available(s) >= 0}

Wire == [up : Flow(UpPieces), down : Flow(Pieces), client : BOOLEAN,
         server : {"none", "queued", "open", "closed"}]

\* A call in progress has a connection, that may have been given up or closed
\* meanwhile.  A request put together from two threads' bytes may leave an
\* entry that names nobody, and only one.
FormInv ==
  /\ connected \in BOOLEAN /\ fd \in 0..MaxConns
  /\ connected => fd # 0 /\ links[fd].client
  /\ calls \in 0..MaxCalls /\ alive \in BOOLEAN
  /\ call \in [Callers -> Calling]
  /\ links \in [Links -> Wire]
  /\ \A c \in Callers : call[c].at # "idle" =>
       /\ fd # 0
       /\ call[c].request \in Requests /\ call[c].cmd = call[c].request.cmd
  /\ Known(clients, Ids)
  /\ skewed \subseteq Links

\* A thread that never called.
LEMMA NoCallFacts ==
  /\ NoCall \in Calling
  /\ NoCall.at = "idle" /\ NoCall.result = "none"
BY IPCChannelAssumption
   DEF NoCall, Calling, Heads, NoReply, Places, Commands, PayloadSize, Statuses, Shown

\* Nothing on a stream is a flow of whatever pieces.
LEMMA EmptyFlow ==
  ASSUME NEW P
  PROVE  Empty \in Flow(P)
<1>1. Empty \in Stream(P)
  BY DEF Empty, Stream
<1> QED BY <1>1, EmptyFacts DEF Flow

\* Both kinds of pieces have sizes.
LEMMA BothSizes == Sizes(UpPieces) /\ Sizes(Pieces)
BY DEF Sizes, UpPieces, Pieces

\* A stream with one more piece, and with less to read.
LEMMA FlowFacts ==
  ASSUME NEW P, Sizes(P), NEW s \in Flow(P)
  PROVE  /\ \A p \in P : Put(s, p) \in Flow(P)
         /\ \A n \in Int : AtMost(s, n) > 0 =>
              Head(s.pieces) \in P /\ Taken(s, AtMost(s, n)) \in Flow(P)
<1>1. s \in Stream(P) /\ Available(s) >= 0
  BY DEF Flow
<1>2. Available(s) \in Int
  BY <1>1, AtMostFacts
<1>3. ASSUME NEW p \in P PROVE Put(s, p) \in Flow(P)
  <2>1. Put(s, p) \in Stream(P) /\ Available(Put(s, p)) = Available(s) + p.size
    BY <1>1, PutFacts
  <2>2. p.size \in Nat
    BY DEF Sizes
  <2> QED BY <1>1, <1>2, <2>1, <2>2 DEF Flow
<1>4. ASSUME NEW n \in Int, AtMost(s, n) > 0
      PROVE  Head(s.pieces) \in P /\ Taken(s, AtMost(s, n)) \in Flow(P)
  BY <1>1, <1>4, ReceiveFacts DEF Flow
<1> QED BY <1>3, <1>4

\* At first nobody called and no link is open.
LEMMA InitForm == Init => FormInv
<1> SUFFICES ASSUME Init PROVE FormInv
  OBVIOUS
<1>1. Unused \in Wire
  BY EmptyFlow DEF Unused, Wire
<1>2. links \in [Links -> Wire]
  BY <1>1 DEF Init, Links
<1>3. call \in [Callers -> Calling] /\ \A c \in Callers : call[c].at = "idle"
  BY NoCallFacts DEF Init
<1>4. fd \in 0..MaxConns /\ calls \in 0..MaxCalls /\ ~connected
  BY Bounds DEF Init
<1>5. connected \in BOOLEAN /\ alive \in BOOLEAN
  BY Zenon DEF Init
<1>6. Known(clients, Ids) /\ skewed \subseteq Links
  BY DEF Known, Init
<1> QED BY <1>2, <1>3, <1>4, <1>5, <1>6 DEF FormInv

\* A link of which one part, or two, changes.
LEMMA WireParts ==
  ASSUME NEW y \in Wire
  PROVE  /\ \A c \in BOOLEAN : [y EXCEPT !.client = c] \in Wire /\ [y EXCEPT !.client = c].client = c
         /\ \A u \in Flow(UpPieces) : [y EXCEPT !.up = u] \in Wire
                                      /\ [y EXCEPT !.up = u].client = y.client
         /\ \A d \in Flow(Pieces) : [y EXCEPT !.down = d] \in Wire
                                    /\ [y EXCEPT !.down = d].client = y.client
         /\ \A s \in {"none", "queued", "open", "closed"} :
              [y EXCEPT !.server = s] \in Wire /\ [y EXCEPT !.server = s].client = y.client
<1> DEFINE U == Flow(UpPieces)  D == Flow(Pieces)
<1> HIDE DEF U, D
<1> QED BY DEF Wire, U, D

\* A wire with another stream of replies.
LEMMA DownKept ==
  ASSUME NEW y \in Wire, NEW d \in Flow(Pieces)
  PROVE  [y EXCEPT !.down = d] \in Wire /\ [y EXCEPT !.down = d].client = y.client
<1> DEFINE D == Flow(Pieces)
<1> HIDE DEF D
<1> QED BY DEF Wire, D

\* A process that ends.
LEMMA EndsForm ==
  ASSUME FormInv, ProcessEnds
  PROVE  FormInv'
<1>1. links' \in [Links -> Wire]
  <2>1. \A l \in Links : [links[l] EXCEPT !.client = FALSE] \in Wire
    BY WireParts DEF FormInv
  <2> QED BY <2>1 DEF ProcessEnds, Links
<1>2. call' \in [Callers -> Calling] /\ \A c \in Callers : call'[c].at = "idle"
  BY NoCallFacts DEF ProcessEnds
<1>3. connected' = FALSE /\ fd' = 0 /\ UNCHANGED <<calls, alive, clients, skewed>> /\ 0 \in 0..MaxConns
  BY Bounds DEF ProcessEnds
<1> QED BY <1>1, <1>2, <1>3 DEF FormInv

\* ipc_client_connect.
LEMMA ConnectForm ==
  ASSUME FormInv, Connect
  PROVE  FormInv'
<1>1. /\ connected' = alive /\ fd' = IF alive THEN Cardinality(Used) + 1 ELSE 0
      /\ links' = IF alive
                  THEN [links EXCEPT ![fd'] = [@ EXCEPT !.client = TRUE, !.server = "queued"]]
                  ELSE links
      /\ UNCHANGED <<call, calls, alive, clients, skewed>>
      /\ \A c \in Callers : call[c].at = "idle"
  BY Zenon DEF Connect
<1>2. CASE ~alive
  BY <1>1, <1>2, Bounds DEF FormInv
<1>3. CASE alive
  <2>1. Cardinality(Used) \in Nat /\ Cardinality(Used) < MaxConns
    <3>1. IsFiniteSet(1..MaxConns) /\ Used \subseteq 1..MaxConns
      BY FS_Interval, Bounds DEF Used
    <3>2. IsFiniteSet(Used)
      BY <3>1, FS_Subset
    <3> QED BY <3>2, FS_CardinalityType DEF Connect
  <2> DEFINE m == Cardinality(Used) + 1
             x == [links[m] EXCEPT !.client = TRUE]
             y == [x EXCEPT !.server = "queued"]
  <2>2. m \in Links /\ m \in 0..MaxConns /\ m # 0 /\ fd' = m
    BY <1>1, <1>3, <2>1, Bounds DEF Links
  <2> HIDE DEF m
  <2>3. links[m] \in Wire
    BY <2>2 DEF FormInv
  <2>4. x \in Wire /\ x.client = TRUE
    BY <2>3, WireParts
  <2>5. links' = [links EXCEPT ![m] = y]
    BY <1>1, <1>3, <2>2
  <2> HIDE DEF x
  <2>6. y \in Wire /\ y.client = TRUE
    BY <2>4, WireParts
  <2> HIDE DEF y
  <2>7. links' \in [Links -> Wire] /\ links'[fd'].client = TRUE
    BY <2>2, <2>5, <2>6 DEF FormInv
  <2>8. connected' \in BOOLEAN
    BY <1>1, Zenon DEF FormInv
  <2> QED BY <1>1, <2>2, <2>7, <2>8 DEF FormInv
<1> QED BY <1>2, <1>3

\* ipc_client_disconnect.
LEMMA DisconnectForm ==
  ASSUME FormInv, Disconnect
  PROVE  FormInv'
<1>1. /\ fd \in Links /\ \A c \in Callers : call[c].at = "idle"
      /\ connected' = FALSE /\ fd' = 0 /\ UNCHANGED <<call, calls, alive, clients, skewed>>
      /\ 0 \in 0..MaxConns
  BY Bounds DEF FormInv, Disconnect, Links
<1>2. links' \in [Links -> Wire]
  <2>1. [links[fd] EXCEPT !.client = FALSE] \in Wire
    BY <1>1, WireParts DEF FormInv
  <2>2. links' = [links EXCEPT ![fd] = [links[fd] EXCEPT !.client = FALSE]]
    BY DEF Disconnect
  <2> QED BY <2>1, <2>2 DEF FormInv
<1> QED BY <1>1, <1>2 DEF FormInv

\* A step of one thread's call, that may end or begin.
LEMMA CallForm ==
  ASSUME FormInv, NEW c \in Callers, NEW x \in Calling, call' = [call EXCEPT ![c] = x],
         x.at # "idle" => fd # 0 /\ x.request \in Requests /\ x.cmd = x.request.cmd,
         links' \in [Links -> Wire], connected' \in BOOLEAN, calls' \in 0..MaxCalls,
         connected' => connected /\ links'[fd].client = links[fd].client,
         fd' = fd, alive' = alive, clients' = clients, skewed' \subseteq Links
  PROVE  FormInv'
<1>1. call' \in [Callers -> Calling]
  BY DEF FormInv
<1>2. \A k \in Callers : call'[k].at # "idle" =>
        fd' # 0 /\ call'[k].request \in Requests /\ call'[k].cmd = call'[k].request.cmd
  BY DEF FormInv
<1>3. connected' => fd' # 0 /\ links'[fd'].client
  BY Zenon DEF FormInv
<1>4. fd' \in 0..MaxConns /\ alive' \in BOOLEAN /\ Known(clients', Ids)
  BY Zenon DEF FormInv
<1> QED BY <1>1, <1>2, <1>3, <1>4 DEF FormInv

\* An operation that begins.
LEMMA BeginForm ==
  ASSUME FormInv, NEW c \in Callers, NEW r \in Requests, Begin(c, r)
  PROVE  FormInv'
<1> DEFINE x == [NoCall EXCEPT !.at = "send_head", !.id = calls + 1, !.cmd = r.cmd, !.request = r]
<1>1. calls + 1 \in 0..MaxCalls
  BY Bounds DEF Begin, FormInv
<1>2. x \in Calling /\ x.at = "send_head" /\ x.request = r /\ x.cmd = r.cmd
  BY <1>1, NoCallFacts, RequestType DEF Calling, Places
<1>3. /\ call' = [call EXCEPT ![c] = x] /\ calls' = calls + 1 /\ connected
      /\ UNCHANGED <<connected, fd, links, alive, clients>>
  BY DEF Begin, ctx
<1> HIDE DEF x
<1>4. fd # 0
  BY <1>3 DEF FormInv
<1>5. links' \in [Links -> Wire] /\ connected' \in BOOLEAN
  BY <1>3, Zenon DEF FormInv
<1>6. skewed' \subseteq Links
  <2>1. skewed' = skewed \/ skewed' = skewed \union {fd}
    BY DEF Begin
  <2>2. fd \in Links /\ skewed \subseteq Links
    BY <1>4, Bounds DEF FormInv, Links
  <2> QED BY <2>1, <2>2, Zenon
<1> QED BY <1>1, <1>2, <1>3, <1>4, <1>5, <1>6, CallForm

\* Where a call in progress sends and receives.
LEMMA InCallForm ==
  ASSUME FormInv, NEW c \in Callers, call[c].at # "idle"
  PROVE  /\ fd # 0 /\ fd \in Links /\ links[fd] \in Wire /\ call[c] \in Calling
         /\ call[c].request \in Requests /\ call[c].cmd = call[c].request.cmd
         /\ call \in [Callers -> Calling] /\ links \in [Links -> Wire]
<1>1. fd # 0 /\ fd \in 0..MaxConns
  BY DEF FormInv
<1>2. fd \in Links
  BY <1>1, Bounds DEF Links
<1> QED BY <1>1, <1>2 DEF FormInv

\* One of the two sends of a request.
LEMMA SendForm ==
  ASSUME FormInv, NEW c \in Callers, call[c].at # "idle", NEW p \in UpPieces,
         NEW next \in Places, Send(p, next, c)
  PROVE  FormInv'
<1>1. CASE links[fd].server = "closed"
  <2>1. ProcessEnds
    BY <1>1 DEF Send
  <2> QED BY <2>1, EndsForm
<1>2. CASE links[fd].server # "closed"
  <2>1. /\ links' = [links EXCEPT ![fd].up = Put(links[fd].up, p)]
        /\ call' = [call EXCEPT ![c].at = next]
        /\ UNCHANGED <<connected, fd, calls, alive, clients, skewed>>
    BY <1>2 DEF Send, ctx
  <2>2. Put(links[fd].up, p) \in Flow(UpPieces)
    <3>1. links[fd].up \in Flow(UpPieces)
      BY InCallForm DEF Wire
    <3> QED BY <3>1, BothSizes, FlowFacts
  <2> DEFINE x == [call[c] EXCEPT !.at = next]
             y == [links[fd] EXCEPT !.up = Put(links[fd].up, p)]
  <2>3. y \in Wire /\ y.client = links[fd].client
    BY <2>2, InCallForm, WireParts
  <2>4. links' = [links EXCEPT ![fd] = y] /\ call' = [call EXCEPT ![c] = x]
    BY <2>1
  <2>5. x \in Calling /\ x.request = call[c].request /\ x.cmd = call[c].cmd
    BY InCallForm DEF Calling
  <2> HIDE DEF x, y
  <2>6. links' \in [Links -> Wire] /\ links'[fd].client = links[fd].client
    BY <2>3, <2>4, InCallForm
  <2>7. connected' \in BOOLEAN /\ calls' \in 0..MaxCalls /\ skewed' \subseteq Links
    BY <2>1, Zenon DEF FormInv
  <2>8. fd # 0 /\ x.request \in Requests /\ x.cmd = x.request.cmd
    BY <2>5, InCallForm
  <2> QED BY <2>1, <2>4, <2>5, <2>6, <2>7, <2>8, CallForm
<1> QED BY <1>1, <1>2

\* A call that fails, on a connection that is given up or not.
LEMMA FailForm ==
  ASSUME FormInv, NEW c \in Callers, Fail(c), connected' \in BOOLEAN, connected' => connected,
         UNCHANGED <<fd, calls, links, alive, clients, skewed>>
  PROVE  FormInv'
<1> DEFINE y == [call[c] EXCEPT !.at = "idle"]
           x == [y EXCEPT !.result = "error"]
<1>1. call[c] \in Calling
  BY DEF FormInv
<1>2. y \in Calling /\ y.at = "idle"
  BY <1>1 DEF Calling, Places
<1>3. call' = [call EXCEPT ![c] = x]
  BY DEF FormInv, Fail
<1> HIDE DEF y
<1>4. x \in Calling /\ x.at = "idle"
  BY <1>2 DEF Calling
<1> HIDE DEF x
<1>5. links' \in [Links -> Wire] /\ calls' \in 0..MaxCalls /\ skewed' \subseteq Links
  BY DEF FormInv
<1> QED BY <1>3, <1>4, <1>5, CallForm

\* The header, and the payload.
LEMMA SendHeadForm ==
  ASSUME FormInv, NEW c \in Callers, SendHead(c)
  PROVE  FormInv'
<1> DEFINE p == [of |-> call[c].id, size |-> HeaderSize, header |-> TRUE,
                 request |-> call[c].request]
           next == IF PayloadSize[call[c].cmd] > 0 THEN "send_body" ELSE "recv_head"
<1>1. call[c].at # "idle"
  BY DEF SendHead
<1>2. p \in UpPieces /\ next \in Places
  BY <1>1, InCallForm DEF UpPieces, Calling, HeaderSize, Places
<1>3. CASE ~connected
  <2>1. Fail(c) /\ UNCHANGED <<ctx, calls, links, alive, clients, skewed>>
    BY <1>3, Zenon DEF SendHead
  <2>2. UNCHANGED <<fd, calls, links, alive, clients, skewed>> /\ connected' = connected
    BY <2>1 DEF ctx
  <2>3. connected' \in BOOLEAN /\ (connected' => connected)
    BY <2>2, Zenon DEF FormInv
  <2> QED BY <2>1, <2>2, <2>3, FailForm
<1>4. CASE connected
  <2>1. Send(p, next, c)
    BY <1>4, Zenon DEF SendHead
  <2> HIDE DEF p, next
  <2> QED BY <1>1, <1>2, <2>1, SendForm
<1> QED BY <1>3, <1>4

\* The second send of a request.
LEMMA SendBodyForm ==
  ASSUME FormInv, NEW c \in Callers, SendBody(c)
  PROVE  FormInv'
<1> DEFINE p == [of |-> call[c].id, size |-> PayloadSize[call[c].cmd], header |-> FALSE,
                 request |-> call[c].request]
<1>1. call[c].at # "idle"
  BY DEF SendBody
<1>2. PayloadSize[call[c].cmd] \in Nat
  BY <1>1, InCallForm, RequestType
<1>3. p \in UpPieces /\ "recv_head" \in Places
  BY <1>1, <1>2, InCallForm DEF UpPieces, Calling, Places
<1>4. Send(p, "recv_head", c)
  BY Zenon DEF SendBody
<1> HIDE DEF p
<1> QED BY <1>1, <1>3, <1>4, SendForm

\* End of file, the timeout, or another thread has given the connection up.
LEMMA GiveUpForm ==
  ASSUME FormInv, NEW c \in Callers, NothingCame(c) \/ LinkLost(c)
  PROVE  FormInv'
<1>1. CASE NothingCame(c)
  <2>1. Fail(c) /\ UNCHANGED <<fd, calls, links, alive, clients, skewed>> /\ connected' = FALSE
    BY <1>1 DEF NothingCame, GiveUp
  <2> QED BY <2>1, FailForm
<1>2. CASE LinkLost(c)
  <2>1. Fail(c) /\ UNCHANGED <<fd, calls, links, alive, clients, skewed>> /\ connected' = connected
    BY <1>2 DEF LinkLost, ctx
  <2>2. connected' \in BOOLEAN /\ (connected' => connected)
    BY <2>1, Zenon DEF FormInv
  <2> QED BY <2>1, <2>2, FailForm
<1> QED BY <1>1, <1>2

\* A link that something has been read from.
LEMMA ReadForm ==
  ASSUME FormInv, NEW c \in Callers, call[c].at # "idle", NEW n \in Int,
         AtMost(links[fd].down, n) > 0,
         links' = [links EXCEPT ![fd].down = Taken(@, AtMost(links[fd].down, n))]
  PROVE  /\ links' \in [Links -> Wire] /\ links'[fd].client = links[fd].client
         /\ Head(links[fd].down.pieces) \in Pieces
<1> DEFINE down == links[fd].down
           rest == Taken(down, AtMost(down, n))
           y == [links[fd] EXCEPT !.down = rest]
<1>1. down \in Flow(Pieces)
  BY InCallForm DEF Wire
<1>2. Head(down.pieces) \in Pieces /\ rest \in Flow(Pieces)
  <2> HIDE DEF down
  <2> QED BY <1>1, BothSizes, FlowFacts DEF down
<1>3. links' = [links EXCEPT ![fd] = y]
  OBVIOUS
<1> HIDE DEF rest
<1>4. y \in Wire /\ y.client = links[fd].client
  BY <1>2, InCallForm, WireParts
<1> HIDE DEF y
<1> QED BY <1>2, <1>3, <1>4, InCallForm

\* recv of a header.
LEMMA RecvHeadForm ==
  ASSUME FormInv, NEW c \in Callers, RecvHead(c)
  PROVE  FormInv'
<1> DEFINE down == links[fd].down
           n    == AtMost(down, HeaderSize)
           came == Head(down.pieces)
           good == n = HeaderSize /\ AtHeader(down)
           more == good /\ came.size - HeaderSize <= Room(call[c].cmd)
           at     == IF more THEN "recv_body" ELSE "idle"
           result == IF more THEN "none" ELSE "error"
           reply  == IF good THEN [of |-> came.of, size |-> came.size,
                                   status |-> came.status, pids |-> came.pids]
                     ELSE NoReply
<1>1. /\ call[c].at = "recv_head" /\ n > 0
      /\ links' = [links EXCEPT ![fd].down = Taken(@, n)]
      /\ call' = [call EXCEPT ![c].at = at, ![c].result = result, ![c].reply = reply]
      /\ skewed' = IF good /\ ~more THEN skewed \union {fd} ELSE skewed
      /\ UNCHANGED <<connected, fd, calls, alive, clients>>
  BY Zenon DEF RecvHead, ctx
<1>2. /\ links' \in [Links -> Wire] /\ links'[fd].client = links[fd].client
      /\ came \in Pieces
  <2>1. HeaderSize \in Int /\ call[c].at # "idle"
    BY <1>1 DEF HeaderSize
  <2> QED BY <1>1, <2>1, ReadForm
<1>3. at \in Places /\ result \in {"none", "OK", "error"}
  BY DEF Places
<1>4. reply \in Heads
  <2>1. NoReply \in Heads
    BY Bounds DEF Heads, NoReply, Statuses, Shown
  <2>2. [of |-> came.of, size |-> came.size, status |-> came.status, pids |-> came.pids]
          \in Heads
    <3> HIDE DEF came
    <3> QED BY <1>2 DEF Pieces, Shown, Heads
  <2> HIDE DEF came, good
  <2> QED BY <2>1, <2>2
<1>9. skewed' \subseteq Links
  <2>1. fd \in Links
    BY <1>1, InCallForm
  <2>2. skewed' \subseteq skewed \union {fd}
    BY <1>1, Zenon
  <2> QED BY <2>1, <2>2 DEF FormInv
<1> HIDE DEF at, result, reply
<1> DEFINE x1 == [call[c] EXCEPT !.at = at]
           x2 == [x1 EXCEPT !.result = result]
           x  == [x2 EXCEPT !.reply = reply]
<1>5. call' = [call EXCEPT ![c] = x]
  BY <1>1 DEF FormInv
<1>6. x \in Calling /\ x.request = call[c].request /\ x.cmd = call[c].cmd
  <2>1. x1 \in Calling /\ x1.request = call[c].request /\ x1.cmd = call[c].cmd
    BY <1>3 DEF FormInv, Calling
  <2> HIDE DEF x1
  <2>2. x2 \in Calling /\ x2.request = call[c].request /\ x2.cmd = call[c].cmd
    BY <1>3, <2>1 DEF Calling
  <2> HIDE DEF x2
  <2> QED BY <1>4, <2>2 DEF Calling
<1> HIDE DEF x, n
<1>7. fd # 0 /\ x.request \in Requests /\ x.cmd = x.request.cmd
  BY <1>1, <1>6, InCallForm
<1>8. connected' \in BOOLEAN /\ (connected' => connected) /\ calls' \in 0..MaxCalls
  BY <1>1, Zenon DEF FormInv
<1> QED BY <1>1, <1>2, <1>5, <1>6, <1>7, <1>8, <1>9, CallForm

\* recv of the payload, of another reply perhaps, or of some bytes of it.
LEMMA RecvBodyForm ==
  ASSUME FormInv, NEW c \in Callers, RecvBody(c)
  PROVE  FormInv'
<1> DEFINE down == links[fd].down
           from == Head(down.pieces)
           len  == call[c].reply.size - HeaderSize
           n    == AtMost(down, len)
           ok   == /\ n = len
                   /\ \/ call[c].cmd = "ListClients"
                      \/ down.skew = HeaderSize /\ Granted(from)
           sure == fd \notin skewed
           result   == IF ok THEN "OK" ELSE "error"
           answered == IF ok THEN from.of ELSE 0
           listed   == IF ok /\ from.pids # {}
                       THEN PidsFrom(from.pids, 0 - ResponseSize) ELSE {}
<1>1. /\ call[c].at = "recv_body" /\ n > 0
      /\ links' = [links EXCEPT ![fd].down = Taken(@, n)]
      /\ connected' = (connected /\ n = len)
      /\ call' = [call EXCEPT ![c].at = "idle", ![c].result = result,
                              ![c].answered = answered, ![c].sure = sure,
                              ![c].listed = listed]
      /\ UNCHANGED <<fd, calls, alive, clients, skewed>>
  BY Zenon DEF RecvBody
<1>2. /\ links' \in [Links -> Wire] /\ links'[fd].client = links[fd].client
      /\ from \in Pieces
  <2>1. len \in Int /\ call[c].at # "idle"
    BY <1>1 DEF HeaderSize, FormInv, Calling, Heads
  <2> HIDE DEF len
  <2> QED BY <1>1, <2>1, ReadForm
<1>3. result \in {"none", "OK", "error"} /\ answered \in 0..MaxCalls /\ listed \in Shown
  <2>1. from.of \in 0..MaxCalls /\ from.pids \in Shown
    <3> HIDE DEF from
    <3> QED BY <1>2 DEF Pieces, Shown
  <2> HIDE DEF from, ok
  <2>2. listed \in Shown
    BY <2>1 DEF PidsFrom, Shown
  <2> QED BY <2>1, <2>2, Bounds
<1>7. sure \in BOOLEAN
  OBVIOUS
<1> HIDE DEF result, answered, listed, sure
<1> DEFINE x1 == [call[c] EXCEPT !.at = "idle"]
           x2 == [x1 EXCEPT !.result = result]
           x3 == [x2 EXCEPT !.answered = answered]
           x4 == [x3 EXCEPT !.sure = sure]
           x  == [x4 EXCEPT !.listed = listed]
<1>4. call' = [call EXCEPT ![c] = x]
  BY <1>1 DEF FormInv
<1>5. x \in Calling /\ x.at = "idle"
  <2>1. x1 \in Calling /\ x1.at = "idle"
    BY DEF FormInv, Calling, Places
  <2> HIDE DEF x1
  <2>2. x2 \in Calling /\ x2.at = "idle"
    BY <1>3, <2>1 DEF Calling
  <2> HIDE DEF x2
  <2>3. x3 \in Calling /\ x3.at = "idle"
    BY <1>3, <2>2 DEF Calling
  <2> HIDE DEF x3
  <2>4. x4 \in Calling /\ x4.at = "idle"
    BY <1>7, <2>3 DEF Calling
  <2> HIDE DEF x4
  <2> QED BY <1>3, <2>4 DEF Calling
<1> HIDE DEF x, n, len
<1>6. connected' \in BOOLEAN /\ (connected' => connected) /\ calls' \in 0..MaxCalls
  <2>1. connected' \in BOOLEAN
    BY <1>1, Zenon
  <2> QED BY <1>1, <2>1, Zenon DEF FormInv
<1>8. skewed' \subseteq Links
  BY <1>1 DEF FormInv
<1> QED BY <1>1, <1>2, <1>4, <1>5, <1>6, <1>8, CallForm

\* The server takes or leaves a connection.
LEMMA ServerEndForm ==
  ASSUME FormInv, NEW l \in Links, Accept(l) \/ RemoveConnection(l)
  PROVE  FormInv'
<1>1. PICK s \in {"open", "closed"} :
        links' = [links EXCEPT ![l].server = s] /\ UNCHANGED <<connected, fd, call, calls, alive, clients, skewed>>
  BY DEF Accept, RemoveConnection, ctx
<1> DEFINE y == [links[l] EXCEPT !.server = s]
<1>2. y \in Wire /\ y.client = links[l].client
  BY WireParts DEF FormInv
<1>3. links' = [links EXCEPT ![l] = y]
  BY <1>1
<1> HIDE DEF y
<1>4. links' \in [Links -> Wire] /\ \A k \in Links : links'[k].client = links[k].client
  BY <1>2, <1>3 DEF FormInv
<1>5. connected => fd \in Links
  BY Bounds DEF FormInv, Links
<1> QED BY <1>1, <1>4, <1>5, Zenon DEF FormInv

\* A reply, or the last one.
LEMMA ResponseForm ==
  ASSUME FormInv, NEW l \in Links, NEW rest \in Flow(UpPieces), NEW of \in 0..MaxCalls,
         NEW size \in Nat, NEW status \in Statuses, NEW registry, NEW pids \in Shown,
         Known(registry, Ids), alive,
         SendResponse(l, rest, of, size, status, registry, pids),
         UNCHANGED <<connected, fd, call, calls>>, skewed' \subseteq Links
  PROVE  FormInv'
<1>1. links[l] \in Wire /\ links \in [Links -> Wire]
  BY DEF FormInv
<1>2. connected => fd \in Links
  BY Bounds DEF FormInv, Links
<1>3. /\ links' \in [Links -> Wire] /\ \A k \in Links : links'[k].client = links[k].client
      /\ alive' \in BOOLEAN /\ Known(clients', Ids)
  <2>1. CASE links[l].client
    <3> DEFINE p == [of |-> of, size |-> size, header |-> TRUE, status |-> status, pids |-> pids]
               d == Put(links[l].down, p)
               x == [links[l] EXCEPT !.up = rest]
               y == [x EXCEPT !.down = d]
    <3>1. p \in Pieces
      BY DEF Pieces, Shown
    <3>2. /\ links' = [links EXCEPT ![l].up = rest, ![l].down = Put(@, p)]
          /\ clients' = registry /\ alive' = alive
      BY <2>1, Zenon DEF SendResponse
    <3> HIDE DEF p
    <3>3. d \in Flow(Pieces)
      BY <1>1, <3>1, BothSizes, FlowFacts DEF Wire
    <3>4. links' = [links EXCEPT ![l] = y]
      BY <1>1, <3>2 DEF Wire
    <3> HIDE DEF d
    <3>5. x \in Wire /\ x.client = links[l].client
      BY <1>1, WireParts
    <3> HIDE DEF x
    <3>6. y \in Wire /\ y.client = links[l].client
      BY <3>3, <3>5, DownKept, Zenon
    <3> HIDE DEF y
    <3>7. links' \in [Links -> Wire] /\ \A k \in Links : links'[k].client = links[k].client
      BY <1>1, <3>4, <3>6
    <3> QED BY <3>2, <3>7, Zenon
  <2>2. CASE ~links[l].client
    <3>1. /\ alive' = FALSE /\ clients' = {}
          /\ links' = [k \in Links |-> IF links[k].server = "none" THEN links[k]
                                      ELSE [links[k] EXCEPT !.server = "closed"]]
      BY <2>2, Zenon DEF SendResponse, Links
    <3>2. ASSUME NEW k \in Links PROVE links'[k] \in Wire /\ links'[k].client = links[k].client
      <4>1. /\ links[k] \in Wire /\ [links[k] EXCEPT !.server = "closed"] \in Wire
            /\ [links[k] EXCEPT !.server = "closed"].client = links[k].client
        BY <1>1, WireParts
      <4> QED BY <3>1, <4>1
    <3>3. Known(clients', Ids)
      BY <3>1 DEF Known
    <3> QED BY <3>1, <3>2, <3>3
  <2> QED BY <2>1, <2>2
<1> QED BY <1>2, <1>3, Zenon DEF FormInv

\* The processes of finitely many requests are finitely many.
LEMMA FewPids == IsFiniteSet(Pids)
<1> DEFINE f == [r \in Requests |-> r.pid]
<1>1. f \in Surjection(Requests, Pids)
  BY DEF Pids, Surjection
<1>2. IsFiniteSet(Requests)
  BY IPCChannelAssumption, Zenon
<1> HIDE DEF f
<1> QED BY <1>1, <1>2, FS_Surjection

\* There are as many entries as ids at most, so that every list fits.
LEMMA FewEntries ==
  ASSUME NEW ids, IsFiniteSet(ids), NEW es, Known(es, ids)
  PROVE  /\ IsFiniteSet(es) /\ Cardinality(es) \in Nat
         /\ Cardinality(ids) \in Nat /\ Cardinality(es) <= Cardinality(ids)
<1> DEFINE f == [e \in es |-> e.pid]
<1>1. f \in Injection(es, ids)
  <2>1. \A e \in es : e.pid \in ids
    BY DEF Known
  <2>2. f \in [es -> ids]
    BY <2>1
  <2>3. \A a, b \in es : f[a] = f[b] => a = b
    BY DEF Known
  <2> HIDE DEF f
  <2> QED BY <2>2, <2>3 DEF Injection, IsInjective
<1> HIDE DEF f
<1>2. IsFiniteSet(es) /\ Cardinality(es) <= Cardinality(ids)
  BY <1>1, FS_Injection
<1> QED BY <1>2, FS_CardinalityType

\* A request leaves each of them with one entry at most.
LEMMA RegistryKept ==
  ASSUME NEW ids, NEW es, Known(es, ids),
         NEW r \in [cmd : Commands, pid : ids, volume : Int, muted : BOOLEAN],
         r.cmd = "Register" => r.volume \in Levels
  PROVE  Known(After(es, r), ids)
<1>2. Known(Register(es, r), ids) \/ r.cmd # "Register"
  BY DEF Known, Register, Entries
<1>3. Known(Unregister(es, r), ids)
  BY DEF Known, Unregister
<1>4. Known(SetVolume(es, r), ids)
  <2> DEFINE New(e) == [e EXCEPT !.volume = Clamp(r.volume)]
  <2>1. Clamp(r.volume) \in 0..100
    BY DEF Clamp
  <2>2. \A e \in es : New(e) \in [pid : ids, volume : Levels, muted : BOOLEAN] /\ New(e).pid = e.pid
    BY <2>1 DEF Known, Levels
  <2>3. SetVolume(es, r) = (es \ Entries(es, r.pid)) \union {New(e) : e \in Entries(es, r.pid)}
    BY DEF SetVolume, Change
  <2> HIDE DEF New
  <2> QED BY <2>2, <2>3 DEF Known, Entries
<1>5. Known(SetMute(es, r), ids)
  <2> DEFINE New(e) == [e EXCEPT !.muted = r.muted]
  <2>2. \A e \in es : New(e) \in [pid : ids, volume : Levels, muted : BOOLEAN] /\ New(e).pid = e.pid
    BY DEF Known
  <2>3. SetMute(es, r) = (es \ Entries(es, r.pid)) \union {New(e) : e \in Entries(es, r.pid)}
    BY DEF SetMute, Change
  <2> HIDE DEF New
  <2> QED BY <2>2, <2>3 DEF Known, Entries
<1> QED BY <1>2, <1>3, <1>4, <1>5 DEF After
\* What the server makes of a request whose payload may be other bytes.
LEMMA DecodedFacts ==
  ASSUME NEW r \in Requests, NEW rest, NEW q \in Decoded(r, rest),
         PayloadSize[r.cmd] # 0 => Head(rest.pieces) \in UpPieces
  PROVE  /\ q \in [cmd : Commands, pid : Ids, volume : Int, muted : BOOLEAN]
         /\ q.cmd = "Register" => q.volume \in Levels
<1>1. /\ r \in [cmd : Commands, pid : Pids, volume : Int, muted : BOOLEAN]
      /\ r.cmd = "Register" => r.volume \in 0..100
  BY RequestType, IPCChannelAssumption
<1> DEFINE p == Head(rest.pieces)
           atPayload == rest.skew = 0 /\ ~p.header
           pid == IF atPayload THEN p.request.pid ELSE Nobody
<1>2. CASE q = r
  BY <1>1, <1>2 DEF Ids, Levels
<1>3. CASE q # r
  <2>1. PayloadSize[r.cmd] # 0
        /\ q \in [cmd : {r.cmd}, pid : {pid}, volume : Floats, muted : BOOLEAN]
    BY <1>3 DEF Decoded
  <2>2. p.request.pid \in Pids
    BY <2>1, RequestType DEF UpPieces
  <2>3. pid \in Ids
    <3> HIDE DEF p
    <3> QED BY <2>2 DEF Ids
  <2> HIDE DEF pid
  <2> QED BY <1>1, <2>1, <2>3, Bounds DEF Levels
<1> QED BY <1>2, <1>3

\* What it answers.
LEMMA AnswerFacts ==
  ASSUME NEW es, Known(es, Ids),
         NEW r \in [cmd : Commands, pid : Ids, volume : Int, muted : BOOLEAN]
  PROVE  /\ DataSize(es, r) \in Nat /\ HeaderSize + ResponseSize + DataSize(es, r) \in Nat
         /\ StatusOf(es, r) \in Statuses /\ Listed(es, r) \in Shown
<1>1. Cardinality(es) \in Nat
  <2>1. IsFiniteSet(Ids)
    BY FewPids, FS_AddElement DEF Ids
  <2> QED BY <2>1, FewEntries
<1>2. DataSize(es, r) \in Nat
  <2>1. ListedSize * Cardinality(es) \in Nat
    BY <1>1 DEF ListedSize
  <2> QED BY <2>1 DEF DataSize, VolumeSize
<1>3. StatusOf(es, r) \in Statuses
  BY DEF StatusOf, Statuses
<1>4. Listed(es, r) \in Shown
  BY DEF Listed, Shown, Known, Ids
<1> QED BY <1>2, <1>3, <1>4 DEF HeaderSize, ResponseSize

\* handle_client_message, whatever is on the stream.
LEMMA HandleMessageForm ==
  ASSUME FormInv, NEW l \in Links, HandleMessage(l)
  PROVE  FormInv'
<1> DEFINE up == links[l].up
           n == AtMost(up, HeaderSize)
           rest == Taken(up, n)
           first == Head(up.pieces)
           len == Announced(first)
           m == AtMost(rest, len)
           answer == HeaderSize + ResponseSize
           good == n = HeaderSize /\ AtHeader(up)
           Answer(q) == SendResponse(l, Taken(rest, len), first.of, answer + DataSize(clients, q),
                                     StatusOf(clients, q), After(clients, q), Listed(clients, q))
<1>1. /\ n > 0 /\ alive /\ UNCHANGED <<connected, fd, call, calls>>
      /\ \/ SendResponse(l, rest, 0, answer, "InvalidHeader", clients, {}) /\ skewed' = skewed
         \/ /\ SendResponse(l, Taken(rest, m), first.of, answer, "PayloadTooLarge", clients, {})
            /\ skewed' = skewed \union {l}
         \/ /\ m = len /\ skewed' = skewed
            /\ \E q \in Decoded(first.request, rest) : Answer(q)
  BY Zenon DEF HandleMessage, ctx
<1>2. up \in Flow(UpPieces)
  BY DEF FormInv, Wire
<1>3. first \in UpPieces /\ rest \in Flow(UpPieces)
  <2>1. HeaderSize \in Int
    BY DEF HeaderSize
  <2> HIDE DEF up
  <2> QED BY <1>1, <1>2, <2>1, BothSizes, FlowFacts
<1> HIDE DEF rest, first
<1>4. /\ first.of \in 0..MaxCalls /\ first.request \in Requests /\ len \in Nat
      /\ len = PayloadSize[first.request.cmd]
  BY <1>3, RequestType DEF UpPieces, Announced
<1> HIDE DEF len
<1>5. /\ Taken(rest, m) \in Flow(UpPieces) /\ m \in Nat /\ m <= len
      /\ m > 0 => Head(rest.pieces) \in UpPieces
  <2>1. rest \in Stream(UpPieces) /\ Available(rest) >= 0 /\ Sizes(UpPieces)
    BY <1>3, BothSizes DEF Flow
  <2>2. Available(rest) \in Nat /\ m \in Nat /\ m <= Available(rest) /\ m <= len
    BY <1>4, <2>1, AtMostFacts
  <2> HIDE DEF m
  <2>3. Taken(rest, m) \in Stream(UpPieces) /\ Available(Taken(rest, m)) = Available(rest) - m
    BY <2>1, <2>2, TakenFacts
  <2>4. m > 0 => Head(rest.pieces) \in UpPieces
    BY <2>1, <2>2, HeadFacts
  <2> QED BY <2>2, <2>3, <2>4 DEF Flow
<1>6. Known(clients, Ids) /\ skewed \subseteq Links /\ skewed \union {l} \subseteq Links
  BY DEF FormInv
<1>8. /\ {} \in Shown /\ 0 \in 0..MaxCalls /\ answer \in Nat
      /\ "InvalidHeader" \in Statuses /\ "PayloadTooLarge" \in Statuses
  BY Bounds DEF Shown, Statuses, HeaderSize, ResponseSize
<1> HIDE DEF m, n, up
<1>9. CASE SendResponse(l, rest, 0, answer, "InvalidHeader", clients, {}) /\ skewed' = skewed
  <2> HIDE DEF answer
  <2> QED BY <1>1, <1>3, <1>6, <1>8, <1>9, ResponseForm
<1>10. CASE /\ SendResponse(l, Taken(rest, m), first.of, answer, "PayloadTooLarge", clients, {})
            /\ skewed' = skewed \union {l}
  <2> HIDE DEF answer
  <2> QED BY <1>1, <1>4, <1>5, <1>6, <1>8, <1>10, ResponseForm
<1>11. ASSUME m = len, skewed' = skewed, NEW q \in Decoded(first.request, rest), Answer(q)
       PROVE  FormInv'
  <2>1. /\ q \in [cmd : Commands, pid : Ids, volume : Int, muted : BOOLEAN]
        /\ q.cmd = "Register" => q.volume \in Levels
    <3>1. PayloadSize[first.request.cmd] # 0 => Head(rest.pieces) \in UpPieces
      BY <1>4, <1>5, <1>11
    <3> QED BY <1>4, <1>11, <3>1, DecodedFacts
  <2>2. Known(After(clients, q), Ids)
    BY <1>6, <2>1, RegistryKept
  <2>3. /\ answer + DataSize(clients, q) \in Nat
        /\ StatusOf(clients, q) \in Statuses /\ Listed(clients, q) \in Shown
    BY <1>6, <2>1, AnswerFacts
  <2>4. Taken(rest, len) \in Flow(UpPieces)
    BY <1>5, <1>11
  <2> HIDE DEF answer
  <2> QED BY <1>1, <1>4, <1>6, <1>11, <2>2, <2>3, <2>4, ResponseForm
<1> HIDE DEF Answer, answer
<1> QED BY <1>1, <1>9, <1>10, <1>11, Zenon

\* Every step keeps the state well formed.
LEMMA NextForm ==
  ASSUME FormInv, [Next]_vars
  PROVE  FormInv'
<1>1. ASSUME NEW c \in Callers, CallStep(c) PROVE FormInv'
  BY <1>1, SendHeadForm, SendBodyForm, GiveUpForm, RecvHeadForm, RecvBodyForm, Zenon DEF CallStep
<1>2. CASE ServerStep
  BY <1>2, ServerEndForm, HandleMessageForm, Zenon DEF ServerStep, Links
<1>3. CASE UNCHANGED vars
  BY <1>3 DEF vars, ctx, FormInv
<1>4. CASE Exit
  BY <1>4, EndsForm DEF Exit
<1> QED BY <1>1, <1>2, <1>3, <1>4, ConnectForm, DisconnectForm, BeginForm DEF Next

\* Always.
LEMMA AlwaysForm == Spec => []FormInv
<1>1. FormInv /\ [Next]_vars => FormInv'
  BY NextForm
<1> QED BY <1>1, InitForm, PTL DEF Spec

\* Every state is well formed, for any threads, requests, calls and
\* connections, wherever the server cuts a stream and whatever it takes the
\* bytes there for.
THEOREM TypeCorrect == Spec => []TypeOK
<1>1. FormInv => TypeOK
  <2> SUFFICES ASSUME FormInv PROVE TypeOK
    OBVIOUS
  <2>1. /\ connected \in BOOLEAN /\ fd \in 0..MaxConns /\ calls \in 0..MaxCalls /\ alive \in BOOLEAN
        /\ connected => fd # 0 /\ links[fd].client
    BY Zenon DEF FormInv
  <2>2. \A c \in Callers :
          /\ call[c].at \in {"idle", "send_head", "send_body", "recv_head", "recv_body"}
          /\ call[c].result \in {"none", "OK", "error"}
          /\ call[c].answered \in 0..MaxCalls
    BY DEF FormInv, Calling, Places
  <2>3. \A l \in 1..MaxConns :
          /\ links[l].client \in BOOLEAN
          /\ links[l].server \in {"none", "queued", "open", "closed"}
          /\ links[l].down \in Stream(Pieces)
          /\ Available(links[l].up) >= 0 /\ Available(links[l].down) >= 0
    <3> DEFINE U == Flow(UpPieces)  D == Flow(Pieces)
    <3>1. (\A s \in U : Available(s) >= 0) /\ \A s \in D : s \in Stream(Pieces) /\ Available(s) >= 0
      BY DEF Flow
    <3>2. Wire = [up : U, down : D, client : BOOLEAN, server : {"none", "queued", "open", "closed"}]
      BY DEF Wire
    <3> HIDE DEF U, D
    <3> QED BY <3>1, <3>2 DEF FormInv, Links
  <2>4. \A e \in clients : /\ e.volume \in 0..100 \union Floats
                           /\ Cardinality(Entries(clients, e.pid)) = 1
    <3>1. ASSUME NEW e \in clients
          PROVE  e.volume \in 0..100 \union Floats /\ Entries(clients, e.pid) = {e}
      BY DEF FormInv, Known, Levels, Entries
    <3> QED BY <3>1, FS_Singleton
  <2>5. skewed \subseteq 1..MaxConns
    BY DEF FormInv, Links
  <2> QED BY <2>1, <2>2, <2>3, <2>4, <2>5, Zenon DEF TypeOK
<1> QED BY <1>1, AlwaysForm, PTL

-----------------------------------------------------------------------------
(* In step                                                                  *)

\* Connections are made one after the other, and the one in use is made.
BaseInv ==
  /\ \E n \in 0..MaxConns : Used = 1..n
  /\ \A l \in Links : links[l].server = "none" => links[l] = Unused
  /\ skewed \subseteq Used
  /\ fd # 0 => fd \in Used

\* p answers call x; a list is always granted.
Answers(p, x) ==
  p \in Replies /\ p.of = x.id /\ (x.cmd = "ListClients" => p.status = "OK")

\* What a call's connection holds while the call goes on: its request, as far
\* as it is sent, or its reply.
Going(x, up, down) ==
  /\ x.at = "send_head" => up = Empty /\ down = Empty
  /\ x.at = "send_body" =>
       up = Half(x.id, x.request) /\ down = Empty /\ PayloadSize[x.request.cmd] # 0
  /\ x.at = "recv_head" =>
       \/ up = Whole(x.id, x.request) /\ down = Empty
       \/ up = Empty /\ \E p : Answers(p, x) /\ down = One(p, 0)
  /\ x.at = "recv_body" =>
       up = Empty /\ \E p : Answers(p, x) /\ down = One(p, HeaderSize) /\ x.reply.size = p.size

\* Nobody calls, and the connection is empty; or one thread does.
Quiet ==
  /\ \A c \in Callers : call[c].at = "idle"
  /\ connected => links[fd].up = Empty /\ links[fd].down = Empty

Alone(c) ==
  /\ connected /\ call[c].at # "idle"
  /\ \A d \in Callers : d # c => call[d].at = "idle"
  /\ Going(call[c], links[fd].up, links[fd].down)

StepNow == fd \notin skewed => Quiet \/ \E c \in Callers : Alone(c)

StepInv == BaseInv /\ AnswerIsOwn /\ StepNow

\* The parts of a link of which one is changed.
LEMMA WireSet ==
  ASSUME NEW y \in Wire, NEW v
  PROVE  /\ LET z == [y EXCEPT !.up = v] IN
              z.up = v /\ z.down = y.down /\ z.client = y.client /\ z.server = y.server
         /\ LET z == [y EXCEPT !.down = v] IN
              z.up = y.up /\ z.down = v /\ z.client = y.client /\ z.server = y.server
         /\ LET z == [y EXCEPT !.client = v] IN
              z.up = y.up /\ z.down = y.down /\ z.client = v /\ z.server = y.server
         /\ LET z == [y EXCEPT !.server = v] IN
              z.up = y.up /\ z.down = y.down /\ z.client = y.client /\ z.server = v
<1> DEFINE U == Flow(UpPieces)  D == Flow(Pieces)
<1>1. y \in [up : U, down : D, client : BOOLEAN, server : {"none", "queued", "open", "closed"}]
  BY DEF Wire
<1> HIDE DEF U, D
<1> QED BY <1>1

\* At first nothing is sent.
LEMMA InitStep == Init => StepInv
<1> SUFFICES ASSUME Init PROVE StepInv
  OBVIOUS
<1>1. \A l \in Links : links[l] = Unused /\ links[l].server = "none"
  BY DEF Init, Links, Unused
<1>2. BaseInv
  <2>1. Used = {} /\ 1..0 = {} /\ 0 \in 0..MaxConns
    BY <1>1, Bounds DEF Used, Links
  <2> QED BY <1>1, <2>1 DEF BaseInv, Init
<1>3. \A c \in Callers : call[c].at = "idle" /\ call[c].result = "none"
  BY NoCallFacts DEF Init
<1>4. AnswerIsOwn
  BY <1>3 DEF AnswerIsOwn
<1>5. Quiet
  BY <1>3 DEF Quiet, Init
<1> QED BY <1>2, <1>4, <1>5 DEF StepInv, StepNow

\* Steps that connect nothing.
LEMMA BaseKept ==
  ASSUME BaseInv, fd' = fd \/ fd' = 0, skewed' \subseteq skewed \union Used,
         \A l \in Links : /\ links'[l].server = "none" <=> links[l].server = "none"
                          /\ links[l].server = "none" => links'[l] = links[l]
  PROVE  BaseInv'
<1>1. Used' = Used
  BY DEF Used, Links
<1> QED BY <1>1 DEF BaseInv

\* Steps on one link.
LEMMA BaseOnLink ==
  ASSUME FormInv, BaseInv, NEW l \in Used, NEW y, links' = [links EXCEPT ![l] = y], y.server # "none",
         fd' = fd \/ fd' = 0, skewed' \subseteq skewed \union Used
  PROVE  BaseInv'
<1>1. l \in Links /\ links[l].server # "none"
  BY DEF Used, Links
<1>2. \A k \in Links : /\ links'[k].server = "none" <=> links[k].server = "none"
                       /\ links[k].server = "none" => links'[k] = links[k]
  BY <1>1 DEF FormInv
<1> QED BY <1>2, BaseKept

\* Steps of one call that end in no success.
LEMMA OwnKept ==
  ASSUME FormInv, AnswerIsOwn, NEW c \in Callers, NEW x, call' = [call EXCEPT ![c] = x],
         x.result = "OK" /\ x.sure => x.answered = x.id
  PROVE  AnswerIsOwn'
BY DEF AnswerIsOwn, FormInv

\* A thread in a call on a connection in step is the only one.
LEMMA IsAlone ==
  ASSUME StepNow, fd \notin skewed, NEW c \in Callers, call[c].at # "idle"
  PROVE  Alone(c)
BY DEF StepNow, Quiet, Alone

\* And remains so until its call returns.
LEMMA StaysAlone ==
  ASSUME FormInv, StepNow, NEW c \in Callers, call[c].at # "idle",
         NEW x, call' = [call EXCEPT ![c] = x], fd' = fd, skewed \subseteq skewed',
         fd \notin skewed' =>
           IF x.at = "idle"
           THEN connected' => links'[fd].up = Empty /\ links'[fd].down = Empty
           ELSE connected' /\ Going(x, links'[fd].up, links'[fd].down)
  PROVE  StepNow'
<1> SUFFICES ASSUME fd \notin skewed' PROVE (Quiet \/ \E d \in Callers : Alone(d))'
  BY DEF StepNow
<1>1. Alone(c)
  BY IsAlone
<1>2. call'[c] = x /\ \A d \in Callers : d # c => call'[d].at = "idle"
  BY <1>1 DEF Alone, FormInv
<1>3. CASE x.at = "idle"
  <2>1. Quiet'
    BY <1>2, <1>3 DEF Quiet
  <2> QED BY <2>1
<1>4. CASE x.at # "idle"
  <2>1. Alone(c)'
    BY <1>2, <1>4, Zenon DEF Alone
  <2> QED BY <2>1
<1> QED BY <1>3, <1>4

\* A process that ends.
LEMMA EndsStep ==
  ASSUME FormInv, StepInv, ProcessEnds
  PROVE  StepInv'
<1>1. \A c \in Callers : call'[c].at = "idle" /\ call'[c].result = "none"
  BY NoCallFacts DEF ProcessEnds
<1>2. fd' = 0 /\ connected' = FALSE /\ skewed' = skewed
  BY DEF ProcessEnds
<1>3. BaseInv'
  <2>1. ASSUME NEW l \in Links
        PROVE  /\ links'[l].server = "none" <=> links[l].server = "none"
               /\ links[l].server = "none" => links'[l] = links[l]
    <3>1. links'[l] = [links[l] EXCEPT !.client = FALSE] /\ links[l] \in Wire
      BY DEF ProcessEnds, Links, FormInv
    <3>2. links'[l].server = links[l].server
      BY <3>1, WireSet
    <3>3. [Unused EXCEPT !.client = FALSE] = Unused
      <4>1. Unused = [up |-> Empty, down |-> Empty, client |-> FALSE, server |-> "none"]
        BY DEF Unused
      <4>2. Unused \in [up : {Empty}, down : {Empty}, client : {FALSE}, server : {"none"}]
        BY <4>1
      <4> QED BY <4>2
    <3> QED BY <3>1, <3>2, <3>3 DEF StepInv, BaseInv
  <2> QED BY <1>2, <2>1, BaseKept DEF StepInv
<1>4. AnswerIsOwn'
  BY <1>1 DEF AnswerIsOwn
<1>5. Quiet'
  BY <1>1, <1>2 DEF Quiet
<1> QED BY <1>3, <1>4, <1>5 DEF StepInv, StepNow

\* ipc_client_connect.
LEMMA ConnectStep ==
  ASSUME FormInv, StepInv, Connect
  PROVE  StepInv'
<1>1. /\ connected' = alive /\ fd' = IF alive THEN Cardinality(Used) + 1 ELSE 0
      /\ links' = IF alive
                  THEN [links EXCEPT ![fd'] = [@ EXCEPT !.client = TRUE, !.server = "queued"]]
                  ELSE links
      /\ UNCHANGED <<call, calls, alive, clients, skewed>>
      /\ \A c \in Callers : call[c].at = "idle"
      /\ Cardinality(Used) < MaxConns
  BY Zenon DEF Connect
<1>2. AnswerIsOwn'
  BY <1>1 DEF StepInv, AnswerIsOwn
<1>3. CASE ~alive
  <2>1. fd' = 0 /\ ~connected' /\ links' = links
    BY <1>1, <1>3
  <2>2. BaseInv'
    BY <1>1, <2>1, BaseKept DEF StepInv
  <2>3. Quiet'
    BY <1>1, <2>1 DEF Quiet
  <2> QED BY <1>2, <2>2, <2>3 DEF StepInv, StepNow
<1>4. CASE alive
  <2>1. PICK n \in 0..MaxConns : Used = 1..n
    BY DEF StepInv, BaseInv
  <2>2. Cardinality(Used) = n /\ n \in Nat /\ n < MaxConns
    <3>1. Cardinality(1..n) = IF 1 > n THEN 0 ELSE n - 1 + 1
      BY FS_Interval
    <3>2. n \in Nat
      BY Bounds
    <3> QED BY <1>1, <2>1, <3>1, <3>2, Bounds
  <2> DEFINE m == n + 1
             x == [links[m] EXCEPT !.client = TRUE]
             y == [x EXCEPT !.server = "queued"]
  <2>3. m \in Links /\ m \notin Used /\ fd' = m /\ links' = [links EXCEPT ![m] = y]
    <3>1. m \in Links /\ m \notin Used /\ fd' = m
      BY <1>1, <1>4, <2>1, <2>2, Bounds DEF Links
    <3> HIDE DEF m
    <3>2. links' = [links EXCEPT ![m] = [@ EXCEPT !.client = TRUE, !.server = "queued"]]
      BY <1>1, <1>4, <3>1
    <3> QED BY <3>1, <3>2
  <2> HIDE DEF m
  <2>4. links[m] \in Wire /\ links[m].up = Empty /\ links[m].down = Empty
    <3>1. links[m] = Unused
      BY <2>3 DEF Used, Links, StepInv, BaseInv
    <3>2. links[m] \in Wire
      BY <2>3 DEF FormInv
    <3>3. Unused.up = Empty /\ Unused.down = Empty
      BY DEF Unused
    <3> QED BY <3>1, <3>2, <3>3
  <2>5. x \in Wire /\ x.up = Empty /\ x.down = Empty
    <3>1. x \in Wire
      BY <2>4, WireParts
    <3>2. x.up = links[m].up /\ x.down = links[m].down
      BY <2>4, WireSet
    <3> QED BY <2>4, <3>1, <3>2
  <2> HIDE DEF x
  <2>6. y.up = Empty /\ y.down = Empty /\ y.server = "queued"
    BY <2>5, WireSet
  <2> HIDE DEF y
  <2>7. links'[m] = y /\ \A l \in Links : l # m => links'[l] = links[l]
    BY <2>3 DEF FormInv
  <2>8. Used' = 1..m /\ m \in 0..MaxConns
    <3>1. Used' = Used \union {m}
      BY <2>3, <2>6, <2>7 DEF Used, Links
    <3> QED BY <2>1, <2>2, <3>1, Bounds DEF m
  <2>9. BaseInv'
    <3>1. \A l \in Links : links'[l].server = "none" => links'[l] = Unused
      BY <2>6, <2>7 DEF StepInv, BaseInv
    <3>2. skewed' \subseteq Used' /\ fd' \in Used'
      BY <1>1, <2>1, <2>2, <2>3, <2>8 DEF StepInv, BaseInv, m
    <3> QED BY <2>8, <3>1, <3>2 DEF BaseInv
  <2>10. Quiet'
    BY <1>1, <2>3, <2>6, <2>7 DEF Quiet
  <2> QED BY <1>2, <2>9, <2>10 DEF StepInv, StepNow
<1> QED BY <1>3, <1>4

\* ipc_client_disconnect.
LEMMA DisconnectStep ==
  ASSUME FormInv, StepInv, Disconnect
  PROVE  StepInv'
<1>1. /\ \A c \in Callers : call'[c].at = "idle"
      /\ connected' = FALSE /\ fd' = 0 /\ UNCHANGED <<call, skewed>>
      /\ fd # 0 /\ links' = [links EXCEPT ![fd].client = FALSE]
  BY DEF Disconnect
<1>2. fd \in Used /\ fd \in Links /\ links[fd] \in Wire
  BY <1>1 DEF StepInv, BaseInv, Used, Links, FormInv
<1> DEFINE y == [links[fd] EXCEPT !.client = FALSE]
<1>3. links' = [links EXCEPT ![fd] = y] /\ y.server # "none"
  <2>1. y.server = links[fd].server
    BY <1>2, WireSet
  <2> QED BY <1>1, <1>2, <2>1 DEF Used
<1> HIDE DEF y
<1>4. BaseInv'
  BY <1>1, <1>2, <1>3, BaseOnLink DEF StepInv
<1>5. AnswerIsOwn'
  BY <1>1 DEF StepInv, AnswerIsOwn
<1>6. Quiet'
  BY <1>1 DEF Quiet
<1> QED BY <1>4, <1>5, <1>6 DEF StepInv, StepNow

\* An operation that begins: alone, or the connection is in step no more.
LEMMA BeginStep ==
  ASSUME FormInv, StepInv, NEW c \in Callers, NEW r \in Requests, Begin(c, r)
  PROVE  StepInv'
<1> DEFINE x == [NoCall EXCEPT !.at = "send_head", !.id = calls + 1, !.cmd = r.cmd, !.request = r]
<1>1. /\ call' = [call EXCEPT ![c] = x] /\ connected
      /\ skewed' = IF \A d \in Callers : call[d].at = "idle" THEN skewed ELSE skewed \union {fd}
      /\ UNCHANGED <<connected, fd, links, alive, clients>>
  BY Zenon DEF Begin, ctx
<1>2. x.at = "send_head" /\ x.result = "none"
  BY DEF NoCall
<1> HIDE DEF x
<1>3. fd \in Used
  BY <1>1 DEF FormInv, StepInv, BaseInv
<1>4. BaseInv'
  <2>1. skewed' \subseteq skewed \union Used
    BY <1>1, <1>3
  <2> QED BY <1>1, <2>1, BaseKept DEF StepInv
<1>5. AnswerIsOwn'
  BY <1>1, <1>2, OwnKept DEF StepInv
<1>6. StepNow'
  <2> SUFFICES ASSUME fd \notin skewed' PROVE Alone(c)'
    BY <1>1 DEF StepNow
  <2>1. (\A d \in Callers : call[d].at = "idle") /\ fd \notin skewed
    BY <1>1
  <2>2. links[fd].up = Empty /\ links[fd].down = Empty
    BY <1>1, <2>1 DEF StepInv, StepNow, Quiet, Alone
  <2>3. Going(x, links'[fd'].up, links'[fd'].down)
    BY <1>1, <1>2, <2>2 DEF Going
  <2>4. call'[c] = x /\ \A d \in Callers : d # c => call'[d].at = "idle"
    BY <1>1, <2>1 DEF FormInv
  <2> QED BY <1>1, <1>2, <2>3, <2>4 DEF Alone
<1> QED BY <1>4, <1>5, <1>6 DEF StepInv

\* One of the two sends.
LEMMA SendStep ==
  ASSUME FormInv, StepInv, NEW c \in Callers, call[c].at # "idle", NEW p, NEW next \in Places \ {"idle"},
         Send(p, next, c),
         fd \notin skewed =>
           \A x : x = [call[c] EXCEPT !.at = next]
                    => Going(x, Put(links[fd].up, p), links[fd].down)
  PROVE  StepInv'
<1>1. CASE links[fd].server = "closed"
  <2>1. ProcessEnds
    BY <1>1 DEF Send
  <2> QED BY <2>1, EndsStep
<1>2. CASE links[fd].server # "closed"
  <2> DEFINE x == [call[c] EXCEPT !.at = next]
             y == [links[fd] EXCEPT !.up = Put(links[fd].up, p)]
  <2>1. /\ links' = [links EXCEPT ![fd] = y] /\ call' = [call EXCEPT ![c] = x]
        /\ UNCHANGED <<connected, fd, calls, alive, clients, skewed>>
    BY <1>2 DEF Send, ctx
  <2>2. fd \in Used /\ fd \in Links
    BY InCallForm DEF StepInv, BaseInv
  <2>3. /\ y.up = Put(links[fd].up, p) /\ y.down = links[fd].down /\ y.server = links[fd].server
    BY InCallForm, WireSet
  <2>4. /\ x.at = next /\ x.result = call[c].result /\ x.answered = call[c].answered
        /\ x.id = call[c].id /\ x.sure = call[c].sure
    BY InCallForm DEF Calling
  <2>10. fd \notin skewed => Going(x, Put(links[fd].up, p), links[fd].down)
    BY Zenon
  <2> HIDE DEF x, y
  <2>5. y.server # "none" /\ links'[fd] = y
    BY <2>1, <2>2, <2>3, InCallForm DEF Used
  <2>6. BaseInv'
    BY <2>1, <2>2, <2>5, BaseOnLink DEF StepInv
  <2>7. AnswerIsOwn'
    <3>1. x.result = "OK" /\ x.sure => x.answered = x.id
      BY <2>4 DEF StepInv, AnswerIsOwn
    <3> QED BY <2>1, <3>1, OwnKept DEF StepInv
  <2>8. StepNow'
    <3>1. fd \notin skewed => connected
      BY IsAlone DEF StepInv, Alone
    <3> QED BY <2>1, <2>3, <2>4, <2>5, <2>10, <3>1, StaysAlone DEF StepInv
  <2> QED BY <2>6, <2>7, <2>8 DEF StepInv
<1> QED BY <1>1, <1>2

\* A call that fails where it was alone leaves the connection given up.
LEMMA FailStep ==
  ASSUME FormInv, StepInv, NEW c \in Callers, call[c].at # "idle", Fail(c), connected' = FALSE,
         UNCHANGED <<fd, links, skewed>>
  PROVE  StepInv'
<1> DEFINE x == [call[c] EXCEPT !.at = "idle", !.result = "error"]
<1>1. call' = [call EXCEPT ![c] = x] /\ x.at = "idle" /\ x.result = "error"
  BY InCallForm DEF Fail, Calling
<1> HIDE DEF x
<1>2. BaseInv'
  BY BaseKept DEF StepInv
<1>3. AnswerIsOwn'
  BY <1>1, OwnKept DEF StepInv
<1>4. StepNow'
  BY <1>1, StaysAlone DEF StepInv
<1> QED BY <1>2, <1>3, <1>4 DEF StepInv

\* Steps that leave the calls and the streams as they are.
LEMMA SameStep ==
  ASSUME FormInv, StepNow, UNCHANGED <<connected, fd, call>>, skewed \subseteq skewed',
         \A k \in Links : links'[k].up = links[k].up /\ links'[k].down = links[k].down
  PROVE  StepNow'
<1>1. connected => fd \in Links
  BY Bounds DEF FormInv, Links
<1>2. Quiet => Quiet'
  BY <1>1 DEF Quiet
<1>3. \A c \in Callers : Alone(c) => Alone(c)'
  BY <1>1 DEF Alone
<1> QED BY <1>2, <1>3 DEF StepNow

\* The header of a request, on a stream that was empty.
LEMMA SendHeadStep ==
  ASSUME FormInv, StepInv, NEW c \in Callers, SendHead(c)
  PROVE  StepInv'
<1> DEFINE p == [of |-> call[c].id, size |-> HeaderSize, header |-> TRUE,
                 request |-> call[c].request]
           next == IF PayloadSize[call[c].cmd] > 0 THEN "send_body" ELSE "recv_head"
<1>1. call[c].at = "send_head"
  BY DEF SendHead
<1>2. CASE ~connected
  <2>1. Fail(c) /\ UNCHANGED <<ctx, calls, links, alive, clients, skewed>>
    BY <1>2, Zenon DEF SendHead
  <2>2. connected' = FALSE /\ UNCHANGED <<fd, links, skewed>> /\ call[c].at # "idle"
    <3>1. connected' = connected /\ connected \in BOOLEAN
      BY <2>1 DEF ctx, FormInv
    <3> QED BY <1>1, <1>2, <2>1, <3>1 DEF ctx
  <2> QED BY <2>1, <2>2, FailStep
<1>3. CASE connected
  <2>1. Send(p, next, c) /\ next \in Places \ {"idle"}
    BY <1>3, Zenon DEF SendHead, Places
  <2>2. /\ call[c] \in Calling /\ call[c].request \in Requests
        /\ call[c].cmd = call[c].request.cmd
    BY <1>1, InCallForm
  <2>3. ASSUME fd \notin skewed, NEW x, x = [call[c] EXCEPT !.at = next]
        PROVE  Going(x, Put(links[fd].up, p), links[fd].down)
    <3>1. links[fd].up = Empty /\ links[fd].down = Empty
      BY <1>1, <2>3, IsAlone DEF StepInv, Alone, Going
    <3>2. p = Header(call[c].id, call[c].request)
      BY DEF Header
    <3>3. Put(Empty, p) = Half(call[c].id, call[c].request)
      BY <2>2, <3>2, HalfFacts
    <3>4. PayloadSize[call[c].cmd] \in Nat
      BY <2>2, RequestType
    <3>5. x.at = next /\ x.id = call[c].id /\ x.request = call[c].request
      BY <2>2, <2>3 DEF Calling
    <3> HIDE DEF p
    <3> QED BY <2>2, <3>1, <3>3, <3>4, <3>5 DEF Going, Whole
  <2> HIDE DEF p, next
  <2> QED BY <1>1, <2>1, <2>3, SendStep
<1> QED BY <1>2, <1>3

\* Its payload, behind the header.
LEMMA SendBodyStep ==
  ASSUME FormInv, StepInv, NEW c \in Callers, SendBody(c)
  PROVE  StepInv'
<1> DEFINE p == [of |-> call[c].id, size |-> PayloadSize[call[c].cmd], header |-> FALSE,
                 request |-> call[c].request]
<1>1. call[c].at = "send_body" /\ Send(p, "recv_head", c) /\ "recv_head" \in Places \ {"idle"}
  BY Zenon DEF SendBody, Places
<1>2. /\ call[c] \in Calling /\ call[c].request \in Requests
      /\ call[c].cmd = call[c].request.cmd
  BY <1>1, InCallForm
<1>3. ASSUME fd \notin skewed, NEW x, x = [call[c] EXCEPT !.at = "recv_head"]
      PROVE  Going(x, Put(links[fd].up, p), links[fd].down)
  <2>1. /\ links[fd].up = Half(call[c].id, call[c].request) /\ links[fd].down = Empty
        /\ PayloadSize[call[c].request.cmd] # 0
    BY <1>1, <1>3, IsAlone DEF StepInv, Alone, Going
  <2>2. p = Body(call[c].id, call[c].request)
    BY <1>2 DEF Body
  <2>3. Put(links[fd].up, p) = Whole(call[c].id, call[c].request)
    BY <1>2, <2>1, <2>2, WholeFacts
  <2>4. x.at = "recv_head" /\ x.id = call[c].id /\ x.request = call[c].request
    BY <1>2, <1>3 DEF Calling
  <2> HIDE DEF p
  <2> QED BY <2>1, <2>3, <2>4 DEF Going
<1> HIDE DEF p
<1> QED BY <1>1, <1>3, SendStep

\* End of file, the timeout, or another thread has given the connection up.
LEMMA GiveUpStep ==
  ASSUME FormInv, StepInv, NEW c \in Callers, NothingCame(c) \/ LinkLost(c)
  PROVE  StepInv'
<1>1. CASE NothingCame(c)
  <2>1. /\ Fail(c) /\ call[c].at # "idle" /\ connected' = FALSE
        /\ UNCHANGED <<fd, links, skewed>>
    BY <1>1 DEF NothingCame, AwaitsBytes, GiveUp
  <2> QED BY <2>1, FailStep
<1>2. CASE LinkLost(c)
  <2>1. /\ Fail(c) /\ call[c].at # "idle" /\ ~connected /\ connected' = connected
        /\ UNCHANGED <<fd, links, skewed>>
    BY <1>2 DEF LinkLost, ctx
  <2>2. connected' = FALSE
    BY <2>1 DEF FormInv
  <2> QED BY <2>1, <2>2, FailStep
<1> QED BY <1>1, <1>2

\* recv of a header: on a connection in step, the call's own reply.
LEMMA RecvHeadStep ==
  ASSUME FormInv, StepInv, NEW c \in Callers, RecvHead(c)
  PROVE  StepInv'
<1> DEFINE down == links[fd].down
           n    == AtMost(down, HeaderSize)
           came == Head(down.pieces)
           good == n = HeaderSize /\ AtHeader(down)
           more == good /\ came.size - HeaderSize <= Room(call[c].cmd)
           at     == IF more THEN "recv_body" ELSE "idle"
           result == IF more THEN "none" ELSE "error"
           reply  == IF good THEN [of |-> came.of, size |-> came.size,
                                   status |-> came.status, pids |-> came.pids]
                     ELSE NoReply
           y  == [links[fd] EXCEPT !.down = Taken(down, n)]
           x1 == [call[c] EXCEPT !.at = at]
           x2 == [x1 EXCEPT !.result = result]
           x  == [x2 EXCEPT !.reply = reply]
<1>1. /\ call[c].at = "recv_head" /\ n > 0 /\ connected
      /\ links' = [links EXCEPT ![fd].down = Taken(@, n)]
      /\ call' = [call EXCEPT ![c].at = at, ![c].result = result, ![c].reply = reply]
      /\ skewed' = IF good /\ ~more THEN skewed \union {fd} ELSE skewed
      /\ UNCHANGED <<connected, fd, calls, alive, clients>>
  BY Zenon DEF RecvHead, ctx
<1>2. /\ fd \in Links /\ links[fd] \in Wire /\ call[c] \in Calling
      /\ call \in [Callers -> Calling] /\ links \in [Links -> Wire]
  BY <1>1, InCallForm
<1>3. fd \in Used
  BY <1>1, InCallForm DEF StepInv, BaseInv
<1>4. links' = [links EXCEPT ![fd] = y] /\ call' = [call EXCEPT ![c] = x]
  BY <1>1, <1>2
<1>5. /\ x.at = at /\ x.result = result /\ x.reply = reply
      /\ x.id = call[c].id /\ x.cmd = call[c].cmd
  <2> HIDE DEF at, result, reply
  <2>1. /\ x1.at = at /\ x1.id = call[c].id /\ x1.cmd = call[c].cmd
        /\ x1 \in [DOMAIN call[c] -> {x1[k] : k \in DOMAIN call[c]}]
        /\ DOMAIN x1 = DOMAIN call[c]
    BY <1>2 DEF Calling
  <2>2. DOMAIN call[c] = {"at", "id", "cmd", "request", "reply", "result", "answered", "sure", "listed"}
    BY <1>2 DEF Calling
  <2> QED BY <1>2, <2>1, <2>2
<1>6. y.up = links[fd].up /\ y.down = Taken(down, n) /\ y.server = links[fd].server
  BY <1>2, WireSet
<1>7. BaseInv'
  <2>1. y.server # "none"
    BY <1>3, <1>6 DEF Used
  <2>2. skewed' \subseteq skewed \union Used
    BY <1>1, <1>3
  <2> HIDE DEF y
  <2> QED BY <1>1, <1>3, <1>4, <2>1, <2>2, BaseOnLink DEF StepInv
<1>8. AnswerIsOwn'
  <2>1. x.result # "OK"
    BY <1>5
  <2> HIDE DEF x
  <2> QED BY <1>4, <2>1, OwnKept DEF StepInv
<1>9. ASSUME fd \notin skewed'
      PROVE  x.at = "recv_body" /\ Going(x, y.up, y.down)
  <2>1. Going(call[c], links[fd].up, down) /\ (good => more)
    BY <1>1, <1>9, IsAlone DEF StepInv, Alone
  <2>2. down # Empty
    <3>1. AtMost(Empty, HeaderSize) = 0
      BY EmptyFacts DEF AtMost, HeaderSize
    <3> QED BY <1>1, <3>1
  <2>3. PICK p : links[fd].up = Empty /\ Answers(p, call[c]) /\ down = One(p, 0)
    BY <1>1, <2>1, <2>2 DEF Going
  <2>4. p \in Replies /\ p.size \in Nat /\ p.size > HeaderSize
    BY <2>3, ReplyFacts DEF Answers
  <2>5. Available(One(p, 0)) = p.size - 0 /\ Head(One(p, 0).pieces) = p
    BY <2>4, OneFacts
  <2>6. n = HeaderSize
    BY <2>3, <2>4, <2>5 DEF AtMost, HeaderSize
  <2>7. good /\ came = p /\ Taken(down, n) = One(p, HeaderSize)
    BY <2>3, <2>4, <2>5, <2>6, ReplyFacts
  <2>8. x.at = "recv_body" /\ x.reply.size = p.size
    <3>1. reply.size = p.size
      <4> HIDE DEF good, came
      <4> QED BY <2>7
    <3> HIDE DEF x, good, more, reply
    <3> QED BY <1>5, <2>1, <2>7, <3>1
  <2>9. Answers(p, x)
    <3> HIDE DEF x
    <3> QED BY <1>5, <2>3 DEF Answers
  <2> HIDE DEF x, y, n, down
  <2> QED BY <1>6, <2>3, <2>7, <2>8, <2>9 DEF Going
<1>10. StepNow'
  <2>1. links'[fd] = y
    BY <1>2, <1>4
  <2> HIDE DEF x, y, n, down, came
  <2>2. skewed \subseteq skewed'
    BY <1>1
  <2> HIDE DEF good, more, at, result, reply
  <2> QED BY <1>1, <1>4, <1>9, <2>1, <2>2, StaysAlone DEF StepInv
<1> QED BY <1>7, <1>8, <1>10 DEF StepInv

\* recv of the payload: on a connection in step, all there was.
LEMMA RecvBodyStep ==
  ASSUME FormInv, StepInv, NEW c \in Callers, RecvBody(c)
  PROVE  StepInv'
<1> DEFINE down == links[fd].down
           from == Head(down.pieces)
           len  == call[c].reply.size - HeaderSize
           n    == AtMost(down, len)
           ok   == /\ n = len
                   /\ \/ call[c].cmd = "ListClients"
                      \/ down.skew = HeaderSize /\ Granted(from)
           sure == fd \notin skewed
           result   == IF ok THEN "OK" ELSE "error"
           answered == IF ok THEN from.of ELSE 0
           listed   == IF ok /\ from.pids # {}
                       THEN PidsFrom(from.pids, 0 - ResponseSize) ELSE {}
           y  == [links[fd] EXCEPT !.down = Taken(down, n)]
           x1 == [call[c] EXCEPT !.at = "idle"]
           x2 == [x1 EXCEPT !.result = result]
           x3 == [x2 EXCEPT !.answered = answered]
           x4 == [x3 EXCEPT !.sure = sure]
           x  == [x4 EXCEPT !.listed = listed]
<1>1. /\ call[c].at = "recv_body" /\ n > 0
      /\ links' = [links EXCEPT ![fd].down = Taken(@, n)]
      /\ connected' = (connected /\ n = len)
      /\ call' = [call EXCEPT ![c].at = "idle", ![c].result = result,
                              ![c].answered = answered, ![c].sure = sure,
                              ![c].listed = listed]
      /\ UNCHANGED <<fd, calls, alive, clients, skewed>>
  BY Zenon DEF RecvBody
<1>2. /\ fd \in Links /\ links[fd] \in Wire /\ call[c] \in Calling
      /\ call \in [Callers -> Calling] /\ links \in [Links -> Wire]
  BY SMTT(40), <1>1, InCallForm
<1>3. fd \in Used
  BY SMTT(40), <1>1, InCallForm DEF StepInv, BaseInv
<1>4. links' = [links EXCEPT ![fd] = y] /\ call' = [call EXCEPT ![c] = x]
  BY <1>1, <1>2
<1>5. /\ x.at = "idle" /\ x.result = result /\ x.answered = answered
      /\ x.sure = sure /\ x.id = call[c].id
  <2> HIDE DEF result, answered, sure, listed
  <2> DEFINE D == {"at", "id", "cmd", "request", "reply", "result", "answered", "sure", "listed"}
  <2>1. DOMAIN call[c] = D
    BY <1>2 DEF Calling
  <2>2. DOMAIN x1 = D /\ x1.at = "idle" /\ x1.id = call[c].id
    BY <2>1
  <2> HIDE DEF x1
  <2>3. DOMAIN x2 = D /\ x2.at = "idle" /\ x2.id = call[c].id /\ x2.result = result
    BY <2>2
  <2> HIDE DEF x2
  <2>4. /\ DOMAIN x3 = D /\ x3.at = "idle" /\ x3.id = call[c].id /\ x3.result = result
        /\ x3.answered = answered
    BY <2>3
  <2> HIDE DEF x3
  <2>5. /\ DOMAIN x4 = D /\ x4.at = "idle" /\ x4.id = call[c].id /\ x4.result = result
        /\ x4.answered = answered /\ x4.sure = sure
    BY <2>4
  <2> HIDE DEF x4
  <2> QED BY <2>5
<1>6. y.up = links[fd].up /\ y.down = Taken(down, n) /\ y.server = links[fd].server
  BY SMTT(40), <1>2, WireSet
<1>7. BaseInv'
  <2>1. y.server # "none"
    BY <1>3, <1>6 DEF Used
  <2> HIDE DEF y
  <2> QED BY <1>1, <1>3, <1>4, <2>1, BaseOnLink DEF StepInv
<1>8. ASSUME fd \notin skewed
      PROVE  /\ y.up = Empty /\ y.down = Empty
             /\ result = "OK" => answered = call[c].id
  <2>1. PICK p : /\ links[fd].up = Empty /\ down = One(p, HeaderSize)
                 /\ Answers(p, call[c]) /\ call[c].reply.size = p.size
    BY <1>1, <1>8, IsAlone DEF StepInv, Alone, Going
  <2>2. p \in Replies /\ p.size \in Nat /\ p.size > HeaderSize /\ p.of = call[c].id
    BY <2>1, ReplyFacts DEF Answers
  <2>3. /\ Available(One(p, HeaderSize)) = p.size - HeaderSize
        /\ Head(One(p, HeaderSize).pieces) = p
    BY <2>2, OneFacts DEF HeaderSize
  <2>4. n = p.size - HeaderSize /\ from = p
    BY <2>1, <2>2, <2>3 DEF AtMost
  <2>5. Taken(down, n) = Empty
    BY <2>1, <2>2, <2>4, ReplyFacts
  <2> HIDE DEF y, n, ok, down, from
  <2> QED BY <1>6, <2>1, <2>2, <2>4, <2>5
<1>9. AnswerIsOwn'
  <2>1. x.result = "OK" /\ x.sure => x.answered = x.id
    <3> HIDE DEF x, result, answered, y
    <3> QED BY <1>5, <1>8
  <2> HIDE DEF x
  <2> QED BY <1>4, <2>1, OwnKept DEF StepInv
<1>10. StepNow'
  <2>1. links'[fd] = y
    BY <1>2, <1>4
  <2> HIDE DEF x, y, n, len, down, from, ok, sure, result, answered, listed
  <2> QED BY <1>1, <1>4, <1>5, <1>8, <2>1, StaysAlone DEF StepInv
<1> QED BY <1>7, <1>9, <1>10 DEF StepInv

\* The server takes or leaves a connection: the streams stay.
LEMMA ServerEndStep ==
  ASSUME FormInv, StepInv, NEW l \in Links, Accept(l) \/ RemoveConnection(l)
  PROVE  StepInv'
<1>1. PICK s \in {"open", "closed"} :
        /\ links' = [links EXCEPT ![l].server = s] /\ links[l].server # "none"
        /\ UNCHANGED <<connected, fd, call, calls, alive, clients, skewed>>
  BY DEF Accept, RemoveConnection, ctx
<1> DEFINE y == [links[l] EXCEPT !.server = s]
<1>2. links[l] \in Wire /\ l \in Used
  BY <1>1 DEF FormInv, Used, Links
<1>3. y.up = links[l].up /\ y.down = links[l].down /\ y.server = s
  BY <1>2, WireSet
<1>4. links' = [links EXCEPT ![l] = y]
  BY <1>1
<1> HIDE DEF y
<1>5. BaseInv'
  BY <1>1, <1>2, <1>3, <1>4, BaseOnLink DEF StepInv
<1>6. AnswerIsOwn'
  BY <1>1 DEF StepInv, AnswerIsOwn
<1>7. StepNow'
  <2>1. \A k \in Links : links'[k].up = links[k].up /\ links'[k].down = links[k].down
    BY <1>3, <1>4 DEF FormInv
  <2> QED BY <1>1, <2>1, SameStep DEF StepInv
<1> QED BY <1>5, <1>6, <1>7 DEF StepInv

\* A whole request on a link in step is read as it was sent, and its answer is
\* all there is then.
LEMMA HandleWhole ==
  ASSUME FormInv, NEW l \in Links, l \notin skewed', HandleMessage(l), links[l].client,
         NEW i \in 0..MaxCalls, NEW r \in Requests, links[l].up = Whole(i, r), links[l].down = Empty
  PROVE  \E p \in Replies :
           /\ p.of = i /\ (r.cmd = "ListClients" => p.status = "OK")
           /\ links' = [links EXCEPT ![l].up = Empty, ![l].down = One(p, 0)]
<1> DEFINE up == links[l].up
           n == AtMost(up, HeaderSize)
           rest == Taken(up, n)
           first == Head(up.pieces)
           len == Announced(first)
           m == AtMost(rest, len)
           answer == HeaderSize + ResponseSize
           good == n = HeaderSize /\ AtHeader(up)
           Answer(q) == SendResponse(l, Taken(rest, len), first.of, answer + DataSize(clients, q),
                                     StatusOf(clients, q), After(clients, q), Listed(clients, q))
<1>1. \/ ~good
      \/ skewed' = skewed \union {l}
      \/ \E q \in Decoded(first.request, rest) : Answer(q)
  BY Zenon DEF HandleMessage
<1>2. good /\ first = Header(i, r) /\ rest = Rest(i, r)
  <2>1. PayloadSize[r.cmd] \in Nat
    BY RequestType
  <2>2. Available(up) = HeaderSize + PayloadSize[r.cmd]
    BY WholeFacts
  <2>3. n = HeaderSize
    BY <2>1, <2>2 DEF AtMost, HeaderSize
  <2> QED BY <2>3, WholeFacts
<1>3. first.of = i /\ first.request = r /\ len = PayloadSize[r.cmd]
  BY <1>2 DEF Header, Announced
<1>4. Taken(rest, len) = Empty
  BY <1>2, <1>3, RestFacts
<1>5. Decoded(r, rest) = {r}
  <2>1. PayloadSize[r.cmd] # 0 => /\ Head(rest.pieces) = Body(i, r) /\ rest.skew = 0
    <3>1. PayloadSize[r.cmd] # 0 => Rest(i, r).skew = 0
      BY DEF Rest, One
    <3> QED BY <1>2, <3>1, RestFacts
  <2>2. Body(i, r).request = r /\ ~Body(i, r).header
    BY DEF Body
  <2> HIDE DEF rest
  <2> QED BY <2>1, <2>2 DEF Decoded
<1>6. Answer(r)
  <2>1. skewed' # skewed \union {l}
    OBVIOUS
  <2> HIDE DEF Answer, rest, first, good
  <2> QED BY <1>1, <1>2, <1>3, <1>5, <2>1
<1> DEFINE size == answer + DataSize(clients, r)
           status == StatusOf(clients, r)
           pids == Listed(clients, r)
           p == [of |-> i, size |-> size, header |-> TRUE, status |-> status, pids |-> pids]
<1>7. links' = [links EXCEPT ![l].up = Empty, ![l].down = Put(@, p)]
  <2> HIDE DEF rest, len, first
  <2> QED BY <1>3, <1>4, <1>6 DEF SendResponse
<1>8. size \in Nat /\ size > HeaderSize /\ status \in Statuses /\ pids \in Shown
  <2>1. r \in [cmd : Commands, pid : Ids, volume : Int, muted : BOOLEAN]
    BY RequestType DEF Ids
  <2>2. Known(clients, Ids)
    BY DEF FormInv
  <2>3. size \in Nat /\ status \in Statuses /\ pids \in Shown
    BY <2>1, <2>2, AnswerFacts
  <2>4. DataSize(clients, r) \in Nat
    BY <2>1, <2>2, AnswerFacts
  <2> QED BY <2>3, <2>4 DEF HeaderSize, ResponseSize
<1>9. r.cmd = "ListClients" => status = "OK"
  BY DEF StatusOf
<1> HIDE DEF size, status, pids
<1>10. p \in Replies /\ p.of = i /\ p.status = status /\ p.size \in Nat
  BY <1>8 DEF Replies, Pieces, Shown
<1> HIDE DEF p
<1>11. Put(links[l].down, p) = One(p, 0)
  BY <1>10, OneFacts
<1>12. links' = [links EXCEPT ![l].up = Empty, ![l].down = One(p, 0)]
  <2>1. links[l] \in Wire /\ links \in [Links -> Wire]
    BY DEF FormInv
  <2> QED BY <1>7, <1>11, <2>1 DEF Wire
<1> QED BY <1>9, <1>10, <1>12

\* What the server reads of a stream that holds a request in part, or nothing.
LEMMA HandlePart ==
  ASSUME FormInv, NEW l \in Links, HandleMessage(l),
         \/ links[l].up = Empty
         \/ \E i \in 0..MaxCalls, r \in Requests :
              links[l].up = Half(i, r) /\ PayloadSize[r.cmd] # 0
  PROVE  l \in skewed'
<1> DEFINE up == links[l].up
           n == AtMost(up, HeaderSize)
           rest == Taken(up, n)
           first == Head(up.pieces)
           len == Announced(first)
           m == AtMost(rest, len)
           good == n = HeaderSize /\ AtHeader(up)
<1>1. n > 0 /\ (~good \/ skewed' = skewed \union {l} \/ m = len)
  BY Zenon DEF HandleMessage
<1>2. up # Empty
  <2>1. AtMost(Empty, HeaderSize) = 0
    BY EmptyFacts DEF AtMost, HeaderSize
  <2> QED BY <1>1, <2>1
<1>3. PICK i \in 0..MaxCalls, r \in Requests : up = Half(i, r) /\ PayloadSize[r.cmd] # 0
  BY <1>2
<1> DEFINE h == Header(i, r)
<1>4. /\ h.size = HeaderSize /\ h.header = TRUE /\ h.request = r /\ h.size \in Nat
      /\ up = One(h, 0)
  BY <1>3 DEF Header, HeaderSize, Half
<1> HIDE DEF h
<1>5. /\ Available(One(h, 0)) = h.size - 0 /\ Head(One(h, 0).pieces) = h
      /\ One(h, 0).skew = 0 /\ One(h, 0).pieces # <<>>
  BY <1>4, OneFacts
<1>6. n = HeaderSize
  BY <1>4, <1>5 DEF AtMost, HeaderSize
<1>7. good /\ first = h
  BY <1>4, <1>5, <1>6 DEF AtHeader
<1>8. rest = Empty
  BY <1>4, <1>6, TakenOne DEF HeaderSize
<1>9. len = PayloadSize[r.cmd] /\ len \in Nat /\ len # 0
  BY <1>3, <1>4, <1>7, RequestType DEF Announced
<1>10. m = 0
  <2> HIDE DEF rest, len
  <2> QED BY <1>8, <1>9, EmptyFacts DEF AtMost
<1> HIDE DEF good, m, len
<1> QED BY <1>1, <1>7, <1>9, <1>10

\* handle_client_message.
LEMMA HandleMessageStep ==
  ASSUME FormInv, StepInv, NEW l \in Links, HandleMessage(l)
  PROVE  StepInv'
<1>1. /\ links[l].server = "open" /\ UNCHANGED <<connected, fd, call, calls>>
      /\ skewed' = skewed \/ skewed' = skewed \union {l}
      /\ \E rest, of, size, status, registry, pids :
           SendResponse(l, rest, of, size, status, registry, pids)
  BY Zenon DEF HandleMessage, ctx
<1>2. links[l] \in Wire /\ l \in Used /\ links \in [Links -> Wire]
  BY <1>1 DEF FormInv, Used, Links
<1>3. AnswerIsOwn'
  BY <1>1 DEF StepInv, AnswerIsOwn
<1>4. CASE ~links[l].client
  <2>1. links' = [k \in Links |-> IF links[k].server = "none" THEN links[k]
                                  ELSE [links[k] EXCEPT !.server = "closed"]]
    BY <1>1, <1>4 DEF SendResponse, Links
  <2>2. ASSUME NEW k \in Links
        PROVE  /\ links'[k].up = links[k].up /\ links'[k].down = links[k].down
               /\ links'[k].server = "none" <=> links[k].server = "none"
               /\ links[k].server = "none" => links'[k] = links[k]
    <3>1. links[k] \in Wire
      BY <1>2
    <3> DEFINE z == [links[k] EXCEPT !.server = "closed"]
    <3>2. z.up = links[k].up /\ z.down = links[k].down /\ z.server = "closed"
      BY <3>1, WireSet
    <3> HIDE DEF z
    <3>3. links'[k] = IF links[k].server = "none" THEN links[k] ELSE z
      BY <2>1 DEF z
    <3> QED BY <3>2, <3>3
  <2>3. BaseInv'
    BY <1>1, <1>2, <2>2, BaseKept DEF StepInv
  <2>4. StepNow'
    BY <1>1, <2>2, SameStep DEF StepInv
  <2> QED BY <1>3, <2>3, <2>4 DEF StepInv
<1>5. CASE links[l].client
  <2>1. PICK rest, d : links' = [links EXCEPT ![l].up = rest, ![l].down = d]
    BY <1>1, <1>5 DEF SendResponse
  <2> DEFINE x == [links[l] EXCEPT !.up = rest]
             y == [x EXCEPT !.down = d]
  <2>2. y.up = rest /\ y.down = d /\ y.server = links[l].server
    <3>1. x.up = rest /\ x.server = links[l].server /\ DOMAIN x = {"up", "down", "client", "server"}
      BY <1>2 DEF Wire
    <3> HIDE DEF x
    <3> QED BY <3>1
  <2>3. links' = [links EXCEPT ![l] = y]
    BY <1>2, <2>1
  <2> HIDE DEF x, y
  <2>4. BaseInv'
    BY <1>1, <1>2, <2>2, <2>3, BaseOnLink DEF StepInv
  <2>5. ASSUME l = fd, fd \notin skewed', connected, NEW c \in Callers, Alone(c)
        PROVE  Going(call[c], rest, d)
    <3>1. /\ call[c] \in Calling /\ call[c].request \in Requests
          /\ call[c].cmd = call[c].request.cmd
      BY <2>5, InCallForm DEF Alone
    <3>2. Going(call[c], links[l].up, links[l].down)
      BY <2>5 DEF Alone
    <3>3. links[l].up # Empty
      BY <2>5, HandlePart
    <3>4. ~(\E i \in 0..MaxCalls, r \in Requests :
              links[l].up = Half(i, r) /\ PayloadSize[r.cmd] # 0)
      BY <2>5, HandlePart
    <3>5. call[c].id \in 0..MaxCalls /\ l \notin skewed'
      BY <2>5, <3>1 DEF Calling
    <3>6. /\ call[c].at = "recv_head" /\ links[l].up = Whole(call[c].id, call[c].request)
          /\ links[l].down = Empty
      BY <2>5, <3>1, <3>2, <3>3, <3>4, <3>5 DEF Alone, Going, Calling, Places
    <3>7. PICK p \in Replies :
            /\ p.of = call[c].id /\ (call[c].request.cmd = "ListClients" => p.status = "OK")
            /\ links' = [links EXCEPT ![l].up = Empty, ![l].down = One(p, 0)]
      BY <1>5, <3>1, <3>6, <3>5, HandleWhole
    <3>8. rest = Empty /\ d = One(p, 0)
      <4> DEFINE x2 == [links[l] EXCEPT !.up = Empty]
                 y2 == [x2 EXCEPT !.down = One(p, 0)]
      <4>1. y2.up = Empty /\ y2.down = One(p, 0)
        <5>1. x2.up = Empty /\ DOMAIN x2 = {"up", "down", "client", "server"}
          BY <1>2 DEF Wire
        <5> HIDE DEF x2
        <5> QED BY <5>1
      <4>2. links'[l] = y2
        BY <1>2, <3>7
      <4>3. links'[l] = y
        BY <1>2, <2>3
      <4> HIDE DEF y2
      <4> QED BY <2>2, <4>1, <4>2, <4>3
    <3> QED BY <3>1, <3>6, <3>7, <3>8 DEF Going, Answers
  <2>6. ASSUME l = fd, fd \notin skewed', connected
        PROVE  ~Quiet
    BY <2>6, HandlePart DEF Quiet
  <2>7. StepNow'
    <3> SUFFICES ASSUME fd \notin skewed'
                 PROVE  (Quiet \/ \E c \in Callers : Alone(c))'
      BY <1>1 DEF StepNow
    <3>1. fd \notin skewed
      BY <1>1
    <3>2. CASE l = fd /\ connected
      <4>1. PICK c \in Callers : Alone(c)
        BY <2>6, <3>1, <3>2 DEF StepInv, StepNow
      <4>2. Going(call[c], rest, d)
        BY <2>5, <3>2, <4>1
      <4>3. links'[fd] = y
        BY <1>2, <2>3, <3>2
      <4>4. Alone(c)'
        BY <1>1, <2>2, <4>1, <4>2, <4>3 DEF Alone
      <4> QED BY <4>4
    <3>3. CASE l # fd \/ ~connected
      <4>1. connected => links'[fd] = links[fd]
        BY <1>2, <2>3, <3>3
      <4>2. Quiet => Quiet'
        BY <1>1, <4>1 DEF Quiet
      <4>3. \A c \in Callers : Alone(c) => Alone(c)'
        BY <1>1, <4>1 DEF Alone
      <4> QED BY <3>1, <4>2, <4>3 DEF StepInv, StepNow
    <3> QED BY <3>2, <3>3
  <2> QED BY <1>3, <2>4, <2>7 DEF StepInv
<1> QED BY <1>4, <1>5

\* Every step keeps the connection in use in step, or notes that it may not be.
LEMMA NextStep ==
  ASSUME FormInv, StepInv, [Next]_vars
  PROVE  StepInv'
<1>1. ASSUME NEW c \in Callers, CallStep(c) PROVE StepInv'
  BY <1>1, SendHeadStep, SendBodyStep, GiveUpStep, RecvHeadStep, RecvBodyStep, Zenon DEF CallStep
<1>2. CASE ServerStep
  BY <1>2, ServerEndStep, HandleMessageStep, Zenon DEF ServerStep, Links
<1>3. CASE UNCHANGED vars
  <2>1. UNCHANGED <<connected, fd, call, links, skewed>>
    BY <1>3 DEF vars, ctx
  <2>2. BaseInv'
    BY <2>1, BaseKept DEF StepInv
  <2>3. AnswerIsOwn'
    BY <2>1 DEF StepInv, AnswerIsOwn
  <2>4. StepNow'
    BY <2>1, SameStep DEF StepInv
  <2> QED BY <2>2, <2>3, <2>4 DEF StepInv
<1>4. CASE Exit
  BY <1>4, EndsStep DEF Exit
<1> QED BY <1>1, <1>2, <1>3, <1>4, ConnectStep, DisconnectStep, BeginStep DEF Next

\* Always.
LEMMA AlwaysStep == Spec => []StepInv
<1>1. FormInv /\ StepInv /\ [Next]_vars => StepInv'
  BY NextStep
<1> QED BY <1>1, InitStep, AlwaysForm, PTL DEF Spec

\* Whatever the threads do and wherever the server cuts a stream, a call that
\* succeeds on a connection that has not lost step was answered by its own
\* reply.
THEOREM OwnAnswer == Spec => []AnswerIsOwn
<1>1. StepInv => AnswerIsOwn
  BY DEF StepInv
<1> QED BY <1>1, AlwaysStep, PTL

\* Nothing else than two threads at once, a request read in part or a reply
\* refused leaves bytes on the connection between calls.
THEOREM AlwaysInStep == Spec => []InStep
<1>1. StepInv => InStep
  BY EmptyFacts DEF StepInv, StepNow, Quiet, Alone, InStep
<1> QED BY <1>1, AlwaysStep, PTL

-----------------------------------------------------------------------------
(* In which order requests are on the streams                               *)

\* t is what is left of q when its first pieces are gone.
Ends(t, q) ==
  \E g \in 0..Len(q) : Len(t) = Len(q) - g /\ \A i \in 1..Len(t) : t[i] = q[g + i]

\* What recv leaves.
LEMMA TakenEnds ==
  ASSUME NEW P, Sizes(P), NEW s \in Stream(P), NEW n \in Nat
  PROVE  Ends(Taken(s, n).pieces, s.pieces)
<1> DEFINE ps == s.pieces
<1>1. PICK g \in 0..Len(ps) :
        Taken(s, n) = [pieces |-> SubSeq(ps, g + 1, Len(ps)),
                       skew   |-> s.skew + n - Sized(SubSeq(ps, 1, g))]
  BY TakenParts, Zenon
<1>2. ps \in Seq(P)
  BY DEF Stream
<1> HIDE DEF ps
<1>3. Taken(s, n).pieces = SubSeq(ps, g + 1, Len(ps))
  BY <1>1
<1>4. /\ Len(SubSeq(ps, g + 1, Len(ps))) = Len(ps) - g
      /\ \A i \in 1..(Len(ps) - g) : SubSeq(ps, g + 1, Len(ps))[i] = ps[g + i]
  BY <1>2
<1> QED BY <1>3, <1>4 DEF Ends, ps

\* Nothing is gone; and what is left of what is left.
LEMMA EndsAgain ==
  ASSUME NEW S, NEW q \in Seq(S), NEW t \in Seq(S), NEW u \in Seq(S)
  PROVE  Ends(q, q) /\ (Ends(u, t) /\ Ends(t, q) => Ends(u, q))
<1>1. Ends(q, q)
  <2>1. 0 \in 0..Len(q) /\ Len(q) = Len(q) - 0 /\ \A i \in 1..Len(q) : q[i] = q[0 + i]
    OBVIOUS
  <2> QED BY <2>1 DEF Ends
<1>2. ASSUME Ends(u, t), Ends(t, q) PROVE Ends(u, q)
  <2>1. PICK g \in 0..Len(q) : Len(t) = Len(q) - g /\ \A i \in 1..Len(t) : t[i] = q[g + i]
    BY <1>2 DEF Ends
  <2>2. PICK h \in 0..Len(t) : Len(u) = Len(t) - h /\ \A i \in 1..Len(u) : u[i] = t[h + i]
    BY <1>2 DEF Ends
  <2>3. g + h \in 0..Len(q) /\ Len(u) = Len(q) - (g + h)
    BY <2>1, <2>2
  <2>4. ASSUME NEW i \in 1..Len(u) PROVE u[i] = q[(g + h) + i]
    <3>1. h + i \in 1..Len(t) /\ g + (h + i) = (g + h) + i
      BY <2>1, <2>2
    <3> QED BY <2>1, <2>2, <3>1
  <2> QED BY <2>3, <2>4 DEF Ends
<1> QED BY SMTT(40), <1>1, <1>2

\* Its pieces are some of the pieces.
LEMMA EndsAmong ==
  ASSUME NEW S, NEW q \in Seq(S), NEW t \in Seq(S), Ends(t, q)
  PROVE  ToSet(t) \subseteq ToSet(q)
<1>1. PICK g \in 0..Len(q) : Len(t) = Len(q) - g /\ \A i \in 1..Len(t) : t[i] = q[g + i]
  BY DEF Ends
<1>2. ASSUME NEW i \in 1..Len(t) PROVE \E j \in 1..Len(q) : t[i] = q[j]
  <2>1. g + i \in 1..Len(q)
    BY <1>1
  <2> QED BY <1>1, <2>1
<1>3. DOMAIN t = 1..Len(t) /\ DOMAIN q = 1..Len(q)
  OBVIOUS
<1> QED BY <1>2, <1>3 DEF ToSet

\* The pieces sent to the server and not wholly read, and the thread's call.
Queue(l) == links[l].up.pieces

\* One thread uses the context, as in a command of audioctl, which makes its
\* calls one after the other.
OneThread == Callers = {Caller}
Mine == call[Caller]

\* p is a header that its payload follows.
Opens(p) == p.header /\ PayloadSize[p.request.cmd] # 0

\* Pieces have bytes, and a header's payload follows it as soon as it is sent.
Framed(q) ==
  \A i \in 1..Len(q) :
    /\ q[i].size > 0 /\ (q[i].header => q[i].size = HeaderSize)
    /\ i < Len(q) /\ Opens(q[i]) => ~q[i + 1].header /\ q[i + 1].request = q[i].request

\* Each call has one header, if any; the thread's call has none before it is
\* sent; and a header whose payload is not sent yet is the thread's.
MineInv ==
  /\ Mine.at # "idle" => Mine.id = calls
  /\ Mine.at = "send_body" => PayloadSize[Mine.request.cmd] # 0

AllFramed == \A l \in Links : Framed(Queue(l))

Numbered ==
  \A l \in Links : \A i \in 1..Len(Queue(l)) :
    Queue(l)[i].header => /\ Queue(l)[i].of <= calls
                          /\ Mine.at = "send_head" => Queue(l)[i].of # calls

HeadersOnce ==
  \A k, l \in Links : \A i \in 1..Len(Queue(k)), j \in 1..Len(Queue(l)) :
    Queue(k)[i].header /\ Queue(l)[j].header /\ Queue(k)[i].of = Queue(l)[j].of
      => k = l /\ i = j

LastOpens ==
  \A l \in Links : fd = l /\ Len(Queue(l)) > 0 /\ Opens(Queue(l)[Len(Queue(l))])
    => Mine.at = "send_body" /\ Queue(l)[Len(Queue(l))].request = Mine.request

OrderInv == MineInv /\ AllFramed /\ Numbered /\ HeadersOnce /\ LastOpens

\* What a stream to the server is.
LEMMA QueueType ==
  ASSUME FormInv, NEW l \in Links
  PROVE  /\ links[l] \in Wire /\ links[l].up \in Flow(UpPieces)
         /\ links[l].up \in Stream(UpPieces) /\ Queue(l) \in Seq(UpPieces)
         /\ links[l].down \in Stream(Pieces) /\ links[l].down.pieces \in Seq(Pieces)
<1>1. links[l] \in Wire
  BY DEF FormInv
<1>2. links[l].up \in Flow(UpPieces) /\ links[l].down \in Flow(Pieces)
  <2> DEFINE U == Flow(UpPieces)  D == Flow(Pieces)
  <2>1. links[l] \in [up : U, down : D, client : BOOLEAN, server : {"none", "queued", "open", "closed"}]
    BY <1>1 DEF Wire
  <2> HIDE DEF U, D
  <2> QED BY <2>1 DEF U, D
<1> QED BY <1>1, <1>2 DEF Flow, Stream, Queue

\* The one thread.
LEMMA Thread ==
  ASSUME OneThread, FormInv
  PROVE  /\ Caller \in Callers /\ \A c \in Callers : c = Caller
         /\ Mine \in Calling
         /\ Mine.at # "idle" => Mine.request \in Requests /\ Mine.cmd = Mine.request.cmd
BY DEF OneThread, FormInv, Mine

\* At first no stream carries anything.
LEMMA InitOrder ==
  ASSUME OneThread, Init
  PROVE  OrderInv
<1>1. Mine.at = "idle" /\ fd = 0
  BY NoCallFacts DEF Init, OneThread, Mine
<1>2. ASSUME NEW l \in Links PROVE Len(Queue(l)) = 0
  <2>1. Queue(l) = <<>>
    BY DEF Init, Links, Unused, Empty, Queue
  <2> QED BY <2>1
<1>3. \A l \in Links : 1..Len(Queue(l)) = {}
  BY <1>2
<1> QED BY <1>1, <1>2, <1>3 DEF OrderInv, MineInv, AllFramed, Numbered, HeadersOnce, LastOpens, Framed

\* A framed stream is framed to its end.
LEMMA FramedEnds ==
  ASSUME NEW S, NEW q \in Seq(S), NEW t \in Seq(S), Ends(t, q), Framed(q)
  PROVE  Framed(t)
<1>1. PICK g \in 0..Len(q) : Len(t) = Len(q) - g /\ \A i \in 1..Len(t) : t[i] = q[g + i]
  BY DEF Ends
<1>2. ASSUME NEW i \in 1..Len(t)
      PROVE  /\ t[i].size > 0 /\ (t[i].header => t[i].size = HeaderSize)
             /\ i < Len(t) /\ Opens(t[i]) => ~t[i + 1].header /\ t[i + 1].request = t[i].request
  <2>1. g + i \in 1..Len(q) /\ t[i] = q[g + i]
    BY <1>1
  <2>2. ASSUME i < Len(t)
        PROVE  g + i < Len(q) /\ t[i + 1] = q[(g + i) + 1]
    <3>1. i + 1 \in 1..Len(t) /\ g + (i + 1) = (g + i) + 1
      BY <2>2
    <3> QED BY <1>1, <2>2, <3>1
  <2> QED BY <2>1, <2>2 DEF Framed
<1> QED BY <1>2 DEF Framed

\* Steps that read the streams, and send nothing to the server.
LEMMA OrderKept ==
  ASSUME OneThread, FormInv, FormInv', OrderInv, calls' = calls,
         \A l \in Links : Ends(Queue(l)', Queue(l)),
         Mine'.at # "idle" => Mine'.id = calls,
         Mine'.at = "send_body" => PayloadSize[Mine'.request.cmd] # 0,
         Mine'.at = "send_head" => Mine.at = "send_head",
         \A l \in Links : fd' = l /\ Len(Queue(l)') > 0 =>
           /\ fd = l
           /\ Mine.at = "send_body" => Mine'.at = "send_body" /\ Mine'.request = Mine.request
  PROVE  OrderInv'
<1> DEFINE Was(l) == Queue(l)  Is(l) == Queue(l)'
<1>1. \A l \in Links : Was(l) \in Seq(UpPieces) /\ Is(l) \in Seq(UpPieces)
  BY QueueType DEF Queue, FormInv, Wire, Flow, Stream
<1>2. ASSUME NEW l \in Links
      PROVE  \E g \in 0..Len(Was(l)) : /\ Len(Is(l)) = Len(Was(l)) - g
                                       /\ \A i \in 1..Len(Is(l)) : Is(l)[i] = Was(l)[g + i]
  BY DEF Ends
<1>3. PICK G \in [Links -> Nat] :
        \A l \in Links : /\ G[l] \in 0..Len(Was(l)) /\ Len(Is(l)) = Len(Was(l)) - G[l]
                         /\ \A i \in 1..Len(Is(l)) : /\ Is(l)[i] = Was(l)[G[l] + i]
                                                     /\ G[l] + i \in 1..Len(Was(l))
  <2> DEFINE Good(l, g) == /\ Len(Is(l)) = Len(Was(l)) - g
                           /\ \A i \in 1..Len(Is(l)) : Is(l)[i] = Was(l)[g + i]
             C(l) == CHOOSE g \in 0..Len(Was(l)) : Good(l, g)
             H == [l \in Links |-> C(l)]
  <2>1. ASSUME NEW l \in Links PROVE C(l) \in 0..Len(Was(l)) /\ Good(l, C(l))
    <3>1. \E g \in 0..Len(Was(l)) : Good(l, g)
      BY <1>2
    <3> HIDE DEF Good
    <3> QED BY <3>1
  <2>2. \A l \in Links : Len(Was(l)) \in Nat
    BY <1>1
  <2> HIDE DEF C, Was, Is
  <2>3. H \in [Links -> Nat] /\ \A l \in Links : H[l] = C(l)
    BY <2>1, <2>2
  <2> HIDE DEF H
  <2>4. ASSUME NEW l \in Links, NEW i \in 1..Len(Is(l)) PROVE H[l] + i \in 1..Len(Was(l))
    BY <2>1, <2>2, <2>3
  <2> QED BY <2>1, <2>3, <2>4
<1> HIDE DEF Was, Is
<1>4. \A l \in Links : Framed(Is(l))
  <2> TAKE l \in Links
  <2>1. Ends(Is(l), Was(l)) /\ Framed(Was(l))
    BY DEF OrderInv, AllFramed, Was, Is
  <2> QED BY <1>1, <2>1, FramedEnds
<1>5. \A l \in Links : \A i \in 1..Len(Is(l)) :
        Is(l)[i].header => Is(l)[i].of <= calls /\ (Mine'.at = "send_head" => Is(l)[i].of # calls)
  BY SMTT(40), <1>3 DEF OrderInv, Numbered, Was
<1>6. \A k, l \in Links : \A i \in 1..Len(Is(k)), j \in 1..Len(Is(l)) :
        Is(k)[i].header /\ Is(l)[j].header /\ Is(k)[i].of = Is(l)[j].of => k = l /\ i = j
  <2> TAKE k, l \in Links
  <2> TAKE i \in 1..Len(Is(k)), j \in 1..Len(Is(l))
  <2> HAVE Is(k)[i].header /\ Is(l)[j].header /\ Is(k)[i].of = Is(l)[j].of
  <2>1. /\ Is(k)[i] = Was(k)[G[k] + i] /\ G[k] + i \in 1..Len(Was(k))
        /\ Is(l)[j] = Was(l)[G[l] + j] /\ G[l] + j \in 1..Len(Was(l))
    BY <1>3
  <2> DEFINE a == G[k] + i
             b == G[l] + j
  <2>2. /\ a \in 1..Len(Was(k)) /\ b \in 1..Len(Was(l))
        /\ Was(k)[a].header /\ Was(l)[b].header /\ Was(k)[a].of = Was(l)[b].of
    BY <2>1
  <2> HIDE DEF a, b
  <2>0. \A x, y \in Links : \A m \in 1..Len(Was(x)), n \in 1..Len(Was(y)) :
          Was(x)[m].header /\ Was(y)[n].header /\ Was(x)[m].of = Was(y)[n].of => x = y /\ m = n
    BY Zenon DEF OrderInv, HeadersOnce, Was
  <2>3. k = l /\ a = b
    BY <2>0, <2>2
  <2>4. G[k] \in Nat /\ i \in Nat /\ j \in Nat
    BY <1>1
  <2> QED BY <2>3, <2>4 DEF a, b
<1>7. ASSUME NEW l \in Links, fd' = l, Len(Is(l)) > 0, Opens(Is(l)[Len(Is(l))])
      PROVE  Mine'.at = "send_body" /\ Is(l)[Len(Is(l))].request = Mine'.request
  <2>1. /\ fd = l
        /\ Mine.at = "send_body" => Mine'.at = "send_body" /\ Mine'.request = Mine.request
    BY <1>7 DEF Is
  <2>3. /\ Len(Was(l)) > 0 /\ Is(l)[Len(Is(l))] = Was(l)[Len(Was(l))]
    <3>1. Len(Is(l)) \in Nat /\ Len(Was(l)) \in Nat /\ Len(Is(l)) > 0
      BY <1>1, <1>7
    <3>2. Len(Is(l)) \in 1..Len(Is(l))
      BY <3>1
    <3>3. G[l] + Len(Is(l)) = Len(Was(l)) /\ G[l] \in Nat
      BY <1>3, <3>1
    <3> QED BY <1>3, <3>1, <3>2, <3>3
  <2>4. Opens(Was(l)[Len(Was(l))])
    BY <1>7, <2>3
  <2>5. Mine.at = "send_body" /\ Was(l)[Len(Was(l))].request = Mine.request
    BY <2>1, <2>3, <2>4 DEF OrderInv, LastOpens, Was
  <2> QED BY <2>1, <2>3, <2>5
<1>8. MineInv'
  BY DEF MineInv
<1>9. AllFramed'
  BY <1>4 DEF AllFramed, Framed, Opens, Is
<1>10. Numbered'
  BY <1>5 DEF Numbered, Is
<1>11. HeadersOnce'
  BY <1>6, Zenon DEF HeadersOnce, Is
<1>12. LastOpens'
  BY <1>7, Zenon DEF LastOpens, Opens, Is
<1> QED BY <1>8, <1>9, <1>10, <1>11, <1>12 DEF OrderInv

\* recv of a header that a stream begins with leaves what follows it.
LEMMA HeaderTaken ==
  ASSUME NEW s \in Stream(UpPieces), Framed(s.pieces), AtHeader(s)
  PROVE  LET t == Taken(s, HeaderSize) IN
         /\ t.skew = 0 /\ Len(t.pieces) = Len(s.pieces) - 1
         /\ \A i \in 1..Len(t.pieces) : t.pieces[i] = s.pieces[1 + i]
<1> DEFINE ps == s.pieces
<1>1. /\ ps \in Seq(UpPieces) /\ Len(ps) \in Nat /\ Len(ps) > 0 /\ s.skew = 0 /\ Head(ps) = ps[1]
      /\ ps[1].header /\ ps[1].size = 16 /\ ps[1] \in UpPieces
      /\ \A i \in 1..Len(ps) : ps[i] \in UpPieces /\ ps[i].size \in Nat /\ ps[i].size > 0
  <2>1. ps \in Seq(UpPieces) /\ ps # <<>> /\ s.skew = 0 /\ Head(ps).header
    BY DEF Stream, AtHeader
  <2> HIDE DEF ps
  <2>2. Len(ps) \in Nat /\ Len(ps) > 0 /\ Head(ps) = ps[1] /\ 1 \in 1..Len(ps)
    BY <2>1
  <2>3. \A i \in 1..Len(ps) : ps[i] \in UpPieces
    BY <2>1
  <2>4. \A i \in 1..Len(ps) : ps[i].size > 0 /\ (ps[i].header => ps[i].size = HeaderSize)
    <3>1. Framed(ps)
      BY DEF ps
    <3> QED BY <3>1 DEF Framed
  <2>5. \A p \in UpPieces : p.size \in Nat
    BY DEF UpPieces
  <2>6. ps[1].header /\ ps[1].size = HeaderSize
    BY <2>1, <2>2, <2>4
  <2> QED BY <2>1, <2>2, <2>3, <2>4, <2>5, <2>6 DEF HeaderSize
<1>2. PICK g \in 0..Len(ps) :
        /\ Sized(SubSeq(ps, 1, g)) <= s.skew + HeaderSize
        /\ \A k \in 0..Len(ps) : Sized(SubSeq(ps, 1, k)) <= s.skew + HeaderSize => k <= g
        /\ Taken(s, HeaderSize) = [pieces |-> SubSeq(ps, g + 1, Len(ps)),
                                   skew   |-> s.skew + HeaderSize - Sized(SubSeq(ps, 1, g))]
  <2>1. HeaderSize \in Nat
    BY DEF HeaderSize
  <2> QED BY <2>1, BothSizes, TakenParts, Zenon
<1> HIDE DEF ps
<1>3. Sized(SubSeq(ps, 1, 1)) = 16
  <2>1. SubSeq(ps, 1, 1) = <<ps[1]>>
    <3> DEFINE a == SubSeq(ps, 1, 1)
    <3>1. a \in Seq(UpPieces) /\ Len(a) = 1 /\ a[1] = ps[1]
      BY <1>1
    <3> HIDE DEF a
    <3>2. a = <<ps[1]>>
      BY <3>1
    <3> QED BY <3>2 DEF a
  <2>2. ps[1].size \in Nat
    BY <1>1
  <2> QED BY <1>1, <2>1, <2>2, SizedOne
<1>4. g >= 1
  BY <1>1, <1>2, <1>3 DEF HeaderSize
<1>5. ~(g >= 2)
  <2> SUFFICES ASSUME g >= 2 PROVE FALSE
    OBVIOUS
  <2> DEFINE t == SubSeq(ps, 1, g)
             two == SubSeq(ps, 1, 2)
  <2>1. t \in Seq(UpPieces) /\ Len(t) = g /\ \A i \in 1..g : t[i] = ps[i]
    BY <1>1
  <2> HIDE DEF t
  <2>2. SubSeq(t, 1, 2) = <<ps[1], ps[2]>>
    <3> DEFINE a == SubSeq(t, 1, 2)
    <3>1. a \in Seq(UpPieces) /\ Len(a) = 2 /\ a[1] = ps[1] /\ a[2] = ps[2]
      BY <1>1, <2>1
    <3> HIDE DEF a
    <3>2. a = <<ps[1], ps[2]>>
      BY <3>1
    <3> QED BY <3>2 DEF a
  <2>3. Sized(SubSeq(t, 1, 2)) = ps[1].size + ps[2].size
    <3>1. ps[1].size \in Nat /\ ps[2].size \in Nat
      BY <1>1
    <3> QED BY <2>2, <3>1, SizedTwo
  <2>4. SubSeq(t, 2 + 1, Len(t)) \in Seq(UpPieces)
    BY <2>1
  <2>5. /\ Sized(SubSeq(t, 2 + 1, Len(t))) = Sized(t) - Sized(SubSeq(t, 1, 2))
        /\ Sized(t) \in Nat
    <3>1. 2 \in 0..Len(t)
      BY <2>1
    <3> QED BY <2>1, <3>1, BothSizes, SizedFacts, Zenon
  <2>6. Sized(SubSeq(t, 2 + 1, Len(t))) \in Nat
    BY <2>4, BothSizes, SizedFacts, Zenon
  <2>7. Sized(t) <= 16 /\ ps[2].size \in Nat /\ ps[2].size > 0
    BY <1>1, <1>2 DEF HeaderSize, t
  <2> QED BY <1>1, <2>3, <2>5, <2>6, <2>7
<1>6. g = 1
  BY <1>4, <1>5
<1>7. Taken(s, HeaderSize) = [pieces |-> SubSeq(ps, 2, Len(ps)), skew |-> 0]
  BY <1>1, <1>2, <1>3, <1>6 DEF HeaderSize
<1>8. /\ Len(SubSeq(ps, 2, Len(ps))) = Len(ps) - 1
      /\ \A i \in 1..(Len(ps) - 1) : SubSeq(ps, 2, Len(ps))[i] = ps[1 + i]
  <2> DEFINE n == Len(ps)
  <2>1. ps \in Seq(UpPieces) /\ n \in Nat /\ n > 0 /\ n = Len(ps)
    BY <1>1
  <2>2. Len(SubSeq(ps, 2, n)) = n - 1 /\ \A i \in 1..(n - 1) : SubSeq(ps, 2, n)[i] = ps[1 + i]
    <3> HIDE DEF n
    <3> QED BY <2>1
  <2> QED BY <2>2
<1> QED BY <1>7, <1>8 DEF ps

-----------------------------------------------------------------------------
(* The order of the requests is kept                                        *)

\* The thread that calls, and its next state.
LEMMA ItIsMine ==
  ASSUME OneThread, FormInv, NEW c \in Callers
  PROVE  /\ c = Caller /\ call[c] = Mine
         /\ \A x : call' = [call EXCEPT ![c] = x] => Mine' = x
BY DEF OneThread, FormInv, Mine

\* A step that leaves the streams to the server as they are.
LEMMA SameQueues ==
  ASSUME FormInv, \A l \in Links : links'[l].up = links[l].up
  PROVE  \A l \in Links : Ends(Queue(l)', Queue(l)) /\ Queue(l)' = Queue(l)
<1> TAKE l \in Links
<1>1. Queue(l)' = Queue(l)
  BY DEF Queue
<1>2. Ends(Queue(l), Queue(l))
  BY QueueType, EndsAgain
<1> QED BY <1>1, <1>2

\* A process that ends: what became of the links.
LEMMA EndsDoes ==
  ASSUME OneThread, FormInv, ProcessEnds
  PROVE  /\ \A l \in Links : /\ links'[l].up = links[l].up /\ links'[l].down = links[l].down
                             /\ links'[l].server = links[l].server
         /\ Mine' = NoCall /\ fd' = 0 /\ UNCHANGED <<calls, alive, clients, skewed>>
<1>1. ASSUME NEW l \in Links
      PROVE  /\ links'[l].up = links[l].up /\ links'[l].down = links[l].down
             /\ links'[l].server = links[l].server
  <2>1. links'[l] = [links[l] EXCEPT !.client = FALSE] /\ links[l] \in Wire
    BY DEF ProcessEnds, Links, FormInv
  <2> QED BY <2>1, WireSet
<1>2. Mine' = NoCall
  BY DEF ProcessEnds, Mine, OneThread
<1> QED BY <1>1, <1>2 DEF ProcessEnds

\* What it does to the order.
LEMMA EndsOrder ==
  ASSUME OneThread, FormInv, FormInv', OrderInv, ProcessEnds
  PROVE  OrderInv'
<1>1. \A l \in Links : Ends(Queue(l)', Queue(l))
  BY EndsDoes, SameQueues
<1>2. Mine'.at = "idle" /\ fd' = 0 /\ calls' = calls /\ \A l \in Links : fd' # l
  BY EndsDoes, NoCallFacts DEF Links
<1> QED BY <1>1, <1>2, OrderKept

\* Connecting: the new connection carries nothing.
LEMMA ConnectDoes ==
  ASSUME OneThread, FormInv, StepInv, Connect
  PROVE  /\ \A l \in Links : /\ links'[l].up = links[l].up /\ links'[l].down = links[l].down
                             /\ links'[l].server = "closed" <=> links[l].server = "closed"
         /\ \A l \in Links : fd' = l => links[l].up = Empty
         /\ fd' \notin skewed /\ Mine' = Mine /\ Mine.at = "idle"
         /\ UNCHANGED <<calls, alive, clients, skewed>>
<1>1. /\ fd' = IF alive THEN Cardinality(Used) + 1 ELSE 0
      /\ links' = IF alive
                  THEN [links EXCEPT ![fd'] = [@ EXCEPT !.client = TRUE, !.server = "queued"]]
                  ELSE links
      /\ UNCHANGED <<call, calls, alive, clients, skewed>>
      /\ \A c \in Callers : call[c].at = "idle"
      /\ Cardinality(Used) < MaxConns
  BY Zenon DEF Connect
<1>2. Mine' = Mine /\ Mine.at = "idle"
  BY <1>1, Thread DEF Mine
<1>3. 0 \notin Links /\ skewed \subseteq Links
  BY DEF Links, FormInv
<1>4. CASE ~alive
  BY <1>1, <1>2, <1>3, <1>4
<1>5. CASE alive
  <2>1. PICK n \in 0..MaxConns : Used = 1..n
    BY DEF StepInv, BaseInv
  <2>2. Cardinality(Used) = n /\ n \in Nat /\ n < MaxConns
    <3>1. Cardinality(1..n) = IF 1 > n THEN 0 ELSE n - 1 + 1
      BY FS_Interval
    <3>2. n \in Nat
      BY Bounds
    <3> QED BY <1>1, <2>1, <3>1, <3>2, Bounds
  <2> PICK m \in Links : m = fd'
    BY <1>1, <1>5, <2>2, Bounds DEF Links
  <2>3. m \notin Used /\ links[m] = Unused
    <3>1. m \notin Used
      BY <1>1, <1>5, <2>1, <2>2
    <3> QED BY <3>1 DEF Used, Links, StepInv, BaseInv
  <2> DEFINE x == [links[m] EXCEPT !.client = TRUE]
             y == [x EXCEPT !.server = "queued"]
  <2>4. links' = [links EXCEPT ![m] = y]
    BY <1>1, <1>5
  <2>5. links[m] \in Wire
    BY DEF FormInv
  <2>6. x \in Wire /\ x.up = links[m].up /\ x.down = links[m].down
    <3>1. x \in Wire
      BY <2>5, WireParts
    <3>2. x.up = links[m].up /\ x.down = links[m].down
      BY <2>5, WireSet
    <3> QED BY <3>1, <3>2
  <2> HIDE DEF x
  <2>7. y.up = links[m].up /\ y.down = links[m].down /\ y.server = "queued"
    BY <2>6, WireSet
  <2> HIDE DEF y
  <2>8. links'[m] = y /\ \A l \in Links : l # m => links'[l] = links[l]
    BY <2>4 DEF FormInv
  <2>9. links[m].server = "none" /\ links[m].up = Empty
    BY <2>3 DEF Unused
  <2>10. fd' \notin skewed
    BY <2>3 DEF StepInv, BaseInv
  <2> QED BY <1>1, <1>2, <2>7, <2>8, <2>9, <2>10
<1> QED BY <1>4, <1>5

\* Disconnecting leaves the streams.
LEMMA DisconnectDoes ==
  ASSUME OneThread, FormInv, Disconnect
  PROVE  /\ \A l \in Links : /\ links'[l].up = links[l].up /\ links'[l].down = links[l].down
                             /\ links'[l].server = links[l].server
         /\ fd' = 0 /\ Mine' = Mine /\ Mine.at = "idle"
         /\ UNCHANGED <<calls, alive, clients, skewed>>
<1>1. /\ \A c \in Callers : call[c].at = "idle"
      /\ fd' = 0 /\ UNCHANGED <<call, calls, alive, clients, skewed>>
      /\ fd # 0 /\ links' = [links EXCEPT ![fd].client = FALSE]
  BY DEF Disconnect
<1> PICK m \in Links : m = fd
  BY <1>1, Bounds DEF FormInv, Links
<1> DEFINE y == [links[m] EXCEPT !.client = FALSE]
<1>2. links' = [links EXCEPT ![m] = y] /\ links[m] \in Wire
  BY <1>1 DEF FormInv
<1>3. y.up = links[m].up /\ y.down = links[m].down /\ y.server = links[m].server
  BY <1>2, WireSet
<1> HIDE DEF y
<1>4. links'[m] = y /\ \A l \in Links : l # m => links'[l] = links[l]
  BY <1>2 DEF FormInv
<1>5. Mine' = Mine /\ Mine.at = "idle"
  BY <1>1, Thread DEF Mine
<1> QED BY <1>1, <1>3, <1>4, <1>5

\* The order through both.
LEMMA ConnectOrder ==
  ASSUME OneThread, FormInv, FormInv', StepInv, OrderInv, Connect \/ Disconnect
  PROVE  OrderInv'
<1>1. /\ \A l \in Links : links'[l].up = links[l].up
      /\ \A l \in Links : fd' = l => links[l].up = Empty
      /\ Mine' = Mine /\ Mine.at = "idle" /\ calls' = calls
  <2>1. CASE Connect
    BY <2>1, ConnectDoes, Zenon
  <2>2. CASE Disconnect
    <3>1. 0 \notin Links
      BY DEF Links
    <3> QED BY <2>2, <3>1, DisconnectDoes
  <2> QED BY <2>1, <2>2
<1>2. \A l \in Links : Ends(Queue(l)', Queue(l)) /\ Queue(l)' = Queue(l)
  BY <1>1, SameQueues
<1>3. ASSUME NEW l \in Links, fd' = l, Len(Queue(l)') > 0 PROVE FALSE
  <2>1. Queue(l)' = <<>>
    BY <1>1, <1>2, <1>3 DEF Queue, Empty
  <2> QED BY <1>3, <2>1
<1> QED BY <1>1, <1>2, <1>3, OrderKept

\* An operation begins: nothing is sent yet, and its number is new.
LEMMA BeginDoes ==
  ASSUME OneThread, FormInv, NEW c \in Callers, NEW r \in Requests, Begin(c, r)
  PROVE  /\ Mine.at = "idle" /\ Mine'.at = "send_head" /\ Mine'.id = calls + 1 /\ Mine'.request = r
         /\ calls' = calls + 1 /\ UNCHANGED <<connected, fd, links, alive, clients, skewed>>
<1> DEFINE x == [NoCall EXCEPT !.at = "send_head", !.id = calls + 1, !.cmd = r.cmd, !.request = r]
<1>1. /\ call' = [call EXCEPT ![c] = x] /\ calls' = calls + 1 /\ call[c].at = "idle"
      /\ skewed' = IF \A d \in Callers : call[d].at = "idle" THEN skewed ELSE skewed \union {fd}
      /\ UNCHANGED <<connected, fd, links, alive, clients>>
  BY Zenon DEF Begin, ctx
<1>2. x.at = "send_head" /\ x.id = calls + 1 /\ x.request = r
  BY DEF NoCall
<1> HIDE DEF x
<1>3. Mine' = x /\ Mine.at = "idle"
  BY <1>1, ItIsMine, Zenon
<1>4. \A d \in Callers : call[d].at = "idle"
  BY <1>1, Thread
<1> QED BY <1>1, <1>2, <1>3, <1>4

\* The order through it.
LEMMA BeginOrder ==
  ASSUME OneThread, FormInv, FormInv', OrderInv, NEW c \in Callers, NEW r \in Requests, Begin(c, r)
  PROVE  OrderInv'
<1>1. /\ Mine.at = "idle" /\ Mine'.at = "send_head" /\ Mine'.id = calls + 1
      /\ calls' = calls + 1 /\ fd' = fd /\ links' = links
  BY BeginDoes
<1> DEFINE Was(l) == Queue(l)
<1>2. \A l \in Links : Queue(l)' = Was(l)
  BY <1>1 DEF Queue
<1>3. ASSUME NEW l \in Links, NEW i \in 1..Len(Was(l)), Was(l)[i].header
      PROVE  Was(l)[i].of <= calls /\ Was(l)[i].of \in Nat /\ calls \in Nat
  <2>1. Was(l)[i].of <= calls
    BY <1>3 DEF OrderInv, Numbered
  <2>2. Was(l) \in Seq(UpPieces)
    BY QueueType
  <2>3. \A p \in UpPieces : p.of \in Nat
    BY Bounds DEF UpPieces
  <2>4. calls \in Nat
    BY Bounds DEF FormInv
  <2> HIDE DEF Was
  <2> QED BY <2>1, <2>2, <2>3, <2>4
<1>4. Numbered'
  <2>1. \A l \in Links : \A i \in 1..Len(Was(l)) :
          Was(l)[i].header => Was(l)[i].of <= calls' /\ (Mine'.at = "send_head" => Was(l)[i].of # calls')
    <3> HIDE DEF Was
    <3> QED BY <1>1, <1>3
  <2> HIDE DEF Was
  <2> QED BY <1>2, <2>1 DEF Numbered
<1>5. MineInv'
  BY <1>1 DEF MineInv
<1>6. AllFramed'
  <2>1. \A l \in Links : Framed(Was(l))
    BY DEF OrderInv, AllFramed
  <2> HIDE DEF Was
  <2> QED BY <1>2, <2>1 DEF AllFramed, Framed, Opens
<1>7. HeadersOnce'
  <2>1. \A k, l \in Links : \A i \in 1..Len(Was(k)), j \in 1..Len(Was(l)) :
          Was(k)[i].header /\ Was(l)[j].header /\ Was(k)[i].of = Was(l)[j].of => k = l /\ i = j
    BY Zenon DEF OrderInv, HeadersOnce
  <2> DEFINE Is(l) == Queue(l)'
  <2>2. \A l \in Links : Is(l) = Was(l)
    BY <1>2
  <2> HIDE DEF Was, Is
  <2>3. \A k, l \in Links : \A i \in 1..Len(Is(k)), j \in 1..Len(Is(l)) :
          Is(k)[i].header /\ Is(l)[j].header /\ Is(k)[i].of = Is(l)[j].of => k = l /\ i = j
    BY <2>1, <2>2
  <2> QED BY <2>3, Zenon DEF HeadersOnce, Is
<1>8. LastOpens'
  <2>1. ASSUME NEW l \in Links, fd = l, Len(Was(l)) > 0, Opens(Was(l)[Len(Was(l))])
        PROVE  FALSE
    BY <1>1, <2>1 DEF OrderInv, LastOpens
  <2> HIDE DEF Was
  <2> QED BY <1>1, <1>2, <2>1 DEF LastOpens, Opens
<1> QED BY <1>4, <1>5, <1>6, <1>7, <1>8 DEF OrderInv

\* One of the two sends, on a connection the server has not left.
LEMMA SentDoes ==
  ASSUME OneThread, FormInv, Mine.at # "idle", NEW p \in UpPieces, NEW next, NEW c \in Callers,
         Send(p, next, c), links[fd].server # "closed"
  PROVE  \E l \in Links :
           /\ l = fd /\ links'[l].up = Put(links[l].up, p) /\ Queue(l)' = Append(Queue(l), p)
           /\ links'[l].down = links[l].down /\ links'[l].server = links[l].server
           /\ \A k \in Links : k # l => links'[k] = links[k]
           /\ Mine'.at = next /\ Mine'.id = Mine.id /\ Mine'.request = Mine.request
           /\ UNCHANGED <<connected, fd, calls, alive, clients, skewed>>
<1>1. call[c] = Mine /\ c = Caller
  BY ItIsMine
<1>2. fd \in Links /\ links[fd] \in Wire /\ Mine \in Calling
  BY <1>1, InCallForm
<1> PICK l \in Links : l = fd
  BY <1>2
<1> DEFINE x == [Mine EXCEPT !.at = next]
           y == [links[l] EXCEPT !.up = Put(links[l].up, p)]
<1>3. /\ links' = [links EXCEPT ![l] = y] /\ call' = [call EXCEPT ![c] = x]
      /\ UNCHANGED <<connected, fd, calls, alive, clients, skewed>>
  BY <1>1 DEF Send, ctx
<1>4. x.at = next /\ x.id = Mine.id /\ x.request = Mine.request
  BY <1>2 DEF Calling
<1>5. y.up = Put(links[l].up, p) /\ y.down = links[l].down /\ y.server = links[l].server
  BY <1>2, WireSet
<1> HIDE DEF x, y
<1>6. Mine' = x
  BY <1>3, ItIsMine, Zenon
<1>7. links'[l] = y /\ \A k \in Links : k # l => links'[k] = links[k]
  BY <1>3 DEF FormInv
<1>8. Queue(l)' = Append(Queue(l), p)
  <2>1. links[l].up \in Stream(UpPieces)
    BY QueueType
  <2>2. Put(links[l].up, p).pieces = Append(links[l].up.pieces, p)
    <3> DEFINE u == links[l].up
    <3>1. u \in [pieces : Seq(UpPieces), skew : Nat]
      BY <2>1 DEF Stream
    <3> HIDE DEF u
    <3>2. Put(u, p).pieces = Append(u.pieces, p)
      BY <3>1 DEF Put
    <3> QED BY <3>2 DEF u
  <2> QED BY <1>5, <1>7, <2>2 DEF Queue
<1> QED BY <1>3, <1>4, <1>5, <1>6, <1>7, <1>8

\* What the order of the pieces needs of it.
LEMMA SentBehind ==
  ASSUME OneThread, FormInv, Mine.at # "idle", NEW p \in UpPieces, NEW next, NEW c \in Callers,
         Send(p, next, c), links[fd].server # "closed"
  PROVE  \E l \in Links :
           /\ l = fd /\ Queue(l)' = Append(Queue(l), p)
           /\ \A k \in Links : k # l => links'[k] = links[k]
           /\ Mine'.at = next /\ Mine'.id = Mine.id /\ Mine'.request = Mine.request
           /\ UNCHANGED <<fd, calls>>
BY SentDoes

\* And what the abstract step needs of it.
LEMMA SentApart ==
  ASSUME OneThread, FormInv, Mine.at # "idle", NEW p \in UpPieces, NEW next, NEW c \in Callers,
         Send(p, next, c), links[fd].server # "closed"
  PROVE  \E l \in Links :
           /\ l = fd /\ Queue(l)' = Append(Queue(l), p)
           /\ links'[l].down = links[l].down /\ links'[l].server = links[l].server
           /\ \A k \in Links : k # l => links'[k] = links[k]
           /\ Mine'.at = next
           /\ UNCHANGED <<fd, calls, alive, clients, skewed>>
BY SentDoes

\* A piece sent goes behind the others.
LEMMA QueueGrows ==
  ASSUME FormInv, NEW l \in Links, NEW p \in UpPieces, Queue(l)' = Append(Queue(l), p)
  PROVE  /\ Len(Queue(l)) \in Nat /\ Len(Queue(l)') = Len(Queue(l)) + 1
         /\ Queue(l)'[Len(Queue(l)) + 1] = p
         /\ \A i \in 1..Len(Queue(l)) : Queue(l)'[i] = Queue(l)[i]
<1> DEFINE q == Queue(l)
<1>1. q \in Seq(UpPieces)
  BY QueueType
<1> HIDE DEF q
<1>2. Len(q) \in Nat /\ Len(Append(q, p)) = Len(q) + 1 /\ Append(q, p)[Len(q) + 1] = p
  BY <1>1, AppendProperties
<1>3. \A i \in 1..Len(q) : Append(q, p)[i] = q[i]
  BY <1>1, AppendKeeps, Zenon
<1> QED BY <1>2, <1>3 DEF q

\* A header is sent, the first with its number; the last piece on the stream
\* was not a header that waits for its payload.
LEMMA HeaderOrder ==
  ASSUME OneThread, FormInv, FormInv', OrderInv, Mine.at = "send_head", NEW p \in UpPieces,
         p.header, p.of = Mine.id, p.request = Mine.request, p.size = HeaderSize,
         NEW l \in Links, l = fd, Queue(l)' = Append(Queue(l), p),
         \A k \in Links : k # l => links'[k] = links[k],
         Mine'.at = IF PayloadSize[Mine.request.cmd] > 0 THEN "send_body" ELSE "recv_head",
         Mine'.id = Mine.id, Mine'.request = Mine.request, calls' = calls, fd' = fd
  PROVE  OrderInv'
<1> DEFINE Was(k) == Queue(k)  Is(k) == Queue(k)'  n == Len(Was(l))
<1>1. /\ n \in Nat /\ Len(Is(l)) = n + 1 /\ Is(l)[n + 1] = p
      /\ \A i \in 1..n : Is(l)[i] = Was(l)[i]
  BY QueueGrows
<1>2. \A k \in Links : k # l => Is(k) = Was(k)
  BY DEF Queue
<1>3. Mine.id = calls /\ PayloadSize[Mine.request.cmd] \in Nat /\ calls \in Nat
  BY Thread, RequestType, Bounds DEF OrderInv, MineInv, FormInv
<1>4. \A k \in Links : Was(k) \in Seq(UpPieces) /\ Is(k) \in Seq(UpPieces) /\ Len(Was(k)) \in Nat
  <2> TAKE k \in Links
  <2>1. Was(k) \in Seq(UpPieces) /\ Is(k) \in Seq(UpPieces)
    BY QueueType DEF Queue, FormInv, Wire, Flow, Stream
  <2> HIDE DEF Was, Is
  <2> QED BY <2>1
<1> HIDE DEF Was, Is
<1>5. \A k \in Links : Framed(Was(k))
  BY DEF OrderInv, AllFramed, Was
<1>6. \A k \in Links : \A i \in 1..Len(Was(k)) :
        Was(k)[i].header => Was(k)[i].of <= calls /\ Was(k)[i].of # calls
  BY DEF OrderInv, Numbered, Was
<1>7. ~(n > 0 /\ Opens(Was(l)[n]))
  BY DEF OrderInv, LastOpens, Was
<1>8. AllFramed'
  <2>1. Framed(Is(l))
    <3> SUFFICES ASSUME NEW i \in 1..Len(Is(l))
                 PROVE  /\ Is(l)[i].size > 0 /\ (Is(l)[i].header => Is(l)[i].size = HeaderSize)
                        /\ i < Len(Is(l)) /\ Opens(Is(l)[i])
                             => ~Is(l)[i + 1].header /\ Is(l)[i + 1].request = Is(l)[i].request
      BY DEF Framed
    <3>1. CASE i = n + 1
      BY <1>1, <3>1 DEF HeaderSize
    <3>2. CASE i = n
      BY <1>1, <1>5, <1>7, <3>2 DEF Framed
    <3>3. CASE i < n
      <4>1. i \in 1..n /\ i + 1 \in 1..n
        BY <1>1, <3>3
      <4>2. Is(l)[i] = Was(l)[i] /\ Is(l)[i + 1] = Was(l)[i + 1]
        BY <1>1, <4>1
      <4>3. /\ Was(l)[i].size > 0 /\ (Was(l)[i].header => Was(l)[i].size = HeaderSize)
            /\ Opens(Was(l)[i])
                 => ~Was(l)[i + 1].header /\ Was(l)[i + 1].request = Was(l)[i].request
        BY <1>5, <3>3, <4>1 DEF Framed
      <4> QED BY <4>2, <4>3
    <3> QED BY <1>1, <3>1, <3>2, <3>3
  <2>2. \A k \in Links : Framed(Is(k))
    BY <1>2, <1>5, <2>1
  <2> QED BY <2>2 DEF AllFramed, Framed, Opens, Is
<1>9. Numbered'
  <2>1. \A k \in Links : \A i \in 1..Len(Is(k)) : Is(k)[i].header => Is(k)[i].of <= calls
    BY <1>1, <1>2, <1>3, <1>6
  <2> QED BY <2>1 DEF Numbered, Is
<1>10. HeadersOnce'
  <2>1. \A a, b \in Links : \A i \in 1..Len(Was(a)), j \in 1..Len(Was(b)) :
          Was(a)[i].header /\ Was(b)[j].header /\ Was(a)[i].of = Was(b)[j].of => a = b /\ i = j
    BY Zenon DEF OrderInv, HeadersOnce, Was
  <2>2. \A a \in Links : \A i \in 1..Len(Is(a)) :
          \/ a = l /\ i = n + 1
          \/ i \in 1..Len(Was(a)) /\ Is(a)[i] = Was(a)[i]
    BY <1>1, <1>2
  <2>3. \A a, b \in Links : \A i \in 1..Len(Is(a)), j \in 1..Len(Is(b)) :
          Is(a)[i].header /\ Is(b)[j].header /\ Is(a)[i].of = Is(b)[j].of => a = b /\ i = j
    <3> TAKE a, b \in Links
    <3> TAKE i \in 1..Len(Is(a)), j \in 1..Len(Is(b))
    <3> HAVE Is(a)[i].header /\ Is(b)[j].header /\ Is(a)[i].of = Is(b)[j].of
    <3>1. CASE a = l /\ i = n + 1
      <4>1. Is(b)[j].of = calls
        BY <1>1, <1>3, <3>1
      <4>2. ~(j \in 1..Len(Was(b)) /\ Is(b)[j] = Was(b)[j])
        BY <1>6, <4>1
      <4> QED BY <2>2, <3>1, <4>2
    <3>2. CASE b = l /\ j = n + 1
      <4>1. Is(a)[i].of = calls
        BY <1>1, <1>3, <3>2
      <4>2. ~(i \in 1..Len(Was(a)) /\ Is(a)[i] = Was(a)[i])
        BY <1>6, <4>1
      <4> QED BY <2>2, <3>2, <4>2
    <3>3. CASE ~(a = l /\ i = n + 1) /\ ~(b = l /\ j = n + 1)
      <4>1. /\ i \in 1..Len(Was(a)) /\ Is(a)[i] = Was(a)[i]
            /\ j \in 1..Len(Was(b)) /\ Is(b)[j] = Was(b)[j]
        BY <2>2, <3>3
      <4> QED BY <2>1, <4>1
    <3> QED BY <3>1, <3>2, <3>3
  <2> QED BY <2>3, Zenon DEF HeadersOnce, Is
<1>11. LastOpens'
  <2>1. ASSUME NEW k \in Links, fd = k, Len(Is(k)) > 0, Opens(Is(k)[Len(Is(k))])
        PROVE  Mine'.at = "send_body" /\ Is(k)[Len(Is(k))].request = Mine'.request
    BY <1>1, <1>3, <2>1 DEF Opens
  <2> QED BY <2>1 DEF LastOpens, Opens, Is
<1>12. MineInv'
  BY <1>3 DEF MineInv
<1> QED BY <1>8, <1>9, <1>10, <1>11, <1>12 DEF OrderInv

\* A payload is sent, behind its header or behind no header that waits for one.
LEMMA BodyOrder ==
  ASSUME OneThread, FormInv, FormInv', OrderInv, Mine.at = "send_body", NEW p \in UpPieces,
         ~p.header, p.request = Mine.request, p.size > 0,
         NEW l \in Links, l = fd, Queue(l)' = Append(Queue(l), p),
         \A k \in Links : k # l => links'[k] = links[k],
         Mine'.at = "recv_head", Mine'.id = Mine.id, calls' = calls, fd' = fd
  PROVE  OrderInv'
<1> DEFINE Was(k) == Queue(k)  Is(k) == Queue(k)'  n == Len(Was(l))
<1>1. /\ n \in Nat /\ Len(Is(l)) = n + 1 /\ Is(l)[n + 1] = p
      /\ \A i \in 1..n : Is(l)[i] = Was(l)[i]
  BY QueueGrows
<1>2. \A k \in Links : k # l => Is(k) = Was(k)
  BY DEF Queue
<1> HIDE DEF Was, Is
<1>5. \A k \in Links : Framed(Was(k))
  BY DEF OrderInv, AllFramed, Was
<1>6. \A k \in Links : \A i \in 1..Len(Was(k)) : Was(k)[i].header => Was(k)[i].of <= calls
  BY DEF OrderInv, Numbered, Was
<1>7. n > 0 /\ Opens(Was(l)[n]) => Was(l)[n].request = p.request
  BY DEF OrderInv, LastOpens, Was
<1>8. AllFramed'
  <2>1. Framed(Is(l))
    <3> SUFFICES ASSUME NEW i \in 1..Len(Is(l))
                 PROVE  /\ Is(l)[i].size > 0 /\ (Is(l)[i].header => Is(l)[i].size = HeaderSize)
                        /\ i < Len(Is(l)) /\ Opens(Is(l)[i])
                             => ~Is(l)[i + 1].header /\ Is(l)[i + 1].request = Is(l)[i].request
      BY DEF Framed
    <3>1. CASE i = n + 1
      BY <1>1, <3>1
    <3>2. CASE i = n
      <4>1. /\ Was(l)[n].size > 0 /\ (Was(l)[n].header => Was(l)[n].size = HeaderSize)
            /\ Is(l)[n] = Was(l)[n] /\ n > 0
        BY <1>1, <1>5, <3>2 DEF Framed
      <4> QED BY <1>1, <1>7, <3>2, <4>1
    <3>3. CASE i < n
      <4>1. i \in 1..n /\ i + 1 \in 1..n
        BY <1>1, <3>3
      <4>2. Is(l)[i] = Was(l)[i] /\ Is(l)[i + 1] = Was(l)[i + 1]
        BY <1>1, <4>1
      <4>3. /\ Was(l)[i].size > 0 /\ (Was(l)[i].header => Was(l)[i].size = HeaderSize)
            /\ Opens(Was(l)[i])
                 => ~Was(l)[i + 1].header /\ Was(l)[i + 1].request = Was(l)[i].request
        BY <1>5, <3>3, <4>1 DEF Framed
      <4> QED BY <4>2, <4>3
    <3> QED BY <1>1, <3>1, <3>2, <3>3
  <2>2. \A k \in Links : Framed(Is(k))
    BY <1>2, <1>5, <2>1
  <2> QED BY <2>2 DEF AllFramed, Framed, Opens, Is
<1>9. Numbered'
  <2>1. \A k \in Links : \A i \in 1..Len(Is(k)) : Is(k)[i].header => Is(k)[i].of <= calls
    BY <1>1, <1>2, <1>6
  <2> QED BY <2>1 DEF Numbered, Is
<1>10. HeadersOnce'
  <2>1. \A a, b \in Links : \A i \in 1..Len(Was(a)), j \in 1..Len(Was(b)) :
          Was(a)[i].header /\ Was(b)[j].header /\ Was(a)[i].of = Was(b)[j].of => a = b /\ i = j
    BY Zenon DEF OrderInv, HeadersOnce, Was
  <2>2. \A a \in Links : \A i \in 1..Len(Is(a)) :
          Is(a)[i].header => i \in 1..Len(Was(a)) /\ Is(a)[i] = Was(a)[i]
    BY <1>1, <1>2
  <2>3. \A a, b \in Links : \A i \in 1..Len(Is(a)), j \in 1..Len(Is(b)) :
          Is(a)[i].header /\ Is(b)[j].header /\ Is(a)[i].of = Is(b)[j].of => a = b /\ i = j
    BY <2>1, <2>2
  <2> QED BY <2>3, Zenon DEF HeadersOnce, Is
<1>11. LastOpens'
  <2>1. ASSUME NEW k \in Links, fd = k, Len(Is(k)) > 0, Opens(Is(k)[Len(Is(k))])
        PROVE  FALSE
    BY <1>1, <2>1 DEF Opens
  <2> QED BY <2>1 DEF LastOpens, Opens, Is
<1>12. MineInv'
  BY DEF MineInv, OrderInv
<1> QED BY <1>8, <1>9, <1>10, <1>11, <1>12 DEF OrderInv

\* The header of a request.
LEMMA SendHeadOrder ==
  ASSUME OneThread, FormInv, FormInv', OrderInv, NEW c \in Callers, SendHead(c),
         connected, links[fd].server # "closed"
  PROVE  OrderInv'
<1> DEFINE p == [of |-> call[c].id, size |-> HeaderSize, header |-> TRUE,
                 request |-> call[c].request]
           next == IF PayloadSize[call[c].cmd] > 0 THEN "send_body" ELSE "recv_head"
<1>1. call[c].at = "send_head" /\ Send(p, next, c)
  BY Zenon DEF SendHead
<1>2. call[c] = Mine /\ Mine \in Calling /\ Mine.request \in Requests /\ Mine.cmd = Mine.request.cmd
  BY <1>1, ItIsMine, Thread
<1>3. /\ p \in UpPieces /\ p.header /\ p.of = Mine.id /\ p.request = Mine.request
      /\ p.size = HeaderSize
  BY <1>2 DEF UpPieces, Calling, HeaderSize
<1>4. next = IF PayloadSize[Mine.request.cmd] > 0 THEN "send_body" ELSE "recv_head"
  BY <1>2
<1> HIDE DEF p, next
<1>a. Mine.at # "idle" /\ p \in UpPieces /\ Send(p, next, c)
  BY <1>1, <1>2, <1>3
<1>5. PICK l \in Links :
        /\ l = fd /\ Queue(l)' = Append(Queue(l), p)
        /\ \A k \in Links : k # l => links'[k] = links[k]
        /\ Mine'.at = next /\ Mine'.id = Mine.id /\ Mine'.request = Mine.request
        /\ UNCHANGED <<fd, calls>>
  BY <1>a, SentBehind
<1> QED BY <1>1, <1>2, <1>3, <1>4, <1>5, HeaderOrder

\* Its payload.
LEMMA SendBodyOrder ==
  ASSUME OneThread, FormInv, FormInv', OrderInv, NEW c \in Callers, SendBody(c),
         links[fd].server # "closed"
  PROVE  OrderInv'
<1> DEFINE p == [of |-> call[c].id, size |-> PayloadSize[call[c].cmd], header |-> FALSE,
                 request |-> call[c].request]
<1>1. call[c].at = "send_body" /\ Send(p, "recv_head", c)
  BY Zenon DEF SendBody
<1>2. call[c] = Mine /\ Mine \in Calling /\ Mine.request \in Requests /\ Mine.cmd = Mine.request.cmd
  BY <1>1, ItIsMine, Thread
<1>3. PayloadSize[Mine.cmd] \in Nat /\ PayloadSize[Mine.cmd] > 0
  BY <1>1, <1>2, RequestType DEF OrderInv, MineInv
<1>4. p \in UpPieces /\ ~p.header /\ p.request = Mine.request /\ p.size > 0
  BY <1>2, <1>3 DEF UpPieces, Calling
<1> HIDE DEF p
<1>a. Mine.at # "idle" /\ p \in UpPieces /\ Send(p, "recv_head", c)
  BY <1>1, <1>2, <1>4
<1>5. PICK l \in Links :
        /\ l = fd /\ Queue(l)' = Append(Queue(l), p)
        /\ \A k \in Links : k # l => links'[k] = links[k]
        /\ Mine'.at = "recv_head" /\ Mine'.id = Mine.id /\ Mine'.request = Mine.request
        /\ UNCHANGED <<fd, calls>>
  BY <1>a, SentBehind
<1> QED BY <1>1, <1>2, <1>4, <1>5, BodyOrder

\* A call that fails.
LEMMA FailDoes ==
  ASSUME OneThread, FormInv, NEW c \in Callers, call[c].at # "idle", Fail(c)
  PROVE  Mine.at # "idle" /\ Mine'.at = "idle" /\ Mine'.result = "error"
<1> DEFINE x == [call[c] EXCEPT !.at = "idle", !.result = "error"]
<1>1. call' = [call EXCEPT ![c] = x] /\ x.at = "idle" /\ x.result = "error"
  BY InCallForm DEF Fail, Calling
<1> HIDE DEF x
<1> QED BY <1>1, ItIsMine, Zenon

\* When a call fails without having read anything.
LEMMA GiveUpDoes ==
  ASSUME OneThread, FormInv, NEW c \in Callers,
         NothingCame(c) \/ LinkLost(c) \/ (SendHead(c) /\ ~connected)
  PROVE  /\ Mine.at # "idle" /\ Mine'.at = "idle" /\ Mine'.result = "error"
         /\ UNCHANGED <<fd, calls, links, alive, clients, skewed>>
<1>1. /\ Fail(c) /\ call[c].at # "idle" /\ UNCHANGED <<fd, calls, links, alive, clients, skewed>>
  <2>1. CASE NothingCame(c)
    BY <2>1 DEF NothingCame, AwaitsBytes, GiveUp
  <2>2. CASE LinkLost(c)
    BY <2>2 DEF LinkLost, ctx
  <2>3. CASE SendHead(c) /\ ~connected
    <3>1. Fail(c) /\ UNCHANGED <<ctx, calls, links, alive, clients, skewed>>
      BY <2>3, Zenon DEF SendHead
    <3>2. call[c].at = "send_head"
      BY <2>3 DEF SendHead
    <3> QED BY <3>1, <3>2 DEF ctx
  <2> QED BY <2>1, <2>2, <2>3
<1> QED BY <1>1, FailDoes

\* What a receive of some bytes makes of the links.
LEMMA ReadDoes ==
  ASSUME OneThread, FormInv, NEW c \in Callers, call[c].at # "idle", NEW n \in Int,
         AtMost(links[fd].down, n) > 0,
         links' = [links EXCEPT ![fd].down = Taken(@, AtMost(links[fd].down, n))]
  PROVE  \A k \in Links : /\ links'[k].up = links[k].up /\ links'[k].server = links[k].server
                          /\ Ends(links'[k].down.pieces, links[k].down.pieces)
<1>1. fd \in Links /\ links[fd] \in Wire
  BY InCallForm
<1> PICK l \in Links : l = fd
  BY <1>1
<1> DEFINE down == links[l].down
           rest == Taken(down, AtMost(down, n))
           y == [links[l] EXCEPT !.down = rest]
<1>2. links' = [links EXCEPT ![l] = y]
  OBVIOUS
<1>3. y.up = links[l].up /\ y.down = rest /\ y.server = links[l].server
  BY <1>1, WireSet
<1>4. Ends(rest.pieces, down.pieces)
  <2>1. down \in Stream(Pieces) /\ Available(down) >= 0
    <3>1. links[l].down \in Flow(Pieces)
      BY <1>1 DEF Wire
    <3> QED BY <3>1 DEF Flow
  <2>2. AtMost(down, n) \in Nat
    BY <2>1, BothSizes, AtMostFacts
  <2> HIDE DEF down
  <2> QED BY <2>1, <2>2, BothSizes, TakenEnds
<1> HIDE DEF y, rest, down
<1>5. links'[l] = y /\ \A k \in Links : k # l => links'[k] = links[k]
  BY <1>2 DEF FormInv
<1>6. \A k \in Links : Ends(links[k].down.pieces, links[k].down.pieces)
  BY QueueType, EndsAgain
<1> QED BY <1>3, <1>4, <1>5, <1>6 DEF down

\* recv of a header.
LEMMA RecvHeadDoes ==
  ASSUME OneThread, FormInv, NEW c \in Callers, RecvHead(c)
  PROVE  /\ Mine.at = "recv_head"
         /\ \/ Mine'.at = "recv_body" /\ Mine'.id = Mine.id /\ skewed' = skewed
            \/ Mine'.at = "idle" /\ Mine'.result = "error" /\ skewed \subseteq skewed'
         /\ \A k \in Links : /\ links'[k].up = links[k].up /\ links'[k].server = links[k].server
                             /\ Ends(links'[k].down.pieces, links[k].down.pieces)
         /\ UNCHANGED <<fd, calls, alive, clients>>
<1> DEFINE down == links[fd].down
           n    == AtMost(down, HeaderSize)
           came == Head(down.pieces)
           good == n = HeaderSize /\ AtHeader(down)
           more == good /\ came.size - HeaderSize <= Room(call[c].cmd)
           at     == IF more THEN "recv_body" ELSE "idle"
           result == IF more THEN "none" ELSE "error"
           reply  == IF good THEN [of |-> came.of, size |-> came.size,
                                   status |-> came.status, pids |-> came.pids]
                     ELSE NoReply
           x1 == [call[c] EXCEPT !.at = at]
           x2 == [x1 EXCEPT !.result = result]
           x  == [x2 EXCEPT !.reply = reply]
<1>1. /\ call[c].at = "recv_head" /\ n > 0
      /\ links' = [links EXCEPT ![fd].down = Taken(@, n)]
      /\ call' = [call EXCEPT ![c].at = at, ![c].result = result, ![c].reply = reply]
      /\ skewed' = IF good /\ ~more THEN skewed \union {fd} ELSE skewed
      /\ UNCHANGED <<connected, fd, calls, alive, clients>>
  BY Zenon DEF RecvHead, ctx
<1>2. call[c] \in Calling /\ call \in [Callers -> Calling]
  BY <1>1, InCallForm
<1>4. call' = [call EXCEPT ![c] = x]
  BY <1>1, <1>2
<1>5. x.at = at /\ x.result = result /\ x.id = call[c].id
  <2> HIDE DEF at, result, reply
  <2> DEFINE D == {"at", "id", "cmd", "request", "reply", "result", "answered", "sure", "listed"}
  <2>1. DOMAIN call[c] = D
    BY <1>2 DEF Calling
  <2>2. DOMAIN x1 = D /\ x1.at = at /\ x1.id = call[c].id
    BY <2>1
  <2> HIDE DEF x1
  <2>3. DOMAIN x2 = D /\ x2.at = at /\ x2.id = call[c].id /\ x2.result = result
    BY <2>2
  <2> HIDE DEF x2
  <2> QED BY <2>3
<1> HIDE DEF x
<1>6. Mine' = x /\ call[c] = Mine
  BY <1>4, ItIsMine, Zenon
<1>7. \A k \in Links : /\ links'[k].up = links[k].up /\ links'[k].server = links[k].server
                       /\ Ends(links'[k].down.pieces, links[k].down.pieces)
  <2>1. HeaderSize \in Int
    BY DEF HeaderSize
  <2> QED BY <1>1, <2>1, ReadDoes
<1> HIDE DEF n, came, good
<1>8. \/ at = "recv_body" /\ skewed' = skewed
      \/ at = "idle" /\ result = "error" /\ skewed \subseteq skewed'
  BY <1>1
<1> HIDE DEF at, result, down
<1> QED BY <1>1, <1>5, <1>6, <1>7, <1>8

\* recv of the payload: success is what a reply to the call says, on a
\* connection that has not lost step.
LEMMA RecvBodyDoes ==
  ASSUME OneThread, FormInv, StepInv, NEW c \in Callers, RecvBody(c)
  PROVE  /\ Mine.at = "recv_body" /\ Mine'.at = "idle" /\ Mine'.result \in {"OK", "error"}
         /\ Mine'.result = "OK" /\ fd \notin skewed =>
              \E l \in Links : \E p \in ToSet(links[l].down.pieces) : p.of = Mine.id /\ p.status = "OK"
         /\ \A k \in Links : /\ links'[k].up = links[k].up /\ links'[k].server = links[k].server
                             /\ Ends(links'[k].down.pieces, links[k].down.pieces)
         /\ UNCHANGED <<fd, calls, alive, clients, skewed>>
<1> DEFINE down == links[fd].down
           from == Head(down.pieces)
           len  == call[c].reply.size - HeaderSize
           n    == AtMost(down, len)
           ok   == /\ n = len
                   /\ \/ call[c].cmd = "ListClients"
                      \/ down.skew = HeaderSize /\ Granted(from)
           sure == fd \notin skewed
           result   == IF ok THEN "OK" ELSE "error"
           answered == IF ok THEN from.of ELSE 0
           listed   == IF ok /\ from.pids # {}
                       THEN PidsFrom(from.pids, 0 - ResponseSize) ELSE {}
           x1 == [call[c] EXCEPT !.at = "idle"]
           x2 == [x1 EXCEPT !.result = result]
           x3 == [x2 EXCEPT !.answered = answered]
           x4 == [x3 EXCEPT !.sure = sure]
           x  == [x4 EXCEPT !.listed = listed]
<1>1. /\ call[c].at = "recv_body" /\ n > 0
      /\ links' = [links EXCEPT ![fd].down = Taken(@, n)]
      /\ call' = [call EXCEPT ![c].at = "idle", ![c].result = result,
                              ![c].answered = answered, ![c].sure = sure,
                              ![c].listed = listed]
      /\ UNCHANGED <<fd, calls, alive, clients, skewed>>
  BY Zenon DEF RecvBody
<1>2. call[c] \in Calling /\ call \in [Callers -> Calling] /\ fd \in Links
  BY SMTT(40), <1>1, InCallForm
<1>4. call' = [call EXCEPT ![c] = x]
  BY <1>1, <1>2
<1>5. x.at = "idle" /\ x.result = result
  <2> HIDE DEF result, answered, sure, listed
  <2> DEFINE D == {"at", "id", "cmd", "request", "reply", "result", "answered", "sure", "listed"}
  <2>1. DOMAIN call[c] = D
    BY <1>2 DEF Calling
  <2>2. DOMAIN x1 = D /\ x1.at = "idle"
    BY <2>1
  <2> HIDE DEF x1
  <2>3. DOMAIN x2 = D /\ x2.at = "idle" /\ x2.result = result
    BY <2>2
  <2> HIDE DEF x2
  <2>4. DOMAIN x3 = D /\ x3.at = "idle" /\ x3.result = result
    BY <2>3
  <2> HIDE DEF x3
  <2>5. DOMAIN x4 = D /\ x4.at = "idle" /\ x4.result = result
    BY <2>4
  <2> HIDE DEF x4
  <2> QED BY <2>5
<1> HIDE DEF x
<1>6. Mine' = x /\ call[c] = Mine
  BY <1>4, ItIsMine, Zenon
<1>7. \A k \in Links : /\ links'[k].up = links[k].up /\ links'[k].server = links[k].server
                       /\ Ends(links'[k].down.pieces, links[k].down.pieces)
  <2>1. len \in Int
    BY <1>2 DEF Calling, Heads, HeaderSize
  <2> QED BY <1>1, <2>1, ReadDoes
<1>8. ASSUME fd \notin skewed, result = "OK"
      PROVE  \E l \in Links : \E p \in ToSet(links[l].down.pieces) : p.of = Mine.id /\ p.status = "OK"
  <2>1. PICK p : down = One(p, HeaderSize) /\ Answers(p, Mine)
    BY <1>1, <1>6, <1>8, IsAlone DEF StepInv, Alone, Going
  <2>2. p \in Replies /\ p.size \in Nat /\ p.of = Mine.id
    BY <2>1, ReplyFacts DEF Answers
  <2>3. Head(One(p, HeaderSize).pieces) = p /\ ToSet(One(p, HeaderSize).pieces) = {p}
    BY <2>2, OneFacts DEF HeaderSize
  <2>4. Mine.cmd = "ListClients" \/ Granted(from)
    BY <1>6, <1>8
  <2>5. p.status = "OK"
    BY <2>1, <2>3, <2>4 DEF Answers, Granted
  <2> QED BY <1>2, <2>1, <2>2, <2>3, <2>5
<1>9. result \in {"OK", "error"}
  OBVIOUS
<1> HIDE DEF result, n, down
<1> QED BY <1>1, <1>5, <1>6, <1>7, <1>8, <1>9

\* The server takes or leaves a connection.
LEMMA ServerEndDoes ==
  ASSUME OneThread, FormInv, NEW l \in Links, Accept(l) \/ RemoveConnection(l)
  PROVE  /\ \A k \in Links : /\ links'[k].up = links[k].up /\ links'[k].down = links[k].down
                             /\ links[k].server = "closed" => links'[k].server = "closed"
         /\ Mine' = Mine /\ UNCHANGED <<fd, calls, alive, clients, skewed>>
<1>1. PICK s \in {"open", "closed"} :
        /\ links' = [links EXCEPT ![l].server = s] /\ links[l].server # "closed"
        /\ UNCHANGED <<connected, fd, call, calls, alive, clients, skewed>>
  BY DEF Accept, RemoveConnection, ctx
<1> DEFINE y == [links[l] EXCEPT !.server = s]
<1>2. links[l] \in Wire
  BY DEF FormInv
<1>3. y.up = links[l].up /\ y.down = links[l].down /\ y.server = s
  BY <1>2, WireSet
<1>4. links' = [links EXCEPT ![l] = y]
  BY <1>1
<1> HIDE DEF y
<1>5. links'[l] = y /\ \A k \in Links : k # l => links'[k] = links[k]
  BY <1>4 DEF FormInv
<1> QED BY <1>1, <1>3, <1>5 DEF Mine

\* t is what is left of q when at least its first piece is gone.
EndsLater(t, q) ==
  \E g \in 1..Len(q) : Len(t) = Len(q) - g /\ \A i \in 1..Len(t) : t[i] = q[g + i]

\* What a reply makes of the links.
LEMMA ResponseDoes ==
  ASSUME FormInv, NEW l \in Links, links[l].client,
         NEW rest, NEW of, NEW size, NEW status, NEW registry, NEW pids,
         SendResponse(l, rest, of, size, status, registry, pids)
  PROVE  /\ links'[l].up = rest /\ links'[l].server = links[l].server
         /\ ToSet(links'[l].down.pieces)
              = ToSet(links[l].down.pieces)
                \union {[of |-> of, size |-> size, header |-> TRUE, status |-> status, pids |-> pids]}
         /\ \A k \in Links : k # l => links'[k] = links[k]
         /\ clients' = registry /\ alive' = alive
<1> DEFINE p == [of |-> of, size |-> size, header |-> TRUE, status |-> status, pids |-> pids]
           d == Put(links[l].down, p)
<1>1. /\ links' = [links EXCEPT ![l].up = rest, ![l].down = Put(@, p)]
      /\ clients' = registry /\ alive' = alive
  BY DEF SendResponse
<1>2. links[l] \in Wire /\ links \in [Links -> Wire]
  BY DEF FormInv
<1> HIDE DEF p
<1> DEFINE x == [links[l] EXCEPT !.up = rest]
           y == [x EXCEPT !.down = d]
<1>3. y.up = rest /\ y.down = d /\ y.server = links[l].server /\ x.down = links[l].down
  <2>1. /\ x.up = rest /\ x.server = links[l].server /\ x.down = links[l].down
        /\ DOMAIN x = {"up", "down", "client", "server"}
    BY <1>2 DEF Wire
  <2> HIDE DEF x, d
  <2> QED BY <2>1
<1>4. links' = [links EXCEPT ![l] = y]
  BY <1>1, <1>2
<1>5. ToSet(d.pieces) = ToSet(links[l].down.pieces) \union {p}
  <2> DEFINE s == links[l].down
             q == s.pieces
             S == ToSet(q) \union {p}
  <2>1. s \in Stream(Pieces) /\ q \in Seq(Pieces)
    BY QueueType
  <2>2. d.pieces = Append(q, p)
    <3> HIDE DEF s
    <3>1. s \in [pieces : Seq(Pieces), skew : Nat]
      BY <2>1 DEF Stream
    <3>2. Put(s, p).pieces = Append(s.pieces, p)
      BY <3>1 DEF Put
    <3> QED BY <3>2 DEF s
  <2> HIDE DEF s, q
  <2>3. q \in Seq(S) /\ p \in S
    <3>1. \A i \in 1..Len(q) : q[i] \in S
      BY <2>1 DEF ToSet
    <3>2. q \in [1..Len(q) -> S] /\ Len(q) \in Nat
      BY <2>1, <3>1
    <3> QED BY <3>2
  <2> HIDE DEF S
  <2> DEFINE a == Append(q, p)  n == Len(q)
  <2>4. /\ n \in Nat /\ DOMAIN a = 1..(n + 1) /\ a[n + 1] = p /\ DOMAIN q = 1..n
    BY <2>3, AppendProperties
  <2>5. \A i \in 1..n : a[i] = q[i]
    BY <2>3, AppendKeeps, Zenon
  <2> HIDE DEF a, n
  <2>6. {a[i] : i \in 1..(n + 1)} = {q[i] : i \in 1..n} \union {p}
    BY <2>4, <2>5
  <2>7. ToSet(a) = ToSet(q) \union {p}
    BY <2>4, <2>6 DEF ToSet
  <2> QED BY <2>2, <2>7 DEF a, q, s
<1> HIDE DEF y, d, x
<1>6. links'[l] = y /\ \A k \in Links : k # l => links'[k] = links[k]
  BY <1>2, <1>4
<1> QED BY <1>1, <1>3, <1>5, <1>6 DEF p

\* What a server that dies makes of them.
LEMMA DiesDoes ==
  ASSUME FormInv, NEW l \in Links, ~links[l].client,
         NEW rest, NEW of, NEW size, NEW status, NEW registry, NEW pids,
         SendResponse(l, rest, of, size, status, registry, pids)
  PROVE  /\ \A k \in Links : /\ links'[k].up = links[k].up /\ links'[k].down = links[k].down
                             /\ links[k].server = "closed" => links'[k].server = "closed"
         /\ alive' = FALSE /\ clients' = {}
<1>1. /\ alive' = FALSE /\ clients' = {}
      /\ links' = [k \in Links |-> IF links[k].server = "none" THEN links[k]
                                  ELSE [links[k] EXCEPT !.server = "closed"]]
  BY Zenon DEF SendResponse, Links
<1>2. ASSUME NEW k \in Links
      PROVE  /\ links'[k].up = links[k].up /\ links'[k].down = links[k].down
             /\ links[k].server = "closed" => links'[k].server = "closed"
  <2>1. links[k] \in Wire
    BY DEF FormInv
  <2> DEFINE z == [links[k] EXCEPT !.server = "closed"]
  <2>2. z.up = links[k].up /\ z.down = links[k].down /\ z.server = "closed"
    BY <2>1, WireSet
  <2> HIDE DEF z
  <2>3. links'[k] = IF links[k].server = "none" THEN links[k] ELSE z
    BY <1>1 DEF z
  <2> QED BY <2>2, <2>3
<1> QED BY <1>1, <1>2

\* handle_client_message to a process that is there: the request it finds
\* takes effect, or it is refused.
Served(l, q) ==
  /\ q.header /\ links[l].server = "open" /\ skewed' = skewed
  /\ EndsLater(links'[l].up.pieces, Queue(l)) /\ Queue(l)[1] = q /\ Len(Queue(l)) > 0
  /\ \E a : /\ a.of = q.of /\ a.status = StatusOf(clients, q.request)
            /\ ToSet(links'[l].down.pieces) = ToSet(links[l].down.pieces) \union {a}
  /\ clients' = After(clients, q.request)

Refused(l) ==
  /\ \E a : /\ a.of \in 0..calls /\ a.status \in Statuses \ {"OK"}
            /\ ToSet(links'[l].down.pieces) = ToSet(links[l].down.pieces) \union {a}
  /\ clients' = clients

LEMMA HandleDoes ==
  ASSUME OneThread, FormInv, OrderInv, NEW l \in Links, HandleMessage(l)
  PROVE  /\ alive /\ Mine' = Mine /\ UNCHANGED <<fd, calls>> /\ skewed \subseteq skewed'
         /\ \/ /\ \A k \in Links : /\ links'[k].up = links[k].up /\ links'[k].down = links[k].down
                                   /\ links[k].server = "closed" => links'[k].server = "closed"
               /\ alive' = FALSE /\ clients' = {}
            \/ /\ alive' = alive /\ \A k \in Links : k # l => links'[k] = links[k]
               /\ Ends(links'[l].up.pieces, Queue(l)) /\ links'[l].server = links[l].server
               /\ Refused(l) \/ \E q : Served(l, q)
<1> DEFINE up == links[l].up
           n == AtMost(up, HeaderSize)
           rest == Taken(up, n)
           first == Head(up.pieces)
           len == Announced(first)
           m == AtMost(rest, len)
           answer == HeaderSize + ResponseSize
           good == n = HeaderSize /\ AtHeader(up)
           Answer(q) == SendResponse(l, Taken(rest, len), first.of, answer + DataSize(clients, q),
                                     StatusOf(clients, q), After(clients, q), Listed(clients, q))
           Bad == /\ SendResponse(l, rest, 0, answer, "InvalidHeader", clients, {})
                  /\ skewed' = skewed
           Short == /\ good /\ SendResponse(l, Taken(rest, m), first.of, answer, "PayloadTooLarge", clients, {})
                    /\ skewed' = skewed \union {l}
           Good(q) == good /\ m = len /\ skewed' = skewed /\ q \in Decoded(first.request, rest) /\ Answer(q)
<1>1. /\ n > 0 /\ alive /\ links[l].server = "open" /\ UNCHANGED <<connected, fd, call, calls>>
      /\ Bad \/ Short \/ \E q : Good(q)
  BY Zenon DEF HandleMessage, ctx
<1>2. Mine' = Mine /\ UNCHANGED <<fd, calls>>
  BY <1>1 DEF Mine
<1>3. up \in Flow(UpPieces) /\ up \in Stream(UpPieces) /\ Queue(l) = up.pieces /\ up.pieces \in Seq(UpPieces)
  BY QueueType DEF Queue
<1>4. first \in UpPieces /\ rest \in Flow(UpPieces) /\ n \in Nat
  <2>1. HeaderSize \in Int /\ HeaderSize \in Nat
    BY DEF HeaderSize
  <2>2. up \in Stream(UpPieces) /\ Available(up) >= 0
    BY <1>3 DEF Flow
  <2> HIDE DEF up
  <2> QED BY <1>1, <1>3, <2>1, <2>2, BothSizes, FlowFacts, AtMostFacts
<1>5. /\ first.request \in Requests /\ len \in Nat /\ len = PayloadSize[first.request.cmd]
  BY <1>4, RequestType DEF UpPieces, Announced
<1>6. m \in Nat /\ rest \in Stream(UpPieces) /\ Available(rest) \in Nat /\ m <= Available(rest)
  <2>1. rest \in Stream(UpPieces) /\ Available(rest) >= 0
    BY <1>4 DEF Flow
  <2> HIDE DEF rest, len
  <2> QED BY <1>5, <2>1, BothSizes, AtMostFacts
<1>7. Ends(rest.pieces, up.pieces)
  <2> HIDE DEF up, n
  <2> QED BY <1>3, <1>4, BothSizes, TakenEnds
<1>8. \A j \in Nat : Ends(Taken(rest, j).pieces, up.pieces) /\ Ends(Taken(rest, j).pieces, rest.pieces)
  <2> TAKE j \in Nat
  <2> DEFINE u == Taken(rest, j)
  <2> HIDE DEF up, rest
  <2>1. Ends(u.pieces, rest.pieces) /\ u \in Stream(UpPieces)
    BY <1>6, BothSizes, TakenEnds, TakenFacts
  <2>2. u.pieces \in Seq(UpPieces) /\ rest.pieces \in Seq(UpPieces)
    <3> HIDE DEF u
    <3> QED BY <1>6, <2>1 DEF Stream
  <2> HIDE DEF u
  <2> QED BY <1>3, <1>7, <2>1, <2>2, EndsAgain DEF u
<1>9. CASE ~links[l].client
  <2>1. \E r, of, size, status, registry, pids : SendResponse(l, r, of, size, status, registry, pids)
    BY <1>1, Zenon
  <2>2. skewed \subseteq skewed'
    <3> HIDE DEF Answer
    <3> QED BY <1>1
  <2> HIDE DEF Bad, Short, Good
  <2> QED BY <1>1, <1>2, <1>9, <2>1, <2>2, DiesDoes
<1>10. CASE links[l].client /\ Bad
  <2> HIDE DEF rest, up, n, answer
  <2>1. SendResponse(l, rest, 0, answer, "InvalidHeader", clients, {}) /\ skewed' = skewed
    BY <1>10
  <2> HIDE DEF Bad, Short, Good
  <2> DEFINE a == [of |-> 0, size |-> answer, header |-> TRUE, status |-> "InvalidHeader", pids |-> {}]
  <2>2. /\ links'[l].up = rest /\ links'[l].server = links[l].server
        /\ ToSet(links'[l].down.pieces) = ToSet(links[l].down.pieces) \union {a}
        /\ \A k \in Links : k # l => links'[k] = links[k]
        /\ clients' = clients /\ alive' = alive
    BY <1>10, <2>1, ResponseDoes
  <2>3. a.of \in 0..calls /\ a.status \in Statuses \ {"OK"}
    BY Bounds DEF FormInv, Statuses
  <2> HIDE DEF a
  <2>4. Refused(l)
    BY <2>2, <2>3 DEF Refused
  <2> QED BY <1>1, <1>2, <1>3, <1>7, <2>1, <2>2, <2>4
<1>11. CASE links[l].client /\ Short
  <2> HIDE DEF rest, n, answer, m, first
  <2>1. /\ SendResponse(l, Taken(rest, m), first.of, answer, "PayloadTooLarge", clients, {})
        /\ skewed' = skewed \union {l} /\ AtHeader(up)
    BY <1>11
  <2> HIDE DEF Bad, Short, Good, good
  <2> DEFINE a == [of |-> first.of, size |-> answer, header |-> TRUE, status |-> "PayloadTooLarge", pids |-> {}]
             t == Taken(rest, m)
  <2>2. /\ links'[l].up = t /\ links'[l].server = links[l].server
        /\ ToSet(links'[l].down.pieces) = ToSet(links[l].down.pieces) \union {a}
        /\ \A k \in Links : k # l => links'[k] = links[k]
        /\ clients' = clients /\ alive' = alive
    BY <1>11, <2>1, ResponseDoes
  <2>3. first.of \in 0..calls
    <3>1. first.of \in Nat
      BY <1>4, Bounds DEF UpPieces
    <3>2. Queue(l)[1] = first /\ 1 \in 1..Len(Queue(l)) /\ first.header
      BY <1>3, <2>1 DEF AtHeader, first
    <3>3. first.of <= calls
      BY <3>2 DEF OrderInv, Numbered
    <3> QED BY <3>1, <3>3, Bounds DEF FormInv
  <2>4. a.of \in 0..calls /\ a.status \in Statuses \ {"OK"}
    BY <2>3 DEF Statuses
  <2>5. Ends(t.pieces, up.pieces)
    BY <1>6, <1>8
  <2> HIDE DEF a, t
  <2>6. Refused(l)
    BY <2>2, <2>4 DEF Refused
  <2> QED BY <1>1, <1>2, <1>3, <2>1, <2>2, <2>5, <2>6
<1>12. ASSUME links[l].client, NEW r, Good(r)
       PROVE  /\ alive' = alive /\ \A k \in Links : k # l => links'[k] = links[k]
              /\ Ends(links'[l].up.pieces, Queue(l)) /\ links'[l].server = links[l].server
              /\ skewed' = skewed /\ Served(l, first)
  <2>1. n = HeaderSize /\ AtHeader(up) /\ m = len /\ skewed' = skewed /\ r \in Decoded(first.request, rest)
    BY <1>12
  <2>2. Framed(up.pieces)
    BY <1>3 DEF OrderInv, AllFramed
  <2>3. /\ rest.skew = 0 /\ Len(rest.pieces) = Len(up.pieces) - 1
        /\ \A i \in 1..Len(rest.pieces) : rest.pieces[i] = up.pieces[1 + i]
    <3> HIDE DEF up
    <3> QED BY <1>3, <2>1, <2>2, HeaderTaken
  <2>4. up.pieces[1] = first /\ Len(up.pieces) > 0 /\ first.header /\ Len(up.pieces) \in Nat
    BY <1>3, <2>1 DEF AtHeader
  <2>5. r = first.request
    <3>1. CASE len = 0
      BY <1>5, <2>1, <3>1 DEF Decoded
    <3>2. CASE len # 0
      <4> HIDE DEF rest, first, up, n, len, m
      <4>1. Available(rest) > 0
        BY <1>5, <1>6, <2>1, <3>2
      <4>2. rest.pieces # <<>> /\ rest.pieces \in Seq(UpPieces)
        BY <1>6, <4>1, BothSizes, HeadFacts DEF Stream
      <4>3. Len(rest.pieces) > 0 /\ Head(rest.pieces) = rest.pieces[1] /\ Len(rest.pieces) \in Nat
        BY <4>2
      <4>4. Head(rest.pieces) = up.pieces[1 + 1] /\ 1 < Len(up.pieces) /\ 1 \in 1..Len(up.pieces)
        BY <2>3, <2>4, <4>3
      <4>5. Opens(up.pieces[1])
        BY <1>5, <2>4, <3>2 DEF Opens
      <4>6. ~up.pieces[1 + 1].header /\ up.pieces[1 + 1].request = up.pieces[1].request
        BY <2>2, <4>4, <4>5 DEF Framed
      <4> QED BY <2>1, <2>3, <2>4, <4>4, <4>6 DEF Decoded
    <3> QED BY <3>1, <3>2
  <2>6. Answer(first.request)
    BY <1>12, <2>5
  <2> DEFINE a == [of |-> first.of, size |-> answer + DataSize(clients, first.request), header |-> TRUE,
                   status |-> StatusOf(clients, first.request), pids |-> Listed(clients, first.request)]
             t == Taken(rest, len)
  <2> HIDE DEF rest, first, up, n, len, m, answer
  <2>7. /\ links'[l].up = t /\ links'[l].server = links[l].server
        /\ ToSet(links'[l].down.pieces) = ToSet(links[l].down.pieces) \union {a}
        /\ \A k \in Links : k # l => links'[k] = links[k]
        /\ clients' = After(clients, first.request) /\ alive' = alive
    BY <1>12, <2>6, ResponseDoes
  <2>8. a.of = first.of /\ a.status = StatusOf(clients, first.request)
    OBVIOUS
  <2> HIDE DEF a
  <2>9. Ends(t.pieces, rest.pieces) /\ Ends(t.pieces, up.pieces)
    BY <1>5, <1>8
  <2> HIDE DEF t
  <2>10. EndsLater(t.pieces, up.pieces)
    <3>1. PICK g \in 0..Len(rest.pieces) :
            /\ Len(t.pieces) = Len(rest.pieces) - g
            /\ \A i \in 1..Len(t.pieces) : t.pieces[i] = rest.pieces[g + i]
      BY <2>9 DEF Ends
    <3>2. g + 1 \in 1..Len(up.pieces) /\ Len(t.pieces) = Len(up.pieces) - (g + 1)
      BY <2>3, <2>4, <3>1
    <3>3. \A i \in 1..Len(t.pieces) : t.pieces[i] = up.pieces[(g + 1) + i]
      <4> TAKE i \in 1..Len(t.pieces)
      <4>1. g + i \in 1..Len(rest.pieces) /\ 1 + (g + i) = (g + 1) + i
        BY <2>3, <2>4, <3>1
      <4> QED BY <2>3, <3>1, <4>1
    <3> QED BY <3>2, <3>3 DEF EndsLater
  <2>11. Served(l, first)
    BY <1>1, <1>3, <2>1, <2>4, <2>7, <2>8, <2>10 DEF Served
  <2> QED BY <1>3, <2>1, <2>7, <2>9, <2>11
<1> HIDE DEF Bad, Short, Good, up, rest, first
<1> QED BY <1>1, <1>2, <1>9, <1>10, <1>11, <1>12, Zenon

\* Steps that send nothing to the server and go on with no other call.
LEMMA ReadingOrder ==
  ASSUME OneThread, FormInv, FormInv', OrderInv, calls' = calls, fd' = fd,
         \A k \in Links : links'[k].up = links[k].up,
         Mine.at # "send_body" /\ Mine'.at \notin {"send_body", "send_head"},
         Mine'.at # "idle" => Mine'.id = Mine.id /\ Mine.at # "idle"
  PROVE  OrderInv'
<1>1. \A l \in Links : Ends(Queue(l)', Queue(l))
  BY SameQueues
<1>2. Mine'.at # "idle" => Mine'.id = calls
  BY DEF OrderInv, MineInv
<1> QED BY <1>1, <1>2, OrderKept

\* A call that gives up between its two sends gives its connection up.
LEMMA CallOrder ==
  ASSUME OneThread, FormInv, FormInv', StepInv, OrderInv, NEW c \in Callers, CallStep(c)
  PROVE  OrderInv'
<1>1. CASE NothingCame(c) \/ LinkLost(c) \/ (SendHead(c) /\ ~connected)
  <2>1. call[c] = Mine
    BY ItIsMine
  <2>2. Mine.at # "send_body"
    BY <1>1, <2>1 DEF NothingCame, AwaitsBytes, LinkLost, SendHead
  <2>3. Mine'.at = "idle" /\ UNCHANGED <<fd, calls, links>>
    BY <1>1, GiveUpDoes
  <2> QED BY <2>2, <2>3, ReadingOrder
<1>2. CASE SendHead(c) /\ connected
  <2>1. CASE links[fd].server = "closed"
    <3>1. ProcessEnds
      BY <1>2, <2>1 DEF SendHead, Send
    <3> QED BY <3>1, EndsOrder
  <2>2. CASE links[fd].server # "closed"
    BY <1>2, <2>2, SendHeadOrder
  <2> QED BY <2>1, <2>2
<1>3. CASE SendBody(c)
  <2>1. CASE links[fd].server = "closed"
    <3>1. ProcessEnds
      BY <1>3, <2>1 DEF SendBody, Send
    <3> QED BY <3>1, EndsOrder
  <2>2. CASE links[fd].server # "closed"
    BY <1>3, <2>2, SendBodyOrder
  <2> QED BY <2>1, <2>2
<1>4. CASE RecvHead(c)
  BY <1>4, RecvHeadDoes, ReadingOrder
<1>5. CASE RecvBody(c)
  BY <1>5, RecvBodyDoes, ReadingOrder
<1> QED BY <1>1, <1>2, <1>3, <1>4, <1>5 DEF CallStep

\* The server only reads.
LEMMA ServerOrder ==
  ASSUME OneThread, FormInv, FormInv', OrderInv, ServerStep
  PROVE  OrderInv'
<1>1. PICK l \in Links : Accept(l) \/ HandleMessage(l) \/ RemoveConnection(l)
  BY DEF ServerStep, Links
<1>2. /\ \A k \in Links : Ends(Queue(k)', Queue(k))
      /\ Mine' = Mine /\ UNCHANGED <<fd, calls>>
  <2>1. CASE Accept(l) \/ RemoveConnection(l)
    <3>1. \A k \in Links : links'[k].up = links[k].up
      BY <2>1, ServerEndDoes
    <3> QED BY <2>1, <3>1, ServerEndDoes, SameQueues
  <2>2. CASE HandleMessage(l)
    <3>1. Mine' = Mine /\ UNCHANGED <<fd, calls>>
      BY <2>2, HandleDoes
    <3>2. \/ \A k \in Links : links'[k].up = links[k].up
          \/ /\ \A k \in Links : k # l => links'[k] = links[k]
             /\ Ends(links'[l].up.pieces, Queue(l))
      BY <2>2, HandleDoes
    <3>3. \A k \in Links : Ends(Queue(k), Queue(k))
      BY QueueType, EndsAgain
    <3>4. \A k \in Links : Ends(Queue(k)', Queue(k))
      <4>1. CASE \A k \in Links : links'[k].up = links[k].up
        BY <4>1, SameQueues
      <4>2. CASE /\ \A k \in Links : k # l => links'[k] = links[k]
                 /\ Ends(links'[l].up.pieces, Queue(l))
        <5> TAKE k \in Links
        <5>1. CASE k = l
          BY <4>2, <5>1 DEF Queue
        <5>2. CASE k # l
          <6>1. Queue(k)' = Queue(k)
            BY <4>2, <5>2 DEF Queue
          <6> QED BY <3>3, <6>1
        <5> QED BY <5>1, <5>2
      <4> QED BY <3>2, <4>1, <4>2
    <3> QED BY <3>1, <3>4
  <2> QED BY <1>1, <2>1, <2>2
<1>3. /\ Mine.at # "idle" => Mine.id = calls
      /\ Mine.at = "send_body" => PayloadSize[Mine.request.cmd] # 0
  BY DEF OrderInv, MineInv
<1>4. \A k \in Links : fd' = k /\ Len(Queue(k)') > 0 =>
        /\ fd = k
        /\ Mine.at = "send_body" => Mine'.at = "send_body" /\ Mine'.request = Mine.request
  BY <1>2
<1> QED BY <1>2, <1>3, <1>4, OrderKept

\* Every step keeps the order of the requests.
LEMMA NextOrder ==
  ASSUME OneThread, FormInv, FormInv', StepInv, OrderInv, [Next]_vars
  PROVE  OrderInv'
<1>1. CASE Exit
  BY <1>1, EndsOrder DEF Exit
<1>2. CASE \E c \in Callers, r \in Requests : Begin(c, r)
  BY <1>2, BeginOrder
<1>3. CASE \E c \in Callers : CallStep(c)
  BY <1>3, CallOrder
<1>4. CASE UNCHANGED vars
  <2>1. UNCHANGED <<fd, call, calls, links>>
    BY <1>4 DEF vars, ctx
  <2>2. \A k \in Links : Ends(Queue(k)', Queue(k))
    BY <2>1, SameQueues
  <2>3. Mine' = Mine
    BY <2>1 DEF Mine
  <2>4. /\ Mine.at # "idle" => Mine.id = calls
        /\ Mine.at = "send_body" => PayloadSize[Mine.request.cmd] # 0
    BY DEF OrderInv, MineInv
  <2>5. \A k \in Links : fd' = k /\ Len(Queue(k)') > 0 =>
          /\ fd = k
          /\ Mine.at = "send_body" => Mine'.at = "send_body" /\ Mine'.request = Mine.request
    BY <2>1, <2>3
  <2> QED BY <2>1, <2>2, <2>3, <2>4, <2>5, OrderKept
<1> QED BY <1>1, <1>2, <1>3, <1>4, ConnectOrder, ServerOrder DEF Next

\* Always.
LEMMA AlwaysOrder == ASSUME OneThread PROVE Spec => [](FormInv /\ StepInv /\ OrderInv)
<1>1. Init => FormInv /\ StepInv /\ OrderInv
  BY InitForm, InitStep, InitOrder
<1>2. FormInv /\ StepInv /\ OrderInv /\ [Next]_vars => (FormInv /\ StepInv /\ OrderInv)'
  <2> SUFFICES ASSUME FormInv, StepInv, OrderInv, [Next]_vars
               PROVE  FormInv' /\ StepInv' /\ OrderInv'
    OBVIOUS
  <2> QED BY NextForm, NextStep, NextOrder
<1> QED BY <1>1, <1>2, PTL DEF Spec

-----------------------------------------------------------------------------
(* What the exchange looks like in RegistryCalls                            *)

\* The requests and the answers on a stream, and on the two of a link.
Asks(s)  == {[id |-> p.of, request |-> p.request] : p \in {q \in ToSet(s.pieces) : q.header}}
Shows(s) == {[id |-> p.of, status |-> p.status] : p \in ToSet(s.pieces)}
On(l)    == IF links[l].server = "closed" THEN {} ELSE Asks(links[l].up)
Back(l)  == Shows(links[l].down)

Building == IF Mine.at = "send_head" THEN {[id |-> Mine.id, request |-> Mine.request]} ELSE {}
Asked    == (UNION {On(l) : l \in Links}) \union Building
Answered == UNION {Back(l) : l \in Links}
Result   == IF Mine.at = "idle" THEN Mine.result ELSE "pending"
Astray   == fd \in skewed

\* The values ImplementsCalls gives to the variables of RegistryCalls.
GivenResult   == IF call[Caller].at = "idle" THEN call[Caller].result ELSE "pending"
GivenAsked    == {[id |-> p.of, request |-> p.request] : p \in {p \in Sent : p.header}}
                 \union (IF call[Caller].at = "send_head"
                         THEN {[id |-> call[Caller].id, request |-> call[Caller].request]} ELSE {})
GivenAnswered == {[id |-> p.of, status |-> p.status] : p \in Received}

\* The mapping as the instance Calls is given it.
LEMMA Given ==
  /\ Result = GivenResult /\ Asked = GivenAsked /\ Answered = GivenAnswered
  /\ Result' = GivenResult' /\ Asked' = GivenAsked' /\ Answered' = GivenAnswered'
<1>1. Result = GivenResult /\ Result' = GivenResult'
  BY DEF Result, GivenResult, Mine
<1>2. Answered = GivenAnswered /\ Answered' = GivenAnswered'
  BY DEF Answered, GivenAnswered, Back, Shows, Received, Links
<1>3. Asked = GivenAsked
  <2> DEFINE Rec(p) == [id |-> p.of, request |-> p.request]
             Open == {l \in Links : links[l].server # "closed"}
             Up(l) == ToSet(links[l].up.pieces)
             All == UNION {On(l) : l \in Links}
             Recs == {Rec(p) : p \in {p \in Sent : p.header}}
  <2>1. \A l \in Links : On(l) = IF l \in Open THEN {Rec(p) : p \in {p \in Up(l) : p.header}} ELSE {}
    BY DEF On, Asks
  <2>2. Sent = UNION {Up(l) : l \in Open}
    BY DEF Sent, Links
  <2>3. Asked = All \union Building
    BY DEF Asked
  <2>4. GivenAsked = Recs \union Building
    BY DEF GivenAsked, Building, Mine
  <2>5. \A l \in Open : l \in Links
    OBVIOUS
  <2> HIDE DEF Rec, Open, Up
  <2>6. ASSUME NEW q \in All PROVE q \in Recs
    <3>1. PICK l \in Links : q \in On(l)
      OBVIOUS
    <3>2. l \in Open /\ \E p \in Up(l) : p.header /\ q = Rec(p)
      BY <2>1, <3>1
    <3> QED BY <2>2, <3>2
  <2>7. ASSUME NEW q \in Recs PROVE q \in All
    <3>1. PICK p \in Sent : p.header /\ q = Rec(p)
      OBVIOUS
    <3>2. PICK l \in Open : p \in Up(l)
      BY <2>2
    <3>3. l \in Links /\ q \in On(l)
      BY <2>1, <2>5, <3>1, <3>2
    <3> QED BY <3>3
  <2> HIDE DEF All, Recs
  <2>8. All = Recs
    BY <2>6, <2>7
  <2> QED BY <2>3, <2>4, <2>8, Zenon
<1>4. Asked' = GivenAsked'
  <2> DEFINE Rec(p) == [id |-> p.of, request |-> p.request]
             Open == {l \in Links : links'[l].server # "closed"}
             Up(l) == ToSet(links'[l].up.pieces)
             All == UNION {On(l)' : l \in Links}
             Recs == {Rec(p) : p \in {p \in Sent' : p.header}}
  <2>1. \A l \in Links : On(l)' = IF l \in Open THEN {Rec(p) : p \in {p \in Up(l) : p.header}} ELSE {}
    BY DEF On, Asks
  <2>2. Sent' = UNION {Up(l) : l \in Open}
    BY DEF Sent, Links
  <2>3. Asked' = All \union Building'
    BY DEF Asked
  <2>4. GivenAsked' = Recs \union Building'
    BY DEF GivenAsked, Building, Mine
  <2>5. \A l \in Open : l \in Links
    OBVIOUS
  <2> HIDE DEF Rec, Open, Up
  <2>6. ASSUME NEW q \in All PROVE q \in Recs
    <3>1. PICK l \in Links : q \in On(l)'
      OBVIOUS
    <3>2. l \in Open /\ \E p \in Up(l) : p.header /\ q = Rec(p)
      BY <2>1, <3>1
    <3> QED BY <2>2, <3>2
  <2>7. ASSUME NEW q \in Recs PROVE q \in All
    <3>1. PICK p \in Sent' : p.header /\ q = Rec(p)
      OBVIOUS
    <3>2. PICK l \in Open : p \in Up(l)
      BY <2>2
    <3>3. l \in Links /\ q \in On(l)'
      BY <2>1, <2>5, <3>1, <3>2
    <3> QED BY <3>3
  <2> HIDE DEF All, Recs
  <2>8. All = Recs
    BY <2>6, <2>7
  <2> QED BY <2>3, <2>4, <2>8, Zenon
<1> QED BY <1>1, <1>2, <1>3, <1>4

\* The operators of the registry are the same in both modules.
LEMMA SameRegistry ==
  ASSUME NEW es, NEW r
  PROVE  Calls!After(es, r) = After(es, r) /\ Calls!StatusOf(es, r) = StatusOf(es, r)
<1>1. Calls!StatusOf(es, r) = StatusOf(es, r)
  BY DEF Calls!StatusOf, StatusOf, Calls!Entries, Entries
<1>2. Calls!After(es, r) = After(es, r)
  <2>1. Calls!Register(es, r) = Register(es, r) /\ Calls!Unregister(es, r) = Unregister(es, r)
    BY DEF Calls!Register, Register, Calls!Unregister, Unregister, Calls!Entries, Entries
  <2>2. Calls!SetVolume(es, r) = SetVolume(es, r)
    BY DEF Calls!SetVolume, SetVolume, Calls!Change, Change, Calls!Entries, Entries, Calls!Clamp, Clamp
  <2>3. Calls!SetMute(es, r) = SetMute(es, r)
    BY DEF Calls!SetMute, SetMute, Calls!Change, Change, Calls!Entries, Entries
  <2> QED BY <2>1, <2>2, <2>3 DEF Calls!After, After
<1> QED BY <1>1, <1>2

\* When a step is one of RegistryCalls: asking;
LEMMA IsAsk ==
  ASSUME NEW r \in Requests, Result # "pending", calls' = calls + 1, Result' = "pending",
         Asked' = Asked \union {[id |-> calls + 1, request |-> r]},
         clients' = clients, alive' = alive, Answered' = Answered, Astray' = Astray
  PROVE  Calls!Next
<1>1. Calls!Ask(r)
  BY Given DEF Calls!Ask, GivenResult, GivenAsked, GivenAnswered, Astray
<1> QED BY <1>1 DEF Calls!Next

\* serving one request;
LEMMA IsTake ==
  ASSUME NEW q \in Asked, alive, Asked' \subseteq Asked \ {q},
         Answered' = Answered \union {[id |-> q.id, status |-> StatusOf(clients, q.request)]},
         clients' = After(clients, q.request), alive' = alive, calls' = calls, Result' = Result,
         Astray' = Astray
  PROVE  Calls!Next
<1>1. Calls!Take(q)
  BY Given, SameRegistry DEF Calls!Take, GivenResult, GivenAsked, GivenAnswered, Astray
<1>2. q \in GivenAsked
  BY Given
<1> QED BY <1>1, <1>2 DEF Calls!Next, GivenAsked

\* refusing some;
LEMMA IsRefuse ==
  ASSUME NEW n \in 0..calls, NEW status \in Statuses \ {"OK"}, alive, Asked' \subseteq Asked,
         Answered' = Answered \union {[id |-> n, status |-> status]},
         clients' = clients, alive' = alive, calls' = calls, Result' = Result, Astray => Astray'
  PROVE  Calls!Next
<1>1. Calls!Refuse(n, status)
  BY Given DEF Calls!Refuse, GivenResult, GivenAsked, GivenAnswered, Astray
<1>2. Calls!Statuses = Statuses
  BY DEF Calls!Statuses, Statuses
<1> QED BY <1>1, <1>2 DEF Calls!Next

\* returning from a call;
LEMMA IsReturn ==
  ASSUME Result = "pending", clients' = clients, alive' = alive, calls' = calls,
         Asked' \subseteq Asked, Answered' \subseteq Answered, Astray => Astray',
         \/ /\ Result' = "OK" /\ Asked' = Asked /\ Astray' = Astray
            /\ Astray \/ [id |-> calls, status |-> "OK"] \in Answered
         \/ Result' = "error"
  PROVE  Calls!Next
<1>1. Calls!Succeed \/ Calls!Fail
  BY Given DEF Calls!Succeed, Calls!Fail, GivenResult, GivenAsked, GivenAnswered, Astray
<1> QED BY <1>1 DEF Calls!Next

\* losing requests or replies, with the process or without it;
LEMMA IsLoss ==
  ASSUME Asked' \subseteq Asked, Answered' \subseteq Answered,
         clients' = clients, alive' = alive, calls' = calls,
         \/ Result' = Result /\ Astray' = Astray
         \/ Result' = "none" /\ ~Astray'
  PROVE  Calls!Next
<1>1. Calls!Lose \/ Calls!Vanish
  BY Given DEF Calls!Lose, Calls!Vanish, GivenResult, GivenAsked, GivenAnswered, Astray
<1> QED BY <1>1 DEF Calls!Next

\* taking another connection;
LEMMA IsRenew ==
  ASSUME Result # "pending", Result' = Result, Asked' = Asked, Answered' = Answered,
         clients' = clients, alive' = alive, calls' = calls, ~Astray'
  PROVE  Calls!Next
<1>1. Calls!Renew
  BY Given DEF Calls!Renew, GivenResult, GivenAsked, GivenAnswered, Astray
<1> QED BY <1>1 DEF Calls!Next

\* the server's end.
LEMMA IsDie ==
  ASSUME alive, alive' = FALSE, clients' = {}, Asked' \subseteq Asked, Answered' \subseteq Answered,
         calls' = calls, Result' = Result, Astray => Astray'
  PROVE  Calls!Next
<1>1. Calls!Die
  BY Given DEF Calls!Die, GivenResult, GivenAsked, GivenAnswered, Astray
<1> QED BY <1>1 DEF Calls!Next

\* What the links hold, as one set.
LEMMA Held ==
  /\ \A q : q \in Asked <=> (\E k \in Links : q \in On(k)) \/ q \in Building
  /\ \A q : q \in Asked' <=> (\E k \in Links : q \in On(k)') \/ q \in Building'
  /\ \A q : q \in Answered <=> \E k \in Links : q \in Back(k)
  /\ \A q : q \in Answered' <=> \E k \in Links : q \in Back(k)'
BY DEF Asked, Answered

\* Requests that are read, and links that are left, are asked no more.
LEMMA FewerAsked ==
  ASSUME Building' \subseteq Building,
         \A k \in Links : /\ ToSet(links'[k].up.pieces) \subseteq ToSet(links[k].up.pieces)
                          /\ links[k].server = "closed" => links'[k].server = "closed"
  PROVE  Asked' \subseteq Asked
<1>1. ASSUME NEW k \in Links PROVE On(k)' \subseteq On(k)
  <2>1. Asks(links'[k].up) \subseteq Asks(links[k].up)
    BY DEF Asks
  <2>2. links[k].server = "closed" => links'[k].server = "closed"
    OBVIOUS
  <2> QED BY <2>1, <2>2 DEF On
<1>2. \A q : q \in Asked' => q \in Asked
  BY <1>1, Held
<1> QED BY <1>2

\* Answers that are read are gone.
LEMMA FewerAnswered ==
  ASSUME \A k \in Links : ToSet(links'[k].down.pieces) \subseteq ToSet(links[k].down.pieces)
  PROVE  Answered' \subseteq Answered
<1>1. ASSUME NEW k \in Links PROVE Back(k)' \subseteq Back(k)
  <2>1. Shows(links'[k].down) \subseteq Shows(links[k].down)
    BY DEF Shows
  <2> QED BY <2>1 DEF Back
<1>2. \A q : q \in Answered' => q \in Answered
  BY <1>1, Held
<1> QED BY <1>2

\* Streams that stay, while no request is being built.
LEMMA SameAsked ==
  ASSUME Building = {},
         \A k \in Links : links'[k].up = links[k].up /\ (links'[k].server = "closed" <=> links[k].server = "closed")
  PROVE  Asked' = Asked \union Building'
<1>1. \A k \in Links : On(k)' = On(k)
  <2> TAKE k \in Links
  <2>1. Asks(links'[k].up) = Asks(links[k].up)
    OBVIOUS
  <2> QED BY <2>1 DEF On
<1> QED BY <1>1 DEF Asked

\* Pieces read are among those that were there.
LEMMA ReadAmong ==
  ASSUME FormInv, FormInv', \A k \in Links : Ends(links'[k].down.pieces, links[k].down.pieces)
  PROVE  \A k \in Links : ToSet(links'[k].down.pieces) \subseteq ToSet(links[k].down.pieces)
<1> TAKE k \in Links
<1>1. links[k].down.pieces \in Seq(Pieces)
  BY QueueType
<1>2. links'[k].down.pieces \in Seq(Pieces)
  BY DEF FormInv, Wire, Flow, Stream
<1> QED BY <1>1, <1>2, EndsAmong

\* The process ends: what it was going to send is never asked.
LEMMA EndsMaps ==
  ASSUME OneThread, FormInv, ProcessEnds
  PROVE  Calls!Next
<1>1. /\ Mine' = NoCall /\ fd' = 0 /\ UNCHANGED <<calls, alive, clients, skewed>>
      /\ \A k \in Links : /\ links'[k].up = links[k].up /\ links'[k].down = links[k].down
                          /\ links'[k].server = links[k].server
  BY EndsDoes
<1>2. Result' = "none" /\ Building' = {}
  BY <1>1, NoCallFacts DEF Result, Building
<1>3. ~Astray'
  BY <1>1 DEF Astray, FormInv, Links
<1>4. Asked' \subseteq Asked /\ Answered' \subseteq Answered
  BY <1>1, <1>2, FewerAsked, FewerAnswered
<1> QED BY <1>1, <1>2, <1>3, <1>4, IsLoss

\* Another connection, or none.
LEMMA ConnectMaps ==
  ASSUME OneThread, FormInv, StepInv, Connect \/ Disconnect
  PROVE  Calls!Next
<1>1. /\ \A k \in Links : /\ links'[k].up = links[k].up /\ links'[k].down = links[k].down
                          /\ links'[k].server = "closed" <=> links[k].server = "closed"
      /\ Mine' = Mine /\ Mine.at = "idle" /\ UNCHANGED <<calls, alive, clients>>
      /\ fd' \notin skewed'
  <2>1. CASE Connect
    BY <2>1, ConnectDoes
  <2>2. CASE Disconnect
    <3>1. /\ \A k \in Links : /\ links'[k].up = links[k].up /\ links'[k].down = links[k].down
                              /\ links'[k].server = links[k].server
          /\ fd' = 0 /\ Mine' = Mine /\ Mine.at = "idle"
          /\ UNCHANGED <<calls, alive, clients, skewed>>
      BY <2>2, DisconnectDoes
    <3> QED BY <3>1 DEF FormInv, Links
  <2> QED BY <2>1, <2>2
<1>2. Building = {} /\ Building' = {} /\ Result' = Result /\ Result # "pending" /\ ~Astray'
  BY <1>1, Thread DEF Building, Result, Astray, Calling
<1>3. Asked' = Asked
  BY <1>1, <1>2, SameAsked
<1>4. Answered' = Answered
  <2>1. \A k \in Links : Back(k)' = Back(k)
    BY <1>1 DEF Back
  <2> QED BY <2>1 DEF Answered
<1> QED BY <1>1, <1>2, <1>3, <1>4, IsRenew

\* Beginning a call is asking.
LEMMA BeginMaps ==
  ASSUME OneThread, FormInv, NEW c \in Callers, NEW r \in Requests, Begin(c, r)
  PROVE  Calls!Next
<1>1. /\ Mine.at = "idle" /\ Mine'.at = "send_head" /\ Mine'.id = calls + 1 /\ Mine'.request = r
      /\ calls' = calls + 1 /\ UNCHANGED <<fd, links, alive, clients, skewed>>
  BY BeginDoes
<1>2. /\ Building = {} /\ Building' = {[id |-> calls + 1, request |-> r]}
      /\ Result # "pending" /\ Result' = "pending" /\ Astray' = Astray
  BY <1>1, Thread DEF Building, Result, Astray, Calling
<1>3. Asked' = Asked \union {[id |-> calls + 1, request |-> r]}
  BY <1>1, <1>2, SameAsked
<1>4. Answered' = Answered
  BY <1>1 DEF Answered, Back
<1> QED BY <1>1, <1>2, <1>3, <1>4, IsAsk

\* A piece that goes to the server brings the request no one had asked.
LEMMA SentMaps ==
  ASSUME OneThread, FormInv, FormInv', NEW p \in UpPieces, NEW l \in Links,
         Queue(l)' = Append(Queue(l), p), \A k \in Links : k # l => links'[k] = links[k],
         links'[l].down = links[l].down, links'[l].server = links[l].server,
         p.header => Mine.at = "send_head" /\ p.of = Mine.id /\ p.request = Mine.request,
         Mine.at # "idle", Mine'.at \in {"send_body", "recv_head"},
         UNCHANGED <<fd, calls, alive, clients, skewed>>
  PROVE  Calls!Next
<1>1. ToSet(links'[l].up.pieces) \subseteq ToSet(links[l].up.pieces) \union {p}
  <2> DEFINE Was == Queue(l)  Is == Queue(l)'
  <2>1. /\ Len(Was) \in Nat /\ Len(Is) = Len(Was) + 1 /\ Is[Len(Was) + 1] = p
        /\ \A i \in 1..Len(Was) : Is[i] = Was[i]
    BY QueueGrows
  <2>2. Was \in Seq(UpPieces) /\ Is \in Seq(UpPieces)
    BY QueueType DEF Queue, FormInv, Wire, Flow, Stream
  <2> HIDE DEF Was, Is
  <2>3. DOMAIN Is = 1..(Len(Was) + 1) /\ DOMAIN Was = 1..Len(Was)
    BY <2>1, <2>2
  <2>4. \A i \in DOMAIN Is : Is[i] \in ToSet(Was) \/ Is[i] = p
    BY <2>1, <2>3 DEF ToSet
  <2>5. ToSet(Is) \subseteq ToSet(Was) \union {p}
    BY <2>4 DEF ToSet
  <2> QED BY <2>5 DEF Is, Was, Queue
<1>2. ASSUME NEW q \in On(l)' PROVE q \in On(l) \/ q \in Building
  <2>1. links[l].server # "closed" /\ q \in Asks(links'[l].up)
    BY <1>2 DEF On
  <2>2. PICK e \in ToSet(links'[l].up.pieces) : e.header /\ q = [id |-> e.of, request |-> e.request]
    BY <2>1 DEF Asks
  <2>3. CASE e = p
    BY <2>2, <2>3 DEF Building
  <2>4. CASE e \in ToSet(links[l].up.pieces)
    <3>1. q \in Asks(links[l].up)
      BY <2>2, <2>4 DEF Asks
    <3> QED BY <2>1, <3>1 DEF On
  <2> QED BY <1>1, <2>2, <2>3, <2>4
<1>3. \A k \in Links : k # l => On(k)' = On(k)
  BY DEF On
<1>4. Building' = {} /\ Result' = Result /\ Astray' = Astray
  BY DEF Building, Result, Astray
<1>5. Asked' \subseteq Asked
  <2>1. \A q : q \in Asked' => q \in Asked
    BY <1>2, <1>3, <1>4, Held
  <2> QED BY <2>1
<1>6. Answered' \subseteq Answered
  BY FewerAnswered
<1> QED BY <1>4, <1>5, <1>6, IsLoss

\* The two sends are not noticed, or the process ends.
LEMMA SendMaps ==
  ASSUME OneThread, FormInv, FormInv', NEW c \in Callers,
         (SendHead(c) /\ connected) \/ SendBody(c)
  PROVE  Calls!Next
<1>1. CASE links[fd].server = "closed"
  <2>1. ProcessEnds
    BY <1>1 DEF SendHead, SendBody, Send
  <2> QED BY <2>1, EndsMaps
<1>2. CASE links[fd].server # "closed" /\ SendHead(c) /\ connected
  <2> DEFINE p == [of |-> call[c].id, size |-> HeaderSize, header |-> TRUE,
                   request |-> call[c].request]
             next == IF PayloadSize[call[c].cmd] > 0 THEN "send_body" ELSE "recv_head"
  <2>1. call[c].at = "send_head" /\ Send(p, next, c)
    BY <1>2, Zenon DEF SendHead
  <2>2. call[c] = Mine /\ Mine \in Calling /\ Mine.request \in Requests
    BY <2>1, ItIsMine, Thread
  <2>3. p \in UpPieces /\ p.of = Mine.id /\ p.request = Mine.request
    BY <2>2 DEF UpPieces, Calling, HeaderSize
  <2>4. next \in {"send_body", "recv_head"}
    OBVIOUS
  <2> HIDE DEF p, next
  <2>5. PICK l \in Links :
          /\ l = fd /\ Queue(l)' = Append(Queue(l), p)
          /\ links'[l].down = links[l].down /\ links'[l].server = links[l].server
          /\ \A k \in Links : k # l => links'[k] = links[k]
          /\ Mine'.at = next
          /\ UNCHANGED <<fd, calls, alive, clients, skewed>>
    BY <1>2, <2>1, <2>2, <2>3, SentApart
  <2> QED BY <2>1, <2>2, <2>3, <2>4, <2>5, SentMaps
<1>3. CASE links[fd].server # "closed" /\ SendBody(c)
  <2> DEFINE p == [of |-> call[c].id, size |-> PayloadSize[call[c].cmd], header |-> FALSE,
                   request |-> call[c].request]
  <2>1. call[c].at = "send_body" /\ Send(p, "recv_head", c)
    BY <1>3, Zenon DEF SendBody
  <2>2. /\ call[c] = Mine /\ Mine \in Calling /\ Mine.request \in Requests
        /\ Mine.cmd = Mine.request.cmd
    BY <2>1, ItIsMine, Thread
  <2>3. p \in UpPieces /\ ~p.header
    BY <2>2, RequestType DEF UpPieces, Calling
  <2> HIDE DEF p
  <2>5. PICK l \in Links :
          /\ l = fd /\ Queue(l)' = Append(Queue(l), p)
          /\ links'[l].down = links[l].down /\ links'[l].server = links[l].server
          /\ \A k \in Links : k # l => links'[k] = links[k]
          /\ Mine'.at = "recv_head"
          /\ UNCHANGED <<fd, calls, alive, clients, skewed>>
    BY <1>3, <2>1, <2>2, <2>3, SentApart
  <2> QED BY <2>1, <2>2, <2>3, <2>5, SentMaps
<1> QED BY <1>1, <1>2, <1>3

\* A call that gives up; a reply that comes later meets nobody.
LEMMA GiveUpMaps ==
  ASSUME OneThread, FormInv, NEW c \in Callers,
         NothingCame(c) \/ LinkLost(c) \/ (SendHead(c) /\ ~connected)
  PROVE  Calls!Next
<1>1. /\ Mine.at # "idle" /\ Mine'.at = "idle" /\ Mine'.result = "error"
      /\ UNCHANGED <<fd, calls, links, alive, clients, skewed>>
  BY GiveUpDoes
<1>2. Result = "pending" /\ Result' = "error" /\ Building' = {} /\ Astray' = Astray
  BY <1>1 DEF Result, Building, Astray
<1>3. Asked' \subseteq Asked /\ Answered' \subseteq Answered
  BY <1>1, <1>2, FewerAsked, FewerAnswered
<1> QED BY <1>1, <1>2, <1>3, IsReturn

\* A receive: replies are read, and the call goes on, fails or succeeds.
LEMMA ReceiveMaps ==
  ASSUME OneThread, FormInv, FormInv', StepInv, OrderInv, NEW c \in Callers, RecvHead(c) \/ RecvBody(c)
  PROVE  Calls!Next
<1>1. /\ Mine.at \in {"recv_head", "recv_body"} /\ Mine'.at \in {"recv_body", "idle"}
      /\ \A k \in Links : /\ links'[k].up = links[k].up /\ links'[k].server = links[k].server
                          /\ Ends(links'[k].down.pieces, links[k].down.pieces)
      /\ UNCHANGED <<fd, calls, alive, clients>>
  BY RecvHeadDoes, RecvBodyDoes
<1>2. \/ Mine'.at = "recv_body" /\ skewed' = skewed
      \/ Mine'.at = "idle" /\ Mine'.result = "error" /\ skewed \subseteq skewed'
      \/ /\ Mine'.at = "idle" /\ Mine'.result = "OK" /\ skewed' = skewed
         /\ fd \notin skewed =>
              \E l \in Links : \E p \in ToSet(links[l].down.pieces) : p.of = Mine.id /\ p.status = "OK"
  BY RecvHeadDoes, RecvBodyDoes
<1>3. Building = {} /\ Building' = {} /\ Result = "pending"
  BY <1>1 DEF Building, Result
<1>4. Answered' \subseteq Answered
  BY <1>1, ReadAmong, FewerAnswered
<1>5. Asked' = Asked
  BY <1>1, <1>3, SameAsked
<1>6. CASE Mine'.at = "recv_body" /\ skewed' = skewed
  <2>1. Result' = Result /\ Astray' = Astray
    BY <1>1, <1>3, <1>6 DEF Result, Astray
  <2> QED BY <1>1, <1>4, <1>5, <2>1, IsLoss
<1>7. CASE Mine'.at = "idle" /\ Mine'.result = "error" /\ skewed \subseteq skewed'
  <2>1. Result' = "error" /\ (Astray => Astray')
    BY <1>1, <1>7 DEF Result, Astray
  <2> QED BY <1>1, <1>3, <1>4, <1>5, <2>1, IsReturn
<1>8. CASE /\ Mine'.at = "idle" /\ Mine'.result = "OK" /\ skewed' = skewed
           /\ fd \notin skewed =>
                \E l \in Links : \E p \in ToSet(links[l].down.pieces) : p.of = Mine.id /\ p.status = "OK"
  <2>1. Result' = "OK" /\ Astray' = Astray
    BY <1>1, <1>8 DEF Result, Astray
  <2>2. Astray \/ [id |-> calls, status |-> "OK"] \in Answered
    <3> SUFFICES ASSUME fd \notin skewed PROVE [id |-> calls, status |-> "OK"] \in Answered
      BY DEF Astray
    <3>1. PICK l \in Links : \E p \in ToSet(links[l].down.pieces) : p.of = Mine.id /\ p.status = "OK"
      BY <1>8
    <3>2. Mine.id = calls
      BY <1>1 DEF OrderInv, MineInv
    <3>3. [id |-> calls, status |-> "OK"] \in Back(l)
      BY <3>1, <3>2 DEF Back, Shows
    <3> QED BY <3>3, Held
  <2> QED BY <1>1, <1>3, <1>4, <1>5, <2>1, <2>2, IsReturn
<1> QED BY <1>2, <1>6, <1>7, <1>8

\* Accepting is not noticed; what a connection held is lost when it is left.
LEMMA ServerEndMaps ==
  ASSUME OneThread, FormInv, NEW l \in Links, Accept(l) \/ RemoveConnection(l)
  PROVE  Calls!Next
<1>1. /\ \A k \in Links : /\ links'[k].up = links[k].up /\ links'[k].down = links[k].down
                          /\ links[k].server = "closed" => links'[k].server = "closed"
      /\ Mine' = Mine /\ UNCHANGED <<fd, calls, alive, clients, skewed>>
  BY ServerEndDoes
<1>2. Building' = Building /\ Result' = Result /\ Astray' = Astray
  BY <1>1 DEF Building, Result, Astray
<1>3. Asked' \subseteq Asked /\ Answered' \subseteq Answered
  BY <1>1, <1>2, FewerAsked, FewerAnswered
<1> QED BY <1>1, <1>2, <1>3, IsLoss

\* An answer more on one link is one answer more.
LEMMA OneAnswer ==
  ASSUME NEW l \in Links, NEW a,
         ToSet(links'[l].down.pieces) = ToSet(links[l].down.pieces) \union {a},
         \A k \in Links : k # l => links'[k] = links[k]
  PROVE  Answered' = Answered \union {[id |-> a.of, status |-> a.status]}
<1>1. Back(l)' = Back(l) \union {[id |-> a.of, status |-> a.status]}
  <2> DEFINE Is == ToSet(links'[l].down.pieces)  Was == ToSet(links[l].down.pieces)
  <2>1. Back(l)' = {[id |-> p.of, status |-> p.status] : p \in Is}
    BY DEF Back, Shows
  <2>2. Back(l) = {[id |-> p.of, status |-> p.status] : p \in Was}
    BY DEF Back, Shows
  <2>3. Is = Was \union {a}
    OBVIOUS
  <2> HIDE DEF Is, Was
  <2> QED BY <2>1, <2>2, <2>3
<1>2. \A k \in Links : k # l => Back(k)' = Back(k)
  BY DEF Back
<1>3. \A q : q \in Answered' <=> q \in Answered \/ q = [id |-> a.of, status |-> a.status]
  BY <1>1, <1>2, Held
<1> QED BY <1>3

\* The server takes a request that was asked, once; or refuses; or dies.
LEMMA HandleMaps ==
  ASSUME OneThread, FormInv, FormInv', OrderInv, NEW l \in Links, HandleMessage(l)
  PROVE  Calls!Next
<1>1. alive /\ Mine' = Mine /\ UNCHANGED <<fd, calls>> /\ skewed \subseteq skewed'
  BY HandleDoes
<1>2. Building' = Building /\ Result' = Result /\ (Astray => Astray')
  BY <1>1 DEF Building, Result, Astray
<1>3. CASE /\ \A k \in Links : /\ links'[k].up = links[k].up /\ links'[k].down = links[k].down
                               /\ links[k].server = "closed" => links'[k].server = "closed"
           /\ alive' = FALSE /\ clients' = {}
  <2>1. Asked' \subseteq Asked /\ Answered' \subseteq Answered
    BY <1>2, <1>3, FewerAsked, FewerAnswered
  <2> QED BY <1>1, <1>2, <1>3, <2>1, IsDie
<1>4. CASE /\ alive' = alive /\ \A k \in Links : k # l => links'[k] = links[k]
           /\ Ends(links'[l].up.pieces, Queue(l)) /\ links'[l].server = links[l].server
           /\ Refused(l) \/ \E q : Served(l, q)
  <2>1. Queue(l) \in Seq(UpPieces) /\ links'[l].up.pieces \in Seq(UpPieces)
    BY QueueType DEF FormInv, Wire, Flow, Stream
  <2>2. Asked' \subseteq Asked
    <3>1. ToSet(links'[l].up.pieces) \subseteq ToSet(links[l].up.pieces)
      BY <1>4, <2>1, EndsAmong DEF Queue
    <3> QED BY <1>2, <1>4, <3>1, FewerAsked
  <2>3. CASE Refused(l)
    <3>1. PICK a : /\ a.of \in 0..calls /\ a.status \in Statuses \ {"OK"}
                   /\ ToSet(links'[l].down.pieces) = ToSet(links[l].down.pieces) \union {a}
      BY <2>3 DEF Refused
    <3>2. Answered' = Answered \union {[id |-> a.of, status |-> a.status]}
      BY <1>4, <3>1, OneAnswer
    <3>3. clients' = clients
      BY <2>3 DEF Refused
    <3> QED BY <1>1, <1>2, <1>4, <2>2, <3>1, <3>2, <3>3, IsRefuse
  <2>4. ASSUME NEW first, Served(l, first) PROVE Calls!Next
    <3>1. /\ first.header /\ links[l].server = "open" /\ skewed' = skewed
          /\ EndsLater(links'[l].up.pieces, Queue(l)) /\ Queue(l)[1] = first /\ Len(Queue(l)) > 0
          /\ clients' = After(clients, first.request)
      BY <2>4 DEF Served
    <3>2. PICK a : /\ a.of = first.of /\ a.status = StatusOf(clients, first.request)
                   /\ ToSet(links'[l].down.pieces) = ToSet(links[l].down.pieces) \union {a}
      BY <2>4 DEF Served
    <3> DEFINE q == [id |-> first.of, request |-> first.request]
    <3>3. Answered' = Answered \union {[id |-> q.id, status |-> StatusOf(clients, q.request)]}
      BY <1>4, <3>2, OneAnswer
    <3>4. 1 \in 1..Len(Queue(l)) /\ DOMAIN Queue(l) = 1..Len(Queue(l)) /\ Len(Queue(l)) \in Nat
      BY <2>1, <3>1
    <3>5. q \in Asked
      <4>1. first \in ToSet(links[l].up.pieces)
        BY <3>1, <3>4 DEF ToSet, Queue
      <4>2. q \in On(l)
        BY <3>1, <4>1 DEF On, Asks
      <4> QED BY <4>2, Held
    <3>6. q \notin Building
      <4>1. Mine.at = "send_head" => first.of # calls
        BY <3>1, <3>4 DEF OrderInv, Numbered
      <4>2. Mine.at # "idle" => Mine.id = calls
        BY DEF OrderInv, MineInv
      <4> QED BY <4>1, <4>2 DEF Building
    <3>7. \A k \in Links : k # l => q \notin On(k)
      <4> SUFFICES ASSUME NEW k \in Links, k # l, q \in On(k) PROVE FALSE
        OBVIOUS
      <4>1. PICK e \in ToSet(links[k].up.pieces) : e.header /\ q = [id |-> e.of, request |-> e.request]
        BY DEF On, Asks
      <4>2. PICK j \in 1..Len(Queue(k)) : Queue(k)[j] = e
        <5>1. Queue(k) \in Seq(UpPieces)
          BY QueueType
        <5> QED BY <4>1, <5>1 DEF ToSet, Queue
      <4>3. Queue(k)[j].of = first.of /\ Queue(k)[j].header
        BY <4>1, <4>2
      <4> QED BY <3>1, <3>4, <4>3, Zenon DEF OrderInv, HeadersOnce
    <3>8. q \notin On(l)'
      <4> SUFFICES ASSUME q \in On(l)' PROVE FALSE
        OBVIOUS
      <4>1. PICK e \in ToSet(links'[l].up.pieces) : e.header /\ q = [id |-> e.of, request |-> e.request]
        BY DEF On, Asks
      <4>2. PICK j \in 1..Len(links'[l].up.pieces) : links'[l].up.pieces[j] = e
        BY <2>1, <4>1 DEF ToSet
      <4>3. PICK g \in 1..Len(Queue(l)) :
              /\ Len(links'[l].up.pieces) = Len(Queue(l)) - g
              /\ \A i \in 1..Len(links'[l].up.pieces) : links'[l].up.pieces[i] = Queue(l)[g + i]
        BY <3>1 DEF EndsLater
      <4>4. g + j \in 1..Len(Queue(l)) /\ Queue(l)[g + j] = e /\ g + j # 1
        <5> DEFINE was == Queue(l)  is == links'[l].up.pieces
        <5>1. is[j] = was[g + j]
          BY <4>3
        <5>2. Len(was) \in Nat /\ g \in 1..Len(was) /\ Len(is) = Len(was) - g /\ j \in 1..Len(is)
          BY <3>4, <4>3
        <5> HIDE DEF was, is
        <5>3. g + j \in 1..Len(was) /\ g + j # 1
          BY <5>2
        <5> QED BY <4>2, <5>1, <5>3 DEF was, is
      <4> DEFINE i == g + j
      <4>5. /\ i \in 1..Len(Queue(l)) /\ i # 1
            /\ Queue(l)[i].of = Queue(l)[1].of /\ Queue(l)[i].header /\ Queue(l)[1].header
        BY <3>1, <4>1, <4>4
      <4> HIDE DEF i
      <4> QED BY <3>4, <4>5, Zenon DEF OrderInv, HeadersOnce
    <3> HIDE DEF q
    <3>9. Asked' \subseteq Asked \ {q}
      <4>1. q \notin Asked'
        <5>1. \A k \in Links : k # l => On(k)' = On(k)
          BY <1>4 DEF On
        <5> QED BY <1>2, <3>6, <3>7, <3>8, <5>1, Held
      <4> QED BY <2>2, <4>1
    <3>10. Astray' = Astray
      BY <1>1, <3>1 DEF Astray
    <3>11. first.request = q.request
      BY DEF q
    <3> QED BY <1>1, <1>2, <1>4, <3>1, <3>3, <3>5, <3>9, <3>10, <3>11, IsTake
  <2> QED BY <1>4, <2>3, <2>4
<1> QED BY <1>3, <1>4, HandleDoes, Zenon

\* Every step is one of RegistryCalls, or none.
LEMMA NextMaps ==
  ASSUME OneThread, FormInv, FormInv', StepInv, OrderInv, [Next]_vars
  PROVE  [Calls!Next]_(Calls!vars)
<1>1. ASSUME NEW c \in Callers, CallStep(c) PROVE Calls!Next
  <2>1. CASE SendHead(c)
    BY <2>1, GiveUpMaps, SendMaps
  <2> QED BY <1>1, <2>1, GiveUpMaps, SendMaps, ReceiveMaps DEF CallStep
<1>2. CASE ServerStep
  <2>1. PICK l \in Links : Accept(l) \/ HandleMessage(l) \/ RemoveConnection(l)
    BY <1>2 DEF ServerStep, Links
  <2> QED BY <2>1, ServerEndMaps, HandleMaps
<1>3. CASE UNCHANGED vars
  <2>1. UNCHANGED <<connected, fd, call, calls, links, alive, clients, skewed>>
    BY <1>3 DEF vars, ctx
  <2>2. \A k \in Links : On(k)' = On(k) /\ Back(k)' = Back(k)
    BY <2>1 DEF On, Back
  <2>3. Building' = Building /\ Result' = Result /\ Astray' = Astray
    BY <2>1 DEF Mine, Building, Result, Astray
  <2>4. Asked' = Asked /\ Answered' = Answered
    BY <2>2, <2>3 DEF Asked, Answered
  <2> QED BY <2>1, <2>3, <2>4, Given DEF Calls!vars, GivenResult, GivenAsked, GivenAnswered, Astray
<1>4. CASE Exit
  BY <1>4, EndsMaps DEF Exit
<1>5. CASE Connect \/ Disconnect
  BY <1>5, ConnectMaps
<1>6. CASE \E c \in Callers, r \in Requests : Begin(c, r)
  BY <1>6, BeginMaps
<1> QED BY <1>1, <1>2, <1>3, <1>4, <1>5, <1>6 DEF Next

\* At first nothing is asked.
LEMMA InitMaps ==
  ASSUME OneThread, Init
  PROVE  Calls!Init
<1>1. Mine = NoCall /\ \A l \in Links : links[l] = Unused
  BY DEF Init, Mine, OneThread, Links
<1>2. Building = {} /\ Result = "none"
  BY <1>1, NoCallFacts DEF Building, Result
<1>3. \A l \in Links : On(l) = {} /\ Back(l) = {}
  <2>1. Asks(Empty) = {} /\ Shows(Empty) = {}
    BY EmptyFacts DEF Asks, Shows
  <2>2. \A l \in Links : links[l].up = Empty /\ links[l].down = Empty
    BY <1>1 DEF Unused
  <2> QED BY <2>1, <2>2 DEF On, Back
<1>4. Asked = {} /\ Answered = {}
  <2>1. (\A x : x \notin Asked) /\ (\A x : x \notin Answered)
    BY <1>2, <1>3, Held
  <2> QED BY <2>1
<1>5. clients = {} /\ alive = TRUE /\ calls = 0 /\ (fd \in skewed) = FALSE
  BY DEF Init
<1> QED BY <1>2, <1>4, <1>5, Given, Zenon DEF Calls!Init, GivenResult, GivenAsked, GivenAnswered

\* For a process with one thread, through timeouts, killed processes, late
\* replies, requests read in part, replies refused and a service that dies,
\* every step of the exchange is a step of RegistryCalls or none: a request
\* takes effect at most once, and a call that succeeds has had its effect,
\* unless its connection had lost step.
THEOREM Implements == ASSUME OneThread PROVE Spec => ImplementsCalls
<1>1. Init => Calls!Init
  BY InitMaps
<1>2. FormInv /\ FormInv' /\ StepInv /\ OrderInv /\ [Next]_vars => [Calls!Next]_(Calls!vars)
  BY NextMaps
<1> QED BY <1>1, <1>2, AlwaysOrder, PTL DEF Spec, ImplementsCalls, Calls!Spec

=============================================================================
