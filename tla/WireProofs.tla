----------------------------- MODULE WireProofs -----------------------------
(***************************************************************************)
(* Frames are handled in the order sent and commits get their buffers, for *)
(* every set of frames, every buffer size and every way the stream is cut. *)
(*                                                                         *)
(* The argument is about the bytes still to be handled, in the buffer and  *)
(* then in the socket, as one sequence, Stream.  A function pl says where  *)
(* in it each frame begins (Placed, Filled).  Send appends to Stream, Read *)
(* leaves it as it is and moves the border between buffer and socket, and  *)
(* HandleFrame drops the frame in front.  The queue of descriptors is told *)
(* by the same function: it holds those of the frames that begin before    *)
(* the border (Queued).                                                    *)
(***************************************************************************)
EXTENDS LgpWire, TLAPS

\* A leaf that names no prover goes to SMT, to Zenon and to SMT once more, the
\* solver's encoding being limited by the clock.
USE SMTT(30), Zenon, SMTT(60)

Stream == rx \o unread

\* The frame whose turn it is.
Turn == Len(handled) + 1

Byte == Nat \X Nat
IsByte(x, s) == x \in Byte /\ x[1] \in 1..Len(s) /\ x[2] \in 1..Size(s[x[1]])
AreBytes(q, s) == q \in Seq(Byte) /\ \A i \in 1..Len(q) : IsByte(q[i], s)

\* The values the connection's state can take.
WireType ==
  /\ sent \in Seq(Frames)
  /\ rx \in Seq(Byte) /\ unread \in Seq(Byte) /\ AreBytes(Stream, sent)
  /\ fdq \in Seq(Nat)
  /\ handled \in Seq([frame : Nat, pay : Seq(Nat), fd : Nat])
  /\ link \in {"idle", "loop", "closed"}
  /\ clip \in Seq(Nat) /\ Len(clip) = ClipSize

\* pl lays the frames of s, from the t-th on, one after the other over n bytes.
Placed(pl, s, t, n) ==
  /\ pl \in [t..Len(s) + 1 -> Nat] /\ t \in 1..Len(s) + 1
  /\ pl[t] = 0 /\ pl[Len(s) + 1] = n
  /\ \A k \in t..Len(s) : pl[k + 1] = pl[k] + Size(s[k])
  /\ \A k \in t..Len(s), m \in t..Len(s) + 1 : k < m => pl[k] + Size(s[k]) <= pl[m]
  /\ \A i \in 1..n : \E k \in t..Len(s) : \E j \in 1..Size(s[k]) : i = pl[k] + j

\* q holds the frames' bytes at those places.
Filled(pl, s, t, q) ==
  \A k \in t..Len(s) : \A j \in 1..Size(s[k]) : q[pl[k] + j] = <<k, j>>

\* d is the descriptors of the frames that begin among the first n bytes.
Begun(pl, s, n, k) == s[k].fd /\ pl[k] < n
Queued(pl, s, t, n, d) ==
  /\ \A i, j \in 1..Len(d) : i < j => d[i] < d[j]
  /\ \A i \in 1..Len(d) : d[i] \in t..Len(s) /\ Begun(pl, s, n, d[i])
  /\ \A k \in t..Len(s) : Begun(pl, s, n, k) => \E i \in 1..Len(d) : d[i] = k

\* As long as no frame lied about its length, the stream is the frames from
\* Turn on, and when the loop has ended the first of them is not all there.
Arranged ==
  /\ \E pl : /\ Placed(pl, sent, Turn, Len(Stream)) /\ Filled(pl, sent, Turn, Stream)
             /\ GoodUpTo(Len(handled)) => Queued(pl, sent, Turn, Len(rx), fdq)
  /\ link = "idle" /\ Len(handled) < Len(sent) /\ WellFormed(sent[Turn])
       => Len(rx) < Size(sent[Turn])

WireInv ==
  /\ WireType
  /\ link # "closed" /\ WellUpTo(Len(handled)) => Arranged
  /\ UpToNul(clip) = UpToNul(Kept(lastset))
  /\ FramesInOrder
  /\ CommitsGetTheirBuffer

-----------------------------------------------------------------------------

\* A frame is at least a header long, and a header fits the buffer.
LEMMA FrameTypes ==
  ASSUME NEW f \in Frames
  PROVE  /\ f.pay \in Seq(Nat) /\ Len(f.pay) \in Nat /\ f.len \in Nat
         /\ Size(f) \in Nat \ {0} /\ Size(f) >= Header
         /\ Header \in Nat \ {0} /\ RxSize \in Nat /\ Header <= RxSize
BY WireAssumption DEF Size

\* What concatenation, dropping the front and keeping the front do.
LEMMA Concat ==
  ASSUME NEW S, NEW a \in Seq(S), NEW b \in Seq(S)
  PROVE  /\ a \o b \in Seq(S) /\ Len(a \o b) = Len(a) + Len(b)
         /\ \A i \in 1..Len(a) : (a \o b)[i] = a[i]
         /\ \A i \in 1..Len(b) : (a \o b)[Len(a) + i] = b[i]
OBVIOUS

\* Cutting off the first n elements.
LEMMA Suffix ==
  ASSUME NEW S, NEW a \in Seq(S), NEW n \in Nat, n <= Len(a)
  PROVE  /\ SubSeq(a, n + 1, Len(a)) \in Seq(S) /\ Len(SubSeq(a, n + 1, Len(a))) = Len(a) - n
         /\ \A i \in 1..Len(a) - n : SubSeq(a, n + 1, Len(a))[i] = a[n + i]
OBVIOUS

\* Keeping the first n elements.
LEMMA Prefix ==
  ASSUME NEW S, NEW a \in Seq(S), NEW n \in Nat, n <= Len(a)
  PROVE  /\ SubSeq(a, 1, n) \in Seq(S) /\ Len(SubSeq(a, 1, n)) = n
         /\ \A i \in 1..n : SubSeq(a, 1, n)[i] = a[i]
OBVIOUS

\* A sequence is known by its length and its elements.
LEMMA SameSeq ==
  ASSUME NEW S, NEW a \in Seq(S), NEW b \in Seq(S), Len(a) = Len(b),
         \A i \in 1..Len(a) : a[i] = b[i]
  PROVE  a = b
OBVIOUS

\* Concatenation is associative.
LEMMA Assoc ==
  ASSUME NEW S, NEW a \in Seq(S), NEW b \in Seq(S), NEW c \in Seq(S)
  PROVE  (a \o b) \o c = a \o (b \o c)
<1> DEFINE d == a \o b
           e == b \o c
<1>1. /\ d \in Seq(S) /\ Len(d) = Len(a) + Len(b) /\ (\A i \in 1..Len(a) : d[i] = a[i])
      /\ \A i \in 1..Len(b) : d[Len(a) + i] = b[i]
  BY Concat
<1>2. /\ e \in Seq(S) /\ Len(e) = Len(b) + Len(c) /\ (\A i \in 1..Len(b) : e[i] = b[i])
      /\ \A i \in 1..Len(c) : e[Len(b) + i] = c[i]
  BY Concat
<1> HIDE DEF d, e
<1> DEFINE l == d \o c
           r == a \o e
<1>3. /\ l \in Seq(S) /\ Len(l) = Len(d) + Len(c) /\ (\A i \in 1..Len(d) : l[i] = d[i])
      /\ \A i \in 1..Len(c) : l[Len(d) + i] = c[i]
  <2>1. d \in Seq(S)
    BY <1>1
  <2> QED
    BY ONLY <2>1, c \in Seq(S), Concat
<1>4. /\ r \in Seq(S) /\ Len(r) = Len(a) + Len(e) /\ (\A i \in 1..Len(a) : r[i] = a[i])
      /\ \A i \in 1..Len(e) : r[Len(a) + i] = e[i]
  <2>1. e \in Seq(S)
    BY <1>2
  <2> QED
    BY ONLY <2>1, a \in Seq(S), Concat
<1> HIDE DEF l, r
<1> DEFINE A == Len(a)
           B == Len(b)
           C == Len(c)
<1>5. A \in Nat /\ B \in Nat /\ C \in Nat /\ Len(d) = A + B /\ Len(e) = B + C
  BY <1>1, <1>2
<1> HIDE DEF A, B, C
<1>6. Len(l) = A + (B + C) /\ Len(r) = A + (B + C)
  BY <1>3, <1>4, <1>5 DEF A, B, C
<1>7. ASSUME NEW i \in 1..A + (B + C) PROVE l[i] = r[i]
  <2>1. CASE i <= A
    <3>1. i \in 1..A /\ i \in 1..A + B
      BY ONLY <2>1, <1>5, i \in 1..A + (B + C)
    <3> QED
      BY <3>1, <1>1, <1>3, <1>4, <1>5 DEF A
  <2>2. CASE ~(i <= A) /\ i <= A + B
    <3> DEFINE m == i - A
    <3>1. m \in 1..B /\ m \in 1..B + C /\ i = A + m /\ i \in 1..A + B
      BY ONLY <2>2, <1>5, i \in 1..A + (B + C)
    <3> HIDE DEF m
    <3>2. l[i] = b[m]
      BY <3>1, <1>1, <1>3, <1>5 DEF A, B
    <3>3. r[i] = b[m]
      BY <3>1, <1>2, <1>4, <1>5 DEF A, B
    <3> QED
      BY ONLY <3>2, <3>3
  <2>3. CASE ~(i <= A + B)
    <3> DEFINE m == i - (A + B)
    <3>1. m \in 1..C /\ B + m \in 1..B + C /\ i = (A + B) + m /\ i = A + (B + m)
      BY ONLY <2>3, <1>5, i \in 1..A + (B + C)
    <3> HIDE DEF m
    <3>2. l[i] = c[m]
      BY ONLY <3>1, <1>3, <1>5 DEF C
    <3>3. r[i] = e[B + m] /\ e[B + m] = c[m]
      BY ONLY <3>1, <1>2, <1>4, <1>5 DEF A, B, C
    <3> QED
      BY ONLY <3>2, <3>3
  <2> QED
    BY ONLY <2>1, <2>2, <2>3
<1>8. l = r
  BY ONLY <1>3, <1>4, <1>6, <1>7, SameSeq, SMTT(30), SMTT(60)
<1> QED
  BY <1>8 DEF l, r, d, e

\* Moving the border between two sequences does not change them together.
LEMMA Border ==
  ASSUME NEW S, NEW a \in Seq(S), NEW b \in Seq(S), NEW n \in Nat, n <= Len(b)
  PROVE  (a \o SubSeq(b, 1, n)) \o SubSeq(b, n + 1, Len(b)) = a \o b
<1> DEFINE p == SubSeq(b, 1, n)
           r == SubSeq(b, n + 1, Len(b))
<1>1. p \in Seq(S) /\ Len(p) = n /\ \A i \in 1..n : p[i] = b[i]
  BY Prefix
<1>2. r \in Seq(S) /\ Len(r) = Len(b) - n /\ \A i \in 1..Len(b) - n : r[i] = b[n + i]
  BY Suffix
<1> HIDE DEF p, r
<1> DEFINE c == p \o r
<1>3. /\ c \in Seq(S) /\ Len(c) = Len(p) + Len(r) /\ (\A i \in 1..Len(p) : c[i] = p[i])
      /\ \A i \in 1..Len(r) : c[Len(p) + i] = r[i]
  <2>1. p \in Seq(S) /\ r \in Seq(S)
    BY <1>1, <1>2
  <2> QED
    BY ONLY <2>1, Concat
<1> HIDE DEF c
<1>4. Len(b) \in Nat
  OBVIOUS
<1>5. ASSUME NEW i \in 1..Len(b) PROVE c[i] = b[i]
  <2>1. CASE i <= n
    <3>1. i \in 1..n
      BY ONLY <2>1, n \in Nat, i \in 1..Len(b)
    <3> QED
      BY ONLY <3>1, <1>1, <1>3
  <2>2. CASE ~(i <= n)
    <3> DEFINE m == i - n
    <3>1. m \in 1..Len(b) - n /\ i = n + m
      BY ONLY <2>2, <1>4, n \in Nat, i \in 1..Len(b)
    <3> HIDE DEF m
    <3> QED
      BY ONLY <3>1, <1>1, <1>2, <1>3
  <2> QED
    BY ONLY <2>1, <2>2
<1>6. Len(c) = Len(b)
  BY ONLY <1>1, <1>2, <1>3, <1>4, n \in Nat
<1>7. p \o r = b
  BY <1>3, <1>5, <1>6, SameSeq, Zenon DEF c
<1>8. p \in Seq(S) /\ r \in Seq(S)
  BY <1>1, <1>2
<1>9. (a \o p) \o r = a \o (p \o r)
  BY ONLY <1>8, a \in Seq(S), Assoc, SMTT(30), SMTT(60)
<1> QED
  BY <1>7, <1>9, Zenon DEF p, r

\* Dropping the front of the first of two sequences.
LEMMA DropFront ==
  ASSUME NEW S, NEW a \in Seq(S), NEW b \in Seq(S), NEW n \in Nat, n <= Len(a)
  PROVE  SubSeq(a, n + 1, Len(a)) \o b = SubSeq(a \o b, n + 1, Len(a \o b))
<1> DEFINE r == SubSeq(a, n + 1, Len(a))
           c == a \o b
<1>1. r \in Seq(S) /\ Len(r) = Len(a) - n /\ \A i \in 1..Len(a) - n : r[i] = a[n + i]
  BY Suffix
<1>2. /\ c \in Seq(S) /\ Len(c) = Len(a) + Len(b) /\ (\A i \in 1..Len(a) : c[i] = a[i])
      /\ \A i \in 1..Len(b) : c[Len(a) + i] = b[i]
  BY Concat
<1> HIDE DEF r, c
<1>3. Len(a) \in Nat /\ Len(b) \in Nat
  OBVIOUS
<1> DEFINE x == r \o b
           y == SubSeq(c, n + 1, Len(c))
<1>4. /\ x \in Seq(S) /\ Len(x) = Len(r) + Len(b) /\ (\A i \in 1..Len(r) : x[i] = r[i])
      /\ \A i \in 1..Len(b) : x[Len(r) + i] = b[i]
  <2>1. r \in Seq(S)
    BY <1>1
  <2> QED
    BY ONLY <2>1, b \in Seq(S), Concat
<1>5. y \in Seq(S) /\ Len(y) = Len(c) - n /\ \A i \in 1..Len(c) - n : y[i] = c[n + i]
  <2>1. c \in Seq(S) /\ n <= Len(c)
    BY <1>2, <1>3
  <2> QED
    BY ONLY <2>1, n \in Nat, Suffix
<1> HIDE DEF x, y
<1> DEFINE A == Len(a)
           B == Len(b)
<1>6. A \in Nat /\ B \in Nat /\ n <= A /\ Len(r) = A - n /\ Len(c) = A + B
  BY <1>1, <1>2, <1>3
<1> HIDE DEF A, B
<1>7. Len(x) = (A - n) + B /\ Len(y) = (A - n) + B
  <2>1. Len(x) = Len(r) + B /\ Len(y) = Len(c) - n
    BY <1>4, <1>5 DEF B
  <2> QED
    BY ONLY <2>1, <1>6, n \in Nat
<1>8. ASSUME NEW i \in 1..(A - n) + B PROVE x[i] = y[i]
  <2>1. i \in 1..Len(c) - n
    BY ONLY <1>6, n \in Nat, i \in 1..(A - n) + B
  <2>2. y[i] = c[n + i]
    BY ONLY <2>1, <1>5
  <2>3. CASE i <= A - n
    <3>1. i \in 1..A - n /\ n + i \in 1..A
      BY ONLY <2>3, <1>6, n \in Nat, i \in 1..(A - n) + B
    <3>2. x[i] = a[n + i]
      BY <3>1, <1>1, <1>4, <1>6 DEF A
    <3>3. c[n + i] = a[n + i]
      BY <3>1, <1>2 DEF A
    <3> QED
      BY ONLY <2>2, <3>2, <3>3
  <2>4. CASE ~(i <= A - n)
    <3> DEFINE m == i - (A - n)
    <3>1. m \in 1..B /\ i = (A - n) + m /\ n + i = A + m
      BY ONLY <2>4, <1>6, n \in Nat, i \in 1..(A - n) + B
    <3> HIDE DEF m
    <3>2. x[i] = b[m]
      BY <3>1, <1>4, <1>6 DEF B
    <3>3. c[n + i] = b[m]
      BY <3>1, <1>2 DEF A, B
    <3> QED
      BY ONLY <2>2, <3>2, <3>3
  <2> QED
    BY ONLY <2>3, <2>4
<1>9. x = y
  BY ONLY <1>4, <1>5, <1>7, <1>8, SameSeq, Zenon
<1> QED
  BY <1>9, Zenon DEF x, y, r, c

\* A frame that is still to be handled has its place in the stream.
LEMMA PlaceOf ==
  ASSUME NEW s \in Seq(Frames), NEW t, NEW n, NEW pl, Placed(pl, s, t, n), NEW k \in t..Len(s)
  PROVE  /\ k \in 1..Len(s) /\ s[k] \in Frames /\ Size(s[k]) \in Nat \ {0}
         /\ pl[k] \in Nat /\ n \in Nat /\ pl[k] + Size(s[k]) <= n
<1>1. Len(s) \in Nat /\ t \in 1..Len(s) + 1 /\ k \in Int /\ t <= k /\ k <= Len(s)
  BY DEF Placed
<1>2. k \in 1..Len(s) /\ k < Len(s) + 1 /\ k \in t..Len(s) + 1 /\ Len(s) + 1 \in t..Len(s) + 1
  BY ONLY <1>1
<1>3. s[k] \in Frames
  BY <1>2
<1>4. Size(s[k]) \in Nat \ {0}
  BY <1>3, FrameTypes
<1>5. pl \in [t..Len(s) + 1 -> Nat] /\ pl[Len(s) + 1] = n /\ pl[k] + Size(s[k]) <= pl[Len(s) + 1]
  BY <1>2 DEF Placed
<1> QED
  BY ONLY <1>2, <1>3, <1>4, <1>5

\* The size of the frames of a longer sequence.
LEMMA AppendedSize ==
  ASSUME NEW s \in Seq(Frames), NEW f \in Frames
  PROVE  /\ Append(s, f) \in Seq(Frames) /\ Len(Append(s, f)) = Len(s) + 1 /\ Len(s) \in Nat
         /\ \A k \in 1..Len(s) : Append(s, f)[k] = s[k]
         /\ Append(s, f)[Len(s) + 1] = f
OBVIOUS

\* The bytes of a frame.
LEMMA BytesOf ==
  ASSUME NEW k \in Nat, NEW f \in Frames
  PROVE  /\ Bytes(k, f) \in Seq(Byte) /\ Len(Bytes(k, f)) = Size(f)
         /\ \A j \in 1..Size(f) : Bytes(k, f)[j] = <<k, j>>
<1>1. Size(f) \in Nat
  BY FrameTypes
<1> QED
  BY <1>1 DEF Bytes, Byte

\* Send: the new frame's place is the end of the stream.
LEMMA PlacedSend ==
  ASSUME NEW s \in Seq(Frames), NEW f \in Frames, NEW t, NEW n, NEW pl, Placed(pl, s, t, n)
  PROVE  \E p2 : /\ Placed(p2, Append(s, f), t, n + Size(f)) /\ p2[Len(s) + 1] = n
                 /\ \A k \in t..Len(s) : p2[k] = pl[k]
<1> DEFINE N == Len(s)
           Z == Size(f)
           s2 == Append(s, f)
<1>1. /\ N \in Nat /\ Z \in Nat \ {0} /\ t \in 1..N + 1 /\ s2 \in Seq(Frames) /\ Len(s2) = N + 1
      /\ (\A k \in 1..N : Size(s2[k]) = Size(s[k])) /\ Size(s2[N + 1]) = Z
  BY AppendedSize, FrameTypes DEF Placed
<1>2. /\ pl \in [t..N + 1 -> Nat] /\ pl[t] = 0 /\ pl[N + 1] = n
      /\ (\A k \in t..N : pl[k + 1] = pl[k] + Size(s[k]))
      /\ \A k \in t..N, m \in t..N + 1 : k < m => pl[k] + Size(s[k]) <= pl[m]
  BY DEF Placed
<1>3. \A i \in 1..n : \E k \in t..N : \E j \in 1..Size(s[k]) : i = pl[k] + j
  BY DEF Placed
<1>4. \A k \in t..N : Size(s[k]) \in Nat \ {0}
  BY PlaceOf
<1> DEFINE p2 == [k \in t..N + 2 |-> IF k = N + 2 THEN n + Z ELSE pl[k]]
<1> HIDE DEF N, Z, s2
<1>5. n \in Nat /\ N + 1 \in t..N + 1
  BY ONLY <1>1, <1>2
<1>6. /\ p2[N + 2] = n + Z /\ \A k \in t..N + 1 : p2[k] = pl[k]
  BY ONLY <1>1, <1>5
<1>7. p2 \in [t..N + 2 -> Nat]
  <2>1. ASSUME NEW k \in t..N + 2 PROVE (IF k = N + 2 THEN n + Z ELSE pl[k]) \in Nat
    <3>1. k = N + 2 \/ k \in t..N + 1
      BY ONLY <1>1, k \in t..N + 2
    <3> QED
      BY ONLY <3>1, <1>1, <1>2, <1>5
  <2> QED
    BY ONLY <2>1
<1> HIDE DEF p2
<1>8. t \in t..N + 1 /\ p2[t] = 0 /\ p2[N + 1] = n
  BY ONLY <1>1, <1>2, <1>5, <1>6
<1>9. ASSUME NEW k \in t..N + 1 PROVE p2[k + 1] = p2[k] + Size(s2[k])
  <2>1. CASE k = N + 1
    BY ONLY <2>1, <1>1, <1>6, <1>8
  <2>2. CASE k \in t..N
    <3>1. k \in 1..N /\ k + 1 \in t..N + 1
      BY ONLY <2>2, <1>1
    <3> QED
      BY ONLY <3>1, <2>2, <1>1, <1>2, <1>6, k \in t..N + 1, SMTT(30), SMTT(60)
  <2> QED
    BY ONLY <2>1, <2>2, <1>1, k \in t..N + 1
<1>10. ASSUME NEW k \in t..N + 1, NEW m \in t..N + 2, k < m
       PROVE  p2[k] + Size(s2[k]) <= p2[m]
  <2>1. CASE k = N + 1
    <3>1. m = N + 2
      BY ONLY <2>1, <1>1, <1>10
    <3> QED
      BY ONLY <3>1, <2>1, <1>1, <1>5, <1>6, <1>8
  <2>2. CASE k \in t..N /\ m \in t..N + 1
    <3>1. k \in 1..N
      BY ONLY <2>2, <1>1
    <3> QED
      BY ONLY <3>1, <2>2, <1>1, <1>2, <1>6, <1>10, SMTT(30), SMTT(60)
  <2>3. CASE k \in t..N /\ m = N + 2
    <3>1. k \in 1..N /\ k < N + 1
      BY ONLY <2>3, <1>1
    <3>2. pl[k] + Size(s[k]) <= n /\ p2[k] = pl[k] /\ Size(s2[k]) = Size(s[k])
      BY ONLY <3>1, <2>3, <1>1, <1>2, <1>5, <1>6, <1>10
    <3>3. pl[k] \in Nat /\ Size(s[k]) \in Nat
      BY ONLY <2>3, <1>2, <1>4, <1>10
    <3> QED
      BY ONLY <3>2, <3>3, <2>3, <1>1, <1>5, <1>6
  <2>4. k = N + 1 \/ (k \in t..N /\ (m \in t..N + 1 \/ m = N + 2))
    BY ONLY <1>1, k \in t..N + 1, m \in t..N + 2
  <2> QED
    BY ONLY <2>1, <2>2, <2>3, <2>4
<1>11. ASSUME NEW i \in 1..n + Z
       PROVE  \E k \in t..N + 1 : \E j \in 1..Size(s2[k]) : i = p2[k] + j
  <2>1. CASE i \in 1..n
    <3>1. PICK k \in t..N : \E j \in 1..Size(s[k]) : i = pl[k] + j
      BY <2>1, <1>3
    <3>2. k \in 1..N /\ k \in t..N + 1
      BY ONLY <1>1, <3>1
    <3> QED
      BY ONLY <3>1, <3>2, <1>1, <1>6
  <2>2. CASE i \notin 1..n
    <3> DEFINE j == i - n
    <3>1. j \in 1..Z /\ i = n + j
      BY ONLY <2>2, <1>1, <1>5, i \in 1..n + Z
    <3> HIDE DEF j
    <3> QED
      BY ONLY <3>1, <1>1, <1>5, <1>8, Zenon
  <2> QED
    BY ONLY <2>1, <2>2
<1>12. Placed(p2, s2, t, n + Z)
  <2>1. Len(s2) = N + 1 /\ Len(s2) + 1 = N + 2 /\ t \in 1..N + 2
    BY ONLY <1>1
  <2> QED
    BY ONLY <2>1, <1>6, <1>7, <1>8, <1>9, <1>10, <1>11 DEF Placed
<1>13. \A k \in t..N : p2[k] = pl[k]
  BY ONLY <1>1, <1>6
<1> QED
  BY <1>8, <1>12, <1>13 DEF N, Z, s2

\* Send: its bytes are there.
LEMMA FilledSend ==
  ASSUME NEW s \in Seq(Frames), NEW f \in Frames, NEW t, NEW q \in Seq(Byte), NEW pl, NEW p2,
         Placed(pl, s, t, Len(q)), Filled(pl, s, t, q),
         p2[Len(s) + 1] = Len(q), \A k \in t..Len(s) : p2[k] = pl[k]
  PROVE  Filled(p2, Append(s, f), t, q \o Bytes(Len(s) + 1, f))
<1> DEFINE N == Len(s)
           Z == Size(f)
           s2 == Append(s, f)
           b == Bytes(N + 1, f)
<1>1. /\ N \in Nat /\ Z \in Nat \ {0} /\ t \in 1..N + 1 /\ s2 \in Seq(Frames) /\ Len(s2) = N + 1
      /\ (\A k \in 1..N : Size(s2[k]) = Size(s[k])) /\ Size(s2[N + 1]) = Z
  BY AppendedSize, FrameTypes DEF Placed
<1>2. b \in Seq(Byte) /\ Len(b) = Z /\ \A j \in 1..Z : b[j] = <<N + 1, j>>
  <2>1. N + 1 \in Nat
    BY ONLY <1>1
  <2> QED
    BY <2>1, BytesOf
<1> DEFINE r == q \o b
           L == Len(q)
<1> HIDE DEF b
<1>3. /\ L \in Nat
      /\ (\A i \in 1..L : r[i] = q[i]) /\ (\A i \in 1..Len(b) : r[L + i] = b[i])
  BY ONLY <1>2, q \in Seq(Byte)
<1> HIDE DEF N, Z, s2, b, r, L
<1>4. p2[N + 1] = L /\ \A k \in t..N : p2[k] = pl[k]
  BY DEF N, L
<1> SUFFICES ASSUME NEW k \in t..N + 1, NEW j \in 1..Size(s2[k]) PROVE r[p2[k] + j] = <<k, j>>
  BY <1>1, Zenon DEF Filled, N, s2, r, b
<1>5. CASE k = N + 1
  BY ONLY <1>5, <1>1, <1>2, <1>3, <1>4, j \in 1..Size(s2[k]), SMTT(30), SMTT(60)
<1>6. CASE k \in t..N
  <2>1. pl[k] \in Nat /\ Size(s[k]) \in Nat /\ pl[k] + Size(s[k]) <= L /\ k \in 1..N
    BY <1>6, PlaceOf DEF N, L
  <2>2. j \in 1..Size(s[k]) /\ p2[k] = pl[k]
    BY ONLY <2>1, <1>1, <1>4, <1>6, j \in 1..Size(s2[k])
  <2>3. q[pl[k] + j] = <<k, j>>
    BY <2>2, <1>6, Zenon DEF Filled, N
  <2>4. pl[k] + j \in 1..L
    BY ONLY <2>1, <2>2, <1>3, SMTT(30), SMTT(60)
  <2> QED
    BY ONLY <2>2, <2>3, <2>4, <1>3
<1> QED
  BY ONLY <1>1, <1>5, <1>6, k \in t..N + 1

\* Send: the new frame has not begun to arrive.
LEMMA QueuedSend ==
  ASSUME NEW s \in Seq(Frames), NEW f \in Frames, NEW t, NEW L, NEW pl, NEW p2, NEW n, NEW d,
         Placed(pl, s, t, L), n \in Nat, n <= L, Queued(pl, s, t, n, d),
         p2[Len(s) + 1] = L, \A k \in t..Len(s) : p2[k] = pl[k]
  PROVE  Queued(p2, Append(s, f), t, n, d)
<1> DEFINE N == Len(s)
           s2 == Append(s, f)
<1>1. /\ N \in Nat /\ t \in 1..N + 1 /\ Len(s2) = N + 1 /\ \A k \in 1..N : s2[k] = s[k]
  BY AppendedSize DEF Placed
<1>2. L \in Nat /\ ~(p2[N + 1] < n)
  <2>1. pl \in [t..N + 1 -> Nat] /\ pl[N + 1] = L /\ N + 1 \in t..N + 1
    BY <1>1 DEF Placed
  <2>2. L \in Nat
    BY ONLY <2>1
  <2> QED
    BY <2>2
<1>3. ASSUME NEW k \in t..N PROVE Begun(p2, s2, n, k) <=> Begun(pl, s, n, k)
  <2>1. k \in 1..N
    BY ONLY <1>1, k \in t..N
  <2>2. s2[k] = s[k] /\ p2[k] = pl[k]
    BY <2>1, <1>1
  <2> QED
    BY <2>2, Zenon DEF Begun
<1> HIDE DEF N, s2
<1>4. /\ \A i, j \in 1..Len(d) : i < j => d[i] < d[j]
      /\ \A i \in 1..Len(d) : d[i] \in t..N /\ Begun(pl, s, n, d[i])
      /\ \A k \in t..N : Begun(pl, s, n, k) => \E i \in 1..Len(d) : d[i] = k
  BY DEF Queued, N
<1>5. ASSUME NEW k \in t..N + 1, Begun(p2, s2, n, k) PROVE k \in t..N
  <2>1. p2[k] < n
    BY <1>5 DEF Begun
  <2>2. k # N + 1
    BY <2>1, <1>2
  <2> QED
    BY ONLY <2>2, <1>1, k \in t..N + 1
<1>6. \A k \in t..N : k \in t..N + 1
  BY ONLY <1>1
<1>7. /\ \A i \in 1..Len(d) : d[i] \in t..N + 1 /\ Begun(p2, s2, n, d[i])
      /\ \A k \in t..N + 1 : Begun(p2, s2, n, k) => \E i \in 1..Len(d) : d[i] = k
  BY ONLY <1>3, <1>4, <1>5, <1>6, Zenon
<1>8. Queued(p2, s2, t, n, d)
  BY ONLY <1>1, <1>4, <1>7 DEF Queued
<1> QED
  BY <1>8 DEF s2

\* HandleFrame: the frames behind the first move up by its size.
LEMMA PlacedDrop ==
  ASSUME NEW s \in Seq(Frames), NEW t, NEW n, NEW pl, Placed(pl, s, t, n), t <= Len(s)
  PROVE  /\ Size(s[t]) \in Nat \ {0} /\ Size(s[t]) <= n
         /\ \E p2 : /\ Placed(p2, s, t + 1, n - Size(s[t]))
                    /\ \A k \in t + 1..Len(s) : pl[k] = p2[k] + Size(s[t])
<1> DEFINE N == Len(s)
           Z == Size(s[t])
<1>1. N \in Nat /\ t \in 1..N + 1 /\ t <= N
  BY DEF Placed
<1>2. t \in t..N /\ t \in Int
  BY ONLY <1>1
<1>3. /\ pl \in [t..N + 1 -> Nat] /\ pl[t] = 0 /\ pl[N + 1] = n
      /\ (\A k \in t..N : pl[k + 1] = pl[k] + Size(s[k]))
      /\ \A k \in t..N, m \in t..N + 1 : k < m => pl[k] + Size(s[k]) <= pl[m]
  BY DEF Placed
<1>4. \A i \in 1..n : \E k \in t..N : \E j \in 1..Size(s[k]) : i = pl[k] + j
  BY DEF Placed
<1>5. \A k \in t..N : Size(s[k]) \in Nat \ {0}
  BY PlaceOf
<1>6. Z \in Nat \ {0} /\ Z <= n /\ n \in Nat
  BY <1>2, <1>3, PlaceOf
<1> DEFINE p2 == [k \in t + 1..N + 1 |-> pl[k] - Z]
<1> HIDE DEF N
<1>7. \A k \in t + 1..N + 1 : k \in t..N + 1 /\ t < k
  BY ONLY <1>1
<1>8. \A k \in t + 1..N + 1 : pl[k] \in Nat /\ Z <= pl[k]
  <2> SUFFICES ASSUME NEW k \in t + 1..N + 1 PROVE pl[k] \in Nat /\ Z <= pl[k]
    OBVIOUS
  <2>1. pl[k] \in Nat /\ pl[t] + Z <= pl[k]
    BY ONLY <1>2, <1>3, <1>7, k \in t + 1..N + 1
  <2> QED
    BY ONLY <2>1, <1>3, <1>6
<1> HIDE DEF Z
<1>9. \A k \in t + 1..N + 1 : p2[k] \in Nat /\ pl[k] = p2[k] + Z
  <2> SUFFICES ASSUME NEW k \in t + 1..N + 1 PROVE p2[k] \in Nat /\ pl[k] = p2[k] + Z
    OBVIOUS
  <2>1. p2[k] = pl[k] - Z /\ pl[k] \in Nat /\ Z <= pl[k]
    BY ONLY <1>8, k \in t + 1..N + 1
  <2> HIDE DEF p2
  <2> QED
    BY ONLY <2>1, <1>6
<1>10. p2 \in [t + 1..N + 1 -> Nat]
  BY ONLY <1>9
<1> HIDE DEF p2
<1>11. t + 1 \in t + 1..N + 1 /\ N + 1 \in t + 1..N + 1
  BY ONLY <1>1
<1>12. p2[t + 1] = 0
  <2>1. pl[t + 1] = pl[t] + Z
    BY <1>2, <1>3 DEF Z
  <2> QED
    BY ONLY <2>1, <1>3, <1>6, <1>9, <1>11
<1>13. p2[N + 1] = n - Z
  <2>1. pl[N + 1] = n /\ p2[N + 1] \in Nat /\ pl[N + 1] = p2[N + 1] + Z
    BY ONLY <1>3, <1>9, <1>11
  <2> QED
    BY ONLY <2>1, <1>6
<1>14. ASSUME NEW k \in t + 1..N PROVE p2[k + 1] = p2[k] + Size(s[k])
  <2>1. k \in t..N /\ k \in t + 1..N + 1 /\ k + 1 \in t + 1..N + 1
    BY ONLY <1>1, k \in t + 1..N
  <2>2. pl[k + 1] = pl[k] + Size(s[k]) /\ Size(s[k]) \in Nat
    BY ONLY <2>1, <1>3, <1>5
  <2>3. /\ p2[k] \in Nat /\ pl[k] = p2[k] + Z
        /\ p2[k + 1] \in Nat /\ pl[k + 1] = p2[k + 1] + Z
    BY ONLY <2>1, <1>9
  <2> QED
    BY ONLY <2>2, <2>3, <1>6, SMTT(30), SMTT(60)
<1>15. ASSUME NEW k \in t + 1..N, NEW m \in t + 1..N + 1, k < m
       PROVE  p2[k] + Size(s[k]) <= p2[m]
  <2>1. k \in t..N /\ k \in t + 1..N + 1 /\ m \in t..N + 1
    BY ONLY <1>1, <1>15
  <2>2. pl[k] + Size(s[k]) <= pl[m] /\ Size(s[k]) \in Nat
    BY ONLY <2>1, <1>3, <1>5, <1>15
  <2>3. p2[k] \in Nat /\ pl[k] = p2[k] + Z /\ p2[m] \in Nat /\ pl[m] = p2[m] + Z
    BY ONLY <2>1, <1>9, <1>15
  <2> QED
    BY ONLY <2>2, <2>3, <1>6
<1>16. ASSUME NEW i \in 1..n - Z
       PROVE  \E k \in t + 1..N : \E j \in 1..Size(s[k]) : i = p2[k] + j
  <2>1. i + Z \in 1..n /\ i \in Nat \ {0}
    BY ONLY <1>6, i \in 1..n - Z
  <2>2. PICK k \in t..N : \E j \in 1..Size(s[k]) : i + Z = pl[k] + j
    BY <2>1, <1>4
  <2>3. PICK j \in 1..Size(s[k]) : i + Z = pl[k] + j
    BY <2>2
  <2>4. k # t
    <3>1. ASSUME k = t PROVE FALSE
      <4>1. j \in Nat /\ j <= Z /\ pl[k] = 0
        BY <3>1, <2>3, <1>3, <1>6 DEF Z
      <4> QED
        BY ONLY <4>1, <2>1, <2>3, <1>6
    <3> QED
      BY <3>1
  <2>5. k \in t + 1..N /\ k \in t + 1..N + 1
    BY ONLY <2>2, <2>4, <1>1
  <2>6. p2[k] \in Nat /\ pl[k] = p2[k] + Z /\ j \in Nat
    BY ONLY <2>3, <2>5, <1>5, <1>9, <2>2
  <2>7. i = p2[k] + j
    BY ONLY <2>1, <2>3, <2>6, <1>6, SMTT(30), SMTT(60)
  <2> QED
    BY ONLY <2>3, <2>5, <2>7
<1>17. Placed(p2, s, t + 1, n - Z)
  <2>1. t + 1 \in 1..N + 1
    BY ONLY <1>1
  <2> QED
    BY ONLY <2>1, <1>10, <1>12, <1>13, <1>14, <1>15, <1>16 DEF Placed, N
<1>18. \A k \in t + 1..N : pl[k] = p2[k] + Z
  BY ONLY <1>1, <1>9
<1> QED
  BY <1>6, <1>17, <1>18 DEF N, Z

\* HandleFrame: their bytes move with them.
LEMMA FilledDrop ==
  ASSUME NEW s \in Seq(Frames), NEW t, NEW q \in Seq(Byte), NEW pl, NEW p2, NEW z \in Nat,
         z <= Len(q), Filled(pl, s, t, q), t \in Nat, Placed(p2, s, t + 1, Len(q) - z),
         \A k \in t + 1..Len(s) : pl[k] = p2[k] + z
  PROVE  Filled(p2, s, t + 1, SubSeq(q, z + 1, Len(q)))
<1> DEFINE r == SubSeq(q, z + 1, Len(q))
<1>1. Len(q) \in Nat /\ \A i \in 1..Len(q) - z : r[i] = q[z + i]
  BY Suffix
<1> HIDE DEF r
<1> SUFFICES ASSUME NEW k \in t + 1..Len(s), NEW j \in 1..Size(s[k]) PROVE r[p2[k] + j] = <<k, j>>
  BY Zenon DEF Filled, r
<1>2. p2[k] \in Nat /\ Size(s[k]) \in Nat /\ p2[k] + Size(s[k]) <= Len(q) - z
  BY PlaceOf
<1>3. p2[k] + j \in 1..Len(q) - z /\ z + (p2[k] + j) = (p2[k] + z) + j
  <2> DEFINE a == p2[k]
             c == Size(s[k])
             L == Len(q)
  <2>1. L \in Nat /\ a \in Nat /\ c \in Nat /\ a + c <= L - z /\ j \in Int /\ 1 <= j /\ j <= c
    BY <1>1, <1>2
  <2> HIDE DEF a, c, L
  <2>2. a + j \in 1..L - z /\ z + (a + j) = (a + z) + j
    BY ONLY <2>1, z \in Nat
  <2> QED
    BY <2>2 DEF a, L
<1>4. q[pl[k] + j] = <<k, j>>
  <2>1. k \in t..Len(s)
    BY ONLY k \in t + 1..Len(s), t \in Nat
  <2> QED
    BY <2>1 DEF Filled
<1>5. pl[k] = p2[k] + z
  OBVIOUS
<1> QED
  BY ONLY <1>1, <1>3, <1>4, <1>5, SMTT(30), SMTT(60)

\* Reading on: no descriptor came.
LEMMA QueuedMore ==
  ASSUME NEW s, NEW t, NEW pl, NEW n, NEW m, NEW d, Queued(pl, s, t, n, d),
         \A k \in t..Len(s) : Begun(pl, s, m, k) <=> Begun(pl, s, n, k)
  PROVE  Queued(pl, s, t, m, d)
BY Zenon DEF Queued

\* Reading on: one came, and it is the last in the queue.
LEMMA QueuedOne ==
  ASSUME NEW s \in Seq(Frames), NEW t, NEW L, NEW pl, Placed(pl, s, t, L),
         NEW n, n \in Nat, NEW m, NEW d \in Seq(Nat),
         NEW c \in t..Len(s), n <= pl[c], Queued(pl, s, t, n, d),
         \A k \in t..Len(s) : Begun(pl, s, m, k) <=> Begun(pl, s, n, k) \/ k = c
  PROVE  Append(d, c) \in Seq(Nat) /\ Queued(pl, s, t, m, Append(d, c))
<1> DEFINE N == Len(s)
           D == Len(d)
           e == Append(d, c)
<1>1. c \in Nat /\ N \in Nat /\ D \in Nat /\ t \in Nat
  BY PlaceOf DEF Placed
<1>2. e \in Seq(Nat) /\ Len(e) = D + 1 /\ (\A i \in 1..D : e[i] = d[i]) /\ e[D + 1] = c
  BY ONLY <1>1, d \in Seq(Nat)
<1> HIDE DEF N, D, e
<1>3. /\ \A i, j \in 1..D : i < j => d[i] < d[j]
      /\ \A i \in 1..D : d[i] \in t..N /\ Begun(pl, s, n, d[i])
      /\ \A k \in t..N : Begun(pl, s, n, k) => \E i \in 1..D : d[i] = k
  BY DEF Queued, N, D
<1>4. \A k \in t..N : Begun(pl, s, m, k) <=> Begun(pl, s, n, k) \/ k = c
  BY DEF N
<1>5. ASSUME NEW i \in 1..D PROVE d[i] < c
  <2>1. d[i] \in t..N /\ pl[d[i]] < n
    BY <1>3 DEF Begun
  <2> DEFINE x == d[i]
  <2> HIDE DEF x
  <2>2. x \in t..N /\ pl[x] < n
    BY <2>1 DEF x
  <2>3. pl[c] \in Nat /\ pl[x] \in Nat /\ Size(s[c]) \in Nat
    BY <2>2, PlaceOf DEF N
  <2>4. c < x => pl[c] + Size(s[c]) <= pl[x]
    <3>1. x \in t..N + 1
      BY ONLY <2>2, <1>1
    <3> QED
      BY <3>1 DEF Placed, N
  <2>5. x # c
    BY ONLY <2>2, <2>3, n <= pl[c], n \in Nat
  <2>6. ~(c < x)
    BY ONLY <2>2, <2>3, <2>4, n <= pl[c], n \in Nat
  <2>7. x < c
    BY ONLY <2>2, <2>5, <2>6, <1>1
  <2> QED
    BY <2>7 DEF x
<1>6. \A i \in 1..D + 1 : i \in 1..D \/ i = D + 1
  BY ONLY <1>1
<1>7. ASSUME NEW i \in 1..D + 1, NEW j \in 1..D + 1, i < j PROVE e[i] < e[j]
  <2>1. i \in 1..D
    BY ONLY <1>1, <1>7
  <2> QED
    BY ONLY <2>1, <1>2, <1>3, <1>5, <1>6, <1>7, Zenon
<1>8. c \in t..N
  BY DEF N
<1>9. ASSUME NEW i \in 1..D + 1 PROVE e[i] \in t..N /\ Begun(pl, s, m, e[i])
  BY ONLY <1>2, <1>3, <1>4, <1>6, <1>8, i \in 1..D + 1, SMTT(30), SMTT(60)
<1>10. ASSUME NEW k \in t..N, Begun(pl, s, m, k) PROVE \E i \in 1..D + 1 : e[i] = k
  <2>1. (\A i \in 1..D : i \in 1..D + 1) /\ D + 1 \in 1..D + 1
    BY ONLY <1>1
  <2> QED
    BY ONLY <2>1, <1>2, <1>3, <1>4, <1>10, Zenon
<1>11. Queued(pl, s, t, m, e)
  BY ONLY <1>2, <1>7, <1>9, <1>10 DEF Queued, N
<1> QED
  BY <1>2, <1>11 DEF e

\* HandleFrame: which frames have begun does not change when the first goes.
LEMMA BegunDrop ==
  ASSUME NEW s \in Seq(Frames), NEW t, NEW L, NEW pl, NEW p2, NEW z \in Nat, NEW n \in Nat,
         Placed(p2, s, t + 1, L), t \in Nat, \A k \in t + 1..Len(s) : pl[k] = p2[k] + z
  PROVE  \A k \in t + 1..Len(s) : Begun(p2, s, n - z, k) <=> Begun(pl, s, n, k)
<1> SUFFICES ASSUME NEW k \in t + 1..Len(s)
             PROVE  Begun(p2, s, n - z, k) <=> Begun(pl, s, n, k)
  OBVIOUS
<1> DEFINE a == p2[k]
<1>1. a \in Nat /\ pl[k] = a + z
  BY PlaceOf
<1> HIDE DEF a
<1>2. a < n - z <=> a + z < n
  BY ONLY <1>1, z \in Nat, n \in Nat
<1>3. p2[k] < n - z <=> pl[k] < n
  BY <1>1, <1>2 DEF a
<1> QED
  BY <1>3, Zenon DEF Begun

\* HandleFrame: a frame that came with no descriptor takes none.
LEMMA QueuedSkip ==
  ASSUME NEW s, NEW t, NEW pl, NEW p2, NEW n, NEW m, NEW d,
         t \in Nat, Len(s) \in Nat, Queued(pl, s, t, n, d), ~s[t].fd,
         \A k \in t + 1..Len(s) : Begun(p2, s, m, k) <=> Begun(pl, s, n, k)
  PROVE  Queued(p2, s, t + 1, m, d)
<1> DEFINE N == Len(s)
<1>1. \A k \in t..N : k = t \/ k \in t + 1..N
  OBVIOUS
<1>2. \A k \in t + 1..N : k \in t..N
  OBVIOUS
<1>3. ~Begun(pl, s, n, t)
  BY Zenon DEF Begun
<1> QED
  BY <1>1, <1>2, <1>3, Zenon DEF Queued

\* HandleFrame: one that came with a descriptor finds it first.
LEMMA QueuedTake ==
  ASSUME NEW s, NEW t, NEW pl, NEW p2, NEW n, NEW m, NEW d \in Seq(Nat),
         t \in Nat, Len(s) \in Nat, t <= Len(s), Queued(pl, s, t, n, d), Begun(pl, s, n, t),
         \A k \in t + 1..Len(s) : Begun(p2, s, m, k) <=> Begun(pl, s, n, k)
  PROVE  /\ d # << >> /\ d[1] = t /\ Tail(d) \in Seq(Nat)
         /\ Queued(p2, s, t + 1, m, Tail(d))
<1> DEFINE N == Len(s)
           D == Len(d)
           e == Tail(d)
<1>1. /\ \A i, j \in 1..D : i < j => d[i] < d[j]
      /\ \A i \in 1..D : d[i] \in t..N /\ Begun(pl, s, n, d[i])
      /\ \A k \in t..N : Begun(pl, s, n, k) => \E i \in 1..D : d[i] = k
  BY DEF Queued
<1>2. t \in t..N /\ D \in Nat
  OBVIOUS
<1>3. PICK u \in 1..D : d[u] = t
  BY <1>1, <1>2
<1>4. d # << >> /\ 1 \in 1..D /\ u \in 1..D
  BY <1>2, <1>3
<1> HIDE DEF N, D
<1>5. u = 1
  <2>1. d[1] \in t..N
    BY ONLY <1>1, <1>4
  <2>2. 1 < u => d[1] < d[u]
    BY ONLY <1>1, <1>4
  <2> QED
    BY ONLY <2>1, <2>2, <1>3, <1>4, <1>2, t \in Nat
<1>6. e \in Seq(Nat) /\ Len(e) = D - 1 /\ \A i \in 1..D - 1 : e[i] = d[i + 1]
  BY <1>4 DEF D
<1> HIDE DEF e
<1>7. \A i \in 1..D - 1 : i + 1 \in 1..D /\ i \in 1..D /\ 1 < i + 1
  BY ONLY <1>2
<1>8. ASSUME NEW i \in 1..D - 1, NEW j \in 1..D - 1, i < j PROVE e[i] < e[j]
  <2>1. i + 1 < j + 1
    BY ONLY <1>2, <1>8
  <2> QED
    BY ONLY <2>1, <1>1, <1>6, <1>7, <1>8, Zenon
<1>9. ASSUME NEW i \in 1..D - 1 PROVE e[i] \in t + 1..N /\ Begun(p2, s, m, e[i])
  <2>1. e[i] = d[i + 1] /\ d[1] < d[i + 1] /\ d[i + 1] \in t..N /\ Begun(pl, s, n, d[i + 1])
    BY ONLY <1>1, <1>4, <1>6, <1>7, i \in 1..D - 1
  <2> DEFINE x == d[i + 1]
  <2>2. x \in t..N /\ t < x
    BY <2>1, <1>3, <1>5
  <2> HIDE DEF x
  <2>3. x \in t + 1..N
    BY ONLY <2>2, t \in Nat
  <2>4. d[i + 1] \in t + 1..N
    BY <2>3 DEF x
  <2> QED
    BY <2>1, <2>4 DEF N
<1>10. ASSUME NEW k \in t + 1..N, Begun(p2, s, m, k) PROVE \E i \in 1..D - 1 : e[i] = k
  <2>1. k \in t..N /\ k # t
    BY ONLY <1>10, t \in Nat
  <2>2. Begun(pl, s, n, k)
    BY <1>10 DEF N
  <2>3. PICK i \in 1..D : d[i] = k
    BY ONLY <2>1, <2>2, <1>1
  <2>4. i # 1
    BY ONLY <2>1, <2>3, <1>3, <1>5
  <2> DEFINE j == i - 1
  <2>5. j \in 1..D - 1 /\ i = j + 1
    BY ONLY <2>3, <2>4, <1>2
  <2> HIDE DEF j
  <2> QED
    BY ONLY <2>3, <2>5, <1>6
<1>11. Queued(p2, s, t + 1, m, e)
  BY ONLY <1>6, <1>8, <1>9, <1>10 DEF Queued, N
<1> QED
  BY <1>3, <1>4, <1>5, <1>6, <1>11 DEF e

-----------------------------------------------------------------------------

\* How the stream is made of the buffer and the socket.
LEMMA Counts ==
  ASSUME WireType
  PROVE  /\ Len(sent) \in Nat /\ Len(rx) \in Nat /\ Len(unread) \in Nat /\ Len(fdq) \in Nat
         /\ Len(handled) \in Nat /\ Turn \in Nat \ {0} /\ Turn = Len(handled) + 1
         /\ Stream \in Seq(Byte) /\ Len(Stream) = Len(rx) + Len(unread)
         /\ \A i \in 1..Len(rx) : Stream[i] = rx[i]
         /\ \A i \in 1..Len(unread) : Stream[Len(rx) + i] = unread[i]
<1>1. /\ sent \in Seq(Frames) /\ rx \in Seq(Byte) /\ unread \in Seq(Byte)
      /\ fdq \in Seq(Nat) /\ handled \in Seq([frame : Nat, pay : Seq(Nat), fd : Nat])
  BY DEF WireType
<1>2. /\ Len(handled) \in Nat /\ Len(sent) \in Nat
      /\ Len(rx) \in Nat /\ Len(unread) \in Nat /\ Len(fdq) \in Nat
  BY ONLY <1>1
<1>3. Turn = Len(handled) + 1 /\ Turn \in Nat \ {0}
  BY ONLY <1>2 DEF Turn
<1> QED
  BY ONLY <1>1, <1>2, <1>3, Concat DEF Stream

\* Frames as the protocol wants them are well-formed.
LEMMA GoodIsWell ==
  ASSUME NEW n, GoodUpTo(n)
  PROVE  WellUpTo(n)
BY DEF GoodUpTo, WellUpTo, Good

\* A frame handled before any that lied is one that was sent.
LEMMA HandledWasSent ==
  ASSUME WireType, WellUpTo(Len(handled)) => Arranged, NEW i \in 1..Len(handled), WellUpTo(i)
  PROVE  i \in 1..Len(sent)
<1>1. Len(sent) \in Nat /\ Len(handled) \in Nat /\ Turn = Len(handled) + 1
  BY Counts
<1>2. CASE ~(i <= Len(sent))
  <2>1. \A k \in 1..Len(sent) : k <= i
    BY ONLY <1>1, <1>2, i \in 1..Len(handled)
  <2>2. WellUpTo(Len(handled))
    BY <2>1 DEF WellUpTo
  <2>3. Turn \in 1..Len(sent) + 1
    BY <2>2 DEF Arranged, Placed
  <2> QED
    BY ONLY <2>3, <1>1, <1>2, i \in 1..Len(handled)
<1> QED
  BY ONLY <1>1, <1>2, i \in 1..Len(handled)

\* The connection as it is accepted.
LEMMA InitHolds == WireInit => WireInv
<1> SUFFICES ASSUME WireInit PROVE WireInv
  OBVIOUS
<1>1. /\ sent = << >> /\ unread = << >> /\ rx = << >> /\ fdq = << >> /\ handled = << >>
      /\ link = "idle" /\ clip = [i \in 1..ClipSize |-> NUL] /\ lastset = << >>
      /\ got = [data |-> <<NUL>>, of |-> << >>]
  BY DEF WireInit
<1>2. Len(<< >>) = 0 /\ (\A i \in 1..0 : FALSE) /\ \A S : << >> \in Seq(S)
  OBVIOUS
<1>3. Stream = << >> /\ Turn = 1
  BY ONLY <1>1, <1>2 DEF Stream, Turn
<1>4. WireType
  <2>1. clip \in Seq(Nat) /\ Len(clip) = ClipSize
    BY <1>1, WireAssumption DEF NUL
  <2>2. /\ sent \in Seq(Frames) /\ rx \in Seq(Byte) /\ unread \in Seq(Byte)
        /\ fdq \in Seq(Nat) /\ handled \in Seq([frame : Nat, pay : Seq(Nat), fd : Nat])
    BY ONLY <1>1, <1>2, Zenon
  <2>3. AreBytes(Stream, sent)
    BY ONLY <1>2, <1>3, Zenon DEF AreBytes
  <2>4. link \in {"idle", "loop", "closed"}
    BY <1>1
  <2> QED
    BY ONLY <2>1, <2>2, <2>3, <2>4 DEF WireType
<1>5. Arranged
  <2> DEFINE pl == [k \in 1..1 |-> 0]
  <2>1. Placed(pl, << >>, 1, 0)
    BY DEF Placed
  <2>2. Filled(pl, << >>, 1, << >>) /\ Queued(pl, << >>, 1, 0, << >>)
    BY ONLY <1>2 DEF Filled, Queued
  <2>3. ~(0 < 0)
    OBVIOUS
  <2> HIDE DEF pl
  <2> QED
    BY ONLY <1>1, <1>2, <1>3, <2>1, <2>2, <2>3 DEF Arranged
<1>6. UpToNul(clip) = << >> /\ UpToNul(Kept(lastset)) = << >>
  <2>1. ASSUME NEW p, {n \in 1..Len(p) : \A j \in 1..n : p[j] # NUL} = {}
        PROVE  UpToNul(p) = << >>
    BY <2>1 DEF UpToNul
  <2>2. Kept(lastset) = << >>
    BY <1>1, WireAssumption DEF Kept
  <2>3. {n \in 1..Len(<< >>) : \A j \in 1..n : << >>[j] # NUL} = {}
    OBVIOUS
  <2>4. {n \in 1..Len(clip) : \A j \in 1..n : clip[j] # NUL} = {}
    BY <1>1, WireAssumption DEF NUL
  <2> QED
    BY ONLY <2>1, <2>2, <2>3, <2>4
<1>7. FramesInOrder
  <2>1. got.data = Append(UpToNul(Kept(got.of)), NUL)
    BY ONLY <1>1, <1>6
  <2>2. Len(rx) < RxSize
    BY <1>1, <1>2, WireAssumption
  <2> QED
    BY ONLY <1>1, <1>2, <2>1, <2>2 DEF FramesInOrder
<1>8. CommitsGetTheirBuffer
  BY ONLY <1>1, <1>2 DEF CommitsGetTheirBuffer
<1> QED
  BY ONLY <1>4, <1>5, <1>6, <1>7, <1>8 DEF WireInv

\* A byte of a frame sent is one still when another is.
LEMMA StillBytes ==
  ASSUME NEW s \in Seq(Frames), NEW f \in Frames, NEW q, AreBytes(q, s)
  PROVE  AreBytes(q \o Bytes(Len(s) + 1, f), Append(s, f))
<1> DEFINE N == Len(s)
           Z == Size(f)
           s2 == Append(s, f)
           b == Bytes(N + 1, f)
           L == Len(q)
<1>1. N \in Nat /\ Len(s2) = N + 1 /\ (\A k \in 1..N : s2[k] = s[k]) /\ s2[N + 1] = f /\ Z \in Nat
  BY AppendedSize, FrameTypes
<1>2. b \in Seq(Byte) /\ Len(b) = Z /\ \A j \in 1..Z : b[j] = <<N + 1, j>>
  <2>1. N + 1 \in Nat
    BY ONLY <1>1
  <2> QED
    BY <2>1, BytesOf
<1>3. q \in Seq(Byte) /\ L \in Nat /\ \A i \in 1..L : IsByte(q[i], s)
  BY DEF AreBytes
<1> HIDE DEF N, s2, b, Z
<1> DEFINE r == q \o b
<1>4. /\ r \in Seq(Byte) /\ Len(r) = L + Len(b)
      /\ (\A i \in 1..L : r[i] = q[i]) /\ (\A i \in 1..Len(b) : r[L + i] = b[i])
  BY ONLY <1>2, <1>3, Concat
<1> HIDE DEF L, r
<1>5. ASSUME NEW i \in 1..L PROVE IsByte(r[i], s2)
  <2> DEFINE x == q[i]
  <2>1. x \in Byte /\ x[1] \in 1..N /\ x[2] \in 1..Size(s[x[1]])
    BY <1>3 DEF IsByte, N
  <2> HIDE DEF x
  <2>2. x[1] \in 1..N + 1 /\ s2[x[1]] = s[x[1]]
    BY ONLY <2>1, <1>1
  <2>3. r[i] = x
    BY ONLY <1>4, i \in 1..L DEF x
  <2> QED
    BY ONLY <2>1, <2>2, <2>3, <1>1 DEF IsByte
<1>6. ASSUME NEW j \in 1..Z PROVE IsByte(r[L + j], s2)
  <2>1. r[L + j] = <<N + 1, j>>
    BY ONLY <1>2, <1>4, j \in 1..Z
  <2>2. <<N + 1, j>> \in Byte /\ N + 1 \in 1..N + 1
    BY ONLY <1>1, j \in 1..Z DEF Byte
  <2> QED
    BY <2>1, <2>2, <1>1 DEF IsByte, Z
<1>7. ASSUME NEW i \in 1..Len(r) PROVE IsByte(r[i], s2)
  <2>1. Len(r) = L + Z /\ L \in Nat /\ Z \in Nat
    BY <1>1, <1>2, <1>3, <1>4
  <2>2. CASE i \in 1..L
    BY <2>2, <1>5
  <2>3. CASE i \notin 1..L
    <3> DEFINE j == i - L
    <3>1. j \in 1..Z /\ i = L + j
      BY ONLY <2>1, <2>3, i \in 1..Len(r)
    <3> HIDE DEF j
    <3> QED
      BY ONLY <3>1, <1>6
  <2> QED
    BY <2>2, <2>3
<1> QED
  BY <1>4, <1>7 DEF AreBytes, r, b, s2, N

\* Send: the frame and its bytes come last.
LEMMA SendFacts ==
  ASSUME WireType, NEW f \in Frames, Send(f)
  PROVE  /\ sent' = Append(sent, f) /\ Stream' = Stream \o Bytes(Len(sent) + 1, f)
         /\ unread' \in Seq(Byte)
         /\ rx' = rx /\ fdq' = fdq /\ handled' = handled /\ link' = link /\ clip' = clip
         /\ lastset' = lastset /\ got' = got /\ Turn' = Turn /\ link # "closed"
<1>1. /\ sent' = Append(sent, f) /\ unread' = unread \o Bytes(Len(sent) + 1, f)
      /\ rx' = rx /\ fdq' = fdq /\ handled' = handled /\ link' = link /\ clip' = clip
      /\ lastset' = lastset /\ got' = got /\ Turn' = Turn /\ link # "closed"
  BY DEF Send, Turn
<1> DEFINE b == Bytes(Len(sent) + 1, f)
<1>2. rx \in Seq(Byte) /\ unread \in Seq(Byte) /\ b \in Seq(Byte)
  <2>1. Len(sent) + 1 \in Nat
    BY Counts
  <2> QED
    BY <2>1, BytesOf DEF WireType
<1> HIDE DEF b
<1>3. (rx \o unread) \o b = rx \o (unread \o b)
  BY ONLY <1>2, Assoc
<1>4. unread \o b \in Seq(Byte)
  BY ONLY <1>2
<1> QED
  BY <1>1, <1>3, <1>4 DEF Stream, b

\* A frame sent goes behind the bytes of those before it.
LEMMA SendArranged ==
  ASSUME WireType, NEW f \in Frames, Send(f), Arranged
  PROVE  Arranged'
<1> DEFINE N == Len(sent)
           t == Turn
           L == Len(Stream)
           s2 == Append(sent, f)
           q2 == Stream \o Bytes(N + 1, f)
<1>1. sent \in Seq(Frames) /\ Stream \in Seq(Byte) /\ N \in Nat /\ Len(rx) \in Nat
      /\ L = Len(rx) + Len(unread) /\ Len(unread) \in Nat /\ t = Len(handled) + 1
      /\ Len(handled) \in Nat
  BY Counts DEF WireType
<1>2. Len(s2) = N + 1 /\ s2[N + 1] = f /\ (\A k \in 1..N : s2[k] = sent[k])
      /\ Size(f) \in Nat \ {0}
  BY <1>1, AppendedSize, FrameTypes
<1>3. Len(q2) = L + Size(f)
  <2>1. N + 1 \in Nat
    BY <1>1
  <2> DEFINE b == Bytes(N + 1, f)
  <2>2. b \in Seq(Byte) /\ Len(b) = Size(f) /\ Stream \in Seq(Byte)
    BY <2>1, <1>1, BytesOf
  <2> HIDE DEF b
  <2>3. Len(Stream \o b) = Len(Stream) + Len(b)
    BY ONLY <2>2
  <2> QED
    BY <2>2, <2>3 DEF b
<1>4. sent' = s2 /\ Stream' = q2 /\ Turn' = t /\ rx' = rx /\ fdq' = fdq /\ handled' = handled
      /\ link' = link
  BY SendFacts
<1>5. PICK pl : /\ Placed(pl, sent, t, L) /\ Filled(pl, sent, t, Stream)
                /\ GoodUpTo(Len(handled)) => Queued(pl, sent, t, Len(rx), fdq)
  BY DEF Arranged
<1>6. PICK p2 : /\ Placed(p2, s2, t, L + Size(f)) /\ p2[N + 1] = L
                /\ \A k \in t..N : p2[k] = pl[k]
  <2>1. sent \in Seq(Frames) /\ Placed(pl, sent, t, L)
    BY <1>1, <1>5
  <2> HIDE DEF t, L
  <2> QED
    BY ONLY <2>1, f \in Frames, PlacedSend
<1>7. Filled(p2, s2, t, q2)
  BY <1>1, <1>5, <1>6, FilledSend
<1>8. GoodUpTo(Len(handled))' => GoodUpTo(Len(handled))
  <2> SUFFICES ASSUME GoodUpTo(Len(handled))', NEW k \in 1..N, k <= Len(handled) PROVE Good(sent[k])
    BY DEF GoodUpTo
  <2>1. k \in 1..N + 1
    BY ONLY <1>1, k \in 1..N
  <2>2. k \in 1..Len(sent') /\ sent'[k] = sent[k] /\ k <= Len(handled')
    BY <2>1, <1>2, <1>4
  <2> QED
    BY <2>2 DEF GoodUpTo
<1>9. Len(rx) <= L
  BY ONLY <1>1
<1>10. GoodUpTo(Len(handled)) => Queued(p2, s2, t, Len(rx), fdq)
  BY <1>1, <1>5, <1>6, <1>9, QueuedSend
<1>11. ASSUME link = "idle", Len(handled) < N + 1, WellFormed(s2[t])
       PROVE  Len(rx) < Size(s2[t])
  <2>1. t \in 1..N \/ t = N + 1
    BY ONLY <1>1, <1>11, SMTT(30), SMTT(60)
  <2>2. CASE t \in 1..N
    <3>1. s2[t] = sent[t] /\ Len(handled) < N
      BY <2>2, <1>1, <1>2
    <3> QED
      BY <3>1, <1>11 DEF Arranged
  <2>3. CASE t = N + 1
    <3>1. L = 0
      BY <2>3, <1>5 DEF Placed
    <3> HIDE DEF L
    <3>2. Len(rx) = 0
      BY ONLY <3>1, <1>1
    <3> QED
      BY <3>2, <2>3, <1>2
  <2> QED
    BY ONLY <2>1, <2>2, <2>3
<1> HIDE DEF N, t, L, s2, q2
<1>12. /\ Placed(p2, sent', Turn', Len(Stream')) /\ Filled(p2, sent', Turn', Stream')
       /\ GoodUpTo(Len(handled))' => Queued(p2, sent', Turn', Len(rx'), fdq')
  BY ONLY <1>3, <1>4, <1>6, <1>7, <1>8, <1>10
<1>13. link' = "idle" /\ Len(handled') < Len(sent') /\ WellFormed(sent'[Turn'])
         => Len(rx') < Size(sent'[Turn'])
  BY ONLY <1>2, <1>4, <1>11
<1> QED
  BY ONLY <1>12, <1>13 DEF Arranged

\* Sending keeps the invariant.
LEMMA SendKeeps ==
  ASSUME WireInv, NEW f \in Frames, Send(f)
  PROVE  WireInv'
<1>1. WireType /\ (WellUpTo(Len(handled)) => Arranged)
  BY DEF WireInv, Send
<1>2. /\ sent' = Append(sent, f) /\ Stream' = Stream \o Bytes(Len(sent) + 1, f)
      /\ unread' \in Seq(Byte)
      /\ rx' = rx /\ fdq' = fdq /\ handled' = handled /\ link' = link /\ clip' = clip
      /\ lastset' = lastset /\ got' = got /\ link # "closed"
  BY <1>1, SendFacts
<1>3. /\ Append(sent, f) \in Seq(Frames)
      /\ Len(Append(sent, f)) = Len(sent) + 1 /\ Len(sent) \in Nat
      /\ \A k \in 1..Len(sent) : Append(sent, f)[k] = sent[k]
  BY <1>1, AppendedSize DEF WireType
<1>4. WireType'
  <2>1. AreBytes(Stream, sent)' /\ sent' \in Seq(Frames)
    BY <1>1, <1>2, <1>3, StillBytes DEF WireType
  <2> QED
    BY <2>1, <1>1, <1>2 DEF WireType
<1>5. ASSUME NEW k \in 1..Len(sent) PROVE k \in 1..Len(sent') /\ sent'[k] = sent[k]
  <2>1. k \in 1..Len(sent) + 1
    BY ONLY <1>3, k \in 1..Len(sent)
  <2> QED
    BY ONLY <2>1, <1>2, <1>3, k \in 1..Len(sent)
<1>6. ASSUME NEW n, WellUpTo(n)' PROVE WellUpTo(n)
  BY ONLY <1>5, <1>6, Zenon DEF WellUpTo
<1>7. ASSUME NEW n, GoodUpTo(n)' PROVE GoodUpTo(n) /\ WellUpTo(n)
  <2>1. GoodUpTo(n)
    BY ONLY <1>5, <1>7, Zenon DEF GoodUpTo
  <2> QED
    BY <2>1, GoodIsWell
<1>8. link' # "closed" /\ WellUpTo(Len(handled))' => Arranged'
  <2>1. WellUpTo(Len(handled))' => WellUpTo(Len(handled))
    BY ONLY <1>2, <1>5, Zenon DEF WellUpTo
  <2> QED
    BY <2>1, <1>1, SendArranged
<1>9. FramesInOrder'
  <2>1. ASSUME NEW i \in 1..Len(handled), WellUpTo(i)'
        PROVE  handled[i].frame = i /\ handled[i].pay = sent'[i].pay
    <3>1. WellUpTo(i)
      BY <2>1, <1>6
    <3>2. sent'[i] = sent[i]
      BY <3>1, <1>1, <1>5, HandledWasSent
    <3> QED
      BY <3>1, <3>2 DEF WireInv, FramesInOrder
  <2> QED
    BY <2>1, <1>2, Zenon DEF WireInv, FramesInOrder
<1>10. CommitsGetTheirBuffer'
  <2>1. ASSUME NEW i \in 1..Len(handled), GoodUpTo(i)'
        PROVE  handled[i].fd = IF sent'[i].type = "COMMIT" THEN i ELSE NoFd
    <3>1. GoodUpTo(i) /\ WellUpTo(i)
      BY <2>1, <1>7
    <3>2. sent'[i] = sent[i]
      BY <3>1, <1>1, <1>5, HandledWasSent
    <3> QED
      BY <3>1, <3>2 DEF WireInv, CommitsGetTheirBuffer
  <2> QED
    BY <2>1, <1>2, Zenon DEF CommitsGetTheirBuffer
<1>11. (UpToNul(clip) = UpToNul(Kept(lastset)))'
  BY <1>2 DEF WireInv
<1> QED
  BY ONLY <1>4, <1>8, <1>9, <1>10, <1>11 DEF WireInv

-----------------------------------------------------------------------------

\* Read: the stream stays as it was, and the border in it moves.
LEMMA ReadFacts ==
  ASSUME WireType, NEW n \in 1..RxSize, Read(n)
  PROVE  /\ n \in Nat /\ Stream' = Stream /\ rx' \in Seq(Byte) /\ unread' \in Seq(Byte)
         /\ Len(rx') = Len(rx) + n /\ Len(rx) + n <= Len(Stream)
         /\ Len(SubSeq(unread, 1, n)) = n
         /\ \A i \in 1..n : SubSeq(unread, 1, n)[i] = Stream[Len(rx) + i]
         /\ sent' = sent /\ handled' = handled /\ clip' = clip /\ lastset' = lastset /\ got' = got
         /\ Turn' = Turn /\ link = "idle"
         /\ \/ Carried(SubSeq(unread, 1, n)) = {} /\ link' = "loop" /\ fdq' = fdq
            \/ \E k \in Carried(SubSeq(unread, 1, n)) : QueueFd(k)
         /\ OneMessage(SubSeq(unread, 1, n))
<1> DEFINE b == SubSeq(unread, 1, n)
           c == SubSeq(unread, n + 1, Len(unread))
<1>1. rx \in Seq(Byte) /\ unread \in Seq(Byte) /\ n <= Len(unread) /\ n \in Nat
  BY WireAssumption DEF WireType, Read
<1>2. rx' = rx \o b /\ unread' = c
  BY DEF Read
<1>3. b \in Seq(Byte) /\ Len(b) = n /\ \A i \in 1..n : b[i] = unread[i]
  BY ONLY <1>1, Prefix
<1>4. c \in Seq(Byte)
  BY ONLY <1>1, Suffix
<1>5. (rx \o b) \o c = rx \o unread
  BY ONLY <1>1, Border, Zenon
<1>6. /\ Len(rx) \in Nat /\ Len(unread) \in Nat /\ Len(Stream) = Len(rx) + Len(unread)
      /\ \A i \in 1..Len(unread) : Stream[Len(rx) + i] = unread[i]
  BY Counts
<1>7. Len(rx) + n <= Len(Stream)
  BY ONLY <1>1, <1>6
<1>8. ASSUME NEW i \in 1..n PROVE b[i] = Stream[Len(rx) + i]
  <2>1. i \in 1..Len(unread)
    BY ONLY <1>1, <1>6, i \in 1..n
  <2> QED
    BY ONLY <2>1, <1>3, <1>6, i \in 1..n
<1> HIDE DEF b, c
<1>9. rx \o b \in Seq(Byte) /\ Len(rx \o b) = Len(rx) + Len(b)
  BY ONLY <1>1, <1>3, Concat, Zenon
<1>10. Stream' = Stream /\ rx' \in Seq(Byte) /\ unread' \in Seq(Byte) /\ Len(rx') = Len(rx) + n
  BY ONLY <1>2, <1>3, <1>4, <1>5, <1>9, SMTT(30), SMTT(60) DEF Stream
<1>11. /\ sent' = sent /\ handled' = handled /\ clip' = clip /\ lastset' = lastset /\ got' = got
       /\ Turn' = Turn /\ link = "idle"
       /\ (Carried(b) = {} /\ link' = "loop" /\ fdq' = fdq) \/ (\E k \in Carried(b) : QueueFd(k))
       /\ OneMessage(b)
  BY DEF Read, Turn, b
<1> QED
  BY <1>1, <1>3, <1>7, <1>8, <1>10, <1>11 DEF b

\* The descriptors that come with some bytes are of the frames that begin among
\* them.
LEMMA CarriedBegin ==
  ASSUME NEW pl, NEW t, NEW q, NEW b, NEW r \in Nat, NEW n \in Nat, sent \in Seq(Frames),
         Placed(pl, sent, t, Len(q)), Filled(pl, sent, t, q), r + n <= Len(q),
         Len(b) = n, \A i \in 1..n : b[i] = q[r + i]
  PROVE  \A k : k \in Carried(b) <=>
                  k \in t..Len(sent) /\ Begun(pl, sent, r + n, k) /\ ~(pl[k] < r)
<1> DEFINE N == Len(sent)
           L == Len(q)
<1>1. /\ \A i \in 1..L : \E k \in t..N : \E j \in 1..Size(sent[k]) : i = pl[k] + j
      /\ \A k \in t..N : \A j \in 1..Size(sent[k]) : q[pl[k] + j] = <<k, j>>
      /\ r + n <= L /\ Len(b) = n /\ \A i \in 1..n : b[i] = q[r + i]
  BY DEF Placed, Filled
<1>2. \A k \in t..N : pl[k] \in Nat /\ Size(sent[k]) \in Nat \ {0} /\ L \in Nat
  BY PlaceOf
<1>3. L \in Nat
  <2>1. pl \in [t..N + 1 -> Nat] /\ t \in 1..N + 1 /\ pl[N + 1] = L /\ N \in Nat
    BY DEF Placed
  <2>2. N + 1 \in t..N + 1
    BY ONLY <2>1
  <2> QED
    BY ONLY <2>1, <2>2
<1>4. Carried(b) = {b[i][1] : i \in {i \in 1..Len(b) : CarriesFd(b[i])}}
  BY DEF Carried
<1> HIDE DEF N, L
<1>5. ASSUME NEW k \in Carried(b)
      PROVE  k \in t..N /\ Begun(pl, sent, r + n, k) /\ ~(pl[k] < r)
  <2>1. PICK i \in 1..n : CarriesFd(b[i]) /\ k = b[i][1]
    BY ONLY <1>1, <1>4, k \in Carried(b)
  <2>2. r + i \in 1..L
    BY ONLY <1>1, <1>3, r \in Nat, n \in Nat, i \in 1..n
  <2>3. PICK m \in t..N : \E j \in 1..Size(sent[m]) : r + i = pl[m] + j
    BY ONLY <2>2, <1>1
  <2>4. PICK j \in 1..Size(sent[m]) : r + i = pl[m] + j
    BY ONLY <2>3
  <2>5. b[i] = <<m, j>>
    <3>1. q[pl[m] + j] = <<m, j>> /\ b[i] = q[r + i]
      BY ONLY <1>1, m \in t..N, j \in 1..Size(sent[m]), i \in 1..n
    <3> QED
      BY ONLY <3>1, <2>4
  <2>6. k = m /\ j = 1 /\ sent[m].fd
    <3>1. b[i][1] = m /\ b[i][2] = j
      BY ONLY <2>5
    <3> QED
      BY ONLY <3>1, <2>1, Zenon DEF CarriesFd
  <2> DEFINE a == pl[m]
  <2>7. a \in Nat /\ r + i = a + 1
    BY ONLY <2>4, <2>6, <1>2, m \in t..N
  <2> HIDE DEF a
  <2>8. a < r + n /\ ~(a < r)
    BY ONLY <2>7, r \in Nat, n \in Nat, i \in 1..n, SMTT(30), SMTT(60)
  <2>9. pl[k] < r + n /\ ~(pl[k] < r) /\ k \in t..N /\ sent[k].fd
    BY <2>6, <2>8 DEF a
  <2> QED
    BY ONLY <2>9, Zenon DEF Begun
<1>6. ASSUME NEW k \in t..N, Begun(pl, sent, r + n, k), ~(pl[k] < r)
      PROVE  k \in Carried(b)
  <2>1. sent[k].fd /\ pl[k] < r + n
    BY <1>6, Zenon DEF Begun
  <2> DEFINE a == pl[k]
             i == (a - r) + 1
  <2>2. a \in Nat /\ a < r + n /\ ~(a < r)
    BY ONLY <2>1, <1>2, <1>6
  <2> HIDE DEF a
  <2>3. i \in 1..n /\ r + i = a + 1
    BY ONLY <2>2, r \in Nat, n \in Nat
  <2> HIDE DEF i
  <2>4. 1 \in 1..Size(sent[k])
    BY ONLY <1>2, k \in t..N
  <2>5. q[a + 1] = <<k, 1>>
    BY ONLY <2>4, <1>1, k \in t..N, Zenon DEF a
  <2>6. b[i] = <<k, 1>> /\ i \in 1..Len(b)
    BY ONLY <2>3, <2>5, <1>1, Zenon
  <2>7. b[i][1] = k /\ b[i][2] = 1
    BY ONLY <2>6
  <2>8. CarriesFd(b[i])
    BY ONLY <2>1, <2>7, ZenonT(60) DEF CarriesFd
  <2> QED
    BY ONLY <2>6, <2>7, <2>8, <1>4
<1> QED
  BY <1>5, <1>6 DEF N

\* Read: the descriptor that comes is of the one frame with a descriptor that
\* begins in what is read, and there is room for it.
LEMMA ReadQueue ==
  ASSUME WireType, NEW n \in 1..RxSize, Read(n), NEW pl,
         Placed(pl, sent, Turn, Len(Stream)), Filled(pl, sent, Turn, Stream),
         Queued(pl, sent, Turn, Len(rx), fdq), link' # "closed"
  PROVE  Queued(pl, sent, Turn, Len(rx'), fdq')
<1> DEFINE b == SubSeq(unread, 1, n)
           r == Len(rx)
           N == Len(sent)
           t == Turn
<1>1. /\ n \in Nat /\ Len(rx') = r + n /\ r + n <= Len(Stream) /\ Len(b) = n
      /\ \A i \in 1..n : b[i] = Stream[r + i]
      /\ (Carried(b) = {} /\ link' = "loop" /\ fdq' = fdq) \/ (\E k \in Carried(b) : QueueFd(k))
      /\ OneMessage(b)
  BY ReadFacts
<1>2. sent \in Seq(Frames) /\ fdq \in Seq(Nat) /\ r \in Nat
  BY Counts DEF WireType
<1> HIDE DEF b, r, t
<1>3. Placed(pl, sent, t, Len(Stream)) /\ Filled(pl, sent, t, Stream) /\ Queued(pl, sent, t, r, fdq)
  BY DEF r, t
<1>4. \A k : k \in Carried(b) <=> k \in t..N /\ Begun(pl, sent, r + n, k) /\ ~(pl[k] < r)
  BY ONLY <1>1, <1>2, <1>3, CarriedBegin, Zenon
<1>5. ASSUME NEW k \in t..N
      PROVE  Begun(pl, sent, r + n, k) <=> Begun(pl, sent, r, k) \/ k \in Carried(b)
  <2>1. pl[k] \in Nat
    BY <1>2, <1>3, PlaceOf
  <2>2. pl[k] < r => pl[k] < r + n
    BY ONLY <2>1, <1>1, <1>2, SMTT(30), SMTT(60)
  <2> QED
    BY ONLY <2>2, <1>4, k \in t..N, Zenon DEF Begun
<1>6. CASE Carried(b) = {} /\ fdq' = fdq
  <2>1. \A k \in t..N : Begun(pl, sent, r + n, k) <=> Begun(pl, sent, r, k)
    BY ONLY <1>5, <1>6, SMTT(30), SMTT(60)
  <2> QED
    BY <2>1, <1>1, <1>3, <1>6, QueuedMore DEF t
<1>7. CASE \E k \in Carried(b) : QueueFd(k)
  <2>1. PICK c \in Carried(b) : QueueFd(c)
    BY <1>7
  <2>2. \A k \in Carried(b) : k = c
    BY <1>1, <2>1 DEF OneMessage
  <2>3. c \in t..N /\ ~(pl[c] < r)
    BY <1>4, <2>1
  <2>4. pl[c] \in Nat
    BY <2>3, <1>2, <1>3, PlaceOf
  <2>5. r <= pl[c]
    BY ONLY <2>3, <2>4, <1>2
  <2>6. \A k \in t..N : Begun(pl, sent, r + n, k) <=> Begun(pl, sent, r, k) \/ k = c
    BY ONLY <2>1, <2>2, <1>5
  <2>7. fdq' = Append(fdq, c)
    BY <2>1 DEF QueueFd
  <2>8. Queued(pl, sent, t, r + n, Append(fdq, c))
    BY ONLY <2>3, <2>5, <2>6, <1>2, <1>3, QueuedOne, Zenon
  <2> QED
    BY <2>7, <2>8, <1>1 DEF t
<1> QED
  BY <1>1, <1>6, <1>7

\* Read: between events there is at most one descriptor in the queue, that of
\* the frame that is not all there yet.
LEMMA QueueShort ==
  ASSUME WireType, link = "idle", NEW pl, Placed(pl, sent, Turn, Len(Stream)),
         Queued(pl, sent, Turn, Len(rx), fdq), Turn <= Len(sent) => Len(rx) < Size(sent[Turn])
  PROVE  Len(fdq) < QueueMax
<1> DEFINE N == Len(sent)
           t == Turn
           r == Len(rx)
<1>1. N \in Nat /\ t \in Nat /\ r \in Nat /\ Len(fdq) \in Nat /\ sent \in Seq(Frames)
      /\ QueueMax \in Nat \ {0, 1}
  BY Counts, WireAssumption DEF WireType
<1>2. /\ \A i, j \in 1..Len(fdq) : i < j => fdq[i] < fdq[j]
      /\ \A i \in 1..Len(fdq) : fdq[i] \in t..N /\ pl[fdq[i]] < r
  BY DEF Queued, Begun
<1> HIDE DEF N, t, r
<1>3. ASSUME Len(fdq) >= 2 PROVE FALSE
  <2>1. 1 \in 1..Len(fdq) /\ 2 \in 1..Len(fdq) /\ 1 < 2
    BY ONLY <1>1, <1>3
  <2> DEFINE k == fdq[2]
             x == fdq[1]
  <2>2. x \in t..N /\ k \in t..N /\ x < k /\ pl[k] < r
    BY ONLY <2>1, <1>2
  <2> HIDE DEF k, x
  <2>3. t \in t..N /\ t < k /\ k \in t..N + 1 /\ t <= N
    BY ONLY <2>2, <1>1
  <2>4. pl[t] = 0 /\ pl[t] + Size(sent[t]) <= pl[k]
    BY <2>3 DEF Placed, N, t
  <2>5. pl[k] \in Nat /\ Size(sent[t]) \in Nat /\ r < Size(sent[t])
    BY <2>2, <2>3, <1>1, PlaceOf DEF N, t, r
  <2> QED
    BY ONLY <2>2, <2>4, <2>5, <1>1
<1> QED
  BY ONLY <1>1, <1>3, SMTT(30), SMTT(60)

\* Reading keeps the invariant, however many bytes it gets.
LEMMA ReadKeeps ==
  ASSUME WireInv, NEW n \in 1..RxSize, Read(n)
  PROVE  WireInv'
<1> DEFINE b == SubSeq(unread, 1, n)
<1>1. WireType /\ (WellUpTo(Len(handled)) => Arranged)
  BY DEF WireInv, Read
<1>2. /\ Stream' = Stream /\ rx' \in Seq(Byte) /\ unread' \in Seq(Byte)
      /\ sent' = sent /\ handled' = handled /\ clip' = clip /\ lastset' = lastset /\ got' = got
      /\ Turn' = Turn /\ link = "idle"
  BY <1>1, ReadFacts
<1>3. (Carried(b) = {} /\ link' = "loop" /\ fdq' = fdq) \/ (\E k \in Carried(b) : QueueFd(k))
  BY <1>1, ReadFacts
<1>4. link' \in {"loop", "closed"} /\ (Len(fdq) < QueueMax => link' = "loop")
  BY ONLY <1>3 DEF QueueFd
<1>5. WireType'
  <2>1. ASSUME NEW k \in Carried(b) PROVE k \in Nat
    <3>1. unread \in Seq(Byte) /\ n \in Nat /\ n <= Len(unread)
      BY <1>1, WireAssumption DEF WireType, Read
    <3>2. b \in Seq(Byte)
      BY ONLY <3>1, Prefix
    <3>3. \A i \in 1..Len(b) : b[i][1] \in Nat
      BY ONLY <3>2 DEF Byte
    <3> HIDE DEF b
    <3> QED
      BY ONLY <3>3, k \in Carried(b) DEF Carried
  <2>2. fdq' \in Seq(Nat)
    <3>1. fdq \in Seq(Nat)
      BY <1>1 DEF WireType
    <3> HIDE DEF b
    <3>2. ASSUME NEW k \in Carried(b), QueueFd(k) PROVE fdq' \in Seq(Nat)
      <4>1. k \in Nat /\ (fdq' = fdq \/ fdq' = Append(fdq, k))
        BY <3>2, <2>1 DEF QueueFd
      <4> QED
        BY ONLY <4>1, <3>1, SMTT(30), SMTT(60)
    <3> QED
      BY ONLY <3>1, <3>2, <1>3
  <2> QED
    BY <2>2, <1>1, <1>2, <1>4 DEF WireType
<1>6. ASSUME NEW m PROVE (WellUpTo(m)' <=> WellUpTo(m)) /\ (GoodUpTo(m)' <=> GoodUpTo(m))
  BY <1>2 DEF WellUpTo, GoodUpTo
<1>7. (WellUpTo(Len(handled))' <=> WellUpTo(Len(handled)))
      /\ (GoodUpTo(Len(handled))' <=> GoodUpTo(Len(handled)))
      /\ (GoodUpTo(Len(sent))' <=> GoodUpTo(Len(sent)))
  BY <1>2 DEF WellUpTo, GoodUpTo
<1>8. ASSUME Arranged, link' # "closed" PROVE Arranged'
  <2>1. PICK pl : /\ Placed(pl, sent, Turn, Len(Stream)) /\ Filled(pl, sent, Turn, Stream)
                  /\ GoodUpTo(Len(handled)) => Queued(pl, sent, Turn, Len(rx), fdq)
    BY <1>8 DEF Arranged
  <2>2. GoodUpTo(Len(handled)) => Queued(pl, sent, Turn, Len(rx'), fdq')
    BY <2>1, <1>1, <1>8, ReadQueue
  <2>3. link' # "idle"
    BY <1>4
  <2>4. /\ Placed(pl, sent', Turn', Len(Stream')) /\ Filled(pl, sent', Turn', Stream')
        /\ GoodUpTo(Len(handled))' => Queued(pl, sent', Turn', Len(rx'), fdq')
    BY ONLY <2>1, <2>2, <1>2, <1>7
  <2> QED
    BY ONLY <2>3, <2>4 DEF Arranged
<1>9. ASSUME GoodUpTo(Len(sent)) PROVE link' # "closed"
  <2>1. Len(handled) \in Nat /\ Len(sent) \in Nat /\ Turn = Len(handled) + 1 /\ Turn \in Nat \ {0}
    BY <1>1, Counts
  <2>2. GoodUpTo(Len(handled)) /\ \A k \in 1..Len(sent) : WellFormed(sent[k])
    BY <2>1, <1>9 DEF GoodUpTo, Good
  <2>3. Arranged
    BY <2>2, <1>1, GoodIsWell
  <2>4. PICK pl : Placed(pl, sent, Turn, Len(Stream)) /\ Queued(pl, sent, Turn, Len(rx), fdq)
    BY <2>2, <2>3 DEF Arranged
  <2>5. Turn <= Len(sent) => Turn \in 1..Len(sent) /\ Len(handled) < Len(sent)
    BY ONLY <2>1
  <2>6. Turn <= Len(sent) => Len(rx) < Size(sent[Turn])
    BY <2>2, <2>3, <2>5, <1>2 DEF Arranged
  <2> QED
    BY <2>4, <2>6, <1>1, <1>2, <1>4, QueueShort
<1>10. FramesInOrder'
  <2>1. link' # "idle"
    BY <1>4
  <2>2. \A i \in 1..Len(handled) :
          WellUpTo(i)' => handled[i].frame = i /\ handled[i].pay = sent[i].pay
    BY <1>6 DEF WireInv, FramesInOrder
  <2>3. (link = "closed" => ~GoodUpTo(Len(sent)))'
    BY <1>7, <1>9
  <2>4. (got.data = Append(UpToNul(Kept(got.of)), NUL))'
    BY <1>2 DEF WireInv, FramesInOrder
  <2> QED
    BY ONLY <2>1, <2>2, <2>3, <2>4, <1>2 DEF FramesInOrder
<1>11. CommitsGetTheirBuffer'
  <2>1. \A i \in 1..Len(handled) :
          GoodUpTo(i)' => handled[i].fd = IF sent[i].type = "COMMIT" THEN i ELSE NoFd
    BY <1>6 DEF WireInv, CommitsGetTheirBuffer
  <2> QED
    BY ONLY <2>1, <1>2 DEF CommitsGetTheirBuffer
<1>12. (UpToNul(clip) = UpToNul(Kept(lastset)))'
  BY <1>2 DEF WireInv
<1>13. link' # "closed" /\ WellUpTo(Len(handled))' => Arranged'
  BY <1>1, <1>7, <1>8
<1> QED
  BY ONLY <1>5, <1>10, <1>11, <1>12, <1>13 DEF WireInv

-----------------------------------------------------------------------------

\* What the loop takes for a header is the header of a frame that was sent.
LEMMA Found ==
  ASSUME WireType, Len(rx) >= Header, PeekHeader(rx) # 0
  PROVE  PeekHeader(rx) \in 1..Len(sent) /\ sent[PeekHeader(rx)] \in Frames
<1>1. PeekHeader(rx) = rx[1][1]
  BY Zenon DEF PeekHeader
<1>2. Len(rx) \in Nat /\ Len(unread) \in Nat /\ Len(Stream) = Len(rx) + Len(unread)
  BY Counts
<1>3. 1 \in 1..Len(rx) /\ 1 \in 1..Len(Stream)
  BY ONLY <1>2, Len(rx) >= Header, WireAssumption
<1>4. Stream[1] = rx[1]
  BY <1>3, Counts
<1>5. IsByte(rx[1], sent) /\ sent \in Seq(Frames)
  BY <1>3, <1>4 DEF WireType, AreBytes
<1>6. rx[1][1] \in 1..Len(sent)
  BY ONLY <1>5 DEF IsByte
<1> QED
  BY ONLY <1>1, <1>5, <1>6

\* The frame the loop finds at the front of the buffer is the one whose turn it
\* is, and nothing of another lies before its end.
LEMMA Front ==
  ASSUME WireType, Arranged, Len(rx) >= Header
  PROVE  /\ Turn \in 1..Len(sent) /\ PeekHeader(rx) = Turn /\ sent[Turn] \in Frames
         /\ \A j \in 1..Len(rx) : j <= Size(sent[Turn]) => rx[j] = <<Turn, j>>
<1> DEFINE N == Len(sent)
           t == Turn
           Z == Size(sent[t])
<1>1. /\ N \in Nat /\ t \in Nat /\ Len(rx) \in Nat /\ Len(unread) \in Nat
      /\ Len(Stream) = Len(rx) + Len(unread) /\ sent \in Seq(Frames)
  BY Counts DEF WireType
<1>2. Header \in Nat \ {0} /\ Len(rx) >= Header
  BY WireAssumption
<1>3. PICK pl : Placed(pl, sent, t, Len(Stream)) /\ Filled(pl, sent, t, Stream)
  BY DEF Arranged
<1> HIDE DEF N, t
<1>4. t \in 1..N + 1 /\ pl[t] = 0 /\ pl[N + 1] = Len(Stream)
  BY <1>3 DEF Placed, N
<1>5. t \in 1..N /\ t \in t..N
  <2>1. Len(Stream) # 0
    BY ONLY <1>1, <1>2
  <2>2. t # N + 1
    BY ONLY <2>1, <1>4
  <2> QED
    BY ONLY <2>2, <1>1, <1>4
<1>6. sent[t] \in Frames /\ Z \in Nat /\ Z >= Header
  BY <1>1, <1>5, FrameTypes DEF N
<1>7. \A j \in 1..Z : Stream[pl[t] + j] = <<t, j>>
  BY <1>3, <1>5 DEF Filled, N
<1> HIDE DEF Z
<1>8. ASSUME NEW j \in 1..Len(rx), j <= Z PROVE rx[j] = <<t, j>>
  <2>1. j \in 1..Z /\ 0 + j = j
    BY ONLY <1>1, <1>6, <1>8
  <2>2. Stream[j] = <<t, j>>
    BY ONLY <2>1, <1>4, <1>7
  <2> QED
    BY <2>2, Counts
<1>9. ASSUME NEW j \in 1..Header PROVE rx[j] = <<t, j>>
  <2>1. j \in 1..Len(rx) /\ j <= Z
    BY ONLY <1>1, <1>2, <1>6, j \in 1..Header
  <2> QED
    BY ONLY <2>1, <1>8
<1>10. 1 \in 1..Header
  BY ONLY <1>2
<1>11. rx[1] = <<t, 1>> /\ rx[1][1] = t
  BY ONLY <1>9, <1>10
<1>12. PeekHeader(rx) = t
  BY ONLY <1>9, <1>11 DEF PeekHeader
<1> QED
  BY <1>5, <1>6, <1>8, <1>12 DEF N, t, Z

\* The loop ends with a frame that is not all there, or closes a connection
\* that is not as it should be.
LEMMA StopKeeps ==
  ASSUME WireInv, link = "loop", StopReading, UNCHANGED <<sent, unread>>
  PROVE  WireInv'
<1> DEFINE N == Len(sent)
           t == Turn
           k == PeekHeader(rx)
<1>1. WireType /\ (WellUpTo(Len(handled)) => Arranged)
  BY DEF WireInv
<1>2. N \in Nat /\ Len(rx) \in Nat /\ Len(handled) \in Nat /\ t = Len(handled) + 1
  BY <1>1, Counts
<1>3. Header \in Nat \ {0} /\ RxSize \in Nat /\ Header <= RxSize
  BY WireAssumption
<1>4. /\ rx' = rx /\ fdq' = fdq /\ handled' = handled /\ clip' = clip /\ lastset' = lastset
      /\ got' = got /\ sent' = sent /\ unread' = unread /\ Turn' = Turn /\ Stream' = Stream
  BY DEF StopReading, Turn, Stream
<1>5. \/ Len(rx) < Header /\ link' = "idle"
      \/ /\ Len(rx) >= Header /\ link' = "closed"
         /\ k = 0 \/ sent[k].len < Header \/ sent[k].len > RxSize
      \/ /\ Len(rx) >= Header /\ link' = "idle" /\ k # 0
         /\ ~(sent[k].len > RxSize) /\ Len(rx) < sent[k].len
  BY DEF StopReading
<1> HIDE DEF k
<1>6. link' \in {"idle", "closed"}
  BY ONLY <1>5
<1>7. WireType'
  BY <1>1, <1>4, <1>6 DEF WireType
<1>8. ASSUME Arranged, Len(rx) >= Header
      PROVE  /\ t \in 1..N /\ k = t /\ Size(sent[t]) \in Nat
             /\ WellFormed(sent[t]) => /\ sent[t].len = Size(sent[t]) /\ sent[t].len <= RxSize
                                       /\ Size(sent[t]) >= Header
  <2>1. t \in 1..N /\ k = t /\ sent[t] \in Frames
    BY <1>1, <1>8, Front DEF k
  <2> QED
    BY <2>1, FrameTypes DEF WellFormed
<1>9. ASSUME Arranged, link' = "idle", Len(handled) < N, WellFormed(sent[t])
      PROVE  Len(rx) < Size(sent[t])
  <2>1. CASE Len(rx) < Header
    <3>1. t \in 1..N
      BY ONLY <1>2, <1>9
    <3>2. sent[t] \in Frames
      BY <3>1, <1>1 DEF WireType
    <3>3. Size(sent[t]) \in Nat /\ Size(sent[t]) >= Header
      BY <3>2, FrameTypes
    <3> QED
      BY ONLY <3>3, <2>1, <1>2, <1>3
  <2>2. CASE Len(rx) >= Header
    <3>1. Len(rx) < sent[k].len
      BY ONLY <2>2, <1>2, <1>3, <1>5, <1>9
    <3> QED
      BY <3>1, <2>2, <1>8, <1>9
  <2> QED
    BY ONLY <2>1, <2>2, <1>2, <1>3
<1>10. ASSUME NEW m PROVE (WellUpTo(m)' <=> WellUpTo(m)) /\ (GoodUpTo(m)' <=> GoodUpTo(m))
  BY <1>4 DEF WellUpTo, GoodUpTo
<1>11. (WellUpTo(Len(handled))' <=> WellUpTo(Len(handled)))
       /\ (GoodUpTo(Len(handled))' <=> GoodUpTo(Len(handled)))
       /\ (GoodUpTo(Len(sent))' <=> GoodUpTo(Len(sent)))
  BY <1>4 DEF WellUpTo, GoodUpTo
<1>12. link' # "closed" /\ WellUpTo(Len(handled))' => Arranged'
  <2> SUFFICES ASSUME link' # "closed", WellUpTo(Len(handled))' PROVE Arranged'
    OBVIOUS
  <2>1. Arranged /\ link' = "idle"
    BY <1>1, <1>6, <1>11
  <2>2. PICK pl : /\ Placed(pl, sent, t, Len(Stream)) /\ Filled(pl, sent, t, Stream)
                  /\ GoodUpTo(Len(handled)) => Queued(pl, sent, t, Len(rx), fdq)
    BY <2>1 DEF Arranged
  <2>3. /\ Placed(pl, sent', Turn', Len(Stream')) /\ Filled(pl, sent', Turn', Stream')
        /\ GoodUpTo(Len(handled))' => Queued(pl, sent', Turn', Len(rx'), fdq')
    BY ONLY <2>2, <1>4, <1>11
  <2>4. Len(handled') < Len(sent') /\ WellFormed(sent'[Turn']) => Len(rx') < Size(sent'[Turn'])
    BY ONLY <2>1, <1>4, <1>9
  <2> QED
    BY ONLY <2>3, <2>4 DEF Arranged
<1>13. ASSUME GoodUpTo(N), link' = "closed" PROVE FALSE
  <2>1. GoodUpTo(Len(handled)) /\ \A m \in 1..N : WellFormed(sent[m])
    BY <1>2, <1>13 DEF GoodUpTo, Good
  <2>2. Arranged
    BY <2>1, <1>1, GoodIsWell
  <2>3. Len(rx) >= Header /\ (k = 0 \/ sent[k].len < Header \/ sent[k].len > RxSize)
    BY ONLY <1>5, <1>13, SMTT(30), SMTT(60)
  <2>4. /\ t \in 1..N /\ k = t /\ Size(sent[t]) \in Nat /\ sent[k].len = Size(sent[t])
        /\ sent[k].len <= RxSize /\ Size(sent[t]) >= Header
    BY <2>1, <2>2, <2>3, <1>8
  <2> DEFINE z == sent[k].len
  <2>5. z \in Nat /\ z <= RxSize /\ z >= Header /\ k # 0 /\ (z < Header \/ z > RxSize)
    BY <2>3, <2>4
  <2> HIDE DEF z
  <2> QED
    BY ONLY <2>5, <1>3
<1>14. ASSUME link' = "idle" PROVE Len(rx) < RxSize
  <2>1. CASE Len(rx) < Header
    BY ONLY <2>1, <1>2, <1>3
  <2>2. CASE ~(Len(rx) < Header)
    <3>1. Len(rx) >= Header
      BY ONLY <2>2, <1>2, <1>3
    <3>2. k # 0 /\ ~(sent[k].len > RxSize) /\ Len(rx) < sent[k].len
      BY ONLY <2>2, <1>5, <1>14
    <3>3. sent[k].len \in Nat
      BY <3>1, <3>2, <1>1, Found, FrameTypes DEF k
    <3> QED
      BY ONLY <3>2, <3>3, <1>2, <1>3
  <2> QED
    BY ONLY <2>1, <2>2
<1>15. FramesInOrder'
  <2>1. (link = "closed" => ~GoodUpTo(Len(sent)))'
    BY ONLY <1>11, <1>13
  <2>2. \A i \in 1..Len(handled) :
          WellUpTo(i)' => handled[i].frame = i /\ handled[i].pay = sent[i].pay
    BY <1>10 DEF WireInv, FramesInOrder
  <2>3. (got.data = Append(UpToNul(Kept(got.of)), NUL))'
    BY <1>4 DEF WireInv, FramesInOrder
  <2> QED
    BY ONLY <2>1, <2>2, <2>3, <1>4, <1>14 DEF FramesInOrder
<1>16. CommitsGetTheirBuffer'
  <2>1. \A i \in 1..Len(handled) :
          GoodUpTo(i)' => handled[i].fd = IF sent[i].type = "COMMIT" THEN i ELSE NoFd
    BY <1>10 DEF WireInv, CommitsGetTheirBuffer
  <2> QED
    BY ONLY <2>1, <1>4 DEF CommitsGetTheirBuffer
<1>17. (UpToNul(clip) = UpToNul(Kept(lastset)))'
  BY <1>4 DEF WireInv
<1> QED
  BY ONLY <1>7, <1>12, <1>15, <1>16, <1>17 DEF WireInv

-----------------------------------------------------------------------------

\* A text put in the clipboard is read back up to its own end, whatever longer
\* text was there.
LEMMA ClipSetText ==
  ASSUME NEW p \in Seq(Nat), clip \in Seq(Nat), Len(clip) = ClipSize
  PROVE  /\ ClipSet(p) \in Seq(Nat) /\ Len(ClipSet(p)) = ClipSize
         /\ UpToNul(ClipSet(p)) = UpToNul(Kept(p))
<1> DEFINE q == Kept(p)
           c == ClipSet(p)
<1>1. ClipSize \in Nat \ {0} /\ NUL = 0
  BY WireAssumption DEF NUL
<1>2. q \in Seq(Nat) /\ Len(q) \in Nat /\ Len(q) < ClipSize
  <2>1. CASE Len(p) >= ClipSize
    <3>1. q = SubSeq(p, 1, ClipSize - 1) /\ ClipSize - 1 \in Nat /\ ClipSize - 1 <= Len(p)
      BY <2>1, <1>1 DEF Kept
    <3> QED
      BY <3>1, <1>1, Prefix
  <2>2. CASE ~(Len(p) >= ClipSize)
    <3>1. q = SubSeq(p, 1, Len(p)) /\ Len(p) \in Nat /\ Len(p) <= Len(p)
      BY <2>2, <1>1 DEF Kept
    <3> QED
      BY <3>1, <2>2, <1>1, Prefix
  <2> QED
    BY <2>1, <2>2
<1> HIDE DEF q
<1>3. c = [i \in 1..ClipSize |-> IF i <= Len(q) THEN q[i]
                                ELSE IF i = Len(q) + 1 THEN NUL ELSE clip[i]]
  BY DEF ClipSet, q
<1>4. ASSUME NEW i \in 1..ClipSize PROVE c[i] \in Nat
  <2>1. i <= Len(q) => q[i] \in Nat
    BY <1>1, <1>2
  <2>2. clip[i] \in Nat
    BY <1>1
  <2> QED
    BY <2>1, <2>2, <1>1, <1>3
<1>5. \A i \in 1..Len(q) : c[i] = q[i]
  BY <1>1, <1>2, <1>3
<1>6. Len(q) + 1 \in 1..ClipSize /\ c[Len(q) + 1] = NUL
  BY <1>1, <1>2, <1>3
<1>7. DOMAIN c = 1..ClipSize
  BY <1>3
<1>8. c \in Seq(Nat) /\ Len(c) = ClipSize
  BY <1>1, <1>3, <1>4
<1> HIDE DEF c
<1> DEFINE D == {n \in 1..Len(c) : \A j \in 1..n : c[j] # NUL}
           E == {n \in 1..Len(q) : \A j \in 1..n : q[j] # NUL}
<1>9. ASSUME NEW n \in D PROVE n \in E
  <2>1. n <= Len(q)
    BY <1>1, <1>2, <1>6, <1>8
  <2>2. n \in 1..Len(q) /\ \A j \in 1..n : c[j] # NUL
    BY <2>1, <1>1, <1>8
  <2>3. \A j \in 1..n : j \in 1..Len(q)
    BY <2>2, <1>2
  <2> QED
    BY ONLY <2>2, <2>3, <1>5
<1>10. ASSUME NEW n \in E PROVE n \in D
  <2>1. n \in 1..Len(q) /\ (\A j \in 1..n : q[j] # NUL) /\ n \in 1..Len(c)
    BY <1>1, <1>2, <1>8
  <2>2. \A j \in 1..n : j \in 1..Len(q)
    BY <2>1, <1>2
  <2> QED
    BY ONLY <2>1, <2>2, <1>5, SMTT(30), SMTT(60)
<1>11. D = E /\ \A i \in D : c[i] = q[i]
  BY <1>2, <1>5, <1>9, <1>10, Zenon
<1>12. UpToNul(c) = [i \in D |-> c[i]] /\ UpToNul(q) = [i \in E |-> q[i]]
  BY DEF UpToNul
<1> HIDE DEF D, E
<1>13. UpToNul(c) = UpToNul(q)
  BY ONLY <1>11, <1>12
<1> QED
  BY <1>8, <1>13 DEF c, q

\* What is decoded is a text, even of a frame that lied about its length.
LEMMA DecodeText ==
  ASSUME WireType, NEW f \in Frames, f.len >= Header, f.len <= Len(rx)
  PROVE  Decode(rx, f) \in Seq(Nat)
<1>1. f.len \in Nat /\ Header \in Nat \ {0} /\ Len(rx) \in Nat
  BY FrameTypes DEF WireType
<1>2. ASSUME NEW j \in 1..f.len - Header PROVE Value(rx[Header + j]) \in Nat
  <2> DEFINE x == rx[Header + j]
  <2>1. Header + j \in 1..Len(rx)
    BY <1>1
  <2>2. IsByte(x, sent)
    <3>1. Len(rx) \in Nat /\ Len(unread) \in Nat /\ Len(Stream) = Len(rx) + Len(unread)
      BY Counts
    <3>2. Header + j \in 1..Len(Stream)
      BY ONLY <3>1, <2>1
    <3>3. Stream[Header + j] = x
      BY <2>1, Counts
    <3> QED
      BY <3>2, <3>3 DEF WireType, AreBytes
  <2> HIDE DEF x
  <2>3. x[1] \in 1..Len(sent) /\ x[2] \in 1..Size(sent[x[1]])
    BY <2>2 DEF IsByte
  <2>4. sent[x[1]] \in Frames
    BY <2>3 DEF WireType
  <2>5. sent[x[1]].pay \in Seq(Nat) /\ Size(sent[x[1]]) = Header + Len(sent[x[1]].pay)
    BY <2>4, FrameTypes DEF Size
  <2>6. ASSUME x[2] > Header PROVE Value(x) \in Nat
    <3> DEFINE y == sent[x[1]].pay
               m == x[2] - Header
    <3>1. m \in 1..Len(y) /\ y \in Seq(Nat)
      <4> DEFINE z == x[2]
                 s == Size(sent[x[1]])
      <4>1. y \in Seq(Nat) /\ s = Header + Len(y) /\ z \in 1..s /\ z > Header
        BY <2>3, <2>5, <2>6
      <4> HIDE DEF y, z, s
      <4>2. z - Header \in 1..Len(y)
        BY ONLY <4>1, <1>1
      <4> QED
        BY <4>1, <4>2 DEF z
    <3>2. y[m] \in Nat
      <4> HIDE DEF y, m
      <4> QED
        BY ONLY <3>1
    <3> QED
      BY ONLY <3>2, <2>6 DEF Value
  <2>7. ASSUME ~(x[2] > Header) PROVE Value(x) \in Nat
    BY <2>7 DEF Value, NUL
  <2> QED
    BY <2>6, <2>7 DEF x
<1>3. Decode(rx, f) = [j \in 1..f.len - Header |-> Value(rx[Header + j])] /\ f.len - Header \in Nat
  BY <1>1 DEF Decode
<1> QED
  BY <1>2, <1>3

\* A well-formed frame is handled with the payload that was sent in it.
LEMMA DecodeIsPayload ==
  ASSUME WireType, NEW k \in 1..Len(sent), sent[k] \in Frames, WellFormed(sent[k]),
         Size(sent[k]) <= Len(rx),
         \A j \in 1..Len(rx) : j <= Size(sent[k]) => rx[j] = <<k, j>>
  PROVE  Decode(rx, sent[k]) = sent[k].pay
<1> DEFINE f == sent[k]
           n == Len(f.pay)
<1>1. /\ f.pay \in Seq(Nat) /\ n \in Nat /\ f.len = Size(f)
      /\ Header \in Nat \ {0} /\ Size(f) = Header + n
  BY FrameTypes DEF WellFormed, Size
<1>2. f.len - Header = n /\ Len(rx) \in Nat
  BY <1>1 DEF WireType
<1>3. ASSUME NEW j \in 1..n PROVE Value(rx[Header + j]) = f.pay[j]
  <2>1. /\ Header + j \in 1..Len(rx) /\ Header + j <= Size(f)
        /\ (Header + j) - Header = j /\ Header + j > Header
    BY <1>1, <1>2
  <2>2. rx[Header + j] = <<k, Header + j>>
    BY <2>1
  <2> QED
    BY <2>1, <2>2 DEF Value
<1>4. Decode(rx, f) = [j \in 1..n |-> Value(rx[Header + j])]
  BY <1>2 DEF Decode
<1>5. f.pay = [j \in 1..n |-> f.pay[j]]
  BY <1>1
<1> QED
  BY <1>3, <1>4, <1>5

\* HandleFrame: the frame it finds, and the record it makes.
LEMMA HandleFacts ==
  ASSUME WireType, HandleFrame, UNCHANGED <<sent, unread>>, NEW k, k = PeekHeader(rx)
  PROVE  /\ k \in 1..Len(sent) /\ sent[k] \in Frames /\ sent[k].len \in Nat
         /\ sent[k].len >= Header /\ sent[k].len <= Len(rx) /\ Len(rx) >= Header
         /\ Decode(rx, sent[k]) \in Seq(Nat)
         /\ handled' \in Seq([frame : Nat, pay : Seq(Nat), fd : Nat])
         /\ Len(handled') = Turn /\ Turn' = Turn + 1
         /\ \A i \in 1..Len(handled) : handled'[i] = handled[i]
         /\ handled'[Turn].frame = k /\ handled'[Turn].pay = Decode(rx, sent[k])
         /\ handled'[Turn].fd = IF sent[k].type = "COMMIT" /\ fdq # << >> THEN Oldest ELSE NoFd
<1> DEFINE f == sent[k]
           p == Decode(rx, f)
           d == IF f.type = "COMMIT" /\ fdq # << >> THEN Oldest ELSE NoFd
           e == [frame |-> k, pay |-> p, fd |-> d]
           R == [frame : Nat, pay : Seq(Nat), fd : Nat]
<1>1. Len(rx) >= Header /\ k # 0 /\ f.len \in Header..RxSize /\ Len(rx) >= f.len
      /\ handled' = Append(handled, e)
  <2>1. Len(rx) >= Header /\ k # 0 /\ f.len \in Header..RxSize /\ Len(rx) >= f.len
        /\ Handle(k, p)
    BY Zenon DEF HandleFrame
  <2> QED
    BY <2>1, Zenon DEF Handle
<1>2. k \in 1..Len(sent) /\ f \in Frames
  BY <1>1, Found
<1>3. f.len \in Nat /\ Header \in Nat /\ RxSize \in Nat
  BY <1>2, FrameTypes
<1>4. f.len >= Header /\ f.len <= Len(rx)
  <2>1. Len(rx) \in Nat
    BY Counts
  <2> DEFINE z == f.len
  <2>2. z \in Nat /\ z \in Header..RxSize /\ Len(rx) >= z
    BY <1>1, <1>3
  <2> HIDE DEF z
  <2>3. z >= Header /\ z <= Len(rx)
    BY ONLY <2>1, <2>2, <1>3
  <2> QED
    BY <2>3 DEF z
<1>5. p \in Seq(Nat)
  BY <1>2, <1>4, DecodeText
<1>6. d \in Nat
  <2>1. ASSUME fdq # << >> PROVE Oldest \in Nat
    <3>1. fdq \in Seq(Nat) /\ fdq # << >>
      BY <2>1 DEF WireType
    <3> QED
      BY ONLY <3>1 DEF Oldest
  <2> QED
    BY <2>1 DEF NoFd
<1>7. handled \in Seq(R) /\ k \in Nat /\ Len(handled) \in Nat /\ Turn = Len(handled) + 1
  BY <1>2, Counts DEF WireType
<1> HIDE DEF p, d
<1>8. e \in R /\ e.frame = k /\ e.pay = p /\ e.fd = d
  BY ONLY <1>5, <1>6, <1>7
<1> HIDE DEF e, R
<1>9. /\ Append(handled, e) \in Seq(R) /\ Len(Append(handled, e)) = Len(handled) + 1
      /\ \A i \in 1..Len(handled) : Append(handled, e)[i] = handled[i]
      /\ Append(handled, e)[Len(handled) + 1] = e
  BY ONLY <1>7, <1>8, SMTT(30), SMTT(60)
<1>10. handled' \in Seq(R) /\ Len(handled') = Turn /\ handled'[Turn] = e
       /\ \A i \in 1..Len(handled) : handled'[i] = handled[i]
  BY ONLY <1>1, <1>7, <1>9
<1>11. Turn' = Turn + 1
  BY ONLY <1>10 DEF Turn
<1> QED
  BY <1>1, <1>2, <1>3, <1>4, <1>5, <1>8, <1>10, <1>11 DEF p, d, R

\* HandleFrame: what it does to the buffer, the queue and the clipboard.
LEMMA HandleRest ==
  ASSUME WireInv, HandleFrame, UNCHANGED <<sent, unread>>, NEW k, k = PeekHeader(rx)
  PROVE  /\ \/ sent[k].type = "COMMIT" /\ fdq = << >> /\ link' = "closed" /\ rx' = rx
            \/ /\ ~(sent[k].type = "COMMIT" /\ fdq = << >>) /\ link' = link
               /\ rx' = Rest(rx, sent[k].len) /\ Len(rx') = Len(rx) - sent[k].len
               /\ Stream' = SubSeq(Stream, sent[k].len + 1, Len(Stream))
         /\ WireType'
         /\ fdq' = IF sent[k].type = "COMMIT" /\ fdq # << >> THEN Dequeued ELSE fdq
         /\ UpToNul(clip') = UpToNul(Kept(lastset'))
         /\ got'.data = Append(UpToNul(Kept(got'.of)), NUL)
<1> DEFINE f == sent[k]
           n == f.len
           p == Decode(rx, f)
<1>1. WireType /\ sent' = sent /\ unread' = unread
  BY DEF WireInv
<1>2. /\ n \in Nat /\ n <= Len(rx) /\ p \in Seq(Nat)
      /\ handled' \in Seq([frame : Nat, pay : Seq(Nat), fd : Nat])
  BY <1>1, HandleFacts
<1>3. /\ fdq' = IF f.type = "COMMIT" /\ fdq # << >> THEN Dequeued ELSE fdq
      /\ clip' = IF f.type = "SET" THEN ClipSet(p) ELSE clip
      /\ lastset' = IF f.type = "SET" THEN p ELSE lastset
      /\ got' = IF f.type = "GET" THEN [data |-> ClipGet, of |-> lastset] ELSE got
  <2>1. Handle(k, p)
    BY Zenon DEF HandleFrame
  <2> QED
    BY <2>1, Zenon DEF Handle
<1>4. \/ f.type = "COMMIT" /\ fdq = << >> /\ link' = "closed" /\ rx' = rx
      \/ ~(f.type = "COMMIT" /\ fdq = << >>) /\ rx' = Rest(rx, n) /\ link' = link
  BY DEF HandleFrame
<1> HIDE DEF p
<1>5. clip' \in Seq(Nat) /\ Len(clip') = ClipSize /\ UpToNul(clip') = UpToNul(Kept(lastset'))
  <2>1. clip \in Seq(Nat) /\ Len(clip) = ClipSize
    BY <1>1 DEF WireType
  <2>2. CASE f.type = "SET"
    BY <2>1, <2>2, <1>2, <1>3, ClipSetText
  <2>3. CASE f.type # "SET"
    BY <2>1, <2>3, <1>3 DEF WireInv
  <2> QED
    BY <2>2, <2>3
<1>6. got'.data = Append(UpToNul(Kept(got'.of)), NUL)
  BY <1>3, ZenonT(60) DEF WireInv, FramesInOrder, ClipGet
<1>7. fdq' \in Seq(Nat)
  <2>1. fdq \in Seq(Nat)
    BY <1>1 DEF WireType
  <2>2. fdq # << >> => Dequeued \in Seq(Nat)
    BY ONLY <2>1 DEF Dequeued
  <2> QED
    BY <2>1, <2>2, <1>3
<1> HIDE DEF n
<1>8. rx \in Seq(Byte) /\ unread \in Seq(Byte) /\ Stream \in Seq(Byte) /\ AreBytes(Stream, sent)
      /\ Len(rx) \in Nat /\ Len(Stream) \in Nat /\ Len(rx) <= Len(Stream)
  <2>1. /\ Len(rx) \in Nat /\ Len(unread) \in Nat /\ Len(Stream) = Len(rx) + Len(unread)
        /\ Stream \in Seq(Byte)
    BY <1>1, Counts
  <2>2. Len(rx) <= Len(Stream) /\ Len(Stream) \in Nat
    BY ONLY <2>1
  <2> QED
    BY <2>1, <2>2, <1>1 DEF WireType
<1>9. ASSUME rx' = Rest(rx, n)
      PROVE  /\ rx' \in Seq(Byte) /\ Len(rx') = Len(rx) - n
             /\ Stream' = SubSeq(Stream, n + 1, Len(Stream)) /\ AreBytes(Stream', sent)
  <2>1. rx' = SubSeq(rx, n + 1, Len(rx))
    BY <1>9 DEF Rest
  <2>2. rx' \in Seq(Byte) /\ Len(rx') = Len(rx) - n
    BY ONLY <2>1, <1>2, <1>8, Suffix
  <2>3. SubSeq(rx, n + 1, Len(rx)) \o unread = SubSeq(rx \o unread, n + 1, Len(rx \o unread))
    BY ONLY <1>2, <1>8, DropFront, Zenon
  <2>4. Stream' = SubSeq(Stream, n + 1, Len(Stream))
    BY ONLY <2>1, <2>3, <1>1, Zenon DEF Stream
  <2> DEFINE q == Stream
             c == SubSeq(q, n + 1, Len(q))
  <2>5. q \in Seq(Byte) /\ n <= Len(q) /\ Len(q) \in Nat /\ \A i \in 1..Len(q) : IsByte(q[i], sent)
    <3>1. n <= Len(Stream)
      BY ONLY <1>2, <1>8
    <3> QED
      BY <3>1, <1>8 DEF AreBytes
  <2> HIDE DEF q
  <2>6. c \in Seq(Byte) /\ Len(c) = Len(q) - n /\ \A i \in 1..Len(q) - n : c[i] = q[n + i]
    BY ONLY <2>5, <1>2, Suffix
  <2> HIDE DEF c
  <2>7. ASSUME NEW i \in 1..Len(c) PROVE IsByte(c[i], sent)
    <3>1. i \in 1..Len(q) - n /\ Len(q) \in Nat
      BY ONLY <2>5, <2>6, i \in 1..Len(c)
    <3>2. n + i \in 1..Len(q)
      BY ONLY <3>1, <1>2
    <3> QED
      BY ONLY <3>1, <3>2, <2>5, <2>6, SMTT(30), SMTT(60)
  <2>8. AreBytes(c, sent)
    BY ONLY <2>6, <2>7, SMTT(30), SMTT(60) DEF AreBytes
  <2> QED
    BY <2>2, <2>4, <2>8 DEF c, q
<1>10. rx' \in Seq(Byte) /\ AreBytes(Stream', sent)
  <2>1. rx' = rx => Stream' = Stream
    BY ONLY <1>1 DEF Stream
  <2> QED
    BY ONLY <2>1, <1>4, <1>8, <1>9
<1>11. link \in {"idle", "loop", "closed"} /\ sent \in Seq(Frames)
  BY <1>1 DEF WireType
<1>12. WireType'
  <2>1. link' \in {"idle", "loop", "closed"}
    BY ONLY <1>4, <1>11, SMTT(30), SMTT(60)
  <2> QED
    BY ONLY <2>1, <1>1, <1>2, <1>5, <1>7, <1>8, <1>10, <1>11, SMTT(30), SMTT(60) DEF WireType
<1> QED
  BY ONLY <1>3, <1>4, <1>5, <1>6, <1>9, <1>12, Zenon DEF n

\* HandleFrame: the frame is the one whose turn it is, and its payload the one
\* that was sent.
LEMMA HandleFront ==
  ASSUME WireInv, link = "loop", HandleFrame, UNCHANGED <<sent, unread>>, WellUpTo(Turn)
  PROVE  /\ Arranged /\ PeekHeader(rx) = Turn /\ Turn \in 1..Len(sent)
         /\ sent[Turn].len = Size(sent[Turn]) /\ Decode(rx, sent[Turn]) = sent[Turn].pay
<1> DEFINE t == Turn
<1>1. WireType /\ Len(handled) \in Nat /\ t = Len(handled) + 1 /\ Len(sent) \in Nat
  BY Counts DEF WireInv
<1>2. Arranged
  <2>1. \A k \in 1..Len(sent) : k <= Len(handled) => k <= t
    BY ONLY <1>1
  <2>2. WellUpTo(Len(handled))
    BY <2>1 DEF WellUpTo
  <2> QED
    BY <2>2 DEF WireInv
<1>3. Len(rx) >= Header
  BY <1>1, HandleFacts
<1>4. /\ t \in 1..Len(sent) /\ PeekHeader(rx) = t /\ sent[t] \in Frames
      /\ \A j \in 1..Len(rx) : j <= Size(sent[t]) => rx[j] = <<t, j>>
  BY <1>1, <1>2, <1>3, Front
<1>5. sent[t].len <= Len(rx)
  BY <1>1, <1>4, HandleFacts
<1>6. t <= t
  BY ONLY <1>1
<1>7. WellFormed(sent[t]) /\ sent[t].len = Size(sent[t])
  BY <1>4, <1>6 DEF WellUpTo, WellFormed
<1>8. Size(sent[t]) <= Len(rx)
  BY ONLY <1>5, <1>7, SMTT(30), SMTT(60)
<1>9. Decode(rx, sent[t]) = sent[t].pay
  BY <1>1, <1>4, <1>7, <1>8, DecodeIsPayload, ZenonT(60)
<1> QED
  BY <1>2, <1>4, <1>7, <1>9

\* HandleFrame: the stream begins with the next frame, and a commit as the
\* protocol wants it takes its own descriptor.
LEMMA HandleArranged ==
  ASSUME WireInv, link = "loop", HandleFrame, UNCHANGED <<sent, unread>>, WellUpTo(Turn)
  PROVE  /\ link' # "closed" => Arranged'
         /\ GoodUpTo(Turn) /\ sent[Turn].type = "COMMIT" => fdq # << >> /\ Oldest = Turn
<1> DEFINE N == Len(sent)
           t == Turn
           z == Size(sent[t])
           L == Len(Stream)
           r == Len(rx)
<1>1. /\ WireType /\ sent \in Seq(Frames) /\ fdq \in Seq(Nat) /\ N \in Nat /\ t \in Nat \ {0}
      /\ Stream \in Seq(Byte) /\ r \in Nat /\ L \in Nat /\ t = Len(handled) + 1
      /\ Len(handled) \in Nat /\ sent' = sent
  BY Counts DEF WireInv, WireType
<1>2. Arranged /\ PeekHeader(rx) = t /\ t \in 1..N /\ sent[t].len = z
  BY HandleFront
<1>3. Header \in Nat \ {0} /\ r >= Header /\ z <= r /\ Turn' = t + 1 /\ Len(handled') = t
  BY <1>1, <1>2, HandleFacts, WireAssumption
<1>4. PICK pl : /\ Placed(pl, sent, t, L) /\ Filled(pl, sent, t, Stream)
                /\ GoodUpTo(Len(handled)) => Queued(pl, sent, t, r, fdq)
  BY <1>2, Zenon DEF Arranged
<1>5. t <= N /\ t \in t..N
  BY ONLY <1>1, <1>2
<1>6. z \in Nat /\ z <= L /\ pl[t] = 0
  <2>1. sent \in Seq(Frames) /\ Placed(pl, sent, t, L) /\ t <= N
    BY <1>1, <1>4, <1>5
  <2> HIDE DEF t, L
  <2>2. z \in Nat \ {0} /\ z <= L
    BY ONLY <2>1, PlacedDrop
  <2>3. pl[t] = 0
    BY ONLY <2>1 DEF Placed
  <2> QED
    BY <2>2, <2>3
<1>7. PICK p2 : Placed(p2, sent, t + 1, L - z) /\ \A k \in t + 1..N : pl[k] = p2[k] + z
  <2>1. sent \in Seq(Frames) /\ Placed(pl, sent, t, L) /\ t <= N
    BY <1>1, <1>4, <1>5
  <2> HIDE DEF t, L
  <2> QED
    BY ONLY <2>1, PlacedDrop
<1> HIDE DEF t, z, L, r
<1>8. Filled(p2, sent, t + 1, SubSeq(Stream, z + 1, L))
  BY ONLY <1>1, <1>4, <1>6, <1>7, FilledDrop, Zenon DEF L
<1>9. \A k \in t + 1..N : Begun(p2, sent, r - z, k) <=> Begun(pl, sent, r, k)
  BY ONLY <1>1, <1>6, <1>7, BegunDrop, Zenon
<1>10. ASSUME GoodUpTo(t)
       PROVE  Queued(pl, sent, t, r, fdq) /\ (sent[t].fd <=> sent[t].type = "COMMIT")
  <2>1. t <= t /\ \A k \in 1..N : k <= Len(handled) => k <= t
    BY ONLY <1>1
  <2>2. GoodUpTo(Len(handled)) /\ Good(sent[t])
    BY <2>1, <1>2, <1>10 DEF GoodUpTo
  <2> QED
    BY <2>2, <1>4, Zenon DEF Good
<1>11. ASSUME GoodUpTo(t), sent[t].type = "COMMIT"
       PROVE  fdq # << >> /\ fdq[1] = t /\ Queued(p2, sent, t + 1, r - z, Tail(fdq))
  <2>1. pl[t] < r
    BY ONLY <1>1, <1>3, <1>6
  <2>2. Begun(pl, sent, r, t)
    BY <2>1, <1>10, <1>11, Zenon DEF Begun
  <2>3. Queued(pl, sent, t, r, fdq)
    BY <1>10, <1>11
  <2>4. fdq \in Seq(Nat) /\ t \in Nat /\ N \in Nat /\ t <= N
    BY ONLY <1>1, <1>5
  <2> QED
    BY ONLY <2>2, <2>3, <2>4, <1>9, QueuedTake, SMTT(30), SMTT(60)
<1>12. ASSUME GoodUpTo(t), sent[t].type # "COMMIT"
       PROVE  Queued(p2, sent, t + 1, r - z, fdq)
  <2>1. Queued(pl, sent, t, r, fdq) /\ ~sent[t].fd
    BY <1>10, <1>12
  <2> QED
    BY ONLY <2>1, <1>1, <1>9, QueuedSkip, Zenon
<1>13. ASSUME link' # "closed" PROVE Arranged'
  <2>1. /\ Len(rx') = r - z /\ Stream' = SubSeq(Stream, z + 1, L) /\ link' = "loop"
        /\ fdq' = IF sent[t].type = "COMMIT" /\ fdq # << >> THEN Tail(fdq) ELSE fdq
    BY <1>2, <1>13, HandleRest DEF r, L, Dequeued
  <2>2. Len(SubSeq(Stream, z + 1, L)) = L - z
    BY ONLY <1>1, <1>6, Suffix DEF L
  <2>3. GoodUpTo(Len(handled))' => GoodUpTo(t)
    BY ONLY <1>1, <1>3, SMTT(30), SMTT(60) DEF GoodUpTo
  <2>4. GoodUpTo(t) => Queued(p2, sent, t + 1, r - z, fdq')
    BY ONLY <2>1, <1>11, <1>12
  <2>5. /\ Placed(p2, sent', Turn', Len(Stream')) /\ Filled(p2, sent', Turn', Stream')
        /\ GoodUpTo(Len(handled))' => Queued(p2, sent', Turn', Len(rx'), fdq')
    BY ONLY <2>1, <2>2, <2>3, <2>4, <1>1, <1>3, <1>7, <1>8, ZenonT(60)
  <2>6. link' # "idle"
    BY ONLY <2>1, SMTT(30), SMTT(60)
  <2> QED
    BY ONLY <2>5, <2>6, SMTT(30), SMTT(60) DEF Arranged
<1> QED
  BY <1>11, <1>13 DEF t, Oldest

\* Handling the frame in front keeps the invariant.
LEMMA HandleKeeps ==
  ASSUME WireInv, link = "loop", HandleFrame, UNCHANGED <<sent, unread>>
  PROVE  WireInv'
<1> DEFINE N == Len(sent)
           t == Turn
           k == PeekHeader(rx)
<1>1. WireType /\ N \in Nat /\ Len(handled) \in Nat /\ t = Len(handled) + 1 /\ sent' = sent
  BY Counts DEF WireInv
<1>2. /\ Len(handled') = t /\ \A i \in 1..Len(handled) : handled'[i] = handled[i]
      /\ handled'[t].frame = k /\ handled'[t].pay = Decode(rx, sent[k])
      /\ handled'[t].fd = IF sent[k].type = "COMMIT" /\ fdq # << >> THEN Oldest ELSE NoFd
  BY <1>1, HandleFacts
<1>3. /\ WireType' /\ UpToNul(clip') = UpToNul(Kept(lastset'))
      /\ got'.data = Append(UpToNul(Kept(got'.of)), NUL)
      /\ \/ sent[k].type = "COMMIT" /\ fdq = << >> /\ link' = "closed"
         \/ link' = link
  BY HandleRest
<1>4. WellUpTo(t) => k = t /\ Decode(rx, sent[t]) = sent[t].pay
  BY HandleFront
<1>5. WellUpTo(t) => /\ link' # "closed" => Arranged'
                     /\ GoodUpTo(t) /\ sent[t].type = "COMMIT" => fdq # << >> /\ Oldest = t
  BY HandleArranged
<1>6. ASSUME NEW m PROVE (WellUpTo(m)' <=> WellUpTo(m)) /\ (GoodUpTo(m)' <=> GoodUpTo(m))
  BY <1>1 DEF WellUpTo, GoodUpTo
<1>7. (WellUpTo(Len(handled))' <=> WellUpTo(t)) /\ (GoodUpTo(Len(sent))' <=> GoodUpTo(N))
  BY <1>1, <1>2 DEF WellUpTo, GoodUpTo
<1>8. GoodUpTo(t) => WellUpTo(t)
  BY GoodIsWell
<1> HIDE DEF k, t
<1>9. ASSUME NEW i \in 1..Len(handled') PROVE i \in 1..Len(handled) \/ i = t
  BY ONLY <1>1, <1>2, i \in 1..Len(handled'), SMTT(30), SMTT(60)
<1>10. FramesInOrder'
  <2>1. ASSUME NEW i \in 1..Len(handled'), WellUpTo(i)'
        PROVE  handled'[i].frame = i /\ handled'[i].pay = sent'[i].pay
    <3>1. WellUpTo(i)
      BY <2>1, <1>6
    <3>2. CASE i \in 1..Len(handled)
      BY <3>1, <3>2, <1>1, <1>2 DEF WireInv, FramesInOrder
    <3>3. CASE i = t
      BY ONLY <3>1, <3>3, <1>1, <1>2, <1>4, SMTT(30), SMTT(60)
    <3> QED
      BY <3>2, <3>3, <1>9
  <2>2. ASSUME link' = "closed", GoodUpTo(N) PROVE FALSE
    <3>1. \A m \in 1..N : m <= t => m <= N
      BY ONLY <1>1
    <3>2. GoodUpTo(t)
      BY <3>1, <2>2 DEF GoodUpTo
    <3> QED
      BY <3>2, <2>2, <1>3, <1>4, <1>5, <1>8
  <2>3. link' # "idle"
    BY <1>3
  <2>4. (link = "closed" => ~GoodUpTo(Len(sent)))'
    BY ONLY <2>2, <1>7
  <2> QED
    BY ONLY <2>1, <2>3, <2>4, <1>3, SMTT(30), SMTT(60) DEF FramesInOrder
<1>11. CommitsGetTheirBuffer'
  <2>1. ASSUME NEW i \in 1..Len(handled'), GoodUpTo(i)'
        PROVE  handled'[i].fd = IF sent[i].type = "COMMIT" THEN i ELSE NoFd
    <3>1. GoodUpTo(i)
      BY <2>1, <1>6
    <3>2. CASE i \in 1..Len(handled)
      BY <3>1, <3>2, <1>2 DEF WireInv, CommitsGetTheirBuffer
    <3>3. CASE i = t
      BY ONLY <3>1, <3>3, <1>2, <1>4, <1>5, <1>8, SMTT(30), SMTT(60)
    <3> QED
      BY <3>2, <3>3, <1>9
  <2> QED
    BY ONLY <2>1, <1>1 DEF CommitsGetTheirBuffer
<1>12. link' # "closed" /\ WellUpTo(Len(handled))' => Arranged'
  BY ONLY <1>5, <1>7
<1> QED
  BY ONLY <1>3, <1>10, <1>11, <1>12, SMTT(30), SMTT(60) DEF WireInv

-----------------------------------------------------------------------------

\* Every step of the connection keeps the invariant.
LEMMA WireStep == WireInv /\ [WireNext]_wire => WireInv'
<1> SUFFICES ASSUME WireInv, [WireNext]_wire PROVE WireInv'
  OBVIOUS
<1>1. ASSUME NEW f \in Frames, Send(f) PROVE WireInv'
  BY <1>1, SendKeeps
<1>2. ASSUME NEW n \in 1..RxSize, Read(n) PROVE WireInv'
  BY <1>2, ReadKeeps
<1>3. CASE Step
  BY <1>3, StopKeeps, HandleKeeps DEF Step
<1>4. CASE UNCHANGED wire
  <2>1. /\ sent' = sent /\ unread' = unread /\ rx' = rx /\ fdq' = fdq /\ handled' = handled
        /\ link' = link /\ clip' = clip /\ lastset' = lastset /\ got' = got
        /\ Stream' = Stream /\ Turn' = Turn
    BY <1>4 DEF wire, Stream, Turn
  <2>2. WireType' /\ (Arranged => Arranged')
    BY <2>1 DEF WireInv, WireType, Arranged, GoodUpTo
  <2>3. /\ WellUpTo(Len(handled))' <=> WellUpTo(Len(handled))
        /\ FramesInOrder' /\ CommitsGetTheirBuffer'
    BY <2>1 DEF WireInv, FramesInOrder, CommitsGetTheirBuffer, WellUpTo, GoodUpTo
  <2> QED
    BY <2>1, <2>2, <2>3 DEF WireInv
<1> QED
  BY <1>1, <1>2, <1>3, <1>4 DEF WireNext

\* lgp_client_process_messages: for every set of frames, buffer size and way the
\* stream is cut into reads, the frames handled are the frames sent, in order
\* and with their payloads; only a frame that is not as the protocol wants it
\* closes the connection; and the buffer is never left full.
THEOREM FrameOrder == WireInit /\ [][WireNext]_wire => []FramesInOrder
<1>1. WireInv => FramesInOrder
  BY DEF WireInv
<1> QED
  BY <1>1, InitHolds, WireStep, PTL

\* lgp_client_take_fd: every commit gets the descriptor that was sent with it.
THEOREM BufferOfCommit == WireInit /\ [][WireNext]_wire => []CommitsGetTheirBuffer
<1>1. WireInv => CommitsGetTheirBuffer
  BY DEF WireInv
<1> QED
  BY <1>1, InitHolds, WireStep, PTL

=============================================================================
