----------------------------- MODULE NewtProofs -----------------------------
(***************************************************************************)
(* The reader of a pipe (module Newt) delivers what was sent, whole and in *)
(* order, wherever the stream is cut: the header codec is inverse to       *)
(* itself, and what the reader has in progress, in its buffer and in the   *)
(* pipe is at every moment a first part of the frames of the messages that *)
(* it has not yet got.                                                     *)
(***************************************************************************)
EXTENDS Newt, TLAPS

-----------------------------------------------------------------------------
(* The header.                                                             *)

\* One byte off a length, and the rest of it.
LEMMA ShiftFacts ==
  ASSUME NEW n \in Nat
  PROVE  /\ Shift(n) \in Nat /\ (n % Base) \in Byte
         /\ n = (n % Base) + Base * Shift(n)
BY NewtAssumption DEF Shift, Byte

\* What fits in c * Base leaves a rest that fits in c.
LEMMA ShiftFits ==
  ASSUME NEW n \in Nat, NEW c \in Nat, n < c * Base
  PROVE  Shift(n) < c
<1>1. Base \in Nat /\ Base > 0 /\ Shift(n) \in Nat /\ (n % Base) \in Nat
  BY ShiftFacts, NewtAssumption DEF Byte
<1>2. n = (n % Base) + Base * Shift(n)
  BY ShiftFacts
<1>3. SUFFICES ASSUME Shift(n) >= c PROVE FALSE
  BY <1>1
<1>4. Base * Shift(n) >= Base * c
  BY <1>1, <1>3
<1> QED
  BY <1>1, <1>2, <1>4

\* A header is five bytes.
LEMMA HeadBytes ==
  ASSUME NEW n \in Nat
  PROVE  HeadOf(n) \in Seq(Byte) /\ Len(HeadOf(n)) = HeadLen /\ HeadOf(n)[1] = Tag
<1>1. /\ (n % Base) \in Byte /\ Shift(n) \in Nat
      /\ (Shift(n) % Base) \in Byte /\ Shift(Shift(n)) \in Nat
      /\ (Shift(Shift(n)) % Base) \in Byte /\ Shift(Shift(Shift(n))) \in Nat
      /\ (Shift(Shift(Shift(n))) % Base) \in Byte
  BY ShiftFacts
<1>2. Tag \in Byte
  BY NewtAssumption DEF Byte, Tag
<1> QED
  BY <1>1, <1>2 DEF HeadOf, HeadLen

\* The reader reads the length that the writer wrote.
LEMMA HeadInverse ==
  ASSUME NEW n \in Nat, n < Base * Base * Base * Base
  PROVE  HeadValue(HeadOf(n)) = n
<1> DEFINE a == Shift(n)  b == Shift(Shift(n))  c == Shift(Shift(Shift(n)))
<1>1. /\ Base \in Nat /\ Base > 0
      /\ Shift(n) \in Nat /\ Shift(Shift(n)) \in Nat /\ Shift(Shift(Shift(n))) \in Nat
  <2>1. \A m \in Nat : Shift(m) \in Nat
    BY ShiftFacts
  <2> QED
    BY <2>1, NewtAssumption
<1>7. n = (n % Base) + Base * a /\ a = (a % Base) + Base * b /\ b = (b % Base) + Base * c
  BY <1>1, ShiftFacts
<1>2. a < Base * Base * Base
  BY <1>1, ShiftFits
<1>3. b < Base * Base
  BY <1>1, <1>2, ShiftFits
<1>4. c < Base
  BY <1>1, <1>3, ShiftFits
<1>5. c % Base = c
  <2>1. ASSUME NEW d \in Nat, d < Base PROVE d % Base = d
    BY <1>1, <2>1
  <2> QED
    BY <1>1, <1>4, <2>1
<1>6. HeadValue(HeadOf(n)) =
        (n % Base) + Base * ((a % Base) + Base * ((b % Base) + Base * (c % Base)))
  BY DEF HeadValue, HeadOf
<1> QED
  BY <1>1, <1>5, <1>6, <1>7

-----------------------------------------------------------------------------
(* The stream.                                                             *)

\* What of the message in progress has been read,
Part == IF sat = "head" THEN hed ELSE HeadOf(len) \o tal

\* and all that the reader has still to decode.
Rest == Part \o (buf \o wire)

\* How many messages have been decoded.
Had == Len(got) + Len(ext)

\* Where, in the stream of the messages ms, each of them ends.
Ends(ms, pos) ==
  /\ pos \in [0 .. Len(ms) -> Nat]
  /\ \A i \in 1 .. Len(ms) : pos[i] = pos[i - 1] + HeadLen + Len(ms[i])
  /\ \A i, j \in 0 .. Len(ms) : i <= j => pos[i] <= pos[j]

\* The bytes str are a first part of the stream, after the first k messages.
Follows(str, ms, k, pos) ==
  /\ Len(str) <= pos[Len(ms)] - pos[k]
  /\ \A i \in k + 1 .. Len(ms) : \A j \in 1 .. HeadLen + Len(ms[i]) :
       pos[i - 1] - pos[k] + j <= Len(str) =>
         str[pos[i - 1] - pos[k] + j] = Frame(ms[i])[j]

\* What is delivered and what waits are the first messages sent.
OrderInv == Had <= Len(sent) /\ \A i \in 1 .. Had : (got \o ext)[i] = sent[i]

\* While it reads, the bytes to come are those of the next ones, and all of
\* them if the writer is there to send more.
StreamInv ==
  moat = "live" =>
    \E pos : /\ Ends(sent, pos)
             /\ Follows(Rest, sent, Had, pos)
             /\ writer = "live" => Len(Rest) = pos[Len(sent)] - pos[Had]

\* A body is only awaited of the next message, with its length.
AwaitInv == moat = "live" /\ sat = "tail" => Had < Len(sent) /\ len = Len(sent[Had + 1])

\* Nothing is decoded but within a callback of a live reader.
IdleInv == (at = "idle" => buf = <<>>) /\ (moat # "live" => at = "idle")

NewtInv == NewtTypeOK /\ OrderInv /\ StreamInv /\ AwaitInv /\ IdleInv

-----------------------------------------------------------------------------
(* Lemmas about sequences and the stream.                                  *)

\* What a concatenation holds.
LEMMA Joined ==
  ASSUME NEW S, NEW a \in Seq(S), NEW b \in Seq(S)
  PROVE  /\ a \o b \in Seq(S) /\ Len(a \o b) = Len(a) + Len(b)
         /\ \A i \in 1 .. Len(a) : (a \o b)[i] = a[i]
         /\ \A i \in 1 .. Len(b) : (a \o b)[Len(a) + i] = b[i]
OBVIOUS

\* What the first n of a sequence hold, and the others.
LEMMA Split ==
  ASSUME NEW S, NEW a \in Seq(S), NEW n \in 0 .. Len(a)
  PROVE  /\ SubSeq(a, 1, n) \in Seq(S) /\ Len(SubSeq(a, 1, n)) = n
         /\ \A i \in 1 .. n : SubSeq(a, 1, n)[i] = a[i]
         /\ SubSeq(a, n + 1, Len(a)) \in Seq(S)
         /\ Len(SubSeq(a, n + 1, Len(a))) = Len(a) - n
         /\ \A i \in 1 .. Len(a) - n : SubSeq(a, n + 1, Len(a))[i] = a[n + i]
OBVIOUS

\* The same, of bytes.
LEMMA JoinedBytes ==
  \A a, b \in Seq(Byte) :
    /\ a \o b \in Seq(Byte) /\ Len(a \o b) = Len(a) + Len(b)
    /\ \A i \in 1 .. Len(a) : (a \o b)[i] = a[i]
    /\ \A i \in 1 .. Len(b) : (a \o b)[Len(a) + i] = b[i]
BY Joined

\* Sequences that hold the same are the same.
LEMMA Same ==
  ASSUME NEW S, NEW a \in Seq(S), NEW b \in Seq(S), Len(a) = Len(b),
         \A i \in 1 .. Len(a) : a[i] = b[i]
  PROVE  a = b
OBVIOUS

\* Joining is associative.
LEMMA Regroup ==
  \A a, b, c \in Seq(Byte) : (a \o b) \o c = a \o (b \o c)
OBVIOUS

\* A sequence is its first n and the others.
LEMMA Whole ==
  ASSUME NEW S, NEW b \in Seq(S), NEW n \in 0 .. Len(b)
  PROVE  SubSeq(b, 1, n) \o SubSeq(b, n + 1, Len(b)) = b
<1> DEFINE x == SubSeq(b, 1, n)  y == SubSeq(b, n + 1, Len(b))
<1>1. /\ x \in Seq(S) /\ Len(x) = n /\ \A i \in 1 .. n : x[i] = b[i]
      /\ y \in Seq(S) /\ Len(y) = Len(b) - n /\ \A i \in 1 .. Len(b) - n : y[i] = b[n + i]
  BY Split
<1> HIDE DEF x, y
<1>2. /\ x \o y \in Seq(S) /\ Len(x \o y) = Len(b)
      /\ \A i \in 1 .. n : (x \o y)[i] = x[i]
      /\ \A i \in 1 .. Len(b) - n : (x \o y)[n + i] = y[i]
  <2>1. \A p, q \in Seq(S) :
          /\ p \o q \in Seq(S) /\ Len(p \o q) = Len(p) + Len(q)
          /\ \A i \in 1 .. Len(p) : (p \o q)[i] = p[i]
          /\ \A i \in 1 .. Len(q) : (p \o q)[Len(p) + i] = q[i]
    BY Joined
  <2>2. x \in Seq(S) /\ y \in Seq(S) /\ Len(x) = n /\ Len(y) = Len(b) - n
    BY <1>1
  <2>3. n \in Nat /\ Len(b) \in Nat
    OBVIOUS
  <2> QED
    BY ONLY <2>1, <2>2, <2>3
<1>3. n \in Nat /\ Len(b) \in Nat
  OBVIOUS
<1>4. ASSUME NEW i \in 1 .. Len(b) PROVE (x \o y)[i] = b[i]
  <2>1. CASE i <= n
    BY <1>1, <1>2, <2>1
  <2>2. CASE i > n
    <3>1. i - n \in 1 .. Len(b) - n /\ i = n + (i - n)
      BY <1>3, <2>2
    <3>2. PICK k \in 1 .. Len(b) - n : i = n + k
      BY <3>1
    <3> QED
      BY <1>1, <1>2, <3>2
  <2>3. i <= n \/ i > n
    BY <1>3
  <2> QED
    BY <2>1, <2>2, <2>3
<1>5. x \o y = b
  BY <1>2, <1>4, Same
<1> QED
  BY <1>5 DEF x, y

\* Bytes that move from the front of b to the end of a.
LEMMA Moved ==
  \A a, b, c \in Seq(Byte) : \A n \in 0 .. Len(b) :
    (a \o SubSeq(b, 1, n)) \o (SubSeq(b, n + 1, Len(b)) \o c) = a \o (b \o c)
<1> SUFFICES ASSUME NEW a \in Seq(Byte), NEW b \in Seq(Byte), NEW c \in Seq(Byte),
                    NEW n \in 0 .. Len(b)
             PROVE  (a \o SubSeq(b, 1, n)) \o (SubSeq(b, n + 1, Len(b)) \o c)
                       = a \o (b \o c)
  OBVIOUS
<1> DEFINE x == SubSeq(b, 1, n)  y == SubSeq(b, n + 1, Len(b))
<1>1. x \in Seq(Byte) /\ y \in Seq(Byte) /\ x \o y = b
  BY Split, Whole
<1> HIDE DEF x, y
<1>2. y \o c \in Seq(Byte)
  BY <1>1, Joined
<1>6. x \in Seq(Byte) /\ y \in Seq(Byte)
  BY <1>1
<1>4. (a \o x) \o (y \o c) = a \o (x \o (y \o c))
  BY ONLY <1>2, Regroup, <1>6
<1>5. (x \o y) \o c = x \o (y \o c)
  BY ONLY Regroup, <1>6
<1> QED
  BY <1>1, <1>4, <1>5 DEF x, y

\* A frame is its header and its message.
LEMMA FrameFacts ==
  ASSUME NEW m \in Msg
  PROVE  /\ m \in Seq(Byte) /\ Len(m) \in Nat /\ Len(m) > 0
         /\ Frame(m) \in Seq(Byte) /\ Len(Frame(m)) = HeadLen + Len(m)
         /\ \A i \in 1 .. HeadLen : Frame(m)[i] = HeadOf(Len(m))[i]
         /\ \A i \in 1 .. Len(m) : Frame(m)[HeadLen + i] = m[i]
         /\ HeadValue(HeadOf(Len(m))) = Len(m)
<1>1. m \in Seq(Byte) /\ Len(m) \in 1 .. (Base * Base * Base * Base - 1)
  BY NewtAssumption
<1>2. Len(m) \in Nat /\ Len(m) > 0
  BY <1>1
<1>3. Base * Base * Base * Base \in Nat
  BY NewtAssumption
<1>4. Len(m) < Base * Base * Base * Base
  BY <1>1, <1>3
<1>5. HeadOf(Len(m)) \in Seq(Byte) /\ Len(HeadOf(Len(m))) = HeadLen
  BY <1>2, HeadBytes
<1>6. HeadValue(HeadOf(Len(m))) = Len(m)
  BY <1>2, <1>4, HeadInverse
<1> DEFINE h == HeadOf(Len(m))
<1>7. Frame(m) = h \o m
  BY DEF Frame
<1> HIDE DEF h
<1>8. /\ Frame(m) \in Seq(Byte) /\ Len(Frame(m)) = HeadLen + Len(m)
      /\ \A i \in 1 .. HeadLen : Frame(m)[i] = h[i]
      /\ \A i \in 1 .. Len(m) : Frame(m)[HeadLen + i] = m[i]
  <2>1. h \in Seq(Byte) /\ Len(h) = HeadLen
    BY <1>5 DEF h
  <2>2. /\ h \o m \in Seq(Byte) /\ Len(h \o m) = Len(h) + Len(m)
        /\ \A i \in 1 .. Len(h) : (h \o m)[i] = h[i]
        /\ \A i \in 1 .. Len(m) : (h \o m)[Len(h) + i] = m[i]
    <3>1. h \in Seq(Byte) /\ m \in Seq(Byte)
      BY <1>1, <2>1
    <3> QED
      BY ONLY <3>1, JoinedBytes
  <2> QED
    BY <1>7, <2>1, <2>2
<1> QED
  BY <1>1, <1>2, <1>6, <1>8 DEF h

\* One more message is one more frame in the stream.
LEMMA EndsMore ==
  ASSUME NEW ms \in Seq(Msg), NEW m \in Msg, NEW pos, Ends(ms, pos)
  PROVE  \E far : /\ Ends(Append(ms, m), far)
                  /\ far[Len(ms) + 1] = pos[Len(ms)] + HeadLen + Len(m)
                  /\ \A i \in 0 .. Len(ms) : far[i] = pos[i]
<1> DEFINE n   == Len(ms)
           new == Append(ms, m)
           far == [i \in 0 .. n + 1 |-> IF i = n + 1 THEN pos[n] + HeadLen + Len(m) ELSE pos[i]]
<1>1. /\ n \in Nat /\ Len(new) = n + 1
      /\ \A i \in 1 .. n : new[i] = ms[i]
      /\ new[n + 1] = m
  OBVIOUS
<1>2. Len(m) \in Nat /\ HeadLen \in Nat
  BY FrameFacts DEF HeadLen
<1>3. /\ \A i \in 0 .. n : pos[i] \in Nat
      /\ \A i \in 1 .. n : pos[i] = pos[i - 1] + HeadLen + Len(ms[i])
      /\ \A i, j \in 0 .. n : i <= j => pos[i] <= pos[j]
  <2>1. pos \in [0 .. n -> Nat] /\ n \in Nat
    BY DEF Ends
  <2>2. \A i \in 1 .. n : pos[i] = pos[i - 1] + HeadLen + Len(ms[i])
    BY DEF Ends
  <2>4. \A i, j \in 0 .. n : i <= j => pos[i] <= pos[j]
    BY DEF Ends
  <2> HIDE DEF n
  <2> QED
    BY <2>1, <2>2, <2>4
<1> HIDE DEF n, new
<1>4. /\ \A i \in 0 .. n : far[i] = pos[i]
      /\ far[n + 1] = pos[n] + HeadLen + Len(m)
      /\ DOMAIN far = 0 .. n + 1
  BY <1>1
<1>5. far \in [0 .. n + 1 -> Nat]
  BY <1>1, <1>2, <1>3
<1> HIDE DEF far
<1>6. ASSUME NEW i \in 1 .. n + 1 PROVE far[i] = far[i - 1] + HeadLen + Len(new[i])
  <2>1. CASE i = n + 1
    BY <1>1, <1>4, <2>1
  <2>2. CASE i # n + 1
    <3>1. i \in 1 .. n /\ i \in 0 .. n /\ i - 1 \in 0 .. n
      BY <1>1, <2>2
    <3> QED
      BY <1>1, <1>3, <1>4, <3>1
  <2> QED
    BY <2>1, <2>2
<1>7. ASSUME NEW i \in 0 .. n + 1, NEW j \in 0 .. n + 1, i <= j PROVE far[i] <= far[j]
  <2>1. CASE j = n + 1 /\ i # n + 1
    <3>1. i \in 0 .. n /\ pos[i] <= pos[n] /\ pos[i] \in Nat /\ pos[n] \in Nat
      BY <1>1, <1>3, <2>1
    <3> QED
      BY <1>2, <1>4, <2>1, <3>1
  <2>2. CASE j # n + 1
    BY <1>1, <1>3, <1>4, <1>7, <2>2
  <2>3. CASE j = n + 1 /\ i = n + 1
    BY <1>5, <2>3
  <2> QED
    BY <2>1, <2>2, <2>3
<1>9. Ends(new, far)
  BY <1>1, <1>5, <1>6, <1>7 DEF Ends
<1> QED
  BY <1>4, <1>9 DEF n, new

\* Where the messages end, as numbers.
LEMMA EndsFacts ==
  ASSUME NEW ms \in Seq(Msg), NEW pos, Ends(ms, pos), NEW k \in 0 .. Len(ms),
         NEW i \in k + 1 .. Len(ms)
  PROVE  /\ i \in 1 .. Len(ms) /\ i - 1 \in 0 .. Len(ms)
         /\ ms[i] \in Msg /\ Len(ms[i]) \in Nat
         /\ pos[k] \in Nat /\ pos[i - 1] \in Nat /\ pos[i] \in Nat /\ pos[Len(ms)] \in Nat
         /\ pos[k] <= pos[i - 1]
         /\ pos[i] = pos[i - 1] + HeadLen + Len(ms[i])
         /\ pos[i] <= pos[Len(ms)]
<1>1. /\ i \in 1 .. Len(ms) /\ i - 1 \in 0 .. Len(ms) /\ Len(ms) \in 0 .. Len(ms)
      /\ k <= i - 1 /\ i <= Len(ms) /\ i \in 0 .. Len(ms)
  OBVIOUS
<1>2. ms[i] \in Msg
  BY <1>1
<1>3. Len(ms[i]) \in Nat
  BY <1>2, FrameFacts
<1>4. pos \in [0 .. Len(ms) -> Nat]
  BY DEF Ends
<1>5. \A a, b \in 0 .. Len(ms) : a <= b => pos[a] <= pos[b]
  BY DEF Ends
<1>6. pos[i] = pos[i - 1] + HeadLen + Len(ms[i])
  BY <1>1 DEF Ends
<1> QED
  BY <1>1, <1>2, <1>3, <1>4, <1>5, <1>6

\* A first part of a first part.
LEMMA FollowsCut ==
  ASSUME NEW a \in Seq(Byte), NEW b \in Seq(Byte), NEW ms \in Seq(Msg), NEW k \in 0 .. Len(ms),
         NEW pos, Ends(ms, pos), Follows(a \o b, ms, k, pos)
  PROVE  Follows(a, ms, k, pos)
<1> DEFINE all == a \o b
<1>1. Len(all) = Len(a) + Len(b) /\ \A i \in 1 .. Len(a) : all[i] = a[i]
  BY JoinedBytes
<1>2. Len(a) \in Nat /\ Len(b) \in Nat
  OBVIOUS
<1>3. pos[Len(ms)] \in Nat /\ pos[k] \in Nat
  <2>1. pos \in [0 .. Len(ms) -> Nat] /\ Len(ms) \in 0 .. Len(ms)
    BY DEF Ends
  <2> QED
    BY <2>1
<1> HIDE DEF all
<1>4. ASSUME NEW i \in k + 1 .. Len(ms), NEW j \in 1 .. HeadLen + Len(ms[i]),
             pos[i - 1] - pos[k] + j <= Len(a)
      PROVE  a[pos[i - 1] - pos[k] + j] = Frame(ms[i])[j]
  <2>1. pos[i - 1] \in Nat /\ pos[k] <= pos[i - 1]
    BY EndsFacts
  <2>2. PICK d \in 1 .. Len(a) : d = pos[i - 1] - pos[k] + j
    BY <1>2, <1>3, <1>4, <2>1
  <2>3. d <= Len(all)
    BY <1>1, <1>2
  <2>4. all[pos[i - 1] - pos[k] + j] = Frame(ms[i])[j]
    BY <2>2, <2>3 DEF Follows, all
  <2> QED
    BY <1>1, <2>2, <2>4
<1>5. Len(a) <= pos[Len(ms)] - pos[k]
  <2>1. Len(all) <= pos[Len(ms)] - pos[k]
    BY DEF Follows, all
  <2> QED
    BY <1>1, <1>2, <1>3, <2>1
<1> QED
  BY <1>4, <1>5 DEF Follows

\* The stream goes on with the frame of another message.
LEMMA FollowsMore ==
  ASSUME NEW str \in Seq(Byte), NEW ms \in Seq(Msg), NEW k \in 0 .. Len(ms), NEW pos,
         Ends(ms, pos), Follows(str, ms, k, pos), Len(str) = pos[Len(ms)] - pos[k],
         NEW m \in Msg
  PROVE  \E far : /\ Ends(Append(ms, m), far)
                  /\ Follows(str \o Frame(m), Append(ms, m), k, far)
                  /\ Len(str \o Frame(m)) = far[Len(ms) + 1] - far[k]
<1> DEFINE n == Len(ms)  new == Append(ms, m)  all == str \o Frame(m)
<1>1. PICK far : /\ Ends(new, far)
                 /\ far[n + 1] = pos[n] + HeadLen + Len(m)
                 /\ \A i \in 0 .. n : far[i] = pos[i]
  BY EndsMore
<1>2. /\ Len(Frame(m)) = HeadLen + Len(m) /\ Frame(m) \in Seq(Byte)
      /\ Len(m) \in Nat /\ HeadLen \in Nat
  BY FrameFacts DEF HeadLen
<1>3. /\ Len(all) = Len(str) + Len(Frame(m))
      /\ \A i \in 1 .. Len(str) : all[i] = str[i]
      /\ \A i \in 1 .. Len(Frame(m)) : all[Len(str) + i] = Frame(m)[i]
  <2>1. str \in Seq(Byte) /\ Frame(m) \in Seq(Byte)
    BY <1>2
  <2> QED
    BY ONLY <2>1, JoinedBytes
<1>4. /\ Len(str) = pos[n] - pos[k]
      /\ n \in Nat /\ k \in 0 .. n /\ Len(new) = n + 1 /\ Len(str) \in Nat
      /\ \A i \in 1 .. n : new[i] = ms[i]
      /\ new[n + 1] = m /\ new \in Seq(Msg)
  OBVIOUS
<1>5. pos[n] \in Nat /\ pos[k] \in Nat
  BY DEF Ends
<1>6. Len(all) = far[n + 1] - far[k]
  BY <1>1, <1>2, <1>3, <1>4, <1>5
<1>7. far[k] = pos[k] /\ far[n] = pos[n]
  BY <1>1, <1>4
<1> HIDE DEF n, new, all
<1>8. ASSUME NEW i \in k + 1 .. n + 1, NEW j \in 1 .. HeadLen + Len(new[i]),
             far[i - 1] - far[k] + j <= Len(all)
      PROVE  all[far[i - 1] - far[k] + j] = Frame(new[i])[j]
  <2>1. CASE i = n + 1
    <3>1. i - 1 = n /\ new[i] = m
      BY <1>4, <2>1
    <3>2. j \in 1 .. Len(Frame(m)) /\ far[i - 1] - far[k] + j = Len(str) + j
      BY <1>2, <1>7, <3>1 DEF n
    <3> QED
      BY <1>3, <3>1, <3>2
  <2>2. CASE i # n + 1
    <3>1. i \in k + 1 .. n /\ i - 1 \in 0 .. n /\ i \in 1 .. n
      BY <1>4, <2>2
    <3>2. /\ new[i] = ms[i] /\ far[i - 1] = pos[i - 1]
      BY <1>1, <1>4, <3>1
    <3>3. /\ pos[i - 1] \in Nat /\ pos[k] <= pos[i - 1] /\ Len(ms[i]) \in Nat
          /\ pos[i] = pos[i - 1] + HeadLen + Len(ms[i]) /\ pos[i] <= pos[n] /\ pos[i] \in Nat
      BY <3>1, EndsFacts DEF n
    <3>6. j \in Nat /\ 1 <= j /\ j <= HeadLen + Len(ms[i])
      BY <1>2, <3>2, <3>3
    <3>4. pos[i - 1] - pos[k] + j \in 1 .. Len(str)
      <4>1. Len(str) = pos[n] - pos[k]
        BY <1>4
      <4>2. pos[i - 1] - pos[k] + j <= Len(str)
        <5>1. pos[i - 1] \in Nat /\ pos[i] \in Nat /\ pos[k] \in Nat /\ pos[n] \in Nat
          BY ONLY <1>5, <3>3
        <5>2. pos[i] = pos[i - 1] + HeadLen + Len(ms[i]) /\ pos[i] <= pos[n]
          BY ONLY <3>3
        <5>3. HeadLen \in Nat /\ Len(ms[i]) \in Nat
          BY ONLY <1>2, <3>3
        <5>5. PICK p \in Nat, q \in Nat, u \in Nat, t \in Nat :
                p = pos[i - 1] /\ q = pos[i] /\ u = pos[k] /\ t = pos[n]
          BY ONLY <5>1
        <5>6. q = p + HeadLen + Len(ms[i]) /\ q <= t /\ Len(str) = t - u
          BY ONLY <4>1, <5>2, <5>5
        <5>7. p - u + j <= t - u
          <6>1. PICK h \in Nat, l \in Nat, x \in Nat : h = HeadLen /\ l = Len(ms[i]) /\ x = j
            BY ONLY <3>6, <5>3
          <6>2. q = p + h + l /\ q <= t /\ x <= h + l
            BY ONLY <3>6, <5>6, <6>1
          <6>3. p - u + x <= t - u
            BY ONLY <6>2
          <6> QED
            BY ONLY <6>1, <6>3
        <5> QED
          BY ONLY <5>5, <5>6, <5>7
      <4>3. pos[i - 1] - pos[k] + j >= 1
        <5>1. pos[i - 1] \in Nat /\ pos[k] \in Nat /\ pos[k] <= pos[i - 1]
          BY ONLY <1>5, <3>3
        <5> QED
          BY ONLY <3>6, <5>1
      <4>4. pos[i - 1] - pos[k] + j \in Int
        BY <1>5, <3>3, <3>6
      <4> QED
        BY <4>2, <4>3, <4>4
    <3>5. str[pos[i - 1] - pos[k] + j] = Frame(ms[i])[j]
      BY <1>4, <3>1, <3>2, <3>4 DEF Follows, n
    <3> QED
      BY <1>3, <1>7, <3>2, <3>4, <3>5
  <2> QED
    BY <2>1, <2>2
<1>9. Follows(all, new, k, far)
  BY <1>1, <1>4, <1>5, <1>6, <1>7, <1>8 DEF Follows
<1> QED
  BY <1>1, <1>6, <1>9 DEF n, new, all

\* A stream that begins with a whole frame begins with the next message, and goes
\* on with the ones after it.
LEMMA FollowsNext ==
  ASSUME NEW a \in Seq(Byte), NEW str \in Seq(Byte), NEW ms \in Seq(Msg),
         NEW k \in 0 .. Len(ms), k < Len(ms), NEW pos, Ends(ms, pos),
         Follows(a \o str, ms, k, pos), Len(a) = HeadLen + Len(ms[k + 1])
  PROVE  /\ \A j \in 1 .. Len(a) : a[j] = Frame(ms[k + 1])[j]
         /\ Follows(str, ms, k + 1, pos)
         /\ Len(a \o str) - (pos[Len(ms)] - pos[k]) = Len(str) - (pos[Len(ms)] - pos[k + 1])
<1> DEFINE n == Len(ms)
<1> DEFINE all == a \o str
<1>1. /\ Len(all) = Len(a) + Len(str)
      /\ \A i \in 1 .. Len(a) : all[i] = a[i]
      /\ \A i \in 1 .. Len(str) : all[Len(a) + i] = str[i]
  <2>1. a \in Seq(Byte) /\ str \in Seq(Byte)
    OBVIOUS
  <2> QED
    BY ONLY <2>1, JoinedBytes
<1>2. /\ k + 1 \in k + 1 .. n /\ k + 1 \in 0 .. n /\ k \in Nat /\ n \in Nat
      /\ Len(a) \in Nat /\ Len(str) \in Nat
  OBVIOUS
<1>3. /\ pos[k] \in Nat /\ pos[k + 1] \in Nat /\ pos[n] \in Nat
      /\ pos[k + 1] = pos[k] + Len(a)
  <2>1. pos[k + 1] = pos[(k + 1) - 1] + HeadLen + Len(ms[k + 1]) /\ (k + 1) - 1 = k
    BY <1>2, EndsFacts
  <2>2. pos[k] \in Nat /\ pos[k + 1] \in Nat /\ pos[n] \in Nat
    BY <1>2, EndsFacts
  <2>3. Len(ms[k + 1]) \in Nat /\ HeadLen \in Nat
    BY <1>2, EndsFacts DEF HeadLen
  <2> QED
    BY <2>1, <2>2, <2>3
<1> HIDE DEF n, all
<1>4. /\ Len(all) <= pos[n] - pos[k]
      /\ \A i \in k + 1 .. n : \A j \in 1 .. HeadLen + Len(ms[i]) :
           pos[i - 1] - pos[k] + j <= Len(all) =>
             all[pos[i - 1] - pos[k] + j] = Frame(ms[i])[j]
  BY DEF Follows, n, all
<1>5. ASSUME NEW j \in 1 .. Len(a) PROVE a[j] = Frame(ms[k + 1])[j]
  <2>1. (k + 1) - 1 = k /\ pos[(k + 1) - 1] - pos[k] + j = j /\ j <= Len(all)
    BY <1>1, <1>2, <1>3
  <2>2. all[j] = Frame(ms[k + 1])[j]
    BY <1>2, <1>4, <2>1
  <2> QED
    BY <1>1, <2>2
<1>6. ASSUME NEW i \in (k + 1) + 1 .. n, NEW j \in 1 .. HeadLen + Len(ms[i]),
             pos[i - 1] - pos[k + 1] + j <= Len(str)
      PROVE  str[pos[i - 1] - pos[k + 1] + j] = Frame(ms[i])[j]
  <2>1. i \in k + 1 .. n
    BY <1>2
  <2>2. pos[i - 1] \in Nat /\ pos[k + 1] <= pos[i - 1]
    BY <1>2, EndsFacts DEF n
  <2>3. PICK d \in 1 .. Len(str) : d = pos[i - 1] - pos[k + 1] + j
    BY <1>2, <1>3, <1>6, <2>2
  <2>4. pos[i - 1] - pos[k] + j = Len(a) + d /\ Len(a) + d <= Len(all)
    <3>1. Len(all) = Len(a) + Len(str)
      BY <1>1
    <3>2. d <= Len(str) /\ d \in Nat /\ j \in Int
      BY <1>2
    <3>3. pos[k + 1] = pos[k] + Len(a) /\ pos[k] \in Nat /\ pos[k + 1] \in Nat
      BY ONLY <1>3
    <3>4. pos[i - 1] \in Nat
      BY ONLY <2>2
    <3>5. d = pos[i - 1] - pos[k + 1] + j
      BY ONLY <2>3
    <3>6. Len(str) \in Nat /\ Len(a) \in Nat
      BY ONLY <1>2
    <3>7. pos[i - 1] - pos[k] + j = Len(a) + d
      <4>1. \A p, q, r, x, y, z \in Int :
              q = r + x /\ y = p - q + z => p - r + z = x + y
        OBVIOUS
      <4>2. PICK p \in Nat, q \in Nat, u \in Nat :
              p = pos[i - 1] /\ q = pos[k + 1] /\ u = pos[k]
        BY ONLY <3>3, <3>4
      <4>3. q = u + Len(a) /\ d = p - q + j
        BY ONLY <3>3, <3>5, <4>2
      <4>4. p - u + j = Len(a) + d
        BY ONLY <3>2, <3>6, <4>1, <4>3
      <4> QED
        BY ONLY <4>2, <4>4
    <3>8. Len(a) + d <= Len(all)
      BY ONLY <3>1, <3>2, <3>6
    <3> QED
      BY ONLY <3>7, <3>8
  <2>5. all[Len(a) + d] = Frame(ms[i])[j]
    BY <1>4, <2>1, <2>4
  <2> QED
    BY <1>1, <2>3, <2>5
<1>7. /\ Len(str) <= pos[n] - pos[k + 1]
      /\ Len(all) - (pos[n] - pos[k]) = Len(str) - (pos[n] - pos[k + 1])
  <2>1. Len(all) = Len(a) + Len(str) /\ Len(all) <= pos[n] - pos[k]
    BY <1>1, <1>4
  <2>2. Len(all) = Len(a) + Len(str)
    BY ONLY <2>1
  <2>3. Len(str) \in Nat /\ Len(a) \in Nat
    BY ONLY <1>2
  <2>4. pos[k + 1] = pos[k] + Len(a)
    BY ONLY <1>3
  <2>5. pos[k] \in Nat /\ pos[n] \in Nat /\ pos[k + 1] \in Nat
    BY ONLY <1>3
  <2>6. Len(all) <= pos[n] - pos[k]
    BY ONLY <2>1
  <2>7. Len(str) <= pos[n] - pos[k + 1]
    BY ONLY <2>2, <2>3, <2>4, <2>5, <2>6
  <2> QED
    BY ONLY <2>2, <2>3, <2>4, <2>5, <2>6, <2>7
<1>8. Follows(str, ms, k + 1, pos)
  BY <1>6, <1>7 DEF Follows, n
<1> QED
  BY <1>5, <1>7, <1>8 DEF n, all

-----------------------------------------------------------------------------
(* The invariant.                                                          *)

\* The types of what the stream is made of.
LEMMA RestType ==
  ASSUME NewtTypeOK
  PROVE  /\ Part \in Seq(Byte) /\ buf \in Seq(Byte) /\ wire \in Seq(Byte)
         /\ buf \o wire \in Seq(Byte) /\ Rest \in Seq(Byte)
<1>1. /\ hed \in Seq(Byte) /\ tal \in Seq(Byte) /\ len \in Nat
      /\ buf \in Seq(Byte) /\ wire \in Seq(Byte)
  BY DEF NewtTypeOK
<1>2. HeadOf(len) \in Seq(Byte)
  BY <1>1, HeadBytes
<1>3. HeadOf(len) \o tal \in Seq(Byte)
  BY ONLY <1>1, <1>2, JoinedBytes
<1>4. Part \in Seq(Byte)
  BY <1>1, <1>3 DEF Part
<1>5. buf \o wire \in Seq(Byte)
  BY ONLY <1>1, JoinedBytes
<1>6. Part \o (buf \o wire) \in Seq(Byte)
  BY ONLY <1>4, <1>5, JoinedBytes
<1> QED
  BY <1>1, <1>4, <1>5, <1>6 DEF Rest

\* At first there is nothing to read, and nothing read.
LEMMA NewtInitInv == NewtInit => NewtInv
<1> SUFFICES ASSUME NewtInit PROVE NewtInv
  OBVIOUS
<1> USE DEF NewtInit
<1>1. NewtTypeOK
  <2>1. <<>> \in Seq(Byte) /\ <<>> \in Seq(Msg) /\ Len(<<>>) = 0
    OBVIOUS
  <2>2. Len(hed) < HeadLen
    BY <2>1 DEF HeadLen
  <2> QED
    BY <2>1, <2>2 DEF NewtTypeOK
<1>2. Had = 0 /\ Len(sent) = 0
  BY DEF Had
<1>3. Rest = <<>>
  BY DEF Rest, Part
<1>4. StreamInv
  <2> DEFINE pos == [i \in 0 .. Len(sent) |-> 0]
  <2>1. pos[Len(sent)] = 0 /\ pos[Had] = 0 /\ Ends(sent, pos)
    BY <1>2 DEF Ends
  <2> HIDE DEF pos
  <2>2. Len(Rest) = pos[Len(sent)] - pos[Had]
    BY <1>3, <2>1
  <2>3. Follows(Rest, sent, Had, pos)
    BY <1>2, <2>2, <2>1, <1>3 DEF Follows
  <2> QED
    BY <2>1, <2>2, <2>3 DEF StreamInv
<1> QED
  BY <1>1, <1>2, <1>4 DEF NewtInv, OrderInv, AwaitInv, IdleInv

\* A message that is sent is one more frame in the pipe.
LEMMA SendInv == NewtInv /\ Send => NewtInv'
<1> SUFFICES ASSUME NewtInv, Send PROVE NewtInv'
  OBVIOUS
<1>1. PICK m \in Msg : sent' = Append(sent, m) /\ wire' = wire \o Frame(m)
  BY DEF Send
<1>2. /\ writer = "live"
      /\ UNCHANGED <<writer, mode, moat, buf, at, sat, hed, len, tal, ext, tim, got>>
  BY DEF Send, messVars
<1>3. NewtTypeOK /\ OrderInv /\ StreamInv /\ AwaitInv /\ IdleInv
  BY DEF NewtInv
<1>4. Frame(m) \in Seq(Byte)
  BY FrameFacts
<1>5. sent \in Seq(Msg) /\ wire \in Seq(Byte) /\ got \in Seq(Msg) /\ ext \in Seq(Msg)
  BY <1>3 DEF NewtTypeOK
<1>6. /\ sent' \in Seq(Msg) /\ Len(sent') = Len(sent) + 1
      /\ \A i \in 1 .. Len(sent) : sent'[i] = sent[i]
  BY <1>1, <1>5
<1>7. wire' \in Seq(Byte)
  BY ONLY <1>1, <1>4, <1>5, JoinedBytes
<1>8. NewtTypeOK'
  BY <1>2, <1>3, <1>6, <1>7 DEF NewtTypeOK
<1>9. Had' = Had /\ Had \in Nat /\ Part' = Part /\ Len(sent) \in Nat
  BY <1>2, <1>5 DEF Had, Part
<1>10. Rest' = Rest \o Frame(m)
  <2>1. Part \in Seq(Byte) /\ buf \in Seq(Byte) /\ buf \o wire \in Seq(Byte)
    BY <1>3, RestType
  <2>3. (buf \o wire) \o Frame(m) = buf \o (wire \o Frame(m))
    BY ONLY <1>4, <1>5, <2>1, Regroup
  <2>4. (Part \o (buf \o wire)) \o Frame(m) = Part \o ((buf \o wire) \o Frame(m))
    BY ONLY <1>4, <2>1, Regroup
  <2>5. Rest' = Part \o (buf \o (wire \o Frame(m)))
    BY <1>1, <1>2, <1>9 DEF Rest
  <2> QED
    BY <2>3, <2>4, <2>5 DEF Rest
<1>11. OrderInv'
  <2>1. Had <= Len(sent) /\ \A i \in 1 .. Had : (got \o ext)[i] = sent[i]
    BY <1>3 DEF OrderInv
  <2>2. Had <= Len(sent')
    BY <1>6, <1>9, <2>1
  <2>3. ASSUME NEW i \in 1 .. Had PROVE (got \o ext)[i] = sent'[i]
    <3>1. i \in 1 .. Len(sent)
      BY <1>9, <2>1
    <3> QED
      BY <1>6, <2>1, <3>1
  <2> QED
    BY <1>2, <1>9, <2>2, <2>3 DEF OrderInv
<1>12. StreamInv'
  <2> SUFFICES ASSUME moat = "live"
               PROVE  \E far : /\ Ends(sent', far)
                               /\ Follows(Rest', sent', Had, far)
                               /\ Len(Rest') = far[Len(sent')] - far[Had]
    BY <1>2, <1>9 DEF StreamInv
  <2>1. PICK pos : /\ Ends(sent, pos) /\ Follows(Rest, sent, Had, pos)
                   /\ Len(Rest) = pos[Len(sent)] - pos[Had]
    BY <1>2, <1>3 DEF StreamInv
  <2>2. Rest \in Seq(Byte) /\ Had \in 0 .. Len(sent)
    BY <1>3, <1>9, RestType DEF OrderInv
  <2>3. \E far : /\ Ends(Append(sent, m), far)
                 /\ Follows(Rest \o Frame(m), Append(sent, m), Had, far)
                 /\ Len(Rest \o Frame(m)) = far[Len(sent) + 1] - far[Had]
    BY <1>5, <2>1, <2>2, FollowsMore
  <2> QED
    BY <1>1, <1>6, <1>10, <2>3
<1>13. AwaitInv'
  <2> SUFFICES ASSUME moat = "live", sat = "tail"
               PROVE  Had < Len(sent') /\ len = Len(sent'[Had + 1])
    BY <1>2, <1>9 DEF AwaitInv
  <2>1. Had < Len(sent) /\ len = Len(sent[Had + 1])
    BY <1>3 DEF AwaitInv
  <2>2. Had + 1 \in 1 .. Len(sent)
    BY <1>9, <2>1
  <2> QED
    BY <1>6, <1>9, <2>1, <2>2
<1>14. IdleInv'
  BY <1>2, <1>3 DEF IdleInv
<1> QED
  BY <1>8, <1>11, <1>12, <1>13, <1>14 DEF NewtInv

\* Of the stream of a writer that dies, a first part is left.
LEMMA DiesInv == NewtInv /\ WriterDies => NewtInv'
<1> SUFFICES ASSUME NewtInv, WriterDies PROVE NewtInv'
  OBVIOUS
<1>1. PICK n \in 0 .. Len(wire) : wire' = SubSeq(wire, 1, n)
  BY DEF WriterDies
<1>2. /\ writer' = "dead"
      /\ UNCHANGED <<sent, mode, moat, buf, at, sat, hed, len, tal, ext, tim, got>>
  BY DEF WriterDies, messVars
<1>3. NewtTypeOK /\ OrderInv /\ StreamInv /\ AwaitInv /\ IdleInv
  BY DEF NewtInv
<1>4. wire \in Seq(Byte) /\ sent \in Seq(Msg)
  BY <1>3 DEF NewtTypeOK
<1> DEFINE lost == SubSeq(wire, n + 1, Len(wire))
<1>5. wire' \in Seq(Byte) /\ lost \in Seq(Byte) /\ wire' \o lost = wire
  BY <1>1, <1>4, Split, Whole
<1> HIDE DEF lost
<1>6. NewtTypeOK'
  BY <1>2, <1>3, <1>5 DEF NewtTypeOK
<1>7. Had' = Had /\ Part' = Part /\ Had \in Nat
  BY <1>2, <1>3 DEF Had, Part, NewtTypeOK
<1>8. Rest' \o lost = Rest /\ Rest' \in Seq(Byte)
  <2>1. Part \in Seq(Byte) /\ buf \in Seq(Byte)
    BY <1>3, RestType
  <2>3. buf \o wire' \in Seq(Byte)
    BY ONLY <1>5, <2>1, JoinedBytes
  <2>4. (buf \o wire') \o lost = buf \o (wire' \o lost)
    BY ONLY <1>5, <2>1, Regroup
  <2>5. (Part \o (buf \o wire')) \o lost = Part \o ((buf \o wire') \o lost)
    BY ONLY <1>5, <2>1, Regroup, <2>3
  <2>6. Part \o (buf \o wire') \in Seq(Byte)
    BY ONLY <2>1, <2>3, JoinedBytes
  <2>7. Rest' = Part \o (buf \o wire')
    BY <1>2, <1>7 DEF Rest
  <2> QED
    BY <1>5, <2>4, <2>5, <2>6, <2>7 DEF Rest
<1>9. StreamInv'
  <2> SUFFICES ASSUME moat = "live"
               PROVE  \E pos : Ends(sent, pos) /\ Follows(Rest', sent, Had, pos)
    BY <1>2, <1>7 DEF StreamInv
  <2>1. PICK pos : Ends(sent, pos) /\ Follows(Rest, sent, Had, pos)
    BY <1>3 DEF StreamInv
  <2>2. Had \in 0 .. Len(sent)
    BY <1>3, <1>4, <1>7 DEF OrderInv
  <2>3. Follows(Rest' \o lost, sent, Had, pos)
    BY <1>8, <2>1
  <2>4. Follows(Rest', sent, Had, pos)
    BY <1>4, <1>5, <1>8, <2>1, <2>2, <2>3, FollowsCut
  <2> QED
    BY <2>1, <2>4
<1> QED
  BY <1>2, <1>3, <1>6, <1>7, <1>9 DEF NewtInv, OrderInv, AwaitInv, IdleInv

\* Steps that move the stream's bytes along, and messages from the queue to the
\* client, and change nothing else of it.
LEMMA SteadyInv ==
  ASSUME NewtInv, NewtTypeOK', UNCHANGED <<sent, writer, moat>>,
         Rest' = Rest, Had' = Had, got' \o ext' = got \o ext,
         moat = "live" /\ sat' = "tail" => Had < Len(sent) /\ len' = Len(sent[Had + 1]),
         IdleInv'
  PROVE  NewtInv'
BY DEF NewtInv, OrderInv, StreamInv, AwaitInv

\* What libuv has read moves from the pipe to the buffer.
LEMMA ReadInv == NewtInv /\ ReadSome => NewtInv'
<1> SUFFICES ASSUME NewtInv, ReadSome PROVE NewtInv'
  OBVIOUS
<1>1. PICK n \in 1 .. Len(wire) :
        /\ buf' = SubSeq(wire, 1, n)
        /\ wire' = SubSeq(wire, n + 1, Len(wire))
  BY DEF ReadSome
<1>2. /\ moat = "live" /\ at = "idle" /\ at' = "decode"
      /\ UNCHANGED <<sent, writer, mode, moat, sat, hed, len, tal, ext, tim, got>>
  BY DEF ReadSome, messVars
<1>3. NewtTypeOK /\ AwaitInv /\ IdleInv
  BY DEF NewtInv
<1>4. wire \in Seq(Byte) /\ buf = <<>> /\ Part \in Seq(Byte) /\ n \in 0 .. Len(wire)
  BY <1>2, <1>3, RestType DEF NewtTypeOK, IdleInv
<1>5. buf' \in Seq(Byte) /\ wire' \in Seq(Byte) /\ buf' \o wire' = wire
  BY <1>1, <1>4, Split, Whole
<1>6. NewtTypeOK'
  BY <1>2, <1>3, <1>5 DEF NewtTypeOK
<1>7. Part' = Part /\ Had' = Had
  BY <1>2 DEF Part, Had
<1>8. <<>> \o wire = wire
  BY <1>4
<1>9. Rest' = Rest
  BY <1>4, <1>5, <1>7, <1>8 DEF Rest
<1> QED
  BY <1>2, <1>3, <1>6, <1>7, <1>9, SteadyInv DEF AwaitInv, IdleInv

\* How much of the buffer an iteration takes.
LEMMA Copied ==
  ASSUME NEW n \in Nat, n > 0, buf \in Seq(Byte), buf # <<>>
  PROVE  /\ Least(n, Len(buf)) \in 0 .. Len(buf)
         /\ Least(n, Len(buf)) > 0 /\ Least(n, Len(buf)) <= n
<1>1. Len(buf) \in Nat /\ Len(buf) > 0
  OBVIOUS
<1> QED
  BY <1>1 DEF Least

\* The stream is closed, and what was not delivered is forgotten.
LEMMA DisposeInv ==
  ASSUME NewtInv, Dispose, moat' \in {"ended", "refused", "gone"},
         UNCHANGED <<sent, writer, wire, mode, got>>
  PROVE  NewtInv'
<1>1. NewtTypeOK /\ OrderInv
  BY DEF NewtInv
<1>2. /\ sat' = "head" /\ hed' = <<>> /\ len' = 0 /\ tal' = <<>>
      /\ ext' = <<>> /\ tim' = FALSE /\ buf' = <<>> /\ at' = "idle"
  BY DEF Dispose, AwaitHead
<1>3. /\ <<>> \in Seq(Byte) /\ <<>> \in Seq(Msg) /\ Len(<<>>) = 0 /\ HeadLen = 5
  BY DEF HeadLen
<1>4. Len(hed') < HeadLen
  BY <1>2, <1>3
<1>5. NewtTypeOK'
  BY <1>1, <1>2, <1>3, <1>4 DEF NewtTypeOK
<1>6. /\ got \in Seq(Msg) /\ ext \in Seq(Msg) /\ Len(got) \in Nat /\ Len(ext) \in Nat
      /\ got \o <<>> = got
  BY <1>1 DEF NewtTypeOK
<1>7. Had = Len(got) + Len(ext) /\ Had' = Len(got)
  BY <1>2, <1>3, <1>6 DEF Had
<1>8. OrderInv'
  <2>1. Len(got) <= Had /\ Had <= Len(sent) /\ Len(sent) \in Nat
    BY <1>1, <1>6, <1>7 DEF OrderInv, NewtTypeOK
  <2>2. \A i \in 1 .. Len(got) : (got \o ext)[i] = got[i]
    BY <1>6, Joined
  <2>3. ASSUME NEW i \in 1 .. Len(got) PROVE got[i] = sent[i]
    <3>1. i \in 1 .. Had
      BY <1>6, <1>7, <2>1
    <3> QED
      BY <1>1, <2>2, <3>1 DEF OrderInv
  <2>4. Len(got) <= Len(sent)
    BY <1>6, <1>7, <2>1
  <2>5. (got \o ext)' = got
    BY <1>2, <1>6
  <2> QED
    BY <1>7, <2>3, <2>4, <2>5 DEF OrderInv
<1>9. StreamInv' /\ AwaitInv' /\ IdleInv'
  BY <1>2 DEF StreamInv, AwaitInv, IdleInv
<1> QED
  BY <1>5, <1>8, <1>9 DEF NewtInv

\* Messages of the queue are delivered from its front.
LEMMA DeliverInv ==
  ASSUME NewtInv, MeatSync \/ (\E t \in BOOLEAN : MeatNext(t)),
         at' = "idle", buf = <<>>,
         UNCHANGED <<sent, writer, wire, mode, moat, buf, sat, hed, len, tal>>
  PROVE  NewtInv'
<1>1. NewtTypeOK /\ AwaitInv /\ IdleInv
  BY DEF NewtInv
<1>2. got \in Seq(Msg) /\ ext \in Seq(Msg) /\ tim \in BOOLEAN
  BY <1>1 DEF NewtTypeOK
<1>3. got' \o ext' = got \o ext /\ got' \in Seq(Msg) /\ ext' \in Seq(Msg)
      /\ Len(got') + Len(ext') = Len(got) + Len(ext) /\ tim' \in BOOLEAN
  <2>1. CASE MeatSync
    BY <1>2, <2>1 DEF MeatSync
  <2>2. ASSUME NEW t \in BOOLEAN, MeatNext(t)
        PROVE  /\ got' \o ext' = got \o ext /\ got' \in Seq(Msg) /\ ext' \in Seq(Msg)
               /\ Len(got') + Len(ext') = Len(got) + Len(ext) /\ tim' \in BOOLEAN
    <3>1. CASE ext = <<>>
      BY <1>2, <2>2, <3>1 DEF MeatNext
    <3>2. CASE ext # <<>>
      <4> DEFINE m == Head(ext)  rest == Tail(ext)
      <4>1. got' = Append(got, m) /\ ext' = rest /\ tim' = (t \/ Len(ext) > 1)
        BY <2>2, <3>2 DEF MeatNext
      <4>2. /\ m \in Msg /\ rest \in Seq(Msg) /\ Len(rest) = Len(ext) - 1
            /\ ext = <<m>> \o rest
        BY <1>2, <3>2
      <4> HIDE DEF m, rest
      <4>3. Append(got, m) = got \o <<m>> /\ <<m>> \in Seq(Msg)
        BY <1>2, <4>2
      <4>4. (got \o <<m>>) \o rest = got \o (<<m>> \o rest)
        BY <1>2, <4>2, <4>3, Regroup
      <4>5. Append(got, m) \in Seq(Msg) /\ Len(Append(got, m)) = Len(got) + 1
        BY <1>2, <4>2
      <4>6. got' \o ext' = got \o ext
        BY <4>1, <4>2, <4>3, <4>4
      <4>7. Len(got') + Len(ext') = Len(got) + Len(ext)
        BY <1>2, <4>1, <4>2, <4>5
      <4>8. tim' \in BOOLEAN
        BY <4>1
      <4> QED
        BY <4>1, <4>2, <4>5, <4>6, <4>7, <4>8
    <3> QED
      BY <3>1, <3>2
  <2> QED
    BY <2>1, <2>2
<1>4. NewtTypeOK'
  BY <1>1, <1>3 DEF NewtTypeOK
<1>5. Part' = Part /\ Had' = Had /\ Rest' = Rest
  BY <1>3 DEF Part, Had, Rest
<1> QED
  BY <1>1, <1>3, <1>4, <1>5, SteadyInv DEF AwaitInv, IdleInv

\* A header, or a part of it, is decoded.
LEMMA HeadInv == NewtInv /\ DecodeHead => NewtInv'
<1> SUFFICES ASSUME NewtInv, DecodeHead PROVE NewtInv'
  OBVIOUS
<1> DEFINE cop == Least(HeadLen - Len(hed), Len(buf))
           got5 == SubSeq(buf, 1, cop)
           left == SubSeq(buf, cop + 1, Len(buf))
           h == hed \o got5
<1>1. /\ at = "decode" /\ sat = "head" /\ buf # <<>>
      /\ UNCHANGED <<sent, writer, wire, mode, got>>
      /\ \/ /\ Len(h) < HeadLen /\ hed' = h /\ buf' = left
            /\ UNCHANGED <<moat, at, sat, len, tal, ext, tim>>
         \/ /\ Len(h) = HeadLen /\ h[1] = Tag /\ HeadValue(h) # 0
            /\ AwaitTail(HeadValue(h)) /\ buf' = left
            /\ UNCHANGED <<moat, at, ext, tim>>
         \/ /\ moat' = "refused" /\ Dispose
  BY DEF DecodeHead, wireVars
<1>2. NewtTypeOK /\ OrderInv /\ StreamInv /\ AwaitInv /\ IdleInv
  BY DEF NewtInv
<1>3. /\ hed \in Seq(Byte) /\ buf \in Seq(Byte) /\ wire \in Seq(Byte)
      /\ sent \in Seq(Msg) /\ moat = "live"
      /\ HeadLen - Len(hed) \in Nat /\ HeadLen - Len(hed) > 0
  BY <1>1, <1>2 DEF NewtTypeOK, IdleInv, HeadLen
<1>4. cop \in 0 .. Len(buf)
  BY <1>1, <1>3, Copied
<1> HIDE DEF cop
<1>5. got5 \in Seq(Byte) /\ left \in Seq(Byte)
  BY <1>3, <1>4, Split
<1>6. h \in Seq(Byte)
  BY ONLY <1>3, <1>5, JoinedBytes
<1>7. h \o (left \o wire) = Rest
  <2>1. (hed \o got5) \o (left \o wire) = hed \o (buf \o wire)
    BY ONLY <1>3, <1>4, Moved
  <2> QED
    BY <1>1, <2>1 DEF Rest, Part
<1> HIDE DEF got5, left, h
<1>8. CASE moat' = "refused" /\ Dispose
  BY <1>1, <1>8, DisposeInv
<1>9. CASE /\ Len(h) < HeadLen /\ hed' = h /\ buf' = left
           /\ UNCHANGED <<moat, at, sat, len, tal, ext, tim>>
  <2>1. NewtTypeOK'
    BY <1>1, <1>2, <1>5, <1>6, <1>9 DEF NewtTypeOK
  <2>2. Rest' = Rest /\ Had' = Had
    BY <1>1, <1>7, <1>9 DEF Rest, Part, Had
  <2> QED
    BY <1>1, <1>2, <1>9, <2>1, <2>2, SteadyInv DEF AwaitInv, IdleInv
<1>10. CASE /\ Len(h) = HeadLen /\ h[1] = Tag /\ HeadValue(h) # 0
            /\ AwaitTail(HeadValue(h)) /\ buf' = left
            /\ UNCHANGED <<moat, at, ext, tim>>
  <2>1. PICK pos : Ends(sent, pos) /\ Follows(Rest, sent, Had, pos)
    BY <1>2, <1>3 DEF StreamInv
  <2>2. Had \in 0 .. Len(sent) /\ Had \in Nat
    BY <1>2 DEF OrderInv, Had, NewtTypeOK
  <2>3. left \o wire \in Seq(Byte)
    BY ONLY <1>3, <1>5, JoinedBytes
  <2>4. Follows(h, sent, Had, pos)
    BY <1>3, <1>6, <1>7, <2>1, <2>2, <2>3, FollowsCut
  <2>5. Had < Len(sent)
    <3>1. SUFFICES ASSUME Had = Len(sent) PROVE FALSE
      BY <2>2
    <3>2. Len(h) <= pos[Len(sent)] - pos[Had]
      BY <2>4 DEF Follows
    <3>3. pos \in [0 .. Len(sent) -> Nat]
      BY <2>1 DEF Ends
    <3>4. pos[Had] \in Nat
      BY <2>2, <3>3
    <3>5. pos[Len(sent)] - pos[Had] = 0
      BY <3>1, <3>4
    <3> QED
      BY <1>10, <3>2, <3>5 DEF HeadLen
  <2> DEFINE m == sent[Had + 1]
  <2>6. m \in Msg
    <3>1. Had + 1 \in 1 .. Len(sent)
      BY <2>2, <2>5
    <3> QED
      BY <1>3, <3>1
  <2>7. ASSUME NEW j \in 1 .. HeadLen PROVE h[j] = HeadOf(Len(m))[j]
    <3>1. Had + 1 \in Had + 1 .. Len(sent) /\ (Had + 1) - 1 = Had
      BY <2>2, <2>5
    <3>2. pos[Had] \in Nat
      BY <2>1, <2>2 DEF Ends
    <3>3. j \in 1 .. HeadLen + Len(sent[Had + 1])
      BY <2>6, FrameFacts DEF HeadLen
    <3>4. pos[(Had + 1) - 1] - pos[Had] + j = j
      BY <3>1, <3>2 DEF HeadLen
    <3>5. j <= Len(h)
      BY <1>10 DEF HeadLen
    <3>6. h[pos[(Had + 1) - 1] - pos[Had] + j] = Frame(sent[Had + 1])[j]
      BY <2>4, <3>1, <3>3, <3>4, <3>5 DEF Follows
    <3> QED
      BY <2>6, <3>4, <3>6, FrameFacts
  <2> HIDE DEF m
  <2>8. Len(m) \in Nat /\ HeadValue(HeadOf(Len(m))) = Len(m) /\ Len(m) > 0
    BY <2>6, FrameFacts
  <2>9. h = HeadOf(Len(m))
    <3>1. HeadOf(Len(m)) \in Seq(Byte) /\ Len(HeadOf(Len(m))) = HeadLen
      BY <2>8, HeadBytes
    <3> QED
      BY <1>6, <1>10, <2>7, <3>1, Same
  <2>10. sat' = "tail" /\ hed' = <<>> /\ len' = Len(m) /\ tal' = <<>>
    BY <1>10, <2>8, <2>9 DEF AwaitTail
  <2>11. NewtTypeOK'
    <3>1. <<>> \in Seq(Byte) /\ Len(<<>>) = 0 /\ HeadLen = 5
      BY DEF HeadLen
    <3>2. Len(hed') < HeadLen /\ Len(tal') < len'
      BY <2>8, <2>10, <3>1
    <3> QED
      BY <1>1, <1>2, <1>5, <1>10, <2>8, <2>10, <3>1, <3>2 DEF NewtTypeOK
  <2>12. Rest' = Rest /\ Had' = Had
    <3>1. h \o <<>> = h
      BY <1>6
    <3>2. Part' = h
      BY <2>9, <2>10, <3>1 DEF Part
    <3> QED
      BY <1>1, <1>7, <1>10, <3>2 DEF Rest, Had
  <2> QED
    BY <1>1, <1>2, <1>3, <1>10, <2>5, <2>10, <2>11, <2>12, SteadyInv DEF IdleInv, m
<1> QED
  BY <1>1, <1>8, <1>9, <1>10

\* A body, or a part of it, is decoded; a whole one joins the queue.
LEMMA TailInv == NewtInv /\ DecodeTail => NewtInv'
<1> SUFFICES ASSUME NewtInv, DecodeTail PROVE NewtInv'
  OBVIOUS
<1> DEFINE cop == Least(len - Len(tal), Len(buf))
           more == SubSeq(buf, 1, cop)
           left == SubSeq(buf, cop + 1, Len(buf))
           t == tal \o more
           head == HeadOf(len)
<1>1. /\ at = "decode" /\ sat = "tail" /\ buf # <<>> /\ buf' = left
      /\ UNCHANGED <<sent, writer, wire, mode, moat, at, tim, got>>
      /\ \/ Len(t) < len /\ tal' = t /\ UNCHANGED <<sat, hed, len, ext>>
         \/ Len(t) = len /\ ext' = Append(ext, t) /\ AwaitHead
  BY DEF DecodeTail, wireVars, MeatPlan
<1>2. NewtTypeOK /\ OrderInv /\ StreamInv /\ AwaitInv /\ IdleInv
  BY DEF NewtInv
<1>3. /\ tal \in Seq(Byte) /\ buf \in Seq(Byte) /\ wire \in Seq(Byte)
      /\ sent \in Seq(Msg) /\ got \in Seq(Msg) /\ ext \in Seq(Msg)
      /\ moat = "live" /\ len \in Nat /\ len - Len(tal) \in Nat /\ len - Len(tal) > 0
  BY <1>1, <1>2 DEF NewtTypeOK, IdleInv
<1>4. cop \in 0 .. Len(buf)
  BY <1>1, <1>3, Copied
<1> HIDE DEF cop
<1>5. more \in Seq(Byte) /\ left \in Seq(Byte)
  BY <1>3, <1>4, Split
<1>6. t \in Seq(Byte)
  BY ONLY <1>3, <1>5, JoinedBytes
<1>7. head \in Seq(Byte) /\ Len(head) = HeadLen
  BY <1>3, HeadBytes
<1>8. left \o wire \in Seq(Byte) /\ head \o t \in Seq(Byte)
  BY ONLY <1>3, <1>5, <1>6, <1>7, JoinedBytes
<1>9. (head \o t) \o (left \o wire) = Rest
  <2>2. (tal \o more) \o (left \o wire) = tal \o (buf \o wire)
    BY ONLY <1>3, <1>4, Moved
  <2> HIDE DEF more, left, head
  <2>4. (head \o t) \o (left \o wire) = head \o (t \o (left \o wire))
    BY ONLY <1>6, <1>7, <1>8, Regroup
  <2>5. buf \o wire \in Seq(Byte)
    BY ONLY <1>3, JoinedBytes
  <2>6. (head \o tal) \o (buf \o wire) = head \o (tal \o (buf \o wire))
    BY ONLY <1>3, <1>7, Regroup, <2>5
  <2>7. Rest = (head \o tal) \o (buf \o wire)
    BY <1>1 DEF Rest, Part, head
  <2> QED
    BY <2>2, <2>4, <2>6, <2>7
<1> HIDE DEF more, left, t
<1>10. Had < Len(sent) /\ len = Len(sent[Had + 1]) /\ Had \in Nat /\ Len(sent) \in Nat
  BY <1>1, <1>2, <1>3 DEF AwaitInv, Had
<1>11. CASE Len(t) < len /\ tal' = t /\ UNCHANGED <<sat, hed, len, ext>>
  <2>1. NewtTypeOK'
    BY <1>1, <1>2, <1>5, <1>6, <1>11 DEF NewtTypeOK
  <2>2. Rest' = Rest /\ Had' = Had
    BY <1>1, <1>9, <1>11 DEF Rest, Part, Had, head
  <2>3. moat = "live" /\ sat' = "tail" => Had < Len(sent) /\ len' = Len(sent[Had + 1])
    BY <1>10, <1>11
  <2>4. IdleInv'
    BY <1>1, <1>3 DEF IdleInv
  <2>5. UNCHANGED <<sent, writer, moat>> /\ got' \o ext' = got \o ext
    BY <1>1, <1>11
  <2> QED
    BY ONLY NewtInv, <2>1, <2>2, <2>3, <2>4, <2>5, SteadyInv
<1>12. CASE Len(t) = len /\ ext' = Append(ext, t) /\ AwaitHead
  <2> DEFINE m == sent[Had + 1]  a == head \o t  rest == left \o wire
  <2> HIDE DEF head
  <2>1. m \in Msg /\ Had + 1 \in 1 .. Len(sent)
    <3>1. Had + 1 \in 1 .. Len(sent)
      BY <1>10
    <3> QED
      BY <1>3, <3>1
  <2>2. PICK pos : /\ Ends(sent, pos) /\ Follows(Rest, sent, Had, pos)
                   /\ writer = "live" => Len(Rest) = pos[Len(sent)] - pos[Had]
    BY <1>2, <1>3 DEF StreamInv
  <2>3. /\ Len(a) = HeadLen + Len(m)
        /\ \A i \in 1 .. Len(t) : a[HeadLen + i] = t[i]
    <3>1. /\ Len(a) = Len(head) + Len(t)
          /\ \A i \in 1 .. Len(t) : a[Len(head) + i] = t[i]
      BY ONLY <1>6, <1>7, JoinedBytes
    <3> QED
      BY <1>7, <1>10, <1>12, <3>1
  <2>4. a \in Seq(Byte) /\ rest \in Seq(Byte) /\ a \o rest = Rest
    BY <1>8, <1>9
  <2> HIDE DEF a, rest, m
  <2>5. Had \in 0 .. Len(sent) /\ Len(a) = HeadLen + Len(sent[Had + 1])
    BY <1>10, <2>3 DEF m
  <2>6. /\ \A j \in 1 .. Len(a) : a[j] = Frame(sent[Had + 1])[j]
        /\ Follows(rest, sent, Had + 1, pos)
        /\ Len(a \o rest) - (pos[Len(sent)] - pos[Had])
              = Len(rest) - (pos[Len(sent)] - pos[Had + 1])
    <3>1. Follows(a \o rest, sent, Had, pos)
      BY <2>2, <2>4
    <3>2. sent \in Seq(Msg) /\ Had < Len(sent) /\ Ends(sent, pos)
      BY <1>3, <1>10, <2>2
    <3>3. ASSUME NEW x \in Seq(Byte), NEW y \in Seq(Byte), Follows(x \o y, sent, Had, pos),
                 Len(x) = HeadLen + Len(sent[Had + 1])
          PROVE  /\ \A j \in 1 .. Len(x) : x[j] = Frame(sent[Had + 1])[j]
                 /\ Follows(y, sent, Had + 1, pos)
                 /\ Len(x \o y) - (pos[Len(sent)] - pos[Had])
                       = Len(y) - (pos[Len(sent)] - pos[Had + 1])
      BY ONLY <2>5, <3>2, <3>3, FollowsNext
    <3> QED
      BY ONLY <2>4, <2>5, <3>1, <3>2, <3>3
  <2>7. t = m
    <3>1. m \in Seq(Byte) /\ Len(m) = Len(t) /\ Len(m) \in Nat
      BY <1>10, <1>12, <2>1, FrameFacts DEF m
    <3>2. ASSUME NEW i \in 1 .. Len(t) PROVE t[i] = m[i]
      <4>1. HeadLen + i \in 1 .. Len(a)
        BY <2>3, <3>1 DEF HeadLen
      <4>2. a[HeadLen + i] = Frame(m)[HeadLen + i]
        BY <2>6, <4>1 DEF m
      <4>3. Frame(m)[HeadLen + i] = m[i]
        BY <2>1, <3>1, FrameFacts
      <4> QED
        BY <2>3, <4>2, <4>3
    <3> QED
      BY <1>6, <3>1, <3>2, Same
  <2>8. ext' = Append(ext, m) /\ ext' \in Seq(Msg) /\ Len(ext') = Len(ext) + 1
    BY <1>3, <1>12, <2>1, <2>7
  <2>9. Had' = Had + 1
    BY <1>1, <1>3, <2>8 DEF Had
  <2>10. sat' = "head" /\ hed' = <<>> /\ len' = 0 /\ tal' = <<>>
    BY <1>12 DEF AwaitHead
  <2>11. NewtTypeOK'
    <3>1. <<>> \in Seq(Byte) /\ Len(<<>>) = 0 /\ HeadLen = 5
      BY DEF HeadLen
    <3>2. Len(hed') < HeadLen
      BY <2>10, <3>1
    <3> QED
      BY <1>1, <1>2, <1>5, <2>8, <2>10, <3>1, <3>2 DEF NewtTypeOK
  <2>12. Rest' = rest
    <3>1. <<>> \o rest = rest
      BY <2>4
    <3>2. Part' = <<>> /\ (buf \o wire)' = rest
      BY <1>1, <2>10 DEF Part, rest
    <3> QED
      BY <3>1, <3>2 DEF Rest
  <2>13. OrderInv'
    <3>1. got \o ext' = Append(got \o ext, m)
      BY <1>3, <2>1, <2>8
    <3>2. got \o ext \in Seq(Msg) /\ Len(got \o ext) = Had
      BY <1>3, Joined DEF Had
    <3>3. ASSUME NEW i \in 1 .. Had + 1 PROVE Append(got \o ext, m)[i] = sent[i]
      <4>1. CASE i = Had + 1
        BY <3>2, <4>1 DEF m
      <4>2. CASE i # Had + 1
        <5>1. i \in 1 .. Had
          BY <1>10, <4>2
        <5> QED
          BY <1>2, <3>2, <5>1 DEF OrderInv
      <4> QED
        BY <4>1, <4>2
    <3>4. Had + 1 <= Len(sent)
      BY <1>10
    <3> QED
      BY <1>1, <2>9, <3>1, <3>3, <3>4 DEF OrderInv
  <2>14. StreamInv'
    <3>1. writer = "live" => Len(rest) = pos[Len(sent)] - pos[Had + 1]
      <4> SUFFICES ASSUME writer = "live" PROVE Len(rest) = pos[Len(sent)] - pos[Had + 1]
        OBVIOUS
      <4>1. Len(a \o rest) = pos[Len(sent)] - pos[Had]
        BY <2>2, <2>4
      <4>2. pos[Len(sent)] \in Nat /\ pos[Had] \in Nat /\ pos[Had + 1] \in Nat
        <5>1. pos \in [0 .. Len(sent) -> Nat]
          BY <2>2 DEF Ends
        <5>2. {Len(sent), Had, Had + 1} \subseteq 0 .. Len(sent)
          BY <1>10
        <5> QED
          BY <5>1, <5>2
      <4>3. Len(rest) \in Nat
        BY <2>4
      <4> QED
        BY <2>6, <4>1, <4>2, <4>3
    <3> QED
      BY <1>1, <2>2, <2>6, <2>9, <2>12, <3>1 DEF StreamInv
  <2>15. AwaitInv' /\ IdleInv'
    BY <1>1, <1>2, <2>10 DEF AwaitInv, IdleInv
  <2> QED
    BY <2>11, <2>13, <2>14, <2>15 DEF NewtInv
<1> QED
  BY <1>1, <1>11, <1>12

\* Every step, by its actions.
LEMMA NewtStepInv == NewtInv /\ [NewtNext]_newtVars => NewtInv'
<1> SUFFICES ASSUME NewtInv, [NewtNext]_newtVars PROVE NewtInv'
  OBVIOUS
<1>1. CASE Send \/ WriterDies \/ ReadSome \/ DecodeHead \/ DecodeTail
  BY <1>1, SendInv, DiesInv, ReadInv, HeadInv, TailInv
<1>2. CASE Deliver
  <2>1. tim \in BOOLEAN
    BY DEF NewtInv, NewtTypeOK
  <2>2. /\ MeatSync \/ (\E t \in BOOLEAN : MeatNext(t))
        /\ at' = "idle" /\ buf = <<>>
        /\ UNCHANGED <<sent, writer, wire, mode, moat, buf, sat, hed, len, tal>>
    BY <1>2, <2>1 DEF Deliver, wireVars, messVars
  <2> QED
    BY <2>2, DeliverInv
<1>3. CASE Timer
  <2>1. /\ MeatSync \/ (\E t \in BOOLEAN : MeatNext(t))
        /\ at' = "idle" /\ buf = <<>>
        /\ UNCHANGED <<sent, writer, wire, mode, moat, buf, sat, hed, len, tal>>
    BY <1>3 DEF Timer, wireVars, messVars, NewtInv, IdleInv
  <2> QED
    BY <2>1, DeliverInv
<1>4. CASE ReadEnd \/ Stop
  <2>1. /\ Dispose /\ moat' \in {"ended", "refused", "gone"}
        /\ UNCHANGED <<sent, writer, wire, mode, got>>
    BY <1>4 DEF ReadEnd, Stop, wireVars
  <2> QED
    BY <2>1, DisposeInv
<1>5. CASE UNCHANGED newtVars
  BY <1>5 DEF newtVars, NewtInv, NewtTypeOK, OrderInv, StreamInv, AwaitInv, IdleInv,
              Rest, Part, Had
<1> QED
  BY <1>1, <1>2, <1>3, <1>4, <1>5 DEF NewtNext, Reader

\* NewtInv is an invariant of the writer, the pipe and the reader.
THEOREM NewtInvariant == NewtSpec => []NewtInv
<1> QED
  BY NewtInitInv, NewtStepInv, PTL DEF NewtSpec

\* However reads cut the stream, and whenever the writer dies or the client
\* stops, what was delivered and what waits are the first messages that were
\* sent, whole and in order (u3_newt_decode).
THEOREM NewtMessagesInOrder == NewtSpec => []MessagesInOrder
<1>1. NewtInv => MessagesInOrder
  <2> SUFFICES ASSUME NewtInv PROVE MessagesInOrder
    OBVIOUS
  <2>1. NewtTypeOK /\ OrderInv
    BY DEF NewtInv
  <2>2. /\ got \in Seq(Msg) /\ ext \in Seq(Msg) /\ sent \in Seq(Msg)
        /\ got \o ext \in Seq(Msg) /\ Len(got \o ext) = Had
    BY <2>1, Joined DEF NewtTypeOK, Had
  <2>3. Had \in 0 .. Len(sent)
    BY <2>1, <2>2 DEF OrderInv
  <2>4. /\ SubSeq(sent, 1, Had) \in Seq(Msg) /\ Len(SubSeq(sent, 1, Had)) = Had
        /\ \A i \in 1 .. Had : SubSeq(sent, 1, Had)[i] = sent[i]
    BY <2>2, <2>3, Split
  <2>5. SubSeq(sent, 1, Had) = got \o ext
    BY <2>1, <2>2, <2>4, Same DEF OrderInv
  <2>6. Len(got \o ext) <= Len(sent)
    BY <2>2, <2>3
  <2> QED
    BY <2>1, <2>2, <2>5, <2>6 DEF MessagesInOrder, IsPrefix
<1> QED
  BY <1>1, NewtInvariant, PTL

=============================================================================
