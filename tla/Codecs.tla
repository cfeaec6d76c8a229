------------------------------- MODULE Codecs -------------------------------
(***************************************************************************)
(* Jam and cue: the arms of the kernel, over the bits of an atom, and the  *)
(* five ways in which the runtime packs and unpacks nouns, each a loop     *)
(* with a stack of its own (noun/serial.c, ur/serial.c).  Decimal numbers  *)
(* are parsed by a loop too.                                               *)
(***************************************************************************)
EXTENDS Bitstream

CONSTANTS FibA, FibB,  \* bits of the first slab of jam: fib(12), fib(11)
          Loom         \* bits of the longest atom there is room for

-----------------------------------------------------------------------------
(* The arms (sys/hoon.hoon), with the bits of an atom for the atom.        *)

BitAt(b, i) == IF i < Len(b) THEN b[i + 1] ELSE 0
CutValue(b, from, n) == BitsValue([k \in 1 .. n |-> BitAt(b, from + k - 1)])
MetBits(b) == Max({0} \cup {i \in DOMAIN b : b[i] = 1})

RECURSIVE ArmJamFrom(_, _, _)
ArmJamFrom(a, b, m) ==
  LET atom == <<0>> \o ArmMat(Val(a))
      n == m @@ (a :> b)
      d == ArmJamFrom(Hed(a), b + 2, n)
      e == ArmJamFrom(Tal(a), b + 2 + Len(d.q), d.r)
  IN  IF a \notin DOMAIN m
      THEN IF IsAtom(a) THEN [q |-> atom, r |-> n] ELSE [q |-> <<1, 0>> \o d.q \o e.q, r |-> e.r]
      ELSE [q |-> IF IsAtom(a) /\ Bits(Val(a)) <= Bits(m[a]) THEN atom ELSE <<1, 1>> \o ArmMat(m[a]),
            r |-> m]
ArmJam(a) == ArmJamFrom(a, 0, << >>).q

\* A width, and an atom of a length that was found from bit d on.
Sized(b, c, d) ==
  LET e == 2 ^ (c - 1) + CutValue(b, d, c - 1)
  IN  IF c > 8 * ByteBits \/ e > Loom THEN [p |-> 0, q |-> Fail]
      ELSE [p |-> c + c + e, q |-> Atom(CutValue(b, d + c - 1, e))]

ArmRub(a, b) ==
  LET ones == {i \in a .. Len(b) - 1 : BitAt(b, i) = 1}
      c == Min(ones) - a
  IN  IF ones = {} THEN [p |-> 0, q |-> Bail]
      ELSE IF c = 0 THEN [p |-> 1, q |-> Nul] ELSE Sized(b, c, a + c + 1)

\* The noun a back reference stands for.
Known(m, x) == IF ~IsNoun(x) THEN x ELSE IF Val(x) \in DOMAIN m THEN m[Val(x)] ELSE Bail

RECURSIVE ArmCueFrom(_, _, _)
ArmCueFrom(a, b, m) ==
  LET c == ArmRub(b + 1, a)
      d == ArmRub(b + 2, a)
      u == ArmCueFrom(a, b + 2, m)
      v == ArmCueFrom(a, b + 2 + u.p, u.r)
      w == Cell(u.q, v.q)
  IN  IF BitAt(a, b) = 0 THEN [p |-> 1 + c.p, q |-> c.q, r |-> m @@ (b :> c.q)]
      ELSE IF BitAt(a, b + 1) = 1 THEN [p |-> 2 + d.p, q |-> Known(m, d.q), r |-> m]
      ELSE IF ~IsNoun(u.q) THEN u
      ELSE IF ~IsNoun(v.q) THEN v
      ELSE [p |-> 2 + u.p + v.p, q |-> w, r |-> v.r @@ (b :> w)]
ArmCue(a) == ArmCueFrom(a, 0, << >>).q

-----------------------------------------------------------------------------
(* Packing: a walk from the head, over a stack of what is left, that keeps *)
(* where each noun was written first.  One packer chops words into a slab  *)
(* that grows by fibonacci numbers, the others write to a stream; they     *)
(* differ in the atoms that are written as a word.                         *)

RECURSIVE FibFrom(_, _, _)
FibFrom(a, b, wanted) == IF a >= wanted THEN [a |-> a, b |-> b] ELSE FibFrom(a + b, a, wanted)

FibGrow(f, more) ==
  LET to == FibFrom(f.a, f.b, f.bit + more)
  IN  [f EXCEPT !.a = to.a, !.b = to.b,
                !.buf = @ \o [i \in 1 .. SlabSize(0, to.a) - Len(@) |-> 0]]

FibChop(f, n, a) ==
  LET g == FibGrow(f, n) IN [g EXCEPT !.bit = @ + n, !.buf = Chop(0, 0, n, f.bit, @, a)]

FibMat(f, a) ==
  LET b == Size(0, a)
      c == Bits(b)
  IN  IF a = 0 THEN FibChop(f, 1, 1)
      ELSE FibChop(FibChop(FibChop(f, c + 1, 2 ^ c), c - 1, b % 2 ^ (c - 1)), b, a)

\* The bits of an atom that is written as a word: a cat, or a direct atom.
Direct(kind) == IF kind = "ur" THEN 8 * ByteBits - 2 ELSE 4 * ByteBits - 1

StreamAtom(w, a, direct) ==
  IF Bits(a) <= direct THEN WriteAtom64(w, Bits(a), a) ELSE WriteAtomBytes(w, Bits(a), BytesOf(a, Bits(a)))

PutAtom(j, a) ==
  IF j.kind = "fib" THEN [j EXCEPT !.fib = FibMat(FibChop(@, 1, 0), a)]
  ELSE [j EXCEPT !.w = StreamAtom(@, a, Direct(j.kind))]
PutBack(j, b) == IF j.kind = "fib" THEN [j EXCEPT !.fib = FibMat(FibChop(@, 2, 3), b)]
                 ELSE [j EXCEPT !.w = WriteBack64(@, Bits(b), b)]
PutCell(j) == IF j.kind = "fib" THEN [j EXCEPT !.fib = FibChop(@, 2, 1)] ELSE [j EXCEPT !.w = WriteCell(@)]

Noted(j, a) == [j EXCEPT !.seen = @ @@ (a :> IF j.kind = "fib" THEN j.fib.bit ELSE j.w.bits)]

\* Faulty: an atom that was seen is always referred to.
VisitAtomAlways(j, a) == IF a \notin DOMAIN j.seen THEN PutAtom(Noted(j, a), Val(a)) ELSE PutBack(j, j.seen[a])

VisitAtom(j, a) ==
  IF a \notin DOMAIN j.seen THEN PutAtom(Noted(j, a), Val(a))
  ELSE IF Bits(Val(a)) <= Bits(j.seen[a]) THEN PutAtom(j, Val(a))
  ELSE PutBack(j, j.seen[a])

\* A cell that was seen is not entered.
VisitCell(j, a) == IF a \in DOMAIN j.seen THEN PutBack(j, j.seen[a]) ELSE PutCell(Noted(j, a))

RECURSIVE WalkFore(_, _)
WalkFore(j, stack) ==
  LET a == Last(stack)
      below == Front(stack)
  IN  IF stack = << >> THEN j
      ELSE IF IsAtom(a) THEN WalkFore(VisitAtom(j, a), below)
      ELSE WalkFore(VisitCell(j, a), IF a \in DOMAIN j.seen THEN below ELSE below \o <<Tal(a), Hed(a)>>)

Packer(kind) ==
  [kind |-> kind, seen |-> << >>, w |-> Writer(FibB, FibA),
   fib |-> [buf |-> SlabInit(0, FibA), a |-> FibA, b |-> FibB, bit |-> 0]]

JamFib(a) == LET f == WalkFore(Packer("fib"), <<a>>).fib
             IN  [k \in 1 .. f.bit |-> (f.buf[(k - 1) \div WordBits + 1] \div 2 ^ ((k - 1) % WordBits)) % 2]
JamXeno(a) == LET w == WalkFore(Packer("xeno"), <<a>>).w IN StreamBits(w.bytes, 0, w.bits)
JamUr(a) == LET w == WalkFore(Packer("ur"), <<a>>).w IN StreamBits(w.bytes, 0, w.bits)

-----------------------------------------------------------------------------
(* Unpacking an atom with cut and rub (jets/e/rub.c, u3s_cue): a frame     *)
(* holds the head of a cell, once it is read, the width of the head, and   *)
(* where the cell begins.                                                  *)

RECURSIVE RubScan(_, _, _)
RubScan(x, m, b) == IF BitAt(b, x) = 1 THEN x ELSE IF x > m THEN -1 ELSE RubScan(x + 1, m, b)

RubJet(a, b) == LET x == RubScan(a, a + MetBits(b), b)
                IN  IF x < 0 THEN [p |-> 0, q |-> Bail]
                    ELSE IF x = a THEN [p |-> 1, q |-> Nul] ELSE Sized(b, x - a, x + 1)

RECURSIVE CutNext(_, _, _)
CutNext(c, cur, a) ==
  LET bur == RubJet(cur + 1, a)
      bak == RubJet(cur + 2, a)
  IN  IF BitAt(a, cur) = 0
      THEN [c EXCEPT !.pro = bur.q, !.wid = bur.p + 1, !.known = @ @@ (cur :> bur.q)]
      ELSE IF BitAt(a, cur + 1) = 1
      THEN [c EXCEPT !.pro = Known(c.known, bak.q), !.wid = 2 + bak.p]
      ELSE CutNext([c EXCEPT !.stack = Append(@, [hed |-> Punt, wid |-> 0, cur |-> cur])], cur + 2, a)

RECURSIVE CutFrames(_, _)
CutFrames(c, a) ==
  LET fam == Last(c.stack)
      below == Front(c.stack)
      pro == Cell(fam.hed, c.pro)
  IN  IF c.stack = << >> \/ ~IsNoun(c.pro) THEN c.pro
      ELSE IF fam.hed = Punt
      THEN CutFrames(CutNext([c EXCEPT !.stack = Append(below, [fam EXCEPT !.hed = c.pro, !.wid = c.wid])],
                             2 + c.wid + fam.cur, a), a)
      ELSE CutFrames([c EXCEPT !.pro = pro, !.wid = 2 + @ + fam.wid, !.stack = below,
                               !.known = @ @@ (fam.cur :> pro)], a)

CutCue(a) == CutFrames(CutNext([stack |-> << >>, known |-> << >>, pro |-> Nul, wid |-> 0], 0, a), a)

-----------------------------------------------------------------------------
(* Unpacking a stream: onto the loom, with a dictionary on it or beside    *)
(* it, into a hash-consed store, or not at all, to test it.                *)

ReadAtom(kind, s, r, len) ==
  LET word == IF kind = "ur" THEN Read64(s, r, len) ELSE Read32(s, r, len)
      many == ReadBytes(s, r, len)
      Value8(bytes) == FoldLeft(LAMBDA v, i : v + bytes[i] * ByteSize ^ (i - 1), 0, [i \in DOMAIN bytes |-> i])
  IN  CASE kind = "test" -> [r |-> SkipBits(s, r, len), out |-> Nul]
        [] kind # "test" /\ len <= Direct(kind) -> [r |-> word.r, out |-> Atom(word.out)]
        [] OTHER -> [r |-> many.r, out |-> Atom(Value8(many.out))]

Stop(c, res) == [c EXCEPT !.res = res]

StreamBack(c, bak) == IF bak.out \notin DOMAIN c.known THEN Stop(c, Back)
                      ELSE [c EXCEPT !.r = bak.r, !.out = c.known[bak.out]]
StreamAtomAt(c, at, atom) == [c EXCEPT !.r = atom.r, !.out = atom.out, !.known = @ @@ (at :> atom.out)]

StreamValue(c, s, tag, len) ==
  IF len.res # Good THEN Stop(c, len.res)
  ELSE IF tag = "back"
  THEN IF len.out > 8 * ByteBits - 2 THEN Stop(c, Meme) ELSE StreamBack(c, Read64(s, len.r, len.out))
  ELSE IF c.kind # "test" /\ len.out > Loom THEN Stop(c, Meme)
  ELSE StreamAtomAt(c, c.r.bits, ReadAtom(c.kind, s, len.r, len.out))

RECURSIVE StreamTagged(_, _, _)
StreamTagged(c, s, tag) ==
  IF tag.res # Good THEN Stop(c, tag.res)
  ELSE IF tag.out = "cell"
  THEN StreamTagged([c EXCEPT !.r = tag.r, !.stack = Append(@, [ref |-> Punt, bits |-> c.r.bits])],
                    s, ReadTag(s, tag.r))
  ELSE StreamValue(c, s, tag.out, ReadLen(s, tag.r))

StreamNext(c, s) == StreamTagged(c, s, ReadTag(s, c.r))

StreamCons(c, fam, pro) == [c EXCEPT !.out = pro, !.stack = Front(@), !.known = @ @@ (fam.bits :> pro)]

RECURSIVE StreamFrames(_, _)
StreamFrames(c, s) ==
  IF c.stack = << >> \/ c.res # Good THEN c
  ELSE LET fam == Last(c.stack)
       IN  StreamFrames(IF fam.ref = Punt
                        THEN StreamNext([c EXCEPT !.stack[Len(c.stack)].ref = c.out], s)
                        ELSE StreamCons(c, fam, IF c.kind = "test" THEN Nul ELSE Cell(fam.ref, c.out)), s)

Begin(kind, s) == [kind |-> kind, r |-> Reader(s), stack |-> << >>, known |-> << >>, out |-> Nul, res |-> Good]

\* What each makes of the end of its loop.  Off the loom every failure gives
\* u3_none, and when the first read fails below a cell, the frames are freed
\* through a pointer that was never set.
CueBytes(c) == IF c.res = Good THEN c.out ELSE IF c.res = Meme THEN Fail ELSE Bail
CueXeno(first, c) == IF c.res = Good THEN {c.out}
                     ELSE IF first.res # Good /\ first.stack # << >> THEN {Punt, Bail}
                     ELSE {Punt}
CueUr(c) == IF c.res = Good THEN c.out ELSE IF c.res = Meme THEN Fail ELSE Bail
CueTest(c) == c.res = Good

-----------------------------------------------------------------------------
(* Decimal numbers with dots between groups of three (u3s_sift_ud_bytes):  *)
(* a character is a digit, or a number above nine.  Few digits fit in a    *)
(* word of eight bytes, more take a number of any size.                    *)

CONSTANTS Dot,                \* the character between groups
          OneLead, AnyLead    \* characters after the first group that fit: 24, 20

IsDigit(c) == c < 10
IsBlock(t, i) == t[i] = Dot /\ \A k \in 1 .. 3 : IsDigit(t[i + k])

RECURSIVE SiftBlocks(_, _, _)
SiftBlocks(t, val, inWord) ==
  LET next == val * 1000 + 100 * t[2] + 10 * t[3] + t[4]
  IN  IF t = << >> THEN Atom(val)
      ELSE IF ~IsBlock(t, 1) THEN Punt
      ELSE SiftBlocks(SubSeq(t, 5, Len(t)), IF inWord THEN next % ByteSize ^ 8 ELSE next, inWord)

SiftUd(t) ==
  LET num == Len(t) % 4
      rest == Len(t) - num
      val == FoldLeft(LAMBDA v, c : 10 * v + c, 0, SubSeq(t, 1, num))
  IN  IF t = << >> THEN Punt
      ELSE IF t[1] = 0 THEN IF Len(t) = 1 THEN Nul ELSE Punt
      ELSE IF num = 0 \/ \E i \in 1 .. num : ~IsDigit(t[i]) THEN Punt
      ELSE SiftBlocks(SubSeq(t, num + 1, Len(t)), val, (num = 1 /\ rest <= OneLead) \/ rest <= AnyLead)

\* What the parser dem:ag accepts, and the number it stands for.
ArmDem(t) ==
  LET digits == SelectSeq(t, IsDigit)
      number == FoldLeft(LAMBDA v, c : 10 * v + c, 0, digits)
  IN  IF t = <<0>> THEN Nul
      ELSE IF /\ t # << >> /\ t[1] # 0 /\ IsDigit(t[1])
              /\ \A i \in DOMAIN t : IF (Len(t) - i) % 4 = 3 THEN t[i] = Dot ELSE IsDigit(t[i])
           THEN Atom(number) ELSE Punt

-----------------------------------------------------------------------------
(* Codecs at work: nouns that are packed, streams that are unpacked, texts *)
(* that are parsed.                                                        *)

CONSTANTS Packs,    \* nouns that are packed
          Garbles,  \* nouns whose jams are garbled
          BitStrings, \* sequences of bits
          Texts     \* sequences of characters

VARIABLE input

NoInput == [of |-> "none"]

CodecsInit == input = NoInput
Pack == \E x \in Packs : input' = [of |-> "noun", x |-> x]
Unpack == \E b \in BitStrings : input' = [of |-> "bits", b |-> b]
\* A jam with one bit turned, or cut short.
Garble == \E x \in Garbles : \E i \in 1 .. 40 :
            LET b == ArmJam(x)
            IN  /\ i <= Len(b)
                /\ \E g \in {[b EXCEPT ![i] = 1 - @], SubSeq(b, 1, i - 1)} : input' = [of |-> "bits", b |-> g]
SiftText == \E t \in Texts : input' = [of |-> "text", t |-> t]

CodecsNext == input = NoInput /\ (Pack \/ Unpack \/ Garble \/ SiftText)
CodecsSpec == CodecsInit /\ [][CodecsNext]_input

ToBytes(b) == [i \in 1 .. CeilDiv(Len(b), ByteBits) |-> CutValue(b, (i - 1) * ByteBits, ByteBits)]

\* What an unpacker gives is what the arm gives, except that it may give up
\* for want of memory where the arm crashes.
Gives(out, arm) == out = arm \/ (out = Fail /\ arm = Bail)

NounAgrees(x) ==
  LET b == ArmJam(x)
  IN  /\ JamFib(x) = b /\ JamXeno(x) = b /\ JamUr(x) = b
      /\ ArmCue(b) = x
UnpackAgrees(kind, first, c, arm) ==
  CASE kind = "bytes" -> Gives(CueBytes(c), arm)
    [] kind = "ur" -> Gives(CueUr(c), arm)
    [] kind = "test" -> arm # Fail => CueTest(c) = IsNoun(arm)
    [] OTHER -> IF IsNoun(arm) THEN CueXeno(first, c) = {arm} ELSE Punt \in CueXeno(first, c)
FramesAgree(kind, first, s, arm) == UnpackAgrees(kind, first, StreamFrames(first, s), arm)
BitsAgree(b) ==
  /\ Gives(CutCue(b), ArmCue(b))
  /\ \A kind \in {"bytes", "xeno", "ur", "test"} :
       FramesAgree(kind, StreamNext(Begin(kind, ToBytes(b)), ToBytes(b)), ToBytes(b), ArmCue(b))

\* A noun has one jam, whichever packer makes it and however its buffer
\* grows, and every unpacker gives for a stream, well formed, cut short or
\* garbled, what +cue gives, back references and all; a decimal is parsed as
\* the parser of the kernel parses it (noun/serial.c, ur/serial.c).
CodecsAgree ==
  CASE input.of \in {"noun", "bits"} ->
         /\ input.of = "noun" => NounAgrees(input.x)
         /\ BitsAgree(IF input.of = "noun" THEN ArmJam(input.x) ELSE input.b)
    [] input.of = "text" -> SiftUd(input.t) = ArmDem(input.t)
    [] OTHER -> TRUE
=============================================================================
