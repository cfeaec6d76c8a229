----------------------------- MODULE Bitstream -----------------------------
(***************************************************************************)
(* The bit streams that jam writes and cue reads (ur/bitstream.c): a       *)
(* cursor into a buffer of bytes, kept as a byte and an offset into it.    *)
(* Reads and writes of several bytes are made of the low part of one byte  *)
(* and the high part of the next.                                          *)
(***************************************************************************)
EXTENDS Words

CONSTANTS ByteBits,  \* bits of a byte: 8
          LogBytes   \* bytes of zeros that a length may begin with: 32

ByteSize == 2 ^ ByteBits
Octet == LogBytes * ByteBits   \* the values of a uint8_t that counts bits: 256

Good == "good"
Gone == "gone"
Meme == "meme"
Back == "back"

-----------------------------------------------------------------------------
(* What a stream holds: bit i of it, and the n bits from i, as if zeros    *)
(* went on for ever after its end.                                         *)

StreamBit(s, i) == LET k == i \div ByteBits + 1
                   IN  IF k > Len(s) THEN 0 ELSE (s[k] \div 2 ^ (i % ByteBits)) % 2
StreamBits(s, i, n) == [k \in 1 .. n |-> StreamBit(s, i + k - 1)]

\* The number that a sequence of bits is, the least first.
RECURSIVE BitsValue(_)
BitsValue(b) == IF b = << >> THEN 0 ELSE b[1] + 2 * BitsValue(Tail(b))

\* The n low bits of a number.
NumberBits(v, n) == [k \in 1 .. n |-> IF k > 30 THEN 0 ELSE (v \div 2 ^ (k - 1)) % 2]

\* The bytes of a number of so many bits.
BytesOf(v, len) == [i \in 1 .. CeilDiv(len, ByteBits) |-> (v \div ByteSize ^ (i - 1)) % ByteSize]

\* An atom with its length before it (+mat): the length of the length in
\* unary, the length without its top bit, the atom.
ArmMat(a) == IF a = 0 THEN <<1>>
             ELSE LET b == Bits(a)
                      c == Bits(b)
                  IN  NumberBits(0, c) \o <<1>> \o NumberBits(b, c - 1) \o NumberBits(a, b)

-----------------------------------------------------------------------------
(* The reader.  bits is the cursor; at, off the byte and the bit in it,    *)
(* left the bytes from there on.  Off the end, at, off and left are zero.  *)

Reader(s) == [at |-> 1, left |-> Len(s), off |-> 0, bits |-> 0]

Ended(r) == [r EXCEPT !.at = 0, !.left = 0, !.off = 0]
Ahead(r, bytes, off) == IF r.left = bytes THEN Ended(r)
                        ELSE [r EXCEPT !.at = @ + bytes, !.left = @ - bytes, !.off = off]
Counted(r, bits) == [r EXCEPT !.bits = @ + bits]

\* What is left of the byte at the cursor.
Rest(s, r) == s[r.at] \div 2 ^ r.off

ReadBit(s, r) ==
  IF r.left = 0 THEN [r |-> Counted(r, 1), out |-> 0]
  ELSE [r |-> Counted(IF r.off = ByteBits - 1 THEN Ahead(r, 1, 0) ELSE [r EXCEPT !.off = @ + 1], 1),
        out |-> Rest(s, r) % 2]

Read8(s, r0, size) ==
  LET len == Least(ByteBits, size)
      r == Counted(r0, len)
      rest == ByteBits - r.off
      off == len - rest
  IN  IF r.left = 0 THEN [r |-> r, out |-> 0]
      ELSE IF len < rest THEN [r |-> [r EXCEPT !.off = @ + len], out |-> Rest(s, r) % 2 ^ len]
      ELSE IF r.left = 1 THEN [r |-> Ended(r), out |-> Rest(s, r)]
      ELSE [r |-> Ahead(r, 1, off), out |-> Rest(s, r) + (s[r.at + 1] % 2 ^ off) * 2 ^ rest]

\* n whole bytes from byte i, and the low bits of the next.
Gather(s, i, n, bits) ==
  FoldLeft(LAMBDA v, k : v + s[i + k - 1] * ByteSize ^ (k - 1), 0, [k \in 1 .. n |-> k])
    + (IF bits = 0 THEN 0 ELSE (s[i + n] % 2 ^ bits) * ByteSize ^ n)

\* A read into a word of so many bytes.
ReadWide(s, r0, size, bytes) ==
  LET len == Least(bytes * ByteBits, size)
      r == Counted(r0, len)
      rest == ByteBits - r.off
      more == len - rest
      past == more \div ByteBits >= r.left - 1
      whole == IF past THEN r.left - 1 ELSE more \div ByteBits
      off == IF past THEN 0 ELSE more % ByteBits
  IN  IF r.left = 0 THEN [r |-> r, out |-> 0]
      ELSE IF len < rest THEN [r |-> [r EXCEPT !.off = @ + len], out |-> Rest(s, r) % 2 ^ len]
      ELSE [r |-> IF past THEN Ended(r) ELSE Ahead(r, 1 + whole, off),
            out |-> Rest(s, r) + Gather(s, r.at + 1, whole, off) * 2 ^ rest]

Read32(s, r, size) == ReadWide(s, r, size, 4)
Read64(s, r, size) == ReadWide(s, r, size, 8)

\* The bytes of a read that begins within a byte: each is the high part of
\* one and the low part of the next.  last is the last byte of the stream.
\* What is read of the last byte is counted in a uint8_t.
ReadBytes(s, r0, len) ==
  LET r == Counted(r0, len)
      whole == len \div ByteBits
      bits == len % ByteBits
      need == whole + (IF bits > 0 THEN 1 ELSE 0)
      rest == ByteBits - r.off
      last == r.left - 1
      max == Least(last, whole)
      tail == s[r.at + max] \div 2 ^ r.off
      both == r.off + bits
      ofLast == (len - last * ByteBits) % Octet
      Joined(i) == s[r.at + i - 1] \div 2 ^ r.off + (s[r.at + i] % 2 ^ r.off) * 2 ^ rest
      Out(n, top) == [i \in 1 .. need |-> IF i <= n THEN IF r.off = 0 THEN s[r.at + i - 1] ELSE Joined(i)
                                          ELSE IF i = n + 1 THEN top ELSE 0]
  IN  IF r.left = 0 THEN [r |-> r, out |-> [i \in 1 .. need |-> 0]]
      ELSE IF r.off = 0
      THEN IF need > r.left THEN [r |-> Ended(r), out |-> Out(r.left, 0)]
           ELSE [r |-> Ahead(r, whole, bits),
                 out |-> Out(whole, IF bits = 0 THEN 0 ELSE s[r.at + whole] % 2 ^ bits)]
      ELSE IF need >= r.left
      THEN IF ofLast < rest
           THEN [r |-> [r EXCEPT !.at = @ + max, !.left = 1, !.off = @ + bits],
                 out |-> Out(last, tail % 2 ^ ofLast)]
           ELSE [r |-> Ended(r), out |-> Out(last, tail)]
      ELSE [r |-> Ahead(r, whole + both \div ByteBits, both % ByteBits),
            out |-> Out(whole, IF bits = 0 THEN 0
                               ELSE IF bits <= rest THEN tail % 2 ^ bits
                               ELSE tail + (s[r.at + max + 1] % 2 ^ (both % ByteBits)) * 2 ^ rest)]

SkipBits(s, r0, len) ==
  LET r == Counted(r0, len)
      whole == len \div ByteBits
      bits == len % ByteBits
      need == whole + (IF bits > 0 THEN 1 ELSE 0)
      last == r.left - 1
      both == r.off + bits
  IN  IF r.left = 0 THEN r
      ELSE IF need < r.left THEN Ahead(r, whole + both \div ByteBits, both % ByteBits)
      ELSE IF (len - last * ByteBits) % Octet < ByteBits - r.off
      THEN [r EXCEPT !.at = @ + Least(last, whole), !.left = 1, !.off = @ + bits]
      ELSE Ended(r)

\* A tag: 0 an atom, 01 a cell, 11 a reference back.
ReadTag(s, r) ==
  LET one == Rest(s, r) % 2
      next == IF r.off = ByteBits - 1 THEN s[r.at + 1] % 2 ELSE (Rest(s, r) \div 2) % 2
      len == 1 + one
      bits == r.off + len
  IN  IF r.left = 0 THEN [r |-> r, res |-> Gone, out |-> "none"]
      ELSE IF one = 1 /\ r.off = ByteBits - 1 /\ r.left = 1
      THEN [r |-> Counted(Ended(r), 1), res |-> Gone, out |-> "none"]
      ELSE [r |-> Counted(Ahead(r, bits \div ByteBits, bits % ByteBits), len), res |-> Good,
            out |-> IF one = 0 THEN "atom" ELSE IF next = 0 THEN "cell" ELSE "back"]

\* The zeros before the first one, which is read too.
ReadLog(s, r) ==
  LET Low(i) == IF i = 0 THEN Rest(s, r) ELSE s[r.at + i]
      some == {i \in 0 .. r.left - 1 : Low(i) # 0}
      skip == CHOOSE i \in some : \A j \in some : i <= j
      first == CHOOSE k \in 0 .. ByteBits - 1 : /\ (Low(skip) \div 2 ^ k) % 2 = 1
                                                /\ Low(skip) % 2 ^ k = 0
      zeros == first + (IF skip = 0 THEN 0 ELSE skip * ByteBits - r.off)
      bits == r.off + 1 + zeros
      tooBig == [r |-> Counted(Ahead(r, LogBytes, r.off), Octet), res |-> Meme, out |-> 0]
  IN  IF r.left = 0 THEN [r |-> r, res |-> Gone, out |-> 0]
      ELSE IF \A i \in some : i > LogBytes
      THEN IF r.left <= LogBytes THEN [r |-> Counted(Ended(r), r.left * ByteBits - r.off), res |-> Gone, out |-> 0]
           ELSE tooBig
      ELSE IF zeros >= Octet THEN tooBig
      ELSE [r |-> Counted(Ahead(r, bits \div ByteBits, bits % ByteBits), 1 + zeros), res |-> Good, out |-> zeros]

\* A length: its own length in unary, then all of it but the top bit.
ReadLen(s, r) ==
  LET log == ReadLog(s, r)
      low == Read64(s, log.r, log.out - 1)
  IN  IF log.res # Good THEN log
      ELSE IF log.out >= 8 * ByteBits THEN [log EXCEPT !.res = Meme]
      ELSE IF log.out <= 1 THEN log
      ELSE [r |-> low.r, res |-> Good, out |-> low.out + 2 ^ (log.out - 1)]

-----------------------------------------------------------------------------
(* The writer: a buffer of size bytes, of which fill are full and off bits *)
(* of the next are written.  Every operation makes room before it writes.  *)

Writer(prev, size) == [bytes |-> [i \in 1 .. size |-> 0], prev |-> prev, size |-> size,
                       fill |-> 0, off |-> 0, bits |-> 0]

Grow(w, step) == [w EXCEPT !.bytes = @ \o [i \in 1 .. step |-> 0], !.prev = w.size, !.size = @ + step]

\* Faulty: the byte that is begun at the end is forgotten.
RoomShort(w, bits) == IF w.fill + bits \div ByteBits > w.size THEN Grow(w, w.prev) ELSE w

Room(w, bits) == LET need == CeilDiv(w.off + bits, ByteBits)
                 IN  IF w.fill + need >= w.size
                     THEN Grow(w, IF need > w.prev THEN need ELSE w.prev) ELSE w

\* Set a byte of the buffer; one past the end makes it longer than its size.
Put8(bytes, i, v) == [k \in 1 .. (IF i > Len(bytes) THEN i ELSE Len(bytes)) |->
                        IF k = i THEN v ELSE IF k > Len(bytes) THEN 0 ELSE bytes[k]]
Xor8(bytes, i, v) == Put8(bytes, i, v ^^ (IF i > Len(bytes) THEN 0 ELSE bytes[i]))

BareBit(w, bit) ==
  [w EXCEPT !.bytes = Xor8(@, w.fill + 1, bit * 2 ^ w.off), !.bits = @ + 1,
            !.fill = IF w.off = ByteBits - 1 THEN @ + 1 ELSE @,
            !.off = IF @ = ByteBits - 1 THEN 0 ELSE @ + 1]
WriteBit(w, bit) == BareBit(IF w.off = ByteBits - 1 /\ w.fill + 1 = w.size THEN Grow(w, w.prev) ELSE w, bit)

Bare8(w, len, byt) ==
  LET rest == ByteBits - w.off
      off == len - rest
      low == Xor8(w.bytes, w.fill + 1, (byt % 2 ^ Least(len, rest)) * 2 ^ w.off)
  IN  IF len < rest THEN [w EXCEPT !.bytes = low, !.off = @ + len, !.bits = @ + len]
      ELSE [w EXCEPT !.bytes = Put8(low, w.fill + 2, (byt \div 2 ^ rest) % 2 ^ off),
                     !.fill = @ + 1, !.off = off, !.bits = @ + len]
Write8(w, size, byt) ==
  LET len == Least(ByteBits, size)
  IN  Bare8(IF w.fill + (w.off + len) \div ByteBits >= w.size THEN Grow(w, w.prev) ELSE w, len, byt)

\* A word: the rest of the byte begun, whole bytes, the start of the next.
BareWord(w, len, val) ==
  LET rest == IF w.off = 0 THEN 0 ELSE ByteBits - w.off
      low == Xor8(w.bytes, w.fill + 1, (val % 2 ^ Least(len, rest)) * 2 ^ w.off)
      begun == IF rest = 0 THEN w.bytes ELSE low
      from == w.fill + (IF rest = 0 THEN 0 ELSE 1)
      more == len - rest
      whole == more \div ByteBits
      off == more % ByteBits
      above == val \div 2 ^ rest
      body == FoldLeft(LAMBDA b, i : Put8(b, from + i, (above \div ByteSize ^ (i - 1)) % ByteSize),
                       begun, [i \in 1 .. whole |-> i])
  IN  IF w.off > 0 /\ len < rest
      THEN [w EXCEPT !.bytes = low, !.off = @ + len, !.bits = @ + len]
      ELSE [w EXCEPT !.bytes = IF off = 0 THEN body
                               ELSE Put8(body, from + whole + 1, (above \div ByteSize ^ whole) % 2 ^ off),
                     !.fill = from + whole, !.off = off, !.bits = @ + len]
Write32(w, size, val) == LET len == Least(4 * ByteBits, size) IN BareWord(Room(w, len), len, val)
Write64(w, size, val) == LET len == Least(8 * ByteBits, size) IN BareWord(Room(w, len), len, val)

BareBytes(w, len, byt) ==
  LET whole == len \div ByteBits
      bits == len % ByteBits
      rest == ByteBits - w.off
      begun == (w.bytes \o <<0>>)[w.fill + 1]
      Carry(i) == IF i = 0 THEN begun ELSE byt[i] \div 2 ^ rest
      body == FoldLeft(LAMBDA b, i : Put8(b, w.fill + i, IF w.off = 0 THEN byt[i]
                                                         ELSE Carry(i - 1) + (byt[i] % 2 ^ rest) * 2 ^ w.off),
                       w.bytes, [i \in 1 .. whole |-> i])
      fill == w.fill + whole
      Top(n) == Put8(body, fill + 1, Carry(whole) + (byt[whole + 1] % 2 ^ n) * 2 ^ w.off)
      to == [w EXCEPT !.bits = @ + len]
  IN  IF w.off = 0
      THEN [to EXCEPT !.bytes = IF bits = 0 THEN body ELSE Put8(body, fill + 1, byt[whole + 1] % 2 ^ bits),
                      !.fill = fill, !.off = bits]
      ELSE IF bits = 0 THEN [to EXCEPT !.bytes = Put8(body, fill + 1, Carry(whole)), !.fill = fill]
      ELSE IF bits < rest THEN [to EXCEPT !.bytes = Top(bits), !.fill = fill, !.off = @ + bits]
      ELSE [to EXCEPT !.bytes = Put8(Top(rest), fill + 2, (byt[whole + 1] \div 2 ^ rest) % 2 ^ (bits - rest)),
                      !.fill = fill + 1, !.off = bits - rest]
WriteBytes(w, len, byt) == BareBytes(Room(w, len), len, byt)

\* n zeros and a one.
BareBex(w, n) ==
  LET bits == n + w.off
      fill == w.fill + bits \div ByteBits
      off == bits % ByteBits
  IN  [w EXCEPT !.bytes = Xor8(@, fill + 1, 2 ^ off), !.bits = @ + 1 + n,
                !.fill = IF off = ByteBits - 1 THEN fill + 1 ELSE fill,
                !.off = IF off = ByteBits - 1 THEN 0 ELSE off + 1]
WriteBex(w, n) == BareBex(Room(w, 1 + n), n)

\* The length before an atom, and the length of both.
BareLen(w, len) == LET nel == Bits(len) IN BareWord(BareBex(w, nel), nel - 1, len)
MatLen(len) == IF len = 0 THEN 1 ELSE len + 2 * Bits(len)

BareMat64(w, len, val) == IF len = 0 THEN BareBit(w, 1) ELSE BareWord(BareLen(w, len), len, val)
WriteMat64(w, size, val) == LET len == Least(8 * ByteBits, size) IN BareMat64(Room(w, MatLen(len)), len, val)
BareMatBytes(w, len, byt) == IF len = 0 THEN BareBit(w, 1) ELSE BareBytes(BareLen(w, len), len, byt)
WriteMatBytes(w, len, byt) == BareMatBytes(Room(w, MatLen(len)), len, byt)

WriteBack64(w, size, val) ==
  LET len == Least(8 * ByteBits, size) IN BareMat64(Bare8(Room(w, 2 + MatLen(len)), 2, 3), len, val)
WriteAtom64(w, size, val) ==
  LET len == Least(8 * ByteBits, size) IN BareMat64(BareBit(Room(w, 1 + MatLen(len)), 0), len, val)
WriteAtomBytes(w, len, byt) == BareMatBytes(BareBit(Room(w, 1 + MatLen(len)), 0), len, byt)
WriteCell(w) == Bare8(Room(w, 2), 2, 1)
=============================================================================
