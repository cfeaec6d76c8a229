------------------------------ MODULE Streams ------------------------------
(***************************************************************************)
(* A bit stream at work: a writer is given one thing after another, then a *)
(* reader reads the buffer in pieces of any kind, beyond its end too, a    *)
(* little or by more bits than a byte can count.                           *)
(***************************************************************************)
EXTENDS Bitstream

CONSTANTS MinPut, MaxPut, \* bits that are written, before they are read and at all
          Lens,       \* lengths of pieces
          Longs,      \* lengths of reads about as long as a byte can count
          Vals,       \* numbers that are written
          MaxOver     \* bits that are read beyond the end, before a long read

VARIABLES w,     \* the writer
          put,   \* the bits that were given to it
          buf,   \* the bytes it left, once it is done
          r,     \* the reader
          got,   \* what the last read was asked for, and gave
          lost   \* has a count of bits wrapped?

streamVars == <<w, put, buf, r, got, lost>>

NoReader == [at |-> 0, left |-> 0, off |-> 0, bits |-> 0]
NoRead == [op |-> "none", from |-> 0, len |-> 0, out |-> 0]

StreamsInit == /\ w = Writer(1, 1) /\ put = << >> /\ buf = << >>
               /\ r = NoReader /\ got = NoRead /\ lost = FALSE

Give(to, bits) == /\ r = NoReader /\ Len(put) + Len(bits) <= MaxPut
                  /\ w' = to /\ put' = put \o bits
                  /\ UNCHANGED <<buf, r, got, lost>>

GiveBit == \E b \in {0, 1} : Give(WriteBit(w, b), <<b>>)
GiveSome ==
  \E len \in Lens, v \in Vals :
    \/ Give(Write8(w, len, v % ByteSize), NumberBits(v % ByteSize, Least(len, ByteBits)))
    \/ Give(Write32(w, len, v), NumberBits(v, Least(len, 4 * ByteBits)))
    \/ Give(Write64(w, len, v), NumberBits(v, Least(len, 8 * ByteBits)))
    \/ Give(WriteBytes(w, len, BytesOf(v, len)), NumberBits(v, len))
GiveZeros == \E n \in Lens : Give(WriteBex(w, n), NumberBits(0, n) \o <<1>>)
GiveAtom ==
  \E v \in Vals :
    LET len == Bits(v)
    IN  \/ Give(WriteMat64(w, len, v), ArmMat(v))
        \/ Give(WriteMatBytes(w, len, BytesOf(v, len)), ArmMat(v))
        \/ Give(WriteAtom64(w, len, v), <<0>> \o ArmMat(v))
        \/ Give(WriteAtomBytes(w, len, BytesOf(v, len)), <<0>> \o ArmMat(v))
        \/ Give(WriteBack64(w, len, v), <<1, 1>> \o ArmMat(v))
GiveCell == Give(WriteCell(w), <<1, 0>>)

\* The writer is done, and a reader takes the bytes in use.
Done == /\ r = NoReader /\ Len(put) >= MinPut
        /\ buf' = SubSeq(w.bytes, 1, w.fill + (IF w.off > 0 THEN 1 ELSE 0))
        /\ r' = Reader(buf') /\ w' = Writer(0, 0)
        /\ UNCHANGED <<put, got, lost>>

\* A read of len bits that ends in the last byte or after it counts those that
\* it takes of it in a uint8_t: is their number so large that it is taken for a
\* few, so that the cursor stays in the last byte (bitstream.c:441, 505)?
Wraps(op, len) ==
  LET ofLast == len - (r.left - 1) * ByteBits
  IN  /\ op = "nothing" \/ (op = "bytes" /\ r.off > 0)
      /\ r.left > 0 /\ ofLast >= Octet /\ ofLast % Octet < ByteBits - r.off

\* (A long read comes before the last one.)
Took(op, len, step) ==
  /\ r # NoReader
  /\ \/ r.bits + len <= Len(put) + MaxOver
     \/ len \in Longs /\ r.bits <= Len(put) + MaxOver
     \/ len \notin Longs /\ got.len \in Longs
  /\ r' = step.r
  /\ got' = [op |-> op, from |-> r.bits, len |-> len, out |-> step.out]
  /\ lost' = (lost \/ Wraps(op, len))
  /\ UNCHANGED <<w, put, buf>>

TakeBit == Took("number", 1, ReadBit(buf, r))
TakeSome ==
  \E len \in Lens :
    \/ len <= ByteBits /\ Took("number", len, Read8(buf, r, len))
    \/ len <= 4 * ByteBits /\ Took("number", len, Read32(buf, r, len))
    \/ len <= 8 * ByteBits /\ Took("number", len, Read64(buf, r, len))
TakeAny ==
  \E len \in Lens \cup Longs :
    \/ Took("bytes", len, ReadBytes(buf, r, len))
    \/ Took("nothing", len, [r |-> SkipBits(buf, r, len), out |-> 0])
TakeTag == LET t == ReadTag(buf, r)
           IN  Took("tag", 0, [r |-> t.r, out |-> IF t.res = Good THEN t.out ELSE t.res])
TakeLog == LET t == ReadLog(buf, r)
           IN  Took("log", 0, [r |-> t.r, out |-> IF t.res = Good THEN t.out ELSE -1])

StreamsNext == \/ GiveBit \/ GiveSome \/ GiveZeros \/ GiveAtom \/ GiveCell
               \/ Done \/ TakeBit \/ TakeSome \/ TakeAny \/ TakeTag \/ TakeLog
StreamsSpec == StreamsInit /\ [][StreamsNext]_streamVars

-----------------------------------------------------------------------------
\* The bits of what was written, and zeros after them for ever.
PutBit(i) == IF i < Len(put) THEN put[i + 1] ELSE 0
PutBits(from, n) == [k \in 1 .. n |-> PutBit(from + k - 1)]

\* The cursor of a reader that is not off the end is the byte and bit it is at.
CursorIsTrue == IF r.left > 0 THEN r.bits = (r.at - 1) * ByteBits + r.off /\ r.left + r.at = Len(buf) + 1
                              ELSE r.bits >= Len(buf) * ByteBits

\* What a read gives is what was written there: a number, bytes, a tag, or a
\* count of zeros.
Expected ==
  LET after == {i \in got.from .. Len(put) - 1 : put[i + 1] = 1}
  IN  CASE got.op = "number" -> BitsValue(PutBits(got.from, got.len))
        [] got.op = "bytes" -> [i \in 1 .. CeilDiv(got.len, ByteBits) |->
             BitsValue(PutBits(got.from + (i - 1) * ByteBits,
                               Least(ByteBits, got.len - (i - 1) * ByteBits)))]
        [] got.op = "tag" -> IF got.from >= Len(buf) * ByteBits THEN Gone
                             ELSE IF PutBit(got.from) = 0 THEN "atom"
                             ELSE IF got.from + 1 >= Len(buf) * ByteBits THEN Gone
                             ELSE IF PutBit(got.from + 1) = 0 THEN "cell" ELSE "back"
        [] got.op = "log" -> IF after = {} THEN -1
                             ELSE (CHOOSE i \in after : \A j \in after : i <= j) - got.from
        [] OTHER -> got.out

\* Whatever was written before, at whatever offset and however often the
\* buffer grew: the buffer holds exactly the bits that were written, no write
\* ran past its end, and every read gives what was written at the cursor, or
\* zeros beyond the end, and moves the cursor by what it read (ur/bitstream.c).
\* Reads "behave as if the stream were infinite" (bitstream.h:11) until one wraps
\* its count of bits: it gives too few bits of the last byte, and what comes after
\* it is read there, again.  Long reads that do not wrap are as good as any.
StreamsKeepBits ==
  /\ Len(w.bytes) = w.size /\ w.fill * ByteBits + w.off = w.bits
  /\ LET held == IF r = NoReader THEN w.bytes ELSE buf
     IN  StreamBits(held, 0, Len(held) * ByteBits) = PutBits(0, Len(held) * ByteBits)
  /\ r = NoReader => w.bits = Len(put)
  /\ r # NoReader => Len(buf) = CeilDiv(Len(put), ByteBits)
  /\ ~lost => /\ r # NoReader /\ got.op \notin {"tag", "log"} => CursorIsTrue
              /\ got.out = Expected
=============================================================================
