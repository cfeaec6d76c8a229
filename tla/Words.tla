------------------------------- MODULE Words -------------------------------
(***************************************************************************)
(* Atoms as the runtime keeps them: a word whose top bit is clear is       *)
(* itself (a cat), any other atom is a run of words, least first, without  *)
(* a zero at the end.  Words have 2^WordBloq bits (2^5 in the source).     *)
(***************************************************************************)
EXTENDS Nouns, Bitwise, SequencesExt

CONSTANT WordBloq,  \* the bloq of a word
         Junk       \* what an uninitialised word holds

WordBits == 2 ^ WordBloq
WordSize == 2 ^ WordBits

IsCat(a) == a < WordSize \div 2

RECURSIVE WordsOf(_)
WordsOf(a) == IF a = 0 THEN << >> ELSE <<a % WordSize>> \o WordsOf(a \div WordSize)

RECURSIVE Value(_)
Value(ws) == IF ws = << >> THEN 0 ELSE ws[1] + WordSize * Value(Tail(ws))

RECURSIVE Bits(_)
Bits(w) == IF w = 0 THEN 0 ELSE 1 + Bits(w \div 2)

CeilDiv(x, y) == (x + y - 1) \div y
Least(x, y) == IF x < y THEN x ELSE y

-----------------------------------------------------------------------------
(* Reading (retrieve.c).                                                   *)

\* Word i of an atom, zero past its end.
Word(i, b) ==
  IF IsCat(b) THEN IF i > 0 THEN 0 ELSE b
  ELSE IF i >= Len(WordsOf(b)) THEN 0 ELSE WordsOf(b)[i + 1]

\* Bit i of an atom, zero past its end.
Bit(i, b) ==
  IF IsCat(b) THEN IF i >= WordBits - 1 THEN 0 ELSE (b \div 2 ^ i) % 2
  ELSE LET pix == i \div WordBits
       IN  IF pix >= Len(WordsOf(b)) THEN 0
           ELSE (WordsOf(b)[pix + 1] \div 2 ^ (i % WordBits)) % 2

\* The size of an atom in blocks of 2^g bits, rounded up: from the bits of
\* its top word for small blocks, by comparisons for quarters and halves of
\* a word, from the count of words for the rest.
Size(g, b) ==
  IF b = 0 THEN 0
  ELSE LET gal == IF IsCat(b) THEN 0 ELSE Len(WordsOf(b)) - 1
           daz == IF IsCat(b) THEN b ELSE WordsOf(b)[gal + 1]
           quarter == WordBits \div 4
           half == WordBits \div 2
       IN  CASE g = WordBloq - 2 ->
                  gal * 4 + (IF daz \div 2 ^ (3 * quarter) > 0 THEN 4
                             ELSE IF daz \div 2 ^ (2 * quarter) > 0 THEN 3
                             ELSE IF daz \div 2 ^ quarter > 0 THEN 2 ELSE 1)
             [] g = WordBloq - 1 ->
                  gal * 2 + (IF daz \div 2 ^ half > 0 THEN 2 ELSE 1)
             [] g < WordBloq - 2 -> CeilDiv(Bits(daz) + gal * WordBits, 2 ^ g)
             [] OTHER -> CeilDiv(gal + 1, 2 ^ (g - WordBloq))

\* Copy n words from word i, zero past the end.
ReadWords(i, n, d) ==
  IF IsCat(d) THEN [k \in 1 .. n |-> IF i = 0 /\ k = 1 THEN d ELSE 0]
  ELSE [k \in 1 .. n |-> IF i + k <= Len(WordsOf(d)) THEN WordsOf(d)[i + k] ELSE 0]

\* The fragment of a noun at an axis, word by word from the top of the axis.
RECURSIVE FragDeep(_, _, _)
FragDeep(a, len, b) ==
  IF len = 0 \/ b = Bail THEN b
  ELSE FragDeep(a, len - 1, Frag(WordsOf(a)[len], WordBits, b))

At(a, b) ==
  IF a = 0 THEN Bail
  ELSE IF IsCat(a) THEN Frag(a, Bits(a) - 1, b)
  ELSE LET len == Len(WordsOf(a))
           top == WordsOf(a)[len]
       IN  FragDeep(a, len - 1, Frag(top, Bits(top) - 1, b))

\* A block size and a count of blocks, from one atom or from a pair.
Bite(x) ==
  IF ~IsCell(x) THEN [ok |-> TRUE, bloq |-> Val(x), step |-> 1]
  ELSE IF ~IsAtom(Hed(x)) \/ ~IsAtom(Tal(x)) THEN [ok |-> FALSE, bloq |-> 0, step |-> 0]
  ELSE [ok |-> TRUE, bloq |-> Val(Hed(x)), step |-> Val(Tal(x))]

-----------------------------------------------------------------------------
(* Writing (imprison.c): a slab is a buffer of words, at least one.        *)

SlabSize(g, len) == IF g < WordBloq THEN CeilDiv(len * 2 ^ g, WordBits)
                    ELSE len * 2 ^ (g - WordBloq)

SlabBare(g, len) == LET n == SlabSize(g, len)
                    IN  [i \in 1 .. (IF n = 0 THEN 1 ELSE n) |-> Junk]

SlabInit(g, len) == [i \in DOMAIN SlabBare(g, len) |-> 0]

SlabFrom(a, g, len) == ReadWords(0, Len(SlabBare(g, len)), a)

\* Trailing zeros go, and a single word without its top bit is a cat.
RECURSIVE SlabMint(_)
SlabMint(buf) == IF buf # << >> /\ buf[Len(buf)] = 0
                 THEN SlabMint(SubSeq(buf, 1, Len(buf) - 1))
                 ELSE Value(buf)

\* XOR wid blocks of 2^g bits from block fum of an atom into a buffer, at
\* block tou: bit by bit for blocks below a word, by words above.
ChopBits(g, fum, tou, buf, src) ==
  LET san == 2 ^ g
      hop == (Word((fum * san) \div WordBits, src) \div 2 ^ ((fum * san) % WordBits)) % 2 ^ san
      w == ((tou * san) \div WordBits) + 1
  IN  SubSeq(buf, 1, w - 1)
        \o <<buf[w] ^^ (hop * 2 ^ ((tou * san) % WordBits))>> \o SubSeq(buf, w + 1, Len(buf))

ChopWords(g, fum, tou, buf, src) ==
  LET san == 2 ^ (g - WordBloq)
  IN  [i \in DOMAIN buf |->
         IF i - 1 \in tou * san .. tou * san + san - 1
         THEN buf[i] ^^ Word(fum * san + (i - 1 - tou * san), src)
         ELSE buf[i]]

Chop(g, fum, wid, tou, buf, src) ==
  FoldLeft(LAMBDA acc, k : IF g < WordBloq THEN ChopBits(g, fum + k - 1, tou + k - 1, acc, src)
                           ELSE ChopWords(g, fum + k - 1, tou + k - 1, acc, src),
           buf, [k \in 1 .. wid |-> k])
=============================================================================
