------------------------------- MODULE BitJets -------------------------------
(***************************************************************************)
(* The jets of arithmetic (jets/a) and of bits (jets/c), next to the Hoon  *)
(* arms they stand for.  A jet takes a sample and gives a noun; atoms that *)
(* are not cats go through the big-number library.                         *)
(***************************************************************************)
EXTENDS Words

BothCats(a, b) == IsCat(a) /\ IsCat(b)

\* A sample of two atoms, or a crash.
Two(sam, F(_, _)) ==
  IF ~IsCell(sam) THEN Bail
  ELSE IF IsCell(Hed(sam)) \/ IsCell(Tal(sam)) THEN Bail
  ELSE F(Val(Hed(sam)), Val(Tal(sam)))

One(sam, F(_)) == IF IsCell(sam) THEN Bail ELSE F(Val(sam))

\* A sample of a bite and an atom.
Bitten(sam, F(_, _, _)) ==
  IF ~IsCell(sam) THEN Bail
  ELSE LET bite == Bite(Hed(sam))
       IN  IF ~bite.ok \/ IsCell(Tal(sam)) THEN Bail
           ELSE F(bite.bloq, bite.step, Val(Tal(sam)))

\* Two cells cannot be compared as numbers, yet one side at zero decides.
Lax(sam, F(_, _)) ==
  IF ~IsCell(sam) THEN Bail
  ELSE LET a == Hed(sam)
           b == Tal(sam)
       IN  IF (IsCell(b) /\ a # Nul) \/ (IsCell(a) /\ b # Nul) THEN Bail ELSE F(a, b)

-----------------------------------------------------------------------------
(* Arithmetic: the sum of two cats is made from a word, their product from *)
(* two words.                                                              *)

Add(sam) ==
  IF ~IsCell(sam) THEN Bail
  ELSE LET a == Hed(sam)
           b == Tal(sam)
       IN  IF IsCell(a) \/ (IsCell(b) /\ a # Nul) THEN Bail
           ELSE IF a = Nul THEN b
           ELSE IF BothCats(Val(a), Val(b)) THEN Atom((Val(a) + Val(b)) % WordSize)
           ELSE Atom(Val(a) + Val(b))

\* An increment leaves the cats at the largest of them.
Inc(a) == IF IsCell(a) THEN Bail
          ELSE IF IsCat(Val(a)) THEN Atom((Val(a) + 1) % WordSize)
          ELSE Atom(Val(a) + 1)

Dec(sam) == One(sam, LAMBDA a : IF a = 0 THEN Bail ELSE Atom(a - 1))

Mul(sam) ==
  IF ~IsCell(sam) THEN Bail
  ELSE LET a == Hed(sam)
           b == Tal(sam)
       IN  IF IsCell(a) \/ (IsCell(b) /\ a # Nul) THEN Bail
           ELSE IF a = Nul THEN Nul
           ELSE IF BothCats(Val(a), Val(b)) THEN Atom((Val(a) * Val(b)) % (WordSize * WordSize))
           ELSE Atom(Val(a) * Val(b))

Sub(sam) ==
  IF ~IsCell(sam) THEN Bail
  ELSE LET a == Hed(sam)
           b == Tal(sam)
       IN  IF IsCell(b) \/ (IsCell(a) /\ b # Nul) THEN Bail
           ELSE IF b = Nul THEN a
           ELSE IF Val(a) < Val(b) THEN Bail
           ELSE Atom(Val(a) - Val(b))

DivJet(sam) == Two(sam, LAMBDA a, b : IF b = 0 THEN Bail ELSE Atom(a \div b))
Mod(sam) == Two(sam, LAMBDA a, b : IF b = 0 THEN Bail ELSE Atom(a % b))
Dvr(sam) ==
  IF ~IsCell(sam) THEN Bail
  ELSE IF IsCell(Hed(sam)) THEN Bail
  ELSE IF Tal(sam) = Nul THEN Bail
  ELSE Cell(Atom(Val(Hed(sam)) \div Val(Tal(sam))), Atom(Val(Hed(sam)) % Val(Tal(sam))))

\* Cats are compared as words, longer atoms by their size in bits and only
\* then as numbers.
Greater(a, b, less, more, Order(_, _)) ==
  IF IsAtom(a) /\ IsAtom(b) /\ BothCats(Val(a), Val(b)) THEN Loob(Order(Val(a), Val(b)))
  ELSE IF a = Nul THEN less
  ELSE IF b = Nul THEN more
  ELSE LET m == Size(0, Val(a))
           n == Size(0, Val(b))
       IN  IF m # n THEN Loob(Order(m, n)) ELSE Loob(Order(Val(a), Val(b)))

Gth(sam) == Lax(sam, LAMBDA a, b : Greater(a, b, No, Yes, LAMBDA x, y : x > y))
Gte(sam) == Lax(sam, LAMBDA a, b : Greater(a, b, No, Yes, LAMBDA x, y : x >= y))
Lth(sam) == Lax(sam, LAMBDA a, b : Greater(a, b, Yes, No, LAMBDA x, y : x < y))
Lte(sam) == Lax(sam, LAMBDA a, b : Greater(a, b, Yes, No, LAMBDA x, y : x <= y))

\* Any two nouns: atoms before cells, cells by what differs first.
RECURSIVE DorJet(_, _)
DorJet(a, b) ==
  IF a = b THEN Yes
  ELSE IF IsAtom(a) THEN IF IsAtom(b) THEN Lth(Cell(a, b)) ELSE Yes
  ELSE IF IsAtom(b) THEN No
  ELSE IF Hed(a) = Hed(b) THEN DorJet(Tal(a), Tal(b)) ELSE DorJet(Hed(a), Hed(b))

Pow(sam) == Two(sam, LAMBDA a, b :
  IF ~IsCat(b) THEN Fail ELSE IF b = 0 THEN Atom(1) ELSE Atom(a ^ b))

Root(a) == CHOOSE r \in 0 .. a : r * r <= a /\ (r + 1) * (r + 1) > a
Sqt(sam) == One(sam, LAMBDA a : Cell(Atom(Root(a)), Atom(a - Root(a) * Root(a))))

-----------------------------------------------------------------------------
(* Axes as atoms.                                                          *)

Bex(a) == IF IsCat(a) THEN Atom(2 ^ a) ELSE Fail

CapJet(sam) == One(sam, LAMBDA a :
  IF Size(0, a) < 2 THEN Bail ELSE IF Bit(Size(0, a) - 2, a) = 1 THEN Atom(3) ELSE Atom(2))

BigOr(a, b) ==
  LET m == Size(WordBloq, a)
      n == Size(WordBloq, b)
      len == IF m > n THEN m ELSE n
      sab == SlabFrom(a, WordBloq, len)
  IN  IF len = 0 THEN 0 ELSE SlabMint([i \in DOMAIN sab |-> sab[i] | Word(i - 1, b)])

MasJet(sam) == One(sam, LAMBDA a :
  IF Size(0, a) < 2 THEN Bail
  ELSE Atom(BigOr(a - 2 ^ (Size(0, a) - 1), 2 ^ (Size(0, a) - 2))))

-----------------------------------------------------------------------------
(* Bits, word by word.                                                     *)

Con(sam) == Two(sam, LAMBDA a, b : Atom(BigOr(a, b)))

\* Both work on a copy of the first atom as long as the longer of the two.
Wordwise(a, b, Op(_, _)) ==
  LET m == Size(WordBloq, a)
      n == Size(WordBloq, b)
      len == IF m > n THEN m ELSE n
      sab == SlabFrom(a, WordBloq, len)
  IN  IF len = 0 THEN 0 ELSE SlabMint([i \in DOMAIN sab |-> Op(sab[i], Word(i - 1, b))])

Dis(sam) == Two(sam, LAMBDA a, b : Atom(Wordwise(a, b, LAMBDA x, y : x & y)))
Mix(sam) == Two(sam, LAMBDA a, b : Atom(Wordwise(a, b, LAMBDA x, y : x ^^ y)))

\* Blocks are as large as 2^31 bits at most.
BloqOk(a) == IsCat(a) /\ a < WordBits

\* The size of nothing is nothing, whatever it is measured in.
Met(sam) ==
  IF ~IsCell(sam) THEN Bail
  ELSE LET a == Hed(sam)
           b == Tal(sam)
       IN  IF IsCell(b) \/ (IsCell(a) /\ b # Nul) THEN Bail
           ELSE IF b = Nul THEN Nul
           ELSE IF ~BloqOk(Val(a)) THEN Atom(1)
           ELSE Atom(Size(Val(a), Val(b)))
Xeb(sam) == One(sam, LAMBDA a : Atom(Size(0, a)))

End(a, b, c) ==
  IF ~BloqOk(a) THEN Fail
  ELSE IF b = 0 THEN Nul
  ELSE IF ~IsCat(b) \/ b >= Size(a, c) THEN Atom(c)
  ELSE Atom(SlabMint(Chop(a, 0, b, 0, SlabInit(a, b), c)))

Lsh(a, b, c) ==
  IF ~BloqOk(a) \/ ~IsCat(b) THEN Fail
  ELSE LET len == Size(a, c)
       IN  IF len = 0 THEN Nul
           ELSE Atom(SlabMint(Chop(a, 0, len, b, SlabInit(a, b + len), c)))

Rsh(a, b, c) ==
  IF ~BloqOk(a) THEN Fail
  ELSE LET len == Size(a, c)
       IN  IF ~IsCat(b) \/ b >= len THEN Nul
           ELSE Atom(SlabMint(Chop(a, b, len - b, 0, SlabInit(a, len - b), c)))

\* A slice is clipped to the atom it is cut from.
Cut(a, b, c, d) ==
  IF ~BloqOk(a) THEN Fail
  ELSE LET len == Size(a, d)
           wid == IF ~IsCat(c) THEN len - b ELSE Least(c, len - b)
       IN  IF ~IsCat(b) \/ c = 0 \/ b >= len THEN Nul
           ELSE IF b = 0 /\ wid = len THEN Atom(d)
           ELSE Atom(SlabMint(Chop(a, b, wid, 0, SlabInit(a, wid), d)))

Cat(a, b, c) ==
  IF ~BloqOk(a) THEN Fail
  ELSE LET lew == Size(a, b)
           ler == Size(a, c)
       IN  IF lew + ler = 0 THEN Nul
           ELSE Atom(SlabMint(Chop(a, 0, ler, lew, SlabFrom(b, a, lew + ler), c)))

-----------------------------------------------------------------------------
(* Lists of blocks.  Each measures and checks its list, then chops it in.  *)

RECURSIVE ChopAll(_, _, _, _)
ChopAll(g, parts, pos, buf) ==
  IF parts = << >> THEN buf
  ELSE ChopAll(g, Tail(parts), pos + parts[1].wid,
               Chop(g, 0, parts[1].wid, pos, buf, parts[1].dat))

RECURSIVE Total(_)
Total(parts) == IF parts = << >> THEN 0 ELSE parts[1].wid + Total(Tail(parts))

Assemble(g, parts) ==
  IF Total(parts) = 0 THEN Nul
  ELSE Atom(SlabMint(ChopAll(g, parts, 0, SlabInit(g, Total(parts)))))

CanItem(x) == IsCell(x) /\ IsAtom(Hed(x)) /\ IsAtom(Tal(x)) /\ IsCat(Val(Hed(x)))
Can(a, b) ==
  IF ~BloqOk(a) \/ ~Proper(b) \/ \E x \in {Items(b)[i] : i \in DOMAIN Items(b)} : ~CanItem(x)
  THEN Fail
  ELSE Assemble(a, [i \in DOMAIN Items(b) |->
                     [wid |-> Val(Hed(Items(b)[i])), dat |-> Val(Tal(Items(b)[i]))]])

AllAtoms(b) == Proper(b) /\ \A i \in DOMAIN Items(b) : IsAtom(Items(b)[i])
Rap(a, b) ==
  IF ~BloqOk(a) THEN Fail
  ELSE IF ~AllAtoms(b) THEN Bail
  ELSE Assemble(a, [i \in DOMAIN Items(b) |->
                     [wid |-> Size(a, Val(Items(b)[i])), dat |-> Val(Items(b)[i])]])

BlockRep(a, b) ==
  IF ~BloqOk(a) THEN Fail
  ELSE IF ~AllAtoms(b) THEN Bail
  ELSE Assemble(a, [i \in DOMAIN Items(b) |-> [wid |-> 1, dat |-> Val(Items(b)[i])]])

\* Blocks of any number of bits go through a register, flushed to the next
\* word of the buffer when it is full and once more if anything is left.
RECURSIVE Register(_, _)
Register(r, blok) ==
  LET room == WordBits - r.use
      took == Least(blok.rem, room)
      acc == r.acc + (blok.val % 2 ^ took) * 2 ^ r.use
      next == IF took = room THEN [acc |-> 0, use |-> 0, out |-> Append(r.out, acc)]
              ELSE [r EXCEPT !.acc = acc, !.use = @ + took]
  IN  IF blok.rem = 0 THEN r
      ELSE Register(next, [rem |-> blok.rem - took, val |-> blok.val \div 2 ^ took])

RECURSIVE RegisterAll(_, _, _)
RegisterAll(bits, xs, r) ==
  IF xs = << >> THEN IF r.use = 0 THEN r.out ELSE Append(r.out, r.acc)
  ELSE RegisterAll(bits, Tail(xs), Register(r, [rem |-> bits, val |-> Val(xs[1])]))

BitRep(bits, b) ==
  IF ~IsCat(bits) \/ bits = 0 \/ bits > WordBits - 1 THEN Fail
  ELSE IF ~Proper(b) THEN Bail
  ELSE LET xs == Items(b)
           buf == SlabBare(WordBloq, CeilDiv(Len(xs) * bits, WordBits))
           out == RegisterAll(bits, xs, [acc |-> 0, use |-> 0, out |-> << >>])
       IN  IF \E i \in DOMAIN xs : IsCell(xs[i]) \/ ~IsCat(Val(xs[i])) THEN Fail
           ELSE Atom(SlabMint([i \in DOMAIN buf |->
                                IF i <= Len(out) THEN out[i] ELSE buf[i]]))

Rep(a, b, c) == IF b = 1 THEN BlockRep(a, c) ELSE IF a = 0 THEN BitRep(b, c) ELSE Punt

\* Faulty: a block that lies across two words is read from the first only.
BitRipInWord(bits, a) ==
  LET num == CeilDiv(Size(0, a), bits)
      Item(rem) == (Word(rem \div WordBits, a) \div 2 ^ (rem % WordBits)) % 2 ^ bits
  IN  FromSeq([blk \in 1 .. num |-> Atom(Item((blk - 1) * bits))])

\* From the top block down: each is in one word or across two.
BitRip(bits, a) ==
  IF ~IsCat(bits) \/ bits = 0 \/ bits > WordBits - 1 THEN Fail
  ELSE LET num == CeilDiv(Size(0, a), bits)
           Item(blk) ==
             LET rem == (blk - 1) * bits
                 ins == rem \div WordBits
                 inword == rem % WordBits
                 nins == Least(bits, WordBits - inword)
                 nsig == bits - nins
             IN  ((Word(ins, a) \div 2 ^ inword) % 2 ^ nins)
                   + ((Word(ins + 1, a) % 2 ^ nsig) * 2 ^ nins)
       IN  FromSeq([blk \in 1 .. num |-> Atom(Item(blk))])

\* Blocks of a power of two bits: masked out of a word, or whole words, the
\* top block only as many as are left.
BlockRip(g, b) ==
  IF ~BloqOk(g) THEN Fail
  ELSE LET met == Size(g, b)
       IN  IF g < WordBloq
           THEN FromSeq([k \in 1 .. met |->
                  Atom((Word(((k - 1) * 2 ^ g) \div WordBits, b)
                          \div 2 ^ (((k - 1) * 2 ^ g) % WordBits)) % 2 ^ (2 ^ g))])
           ELSE LET san == 2 ^ (g - WordBloq)
                    dif == met * san - Size(WordBloq, b)
                    sap(k) == IF k = met THEN san - dif ELSE san
                IN  FromSeq([k \in 1 .. met |->
                      Atom(SlabMint([j \in 1 .. sap(k) |-> Word((k - 1) * san + j - 1, b)]))])

Rip(a, b, c) == IF b = 1 THEN BlockRip(a, c) ELSE IF a = 0 THEN BitRip(b, c) ELSE Punt

Swp(a, b) == LET blocks == Rip(a, 1, b)
             IN  IF blocks = Fail THEN Fail ELSE Rep(a, 1, FromSeq(Reverse(Items(blocks))))

Rev(boz, len, dat) ==
  IF ~BloqOk(boz) \/ ~IsCat(len) THEN Fail
  ELSE LET low == Val(End(boz, len, dat))
       IN  Lsh(boz, len - Size(boz, low), Val(Swp(boz, low)))

\* The axis of b within a.
Peg(sam) ==
  IF ~IsCell(sam) THEN Bail
  ELSE LET a == Hed(sam)
           b == Tal(sam)
       IN  IF a = Nul \/ b = Nul \/ IsCell(b) \/ (IsCell(a) /\ b # Atom(1)) THEN Bail
           ELSE IF b = Atom(1) THEN a
           ELSE LET d == Size(0, Val(b)) - 1
                IN  Atom((Val(b) - Val(Lsh(0, d, 1))) + Val(Lsh(0, d, Val(a))))
=============================================================================
