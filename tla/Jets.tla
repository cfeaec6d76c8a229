-------------------------------- MODULE Jets --------------------------------
(***************************************************************************)
(* Jets at work: the sample of a call is drawn from a class of samples,    *)
(* every jet that takes samples of the class is run on it, and each must   *)
(* give what the arm it stands for gives.                                  *)
(***************************************************************************)
EXTENDS ListJets, Arms

CONSTANTS Small,   \* atoms a pair is made of, its cells too
          Wide,    \* atoms of several words
          Bloqs, Steps, \* block sizes, and counts of blocks
          Elements \* atoms a list is made of

VARIABLE sample    \* [of |-> class, ...]: the sample under test

NoSample == [of |-> "none"]

Operand == {Atom(n) : n \in Small} \cup {Cell(Nul, Nul)}
Pair == {p \in Operand \X Operand : IsAtom(p[1]) \/ IsAtom(p[2])}

\* Shifts that stay within the numbers the checker can hold.
Shifts == {s \in [g : Bloqs, n : Steps, b : Wide] : s.n * 2 ^ s.g + ArmMet(0, s.b) <= LargestExp}

CallPair == \E p \in Pair : sample' = [of |-> "pair", a |-> p[1], b |-> p[2]]
CallAtom == \E n \in Small \cup Wide : sample' = [of |-> "atom", a |-> n]
CallShift == \E s \in Shifts : sample' = [of |-> "shift", g |-> s.g, n |-> s.n, b |-> s.b]
CallJoin ==
  \E g \in Bloqs, b \in Wide, c \in Wide :
    /\ ArmMet(g, b) * 2 ^ g + ArmMet(g, c) * 2 ^ g <= LargestExp
    /\ sample' = [of |-> "join", g |-> g, b |-> b, c |-> c]
CallList ==
  \E g \in Bloqs, n \in Steps, s \in UNION {[1 .. k -> Small] : k \in 0 .. 3} :
    /\ n > 0 /\ n * 2 ^ g * Len(s) <= LargestExp
    /\ sample' = [of |-> "list", g |-> g, n |-> n, s |-> s]
CallItems == \E s \in UNION {[1 .. k -> Elements] : k \in 0 .. 4},
                n \in UNION {[1 .. k -> Elements] : k \in 0 .. 2} :
               sample' = [of |-> "items", s |-> s, n |-> n]

JetsInit == sample = NoSample
JetsNext == /\ sample = NoSample
            /\ CallPair \/ CallAtom \/ CallShift \/ CallJoin \/ CallList \/ CallItems
JetsSpec == JetsInit /\ [][JetsNext]_sample

PairAgrees(a, b) ==
  LET sam == Cell(a, b)
  IN  /\ Add(sam) = ArmAdd(a, b) /\ Sub(sam) = ArmSub(a, b)
      /\ Mul(sam) = ArmMul(a, b) /\ DivJet(sam) = ArmDiv(a, b)
      /\ Mod(sam) = ArmMod(a, b)
      /\ Lth(sam) = ArmLth(a, b) /\ Lte(sam) = ArmLte(a, b)
      /\ Gth(sam) = ArmGth(a, b) /\ Gte(sam) = ArmGte(a, b)
      /\ DorJet(a, b) = ArmDor(a, b)
      /\ DorJet(Cell(b, a), Cell(b, sam)) = ArmDor(Cell(b, a), Cell(b, sam))
      /\ Met(Cell(a, Nul)) = Nul
      /\ AreAtoms(a, b) =>
           /\ Dvr(sam) = ArmDvr(a, b)
           /\ Con(sam) = Atom(ArmCon(Val(a), Val(b)))
           /\ Dis(sam) = Atom(ArmDis(Val(a), Val(b)))
           /\ Mix(sam) = Atom(ArmMix(Val(a), Val(b)))
           /\ a # Nul /\ b # Nul => Peg(sam) = Atom(ArmPeg(Val(a), Val(b)))
           /\ Val(a) < 10 /\ Val(b) < 9 => Pow(sam) = Atom(ArmPow(Val(a), Val(b)))

AtomAgrees(a) ==
  /\ Dec(Atom(a)) = ArmDec(Atom(a))
  /\ Inc(Atom(a)) = Atom(a + 1)
  /\ CapJet(Atom(a)) = ArmCap(a)
  /\ MasJet(Atom(a)) = IF a < 2 THEN Bail ELSE Atom(ArmMas(a))
  /\ Xeb(Atom(a)) = Atom(ArmMet(0, a))
  /\ Sqt(Atom(a)) = ArmSqt(a)
  /\ \A g \in Bloqs : Met(Cell(Atom(g), Atom(a))) = Atom(ArmMet(g, a))

\* What a jet may give of blocks of n times 2^g bits, where the arm gives arm:
\* +rip and +rep decline several blocks of more than a bit, and crash with %fail
\* on steps of a word's bits and more, and +rep on an element that is no cat, all
\* of which the arm knows how to do (rip.c:51, rep.c:24, rep.c:57).
Regrouped(got, arm, g, n, elements) ==
  got = IF n = 1 THEN arm
        ELSE IF g # 0 THEN Punt
        ELSE IF n >= WordBits \/ \E x \in elements : ~IsCat(x) THEN Fail ELSE arm

ShiftAgrees(g, n, b) ==
  LET sam == Cell(Cell(Atom(g), Atom(n)), Atom(b))
  IN  /\ Bitten(sam, End) = Atom(ArmEnd(g, n, b))
      /\ Bitten(sam, Rsh) = Atom(ArmRsh(g, n, b))
      /\ Bitten(sam, Lsh) = Atom(ArmLsh(g, n, b))
      /\ \A c \in Steps : Cut(g, n, c, b) = Atom(ArmCut(g, n, c, b))
      /\ Rev(g, n, b) = Atom(ArmRev(g, n, b))
      /\ n > 0 => LET got == Bitten(sam, Rip)
                      arm == FromSeq([i \in DOMAIN ArmRip(g, n, b) |-> Atom(ArmRip(g, n, b)[i])])
                  IN  Regrouped(got, arm, g, n, {})

\* The atoms of a list, as blocks of 2^g bits, fit in a number.
Fits(g, s) == FoldLeft(LAMBDA r, x : r + ArmMet(g, x) * 2 ^ g, 0, s) <= LargestExp

ListAgrees(g, n, s) ==
  LET nouns == FromSeq([i \in DOMAIN s |-> Atom(s[i])])
      sized == [i \in DOMAIN s |-> [wid |-> (n + i) % 3, dat |-> s[i]]]
      pairs == FromSeq([i \in DOMAIN s |-> Cell(Atom(sized[i].wid), Atom(s[i]))])
  IN  /\ s # << >> => Regrouped(Rep(g, n, nouns), Atom(ArmRep(g, n, s)), g, n, {s[i] : i \in DOMAIN s})
      /\ Fits(g, s) => Rap(g, nouns) = Atom(ArmRap(g, s))
      /\ 2 * Len(s) * 2 ^ g <= LargestExp => Can(g, pairs) = Atom(ArmCan(g, sized))

Atoms(s) == [i \in DOMAIN s |-> Atom(s[i])]

\* A jet gives what its arm gives, to the last bit and the last crash: at the
\* edges of cats, of words and of blocks, and whether or not an argument is an
\* atom; and loops over lists that stop early, crash midway or build two results
\* at once lose, double or reorder nothing (jets/a, b, c).  But +rip and +rep
\* decline some steps, and give up others that the arm does not: Regrouped says
\* which, and that they do so of no others.
JetsMatchArms ==
  CASE sample.of = "pair" -> PairAgrees(sample.a, sample.b)
    [] sample.of = "atom" -> AtomAgrees(sample.a)
    [] sample.of = "shift" -> ShiftAgrees(sample.g, sample.n, sample.b)
    [] sample.of = "join" -> Cat(sample.g, sample.b, sample.c) = Atom(ArmCat(sample.g, sample.b, sample.c))
    [] sample.of = "list" -> ListAgrees(sample.g, sample.n, sample.s)
    [] sample.of = "items" -> ListAgreesWith(Atoms(sample.s), Atoms(sample.n))
    [] OTHER -> TRUE
=============================================================================
