-------------------------------- MODULE Arms --------------------------------
(***************************************************************************)
(* What the Hoon standard library says: the arms of arithmetic, of bits    *)
(* and of lists that the jets stand for.  An arm that counts an atom down  *)
(* one by one is written as the arithmetic it computes.                    *)
(***************************************************************************)
EXTENDS Nouns, SequencesExt

AreAtoms(a, b) == IsAtom(a) /\ IsAtom(b)

\* 2^e, and what is left of an atom above and below bit e.
LargestExp == 30
Low(b, e) == IF e >= LargestExp THEN b ELSE b % 2 ^ e
High(b, e) == IF e >= LargestExp THEN 0 ELSE b \div 2 ^ e

-----------------------------------------------------------------------------
(* Arithmetic.  An atom at zero ends a loop before its cell is looked at.  *)

ArmAdd(a, b) == IF a = Nul THEN b ELSE IF AreAtoms(a, b) THEN Atom(Val(a) + Val(b)) ELSE Bail
ArmDec(a) == IF IsCell(a) \/ a = Nul THEN Bail ELSE Atom(Val(a) - 1)
ArmSub(a, b) == IF b = Nul THEN a
                ELSE IF AreAtoms(a, b) /\ Val(a) >= Val(b) THEN Atom(Val(a) - Val(b)) ELSE Bail
ArmMul(a, b) == IF a = Nul THEN Nul
                ELSE IF AreAtoms(a, b) THEN Atom(Val(a) * Val(b)) ELSE Bail
ArmDiv(a, b) == IF AreAtoms(a, b) /\ b # Nul THEN Atom(Val(a) \div Val(b)) ELSE Bail
ArmMod(a, b) == IF AreAtoms(a, b) /\ b # Nul THEN Atom(Val(a) % Val(b)) ELSE Bail
ArmDvr(a, b) == Cell(ArmDiv(a, b), ArmMod(a, b))

ArmLth(a, b) == IF a = b THEN No
                ELSE IF a = Nul THEN Yes
                ELSE IF b = Nul THEN No
                ELSE IF AreAtoms(a, b) THEN Loob(Val(a) < Val(b)) ELSE Bail
Negated(x) == IF x = Bail THEN Bail ELSE Loob(x = No)
ArmLte(a, b) == IF a = b THEN Yes ELSE ArmLth(a, b)
ArmGte(a, b) == Negated(ArmLth(a, b))
ArmGth(a, b) == Negated(ArmLte(a, b))

RECURSIVE ArmDor(_, _)
ArmDor(a, b) == IF a = b THEN Yes
                ELSE IF AreAtoms(a, b) THEN ArmLth(a, b)
                ELSE IF IsAtom(a) THEN Yes
                ELSE IF IsAtom(b) THEN No
                ELSE IF Hed(a) = Hed(b) THEN ArmDor(Tal(a), Tal(b))
                ELSE ArmDor(Hed(a), Hed(b))

RECURSIVE ArmPow(_, _)
ArmPow(a, b) == IF b = 0 THEN 1
                ELSE IF b = 1 THEN a
                ELSE LET c == ArmPow(a, b \div 2)
                     IN  IF b % 2 = 0 THEN c * c ELSE c * c * a

\* Bit by bit from the top: r is the root so far, q the bit tried.
RECURSIVE ArmSqtLoop(_, _, _)
ArmSqtLoop(a, q, r) ==
  LET s == r + 2 ^ q
  IN  IF q = 0 THEN IF s * s <= a THEN s ELSE r
      ELSE ArmSqtLoop(a, q - 1, IF s * s <= a THEN s ELSE r)

RECURSIVE ArmMet(_, _)
ArmMet(g, b) == IF b = 0 THEN 0 ELSE 1 + ArmMet(g, High(b, 2 ^ g))

ArmSqt(a) == LET r == IF a = 0 THEN 0 ELSE ArmSqtLoop(a, (ArmMet(0, a) - 1) \div 2, 0)
             IN  Cell(Atom(r), Atom(a - r * r))

RECURSIVE ArmCap(_)
ArmCap(a) == IF a < 2 THEN Bail ELSE IF a < 4 THEN Atom(a) ELSE ArmCap(a \div 2)

RECURSIVE ArmMas(_)
ArmMas(a) == IF a < 2 THEN 0 ELSE IF a < 4 THEN 1 ELSE (a % 2) + 2 * ArmMas(a \div 2)

RECURSIVE ArmPeg(_, _)
ArmPeg(a, b) == IF b = 1 THEN a
                ELSE IF b \in {2, 3} THEN 2 * a + b - 2
                ELSE (b % 2) + 2 * ArmPeg(a, b \div 2)

-----------------------------------------------------------------------------
(* Bits.                                                                   *)

ArmEnd(g, n, b) == Low(b, n * 2 ^ g)
ArmRsh(g, n, b) == High(b, n * 2 ^ g)
ArmLsh(g, n, b) == IF b = 0 THEN 0 ELSE b * 2 ^ (n * 2 ^ g)
ArmCut(g, b, c, d) == ArmEnd(g, c, ArmRsh(g, b, d))
ArmCat(g, b, c) == ArmLsh(g, ArmMet(g, b), c) + b

\* Bit by bit: the truth value the arm shifts in at each place.
ArmBits(a, b, Op(_, _)) ==
  LET RECURSIVE From(_, _)
      From(x, y) == IF x = 0 /\ y = 0 THEN 0
                    ELSE Op(x % 2, y % 2) + 2 * From(x \div 2, y \div 2)
  IN  From(a, b)

ArmCon(a, b) == ArmBits(a, b, LAMBDA x, y : IF x = 0 /\ y = 0 THEN 0 ELSE 1)
ArmDis(a, b) == ArmBits(a, b, LAMBDA x, y : IF x = 0 \/ y = 0 THEN 0 ELSE 1)
ArmMix(a, b) == ArmBits(a, b, LAMBDA x, y : IF x = y THEN 0 ELSE 1)

RECURSIVE ArmCan(_, _)
ArmCan(g, s) == IF s = << >> THEN 0
                ELSE ArmEnd(g, s[1].wid, s[1].dat) + ArmLsh(g, s[1].wid, ArmCan(g, Tail(s)))

RECURSIVE ArmRap(_, _)
ArmRap(g, s) == IF s = << >> THEN 0 ELSE ArmCat(g, s[1], ArmRap(g, Tail(s)))

RECURSIVE ArmRep(_, _, _)
ArmRep(g, n, s) == IF s = << >> THEN 0
                   ELSE ArmEnd(g, n, s[1]) + ArmLsh(g, n, ArmRep(g, n, Tail(s)))

RECURSIVE ArmRip(_, _, _)
ArmRip(g, n, b) == IF b = 0 THEN << >> ELSE <<ArmEnd(g, n, b)>> \o ArmRip(g, n, ArmRsh(g, n, b))

ArmSwp(g, b) == ArmRep(g, 1, Reverse(ArmRip(g, 1, b)))
ArmRev(g, len, b) == LET low == ArmEnd(g, len, b)
                     IN  ArmLsh(g, len - ArmMet(g, low), ArmSwp(g, low))
=============================================================================
