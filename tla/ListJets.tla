------------------------------ MODULE ListJets ------------------------------
(***************************************************************************)
(* The jets of lists (jets/b): loops over a list that build the result     *)
(* from the front, next to what the arms say of the whole list.  A gate is *)
(* known by its name.                                                      *)
(***************************************************************************)
EXTENDS BitJets

\* Small gates: a test that crashes on 9 and gives no loobean for 7, a gate
\* to units, a reducer, and an order of pairs that ignores all but two bits.
Slam(g, x) ==
  CASE g = "odd" -> IF x = Atom(9) THEN Bail ELSE IF x = Atom(7) THEN Atom(2)
                    ELSE Loob(Val(x) % 2 = 1)
    [] g = "half" -> IF x = Atom(9) THEN Bail
                     ELSE IF Val(x) % 2 = 1 THEN Nul ELSE Cell(Nul, Atom(Val(x) \div 2))
    [] g = "join" -> IF Hed(x) = Atom(9) THEN Bail ELSE Atom((2 * Val(Tal(x)) + Val(Hed(x))) % 64)
    [] g = "less" -> IF Hed(x) = Atom(9) THEN Bail
                     ELSE Loob(Val(Hed(x)) % 4 < Val(Tal(x)) % 4)

\* The sample a gate was made with.
Bunt == Nul

-----------------------------------------------------------------------------
(* Loops.                                                                  *)

Need(a) == IF IsCell(a) THEN Tal(a) ELSE Bail

RECURSIVE Lent(_)
Lent(a) == IF a = Nul THEN 0 ELSE IF IsCell(a) THEN 1 + Lent(Tal(a)) ELSE 0

RECURSIVE FlopOnto(_, _)
FlopOnto(t, b) == IF t = Nul THEN b
                  ELSE IF IsCell(t) THEN FlopOnto(Tal(t), Cell(Hed(t), b)) ELSE Bail
Flop(a) == FlopOnto(a, Nul)

RECURSIVE Weld(_, _)
Weld(a, b) == IF a = Nul THEN b
              ELSE IF IsCell(a) THEN Cell(Hed(a), Weld(Tal(a), b)) ELSE Bail

\* The last list is not copied.
RECURSIVE ZingOnto(_, _)
ZingOnto(i, t) == IF t = Nul THEN i
                  ELSE IF IsCell(t) THEN Weld(i, ZingOnto(Hed(t), Tal(t))) ELSE Bail
Zing(a) == IF a = Nul THEN Nul ELSE IF IsCell(a) THEN ZingOnto(Hed(a), Tal(a)) ELSE Bail

RECURSIVE Reap(_, _)
Reap(a, b) == IF a = 0 THEN Nul ELSE Cell(b, Reap(a - 1, b))

RECURSIVE Scag(_, _)
Scag(a, t) == IF a = 0 \/ t = Nul THEN Nul
              ELSE IF IsCell(t) THEN Cell(Hed(t), Scag(a - 1, Tal(t))) ELSE Bail

RECURSIVE Slag(_, _)
Slag(a, b) == IF a = 0 THEN b ELSE IF IsCell(b) THEN Slag(a - 1, Tal(b)) ELSE Nul

RECURSIVE Snag(_, _)
Snag(a, b) == IF ~IsCell(b) THEN Bail ELSE IF a = 0 THEN Hed(b) ELSE Snag(a - 1, Tal(b))

RECURSIVE Turn(_, _)
Turn(t, g) == IF t = Nul THEN Nul
              ELSE IF IsCell(t) THEN Cell(Slam(g, Hed(t)), Turn(Tal(t), g)) ELSE Bail

RECURSIVE Murn(_, _)
Murn(t, g) ==
  IF t = Nul THEN Nul
  ELSE IF ~IsCell(t) THEN Bail
  ELSE LET res == Slam(g, Hed(t))
       IN  IF res = Nul THEN Murn(Tal(t), g)
           ELSE IF IsCell(res) THEN Cell(Tal(res), Murn(Tal(t), g)) ELSE Bail

\* A test that is passed or not; anything else it gives is a crash.
RECURSIVE Sift(_, _, _)
Sift(t, g, want) ==
  IF t = Nul THEN Nul
  ELSE IF ~IsCell(t) THEN Bail
  ELSE CASE Slam(g, Hed(t)) = want -> Cell(Hed(t), Sift(Tal(t), g, want))
         [] Slam(g, Hed(t)) \in {Yes, No} \ {want} -> Sift(Tal(t), g, want)
         [] OTHER -> Bail
Skim(a, g) == Sift(a, g, Yes)
Skip(a, g) == Sift(a, g, No)
Skid(a, g) == Cell(Sift(a, g, Yes), Sift(a, g, No))

\* Until the test gives want, or the list ends.
RECURSIVE Seek(_, _, _)
Seek(a, g, want) ==
  IF a = Nul THEN Loob(want = No)
  ELSE IF ~IsCell(a) THEN Bail
  ELSE CASE Slam(g, Hed(a)) = want -> want
         [] Slam(g, Hed(a)) \in {Yes, No} \ {want} -> Seek(Tal(a), g, want)
         [] OTHER -> Bail
Levy(a, g) == Seek(a, g, No)
Lien(a, g) == Seek(a, g, Yes)

RECURSIVE RollFrom(_, _, _)
RollFrom(t, g, pro) == IF t = Nul THEN pro
                       ELSE IF ~IsCell(t) \/ pro = Bail THEN Bail
                       ELSE RollFrom(Tal(t), g, Slam(g, Cell(Hed(t), pro)))
Roll(a, g) == RollFrom(a, g, Bunt)

\* The list is pushed whole, then popped.
Reel(a, g) == IF Proper(a) THEN RollFrom(Flop(a), g, Bunt) ELSE Bail

RECURSIVE FindHere(_, _)
FindHere(n, h) == IF Hed(n) # Hed(h) THEN FALSE
                  ELSE IF Tal(n) = Nul THEN TRUE
                  ELSE IF Tal(h) = Nul THEN FALSE ELSE FindHere(Tal(n), Tal(h))
RECURSIVE FindFrom(_, _, _)
FindFrom(nedl, hstk, i) == IF hstk = Nul THEN Nul
                           ELSE IF FindHere(nedl, hstk) THEN Cell(Nul, Atom(i))
                           ELSE FindFrom(nedl, Tal(hstk), i + 1)
Find(nedl, hstk) == IF nedl = Nul THEN Nul ELSE FindFrom(nedl, hstk, 0)

\* Faulty: a list is split with the order the other way round.
RECURSIVE SplitSwapped(_, _, _)
SplitSwapped(a, g, second) ==
  IF a = Nul THEN Cell(Nul, Nul)
  ELSE LET acc == SplitSwapped(Tal(a), g, second)
           hoz == Slam(g, Cell(second, Hed(a)))
       IN  IF acc = Bail \/ hoz = Bail THEN Bail
           ELSE IF hoz = No THEN Cell(Cell(Hed(a), Hed(acc)), Tal(acc))
           ELSE Cell(Hed(acc), Cell(Hed(a), Tal(acc)))

\* The rest of a list, split by the order between each and the first.
RECURSIVE Split(_, _, _)
Split(a, g, second) ==
  IF a = Nul THEN Cell(Nul, Nul)
  ELSE IF ~IsCell(a) THEN Bail
  ELSE LET acc == Split(Tal(a), g, second)
           hoz == Slam(g, Cell(Hed(a), second))
       IN  IF acc = Bail \/ hoz = Bail THEN Bail
           ELSE IF hoz = Yes THEN Cell(Cell(Hed(a), Hed(acc)), Tal(acc))
           ELSE Cell(Hed(acc), Cell(Hed(a), Tal(acc)))
RECURSIVE Sort(_, _)
Sort(list, g) ==
  IF list = Nul THEN Nul
  ELSE IF ~IsCell(list) THEN Bail
  ELSE LET split == Split(Tal(list), g, Hed(list))
       IN  IF split = Bail THEN Bail
           ELSE Weld(Sort(Hed(split), g), Cell(Hed(list), Sort(Tal(split), g)))

-----------------------------------------------------------------------------
(* What each arm says of a list s.                                         *)

AllSlam(g, s) == [i \in DOMAIN s |-> Slam(g, s[i])]
Sifted(g, s, want) ==
  IF \E i \in DOMAIN s : Slam(g, s[i]) \notin {Yes, No} THEN Bail
  ELSE FromSeq(SelectSeq(s, LAMBDA x : Slam(g, x) = want))

\* The first test that decides, or crashes, settles it.
Sought(g, s, want) ==
  LET end == {i \in DOMAIN s : Slam(g, s[i]) \notin {Yes, No} \ {want}}
      first == CHOOSE i \in end : \A j \in end : i <= j
  IN  IF end = {} THEN Loob(want = No)
      ELSE IF Slam(g, s[first]) = want THEN want ELSE Bail

Murned(g, s) ==
  LET kept == SelectSeq(AllSlam(g, s), LAMBDA r : r # Nul)
  IN  IF Bail \in {kept[i] : i \in DOMAIN kept} THEN Bail
      ELSE FromSeq([i \in DOMAIN kept |-> Tal(kept[i])])

\* Sorted by rank: smaller first, and equals in the order they came.
Rank(g, s, i) == 1 + Cardinality({j \in DOMAIN s :
                   \/ Slam(g, Cell(s[j], s[i])) = Yes
                   \/ j < i /\ Slam(g, Cell(s[i], s[j])) = No})
Sorted(g, s) == FromSeq([r \in DOMAIN s |-> s[CHOOSE i \in DOMAIN s : Rank(g, s, i) = r]])

Found(n, s) ==
  LET at == {i \in 0 .. Len(s) - Len(n) : SubSeq(s, i + 1, i + Len(n)) = n}
  IN  IF n = << >> \/ at = {} THEN Nul ELSE Cell(Nul, Atom(CHOOSE i \in at : \A j \in at : i <= j))

\* Each jet of a list s, and of a second one n, next to what is said of them.
ListAgreesWith(s, n) ==
  LET l == FromSeq(s)
  IN  /\ Lent(l) = Len(s)
      /\ Flop(l) = FromSeq(Reverse(s))
      /\ Weld(l, FromSeq(n)) = FromSeq(s \o n)
      /\ Zing(FromSeq(<<l, FromSeq(n), Nul, l>>)) = FromSeq(s \o n \o s)
      /\ \A k \in 0 .. 3 :
           /\ Scag(k, l) = FromSeq(SubSeq(s, 1, Least(k, Len(s))))
           /\ Slag(k, l) = FromSeq(SubSeq(s, k + 1, Len(s)))
           /\ Snag(k, l) = IF k < Len(s) THEN s[k + 1] ELSE Bail
           /\ Reap(k, l) = FromSeq([i \in 1 .. k |-> l])
      /\ Turn(l, "odd") = FromSeq(AllSlam("odd", s))
      /\ Murn(l, "half") = Murned("half", s)
      /\ Skim(l, "odd") = Sifted("odd", s, Yes)
      /\ Skip(l, "odd") = Sifted("odd", s, No)
      /\ Skid(l, "odd") = Cell(Sifted("odd", s, Yes), Sifted("odd", s, No))
      /\ Levy(l, "odd") = Sought("odd", s, No)
      /\ Lien(l, "odd") = Sought("odd", s, Yes)
      /\ Roll(l, "join") = FoldLeft(LAMBDA p, x : IF p = Bail THEN Bail
                                                 ELSE Slam("join", Cell(x, p)), Bunt, s)
      /\ Reel(l, "join") = FoldRight(LAMBDA x, p : IF p = Bail THEN Bail
                                                  ELSE Slam("join", Cell(x, p)), s, Bunt)
      /\ Find(FromSeq(n), l) = Found(n, s)
      /\ Atom(9) \notin {s[i] : i \in DOMAIN s} => Sort(l, "less") = Sorted("less", s)
      /\ Need(l) = IF s = << >> THEN Bail ELSE FromSeq(Tail(s))
=============================================================================
