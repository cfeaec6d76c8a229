------------------------------- MODULE Nouns -------------------------------
(***************************************************************************)
(* Nouns: an atom n is <<n>>, a cell is the pair of its head and tail.     *)
(* A computation gives a noun, Bail when it crashes (u3m_bail(c3__exit)),  *)
(* Fail when the runtime gives it up (c3__fail), or Punt when a jet        *)
(* declines and the Nock of the arm is run instead (u3_none).              *)
(***************************************************************************)
EXTENDS Naturals, Sequences

Atom(n) == <<n>>
Nul == Atom(0)
Yes == Atom(0)
No == Atom(1)
Bail == << >>
Punt == <<0, 0, 0>>
Fail == <<0, 0, 0, 0>>

IsAtom(x) == Len(x) = 1
IsCell(x) == Len(x) = 2
IsNoun(x) == Len(x) \in {1, 2}
Val(x) == x[1]
Hed(x) == x[1]
Tal(x) == x[2]

\* A cell of two computations: the crash of one is the crash of both.
Cell(h, t) == IF IsNoun(h) THEN IF IsNoun(t) THEN <<h, t>> ELSE t ELSE h

\* A triple is a cell in a cell.
Trel(p, q, r) == Cell(p, Cell(q, r))

\* The loobean of a truth value.
Loob(b) == IF b THEN Yes ELSE No

-----------------------------------------------------------------------------
(* Lists: nul-terminated, though any noun may stand where one is expected. *)

RECURSIVE FromSeq(_)
FromSeq(s) == IF s = << >> THEN Nul ELSE Cell(s[1], FromSeq(Tail(s)))

RECURSIVE Items(_)
Items(l) == IF IsCell(l) THEN <<Hed(l)>> \o Items(Tal(l)) ELSE << >>

RECURSIVE Proper(_)
Proper(l) == IF IsCell(l) THEN Proper(Tal(l)) ELSE l = Nul

-----------------------------------------------------------------------------
(* Axes.  1 is the whole noun, 2a and 2a+1 the head and tail of a.         *)

RECURSIVE Dep(_)
Dep(a) == IF a < 2 THEN 0 ELSE 1 + Dep(a \div 2)

\* The part of an axis that names a side, 2 or 3, and what is left below it.
Cap(a) == 2 + ((a \div 2 ^ (Dep(a) - 1)) % 2)
Mas(a) == (a % (2 ^ (Dep(a) - 1))) + 2 ^ (Dep(a) - 1)

\* Follow the low d bits of a word, from its d-th down.
RECURSIVE Frag(_, _, _)
Frag(w, d, b) ==
  IF d = 0 THEN b
  ELSE IF ~IsCell(b) THEN Bail
  ELSE Frag(w, d - 1, IF (w \div 2 ^ (d - 1)) % 2 = 0 THEN Hed(b) ELSE Tal(b))

\* The axes of a list of wanted parts are cut between head and tail: the
\* first that points right begins the second half.
RightFrom(axes) ==
  LET right == {i \in DOMAIN axes : Cap(axes[i]) = 3}
  IN  IF right = {} THEN Len(axes)
      ELSE (CHOOSE i \in right : \A j \in right : i <= j) - 1

\* Several axes at once, in tree order: the parts, or Bail.
RECURSIVE Mean(_, _)
Mean(som, axes) ==
  IF axes = << >> THEN << >>
  ELSE IF axes = <<1>> THEN <<som>>
  ELSE IF ~IsCell(som) THEN <<Bail>>
  ELSE LET cut == RightFrom(axes)
           below == [i \in DOMAIN axes |-> Mas(axes[i])]
       IN  Mean(Hed(som), SubSeq(below, 1, cut))
             \o Mean(Tal(som), SubSeq(below, cut + 1, Len(below)))

\* Several edits at once, in tree order.
RECURSIVE Molt(_, _)
Molt(som, edits) ==
  IF edits = << >> THEN som
  ELSE IF Len(edits) = 1 /\ edits[1].axe = 1 THEN edits[1].som
  ELSE IF ~IsCell(som) THEN Bail
  ELSE LET cut == RightFrom([i \in DOMAIN edits |-> edits[i].axe])
           below == [i \in DOMAIN edits |-> [edits[i] EXCEPT !.axe = Mas(@)]]
       IN  Cell(Molt(Hed(som), SubSeq(below, 1, cut)),
                Molt(Tal(som), SubSeq(below, cut + 1, Len(below))))

\* One edit, of a copy of the path to it.
RECURSIVE Edit(_, _, _)
Edit(big, axe, som) ==
  IF axe = 0 THEN Bail
  ELSE IF axe = 1 THEN som
  ELSE IF ~IsCell(big) THEN Bail
  ELSE IF Cap(axe) = 2 THEN Cell(Edit(Hed(big), Mas(axe), som), Tal(big))
  ELSE Cell(Hed(big), Edit(Tal(big), Mas(axe), som))
=============================================================================
