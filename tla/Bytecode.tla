------------------------------ MODULE Bytecode ------------------------------
(***************************************************************************)
(* The compiler of Nock (nock.c): a formula becomes a list of operations,  *)
(* and the list a string of bytes.  Every operation comes in two kinds,    *)
(* one that leaves its subject on the stack and one that loses it, and an  *)
(* argument that a byte cannot hold makes an operation wider.              *)
(***************************************************************************)
EXTENDS Nouns, SequencesExt

CONSTANT Byte  \* the values a byte can take (256 in the source)

\* Tags of hints: a trace, a clock, and the others by name.
Spot == Atom(101)
Bout == Atom(102)
Live == Atom(103)
Slog == Atom(104)
Fast == Atom(105)
Memo == Atom(106)

-----------------------------------------------------------------------------
(* Operations.                                                             *)

Op(code) == [op |-> code, arg |-> Nul, far |-> 0]
OpOf(code, arg) == [op |-> code, arg |-> arg, far |-> 0]
Skip(code, n) == [op |-> code, arg |-> Nul, far |-> n]

\* An assertion fails: the process ends, and whatever else it was to compute.
Abort == <<0, 0, 0, 0, 0, 0>>

\* A formula the compiler gives up (u3m_bail(c3__exit)), or fails an assertion on.
Exit == <<Op("exit")>>
Asserted == <<Op("abort")>>
Refused(ops) == SelectSeq(ops, LAMBDA o : o.op \in {"exit", "abort"})

\* The operation of an argument that fits a byte, two bytes, or neither.
Sized(x, b, s, l) ==
  IF IsCell(x) THEN OpOf(l, x)
  ELSE IF Val(x) < Byte THEN OpOf(b, x)
  ELSE IF Val(x) < Byte * Byte THEN OpOf(s, x)
  ELSE OpOf(l, x)

Lit(x, los) ==
  CASE x = Atom(0) -> Op(IF los THEN "lil0" ELSE "lit0")
    [] x = Atom(1) -> Op(IF los THEN "lil1" ELSE "lit1")
    [] OTHER -> IF los THEN Sized(x, "lilb", "lils", "libl") ELSE Sized(x, "litb", "lits", "libk")

FragOps(x, los) ==
  IF IsCell(x) THEN Exit
  ELSE CASE x = Atom(0) -> <<Op("bail")>>
         [] x = Atom(1) -> IF los THEN << >> ELSE <<Op("copy")>>
         [] x = Atom(2) -> <<Op(IF los THEN "held" ELSE "head")>>
         [] x = Atom(3) -> <<Op(IF los THEN "tall" ELSE "tail")>>
         [] OTHER -> <<IF los THEN Sized(x, "fabl", "fasl", "fibl")
                       ELSE Sized(x, "fabk", "fask", "fibk")>>

EditOp(x, los) ==
  CASE x = Atom(2) -> Op(IF los THEN "muth" ELSE "kuth")
    [] x = Atom(3) -> Op(IF los THEN "mutt" ELSE "kutt")
    [] x = Atom(6) -> Op(IF los THEN "musm" ELSE "kusm")
    [] OTHER -> IF los THEN Sized(x, "mutb", "muts", "mitb") ELSE Sized(x, "kutb", "kuts", "kitb")

\* What an equality with a constant needs.
SameOp(x) == CASE x = Atom(0) -> Op("sam0")
               [] x = Atom(1) -> Op("sam1")
               [] OTHER -> Sized(x, "samb", "sams", "sanb")

\* The shape of a formula.  A branch that does not have it is not compiled.
RECURSIVE Formulaic(_)
Formulaic(fol) ==
  IF IsAtom(fol) THEN FALSE
  ELSE LET op == Hed(fol)
           ar == Tal(fol)
           Both == IsCell(ar) /\ Formulaic(Hed(ar)) /\ Formulaic(Tal(ar))
       IN  IF IsCell(op) THEN Formulaic(op) /\ Formulaic(ar)
           ELSE CASE Val(op) = 0 -> IsAtom(ar)
                  [] Val(op) = 1 -> TRUE
                  [] Val(op) \in {3, 4} -> Formulaic(ar)
                  [] Val(op) \in {2, 5, 7, 8, 12} -> Both
                  [] Val(op) = 6 -> /\ IsCell(ar) /\ IsCell(Tal(ar))
                                    /\ Formulaic(Hed(ar))
                                    /\ Formulaic(Hed(Tal(ar))) \/ Formulaic(Tal(Tal(ar)))
                  [] Val(op) = 9 -> IsCell(ar) /\ IsAtom(Hed(ar)) /\ Formulaic(Tal(ar))
                  [] Val(op) = 10 -> /\ IsCell(ar) /\ IsCell(Hed(ar)) /\ IsAtom(Hed(Hed(ar)))
                                     /\ Formulaic(Tal(Hed(ar))) /\ Formulaic(Tal(ar))
                  [] Val(op) = 11 -> /\ IsCell(ar) /\ Formulaic(Tal(ar))
                                     /\ \/ IsAtom(Hed(ar))
                                        \/ IsAtom(Hed(Hed(ar))) /\ Formulaic(Tal(Hed(ar)))
                  [] OTHER -> FALSE

-----------------------------------------------------------------------------
(* Compilation: los, the operations lose the subject; tel, nothing is left *)
(* to do after them in this program.                                       *)

RECURSIVE Comp(_, _, _)

\* Two formulas on one subject, and what to do with both products.
Pairwise(a, b, op) == Comp(a, FALSE, FALSE) \o <<Op("swap")>> \o Comp(b, FALSE, FALSE) \o <<op>>

CompSame(a, b, los) ==
  LET one == IsCell(a) /\ Hed(a) = Atom(1)
      two == IsCell(b) /\ Hed(b) = Atom(1)
  IN  IF IsAtom(a) \/ IsAtom(b) THEN Exit
      ELSE CASE one /\ two -> <<Lit(Loob(Tal(a) = Tal(b)), los)>>
             [] ~one /\ ~two -> Pairwise(a, b, Op(IF los THEN "salm" ELSE "same"))
             [] OTHER -> Comp(IF one THEN b ELSE a, los, FALSE)
                           \o <<SameOp(Tal(IF one THEN a ELSE b))>>

CompIf(test, yes, no, los, tel) ==
  LET yep == IF Formulaic(yes) THEN Comp(yes, los, tel) ELSE <<Op("bail")>>
      nop == IF Formulaic(no) THEN Comp(no, los, tel) ELSE <<Op("bail")>>
  IN  Comp(test, FALSE, FALSE)
        \o (IF ~Formulaic(yes) /\ ~Formulaic(no) THEN Exit
            ELSE <<Skip("sbin", Len(yep) + 1)>> \o yep
                   \o <<Skip("sbip", Len(nop))>> \o nop)

\* An arm of the battery is called by its place there, any other by value.  Which
\* it is (u3qc_cap), is asked first, of any axis.
CompKick(axe, core, los, tel) ==
  IF IsCell(axe) THEN Asserted
  ELSE IF axe = Nul THEN Exit
  ELSE IF axe = Atom(1) \/ Cap(Val(axe)) = 3
       THEN Comp(Trel(Atom(7), core, Trel(Atom(2), Cell(Nul, Atom(1)), Cell(Nul, axe))), los, tel)
       ELSE Comp(core, tel \/ los, FALSE) \o <<OpOf(IF tel THEN "ticb" ELSE "kicb", axe)>>

\* Around the formula of a hint that is told of its start and its end.
Timed(start, end, next, los) ==
  LET fen == Comp(next, los, FALSE) \o <<end, Skip("sbip", 1)>>
  IN  <<start, Skip("sbin", Len(fen))>> \o fen \o <<Op(IF los THEN "toss" ELSE "swap")>>

MemoOps(next, los) ==
  LET mem == Comp(next, TRUE, FALSE) \o <<Op("save")>>
  IN  <<[op |-> IF los THEN "slib" ELSE "skib", arg |-> next, far |-> Len(mem)]>> \o mem

\* Faulty: what is below a trace may end the program.
BintTail(hint, next, los, tel) ==
  IF IsAtom(hint) THEN Comp(next, los, tel)
  ELSE Comp(Tal(hint), FALSE, FALSE) \o
       (IF Hed(hint) = Spot THEN <<OpOf("bush", Spot)>> \o Comp(next, los, tel) \o <<Op("drop")>>
        ELSE <<Op("toss")>> \o Comp(next, los, tel))

\* (The formula of a clock is compiled before its clue.)
Bint(hint, next, los, tel) ==
  IF IsAtom(hint)
  THEN IF hint = Bout THEN Timed(OpOf("hilb", Cell(hint, next)), Op(IF los THEN "hill" ELSE "hilk"), next, los)
       ELSE Comp(next, los, tel)
  ELSE LET clue == Comp(Tal(hint), FALSE, FALSE)
           timed == Timed(OpOf("hinb", Cell(Bout, next)), Op(IF los THEN "hinl" ELSE "hink"), next, los)
       IN  CASE Hed(hint) = Bout -> IF Refused(timed) = << >> THEN clue \o timed ELSE timed
             [] Hed(hint) = Spot -> clue \o <<OpOf("bush", Spot)>> \o Comp(next, los, FALSE) \o <<Op("drop")>>
             [] Hed(hint) = Live -> clue \o <<Op("heck")>> \o Comp(next, los, tel)
             [] Hed(hint) = Slog -> clue \o <<Op("slog")>> \o Comp(next, los, tel)
             [] Hed(hint) = Fast -> clue \o <<Op("swap")>> \o Comp(next, FALSE, FALSE)
                                      \o <<Op(IF los THEN "balt" ELSE "bast")>>
             [] Hed(hint) = Memo -> clue \o <<Op("toss")>> \o MemoOps(next, los)
             [] OTHER -> clue \o <<Op("toss")>> \o Comp(next, los, tel)

Comp(fol, los, tel) ==
  IF IsAtom(fol) THEN Exit
  ELSE LET op == Hed(fol)
           ar == Tal(fol)
           a == Hed(ar)
           b == Tal(ar)
       IN  IF IsCell(op) THEN Pairwise(op, ar, Op(IF los THEN "ault" ELSE "auto"))
           ELSE CASE Val(op) = 0 -> FragOps(ar, los)
                  [] Val(op) = 1 -> <<Lit(ar, los)>>
                  [] Val(op) = 3 -> Comp(ar, los, FALSE) \o <<Op("deep")>>
                  [] Val(op) = 4 -> Comp(ar, los, FALSE) \o <<Op("bump")>>
                  [] Val(op) > 12 \/ IsAtom(ar) -> Exit
                  [] Val(op) = 2 -> Pairwise(a, b, Op(IF tel THEN "noct" ELSE IF los THEN "nolk" ELSE "nock"))
                  [] Val(op) = 5 -> CompSame(a, b, los)
                  [] Val(op) = 6 -> IF IsAtom(b) THEN Exit ELSE CompIf(a, Hed(b), Tal(b), los, tel)
                  [] Val(op) = 7 -> Comp(a, los, FALSE) \o Comp(b, TRUE, tel)
                  [] Val(op) = 8 -> Comp(a, FALSE, FALSE) \o <<Op(IF los THEN "snol" ELSE "snoc")>>
                                      \o Comp(b, TRUE, tel)
                  [] Val(op) = 9 -> CompKick(a, b, los, tel)
                  [] Val(op) = 10 -> IF IsAtom(a) THEN Exit ELSE Pairwise(b, Tal(a), EditOp(Hed(a), los))
                  [] Val(op) = 11 -> Bint(a, b, los, tel)
                  [] Val(op) = 12 -> Pairwise(a, b, Op(IF los THEN "wils" ELSE "wish"))

-----------------------------------------------------------------------------
(* Assembly.                                                               *)

Direct8 == {"fabk", "fabl", "litb", "lilb", "mutb", "kutb", "samb"}
Direct16 == {"fask", "fasl", "lits", "lils", "muts", "kuts", "sams"}
Literal == {"fibk", "fibl", "libk", "libl", "bush", "sanb", "kitb", "mitb", "hilb", "hinb"}
Call == {"kicb", "ticb"}
Site == {"bast", "balt"}
Save == {"skib", "slib"}

\* The next wider operation.
Wider == [fibk |-> "fisk", fibl |-> "fisl", libk |-> "lisk", libl |-> "lisl", sanb |-> "sans",
          kicb |-> "kics", ticb |-> "tics", bush |-> "sush", bast |-> "sast", balt |-> "salt",
          skib |-> "skis", slib |-> "slis", hilb |-> "hils", hinb |-> "hins", kitb |-> "kits",
          mitb |-> "mits", sbip |-> "sips", sbin |-> "sins"]
Widest == [sbip |-> "swip", sbin |-> "swin"]

Short(n) == <<n % Byte, n \div Byte>>
Quad(n) == Short(n % (Byte * Byte)) \o Short(n \div (Byte * Byte))

\* An index, of a byte or of two.
Indexed(code, i) == IF i < Byte THEN <<code, i>> ELSE <<Wider[code]>> \o Short(i)

SkipBytes(code, n) == IF n < Byte THEN <<code, n>>
                      ELSE IF n < Byte * Byte THEN <<Wider[code]>> \o Short(n)
                      ELSE <<Widest[code]>> \o Quad(n)

\* Tables are filled from the last operation back: the place in one of the
\* i-th, and the whole of one.
Place(ops, i, kind) == Cardinality({j \in i + 1 .. Len(ops) : ops[j].op \in kind})
Table(ops, kind) == Reverse(SelectSeq(ops, LAMBDA o : o.op \in kind))
Args(ops, kind) == [i \in DOMAIN Table(ops, kind) |-> Table(ops, kind)[i].arg]

RECURSIVE Bytes(_, _)

\* The bytes of as many operations as the i-th skips.
Sip(ops, i) == Len(FlattenSeq([k \in 1 .. ops[i].far |-> Bytes(ops, i + k)]))

Bytes(ops, i) ==
  LET o == ops[i]
  IN  CASE o.op \in Direct8 -> <<o.op, Val(o.arg)>>
        [] o.op \in Direct16 -> <<o.op>> \o Short(Val(o.arg))
        [] o.op \in Literal -> Indexed(o.op, Place(ops, i, Literal))
        [] o.op \in Call -> Indexed(o.op, Place(ops, i, Call))
        [] o.op \in Site -> Indexed(o.op, Place(ops, i, Site))
        [] o.op \in Save -> Indexed(o.op, Place(ops, i, Save))
        [] o.op \in {"sbip", "sbin"} -> SkipBytes(o.op, Sip(ops, i))
        [] OTHER -> <<o.op>>

\* The memos of a program: how far each one's hit goes, and what it is of.
MemosOf(ops) ==
  LET at == Reverse(SelectSeq([i \in DOMAIN ops |-> i], LAMBDA i : ops[i].op \in Save))
  IN  [n \in DOMAIN at |-> [sip |-> Sip(ops, at[n]), key |-> ops[at[n]].arg]]

\* The program of a formula, ended by a halt.
Bite(fol) ==
  LET ops == Comp(fol, TRUE, TRUE)
  IN  [fol |-> fol,
       byc |-> FlattenSeq([i \in DOMAIN ops |-> Bytes(ops, i)]) \o <<"halt">>,
       lit |-> Args(ops, Literal), cal |-> Args(ops, Call), mem |-> MemosOf(ops)]

Compiles(fol) == Refused(Comp(fol, TRUE, TRUE)) = << >>

\* What comes of a formula that does not: the first that was refused says.
Verdict(fol) == IF Refused(Comp(fol, TRUE, TRUE))[1].op = "abort" THEN Abort ELSE Bail
=============================================================================
