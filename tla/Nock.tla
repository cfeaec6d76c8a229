-------------------------------- MODULE Nock --------------------------------
(***************************************************************************)
(* The Nock interpreter (nock.c): a machine with one stack, for subjects,  *)
(* products and the frames of programs that wait for one.  Call sites keep *)
(* the program of the battery they last met, and a memo keeps products, so *)
(* a sequence of computations is run on one machine, until an assertion    *)
(* ends its process.                                                       *)
(***************************************************************************)
EXTENDS Bytecode

CONSTANTS Calls,  \* sequences of [bus, fol]: the computations of a run
          Fuel    \* the depth of a computation that is looked at

VARIABLES todo,   \* computations still to be run; the first is running
          pog,    \* the program
          ip,     \* the next byte of it
          stack,  \* nouns and frames, the last on top
          tax,    \* the depth of the stack trace
          sites,  \* <<formula, call site>> -> the battery and formula it holds
          memos,  \* <<subject, formula>> -> product
          product \* of the computation, once it ends

nockVars == <<todo, pog, ip, stack, tax, sites, memos, product>>
machine == <<pog, ip, stack, tax>>
caches == <<sites, memos>>

Idle == [fol |-> Nul, byc |-> << >>, lit |-> << >>, cal |-> << >>, mem |-> << >>]
None == <<0, 0, 0, 0, 0>>
Frame(p, i) == <<"frame", p, i>>
IsFrame(x) == Len(x) = 3

-----------------------------------------------------------------------------
(* What a formula gives (+mink of hoon.hoon); and, if quirks, what nock.c  *)
(* gives in its place where it was made to differ or fails an assertion.   *)

Axis(a, x) == IF a = 0 THEN Bail ELSE Frag(a, Dep(a), x)

\* The namespace holds whatever is asked of it at 0.
Scry(ref, path) == IF ref = Nul THEN path ELSE Bail

Bound(x, F(_)) == IF IsNoun(x) THEN F(x) ELSE x

\* Quirk: the axis of an edit is not looked at before there is a cell to edit
\* (u3i_edit, u3qc_mas).
EditAt(x, axe, y, quirks) ==
  IF IsAtom(axe) THEN Edit(x, Val(axe), y)
  ELSE IF quirks /\ IsCell(x) THEN Abort ELSE Bail

\* Quirk: both branches of an if are compiled, the one not taken too; one with
\* the shape of a formula may still be refused, as a call at axis 0 is
\* (_n_formulaic, u3qc_cap).
Branches(yes, no, quirks) ==
  quirks => \A f \in {yes, no} : Formulaic(f) => Compiles(f)

\* Quirk: a hint's tag may be a cell (_n_bint), and a timed formula's clue must
\* be one (_n_hint_hind).
Hinted(hint, Of(_), next, quirks) ==
  IF IsAtom(hint) THEN Of(next)
  ELSE IF IsCell(Hed(hint)) /\ ~quirks THEN Bail
  ELSE Bound(Of(Tal(hint)), LAMBDA clue : Bound(Of(next), LAMBDA x :
         IF quirks /\ Hed(hint) = Bout /\ IsAtom(clue) THEN Abort ELSE x))

RECURSIVE Mink(_, _, _, _)
Mink(bus, fol, n, quirks) ==
  IF n = 0 THEN Fail
  ELSE IF IsAtom(fol) THEN Bail
  ELSE LET op == Hed(fol)
           ar == Tal(fol)
           a == Hed(ar)
           b == Tal(ar)
           Run(x, f) == Mink(x, f, n - 1, quirks)
           Of(f) == Run(bus, f)
           Both(F(_, _)) == Bound(Of(a), LAMBDA x : Bound(Of(b), LAMBDA y : F(x, y)))
       IN  IF IsCell(op) THEN Bound(Of(op), LAMBDA x : Bound(Of(ar), LAMBDA y : Cell(x, y)))
           ELSE CASE Val(op) = 0 -> IF IsAtom(ar) THEN Axis(Val(ar), bus) ELSE Bail
                  [] Val(op) = 1 -> ar
                  [] Val(op) = 3 -> Bound(Of(ar), LAMBDA x : Loob(IsCell(x)))
                  [] Val(op) = 4 -> Bound(Of(ar), LAMBDA x : IF IsCell(x) THEN Bail ELSE Atom(Val(x) + 1))
                  [] Val(op) > 12 \/ IsAtom(ar) -> Bail
                  [] Val(op) = 2 -> Both(LAMBDA x, y : Run(x, y))
                  [] Val(op) = 5 -> Both(LAMBDA x, y : Loob(x = y))
                  [] Val(op) = 6 -> IF IsAtom(b) THEN Bail
                                    ELSE IF ~Branches(Hed(b), Tal(b), quirks) THEN Bail
                                    ELSE Bound(Of(a), LAMBDA t : IF t = Yes THEN Of(Hed(b))
                                                                 ELSE IF t = No THEN Of(Tal(b)) ELSE Bail)
                  [] Val(op) = 7 -> Bound(Of(a), LAMBDA x : Run(x, b))
                  [] Val(op) = 8 -> Bound(Of(a), LAMBDA x : Run(Cell(x, bus), b))
                  [] Val(op) = 9 -> IF IsCell(a) THEN (IF quirks THEN Abort ELSE Bail)
                                    ELSE Bound(Of(b), LAMBDA core :
                                           Bound(Axis(Val(a), core), LAMBDA f : Run(core, f)))
                  [] Val(op) = 10 -> IF IsAtom(a) THEN Bail
                                     ELSE IF IsCell(Hed(a)) /\ ~quirks THEN Bail
                                     ELSE Bound(Of(b), LAMBDA x : Bound(Of(Tal(a)), LAMBDA y :
                                            EditAt(x, Hed(a), y, quirks)))
                  [] Val(op) = 11 -> Hinted(a, Of, b, quirks)
                  [] Val(op) = 12 -> Both(LAMBDA x, y : Scry(x, y))

-----------------------------------------------------------------------------
(* Steps.                                                                  *)

Top(i) == stack[Len(stack) + 1 - i]

\* The n on top, replaced.
Over(n, xs) == SubSeq(stack, 1, Len(stack) - n) \o xs

Running == product = None /\ pog # Idle
Here == pog.byc[ip + 1]
At8(p) == p.byc[ip + 2]
At16(p) == p.byc[ip + 2] + Byte * p.byc[ip + 3]
At32(p) == At16(p) + Byte * Byte * (p.byc[ip + 4] + Byte * p.byc[ip + 5])

\* Bytes: the operation alone, with a byte, with two, with four.
Width(codes) == IF Here \in codes.b THEN 2 ELSE IF Here \in codes.s THEN 3 ELSE 5
Arg(codes) == IF Here \in codes.b THEN At8(pog) ELSE IF Here \in codes.s THEN At16(pog) ELSE At32(pog)

Ends(x) == /\ product' = x
           /\ pog' = Idle /\ ip' = 0 /\ stack' = << >> /\ tax' = 0
           /\ UNCHANGED <<todo, caches>>

\* u3m_bail: the stacks are those of the caller again.
Crash == Ends(Bail)

\* The n on top give way to the computation x, and w bytes are done.
Give(n, x, w) ==
  IF ~IsNoun(x) THEN Ends(x)
  ELSE stack' = Over(n, <<x>>) /\ ip' = ip + w /\ UNCHANGED <<todo, pog, tax, caches, product>>

\* The stack after an operation that cannot crash.
Leave(s, w) == stack' = s /\ ip' = ip + w /\ UNCHANGED <<todo, pog, tax, caches, product>>

Begin ==
  /\ todo # << >> /\ ~Running /\ product # Abort
  /\ IF product = None THEN todo' = todo ELSE todo' = Tail(todo)
  /\ IF todo' = << >> THEN UNCHANGED <<machine, product>>
     ELSE LET call == Head(todo')
          IN  IF Compiles(call.fol)
              THEN /\ pog' = Bite(call.fol) /\ ip' = 0 /\ stack' = <<call.bus>> /\ tax' = 0
                   /\ product' = None
              ELSE product' = Verdict(call.fol) /\ UNCHANGED machine
  /\ UNCHANGED caches

Halt ==
  /\ Running /\ Here = "halt"
  /\ IF Len(stack) = 1 THEN Ends(Top(1))
     ELSE /\ pog' = Top(2)[2] /\ ip' = Top(2)[3]
          /\ stack' = Over(2, <<Top(1)>>)
          /\ UNCHANGED <<todo, tax, caches, product>>

Bailed == Running /\ Here = "bail" /\ Crash

Shuffle ==
  /\ Running
  /\ \/ Here = "copy" /\ Leave(Over(0, <<Top(1)>>), 1)
     \/ Here = "swap" /\ Leave(Over(2, <<Top(1), Top(2)>>), 1)
     \/ Here = "toss" /\ Leave(Over(1, << >>), 1)

\* [tel bus hed], [bus hed].
Pair ==
  /\ Running
  /\ \/ Here = "auto" /\ Leave(Over(3, <<Top(2), Cell(Top(3), Top(1))>>), 1)
     \/ Here = "ault" /\ Leave(Over(3, <<Cell(Top(3), Top(1))>>), 1)
     \/ Here = "snoc" /\ Leave(Over(2, <<Top(2), Cell(Top(1), Top(2))>>), 1)
     \/ Here = "snol" /\ Leave(Over(2, <<Cell(Top(1), Top(2))>>), 1)

\* A part of the subject, on top of it or in its place.
Part(x, los, w) == IF los THEN Give(1, x, w) ELSE Give(0, x, w)
FabKeep == [b |-> {"fabk"}, s |-> {"fask"}]
FabLose == [b |-> {"fabl"}, s |-> {"fasl"}]
FibKeep == [b |-> {"fibk"}, s |-> {"fisk"}]
FibLose == [b |-> {"fibl"}, s |-> {"fisl"}]
All(codes) == codes.b \cup codes.s

Fragment ==
  /\ Running
  /\ \/ Here \in {"head", "held"} /\ Part(Axis(2, Top(1)), Here = "held", 1)
     \/ Here \in {"tail", "tall"} /\ Part(Axis(3, Top(1)), Here = "tall", 1)
     \/ \E c \in {FabKeep, FabLose} :
          Here \in All(c) /\ Part(Axis(Arg(c), Top(1)), c = FabLose, Width(c))
     \/ \E c \in {FibKeep, FibLose} :
          Here \in All(c) /\ Part(Axis(Val(pog.lit[Arg(c) + 1]), Top(1)), c = FibLose, Width(c))

LitBytes == [b |-> {"litb", "lilb"}, s |-> {"lits", "lils"}]
LitTable == [b |-> {"libk", "libl"}, s |-> {"lisk", "lisl"}]
Loses == {"lil0", "lil1", "lilb", "lils", "libl", "lisl"}
Constant ==
  /\ Running
  /\ \/ Here \in {"lit0", "lil0"} /\ Part(Atom(0), Here \in Loses, 1)
     \/ Here \in {"lit1", "lil1"} /\ Part(Atom(1), Here \in Loses, 1)
     \/ Here \in All(LitBytes) /\ Part(Atom(Arg(LitBytes)), Here \in Loses, Width(LitBytes))
     \/ Here \in All(LitTable) /\ Part(pog.lit[Arg(LitTable) + 1], Here \in Loses, Width(LitTable))

\* Into the program p, on the subject x: the rest of this one waits in a
\* frame, or, at its end, is left.
Enter(n, p, x, frames) ==
  /\ pog' = p /\ ip' = 0
  /\ stack' = Over(n, frames \o <<x>>)
  /\ UNCHANGED <<todo, tax, memos, product>>

\* [fol old bus]
Nocked ==
  /\ Running /\ Here \in {"nock", "nolk", "noct"}
  /\ IF ~Compiles(Top(1)) THEN Ends(Verdict(Top(1)))
     ELSE LET waits == IF Here = "noct" THEN << >> ELSE <<Frame(pog, ip + 1)>>
              keeps == IF Here = "nock" THEN <<Top(2)>> ELSE << >>
          IN  Enter(3, Bite(Top(1)), Top(3), keeps \o waits) /\ UNCHANGED sites

Kicks == [b |-> {"kicb", "ticb"}, s |-> {"kics", "tics"}]
\* Faulty: a site's program is used whatever the battery is.
KickStale ==
  /\ Running /\ Here \in All(Kicks)
  /\ LET core == Top(1)
         site == <<pog.fol, Arg(Kicks)>>
         fol == IF site \in DOMAIN sites THEN sites[site].fol
                ELSE Axis(Val(pog.cal[Arg(Kicks) + 1]), core)
         waits == IF Here \in {"ticb", "tics"} THEN << >> ELSE <<Frame(pog, ip + Width(Kicks))>>
     IN  IF ~IsNoun(fol) THEN Crash
         ELSE IF ~Compiles(fol) THEN Ends(Verdict(fol))
         ELSE /\ Enter(1, Bite(fol), core, waits)
              /\ sites' = [s \in DOMAIN sites \cup {site} |->
                            IF s = site THEN [bat |-> Hed(core), fol |-> fol] ELSE sites[s]]

Kick ==
  /\ Running /\ Here \in All(Kicks)
  /\ LET core == Top(1)
         site == <<pog.fol, Arg(Kicks)>>
         axe == pog.cal[Arg(Kicks) + 1]
         locked == site \in DOMAIN sites /\ IsCell(core) /\ sites[site].bat = Hed(core)
         fol == IF locked THEN sites[site].fol ELSE Axis(Val(axe), core)
         waits == IF Here \in {"ticb", "tics"} THEN << >> ELSE <<Frame(pog, ip + Width(Kicks))>>
     IN  IF ~IsNoun(fol) THEN Crash
         ELSE IF ~Compiles(fol) THEN Ends(Verdict(fol))
         ELSE /\ Enter(1, Bite(fol), core, waits)
              /\ sites' = [s \in DOMAIN sites \cup {site} |->
                            IF s = site THEN [bat |-> Hed(core), fol |-> fol] ELSE sites[s]]

Unary ==
  /\ Running
  /\ \/ Here = "deep" /\ Give(1, Loob(IsCell(Top(1))), 1)
     \/ Here = "bump" /\ Give(1, IF IsCell(Top(1)) THEN Bail ELSE Atom(Val(Top(1)) + 1), 1)

SamBytes == [b |-> {"samb"}, s |-> {"sams"}]
SamTable == [b |-> {"sanb"}, s |-> {"sans"}]
Equal ==
  /\ Running
  /\ \/ Here = "sam0" /\ Give(1, Loob(Top(1) = Atom(0)), 1)
     \/ Here = "sam1" /\ Give(1, Loob(Top(1) = Atom(1)), 1)
     \/ Here \in All(SamBytes) /\ Give(1, Loob(Top(1) = Atom(Arg(SamBytes))), Width(SamBytes))
     \/ Here \in All(SamTable) /\ Give(1, Loob(Top(1) = pog.lit[Arg(SamTable) + 1]), Width(SamTable))
     \/ Here = "same" /\ Leave(Over(3, <<Top(2), Loob(Top(1) = Top(3))>>), 1)
     \/ Here = "salm" /\ Give(3, Loob(Top(1) = Top(3)), 1)

Skips == [b |-> {"sbip", "sbin"}, s |-> {"sips", "sins"}, l |-> {"swip", "swin"}]
Jump ==
  /\ Running
  /\ \/ /\ Here \in {"sbip", "sips", "swip"}
        /\ Leave(stack, Width(Skips) + Arg(Skips))
     \/ /\ Here \in {"sbin", "sins", "swin"}
        /\ IF Top(1) \notin {Yes, No} THEN Crash
           ELSE Leave(Over(1, << >>), Width(Skips) + (IF Top(1) = No THEN Arg(Skips) ELSE 0))

\* [gof bus ref]
Wish ==
  /\ Running
  /\ \/ Here = "wils" /\ Give(3, Scry(Top(3), Top(1)), 1)
     \/ Here = "wish" /\ (LET x == Scry(Top(3), Top(1))
                          IN  IF IsNoun(x) THEN Leave(Over(3, <<Top(2), x>>), 1) ELSE Crash)

Bush == [b |-> {"bush"}, s |-> {"sush"}]
Trace ==
  /\ Running
  /\ \/ /\ Here \in All(Bush)
        /\ stack' = Over(1, << >>) /\ tax' = tax + 1 /\ ip' = ip + Width(Bush)
        /\ UNCHANGED <<todo, pog, caches, product>>
     \/ /\ Here = "drop"
        /\ tax' = tax - 1 /\ ip' = ip + 1
        /\ UNCHANGED <<todo, pog, stack, caches, product>>

Aside == Running /\ Here \in {"heck", "slog"} /\ Leave(Over(1, << >>), 1)

\* [pro bus clu], to the jet dashboard, which gives nothing back.
Fasts == [b |-> {"bast", "balt"}, s |-> {"sast", "salt"}]
Mine ==
  /\ Running /\ Here \in All(Fasts)
  /\ Leave(IF Here \in {"balt", "salt"} THEN Over(3, <<Top(1)>>) ELSE Over(3, <<Top(2), Top(1)>>),
           Width(Fasts))

Skim == [b |-> {"skib", "slib"}, s |-> {"skis", "slis"}]
Recall ==
  /\ Running /\ Here \in All(Skim)
  /\ LET memo == pog.mem[Arg(Skim) + 1]
         key == <<Top(1), memo.key>>
         n == IF Here \in {"slib", "slis"} THEN 1 ELSE 0
     IN  IF key \in DOMAIN memos
         THEN Leave(Over(n, <<memos[key]>>), Width(Skim) + memo.sip)
         ELSE Leave(Over(n, <<Cell(Top(1), memo.key), Top(1)>>), Width(Skim))

Saved ==
  /\ Running /\ Here = "save"
  /\ stack' = Over(2, <<Top(1)>>) /\ ip' = ip + 1
  /\ memos' = [k \in DOMAIN memos \cup {Top(2)} |-> IF k = Top(2) THEN Top(1) ELSE memos[k]]
  /\ UNCHANGED <<todo, pog, tax, sites, product>>

\* Before a timed formula: a token, with the clue if there is one, the subject,
\* and whether to go on.  The time is left out.
Fores == [b |-> {"hilb", "hinb"}, s |-> {"hils", "hins"}]
Fore ==
  /\ Running /\ Here \in All(Fores)
  /\ Leave(IF Here \in {"hilb", "hils"} THEN Over(1, <<Cell(Bout, Nul), Top(1), Yes>>)
           ELSE Over(2, <<Trel(Bout, Top(1), Nul), Top(2), Yes>>), Width(Fores))

\* [pro bus tok], [pro tok]: the report needs a clue of two parts.
Hind ==
  /\ Running
  /\ \/ Here = "hilk" /\ Leave(Over(3, <<Top(2), Top(1)>>), 1)
     \/ Here = "hill" /\ Leave(Over(2, <<Top(1)>>), 1)
     \/ /\ Here \in {"hink", "hinl"}
        /\ LET keeps == Here = "hink"
               token == IF keeps THEN Top(3) ELSE Top(2)
           IN  IF IsAtom(Hed(Tal(token))) THEN Ends(Abort)
               ELSE Leave(IF keeps THEN Over(3, <<Top(2), Top(1)>>) ELSE Over(2, <<Top(1)>>), 1)

\* [val bus tar]
Edited(x, w) == IF ~IsNoun(x) THEN Ends(x)
                ELSE Leave(IF Here \in {"kuth", "kutt", "kusm", "kutb", "kuts", "kitb", "kits"}
                           THEN Over(3, <<Top(2), x>>) ELSE Over(3, <<x>>), w)
EditBytes == [b |-> {"kutb", "mutb"}, s |-> {"kuts", "muts"}]
EditTable == [b |-> {"kitb", "mitb"}, s |-> {"kits", "mits"}]
Mutate ==
  /\ Running
  /\ \/ Here \in {"kuth", "muth"} /\ Edited(IF IsCell(Top(3)) THEN Cell(Top(1), Tal(Top(3))) ELSE Bail, 1)
     \/ Here \in {"kutt", "mutt"} /\ Edited(IF IsCell(Top(3)) THEN Cell(Hed(Top(3)), Top(1)) ELSE Bail, 1)
     \/ Here \in {"kusm", "musm"} /\ Edited(IF IsAtom(Top(3)) THEN Bail
                                            ELSE IF IsAtom(Tal(Top(3))) THEN Bail
                                            ELSE Trel(Hed(Top(3)), Top(1), Tal(Tal(Top(3)))), 1)
     \/ Here \in All(EditBytes) /\ Edited(Edit(Top(3), Arg(EditBytes), Top(1)), Width(EditBytes))
     \/ /\ Here \in All(EditTable)
        /\ LET axe == pog.lit[Arg(EditTable) + 1]
           IN  Edited(IF IsAtom(axe) THEN Edit(Top(3), Val(axe), Top(1))
                      ELSE IF IsCell(Top(3)) THEN Abort ELSE Bail, Width(EditTable))

\* Nothing else stops the machine: a run checks that it never jams.
Done == (todo = << >> \/ product = Abort) /\ UNCHANGED nockVars

NockInit == /\ todo \in Calls
            /\ pog = Idle /\ ip = 0 /\ stack = << >> /\ tax = 0
            /\ sites = << >> /\ memos = << >> /\ product = None

NockNext == \/ Begin \/ Halt \/ Bailed \/ Shuffle \/ Pair \/ Fragment \/ Constant \/ Nocked \/ Kick
            \/ Unary \/ Equal \/ Jump \/ Wish \/ Trace \/ Aside \/ Mine \/ Recall \/ Saved
            \/ Fore \/ Hind \/ Mutate \/ Done

NockSpec == NockInit /\ [][NockNext]_nockVars

-----------------------------------------------------------------------------
\* The stack is what the next operation takes it for: a product is above
\* either nothing or the frame of the program that waits for it, and every
\* trace pushed is dropped by the end (_n_burn: do_halt trusts both).
StackIsKept ==
  Running => /\ ip < Len(pog.byc)
             /\ ~IsFrame(Top(1))
             /\ Here = "halt" => IF Len(stack) = 1 THEN tax = 0 ELSE IsFrame(Top(2))

\* Compiled, skipped through, called from caches and cut short by memos, a
\* computation gives what the formula means: in whatever subject it loses or
\* keeps, at the end of a program or before more of it, and on a machine that
\* has run others before (_n_comp, _n_prog_asm, _n_burn; +mink).  What +mink
\* gives is given, but for two quirks: a timed formula whose clue is an atom
\* aborts (nock.c:1797), and an if crashes of a branch that it does not take.
\* Where +mink crashes, the code does too, or does what a quirk says: it gives a
\* product for a hint whose tag is a cell, and aborts on a cell for an axis.
NockAgrees ==
  /\ todo # << >> /\ product # None =>
       LET call == Head(todo)
           meant == Mink(call.bus, call.fol, Fuel, FALSE)
           given == Mink(call.bus, call.fol, Fuel, TRUE)
       IN  IF IsNoun(meant) THEN product = given ELSE product \in {meant, given}
  /\ StackIsKept
=============================================================================
