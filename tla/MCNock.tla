------------------------------- MODULE MCNock -------------------------------
(* Formulas of every shape, on their own, in context and in sequence. *)
EXTENDS Nock

N(n) == Atom(n)
F(n, x) == Cell(Atom(n), x)
F2(n, x, y) == Cell(Atom(n), Cell(x, y))
F3(n, x, y, z) == Cell(Atom(n), Trel(x, y, z))

Deep == FromSeq(<<N(1), N(2), N(3), N(4), N(5)>>)
Buses == {Cell(Cell(N(1), N(2)), Deep), N(7)}

\* Parts and constants of each size, and things that are no formulas.
Simple == {F(0, N(n)) : n \in {0, 1, 2, 3, 4, 6, 31}} \cup {F(1, N(n)) : n \in {0, 1, 3, 7, 40}}
            \cup {F(1, F(0, N(1))), N(4), F(0, F(0, N(1))), F(20, N(0))}
Few == {F(0, N(0)), F(0, N(1)), F(0, N(31)), F(1, N(0)), F(1, N(1)), F(1, F(0, N(1))), N(4)}
NoAxis == Cell(N(0), N(1))
Tags == {Spot, Bout, Live, Slog, Fast, Memo, N(9)}

Once ==
  Simple \cup {F(n, x) : n \in {3, 4}, x \in Simple}
    \cup {Cell(x, y) : x \in Few, y \in Few}
    \cup {F2(n, x, y) : n \in {2, 5, 7, 8, 12}, x \in Few, y \in Simple}
    \cup {F2(5, x, y) : x \in Simple, y \in Few}
    \cup {F2(9, N(a), x) : a \in 1 .. 5, x \in Simple}
    \cup {F2(10, F(a, x), y) : a \in {0, 1, 2, 3, 4, 6, 7, 31}, x \in Few, y \in Few}
    \cup {Cell(F2(10, F(a, F(1, N(9))), F(0, N(1))), F(0, N(3))) : a \in {2, 3, 4, 6, 7, 31}}
    \cup {Cell(F2(5, F(0, N(a)), F(1, N(c))), F(0, N(3))) : a \in {4, 6}, c \in {0, 1, 3, 7, 40}}
    \cup {F2(10, x, y) : x \in {N(2), F(1, N(0))}, y \in Few}
    \cup {F2(11, t, x) : t \in {Bout, N(9)}, x \in Few}
    \cup {F2(11, Cell(t, x), y) : t \in Tags, x \in Few, y \in Few}
    \cup {F3(6, x, y, z) : x \in Few, y \in Few, z \in Few}
    \cup {F2(9, NoAxis, x) : x \in Few}
    \cup {F2(10, Cell(NoAxis, x), y) : x \in Few, y \in Few}
    \cup {F2(11, Cell(NoAxis, x), y) : x \in Few, y \in Few}
    \cup {F3(6, F(1, N(c)), Refusal, F(0, N(1))) : c \in {0, 1}, Refusal \in {F2(9, a, F(0, N(1))) : a \in {N(0), NoAxis}}}

\* A gate that counts its sample down to zero, and what calls it.
Loop == F3(6, F2(5, F(0, N(6)), F(1, N(0))), F(0, N(7)),
           F2(9, N(2), F2(10, F(6, F(0, N(14))), F(0, N(1)))))
Core(f, x) == Cell(f, x)
Kicked == F2(9, N(2), F(0, N(1)))
Count == F2(9, N(2), F2(10, F(6, F(0, N(15))), F(1, Cell(Loop, Cell(N(0), N(8))))))
Decrement ==
  F2(8, F(1, N(0)),
     F2(8, F(1, F3(6, F2(5, F(0, N(7)), F(4, F(0, N(6)))), F(0, N(6)),
                   F2(9, N(2), Trel(F(0, N(2)), F(4, F(0, N(6))), F(0, N(7)))))),
        Kicked))

\* What a clock wants for a clue.
Clue == F(1, Cell(N(1), N(5)))

\* Formulas whose subject is kept or lost, that return or jump.
Inner == {F(0, N(1)), F(0, N(31)), F(1, Deep), F(4, F(0, N(4))), F2(5, F(0, N(4)), F(1, N(40))),
          F3(6, F(3, F(0, N(1))), F(0, N(3)), F(1, N(0))),
          F2(7, F(1, Cell(F(0, N(1)), N(3))), Kicked),
          F2(2, F(0, N(1)), F(1, F(0, N(3)))),
          F2(10, F(2, F(1, N(40))), F(0, N(1))),
          F2(11, Cell(Spot, F(1, N(5))), F2(2, F(0, N(2)), F(1, F(4, F(0, N(2)))))),
          F2(11, Cell(Bout, Clue), F(0, N(2))),
          F2(11, Bout, F2(8, F(1, N(2)), F(0, N(3)))),
          F2(11, Cell(Fast, F(0, N(1))), F(0, N(3))),
          F2(11, Cell(Memo, F(1, N(0))), F2(5, F(0, N(2)), F(0, N(3)))),
          F2(11, Cell(Slog, F(1, N(0))), F2(12, F(1, N(0)), F(0, N(2))))}

Twice == {Cell(x, y) : x \in Inner, y \in Inner}
           \cup {F2(n, x, y) : n \in {5, 7, 8}, x \in Inner, y \in Inner}
           \cup {F2(11, Cell(t, F(1, N(0))), x) : t \in Tags, x \in Inner}
           \cup {F2(11, Cell(Bout, Clue), x) : x \in Inner}
           \cup {F3(6, F2(5, F(0, N(2)), F(0, N(a))), x, y) : a \in {2, 3}, x \in Inner, y \in Inner}
           \cup {F(4, F3(6, F(1, N(1)), x, F2(7, y, F(1, N(3))))) : x \in Inner, y \in Inner}

\* Programs with more entries in a table than a byte counts, or longer skips.
RECURSIVE Many(_, _)
Many(n, f) == IF n = 1 THEN f ELSE Cell(f, Many(n - 1, f))
Big(f) == {F3(6, F(1, N(c)), Many(6, f), Many(6, f)) : c \in {0, 1}} \cup {Many(6, f)}
Tailed(f) == F2(7, F(1, Core(F(0, N(3)), N(5))), F3(6, F(1, N(0)), Kicked, Many(8, f)))
Edits == F2(10, F(31, F(1, N(1))), F(0, N(1)))
Large == {Tailed(Kicked), F2(7, Edits, Many(6, Edits)), Cell(Many(6, Edits), F3(6, F(1, N(0)), Edits, Many(6, Edits)))} \cup UNION {Big(f) : f \in Inner \cup {F(0, N(0)), F(1, N(7)), F(10, F2(0, N(0), N(1)))}
                              \cup {F2(5, F(0, N(4)), F(1, Deep))}
                              \cup {Edits}
                              \cup {F2(7, Edits, F(0, N(31)))}
                              \cup {F(0, N(31)), F2(7, F(0, N(1)), F(0, N(31)))}
                              \cup {F2(7, F(0, N(1)), F(1, Deep))}
                              \cup {F2(7, F(0, N(1)), F2(11, Cell(t, F(0, N(1))), F(0, N(3)))) : t \in Tags}}

Bus == Cell(Cell(N(1), N(2)), Deep)
Singles == ({<<b, f>> : b \in Buses, f \in Once} \cup {<<Bus, f>> : f \in Twice \cup Large}
              \cup {<<N(4), Decrement>>, <<Cell(N(0), N(3)), Decrement>>})

\* One formula on several cores and subjects, whose answers differ.
Cores == {Core(F(0, N(3)), N(5)), Core(F(4, F(0, N(3))), N(5)), Core(F(0, N(0)), N(1)), N(3)}
Repeated == {Kicked, F(4, Kicked), F2(11, Cell(Memo, F(1, N(0))), Kicked),
             F(4, F2(11, Cell(Memo, F(1, N(0))), Kicked)),
             F2(8, F2(11, Cell(Memo, F(1, N(0))), Kicked), F(0, N(2)))}
Sequences == {[i \in 1 .. 3 |-> [bus |-> s[i], fol |-> f]] : s \in [1 .. 3 -> Cores], f \in Repeated}

Computations == {<<[bus |-> c[1], fol |-> c[2]]>> : c \in {d \in Singles : Mink(d[1], d[2], Fuel, FALSE) # Fail}}
             \cup Sequences
=============================================================================
