------------------------------- MODULE MCLoom -------------------------------
(* Small looms: one for boxes of many sizes, one for two roads that hold nouns,
   and one for three roads of which the first is idle. *)
EXTENDS Loom

MCShapes == {[words |-> 45, lens |-> {13}, sizes |-> {9}, held |-> <<2, 1>>, made |-> 5],
             [words |-> 45, lens |-> {1}, sizes |-> {}, held |-> <<2, 2>>, made |-> 5],
             [words |-> 52, lens |-> {1}, sizes |-> {}, held |-> <<0, 2, 1>>, made |-> 6]}

\* A loom that two cells and an aligned allocation fill.
MCTight == {[words |-> 24, lens |-> {1}, sizes |-> 1 .. 6, held |-> <<0, 2>>, made |-> 4]}

\* A loom in which a road may find room for its pad and one record, and no more.
MCNarrow == {[words |-> 24, lens |-> {1, 2, 3}, sizes |-> {}, held |-> <<2, 1>>, made |-> 3]}
=============================================================================
