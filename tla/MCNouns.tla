------------------------------ MODULE MCNouns ------------------------------
(* One run for the library of nouns.  A behaviour tries one part of it: the
   jets of numbers, bits and lists, those of trees, streams, codecs, tables, or
   the machine that runs formulas. *)
EXTENDS Jets, TreeJets, Streams, Codecs

\* An order of four mugs, and one in which keys collide.
MCTables == {[mug |-> <<3, 1, 4, 2>>, mor |-> <<2, 4, 1, 3>>], [mug |-> <<3, 1, 3, 2>>, mor |-> <<1, 3, 2, 1>>]}

-----------------------------------------------------------------------------
(* Nouns to pack, streams to unpack, texts to parse.                       *)

\* Atoms at the edges of a cat (11 bits) and of a direct atom (22 bits).
Edges == {Atom(n) : n \in {0, 1, 6, 2047, 2048, 4194303, 4194304, 536870912}}
Few == {Atom(n) : n \in {0, 6, 2048, 4194304}}
FewPairs == Few \X Few
MCPacks == Edges \cup (Edges \X Edges) \cup {<<p, p>> : p \in FewPairs} \cup {<<p, <<p, p>> >> : p \in FewPairs}
           \cup (Few \X FewPairs) \cup (FewPairs \X Few)
MCGarbles == FewPairs \cup {<<Nul, <<p, p>> >> : p \in {<<Nul, Atom(6)>>, <<Atom(2048), Nul>>, <<Atom(4194304), Nul>>}}

Zeros(n) == [i \in 1 .. n |-> 0]
MCBitStrings == UNION {[1 .. n -> {0, 1}] : n \in 0 .. 11}
                \cup {t \o Zeros(n) \o <<1>> \o e : t \in {<<0>>, <<1, 1>>, <<1, 0>>},
                         n \in {21, 22, 23, 24, 94, 95, 96, 97}, e \in {<< >>, <<0>>, <<1, 1>>}}

Leads == UNION {[1 .. n -> {0, 9}] : n \in 0 .. 3}
Groups == {<< >>, <<10, 0, 0, 0>>, <<10, 9, 9, 9>>, <<10, 0, 9, 1>>, <<10, 11, 9, 9>>, <<9, 9, 9, 10>>, <<10, 9>>}
MCTexts == {l \o g \o h : l \in Leads, g \in Groups, h \in Groups}

-----------------------------------------------------------------------------
(* Computations, on a machine of its own.                                  *)

CONSTANTS Byte, Calls, Fuel
VARIABLES todo, pog, ip, stack, tax, sites, memos, product

Machine == INSTANCE Nock
Formulas == INSTANCE MCNock WITH Calls <- {}

MCCalls == {<< >>} \cup Formulas!Computations

\* A computation gives what its formula means, over a stack that is what the next
\* operation takes it for (Nock).
NockAgrees == Machine!NockAgrees

-----------------------------------------------------------------------------
(* Tables.                                                                 *)

CONSTANTS RootBits, NodeBits, Depth, Mug, Limits, MaxPuts
VARIABLES tab, young, last, puts

Hashed == INSTANCE Hamt
hamtVars == <<tab, young, last, puts>>

\* Three keys of one mug, and one whose mug parts from theirs in the last node.
MCMug == <<0, 0, 0, 2>>

-----------------------------------------------------------------------------
VARIABLE part   \* what a behaviour tries

machineVars == <<todo, pog, ip, stack, tax, sites, memos, product>>
vars == <<part, sample, treeVars, streamVars, input, machineVars, hamtVars>>

Init ==
  /\ part \in {"jets", "trees", "streams", "codecs", "machine", "tables"}
  /\ JetsInit /\ TreesInit /\ StreamsInit /\ CodecsInit /\ Machine!NockInit
  /\ Hashed!HamtInit
  /\ (todo = << >>) = (part # "machine") /\ (tab.max > 0 => part = "tables")

Library ==
  \/ part = "jets" /\ JetsNext /\ UNCHANGED <<treeVars, streamVars, input>>
  \/ part = "trees" /\ TreesNext /\ UNCHANGED <<sample, streamVars, input>>
  \/ part = "streams" /\ StreamsNext /\ UNCHANGED <<sample, treeVars, input>>
  \/ part = "codecs" /\ CodecsNext /\ UNCHANGED <<sample, treeVars, streamVars>>

\* The library's parts may end; the machine may not stop before its computations do.
Next ==
  \/ Library /\ UNCHANGED <<part, machineVars, hamtVars>>
  \/ part = "machine" /\ Machine!NockNext /\ UNCHANGED <<part, sample, treeVars, streamVars, input, hamtVars>>
  \/ part = "tables" /\ Hashed!HamtNext /\ UNCHANGED <<part, sample, treeVars, streamVars, input, machineVars>>
  \/ part # "machine" /\ UNCHANGED vars

Spec == Init /\ [][Next]_vars

\* A table is the map of what was put in it, less what its clock dropped (Hamt).
TablesAreMaps == part = "tables" => Hashed!TablesAreMaps
=============================================================================
