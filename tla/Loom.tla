-------------------------------- MODULE Loom --------------------------------
(***************************************************************************)
(* The memory of nouns (noun/allocate.c and the roads of noun/manage.c).   *)
(* The loom is one array of words.  A road allocates boxes between rut and *)
(* hat and keeps its stack between mat and cap, towards the hat; its child *)
(* runs in the space between, the other way round, and what the child      *)
(* leaves on the parent's stack is copied to the parent's heap.  Each road *)
(* counts the references to its own boxes and none to those of its elders. *)
(*                                                                         *)
(* A box is known by its address; a noun is 0, for any direct atom, or the *)
(* address of its box.  The words of a box are its size, its use count,    *)
(* what it holds, and its size again.  The tables that a road makes for    *)
(* jets, bytecode and memos are left out: a road starts without boxes, and *)
(* there are no memos to reclaim.                                          *)
(***************************************************************************)
EXTENDS Integers, Sequences, SequencesExt, FiniteSets, FiniteSetsExt, Bags

CONSTANTS RoadWords,       \* words of a u3a_road
          Pad,             \* pad_w: what a leap leaves to the parent
          FreeLists,       \* u3a_fbox_no, without the list that is never used
          CellBlock,       \* cells of a block: 4096
          Flush,           \* cells that reflux lets go at a time: 1024
          Shapes           \* bounds, as below: what a behaviour may ask for

Shape == [words : Nat,         \* the home road's end: u3a_words
          lens : SUBSET Nat,   \* lengths of indirect atoms, in words
          sizes : SUBSET Nat,  \* sizes that malloc is asked for, in words
          held : Seq(Nat),     \* references that each road's computation holds
          made : Nat]          \* boxes asked for, and roads begun

ASSUME LoomAssumption ==
  /\ {RoadWords, Pad, FreeLists, CellBlock, Flush} \subseteq Nat \ {0}
  /\ Shapes \subseteq Shape

Minimum == 6   \* u3a_minimum: a cell, and its box

VARIABLES mem,             \* the roads, home first, and the boxes by their address
          held,            \* for each road, what its computation holds: a bag of
                           \* nouns, with what they meant when they were got
          made,            \* counter
          shape            \* the behaviour's bounds

loomVars == <<mem, held, made, shape>>

-----------------------------------------------------------------------------
(* Roads.                                                                  *)

Cur(m) == Last(m.roads)
Here(m) == Len(m.roads)
AtHome(m) == Here(m) = 1

North(r) == r.cap > r.hat
Open(r) == IF North(r) THEN r.cap - r.hat ELSE r.hat - r.cap

\* The box is a parent's; it is in the stack, where a child has left it; it is r's own.
Senior(r, a) == IF North(r) THEN a < r.rut \/ a >= r.mat ELSE a < r.mat \/ a >= r.rut
Junior(r, a) == IF North(r) THEN a >= r.cap /\ a < r.mat ELSE a < r.cap /\ a >= r.mat
Normal(r, a) == a # 0 /\ ~Senior(r, a) /\ ~Junior(r, a)

\* _pave_road, for a road that ends at mat.
Pave(rut, mat, cap) == [rut |-> rut, hat |-> rut, mat |-> mat, cap |-> cap, ear |-> 0,
                        fre |-> [i \in 1 .. FreeLists |-> <<>>], cel |-> <<>>]

-----------------------------------------------------------------------------
(* Free boxes.                                                             *)

\* The boxes of free list i, but the last, have at most 15 * 2^(i - 1) words.
Slot(siz) == Min({i \in 1 .. FreeLists : i = FreeLists \/ siz <= 15 * 2 ^ (i - 1)})

Free(siz) == [siz |-> siz, use |-> 0, is |-> "free", of |-> <<>>, mug |-> 0]

PutBox(m, a, b) == [m EXCEPT !.box = [x \in DOMAIN @ \cup {a} |-> IF x = a THEN b ELSE @[x]]]
DropBox(m, a) == [m EXCEPT !.box = [x \in DOMAIN @ \ {a} |-> @[x]]]

\* _box_attach
Attach(m, a) == [m EXCEPT !.roads[Here(m)].fre[Slot(m.box[a].siz)] = <<a>> \o @]

\* _box_detach
Detach(m, a) ==
  [m EXCEPT !.roads[Here(m)].fre[Slot(m.box[a].siz)] = SelectSeq(@, LAMBDA x : x # a)]

\* The box below, found by the size at its end, and the box above.
Below(m, a) == IF a \in {Cur(m).rut, Cur(m).hat} THEN {}
               ELSE {x \in DOMAIN m.box : x + m.box[x].siz = a}
Above(m, a) == {x \in DOMAIN m.box : a + m.box[a].siz = x} \ {Cur(m).rut, Cur(m).hat}

\* _box_make, of a box and one that is free.
Join(m, a, x) ==
  PutBox(DropBox(DropBox(Detach(m, x), x), a), Min({a, x}), Free(m.box[a].siz + m.box[x].siz))

\* ... if a neighbour is.
Coalesce(m, a, ns) ==
  IF \E x \in ns : m.box[x].use = 0 THEN Join(m, a, CHOOSE x \in ns : TRUE) ELSE m

\* The box that has a's address in it.
BoxAt(m, a) == CHOOSE x \in DOMAIN m.box : x <= a /\ a < x + m.box[x].siz

\* ... is the last of its road's heap, whose hat goes back past it.
AtHat(m, b) == IF North(Cur(m)) THEN b + m.box[b].siz = Cur(m).hat ELSE b = Cur(m).hat
Retreat(m, b) ==
  DropBox([m EXCEPT !.roads[Here(m)].hat = IF North(Cur(m)) THEN b ELSE @ + m.box[b].siz], b)

AttachAt(m, a) == Attach(m, BoxAt(m, a))

Settle(m, b) ==
  IF AtHat(m, b) THEN Retreat(m, b)
  ELSE AttachAt(Coalesce(m, b, IF North(Cur(m)) THEN Above(m, b) ELSE Below(m, b)), b)

SettleAt(m, a) == Settle(m, BoxAt(m, a))

\* _box_free: join the box on the rut's side, then give the space back to the hat,
\* or else join the box on the hat's side.
FreeBox(m, a) ==
  IF m.box[a].use > 1 THEN [m EXCEPT !.box[a].use = @ - 1]
  ELSE SettleAt(Coalesce([m EXCEPT !.box[a] = Free(@.siz)], a,
                         IF North(Cur(m)) THEN Below(m, a) ELSE Above(m, a)), a)

-----------------------------------------------------------------------------
(* Allocation.  Results are pairs of an address, or Meme, and a memory.    *)

Meme == -1
Nowhere(m) == [at |-> Meme, m |-> m]

\* _me_align_pad, _me_align_dap: up, or down, to alp of ald.
PadUp(p, ald, alp) == (alp - p) % ald
PadDown(p, ald, alp) == (p - alp) % ald

Used(m, a, siz) == [at |-> a, m |-> PutBox(m, a, [Free(siz) EXCEPT !.use = 1])]

\* _ca_box_make_hat
OnHat(m, r, siz) ==
  IF siz >= Open(r) THEN Nowhere(m)
  ELSE IF North(r) THEN Used([m EXCEPT !.roads[Here(m)].hat = r.hat + siz], r.hat, siz)
  ELSE Used([m EXCEPT !.roads[Here(m)].hat = r.hat - siz], r.hat - siz, siz)
MakeHat(m, r, len, ald, alp) ==
  OnHat(m, r, len + IF North(r) THEN PadUp(r.hat, ald, alp) ELSE PadDown(r.hat - len, ald, alp))

\* Faulty: a box may be chopped off that is too small to be listed.
CarveFinely(m, a, siz) ==
  IF siz + 3 <= m.box[a].siz
  THEN Used(Attach(PutBox(Detach(m, a), a + siz, Free(m.box[a].siz - siz)), a + siz), a, siz)
  ELSE Used(Detach(m, a), a, m.box[a].siz)

\* _ca_willoc: use a box from a free list, and chop off what is not needed.
Carve(m, a, siz) ==
  IF siz + Minimum <= m.box[a].siz
  THEN Used(Attach(PutBox(Detach(m, a), a + siz, Free(m.box[a].siz - siz)), a + siz), a, siz)
  ELSE Used(Detach(m, a), a, m.box[a].siz)

\* _ca_willoc, of the lists from one past the size's own: the first box with room.
Found(m, siz, ald, alp) ==
  LET lists == Cur(m).fre
      sel == IF Slot(siz) = FreeLists THEN FreeLists ELSE Slot(siz) + 1
  IN SelectSeq(FlattenSeq(SubSeq(lists, sel, FreeLists)),
               LAMBDA a : siz + PadUp(a, ald, alp) <= m.box[a].siz)

\* u3a_reflux
RECURSIVE Reflux(_, _)
Reflux(m, n) ==
  IF n = 0 \/ Cur(m).cel = <<>> THEN m
  ELSE LET a == Head(Cur(m).cel)
       IN Reflux(FreeBox([m EXCEPT !.roads[Here(m)].cel = Tail(@)], a), n - 1)

\* _ca_willoc: from a free list, from the hat, or again when cells were flushed,
\* with the phase that the first try has moved.
RECURSIVE Willoc(_, _, _, _)
Fresh(m, new, len, ald, alp) ==
  IF new.at # Meme \/ Cur(m).cel = <<>> THEN new ELSE Willoc(Reflux(m, Flush), len, ald, alp)
Search(m, found, len, siz, ald, alp) ==
  IF found = <<>> THEN Fresh(m, MakeHat(m, Cur(m), siz, ald, alp), len, ald, alp)
  ELSE Carve(m, Head(found), siz + PadUp(Head(found), ald, alp))
Try(m, len, siz, ald, alp) == Search(m, Found(m, siz, ald, alp), len, siz, ald, alp)
Willoc(m, len, ald, alp) == Try(m, len, Max({Minimum, len + 3}), ald, (alp + 2) % ald)

Walloc(m, len) == Willoc(m, len, 1, 0)

\* u3a_cellblock: the cells of a block, the last made first.
Cells(r) == [i \in 1 .. CellBlock |->
               IF North(r) THEN r.hat + (CellBlock - i) * Minimum ELSE r.hat - (CellBlock + 1 - i) * Minimum]
Block(m, r) ==
  [roads |-> [m.roads EXCEPT ![Here(m)].cel = Cells(r),
                             ![Here(m)].hat = IF North(r) THEN @ + CellBlock * Minimum ELSE @ - CellBlock * Minimum],
   box |-> [a \in Range(Cells(r)) |-> [Free(Minimum) EXCEPT !.use = 1]] @@ m.box]

\* u3a_celloc
FromCells(m) ==
  IF Cur(m).cel = <<>> THEN Walloc(m, 3)
  ELSE [at |-> Head(Cur(m).cel), m |-> [m EXCEPT !.roads[Here(m)].cel = Tail(@)]]
Celloc(m) ==
  FromCells(IF Cur(m).cel = <<>> /\ ~AtHome(m) /\ CellBlock * Minimum < Open(Cur(m))
            THEN Block(m, Cur(m)) ELSE m)

\* u3a_cfree
Cfree(m, a) ==
  IF AtHome(m) THEN FreeBox(m, a)
  ELSE [m EXCEPT !.roads[Here(m)].cel = <<a>> \o @, !.box[a].is = "free", !.box[a].of = <<>>]

-----------------------------------------------------------------------------
(* References.                                                             *)

Gain(m, n) == [m EXCEPT !.box[n].use = @ + 1]

\* _me_lose_north, _me_lose_south
RECURSIVE Lose(_, _)
Lose(m, n) ==
  IF ~Normal(Cur(m), n) THEN m
  ELSE LET b == m.box[n]
       IN IF b.use > 1 THEN [m EXCEPT !.box[n].use = @ - 1]
          ELSE IF b.is = "cell" THEN Lose(Cfree(Lose(m, b.of[1]), n), b.of[2])
          ELSE FreeBox(m, n)

\* Faulty: a noun that has been copied is referred to again, and not counted.
TakenUncounted(m, n) == [at |-> m.box[n].mug, m |-> m]

\* _ca_take_next_north: the copy is found where the mug was.
Taken(m, n) == [at |-> m.box[n].mug, m |-> Gain(m, m.box[n].mug)]

\* _ca_take_atom, _ca_take_cell: a copy, which the mug of the old one leads to.
Moved(new, n, of) ==
  IF new.at = Meme THEN new
  ELSE [new EXCEPT !.m.box[new.at].is = new.m.box[n].is, !.m.box[new.at].of = of, !.m.box[n].mug = new.at]
Copy(m, n, of, len) == Moved(Walloc(m, len), n, of)

\* A frame of two words on the road's stack, or none.
Push(m) == [m EXCEPT !.roads[Here(m)].cap = IF North(Cur(m)) THEN @ - 2 ELSE @ + 2]
Pop(new, cap) == [new EXCEPT !.m.roads[Here(new.m)].cap = cap]

\* _ca_take_north, _ca_take_south: u3a_take, which copies what is on the stack.
RECURSIVE Take(_, _)
TakeBoth(hed, tel, n) ==
  IF tel.at = Meme THEN tel ELSE Copy(tel.m, n, <<hed.at, tel.at>>, 3)
TakeTail(hed, n) ==
  IF hed.at = Meme THEN hed ELSE TakeBoth(hed, Take(hed.m, hed.m.box[n].of[2]), n)
Take(m, n) ==
  IF n = 0 \/ Senior(Cur(m), n) THEN [at |-> n, m |-> m]
  ELSE IF ~Junior(Cur(m), n) THEN [at |-> n, m |-> Gain(m, n)]
  ELSE IF m.box[n].mug # 0 THEN Taken(m, n)
  ELSE IF m.box[n].is = "atom" THEN Copy(m, n, m.box[n].of, 2 + m.box[n].of[1])
  ELSE IF Open(Cur(m)) <= 2 THEN Nowhere(m)
  ELSE Pop(TakeTail(Take(Push(m), m.box[n].of[1]), n), Cur(m).cap)

\* _ca_wed_who: of the equal limbs x and y of a and b, on road k, which is kept?
KeepsFirst(r, x, y) == IF Senior(r, x) = Senior(r, y) THEN (x > y) = North(r) ELSE Senior(r, x)
Unify(m, k, keep, lose, a, i) ==
  [(IF k = Here(m) THEN Lose(IF Senior(m.roads[k], keep) THEN m ELSE Gain(m, keep), lose)
    ELSE IF Senior(m.roads[k], keep) THEN m ELSE Gain(m, keep)) EXCEPT !.box[a].of[i] = keep]

\* u3a_wed: on the first road outwards that has one of them, short of the home road.
WedOn(m, k, x, y, a, b, i) ==
  IF KeepsFirst(m.roads[k], x, y) THEN Unify(m, k, x, y, b, i) ELSE Unify(m, k, y, x, a, i)
Wed(m, x, y, a, b, i) ==
  LET can == {k \in 2 .. Here(m) : ~(Senior(m.roads[k], x) /\ Senior(m.roads[k], y))}
  IN IF x = y \/ can = {} THEN m ELSE WedOn(m, Max(can), x, y, a, b, i)

\* _cr_sing: are the nouns equal?  Equal limbs of two cells are unified on the way.
RECURSIVE Sing(_, _, _)
SingLimb(s, a, b, i) == IF s.yes THEN Sing(s.m, s.m.box[a].of[i], s.m.box[b].of[i]) ELSE s
WedLimb(s, a, b, i) == IF s.yes THEN [s EXCEPT !.m = Wed(@, @.box[a].of[i], @.box[b].of[i], a, b, i)] ELSE s
Sing(m, a, b) ==
  IF a = b THEN [yes |-> TRUE, m |-> m]
  ELSE IF 0 \in {a, b} \/ m.box[a].is # m.box[b].is THEN [yes |-> FALSE, m |-> m]
  ELSE IF m.box[a].is = "atom" THEN [yes |-> m.box[a].of = m.box[b].of, m |-> m]
  ELSE FoldLeft(LAMBDA s, i : WedLimb(SingLimb(s, a, b, i), a, b, i), [yes |-> TRUE, m |-> m], <<1, 2>>)

-----------------------------------------------------------------------------
(* Compaction, on the home road.                                           *)

\* u3a_pack_seek: where a box in use goes, next to those in use below it.
Sought(m) ==
  [a \in {0} \cup {x \in DOMAIN m.box : m.box[x].use > 0} |->
     IF a = 0 THEN 0
     ELSE Cur(m).rut + MapThenSumSet(LAMBDA x : m.box[x].siz, {x \in DOMAIN m.box : x < a /\ m.box[x].use > 0})]

\* u3a_pack_move, after the references are rewritten: the free lists are cleared.
Packed(m, to) ==
  LET from == [b \in Range(to) \ {0} |-> CHOOSE a \in DOMAIN to : to[a] = b]
      move(b) == IF b.is = "cell" THEN [b EXCEPT !.of = <<to[@[1]], to[@[2]]>>] ELSE b
      hat == Cur(m).rut + MapThenSumSet(LAMBDA x : m.box[x].siz, DOMAIN to \ {0})
  IN [roads |-> <<[Pave(Cur(m).rut, Cur(m).mat, Cur(m).cap) EXCEPT !.hat = hat]>>,
      box |-> [b \in DOMAIN from |-> move(m.box[from[b]])]]

-----------------------------------------------------------------------------
(* The computation.  It calls the functions above with nouns that it holds, *)
(* which they consume, or with its elders', which are not counted.          *)

Own == BagToSet(held[Here(mem)])
Elder == UNION {BagToSet(held[k]) : k \in 1 .. Here(mem) - 1}
Nouns == {[at |-> 0, val |-> <<0>>]} \cup Own \cup Elder
Cost(e) == IF e \in Own THEN SetToBag({e}) ELSE EmptyBag

\* The computation gives the nouns of a bag and gets a noun, if it is one of the road's.
Exchange(cost, m, n, val) ==
  /\ mem' = m
  /\ held' = [held EXCEPT ![Here(mem)] =
       (@ (-) cost) (+) IF Normal(Cur(m), n) THEN SetToBag({[at |-> n, val |-> val]}) ELSE EmptyBag]
  /\ BagCardinality(held'[Here(m)]) <= shape.held[Here(m)]

\* Nothing was written past its box: what would follow that is not modelled.
Live(m) == {a \in DOMAIN m.box : m.box[a].is # "free"}
Fits(m) == \A a \in Live(m) : m.box[a].is = "data" => m.box[a].of[1] < a + m.box[a].siz

\* Every road's record lies in what its parent's cap moved over for it; a record that
\* does not has overwritten the parent's stack, or its record, and what would follow
\* is not modelled.
RoadsFit(m) ==
  \A k \in 2 .. Here(m) :
    LET old == m.roads[k - 1].ear
        new == m.roads[k - 1].cap
        at == m.roads[k].mat
    IN Min({old, new}) <= at /\ at + RoadWords <= Max({old, new})

Makes == made < shape.made /\ made' = made + 1

\* u3a_wtrim
Trim(m, a, old, len) ==
  IF old - len < Minimum THEN m
  ELSE Attach(PutBox([m EXCEPT !.box[a].siz = 3 + len], a + 3 + len, Free(m.box[a].siz - (3 + len))), a + 3 + len)

\* u3i_slab_bare, u3i_slab_mint: an atom that turns out shorter than it might be.
Mint(new, old, len) ==
  /\ new.at # Meme
  /\ IF len = 0 THEN Exchange(EmptyBag, FreeBox(new.m, new.at), 0, <<0>>)
     ELSE Exchange(EmptyBag, Trim([new.m EXCEPT !.box[new.at].is = "atom", !.box[new.at].of = <<len>>],
                                  new.at, old, 2 + len), new.at, <<len>>)
MakeAtom == \E old \in shape.lens, len \in shape.lens \cup {0} :
  len <= old /\ Makes /\ Mint(Walloc(mem, 2 + old), 2 + old, len)

\* u3i_cell
Pair(new, h, t, cost) ==
  /\ new.at # Meme
  /\ Exchange(cost, [new.m EXCEPT !.box[new.at].is = "cell", !.box[new.at].of = <<h.at, t.at>>],
              new.at, <<h.val, t.val>>)
MakeCell == \E h, t \in Nouns :
  Cost(h) (+) Cost(t) \sqsubseteq held[Here(mem)] /\ Makes /\ Pair(Celloc(mem), h, t, Cost(h) (+) Cost(t))

\* u3k, u3z
Keep == \E e \in Own : UNCHANGED made /\ Exchange(EmptyBag, Gain(mem, e.at), e.at, e.val)
Drop == \E e \in Own : UNCHANGED made /\ Exchange(Cost(e), Lose(mem, e.at), 0, e.val)

\* u3h or u3t, kept: the computation holds a part of a noun.
Part == \E e \in Own, i \in 1 .. 2 :
  LET n == mem.box[e.at].of[i]
  IN /\ UNCHANGED made /\ mem.box[e.at].is = "cell" /\ Normal(Cur(mem), n)
     /\ Exchange(EmptyBag, Gain(mem, n), n, e.val[i])

\* u3r_sing
Compare == \E a, b \in Own \cup Elder :
  /\ a.at < b.at /\ UNCHANGED made
  /\ Exchange(EmptyBag, Sing(mem, a.at, b.at).m, 0, <<0>>)

\* u3a_malloc: from the box to a pointer that is aligned, with the padding before it.
Aligned(new, len) ==
  /\ new.at # Meme
  /\ Exchange(EmptyBag, [new.m EXCEPT !.box[new.at].is = "data",
                                      !.box[new.at].of = <<new.at + 3 + PadUp(new.at + 2, 4, 3) + len>>], 0, <<0>>)
Malloc == \E len \in shape.sizes : Makes /\ Aligned(Willoc(mem, len + 1, 4, 3), len)

\* u3a_free
Release == \E a \in Live(mem) :
  /\ UNCHANGED made /\ mem.box[a].is = "data" /\ Normal(Cur(mem), a)
  /\ Exchange(EmptyBag, FreeBox(mem, a), 0, <<0>>)

-----------------------------------------------------------------------------
(* Roads begin and end.                                                    *)

\* u3m_hate, u3m_leap: the new road has what is open, but the pad and the words of a
\* record, to itself, and keeps its own record there.
Hate ==
  LET r == Cur(mem)
      len == Open(r) - (Pad + RoadWords)
      kid == IF North(r) THEN Pave(r.cap, r.cap - len, r.cap - len + RoadWords)
             ELSE Pave(r.cap, r.cap + len - RoadWords, r.cap + len - RoadWords)
  IN /\ Makes /\ Here(mem) < Len(shape.held) /\ Pad + RoadWords < Open(r)
     /\ mem' = [mem EXCEPT !.roads = Append([@ EXCEPT ![Here(mem)].ear = r.cap,
                                                      ![Here(mem)].cap = IF North(r) THEN @ - len ELSE @ + len], kid)]
     /\ held' = Append(held, EmptyBag)

\* u3m_fall: the child's heap becomes the top of its parent's stack.
Fall(m) == [m EXCEPT !.roads = [Front(@) EXCEPT ![Here(m) - 1].cap = Cur(m).hat]]

\* ... and what is on the stack is gone.
Reset(m, cap) ==
  [roads |-> [m.roads EXCEPT ![Here(m)].cap = cap, ![Here(m)].ear = 0],
   box |-> [a \in {x \in DOMAIN m.box : ~Junior(Cur(m), x)} |-> m.box[a]]]

\* u3m_love: back to the parent, with a copy of the product.
Loved(m, n, val) ==
  /\ mem' = m
  /\ held' = [Front(held) EXCEPT ![Here(m)] =
       @ (+) IF Normal(Cur(m), n) THEN SetToBag({[at |-> n, val |-> val]}) ELSE EmptyBag]
  /\ BagCardinality(held'[Here(m)]) <= shape.held[Here(m)]
Copied(pro, val) == pro.at # Meme /\ Loved(Reset(pro.m, Cur(pro.m).ear), pro.at, val)
Love == \E e \in Nouns : UNCHANGED made /\ ~AtHome(mem) /\ Copied(Take(Fall(mem), e.at), e.val)

\* _cm_signal_recover: an interrupt, a timeout or want of memory ends every road but home.
Recover ==
  /\ UNCHANGED made /\ ~AtHome(mem)
  /\ mem' = LET home == Head(mem.roads)
            IN [roads |-> <<[home EXCEPT !.cap = home.mat, !.ear = 0]>>,
                box |-> [a \in {x \in DOMAIN mem.box : x < home.hat} |-> mem.box[a]]]
  /\ held' = <<Head(held)>>

\* u3m_pack, when nothing is left that it cannot rewrite.
Pack ==
  LET to == Sought(mem)
      moved == [e \in {[x EXCEPT !.at = to[@]] : x \in Own} |->
                  held[1][CHOOSE x \in Own : to[x.at] = e.at]]
  IN /\ UNCHANGED made /\ AtHome(mem) /\ \A a \in Live(mem) : mem.box[a].is # "data"
     /\ mem' = Packed(mem, to)
     /\ held' = <<moved>>

LoomInit ==
  /\ shape \in Shapes /\ made = 0 /\ held = <<EmptyBag>>
  /\ mem = [roads |-> <<Pave(1, shape.words, shape.words)>>, box |-> <<>>]

LoomNext ==
  /\ Fits(mem) /\ RoadsFit(mem) /\ UNCHANGED shape
  /\ \/ MakeAtom \/ MakeCell \/ Keep \/ Drop \/ Part \/ Compare \/ Malloc \/ Release
     \/ Hate \/ Love \/ Recover \/ Pack

LoomSpec == LoomInit /\ [][LoomNext]_loomVars

-----------------------------------------------------------------------------
(* Properties.                                                             *)

\* A road's heap.
Low(r) == Min({r.rut, r.hat})
High(r) == Max({r.rut, r.hat})
Mine(k) == {a \in DOMAIN mem.box : Low(mem.roads[k]) <= a /\ a < High(mem.roads[k])}

\* The boxes of a road fill its heap, and each is in use or can be found to be used
\* again: in the list for its size, or among the cells, once.  That is until an
\* allocation writes past its box (MallocFits) or a road's record is laid outside its
\* region (LeapFits), with which a behaviour ends.
HeapIsTiled ==
  /\ DOMAIN mem.box = UNION {Mine(k) : k \in DOMAIN mem.roads}
  /\ \A k \in DOMAIN mem.roads :
       LET r == mem.roads[k]
           box == [a \in Mine(k) |-> mem.box[a]]
       IN /\ \A a \in Mine(k) : box[a].siz >= Minimum
          /\ {a + box[a].siz : a \in Mine(k)} \cup {Low(r)} = Mine(k) \cup {High(r)}
          /\ \A i \in DOMAIN r.fre :
               /\ IsInjective(r.fre[i])
               /\ Range(r.fre[i]) = {a \in Mine(k) : box[a].use = 0 /\ Slot(box[a].siz) = i}
          /\ IsInjective(r.cel)
          /\ Range(r.cel) = {a \in Mine(k) : box[a].use > 0 /\ box[a].is = "free"}

RECURSIVE Meaning(_)
Meaning(n) == IF n = 0 THEN <<0>>
              ELSE IF mem.box[n].is = "atom" THEN mem.box[n].of
              ELSE <<Meaning(mem.box[n].of[1]), Meaning(mem.box[n].of[2])>>

\* The references to a noun that its road counts.
References(k, a) ==
  MapThenSumSet(LAMBDA e : held[k][e], {e \in BagToSet(held[k]) : e.at = a})
    + Cardinality({x \in Mine(k) \X {1, 2} : mem.box[x[1]].is = "cell" /\ mem.box[x[1]].of[x[2]] = a})

\* Whatever is shared, copied, unified, moved or let go, every noun that is held means
\* what it did; no cell refers to a child's noun; and nothing is counted short, nor,
\* on the home road, long: the sweep would find no leak (u3a_sweep's assertions).
NounsAreKept ==
  \A k \in DOMAIN held :
    /\ \A e \in BagToSet(held[k]) : Meaning(e.at) = e.val
    /\ \A a \in {x \in Mine(k) : mem.box[x].is \in {"atom", "cell"}} :
         /\ mem.box[a].use >= References(k, a)
         /\ k = 1 => mem.box[a].use = References(k, a)
         /\ mem.box[a].is = "cell" =>
              \A i \in 1 .. 2 : mem.box[a].of[i] \in {0} \cup UNION {Mine(j) \cap Live(mem) : j \in 1 .. k}

\* u3a_malloc gives as many words as were asked for.
MallocFits == Fits(mem)

\* u3m_leap creates a new road within the existing one, or bails for want of memory.
LeapFits == RoadsFit(mem)
=============================================================================
