-------------------------------- MODULE Hamt --------------------------------
(***************************************************************************)
(* The hash table of the runtime (noun/hashtable.c): a trie over the bits  *)
(* of a key's mug, whose nodes keep only the slots they use, with buckets  *)
(* below for keys of one mug.  A table may be a cache, which a clock keeps *)
(* to a size: its arm goes round the mugs, and an entry is dropped when it *)
(* is met a second time and nothing has made it warm since.                *)
(***************************************************************************)
EXTENDS Naturals, Sequences, FiniteSets, SequencesExt

CONSTANTS RootBits,  \* bits of a mug that choose a slot of the root: 6
          NodeBits,  \* ... of a node: 5
          Depth,     \* nodes below the root: 5
          Mug,       \* key -> mug, of RootBits + NodeBits * Depth bits
          Limits,    \* max_w: sizes of a cache, and 0 for no bound
          MaxPuts    \* puts in a behaviour

VARIABLES tab,    \* the table: [max, use, arm, sot]
          young,  \* a younger road's table, which is taken and united with it
          last,   \* what was last put in tab at a key
          puts    \* counter

hamtVars == <<tab, young, last, puts>>

Rest == NodeBits * Depth   \* 25: bits of a mug below the root
CutEnd(a, b) == a % 2 ^ b
High(a, b) == a \div 2 ^ b

Null == [is |-> "null"]
Entry(k, v) == [is |-> "entry", key |-> k, val |-> v, warm |-> TRUE]
Bucket(s) == [is |-> "buck", sot |-> s]
Sparse(map, s) == [is |-> "node", map |-> map, sot |-> s]
Index(map, bit) == Cardinality({b \in map : b < bit}) + 1

\* u3h_new_cache
NewTable(max) == [max |-> max, use |-> 0, arm |-> [mug |-> 0, inx |-> 0],
                  sot |-> [i \in 0 .. 2 ^ RootBits - 1 |-> Null]]

-----------------------------------------------------------------------------
(* Putting: results are a slot, and whether there is one entry more.       *)

More(s) == [slot |-> s, new |-> 1]
Same(s) == [slot |-> s, new |-> 0]

\* _ch_two
RECURSIVE Two(_, _, _, _, _)
Two(had, add, lef, ham, mad) ==
  IF lef = 0 THEN Bucket(<<had, add>>)
  ELSE LET l == lef - NodeBits
           hop == High(ham, l)
           tad == High(mad, l)
       IN IF hop = tad THEN Sparse({hop}, <<Two(had, add, l, CutEnd(ham, l), CutEnd(mad, l))>>)
          ELSE Sparse({hop, tad}, IF hop < tad THEN <<had, add>> ELSE <<add, had>>)

\* _ch_buck_add
BuckAdd(s, e) ==
  LET at == {i \in DOMAIN s : s[i].key = e.key}
  IN IF at = {} THEN More(Bucket(<<e>> \o s))
     ELSE Same(Bucket([s EXCEPT ![CHOOSE i \in at : \A j \in at : i <= j] = e]))

\* Faulty: the slots above a new one are not counted past those below it.
NodeAddFirst(n, bit, e) == More(Sparse(n.map \cup {bit}, <<e>> \o n.sot))

\* _ch_node_add, where nothing was.
NodeAdd(n, bit, e) == More(Sparse(n.map \cup {bit}, InsertAt(n.sot, Index(n.map, bit), e)))

\* _ch_slot_put, and _ch_node_add where something was.
RECURSIVE SlotPut(_, _, _, _)
Below(n, i, got) == [got EXCEPT !.slot = [n EXCEPT !.sot[i] = got.slot]]
SlotPut(s, e, lef, rem) ==
  IF s.is = "entry"
  THEN IF s.key = e.key THEN Same(e) ELSE More(Two(s, e, lef, CutEnd(Mug[s.key], lef), rem))
  ELSE IF lef = 0 THEN BuckAdd(s.sot, e)
  ELSE LET l == lef - NodeBits
           bit == High(rem, l)
       IN IF bit \in s.map
          THEN LET i == Index(s.map, bit) IN Below(s, i, SlotPut(s.sot[i], e, l, CutEnd(rem, l)))
          ELSE NodeAdd(s, bit, e)

-----------------------------------------------------------------------------
(* Trimming: results are the arm, a slot, and whether an entry was dropped. *)

\* _ch_skip_slot
Skip(arm, lef) == [arm EXCEPT !.mug = CutEnd(High(@, lef) + 1, RootBits + Rest - lef) * 2 ^ lef]

\* _ch_trim_kev
TrimEntry(arm, s) ==
  IF s.warm THEN [arm |-> arm, slot |-> [s EXCEPT !.warm = FALSE], cut |-> FALSE]
  ELSE [arm |-> arm, slot |-> Null, cut |-> TRUE]

\* _ch_trim_buck: from the arm's index on.  An entry that goes leaves the arm past
\* the next one, or, if one other is left, is replaced with its bucket by that one.
TrimBuck(arm, s) ==
  LET from == arm.inx + 1
      colds == {i \in from .. Len(s) : ~s[i].warm}
      i == CHOOSE c \in colds : \A d \in colds : c <= d
      cooled == [j \in DOMAIN s |-> IF j >= from /\ (colds = {} \/ j < i) THEN [s[j] EXCEPT !.warm = FALSE] ELSE s[j]]
  IN IF colds = {}
     THEN [arm |-> [mug |-> CutEnd(arm.mug + 1, RootBits + Rest), inx |-> 0], slot |-> Bucket(cooled), cut |-> FALSE]
     ELSE IF Len(s) = 2
     THEN [arm |-> [arm EXCEPT !.inx = 0], slot |-> cooled[3 - i], cut |-> TRUE]
     ELSE [arm |-> [arm EXCEPT !.inx = i], slot |-> Bucket(RemoveAt(cooled, i)), cut |-> TRUE]

\* _ch_trim_node, of what became of a slot: a node is shrunk, or gives way to the
\* entry that is left beside the slot.
Shrunk(n, bit, i, got) ==
  IF ~got.cut \/ got.slot # Null THEN [got EXCEPT !.slot = [n EXCEPT !.sot[i] = got.slot]]
  ELSE IF Len(n.sot) = 2 /\ n.sot[3 - i].is = "entry" THEN [got EXCEPT !.slot = n.sot[3 - i]]
  ELSE [got EXCEPT !.slot = Sparse(n.map \ {bit}, RemoveAt(n.sot, i))]

\* _ch_trim_slot, _ch_trim_some, _ch_trim_node
RECURSIVE TrimSlot(_, _, _, _)
TrimSlot(arm, s, lef, rem) ==
  IF s.is = "entry" THEN TrimEntry(Skip(arm, lef), s)
  ELSE IF lef = 0 THEN TrimBuck(arm, s.sot)
  ELSE LET l == lef - NodeBits
           bit == High(rem, l)
           i == Index(s.map, bit)
       IN IF bit \notin s.map THEN [arm |-> Skip(arm, l), slot |-> s, cut |-> FALSE]
          ELSE Shrunk(s, bit, i, TrimSlot(arm, s.sot[i], l, CutEnd(rem, l)))

\* _ch_trim_root
TrimRoot(t) ==
  LET inx == High(t.arm.mug, Rest)
      put(got) == [t EXCEPT !.arm = got.arm, !.sot[inx] = got.slot, !.use = IF got.cut THEN @ - 1 ELSE @]
  IN IF t.sot[inx] = Null THEN [t EXCEPT !.arm = Skip(@, Rest)]
     ELSE put(TrimSlot(t.arm, t.sot[inx], Rest, CutEnd(t.arm.mug, Rest)))

\* u3h_trim_to
RECURSIVE TrimTo(_, _)
TrimTo(t, n) == IF t.use <= n THEN t ELSE TrimTo(TrimRoot(t), n)

\* u3h_put
Trimmed(t) == IF t.max > 0 THEN TrimTo(t, t.max) ELSE t
HamtPut(t, k, v) ==
  LET inx == High(Mug[k], Rest)
      got == IF t.sot[inx] = Null THEN More(Entry(k, v))
             ELSE SlotPut(t.sot[inx], Entry(k, v), Rest, CutEnd(Mug[k], Rest))
  IN Trimmed([t EXCEPT !.sot[inx] = got.slot, !.use = @ + got.new])

-----------------------------------------------------------------------------
(* Reading, copying and uniting.                                           *)

\* _ch_buck_git, _ch_node_git
RECURSIVE NodeGit(_, _, _, _)
NodeGit(s, k, lef, rem) ==
  IF s.is = "entry" THEN IF s.key = k THEN {s.val} ELSE {}
  ELSE IF s.is = "buck" THEN {s.sot[i].val : i \in {j \in DOMAIN s.sot : s.sot[j].key = k}}
  ELSE LET l == lef - NodeBits
           bit == High(rem, l)
       IN IF bit \notin s.map THEN {} ELSE NodeGit(s.sot[Index(s.map, bit)], k, l, CutEnd(rem, l))

\* u3h_git: what is found, or nothing.
HamtGit(t, k) ==
  LET s == t.sot[High(Mug[k], Rest)]
  IN IF s = Null THEN {} ELSE NodeGit(s, k, Rest, CutEnd(Mug[k], Rest))

\* ... an entry in the root is warm again.
Warmed(t, k) ==
  [t EXCEPT !.sot[High(Mug[k], Rest)] = IF @.is = "entry" /\ @.key = k THEN [@ EXCEPT !.warm = TRUE] ELSE @]

\* u3h_hum: is there a key of this mug?
RECURSIVE Hum(_, _, _, _)
Hum(s, mug, lef, rem) ==
  IF s.is = "entry" THEN Mug[s.key] = mug
  ELSE IF s.is = "buck" THEN \E i \in DOMAIN s.sot : Mug[s.sot[i].key] = mug
  ELSE LET l == lef - NodeBits
           bit == High(rem, l)
       IN bit \in s.map /\ Hum(s.sot[Index(s.map, bit)], mug, l, CutEnd(rem, l))
HamtHum(t, mug) ==
  LET s == t.sot[High(mug, Rest)] IN s # Null /\ Hum(s, mug, Rest, CutEnd(mug, Rest))

\* u3h_walk_with: the entries, in order.
RECURSIVE Walk(_)
Walk(s) == IF s.is = "null" THEN << >>
           ELSE IF s.is = "entry" THEN <<s>>
           ELSE FlattenSeq([i \in DOMAIN s.sot |-> Walk(s.sot[i])])
HamtWalk(t) == FlattenSeq([i \in 1 .. 2 ^ RootBits |-> Walk(t.sot[i - 1])])

\* _ch_take_noun, _ch_take_buck, _ch_take_node: what is empty in the root is taken
\* for a node at the first word of the loom, which is always 0.
RECURSIVE TakeSlot(_)
TakeSlot(s) == IF s.is = "null" THEN Sparse({}, << >>)
               ELSE IF s.is = "entry" THEN [s EXCEPT !.warm = TRUE]
               ELSE [s EXCEPT !.sot = [i \in DOMAIN @ |-> TakeSlot(@[i])]]
HamtTake(t) == [t EXCEPT !.sot = [i \in DOMAIN @ |-> TakeSlot(@[i])]]

\* u3h_uni
HamtUni(t, y) == FoldLeft(LAMBDA x, e : HamtPut(x, e.key, e.val), t, HamtWalk(y))

-----------------------------------------------------------------------------
HamtInit ==
  /\ \E max \in Limits : tab = NewTable(max)
  /\ young = NewTable(0) /\ last = << >> /\ puts = 0

Contents(t) == [k \in {e.key : e \in Range(HamtWalk(t))} |->
                  (CHOOSE e \in Range(HamtWalk(t)) : e.key = k).val]
Overlay(c, d) == [k \in DOMAIN c \cup DOMAIN d |-> IF k \in DOMAIN d THEN d[k] ELSE c[k]]

Makes == puts < MaxPuts /\ puts' = puts + 1

\* The values are all different.
DoPut == \E k \in DOMAIN Mug :
  /\ Makes /\ UNCHANGED young
  /\ tab' = HamtPut(tab, k, puts') /\ last' = Overlay(last, [j \in {k} |-> puts'])
DoGet == \E k \in DOMAIN Mug :
  /\ Warmed(tab, k) # tab /\ tab' = Warmed(tab, k)
  /\ UNCHANGED <<young, last, puts>>
DoPutYoung == \E k \in DOMAIN Mug :
  Makes /\ UNCHANGED <<tab, last>> /\ young' = HamtPut(young, k, puts')

\* A road ends: its table is taken off the stack and put into its parent's (u3n_reap,
\* u3j_reap).
DoReap ==
  /\ young.use > 0 /\ UNCHANGED puts
  /\ tab' = HamtUni(tab, HamtTake(young)) /\ young' = NewTable(0)
  /\ last' = Overlay(last, Contents(young))

\* _ca_reclaim_half: space is found by dropping half of a cache.
DoReclaim ==
  /\ tab.max > 0 /\ tab.use > 0 /\ UNCHANGED <<young, last, puts>>
  /\ tab' = TrimTo(tab, tab.use \div 2)

HamtNext == DoPut \/ DoGet \/ DoPutYoung \/ DoReap \/ DoReclaim
HamtSpec == HamtInit /\ [][HamtNext]_hamtVars

-----------------------------------------------------------------------------
\* A table is the map of what was put in it, less what its clock dropped: each entry
\* is walked once, is found by its key and by its mug, is what was last put there and
\* is counted; a table without a bound drops nothing, and a cache keeps to its bound
\* (hashtable.c, over puts, replacements, collisions, copies, unions and trims).
TableIsMap(t, c) ==
  /\ Len(HamtWalk(t)) = Cardinality(DOMAIN c) /\ t.use = Cardinality(DOMAIN c)
  /\ \A k \in DOMAIN Mug : HamtGit(t, k) = IF k \in DOMAIN c THEN {c[k]} ELSE {}
  /\ \A m \in Range(Mug) : HamtHum(t, m) <=> \E k \in DOMAIN c : Mug[k] = m

TablesAreMaps ==
  /\ \A t \in {tab, young} : TableIsMap(t, Contents(t))
  /\ \A k \in DOMAIN Contents(tab) : k \in DOMAIN last /\ Contents(tab)[k] = last[k]
  /\ IF tab.max = 0 THEN DOMAIN last \subseteq DOMAIN Contents(tab) ELSE tab.use <= tab.max
=============================================================================
