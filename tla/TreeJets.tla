------------------------------ MODULE TreeJets ------------------------------
(***************************************************************************)
(* The jets of sets and maps (jets/d): treaps, ordered sideways by the mug *)
(* of their keys (+gor) and downwards by the mug of that mug (+mor).  Two  *)
(* maps are built, changed and combined; keys that share a mug are told    *)
(* apart by +dor.  A set is a map whose values say nothing.                *)
(***************************************************************************)
EXTENDS Naturals, Sequences, FiniteSets, SequencesExt

CONSTANTS Keys,    \* keys, in the order of +dor
          Values,  \* values
          Tables   \* [mug |-> Keys -> mugs, mor |-> mugs -> their mugs]

VARIABLES table,   \* the mugs of this run, or NoTable before it starts
          a, b,    \* two maps
          ca, cb   \* what was put in them: functions from keys to values

treeVars == <<table, a, b, ca, cb>>

NoTable == [mug |-> << >>, mor |-> << >>]
Leaf == << >>
Node(p, q, l, r) == [p |-> p, q |-> q, l |-> l, r |-> r]
In == 0            \* the value of a key of a set

-----------------------------------------------------------------------------
(* The orders.                                                             *)

Dor(x, y) == x <= y

Gor(x, y) == LET c == table.mug[x]
                 d == table.mug[y]
             IN  IF c = d THEN Dor(x, y) ELSE c < d

Mor(x, y) == LET c == table.mor[table.mug[x]]
                 d == table.mor[table.mug[y]]
             IN  IF c = d THEN Dor(x, y) ELSE c < d

-----------------------------------------------------------------------------
(* Maps (by_*.c).                                                          *)

\* Faulty: the child never comes up.
RECURSIVE PutBelow(_, _, _)
PutBelow(t, k, v) ==
  IF t = Leaf THEN Node(k, v, Leaf, Leaf)
  ELSE IF k = t.p THEN [t EXCEPT !.q = v]
  ELSE IF Gor(k, t.p) THEN [t EXCEPT !.l = PutBelow(t.l, k, v)]
       ELSE [t EXCEPT !.r = PutBelow(t.r, k, v)]

\* Into the side it belongs to; the child comes up if it should be above.
RECURSIVE Put(_, _, _)
Put(t, k, v) ==
  IF t = Leaf THEN Node(k, v, Leaf, Leaf)
  ELSE IF k = t.p THEN [t EXCEPT !.q = v]
  ELSE IF Gor(k, t.p)
       THEN LET d == Put(t.l, k, v)
            IN  IF Mor(t.p, d.p) THEN [t EXCEPT !.l = d]
                ELSE [d EXCEPT !.r = [t EXCEPT !.l = d.r]]
       ELSE LET d == Put(t.r, k, v)
            IN  IF Mor(t.p, d.p) THEN [t EXCEPT !.r = d]
                ELSE [d EXCEPT !.l = [t EXCEPT !.r = d.l]]

\* A tree without its root.
RECURSIVE Rebalance(_)
Rebalance(t) ==
  IF t.l = Leaf THEN t.r
  ELSE IF t.r = Leaf THEN t.l
  ELSE IF Mor(t.l.p, t.r.p)
       THEN [t.l EXCEPT !.r = Rebalance([t EXCEPT !.l = t.l.r])]
       ELSE [t.r EXCEPT !.l = Rebalance([t EXCEPT !.r = t.r.l])]

RECURSIVE Del(_, _)
Del(t, k) ==
  IF t = Leaf THEN Leaf
  ELSE IF k = t.p THEN Rebalance(t)
  ELSE IF Gor(k, t.p) THEN [t EXCEPT !.l = Del(t.l, k)]
  ELSE [t EXCEPT !.r = Del(t.r, k)]

\* A key is put at the root whatever its mug, and its two sides are taken.
RECURSIVE PutRoot(_, _, _)
PutRoot(t, k, v) ==
  IF t = Leaf THEN Node(k, v, Leaf, Leaf)
  ELSE IF k = t.p THEN [t EXCEPT !.q = v]
  ELSE IF Gor(k, t.p) THEN LET c == PutRoot(t.l, k, v)
                           IN  [c EXCEPT !.r = [t EXCEPT !.l = c.r]]
  ELSE LET c == PutRoot(t.r, k, v) IN [c EXCEPT !.l = [t EXCEPT !.r = c.l]]

Bif(t, k, v) == LET c == PutRoot(t, k, v) IN [l |-> c.l, r |-> c.r]

RECURSIVE Join(_, _)
Join(d, e) == IF d = Leaf THEN e
              ELSE IF e = Leaf THEN d
              ELSE IF Mor(d.p, e.p) THEN [d EXCEPT !.r = Join(d.r, e)]
              ELSE [e EXCEPT !.l = Join(d, e.l)]

RECURSIVE Dif(_, _)
Dif(t, u) == IF u = Leaf THEN t
             ELSE LET c == Bif(t, u.p, u.q) IN Join(Dif(c.l, u.l), Dif(c.r, u.r))

\* The side of the lower tree that goes under a side of the upper one, and
\* then the other side with all of it.  The second map's values win.
RECURSIVE Uni(_, _)
Uni(t, u) ==
  IF u = Leaf THEN t
  ELSE IF t = Leaf THEN u
  ELSE IF t.p = u.p THEN Node(u.p, u.q, Uni(t.l, u.l), Uni(t.r, u.r))
  ELSE IF Mor(t.p, u.p)
       THEN IF Gor(u.p, t.p)
            THEN Uni([t EXCEPT !.l = Uni(t.l, [u EXCEPT !.r = Leaf])], u.r)
            ELSE Uni([t EXCEPT !.r = Uni(t.r, [u EXCEPT !.l = Leaf])], u.l)
       ELSE IF Gor(t.p, u.p)
            THEN Uni(t.r, [u EXCEPT !.l = Uni([t EXCEPT !.r = Leaf], u.l)])
            ELSE Uni(t.l, [u EXCEPT !.r = Uni([t EXCEPT !.l = Leaf], u.r)])

RECURSIVE ByInt(_, _)
ByInt(t, u) ==
  IF t = Leaf \/ u = Leaf THEN Leaf
  ELSE IF t.p = u.p THEN Node(u.p, u.q, ByInt(t.l, u.l), ByInt(t.r, u.r))
  ELSE IF Mor(t.p, u.p)
       THEN IF Gor(u.p, t.p)
            THEN Uni(ByInt(t.l, [u EXCEPT !.r = Leaf]), ByInt(t, u.r))
            ELSE Uni(ByInt(t.r, [u EXCEPT !.l = Leaf]), ByInt(t, u.l))
       ELSE IF Gor(t.p, u.p)
            THEN Uni(ByInt([t EXCEPT !.r = Leaf], u.l), ByInt(t.r, u))
            ELSE Uni(ByInt([t EXCEPT !.l = Leaf], u.r), ByInt(t.l, u))

RECURSIVE Get(_, _)
Get(t, k) == IF t = Leaf THEN << >>
             ELSE IF k = t.p THEN <<t.q>>
             ELSE IF Gor(k, t.p) THEN Get(t.l, k) ELSE Get(t.r, k)

RECURSIVE Has(_, _)
Has(t, k) == IF t = Leaf THEN FALSE
             ELSE k = t.p \/ (IF Gor(k, t.p) THEN Has(t.l, k) ELSE Has(t.r, k))

RECURSIVE Gas(_, _)
Gas(t, s) == IF s = << >> THEN t ELSE Gas(Put(t, s[1].p, s[1].q), Tail(s))

\* The value of a key is replaced by the gate's.  A key that is not there is
\* a crash, and the caller checks it is.
Turned(v) == CHOOSE w \in Values : w # v
RECURSIVE Jab(_, _)
Jab(t, k) == IF k = t.p THEN [t EXCEPT !.q = Turned(@)]
             ELSE IF Gor(k, t.p) THEN [t EXCEPT !.l = Jab(t.l, k)]
             ELSE [t EXCEPT !.r = Jab(t.r, k)]

RECURSIVE Run(_)
Run(t) == IF t = Leaf THEN Leaf ELSE Node(t.p, Turned(t.q), Run(t.l), Run(t.r))

RECURSIVE Urn(_)
Urn(t) == IF t = Leaf THEN Leaf
          ELSE Node(t.p, IF t.p = 1 THEN t.q ELSE Turned(t.q), Urn(t.l), Urn(t.r))

\* A value that fails, or passes, ends the search.
RECURSIVE ByAll(_, _)
ByAll(t, v) == IF t = Leaf THEN TRUE ELSE t.q = v /\ ByAll(t.l, v) /\ ByAll(t.r, v)
RECURSIVE ByAny(_, _)
ByAny(t, v) == IF t = Leaf THEN FALSE ELSE t.q = v \/ ByAny(t.l, v) \/ ByAny(t.r, v)

\* Between the keys l and r, sequences of at most one key, and in order.
RECURSIVE AptIn(_, _, _)
AptIn(t, l, r) ==
  \/ t = Leaf
  \/ /\ \A i \in DOMAIN l : Gor(t.p, l[i]) /\ t.p # l[i]
     /\ \A i \in DOMAIN r : Gor(r[i], t.p) /\ t.p # r[i]
     /\ t.l # Leaf => Mor(t.p, t.l.p) /\ t.p # t.l.p /\ AptIn(t.l, <<t.p>>, r)
     /\ t.r # Leaf => Mor(t.p, t.r.p) /\ t.p # t.r.p /\ AptIn(t.r, l, <<t.p>>)
Apt(t) == AptIn(t, << >>, << >>)

-----------------------------------------------------------------------------
(* Sets (in_*.c).                                                          *)

InPut(t, k) == Put(t, k, In)
InDel(t, k) == Del(t, k)
InBif(t, k) == Bif(t, k, In)
InHas(t, k) == Has(t, k)
InGas(t, ks) == Gas(t, [i \in DOMAIN ks |-> [p |-> ks[i], q |-> In]])

RECURSIVE InDif(_, _)
InDif(t, u) == IF u = Leaf THEN t
               ELSE LET c == InBif(t, u.p)
                    IN  Join(InDif(c.l, u.l), InDif(c.r, u.r))

RECURSIVE KeyInto(_, _)
KeyInto(t, set) ==
  IF t = Leaf THEN set ELSE KeyInto(t.r, KeyInto(t.l, InPut(set, t.p)))
KeySet(t) == KeyInto(t, Leaf)

RECURSIVE InUni(_, _)
InUni(t, u) ==
  IF t = Leaf THEN u
  ELSE IF u = Leaf THEN t
  ELSE IF t.p = u.p THEN Node(u.p, In, InUni(t.l, u.l), InUni(t.r, u.r))
  ELSE IF ~Mor(t.p, u.p)
       THEN IF Gor(t.p, u.p)
            THEN InUni(t.r, [u EXCEPT !.l = InUni([t EXCEPT !.r = Leaf], u.l)])
            ELSE InUni(t.l, [u EXCEPT !.r = InUni([t EXCEPT !.l = Leaf], u.r)])
       ELSE IF Gor(u.p, t.p)
            THEN InUni([t EXCEPT !.l = InUni(t.l, [u EXCEPT !.r = Leaf])], u.r)
            ELSE InUni([t EXCEPT !.r = InUni(t.r, [u EXCEPT !.l = Leaf])], u.l)

\* The set whose root belongs above goes second.
RECURSIVE InInt(_, _)
InInt(x, y) ==
  IF x = Leaf \/ y = Leaf THEN Leaf
  ELSE LET t == IF Mor(x.p, y.p) THEN y ELSE x
           u == IF Mor(x.p, y.p) THEN x ELSE y
       IN  IF t.p = u.p THEN Node(t.p, In, InInt(t.l, u.l), InInt(t.r, u.r))
           ELSE IF Gor(u.p, t.p)
                THEN InUni(InInt(t.l, [u EXCEPT !.r = Leaf]), InInt(t, u.r))
                ELSE InUni(InInt(t.r, [u EXCEPT !.l = Leaf]), InInt(t, u.l))

\* The keys of a set in the order they are visited, and as a list.
RECURSIVE Visit(_)
Visit(t) == IF t = Leaf THEN << >> ELSE <<t.p>> \o Visit(t.l) \o Visit(t.r)

\* The gate of a run merges keys; a gate that reduces keeps their order.
Merged(k) == 1 + k \div 2
InRun(t) == FoldLeft(LAMBDA set, k : InPut(set, Merged(k)), Leaf, Visit(t))
InRep(t) == FoldLeft(LAMBDA out, k : Append(out, k), << >>, Visit(t))

RECURSIVE TapOnto(_, _)
TapOnto(t, list) == IF t = Leaf THEN list ELSE TapOnto(t.r, <<t.p>> \o TapOnto(t.l, list))
Tap(t) == TapOnto(t, << >>)

RECURSIVE Wyt(_)
Wyt(t) == IF t = Leaf THEN 0 ELSE 1 + Wyt(t.l) + Wyt(t.r)

\* The same order as for maps, but a key next to itself would pass.
RECURSIVE InAptIn(_, _, _)
InAptIn(t, l, r) ==
  \/ t = Leaf
  \/ /\ \A i \in DOMAIN l : Gor(t.p, l[i])
     /\ \A i \in DOMAIN r : Gor(r[i], t.p)
     /\ t.l # Leaf => Mor(t.p, t.l.p) /\ InAptIn(t.l, <<t.p>>, r)
     /\ t.r # Leaf => Mor(t.p, t.r.p) /\ InAptIn(t.r, l, <<t.p>>)
InApt(t) == InAptIn(t, << >>, << >>)

-----------------------------------------------------------------------------
(* Programs that build and combine two maps.                               *)

Empty == [k \in {} |-> In]
TreesInit == table = NoTable /\ a = Leaf /\ b = Leaf /\ ca = Empty /\ cb = Empty

Start == /\ table = NoTable
         /\ table' \in Tables
         /\ UNCHANGED <<a, b, ca, cb>>

With(c, k, v) == [j \in DOMAIN c \cup {k} |-> IF j = k THEN v ELSE c[j]]
Without(c, ks) == [j \in DOMAIN c \ ks |-> c[j]]
Over(c, d) == [j \in DOMAIN c \cup DOMAIN d |-> IF j \in DOMAIN d THEN d[j] ELSE c[j]]

ToA(t, c) == table # NoTable /\ a' = t /\ ca' = c /\ UNCHANGED <<table, b, cb>>

DoPut == \E k \in Keys, v \in Values : ToA(Put(a, k, v), With(ca, k, v))
DoDel == \E k \in Keys : ToA(Del(a, k), Without(ca, {k}))
DoGas == \E k \in Keys, j \in Keys, v \in Values :
           ToA(Gas(a, <<[p |-> k, q |-> v], [p |-> j, q |-> v]>>), With(With(ca, k, v), j, v))
DoUni == ToA(Uni(a, b), Over(ca, cb))
DoInt == ToA(ByInt(a, b), [k \in DOMAIN ca \cap DOMAIN cb |-> cb[k]])
DoDif == ToA(Dif(a, b), Without(ca, DOMAIN cb))
DoJab == \E k \in DOMAIN ca : ToA(Jab(a, k), [ca EXCEPT ![k] = Turned(@)])
DoRun == ToA(Run(a), [k \in DOMAIN ca |-> Turned(ca[k])])
DoUrn == ToA(Urn(a), [k \in DOMAIN ca |-> IF k = 1 THEN ca[k] ELSE Turned(ca[k])])
DoSwap == /\ table # NoTable
          /\ a' = b /\ b' = a /\ ca' = cb /\ cb' = ca
          /\ UNCHANGED table

TreesNext == \/ Start \/ DoPut \/ DoDel \/ DoGas \/ DoUni \/ DoInt \/ DoDif
             \/ DoJab \/ DoRun \/ DoUrn \/ DoSwap
TreesSpec == TreesInit /\ [][TreesNext]_treeVars

-----------------------------------------------------------------------------
(* The one tree that holds a map: above all is the key that is above all   *)
(* others, beside it those that are on either side.                        *)

RECURSIVE Canon(_)
Canon(c) ==
  IF DOMAIN c = {} THEN Leaf
  ELSE LET top == CHOOSE k \in DOMAIN c : \A j \in DOMAIN c : Mor(k, j)
           left == {k \in DOMAIN c \ {top} : Gor(k, top)}
       IN  Node(top, c[top], Canon([k \in left |-> c[k]]),
                Canon([k \in DOMAIN c \ (left \cup {top}) |-> c[k]]))

SetOf(ks) == Canon([k \in ks |-> In])
Ordered(ks) == CHOOSE s \in [1 .. Cardinality(ks) -> ks] :
                 \A i, j \in DOMAIN s : i < j => ~Gor(s[i], s[j])

\* Whatever was done to build it, a map or set is the one tree its contents
\* have, so that two of the same contents are the same noun; and what is read
\* back from it is what was put in (jets/d and the engines +by and +in).
TreesAreCanonical ==
  table # NoTable =>
  LET sa == SetOf(DOMAIN ca)
      sb == SetOf(DOMAIN cb)
  IN  /\ a = Canon(ca) /\ Apt(a)
      /\ \A k \in Keys : /\ Get(a, k) = IF k \in DOMAIN ca THEN <<ca[k]>> ELSE << >>
                         /\ Has(a, k) <=> k \in DOMAIN ca
      /\ \A v \in Values : /\ ByAll(a, v) <=> \A k \in DOMAIN ca : ca[k] = v
                           /\ ByAny(a, v) <=> \E k \in DOMAIN ca : ca[k] = v
      /\ KeySet(a) = sa /\ InApt(sa) /\ Wyt(sa) = Cardinality(DOMAIN ca)
      /\ Tap(sa) = Ordered(DOMAIN ca)
      /\ Range(InRep(sa)) = DOMAIN ca
      /\ InRun(sa) = SetOf({Merged(k) : k \in DOMAIN ca})
      /\ \A k \in Keys :
           /\ InDel(sa, k) = SetOf(DOMAIN ca \ {k})
           /\ InBif(sa, k) = [l |-> SetOf({j \in DOMAIN ca \ {k} : Gor(j, k)}),
                              r |-> SetOf({j \in DOMAIN ca \ {k} : Gor(k, j)})]
           /\ InHas(sa, k) <=> k \in DOMAIN ca
      /\ InGas(sb, Tap(sa)) = SetOf(DOMAIN ca \cup DOMAIN cb)
      /\ InDif(sa, sb) = SetOf(DOMAIN ca \ DOMAIN cb)
      /\ InUni(sa, sb) = SetOf(DOMAIN ca \cup DOMAIN cb)
      /\ InInt(sa, sb) = SetOf(DOMAIN ca \cap DOMAIN cb)
=============================================================================
