--------------------------- MODULE SnapshotProofs ---------------------------
(***************************************************************************)
(* Snapshots, for every number of pages and of events: no page that was    *)
(* cut within a write is ever computed with, and a clean page is in its    *)
(* image as it is in memory, when processes are killed, or when the power  *)
(* fails, at any step.                                                     *)
(***************************************************************************)
EXTENDS Snapshot, TLAPS, SequenceTheorems

\* A behaviour meets one kind of failure: with both, a process killed while it
\* applies a patch leaves pages that a later loss of power may take.
OneFate == \A f \in Fates : ~({"kill", "power"} \subseteq f)

-----------------------------------------------------------------------------
(* The inductive invariant.                                                *)

TopsOf(c) == [nor |-> c.nor, sou |-> c.sou]

\* The kth line of the patch c is for the page n of the segment s.
LineAt(c, k, s, n) ==
  SegmentOf(c.pag[k], TopsOf(c)) = s /\ OffsetOf(c.pag[k], TopsOf(c)) = n

IsLine(c, s, n) == \E k \in 1 .. Len(c.pag) : LineAt(c, k, s, n)

\* The page p has a line in the patch c.
InPatch(c, p) == \E k \in 1 .. Len(c.pag) : c.pag[k] = p

\* The images i have the page p of the memory m, whose watermarks are t.
Kept(i, t, m, p) ==
  /\ OffsetOf(p, t) <= Len(i[SegmentOf(p, t)].dat)
  /\ i[SegmentOf(p, t)].dat[OffsetOf(p, t)] = m[p]

ImageOK(f) == f \in [dat : Seq(Data), torn : BOOLEAN] /\ Len(f.dat) <= Pages

ImagesOK(i) == i \in Images /\ \A s \in Segment : ImageOK(i[s])

\* Images that can be loaded: no page is cut, and they leave room for each other.
Good(i) ==
  /\ \A s \in Segment : \A n \in 1 .. Len(i[s].dat) : i[s].dat[n] # Bad
  /\ Len(i["nor"].dat) + Len(i["sou"].dat) <= Pages

\* Images that a patch makes good: they have what the patch has not.
Base(i, c) ==
  \A s \in Segment : \A n \in 1 .. TopsOf(c)[s] :
    IsLine(c, s, n) \/ (n <= Len(i[s].dat) /\ i[s].dat[n] # Bad)

\* What the disk has of images that are being patched.
Durable(d, i, c) ==
  \A s \in Segment : \A n \in 1 .. TopsOf(c)[s] :
    IsLine(c, s, n) \/ (n <= Len(d[s].dat) /\ d[s].dat[n] = i[s].dat[n])

\* A control block records no page that is cut, and pages in use only.
ControlOK(c) ==
  /\ c \in ControlType
  /\ Len(c.mug) = Len(c.pag)
  /\ \A k \in 1 .. Len(c.mug) : c.mug[k] # Bad
  /\ c.whole = TRUE =>
       /\ c.nor + c.sou <= Pages
       /\ \A k \in 1 .. Len(c.pag) : c.pag[k] \in Live(TopsOf(c))

PairOK(i, c, m) ==
  /\ c = None \/ ControlOK(c)
  /\ m = None \/ m \in MemoryType
  /\ Verifies(c, m) => Base(i, c)

Saving   == {"idle", "memory", "pages", "syncC", "syncM"}
Applying == {"trimN", "trimS", "apply", "syncS"}

TypeInv ==
  /\ fate \in Fates
  /\ at \in {"down", "refused", "load", "idle", "memory", "pages", "syncC", "syncM",
             "trimN", "trimS", "apply", "syncS", "dropC", "dropM"}
  /\ live \in BOOLEAN
  /\ loom \in [Page -> Data \ {Bad}]
  /\ top \in [Segment -> 0 .. Pages] /\ top.nor + top.sou <= Pages
  /\ dit \subseteq Page
  /\ pgc \in Nat
  /\ ImagesOK(img) /\ ImagesOK(dsk)

\* Every patch that is there, or that a power loss may bring back, can be applied.
PatchesInv ==
  /\ PairOK(img, ctl, mem)
  /\ \A d \in jrn : d = <<d[1], d[2]>> /\ PairOK(img, d[1], d[2])

\* The images are good but while a patch is applied, or waits for it.
GoodInv ==
  at \notin Applying \cup {"refused"} =>
    Good(img) \/ (at = "down" /\ Verifies(ctl, mem))

\* Whether there is a patch, by the step of a save.
StepInv ==
  /\ at \in {"load", "idle", "dropM"} => ctl = None
  /\ at \in {"memory", "pages"} => ctl # None /\ ctl.whole = FALSE
  /\ at = "memory" => Len(ctl.pag) = 0
  /\ at = "pages" =>
       /\ mem # None /\ Len(mem.dat) = Len(ctl.pag)
       /\ \A k \in 1 .. Len(ctl.pag) : mem.dat[k] = ctl.mug[k]
  /\ at \in {"syncC", "syncM"} \cup Applying => Verifies(ctl, mem)
  /\ at = "syncM" => ctl.syn = TRUE

\* A patch that the images need.
Needed == at \in Applying \/ (at = "down" /\ Verifies(ctl, mem))

\* What the power can take: nothing, but pages that the patch has.
PowerInv ==
  /\ "power" \notin fate \/ Needed => jrn = {}
  /\ "power" \in fate =>
       /\ Needed => ctl.syn = TRUE /\ mem.syn = TRUE
       /\ at \notin Applying => dsk = img
       /\ at = "syncS" => dsk["nor"] = img["nor"]
       /\ at \in Applying => Durable(dsk, img, ctl)

\* The kth line is in the images i, and is what the memory has there.
Placed(i, c, k) ==
  \A s \in Segment : \A n \in 1 .. Pages : LineAt(c, k, s, n) =>
    /\ n <= Len(i[s].dat)
    /\ i[s].dat[n] # Bad
    /\ live = TRUE => i[s].dat[n] = loom[c.pag[k]]

\* How far a patch is applied.
ApplyInv ==
  /\ at \in {"trimS", "apply", "syncS"} => Len(img["nor"].dat) <= ctl.nor
  /\ at \in {"apply", "syncS"} => Len(img["sou"].dat) <= ctl.sou
  /\ at = "apply" => pgc > 0
  /\ at \in {"apply", "syncS"} =>
       \A k \in 1 .. Len(ctl.pag) : at = "syncS" \/ k < pgc => Placed(img, ctl, k)

\* Where the pages in memory are saved.
LiveInv ==
  /\ at \in Saving => live = TRUE
  /\ at \in {"down", "load"} => live = FALSE
  /\ at \in {"idle", "memory"} =>
       \A p \in Live(top) \ dit : Kept(img, top, loom, p)
  /\ at = "pages" =>
       /\ \A p \in Live(top) \ dit : Kept(img, top, loom, p) \/ InPatch(ctl, p)
       /\ \A k \in 1 .. Len(ctl.pag) : ctl.pag[k] \in Live(top)
  /\ at \in {"pages", "syncC", "syncM"} \/ (at \in Applying /\ live = TRUE) =>
       \A k \in 1 .. Len(ctl.pag) : mem.dat[k] = loom[ctl.pag[k]]
  /\ at \in {"syncC", "syncM"} \/ (at \in Applying /\ live = TRUE) =>
       /\ ctl.nor = top.nor /\ ctl.sou = top.sou
       /\ \A p \in Live(top) : Kept(img, top, loom, p) \/ InPatch(ctl, p)
  /\ at \in {"dropC", "dropM"} /\ live = TRUE =>
       \A p \in Live(top) : Kept(img, top, loom, p)

SnapInv ==
  /\ TypeInv /\ PatchesInv /\ GoodInv /\ StepInv /\ PowerInv /\ ApplyInv /\ LiveInv

-----------------------------------------------------------------------------
(* Segments, patches and image files.                                      *)

\* A control block and a memory file are not the absence of one.
LEMMA FilesAreThere ==
  /\ \A c \in ControlType : c # None
  /\ \A m \in MemoryType : m # None
<1>1. DOMAIN None = {"none"}
  BY DEF None
<1>2. ASSUME NEW c \in ControlType PROVE c # None
  <2>1. DOMAIN c = {"whole", "syn", "nor", "sou", "pag", "mug"}
    BY DEF ControlType
  <2>2. "whole" \in DOMAIN c /\ "whole" \notin DOMAIN None
    BY <1>1, <2>1
  <2> QED
    BY <2>2
<1>3. ASSUME NEW m \in MemoryType PROVE m # None
  <2>1. DOMAIN m = {"syn", "dat"}
    BY DEF MemoryType
  <2>2. "syn" \in DOMAIN m /\ "syn" \notin DOMAIN None
    BY <1>1, <2>1
  <2> QED
    BY <2>2
<1> QED
  BY <1>2, <1>3

\* A page in use has an offset in its segment.
LEMMA PageHasOffset ==
  ASSUME NEW t, t.nor \in Nat, t.sou \in Nat, t.nor + t.sou <= Pages,
         NEW p \in Live(t)
  PROVE  /\ p \in Page
         /\ SegmentOf(p, t) \in Segment
         /\ OffsetOf(p, t) \in 1 .. t[SegmentOf(p, t)]
         /\ OffsetOf(p, t) \in 1 .. Pages
  BY SnapshotAssumption DEF Live, Page, SegmentOf, OffsetOf, Segment

\* An offset of a segment is that of a page in use.
LEMMA OffsetHasPage ==
  ASSUME NEW t, t.nor \in Nat, t.sou \in Nat, t.nor + t.sou <= Pages,
         NEW s \in Segment, NEW n \in 1 .. t[s]
  PROVE  \E p \in Live(t) : SegmentOf(p, t) = s /\ OffsetOf(p, t) = n
<1>1. CASE s = "nor"
  <2>1. n - 1 \in Live(t) /\ SegmentOf(n - 1, t) = s /\ OffsetOf(n - 1, t) = n
    BY <1>1, SnapshotAssumption DEF Live, Page, SegmentOf, OffsetOf
  <2> QED
    BY <2>1
<1>2. CASE s = "sou"
  <2>1. Pages - n \in Live(t) /\ SegmentOf(Pages - n, t) = s /\ OffsetOf(Pages - n, t) = n
    BY <1>2, SnapshotAssumption DEF Live, Page, SegmentOf, OffsetOf
  <2> QED
    BY <2>1
<1> QED
  BY <1>1, <1>2 DEF Segment

\* No two pages share an offset.
LEMMA OffsetsDiffer ==
  ASSUME NEW t, t.nor \in Nat, NEW p \in Page, NEW q \in Page,
         SegmentOf(p, t) = SegmentOf(q, t), OffsetOf(p, t) = OffsetOf(q, t)
  PROVE  p = q
  BY SnapshotAssumption DEF Page, SegmentOf, OffsetOf

\* Only the watermarks matter.
LEMMA SameTops ==
  ASSUME NEW t, NEW u, t.nor = u.nor, t.sou = u.sou
  PROVE  /\ Live(t) = Live(u)
         /\ \A p : SegmentOf(p, t) = SegmentOf(p, u) /\ OffsetOf(p, t) = OffsetOf(p, u)
  BY DEF Live, SegmentOf, OffsetOf

\* What a patch needs of the images depends on its lines and watermarks.
LEMMA SameLines ==
  ASSUME NEW c, NEW d, c.nor = d.nor, c.sou = d.sou, c.pag = d.pag
  PROVE  /\ \A k, s, n : LineAt(c, k, s, n) <=> LineAt(d, k, s, n)
         /\ \A i : Base(i, c) <=> Base(i, d)
         /\ \A e, i : Durable(e, i, c) <=> Durable(e, i, d)
<1>1. TopsOf(c) = TopsOf(d)
  BY DEF TopsOf
<1>2. \A k, s, n : LineAt(c, k, s, n) <=> LineAt(d, k, s, n)
  BY <1>1 DEF LineAt
<1>3. \A s, n : IsLine(c, s, n) <=> IsLine(d, s, n)
  BY <1>2 DEF IsLine
<1> QED
  BY <1>1, <1>2, <1>3 DEF Base, Durable

\* A patch that verifies.
LEMMA VerifiedPatch ==
  ASSUME NEW c, NEW m, c = None \/ ControlOK(c), m = None \/ m \in MemoryType
  PROVE  Verifies(c, m) <=> /\ c # None /\ ControlOK(c) /\ m # None /\ m \in MemoryType
                            /\ c.whole = TRUE
                            /\ Len(m.dat) >= Len(c.pag)
                            /\ \A k \in 1 .. Len(c.pag) : m.dat[k] = c.mug[k]
<1>1. CASE c = None \/ m = None
  BY <1>1 DEF Verifies
<1>2. CASE c # None /\ m # None
  <2>1. ControlOK(c) /\ m \in MemoryType
    BY <1>2
  <2>2. c.whole \in BOOLEAN
    BY <2>1 DEF ControlOK, ControlType
  <2> QED
    BY <1>2, <2>1, <2>2 DEF Verifies
<1> QED
  BY <1>1, <1>2

\* The lines of a whole control block are for offsets below its watermarks.
LEMMA LineHasOffset ==
  ASSUME NEW c, ControlOK(c), c.whole = TRUE, NEW k \in 1 .. Len(c.pag)
  PROVE  /\ c.pag[k] \in Page
         /\ SegmentOf(c.pag[k], TopsOf(c)) \in Segment
         /\ OffsetOf(c.pag[k], TopsOf(c)) \in 1 .. TopsOf(c)[SegmentOf(c.pag[k], TopsOf(c))]
         /\ OffsetOf(c.pag[k], TopsOf(c)) \in 1 .. Pages
<1>1. TopsOf(c).nor \in Nat /\ TopsOf(c).sou \in Nat /\ TopsOf(c).nor + TopsOf(c).sou <= Pages
  BY DEF ControlOK, ControlType, TopsOf
<1>2. c.pag[k] \in Live(TopsOf(c))
  BY DEF ControlOK
<1> QED
  BY <1>1, <1>2, PageHasOffset

\* A function on 1 .. n is a sequence of length n.
LEMMA FunctionIsSeq ==
  ASSUME NEW S, NEW n \in Nat, NEW d \in [1 .. n -> S]
  PROVE  d \in Seq(S) /\ Len(d) = n
<1>1. d \in Seq(S)
  BY SeqDef
<1>2. Len(d) \in Nat /\ DOMAIN d = 1 .. Len(d) /\ DOMAIN d = 1 .. n
  BY <1>1, LenProperties
<1>3. Len(d) = n
  <2>1. CASE n > Len(d)
    <3>1. n \in 1 .. n /\ n \notin 1 .. Len(d)
      BY <1>2, <2>1
    <3> QED
      BY <1>2, <3>1
  <2>2. CASE n < Len(d)
    <3>1. Len(d) \in 1 .. Len(d) /\ Len(d) \notin 1 .. n
      BY <1>2, <2>2
    <3> QED
      BY <1>2, <3>1
  <2> QED
    BY <1>2, <2>1, <2>2
<1> QED
  BY <1>1, <1>3

\* A page that is written at an offset: the rest of the file is as it was.
LEMMA WriteAtKeeps ==
  ASSUME NEW f, ImageOK(f), NEW n \in 1 .. Pages, NEW v \in Data
  PROVE  LET g == WriteAt(f, n, v)
         IN  /\ ImageOK(g)
             /\ Len(g.dat) = IF n > Len(f.dat) THEN n ELSE Len(f.dat)
             /\ g.dat[n] = v
             /\ \A j \in 1 .. Len(f.dat) : j # n => g.dat[j] = f.dat[j]
<1> DEFINE l == IF n > Len(f.dat) THEN n ELSE Len(f.dat)
           d == [j \in 1 .. l |-> IF j = n THEN v ELSE IF j <= Len(f.dat) THEN f.dat[j] ELSE 0]
<1>1. f.dat \in Seq(Data) /\ Len(f.dat) \in Nat /\ l \in Nat /\ n <= l /\ l <= Pages
  BY SnapshotAssumption DEF ImageOK
<1>2. 0 \in Data
  BY SnapshotAssumption DEF Data, Bad
<1>3. \A j \in 1 .. l : d[j] \in Data
  BY <1>1, <1>2
<1>4. d \in Seq(Data) /\ Len(d) = l
  <2>1. d \in [1 .. l -> Data]
    BY <1>3
  <2> QED
    BY <1>1, <2>1, FunctionIsSeq
<1>5. WriteAt(f, n, v) = [f EXCEPT !.dat = d]
  BY DEF WriteAt
<1>6. WriteAt(f, n, v) \in [dat : Seq(Data), torn : BOOLEAN] /\ WriteAt(f, n, v).dat = d
  BY <1>4, <1>5 DEF ImageOK
<1>7. d[n] = v /\ (\A j \in 1 .. Len(f.dat) : j # n => d[j] = f.dat[j])
  BY <1>1
<1> QED
  BY <1>1, <1>4, <1>6, <1>7 DEF ImageOK

\* A file that is cut to a length, if it is longer.
LEMMA ResizeKeeps ==
  ASSUME NEW f, ImageOK(f), NEW n \in Nat
  PROVE  LET g == Resize(f, n)
         IN  /\ ImageOK(g)
             /\ Len(g.dat) = IF Len(f.dat) > n THEN n ELSE Len(f.dat)
             /\ \A j \in 1 .. Len(g.dat) : g.dat[j] = f.dat[j]
<1>1. f.dat \in Seq(Data) /\ Len(f.dat) \in Nat
  BY DEF ImageOK
<1>2. CASE Len(f.dat) > n
  <2>1. SubSeq(f.dat, 1, n) \in Seq(Data) /\ Len(SubSeq(f.dat, 1, n)) = n
    BY <1>1, <1>2
  <2>2. \A j \in 1 .. n : SubSeq(f.dat, 1, n)[j] = f.dat[j]
    BY <1>1, <1>2
  <2>3. Resize(f, n) = [f EXCEPT !.dat = SubSeq(f.dat, 1, n)]
    BY <1>2 DEF Resize
  <2>4. /\ Resize(f, n) \in [dat : Seq(Data), torn : BOOLEAN]
        /\ Resize(f, n).dat = SubSeq(f.dat, 1, n)
    BY <2>1, <2>3 DEF ImageOK
  <2>5. n <= Pages
    BY <1>1, <1>2, SnapshotAssumption DEF ImageOK
  <2>6. ImageOK(Resize(f, n))
    BY <2>1, <2>4, <2>5 DEF ImageOK
  <2> QED
    BY <1>2, <2>1, <2>2, <2>4, <2>6
<1>3. CASE ~(Len(f.dat) > n)
  BY <1>3 DEF Resize
<1> QED
  BY <1>2, <1>3

\* A write that is cut: the pages at other offsets are as they were.
LEMMA CutKeeps ==
  ASSUME NEW f, ImageOK(f), NEW n \in 1 .. Pages, NEW g \in Cut(f, n)
  PROVE  /\ ImageOK(g)
         /\ Len(g.dat) = Len(f.dat)
         /\ \A j \in 1 .. Len(f.dat) : j # n => g.dat[j] = f.dat[j]
<1>1. f.dat \in Seq(Data) /\ Len(f.dat) \in Nat
  BY DEF ImageOK
<1>2. CASE g = f
  BY <1>2
<1>3. CASE n <= Len(f.dat) /\ g = [f EXCEPT !.dat[n] = Bad]
  <2>1. Bad \in Data
    BY SnapshotAssumption DEF Data, Bad
  <2> DEFINE d == [f.dat EXCEPT ![n] = Bad]
  <2>2. d \in Seq(Data) /\ Len(d) = Len(f.dat)
    BY <1>1, <1>3, <2>1, ExceptSeq
  <2>3. \A j \in 1 .. Len(f.dat) : j # n => d[j] = f.dat[j]
    BY <1>1
  <2>4. g \in [dat : Seq(Data), torn : BOOLEAN] /\ g.dat = d
    BY <1>3, <2>2 DEF ImageOK
  <2> QED
    BY <2>2, <2>3, <2>4 DEF ImageOK
<1>4. CASE g = [f EXCEPT !.torn = TRUE]
  BY <1>4 DEF ImageOK
<1> QED
  BY <1>2, <1>3, <1>4 DEF Cut

\* Pages that were the same before and after the writes are kept when the power fails.
LEMMA MixedKeeps ==
  ASSUME NEW o, ImageOK(o), NEW w, ImageOK(w), NEW g \in Mixed(o, w)
  PROVE  /\ ImageOK(g)
         /\ o = w => g = w
         /\ \A j \in 1 .. Len(o.dat) :
              j <= Len(w.dat) /\ o.dat[j] = w.dat[j] =>
                j <= Len(g.dat) /\ g.dat[j] = w.dat[j]
<1> DEFINE a == Len(o.dat)
           b == Len(w.dat)
           may(i) == IF i <= a /\ i <= b THEN
                       IF o.dat[i] = w.dat[i] THEN {o.dat[i]}
                       ELSE {o.dat[i], w.dat[i], Bad}
                     ELSE IF i <= a THEN {o.dat[i]} ELSE {w.dat[i], Bad}
<1>1. /\ o.dat \in Seq(Data) /\ a \in Nat /\ a <= Pages
      /\ w.dat \in Seq(Data) /\ b \in Nat /\ b <= Pages /\ w.torn \in BOOLEAN
  BY DEF ImageOK
<1>2. PICK k \in 0 .. Pages :
        /\ (a <= k /\ k <= b) \/ (b <= k /\ k <= a)
        /\ g \in [dat : {x \in [1 .. k -> Data] : \A i \in 1 .. k : x[i] \in may(i)},
                 torn : IF k < b THEN BOOLEAN ELSE {w.torn}]
  BY DEF Mixed
<1> DEFINE d == g.dat
           t == g.torn
<1>3. /\ d \in [1 .. k -> Data] /\ t \in IF k < b THEN BOOLEAN ELSE {w.torn}
      /\ \A i \in 1 .. k : d[i] \in may(i)
      /\ g = [dat |-> d, torn |-> t]
  <2> HIDE DEF may
  <2> QED
    BY <1>2
<1>4. d \in Seq(Data) /\ Len(d) = k /\ t \in BOOLEAN
  <2>1. k \in Nat
    BY SnapshotAssumption
  <2>2. d \in Seq(Data) /\ Len(d) = k
    BY <1>3, <2>1, FunctionIsSeq
  <2>3. t \in BOOLEAN
    BY <1>1, <1>3
  <2> QED
    BY <2>2, <2>3
<1>5. ImageOK(g) /\ g.dat = d /\ g.torn = t
  BY <1>2, <1>3, <1>4 DEF ImageOK
<1>6. ASSUME NEW j \in 1 .. a, j <= b, o.dat[j] = w.dat[j]
      PROVE  j <= k /\ d[j] = w.dat[j]
  <2>1. j \in 1 .. k /\ may(j) = {o.dat[j]}
    BY <1>1, <1>2, <1>6
  <2>2. d[j] \in may(j)
    BY <1>3, <2>1
  <2> QED
    BY <1>6, <2>1, <2>2
<1>7. ASSUME o = w PROVE g = w
  <2>1. k = b /\ a = b
    BY <1>1, <1>2, <1>7
  <2>2. t = w.torn
    <3>1. ~(k < b)
      BY <1>1, <2>1
    <3> QED
      BY <1>3, <3>1
  <2>3. \A j \in 1 .. b : d[j] = w.dat[j]
    BY <1>1, <1>6, <1>7, <2>1
  <2>4. d = w.dat
    BY <1>1, <1>4, <2>1, <2>3, SeqEqual
  <2>5. w = [dat |-> w.dat, torn |-> w.torn]
    BY DEF ImageOK
  <2> QED
    BY <1>3, <2>2, <2>4, <2>5
<1> QED
  BY <1>4, <1>5, <1>6, <1>7

-----------------------------------------------------------------------------
(* The invariant holds at the start, and while the program computes.       *)

LEMMA SnapInvInit == SnapInit => SnapInv
<1> SUFFICES ASSUME SnapInit PROVE SnapInv
  OBVIOUS
<1> USE DEF SnapInit
<1>1. /\ \A s \in Segment : img[s].dat = <<>> /\ img[s].torn = FALSE
      /\ img \in [Segment -> {EmptyImage}]
  BY DEF NoImage, EmptyImage, Segment
<1>2. <<>> \in Seq(Data) /\ Len(<<>>) = 0
  OBVIOUS
<1>3. EmptyImage \in [dat : Seq(Data), torn : BOOLEAN] /\ Len(EmptyImage.dat) = 0
  BY <1>2 DEF EmptyImage
<1>4. ImagesOK(img) /\ dsk = img
  BY <1>1, <1>3, SnapshotAssumption DEF ImagesOK, Images, ImageOK
<1>5. loom \in [Page -> Data \ {Bad}]
  BY SnapshotAssumption DEF Loom0, Data, Bad
<1>6. top \in [Segment -> 0 .. Pages] /\ top.nor + top.sou <= Pages
  BY SnapshotAssumption DEF Fresh0, Segment
<1>7. TypeInv
  BY <1>4, <1>5, <1>6 DEF TypeInv
<1>8. ~Verifies(ctl, mem)
  BY DEF Verifies
<1>9. PatchesInv
  BY <1>8 DEF PatchesInv, PairOK
<1>10. Good(img)
  <2>1. \A s \in Segment : Len(img[s].dat) = 0
    BY <1>1, <1>2
  <2>2. Len(img["nor"].dat) = 0 /\ Len(img["sou"].dat) = 0
    BY <2>1 DEF Segment
  <2> QED
    BY <2>1, <2>2, SnapshotAssumption DEF Good
<1>11. GoodInv /\ StepInv
  BY <1>10 DEF GoodInv, StepInv, Applying
<1>12. PowerInv
  BY <1>4, <1>8 DEF PowerInv, Needed, Applying
<1>13. ApplyInv /\ LiveInv
  BY DEF ApplyInv, LiveInv, Saving, Applying
<1> QED
  BY <1>7, <1>9, <1>11, <1>12, <1>13 DEF SnapInv

\* A page in the loom is never one that was cut.
LEMMA HomeIsEvent ==
  TypeInv => /\ Home \in Page /\ loom[Home] \in Nat /\ Bound <= MaxEve /\ Bound \in Nat
             /\ loom[Home] < Bound => loom[Home] + 1 \in Data \ {Bad}
<1> SUFFICES ASSUME TypeInv
             PROVE  /\ Home \in Page /\ loom[Home] \in Nat /\ Bound <= MaxEve /\ Bound \in Nat
                    /\ loom[Home] < Bound => loom[Home] + 1 \in Data \ {Bad}
  OBVIOUS
<1>1. Home \in Page
  BY SnapshotAssumption DEF Home, Page
<1>2. loom[Home] \in 0 .. MaxEve
  BY <1>1, SnapshotAssumption DEF TypeInv, Data, Bad
<1>3. Bound <= MaxEve /\ Bound \in Nat
  BY SnapshotAssumption DEF Bound
<1> QED
  BY <1>1, <1>2, <1>3, SnapshotAssumption DEF Data, Bad

LEMMA ComputeKeepsInv ==
  ASSUME SnapInv, Compute
  PROVE  SnapInv'
<1> USE DEF core, patch
<1>1. PICK t \in Watermarks, w \in SUBSET Live(top) :
        LET all == w \cup Entering(t) \cup {Home}
        IN  /\ w \subseteq Live(t)
            /\ loom' = [p \in Page |-> IF p \in all THEN loom[Home] + 1 ELSE loom[p]]
            /\ top' = t
            /\ Fault(all)
  BY DEF Compute
<1> DEFINE all == w \cup Entering(t) \cup {Home}
<1>2. /\ at = "idle" /\ loom[Home] < Bound
      /\ at' = at /\ fate' = fate /\ live' = live /\ pgc' = pgc /\ img' = img /\ dsk' = dsk
      /\ ctl' = ctl /\ mem' = mem /\ jrn' = jrn
  BY DEF Compute
<1>3. /\ TypeInv /\ PatchesInv /\ GoodInv /\ StepInv /\ PowerInv /\ LiveInv
      /\ live = TRUE
  BY <1>2 DEF SnapInv, LiveInv, Saving
<1>4. t \in [Segment -> 0 .. Pages] /\ t.nor + t.sou <= Pages
  BY DEF Watermarks
<1>5. Live(t) \subseteq Page /\ all \subseteq Page
  BY <1>3, HomeIsEvent DEF Live, Entering
<1>6. loom' \in [Page -> Data \ {Bad}]
  BY <1>1, <1>2, <1>3, HomeIsEvent DEF TypeInv
<1>7. top' = t /\ dit' = dit \cup all
  BY <1>1 DEF Fault
<1>8. TypeInv'
  BY <1>2, <1>3, <1>4, <1>5, <1>6, <1>7 DEF TypeInv
<1>9. PatchesInv' /\ GoodInv' /\ StepInv' /\ PowerInv' /\ ApplyInv'
  BY <1>2, <1>3 DEF PatchesInv, GoodInv, StepInv, PowerInv, Needed, Applying, ApplyInv
<1>10. ASSUME NEW p \in Live(top') \ dit'
       PROVE  Kept(img', top', loom', p)
  <2>1. p \in Live(t) /\ p \notin dit /\ p \notin all /\ p \in Page
    BY <1>5, <1>7, <1>10
  <2>2. p \in Live(top) /\ SegmentOf(p, t) = SegmentOf(p, top)
    BY <2>1 DEF Entering
  <2>3. OffsetOf(p, t) = OffsetOf(p, top)
    BY <2>2 DEF SegmentOf, OffsetOf
  <2>4. loom'[p] = loom[p]
    BY <1>1, <2>1
  <2>5. Kept(img, top, loom, p)
    BY <1>2, <1>3, <2>1, <2>2 DEF LiveInv
  <2> QED
    BY <1>2, <1>7, <2>2, <2>3, <2>4, <2>5 DEF Kept
<1>11. LiveInv'
  BY <1>2, <1>3, <1>10 DEF LiveInv, Saving, Applying
<1> QED
  BY <1>8, <1>9, <1>11 DEF SnapInv

LEMMA MeldKeepsInv ==
  ASSUME SnapInv, Meld
  PROVE  SnapInv'
<1> USE DEF core, patch
<1>1. PICK t \in Watermarks :
        /\ top' = t
        /\ loom' = [p \in Page |-> IF p \in Live(t) THEN loom[Home] + 1 ELSE loom[p]]
  BY DEF Meld
<1>2. /\ at = "idle" /\ loom[Home] < Bound /\ dit' = Page
      /\ at' = at /\ fate' = fate /\ live' = live /\ pgc' = pgc /\ img' = img /\ dsk' = dsk
      /\ ctl' = ctl /\ mem' = mem /\ jrn' = jrn
  BY DEF Meld
<1>3. /\ TypeInv /\ PatchesInv /\ GoodInv /\ StepInv /\ PowerInv /\ LiveInv
      /\ live = TRUE
  BY <1>2 DEF SnapInv, LiveInv, Saving
<1>4. t \in [Segment -> 0 .. Pages] /\ t.nor + t.sou <= Pages
  BY DEF Watermarks
<1>5. loom' \in [Page -> Data \ {Bad}]
  BY <1>1, <1>2, <1>3, HomeIsEvent DEF TypeInv
<1>6. TypeInv'
  BY <1>1, <1>2, <1>3, <1>4, <1>5 DEF TypeInv
<1>7. PatchesInv' /\ GoodInv' /\ StepInv' /\ PowerInv' /\ ApplyInv'
  BY <1>2, <1>3 DEF PatchesInv, GoodInv, StepInv, PowerInv, Needed, Applying, ApplyInv
<1>8. Live(top') \ dit' = {}
  BY <1>2 DEF Live
<1>9. LiveInv'
  BY <1>2, <1>3, <1>8 DEF LiveInv, Saving, Applying
<1> QED
  BY <1>6, <1>7, <1>9 DEF SnapInv

-----------------------------------------------------------------------------
(* A save.                                                                 *)

\* Nothing is held once the process is gone, and the files are as they were.
LEMMA GoneKeepsInv ==
  ASSUME SnapInv, Gone, UNCHANGED <<fate, img, dsk, ctl, mem, jrn>>, Good(img),
         at \notin Applying \cup {"down", "refused"}, ~Verifies(ctl, mem)
  PROVE  SnapInv'
<1>1. /\ at' = "down" /\ live' = FALSE /\ pgc' = 0
      /\ loom' = Loom0 /\ top' = Fresh0 /\ dit' = {}
      /\ fate' = fate /\ img' = img /\ dsk' = dsk /\ ctl' = ctl /\ mem' = mem /\ jrn' = jrn
  BY DEF Gone
<1>2. TypeInv /\ PatchesInv /\ PowerInv
  BY DEF SnapInv
<1>3. loom' \in [Page -> Data \ {Bad}]
  BY <1>1, SnapshotAssumption DEF Loom0, Data, Bad
<1>4. top' \in [Segment -> 0 .. Pages] /\ top'.nor + top'.sou <= Pages
  BY <1>1, SnapshotAssumption DEF Fresh0, Segment
<1>5. TypeInv'
  BY <1>1, <1>2, <1>3, <1>4 DEF TypeInv
<1>6. PatchesInv' /\ GoodInv' /\ StepInv'
  BY <1>1, <1>2 DEF PatchesInv, GoodInv, StepInv, Applying
<1>7. PowerInv'
  BY <1>1, <1>2 DEF PowerInv, Needed, Applying
<1>8. ApplyInv' /\ LiveInv'
  BY <1>1 DEF ApplyInv, LiveInv, Saving, Applying
<1> QED
  BY <1>5, <1>6, <1>7, <1>8 DEF SnapInv

\* What is noted of the directory can be applied.
LEMMA NotedPairs ==
  ASSUME PatchesInv
  PROVE  /\ \A d \in Noted : d = <<d[1], d[2]>> /\ PairOK(img, d[1], d[2])
         /\ "power" \notin fate => Noted = jrn
<1>1. <<ctl, mem>>[1] = ctl /\ <<ctl, mem>>[2] = mem
  OBVIOUS
<1>2. \A d \in jrn \cup {<<ctl, mem>>} : d = <<d[1], d[2]>> /\ PairOK(img, d[1], d[2])
  BY <1>1 DEF PatchesInv
<1> QED
  BY <1>2 DEF Noted

LEMMA CreateControlKeepsInv ==
  ASSUME SnapInv, CreateControl
  PROVE  SnapInv'
<1> USE DEF core, patch
<1>1. /\ at = "idle" /\ ctl = None
      /\ TypeInv /\ PatchesInv /\ GoodInv /\ PowerInv /\ LiveInv
  BY DEF CreateControl, SnapInv, StepInv
<1>2. /\ at' = "memory" /\ ctl' = NewControl /\ jrn' = Noted
      /\ live' = live /\ loom' = loom /\ top' = top /\ dit' = dit /\ pgc' = pgc
      /\ fate' = fate /\ img' = img /\ dsk' = dsk /\ mem' = mem
  BY <1>1 DEF CreateControl
<1>3. /\ ctl' \in ControlType /\ ctl'.whole = FALSE
      /\ Len(ctl'.pag) = 0 /\ Len(ctl'.mug) = 0
  BY <1>2, SnapshotAssumption DEF NewControl, ControlType
<1>4. ctl' # None /\ ControlOK(ctl')
  BY <1>3, FilesAreThere DEF ControlOK
<1>5. ~Verifies(ctl', mem')
  BY <1>3 DEF Verifies
<1>6. TypeInv'
  BY <1>1, <1>2 DEF TypeInv
<1>7. PatchesInv'
  BY <1>1, <1>2, <1>4, <1>5, NotedPairs DEF PatchesInv, PairOK
<1>8. GoodInv' /\ StepInv' /\ ApplyInv'
  BY <1>1, <1>2, <1>3, <1>4 DEF GoodInv, StepInv, ApplyInv, Applying
<1>9. PowerInv'
  BY <1>1, <1>2, NotedPairs DEF PowerInv, Needed, Applying
<1>10. LiveInv'
  BY <1>1, <1>2 DEF LiveInv, Saving, Applying
<1> QED
  BY <1>6, <1>7, <1>8, <1>9, <1>10 DEF SnapInv

LEMMA CreateMemoryKeepsInv ==
  ASSUME SnapInv, CreateMemory
  PROVE  SnapInv'
<1> USE DEF core, patch
<1>1. /\ at = "memory" /\ ctl # None /\ ctl.whole = FALSE /\ Len(ctl.pag) = 0
      /\ TypeInv /\ PatchesInv /\ GoodInv /\ PowerInv /\ LiveInv
  BY DEF CreateMemory, SnapInv, StepInv
<1>2. Good(img)
  BY <1>1 DEF GoodInv, Applying
<1>3. CASE mem # None
  <2>1. Gone /\ UNCHANGED <<fate, img, dsk, ctl, mem, jrn>>
    BY <1>3 DEF CreateMemory
  <2>2. ~Verifies(ctl, mem)
    BY <1>1 DEF Verifies
  <2>3. at \notin Applying \cup {"down", "refused"}
    BY <1>1 DEF Applying
  <2> QED
    BY <1>2, <2>1, <2>2, <2>3, GoneKeepsInv
<1>4. CASE mem = None
  <2>1. /\ at' = "pages" /\ mem' = [syn |-> FALSE, dat |-> <<>>] /\ jrn' = Noted
        /\ live' = live /\ loom' = loom /\ top' = top /\ dit' = dit /\ pgc' = pgc
        /\ fate' = fate /\ img' = img /\ dsk' = dsk /\ ctl' = ctl
    BY <1>4 DEF CreateMemory
  <2>2. mem' \in MemoryType /\ Len(mem'.dat) = 0
    BY <2>1 DEF MemoryType
  <2>3. mem' # None
    BY <2>2, FilesAreThere
  <2>4. ~Verifies(ctl', mem')
    BY <1>1, <2>1 DEF Verifies
  <2>5. TypeInv'
    BY <1>1, <2>1 DEF TypeInv
  <2>6. PatchesInv'
    BY <1>1, <2>1, <2>2, <2>4, NotedPairs DEF PatchesInv, PairOK
  <2>7. GoodInv' /\ StepInv' /\ ApplyInv'
    BY <1>1, <1>2, <2>1, <2>2, <2>3 DEF GoodInv, StepInv, ApplyInv, Applying
  <2>8. PowerInv'
    BY <1>1, <2>1, NotedPairs DEF PowerInv, Needed, Applying
  <2>9. LiveInv'
    BY <1>1, <2>1 DEF LiveInv, Saving, Applying
  <2> QED
    BY <2>5, <2>6, <2>7, <2>8, <2>9 DEF SnapInv
<1> QED
  BY <1>3, <1>4

LEMMA SavePageKeepsInv ==
  ASSUME SnapInv, SavePage
  PROVE  SnapInv'
<1> USE DEF core, patch
<1>1. /\ at = "pages" /\ ctl # None /\ ctl.whole = FALSE /\ mem # None
      /\ Len(mem.dat) = Len(ctl.pag)
      /\ \A k \in 1 .. Len(ctl.pag) : mem.dat[k] = ctl.mug[k]
      /\ TypeInv /\ PatchesInv /\ GoodInv /\ PowerInv /\ LiveInv
  BY DEF SavePage, SnapInv, StepInv
<1>2. ControlOK(ctl) /\ mem \in MemoryType
  BY <1>1 DEF PatchesInv, PairOK
<1>3. PICK p \in Page :
        /\ IsNextDirty(p)
        /\ mem' = [mem EXCEPT !.dat = Append(@, loom[p])]
        /\ ctl' = [ctl EXCEPT !.pag = Append(@, p), !.mug = Append(@, loom[p])]
        /\ dit' = dit \ {p}
  BY DEF SavePage
<1>4. /\ at' = at /\ fate' = fate /\ live' = live /\ loom' = loom /\ top' = top /\ pgc' = pgc
      /\ img' = img /\ dsk' = dsk /\ jrn' = jrn
  BY DEF SavePage
<1>5. p \in Live(top) /\ p \in dit
  BY <1>3 DEF IsNextDirty, DirtyPages
<1>6. loom[p] \in Data /\ loom[p] # Bad
  BY <1>1 DEF TypeInv
<1> DEFINE n == Len(ctl.pag)
<1>7. /\ ctl.pag \in Seq(Page) /\ ctl.mug \in Seq(Data) /\ mem.dat \in Seq(Data)
      /\ n \in Nat /\ Len(ctl.mug) = n /\ Len(mem.dat) = n
  BY <1>1, <1>2 DEF ControlOK, ControlType, MemoryType
<1>8. /\ ctl' \in ControlType /\ mem' \in MemoryType
      /\ ctl'.whole = FALSE /\ ctl'.syn = ctl.syn
      /\ ctl'.pag = Append(ctl.pag, p) /\ ctl'.mug = Append(ctl.mug, loom[p])
      /\ mem'.dat = Append(mem.dat, loom[p])
  <2> DEFINE pag == Append(ctl.pag, p)
             mug == Append(ctl.mug, loom[p])
             dat == Append(mem.dat, loom[p])
  <2>1. pag \in Seq(Page) /\ mug \in Seq(Data) /\ dat \in Seq(Data)
    BY <1>6, <1>7
  <2>2. ctl' = [ctl EXCEPT !.pag = pag, !.mug = mug] /\ mem' = [mem EXCEPT !.dat = dat]
    BY <1>3
  <2> HIDE DEF pag, mug, dat
  <2>3. /\ ctl' \in ControlType /\ ctl'.whole = ctl.whole /\ ctl'.syn = ctl.syn
        /\ ctl'.pag = pag /\ ctl'.mug = mug
    BY <1>2, <2>1, <2>2 DEF ControlOK, ControlType
  <2>4. mem' \in MemoryType /\ mem'.dat = dat
    BY <1>2, <2>1, <2>2 DEF MemoryType
  <2> QED
    BY <1>1, <2>3, <2>4 DEF pag, mug, dat
<1>9. /\ Len(ctl'.pag) = n + 1 /\ Len(ctl'.mug) = n + 1 /\ Len(mem'.dat) = n + 1
      /\ \A k \in 1 .. n : /\ ctl'.pag[k] = ctl.pag[k] /\ ctl'.mug[k] = ctl.mug[k]
                           /\ mem'.dat[k] = mem.dat[k]
      /\ ctl'.pag[n + 1] = p /\ ctl'.mug[n + 1] = loom[p] /\ mem'.dat[n + 1] = loom[p]
  BY <1>7, <1>8
<1>10. \A k \in 1 .. n + 1 : k \in 1 .. n \/ k = n + 1
  BY <1>7
<1> HIDE DEF n
<1>11. ControlOK(ctl')
  BY <1>2, <1>6, <1>7, <1>8, <1>9, <1>10 DEF ControlOK
<1>12. ctl' # None /\ mem' # None /\ ~Verifies(ctl', mem')
  BY <1>8, FilesAreThere DEF Verifies
<1>13. TypeInv'
  BY <1>1, <1>3, <1>4 DEF TypeInv
<1>14. PatchesInv'
  BY <1>1, <1>4, <1>8, <1>11, <1>12 DEF PatchesInv, PairOK
<1>15. GoodInv' /\ ApplyInv'
  BY <1>1, <1>4 DEF GoodInv, ApplyInv, Applying
<1>16. StepInv'
  BY <1>1, <1>4, <1>8, <1>9, <1>10, <1>12 DEF StepInv, Applying, n
<1>17. PowerInv'
  BY <1>1, <1>4 DEF PowerInv, Needed, Applying
<1>18. ASSUME NEW q \in Live(top) \ dit'
       PROVE  Kept(img, top, loom, q) \/ InPatch(ctl', q)
  <2>1. CASE q = p
    <3>1. n + 1 \in 1 .. Len(ctl'.pag)
      BY <1>7, <1>9
    <3> QED
      BY <1>9, <2>1, <3>1 DEF InPatch
  <2>2. CASE q # p
    <3>1. Kept(img, top, loom, q) \/ InPatch(ctl, q)
      BY <1>1, <1>3, <1>18, <2>2 DEF LiveInv
    <3>2. ASSUME InPatch(ctl, q) PROVE InPatch(ctl', q)
      <4>1. PICK k \in 1 .. n : ctl.pag[k] = q
        BY <3>2 DEF InPatch, n
      <4>2. k \in 1 .. Len(ctl'.pag) /\ ctl'.pag[k] = q
        BY <1>7, <1>9, <4>1
      <4> QED
        BY <4>2 DEF InPatch
    <3> QED
      BY <3>1, <3>2
  <2> QED
    BY <2>1, <2>2
<1>19. \A k \in 1 .. Len(ctl'.pag) : ctl'.pag[k] \in Live(top)
  BY <1>1, <1>5, <1>9, <1>10 DEF LiveInv, n
<1>20. \A k \in 1 .. Len(ctl'.pag) : mem'.dat[k] = loom[ctl'.pag[k]]
  BY <1>1, <1>9, <1>10 DEF LiveInv, n
<1>21. LiveInv'
  BY <1>1, <1>4, <1>18, <1>19, <1>20 DEF LiveInv, Saving, Applying
<1> QED
  BY <1>13, <1>14, <1>15, <1>16, <1>17, <1>21 DEF SnapInv

\* When no dirty page is left, the patch has every page that the images have not.
LEMMA WriteControlKeepsInv ==
  ASSUME SnapInv, WriteControl
  PROVE  SnapInv'
<1> USE DEF core, patch
<1>1. /\ at = "pages" /\ ctl # None /\ ctl.whole = FALSE /\ mem # None
      /\ Len(mem.dat) = Len(ctl.pag)
      /\ \A k \in 1 .. Len(ctl.pag) : mem.dat[k] = ctl.mug[k]
      /\ TypeInv /\ PatchesInv /\ GoodInv /\ PowerInv /\ LiveInv
  BY DEF WriteControl, SnapInv, StepInv
<1>2. ControlOK(ctl) /\ mem \in MemoryType
  BY <1>1 DEF PatchesInv, PairOK
<1>3. /\ DirtyPages = {} /\ at' = "syncC"
      /\ ctl' = [ctl EXCEPT !.whole = TRUE, !.nor = top.nor, !.sou = top.sou]
      /\ fate' = fate /\ live' = live /\ loom' = loom /\ top' = top /\ dit' = dit /\ pgc' = pgc
      /\ img' = img /\ dsk' = dsk /\ mem' = mem /\ jrn' = jrn
  BY DEF WriteControl
<1>4. top.nor \in 0 .. Pages /\ top.sou \in 0 .. Pages /\ top.nor + top.sou <= Pages
  BY <1>1 DEF TypeInv, Segment
<1>5. /\ ctl' \in ControlType
      /\ ctl'.whole = TRUE /\ ctl'.nor = top.nor /\ ctl'.sou = top.sou
      /\ ctl'.pag = ctl.pag /\ ctl'.mug = ctl.mug
  BY <1>2, <1>3, <1>4 DEF ControlOK, ControlType
<1>6. TopsOf(ctl').nor = top.nor /\ TopsOf(ctl').sou = top.sou
  BY <1>5 DEF TopsOf
<1>7. /\ Live(TopsOf(ctl')) = Live(top)
      /\ \A p : /\ SegmentOf(p, TopsOf(ctl')) = SegmentOf(p, top)
                /\ OffsetOf(p, TopsOf(ctl')) = OffsetOf(p, top)
  BY <1>6, SameTops
<1>8. ControlOK(ctl')
  BY <1>1, <1>2, <1>4, <1>5, <1>7 DEF ControlOK, LiveInv
<1>9. ctl' # None
  BY <1>5, FilesAreThere
<1>10. Len(ctl.pag) \in Nat
  BY <1>2 DEF ControlOK, ControlType
<1>11. Verifies(ctl', mem')
  BY <1>1, <1>3, <1>5, <1>9, <1>10 DEF Verifies
<1>12. \A p \in Live(top) : Kept(img, top, loom, p) \/ InPatch(ctl', p)
  BY <1>1, <1>3, <1>5 DEF LiveInv, DirtyPages, InPatch
<1>13. Base(img, ctl')
  <2>1. SUFFICES ASSUME NEW s \in Segment, NEW n \in 1 .. TopsOf(ctl')[s]
                 PROVE  IsLine(ctl', s, n) \/ (n <= Len(img[s].dat) /\ img[s].dat[n] # Bad)
    BY DEF Base
  <2>2. TopsOf(ctl').nor \in Nat /\ TopsOf(ctl').sou \in Nat
        /\ TopsOf(ctl').nor + TopsOf(ctl').sou <= Pages
    BY <1>4, <1>6
  <2>3. PICK p \in Live(TopsOf(ctl')) :
          SegmentOf(p, TopsOf(ctl')) = s /\ OffsetOf(p, TopsOf(ctl')) = n
    BY <2>2, OffsetHasPage
  <2>4. CASE InPatch(ctl', p)
    BY <2>3, <2>4 DEF InPatch, IsLine, LineAt
  <2>5. CASE Kept(img, top, loom, p)
    <3>1. p \in Page
      BY DEF Live
    <3>2. n <= Len(img[s].dat) /\ img[s].dat[n] = loom[p]
      BY <1>7, <2>3, <2>5 DEF Kept
    <3> QED
      BY <1>1, <3>1, <3>2 DEF TypeInv
  <2> QED
    BY <1>7, <1>12, <2>3, <2>4, <2>5
<1>14. TypeInv'
  BY <1>1, <1>3 DEF TypeInv
<1>15. PatchesInv'
  BY <1>1, <1>2, <1>3, <1>8, <1>13 DEF PatchesInv, PairOK
<1>16. GoodInv' /\ ApplyInv' /\ StepInv'
  BY <1>1, <1>3, <1>11 DEF GoodInv, ApplyInv, Applying, StepInv
<1>17. PowerInv'
  BY <1>1, <1>3 DEF PowerInv, Needed, Applying
<1>18. LiveInv'
  BY <1>1, <1>3, <1>5, <1>12 DEF LiveInv, Saving, Applying
<1> QED
  BY <1>14, <1>15, <1>16, <1>17, <1>18 DEF SnapInv

LEMMA SyncControlKeepsInv ==
  ASSUME SnapInv, SyncControl
  PROVE  SnapInv'
<1> USE DEF core, patch
<1>1. /\ at = "syncC" /\ Verifies(ctl, mem)
      /\ TypeInv /\ PatchesInv /\ GoodInv /\ PowerInv /\ LiveInv
  BY DEF SyncControl, SnapInv, StepInv
<1>2. /\ at' = "syncM" /\ ctl' = [ctl EXCEPT !.syn = TRUE] /\ jrn' = {}
      /\ fate' = fate /\ live' = live /\ loom' = loom /\ top' = top /\ dit' = dit /\ pgc' = pgc
      /\ img' = img /\ dsk' = dsk /\ mem' = mem
  BY DEF SyncControl
<1>3. ctl # None /\ ControlOK(ctl) /\ Base(img, ctl) /\ (mem = None \/ mem \in MemoryType)
  BY <1>1 DEF PatchesInv, PairOK, Verifies
<1>4. /\ ctl' \in ControlType /\ ctl'.syn = TRUE /\ ctl'.whole = ctl.whole
      /\ ctl'.nor = ctl.nor /\ ctl'.sou = ctl.sou /\ ctl'.pag = ctl.pag /\ ctl'.mug = ctl.mug
  BY <1>2, <1>3 DEF ControlOK, ControlType
<1>5. TopsOf(ctl') = TopsOf(ctl)
  BY <1>4 DEF TopsOf
<1>6. ControlOK(ctl') /\ ctl' # None
  BY <1>3, <1>4, <1>5, FilesAreThere DEF ControlOK
<1>7. Verifies(ctl', mem')
  BY <1>1, <1>2, <1>4, <1>6 DEF Verifies
<1>8. Base(img', ctl')
  BY <1>2, <1>3, <1>4, SameLines
<1>9. TypeInv'
  BY <1>1, <1>2 DEF TypeInv
<1>10. PatchesInv'
  BY <1>2, <1>3, <1>6, <1>8 DEF PatchesInv, PairOK
<1>11. GoodInv' /\ ApplyInv' /\ StepInv'
  BY <1>1, <1>2, <1>4, <1>7 DEF GoodInv, ApplyInv, Applying, StepInv
<1>12. PowerInv'
  BY <1>1, <1>2 DEF PowerInv, Needed, Applying
<1>13. LiveInv'
  BY <1>1, <1>2, <1>4 DEF LiveInv, Saving, Applying, InPatch
<1> QED
  BY <1>9, <1>10, <1>11, <1>12, <1>13 DEF SnapInv

LEMMA SyncMemoryKeepsInv ==
  ASSUME SnapInv, SyncMemory
  PROVE  SnapInv'
<1> USE DEF core, patch
<1>1. /\ at = "syncM" /\ Verifies(ctl, mem) /\ ctl.syn = TRUE
      /\ TypeInv /\ PatchesInv /\ GoodInv /\ PowerInv /\ LiveInv
  BY DEF SyncMemory, SnapInv, StepInv
<1>2. /\ at' = "trimN" /\ mem' = [mem EXCEPT !.syn = TRUE] /\ jrn' = {}
      /\ fate' = fate /\ live' = live /\ loom' = loom /\ top' = top /\ dit' = dit /\ pgc' = pgc
      /\ img' = img /\ dsk' = dsk /\ ctl' = ctl
  BY <1>1 DEF SyncMemory
<1>3. ControlOK(ctl) /\ mem \in MemoryType /\ Base(img, ctl)
  BY <1>1 DEF PatchesInv, PairOK, Verifies
<1>4. mem' \in MemoryType /\ mem'.syn = TRUE /\ mem'.dat = mem.dat
  BY <1>2, <1>3 DEF MemoryType
<1>5. Verifies(ctl', mem')
  BY <1>1, <1>2, <1>4, FilesAreThere DEF Verifies
<1>6. TypeInv'
  BY <1>1, <1>2 DEF TypeInv
<1>7. PatchesInv'
  BY <1>2, <1>3, <1>4 DEF PatchesInv, PairOK
<1>8. GoodInv' /\ ApplyInv' /\ StepInv'
  BY <1>1, <1>2, <1>5 DEF GoodInv, ApplyInv, Applying, StepInv
<1>9. "power" \in fate => Durable(dsk, img, ctl)
  BY <1>1, <1>3 DEF PowerInv, Applying, Base, Durable
<1>10. PowerInv'
  BY <1>1, <1>2, <1>4, <1>9 DEF PowerInv, Needed, Applying
<1>11. LiveInv'
  BY <1>1, <1>2, <1>4 DEF LiveInv, Saving, Applying
<1> QED
  BY <1>6, <1>7, <1>8, <1>10, <1>11 DEF SnapInv

-----------------------------------------------------------------------------
(* A patch is applied.                                                     *)

\* While a patch is applied it verifies, and no other patch can come back.
LEMMA AppliedPatch ==
  ASSUME SnapInv, at \in Applying
  PROVE  /\ Verifies(ctl, mem) /\ jrn = {}
         /\ ctl # None /\ ControlOK(ctl) /\ ctl.whole = TRUE
         /\ mem # None /\ mem \in MemoryType
         /\ Len(mem.dat) >= Len(ctl.pag)
         /\ \A k \in 1 .. Len(ctl.pag) : mem.dat[k] = ctl.mug[k]
         /\ Base(img, ctl)
         /\ "power" \in fate => /\ Durable(dsk, img, ctl)
                                /\ ctl.syn = TRUE /\ mem.syn = TRUE
<1>1. Verifies(ctl, mem) /\ jrn = {} /\ PairOK(img, ctl, mem)
      /\ ("power" \in fate => /\ Durable(dsk, img, ctl)
                              /\ ctl.syn = TRUE /\ mem.syn = TRUE)
  BY DEF SnapInv, StepInv, PowerInv, Needed, PatchesInv
<1>2. Base(img, ctl) /\ (ctl = None \/ ControlOK(ctl)) /\ (mem = None \/ mem \in MemoryType)
  BY <1>1 DEF PairOK
<1> QED
  BY <1>1, <1>2, VerifiedPatch

\* An image that changes is of the same kind as before.
LEMMA ImagesWith ==
  ASSUME NEW i, ImagesOK(i), NEW s \in Segment, NEW g, ImageOK(g)
  PROVE  /\ ImagesOK([i EXCEPT ![s] = g])
         /\ [i EXCEPT ![s] = g][s] = g
         /\ \A x \in Segment : x # s => [i EXCEPT ![s] = g][x] = i[x]
<1> DEFINE j == [i EXCEPT ![s] = g]
<1>1. i \in Images
  BY DEF ImagesOK
<1>2. j[s] = g /\ (\A x \in Segment : x # s => j[x] = i[x])
  BY <1>1 DEF Images
<1>3. g \in [dat : Seq(Data), torn : BOOLEAN]
  BY DEF ImageOK
<1>4. j \in Images
  BY <1>1, <1>3 DEF Images
<1>5. \A x \in Segment : ImageOK(j[x])
  <2> HIDE DEF j
  <2> QED
    BY <1>2 DEF ImagesOK
<1> QED
  BY <1>2, <1>4, <1>5 DEF ImagesOK

\* A segment that is cut to its watermark loses no page in use.
LEMMA TrimKeeps ==
  ASSUME NEW i, ImagesOK(i), NEW c, ControlOK(c), NEW s \in Segment, NEW j,
         j[s] = Resize(i[s], TopsOf(c)[s]),
         \A x \in Segment : x # s => j[x] = i[x]
  PROVE  /\ ImageOK(j[s])
         /\ Len(j[s].dat) <= TopsOf(c)[s]
         /\ \A x \in Segment : \A n \in 1 .. TopsOf(c)[x] :
              n <= Len(i[x].dat) => n <= Len(j[x].dat) /\ j[x].dat[n] = i[x].dat[n]
<1> DEFINE t == TopsOf(c)[s]
<1>1. t \in Nat
  BY DEF TopsOf, ControlOK, ControlType, Segment
<1>2. ImageOK(i[s])
  BY DEF ImagesOK
<1>3. i[s].dat \in Seq(Data) /\ Len(i[s].dat) \in Nat
  BY <1>2 DEF ImageOK
<1> DEFINE g == j[s]
<1>4. /\ ImageOK(g)
      /\ Len(g.dat) = IF Len(i[s].dat) > t THEN t ELSE Len(i[s].dat)
      /\ \A n \in 1 .. Len(g.dat) : g.dat[n] = i[s].dat[n]
  BY <1>1, <1>2, ResizeKeeps
<1> HIDE DEF g, t
<1>8. Len(g.dat) <= t
  BY <1>1, <1>3, <1>4
<1>9. ASSUME NEW n \in 1 .. t, n <= Len(i[s].dat)
      PROVE  n <= Len(g.dat) /\ g.dat[n] = i[s].dat[n]
  <2>1. n \in 1 .. Len(g.dat)
    BY <1>1, <1>3, <1>4, <1>9
  <2> QED
    BY <1>4, <2>1
<1>10. ASSUME NEW x \in Segment, NEW n \in 1 .. TopsOf(c)[x], n <= Len(i[x].dat)
       PROVE  n <= Len(j[x].dat) /\ j[x].dat[n] = i[x].dat[n]
  <2>1. CASE x = s
    BY <1>9, <1>10, <2>1 DEF g, t
  <2>2. CASE x # s
    BY <1>10, <2>2
  <2> QED
    BY <2>1, <2>2
<1> QED
  BY <1>4, <1>8, <1>10 DEF g, t

\* What holds of images holds when they have grown or been cut outside the watermarks.
LEMMA KeepsPages ==
  ASSUME NEW i, NEW j, NEW c, NEW d,
         \A x \in Segment : \A n \in 1 .. TopsOf(c)[x] :
           n <= Len(i[x].dat) => n <= Len(j[x].dat) /\ j[x].dat[n] = i[x].dat[n]
  PROVE  /\ Base(i, c) => Base(j, c)
         /\ Base(i, c) /\ Durable(d, i, c) => Durable(d, j, c)
         /\ \A m : \A p \in Live(TopsOf(c)) :
              ControlOK(c) /\ c.nor + c.sou <= Pages /\ Kept(i, TopsOf(c), m, p)
                => Kept(j, TopsOf(c), m, p)
<1>1. Base(i, c) => Base(j, c)
  BY DEF Base
<1>2. ASSUME Base(i, c), Durable(d, i, c) PROVE Durable(d, j, c)
  <2>1. ASSUME NEW x \in Segment, NEW n \in 1 .. TopsOf(c)[x], ~IsLine(c, x, n)
        PROVE  n <= Len(d[x].dat) /\ d[x].dat[n] = j[x].dat[n]
    <3>1. n <= Len(i[x].dat) /\ n <= Len(d[x].dat) /\ d[x].dat[n] = i[x].dat[n]
      BY <1>2, <2>1 DEF Base, Durable
    <3> QED
      BY <3>1
  <2> QED
    BY <2>1 DEF Durable
<1>3. ASSUME NEW m, NEW p \in Live(TopsOf(c)), ControlOK(c), c.nor + c.sou <= Pages,
             Kept(i, TopsOf(c), m, p)
      PROVE  Kept(j, TopsOf(c), m, p)
  <2>1. TopsOf(c).nor \in Nat /\ TopsOf(c).sou \in Nat /\ TopsOf(c).nor + TopsOf(c).sou <= Pages
    BY <1>3 DEF ControlOK, ControlType, TopsOf
  <2>2. /\ SegmentOf(p, TopsOf(c)) \in Segment
        /\ OffsetOf(p, TopsOf(c)) \in 1 .. TopsOf(c)[SegmentOf(p, TopsOf(c))]
    BY <2>1, PageHasOffset
  <2> QED
    BY <1>3, <2>2 DEF Kept
<1> QED
  BY <1>1, <1>2, <1>3

\* The watermarks of the memory are those of its patch.
LEMMA KeptByTops ==
  ASSUME NEW i, NEW t, NEW u, t.nor = u.nor, t.sou = u.sou, NEW m, NEW p
  PROVE  Kept(i, t, m, p) <=> Kept(i, u, m, p)
  BY SameTops DEF Kept

\* A step that keeps the pages below the watermarks of the patch keeps the
\* pages in memory where they were.
LEMMA TrimKeepsLive ==
  ASSUME SnapInv, at \in Applying, live = TRUE, NEW j,
         \A x \in Segment : \A n \in 1 .. TopsOf(ctl)[x] :
           n <= Len(img[x].dat) => n <= Len(j[x].dat) /\ j[x].dat[n] = img[x].dat[n]
  PROVE  \A p \in Live(top) : Kept(j, top, loom, p) \/ InPatch(ctl, p)
<1>1. /\ ctl.nor = top.nor /\ ctl.sou = top.sou
      /\ \A p \in Live(top) : Kept(img, top, loom, p) \/ InPatch(ctl, p)
  BY DEF SnapInv, LiveInv
<1>2. ControlOK(ctl) /\ ctl.nor + ctl.sou <= Pages
  BY AppliedPatch DEF ControlOK
<1>3. TopsOf(ctl).nor = top.nor /\ TopsOf(ctl).sou = top.sou
  BY <1>1 DEF TopsOf
<1>4. Live(TopsOf(ctl)) = Live(top)
  BY <1>3, SameTops
<1>5. ASSUME NEW p \in Live(top), Kept(img, top, loom, p)
      PROVE  Kept(j, top, loom, p)
  <2>1. Kept(img, TopsOf(ctl), loom, p)
    BY <1>3, <1>5, KeptByTops
  <2>2. Kept(j, TopsOf(ctl), loom, p)
    BY <1>2, <1>4, <2>1, KeepsPages
  <2> QED
    BY <1>3, <2>2, KeptByTops
<1> QED
  BY <1>1, <1>5

LEMMA TrimNorthKeepsInv ==
  ASSUME SnapInv, TrimNorth
  PROVE  SnapInv'
<1> USE DEF core, patch
<1>1. /\ at = "trimN" /\ at \in Applying
      /\ TypeInv /\ PatchesInv /\ PowerInv /\ LiveInv
  BY DEF TrimNorth, SnapInv, Applying
<1>2. /\ at' = "trimS" /\ img' = [img EXCEPT !["nor"] = Resize(@, ctl.nor)]
      /\ fate' = fate /\ live' = live /\ loom' = loom /\ top' = top /\ dit' = dit /\ pgc' = pgc
      /\ dsk' = dsk /\ ctl' = ctl /\ mem' = mem /\ jrn' = jrn
  BY DEF TrimNorth
<1>3. /\ Verifies(ctl, mem) /\ jrn = {} /\ ControlOK(ctl) /\ ctl.whole = TRUE
      /\ mem \in MemoryType /\ Base(img, ctl)
      /\ "power" \in fate => Durable(dsk, img, ctl)
  BY <1>1, AppliedPatch
<1>4. "nor" \in Segment /\ "sou" \in Segment /\ TopsOf(ctl)["nor"] = ctl.nor
  BY DEF Segment, TopsOf
<1>5. ImagesOK(img) /\ img' = [img EXCEPT !["nor"] = Resize(img["nor"], ctl.nor)]
  BY <1>1, <1>2 DEF TypeInv
<1>6. /\ ImagesOK(img')
      /\ Len(img'["nor"].dat) <= ctl.nor
      /\ img'["sou"] = img["sou"]
      /\ \A x \in Segment : \A n \in 1 .. TopsOf(ctl)[x] :
           n <= Len(img[x].dat) => n <= Len(img'[x].dat) /\ img'[x].dat[n] = img[x].dat[n]
  <2> DEFINE g == Resize(img["nor"], ctl.nor)
  <2>1. img'["nor"] = g /\ (\A x \in Segment : x # "nor" => img'[x] = img[x])
    BY <1>4, <1>5 DEF ImagesOK, Images
  <2>2. /\ ImageOK(img'["nor"])
        /\ Len(img'["nor"].dat) <= TopsOf(ctl)["nor"]
        /\ \A x \in Segment : \A n \in 1 .. TopsOf(ctl)[x] :
             n <= Len(img[x].dat) => n <= Len(img'[x].dat) /\ img'[x].dat[n] = img[x].dat[n]
    <3> DEFINE j == img'
               s == "nor"
    <3>1. ImagesOK(img) /\ ControlOK(ctl) /\ s \in Segment
      BY <1>3, <1>4, <1>5
    <3>2. j[s] = Resize(img[s], TopsOf(ctl)[s])
      BY <1>4, <2>1
    <3>3. \A x \in Segment : x # s => j[x] = img[x]
      BY <2>1
    <3> HIDE DEF j, s
    <3>4. /\ ImageOK(j[s])
          /\ Len(j[s].dat) <= TopsOf(ctl)[s]
          /\ \A x \in Segment : \A n \in 1 .. TopsOf(ctl)[x] :
               n <= Len(img[x].dat) => n <= Len(j[x].dat) /\ j[x].dat[n] = img[x].dat[n]
      BY ONLY <3>1, <3>2, <3>3, TrimKeeps
    <3> QED
      BY <3>4 DEF j, s
  <2>3. ImageOK(g) /\ img' = [img EXCEPT !["nor"] = g]
    BY <1>5, <2>1, <2>2
  <2>4. ImagesOK(img')
    <3> HIDE DEF g
    <3>1. ImagesOK([img EXCEPT !["nor"] = g])
      BY ONLY <1>4, <1>5, <2>3, ImagesWith, Zenon
    <3> QED
      BY <2>3, <3>1
  <2> QED
    BY <1>4, <2>1, <2>2, <2>4 DEF Segment
<1>7. Base(img', ctl) /\ ("power" \in fate => Durable(dsk, img', ctl))
  BY <1>3, <1>6, KeepsPages
<1>8. TypeInv'
  BY <1>1, <1>2, <1>6 DEF TypeInv
<1>9. PatchesInv'
  BY <1>2, <1>3, <1>7 DEF PatchesInv, PairOK
<1>10. GoodInv' /\ StepInv'
  BY <1>2, <1>3 DEF GoodInv, StepInv, Applying
<1>11. PowerInv'
  BY <1>1, <1>2, <1>3, <1>7 DEF PowerInv, Needed, Applying
<1>12. ApplyInv'
  BY <1>2, <1>6 DEF ApplyInv
<1>13. live = TRUE => \A p \in Live(top) : Kept(img', top, loom, p) \/ InPatch(ctl, p)
  BY <1>1, <1>6, TrimKeepsLive
<1>14. LiveInv'
  BY <1>1, <1>2, <1>13 DEF LiveInv, Saving, Applying
<1> QED
  BY <1>8, <1>9, <1>10, <1>11, <1>12, <1>14 DEF SnapInv

LEMMA TrimSouthKeepsInv ==
  ASSUME SnapInv, TrimSouth
  PROVE  SnapInv'
<1> USE DEF core, patch
<1>1. /\ at = "trimS" /\ at \in Applying
      /\ TypeInv /\ PatchesInv /\ PowerInv /\ ApplyInv /\ LiveInv
  BY DEF TrimSouth, SnapInv, Applying
<1>2. /\ at' = "apply" /\ pgc' = 1 /\ img' = [img EXCEPT !["sou"] = Resize(@, ctl.sou)]
      /\ fate' = fate /\ live' = live /\ loom' = loom /\ top' = top /\ dit' = dit
      /\ dsk' = dsk /\ ctl' = ctl /\ mem' = mem /\ jrn' = jrn
  BY DEF TrimSouth
<1>3. /\ Verifies(ctl, mem) /\ jrn = {} /\ ControlOK(ctl) /\ ctl.whole = TRUE
      /\ mem \in MemoryType /\ Base(img, ctl)
      /\ "power" \in fate => Durable(dsk, img, ctl)
  BY <1>1, AppliedPatch
<1>4. "sou" \in Segment /\ "nor" \in Segment /\ TopsOf(ctl)["sou"] = ctl.sou
  BY DEF Segment, TopsOf
<1>5. ImagesOK(img) /\ img' = [img EXCEPT !["sou"] = Resize(img["sou"], ctl.sou)]
  BY <1>1, <1>2 DEF TypeInv
<1>6. /\ ImagesOK(img')
      /\ Len(img'["sou"].dat) <= ctl.sou
      /\ img'["nor"] = img["nor"]
      /\ \A x \in Segment : \A n \in 1 .. TopsOf(ctl)[x] :
           n <= Len(img[x].dat) => n <= Len(img'[x].dat) /\ img'[x].dat[n] = img[x].dat[n]
  <2> DEFINE g == Resize(img["sou"], ctl.sou)
  <2>1. img'["sou"] = g /\ (\A x \in Segment : x # "sou" => img'[x] = img[x])
    BY <1>4, <1>5 DEF ImagesOK, Images
  <2>2. /\ ImageOK(img'["sou"])
        /\ Len(img'["sou"].dat) <= TopsOf(ctl)["sou"]
        /\ \A x \in Segment : \A n \in 1 .. TopsOf(ctl)[x] :
             n <= Len(img[x].dat) => n <= Len(img'[x].dat) /\ img'[x].dat[n] = img[x].dat[n]
    <3> DEFINE j == img'
               s == "sou"
    <3>1. ImagesOK(img) /\ ControlOK(ctl) /\ s \in Segment
      BY <1>3, <1>4, <1>5
    <3>2. j[s] = Resize(img[s], TopsOf(ctl)[s])
      BY <1>4, <2>1
    <3>3. \A x \in Segment : x # s => j[x] = img[x]
      BY <2>1
    <3> HIDE DEF j, s
    <3>4. /\ ImageOK(j[s])
          /\ Len(j[s].dat) <= TopsOf(ctl)[s]
          /\ \A x \in Segment : \A n \in 1 .. TopsOf(ctl)[x] :
               n <= Len(img[x].dat) => n <= Len(j[x].dat) /\ j[x].dat[n] = img[x].dat[n]
      BY ONLY <3>1, <3>2, <3>3, TrimKeeps
    <3> QED
      BY <3>4 DEF j, s
  <2>3. ImageOK(g) /\ img' = [img EXCEPT !["sou"] = g]
    BY <1>5, <2>1, <2>2
  <2>4. ImagesOK(img')
    <3> HIDE DEF g
    <3>1. ImagesOK([img EXCEPT !["sou"] = g])
      BY ONLY <1>4, <1>5, <2>3, ImagesWith, Zenon
    <3> QED
      BY <2>3, <3>1
  <2> QED
    BY <1>4, <2>1, <2>2, <2>4 DEF Segment
<1>7. Base(img', ctl) /\ ("power" \in fate => Durable(dsk, img', ctl))
  BY <1>3, <1>6, KeepsPages
<1>8. TypeInv'
  BY <1>1, <1>2, <1>6 DEF TypeInv
<1>9. PatchesInv'
  BY <1>2, <1>3, <1>7 DEF PatchesInv, PairOK
<1>10. GoodInv' /\ StepInv'
  BY <1>2, <1>3 DEF GoodInv, StepInv, Applying
<1>11. PowerInv'
  BY <1>1, <1>2, <1>3, <1>7 DEF PowerInv, Needed, Applying
<1>12. ApplyInv'
  <2>1. \A k \in 1 .. Len(ctl.pag) : ~(k < 1)
    OBVIOUS
  <2> QED
    BY <1>1, <1>2, <1>6, <2>1 DEF ApplyInv
<1>13. live = TRUE => \A p \in Live(top) : Kept(img', top, loom, p) \/ InPatch(ctl, p)
  BY <1>1, <1>6, TrimKeepsLive
<1>14. LiveInv'
  BY <1>1, <1>2, <1>13 DEF LiveInv, Saving, Applying
<1> QED
  BY <1>8, <1>9, <1>10, <1>11, <1>12, <1>14 DEF SnapInv

\* A page that the patch has may change in the images.
LEMMA PatchedPageChanges ==
  ASSUME NEW i, NEW j, NEW c, NEW d, NEW s, NEW n, IsLine(c, s, n),
         ControlOK(c), ImagesOK(i),
         \A x \in Segment : \A m \in 1 .. Len(i[x].dat) :
           ~(x = s /\ m = n) => m <= Len(j[x].dat) /\ j[x].dat[m] = i[x].dat[m]
  PROVE  /\ Base(i, c) => Base(j, c)
         /\ Base(i, c) /\ Durable(d, i, c) => Durable(d, j, c)
<1>1. \A x \in Segment : Len(i[x].dat) \in Nat /\ TopsOf(c)[x] \in Nat
  BY DEF ImagesOK, ImageOK, TopsOf, ControlOK, ControlType, Segment
<1>2. ASSUME Base(i, c), NEW x \in Segment, NEW m \in 1 .. TopsOf(c)[x], ~IsLine(c, x, m)
      PROVE  /\ m <= Len(j[x].dat) /\ j[x].dat[m] = i[x].dat[m] /\ i[x].dat[m] # Bad
  <2>1. m <= Len(i[x].dat) /\ i[x].dat[m] # Bad
    BY <1>2 DEF Base
  <2>2. m \in 1 .. Len(i[x].dat) /\ ~(x = s /\ m = n)
    BY <1>1, <1>2, <2>1
  <2> QED
    BY <2>1, <2>2
<1>3. ASSUME Base(i, c) PROVE Base(j, c)
  BY <1>2, <1>3 DEF Base
<1>4. ASSUME Base(i, c), Durable(d, i, c) PROVE Durable(d, j, c)
  <2>1. ASSUME NEW x \in Segment, NEW m \in 1 .. TopsOf(c)[x], ~IsLine(c, x, m)
        PROVE  m <= Len(d[x].dat) /\ d[x].dat[m] = j[x].dat[m]
    <3>1. m <= Len(d[x].dat) /\ d[x].dat[m] = i[x].dat[m]
      BY <1>4, <2>1 DEF Durable
    <3>2. j[x].dat[m] = i[x].dat[m]
      BY <1>2, <1>4, <2>1
    <3> QED
      BY <3>1, <3>2
  <2> QED
    BY <2>1 DEF Durable
<1> QED
  BY <1>3, <1>4

\* The line that is applied next.
NextPage == ctl.pag[pgc]
NextSegment == SegmentOf(NextPage, TopsOf(ctl))
NextOffset == OffsetOf(NextPage, TopsOf(ctl))

\* It is written to its place in the images, and nothing else changes there.
LEMMA PageIsApplied ==
  ASSUME SnapInv, ApplyPage
  PROVE  /\ pgc \in 1 .. Len(ctl.pag)
         /\ NextPage \in Page /\ NextSegment \in Segment /\ NextOffset \in 1 .. Pages
         /\ mem.dat[pgc] \in Data /\ mem.dat[pgc] # Bad
         /\ live = TRUE => mem.dat[pgc] = loom[NextPage]
         /\ LineAt(ctl, pgc, NextSegment, NextOffset)
         /\ \A x, m : LineAt(ctl, pgc, x, m) => x = NextSegment /\ m = NextOffset
         /\ \A k \in 1 .. Len(ctl.pag) :
              LineAt(ctl, k, NextSegment, NextOffset) => ctl.pag[k] = NextPage
         /\ ImagesOK(img')
         /\ \A x \in Segment : \A m \in 1 .. Len(img[x].dat) :
              ~(x = NextSegment /\ m = NextOffset) =>
                m <= Len(img'[x].dat) /\ img'[x].dat[m] = img[x].dat[m]
         /\ NextOffset <= Len(img'[NextSegment].dat)
         /\ img'[NextSegment].dat[NextOffset] = mem.dat[pgc]
         /\ \A x \in Segment :
              Len(img[x].dat) <= TopsOf(ctl)[x] => Len(img'[x].dat) <= TopsOf(ctl)[x]
         /\ \A x \in Segment : img'[x].torn = img[x].torn
<1> USE DEF core, patch
<1>1. /\ at = "apply" /\ at \in Applying
      /\ TypeInv /\ PatchesInv /\ PowerInv /\ ApplyInv /\ LiveInv
  BY DEF ApplyPage, SnapInv, Applying
<1> DEFINE p == NextPage
           s == NextSegment
           n == NextOffset
           v == mem.dat[pgc]
           g == WriteAt(img[s], n, v)
<1>2. /\ at' = at /\ pgc <= Len(ctl.pag) /\ pgc' = pgc + 1
      /\ img' = [img EXCEPT ![s] = g]
      /\ fate' = fate /\ live' = live /\ loom' = loom /\ top' = top /\ dit' = dit
      /\ dsk' = dsk /\ ctl' = ctl /\ mem' = mem /\ jrn' = jrn
  BY DEF ApplyPage, PatchTops, TopsOf, NextPage, NextSegment, NextOffset
<1>3. /\ Verifies(ctl, mem) /\ jrn = {} /\ ControlOK(ctl) /\ ctl.whole = TRUE
      /\ mem \in MemoryType /\ Base(img, ctl)
      /\ Len(mem.dat) >= Len(ctl.pag)
      /\ \A k \in 1 .. Len(ctl.pag) : mem.dat[k] = ctl.mug[k]
      /\ "power" \in fate => Durable(dsk, img, ctl)
  BY <1>1, AppliedPatch
<1>4. pgc \in 1 .. Len(ctl.pag)
  BY <1>1, <1>2, <1>3 DEF TypeInv, ApplyInv, ControlOK, ControlType
<1>5. /\ p \in Page /\ s \in Segment
      /\ n \in 1 .. TopsOf(ctl)[s] /\ n \in 1 .. Pages
  BY <1>3, <1>4, LineHasOffset DEF NextPage, NextSegment, NextOffset
<1>6. /\ v \in Data /\ v # Bad
      /\ live = TRUE => v = loom[p]
  BY <1>1, <1>3, <1>4 DEF ControlOK, ControlType, LiveInv, NextPage
<1>7. ImagesOK(img) /\ ImageOK(img[s])
  BY <1>1, <1>5 DEF TypeInv, ImagesOK
<1>8. /\ ImageOK(g)
      /\ Len(g.dat) = IF n > Len(img[s].dat) THEN n ELSE Len(img[s].dat)
      /\ g.dat[n] = v
      /\ \A j \in 1 .. Len(img[s].dat) : j # n => g.dat[j] = img[s].dat[j]
  BY <1>5, <1>6, <1>7, WriteAtKeeps
<1>9. \A x \in Segment : Len(img[x].dat) \in Nat /\ TopsOf(ctl)[x] \in Nat
  BY <1>3, <1>7 DEF ImagesOK, ImageOK, TopsOf, ControlOK, ControlType, Segment
<1>10. LineAt(ctl, pgc, s, n) /\ IsLine(ctl, s, n)
  BY <1>4 DEF LineAt, IsLine, NextPage, NextSegment, NextOffset
<1>11. \A x, m : LineAt(ctl, pgc, x, m) => x = s /\ m = n
  BY DEF LineAt, NextPage, NextSegment, NextOffset
<1>12. \A k \in 1 .. Len(ctl.pag) : LineAt(ctl, k, s, n) => ctl.pag[k] = p
  <2>1. SUFFICES ASSUME NEW k \in 1 .. Len(ctl.pag), LineAt(ctl, k, s, n)
                 PROVE  ctl.pag[k] = p
    OBVIOUS
  <2>2. ctl.pag[k] \in Page /\ TopsOf(ctl).nor \in Nat
    BY <1>3 DEF ControlOK, ControlType, TopsOf
  <2> QED
    BY <1>5, <2>1, <2>2, OffsetsDiffer DEF LineAt, NextSegment, NextOffset
<1> HIDE DEF g, v, n, s
<1>13. ImagesOK(img')
  <2>1. ImagesOK([img EXCEPT ![s] = g])
    BY ONLY <1>5, <1>7, <1>8, ImagesWith, Zenon
  <2> QED
    BY <1>2, <2>1
<1>14. img'[s] = g /\ (\A x \in Segment : x # s => img'[x] = img[x])
  BY <1>2, <1>5, <1>7 DEF ImagesOK, Images
<1>15. \A x \in Segment : \A m \in 1 .. Len(img[x].dat) :
         ~(x = s /\ m = n) => m <= Len(img'[x].dat) /\ img'[x].dat[m] = img[x].dat[m]
  <2>1. SUFFICES ASSUME NEW x \in Segment, NEW m \in 1 .. Len(img[x].dat), ~(x = s /\ m = n)
                 PROVE  m <= Len(img'[x].dat) /\ img'[x].dat[m] = img[x].dat[m]
    OBVIOUS
  <2>2. CASE x = s
    <3>1. m # n /\ m \in 1 .. Len(img[s].dat) /\ Len(img[s].dat) \in Nat
      BY <1>9, <2>1, <2>2
    <3>2. g.dat[m] = img[s].dat[m]
      BY <1>8, <3>1
    <3>3. m <= Len(g.dat)
      BY <1>5, <1>8, <3>1
    <3> QED
      BY <1>14, <2>2, <3>2, <3>3
  <2>3. CASE x # s
    BY <1>9, <1>14, <2>3
  <2> QED
    BY <2>2, <2>3
<1>16. n <= Len(img'[s].dat) /\ img'[s].dat[n] = v
  BY <1>5, <1>8, <1>9, <1>14
<1>17. \A x \in Segment : Len(img[x].dat) <= TopsOf(ctl)[x] => Len(img'[x].dat) <= TopsOf(ctl)[x]
  <2>1. Len(img[s].dat) <= TopsOf(ctl)[s] => Len(g.dat) <= TopsOf(ctl)[s]
    BY <1>5, <1>8, <1>9
  <2> QED
    BY <1>14, <2>1
<1>18. g.torn = img[s].torn
  <2>1. img[s] \in [dat : Seq(Data), torn : BOOLEAN]
    BY <1>7 DEF ImageOK
  <2> QED
    BY <2>1 DEF g, WriteAt
<1>19. \A x \in Segment : img'[x].torn = img[x].torn
  BY <1>14, <1>18
<1> QED
  BY <1>4, <1>5, <1>6, <1>10, <1>11, <1>12, <1>13, <1>15, <1>16, <1>17, <1>19 DEF v, n, s

LEMMA ApplyPageKeepsInv ==
  ASSUME SnapInv, ApplyPage
  PROVE  SnapInv'
<1> USE DEF core, patch
<1>1. /\ at = "apply" /\ at \in Applying
      /\ TypeInv /\ PatchesInv /\ PowerInv /\ ApplyInv /\ LiveInv
  BY DEF ApplyPage, SnapInv, Applying
<1> DEFINE p == NextPage
           s == NextSegment
           n == NextOffset
           v == mem.dat[pgc]
<1>2. /\ at' = at /\ pgc' = pgc + 1
      /\ fate' = fate /\ live' = live /\ loom' = loom /\ top' = top /\ dit' = dit
      /\ dsk' = dsk /\ ctl' = ctl /\ mem' = mem /\ jrn' = jrn
  BY DEF ApplyPage
<1>3. /\ Verifies(ctl, mem) /\ jrn = {} /\ ControlOK(ctl) /\ ctl.whole = TRUE
      /\ mem \in MemoryType /\ Base(img, ctl)
      /\ "power" \in fate => Durable(dsk, img, ctl)
  BY <1>1, AppliedPatch
<1>4. pgc \in 1 .. Len(ctl.pag)
  BY PageIsApplied
<1>5. p \in Page /\ s \in Segment /\ n \in 1 .. Pages
  BY PageIsApplied
<1>6. v # Bad /\ (live = TRUE => v = loom[p])
  BY PageIsApplied
<1>7. ImagesOK(img) /\ ImagesOK(img')
  BY <1>1, PageIsApplied DEF TypeInv
<1>8. \A x \in Segment : Len(img[x].dat) \in Nat
  BY <1>7 DEF ImagesOK, ImageOK
<1>9. \A q : \A k \in 1 .. Len(ctl.pag) : ctl.pag[k] = q => InPatch(ctl, q)
  BY DEF InPatch
<1>10. LineAt(ctl, pgc, s, n) /\ IsLine(ctl, s, n) /\ InPatch(ctl, p)
  BY <1>4, <1>9, PageIsApplied DEF IsLine, NextPage
<1>11. \A x, m : LineAt(ctl, pgc, x, m) => x = s /\ m = n
  BY PageIsApplied
<1>12. \A k \in 1 .. Len(ctl.pag) : LineAt(ctl, k, s, n) => ctl.pag[k] = p
  BY PageIsApplied
<1>13. \A x \in Segment : \A m \in 1 .. Len(img[x].dat) :
         ~(x = s /\ m = n) => m <= Len(img'[x].dat) /\ img'[x].dat[m] = img[x].dat[m]
  BY PageIsApplied
<1>14. n <= Len(img'[s].dat) /\ img'[s].dat[n] = v
  BY PageIsApplied
<1>15. \A x \in Segment : Len(img[x].dat) <= TopsOf(ctl)[x] => Len(img'[x].dat) <= TopsOf(ctl)[x]
  BY PageIsApplied
<1> HIDE DEF v, n, s, p
<1>16. Base(img', ctl) /\ ("power" \in fate => Durable(dsk, img', ctl))
  <2> DEFINE j == img'
  <2>1. \A x \in Segment : \A m \in 1 .. Len(img[x].dat) :
          ~(x = s /\ m = n) => m <= Len(j[x].dat) /\ j[x].dat[m] = img[x].dat[m]
    BY <1>13
  <2> HIDE DEF j
  <2>2. /\ Base(img, ctl) => Base(j, ctl)
        /\ Base(img, ctl) /\ Durable(dsk, img, ctl) => Durable(dsk, j, ctl)
    BY ONLY <1>3, <1>7, <1>10, <2>1, PatchedPageChanges
  <2> QED
    BY <1>3, <2>2 DEF j
<1>17. ASSUME NEW k \in 1 .. Len(ctl.pag), k < pgc + 1,
              NEW x \in Segment, NEW m \in 1 .. Pages, LineAt(ctl, k, x, m)
       PROVE  /\ m <= Len(img'[x].dat)
              /\ img'[x].dat[m] # Bad
              /\ live = TRUE => img'[x].dat[m] = loom[ctl.pag[k]]
  <2>1. CASE x = s /\ m = n
    <3>1. ctl.pag[k] = p
      BY <1>12, <1>17, <2>1
    <3> QED
      BY <1>6, <1>14, <2>1, <3>1
  <2>2. CASE ~(x = s /\ m = n)
    <3>1. k # pgc
      BY <1>11, <1>17, <2>2
    <3>2. k < pgc
      BY <1>4, <1>17, <3>1
    <3>3. /\ m <= Len(img[x].dat) /\ img[x].dat[m] # Bad
          /\ live = TRUE => img[x].dat[m] = loom[ctl.pag[k]]
      BY <1>1, <1>17, <3>2 DEF ApplyInv, Placed
    <3>4. m \in 1 .. Len(img[x].dat)
      BY <1>8, <3>3
    <3>5. m <= Len(img'[x].dat) /\ img'[x].dat[m] = img[x].dat[m]
      BY <1>13, <2>2, <3>4
    <3> QED
      BY <3>3, <3>5
  <2> QED
    BY <2>1, <2>2
<1>18. TypeInv'
  BY <1>1, <1>2, <1>7 DEF TypeInv
<1>19. PatchesInv'
  BY <1>2, <1>3, <1>16 DEF PatchesInv, PairOK
<1>20. GoodInv' /\ StepInv'
  BY <1>1, <1>2, <1>3 DEF GoodInv, StepInv, Applying
<1>21. PowerInv'
  BY <1>1, <1>2, <1>3, <1>16 DEF PowerInv, Needed, Applying
<1>22. ApplyInv'
  <2>1. "nor" \in Segment /\ "sou" \in Segment
        /\ TopsOf(ctl)["nor"] = ctl.nor /\ TopsOf(ctl)["sou"] = ctl.sou
    BY DEF Segment, TopsOf
  <2>2. Len(img'["nor"].dat) <= ctl.nor /\ Len(img'["sou"].dat) <= ctl.sou
    BY <1>1, <1>15, <2>1 DEF ApplyInv
  <2>3. at' = "apply" /\ pgc' > 0
    BY <1>1, <1>2, <1>4
  <2>4. \A k \in 1 .. Len(ctl.pag) : k < pgc + 1 => Placed(img, ctl, k)'
    BY <1>2, <1>17 DEF Placed
  <2> QED
    BY <1>2, <2>2, <2>3, <2>4 DEF ApplyInv
<1>23. ASSUME live = TRUE, NEW q \in Live(top)
       PROVE  Kept(img', top, loom, q) \/ InPatch(ctl, q)
  <2>1. /\ ctl.nor = top.nor /\ ctl.sou = top.sou
        /\ Kept(img, top, loom, q) \/ InPatch(ctl, q)
    BY <1>1, <1>23 DEF LiveInv
  <2>2. top.nor \in Nat /\ top.sou \in Nat /\ top.nor + top.sou <= Pages
    BY <1>1 DEF TypeInv, Segment
  <2> DEFINE x == SegmentOf(q, top)
             m == OffsetOf(q, top)
  <2>3. q \in Page /\ x \in Segment /\ m \in 1 .. Pages
    BY <2>2, PageHasOffset
  <2>4. TopsOf(ctl).nor = top.nor /\ TopsOf(ctl).sou = top.sou
    BY <2>1 DEF TopsOf
  <2>5. x = SegmentOf(q, TopsOf(ctl)) /\ m = OffsetOf(q, TopsOf(ctl))
    BY <2>4, SameTops
  <2>6. CASE x = s /\ m = n
    <3>1. q = p
      BY <1>5, <2>2, <2>3, <2>4, <2>5, <2>6, OffsetsDiffer DEF s, n, NextSegment, NextOffset, p
    <3> QED
      BY <1>10, <3>1
  <2>7. CASE ~(x = s /\ m = n) /\ Kept(img, top, loom, q)
    <3>1. m <= Len(img[x].dat) /\ img[x].dat[m] = loom[q]
      BY <2>7 DEF Kept
    <3>2. m \in 1 .. Len(img[x].dat)
      BY <1>8, <2>3, <3>1
    <3>3. m <= Len(img'[x].dat) /\ img'[x].dat[m] = img[x].dat[m]
      BY <1>13, <2>3, <2>7, <3>2
    <3> QED
      BY <3>1, <3>3 DEF Kept
  <2> QED
    BY <2>1, <2>6, <2>7
<1>24. LiveInv'
  BY <1>1, <1>2, <1>23 DEF LiveInv, Saving, Applying
<1> QED
  BY <1>18, <1>19, <1>20, <1>21, <1>22, <1>24 DEF SnapInv

LEMMA SyncNorthKeepsInv ==
  ASSUME SnapInv, SyncNorth
  PROVE  SnapInv'
<1> USE DEF core, patch
<1>1. /\ at = "apply" /\ at \in Applying /\ pgc > Len(ctl.pag)
      /\ TypeInv /\ PatchesInv /\ PowerInv /\ ApplyInv /\ LiveInv
  BY DEF SyncNorth, SnapInv, Applying
<1>2. /\ at' = "syncS" /\ dsk' = [dsk EXCEPT !["nor"] = img["nor"]] /\ jrn' = {}
      /\ fate' = fate /\ live' = live /\ loom' = loom /\ top' = top /\ dit' = dit /\ pgc' = pgc
      /\ img' = img /\ ctl' = ctl /\ mem' = mem
  BY DEF SyncNorth
<1>3. /\ Verifies(ctl, mem) /\ ControlOK(ctl) /\ Base(img, ctl)
      /\ mem \in MemoryType
      /\ "power" \in fate => Durable(dsk, img, ctl) /\ ctl.syn = TRUE /\ mem.syn = TRUE
  BY <1>1, AppliedPatch
<1>4. ImagesOK(img) /\ ImagesOK(dsk) /\ "nor" \in Segment /\ ImageOK(img["nor"])
  BY <1>1 DEF TypeInv, ImagesOK, Segment
<1>5. ImagesOK(dsk')
  <2>1. ImagesOK([dsk EXCEPT !["nor"] = img["nor"]])
    BY ONLY <1>4, ImagesWith, Zenon
  <2> QED
    BY <1>2, <2>1
<1>6. dsk'["nor"] = img["nor"] /\ (\A x \in Segment : x # "nor" => dsk'[x] = dsk[x])
  BY <1>2, <1>4 DEF ImagesOK, Images
<1>7. ASSUME Durable(dsk, img, ctl) PROVE Durable(dsk', img, ctl)
  <2>1. ASSUME NEW x \in Segment, NEW n \in 1 .. TopsOf(ctl)[x], ~IsLine(ctl, x, n)
        PROVE  n <= Len(dsk'[x].dat) /\ dsk'[x].dat[n] = img[x].dat[n]
    <3>1. CASE x = "nor"
      <4>1. n <= Len(img[x].dat)
        BY <1>3, <2>1 DEF Base
      <4> QED
        BY <1>6, <3>1, <4>1
    <3>2. CASE x # "nor"
      <4>1. n <= Len(dsk[x].dat) /\ dsk[x].dat[n] = img[x].dat[n]
        BY <1>7, <2>1 DEF Durable
      <4> QED
        BY <1>6, <3>2, <4>1
    <3> QED
      BY <3>1, <3>2
  <2> QED
    BY <2>1 DEF Durable
<1>8. TypeInv'
  BY <1>1, <1>2, <1>5 DEF TypeInv
<1>9. PatchesInv'
  BY <1>1, <1>2 DEF PatchesInv
<1>10. GoodInv' /\ StepInv'
  BY <1>2, <1>3 DEF GoodInv, StepInv, Applying
<1>11. PowerInv'
  BY <1>1, <1>2, <1>3, <1>6, <1>7 DEF PowerInv, Needed, Applying
<1>12. ApplyInv'
  <2>1. \A k \in 1 .. Len(ctl.pag) : k < pgc
    BY <1>1, <1>3 DEF TypeInv, ControlOK, ControlType
  <2>2. \A k \in 1 .. Len(ctl.pag) : Placed(img, ctl, k)'
    BY <1>1, <1>2, <2>1 DEF ApplyInv, Placed
  <2> QED
    BY <1>1, <1>2, <2>2 DEF ApplyInv
<1>13. LiveInv'
  BY <1>1, <1>2 DEF LiveInv, Saving, Applying
<1> QED
  BY <1>8, <1>9, <1>10, <1>11, <1>12, <1>13 DEF SnapInv

\* Images that have had a whole patch applied are good, and have every page in memory.
LEMMA SyncSouthKeepsInv ==
  ASSUME SnapInv, SyncSouth
  PROVE  SnapInv'
<1> USE DEF core, patch
<1>1. /\ at = "syncS" /\ at \in Applying
      /\ TypeInv /\ PatchesInv /\ PowerInv /\ ApplyInv /\ LiveInv
  BY DEF SyncSouth, SnapInv, Applying
<1>2. /\ at' = "dropC" /\ dsk' = [dsk EXCEPT !["sou"] = img["sou"]] /\ jrn' = {}
      /\ fate' = fate /\ live' = live /\ loom' = loom /\ top' = top /\ dit' = dit /\ pgc' = pgc
      /\ img' = img /\ ctl' = ctl /\ mem' = mem
  BY DEF SyncSouth
<1>3. /\ Verifies(ctl, mem) /\ ControlOK(ctl) /\ ctl.whole = TRUE /\ Base(img, ctl)
      /\ mem \in MemoryType
  BY <1>1, AppliedPatch
<1>4. /\ ImagesOK(img) /\ ImagesOK(dsk)
      /\ "nor" \in Segment /\ "sou" \in Segment /\ ImageOK(img["sou"])
  BY <1>1 DEF TypeInv, ImagesOK, Segment
<1>5. ImagesOK(dsk')
  <2>1. ImagesOK([dsk EXCEPT !["sou"] = img["sou"]])
    BY ONLY <1>4, ImagesWith, Zenon
  <2> QED
    BY <1>2, <2>1
<1>6. "power" \in fate => dsk' = img
  <2>1. SUFFICES ASSUME "power" \in fate PROVE dsk' = img
    OBVIOUS
  <2>2. dsk["nor"] = img["nor"]
    BY <1>1, <2>1 DEF PowerInv
  <2>3. dsk'["sou"] = img["sou"] /\ dsk'["nor"] = dsk["nor"]
    BY <1>2, <1>4 DEF ImagesOK, Images
  <2>4. \A x \in Segment : dsk'[x] = img[x]
    BY <2>2, <2>3 DEF Segment
  <2>5. dsk' \in Images /\ img \in Images
    BY <1>4, <1>5 DEF ImagesOK
  <2> QED
    BY <2>4, <2>5 DEF Images
<1>7. /\ ctl.nor \in Nat /\ ctl.sou \in Nat /\ ctl.nor + ctl.sou <= Pages
      /\ TopsOf(ctl)["nor"] = ctl.nor /\ TopsOf(ctl)["sou"] = ctl.sou
  BY <1>3 DEF ControlOK, ControlType, TopsOf
<1>8. /\ Len(img["nor"].dat) \in Nat /\ Len(img["nor"].dat) <= ctl.nor /\ ctl.nor <= Pages
      /\ Len(img["sou"].dat) \in Nat /\ Len(img["sou"].dat) <= ctl.sou /\ ctl.sou <= Pages
  <2>1. \A x \in Segment : Len(img[x].dat) \in Nat
    BY <1>4 DEF ImagesOK, ImageOK
  <2>2. Len(img["nor"].dat) <= ctl.nor /\ Len(img["sou"].dat) <= ctl.sou
    BY <1>1 DEF ApplyInv
  <2>3. ctl.nor <= Pages /\ ctl.sou <= Pages
    BY <1>7, SnapshotAssumption
  <2> QED
    BY <1>4, <2>1, <2>2, <2>3
<1>9. ASSUME NEW k \in 1 .. Len(ctl.pag), NEW x \in Segment, NEW n \in 1 .. Pages,
             LineAt(ctl, k, x, n)
      PROVE  /\ n <= Len(img[x].dat) /\ img[x].dat[n] # Bad
             /\ live = TRUE => img[x].dat[n] = loom[ctl.pag[k]]
  BY <1>1, <1>9 DEF ApplyInv, Placed
<1>10. Good(img)
  <2>1. ASSUME NEW x \in Segment, NEW n \in 1 .. Len(img[x].dat)
        PROVE  img[x].dat[n] # Bad
    <3>1. n \in 1 .. TopsOf(ctl)[x] /\ n \in 1 .. Pages
      <4>1. CASE x = "nor"
        BY <1>7, <1>8, <4>1, SnapshotAssumption
      <4>2. CASE x = "sou"
        BY <1>7, <1>8, <4>2, SnapshotAssumption
      <4> QED
        BY <4>1, <4>2 DEF Segment
    <3>2. CASE IsLine(ctl, x, n)
      BY <1>9, <3>1, <3>2 DEF IsLine
    <3>3. CASE ~IsLine(ctl, x, n)
      BY <1>3, <3>1, <3>3 DEF Base
    <3> QED
      BY <3>2, <3>3
  <2>2. Len(img["nor"].dat) + Len(img["sou"].dat) <= Pages
    <3> DEFINE a == Len(img["nor"].dat)
               b == Len(img["sou"].dat)
    <3>1. /\ a \in Nat /\ b \in Nat /\ a <= ctl.nor /\ b <= ctl.sou
          /\ ctl.nor \in Nat /\ ctl.sou \in Nat /\ ctl.nor + ctl.sou <= Pages
      BY <1>7, <1>8
    <3> HIDE DEF a, b
    <3>2. a + b <= Pages
      BY <3>1, SnapshotAssumption
    <3> QED
      BY <3>2 DEF a, b
  <2> QED
    BY <2>1, <2>2 DEF Good
<1>11. ASSUME live = TRUE, NEW p \in Live(top)
       PROVE  Kept(img, top, loom, p)
  <2>1. /\ ctl.nor = top.nor /\ ctl.sou = top.sou
        /\ Kept(img, top, loom, p) \/ InPatch(ctl, p)
    BY <1>1, <1>11 DEF LiveInv
  <2>2. CASE InPatch(ctl, p)
    <3>1. PICK k \in 1 .. Len(ctl.pag) : ctl.pag[k] = p
      BY <2>2 DEF InPatch
    <3>2. top.nor \in Nat /\ top.sou \in Nat /\ top.nor + top.sou <= Pages
      BY <1>1 DEF TypeInv, Segment
    <3>3. SegmentOf(p, top) \in Segment /\ OffsetOf(p, top) \in 1 .. Pages
      BY <3>2, PageHasOffset
    <3>4. TopsOf(ctl).nor = top.nor /\ TopsOf(ctl).sou = top.sou
      BY <2>1 DEF TopsOf
    <3>5. LineAt(ctl, k, SegmentOf(p, top), OffsetOf(p, top))
      BY <3>1, <3>4, SameTops DEF LineAt
    <3> QED
      BY <1>9, <1>11, <3>1, <3>3, <3>5 DEF Kept
  <2> QED
    BY <2>1, <2>2
<1>12. TypeInv'
  BY <1>1, <1>2, <1>5 DEF TypeInv
<1>13. PatchesInv'
  BY <1>1, <1>2 DEF PatchesInv
<1>14. GoodInv' /\ StepInv' /\ ApplyInv'
  BY <1>2, <1>10 DEF GoodInv, StepInv, ApplyInv, Applying
<1>15. PowerInv'
  BY <1>2, <1>6 DEF PowerInv, Needed, Applying
<1>16. LiveInv'
  BY <1>1, <1>2, <1>11 DEF LiveInv, Saving, Applying
<1> QED
  BY <1>12, <1>13, <1>14, <1>15, <1>16 DEF SnapInv

LEMMA DropControlKeepsInv ==
  ASSUME SnapInv, DropControl
  PROVE  SnapInv'
<1> USE DEF core, patch
<1>1. /\ at = "dropC"
      /\ TypeInv /\ PatchesInv /\ GoodInv /\ PowerInv /\ LiveInv
  BY DEF DropControl, SnapInv
<1>2. /\ at' = "dropM" /\ ctl' = None /\ pgc' = 0 /\ jrn' \in {jrn, Noted}
      /\ fate' = fate /\ live' = live /\ loom' = loom /\ top' = top /\ dit' = dit
      /\ img' = img /\ dsk' = dsk /\ mem' = mem
  BY DEF DropControl
<1>3. ~Verifies(ctl', mem')
  BY <1>2 DEF Verifies
<1>4. TypeInv'
  BY <1>1, <1>2 DEF TypeInv
<1>5. PatchesInv'
  BY <1>1, <1>2, <1>3, NotedPairs DEF PatchesInv, PairOK
<1>6. GoodInv' /\ StepInv' /\ ApplyInv'
  BY <1>1, <1>2 DEF GoodInv, StepInv, ApplyInv, Applying
<1>7. PowerInv'
  BY <1>1, <1>2, NotedPairs DEF PowerInv, Needed, Applying
<1>8. LiveInv'
  BY <1>1, <1>2 DEF LiveInv, Saving, Applying
<1> QED
  BY <1>4, <1>5, <1>6, <1>7, <1>8 DEF SnapInv

LEMMA DropMemoryKeepsInv ==
  ASSUME SnapInv, DropMemory
  PROVE  SnapInv'
<1> USE DEF core, patch
<1>1. /\ at = "dropM" /\ ctl = None
      /\ TypeInv /\ PatchesInv /\ GoodInv /\ PowerInv /\ LiveInv
  BY DEF DropMemory, SnapInv, StepInv
<1>2. /\ at' = IF live THEN "idle" ELSE "load"
      /\ mem' = None /\ jrn' \in {jrn, Noted} /\ ctl' = ctl
      /\ fate' = fate /\ live' = live /\ loom' = loom /\ top' = top /\ dit' = dit /\ pgc' = pgc
      /\ img' = img /\ dsk' = dsk
  BY DEF DropMemory
<1>3. at' \in {"idle", "load"} /\ (at' = "idle" => live = TRUE) /\ (at' = "load" => live = FALSE)
  BY <1>1, <1>2 DEF TypeInv
<1>4. ~Verifies(ctl', mem')
  BY <1>2 DEF Verifies
<1>5. TypeInv'
  BY <1>1, <1>2, <1>3 DEF TypeInv
<1>6. PatchesInv'
  BY <1>1, <1>2, <1>4, NotedPairs DEF PatchesInv, PairOK
<1>7. GoodInv' /\ StepInv' /\ ApplyInv'
  BY <1>1, <1>2, <1>3 DEF GoodInv, StepInv, ApplyInv, Applying
<1>8. PowerInv'
  BY <1>1, <1>2, <1>3, NotedPairs DEF PowerInv, Needed, Applying
<1>9. LiveInv'
  BY <1>1, <1>2, <1>3 DEF LiveInv, Saving, Applying
<1> QED
  BY <1>5, <1>6, <1>7, <1>8, <1>9 DEF SnapInv

-----------------------------------------------------------------------------
(* A start.                                                                *)

LEMMA BootKeepsInv ==
  ASSUME SnapInv, Boot
  PROVE  SnapInv'
<1> USE DEF core, patch
<1>1. /\ at = "down" /\ live = FALSE
      /\ TypeInv /\ PatchesInv /\ GoodInv /\ PowerInv /\ LiveInv
  BY DEF Boot, SnapInv, LiveInv
<1>2. /\ at' = IF \E s \in Segment : img[s].torn THEN "refused"
               ELSE IF ctl = None THEN "load"
               ELSE IF Verifies(ctl, mem) THEN "trimN" ELSE "dropC"
      /\ fate' = fate /\ live' = live /\ loom' = loom /\ top' = top /\ dit' = dit /\ pgc' = pgc
      /\ img' = img /\ dsk' = dsk /\ ctl' = ctl /\ mem' = mem /\ jrn' = jrn
  BY DEF Boot
<1>3. Good(img) \/ Verifies(ctl, mem)
  BY <1>1 DEF GoodInv, Applying
<1>4. /\ at' \in {"refused", "load", "trimN", "dropC"}
      /\ at' = "load" => ctl = None
      /\ at' = "trimN" => Verifies(ctl, mem)
      /\ at' = "dropC" => ~Verifies(ctl, mem)
  BY <1>2
<1>5. ctl = None => ~Verifies(ctl, mem)
  BY DEF Verifies
<1>6. Verifies(ctl, mem) => Base(img, ctl)
  BY <1>1 DEF PatchesInv, PairOK
<1>7. at' = "trimN" /\ "power" \in fate => Durable(dsk, img, ctl)
  BY <1>1, <1>4, <1>6 DEF PowerInv, Applying, Base, Durable
<1>8. TypeInv'
  BY <1>1, <1>2, <1>4 DEF TypeInv
<1>9. PatchesInv'
  BY <1>1, <1>2 DEF PatchesInv
<1>10. GoodInv' /\ StepInv' /\ ApplyInv'
  BY <1>2, <1>3, <1>4, <1>5 DEF GoodInv, StepInv, ApplyInv, Applying
<1>11. PowerInv'
  BY <1>1, <1>2, <1>4, <1>7 DEF PowerInv, Needed, Applying
<1>12. LiveInv'
  BY <1>1, <1>2, <1>4 DEF LiveInv, Saving, Applying
<1> QED
  BY <1>8, <1>9, <1>10, <1>11, <1>12 DEF SnapInv

LEMMA LoadKeepsInv ==
  ASSUME SnapInv, Load
  PROVE  SnapInv'
<1> USE DEF core, patch
<1>1. /\ at = "load" /\ ctl = None
      /\ TypeInv /\ PatchesInv /\ GoodInv /\ PowerInv /\ LiveInv
  BY DEF Load, SnapInv, StepInv
<1>2. /\ at' = "idle" /\ live' = TRUE /\ loom' = Blit(img)
      /\ top' = IF img = NoImage THEN Fresh0 ELSE Tops(img)
      /\ dit' = Page \ (IF img = NoImage THEN {} ELSE Live(Tops(img)))
      /\ fate' = fate /\ pgc' = pgc
      /\ img' = img /\ dsk' = dsk /\ ctl' = ctl /\ mem' = mem /\ jrn' = jrn
  BY DEF Load
<1>3. Good(img) /\ ImagesOK(img)
  BY <1>1 DEF GoodInv, TypeInv, Applying
<1> DEFINE a == Len(img["nor"].dat)
           b == Len(img["sou"].dat)
<1>4. /\ a \in Nat /\ b \in Nat /\ a + b <= Pages
      /\ img["nor"].dat \in Seq(Data) /\ img["sou"].dat \in Seq(Data)
      /\ \A n \in 1 .. a : img["nor"].dat[n] # Bad
      /\ \A n \in 1 .. b : img["sou"].dat[n] # Bad
  <2>1. "nor" \in Segment /\ "sou" \in Segment
    BY DEF Segment
  <2>2. /\ \A n \in 1 .. a : img["nor"].dat[n] # Bad
        /\ \A n \in 1 .. b : img["sou"].dat[n] # Bad
        /\ a + b <= Pages
    BY <1>3, <2>1 DEF Good
  <2>3. ImageOK(img["nor"]) /\ ImageOK(img["sou"])
    BY <1>3, <2>1 DEF ImagesOK
  <2>4. /\ img["nor"].dat \in Seq(Data) /\ img["sou"].dat \in Seq(Data)
        /\ a \in Nat /\ b \in Nat
    BY <2>3 DEF ImageOK
  <2> QED
    BY <2>2, <2>4
<1>5. ASSUME NEW p \in Page PROVE Blit(img)[p] \in Data \ {Bad}
  <2>1. p \in Nat /\ p < Pages
    BY SnapshotAssumption DEF Page
  <2>2. CASE p < a
    <3>1. p + 1 \in 1 .. a
      BY <1>4, <2>1, <2>2
    <3>2. Blit(img)[p] = img["nor"].dat[p + 1]
      BY <2>2 DEF Blit
    <3> QED
      BY <1>4, <3>1, <3>2, ElementOfSeq
  <2>3. CASE ~(p < a) /\ Pages - p <= b
    <3>1. Pages - p \in 1 .. b
      BY <1>4, <2>1, <2>3, SnapshotAssumption
    <3>2. Blit(img)[p] = img["sou"].dat[Pages - p]
      BY <2>3 DEF Blit
    <3> QED
      BY <1>4, <3>1, <3>2, ElementOfSeq
  <2>4. CASE ~(p < a) /\ ~(Pages - p <= b)
    <3>1. Blit(img)[p] = 0
      BY <2>4 DEF Blit
    <3> QED
      BY <3>1, SnapshotAssumption DEF Data, Bad
  <2> QED
    BY <2>2, <2>3, <2>4
<1>6. loom' \in [Page -> Data \ {Bad}]
  <2>1. Blit(img) = [p \in Page |-> Blit(img)[p]]
    BY DEF Blit
  <2> QED
    BY <1>2, <1>5, <2>1
<1>7. Tops(img) \in [Segment -> 0 .. Pages] /\ Tops(img).nor = a /\ Tops(img).sou = b
  <2>1. \A s \in Segment : Len(img[s].dat) \in 0 .. Pages
    BY <1>3, SnapshotAssumption DEF ImagesOK, ImageOK
  <2> QED
    BY <2>1 DEF Tops, Segment
<1>8. Fresh0 \in [Segment -> 0 .. Pages] /\ Fresh0.nor + Fresh0.sou <= Pages
  BY SnapshotAssumption DEF Fresh0, Segment
<1>9. top' \in [Segment -> 0 .. Pages] /\ top'.nor + top'.sou <= Pages
  <2>1. CASE img = NoImage
    BY <1>2, <1>8, <2>1
  <2>2. CASE img # NoImage
    BY <1>2, <1>4, <1>7, <2>2
  <2> QED
    BY <2>1, <2>2
<1>10. ASSUME NEW p \in Live(top') \ dit' PROVE Kept(img, top', loom', p)
  <2>1. p \in Page
    BY DEF Live
  <2>2. img # NoImage
    BY <1>2, <2>1
  <2>3. top' = Tops(img)
    BY <1>2, <2>2
  <2>4. loom'[p] = IF p < a THEN img["nor"].dat[p + 1]
                   ELSE IF Pages - p <= b THEN img["sou"].dat[Pages - p] ELSE 0
    BY <1>2, <2>1 DEF Blit
  <2>5. p \in Nat /\ p < Pages /\ (p < a \/ p >= Pages - b)
    BY <1>7, <2>1, <2>3, SnapshotAssumption DEF Live, Page
  <2>6. CASE p < a
    <3>1. SegmentOf(p, top') = "nor" /\ OffsetOf(p, top') = p + 1
      BY <1>7, <2>3, <2>6 DEF SegmentOf, OffsetOf
    <3>2. p + 1 <= a
      BY <1>4, <2>5, <2>6
    <3> QED
      BY <2>4, <2>6, <3>1, <3>2 DEF Kept
  <2>7. CASE ~(p < a)
    <3>1. SegmentOf(p, top') = "sou" /\ OffsetOf(p, top') = Pages - p
      BY <1>7, <2>3, <2>7 DEF SegmentOf, OffsetOf
    <3>2. Pages - p <= b
      BY <1>4, <2>5, <2>7, SnapshotAssumption
    <3> QED
      BY <2>4, <2>7, <3>1, <3>2 DEF Kept
  <2> QED
    BY <2>6, <2>7
<1>11. TypeInv'
  BY <1>1, <1>2, <1>6, <1>9 DEF TypeInv
<1>12. PatchesInv'
  BY <1>1, <1>2 DEF PatchesInv
<1>13. GoodInv' /\ StepInv' /\ ApplyInv'
  BY <1>1, <1>2, <1>3 DEF GoodInv, StepInv, ApplyInv, Applying
<1>14. PowerInv'
  BY <1>1, <1>2 DEF PowerInv, Needed, Applying
<1>15. LiveInv'
  BY <1>1, <1>2, <1>10 DEF LiveInv, Saving, Applying
<1> QED
  BY <1>11, <1>12, <1>13, <1>14, <1>15 DEF SnapInv

-----------------------------------------------------------------------------
(* Failures.                                                               *)

LEMMA KillKeepsInv ==
  ASSUME OneFate, SnapInv, Kill
  PROVE  SnapInv'
<1> USE DEF core, patch
<1> DEFINE p == ctl.pag[pgc]
           s == SegmentOf(p, TopsOf(ctl))
           n == OffsetOf(p, TopsOf(ctl))
<1>1. /\ TypeInv /\ PatchesInv /\ GoodInv /\ StepInv /\ PowerInv
      /\ at \notin {"down", "refused"}
  BY DEF Kill, SnapInv
<1>2. "power" \notin fate
  <2>1. fate \in Fates /\ "kill" \in fate
    BY <1>1 DEF Kill, TypeInv
  <2> QED
    BY <2>1 DEF OneFate
<1>3. /\ at' = "down" /\ live' = FALSE /\ pgc' = 0
      /\ loom' = Loom0 /\ top' = Fresh0 /\ dit' = {}
      /\ fate' = fate /\ dsk' = dsk /\ ctl' = ctl /\ jrn' = jrn
  BY DEF Kill, Gone
<1>4. jrn = {} /\ PairOK(img, ctl, mem)
  BY <1>1, <1>2 DEF PowerInv, PatchesInv
<1>5. loom' \in [Page -> Data \ {Bad}]
  BY <1>3, SnapshotAssumption DEF Loom0, Data, Bad
<1>6. top' \in [Segment -> 0 .. Pages] /\ top'.nor + top'.sou <= Pages
  BY <1>3, SnapshotAssumption DEF Fresh0, Segment
<1>7. ASSUME ImagesOK(img'), PairOK(img', ctl, mem'), Good(img') \/ Verifies(ctl, mem')
      PROVE  SnapInv'
  <2>1. TypeInv'
    BY <1>1, <1>3, <1>5, <1>6, <1>7 DEF TypeInv
  <2>2. PatchesInv'
    BY <1>3, <1>4, <1>7 DEF PatchesInv
  <2>3. GoodInv' /\ StepInv' /\ ApplyInv'
    BY <1>3, <1>7 DEF GoodInv, StepInv, ApplyInv, Applying
  <2>4. PowerInv'
    BY <1>2, <1>3, <1>4 DEF PowerInv
  <2>5. LiveInv'
    BY <1>3 DEF LiveInv, Saving, Applying
  <2> QED
    BY <2>1, <2>2, <2>3, <2>4, <2>5 DEF SnapInv
<1>8. Good(img) \/ Verifies(ctl, mem)
  BY <1>1 DEF GoodInv, StepInv, Applying
<1>9. CASE UNCHANGED <<img, mem>>
  <2>1. img' = img /\ mem' = mem
    BY <1>9
  <2> QED
    BY <1>1, <1>4, <1>7, <1>8, <2>1 DEF TypeInv
<1>10. CASE /\ at = "pages" /\ mem' = [mem EXCEPT !.dat = Append(@, Bad)]
            /\ UNCHANGED img
  <2>1. img' = img
    BY <1>10
  <2>2. ctl.whole = FALSE /\ mem # None
    BY <1>1, <1>10 DEF StepInv
  <2>3. mem \in MemoryType
    BY <1>4, <2>2 DEF PairOK
  <2>4. mem.dat \in Seq(Data) /\ Bad \in Data
    BY <2>3, SnapshotAssumption DEF MemoryType, Data, Bad
  <2> DEFINE dat == Append(mem.dat, Bad)
  <2>5. dat \in Seq(Data)
    BY <2>4
  <2>6. mem' = [mem EXCEPT !.dat = dat]
    BY <1>10
  <2> HIDE DEF dat
  <2>7. mem' \in MemoryType
    BY <2>3, <2>5, <2>6 DEF MemoryType
  <2>8. ~Verifies(ctl, mem) /\ ~Verifies(ctl, mem')
    BY <2>2 DEF Verifies
  <2> QED
    BY <1>1, <1>4, <1>7, <1>8, <2>1, <2>7, <2>8 DEF TypeInv, PairOK
<1>11. CASE /\ at = "apply" /\ pgc <= Len(ctl.pag)
            /\ \E f \in Cut(img[s], n) : img' = [img EXCEPT ![s] = f]
            /\ UNCHANGED mem
  <2>1. at \in Applying /\ mem' = mem
    BY <1>11 DEF Applying
  <2>2. /\ Verifies(ctl, mem) /\ ControlOK(ctl) /\ ctl.whole = TRUE /\ Base(img, ctl)
        /\ ctl # None /\ mem \in MemoryType
    BY <2>1, AppliedPatch
  <2>3. pgc \in 1 .. Len(ctl.pag)
    BY <1>1, <1>11, <2>2 DEF SnapInv, TypeInv, ApplyInv, ControlOK, ControlType
  <2>4. s \in Segment /\ n \in 1 .. Pages
    BY <2>2, <2>3, LineHasOffset
  <2>5. IsLine(ctl, s, n)
    BY <2>3 DEF IsLine, LineAt
  <2>6. ImagesOK(img) /\ ImageOK(img[s])
    BY <1>1, <2>4 DEF TypeInv, ImagesOK
  <2> HIDE DEF s, n
  <2>7. PICK f \in Cut(img[s], n) : img' = [img EXCEPT ![s] = f]
    BY <1>11
  <2>8. /\ ImageOK(f)
        /\ Len(f.dat) = Len(img[s].dat)
        /\ \A j \in 1 .. Len(img[s].dat) : j # n => f.dat[j] = img[s].dat[j]
    BY <2>4, <2>6, CutKeeps
  <2>9. ImagesOK(img')
    <3>1. ImagesOK([img EXCEPT ![s] = f])
      BY ONLY <2>4, <2>6, <2>8, ImagesWith, Zenon
    <3> QED
      BY <2>7, <3>1
  <2>10. img'[s] = f /\ (\A x \in Segment : x # s => img'[x] = img[x])
    BY <2>4, <2>6, <2>7 DEF ImagesOK, Images
  <2>11. Base(img', ctl)
    <3> DEFINE j == img'
    <3>1. \A x \in Segment : \A m \in 1 .. Len(img[x].dat) :
            ~(x = s /\ m = n) => m <= Len(j[x].dat) /\ j[x].dat[m] = img[x].dat[m]
      <4>1. SUFFICES ASSUME NEW x \in Segment, NEW m \in 1 .. Len(img[x].dat), ~(x = s /\ m = n)
                     PROVE  m <= Len(j[x].dat) /\ j[x].dat[m] = img[x].dat[m]
        OBVIOUS
      <4>2. Len(img[x].dat) \in Nat
        BY <2>6 DEF ImagesOK, ImageOK
      <4> QED
        BY <2>8, <2>10, <4>1, <4>2
    <3> HIDE DEF j
    <3>2. /\ Base(img, ctl) => Base(j, ctl)
          /\ Base(img, ctl) /\ Durable(img, img, ctl) => Durable(img, j, ctl)
      BY ONLY <2>2, <2>5, <2>6, <3>1, PatchedPageChanges
    <3> QED
      BY <2>2, <3>2 DEF j
  <2> QED
    BY <1>7, <2>1, <2>2, <2>9, <2>11 DEF PairOK
<1> QED
  BY <1>9, <1>10, <1>11 DEF Kill, PatchTops, TopsOf

LEMMA ControlAfterLoss ==
  ASSUME NEW c, c # None, ControlOK(c), NEW a \in LostControl(c)
  PROVE  /\ ControlOK(a) /\ a # None /\ a.syn = TRUE
         /\ a.nor = c.nor /\ a.sou = c.sou /\ a.pag = c.pag /\ a.mug = c.mug
         /\ a.whole = TRUE => c.whole = TRUE
         /\ c.syn = TRUE => a = c
<1>1. c \in ControlType /\ c.syn \in BOOLEAN
  BY DEF ControlOK, ControlType
<1>2. CASE c.syn = TRUE
  <2>1. a = c
    BY <1>2 DEF LostControl
  <2> QED
    BY <1>2, <2>1
<1>3. CASE c.syn = FALSE
  <2>1. a = [c EXCEPT !.syn = TRUE] \/ a = [c EXCEPT !.syn = TRUE, !.whole = FALSE]
    BY <1>3 DEF LostControl
  <2>2. /\ a \in ControlType /\ a.syn = TRUE
        /\ a.nor = c.nor /\ a.sou = c.sou /\ a.pag = c.pag /\ a.mug = c.mug
        /\ a.whole = TRUE => c.whole = TRUE
    BY <1>1, <2>1 DEF ControlType
  <2>3. TopsOf(a) = TopsOf(c)
    BY <2>2 DEF TopsOf
  <2>4. ControlOK(a)
    BY <2>2, <2>3 DEF ControlOK
  <2> QED
    BY <1>3, <2>2, <2>4, FilesAreThere
<1> QED
  BY <1>1, <1>2, <1>3

LEMMA MemoryAfterLoss ==
  ASSUME NEW m \in MemoryType, NEW b \in LostMemory(m)
  PROVE  /\ b \in MemoryType /\ b # None /\ b.syn = TRUE
         /\ Len(b.dat) = Len(m.dat)
         /\ \A k \in 1 .. Len(m.dat) : b.dat[k] = m.dat[k] \/ b.dat[k] = Bad
         /\ m.syn = TRUE => b = m
<1>1. m.syn \in BOOLEAN /\ m.dat \in Seq(Data) /\ m # None
  BY FilesAreThere DEF MemoryType
<1>2. CASE m.syn = TRUE
  <2>1. b = m
    BY <1>1, <1>2 DEF LostMemory
  <2> QED
    BY <1>1, <1>2, <2>1
<1>3. CASE m.syn = FALSE
  <2>1. \/ b = [syn |-> TRUE, dat |-> m.dat]
        \/ \E i \in 1 .. Len(m.dat) : b = [syn |-> TRUE, dat |-> [m.dat EXCEPT ![i] = Bad]]
    BY <1>1, <1>3 DEF LostMemory
  <2>2. CASE b = [syn |-> TRUE, dat |-> m.dat]
    <3>1. b \in MemoryType /\ b.syn = TRUE /\ b.dat = m.dat
      BY <1>1, <2>2 DEF MemoryType
    <3> QED
      BY <1>3, <3>1, FilesAreThere
  <2>3. CASE \E i \in 1 .. Len(m.dat) : b = [syn |-> TRUE, dat |-> [m.dat EXCEPT ![i] = Bad]]
    <3>1. PICK i \in 1 .. Len(m.dat) : b = [syn |-> TRUE, dat |-> [m.dat EXCEPT ![i] = Bad]]
      BY <2>3
    <3>2. Bad \in Data
      BY SnapshotAssumption DEF Data, Bad
    <3> DEFINE dat == [m.dat EXCEPT ![i] = Bad]
    <3>3. /\ dat \in Seq(Data) /\ Len(dat) = Len(m.dat)
          /\ \A k \in 1 .. Len(m.dat) : dat[k] = m.dat[k] \/ dat[k] = Bad
      BY <1>1, <3>2, ExceptSeq
    <3>4. b = [syn |-> TRUE, dat |-> dat]
      BY <3>1
    <3> HIDE DEF dat
    <3>5. b \in MemoryType /\ b.syn = TRUE /\ b.dat = dat
      BY <3>3, <3>4 DEF MemoryType
    <3> QED
      BY <1>3, <3>3, <3>5, FilesAreThere
  <2> QED
    BY <2>1, <2>2, <2>3
<1> QED
  BY <1>1, <1>2, <1>3

SamePatch(a, c) == a.nor = c.nor /\ a.sou = c.sou /\ a.pag = c.pag /\ a.mug = c.mug

\* A patch that verifies after the power failed is one that verified before.
LEMMA PatchAfterLoss ==
  ASSUME NEW i, NEW c, NEW m, PairOK(i, c, m),
         NEW a \in LostControl(c), NEW b \in LostMemory(m)
  PROVE  /\ a = None \/ (ControlOK(a) /\ a.syn = TRUE)
         /\ b = None \/ (b \in MemoryType /\ b.syn = TRUE)
         /\ Verifies(a, b) =>
              /\ Verifies(c, m)
              /\ a.syn = TRUE /\ b.syn = TRUE
              /\ SamePatch(a, c)
         /\ Verifies(c, m) /\ c.syn = TRUE /\ m.syn = TRUE => a = c /\ b = m
<1>1. (c = None \/ ControlOK(c)) /\ (m = None \/ m \in MemoryType)
  BY DEF PairOK
<1>2. c = None => a = None
  BY DEF LostControl
<1>3. m = None => b = None
  BY DEF LostMemory
<1>4. c # None => ControlOK(a) /\ a.syn = TRUE
  BY <1>1, ControlAfterLoss
<1>5. m # None => b \in MemoryType /\ b.syn = TRUE
  BY <1>1, MemoryAfterLoss
<1>6. ASSUME Verifies(a, b)
      PROVE  /\ Verifies(c, m)
             /\ a.syn = TRUE /\ b.syn = TRUE
             /\ SamePatch(a, c)
  <2>1. a # None /\ b # None /\ c # None /\ m # None
    BY <1>2, <1>3, <1>6 DEF Verifies
  <2>2. /\ ControlOK(c) /\ m \in MemoryType /\ ControlOK(a) /\ b \in MemoryType
        /\ a.syn = TRUE /\ b.syn = TRUE
    BY <1>1, <1>4, <1>5, <2>1
  <2>3. /\ a.nor = c.nor /\ a.sou = c.sou /\ a.pag = c.pag /\ a.mug = c.mug
        /\ a.whole = TRUE => c.whole = TRUE
    BY <2>1, <2>2, ControlAfterLoss
  <2>4. /\ Len(b.dat) = Len(m.dat)
        /\ \A k \in 1 .. Len(m.dat) : b.dat[k] = m.dat[k] \/ b.dat[k] = Bad
    BY <2>2, MemoryAfterLoss
  <2>5. /\ a.whole = TRUE /\ Len(b.dat) >= Len(a.pag)
        /\ \A k \in 1 .. Len(a.pag) : b.dat[k] = a.mug[k]
    BY <1>6, <2>1, <2>2, VerifiedPatch
  <2>6. ASSUME NEW k \in 1 .. Len(c.pag) PROVE m.dat[k] = c.mug[k]
    <3>1. /\ Len(c.mug) = Len(c.pag) /\ Len(c.pag) \in Nat /\ Len(m.dat) \in Nat
          /\ \A x \in 1 .. Len(c.mug) : c.mug[x] # Bad
      BY <2>2 DEF ControlOK, ControlType, MemoryType
    <3>2. k \in 1 .. Len(m.dat) /\ k \in 1 .. Len(a.pag) /\ k \in 1 .. Len(c.mug)
      BY <2>3, <2>4, <2>5, <2>6, <3>1
    <3>3. c.mug[k] # Bad /\ b.dat[k] = c.mug[k]
      BY <2>3, <2>5, <3>1, <3>2
    <3> QED
      BY <2>4, <3>2, <3>3
  <2>7. c.whole = TRUE /\ Len(m.dat) >= Len(c.pag)
    BY <2>3, <2>4, <2>5
  <2>8. Verifies(c, m)
    BY <2>1, <2>6, <2>7 DEF Verifies
  <2> QED
    BY <2>2, <2>3, <2>8 DEF SamePatch
<1>7. ASSUME Verifies(c, m), c.syn = TRUE, m.syn = TRUE PROVE a = c /\ b = m
  <2>1. c # None /\ m # None
    BY <1>7 DEF Verifies
  <2>2. ControlOK(c) /\ m \in MemoryType
    BY <1>1, <2>1
  <2> QED
    BY <1>7, <2>1, <2>2, ControlAfterLoss, MemoryAfterLoss
<1> QED
  BY <1>1, <1>2, <1>3, <1>4, <1>5, <1>6, <1>7

\* Images that were synced, or are as they were, survive; and so do the pages
\* of the others that no write has changed.
LEMMA ImagesAfterLoss ==
  ASSUME SnapInv, PowerLoss
  PROVE  /\ ImagesOK(img')
         /\ at \notin Applying => img' = img
         /\ \A x \in Segment : \A j \in 1 .. Len(dsk[x].dat) :
              j <= Len(img[x].dat) /\ dsk[x].dat[j] = img[x].dat[j] =>
                j <= Len(img'[x].dat) /\ img'[x].dat[j] = img[x].dat[j]
<1>1. TypeInv /\ PowerInv /\ "power" \in fate
  BY DEF PowerLoss, SnapInv
<1>2. PICK n \in Mixed(dsk["nor"], img["nor"]), s \in Mixed(dsk["sou"], img["sou"]) :
        img' = [x \in Segment |-> IF x = "nor" THEN n ELSE s]
  BY DEF PowerLoss
<1>3. ImagesOK(img) /\ ImagesOK(dsk)
  BY <1>1 DEF TypeInv
<1>4. \A x \in Segment : ImageOK(img[x]) /\ ImageOK(dsk[x]) /\ img'[x] \in Mixed(dsk[x], img[x])
  BY <1>2, <1>3 DEF ImagesOK, Segment
<1>5. ASSUME NEW x \in Segment
      PROVE  /\ ImageOK(img'[x])
             /\ dsk[x] = img[x] => img'[x] = img[x]
             /\ \A j \in 1 .. Len(dsk[x].dat) :
                  j <= Len(img[x].dat) /\ dsk[x].dat[j] = img[x].dat[j] =>
                    j <= Len(img'[x].dat) /\ img'[x].dat[j] = img[x].dat[j]
  <2> DEFINE g == img'[x]
             o == dsk[x]
             w == img[x]
  <2>1. ImageOK(o) /\ ImageOK(w) /\ g \in Mixed(o, w)
    BY <1>4
  <2> HIDE DEF g, o, w
  <2>2. /\ ImageOK(g)
        /\ o = w => g = w
        /\ \A j \in 1 .. Len(o.dat) :
             j <= Len(w.dat) /\ o.dat[j] = w.dat[j] =>
               j <= Len(g.dat) /\ g.dat[j] = w.dat[j]
    BY ONLY <2>1, MixedKeeps
  <2> QED
    BY <2>2 DEF g, o, w
<1>6. ImagesOK(img')
  <2>1. img' = [x \in Segment |-> img'[x]]
    BY <1>2
  <2>2. \A x \in Segment : img'[x] \in [dat : Seq(Data), torn : BOOLEAN]
    BY <1>5 DEF ImageOK
  <2>3. img' \in Images
    BY <2>1, <2>2 DEF Images
  <2> QED
    BY <1>5, <2>3 DEF ImagesOK
<1>7. at \notin Applying => img' = img
  <2>1. SUFFICES ASSUME at \notin Applying PROVE img' = img
    OBVIOUS
  <2>2. dsk = img
    BY <1>1, <2>1 DEF PowerInv
  <2>3. \A x \in Segment : img'[x] = img[x]
    BY <1>5, <2>2
  <2>4. img' \in Images /\ img \in Images
    BY <1>3, <1>6 DEF ImagesOK
  <2> QED
    BY <2>3, <2>4 DEF Images
<1> QED
  BY <1>5, <1>6, <1>7

\* A patch that the images need survives, and one that comes back verified before.
LEMMA FilesAfterLoss ==
  ASSUME SnapInv, PowerLoss
  PROVE  \E d \in jrn \cup {<<ctl, mem>>} :
           /\ PairOK(img, d[1], d[2])
           /\ ctl' = None \/ (ControlOK(ctl') /\ ctl'.syn = TRUE)
           /\ mem' = None \/ (mem' \in MemoryType /\ mem'.syn = TRUE)
           /\ Verifies(ctl', mem') =>
                /\ Verifies(d[1], d[2])
                /\ ctl'.syn = TRUE /\ mem'.syn = TRUE
                /\ SamePatch(ctl', d[1])
           /\ Needed => ctl' = ctl /\ mem' = mem /\ Verifies(ctl, mem)
<1>1. PatchesInv /\ StepInv /\ PowerInv /\ "power" \in fate
  BY DEF PowerLoss, SnapInv
<1>2. PICK d \in jrn \cup {<<ctl, mem>>} : ctl' \in LostControl(d[1]) /\ mem' \in LostMemory(d[2])
  BY DEF PowerLoss
<1>3. PairOK(img, d[1], d[2])
  <2>1. <<ctl, mem>>[1] = ctl /\ <<ctl, mem>>[2] = mem
    OBVIOUS
  <2> QED
    BY <1>1, <2>1 DEF PatchesInv
<1>4. /\ ctl' = None \/ (ControlOK(ctl') /\ ctl'.syn = TRUE)
      /\ mem' = None \/ (mem' \in MemoryType /\ mem'.syn = TRUE)
      /\ Verifies(ctl', mem') =>
           /\ Verifies(d[1], d[2])
           /\ ctl'.syn = TRUE /\ mem'.syn = TRUE
           /\ SamePatch(ctl', d[1])
      /\ Verifies(d[1], d[2]) /\ d[1].syn = TRUE /\ d[2].syn = TRUE =>
           ctl' = d[1] /\ mem' = d[2]
  <2> DEFINE c == d[1]
             m == d[2]
             a == ctl'
             b == mem'
  <2>1. PairOK(img, c, m) /\ a \in LostControl(c) /\ b \in LostMemory(m)
    BY <1>2, <1>3
  <2> HIDE DEF c, m, a, b
  <2>2. /\ a = None \/ (ControlOK(a) /\ a.syn = TRUE)
        /\ b = None \/ (b \in MemoryType /\ b.syn = TRUE)
        /\ Verifies(a, b) =>
             /\ Verifies(c, m)
             /\ a.syn = TRUE /\ b.syn = TRUE
             /\ SamePatch(a, c)
        /\ Verifies(c, m) /\ c.syn = TRUE /\ m.syn = TRUE => a = c /\ b = m
    BY ONLY <2>1, PatchAfterLoss
  <2> QED
    BY <2>2 DEF c, m, a, b
<1>5. Needed => ctl' = ctl /\ mem' = mem /\ Verifies(ctl, mem)
  <2>1. SUFFICES ASSUME Needed PROVE ctl' = ctl /\ mem' = mem /\ Verifies(ctl, mem)
    OBVIOUS
  <2>2. jrn = {} /\ ctl.syn = TRUE /\ mem.syn = TRUE /\ Verifies(ctl, mem)
    BY <1>1, <2>1 DEF PowerInv, Needed, StepInv
  <2>3. d = <<ctl, mem>>
    BY <1>2, <2>2
  <2>4. d[1] = ctl /\ d[2] = mem
    BY <2>3
  <2>5. Verifies(d[1], d[2]) /\ d[1].syn = TRUE /\ d[2].syn = TRUE
    BY <2>2, <2>4
  <2>6. ctl' = d[1] /\ mem' = d[2]
    BY <1>4, <2>5
  <2> QED
    BY <2>2, <2>4, <2>6
<1>6. d \in jrn \cup {<<ctl, mem>>}
  BY <1>2
<1> QED
  BY ONLY <1>3, <1>4, <1>5, <1>6, Zenon

LEMMA PowerLossKeepsInv ==
  ASSUME SnapInv, PowerLoss
  PROVE  SnapInv'
<1> USE DEF core, patch
<1>1. /\ TypeInv /\ PatchesInv /\ GoodInv /\ StepInv /\ PowerInv
      /\ "power" \in fate /\ at # "refused"
  BY DEF PowerLoss, SnapInv
<1>2. /\ at' = "down" /\ live' = FALSE /\ pgc' = 0
      /\ loom' = Loom0 /\ top' = Fresh0 /\ dit' = {}
      /\ fate' = fate /\ dsk' = img' /\ jrn' = {}
  BY DEF PowerLoss, Gone
<1>3. loom' \in [Page -> Data \ {Bad}]
  BY <1>2, SnapshotAssumption DEF Loom0, Data, Bad
<1>4. top' \in [Segment -> 0 .. Pages] /\ top'.nor + top'.sou <= Pages
  BY <1>2, SnapshotAssumption DEF Fresh0, Segment
<1>5. ImagesOK(img) /\ ImagesOK(dsk)
  BY <1>1 DEF TypeInv
<1>6. /\ ImagesOK(img')
      /\ at \notin Applying => img' = img
      /\ \A x \in Segment : \A j \in 1 .. Len(dsk[x].dat) :
           j <= Len(img[x].dat) /\ dsk[x].dat[j] = img[x].dat[j] =>
             j <= Len(img'[x].dat) /\ img'[x].dat[j] = img[x].dat[j]
  BY ImagesAfterLoss
<1>7. PICK d \in jrn \cup {<<ctl, mem>>} :
        /\ PairOK(img, d[1], d[2])
        /\ ctl' = None \/ (ControlOK(ctl') /\ ctl'.syn = TRUE)
        /\ mem' = None \/ (mem' \in MemoryType /\ mem'.syn = TRUE)
        /\ Verifies(ctl', mem') =>
             /\ Verifies(d[1], d[2])
             /\ ctl'.syn = TRUE /\ mem'.syn = TRUE
             /\ SamePatch(ctl', d[1])
        /\ Needed => ctl' = ctl /\ mem' = mem /\ Verifies(ctl, mem)
  BY FilesAfterLoss
<1>8. Good(img') \/ Verifies(ctl', mem')
  <2>1. CASE Needed
    BY <1>7, <2>1
  <2>2. CASE ~Needed
    <3>1. at \notin Applying /\ ~(at = "down" /\ Verifies(ctl, mem))
      BY <2>2 DEF Needed
    <3>2. Good(img)
      BY <1>1, <3>1 DEF GoodInv
    <3> QED
      BY <1>6, <3>1, <3>2
  <2> QED
    BY <2>1, <2>2
<1>9. Verifies(ctl', mem') => Base(img', ctl')
  <2>1. SUFFICES ASSUME Verifies(ctl', mem') PROVE Base(img', ctl')
    OBVIOUS
  <2>2. CASE at \notin Applying
    <3>1. Base(img, d[1])
      BY <1>7, <2>1 DEF PairOK
    <3>2. Base(img, ctl')
      BY <1>7, <2>1, <3>1, SameLines DEF SamePatch
    <3> QED
      BY <1>6, <2>2, <3>2
  <2>3. CASE at \in Applying
    <3>1. ctl' = ctl
      BY <1>7, <2>3 DEF Needed
    <3>2. Base(img, ctl) /\ Durable(dsk, img, ctl) /\ ControlOK(ctl)
      BY <1>1, <2>3, AppliedPatch
    <3>3. ASSUME NEW x \in Segment, NEW n \in 1 .. TopsOf(ctl)[x], ~IsLine(ctl, x, n)
          PROVE  n <= Len(img'[x].dat) /\ img'[x].dat[n] # Bad
      <4>1. /\ n <= Len(img[x].dat) /\ img[x].dat[n] # Bad
            /\ n <= Len(dsk[x].dat) /\ dsk[x].dat[n] = img[x].dat[n]
        BY <3>2, <3>3 DEF Base, Durable
      <4>2. n \in 1 .. Len(dsk[x].dat)
        <5>1. TopsOf(ctl)[x] \in Nat /\ Len(dsk[x].dat) \in Nat
          BY <1>5, <3>2 DEF ImagesOK, ImageOK, TopsOf, ControlOK, ControlType, Segment
        <5> QED
          BY <4>1, <5>1
      <4>3. n <= Len(img'[x].dat) /\ img'[x].dat[n] = img[x].dat[n]
        BY <1>6, <4>1, <4>2
      <4> QED
        BY <4>1, <4>3
    <3>4. Base(img', ctl)
      BY <3>3 DEF Base
    <3> QED
      BY <3>1, <3>4
  <2> QED
    BY <2>2, <2>3
<1>10. TypeInv'
  BY <1>1, <1>2, <1>3, <1>4, <1>6 DEF TypeInv
<1>11. PatchesInv'
  BY <1>2, <1>7, <1>9 DEF PatchesInv, PairOK
<1>12. GoodInv' /\ StepInv' /\ ApplyInv'
  BY <1>2, <1>8 DEF GoodInv, StepInv, ApplyInv, Applying
<1>13. PowerInv'
  BY <1>2, <1>7 DEF PowerInv, Needed, Applying
<1>14. LiveInv'
  BY <1>2 DEF LiveInv, Saving, Applying
<1> QED
  BY <1>10, <1>11, <1>12, <1>13, <1>14 DEF SnapInv

-----------------------------------------------------------------------------
(* The theorems.                                                           *)

\* The invariant of snapshots: every patch that is there, or that a loss of power
\* may bring back, can be applied, and the images are good without one
\* (u3e_save and u3e_live, noun/events.c).
THEOREM SnapInvariant ==
  ASSUME OneFate
  PROVE  SnapSpec => []SnapInv
<1>1. SnapInit => SnapInv
  BY SnapInvInit
<1>2. SnapInv /\ [SnapNext]_snapVars => SnapInv'
  <2> SUFFICES ASSUME SnapInv, [SnapNext]_snapVars PROVE SnapInv'
    OBVIOUS
  <2>1. CASE Compute
    BY <2>1, ComputeKeepsInv
  <2>2. CASE Meld
    BY <2>2, MeldKeepsInv
  <2>3. CASE Save
    BY <2>3, CreateControlKeepsInv, CreateMemoryKeepsInv, SavePageKeepsInv,
       WriteControlKeepsInv, SyncControlKeepsInv, SyncMemoryKeepsInv DEF Save
  <2>4. CASE Apply
    BY <2>4, TrimNorthKeepsInv, TrimSouthKeepsInv, ApplyPageKeepsInv, SyncNorthKeepsInv,
       SyncSouthKeepsInv, DropControlKeepsInv, DropMemoryKeepsInv DEF Apply
  <2>5. CASE Boot
    BY <2>5, BootKeepsInv
  <2>6. CASE Load
    BY <2>6, LoadKeepsInv
  <2>7. CASE Kill
    BY <2>7, KillKeepsInv
  <2>8. CASE PowerLoss
    BY <2>8, PowerLossKeepsInv
  <2>9. CASE UNCHANGED snapVars
    BY <2>9 DEF snapVars, SnapInv, TypeInv, PatchesInv, GoodInv, StepInv, PowerInv, Needed,
                ApplyInv, Placed, LiveInv
  <2> QED
    BY <2>1, <2>2, <2>3, <2>4, <2>5, <2>6, <2>7, <2>8, <2>9 DEF SnapNext
<1> QED
  BY <1>1, <1>2, PTL DEF SnapSpec

\* A page in memory that is not marked dirty is in its image file, and no
\* page that was cut within a write is in memory: the saves write what they
\* must (_ce_patch_compose and u3e_fault, noun/events.c).
THEOREM SnapCleanPagesAreSaved ==
  ASSUME OneFate
  PROVE  SnapSpec => []CleanPagesAreSaved
<1>1. SnapInv => CleanPagesAreSaved
  <2> SUFFICES ASSUME SnapInv PROVE CleanPagesAreSaved
    OBVIOUS
  <2>1. TypeInv /\ PatchesInv /\ LiveInv
    BY DEF SnapInv
  <2>2. (ctl = None \/ ctl \in ControlType) /\ (mem = None \/ mem \in MemoryType)
    BY <2>1 DEF PatchesInv, PairOK, ControlOK
  <2>3. jrn \subseteq (({None} \cup ControlType) \X ({None} \cup MemoryType))
    <3> SUFFICES ASSUME NEW d \in jrn
                 PROVE  d \in ({None} \cup ControlType) \X ({None} \cup MemoryType)
      OBVIOUS
    <3>1. d = <<d[1], d[2]>> /\ PairOK(img, d[1], d[2])
      BY <2>1 DEF PatchesInv
    <3>2. d[1] \in {None} \cup ControlType /\ d[2] \in {None} \cup MemoryType
      BY <3>1 DEF PairOK, ControlOK
    <3> QED
      BY <3>1, <3>2
  <2>4. SnapTypeOK
    BY <2>1, <2>2, <2>3 DEF SnapTypeOK, TypeInv, ImagesOK
  <2>5. ASSUME at = "idle", NEW p \in Live(top) \ dit
        PROVE  /\ OffsetOf(p, top) \in DOMAIN img[SegmentOf(p, top)].dat
               /\ img[SegmentOf(p, top)].dat[OffsetOf(p, top)] = loom[p]
    <3>1. Kept(img, top, loom, p)
      BY <2>1, <2>5 DEF LiveInv
    <3>2. top.nor \in Nat /\ top.sou \in Nat /\ top.nor + top.sou <= Pages
      BY <2>1 DEF TypeInv, Segment
    <3>3. SegmentOf(p, top) \in Segment /\ OffsetOf(p, top) \in 1 .. Pages
      BY <3>2, PageHasOffset
    <3>4. img[SegmentOf(p, top)].dat \in Seq(Data)
      BY <2>1, <3>3 DEF TypeInv, ImagesOK, ImageOK
    <3> QED
      BY <3>1, <3>3, <3>4 DEF Kept
  <2> QED
    BY <2>4, <2>5 DEF CleanPagesAreSaved
<1> QED
  BY <1>1, SnapInvariant, PTL

-----------------------------------------------------------------------------
(* What the promise of Checkpoint needs beside the invariant.              *)

\* A patch has one line for a page.
Distinct(c) == \A j, k \in 1 .. Len(c.pag) : c.pag[j] = c.pag[k] => j = k

\* The images have the kth line of a patch.
Copied(i, c, m, k) ==
  \A s \in Segment : \A n \in 1 .. Pages : LineAt(c, k, s, n) => i[s].dat[n] = m.dat[k]

\* The images have all of a patch, and applying it changes nothing.
Settled(i, c, m) ==
  /\ \A s \in Segment : Len(i[s].dat) = TopsOf(c)[s]
  /\ \A k \in 1 .. Len(c.pag) : Copied(i, c, m, k)

CkptInv ==
  /\ at \notin {"down", "refused"} => \A s \in Segment : img[s].torn = FALSE
  /\ ctl # None => Distinct(ctl)
  /\ \A d \in jrn : d[1] # None => Distinct(d[1])
  /\ at = "pages" => \A k \in 1 .. Len(ctl.pag) : ctl.pag[k] \notin dit
  /\ at \in {"apply", "syncS"} =>
       \A k \in 1 .. Len(ctl.pag) : at = "syncS" \/ k < pgc => Copied(img, ctl, mem, k)
  /\ at = "dropC" /\ Verifies(ctl, mem) => Settled(img, ctl, mem)
  /\ \A d \in jrn : Verifies(d[1], d[2]) => Settled(img, d[1], d[2])

\* Steps that change no file keep it, if no image is cut where one is used.
LEMMA QuietKeepsCkptInv ==
  ASSUME CkptInv, UNCHANGED <<img, ctl, mem, jrn>>,
         at' \notin {"down", "refused"} => \A s \in Segment : img[s].torn = FALSE,
         at' \notin {"pages", "apply", "syncS", "dropC"}
           \/ (at' = "dropC" /\ ~Verifies(ctl, mem))
  PROVE  CkptInv'
<1>1. img' = img /\ ctl' = ctl /\ mem' = mem /\ jrn' = jrn
  OBVIOUS
<1> QED
  BY <1>1 DEF CkptInv

LEMMA SaveKeepsCkptInv ==
  ASSUME SnapInv, CkptInv, Save
  PROVE  CkptInv'
<1> USE DEF core, patch
<1>1. TypeInv /\ PatchesInv /\ StepInv
  BY DEF SnapInv
<1>2. CASE CreateControl
  <2>1. at = "idle" /\ ctl = None
    BY <1>1, <1>2 DEF CreateControl, StepInv
  <2>2. at' = "memory" /\ ctl' = NewControl /\ jrn' = Noted /\ img' = img /\ mem' = mem
    BY <1>2, <2>1 DEF CreateControl
  <2>3. Distinct(ctl')
    <3>1. Len(NewControl.pag) = 0
      BY DEF NewControl
    <3> QED
      BY <2>2, <3>1 DEF Distinct
  <2>4. \A d \in jrn' : /\ d[1] # None => Distinct(d[1])
                        /\ Verifies(d[1], d[2]) => Settled(img, d[1], d[2])
    <3>1. <<ctl, mem>>[1] = None
      BY <2>1
    <3>2. ~Verifies(<<ctl, mem>>[1], <<ctl, mem>>[2])
      BY <3>1 DEF Verifies
    <3> QED
      BY <2>2, <3>1, <3>2 DEF Noted, CkptInv
  <2> QED
    BY <2>1, <2>2, <2>3, <2>4 DEF CkptInv
<1>3. CASE CreateMemory
  <2>1. /\ at = "memory" /\ ctl # None /\ ctl.whole = FALSE /\ Len(ctl.pag) = 0
        /\ ctl' = ctl /\ img' = img
    BY <1>1, <1>3 DEF CreateMemory, StepInv, Gone
  <2>2. at' \in {"down", "pages"} /\ jrn' \in {jrn, Noted}
    BY <1>3 DEF CreateMemory, Gone
  <2>3. \A d \in jrn' : /\ d[1] # None => Distinct(d[1])
                        /\ Verifies(d[1], d[2]) => Settled(img, d[1], d[2])
    <3>1. <<ctl, mem>>[1] = ctl /\ ~Verifies(ctl, <<ctl, mem>>[2])
      BY <2>1 DEF Verifies
    <3> QED
      BY <2>2, <3>1 DEF Noted, CkptInv
  <2>4. \A k \in 1 .. Len(ctl.pag) : FALSE
    BY <2>1
  <2> QED
    BY <2>1, <2>2, <2>3, <2>4 DEF CkptInv
<1>4. CASE SavePage
  <2>1. /\ at = "pages" /\ at' = at /\ ctl # None /\ ctl.whole = FALSE
        /\ img' = img /\ jrn' = jrn
    BY <1>1, <1>4 DEF SavePage, StepInv
  <2>2. PICK p \in Page :
          /\ IsNextDirty(p)
          /\ ctl' = [ctl EXCEPT !.pag = Append(@, p), !.mug = Append(@, loom[p])]
          /\ dit' = dit \ {p}
    BY <1>4 DEF SavePage
  <2>3. p \in dit
    BY <2>2 DEF IsNextDirty, DirtyPages
  <2>4. ctl \in ControlType
    BY <1>1, <2>1 DEF PatchesInv, PairOK, ControlOK
  <2> DEFINE n == Len(ctl.pag)
             pag == Append(ctl.pag, p)
  <2>5. /\ n \in Nat /\ Len(pag) = n + 1 /\ pag[n + 1] = p
        /\ \A k \in 1 .. n : pag[k] = ctl.pag[k]
    BY <2>4 DEF ControlType
  <2>6. ctl'.pag = pag
    BY <2>2, <2>4 DEF ControlType
  <2>7. \A k \in 1 .. n : ctl.pag[k] \notin dit
    BY <2>1 DEF CkptInv
  <2>8. \A k \in 1 .. n + 1 : k \in 1 .. n \/ k = n + 1
    BY <2>5
  <2>9. Distinct(ctl)
    BY <2>1 DEF CkptInv
  <2> HIDE DEF pag
  <2>10. \A j, k \in 1 .. n + 1 : pag[j] = pag[k] => j = k
    <3>1. \A j, k \in 1 .. n : ctl.pag[j] = ctl.pag[k] => j = k
      BY <2>9 DEF Distinct
    <3>2. \A k \in 1 .. n : ctl.pag[k] # p
      BY <2>3, <2>7
    <3> HIDE DEF n
    <3> QED
      BY <2>5, <2>8, <3>1, <3>2
  <2>11. Distinct(ctl')
    BY <2>5, <2>6, <2>10 DEF Distinct
  <2>12. \A k \in 1 .. Len(ctl'.pag) : ctl'.pag[k] \notin dit'
    <3> HIDE DEF n
    <3> QED
      BY <2>2, <2>5, <2>6, <2>7, <2>8
  <2> QED
    BY <2>1, <2>11, <2>12 DEF CkptInv
<1>5. CASE WriteControl \/ SyncControl
  <2>1. /\ at \in {"pages", "syncC"} /\ at' \in {"syncC", "syncM"}
        /\ img' = img /\ jrn' \subseteq jrn /\ ctl # None
    BY <1>1, <1>5 DEF WriteControl, SyncControl, StepInv, Verifies
  <2>2. ctl \in ControlType
    BY <1>1, <2>1 DEF PatchesInv, PairOK, ControlOK
  <2>3. ctl'.pag = ctl.pag
    BY <1>5, <2>2 DEF WriteControl, SyncControl, ControlType
  <2>4. Distinct(ctl')
    BY <2>1, <2>3 DEF CkptInv, Distinct
  <2> QED
    BY <2>1, <2>4 DEF CkptInv
<1>6. CASE SyncMemory
  <2>1. /\ at = "syncM" /\ at' \in {"trimN", "down"}
        /\ img' = img /\ jrn' = {} /\ ctl' = ctl
    BY <1>6 DEF SyncMemory, Gone
  <2> QED
    BY <2>1 DEF CkptInv
<1> QED
  BY <1>2, <1>3, <1>4, <1>5, <1>6 DEF Save

\* Images that have had a whole patch applied are settled.
LEMMA PatchSettles ==
  ASSUME SnapInv, CkptInv, at = "syncS"
  PROVE  Settled(img, ctl, mem)
<1>1. /\ Verifies(ctl, mem) /\ ControlOK(ctl) /\ ctl.whole = TRUE /\ Base(img, ctl)
      /\ TypeInv /\ ApplyInv
  BY AppliedPatch DEF Applying, SnapInv
<1>2. ASSUME NEW s \in Segment PROVE Len(img[s].dat) = TopsOf(ctl)[s]
  <2> DEFINE t == TopsOf(ctl)[s]
             l == Len(img[s].dat)
  <2>1. /\ ctl.nor \in 0 .. Pages /\ ctl.sou \in 0 .. Pages
        /\ TopsOf(ctl)["nor"] = ctl.nor /\ TopsOf(ctl)["sou"] = ctl.sou
    BY <1>1 DEF ControlOK, ControlType, TopsOf
  <2>2. Len(img["nor"].dat) <= ctl.nor /\ Len(img["sou"].dat) <= ctl.sou
    BY <1>1 DEF ApplyInv
  <2>3. t \in 0 .. Pages /\ l <= t
    <3>1. CASE s = "nor"
      BY <2>1, <2>2, <3>1
    <3>2. CASE s = "sou"
      BY <2>1, <2>2, <3>2
    <3> QED
      BY <3>1, <3>2 DEF Segment
  <2>4. l \in Nat
    BY <1>1 DEF TypeInv, ImagesOK, ImageOK
  <2>5. t \in 1 .. t => t <= l
    <3>1. SUFFICES ASSUME t \in 1 .. t PROVE t <= l
      OBVIOUS
    <3>2. t \in 1 .. Pages
      BY <2>3, <3>1, SnapshotAssumption
    <3>3. CASE IsLine(ctl, s, t)
      <4>1. PICK k \in 1 .. Len(ctl.pag) : LineAt(ctl, k, s, t)
        BY <3>3 DEF IsLine
      <4>2. Placed(img, ctl, k)
        BY <1>1, <4>1 DEF ApplyInv
      <4> QED
        BY <3>2, <4>1, <4>2 DEF Placed
    <3>4. CASE ~IsLine(ctl, s, t)
      BY <1>1, <3>1, <3>4 DEF Base
    <3> QED
      BY <3>3, <3>4
  <2> HIDE DEF t, l
  <2>6. t = l
    BY <2>3, <2>4, <2>5, SnapshotAssumption
  <2> QED
    BY <2>6 DEF t, l
<1>3. \A k \in 1 .. Len(ctl.pag) : Copied(img, ctl, mem, k)
  BY DEF CkptInv
<1> QED
  BY <1>2, <1>3 DEF Settled

LEMMA ApplyKeepsCkptInv ==
  ASSUME SnapInv, CkptInv, Apply
  PROVE  CkptInv'
<1> USE DEF core, patch
<1>1. TypeInv /\ PatchesInv /\ StepInv /\ ApplyInv
  BY DEF SnapInv
<1>2. at \in Applying => jrn = {} /\ Verifies(ctl, mem) /\ ctl # None /\ ControlOK(ctl)
  BY AppliedPatch
<1>3. CASE TrimNorth \/ TrimSouth
  <2>1. /\ at \in Applying /\ at' \in {"trimS", "apply"} /\ (at' = "apply" => pgc' = 1)
        /\ ctl' = ctl /\ mem' = mem /\ jrn' = jrn
        /\ \E s \in Segment, n \in {ctl.nor, ctl.sou} : img' = [img EXCEPT ![s] = Resize(@, n)]
    BY <1>3 DEF TrimNorth, TrimSouth, Applying, Segment
  <2>2. PICK s \in Segment, n \in {ctl.nor, ctl.sou} : img' = [img EXCEPT ![s] = Resize(@, n)]
    BY <2>1
  <2>3. img \in Images
    BY <1>1 DEF TypeInv, ImagesOK
  <2>4. Resize(img[s], n).torn = img[s].torn
    <3>1. img[s] \in [dat : Seq(Data), torn : BOOLEAN]
      BY <2>3 DEF Images
    <3> QED
      BY <3>1 DEF Resize
  <2>5. \A x \in Segment : img'[x].torn = img[x].torn
    <3> DEFINE g == Resize(img[s], n)
    <3>1. img' = [img EXCEPT ![s] = g]
      BY <2>2
    <3> HIDE DEF g
    <3>2. img'[s] = g /\ (\A x \in Segment : x # s => img'[x] = img[x])
      BY <2>3, <3>1 DEF Images
    <3> QED
      BY <2>4, <3>2 DEF g
  <2>6. \A x \in Segment : img'[x].torn = FALSE
    BY <2>1, <2>5 DEF CkptInv, Applying
  <2>7. \A k \in 1 .. Len(ctl.pag) : ~(k < 1)
    OBVIOUS
  <2> QED
    BY <1>2, <2>1, <2>6, <2>7 DEF CkptInv
<1>4. CASE ApplyPage
  <2>1. /\ at = "apply" /\ at' = at /\ at \in Applying /\ pgc' = pgc + 1
        /\ ctl' = ctl /\ mem' = mem /\ jrn' = jrn
    BY <1>4 DEF ApplyPage, Applying
  <2>2. \A x \in Segment : img'[x].torn = FALSE
    BY <1>4, <2>1, PageIsApplied DEF CkptInv
  <2>3. ASSUME NEW k \in 1 .. Len(ctl.pag), k < pgc + 1,
               NEW x \in Segment, NEW m \in 1 .. Pages, LineAt(ctl, k, x, m)
        PROVE  img'[x].dat[m] = mem.dat[k]
    <3>1. pgc \in 1 .. Len(ctl.pag)
      BY <1>4, PageIsApplied
    <3>2. CASE x = NextSegment /\ m = NextOffset
      <4>1. ctl.pag[k] = ctl.pag[pgc]
        BY <1>4, <2>3, <3>2, PageIsApplied DEF NextPage
      <4>2. k = pgc
        BY <1>2, <2>1, <3>1, <4>1 DEF CkptInv, Distinct
      <4> QED
        BY <1>4, <3>2, <4>2, PageIsApplied
    <3>3. CASE ~(x = NextSegment /\ m = NextOffset)
      <4>1. k # pgc
        BY <1>4, <2>3, <3>3, PageIsApplied
      <4>2. k < pgc
        BY <2>3, <3>1, <4>1
      <4>3. img[x].dat[m] = mem.dat[k]
        BY <2>1, <2>3, <4>2 DEF CkptInv, Copied
      <4>4. m <= Len(img[x].dat)
        BY <1>1, <2>1, <2>3, <4>2 DEF ApplyInv, Placed
      <4>5. m \in 1 .. Len(img[x].dat)
        BY <1>1, <4>4 DEF TypeInv, ImagesOK, ImageOK
      <4>6. img'[x].dat[m] = img[x].dat[m]
        BY <1>4, <3>3, <4>5, PageIsApplied
      <4> QED
        BY <4>3, <4>6
    <3> QED
      BY <3>2, <3>3
  <2>4. \A k \in 1 .. Len(ctl.pag) : k < pgc + 1 => Copied(img', ctl, mem, k)
    BY <2>3 DEF Copied
  <2> QED
    BY <1>2, <2>1, <2>2, <2>4 DEF CkptInv
<1>5. CASE SyncNorth
  <2>1. /\ at = "apply" /\ at' = "syncS" /\ pgc > Len(ctl.pag) /\ jrn' = {}
        /\ img' = img /\ ctl' = ctl /\ mem' = mem
    BY <1>5 DEF SyncNorth
  <2>2. \A k \in 1 .. Len(ctl.pag) : k < pgc
    BY <1>1, <1>2, <2>1 DEF TypeInv, ControlOK, ControlType, Applying
  <2> QED
    BY <2>1, <2>2 DEF CkptInv
<1>6. CASE SyncSouth
  <2>1. /\ at = "syncS" /\ at' = "dropC" /\ jrn' = {}
        /\ img' = img /\ ctl' = ctl /\ mem' = mem
    BY <1>6 DEF SyncSouth
  <2>2. Settled(img, ctl, mem)
    BY <2>1, PatchSettles
  <2> QED
    BY <2>1, <2>2 DEF CkptInv
<1>7. CASE DropControl
  <2>1. /\ at = "dropC" /\ at' = "dropM" /\ jrn' = IF ctl = None THEN jrn ELSE Noted
        /\ img' = img /\ ctl' = None /\ mem' = mem
    BY <1>7 DEF DropControl
  <2>2. \A d \in jrn' : /\ d[1] # None => Distinct(d[1])
                        /\ Verifies(d[1], d[2]) => Settled(img, d[1], d[2])
    <3>1. <<ctl, mem>>[1] = ctl /\ <<ctl, mem>>[2] = mem
      OBVIOUS
    <3> QED
      BY <2>1, <3>1 DEF Noted, CkptInv
  <2> QED
    BY <2>1, <2>2 DEF CkptInv
<1>8. CASE DropMemory
  <2>1. /\ at = "dropM" /\ at' \in {"idle", "load"} /\ jrn' = IF mem = None THEN jrn ELSE Noted
        /\ img' = img /\ ctl' = ctl /\ ctl = None /\ mem' = None
    BY <1>1, <1>8 DEF DropMemory, StepInv
  <2>2. \A d \in jrn' : /\ d[1] # None => Distinct(d[1])
                        /\ Verifies(d[1], d[2]) => Settled(img, d[1], d[2])
    <3>1. <<ctl, mem>>[1] = None
      BY <2>1
    <3>2. ~Verifies(<<ctl, mem>>[1], <<ctl, mem>>[2])
      BY <3>1 DEF Verifies
    <3> QED
      BY <2>1, <3>1, <3>2 DEF Noted, CkptInv
  <2> QED
    BY <2>1, <2>2 DEF CkptInv
<1> QED
  BY <1>3, <1>4, <1>5, <1>6, <1>7, <1>8 DEF Apply

LEMMA CkptInvStep ==
  ASSUME OneFate, SnapInv, CkptInv, [SnapNext]_snapVars
  PROVE  CkptInv'
<1> USE DEF core, patch
<1>1. TypeInv /\ PatchesInv /\ StepInv /\ PowerInv
  BY DEF SnapInv
<1>2. CASE Compute \/ Meld
  <2>1. at = "idle" /\ at' = at /\ UNCHANGED <<img, ctl, mem, jrn>>
    BY <1>2 DEF Compute, Meld
  <2>2. \A s \in Segment : img[s].torn = FALSE
    BY <2>1 DEF CkptInv
  <2> QED
    BY <2>1, <2>2, QuietKeepsCkptInv
<1>3. CASE Save
  BY <1>3, SaveKeepsCkptInv
<1>4. CASE Apply
  BY <1>4, ApplyKeepsCkptInv
<1>5. CASE Boot
  <2>1. /\ at' = IF \E s \in Segment : img[s].torn THEN "refused"
                 ELSE IF ctl = None THEN "load"
                 ELSE IF Verifies(ctl, mem) THEN "trimN" ELSE "dropC"
        /\ UNCHANGED <<img, ctl, mem, jrn>>
    BY <1>5 DEF Boot
  <2>2. \A s \in Segment : img[s].torn \in BOOLEAN
    BY <1>1 DEF TypeInv, ImagesOK, Images
  <2>3. at' \notin {"down", "refused"} => \A s \in Segment : img[s].torn = FALSE
    BY <2>1, <2>2
  <2>4. \/ at' \notin {"pages", "apply", "syncS", "dropC"}
        \/ at' = "dropC" /\ ~Verifies(ctl, mem)
    BY <2>1
  <2> QED
    BY <2>1, <2>3, <2>4, QuietKeepsCkptInv
<1>6. CASE Load
  <2>1. at = "load" /\ at' = "idle" /\ UNCHANGED <<img, ctl, mem, jrn>>
    BY <1>6 DEF Load
  <2>2. \A s \in Segment : img[s].torn = FALSE
    BY <2>1 DEF CkptInv
  <2> QED
    BY <2>1, <2>2, QuietKeepsCkptInv
<1>7. CASE Kill
  <2>1. "power" \notin fate
    BY <1>1, <1>7 DEF Kill, TypeInv, OneFate
  <2>2. at' = "down" /\ jrn = {} /\ jrn' = jrn /\ ctl' = ctl
    BY <1>1, <1>7, <2>1 DEF Kill, Gone, PowerInv
  <2> QED
    BY <2>2 DEF CkptInv
<1>8. CASE PowerLoss
  <2>1. at' = "down" /\ jrn' = {}
    BY <1>8 DEF PowerLoss, Gone
  <2>2. PICK d \in jrn \cup {<<ctl, mem>>} : ctl' \in LostControl(d[1])
    BY <1>8 DEF PowerLoss
  <2>3. <<ctl, mem>>[1] = ctl
    OBVIOUS
  <2>4. d[1] # None => Distinct(d[1]) /\ ControlOK(d[1])
    BY <1>1, <2>2, <2>3 DEF CkptInv, PatchesInv, PairOK
  <2>5. ASSUME ctl' # None PROVE Distinct(ctl')
    <3>1. d[1] # None
      BY <2>2, <2>5 DEF LostControl
    <3>2. ctl'.pag = d[1].pag
      BY <2>2, <2>4, <3>1, ControlAfterLoss
    <3> QED
      BY <2>4, <3>1, <3>2 DEF Distinct
  <2> QED
    BY <2>1, <2>5 DEF CkptInv
<1>9. CASE UNCHANGED snapVars
  BY <1>9 DEF snapVars, CkptInv
<1> QED
  BY <1>2, <1>3, <1>4, <1>5, <1>6, <1>7, <1>8, <1>9 DEF SnapNext


-----------------------------------------------------------------------------
(* What the images hold.                                                   *)

\* The lines of a patch for a page of a segment, and what it makes of that page.
Lines(c, s, n) == {k \in 1 .. Len(c.pag) : LineAt(c, k, s, n)}

PageOf(i, c, m, s, n) ==
  IF Lines(c, s, n) # {} THEN m.dat[CHOOSE k \in Lines(c, s, n) : TRUE]
  ELSE IF n <= Len(i[s].dat) THEN i[s].dat[n] ELSE 0

PagesOf(i, c, m, s) == [n \in 1 .. TopsOf(c)[s] |-> PageOf(i, c, m, s, n)]

LEMMA AppliedIs ==
  ASSUME NEW i, NEW c, NEW m
  PROVE  Applied(i, c, m) = [s \in Segment |-> [dat |-> PagesOf(i, c, m, s), torn |-> FALSE]]
BY DEF Applied, PagesOf, PageOf, Lines, LineAt, TopsOf

\* A page comes from its line, or is that of the image.
LEMMA PageOfLine ==
  ASSUME NEW i, NEW c, NEW m, NEW s, NEW n
  PROVE  /\ IsLine(c, s, n) => \E k \in 1 .. Len(c.pag) :
              LineAt(c, k, s, n) /\ PageOf(i, c, m, s, n) = m.dat[k]
         /\ ~IsLine(c, s, n) /\ n <= Len(i[s].dat) => PageOf(i, c, m, s, n) = i[s].dat[n]
<1>1. IsLine(c, s, n) <=> Lines(c, s, n) # {}
  BY DEF IsLine, Lines
<1>2. ASSUME IsLine(c, s, n)
      PROVE  \E k \in 1 .. Len(c.pag) : LineAt(c, k, s, n) /\ PageOf(i, c, m, s, n) = m.dat[k]
  <2> DEFINE k == CHOOSE k \in Lines(c, s, n) : TRUE
  <2>1. k \in Lines(c, s, n)
    BY <1>1, <1>2
  <2>2. PageOf(i, c, m, s, n) = m.dat[k]
    BY <1>1, <1>2 DEF PageOf
  <2> HIDE DEF k
  <2>3. k \in 1 .. Len(c.pag) /\ LineAt(c, k, s, n)
    BY <2>1 DEF Lines
  <2> QED
    BY <2>2, <2>3
<1>3. ASSUME ~IsLine(c, s, n), n <= Len(i[s].dat)
      PROVE  PageOf(i, c, m, s, n) = i[s].dat[n]
  BY <1>1, <1>3 DEF PageOf
<1> QED
  BY <1>2, <1>3

\* The patch, and what the images have beside it, determine what it makes of them.
LEMMA AppliedSame ==
  ASSUME NEW i, NEW j, NEW c, NEW d, NEW m, NEW b, SamePatch(d, c),
         \A k \in 1 .. Len(c.pag) : b.dat[k] = m.dat[k],
         \A s \in Segment : \A n \in 1 .. TopsOf(c)[s] :
           \/ IsLine(c, s, n)
           \/ n <= Len(i[s].dat) /\ n <= Len(j[s].dat) /\ j[s].dat[n] = i[s].dat[n]
  PROVE  Applied(j, d, b) = Applied(i, c, m)
<1>1. TopsOf(d) = TopsOf(c) /\ d.pag = c.pag
  BY DEF SamePatch, TopsOf
<1>2. \A s, n : Lines(d, s, n) = Lines(c, s, n)
  BY <1>1 DEF Lines, LineAt
<1>3. ASSUME NEW s \in Segment, NEW n \in 1 .. TopsOf(c)[s]
      PROVE  PageOf(j, d, b, s, n) = PageOf(i, c, m, s, n)
  <2>1. CASE IsLine(c, s, n)
    <3> DEFINE k == CHOOSE k \in Lines(c, s, n) : TRUE
    <3>1. Lines(c, s, n) # {}
      BY <2>1 DEF IsLine, Lines
    <3>2. k \in Lines(c, s, n)
      BY <3>1
    <3>3. PageOf(i, c, m, s, n) = m.dat[k] /\ PageOf(j, d, b, s, n) = b.dat[k]
      BY <1>2, <3>1 DEF PageOf
    <3> HIDE DEF k
    <3>4. k \in 1 .. Len(c.pag)
      BY <3>2 DEF Lines
    <3> QED
      BY <3>3, <3>4
  <2>2. CASE ~IsLine(c, s, n)
    <3>1. Lines(c, s, n) = {}
      BY <2>2 DEF IsLine, Lines
    <3>2. n <= Len(i[s].dat) /\ n <= Len(j[s].dat) /\ j[s].dat[n] = i[s].dat[n]
      BY <2>2
    <3> QED
      BY <1>2, <3>1, <3>2 DEF PageOf
  <2> QED
    BY <2>1, <2>2
<1>4. \A s \in Segment : PagesOf(j, d, b, s) = PagesOf(i, c, m, s)
  BY <1>1, <1>3 DEF PagesOf
<1>5. /\ Applied(j, d, b) = [s \in Segment |-> [dat |-> PagesOf(j, d, b, s), torn |-> FALSE]]
      /\ Applied(i, c, m) = [s \in Segment |-> [dat |-> PagesOf(i, c, m, s), torn |-> FALSE]]
  BY AppliedIs
<1> QED
  BY <1>4, <1>5

\* The pages are all that counts of images.
LEMMA HeldSame ==
  ASSUME NEW i, NEW j, j["nor"].dat = i["nor"].dat, j["sou"].dat = i["sou"].dat
  PROVE  Held(j) = Held(i)
<1>1. \A s \in Segment : j[s].dat = i[s].dat
  BY DEF Segment
<1>2. Tops(j) = Tops(i)
  BY <1>1 DEF Tops
<1>3. Blit(j) = Blit(i)
  BY DEF Blit
<1> QED
  BY <1>2, <1>3 DEF Held

\* Applying a patch again that the images have changes nothing.
LEMMA SettledHeld ==
  ASSUME NEW i, ImagesOK(i), NEW c, NEW m, ControlOK(c), c.whole = TRUE, Settled(i, c, m)
  PROVE  Held(Applied(i, c, m)) = Held(i)
<1> DEFINE a == Applied(i, c, m)
<1>1. ASSUME NEW s \in Segment PROVE PagesOf(i, c, m, s) = i[s].dat
  <2>1. /\ i[s].dat \in Seq(Data) /\ Len(i[s].dat) = TopsOf(c)[s]
        /\ Len(i[s].dat) \in Nat /\ Len(i[s].dat) <= Pages
    BY DEF ImagesOK, ImageOK, Settled
  <2>2. i[s].dat = [n \in 1 .. TopsOf(c)[s] |-> i[s].dat[n]]
    BY <2>1
  <2>3. ASSUME NEW n \in 1 .. TopsOf(c)[s] PROVE PageOf(i, c, m, s, n) = i[s].dat[n]
    <3>1. n \in 1 .. Pages /\ n <= Len(i[s].dat)
      BY <2>1, SnapshotAssumption
    <3>2. CASE IsLine(c, s, n)
      <4>1. PICK k \in 1 .. Len(c.pag) : LineAt(c, k, s, n) /\ PageOf(i, c, m, s, n) = m.dat[k]
        BY <3>2, PageOfLine
      <4>2. i[s].dat[n] = m.dat[k]
        BY <3>1, <4>1 DEF Settled, Copied
      <4> QED
        BY <4>1, <4>2
    <3>3. CASE ~IsLine(c, s, n)
      BY <3>1, <3>3, PageOfLine
    <3> QED
      BY <3>2, <3>3
  <2> QED
    BY <2>2, <2>3 DEF PagesOf
<1>2. \A s \in Segment : a[s].dat = i[s].dat
  <2>1. a = [s \in Segment |-> [dat |-> PagesOf(i, c, m, s), torn |-> FALSE]]
    BY AppliedIs
  <2> QED
    BY <1>1, <2>1
<1> HIDE DEF a
<1>3. a["nor"].dat = i["nor"].dat /\ a["sou"].dat = i["sou"].dat
  BY <1>2 DEF Segment
<1>4. Held(a) = Held(i)
  BY ONLY <1>3, HeldSame
<1> QED
  BY <1>4 DEF a

\* Images that have every page of the memory hold it.
LEMMA HeldIs ==
  ASSUME NEW i, NEW t, NEW m,
         t.nor \in Nat, t.sou \in Nat, t.nor + t.sou <= Pages,
         Len(i["nor"].dat) = t.nor, Len(i["sou"].dat) = t.sou,
         \A p \in Live(t) : Kept(i, t, m, p)
  PROVE  Held(i) = State(t, m)
<1> DEFINE u == Tops(i)
           b == Blit(i)
<1>1. u.nor = t.nor /\ u.sou = t.sou
  BY DEF Tops, Segment
<1>2. Live(u) = Live(t)
  BY <1>1, SameTops
<1>3. ASSUME NEW p \in Live(t) PROVE b[p] = m[p]
  <2>1. p \in Page /\ p \in Int /\ Pages \in Nat
    BY SnapshotAssumption DEF Live, Page
  <2>2. Kept(i, t, m, p)
    OBVIOUS
  <2>3. CASE p < t.nor
    <3>1. i["nor"].dat[p + 1] = m[p]
      BY <2>2, <2>3 DEF Kept, SegmentOf, OffsetOf
    <3> QED
      BY <2>1, <2>3, <3>1 DEF Blit
  <2>4. CASE ~(p < t.nor)
    <3>1. i["sou"].dat[Pages - p] = m[p]
      BY <2>2, <2>4 DEF Kept, SegmentOf, OffsetOf
    <3>2. Pages - p <= Len(i["sou"].dat)
      BY <2>1, <2>4 DEF Live
    <3> QED
      BY <2>1, <2>4, <3>1, <3>2 DEF Blit
  <2> QED
    BY <2>3, <2>4
<1>4. Held(i) = State(u, b)
  BY DEF Held
<1> HIDE DEF u, b
<1>5. [p \in Live(u) |-> b[p]] = [p \in Live(t) |-> m[p]]
  BY <1>2, <1>3
<1> QED
  BY <1>1, <1>4, <1>5 DEF State

\* A whole patch of the running process makes its memory of the images.
LEMMA MemoryIsPatch ==
  ASSUME SnapInv, at \in {"syncC", "syncM"}
  PROVE  Held(Applied(img, ctl, mem)) = State(top, loom)
<1> DEFINE a == Applied(img, ctl, mem)
<1>1. TypeInv /\ PatchesInv /\ StepInv /\ LiveInv
  BY DEF SnapInv
<1>2. /\ ctl.nor = top.nor /\ ctl.sou = top.sou
      /\ \A p \in Live(top) : Kept(img, top, loom, p) \/ InPatch(ctl, p)
      /\ \A k \in 1 .. Len(ctl.pag) : mem.dat[k] = loom[ctl.pag[k]]
  BY <1>1 DEF LiveInv
<1>3. ControlOK(ctl) /\ ctl.whole = TRUE
  <2>1. Verifies(ctl, mem) /\ (ctl = None \/ ControlOK(ctl)) /\ (mem = None \/ mem \in MemoryType)
    BY <1>1 DEF StepInv, PatchesInv, PairOK
  <2> QED
    BY <2>1, VerifiedPatch
<1>4. top.nor \in Nat /\ top.sou \in Nat /\ top.nor + top.sou <= Pages
  BY <1>1 DEF TypeInv, Segment
<1>5. TopsOf(ctl).nor = top.nor /\ TopsOf(ctl).sou = top.sou
  BY <1>2 DEF TopsOf
<1>6. a = [s \in Segment |-> [dat |-> PagesOf(img, ctl, mem, s), torn |-> FALSE]]
  BY AppliedIs
<1> HIDE DEF a
<1>7. ASSUME NEW s \in Segment
      PROVE  /\ a[s].dat = PagesOf(img, ctl, mem, s)
             /\ Len(a[s].dat) = TopsOf(ctl)[s]
  <2> DEFINE l == TopsOf(ctl)[s]
             d == PagesOf(img, ctl, mem, s)
             S == {d[n] : n \in 1 .. l}
  <2>1. l \in Nat
    BY <1>4, <1>5 DEF Segment
  <2>2. d = [n \in 1 .. l |-> PageOf(img, ctl, mem, s, n)]
    BY DEF PagesOf
  <2> HIDE DEF d, l
  <2>3. d \in [1 .. l -> S]
    BY <2>2
  <2> HIDE DEF S
  <2>4. Len(d) = l
    BY ONLY <2>1, <2>3, FunctionIsSeq
  <2> QED
    BY <1>6, <2>4 DEF d, l
<1>8. ASSUME NEW p \in Live(top) PROVE Kept(a, top, loom, p)
  <2> DEFINE s == SegmentOf(p, top)
             n == OffsetOf(p, top)
  <2>1. p \in Page /\ s \in Segment /\ n \in 1 .. top[s]
    BY <1>4, PageHasOffset
  <2>2. SegmentOf(p, TopsOf(ctl)) = s /\ OffsetOf(p, TopsOf(ctl)) = n
    BY <1>5, SameTops
  <2>3. TopsOf(ctl)[s] = top[s] /\ top[s] \in Nat
    BY <1>4, <1>5, <2>1 DEF Segment
  <2> HIDE DEF s, n
  <2>4. PageOf(img, ctl, mem, s, n) = loom[p]
    <3>1. CASE IsLine(ctl, s, n)
      <4>1. PICK k \in 1 .. Len(ctl.pag) :
              LineAt(ctl, k, s, n) /\ PageOf(img, ctl, mem, s, n) = mem.dat[k]
        BY <3>1, PageOfLine
      <4>2. ctl.pag[k] \in Page
        BY <1>3, LineHasOffset
      <4>3. ctl.pag[k] = p
        BY <1>4, <1>5, <2>1, <2>2, <4>1, <4>2, OffsetsDiffer DEF LineAt
      <4> QED
        BY <1>2, <4>1, <4>3
    <3>2. CASE ~IsLine(ctl, s, n)
      <4>1. ~InPatch(ctl, p)
        BY <2>2, <3>2 DEF IsLine, InPatch, LineAt
      <4>2. Kept(img, top, loom, p)
        BY <1>2, <4>1
      <4> QED
        BY <3>2, <4>2, PageOfLine DEF Kept, s, n
    <3> QED
      BY <3>1, <3>2
  <2>5. a[s].dat[n] = loom[p] /\ n <= Len(a[s].dat)
    <3>1. n \in 1 .. TopsOf(ctl)[s] /\ s \in Segment
      BY <2>1, <2>3
    <3>2. PagesOf(img, ctl, mem, s)[n] = PageOf(img, ctl, mem, s, n)
      BY <3>1 DEF PagesOf
    <3>3. a[s].dat = PagesOf(img, ctl, mem, s) /\ Len(a[s].dat) = TopsOf(ctl)[s]
      BY <1>7, <3>1
    <3> QED
      BY <2>3, <2>4, <3>1, <3>2, <3>3
  <2> QED
    BY <2>5 DEF Kept, s, n
<1>9. Len(a["nor"].dat) = top.nor /\ Len(a["sou"].dat) = top.sou
  BY <1>5, <1>7 DEF Segment
<1>10. Held(a) = State(top, loom)
  BY ONLY <1>4, <1>8, <1>9, HeldIs
<1> QED
  BY <1>10 DEF a

\* The memory of a process is not the absence of one.
LEMMA StateIsThere == \A t, m : State(t, m) # CkptDown
<1>1. SUFFICES ASSUME NEW t, NEW m PROVE State(t, m) # CkptDown
  OBVIOUS
<1>2. DOMAIN State(t, m) = {"nor", "sou", "mem"} /\ DOMAIN CkptDown = {"down"}
  BY DEF State, CkptDown
<1>3. "down" \in DOMAIN CkptDown /\ "down" \notin DOMAIN State(t, m)
  BY <1>2
<1> QED
  BY <1>3

-----------------------------------------------------------------------------
(* The promise.                                                            *)

LEMMA CkptInvInit == SnapInit => CkptInv
<1> SUFFICES ASSUME SnapInit PROVE CkptInv
  OBVIOUS
<1>1. at = "down" /\ ctl = None /\ jrn = {}
  BY DEF SnapInit
<1> QED
  BY <1>1 DEF CkptInv

LEMMA CkptInvariant ==
  ASSUME OneFate
  PROVE  SnapSpec => [](SnapInv /\ CkptInv)
<1>1. SnapInit => CkptInv
  BY CkptInvInit
<1>2. SnapInv /\ CkptInv /\ [SnapNext]_snapVars => CkptInv'
  BY CkptInvStep
<1> QED
  BY <1>1, <1>2, SnapInvariant, PTL DEF SnapSpec

\* The checkpoint, and what Checkpoint has for the computation.
Cur == IF live THEN State(top, loom) ELSE CkptDown

Kpt == IF at \in {"memory", "pages", "syncC", "syncM"} THEN Held(img) ELSE Recovered

\* The images are the checkpoint, unless they wait for a patch.
LEMMA CkptIs ==
  ASSUME SnapInv, CkptInv
  PROVE  /\ Kpt = Held(img) \/ (Verifies(ctl, mem) /\ Kpt = Held(Applied(img, ctl, mem)))
         /\ ~Verifies(ctl, mem) => Kpt = Held(img)
         /\ at \notin Applying \cup {"down", "refused"} => Kpt = Held(img)
         /\ at \in Applying \cup {"down", "refused", "dropC"} /\ Verifies(ctl, mem) =>
              Kpt = Held(Applied(img, ctl, mem))
<1>1. TypeInv /\ PatchesInv /\ StepInv
  BY DEF SnapInv
<1>2. Verifies(ctl, mem) => ControlOK(ctl) /\ ctl.whole = TRUE
  <2>1. (ctl = None \/ ControlOK(ctl)) /\ (mem = None \/ mem \in MemoryType)
    BY <1>1 DEF PatchesInv, PairOK
  <2> QED
    BY <2>1, VerifiedPatch
<1>3. at = "dropC" /\ Verifies(ctl, mem) => Held(Applied(img, ctl, mem)) = Held(img)
  <2>1. SUFFICES ASSUME at = "dropC", Verifies(ctl, mem)
                 PROVE  Held(Applied(img, ctl, mem)) = Held(img)
    OBVIOUS
  <2>2. Settled(img, ctl, mem) /\ ImagesOK(img)
    BY <1>1, <2>1 DEF CkptInv, TypeInv
  <2> QED
    BY <1>2, <2>1, <2>2, SettledHeld
<1>4. at \in {"load", "idle", "dropM"} => ~Verifies(ctl, mem)
  BY <1>1 DEF StepInv, Verifies
<1>5. Recovered = IF Verifies(ctl, mem) THEN Held(Applied(img, ctl, mem)) ELSE Held(img)
  BY DEF Recovered
<1>6. at \in {"down", "refused", "load", "idle", "memory", "pages", "syncC", "syncM",
              "dropC", "dropM"} \cup Applying
  BY <1>1 DEF TypeInv, Applying
<1> QED
  BY <1>3, <1>4, <1>5, <1>6 DEF Kpt, Applying

\* How steps of snapshots appear to Checkpoint.
LEMMA StutterRefines ==
  ASSUME Cur' = Cur, Kpt' = Kpt
  PROVE  UNCHANGED Ckpt!ckptVars
BY DEF Cur, Kpt, Ckpt!ckptVars

LEMMA RunRefines ==
  ASSUME live = TRUE, live' = TRUE, Kpt' = Kpt
  PROVE  Ckpt!CkptNext
BY StateIsThere DEF Kpt, Ckpt!CkptNext, Ckpt!CkptRun

LEMMA SaveRefines ==
  ASSUME live = TRUE, Cur' = Cur, Kpt' = Cur
  PROVE  Ckpt!CkptNext
BY StateIsThere DEF Cur, Kpt, Ckpt!CkptNext, Ckpt!CkptSave

LEMMA DieRefines ==
  ASSUME live \in BOOLEAN, live' = FALSE, Kpt' = Kpt \/ (live = TRUE /\ Kpt' = Cur)
  PROVE  [Ckpt!CkptNext]_(Ckpt!ckptVars)
<1>1. CASE live = TRUE
  <2>1. Cur # CkptDown
    BY <1>1, StateIsThere DEF Cur
  <2>2. Cur' = CkptDown
    BY DEF Cur
  <2>3. Kpt' \in {Kpt, Cur}
    OBVIOUS
  <2>4. Ckpt!CkptDie
    BY <2>1, <2>2, <2>3 DEF Cur, Kpt, Ckpt!CkptDie
  <2> QED
    BY <2>4 DEF Ckpt!CkptNext
<1>2. CASE live = FALSE
  <2>1. Cur' = Cur /\ Kpt' = Kpt
    BY <1>2 DEF Cur
  <2> QED
    BY <2>1, StutterRefines
<1> QED
  BY <1>1, <1>2

\* A start finds the memory that the images hold, or none.
LEMMA LoadRefines ==
  ASSUME SnapInv, CkptInv, Load
  PROVE  Ckpt!CkptNext
<1>1. at = "load" /\ at' = "idle" /\ live = FALSE /\ live' = TRUE /\ ctl = None
  BY DEF Load, SnapInv, LiveInv, StepInv
<1>2. /\ loom' = Blit(img)
      /\ top' = IF img = NoImage THEN Fresh0 ELSE Tops(img)
      /\ img' = img /\ ctl' = ctl /\ mem' = mem
  BY DEF Load, patch
<1>3. Kpt = Held(img) /\ Kpt' = Held(img)
  <2>1. ~Verifies(ctl, mem) /\ ~Verifies(ctl, mem)'
    BY <1>1, <1>2 DEF Verifies
  <2> QED
    BY <1>1, <1>2, <2>1 DEF Kpt, Recovered
<1>4. Cur = CkptDown /\ Cur' = State(top', loom')
  BY <1>1 DEF Cur
<1>5. ImagesOK(img) /\ (\A s \in Segment : img[s].torn = FALSE)
  BY <1>1 DEF SnapInv, TypeInv, CkptInv
<1>6. Held(img) = Held(NoImage) => img = NoImage
  <2>1. SUFFICES ASSUME Held(img) = Held(NoImage) PROVE img = NoImage
    OBVIOUS
  <2>2. /\ Held(img).nor = Len(img["nor"].dat) /\ Held(img).sou = Len(img["sou"].dat)
        /\ Held(NoImage).nor = 0 /\ Held(NoImage).sou = 0
    BY DEF Held, State, Tops, Segment, NoImage, EmptyImage
  <2>3. ASSUME NEW s \in Segment PROVE img[s] = EmptyImage
    <3>1. img[s].dat \in Seq(Data) /\ img[s] \in [dat : Seq(Data), torn : BOOLEAN]
      BY <1>5 DEF ImagesOK, ImageOK
    <3>2. Len(img[s].dat) = 0
      BY <2>1, <2>2 DEF Segment
    <3>3. img[s].dat = <<>>
      BY <3>1, <3>2, EmptySeq
    <3>4. img[s] = [dat |-> img[s].dat, torn |-> img[s].torn]
      BY <3>1
    <3> QED
      BY <1>5, <3>3, <3>4 DEF EmptyImage
  <2>4. img = [s \in Segment |-> img[s]]
    BY <1>5 DEF ImagesOK, Images
  <2> QED
    BY <2>3, <2>4 DEF NoImage
<1>7. Blit(NoImage) = Loom0
  <2>1. Len(NoImage["nor"].dat) = 0 /\ Len(NoImage["sou"].dat) = 0
    BY DEF NoImage, EmptyImage, Segment
  <2>2. \A p \in Page : ~(p < 0) /\ ~(Pages - p <= 0)
    BY SnapshotAssumption DEF Page
  <2> QED
    BY <2>1, <2>2 DEF Blit, Loom0
<1>8. Cur' = IF Kpt = Held(NoImage) THEN State(Fresh0, Loom0) ELSE Kpt
  <2>1. CASE img = NoImage
    BY <1>2, <1>3, <1>4, <1>7, <2>1
  <2>2. CASE img # NoImage
    BY <1>2, <1>3, <1>4, <1>6, <2>2 DEF Held
  <2> QED
    BY <2>1, <2>2
<1>9. Ckpt!CkptStart
  BY <1>3, <1>4, <1>8 DEF Cur, Kpt, Ckpt!CkptStart
<1> QED
  BY <1>9 DEF Ckpt!CkptNext

LEMMA SaveStepRefines ==
  ASSUME SnapInv, CkptInv, Save
  PROVE  [Ckpt!CkptNext]_(Ckpt!ckptVars)
<1> USE DEF core, patch
<1>1. StepInv /\ live = TRUE /\ live \in BOOLEAN
  BY DEF SnapInv, LiveInv, Saving, Save, CreateControl, CreateMemory, SavePage, WriteControl,
         SyncControl, SyncMemory
<1>2. CASE CreateControl
  <2>1. at = "idle" /\ ctl = None
    BY <1>1, <1>2 DEF CreateControl, StepInv
  <2>2. at' = "memory" /\ img' = img /\ UNCHANGED <<live, loom, top>>
    BY <1>2, <2>1 DEF CreateControl
  <2>3. Kpt = Held(img) /\ Kpt' = Held(img)
    BY <2>1, <2>2, CkptIs DEF Kpt, Verifies
  <2> QED
    BY <2>2, <2>3, StutterRefines DEF Cur
<1>3. CASE CreateMemory
  <2>1. at = "memory" /\ img' = img /\ ctl' = ctl /\ ctl.whole = FALSE
    BY <1>1, <1>3 DEF CreateMemory, StepInv, Gone
  <2>2. Kpt = Held(img)
    BY <2>1 DEF Kpt
  <2>3. CASE mem # None
    <3>1. at' = "down" /\ live' = FALSE /\ mem' = mem
      BY <1>3, <2>3 DEF CreateMemory, Gone
    <3>2. ~Verifies(ctl, mem)'
      BY <2>1 DEF Verifies
    <3>3. Kpt' = Held(img)
      BY <2>1, <3>1, <3>2 DEF Kpt, Recovered
    <3> QED
      BY <1>1, <2>2, <3>1, <3>3, DieRefines
  <2>4. CASE mem = None
    <3>1. at' = "pages" /\ UNCHANGED <<live, loom, top>>
      BY <1>3, <2>4 DEF CreateMemory
    <3>2. Kpt' = Held(img)
      BY <2>1, <3>1 DEF Kpt
    <3> QED
      BY <2>2, <3>1, <3>2, StutterRefines DEF Cur
  <2> QED
    BY <2>3, <2>4
<1>4. CASE SavePage \/ WriteControl \/ SyncControl
  <2>1. /\ at \in {"pages", "syncC"} /\ at' \in {"pages", "syncC", "syncM"}
        /\ img' = img /\ UNCHANGED <<live, loom, top>>
    BY <1>4 DEF SavePage, WriteControl, SyncControl
  <2>2. Kpt = Held(img) /\ Kpt' = Held(img)
    BY <2>1 DEF Kpt
  <2> QED
    BY <2>1, <2>2, StutterRefines DEF Cur
<1>5. CASE SyncMemory
  <2>1. at = "syncM" /\ Verifies(ctl, mem)
    BY <1>1, <1>5 DEF SyncMemory, StepInv
  <2>2. /\ at' = "trimN" /\ img' = img /\ ctl' = ctl /\ mem' = [mem EXCEPT !.syn = TRUE]
        /\ UNCHANGED <<live, loom, top>>
    BY <1>5, <2>1 DEF SyncMemory
  <2>3. ControlOK(ctl) /\ mem \in MemoryType /\ mem # None
    <3>1. (ctl = None \/ ControlOK(ctl)) /\ (mem = None \/ mem \in MemoryType)
      BY DEF SnapInv, PatchesInv, PairOK
    <3> QED
      BY <2>1, <3>1, VerifiedPatch
  <2>4. mem' \in MemoryType /\ mem'.dat = mem.dat
    BY <2>2, <2>3 DEF MemoryType
  <2>5. mem' # None
    BY <2>4, FilesAreThere
  <2>6. Verifies(ctl, mem)'
    BY <2>1, <2>2, <2>4, <2>5 DEF Verifies
  <2>7. Applied(img, ctl, mem') = Applied(img, ctl, mem)
    BY <2>4 DEF Applied
  <2>8. Held(Applied(img, ctl, mem)) = State(top, loom)
    BY <2>1, MemoryIsPatch
  <2>9. Kpt' = State(top, loom)
    BY <2>2, <2>6, <2>7, <2>8 DEF Kpt, Recovered
  <2> QED
    BY <1>1, <2>2, <2>9, SaveRefines DEF Cur
<1> QED
  BY <1>2, <1>3, <1>4, <1>5 DEF Save

\* Images that differ in pages of the patch only: the patch makes the same of them.
LEMMA AppliedTwice ==
  ASSUME NEW i, NEW j, NEW c, NEW m, ControlOK(c), Base(i, c), ImagesOK(i),
         \A s \in Segment : \A n \in 1 .. Len(i[s].dat) :
           n <= TopsOf(c)[s] =>
             IsLine(c, s, n) \/ (n <= Len(j[s].dat) /\ j[s].dat[n] = i[s].dat[n])
  PROVE  Held(Applied(j, c, m)) = Held(Applied(i, c, m))
<1>1. ASSUME NEW s \in Segment, NEW n \in 1 .. TopsOf(c)[s], ~IsLine(c, s, n)
      PROVE  n <= Len(i[s].dat) /\ n <= Len(j[s].dat) /\ j[s].dat[n] = i[s].dat[n]
  <2>1. Len(i[s].dat) \in Nat /\ TopsOf(c)[s] \in Nat
    BY DEF ImagesOK, ImageOK, TopsOf, ControlOK, ControlType, Segment
  <2>2. n <= Len(i[s].dat)
    BY <1>1 DEF Base
  <2>3. n \in 1 .. Len(i[s].dat) /\ n <= TopsOf(c)[s]
    BY <2>1, <2>2
  <2> QED
    BY <1>1, <2>2, <2>3
<1>2. SamePatch(c, c) /\ (\A k \in 1 .. Len(c.pag) : m.dat[k] = m.dat[k])
  BY DEF SamePatch
<1>3. Applied(j, c, m) = Applied(i, c, m)
  BY ONLY <1>1, <1>2, AppliedSame
<1> QED
  BY <1>3

LEMMA ApplyStepRefines ==
  ASSUME SnapInv, SnapInv', CkptInv, CkptInv', Apply
  PROVE  [Ckpt!CkptNext]_(Ckpt!ckptVars)
<1> USE DEF core, patch
<1>1. TypeInv /\ StepInv
  BY DEF SnapInv
<1>2. UNCHANGED <<live, loom, top>>
  BY DEF Apply, TrimNorth, TrimSouth, ApplyPage, SyncNorth, SyncSouth, DropControl, DropMemory
<1>3. ASSUME at \in Applying, ctl' = ctl, mem' = mem, at' \in Applying \cup {"dropC"},
             \A s \in Segment : \A n \in 1 .. Len(img[s].dat) :
               n <= TopsOf(ctl)[s] =>
                 IsLine(ctl, s, n) \/ (n <= Len(img'[s].dat) /\ img'[s].dat[n] = img[s].dat[n])
      PROVE  Kpt' = Kpt
  <2>1. Verifies(ctl, mem) /\ ControlOK(ctl) /\ Base(img, ctl) /\ ImagesOK(img)
    BY <1>1, <1>3, AppliedPatch DEF TypeInv
  <2>2. Verifies(ctl, mem)'
    BY <1>3, <2>1
  <2> DEFINE j == img'
  <2>3. \A s \in Segment : \A n \in 1 .. Len(img[s].dat) :
          n <= TopsOf(ctl)[s] =>
            IsLine(ctl, s, n) \/ (n <= Len(j[s].dat) /\ j[s].dat[n] = img[s].dat[n])
    BY <1>3
  <2> HIDE DEF j
  <2>4. Held(Applied(j, ctl, mem)) = Held(Applied(img, ctl, mem))
    BY ONLY <2>1, <2>3, AppliedTwice
  <2>5. Kpt = Held(Applied(img, ctl, mem))
    BY <1>3, <2>1 DEF Kpt, Recovered, Applying
  <2>6. Kpt' = Held(Applied(j, ctl, mem))
    BY <1>3, <2>2 DEF Kpt, Recovered, Applying, j
  <2> QED
    BY <2>4, <2>5, <2>6
<1>4. CASE TrimNorth \/ TrimSouth
  <2>1. /\ at \in Applying /\ at' \in Applying /\ ctl' = ctl /\ mem' = mem
        /\ \E s \in Segment : img' = [img EXCEPT ![s] = Resize(@, TopsOf(ctl)[s])]
    BY <1>4 DEF TrimNorth, TrimSouth, Applying, Segment, TopsOf
  <2>2. PICK s \in Segment : img' = [img EXCEPT ![s] = Resize(@, TopsOf(ctl)[s])]
    BY <2>1
  <2>3. ImagesOK(img) /\ ControlOK(ctl)
    BY <1>1, <2>1, AppliedPatch DEF TypeInv
  <2> DEFINE j == img'
             g == Resize(img[s], TopsOf(ctl)[s])
  <2>4. j[s] = g /\ (\A x \in Segment : x # s => j[x] = img[x])
    <3> HIDE DEF g
    <3>1. img' = [img EXCEPT ![s] = g]
      BY <2>2 DEF g
    <3> QED
      BY <2>3, <3>1 DEF ImagesOK, Images
  <2> HIDE DEF j
  <2>5. \A x \in Segment : \A n \in 1 .. TopsOf(ctl)[x] :
          n <= Len(img[x].dat) => n <= Len(j[x].dat) /\ j[x].dat[n] = img[x].dat[n]
    BY ONLY <2>3, <2>4, TrimKeeps
  <2>6. \A x \in Segment : \A n \in 1 .. Len(img[x].dat) :
          n <= TopsOf(ctl)[x] => n <= Len(j[x].dat) /\ j[x].dat[n] = img[x].dat[n]
    <3>1. \A x \in Segment : Len(img[x].dat) \in Nat /\ TopsOf(ctl)[x] \in Nat
      BY <2>3 DEF ImagesOK, ImageOK, TopsOf, ControlOK, ControlType, Segment
    <3> QED
      BY <2>5, <3>1
  <2>7. Kpt' = Kpt
    BY <1>3, <2>1, <2>6 DEF j
  <2> QED
    BY <1>2, <2>7, StutterRefines DEF Cur
<1>5. CASE ApplyPage
  <2>1. at \in Applying /\ at' \in Applying /\ ctl' = ctl /\ mem' = mem
    BY <1>5 DEF ApplyPage, Applying
  <2>2. IsLine(ctl, NextSegment, NextOffset)
    BY <1>5, PageIsApplied DEF IsLine
  <2>3. \A x \in Segment : \A m \in 1 .. Len(img[x].dat) :
          ~(x = NextSegment /\ m = NextOffset) =>
            m <= Len(img'[x].dat) /\ img'[x].dat[m] = img[x].dat[m]
    BY <1>5, PageIsApplied
  <2>4. Kpt' = Kpt
    BY <1>3, <2>1, <2>2, <2>3
  <2> QED
    BY <1>2, <2>4, StutterRefines DEF Cur
<1>6. CASE SyncNorth \/ SyncSouth
  <2>1. /\ at \in Applying /\ at' \in Applying \cup {"dropC"}
        /\ img' = img /\ ctl' = ctl /\ mem' = mem
    BY <1>6 DEF SyncNorth, SyncSouth, Applying
  <2>2. Kpt' = Kpt
    BY <1>3, <2>1
  <2> QED
    BY <1>2, <2>2, StutterRefines DEF Cur
<1>7. CASE DropControl \/ DropMemory
  <2>1. /\ at \in {"dropC", "dropM"} /\ at' \in {"dropM", "idle", "load"} /\ img' = img
    BY <1>7 DEF DropControl, DropMemory
  <2>2. ctl' = None
    BY <1>1, <1>7 DEF DropControl, DropMemory, StepInv
  <2>3. Kpt = Held(img)
    BY <2>1, CkptIs DEF Applying
  <2>4. ~Verifies(ctl, mem)'
    BY <2>2 DEF Verifies
  <2>5. Kpt' = Held(img)
    BY <2>1, <2>4 DEF Kpt, Recovered
  <2> QED
    BY <1>2, <2>3, <2>5, StutterRefines DEF Cur
<1> QED
  BY <1>4, <1>5, <1>6, <1>7 DEF Apply

\* The checkpoint of a process that died in the middle of a step is the one it
\* had, or the memory it was about to save.
LEMMA KillRefines ==
  ASSUME SnapInv, CkptInv, Kill
  PROVE  [Ckpt!CkptNext]_(Ckpt!ckptVars)
<1> DEFINE p == ctl.pag[pgc]
           s == SegmentOf(p, TopsOf(ctl))
           n == OffsetOf(p, TopsOf(ctl))
<1>1. /\ TypeInv /\ PatchesInv /\ StepInv /\ LiveInv /\ live \in BOOLEAN
      /\ at \notin {"down", "refused"}
  BY DEF Kill, SnapInv, TypeInv
<1>2. at' = "down" /\ live' = FALSE /\ ctl' = ctl
  BY DEF Kill, Gone
<1>3. Kpt' = IF Verifies(ctl, mem') THEN Held(Applied(img', ctl, mem')) ELSE Held(img')
  BY <1>2 DEF Kpt, Recovered
<1>4. CASE UNCHANGED <<img, mem>>
  <2>1. img' = img /\ mem' = mem
    BY <1>4
  <2>2. CASE at \in {"syncC", "syncM"}
    <3>1. Kpt' = State(top, loom) /\ live = TRUE
      BY <1>1, <1>3, <2>1, <2>2, MemoryIsPatch DEF StepInv, LiveInv, Saving
    <3> QED
      BY <1>1, <1>2, <3>1, DieRefines DEF Cur
  <2>3. CASE at \in {"memory", "pages"}
    <3>1. ~Verifies(ctl, mem)
      BY <1>1, <2>3 DEF StepInv, Verifies
    <3> QED
      BY <1>1, <1>2, <1>3, <2>1, <3>1, CkptIs, DieRefines
  <2>4. CASE at \notin {"memory", "pages", "syncC", "syncM"}
    <3>1. Kpt' = Kpt
      BY <1>3, <2>1, <2>4 DEF Kpt, Recovered
    <3> QED
      BY <1>1, <1>2, <3>1, DieRefines
  <2> QED
    BY <2>2, <2>3, <2>4
<1>5. CASE at = "pages" /\ UNCHANGED img
  <2>1. ~Verifies(ctl, mem) /\ ~Verifies(ctl, mem')
    BY <1>1, <1>5 DEF StepInv, Verifies
  <2>2. Kpt = Held(img) /\ Kpt' = Held(img)
    BY <1>3, <1>5, <2>1 DEF Kpt
  <2> QED
    BY <1>1, <1>2, <2>2, DieRefines
<1>6. CASE /\ at = "apply" /\ pgc <= Len(ctl.pag)
           /\ \E f \in Cut(img[s], n) : img' = [img EXCEPT ![s] = f]
           /\ UNCHANGED mem
  <2>1. at \in Applying /\ mem' = mem
    BY <1>6 DEF Applying
  <2>2. Verifies(ctl, mem) /\ ControlOK(ctl) /\ ctl.whole = TRUE /\ Base(img, ctl)
    BY <2>1, AppliedPatch
  <2>3. pgc \in 1 .. Len(ctl.pag)
    BY <1>1, <1>6, <2>2 DEF SnapInv, TypeInv, ApplyInv, ControlOK, ControlType
  <2>4. s \in Segment /\ n \in 1 .. Pages
    BY <2>2, <2>3, LineHasOffset
  <2>5. IsLine(ctl, s, n)
    BY <2>3 DEF IsLine, LineAt
  <2>6. ImagesOK(img) /\ ImageOK(img[s])
    BY <1>1, <2>4 DEF TypeInv, ImagesOK
  <2> HIDE DEF s, n
  <2>7. PICK f \in Cut(img[s], n) : img' = [img EXCEPT ![s] = f]
    BY <1>6
  <2>8. /\ Len(f.dat) = Len(img[s].dat)
        /\ \A j \in 1 .. Len(img[s].dat) : j # n => f.dat[j] = img[s].dat[j]
    BY <2>4, <2>6, CutKeeps
  <2> DEFINE j == img'
  <2>9. j[s] = f /\ (\A x \in Segment : x # s => j[x] = img[x])
    BY <2>4, <2>6, <2>7 DEF ImagesOK, Images
  <2> HIDE DEF j
  <2>10. \A x \in Segment : \A m \in 1 .. Len(img[x].dat) :
           m <= TopsOf(ctl)[x] =>
             IsLine(ctl, x, m) \/ (m <= Len(j[x].dat) /\ j[x].dat[m] = img[x].dat[m])
    <3>1. SUFFICES ASSUME NEW x \in Segment, NEW m \in 1 .. Len(img[x].dat),
                          ~(x = s /\ m = n)
                   PROVE  m <= Len(j[x].dat) /\ j[x].dat[m] = img[x].dat[m]
      BY <2>5
    <3>2. Len(img[x].dat) \in Nat
      BY <2>6 DEF ImagesOK, ImageOK
    <3> QED
      BY <2>8, <2>9, <3>1, <3>2
  <2>11. Held(Applied(j, ctl, mem)) = Held(Applied(img, ctl, mem))
    BY ONLY <2>2, <2>6, <2>10, AppliedTwice
  <2>12. Kpt = Held(Applied(img, ctl, mem)) /\ Kpt' = Held(Applied(img', ctl, mem))
    BY <1>3, <1>6, <2>1, <2>2 DEF Kpt, Recovered
  <2> QED
    BY <1>1, <1>2, <2>11, <2>12, DieRefines DEF j
<1> QED
  BY <1>4, <1>5, <1>6 DEF Kill, PatchTops, TopsOf

\* A patch that a loss of power brings back, and that the images had, changes nothing.
LEMMA PatchThatReturns ==
  ASSUME NEW i, ImagesOK(i), NEW c, NEW m, NEW a, NEW b,
         ControlOK(c), c.whole = TRUE, Verifies(c, m), SamePatch(a, c), Verifies(a, b)
  PROVE  /\ Applied(i, a, b) = Applied(i, c, m) \/ ~Base(i, c)
         /\ Settled(i, c, m) /\ Base(i, c) => Held(Applied(i, a, b)) = Held(i)
<1>1. \A k \in 1 .. Len(c.pag) : b.dat[k] = m.dat[k]
  BY DEF Verifies, SamePatch
<1>2. ASSUME Base(i, c) PROVE Applied(i, a, b) = Applied(i, c, m)
  <2>1. \A s \in Segment : \A n \in 1 .. TopsOf(c)[s] :
          \/ IsLine(c, s, n)
          \/ n <= Len(i[s].dat) /\ n <= Len(i[s].dat) /\ i[s].dat[n] = i[s].dat[n]
    BY <1>2 DEF Base
  <2>2. SamePatch(a, c)
    OBVIOUS
  <2> QED
    BY ONLY <1>1, <2>1, <2>2, AppliedSame
<1>3. ASSUME Settled(i, c, m), Base(i, c) PROVE Held(Applied(i, a, b)) = Held(i)
  <2>1. Held(Applied(i, c, m)) = Held(i)
    <3>1. ImagesOK(i) /\ ControlOK(c) /\ c.whole = TRUE /\ Settled(i, c, m)
      BY <1>3
    <3> QED
      BY ONLY <3>1, SettledHeld
  <2>2. Applied(i, a, b) = Applied(i, c, m)
    BY <1>2, <1>3
  <2> QED
    BY <2>1, <2>2
<1> QED
  BY <1>2, <1>3

LEMMA PowerLossRefines ==
  ASSUME SnapInv, CkptInv, PowerLoss
  PROVE  [Ckpt!CkptNext]_(Ckpt!ckptVars)
<1>1. /\ TypeInv /\ PatchesInv /\ StepInv /\ PowerInv /\ LiveInv /\ live \in BOOLEAN
      /\ "power" \in fate /\ at # "refused"
  BY DEF PowerLoss, SnapInv, TypeInv
<1>2. at' = "down" /\ live' = FALSE
  BY DEF PowerLoss, Gone
<1>3. Kpt' = IF Verifies(ctl', mem') THEN Held(Applied(img', ctl', mem')) ELSE Held(img')
  BY <1>2 DEF Kpt, Recovered
<1>4. /\ at \notin Applying => img' = img
      /\ \A x \in Segment : \A j \in 1 .. Len(dsk[x].dat) :
           j <= Len(img[x].dat) /\ dsk[x].dat[j] = img[x].dat[j] =>
             j <= Len(img'[x].dat) /\ img'[x].dat[j] = img[x].dat[j]
  BY ImagesAfterLoss
<1>5. PICK d \in jrn \cup {<<ctl, mem>>} :
        /\ PairOK(img, d[1], d[2])
        /\ ctl' = None \/ (ControlOK(ctl') /\ ctl'.syn = TRUE)
        /\ mem' = None \/ (mem' \in MemoryType /\ mem'.syn = TRUE)
        /\ Verifies(ctl', mem') =>
             /\ Verifies(d[1], d[2])
             /\ ctl'.syn = TRUE /\ mem'.syn = TRUE
             /\ SamePatch(ctl', d[1])
        /\ Needed => ctl' = ctl /\ mem' = mem /\ Verifies(ctl, mem)
  BY FilesAfterLoss
<1>6. ImagesOK(img) /\ ImagesOK(dsk)
  BY <1>1 DEF TypeInv
<1>7. CASE at \in Applying
  <2>1. /\ ctl' = ctl /\ mem' = mem /\ Verifies(ctl, mem)
    BY <1>5, <1>7 DEF Needed
  <2>2. ControlOK(ctl) /\ Base(img, ctl) /\ Durable(dsk, img, ctl)
    BY <1>1, <1>7, AppliedPatch
  <2> DEFINE j == img'
  <2>3. \A x \in Segment : \A n \in 1 .. Len(img[x].dat) :
          n <= TopsOf(ctl)[x] =>
            IsLine(ctl, x, n) \/ (n <= Len(j[x].dat) /\ j[x].dat[n] = img[x].dat[n])
    <3>1. SUFFICES ASSUME NEW x \in Segment, NEW n \in 1 .. Len(img[x].dat),
                          n <= TopsOf(ctl)[x], ~IsLine(ctl, x, n)
                   PROVE  n <= Len(img'[x].dat) /\ img'[x].dat[n] = img[x].dat[n]
      OBVIOUS
    <3>2. Len(img[x].dat) \in Nat /\ Len(dsk[x].dat) \in Nat /\ TopsOf(ctl)[x] \in Nat
      BY <1>6, <2>2 DEF ImagesOK, ImageOK, TopsOf, ControlOK, ControlType, Segment
    <3>3. n \in 1 .. TopsOf(ctl)[x]
      BY <3>1, <3>2
    <3>4. n <= Len(dsk[x].dat) /\ dsk[x].dat[n] = img[x].dat[n]
      BY <2>2, <3>1, <3>3 DEF Durable
    <3>5. n \in 1 .. Len(dsk[x].dat) /\ n <= Len(img[x].dat)
      BY <3>2, <3>3, <3>4
    <3> QED
      BY <1>4, <3>4, <3>5
  <2> HIDE DEF j
  <2>4. Held(Applied(j, ctl, mem)) = Held(Applied(img, ctl, mem))
    BY ONLY <1>6, <2>2, <2>3, AppliedTwice
  <2>5. Kpt = Held(Applied(img, ctl, mem))
    BY <1>7, <2>1, CkptIs
  <2>6. Kpt' = Kpt
    BY <1>3, <2>1, <2>4, <2>5 DEF j
  <2> QED
    BY <1>1, <1>2, <2>6, DieRefines
<1>8. CASE at \notin Applying /\ ~Verifies(ctl', mem')
  <2>1. Kpt' = Held(img)
    BY <1>3, <1>4, <1>8
  <2>2. ~(at = "down" /\ Verifies(ctl, mem))
    BY <1>5, <1>8 DEF Needed
  <2>3. Kpt = Held(img)
    BY <1>1, <1>8, <2>2, CkptIs
  <2> QED
    BY <1>1, <1>2, <2>1, <2>3, DieRefines
<1>9. CASE at \notin Applying /\ Verifies(ctl', mem')
  <2>1. Verifies(d[1], d[2]) /\ SamePatch(ctl', d[1]) /\ Base(img, d[1])
    BY <1>5, <1>9 DEF PairOK
  <2>2. ControlOK(d[1]) /\ d[1].whole = TRUE
    <3> DEFINE c == d[1]
               m == d[2]
    <3>1. (c = None \/ ControlOK(c)) /\ (m = None \/ m \in MemoryType) /\ Verifies(c, m)
      BY <1>5, <2>1 DEF PairOK
    <3> HIDE DEF c, m
    <3>2. ControlOK(c) /\ c.whole = TRUE
      BY <3>1, VerifiedPatch
    <3> QED
      BY <3>2 DEF c
  <2>3. Kpt' = Held(Applied(img, ctl', mem'))
    BY <1>3, <1>4, <1>9
  <2>4. /\ Applied(img, ctl', mem') = Applied(img, d[1], d[2])
        /\ Settled(img, d[1], d[2]) => Held(Applied(img, ctl', mem')) = Held(img)
    <3> DEFINE c == d[1]
               m == d[2]
               a == ctl'
               b == mem'
    <3>1. /\ ImagesOK(img) /\ ControlOK(c) /\ c.whole = TRUE /\ Verifies(c, m)
          /\ SamePatch(a, c) /\ Verifies(a, b) /\ Base(img, c)
      BY <1>6, <1>9, <2>1, <2>2
    <3> HIDE DEF c, m, a, b
    <3>2. /\ Applied(img, a, b) = Applied(img, c, m)
          /\ Settled(img, c, m) => Held(Applied(img, a, b)) = Held(img)
      BY ONLY <3>1, PatchThatReturns
    <3> QED
      BY <3>2 DEF c, m, a, b
  <2>5. CASE d \in jrn
    <3>1. Settled(img, d[1], d[2])
      BY <2>1, <2>5 DEF CkptInv
    <3>2. Kpt' = Held(img)
      BY <2>3, <2>4, <3>1
    <3>3. ~(at = "down" /\ Verifies(ctl, mem))
      BY <1>1, <2>5 DEF PowerInv, Needed
    <3>4. Kpt = Held(img)
      BY <1>1, <1>9, <3>3, CkptIs
    <3> QED
      BY <1>1, <1>2, <3>2, <3>4, DieRefines
  <2>6. CASE d = <<ctl, mem>>
    <3>1. d[1] = ctl /\ d[2] = mem
      BY <2>6
    <3>2. Verifies(ctl, mem) /\ Kpt' = Held(Applied(img, ctl, mem))
      BY <2>1, <2>3, <2>4, <3>1
    <3>3. CASE at \in {"syncC", "syncM"}
      <4>1. Kpt' = State(top, loom) /\ live = TRUE
        BY <1>1, <3>2, <3>3, MemoryIsPatch DEF LiveInv, Saving
      <4> QED
        BY <1>1, <1>2, <4>1, DieRefines DEF Cur
    <3>4. CASE at \notin {"syncC", "syncM"}
      <4>1. at \notin {"load", "idle", "memory", "pages", "dropM"}
        BY <1>1, <3>2 DEF StepInv, Verifies
      <4>2. at \in {"down", "dropC"}
        BY <1>1, <1>9, <3>4, <4>1 DEF TypeInv, Applying
      <4>3. Kpt' = Kpt
        BY <3>2, <4>2, CkptIs
      <4> QED
        BY <1>1, <1>2, <4>3, DieRefines
    <3> QED
      BY <3>3, <3>4
  <2> QED
    BY <2>5, <2>6
<1> QED
  BY <1>7, <1>8, <1>9

LEMMA SnapInitRefines == SnapInit => Ckpt!CkptInit
<1> SUFFICES ASSUME SnapInit PROVE Ckpt!CkptInit
  OBVIOUS
<1>1. ~Verifies(ctl, mem) /\ at = "down" /\ live = FALSE /\ img = NoImage
  BY DEF SnapInit, Verifies
<1>2. Recovered = Held(NoImage)
  BY <1>1 DEF Recovered
<1> QED
  BY <1>1, <1>2 DEF Ckpt!CkptInit

LEMMA SnapStepRefines ==
  ASSUME SnapInv, SnapInv', CkptInv, CkptInv', [SnapNext]_snapVars
  PROVE  [Ckpt!CkptNext]_(Ckpt!ckptVars)
<1> USE DEF core, patch
<1>1. CASE Compute \/ Meld
  <2>1. at = "idle" /\ UNCHANGED <<at, live, img, ctl, mem>> /\ live = TRUE
    BY <1>1 DEF Compute, Meld, SnapInv, LiveInv, Saving
  <2>2. Kpt' = Kpt
    BY <2>1 DEF Kpt, Recovered
  <2> QED
    BY <2>1, <2>2, RunRefines
<1>2. CASE Save
  BY <1>2, SaveStepRefines
<1>3. CASE Apply
  BY <1>3, ApplyStepRefines
<1>4. CASE Boot
  <2>1. /\ at = "down" /\ at' \in {"refused", "load", "trimN", "dropC"}
        /\ UNCHANGED <<live, loom, top, img, ctl, mem>>
    BY <1>4 DEF Boot
  <2>2. Cur' = Cur /\ Kpt' = Kpt
    BY <2>1 DEF Cur, Kpt, Recovered
  <2> QED
    BY <2>2, StutterRefines
<1>5. CASE Load
  BY <1>5, LoadRefines
<1>6. CASE Kill
  BY <1>6, KillRefines
<1>7. CASE PowerLoss
  BY <1>7, PowerLossRefines
<1>8. CASE UNCHANGED snapVars
  <2>1. Cur' = Cur /\ Kpt' = Kpt
    BY <1>8 DEF snapVars, Cur, Kpt, Recovered
  <2> QED
    BY <2>1, StutterRefines
<1> QED
  BY <1>1, <1>2, <1>3, <1>4, <1>5, <1>6, <1>7, <1>8 DEF SnapNext

\* u3e_save and u3e_live keep the promise of Checkpoint: wherever the process
\* is killed, or the power fails, the next start continues from exactly the
\* memory of the last save or of the one that was under way.
THEOREM SnapKeepsPromise ==
  ASSUME OneFate
  PROVE  SnapSpec => CheckpointSpec
<1>1. SnapInit => Ckpt!CkptInit
  BY SnapInitRefines
<1>2. /\ SnapInv /\ CkptInv /\ (SnapInv /\ CkptInv)' /\ [SnapNext]_snapVars
      => [Ckpt!CkptNext]_(Ckpt!ckptVars)
  BY SnapStepRefines
<1> QED
  BY <1>1, <1>2, CkptInvariant, PTL DEF SnapSpec, CheckpointSpec, Ckpt!CkptSpec
=============================================================================
