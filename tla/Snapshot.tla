------------------------------ MODULE Snapshot ------------------------------
(***************************************************************************)
(* Incremental snapshots of the loom (noun/events.c).  Two image files     *)
(* hold the pages of the heap (north) and of the stack and the home road   *)
(* (south).  A save writes the dirty pages to a patch, two files of their  *)
(* own, syncs it, applies it to the images in place, syncs them, and       *)
(* removes the patch; a start that finds a patch applies it first.         *)
(*                                                                         *)
(* Every system call that changes a file is one step, and the process or   *)
(* the machine may stop between and within them.  A page holds the number  *)
(* of the event that last stored to it; Bad is a page cut within a write.  *)
(***************************************************************************)
EXTENDS Naturals, Sequences, FiniteSets

CONSTANTS Pages,           \* u3a_pages: how many pages the loom has
          MaxEve,          \* bound: events computed
          PowerEve,        \* the same, where the power may fail
          Fates            \* which kinds of failure one behaviour may mix

ASSUME SnapshotAssumption ==
  /\ Pages \in Nat /\ Pages > 1
  /\ MaxEve \in Nat /\ PowerEve \in 0 .. MaxEve
  /\ Fates \subseteq SUBSET {"kill", "power"}

VARIABLES fate,            \* the failures this behaviour may suffer
          at,              \* the next step of u3e_save or u3e_live
          live,            \* u3e_live has returned in the running process
          loom,            \* the pages in memory
          top,             \* u3m_water: pages in use, north and south
          dit,             \* u3P.dit_w: pages touched since the last save
          pgc,             \* pgc_w, i_w: position in the patch
          img,             \* nor_u and sou_u: the files as processes see them
          dsk,             \* the same files as they would survive a power loss
          ctl,             \* control.bin
          mem,             \* memory.bin
          jrn              \* <<ctl, mem>> as the directory had them since the last sync

core  == <<loom, top, dit>>
patch == <<ctl, mem, jrn>>
snapVars == <<fate, at, live, loom, top, dit, pgc, img, dsk, ctl, mem, jrn>>

Page  == 0 .. (Pages - 1)
Home  == Pages - 1         \* the page of u3H, which every event stores to
Bad   == MaxEve + 1        \* part of one page and part of another
Data  == 0 .. Bad
None  == [none |-> TRUE]   \* no such file

Segment == {"nor", "sou"}
EmptyImage == [dat |-> <<>>, torn |-> FALSE]
NoImage == [s \in Segment |-> EmptyImage]

Loom0 == [p \in Page |-> 0]
Fresh0 == [nor |-> 0, sou |-> 1]

-----------------------------------------------------------------------------
(* Segments: north is in order, south is reversed on disk.                 *)

Live(t) == {p \in Page : p < t.nor \/ p >= Pages - t.sou}

SegmentOf(p, t) == IF p < t.nor THEN "nor" ELSE "sou"

OffsetOf(p, t) == IF p < t.nor THEN p + 1 ELSE Pages - p

\* What the program's memory means: the pages in use.
State(t, m) == [nor |-> t.nor, sou |-> t.sou, mem |-> [p \in Live(t) |-> m[p]]]

Tops(i) == [s \in Segment |-> Len(i[s].dat)]

\* _ce_image_blit: the loom as the two images fill it.
Blit(i) ==
  [p \in Page |->
    IF p < Len(i["nor"].dat) THEN i["nor"].dat[p + 1]
    ELSE IF Pages - p <= Len(i["sou"].dat) THEN i["sou"].dat[Pages - p] ELSE 0]

Held(i) == State(Tops(i), Blit(i))

\* A write at offset n, past the end of the file too.
WriteAt(f, n, v) ==
  [f EXCEPT !.dat = [j \in 1 .. IF n > Len(f.dat) THEN n ELSE Len(f.dat) |->
                       IF j = n THEN v
                       ELSE IF j <= Len(f.dat) THEN f.dat[j] ELSE 0]]

\* _ce_image_resize: truncate what shrunk; what grew is extended by the writes.
Resize(f, n) == IF Len(f.dat) > n THEN [f EXCEPT !.dat = SubSeq(f.dat, 1, n)] ELSE f

-----------------------------------------------------------------------------
(* The patch.                                                              *)

\* The dirty pages inside the watermarks, and the first of them in the order in which
\* _ce_patch_compose meets them: north upwards, then south downwards.
DirtyPages == Live(top) \cap dit

Meets(p) == IF p < top.nor THEN p ELSE Pages + (Pages - p)

IsNextDirty(p) == p \in DirtyPages /\ \A q \in DirtyPages : Meets(p) <= Meets(q)

\* _ce_patch_read_control and _ce_patch_verify: the control block is whole,
\* and every page in memory.bin has the mug recorded for it.
Verifies(c, m) ==
  /\ c # None /\ m # None
  /\ c.whole
  /\ Len(m.dat) >= Len(c.pag)
  /\ \A i \in 1 .. Len(c.pag) : m.dat[i] = c.mug[i]

\* What applying all of a patch makes of the images.
Applied(i, c, m) ==
  LET t == [nor |-> c.nor, sou |-> c.sou]
      lines(s, n) == {k \in 1 .. Len(c.pag) :
                      SegmentOf(c.pag[k], t) = s /\ OffsetOf(c.pag[k], t) = n}
      page(s, n) == IF lines(s, n) # {} THEN m.dat[CHOOSE k \in lines(s, n) : TRUE]
                    ELSE IF n <= Len(i[s].dat) THEN i[s].dat[n] ELSE 0
  IN  [s \in Segment |-> [dat |-> [n \in 1 .. t[s] |-> page(s, n)], torn |-> FALSE]]

\* What a start would find: the images, after a patch that verifies.
Recovered == Held(IF Verifies(ctl, mem) THEN Applied(img, ctl, mem) ELSE img)

-----------------------------------------------------------------------------
(* Computing.  An event stores to some pages and moves the watermarks; the *)
(* home page is always stored to, and so is a page that enters a segment.  *)

\* Faulty: the home page is taken to be tracked by somebody else.
FaultNotHome(w) == dit' = dit \cup (w \ {Home})

\* u3e_fault, for every page the event stores to.
Fault(w) == dit' = dit \cup w

Watermarks == {t \in [Segment -> 0 .. Pages] : t.sou > 0 /\ t.nor + t.sou <= Pages}

Bound == IF "power" \in fate THEN PowerEve ELSE MaxEve

Entering(t) == {p \in Live(t) : p \notin Live(top) \/ SegmentOf(p, t) # SegmentOf(p, top)}

Compute ==
  /\ at = "idle"
  /\ loom[Home] < Bound
  /\ \E t \in Watermarks, w \in SUBSET Live(top) :
       LET all == w \cup Entering(t) \cup {Home}
       IN  /\ w \subseteq Live(t)
           /\ loom' = [p \in Page |-> IF p \in all THEN loom[Home] + 1 ELSE loom[p]]
           /\ top' = t
           /\ Fault(all)
  /\ UNCHANGED <<fate, at, live, pgc, img, dsk, patch>>

\* u3u_meld, u3u_cram: the loom is written anew, untracked, and fouled after.
Meld ==
  /\ at = "idle"
  /\ loom[Home] < Bound
  /\ \E t \in Watermarks :
       /\ top' = t
       /\ loom' = [p \in Page |-> IF p \in Live(t) THEN loom[Home] + 1 ELSE loom[p]]
  /\ dit' = Page
  /\ UNCHANGED <<fate, at, live, pgc, img, dsk, patch>>

-----------------------------------------------------------------------------
(* u3e_save, first half: _ce_patch_compose and _ce_patch_sync.             *)

\* The directory as it is, noted where a power loss may undo the next step.
Noted == IF "power" \in fate THEN jrn \cup {<<ctl, mem>>} ELSE jrn

\* The process dies: what was in memory is gone.
Gone == /\ at' = "down" /\ live' = FALSE /\ pgc' = 0
        /\ loom' = Loom0 /\ top' = Fresh0 /\ dit' = {}

NewControl ==
  [whole |-> FALSE, syn |-> FALSE, nor |-> 0, sou |-> 0, pag |-> <<>>, mug |-> <<>>]

\* _ce_patch_create opens with O_EXCL: a file left behind is an assertion.
CreateControl ==
  /\ at = "idle" /\ DirtyPages # {}
  /\ IF ctl # None THEN Gone /\ UNCHANGED <<ctl, jrn>>
     ELSE /\ ctl' = NewControl /\ jrn' = Noted
          /\ at' = "memory"
          /\ UNCHANGED <<live, core, pgc>>
  /\ UNCHANGED <<fate, img, dsk, mem>>

CreateMemory ==
  /\ at = "memory"
  /\ IF mem # None THEN Gone /\ UNCHANGED <<ctl, mem, jrn>>
     ELSE /\ mem' = [syn |-> FALSE, dat |-> <<>>] /\ jrn' = Noted
          /\ at' = "pages"
          /\ UNCHANGED <<ctl, live, core, pgc>>
  /\ UNCHANGED <<fate, img, dsk>>

\* _ce_patch_save_page; the lines are kept in memory until the last page.
SavePage ==
  /\ at = "pages"
  /\ \E p \in Page :
       /\ IsNextDirty(p)
       /\ mem' = [mem EXCEPT !.dat = Append(@, loom[p])]
       /\ ctl' = [ctl EXCEPT !.pag = Append(@, p), !.mug = Append(@, loom[p])]
       /\ dit' = dit \ {p}
  /\ UNCHANGED <<fate, at, live, loom, top, pgc, img, dsk, jrn>>

\* _ce_patch_write_control
WriteControl ==
  /\ at = "pages" /\ DirtyPages = {}
  /\ ctl' = [ctl EXCEPT !.whole = TRUE, !.nor = top.nor, !.sou = top.sou]
  /\ at' = "syncC"
  /\ UNCHANGED <<fate, live, core, pgc, img, dsk, mem, jrn>>

SyncControl ==
  /\ at = "syncC"
  /\ ctl' = [ctl EXCEPT !.syn = TRUE] /\ jrn' = {}
  /\ at' = "syncM"
  /\ UNCHANGED <<fate, live, core, pgc, img, dsk, mem>>

\* The second sync, then the check that the patch can be read back.
SyncMemory ==
  /\ at = "syncM"
  /\ mem' = [mem EXCEPT !.syn = TRUE] /\ jrn' = {}
  /\ IF Verifies(ctl, mem) THEN at' = "trimN" /\ UNCHANGED <<live, core, pgc>>
     ELSE Gone
  /\ UNCHANGED <<fate, img, dsk, ctl>>

-----------------------------------------------------------------------------
(* _ce_patch_apply, _ce_image_sync and _ce_patch_delete, for a save and    *)
(* for a start that found a patch.                                         *)

TrimNorth ==
  /\ at = "trimN"
  /\ img' = [img EXCEPT !["nor"] = Resize(@, ctl.nor)]
  /\ at' = "trimS"
  /\ UNCHANGED <<fate, live, core, pgc, dsk, patch>>

TrimSouth ==
  /\ at = "trimS"
  /\ img' = [img EXCEPT !["sou"] = Resize(@, ctl.sou)]
  /\ at' = "apply" /\ pgc' = 1
  /\ UNCHANGED <<fate, live, core, dsk, patch>>

PatchTops == [nor |-> ctl.nor, sou |-> ctl.sou]

ApplyPage ==
  /\ at = "apply" /\ pgc <= Len(ctl.pag)
  /\ LET p == ctl.pag[pgc]
     IN  img' = [img EXCEPT ![SegmentOf(p, PatchTops)] =
                   WriteAt(@, OffsetOf(p, PatchTops), mem.dat[pgc])]
  /\ pgc' = pgc + 1
  /\ UNCHANGED <<fate, at, live, core, dsk, patch>>

SyncNorth ==
  /\ at = "apply" /\ pgc > Len(ctl.pag)
  /\ dsk' = [dsk EXCEPT !["nor"] = img["nor"]] /\ jrn' = {}
  /\ at' = "syncS"
  /\ UNCHANGED <<fate, live, core, pgc, img, ctl, mem>>

\* Faulty: only the north image is synced.
SyncSouthSkipped ==
  /\ at = "syncS"
  /\ at' = "dropC"
  /\ UNCHANGED <<fate, live, core, pgc, img, dsk, patch>>

SyncSouth ==
  /\ at = "syncS"
  /\ dsk' = [dsk EXCEPT !["sou"] = img["sou"]] /\ jrn' = {}
  /\ at' = "dropC"
  /\ UNCHANGED <<fate, live, core, pgc, img, ctl, mem>>

DropControl ==
  /\ at = "dropC"
  /\ ctl' = None
  /\ jrn' = IF ctl = None THEN jrn ELSE Noted
  /\ at' = "dropM" /\ pgc' = 0
  /\ UNCHANGED <<fate, live, core, img, dsk, mem>>

DropMemory ==
  /\ at = "dropM"
  /\ mem' = None
  /\ jrn' = IF mem = None THEN jrn ELSE Noted
  /\ at' = IF live THEN "idle" ELSE "load"
  /\ UNCHANGED <<fate, live, core, pgc, img, dsk, ctl>>

-----------------------------------------------------------------------------
(* u3e_live.                                                               *)

\* _ce_image_open, then _ce_patch_open: a patch that does not verify is
\* deleted, and memory.bin without control.bin is not looked at.
Boot ==
  /\ at = "down"
  /\ at' = IF \E s \in Segment : img[s].torn THEN "refused"
           ELSE IF ctl = None THEN "load"
           ELSE IF Verifies(ctl, mem) THEN "trimN" ELSE "dropC"
  /\ UNCHANGED <<fate, live, core, pgc, img, dsk, patch>>

\* u3e_foul and _ce_image_blit, then u3m_pave on a loom with or without images.
Load ==
  /\ at = "load" /\ at' = "idle" /\ live' = TRUE
  /\ loom' = Blit(img)
  /\ top' = IF img = NoImage THEN Fresh0 ELSE Tops(img)
  /\ dit' = Page \ (IF img = NoImage THEN {} ELSE Live(Tops(img)))
  /\ UNCHANGED <<fate, pgc, img, dsk, patch>>

-----------------------------------------------------------------------------
(* Failures.                                                               *)

\* A write at offset n that is cut: nothing, or a part of one page.
Cut(f, n) == {f, IF n <= Len(f.dat) THEN [f EXCEPT !.dat[n] = Bad]
                 ELSE [f EXCEPT !.torn = TRUE]}

\* The process is killed, perhaps within a write; the files stay as they are.
Kill ==
  /\ "kill" \in fate
  /\ at \notin {"down", "refused"}
  /\ Gone
  /\ \/ UNCHANGED <<img, mem>>
     \/ /\ at = "pages" /\ DirtyPages # {}
        /\ mem' = [mem EXCEPT !.dat = Append(@, Bad)]
        /\ UNCHANGED img
     \/ /\ at = "apply" /\ pgc <= Len(ctl.pag)
        /\ LET s == SegmentOf(ctl.pag[pgc], PatchTops)
               n == OffsetOf(ctl.pag[pgc], PatchTops)
           IN  \E f \in Cut(img[s], n) : img' = [img EXCEPT ![s] = f]
        /\ UNCHANGED mem
  /\ UNCHANGED <<fate, dsk, ctl, jrn>>

\* Pages whose write was not synced: the old page, the new one, or neither.
Mixed(old, new) ==
  LET o == Len(old.dat)
      n == Len(new.dat)
      may(i) == IF i <= o /\ i <= n THEN
                  IF old.dat[i] = new.dat[i] THEN {old.dat[i]}
                  ELSE {old.dat[i], new.dat[i], Bad}
                ELSE IF i <= o THEN {old.dat[i]} ELSE {new.dat[i], Bad}
      len == {k \in 0 .. Pages : (o <= k /\ k <= n) \/ (n <= k /\ k <= o)}
  IN  UNION {[dat : {x \in [1 .. k -> Data] : \A i \in 1 .. k : x[i] \in may(i)},
              torn : IF k < n THEN BOOLEAN ELSE {new.torn}] : k \in len}

\* control.bin and memory.bin, whose writes may not have been synced.
LostControl(c) ==
  IF c = None \/ c.syn THEN {c}
  ELSE {[c EXCEPT !.syn = TRUE], [c EXCEPT !.syn = TRUE, !.whole = FALSE]}

LostMemory(m) ==
  IF m = None \/ m.syn THEN {m}
  ELSE {[syn |-> TRUE, dat |-> m.dat]}
       \cup {[syn |-> TRUE, dat |-> [m.dat EXCEPT ![i] = Bad]] : i \in 1 .. Len(m.dat)}

\* The machine stops: unsynced files hold anything between their old and
\* their new contents, and the newest steps on the directory may be undone.
PowerLoss ==
  /\ "power" \in fate
  /\ at # "refused"
  /\ Gone
  /\ \E d \in jrn \cup {<<ctl, mem>>} :
       ctl' \in LostControl(d[1]) /\ mem' \in LostMemory(d[2])
  /\ \E n \in Mixed(dsk["nor"], img["nor"]), s \in Mixed(dsk["sou"], img["sou"]) :
       img' = [x \in Segment |-> IF x = "nor" THEN n ELSE s]
  /\ dsk' = img'
  /\ jrn' = {}
  /\ UNCHANGED fate

-----------------------------------------------------------------------------
SnapInit ==
  /\ fate \in Fates
  /\ at = "down" /\ live = FALSE /\ pgc = 0
  /\ loom = Loom0 /\ top = Fresh0 /\ dit = {}
  /\ img = NoImage /\ dsk = NoImage
  /\ ctl = None /\ mem = None /\ jrn = {}

Save  == CreateControl \/ CreateMemory \/ SavePage \/ WriteControl \/ SyncControl \/ SyncMemory
Apply == TrimNorth \/ TrimSouth \/ ApplyPage \/ SyncNorth \/ SyncSouth
         \/ DropControl \/ DropMemory

SnapNext == Compute \/ Meld \/ Save \/ Apply \/ Boot \/ Load \/ Kill \/ PowerLoss

SnapSpec == SnapInit /\ [][SnapNext]_snapVars

-----------------------------------------------------------------------------
(* Properties.                                                             *)

Images == [Segment -> [dat : Seq(Data), torn : BOOLEAN]]

ControlType ==
  [whole : BOOLEAN, syn : BOOLEAN, nor : 0 .. Pages, sou : 0 .. Pages,
   pag : Seq(Page), mug : Seq(Data)]

MemoryType == [syn : BOOLEAN, dat : Seq(Data)]

\* Types, and that no page which was cut within a write is ever computed with
\* (u3e_live, noun/events.c).
SnapTypeOK ==
  /\ fate \in Fates
  /\ at \in {"down", "refused", "load", "idle", "memory", "pages", "syncC", "syncM",
             "trimN", "trimS", "apply", "syncS", "dropC", "dropM"}
  /\ live \in BOOLEAN
  /\ loom \in [Page -> Data \ {Bad}]
  /\ top \in [Segment -> 0 .. Pages]
  /\ dit \subseteq Page
  /\ pgc \in Nat
  /\ img \in Images /\ dsk \in Images
  /\ ctl = None \/ ctl \in ControlType
  /\ mem = None \/ mem \in MemoryType
  /\ jrn \subseteq (({None} \cup ControlType) \X ({None} \cup MemoryType))

\* Between saves, every page in use that is not marked dirty is in its image
\* file, at its offset, as it is in memory: a page that left a segment and
\* came back, or that changed sides, is not skipped by the next save
\* (_ce_patch_compose writes only dirty pages; u3e_fault marks them).
CleanPagesAreSaved ==
  /\ SnapTypeOK
  /\ at = "idle" =>
       \A p \in Live(top) \ dit :
         /\ OffsetOf(p, top) \in DOMAIN img[SegmentOf(p, top)].dat
         /\ img[SegmentOf(p, top)].dat[OffsetOf(p, top)] = loom[p]

\* u3e_save and u3e_live keep the promise of Checkpoint: wherever the process
\* is killed or the machine stops, the next start continues from exactly the
\* memory of the last save or of the one that was under way.
CkptDown == [down |-> TRUE]

Ckpt == INSTANCE Checkpoint WITH
  Down  <- CkptDown,
  Empty <- Held(NoImage),
  Fresh <- State(Fresh0, Loom0),
  cur   <- IF live THEN State(top, loom) ELSE CkptDown,
  ckpt  <- IF at \in {"memory", "pages", "syncC", "syncM"} THEN Held(img) ELSE Recovered

CheckpointSpec == Ckpt!CkptSpec
=============================================================================
