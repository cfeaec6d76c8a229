------------------------------ MODULE PierProofs -----------------------------
(***************************************************************************)
(* The theorems of a pier: that every step keeps the inductive invariant   *)
(* of PierSteps, of which the steps of the serf, of the thread, of a pier  *)
(* at work and of its ends are there and those of its start, of the        *)
(* negotiation, of the drivers and of a replay are here; and what follows. *)
(***************************************************************************)
EXTENDS PierSteps

-----------------------------------------------------------------------------
(* The start of a process.                                                 *)

LEMMA StartInv ==
  ASSUME PierInv, sat = "down", serf = "dead", DiskOpen, LordInit,
         UNCHANGED <<pay, workVars, oops>>,
         \/ sat' = "boot" /\ meta = 0
         \/ sat' = "init" /\ meta = MetaKeys /\ LastKey < MaxEve
  PROVE  PierInv'
<1>1. /\ god' = "init" /\ eve' = 0 /\ writs' = <<>> /\ inn' = <<>> /\ out' = <<>>
      /\ serf' = "boot" /\ core' = <<>> /\ snap' = snap /\ fault' = fault
      /\ UNCHANGED <<pay, ova, pec, gifts, rel, walls, effs, oops>>
      /\ open' = "live" /\ sen' = LastKey /\ dun' = LastKey
      /\ UNCHANGED <<db, meta, put, ted, req, red>> /\ LastKey' = LastKey
  BY LastKeySame DEF LordInit, DiskOpen, workVars
<1>2. DiskInv' /\ DiskShape /\ DiskShape'
  BY OpenInv, DiskShaped, DiskShapedNext DEF PierInv
<1>3. open = "closed" /\ put = <<>> /\ red = <<>> /\ ted = "idle" /\ ova = <<>> /\ walls = <<>>
  BY <1>2 DEF PierInv, ModeInv, Works, DiskShape
<1>4. PierTypeOK'
  <2>1. DiskTypeOK'
    BY <1>2 DEF DiskInv
  <2>2. LordTypeOK'
    <3>1. 0 \in 0 .. MaxWord
      BY LordAssumption
    <3>2. <<>> \in Seq(Writ) /\ <<>> \in Seq(Plea) /\ <<>> \in Kernel
      BY DEF Kernel
    <3> QED
      BY <1>1, <3>1, <3>2 DEF PierInv, PierTypeOK, LordTypeOK
  <2> QED
    BY <1>1, <2>1, <2>2 DEF PierInv, PierTypeOK
<1>5. ModeInv'
  BY <1>1, <1>3 DEF ModeInv, Works
<1>6. NewInv'
  <2>1. meta < MetaKeys => LastKey = 0
    BY DEF PierInv, NewInv
  <2>2. ASSUME meta = 0 PROVE LastKey = 0 /\ snap = <<>>
    <3>1. LastKey = 0
      BY <2>1, <2>2 DEF MetaKeys
    <3>2. snap \in Seq(Job) /\ Len(snap) <= 0 /\ Len(snap) \in Nat
      BY <3>1, LenProperties DEF PierInv, AgreeInv, PierTypeOK, LordTypeOK, Kernel
    <3>3. Len(snap) = 0
      BY <3>2
    <3> QED
      BY <3>1, <3>2, <3>3, EmptySeq
  <2>3. MetaKeys = 4
    BY DEF MetaKeys
  <2> QED
    BY <1>1, <2>1, <2>2, <2>3 DEF NewInv
<1>7. PipesInv' /\ MatchInv' /\ WritsInv' /\ InnInv' /\ WorkInv' /\ PlayInv' /\ BatchInv'
  BY <1>1 DEF PipesInv, MatchInv, WritsInv, InnInv, WorkInv, PlayInv, BatchInv
<1>8. AgreeInv'
  BY <1>1 DEF PierInv, AgreeInv, Agrees
<1>9. GiftInv' /\ WallInv' /\ OopsInv'
  BY <1>1, <1>3 DEF PierInv, GiftInv, WallInv, OopsInv, Works
<1>10. EffsInv'
  BY <1>1 DEF PierInv, EffsInv, Works
<1>11. BoundInv'
  <2>1. LastKey \in Nat /\ LastKey < MaxEve /\ LastKey <= MaxEve
    <3>1. LastKey \in Nat
      BY <1>2 DEF DiskShape
    <3>2. CASE meta = 0
      <4>1. LastKey = 0
        BY <3>2 DEF PierInv, NewInv, MetaKeys
      <4>2. 0 < MaxEve
        BY PierAssumption, LenProperties, EventsAssumption
      <4> QED
        BY <4>1, <4>2, EventsAssumption
    <3>3. CASE LastKey < MaxEve
      BY <3>1, <3>3, EventsAssumption
    <3> QED
      BY <3>1, <3>2, <3>3
  <2>2. \E b : Budget(<<>>, 0, b) /\ b[0] = MaxEve
    <3> DEFINE ns == <<>>
               n  == 0
    <3>1. n \in 0 .. MaxEve /\ ns \in Seq(Writ) /\ Len(ns) = 0
      BY EventsAssumption
    <3> HIDE DEF ns, n
    <3>2. \A i \in 1 .. Len(ns) : ns[i].typ = "exit"
      BY <3>1
    <3>3. \E b : Budget(ns, n, b) /\ b[Len(ns)] = MaxEve
      BY ONLY <3>1, <3>2, BudgetRests, Zenon
    <3> QED
      BY <3>1, <3>3 DEF ns, n
  <2>3. MaxEve + 0 <= MaxEve
    BY EventsAssumption
  <2> QED
    BY <1>1, <1>3, <2>1, <2>2, <2>3 DEF BoundInv
<1> QED
  BY <1>2, <1>4, <1>5, <1>6, <1>7, <1>8, <1>9, <1>10, <1>11 DEF PierInv

\* A queue that is acknowledged is in no thread.
LEMMA RestIsIdle ==
  ASSUME DiskInv, sen = dun
  PROVE  ted = "idle" /\ put = <<>>
<1>1. DiskShape
  BY DiskShaped
<1>2. ted = "idle"
  <2>1. SUFFICES ASSUME ted # "idle" PROVE FALSE
    OBVIOUS
  <2>2. PICK n \in 1 .. Len(put) : dun + n <= sen
    BY <2>1, BatchOfQueue DEF BatchShape
  <2> QED
    BY <1>1, <2>2 DEF DiskShape
<1>3. put \in Seq(Fact) /\ Len(put) = 0
  BY <1>1 DEF DiskShape
<1> QED
  BY <1>2, <1>3, EmptySeq

LEMMA BootMetaInv == PierInv /\ BootMeta => PierInv'
<1> SUFFICES ASSUME PierInv, BootMeta PROVE PierInv'
  OBVIOUS
<1>1. /\ sat = "boot" /\ meta < MetaKeys /\ meta' = meta + 1 /\ LastKey' = LastKey
      /\ UNCHANGED <<db, open, sen, dun, put, ted, req, red>>
      /\ UNCHANGED <<god, eve, writs, inn, out, serf, core, snap, fault>>
      /\ UNCHANGED <<sat, pay, ova, pec, gifts, rel, walls, effs, oops>>
  BY LastKeySame DEF BootMeta, DiskSaveMeta, lordVars, pierVars, workVars
<1>2. meta \in 0 .. MetaKeys /\ meta' \in 0 .. MetaKeys /\ (meta' < MetaKeys => meta < MetaKeys)
  BY <1>1 DEF PierInv, DiskInv, DiskTypeOK, MetaKeys
<1>3. DiskInv'
  <2>1. /\ red \in Seq(Read) /\ ted \in {"idle", "queued", "running", "good", "bad"}
        /\ open # "closed"
    BY <1>1 DEF PierInv, DiskInv, DiskTypeOK, ModeInv
  <2> QED
    BY <1>1, <1>2, <2>1, QuietInv DEF PierInv
<1>4. PierTypeOK'
  <2>1. DiskTypeOK'
    BY <1>3 DEF DiskInv
  <2>2. LordTypeOK'
    BY <1>1 DEF PierInv, PierTypeOK, LordTypeOK
  <2> QED
    BY <1>1, <2>1, <2>2 DEF PierInv, PierTypeOK
<1>5. ModeInv' /\ GiftInv' /\ EffsInv' /\ WallInv' /\ OopsInv'
  BY <1>1 DEF PierInv, ModeInv, GiftInv, EffsInv, WallInv, OopsInv, Works
<1>6. NewInv'
  BY <1>1, <1>2 DEF PierInv, NewInv, BatchEnd
<1>7. PipesInv' /\ MatchInv' /\ InnInv'
  BY <1>1 DEF PierInv, PipesInv, MatchInv, InnInv, Sound
<1>8. WritsInv' /\ WorkInv' /\ PlayInv' /\ BatchInv'
  BY <1>1 DEF PierInv, WritsInv, Negotiates, WorkInv, PlayInv, BatchInv
<1>9. AgreeInv'
  BY <1>1 DEF PierInv, AgreeInv, Agrees
<1>10. BoundInv'
  BY <1>1 DEF PierInv, BoundInv
<1> QED
  BY <1>3, <1>4, <1>5, <1>6, <1>7, <1>8, <1>9, <1>10 DEF PierInv

\* _pier_boot_plan: the boot sequence is one batch.
LEMMA BootPlanInv == PierInv /\ BootPlan => PierInv'
<1> SUFFICES ASSUME PierInv, BootPlan PROVE PierInv'
  OBVIOUS
<1>1. /\ sat = "boot" /\ sen = 0 /\ meta = MetaKeys /\ DiskBoot(Pill) /\ dun = 0
      /\ UNCHANGED <<god, eve, writs, inn, out, serf, core, snap, fault>>
      /\ UNCHANGED <<sat, pay, ova, pec, gifts, rel, walls, effs, oops>>
  BY DEF BootPlan, DiskBoot, lordVars, pierVars, workVars
<1> DEFINE n == Len(Pill)
           x == [i \in 1 .. n |-> [eve |-> sen + i, job |-> Pill[i]]]
<1>2. n \in Nat \ {0} /\ n < MaxEve /\ Pill \in [1 .. n -> Job]
  BY PierAssumption, LenProperties
<1>3. ted = "idle" /\ put = <<>> /\ open = "live"
  <2>1. ted = "idle" /\ put = <<>>
    BY <1>1, RestIsIdle DEF PierInv
  <2>2. open \in {"closed", "live", "hung"} /\ open # "closed" /\ open # "hung"
    BY <1>1, <2>1 DEF PierInv, DiskInv, DiskTypeOK, ModeInv
  <2> QED
    BY <2>1, <2>2
<1>4. Enqueue(x)
  BY <1>1 DEF DiskBoot
<1>5. x \in Seq(Fact) /\ Len(x) = n
  <2>1. ASSUME NEW i \in 1 .. n PROVE [eve |-> sen + i, job |-> Pill[i]] \in Fact
    BY <1>1, <1>2 DEF Fact
  <2> QED
    BY <1>2, <2>1
<1>6. DiskInv'
  <2> HIDE DEF n
  <2> QED
    BY <1>1, <1>2, <1>3, BootInv DEF PierInv
<1>7. \A i \in 1 .. n : x[i].eve = i
  BY <1>1, <1>2
<1> HIDE DEF x, n
<1>8. /\ sen' = n /\ DiskCommit(put \o x, sen + Len(x), dun, ted)
      /\ UNCHANGED <<db, meta, open, dun, red>> /\ LastKey' = LastKey
  BY <1>1, <1>2, <1>4, <1>5, LastKeySame DEF Enqueue
<1>9. BatchEnd(req') = n /\ ted' = "queued"
  <2>1. put \o x = x /\ sen + Len(x) = n /\ n > 0 /\ n - 0 = n
    BY <1>1, <1>2, <1>3, <1>5, ConcatEmptySeq
  <2>2. ted' = "queued" /\ req' = [eve |-> x[1].eve, jobs |-> [i \in 1 .. n |-> x[i].job]]
    BY <1>1, <1>3, <1>8, <2>1 DEF DiskCommit
  <2>3. x[1].eve = 1 /\ Len([i \in 1 .. n |-> x[i].job]) = n
    BY <1>2, <1>7
  <2>4. BatchEnd(req') = 1 + n - 1
    BY <2>2, <2>3 DEF BatchEnd
  <2> QED
    BY <1>2, <2>2, <2>4
<1>10. god # "live" /\ snap = <<>> /\ core = <<>> /\ writs = <<>> /\ inn = <<>> /\ eve = 0
  BY <1>1 DEF PierInv, NewInv
<1>11. PierTypeOK'
  <2>1. DiskTypeOK'
    BY <1>6 DEF DiskInv
  <2>2. LordTypeOK'
    BY <1>1 DEF PierInv, PierTypeOK, LordTypeOK
  <2> QED
    BY <1>1, <2>1, <2>2 DEF PierInv, PierTypeOK
<1>12. ModeInv'
  BY <1>1, <1>3, <1>8 DEF PierInv, ModeInv, Works
<1>13. NewInv'
  BY <1>1, <1>8, <1>9, <1>10 DEF NewInv, MetaKeys
<1>14. PipesInv' /\ MatchInv' /\ WritsInv' /\ WorkInv' /\ PlayInv' /\ BatchInv' /\ InnInv'
  <2>1. PipesInv'
    BY <1>1 DEF PierInv, PipesInv
  <2>2. MatchInv' /\ WritsInv' /\ WorkInv' /\ PlayInv' /\ BatchInv' /\ InnInv'
    BY <1>1, <1>10 DEF MatchInv, WritsInv, WorkInv, PlayInv, BatchInv, InnInv
  <2> QED
    BY <2>1, <2>2
<1>15. AgreeInv'
  BY <1>1, <1>8, <1>10 DEF PierInv, AgreeInv, Agrees
<1>16. GiftInv' /\ EffsInv' /\ WallInv' /\ OopsInv'
  <2>1. walls = <<>>
    BY <1>1 DEF PierInv, ModeInv, Works
  <2> QED
    BY <1>1, <1>8, <2>1 DEF PierInv, GiftInv, EffsInv, WallInv, OopsInv, Works
<1>17. BoundInv'
  <2>1. n <= MaxEve
    BY <1>2, EventsAssumption
  <2> QED
    BY <1>1, <1>2, <1>8, <2>1 DEF PierInv, BoundInv
<1> QED
  BY <1>6, <1>11, <1>12, <1>13, <1>14, <1>15, <1>16, <1>17 DEF PierInv

LEMMA BootsInv == PierInv /\ Boots => PierInv'
<1>1. PierInv /\ KingBoot => PierInv'
  BY StartInv DEF KingBoot
<1>2. PierInv /\ KingStay => PierInv'
  BY StartInv DEF KingStay
<1> QED
  BY <1>1, <1>2, BootMetaInv, BootPlanInv DEF Boots

-----------------------------------------------------------------------------
(* The drivers, and the request to exit.                                   *)

\* A step at work that leaves the log and the serf alone.
LEMMA WorkFrameInv ==
  ASSUME PierInv, Loop, Works, UNCHANGED <<diskVars, lordRest, pay, gifts, rel, effs, oops>>,
         sat' \in {"work", "done"},
         ova' \in Seq(Ova), pec' \in Nat, walls' \in Seq({"save", "exit"}),
         LordTypeOK', PipesInv', MatchInv', InnInv', WritsInv', WorkInv', WallInv', BoundInv'
  PROVE  PierInv'
<1>1. /\ UNCHANGED <<db, meta, open, sen, dun, put, ted, req, red>>
      /\ UNCHANGED <<god, eve, out, serf, core, snap, fault>>
      /\ UNCHANGED <<pay, gifts, rel, effs, oops>> /\ LastKey' = LastKey
      /\ sat \in {"work", "done"}
  BY LastKeySame DEF diskVars, lordRest, Works
<1>2. DiskInv' /\ DiskShape'
  BY DiskSame, DiskShapedNext DEF PierInv
<1>3. god = "live" /\ open = "live"
  BY WorkingIs
<1>4. PierTypeOK'
  <2>1. DiskTypeOK'
    BY <1>2 DEF DiskInv
  <2> QED
    BY <1>1, <2>1 DEF PierInv, PierTypeOK
<1>5. ModeInv' /\ NewInv'
  <2>1. red = <<>> /\ ~(meta < MetaKeys)
    BY <1>1 DEF PierInv, ModeInv, NewInv
  <2>2. ModeInv'
    BY <1>1, <1>3, <2>1 DEF ModeInv, Works
  <2> QED
    BY <1>1, <2>1, <2>2 DEF NewInv
<1>6. PlayInv' /\ BatchInv' /\ GiftInv' /\ EffsInv' /\ OopsInv'
  <2>1. PlayInv' /\ BatchInv'
    BY <1>1 DEF PlayInv, BatchInv
  <2>2. GiftInv' /\ EffsInv' /\ OopsInv'
    BY <1>1 DEF PierInv, GiftInv, EffsInv, OopsInv, Works
  <2> QED
    BY <2>1, <2>2
<1>7. AgreeInv'
  <2>1. EventsAhead'
    BY <1>1, <1>2, <1>3, <1>4, <1>5, <1>6, EventsAreAheadNext
  <2>2. Agrees(core)'
    BY <1>1 DEF PierInv, AgreeInv, Agrees
  <2> QED
    BY <1>1, <2>1, <2>2, AgreeNext
<1> QED
  BY <1>2, <1>4, <1>5, <1>6, <1>7 DEF PierInv

\* The same of a step that sends nothing and plans no event.
LEMMA QuietFrameInv ==
  ASSUME PierInv, Loop, Works,
         UNCHANGED <<diskVars, lordVars, pay, ova, gifts, rel, effs, oops>>,
         sat' \in {"work", "done"}, pec' \in Nat, walls' \in Seq({"save", "exit"}), WallInv'
  PROVE  PierInv'
<1>1. /\ UNCHANGED <<diskVars, lordRest, pay, gifts, rel, effs, oops>>
      /\ UNCHANGED <<god, eve, writs, inn, out, serf, core, snap, fault>>
      /\ UNCHANGED <<db, sen, dun, ova>> /\ LastKey' = LastKey
      /\ sat \in {"work", "done"}
  BY LastKeySame DEF lordVars, lordRest, diskVars, Works
<1>2. ova' \in Seq(Ova)
  BY <1>1 DEF PierInv, PierTypeOK
<1>3. LordTypeOK'
  BY <1>1 DEF PierInv, PierTypeOK, LordTypeOK
<1>4. PipesInv' /\ MatchInv' /\ InnInv'
  BY <1>1 DEF PierInv, PipesInv, MatchInv, InnInv, Sound
<1>5. WritsInv' /\ WorkInv'
  BY <1>1 DEF PierInv, WritsInv, WorkInv, Negotiates
<1>6. BoundInv'
  BY <1>1 DEF PierInv, BoundInv
<1> QED
  BY <1>1, <1>2, <1>3, <1>4, <1>5, <1>6, WorkFrameInv

LEMMA WorkingWorks == Working => Loop /\ Works
BY DEF Working, Works

\* u3_pier_peek.
LEMMA PlanPeekInv == PierInv /\ PlanPeek => PierInv'
<1> SUFFICES ASSUME PierInv, PlanPeek PROVE PierInv'
  OBVIOUS
<1>1. /\ Loop /\ Works /\ pec' = pec + 1
      /\ UNCHANGED <<diskVars, lordVars, sat, pay, ova, gifts, rel, walls, effs, oops>>
  BY WorkingWorks DEF PlanPeek
<1>2. pec' \in Nat /\ walls' \in Seq({"save", "exit"}) /\ sat' \in {"work", "done"}
  BY <1>1 DEF PierInv, PierTypeOK, Works
<1>3. WallInv'
  BY <1>1 DEF PierInv, WallInv, diskVars, lordVars
<1> QED
  BY <1>1, <1>2, <1>3, QuietFrameInv

\* The save timer.
LEMMA SaveTimerInv == PierInv /\ SaveTimer => PierInv'
<1> SUFFICES ASSUME PierInv, SaveTimer PROVE PierInv'
  OBVIOUS
<1>1. /\ Loop /\ Works /\ sat = "work" /\ walls' = Append(walls, "save")
      /\ UNCHANGED <<diskVars, lordVars, sat, pay, ova, pec, gifts, rel, effs, oops>>
  BY WorkingWorks DEF SaveTimer
<1>2. pec' \in Nat /\ walls \in Seq({"save", "exit"})
  BY <1>1 DEF PierInv, PierTypeOK
<1>3. /\ walls' \in Seq({"save", "exit"}) /\ Len(walls') = Len(walls) + 1 /\ Len(walls) \in Nat
      /\ walls'[Len(walls) + 1] = "save" /\ \A i \in 1 .. Len(walls) : walls'[i] = walls[i]
  BY <1>1, <1>2, AppendProperties, LenProperties
<1>4. \A i \in 1 .. Len(walls') : walls'[i] = "save"
  <2>1. \A i \in 1 .. Len(walls) : walls[i] = "save"
    BY <1>1 DEF PierInv, WallInv
  <2> QED
    BY <1>3, <2>1
<1>5. WallInv'
  <2>1. 1 \in 1 .. Len(walls')
    BY <1>3
  <2> QED
    BY <1>4, <2>1 DEF WallInv
<1> QED
  BY <1>1, <1>2, <1>3, <1>5, QuietFrameInv

\* u3_pier_exit at work.
LEMMA KingExitWork ==
  ASSUME PierInv, Loop, sat = "work", sat' = "done", walls' = walls \o <<"save", "exit">>,
         UNCHANGED <<diskVars, lordVars, pay, ova, pec, gifts, rel, effs, oops>>
  PROVE  PierInv'
<1>1. Works
  BY DEF Works
<1>2. pec' \in Nat /\ walls \in Seq({"save", "exit"})
  BY DEF PierInv, PierTypeOK
<1>3. <<"save", "exit">> \in Seq({"save", "exit"}) /\ Len(<<"save", "exit">>) = 2
  OBVIOUS
<1>4. /\ walls' \in Seq({"save", "exit"}) /\ Len(walls') = Len(walls) + 2 /\ Len(walls) \in Nat
      /\ walls'[Len(walls) + 1] = "save" /\ \A i \in 1 .. Len(walls) : walls'[i] = walls[i]
  <2>1. /\ walls' \in Seq({"save", "exit"}) /\ Len(walls') = Len(walls) + 2 /\ Len(walls) \in Nat
        /\ \A i \in 1 .. 2 : walls'[Len(walls) + i] = <<"save", "exit">>[i]
        /\ \A i \in 1 .. Len(walls) : walls'[i] = walls[i]
    BY <1>2, <1>3, JoinIs
  <2>2. walls'[Len(walls) + 1] = <<"save", "exit">>[1]
    BY <2>1
  <2> QED
    BY <2>1, <2>2
<1>5. \A i \in 1 .. Len(walls) + 1 : walls'[i] = "save"
  <2>1. \A i \in 1 .. Len(walls) : walls[i] = "save"
    BY DEF PierInv, WallInv
  <2> QED
    BY <1>4, <2>1
<1>6. WallInv'
  <2>1. 1 \in 1 .. Len(walls) + 1
    BY <1>4
  <2>2. \A i \in 1 .. Len(walls') : walls'[i] = "exit" => i = Len(walls')
    BY <1>4, <1>5
  <2> QED
    BY <1>5, <2>1, <2>2 DEF WallInv
<1> QED
  BY <1>1, <1>2, <1>4, <1>6, QuietFrameInv

\* u3_auto_plan: the budget of the events that wait is counted anew.
LEMMA PlanOvumInv == PierInv /\ PlanOvum => PierInv'
<1> SUFFICES ASSUME PierInv, PlanOvum PROVE PierInv'
  OBVIOUS
<1>1. /\ Loop /\ Works /\ sen + Len(writs) + Len(ova) < MaxEve
      /\ UNCHANGED <<diskVars, lordVars, sat, pay, pec, gifts, rel, walls, effs, oops>>
  BY WorkingWorks DEF PlanOvum
<1>2. PICK j \in Ova : ova' = Append(ova, j)
  BY DEF PlanOvum
<1>3. /\ UNCHANGED <<diskVars, lordRest, pay, gifts, rel, effs, oops>>
      /\ UNCHANGED <<god, eve, writs, inn, out, serf, core, snap, fault>>
      /\ UNCHANGED <<db, sen, dun, sat, pec, walls>> /\ LastKey' = LastKey
      /\ sat \in {"work", "done"} /\ Negotiates
  BY <1>1, LastKeySame DEF lordVars, lordRest, diskVars, Works, Negotiates
<1>4. ova \in Seq(Ova) /\ pec' \in Nat /\ walls' \in Seq({"save", "exit"})
  BY <1>3 DEF PierInv, PierTypeOK
<1>5. ova' \in Seq(Ova) /\ Len(ova') = Len(ova) + 1 /\ Len(ova) \in Nat
  BY <1>2, <1>4, AppendProperties, LenProperties
<1>6. /\ Len(writs) \in Nat /\ Len(out) \in Nat /\ inn \in Seq(Writ) /\ Len(inn) \in Nat
      /\ Len(core) \in Nat /\ sen \in Nat /\ MaxEve \in Nat /\ out \in Seq(Plea)
      /\ writs \in Seq(Writ)
  BY EventsAssumption, LenProperties DEF PierInv, DiskInv, DiskTypeOK, PierTypeOK, LordTypeOK, Kernel
<1>7. /\ god = "live" /\ eve = sen /\ serf # "boot"
      /\ \E c : Course(out, sen, c) /\ (serf = "up" => Facts(out, writs, core, c))
  BY <1>1, WorkingIs
<1>8. Len(out) <= Len(writs) /\ (serf = "up" => Queued(writs, out, inn))
  BY <1>7 DEF PierInv, MatchInv, Matched
<1>9. PICK c : Course(out, sen, c) /\ (serf = "up" => Facts(out, writs, core, c))
  BY <1>7
<1>10. c[Len(out)] \in 0 .. MaxEve /\ c[Len(out)] <= sen + Len(out)
  <2>1. 0 \in 0 .. Len(out) /\ Len(out) \in 0 .. Len(out) /\ 0 <= Len(out)
    BY <1>6
  <2>2. c[0] = sen /\ c[Len(out)] <= c[0] + (Len(out) - 0) /\ c[Len(out)] \in 0 .. MaxEve
    BY <1>9, <2>1 DEF Course
  <2> QED
    BY <1>6, <2>2
<1>11. WorkInv'
  <2>1. c[Len(out)] + Len(ova') <= MaxEve
    BY <1>1, <1>5, <1>6, <1>8, <1>10
  <2> QED
    BY <1>3, <1>7, <1>9, <2>1 DEF WorkInv
<1>12. BoundInv'
  <2>1. ASSUME serf # "dead"
        PROVE  \E b : Budget(inn, Len(core), b) /\ b[Len(inn)] + Len(ova') <= MaxEve
    <3>1. serf = "up"
      BY <1>7, <2>1 DEF PierInv, PierTypeOK, LordTypeOK
    <3>2. Len(core) = c[Len(out)] /\ Len(writs) = Len(out) + Len(inn)
      BY <1>8, <1>9, <3>1 DEF Facts, Queued
    <3>3. Len(core) + Len(inn) + Len(ova') <= MaxEve /\ Len(core) + Len(inn) <= MaxEve
      BY <1>1, <1>5, <1>6, <1>10, <3>2
    <3>4. ASSUME NEW i \in 1 .. Len(inn) PROVE inn[i].typ # "play"
      <4>1. inn[i] = writs[Len(out) + i] /\ Len(out) + i \in 1 .. Len(writs)
        BY <1>6, <1>8, <3>1, <3>2 DEF Queued
      <4> QED
        BY <1>3, <1>7, <4>1 DEF PierInv, WritsInv
    <3> DEFINE n == Len(core)
    <3>5. n \in Nat /\ inn \in Seq(Writ) /\ n + Len(inn) <= MaxEve
      BY <1>6, <3>3
    <3> HIDE DEF n
    <3>6. \E b : Budget(inn, n, b) /\ b[Len(inn)] = n + Len(inn)
      BY ONLY <3>4, <3>5, BudgetAnew, SMTT(30)
    <3> QED
      BY <3>3, <3>6 DEF n
  <2> QED
    BY <1>3, <2>1 DEF PierInv, BoundInv
<1>13. LordTypeOK' /\ PipesInv' /\ MatchInv' /\ InnInv'
  <2>1. LordTypeOK'
    BY <1>3 DEF PierInv, PierTypeOK, LordTypeOK
  <2>2. PipesInv' /\ MatchInv' /\ InnInv'
    BY <1>3 DEF PierInv, PipesInv, MatchInv, InnInv, Sound
  <2> QED
    BY <2>1, <2>2
<1>14. WritsInv' /\ WallInv'
  BY <1>3 DEF PierInv, WritsInv, Negotiates, WallInv
<1> QED
  BY <1>1, <1>3, <1>4, <1>5, <1>11, <1>12, <1>13, <1>14, WorkFrameInv

\* u3_pier_pack, u3_pier_meld.
LEMMA PlanPackInv == PierInv /\ PlanPack => PierInv'
<1> SUFFICES ASSUME PierInv, PlanPack PROVE PierInv'
  OBVIOUS
<1> DEFINE w  == BareWrit("pack")
           ms == <<w>>
<1>1. /\ Loop /\ Works /\ LordPlan(writs, ms) /\ UNCHANGED <<diskVars, lordRest, pierVars>>
  BY WorkingWorks DEF PlanPack
<1>2. w \in Writ /\ w.typ = "pack"
  BY LordAssumption DEF BareWrit, Writ
<1> HIDE DEF w
<1>3. ms \in Seq(Writ) /\ Len(ms) = 1 /\ ms[1] = w
  BY <1>2
<1> HIDE DEF ms
<1>4. /\ UNCHANGED <<god, eve, out, serf, core, snap, fault>>
      /\ UNCHANGED <<db, meta, open, sen, dun, put, ted, req, red>>
      /\ UNCHANGED <<sat, pay, ova, pec, gifts, rel, walls, effs, oops>> /\ LastKey' = LastKey
      /\ sat \in {"work", "done"} /\ Negotiates
      /\ writs' = writs \o ms /\ inn' = inn \o ms
  BY <1>1, LastKeySame DEF lordRest, diskVars, pierVars, workVars, Works, Negotiates, LordPlan
<1>5. /\ god = "live" /\ eve = sen /\ writs \in Seq(Writ) /\ out \in Seq(Plea) /\ inn \in Seq(Writ)
      /\ \E c : /\ Course(out, sen, c) /\ c[Len(out)] + Len(ova) <= MaxEve
                /\ serf = "up" => Facts(out, writs, core, c)
  BY <1>1, WorkingIs DEF PierInv, PierTypeOK, LordTypeOK
<1>6. ova \in Seq(Ova) /\ pec \in Nat /\ walls \in Seq({"save", "exit"}) /\ eve \in 0 .. MaxWord
  BY DEF PierInv, PierTypeOK, LordTypeOK
<1>7. \A i \in 1 .. Len(ms) : ms[i].typ = "pack"
  BY <1>2, <1>3
<1>8. LordTypeOK' /\ PipesInv' /\ MatchInv' /\ InnInv'
  <2>1. KingHas(writs, out)
    BY <1>5 DEF KingHas
  <2>2. \A i \in 1 .. Len(ms) : Sound(ms[i])
    BY <1>7 DEF Sound
  <2> QED
    BY <1>1, <1>3, <1>4, <1>5, <1>6, <2>1, <2>2, KingSends
<1> DEFINE T == {v \in Writ : /\ v.typ = "work" => Len(v.jobs) = 1
                              /\ v.typ \in {"work", "peek", "save", "pack"}}
           U == {v \in Writ : v.typ # "work"}
<1>9. WritsInv'
  <2>1. \A i \in 1 .. Len(writs) : writs[i] \in T
    BY <1>4, <1>5, ElementOfSeq DEF PierInv, WritsInv
  <2>2. \A i \in 1 .. Len(ms) : ms[i] \in T
    BY <1>3, <1>7, ElementOfSeq
  <2>3. \A i \in 1 .. Len(writs') : writs'[i] \in T
    <3> HIDE DEF T
    <3> QED
      BY <1>3, <1>4, <1>5, <2>1, <2>2, JoinAll
  <2> QED
    BY <1>4, <2>3 DEF WritsInv
<1>10. WorkInv'
  <2>1. PICK c : /\ Course(out, sen, c) /\ c[Len(out)] + Len(ova) <= MaxEve
                 /\ serf = "up" => Facts(out, writs, core, c)
    BY <1>5
  <2>2. Matched(writs, out)
    BY <1>5 DEF PierInv, MatchInv
  <2>3. serf = "up" => Facts(out, writs \o ms, core, c)
    BY <1>3, <1>5, <2>1, <2>2, FactsSend
  <2> QED
    BY <1>4, <1>5, <2>1, <2>3 DEF WorkInv
<1>11. WallInv'
  <2>1. ASSUME walls # <<>>, walls[1] = "exit"
        PROVE  sen = dun /\ \A i \in 1 .. Len(writs') : writs'[i] \in U
    <3>1. sen = dun /\ \A i \in 1 .. Len(writs) : writs[i] \in U
      BY <1>5, <2>1, ElementOfSeq DEF PierInv, WallInv
    <3>2. \A i \in 1 .. Len(ms) : ms[i] \in U
      BY <1>3, <1>7, ElementOfSeq
    <3> HIDE DEF U
    <3> QED
      BY <1>3, <1>4, <1>5, <3>1, <3>2, JoinAll
  <2> QED
    BY <1>4, <2>1 DEF PierInv, WallInv
<1>12. BoundInv'
  <2>1. Len(ova) - Len(ova') = 0 /\ Len(ova') \in Nat /\ Len(ova') <= Len(ova)
    BY <1>4, <1>6, LenProperties
  <2>2. Priced(ms, 0)
    <3>1. Priced(<<>>, 0)
      BY PricedNothing
    <3>2. w \in Writ /\ w.typ # "work" /\ <<>> \in Seq(Writ)
      BY <1>2
    <3>3. Priced(<<w>> \o <<>>, 0)
      BY <3>1, <3>2, PricedKeep
    <3>4. <<w>> \o <<>> = <<w>>
      OBVIOUS
    <3> QED
      BY <3>3, <3>4 DEF ms
  <2>3. \A i \in 1 .. Len(ms) : ms[i].typ # "play"
    BY <1>7
  <2>4. serf' # "dead" =>
           \E b : Budget(inn', Len(core'), b) /\ b[Len(inn')] + Len(ova') <= MaxEve
    BY <1>3, <1>4, <2>1, <2>2, <2>3, BoundSends
  <2> QED
    BY <1>4, <2>4 DEF PierInv, BoundInv
<1> QED
  BY <1>1, <1>4, <1>6, <1>8, <1>9, <1>10, <1>11, <1>12, WorkFrameInv

LEMMA DriversInv == PierInv /\ Drivers => PierInv'
BY PlanOvumInv, PlanPeekInv, PlanPackInv, SaveTimerInv DEF Drivers

-----------------------------------------------------------------------------
(* The early exit: the log is closed, then the serf asked to exit.         *)

\* Writs that are no events bring none.
LEMMA PricedFree ==
  ASSUME NEW ms \in Seq(Writ), \A i \in 1 .. Len(ms) : ms[i].typ # "work"
  PROVE  Priced(ms, 0)
<1> DEFINE g == [i \in 0 .. Len(ms) |-> 0]
<1>1. Len(ms) \in Nat
  BY LenProperties
<1>2. g \in [0 .. Len(ms) -> Nat] /\ \A i \in 0 .. Len(ms) : g[i] = 0
  OBVIOUS
<1> HIDE DEF g
<1>3. g[0] = 0 /\ g[Len(ms)] <= 0
  BY <1>1, <1>2
<1>4. \A i, j \in 0 .. Len(ms) : i <= j => g[i] <= g[j]
  BY <1>2
<1>5. ASSUME NEW i \in 1 .. Len(ms) PROVE g[i - 1] + Cost(ms[i]) <= g[i]
  <2>1. i - 1 \in 0 .. Len(ms) /\ i \in 0 .. Len(ms) /\ Cost(ms[i]) = 0
    BY <1>1 DEF Cost
  <2> QED
    BY <1>2, <2>1
<1> QED
  BY <1>2, <1>3, <1>4, <1>5 DEF Priced

\* What the process leaves of its log.
LEMMA LeaveDisk ==
  ASSUME PierInv, Loop, sat \in {"init", "boot", "play"}, DiskExit
  PROVE  /\ DiskInv' /\ UNCHANGED <<db, meta>> /\ open = "live" /\ sen' \in 0 .. MaxEve
         /\ \/ open' = "closed" /\ sen' = 0 /\ dun' = 0 /\ put' = <<>> /\ red' = <<>>
            \/ /\ open' = "hung" /\ UNCHANGED <<sen, dun, put, ted, red>> /\ red = <<>>
               /\ ted \notin {"idle", "queued"} /\ sat = "boot" /\ sen # dun
<1>1. open = "live"
  BY DEF PierInv, DiskInv, DiskTypeOK, ModeInv, Loop
<1>2. sen \in 0 .. MaxEve
  BY DiskShaped, EventsAssumption DEF PierInv, DiskShape, BoundInv
<1>3. CASE ted \in {"idle", "queued"}
  <2>1. open' = "closed" /\ DiskForget /\ UNCHANGED <<db, meta>>
    BY <1>3 DEF DiskExit
  <2>2. DiskInv'
    BY <1>1, <2>1, ForgetInv DEF PierInv
  <2>3. 0 \in 0 .. MaxEve
    BY EventsAssumption
  <2> QED
    BY <1>1, <2>1, <2>2, <2>3 DEF DiskForget
<1>4. CASE ted \notin {"idle", "queued"}
  <2>1. open' = "hung" /\ UNCHANGED <<db, meta, sen, dun, put, ted, req, red>>
    BY <1>4 DEF DiskExit
  <2>2. DiskInv'
    <3>1. /\ meta \in 0 .. MetaKeys /\ red \in Seq(Read)
          /\ ted \in {"idle", "queued", "running", "good", "bad"}
      BY DEF PierInv, DiskInv, DiskTypeOK
    <3> QED
      BY <1>1, <2>1, <3>1, QuietInv DEF PierInv
  <2>3. sen # dun
    BY <1>4, RestIsIdle DEF PierInv
  <2>4. sat = "boot"
    BY <2>3 DEF PierInv, ModeInv
  <2>5. red = <<>>
    BY <2>4 DEF PierInv, ModeInv
  <2> QED
    BY <1>1, <1>2, <1>4, <2>1, <2>2, <2>3, <2>4, <2>5
<1> QED
  BY <1>3, <1>4

\* _pier_exit before the work loop: the king has heard what leaves it the writs
\* ws and the pleas os, if anything, and sends the writs ms first.
LEMMA LeaveInv ==
  ASSUME PierInv, Loop, sat \in {"init", "boot", "play"},
         NEW ws \in Seq(Writ), NEW os \in Seq(Plea), NEW ms \in Seq(Writ), PierLeave(ws, ms),
         out' = os, eve' \in 0 .. MaxWord, UNCHANGED <<workVars, oops, serf, core, snap, fault>>,
         \/ god' = "live" /\ KingHas(ws, os)
         \/ /\ god' = "init" /\ god = "init" /\ ws = writs /\ os = out /\ ms = <<>>
            /\ ExitStates \cap {"init", "boot"} # {},
         \A i \in 1 .. Len(ms) : Sound(ms[i]) /\ ms[i].typ \notin {"work", "play"},
         \A i \in 1 .. Len(ws) : /\ ws[i].typ # "work"
                                 /\ "play" \notin ExitStates => ws[i].typ # "play"
  PROVE  PierInv'
<1> DEFINE w  == BareWrit("exit")
           ns == IF open' = "hung" THEN ms ELSE Append(ms, w)
<1>1. /\ DiskExit /\ LordPlan(ws, ns) /\ sat' = "gone" /\ pay' = NoPlay
      /\ UNCHANGED <<ova, pec, gifts, rel, walls, effs, oops, serf, core, snap, fault>>
  BY DEF PierLeave, workVars
<1>2. w \in Writ /\ w.typ = "exit"
  BY LordAssumption DEF BareWrit, Writ
<1> HIDE DEF w
<1>3. /\ ns \in Seq(Writ)
      /\ \A i \in 1 .. Len(ns) : /\ Sound(ns[i]) /\ ns[i].typ \notin {"work", "play"}
                                 /\ ms = <<>> => ns[i].typ = "exit"
  <2>1. CASE open' = "hung"
    <3>1. ms = <<>> => Len(ms) = 0
      OBVIOUS
    <3> QED
      BY <2>1, <3>1
  <2>2. CASE open' # "hung"
    <3>1. /\ ns = Append(ms, w) /\ ns \in Seq(Writ) /\ Len(ns) = Len(ms) + 1 /\ Len(ms) \in Nat
          /\ ns[Len(ms) + 1] = w /\ \A i \in 1 .. Len(ms) : ns[i] = ms[i]
      BY <1>2, <2>2, AppendProperties, LenProperties
    <3> HIDE DEF ns
    <3>2. Sound(w)
      BY <1>2 DEF Sound
    <3>3. ms = <<>> => Len(ms) = 0
      OBVIOUS
    <3>4. ASSUME NEW i \in 1 .. Len(ns)
          PROVE  /\ Sound(ns[i]) /\ ns[i].typ \notin {"work", "play"}
                 /\ ms = <<>> => ns[i].typ = "exit"
      <4>1. CASE i \in 1 .. Len(ms)
        BY <3>1, <3>3, <4>1
      <4>2. CASE i \notin 1 .. Len(ms)
        <5>1. i = Len(ms) + 1
          BY <3>1, <4>2
        <5> QED
          BY <1>2, <3>1, <3>2, <5>1
      <4> QED
        BY <4>1, <4>2
    <3> QED
      BY <3>1, <3>4
  <2> QED
    BY <2>1, <2>2
<1> HIDE DEF ns
<1>4. writs' = ws \o ns /\ inn' = inn \o ns
  BY <1>1 DEF LordPlan
<1>5. /\ DiskInv' /\ UNCHANGED <<db, meta>> /\ open = "live" /\ sen' \in 0 .. MaxEve
      /\ \/ open' = "closed" /\ sen' = 0 /\ dun' = 0 /\ put' = <<>> /\ red' = <<>>
         \/ /\ open' = "hung" /\ UNCHANGED <<sen, dun, put, ted, red>> /\ red = <<>>
            /\ ted \notin {"idle", "queued"} /\ sat = "boot" /\ sen # dun
  BY <1>1, LeaveDisk
<1>6. DiskShape /\ DiskShape' /\ LastKey' = LastKey /\ LastKey \in Nat
  BY <1>5, LastKeySame, DiskShaped, DiskShapedNext DEF PierInv, DiskShape
<1>7. ova = <<>> /\ walls = <<>>
  BY DEF PierInv, ModeInv, Works
<1>8. LordTypeOK' /\ PipesInv' /\ MatchInv' /\ InnInv'
  <2>1. CASE god' = "live" /\ KingHas(ws, os)
    BY <1>1, <1>3, <1>5, <2>1, KingSends
  <2>2. CASE god' = "init" /\ god = "init" /\ ws = writs /\ os = out /\ ms = <<>>
    <3>1. writs = <<>> /\ inn = <<>>
      BY <2>2 DEF PierInv, PipesInv
    <3>2. writs' = ns /\ inn' = ns
      BY <1>3, <1>4, <2>2, <3>1, ConcatEmptySeq
    <3>3. LordTypeOK'
      BY <1>1, <1>3, <2>2, <3>2 DEF PierInv, PierTypeOK, LordTypeOK
    <3>4. PipesInv'
      BY <1>1, <1>3, <2>2, <3>2 DEF PierInv, PipesInv
    <3>5. MatchInv'
      BY <2>2 DEF MatchInv
    <3>6. InnInv'
      <4>1. \A i \in 1 .. Len(inn') : inn'[i].typ = "exit"
        BY <1>3, <2>2, <3>2
      <4> QED
        BY <4>1 DEF InnInv, Sound
    <3> QED
      BY <3>3, <3>4, <3>5, <3>6
  <2> QED
    BY <2>1, <2>2
<1>9. PierTypeOK'
  <2>1. DiskTypeOK'
    BY <1>5 DEF DiskInv
  <2>2. NoPlay \in [eve : Nat, sen : Nat, req : Nat, q : Seq(Fact)]
    BY DEF NoPlay
  <2> QED
    BY <1>1, <1>8, <2>1, <2>2 DEF PierInv, PierTypeOK
<1>10. ModeInv'
  <2>1. god' # "none"
    OBVIOUS
  <2>2. ted' = ted \/ open' = "closed"
    BY <1>5
  <2>3. god' = "init" => ExitStates \cap {"init", "boot"} # {}
    OBVIOUS
  <2> QED
    BY <1>1, <1>5, <1>7, <2>1, <2>2, <2>3 DEF ModeInv, Works
<1>11. NewInv'
  <2>1. ~(meta < MetaKeys)
    <3>1. sat = "boot" => sen > 0
      BY DEF Loop
    <3> QED
      BY <3>1 DEF PierInv, NewInv
  <2> QED
    BY <1>1, <1>5, <2>1 DEF NewInv
<1>12. WritsInv'
  <2> DEFINE T == {v \in Writ : v.typ # "work" /\ ("play" \notin ExitStates => v.typ # "play")}
  <2>1. \A i \in 1 .. Len(ws) : ws[i] \in T
    BY ElementOfSeq
  <2>2. \A i \in 1 .. Len(ns) : ns[i] \in T
    BY <1>3, ElementOfSeq
  <2>3. \A i \in 1 .. Len(writs') : writs'[i] \in T
    <3> HIDE DEF T
    <3> QED
      BY <1>3, <1>4, <2>1, <2>2, JoinAll
  <2> QED
    BY <1>1, <2>3 DEF WritsInv, Negotiates
<1>13. WorkInv' /\ PlayInv' /\ BatchInv' /\ GiftInv' /\ WallInv' /\ OopsInv'
  <2>1. WorkInv' /\ PlayInv' /\ BatchInv' /\ GiftInv'
    BY <1>1 DEF WorkInv, PlayInv, BatchInv, GiftInv, Works, Negotiates
  <2>2. WallInv' /\ OopsInv'
    BY <1>1, <1>7 DEF PierInv, WallInv, OopsInv
  <2> QED
    BY <2>1, <2>2
<1>14. EffsInv'
  BY <1>1, <1>6 DEF PierInv, EffsInv, Works
<1>15. AgreeInv'
  <2>1. EventsAhead'
    <3>1. CASE god' = "live"
      BY <1>6, <1>8, <1>9, <1>10, <1>11, <1>12, <1>13, <3>1, EventsAreAheadNext
    <3>2. CASE god' = "init"
      <4>1. \A i \in 1 .. Len(inn') : inn'[i].typ = "exit"
        BY <1>8, <3>2 DEF PipesInv
      <4> QED
        BY <4>1 DEF EventsAhead
    <3> QED
      BY <3>1, <3>2
  <2>2. Agrees(core)'
    <3>1. Agrees(core)
      BY DEF PierInv, AgreeInv
    <3>2. put' = <<>> \/ (put' = put /\ dun' = dun)
      BY <1>5
    <3> QED
      BY <1>1, <1>5, <1>6, <3>1, <3>2 DEF Agrees
  <2> QED
    BY <1>1, <1>5, <2>1, <2>2, AgreeNext
<1>16. BoundInv'
  <2>1. Len(ova) = 0 /\ Len(ova') = 0 /\ Len(ova') \in Nat /\ Len(ova') <= Len(ova)
        /\ Len(ova) - Len(ova') = 0
    BY <1>1, <1>7
  <2>2. Priced(ns, 0)
    BY <1>3, PricedFree
  <2>3. \A i \in 1 .. Len(ns) : ns[i].typ # "play"
    BY <1>3
  <2>4. serf' # "dead" =>
           \E b : Budget(inn', Len(core'), b) /\ b[Len(inn')] + Len(ova') <= MaxEve
    BY <1>1, <1>3, <1>4, <2>1, <2>2, <2>3, BoundSends
  <2>5. sen' <= MaxEve /\ LastKey' <= MaxEve
    BY <1>5, <1>6 DEF PierInv, BoundInv
  <2> QED
    BY <1>1, <2>4, <2>5 DEF BoundInv
<1> QED
  BY <1>5, <1>8, <1>9, <1>10, <1>11, <1>12, <1>13, <1>14, <1>15, <1>16 DEF PierInv

\* u3_pier_exit.
LEMMA KingExitInv == PierInv /\ KingExit => PierInv'
<1> SUFFICES ASSUME PierInv, KingExit PROVE PierInv'
  OBVIOUS
<1>1. /\ Loop /\ sat \in ExitStates /\ sat \in {"init", "boot", "play", "wyrd", "work"}
  BY PierAssumption DEF KingExit
<1>2. CASE sat = "work"
  <2>1. /\ sat' = "done" /\ walls' = walls \o <<"save", "exit">>
        /\ UNCHANGED <<diskVars, lordVars, pay, ova, pec, gifts, rel, effs, oops>>
    BY <1>2 DEF KingExit
  <2> QED
    BY <1>1, <1>2, <2>1, KingExitWork
<1>3. CASE sat \in {"init", "boot", "play"}
  <2>1. PierLeave(writs, <<>>) /\ UNCHANGED <<god, eve, out, serf, core, snap, fault, workVars, oops>>
    BY <1>3 DEF KingExit, lordRest
  <2>2. /\ writs \in Seq(Writ) /\ out \in Seq(Plea) /\ eve' \in 0 .. MaxWord
        /\ god \in {"none", "init", "live"}
    BY <2>1 DEF PierInv, PierTypeOK, LordTypeOK
  <2>3. god # "none"
    BY <1>1, <1>3 DEF PierInv, ModeInv, Loop
  <2>3a. god = "init" => ExitStates \cap {"init", "boot"} # {}
    <3>1. god = "init" => sat # "play"
      BY DEF PierInv, ModeInv
    <3> QED
      BY <1>1, <1>3, <3>1
  <2>4. \/ god' = "live" /\ KingHas(writs, out)
        \/ /\ god' = "init" /\ god = "init" /\ writs = writs /\ out = out /\ <<>> = <<>>
           /\ ExitStates \cap {"init", "boot"} # {}
    BY <2>1, <2>2, <2>3, <2>3a DEF KingHas
  <2>5. \A i \in 1 .. Len(writs) : /\ writs[i].typ # "work"
                                   /\ "play" \notin ExitStates => writs[i].typ # "play"
    <3>1. CASE sat = "init"
      <4>1. writs = <<>>
        BY <3>1 DEF PierInv, ModeInv, PipesInv
      <4> QED
        BY <4>1
    <3>2. CASE sat = "boot"
      BY <3>2 DEF PierInv, NewInv
    <3>3. CASE sat = "play"
      BY <1>1, <3>3 DEF PierInv, BatchInv, Batches
    <3> QED
      BY <1>3, <3>1, <3>2, <3>3
  <2> DEFINE ms == <<>>
  <2>6. ms \in Seq(Writ) /\ Len(ms) = 0 /\ ms = <<>>
    OBVIOUS
  <2>7. PierLeave(writs, ms) /\ out' = out
    BY <2>1
  <2> HIDE DEF ms
  <2>8. \A i \in 1 .. Len(ms) : Sound(ms[i]) /\ ms[i].typ \notin {"work", "play"}
    BY <2>6
  <2> QED
    BY <1>1, <1>3, <2>1, <2>2, <2>4, <2>5, <2>6, <2>7, <2>8, LeaveInv
<1>4. CASE sat = "wyrd"
  <2>1. Abort("exit")
    BY <1>4 DEF KingExit
  <2> QED
    BY <1>1, <1>4, <2>1, AbortInv
<1> QED
  BY <1>1, <1>2, <1>3, <1>4

-----------------------------------------------------------------------------
(* The answers that change nothing, and the start of a read.               *)

\* What the king still waits for after an answer it had been waiting for.
LEMMA TailAll ==
  ASSUME NEW S, NEW s \in Seq(S), s # <<>>, NEW T, \A i \in 1 .. Len(s) : s[i] \in T
  PROVE  \A i \in 1 .. Len(Tail(s)) : Tail(s)[i] \in T
<1>1. /\ Len(s) \in Nat /\ Len(s) >= 1 /\ Len(Tail(s)) = Len(s) - 1
      /\ \A i \in 1 .. Len(s) - 1 : Tail(s)[i] = s[i + 1]
  BY TailIs
<1>2. \A i \in 1 .. Len(s) - 1 : i + 1 \in 1 .. Len(s)
  BY <1>1
<1> QED
  BY <1>1, <1>2

\* An answer is heard by a king whose lord is live.
LEMMA AnswerHeard ==
  ASSUME PierInv, Heard({"work", "peek", "play", "live"})
  PROVE  /\ god = "live" /\ writs \in Seq(Writ) /\ out \in Seq(Plea)
         /\ out # <<>> /\ writs # <<>>
         /\ Head(out) = out[1] /\ Head(writs) = writs[1] /\ out[1] \in Plea /\ writs[1] \in Writ
         /\ Answers(out[1], writs[1]) /\ out[1].typ # "ripe"
         /\ 1 \in 1 .. Len(out) /\ 1 \in 1 .. Len(writs) /\ Len(writs) \in Nat /\ Len(out) \in Nat
         /\ Tail(writs) \in Seq(Writ) /\ Tail(out) \in Seq(Plea)
         /\ KingHas(Tail(writs), Tail(out))
<1>1. writs \in Seq(Writ) /\ out \in Seq(Plea) /\ out # <<>> /\ god # "none"
  BY DEF PierInv, PierTypeOK, LordTypeOK, Heard
<1>2. /\ Head(out) = out[1] /\ out[1] \in Plea /\ Len(out) \in Nat /\ Len(out) >= 1
      /\ Tail(out) \in Seq(Plea)
  BY <1>1, TailIs
<1>3. out[1].typ # "ripe" /\ writs # <<>> /\ Answers(Head(out), Head(writs))
  BY <1>2 DEF Heard
<1>4. /\ Head(writs) = writs[1] /\ writs[1] \in Writ /\ Len(writs) \in Nat /\ Len(writs) >= 1
      /\ Tail(writs) \in Seq(Writ)
  BY <1>1, <1>3, TailIs
<1>5. 1 \in 1 .. Len(out) /\ 1 \in 1 .. Len(writs)
  BY <1>2, <1>4
<1>6. god = "live"
  BY <1>1, <1>3, <1>5 DEF PierInv, PierTypeOK, LordTypeOK, PipesInv
<1>7. KingHas(Tail(writs), Tail(out))
  BY <1>1, <1>3, <1>6 DEF KingHas
<1> QED
  BY <1>1, <1>2, <1>3, <1>4, <1>5, <1>6, <1>7

\* The callbacks of a scry, _pier_on_lord_save, _pier_on_lord_cram.
LEMMA AnsweredInv == PierInv /\ Answered => PierInv'
<1> SUFFICES ASSUME PierInv, Answered PROVE PierInv'
  OBVIOUS
<1>1. Loop /\ Heard({"peek", "live"}) /\ Head(out).typ \in {"peek", "live"}
  BY DEF Answered, Heard
<1>2. /\ god = "live" /\ writs \in Seq(Writ) /\ out \in Seq(Plea)
      /\ out # <<>> /\ writs # <<>>
      /\ Head(out) = out[1] /\ Head(writs) = writs[1] /\ out[1] \in Plea /\ writs[1] \in Writ
      /\ Answers(out[1], writs[1]) /\ out[1].typ # "ripe"
      /\ 1 \in 1 .. Len(out) /\ 1 \in 1 .. Len(writs) /\ Len(writs) \in Nat /\ Len(out) \in Nat
      /\ Tail(writs) \in Seq(Writ) /\ Tail(out) \in Seq(Plea)
      /\ KingHas(Tail(writs), Tail(out))
  <2>1. Heard({"work", "peek", "play", "live"})
    BY <1>1 DEF Heard
  <2> QED
    BY <2>1, AnswerHeard
<1>3. CASE Head(writs).typ = "cram" /\ sat = "play"
  BY <1>1, <1>3, PierBailInv DEF Answered
<1>4. CASE ~(Head(writs).typ = "cram" /\ sat = "play")
  <2>1. LordHear /\ LordPlan(Tail(writs), <<>>) /\ UNCHANGED <<diskVars, pierVars>>
    BY <1>4 DEF Answered
  <2>2. /\ eve' = eve /\ out' = Tail(out) /\ writs' = Tail(writs) /\ inn' = inn
        /\ UNCHANGED <<god, core, snap, serf, fault>>
        /\ UNCHANGED <<db, meta, open, sen, dun, put, ted, req, red>>
        /\ UNCHANGED <<sat, pay, ova, pec, gifts, rel, walls, effs, oops>> /\ LastKey' = LastKey
    <3>1. EveAfter(Head(out), Head(writs)) = eve
      BY <1>1 DEF EveAfter
    <3>2. Tail(writs) \o <<>> = Tail(writs) /\ inn \o <<>> = inn
      BY <1>2, ConcatEmptySeq DEF PierInv, PierTypeOK, LordTypeOK
    <3> QED
      BY <2>1, <3>1, <3>2, LastKeySame DEF LordHear, LordPlan, diskVars, pierVars, workVars
  <2>3. sat \in {"wyrd", "work", "done", "gone"}
    <3>1. sat \in {"down", "init", "boot", "play", "wyrd", "work", "done", "gone"}
      BY DEF PierInv, PierTypeOK
    <3>2. sat # "down" /\ sat # "init"
      BY <1>2 DEF PierInv, ModeInv
    <3>3. sat # "boot"
      BY <1>2 DEF PierInv, NewInv
    <3>4. sat # "play"
      <4>1. writs[1].typ # "play"
        BY <1>1, <1>2 DEF Answers
      <4> QED
        BY <1>2, <1>4, <4>1 DEF PierInv, BatchInv, Batches
    <3> QED
      BY <3>1, <3>2, <3>3, <3>4
  <2>4. DiskInv'
    BY <2>1, DiskSame DEF PierInv
  <2>5. LordTypeOK' /\ PipesInv' /\ MatchInv' /\ InnInv'
    <3> DEFINE ms == <<>>
    <3>1. ms \in Seq(Writ) /\ Len(ms) = 0 /\ LordPlan(Tail(writs), ms)
      BY <2>1
    <3>2. eve' \in 0 .. MaxWord
      BY <2>2 DEF PierInv, PierTypeOK, LordTypeOK
    <3> HIDE DEF ms
    <3>3. \A i \in 1 .. Len(ms) : Sound(ms[i])
      BY <3>1
    <3> QED
      BY <1>2, <2>2, <3>1, <3>2, <3>3, KingSends
  <2>6. PierTypeOK'
    <3>1. DiskTypeOK'
      BY <2>4 DEF DiskInv
    <3> QED
      BY <2>2, <2>5, <3>1 DEF PierInv, PierTypeOK
  <2>7. ModeInv' /\ NewInv'
    <3>1. ModeInv'
      BY <2>2 DEF PierInv, ModeInv, Works
    <3>2. NewInv'
      BY <2>2, <2>3 DEF PierInv, NewInv
    <3> QED
      BY <3>1, <3>2
  <2>8. WritsInv'
    <3> DEFINE T == {v \in Writ : /\ v.typ = "work" => Len(v.jobs) = 1
                                  /\ Negotiates => v.typ \in {"work", "peek", "save", "pack"}
                                  /\ sat = "gone" => /\ v.typ # "work"
                                                     /\ "play" \notin ExitStates => v.typ # "play"}
    <3>1. \A i \in 1 .. Len(writs) : writs[i] \in T
      BY <1>2, ElementOfSeq DEF PierInv, WritsInv
    <3>2. \A i \in 1 .. Len(Tail(writs)) : Tail(writs)[i] \in T
      <4> HIDE DEF T
      <4> QED
        BY <1>2, <3>1, TailAll
    <3> QED
      BY <2>2, <3>2 DEF WritsInv, Negotiates
  <2>9. WorkInv'
    <3> SUFFICES ASSUME Negotiates
                 PROVE  /\ eve = sen
                        /\ \E c : /\ Course(Tail(out), sen, c)
                                  /\ c[Len(Tail(out))] + Len(ova) <= MaxEve
                                  /\ serf = "up" => Facts(Tail(out), Tail(writs), core, c)
      BY <2>2 DEF WorkInv, Negotiates
    <3>1. eve = sen /\ sen \in Nat
      BY <1>2, DiskShaped DEF PierInv, WorkInv, DiskShape
    <3>2. PICK c : /\ Course(out, sen, c) /\ c[Len(out)] + Len(ova) <= MaxEve
                   /\ serf = "up" => Facts(out, writs, core, c)
      BY <1>2 DEF PierInv, WorkInv
    <3>3. Gain(out[1]) = 0
      BY <1>1, <1>2 DEF Gain, Tells
    <3>4. c[1] = sen
      <4>1. c[1] = sen + Gain(out[1])
        BY <1>2, <3>1, <3>2, CourseTail
      <4> QED
        BY <3>1, <3>3, <4>1
    <3>5. PICK d : /\ Course(Tail(out), c[1], d) /\ d[Len(Tail(out))] = c[Len(out)]
                   /\ \A i \in 0 .. Len(out) - 1 : d[i] = c[i + 1]
      BY <1>2, <3>1, <3>2, CourseTail
    <3>6. serf = "up" => Facts(Tail(out), Tail(writs), core, d)
      <4>1. Len(out) <= Len(writs)
        BY <1>2 DEF PierInv, MatchInv, Matched
      <4> QED
        BY <1>2, <3>2, <3>5, <4>1, FactsTail
    <3> QED
      BY <3>1, <3>2, <3>4, <3>5, <3>6
  <2>10. PlayInv' /\ BatchInv' /\ GiftInv' /\ EffsInv' /\ OopsInv'
    <3>1. PlayInv' /\ BatchInv'
      BY <2>2, <2>3 DEF PlayInv, BatchInv
    <3>2. GiftInv' /\ EffsInv' /\ OopsInv'
      BY <2>2 DEF PierInv, GiftInv, EffsInv, OopsInv, Works
    <3> QED
      BY <3>1, <3>2
  <2>11. WallInv'
    <3> DEFINE T == {v \in Writ : v.typ # "work"}
    <3>1. ASSUME walls # <<>>, walls[1] = "exit"
          PROVE  sen = dun /\ \A i \in 1 .. Len(Tail(writs)) : Tail(writs)[i] \in T
      <4>1. sen = dun /\ \A i \in 1 .. Len(writs) : writs[i] \in T
        BY <1>2, <3>1, ElementOfSeq DEF PierInv, WallInv
      <4> HIDE DEF T
      <4> QED
        BY <1>2, <4>1, TailAll
    <3> QED
      BY <2>2, <3>1 DEF PierInv, WallInv
  <2>12. AgreeInv' /\ BoundInv'
    BY <2>2 DEF PierInv, AgreeInv, Agrees, BoundInv
  <2> QED
    BY <2>4, <2>5, <2>6, <2>7, <2>8, <2>9, <2>10, <2>11, <2>12 DEF PierInv
<1> QED
  BY <1>3, <1>4

\* _disk_read_start_cb.
LEMMA ReadStartedInv == PierInv /\ ReadStarted => PierInv'
<1> SUFFICES ASSUME PierInv, ReadStarted PROVE PierInv'
  OBVIOUS
<1>1. PICK k \in DOMAIN red : DiskReadStart(k)
  BY DEF ReadStarted
<1>2. /\ open = "live" /\ red \in Seq(Read) /\ k \in 1 .. Len(red) /\ red[k] \in Read
      /\ red' = [red EXCEPT ![k].sat = "done"]
      /\ UNCHANGED <<db, meta, open, sen, dun, put, ted, req>> /\ LastKey' = LastKey
      /\ UNCHANGED <<god, eve, writs, inn, out, serf, core, snap, fault>>
      /\ UNCHANGED <<sat, pay, ova, pec, gifts, rel, walls, effs, oops>>
  <2>1. open = "live" /\ red \in Seq(Read) /\ k \in 1 .. Len(red)
    BY DEF ReadStarted, PierInv, DiskInv, DiskTypeOK
  <2> QED
    BY <1>1, <2>1, LastKeySame, ElementOfSeq DEF ReadStarted, DiskReadStart, lordVars, pierVars, workVars
<1>3. /\ red' \in Seq(Read) /\ Len(red') = Len(red)
      /\ \A i \in 1 .. Len(red) : red'[i].eve = red[i].eve /\ red'[i].len = red[i].len
  <2>1. [red[k] EXCEPT !.sat = "done"] \in Read
    BY <1>2 DEF Read
  <2>2. red' \in Seq(Read) /\ Len(red') = Len(red)
    BY <1>2, <2>1
  <2>3. ASSUME NEW i \in 1 .. Len(red) PROVE red'[i].eve = red[i].eve /\ red'[i].len = red[i].len
    <3>1. red'[i] = IF i = k THEN [red[k] EXCEPT !.sat = "done"] ELSE red[i]
      BY <1>2
    <3> QED
      BY <1>2, <3>1 DEF Read
  <2> QED
    BY <2>2, <2>3
<1>4. sat = "play" /\ red # <<>> /\ red' # <<>>
  <2>1. red # <<>> /\ red' # <<>>
    BY <1>2, <1>3
  <2> QED
    BY <2>1 DEF PierInv, ModeInv
<1>5. DiskInv'
  <2>1. /\ meta \in 0 .. MetaKeys /\ ted \in {"idle", "queued", "running", "good", "bad"}
    BY DEF PierInv, DiskInv, DiskTypeOK
  <2> QED
    BY <1>2, <1>3, <2>1, QuietInv DEF PierInv
<1>6. PierTypeOK'
  <2>1. DiskTypeOK'
    BY <1>5 DEF DiskInv
  <2>2. LordTypeOK'
    BY <1>2 DEF PierInv, PierTypeOK, LordTypeOK
  <2> QED
    BY <1>2, <2>1, <2>2 DEF PierInv, PierTypeOK
<1>7. ModeInv' /\ NewInv'
  BY <1>2, <1>4 DEF PierInv, ModeInv, NewInv, Works
<1>8. PipesInv' /\ MatchInv' /\ InnInv' /\ AgreeInv'
  BY <1>2 DEF PierInv, PipesInv, MatchInv, InnInv, Sound, AgreeInv, Agrees
<1>9. WritsInv' /\ WorkInv' /\ BatchInv'
  <2>1. NoneFailed' = NoneFailed
    BY <1>2 DEF NoneFailed
  <2> QED
    BY <1>2, <2>1 DEF PierInv, WritsInv, Negotiates, WorkInv, BatchInv
<1>10. PlayInv'
  BY <1>2, <1>3, <1>4 DEF PierInv, PlayInv, Replays
<1>11. GiftInv' /\ EffsInv' /\ WallInv' /\ OopsInv' /\ BoundInv'
  BY <1>2 DEF PierInv, GiftInv, EffsInv, WallInv, OopsInv, BoundInv, Works
<1> QED
  BY <1>5, <1>6, <1>7, <1>8, <1>9, <1>10, <1>11 DEF PierInv

-----------------------------------------------------------------------------
(* The version negotiation.                                                *)

\* One event behind writs that are none.
LEMMA PricedLast ==
  ASSUME NEW ms \in Seq(Writ), NEW w \in Writ, \A i \in 1 .. Len(ms) : ms[i].typ # "work"
  PROVE  Priced(Append(ms, w), 1)
<1> DEFINE t == Append(ms, w)
           n == Len(ms)
           g == [i \in 0 .. n + 1 |-> IF i = n + 1 THEN 1 ELSE 0]
<1>1. /\ Len(t) = n + 1 /\ t[n + 1] = w /\ n \in Nat
      /\ \A i \in 1 .. n : t[i] = ms[i]
  BY AppendProperties, LenProperties
<1> HIDE DEF t
<1>2. \A i \in 1 .. n : t[i].typ # "work"
  BY <1>1
<1> HIDE DEF n
<1>3. g \in [0 .. n + 1 -> Nat] /\ \A i \in 0 .. n + 1 : g[i] = IF i = n + 1 THEN 1 ELSE 0
  BY <1>1
<1> HIDE DEF g
<1>4. g[0] = 0 /\ g[n + 1] = 1
  BY <1>1, <1>3
<1>5. \A i, j \in 0 .. n + 1 : i <= j => g[i] <= g[j]
  BY <1>1, <1>3
<1>6. ASSUME NEW i \in 1 .. n + 1 PROVE g[i - 1] + Cost(t[i]) <= g[i]
  <2>1. i - 1 \in 0 .. n + 1 /\ i \in 0 .. n + 1 /\ i - 1 # n + 1
    BY <1>1
  <2>2. g[i - 1] = 0
    BY <1>3, <2>1
  <2>3. CASE i = n + 1
    <3>1. Cost(t[i]) <= 1 /\ g[i] = 1 /\ Cost(t[i]) \in Nat
      BY <1>4, <2>3 DEF Cost
    <3> QED
      BY <2>2, <3>1
  <2>4. CASE i # n + 1
    <3>1. i \in 1 .. n
      BY <1>1, <2>4
    <3>2. Cost(t[i]) = 0 /\ g[i] = 0
      BY <1>2, <1>3, <2>1, <2>4, <3>1 DEF Cost
    <3> QED
      BY <2>2, <3>2
  <2> QED
    BY <2>3, <2>4
<1>7. Priced(t, 1)
  <2>1. g[Len(t)] <= 1
    BY <1>1, <1>4
  <2> QED
    BY <1>1, <1>3, <1>4, <1>5, <1>6, <2>1 DEF Priced
<1> QED
  BY <1>7 DEF t

\* The budget of writs that a kernel of n events, at rest, is sent.
LEMMA BudgetPriced ==
  ASSUME NEW ns \in Seq(Writ), NEW n \in Nat, NEW m \in Nat, n + m <= MaxEve, Priced(ns, m),
         \A i \in 1 .. Len(ns) : ns[i].typ # "play"
  PROVE  \E b : Budget(ns, n, b) /\ b[Len(ns)] <= n + m
<1>1. PICK g \in [0 .. Len(ns) -> Nat] :
        /\ g[0] = 0 /\ g[Len(ns)] <= m
        /\ \A i, j \in 0 .. Len(ns) : i <= j => g[i] <= g[j]
        /\ \A i \in 1 .. Len(ns) : g[i - 1] + Cost(ns[i]) <= g[i]
  BY DEF Priced
<1> DEFINE l == Len(ns)
           b == [i \in 0 .. l |-> n + g[i]]
<1>2. l \in Nat /\ g \in [0 .. l -> Nat]
  BY LenProperties
<1>3. \A i \in 0 .. l : g[i] \in Nat /\ g[i] <= g[l]
  BY <1>1, <1>2
<1> HIDE DEF l
<1>4. l \in 0 .. l /\ 0 \in 0 .. l /\ g[l] <= m
  BY <1>1, <1>2 DEF l
<1>5. \A i \in 0 .. l : n + g[i] \in 0 .. MaxEve
  BY <1>2, <1>3, <1>4, EventsAssumption
<1>6. b \in [0 .. l -> 0 .. MaxEve] /\ \A i \in 0 .. l : b[i] = n + g[i]
  BY <1>5
<1> HIDE DEF b
<1>7. n <= b[0] /\ b[l] <= n + m
  BY <1>3, <1>4, <1>6
<1>8. ASSUME NEW i \in 0 .. l, NEW j \in 0 .. l, i <= j PROVE b[i] <= b[j]
  <2>1. g[i] <= g[j]
    BY <1>1, <1>8 DEF l
  <2> QED
    BY <1>3, <1>6, <2>1
<1>9. ASSUME NEW i \in 1 .. l PROVE b[i - 1] + Cost(ns[i]) <= b[i]
  <2>1. i - 1 \in 0 .. l /\ i \in 0 .. l /\ Cost(ns[i]) \in Nat
    BY <1>2 DEF Cost
  <2>2. g[i - 1] + Cost(ns[i]) <= g[i]
    BY <1>1 DEF l
  <2>3. b[i - 1] = n + g[i - 1] /\ b[i] = n + g[i] /\ g[i - 1] \in Nat /\ g[i] \in Nat
    BY <1>3, <1>6, <2>1
  <2> QED
    BY <2>1, <2>2, <2>3
<1>10. Budget(ns, n, b)
  BY <1>6, <1>7, <1>8, <1>9 DEF Budget, l
<1> QED
  BY <1>7, <1>10 DEF l

\* _pier_wyrd_init, for a kernel that has come to the end of the log.
LEMMA WyrdInv ==
  ASSUME PierInv, Loop, sat \in {"init", "boot", "play"},
         NEW ws \in Seq(Writ), NEW os \in Seq(Plea), NEW ms \in Seq(Writ), PierWyrd(ws, ms),
         KingHas(ws, os), god' = "live", out' = os, eve' = sen,
         UNCHANGED <<workVars, oops, serf, core, snap, fault>>,
         ws = <<>>, os = <<>>, sen = dun, red = <<>>, serf = "up" => Len(core) = sen,
         \A i \in 1 .. Len(ms) : Sound(ms[i]) /\ ms[i].typ = "save"
  PROVE  PierInv'
<1> DEFINE w  == WorkWrit(Wyrd)
           ns == Append(ms, w)
<1>1. /\ LordPlan(ws, ns) /\ sat' = "wyrd" /\ pay' = NoPlay
      /\ UNCHANGED <<db, meta, open, sen, dun, put, ted, req, red>> /\ UNCHANGED diskVars
      /\ UNCHANGED <<ova, pec, gifts, rel, walls, effs, oops, serf, core, snap, fault>>
      /\ LastKey' = LastKey
  BY LastKeySame DEF PierWyrd, workVars, diskVars
<1>2. w \in Writ /\ w.typ = "work" /\ Len(w.jobs) = 1
  BY PierAssumption, LordAssumption DEF WorkWrit, Writ
<1> HIDE DEF w
<1>3. ns \in Seq(Writ) /\ Len(ns) = Len(ms) + 1 /\ Len(ms) \in Nat
      /\ ns[Len(ms) + 1] = w /\ \A i \in 1 .. Len(ms) : ns[i] = ms[i]
  BY <1>2, AppendProperties, LenProperties
<1>4. Priced(ns, 1)
  BY <1>2, PricedLast
<1> HIDE DEF ns
<1>5. \A i \in 1 .. Len(ns) : /\ Sound(ns[i]) /\ ns[i].typ \in {"save", "work"}
                              /\ ns[i].typ = "work" => Len(ns[i].jobs) = 1
  <2>1. Sound(w)
    BY <1>2 DEF Sound
  <2>2. ASSUME NEW i \in 1 .. Len(ns) PROVE i = Len(ms) + 1 \/ i \in 1 .. Len(ms)
    BY <1>3
  <2> QED
    BY <1>2, <1>3, <2>1, <2>2
<1>6. inn \in Seq(Writ) /\ writs' = ns /\ inn' = inn \o ns
      /\ (serf = "up" => inn = <<>>) /\ serf # "boot"
  <2>1. inn \in Seq(Writ) /\ (serf = "up" => Queued(<<>>, <<>>, inn)) /\ serf # "boot"
    BY KingHasIs
  <2>2. ASSUME serf = "up" PROVE inn = <<>>
    <3>1. Len(<<>>) = Len(<<>>) + Len(inn) /\ Len(inn) \in Nat /\ Len(<<>>) = 0
      BY <2>1, <2>2, LenProperties DEF Queued
    <3>2. Len(inn) = 0
      BY <3>1
    <3> QED
      BY <2>1, <3>2, EmptySeq
  <2> QED
    BY <1>1, <1>3, <2>1, <2>2, ConcatEmptySeq DEF LordPlan
<1>7. open = "live" /\ DiskInv' /\ DiskShape /\ DiskShape' /\ dun = LastKey /\ sen \in 0 .. MaxEve
      /\ sen < MaxEve /\ sen \in Nat
  <2>1. open = "live"
    BY DEF PierInv, DiskInv, DiskTypeOK, ModeInv, Loop
  <2>2. DiskInv' /\ DiskShape /\ DiskShape'
    BY <1>1, DiskSame, DiskShaped, DiskShapedNext DEF PierInv
  <2>3. sen < MaxEve /\ sen \in Nat /\ dun = LastKey
    BY <2>1, <2>2 DEF PierInv, BoundInv, DiskShape
  <2> QED
    BY <2>1, <2>2, <2>3, EventsAssumption
<1>8. ova = <<>> /\ walls = <<>>
  BY DEF PierInv, ModeInv, Works
<1>9. LordTypeOK' /\ PipesInv' /\ MatchInv' /\ InnInv'
  <2>1. eve' \in 0 .. MaxWord
    BY <1>7, EventsAssumption, LordAssumption
  <2> QED
    BY <1>1, <1>3, <1>5, <2>1, KingSends
<1>10. PierTypeOK'
  <2>1. DiskTypeOK'
    BY <1>7 DEF DiskInv
  <2>2. NoPlay \in [eve : Nat, sen : Nat, req : Nat, q : Seq(Fact)]
    BY DEF NoPlay
  <2> QED
    BY <1>1, <1>9, <2>1, <2>2 DEF PierInv, PierTypeOK
<1>11. ModeInv'
  BY <1>1, <1>7, <1>8 DEF ModeInv, Works
<1>12. NewInv'
  <2>1. ~(meta < MetaKeys)
    <3>1. sat = "boot" => sen > 0
      BY DEF Loop
    <3> QED
      BY <3>1 DEF PierInv, NewInv
  <2> QED
    BY <1>1, <2>1 DEF NewInv
<1>13. WritsInv'
  BY <1>1, <1>5, <1>6 DEF WritsInv, Negotiates
<1>14. WorkInv'
  <2>1. PICK c : Course(<<>>, sen, c) /\ c[0] = sen
    BY <1>7, CourseRests
  <2>2. Len(<<>>) = 0 /\ sen + Len(ova) <= MaxEve
    BY <1>7, <1>8, EventsAssumption
  <2>3. serf = "up" => Facts(<<>>, ns, core, c)
    BY <2>1, <2>2 DEF Facts
  <2> QED
    BY <1>1, <1>6, <2>1, <2>2, <2>3 DEF WorkInv
<1>15. PlayInv' /\ BatchInv' /\ GiftInv' /\ EffsInv' /\ WallInv' /\ OopsInv'
  <2>1. PlayInv' /\ BatchInv' /\ GiftInv'
    BY <1>1 DEF PlayInv, BatchInv, GiftInv, Works
  <2>2. EffsInv' /\ WallInv' /\ OopsInv'
    BY <1>1, <1>8 DEF PierInv, EffsInv, WallInv, OopsInv, Works
  <2> QED
    BY <2>1, <2>2
<1>16. AgreeInv'
  <2>1. EventsAhead'
    BY <1>7, <1>9, <1>10, <1>11, <1>12, <1>13, <1>14, <1>15, EventsAreAheadNext
  <2>2. Agrees(core)'
    BY <1>1 DEF PierInv, AgreeInv, Agrees
  <2> QED
    BY <1>1, <2>1, <2>2, AgreeNext
<1>17. BoundInv'
  <2>1. ASSUME serf # "dead"
        PROVE  \E b : Budget(inn', Len(core), b) /\ b[Len(inn')] + Len(ova) <= MaxEve
    <3>1. serf = "up"
      BY <1>6, <2>1 DEF PierInv, PierTypeOK, LordTypeOK
    <3> DEFINE n == Len(core)
    <3>2. n = sen /\ inn' = ns
      BY <1>3, <1>6, <3>1, ConcatEmptySeq
    <3> HIDE DEF n
    <3>3. n \in Nat /\ n + 1 <= MaxEve /\ \A i \in 1 .. Len(ns) : ns[i].typ # "play"
      BY <1>5, <1>7, <3>2, EventsAssumption
    <3>4. PICK b : Budget(ns, n, b) /\ b[Len(ns)] <= n + 1
      BY <1>3, <1>4, <3>3, BudgetPriced
    <3>5. b[Len(ns)] \in 0 .. MaxEve
      <4>1. Len(ns) \in 0 .. Len(ns)
        BY <1>3
      <4> QED
        BY <3>4, <4>1 DEF Budget
    <3>6. b[Len(ns)] + Len(ova) <= MaxEve
      BY <1>8, <3>5, EventsAssumption
    <3> QED
      BY <3>2, <3>4, <3>6 DEF n
  <2>2. sen' <= MaxEve /\ LastKey' <= MaxEve
    BY <1>1 DEF PierInv, BoundInv
  <2> QED
    BY <1>1, <2>1, <2>2 DEF BoundInv
<1> QED
  BY <1>7, <1>9, <1>10, <1>11, <1>12, <1>13, <1>14, <1>15, <1>16, <1>17 DEF PierInv

\* _pier_on_lord_wyrd_done, _pier_on_lord_wyrd_bail: the event that is next.
LEMMA NegotiatedInv == PierInv /\ Negotiated => PierInv'
<1> SUFFICES ASSUME PierInv, Negotiated PROVE PierInv'
  OBVIOUS
<1>1. Loop /\ sat = "wyrd" /\ Heard({"work"})
  BY DEF Negotiated
<1>2. /\ god = "live" /\ eve = sen
      /\ Head(out) = out[1] /\ Head(writs) = writs[1] /\ writs[1].typ = "work"
      /\ KingHas(Tail(writs), Tail(out))
      /\ sen + Gain(out[1]) \in 0 .. MaxEve
      /\ EveAfter(Head(out), Head(writs)) = sen + Gain(out[1])
      /\ Gain(out[1]) = IF Head(out).how = "bail" THEN 0 ELSE 1
      /\ \E c : /\ Course(Tail(out), sen + Gain(out[1]), c)
                /\ c[Len(Tail(out))] + Len(ova) <= MaxEve
                /\ serf = "up" => Facts(Tail(out), Tail(writs), core, c)
      /\ Head(out).how # "bail" =>
           /\ WorkFact \in Fact /\ WorkFact.eve = sen + 1 /\ WorkFact.job \in Job
           /\ WorkFact = [eve |-> sen + 1, job |-> WorkFact.job]
           /\ sen + 1 <= Len(core) => core[sen + 1] = WorkFact.job
  BY <1>1, WorkHeard
<1>3. CASE PierBail
  BY <1>1, <1>3, PierBailInv
<1>4. CASE ~PierBail
  <2> DEFINE f == WorkFact
             e == sen + 1
  <2>0. PICK down \in (IF Downgrades THEN BOOLEAN ELSE {FALSE}) :
          IF down \/ Head(out).how = "bail" THEN PierBail
          ELSE IF WorkFact.eve # sen + 1 THEN Abort("plan")
          ELSE /\ LordHear /\ LordPlan(Tail(writs), <<>>)
               /\ DiskPlan(WorkFact)
               /\ sat' = "work" /\ rel' = dun /\ gifts' = <<WorkFact>>
               /\ UNCHANGED <<pay, ova, pec, walls, effs, oops>>
    BY DEF Negotiated
  <2>1. Head(out).how # "bail"
    BY <1>4, <2>0
  <2>2. /\ LordHear /\ LordPlan(Tail(writs), <<>>) /\ DiskPlan(f)
        /\ sat' = "work" /\ rel' = dun /\ gifts' = <<f>>
        /\ UNCHANGED <<pay, ova, pec, walls, effs, oops>>
    BY <1>2, <1>4, <2>0, <2>1
  <2>3. /\ f \in Fact /\ f.eve = e /\ f.job \in Job /\ f = [eve |-> e, job |-> f.job]
        /\ e <= Len(core) => core[e] = f.job
    BY <1>2, <2>1
  <2> HIDE DEF f
  <2>4. /\ DiskShape /\ open = "live" /\ sen = dun /\ dun = LastKey /\ sen \in Nat
        /\ put = <<>> /\ ova = <<>> /\ walls = <<>> /\ red = <<>>
    <3>1. DiskShape
      BY DiskShaped DEF PierInv
    <3>2. open = "live"
      BY <1>1 DEF PierInv, DiskInv, DiskTypeOK, ModeInv, Loop
    <3>3. sen = dun /\ dun = LastKey /\ ova = <<>> /\ walls = <<>> /\ red = <<>>
      BY <1>1 DEF PierInv, ModeInv, Works
    <3>4. put = <<>>
      BY <3>3, RestIsIdle DEF PierInv
    <3> QED
      BY <3>1, <3>2, <3>3, <3>4 DEF DiskShape
  <2>5. e \in 0 .. MaxEve /\ e \in Nat /\ EveAfter(Head(out), Head(writs)) = e
        /\ \E c : /\ Course(Tail(out), e, c) /\ c[Len(Tail(out))] + Len(ova) <= MaxEve
                  /\ serf = "up" => Facts(Tail(out), Tail(writs), core, c)
    BY <1>2, <2>1, <2>4
  <2>6. /\ UNCHANGED <<db, meta, open, dun, red>> /\ sen' = e /\ put' = <<f>>
        /\ LastKey' = LastKey
    <3>1. UNCHANGED <<db, meta, open, dun, red>> /\ sen' = sen + Len(<<f>>) /\ put' = put \o <<f>>
      BY <2>2 DEF DiskPlan, Enqueue
    <3>2. put \o <<f>> = <<f>> /\ Len(<<f>>) = 1
      BY <2>4
    <3> QED
      BY <3>1, <3>2, LastKeySame
  <2> HIDE DEF e
  <2>7. DiskInv' /\ DiskShape'
    <3> DEFINE j == f.job
    <3>1. j \in Job /\ DiskPlan([eve |-> sen + 1, job |-> j])
      BY <2>2, <2>3 DEF e
    <3> HIDE DEF j
    <3> QED
      BY <2>4, <3>1, PlanInv, DiskShapedNext DEF PierInv
  <2>8. /\ eve' = e /\ out' = Tail(out) /\ writs' = Tail(writs) /\ inn' = inn
        /\ UNCHANGED <<god, core, snap, serf, fault>>
        /\ writs \in Seq(Writ) /\ writs # <<>> /\ Tail(writs) \in Seq(Writ)
    <3>1. writs \in Seq(Writ) /\ inn \in Seq(Writ) /\ writs # <<>>
      BY <1>1, AnswerHeard DEF PierInv, PierTypeOK, LordTypeOK, Heard
    <3>2. Tail(writs) \in Seq(Writ)
      BY <3>1, TailIs
    <3>3. Tail(writs) \o <<>> = Tail(writs) /\ inn \o <<>> = inn
      BY <3>1, <3>2, ConcatEmptySeq
    <3> QED
      BY <2>2, <2>5, <3>1, <3>2, <3>3 DEF LordHear, LordPlan
  <2>9. LordTypeOK' /\ PipesInv' /\ MatchInv' /\ InnInv'
    <3> DEFINE ms == <<>>
    <3>1. ms \in Seq(Writ) /\ Len(ms) = 0 /\ LordPlan(Tail(writs), ms)
      BY <2>2
    <3>2. eve' \in 0 .. MaxWord
      BY <2>5, <2>8, EventsAssumption, LordAssumption
    <3> HIDE DEF ms
    <3>3. \A i \in 1 .. Len(ms) : Sound(ms[i])
      BY <3>1
    <3>4. god' = "live" /\ UNCHANGED <<serf, core, snap, fault, db>>
      BY <1>2, <2>6, <2>8
    <3> QED
      BY <1>2, <2>8, <3>1, <3>2, <3>3, <3>4, KingSends
  <2>10. PierTypeOK'
    <3>1. DiskTypeOK'
      BY <2>7 DEF DiskInv
    <3>2. gifts' \in Seq(Fact) /\ rel' \in Nat
      BY <2>2, <2>3, <2>4 DEF DiskShape
    <3> QED
      BY <2>2, <2>9, <3>1, <3>2 DEF PierInv, PierTypeOK
  <2>11. ModeInv' /\ NewInv'
    <3>1. ~(meta < MetaKeys)
      BY <1>1 DEF PierInv, NewInv
    <3> QED
      BY <1>2, <2>2, <2>4, <2>6, <2>8, <3>1 DEF ModeInv, NewInv, Works
  <2>12. WritsInv'
    <3> DEFINE T == {v \in Writ : /\ v.typ = "work" => Len(v.jobs) = 1
                                  /\ v.typ \in {"work", "peek", "save", "pack"}}
    <3>1. \A i \in 1 .. Len(writs) : writs[i] \in T
      BY <1>1, <1>2, <2>8, ElementOfSeq DEF PierInv, WritsInv, Negotiates
    <3>2. \A i \in 1 .. Len(Tail(writs)) : Tail(writs)[i] \in T
      <4> HIDE DEF T
      <4> QED
        BY <2>8, <3>1, TailAll
    <3> QED
      BY <2>2, <2>8, <3>2 DEF WritsInv
  <2>13. WorkInv'
    BY <2>2, <2>5, <2>6, <2>8 DEF WorkInv
  <2>14. PlayInv' /\ BatchInv' /\ GiftInv' /\ WallInv' /\ OopsInv'
    <3>1. PlayInv' /\ BatchInv'
      BY <2>2 DEF PlayInv, BatchInv
    <3>2. GiftInv' /\ WallInv' /\ OopsInv'
      BY <2>2, <2>4, <2>6 DEF PierInv, GiftInv, WallInv, OopsInv
    <3> QED
      BY <3>1, <3>2
  <2>15. EffsInv'
    BY <2>2, <2>4, <2>6 DEF PierInv, EffsInv
  <2>16. AgreeInv'
    <3>1. EventsAhead'
      <4>1. (god = "live")'
        BY <1>2, <2>8
      <4> QED
        BY <2>7, <2>9, <2>10, <2>11, <2>12, <2>13, <2>14, <4>1, EventsAreAheadNext
    <3>2. Agrees(core)'
      <4>1. \A i \in 1 .. Len(core) : i <= LastKey => core[i] = db[i]
        BY DEF PierInv, AgreeInv, Agrees
      <4>2. ASSUME NEW i \in 1 .. Len(core), i - dun \in 1 .. 1 PROVE core[i] = f.job
        <5>1. Len(core) \in Nat
          BY LenProperties DEF PierInv, PierTypeOK, LordTypeOK, Kernel
        <5>2. i = e /\ e <= Len(core)
          BY <2>4, <4>2, <5>1 DEF e
        <5> QED
          BY <2>3, <5>2 DEF e
      <4>3. Len(<<f>>) = 1 /\ <<f>>[1] = f
        OBVIOUS
      <4>4. ASSUME NEW i \in 1 .. Len(core), i - dun \in 1 .. Len(put')
            PROVE  core[i] = put'[i - dun].job
        <5>1. i - dun \in 1 .. 1 /\ i - dun = 1
          BY <2>6, <4>3, <4>4
        <5> QED
          BY <2>6, <4>2, <4>3, <5>1
      <4> QED
        BY <2>6, <2>8, <4>1, <4>4 DEF Agrees
    <3>3. UNCHANGED <<serf, core, snap, db>>
      BY <2>6, <2>8
    <3> QED
      BY <3>1, <3>2, <3>3, AgreeNext
  <2>17. BoundInv'
    <3>1. sen' <= MaxEve /\ LastKey' <= MaxEve
      BY <2>4, <2>5, <2>6 DEF PierInv, BoundInv
    <3> QED
      BY <2>2, <2>8, <3>1 DEF PierInv, BoundInv
  <2> QED
    BY <2>7, <2>9, <2>10, <2>11, <2>12, <2>13, <2>14, <2>15, <2>16, <2>17 DEF PierInv
<1> QED
  BY <1>3, <1>4

-----------------------------------------------------------------------------
(* The replay queue, against the log that it replays.                      *)

Plays == [eve : Nat, sen : Nat, req : Nat, q : Seq(Fact)]

\* What the invariant says of the replay pl and its reads rd, up to the end of
\* the log.
Replayed(pl, rd) ==
  /\ pl.sen + Len(pl.q) <= pl.eve /\ pl.eve <= LastKey
  /\ \A i \in 1 .. Len(pl.q) : /\ pl.q[i].eve = pl.sen + i
                               /\ pl.q[i].job = db[pl.sen + i]
  /\ Len(rd) <= 1
  /\ \A i \in 1 .. Len(rd) : /\ rd[i].eve = pl.sen + Len(pl.q) + 1
                             /\ rd[i].eve + rd[i].len - 1 <= pl.eve
                             /\ pl.req = rd[i].eve
  /\ rd = <<>> => pl.req <= pl.sen + Len(pl.q)

\* Where the queue ends.
LEMMA LastIs ==
  ASSUME NEW pl \in Plays, NEW rd \in Seq(Read), Replayed(pl, rd)
  PROVE  /\ PlayLast(pl) = pl.sen + Len(pl.q) /\ Len(pl.q) \in Nat
         /\ pl.eve \in Nat /\ pl.sen \in Nat /\ pl.req \in Nat /\ pl.q \in Seq(Fact)
<1>1. pl.eve \in Nat /\ pl.sen \in Nat /\ pl.req \in Nat /\ pl.q \in Seq(Fact)
  BY DEF Plays
<1>2. Len(pl.q) \in Nat
  BY <1>1, LenProperties
<1>3. CASE pl.q = <<>>
  <2>1. Len(pl.q) = 0
    BY <1>3
  <2> QED
    BY <1>1, <1>3, <2>1 DEF PlayLast
<1>4. CASE pl.q # <<>>
  <2>1. Len(pl.q) # 0
    BY <1>1, <1>4, EmptySeq
  <2>2. Len(pl.q) \in 1 .. Len(pl.q)
    BY <1>2, <2>1
  <2>3. pl.q[Len(pl.q)].eve = pl.sen + Len(pl.q)
    BY <2>2 DEF Replayed
  <2> QED
    BY <1>1, <1>2, <1>4, <2>3 DEF PlayLast
<1> QED
  BY <1>1, <1>2, <1>3, <1>4

\* _pier_play_send: the batch is the next of the log, and leaves the rest.
LEMMA SentIs ==
  ASSUME NEW pl \in Plays, NEW rd \in Seq(Read), Replayed(pl, rd)
  PROVE  /\ PlayCount(pl) \in 0 .. Len(pl.q)
         /\ PlayBatchOf(pl) \in Seq(Fact) /\ Len(PlayBatchOf(pl)) = PlayCount(pl)
         /\ \A i \in 1 .. PlayCount(pl) : /\ PlayBatchOf(pl)[i].eve = pl.sen + i
                                          /\ PlayBatchOf(pl)[i].job = db[pl.sen + i]
         /\ PlaySent(pl) \in Plays /\ PlaySent(pl).sen = pl.sen + PlayCount(pl)
         /\ PlaySent(pl).eve = pl.eve /\ Replayed(PlaySent(pl), rd)
<1>1. /\ Len(pl.q) \in Nat /\ pl.eve \in Nat /\ pl.sen \in Nat /\ pl.req \in Nat
      /\ pl.q \in Seq(Fact) /\ pl.sen + Len(pl.q) <= pl.eve
      /\ \A i \in 1 .. Len(pl.q) : pl.q[i].eve = pl.sen + i /\ pl.q[i].job = db[pl.sen + i]
  BY LastIs DEF Replayed
<1>2. PlayLimit(pl) \in Nat
  BY <1>1, ReplayAssumption DEF PlayLimit, Greater, Lesser
<1> DEFINE n == PlayCount(pl)
           l == Len(pl.q)
           r == SubSeq(pl.q, n + 1, l)
<1>3. n \in 0 .. l
  BY <1>1, <1>2 DEF PlayCount, Lesser
<1>4. PlayBatchOf(pl) = SubSeq(pl.q, 1, n)
  BY DEF PlayBatchOf
<1>5. n # 0 => n \in 1 .. l
  BY <1>1, <1>3
<1>6. /\ n = 0 => PlaySent(pl) = pl
      /\ n # 0 => PlaySent(pl) = [pl EXCEPT !.sen = pl.q[n].eve, !.q = r]
  BY DEF PlaySent
<1> HIDE DEF n
<1>7. /\ SubSeq(pl.q, 1, n) \in Seq(Fact) /\ Len(SubSeq(pl.q, 1, n)) = n
      /\ \A i \in 1 .. n : SubSeq(pl.q, 1, n)[i] = pl.q[i] /\ i \in 1 .. l
  BY <1>1, <1>3
<1>8. /\ r \in Seq(Fact) /\ Len(r) = l - n
      /\ \A i \in 1 .. l - n : r[i] = pl.q[n + i] /\ n + i \in 1 .. l
  BY <1>1, <1>3
<1> HIDE DEF r
<1> DEFINE p == PlaySent(pl)
<1>9. /\ p \in Plays /\ p.sen = pl.sen + n /\ p.eve = pl.eve /\ p.req = pl.req
      /\ Len(p.q) = l - n
      /\ \A i \in 1 .. l - n : p.q[i] = pl.q[n + i] /\ n + i \in 1 .. l
  <2>1. CASE n = 0
    <3>1. l - n = l /\ pl.sen + n = pl.sen /\ \A i \in 1 .. l - n : n + i = i
      BY <1>1, <2>1
    <3> QED
      BY <1>6, <2>1, <3>1
  <2>2. CASE n # 0
    <3>1. pl.q[n].eve = pl.sen + n /\ pl.sen + n \in Nat
      BY <1>1, <1>3, <1>5, <2>2
    <3>2. p = [pl EXCEPT !.sen = pl.sen + n, !.q = r]
      BY <1>6, <2>2, <3>1
    <3>3. p = [eve |-> pl.eve, sen |-> pl.sen + n, req |-> pl.req, q |-> r]
      BY <3>2 DEF Plays
    <3> QED
      BY <1>1, <1>8, <3>1, <3>3 DEF Plays
  <2> QED
    BY <2>1, <2>2
<1> HIDE DEF p
<1>10. p.sen + Len(p.q) = pl.sen + l
  BY <1>1, <1>3, <1>9
<1>11. ASSUME NEW i \in 1 .. Len(p.q)
       PROVE  p.q[i].eve = p.sen + i /\ p.q[i].job = db[p.sen + i]
  <2>1. p.q[i] = pl.q[n + i] /\ n + i \in 1 .. l
    BY <1>9
  <2>2. p.sen + i = pl.sen + (n + i)
    BY <1>1, <1>3, <1>9
  <2> QED
    BY <1>1, <2>1, <2>2
<1>12. Replayed(p, rd)
  <2>1. \A i \in 1 .. Len(rd) : /\ rd[i].eve = p.sen + Len(p.q) + 1
                                /\ rd[i].eve + rd[i].len - 1 <= p.eve
                                /\ p.req = rd[i].eve
    BY <1>9, <1>10 DEF Replayed
  <2>2. p.sen + Len(p.q) <= p.eve /\ p.eve <= LastKey /\ Len(rd) <= 1
        /\ (rd = <<>> => p.req <= p.sen + Len(p.q))
    BY <1>9, <1>10 DEF Replayed
  <2> QED
    BY <1>11, <2>1, <2>2 DEF Replayed
<1> QED
  BY <1>1, <1>3, <1>4, <1>7, <1>9, <1>12 DEF p, n

\* _pier_play_read: the read after the queue, unless one is outstanding.
LEMMA AskedIs ==
  ASSUME NEW pl \in Plays, NEW rd \in Seq(Read), Replayed(pl, rd),
         NEW rs, rs = IF PlayWants(pl) = 0 THEN rd
                      ELSE DiskRead(rd, PlayLast(pl) + 1, PlayWants(pl))
  PROVE  /\ PlayAsked(pl) \in Plays /\ PlayAsked(pl).sen = pl.sen
         /\ PlayAsked(pl).eve = pl.eve
         /\ rs \in Seq(Read) /\ Replayed(PlayAsked(pl), rs)
<1>1. /\ PlayLast(pl) = pl.sen + Len(pl.q) /\ Len(pl.q) \in Nat
      /\ pl.eve \in Nat /\ pl.sen \in Nat /\ pl.req \in Nat /\ pl.q \in Seq(Fact)
  BY LastIs
<1>2. CASE PlayWants(pl) = 0
  BY <1>2 DEF PlayAsked
<1>3. CASE PlayWants(pl) # 0
  <2> DEFINE e   == PlayLast(pl) + 1
             len == PlayWants(pl)
             x   == [eve |-> e, len |-> len, sat |-> "start"]
             p   == PlayAsked(pl)
  <2>1. /\ len = Lesser(pl.eve - PlayLast(pl), ReadBatch)
        /\ ~(PlayLast(pl) + 1 <= pl.req)
    BY <1>3 DEF PlayWants
  <2>2. /\ len \in Nat \ {0} /\ len <= pl.eve - PlayLast(pl) /\ e \in Nat \ {0}
        /\ pl.req < e /\ e + len - 1 <= pl.eve
    <3>1. pl.eve - PlayLast(pl) \in Nat
      BY <1>1 DEF Replayed
    <3>2. len \in Nat /\ len <= pl.eve - PlayLast(pl)
      BY <2>1, <3>1, ReplayAssumption DEF Lesser
    <3> HIDE DEF len
    <3>3. len # 0
      BY <1>3 DEF len
    <3>4. PlayLast(pl) \in Nat
      BY <1>1
    <3>5. len \in Nat \ {0}
      BY <3>2, <3>3
    <3>6. e \in Nat \ {0} /\ pl.req < e
      BY <1>1, <2>1, <3>4
    <3>7. e + len - 1 <= pl.eve
      BY <1>1, <3>2, <3>4
    <3> QED
      BY <3>2, <3>5, <3>6, <3>7
  <2>3. rd = <<>>
    <3>1. SUFFICES ASSUME rd # <<>> PROVE FALSE
      OBVIOUS
    <3>2. 1 \in 1 .. Len(rd)
      BY <3>1, TailIs
    <3>3. pl.req = rd[1].eve /\ rd[1].eve = pl.sen + Len(pl.q) + 1
      BY <3>2 DEF Replayed
    <3> QED
      BY <1>1, <2>2, <3>3
  <2>4. x \in Read /\ x.eve = e /\ x.len = len
    BY <2>2 DEF Read
  <2>5. rs = <<x>>
    BY <1>3, <2>3 DEF DiskRead
  <2>6. p = [eve |-> pl.eve, sen |-> pl.sen, req |-> e, q |-> pl.q]
    BY <1>3 DEF PlayAsked, Plays
  <2>7. e = pl.sen + Len(pl.q) + 1
    BY <1>1
  <2> HIDE DEF p, x, len, e
  <2>8. p \in Plays /\ p.sen = pl.sen /\ p.eve = pl.eve /\ p.q = pl.q /\ p.req = e
    BY <1>1, <2>2, <2>6 DEF Plays
  <2>9. rs \in Seq(Read) /\ Len(rs) = 1 /\ rs # <<>> /\ \A i \in 1 .. Len(rs) : rs[i] = x
    <3>1. x \in Read
      BY <2>4
    <3>2. <<x>> \in Seq(Read)
      BY ONLY <3>1
    <3>3. Len(rs) = 1 /\ rs[1] = x
      BY ONLY <2>5
    <3>4. rs \in Seq(Read)
      BY ONLY <2>5, <3>2
    <3>5. rs # <<>>
      BY ONLY <3>3
    <3>6. \A i \in 1 .. Len(rs) : rs[i] = x
      BY ONLY <3>3
    <3> QED
      BY <3>3, <3>4, <3>5, <3>6
  <2>10. Replayed(p, rs)
    BY <2>2, <2>4, <2>7, <2>8, <2>9 DEF Replayed
  <2> QED
    BY <2>8, <2>9, <2>10 DEF p
<1> QED
  BY <1>2, <1>3

\* A turn of _pier_play: the writ that it sends, the read that it starts.
LEMMA PlaysOn ==
  ASSUME NEW pl \in Plays, NEW rd \in Seq(Read), Replayed(pl, rd)
  PROVE  /\ PlayAsked(PlaySent(pl)) \in Plays /\ PlayReads(pl, rd) \in Seq(Read)
         /\ Replayed(PlayAsked(PlaySent(pl)), PlayReads(pl, rd))
         /\ PlayAsked(PlaySent(pl)).eve = pl.eve
         /\ PlayAsked(PlaySent(pl)).sen = pl.sen + PlayCount(pl)
<1>1. /\ PlaySent(pl) \in Plays /\ PlaySent(pl).sen = pl.sen + PlayCount(pl)
      /\ PlaySent(pl).eve = pl.eve /\ Replayed(PlaySent(pl), rd)
  BY SentIs
<1> DEFINE p == PlaySent(pl)
           rs == PlayReads(pl, rd)
<1>2. rs = IF PlayWants(p) = 0 THEN rd ELSE DiskRead(rd, PlayLast(p) + 1, PlayWants(p))
  BY DEF PlayReads
<1>3. p \in Plays /\ Replayed(p, rd) /\ p.sen = pl.sen + PlayCount(pl) /\ p.eve = pl.eve
  BY <1>1
<1> HIDE DEF rs, p
<1>4. /\ PlayAsked(p) \in Plays /\ PlayAsked(p).sen = p.sen /\ PlayAsked(p).eve = p.eve
      /\ rs \in Seq(Read) /\ Replayed(PlayAsked(p), rs)
  BY <1>2, <1>3, AskedIs
<1> QED
  BY <1>3, <1>4 DEF p, rs

\* u3_lmdb_read of events that are there.
LEMMA ReadIs ==
  ASSUME NEW r \in Read, NEW m \in Nat, DOMAIN db = 1 .. m, r.eve + r.len - 1 <= m
  PROVE  /\ Len(LmdbRead(r)) = r.len
         /\ \A i \in 1 .. r.len : LmdbRead(r)[i] = [eve |-> r.eve + i - 1, job |-> db[r.eve + i - 1]]
<1> DEFINE P(n) == /\ r.eve .. (r.eve + n - 1) \subseteq DOMAIN db
                   /\ n = r.len \/ (r.eve + n) \notin DOMAIN db
           k == CHOOSE n \in 0 .. r.len : P(n)
<1>1. r.eve \in Nat \ {0} /\ r.len \in Nat \ {0}
  BY DEF Read
<1>2. r.len \in 0 .. r.len /\ P(r.len)
  BY <1>1
<1>3. k \in 0 .. r.len /\ P(k)
  BY <1>2
<1>4. LmdbRead(r) = [i \in 1 .. k |-> [eve |-> r.eve + i - 1, job |-> db[r.eve + i - 1]]]
  BY DEF LmdbRead
<1> HIDE DEF k
<1>5. k = r.len
  <2>1. SUFFICES ASSUME k # r.len PROVE FALSE
    OBVIOUS
  <2>2. r.eve + k \in 1 .. m
    BY <1>1, <1>3, <2>1
  <2> QED
    BY <1>3, <2>1, <2>2
<1> QED
  BY <1>1, <1>4, <1>5

-----------------------------------------------------------------------------
(* A turn of the replay.                                                   *)

\* The batches ws up to event s, and one behind them up to event t.
LEMMA BatchesSend ==
  ASSUME NEW ws \in Seq(Writ), NEW e \in Nat, NEW s \in Nat, Batches(ws, e, s), e <= s,
         NEW w \in Writ, w.typ = "play", Len(w.jobs) > 0, w.eve = s + 1,
         NEW t \in Nat, EndOf(w) = t
  PROVE  Batches(ws \o <<w>>, e, t)
<1> DEFINE x == <<w>>
           l == Len(ws)
<1>0. x \in Seq(Writ) /\ ws \in Seq(Writ)
  OBVIOUS
<1>0a. Len(x) = 1 /\ x[1] = w
  OBVIOUS
<1> HIDE DEF x
<1>1. /\ ws \o x \in Seq(Writ) /\ Len(ws \o x) = l + 1 /\ l \in Nat
      /\ \A i \in 1 .. l : (ws \o x)[i] = ws[i]
      /\ (ws \o x)[l + 1] = w
  <2>1. /\ ws \o x \in Seq(Writ) /\ l \in Nat /\ Len(ws \o x) = l + Len(x)
        /\ \A i \in 1 .. l : (ws \o x)[i] = ws[i]
        /\ \A i \in 1 .. Len(x) : (ws \o x)[l + i] = x[i]
    BY ONLY <1>0, JoinIs
  <2> QED
    BY <1>0a, <2>1
<1> DEFINE z == ws \o x
<1> HIDE DEF l, z
<1>2. Len(z) = l + 1 /\ l \in Nat /\ z[l + 1] = w /\ \A i \in 1 .. l : z[i] = ws[i]
  BY <1>1 DEF z
<1>3. /\ \A i \in 1 .. l : /\ ws[i].typ = "play" /\ Len(ws[i].jobs) > 0
                           /\ e < ws[i].eve /\ EndOf(ws[i]) <= s
      /\ \A i, j \in 1 .. l : i < j => EndOf(ws[i]) < ws[j].eve
  BY DEF Batches, l
<1>4. \A i \in 1 .. l : EndOf(ws[i]) \in Int
  <2>1. \A i \in 1 .. l : ws[i] \in Writ
    BY ElementOfSeq DEF l
  <2>2. \A v \in Writ : EndOf(v) \in Int
    BY LenProperties, LordAssumption DEF EndOf, Writ
  <2> QED
    BY <2>1, <2>2
<1>5. s < t
  <2> DEFINE m == Len(w.jobs)
  <2>1. w.eve = s + 1 /\ m > 0
    OBVIOUS
  <2>2. w.eve + m - 1 = t
    BY DEF EndOf
  <2>3. m \in Nat
    BY LenProperties DEF Writ
  <2> HIDE DEF m
  <2>4. (s + 1) + m - 1 = t
    BY <2>1, <2>2
  <2> QED
    BY <2>1, <2>3, <2>4
<1>6. ASSUME NEW i \in 1 .. l + 1
      PROVE  /\ z[i].typ = "play" /\ Len(z[i].jobs) > 0
             /\ e < z[i].eve /\ EndOf(z[i]) <= t
  <2>1. CASE i \in 1 .. l
    <3>1. z[i] = ws[i] /\ EndOf(ws[i]) <= s /\ EndOf(ws[i]) \in Int
      BY <1>2, <1>3, <1>4, <2>1
    <3>2. EndOf(z[i]) <= t
      BY <1>5, <3>1
    <3> QED
      BY <1>3, <2>1, <3>1, <3>2
  <2>2. CASE i \notin 1 .. l
    <3>1. i = l + 1 /\ z[i] = w
      BY <1>2, <2>2
    <3>2. e < w.eve /\ EndOf(w) <= t
      OBVIOUS
    <3> QED
      BY <3>1, <3>2
  <2> QED
    BY <2>1, <2>2
<1>7. ASSUME NEW i \in 1 .. l + 1, NEW j \in 1 .. l + 1, i < j
      PROVE  EndOf(z[i]) < z[j].eve
  <2>1. i \in 1 .. l
    BY <1>2, <1>7
  <2>2. z[i] = ws[i] /\ EndOf(ws[i]) <= s /\ EndOf(ws[i]) \in Int
    BY <1>2, <1>3, <1>4, <2>1
  <2>3. CASE j \in 1 .. l
    BY <1>2, <1>3, <1>7, <2>1, <2>2, <2>3
  <2>4. CASE j \notin 1 .. l
    <3>1. z[j] = w
      BY <1>2, <2>4
    <3> QED
      BY <2>2, <3>1
  <2> QED
    BY <2>3, <2>4
<1>8. Batches(z, e, t)
  BY <1>2, <1>6, <1>7 DEF Batches
<1> QED
  BY <1>8 DEF z, x

\* The budget of one more batch.
LEMMA BudgetPlays ==
  ASSUME NEW ns \in Seq(Writ), NEW n \in Nat, NEW b, Budget(ns, n, b),
         NEW w \in Writ, w.typ = "play", NEW t \in 0 .. MaxEve, EndOf(w) = t
  PROVE  \E d : Budget(ns \o <<w>>, n, d) /\ d[Len(ns \o <<w>>)] <= MaxEve
<1> DEFINE x == <<w>>
           k == b[Len(ns)]
           g == [i \in 0 .. 1 |-> IF i = 0 \/ t <= k THEN 0 ELSE t - k]
<1>1. x \in Seq(Writ) /\ Len(x) = 1 /\ x[1] = w
  OBVIOUS
<1>2. k \in 0 .. MaxEve
  <2>1. Len(ns) \in 0 .. Len(ns)
    BY LenProperties
  <2> QED
    BY <2>1 DEF Budget
<1> HIDE DEF x, k
<1>3. g \in [0 .. 1 -> Nat] /\ g[0] = 0 /\ g[1] = (IF t <= k THEN 0 ELSE t - k)
  BY <1>2, EventsAssumption
<1> HIDE DEF g
<1>4. g[1] \in Nat /\ k + g[1] \in 0 .. MaxEve /\ t <= k + g[1]
  BY <1>2, <1>3, EventsAssumption
<1>5. g \in [0 .. Len(x) -> Nat] /\ g[0] = 0 /\ k + g[Len(x)] <= MaxEve
  BY <1>1, <1>3, <1>4
<1>6. \A i, j \in 0 .. Len(x) : i <= j => g[i] <= g[j]
  BY <1>1, <1>3, <1>4
<1>7. ASSUME NEW i \in 1 .. Len(x)
      PROVE  g[i - 1] + Cost(x[i]) <= g[i] /\ (x[i].typ = "play" => EndOf(x[i]) <= k + g[i])
  <2>1. i = 1 /\ i - 1 = 0
    BY <1>1
  <2>2. Cost(w) = 0
    BY DEF Cost
  <2> QED
    BY <1>1, <1>3, <1>4, <2>1, <2>2
<1>8. \E d : Budget(ns \o x, n, d) /\ d[Len(ns \o x)] = b[Len(ns)] + g[Len(x)]
  <2>1. /\ g \in [0 .. Len(x) -> Nat] /\ g[0] = 0 /\ x \in Seq(Writ)
        /\ \A i, j \in 0 .. Len(x) : i <= j => g[i] <= g[j]
        /\ \A i \in 1 .. Len(x) : /\ g[i - 1] + Cost(x[i]) <= g[i]
                                  /\ x[i].typ = "play" => EndOf(x[i]) <= b[Len(ns)] + g[i]
        /\ b[Len(ns)] + g[Len(x)] <= MaxEve
    BY <1>1, <1>5, <1>6, <1>7 DEF k
  <2> QED
    BY <2>1, BudgetSend
<1>9. PICK d : Budget(ns \o x, n, d) /\ d[Len(ns \o x)] = k + g[Len(x)]
  BY <1>8 DEF k
<1> QED
  BY <1>5, <1>9 DEF x

\* The writ of a batch.
LEMMA PlayWritIs ==
  ASSUME DiskShape, LastKey <= MaxEve,
         NEW pl \in Plays, NEW rd \in Seq(Read), Replayed(pl, rd), PlayCount(pl) # 0,
         NEW w, w = PlayWrit(PlayBatchOf(pl)[1].eve,
                             [i \in DOMAIN PlayBatchOf(pl) |-> PlayBatchOf(pl)[i].job])
  PROVE  /\ w \in Writ /\ w.typ = "play" /\ w.eve = pl.sen + 1 /\ Len(w.jobs) > 0
         /\ EndOf(w) = pl.sen + PlayCount(pl) /\ Sound(w)
         /\ pl.sen + PlayCount(pl) \in 0 .. MaxEve
<1> DEFINE b == PlayBatchOf(pl)
           n == PlayCount(pl)
           js == [i \in DOMAIN b |-> b[i].job]
<1>1. /\ n \in 0 .. Len(pl.q) /\ b \in Seq(Fact) /\ Len(b) = n
      /\ \A i \in 1 .. n : b[i].eve = pl.sen + i /\ b[i].job = db[pl.sen + i]
  BY SentIs
<1>2. pl.sen \in Nat /\ Len(pl.q) \in Nat /\ pl.eve \in Nat /\ pl.sen + Len(pl.q) <= LastKey
      /\ LastKey \in Nat
  BY LastIs DEF Replayed, DiskShape
<1>3. w = PlayWrit(b[1].eve, js)
  OBVIOUS
<1>4. n # 0
  OBVIOUS
<1> HIDE DEF b, n
<1>5. n \in Nat /\ n > 0 /\ 1 \in 1 .. n /\ pl.sen + n <= LastKey /\ DOMAIN b = 1 .. n
  BY <1>1, <1>2, <1>4, LenProperties
<1>6. b[1].eve = pl.sen + 1
  BY <1>1, <1>5
<1>7. \A i \in 1 .. n : b[i].job \in Job
  <2>1. \A i \in 1 .. n : b[i] \in Fact
    BY <1>1, ElementOfSeq
  <2> QED
    BY <2>1 DEF Fact
<1>8. js \in Seq(Job) /\ Len(js) = n /\ \A i \in 1 .. n : js[i] = db[pl.sen + i]
  <2>1. js = [i \in 1 .. n |-> b[i].job]
    BY <1>5
  <2>2. js \in Seq(Job) /\ Len(js) = n
    BY <1>5, <1>7, <2>1
  <2>3. \A i \in 1 .. n : js[i] = db[pl.sen + i]
    BY <1>1, <2>1
  <2> QED
    BY <2>2, <2>3
<1> HIDE DEF js
<1>9. w = [typ |-> "play", eve |-> pl.sen + 1, jobs |-> js]
  BY <1>3, <1>6 DEF PlayWrit
<1>10. w.typ = "play" /\ w.eve = pl.sen + 1 /\ w.jobs = js
  BY <1>9
<1>11. pl.sen + 1 \in 0 .. MaxWord
  BY <1>2, <1>5, EventsAssumption, LordAssumption
<1>12. w \in Writ
  BY <1>8, <1>9, <1>11 DEF Writ
<1>13. Sound(w)
  <2>1. ASSUME NEW k \in 1 .. n
        PROVE  w.eve + k - 1 <= LastKey /\ db[w.eve + k - 1] = js[k]
    <3>1. w.eve + k - 1 = pl.sen + k
      BY <1>2, <1>10
    <3> QED
      BY <1>2, <1>5, <1>8, <3>1
  <2>2. w.eve > 0
    BY <1>2, <1>10
  <2> QED
    BY <1>8, <1>10, <2>1, <2>2 DEF Sound
<1>14. EndOf(w) = pl.sen + n
  <2>1. EndOf(w) = pl.sen + 1 + n - 1
    BY <1>8, <1>10 DEF EndOf
  <2> QED
    BY <1>2, <1>5, <2>1
<1>15. pl.sen + n \in 0 .. MaxEve
  BY <1>2, <1>5, EventsAssumption
<1> QED
  BY <1>5, <1>8, <1>10, <1>12, <1>13, <1>14, <1>15 DEF n

\* _pier_play: the king has heard what leaves it the writs ws and the pleas os;
\* the replay stands at pl, with the reads rd.
LEMMA PlayOnInv ==
  ASSUME PierInv, Loop, sat \in {"init", "boot", "play"},
         NEW ws \in Seq(Writ), NEW os \in Seq(Plea), KingHas(ws, os), god' = "live", out' = os,
         NEW pl \in Plays, NEW rd \in Seq(Read), Replayed(pl, rd),
         PlayOn(pl, ws), red' = PlayReads(pl, rd),
         eve' \in Nat, eve' <= pl.sen, Batches(ws, eve', pl.sen),
         serf = "up" /\ (\A i \in 1 .. Len(os) : ~ReplayFailed(os[i])) =>
           Len(core) = IF os = <<>> THEN eve' ELSE EndOf(ws[Len(os)]),
         Len(core) <= pl.eve,
         DiskInv', sen' = dun', dun' = LastKey, UNCHANGED <<db, meta, open, sen>>,
         UNCHANGED <<workVars, oops, serf, core, snap, fault>>
  PROVE  PierInv'
<1> DEFINE b == PlayBatchOf(pl)
           n == PlayCount(pl)
           w == PlayWrit(b[1].eve, [i \in DOMAIN b |-> b[i].job])
           ms == IF b = <<>> THEN <<>> ELSE <<w>>
           t == pl.sen + n
<1>1. /\ LordPlan(ws, ms) /\ pay' = PlayAsked(PlaySent(pl)) /\ sat' = "play"
      /\ UNCHANGED <<ova, pec, gifts, rel, walls, effs, oops, serf, core, snap, fault>>
      /\ LastKey' = LastKey
  BY LastKeySame DEF PlayOn, workVars
<1>2. /\ pay' \in Plays /\ red' \in Seq(Read) /\ Replayed(pay', red')
      /\ pay'.eve = pl.eve /\ pay'.sen = t
  BY <1>1, PlaysOn
<1>3. DiskShape /\ DiskShape' /\ open = "live" /\ LastKey \in Nat /\ LastKey <= MaxEve
      /\ sen < MaxEve
  <2>1. DiskShape /\ DiskShape'
    BY DiskShaped, DiskShapedNext DEF PierInv
  <2>2. open = "live"
    BY DEF PierInv, DiskInv, DiskTypeOK, ModeInv, Loop
  <2> QED
    BY <2>1, <2>2 DEF DiskShape, PierInv, BoundInv
<1>4. /\ pl.sen \in Nat /\ pl.eve \in Nat /\ Len(pl.q) \in Nat /\ pl.eve <= LastKey
      /\ n \in 0 .. Len(pl.q) /\ b \in Seq(Fact) /\ Len(b) = n
  BY LastIs, SentIs DEF Replayed
<1>5. \/ n = 0 /\ ms = <<>>
      \/ n # 0 /\ ms = <<w>> /\ w \in Writ /\ w.typ = "play" /\ w.eve = pl.sen + 1
         /\ Len(w.jobs) > 0 /\ EndOf(w) = t /\ Sound(w) /\ t \in 0 .. MaxEve
  <2>1. CASE n = 0
    <3>1. b = <<>>
      BY <1>4, <2>1, EmptySeq
    <3> QED
      BY <2>1, <3>1
  <2>2. CASE n # 0
    <3>1. ms = <<w>>
      <4>1. b # <<>>
        BY <1>4, <2>2
      <4> QED
        BY <4>1
    <3>2. /\ w \in Writ /\ w.typ = "play" /\ w.eve = pl.sen + 1 /\ Len(w.jobs) > 0
          /\ EndOf(w) = t /\ Sound(w) /\ t \in 0 .. MaxEve
      <4> HIDE DEF w
      <4>1. w = PlayWrit(b[1].eve, [i \in DOMAIN b |-> b[i].job])
        BY DEF w
      <4> QED
        BY <1>3, <2>2, <4>1, PlayWritIs
    <3> HIDE DEF w, ms, t, n
    <3> QED
      BY <2>2, <3>1, <3>2
  <2> QED
    BY <2>1, <2>2
<1> HIDE DEF w, ms, b, n
<1>6. pl.sen <= t /\ t \in Nat /\ (n = 0 => t = pl.sen)
  BY <1>4
<1> HIDE DEF t
<1>7. /\ ms \in Seq(Writ) /\ \A i \in 1 .. Len(ms) : Sound(ms[i]) /\ ms[i].typ = "play"
  <2>1. CASE ms = <<>>
    BY <2>1
  <2>2. CASE ms = <<w>> /\ w \in Writ /\ Sound(w) /\ w.typ = "play"
    BY <2>2
  <2> QED
    BY <1>5, <2>1, <2>2
<1>8. /\ LordTypeOK' /\ PipesInv' /\ MatchInv' /\ InnInv'
      /\ writs' = ws \o ms /\ inn' = inn \o ms
  <2>1. eve' \in 0 .. MaxWord
    BY <1>3, <1>4, EventsAssumption, LordAssumption DEF Replayed
  <2>2. LordTypeOK' /\ PipesInv' /\ MatchInv' /\ InnInv'
    BY <1>1, <1>7, <2>1, KingSends
  <2> QED
    BY <1>1, <2>2 DEF LordPlan
<1>9. ova = <<>> /\ walls = <<>>
  BY DEF PierInv, ModeInv, Works
<1>10. PierTypeOK'
  <2>1. DiskTypeOK'
    BY DEF DiskInv
  <2> QED
    BY <1>1, <1>2, <1>8, <2>1 DEF PierInv, PierTypeOK, Plays
<1>11. ModeInv'
  BY <1>1, <1>3, <1>9 DEF ModeInv, Works
<1>12. NewInv'
  <2>1. ~(meta < MetaKeys)
    <3>1. sat = "boot" => sen > 0
      BY DEF Loop
    <3> QED
      BY <3>1 DEF PierInv, NewInv
  <2> QED
    BY <1>1, <2>1 DEF NewInv
<1>13. Batches(writs', eve', t)
  <2>1. CASE n = 0
    <3>1. ws \o ms = ws /\ t = pl.sen
      BY <1>5, <1>6, <2>1, ConcatEmptySeq
    <3> QED
      BY <1>8, <3>1
  <2>2. CASE n # 0
    <3>1. /\ ms = <<w>> /\ w \in Writ /\ w.typ = "play" /\ Len(w.jobs) > 0 /\ w.eve = pl.sen + 1
          /\ EndOf(w) = t
      BY <1>5, <2>2
    <3>2. Batches(ws \o <<w>>, eve', t)
      BY <1>4, <1>6, <3>1, BatchesSend
    <3> QED
      BY <1>8, <3>1, <3>2
  <2> QED
    BY <2>1, <2>2
<1>14. BatchInv'
  <2>1. ASSUME serf = "up", NoneFailed'
        PROVE  Len(core) = IF os = <<>> THEN eve' ELSE EndOf(writs'[Len(os)])
    <3>1. \A i \in 1 .. Len(os) : ~ReplayFailed(os[i])
      BY <2>1 DEF NoneFailed
    <3>2. ASSUME os # <<>> PROVE writs'[Len(os)] = ws[Len(os)]
      <4>1. Len(os) <= Len(ws) /\ Len(os) \in Nat /\ Len(os) >= 1
        BY <3>2, KingHasIs, TailIs DEF Matched
      <4>2. Len(os) \in 1 .. Len(ws) /\ \A i \in 1 .. Len(ws) : (ws \o ms)[i] = ws[i]
        BY <1>7, <4>1, JoinIs
      <4> QED
        BY <1>8, <4>2
    <3> QED
      BY <2>1, <3>1, <3>2
  <2> QED
    BY <1>1, <1>2, <1>13, <2>1 DEF BatchInv
<1>15. WritsInv'
  <2>1. \A i \in 1 .. Len(writs') : writs'[i].typ = "play"
    BY <1>13 DEF Batches
  <2> QED
    BY <1>1, <2>1 DEF WritsInv, Negotiates
<1>16. WorkInv' /\ GiftInv'
  BY <1>1 DEF WorkInv, GiftInv, Works, Negotiates
<1>17. PlayInv'
  <2>1. Replays(pay, red)'
    BY <1>1, <1>2 DEF Replayed, Replays
  <2>2. eve' <= pay'.sen
    BY <1>2, <1>4, <1>6
  <2> QED
    BY <1>1, <1>2, <2>1, <2>2 DEF PlayInv
<1>18. EffsInv' /\ WallInv' /\ OopsInv'
  BY <1>1, <1>9 DEF PierInv, EffsInv, WallInv, OopsInv, Works
<1>19. AgreeInv'
  <2>1. EventsAhead'
    BY <1>3, <1>8, <1>10, <1>11, <1>12, <1>14, <1>15, <1>16, EventsAreAheadNext
  <2>2. Agrees(core)'
    <3>1. Len(put') = 0
      BY <1>3 DEF DiskShape
    <3>2. \A i \in 1 .. Len(core) : i <= LastKey => core[i] = db[i]
      BY DEF PierInv, AgreeInv, Agrees
    <3> QED
      BY <1>1, <3>1, <3>2 DEF Agrees
  <2> QED
    BY <1>1, <2>1, <2>2, AgreeNext
<1>20. BoundInv'
  <2>1. ASSUME serf # "dead"
        PROVE  \E d : Budget(inn', Len(core), d) /\ d[Len(inn')] + Len(ova) <= MaxEve
    <3>1. PICK d : Budget(inn, Len(core), d) /\ d[Len(inn)] + Len(ova) <= MaxEve
      BY <2>1 DEF PierInv, BoundInv
    <3>2. inn \in Seq(Writ) /\ Len(core) \in Nat
      BY LenProperties DEF PierInv, PierTypeOK, LordTypeOK, Kernel
    <3>3. CASE n = 0
      <4>1. inn' = inn
        BY <1>5, <1>8, <3>2, <3>3, ConcatEmptySeq
      <4> QED
        BY <3>1, <4>1
    <3>4. CASE n # 0
      <4>1. /\ ms = <<w>> /\ w \in Writ /\ w.typ = "play" /\ t \in 0 .. MaxEve /\ EndOf(w) = t
        BY <1>5, <3>4
      <4> DEFINE c == Len(core)
      <4>2. c \in Nat /\ Budget(inn, c, d)
        BY <3>1, <3>2
      <4> HIDE DEF c
      <4>3. PICK x : Budget(inn \o <<w>>, c, x) /\ x[Len(inn \o <<w>>)] <= MaxEve
        BY <3>2, <4>1, <4>2, BudgetPlays
      <4>4. x[Len(inn')] + Len(ova) <= MaxEve
        <5>1. inn' = inn \o <<w>> /\ Len(ova) = 0 /\ inn' \in Seq(Writ)
          BY <1>8, <1>9, <4>1 DEF LordTypeOK
        <5>2. x[Len(inn')] \in 0 .. MaxEve
          <6>1. Len(inn') \in 0 .. Len(inn')
            BY <5>1, LenProperties
          <6> QED
            BY <4>3, <5>1, <6>1 DEF Budget
        <5> QED
          BY <4>3, <5>1, <5>2, EventsAssumption
      <4> QED
        BY <1>8, <4>1, <4>3, <4>4 DEF c
    <3> QED
      BY <3>3, <3>4
  <2> QED
    BY <1>1, <1>3, <2>1 DEF BoundInv
<1> QED
  BY <1>8, <1>10, <1>11, <1>12, <1>14, <1>15, <1>16, <1>17, <1>18, <1>19, <1>20 DEF PierInv

-----------------------------------------------------------------------------
(* The serf is ready.                                                      *)

LEMMA RipeHeard ==
  ASSUME PierInv, Loop, Heard({"ripe"}), god = "init"
  PROVE  /\ out # <<>> /\ Len(out) = 1 /\ Head(out).eve = Len(snap) /\ Tail(out) = <<>>
         /\ Len(snap) \in Nat /\ Len(snap) <= LastKey /\ DiskShape
         /\ sat \in {"init", "boot", "gone"}
         /\ sat = "gone" => ExitStates \cap {"init", "boot"} # {}
         /\ sat # "gone" =>
              /\ open = "live" /\ writs = <<>> /\ inn = <<>> /\ red = <<>>
              /\ KingHas(writs, Tail(out)) /\ (serf = "up" => core = snap)
              /\ (serf # "up" => core = <<>>) /\ serf # "boot"
              /\ sat = "boot" => Len(snap) = 0
              /\ sat = "init" => sen = dun /\ dun = LastKey
<1>1. out \in Seq(Plea) /\ out # <<>> /\ snap \in Kernel /\ core \in Kernel
  BY DEF Heard, PierInv, PierTypeOK, LordTypeOK
<1>2. /\ Len(out) \in Nat /\ Len(out) >= 1 /\ Head(out) = out[1]
      /\ Tail(out) \in Seq(Plea) /\ Len(Tail(out)) = Len(out) - 1
  BY <1>1, TailIs
<1>3. Len(out) = 1 /\ Head(out).eve = Len(snap) /\ Tail(out) = <<>>
  <2>1. Len(out) <= 1 /\ \A i \in 1 .. Len(out) : out[i].eve = Len(snap)
    BY DEF PierInv, PipesInv
  <2>2. Len(out) = 1 /\ Len(Tail(out)) = 0 /\ 1 \in 1 .. Len(out)
    BY <1>2, <2>1
  <2> QED
    BY <1>2, <2>1, <2>2, EmptySeq
<1>4. Len(snap) \in Nat /\ Len(snap) <= LastKey /\ DiskShape
  BY <1>1, LenProperties, DiskShaped DEF PierInv, AgreeInv, Kernel
<1>5. sat \in {"init", "boot", "gone"}
  <2>1. sat \in {"down", "init", "boot", "play", "wyrd", "work", "done", "gone"}
    BY DEF PierInv, PierTypeOK
  <2> QED
    BY <2>1 DEF PierInv, ModeInv, Loop
<1>6. sat = "gone" => ExitStates \cap {"init", "boot"} # {}
  BY DEF PierInv, ModeInv
<1>7. ASSUME sat # "gone"
      PROVE  /\ open = "live" /\ writs = <<>> /\ inn = <<>> /\ red = <<>>
             /\ KingHas(writs, Tail(out)) /\ (serf = "up" => core = snap)
             /\ (serf # "up" => core = <<>>) /\ serf # "boot"
             /\ sat = "boot" => Len(snap) = 0
             /\ sat = "init" => sen = dun /\ dun = LastKey
  <2>1. open = "live" /\ red = <<>>
    BY <1>5, <1>7 DEF PierInv, DiskInv, DiskTypeOK, ModeInv, Loop
  <2>2. writs = <<>> /\ inn = <<>> /\ (serf = "up" => core = snap)
    BY <1>7 DEF PierInv, PipesInv
  <2>3. (serf # "up" => core = <<>>) /\ serf # "boot"
    BY <1>1 DEF PierInv, PierTypeOK, LordTypeOK, PipesInv
  <2>4. KingHas(writs, Tail(out))
    BY <1>1, <1>7 DEF KingHas
  <2>5. sat = "boot" => snap = <<>>
    BY DEF PierInv, NewInv
  <2>6. sat = "boot" => Len(snap) = 0
    BY <2>5
  <2>7. sat = "init" => sen = dun /\ dun = LastKey
    BY DEF PierInv, ModeInv
  <2> QED
    BY <2>1, <2>2, <2>3, <2>4, <2>6, <2>7
<1> QED
  BY <1>1, <1>3, <1>4, <1>5, <1>6, <1>7

\* The serf of a new ship is ready before its boot sequence is in the log.
LEMMA BootHeardInv ==
  ASSUME PierInv, Loop, sat = "boot", sen # dun, god = "init", Heard({"ripe"}), LordRipe,
         UNCHANGED <<writs, inn, serf, core, snap, fault, diskVars, pierVars>>
  PROVE  PierInv'
<1>1. /\ out # <<>> /\ Len(out) = 1 /\ Head(out).eve = Len(snap) /\ Tail(out) = <<>>
      /\ KingHas(writs, Tail(out)) /\ Len(snap) = 0 /\ writs = <<>> /\ inn = <<>> /\ open = "live"
  BY RipeHeard
<1>2. /\ god' = "live" /\ eve' = 0 /\ out' = <<>> /\ LastKey' = LastKey
      /\ UNCHANGED <<writs, inn, serf, core, snap, fault>>
      /\ UNCHANGED <<db, meta, open, sen, dun, put, ted, req, red>>
      /\ UNCHANGED <<sat, pay, ova, pec, gifts, rel, walls, effs, oops>>
  BY <1>1, LastKeySame DEF LordRipe, diskVars, pierVars, workVars
<1>3. DiskInv'
  BY DiskSame DEF PierInv
<1>4. LordTypeOK' /\ PipesInv' /\ MatchInv' /\ InnInv'
  <2> DEFINE ms == <<>>
             os == Tail(out)
  <2>1. ms \in Seq(Writ) /\ Len(ms) = 0 /\ LordPlan(writs, ms)
    BY <1>1, <1>2 DEF LordPlan
  <2>2. eve' \in 0 .. MaxWord
    BY <1>2, LordAssumption
  <2>3. KingHas(writs, os) /\ out' = os
    BY <1>1, <1>2
  <2> HIDE DEF ms, os
  <2>4. \A i \in 1 .. Len(ms) : Sound(ms[i])
    BY <2>1
  <2> QED
    BY <1>2, <2>1, <2>2, <2>3, <2>4, KingSends
<1>5. PierTypeOK'
  <2>1. DiskTypeOK'
    BY <1>3 DEF DiskInv
  <2> QED
    BY <1>2, <1>4, <2>1 DEF PierInv, PierTypeOK
<1>6. ModeInv' /\ NewInv'
  <2>1. ModeInv'
    BY <1>1, <1>2 DEF PierInv, ModeInv, Works
  <2>2. NewInv'
    BY <1>1, <1>2 DEF PierInv, NewInv
  <2> QED
    BY <2>1, <2>2
<1>7. WritsInv' /\ WorkInv' /\ PlayInv' /\ BatchInv'
  <2>1. sat' = "boot" /\ Len(writs') = 0
    BY <1>1, <1>2
  <2> QED
    BY <2>1 DEF WritsInv, WorkInv, PlayInv, BatchInv, Negotiates
<1>8. AgreeInv' /\ BoundInv'
  BY <1>2 DEF PierInv, AgreeInv, Agrees, BoundInv
<1>9. GiftInv' /\ EffsInv' /\ WallInv' /\ OopsInv'
  BY <1>2 DEF PierInv, GiftInv, EffsInv, WallInv, OopsInv, Works
<1> QED
  BY <1>3, <1>4, <1>5, <1>6, <1>7, <1>8, <1>9 DEF PierInv

\* What a replay that has read nothing asks for.
LEMMA FreshReplay ==
  ASSUME DiskShape, NEW g \in Nat, NEW e \in Nat, g <= e, e <= LastKey
  PROVE  PlayFrom(g, e) \in Plays /\ Replayed(PlayFrom(g, e), <<>>)
<1> DEFINE p == PlayFrom(g, e)
<1>1. p = [eve |-> e, sen |-> g, req |-> 0, q |-> <<>>]
  BY DEF PlayFrom
<1>2. <<>> \in Seq(Fact)
  OBVIOUS
<1> HIDE DEF p
<1>3. p \in Plays /\ p.eve = e /\ p.sen = g /\ p.req = 0 /\ p.q = <<>> /\ Len(p.q) = 0
  <2>1. p \in Plays /\ p.eve = e /\ p.sen = g /\ p.req = 0 /\ p.q = <<>>
    BY <1>1, <1>2 DEF Plays
  <2> QED
    BY <2>1
<1> DEFINE rd == <<>>
<1>4. Len(rd) = 0
  OBVIOUS
<1> HIDE DEF rd
<1>5. Replayed(p, rd)
  BY <1>3, <1>4 DEF Replayed
<1> QED
  BY <1>3, <1>5 DEF p, rd

\* The log under a replay: only its reads change.
LEMMA ReadsInv ==
  ASSUME PierInv, open = "live", UNCHANGED <<db, meta, open, sen, dun, put, ted, req>>,
         red' \in Seq(Read)
  PROVE  DiskInv'
<1>1. meta \in 0 .. MetaKeys /\ ted \in {"idle", "queued", "running", "good", "bad"}
  BY DEF PierInv, DiskInv, DiskTypeOK
<1> QED
  BY <1>1, QuietInv DEF PierInv

\* _pier_play_init and the first turn of the replay.
LEMMA ReplayStarts ==
  ASSUME PierInv, Loop, Heard({"ripe"}), god = "init", sat \in {"init", "boot"},
         sat = "boot" => sen = dun, LordRipe, UNCHANGED <<workVars, oops, serf, core, snap, fault>>,
         NEW e, e \in Len(snap) + 1 .. dun,
         PlayOn(PlayFrom(Len(snap), e), writs), red' = PlayReads(PlayFrom(Len(snap), e), red),
         UNCHANGED <<db, meta, open, sen, dun, put, ted, req>>
  PROVE  PierInv'
<1> DEFINE g == Len(snap)
           pl == PlayFrom(g, e)
           os == Tail(out)
           ws == writs
           rd == red
<1>1. /\ out # <<>> /\ Head(out).eve = g /\ os = <<>> /\ g \in Nat /\ g <= LastKey /\ DiskShape
      /\ open = "live" /\ ws = <<>> /\ rd = <<>> /\ KingHas(ws, os)
      /\ (serf = "up" => core = snap) /\ (serf # "up" => core = <<>>)
      /\ sat = "init" => sen = dun /\ dun = LastKey
  BY RipeHeard
<1>2. dun \in Nat /\ sen = dun /\ dun = LastKey /\ e \in Nat /\ g <= e /\ e <= LastKey
  <2>1. dun \in Nat /\ sen = dun /\ dun = LastKey
    BY <1>1 DEF DiskShape
  <2> QED
    BY <1>1, <2>1
<1>3. god' = "live" /\ eve' = g /\ out' = os
  BY <1>1 DEF LordRipe
<1>4. pl \in Plays /\ Replayed(pl, rd) /\ rd \in Seq(Read) /\ ws \in Seq(Writ) /\ os \in Seq(Plea)
  <2>1. pl \in Plays /\ Replayed(pl, <<>>)
    BY <1>1, <1>2, FreshReplay
  <2>2. <<>> \in Seq(Read) /\ <<>> \in Seq(Writ) /\ <<>> \in Seq(Plea)
    OBVIOUS
  <2> QED
    BY <1>1, <2>1, <2>2
<1>5. pl.sen = g /\ pl.eve = e
  BY DEF PlayFrom
<1>6. red' = PlayReads(pl, rd) /\ PlayOn(pl, ws)
  OBVIOUS
<1>7. Batches(ws, eve', pl.sen)
  <2>1. Len(ws) = 0
    BY <1>1
  <2> QED
    BY <2>1 DEF Batches
<1>8. serf = "up" => Len(core) = g
  BY <1>1
<1>9. Len(core) <= e
  <2>1. Len(<<>>) = 0
    OBVIOUS
  <2> QED
    BY <1>1, <1>2, <2>1
<1> HIDE DEF pl, os, ws, rd, g
<1>10. red' \in Seq(Read)
  BY <1>4, <1>6, PlaysOn
<1>11. DiskInv'
  BY <1>1, <1>10, ReadsInv
<1>12. /\ KingHas(ws, os) /\ god' = "live" /\ out' = os /\ PlayOn(pl, ws) /\ red' = PlayReads(pl, rd)
       /\ eve' \in Nat /\ eve' <= pl.sen /\ Batches(ws, eve', pl.sen)
       /\ serf = "up" /\ (\A i \in 1 .. Len(os) : ~ReplayFailed(os[i])) =>
            Len(core) = IF os = <<>> THEN eve' ELSE EndOf(ws[Len(os)])
       /\ Len(core) <= pl.eve /\ DiskInv' /\ sen' = dun' /\ dun' = LastKey
       /\ UNCHANGED <<db, meta, open, sen>>
       /\ UNCHANGED <<workVars, oops, serf, core, snap, fault>>
       /\ sat \in {"init", "boot", "play"}
  BY <1>1, <1>2, <1>3, <1>5, <1>6, <1>7, <1>8, <1>9, <1>11
<1> QED
  BY <1>4, <1>12, PlayOnInv

\* _pier_on_lord_live.
LEMMA RipeInv == PierInv /\ Ripe => PierInv'
<1> SUFFICES ASSUME PierInv, Ripe PROVE PierInv'
  OBVIOUS
<1> DEFINE g == Len(snap)
<1>1. Loop /\ Heard({"ripe"}) /\ god = "init"
  BY DEF Ripe
<1>2. /\ out # <<>> /\ Head(out).eve = g /\ Tail(out) = <<>> /\ g \in Nat /\ g <= LastKey /\ DiskShape
      /\ sat \in {"init", "boot", "gone"}
      /\ sat = "gone" => ExitStates \cap {"init", "boot"} # {}
      /\ sat # "gone" =>
           /\ open = "live" /\ writs = <<>> /\ inn = <<>> /\ red = <<>>
           /\ KingHas(writs, Tail(out)) /\ (serf = "up" => core = snap)
           /\ sat = "boot" => g = 0
           /\ sat = "init" => sen = dun /\ dun = LastKey
  BY <1>1, RipeHeard
<1>3. PICK til \in Tils :
        LET b == IF sat = "init" /\ til # 0 THEN til ELSE dun
        IN  IF RipeFault(g, b) # "none" THEN Abort(RipeFault(g, b)) ELSE LordRipe /\ HearLive(g, b)
  BY <1>2 DEF Ripe
<1> DEFINE b == IF sat = "init" /\ til # 0 THEN til ELSE dun
<1>4. /\ RipeFault(g, b) # "none" => Abort(RipeFault(g, b))
      /\ RipeFault(g, b) = "none" => LordRipe /\ HearLive(g, b)
  BY <1>3
<1>5. sat = "gone" \/ g <= dun
  BY <1>2 DEF DiskShape
<1>6. dun \in Nat /\ sen \in Nat
  BY <1>2 DEF DiskShape
<1>7. b # dun => sat = "init" /\ Tils # {0}
  OBVIOUS
<1> HIDE DEF b, g
<1>8. CASE RipeFault(g, b) # "none"
  <2>1. CASE sat = "gone"
    <3> DEFINE why == "null"
    <3>1. why \in {"null", "barrier", "state", "exit"} /\ Abort(why)
      BY <1>4, <1>8, <2>1 DEF RipeFault
    <3>2. /\ why = "null" => ExitStates \cap {"init", "boot"} # {}
          /\ why # "barrier" /\ why # "state" /\ why # "exit"
      BY <1>2, <2>1
    <3> HIDE DEF why
    <3> QED
      BY <3>1, <3>2, AbortInv
  <2>2. CASE sat # "gone"
    <3> DEFINE why == "barrier"
    <3>1. RipeFault(g, b) = why /\ Tils # {0}
      <4>1. ~(g > dun)
        BY <1>2, <1>5, <1>6, <2>2
      <4>2. RipeFault(g, b) = "barrier" /\ g < dun /\ b \notin g + 1 .. dun
        BY <1>8, <2>2, <4>1 DEF RipeFault
      <4>3. b # dun
        BY <1>2, <1>6, <4>2
      <4> QED
        BY <1>7, <4>2, <4>3
    <3>2. /\ why \in {"null", "barrier", "state", "exit"} /\ why # "null"
          /\ why # "state" /\ why # "exit"
      OBVIOUS
    <3> HIDE DEF why
    <3> QED
      BY <1>4, <1>8, <3>1, <3>2, AbortInv
  <2> QED
    BY <2>1, <2>2
<1>9. CASE RipeFault(g, b) = "none"
  <2>1. LordRipe /\ HearLive(g, b) /\ UNCHANGED <<workVars, oops, serf, core, snap, fault>>
    BY <1>4, <1>9 DEF HearLive
  <2>2. sat \in {"init", "boot"} /\ (sat = "init" /\ g < dun => b \in g + 1 .. dun)
    <3>1. sat # "gone"
      BY <1>9 DEF RipeFault
    <3>2. ~(g > dun)
      BY <1>2, <1>5, <1>6, <3>1
    <3>3. ~(sat = "init" /\ g < dun /\ b \notin g + 1 .. dun)
      BY <1>9, <3>1, <3>2 DEF RipeFault
    <3> QED
      BY <1>2, <3>1, <3>3
  <2>3. CASE sat = "boot" /\ sen # dun
    <3>1. UNCHANGED <<writs, inn, serf, core, snap, fault, diskVars, pierVars>>
      BY <2>1, <2>3 DEF HearLive, pierVars
    <3> QED
      BY <1>1, <2>1, <2>3, <3>1, BootHeardInv
  <2>4. CASE ~(sat = "boot" /\ sen # dun) /\ g = dun
    <3> DEFINE ms == <<>>
               os == Tail(out)
               ws == writs
    <3>1. PierGo(ws, ms)
      BY <2>1, <2>4 DEF HearLive
    <3>2. /\ ws \in Seq(Writ) /\ os \in Seq(Plea) /\ ms \in Seq(Writ) /\ KingHas(ws, os)
          /\ ws = <<>> /\ os = <<>> /\ Len(ms) = 0 /\ Len(ws) = 0
      <4>1. ws = <<>> /\ os = <<>> /\ KingHas(ws, os)
        BY <1>2, <2>2
      <4>2. <<>> \in Seq(Writ) /\ <<>> \in Seq(Plea) /\ Len(<<>>) = 0
        OBVIOUS
      <4> QED
        BY ONLY <4>1, <4>2
    <3>3. god' = "live" /\ eve' = g /\ out' = os
      BY <1>2, <2>1 DEF LordRipe
    <3>4. sen = dun /\ red = <<>> /\ (serf = "up" => Len(core) = sen)
      BY <1>2, <2>2, <2>4 DEF g
    <3> HIDE DEF ms, os, ws
    <3>5. PICK pep \in Peps : IF pep THEN PierLeave(ws, ms) ELSE PierWyrd(ws, ms)
      BY <3>1 DEF PierGo
    <3>6. CASE PierLeave(ws, ms)
      <4>1. eve' \in 0 .. MaxWord
        <5>1. g <= MaxEve
          <6>1. LastKey <= MaxEve
            BY DEF PierInv, BoundInv
          <6>2. LastKey \in Nat
            BY <1>2 DEF DiskShape
          <6> QED
            BY <1>2, <6>1, <6>2, EventsAssumption
        <5> QED
          BY <1>2, <3>3, <5>1, EventsAssumption, LordAssumption
      <4>2. /\ \A i \in 1 .. Len(ms) : Sound(ms[i]) /\ ms[i].typ \notin {"work", "play"}
            /\ \A i \in 1 .. Len(ws) : /\ ws[i].typ # "work"
                                       /\ "play" \notin ExitStates => ws[i].typ # "play"
        BY <3>2
      <4> QED
        BY <1>1, <2>1, <2>2, <3>2, <3>3, <3>6, <4>1, <4>2, LeaveInv
    <3>7. CASE PierWyrd(ws, ms)
      <4>1. \A i \in 1 .. Len(ms) : Sound(ms[i]) /\ ms[i].typ = "save"
        BY <3>2
      <4>2. eve' = sen
        BY <2>4, <3>3, <3>4
      <4> QED
        BY <1>1, <2>1, <2>2, <3>2, <3>3, <3>4, <3>7, <4>1, <4>2, WyrdInv
    <3> QED
      BY <3>5, <3>6, <3>7
  <2>5. CASE ~(sat = "boot" /\ sen # dun) /\ g # dun
    <3>1. /\ PlayOn(PlayFrom(g, b), writs) /\ red' = PlayReads(PlayFrom(g, b), red)
          /\ UNCHANGED <<db, meta, open, sen, dun, put, ted, req>>
      BY <2>1, <2>5 DEF HearLive
    <3>2. g < dun
      BY <1>2, <1>5, <1>6, <2>2, <2>5
    <3>3. b \in g + 1 .. dun
      <4>1. CASE sat = "init"
        BY <2>2, <3>2, <4>1
      <4>2. CASE sat = "boot"
        <5>1. b = dun
          BY <4>2 DEF b
        <5> QED
          BY <1>2, <1>6, <3>2, <5>1
      <4> QED
        BY <2>2, <4>1, <4>2
    <3> QED
      BY <1>1, <2>1, <2>2, <2>5, <3>1, <3>3, ReplayStarts DEF g
  <2> QED
    BY <2>3, <2>4, <2>5
<1> QED
  BY <1>8, <1>9

-----------------------------------------------------------------------------
(* The answers to the batches of a replay.                                 *)

\* Where a replay stands.
LEMMA PlayIs ==
  ASSUME PierInv, Loop, sat = "play"
  PROVE  /\ pay \in Plays /\ red \in Seq(Read) /\ Replayed(pay, red)
         /\ pay.eve \in Nat /\ pay.sen \in Nat /\ pay.req \in Nat /\ pay.q \in Seq(Fact)
         /\ Len(pay.q) \in Nat /\ PlayLast(pay) = pay.sen + Len(pay.q)
         /\ pay.sen + Len(pay.q) <= pay.eve /\ pay.eve <= LastKey
         /\ eve \in Nat /\ eve <= pay.sen /\ Len(core) <= pay.eve
         /\ god = "live" /\ open = "live" /\ DiskShape /\ sen = dun /\ dun = LastKey
         /\ LastKey \in Nat /\ LastKey <= MaxEve /\ meta = MetaKeys
<1>1. pay \in Plays /\ red \in Seq(Read) /\ eve \in Nat
  BY LordAssumption DEF PierInv, PierTypeOK, DiskTypeOK, LordTypeOK, Plays
<1>2. sen = dun /\ dun = LastKey /\ DiskShape /\ LastKey \in Nat
  <2>1. DiskShape
    BY DiskShaped DEF PierInv
  <2> QED
    BY <2>1 DEF PierInv, ModeInv, DiskShape
<1>3. open = "live" /\ god = "live"
  <2>1. open = "live"
    BY DEF PierInv, DiskInv, DiskTypeOK, ModeInv, Loop
  <2>2. god \in {"none", "init", "live"}
    BY DEF PierInv, PierTypeOK, LordTypeOK
  <2> QED
    BY <2>1, <2>2 DEF PierInv, ModeInv
<1>4. Replayed(pay, red) /\ eve <= pay.sen /\ Len(core) <= pay.eve
  BY <1>2 DEF PierInv, PlayInv, Replays, Replayed
<1>5. /\ PlayLast(pay) = pay.sen + Len(pay.q) /\ Len(pay.q) \in Nat
      /\ pay.eve \in Nat /\ pay.sen \in Nat /\ pay.req \in Nat /\ pay.q \in Seq(Fact)
  BY <1>1, <1>4, LastIs
<1>6. pay.sen + Len(pay.q) <= pay.eve /\ pay.eve <= LastKey
  BY <1>4 DEF Replayed
<1>7. LastKey <= MaxEve
  BY DEF PierInv, BoundInv
<1>8. meta = MetaKeys
  <2>1. ~(meta < MetaKeys)
    BY DEF PierInv, NewInv
  <2>2. meta \in 0 .. MetaKeys
    BY DEF PierInv, DiskInv, DiskTypeOK
  <2> QED
    BY <2>1, <2>2 DEF MetaKeys
<1> QED
  BY <1>1, <1>2, <1>3, <1>4, <1>5, <1>6, <1>7, <1>8

\* The answer is to the first of the batches.
LEMMA PlayHeard ==
  ASSUME PierInv, Loop, Heard({"play"})
  PROVE  /\ sat \in {"play", "gone"} /\ (sat = "gone" => "play" \in ExitStates)
         /\ writs[1].typ = "play" /\ out[1].typ = "play" /\ out[1].how # "swap"
<1>1. Heard({"work", "peek", "play", "live"}) /\ Head(out).typ = "play"
  BY DEF Heard
<1>2. /\ god = "live" /\ Head(out) = out[1] /\ Answers(out[1], writs[1])
      /\ 1 \in 1 .. Len(out) /\ 1 \in 1 .. Len(writs) /\ out # <<>> /\ writs # <<>>
  BY <1>1, AnswerHeard
<1>3. out[1].typ = "play" /\ writs[1].typ = "play"
  BY <1>1, <1>2 DEF Answers
<1>4. out[1].how # "swap"
  BY <1>2, <1>3 DEF PierInv, MatchInv, Matched
<1>5. sat \in {"play", "gone"} /\ (sat = "gone" => "play" \in ExitStates)
  <2>1. sat \in {"down", "init", "boot", "play", "wyrd", "work", "done", "gone"}
    BY DEF PierInv, PierTypeOK
  <2>2. sat # "init" /\ sat # "down"
    BY <1>2 DEF PierInv, ModeInv
  <2>3. sat # "boot"
    BY <1>2 DEF PierInv, NewInv
  <2>4. ~Negotiates /\ (sat = "gone" => "play" \in ExitStates)
    BY <1>2, <1>3 DEF PierInv, WritsInv
  <2> QED
    BY <2>1, <2>2, <2>3, <2>4 DEF Negotiates
<1> QED
  BY <1>3, <1>4, <1>5

\* The event that a batch brings the king to, and what is left to wait for.
LEMMA PlayedIs ==
  ASSUME PierInv, Loop, Heard({"play"}), sat = "play", Head(out).how # "bail",
         NEW g, g = EveAfter(Head(out), Head(writs))
  PROVE  /\ g \in Nat /\ g <= pay.sen
         /\ Batches(Tail(writs), g, pay.sen)
         /\ serf = "up" /\ (\A i \in 1 .. Len(Tail(out)) : ~ReplayFailed(Tail(out)[i])) =>
              Len(core) = IF Tail(out) = <<>> THEN g ELSE EndOf(Tail(writs)[Len(Tail(out))])
         /\ g = pay.eve => Tail(writs) = <<>> /\ Tail(out) = <<>> /\ red = <<>> /\ pay.sen = pay.eve
<1>1. /\ god = "live" /\ Head(out) = out[1] /\ Head(writs) = writs[1]
      /\ out[1] \in Plea /\ writs[1] \in Writ /\ writs # <<>> /\ out # <<>>
      /\ 1 \in 1 .. Len(out) /\ 1 \in 1 .. Len(writs)
      /\ writs \in Seq(Writ) /\ out \in Seq(Plea)
  <2>1. Heard({"work", "peek", "play", "live"})
    BY DEF Heard
  <2> QED
    BY <2>1, AnswerHeard
<1>2. writs[1].typ = "play" /\ out[1].typ = "play" /\ out[1].how = "done"
  <2>1. writs[1].typ = "play" /\ out[1].typ = "play" /\ out[1].how # "swap"
    BY PlayHeard
  <2>2. out[1].how \in {"done", "swap", "bail"}
    BY <1>1 DEF Plea
  <2> QED
    BY <1>1, <2>1, <2>2
<1>3. /\ Batches(writs, eve, pay.sen)
      /\ serf = "up" /\ NoneFailed =>
           Len(core) = IF out = <<>> THEN eve ELSE EndOf(writs[Len(out)])
  <2>1. writs[1].typ # "cram"
    BY <1>2
  <2> QED
    BY <2>1 DEF PierInv, BatchInv
<1>4. /\ Len(writs) \in Nat /\ Len(writs) >= 1 /\ Len(Tail(writs)) = Len(writs) - 1
      /\ Tail(writs) \in Seq(Writ)
      /\ \A i \in 1 .. Len(writs) - 1 : Tail(writs)[i] = writs[i + 1]
  BY <1>1, TailIs
<1>5. /\ Len(out) \in Nat /\ Len(out) >= 1 /\ Len(Tail(out)) = Len(out) - 1
      /\ Tail(out) \in Seq(Plea)
      /\ \A i \in 1 .. Len(out) - 1 : Tail(out)[i] = out[i + 1]
  BY <1>1, TailIs
<1>6. Len(out) <= Len(writs)
  BY <1>1 DEF PierInv, MatchInv, Matched
<1>7. g = EndOf(writs[1])
  BY <1>1, <1>2 DEF EveAfter, EndOf
<1>8. /\ \A i \in 1 .. Len(writs) : /\ writs[i].typ = "play" /\ Len(writs[i].jobs) > 0
                                    /\ eve < writs[i].eve /\ EndOf(writs[i]) <= pay.sen
      /\ \A i, j \in 1 .. Len(writs) : i < j => EndOf(writs[i]) < writs[j].eve
  BY <1>3 DEF Batches
<1>9. g \in Nat /\ g <= pay.sen
  <2> DEFINE w == writs[1]
             m == Len(w.jobs)
  <2>1. w.eve \in Nat /\ m \in Nat /\ m > 0
    <3>1. w.eve \in Nat
      BY <1>1, LordAssumption DEF Writ
    <3>2. w.jobs \in Seq(Job) /\ m > 0
      BY <1>1, <1>8 DEF Writ
    <3>3. m \in Nat
      BY <3>2, LenProperties
    <3> QED
      BY <3>1, <3>2, <3>3
  <2>2. g = w.eve + m - 1
    BY <1>7 DEF EndOf
  <2>3. g <= pay.sen
    BY <1>1, <1>7, <1>8
  <2> HIDE DEF m, w
  <2> QED
    BY <2>1, <2>2, <2>3
<1>10. Batches(Tail(writs), g, pay.sen)
  <2> DEFINE t == Tail(writs)
             l == Len(writs)
  <2>1. Len(t) = l - 1 /\ l \in Nat /\ \A i \in 1 .. l - 1 : t[i] = writs[i + 1]
    BY <1>4
  <2>2. \A i \in 1 .. l - 1 : i + 1 \in 1 .. l /\ 1 \in 1 .. l /\ 1 < i + 1
    BY <1>4
  <2> HIDE DEF t, l
  <2>3. ASSUME NEW i \in 1 .. Len(t)
        PROVE  /\ t[i].typ = "play" /\ Len(t[i].jobs) > 0
               /\ g < t[i].eve /\ EndOf(t[i]) <= pay.sen
    <3>1. i \in 1 .. l - 1 /\ t[i] = writs[i + 1] /\ i + 1 \in 1 .. l /\ 1 \in 1 .. l /\ 1 < i + 1
      BY <2>1, <2>2
    <3>2. g < writs[i + 1].eve
      BY <1>7, <1>8, <3>1 DEF l
    <3> QED
      BY <1>8, <3>1, <3>2 DEF l
  <2>4. ASSUME NEW i \in 1 .. Len(t), NEW j \in 1 .. Len(t), i < j
        PROVE  EndOf(t[i]) < t[j].eve
    <3>1. /\ t[i] = writs[i + 1] /\ i + 1 \in 1 .. l
          /\ t[j] = writs[j + 1] /\ j + 1 \in 1 .. l /\ i + 1 < j + 1
      BY <2>1, <2>2, <2>4
    <3> QED
      BY <1>8, <3>1 DEF l
  <2> QED
    BY <2>3, <2>4 DEF Batches, t
<1>11. ASSUME serf = "up", \A i \in 1 .. Len(Tail(out)) : ~ReplayFailed(Tail(out)[i])
       PROVE  Len(core) = IF Tail(out) = <<>> THEN g ELSE EndOf(Tail(writs)[Len(Tail(out))])
  <2>1. NoneFailed
    <3>1. ASSUME NEW i \in 1 .. Len(out) PROVE ~ReplayFailed(out[i])
      <4>1. CASE i = 1
        BY <1>2, <4>1 DEF ReplayFailed
      <4>2. CASE i # 1
        <5>1. i - 1 \in 1 .. Len(out) - 1 /\ (i - 1) + 1 = i
          BY <1>5, <4>2
        <5>2. Tail(out)[i - 1] = out[i] /\ i - 1 \in 1 .. Len(Tail(out))
          BY <1>5, <5>1
        <5> QED
          BY <1>11, <5>2
      <4> QED
        BY <4>1, <4>2
    <3> QED
      BY <3>1 DEF NoneFailed
  <2>2. Len(core) = EndOf(writs[Len(out)])
    BY <1>1, <1>3, <1>11, <2>1
  <2>3. CASE Tail(out) = <<>>
    <3>1. Len(out) = 1
      <4> DEFINE t == Tail(out)
      <4>1. t = <<>> /\ Len(t) = Len(out) - 1 /\ Len(out) \in Nat
        BY <1>5, <2>3
      <4> HIDE DEF t
      <4>2. Len(t) = 0
        BY ONLY <4>1
      <4> QED
        BY ONLY <4>1, <4>2
    <3> QED
      BY <1>7, <2>2, <2>3, <3>1
  <2>4. CASE Tail(out) # <<>>
    <3>1. Len(Tail(out)) # 0
      BY <1>5, <2>4, EmptySeq
    <3>2. Len(out) - 1 \in 1 .. Len(writs) - 1 /\ (Len(out) - 1) + 1 = Len(out)
      BY <1>4, <1>5, <1>6, <3>1
    <3>3. Tail(writs)[Len(out) - 1] = writs[Len(out)]
      BY <1>4, <3>2
    <3> QED
      BY <1>5, <2>2, <2>4, <3>3
  <2> QED
    BY <2>3, <2>4
<1>12. ASSUME g = pay.eve
       PROVE  Tail(writs) = <<>> /\ Tail(out) = <<>> /\ red = <<>> /\ pay.sen = pay.eve
  <2>1. /\ pay.sen \in Nat /\ pay.eve \in Nat /\ Len(pay.q) \in Nat /\ pay.sen + Len(pay.q) <= pay.eve
        /\ red \in Seq(Read) /\ Replayed(pay, red)
    BY PlayIs
  <2>2. pay.sen = pay.eve /\ Len(pay.q) = 0
    BY <1>9, <1>12, <2>1
  <2>3. Len(writs) = 1
    <3>1. SUFFICES ASSUME Len(writs) # 1 PROVE FALSE
      OBVIOUS
    <3>2. 2 \in 1 .. Len(writs) /\ 1 < 2
      BY <1>4, <3>1
    <3>3. EndOf(writs[1]) < writs[2].eve /\ EndOf(writs[2]) <= pay.sen /\ Len(writs[2].jobs) > 0
      BY <1>1, <1>8, <3>2
    <3> DEFINE e == writs[2].eve
               m == Len(writs[2].jobs)
    <3>4. e \in Nat /\ m \in Nat
      <4>1. writs[2] \in Writ
        BY <1>1, <3>2, ElementOfSeq
      <4>2. e \in Nat /\ writs[2].jobs \in Seq(Job)
        BY <4>1, LordAssumption DEF Writ
      <4> QED
        BY <4>2, LenProperties
    <3>5. e + m - 1 <= pay.sen /\ m > 0 /\ g < e
      BY <1>7, <3>3 DEF EndOf
    <3> HIDE DEF e, m
    <3> QED
      BY <1>9, <1>12, <2>1, <2>2, <3>4, <3>5
  <2>4. Tail(writs) = <<>> /\ Tail(out) = <<>>
    <3>1. Len(Tail(writs)) = 0 /\ Len(Tail(out)) = 0
      BY <1>4, <1>5, <1>6, <2>3
    <3> QED
      BY <1>4, <1>5, <3>1, EmptySeq
  <2>5. red = <<>>
    <3>1. SUFFICES ASSUME red # <<>> PROVE FALSE
      OBVIOUS
    <3>2. 1 \in 1 .. Len(red) /\ red[1] \in Read
      BY <2>1, <3>1, TailIs
    <3>3. red[1].eve = pay.sen + Len(pay.q) + 1 /\ red[1].eve + red[1].len - 1 <= pay.eve
      BY <2>1, <3>2 DEF Replayed
    <3>4. red[1].len \in Nat \ {0}
      BY <3>2 DEF Read
    <3> QED
      BY <2>1, <2>2, <3>3, <3>4
  <2> QED
    BY <2>2, <2>4, <2>5
<1> QED
  BY <1>9, <1>10, <1>11, <1>12

\* The writ of a checkpoint of what is durable.
LEMMA KeepIs ==
  ASSUME PierInv, NEW t \in {"save", "cram"}, NEW e \in Nat, e <= LastKey, LastKey \in Nat,
         NEW ws, ws = <<>>, NEW ms, ms = LordKeep(ws, t, e)
  PROVE  /\ ms \in Seq(Writ) /\ Len(ms) = 1 /\ ms[1].typ = t
         /\ \A i \in 1 .. Len(ms) : Sound(ms[i]) /\ ms[i].typ = t
<1> DEFINE w == KeepWrit(t, e)
<1>1. ms = <<w>>
  BY DEF LordKeep
<1>2. e \in 0 .. MaxWord
  <2>1. LastKey <= MaxEve
    BY DEF PierInv, BoundInv
  <2> QED
    BY <2>1, EventsAssumption, LordAssumption
<1>3. w = [typ |-> t, eve |-> e, jobs |-> <<>>]
  BY DEF KeepWrit
<1>4. w \in Writ /\ w.typ = t /\ w.eve = e
  BY <1>2, <1>3 DEF Writ
<1>5. Sound(w)
  BY <1>4 DEF Sound
<1> HIDE DEF w
<1>6. <<w>> \in Seq(Writ)
  BY ONLY <1>4
<1>7. Len(ms) = 1 /\ ms[1] = w
  BY ONLY <1>1
<1>8. ms \in Seq(Writ)
  BY ONLY <1>1, <1>6
<1>9. \A i \in 1 .. Len(ms) : ms[i] = w
  BY ONLY <1>7
<1>10. \A i \in 1 .. Len(ms) : Sound(ms[i]) /\ ms[i].typ = t
  BY <1>4, <1>5, <1>9
<1> QED
  BY <1>4, <1>7, <1>8, <1>10

\* The barrier of --replay-to is reached: a checkpoint is asked for.
LEMMA CramInv ==
  ASSUME PierInv, Loop, Heard({"play"}), sat = "play", Head(out).how # "bail",
         EveAfter(Head(out), Head(writs)) = pay.eve, LordHear,
         LordPlan(Tail(writs), LordKeep(Tail(writs), "cram", pay.eve)),
         pay' = pay, UNCHANGED <<diskVars, sat, workVars, oops>>
  PROVE  PierInv'
<1> DEFINE ws == Tail(writs)
           os == Tail(out)
           ms == LordKeep(ws, "cram", pay.eve)
           g  == EveAfter(Head(out), Head(writs))
<1>1. ws = <<>> /\ os = <<>> /\ red = <<>> /\ pay.sen = pay.eve
  <2>1. g = pay.eve => Tail(writs) = <<>> /\ Tail(out) = <<>> /\ red = <<>> /\ pay.sen = pay.eve
    <3> HIDE DEF g
    <3> QED
      BY PlayedIs DEF g
  <2> QED
    BY <2>1
<1>2. /\ pay.eve \in Nat /\ pay.eve <= LastKey /\ LastKey \in Nat /\ LastKey <= MaxEve
      /\ Len(core) <= pay.eve /\ Replayed(pay, red) /\ god = "live" /\ DiskShape
  BY PlayIs
<1>3. KingHas(ws, os) /\ ws \in Seq(Writ) /\ os \in Seq(Plea)
  <2>1. Heard({"work", "peek", "play", "live"})
    BY DEF Heard
  <2> QED
    BY <2>1, AnswerHeard
<1>4. /\ ms \in Seq(Writ) /\ Len(ms) = 1 /\ ms[1].typ = "cram"
      /\ \A i \in 1 .. Len(ms) : Sound(ms[i]) /\ ms[i].typ = "cram"
  <2> DEFINE t == "cram"
             e == pay.eve
  <2>1. t \in {"save", "cram"} /\ e \in Nat /\ e <= LastKey /\ LastKey \in Nat /\ ms = LordKeep(ws, t, e)
    BY <1>2
  <2> HIDE DEF t, e, ms, ws
  <2>2. /\ ms \in Seq(Writ) /\ Len(ms) = 1 /\ ms[1].typ = t
        /\ \A i \in 1 .. Len(ms) : Sound(ms[i]) /\ ms[i].typ = t
    BY <1>1, <2>1, KeepIs
  <2> QED
    BY <2>2 DEF t
<1>5. LordPlan(ws, ms)
  OBVIOUS
<1>6. /\ eve' = pay.eve /\ out' = os /\ UNCHANGED <<god, core, snap, serf, fault>>
      /\ UNCHANGED <<db, meta, open, sen, dun, put, ted, req, red>>
      /\ UNCHANGED <<sat, pay, ova, pec, gifts, rel, walls, effs, oops>> /\ LastKey' = LastKey
  BY LastKeySame DEF LordHear, diskVars, workVars
<1> HIDE DEF ws, os, ms, g
<1>7. writs' = ms /\ inn' = inn \o ms
  BY <1>1, <1>4, <1>5, ConcatEmptySeq DEF LordPlan
<1>8. DiskInv'
  BY DiskSame DEF PierInv
<1>9. LordTypeOK' /\ PipesInv' /\ MatchInv' /\ InnInv'
  <2>1. eve' \in 0 .. MaxWord
    BY <1>2, <1>6, EventsAssumption, LordAssumption
  <2> QED
    BY <1>2, <1>3, <1>4, <1>5, <1>6, <2>1, KingSends
<1>10. PierTypeOK'
  <2>1. DiskTypeOK'
    BY <1>8 DEF DiskInv
  <2> QED
    BY <1>6, <1>9, <2>1 DEF PierInv, PierTypeOK
<1>11. ModeInv' /\ NewInv'
  <2>1. ModeInv'
    BY <1>6 DEF PierInv, ModeInv, Works
  <2>2. NewInv'
    BY <1>6 DEF PierInv, NewInv
  <2> QED
    BY <2>1, <2>2
<1>12. WritsInv' /\ WorkInv' /\ GiftInv'
  <2>1. \A i \in 1 .. Len(writs') : writs'[i].typ = "cram"
    BY <1>4, <1>7
  <2> QED
    BY <1>6, <2>1 DEF WritsInv, WorkInv, GiftInv, Works, Negotiates
<1>13. PlayInv'
  <2>1. Replays(pay, red)'
    BY <1>6 DEF PierInv, PlayInv, Replays
  <2>2. eve' <= pay.sen
    BY <1>1, <1>2, <1>6
  <2> QED
    BY <1>2, <1>6, <2>1, <2>2 DEF PlayInv
<1>14. BatchInv'
  BY <1>4, <1>6, <1>7 DEF BatchInv
<1>15. EffsInv' /\ WallInv' /\ OopsInv'
  <2>1. walls = <<>>
    BY DEF PierInv, ModeInv, Works
  <2> QED
    BY <1>6, <2>1 DEF PierInv, EffsInv, WallInv, OopsInv, Works
<1>16. AgreeInv'
  <2>1. EventsAhead'
    <3>1. DiskShape' /\ (god = "live")'
      BY <1>2, <1>6, <1>8, DiskShapedNext
    <3> QED
      BY <1>9, <1>10, <1>11, <1>12, <1>14, <3>1, EventsAreAheadNext
  <2>2. Agrees(core)'
    BY <1>6 DEF PierInv, AgreeInv, Agrees
  <2> QED
    BY <1>6, <2>1, <2>2, AgreeNext
<1>17. BoundInv'
  <2>1. ova = <<>> /\ Len(<<>>) = 0
    BY DEF PierInv, ModeInv, Works
  <2>2. Len(ova') \in Nat /\ Len(ova') <= Len(ova) /\ Len(ova) - Len(ova') = 0
    BY <1>6, <2>1
  <2>3. Priced(ms, 0) /\ \A i \in 1 .. Len(ms) : ms[i].typ # "play"
    BY <1>4, PricedFree
  <2>4. serf' # "dead" =>
           \E b : Budget(inn', Len(core'), b) /\ b[Len(inn')] + Len(ova') <= MaxEve
    BY <1>4, <1>6, <1>7, <2>2, <2>3, BoundSends
  <2>5. sen' <= MaxEve /\ LastKey' <= MaxEve /\ (sat' \in {"init", "boot", "play"} => sen' < MaxEve)
    BY <1>6 DEF PierInv, BoundInv
  <2> QED
    BY <2>4, <2>5 DEF BoundInv
<1> QED
  BY <1>8, <1>9, <1>10, <1>11, <1>12, <1>13, <1>14, <1>15, <1>16, <1>17 DEF PierInv

\* _pier_on_lord_play_done, _pier_on_lord_play_bail.
LEMMA PlayedInv == PierInv /\ Played => PierInv'
<1> SUFFICES ASSUME PierInv, Played PROVE PierInv'
  OBVIOUS
<1> DEFINE g == EveAfter(Head(out), Head(writs))
           ws == Tail(writs)
           os == Tail(out)
<1>1. /\ Loop /\ Heard({"play"})
      /\ IF sat # "play" THEN Abort("state")
         ELSE IF Head(out).how = "bail" THEN PierBail
         ELSE IF g > pay.eve THEN Abort("replay")
         ELSE /\ LordHear
              /\ UNCHANGED <<workVars, oops>>
              /\ IF g = pay.eve THEN PlayComplete(pay, ws)
                 ELSE /\ PlayOn(pay, ws)
                      /\ red' = PlayReads(pay, red)
                      /\ UNCHANGED <<db, meta, open, sen, dun, put, ted, req>>
  BY DEF Played
<1>2. CASE sat # "play"
  <2> DEFINE why == "state"
  <2>1. Abort(why) /\ "play" \in ExitStates
    BY <1>1, <1>2, PlayHeard
  <2>2. /\ why \in {"null", "barrier", "state", "exit"} /\ why # "null" /\ why # "barrier"
        /\ why # "exit"
    OBVIOUS
  <2> HIDE DEF why
  <2> QED
    BY <2>1, <2>2, AbortInv
<1>3. CASE sat = "play" /\ Head(out).how = "bail"
  BY <1>1, <1>3, PierBailInv
<1>4. CASE sat = "play" /\ Head(out).how # "bail"
  <2>1. /\ g \in Nat /\ g <= pay.sen /\ Batches(ws, g, pay.sen)
        /\ serf = "up" /\ (\A i \in 1 .. Len(os) : ~ReplayFailed(os[i])) =>
             Len(core) = IF os = <<>> THEN g ELSE EndOf(ws[Len(os)])
        /\ g = pay.eve => ws = <<>> /\ os = <<>> /\ red = <<>> /\ pay.sen = pay.eve
    <3> HIDE DEF g
    <3> QED
      BY <1>1, <1>4, PlayedIs DEF g
  <2>2. /\ pay \in Plays /\ red \in Seq(Read) /\ Replayed(pay, red)
        /\ pay.eve \in Nat /\ pay.sen \in Nat /\ Len(pay.q) \in Nat
        /\ pay.sen + Len(pay.q) <= pay.eve /\ pay.eve <= LastKey /\ Len(core) <= pay.eve
        /\ god = "live" /\ open = "live" /\ sen = dun /\ dun = LastKey
        /\ LastKey \in Nat /\ LastKey <= MaxEve
    BY <1>1, <1>4, PlayIs
  <2>3. KingHas(ws, os) /\ ws \in Seq(Writ) /\ os \in Seq(Plea)
    <3>1. Heard({"work", "peek", "play", "live"})
      BY <1>1 DEF Heard
    <3> QED
      BY <3>1, AnswerHeard
  <2>4. ~(g > pay.eve)
    BY <2>1, <2>2
  <2>5. /\ LordHear /\ UNCHANGED <<workVars, oops>>
        /\ g = pay.eve => PlayComplete(pay, ws)
        /\ g # pay.eve => /\ PlayOn(pay, ws)
                          /\ red' = PlayReads(pay, red)
                          /\ UNCHANGED <<db, meta, open, sen, dun, put, ted, req>>
    BY <1>1, <1>4, <2>4
  <2>6. eve' = g /\ out' = os /\ god' = "live" /\ UNCHANGED <<core, snap, serf, fault>>
    BY <2>2, <2>5 DEF LordHear
  <2>7. CASE g # pay.eve
    <3>1. red' \in Seq(Read)
      BY <2>2, <2>5, <2>7, PlaysOn
    <3>2. DiskInv'
      BY <2>2, <2>5, <2>7, <3>1, ReadsInv
    <3> HIDE DEF g, ws, os
    <3>3. /\ Loop /\ sat \in {"init", "boot", "play"} /\ KingHas(ws, os) /\ god' = "live" /\ out' = os
          /\ Replayed(pay, red) /\ PlayOn(pay, ws) /\ red' = PlayReads(pay, red)
          /\ eve' \in Nat /\ eve' <= pay.sen /\ Batches(ws, eve', pay.sen)
          /\ serf = "up" /\ (\A i \in 1 .. Len(os) : ~ReplayFailed(os[i])) =>
               Len(core) = IF os = <<>> THEN eve' ELSE EndOf(ws[Len(os)])
          /\ Len(core) <= pay.eve /\ DiskInv' /\ sen' = dun' /\ dun' = LastKey
          /\ UNCHANGED <<db, meta, open, sen>>
          /\ UNCHANGED <<workVars, oops, serf, core, snap, fault>>
      BY <1>1, <1>4, <2>1, <2>2, <2>3, <2>5, <2>6, <2>7, <3>2
    <3> QED
      BY <2>2, <2>3, <3>3, PlayOnInv
  <2>8. CASE g = pay.eve /\ pay.eve < dun
    <3>1. /\ LordPlan(ws, LordKeep(ws, "cram", pay.eve))
          /\ pay' = pay /\ UNCHANGED <<diskVars, sat>>
      BY <2>5, <2>8 DEF PlayComplete
    <3> QED
      BY <1>1, <1>4, <2>5, <2>8, <3>1, CramInv
  <2>9. CASE g = pay.eve /\ ~(pay.eve < dun)
    <3> DEFINE t == "save"
               e == pay.eve
               ms == LordKeep(ws, t, e)
    <3>1. PierGo(ws, ms) /\ t \in {"save", "cram"} /\ t = "save"
      BY <2>5, <2>9 DEF PlayComplete
    <3>2. ws = <<>> /\ os = <<>> /\ red = <<>> /\ e = sen /\ e \in Nat /\ e <= LastKey /\ LastKey \in Nat
      BY <2>1, <2>2, <2>9
    <3>3. ms = LordKeep(ws, t, e)
      OBVIOUS
    <3> HIDE DEF ms, t
    <3>4. /\ ms \in Seq(Writ)
          /\ \A i \in 1 .. Len(ms) : Sound(ms[i]) /\ ms[i].typ = "save"
      <4> HIDE DEF e, ws
      <4>1. /\ ms \in Seq(Writ)
            /\ \A i \in 1 .. Len(ms) : Sound(ms[i]) /\ ms[i].typ = t
        BY <3>1, <3>2, <3>3, KeepIs
      <4> QED
        BY <3>1, <4>1
    <3>5. serf = "up" => Len(core) = sen
      <4>1. Len(os) = 0
        <5>1. os = <<>>
          BY <3>2
        <5> HIDE DEF os
        <5>2. Len(<<>>) = 0
          OBVIOUS
        <5> QED
          BY ONLY <5>1, <5>2
      <4>2. \A i \in 1 .. Len(os) : ~ReplayFailed(os[i])
        BY <4>1
      <4> QED
        BY <2>1, <2>9, <3>2, <4>2
    <3>6. eve' = sen /\ eve' \in 0 .. MaxWord /\ Len(ws) = 0
      <4>1. eve' = sen
        BY <2>6, <2>9, <3>2
      <4>2. sen \in 0 .. MaxWord
        BY <2>2, EventsAssumption, LordAssumption
      <4>3. Len(ws) = 0
        <5>1. ws = <<>>
          BY <3>2
        <5> HIDE DEF ws
        <5>2. Len(<<>>) = 0
          OBVIOUS
        <5> QED
          BY ONLY <5>1, <5>2
      <4> QED
        BY <4>1, <4>2, <4>3
    <3>7. /\ UNCHANGED <<workVars, oops, serf, core, snap, fault>>
          /\ sat \in {"init", "boot", "play"} /\ Loop /\ sen = dun
      BY <1>1, <1>4, <2>2, <2>5, <2>6
    <3> HIDE DEF ws, os, e, g
    <3>8. PICK pep \in Peps : IF pep THEN PierLeave(ws, ms) ELSE PierWyrd(ws, ms)
      BY <3>1 DEF PierGo
    <3>9. CASE PierLeave(ws, ms)
      <4>1. /\ \A i \in 1 .. Len(ms) : Sound(ms[i]) /\ ms[i].typ \notin {"work", "play"}
            /\ \A i \in 1 .. Len(ws) : /\ ws[i].typ # "work"
                                       /\ "play" \notin ExitStates => ws[i].typ # "play"
        BY <3>4, <3>6
      <4> QED
        BY <2>3, <2>6, <3>4, <3>6, <3>7, <3>9, <4>1, LeaveInv
    <3>10. CASE PierWyrd(ws, ms)
      BY <2>3, <2>6, <3>2, <3>4, <3>5, <3>6, <3>7, <3>10, WyrdInv
    <3> QED
      BY <3>8, <3>9, <3>10
  <2> QED
    BY <2>7, <2>8, <2>9
<1> QED
  BY <1>2, <1>3, <1>4

\* _pier_play_plan: what has been read is what comes next.
LEMMA QueuedIs ==
  ASSUME DiskShape, NEW pl \in Plays, NEW r \in Read, NEW rd \in Seq(Read), Len(rd) = 1, rd[1] = r, Replayed(pl, rd), NEW fs, fs = LmdbRead(r)
  PROVE  /\ fs # <<>> /\ fs[1].eve = PlayLast(pl) + 1 /\ PlayLast(pl) < pl.eve
         /\ PlayQueued(pl, fs) \in Plays /\ PlayQueued(pl, fs).sen = pl.sen
         /\ PlayQueued(pl, fs).eve = pl.eve
         /\ Replayed(PlayQueued(pl, fs), <<>>)
<1>1. /\ PlayLast(pl) = pl.sen + Len(pl.q) /\ Len(pl.q) \in Nat
      /\ pl.eve \in Nat /\ pl.sen \in Nat /\ pl.req \in Nat /\ pl.q \in Seq(Fact)
  BY LastIs
<1>2. LastKey \in Nat /\ DOMAIN db = 1 .. LastKey /\ \A i \in 1 .. LastKey : db[i] \in Job
  BY DEF DiskShape
<1>3. 1 \in 1 .. Len(rd) /\ rd[1] = r /\ r.eve \in Nat \ {0} /\ r.len \in Nat \ {0}
  BY DEF Read
<1>4. /\ r.eve = pl.sen + Len(pl.q) + 1 /\ r.eve + r.len - 1 <= pl.eve /\ pl.req = r.eve
      /\ pl.eve <= LastKey
      /\ \A i \in 1 .. Len(pl.q) : pl.q[i].eve = pl.sen + i /\ pl.q[i].job = db[pl.sen + i]
  BY <1>3 DEF Replayed
<1>4a. /\ PlayLast(pl) + 1 = r.eve /\ PlayLast(pl) < pl.eve /\ r.eve + r.len - 1 <= LastKey
       /\ pl.sen + (Len(pl.q) + r.len) <= pl.eve /\ r.eve <= pl.sen + (Len(pl.q) + r.len)
       /\ 1 \in 1 .. r.len
  <2> DEFINE a == PlayLast(pl)
             b == pl.sen
             c == Len(pl.q)
             d == pl.eve
             e == r.eve
             l == r.len
  <2>1. /\ a = b + c /\ b \in Nat /\ c \in Nat /\ d \in Nat /\ e \in Nat /\ l \in Nat /\ l > 0
        /\ e = b + c + 1 /\ e + l - 1 <= d /\ d <= LastKey /\ LastKey \in Nat
    BY <1>1, <1>2, <1>3, <1>4
  <2> HIDE DEF a, b, c, d, e, l
  <2>2. a + 1 = e /\ a < d /\ e + l - 1 <= LastKey /\ b + (c + l) <= d /\ e <= b + (c + l) /\ 1 \in 1 .. l
    BY ONLY <2>1
  <2> QED
    BY <2>2 DEF a, b, c, d, e, l
<1>5. /\ Len(fs) = r.len
      /\ \A i \in 1 .. r.len : fs[i] = [eve |-> r.eve + i - 1, job |-> db[r.eve + i - 1]]
  BY <1>2, <1>4a, ReadIs
<1>6. fs \in Seq(Fact)
  <2>1. \E n \in Nat : DOMAIN fs = 1 .. n /\ fs = [i \in 1 .. n |-> fs[i]]
    <3> DEFINE k == CHOOSE n \in 0 .. r.len :
                      /\ r.eve .. (r.eve + n - 1) \subseteq DOMAIN db
                      /\ n = r.len \/ (r.eve + n) \notin DOMAIN db
    <3>1. fs = [i \in 1 .. k |-> [eve |-> r.eve + i - 1, job |-> db[r.eve + i - 1]]]
      BY DEF LmdbRead
    <3>2. k \in Nat
      <4>1. r.len \in 0 .. r.len /\ r.eve .. (r.eve + r.len - 1) \subseteq DOMAIN db
        BY <1>2, <1>3, <1>4a
      <4>2. k \in 0 .. r.len
        BY <4>1
      <4> QED
        BY <1>3, <4>2
    <3> HIDE DEF k
    <3>3. DOMAIN fs = 1 .. k /\ fs = [i \in 1 .. k |-> fs[i]]
      BY ONLY <3>1
    <3> QED
      BY <3>2, <3>3
  <2>2. PICK n \in Nat : DOMAIN fs = 1 .. n /\ fs = [i \in 1 .. n |-> fs[i]]
    BY <2>1
  <2>3. fs \in [1 .. n -> {fs[i] : i \in 1 .. n}]
    BY <2>2
  <2>4. Len(fs) = n
    BY <2>2, <2>3, LenProperties
  <2>5. \A i \in 1 .. n : fs[i] \in Fact
    <3> SUFFICES ASSUME NEW i \in 1 .. n PROVE fs[i] \in Fact
      OBVIOUS
    <3>1. r.eve + i - 1 \in 1 .. LastKey /\ i \in 1 .. r.len /\ r.eve + i - 1 \in Nat
      <4>1. i \in 1 .. r.len
        BY <1>5, <2>4
      <4> QED
        BY <1>2, <1>3, <1>4a, <4>1
    <3> DEFINE e == r.eve + i - 1
    <3>2. db[e] \in Job /\ e \in Nat
      BY <1>2, <3>1
    <3>3. fs[i] = [eve |-> e, job |-> db[e]]
      BY <1>5, <3>1
    <3> HIDE DEF e
    <3>4. e \in Nat \ {0}
      <4>1. e \in 1 .. LastKey
        BY <3>1 DEF e
      <4> QED
        BY <1>2, <4>1
    <3> QED
      BY ONLY <3>2, <3>3, <3>4 DEF Fact
  <2> QED
    BY <2>2, <2>5
<1> HIDE DEF Fact
<1> DEFINE p == PlayQueued(pl, fs)
<1>7. p.q = pl.q \o fs /\ p.sen = pl.sen /\ p.eve = pl.eve /\ p.req = pl.req /\ p \in Plays
  <2>1. pl.q \o fs \in Seq(Fact)
    BY <1>1, <1>6
  <2> QED
    BY <2>1 DEF PlayQueued, Plays
<1>8. /\ Len(p.q) = Len(pl.q) + r.len
      /\ \A i \in 1 .. Len(pl.q) : p.q[i] = pl.q[i]
      /\ \A i \in 1 .. r.len : p.q[Len(pl.q) + i] = fs[i]
  <2> DEFINE s == pl.q
  <2>1. s \in Seq(Fact)
    BY <1>1
  <2> HIDE DEF p, s
  <2>2. /\ Len(s \o fs) = Len(s) + Len(fs)
        /\ \A i \in 1 .. Len(s) : (s \o fs)[i] = s[i]
        /\ \A i \in 1 .. Len(fs) : (s \o fs)[Len(s) + i] = fs[i]
    BY <1>6, <2>1, JoinIs
  <2> QED
    BY <1>5, <1>7, <2>2 DEF s
<1> DEFINE none == <<>>
<1>9. Len(none) = 0
  OBVIOUS
<1> HIDE DEF p, none
<1>10. Replayed(p, none)
  <2>1. p.sen + Len(p.q) <= p.eve /\ p.eve <= LastKey
    BY <1>4, <1>4a, <1>7, <1>8
  <2>2. \A i \in 1 .. Len(p.q) : p.q[i].eve = p.sen + i /\ p.q[i].job = db[p.sen + i]
    <3> SUFFICES ASSUME NEW i \in 1 .. Len(p.q)
                 PROVE  p.q[i].eve = p.sen + i /\ p.q[i].job = db[p.sen + i]
      OBVIOUS
    <3>1. CASE i \in 1 .. Len(pl.q)
      BY <1>4, <1>7, <1>8, <3>1
    <3>2. CASE i \notin 1 .. Len(pl.q)
      <4> DEFINE j == i - Len(pl.q)
      <4>1. j \in 1 .. r.len /\ i = Len(pl.q) + j /\ r.eve + j - 1 = pl.sen + i
        <5> DEFINE c == Len(pl.q)
                   l == r.len
                   e == r.eve
                   b == pl.sen
        <5>1. /\ c \in Nat /\ l \in Nat /\ b \in Nat /\ e = b + c + 1
              /\ i \in 1 .. c + l /\ i \notin 1 .. c
          BY <1>1, <1>3, <1>4, <1>8, <3>2
        <5> HIDE DEF c, l, e, b
        <5>2. i - c \in 1 .. l /\ i = c + (i - c) /\ e + (i - c) - 1 = b + i
          BY ONLY <5>1
        <5> QED
          BY <5>2 DEF c, l, e, b
      <4> DEFINE e == r.eve + j - 1
      <4>1a. e = pl.sen + i
        BY <4>1
      <4> HIDE DEF j
      <4>1b. p.q[i] = fs[j] /\ fs[j] = [eve |-> e, job |-> db[e]]
        BY <1>5, <1>8, <4>1
      <4> HIDE DEF e
      <4>2. p.q[i].eve = e /\ p.q[i].job = db[e]
        BY ONLY <4>1b
      <4> QED
        BY <1>7, <4>1a, <4>2
    <3> QED
      BY <3>1, <3>2
  <2>3. p.req <= p.sen + Len(p.q)
    BY <1>4, <1>4a, <1>7, <1>8
  <2> QED
    BY <1>9, <2>1, <2>2, <2>3 DEF Replayed
<1>11. PlayLast(pl) < pl.eve
  BY <1>4a
<1>12. fs # <<>> /\ fs[1].eve = PlayLast(pl) + 1
  <2> DEFINE e == r.eve + 1 - 1
  <2>0. fs[1] = [eve |-> e, job |-> db[e]]
    BY <1>4a, <1>5
  <2> HIDE DEF e
  <2>1. fs[1].eve = r.eve + 1 - 1
    <3>1. fs[1].eve = e
      BY ONLY <2>0
    <3> QED
      BY <3>1 DEF e
  <2>2. fs[1].eve = PlayLast(pl) + 1
    BY <1>3, <1>4a, <2>1
  <2>3. fs # <<>>
    BY <1>3, <1>5
  <2> QED
    BY <2>2, <2>3
<1> QED
  BY <1>7, <1>10, <1>11, <1>12 DEF p, none

\* _pier_on_disk_read_done, _pier_play_plan.
LEMMA ReadbackInv == PierInv /\ Readback => PierInv'
<1> SUFFICES ASSUME PierInv, Readback PROVE PierInv'
  OBVIOUS
<1>1. Loop /\ open = "live"
  BY DEF Readback
<1>2. PICK i \in DOMAIN red :
        LET fs == LmdbRead(red[i])
            pl == PlayQueued(pay, fs)
        IN  IF \/ sat # "play" \/ eve >= pay.eve
               \/ fs = <<>> \/ fs[1].eve # PlayLast(pay) + 1
            THEN Abort("read")
            ELSE /\ PlayOn(pl, writs)
                 /\ red' = PlayReads(pl, DiskReadClose(i))
                 /\ UNCHANGED <<db, meta, open, sen, dun, put, ted, req>>
                 /\ UNCHANGED <<lordRest, workVars, oops>>
  BY DEF Readback
<1> DEFINE fs == LmdbRead(red[i])
           pl == PlayQueued(pay, fs)
<1>3. sat = "play"
  BY <1>2 DEF PierInv, ModeInv
<1>4. /\ pay \in Plays /\ red \in Seq(Read) /\ Replayed(pay, red)
      /\ pay.eve \in Nat /\ pay.sen \in Nat /\ Len(pay.q) \in Nat
      /\ PlayLast(pay) = pay.sen + Len(pay.q)
      /\ eve \in Nat /\ eve <= pay.sen /\ Len(core) <= pay.eve
      /\ god = "live" /\ DiskShape /\ sen = dun /\ dun = LastKey
  BY <1>1, <1>3, PlayIs
<1>5. i = 1 /\ Len(red) = 1 /\ red[1] \in Read
  <2>1. Len(red) \in Nat /\ DOMAIN red = 1 .. Len(red) /\ Len(red) <= 1
    BY <1>4 DEF Replayed
  <2>2. i = 1 /\ Len(red) = 1
    BY <2>1
  <2>3. red[1] \in Read
    <3>1. 1 \in 1 .. Len(red)
      BY <2>2
    <3> QED
      BY <1>4, <3>1, ElementOfSeq
  <2> QED
    BY <2>2, <2>3
<1>6. /\ fs # <<>> /\ fs[1].eve = PlayLast(pay) + 1 /\ PlayLast(pay) < pay.eve
      /\ pl \in Plays /\ pl.sen = pay.sen /\ pl.eve = pay.eve /\ Replayed(pl, <<>>)
  <2> DEFINE r == red[1]
             rd == red
  <2>1. r \in Read /\ rd \in Seq(Read) /\ Len(rd) = 1 /\ rd[1] = r /\ Replayed(pay, rd) /\ fs = LmdbRead(r)
    BY <1>4, <1>5
  <2> HIDE DEF r, rd, fs
  <2>2. DiskShape /\ pay \in Plays
    BY <1>4
  <2>3. /\ fs # <<>> /\ fs[1].eve = PlayLast(pay) + 1 /\ PlayLast(pay) < pay.eve
        /\ PlayQueued(pay, fs) \in Plays /\ PlayQueued(pay, fs).sen = pay.sen
        /\ PlayQueued(pay, fs).eve = pay.eve
        /\ Replayed(PlayQueued(pay, fs), <<>>)
    BY ONLY <2>1, <2>2, QueuedIs
  <2> QED
    BY <2>3
<1>7. eve < pay.eve
  BY <1>4, <1>6
<1>8. DiskReadClose(i) = <<>>
  <2>1. DiskReadClose(i) = SubSeq(red, 1, 0) \o SubSeq(red, 2, 1)
    BY <1>5 DEF DiskReadClose
  <2>2. SubSeq(red, 1, 0) = <<>> /\ SubSeq(red, 2, 1) = <<>>
    BY <1>4
  <2>3. <<>> \o <<>> = <<>>
    OBVIOUS
  <2> QED
    BY <2>1, <2>2, <2>3
<1>9. /\ PlayOn(pl, writs) /\ red' = PlayReads(pl, <<>>)
      /\ UNCHANGED <<db, meta, open, sen, dun, put, ted, req>>
      /\ UNCHANGED <<lordRest, workVars, oops>>
  BY <1>2, <1>3, <1>4, <1>6, <1>7, <1>8
<1> DEFINE rd == <<>>
<1>10. rd \in Seq(Read)
  OBVIOUS
<1> HIDE DEF pl, fs, rd
<1>11. red' \in Seq(Read)
  BY <1>6, <1>9, <1>10, PlaysOn DEF rd
<1>12. DiskInv'
  BY <1>1, <1>9, <1>11, ReadsInv
<1> DEFINE ws == writs
           os == out
<1>13. /\ KingHas(ws, os) /\ ws \in Seq(Writ) /\ os \in Seq(Plea)
       /\ god' = "live" /\ out' = os /\ eve' = eve
       /\ sen' = dun' /\ dun' = LastKey /\ UNCHANGED <<db, meta, open, sen>>
       /\ UNCHANGED <<workVars, oops, serf, core, snap, fault>>
  BY <1>4, <1>9 DEF KingHas, lordRest, PierInv, PierTypeOK, LordTypeOK
<1>14. /\ Batches(ws, eve', pl.sen)
       /\ serf = "up" /\ (\A k \in 1 .. Len(os) : ~ReplayFailed(os[k])) =>
            Len(core) = IF os = <<>> THEN eve' ELSE EndOf(ws[Len(os)])
  <2>1. eve # pay.eve
    BY <1>4, <1>7
  <2>2. /\ Batches(writs, eve, pay.sen)
        /\ serf = "up" /\ NoneFailed =>
             Len(core) = IF out = <<>> THEN eve ELSE EndOf(writs[Len(out)])
    BY <1>3, <2>1 DEF PierInv, BatchInv
  <2>3. eve' = eve /\ pl.sen = pay.sen
    BY <1>6, <1>13
  <2> QED
    BY <2>2, <2>3 DEF NoneFailed
<1> HIDE DEF ws, os
<1>15. /\ PlayOn(pl, ws) /\ red' = PlayReads(pl, rd) /\ Replayed(pl, rd)
       /\ eve' \in Nat /\ eve' <= pl.sen /\ Len(core) <= pl.eve
  BY <1>4, <1>6, <1>9, <1>13 DEF ws, rd
<1> QED
  BY <1>1, <1>3, <1>6, <1>10, <1>12, <1>13, <1>14, <1>15, PlayOnInv

\* The boot sequence is durable: the log has nothing else, and the process has
\* asked for nothing yet.
LEMMA BootWritten ==
  ASSUME PierInv, ~Works, WriteDone
  PROVE  /\ sat = "boot" /\ Loop /\ open = "live" /\ ted = "good" /\ DiskShape
         /\ snap = <<>> /\ core = <<>> /\ writs = <<>> /\ inn = <<>> /\ eve = 0 /\ red = <<>>
         /\ god \in {"init", "live"} /\ (god = "live" => out = <<>>)
         /\ LastKey = sen /\ BatchEnd(req) = sen
<1>1. Loop /\ open = "live" /\ ted = "good" /\ DiskShape
  BY DiskShaped DEF PierInv, WriteDone
<1>2. sen # dun
  BY <1>1, RestIsIdle DEF PierInv
<1>3. sat = "boot"
  BY <1>1, <1>2 DEF PierInv, PierTypeOK, ModeInv, Works
<1>4. god \in {"init", "live"}
  BY <1>1, <1>3 DEF PierInv, PierTypeOK, LordTypeOK, ModeInv
<1>5. LastKey = BatchEnd(req)
  BY <1>1, BatchOfQueue DEF PierInv, BatchShape
<1> QED
  BY <1>1, <1>2, <1>3, <1>4, <1>5 DEF PierInv, NewInv, ModeInv

\* _pier_on_disk_write_done in the boot of a ship whose worker is ready.
LEMMA BootPlaysInv ==
  ASSUME PierInv, ~Works, WriteDone, god = "live"
  PROVE  PierInv'
<1> DEFINE d == BatchEnd(req)
           pl == PlayFrom(eve, d)
           ws == writs
           os == out
           rd == red
<1>1. /\ sat = "boot" /\ Loop /\ open = "live" /\ ted = "good" /\ DiskShape
      /\ core = <<>> /\ ws = <<>> /\ eve = 0 /\ rd = <<>> /\ os = <<>>
      /\ LastKey = sen /\ d = sen /\ sen \in Nat
  BY BootWritten DEF DiskShape
<1>2. /\ UNCHANGED lordRest /\ UNCHANGED <<workVars, oops>>
      /\ DiskCommitDone(PlayReads(pl, rd)) /\ PlayOn(pl, ws)
  BY <1>1 DEF WriteDone
<1>3. pl \in Plays /\ Replayed(pl, rd) /\ pl.sen = 0 /\ pl.eve = d
  <2> DEFINE g == 0
             e == d
  <2>1. DiskShape /\ g \in Nat /\ e \in Nat /\ g <= e /\ e <= LastKey
    BY <1>1
  <2> HIDE DEF g, e
  <2>2. PlayFrom(g, e) \in Plays /\ Replayed(PlayFrom(g, e), <<>>)
    BY ONLY <2>1, FreshReplay
  <2>3. PlayFrom(g, e).sen = g /\ PlayFrom(g, e).eve = e
    BY DEF PlayFrom
  <2>4. pl = PlayFrom(g, e)
    BY <1>1 DEF g, e
  <2> HIDE DEF pl, rd
  <2> QED
    BY <1>1, <2>2, <2>3, <2>4 DEF g, e
<1>4. ws \in Seq(Writ) /\ os \in Seq(Plea) /\ rd \in Seq(Read)
  BY DEF PierInv, PierTypeOK, LordTypeOK, DiskTypeOK
<1>5. /\ red' = PlayReads(pl, rd) /\ UNCHANGED <<db, meta, open, sen>> /\ dun' = d
      /\ god' = "live" /\ out' = os /\ eve' = 0 /\ UNCHANGED <<serf, core, snap, fault>>
  BY <1>1, <1>2 DEF DiskCommitDone, lordRest
<1> HIDE DEF d, pl, ws, os, rd
<1>6. DiskInv'
  <2>1. PlayReads(pl, rd) \in Seq(Read)
    BY <1>3, <1>4, PlaysOn
  <2> QED
    BY <1>1, <1>2, <2>1, CommitDoneInv DEF PierInv
<1>7. KingHas(ws, os)
  BY DEF KingHas, ws, os
<1>8. /\ eve' \in Nat /\ eve' <= pl.sen /\ Batches(ws, eve', pl.sen)
      /\ Len(core) = 0 /\ Len(core) <= pl.eve
  <2>1. Len(ws) = 0 /\ Len(core) = 0
    <3>1. Len(<<>>) = 0
      OBVIOUS
    <3> QED
      BY <1>1, <3>1
  <2>2. eve' = 0 /\ pl.sen = 0
    BY <1>3, <1>5
  <2>3. Batches(ws, eve', pl.sen)
    BY <2>1 DEF Batches
  <2> QED
    BY <1>1, <1>3, <2>1, <2>2, <2>3
<1>9. serf = "up" /\ (\A i \in 1 .. Len(os) : ~ReplayFailed(os[i])) =>
        Len(core) = IF os = <<>> THEN eve' ELSE EndOf(ws[Len(os)])
  BY <1>1, <1>5, <1>8
<1>10. sat \in {"init", "boot", "play"} /\ sen' = dun' /\ dun' = LastKey
  BY <1>1, <1>5
<1> QED
  BY <1>1, <1>2, <1>3, <1>4, <1>5, <1>6, <1>7, <1>8, <1>9, <1>10, PlayOnInv

\* And of one whose worker is not.
LEMMA BootWaitsInv ==
  ASSUME PierInv, ~Works, WriteDone, god # "live"
  PROVE  PierInv'
<1>1. /\ sat = "boot" /\ Loop /\ open = "live" /\ ted = "good" /\ DiskShape
      /\ snap = <<>> /\ core = <<>> /\ writs = <<>> /\ inn = <<>> /\ eve = 0 /\ red = <<>>
      /\ god = "init" /\ LastKey = sen /\ BatchEnd(req) = sen
  BY BootWritten
<1>2. /\ DiskCommitDone(red) /\ UNCHANGED <<sat, pay, writs, inn>>
      /\ UNCHANGED <<god, eve, out, serf, core, snap, fault>>
      /\ UNCHANGED <<ova, pec, gifts, rel, walls, effs, oops>>
  BY <1>1 DEF WriteDone, lordRest, workVars
<1>3. /\ UNCHANGED <<db, meta, open, sen, red>> /\ dun' = sen /\ LastKey' = LastKey
  BY <1>1, <1>2, LastKeySame DEF DiskCommitDone
<1>4. DiskInv'
  <2>1. red \in Seq(Read)
    BY DEF PierInv, PierTypeOK, DiskTypeOK
  <2> QED
    BY <1>1, <1>2, <2>1, CommitDoneInv DEF PierInv
<1>5. PierTypeOK'
  <2>1. DiskTypeOK'
    BY <1>4 DEF DiskInv
  <2>2. LordTypeOK'
    BY <1>2 DEF PierInv, PierTypeOK, LordTypeOK
  <2> QED
    BY <1>2, <2>1, <2>2 DEF PierInv, PierTypeOK
<1>6. ModeInv'
  BY <1>1, <1>2, <1>3 DEF PierInv, ModeInv, Works
<1>7. NewInv'
  BY <1>1, <1>2, <1>3 DEF PierInv, NewInv
<1>8. PipesInv' /\ MatchInv' /\ WritsInv'
  BY <1>1, <1>2 DEF PierInv, PipesInv, MatchInv, WritsInv
<1>9. Len(inn') = 0 /\ Len(core') = 0 /\ Len(snap') = 0
  <2>1. Len(<<>>) = 0
    OBVIOUS
  <2> QED
    BY <1>1, <1>2, <2>1
<1>10. InnInv' /\ AgreeInv'
  BY <1>1, <1>2, <1>3, <1>9 DEF PierInv, InnInv, AgreeInv, Agrees
<1>11. WorkInv' /\ PlayInv' /\ BatchInv' /\ GiftInv'
  BY <1>1, <1>2 DEF WorkInv, PlayInv, BatchInv, GiftInv, Works
<1>12. EffsInv' /\ WallInv' /\ OopsInv'
  <2>1. walls = <<>>
    BY <1>1 DEF PierInv, ModeInv, Works
  <2> QED
    BY <1>1, <1>2, <1>3, <2>1 DEF PierInv, EffsInv, WallInv, OopsInv, Works
<1>13. BoundInv'
  BY <1>2, <1>3 DEF PierInv, BoundInv
<1> QED
  BY <1>4, <1>5, <1>6, <1>7, <1>8, <1>10, <1>11, <1>12, <1>13 DEF PierInv

LEMMA WritesInv == PierInv /\ Writes => PierInv'
  BY WriteDoneWorks, BootPlaysInv, BootWaitsInv, WriteBailInv DEF Writes

-----------------------------------------------------------------------------
(* Every step.                                                             *)

\* A new pier.
LEMMA PierInitInv == PierInit => PierInv
<1> SUFFICES ASSUME PierInit PROVE PierInv
  OBVIOUS
<1>1. /\ db = <<>> /\ meta = 0 /\ open = "closed" /\ sen = 0 /\ dun = 0 /\ put = <<>>
      /\ red = <<>> /\ ted = "idle" /\ req = NoReq
      /\ sat = "down" /\ pay = NoPlay /\ ova = <<>> /\ pec = 0 /\ gifts = <<>> /\ rel = 0
      /\ walls = <<>> /\ effs = <<>> /\ oops = "none"
  BY DEF PierInit, DiskInit
<1>2. /\ god = "none" /\ eve = 0 /\ writs = <<>> /\ inn = <<>> /\ out = <<>> /\ serf = "dead"
      /\ core = <<>> /\ snap = <<>> /\ fault = "none"
  BY DEF PierInit, Start
<1>3. DiskInv
  BY DiskInitInv DEF PierInit
<1>4. LastKey = 0
  <2>1. DOMAIN db = 1 .. 0
    BY <1>1
  <2> QED
    BY <2>1, LastKeyOfLog
<1>5. PierTypeOK
  <2>1. DiskTypeOK
    BY <1>3 DEF DiskInv
  <2>2. LordTypeOK
    <3>1. 0 \in 0 .. MaxWord
      BY LordAssumption
    <3> QED
      BY <1>2, <3>1 DEF LordTypeOK, Kernel
  <2>3. pay \in [eve : Nat, sen : Nat, req : Nat, q : Seq(Fact)]
    BY <1>1 DEF NoPlay
  <2> QED
    BY <1>1, <2>1, <2>2, <2>3 DEF PierTypeOK
<1>6. Len(<<>>) = 0
  OBVIOUS
<1>7. /\ Len(inn) = 0 /\ Len(core) = 0 /\ Len(snap) = 0 /\ Len(effs) = 0 /\ Len(walls) = 0
  BY <1>1, <1>2, <1>6
<1>8. ModeInv /\ NewInv /\ PipesInv /\ MatchInv
  BY <1>1, <1>2, <1>4 DEF ModeInv, NewInv, PipesInv, MatchInv, Works
<1>9. WritsInv /\ InnInv /\ AgreeInv /\ WorkInv
  BY <1>2, <1>4, <1>7 DEF WritsInv, InnInv, AgreeInv, Agrees, WorkInv
<1>10. PlayInv /\ BatchInv /\ GiftInv /\ EffsInv /\ WallInv /\ OopsInv
  BY <1>1, <1>7 DEF PlayInv, BatchInv, GiftInv, EffsInv, WallInv, OopsInv, Works
<1>11. BoundInv
  BY <1>1, <1>2, <1>4, EventsAssumption DEF BoundInv
<1> QED
  BY <1>3, <1>5, <1>8, <1>9, <1>10, <1>11 DEF PierInv

LEMMA PierStutterInv == PierInv /\ UNCHANGED vars => PierInv'
<1> SUFFICES ASSUME PierInv, UNCHANGED vars PROVE PierInv'
  OBVIOUS
<1>1. UNCHANGED <<db, meta, open, sen, dun, put, ted, req, red>>
  BY DEF vars, diskVars
<1>2. /\ UNCHANGED <<god, eve, writs, inn, out, serf, core, snap, fault>>
      /\ UNCHANGED <<sat, pay, ova, pec, gifts, rel, walls, effs, oops>> /\ LastKey' = LastKey
  BY <1>1, LastKeySame DEF vars, lordVars, pierVars, workVars
<1>3. DiskInv'
  BY DiskSame DEF PierInv, vars
<1>4. PierTypeOK' /\ ModeInv' /\ NewInv' /\ PipesInv'
  BY <1>1, <1>2, <1>3 DEF PierInv, DiskInv, PierTypeOK, LordTypeOK, ModeInv, NewInv, PipesInv, Works, BatchEnd
<1>5. MatchInv' /\ WritsInv' /\ InnInv' /\ AgreeInv'
  BY <1>1, <1>2 DEF PierInv, MatchInv, WritsInv, InnInv, Sound, AgreeInv, Agrees, Negotiates
<1>6. WorkInv' /\ PlayInv' /\ BatchInv' /\ GiftInv'
  BY <1>1, <1>2 DEF PierInv, WorkInv, PlayInv, Replays, BatchInv, GiftInv, Works, Negotiates, NoneFailed
<1>7. EffsInv' /\ WallInv' /\ BoundInv' /\ OopsInv'
  BY <1>1, <1>2 DEF PierInv, EffsInv, WallInv, BoundInv, OopsInv, Works
<1> QED
  BY <1>3, <1>4, <1>5, <1>6, <1>7 DEF PierInv

LEMMA HearsInv == PierInv /\ Hears => PierInv'
<1>1. PierInv /\ LordGone => PierInv'
  BY PierBailInv DEF LordGone
<1> QED
  BY <1>1, RipeInv, PlayedInv, NegotiatedInv, WorkedInv, AnsweredInv DEF Hears

LEMMA FailsInv == PierInv /\ Fails => PierInv'
  BY KingCrashInv, SerfCrashInv, ThreadFailInv, PierBailInv DEF Fails

LEMMA ReadsStepInv == PierInv /\ Reads => PierInv'
  BY ReadStartedInv, ReadbackInv DEF Reads

\* The invariant is inductive.
LEMMA PierStepInv == PierInv /\ [PierNext]_vars => PierInv'
<1>1. PierInv /\ PierNext => PierInv'
  BY BootsInv, HearsInv, WritesInv, ReadsStepInv, TickInv, DriversInv, KingExitInv,
     ThreadInv, SerfInv, FailsInv DEF PierNext
<1> QED
  BY <1>1, PierStutterInv

\* Every reachable state of a pier satisfies the invariant: through boots,
\* replays, work, walls, exits, crashes of the king or of the serf and failures
\* of the log (vere/pier.c, lord.c, disk.c and worker/serf.c together).
THEOREM PierInvariant == PierSpec => []PierInv
<1>1. PierInit => PierInv
  BY PierInitInv
<1>2. PierInv /\ [PierNext]_vars => PierInv'
  BY PierStepInv
<1> QED
  BY <1>1, <1>2, PTL DEF PierSpec

\* Type correctness of the pier, its lord and its log (struct _u3_pier).
THEOREM PierTypeCorrect == PierSpec => []PierTypeOK
<1>1. PierInv => PierTypeOK
  BY DEF PierInv
<1> QED
  BY <1>1, PierInvariant, PTL

\* What is durable or planned under a number is what the running kernel
\* computed under it, whatever is in the two pipes and in the thread: a restart
\* replays the ship that there was (_pier_on_lord_work_done, u3_disk_plan,
\* _disk_commit).
THEOREM PierKernelIsReplayable == PierSpec => []KernelIsReplayable
<1>1. PierInv => KernelIsReplayable
  <2> SUFFICES ASSUME PierInv PROVE KernelIsReplayable
    OBVIOUS
  <2>1. DiskShape /\ Agrees(core) /\ PierTypeOK
    BY DiskShaped DEF PierInv, AgreeInv
  <2>2. core \in Seq(Job) /\ put \in Seq(Fact)
    BY <2>1 DEF PierTypeOK, LordTypeOK, Kernel, DiskShape
  <2>3. \A i \in DOMAIN core : i \in DOMAIN db => db[i] = core[i]
    <3> SUFFICES ASSUME NEW i \in DOMAIN core, i \in DOMAIN db PROVE db[i] = core[i]
      OBVIOUS
    <3>1. i \in 1 .. Len(core) /\ i \in 1 .. LastKey /\ LastKey \in Nat
      BY <2>1, <2>2 DEF DiskShape
    <3>2. i <= LastKey
      BY <3>1
    <3> QED
      BY <2>1, <3>1, <3>2 DEF Agrees
  <2>4. \A i \in DOMAIN core : i - dun \in DOMAIN put => put[i - dun].job = core[i]
    <3> SUFFICES ASSUME NEW i \in DOMAIN core, i - dun \in DOMAIN put
                 PROVE  put[i - dun].job = core[i]
      OBVIOUS
    <3>1. i \in 1 .. Len(core) /\ i - dun \in 1 .. Len(put)
      BY <2>2
    <3> QED
      BY <2>1, <3>1 DEF Agrees
  <2> QED
    BY <2>1, <2>3, <2>4 DEF KernelIsReplayable
<1> QED
  BY <1>1, PierInvariant, PTL

\* A replay reads and computes the log in order, never two reads at a time and
\* never an event beyond its barrier, for every size of the batches that are
\* read and sent (_pier_play_plan, _pier_play_read, _pier_play_send).
THEOREM PierReplayIsOrderly == PierSpec => []ReplayIsOrderly
<1>1. PierInv => ReplayIsOrderly
  <2> SUFFICES ASSUME PierInv PROVE ReplayIsOrderly
    OBVIOUS
  <2>1. oops \notin {"read", "replay"}
    BY DEF PierInv, OopsInv
  <2>2. CASE sat = "play"
    BY <2>1, <2>2 DEF PierInv, PlayInv, Replays, ReplayIsOrderly
  <2>3. CASE sat # "play"
    <3>1. red = <<>>
      BY <2>3 DEF PierInv, ModeInv
    <3>2. Len(<<>>) = 0
      OBVIOUS
    <3> QED
      BY <2>1, <2>3, <3>1, <3>2 DEF ReplayIsOrderly
  <2> QED
    BY <2>2, <2>3
<1> QED
  BY <1>1, PierInvariant, PTL

\* The only assertions of the king that can fail, and what it takes: an exit
\* asked for during the boot, the start, the replay or the negotiation, or a
\* --replay-to outside the log (c3_assert in _pier_on_lord_live,
\* _pier_play_init, _pier_on_lord_play_done, u3_pier_exit).
THEOREM PierAssertions == PierSpec => []OopsInv
<1>1. PierInv => OopsInv
  BY DEF PierInv
<1> QED
  BY <1>1, PierInvariant, PTL

\* A ship that is started without --replay-to and asked to exit only at work:
\* no assertion of the king fails, and no callback finds the log or the lord
\* gone, in any interleaving of their callbacks, crashes and failures.
THEOREM PierNoAssertionFails ==
  ASSUME Tils = {0}, ExitStates \subseteq {"work"}
  PROVE  PierSpec => []NoAssertionFails
<1>1. PierInv => NoAssertionFails
  BY DEF PierInv, OopsInv, NoAssertionFails
<1> QED
  BY <1>1, PierInvariant, PTL

-----------------------------------------------------------------------------
(* The pier keeps the promise of a ship.                                   *)

\* The log as a sequence.
LogIsDb ==
  /\ DbSeq \in Seq(Job) /\ Len(DbSeq) = LastKey /\ LastKey \in Nat
  /\ \A i \in 1 .. LastKey : DbSeq[i] = db[i]

LEMMA LogIs == DiskInv => LogIsDb
<1> SUFFICES ASSUME DiskInv PROVE LogIsDb
  OBVIOUS
<1>1. LastKey \in Nat /\ \A i \in 1 .. LastKey : db[i] \in Job
  BY DiskShaped DEF DiskShape
<1> DEFINE n == LastKey
           s == DbSeq
<1>2. s = [i \in 1 .. n |-> db[i]]
  BY DEF DbSeq
<1> HIDE DEF n, s
<1>3. n \in Nat /\ \A i \in 1 .. n : db[i] \in Job
  BY <1>1 DEF n
<1>4. s \in [1 .. n -> Job]
  BY <1>2, <1>3
<1>5. s \in Seq(Job)
  BY <1>3, <1>4
<1>6. Len(s) = n
  BY <1>2, <1>3, <1>5
<1> QED
  BY <1>2, <1>3, <1>5, <1>6 DEF n, s, LogIsDb

LEMMA LogIsNext == DiskInv' => LogIsDb'
BY LogIs, PTL

\* The batch that has been written is the end of the log.
BatchIsLast == ted = "good" => \E n \in Nat : n > 0 /\ LastKey = dun + n

LEMMA SavedIsLast == DiskInv => BatchIsLast
<1> SUFFICES ASSUME DiskInv, ted = "good" PROVE \E n \in Nat : n > 0 /\ LastKey = dun + n
  BY DEF BatchIsLast
<1>1. /\ Len(req.jobs) \in 1 .. Len(put) /\ LastKey = dun + Len(req.jobs)
  BY BatchOfQueue DEF BatchShape
<1>2. Len(put) \in Nat
  BY DiskShaped DEF DiskShape
<1> QED
  BY <1>1, <1>2

LEMMA SavedIsLastNext == DiskInv' => BatchIsLast'
BY SavedIsLast, PTL

\* A step that writes no event and no checkpoint and releases no effect.
LEMMA ShipRests ==
  ASSUME UNCHANGED <<db, effs, snap>>
  PROVE  UNCHANGED ShipOf!shipVars
BY DEF ShipOf!shipVars, DbSeq, LastKey

\* The thread writes a batch.
LEMMA SaveIsShipLog ==
  ASSUME PierInv, PierInv', DiskThreadSave, UNCHANGED <<lordVars, pierVars>>
  PROVE  ShipOf!ShipLog
<1>1. DiskShape /\ DiskShape'
  BY DiskShaped, DiskShapedNext DEF PierInv
<1>2. /\ DbSeq \in Seq(Job) /\ Len(DbSeq) = LastKey /\ LastKey \in Nat
      /\ \A i \in 1 .. LastKey : DbSeq[i] = db[i]
      /\ DbSeq' \in Seq(Job) /\ Len(DbSeq') = LastKey' /\ LastKey' \in Nat
      /\ \A i \in 1 .. LastKey' : DbSeq'[i] = db'[i]
  BY LogIs, LogIsNext DEF PierInv, LogIsDb
<1>3. \A e \in DOMAIN db : e \in DOMAIN db' /\ db'[e] = db[e]
  BY ThreadSaveInv DEF PierInv
<1>4. /\ DOMAIN db = 1 .. LastKey /\ DOMAIN db' = 1 .. LastKey'
      /\ \A i \in 1 .. LastKey : i \in 1 .. LastKey' /\ db'[i] = db[i]
  BY <1>1, <1>3 DEF DiskShape
<1>5. LastKey < LastKey'
  <2>1. ted = "running" /\ ted' = "good" /\ UNCHANGED <<open, sen, dun, put, req>>
    BY DEF DiskThreadSave
  <2>2. \E n \in Nat : n > 0 /\ LastKey' = dun + n
    BY <2>1, SavedIsLastNext DEF PierInv, BatchIsLast
  <2>3. dun \in Nat /\ open # "closed"
    BY <1>1, <2>1, BatchOfQueue DEF DiskShape, PierInv
  <2>4. LastKey = dun
    <3>1. LogIsContiguous
      BY DEF PierInv, DiskInv
    <3>2. DOMAIN db = 1 .. dun
      BY <2>1, <2>3, <3>1 DEF LogIsContiguous, Durable
    <3> QED
      BY <2>3, <3>2, LastKeyOfLog
  <2> QED
    BY <2>2, <2>3, <2>4
<1>6. SubSeq(DbSeq', 1, Len(DbSeq)) = DbSeq
  <2> DEFINE s == DbSeq
             t == DbSeq'
             n == LastKey
             m == LastKey'
  <2>1. /\ s \in Seq(Job) /\ t \in Seq(Job) /\ Len(s) = n /\ Len(t) = m
        /\ n \in Nat /\ m \in Nat /\ n < m /\ \A i \in 1 .. n : t[i] = s[i]
    BY <1>2, <1>4, <1>5
  <2> HIDE DEF s, t, n, m
  <2>2. SubSeq(t, 1, n) = s
    BY ONLY <2>1
  <2> QED
    BY <2>1, <2>2 DEF s, t, n, m
<1>7. UNCHANGED <<effs, snap>>
  BY DEF lordVars, pierVars, workVars
<1>8. Len(DbSeq') > Len(DbSeq)
  BY <1>2, <1>5
<1> QED
  BY <1>6, <1>7, <1>8 DEF ShipOf!ShipLog

\* The serf makes a checkpoint of the kernel.
LEMMA KeepIsShipCheckpoint ==
  ASSUME PierInv, NEW t \in {"save", "cram"}, SerfKeep(t), UNCHANGED <<diskVars, pierVars>>
  PROVE  ShipOf!ShipCheckpoint
<1>1. DiskShape /\ Agrees(core) /\ InnInv
  BY DiskShaped DEF PierInv, AgreeInv
<1>2. /\ serf = "up" /\ inn # <<>> /\ Head(inn).typ = t /\ Head(inn).eve = Len(core)
      /\ snap' = core
  BY DEF SerfKeep, Take
<1>3. /\ DbSeq \in Seq(Job) /\ Len(DbSeq) = LastKey /\ LastKey \in Nat
      /\ \A i \in 1 .. LastKey : DbSeq[i] = db[i]
  BY LogIs DEF PierInv, LogIsDb
<1>4. core \in Seq(Job) /\ snap \in Seq(Job) /\ inn \in Seq(Writ)
  BY DEF PierInv, PierTypeOK, LordTypeOK, Kernel
<1>5. Len(core) <= LastKey
  <2>1. Head(inn) = inn[1] /\ 1 \in 1 .. Len(inn)
    BY <1>2, <1>4, TailIs
  <2> QED
    BY <1>1, <1>2, <2>1 DEF InnInv, Sound
<1>6. Len(snap) <= Len(core)
  BY <1>2 DEF PierInv, AgreeInv
<1>7. core = SubSeq(DbSeq, 1, Len(core))
  <2> DEFINE s == DbSeq
             n == LastKey
  <2>1. \A i \in 1 .. Len(core) : core[i] = s[i]
    <3> SUFFICES ASSUME NEW i \in 1 .. Len(core) PROVE core[i] = s[i]
      OBVIOUS
    <3>1. i \in 1 .. LastKey /\ i <= LastKey
      BY <1>3, <1>4, <1>5
    <3> QED
      BY <1>1, <1>3, <3>1 DEF Agrees
  <2>2. s \in Seq(Job) /\ Len(s) = n /\ n \in Nat /\ core \in Seq(Job) /\ Len(core) <= n
    BY <1>3, <1>4, <1>5
  <2> HIDE DEF s, n
  <2>3. core = SubSeq(s, 1, Len(core))
    BY ONLY <2>1, <2>2
  <2> QED
    BY <2>3 DEF s
<1>8. Len(core) \in Len(snap) .. Len(DbSeq)
  BY <1>3, <1>4, <1>5, <1>6
<1>9. \E n \in Len(snap) .. Len(DbSeq) : snap' = SubSeq(DbSeq, 1, n)
  BY <1>2, <1>7, <1>8
<1>10. UNCHANGED <<db, effs>>
  BY DEF diskVars, pierVars, workVars
<1>11. UNCHANGED <<DbSeq, effs>>
  BY <1>10 DEF DbSeq, LastKey
<1> QED
  BY <1>9, <1>11 DEF ShipOf!ShipCheckpoint

\* _pier_gift_next, when a batch has become durable.
LEMMA WorkIsShipSay ==
  ASSUME PierInv, PierInv', Works, WriteDone
  PROVE  [ShipOf!ShipSay]_(ShipOf!shipVars)
<1>1. Loop /\ Works /\ open = "live" /\ ted = "good"
  BY DEF WriteDone
<1>2. /\ gifts = put /\ rel = dun /\ eve = sen /\ sat \in {"work", "done"}
      /\ dun \in Nat /\ sen \in Nat /\ dun <= sen /\ LastKey \in Nat
      /\ put \in Seq(Fact) /\ Len(put) = sen - dun
      /\ \A i \in 1 .. Len(put) : put[i].eve = dun + i
  BY <1>1, WorkingIs
<1> DEFINE d == BatchEnd(req)
           rs == Released(put, d)
<1>4. PICK n \in 1 .. Len(put) : d = dun + n /\ dun + n <= sen /\ LastKey = dun + n /\ n = Len(req.jobs)
  BY <1>1, BatchOfQueue DEF PierInv, BatchShape
<1>5. \A i \in 1 .. n : put[i].job = db[dun + i]
  BY <1>1, <1>4 DEF PierInv, DiskInv, CommittedIsQueued
<1> HIDE DEF d
<1>6. CASE UNCHANGED <<db, effs, snap>>
  BY <1>6, ShipRests
<1>7. CASE ~ UNCHANGED <<db, effs, snap>>
  <2>1. DiskCommitDone(red) /\ PierWork(eve, d, writs, gifts) /\ UNCHANGED lordRest
    <3> DEFINE why == IF WallDue(eve, d, writs) = "exit" THEN "freed" ELSE WorkFault(gifts, d)
    <3>1. IF why # "none" THEN Abort(why)
          ELSE /\ UNCHANGED lordRest /\ DiskCommitDone(red) /\ PierWork(eve, d, writs, gifts)
      BY <1>2 DEF WriteDone, d
    <3> HIDE DEF why
    <3>2. Abort(why) => UNCHANGED <<db, effs, snap>>
      BY DEF Abort, PierForget, DiskCrash, LordOrphan
    <3> QED
      BY <1>7, <3>1, <3>2
  <2>2. effs' = effs \o rs /\ UNCHANGED <<db, snap>>
    BY <1>2, <2>1 DEF PierWork, DiskCommitDone, lordRest
  <2>3. d \in dun .. sen /\ d - dun = n
    BY <1>2, <1>4
  <2>4. /\ rs \in Seq(Fact) /\ Len(rs) = d - dun
        /\ \A i \in 1 .. d - dun : rs[i] = put[i]
    <3> DEFINE gs == put
               b == dun
               e == sen
    <3>1. /\ gs \in Seq(Fact) /\ b \in Nat /\ e \in Nat /\ Len(gs) = e - b
          /\ (\A i \in 1 .. Len(gs) : gs[i].eve = b + i) /\ d \in b .. e
      BY <1>2, <2>3
    <3> HIDE DEF gs, b, e
    <3>2. /\ Released(gs, d) \in Seq(Fact) /\ Len(Released(gs, d)) = d - b
          /\ \A i \in 1 .. d - b : Released(gs, d)[i] = gs[i]
      BY ONLY <3>1, GiftsAre
    <3> QED
      BY <3>2 DEF gs, b
  <2> HIDE DEF rs
  <2>5. /\ Len(rs) = n /\ n \in Nat /\ n > 0
        /\ \A i \in 1 .. n : rs[i].eve = dun + i /\ rs[i].job = db[dun + i] /\ dun + i \in 1 .. LastKey
    <3>1. Len(rs) = n /\ n \in Nat /\ n > 0 /\ n <= Len(put)
      BY <1>2, <1>4, <2>3, <2>4
    <3>2. ASSUME NEW i \in 1 .. n
          PROVE  rs[i].eve = dun + i /\ rs[i].job = db[dun + i] /\ dun + i \in 1 .. LastKey
      <4>1. rs[i] = put[i] /\ i \in 1 .. Len(put) /\ dun + i \in 1 .. LastKey
        BY <1>2, <1>4, <2>3, <2>4, <3>1
      <4> QED
        BY <1>2, <1>5, <4>1
    <3> QED
      BY <3>1, <3>2
  <2>6. effs \in Seq(Fact) /\ effs' \in Seq(Fact) /\ EffsInv'
    BY DEF PierInv, PierTypeOK
  <2> DEFINE l == Len(effs)
  <2>7. /\ l \in Nat /\ Len(effs') = l + n
        /\ \A i \in 1 .. l : effs'[i] = effs[i]
        /\ \A i \in 1 .. n : effs'[l + i] = rs[i]
    <3>1. rs \in Seq(Fact) /\ effs \in Seq(Fact)
      BY <2>4, <2>6
    <3> DEFINE es == effs
    <3> HIDE DEF es
    <3>2. rs \in Seq(Fact) /\ es \in Seq(Fact)
      BY <3>1 DEF es
    <3>3. /\ Len(es) \in Nat /\ Len(es \o rs) = Len(es) + Len(rs)
          /\ \A i \in 1 .. Len(es) : (es \o rs)[i] = es[i]
          /\ \A i \in 1 .. Len(rs) : (es \o rs)[Len(es) + i] = rs[i]
      BY ONLY <3>2, JoinIs
    <3> QED
      BY <2>2, <2>5, <3>3 DEF es
  <2>8. SubSeq(effs', 1, l) = effs
    <3> DEFINE es == effs'
    <3>1. es \in Seq(Fact) /\ effs \in Seq(Fact) /\ Len(effs) = l /\ l \in Nat /\ n \in Nat
          /\ Len(es) = l + n /\ \A i \in 1 .. l : es[i] = effs[i]
      BY <2>5, <2>6, <2>7
    <3> HIDE DEF es, l
    <3>2. SubSeq(es, 1, l) = effs
      BY ONLY <3>1
    <3> QED
      BY <3>2 DEF es
  <2>9. /\ DbSeq' = DbSeq /\ snap' = snap
        /\ Len(DbSeq) = LastKey /\ \A i \in 1 .. LastKey : DbSeq[i] = db[i]
    BY <2>2, LogIs DEF DbSeq, LastKey, PierInv, LogIsDb
  <2>10. \A i \in l + 1 .. Len(effs') :
           /\ effs'[i].eve \in 1 .. Len(DbSeq) /\ effs'[i].job = DbSeq[effs'[i].eve]
           /\ \A k \in 1 .. i - 1 : effs'[k].eve < effs'[i].eve
    <3> SUFFICES ASSUME NEW i \in l + 1 .. Len(effs')
                 PROVE  /\ effs'[i].eve \in 1 .. Len(DbSeq) /\ effs'[i].job = DbSeq[effs'[i].eve]
                        /\ \A k \in 1 .. i - 1 : effs'[k].eve < effs'[i].eve
      OBVIOUS
    <3> HIDE DEF l
    <3> DEFINE j == i - l
    <3>1. j \in 1 .. n /\ l + j = i /\ i \in 1 .. Len(effs')
      BY <2>5, <2>7
    <3> HIDE DEF j
    <3>2. effs'[i] = rs[j]
      BY <2>7, <3>1
    <3>3. effs'[i].eve = dun + j /\ effs'[i].job = db[dun + j] /\ dun + j \in 1 .. LastKey
      BY <2>5, <3>1, <3>2
    <3>4. ASSUME NEW k \in 1 .. i - 1 PROVE effs'[k].eve < effs'[i].eve
      <4>1. k \in 1 .. Len(effs') /\ k < i
        BY <2>5, <2>7, <3>1
      <4> QED
        BY <2>6, <3>1, <4>1 DEF EffsInv
    <3> QED
      BY <2>9, <3>3, <3>4
  <2>11. Len(effs') > l
    BY <2>5, <2>7
  <2> QED
    BY <2>8, <2>9, <2>10, <2>11 DEF ShipOf!ShipSay
<1> QED
  BY <1>6, <1>7

\* The steps that only start, stop or ask: nothing of the promise changes.
Quiet == UNCHANGED <<db, effs, snap>>

LEMMA AbortQuiet == ASSUME NEW why, Abort(why) PROVE Quiet
BY DEF Abort, PierForget, DiskCrash, LordOrphan, Quiet

LEMMA BailQuiet == PierBail => Quiet
BY DEF PierBail, LordHalt, PierForget, DiskExit, diskVars, workVars, Quiet

LEMMA GoQuiet ==
  ASSUME NEW ws, NEW ms, PierGo(ws, ms)
  PROVE  db' = db
BY DEF PierGo, PierLeave, PierWyrd, DiskExit, diskVars

LEMMA BootsQuiet == Boots => Quiet
<1> SUFFICES ASSUME Boots PROVE Quiet
  OBVIOUS
<1>1. CASE KingBoot \/ KingStay
  BY <1>1 DEF KingBoot, KingStay, DiskOpen, LordInit, workVars, Quiet
<1>2. CASE BootMeta \/ BootPlan
  BY <1>2 DEF BootMeta, BootPlan, DiskSaveMeta, DiskBoot, Enqueue, lordVars, pierVars, workVars, Quiet
<1> QED
  BY <1>1, <1>2 DEF Boots

LEMMA RipeQuiet == Ripe => Quiet
<1> SUFFICES ASSUME Ripe PROVE Quiet
  OBVIOUS
<1>1. PICK g, b : IF RipeFault(g, b) # "none" THEN Abort(RipeFault(g, b)) ELSE HearLive(g, b)
  BY DEF Ripe
<1>2. CASE Abort(RipeFault(g, b))
  BY <1>2, AbortQuiet
<1>3. CASE HearLive(g, b)
  <2>1. UNCHANGED <<effs, snap>>
    BY <1>3 DEF HearLive, workVars
  <2>2. db' = db
    BY <1>3, GoQuiet DEF HearLive, diskVars
  <2> QED
    BY <2>1, <2>2 DEF Quiet
<1> QED
  BY <1>1, <1>2, <1>3

LEMMA PlayedQuiet == Played => Quiet
<1> SUFFICES ASSUME Played PROVE Quiet
  OBVIOUS
<1>1. CASE \E why : Abort(why)
  BY <1>1, AbortQuiet
<1>2. CASE PierBail
  BY <1>2, BailQuiet
<1>3. CASE ~(\E why : Abort(why)) /\ ~PierBail
  <2>1. /\ LordHear /\ UNCHANGED <<workVars, oops>>
        /\ PlayComplete(pay, Tail(writs)) \/ db' = db
    BY <1>3 DEF Played
  <2>2. db' = db
    BY <2>1, GoQuiet DEF PlayComplete, diskVars
  <2> QED
    BY <2>1, <2>2 DEF LordHear, workVars, Quiet
<1> QED
  BY <1>1, <1>2, <1>3

LEMMA NegotiatedQuiet == Negotiated => Quiet
<1> SUFFICES ASSUME Negotiated PROVE Quiet
  OBVIOUS
<1>1. \/ PierBail
      \/ Abort("plan")
      \/ LordHear /\ DiskPlan(WorkFact) /\ UNCHANGED <<pay, ova, pec, walls, effs, oops>>
  BY DEF Negotiated
<1> QED
  BY <1>1, BailQuiet, AbortQuiet DEF LordHear, DiskPlan, Enqueue, Quiet

LEMMA AnsweredQuiet == Answered \/ LordGone => Quiet
BY BailQuiet DEF Answered, LordGone, LordHear, diskVars, pierVars, workVars, Quiet

\* No effect waits for an event that is durable already.
LEMMA NothingReleased ==
  ASSUME PierInv, Loop, Works, NEW gs,
         gs = put \/ \E f \in Fact : f.eve = sen + 1 /\ gs = Append(put, f)
  PROVE  Released(gs, dun) = <<>>
<1>1. /\ dun \in Nat /\ sen \in Nat /\ dun <= sen
      /\ put \in Seq(Fact) /\ Len(put) = sen - dun
      /\ \A i \in 1 .. Len(put) : put[i].eve = dun + i
  BY WorkingIs
<1>2. PICK e \in {sen, sen + 1} :
        /\ gs \in Seq(Fact) /\ Len(gs) = e - dun
        /\ \A i \in 1 .. Len(gs) : gs[i].eve = dun + i
  <2>1. CASE gs = put
    BY <1>1, <2>1
  <2>2. CASE gs # put
    <3>1. PICK f \in Fact : f.eve = sen + 1 /\ gs = Append(put, f)
      BY <2>2
    <3>2. /\ gs \in Seq(Fact) /\ Len(gs) = Len(put) + 1 /\ gs[Len(put) + 1] = f
          /\ \A i \in 1 .. Len(put) : gs[i] = put[i]
      <4> DEFINE s == put
      <4>1. s \in Seq(Fact) /\ gs = Append(s, f)
        BY <1>1, <3>1
      <4> HIDE DEF s
      <4>2. /\ gs \in Seq(Fact) /\ Len(gs) = Len(s) + 1 /\ gs[Len(s) + 1] = f
            /\ \A i \in 1 .. Len(s) : gs[i] = s[i]
        BY ONLY <4>1, AppendProperties
      <4> QED
        BY <4>2 DEF s
    <3>3. Len(gs) = (sen + 1) - dun
      BY <1>1, <3>2
    <3>4. \A i \in 1 .. Len(gs) : gs[i].eve = dun + i
      <4> SUFFICES ASSUME NEW i \in 1 .. Len(gs) PROVE gs[i].eve = dun + i
        OBVIOUS
      <4>1. CASE i \in 1 .. Len(put)
        BY <1>1, <3>2, <4>1
      <4>2. CASE i \notin 1 .. Len(put)
        <5>1. i = Len(put) + 1 /\ dun + i = sen + 1
          BY <1>1, <3>2, <4>2
        <5> QED
          BY <3>1, <3>2, <5>1
      <4> QED
        BY <4>1, <4>2
    <3> QED
      BY <3>2, <3>3, <3>4
  <2> QED
    BY <2>1, <2>2
<1>3. Kept(gs, dun) = gs
  <2> DEFINE b == dun
  <2>1. gs \in Seq(Fact) /\ b \in Nat /\ e \in Nat /\ Len(gs) = e - b /\ b <= e
        /\ \A i \in 1 .. Len(gs) : gs[i].eve = b + i
    BY <1>1, <1>2
  <2> HIDE DEF b
  <2>2. Kept(gs, b) = gs
    BY ONLY <2>1, GiftsStay
  <2> QED
    BY <2>2 DEF b
<1>4. Released(gs, dun) = SubSeq(gs, 1, 0)
  BY <1>1, <1>2, <1>3 DEF Released
<1> QED
  BY <1>2, <1>4

\* _pier_work when nothing has become durable.
LEMMA WorkQuiet ==
  ASSUME PierInv, Loop, Works, NEW e, NEW ws, NEW gs, PierWork(e, dun, ws, gs),
         gs = put \/ \E f \in Fact : f.eve = sen + 1 /\ gs = Append(put, f)
  PROVE  effs' = effs
<1>1. effs' = effs \o Released(gs, dun)
  BY DEF PierWork
<1>2. Released(gs, dun) = <<>>
  BY NothingReleased
<1>3. effs \in Seq(Fact)
  BY DEF PierInv, PierTypeOK
<1> QED
  BY <1>1, <1>2, <1>3, ConcatEmptySeq

LEMMA WorkedQuiet == PierInv /\ Worked => Quiet
<1> SUFFICES ASSUME PierInv, Worked PROVE Quiet
  OBVIOUS
<1> DEFINE gs == IF Head(out).how = "bail" THEN gifts ELSE Append(gifts, WorkFact)
           g  == EveAfter(Head(out), Head(writs))
<1>1. /\ Loop /\ sat # "wyrd" /\ Heard({"work"})
      /\ \/ \E why : Abort(why)
         \/ /\ LordHear /\ PierWork(g, dun, Tail(writs), gs)
            /\ DiskPlan(WorkFact) \/ DiskExit \/ UNCHANGED diskVars
  BY DEF Worked
<1> HIDE DEF g
<1>2. CASE \E why : Abort(why)
  BY <1>2, AbortQuiet
<1>3. CASE LordHear /\ PierWork(g, dun, Tail(writs), gs) /\ (DiskPlan(WorkFact) \/ DiskExit \/ UNCHANGED diskVars)
  <2>1. db' = db /\ snap' = snap
    BY <1>3 DEF LordHear, DiskPlan, Enqueue, DiskExit, diskVars
  <2>2. /\ sat \in {"wyrd", "work", "done"}
        /\ Head(out).how # "bail" => WorkFact \in Fact /\ WorkFact.eve = sen + 1
    BY <1>1, WorkHeard
  <2>3. Works
    BY <1>1, <2>2 DEF Works
  <2>4. gifts = put
    BY <2>3 DEF PierInv, GiftInv
  <2>5. gs = put \/ \E f \in Fact : f.eve = sen + 1 /\ gs = Append(put, f)
    BY <2>2, <2>4
  <2> HIDE DEF gs
  <2>6. effs' = effs
    BY <1>1, <1>3, <2>3, <2>5, WorkQuiet
  <2> QED
    BY <2>1, <2>6 DEF Quiet
<1> QED
  BY <1>1, <1>2, <1>3

LEMMA TickQuiet == PierInv /\ Tick => Quiet
<1> SUFFICES ASSUME PierInv, Tick PROVE Quiet
  OBVIOUS
<1>1. Loop /\ Works /\ UNCHANGED lordRest
  BY DEF Tick, Working, Works
<1>2. \/ \E why : Abort(why)
      \/ PierWork(eve, dun, writs, gifts) /\ (DiskExit \/ UNCHANGED diskVars)
  BY DEF Tick
<1>3. CASE \E why : Abort(why)
  BY <1>3, AbortQuiet
<1>4. CASE PierWork(eve, dun, writs, gifts) /\ (DiskExit \/ UNCHANGED diskVars)
  <2>1. db' = db /\ snap' = snap
    BY <1>1, <1>4 DEF lordRest, DiskExit, diskVars
  <2>2. gifts = put
    BY <1>1 DEF PierInv, GiftInv
  <2>3. effs' = effs
    BY <1>1, <1>4, <2>2, WorkQuiet
  <2> QED
    BY <2>1, <2>3 DEF Quiet
<1> QED
  BY <1>2, <1>3, <1>4

\* A write that is done in the boot, or has failed.
LEMMA BootWriteQuiet == PierInv /\ ((~Works /\ WriteDone) \/ WriteBail) => Quiet
<1>1. PierInv /\ ~Works /\ WriteDone => Quiet
  <2> SUFFICES ASSUME PierInv, ~Works, WriteDone PROVE Quiet
    OBVIOUS
  <2>1. sat = "boot"
    BY BootWritten
  <2>2. UNCHANGED <<effs, snap>>
    BY <2>1 DEF WriteDone, lordRest, workVars
  <2>3. db' = db
    BY <2>1 DEF WriteDone, DiskCommitDone
  <2> QED
    BY <2>2, <2>3 DEF Quiet
<1>2. WriteBail => Quiet
  BY DEF WriteBail, LordHalt, DiskCrash, PierForget, Quiet
<1> QED
  BY <1>1, <1>2

LEMMA ReadsQuiet == Reads => Quiet
<1>1. ReadStarted => Quiet
  BY DEF ReadStarted, DiskReadStart, lordVars, pierVars, workVars, Quiet
<1>2. Readback => Quiet
  <2> SUFFICES ASSUME Readback PROVE Quiet
    OBVIOUS
  <2>1. \/ \E why : Abort(why)
        \/ UNCHANGED <<db, meta, open, sen, dun, put, ted, req>> /\ UNCHANGED <<lordRest, workVars, oops>>
    BY DEF Readback
  <2> QED
    BY <2>1, AbortQuiet DEF lordRest, workVars, Quiet
<1> QED
  BY <1>1, <1>2 DEF Reads

LEMMA DriversQuiet == Drivers \/ KingExit => Quiet
<1>1. Drivers => Quiet
  BY DEF Drivers, PlanOvum, PlanPeek, PlanPack, SaveTimer, diskVars, lordVars, lordRest,
         pierVars, workVars, Quiet
<1>2. KingExit => Quiet
  <2> SUFFICES ASSUME KingExit PROVE Quiet
    OBVIOUS
  <2>1. CASE sat = "work"
    BY <2>1 DEF KingExit, diskVars, lordVars, Quiet
  <2>2. CASE sat \in {"init", "boot", "play"}
    BY <2>2 DEF KingExit, PierLeave, DiskExit, lordRest, workVars, Quiet
  <2>3. CASE sat = "wyrd"
    <3>1. Abort("exit")
      BY <2>3 DEF KingExit
    <3> QED
      BY <3>1, AbortQuiet
  <2>4. sat \in ExitStates
    BY DEF KingExit
  <2> QED
    BY <2>1, <2>2, <2>3, <2>4, PierAssumption
<1> QED
  BY <1>1, <1>2

LEMMA ThreadQuiet == DiskThreadStart \/ DiskThreadFail => db' = db
BY DEF DiskThreadStart, DiskThreadFail

LEMMA SerfQuiet ==
  SerfRipe \/ SerfOrphan \/ SerfCrash \/ SerfWork \/ SerfLife \/ SerfPlay \/ SerfPeek \/ SerfPack
    \/ SerfExit \/ SerfRefuses => snap' = snap
BY DEF SerfRipe, SerfOrphan, SerfCrash, SerfWork, SerfLife, SerfPlay, SerfPeek, SerfPack,
       SerfExit, SerfRefuses, SerfDies

LEMMA FailsQuiet == Fails => Quiet
<1>1. KingCrash => Quiet
  BY DEF KingCrash, LordOrphan, DiskCrash, PierForget, Quiet
<1>2. SerfCrash /\ UNCHANGED <<diskVars, pierVars>> => Quiet
  BY SerfQuiet DEF diskVars, pierVars, workVars, Quiet
<1>3. DiskThreadFail /\ UNCHANGED <<lordVars, pierVars>> => Quiet
  BY ThreadQuiet DEF lordVars, pierVars, workVars, Quiet
<1> QED
  BY <1>1, <1>2, <1>3, BailQuiet DEF Fails

\* Every step of a pier is one of its promise, or does not show in it.
LEMMA StepShips ==
  ASSUME PierInv, PierInv', PierNext
  PROVE  [ShipOf!ShipNext]_(ShipOf!shipVars)
<1>1. CASE Quiet
  BY <1>1, ShipRests DEF Quiet
<1>2. CASE Works /\ WriteDone
  BY <1>2, WorkIsShipSay DEF ShipOf!ShipNext
<1>3. CASE DiskThreadSave /\ UNCHANGED <<lordVars, pierVars>>
  BY <1>3, SaveIsShipLog DEF ShipOf!ShipNext
<1>4. CASE (SerfKeep("save") \/ SerfKeep("cram")) /\ UNCHANGED <<diskVars, pierVars>>
  BY <1>4, KeepIsShipCheckpoint DEF ShipOf!ShipNext
<1>5. Boots \/ Hears \/ Reads \/ Tick \/ Drivers \/ KingExit \/ Fails => Quiet
  BY BootsQuiet, RipeQuiet, PlayedQuiet, NegotiatedQuiet, WorkedQuiet, AnsweredQuiet, ReadsQuiet,
     TickQuiet, DriversQuiet, FailsQuiet DEF Hears
<1>6. Writes => Quiet \/ (Works /\ WriteDone)
  BY BootWriteQuiet DEF Writes
<1>7. Thread => Quiet \/ (DiskThreadSave /\ UNCHANGED <<lordVars, pierVars>>)
  BY ThreadQuiet DEF Thread, lordVars, pierVars, workVars, Quiet
<1>8. Serf => \/ Quiet
              \/ (SerfKeep("save") \/ SerfKeep("cram")) /\ UNCHANGED <<diskVars, pierVars>>
  BY SerfQuiet DEF Serf, SerfWrit, diskVars, pierVars, workVars, Quiet
<1> QED
  BY <1>1, <1>2, <1>3, <1>4, <1>5, <1>6, <1>7, <1>8 DEF PierNext

\* A new ship has an empty log, no effects and no checkpoint.
LEMMA InitShips == PierInit => ShipOf!ShipInit
<1> SUFFICES ASSUME PierInit PROVE ShipOf!ShipInit
  OBVIOUS
<1>1. db = <<>> /\ effs = <<>> /\ snap = <<>>
  BY DEF PierInit, DiskInit, Start
<1>2. LastKey = 0
  <2>1. DOMAIN db = 1 .. 0
    BY <1>1
  <2> QED
    BY <2>1, LastKeyOfLog
<1>3. DbSeq = <<>>
  BY <1>2 DEF DbSeq
<1> QED
  BY <1>1, <1>3 DEF ShipOf!ShipInit

\* The king, the serf, the log and the walls together keep the promise of a
\* ship: a history that only grows, effects that follow it in order and never
\* precede their event, and a checkpoint that is one of its states, whatever
\* crashes.
THEOREM PierKeepsPromise == PierSpec => ShipPromise
<1>1. PierInit => ShipOf!ShipInit
  BY InitShips
<1>2. PierInv /\ PierInv' /\ [PierNext]_vars => [ShipOf!ShipNext]_(ShipOf!shipVars)
  <2>1. ASSUME PierInv, PierInv', PierNext
        PROVE  [ShipOf!ShipNext]_(ShipOf!shipVars)
    BY <2>1, StepShips
  <2>2. ASSUME UNCHANGED vars
        PROVE  UNCHANGED ShipOf!shipVars
    BY <2>2, ShipRests DEF vars, diskVars, lordVars, pierVars, workVars
  <2> QED
    BY <2>1, <2>2
<1> QED
  BY <1>1, <1>2, PierInvariant, PTL DEF PierSpec, ShipPromise, ShipOf!ShipSpec

-----------------------------------------------------------------------------
(* While a wall waits.                                                     *)

WorkIn(ws) == {i \in DOMAIN ws : ws[i].typ = "work"}

LEMMA WorkIsFinite ==
  ASSUME NEW ws \in Seq(Writ)
  PROVE  IsFiniteSet(WorkIn(ws))
<1>1. Len(ws) \in Nat /\ DOMAIN ws = 1 .. Len(ws)
  OBVIOUS
<1>2. IsFiniteSet(1 .. Len(ws))
  BY <1>1, FS_Interval
<1>3. WorkIn(ws) \in SUBSET (1 .. Len(ws))
  BY <1>1 DEF WorkIn
<1> QED
  BY <1>2, <1>3, FS_Subset

\* Writs that are sent behind ws, none of them an event.
LEMMA WorkStays ==
  ASSUME NEW ws \in Seq(Writ), NEW ms \in Seq(Writ),
         \A i \in 1 .. Len(ms) : ms[i].typ # "work"
  PROVE  Cardinality(WorkIn(ws \o ms)) <= Cardinality(WorkIn(ws))
<1>1. /\ ws \o ms \in Seq(Writ) /\ Len(ws \o ms) = Len(ws) + Len(ms)
      /\ \A i \in 1 .. Len(ws) : (ws \o ms)[i] = ws[i]
      /\ \A i \in 1 .. Len(ws) + Len(ms) :
           i \in 1 .. Len(ws) \/ (i - Len(ws) \in 1 .. Len(ms) /\ (ws \o ms)[i] = ms[i - Len(ws)])
  BY JoinIs
<1>2. WorkIn(ws \o ms) \subseteq WorkIn(ws)
  <2> SUFFICES ASSUME NEW i \in WorkIn(ws \o ms) PROVE i \in WorkIn(ws)
    OBVIOUS
  <2>1. i \in 1 .. Len(ws) + Len(ms) /\ (ws \o ms)[i].typ = "work"
    BY <1>1 DEF WorkIn
  <2>2. i \in 1 .. Len(ws) /\ ws[i].typ = "work"
    BY <1>1, <2>1
  <2> QED
    BY <2>2 DEF WorkIn
<1> QED
  BY <1>2, WorkIsFinite, FS_Subset

\* The first of the writs is answered.
LEMMA WorkLeaves ==
  ASSUME NEW ws \in Seq(Writ), ws # <<>>
  PROVE  Cardinality(WorkIn(Tail(ws))) <= Cardinality(WorkIn(ws))
<1> DEFINE S == WorkIn(Tail(ws))
           T == WorkIn(ws)
           f == [i \in S |-> i + 1]
<1>1. /\ Len(ws) \in Nat /\ Tail(ws) \in Seq(Writ) /\ Len(Tail(ws)) = Len(ws) - 1
      /\ \A i \in 1 .. Len(ws) - 1 : Tail(ws)[i] = ws[i + 1]
  BY TailIs
<1>2. \A i \in S : i \in 1 .. Len(ws) - 1 /\ ws[i + 1].typ = "work"
  <2>1. DOMAIN Tail(ws) = 1 .. Len(ws) - 1
    BY <1>1
  <2> QED
    BY <1>1, <2>1 DEF WorkIn
<1>3. \A i \in S : i + 1 \in T
  <2> SUFFICES ASSUME NEW i \in S PROVE i + 1 \in T
    OBVIOUS
  <2>1. i + 1 \in 1 .. Len(ws)
    BY <1>1, <1>2
  <2> QED
    BY <1>2, <2>1 DEF WorkIn
<1>4. IsFiniteSet(T)
  BY WorkIsFinite
<1>5. \A i \in S : i \in Nat
  BY <1>1, <1>2
<1> HIDE DEF S, T
<1>6. f \in [S -> T]
  BY <1>3
<1>7. \A a, b \in DOMAIN f : f[a] = f[b] => a = b
  BY <1>5
<1>8. f \in Injection(S, T)
  BY <1>6, <1>7 DEF Injection, IsInjective
<1> HIDE DEF f
<1>9. Cardinality(S) <= Cardinality(T)
  BY <1>4, <1>8, FS_Injection
<1> QED
  BY <1>9 DEF S, T

\* The writs us follow ws in a step that sends no event.
Holds(us, ws) ==
  \/ us = <<>>
  \/ \E ms \in Seq(Writ) :
       /\ \A i \in 1 .. Len(ms) : ms[i].typ # "work"
       /\ us = ws \o ms \/ (ws # <<>> /\ us = Tail(ws) \o ms)

LEMMA HoldsNoMore ==
  ASSUME NEW ws \in Seq(Writ), NEW us, Holds(us, ws)
  PROVE  Cardinality(WorkIn(us)) <= Cardinality(WorkIn(ws))
<1>1. IsFiniteSet(WorkIn(ws)) /\ Cardinality(WorkIn(ws)) \in Nat
  BY WorkIsFinite, FS_CardinalityType
<1>2. CASE us = <<>>
  <2>1. WorkIn(us) = {}
    BY <1>2 DEF WorkIn
  <2> QED
    BY <1>1, <2>1, FS_EmptySet
<1>3. CASE us # <<>>
  <2>1. PICK ms \in Seq(Writ) :
          /\ \A i \in 1 .. Len(ms) : ms[i].typ # "work"
          /\ us = ws \o ms \/ (ws # <<>> /\ us = Tail(ws) \o ms)
    BY <1>3 DEF Holds
  <2>2. CASE us = ws \o ms
    BY <2>1, <2>2, WorkStays
  <2>3. CASE ws # <<>> /\ us = Tail(ws) \o ms
    <3> DEFINE t == Tail(ws)
    <3>1. t \in Seq(Writ) /\ Cardinality(WorkIn(t)) <= Cardinality(WorkIn(ws))
      BY <2>3, TailIs, WorkLeaves
    <3>2. us = t \o ms
      BY <2>3
    <3> HIDE DEF t
    <3>3. Cardinality(WorkIn(t \o ms)) <= Cardinality(WorkIn(t))
      BY <2>1, <3>1, WorkStays
    <3>4. /\ Cardinality(WorkIn(t)) \in Nat /\ Cardinality(WorkIn(t \o ms)) \in Nat
      <4>1. t \o ms \in Seq(Writ)
        BY <3>1
      <4> QED
        BY <3>1, <4>1, WorkIsFinite, FS_CardinalityType
    <3> QED
      BY <1>1, <3>1, <3>2, <3>3, <3>4
  <2> QED
    BY <2>1, <2>2, <2>3
<1> QED
  BY <1>2, <1>3

LEMMA HoldsAll ==
  ASSUME NEW ws \in Seq(Writ)
  PROVE  Holds(ws, ws) /\ (ws # <<>> => Holds(Tail(ws), ws))
<1> DEFINE ms == <<>>
<1>1. ms \in Seq(Writ) /\ Len(ms) = 0
  OBVIOUS
<1>2. ws \o ms = ws
  BY ConcatEmptySeq
<1>3. ws # <<>> => Tail(ws) \o ms = Tail(ws)
  BY TailIs, ConcatEmptySeq
<1> HIDE DEF ms
<1>4. \A i \in 1 .. Len(ms) : ms[i].typ # "work"
  BY <1>1
<1> QED
  BY <1>1, <1>2, <1>3, <1>4 DEF Holds

\* _pier_work_send behind a wall: the checkpoint at most.
LEMMA WallHoldsWork ==
  ASSUME PierInv, NEW e \in 0 .. MaxWord, NEW d, NEW ws \in Seq(Writ), NEW gs,
         PierWork(e, d, ws, gs), walls' # <<>>,
         ws = writs \/ (writs # <<>> /\ ws = Tail(writs))
  PROVE  Holds(writs', writs)
<1> DEFINE wall == WallDue(e, d, ws)
           left == IF wall = "none" THEN walls ELSE Tail(walls)
           keep == CASE wall = "save" -> LordKeep(ws, "save", e)
                     [] wall = "exit" -> <<BareWrit("exit")>>
                     [] wall = "none" -> <<>>
           len  == Room(left, Len(ws) + Len(keep))
           ms   == keep \o WorkBatchOf(len)
<1>1. walls' = left /\ LordPlan(ws, ms)
  BY DEF PierWork
<1>2. wall \in {"save", "exit", "none"}
  <2>1. walls # <<>> => Head(walls) \in {"save", "exit"}
    BY TailIs DEF PierInv, PierTypeOK
  <2> QED
    BY <2>1 DEF WallDue
<1> HIDE DEF wall
<1>3. \/ keep = <<>>
      \/ keep = <<KeepWrit("save", e)>>
      \/ keep = <<BareWrit("exit")>>
  BY <1>2 DEF LordKeep
<1>4. len = 0
  BY <1>1 DEF Room
<1> HIDE DEF len, keep, left
<1>5. WorkBatchOf(len) = <<>>
  BY <1>4, WorkBatchIs
<1>6. keep \in Seq(Writ) /\ \A i \in 1 .. Len(keep) : keep[i].typ # "work"
  <2>1. CASE keep = <<>>
    <3>1. <<>> \in Seq(Writ) /\ Len(<<>>) = 0
      OBVIOUS
    <3> QED
      BY <2>1, <3>1
  <2>2. CASE keep # <<>>
    <3>1. PICK w \in {KeepWrit("save", e), BareWrit("exit")} : keep = <<w>>
      BY <1>3, <2>2
    <3>2. w \in Writ /\ w.typ # "work"
      <4>1. 0 \in 0 .. MaxWord
        BY LordAssumption
      <4>2. PICK t \in {"save", "exit"}, n \in 0 .. MaxWord : w = [typ |-> t, eve |-> n, jobs |-> <<>>]
        BY <4>1 DEF KeepWrit, BareWrit
      <4> QED
        BY <4>2 DEF Writ
    <3>3. <<w>> \in Seq(Writ)
      BY ONLY <3>2
    <3>4. Len(keep) = 1 /\ keep[1] = w
      BY ONLY <3>1
    <3>5. \A i \in 1 .. Len(keep) : keep[i] = w
      BY ONLY <3>4
    <3> QED
      BY <3>1, <3>2, <3>3, <3>5
  <2> QED
    BY <2>1, <2>2
<1>7. ms = keep
  BY <1>5, <1>6, ConcatEmptySeq
<1> HIDE DEF ms
<1>8. writs' = ws \o keep
  BY <1>1, <1>7 DEF LordPlan
<1> QED
  BY <1>6, <1>8 DEF Holds


LEMMA HeldUp ==
  ASSUME PierInv, PierNext, walls # <<>>, walls' # <<>>
  PROVE  Holds(writs', writs)
<1>1. /\ Works /\ sat \in {"work", "done"} /\ god # "init"
      /\ writs \in Seq(Writ) /\ eve \in 0 .. MaxWord
  BY DEF PierInv, ModeInv, Works, PierTypeOK, LordTypeOK
<1>2. ASSUME NEW why, Abort(why) PROVE FALSE
  BY <1>2 DEF Abort, PierForget
<1>3. ASSUME PierBail PROVE writs' = <<>>
  BY <1>3 DEF PierBail, LordHalt, LordStop
<1>4. CASE writs' = writs
  BY <1>1, <1>4, HoldsAll
<1>5. CASE writs' = <<>>
  BY <1>5 DEF Holds
<1>6. CASE Boots
  BY <1>1, <1>6 DEF Boots, KingBoot, BootMeta, BootPlan, KingStay
<1>7. CASE Hears
  <2>1. ~Ripe
    BY <1>1 DEF Ripe
  <2>2. ~Played
    BY <1>1, <1>2 DEF Played
  <2>3. ~Negotiated
    BY <1>1 DEF Negotiated
  <2>4. CASE LordGone
    BY <1>3, <1>5, <2>4 DEF LordGone
  <2>5. CASE Answered
    <3>1. LordPlan(Tail(writs), <<>>) /\ Heard({"peek", "live"})
      BY <1>1, <2>5 DEF Answered
    <3>2. writs # <<>> /\ Tail(writs) \in Seq(Writ)
      <4>1. writs # <<>>
        BY <3>1 DEF Heard
      <4> QED
        BY <1>1, <4>1, TailIs
    <3>3. writs' = Tail(writs)
      BY <3>1, <3>2, ConcatEmptySeq DEF LordPlan
    <3> QED
      BY <1>1, <3>2, <3>3, HoldsAll
  <2>6. CASE Worked
    <3> DEFINE e  == EveAfter(Head(out), Head(writs))
               gs == IF Head(out).how = "bail" THEN gifts ELSE Append(gifts, WorkFact)
               ws == Tail(writs)
    <3>1. Loop /\ Heard({"work"}) /\ PierWork(e, dun, ws, gs)
      BY <1>2, <2>6 DEF Worked
    <3>2. e \in 0 .. MaxEve
      BY <3>1, WorkHeard
    <3> HIDE DEF e, gs
    <3>3. writs # <<>>
      BY <3>1 DEF Heard
    <3>4. ws \in Seq(Writ)
      BY <1>1, <3>3, TailIs
    <3>5. e \in 0 .. MaxWord
      BY <3>2, EventsAssumption, LordAssumption
    <3>6. ws = writs \/ (writs # <<>> /\ ws = Tail(writs))
      BY <3>3
    <3> HIDE DEF ws
    <3> QED
      BY <3>1, <3>4, <3>5, <3>6, WallHoldsWork
  <2> QED
    BY <1>7, <2>1, <2>2, <2>3, <2>4, <2>5, <2>6 DEF Hears
<1>8. CASE Writes
  <2>1. ~WriteBail
    BY DEF WriteBail, PierForget
  <2>2. WriteDone
    BY <1>8, <2>1 DEF Writes
  <2> DEFINE d == BatchEnd(req)
  <2>3. PierWork(eve, d, writs, gifts)
    BY <1>1, <1>2, <2>2 DEF WriteDone
  <2> HIDE DEF d
  <2> QED
    BY <1>1, <2>3, WallHoldsWork
<1>9. CASE Reads
  <2>1. CASE ReadStarted
    BY <1>4, <2>1 DEF ReadStarted, lordVars
  <2>2. CASE Readback
    BY <1>1, <1>2, <2>2 DEF Readback
  <2> QED
    BY <1>9, <2>1, <2>2 DEF Reads
<1>10. CASE Tick
  <2>1. PierWork(eve, dun, writs, gifts)
    BY <1>2, <1>10 DEF Tick
  <2> QED
    BY <1>1, <2>1, WallHoldsWork
<1>11. CASE Drivers
  <2>1. CASE PlanPack
    <3> DEFINE w == BareWrit("pack")
               ms == <<w>>
    <3>1. writs' = writs \o ms
      BY <2>1 DEF PlanPack, LordPlan
    <3>2. w \in Writ /\ w.typ # "work"
      <4>1. 0 \in 0 .. MaxWord
        BY LordAssumption
      <4>2. PICK n \in 0 .. MaxWord : w = [typ |-> "pack", eve |-> n, jobs |-> <<>>]
        BY <4>1 DEF BareWrit
      <4> HIDE DEF w
      <4> QED
        BY <4>2 DEF Writ
    <3> HIDE DEF w
    <3>3. ms \in Seq(Writ)
      BY ONLY <3>2
    <3>4. Len(ms) = 1 /\ ms[1] = w
      OBVIOUS
    <3> HIDE DEF ms
    <3>5. \A i \in 1 .. Len(ms) : ms[i] = w
      BY ONLY <3>4
    <3> QED
      BY <3>1, <3>2, <3>3, <3>5 DEF Holds
  <2>2. CASE PlanOvum \/ PlanPeek \/ SaveTimer
    BY <1>4, <2>2 DEF PlanOvum, PlanPeek, SaveTimer, lordVars
  <2> QED
    BY <1>11, <2>1, <2>2 DEF Drivers
<1>12. CASE KingExit
  <2>1. CASE sat = "work"
    BY <1>4, <1>12, <2>1 DEF KingExit, lordVars
  <2>2. CASE sat = "done"
    <3>1. "done" \in ExitStates
      BY <1>12, <2>2 DEF KingExit
    <3> QED
      BY <3>1, PierAssumption
  <2> QED
    BY <1>1, <2>1, <2>2
<1>13. CASE Thread \/ Serf
  <2>1. writs' = writs
    BY <1>13 DEF Thread, Serf, lordVars, SerfRipe, SerfOrphan, SerfWrit, SerfWork, SerfLife,
         SerfPlay, SerfPeek, SerfPack, SerfKeep, SerfExit, SerfRefuses, SerfDies, Take
  <2> QED
    BY <1>4, <2>1
<1>14. CASE Fails
  <2>1. ~KingCrash
    BY DEF KingCrash, PierForget
  <2>2. CASE SerfCrash \/ (DiskThreadFail /\ UNCHANGED <<lordVars, pierVars>>)
    BY <1>4, <2>2 DEF SerfCrash, SerfDies, lordVars
  <2> QED
    BY <1>3, <1>5, <1>14, <2>1, <2>2 DEF Fails
<1> QED
  BY <1>6, <1>7, <1>8, <1>9, <1>10, <1>11, <1>12, <1>13, <1>14 DEF PierNext

\* While a wall waits, no event is sent that it would have to wait for, by any
\* callback: what is answered is not replaced (_pier_work_send, _pier_wall).
THEOREM PierWallsHold == PierSpec => WallsHoldEvents
<1> DEFINE A == walls # <<>> /\ walls' # <<>> =>
                  Cardinality(Outstanding("work")') <= Cardinality(Outstanding("work"))
<1>1. PierInv /\ [PierNext]_vars => [A]_vars
  <2> SUFFICES ASSUME PierInv, PierNext, walls # <<>>, walls' # <<>>
               PROVE  Cardinality(Outstanding("work")') <= Cardinality(Outstanding("work"))
    OBVIOUS
  <2>1. Holds(writs', writs) /\ writs \in Seq(Writ)
    BY HeldUp DEF PierInv, PierTypeOK, LordTypeOK
  <2>2. Cardinality(WorkIn(writs')) <= Cardinality(WorkIn(writs))
    BY <2>1, HoldsNoMore
  <2>3. Outstanding("work")' = WorkIn(writs') /\ Outstanding("work") = WorkIn(writs)
    BY DEF Outstanding, WorkIn
  <2> QED
    BY <2>2, <2>3
<1> QED
  BY <1>1, PierInvariant, PTL DEF PierSpec, WallsHoldEvents

=============================================================================
