----------------------------- MODULE LordProofs -----------------------------
(***************************************************************************)
(* What holds of the king and its serf for every set of jobs, any number   *)
(* of events and of writs in flight, and whether or not a replay can fail: *)
(* the inductive invariant of LordSpec, from which the three invariants of *)
(* Lord and the history of its checkpoints follow.                         *)
(***************************************************************************)
EXTENDS Lord, TLAPS, SequenceTheorems, WellFoundedInduction

InTouch == god = "live" /\ serf = "up"

\* The pleas that tell the king where the kernel is, and what they tell it.
Tells(p) == p.typ = "play" \/ (p.typ = "work" /\ p.how # "bail")

Told(p, w) == IF p.typ = "work" THEN p.eve ELSE w.eve + Len(w.jobs) - 1

NoneFailed == \A i \in 1 .. Len(out) : ~ReplayFailed(out[i])

\* What may be on its way, by the state of the two processes.
PipesInv ==
  /\ god = "none" => writs = <<>> /\ out = <<>>
  /\ god = "init" => /\ writs = <<>> /\ inn = <<>>
                     /\ \A i \in 1 .. Len(out) : out[i].typ = "ripe"
  /\ god = "init" /\ serf = "up" => Len(out) = 1 /\ out[1].eve = Len(core)
  /\ serf = "boot" => god # "live" /\ inn = <<>> /\ out = <<>>
  /\ \A i \in 1 .. Len(out) : out[i].typ = "play" => out[i].how # "swap"
  /\ ReplayFails \/ NoneFailed

\* The batches of a queue are of events that there may be, and no event is
\* computed between them; an event is computed by itself.
Sane(ws) ==
  \A i \in 1 .. Len(ws) :
    /\ ws[i].typ = "play" =>
         /\ ws[i].eve > 0 /\ ws[i].eve + Len(ws[i].jobs) - 1 <= MaxEve
         /\ \A k \in 1 .. Len(ws) : ws[k].typ # "work"
    /\ ws[i].typ = "work" => Len(ws[i].jobs) = 1

\* The events to be computed keep to the bound.
BoundInv ==
  /\ Sane(writs)
  /\ Len(core) <= MaxEve /\ Len(snap) <= MaxEve
  /\ serf = "up" => /\ Sane(inn)
                    /\ \A i \in 1 .. Len(inn) : inn[i].typ = "work" => Len(core) + i <= MaxEve

\* The pleas on their way and then the writs on theirs are the king's queue.
MatchInv ==
  InTouch =>
    /\ Len(writs) = Len(out) + Len(inn)
    /\ \A i \in 1 .. Len(out) : Answers(out[i], writs[i])
    /\ \A i \in 1 .. Len(inn) : inn[i] = writs[Len(out) + i]

\* The last of the pleas that tell the king where the kernel is tells the truth.
TellInv ==
  InTouch /\ NoneFailed =>
    /\ \A i \in 1 .. Len(out) :
         Tells(out[i]) /\ (\A k \in 1 .. Len(out) : k > i => ~Tells(out[k])) =>
           Len(core) = Told(out[i], writs[i])
    /\ (\A i \in 1 .. Len(out) : ~Tells(out[i])) => Len(core) = eve

\* A request for a snapshot is the first on its way, and of the kernel's event.
KeepInv ==
  serf = "up" =>
    \A i \in 1 .. Len(inn) :
      inn[i].typ \in {"save", "cram"} => i = 1 /\ inn[i].eve = Len(core)

\* The batches on their way come before anything else, and are the next of the
\* kernel's events.
PlayInv ==
  serf = "up" /\ ~ReplayFails =>
    \A i \in 1 .. Len(inn) : inn[i].typ = "play" =>
      IF i = 1 THEN inn[i].eve = Len(core) + 1
      ELSE inn[i - 1].typ = "play" /\ inn[i].eve = inn[i - 1].eve + Len(inn[i - 1].jobs)

FaultInv == fault # "save" /\ (fault = "order" => ReplayFails)

\* The inductive invariant.
LordInv ==
  /\ LordTypeOK /\ PipesInv /\ BoundInv /\ MatchInv /\ TellInv
  /\ KeepInv /\ PlayInv /\ FaultInv /\ SnapIsPrefix

-----------------------------------------------------------------------------
(* The ends of a process, and its start.                                   *)

\* Before the first serf there is no queue, no kernel and no checkpoint.
LEMMA StartInv == Start => LordInv
<1> SUFFICES ASSUME Start PROVE LordInv
  OBVIOUS
<1> USE DEF Start
<1>1. LordTypeOK
  BY LordAssumption DEF LordTypeOK, Kernel
<1>2. PipesInv /\ BoundInv
  BY EventsAssumption DEF PipesInv, BoundInv, Sane, NoneFailed
<1> QED
  BY <1>1, <1>2 DEF LordInv, MatchInv, TellInv, KeepInv, PlayInv, FaultInv,
                    SnapIsPrefix, InTouch

\* A dead serf leaves its pleas in the pipe and its checkpoint on disk.
LEMMA DeathInv ==
  ASSUME LordInv, NEW why \in {"none", "kernel", "order", "save"}, SerfDies(why),
         why # "save", why = "order" => ReplayFails
  PROVE  LordInv'
<1> USE DEF LordInv, SerfDies
<1>1. LordTypeOK'
  BY DEF LordTypeOK, Kernel
<1>2. PipesInv'
  BY DEF PipesInv, NoneFailed
<1>3. BoundInv'
  BY EventsAssumption DEF BoundInv, Sane
<1> QED
  BY <1>1, <1>2, <1>3 DEF MatchInv, TellInv, KeepInv, PlayInv, FaultInv, SnapIsPrefix, InTouch

\* A king that halts his serf forgets his queue and what is on its way to it.
LEMMA HaltInv == LordInv /\ LordHalt => LordInv'
<1> SUFFICES ASSUME LordInv, LordHalt PROVE LordInv'
  OBVIOUS
<1> USE DEF LordInv, LordHalt, LordStop
<1>1. LordTypeOK'
  BY LordAssumption DEF LordTypeOK, Kernel
<1>2. PipesInv'
  BY DEF PipesInv, NoneFailed
<1>3. BoundInv'
  BY EventsAssumption DEF BoundInv, Sane
<1> QED
  BY <1>1, <1>2, <1>3 DEF MatchInv, TellInv, KeepInv, PlayInv, FaultInv, SnapIsPrefix, InTouch

\* A serf whose king has died goes on with what it was sent.
LEMMA OrphanInv == LordInv /\ LordOrphan => LordInv'
<1> SUFFICES ASSUME LordInv, LordOrphan PROVE LordInv'
  OBVIOUS
<1> USE DEF LordInv, LordOrphan, LordStop
<1>1. LordTypeOK'
  BY LordAssumption DEF LordTypeOK
<1>2. PipesInv'
  BY DEF PipesInv, NoneFailed
<1>3. BoundInv'
  BY DEF BoundInv, Sane
<1> QED
  BY <1>1, <1>2, <1>3 DEF MatchInv, TellInv, KeepInv, PlayInv, FaultInv, SnapIsPrefix, InTouch

\* A king that starts a serf expects its %ripe and nothing else.
LEMMA SpawnInv == LordInv /\ LordInit => LordInv'
<1> SUFFICES ASSUME LordInv, LordInit PROVE LordInv'
  OBVIOUS
<1> USE DEF LordInv, LordInit
<1>1. LordTypeOK'
  BY LordAssumption DEF LordTypeOK, Kernel
<1>2. PipesInv'
  BY DEF PipesInv, NoneFailed
<1>3. BoundInv'
  BY EventsAssumption DEF BoundInv, Sane
<1> QED
  BY <1>1, <1>2, <1>3 DEF MatchInv, TellInv, KeepInv, PlayInv, FaultInv, SnapIsPrefix, InTouch

\* The serf says where it stands, and the king believes it.
LEMMA RipeInv == LordInv /\ SerfRipe => LordInv'
<1> SUFFICES ASSUME LordInv, SerfRipe PROVE LordInv'
  OBVIOUS
<1> DEFINE p == [typ |-> "ripe", how |-> "done", eve |-> Len(snap)]
<1> USE DEF LordInv, SerfRipe
<1>1. Len(snap) \in 0 .. MaxWord
  BY LordAssumption, EventsAssumption DEF BoundInv, LordTypeOK, Kernel
<1>2. p \in Plea
  BY <1>1 DEF Plea
<1>3. out = <<>> /\ inn = <<>> /\ god # "live"
  BY DEF PipesInv
<1>4. out' = IF god = "none" THEN out ELSE Append(out, p)
  BY DEF Say, Reply
<1> HIDE DEF p
<1>5. LordTypeOK'
  BY <1>2, <1>4 DEF LordTypeOK
<1>6. god = "init" => Len(out') = 1 /\ out'[1] = p
  BY <1>2, <1>3, <1>4
<1>7. god = "none" => out' = <<>>
  BY <1>3, <1>4
<1>8. p.typ = "ripe" /\ p.eve = Len(snap)
  BY DEF p
<1>9. PipesInv'
  BY <1>3, <1>5, <1>6, <1>7, <1>8 DEF PipesInv, NoneFailed, ReplayFailed, LordTypeOK
<1>10. BoundInv'
  BY <1>3 DEF BoundInv, Sane
<1>11. SnapIsPrefix'
  BY SubSeqFull DEF SnapIsPrefix, LordTypeOK, Kernel
<1> QED
  BY <1>3, <1>5, <1>9, <1>10, <1>11 DEF MatchInv, TellInv, KeepInv, PlayInv, FaultInv, InTouch

\* The %ripe tells the king where the kernel is (_lord_plea_ripe).
LEMMA HearRipeInv == LordInv /\ HearRipe => LordInv'
<1> SUFFICES ASSUME LordInv, HearRipe PROVE LordInv'
  OBVIOUS
<1> USE DEF LordInv, HearRipe, LordRipe, Heard
<1>1. out \in Seq(Plea) /\ out # <<>> /\ Head(out) \in Plea
  BY DEF LordTypeOK
<1>2. LordTypeOK'
  BY <1>1 DEF LordTypeOK, Plea
<1>3. writs = <<>> /\ inn = <<>>
  BY DEF PipesInv
<1>4. serf = "up" => Len(out) = 1 /\ Head(out).eve = Len(core)
  BY <1>1 DEF PipesInv
<1>5. serf = "up" => Len(out') = 0
  BY <1>1, <1>4
<1>6. serf # "boot"
  BY <1>1 DEF PipesInv
<1>7. \A i \in 1 .. Len(out') : out'[i].typ = "ripe"
  <2> TAKE i \in 1 .. Len(out')
  <2>1. i + 1 \in 1 .. Len(out) /\ out'[i] = out[i + 1]
    BY <1>1
  <2> QED
    BY <2>1 DEF PipesInv
<1>8. PipesInv'
  BY <1>6, <1>7 DEF PipesInv, NoneFailed, ReplayFailed
<1>9. BoundInv'
  BY DEF BoundInv, Sane
<1>10. MatchInv'
  <2> SUFFICES ASSUME serf = "up" PROVE MatchInv'
    BY DEF MatchInv, InTouch
  <2>1. Len(out') = 0 /\ writs' = <<>> /\ inn' = <<>>
    BY <1>3, <1>5
  <2> HIDE DEF LordInv, HearRipe, LordRipe, Heard
  <2>2. Len(writs') = 0 /\ Len(inn') = 0
    BY <2>1
  <2> QED
    BY <2>1, <2>2 DEF MatchInv
<1>11. TellInv'
  <2> SUFFICES ASSUME serf = "up" PROVE TellInv'
    BY DEF TellInv, InTouch
  <2>1. Len(out') = 0 /\ Len(core') = eve'
    BY <1>4, <1>5
  <2> HIDE DEF LordInv, HearRipe, LordRipe, Heard
  <2>2. \A i \in 1 .. Len(out') : FALSE
    BY <2>1
  <2> QED
    BY <2>1, <2>2 DEF TellInv
<1> QED
  BY <1>2, <1>8, <1>9, <1>10, <1>11 DEF KeepInv, PlayInv, FaultInv, SnapIsPrefix

-----------------------------------------------------------------------------
(* The king asks.                                                          *)

\* The writs of a queue and one more.
LEMMA AppendAt ==
  ASSUME NEW S, NEW ws \in Seq(S), NEW w \in S
  PROVE  /\ Len(Append(ws, w)) = Len(ws) + 1
         /\ \A i \in 1 .. Len(ws) + 1 : Append(ws, w)[i] = IF i = Len(ws) + 1 THEN w ELSE ws[i]
OBVIOUS

\* Pleas and writs that may meet still may, when a sane writ joins the queue.
LEMMA SaneAppend ==
  ASSUME NEW ws \in Seq(Writ), NEW w \in Writ, Sane(ws),
         w.typ = "work" => /\ \A i \in 1 .. Len(ws) : ws[i].typ # "play"
                           /\ Len(w.jobs) = 1,
         w.typ = "play" => /\ \A i \in 1 .. Len(ws) : ws[i].typ # "work"
                           /\ w.eve > 0 /\ w.eve + Len(w.jobs) - 1 <= MaxEve
  PROVE  Sane(Append(ws, w))
<1>1. \A i \in 1 .. Len(Append(ws, w)) :
        Append(ws, w)[i] = IF i = Len(ws) + 1 THEN w ELSE ws[i]
  OBVIOUS
<1>2. Len(Append(ws, w)) = Len(ws) + 1 /\ Len(ws) \in Nat
  OBVIOUS
<1> QED
  BY <1>1, <1>2 DEF Sane

\* A writ that joins the queue while it may: a job with no batch outstanding, a
\* batch after the last one, a snapshot with nothing outstanding.
LEMMA AskInv ==
  ASSUME LordInv, NEW w \in Writ, Ask(<<w>>),
         w.typ = "work" => /\ \A i \in 1 .. Len(writs) : writs[i].typ # "play"
                           /\ Len(w.jobs) = 1
                           /\ Len(core) + Len(inn) < MaxEve,
         w.typ = "play" => /\ \A i \in 1 .. Len(writs) : writs[i].typ = "play"
                           /\ w.eve > 0 /\ w.eve + Len(w.jobs) - 1 <= MaxEve
                           /\ writs = <<>> => w.eve = eve + 1
                           /\ writs # <<>> =>
                                LET v == writs[Len(writs)] IN w.eve = v.eve + Len(v.jobs),
         w.typ \in {"save", "cram"} => writs = <<>> /\ w.eve = eve
  PROVE  LordInv'
<1>0. /\ god = "live" /\ writs' = writs \o <<w>> /\ inn' = inn \o <<w>>
      /\ UNCHANGED <<god, eve, out, serf, core, snap, fault>>
  BY DEF Ask, LordPlan
<1>1. /\ writs \in Seq(Writ) /\ inn \in Seq(Writ) /\ out \in Seq(Plea)
      /\ Len(writs) \in Nat /\ Len(inn) \in Nat /\ Len(out) \in Nat
      /\ core \in Kernel /\ Len(core) \in Nat
  BY DEF LordInv, LordTypeOK, Kernel
<1>2. writs' = Append(writs, w) /\ inn' = Append(inn, w)
  BY <1>0, <1>1, AppendIsConcat
<1>3. /\ Len(writs') = Len(writs) + 1
      /\ \A i \in 1 .. Len(writs') : writs'[i] = IF i = Len(writs) + 1 THEN w ELSE writs[i]
      /\ Len(inn') = Len(inn) + 1
      /\ \A i \in 1 .. Len(inn') : inn'[i] = IF i = Len(inn) + 1 THEN w ELSE inn[i]
  BY <1>1, <1>2, AppendAt
<1>4. LordTypeOK'
  BY <1>0, <1>1, <1>2 DEF LordInv, LordTypeOK
<1>5. PipesInv'
  BY <1>0 DEF LordInv, PipesInv, NoneFailed
<1>6. serf = "up" => /\ Len(writs) = Len(out) + Len(inn)
                     /\ \A i \in 1 .. Len(out) : Answers(out[i], writs[i])
                     /\ \A i \in 1 .. Len(inn) : inn[i] = writs[Len(out) + i]
  BY <1>0 DEF LordInv, MatchInv, InTouch
<1>7. BoundInv'
  <2>1. Sane(writs')
    BY <1>1, <1>2, SaneAppend DEF LordInv, BoundInv
  <2>2. ASSUME serf = "up" PROVE Sane(inn')
    <3>1. \A i \in 1 .. Len(inn) : Len(out) + i \in 1 .. Len(writs) /\ inn[i] = writs[Len(out) + i]
      BY <1>1, <1>6, <2>2
    <3>2. w.typ = "work" => \A i \in 1 .. Len(inn) : inn[i].typ # "play"
      BY <3>1
    <3>3. w.typ = "play" => \A i \in 1 .. Len(inn) : inn[i].typ # "work"
      BY <3>1
    <3> QED
      BY <1>1, <1>2, <2>2, <3>2, <3>3, SaneAppend DEF LordInv, BoundInv
  <2>3. ASSUME serf = "up", NEW i \in 1 .. Len(inn'), inn'[i].typ = "work"
        PROVE  Len(core) + i <= MaxEve
    <3>1. CASE i = Len(inn) + 1
      <4>1. w.typ = "work"
        BY <1>3, <2>3, <3>1
      <4>2. Len(core) + Len(inn) < MaxEve
        BY <4>1
      <4> QED
        BY <1>1, <3>1, <4>2, EventsAssumption
    <3>2. CASE i # Len(inn) + 1
      BY <1>1, <1>3, <2>3, <3>2 DEF LordInv, BoundInv
    <3> QED
      BY <3>1, <3>2
  <2> QED
    BY <1>0, <2>1, <2>2, <2>3 DEF LordInv, BoundInv
<1>8. MatchInv'
  <2> SUFFICES ASSUME serf = "up" PROVE MatchInv'
    BY <1>0 DEF MatchInv, InTouch
  <2>1. Len(writs') = Len(out) + Len(inn')
    BY <1>1, <1>3, <1>6
  <2>2. \A i \in 1 .. Len(out) : writs'[i] = writs[i]
    BY <1>1, <1>3, <1>6
  <2>3. \A i \in 1 .. Len(out) : Answers(out[i], writs'[i])
    BY <1>6, <2>2
  <2>4. ASSUME NEW i \in 1 .. Len(inn') PROVE inn'[i] = writs'[Len(out) + i]
    <3>1. Len(out) + i \in 1 .. Len(writs')
      BY <1>1, <1>3, <2>1
    <3>2. CASE i = Len(inn) + 1
      BY <1>1, <1>3, <1>6, <3>1, <3>2
    <3>3. CASE i # Len(inn) + 1
      <4>1. i \in 1 .. Len(inn) /\ Len(out) + i # Len(writs) + 1
        BY <1>1, <1>3, <1>6, <3>3
      <4>2. inn'[i] = inn[i] /\ writs'[Len(out) + i] = writs[Len(out) + i]
        BY <1>3, <3>1, <3>3, <4>1
      <4> QED
        BY <1>6, <4>1, <4>2
    <3> QED
      BY <3>2, <3>3
  <2> QED
    BY <1>0, <2>1, <2>3, <2>4 DEF MatchInv
<1>9. TellInv'
  <2> SUFFICES ASSUME serf = "up" PROVE TellInv'
    BY <1>0 DEF TellInv, InTouch
  <2>1. \A i \in 1 .. Len(out) : writs'[i] = writs[i]
    BY <1>1, <1>3, <1>6
  <2> QED
    BY <1>0, <2>1 DEF LordInv, TellInv, InTouch, NoneFailed
<1>10. ASSUME serf = "up", writs = <<>>
       PROVE  Len(inn) = 0 /\ Len(core) = eve
  <2>1. Len(out) = 0 /\ Len(inn) = 0
    BY <1>1, <1>6, <1>10
  <2>2. \A i \in 1 .. Len(out) : FALSE
    BY <2>1
  <2> QED
    BY <1>0, <1>10, <2>1, <2>2 DEF LordInv, TellInv, InTouch, NoneFailed
<1>11. KeepInv'
  <2> SUFFICES ASSUME serf = "up", NEW i \in 1 .. Len(inn'), inn'[i].typ \in {"save", "cram"}
               PROVE  i = 1 /\ inn'[i].eve = Len(core)
    BY <1>0 DEF KeepInv
  <2>1. CASE i = Len(inn) + 1
    BY <1>3, <1>10, <2>1
  <2>2. CASE i # Len(inn) + 1
    BY <1>1, <1>3, <2>2 DEF LordInv, KeepInv
  <2> QED
    BY <2>1, <2>2
<1>12. PlayInv'
  <2> SUFFICES ASSUME serf = "up", ~ReplayFails, NEW i \in 1 .. Len(inn'), inn'[i].typ = "play"
               PROVE  IF i = 1 THEN inn'[i].eve = Len(core) + 1
                      ELSE /\ inn'[i - 1].typ = "play"
                           /\ inn'[i].eve = inn'[i - 1].eve + Len(inn'[i - 1].jobs)
    BY <1>0 DEF PlayInv
  <2>1. CASE i # Len(inn) + 1
    <3>1. i \in 1 .. Len(inn) /\ inn'[i] = inn[i] /\ i - 1 # Len(inn) + 1
      BY <1>1, <1>3, <2>1
    <3>2. ASSUME i # 1 PROVE inn'[i - 1] = inn[i - 1]
      <4>1. i - 1 \in 1 .. Len(inn')
        BY <1>1, <1>3, <3>1, <3>2
      <4> QED
        BY <1>3, <3>1, <4>1
    <3> QED
      BY <3>1, <3>2 DEF LordInv, PlayInv
  <2>2. CASE i = Len(inn) + 1 /\ i # 1
    <3>1. /\ Len(inn) \in 1 .. Len(inn) /\ inn'[i] = w /\ inn'[i - 1] = inn[Len(inn)]
          /\ Len(out) + Len(inn) = Len(writs) /\ Len(writs) \in 1 .. Len(writs)
      BY <1>1, <1>3, <1>6, <2>2
    <3>2. inn[Len(inn)] = writs[Len(out) + Len(inn)]
      BY <1>6, <3>1
    <3>3. inn[Len(inn)] = writs[Len(writs)]
      BY <3>1, <3>2
    <3>4. writs # <<>>
      BY <1>1, <3>1
    <3> QED
      BY <2>2, <3>1, <3>3, <3>4
  <2>3. CASE i = Len(inn) + 1 /\ i = 1
    <3>1. w.typ = "play" /\ inn'[i] = w /\ Len(inn) = 0
      BY <1>1, <1>3, <2>3
    <3>2. CASE writs = <<>>
      BY <1>10, <2>3, <3>1, <3>2
    <3>3. CASE writs # <<>>
      <4> DEFINE n == Len(writs)
      <4>1. n = Len(out) /\ n \in 1 .. n
        BY <1>1, <1>6, <3>1, <3>3
      <4>2. out[n].typ = "play" /\ writs[n].typ = "play"
        BY <1>6, <3>1, <4>1 DEF Answers
      <4>3. NoneFailed /\ InTouch
        BY <1>0 DEF LordInv, PipesInv, InTouch
      <4>4. Len(core) = Told(out[n], writs[n])
        <5>1. n \in 1 .. Len(out)
          BY <4>1
        <5>2. Tells(out[n])
          BY <4>2 DEF Tells
        <5>3. \A k \in 1 .. Len(out) : ~(k > n)
          BY <1>1, <4>1
        <5> HIDE DEF n
        <5> QED
          BY <4>3, <5>1, <5>2, <5>3 DEF LordInv, TellInv
      <4>5. writs[n] \in Writ
        BY <1>1, <4>1
      <4>6. Len(core) = writs[n].eve + Len(writs[n].jobs) - 1
        BY <4>2, <4>4 DEF Told
      <4>7. w.eve = writs[n].eve + Len(writs[n].jobs)
        BY <3>1, <3>3
      <4>8. writs[n].eve \in Int /\ Len(writs[n].jobs) \in Int
        BY <4>5, LordAssumption DEF Writ
      <4> QED
        BY <2>3, <3>1, <4>6, <4>7, <4>8
    <3> QED
      BY <3>2, <3>3
  <2> QED
    BY <2>1, <2>2, <2>3
<1>13. FaultInv' /\ SnapIsPrefix'
  BY <1>0 DEF LordInv, FaultInv, SnapIsPrefix
<1> QED
  BY <1>4, <1>5, <1>7, <1>8, <1>9, <1>11, <1>12, <1>13 DEF LordInv

-----------------------------------------------------------------------------
(* The serf answers.                                                       *)

\* A writ is taken and answered, by what the kernel has then computed.
LEMMA TakeInv ==
  ASSUME LordInv, serf = "up", inn # <<>>, inn' = Tail(inn),
         NEW w \in Writ, w = Head(inn), NEW p \in Plea, Answers(p, w), Reply(p),
         UNCHANGED <<god, eve, writs, serf, fault>>,
         core' \in Kernel, snap' \in Kernel,
         Len(core') <= MaxEve, Len(snap') <= MaxEve,
         Len(snap') <= Len(core'), SubSeq(core', 1, Len(snap')) = snap',
         ReplayFailed(p) => ReplayFails, p.typ = "play" => p.how # "swap",
         Tells(p) => ReplayFailed(p) \/ Len(core') = Told(p, w),
         ~Tells(p) => Len(core') = Len(core),
         w.typ = "work" => Len(core') <= Len(core) + 1,
         w.typ = "play" => ReplayFails \/ Len(core') = w.eve + Len(w.jobs) - 1,
         w.typ \notin {"work", "play"} => Len(core') = Len(core)
  PROVE  LordInv'
<1>1. /\ writs \in Seq(Writ) /\ inn \in Seq(Writ) /\ out \in Seq(Plea)
      /\ Len(writs) \in Nat /\ Len(inn) \in Nat /\ Len(out) \in Nat
      /\ Len(core) \in Nat /\ Len(core') \in Nat
  BY DEF LordInv, LordTypeOK, Kernel
<1>2. /\ inn' \in Seq(Writ) /\ Len(inn) = Len(inn') + 1 /\ Len(inn') \in Nat
      /\ \A i \in 1 .. Len(inn') : i + 1 \in 1 .. Len(inn) /\ inn'[i] = inn[i + 1]
      /\ 1 \in 1 .. Len(inn) /\ inn[1] = w
  BY <1>1
<1>3. god # "none" =>
        /\ out' = Append(out, p) /\ Len(out') = Len(out) + 1
        /\ \A i \in 1 .. Len(out) + 1 : out'[i] = IF i = Len(out) + 1 THEN p ELSE out[i]
  BY <1>1, AppendAt DEF Reply
<1>4. god = "none" => out' = out
  BY DEF Reply
<1>5. LordTypeOK'
  <2>1. out' = out \/ out' = Append(out, p)
    BY <1>3, <1>4
  <2>2. Append(out, p) \in Seq(Plea)
    BY ONLY <1>1, p \in Plea, AppendProperties
  <2>3. out' \in Seq(Plea)
    BY <1>1, <2>1, <2>2
  <2> QED
    BY <1>2, <2>3 DEF LordInv, LordTypeOK
<1>6. PipesInv'
  <2>1. god # "init"
    BY DEF LordInv, PipesInv
  <2>2. CASE god = "none"
    BY <1>4, <2>2 DEF LordInv, PipesInv, NoneFailed
  <2>3. CASE god # "none"
    <3>1. ASSUME NEW i \in 1 .. Len(out')
          PROVE  out'[i] = p \/ \E k \in 1 .. Len(out) : out'[i] = out[k]
      <4>1. i = Len(out) + 1 \/ i \in 1 .. Len(out)
        BY <1>1, <1>3, <2>3
      <4> QED
        BY <1>1, <1>3, <2>3, <4>1
    <3>2. \A i \in 1 .. Len(out') : out'[i].typ = "play" => out'[i].how # "swap"
      BY <3>1 DEF LordInv, PipesInv
    <3>3. ~ReplayFails => \A i \in 1 .. Len(out') : ~ReplayFailed(out'[i])
      BY <3>1 DEF LordInv, PipesInv, NoneFailed
    <3> QED
      BY <2>1, <2>3, <3>2, <3>3 DEF PipesInv, NoneFailed
  <2> QED
    BY <2>2, <2>3
<1>7. BoundInv'
  <2>1. Sane(inn) /\ \A i \in 1 .. Len(inn) : inn[i].typ = "work" => Len(core) + i <= MaxEve
    BY DEF LordInv, BoundInv
  <2>2. Sane(inn')
    BY <1>2, <2>1 DEF Sane
  <2>3. ASSUME NEW i \in 1 .. Len(inn'), inn'[i].typ = "work"
        PROVE  Len(core') + i <= MaxEve
    <3>1. inn[i + 1].typ = "work" /\ i + 1 \in 1 .. Len(inn)
      BY <1>2, <2>3
    <3>2. w.typ # "play"
      BY <1>2, <2>1, <3>1 DEF Sane
    <3>3. Len(core') <= Len(core) + 1
      BY <1>1, <3>2
    <3>4. Len(core) + (i + 1) <= MaxEve
      BY <2>1, <3>1
    <3> QED
      BY <1>1, <3>3, <3>4, EventsAssumption
  <2> QED
    BY <2>2, <2>3 DEF LordInv, BoundInv
<1>8. InTouch => /\ Len(writs) = Len(out) + Len(inn)
                 /\ \A i \in 1 .. Len(out) : Answers(out[i], writs[i])
                 /\ \A i \in 1 .. Len(inn) : inn[i] = writs[Len(out) + i]
                 /\ god # "none"
  BY DEF LordInv, MatchInv, InTouch
<1>9. MatchInv'
  <2> SUFFICES ASSUME InTouch
               PROVE  /\ Len(writs) = Len(out') + Len(inn')
                      /\ \A i \in 1 .. Len(out') : Answers(out'[i], writs[i])
                      /\ \A i \in 1 .. Len(inn') : inn'[i] = writs[Len(out') + i]
    BY DEF MatchInv, InTouch
  <2>1. Len(writs) = Len(out') + Len(inn')
    BY <1>1, <1>2, <1>3, <1>8
  <2>2. w = writs[Len(out) + 1]
    BY <1>2, <1>8
  <2>3. ASSUME NEW i \in 1 .. Len(out') PROVE Answers(out'[i], writs[i])
    <3>1. CASE i = Len(out) + 1
      BY <1>1, <1>3, <1>8, <2>2, <3>1
    <3>2. CASE i # Len(out) + 1
      <4>1. i \in 1 .. Len(out) /\ out'[i] = out[i]
        BY <1>1, <1>3, <1>8, <3>2
      <4> QED
        BY <1>8, <4>1
    <3> QED
      BY <3>1, <3>2
  <2>4. ASSUME NEW i \in 1 .. Len(inn') PROVE inn'[i] = writs[Len(out') + i]
    <3>1. i + 1 \in 1 .. Len(inn) /\ inn'[i] = inn[i + 1]
      BY <1>2
    <3>2. inn[i + 1] = writs[Len(out) + (i + 1)]
      BY <1>8, <3>1
    <3>3. Len(out) + (i + 1) = Len(out') + i
      <4>1. Len(out') = Len(out) + 1 /\ i \in Int
        BY <1>3, <1>8
      <4> QED
        BY <1>1, <4>1
    <3> QED
      BY <3>1, <3>2, <3>3
  <2> QED
    BY <2>1, <2>3, <2>4
<1>10. TellInv'
  <2> SUFFICES ASSUME InTouch, NoneFailed'
               PROVE  /\ \A i \in 1 .. Len(out') :
                           Tells(out'[i]) /\ (\A k \in 1 .. Len(out') : k > i => ~Tells(out'[k])) =>
                             Len(core') = Told(out'[i], writs[i])
                      /\ (\A i \in 1 .. Len(out') : ~Tells(out'[i])) => Len(core') = eve
    BY DEF TellInv, InTouch
  <2> DEFINE n == Len(out) + 1
  <2>1. n \in 1 .. Len(out') /\ out'[n] = p /\ w = writs[n]
    BY <1>1, <1>2, <1>3, <1>8
  <2>2. \A i \in 1 .. Len(out) : i \in 1 .. Len(out') /\ out'[i] = out[i] /\ n > i
    BY <1>1, <1>3, <1>8
  <2>3. \A i \in 1 .. Len(out') : i = n \/ i \in 1 .. Len(out)
    BY <1>1, <1>3, <1>8
  <2>4. NoneFailed /\ ~ReplayFailed(p)
    BY <2>1, <2>2 DEF NoneFailed
  <2> HIDE DEF n
  <2>5. /\ \A i \in 1 .. Len(out) :
             Tells(out[i]) /\ (\A k \in 1 .. Len(out) : k > i => ~Tells(out[k])) =>
               Len(core) = Told(out[i], writs[i])
        /\ (\A i \in 1 .. Len(out) : ~Tells(out[i])) => Len(core) = eve
    BY <2>4 DEF LordInv, TellInv
  <2>6. ASSUME NEW i \in 1 .. Len(out'), Tells(out'[i]),
               \A k \in 1 .. Len(out') : k > i => ~Tells(out'[k])
        PROVE  Len(core') = Told(out'[i], writs[i])
    <3>1. CASE i = n
      BY <2>1, <2>4, <2>6, <3>1
    <3>2. CASE i # n
      <4>1. i \in 1 .. Len(out) /\ out'[i] = out[i] /\ n > i
        BY <2>2, <2>3, <3>2
      <4>2. ~Tells(p)
        BY <2>1, <2>6, <4>1
      <4>3. \A k \in 1 .. Len(out) : k > i => ~Tells(out[k])
        BY <2>2, <2>6
      <4> QED
        BY <2>5, <2>6, <4>1, <4>2, <4>3
    <3> QED
      BY <3>1, <3>2
  <2>7. ASSUME \A i \in 1 .. Len(out') : ~Tells(out'[i])
        PROVE  Len(core') = eve
    <3>1. ~Tells(p) /\ \A i \in 1 .. Len(out) : ~Tells(out[i])
      BY <2>1, <2>2, <2>7
    <3> QED
      BY <2>5, <3>1
  <2> QED
    BY <2>6, <2>7
<1>11. KeepInv'
  <2>1. \A i \in 1 .. Len(inn) : inn[i].typ \in {"save", "cram"} => i = 1
    BY DEF LordInv, KeepInv
  <2>2. \A i \in 1 .. Len(inn') : inn'[i].typ \notin {"save", "cram"}
    BY <1>2, <2>1
  <2> QED
    BY <2>2 DEF KeepInv
<1>12. PlayInv'
  <2> SUFFICES ASSUME ~ReplayFails, NEW i \in 1 .. Len(inn'), inn'[i].typ = "play"
               PROVE  IF i = 1 THEN inn'[i].eve = Len(core') + 1
                      ELSE /\ inn'[i - 1].typ = "play"
                           /\ inn'[i].eve = inn'[i - 1].eve + Len(inn'[i - 1].jobs)
    BY DEF PlayInv
  <2>1. i + 1 \in 1 .. Len(inn) /\ inn'[i] = inn[i + 1] /\ i + 1 # 1 /\ (i + 1) - 1 = i
    BY <1>2
  <2>2. inn[i].typ = "play" /\ inn[i + 1].eve = inn[i].eve + Len(inn[i].jobs)
    BY <2>1 DEF LordInv, PlayInv
  <2>3. CASE i = 1
    <3>1. w.typ = "play" /\ inn'[i].eve = w.eve + Len(w.jobs)
      BY <1>2, <2>1, <2>2, <2>3
    <3>2. Len(core') = w.eve + Len(w.jobs) - 1 /\ w.eve \in Int /\ Len(w.jobs) \in Int
      BY <3>1, LordAssumption DEF Writ
    <3> QED
      BY <2>3, <3>1, <3>2
  <2>4. CASE i # 1
    <3>1. i - 1 \in 1 .. Len(inn') /\ (i - 1) + 1 = i
      BY <1>2, <2>4
    <3>2. inn'[i - 1] = inn[i]
      BY <1>2, <3>1
    <3> QED
      BY <2>1, <2>2, <2>4, <3>2
  <2> QED
    BY <2>3, <2>4
<1>13. FaultInv' /\ SnapIsPrefix'
  BY DEF LordInv, FaultInv, SnapIsPrefix
<1> QED
  BY <1>5, <1>6, <1>7, <1>9, <1>10, <1>11, <1>12, <1>13 DEF LordInv

\* What extends a kernel extends its checkpoint.
LEMMA ExtendsPrefix ==
  ASSUME NEW s \in Seq(Job), NEW t \in Seq(Job), NEW x \in Seq(Job),
         Len(t) <= Len(s), SubSeq(s, 1, Len(t)) = t
  PROVE  /\ s \o x \in Seq(Job) /\ Len(s \o x) = Len(s) + Len(x)
         /\ Len(t) <= Len(s \o x) /\ SubSeq(s \o x, 1, Len(t)) = t
<1>1. Len(s) \in Nat /\ Len(t) \in Nat /\ Len(x) \in Nat
  OBVIOUS
<1>2. s \o x \in Seq(Job) /\ Len(s \o x) = Len(s) + Len(x)
  BY ConcatProperties
<1>3. CASE Len(t) = 0
  BY <1>1, <1>2, <1>3, SubSeqEmpty
<1>4. CASE Len(t) # 0
  <2>1. 1 \in 1 .. Len(s) /\ Len(t) \in 1 .. Len(s)
    BY <1>1, <1>4
  <2>2. SubSeq(s \o x, 1, Len(t)) = SubSeq(s, 1, Len(t))
    BY <2>1, SubSeqOfConcat1
  <2> QED
    BY <1>1, <1>2, <2>2
<1> QED
  BY <1>3, <1>4

\* What the invariant says of the writ that the serf takes and of its kernel.
LEMMA Taken ==
  ASSUME LordInv, serf = "up", inn # <<>>
  PROVE  /\ Head(inn) \in Writ /\ Head(inn) = inn[1] /\ 1 \in 1 .. Len(inn)
         /\ core \in Seq(Job) /\ snap \in Seq(Job)
         /\ Len(core) \in Nat /\ Len(snap) \in Nat
         /\ Len(core) <= MaxEve /\ Len(snap) <= MaxEve /\ MaxEve <= MaxWord
         /\ MaxEve \in Nat /\ MaxWord \in Nat
         /\ Len(snap) <= Len(core) /\ SubSeq(core, 1, Len(snap)) = snap
<1>1. inn \in Seq(Writ) /\ core \in Seq(Job) /\ snap \in Seq(Job)
  BY DEF LordInv, LordTypeOK, Kernel
<1>2. Len(core) <= MaxEve /\ Len(snap) <= MaxEve
  BY DEF LordInv, BoundInv
<1>3. Len(snap) <= Len(core) /\ SubSeq(core, 1, Len(snap)) = snap
  BY DEF LordInv, SnapIsPrefix
<1> QED
  BY <1>1, <1>2, <1>3, LordAssumption, EventsAssumption

\* A job computed is one event more, or none if it bails (_serf_work).
LEMMA WorkInv == LordInv /\ SerfWork => LordInv'
<1> SUFFICES ASSUME LordInv, SerfWork PROVE LordInv'
  OBVIOUS
<1> DEFINE w == Head(inn)
<1>1. /\ serf = "up" /\ inn # <<>> /\ w.typ = "work" /\ inn' = Tail(inn)
      /\ UNCHANGED <<god, eve, writs, serf, fault, snap>>
  BY DEF SerfWork, Take
<1>2. PICK how \in Outcomes :
        /\ core' = CASE how = "done" -> Append(core, w.jobs[1])
                     [] how = "swap" -> Append(core, Crud)
                     [] how = "bail" -> core
        /\ Say("work", how, Len(core'))
  BY DEF SerfWork
<1>3. how \in {"done", "swap", "bail"}
  BY LordAssumption
<1>4. w \in Writ /\ w = inn[1] /\ 1 \in 1 .. Len(inn)
  BY <1>1, Taken
<1>5. Len(core) + 1 <= MaxEve /\ w.jobs[1] \in Job
  <2>1. w.jobs \in Seq(Job) /\ Len(w.jobs) = 1
    BY <1>1, <1>4 DEF LordInv, BoundInv, Sane, Writ
  <2> QED
    BY <1>1, <1>4, <2>1 DEF LordInv, BoundInv
<1> DEFINE p == [typ |-> "work", how |-> how, eve |-> Len(core')]
<1>6. Reply(p)
  BY <1>2 DEF Say
<1>7. /\ core' \in Seq(Job) /\ Len(core') <= MaxEve /\ Len(core') \in 0 .. MaxWord
      /\ Len(core') <= Len(core) + 1 /\ (how = "bail" => core' = core)
      /\ Len(snap) <= Len(core') /\ SubSeq(core', 1, Len(snap)) = snap
  <2>1. CASE how = "bail"
    BY <1>1, <1>2, <2>1, Taken
  <2>2. CASE how # "bail"
    <3>1. PICK j \in Job : core' = Append(core, j)
      <4>1. CASE how = "done"
        BY <1>2, <1>5, <4>1
      <4>2. CASE how = "swap"
        BY <1>2, <4>2, LordAssumption
      <4> QED
        BY <1>3, <2>2, <4>1, <4>2
    <3>2. core' = core \o <<j>> /\ <<j>> \in Seq(Job) /\ Len(<<j>>) = 1
      BY <1>1, <3>1, Taken, AppendIsConcat
    <3> QED
      BY <1>1, <1>5, <2>2, <3>2, Taken, ExtendsPrefix
  <2> QED
    BY <2>1, <2>2
<1>8. p \in Plea
  BY <1>3, <1>7 DEF Plea
<1>9. /\ Answers(p, w) /\ ~ReplayFailed(p) /\ p.typ = "work"
      /\ Told(p, w) = Len(core') /\ (~Tells(p) => Len(core') = Len(core))
  BY <1>1, <1>7 DEF Answers, ReplayFailed, Told, Tells
<1> HIDE DEF p, w
<1> QED
  BY <1>1, <1>4, <1>6, <1>7, <1>8, <1>9, Taken, TakeInv DEF w, Kernel

\* The lifecycle events come as one batch, at the start (_serf_play_life).
LEMMA LifeInv == LordInv /\ SerfLife => LordInv'
<1> SUFFICES ASSUME LordInv, SerfLife PROVE LordInv'
  OBVIOUS
<1> DEFINE w == Head(inn)
<1>1. /\ serf = "up" /\ inn # <<>> /\ w.typ = "play" /\ inn' = Tail(inn) /\ w.eve = 1
      /\ core = <<>> /\ UNCHANGED <<god, eve, writs, serf, fault, snap>>
  BY DEF SerfLife, Take
<1>2. w \in Writ /\ w = inn[1] /\ 1 \in 1 .. Len(inn)
  BY <1>1, Taken
<1>3. w.jobs \in Seq(Job) /\ Len(w.jobs) <= MaxEve
  <2>1. w.eve + Len(w.jobs) - 1 <= MaxEve /\ w.jobs \in Seq(Job)
    BY <1>1, <1>2 DEF LordInv, BoundInv, Sane, Writ
  <2> QED
    BY <1>1, <2>1, EventsAssumption
<1>4. Len(snap) = 0 /\ Len(core) = 0 /\ snap \in Seq(Job) /\ snap = <<>>
  BY <1>1, Taken
<1>5. PICK how \in {"done", "bail"} :
        /\ core' = IF how = "done" THEN w.jobs ELSE <<>>
        /\ Say("play", how, Len(core')) /\ (how = "bail" => ReplayFails)
  <2>1. CASE core' = w.jobs /\ Say("play", "done", Len(core'))
    BY <2>1
  <2>2. CASE ReplayFails /\ core' = <<>> /\ Say("play", "bail", 0)
    <3>1. Len(core') = 0
      BY <2>2
    <3>2. Say("play", "bail", Len(core'))
      BY <2>2, <3>1
    <3> QED
      BY <2>2, <3>2
  <2> QED
    BY <2>1, <2>2 DEF SerfLife
<1> DEFINE p == [typ |-> "play", how |-> how, eve |-> Len(core')]
<1>6. Reply(p)
  BY <1>5 DEF Say
<1>7. core' \in Seq(Job) /\ Len(core') <= MaxEve /\ Len(core') \in 0 .. MaxWord
  BY <1>1, <1>3, <1>4, <1>5, Taken
<1>8. p \in Plea
  BY <1>5, <1>7 DEF Plea
<1>9. SubSeq(core', 1, Len(snap)) = snap /\ Len(snap) <= Len(core')
  BY <1>4, <1>7, SubSeqEmpty
<1>10. how = "done" => Len(core') = w.eve + Len(w.jobs) - 1
  BY <1>1, <1>3, <1>5
<1>11. /\ Answers(p, w) /\ (ReplayFailed(p) <=> how = "bail") /\ p.typ = "play" /\ p.how # "swap"
       /\ Told(p, w) = w.eve + Len(w.jobs) - 1 /\ Tells(p)
  BY <1>1, <1>5 DEF Answers, ReplayFailed, Told, Tells
<1> HIDE DEF p, w
<1> QED
  BY <1>1, <1>2, <1>5, <1>6, <1>7, <1>8, <1>9, <1>10, <1>11, Taken, TakeInv DEF w, Kernel

\* A batch replayed is as many events more, or as many as went before the one
\* that failed (_serf_play_list).
LEMMA PlayedInv == LordInv /\ SerfPlay => LordInv'
<1> SUFFICES ASSUME LordInv, SerfPlay PROVE LordInv'
  OBVIOUS
<1> DEFINE w == Head(inn)
<1>1. /\ serf = "up" /\ inn # <<>> /\ w.typ = "play" /\ inn' = Tail(inn)
      /\ w.eve = Len(core) + 1 /\ UNCHANGED <<god, eve, writs, serf, fault, snap>>
  BY DEF SerfPlay, Take
<1>2. w \in Writ /\ w = inn[1] /\ 1 \in 1 .. Len(inn)
  BY <1>1, Taken
<1>3. w.jobs \in Seq(Job) /\ Len(core) + Len(w.jobs) <= MaxEve /\ Len(w.jobs) \in Nat
  <2>1. w.eve + Len(w.jobs) - 1 <= MaxEve /\ w.jobs \in Seq(Job)
    BY <1>1, <1>2 DEF LordInv, BoundInv, Sane, Writ
  <2> QED
    BY <1>1, <2>1, Taken
<1>4. PICK n \in 0 .. Len(w.jobs) :
        /\ ReplayFails \/ n = Len(w.jobs)
        /\ core' = core \o SubSeq(w.jobs, 1, n)
        /\ Say("play", IF n = Len(w.jobs) THEN "done" ELSE "bail", Len(core'))
  BY DEF SerfPlay
<1> DEFINE x == SubSeq(w.jobs, 1, n)
           how == IF n = Len(w.jobs) THEN "done" ELSE "bail"
           p == [typ |-> "play", how |-> how, eve |-> Len(core')]
<1>5. x \in Seq(Job) /\ Len(x) = n
  <2>1. \A i \in 1 .. n : w.jobs[i] \in Job
    BY <1>3
  <2> QED
    BY <1>3, <2>1, SubSeqProperties
<1>6. Reply(p) /\ core' = core \o x
  BY <1>4 DEF Say
<1>7. how \in {"done", "bail"} /\ (how = "bail" => ReplayFails) /\ (how = "done" => n = Len(w.jobs))
  BY <1>4
<1> HIDE DEF x, how
<1>8. /\ core' \in Seq(Job) /\ Len(core') = Len(core) + n
      /\ Len(snap) <= Len(core') /\ SubSeq(core', 1, Len(snap)) = snap
  BY <1>1, <1>5, <1>6, Taken, ExtendsPrefix
<1>9. Len(core') <= MaxEve /\ Len(core') \in 0 .. MaxWord
  <2>1. n <= Len(w.jobs) /\ n \in Nat
    BY <1>3
  <2> QED
    BY <1>1, <1>3, <1>8, <2>1, Taken
<1>10. p \in Plea
  BY <1>7, <1>9 DEF Plea
<1>11. how = "done" => Len(core') = w.eve + Len(w.jobs) - 1
  BY <1>1, <1>3, <1>7, <1>8, Taken
<1>12. /\ Answers(p, w) /\ (ReplayFailed(p) <=> how = "bail") /\ p.typ = "play" /\ p.how # "swap"
       /\ Told(p, w) = w.eve + Len(w.jobs) - 1 /\ Tells(p)
  BY <1>1, <1>7 DEF Answers, ReplayFailed, Told, Tells
<1> HIDE DEF p, w
<1> QED
  BY <1>1, <1>2, <1>6, <1>7, <1>8, <1>9, <1>10, <1>11, <1>12, Taken, TakeInv DEF w, Kernel

\* A peek, a pack and a snapshot leave the kernel as it is.
LEMMA QuietInv ==
  ASSUME LordInv, NEW t \in {"peek", "save", "cram", "pack"},
         NEW a \in {"peek", "live"}, a = (IF t = "peek" THEN "peek" ELSE "live"),
         Take(t), Say(a, "done", 0), UNCHANGED core,
         snap' = snap \/ snap' = core
  PROVE  LordInv'
<1> DEFINE w == Head(inn)
           p == [typ |-> a, how |-> "done", eve |-> 0]
<1>1. /\ serf = "up" /\ inn # <<>> /\ w.typ = t /\ inn' = Tail(inn)
      /\ UNCHANGED <<god, eve, writs, serf, fault>>
  BY DEF Take
<1>2. w \in Writ
  BY <1>1, Taken
<1>3. Reply(p) /\ p \in Plea
  BY LordAssumption DEF Say, Plea
<1>4. /\ core' \in Seq(Job) /\ snap' \in Seq(Job) /\ Len(core') = Len(core)
      /\ Len(core') <= MaxEve /\ Len(snap') <= MaxEve
      /\ Len(snap') <= Len(core') /\ SubSeq(core', 1, Len(snap')) = snap'
  BY <1>1, Taken, SubSeqFull
<1>5. Answers(p, w) /\ ~ReplayFailed(p) /\ ~Tells(p) /\ p.typ # "play"
  BY <1>1 DEF Answers, ReplayFailed, Tells
<1>6. w.typ \notin {"work", "play"}
  BY <1>1
<1> HIDE DEF p, w
<1> QED
  BY <1>1, <1>2, <1>3, <1>4, <1>5, <1>6, Taken, TakeInv DEF w, Kernel

\* What the serf is asked for is never what it must refuse, but after a failed
\* replay; its first event is loaded by a %play.
LEMMA RefusesInv == LordInv /\ SerfRefuses => LordInv'
<1> SUFFICES ASSUME LordInv, SerfRefuses PROVE LordInv'
  OBVIOUS
<1> DEFINE w == Head(inn)
<1>1. PICK why \in Refusals(w) : SerfDies(why)
  BY DEF SerfRefuses
<1>2. serf = "up" /\ inn # <<>> /\ w = inn[1] /\ 1 \in 1 .. Len(inn)
  BY Taken DEF SerfRefuses
<1>3. why \in {"kernel", "order", "save"}
  BY DEF Refusals
<1>4. why # "save"
  <2>1. w.typ \in {"save", "cram"} => w.eve = Len(core)
    BY <1>2 DEF LordInv, KeepInv
  <2> QED
    BY <2>1 DEF Refusals
<1>5. why = "order" => ReplayFails
  <2>1. ~ReplayFails /\ w.typ = "play" => w.eve = Len(core) + 1
    BY <1>2 DEF LordInv, PlayInv
  <2> QED
    BY <2>1 DEF Refusals
<1> QED
  BY <1>1, <1>3, <1>4, <1>5, DeathInv

\* Any other end of the serf.
LEMMA DiesInv == LordInv /\ SerfDies(fault) => LordInv'
BY DeathInv DEF LordInv, LordTypeOK, FaultInv

-----------------------------------------------------------------------------
(* The king hears.                                                         *)

\* A plea of the oldest writ is heard: both go, and the king's number is what the
\* plea says (_lord_on_plea).
LEMMA HeardInv ==
  ASSUME LordInv, Heard({"work", "peek", "play", "live"}),
         ~ReplayFailed(Head(out)), LordHear, LordPlan(Tail(writs), <<>>)
  PROVE  LordInv'
<1>1. /\ god # "none" /\ out # <<>> /\ writs # <<>>
      /\ Head(out).typ \in {"work", "peek", "play", "live"} /\ Answers(Head(out), Head(writs))
  BY DEF Heard
<1>2. /\ eve' = EveAfter(Head(out), Head(writs)) /\ out' = Tail(out)
      /\ UNCHANGED <<god, core, snap, serf, fault>>
  BY DEF LordHear
<1>3. /\ writs \in Seq(Writ) /\ inn \in Seq(Writ) /\ out \in Seq(Plea)
      /\ Len(writs) \in Nat /\ Len(inn) \in Nat /\ Len(out) \in Nat
      /\ Len(core) \in Nat
  BY DEF LordInv, LordTypeOK, Kernel
<1>4. writs' = Tail(writs) /\ inn' = inn
  <2>1. Tail(writs) \in Seq(Writ)
    BY <1>1, <1>3
  <2> QED
    BY <1>3, <2>1, ConcatEmptySeq DEF LordPlan
<1>5. /\ writs' \in Seq(Writ) /\ Len(writs) = Len(writs') + 1 /\ Len(writs') \in Nat
      /\ \A i \in 1 .. Len(writs') : i + 1 \in 1 .. Len(writs) /\ writs'[i] = writs[i + 1]
      /\ Head(writs) = writs[1] /\ 1 \in 1 .. Len(writs) /\ Head(writs) \in Writ
  BY <1>1, <1>3, <1>4
<1>6. /\ out' \in Seq(Plea) /\ Len(out) = Len(out') + 1 /\ Len(out') \in Nat
      /\ \A i \in 1 .. Len(out') : i + 1 \in 1 .. Len(out) /\ out'[i] = out[i + 1]
      /\ Head(out) = out[1] /\ 1 \in 1 .. Len(out) /\ Head(out) \in Plea
  BY <1>1, <1>2, <1>3
<1> DEFINE p == Head(out)
           w == Head(writs)
<1>7. p.typ = "play" => p.how = "done"
  <2>1. p.how \in {"done", "swap", "bail"}
    BY <1>6 DEF Plea
  <2>2. p.typ = "play" => p.how # "swap"
    BY <1>6 DEF LordInv, PipesInv
  <2> QED
    BY <2>1, <2>2 DEF ReplayFailed
<1>8. eve' = IF Tells(p) THEN Told(p, w) ELSE eve
  BY <1>1, <1>2, <1>7 DEF EveAfter, Tells, Told
<1>9. Tells(p) => Told(p, w) \in 0 .. MaxWord
  <2>1. p.eve \in 0 .. MaxWord
    BY <1>6 DEF Plea
  <2>2. ASSUME p.typ = "play" PROVE w.eve + Len(w.jobs) - 1 \in 0 .. MaxWord
    <3>1. w.typ = "play"
      BY <1>1, <2>2 DEF Answers
    <3>2. w.eve > 0 /\ w.eve + Len(w.jobs) - 1 <= MaxEve
      BY <1>5, <3>1 DEF LordInv, BoundInv, Sane
    <3>3. w.eve \in Nat /\ Len(w.jobs) \in Nat
      BY <1>5, LordAssumption DEF Writ
    <3> QED
      BY <3>2, <3>3, LordAssumption, EventsAssumption
  <2> QED
    BY <2>1, <2>2 DEF Tells, Told
<1> HIDE DEF p, w
<1>10. LordTypeOK'
  <2>1. eve' \in 0 .. MaxWord
    BY <1>8, <1>9 DEF LordInv, LordTypeOK
  <2> QED
    BY <1>2, <1>4, <1>5, <1>6, <2>1 DEF LordInv, LordTypeOK
<1>11. god = "live"
  <2>1. god \in {"none", "init", "live"}
    BY DEF LordInv, LordTypeOK
  <2>2. god = "init" => Head(out).typ = "ripe"
    BY <1>6 DEF LordInv, PipesInv
  <2> QED
    BY <1>1, <2>1, <2>2
<1>12. PipesInv'
  BY <1>2, <1>4, <1>6, <1>11 DEF LordInv, PipesInv, NoneFailed
<1>13. BoundInv'
  BY <1>2, <1>4, <1>5 DEF LordInv, BoundInv, Sane
<1>14. MatchInv'
  <2> SUFFICES ASSUME serf = "up"
               PROVE  /\ Len(writs') = Len(out') + Len(inn)
                      /\ \A i \in 1 .. Len(out') : Answers(out'[i], writs'[i])
                      /\ \A i \in 1 .. Len(inn) : inn[i] = writs'[Len(out') + i]
    BY <1>2, <1>4 DEF MatchInv, InTouch
  <2>1. /\ Len(writs) = Len(out) + Len(inn)
        /\ \A i \in 1 .. Len(out) : Answers(out[i], writs[i])
        /\ \A i \in 1 .. Len(inn) : inn[i] = writs[Len(out) + i]
    BY <1>11 DEF LordInv, MatchInv, InTouch
  <2>2. Len(writs') = Len(out') + Len(inn)
    BY <1>3, <1>5, <1>6, <2>1
  <2>3. ASSUME NEW i \in 1 .. Len(out') PROVE Answers(out'[i], writs'[i])
    <3>1. i \in 1 .. Len(writs')
      BY <1>3, <1>6, <2>2
    <3>2. writs'[i] = writs[i + 1] /\ out'[i] = out[i + 1] /\ i + 1 \in 1 .. Len(out)
      BY <1>5, <1>6, <3>1
    <3> QED
      BY <2>1, <3>2
  <2>4. ASSUME NEW i \in 1 .. Len(inn) PROVE inn[i] = writs'[Len(out') + i]
    <3>1. Len(out') + i \in 1 .. Len(writs') /\ (Len(out') + i) + 1 = Len(out) + i
      BY <1>3, <1>6, <2>2
    <3>2. writs'[Len(out') + i] = writs[(Len(out') + i) + 1]
      BY <1>5, <3>1
    <3> QED
      BY <2>1, <3>1, <3>2
  <2> QED
    BY <2>2, <2>3, <2>4
<1>15. TellInv'
  <2> SUFFICES ASSUME serf = "up", NoneFailed'
               PROVE  /\ \A i \in 1 .. Len(out') :
                           Tells(out'[i]) /\ (\A k \in 1 .. Len(out') : k > i => ~Tells(out'[k])) =>
                             Len(core) = Told(out'[i], writs'[i])
                      /\ (\A i \in 1 .. Len(out') : ~Tells(out'[i])) => Len(core) = eve'
    BY <1>2 DEF TellInv, InTouch
  <2>1. \A k \in 1 .. Len(out) : k = 1 \/ (k - 1 \in 1 .. Len(out') /\ out[k] = out'[k - 1])
    <3> TAKE k \in 1 .. Len(out)
    <3>1. k = 1 \/ (k - 1 \in 1 .. Len(out') /\ (k - 1) + 1 = k)
      BY <1>3, <1>6
    <3> QED
      BY <1>6, <3>1
  <2>2. NoneFailed
    BY <1>6, <2>1 DEF NoneFailed
  <2>3. /\ \A i \in 1 .. Len(out) :
             Tells(out[i]) /\ (\A k \in 1 .. Len(out) : k > i => ~Tells(out[k])) =>
               Len(core) = Told(out[i], writs[i])
        /\ (\A i \in 1 .. Len(out) : ~Tells(out[i])) => Len(core) = eve
    BY <1>11, <2>2 DEF LordInv, TellInv, InTouch
  <2>4. ASSUME NEW i \in 1 .. Len(out'), Tells(out'[i]),
               \A k \in 1 .. Len(out') : k > i => ~Tells(out'[k])
        PROVE  Len(core) = Told(out'[i], writs'[i])
    <3>1. i + 1 \in 1 .. Len(out) /\ out'[i] = out[i + 1]
      BY <1>6
    <3>2. ASSUME NEW k \in 1 .. Len(out), k > i + 1 PROVE ~Tells(out[k])
      <4>1. k - 1 \in 1 .. Len(out') /\ out[k] = out'[k - 1] /\ k - 1 > i
        BY <1>3, <1>6, <2>1, <3>2
      <4> QED
        BY <2>4, <4>1
    <3>3. writs'[i] = writs[i + 1]
      <4>1. Len(out) <= Len(writs)
        BY <1>3, <1>11 DEF LordInv, MatchInv, InTouch
      <4>2. i \in 1 .. Len(writs')
        BY <1>3, <1>5, <1>6, <4>1
      <4> QED
        BY <1>5, <4>2
    <3> QED
      BY <2>3, <2>4, <3>1, <3>2, <3>3
  <2>5. ASSUME \A i \in 1 .. Len(out') : ~Tells(out'[i])
        PROVE  Len(core) = eve'
    <3>1. \A k \in 1 .. Len(out) : k # 1 => ~Tells(out[k])
      BY <2>1, <2>5
    <3>2. CASE Tells(p)
      <4>1. \A k \in 1 .. Len(out) : k > 1 => ~Tells(out[k])
        BY <3>1
      <4>2. Len(core) = Told(out[1], writs[1])
        BY <1>6, <2>3, <3>2, <4>1 DEF p
      <4> QED
        BY <1>5, <1>6, <1>8, <3>2, <4>2 DEF p, w
    <3>3. CASE ~Tells(p)
      <4>1. \A k \in 1 .. Len(out) : ~Tells(out[k])
        BY <1>6, <3>1, <3>3 DEF p
      <4> QED
        BY <1>8, <2>3, <3>3, <4>1
    <3> QED
      BY <3>2, <3>3
  <2> QED
    BY <2>4, <2>5
<1> QED
  BY <1>2, <1>4, <1>10, <1>12, <1>13, <1>14, <1>15
     DEF LordInv, KeepInv, PlayInv, FaultInv, SnapIsPrefix

\* A plea is heard, and a failed replay ends the serf (_pier_on_lord_play_bail).
LEMMA HearPleaInv == LordInv /\ HearPlea => LordInv'
<1> SUFFICES ASSUME LordInv, HearPlea PROVE LordInv'
  OBVIOUS
<1>1. CASE LordHalt
  BY <1>1, HaltInv
<1>2. CASE ~ReplayFailed(Head(out)) /\ LordHear /\ LordPlan(Tail(writs), <<>>)
  BY <1>2, HeardInv DEF HearPlea
<1> QED
  BY <1>1, <1>2 DEF HearPlea

-----------------------------------------------------------------------------
(* The king asks for each of the things that it may.                       *)

\* A job is asked for with no batch outstanding (u3_lord_work).
LEMMA AskWorkInv == LordInv /\ AskWork => LordInv'
<1> SUFFICES ASSUME LordInv, AskWork PROVE LordInv'
  OBVIOUS
<1>1. PICK j \in Job \ {Crud} : Ask(<<WorkWrit(j)>>)
  BY DEF AskWork
<1>2. \A i \in 1 .. Len(writs) : writs[i].typ # "play"
  BY DEF AskWork, Outstanding, LordInv, LordTypeOK
<1>3. Len(core) + Len(inn) < MaxEve
  BY DEF AskWork
<1> DEFINE w == WorkWrit(j)
<1>4. w \in Writ /\ w.typ = "work" /\ Len(w.jobs) = 1
  BY LordAssumption DEF WorkWrit, Writ
<1> HIDE DEF w
<1> QED
  BY <1>1, <1>2, <1>3, <1>4, AskInv DEF w

\* A batch is asked for after the last one, or as the first thing (u3_lord_play).
LEMMA AskPlayInv == LordInv /\ AskPlay => LordInv'
<1> SUFFICES ASSUME LordInv, AskPlay PROVE LordInv'
  OBVIOUS
<1> DEFINE v == writs[Len(writs)]
           last == IF Outstanding("play") = {} THEN eve ELSE v.eve + Len(v.jobs) - 1
<1>1. writs \in Seq(Writ) /\ Len(writs) \in Nat /\ eve \in Nat
  BY LordAssumption DEF LordInv, LordTypeOK
<1>2. \A i \in 1 .. Len(writs) : writs[i].typ = "play"
  BY <1>1 DEF AskPlay
<1>3. PICK n \in 1 .. 2 : /\ last + n <= MaxEve
                          /\ \E js \in [1 .. n -> Job \ {Crud}] : Ask(<<PlayWrit(last + 1, js)>>)
  BY DEF AskPlay
<1>0. PICK js \in [1 .. n -> Job \ {Crud}] : Ask(<<PlayWrit(last + 1, js)>>)
  BY <1>3
<1>4. writs = <<>> => last = eve
  BY <1>1 DEF Outstanding
<1>5. writs # <<>> => last = v.eve + Len(v.jobs) - 1
  <2> SUFFICES ASSUME writs # <<>> PROVE Outstanding("play") # {}
    OBVIOUS
  <2>1. 1 \in DOMAIN writs /\ 1 \in 1 .. Len(writs)
    BY <1>1
  <2> QED
    BY <1>2, <2>1 DEF Outstanding
<1>6. writs # <<>> => v.eve \in Nat /\ v.eve > 0 /\ Len(v.jobs) \in Nat
  <2> SUFFICES ASSUME writs # <<>> PROVE v.eve \in Nat /\ v.eve > 0 /\ Len(v.jobs) \in Nat
    OBVIOUS
  <2>1. Len(writs) \in 1 .. Len(writs) /\ v \in Writ
    BY <1>1
  <2> QED
    BY <1>2, <2>1, LordAssumption DEF LordInv, BoundInv, Sane, Writ
<1>7. last \in Nat
  BY <1>1, <1>4, <1>5, <1>6
<1>8. js \in Seq(Job) /\ Len(js) = n
  <2>1. js \in [1 .. n -> Job]
    OBVIOUS
  <2> QED
    BY <2>1
<1> HIDE DEF last
<1> DEFINE w == PlayWrit(last + 1, js)
<1>9. w \in Writ /\ w.typ = "play" /\ w.eve = last + 1 /\ Len(w.jobs) = n
  BY <1>3, <1>7, <1>8, LordAssumption, EventsAssumption DEF PlayWrit, Writ
<1>10. w.eve > 0 /\ w.eve + Len(w.jobs) - 1 <= MaxEve
  BY <1>3, <1>7, <1>9, EventsAssumption
<1>11. /\ writs = <<>> => w.eve = eve + 1
       /\ writs # <<>> => w.eve = v.eve + Len(v.jobs)
  BY <1>4, <1>5, <1>6, <1>9
<1> HIDE DEF w
<1>12. Ask(<<w>>)
  BY <1>0 DEF w
<1> QED
  BY <1>2, <1>9, <1>10, <1>11, <1>12, AskInv

\* What changes no kernel may be asked for at any time.
LEMMA AskBareInv ==
  ASSUME LordInv, NEW t \in {"peek", "pack", "exit"}, Ask(<<BareWrit(t)>>)
  PROVE  LordInv'
<1> DEFINE w == BareWrit(t)
<1>1. w \in Writ /\ w.typ \in {"peek", "pack", "exit"}
  BY LordAssumption DEF BareWrit, Writ
<1> HIDE DEF w
<1> QED
  BY <1>1, AskInv DEF w

\* A snapshot is asked for with nothing else outstanding (u3_lord_save).
LEMMA AskKeepInv == LordInv /\ AskKeep => LordInv'
<1> SUFFICES ASSUME LordInv, AskKeep PROVE LordInv'
  OBVIOUS
<1>1. PICK t \in {"save", "cram"} : Ask(LordKeep(writs, t, eve))
  BY DEF AskKeep
<1>2. CASE writs = <<>>
  <2> DEFINE w == KeepWrit(t, eve)
  <2>1. w \in Writ /\ w.typ \in {"save", "cram"} /\ w.eve = eve
    BY DEF KeepWrit, Writ, LordInv, LordTypeOK
  <2>2. Ask(<<w>>)
    BY <1>1, <1>2 DEF LordKeep
  <2> HIDE DEF w
  <2> QED
    BY <1>2, <2>1, <2>2, AskInv
<1>3. CASE writs # <<>>
  <2>1. writs \in Seq(Writ) /\ inn \in Seq(Writ)
    BY DEF LordInv, LordTypeOK
  <2>2. Ask(<<>>)
    BY <1>1, <1>3 DEF LordKeep
  <2>3. UNCHANGED lordVars
    BY <2>1, <2>2, ConcatEmptySeq DEF Ask, LordPlan, lordVars
  <2> QED
    BY <2>3 DEF lordVars, LordInv, LordTypeOK, PipesInv, NoneFailed, BoundInv, Sane, MatchInv,
       TellInv, KeepInv, PlayInv, FaultInv, SnapIsPrefix, InTouch
<1> QED
  BY <1>2, <1>3

-----------------------------------------------------------------------------

\* Nothing happens.
LEMMA StutterInv == LordInv /\ UNCHANGED lordVars => LordInv'
BY DEF lordVars, LordInv, LordTypeOK, PipesInv, NoneFailed, BoundInv, Sane, MatchInv,
       TellInv, KeepInv, PlayInv, FaultInv, SnapIsPrefix, InTouch

\* Every step, by its actions.
LEMMA LordStepInv == LordInv /\ [LordNext]_lordVars => LordInv'
<1> SUFFICES ASSUME LordInv, [LordNext]_lordVars PROVE LordInv'
  OBVIOUS
<1>1. CASE LordClient
  <2>1. CASE AskPeek \/ AskPack \/ AskExit
    BY <2>1, AskBareInv DEF AskPeek, AskPack, AskExit
  <2>2. CASE LordSpawn
    BY <2>2, SpawnInv DEF LordSpawn
  <2> QED
    BY <1>1, <2>1, <2>2, AskWorkInv, AskPlayInv, AskKeepInv DEF LordClient
<1>2. CASE LordHears
  <2>1. CASE HearEnd
    BY <2>1, HaltInv DEF HearEnd
  <2> QED
    BY <1>2, <2>1, HearRipeInv, HearPleaInv DEF LordHears
<1>3. CASE SerfWrit
  <2>1. CASE SerfPeek
    BY <2>1, QuietInv DEF SerfPeek
  <2>2. CASE SerfPack
    BY <2>2, QuietInv DEF SerfPack
  <2>3. CASE SerfKeep("save")
    BY <2>3, QuietInv DEF SerfKeep
  <2>4. CASE SerfKeep("cram")
    BY <2>4, QuietInv DEF SerfKeep
  <2>5. CASE SerfExit
    BY <2>5, DiesInv DEF SerfExit
  <2> QED
    BY <1>3, <2>1, <2>2, <2>3, <2>4, <2>5, WorkInv, LifeInv, PlayedInv, RefusesInv DEF SerfWrit
<1>4. CASE SerfOrphan
  BY <1>4, DiesInv DEF SerfOrphan
<1>5. CASE LordFails
  BY <1>5, DiesInv, HaltInv, OrphanInv DEF LordFails, SerfCrash, Halt, KingDies
<1> QED
  BY <1>1, <1>2, <1>3, <1>4, <1>5, RipeInv, StutterInv DEF LordNext

\* LordInv is an invariant of the king, its serf and any client.
THEOREM LordInvariant == LordSpec => []LordInv
BY StartInv, LordStepInv, PTL DEF LordSpec

-----------------------------------------------------------------------------

\* The king matches pleas to writs by order alone, and that is sound: whatever is
\* asked while the serf computes, the pleas on their way and then the writs on
\* theirs are its queue (_lord_writ_need, _lord_plea_live).
THEOREM LordPleasMatchWrits == LordSpec => []PleasMatchWrits
<1>1. LordInv => PleasMatchWrits
  <2> SUFFICES ASSUME LordInv, InTouch
               PROVE  /\ Len(writs) - Len(inn) = Len(out)
                      /\ \A i \in 1 .. Len(writs) - Len(inn) : Answers(out[i], writs[i])
                      /\ SubSeq(writs, Len(writs) - Len(inn) + 1, Len(writs)) = inn
    BY DEF PleasMatchWrits, InTouch, LordInv
  <2>1. /\ writs \in Seq(Writ) /\ inn \in Seq(Writ)
        /\ Len(writs) \in Nat /\ Len(inn) \in Nat /\ Len(out) \in Nat
    BY DEF LordInv, LordTypeOK
  <2>2. /\ Len(writs) = Len(out) + Len(inn)
        /\ \A i \in 1 .. Len(out) : Answers(out[i], writs[i])
        /\ \A i \in 1 .. Len(inn) : inn[i] = writs[Len(out) + i]
    BY DEF LordInv, MatchInv
  <2>3. Len(writs) - Len(inn) = Len(out)
    BY <2>1, <2>2
  <2> DEFINE m == Len(out) + 1
             n == Len(writs)
             t == SubSeq(writs, m, n)
  <2>4. /\ t \in Seq(Writ) /\ Len(t) = Len(inn)
        /\ \A i \in 1 .. Len(inn) : t[i] = writs[Len(out) + i]
    <3>1. \A i \in m .. n : writs[i] \in Writ
      BY <2>1
    <3>2. /\ t \in Seq(Writ) /\ Len(t) = (IF m <= n THEN n - m + 1 ELSE 0)
          /\ \A i \in 1 .. n - m + 1 : t[i] = writs[m + i - 1]
      BY <2>1, <3>1, SubSeqProperties
    <3>3. n - m + 1 = Len(inn) /\ (~(m <= n) => Len(inn) = 0)
      BY <2>1, <2>2
    <3>4. \A i \in 1 .. Len(inn) : m + i - 1 = Len(out) + i
      BY <2>1
    <3> QED
      BY <3>2, <3>3, <3>4
  <2> HIDE DEF t
  <2>5. t = inn
    BY <2>1, <2>2, <2>4, SeqEqual
  <2> QED
    BY <2>2, <2>3, <2>5 DEF t
<1> QED
  BY <1>1, LordInvariant, PTL

\* A set of numbers up to n has a last one.
LEMMA Last ==
  ASSUME NEW n \in Nat, NEW T \in SUBSET (1 .. n), T # {}
  PROVE  \E m \in T : \A k \in T : k <= m
<1> DEFINE D == {n - k : k \in T}
<1>1. D \subseteq Nat /\ D # {}
  <2>1. \A k \in T : n - k \in Nat
    OBVIOUS
  <2>2. PICK k \in T : TRUE
    OBVIOUS
  <2>3. n - k \in D
    OBVIOUS
  <2> QED
    BY <2>1, <2>3
<1>2. PICK d \in D : \A e \in D : ~ (<<e, d>> \in OpToRel(<, Nat))
  BY <1>1, NatLessThanWellFounded, WFMin
<1>3. \A e \in D : ~(e < d)
  BY <1>1, <1>2 DEF OpToRel
<1>4. PICK m \in T : d = n - m
  OBVIOUS
<1>5. \A k \in T : k <= m
  <2> TAKE k \in T
  <2>1. ~(n - k < n - m)
    BY <1>3, <1>4
  <2> QED
    BY <2>1
<1> QED
  BY <1>5

\* The king knows, once it has heard all that is on its way, which event its serf
\* is at, so that no snapshot is asked for of another one, and no replay is out of
\* order unless an event of it failed (god_u->eve_d of vere/lord.c).
THEOREM LordKingKnowsKernel == LordSpec => []KingKnowsKernel
<1>1. LordInv => KingKnowsKernel
  <2> SUFFICES ASSUME LordInv, InTouch, NoneFailed
               PROVE  LET told == {i \in DOMAIN out : \/ out[i].typ = "play"
                                                      \/ out[i].typ = "work" /\ out[i].how # "bail"}
                          last == CHOOSE i \in told : \A k \in told : k <= i
                      IN  Len(core) = IF told = {} THEN eve ELSE EveAfter(out[last], writs[last])
    BY DEF KingKnowsKernel, InTouch, LordInv, FaultInv, NoneFailed, LordTypeOK
  <2> DEFINE told == {i \in DOMAIN out : \/ out[i].typ = "play"
                                         \/ out[i].typ = "work" /\ out[i].how # "bail"}
             last == CHOOSE i \in told : \A k \in told : k <= i
  <2>1. out \in Seq(Plea) /\ Len(out) \in Nat /\ DOMAIN out = 1 .. Len(out)
    BY DEF LordInv, LordTypeOK
  <2>2. /\ \A i \in 1 .. Len(out) :
             Tells(out[i]) /\ (\A k \in 1 .. Len(out) : k > i => ~Tells(out[k])) =>
               Len(core) = Told(out[i], writs[i])
        /\ (\A i \in 1 .. Len(out) : ~Tells(out[i])) => Len(core) = eve
    BY DEF LordInv, TellInv
  <2>3. told = {i \in 1 .. Len(out) : Tells(out[i])}
    BY <2>1 DEF Tells
  <2> HIDE DEF told
  <2>4. CASE told = {}
    BY <2>2, <2>3, <2>4 DEF told
  <2>5. CASE told # {}
    <3>1. last \in told /\ \A k \in told : k <= last
      <4>1. told \in SUBSET (1 .. Len(out))
        BY <2>3
      <4>2. \E i \in told : \A k \in told : k <= i
        BY <2>1, <2>5, <4>1, Last
      <4> QED
        BY <4>2
    <3> HIDE DEF last
    <3>2. Len(core) = Told(out[last], writs[last])
      <4>1. \A k \in 1 .. Len(out) : k > last => ~Tells(out[k])
        BY <2>1, <2>3, <3>1
      <4> QED
        BY <2>2, <2>3, <3>1, <4>1
    <3>3. EveAfter(out[last], writs[last]) = Told(out[last], writs[last])
      <4>1. last \in 1 .. Len(out) /\ Tells(out[last]) /\ ~ReplayFailed(out[last])
        BY <2>3, <3>1 DEF NoneFailed
      <4>2. out[last].how \in {"done", "swap", "bail"}
        <5>1. out[last] \in Plea
          BY <2>1, <4>1
        <5> QED
          BY <5>1 DEF Plea
      <4>3. out[last].typ = "play" => out[last].how # "swap"
        BY <4>1 DEF LordInv, PipesInv
      <4> QED
        BY <4>1, <4>2, <4>3 DEF EveAfter, Told, Tells, ReplayFailed
    <3> QED
      BY <2>5, <3>2, <3>3 DEF told, last
  <2> QED
    BY <2>4, <2>5
<1> QED
  BY <1>1, LordInvariant, PTL

\* The checkpoint is a state that the kernel passed through (u3m_save).
THEOREM LordSnapIsPrefix == LordSpec => []SnapIsPrefix
BY LordInvariant, PTL DEF LordInv

\* A checkpoint is replaced by one of the same history, at the same event or a
\* later one (_serf_writ_live_save).
THEOREM LordSnapNeverRegresses == LordSpec => SnapNeverRegresses
<1> DEFINE A == Len(snap) <= Len(snap') /\ SubSeq(snap', 1, Len(snap)) = snap
<1>1. ASSUME LordInv, UNCHANGED snap PROVE A
  <2>1. snap \in Seq(Job)
    BY <1>1 DEF LordInv, LordTypeOK, Kernel
  <2> QED
    BY <1>1, <2>1, SubSeqFull
<1>2. ASSUME LordInv, NEW t \in {"save", "cram"}, SerfKeep(t) PROVE A
  BY <1>2 DEF SerfKeep, Take, LordInv, SnapIsPrefix
<1>3. ASSUME LordNext PROVE UNCHANGED snap \/ SerfKeep("save") \/ SerfKeep("cram")
  <2>1. CASE LordClient
    BY <2>1 DEF LordClient, AskWork, AskPlay, AskPeek, AskPack, AskKeep, AskExit, Ask,
               LordSpawn, LordInit
  <2>2. CASE LordHears
    BY <2>2 DEF LordHears, HearRipe, HearPlea, HearEnd, LordHear, LordHalt
  <2>3. CASE SerfRipe \/ SerfOrphan \/ LordFails
    BY <2>3 DEF SerfRipe, SerfOrphan, LordFails, SerfCrash, Halt, KingDies, SerfDies,
               LordHalt, LordOrphan
  <2>4. CASE SerfWrit
    BY <2>4 DEF SerfWrit, SerfWork, SerfLife, SerfPlay, SerfPeek, SerfPack, SerfExit,
               SerfRefuses, SerfDies
  <2> QED
    BY <1>3, <2>1, <2>2, <2>3, <2>4 DEF LordNext
<1>4. LordInv /\ [LordNext]_lordVars => [A]_lordVars
  BY <1>1, <1>2, <1>3
<1> QED
  BY <1>4, LordInvariant, PTL DEF LordSpec, SnapNeverRegresses
=============================================================================
