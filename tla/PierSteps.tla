------------------------------ MODULE PierSteps ------------------------------
(***************************************************************************)
(* What holds of a pier for every boot sequence, every set of jobs, any    *)
(* sizes of the batches and queues, and whatever fails: the inductive      *)
(* invariant of PierSpec, in which the log, the queue before it, the two   *)
(* pipes, the kernel and its checkpoint tell one history, and from which   *)
(* the pier's invariants, its walls and its refinement of Ship follow.     *)
(***************************************************************************)
EXTENDS Pier, DiskProofs, FiniteSetTheorems

\* The states in which the kernel may be ahead of the plans of the log, and
\* those in which the drivers run.
Negotiates == sat \in {"wyrd", "work", "done"}
Works      == sat \in {"work", "done"}

\* The last event of a %play.
EndOf(w) == w.eve + Len(w.jobs) - 1

\* A plea that brings a fact, and a writ that may.
Tells(p) == p.typ = "work" /\ p.how # "bail"
Gain(p)  == IF Tells(p) THEN 1 ELSE 0
Cost(w)  == IF w.typ = "work" THEN 1 ELSE 0

NoneFailed == \A i \in 1 .. Len(out) : ~ReplayFailed(out[i])

-----------------------------------------------------------------------------
(* The invariant.                                                          *)

\* What the process has open, by where it is in its life.
ModeInv ==
  /\ sat = "down" => open = "closed" /\ god = "none"
  /\ god = "none" => sat = "down" \/ (open = "hung" /\ serf = "dead")
  /\ open = "closed" => sat \in {"down", "gone"}
  /\ open = "hung" => ted \notin {"idle", "queued"}
  /\ sat = "gone" => open # "live"
  /\ sat = "init" => god = "init"
  /\ god = "init" /\ sat = "gone" => ExitStates \cap {"init", "boot"} # {}
  /\ sat \in {"play", "wyrd", "work", "done"} => god # "init"
  /\ sat \in {"init", "play", "wyrd"} => sen = dun /\ dun = LastKey
  /\ ~Works => ova = <<>> /\ walls = <<>>
  /\ sat # "play" => red = <<>>

\* A new ship, up to the commit of its boot sequence.
NewInv ==
  /\ meta < MetaKeys => LastKey = 0 /\ sen = 0 /\ sat \in {"down", "boot"}
  /\ sat = "boot" =>
       /\ snap = <<>> /\ core = <<>> /\ writs = <<>> /\ inn = <<>> /\ eve = 0
       /\ sen # dun => dun = 0 /\ BatchEnd(req) = sen
       /\ god = "live" => sen # dun /\ out = <<>>

\* What may be in the pipes, by the state of the two processes.
PipesInv ==
  /\ god = "none" => writs = <<>> /\ out = <<>>
  /\ serf = "dead" => core = <<>>
  /\ serf = "boot" => /\ god # "live" /\ out = <<>> /\ core = <<>>
                      /\ \A i \in 1 .. Len(inn) : inn[i].typ = "exit"
  /\ god = "init" => /\ sat = "gone" \/ (writs = <<>> /\ inn = <<>>)
                     /\ \A i \in 1 .. Len(inn) : inn[i].typ = "exit"
                     /\ Len(out) <= 1
                     /\ \A i \in 1 .. Len(out) : out[i].typ = "ripe" /\ out[i].eve = Len(snap)
                     /\ serf = "up" => core = snap /\ Len(out) = 1

\* The pleas os answer the first of the writs ws.
Matched(ws, os) ==
  /\ Len(os) <= Len(ws)
  /\ \A i \in 1 .. Len(os) : /\ os[i].typ # "ripe" /\ Answers(os[i], ws[i])
                             /\ os[i].typ = "play" => os[i].how # "swap"

\* The writs ns on their way are the rest of the writs ws.
Queued(ws, os, ns) ==
  /\ Len(ws) = Len(os) + Len(ns)
  /\ \A i \in 1 .. Len(ns) : ns[i] = ws[Len(os) + i]

\* The pleas on their way and then the writs on theirs are the king's queue.
MatchInv ==
  god = "live" => Matched(writs, out) /\ (serf = "up" => Queued(writs, out, inn))

\* What is asked of the serf, by where the process is in its life.
WritsInv ==
  god = "live" =>
    /\ \A i \in 1 .. Len(writs) : writs[i].typ = "work" => Len(writs[i].jobs) = 1
    /\ Negotiates => \A i \in 1 .. Len(writs) : writs[i].typ \in {"work", "peek", "save", "pack"}
    /\ sat = "gone" => \A i \in 1 .. Len(writs) :
                         /\ writs[i].typ # "work"
                         /\ "play" \notin ExitStates => writs[i].typ # "play"

\* The events in a batch are the log's; a checkpoint is asked for of what is
\* durable.
Sound(w) ==
  /\ w.typ = "work" => Len(w.jobs) = 1
  /\ w.typ = "play" =>
       /\ w.eve > 0
       /\ \A k \in 1 .. Len(w.jobs) : /\ w.eve + k - 1 <= LastKey
                                      /\ db[w.eve + k - 1] = w.jobs[k]
  /\ w.typ \in {"save", "cram"} => w.eve <= LastKey

InnInv == \A i \in 1 .. Len(inn) : Sound(inn[i])

\* The kernel k is of the history that is in the log and in the queue.
Agrees(k) ==
  \A i \in 1 .. Len(k) :
    /\ i <= LastKey => k[i] = db[i]
    /\ i - dun \in 1 .. Len(put) => k[i] = put[i - dun].job

\* The checkpoint is of the log, the kernel behind it of the history, and the
\* kernel that computes new events is not behind what is planned.
AgreeInv ==
  /\ Len(snap) <= LastKey /\ \A i \in 1 .. Len(snap) : snap[i] = db[i]
  /\ serf = "up" => Len(snap) <= Len(core)
  /\ Agrees(core)
  /\ serf = "up" /\ (\E i \in 1 .. Len(inn) : inn[i].typ = "work") =>
       sen <= Len(core) /\ LastKey <= Len(core)

\* Where the kernel stood, as the pleas os will tell it: at c[i] after the i-th,
\* from s on.
Course(os, s, c) ==
  /\ c \in [0 .. Len(os) -> 0 .. MaxEve]
  /\ c[0] = s
  /\ \A i, j \in 0 .. Len(os) : i <= j => c[i] <= c[j] /\ c[j] <= c[i] + (j - i)
  /\ \A i \in 1 .. Len(os) : /\ c[i] = c[i - 1] + Gain(os[i])
                             /\ Tells(os[i]) => os[i].eve = c[i]

\* The fact that the plea p to the writ w brings.
FactJob(p, w) == IF p.how = "done" THEN w.jobs[1] ELSE Crud

\* The facts that the pleas os to the writs ws bring are of the kernel k.
Facts(os, ws, k, c) ==
  /\ c[Len(os)] = Len(k)
  /\ \A i \in 1 .. Len(os) : Tells(os[i]) => k[c[i]] = FactJob(os[i], ws[i])

WorkInv ==
  god = "live" /\ Negotiates =>
    /\ eve = sen
    /\ \E c : /\ Course(out, sen, c) /\ c[Len(out)] + Len(ova) <= MaxEve
              /\ serf = "up" => Facts(out, writs, core, c)

\* The replay queue: what of the log has been sent, read, and asked for.
Replays(pl, rd) ==
  /\ pl.sen + Len(pl.q) <= pl.eve /\ pl.eve <= dun
  /\ \A i \in 1 .. Len(pl.q) : /\ pl.q[i].eve = pl.sen + i
                               /\ pl.q[i].job = db[pl.sen + i]
  /\ Len(rd) <= 1
  /\ \A i \in 1 .. Len(rd) : /\ rd[i].eve = pl.sen + Len(pl.q) + 1
                             /\ rd[i].eve + rd[i].len - 1 <= pl.eve
                             /\ pl.req = rd[i].eve
  /\ rd = <<>> => pl.req <= pl.sen + Len(pl.q)

PlayInv ==
  sat = "play" => Replays(pay, red) /\ eve <= pay.sen /\ Len(core) <= pay.eve

\* The batches ws that the king, at event e, waits for: up to event s.
Batches(ws, e, s) ==
  /\ \A i \in 1 .. Len(ws) : /\ ws[i].typ = "play" /\ Len(ws[i].jobs) > 0
                             /\ e < ws[i].eve /\ EndOf(ws[i]) <= s
  /\ \A i, j \in 1 .. Len(ws) : i < j => EndOf(ws[i]) < ws[j].eve

BatchInv ==
  sat = "play" =>
    \/ /\ Batches(writs, eve, pay.sen)
       /\ serf = "up" /\ NoneFailed =>
            Len(core) = IF out = <<>> THEN eve ELSE EndOf(writs[Len(out)])
    \/ eve = pay.eve /\ Len(writs) = 1 /\ writs[1].typ = "cram"

\* The effects that wait are of the facts that wait to be durable.
GiftInv == Works => gifts = put /\ rel = dun

\* The effects released are of durable events, in order.
EffsInv ==
  /\ \A i \in 1 .. Len(effs) : effs[i].eve <= LastKey /\ (Works => effs[i].eve <= dun)
  /\ \A i, j \in 1 .. Len(effs) : i < j => effs[i].eve < effs[j].eve

\* The exit wall is the last, and comes to the front when the kernel rests.
WallInv ==
  /\ sat = "work" => \A i \in 1 .. Len(walls) : walls[i] = "save"
  /\ \A i \in 1 .. Len(walls) : walls[i] = "exit" => i = Len(walls)
  /\ walls # <<>> /\ walls[1] = "exit" =>
       sen = dun /\ \A i \in 1 .. Len(writs) : writs[i].typ # "work"

\* The events of a kernel of n, after each of the writs ns on their way.
Budget(ns, n, b) ==
  /\ b \in [0 .. Len(ns) -> 0 .. MaxEve]
  /\ n <= b[0]
  /\ \A i, j \in 0 .. Len(ns) : i <= j => b[i] <= b[j]
  /\ \A i \in 1 .. Len(ns) : /\ b[i - 1] + Cost(ns[i]) <= b[i]
                             /\ ns[i].typ = "play" => EndOf(ns[i]) <= b[i]

BoundInv ==
  /\ sen <= MaxEve /\ LastKey <= MaxEve
  /\ sat \in {"init", "boot", "play"} => sen < MaxEve
  /\ serf # "dead" =>
       \E b : Budget(inn, Len(core), b) /\ b[Len(inn)] + Len(ova) <= MaxEve

\* The assertions that can fail, and what it takes.
OopsInv ==
  /\ oops \in {"none", "null", "barrier", "state", "exit"}
  /\ oops = "null" => ExitStates \cap {"init", "boot"} # {}
  /\ oops = "barrier" => Tils # {0}
  /\ oops = "state" => "play" \in ExitStates
  /\ oops = "exit" => "wyrd" \in ExitStates

\* The inductive invariant.
PierInv ==
  /\ DiskInv /\ PierTypeOK
  /\ ModeInv /\ NewInv /\ PipesInv /\ MatchInv /\ WritsInv /\ InnInv /\ AgreeInv
  /\ WorkInv /\ PlayInv /\ BatchInv /\ GiftInv /\ EffsInv /\ WallInv /\ BoundInv
  /\ OopsInv

-----------------------------------------------------------------------------
(* What the invariant of the log says in numbers.                          *)

DiskShape ==
  /\ LastKey \in Nat /\ DOMAIN db = 1 .. LastKey
  /\ \A i \in 1 .. LastKey : db[i] \in Job
  /\ sen \in Nat /\ dun \in Nat /\ dun <= sen
  /\ put \in Seq(Fact) /\ Len(put) = sen - dun
  /\ \A i \in 1 .. Len(put) : put[i].eve = dun + i /\ put[i].job \in Job
  /\ open # "closed" => dun <= LastKey /\ LastKey <= sen
  /\ open = "closed" => sen = 0 /\ dun = 0 /\ put = <<>> /\ red = <<>> /\ ted = "idle"
  /\ \A i \in 1 .. Len(put) : dun + i <= LastKey => put[i].job = db[dun + i]
  /\ ted = "idle" => sen = dun
  /\ ted # "good" /\ open # "closed" => LastKey = dun

\* The batch in flight, of n events.
BatchShape(n) ==
  /\ n \in 1 .. Len(put) /\ n = Len(req.jobs)
  /\ req.eve = dun + 1 /\ BatchEnd(req) = dun + n /\ dun + n <= sen
  /\ ted = "good" => LastKey = dun + n

\* A batch in flight is of the first events of the queue.
LEMMA BatchOfQueue ==
  ASSUME DiskInv, ted # "idle"
  PROVE  BatchShape(Len(req.jobs)) /\ open # "closed"
<1> DEFINE n == Len(req.jobs)
<1>1. /\ dun \in Nat /\ sen \in Nat /\ put \in Seq(Fact) /\ Len(put) = sen - dun /\ dun <= sen
      /\ req.eve = dun + 1 /\ n \in 1 .. Len(put)
  BY DEF DiskInv, DiskTypeOK, QueueIsNextEvents, BatchIsQueueFront
<1>2. BatchEnd(req) = req.eve + n - 1
  BY DEF BatchEnd
<1> HIDE DEF n
<1>3. n \in Nat /\ n >= 1 /\ n <= sen - dun
  BY <1>1
<1>4. BatchEnd(req) = dun + n
  BY <1>1, <1>2, <1>3
<1>5. open # "closed"
  BY DEF DiskInv, ClosedIsForgotten
<1>6. ASSUME ted = "good" PROVE LastKey = dun + n
  <2>1. DOMAIN db = 1 .. dun + n
    BY <1>4, <1>5, <1>6 DEF DiskInv, LogIsContiguous, Durable
  <2>2. dun + n \in Nat
    BY <1>1, <1>3
  <2> QED
    BY <2>1, <2>2, LastKeyOfLog
<1> QED
  BY <1>1, <1>3, <1>4, <1>5, <1>6 DEF BatchShape, n

LEMMA DiskShaped == DiskInv => DiskShape
<1> SUFFICES ASSUME DiskInv PROVE DiskShape
  OBVIOUS
<1> DEFINE n == Len(req.jobs)
<1>1. /\ dun \in Nat /\ sen \in Nat /\ put \in Seq(Fact) /\ Len(put) = sen - dun /\ dun <= sen
      /\ \A i \in 1 .. Len(put) : put[i].eve = dun + i
      /\ \A e \in DOMAIN db : db[e] \in Job
      /\ open = "closed" => sen = 0 /\ dun = 0 /\ put = <<>> /\ red = <<>> /\ ted = "idle"
      /\ ted = "idle" => sen = dun
  BY DEF DiskInv, DiskTypeOK, QueueIsNextEvents, BatchIsQueueFront, ClosedIsForgotten
<1>2. \A i \in 1 .. Len(put) : put[i].job \in Job
  <2>1. \A i \in 1 .. Len(put) : put[i] \in Fact
    BY <1>1
  <2> QED
    BY <2>1 DEF Fact
<1>3. CASE open = "closed"
  <2>1. LastKey \in Nat /\ DOMAIN db = 1 .. LastKey
    BY <1>3 DEF DiskInv, LogIsContiguous, ClosedIsForgotten
  <2> QED
    BY <1>1, <1>2, <1>3, <2>1 DEF DiskShape
<1>4. CASE open # "closed" /\ ted # "good"
  <2>1. DOMAIN db = 1 .. dun
    BY <1>4 DEF DiskInv, LogIsContiguous, Durable
  <2>2. LastKey = dun
    BY <1>1, <2>1, LastKeyOfLog
  <2>3. \A i \in 1 .. LastKey : db[i] \in Job
    BY <1>1, <2>1, <2>2
  <2>4. \A i \in 1 .. Len(put) : dun + i <= LastKey => put[i].job = db[dun + i]
    <3>1. \A i \in 1 .. Len(put) : ~(dun + i <= dun)
      BY <1>1
    <3> QED
      BY <2>2, <3>1
  <2> QED
    BY <1>1, <1>2, <1>4, <2>1, <2>2, <2>3, <2>4 DEF DiskShape
<1>5. CASE open # "closed" /\ ted = "good"
  <2>1. BatchShape(n)
    BY <1>5, BatchOfQueue
  <2> HIDE DEF n
  <2>2. LastKey = dun + n /\ n \in 1 .. Len(put) /\ BatchEnd(req) = dun + n
    BY <1>5, <2>1 DEF BatchShape
  <2>3. DOMAIN db = 1 .. dun + n
    BY <1>5, <2>2 DEF DiskInv, LogIsContiguous, Durable
  <2>4. \A i \in 1 .. n : db[dun + i] = put[i].job
    BY <1>5 DEF DiskInv, CommittedIsQueued, n
  <2>5. \A i \in 1 .. Len(put) : dun + i <= LastKey => put[i].job = db[dun + i]
    BY <1>1, <2>2, <2>4
  <2> QED
    BY <1>1, <1>2, <1>5, <2>2, <2>3, <2>5 DEF DiskShape
<1> QED
  BY <1>3, <1>4, <1>5

\* The same of the state after a step.
LEMMA DiskShapedNext == DiskInv' => DiskShape'
BY DiskShaped, PTL

-----------------------------------------------------------------------------
(* The pipes: what it means for them to hear a plea, to send writs, and to *)
(* answer one.                                                             *)

\* The elements of the tail of a sequence, and of two joined.
LEMMA TailIs ==
  ASSUME NEW S, NEW s \in Seq(S), s # <<>>
  PROVE  /\ Len(s) \in Nat /\ Len(s) >= 1 /\ Head(s) = s[1] /\ s[1] \in S
         /\ Tail(s) \in Seq(S) /\ Len(Tail(s)) = Len(s) - 1
         /\ \A i \in 1 .. Len(s) - 1 : Tail(s)[i] = s[i + 1]
BY HeadTailProperties, EmptySeq, ElementOfSeq

LEMMA JoinIs ==
  ASSUME NEW S, NEW s \in Seq(S), NEW t \in Seq(S)
  PROVE  /\ s \o t \in Seq(S) /\ Len(s) \in Nat /\ Len(t) \in Nat
         /\ Len(s \o t) = Len(s) + Len(t)
         /\ \A i \in 1 .. Len(s) : (s \o t)[i] = s[i]
         /\ \A i \in 1 .. Len(t) : (s \o t)[Len(s) + i] = t[i]
         /\ \A i \in 1 .. Len(s) + Len(t) :
              i \in 1 .. Len(s) \/ (i - Len(s) \in 1 .. Len(t) /\ (s \o t)[i] = t[i - Len(s)])
<1>1. s \o t \in Seq(S) /\ Len(s \o t) = Len(s) + Len(t) /\ Len(s) \in Nat /\ Len(t) \in Nat
  BY ConcatProperties, LenProperties
<1>2. \A i \in 1 .. Len(s) + Len(t) :
        (s \o t)[i] = IF i <= Len(s) THEN s[i] ELSE t[i - Len(s)]
  BY ConcatProperties
<1>3. ASSUME NEW i \in 1 .. Len(t) PROVE (s \o t)[Len(s) + i] = t[i]
  <2>1. /\ Len(s) + i \in 1 .. Len(s) + Len(t) /\ ~(Len(s) + i <= Len(s))
        /\ (Len(s) + i) - Len(s) = i
    BY <1>1
  <2> QED
    BY <1>2, <2>1
<1> QED
  BY <1>1, <1>2, <1>3

\* Of two joined sequences, what holds of the elements of each.
LEMMA JoinAll ==
  ASSUME NEW S, NEW s \in Seq(S), NEW t \in Seq(S), NEW T,
         \A i \in 1 .. Len(s) : s[i] \in T, \A i \in 1 .. Len(t) : t[i] \in T
  PROVE  \A i \in 1 .. Len(s \o t) : (s \o t)[i] \in T
BY JoinIs

LEMMA MatchedTail ==
  ASSUME NEW ws \in Seq(Writ), NEW os \in Seq(Plea), ws # <<>>, os # <<>>, Matched(ws, os)
  PROVE  Matched(Tail(ws), Tail(os))
<1>1. /\ Len(Tail(ws)) = Len(ws) - 1 /\ \A i \in 1 .. Len(ws) - 1 : Tail(ws)[i] = ws[i + 1]
      /\ Len(Tail(os)) = Len(os) - 1 /\ \A i \in 1 .. Len(os) - 1 : Tail(os)[i] = os[i + 1]
      /\ Len(ws) \in Nat /\ Len(os) \in Nat /\ Len(os) >= 1
  BY TailIs
<1>2. Len(os) <= Len(ws)
  BY DEF Matched
<1>3. ASSUME NEW i \in 1 .. Len(Tail(os))
      PROVE  /\ Tail(os)[i].typ # "ripe" /\ Answers(Tail(os)[i], Tail(ws)[i])
             /\ Tail(os)[i].typ = "play" => Tail(os)[i].how # "swap"
  <2>1. i + 1 \in 1 .. Len(os) /\ i \in 1 .. Len(os) - 1 /\ i \in 1 .. Len(ws) - 1
    BY <1>1, <1>2
  <2> QED
    BY <1>1, <2>1 DEF Matched
<1> QED
  BY <1>1, <1>2, <1>3 DEF Matched

LEMMA QueuedTail ==
  ASSUME NEW ws \in Seq(Writ), NEW os \in Seq(Plea), NEW ns \in Seq(Writ),
         ws # <<>>, os # <<>>, Queued(ws, os, ns)
  PROVE  Queued(Tail(ws), Tail(os), ns)
<1>1. /\ Len(Tail(ws)) = Len(ws) - 1 /\ \A i \in 1 .. Len(ws) - 1 : Tail(ws)[i] = ws[i + 1]
      /\ Len(Tail(os)) = Len(os) - 1
      /\ Len(ws) \in Nat /\ Len(os) \in Nat /\ Len(os) >= 1
  BY TailIs
<1>2. Len(ns) \in Nat /\ Len(ws) = Len(os) + Len(ns)
  BY LenProperties DEF Queued
<1>3. ASSUME NEW i \in 1 .. Len(ns) PROVE ns[i] = Tail(ws)[Len(Tail(os)) + i]
  <2>1. Len(os) - 1 + i \in 1 .. Len(ws) - 1 /\ Len(os) - 1 + i + 1 = Len(os) + i
    BY <1>1, <1>2
  <2> QED
    BY <1>1, <2>1 DEF Queued
<1> QED
  BY <1>1, <1>2, <1>3 DEF Queued

LEMMA MatchedSend ==
  ASSUME NEW ws \in Seq(Writ), NEW os \in Seq(Plea), NEW ms \in Seq(Writ), Matched(ws, os)
  PROVE  Matched(ws \o ms, os)
<1>1. /\ Len(ws \o ms) = Len(ws) + Len(ms) /\ Len(ws) \in Nat /\ Len(ms) \in Nat
      /\ \A i \in 1 .. Len(ws) : (ws \o ms)[i] = ws[i]
  BY JoinIs
<1>2. Len(os) \in Nat
  BY LenProperties
<1> QED
  BY <1>1, <1>2 DEF Matched

LEMMA QueuedSend ==
  ASSUME NEW ws \in Seq(Writ), NEW os \in Seq(Plea), NEW ns \in Seq(Writ),
         NEW ms \in Seq(Writ), Queued(ws, os, ns)
  PROVE  Queued(ws \o ms, os, ns \o ms)
<1>1. /\ Len(ws \o ms) = Len(ws) + Len(ms) /\ Len(ws) \in Nat /\ Len(ms) \in Nat
      /\ \A i \in 1 .. Len(ws) : (ws \o ms)[i] = ws[i]
      /\ \A i \in 1 .. Len(ms) : (ws \o ms)[Len(ws) + i] = ms[i]
  BY JoinIs
<1>2. /\ Len(ns \o ms) = Len(ns) + Len(ms) /\ Len(ns) \in Nat
      /\ \A i \in 1 .. Len(ns) : (ns \o ms)[i] = ns[i]
      /\ \A i \in 1 .. Len(ms) : (ns \o ms)[Len(ns) + i] = ms[i]
  BY JoinIs
<1>3. Len(os) \in Nat /\ Len(ws) = Len(os) + Len(ns)
  BY LenProperties DEF Queued
<1>4. ASSUME NEW i \in 1 .. Len(ns \o ms) PROVE (ns \o ms)[i] = (ws \o ms)[Len(os) + i]
  <2>1. CASE i \in 1 .. Len(ns)
    <3>1. Len(os) + i \in 1 .. Len(ws)
      BY <1>1, <1>2, <1>3, <2>1
    <3>2. ns[i] = ws[Len(os) + i]
      BY <2>1 DEF Queued
    <3> QED
      BY <1>1, <1>2, <2>1, <3>1, <3>2
  <2>2. CASE i \notin 1 .. Len(ns)
    <3>1. /\ i - Len(ns) \in 1 .. Len(ms) /\ Len(ns) + (i - Len(ns)) = i
          /\ Len(ws) + (i - Len(ns)) = Len(os) + i
      BY <1>1, <1>2, <1>3, <2>2
    <3> QED
      BY <1>1, <1>2, <3>1
  <2> QED
    BY <2>1, <2>2
<1> QED
  BY <1>1, <1>2, <1>3, <1>4 DEF Queued

\* The serf answers the first of the writs on their way.
LEMMA MatchedSay ==
  ASSUME NEW ws \in Seq(Writ), NEW os \in Seq(Plea), NEW ns \in Seq(Writ), NEW p \in Plea,
         Matched(ws, os), Queued(ws, os, ns), ns # <<>>,
         p.typ # "ripe", Answers(p, ns[1]), p.typ = "play" => p.how # "swap"
  PROVE  /\ Matched(ws, Append(os, p)) /\ Queued(ws, Append(os, p), Tail(ns))
         /\ ns[1] = ws[Len(os) + 1] /\ Len(os) + 1 <= Len(ws)
<1>1. /\ Len(Tail(ns)) = Len(ns) - 1 /\ \A i \in 1 .. Len(ns) - 1 : Tail(ns)[i] = ns[i + 1]
      /\ Len(ns) \in Nat /\ Len(ns) >= 1
  BY TailIs
<1>2. /\ Len(Append(os, p)) = Len(os) + 1 /\ Append(os, p)[Len(os) + 1] = p
      /\ \A i \in 1 .. Len(os) : Append(os, p)[i] = os[i]
      /\ Len(os) \in Nat /\ Len(ws) \in Nat
  BY AppendProperties, LenProperties
<1>3. Len(ws) = Len(os) + Len(ns) /\ \A i \in 1 .. Len(ns) : ns[i] = ws[Len(os) + i]
  BY DEF Queued
<1>4. ns[1] = ws[Len(os) + 1] /\ Len(os) + 1 <= Len(ws)
  BY <1>1, <1>2, <1>3
<1>5. ASSUME NEW i \in 1 .. Len(Append(os, p))
      PROVE  /\ Append(os, p)[i].typ # "ripe" /\ Answers(Append(os, p)[i], ws[i])
             /\ Append(os, p)[i].typ = "play" => Append(os, p)[i].how # "swap"
  <2>1. CASE i \in 1 .. Len(os)
    BY <1>2, <2>1 DEF Matched
  <2>2. CASE i \notin 1 .. Len(os)
    <3>1. i = Len(os) + 1
      BY <1>2, <2>2
    <3> QED
      BY <1>2, <1>4, <3>1
  <2> QED
    BY <2>1, <2>2
<1>6. ASSUME NEW i \in 1 .. Len(Tail(ns)) PROVE Tail(ns)[i] = ws[Len(Append(os, p)) + i]
  <2>1. i \in 1 .. Len(ns) - 1 /\ i + 1 \in 1 .. Len(ns) /\ Len(os) + (i + 1) = Len(os) + 1 + i
    BY <1>1, <1>2
  <2> QED
    BY <1>1, <1>2, <1>3, <2>1
<1>7. Len(ws) = Len(Append(os, p)) + Len(Tail(ns))
  BY <1>1, <1>2, <1>3
<1> QED
  BY <1>2, <1>4, <1>5, <1>6, <1>7 DEF Matched, Queued

-----------------------------------------------------------------------------
(* The course of a kernel, as its pleas tell it, and its budget.           *)

LEMMA CourseRests ==
  ASSUME NEW s \in 0 .. MaxEve
  PROVE  \E c : Course(<<>>, s, c) /\ c[0] = s
<1> DEFINE c == [i \in 0 .. 0 |-> s]
<1>1. Len(<<>>) = 0
  OBVIOUS
<1>2. c \in [0 .. 0 -> 0 .. MaxEve] /\ c[0] = s
  OBVIOUS
<1> HIDE DEF c
<1>3. Course(<<>>, s, c)
  BY <1>1, <1>2, EventsAssumption DEF Course
<1> QED
  BY <1>2, <1>3

\* The king hears the first plea.
LEMMA CourseTail ==
  ASSUME NEW os \in Seq(Plea), os # <<>>, NEW s \in Nat, NEW c, Course(os, s, c)
  PROVE  /\ c[1] = s + Gain(os[1]) /\ (Tells(os[1]) => os[1].eve = s + 1)
         /\ c[1] <= c[Len(os)] /\ c[1] \in 0 .. MaxEve /\ c[Len(os)] \in 0 .. MaxEve
         /\ \E d : /\ Course(Tail(os), c[1], d) /\ d[Len(Tail(os))] = c[Len(os)]
                   /\ \A i \in 0 .. Len(os) - 1 : d[i] = c[i + 1]
<1>1. /\ Len(Tail(os)) = Len(os) - 1 /\ \A i \in 1 .. Len(os) - 1 : Tail(os)[i] = os[i + 1]
      /\ Len(os) \in Nat /\ Len(os) >= 1
  BY TailIs
<1>2. /\ c \in [0 .. Len(os) -> 0 .. MaxEve] /\ c[0] = s
      /\ \A i, j \in 0 .. Len(os) : i <= j => c[i] <= c[j] /\ c[j] <= c[i] + (j - i)
      /\ \A i \in 1 .. Len(os) : /\ c[i] = c[i - 1] + Gain(os[i])
                                 /\ Tells(os[i]) => os[i].eve = c[i]
  BY DEF Course
<1> DEFINE n == Len(os) - 1
           d == [i \in 0 .. n |-> c[i + 1]]
<1>3. n \in Nat /\ \A i \in 0 .. n : i + 1 \in 1 .. Len(os) /\ i + 1 \in 0 .. Len(os)
  BY <1>1
<1>4. \A i \in 0 .. n : c[i + 1] \in 0 .. MaxEve
  BY <1>2, <1>3
<1>5. d \in [0 .. n -> 0 .. MaxEve] /\ \A i \in 0 .. n : d[i] = c[i + 1]
  BY <1>4
<1> HIDE DEF d
<1>6. ASSUME NEW i \in 0 .. n, NEW j \in 0 .. n, i <= j
      PROVE  d[i] <= d[j] /\ d[j] <= d[i] + (j - i)
  <2>1. i + 1 <= j + 1 /\ (j + 1) - (i + 1) = j - i
    BY <1>3, <1>6
  <2>2. c[i + 1] <= c[j + 1] /\ c[j + 1] <= c[i + 1] + ((j + 1) - (i + 1))
    BY <1>2, <1>3, <2>1
  <2> QED
    BY <1>5, <2>1, <2>2
<1>7. ASSUME NEW i \in 1 .. n
      PROVE  d[i] = d[i - 1] + Gain(Tail(os)[i]) /\ (Tells(Tail(os)[i]) => Tail(os)[i].eve = d[i])
  <2>1. /\ i + 1 \in 1 .. Len(os) /\ i - 1 \in 0 .. n /\ i \in 0 .. n
        /\ (i + 1) - 1 = i /\ (i - 1) + 1 = i
    BY <1>3
  <2>2. Tail(os)[i] = os[i + 1] /\ d[i] = c[i + 1] /\ d[i - 1] = c[i]
    BY <1>1, <1>5, <2>1
  <2>3. c[i + 1] = c[(i + 1) - 1] + Gain(os[i + 1]) /\ (Tells(os[i + 1]) => os[i + 1].eve = c[i + 1])
    BY <1>2, <2>1
  <2> QED
    BY <2>1, <2>2, <2>3
<1>8. d[0] = c[1] /\ d[n] = c[Len(os)]
  BY <1>1, <1>3, <1>5
<1>9. Course(Tail(os), c[1], d)
  BY <1>1, <1>5, <1>6, <1>7, <1>8 DEF Course
<1>10. 1 \in 1 .. Len(os) /\ 1 \in 0 .. Len(os) /\ Len(os) \in 0 .. Len(os) /\ 1 <= Len(os)
  BY <1>1
<1>11. c[1] = s + Gain(os[1]) /\ (Tells(os[1]) => os[1].eve = s + 1)
  BY <1>2, <1>10 DEF Gain
<1>12. c[1] <= c[Len(os)] /\ c[1] \in 0 .. MaxEve /\ c[Len(os)] \in 0 .. MaxEve
  BY <1>2, <1>10
<1> QED
  BY <1>1, <1>5, <1>8, <1>9, <1>11, <1>12

\* The facts on their way, once the first is heard.
LEMMA FactsTail ==
  ASSUME NEW os \in Seq(Plea), os # <<>>, NEW ws \in Seq(Writ), ws # <<>>,
         NEW k, NEW c, Facts(os, ws, k, c), Len(os) <= Len(ws),
         NEW d, d[Len(Tail(os))] = c[Len(os)],
         \A i \in 0 .. Len(os) - 1 : d[i] = c[i + 1]
  PROVE  Facts(Tail(os), Tail(ws), k, d) /\ (Tells(os[1]) => k[c[1]] = FactJob(os[1], ws[1]))
<1>1. /\ Len(Tail(os)) = Len(os) - 1 /\ \A i \in 1 .. Len(os) - 1 : Tail(os)[i] = os[i + 1]
      /\ Len(os) \in Nat /\ Len(os) >= 1
      /\ \A i \in 1 .. Len(ws) - 1 : Tail(ws)[i] = ws[i + 1]
      /\ Len(ws) \in Nat
  BY TailIs
<1>2. ASSUME NEW i \in 1 .. Len(Tail(os)), Tells(Tail(os)[i])
      PROVE  k[d[i]] = FactJob(Tail(os)[i], Tail(ws)[i])
  <2>1. /\ i + 1 \in 1 .. Len(os) /\ i \in 0 .. Len(os) - 1
        /\ i \in 1 .. Len(os) - 1 /\ i \in 1 .. Len(ws) - 1
    BY <1>1
  <2>2. Tail(os)[i] = os[i + 1] /\ Tail(ws)[i] = ws[i + 1] /\ d[i] = c[i + 1]
    BY <1>1, <2>1
  <2> QED
    BY <1>2, <2>1, <2>2 DEF Facts
<1>3. 1 \in 1 .. Len(os)
  BY <1>1
<1> QED
  BY <1>1, <1>2, <1>3 DEF Facts

\* The serf answers once more.
LEMMA CourseSay ==
  ASSUME NEW os \in Seq(Plea), NEW s \in Nat, NEW c, Course(os, s, c), NEW p \in Plea,
         NEW e \in 0 .. MaxEve, e = c[Len(os)] + Gain(p), Tells(p) => p.eve = e
  PROVE  \E d : /\ Course(Append(os, p), s, d) /\ d[Len(os) + 1] = e
                /\ \A i \in 0 .. Len(os) : d[i] = c[i]
<1>1. /\ Len(Append(os, p)) = Len(os) + 1 /\ Append(os, p)[Len(os) + 1] = p
      /\ \A i \in 1 .. Len(os) : Append(os, p)[i] = os[i]
      /\ Len(os) \in Nat
  BY AppendProperties, LenProperties
<1>2. /\ c \in [0 .. Len(os) -> 0 .. MaxEve] /\ c[0] = s
      /\ \A i, j \in 0 .. Len(os) : i <= j => c[i] <= c[j] /\ c[j] <= c[i] + (j - i)
      /\ \A i \in 1 .. Len(os) : /\ c[i] = c[i - 1] + Gain(os[i])
                                 /\ Tells(os[i]) => os[i].eve = c[i]
  BY DEF Course
<1> DEFINE n == Len(os)
           d == [i \in 0 .. n + 1 |-> IF i = n + 1 THEN e ELSE c[i]]
<1>3. \A i \in 0 .. n + 1 : i = n + 1 \/ i \in 0 .. n
  BY <1>1
<1>4. d \in [0 .. n + 1 -> 0 .. MaxEve]
  BY <1>2, <1>3
<1>5. d[n + 1] = e /\ \A i \in 0 .. n : d[i] = c[i]
  BY <1>1
<1> HIDE DEF d
<1>6. Gain(p) \in 0 .. 1
  BY DEF Gain
<1>7. c[n] \in 0 .. MaxEve
  BY <1>1, <1>2
<1>8. ASSUME NEW i \in 0 .. n + 1, NEW j \in 0 .. n + 1, i <= j
      PROVE  d[i] <= d[j] /\ d[j] <= d[i] + (j - i)
  <2>1. CASE j \in 0 .. n
    <3>1. i \in 0 .. n
      BY <1>1, <1>8, <2>1
    <3> QED
      BY <1>2, <1>5, <1>8, <2>1, <3>1
  <2>2. CASE j = n + 1 /\ i \in 0 .. n
    <3>1. c[i] <= c[n] /\ c[n] <= c[i] + (n - i)
      BY <1>1, <1>2, <2>2
    <3>2. c[i] \in 0 .. MaxEve
      BY <1>2, <2>2
    <3>3. d[i] = c[i] /\ d[j] = c[n] + Gain(p)
      BY <1>5, <2>2
    <3> HIDE DEF n
    <3>4. n \in Nat
      BY <1>1 DEF n
    <3> QED
      BY <1>6, <1>7, <2>2, <3>1, <3>2, <3>3, <3>4, EventsAssumption
  <2>3. CASE j = n + 1 /\ i = n + 1
    <3>1. d[i] = e /\ d[j] = e /\ j - i = 0
      BY <1>1, <1>5, <2>3
    <3> QED
      BY <3>1
  <2> QED
    BY <1>3, <2>1, <2>2, <2>3
<1>9. ASSUME NEW i \in 1 .. n + 1
      PROVE  /\ d[i] = d[i - 1] + Gain(Append(os, p)[i])
             /\ Tells(Append(os, p)[i]) => Append(os, p)[i].eve = d[i]
  <2>1. CASE i = n + 1
    <3>1. i - 1 = n /\ n \in 0 .. n
      BY <1>1, <2>1
    <3>2. d[i] = e /\ d[i - 1] = c[n] /\ Append(os, p)[i] = p
      BY <1>1, <1>5, <2>1, <3>1
    <3> QED
      BY <3>2
  <2>2. CASE i \in 1 .. n
    <3>1. i - 1 \in 0 .. n /\ i \in 0 .. n
      BY <1>1, <2>2
    <3>2. d[i] = c[i] /\ d[i - 1] = c[i - 1] /\ Append(os, p)[i] = os[i]
      BY <1>1, <1>5, <2>2, <3>1
    <3> QED
      BY <1>2, <2>2, <3>2
  <2> QED
    BY <1>1, <2>1, <2>2
<1>10. d[0] = s
  BY <1>1, <1>2, <1>5
<1>11. Course(Append(os, p), s, d)
  BY <1>1, <1>4, <1>8, <1>9, <1>10 DEF Course
<1> QED
  BY <1>5, <1>11

\* Any bound will do for writs that compute nothing.
LEMMA BudgetRests ==
  ASSUME NEW ns \in Seq(Writ), NEW n \in 0 .. MaxEve,
         \A i \in 1 .. Len(ns) : ns[i].typ = "exit"
  PROVE  \E b : Budget(ns, n, b) /\ b[Len(ns)] = MaxEve
<1> DEFINE b == [i \in 0 .. Len(ns) |-> MaxEve]
<1>1. Len(ns) \in Nat
  BY LenProperties
<1>2. b \in [0 .. Len(ns) -> 0 .. MaxEve] /\ \A i \in 0 .. Len(ns) : b[i] = MaxEve
  BY EventsAssumption
<1> HIDE DEF b
<1>3. b[0] = MaxEve /\ b[Len(ns)] = MaxEve
  BY <1>1, <1>2
<1>4. ASSUME NEW i \in 1 .. Len(ns)
      PROVE  b[i - 1] + Cost(ns[i]) <= b[i] /\ ns[i].typ # "play"
  <2>1. i - 1 \in 0 .. Len(ns) /\ i \in 0 .. Len(ns)
    BY <1>1
  <2>2. Cost(ns[i]) = 0
    BY DEF Cost
  <2> QED
    BY <1>2, <2>1, <2>2, EventsAssumption
<1>5. Budget(ns, n, b)
  BY <1>2, <1>3, <1>4, EventsAssumption DEF Budget
<1> QED
  BY <1>3, <1>5

\* The serf takes the first writ, which brings its kernel to m events.
LEMMA BudgetTail ==
  ASSUME NEW ns \in Seq(Writ), ns # <<>>, NEW n \in Nat, NEW b, Budget(ns, n, b),
         NEW m \in Nat, m <= b[1]
  PROVE  \E d : Budget(Tail(ns), m, d) /\ d[Len(Tail(ns))] = b[Len(ns)]
<1>1. /\ Len(Tail(ns)) = Len(ns) - 1 /\ \A i \in 1 .. Len(ns) - 1 : Tail(ns)[i] = ns[i + 1]
      /\ Len(ns) \in Nat /\ Len(ns) >= 1
  BY TailIs
<1>2. /\ b \in [0 .. Len(ns) -> 0 .. MaxEve]
      /\ \A i, j \in 0 .. Len(ns) : i <= j => b[i] <= b[j]
      /\ \A i \in 1 .. Len(ns) : /\ b[i - 1] + Cost(ns[i]) <= b[i]
                                 /\ ns[i].typ = "play" => EndOf(ns[i]) <= b[i]
  BY DEF Budget
<1> DEFINE l == Len(ns) - 1
           d == [i \in 0 .. l |-> b[i + 1]]
<1>3. l \in Nat /\ \A i \in 0 .. l : i + 1 \in 1 .. Len(ns) /\ i + 1 \in 0 .. Len(ns)
  BY <1>1
<1>4. d \in [0 .. l -> 0 .. MaxEve] /\ \A i \in 0 .. l : d[i] = b[i + 1]
  BY <1>2, <1>3
<1> HIDE DEF d
<1>5. ASSUME NEW i \in 0 .. l, NEW j \in 0 .. l, i <= j PROVE d[i] <= d[j]
  BY <1>2, <1>3, <1>4, <1>5
<1>6. ASSUME NEW i \in 1 .. l
      PROVE  d[i - 1] + Cost(Tail(ns)[i]) <= d[i] /\ (Tail(ns)[i].typ = "play" => EndOf(Tail(ns)[i]) <= d[i])
  <2>1. /\ i + 1 \in 1 .. Len(ns) /\ i - 1 \in 0 .. l /\ i \in 0 .. l
        /\ (i + 1) - 1 = i /\ (i - 1) + 1 = i
    BY <1>3
  <2>2. Tail(ns)[i] = ns[i + 1] /\ d[i] = b[i + 1] /\ d[i - 1] = b[i]
    BY <1>1, <1>4, <2>1
  <2>3. b[(i + 1) - 1] + Cost(ns[i + 1]) <= b[i + 1] /\ (ns[i + 1].typ = "play" => EndOf(ns[i + 1]) <= b[i + 1])
    BY <1>2, <2>1
  <2> QED
    BY <2>1, <2>2, <2>3
<1>7. d[0] = b[1] /\ d[l] = b[Len(ns)]
  BY <1>1, <1>3, <1>4
<1>8. Budget(Tail(ns), m, d)
  BY <1>1, <1>4, <1>5, <1>6, <1>7 DEF Budget
<1> QED
  BY <1>1, <1>7, <1>8

\* The king sends the writs ms: g[i] is what the first i of them may add.
LEMMA BudgetSend ==
  ASSUME NEW ns \in Seq(Writ), NEW ms \in Seq(Writ), NEW n \in Nat, NEW b, Budget(ns, n, b),
         NEW g \in [0 .. Len(ms) -> Nat], g[0] = 0,
         \A i, j \in 0 .. Len(ms) : i <= j => g[i] <= g[j],
         \A i \in 1 .. Len(ms) : /\ g[i - 1] + Cost(ms[i]) <= g[i]
                                 /\ ms[i].typ = "play" => EndOf(ms[i]) <= b[Len(ns)] + g[i],
         b[Len(ns)] + g[Len(ms)] <= MaxEve
  PROVE  \E d : Budget(ns \o ms, n, d) /\ d[Len(ns \o ms)] = b[Len(ns)] + g[Len(ms)]
<1> DEFINE l == Len(ns)
           r == Len(ms)
           d == [i \in 0 .. l + r |-> IF i <= l THEN b[i] ELSE b[l] + g[i - l]]
<1>1. /\ Len(ns \o ms) = l + r /\ l \in Nat /\ r \in Nat
      /\ \A i \in 1 .. l : (ns \o ms)[i] = ns[i]
      /\ \A i \in 1 .. r : (ns \o ms)[l + i] = ms[i]
  BY JoinIs
<1>2. /\ b \in [0 .. l -> 0 .. MaxEve] /\ n <= b[0]
      /\ \A i, j \in 0 .. l : i <= j => b[i] <= b[j]
      /\ \A i \in 1 .. l : /\ b[i - 1] + Cost(ns[i]) <= b[i]
                           /\ ns[i].typ = "play" => EndOf(ns[i]) <= b[i]
  BY DEF Budget
<1>3. b[l] \in 0 .. MaxEve
  BY <1>1, <1>2
<1>4. \A i \in 0 .. r : g[i] \in Nat /\ g[i] <= g[r]
  BY <1>1
<1> HIDE DEF l, r
<1>5. \A i \in 0 .. r : b[l] + g[i] \in 0 .. MaxEve
  BY <1>1, <1>3, <1>4, EventsAssumption DEF l, r
<1>6. \A i \in 0 .. l + r : i \in 0 .. l \/ (~(i <= l) /\ i - l \in 1 .. r /\ i - l \in 0 .. r)
  BY <1>1
<1>7. d \in [0 .. l + r -> 0 .. MaxEve]
  BY <1>1, <1>2, <1>5, <1>6
<1>8. /\ \A i \in 0 .. l : d[i] = b[i]
      /\ \A i \in 0 .. r : d[l + i] = b[l] + g[i]
  <2>1. \A i \in 0 .. l : i \in 0 .. l + r /\ i <= l
    BY <1>1
  <2>2. ASSUME NEW i \in 0 .. r PROVE d[l + i] = b[l] + g[i]
    <3>1. l + i \in 0 .. l + r /\ (l + i) - l = i /\ (l + i <= l <=> i = 0)
      BY <1>1
    <3> QED
      BY <1>3, <3>1
  <2> QED
    BY <2>1, <2>2
<1> HIDE DEF d
<1>9. ASSUME NEW i \in 0 .. l + r, NEW j \in 0 .. l + r, i <= j PROVE d[i] <= d[j]
  <2>1. CASE j \in 0 .. l
    <3>1. i \in 0 .. l
      BY <1>1, <1>9, <2>1
    <3> QED
      BY <1>2, <1>8, <1>9, <2>1, <3>1
  <2>2. CASE j \notin 0 .. l /\ i \in 0 .. l
    <3>1. j - l \in 0 .. r /\ l + (j - l) = j /\ l \in 0 .. l /\ i <= l
      BY <1>1, <1>6, <2>2
    <3>2. d[j] = b[l] + g[j - l] /\ d[i] = b[i] /\ b[i] <= b[l]
      BY <1>2, <1>8, <2>2, <3>1
    <3>3. g[j - l] \in Nat /\ b[i] \in 0 .. MaxEve
      BY <1>2, <1>4, <2>2, <3>1
    <3> QED
      BY <1>3, <3>2, <3>3, EventsAssumption
  <2>3. CASE i \notin 0 .. l
    <3>1. j \notin 0 .. l
      BY <1>1, <1>9, <2>3
    <3>2. /\ j - l \in 0 .. r /\ l + (j - l) = j /\ i - l \in 0 .. r /\ l + (i - l) = i
          /\ i - l <= j - l
      BY <1>1, <1>6, <1>9, <2>3, <3>1
    <3>3. g[i - l] <= g[j - l]
      BY <3>2 DEF r
    <3>4. d[i] = b[l] + g[i - l] /\ d[j] = b[l] + g[j - l] /\ g[i - l] \in Nat /\ g[j - l] \in Nat
      BY <1>4, <1>8, <3>2
    <3> QED
      BY <1>3, <3>3, <3>4
  <2> QED
    BY <2>1, <2>2, <2>3
<1>10. ASSUME NEW i \in 1 .. l + r
       PROVE  /\ d[i - 1] + Cost((ns \o ms)[i]) <= d[i]
              /\ (ns \o ms)[i].typ = "play" => EndOf((ns \o ms)[i]) <= d[i]
  <2>1. CASE i \in 1 .. l
    <3>1. i - 1 \in 0 .. l /\ i \in 0 .. l
      BY <1>1, <2>1
    <3>2. d[i - 1] = b[i - 1] /\ d[i] = b[i] /\ (ns \o ms)[i] = ns[i]
      BY <1>1, <1>8, <2>1, <3>1
    <3> QED
      BY <1>2, <2>1, <3>2
  <2>2. CASE i \notin 1 .. l
    <3>1. /\ i - l \in 1 .. r /\ i - l \in 0 .. r /\ (i - l) - 1 \in 0 .. r
          /\ l + (i - l) = i /\ l + ((i - l) - 1) = i - 1
      BY <1>1, <2>2
    <3>2. d[i] = b[l] + g[i - l] /\ d[i - 1] = b[l] + g[(i - l) - 1] /\ (ns \o ms)[i] = ms[i - l]
      BY <1>1, <1>8, <3>1
    <3>3. /\ g[(i - l) - 1] + Cost(ms[i - l]) <= g[i - l]
          /\ ms[i - l].typ = "play" => EndOf(ms[i - l]) <= b[l] + g[i - l]
      BY <3>1 DEF r, l
    <3>4. g[i - l] \in Nat /\ g[(i - l) - 1] \in Nat /\ Cost(ms[i - l]) \in Nat
      BY <1>4, <3>1 DEF Cost
    <3> QED
      BY <1>3, <3>2, <3>3, <3>4
  <2> QED
    BY <2>1, <2>2
<1>11. d[0] = b[0] /\ d[l + r] = b[l] + g[r]
  <2>1. 0 \in 0 .. l /\ r \in 0 .. r
    BY <1>1
  <2> QED
    BY <1>8, <2>1
<1>12. Budget(ns \o ms, n, d)
  BY <1>1, <1>2, <1>7, <1>9, <1>10, <1>11 DEF Budget
<1> QED
  BY <1>1, <1>11, <1>12 DEF l, r

\* A budget of one event for every writ.
LEMMA BudgetAnew ==
  ASSUME NEW ns \in Seq(Writ), NEW n \in Nat, n + Len(ns) <= MaxEve,
         \A i \in 1 .. Len(ns) : ns[i].typ # "play"
  PROVE  \E b : Budget(ns, n, b) /\ b[Len(ns)] = n + Len(ns)
<1> DEFINE b == [i \in 0 .. Len(ns) |-> n + i]
<1>1. Len(ns) \in Nat
  BY LenProperties
<1>2. b \in [0 .. Len(ns) -> 0 .. MaxEve] /\ \A i \in 0 .. Len(ns) : b[i] = n + i
  BY <1>1, EventsAssumption
<1> HIDE DEF b
<1>3. b[0] = n /\ b[Len(ns)] = n + Len(ns)
  BY <1>1, <1>2
<1>4. ASSUME NEW i \in 1 .. Len(ns) PROVE b[i - 1] + Cost(ns[i]) <= b[i]
  <2>1. i - 1 \in 0 .. Len(ns) /\ i \in 0 .. Len(ns) /\ Cost(ns[i]) \in 0 .. 1
    BY <1>1 DEF Cost
  <2>2. b[i - 1] = n + (i - 1) /\ b[i] = n + i
    BY <1>2, <2>1
  <2> QED
    BY <1>1, <2>1, <2>2
<1>5. \A i, j \in 0 .. Len(ns) : i <= j => b[i] <= b[j]
  BY <1>1, <1>2
<1>6. Budget(ns, n, b)
  BY <1>2, <1>3, <1>4, <1>5 DEF Budget
<1> QED
  BY <1>3, <1>6

-----------------------------------------------------------------------------
(* The steps of the serf.                                                  *)

LEMMA DiskSame == DiskInv /\ UNCHANGED diskVars => DiskInv'
<1> SUFFICES ASSUME DiskInv, UNCHANGED diskVars PROVE DiskInv'
  OBVIOUS
<1>1. /\ meta \in 0 .. MetaKeys /\ red \in Seq(Read)
      /\ ted \in {"idle", "queued", "running", "good", "bad"}
      /\ open = "closed" => red = <<>>
  BY DEF DiskInv, DiskTypeOK, ClosedIsForgotten
<1> QED
  BY <1>1, QuietInv DEF diskVars

LEMMA LastKeySame == db' = db => LastKey' = LastKey
BY DEF LastKey

\* Writs that are sound stay so while the log grows.
LEMMA SoundStays ==
  ASSUME NEW w \in Writ, Sound(w), LastKey \in Nat, LastKey' \in Nat, LastKey <= LastKey',
         \A i \in 1 .. LastKey : db'[i] = db[i],
         w.typ = "play" => w.eve > 0
  PROVE  Sound(w)'
<1>1. w.eve \in Int /\ w.jobs \in Seq(Job)
  BY DEF Writ
<1>2. ASSUME w.typ = "play", NEW k \in 1 .. Len(w.jobs)
      PROVE  w.eve + k - 1 <= LastKey' /\ db'[w.eve + k - 1] = w.jobs[k]
  <2>1. w.eve > 0 /\ w.eve + k - 1 <= LastKey /\ db[w.eve + k - 1] = w.jobs[k]
    BY <1>2 DEF Sound
  <2>2. w.eve + k - 1 \in 1 .. LastKey /\ w.eve + k - 1 <= LastKey'
    BY <1>1, <2>1
  <2> QED
    BY <2>1, <2>2
<1>3. w.typ \in {"save", "cram"} => w.eve <= LastKey'
  BY <1>1 DEF Sound
<1> QED
  BY <1>2, <1>3 DEF Sound

\* A kernel that is of the log is of the history.
LEMMA LogAgrees ==
  ASSUME DiskShape, NEW k \in Kernel, Len(k) <= LastKey,
         \A i \in 1 .. Len(k) : k[i] = db[i]
  PROVE  Agrees(k)
<1>1. ASSUME NEW i \in 1 .. Len(k), i - dun \in 1 .. Len(put)
      PROVE  k[i] = put[i - dun].job
  <2>1. Len(k) \in Nat
    BY LenProperties DEF Kernel
  <2>2. i <= LastKey /\ dun + (i - dun) = i
    BY <2>1 DEF DiskShape
  <2> QED
    BY <1>1, <2>2 DEF DiskShape
<1> QED
  BY <1>1 DEF Agrees

\* What every step of the serf leaves alone.
SerfFrame == UNCHANGED <<diskVars, pierVars, god, eve, writs>>

LEMMA SerfFrameInv ==
  ASSUME PierInv, SerfFrame, serf # "dead"
  PROVE  /\ DiskInv' /\ ModeInv' /\ WritsInv' /\ GiftInv' /\ EffsInv' /\ WallInv' /\ OopsInv'
         /\ LastKey' = LastKey
<1>1. UNCHANGED <<db, meta, open, sen, dun, put, ted, req, red, god, eve, writs, sat, pay, ova,
                  pec, gifts, rel, walls, effs, oops>>
  BY DEF SerfFrame, diskVars, pierVars, workVars
<1>2. DiskInv'
  BY DiskSame DEF PierInv, SerfFrame
<1>3. LastKey' = LastKey
  BY <1>1, LastKeySame
<1>4. ModeInv'
  BY <1>1, <1>3 DEF PierInv, ModeInv, Works
<1>5. WritsInv'
  BY <1>1 DEF PierInv, WritsInv, Negotiates
<1>6. GiftInv'
  BY <1>1 DEF PierInv, GiftInv, Works
<1>7. EffsInv'
  BY <1>1, <1>3 DEF PierInv, EffsInv, Works
<1>8. WallInv'
  BY <1>1 DEF PierInv, WallInv
<1>9. OopsInv'
  BY <1>1 DEF PierInv, OopsInv
<1> QED
  BY <1>2, <1>3, <1>4, <1>5, <1>6, <1>7, <1>8, <1>9

\* The rest of the invariant, together.
SerfParts ==
  /\ LordTypeOK /\ NewInv /\ PipesInv /\ MatchInv /\ InnInv /\ AgreeInv
  /\ WorkInv /\ PlayInv /\ BatchInv /\ BoundInv

LEMMA SerfRest ==
  ASSUME PierInv, SerfFrame, serf # "dead", SerfParts'
  PROVE  PierInv'
<1>1. /\ DiskInv' /\ ModeInv' /\ WritsInv' /\ GiftInv' /\ EffsInv' /\ WallInv' /\ OopsInv'
  BY SerfFrameInv
<1>2. PierTypeOK'
  <2>1. UNCHANGED <<sat, pay, ova, pec, gifts, rel, walls, effs, oops>>
    BY DEF SerfFrame, pierVars, workVars
  <2>2. DiskTypeOK' /\ LordTypeOK'
    BY <1>1 DEF DiskInv, SerfParts
  <2> QED
    BY <2>1, <2>2 DEF PierInv, PierTypeOK
<1> QED
  BY <1>1, <1>2 DEF PierInv, SerfParts

\* A serf dies.
LEMMA SerfDiesInv ==
  ASSUME PierInv, SerfFrame, serf # "dead", NEW why \in {"none", "kernel", "order", "save"},
         SerfDies(why)
  PROVE  PierInv'
<1>0. DiskShape
  BY DiskShaped DEF PierInv
<1>1. /\ UNCHANGED <<db, meta, open, sen, dun, put, ted, req, red, god, eve, writs, sat, pay, ova>>
      /\ UNCHANGED <<out, snap>> /\ LastKey' = LastKey
      /\ serf' = "dead" /\ core' = <<>> /\ inn' = <<>> /\ fault' = why
  BY LastKeySame DEF SerfFrame, diskVars, pierVars, workVars, SerfDies
<1>2. LordTypeOK'
  BY <1>1 DEF PierInv, PierTypeOK, LordTypeOK, Kernel
<1>3. NewInv'
  BY <1>1 DEF PierInv, NewInv, BatchEnd
<1>4. PipesInv'
  BY <1>1 DEF PierInv, PipesInv
<1>5. MatchInv' /\ InnInv'
  BY <1>1 DEF PierInv, MatchInv, InnInv
<1>6. AgreeInv'
  BY <1>1 DEF PierInv, AgreeInv, Agrees
<1>7. WorkInv'
  BY <1>1 DEF PierInv, WorkInv, Negotiates
<1>8. PlayInv'
  <2>1. sat = "play" => pay.eve \in Nat
    BY DEF PierInv, PierTypeOK
  <2> QED
    BY <1>1, <2>1 DEF PierInv, PlayInv, Replays
<1>9. BatchInv'
  BY <1>1 DEF PierInv, BatchInv
<1>10. BoundInv'
  BY <1>1 DEF PierInv, BoundInv
<1> QED
  BY <1>2, <1>3, <1>4, <1>5, <1>6, <1>7, <1>8, <1>9, <1>10, SerfRest DEF SerfParts

\* u3_serf_init: what the king hears is where the checkpoint stands.
LEMMA SerfRipeInv ==
  ASSUME PierInv, SerfFrame, SerfRipe
  PROVE  PierInv'
<1>0. DiskShape
  BY DiskShaped DEF PierInv
<1> DEFINE p == [typ |-> "ripe", how |-> "done", eve |-> Len(snap)]
<1>1. /\ UNCHANGED <<db, meta, open, sen, dun, put, ted, req, red, god, eve, writs, sat, pay, ova>>
      /\ UNCHANGED <<inn, snap, fault>> /\ LastKey' = LastKey
      /\ serf = "boot" /\ serf' = "up" /\ core' = snap
      /\ out' = IF god = "none" THEN out ELSE Append(out, p)
  BY LastKeySame DEF SerfFrame, diskVars, pierVars, workVars, SerfRipe, Say, Reply
<1>2. /\ god # "live" /\ god \in {"none", "init", "live"} /\ out = <<>>
      /\ \A i \in 1 .. Len(inn) : inn[i].typ = "exit"
      /\ god = "none" => sat = "down"
      /\ snap \in Kernel /\ inn \in Seq(Writ) /\ Len(snap) \in Nat
  BY <1>1, LenProperties DEF PierInv, PipesInv, PierTypeOK, LordTypeOK, ModeInv, Kernel
<1>3. Len(snap) <= LastKey /\ LastKey <= MaxEve /\ Len(snap) \in 0 .. MaxEve
  BY <1>0, <1>2, EventsAssumption DEF PierInv, AgreeInv, BoundInv, DiskShape
<1>4. p \in Plea
  BY <1>3, EventsAssumption, LordAssumption DEF Plea
<1> HIDE DEF p
<1>5. out' \in Seq(Plea) /\ (god = "none" => out' = <<>>) /\ (god = "init" => Len(out') = 1 /\ out'[1] = p)
  <2>1. <<>> \in Seq(Plea) /\ Append(<<>>, p) \in Seq(Plea) /\ Len(Append(<<>>, p)) = 1 /\ Append(<<>>, p)[1] = p
    BY <1>4
  <2> QED
    BY <1>1, <1>2, <2>1
<1>6. LordTypeOK'
  BY <1>1, <1>5 DEF PierInv, PierTypeOK, LordTypeOK
<1>7. sat \notin {"play", "wyrd", "work", "done"} /\ (sat = "boot" => snap = <<>>)
  BY <1>2 DEF PierInv, ModeInv, NewInv
<1>8. NewInv'
  <2>1. god # "live"
    BY <1>2
  <2> QED
    BY <1>1, <2>1 DEF PierInv, NewInv, BatchEnd
<1>9. PipesInv'
  <2>1. god = "init" => \A i \in 1 .. Len(out') : out'[i].typ = "ripe" /\ out'[i].eve = Len(snap)
    <3>1. p.typ = "ripe" /\ p.eve = Len(snap)
      BY DEF p
    <3>2. ASSUME god = "init", NEW i \in 1 .. Len(out')
          PROVE  out'[i].typ = "ripe" /\ out'[i].eve = Len(snap)
      <4>1. Len(out') = 1 /\ out'[1] = p
        BY <1>5, <3>2
      <4>2. i = 1
        BY <4>1
      <4> QED
        BY <3>1, <4>1, <4>2
    <3> QED
      BY <3>2
  <2> QED
    BY <1>1, <1>2, <1>5, <2>1 DEF PierInv, PipesInv
<1>10. MatchInv' /\ WorkInv' /\ PlayInv' /\ BatchInv'
  BY <1>1, <1>2, <1>7 DEF MatchInv, WorkInv, PlayInv, BatchInv
<1>11. InnInv'
  <2>1. ASSUME NEW i \in 1 .. Len(inn) PROVE Sound(inn[i])'
    BY <1>1, <1>2 DEF Sound
  <2> QED
    BY <1>1, <2>1 DEF InnInv, Sound
<1>12. AgreeInv'
  <2>1. Agrees(snap)
    BY <1>0, <1>2, <1>3, LogAgrees DEF PierInv, AgreeInv
  <2>2. Agrees(core)'
    BY <1>1, <2>1 DEF Agrees
  <2> QED
    BY <1>1, <1>2, <2>2 DEF PierInv, AgreeInv
<1>13. BoundInv'
  <2>1. sat # "work" /\ sat # "done"
    BY <1>7
  <2>2. Len(ova) = 0
    BY <2>1 DEF PierInv, ModeInv, Works
  <2>3. PICK b : Budget(inn, Len(snap), b) /\ b[Len(inn)] = MaxEve
    BY <1>2, <1>3, BudgetRests
  <2>4. b[Len(inn)] + Len(ova) <= MaxEve
    BY <2>2, <2>3, EventsAssumption
  <2>5. Budget(inn, Len(core), b)'
    BY <1>1, <2>3 DEF Budget
  <2> QED
    BY <1>1, <2>3, <2>4, <2>5 DEF PierInv, BoundInv
<1>14. serf # "dead"
  BY <1>1
<1> QED
  BY <1>6, <1>8, <1>9, <1>10, <1>11, <1>12, <1>13, <1>14, SerfRest DEF SerfParts

\* The serf takes the first writ and answers it with p.
Answered1(p) ==
  /\ SerfFrame /\ serf = "up" /\ serf' = "up" /\ fault' = fault
  /\ inn # <<>> /\ inn' = Tail(inn) /\ inn[1].typ # "exit"
  /\ Reply(p)
  /\ p.typ # "ripe" /\ Answers(p, inn[1]) /\ (p.typ = "play" => p.how # "swap")

LEMMA TakeShape ==
  ASSUME PierInv, NEW p \in Plea, Answered1(p)
  PROVE  /\ UNCHANGED <<db, meta, open, sen, dun, put, ted, req, red, god, eve, writs, sat, pay, ova>>
         /\ LastKey' = LastKey
         /\ god \in {"none", "live"} /\ (god = "none" => sat = "down" /\ out' = <<>>)
         /\ sat # "boot" /\ sat # "init"
         /\ god = "live" =>
              /\ out' = Append(out, p) /\ Len(out') = Len(out) + 1 /\ out'[Len(out) + 1] = p
              /\ \A i \in 1 .. Len(out) : out'[i] = out[i]
              /\ inn[1] = writs[Len(out) + 1] /\ Len(out) + 1 <= Len(writs)
         /\ inn \in Seq(Writ) /\ inn[1] \in Writ /\ Sound(inn[1]) /\ Len(inn) \in Nat /\ Len(inn) >= 1
         /\ \A i \in 1 .. Len(inn) - 1 : inn'[i] = inn[i + 1]
         /\ Len(inn') = Len(inn) - 1 /\ inn' \in Seq(Writ)
         /\ out \in Seq(Plea) /\ out' \in Seq(Plea) /\ Len(out) \in Nat
         /\ NewInv' /\ MatchInv' /\ InnInv'
         /\ core \in Kernel /\ Len(core) \in Nat /\ snap \in Kernel /\ Len(snap) \in Nat
<1>1. /\ UNCHANGED <<db, meta, open, sen, dun, put, ted, req, red, god, eve, writs, sat, pay, ova>>
      /\ LastKey' = LastKey
  BY LastKeySame DEF Answered1, SerfFrame, diskVars, pierVars, workVars
<1>2. /\ inn \in Seq(Writ) /\ out \in Seq(Plea) /\ writs \in Seq(Writ)
      /\ god \in {"none", "init", "live"} /\ core \in Kernel /\ snap \in Kernel
  BY DEF PierInv, PierTypeOK, LordTypeOK
<1>3. /\ Len(inn) \in Nat /\ Len(inn) >= 1 /\ inn[1] \in Writ
      /\ \A i \in 1 .. Len(inn) - 1 : inn'[i] = inn[i + 1]
      /\ Len(inn') = Len(inn) - 1 /\ inn' \in Seq(Writ)
  BY <1>2, TailIs DEF Answered1
<1>4. inn # <<>> /\ inn[1].typ # "exit" /\ serf = "up" /\ serf' = "up"
  BY DEF Answered1
<1>5. god # "init"
  BY <1>3, <1>4 DEF PierInv, PipesInv
<1>6. god = "none" => sat = "down" /\ out' = <<>>
  BY <1>4 DEF PierInv, ModeInv, PipesInv, Answered1, Reply
<1>7. sat # "boot" /\ sat # "init"
  BY <1>4, <1>5 DEF PierInv, NewInv, ModeInv
<1>8. ASSUME god = "live"
      PROVE  /\ out' = Append(out, p) /\ Len(out') = Len(out) + 1 /\ out'[Len(out) + 1] = p
             /\ \A i \in 1 .. Len(out) : out'[i] = out[i]
             /\ inn[1] = writs[Len(out) + 1] /\ Len(out) + 1 <= Len(writs)
             /\ Matched(writs, out') /\ Queued(writs, out', inn') /\ out' \in Seq(Plea)
  <2>1. out' = Append(out, p)
    BY <1>8 DEF Answered1, Reply
  <2>2. /\ Len(out') = Len(out) + 1 /\ out'[Len(out) + 1] = p /\ out' \in Seq(Plea)
        /\ \A i \in 1 .. Len(out) : out'[i] = out[i]
    BY <1>2, <2>1, AppendProperties
  <2>3. Matched(writs, out) /\ Queued(writs, out, inn)
    BY <1>4, <1>8 DEF PierInv, MatchInv
  <2>4. p.typ # "ripe" /\ Answers(p, inn[1]) /\ (p.typ = "play" => p.how # "swap") /\ inn' = Tail(inn)
    BY DEF Answered1
  <2>5. /\ Matched(writs, Append(out, p)) /\ Queued(writs, Append(out, p), Tail(inn))
        /\ inn[1] = writs[Len(out) + 1] /\ Len(out) + 1 <= Len(writs)
    BY <1>2, <1>4, <2>3, <2>4, MatchedSay
  <2> QED
    BY <2>1, <2>2, <2>4, <2>5
<1>9. out' \in Seq(Plea)
  <2>1. <<>> \in Seq(Plea)
    OBVIOUS
  <2> QED
    BY <1>2, <1>5, <1>6, <1>8, <2>1
<1>10. MatchInv'
  BY <1>1, <1>4, <1>8 DEF MatchInv
<1>11. NewInv'
  BY <1>1, <1>7 DEF PierInv, NewInv
<1>12. Sound(inn[1])
  BY <1>3 DEF PierInv, InnInv
<1>13. InnInv'
  <2>1. ASSUME NEW i \in 1 .. Len(inn') PROVE Sound(inn[i + 1]) /\ inn'[i] = inn[i + 1]
    <3>1. i + 1 \in 1 .. Len(inn) /\ i \in 1 .. Len(inn) - 1
      BY <1>3
    <3> QED
      BY <1>3, <3>1 DEF PierInv, InnInv
  <2>2. ASSUME NEW i \in 1 .. Len(inn') PROVE Sound(inn[i])'
    <3>1. Sound(inn[i + 1]) /\ inn'[i] = inn[i + 1]
      BY <2>1
    <3> QED
      BY <1>1, <3>1 DEF Sound
  <2> QED
    BY <2>2 DEF InnInv
<1>14. Len(out) \in Nat /\ Len(core) \in Nat /\ Len(snap) \in Nat
  BY <1>2, LenProperties DEF Kernel
<1> QED
  BY <1>1, <1>2, <1>3, <1>5, <1>6, <1>7, <1>8, <1>9, <1>10, <1>11, <1>12, <1>13, <1>14

\* The kernel with the events that an answer tells of keeps to its budget.
LEMMA TakeBound ==
  ASSUME PierInv, SerfFrame, serf = "up", serf' = "up", inn # <<>>, inn' = Tail(inn), core' \in Kernel,
         \/ core' = core
         \/ inn[1].typ = "work" /\ Len(core') <= Len(core) + 1
         \/ inn[1].typ = "play" /\ Len(core') <= EndOf(inn[1])
  PROVE  BoundInv' /\ Len(core') + Len(ova) <= MaxEve /\ Len(core') \in 0 .. MaxEve
<1>0. UNCHANGED <<db, sen, sat, ova>> /\ inn \in Seq(Writ) /\ core \in Kernel
  BY DEF SerfFrame, diskVars, pierVars, workVars, PierInv, PierTypeOK, LordTypeOK
<1>1. /\ UNCHANGED <<sen, sat, ova>> /\ LastKey' = LastKey
      /\ inn \in Seq(Writ) /\ Len(inn) \in Nat /\ Len(inn) >= 1 /\ Len(core) \in Nat
      /\ Len(inn') = Len(inn) - 1 /\ inn[1] \in Writ
  BY <1>0, LastKeySame, TailIs, LenProperties DEF Kernel
<1>2. Len(core') \in Nat /\ inn # <<>> /\ inn' = Tail(inn) /\ serf = "up"
  BY LenProperties DEF Kernel
<1>3. PICK b : Budget(inn, Len(core), b) /\ b[Len(inn)] + Len(ova) <= MaxEve
  BY <1>2 DEF PierInv, BoundInv
<1>4. /\ b \in [0 .. Len(inn) -> 0 .. MaxEve] /\ Len(core) <= b[0]
      /\ \A i, j \in 0 .. Len(inn) : i <= j => b[i] <= b[j]
      /\ \A i \in 1 .. Len(inn) : /\ b[i - 1] + Cost(inn[i]) <= b[i]
                                  /\ inn[i].typ = "play" => EndOf(inn[i]) <= b[i]
  BY <1>3 DEF Budget
<1>5. /\ 1 \in 1 .. Len(inn) /\ 0 \in 0 .. Len(inn) /\ 1 \in 0 .. Len(inn)
      /\ Len(inn) \in 0 .. Len(inn) /\ 1 - 1 = 0
  BY <1>1
<1>6. /\ b[0] \in 0 .. MaxEve /\ b[1] \in 0 .. MaxEve /\ b[Len(inn)] \in 0 .. MaxEve
      /\ b[0] <= b[1] /\ b[1] <= b[Len(inn)]
  <2>1. \A i \in 0 .. Len(inn) : b[i] \in 0 .. MaxEve
    BY <1>4
  <2>2. /\ \A i, j \in 0 .. Len(inn) : i <= j => b[i] <= b[j]
        /\ 0 <= 1 /\ 1 <= Len(inn)
    BY <1>1, <1>4
  <2> QED
    BY ONLY <2>1, <2>2, <1>5
<1>7. b[0] + Cost(inn[1]) <= b[1] /\ (inn[1].typ = "play" => EndOf(inn[1]) <= b[1])
  BY <1>4, <1>5
<1>8. EndOf(inn[1]) \in Int
  <2>1. inn[1] \in Writ
    BY <1>1
  <2>2. inn[1].eve \in 0 .. MaxWord /\ inn[1].jobs \in Seq(Job)
    BY <2>1 DEF Writ
  <2>3. Len(inn[1].jobs) \in Nat
    BY <2>2, LenProperties
  <2>4. inn[1].eve \in Int
    BY <2>2
  <2> QED
    BY <2>3, <2>4 DEF EndOf
<1>9. Len(core') <= b[1]
  <2>1. CASE core' = core
    BY <1>1, <1>4, <1>6, <2>1
  <2>2. CASE inn[1].typ = "work" /\ Len(core') <= Len(core) + 1
    <3>1. Cost(inn[1]) = 1
      BY <2>2 DEF Cost
    <3> QED
      BY <1>1, <1>2, <1>4, <1>6, <1>7, <2>2, <3>1
  <2>3. CASE inn[1].typ = "play" /\ Len(core') <= EndOf(inn[1])
    BY <1>2, <1>6, <1>7, <1>8, <2>3
  <2> QED
    BY <2>1, <2>2, <2>3
<1>10. \E d : Budget(Tail(inn), Len(core'), d) /\ d[Len(Tail(inn))] = b[Len(inn)]
  <2> DEFINE m == Len(core')
  <2>1. m \in Nat /\ m <= b[1]
    BY <1>2, <1>9
  <2> HIDE DEF m
  <2>2. \E d : Budget(Tail(inn), m, d) /\ d[Len(Tail(inn))] = b[Len(inn)]
    BY <1>1, <1>2, <1>3, <2>1, BudgetTail
  <2> QED
    BY <2>2 DEF m
<1>11. PICK d : Budget(Tail(inn), Len(core'), d) /\ d[Len(Tail(inn))] = b[Len(inn)]
  BY <1>10
<1>12. Budget(inn, Len(core), d)'
  BY <1>2, <1>11 DEF Budget
<1>13. Len(ova) \in Nat
  BY LenProperties DEF PierInv, PierTypeOK
<1>14. BoundInv'
  <2>1. d[Len(inn')] + Len(ova') <= MaxEve
    BY <1>1, <1>2, <1>3, <1>11
  <2> QED
    BY <1>1, <1>12, <2>1 DEF PierInv, BoundInv
<1> QED
  BY <1>2, <1>3, <1>6, <1>9, <1>13, <1>14, EventsAssumption


\* What an answer must show for itself.
LEMMA TakeRest ==
  ASSUME PierInv, NEW p \in Plea, Answered1(p), core' \in Kernel, Len(core) <= Len(core'),
         snap' = snap \/ (snap' = core /\ core' = core /\ Len(core) <= LastKey),
         \/ core' = core
         \/ inn[1].typ = "work" /\ Len(core') <= Len(core) + 1
         \/ inn[1].typ = "play" /\ Len(core') <= EndOf(inn[1]),
         Agrees(core'), WorkInv', sat = "play" => Len(core') <= pay.eve, BatchInv'
  PROVE  PierInv'
<1>1. /\ UNCHANGED <<db, meta, open, sen, dun, put, ted, req, red, god, eve, writs, sat, pay, ova>>
      /\ LastKey' = LastKey
      /\ god \in {"none", "live"} /\ (god = "none" => sat = "down" /\ out' = <<>>)
      /\ inn \in Seq(Writ) /\ Len(inn) \in Nat /\ Len(inn) >= 1
      /\ Len(inn') = Len(inn) - 1 /\ inn' \in Seq(Writ)
      /\ \A i \in 1 .. Len(inn) - 1 : inn'[i] = inn[i + 1]
      /\ out' \in Seq(Plea) /\ NewInv' /\ MatchInv' /\ InnInv'
      /\ core \in Kernel /\ Len(core) \in Nat /\ snap \in Kernel /\ Len(snap) \in Nat
  BY TakeShape
<1>2. serf = "up" /\ serf' = "up" /\ fault' = fault /\ SerfFrame
  BY DEF Answered1
<1>3. LordTypeOK'
  <2>1. snap' \in Kernel
    BY <1>1
  <2> QED
    BY <1>1, <1>2, <2>1 DEF PierInv, PierTypeOK, LordTypeOK
<1>4. PipesInv'
  BY <1>1, <1>2 DEF PierInv, PipesInv
<1>5. AgreeInv'
  <2>1. Len(core') \in Nat
    BY LenProperties DEF Kernel
  <2>2. /\ Len(snap) <= LastKey /\ \A i \in 1 .. Len(snap) : snap[i] = db[i]
        /\ Len(snap) <= Len(core) /\ Agrees(core) /\ LastKey \in Nat /\ sen \in Nat
    BY <1>2, DiskShaped DEF PierInv, AgreeInv, DiskShape
  <2>3. Len(snap') <= LastKey' /\ (\A i \in 1 .. Len(snap') : snap'[i] = db'[i]) /\ Len(snap') <= Len(core')
    <3>1. CASE snap' = snap
      BY <1>1, <2>1, <2>2, <3>1
    <3>2. CASE snap' = core /\ core' = core /\ Len(core) <= LastKey
      <4>1. \A i \in 1 .. Len(core) : core[i] = db[i]
        BY <1>1, <2>2, <3>2 DEF Agrees
      <4> QED
        BY <1>1, <2>2, <3>2, <4>1
    <3> QED
      BY <3>1, <3>2
  <2>4. Agrees(core)'
    BY <1>1 DEF Agrees
  <2>5. ASSUME NEW i \in 1 .. Len(inn'), inn'[i].typ = "work"
        PROVE  sen <= Len(core') /\ LastKey <= Len(core')
    <3>1. i + 1 \in 1 .. Len(inn) /\ inn[i + 1].typ = "work"
      BY <1>1, <2>5
    <3>2. sen <= Len(core) /\ LastKey <= Len(core)
      BY <1>2, <3>1 DEF PierInv, AgreeInv
    <3> QED
      BY <1>1, <2>1, <2>2, <3>2
  <2> QED
    BY <1>1, <2>3, <2>4, <2>5 DEF AgreeInv
<1>6. PlayInv'
  BY <1>1 DEF PierInv, PlayInv, Replays
<1>7. BoundInv'
  BY <1>1, TakeBound DEF Answered1
<1> QED
  BY <1>1, <1>2, <1>3, <1>4, <1>5, <1>6, <1>7, SerfRest DEF SerfParts

\* What the king will hear of the kernel, with the answer p.
LEMMA TakeWork ==
  ASSUME PierInv, NEW p \in Plea, Answered1(p), core' \in Kernel,
         god = "live" /\ Negotiates =>
           /\ Len(core') = Len(core) + Gain(p) /\ Len(core') + Len(ova) <= MaxEve
           /\ Len(core') \in 0 .. MaxEve
           /\ Tells(p) => /\ p.eve = Len(core')
                          /\ core'[Len(core')] = FactJob(p, inn[1])
           /\ \A i \in 1 .. Len(core) : core'[i] = core[i]
  PROVE  WorkInv'
<1>1. /\ UNCHANGED <<sen, eve, god, sat, writs, ova>>
      /\ out \in Seq(Plea) /\ Len(out) \in Nat /\ Len(core) \in Nat
  BY TakeShape
<1>2. serf = "up" /\ serf' = "up"
  BY DEF Answered1
<1>3. SUFFICES ASSUME god = "live", Negotiates
      PROVE  /\ eve = sen
             /\ \E d : /\ Course(out', sen, d) /\ d[Len(out')] + Len(ova) <= MaxEve
                       /\ Facts(out', writs, core', d)
  BY <1>1 DEF WorkInv, Negotiates
<1>4. /\ out' = Append(out, p) /\ Len(out') = Len(out) + 1 /\ out'[Len(out) + 1] = p
      /\ \A i \in 1 .. Len(out) : out'[i] = out[i]
      /\ inn[1] = writs[Len(out) + 1]
  BY <1>3, TakeShape
<1>5. /\ Len(core') = Len(core) + Gain(p) /\ Len(core') + Len(ova) <= MaxEve
      /\ Len(core') \in 0 .. MaxEve
      /\ Tells(p) => p.eve = Len(core') /\ core'[Len(core')] = FactJob(p, inn[1])
      /\ \A i \in 1 .. Len(core) : core'[i] = core[i]
  BY <1>3
<1>6. PICK c : /\ Course(out, sen, c)
               /\ Facts(out, writs, core, c)
  BY <1>2, <1>3 DEF PierInv, WorkInv
<1>7. c[Len(out)] = Len(core) /\ sen \in Nat
  BY <1>6, DiskShaped DEF Facts, PierInv, DiskShape
<1>8. PICK d : /\ Course(Append(out, p), sen, d) /\ d[Len(out) + 1] = Len(core')
               /\ \A i \in 0 .. Len(out) : d[i] = c[i]
  <2> DEFINE e == Len(core')
  <2>1. e \in 0 .. MaxEve /\ e = c[Len(out)] + Gain(p) /\ (Tells(p) => p.eve = e)
    BY <1>5, <1>7
  <2> HIDE DEF e
  <2>2. \E d : /\ Course(Append(out, p), sen, d) /\ d[Len(out) + 1] = e
               /\ \A i \in 0 .. Len(out) : d[i] = c[i]
    <3>1. /\ out \in Seq(Plea) /\ sen \in Nat /\ Course(out, sen, c)
          /\ e \in 0 .. MaxEve /\ e = c[Len(out)] + Gain(p) /\ (Tells(p) => p.eve = e)
      BY <1>1, <1>6, <1>7, <2>1
    <3> QED
      BY ONLY <3>1, p \in Plea, CourseSay, SMTT(60)
  <2> QED
    BY <2>2 DEF e
<1>9. ASSUME NEW i \in 1 .. Len(out'), Tells(out'[i])
      PROVE  core'[d[i]] = FactJob(out'[i], writs[i])
  <2>1. CASE i = Len(out) + 1
    BY <1>4, <1>5, <1>8, <1>9, <2>1
  <2>2. CASE i \in 1 .. Len(out)
    <3>1. Tells(out[i]) /\ core[c[i]] = FactJob(out[i], writs[i]) /\ out'[i] = out[i]
      BY <1>4, <1>6, <1>9, <2>2 DEF Facts
    <3>2. c[i] = c[i - 1] + Gain(out[i]) /\ Gain(out[i]) = 1 /\ c[i - 1] \in 0 .. MaxEve
          /\ c[i] \in 0 .. MaxEve /\ c[i] <= c[Len(out)]
      <4>1. i - 1 \in 0 .. Len(out) /\ i \in 0 .. Len(out) /\ Len(out) \in 0 .. Len(out)
        BY <1>1, <2>2
      <4>2. /\ c \in [0 .. Len(out) -> 0 .. MaxEve] /\ c[i] = c[i - 1] + Gain(out[i])
            /\ \A j, k \in 0 .. Len(out) : j <= k => c[j] <= c[k]
        BY <1>6, <2>2 DEF Course
      <4>3. Gain(out[i]) = 1 /\ c[i - 1] \in 0 .. MaxEve /\ c[i] \in 0 .. MaxEve
        BY <3>1, <4>1, <4>2 DEF Gain
      <4>4. c[i] <= c[Len(out)]
        BY <2>2, <4>1, <4>2
      <4> QED
        BY <4>2, <4>3, <4>4
    <3>3. c[i] \in 1 .. Len(core) /\ d[i] = c[i]
      <4>1. i \in 0 .. Len(out)
        BY <1>1, <2>2
      <4> QED
        BY <1>1, <1>7, <1>8, <3>2, <4>1
    <3> QED
      BY <1>5, <3>1, <3>3
  <2> QED
    BY <1>1, <1>4, <2>1, <2>2
<1>10. Facts(out', writs, core', d)
  BY <1>4, <1>8, <1>9 DEF Facts
<1>11. Course(out', sen, d) /\ d[Len(out')] + Len(ova) <= MaxEve
  BY <1>4, <1>5, <1>8
<1> QED
  BY <1>3, <1>10, <1>11 DEF PierInv, WorkInv

\* The serf answers without computing: a scry, a pack, a checkpoint.
LEMMA TakeQuiet ==
  ASSUME PierInv, NEW p \in Plea, Answered1(p), p.typ \in {"peek", "live"}, core' = core,
         snap' = snap \/ (snap' = core /\ Len(core) <= LastKey)
  PROVE  PierInv'
<1>1. /\ core \in Kernel /\ Len(core) \in Nat /\ out \in Seq(Plea) /\ Len(out) \in Nat
      /\ UNCHANGED <<god, eve, writs, sat, pay>> /\ serf = "up"
      /\ god \in {"none", "live"} /\ (god = "none" => sat = "down")
  BY TakeShape DEF Answered1
<1>2. ~Tells(p) /\ Gain(p) = 0 /\ ~ReplayFailed(p)
  BY DEF Tells, Gain, ReplayFailed
<1>3. Len(core) + Len(ova) <= MaxEve /\ Len(core) \in 0 .. MaxEve
  BY <1>1, TakeBound DEF Answered1
<1>4. WorkInv'
  BY <1>1, <1>2, <1>3, TakeWork
<1>5. BatchInv'
  <2>1. SUFFICES ASSUME sat = "play"
        PROVE  eve = pay.eve /\ Len(writs) = 1 /\ writs[1].typ = "cram"
    BY <1>1 DEF BatchInv
  <2>2. god = "live" /\ inn[1] = writs[Len(out) + 1] /\ Len(out) + 1 <= Len(writs)
    BY <1>1, <2>1, TakeShape
  <2>3. Answers(p, inn[1])
    BY DEF Answered1
  <2>4. inn[1].typ # "play"
    BY <2>3 DEF Answers
  <2>5. ~Batches(writs, eve, pay.sen)
    <3>1. writs \in Seq(Writ)
      BY DEF PierInv, PierTypeOK, LordTypeOK
    <3>2. Len(out) + 1 \in 1 .. Len(writs)
      BY <1>1, <2>2, <3>1
    <3> QED
      BY <2>2, <2>4, <3>2 DEF Batches
  <2> QED
    BY <2>1, <2>5 DEF PierInv, BatchInv
<1>6. Agrees(core) /\ (sat = "play" => Len(core) <= pay.eve)
  BY DEF PierInv, AgreeInv, PlayInv
<1> QED
  BY <1>1, <1>4, <1>5, <1>6, TakeRest

\* u3_serf_peek, u3m_pack, u3u_meld, _serf_writ_live_save.
LEMMA SerfQuietInv ==
  ASSUME PierInv, SerfFrame, SerfPeek \/ SerfPack \/ SerfKeep("save") \/ SerfKeep("cram")
  PROVE  PierInv'
<1> DEFINE q == [typ |-> "peek", how |-> "done", eve |-> 0]
<1> DEFINE p == [typ |-> "live", how |-> "done", eve |-> 0]
<1>1. q \in Plea /\ p \in Plea /\ q.typ = "peek" /\ p.typ = "live"
  BY LordAssumption DEF Plea
<1>2. inn # <<>> => Head(inn) = inn[1]
  <2>1. inn \in Seq(Writ)
    BY DEF PierInv, PierTypeOK, LordTypeOK
  <2> QED
    BY <2>1, TailIs
<1>3. CASE SerfPeek
  <2>1. Answered1(q) /\ core' = core /\ snap' = snap
    BY <1>2, <1>3 DEF SerfPeek, Take, Say, Answered1, Answers
  <2> HIDE DEF q
  <2> QED
    BY <1>1, <2>1, TakeQuiet
<1>4. CASE SerfPack
  <2>1. Answered1(p) /\ core' = core /\ snap' = snap
    BY <1>2, <1>4 DEF SerfPack, Take, Say, Answered1, Answers
  <2> HIDE DEF p
  <2> QED
    BY <1>1, <2>1, TakeQuiet
<1>5. ASSUME NEW t \in {"save", "cram"}, SerfKeep(t) PROVE PierInv'
  <2>1. Answered1(p) /\ core' = core /\ snap' = core /\ inn[1].typ = t /\ inn[1].eve = Len(core)
    BY <1>2, <1>5 DEF SerfKeep, Take, Say, Answered1, Answers
  <2> HIDE DEF p
  <2>2. Sound(inn[1])
    BY <1>1, <2>1, TakeShape
  <2>3. Len(core) <= LastKey
    BY <2>1, <2>2 DEF Sound
  <2> QED
    BY <1>1, <2>1, <2>3, TakeQuiet
<1> QED
  BY <1>3, <1>4, <1>5

\* u3_serf_work: a kernel that computes new events is not behind what is
\* planned, so that its next event has a number of its own.
LEMMA SerfWorkInv ==
  ASSUME PierInv, SerfFrame, SerfWork
  PROVE  PierInv'
<1>1. /\ inn \in Seq(Writ) /\ core \in Kernel /\ Len(core) \in Nat
      /\ inn # <<>> /\ Head(inn) = inn[1] /\ inn[1] \in Writ /\ Len(inn) >= 1 /\ Len(inn) \in Nat
  <2>1. inn \in Seq(Writ) /\ core \in Kernel /\ inn # <<>>
    BY DEF PierInv, PierTypeOK, LordTypeOK, SerfWork, Take
  <2> QED
    BY <2>1, TailIs, LenProperties DEF Kernel
<1>2. /\ serf = "up" /\ serf' = "up" /\ inn' = Tail(inn) /\ fault' = fault /\ snap' = snap
      /\ inn[1].typ = "work"
  BY <1>1 DEF SerfWork, Take
<1>3. Len(inn[1].jobs) = 1 /\ inn[1].jobs[1] \in Job
  <2>1. Sound(inn[1])
    BY <1>1 DEF PierInv, InnInv
  <2>2. Len(inn[1].jobs) = 1 /\ inn[1].jobs \in Seq(Job)
    BY <1>1, <1>2, <2>1 DEF Sound, Writ
  <2>3. 1 \in 1 .. Len(inn[1].jobs)
    BY <2>2
  <2> QED
    BY <2>2, <2>3, ElementOfSeq
<1>4. PICK how \in Outcomes :
        /\ core' = CASE how = "done" -> Append(core, inn[1].jobs[1])
                     [] how = "swap" -> Append(core, Crud)
                     [] how = "bail" -> core
        /\ Say("work", how, Len(core'))
  BY <1>1 DEF SerfWork
<1> DEFINE p == [typ |-> "work", how |-> how, eve |-> Len(core')]
           j == IF how = "done" THEN inn[1].jobs[1] ELSE Crud
<1>5. how \in {"done", "swap", "bail"}
  BY <1>4, LordAssumption
<1>6. /\ p.typ = "work" /\ p.how = how /\ p.eve = Len(core')
      /\ Tells(p) <=> how # "bail"
      /\ Gain(p) = IF how # "bail" THEN 1 ELSE 0
      /\ FactJob(p, inn[1]) = j
  BY DEF Tells, Gain, FactJob
<1>7. j \in Job /\ core' = IF how = "bail" THEN core ELSE Append(core, j)
  BY <1>3, <1>4, <1>5, LordAssumption
<1>8. Reply(p)
  BY <1>4 DEF Say
<1>9. /\ core' \in Kernel /\ Len(core') = Len(core) + Gain(p)
      /\ \A i \in 1 .. Len(core) : core'[i] = core[i]
      /\ how # "bail" => core'[Len(core) + 1] = j
  <2>1. /\ Append(core, j) \in Kernel /\ Len(Append(core, j)) = Len(core) + 1
        /\ \A i \in 1 .. Len(core) : Append(core, j)[i] = core[i]
        /\ Append(core, j)[Len(core) + 1] = j
    <3> HIDE DEF j
    <3> QED
      BY <1>1, <1>7, AppendProperties DEF Kernel
  <2> HIDE DEF j, p
  <2> QED
    BY <1>1, <1>6, <1>7, <2>1
<1> HIDE DEF j
<1>10. BoundInv' /\ Len(core') + Len(ova) <= MaxEve /\ Len(core') \in 0 .. MaxEve
  <2>1. Len(core') <= Len(core) + 1
    BY <1>1, <1>6, <1>9
  <2> QED
    BY <1>1, <1>2, <1>9, <2>1, TakeBound
<1>11. p \in Plea
  <2>1. Len(core') \in 0 .. MaxWord
    BY <1>10, EventsAssumption, LordAssumption
  <2> QED
    BY <1>5, <2>1 DEF Plea
<1> HIDE DEF p
<1>12. Answered1(p)
  BY <1>1, <1>2, <1>6, <1>8 DEF Answered1, Answers
<1>13. sat # "play"
  <2>1. SUFFICES ASSUME sat = "play" PROVE FALSE
    OBVIOUS
  <2>2. /\ inn[1] = writs[Len(out) + 1] /\ Len(out) + 1 <= Len(writs) /\ Len(out) \in Nat
    BY <1>11, <1>12, <2>1, TakeShape
  <2>3. Len(writs) \in Nat
    BY LenProperties DEF PierInv, PierTypeOK, LordTypeOK
  <2>4. Len(out) + 1 \in 1 .. Len(writs) /\ (Len(writs) = 1 => Len(out) + 1 = 1)
    BY <2>2, <2>3
  <2> QED
    BY <1>2, <2>1, <2>2, <2>4 DEF PierInv, BatchInv, Batches
<1>14. Agrees(core')
  <2>1. sen <= Len(core) /\ LastKey <= Len(core)
    BY <1>1, <1>2 DEF PierInv, AgreeInv
  <2>2. sen \in Nat /\ dun \in Nat /\ LastKey \in Nat /\ Len(put) = sen - dun
    BY DiskShaped DEF PierInv, DiskShape
  <2>3. ASSUME NEW i \in 1 .. Len(core')
        PROVE  /\ i <= LastKey => core'[i] = db[i]
               /\ i - dun \in 1 .. Len(put) => core'[i] = put[i - dun].job
    <3>1. CASE i \in 1 .. Len(core)
      BY <1>9, <3>1 DEF PierInv, AgreeInv, Agrees
    <3>2. CASE i = Len(core) + 1
      BY <1>1, <2>1, <2>2, <3>2
    <3>3. Gain(p) \in 0 .. 1
      BY <1>6
    <3> QED
      BY <1>1, <1>9, <2>3, <3>1, <3>2, <3>3
  <2> QED
    BY <2>3 DEF Agrees
<1>15. WorkInv'
  <2>1. Tells(p) => p.eve = Len(core') /\ core'[Len(core')] = FactJob(p, inn[1])
    BY <1>6, <1>9
  <2> QED
    BY <1>9, <1>10, <1>11, <1>12, <2>1, TakeWork
<1>16. BatchInv'
  <2>1. sat' = sat
    BY DEF SerfFrame, pierVars
  <2> QED
    BY <1>13, <2>1 DEF BatchInv
<1>17. Len(core) <= Len(core') /\ Len(core') <= Len(core) + 1
  BY <1>1, <1>6, <1>9
<1> QED
  BY <1>2, <1>9, <1>11, <1>12, <1>13, <1>14, <1>15, <1>16, <1>17, TakeRest

\* A batch of the log, computed up to the n-th of its events.
LEMMA TakePlay ==
  ASSUME PierInv, NEW p, SerfFrame, serf = "up", serf' = "up", fault' = fault, snap' = snap,
         inn # <<>>, inn' = Tail(inn), inn[1].typ = "play", inn[1].eve = Len(core) + 1,
         core' \in Kernel, NEW n \in 0 .. Len(inn[1].jobs), Len(core') = Len(core) + n,
         \A i \in 1 .. Len(core) : core'[i] = core[i],
         \A i \in 1 .. n : core'[Len(core) + i] = inn[1].jobs[i],
         Reply(p), p.typ = "play", p.how \in {"done", "bail"},
         p.how = "done" => n = Len(inn[1].jobs),
         p \in [typ : {"play"}, how : {"done", "bail"}, eve : {0, Len(core')}]
  PROVE  PierInv'
<1>1. /\ inn \in Seq(Writ) /\ core \in Kernel /\ Len(core) \in Nat /\ inn[1] \in Writ
      /\ inn[1].jobs \in Seq(Job) /\ Len(inn[1].jobs) \in Nat /\ inn # <<>> /\ Len(inn) \in Nat
      /\ Len(inn) >= 1 /\ Len(inn') = Len(inn) - 1
  <2>1. inn \in Seq(Writ) /\ core \in Kernel /\ inn # <<>>
    BY DEF PierInv, PierTypeOK, LordTypeOK
  <2>2. inn[1] \in Writ /\ Len(inn) \in Nat /\ Len(inn) >= 1 /\ Len(inn') = Len(inn) - 1
    BY <2>1, TailIs
  <2>3. inn[1].jobs \in Seq(Job)
    BY <2>2 DEF Writ
  <2> QED
    BY <2>1, <2>2, <2>3, LenProperties DEF Kernel
<1>2. EndOf(inn[1]) = Len(core) + Len(inn[1].jobs) /\ Len(core') <= EndOf(inn[1])
      /\ Len(core) <= Len(core')
  <2> DEFINE l == Len(inn[1].jobs)
  <2>1. l \in Nat /\ n \in 0 .. l /\ EndOf(inn[1]) = (Len(core) + 1) + l - 1
    BY <1>1 DEF EndOf
  <2> HIDE DEF l
  <2>2. EndOf(inn[1]) = Len(core) + l /\ Len(core') <= EndOf(inn[1]) /\ Len(core) <= Len(core')
    BY <1>1, <2>1
  <2> QED
    BY <2>2 DEF l
<1>3. BoundInv' /\ Len(core') + Len(ova) <= MaxEve /\ Len(core') \in 0 .. MaxEve
  BY <1>1, <1>2, TakeBound
<1>4. p \in Plea
  <2>1. Len(core') \in 0 .. MaxWord /\ 0 \in 0 .. MaxWord
    BY <1>3, EventsAssumption, LordAssumption
  <2> QED
    BY <2>1 DEF Plea
<1>5. Answered1(p)
  BY <1>1 DEF Answered1, Answers
<1>6. Sound(inn[1]) /\ DiskShape /\ UNCHANGED <<god, eve, writs, sat, pay>>
      /\ out \in Seq(Plea) /\ Len(out) \in Nat
  BY <1>4, <1>5, TakeShape, DiskShaped DEF PierInv
<1>7. \A k \in 1 .. n : /\ Len(core) + k <= LastKey
                        /\ core'[Len(core) + k] = db[Len(core) + k]
  <2> SUFFICES ASSUME NEW k \in 1 .. n
               PROVE  Len(core) + k <= LastKey /\ core'[Len(core) + k] = db[Len(core) + k]
    OBVIOUS
  <2>1. k \in 1 .. Len(inn[1].jobs)
    BY <1>1
  <2>2. inn[1].eve + k - 1 <= LastKey /\ db[inn[1].eve + k - 1] = inn[1].jobs[k]
    BY <1>6, <2>1 DEF Sound
  <2>3. inn[1].eve + k - 1 = Len(core) + k
    BY <1>1
  <2> QED
    BY <2>2, <2>3
<1>8. Agrees(core')
  <2>1. ASSUME NEW i \in 1 .. Len(core')
        PROVE  /\ i <= LastKey => core'[i] = db[i]
               /\ i - dun \in 1 .. Len(put) => core'[i] = put[i - dun].job
    <3>1. CASE i \in 1 .. Len(core)
      BY <3>1 DEF PierInv, AgreeInv, Agrees
    <3>2. CASE i \notin 1 .. Len(core)
      <4>1. i - Len(core) \in 1 .. n /\ Len(core) + (i - Len(core)) = i
        BY <1>1, <2>1, <3>2
      <4>2. i <= LastKey /\ core'[i] = db[i]
        BY <1>7, <4>1
      <4>3. ASSUME i - dun \in 1 .. Len(put) PROVE core'[i] = put[i - dun].job
        <5>1. dun + (i - dun) = i /\ i - dun \in 1 .. Len(put)
          BY <1>6, <2>1, <4>3 DEF DiskShape
        <5>2. put[i - dun].job = db[dun + (i - dun)]
          BY <1>6, <4>2, <5>1 DEF DiskShape
        <5> QED
          BY <4>2, <5>1, <5>2
      <4> QED
        BY <4>2, <4>3
    <3> QED
      BY <3>1, <3>2
  <2> QED
    BY <2>1 DEF Agrees
<1>9. god = "live" => inn[1] = writs[Len(out) + 1] /\ Len(out) + 1 \in 1 .. Len(writs)
  <2>1. Len(writs) \in Nat
    BY LenProperties DEF PierInv, PierTypeOK, LordTypeOK
  <2> QED
    BY <1>4, <1>5, <1>6, <2>1, TakeShape
<1>10. ~(god = "live" /\ Negotiates)
  BY <1>9 DEF PierInv, WritsInv
<1>11. WorkInv'
  BY <1>6, <1>10 DEF WorkInv, Negotiates
<1>12. ASSUME sat = "play"
       PROVE  /\ god = "live" /\ Batches(writs, eve, pay.sen)
              /\ Len(core') <= pay.eve
  <2>1. god = "live"
    BY <1>4, <1>5, <1>12, TakeShape
  <2>2. Batches(writs, eve, pay.sen)
    <3>1. Len(writs) = 1 => Len(out) + 1 = 1
      BY <1>6, <1>9, <2>1
    <3>2. ~(Len(writs) = 1 /\ writs[1].typ = "cram")
      BY <1>9, <2>1, <3>1
    <3> QED
      BY <1>12, <3>2 DEF PierInv, BatchInv
  <2>3. EndOf(inn[1]) <= pay.sen
    BY <1>9, <2>1, <2>2 DEF Batches
  <2>4. pay.sen + Len(pay.q) <= pay.eve /\ pay.sen \in Nat /\ pay.eve \in Nat /\ Len(pay.q) \in Nat
    BY <1>12, LenProperties DEF PierInv, PlayInv, Replays, PierTypeOK
  <2> QED
    BY <1>1, <1>2, <1>3, <2>1, <2>2, <2>3, <2>4
<1>13. BatchInv'
  <2> SUFFICES ASSUME sat = "play", NoneFailed'
               PROVE  Len(core') = EndOf(writs[Len(out')]) /\ out' # <<>> /\ Batches(writs, eve, pay.sen)
    BY <1>6, <1>12 DEF BatchInv
  <2>1. out' = Append(out, p) /\ Len(out') = Len(out) + 1 /\ out'[Len(out) + 1] = p
    BY <1>4, <1>5, <1>12, TakeShape
  <2>2. Len(out) + 1 \in 1 .. Len(out')
    BY <1>6, <2>1
  <2>3. ~ReplayFailed(p)
    BY <2>1, <2>2 DEF NoneFailed
  <2>4. n = Len(inn[1].jobs)
    BY <2>3 DEF ReplayFailed
  <2>5. out' # <<>>
    BY <1>6, <2>1
  <2> QED
    BY <1>2, <1>9, <1>12, <2>1, <2>4, <2>5
<1> QED
  BY <1>1, <1>2, <1>4, <1>5, <1>8, <1>11, <1>12, <1>13, TakeRest

\* _serf_play_life: the lifecycle sequence makes the first kernel.
LEMMA SerfLifeInv ==
  ASSUME PierInv, SerfFrame, SerfLife
  PROVE  PierInv'
<1> DEFINE w == inn[1]
<1>1. /\ inn \in Seq(Writ) /\ inn # <<>> /\ Head(inn) = w /\ w.jobs \in Seq(Job) /\ Len(w.jobs) \in Nat
  <2>1. inn \in Seq(Writ) /\ inn # <<>>
    BY DEF PierInv, PierTypeOK, LordTypeOK, SerfLife, Take
  <2>2. Head(inn) = w /\ w \in Writ
    BY <2>1, TailIs
  <2>3. w.jobs \in Seq(Job)
    BY <2>2 DEF Writ
  <2> QED
    BY <2>1, <2>2, <2>3, LenProperties
<1>2. /\ serf = "up" /\ serf' = "up" /\ inn' = Tail(inn) /\ fault' = fault /\ snap' = snap
      /\ w.typ = "play" /\ w.eve = 1 /\ core = <<>> /\ Len(core) = 0
  BY <1>1 DEF SerfLife, Take
<1>3. CASE core' = w.jobs /\ Say("play", "done", Len(core'))
  <2> DEFINE p == [typ |-> "play", how |-> "done", eve |-> Len(core')]
  <2>1. /\ Reply(p) /\ p.typ = "play" /\ p.how = "done"
        /\ p \in [typ : {"play"}, how : {"done", "bail"}, eve : {0, Len(core')}]
    BY <1>3 DEF Say
  <2> DEFINE n == Len(w.jobs)
  <2>2. /\ n \in 0 .. Len(w.jobs) /\ core' \in Kernel /\ Len(core') = Len(core) + n
        /\ \A i \in 1 .. n : core'[Len(core) + i] = w.jobs[i]
        /\ \A i \in 1 .. Len(core) : core'[i] = core[i]
    BY <1>1, <1>2, <1>3 DEF Kernel
  <2>3. n = Len(w.jobs)
    OBVIOUS
  <2> HIDE DEF p, n
  <2> QED
    BY <1>1, <1>2, <2>1, <2>2, <2>3, TakePlay
<1>4. CASE core' = <<>> /\ Say("play", "bail", 0)
  <2> DEFINE p == [typ |-> "play", how |-> "bail", eve |-> 0]
  <2>1. /\ Reply(p) /\ p.typ = "play" /\ p.how = "bail"
        /\ p \in [typ : {"play"}, how : {"done", "bail"}, eve : {0, Len(core')}]
    BY <1>4 DEF Say
  <2>2. /\ 0 \in 0 .. Len(w.jobs) /\ core' \in Kernel /\ Len(core') = Len(core) + 0
        /\ \A i \in 1 .. 0 : core'[Len(core) + i] = w.jobs[i]
        /\ \A i \in 1 .. Len(core) : core'[i] = core[i]
    BY <1>1, <1>2, <1>4 DEF Kernel
  <2> HIDE DEF p
  <2> QED
    BY <1>1, <1>2, <2>1, <2>2, TakePlay
<1> QED
  BY <1>1, <1>3, <1>4 DEF SerfLife

\* _serf_play_list: up to an event that fails.
LEMMA SerfPlayInv ==
  ASSUME PierInv, SerfFrame, SerfPlay
  PROVE  PierInv'
<1> DEFINE w == inn[1]
<1>1. /\ inn \in Seq(Writ) /\ inn # <<>> /\ Head(inn) = w /\ w.jobs \in Seq(Job) /\ Len(w.jobs) \in Nat
      /\ core \in Seq(Job) /\ Len(core) \in Nat
  <2>1. inn \in Seq(Writ) /\ inn # <<>> /\ core \in Seq(Job)
    BY DEF PierInv, PierTypeOK, LordTypeOK, SerfPlay, Take, Kernel
  <2>2. Head(inn) = w /\ w \in Writ
    BY <2>1, TailIs
  <2>3. w.jobs \in Seq(Job)
    BY <2>2 DEF Writ
  <2> QED
    BY <2>1, <2>2, <2>3, LenProperties
<1>2. /\ serf = "up" /\ serf' = "up" /\ inn' = Tail(inn) /\ fault' = fault /\ snap' = snap
      /\ w.typ = "play" /\ w.eve = Len(core) + 1
  BY <1>1 DEF SerfPlay, Take
<1>3. PICK n \in 0 .. Len(w.jobs) :
        /\ core' = core \o SubSeq(w.jobs, 1, n)
        /\ Say("play", IF n = Len(w.jobs) THEN "done" ELSE "bail", Len(core'))
  BY <1>1 DEF SerfPlay
<1> DEFINE how == IF n = Len(w.jobs) THEN "done" ELSE "bail"
           p   == [typ |-> "play", how |-> how, eve |-> Len(core')]
<1>4. /\ Reply(p) /\ p.typ = "play" /\ p.how = how /\ how \in {"done", "bail"}
      /\ how = "done" => n = Len(w.jobs)
      /\ p \in [typ : {"play"}, how : {"done", "bail"}, eve : {0, Len(core')}]
  BY <1>3 DEF Say
<1>5. /\ SubSeq(w.jobs, 1, n) \in Seq(Job) /\ Len(SubSeq(w.jobs, 1, n)) = n
      /\ \A i \in 1 .. n : SubSeq(w.jobs, 1, n)[i] = w.jobs[i]
  <2>1. \A i \in 1 .. n : w.jobs[i] \in Job
    BY <1>1, ElementOfSeq
  <2>2. /\ Len(SubSeq(w.jobs, 1, n)) = n
        /\ \A i \in 1 .. n : SubSeq(w.jobs, 1, n)[i] = w.jobs[i]
    BY <1>1, SubSeqProperties
  <2> QED
    BY <1>1, <2>2, SubSeqProperties
<1>6. /\ core' \in Kernel /\ Len(core') = Len(core) + n
      /\ \A i \in 1 .. Len(core) : core'[i] = core[i]
      /\ \A i \in 1 .. n : core'[Len(core) + i] = w.jobs[i]
  <2> DEFINE t == SubSeq(w.jobs, 1, n)
  <2>1. t \in Seq(Job) /\ Len(t) = n /\ (\A i \in 1 .. n : t[i] = w.jobs[i]) /\ core' = core \o t
    BY <1>3, <1>5
  <2> HIDE DEF t
  <2>2. /\ core' \in Seq(Job) /\ Len(core') = Len(core) + Len(t)
        /\ \A i \in 1 .. Len(core) : core'[i] = core[i]
        /\ \A i \in 1 .. Len(t) : core'[Len(core) + i] = t[i]
    BY <1>1, <2>1, JoinIs
  <2> QED
    BY <2>1, <2>2 DEF Kernel
<1> HIDE DEF p, how
<1> QED
  BY <1>1, <1>2, <1>4, <1>6, TakePlay

\* Every step of the serf, or its death, while the king waits for it.
LEMMA SerfInv == PierInv /\ Serf => PierInv'
<1> SUFFICES ASSUME PierInv, Serf PROVE PierInv'
  OBVIOUS
<1>1. fault \in {"none", "kernel", "order", "save"}
  BY DEF PierInv, PierTypeOK, LordTypeOK
<1>2. CASE SerfRipe
  <2>1. SerfFrame
    BY <1>2 DEF Serf, SerfFrame, SerfRipe
  <2> QED
    BY <1>2, <2>1, SerfRipeInv
<1>3. CASE SerfWork
  <2>1. SerfFrame
    BY <1>3 DEF Serf, SerfFrame, SerfWork, Take
  <2> QED
    BY <1>3, <2>1, SerfWorkInv
<1>4. CASE SerfLife
  <2>1. SerfFrame
    BY <1>4 DEF Serf, SerfFrame, SerfLife, Take
  <2> QED
    BY <1>4, <2>1, SerfLifeInv
<1>5. CASE SerfPlay
  <2>1. SerfFrame
    BY <1>5 DEF Serf, SerfFrame, SerfPlay, Take
  <2> QED
    BY <1>5, <2>1, SerfPlayInv
<1>6. CASE SerfPeek \/ SerfPack \/ SerfKeep("save") \/ SerfKeep("cram")
  <2>1. SerfFrame
    BY <1>6 DEF Serf, SerfFrame, SerfPeek, SerfPack, SerfKeep, Take
  <2> QED
    BY <1>6, <2>1, SerfQuietInv
<1>7. CASE SerfExit \/ SerfOrphan
  <2>1. SerfFrame /\ serf # "dead" /\ SerfDies(fault)
    BY <1>7 DEF Serf, SerfFrame, SerfExit, SerfOrphan, SerfDies
  <2> QED
    BY <1>1, <2>1, SerfDiesInv
<1>8. CASE SerfRefuses
  <2>1. PICK why \in Refusals(Head(inn)) : serf = "up" /\ SerfDies(why)
    BY <1>8 DEF SerfRefuses
  <2>2. why \in {"kernel", "order", "save"}
    BY <2>1 DEF Refusals
  <2>3. SerfFrame
    BY <2>1 DEF Serf, SerfFrame, SerfDies
  <2> QED
    BY <2>1, <2>2, <2>3, SerfDiesInv
<1> QED
  BY <1>2, <1>3, <1>4, <1>5, <1>6, <1>7, <1>8 DEF Serf, SerfWrit

LEMMA SerfCrashInv == PierInv /\ SerfCrash /\ UNCHANGED <<diskVars, pierVars>> => PierInv'
<1> SUFFICES ASSUME PierInv, SerfCrash, UNCHANGED <<diskVars, pierVars>> PROVE PierInv'
  OBVIOUS
<1>1. fault \in {"none", "kernel", "order", "save"}
  BY DEF PierInv, PierTypeOK, LordTypeOK
<1>2. SerfFrame /\ serf # "dead" /\ SerfDies(fault)
  BY DEF SerfFrame, SerfCrash, SerfDies
<1> QED
  BY <1>1, <1>2, SerfDiesInv

-----------------------------------------------------------------------------
(* The steps of the log's thread.                                          *)

\* What they leave alone.
ThreadFrame == UNCHANGED <<lordVars, pierVars, meta, open, sen, dun, put, req, red>>

LEMMA ThreadUnfold ==
  ASSUME ThreadFrame
  PROVE  /\ UNCHANGED <<god, eve, writs, inn, out, serf, core, snap, fault>>
         /\ UNCHANGED <<sat, pay, ova, pec, gifts, rel, walls, effs, oops>>
         /\ UNCHANGED <<meta, open, sen, dun, put, req, red>>
BY DEF ThreadFrame, lordVars, pierVars, workVars

\* The write starts, or fails.
LEMMA ThreadQuietInv ==
  ASSUME PierInv, ThreadFrame, db' = db, ted \in {"queued", "running"}, ted' \in {"running", "bad"}
  PROVE  PierInv'
<1>1. /\ UNCHANGED <<god, eve, writs, inn, out, serf, core, snap, fault>>
      /\ UNCHANGED <<sat, pay, ova, pec, gifts, rel, walls, effs, oops>>
      /\ UNCHANGED <<meta, open, sen, dun, put, req, red>> /\ LastKey' = LastKey
  BY ThreadUnfold, LastKeySame
<1>2. DiskInv'
  <2>1. meta \in 0 .. MetaKeys /\ red \in Seq(Read) /\ open # "closed"
    BY DEF PierInv, DiskInv, DiskTypeOK, ClosedIsForgotten
  <2> QED
    BY <1>1, <2>1, QuietInv DEF PierInv
<1>3. PierTypeOK'
  <2>1. DiskTypeOK'
    BY <1>2 DEF DiskInv
  <2> QED
    BY <1>1, <2>1 DEF PierInv, PierTypeOK, LordTypeOK
<1>4. ModeInv' /\ NewInv'
  BY <1>1 DEF PierInv, ModeInv, NewInv, Works, BatchEnd
<1>5. PipesInv' /\ MatchInv' /\ WritsInv'
  BY <1>1 DEF PierInv, PipesInv, MatchInv, WritsInv, Negotiates
<1>6. InnInv'
  <2>1. ASSUME NEW i \in 1 .. Len(inn) PROVE Sound(inn[i])'
    BY <1>1 DEF PierInv, InnInv, Sound
  <2> QED
    BY <1>1, <2>1 DEF InnInv, Sound
<1>7. AgreeInv'
  BY <1>1 DEF PierInv, AgreeInv, Agrees
<1>8. WorkInv' /\ PlayInv' /\ BatchInv'
  BY <1>1 DEF PierInv, WorkInv, Negotiates, PlayInv, Replays, BatchInv, NoneFailed
<1>9. GiftInv' /\ EffsInv' /\ WallInv' /\ BoundInv' /\ OopsInv'
  BY <1>1 DEF PierInv, GiftInv, EffsInv, WallInv, BoundInv, OopsInv, Works
<1> QED
  BY <1>2, <1>3, <1>4, <1>5, <1>6, <1>7, <1>8, <1>9 DEF PierInv

\* The batch is durable: what the kernel computed under its numbers is what the
\* queue still holds under them.
LEMMA ThreadSavedInv ==
  ASSUME PierInv, ThreadFrame, DiskThreadSave
  PROVE  PierInv'
<1>1. /\ UNCHANGED <<god, eve, writs, inn, out, serf, core, snap, fault>>
      /\ UNCHANGED <<sat, pay, ova, pec, gifts, rel, walls, effs, oops>>
      /\ UNCHANGED <<meta, open, sen, dun, put, req, red>>
  BY ThreadUnfold
<1>2. DiskInv' /\ \A e \in DOMAIN db : e \in DOMAIN db' /\ db'[e] = db[e]
  BY ThreadSaveInv DEF PierInv
<1>3. DiskShape /\ DiskShape'
  BY <1>2, DiskShaped, DiskShapedNext DEF PierInv
<1>4. ted = "running" /\ ted' = "good" /\ open # "closed" /\ LastKey = dun
  BY <1>3 DEF DiskThreadSave, DiskShape
<1>5. PICK n \in 1 .. Len(put) : /\ n = Len(req.jobs) /\ BatchEnd(req) = dun + n /\ dun + n <= sen
  BY <1>4, BatchOfQueue DEF PierInv, BatchShape
<1>6. LastKey' = dun + n
  <2>1. BatchShape(Len(req.jobs))'
    <3>1. (DiskInv /\ ted # "idle" => BatchShape(Len(req.jobs)))'
      BY BatchOfQueue, PTL
    <3> QED
      BY <1>2, <1>4, <3>1
  <2> QED
    BY <1>1, <1>4, <1>5, <2>1 DEF BatchShape
<1>7. /\ LastKey <= LastKey' /\ LastKey' <= sen /\ dun + Len(put) = sen
      /\ \A i \in 1 .. LastKey : db'[i] = db[i]
      /\ LastKey \in Nat /\ LastKey' \in Nat /\ sen \in Nat /\ dun \in Nat
  <2>1. LastKey \in Nat /\ LastKey' \in Nat /\ sen \in Nat /\ dun \in Nat /\ DOMAIN db = 1 .. LastKey
        /\ Len(put) = sen - dun
    BY <1>3 DEF DiskShape
  <2>2. \A i \in 1 .. LastKey : db'[i] = db[i]
    BY <1>2, <2>1
  <2>3. Len(put) \in Nat /\ n \in Nat
    BY <1>3, LenProperties DEF DiskShape
  <2> QED
    BY <1>4, <1>5, <1>6, <2>1, <2>2, <2>3
<1>8. PierTypeOK'
  <2>1. DiskTypeOK'
    BY <1>2 DEF DiskInv
  <2> QED
    BY <1>1, <2>1 DEF PierInv, PierTypeOK, LordTypeOK
<1>9. sat \notin {"init", "play", "wyrd"} /\ sen # dun
  BY <1>4, <1>5, <1>7 DEF PierInv, ModeInv
<1>10. ModeInv'
  BY <1>1, <1>4, <1>9 DEF PierInv, ModeInv, Works
<1>11. NewInv'
  <2>1. meta = MetaKeys
    <3>1. meta \in 0 .. MetaKeys
      BY DEF PierInv, DiskInv, DiskTypeOK
    <3>2. meta < MetaKeys => sen = 0
      BY DEF PierInv, NewInv
    <3> QED
      BY <1>5, <1>7, <1>9, <3>1, <3>2 DEF MetaKeys
  <2> QED
    BY <1>1, <2>1 DEF PierInv, NewInv, BatchEnd, MetaKeys
<1>12. PipesInv' /\ MatchInv' /\ WritsInv'
  BY <1>1 DEF PierInv, PipesInv, MatchInv, WritsInv, Negotiates
<1>13. InnInv'
  <2>1. ASSUME NEW i \in 1 .. Len(inn) PROVE Sound(inn[i])'
    <3>1. Sound(inn[i]) /\ inn[i] \in Writ
      BY ElementOfSeq DEF PierInv, InnInv, PierTypeOK, LordTypeOK
    <3>2. inn[i].typ = "play" => inn[i].eve > 0
      BY <3>1 DEF Sound
    <3> DEFINE w == inn[i]
    <3>3. w \in Writ /\ Sound(w) /\ (w.typ = "play" => w.eve > 0) /\ w' = w
      BY <1>1, <3>1, <3>2
    <3> QED
      BY <1>1, <1>7, <3>3, SoundStays DEF Sound
  <2> QED
    BY <1>1, <2>1 DEF InnInv, Sound
<1>14. AgreeInv'
  <2>1. /\ Len(snap) <= LastKey /\ \A i \in 1 .. Len(snap) : snap[i] = db[i]
        /\ serf = "up" => Len(snap) <= Len(core)
        /\ Agrees(core) /\ Len(snap) \in Nat /\ Len(core) \in Nat
    BY LenProperties DEF PierInv, AgreeInv, PierTypeOK, LordTypeOK, Kernel
  <2>2. Len(snap) <= LastKey' /\ \A i \in 1 .. Len(snap) : snap[i] = db'[i]
    BY <1>7, <2>1
  <2>3. Agrees(core)'
    <3>1. ASSUME NEW i \in 1 .. Len(core), i <= LastKey' PROVE core[i] = db'[i]
      <4>1. CASE i <= LastKey
        <5>1. i \in 1 .. LastKey
          BY <1>7, <2>1, <4>1
        <5> QED
          BY <1>7, <2>1, <4>1, <5>1 DEF Agrees
      <4>2. CASE i > LastKey
        <5>1. i - dun \in 1 .. Len(put) /\ dun + (i - dun) = i /\ i - dun \in 1 .. n
          BY <1>4, <1>5, <1>6, <1>7, <2>1, <3>1, <4>2
        <5>2. core[i] = put[i - dun].job
          BY <2>1, <5>1 DEF Agrees
        <5>3. put[i - dun].job = db'[dun + (i - dun)]
          BY <1>1, <1>3, <3>1, <5>1 DEF DiskShape
        <5> QED
          BY <5>1, <5>2, <5>3
      <4> QED
        BY <1>7, <2>1, <4>1, <4>2
    <3> QED
      BY <1>1, <2>1, <3>1 DEF Agrees
  <2>4. ASSUME serf = "up", \E i \in 1 .. Len(inn) : inn[i].typ = "work"
        PROVE  sen <= Len(core) /\ LastKey' <= Len(core)
    <3>1. sen <= Len(core)
      BY <2>4 DEF PierInv, AgreeInv
    <3> QED
      BY <1>7, <2>1, <3>1
  <2> QED
    BY <1>1, <2>1, <2>2, <2>3, <2>4 DEF AgreeInv
<1>15. WorkInv'
  BY <1>1 DEF PierInv, WorkInv, Negotiates
<1>16. PlayInv' /\ BatchInv'
  BY <1>1, <1>9 DEF PlayInv, BatchInv
<1>17. EffsInv'
  <2>1. ASSUME NEW i \in 1 .. Len(effs) PROVE effs[i].eve <= LastKey'
    <3>1. effs[i] \in Fact /\ effs[i].eve <= LastKey
      BY ElementOfSeq DEF PierInv, EffsInv, PierTypeOK
    <3>2. effs[i].eve \in Nat
      BY <3>1 DEF Fact
    <3> QED
      BY <1>7, <3>1, <3>2
  <2> QED
    BY <1>1, <2>1 DEF PierInv, EffsInv, Works
<1>18. BoundInv'
  <2>1. LastKey' <= MaxEve
    BY <1>7, EventsAssumption DEF PierInv, BoundInv
  <2> QED
    BY <1>1, <2>1 DEF PierInv, BoundInv
<1>19. GiftInv' /\ WallInv' /\ OopsInv'
  BY <1>1 DEF PierInv, GiftInv, WallInv, OopsInv, Works
<1> QED
  BY <1>2, <1>8, <1>10, <1>11, <1>12, <1>13, <1>14, <1>15, <1>16, <1>17, <1>18, <1>19 DEF PierInv

LEMMA ThreadInv == PierInv /\ Thread => PierInv'
<1> SUFFICES ASSUME PierInv, Thread PROVE PierInv'
  OBVIOUS
<1>1. CASE DiskThreadStart
  <2>1. ThreadFrame /\ db' = db /\ ted = "queued" /\ ted' = "running"
    BY <1>1 DEF Thread, ThreadFrame, DiskThreadStart
  <2> QED
    BY <2>1, ThreadQuietInv
<1>2. CASE DiskThreadSave
  <2>1. ThreadFrame
    BY <1>2 DEF Thread, ThreadFrame, DiskThreadSave
  <2> QED
    BY <1>2, <2>1, ThreadSavedInv
<1> QED
  BY <1>1, <1>2 DEF Thread

LEMMA ThreadFailInv == PierInv /\ DiskThreadFail /\ UNCHANGED <<lordVars, pierVars>> => PierInv'
<1> SUFFICES ASSUME PierInv, DiskThreadFail, UNCHANGED <<lordVars, pierVars>> PROVE PierInv'
  OBVIOUS
<1>1. ThreadFrame /\ db' = db /\ ted = "running" /\ ted' = "bad"
  BY DEF ThreadFrame, DiskThreadFail
<1> QED
  BY <1>1, ThreadQuietInv

-----------------------------------------------------------------------------
(* The ends of a process.                                                  *)

\* Nothing of the king is left.
KingEnds ==
  /\ LordStop /\ PierForget
  /\ open' = "closed" /\ DiskForget /\ UNCHANGED <<db, meta>>

\* The serf goes on with what is in its pipe, or is killed.
SerfLeft == UNCHANGED <<inn, serf, core>>
SerfKilled == serf' = "dead" /\ inn' = <<>> /\ core' = <<>>

LEMMA KingEndsInv ==
  ASSUME PierInv, KingEnds, SerfLeft \/ SerfKilled, UNCHANGED <<snap, fault>>, OopsInv'
  PROVE  PierInv'
<1>0. DiskShape
  BY DiskShaped DEF PierInv
<1>1. /\ god' = "none" /\ eve' = 0 /\ writs' = <<>> /\ out' = <<>>
      /\ sat' = "down" /\ pay' = NoPlay /\ ova' = <<>> /\ pec' = 0 /\ gifts' = <<>>
      /\ rel' = 0 /\ walls' = <<>> /\ effs' = effs
      /\ open' = "closed" /\ sen' = 0 /\ dun' = 0 /\ put' = <<>> /\ red' = <<>>
      /\ ted' = "idle" /\ req' = NoReq /\ db' = db /\ meta' = meta
      /\ snap' = snap /\ fault' = fault /\ LastKey' = LastKey
  BY LastKeySame DEF KingEnds, LordStop, PierForget, DiskForget
<1>2. DiskInv'
  <2>1. CASE open = "closed"
    <3>1. UNCHANGED diskVars
      BY <1>1, <2>1 DEF PierInv, DiskInv, ClosedIsForgotten, diskVars
    <3> QED
      BY <3>1, DiskSame DEF PierInv
  <2>2. CASE open # "closed"
    BY <1>1, <2>2, ForgetInv DEF PierInv, KingEnds
  <2> QED
    BY <2>1, <2>2
<1>3. /\ inn' = inn \/ inn' = <<>>
      /\ core' = core \/ core' = <<>>
      /\ \/ serf' = serf /\ inn' = inn /\ core' = core
         \/ serf' = "dead" /\ inn' = <<>> /\ core' = <<>>
  BY DEF SerfLeft, SerfKilled
<1>4. PierTypeOK'
  <2>1. DiskTypeOK'
    BY <1>2 DEF DiskInv
  <2>2. LordTypeOK'
    <3>1. 0 \in 0 .. MaxWord
      BY LordAssumption
    <3>2. inn' \in Seq(Writ) /\ core' \in Kernel /\ serf' \in {"dead", "boot", "up"}
      <4>1. <<>> \in Seq(Writ) /\ <<>> \in Kernel
        BY DEF Kernel
      <4> QED
        BY <1>3, <4>1 DEF PierInv, PierTypeOK, LordTypeOK
    <3> QED
      BY <1>1, <3>1, <3>2 DEF PierInv, PierTypeOK, LordTypeOK
  <2>3. NoPlay \in [eve : Nat, sen : Nat, req : Nat, q : Seq(Fact)]
    BY DEF NoPlay
  <2>4. oops' \in {"none", "null", "ahead", "barrier", "state", "replay", "plan",
                   "release", "freed", "read", "exit"}
    BY DEF OopsInv
  <2> QED
    BY <1>1, <2>1, <2>2, <2>3, <2>4 DEF PierInv, PierTypeOK
<1>5. ModeInv' /\ NewInv'
  BY <1>1 DEF PierInv, ModeInv, NewInv, Works
<1>6. PipesInv' /\ MatchInv' /\ WritsInv'
  BY <1>1, <1>3 DEF PierInv, PipesInv, MatchInv, WritsInv
<1>7. InnInv'
  <2>1. ASSUME NEW i \in 1 .. Len(inn) PROVE Sound(inn[i]) /\ (inn' = inn => Sound(inn[i])')
    BY <1>1 DEF PierInv, InnInv, Sound
  <2>2. ASSUME inn' = inn, NEW i \in 1 .. Len(inn') PROVE Sound(inn[i])'
    BY <2>1, <2>2
  <2> QED
    BY <1>3, <2>2 DEF InnInv
<1>8. AgreeInv'
  <2>1. Agrees(core)'
    BY <1>0, <1>1, <1>3 DEF PierInv, AgreeInv, Agrees, DiskShape
  <2>2. ASSUME serf' = "up"
        PROVE  Len(snap) <= Len(core')
    BY <1>3, <2>2 DEF PierInv, AgreeInv
  <2>3. ASSUME serf' = "up", \E i \in 1 .. Len(inn') : inn'[i].typ = "work"
        PROVE  0 <= Len(core') /\ LastKey <= Len(core')
    <3>1. LastKey <= Len(core') /\ LastKey \in Nat /\ Len(core') \in Nat
      BY <1>0, <1>3, <2>3, LenProperties DEF PierInv, AgreeInv, DiskShape, PierTypeOK, LordTypeOK, Kernel
    <3> QED
      BY <3>1
  <2> QED
    BY <1>1, <2>1, <2>2, <2>3 DEF PierInv, AgreeInv
<1>9. WorkInv' /\ PlayInv' /\ BatchInv' /\ GiftInv' /\ WallInv'
  BY <1>1 DEF WorkInv, PlayInv, BatchInv, GiftInv, WallInv, Works
<1>10. EffsInv'
  BY <1>1 DEF PierInv, EffsInv, Works
<1>11. BoundInv'
  <2>1. 0 <= MaxEve /\ LastKey <= MaxEve
    BY EventsAssumption DEF PierInv, BoundInv
  <2>2. ASSUME serf' # "dead"
        PROVE  \E b : Budget(inn', Len(core'), b) /\ b[Len(inn')] + Len(ova') <= MaxEve
    <3>1. PICK b : Budget(inn, Len(core), b) /\ b[Len(inn)] + Len(ova) <= MaxEve
      BY <1>3, <2>2 DEF PierInv, BoundInv
    <3>2. Len(inn) \in Nat /\ Len(ova) \in Nat
      BY LenProperties DEF PierInv, PierTypeOK, LordTypeOK
    <3>3. b[Len(inn)] \in 0 .. MaxEve
      <4>1. Len(inn) \in 0 .. Len(inn)
        BY <3>2
      <4> QED
        BY <3>1, <4>1 DEF Budget
    <3>4. b[Len(inn)] + 0 <= MaxEve /\ Len(ova') = 0
      BY <1>1, <3>1, <3>2, <3>3, EventsAssumption
    <3> QED
      BY <1>3, <2>2, <3>1, <3>4
  <2> QED
    BY <1>1, <2>1, <2>2 DEF BoundInv
<1> QED
  BY <1>2, <1>4, <1>5, <1>6, <1>7, <1>8, <1>9, <1>10, <1>11 DEF PierInv

\* u3_pier_bail while a thread writes: the loop spins in u3_disk_exit for ever,
\* without a serf.
LEMMA KingHangsInv ==
  ASSUME PierInv, LordStop, SerfKilled, sat # "down", open # "closed",
         ted \notin {"idle", "queued"}, open' = "hung",
         UNCHANGED <<db, meta, sen, dun, put, ted, req, red, snap, fault, pierVars>>
  PROVE  PierInv'
<1>0. DiskShape
  BY DiskShaped DEF PierInv
<1>1. /\ god' = "none" /\ eve' = 0 /\ writs' = <<>> /\ out' = <<>>
      /\ serf' = "dead" /\ inn' = <<>> /\ core' = <<>> /\ snap' = snap /\ fault' = fault
      /\ UNCHANGED <<db, meta, sen, dun, put, ted, req, red>> /\ open' = "hung"
      /\ UNCHANGED <<sat, pay, ova, pec, gifts, rel, walls, effs, oops>> /\ LastKey' = LastKey
  BY LastKeySame DEF LordStop, SerfKilled, pierVars, workVars
<1>2. sat \notin {"down", "init", "play", "wyrd"}
  <2>1. sen # dun
    <3>1. PICK n \in 1 .. Len(put) : dun + n <= sen
      BY BatchOfQueue DEF PierInv, BatchShape
    <3> QED
      BY <1>0, <3>1 DEF DiskShape
  <2> QED
    BY <2>1 DEF PierInv, ModeInv
<1>3. DiskInv'
  <2>1. /\ meta \in 0 .. MetaKeys /\ red \in Seq(Read)
        /\ ted \in {"idle", "queued", "running", "good", "bad"}
    BY DEF PierInv, DiskInv, DiskTypeOK
  <2> QED
    BY <1>1, <2>1, QuietInv DEF PierInv
<1>4. PierTypeOK'
  <2>1. DiskTypeOK'
    BY <1>3 DEF DiskInv
  <2>2. LordTypeOK'
    <3>1. 0 \in 0 .. MaxWord
      BY LordAssumption
    <3> QED
      BY <1>1, <3>1 DEF PierInv, PierTypeOK, LordTypeOK, Kernel
  <2> QED
    BY <1>1, <2>1, <2>2 DEF PierInv, PierTypeOK
<1>5. ModeInv'
  BY <1>1, <1>2 DEF PierInv, ModeInv, Works
<1>6. NewInv'
  BY <1>1, <1>2 DEF PierInv, NewInv, BatchEnd
<1>7. PipesInv' /\ MatchInv' /\ WritsInv' /\ InnInv' /\ WorkInv'
  BY <1>1 DEF PipesInv, MatchInv, WritsInv, InnInv, WorkInv
<1>8. AgreeInv'
  BY <1>1 DEF PierInv, AgreeInv, Agrees
<1>9. PlayInv' /\ BatchInv'
  BY <1>1, <1>2 DEF PlayInv, BatchInv
<1>10. GiftInv' /\ EffsInv' /\ OopsInv'
  BY <1>1 DEF PierInv, GiftInv, EffsInv, OopsInv, Works
<1>11. WallInv'
  BY <1>1 DEF PierInv, WallInv
<1>12. BoundInv'
  BY <1>1, <1>2 DEF PierInv, BoundInv
<1> QED
  BY <1>3, <1>4, <1>5, <1>6, <1>7, <1>8, <1>9, <1>10, <1>11, <1>12 DEF PierInv

\* u3_pier_bail, from any callback of the loop.
LEMMA PierBailInv ==
  ASSUME PierInv, Loop, PierBail
  PROVE  PierInv'
<1>1. /\ LordStop /\ SerfKilled /\ UNCHANGED <<snap, fault, oops>>
      /\ sat # "down" /\ open \in {"closed", "live"}
  BY DEF PierBail, LordHalt, SerfKilled, Loop, PierInv, DiskInv, DiskTypeOK
<1>2. OopsInv'
  BY <1>1 DEF PierInv, OopsInv
<1>3. CASE open = "closed"
  <2>1. KingEnds
    BY <1>1, <1>3 DEF PierInv, DiskInv, ClosedIsForgotten, PierBail, KingEnds, DiskForget, diskVars
  <2> QED
    BY <1>1, <1>2, <2>1, KingEndsInv
<1>4. CASE open # "closed" /\ ted \in {"idle", "queued"}
  <2>1. KingEnds
    BY <1>1, <1>4 DEF PierBail, DiskExit, KingEnds
  <2> QED
    BY <1>1, <1>2, <2>1, KingEndsInv
<1>5. CASE open # "closed" /\ ted \notin {"idle", "queued"}
  <2>1. open' = "hung" /\ UNCHANGED <<db, meta, sen, dun, put, ted, req, red, pierVars>>
    BY <1>1, <1>5 DEF PierBail, DiskExit, pierVars
  <2> QED
    BY <1>1, <1>5, <2>1, KingHangsInv
<1> QED
  BY <1>3, <1>4, <1>5

\* SIGKILL, and the failure of a write.
LEMMA KingCrashInv == PierInv /\ KingCrash => PierInv'
<1> SUFFICES ASSUME PierInv, KingCrash PROVE PierInv'
  OBVIOUS
<1>1. KingEnds /\ SerfLeft /\ UNCHANGED <<snap, fault, oops>>
  BY DEF KingCrash, KingEnds, SerfLeft, LordOrphan, DiskCrash
<1>2. OopsInv'
  BY <1>1 DEF PierInv, OopsInv
<1> QED
  BY <1>1, <1>2, KingEndsInv

LEMMA WriteBailInv == PierInv /\ WriteBail => PierInv'
<1> SUFFICES ASSUME PierInv, WriteBail PROVE PierInv'
  OBVIOUS
<1>1. KingEnds /\ SerfKilled /\ UNCHANGED <<snap, fault, oops>>
  BY DEF WriteBail, KingEnds, SerfKilled, LordHalt, DiskCrash
<1>2. OopsInv'
  BY <1>1 DEF PierInv, OopsInv
<1> QED
  BY <1>1, <1>2, KingEndsInv

\* An assertion fails.
LEMMA AbortInv ==
  ASSUME PierInv, NEW why \in {"null", "barrier", "state", "exit"}, Abort(why),
         why = "null" => ExitStates \cap {"init", "boot"} # {},
         why = "barrier" => Tils # {0},
         why = "state" => "play" \in ExitStates,
         why = "exit" => "wyrd" \in ExitStates
  PROVE  PierInv'
<1>1. KingEnds /\ SerfLeft /\ UNCHANGED <<snap, fault>> /\ oops' = why
  BY DEF Abort, KingEnds, SerfLeft, LordOrphan, DiskCrash
<1>2. OopsInv'
  BY <1>1 DEF OopsInv
<1> QED
  BY <1>1, <1>2, KingEndsInv

-----------------------------------------------------------------------------
(* The king's side of the pipes.                                           *)

\* The writs and pleas that are left when the king has heard nothing, an
\* answer, or that the serf is up.
KingHas(ws, os) ==
  \/ god = "live" /\ ws = writs /\ os = out
  \/ god = "live" /\ out # <<>> /\ writs # <<>> /\ ws = Tail(writs) /\ os = Tail(out)
  \/ god = "init" /\ sat # "gone" /\ out # <<>> /\ ws = writs /\ os = Tail(out)

LEMMA KingHasIs ==
  ASSUME PierInv, NEW ws, NEW os, KingHas(ws, os)
  PROVE  /\ ws \in Seq(Writ) /\ os \in Seq(Plea) /\ inn \in Seq(Writ)
         /\ Matched(ws, os) /\ (serf = "up" => Queued(ws, os, inn)) /\ serf # "boot"
         /\ god = "init" => ws = <<>> /\ os = <<>> /\ inn = <<>>
<1>1. writs \in Seq(Writ) /\ out \in Seq(Plea) /\ inn \in Seq(Writ)
  BY DEF PierInv, PierTypeOK, LordTypeOK
<1>2. CASE god = "live" /\ ws = writs /\ os = out
  BY <1>1, <1>2 DEF PierInv, MatchInv, PipesInv
<1>3. CASE god = "live" /\ out # <<>> /\ writs # <<>> /\ ws = Tail(writs) /\ os = Tail(out)
  <2>1. Matched(writs, out) /\ (serf = "up" => Queued(writs, out, inn)) /\ serf # "boot"
    BY <1>3 DEF PierInv, MatchInv, PipesInv
  <2>2. Matched(Tail(writs), Tail(out))
    BY <1>1, <1>3, <2>1, MatchedTail
  <2>3. serf = "up" => Queued(Tail(writs), Tail(out), inn)
    BY <1>1, <1>3, <2>1, QueuedTail
  <2>4. Tail(writs) \in Seq(Writ) /\ Tail(out) \in Seq(Plea)
    BY <1>1, <1>3, TailIs
  <2> QED
    BY <1>1, <1>3, <2>1, <2>2, <2>3, <2>4
<1>4. CASE god = "init" /\ sat # "gone" /\ out # <<>> /\ ws = writs /\ os = Tail(out)
  <2>1. writs = <<>> /\ inn = <<>> /\ Len(out) <= 1 /\ serf # "boot"
    BY <1>4 DEF PierInv, PipesInv
  <2>2. Tail(out) \in Seq(Plea) /\ Len(Tail(out)) = Len(out) - 1 /\ Len(out) \in Nat /\ Len(out) >= 1
    BY <1>1, <1>4, TailIs
  <2>3. Tail(out) = <<>>
    <3>1. Len(Tail(out)) = 0
      BY <2>1, <2>2
    <3> QED
      BY <2>2, <3>1, EmptySeq
  <2>4. Matched(<<>>, <<>>) /\ Queued(<<>>, <<>>, <<>>)
    BY DEF Matched, Queued
  <2> QED
    BY <1>1, <1>4, <2>1, <2>2, <2>3, <2>4
<1> QED
  BY <1>2, <1>3, <1>4 DEF KingHas

\* The king sends the writs ms.
LEMMA KingSends ==
  ASSUME PierInv, NEW ws, NEW os, KingHas(ws, os), NEW ms \in Seq(Writ),
         \A i \in 1 .. Len(ms) : Sound(ms[i]),
         god' = "live", out' = os, LordPlan(ws, ms), eve' \in 0 .. MaxWord,
         UNCHANGED <<serf, core, snap, fault, db>>
  PROVE  LordTypeOK' /\ PipesInv' /\ MatchInv' /\ InnInv'
<1>1. /\ ws \in Seq(Writ) /\ os \in Seq(Plea) /\ inn \in Seq(Writ)
      /\ Matched(ws, os) /\ (serf = "up" => Queued(ws, os, inn)) /\ serf # "boot"
  BY KingHasIs
<1>2. writs' = ws \o ms /\ inn' = inn \o ms /\ LastKey' = LastKey
  BY LastKeySame DEF LordPlan
<1>3. ws \o ms \in Seq(Writ) /\ inn \o ms \in Seq(Writ)
  BY <1>1, JoinIs
<1>4. LordTypeOK'
  BY <1>1, <1>2, <1>3 DEF PierInv, PierTypeOK, LordTypeOK
<1>5. PipesInv'
  BY <1>1 DEF PierInv, PipesInv
<1>6. MatchInv'
  <2>1. Matched(ws \o ms, os)
    BY <1>1, MatchedSend
  <2>2. serf = "up" => Queued(ws \o ms, os, inn \o ms)
    BY <1>1, QueuedSend
  <2> QED
    BY <1>2, <2>1, <2>2 DEF MatchInv
<1>7. InnInv'
  <2> DEFINE T == {w \in Writ : Sound(w)}
  <2>1. \A i \in 1 .. Len(inn) : inn[i] \in T
    BY <1>1, ElementOfSeq DEF PierInv, InnInv
  <2>2. \A i \in 1 .. Len(ms) : ms[i] \in T
    BY ElementOfSeq
  <2>3. \A i \in 1 .. Len(inn \o ms) : (inn \o ms)[i] \in T
    <3> HIDE DEF T
    <3> QED
      BY <1>1, <2>1, <2>2, JoinAll
  <2>4. ASSUME NEW i \in 1 .. Len(inn') PROVE Sound(inn[i])'
    <3>1. Sound((inn \o ms)[i])
      BY <1>2, <2>3
    <3> QED
      BY <1>2, <3>1 DEF Sound
  <2> QED
    BY <2>4 DEF InnInv
<1> QED
  BY <1>4, <1>5, <1>6, <1>7

\* A kernel that is to compute new events has computed all that is planned.
EventsAhead ==
  serf = "up" /\ (\E i \in 1 .. Len(inn) : inn[i].typ = "work") =>
    sen <= Len(core) /\ LastKey <= Len(core)

LEMMA EventsAreAhead ==
  /\ DiskShape /\ PierTypeOK /\ god = "live"
  /\ ModeInv /\ NewInv /\ MatchInv /\ WritsInv /\ BatchInv /\ WorkInv
  => EventsAhead
<1> SUFFICES ASSUME DiskShape, PierTypeOK, god = "live",
                    ModeInv, NewInv, MatchInv, WritsInv, BatchInv, WorkInv,
                    serf = "up", NEW i \in 1 .. Len(inn), inn[i].typ = "work"
             PROVE  sen <= Len(core) /\ LastKey <= Len(core)
  BY DEF EventsAhead
<1>1. /\ Len(writs) \in Nat /\ Len(out) \in Nat /\ Len(inn) \in Nat /\ Len(core) \in Nat
      /\ sat \in {"down", "init", "boot", "play", "wyrd", "work", "done", "gone"}
  BY LenProperties DEF PierTypeOK, LordTypeOK, Kernel
<1>2. Len(out) + i \in 1 .. Len(writs) /\ writs[Len(out) + i].typ = "work"
  <2>1. Len(writs) = Len(out) + Len(inn) /\ inn[i] = writs[Len(out) + i]
    BY DEF MatchInv, Queued
  <2> QED
    BY <1>1, <2>1
<1>3. sat # "down" /\ sat # "init"
  BY DEF ModeInv
<1>4. sat # "boot"
  BY <1>1 DEF NewInv
<1>5. sat # "gone"
  BY <1>2 DEF WritsInv
<1>6. sat # "play"
  <2>1. ~Batches(writs, eve, pay.sen)
    BY <1>2 DEF Batches
  <2>2. Len(writs) = 1 => Len(out) + i = 1
    BY <1>1, <1>2
  <2> QED
    BY <1>2, <2>1, <2>2 DEF BatchInv
<1>7. Negotiates
  BY <1>1, <1>3, <1>4, <1>5, <1>6 DEF Negotiates
<1>8. PICK c : Course(out, sen, c) /\ Facts(out, writs, core, c)
  BY <1>7 DEF WorkInv
<1>9. sen <= Len(core)
  <2>1. 0 \in 0 .. Len(out) /\ Len(out) \in 0 .. Len(out)
    BY <1>1
  <2>2. c[0] = sen /\ c[0] <= c[Len(out)]
    BY <1>1, <1>8, <2>1 DEF Course
  <2> QED
    BY <1>8, <2>2 DEF Facts
<1>10. LastKey <= sen /\ sen \in Nat /\ LastKey \in Nat
  BY <1>3, <1>5 DEF ModeInv, DiskShape
<1> QED
  BY <1>1, <1>9, <1>10

LEMMA EventsAreAheadNext ==
  /\ DiskShape' /\ PierTypeOK' /\ (god = "live")'
  /\ ModeInv' /\ NewInv' /\ MatchInv' /\ WritsInv' /\ BatchInv' /\ WorkInv'
  => EventsAhead'
BY EventsAreAhead, PTL

\* What is left to show of a step that leaves the serf and the log alone.
LEMMA AgreeNext ==
  ASSUME PierInv, UNCHANGED <<serf, core, snap, db>>, Agrees(core)', EventsAhead'
  PROVE  AgreeInv'
<1>1. LastKey' = LastKey
  BY LastKeySame
<1> QED
  BY <1>1 DEF PierInv, AgreeInv, EventsAhead

-----------------------------------------------------------------------------
(* The work loop.                                                          *)

\* _pier_gift_next releases the effects of what has become durable, and its
\* assertion holds.
LEMMA GiftsAre ==
  ASSUME NEW gs \in Seq(Fact), NEW b \in Nat, NEW e \in Nat, Len(gs) = e - b,
         \A i \in 1 .. Len(gs) : gs[i].eve = b + i, NEW d \in b .. e
  PROVE  /\ Kept(gs, d) \in Seq(Fact) /\ Len(Kept(gs, d)) = e - d
         /\ \A i \in 1 .. Len(Kept(gs, d)) : /\ d - b + i \in 1 .. Len(gs)
                                             /\ Kept(gs, d)[i] = gs[d - b + i]
         /\ Released(gs, d) \in Seq(Fact) /\ Len(Released(gs, d)) = d - b
         /\ \A i \in 1 .. d - b : i \in 1 .. Len(gs) /\ Released(gs, d)[i] = gs[i]
         /\ rel = b => WorkFault(gs, d) = "none"
<1> DEFINE n == d - b
           t == SubSeq(gs, n + 1, Len(gs))
           r == SubSeq(gs, 1, n)
<1>1. Len(gs) \in Nat /\ n \in 0 .. Len(gs) /\ d = b + n /\ b <= e
  BY LenProperties
<1>2. Kept(gs, d) = t
  <2>1. DiskTrim(gs, b + n) = SubSeq(gs, n + 1, Len(gs))
    <3> HIDE DEF n
    <3> QED
      BY <1>1, TrimDropsDurable
  <2> QED
    BY <1>1, <2>1 DEF Kept
<1>3. \A i \in 1 .. Len(gs) : gs[i] \in Fact
  BY ElementOfSeq
<1> HIDE DEF n
<1>4. t \in Seq(Fact) /\ Len(t) = Len(gs) - n /\ \A i \in 1 .. Len(gs) - n : t[i] = gs[n + i]
  <2>1. \A i \in n + 1 .. Len(gs) : gs[i] \in Fact
    BY <1>1, <1>3
  <2>2. /\ t \in Seq(Fact)
        /\ Len(t) = IF n + 1 <= Len(gs) THEN Len(gs) - (n + 1) + 1 ELSE 0
        /\ \A i \in 1 .. Len(gs) - (n + 1) + 1 : t[i] = gs[(n + 1) + i - 1]
    <3>1. n + 1 \in Int /\ Len(gs) \in Int
      BY <1>1
    <3> QED
      BY <2>1, <3>1, SubSeqProperties
  <2> HIDE DEF t
  <2>3. Len(t) = Len(gs) - n
    <3> DEFINE l == Len(gs)
    <3>1. l \in Nat /\ n \in 0 .. l /\ Len(t) = IF n + 1 <= l THEN l - (n + 1) + 1 ELSE 0
      BY <1>1, <2>2
    <3> HIDE DEF l
    <3>2. Len(t) = l - n
      BY <3>1
    <3> QED
      BY <3>2 DEF l
  <2>4. ASSUME NEW i \in 1 .. Len(gs) - n PROVE t[i] = gs[n + i]
    <3>1. i \in 1 .. Len(gs) - (n + 1) + 1 /\ (n + 1) + i - 1 = n + i
      BY <1>1
    <3> QED
      BY <2>2, <3>1
  <2> QED
    BY <2>2, <2>3, <2>4
<1> HIDE DEF t
<1>5. Kept(gs, d) \in Seq(Fact) /\ Len(Kept(gs, d)) = e - d
  BY <1>1, <1>2, <1>4 DEF n
<1>6. \A i \in 1 .. Len(Kept(gs, d)) : /\ d - b + i \in 1 .. Len(gs)
                                       /\ Kept(gs, d)[i] = gs[d - b + i]
  BY <1>1, <1>2, <1>4 DEF n
<1>7. Released(gs, d) = r
  <2>1. Len(gs) - Len(Kept(gs, d)) = n
    <3> DEFINE l == Len(gs)
    <3>1. l \in Nat /\ n \in 0 .. l /\ Len(Kept(gs, d)) = l - n
      BY <1>1, <1>2, <1>4
    <3> HIDE DEF l
    <3>2. l - Len(Kept(gs, d)) = n
      BY <3>1
    <3> QED
      BY <3>2 DEF l
  <2> QED
    BY <2>1 DEF Released
<1>8. r \in Seq(Fact) /\ Len(r) = n /\ \A i \in 1 .. n : r[i] = gs[i]
  <2>1. \A i \in 1 .. n : gs[i] \in Fact
    BY <1>1, <1>3
  <2>2. /\ r \in Seq(Fact)
        /\ Len(r) = IF 1 <= n THEN n - 1 + 1 ELSE 0
        /\ \A i \in 1 .. n - 1 + 1 : r[i] = gs[1 + i - 1]
    BY <1>1, <2>1, SubSeqProperties
  <2> HIDE DEF r
  <2>3. Len(r) = n
    BY <1>1, <2>2
  <2>4. ASSUME NEW i \in 1 .. n PROVE r[i] = gs[i]
    <3>1. i \in 1 .. n - 1 + 1 /\ 1 + i - 1 = i
      BY <1>1
    <3> QED
      BY <2>2, <3>1
  <2> QED
    BY <2>2, <2>3, <2>4
<1> HIDE DEF r
<1>9. /\ Released(gs, d) \in Seq(Fact) /\ Len(Released(gs, d)) = d - b
      /\ \A i \in 1 .. d - b : i \in 1 .. Len(gs) /\ Released(gs, d)[i] = gs[i]
  BY <1>1, <1>7, <1>8 DEF n
<1>10. ASSUME rel = b PROVE WorkFault(gs, d) = "none"
  <2>1. ASSUME NEW i \in DOMAIN Released(gs, d) PROVE Released(gs, d)[i].eve = rel + i
    <3>1. i \in 1 .. d - b
      BY <1>9, <2>1, LenProperties
    <3> QED
      BY <1>9, <1>10, <3>1
  <2> QED
    BY <2>1 DEF WorkFault
<1> QED
  BY <1>5, <1>6, <1>9, <1>10

\* A queue of which nothing is durable is kept.
LEMMA GiftsStay ==
  ASSUME NEW gs \in Seq(Fact), NEW b \in Nat, NEW e \in Nat, Len(gs) = e - b,
         \A i \in 1 .. Len(gs) : gs[i].eve = b + i, b <= e
  PROVE  Kept(gs, b) = gs
<1>1. /\ Kept(gs, b) \in Seq(Fact) /\ Len(Kept(gs, b)) = e - b
      /\ \A i \in 1 .. Len(Kept(gs, b)) : Kept(gs, b)[i] = gs[b - b + i]
  <2>1. b \in b .. e
    OBVIOUS
  <2> QED
    BY <2>1, GiftsAre
<1>2. \A i \in 1 .. Len(gs) : Kept(gs, b)[i] = gs[i]
  <2> SUFFICES ASSUME NEW i \in 1 .. Len(gs) PROVE Kept(gs, b)[i] = gs[i]
    OBVIOUS
  <2>1. i \in 1 .. Len(Kept(gs, b)) /\ b - b + i = i
    BY <1>1, LenProperties
  <2> QED
    BY <1>1, <2>1
<1> DEFINE k == Kept(gs, b)
<1>3. k \in Seq(Fact) /\ Len(k) = Len(gs) /\ \A i \in 1 .. Len(gs) : k[i] = gs[i]
  BY <1>1, <1>2
<1> HIDE DEF k
<1>4. k = gs
  BY <1>3, SeqEqual
<1> QED
  BY <1>4 DEF k

\* The batch that _pier_work_send sends: events and scries, of which the events
\* are as many as leave the drivers' queue.
LEMMA WorkBatchIs ==
  ASSUME PierInv, NEW len \in Nat
  PROVE  /\ WorkBatchOf(len) \in Seq(Writ) /\ Len(WorkBatchOf(len)) = Sent(len)
         /\ \A i \in 1 .. Len(WorkBatchOf(len)) :
              /\ WorkBatchOf(len)[i].typ \in {"work", "peek"}
              /\ WorkBatchOf(len)[i].typ = "work" => Len(WorkBatchOf(len)[i].jobs) = 1
         /\ SentOva(len) \in 0 .. Len(ova) /\ Sent(len) \in 0 .. len
         /\ pec - (Sent(len) - SentOva(len)) \in Nat
         /\ len = 0 => SentOva(len) = 0 /\ WorkBatchOf(len) = <<>>
         /\ \E g \in [0 .. Sent(len) -> Nat] :
              /\ g[0] = 0 /\ g[Sent(len)] <= SentOva(len)
              /\ \A i, j \in 0 .. Sent(len) : i <= j => g[i] <= g[j]
              /\ \A i \in 1 .. Sent(len) : g[i - 1] + Cost(WorkBatchOf(len)[i]) <= g[i]
<1> DEFINE n == Sent(len)
           l == Len(ova)
           p == Pairs
           m == WorkBatchOf(len)
           s == SentOva(len)
           w(i) == IsWork(i)
           k(i) == IF i <= 2 * p THEN (i + 1) \div 2 ELSE i - p
           u(i) == IF w(i) THEN WorkWrit(ova[k(i)]) ELSE BareWrit("peek")
<1>1. l \in Nat /\ pec \in Nat /\ ova \in Seq(Ova)
  BY LenProperties DEF PierInv, PierTypeOK
<1>2. p = IF l < pec THEN l ELSE pec
  BY DEF Pairs, Lesser
<1>3. n = IF len < l + pec THEN len ELSE l + pec
  BY DEF Sent, Lesser
<1>4. p \in Nat /\ n \in Nat /\ n <= len /\ n <= l + pec
  BY <1>1, <1>2, <1>3
<1>5. \A i \in 1 .. n : w(i) <=> (IF i <= 2 * p THEN i % 2 = 1 ELSE l > pec)
  BY DEF IsWork
<1>6. m = [i \in 1 .. n |-> u(i)]
  BY DEF WorkBatchOf
<1>7. s = LET x == (n + 1) \div 2
              y == n - pec
              z == IF x < y THEN y ELSE x
          IN  IF l < z THEN l ELSE z
  BY DEF SentOva, Lesser, Greater
<1> HIDE DEF n, l, p, m, s, w
<1>8. s \in 0 .. l /\ pec - (n - s) \in Nat /\ (len = 0 => s = 0)
  BY <1>1, <1>4, <1>7
<1>9. ASSUME NEW i \in 1 .. n, w(i) PROVE k(i) \in 1 .. l
  <2>1. CASE i <= 2 * p
    <3>1. (i + 1) \div 2 \in 1 .. p
      BY <1>4, <2>1
    <3> QED
      BY <1>1, <1>2, <2>1, <3>1
  <2>2. CASE ~(i <= 2 * p)
    <3>1. l > pec
      BY <1>5, <1>9, <2>2
    <3> QED
      BY <1>1, <1>2, <1>4, <2>2, <3>1
  <2> QED
    BY <2>1, <2>2
<1>10. ASSUME NEW i \in 1 .. n
       PROVE  /\ u(i) \in Writ /\ u(i).typ \in {"work", "peek"}
              /\ u(i).typ = "work" => Len(u(i).jobs) = 1
              /\ u(i).typ = "work" <=> w(i)
  <2>1. 0 \in 0 .. MaxWord
    BY LordAssumption
  <2>2. CASE w(i)
    <3>1. ova[k(i)] \in Job
      <4>1. k(i) \in 1 .. Len(ova)
        BY <1>9, <2>2 DEF l
      <4> HIDE DEF k
      <4>2. ova[k(i)] \in Ova
        BY <1>1, <4>1, ElementOfSeq
      <4> QED
        BY <4>2, PierAssumption
    <3> DEFINE j == ova[k(i)]
    <3>2. u(i) = WorkWrit(j) /\ j \in Job
      BY <2>2, <3>1
    <3> HIDE DEF j, u, k
    <3>3. WorkWrit(j) \in Writ /\ WorkWrit(j).typ = "work" /\ Len(WorkWrit(j).jobs) = 1
      BY <2>1, <3>2 DEF WorkWrit, Writ
    <3> QED
      BY <2>2, <3>2, <3>3
  <2>3. CASE ~w(i)
    <3>1. BareWrit("peek") \in Writ /\ BareWrit("peek").typ = "peek"
      BY <2>1 DEF BareWrit, Writ
    <3>2. u(i) = BareWrit("peek")
      BY <2>3
    <3> HIDE DEF u
    <3> QED
      BY <2>3, <3>1, <3>2
  <2> QED
    BY <2>2, <2>3
<1> HIDE DEF u
<1>11. /\ m \in Seq(Writ) /\ Len(m) = n
       /\ \A i \in 1 .. n : /\ m[i].typ \in {"work", "peek"} /\ (m[i].typ = "work" <=> w(i))
                            /\ m[i].typ = "work" => Len(m[i].jobs) = 1
  BY <1>4, <1>6, <1>10
<1>12. len = 0 => m = <<>>
  BY <1>4, <1>11, EmptySeq
<1> DEFINE h(i) == IF i <= 2 * p THEN (i + 1) \div 2 ELSE IF l > pec THEN i - p ELSE p
           g == [i \in 0 .. n |-> h(i)]
<1>13. \A i \in 0 .. n : h(i) \in Nat
  BY <1>1, <1>4
<1>14. g \in [0 .. n -> Nat] /\ \A i \in 0 .. n : g[i] = h(i)
  BY <1>13
<1>15. \A i, j \in 0 .. n : i <= j => h(i) <= h(j)
  BY <1>1, <1>2, <1>4
<1>16. h(0) = 0 /\ h(n) <= s
  BY <1>1, <1>2, <1>4, <1>7
<1>17. ASSUME NEW i \in 1 .. n PROVE h(i - 1) + Cost(m[i]) <= h(i)
  <2>1. Cost(m[i]) = IF w(i) THEN 1 ELSE 0
    BY <1>11 DEF Cost
  <2>2. CASE i <= 2 * p
    <3>1. (w(i) <=> i % 2 = 1) /\ h(i) = (i + 1) \div 2 /\ h(i - 1) = ((i - 1) + 1) \div 2
      BY <1>4, <1>5, <2>2
    <3> HIDE DEF h
    <3>2. CASE i % 2 = 1
      <4>1. ((i - 1) + 1) \div 2 + 1 <= (i + 1) \div 2
        BY <3>2
      <4> QED
        BY <2>1, <3>1, <3>2, <4>1
    <3>3. CASE ~(i % 2 = 1)
      <4>1. ((i - 1) + 1) \div 2 + 0 <= (i + 1) \div 2
        OBVIOUS
      <4> QED
        BY <2>1, <3>1, <3>3, <4>1
    <3> QED
      BY <3>2, <3>3
  <2>3. CASE ~(i <= 2 * p)
    <3>1. w(i) <=> l > pec
      BY <1>5, <2>3
    <3>2. h(i) = IF l > pec THEN i - p ELSE p
      BY <2>3
    <3>3. h(i - 1) <= IF l > pec THEN i - p - 1 ELSE p
      BY <1>1, <1>2, <1>4, <2>3
    <3>4. h(i - 1) \in Nat /\ h(i) \in Nat
      BY <1>4, <1>13
    <3> HIDE DEF h
    <3> QED
      BY <1>4, <2>1, <3>1, <3>2, <3>3, <3>4
  <2> QED
    BY <2>2, <2>3
<1> HIDE DEF g, h
<1>18. /\ g \in [0 .. n -> Nat] /\ g[0] = 0 /\ g[n] <= s
       /\ \A i, j \in 0 .. n : i <= j => g[i] <= g[j]
       /\ \A i \in 1 .. n : g[i - 1] + Cost(m[i]) <= g[i]
  <2>1. 0 \in 0 .. n /\ n \in 0 .. n
    BY <1>4
  <2>2. ASSUME NEW i \in 1 .. n PROVE g[i - 1] + Cost(m[i]) <= g[i]
    <3>1. i - 1 \in 0 .. n /\ i \in 0 .. n
      BY <1>4
    <3> QED
      BY <1>14, <1>17, <3>1
  <2> QED
    BY <1>14, <1>15, <1>16, <2>1, <2>2
<1>19. n \in 0 .. len
  BY <1>4
<1> QED
  BY <1>8, <1>11, <1>12, <1>18, <1>19 DEF n, l, m, s

\* The writs ms bring at most n events.
Priced(ms, n) ==
  \E g \in [0 .. Len(ms) -> Nat] :
    /\ g[0] = 0 /\ g[Len(ms)] <= n
    /\ \A i, j \in 0 .. Len(ms) : i <= j => g[i] <= g[j]
    /\ \A i \in 1 .. Len(ms) : g[i - 1] + Cost(ms[i]) <= g[i]

LEMMA PricedBatch ==
  ASSUME PierInv, NEW len \in Nat
  PROVE  Priced(WorkBatchOf(len), SentOva(len))
<1> DEFINE m == WorkBatchOf(len)
<1>1. Len(m) = Sent(len)
  BY WorkBatchIs
<1>2. \E g \in [0 .. Sent(len) -> Nat] :
              /\ g[0] = 0 /\ g[Sent(len)] <= SentOva(len)
              /\ \A i, j \in 0 .. Sent(len) : i <= j => g[i] <= g[j]
              /\ \A i \in 1 .. Sent(len) : g[i - 1] + Cost(m[i]) <= g[i]
  BY WorkBatchIs
<1> HIDE DEF m
<1>3. Priced(m, SentOva(len))
  BY <1>1, <1>2 DEF Priced
<1> QED
  BY <1>3 DEF m

\* A writ in front that brings none.
LEMMA PricedKeep ==
  ASSUME NEW w \in Writ, w.typ # "work", NEW ms \in Seq(Writ), NEW n, Priced(ms, n)
  PROVE  Priced(<<w>> \o ms, n)
<1> DEFINE t == <<w>> \o ms
           l == Len(ms)
<1>1. PICK g \in [0 .. l -> Nat] :
        /\ g[0] = 0 /\ g[l] <= n
        /\ \A i, j \in 0 .. l : i <= j => g[i] <= g[j]
        /\ \A i \in 1 .. l : g[i - 1] + Cost(ms[i]) <= g[i]
  BY DEF Priced
<1>2. /\ l \in Nat /\ Len(t) = l + 1 /\ t[1] = w
      /\ \A i \in 1 .. l : t[i + 1] = ms[i]
  <2> DEFINE u == <<w>>
  <2>1. u \in Seq(Writ) /\ Len(u) = 1 /\ u[1] = w
    OBVIOUS
  <2> HIDE DEF u
  <2>2. /\ Len(u \o ms) = Len(u) + Len(ms) /\ Len(ms) \in Nat
        /\ \A i \in 1 .. Len(u) : (u \o ms)[i] = u[i]
        /\ \A i \in 1 .. Len(ms) : (u \o ms)[Len(u) + i] = ms[i]
    <3>1. u \in Seq(Writ) /\ ms \in Seq(Writ)
      BY <2>1
    <3> QED
      BY ONLY <3>1, JoinIs, SMTT(60)
  <2>3. /\ Len(u \o ms) = Len(ms) + 1 /\ (u \o ms)[1] = w
        /\ \A i \in 1 .. Len(ms) : (u \o ms)[i + 1] = ms[i]
    <3>1. 1 \in 1 .. Len(u) /\ \A i \in 1 .. Len(ms) : Len(u) + i = i + 1
      BY <2>1, <2>2
    <3> QED
      BY <2>1, <2>2, <3>1
  <2> QED
    BY <2>2, <2>3 DEF u
<1> DEFINE h == [i \in 0 .. l + 1 |-> IF i = 0 THEN 0 ELSE g[i - 1]]
<1>3. ASSUME NEW i \in 1 .. l + 1 PROVE i - 1 \in 0 .. l /\ h[i] = g[i - 1] /\ h[i] \in Nat
  <2>1. i - 1 \in 0 .. l /\ i \in 0 .. l + 1 /\ i # 0
    BY <1>2
  <2> QED
    BY <2>1
<1>4. h[0] = 0 /\ h \in [0 .. l + 1 -> Nat]
  <2>1. \A i \in 0 .. l + 1 : i = 0 \/ i - 1 \in 0 .. l
    BY <1>2
  <2>2. 0 \in 0 .. l + 1
    BY <1>2
  <2> QED
    BY <2>1, <2>2
<1> HIDE DEF h, t, l
<1>5. h[l + 1] <= n
  <2>1. l + 1 \in 1 .. l + 1 /\ (l + 1) - 1 = l
    BY <1>2
  <2> QED
    BY <1>1, <1>3, <2>1
<1>6. ASSUME NEW i \in 0 .. l + 1, NEW j \in 0 .. l + 1, i <= j PROVE h[i] <= h[j]
  <2>1. CASE i = 0
    BY <1>4, <2>1
  <2>2. CASE i # 0
    <3>1. i \in 1 .. l + 1 /\ j \in 1 .. l + 1 /\ i - 1 <= j - 1
      BY <1>2, <1>6, <2>2
    <3>2. i - 1 \in 0 .. l /\ j - 1 \in 0 .. l /\ h[i] = g[i - 1] /\ h[j] = g[j - 1]
      BY <1>3, <3>1
    <3> QED
      BY <1>1, <3>1, <3>2
  <2> QED
    BY <2>1, <2>2
<1>7. ASSUME NEW i \in 1 .. l + 1 PROVE h[i - 1] + Cost(t[i]) <= h[i]
  <2>1. CASE i = 1
    <3>1. Cost(t[1]) = 0 /\ h[1] = g[0] /\ h[1 - 1] = 0
      BY <1>2, <1>3, <1>4, <2>1 DEF Cost
    <3> QED
      BY <1>1, <2>1, <3>1
  <2>2. CASE i # 1
    <3>1. i - 1 \in 1 .. l + 1 /\ i - 1 \in 1 .. l /\ (i - 1) + 1 = i
      BY <1>2, <2>2
    <3>2. h[i] = g[i - 1] /\ h[i - 1] = g[(i - 1) - 1]
      BY <1>3, <3>1
    <3>3. t[i] = ms[i - 1]
      BY <1>2, <3>1
    <3>4. g[(i - 1) - 1] + Cost(ms[i - 1]) <= g[i - 1]
      BY <1>1, <3>1
    <3> QED
      BY <3>2, <3>3, <3>4
  <2> QED
    BY <2>1, <2>2
<1>8. Priced(t, n)
  BY <1>2, <1>4, <1>5, <1>6, <1>7 DEF Priced
<1> QED
  BY <1>8 DEF t

LEMMA PricedNothing ==
  ASSUME NEW n \in Nat PROVE Priced(<<>>, n)
<1> DEFINE g == [i \in 0 .. 0 |-> 0]
<1>1. g \in [0 .. Len(<<>>) -> Nat] /\ g[0] = 0 /\ g[Len(<<>>)] <= n
  OBVIOUS
<1>2. \A i, j \in 0 .. Len(<<>>) : i <= j => g[i] <= g[j]
  OBVIOUS
<1> HIDE DEF g
<1> QED
  BY <1>1, <1>2 DEF Priced

\* The books of a working pier when an event has been heard or a batch found
\* durable, before _pier_work: the kernel's answers count on from e, the log is
\* durable up to d, and the effects gs wait.
WorkMid(e, d, ws, os, gs) ==
  /\ e \in 0 .. MaxEve /\ d \in dun .. e /\ d <= LastKey
  /\ gs \in Seq(Fact) /\ Len(gs) = e - dun
  /\ \A i \in 1 .. Len(gs) : /\ gs[i].eve = dun + i
                             /\ dun + i <= Len(core) => core[dun + i] = gs[i].job
  /\ walls # <<>> /\ walls[1] = "exit" =>
       e = d /\ \A i \in 1 .. Len(ws) : ws[i].typ # "work"
  /\ \E c : /\ Course(os, e, c) /\ c[Len(os)] + Len(ova) <= MaxEve
            /\ serf = "up" => Facts(os, ws, core, c)

\* What _pier_work sends, and what it leaves of the walls and queues.
WorkSent(e, d, ws, ms) ==
  /\ ms \in Seq(Writ) /\ LordPlan(ws, ms)
  /\ \A i \in 1 .. Len(ms) : Sound(ms[i])
  /\ \A i \in 1 .. Len(ms) :
       IF sat' = "gone" THEN ms[i].typ = "exit"
       ELSE /\ ms[i].typ \in {"work", "peek", "save"}
            /\ ms[i].typ = "work" => Len(ms[i].jobs) = 1 /\ walls' = <<>>
  /\ sat' \in {sat, "gone"}
  /\ sat' = "gone" => ws = <<>> /\ e = d /\ walls' = <<>> /\ ova' = <<>>
  /\ ova' \in Seq(Ova) /\ Len(ova') <= Len(ova) /\ pec' \in Nat
  /\ Priced(ms, Len(ova) - Len(ova'))
  /\ walls' \in Seq({"save", "exit"})
  /\ \A i \in 1 .. Len(walls') : walls'[i] = "exit" => i = Len(walls')
  /\ sat' = "work" => \A i \in 1 .. Len(walls') : walls'[i] = "save"
  /\ walls' # <<>> /\ walls'[1] = "exit" => e = d /\ \A i \in 1 .. Len(ws) : ws[i].typ # "work"

LEMMA WorkSends ==
  ASSUME PierInv, Works, NEW e, NEW d, NEW ws \in Seq(Writ), NEW os, NEW gs,
         WorkMid(e, d, ws, os, gs), PierWork(e, d, ws, gs)
  PROVE  \E ms : WorkSent(e, d, ws, ms)
<1>0. /\ ova \in Seq(Ova) /\ pec \in Nat /\ walls \in Seq({"save", "exit"})
      /\ sat \in {"work", "done"}
      /\ sat = "work" => \A i \in 1 .. Len(walls) : walls[i] = "save"
      /\ \A i \in 1 .. Len(walls) : walls[i] = "exit" => i = Len(walls)
      /\ e \in 0 .. MaxEve /\ e \in 0 .. MaxWord /\ (e = d => e <= LastKey)
      /\ walls # <<>> /\ walls[1] = "exit" => e = d /\ \A i \in 1 .. Len(ws) : ws[i].typ # "work"
      /\ 0 \in 0 .. MaxWord
  BY EventsAssumption, LordAssumption
  DEF PierInv, PierTypeOK, WallInv, Works, WorkMid
<1>1. Len(ova) \in Nat /\ Len(ws) \in Nat /\ WorkBatch \in Nat
  BY <1>0, LenProperties, PierAssumption
<1> DEFINE wall == WallDue(e, d, ws)
           left == IF wall = "none" THEN walls ELSE Tail(walls)
           keep == CASE wall = "save" -> LordKeep(ws, "save", e)
                     [] wall = "exit" -> <<BareWrit("exit")>>
                     [] wall = "none" -> <<>>
           len  == Room(left, Len(ws) + Len(keep))
           m    == WorkBatchOf(len)
           s    == SentOva(len)
<1>2. /\ LordPlan(ws, keep \o m) /\ walls' = left
      /\ ova' = IF wall = "exit" THEN <<>> ELSE SubSeq(ova, s + 1, Len(ova))
      /\ pec' = IF wall = "exit" THEN 0 ELSE pec - (Sent(len) - s)
      /\ sat' = IF wall = "exit" THEN "gone" ELSE sat
  BY DEF PierWork
<1>3. walls # <<>> => /\ Head(walls) = walls[1] /\ walls[1] \in {"save", "exit"}
                      /\ Tail(walls) \in Seq({"save", "exit"}) /\ Len(Tail(walls)) = Len(walls) - 1
                      /\ Len(walls) \in Nat /\ Len(walls) >= 1
                      /\ \A i \in 1 .. Len(walls) - 1 : Tail(walls)[i] = walls[i + 1]
  BY <1>0, TailIs
<1>4. \/ wall = "none"
      \/ wall \in {"save", "exit"} /\ walls # <<>> /\ ws = <<>> /\ e = d /\ wall = walls[1]
  BY <1>3 DEF WallDue
<1>5. wall = "exit" => sat = "done" /\ left = <<>>
  <2>1. SUFFICES ASSUME wall = "exit" PROVE sat = "done" /\ Tail(walls) = <<>>
    OBVIOUS
  <2>2. walls # <<>> /\ walls[1] = "exit" /\ 1 \in 1 .. Len(walls)
    BY <1>3, <1>4, <2>1
  <2>3. Len(walls) = 1 /\ sat # "work"
    BY <1>0, <2>2
  <2>4. Tail(walls) = <<>>
    <3>1. Tail(walls) \in Seq({"save", "exit"}) /\ Len(Tail(walls)) = 0
      BY <1>3, <2>2, <2>3
    <3> QED
      BY ONLY <3>1, EmptySeq, Zenon
  <2> QED
    BY <1>0, <2>3, <2>4
<1> HIDE DEF wall
<1>6. /\ left \in Seq({"save", "exit"})
      /\ \A i \in 1 .. Len(left) : left[i] = "exit" => i = Len(left)
      /\ sat = "work" => \A i \in 1 .. Len(left) : left[i] = "save"
      /\ left # <<>> /\ left[1] = "exit" => e = d /\ \A i \in 1 .. Len(ws) : ws[i].typ # "work"
  <2>1. CASE wall = "none"
    BY <1>0, <2>1
  <2>2. CASE wall # "none"
    <3>1. walls # <<>> /\ ws = <<>> /\ e = d /\ left = Tail(walls)
      BY <1>4, <2>2
    <3>2. ASSUME NEW i \in 1 .. Len(Tail(walls))
          PROVE  i + 1 \in 1 .. Len(walls) /\ Tail(walls)[i] = walls[i + 1]
                 /\ (i + 1 = Len(walls) => i = Len(Tail(walls)))
      BY <1>3, <3>1
    <3> QED
      BY <1>0, <1>3, <3>1, <3>2
  <2> QED
    BY <2>1, <2>2
<1> HIDE DEF left
<1>7. keep = <<>> \/ \E w \in Writ : /\ keep = <<w>> /\ Sound(w) /\ ws = <<>>
                                     /\ w.typ = IF wall = "exit" THEN "exit" ELSE "save"
  <2>1. CASE wall = "none"
    BY <2>1
  <2>2. CASE wall = "save"
    <3>1. keep = <<KeepWrit("save", e)>> /\ ws = <<>> /\ e <= LastKey
      BY <1>0, <1>4, <2>2 DEF LordKeep
    <3>2. KeepWrit("save", e) \in Writ /\ KeepWrit("save", e).typ = "save" /\ KeepWrit("save", e).eve = e
      BY <1>0 DEF KeepWrit, Writ
    <3>3. Sound(KeepWrit("save", e))
      BY <3>1, <3>2 DEF Sound
    <3> QED
      BY <2>2, <3>1, <3>2, <3>3
  <2>3. CASE wall = "exit"
    <3>1. keep = <<BareWrit("exit")>> /\ ws = <<>>
      BY <1>4, <2>3
    <3>2. BareWrit("exit") \in Writ /\ BareWrit("exit").typ = "exit"
      BY <1>0 DEF BareWrit, Writ
    <3>3. Sound(BareWrit("exit"))
      BY <3>2 DEF Sound
    <3> QED
      BY <2>3, <3>1, <3>2, <3>3
  <2> QED
    BY <1>4, <2>1, <2>2, <2>3
<1> HIDE DEF keep
<1>8. Len(keep) \in 0 .. 1 /\ keep \in Seq(Writ)
  <2>1. CASE keep = <<>>
    BY <2>1
  <2>2. CASE keep # <<>>
    <3>1. PICK w \in Writ : keep = <<w>>
      BY <1>7, <2>2
    <3> QED
      BY <3>1
  <2> QED
    BY <2>1, <2>2
<1>9. len \in Nat /\ (left # <<>> \/ sat # "work" => len = 0) /\ (wall = "exit" => len = 0)
  <2>1. len \in Nat /\ (left # <<>> \/ sat # "work" => len = 0)
    BY <1>1, <1>8 DEF Room
  <2> QED
    BY <1>5, <2>1
<1> HIDE DEF len
<1>10. /\ m \in Seq(Writ) /\ Len(m) \in Nat
       /\ \A i \in 1 .. Len(m) : m[i].typ \in {"work", "peek"}
                                 /\ (m[i].typ = "work" => Len(m[i].jobs) = 1)
       /\ s \in 0 .. Len(ova) /\ pec - (Sent(len) - s) \in Nat
       /\ len = 0 => s = 0 /\ m = <<>>
       /\ Priced(m, s)
  BY <1>9, WorkBatchIs, PricedBatch, LenProperties
<1> HIDE DEF m, s
<1>11. ova' \in Seq(Ova) /\ Len(ova') <= Len(ova) /\ Len(ova') \in Nat /\ pec' \in Nat
       /\ s <= Len(ova) - Len(ova')
  <2>1. CASE wall = "exit"
    BY <1>1, <1>2, <1>9, <1>10, <2>1
  <2>2. CASE wall # "exit"
    <3>1. \A i \in 1 .. Len(ova) : ova[i] \in Ova
      BY <1>0, ElementOfSeq
    <3>2. \A i \in s + 1 .. Len(ova) : ova[i] \in Ova
      BY <1>1, <1>10, <3>1
    <3>3. /\ SubSeq(ova, s + 1, Len(ova)) \in Seq(Ova)
          /\ Len(SubSeq(ova, s + 1, Len(ova))) = IF s + 1 <= Len(ova) THEN Len(ova) - (s + 1) + 1 ELSE 0
      <4>1. s + 1 \in Int /\ Len(ova) \in Int
        BY <1>1, <1>10
      <4> QED
        BY <3>2, <4>1, SubSeqProperties
    <3>4. ova' = SubSeq(ova, s + 1, Len(ova)) /\ pec' = pec - (Sent(len) - s)
      BY <1>2, <2>2
    <3>5. Len(ova') = Len(ova) - s
      BY <1>1, <1>10, <3>3, <3>4
    <3> QED
      BY <1>1, <1>10, <3>3, <3>4, <3>5
  <2> QED
    BY <2>1, <2>2
<1>12. Priced(m, Len(ova) - Len(ova'))
  <2> DEFINE n == Len(ova) - Len(ova')
  <2>1. n \in Nat /\ s <= n /\ s \in Nat
    BY <1>1, <1>10, <1>11
  <2> HIDE DEF n
  <2>2. PICK g \in [0 .. Len(m) -> Nat] :
          /\ g[0] = 0 /\ g[Len(m)] <= s
          /\ \A i, j \in 0 .. Len(m) : i <= j => g[i] <= g[j]
          /\ \A i \in 1 .. Len(m) : g[i - 1] + Cost(m[i]) <= g[i]
    BY <1>10 DEF Priced
  <2>3. g[Len(m)] <= n
    <3>1. Len(m) \in 0 .. Len(m)
      BY <1>10
    <3>2. g[Len(m)] \in Nat
      BY <3>1
    <3> QED
      BY <2>1, <2>2, <3>2
  <2>4. Priced(m, n)
    BY <2>2, <2>3 DEF Priced
  <2> QED
    BY <2>4 DEF n
<1>13. ASSUME NEW i \in 1 .. Len(m) PROVE m[i] \in Writ /\ Sound(m[i])
  <2>1. m[i] \in Writ /\ m[i].typ \in {"work", "peek"} /\ (m[i].typ = "work" => Len(m[i].jobs) = 1)
    BY <1>10, ElementOfSeq
  <2> QED
    BY <2>1 DEF Sound
<1>14. ASSUME NEW i \in 1 .. Len(m)
       PROVE  /\ sat' # "gone" /\ m[i].typ \in {"work", "peek", "save"}
              /\ m[i].typ = "work" => Len(m[i].jobs) = 1 /\ walls' = <<>>
  <2>1. len # 0
    BY <1>10
  <2>2. left = <<>> /\ wall # "exit" /\ sat # "gone"
    BY <1>0, <1>9, <2>1
  <2> QED
    BY <1>2, <1>10, <2>2
<1>15. \E ms : /\ keep \o m = ms /\ ms \in Seq(Writ) /\ Priced(ms, Len(ova) - Len(ova'))
               /\ \A i \in 1 .. Len(ms) : Sound(ms[i])
               /\ \A i \in 1 .. Len(ms) :
                    IF sat' = "gone" THEN ms[i].typ = "exit"
                    ELSE /\ ms[i].typ \in {"work", "peek", "save"}
                         /\ ms[i].typ = "work" => Len(ms[i].jobs) = 1 /\ walls' = <<>>
  <2>1. CASE keep = <<>>
    <3>1. keep \o m = m
      BY <1>10, <2>1, ConcatEmptySeq
    <3> QED
      BY <1>10, <1>12, <1>13, <1>14, <3>1
  <2>2. CASE keep # <<>>
    <3>1. PICK w \in Writ : /\ keep = <<w>> /\ Sound(w)
                            /\ w.typ = IF wall = "exit" THEN "exit" ELSE "save"
      BY <1>7, <2>2
    <3> DEFINE n  == Len(ova) - Len(ova')
               ms == <<w>> \o m
    <3>2. Priced(ms, n)
      <4> HIDE DEF n
      <4>1. Priced(m, n)
        BY <1>12 DEF n
      <4>2. w.typ # "work"
        BY <3>1
      <4> QED
        BY <1>10, <4>1, <4>2, PricedKeep
    <3>3. sat' = "gone" => w.typ = "exit"
      BY <1>0, <1>2, <3>1
    <3>4. sat' # "gone" => w.typ = "save"
      BY <1>2, <3>1
    <3> DEFINE T == {v \in Writ : /\ Sound(v)
                                  /\ IF sat' = "gone" THEN v.typ = "exit"
                                     ELSE /\ v.typ \in {"work", "peek", "save"}
                                          /\ v.typ = "work" => Len(v.jobs) = 1 /\ walls' = <<>>}
    <3>5. w \in T
      BY <3>1, <3>3, <3>4
    <3>6. \A i \in 1 .. Len(m) : m[i] \in T
      BY <1>13, <1>14
    <3> HIDE DEF T
    <3>7. /\ ms \in Seq(Writ) /\ \A i \in 1 .. Len(ms) : ms[i] \in T
      <4> DEFINE u == <<w>>
      <4>1. u \in Seq(Writ) /\ \A i \in 1 .. Len(u) : u[i] \in T
        BY <3>5
      <4> HIDE DEF u
      <4>2. u \o m \in Seq(Writ) /\ \A i \in 1 .. Len(u \o m) : (u \o m)[i] \in T
        BY <1>10, <3>6, <4>1, JoinAll, JoinIs
      <4> QED
        BY <4>2 DEF u
    <3>8. keep \o m = ms
      BY <3>1
    <3> HIDE DEF ms
    <3>9. \A i \in 1 .. Len(ms) :
            /\ Sound(ms[i])
            /\ IF sat' = "gone" THEN ms[i].typ = "exit"
               ELSE /\ ms[i].typ \in {"work", "peek", "save"}
                    /\ ms[i].typ = "work" => Len(ms[i].jobs) = 1 /\ walls' = <<>>
      BY <3>7 DEF T
    <3> QED
      BY <3>2, <3>7, <3>8, <3>9
  <2> QED
    BY <2>1, <2>2
<1>16. sat' \in {sat, "gone"} /\ (sat' = "gone" => ws = <<>> /\ e = d /\ walls' = <<>> /\ ova' = <<>>)
  BY <1>0, <1>2, <1>4, <1>5
<1>17. sat' = "work" => sat = "work"
  BY <1>2
<1> QED
  BY <1>2, <1>6, <1>11, <1>15, <1>16, <1>17 DEF WorkSent

\* Writs of which at most n are events keep to the budget of a queue that is
\* n events shorter.
LEMMA BoundSends ==
  ASSUME PierInv, NEW ms \in Seq(Writ), \A i \in 1 .. Len(ms) : ms[i].typ # "play",
         inn' = inn \o ms, UNCHANGED <<core, serf>>, Len(ova') \in Nat, Len(ova') <= Len(ova),
         Priced(ms, Len(ova) - Len(ova'))
  PROVE  serf' # "dead" =>
           \E b : Budget(inn', Len(core'), b) /\ b[Len(inn')] + Len(ova') <= MaxEve
<1> SUFFICES ASSUME serf # "dead"
             PROVE  \E b : Budget(inn \o ms, Len(core), b) /\ b[Len(inn \o ms)] + Len(ova') <= MaxEve
  OBVIOUS
<1>1. inn \in Seq(Writ) /\ Len(inn) \in Nat /\ Len(core) \in Nat /\ Len(ova) \in Nat /\ Len(ms) \in Nat
  BY LenProperties DEF PierInv, PierTypeOK, LordTypeOK, Kernel
<1>2. PICK b : Budget(inn, Len(core), b) /\ b[Len(inn)] + Len(ova) <= MaxEve
  BY DEF PierInv, BoundInv
<1>3. PICK g \in [0 .. Len(ms) -> Nat] :
        /\ g[0] = 0 /\ g[Len(ms)] <= Len(ova) - Len(ova')
        /\ \A i, j \in 0 .. Len(ms) : i <= j => g[i] <= g[j]
        /\ \A i \in 1 .. Len(ms) : g[i - 1] + Cost(ms[i]) <= g[i]
  BY DEF Priced
<1>4. b[Len(inn)] \in 0 .. MaxEve /\ g[Len(ms)] \in Nat
  <2>1. Len(inn) \in 0 .. Len(inn) /\ Len(ms) \in 0 .. Len(ms)
    BY <1>1
  <2> QED
    BY <1>2, <2>1 DEF Budget
<1>5. b[Len(inn)] + g[Len(ms)] <= MaxEve /\ b[Len(inn)] + g[Len(ms)] + Len(ova') <= MaxEve
  BY <1>1, <1>2, <1>3, <1>4, EventsAssumption
<1>6. \E d : Budget(inn \o ms, Len(core), d) /\ d[Len(inn \o ms)] = b[Len(inn)] + g[Len(ms)]
  <2>1. \A i \in 1 .. Len(ms) : /\ g[i - 1] + Cost(ms[i]) <= g[i]
                                /\ ms[i].typ = "play" => EndOf(ms[i]) <= b[Len(inn)] + g[i]
    BY <1>3
  <2> DEFINE n == Len(core)
  <2>2. n \in Nat /\ Budget(inn, n, b)
    BY <1>1, <1>2
  <2> HIDE DEF n
  <2>3. \E d : Budget(inn \o ms, n, d) /\ d[Len(inn \o ms)] = b[Len(inn)] + g[Len(ms)]
    <3>1. /\ inn \in Seq(Writ) /\ ms \in Seq(Writ) /\ g \in [0 .. Len(ms) -> Nat] /\ g[0] = 0
          /\ \A i, j \in 0 .. Len(ms) : i <= j => g[i] <= g[j]
          /\ b[Len(inn)] + g[Len(ms)] <= MaxEve
      BY <1>1, <1>3, <1>5
    <3> QED
      BY ONLY <3>1, <2>1, <2>2, BudgetSend, SMTT(60)
  <2> QED
    BY <2>3 DEF n
<1> QED
  BY <1>5, <1>6

\* Writs at the end of the queue are not yet answered.
LEMMA FactsSend ==
  ASSUME NEW ws \in Seq(Writ), NEW os \in Seq(Plea), NEW ms \in Seq(Writ), Matched(ws, os),
         NEW k, NEW c, Facts(os, ws, k, c)
  PROVE  Facts(os, ws \o ms, k, c)
<1>1. \A i \in 1 .. Len(ws) : (ws \o ms)[i] = ws[i]
  BY JoinIs
<1>2. Len(os) <= Len(ws) /\ Len(os) \in Nat /\ Len(ws) \in Nat
  BY LenProperties DEF Matched
<1>3. \A i \in 1 .. Len(os) : (ws \o ms)[i] = ws[i]
  BY <1>1, <1>2
<1> QED
  BY <1>3 DEF Facts

\* Effects of the events after b up to d join those of events up to b.
LEMMA EffsJoin ==
  ASSUME NEW es \in Seq(Fact), NEW rs \in Seq(Fact), NEW b \in Nat, NEW d \in Nat, b <= d,
         \A i \in 1 .. Len(es) : es[i].eve <= b,
         \A i, j \in 1 .. Len(es) : i < j => es[i].eve < es[j].eve,
         Len(rs) = d - b, \A i \in 1 .. Len(rs) : rs[i].eve = b + i
  PROVE  /\ \A i \in 1 .. Len(es \o rs) : (es \o rs)[i].eve <= d
         /\ \A i, j \in 1 .. Len(es \o rs) : i < j => (es \o rs)[i].eve < (es \o rs)[j].eve
<1> DEFINE t == es \o rs
           l == Len(es)
           r == Len(rs)
<1>1. /\ Len(t) = l + r /\ l \in Nat /\ r \in Nat /\ r = d - b
      /\ \A i \in 1 .. l : t[i] = es[i] /\ t[i].eve \in Nat /\ t[i].eve <= b
      /\ \A i \in 1 .. l + r : i \notin 1 .. l => t[i].eve = b + (i - l)
  <2>1. /\ Len(t) = l + r /\ l \in Nat /\ r \in Nat
        /\ \A i \in 1 .. l : t[i] = es[i]
        /\ \A i \in 1 .. l + r : i \in 1 .. l \/ (i - l \in 1 .. r /\ t[i] = rs[i - l])
    BY JoinIs
  <2>2. ASSUME NEW i \in 1 .. l PROVE es[i].eve \in Nat
    <3>1. es[i] \in Fact
      BY ElementOfSeq
    <3> QED
      BY <3>1 DEF Fact
  <2> HIDE DEF t
  <2>3. \A i \in 1 .. l + r : i \notin 1 .. l => t[i].eve = b + (i - l)
    BY <2>1
  <2> QED
    BY <2>1, <2>2, <2>3
<1> HIDE DEF t, l, r
<1>2. ASSUME NEW i \in 1 .. Len(t) PROVE t[i].eve <= d
  <2>1. CASE i \in 1 .. l
    BY <1>1, <2>1
  <2>2. CASE i \notin 1 .. l
    <3>1. t[i].eve = b + (i - l) /\ i - l <= r
      BY <1>1, <2>2
    <3> QED
      BY <1>1, <3>1
  <2> QED
    BY <2>1, <2>2
<1>3. ASSUME NEW i \in 1 .. Len(t), NEW j \in 1 .. Len(t), i < j PROVE t[i].eve < t[j].eve
  <2>1. CASE j \in 1 .. l
    <3>1. i \in 1 .. l
      BY <1>1, <1>3, <2>1
    <3> QED
      BY <1>1, <1>3, <2>1, <3>1 DEF l
  <2>2. CASE j \notin 1 .. l
    <3>1. t[j].eve = b + (j - l) /\ j - l >= 1
      BY <1>1, <2>2
    <3>2. CASE i \in 1 .. l
      BY <1>1, <3>1, <3>2
    <3>3. CASE i \notin 1 .. l
      <4>1. t[i].eve = b + (i - l)
        BY <1>1, <3>3
      <4> QED
        BY <1>1, <1>3, <3>1, <4>1
    <3> QED
      BY <3>2, <3>3
  <2> QED
    BY <2>1, <2>2
<1> QED
  BY <1>2, <1>3 DEF t

\* _pier_work keeps the invariant, from books that are in order.
LEMMA PierWorkInv ==
  ASSUME PierInv, Loop, Works, god = "live",
         NEW e, NEW d, NEW ws, NEW os, NEW gs, KingHas(ws, os),
         WorkMid(e, d, ws, os, gs), PierWork(e, d, ws, gs),
         eve' = e, out' = os, UNCHANGED <<god, serf, core, snap, fault, db, meta>>, DiskInv',
         \/ /\ sat' # "gone" /\ open' = open /\ sen' = e /\ dun' = d /\ put' = Kept(gs, d)
            /\ red' = red
         \/ sat' = "gone" /\ open' = "closed" /\ sen' = 0 /\ dun' = 0 /\ put' = <<>> /\ red' = <<>>
  PROVE  PierInv'
<1>1. /\ ws \in Seq(Writ) /\ os \in Seq(Plea) /\ inn \in Seq(Writ) /\ Matched(ws, os)
  BY KingHasIs
<1>2. PICK ms : WorkSent(e, d, ws, ms)
  BY <1>1, WorkSends
<1>3. /\ ms \in Seq(Writ) /\ LordPlan(ws, ms) /\ writs' = ws \o ms /\ inn' = inn \o ms
      /\ \A i \in 1 .. Len(ms) : Sound(ms[i])
  BY <1>2 DEF WorkSent, LordPlan
<1>4. /\ sat \in {"work", "done"} /\ sat' \in {"work", "done", "gone"} /\ open = "live"
      /\ DiskShape /\ DiskShape' /\ LastKey' = LastKey
  <2>1. sat \in {"work", "done"}
    BY DEF Works
  <2>2. open \in {"closed", "live", "hung"} /\ open # "closed"
    BY <2>1 DEF PierInv, DiskInv, DiskTypeOK, ModeInv
  <2>3. sat' \in {"work", "done", "gone"}
    BY <1>2, <2>1 DEF WorkSent
  <2>4. open # "hung"
    BY DEF Loop
  <2> QED
    BY <2>1, <2>2, <2>3, <2>4, LastKeySame, DiskShaped, DiskShapedNext DEF PierInv
<1>5. /\ \A i \in 1 .. Len(ms) :
            IF sat' = "gone" THEN ms[i].typ = "exit"
            ELSE /\ ms[i].typ \in {"work", "peek", "save"}
                 /\ ms[i].typ = "work" => Len(ms[i].jobs) = 1 /\ walls' = <<>>
      /\ sat' \in {sat, "gone"}
      /\ sat' = "gone" => ws = <<>> /\ e = d /\ walls' = <<>> /\ ova' = <<>>
      /\ ova' \in Seq(Ova) /\ Len(ova') <= Len(ova) /\ pec' \in Nat
      /\ Priced(ms, Len(ova) - Len(ova'))
      /\ walls' \in Seq({"save", "exit"})
      /\ \A i \in 1 .. Len(walls') : walls'[i] = "exit" => i = Len(walls')
      /\ sat' = "work" => \A i \in 1 .. Len(walls') : walls'[i] = "save"
      /\ walls' # <<>> /\ walls'[1] = "exit" => e = d /\ \A i \in 1 .. Len(ws) : ws[i].typ # "work"
  BY <1>2 DEF WorkSent
<1>6. /\ e \in 0 .. MaxEve /\ d \in dun .. e /\ d <= LastKey
      /\ gs \in Seq(Fact) /\ Len(gs) = e - dun
      /\ \A i \in 1 .. Len(gs) : /\ gs[i].eve = dun + i
                                 /\ dun + i <= Len(core) => core[dun + i] = gs[i].job
      /\ dun \in Nat /\ e \in Nat /\ d \in Nat
  BY <1>4, EventsAssumption DEF WorkMid, DiskShape
<1>7. /\ Kept(gs, d) \in Seq(Fact) /\ Len(Kept(gs, d)) = e - d
      /\ \A i \in 1 .. Len(Kept(gs, d)) : /\ d - dun + i \in 1 .. Len(gs)
                                          /\ Kept(gs, d)[i] = gs[d - dun + i]
      /\ Released(gs, d) \in Seq(Fact) /\ Len(Released(gs, d)) = d - dun
      /\ \A i \in 1 .. d - dun : i \in 1 .. Len(gs) /\ Released(gs, d)[i] = gs[i]
  <2>1. /\ gs \in Seq(Fact) /\ dun \in Nat /\ e \in Nat /\ Len(gs) = e - dun
        /\ \A i \in 1 .. Len(gs) : gs[i].eve = dun + i
        /\ d \in dun .. e
    BY <1>6
  <2>2. /\ Kept(gs, d) \in Seq(Fact) /\ Len(Kept(gs, d)) = e - d
        /\ \A i \in 1 .. Len(Kept(gs, d)) : /\ d - dun + i \in 1 .. Len(gs)
                                            /\ Kept(gs, d)[i] = gs[d - dun + i]
        /\ Released(gs, d) \in Seq(Fact) /\ Len(Released(gs, d)) = d - dun
        /\ \A i \in 1 .. d - dun : i \in 1 .. Len(gs) /\ Released(gs, d)[i] = gs[i]
        /\ rel = dun => WorkFault(gs, d) = "none"
    BY ONLY <2>1, GiftsAre, Zenon
  <2> QED
    BY <2>2
<1>8. /\ gifts' = Kept(gs, d) /\ rel' = rel + Len(Released(gs, d))
      /\ effs' = effs \o Released(gs, d) /\ UNCHANGED <<pay, oops>>
  BY DEF PierWork
<1>9. LordTypeOK' /\ PipesInv' /\ MatchInv' /\ InnInv'
  <2>1. eve' \in 0 .. MaxWord
    BY <1>6, EventsAssumption, LordAssumption
  <2>2. god' = "live" /\ UNCHANGED <<serf, core, snap, fault, db>>
    OBVIOUS
  <2> QED
    BY <1>3, <2>1, <2>2, KingSends
<1>10. rel' = d
  <2>1. rel = dun
    BY DEF PierInv, GiftInv
  <2> QED
    BY <1>6, <1>7, <1>8, <2>1
<1>11. effs \in Seq(Fact) /\ effs' \in Seq(Fact)
  <2>1. effs \in Seq(Fact)
    BY DEF PierInv, PierTypeOK
  <2> QED
    BY <1>7, <1>8, <2>1, JoinIs
<1>12. PierTypeOK'
  <2>1. DiskTypeOK'
    BY DEF DiskInv
  <2>2. pay' \in [eve : Nat, sen : Nat, req : Nat, q : Seq(Fact)]
    BY <1>8 DEF PierInv, PierTypeOK
  <2>3. oops' \in {"none", "null", "ahead", "barrier", "state", "replay", "plan",
                   "release", "freed", "read", "exit"}
    BY <1>8 DEF PierInv, PierTypeOK
  <2>4. gifts' \in Seq(Fact) /\ rel' \in Nat
    BY <1>6, <1>7, <1>8, <1>10
  <2> QED
    BY <1>4, <1>5, <1>9, <1>11, <2>1, <2>2, <2>3, <2>4 DEF PierTypeOK
<1>13. ModeInv'
  <2>1. red = <<>>
    BY <1>4 DEF PierInv, ModeInv
  <2>2. sat' = "gone" => open' = "closed" /\ ova' = <<>> /\ walls' = <<>>
    BY <1>5
  <2>3. open' # "hung" /\ (sat' # "gone" => open' = "live") /\ red' = <<>>
    BY <1>4, <2>1
  <2> QED
    BY <1>4, <2>2, <2>3 DEF ModeInv, Works
<1>14. NewInv'
  <2>1. ~(meta < MetaKeys)
    BY <1>4 DEF PierInv, NewInv
  <2> QED
    BY <1>4, <2>1 DEF NewInv
<1>15. WritsInv'
  <2> DEFINE T == {w \in Writ : /\ w.typ = "work" => Len(w.jobs) = 1
                                /\ w.typ \in {"work", "peek", "save", "pack"}}
  <2>1. writs \in Seq(Writ) /\ \A i \in 1 .. Len(writs) : writs[i] \in T
    <3>1. writs \in Seq(Writ) /\ Negotiates
      BY <1>4 DEF PierInv, PierTypeOK, LordTypeOK, Negotiates
    <3> QED
      BY <3>1, ElementOfSeq DEF PierInv, WritsInv
  <2>2. \A i \in 1 .. Len(ws) : ws[i] \in T
    <3>1. CASE ws = writs
      BY <2>1, <3>1
    <3>2. CASE writs # <<>> /\ ws = Tail(writs)
      <4>1. /\ Len(writs) \in Nat /\ Len(ws) = Len(writs) - 1
            /\ \A i \in 1 .. Len(writs) - 1 : ws[i] = writs[i + 1]
        BY <2>1, <3>2, TailIs
      <4>2. \A i \in 1 .. Len(ws) : i + 1 \in 1 .. Len(writs) /\ ws[i] = writs[i + 1]
        BY <4>1
      <4> HIDE DEF T
      <4> QED
        BY <2>1, <4>2
    <3> QED
      BY <3>1, <3>2 DEF KingHas
  <2>3. CASE sat' # "gone"
    <3>1. \A i \in 1 .. Len(ms) : ms[i] \in T
      BY <1>3, <1>5, <2>3, ElementOfSeq
    <3>2. \A i \in 1 .. Len(writs') : writs'[i] \in T
      <4> HIDE DEF T
      <4> QED
        BY <1>1, <1>3, <2>2, <3>1, JoinAll
    <3> QED
      BY <2>3, <3>2 DEF WritsInv
  <2>4. CASE sat' = "gone"
    <3>1. writs' = ms
      <4>1. ws = <<>>
        BY <1>5, <2>4
      <4> QED
        BY <1>3, <4>1, ConcatEmptySeq
    <3>2. \A i \in 1 .. Len(writs') : writs'[i].typ = "exit"
      BY <1>5, <2>4, <3>1
    <3> QED
      BY <2>4, <3>2 DEF WritsInv, Negotiates
  <2> QED
    BY <2>3, <2>4
<1>16. WorkInv'
  <2> SUFFICES ASSUME sat' # "gone"
               PROVE  /\ eve' = sen'
                      /\ \E c : /\ Course(out', sen', c) /\ c[Len(out')] + Len(ova') <= MaxEve
                                /\ serf' = "up" => Facts(out', writs', core', c)
    BY DEF WorkInv, Negotiates
  <2>1. eve' = sen' /\ sen' = e
    OBVIOUS
  <2>2. PICK c : /\ Course(os, e, c) /\ c[Len(os)] + Len(ova) <= MaxEve
                 /\ serf = "up" => Facts(os, ws, core, c)
    BY DEF WorkMid
  <2>3. serf = "up" => Facts(os, ws \o ms, core, c)
    BY <1>1, <1>3, <2>2, FactsSend
  <2>4. c[Len(os)] + Len(ova') <= MaxEve
    <3>1. Len(os) \in 0 .. Len(os) /\ Len(ova) \in Nat /\ Len(ova') \in Nat
      BY <1>1, <1>5, LenProperties DEF PierInv, PierTypeOK
    <3>2. c[Len(os)] \in 0 .. MaxEve
      BY <2>2, <3>1 DEF Course
    <3> QED
      BY <1>5, <2>2, <3>1, <3>2, EventsAssumption
  <2> QED
    BY <1>3, <2>1, <2>2, <2>3, <2>4
<1>17. PlayInv' /\ BatchInv'
  BY <1>4 DEF PlayInv, BatchInv
<1>18. GiftInv'
  BY <1>8, <1>10 DEF GiftInv, Works
<1>19. Agrees(core)'
  <2>1. Agrees(core) /\ Len(core) \in Nat
    BY LenProperties DEF PierInv, AgreeInv, PierTypeOK, LordTypeOK, Kernel
  <2>2. ASSUME NEW i \in 1 .. Len(core), i - dun' \in 1 .. Len(put')
        PROVE  core[i] = put'[i - dun'].job
    <3>1. sat' # "gone" /\ dun' = d /\ put' = Kept(gs, d)
      BY <2>2
    <3>2. i - d \in 1 .. Len(Kept(gs, d))
      BY <2>2, <3>1
    <3>3. d - dun + (i - d) \in 1 .. Len(gs) /\ Kept(gs, d)[i - d] = gs[d - dun + (i - d)]
      BY <1>7, <3>2
    <3>4. d - dun + (i - d) = i - dun /\ dun + (i - dun) = i
      BY <1>6, <2>1
    <3>5. core[dun + (i - dun)] = gs[i - dun].job
      BY <1>6, <2>1, <3>3, <3>4
    <3> QED
      BY <3>1, <3>3, <3>4, <3>5
  <2>3. ASSUME NEW i \in 1 .. Len(core), i <= LastKey PROVE core[i] = db[i]
    BY <2>1, <2>3 DEF Agrees
  <2> QED
    BY <1>4, <2>2, <2>3 DEF Agrees
<1>20. AgreeInv'
  <2>1. EventsAhead'
    BY <1>4, <1>9, <1>12, <1>13, <1>14, <1>15, <1>16, <1>17, EventsAreAheadNext
  <2> QED
    BY <1>19, <2>1, AgreeNext
<1>21. EffsInv'
  <2> DEFINE rs == Released(gs, d)
  <2>1. /\ rs \in Seq(Fact) /\ Len(rs) = d - dun /\ effs' = effs \o rs
        /\ \A i \in 1 .. Len(rs) : rs[i].eve = dun + i
    BY <1>6, <1>7, <1>8
  <2>2. /\ \A i \in 1 .. Len(effs) : effs[i].eve <= dun
        /\ \A i, j \in 1 .. Len(effs) : i < j => effs[i].eve < effs[j].eve
    BY DEF PierInv, EffsInv
  <2> HIDE DEF rs
  <2>3. /\ \A i \in 1 .. Len(effs \o rs) : (effs \o rs)[i].eve <= d
        /\ \A i, j \in 1 .. Len(effs \o rs) : i < j => (effs \o rs)[i].eve < (effs \o rs)[j].eve
    <3>1. dun <= d
      BY <1>6
    <3> QED
      BY <1>6, <1>11, <2>1, <2>2, <3>1, EffsJoin
  <2>4. ASSUME NEW i \in 1 .. Len(effs') PROVE effs'[i].eve <= LastKey
    <3>1. effs'[i] \in Fact /\ effs'[i].eve <= d
      BY <1>11, <2>1, <2>3, ElementOfSeq
    <3>2. effs'[i].eve \in Nat /\ LastKey \in Nat
      BY <1>4, <3>1 DEF Fact, DiskShape
    <3> QED
      BY <1>6, <3>1, <3>2
  <2>5. sat' # "gone" => dun' = d
    OBVIOUS
  <2> QED
    BY <1>4, <2>1, <2>3, <2>4, <2>5 DEF EffsInv, Works
<1>22. WallInv'
  <2>1. ASSUME walls' # <<>>, walls'[1] = "exit"
        PROVE  sen' = dun' /\ \A i \in 1 .. Len(writs') : writs'[i].typ # "work"
    <3>1. sat' # "gone" /\ e = d /\ \A i \in 1 .. Len(ws) : ws[i].typ # "work"
      BY <1>5, <2>1
    <3>2. \A i \in 1 .. Len(ms) : ms[i].typ # "work"
      BY <1>5, <2>1, <3>1
    <3> DEFINE T == {w \in Writ : w.typ # "work"}
    <3>3. (\A i \in 1 .. Len(ws) : ws[i] \in T) /\ (\A i \in 1 .. Len(ms) : ms[i] \in T)
      BY <1>1, <1>3, <3>1, <3>2, ElementOfSeq
    <3>4. \A i \in 1 .. Len(writs') : writs'[i] \in T
      <4> HIDE DEF T
      <4> QED
        BY <1>1, <1>3, <3>3, JoinAll
    <3> QED
      BY <3>1, <3>4
  <2> QED
    BY <1>5, <2>1 DEF WallInv
<1>23. BoundInv'
  <2>1. \A i \in 1 .. Len(ms) : ms[i].typ # "play"
    BY <1>5
  <2>2. Len(ova') \in Nat
    BY <1>5, LenProperties
  <2>3. serf' # "dead" => \E b : Budget(inn', Len(core'), b) /\ b[Len(inn')] + Len(ova') <= MaxEve
    BY <1>3, <1>5, <2>1, <2>2, BoundSends
  <2>4. sen' <= MaxEve /\ LastKey' <= MaxEve
    BY <1>4, <1>6, EventsAssumption DEF PierInv, BoundInv
  <2> QED
    BY <1>4, <2>3, <2>4 DEF BoundInv
<1>24. OopsInv'
  BY <1>8 DEF PierInv, OopsInv
<1> QED
  BY <1>9, <1>12, <1>13, <1>14, <1>15, <1>16, <1>17, <1>18, <1>20, <1>21, <1>22, <1>23, <1>24 DEF PierInv

\* A pier at work in the loop has its lord and its log, and their books agree.
LEMMA WorkingIs ==
  ASSUME PierInv, Loop, Works
  PROVE  /\ god = "live" /\ open = "live" /\ sat \in {"work", "done"} /\ Negotiates
         /\ DiskShape /\ gifts = put /\ rel = dun /\ eve = sen /\ serf # "boot"
         /\ dun \in Nat /\ sen \in Nat /\ dun <= sen /\ dun <= LastKey /\ LastKey \in Nat
         /\ sen \in 0 .. MaxEve /\ put \in Seq(Fact) /\ Len(put) = sen - dun
         /\ \A i \in 1 .. Len(put) : put[i].eve = dun + i
         /\ \A i \in 1 .. Len(put) : dun + i <= Len(core) => core[dun + i] = put[i].job
         /\ \E c : /\ Course(out, sen, c) /\ c[Len(out)] + Len(ova) <= MaxEve
                   /\ serf = "up" => Facts(out, writs, core, c)
<1>1. sat \in {"work", "done"} /\ Negotiates
  BY DEF Works, Negotiates
<1>2. god = "live"
  <2>1. god \in {"none", "init", "live"}
    BY DEF PierInv, PierTypeOK, LordTypeOK
  <2> QED
    BY <1>1, <2>1 DEF PierInv, ModeInv, Loop
<1>3. open = "live"
  <2>1. open \in {"closed", "live", "hung"}
    BY DEF PierInv, DiskInv, DiskTypeOK
  <2> QED
    BY <1>1, <2>1 DEF PierInv, ModeInv, Loop
<1>4. DiskShape
  BY DiskShaped DEF PierInv
<1>5. gifts = put /\ rel = dun
  BY DEF PierInv, GiftInv
<1>6. eve = sen /\ \E c : /\ Course(out, sen, c) /\ c[Len(out)] + Len(ova) <= MaxEve
                          /\ serf = "up" => Facts(out, writs, core, c)
  BY <1>1, <1>2 DEF PierInv, WorkInv
<1>7. /\ dun \in Nat /\ sen \in Nat /\ dun <= sen /\ dun <= LastKey /\ LastKey \in Nat
      /\ put \in Seq(Fact) /\ Len(put) = sen - dun
      /\ \A i \in 1 .. Len(put) : put[i].eve = dun + i
  BY <1>3, <1>4 DEF DiskShape
<1>8. sen \in 0 .. MaxEve
  BY <1>7, EventsAssumption DEF PierInv, BoundInv
<1>9. ASSUME NEW i \in 1 .. Len(put), dun + i <= Len(core) PROVE core[dun + i] = put[i].job
  <2>1. Len(core) \in Nat
    BY LenProperties DEF PierInv, PierTypeOK, LordTypeOK, Kernel
  <2>2. dun + i \in 1 .. Len(core) /\ (dun + i) - dun = i
    BY <1>7, <1>9, <2>1
  <2>3. Agrees(core)
    BY DEF PierInv, AgreeInv
  <2> QED
    BY <2>2, <2>3 DEF Agrees
<1>10. serf # "boot"
  BY <1>2 DEF PierInv, PipesInv
<1> QED
  BY <1>1, <1>2, <1>3, <1>4, <1>5, <1>6, <1>7, <1>8, <1>9, <1>10

\* The assertion of _pier_gift_next holds of the queue before the log.
LEMMA QueueReleases ==
  ASSUME PierInv, Loop, Works, NEW d \in dun .. sen
  PROVE  WorkFault(put, d) = "none"
<1>1. /\ put \in Seq(Fact) /\ dun \in Nat /\ sen \in Nat /\ Len(put) = sen - dun
      /\ \A i \in 1 .. Len(put) : put[i].eve = dun + i
      /\ d \in dun .. sen /\ rel = dun
  BY WorkingIs
<1>2. /\ Kept(put, d) \in Seq(Fact) /\ Len(Kept(put, d)) = sen - d
      /\ \A i \in 1 .. Len(Kept(put, d)) : /\ d - dun + i \in 1 .. Len(put)
                                           /\ Kept(put, d)[i] = put[d - dun + i]
      /\ Released(put, d) \in Seq(Fact) /\ Len(Released(put, d)) = d - dun
      /\ \A i \in 1 .. d - dun : i \in 1 .. Len(put) /\ Released(put, d)[i] = put[i]
      /\ rel = dun => WorkFault(put, d) = "none"
  BY ONLY <1>1, GiftsAre, Zenon
<1> QED
  BY <1>1, <1>2

\* Where the loop ends: an exit wall is passed by a kernel at rest, with all of
\* its events durable.
LEMMA ExitAtRest ==
  ASSUME NEW e, NEW d, NEW ws, NEW gs, PierWork(e, d, ws, gs), sat' # sat
  PROVE  sat' = "gone" /\ WallDue(e, d, ws) = "exit" /\ e = d
BY DEF PierWork, WallDue

LEMMA DiskExitIdle ==
  ASSUME PierInv, open = "live", sen = dun, DiskExit
  PROVE  /\ DiskInv' /\ open' = "closed" /\ sen' = 0 /\ dun' = 0 /\ put' = <<>> /\ red' = <<>>
         /\ UNCHANGED <<db, meta>>
<1>1. ted = "idle"
  <2>1. SUFFICES ASSUME ted # "idle" PROVE FALSE
    OBVIOUS
  <2>2. PICK n \in 1 .. Len(put) : dun + n <= sen
    BY <2>1, BatchOfQueue DEF PierInv, BatchShape
  <2>3. sen \in Nat /\ dun \in Nat
    BY DiskShaped DEF PierInv, DiskShape
  <2> QED
    BY <2>2, <2>3
<1>2. open' = "closed" /\ DiskForget /\ UNCHANGED <<db, meta>>
  BY <1>1 DEF DiskExit
<1>3. DiskInv'
  BY <1>2, ForgetInv DEF PierInv
<1> QED
  BY <1>2, <1>3 DEF DiskForget

\* _pier_work_afte_cb, _pier_work_idle_cb.
LEMMA TickInv == PierInv /\ Tick => PierInv'
<1> SUFFICES ASSUME PierInv, Tick PROVE PierInv'
  OBVIOUS
<1>1. Loop /\ Works
  BY DEF Tick, Working, Works
<1>2. /\ god = "live" /\ open = "live" /\ sat \in {"work", "done"}
      /\ gifts = put /\ rel = dun /\ eve = sen
      /\ dun \in Nat /\ sen \in Nat /\ dun <= sen /\ dun <= LastKey
      /\ sen \in 0 .. MaxEve /\ put \in Seq(Fact) /\ Len(put) = sen - dun
      /\ \A i \in 1 .. Len(put) : put[i].eve = dun + i
      /\ \A i \in 1 .. Len(put) : dun + i <= Len(core) => core[dun + i] = put[i].job
      /\ \E c : /\ Course(out, sen, c) /\ c[Len(out)] + Len(ova) <= MaxEve
                /\ serf = "up" => Facts(out, writs, core, c)
  BY <1>1, WorkingIs
<1>3. dun \in dun .. sen
  BY <1>2
<1>4. WorkFault(gifts, dun) = "none"
  BY <1>1, <1>2, <1>3, QueueReleases
<1>5. /\ PierWork(sen, dun, writs, put) /\ UNCHANGED <<god, eve, out, serf, core, snap, fault>>
      /\ IF sat' = "gone" THEN DiskExit ELSE UNCHANGED diskVars
  BY <1>2, <1>4 DEF Tick, lordRest
<1>6. WorkMid(sen, dun, writs, out, put)
  BY <1>2, <1>3 DEF WorkMid, PierInv, WallInv
<1>7. KingHas(writs, out)
  BY <1>2 DEF KingHas
<1>8. CASE sat' # "gone"
  <2>1. UNCHANGED <<db, meta, open, sen, dun, put, ted, req, red>>
    BY <1>5, <1>8 DEF diskVars
  <2>2. DiskInv'
    BY <1>5, <1>8, DiskSame DEF PierInv
  <2>3. Kept(put, dun) = put
    BY <1>2, GiftsStay
  <2> QED
    BY <1>1, <1>2, <1>5, <1>6, <1>7, <1>8, <2>1, <2>2, <2>3, PierWorkInv
<1>9. CASE sat' = "gone"
  <2>1. sen = dun
    BY <1>2, <1>5, <1>9, ExitAtRest
  <2>2. /\ DiskInv' /\ open' = "closed" /\ sen' = 0 /\ dun' = 0 /\ put' = <<>> /\ red' = <<>>
        /\ UNCHANGED <<db, meta>>
    BY <1>2, <1>5, <1>9, <2>1, DiskExitIdle
  <2> QED
    BY <1>1, <1>2, <1>5, <1>6, <1>7, <1>9, <2>2, PierWorkInv
<1> QED
  BY <1>8, <1>9

\* _pier_on_disk_write_done at work.
LEMMA WriteDoneWorks ==
  ASSUME PierInv, Works, WriteDone
  PROVE  PierInv'
<1>1. Loop /\ Works /\ open = "live" /\ ted = "good"
  BY DEF WriteDone
<1>2. /\ god = "live" /\ sat \in {"work", "done"}
      /\ gifts = put /\ rel = dun /\ eve = sen
      /\ dun \in Nat /\ sen \in Nat /\ dun <= sen /\ dun <= LastKey
      /\ sen \in 0 .. MaxEve /\ put \in Seq(Fact) /\ Len(put) = sen - dun
      /\ \A i \in 1 .. Len(put) : put[i].eve = dun + i
      /\ \A i \in 1 .. Len(put) : dun + i <= Len(core) => core[dun + i] = put[i].job
      /\ \E c : /\ Course(out, sen, c) /\ c[Len(out)] + Len(ova) <= MaxEve
                /\ serf = "up" => Facts(out, writs, core, c)
  BY <1>1, WorkingIs
<1> DEFINE d == BatchEnd(req)
<1>3. PICK n \in 1 .. Len(put) : d = dun + n /\ dun + n <= sen /\ LastKey = dun + n
  BY <1>1, BatchOfQueue DEF PierInv, BatchShape
<1> HIDE DEF d
<1>4. d \in dun .. sen /\ d <= LastKey /\ sen # dun
  BY <1>2, <1>3
<1>5. WallDue(eve, d, writs) # "exit"
  <2>1. walls # <<>> => Head(walls) = walls[1]
    BY TailIs DEF PierInv, PierTypeOK
  <2>2. ~(walls # <<>> /\ walls[1] = "exit")
    BY <1>4 DEF PierInv, WallInv
  <2> QED
    BY <2>1, <2>2 DEF WallDue
<1>6. WorkFault(gifts, d) = "none"
  BY <1>1, <1>2, <1>4, QueueReleases
<1>7. /\ PierWork(sen, d, writs, put) /\ UNCHANGED <<god, eve, out, serf, core, snap, fault>>
      /\ DiskCommitDone(red)
  BY <1>2, <1>5, <1>6 DEF WriteDone, lordRest, d
<1>8. WorkMid(sen, d, writs, out, put)
  BY <1>2, <1>4 DEF WorkMid, PierInv, WallInv
<1>9. KingHas(writs, out)
  BY <1>2 DEF KingHas
<1>10. /\ UNCHANGED <<db, meta, open, sen, red>> /\ dun' = d /\ put' = Kept(put, d)
  BY <1>7 DEF DiskCommitDone, Kept, d
<1>11. DiskInv'
  <2>1. red \in Seq(Read)
    BY DEF PierInv, DiskInv, DiskTypeOK
  <2> QED
    BY <1>1, <1>7, <2>1, CommitDoneInv DEF PierInv
<1>12. sat' # "gone"
  BY <1>2, <1>5, <1>7, ExitAtRest
<1> QED
  BY <1>1, <1>2, <1>7, <1>8, <1>9, <1>10, <1>11, <1>12, PierWorkInv

\* The answer to a %work is heard by a pier that negotiates or works, and
\* brings the next event.
LEMMA WorkHeard ==
  ASSUME PierInv, Loop, Heard({"work"})
  PROVE  /\ god = "live" /\ sat \in {"wyrd", "work", "done"} /\ eve = sen
         /\ Head(out) = out[1] /\ Head(writs) = writs[1] /\ writs[1].typ = "work"
         /\ KingHas(Tail(writs), Tail(out)) /\ Len(writs) \in Nat /\ Len(writs) >= 1
         /\ sen + Gain(out[1]) \in 0 .. MaxEve
         /\ EveAfter(Head(out), Head(writs)) = sen + Gain(out[1])
         /\ Gain(out[1]) = IF Head(out).how = "bail" THEN 0 ELSE 1
         /\ \E c : /\ Course(Tail(out), sen + Gain(out[1]), c)
                   /\ c[Len(Tail(out))] + Len(ova) <= MaxEve
                   /\ serf = "up" => Facts(Tail(out), Tail(writs), core, c)
         /\ Head(out).how # "bail" =>
              /\ WorkFact \in Fact /\ WorkFact.eve = sen + 1 /\ WorkFact.job \in Job
              /\ WorkFact = [eve |-> sen + 1, job |-> WorkFact.job]
              /\ sen + 1 <= Len(core) => core[sen + 1] = WorkFact.job
<1>1. writs \in Seq(Writ) /\ out \in Seq(Plea) /\ out # <<>> /\ god # "none"
  BY DEF PierInv, PierTypeOK, LordTypeOK, Heard
<1>2. Head(out) = out[1] /\ out[1] \in Plea /\ Len(out) \in Nat /\ Len(out) >= 1 /\ out[1].typ = "work"
  <2>1. Head(out) = out[1] /\ out[1] \in Plea /\ Len(out) \in Nat /\ Len(out) >= 1
    BY <1>1, TailIs
  <2> QED
    BY <2>1 DEF Heard
<1>3. writs # <<>> /\ Answers(Head(out), Head(writs))
  BY <1>2 DEF Heard
<1>4. /\ Head(writs) = writs[1] /\ writs[1] \in Writ /\ writs[1].typ = "work"
      /\ Len(writs) \in Nat /\ Len(writs) >= 1 /\ 1 \in 1 .. Len(writs)
  <2>1. Head(writs) = writs[1] /\ writs[1] \in Writ /\ Len(writs) \in Nat /\ Len(writs) >= 1
    BY <1>1, <1>3, TailIs
  <2> QED
    BY <1>2, <1>3, <2>1 DEF Answers
<1>5. god = "live"
  <2>1. 1 \in 1 .. Len(out) /\ god \in {"none", "init", "live"}
    BY <1>2 DEF PierInv, PierTypeOK, LordTypeOK
  <2> QED
    BY <1>1, <1>2, <2>1 DEF PierInv, PipesInv
<1>6. sat \in {"wyrd", "work", "done"}
  <2>1. sat \in {"down", "init", "boot", "play", "wyrd", "work", "done", "gone"}
    BY DEF PierInv, PierTypeOK
  <2>2. sat # "down" /\ sat # "init"
    BY <1>5 DEF PierInv, ModeInv
  <2>3. sat # "boot"
    BY <1>3 DEF PierInv, NewInv
  <2>4. sat # "gone"
    BY <1>4, <1>5 DEF PierInv, WritsInv
  <2>5. sat # "play"
    BY <1>4 DEF PierInv, BatchInv, Batches
  <2> QED
    BY <2>1, <2>2, <2>3, <2>4, <2>5
<1>7. Negotiates
  BY <1>6 DEF Negotiates
<1>8. KingHas(Tail(writs), Tail(out))
  BY <1>1, <1>3, <1>5 DEF KingHas
<1>9. eve = sen
  BY <1>5, <1>7 DEF PierInv, WorkInv
<1>10. PICK c : /\ Course(out, sen, c) /\ c[Len(out)] + Len(ova) <= MaxEve
                /\ serf = "up" => Facts(out, writs, core, c)
  BY <1>5, <1>7 DEF PierInv, WorkInv
<1>11. sen \in Nat
  BY DiskShaped DEF PierInv, DiskShape
<1>12. /\ c[1] = sen + Gain(out[1]) /\ (Tells(out[1]) => out[1].eve = sen + 1)
       /\ c[1] <= c[Len(out)] /\ c[1] \in 0 .. MaxEve /\ c[Len(out)] \in 0 .. MaxEve
       /\ \E d : /\ Course(Tail(out), c[1], d) /\ d[Len(Tail(out))] = c[Len(out)]
                 /\ \A i \in 0 .. Len(out) - 1 : d[i] = c[i + 1]
  BY <1>1, <1>10, <1>11, CourseTail
<1>13. PICK d : /\ Course(Tail(out), c[1], d) /\ d[Len(Tail(out))] = c[Len(out)]
                /\ \A i \in 0 .. Len(out) - 1 : d[i] = c[i + 1]
  BY <1>12
<1>14. serf = "up" => Facts(Tail(out), Tail(writs), core, d)
                      /\ (Tells(out[1]) => core[c[1]] = FactJob(out[1], writs[1]))
  <2>1. Len(out) <= Len(writs)
    BY <1>5 DEF PierInv, MatchInv, Matched
  <2> QED
    BY <1>1, <1>3, <1>10, <1>13, <2>1, FactsTail
<1>15. /\ Tells(out[1]) <=> Head(out).how # "bail"
       /\ Gain(out[1]) = IF Head(out).how = "bail" THEN 0 ELSE 1
  BY <1>2 DEF Tells, Gain
<1>16. EveAfter(Head(out), Head(writs)) = sen + Gain(out[1])
  <2>1. CASE Head(out).how = "bail"
    <3>1. EveAfter(Head(out), Head(writs)) = eve
      BY <1>2, <2>1 DEF EveAfter
    <3> QED
      BY <1>9, <1>11, <1>15, <2>1, <3>1
  <2>2. CASE Head(out).how # "bail"
    <3>1. EveAfter(Head(out), Head(writs)) = Head(out).eve
      BY <1>2, <2>2 DEF EveAfter
    <3>2. out[1].eve = sen + 1
      BY <1>12, <1>15, <2>2
    <3> QED
      BY <1>2, <1>15, <2>2, <3>1, <3>2
  <2> QED
    BY <2>1, <2>2
<1>17. ASSUME Head(out).how # "bail"
       PROVE  /\ WorkFact \in Fact /\ WorkFact.eve = sen + 1 /\ WorkFact.job \in Job
              /\ WorkFact = [eve |-> sen + 1, job |-> WorkFact.job]
              /\ sen + 1 <= Len(core) => core[sen + 1] = WorkFact.job
  <2> DEFINE j == FactJob(out[1], writs[1])
  <2>1. out[1].eve = sen + 1 /\ c[1] = sen + 1
    BY <1>12, <1>15, <1>17
  <2>2. WorkFact = [eve |-> sen + 1, job |-> j]
    BY <1>2, <1>4, <2>1 DEF WorkFact, FactJob
  <2>3. j \in Job
    <3>1. Len(writs[1].jobs) = 1 /\ writs[1].jobs \in Seq(Job)
      BY <1>4, <1>5 DEF PierInv, WritsInv, Writ
    <3>2. 1 \in 1 .. Len(writs[1].jobs)
      BY <3>1
    <3>3. writs[1].jobs[1] \in Job
      BY <3>1, <3>2, ElementOfSeq
    <3> QED
      BY <3>3, LordAssumption DEF FactJob
  <2>4. ASSUME sen + 1 <= Len(core) PROVE core[sen + 1] = j
    <3>1. serf = "up"
      <4>1. serf \in {"dead", "boot", "up"}
        BY DEF PierInv, PierTypeOK, LordTypeOK
      <4>2. serf # "dead"
        BY <1>11, <2>4 DEF PierInv, PipesInv
      <4>3. serf # "boot"
        BY <1>5 DEF PierInv, PipesInv
      <4> QED
        BY <4>1, <4>2, <4>3
    <3> QED
      BY <1>14, <1>15, <1>17, <2>1, <3>1
  <2> HIDE DEF j
  <2>5. sen + 1 \in Nat \ {0}
    BY <1>11
  <2> QED
    BY <2>2, <2>3, <2>4, <2>5 DEF Fact
<1>18. \E f : /\ Course(Tail(out), sen + Gain(out[1]), f)
              /\ f[Len(Tail(out))] + Len(ova) <= MaxEve
              /\ serf = "up" => Facts(Tail(out), Tail(writs), core, f)
  BY <1>10, <1>12, <1>13, <1>14
<1> QED
  BY <1>2, <1>4, <1>5, <1>6, <1>8, <1>9, <1>12, <1>15, <1>16, <1>17, <1>18

\* _pier_on_lord_work_done, _pier_on_lord_work_bail: no assertion fails.
LEMMA WorkedInv == PierInv /\ Worked => PierInv'
<1> SUFFICES ASSUME PierInv, Worked PROVE PierInv'
  OBVIOUS
<1>1. Loop /\ sat # "wyrd" /\ Heard({"work"})
  BY DEF Worked
<1> DEFINE e == sen + Gain(out[1])
<1>2. /\ god = "live" /\ sat \in {"wyrd", "work", "done"} /\ eve = sen
      /\ Head(out) = out[1] /\ Head(writs) = writs[1] /\ writs[1].typ = "work"
      /\ KingHas(Tail(writs), Tail(out)) /\ Len(writs) \in Nat /\ Len(writs) >= 1
      /\ e \in 0 .. MaxEve
      /\ EveAfter(Head(out), Head(writs)) = e
      /\ Gain(out[1]) = IF Head(out).how = "bail" THEN 0 ELSE 1
      /\ \E c : /\ Course(Tail(out), e, c) /\ c[Len(Tail(out))] + Len(ova) <= MaxEve
                /\ serf = "up" => Facts(Tail(out), Tail(writs), core, c)
      /\ Head(out).how # "bail" =>
           /\ WorkFact \in Fact /\ WorkFact.eve = sen + 1 /\ WorkFact.job \in Job
           /\ WorkFact = [eve |-> sen + 1, job |-> WorkFact.job]
           /\ sen + 1 <= Len(core) => core[sen + 1] = WorkFact.job
  BY <1>1, WorkHeard
<1> HIDE DEF e
<1>3. Works /\ sat \in {"work", "done"}
  BY <1>1, <1>2 DEF Works
<1>4. /\ open = "live" /\ gifts = put /\ rel = dun
      /\ dun \in Nat /\ sen \in Nat /\ dun <= sen /\ dun <= LastKey
      /\ put \in Seq(Fact) /\ Len(put) = sen - dun
      /\ \A i \in 1 .. Len(put) : put[i].eve = dun + i
      /\ \A i \in 1 .. Len(put) : dun + i <= Len(core) => core[dun + i] = put[i].job
  BY <1>1, <1>3, WorkingIs
<1>5. ~(walls # <<>> /\ walls[1] = "exit")
  <2>1. 1 \in 1 .. Len(writs)
    BY <1>2
  <2> QED
    BY <1>2, <2>1 DEF PierInv, WallInv
<1>6. dun \in dun .. sen /\ dun \in dun .. sen + 1
  BY <1>4
<1>7. CASE Head(out).how = "bail"
  <2>1. e = sen
    BY <1>2, <1>4, <1>7 DEF e
  <2>2. WorkFault(gifts, dun) = "none"
    BY <1>1, <1>3, <1>4, <1>6, QueueReleases
  <2>3. /\ LordHear /\ PierWork(sen, dun, Tail(writs), put)
        /\ IF sat' = "gone" THEN DiskExit ELSE UNCHANGED diskVars
    BY <1>2, <1>3, <1>4, <1>7, <2>1, <2>2 DEF Worked
  <2>4. eve' = sen /\ out' = Tail(out) /\ UNCHANGED <<god, serf, core, snap, fault>>
    BY <1>2, <2>1, <2>3 DEF LordHear
  <2>5. WorkMid(sen, dun, Tail(writs), Tail(out), put)
    BY <1>2, <1>4, <1>5, <1>6, <2>1 DEF WorkMid
  <2>6. CASE sat' # "gone"
    <3>1. UNCHANGED <<db, meta, open, sen, dun, put, ted, req, red>>
      BY <2>3, <2>6 DEF diskVars
    <3>2. DiskInv'
      BY <2>3, <2>6, DiskSame DEF PierInv
    <3>3. Kept(put, dun) = put
      BY <1>4, GiftsStay
    <3> QED
      BY <1>1, <1>2, <1>3, <2>3, <2>4, <2>5, <2>6, <3>1, <3>2, <3>3, PierWorkInv
  <2>7. CASE sat' = "gone"
    <3>1. sen = dun
      BY <1>3, <2>3, <2>7, ExitAtRest
    <3>2. /\ DiskInv' /\ open' = "closed" /\ sen' = 0 /\ dun' = 0 /\ put' = <<>> /\ red' = <<>>
          /\ UNCHANGED <<db, meta>>
      BY <1>4, <2>3, <2>7, <3>1, DiskExitIdle
    <3> QED
      BY <1>1, <1>2, <1>3, <2>3, <2>4, <2>5, <2>7, <3>2, PierWorkInv
  <2> QED
    BY <2>6, <2>7
<1>8. CASE Head(out).how # "bail"
  <2> DEFINE f  == WorkFact
             gs == Append(put, f)
  <2>1. /\ f \in Fact /\ f.eve = sen + 1 /\ f.job \in Job /\ f = [eve |-> sen + 1, job |-> f.job]
        /\ sen + 1 <= Len(core) => core[sen + 1] = f.job
    BY <1>2, <1>8
  <2>2. e = sen + 1
    BY <1>2, <1>4, <1>8 DEF e
  <2> HIDE DEF f
  <2>3. /\ gs \in Seq(Fact) /\ Len(gs) = (sen + 1) - dun /\ gs # put
        /\ \A i \in 1 .. Len(gs) : /\ gs[i].eve = dun + i
                                   /\ dun + i <= Len(core) => core[dun + i] = gs[i].job
    <3>1. /\ gs \in Seq(Fact) /\ Len(gs) = Len(put) + 1 /\ gs[Len(put) + 1] = f
          /\ \A i \in 1 .. Len(put) : gs[i] = put[i]
      BY <1>4, <2>1, AppendProperties
    <3> HIDE DEF gs
    <3>2. Len(gs) = (sen + 1) - dun /\ gs # put /\ Len(put) \in Nat
      BY <1>4, <3>1
    <3>3. ASSUME NEW i \in 1 .. Len(gs)
          PROVE  gs[i].eve = dun + i /\ (dun + i <= Len(core) => core[dun + i] = gs[i].job)
      <4>1. CASE i \in 1 .. Len(put)
        BY <1>4, <3>1, <4>1
      <4>2. CASE i = Len(put) + 1
        <5>1. dun + i = sen + 1 /\ gs[i] = f
          BY <1>4, <3>1, <4>2
        <5> QED
          BY <2>1, <5>1
      <4> QED
        BY <3>1, <3>2, <4>1, <4>2
    <3> QED
      BY <3>1, <3>2, <3>3
  <2> HIDE DEF gs
  <2>4. WorkFault(gs, dun) = "none"
    <3>1. /\ gs \in Seq(Fact) /\ dun \in Nat /\ e \in Nat /\ Len(gs) = e - dun
          /\ \A i \in 1 .. Len(gs) : gs[i].eve = dun + i
          /\ dun \in dun .. e
      BY <1>4, <1>6, <2>2, <2>3
    <3>2. /\ Kept(gs, dun) \in Seq(Fact) /\ Len(Kept(gs, dun)) = e - dun
          /\ \A i \in 1 .. Len(Kept(gs, dun)) : /\ dun - dun + i \in 1 .. Len(gs)
                                                /\ Kept(gs, dun)[i] = gs[dun - dun + i]
          /\ Released(gs, dun) \in Seq(Fact) /\ Len(Released(gs, dun)) = dun - dun
          /\ \A i \in 1 .. dun - dun : i \in 1 .. Len(gs) /\ Released(gs, dun)[i] = gs[i]
          /\ rel = dun => WorkFault(gs, dun) = "none"
      BY ONLY <3>1, GiftsAre, Zenon
    <3> QED
      BY <1>4, <3>2
  <2>5. /\ LordHear /\ PierWork(e, dun, Tail(writs), gs) /\ DiskPlan(f)
    <3>1. gs = Append(gifts, WorkFact) /\ gs # gifts /\ f = WorkFact
      BY <1>4, <2>3 DEF gs, f
    <3> QED
      BY <1>2, <1>3, <1>8, <2>1, <2>4, <3>1 DEF Worked
  <2>6. eve' = e /\ out' = Tail(out) /\ UNCHANGED <<god, serf, core, snap, fault>>
    BY <1>2, <2>5 DEF LordHear
  <2>7. WorkMid(e, dun, Tail(writs), Tail(out), gs)
    BY <1>2, <1>4, <1>5, <1>6, <2>2, <2>3 DEF WorkMid
  <2>8. sat' # "gone"
    <3>1. e # dun
      BY <1>4, <2>2
    <3> QED
      BY <1>3, <2>5, <3>1, ExitAtRest
  <2>9. DiskInv'
    <3> DEFINE j == f.job
    <3>1. j \in Job /\ DiskPlan([eve |-> sen + 1, job |-> j])
      BY <2>1, <2>5
    <3> HIDE DEF j
    <3> QED
      BY <1>4, <3>1, PlanInv DEF PierInv
  <2>10. /\ UNCHANGED <<db, meta, open, dun, red>> /\ sen' = e /\ put' = Kept(gs, dun)
    <3>1. UNCHANGED <<db, meta, open, dun, red>> /\ sen' = sen + Len(<<f>>) /\ put' = put \o <<f>>
      BY <2>5 DEF DiskPlan, Enqueue
    <3>2. put \o <<f>> = gs
      BY <1>4, <2>1, AppendIsConcat DEF gs
    <3>3. Kept(gs, dun) = gs
      <4>1. dun <= sen + 1 /\ sen + 1 \in Nat
        BY <1>4
      <4> QED
        BY <1>4, <2>3, <4>1, GiftsStay
    <3> QED
      BY <2>2, <3>1, <3>2, <3>3
  <2> QED
    BY <1>1, <1>2, <1>3, <2>5, <2>6, <2>7, <2>8, <2>9, <2>10, PierWorkInv
<1> QED
  BY <1>7, <1>8
=============================================================================
