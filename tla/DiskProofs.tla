----------------------------- MODULE DiskProofs -----------------------------
(***************************************************************************)
(* What holds of the event log for every set of jobs and every number of   *)
(* events: the inductive invariant of DiskSpec, from which the four safety *)
(* invariants of Disk and the append-only property follow.                 *)
(***************************************************************************)
EXTENDS Disk, TLAPS, SequenceTheorems

\* A process that has not opened the log, or has let it go, holds nothing.
ClosedIsForgotten ==
  open = "closed" => /\ LastKey \in Nat
                     /\ put = <<>> /\ red = <<>>
                     /\ ted = "idle" /\ req = NoReq
                     /\ sen = 0 /\ dun = 0

\* The inductive invariant.
DiskInv ==
  /\ DiskTypeOK
  /\ LogIsContiguous
  /\ QueueIsNextEvents
  /\ BatchIsQueueFront
  /\ CommittedIsQueued
  /\ ClosedIsForgotten

\* u3_lmdb_gulf finds the length of a log that has no gap.
LEMMA LastKeyOfLog ==
  ASSUME NEW n \in Nat, DOMAIN db = 1 .. n
  PROVE  LastKey = n
<1>1. CASE n = 0
  BY <1>1 DEF LastKey
<1>2. CASE n # 0
  <2>1. n \in 1 .. n /\ (\A e \in 1 .. n : e <= n)
    BY <1>2
  <2>2. DOMAIN db # {}
    BY <2>1
  <2>3. ASSUME NEW m \in 1 .. n, \A e \in 1 .. n : e <= m
        PROVE  m = n
    BY <2>3, <2>1
  <2> QED
    BY <2>1, <2>2, <2>3 DEF LastKey
<1> QED
  BY <1>1, <1>2

\* _disk_commit_done frees exactly the durable facts of a queue of
\* consecutive events.
LEMMA TrimDropsDurable ==
  ASSUME NEW q \in Seq(Fact), NEW b \in Nat, NEW n \in 0 .. Len(q),
         \A i \in 1 .. Len(q) : q[i].eve = b + i
  PROVE  DiskTrim(q, b + n) = SubSeq(q, n + 1, Len(q))
<1> DEFINE P(k) == /\ \A i \in 1 .. k : q[i].eve <= b + n
                   /\ k < Len(q) => q[k + 1].eve > b + n
<1>1. Len(q) \in Nat
  OBVIOUS
<1>2. P(n)
  <2>1. ASSUME NEW i \in 1 .. n PROVE q[i].eve <= b + n
    <3>1. i \in 1 .. Len(q)
      BY <1>1
    <3>2. q[i].eve = b + i
      BY <3>1
    <3> QED
      BY <3>2
  <2>2. ASSUME n < Len(q) PROVE q[n + 1].eve > b + n
    <3>1. n + 1 \in 1 .. Len(q)
      BY <1>1, <2>2
    <3>2. q[n + 1].eve = b + (n + 1)
      BY <3>1
    <3> QED
      BY <3>2
  <2> QED
    BY <2>1, <2>2
<1>3. ASSUME NEW k \in 0 .. Len(q), P(k)
      PROVE  k = n
  <2>1. CASE k < n
    BY <1>1, <1>3, <2>1
  <2>2. CASE k > n
    <3>1. k \in 1 .. k /\ k \in 1 .. Len(q)
      BY <1>1, <2>2
    <3>2. q[k].eve <= b + n /\ q[k].eve = b + k
      BY <1>3, <3>1
    <3> QED
      BY <3>2, <2>2, <1>1
  <2> QED
    BY <2>1, <2>2, <1>1
<1>4. (CHOOSE k \in 0 .. Len(q) : P(k)) = n
  <2> HIDE DEF P
  <2> QED
    BY <1>2, <1>3
<1> QED
  BY <1>4 DEF DiskTrim

-----------------------------------------------------------------------------

LEMMA DiskInitInv == DiskInit => DiskInv
<1> SUFFICES ASSUME DiskInit PROVE DiskInv
  OBVIOUS
<1> USE DEF DiskInit
<1>1. DOMAIN db = 1 .. 0
  OBVIOUS
<1>2. LastKey = 0
  BY <1>1 DEF LastKey
<1>3. DiskTypeOK
  BY DEF DiskTypeOK, MetaKeys, NoReq, Batch
<1>4. LogIsContiguous
  BY <1>1, <1>2 DEF LogIsContiguous
<1> QED
  BY <1>2, <1>3, <1>4 DEF DiskInv, QueueIsNextEvents, BatchIsQueueFront,
                    CommittedIsQueued, ClosedIsForgotten

\* _disk_commit with an idle thread: what is handed over is the whole queue.
LEMMA CommitIdle ==
  ASSUME NEW q \in Seq(Fact), NEW s \in Nat, NEW d \in Nat,
         Len(q) = s - d, d <= s,
         \A i \in 1 .. Len(q) : q[i].eve = d + i,
         DiskCommit(q, s, d, "idle")
  PROVE  /\ s = d => ted' = "idle" /\ req' = NoReq
         /\ s # d => /\ ted' = "queued"
                     /\ req' \in Batch
                     /\ req'.eve = d + 1
                     /\ Len(req'.jobs) = Len(q)
                     /\ \A i \in 1 .. Len(q) : req'.jobs[i] = q[i].job
<1>1. CASE s = d
  BY <1>1 DEF DiskCommit
<1>2. CASE s # d
  <2>1. s > d /\ s - d \in Nat /\ 1 \in 1 .. Len(q)
    BY <1>2
  <2>2. q[1] \in Fact /\ q[1].eve = d + 1
    BY <2>1
  <2>3. ASSUME NEW i \in 1 .. Len(q) PROVE q[i].job \in Job
    <3>1. q[i] \in Fact
      OBVIOUS
    <3> QED
      BY <3>1 DEF Fact
  <2> DEFINE js == [i \in 1 .. (s - d) |-> q[i].job]
  <2>4. js \in Seq(Job) /\ Len(js) = Len(q)
    BY <2>1, <2>3
  <2>5. ted' = "queued" /\ req' = [eve |-> d + 1, jobs |-> js]
    BY <2>1, <2>2 DEF DiskCommit
  <2> HIDE DEF js
  <2>6. req' \in Batch
    BY <2>4, <2>5 DEF Batch
  <2>7. \A i \in 1 .. Len(q) : js[i] = q[i].job
    BY DEF js
  <2> QED
    BY <1>2, <2>4, <2>5, <2>6, <2>7
<1> QED
  BY <1>1, <1>2

\* _disk_commit with a write under way changes nothing.
LEMMA CommitBusy ==
  ASSUME NEW q, NEW s, NEW d, NEW t, t # "idle", DiskCommit(q, s, d, t)
  PROVE  ted' = t /\ req' = req
BY DEF DiskCommit

\* A step that appends the queue's next events and then commits, as
\* u3_disk_plan and u3_disk_boot_plan do.
LEMMA EnqueueInv ==
  ASSUME DiskInv, open = "live", NEW x \in Seq(Fact), Len(x) > 0,
         \A i \in 1 .. Len(x) : x[i].eve = sen + i,
         put' = put \o x, sen' = sen + Len(x),
         DiskCommit(put \o x, sen + Len(x), dun, ted),
         UNCHANGED <<db, meta, open, dun, red>>
  PROVE  DiskInv'
<1> DEFINE q == put \o x
<1>1. /\ put \in Seq(Fact) /\ sen \in Nat /\ dun \in Nat /\ dun <= sen
      /\ Len(put) = sen - dun /\ Len(x) \in Nat
      /\ \A i \in 1 .. Len(put) : put[i].eve = dun + i
  BY DEF DiskInv, DiskTypeOK, QueueIsNextEvents
<1>2. q \in Seq(Fact) /\ Len(q) = (sen + Len(x)) - dun
  <2>1. q \in Seq(Fact)
    BY <1>1
  <2>2. Len(q) = Len(put) + Len(x)
    BY <1>1, ConcatProperties
  <2> QED
    BY <1>1, <2>1, <2>2
<1>3. /\ \A i \in 1 .. Len(put) : q[i] = put[i]
      /\ \A i \in 1 .. Len(q) : i > Len(put) => i - Len(put) \in 1 .. Len(x)
                                             /\ q[i] = x[i - Len(put)]
  BY <1>1
<1>4. ASSUME NEW i \in 1 .. Len(q) PROVE q[i].eve = dun + i
  <2>1. CASE i \in 1 .. Len(put)
    BY <1>1, <1>3, <2>1
  <2>2. CASE i > Len(put)
    <3>1. x[i - Len(put)].eve = sen + (i - Len(put))
      BY <1>3, <2>2
    <3> QED
      BY <1>1, <1>3, <2>2, <3>1
  <2> QED
    BY <1>1, <1>2, <2>1, <2>2
<1>5. QueueIsNextEvents'
  BY <1>1, <1>2, <1>4 DEF QueueIsNextEvents
<1>6. DiskCommit(q, sen + Len(x), dun, ted)
  OBVIOUS
<1>7. put' = q /\ sen' = sen + Len(x) /\ sen + Len(x) \in Nat
  BY <1>1
<1> HIDE DEF q
<1>8. CASE ted = "idle"
  <2>1. /\ ted' = "queued" /\ req' \in Batch /\ req'.eve = dun + 1
        /\ Len(req'.jobs) = Len(q)
        /\ \A i \in 1 .. Len(q) : req'.jobs[i] = q[i].job
    <3>1. DiskCommit(q, sen + Len(x), dun, "idle")
      BY <1>6, <1>8
    <3>2. sen + Len(x) # dun /\ dun <= sen + Len(x)
      BY <1>1
    <3> QED
      <4> DEFINE s == sen + Len(x)
      <4>1. s \in Nat
        BY <1>7
      <4> HIDE DEF s
      <4>2. DiskCommit(q, s, dun, "idle") /\ s # dun /\ dun <= s /\ Len(q) = s - dun
        BY <1>2, <3>1, <3>2 DEF s
      <4>3. dun \in Nat /\ q \in Seq(Fact) /\ \A i \in 1 .. Len(q) : q[i].eve = dun + i
        BY <1>1, <1>2, <1>4
      <4> QED
        BY ONLY <4>1, <4>2, <4>3, CommitIdle
  <2>2. Len(q) \in 1 .. Len(q)
    BY <1>1, <1>2
  <2>3. DiskTypeOK'
    BY <1>2, <1>7, <2>1 DEF DiskInv, DiskTypeOK
  <2>4. LogIsContiguous'
    BY <1>8, <2>1 DEF DiskInv, LogIsContiguous, Durable
  <2>5. BatchIsQueueFront' /\ CommittedIsQueued'
    BY <1>7, <2>1, <2>2 DEF BatchIsQueueFront, CommittedIsQueued
  <2> QED
    BY <1>5, <2>3, <2>4, <2>5 DEF DiskInv, ClosedIsForgotten
<1>9. CASE ted # "idle"
  <2>1. ted' = ted /\ req' = req
    BY <1>6, <1>9, CommitBusy
  <2>2. DiskTypeOK'
    BY <1>2, <1>7, <2>1 DEF DiskInv, DiskTypeOK
  <2>3. LogIsContiguous'
    BY <2>1 DEF DiskInv, LogIsContiguous, Durable, BatchEnd, LastKey
  <2>4. /\ req.eve = dun + 1 /\ Len(req.jobs) \in 1 .. Len(put)
        /\ \A i \in 1 .. Len(req.jobs) : req.jobs[i] = put[i].job
    BY <1>9 DEF DiskInv, BatchIsQueueFront
  <2>5. /\ \A i \in 1 .. Len(req.jobs) : i \in 1 .. Len(put)
        /\ Len(req.jobs) \in 1 .. Len(q)
    BY <1>1, <1>2, <2>4
  <2>6. BatchIsQueueFront'
    BY <1>3, <1>7, <1>9, <2>1, <2>4, <2>5 DEF BatchIsQueueFront
  <2>7. CommittedIsQueued'
    BY <1>3, <1>7, <2>1, <2>5 DEF DiskInv, CommittedIsQueued
  <2> QED
    BY <1>5, <2>2, <2>3, <2>6, <2>7 DEF DiskInv, ClosedIsForgotten
<1> QED
  BY <1>8, <1>9

LEMMA PlanInv ==
  ASSUME DiskInv, open = "live", NEW j \in Job,
         DiskPlan([eve |-> sen + 1, job |-> j])
  PROVE  DiskInv'
<1> DEFINE x == <<[eve |-> sen + 1, job |-> j]>>
<1>1. sen \in Nat
  BY DEF DiskInv, DiskTypeOK
<1>2. x \in Seq(Fact) /\ Len(x) = 1 /\ x[1].eve = sen + 1
  BY <1>1 DEF Fact
<1>3. /\ sen' = sen + Len(x) /\ put' = put \o x
      /\ DiskCommit(put \o x, sen + Len(x), dun, ted)
      /\ UNCHANGED <<db, meta, open, dun, red>>
  BY DEF DiskPlan, Enqueue
<1> HIDE DEF x
<1>4. \A i \in 1 .. Len(x) : x[i].eve = sen + i
  BY <1>2
<1>5. x \in Seq(Fact) /\ Len(x) > 0
  BY <1>2
<1> QED
  BY <1>3, <1>4, <1>5, EnqueueInv

LEMMA BootInv ==
  ASSUME DiskInv, open = "live", NEW n \in Nat \ {0}, NEW js \in [1 .. n -> Job],
         DiskBoot(js)
  PROVE  DiskInv'
<1> DEFINE x == [i \in 1 .. n |-> [eve |-> sen + i, job |-> js[i]]]
<1>1. sen \in Nat
  BY DEF DiskInv, DiskTypeOK
<1>2. js \in Seq(Job) /\ Len(js) = n
  OBVIOUS
<1>3. \A i \in 1 .. n : [eve |-> sen + i, job |-> js[i]] \in Fact
  BY <1>1 DEF Fact
<1>4. x \in Seq(Fact) /\ Len(x) = n
  BY <1>3
<1>5. /\ sen' = sen + Len(x) /\ put' = put \o x
      /\ DiskCommit(put \o x, sen + Len(x), dun, ted)
      /\ UNCHANGED <<db, meta, open, dun, red>>
  BY <1>2 DEF DiskBoot, Enqueue
<1>6. \A i \in 1 .. n : x[i].eve = sen + i
  OBVIOUS
<1> HIDE DEF x
<1>7. Len(x) > 0 /\ \A i \in 1 .. Len(x) : x[i].eve = sen + i
  BY <1>4, <1>6
<1> QED
  BY <1>4, <1>5, <1>7, EnqueueInv

\* _disk_commit_done: the trimmed queue is what follows the batch.
LEMMA CommitDoneInv ==
  ASSUME DiskInv, open = "live", NEW rd \in Seq(Read), DiskCommitDone(rd)
  PROVE  DiskInv'
<1> DEFINE n == Len(req.jobs)
           d == dun + n
           q == SubSeq(put, n + 1, Len(put))
<1>1. /\ put \in Seq(Fact) /\ sen \in Nat /\ dun \in Nat /\ dun <= sen
      /\ Len(put) = sen - dun /\ Len(put) \in Nat
      /\ \A i \in 1 .. Len(put) : put[i].eve = dun + i
  BY DEF DiskInv, DiskTypeOK, QueueIsNextEvents
<1>2. ted = "good" /\ req.eve = dun + 1 /\ n \in 1 .. Len(put)
  BY DEF DiskCommitDone, DiskInv, BatchIsQueueFront
<1>3. BatchEnd(req) = d /\ d \in Nat
  <2>1. BatchEnd(req) = req.eve + n - 1
    BY DEF BatchEnd
  <2> HIDE DEF n
  <2> QED
    BY <1>1, <1>2, <2>1
<1>4. DiskTrim(put, d) = q
  <2>1. n \in 0 .. Len(put)
    BY <1>1, <1>2
  <2> HIDE DEF n
  <2> QED
    BY <1>1, <2>1, TrimDropsDurable
<1>5. dun' = d /\ put' = q /\ DiskCommit(put', sen, dun', "idle")
  BY <1>3, <1>4 DEF DiskCommitDone
<1>6. q \in Seq(Fact) /\ Len(q) = sen - d /\ d <= sen
  <2>1. n + 1 \in Int /\ Len(put) \in Int /\ \A i \in n + 1 .. Len(put) : put[i] \in Fact
    BY <1>1, <1>2
  <2>2. q \in Seq(Fact) /\ Len(q) = IF n + 1 <= Len(put) THEN Len(put) - (n + 1) + 1 ELSE 0
    BY <2>1, SubSeqProperties
  <2> HIDE DEF n, q
  <2>3. n \in Nat /\ n <= Len(put)
    BY <1>1, <1>2
  <2>4. Len(q) = Len(put) - n
    BY <1>1, <2>2, <2>3
  <2> QED
    BY <1>1, <2>2, <2>3, <2>4
<1>7. ASSUME NEW i \in 1 .. Len(q) PROVE q[i].eve = d + i
  <2>1. i \in 1 .. (Len(put) - n) /\ n + i \in 1 .. Len(put)
    BY <1>1, <1>2, <1>6
  <2>2. q[i] = put[n + i]
    <3>1. /\ n + 1 \in Int /\ Len(put) \in Int
          /\ \A k \in n + 1 .. Len(put) : put[k] \in Fact
      BY <1>1, <1>2
    <3>2. i \in 1 .. Len(put) - (n + 1) + 1
      BY <1>1, <1>2, <2>1
    <3>3. q[i] = put[(n + 1) + i - 1]
      BY <3>1, <3>2, SubSeqProperties
    <3>4. (n + 1) + i - 1 = n + i
      BY <1>1, <1>2, <2>1
    <3> QED
      BY <3>3, <3>4
  <2>3. put[n + i].eve = dun + (n + i)
    BY <1>1, <2>1
  <2>4. n \in Nat /\ i \in Nat
    BY <1>1, <1>2
  <2> HIDE DEF n, q
  <2>5. dun + (n + i) = d + i
    BY <1>1, <2>4
  <2> QED
    BY <2>2, <2>3, <2>5
<1>8. UNCHANGED <<db, meta, open, sen>> /\ red' \in Seq(Read)
  BY DEF DiskCommitDone
<1>9. DOMAIN db = 1 .. d
  BY <1>2, <1>3 DEF DiskInv, LogIsContiguous, Durable
<1> HIDE DEF n, d, q
<1>10. DiskCommit(q, sen, d, "idle")
  BY <1>5
<1>11. /\ sen = d => ted' = "idle" /\ req' = NoReq
       /\ sen # d => /\ ted' = "queued"
                     /\ req' \in Batch
                     /\ req'.eve = d + 1
                     /\ Len(req'.jobs) = Len(q)
                     /\ \A i \in 1 .. Len(q) : req'.jobs[i] = q[i].job
  BY <1>1, <1>3, <1>6, <1>7, <1>10, CommitIdle
<1>12. NoReq \in Batch
  BY DEF NoReq, Batch
<1>13. DiskTypeOK'
  BY <1>3, <1>5, <1>6, <1>8, <1>11, <1>12 DEF DiskInv, DiskTypeOK
<1>14. LogIsContiguous'
  BY <1>5, <1>8, <1>9, <1>11 DEF LogIsContiguous, Durable
<1>15. QueueIsNextEvents'
  BY <1>5, <1>6, <1>7, <1>8 DEF QueueIsNextEvents
<1>16. sen # d => Len(q) \in 1 .. Len(q)
  BY <1>1, <1>3, <1>6
<1>17. BatchIsQueueFront' /\ CommittedIsQueued'
  BY <1>5, <1>8, <1>11, <1>16 DEF BatchIsQueueFront, CommittedIsQueued
<1> QED
  BY <1>8, <1>13, <1>14, <1>15, <1>17 DEF DiskInv, ClosedIsForgotten

\* u3_lmdb_save: the committed batch extends the log without a gap.
LEMMA ThreadSaveInv ==
  ASSUME DiskInv, DiskThreadSave
  PROVE  /\ DiskInv'
         /\ \A e \in DOMAIN db : e \in DOMAIN db' /\ db'[e] = db[e]
<1> DEFINE n == Len(req.jobs)
<1>1. /\ ted = "running" /\ ted' = "good" /\ LmdbSave(req)
      /\ UNCHANGED <<meta, open, sen, dun, put, req, red>>
  BY DEF DiskThreadSave
<1>2. /\ req.eve = dun + 1 /\ n \in 1 .. Len(put) /\ dun \in Nat
      /\ req \in Batch
      /\ \A i \in 1 .. n : req.jobs[i] = put[i].job
  BY <1>1 DEF DiskInv, BatchIsQueueFront, DiskTypeOK
<1>3. n \in Nat \ {0} /\ req.jobs \in Seq(Job)
  BY <1>2 DEF Batch
<1>4. BatchKeys(req) = dun + 1 .. dun + n /\ BatchEnd(req) = dun + n
  <2>1. BatchKeys(req) = req.eve .. (req.eve + n - 1) /\ BatchEnd(req) = req.eve + n - 1
    BY DEF BatchKeys, BatchEnd
  <2> HIDE DEF n
  <2>2. req.eve + n - 1 = dun + n
    BY <1>2, <1>3
  <2> QED
    BY <1>2, <2>1, <2>2
<1>5. DOMAIN db = 1 .. dun
  <2>1. open # "closed"
    BY <1>1 DEF DiskInv, ClosedIsForgotten
  <2> QED
    BY <1>1, <2>1 DEF DiskInv, LogIsContiguous, Durable
<1>6. DOMAIN db' = DOMAIN db \cup BatchKeys(req)
  BY <1>1 DEF LmdbSave
<1>7. DOMAIN db' = 1 .. dun + n
  BY <1>2, <1>3, <1>4, <1>5, <1>6
<1>9. \A e \in DOMAIN db : e \in DOMAIN db' /\ db'[e] = db[e]
  BY <1>1, <1>6 DEF LmdbSave
<1>10. ASSUME NEW i \in 1 .. n
       PROVE  dun + i \in DOMAIN db' /\ db'[dun + i] = req.jobs[i]
  <2>1. dun + i \in BatchKeys(req) /\ dun + i \notin DOMAIN db
    BY <1>2, <1>3, <1>4, <1>5
  <2>2. db'[dun + i] = req.jobs[(dun + i) - req.eve + 1]
    BY <1>1, <2>1 DEF LmdbSave
  <2>3. (dun + i) - req.eve + 1 = i
    BY <1>2, <1>3
  <2> QED
    BY <1>6, <2>1, <2>2, <2>3
<1>11. ASSUME NEW e \in DOMAIN db' PROVE db'[e] \in Job
  <2>1. CASE e \in DOMAIN db
    BY <1>9, <2>1 DEF DiskInv, DiskTypeOK
  <2>2. CASE e \notin DOMAIN db
    <3>1. e - dun \in 1 .. n /\ dun + (e - dun) = e
      BY <1>2, <1>3, <1>5, <1>7, <2>2
    <3> QED
      BY <1>3, <1>10, <3>1
  <2> QED
    BY <2>1, <2>2
<1>12. DOMAIN db' \subseteq Nat
  BY <1>7
<1>13. DiskTypeOK'
  BY <1>1, <1>11, <1>12 DEF DiskInv, DiskTypeOK
<1>14. LogIsContiguous'
  <2>1. open # "closed"
    BY <1>1 DEF DiskInv, ClosedIsForgotten
  <2> QED
    BY <1>1, <1>4, <1>7, <2>1 DEF LogIsContiguous, Durable, BatchEnd
<1>15. QueueIsNextEvents' /\ BatchIsQueueFront' /\ ClosedIsForgotten'
  BY <1>1 DEF DiskInv, QueueIsNextEvents, BatchIsQueueFront, ClosedIsForgotten
<1>16. CommittedIsQueued'
  BY <1>1, <1>2, <1>10 DEF CommittedIsQueued
<1> QED
  BY <1>9, <1>13, <1>14, <1>15, <1>16 DEF DiskInv

\* A process that lets the log go, by u3_disk_exit or by dying, leaves the
\* durable log as the next one will find it.
LEMMA ForgetInv ==
  ASSUME DiskInv, open # "closed", open' = "closed", DiskForget,
         UNCHANGED <<db, meta>>
  PROVE  DiskInv'
<1>1. Durable \in Nat
  <2>1. CASE ted = "good"
    <3>1. /\ dun \in Nat /\ req.eve = dun + 1 /\ put \in Seq(Fact)
          /\ Len(req.jobs) \in 1 .. Len(put)
      BY <2>1 DEF DiskInv, DiskTypeOK, BatchIsQueueFront
    <3>2. Durable = req.eve + Len(req.jobs) - 1
      BY <2>1 DEF Durable, BatchEnd
    <3> DEFINE n == Len(req.jobs)
    <3>3. n \in Nat
      BY <3>1
    <3> HIDE DEF n
    <3>4. Durable = dun + n
      <4>1. Durable = req.eve + n - 1
        BY <3>2 DEF n
      <4> QED
        BY <3>1, <3>3, <4>1
    <3> QED
      BY <3>1, <3>3, <3>4
  <2>2. CASE ted # "good"
    BY <2>2 DEF Durable, DiskInv, DiskTypeOK
  <2> QED
    BY <2>1, <2>2
<1>2. DOMAIN db = 1 .. Durable
  BY DEF DiskInv, LogIsContiguous
<1>3. LastKey = Durable
  BY <1>1, <1>2, LastKeyOfLog
<1>4. LastKey' = LastKey
  BY DEF LastKey
<1>5. /\ DOMAIN db' = 1 .. LastKey' /\ LastKey' \in Nat /\ open' = "closed"
      /\ sen' = 0 /\ dun' = 0 /\ put' = <<>> /\ red' = <<>>
      /\ ted' = "idle" /\ req' = NoReq
  BY <1>1, <1>2, <1>3, <1>4 DEF DiskForget
<1>6. NoReq \in Batch
  BY DEF NoReq, Batch
<1>7. DiskTypeOK'
  BY <1>5, <1>6 DEF DiskInv, DiskTypeOK
<1>8. LogIsContiguous'
  BY <1>5 DEF LogIsContiguous
<1>9. QueueIsNextEvents'
  BY <1>5 DEF QueueIsNextEvents
<1> QED
  BY <1>5, <1>7, <1>8, <1>9
     DEF DiskInv, BatchIsQueueFront, CommittedIsQueued, ClosedIsForgotten

\* What leaves everything but the reads, the metadata and the thread's state
\* alone, and neither commits nor finishes a write.
LEMMA QuietInv ==
  ASSUME DiskInv, UNCHANGED <<db, sen, dun, put, req>>,
         open' = open \/ (open' = "hung" /\ open # "closed"),
         ted' \in {"idle", "queued", "running", "good", "bad"},
         ted' = "idle" <=> ted = "idle",
         ted' = "good" <=> ted = "good",
         meta' \in 0 .. MetaKeys, red' \in Seq(Read),
         open = "closed" => red' = <<>> /\ ted' = ted
  PROVE  DiskInv'
<1>1. LastKey' = LastKey
  BY DEF LastKey
<1>2. DiskTypeOK'
  BY DEF DiskInv, DiskTypeOK
<1>3. LogIsContiguous'
  BY <1>1 DEF DiskInv, LogIsContiguous, Durable, BatchEnd
<1>4. QueueIsNextEvents' /\ BatchIsQueueFront' /\ CommittedIsQueued'
  BY DEF DiskInv, QueueIsNextEvents, BatchIsQueueFront, CommittedIsQueued
<1>5. ClosedIsForgotten'
  BY <1>1 DEF DiskInv, ClosedIsForgotten
<1> QED
  BY <1>2, <1>3, <1>4, <1>5 DEF DiskInv

\* u3_disk_init.
LEMMA OpenInv ==
  ASSUME DiskInv, DiskOpen
  PROVE  DiskInv'
<1>1. /\ DOMAIN db = 1 .. LastKey /\ LastKey \in Nat /\ put = <<>> /\ red = <<>>
      /\ ted = "idle" /\ req = NoReq
      /\ open' = "live" /\ sen' = LastKey /\ dun' = LastKey
      /\ UNCHANGED <<db, meta, put, ted, req, red>>
  BY DEF DiskOpen, DiskInv, LogIsContiguous, ClosedIsForgotten
<1>2. DiskTypeOK'
  BY <1>1 DEF DiskInv, DiskTypeOK
<1>3. LogIsContiguous'
  BY <1>1 DEF LogIsContiguous, Durable
<1>4. QueueIsNextEvents'
  BY <1>1 DEF QueueIsNextEvents
<1> QED
  BY <1>1, <1>2, <1>3, <1>4
     DEF DiskInv, BatchIsQueueFront, CommittedIsQueued, ClosedIsForgotten

-----------------------------------------------------------------------------

LEMMA DiskStepInv == DiskInv /\ [DiskNext]_diskVars => DiskInv'
<1> SUFFICES ASSUME DiskInv, [DiskNext]_diskVars PROVE DiskInv'
  OBVIOUS
<1> USE DEF Live
<1>0. /\ meta \in 0 .. MetaKeys /\ red \in Seq(Read) /\ dun \in Nat
      /\ ted \in {"idle", "queued", "running", "good", "bad"}
      /\ open = "closed" => red = <<>> /\ ted = "idle"
  BY DEF DiskInv, DiskTypeOK, ClosedIsForgotten
<1>1. CASE ClientPlan
  <2>1. PICK j \in Job : DiskPlan([eve |-> sen + 1, job |-> j])
    BY <1>1 DEF ClientPlan
  <2> QED
    BY <1>1, <2>1, PlanInv DEF ClientPlan
<1>2. CASE ClientBoot
  <2>1. PICK n \in 1 .. MaxEve : \E js \in [1 .. n -> Job] : DiskBoot(js)
    BY <1>2 DEF ClientBoot
  <2>2. n \in Nat \ {0}
    BY <2>1, EventsAssumption
  <2> QED
    BY <1>2, <2>1, <2>2, BootInv DEF ClientBoot
<1>3. CASE ClientMeta
  <2>1. meta' \in 0 .. MetaKeys
    BY <1>0, <1>3 DEF ClientMeta, DiskSaveMeta, MetaKeys
  <2> QED
    BY <1>0, <1>3, <2>1, QuietInv DEF ClientMeta, DiskSaveMeta
<1>4. CASE ClientRead
  <2>1. PICK e \in 1 .. dun : \E n \in 1 .. (dun - e + 1) : red' = DiskRead(red, e, n)
    BY <1>4 DEF ClientRead
  <2>4. PICK n \in 1 .. (dun - e + 1) : red' = DiskRead(red, e, n)
    BY <2>1
  <2>2. [eve |-> e, len |-> n, sat |-> "start"] \in Read
    BY <1>0 DEF Read
  <2>3. red' \in Seq(Read)
    BY <1>0, <2>4, <2>2 DEF DiskRead
  <2> QED
    BY <1>0, <1>4, <2>3, QuietInv DEF ClientRead
<1>5. CASE Exit
  <2>1. CASE ted \in {"idle", "queued"}
    BY <1>5, <2>1, ForgetInv DEF Exit, DiskExit
  <2>2. CASE ted \notin {"idle", "queued"}
    BY <1>0, <1>5, <2>2, QuietInv DEF Exit, DiskExit
  <2> QED
    BY <2>1, <2>2
<1>6. CASE DiskThreadStart
  BY <1>0, <1>6, QuietInv DEF DiskThreadStart
<1>7. CASE DiskThreadSave
  BY <1>7, ThreadSaveInv
<1>8. CASE CommitDone
  BY <1>0, <1>8, CommitDoneInv DEF CommitDone
<1>9. CASE ReadStart
  <2>1. PICK i \in DOMAIN red : DiskReadStart(i)
    BY <1>9 DEF ReadStart
  <2>2. red' \in Seq(Read)
    <3>1. DOMAIN red = 1 .. Len(red) /\ red[i] \in Read
      BY <1>0, <2>1
    <3>2. [red[i] EXCEPT !.sat = "done"] \in Read
      BY <3>1 DEF Read
    <3>3. red' = [red EXCEPT ![i] = [red[i] EXCEPT !.sat = "done"]]
      BY <2>1 DEF DiskReadStart
    <3> QED
      BY <1>0, <2>1, <3>1, <3>2, <3>3
  <2> QED
    BY <1>0, <1>9, <2>1, <2>2, QuietInv DEF ReadStart, DiskReadStart
<1>10. CASE ReadDone
  <2>1. PICK i \in DOMAIN red : red' = DiskReadClose(i)
    BY <1>10 DEF ReadDone
  <2>2. SubSeq(red, 1, i - 1) \in Seq(Read) /\ SubSeq(red, i + 1, Len(red)) \in Seq(Read)
    <3>1. i \in 1 .. Len(red) /\ Len(red) \in Nat
      BY <1>0, <2>1
    <3>2. /\ \A k \in 1 .. i - 1 : red[k] \in Read
          /\ \A k \in i + 1 .. Len(red) : red[k] \in Read
      BY <1>0, <3>1
    <3> QED
      BY <3>1, <3>2, SubSeqProperties
  <2>3. red' \in Seq(Read)
    BY <2>1, <2>2, ConcatProperties DEF DiskReadClose
  <2> QED
    BY <1>0, <1>10, <2>3, QuietInv DEF ReadDone
<1>11. CASE DiskThreadFail
  BY <1>0, <1>11, QuietInv DEF DiskThreadFail
<1>12. CASE CommitBail
  BY <1>12, ForgetInv DEF CommitBail, DiskCrash
<1>13. CASE Crash
  BY <1>13, ForgetInv DEF Crash, DiskCrash
<1>14. CASE DiskOpen
  BY <1>14, OpenInv
<1>15. CASE UNCHANGED diskVars
  BY <1>15 DEF diskVars, DiskInv, DiskTypeOK, LogIsContiguous, QueueIsNextEvents,
     BatchIsQueueFront, CommittedIsQueued, ClosedIsForgotten, Durable, BatchEnd, LastKey
<1> QED
  BY <1>1, <1>2, <1>3, <1>4, <1>5, <1>6, <1>7, <1>8, <1>9, <1>10, <1>11,
     <1>12, <1>13, <1>14, <1>15 DEF DiskNext, DiskClient, DiskWork

\* Every state of the log keeps its types, and its numbers, queue, batch in
\* flight and durable events in step (_disk_commit, _disk_batch, u3_lmdb_save).
THEOREM DiskInvariant == DiskSpec => []DiskInv
<1>1. DiskInit => DiskInv
  BY DiskInitInv
<1>2. DiskInv /\ [DiskNext]_diskVars => DiskInv'
  BY DiskStepInv
<1> QED
  BY <1>1, <1>2, PTL DEF DiskSpec

\* Type correctness of the log (the fields of u3_disk).
THEOREM DiskTypeCorrect == DiskSpec => []DiskTypeOK
<1>1. DiskInv => DiskTypeOK
  BY DEF DiskInv
<1> QED
  BY <1>1, DiskInvariant, PTL

\* The durable log has no gap, and ends where the process believes that it
\* does, in every state of every run with crashes.
THEOREM DiskLogContiguous == DiskSpec => []LogIsContiguous
<1>1. DiskInv => LogIsContiguous
  BY DEF DiskInv
<1> QED
  BY <1>1, DiskInvariant, PTL

\* The queue, the batch in flight and the log agree: the assertions of
\* u3_disk_plan and _disk_batch cannot fail, and a committed batch is still at
\* the front of the queue when it is trimmed.
THEOREM DiskBooksAgree == DiskSpec => []BooksAgree
<1>1. DiskInv => BooksAgree
  BY DEF DiskInv, BooksAgree
<1> QED
  BY <1>1, DiskInvariant, PTL

\* No event in the log is ever rewritten or dropped, whatever is planned, fails
\* or crashes (u3_lmdb_save).
THEOREM DiskAppendOnly == DiskSpec => LogAppendOnly
<1> DEFINE A == \A e \in DOMAIN db : e \in DOMAIN db' /\ db'[e] = db[e]
<1>1. DiskInv /\ [DiskNext]_diskVars => [A]_diskVars
  <2> SUFFICES ASSUME DiskInv, DiskNext PROVE A
    OBVIOUS
  <2>1. CASE DiskThreadSave
    BY <2>1, ThreadSaveInv
  <2>2. CASE ~ DiskThreadSave
    <3>1. db' = db
      BY <2>2 DEF DiskNext, DiskClient, DiskWork, ClientPlan, ClientBoot, ClientMeta,
           ClientRead, Exit, DiskThreadStart, CommitDone, ReadStart, ReadDone,
           DiskThreadFail, CommitBail, Crash, DiskOpen, DiskPlan, DiskBoot, Enqueue,
           DiskSaveMeta, DiskExit, DiskCrash, DiskReadStart, DiskCommitDone
    <3> QED
      BY <3>1
  <2> QED
    BY <2>1, <2>2
<1> QED
  BY <1>1, DiskInvariant, PTL DEF DiskSpec, LogAppendOnly

-----------------------------------------------------------------------------
(* Refinement: the event log with its queue, batches and thread implements *)
(* EventLog, for every set of jobs and every number of events: each step   *)
(* of DiskNext is, under the refinement mapping of Disk, a step of LogNext *)
(* or changes nothing that EventLog sees.                                  *)

\* The length of the log that the process, or the next one, counts on.
History == IF open = "closed" THEN LastKey ELSE Durable

\* What the mapping sees of a state, in terms of its numbers.
Mapped ==
  /\ History \in Nat /\ LastKey = History /\ DOMAIN db = 1 .. History
  /\ sen - Durable \in Nat
  /\ DbSeq \in Seq(Job) /\ Len(DbSeq) = History
  /\ Pending \in Seq(Job) /\ Len(Pending) = sen - Durable
  /\ Durable \in Nat /\ dun <= Durable

\* The mapping is well typed, and its numbers are those of the table.
LEMMA DiskMapped == DiskInv => Mapped
<1> SUFFICES ASSUME DiskInv PROVE Mapped
  OBVIOUS
<1>1. /\ sen \in Nat /\ dun \in Nat /\ put \in Seq(Fact) /\ dun <= sen
      /\ Len(put) = sen - dun
  BY DEF DiskInv, DiskTypeOK, QueueIsNextEvents
<1>2. Durable \in Nat /\ dun <= Durable /\ Durable <= sen
  <2>1. CASE ted = "good"
    <3>1. req.eve = dun + 1 /\ Len(req.jobs) \in 1 .. Len(put)
      BY <2>1 DEF DiskInv, BatchIsQueueFront
    <3>2. Durable = (dun + 1) + Len(req.jobs) - 1
      BY <2>1, <3>1 DEF Durable, BatchEnd
    <3>3. Len(req.jobs) \in 1 .. (sen - dun)
      BY <1>1, <3>1
    <3> DEFINE n == Len(req.jobs)
    <3> HIDE DEF n
    <3>4. n \in 1 .. (sen - dun) /\ Durable = (dun + 1) + n - 1
      BY <3>2, <3>3 DEF n
    <3> QED
      BY <1>1, <3>4
  <2>2. CASE ted # "good"
    BY <1>1, <2>2 DEF Durable
  <2> QED
    BY <2>1, <2>2
<1>3. History \in Nat /\ DOMAIN db = 1 .. History
  BY <1>2 DEF DiskInv, LogIsContiguous, ClosedIsForgotten, History
<1>4. LastKey = History
  BY <1>3, LastKeyOfLog
<1>5. DbSeq \in Seq(Job) /\ Len(DbSeq) = History
  <2>1. \A i \in 1 .. History : db[i] \in Job
    BY <1>3 DEF DiskInv, DiskTypeOK
  <2> QED
    BY <1>3, <1>4, <2>1 DEF DbSeq
<1>6. Pending \in Seq(Job) /\ Len(Pending) = sen - Durable
  <2>1. ASSUME NEW i \in 1 .. (sen - Durable) PROVE put[i + Durable - dun].job \in Job
    <3>1. i + Durable - dun \in 1 .. Len(put)
      BY <1>1, <1>2
    <3>2. put[i + Durable - dun] \in Fact
      BY <1>1, <3>1
    <3> QED
      BY <3>2 DEF Fact
  <2> QED
    BY <1>1, <1>2, <2>1 DEF Pending
<1> QED
  BY <1>1, <1>2, <1>3, <1>4, <1>5, <1>6 DEF Mapped

\* The same of the state after a step.
LEMMA DiskMappedNext == DiskInv' => Mapped'
BY DiskMapped, PTL

-----------------------------------------------------------------------------

\* Before anything is planned, no event, an empty queue and no acknowledgement.
LEMMA InitRefines == DiskInit => Promise!LogInit
<1> SUFFICES ASSUME DiskInit PROVE Promise!LogInit
  OBVIOUS
<1>1. DOMAIN db = 1 .. 0
  BY DEF DiskInit
<1>2. LastKey = 0
  BY <1>1, LastKeyOfLog
<1>3. DbSeq = <<>>
  BY <1>2 DEF DbSeq
<1>4. Pending = <<>>
  BY DEF DiskInit, Pending, Durable
<1> QED
  BY <1>2, <1>3, <1>4 DEF DiskInit, Acked, Promise!LogInit

\* A step that leaves the log, the queue and the last durable event alone.
LEMMA QuietRefines ==
  ASSUME UNCHANGED <<db, sen, dun, put, open>>, Durable' = Durable
  PROVE  UNCHANGED Promise!logVars
BY DEF DbSeq, Pending, Acked, LastKey, Promise!logVars

\* Events join the queue: u3_disk_plan, u3_disk_boot_plan.
LEMMA PlanRefines ==
  ASSUME DiskInv, DiskInv', open = "live", NEW x \in Seq(Fact), Len(x) > 0, Enqueue(x)
  PROVE  Promise!LogPlan
<1>1. /\ put \in Seq(Fact) /\ sen \in Nat /\ dun \in Nat /\ Len(put) = sen - dun
      /\ ted \in {"idle", "queued", "running", "good", "bad"} /\ dun <= sen
  BY DEF DiskInv, DiskTypeOK, QueueIsNextEvents
<1>2. Mapped /\ Mapped'
  BY DiskMapped, DiskMappedNext
<1>3. UNCHANGED <<db, open, dun>> /\ sen' = sen + Len(x) /\ put' = put \o x
  BY DEF Enqueue
<1>4. Durable' = Durable
  <2>1. CASE ted = "idle"
    BY <1>3, <2>1 DEF Enqueue, DiskCommit, Durable
  <2>2. CASE ted # "idle"
    BY <1>3, <2>2, CommitBusy DEF Enqueue, Durable, BatchEnd
  <2> QED
    BY <2>1, <2>2
<1>5. UNCHANGED <<DbSeq, Acked>>
  BY <1>3 DEF DbSeq, Acked, LastKey
<1>6. Len(Pending') = Len(Pending) + Len(x) /\ Len(Pending) = sen - Durable
  BY <1>1, <1>2, <1>3, <1>4 DEF Mapped
<1>7. ASSUME NEW i \in 1 .. Len(Pending) PROVE Pending'[i] = Pending[i]
  <2>1. i + Durable - dun \in 1 .. Len(put)
    BY <1>1, <1>2, <1>6 DEF Mapped
  <2>2. put'[i + Durable - dun] = put[i + Durable - dun]
    BY <1>1, <1>3, <2>1
  <2>3. i \in 1 .. (sen - Durable) /\ i \in 1 .. (sen' - Durable')
    BY <1>1, <1>2, <1>3, <1>4, <1>6 DEF Mapped
  <2> QED
    BY <1>3, <1>4, <2>2, <2>3 DEF Pending
<1>8. SubSeq(Pending', 1, Len(Pending)) = Pending
  <2> DEFINE p == Pending
             r == Pending'
  <2>1. p \in Seq(Job) /\ r \in Seq(Job) /\ Len(p) <= Len(r)
    BY <1>2, <1>6 DEF Mapped
  <2>2. \A i \in 1 .. Len(p) : r[i] = p[i]
    BY <1>7
  <2> HIDE DEF p, r
  <2>3. SubSeq(r, 1, Len(p)) = p
    BY <2>1, <2>2
  <2> QED
    BY <2>3 DEF p, r
<1>9. Len(Pending') > Len(Pending)
  BY <1>2, <1>6 DEF Mapped
<1> QED
  BY <1>5, <1>8, <1>9 DEF Promise!LogPlan

\* The transaction of the thread commits: a group of events at once.
LEMMA SaveRefines ==
  ASSUME DiskInv, DiskInv', DiskThreadSave
  PROVE  Promise!LogPersist
<1> DEFINE n == Len(req.jobs)
<1>1. /\ put \in Seq(Fact) /\ sen \in Nat /\ dun \in Nat /\ Len(put) = sen - dun
      /\ dun <= sen
  BY DEF DiskInv, DiskTypeOK, QueueIsNextEvents
<1>2. /\ ted = "running" /\ ted' = "good" /\ LmdbSave(req)
      /\ UNCHANGED <<open, sen, dun, put, req>>
  BY DEF DiskThreadSave
<1>3. Mapped /\ Mapped'
  BY DiskMapped, DiskMappedNext
<1>4. /\ req.eve = dun + 1 /\ n \in 1 .. Len(put)
      /\ open # "closed"
  BY <1>2 DEF DiskInv, BatchIsQueueFront, ClosedIsForgotten
<1>5. \A i \in 1 .. n : req.jobs[i] = put[i].job
  BY <1>2 DEF DiskInv, BatchIsQueueFront
<1>6. Durable = dun /\ Durable' = (dun + 1) + n - 1
  BY <1>2, <1>4 DEF Durable, BatchEnd
<1> HIDE DEF n
<1>7. Durable' = dun + n
  BY <1>1, <1>4, <1>6
<1>8. /\ LastKey = dun /\ LastKey' = dun + n /\ DOMAIN db = 1 .. dun
      /\ DOMAIN db' = 1 .. (dun + n)
  BY <1>2, <1>3, <1>4, <1>6, <1>7 DEF Mapped, History
<1>9. \A e \in 1 .. dun : db'[e] = db[e]
  BY <1>8, ThreadSaveInv
<1>10. ASSUME NEW i \in 1 .. n PROVE db'[dun + i] = put[i].job
  <2>1. dun + i \in 1 .. (dun + n) /\ i \in 1 .. Len(put)
    BY <1>1, <1>4
  <2>2. CommittedIsQueued'
    BY DEF DiskInv
  <2>3. \A k \in 1 .. Len(req'.jobs) : db'[dun' + k] = put'[k].job
    BY <1>2, <2>2 DEF CommittedIsQueued
  <2> QED
    BY <1>2, <2>3 DEF n
<1>11. /\ Len(Pending) = Len(put) /\ Pending \in Seq(Job)
       /\ \A i \in 1 .. Len(put) : Pending[i] = put[i].job
  <2>1. Len(Pending) = Len(put) /\ Pending \in Seq(Job)
    BY <1>1, <1>3, <1>6 DEF Mapped
  <2>2. ASSUME NEW i \in 1 .. Len(put) PROVE Pending[i] = put[i].job
    <3>1. i \in 1 .. (sen - Durable) /\ i + Durable - dun = i
      BY <1>1, <1>6
    <3> QED
      BY <3>1 DEF Pending
  <2> QED
    BY <2>1, <2>2
<1>12. DbSeq' = DbSeq \o SubSeq(Pending, 1, n)
  <2> DEFINE l == DbSeq
             m == DbSeq'
             b == SubSeq(Pending, 1, n)
  <2>1. l = [i \in 1 .. dun |-> db[i]] /\ m = [i \in 1 .. (dun + n) |-> db'[i]]
    BY <1>8 DEF DbSeq
  <2>2. l \in Seq(Job) /\ m \in Seq(Job) /\ Len(l) = dun /\ Len(m) = dun + n
    <3>1. History = dun /\ History' = dun + n
      BY <1>3, <1>8 DEF Mapped
    <3> QED
      BY <1>3, <3>1 DEF Mapped
  <2>3. b \in Seq(Job) /\ Len(b) = n /\ (\A i \in 1 .. n : b[i] = put[i].job)
    BY <1>1, <1>4, <1>11
  <2>4. ASSUME NEW i \in 1 .. dun PROVE m[i] = l[i]
    BY <1>1, <1>4, <1>9, <2>1
  <2>5. ASSUME NEW i \in dun + 1 .. dun + n PROVE m[i] = b[i - dun]
    <3>1. i - dun \in 1 .. n /\ dun + (i - dun) = i /\ i \in 1 .. (dun + n)
      BY <1>1, <1>4
    <3>2. db'[dun + (i - dun)] = put[i - dun].job
      BY <1>10, <3>1
    <3> QED
      BY <2>1, <2>3, <3>1, <3>2
  <2> HIDE DEF l, m, b
  <2>6. m = l \o b
    <3>1. l \o b \in Seq(Job) /\ Len(l \o b) = dun + n
      BY <2>2, <2>3, ConcatProperties
    <3>2. ASSUME NEW i \in 1 .. (dun + n) PROVE m[i] = (l \o b)[i]
      <4>0. i <= dun \/ i > dun
        BY <1>1, <1>4
      <4>1. CASE i <= dun
        <5>1. i \in 1 .. dun /\ (l \o b)[i] = l[i]
          BY <1>1, <2>2, <2>3, <4>1
        <5> QED
          BY <2>4, <5>1
      <4>2. CASE i > dun
        <5>1. i \in dun + 1 .. dun + n /\ (l \o b)[i] = b[i - dun]
          BY <1>1, <1>4, <2>2, <2>3, <4>2
        <5> QED
          BY <2>5, <5>1
      <4> QED
        BY <4>0, <4>1, <4>2
    <3> QED
      BY <2>2, <3>1, <3>2, SeqEqual
  <2> QED
    BY <2>6 DEF l, m, b
<1>13. Pending' = SubSeq(Pending, n + 1, Len(Pending))
  <2> DEFINE p == Pending
             r == Pending'
  <2>1. p \in Seq(Job) /\ Len(p) = Len(put) /\ (\A i \in 1 .. Len(put) : p[i] = put[i].job)
    BY <1>11
  <2>2. r = [i \in 1 .. (sen - (dun + n)) |-> put[i + (dun + n) - dun].job]
    BY <1>2, <1>7 DEF Pending
  <2>3. ASSUME NEW i \in 1 .. (sen - (dun + n))
        PROVE  put[i + (dun + n) - dun].job = p[i + n]
    <3>1. i + (dun + n) - dun = i + n /\ i + n \in 1 .. Len(put)
      BY <1>1, <1>4
    <3> QED
      BY <2>1, <3>1
  <2>4. sen - (dun + n) = Len(p) - n
    BY <1>1, <1>4, <2>1
  <2> HIDE DEF p, r
  <2>5. SubSeq(p, n + 1, Len(p)) = [i \in 1 .. (Len(p) - n) |-> p[i + n]]
    BY <1>1, <1>4, <2>1
  <2>6. r = SubSeq(p, n + 1, Len(p))
    BY <2>2, <2>3, <2>4, <2>5
  <2> QED
    BY <2>6 DEF p, r
<1>14. Acked' = Acked
  BY <1>2, <1>4 DEF Acked
<1>15. n \in 1 .. Len(Pending)
  BY <1>4, <1>11
<1> QED
  BY <1>12, <1>13, <1>14, <1>15 DEF Promise!LogPersist

\* The callback acknowledges the batch: _disk_commit_done.
LEMMA AckRefines ==
  ASSUME DiskInv, DiskInv', CommitDone
  PROVE  Promise!LogAck
<1> DEFINE n == Len(req.jobs)
<1>1. /\ put \in Seq(Fact) /\ sen \in Nat /\ dun \in Nat /\ Len(put) = sen - dun
      /\ dun <= sen /\ \A i \in 1 .. Len(put) : put[i].eve = dun + i
  BY DEF DiskInv, DiskTypeOK, QueueIsNextEvents
<1>2. /\ ted = "good" /\ open = "live" /\ dun' = BatchEnd(req)
      /\ put' = DiskTrim(put, BatchEnd(req)) /\ DiskCommit(put', sen, dun', "idle")
      /\ UNCHANGED <<db, open, sen>>
  BY DEF CommitDone, DiskCommitDone, Live
<1>3. req.eve = dun + 1 /\ n \in 1 .. Len(put)
  BY <1>2 DEF DiskInv, BatchIsQueueFront
<1>4. dun' = (dun + 1) + n - 1
  BY <1>2, <1>3 DEF BatchEnd
<1> HIDE DEF n
<1>5. dun' = dun + n /\ n \in Nat \ {0} /\ n \in 0 .. Len(put)
  BY <1>1, <1>3, <1>4
<1>6. put' = SubSeq(put, n + 1, Len(put))
  BY <1>1, <1>2, <1>5, TrimDropsDurable
<1>7. Durable = dun + n /\ Durable' = dun + n
  <2>1. ted' \in {"idle", "queued"}
    BY <1>2 DEF DiskCommit
  <2> QED
    BY <1>2, <1>5, <2>1 DEF Durable
<1>8. Len(DbSeq) = dun + n
  BY <1>2, <1>7, DiskMapped DEF Mapped, History
<1>9. UNCHANGED DbSeq
  BY <1>2 DEF DbSeq, LastKey
<1>10. Acked = dun /\ Acked' = dun + n
  BY <1>2, <1>5 DEF Acked
<1>11. Pending' = Pending
  <2>1. Pending = [i \in 1 .. (sen - (dun + n)) |-> put[i + (dun + n) - dun].job]
    BY <1>7 DEF Pending
  <2>2. Pending' = [i \in 1 .. (sen - (dun + n)) |-> put'[i + (dun + n) - (dun + n)].job]
    BY <1>2, <1>5, <1>7 DEF Pending
  <2>3. ASSUME NEW i \in 1 .. (sen - (dun + n))
        PROVE  put[i + (dun + n) - dun].job = put'[i + (dun + n) - (dun + n)].job
    <3>1. /\ i + (dun + n) - dun = i + n /\ i + (dun + n) - (dun + n) = i
          /\ i \in 1 .. (Len(put) - n)
      BY <1>1, <1>5
    <3>2. put'[i] = put[i + n]
      BY <1>1, <1>5, <1>6, <3>1
    <3> QED
      BY <3>1, <3>2
  <2> QED
    BY <2>1, <2>2, <2>3
<1> QED
  BY <1>1, <1>5, <1>8, <1>9, <1>10, <1>11 DEF Promise!LogAck

\* A process that lets the log go, or opens it, has the log and nothing else.
LEMMA ResetRefines ==
  ASSUME DiskInv, DiskInv', UNCHANGED db, sen' = dun', ted' = "idle",
         open' = "closed" \/ dun' = LastKey
  PROVE  Promise!LogReset
<1>1. UNCHANGED <<DbSeq, LastKey>>
  BY DEF DbSeq, LastKey
<1>2. Mapped /\ Mapped'
  BY DiskMapped, DiskMappedNext
<1>3. Acked' = Len(DbSeq)
  BY <1>1, <1>2 DEF Mapped, Acked
<1>4. Pending' = <<>>
  <2>1. Durable' = dun'
    BY DEF Durable
  <2>2. /\ Pending' \in Seq(Job) /\ Len(Pending') = sen' - Durable'
        /\ Durable' \in Nat
    BY <1>2 DEF Mapped
  <2>3. sen' = Durable'
    BY <2>1
  <2>4. ASSUME NEW n \in Nat, Len(Pending') = n - n PROVE Len(Pending') = 0
    BY <2>4
  <2>5. Len(Pending') = 0
    BY <2>2, <2>3, <2>4
  <2> QED
    BY <2>2, <2>5, EmptySeq
<1> QED
  BY <1>1, <1>3, <1>4 DEF Promise!LogReset

\* Every step of the log, its thread and its client is one of EventLog or none.
LEMMA StepRefines ==
  ASSUME DiskInv, DiskInv', DiskNext
  PROVE  [Promise!LogNext]_(Promise!logVars)
<1> USE DEF Live
<1>0. sen \in Nat /\ ted \in {"idle", "queued", "running", "good", "bad"}
  BY DEF DiskInv, DiskTypeOK
<1>1. CASE ClientPlan
  <2>1. PICK j \in Job : DiskPlan([eve |-> sen + 1, job |-> j])
    BY <1>1 DEF ClientPlan
  <2> DEFINE x == <<[eve |-> sen + 1, job |-> j]>>
  <2>2. [eve |-> sen + 1, job |-> j] \in Fact
    BY <1>0 DEF Fact
  <2>3. x \in Seq(Fact) /\ Len(x) > 0
    BY <2>2
  <2>4. Enqueue(x) /\ open = "live"
    BY <1>1, <2>1 DEF ClientPlan, DiskPlan
  <2> HIDE DEF x
  <2> QED
    BY <2>3, <2>4, PlanRefines DEF Promise!LogNext
<1>2. CASE ClientBoot
  <2>1. PICK n \in 1 .. MaxEve : \E js \in [1 .. n -> Job] : DiskBoot(js)
    BY <1>2 DEF ClientBoot
  <2>2. PICK js \in [1 .. n -> Job] : DiskBoot(js)
    BY <2>1
  <2> DEFINE x == [i \in 1 .. n |-> [eve |-> sen + i, job |-> js[i]]]
  <2>3. n \in Nat \ {0} /\ Len(js) = n
    BY <2>1, <2>2, EventsAssumption
  <2>4. ASSUME NEW i \in 1 .. n PROVE [eve |-> sen + i, job |-> js[i]] \in Fact
    BY <1>0, <2>2, <2>3 DEF Fact
  <2>5. x \in Seq(Fact) /\ Len(x) > 0
    BY <2>3, <2>4
  <2>6. Enqueue(x) /\ open = "live"
    BY <1>2, <2>2, <2>3 DEF ClientBoot, DiskBoot
  <2> HIDE DEF x
  <2> QED
    BY <2>5, <2>6, PlanRefines DEF Promise!LogNext
<1>3. CASE DiskThreadSave
  BY <1>3, SaveRefines DEF Promise!LogNext
<1>4. CASE CommitDone
  BY <1>4, AckRefines DEF Promise!LogNext
<1>5. CASE Crash \/ CommitBail \/ (Exit /\ ted \in {"idle", "queued"})
  <2>1. db' = db /\ open' = "closed" /\ sen' = dun' /\ ted' = "idle"
    BY <1>5 DEF Crash, CommitBail, Exit, DiskCrash, DiskExit, DiskForget
  <2> QED
    BY <2>1, ResetRefines DEF Promise!LogNext
<1>6. CASE DiskOpen
  <2>1. db' = db /\ sen' = dun' /\ dun' = LastKey /\ ted' = "idle"
    BY <1>6 DEF DiskOpen, DiskInv, ClosedIsForgotten
  <2> QED
    BY <2>1, ResetRefines DEF Promise!LogNext
<1>7. CASE ClientMeta \/ ClientRead \/ ReadStart \/ ReadDone
  BY <1>7, QuietRefines DEF ClientMeta, DiskSaveMeta, ClientRead, ReadStart, DiskReadStart,
     ReadDone, Durable, BatchEnd
<1>8. CASE DiskThreadStart \/ DiskThreadFail
  BY <1>8, QuietRefines DEF DiskThreadStart, DiskThreadFail, Durable, BatchEnd
<1>9. CASE Exit /\ ted \notin {"idle", "queued"}
  <2>1. /\ UNCHANGED <<db, sen, dun, put>> /\ open = "live" /\ open' = "hung"
        /\ Durable' = Durable
    BY <1>9 DEF Exit, DiskExit, Durable, BatchEnd
  <2> QED
    BY <2>1 DEF DbSeq, Pending, Acked, LastKey, Promise!logVars
<1> QED
  BY <1>1, <1>2, <1>3, <1>4, <1>5, <1>6, <1>7, <1>8, <1>9
     DEF DiskNext, DiskClient, DiskWork

\* The log with its batches and its thread keeps the promise of EventLog:
\* events become durable in the order in which they were planned, are
\* acknowledged only then, and a crash loses a suffix of what was planned.
THEOREM DiskKeepsPromise == DiskSpec => PromiseSpec
<1>1. DiskInit => Promise!LogInit
  BY InitRefines
<1>2. DiskInv /\ DiskInv' /\ [DiskNext]_diskVars => [Promise!LogNext]_(Promise!logVars)
  <2>1. ASSUME DiskInv, DiskInv', DiskNext
        PROVE  [Promise!LogNext]_(Promise!logVars)
    BY <2>1, StepRefines
  <2>2. ASSUME UNCHANGED diskVars
        PROVE  UNCHANGED Promise!logVars
    BY <2>2, QuietRefines DEF diskVars, Durable, BatchEnd
  <2> QED
    BY <2>1, <2>2
<1> QED
  BY <1>1, <1>2, DiskInvariant, PTL DEF DiskSpec, PromiseSpec, Promise!LogSpec
=============================================================================
