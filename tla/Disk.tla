-------------------------------- MODULE Disk --------------------------------
(***************************************************************************)
(* The event log of a pier (vere/disk.c over vere/db/lmdb.c): a queue of   *)
(* facts on the main loop, one worker thread that writes a batch of them   *)
(* in one LMDB transaction, and the callback that acknowledges the batch,  *)
(* trims the queue and starts the next one.                                *)
(*                                                                         *)
(* Operators whose name starts with Disk are used by Pier, which composes  *)
(* the log with the lord; DiskSpec closes them with an arbitrary client.   *)
(***************************************************************************)
EXTENDS Events

VARIABLES db,              \* LMDB "EVENTS": event number -> job, durable
          meta,            \* LMDB "META": how many of the four keys are there
          open,            \* log_u: "closed", "live", or "hung" in uv_cancel
          sen,             \* log_u->sen_d: last event planned
          dun,             \* log_u->dun_d: last event known durable
          put,             \* log_u->put_u: facts queued for writing
          ted,             \* the write: "idle", "queued", "running", "good", "bad"
          req,             \* struct _cd_save: the batch being written
          red              \* log_u->red_u: outstanding reads

diskVars == <<db, meta, open, sen, dun, put, ted, req, red>>

Fact  == [eve : Nat \ {0}, job : Job]
Batch == [eve : Nat, jobs : Seq(Job)]
Read  == [eve : Nat \ {0}, len : Nat \ {0}, sat : {"start", "done"}]

NoReq == [eve |-> 0, jobs |-> <<>>]

MetaKeys == 4              \* version, who, fake, life

-----------------------------------------------------------------------------
(* LMDB.  A write transaction is atomic, refuses to overwrite a key and is *)
(* synced before it returns (the environment is opened without NOSYNC).    *)

BatchKeys(r) == r.eve .. (r.eve + Len(r.jobs) - 1)

\* u3_lmdb_save: put every event of the batch under its own number.
LmdbSave(r) ==
  /\ BatchKeys(r) \cap DOMAIN db = {}
  /\ db' = [e \in DOMAIN db \cup BatchKeys(r) |->
              IF e \in DOMAIN db THEN db[e] ELSE r.jobs[e - r.eve + 1]]

\* u3_lmdb_gulf: the last key, 0 in an empty log.
LastKey == IF DOMAIN db = {} THEN 0
           ELSE CHOOSE m \in DOMAIN db : \A e \in DOMAIN db : e <= m

\* u3_lmdb_read: up to r.len events from r.eve, as far as the log goes.
LmdbRead(r) ==
  LET n == CHOOSE n \in 0 .. r.len :
             /\ r.eve .. (r.eve + n - 1) \subseteq DOMAIN db
             /\ n = r.len \/ (r.eve + n) \notin DOMAIN db
  IN  [i \in 1 .. n |-> [eve |-> r.eve + i - 1, job |-> db[r.eve + i - 1]]]

-----------------------------------------------------------------------------
(* The main loop's side of a write.                                        *)

\* _disk_commit, with _disk_batch: if the thread is idle, hand it the queue
\* q, that holds events d+1 .. s.
DiskCommit(q, s, d, t) ==
  IF t = "idle" /\ s > d
  THEN /\ ted' = "queued"
       /\ req' = [eve |-> q[1].eve, jobs |-> [i \in 1 .. (s - d) |-> q[i].job]]
  ELSE /\ ted' = t
       /\ req' = IF t = "idle" THEN NoReq ELSE req

\* The facts fs join the queue; commit if possible.
Enqueue(fs) ==
  /\ sen' = sen + Len(fs)
  /\ put' = put \o fs
  /\ DiskCommit(put \o fs, sen + Len(fs), dun, ted)
  /\ UNCHANGED <<db, meta, open, dun, red>>

\* u3_disk_plan: f is the next event.
DiskPlan(f) == f.eve = sen + 1 /\ Enqueue(<<f>>)

\* _pier_boot_plan's calls of u3_disk_boot_plan, then u3_disk_boot_save: the
\* boot sequence js is queued without a commit, then written as one batch.
DiskBoot(js) ==
  dun = 0 /\ Enqueue([i \in 1 .. Len(js) |-> [eve |-> sen + i, job |-> js[i]]])

\* Faulty: the fencepost.
BatchEndLate(r) == r.eve + Len(r.jobs)

\* The event number an acknowledged batch brings the log to.
BatchEnd(r) == r.eve + Len(r.jobs) - 1

\* Faulty: the last event of the batch stays in the queue.
DiskTrimShort(q, d) == SelectSeq(q, LAMBDA f : f.eve >= d)

\* What is left of the queue q once events up to d are durable: facts are
\* freed from its front until one is later than d.
DiskTrim(q, d) ==
  LET n == CHOOSE n \in 0 .. Len(q) :
             /\ \A i \in 1 .. n : q[i].eve <= d
             /\ n < Len(q) => q[n + 1].eve > d
  IN  SubSeq(q, n + 1, Len(q))

\* Faulty: what was planned during the write waits for another plan.
DiskCommitDoneLazy(rd) ==
  /\ ted = "good" /\ red' = rd
  /\ dun' = BatchEnd(req)
  /\ put' = DiskTrim(put, BatchEnd(req))
  /\ ted' = "idle" /\ req' = NoReq
  /\ UNCHANGED <<db, meta, open, sen>>

\* _disk_commit_after_cb and _disk_commit_done on success: acknowledge, trim
\* the queue, and write what was planned meanwhile.  write_done_f runs between
\* the first two; it is Pier's, and can start reads, so that rd is their list.
DiskCommitDone(rd) ==
  /\ ted = "good" /\ red' = rd
  /\ dun' = BatchEnd(req)
  /\ put' = DiskTrim(put, BatchEnd(req))
  /\ DiskCommit(put', sen, dun', "idle")
  /\ UNCHANGED <<db, meta, open, sen>>

\* u3_disk_read: the reads rd, and one of len events from e.
DiskRead(rd, e, len) == Append(rd, [eve |-> e, len |-> len, sat |-> "start"])

\* _disk_read_start_cb: the synchronous read; the answer waits for another
\* turn of the loop.  The events read do not change under it.
DiskReadStart(i) ==
  /\ red[i].sat = "start"
  /\ red[i].eve \in DOMAIN db
  /\ red' = [red EXCEPT ![i].sat = "done"]
  /\ UNCHANGED <<db, meta, open, sen, dun, put, ted, req>>

\* _disk_read_close: unlink the request.
DiskReadClose(i) == SubSeq(red, 1, i - 1) \o SubSeq(red, i + 1, Len(red))

\* u3_disk_save_meta: one key, in a transaction of its own.
DiskSaveMeta ==
  /\ meta < MetaKeys
  /\ meta' = meta + 1
  /\ UNCHANGED <<db, open, sen, dun, put, ted, req, red>>

\* All that is in memory, gone.
DiskForget ==
  /\ sen' = 0 /\ dun' = 0
  /\ put' = <<>> /\ red' = <<>>
  /\ ted' = "idle" /\ req' = NoReq

\* u3_disk_exit: uv_cancel succeeds while the write is still queued, and
\* answers EBUSY for ever once a thread has taken it, because its completion
\* needs the loop that is spinning here.
DiskExit ==
  /\ UNCHANGED <<db, meta>>
  /\ IF ted \in {"idle", "queued"}
     THEN open' = "closed" /\ DiskForget
     ELSE open' = "hung" /\ UNCHANGED <<sen, dun, put, ted, req, red>>

\* The process dies: the transaction of a running thread is not committed.
DiskCrash == open' = "closed" /\ DiskForget /\ UNCHANGED <<db, meta>>

\* u3_disk_init.
DiskOpen ==
  /\ open = "closed"
  /\ open' = "live"
  /\ sen' = LastKey /\ dun' = LastKey
  /\ UNCHANGED <<db, meta, put, ted, req, red>>

-----------------------------------------------------------------------------
(* The worker thread.  It goes on while the main loop spins.               *)

DiskThreadStart ==
  /\ ted = "queued"
  /\ ted' = "running"
  /\ UNCHANGED <<db, meta, open, sen, dun, put, req, red>>

\* _disk_commit_cb.
DiskThreadSave ==
  /\ ted = "running"
  /\ LmdbSave(req)
  /\ ted' = "good"
  /\ UNCHANGED <<meta, open, sen, dun, put, req, red>>

\* Faulty: no transaction, so that a failure leaves the first event behind.
DiskThreadFailHalfway ==
  /\ ted = "running"
  /\ ted' = "bad"
  /\ db' = [e \in DOMAIN db \cup {req.eve} |->
              IF e \in DOMAIN db THEN db[e] ELSE req.jobs[1]]
  /\ UNCHANGED <<meta, open, sen, dun, put, req, red>>

\* The transaction fails (the disk or the map is full): nothing is written.
DiskThreadFail ==
  /\ ted = "running"
  /\ ted' = "bad"
  /\ UNCHANGED <<db, meta, open, sen, dun, put, req, red>>

-----------------------------------------------------------------------------
(* The log with an arbitrary client.                                       *)

DiskInit ==
  /\ db = <<>> /\ meta = 0
  /\ open = "closed"
  /\ sen = 0 /\ dun = 0
  /\ put = <<>> /\ red = <<>>
  /\ ted = "idle" /\ req = NoReq

Live == open = "live"

ClientPlan ==
  /\ Live /\ sen < MaxEve
  /\ \E j \in Job : DiskPlan([eve |-> sen + 1, job |-> j])

ClientBoot ==
  /\ Live /\ sen = 0
  /\ \E n \in 1 .. MaxEve : \E js \in [1 .. n -> Job] : DiskBoot(js)

ClientMeta == Live /\ sen = 0 /\ DiskSaveMeta

ClientRead ==
  /\ Live /\ red = <<>>
  /\ \E e \in 1 .. dun : \E n \in 1 .. (dun - e + 1) : red' = DiskRead(red, e, n)
  /\ UNCHANGED <<db, meta, open, sen, dun, put, ted, req>>

ReadStart == Live /\ \E i \in DOMAIN red : DiskReadStart(i)

ReadDone ==
  /\ Live
  /\ \E i \in DOMAIN red : red[i].sat = "done" /\ red' = DiskReadClose(i)
  /\ UNCHANGED <<db, meta, open, sen, dun, put, ted, req>>

CommitDone == Live /\ DiskCommitDone(red)

\* write_bail_f: the pier bails and the process exits.
CommitBail == Live /\ ted = "bad" /\ DiskCrash

Exit  == Live /\ DiskExit
Crash == open # "closed" /\ DiskCrash

\* What the client, the environment and failures do.
DiskClient == ClientPlan \/ ClientBoot \/ ClientMeta \/ ClientRead \/ Exit

\* What the loop and the thread do by themselves.
DiskWork == DiskThreadStart \/ DiskThreadSave \/ CommitDone
              \/ ReadStart \/ ReadDone

DiskNext == DiskClient \/ DiskWork \/ DiskThreadFail \/ CommitBail
              \/ Crash \/ DiskOpen

DiskSpec == DiskInit /\ [][DiskNext]_diskVars

\* libuv runs every callback that is due, the operating system runs the thread.
DiskFairness ==
  /\ WF_diskVars(DiskThreadStart)
  /\ WF_diskVars(DiskThreadSave)
  /\ WF_diskVars(CommitDone)

DiskLive == DiskSpec /\ DiskFairness

-----------------------------------------------------------------------------
(* Properties.                                                             *)

DiskTypeOK ==
  /\ DOMAIN db \subseteq Nat /\ \A e \in DOMAIN db : db[e] \in Job
  /\ meta \in 0 .. MetaKeys
  /\ open \in {"closed", "live", "hung"}
  /\ sen \in Nat /\ dun \in Nat
  /\ put \in Seq(Fact)
  /\ ted \in {"idle", "queued", "running", "good", "bad"}
  /\ req \in Batch
  /\ red \in Seq(Read)

\* The number of the last durable event, as this process will come to know it.
Durable == IF ted = "good" THEN BatchEnd(req) ELSE dun

\* The log has no gap and nothing beyond the batch in flight: what u3_disk_init
\* finds with its last key is the whole history (_disk_commit, u3_lmdb_save).
LogIsContiguous ==
  IF open = "closed" THEN DOMAIN db = 1 .. LastKey ELSE DOMAIN db = 1 .. Durable

\* The queue holds exactly the events after dun up to sen, in order: the
\* assertions of u3_disk_plan and _disk_batch.
QueueIsNextEvents ==
  /\ Len(put) = sen - dun
  /\ dun <= sen
  /\ \A i \in 1 .. Len(put) : put[i].eve = dun + i

\* The batch that the thread writes is what stands at the front of the queue,
\* whatever is planned behind it meanwhile (struct _cd_save against put_u).
BatchIsQueueFront ==
  IF ted = "idle" THEN req = NoReq /\ dun = sen
  ELSE /\ req.eve = dun + 1
       /\ Len(req.jobs) \in 1 .. Len(put)
       /\ \A i \in 1 .. Len(req.jobs) : req.jobs[i] = put[i].job

\* A committed batch is the events that the queue still holds, so that the
\* trim drops what is durable and nothing else.
CommittedIsQueued ==
  ted = "good" => \A i \in 1 .. Len(req.jobs) : db[dun + i] = put[i].job

\* The queue, the batch in flight and the log tell one story, through plans and
\* acknowledgements in any order: no event is skipped, written twice or trimmed
\* before it is durable (the assertions of u3_disk_plan and _disk_batch).
BooksAgree == QueueIsNextEvents /\ BatchIsQueueFront /\ CommittedIsQueued

\* The log only grows: no event is ever rewritten or dropped, across restarts.
LogAppendOnly ==
  [][\A e \in DOMAIN db : e \in DOMAIN db' /\ db'[e] = db[e]]_diskVars

\* Every planned event becomes durable and is acknowledged, unless the process
\* stops or a write fails.
PlannedBecomesDurable ==
  \A n \in 1 .. MaxEve :
    (Live /\ sen >= n) ~> (dun >= n \/ ~Live \/ ted = "bad")

-----------------------------------------------------------------------------
(* The log implements its promise.                                         *)

DbSeq   == [i \in 1 .. LastKey |-> db[i]]
Pending == [i \in 1 .. (sen - Durable) |-> put[i + Durable - dun].job]
Acked   == IF open = "closed" THEN LastKey ELSE dun

Promise == INSTANCE EventLog WITH log <- DbSeq, pend <- Pending, ack <- Acked

PromiseSpec == Promise!LogSpec
=============================================================================
