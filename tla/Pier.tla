-------------------------------- MODULE Pier --------------------------------
(***************************************************************************)
(* The king's process of one ship (vere/pier.c), between its event log     *)
(* (Disk) and its worker (Lord): boot, replay, version negotiation, the    *)
(* work loop with its queue of effects and its walls, and the ways out:    *)
(* graceful exit, bail, assertion and crash; and the restart after each.   *)
(*                                                                         *)
(* The i/o drivers are one queue of new events, a number of scries and the *)
(* effects that they have been given, which are a history that survives.   *)
(* Every callback of the main loop is one action; an assertion that fails  *)
(* in it is an Abort.                                                      *)
(***************************************************************************)
EXTENDS Disk, Lord, Replay, FiniteSets

CONSTANTS Pill,            \* the boot sequence, its first Lif the lifecycle
          Wyrd,            \* the job of the version negotiation
          Ova,             \* the jobs of the i/o drivers
          WorkBatch,       \* PIER_WORK_BATCH
          MaxOva,          \* bound on the drivers' queue, and on scries
          MaxWall,         \* bound on the walls the save timer plans
          Tils,            \* what --replay-to may be, 0 for none
          Peps,            \* what u3_Host.pep_o may be: exit before the negotiation?
          Downgrades,      \* may %wyrd have the effect %wend of a downgrade?
          ExitStates,      \* the states in which the king may be asked to exit
          Faults           \* what may fail: "king", "serf", "write", "read"

ASSUME PierAssumption ==
  /\ Pill \in Seq(Job) /\ Lif \in 1 .. Len(Pill)
  /\ Wyrd \in Job /\ Ova \subseteq Job
  /\ WorkBatch \in Nat \ {0} /\ MaxOva \in Nat /\ MaxWall \in Nat
  /\ ExitStates \subseteq {"init", "boot", "play", "wyrd", "work"}
  /\ Tils \subseteq Nat /\ Peps \subseteq BOOLEAN /\ Downgrades \in BOOLEAN
  /\ Len(Pill) < MaxEve

VARIABLES sat,             \* pir_u->sat_e; "gone" is %done after _pier_exit,
                           \*   "down" no process
          pay,             \* pir_u->pay_u: the replay
          ova,             \* the drivers' events that wait to be sent
          pec,             \* pir_u->pec_u: how many scries wait to be sent
          gifts,           \* wok_u->fec_u: effects that wait for their event
          rel,             \* wok_u->fec_u.rel_d: last event released
          walls,           \* wok_u->wal_u: barriers, "save" or "exit"
          effs,            \* every effect released so far, in any process
          oops             \* the assertion that failed, if any

workVars == <<ova, pec, gifts, rel, walls, effs>>
pierVars == <<sat, pay, workVars, oops>>
vars     == <<diskVars, lordVars, pierVars>>

\* What of the lord a step that only sends writs leaves alone.
lordRest == <<god, eve, out, serf, core, snap, fault>>

\* The main loop runs: not while _pier_boot_plan saves the metadata, nor in
\* u3_disk_exit's wait for a write that cannot finish.
Loop == sat # "down" /\ open # "hung" /\ (sat = "boot" => sen > 0)

-----------------------------------------------------------------------------
(* The end of the process.                                                 *)

PierForget ==
  /\ sat' = "down" /\ pay' = NoPlay
  /\ ova' = <<>> /\ pec' = 0 /\ gifts' = <<>> /\ rel' = 0 /\ walls' = <<>>
  /\ UNCHANGED effs

\* c3_assert, or the null pointer of a log or a lord that was let go.
Abort(why) == oops' = why /\ PierForget /\ DiskCrash /\ LordOrphan

\* u3_pier_bail: the serf is killed, the log closed and the process ended.
PierBail ==
  /\ LordHalt
  /\ IF open = "closed" THEN UNCHANGED diskVars ELSE DiskExit
  /\ IF open' = "hung" THEN UNCHANGED <<sat, pay, workVars>> ELSE PierForget
  /\ UNCHANGED oops

\* _pier_exit, after the writs ms: the log is closed, then the serf asked to
\* exit.
PierLeave(ws, ms) ==
  /\ DiskExit
  /\ LordPlan(ws, IF open' = "hung" THEN ms ELSE Append(ms, BareWrit("exit")))
  /\ sat' = "gone" /\ pay' = NoPlay

-----------------------------------------------------------------------------
(* The work loop.                                                          *)

\* _pier_work_send, for a batch of at most len writs: events and scries in
\* turn, then what is left of the longer queue.
Pairs == Lesser(Len(ova), pec)

Sent(len) == Lesser(len, Len(ova) + pec)

IsWork(i) == IF i <= 2 * Pairs THEN i % 2 = 1 ELSE Len(ova) > pec

WorkBatchOf(len) ==
  [i \in 1 .. Sent(len) |->
     IF IsWork(i) THEN WorkWrit(ova[IF i <= 2 * Pairs THEN (i + 1) \div 2 ELSE i - Pairs])
     ELSE BareWrit("peek")]

SentOva(len) == Lesser(Len(ova), Greater((Sent(len) + 1) \div 2, Sent(len) - pec))

\* Faulty: effects released as soon as they are computed.
KeptAtOnce(gs, d) == <<>>

\* Faulty: the fencepost.
KeptLonger(gs, d) == SelectSeq(gs, LAMBDA g : g.eve >= d)

\* _pier_gift_next: the effects gs that must wait when d is durable.
Kept(gs, d) == DiskTrim(gs, d)

Released(gs, d) == SubSeq(gs, 1, Len(gs) - Len(Kept(gs, d)))

\* Faulty: a wall that does not wait for the log.
WallDueEarly(e, d, ws) == IF walls # <<>> /\ ws = <<>> THEN Head(walls) ELSE "none"

\* Faulty: a wall that does not wait for the pipe.
WallDueFull(e, d, ws) == IF walls # <<>> /\ e = d THEN Head(walls) ELSE "none"

\* _pier_wall: the barrier that is passed when the kernel is at e, the log at
\* d and the writs ws are outstanding.  It fills the queue or ends the loop, so
\* that at most one is.
WallDue(e, d, ws) ==
  IF walls # <<>> /\ ws = <<>> /\ e = d THEN Head(walls) ELSE "none"

\* The assertion of _pier_gift_next.
WorkFault(gs, d) ==
  LET rs == Released(gs, d) IN
  IF \E i \in DOMAIN rs : rs[i].eve # rel + i THEN "release" ELSE "none"

\* Faulty: events go on while a wall waits.
RoomAnyway(wl, dep) == IF sat = "work" /\ dep < WorkBatch THEN WorkBatch - dep ELSE 0

\* How many writs fit in the pipe, with the walls wl left and dep outstanding.
Room(wl, dep) == IF sat = "work" /\ wl = <<>> /\ dep < WorkBatch THEN WorkBatch - dep ELSE 0

\* _pier_work: release effects, pass a wall, send a batch.  _pier_work_close
\* frees the drivers' queues at the exit wall.
PierWork(e, d, ws, gs) ==
  LET wall == WallDue(e, d, ws)
      left == IF wall = "none" THEN walls ELSE Tail(walls)
      keep == CASE wall = "save" -> LordKeep(ws, "save", e)
                [] wall = "exit" -> <<BareWrit("exit")>>
                [] wall = "none" -> <<>>
      len  == Room(left, Len(ws) + Len(keep))
  IN  /\ effs' = effs \o Released(gs, d)
      /\ gifts' = Kept(gs, d)
      /\ rel' = rel + Len(Released(gs, d))
      /\ walls' = left
      /\ LordPlan(ws, keep \o WorkBatchOf(len))
      /\ ova' = IF wall = "exit" THEN <<>> ELSE SubSeq(ova, SentOva(len) + 1, Len(ova))
      /\ pec' = IF wall = "exit" THEN 0 ELSE pec - (Sent(len) - SentOva(len))
      /\ sat' = IF wall = "exit" THEN "gone" ELSE sat
      /\ UNCHANGED <<pay, oops>>

-----------------------------------------------------------------------------
(* Replay.                                                                 *)

\* _pier_play before the barrier: send, then read; rd is the reads after it.
PlayReads(pl, rd) ==
  LET p == PlaySent(pl) IN
  IF PlayWants(p) = 0 THEN rd ELSE DiskRead(rd, PlayLast(p) + 1, PlayWants(p))

PlayOn(pl, ws) ==
  LET b == PlayBatchOf(pl) IN
  /\ LordPlan(ws, IF b = <<>> THEN <<>>
                  ELSE <<PlayWrit(b[1].eve, [i \in DOMAIN b |-> b[i].job])>>)
  /\ pay' = PlayAsked(PlaySent(pl))
  /\ sat' = "play"

\* _pier_wyrd_init, after the writs ms.
PierWyrd(ws, ms) ==
  /\ LordPlan(ws, Append(ms, WorkWrit(Wyrd)))
  /\ sat' = "wyrd" /\ pay' = NoPlay
  /\ UNCHANGED diskVars

\* What follows a replay, or a start that needs none.  Each start reads pep_o,
\* and til_c below, once.
PierGo(ws, ms) ==
  \E pep \in Peps : IF pep THEN PierLeave(ws, ms) ELSE PierWyrd(ws, ms)

\* _pier_play at the barrier: a cram and, once that is heard, the end; or, at
\* the end of the log, a snapshot and the negotiation.
PlayComplete(pl, ws) ==
  IF pl.eve < dun
  THEN /\ LordPlan(ws, LordKeep(ws, "cram", pl.eve))
       /\ pay' = pl /\ UNCHANGED <<diskVars, sat>>
  ELSE PierGo(ws, LordKeep(ws, "save", pl.eve))

-----------------------------------------------------------------------------
(* The start of a process.                                                 *)

\* u3_pier_boot, on a new directory: _pier_init, then _pier_boot_plan.
KingBoot ==
  /\ sat = "down" /\ serf = "dead" /\ meta = 0
  /\ sat' = "boot"
  /\ DiskOpen /\ LordInit
  /\ UNCHANGED <<pay, workVars, oops>>

BootMeta ==
  /\ sat = "boot" /\ sen = 0 /\ DiskSaveMeta
  /\ UNCHANGED <<lordVars, pierVars>>

BootPlan ==
  /\ sat = "boot" /\ sen = 0 /\ meta = MetaKeys
  /\ DiskBoot(Pill)
  /\ UNCHANGED <<lordVars, pierVars>>

\* u3_pier_stay.  Without its metadata, it exits at once.
KingStay ==
  /\ sat = "down" /\ serf = "dead" /\ meta = MetaKeys /\ LastKey < MaxEve
  /\ sat' = "init"
  /\ DiskOpen /\ LordInit
  /\ UNCHANGED <<pay, workVars, oops>>

-----------------------------------------------------------------------------
(* Callbacks from the lord.                                                *)

\* The assertions of _pier_on_lord_live, and of _pier_play_init, that replays
\* what follows g up to b.
RipeFault(g, b) ==
  IF sat = "gone" THEN "null"
  ELSE IF g > dun THEN "ahead"
  ELSE IF sat = "init" /\ g < dun /\ b \notin g + 1 .. dun THEN "barrier"
  ELSE "none"

\* _pier_on_lord_live.
HearLive(g, b) ==
  /\ UNCHANGED <<workVars, oops, serf, core, snap, fault>>
  /\ IF sat = "boot" /\ sen # dun THEN UNCHANGED <<writs, inn, diskVars, sat, pay>>
     ELSE IF g = dun THEN PierGo(writs, <<>>)
     ELSE /\ PlayOn(PlayFrom(g, b), writs)
          /\ red' = PlayReads(PlayFrom(g, b), red)
          /\ UNCHANGED <<db, meta, open, sen, dun, put, ted, req>>

Ripe ==
  /\ Loop /\ Heard({"ripe"}) /\ god = "init"
  /\ \E til \in Tils :
       LET g == Head(out).eve
           b == IF sat = "init" /\ til # 0 THEN til ELSE dun
       IN  IF RipeFault(g, b) # "none" THEN Abort(RipeFault(g, b)) ELSE LordRipe /\ HearLive(g, b)

\* _pier_on_lord_play_done, _pier_on_lord_play_bail.
Played ==
  /\ Loop /\ Heard({"play"})
  /\ LET g == EveAfter(Head(out), Head(writs)) IN
     IF sat # "play" THEN Abort("state")
     ELSE IF Head(out).how = "bail" THEN PierBail
     ELSE IF g > pay.eve THEN Abort("replay")
     ELSE /\ LordHear
          /\ UNCHANGED <<workVars, oops>>
          /\ IF g = pay.eve THEN PlayComplete(pay, Tail(writs))
             ELSE /\ PlayOn(pay, Tail(writs))
                  /\ red' = PlayReads(pay, red)
                  /\ UNCHANGED <<db, meta, open, sen, dun, put, ted, req>>

\* Faulty: the event that was sent, even if the serf swapped it.
WorkFactSent == [eve |-> Head(out).eve, job |-> Head(writs).jobs[1]]

\* The fact that the answer to a %work brings.
WorkFact ==
  [eve |-> Head(out).eve,
   job |-> IF Head(out).how = "done" THEN Head(writs).jobs[1] ELSE Crud]

\* _pier_on_lord_wyrd_done, _pier_on_lord_wyrd_bail: the negotiated event is
\* logged, the drivers start, and its effects wait.
Negotiated ==
  /\ Loop /\ sat = "wyrd" /\ Heard({"work"})
  /\ \E down \in (IF Downgrades THEN BOOLEAN ELSE {FALSE}) :
       IF down \/ Head(out).how = "bail" THEN PierBail
       ELSE IF WorkFact.eve # sen + 1 THEN Abort("plan")
       ELSE /\ LordHear /\ LordPlan(Tail(writs), <<>>)
            /\ DiskPlan(WorkFact)
            /\ sat' = "work" /\ rel' = dun /\ gifts' = <<WorkFact>>
            /\ UNCHANGED <<pay, ova, pec, walls, effs, oops>>

\* _pier_on_lord_work_done, _pier_on_lord_work_bail.
Worked ==
  LET gs   == IF Head(out).how = "bail" THEN gifts ELSE Append(gifts, WorkFact)
      why  == IF sat \notin {"work", "done"} THEN "state"
              ELSE IF gs # gifts /\ WorkFact.eve # sen + 1 THEN "plan"
              ELSE WorkFault(gs, dun)
  IN  /\ Loop /\ sat # "wyrd" /\ Heard({"work"})
      /\ IF why # "none" THEN Abort(why)
         ELSE /\ LordHear
              /\ PierWork(EveAfter(Head(out), Head(writs)), dun, Tail(writs), gs)
              /\ IF gs # gifts THEN DiskPlan(WorkFact)
                 ELSE IF sat' = "gone" THEN DiskExit
                 ELSE UNCHANGED diskVars

\* The callback of a scry, _pier_on_lord_save and _pier_on_lord_cram: nothing,
\* or after the cram of a replay barrier the end.
Answered ==
  /\ Loop /\ Heard({"peek", "live"})
  /\ IF Head(writs).typ = "cram" /\ sat = "play" THEN PierBail
     ELSE /\ LordHear /\ LordPlan(Tail(writs), <<>>)
          /\ UNCHANGED <<diskVars, pierVars>>

\* _pier_on_lord_exit, _pier_on_lord_bail: the serf has exited, as asked by
\* _pier_exit or not.
LordGone == Loop /\ LordBroken /\ PierBail

-----------------------------------------------------------------------------
(* Callbacks from the log.                                                 *)

\* _pier_on_disk_write_done, inside _disk_commit_done, which must find the log
\* still there when it returns.
WriteDone ==
  LET d   == BatchEnd(req)
      pl  == PlayFrom(eve, d)
      why == IF sat \notin {"boot", "work", "done"} THEN "state"
             ELSE IF sat = "boot" THEN "none"
             ELSE IF WallDue(eve, d, writs) = "exit" THEN "freed"
             ELSE WorkFault(gifts, d)
  IN  /\ Loop /\ open = "live" /\ ted = "good"
      /\ IF why # "none" THEN Abort(why)
         ELSE /\ UNCHANGED lordRest
              /\ IF sat # "boot"
                 THEN DiskCommitDone(red) /\ PierWork(eve, d, writs, gifts)
                 ELSE /\ UNCHANGED <<workVars, oops>>
                      /\ IF god = "live"
                         THEN DiskCommitDone(PlayReads(pl, red)) /\ PlayOn(pl, writs)
                         ELSE DiskCommitDone(red) /\ UNCHANGED <<sat, pay, writs, inn>>

\* _pier_on_disk_write_bail: the write is over, so that the log can be closed.
WriteBail ==
  /\ Loop /\ open = "live" /\ ted = "bad"
  /\ LordHalt /\ DiskCrash /\ PierForget /\ UNCHANGED oops

ReadStarted ==
  /\ Loop /\ open = "live" /\ \E i \in DOMAIN red : DiskReadStart(i)
  /\ UNCHANGED <<lordVars, pierVars>>

\* _pier_on_disk_read_done, _pier_play_plan.
Readback ==
  /\ Loop /\ open = "live" /\ sat # "down"
  /\ \E i \in DOMAIN red :
       /\ red[i].sat = "done"
       /\ LET fs == LmdbRead(red[i])
              pl == PlayQueued(pay, fs)
          IN  IF \/ sat # "play" \/ eve >= pay.eve
                 \/ fs = <<>> \/ fs[1].eve # PlayLast(pay) + 1
              THEN Abort("read")
              ELSE /\ PlayOn(pl, writs)
                   /\ red' = PlayReads(pl, DiskReadClose(i))
                   /\ UNCHANGED <<db, meta, open, sen, dun, put, ted, req>>
                   /\ UNCHANGED <<lordRest, workVars, oops>>

-----------------------------------------------------------------------------
(* The loop, the drivers and the outside.                                  *)

Working == Loop /\ sat \in {"work", "done"}

\* Faulty: no turn of the loop after the exit was asked for.
TickInWork ==
  /\ Working /\ sat = "work"
  /\ UNCHANGED lordRest
  /\ PierWork(eve, dun, writs, gifts) /\ UNCHANGED diskVars

\* _pier_work_afte_cb, _pier_work_idle_cb: once every turn of the loop.
Tick ==
  /\ Working
  /\ UNCHANGED lordRest
  /\ IF WorkFault(gifts, dun) # "none" THEN Abort(WorkFault(gifts, dun))
     ELSE /\ PierWork(eve, dun, writs, gifts)
          /\ IF sat' = "gone" THEN DiskExit ELSE UNCHANGED diskVars

\* u3_auto_plan.
PlanOvum ==
  /\ Working /\ Len(ova) < MaxOva /\ sen + Len(writs) + Len(ova) < MaxEve
  /\ \E j \in Ova : ova' = Append(ova, j)
  /\ UNCHANGED <<diskVars, lordVars, sat, pay, pec, gifts, rel, walls, effs, oops>>

\* u3_pier_peek.
PlanPeek ==
  /\ Working /\ pec < MaxOva
  /\ pec' = pec + 1
  /\ UNCHANGED <<diskVars, lordVars, sat, pay, ova, gifts, rel, walls, effs, oops>>

\* u3_pier_pack, u3_pier_meld: sent at once, whatever is outstanding.
PlanPack ==
  /\ Working /\ Len(writs) < MaxDep
  /\ LordPlan(writs, <<BareWrit("pack")>>)
  /\ UNCHANGED <<diskVars, lordRest, pierVars>>

\* The save timer (vere/save.c), u3_pier_save.
SaveTimer ==
  /\ Working /\ sat = "work" /\ Len(walls) < MaxWall
  /\ walls' = Append(walls, "save")
  /\ UNCHANGED <<diskVars, lordVars, sat, pay, ova, pec, gifts, rel, effs, oops>>

\* u3_pier_exit, on SIGTERM, the %logo effect or hood's |exit; nothing if it
\* was called before.
KingExit ==
  /\ Loop /\ sat \in ExitStates
  /\ CASE sat = "work" ->
            /\ walls' = walls \o <<"save", "exit">> /\ sat' = "done"
            /\ UNCHANGED <<diskVars, lordVars, pay, ova, pec, gifts, rel, effs, oops>>
       [] sat \in {"init", "boot", "play"} ->
            PierLeave(writs, <<>>) /\ UNCHANGED <<lordRest, workVars, oops>>
       [] sat = "wyrd" -> Abort("exit")

\* SIGKILL, or power.
KingCrash ==
  /\ sat # "down" /\ "king" \in Faults
  /\ LordOrphan /\ DiskCrash /\ PierForget /\ UNCHANGED oops

Fails ==
  \/ KingCrash
  \/ "serf" \in Faults /\ SerfCrash /\ UNCHANGED <<diskVars, pierVars>>
  \/ "write" \in Faults /\ DiskThreadFail /\ UNCHANGED <<lordVars, pierVars>>
  \/ /\ "read" \in Faults /\ Loop /\ \E i \in DOMAIN red : red[i].sat = "start"
     /\ PierBail

Thread == (DiskThreadStart \/ DiskThreadSave) /\ UNCHANGED <<lordVars, pierVars>>

Serf == (SerfRipe \/ SerfWrit \/ SerfOrphan) /\ UNCHANGED <<diskVars, pierVars>>

Boots   == KingBoot \/ BootMeta \/ BootPlan \/ KingStay
Hears   == Ripe \/ Played \/ Negotiated \/ Worked \/ Answered \/ LordGone
Writes  == WriteDone \/ WriteBail
Reads   == ReadStarted \/ Readback
Drivers == PlanOvum \/ PlanPeek \/ PlanPack \/ SaveTimer

PierNext == Boots \/ Hears \/ Writes \/ Reads \/ Tick \/ Drivers \/ KingExit
              \/ Thread \/ Serf \/ Fails

PierInit ==
  /\ DiskInit /\ Start
  /\ sat = "down" /\ pay = NoPlay
  /\ ova = <<>> /\ pec = 0 /\ gifts = <<>> /\ rel = 0 /\ walls = <<>>
  /\ effs = <<>> /\ oops = "none"

PierSpec == PierInit /\ [][PierNext]_vars

\* libuv runs every callback that is due, and the check handle on every turn;
\* the thread and the serf are scheduled by the operating system.  Nothing
\* starts a king, plans an event or asks for an exit.
PierFairness ==
  /\ WF_vars(Hears) /\ WF_vars(Writes) /\ WF_vars(Reads) /\ WF_vars(Tick)
  /\ WF_vars(BootMeta \/ BootPlan)
  /\ WF_vars(Thread) /\ WF_vars(Serf)

-----------------------------------------------------------------------------
(* Properties.                                                             *)

PierTypeOK ==
  /\ DiskTypeOK /\ LordTypeOK
  /\ sat \in {"down", "init", "boot", "play", "wyrd", "work", "done", "gone"}
  /\ pay \in [eve : Nat, sen : Nat, req : Nat, q : Seq(Fact)]
  /\ ova \in Seq(Ova) /\ pec \in Nat
  /\ gifts \in Seq(Fact) /\ rel \in Nat /\ effs \in Seq(Fact)
  /\ walls \in Seq({"save", "exit"})
  /\ oops \in {"none", "null", "ahead", "barrier", "state", "replay", "plan",
               "release", "freed", "read", "exit"}

\* No assertion of the king fails, and no callback finds the log or the lord
\* gone, in any interleaving of the lord's and the log's callbacks.
NoAssertionFails == oops = "none"

\* serf.c: "%work must be performed against an extant kernel".
WorkHasKernel == fault # "kernel"

\* The running kernel is the one that the log, with the events that wait to be
\* written to it, will rebuild: what is durable or planned under a number is
\* what the kernel computed under it.
KernelIsReplayable ==
  /\ PierTypeOK
  /\ \A i \in DOMAIN core :
       /\ i \in DOMAIN db => db[i] = core[i]
       /\ open = "live" /\ i - dun \in DOMAIN put => put[i - dun].job = core[i]

\* While a wall waits, no event is sent that it would have to wait for
\* (_pier_work_send): the kernel stops once what is in the pipe is answered.
WallsHoldEvents ==
  [][walls # <<>> /\ walls' # <<>> =>
       Cardinality(Outstanding("work")') <= Cardinality(Outstanding("work"))]_vars

\* A replay reads the log and computes it in order, one read at a time and none
\* twice, and computes no event beyond its barrier though its batches are one
\* longer than their limit: however the answers of the serf and of the disk
\* interleave (_pier_play_plan, _pier_play, pay_u->req_d).
ReplayIsOrderly ==
  /\ oops \notin {"read", "replay"}
  /\ Len(red) <= 1
  /\ sat = "play" => Len(core) <= pay.eve

Ended == sat = "down"

\* The one way in which a king neither goes on nor ends: in a bail, u3_disk_exit asks
\* for ever to cancel a write that a thread has taken.
Spinning == open = "hung"

\* An asked exit ends the process, behind whatever is in the pipe and in the
\* thread.  The exception: a king that loses its serf on the way bails, and may spin.
ExitCompletesDown == sat \in {"done", "gone"} ~> (Ended \/ Spinning)

\* A start comes to work or ends, whatever there is to boot or to replay and
\* whatever fails in it: no wait for the lord, the log or a batch is in vain.  The
\* exception: a king that bails while the boot sequence or %wyrd is being written
\* may spin.
StartEnds == sat \in {"init", "boot", "play", "wyrd"} ~> (sat = "work" \/ Ended \/ Spinning)

\* The effects of every planned event are released, unless the process ends, or
\* spins in its bail.
EffectsAreReleased ==
  \A n \in 1 .. MaxEve :
    (gifts # <<>> /\ gifts[1].eve = n) ~> (rel >= n \/ Ended \/ Spinning)

\* A wall that is planned is passed, unless the process ends, or spins in its bail:
\* an idle ship and a busy one both come to a checkpoint.
SavesHappen ==
  (walls # <<>> /\ sat = "work") ~>
    (sat # "work" \/ Ended \/ Spinning \/ \E i \in DOMAIN writs : writs[i].typ = "save")

\* u3_pier_bail's "immediately shutdown due to error": a king that has let its lord
\* go, which a bail does first, ends.
BailEnds == god = "none" ~> Ended

-----------------------------------------------------------------------------
(* The pier keeps the promise of a ship.                                   *)

ShipOf == INSTANCE Ship WITH log <- DbSeq, said <- effs, ckpt <- snap

ShipPromise == ShipOf!ShipSpec
=============================================================================
