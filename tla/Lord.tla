-------------------------------- MODULE Lord --------------------------------
(***************************************************************************)
(* The king's controller of its worker (vere/lord.c), the two pipes        *)
(* between them (vere/newt.c: reliable, in order, lost with a process) and *)
(* the worker itself (worker/serf.c).  Every message of the king, a writ,  *)
(* is answered by one of the serf, a plea, so that the king matches them   *)
(* by order alone.                                                         *)
(*                                                                         *)
(* The Arvo kernel is the sequence of jobs that it has computed.  Memory,  *)
(* mugs, slogs and the spinner are left out; %meld is treated as %pack is. *)
(* Operators named Lord or Serf are used by Pier; LordSpec closes them     *)
(* with an arbitrary client.                                               *)
(***************************************************************************)
EXTENDS Events

CONSTANTS Crud,            \* the job that notifies the kernel of a failed one
          Outcomes,        \* how %work may end: "done", "swap", "bail"
          ReplayFails,     \* can the computation of a logged event fail?
          MaxWord,         \* stands for 2^64 - 1
          MaxDep           \* bound on the client's outstanding writs

ASSUME LordAssumption ==
  /\ Outcomes \subseteq {"done", "swap", "bail"}
  /\ ReplayFails \in BOOLEAN
  /\ Crud \in Job
  /\ MaxWord \in Nat /\ MaxEve <= MaxWord /\ MaxDep \in Nat

VARIABLES god,             \* the lord: "none", "init", or "live" after %ripe
          eve,             \* god_u->eve_d: last event completed
          writs,           \* god_u->ext_u ..: writs waiting for a plea
          inn,             \* the pipe to the serf
          out,             \* the pipe from the serf
          serf,            \* the process: "dead", "boot", "up"
          core,            \* u3A->roc: the jobs in the running kernel
          snap,            \* the jobs in the kernel of the checkpoint, durable
          fault            \* the assertion or refusal that ended a serf

lordVars == <<god, eve, writs, inn, out, serf, core, snap, fault>>

Kernel == Seq(Job)

Writ == [typ  : {"work", "peek", "play", "save", "cram", "pack", "exit"},
         eve  : 0 .. MaxWord,      \* first of a %play, the king's on a %save
         jobs : Seq(Job)]

Plea == [typ : {"ripe", "work", "peek", "play", "live"},
         how : {"done", "swap", "bail"},
         eve : 0 .. MaxWord]

WorkWrit(j)     == [typ |-> "work", eve |-> 0, jobs |-> <<j>>]
PlayWrit(e, js) == [typ |-> "play", eve |-> e, jobs |-> js]
BareWrit(t)     == [typ |-> t, eve |-> 0, jobs |-> <<>>]

\* _lord_writ_make puts the king's event number in a %save or a %cram.
KeepWrit(t, e)  == [typ |-> t, eve |-> e, jobs |-> <<>>]

-----------------------------------------------------------------------------
(* The king's side.                                                        *)

\* u3_lord_init: spawn the serf, with new pipes.
LordInit ==
  /\ god' = "init" /\ eve' = 0 /\ writs' = <<>>
  /\ inn' = <<>> /\ out' = <<>>
  /\ serf' = "boot" /\ core' = <<>>
  /\ UNCHANGED <<snap, fault>>

\* _lord_writ_plan: the writs ms join the queue ws and go down the pipe.
LordPlan(ws, ms) == writs' = ws \o ms /\ inn' = inn \o ms

\* u3_lord_save, u3_lord_cram: nothing if writs are outstanding.
LordKeep(ws, t, e) == IF ws = <<>> THEN <<KeepWrit(t, e)>> ELSE <<>>

\* The writ that a plea answers, by its type (_lord_writ_need,
\* _lord_plea_live).
Answers(p, w) ==
  \/ p.typ = w.typ
  \/ p.typ = "live" /\ w.typ \in {"save", "cram", "pack"}

\* What the king hears next.
Heard(typs) ==
  /\ god # "none" /\ out # <<>>
  /\ Head(out).typ \in typs
  /\ Head(out).typ # "ripe" => writs # <<>> /\ Answers(Head(out), Head(writs))

\* _lord_plea_ripe.
LordRipe ==
  /\ Heard({"ripe"}) /\ god = "init"
  /\ god' = "live" /\ eve' = Head(out).eve
  /\ out' = Tail(out)

\* The king's event number after the plea p to the writ w: _lord_work_done,
\* _lord_plea_play_done, _lord_plea_play_bail.
EveAfter(p, w) ==
  CASE p.typ = "work" /\ p.how # "bail" -> p.eve
    [] p.typ = "play" /\ p.how = "done" -> w.eve + Len(w.jobs) - 1
    [] p.typ = "play" /\ p.how = "bail" -> IF p.eve = 0 THEN MaxWord ELSE p.eve - 1
    [] OTHER                            -> eve

\* The lord's half of hearing a plea: the pier's half follows it at once.
LordHear ==
  /\ eve' = EveAfter(Head(out), Head(writs))
  /\ out' = Tail(out)
  /\ UNCHANGED <<god, core, snap, serf, fault>>

\* _lord_stop: the king's side is gone; the pipes go with it.
LordStop == god' = "none" /\ eve' = 0 /\ writs' = <<>> /\ out' = <<>>

\* u3_lord_halt: SIGKILL.
LordHalt ==
  /\ LordStop
  /\ serf' = "dead" /\ inn' = <<>> /\ core' = <<>>
  /\ UNCHANGED <<snap, fault>>

\* The serf has exited, as asked or not (_lord_on_serf_exit), its pipe has
\* ended (_lord_on_serf_bail), or its plea makes no sense (_lord_plea_foul).
LordBroken ==
  /\ god # "none"
  /\ \/ serf = "dead"
     \/ out # <<>> /\ ~Heard({"ripe", "work", "peek", "play", "live"})

\* Was the exit asked for?  Else the lord bails.
LordExpected == writs # <<>> /\ Head(writs).typ = "exit"

\* The king dies: the serf goes on with what is in its pipe.
LordOrphan ==
  /\ LordStop
  /\ UNCHANGED <<inn, serf, core, snap, fault>>

-----------------------------------------------------------------------------
(* The serf.                                                               *)

\* _cw_serf_send: to nobody, if the king is gone.
Reply(p) == out' = IF god = "none" THEN out ELSE Append(out, p)

Say(t, h, e) == Reply([typ |-> t, how |-> h, eve |-> e])

\* exit(1), an assertion or a signal: the kernel is lost, the snapshot stays.
SerfDies(why) ==
  /\ serf' = "dead" /\ core' = <<>> /\ inn' = <<>> /\ fault' = why
  /\ UNCHANGED <<god, eve, writs, out, snap>>

\* Faulty: a boot that does not load the checkpoint.
SerfRipeFresh ==
  /\ serf = "boot"
  /\ serf' = "up" /\ core' = <<>>
  /\ Say("ripe", "done", 0)
  /\ UNCHANGED <<god, eve, writs, inn, snap, fault>>

\* u3_serf_init: load the checkpoint, say where it stands.
SerfRipe ==
  /\ serf = "boot"
  /\ serf' = "up" /\ core' = snap
  /\ Say("ripe", "done", Len(snap))
  /\ UNCHANGED <<god, eve, writs, inn, snap, fault>>

\* The next writ, of type t, is taken from the pipe.
Take(t) ==
  /\ serf = "up" /\ inn # <<>> /\ Head(inn).typ = t
  /\ inn' = Tail(inn)
  /\ UNCHANGED <<god, eve, writs, serf, fault>>

\* Faulty: a rejected event that keeps its number.
SerfWorkNumbered ==
  /\ core # <<>> /\ Take("work")
  /\ \E how \in Outcomes :
       /\ core' = IF how = "bail" THEN core
                  ELSE Append(core, IF how = "done" THEN Head(inn).jobs[1] ELSE Crud)
       /\ Say("work", IF how = "bail" THEN "done" ELSE how, Len(core) + 1)
  /\ UNCHANGED snap

\* u3_serf_work: the event is accepted, or the kernel accepts the news of its
\* failure in its place, or rejects that too.
SerfWork ==
  /\ core # <<>> /\ Take("work")
  /\ \E how \in Outcomes :
       /\ core' = CASE how = "done" -> Append(core, Head(inn).jobs[1])
                    [] how = "swap" -> Append(core, Crud)
                    [] how = "bail" -> core
       /\ Say("work", how, Len(core'))
  /\ UNCHANGED snap

\* _serf_play_life: the first batch is evaluated as a whole.
SerfLife ==
  /\ core = <<>> /\ Take("play") /\ Head(inn).eve = 1
  /\ \/ core' = Head(inn).jobs /\ Say("play", "done", Len(core'))
     \/ ReplayFails /\ core' = <<>> /\ Say("play", "bail", 0)
  /\ UNCHANGED snap

\* _serf_play_list: one event after another, up to one that fails; dun_d, the
\* last that succeeded, is reported.
SerfPlay ==
  /\ core # <<>> /\ Take("play") /\ Head(inn).eve = Len(core) + 1
  /\ \E n \in 0 .. Len(Head(inn).jobs) :
       /\ ReplayFails \/ n = Len(Head(inn).jobs)
       /\ core' = core \o SubSeq(Head(inn).jobs, 1, n)
       /\ Say("play", IF n = Len(Head(inn).jobs) THEN "done" ELSE "bail", Len(core'))
  /\ UNCHANGED snap

\* Faulty: no answer.
SerfPackSilent == Take("pack") /\ UNCHANGED <<out, core, snap>>

\* u3_serf_peek, u3m_pack, u3u_meld: the kernel does not change.
SerfPeek == Take("peek") /\ Say("peek", "done", 0) /\ UNCHANGED <<core, snap>>
SerfPack == Take("pack") /\ Say("live", "done", 0) /\ UNCHANGED <<core, snap>>

\* _serf_writ_live_save and %cram, with u3e_save (see Snapshot).
SerfKeep(t) ==
  /\ Take(t) /\ Head(inn).eve = Len(core)
  /\ snap' = core
  /\ Say("live", "done", 0)
  /\ UNCHANGED core

\* What stops the serf from taking the writ w: the assertions of u3_serf_work
\* and u3_serf_play, and the refusal of _serf_writ_live_save.
Refusals(w) ==
  (IF w.typ = "work" /\ core = <<>> THEN {"kernel"} ELSE {})
    \cup (IF w.typ = "play" /\ w.eve # Len(core) + 1 THEN {"order"} ELSE {})
    \cup (IF w.typ \in {"save", "cram"} /\ w.eve # Len(core) THEN {"save"} ELSE {})

SerfRefuses == serf = "up" /\ inn # <<>> /\ \E why \in Refusals(Head(inn)) : SerfDies(why)

\* Faulty: the request is dropped.
SerfExitIgnored == Take("exit") /\ UNCHANGED <<out, core, snap>>

\* _serf_writ_live_exit.
SerfExit == serf = "up" /\ inn # <<>> /\ Head(inn).typ = "exit" /\ SerfDies(fault)

\* _cw_serf_fail: the pipe has ended.
SerfOrphan == serf = "up" /\ inn = <<>> /\ god = "none" /\ SerfDies(fault)

\* A signal, a full loom, a failure to write to a pipe that nobody reads.
SerfCrash == serf # "dead" /\ SerfDies(fault)

SerfWrit == \/ SerfWork \/ SerfLife \/ SerfPlay \/ SerfPeek \/ SerfPack
            \/ SerfKeep("save") \/ SerfKeep("cram") \/ SerfExit \/ SerfRefuses

-----------------------------------------------------------------------------
(* The lord with a client that asks for anything the pier might.           *)

Start ==
  /\ god = "none" /\ eve = 0 /\ writs = <<>> /\ inn = <<>> /\ out = <<>>
  /\ serf = "dead" /\ core = <<>> /\ snap = <<>> /\ fault = "none"

Ask(ms) ==
  /\ god = "live" /\ Len(writs) < MaxDep
  /\ \A i \in DOMAIN writs : writs[i].typ # "exit"
  /\ LordPlan(writs, ms)
  /\ UNCHANGED <<god, eve, out, serf, core, snap, fault>>

Outstanding(t) == {i \in DOMAIN writs : writs[i].typ = t}

\* (The bound is on the events computed and to be computed.)
AskWork ==
  /\ Outstanding("play") = {} /\ Len(core) + Len(inn) < MaxEve
  /\ \E j \in Job \ {Crud} : Ask(<<WorkWrit(j)>>)

\* The next events of the log, in batches of one or two.
AskPlay ==
  LET last == IF Outstanding("play") = {} THEN eve
              ELSE LET w == writs[Len(writs)] IN w.eve + Len(w.jobs) - 1
  IN  /\ \A i \in DOMAIN writs : writs[i].typ = "play"
      /\ \E n \in 1 .. 2 : /\ last + n <= MaxEve
                           /\ \E js \in [1 .. n -> Job \ {Crud}] : Ask(<<PlayWrit(last + 1, js)>>)

AskPeek == Ask(<<BareWrit("peek")>>)
AskPack == Ask(<<BareWrit("pack")>>)
AskKeep == \E t \in {"save", "cram"} : Ask(LordKeep(writs, t, eve))
AskExit == Ask(<<BareWrit("exit")>>)

LordSpawn == god = "none" /\ serf = "dead" /\ LordInit
HearRipe  == LordRipe /\ UNCHANGED <<writs, inn, serf, core, snap, fault>>

\* A failed replay is the end of the pier (_pier_on_lord_play_bail).
ReplayFailed(p) == p.typ = "play" /\ p.how = "bail"

HearPlea  ==
  /\ Heard({"work", "peek", "play", "live"})
  /\ \/ ReplayFailed(Head(out)) /\ LordHalt
     \/ ~ReplayFailed(Head(out)) /\ LordHear /\ LordPlan(Tail(writs), <<>>)
HearEnd   == LordBroken /\ LordHalt
Halt      == god # "none" /\ LordHalt
KingDies  == god # "none" /\ LordOrphan

LordClient == AskWork \/ AskPlay \/ AskPeek \/ AskPack \/ AskKeep \/ AskExit \/ LordSpawn
LordHears  == HearRipe \/ HearPlea \/ HearEnd
LordFails  == SerfCrash \/ Halt \/ KingDies

LordNext == LordClient \/ LordHears \/ SerfRipe \/ SerfWrit \/ SerfOrphan \/ LordFails

LordSpec == Start /\ [][LordNext]_lordVars

\* libuv reads what has arrived, and the serf takes what it is sent; nothing
\* bounds how long an event takes.
LordFairness ==
  /\ WF_lordVars(LordHears)
  /\ WF_lordVars(SerfRipe \/ SerfWrit)

LordLive == LordSpec /\ LordFairness

-----------------------------------------------------------------------------
(* Properties.                                                             *)

LordTypeOK ==
  /\ god \in {"none", "init", "live"} /\ eve \in 0 .. MaxWord
  /\ writs \in Seq(Writ) /\ inn \in Seq(Writ) /\ out \in Seq(Plea)
  /\ serf \in {"dead", "boot", "up"}
  /\ core \in Kernel /\ snap \in Kernel
  /\ fault \in {"none", "kernel", "order", "save"}

\* The pleas on their way and then the writs on theirs are, one for one and in
\* order, the king's queue: matching by order alone is sound, whatever is sent
\* while the serf computes (_lord_writ_need, _lord_plea_live).
PleasMatchWrits ==
  LET answered == Len(writs) - Len(inn)
  IN  /\ LordTypeOK
      /\ god = "live" /\ serf = "up" =>
           /\ answered = Len(out)
           /\ \A i \in 1 .. answered : Answers(out[i], writs[i])
           /\ SubSeq(writs, answered + 1, Len(writs)) = inn

\* The king's event number once it has heard all that is on its way is the
\* kernel's: it never drifts, through failed, swapped and replayed events, but
\* for a failed replay, which ends the pier when it is heard.  So a serf is
\* never asked for a snapshot of another event than its own, nor to replay out
\* of order, unless a replay has failed: an empty queue is a sufficient guard
\* for the one, and a queue of batches for the other.
KingKnowsKernel ==
  /\ fault # "save"
  /\ fault = "order" => ReplayFails
  /\ (/\ god = "live" /\ serf = "up"
      /\ \A i \in DOMAIN out : ~ReplayFailed(out[i])) =>
       LET told == {i \in DOMAIN out : \/ out[i].typ = "play"
                                       \/ out[i].typ = "work" /\ out[i].how # "bail"}
           last == CHOOSE i \in told : \A k \in told : k <= i
       IN  Len(core) = IF told = {} THEN eve ELSE EveAfter(out[last], writs[last])

\* The checkpoint is a state that the kernel passed through, so that what the
\* serf of a crashed king leaves behind can be replayed from.
SnapIsPrefix ==
  serf = "up" => Len(snap) <= Len(core) /\ SubSeq(core, 1, Len(snap)) = snap

\* A checkpoint never goes backwards, nor to another history.
SnapNeverRegresses ==
  [][Len(snap) <= Len(snap') /\ SubSeq(snap', 1, Len(snap)) = snap]_lordVars

\* An exit asked for, behind any queue of writs, ends the lord: every writ
\* before it is answered (u3_lord_exit).
ExitCompletes == Outstanding("exit") # {} ~> god = "none"
=============================================================================
