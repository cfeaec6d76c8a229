-------------------------------- MODULE Behn --------------------------------
(***************************************************************************)
(* The timer driver (vere/io/behn.c) and the vane it serves                *)
(* (arvo/sys/vane/behn.hoon).  The vane keeps the timers and asks for one  *)
(* wakeup at a time with a %doze; the driver keeps one libuv timer and     *)
(* answers with a %wake.  Between them stand the queue of ova, the serf,   *)
(* and the log: a %doze reaches the driver only when its event is durable, *)
(* and a crash loses those that have not.                                  *)
(*                                                                         *)
(* Time is counted in ticks.  A libuv timer counts whole milliseconds, so  *)
(* that it may go off while the kernel's clock still stands before it.     *)
(***************************************************************************)
EXTENDS Naturals, Sequences, SequencesExt, FiniteSetsExt

CONSTANTS MaxNow,          \* bound: the last tick
          Retries,          \* retries of an ovum: 2
          MaxCalls,        \* bound: calls of other vanes
          MaxCrash,        \* bound: crashes
          MaxWakes,        \* bound: %wakes on their way
          MaxGifts         \* bound: events done and not durable

ASSUME BehnAssumption ==
  /\ {MaxNow, Retries, MaxCalls, MaxCrash, MaxGifts} \subseteq Nat
  /\ MaxWakes \in Nat \ {0}

Tick == 0 .. MaxNow
None == MaxNow + 1                       \* no alarm, no date
Backstop == MaxNow + 2                   \* the alarm ten minutes on
Date == Tick \cup {None}

VARIABLES now, alarm, liv,               \* the clock; u3_behn: tim_u and alm_o, liv_o
          ova,                           \* the driver's ova, queued or with the lord
          vane,                          \* behn-state: timers, next-wake, unix-duct
          gifts,                         \* per event done: its %dozes, the vane after it
          dur,                           \* the vane in the log
          calls, crashes, bailed,        \* counters; the pier has bailed
          unborn                         \* history: this start's %born was swapped

behnVars == <<now, alarm, liv, ova, vane, gifts, dur, calls, crashes, bailed, unborn>>

Vane  == [timers : SUBSET Tick, wake : Date, duct : BOOLEAN]
WakeOvum == [kind : {"born", "wake"}, try : 0 .. Retries]

-----------------------------------------------------------------------------
(* The vane.  An entry point maps the state v, at the time t, to a new one *)
(* and the %dozes it gives.                                                *)

Quiet(v) == [vane |-> v, dozes |-> <<>>]

\* +emit-doze, which never asks for a date that has passed.
EmitDoze(v, t, d) ==
  LET wen == IF d = None THEN None ELSE Max({t, d}) IN
  IF ~v.duct THEN Quiet(v)
  ELSE [vane |-> [v EXCEPT !.wake = wen], dozes |-> <<wen>>]

\* Faulty: a wakeup that is set is never set again.
SetUnixWakeOnce(v, t) ==
  IF v.timers = {} THEN IF v.wake = None THEN Quiet(v) ELSE EmitDoze(v, t, None)
  ELSE IF v.wake # None THEN Quiet(v)
  ELSE EmitDoze(v, t, Min(v.timers))

\* +set-unix-wake.
SetUnixWake(v, t) ==
  IF v.timers = {} THEN IF v.wake = None THEN Quiet(v) ELSE EmitDoze(v, t, None)
  ELSE IF v.wake # None /\ Min(v.timers) >= v.wake /\ t <= v.wake THEN Quiet(v)
  ELSE EmitDoze(v, t, Min(v.timers))

Born(v, t) == SetUnixWake([v EXCEPT !.wake = None, !.duct = TRUE], t)

Wait(v, t, d) == SetUnixWake([v EXCEPT !.timers = @ \cup {d}], t)
Rest(v, t, d) == SetUnixWake([v EXCEPT !.timers = @ \ {d}], t)

Popped(v) == [v EXCEPT !.timers = @ \ {Min(@)}]

\* +wake; the timer that is popped wakes a vane.
Wake(v, t) ==
  IF v.timers = {} THEN Quiet(v)
  ELSE IF Min(v.timers) > t THEN SetUnixWake([v EXCEPT !.wake = None], t)
  ELSE SetUnixWake(Popped(v), t)

\* +crud of a %wake: the error is passed to the vane of the first timer.
CrudWake(v, t) == SetUnixWake(Popped(v), t)

-----------------------------------------------------------------------------
(* The driver.                                                             *)

\* An event is done, its effects wait for the log.
Work(r) ==
  /\ Len(gifts) < MaxGifts
  /\ vane' = r.vane
  /\ gifts' = Append(gifts, r)

NewEgg(k) == [kind |-> k, try |-> 0]

Wakes == Cardinality({i \in DOMAIN ova : ova[i].kind = "wake"})

\* A libuv timer that is due, or that may be read as due (see above); how long
\* ten minutes are is not told.
Due == \/ alarm = Backstop
       \/ alarm # None /\ alarm <= now + 1

\* Faulty: no backstop.
TimeCbBare ==
  /\ ~bailed /\ Due /\ Wakes < MaxWakes
  /\ alarm' = None
  /\ ova' = Append(ova, NewEgg("wake"))
  /\ UNCHANGED <<now, liv, vane, gifts, dur, calls, crashes, bailed, unborn>>

\* _behn_time_cb.
TimeCb ==
  /\ ~bailed /\ Due /\ Wakes < MaxWakes
  /\ alarm' = Backstop
  /\ ova' = Append(ova, NewEgg("wake"))
  /\ UNCHANGED <<now, liv, vane, gifts, dur, calls, crashes, bailed, unborn>>

\* The first ovum is done: _behn_born_news, or nothing to tell.
OvumDone ==
  /\ ~bailed /\ ova # <<>>
  /\ Work(IF Head(ova).kind = "born" THEN Born(vane, now) ELSE Wake(vane, now))
  /\ liv' = (liv \/ Head(ova).kind = "born")
  /\ ova' = Tail(ova)
  /\ UNCHANGED <<now, alarm, dur, calls, crashes, bailed, unborn>>

\* It crashes, and %crud is done in its place.  After a %born nothing is set.
OvumSwap ==
  /\ ~bailed /\ ova # <<>>
  /\ Head(ova).kind = "wake" => vane.timers # {}
  /\ Work(IF Head(ova).kind = "born" THEN Quiet(vane) ELSE CrudWake(vane, now))
  /\ liv' = (liv \/ Head(ova).kind = "born")
  /\ ova' = Tail(ova)
  /\ unborn' = (unborn \/ Head(ova).kind = "born")
  /\ UNCHANGED <<now, alarm, dur, calls, crashes, bailed>>

\* Both crash: _behn_wake_bail or _behn_born_bail, which tries again if it was
\* for want of memory or an interrupt (not dire), and ends the pier otherwise.
OvumBail ==
  /\ ~bailed /\ ova # <<>>
  /\ \E dire \in BOOLEAN :
       IF ~dire /\ Head(ova).try < Retries
       THEN ova' = <<[Head(ova) EXCEPT !.try = @ + 1]>> \o Tail(ova) /\ bailed' = FALSE
       ELSE ova' = <<>> /\ bailed' = TRUE
  /\ UNCHANGED <<now, alarm, liv, vane, gifts, dur, calls, crashes, unborn>>

\* An event of another driver makes a vane set or cancel a timer.
Call ==
  /\ ~bailed /\ calls < MaxCalls
  /\ \E d \in Tick : Work(Wait(vane, now, d)) \/ Work(Rest(vane, now, d))
  /\ calls' = calls + 1
  /\ UNCHANGED <<now, alarm, liv, ova, dur, crashes, bailed, unborn>>

\* _behn_ef_doze, once per effect of an event, on the alarm a: what is armed is
\* stopped, and a date, if there is one, armed; the last effect stays.
EfDoze(a, s) == IF s = <<>> THEN a ELSE Last(s)

\* The log has the event: u3_auto_kick gives its effects to the driver.
Kick ==
  /\ ~bailed /\ gifts # <<>>
  /\ alarm' = EfDoze(alarm, Head(gifts).dozes)
  /\ liv' = (liv \/ Head(gifts).dozes # <<>>)
  /\ dur' = Head(gifts).vane
  /\ gifts' = Tail(gifts)
  /\ UNCHANGED <<now, ova, vane, calls, crashes, bailed, unborn>>

\* The process dies, with some more events in the log than it knows, and starts
\* again: u3_behn_io_init, and _behn_io_talk.
Crash ==
  /\ crashes < MaxCrash
  /\ \E k \in 0 .. Len(gifts) :
       LET v == IF k = 0 THEN dur ELSE gifts[k].vane IN vane' = v /\ dur' = v
  /\ gifts' = <<>> /\ alarm' = None /\ liv' = FALSE
  /\ ova' = <<NewEgg("born")>>
  /\ crashes' = crashes + 1 /\ bailed' = FALSE /\ unborn' = FALSE
  /\ UNCHANGED <<now, calls>>

Clock ==
  /\ now < MaxNow /\ now' = now + 1
  /\ UNCHANGED <<alarm, liv, ova, vane, gifts, dur, calls, crashes, bailed, unborn>>

\* A ship that starts for the first time.
BehnInit ==
  /\ now = 0 /\ alarm = None /\ liv = FALSE /\ bailed = FALSE /\ unborn = FALSE
  /\ ova = <<NewEgg("born")>>
  /\ vane = [timers |-> {}, wake |-> None, duct |-> FALSE] /\ dur = vane
  /\ gifts = <<>> /\ calls = 0 /\ crashes = 0

OvumEnds == OvumDone \/ OvumSwap \/ OvumBail

BehnNext == TimeCb \/ OvumEnds \/ Call \/ Kick \/ Crash \/ Clock

\* Time passes, libuv runs its timers, the serf answers and the log is written.
BehnFair ==
  /\ WF_behnVars(Clock) /\ WF_behnVars(TimeCb)
  /\ WF_behnVars(OvumEnds) /\ WF_behnVars(Kick)

BehnSpec == BehnInit /\ [][BehnNext]_behnVars

BehnFairSpec == BehnSpec /\ BehnFair

-----------------------------------------------------------------------------
(* Properties.                                                             *)

BehnTypeOK ==
  /\ now \in Tick /\ alarm \in Date \cup {Backstop} /\ liv \in BOOLEAN /\ bailed \in BOOLEAN
  /\ unborn \in BOOLEAN
  /\ ova \in Seq(WakeOvum) /\ Len(ova) <= MaxWakes + 1
  /\ vane \in Vane /\ dur \in Vane
  /\ gifts \in Seq([vane : Vane, dozes : Seq(Date)]) /\ Len(gifts) <= MaxGifts
  /\ calls \in 0 .. MaxCalls /\ crashes \in 0 .. MaxCrash

AtRest == ~bailed /\ liv /\ ova = <<>> /\ gifts = <<>> /\ vane.timers # {}

\* Whenever the driver has no ovum to send and no effect to receive, and a timer
\* is set, libuv holds an alarm for the first one or for now, after whatever order
\* of alarms, late %dozes, retries and crashes; or else the backstop, because the
\* wakeup that the kernel believes in has just gone off.  (A %born that was
\* swapped is excepted.)
TimerIsHeld ==
  /\ BehnTypeOK
  /\ AtRest /\ ~unborn =>
       \/ alarm <= Max({now, Min(vane.timers)})
       \/ alarm = Backstop /\ vane.wake <= now + 1

\* Every timer that is set goes off or is cancelled, unless the pier bails or its
\* %born was swapped.
TimerFires == \A d \in Tick : d \in vane.timers ~> d \notin vane.timers \/ bailed \/ unborn
=============================================================================
