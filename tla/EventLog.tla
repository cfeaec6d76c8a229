------------------------------ MODULE EventLog ------------------------------
(***************************************************************************)
(* What the event log of a ship promises, with no threads, batches or      *)
(* queues: events are planned one after another, made durable in the order *)
(* in which they were planned, and acknowledged only once durable.  A      *)
(* process that dies loses what was planned and not yet durable: always a  *)
(* suffix, never an event from the middle.                                 *)
(***************************************************************************)
EXTENDS Naturals, Sequences

CONSTANT Job               \* what an event can contain

VARIABLES log,             \* the durable events, in order
          pend,            \* planned by this process and not yet durable
          ack              \* how many events this process knows to be durable

logVars == <<log, pend, ack>>

LogInit == log = <<>> /\ pend = <<>> /\ ack = 0

\* One event, or the whole boot sequence, joins the queue.
LogPlan ==
  /\ Len(pend') > Len(pend)
  /\ SubSeq(pend', 1, Len(pend)) = pend
  /\ UNCHANGED <<log, ack>>

\* A group commit: a prefix of the queue, in one step.
LogPersist ==
  /\ \E n \in 1 .. Len(pend) :
       /\ log' = log \o SubSeq(pend, 1, n)
       /\ pend' = SubSeq(pend, n + 1, Len(pend))
  /\ UNCHANGED ack

LogAck == ack < Len(log) /\ ack' = Len(log) /\ UNCHANGED <<log, pend>>

\* The process goes away, or a new one reads the log.
LogReset == pend' = <<>> /\ ack' = Len(log) /\ UNCHANGED log

LogNext == LogPlan \/ LogPersist \/ LogAck \/ LogReset

LogSpec == LogInit /\ [][LogNext]_logVars
=============================================================================
