-------------------------------- MODULE Ship --------------------------------
(***************************************************************************)
(* What a ship promises the world, with no processes, queues, batches or   *)
(* walls: its history is a log of events that only grows, the effects of   *)
(* an event are felt only when the event is in the log, in the order of    *)
(* the log and at most once, and its checkpoint is a state that the log    *)
(* leads to.  A crash shows in none of the three.                          *)
(***************************************************************************)
EXTENDS Integers, Sequences

CONSTANT Job               \* what an event can contain

VARIABLES log,             \* the durable events
          said,            \* the events whose effects were released, in order
          ckpt             \* the jobs in the kernel of the checkpoint

shipVars == <<log, said, ckpt>>

ShipInit == log = <<>> /\ said = <<>> /\ ckpt = <<>>

ShipLog ==
  /\ Len(log') > Len(log) /\ SubSeq(log', 1, Len(log)) = log
  /\ UNCHANGED <<said, ckpt>>

\* The effects of some of the log's events: each is an event of the log, later
\* than those released before it.  A crash may have skipped some.
ShipSay ==
  /\ Len(said') > Len(said) /\ SubSeq(said', 1, Len(said)) = said
  /\ \A i \in Len(said) + 1 .. Len(said') :
       /\ said'[i].eve \in 1 .. Len(log) /\ said'[i].job = log[said'[i].eve]
       /\ \A k \in 1 .. i - 1 : said'[k].eve < said'[i].eve
  /\ UNCHANGED <<log, ckpt>>

ShipCheckpoint ==
  /\ \E n \in Len(ckpt) .. Len(log) : ckpt' = SubSeq(log, 1, n)
  /\ UNCHANGED <<log, said>>

ShipNext == ShipLog \/ ShipSay \/ ShipCheckpoint

ShipSpec == ShipInit /\ [][ShipNext]_shipVars
=============================================================================
