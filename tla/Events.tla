------------------------------- MODULE Events -------------------------------
(***************************************************************************)
(* What the modules of a ship share: the contents of its events, and the   *)
(* bound of a run on their numbers, which are consecutive from 1.          *)
(***************************************************************************)
EXTENDS Integers, Sequences

CONSTANTS Job,             \* what an event can contain
          MaxEve           \* bound on event numbers

ASSUME EventsAssumption == MaxEve \in Nat
=============================================================================
