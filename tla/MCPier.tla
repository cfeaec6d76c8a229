------------------------------- MODULE MCPier -------------------------------
(***************************************************************************)
(* Small instances of Pier for TLC.                                        *)
(***************************************************************************)
EXTENDS Pier, TLC

CONSTANTS life, wyrd, ovum, crud

\* A lifecycle sequence of one event and a module event; a longer one for
\* replay in several batches.
ShortPill == <<life, ovum>>
LongPill  == <<life, ovum, crud>>

LiveSpec == PierSpec /\ PierFairness
=============================================================================
