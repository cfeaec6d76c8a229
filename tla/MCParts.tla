------------------------------ MODULE MCParts ------------------------------
(***************************************************************************)
(* Small instances for TLC of the parts below the pier, one at a time: the *)
(* event log, the lord with its serf, and the pipe between the two.        *)
(***************************************************************************)
EXTENDS Disk, Lord, Newt

VARIABLE part  \* what a behaviour is about

partsVars == <<part, diskVars, lordVars, newtVars>>

\* One byte; and three, more than a digit can count, that look like the start
\* of a header.
Messages == {<<1>>, <<0, 0, 1>>}

\* The parts that a behaviour is not about are in their first states, in which
\* fairness asks nothing of them: no log is open, no serf has been spawned and
\* nothing has been sent.
NewtStill == NewtInit /\ mode = "sync"

PartsInit == \/ part = "log" /\ DiskInit /\ Start /\ NewtStill
             \/ part = "lord" /\ DiskInit /\ Start /\ NewtStill
             \/ part = "pipe" /\ DiskInit /\ Start /\ NewtInit

PartsNext ==
  \/ part = "log" /\ DiskNext /\ UNCHANGED <<part, lordVars, newtVars>>
  \/ part = "lord" /\ LordNext /\ UNCHANGED <<part, diskVars, newtVars>>
  \/ part = "pipe" /\ NewtNext /\ UNCHANGED <<part, diskVars, lordVars>>

PartsSpec ==
  PartsInit /\ [][PartsNext]_partsVars /\ DiskFairness /\ LordFairness /\ NewtFairness
=============================================================================
