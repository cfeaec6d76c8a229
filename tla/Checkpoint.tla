----------------------------- MODULE Checkpoint -----------------------------
(***************************************************************************)
(* What the snapshot system promises: the state of a computation, and one  *)
(* checkpoint of it, which is replaced as a whole or not at all.  A        *)
(* process that dies while it saves may or may not have replaced it; one   *)
(* that starts continues from exactly what the checkpoint holds.           *)
(***************************************************************************)
CONSTANTS Down,            \* no process is running
          Empty,           \* no checkpoint was ever made
          Fresh            \* what a computation without a checkpoint starts from

VARIABLES cur, ckpt

ckptVars == <<cur, ckpt>>

CkptInit == cur = Down /\ ckpt = Empty

CkptStart == /\ cur = Down
             /\ cur' = IF ckpt = Empty THEN Fresh ELSE ckpt
             /\ UNCHANGED ckpt

CkptRun == cur # Down /\ cur' # Down /\ UNCHANGED ckpt

CkptSave == cur # Down /\ ckpt' = cur /\ UNCHANGED cur

CkptDie == cur # Down /\ cur' = Down /\ ckpt' \in {ckpt, cur}

CkptNext == CkptStart \/ CkptRun \/ CkptSave \/ CkptDie

CkptSpec == CkptInit /\ [][CkptNext]_ckptVars
=============================================================================
