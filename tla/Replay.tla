------------------------------- MODULE Replay -------------------------------
(***************************************************************************)
(* The replay queue of a pier (struct _u3_play in vere/pier.c): events are *)
(* read from the log in batches, and sent to the worker in batches of      *)
(* another size.  The queue is a value; Pier keeps it, and does the reads  *)
(* and sends that it asks for.                                             *)
(***************************************************************************)
EXTENDS Events

CONSTANTS PlayBatch,       \* PIER_PLAY_BATCH
          ReadBatch,       \* PIER_READ_BATCH
          Lif              \* pir_u->lif_w: events in the lifecycle sequence

ASSUME ReplayAssumption ==
  /\ PlayBatch \in Nat \ {0} /\ ReadBatch \in Nat \ {0} /\ Lif \in Nat \ {0}

Lesser(a, b)  == IF a < b THEN a ELSE b
Greater(a, b) == IF a < b THEN b ELSE a

NoPlay == [eve |-> 0, sen |-> 0, req |-> 0, q |-> <<>>]

\* _pier_play_init: replay what follows event g, up to event e.
PlayFrom(g, e) == [eve |-> e, sen |-> g, req |-> 0, q |-> <<>>]

\* _pier_play_plan: the events fs, that have been read, join the queue.
PlayQueued(pl, fs) == [pl EXCEPT !.q = @ \o fs]

\* The event after which a read must start: the assertion of _pier_play_plan.
PlayLast(pl) == IF pl.q = <<>> THEN pl.sen ELSE pl.q[Len(pl.q)].eve

\* The limit that _pier_play_send passes on.
PlayLimit(pl) ==
  IF pl.sen = 0 THEN Greater(Lif, PlayBatch) ELSE Lesser(pl.eve - pl.sen, PlayBatch)

\* How many events _pier_play_next detaches: its loop goes from the first
\* event to the one len_w places behind it.
PlayCount(pl) == IF pl.q = <<>> THEN 0 ELSE Lesser(Len(pl.q), PlayLimit(pl) + 1)

\* The batch that _pier_play_send sends, if any.
PlayBatchOf(pl) == SubSeq(pl.q, 1, PlayCount(pl))

\* The queue after that batch.
PlaySent(pl) ==
  LET n == PlayCount(pl)
  IN  IF n = 0 THEN pl
      ELSE [pl EXCEPT !.sen = pl.q[n].eve, !.q = SubSeq(pl.q, n + 1, Len(pl.q))]

\* Faulty: one read only.
PlayWantsOnce(pl) == IF pl.req # 0 THEN 0 ELSE Lesser(pl.eve - PlayLast(pl), ReadBatch)

\* Faulty: a read past the barrier.
PlayWantsPast(pl) == IF PlayLast(pl) + 1 <= pl.req THEN 0 ELSE ReadBatch

\* How many events _pier_play_read asks for: none if the queue is deep, if the
\* barrier has been read, or if that read is outstanding.
PlayWants(pl) ==
  LET las == PlayLast(pl)
      len == Lesser(pl.eve - las, ReadBatch)
  IN  IF \/ pl.q # <<>> /\ las - pl.q[1].eve >= PlayBatch
         \/ len = 0
         \/ las + 1 <= pl.req
      THEN 0 ELSE len

\* The queue after that read has been started.
PlayAsked(pl) == IF PlayWants(pl) = 0 THEN pl ELSE [pl EXCEPT !.req = PlayLast(pl) + 1]
=============================================================================
