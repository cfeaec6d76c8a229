-------------------------------- MODULE Auto --------------------------------
(***************************************************************************)
(* The i/o drivers' queues (vere/auto.c): each driver has a doubly linked  *)
(* list of ova and a count beside it.  Ova join at the entry, are retried  *)
(* at the exit, are dropped from the middle by ames (its _ames_cap_queue), *)
(* and leave for the lord in batches that walk the chain of drivers depth  *)
(* first (_pier_work_send).                                                *)
(*                                                                         *)
(* Ova are cells of a heap, and 0 is the null pointer: a freed cell is     *)
(* allocated again, so that the queues live for ever.  What the lists mean *)
(* is module Ova.                                                          *)
(***************************************************************************)
EXTENDS Naturals, Sequences, SequencesExt, FiniteSets

CONSTANTS NDrivers,        \* the chain of drivers is 1 .. NDrivers
          AmesCar, BehnCar,      \* the driver that caps, the driver that retries
          NEggs,           \* the size of the heap
          Cap,             \* ames' limit of its queue: 1000
          Batch,           \* PIER_WORK_BATCH
          MaxTry           \* how often behn retries: 2

Driver == 1 .. NDrivers
Egg    == 1 .. NEggs

ASSUME AutoAssumption ==
  /\ NDrivers \in Nat /\ NEggs \in Nat /\ Cap \in Nat /\ MaxTry \in Nat
  /\ Batch \in Nat \ {0}
  /\ AmesCar \in Driver /\ BehnCar \in Driver /\ AmesCar # BehnCar

VARIABLES egg,             \* the heap of u3_ovum
          car,             \* u3_auto: ext, ent, dep
          sent,            \* the ova that the lord has, in order
          cur, len,        \* _pier_work_send's car_u and len_w; cur = 0 outside
          gone             \* the pier has bailed

autoVars == <<egg, car, sent, cur, len, gone>>

Ovum == [sat : {"free", "plan", "work"}, car : Driver \cup {0}, kind : {"hear", "ovum"},
         try : 0 .. MaxTry, pre : Egg \cup {0}, nex : Egg \cup {0}]

Free == [sat |-> "free", car |-> 0, kind |-> "ovum", try |-> 0, pre |-> 0, nex |-> 0]

\* u3_ovum_init.
NewOvum(d, k) == [Free EXCEPT !.sat = "plan", !.car = d, !.kind = k]

-----------------------------------------------------------------------------
(* The lists, as functions from heaps h and drivers' records c to new ones. *)

\* The heap h with the pointer p.f set to q; nothing is written through null.
SetPre(h, p, q) == IF p = 0 THEN h ELSE [h EXCEPT ![p].pre = q]
SetNex(h, p, q) == IF p = 0 THEN h ELSE [h EXCEPT ![p].nex = q]

\* u3_auto_plan: at the entry.
PlanHeap(h, c, e) == SetPre(SetNex([h EXCEPT ![e].nex = 0], c.ent, e), e, c.ent)

PlanCar(c, e) ==
  IF c.ent = 0 THEN [ext |-> e, ent |-> e, dep |-> 1]
  ELSE [c EXCEPT !.ent = e, !.dep = @ + 1]

\* Faulty: the exit's back link is not set.
RedoHeapOneWay(h, c, e) == SetNex([h EXCEPT ![e].pre = 0, ![e].try = @ + 1], e, c.ext)

\* u3_auto_redo: at the exit.
RedoHeap(h, c, e) == SetNex(SetPre([h EXCEPT ![e].pre = 0, ![e].try = @ + 1], c.ext, e), e, c.ext)

RedoCar(c, e) ==
  IF c.ent = 0 THEN [ext |-> e, ent |-> e, dep |-> 1]
  ELSE [c EXCEPT !.ext = e, !.dep = @ + 1]

\* u3_auto_drop: unlink from anywhere, and free.
DropHeap(h, e) ==
  [SetPre(SetNex(h, h[e].pre, h[e].nex), h[e].nex, h[e].pre) EXCEPT ![e] = Free]

DropCar(h, c, e) ==
  [ext |-> IF h[e].pre = 0 THEN h[e].nex ELSE c.ext,
   ent |-> IF h[e].nex = 0 THEN h[e].pre ELSE c.ent,
   dep |-> IF c.dep = 0 THEN 0 ELSE c.dep - 1]       \* the code's wraps

\* The ova from e on, by the links l; along those to the entry, or to the exit.
Along(l, e) ==
  LET f[n \in 0 .. NEggs] ==
        [p \in Egg \cup {0} |-> IF n = 0 \/ p = 0 THEN <<>> ELSE <<p>> \o f[n - 1][l[p]]]
  IN  f[NEggs][e]

Ahead(h, e)  == Along([p \in Egg |-> h[p].nex], e)
Behind(h, e) == Along([p \in Egg |-> h[p].pre], e)

\* Faulty: whatever is oldest is dropped.
CapStepAny(s) ==
  IF s.at = 0 \/ s.car.dep <= Cap THEN s
  ELSE [heap |-> DropHeap(s.heap, s.at), car |-> DropCar(s.heap, s.car, s.at),
        at |-> s.heap[s.at].nex]

\* One turn of _ames_cap_queue's loop: the next ovum is read before a drop.
CapStep(s) ==
  IF s.at = 0 \/ s.car.dep <= Cap THEN s
  ELSE IF s.heap[s.at].kind = "hear"
       THEN [heap |-> DropHeap(s.heap, s.at), car |-> DropCar(s.heap, s.car, s.at),
             at |-> s.heap[s.at].nex]
       ELSE [s EXCEPT !.at = s.heap[@].nex]

\* _ames_cap_queue, from the exit on.
Capped(h, c) ==
  LET f[n \in 0 .. NEggs] ==
        IF n = 0 THEN [heap |-> h, car |-> c, at |-> c.ext] ELSE CapStep(f[n - 1])
  IN  f[NEggs]

-----------------------------------------------------------------------------
(* The steps.  In a batch, cur # 0, only the batch goes on.                *)

Idle == ~gone /\ cur = 0

Fresh(e) == egg[e].sat = "free"

\* u3_auto_plan, by any driver, of anything but a packet.
Plan ==
  /\ Idle
  /\ \E d \in Driver, e \in Egg :
       /\ Fresh(e)
       /\ egg' = PlanHeap([egg EXCEPT ![e] = NewOvum(d, "ovum")], car[d], e)
       /\ car' = [car EXCEPT ![d] = PlanCar(@, e)]
  /\ UNCHANGED <<sent, cur, len, gone>>

\* _ames_put_packet: plan a %hear, then cap the queue.
PutPacket ==
  /\ Idle
  /\ \E e \in Egg :
       LET h == PlanHeap([egg EXCEPT ![e] = NewOvum(AmesCar, "hear")], car[AmesCar], e)
           s == Capped(h, PlanCar(car[AmesCar], e))
       IN  /\ Fresh(e)
           /\ egg' = s.heap
           /\ car' = [car EXCEPT ![AmesCar] = s.car]
  /\ UNCHANGED <<sent, cur, len, gone>>

\* _pier_work_send begins, if there is room in the lord.
SendStart ==
  /\ Idle /\ Len(sent) < Batch
  /\ cur' = 1 /\ len' = Batch - Len(sent)
  /\ UNCHANGED <<egg, car, sent, gone>>

\* u3_auto_next: what it does to the ovum at an exit and the one behind it.
NextHeap(h, e) == [SetPre(h, h[e].nex, 0) EXCEPT ![e].nex = 0, ![e].sat = "work"]

NextCar(h, c, e) ==
  IF h[e].nex # 0 THEN [c EXCEPT !.ext = h[e].nex, !.dep = @ - 1]
  ELSE [ext |-> 0, ent |-> 0, dep |-> 0]

\* One turn of its loop: the first ovum of the first driver from cur on that
\* has any.
SendOne ==
  /\ cur # 0 /\ len > 0
  /\ \E d \in cur .. NDrivers :
       LET e == car[d].ext IN
       /\ e # 0 /\ \A b \in cur .. d - 1 : car[b].ext = 0
       /\ egg' = NextHeap(egg, e)
       /\ car' = [car EXCEPT ![d] = NextCar(egg, @, e)]
       /\ sent' = Append(sent, e)
       /\ cur' = d /\ len' = len - 1
  /\ UNCHANGED gone

SendEnd ==
  /\ cur # 0
  /\ len = 0 \/ \A d \in cur .. NDrivers : car[d].ext = 0
  /\ cur' = 0 /\ len' = 0
  /\ UNCHANGED <<egg, car, sent, gone>>

\* u3_auto_done, of the oldest ovum that the lord has.
Done ==
  /\ Idle /\ sent # <<>>
  /\ egg' = [egg EXCEPT ![Head(sent)] = Free]
  /\ sent' = Tail(sent)
  /\ UNCHANGED <<car, cur, len, gone>>

\* u3_auto_bail: freed, or for behn retried (_behn_wake_bail).
Bail ==
  /\ Idle /\ sent # <<>>
  /\ LET e == Head(sent) IN
     IF egg[e].car = BehnCar
     THEN /\ egg[e].try < MaxTry
          /\ egg' = RedoHeap([egg EXCEPT ![e].sat = "plan"], car[BehnCar], e)
          /\ car' = [car EXCEPT ![BehnCar] = RedoCar(@, e)]
     ELSE egg' = [egg EXCEPT ![e] = Free] /\ UNCHANGED car
  /\ sent' = Tail(sent)
  /\ UNCHANGED <<cur, len, gone>>

\* The same, when it was the last try: u3_pier_bail.  _lord_writ_free drops what
\* the lord has, though that is in no queue, and u3_auto_exit frees the rest.
BailLast ==
  /\ Idle /\ sent # <<>>
  /\ egg[Head(sent)].car = BehnCar /\ egg[Head(sent)].try = MaxTry
  /\ egg' = [e \in Egg |-> Free]
  /\ car' = [d \in Driver |-> [ext |-> 0, ent |-> 0, dep |-> 0]]
  /\ sent' = <<>> /\ gone' = TRUE
  /\ UNCHANGED <<cur, len>>

AutoInit ==
  /\ egg = [e \in Egg |-> Free]
  /\ car = [d \in Driver |-> [ext |-> 0, ent |-> 0, dep |-> 0]]
  /\ sent = <<>> /\ cur = 0 /\ len = 0 /\ gone = FALSE

Send == SendStart \/ SendOne \/ SendEnd

AutoNext == Plan \/ PutPacket \/ Send \/ Done \/ Bail \/ BailLast

AutoSpec == AutoInit /\ [][AutoNext]_autoVars

-----------------------------------------------------------------------------
(* Properties.                                                             *)

AutoTypeOK ==
  /\ egg \in [Egg -> Ovum]
  /\ car \in [Driver -> [ext : Egg \cup {0}, ent : Egg \cup {0}, dep : 0 .. NEggs]]
  /\ sent \in Seq(Egg) /\ cur \in 0 .. NDrivers /\ len \in 0 .. Batch /\ gone \in BOOLEAN

Queue(d) == Ahead(egg, car[d].ext)

\* After any mix of plans, retries, drops from the middle and departures, the two
\* directions of every list agree, its count is its length, and every planned
\* ovum is in its own driver's list: none is lost and none is reachable freed.
LinksAgree ==
  /\ AutoTypeOK
  /\ \A d \in Driver :
       /\ Reverse(Queue(d)) = Behind(egg, car[d].ent)
       /\ car[d].dep = Len(Queue(d))
  /\ \A e \in Egg : egg[e].sat = "plan" <=> \E d \in Driver : e \in Range(Queue(d))
  /\ \A e \in Egg : egg[e].sat = "work" <=> e \in Range(sent)

\* The lists and their cells as module Ova has them.
QueueMap == [d \in Driver |-> Queue(d)]
WhatMap  == [e \in Egg |-> [car |-> egg[e].car, kind |-> egg[e].kind, try |-> egg[e].try]]

Queues == INSTANCE Ova WITH queue <- QueueMap, what <- WhatMap

\* However the pointers move, the lists are the queues of module Ova: first in,
\* first out, a retry in front, and only ames' oldest packets ever forgotten.
QueuesSpec == Queues!OvaSpec
=============================================================================
