-------------------------------- MODULE Ova ---------------------------------
(***************************************************************************)
(* What the i/o drivers' queues of module Auto promise: each driver has    *)
(* a first in, first out queue of ova; the lord takes them from the front  *)
(* and answers in the order he took them; a failed %wake goes back to the  *)
(* front of its queue, with one more try on it; and when ames' queue is    *)
(* full, the packets in it that waited longest are forgotten, and nothing  *)
(* else ever is.                                                           *)
(***************************************************************************)
EXTENDS Naturals, Sequences, SequencesExt, FiniteSets

CONSTANTS Driver, Egg, AmesCar, BehnCar, Cap, Batch, MaxTry

VARIABLES queue,           \* for each driver, its ova
          what,            \* for each ovum, its owner, kind and tries
          sent,            \* the ova with the lord
          gone             \* the pier has bailed

ovaVars == <<queue, what, sent, gone>>

Unused == [car |-> 0, kind |-> "ovum", try |-> 0]

InUse(e) == e \in Range(sent) \/ \E d \in Driver : e \in Range(queue[d])

\* The ovum a waits in the queue q longer than b.
Precedes(q, a, b) == \E i, j \in 1 .. Len(q) : i < j /\ q[i] = a /\ q[j] = b

\* The queue r is q but for some ova, in the same order.
PartOf(r, q) ==
  /\ Range(r) \subseteq Range(q)
  /\ \A i, j \in 1 .. Len(r) : i < j => Precedes(q, r[i], r[j])

\* Of the ova lost from q, which leaves r, each is a packet, and the oldest are;
\* no more than the limit asks for, and no fewer unless there is no packet left.
OnlyOldest(lost, q, r, w) ==
  /\ \A e \in lost : w[e].kind = "hear"
  /\ \A e \in lost, f \in Range(r) : w[f].kind = "hear" => Precedes(q, e, f)
  /\ Len(r) < Cap => lost = {}
  /\ Len(r) > Cap => \A f \in Range(r) : w[f].kind # "hear"

OvaPlan ==
  \E d \in Driver, e \in Egg :
    /\ ~gone /\ ~InUse(e)
    /\ queue' = [queue EXCEPT ![d] = Append(@, e)]
    /\ what' = [what EXCEPT ![e] = [Unused EXCEPT !.car = d]]
    /\ UNCHANGED <<sent, gone>>

OvaHear ==
  \E e \in Egg :
    LET q == Append(queue[AmesCar], e)
        r == queue'[AmesCar]
        w == [what EXCEPT ![e] = [Unused EXCEPT !.car = AmesCar, !.kind = "hear"]]
        lost == Range(q) \ Range(r)
    IN  /\ ~gone /\ ~InUse(e)
        /\ PartOf(r, q) /\ OnlyOldest(lost, q, r, w)
        /\ queue' = [queue EXCEPT ![AmesCar] = r]
        /\ what' = [f \in Egg |-> IF f \in lost THEN Unused ELSE w[f]]
        /\ UNCHANGED <<sent, gone>>

OvaSend ==
  \E d \in Driver :
    /\ ~gone /\ queue[d] # <<>> /\ Len(sent) < Batch
    /\ sent' = Append(sent, Head(queue[d]))
    /\ queue' = [queue EXCEPT ![d] = Tail(@)]
    /\ UNCHANGED <<what, gone>>

\* Done, or failed and given up.
OvaEnd ==
  /\ ~gone /\ sent # <<>>
  /\ what' = [what EXCEPT ![Head(sent)] = Unused]
  /\ sent' = Tail(sent)
  /\ UNCHANGED <<queue, gone>>

OvaRetry ==
  /\ ~gone /\ sent # <<>>
  /\ what[Head(sent)].car = BehnCar /\ what[Head(sent)].try < MaxTry
  /\ what' = [what EXCEPT ![Head(sent)].try = @ + 1]
  /\ queue' = [queue EXCEPT ![BehnCar] = <<Head(sent)>> \o @]
  /\ sent' = Tail(sent)
  /\ UNCHANGED gone

OvaGone ==
  /\ ~gone /\ gone' = TRUE
  /\ queue' = [d \in Driver |-> <<>>] /\ sent' = <<>> /\ what' = [e \in Egg |-> Unused]

OvaInit ==
  /\ queue = [d \in Driver |-> <<>>] /\ sent = <<>> /\ what = [e \in Egg |-> Unused]
  /\ gone = FALSE

OvaNext == OvaPlan \/ OvaHear \/ OvaSend \/ OvaEnd \/ OvaRetry \/ OvaGone

OvaSpec == OvaInit /\ [][OvaNext]_ovaVars
=============================================================================
