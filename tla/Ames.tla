-------------------------------- MODULE Ames --------------------------------
(***************************************************************************)
(* The network driver (vere/io/ames.c): packets for other ships are        *)
(* forwarded on lanes that are scried out of the kernel and cached for two *)
(* minutes; a galaxy's address is looked up in the DNS, cached for five    *)
(* minutes, kept when a later lookup fails, and not asked for again within *)
(* five minutes of a failure.                                              *)
(*                                                                         *)
(* Time is told by ages that stop at the limit they are compared with, so  *)
(* that it may pass for ever.  The model begins when _ames_io_talk has     *)
(* bound the socket, and follows one galaxy and one other ship.            *)
(***************************************************************************)
EXTENDS Integers, Sequences, SequencesExt, FiniteSets

CONSTANTS Packet,          \* bound: packets in the driver's memory at a time
          Addr,            \* the addresses the galaxy may have
          AddrTTL,         \* five minutes
          LaneTTL,         \* two minutes
          MaxForwards,     \* limit of foq_d: 1000
          MaxFails,        \* limit of saw_d: 5
          MaxAsks,         \* bound: lookups at a time
          MaxMoves         \* bound: outages of the DNS, changes of the lane

ASSUME AmesAssumption ==
  /\ {AddrTTL, LaneTTL} \subseteq Nat \ {0}
  /\ {MaxForwards, MaxFails, MaxAsks, MaxMoves} \subseteq Nat
  /\ "none" \notin Addr /\ "gone" \notin Addr

\* Where a lane leads; one to this ship itself is skipped.
Lane == {"direct", "galaxy"}

VARIABLES imp,             \* the galaxy's imp_w and the age of its imp_t
          dns,             \* a domain is known (dns_c)
          asks,            \* packets that wait for a lookup
          panc,            \* u3_panc's that wait for a lane
          foq,             \* foq_d
          peeks,           \* their scries, asked or answered, in the lord's order
          lax,             \* the lane cache's entry for the ship
          see, saw,        \* see_o, saw_d
          lane,            \* the lanes that the kernel knows for the ship
          up,              \* the DNS answers
          moves,           \* counter
          down             \* the king has bailed

amesVars == <<imp, dns, asks, panc, foq, peeks, lax, see, saw, lane, up, moves, down>>

Peek == [pac : Packet, is : {"asked", "failed", "told"}, las : SUBSET Lane]

\* No entry, which is an entry so old that nobody looks at it.
Unknown == [las |-> {}, age |-> LaneTTL]

Older(a, limit) == IF a < limit THEN a + 1 ELSE a

-----------------------------------------------------------------------------
(* Galaxies.                                                               *)

\* Faulty: a failure is never forgotten.
BackoffForEver == imp.w = "gone"

\* _ames_czar: after a failed lookup the packet is dropped for five minutes.
Backoff == imp.w = "gone" /\ imp.age < AddrTTL

\* ... and an address that is known is used for five minutes.
Known == imp.w \in Addr /\ imp.age < AddrTTL

MustAsk == dns /\ ~Backoff /\ ~Known

\* _ames_czar: a packet for the galaxy is sent, is dropped, or waits.
Czar ==
  /\ MustAsk => asks < MaxAsks
  /\ asks' = IF MustAsk THEN asks + 1 ELSE asks

\* _ames_czar_gone.
Gone == [w |-> IF imp.w \in Addr THEN imp.w ELSE "gone", age |-> 0]

\* _ames_ef_send, to the galaxy; any other lane leads to the wire and no further.
\* In an outage uv_getaddrinfo may also refuse at once.
EfSend ==
  /\ ~down
  /\ \/ Czar /\ UNCHANGED imp
     \/ ~up /\ MustAsk /\ imp' = Gone /\ UNCHANGED asks
  /\ UNCHANGED <<dns, panc, foq, peeks, lax, see, saw, lane, up, moves, down>>

\* _ames_czar_cb: the lookup of one packet ends.
CzarHere ==
  /\ ~down /\ asks > 0 /\ up
  /\ \E a \in Addr : imp' = [w |-> a, age |-> 0]
  /\ asks' = asks - 1
  /\ UNCHANGED <<dns, panc, foq, peeks, lax, see, saw, lane, up, moves, down>>

CzarGone ==
  /\ ~down /\ asks > 0 /\ ~up
  /\ imp' = Gone
  /\ asks' = asks - 1
  /\ UNCHANGED <<dns, panc, foq, peeks, lax, see, saw, lane, up, moves, down>>

\* _ames_ef_turf, when there is a domain.
Turf ==
  /\ ~down /\ dns' = TRUE
  /\ UNCHANGED <<imp, asks, panc, foq, peeks, lax, see, saw, lane, up, moves, down>>

-----------------------------------------------------------------------------
(* Forwards.                                                               *)

\* _ames_forward, on lanes las: only the one to the galaxy needs more than a send.
Forward(las) == IF "galaxy" \in las THEN Czar ELSE UNCHANGED asks

\* Faulty: an entry is fresh again when it is used.
CachedRenewed == lax.age < LaneTTL /\ lax' = [lax EXCEPT !.age = 0]

\* _ames_lane_from_cache.
Cached == lax.age < LaneTTL /\ UNCHANGED lax

\* A packet for this ship, or for another when lanes cannot be scried: it is put
\* into the queue (module Auto).
HearInject ==
  /\ ~down
  /\ UNCHANGED amesVars

\* _ames_try_forward, with a lane in the cache.  If it is empty the packet goes.
HearCached ==
  /\ ~down /\ see /\ Cached
  /\ Forward(lax.las)
  /\ UNCHANGED <<imp, dns, panc, foq, peeks, see, saw, lane, up, moves, down>>

\* ... with none: the packet is held, and the lane scried, unless too many are.
HearScry ==
  /\ ~down /\ see /\ lax.age = LaneTTL
  /\ foq <= MaxForwards
  /\ \E p \in Packet \ panc :
       /\ panc' = panc \cup {p}
       /\ peeks' = Append(peeks, [pac |-> p, is |-> "asked", las |-> {}])
  /\ foq' = foq + 1
  /\ UNCHANGED <<imp, dns, asks, lax, see, saw, lane, up, moves, down>>

\* ... for a galaxy: its lane is made a cell, where _ames_forward expects a list
\* of lanes.  Nothing is sent; and unless it is ~zod reading on bails.
HearForGalaxy ==
  /\ ~down /\ see
  /\ down' \in BOOLEAN
  /\ UNCHANGED <<imp, dns, asks, panc, foq, peeks, lax, see, saw, lane, up, moves>>

\* The serf answers a scry; there may be a while before the king hears of it.
Answer ==
  /\ ~down
  /\ \E i \in DOMAIN peeks :
       /\ peeks[i].is = "asked" /\ \A j \in 1 .. i - 1 : peeks[j].is # "asked"
       /\ \/ peeks' = [peeks EXCEPT ![i].is = "failed"]
          \/ peeks' = [peeks EXCEPT ![i].is = "told", ![i].las = lane]
  /\ UNCHANGED <<imp, dns, asks, panc, foq, lax, see, saw, lane, up, moves, down>>

\* Faulty: a failed scry still counts as one in flight.
ScryFailedCounted ==
  /\ ~down /\ peeks # <<>> /\ Head(peeks).is = "failed"
  /\ panc' = panc \ {Head(peeks).pac} /\ peeks' = Tail(peeks)
  /\ saw' = Older(saw, MaxFails + 1) /\ see' = (see /\ saw < MaxFails)
  /\ UNCHANGED <<imp, dns, asks, foq, lax, lane, up, moves, down>>

\* _ames_lane_scry_cb, of a scry that failed: the packet is injected, and after
\* too many such in a row nothing is scried again.
ScryFailed ==
  /\ ~down /\ peeks # <<>> /\ Head(peeks).is = "failed"
  /\ panc' = panc \ {Head(peeks).pac} /\ peeks' = Tail(peeks) /\ foq' = foq - 1
  /\ saw' = Older(saw, MaxFails + 1) /\ see' = (see /\ saw < MaxFails)
  /\ UNCHANGED <<imp, dns, asks, lax, lane, up, moves, down>>

\* ... of one that gave lanes, or none: they are cached.
ScryTold ==
  /\ ~down /\ peeks # <<>> /\ Head(peeks).is = "told"
  /\ panc' = panc \ {Head(peeks).pac} /\ peeks' = Tail(peeks) /\ foq' = foq - 1
  /\ saw' = 0
  /\ lax' = [las |-> Head(peeks).las, age |-> 0]
  /\ Forward(Head(peeks).las)
  /\ UNCHANGED <<imp, dns, see, lane, up, moves, down>>

-----------------------------------------------------------------------------
(* The world around.                                                       *)

Ageing ==
  /\ \/ imp.age < AddrTTL \/ lax.age < LaneTTL
  /\ imp' = [imp EXCEPT !.age = Older(@, AddrTTL)]
  /\ lax' = [lax EXCEPT !.age = Older(@, LaneTTL)]
  /\ UNCHANGED <<dns, asks, panc, foq, peeks, see, saw, lane, up, moves, down>>

Move ==
  /\ moves < MaxMoves /\ moves' = moves + 1
  /\ \/ up /\ up' = FALSE /\ UNCHANGED lane
     \/ lane' \in (SUBSET Lane) \ {lane} /\ UNCHANGED up
  /\ UNCHANGED <<imp, dns, asks, panc, foq, peeks, lax, see, saw, down>>

Recover ==
  /\ ~up /\ up' = TRUE
  /\ UNCHANGED <<imp, dns, asks, panc, foq, peeks, lax, see, saw, lane, moves, down>>

\* u3_ames_io_init.
AmesInit ==
  /\ imp = [w |-> "none", age |-> AddrTTL] /\ dns = FALSE /\ asks = 0
  /\ panc = {} /\ foq = 0 /\ peeks = <<>> /\ lax = Unknown /\ see = TRUE /\ saw = 0
  /\ lane \in SUBSET Lane /\ up = TRUE /\ moves = 0 /\ down = FALSE

Hear == HearInject \/ HearCached \/ HearScry \/ HearForGalaxy

Lookup == CzarHere \/ CzarGone

Scry == ScryFailed \/ ScryTold

AmesNext == Turf \/ EfSend \/ Lookup \/ Hear \/ Answer \/ Scry \/ Ageing \/ Move \/ Recover

\* Lookups and scries are answered, time passes, the DNS comes back; Arvo sends to
\* its galaxy for as long as the ship runs, and tells of a domain at the start.
AmesFair ==
  /\ WF_amesVars(Turf) /\ WF_amesVars(EfSend) /\ WF_amesVars(Lookup)
  /\ WF_amesVars(Answer) /\ WF_amesVars(Scry)
  /\ WF_amesVars(Ageing) /\ WF_amesVars(Recover)

AmesSpec == AmesInit /\ [][AmesNext]_amesVars

AmesFairSpec == AmesSpec /\ AmesFair

-----------------------------------------------------------------------------
(* Properties.                                                             *)

AmesTypeOK ==
  /\ imp \in [w : {"none", "gone"} \cup Addr, age : 0 .. AddrTTL]
  /\ dns \in BOOLEAN /\ asks \in 0 .. MaxAsks
  /\ panc \subseteq Packet /\ foq \in 0 .. MaxForwards + 1
  /\ peeks \in Seq(Peek)
  /\ lax \in [las : SUBSET Lane, age : 0 .. LaneTTL]
  /\ see \in BOOLEAN /\ saw \in 0 .. MaxFails + 1
  /\ lane \in SUBSET Lane /\ up \in BOOLEAN /\ moves \in 0 .. MaxMoves /\ down \in BOOLEAN

\* Every packet that is held has its one scry in flight and is counted once, so
\* that it is let go and the count never shuts out packets that could be held.
ForwardsAgree ==
  /\ AmesTypeOK
  /\ foq = Cardinality(panc) /\ Len(peeks) = foq
  /\ panc = {peeks[i].pac : i \in DOMAIN peeks}

\* However lookups fail and overlap, the galaxy's address is found once the DNS
\* answers again, and no later failure takes it away.
GalaxyIsReached ==
  /\ <>(imp.w \in Addr \/ down)
  /\ [](imp.w \in Addr => [](imp.w \in Addr))

\* When the kernel's lanes for a ship have changed for the last time, late answers
\* and cached ones are used up, and packets are forwarded on no other lanes.
LaneCatchesUp == <>[](down \/ (lax.age < LaneTTL => lax.las = lane))
=============================================================================
