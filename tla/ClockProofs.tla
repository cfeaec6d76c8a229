---------------------------- MODULE ClockProofs -----------------------------
(***************************************************************************)
(* The timer driver (module Behn), the network driver's forwards (module   *)
(* Ames), and the lists of ova that all drivers have (module Auto): their  *)
(* invariants for every length of time, number of retries, of crashes, of  *)
(* packets and of drivers, and that the lists are the queues of Ova.       *)
(***************************************************************************)
EXTENDS Behn, Ames, Auto, TLAPS, FiniteSetTheorems, WellFoundedInduction

-----------------------------------------------------------------------------
(* The packets that wait for a lane.                                       *)

\* Each packet that is held has a scry of its own, in flight or answered.
AmesInv ==
  /\ AmesTypeOK
  /\ IsFiniteSet(panc)
  /\ foq = Cardinality(panc) /\ Len(peeks) = foq
  /\ panc = {peeks[i].pac : i \in DOMAIN peeks}
  /\ \A i, j \in DOMAIN peeks : peeks[i].pac = peeks[j].pac => i = j

\* The limits are numbers.
LEMMA AmesLimits ==
  /\ AddrTTL \in Nat /\ LaneTTL \in Nat /\ MaxForwards \in Nat /\ MaxFails \in Nat
  /\ MaxAsks \in Nat /\ MaxMoves \in Nat
BY AmesAssumption

\* At first none is held.
LEMMA AmesInitInv == AmesInit => AmesInv
<1> SUFFICES ASSUME AmesInit PROVE AmesInv
  OBVIOUS
<1>3. AddrTTL \in Nat /\ LaneTTL \in Nat /\ MaxForwards \in Nat /\ MaxFails \in Nat
      /\ MaxAsks \in Nat /\ MaxMoves \in Nat
  BY AmesLimits
<1>1. AmesTypeOK
  <2>1. imp \in [w : {"none", "gone"} \cup Addr, age : 0 .. AddrTTL]
    BY <1>3 DEF AmesInit
  <2>2. lax \in [las : SUBSET Lane, age : 0 .. LaneTTL]
    BY <1>3 DEF AmesInit, Unknown
  <2>3. peeks \in Seq(Peek)
    BY DEF AmesInit
  <2>4. /\ asks \in 0 .. MaxAsks /\ foq \in 0 .. MaxForwards + 1 /\ saw \in 0 .. MaxFails + 1
        /\ moves \in 0 .. MaxMoves /\ panc \subseteq Packet /\ lane \in SUBSET Lane
    BY <1>3 DEF AmesInit
  <2>5. dns \in BOOLEAN /\ see \in BOOLEAN /\ up \in BOOLEAN /\ down \in BOOLEAN
    BY DEF AmesInit
  <2> QED
    BY ONLY <2>1, <2>2, <2>3, <2>4, <2>5 DEF AmesTypeOK
<1>2. IsFiniteSet(panc) /\ Cardinality(panc) = 0
  BY FS_EmptySet DEF AmesInit
<1> QED
  BY <1>1, <1>2 DEF AmesInit, AmesInv

\* Steps that touch neither the packets held nor their scries' order.
LEMMA AmesSteady ==
  ASSUME AmesInv, AmesTypeOK', UNCHANGED <<panc, foq>>, Len(peeks') = Len(peeks),
         \A i \in 1 .. Len(peeks) : peeks'[i].pac = peeks[i].pac
  PROVE  AmesInv'
<1>1. peeks \in Seq(Peek) /\ peeks' \in Seq(Peek)
  BY DEF AmesInv, AmesTypeOK
<1>2. DOMAIN peeks = 1 .. Len(peeks) /\ DOMAIN peeks' = 1 .. Len(peeks)
  BY <1>1
<1>3. {peeks'[i].pac : i \in DOMAIN peeks'} = {peeks[i].pac : i \in DOMAIN peeks}
  BY <1>2
<1>4. \A i, j \in DOMAIN peeks' : peeks'[i].pac = peeks'[j].pac => i = j
  BY <1>2 DEF AmesInv
<1> QED
  BY <1>3, <1>4 DEF AmesInv

\* A lookup starts only within its bound.
LEMMA CzarType == asks \in 0 .. MaxAsks /\ Czar => asks' \in 0 .. MaxAsks
BY AmesAssumption DEF Czar

\* ... as in a forward.
LEMMA ForwardType ==
  ASSUME NEW las, asks \in 0 .. MaxAsks, Forward(las)
  PROVE  asks' \in 0 .. MaxAsks
BY CzarType DEF Forward

\* The oldest scry leaves, with its packet.
LEMMA AmesScried ==
  ASSUME AmesInv, AmesTypeOK', peeks # <<>>,
         panc' = panc \ {Head(peeks).pac}, peeks' = Tail(peeks), foq' = foq - 1
  PROVE  AmesInv'
<1> DEFINE p == Head(peeks).pac
<1>1. peeks \in Seq(Peek) /\ Len(peeks) \in Nat /\ Len(peeks) > 0
  BY DEF AmesInv, AmesTypeOK
<1>2. /\ Len(peeks') = Len(peeks) - 1 /\ DOMAIN peeks' = 1 .. Len(peeks) - 1
      /\ DOMAIN peeks = 1 .. Len(peeks)
      /\ \A i \in 1 .. Len(peeks) - 1 : peeks'[i] = peeks[i + 1]
      /\ p = peeks[1].pac
  BY <1>1
<1>3. p \in panc
  <2>1. 1 \in DOMAIN peeks
    BY <1>1
  <2> QED
    BY <1>2, <2>1 DEF AmesInv
<1>4. IsFiniteSet(panc') /\ Cardinality(panc') = Cardinality(panc) - 1
  BY <1>3, FS_RemoveElement DEF AmesInv
<1>5. panc' = {peeks'[i].pac : i \in DOMAIN peeks'}
  <2>1. ASSUME NEW x \in panc' PROVE \E i \in DOMAIN peeks' : x = peeks'[i].pac
    <3>1. PICK k \in 1 .. Len(peeks) : x = peeks[k].pac
      BY <1>2, <2>1 DEF AmesInv
    <3>2. k # 1
      BY <1>2, <2>1, <3>1
    <3>3. k - 1 \in 1 .. Len(peeks) - 1 /\ peeks'[k - 1] = peeks[k]
      BY <1>1, <1>2, <3>2
    <3> QED
      BY <1>2, <3>1, <3>3
  <2>2. ASSUME NEW i \in DOMAIN peeks' PROVE peeks'[i].pac \in panc'
    <3>1. i + 1 \in 1 .. Len(peeks) /\ i + 1 # 1 /\ 1 \in 1 .. Len(peeks)
      BY <1>1, <1>2, <2>2
    <3>2. peeks[i + 1].pac \in panc /\ peeks[i + 1].pac # p
      BY <1>2, <3>1 DEF AmesInv
    <3> QED
      BY <1>2, <2>2, <3>2
  <2> QED
    BY <2>1, <2>2
<1>6. ASSUME NEW i \in DOMAIN peeks', NEW j \in DOMAIN peeks', peeks'[i].pac = peeks'[j].pac
      PROVE  i = j
  <2>1. i + 1 \in DOMAIN peeks /\ j + 1 \in DOMAIN peeks /\ i \in Nat /\ j \in Nat
    BY <1>1, <1>2
  <2>2. peeks[i + 1].pac = peeks[j + 1].pac
    BY <1>2, <1>6
  <2>3. i + 1 = j + 1
    BY <2>1, <2>2 DEF AmesInv
  <2> QED
    BY <2>1, <2>3
<1>7. foq' = Cardinality(panc') /\ Len(peeks') = foq'
  BY <1>2, <1>4 DEF AmesInv
<1> QED
  BY <1>4, <1>5, <1>6, <1>7 DEF AmesInv

\* Steps that leave the packets held and their scries as they are.
LEMMA AmesOther ==
  ASSUME AmesInv,
         EfSend \/ CzarHere \/ CzarGone \/ Turf \/ HearInject \/ HearCached \/ HearForGalaxy
           \/ Ageing \/ Move \/ Recover \/ UNCHANGED amesVars
  PROVE  AmesInv'
<1>1. AmesTypeOK /\ UNCHANGED <<panc, foq, peeks>>
  BY DEF AmesInv, EfSend, CzarHere, CzarGone, Turf, HearInject, HearCached, HearForGalaxy,
         Ageing, Move, Recover, amesVars
<1>2. AddrTTL \in Nat /\ LaneTTL \in Nat /\ MaxAsks \in Nat /\ MaxMoves \in Nat
  BY AmesLimits
<1>3. imp \in [w : {"none", "gone"} \cup Addr, age : 0 .. AddrTTL]
      /\ lax \in [las : SUBSET Lane, age : 0 .. LaneTTL] /\ asks \in 0 .. MaxAsks
      /\ moves \in 0 .. MaxMoves
  BY <1>1 DEF AmesTypeOK
<1>4. imp' \in [w : {"none", "gone"} \cup Addr, age : 0 .. AddrTTL]
  <2>1. CASE UNCHANGED imp
    BY <1>3, <2>1
  <2>2. CASE imp' = Gone
    BY <1>2, <1>3, <2>2 DEF Gone
  <2>3. CASE \E a \in Addr : imp' = [w |-> a, age |-> 0]
    BY <1>2, <2>3
  <2>4. CASE imp' = [imp EXCEPT !.age = Older(@, AddrTTL)]
    BY <1>2, <1>3, <2>4 DEF Older
  <2> QED
    BY <2>1, <2>2, <2>3, <2>4 DEF EfSend, CzarHere, CzarGone, Turf, HearInject, HearCached,
         HearForGalaxy, Ageing, Move, Recover, amesVars
<1>5. lax' \in [las : SUBSET Lane, age : 0 .. LaneTTL]
  <2>1. CASE UNCHANGED lax
    BY <1>3, <2>1
  <2>2. CASE lax' = [lax EXCEPT !.age = Older(@, LaneTTL)]
    BY <1>2, <1>3, <2>2 DEF Older
  <2> QED
    BY <2>1, <2>2 DEF EfSend, CzarHere, CzarGone, Turf, HearInject, HearCached, Cached,
         HearForGalaxy, Ageing, Move, Recover, amesVars
<1>6. asks' \in 0 .. MaxAsks
  <2>1. CASE Czar
    BY <1>3, <2>1, CzarType
  <2>2. CASE asks > 0 /\ asks' = asks - 1
    BY <1>2, <1>3, <2>2
  <2>3. CASE UNCHANGED asks
    BY <1>3, <2>3
  <2> QED
    BY <2>1, <2>2, <2>3 DEF EfSend, CzarHere, CzarGone, Turf, HearInject, HearCached, Forward,
         HearForGalaxy, Ageing, Move, Recover, amesVars
<1>7. moves' \in 0 .. MaxMoves /\ lane' \in SUBSET Lane /\ saw' = saw
  BY <1>1, <1>2, <1>3 DEF AmesTypeOK, EfSend, CzarHere, CzarGone, Turf, HearInject, HearCached,
         HearForGalaxy, Ageing, Move, Recover, amesVars
<1>8. see' \in BOOLEAN /\ dns' \in BOOLEAN /\ up' \in BOOLEAN /\ down' \in BOOLEAN
  BY <1>1 DEF AmesTypeOK, EfSend, CzarHere, CzarGone, Turf, HearInject, HearCached,
         HearForGalaxy, Ageing, Move, Recover, amesVars
<1>9. AmesTypeOK'
  BY <1>1, <1>4, <1>5, <1>6, <1>7, <1>8 DEF AmesTypeOK
<1> QED
  BY <1>1, <1>9, AmesSteady

\* A packet is held, and its scry asked.
LEMMA AmesHeld == AmesInv /\ HearScry => AmesInv'
<1> SUFFICES ASSUME AmesInv, HearScry PROVE AmesInv'
  OBVIOUS
<1>1. PICK p \in Packet \ panc :
        /\ panc' = panc \cup {p}
        /\ peeks' = Append(peeks, [pac |-> p, is |-> "asked", las |-> {}])
  BY DEF HearScry
<1> DEFINE new == [pac |-> p, is |-> "asked", las |-> {}]
<1>2. /\ foq <= MaxForwards /\ foq' = foq + 1
      /\ UNCHANGED <<imp, dns, asks, lax, see, saw, lane, up, moves, down>>
  BY DEF HearScry
<1>3. peeks \in Seq(Peek) /\ Len(peeks) \in Nat /\ new \in Peek
  BY DEF AmesInv, AmesTypeOK, Peek
<1> HIDE DEF new
<1>4. /\ peeks' \in Seq(Peek) /\ Len(peeks') = Len(peeks) + 1
      /\ DOMAIN peeks = 1 .. Len(peeks) /\ DOMAIN peeks' = 1 .. Len(peeks) + 1
      /\ \A i \in 1 .. Len(peeks) : peeks'[i] = peeks[i]
      /\ peeks'[Len(peeks) + 1] = new /\ new.pac = p
  BY <1>1, <1>3 DEF new
<1>5. foq' \in 0 .. MaxForwards + 1
  <2>1. foq \in 0 .. MaxForwards + 1 /\ MaxForwards \in Nat
    BY AmesLimits DEF AmesInv, AmesTypeOK
  <2> QED
    BY <1>2, <2>1
<1>6. AmesTypeOK'
  BY <1>1, <1>2, <1>4, <1>5 DEF AmesInv, AmesTypeOK
<1>7. IsFiniteSet(panc') /\ Cardinality(panc') = Cardinality(panc) + 1
  BY <1>1, FS_AddElement DEF AmesInv
<1>8. foq' = Cardinality(panc') /\ Len(peeks') = foq'
  BY <1>2, <1>4, <1>7 DEF AmesInv
<1>9. panc' = {peeks'[i].pac : i \in DOMAIN peeks'}
  <2>1. panc = {peeks[i].pac : i \in 1 .. Len(peeks)}
    BY <1>4 DEF AmesInv
  <2>2. ASSUME NEW x \in panc' PROVE \E i \in 1 .. Len(peeks) + 1 : x = peeks'[i].pac
    <3>1. CASE x = p
      BY <1>3, <1>4, <3>1
    <3>2. CASE x \in panc
      <4>1. PICK i \in 1 .. Len(peeks) : x = peeks[i].pac
        BY <2>1, <3>2
      <4> QED
        BY <1>3, <1>4, <4>1
    <3> QED
      BY <1>1, <2>2, <3>1, <3>2
  <2>3. ASSUME NEW i \in 1 .. Len(peeks) + 1 PROVE peeks'[i].pac \in panc'
    <3>1. CASE i = Len(peeks) + 1
      BY <1>1, <1>4, <3>1
    <3>2. CASE i \in 1 .. Len(peeks)
      BY <1>1, <1>4, <2>1, <3>2
    <3> QED
      BY <1>3, <3>1, <3>2
  <2> QED
    BY <1>4, <2>2, <2>3
<1>10. ASSUME NEW i \in DOMAIN peeks', NEW j \in DOMAIN peeks', peeks'[i].pac = peeks'[j].pac
       PROVE  i = j
  <2>1. \A k \in 1 .. Len(peeks) : peeks'[k].pac # p
    <3>1. ASSUME NEW k \in 1 .. Len(peeks) PROVE peeks[k].pac \in panc
      BY <1>4 DEF AmesInv
    <3> QED
      BY <1>1, <1>4, <3>1
  <2>2. CASE i \in 1 .. Len(peeks) /\ j \in 1 .. Len(peeks)
    BY <1>4, <1>10, <2>2 DEF AmesInv
  <2>3. CASE i = Len(peeks) + 1 \/ j = Len(peeks) + 1
    BY <1>3, <1>4, <1>10, <2>1, <2>3
  <2> QED
    BY <1>3, <1>4, <2>2, <2>3
<1> QED
  BY <1>6, <1>7, <1>8, <1>9, <1>10 DEF AmesInv

\* The serf answers a scry.
LEMMA AmesAnswered == AmesInv /\ Answer => AmesInv'
<1> SUFFICES ASSUME AmesInv, Answer PROVE AmesInv'
  OBVIOUS
<1>1. PICK i \in DOMAIN peeks :
        \/ peeks' = [peeks EXCEPT ![i].is = "failed"]
        \/ peeks' = [peeks EXCEPT ![i].is = "told", ![i].las = lane]
  BY DEF Answer
<1>2. UNCHANGED <<imp, dns, asks, panc, foq, lax, see, saw, lane, up, moves, down>>
  BY DEF Answer
<1>3. peeks \in Seq(Peek) /\ lane \in SUBSET Lane /\ Len(peeks) \in Nat
  BY DEF AmesInv, AmesTypeOK
<1>4. peeks[i] \in Peek
  BY <1>3
<1>5. /\ [peeks[i] EXCEPT !.is = "failed"] \in Peek
      /\ [peeks[i] EXCEPT !.is = "told", !.las = lane] \in Peek
      /\ [peeks[i] EXCEPT !.is = "failed"].pac = peeks[i].pac
      /\ [peeks[i] EXCEPT !.is = "told", !.las = lane].pac = peeks[i].pac
  BY <1>3, <1>4 DEF Peek
<1>6. PICK r \in Peek : peeks' = [peeks EXCEPT ![i] = r] /\ r.pac = peeks[i].pac
  BY <1>1, <1>5
<1>7. /\ peeks' \in Seq(Peek) /\ Len(peeks') = Len(peeks)
      /\ \A j \in 1 .. Len(peeks) : peeks'[j].pac = peeks[j].pac
  BY <1>3, <1>6
<1>8. AmesTypeOK'
  BY <1>2, <1>7 DEF AmesInv, AmesTypeOK
<1> QED
  BY <1>2, <1>7, <1>8, AmesSteady

\* An answer is heard.
LEMMA AmesHeard == AmesInv /\ Scry => AmesInv'
<1> SUFFICES ASSUME AmesInv, Scry PROVE AmesInv'
  OBVIOUS
<1>1. /\ peeks # <<>>
      /\ panc' = panc \ {Head(peeks).pac} /\ peeks' = Tail(peeks) /\ foq' = foq - 1
      /\ UNCHANGED <<imp, dns, lane, up, moves, down>>
  BY DEF Scry, ScryFailed, ScryTold
<1>2. peeks \in Seq(Peek) /\ Len(peeks) \in Nat /\ Len(peeks) > 0 /\ Head(peeks) \in Peek
  BY <1>1 DEF AmesInv, AmesTypeOK
<1>3. peeks' \in Seq(Peek)
  BY <1>1, <1>2
<1>4. foq' \in 0 .. MaxForwards + 1 /\ panc' \subseteq Packet
  <2>1. foq \in 0 .. MaxForwards + 1 /\ MaxForwards \in Nat /\ foq = Len(peeks)
        /\ panc \subseteq Packet
    BY AmesLimits DEF AmesInv, AmesTypeOK
  <2> QED
    BY <1>1, <1>2, <2>1
<1>5. asks' \in 0 .. MaxAsks
  BY ForwardType DEF AmesInv, AmesTypeOK, Scry, ScryFailed, ScryTold
<1>6. saw' \in 0 .. MaxFails + 1
  <2>1. saw \in 0 .. MaxFails + 1 /\ MaxFails \in Nat
    BY AmesLimits DEF AmesInv, AmesTypeOK
  <2>2. saw' = 0 \/ saw' = IF saw < MaxFails + 1 THEN saw + 1 ELSE saw
    BY DEF Scry, ScryFailed, ScryTold, Older
  <2> QED
    BY <2>1, <2>2
<1>7. see' \in BOOLEAN
  BY DEF AmesInv, AmesTypeOK, Scry, ScryFailed, ScryTold
<1>8. lax' \in [las : SUBSET Lane, age : 0 .. LaneTTL]
  BY <1>2, AmesAssumption DEF AmesInv, AmesTypeOK, Scry, ScryFailed, ScryTold, Peek
<1>9. AmesTypeOK'
  BY <1>1, <1>3, <1>4, <1>5, <1>6, <1>7, <1>8 DEF AmesInv, AmesTypeOK
<1> QED
  BY <1>1, <1>9, AmesScried

\* Every packet that is held has its one scry in flight and is counted once,
\* however many are held, answered late or refused (_ames_try_forward,
\* _ames_lane_scry_cb).
THEOREM AmesForwardsAgree == AmesSpec => []ForwardsAgree
<1>1. AmesInv /\ [AmesNext]_amesVars => AmesInv'
  BY AmesOther, AmesHeld, AmesAnswered, AmesHeard DEF AmesNext, Lookup, Hear
<1>2. AmesInv => ForwardsAgree
  BY DEF AmesInv, ForwardsAgree
<1> QED
  BY AmesInitInv, <1>1, <1>2, PTL DEF AmesSpec

-----------------------------------------------------------------------------
(* The alarm and the timers.                                               *)

\* The %born of this start has not been done.
Unsettled == \E i \in DOMAIN ova : ova[i].kind = "born"

\* The events after the nth that wait for the log ask for nothing.
Silent(n) == \A j \in DOMAIN gifts : j > n => gifts[j].dozes = <<>>

\* A vane without timers, or with nobody to ask, believes in no wakeup.
IdleVane(v) == (v.timers = {} \/ ~v.duct) => v.wake = None

\* A vane with timers believes in a wakeup for the first of them, or for now.
Wakeful(v, t) ==
  v.timers # {} => v.wake # None /\ \A d \in v.timers : v.wake <= t \/ v.wake <= d

\* What libuv has, once it has heard all that waits for the log, is the wakeup
\* that the vane believes in, or that has gone off and left the backstop.
Armed ==
  \/ \E i \in DOMAIN gifts : gifts[i].dozes = <<vane.wake>> /\ Silent(i)
  \/ Silent(0) /\ alarm = vane.wake
  \/ Silent(0) /\ alarm = Backstop /\ vane.wake # None /\ vane.wake <= now + 1

BehnInv ==
  /\ BehnTypeOK
  /\ IdleVane(vane) /\ IdleVane(dur)
  /\ \A i \in DOMAIN gifts : IdleVane(gifts[i].vane) /\ Len(gifts[i].dozes) <= 1
  /\ \A i \in DOMAIN ova : ova[i].kind = "born" => i = 1
  /\ ~bailed /\ ~unborn =>
       /\ Armed \/ (Unsettled /\ Silent(0) /\ alarm = None)
       /\ ~Unsettled => vane.duct /\ Wakeful(vane, now)

\* The numbers of the model.
LEMMA BehnLimits ==
  /\ MaxNow \in Nat /\ Retries \in Nat /\ MaxCalls \in Nat /\ MaxCrash \in Nat
  /\ MaxGifts \in Nat /\ MaxWakes \in Nat /\ MaxWakes > 0
  /\ None = MaxNow + 1 /\ Backstop = MaxNow + 2
BY BehnAssumption DEF None, Backstop

\* The first of some dates.
LEMMA MinFacts ==
  ASSUME NEW S \in SUBSET Tick, S # {}
  PROVE  Min(S) \in S /\ \A d \in S : Min(S) <= d
<1>1. S \subseteq Nat
  BY BehnLimits DEF Tick
<1>2. PICK m \in S : \A d \in S : ~ (<<d, m>> \in OpToRel(<, Nat))
  BY <1>1, NatLessThanWellFounded, WFMin
<1>3. \A d \in S : ~ (d < m)
  BY <1>1, <1>2 DEF OpToRel
<1>4. \A d \in S : m <= d
  BY <1>1, <1>3
<1> QED
  BY <1>4 DEF Min

\* The later of two.
LEMMA MaxFacts ==
  ASSUME NEW a \in Nat, NEW b \in Nat
  PROVE  Max({a, b}) \in {a, b} /\ Max({a, b}) >= a /\ Max({a, b}) >= b
<1>1. \E m \in {a, b} : \A d \in {a, b} : m >= d
  <2>1. CASE a <= b
    BY <2>1
  <2>2. CASE a > b
    BY <2>2
  <2> QED
    BY <2>1, <2>2
<1> QED
  BY <1>1 DEF Max

\* What an entry point of the vane may make of the state v at the time t: it asks
\* for what it believes in from then on, or believes in what it did.
Sound(r, v, t) ==
  /\ r.vane \in Vane /\ r.dozes \in Seq(Date) /\ Len(r.dozes) <= 1
  /\ r = [vane |-> r.vane, dozes |-> r.dozes]
  /\ IdleVane(r.vane)
  /\ r.dozes # <<>> => r.dozes = <<r.vane.wake>>
  /\ r.dozes = <<>> => r.vane.wake = v.wake
  /\ v.duct => r.vane.duct

\* +emit-doze.
LEMMA EmitFacts ==
  ASSUME NEW v \in Vane, NEW t \in Tick, NEW d \in Date,
         ~v.duct => v.wake = None, v.timers = {} => d = None
  PROVE  /\ Sound(EmitDoze(v, t, d), v, t)
         /\ v.duct /\ d # None =>
              /\ EmitDoze(v, t, d).vane.wake # None
              /\ EmitDoze(v, t, d).vane.wake \in {t, d}
         /\ EmitDoze(v, t, d).vane.timers = v.timers
<1> DEFINE wen == IF d = None THEN None ELSE Max({t, d})
<1>1. MaxNow \in Nat /\ None = MaxNow + 1 /\ t \in Nat /\ d \in Nat
  BY BehnLimits DEF Tick, Date
<1>2. wen \in Date /\ (d # None => wen \in {t, d} /\ wen # None) /\ (d = None => wen = None)
  BY <1>1, MaxFacts DEF Tick, Date
<1> HIDE DEF wen
<1>3. CASE ~v.duct
  <2>1. EmitDoze(v, t, d) = [vane |-> v, dozes |-> <<>>]
    BY <1>3 DEF EmitDoze, Quiet
  <2> QED
    BY <1>3, <2>1 DEF Sound, IdleVane
<1>4. CASE v.duct
  <2> DEFINE u == [v EXCEPT !.wake = wen]
  <2>1. EmitDoze(v, t, d) = [vane |-> u, dozes |-> <<wen>>]
    BY <1>4 DEF EmitDoze, wen
  <2>2. u \in Vane /\ u.wake = wen /\ u.timers = v.timers /\ u.duct = v.duct
    BY <1>2 DEF Vane
  <2>3. <<wen>> \in Seq(Date) /\ Len(<<wen>>) = 1 /\ <<wen>> # <<>>
    BY <1>2
  <2> HIDE DEF u
  <2> DEFINE r == EmitDoze(v, t, d)
  <2>4. r = [vane |-> u, dozes |-> <<wen>>] /\ r.vane = u /\ r.dozes = <<wen>>
    BY <2>1
  <2>5. IdleVane(u)
    BY <1>2, <1>4, <2>2 DEF IdleVane
  <2> HIDE DEF r
  <2>6. Sound(r, v, t)
    <3>1. r.vane \in Vane /\ r.dozes \in Seq(Date) /\ Len(r.dozes) <= 1 /\ r.dozes # <<>>
      BY <2>2, <2>3, <2>4
    <3>2. r.dozes = <<r.vane.wake>> /\ IdleVane(r.vane) /\ r.vane.duct
      BY <1>4, <2>2, <2>4, <2>5
    <3>3. r = [vane |-> r.vane, dozes |-> r.dozes]
      BY <2>4
    <3> QED
      BY <3>1, <3>2, <3>3 DEF Sound
  <2> QED
    BY <1>2, <2>2, <2>4, <2>6 DEF r
<1> QED
  BY <1>3, <1>4

\* +set-unix-wake.
LEMMA SetWakeFacts ==
  ASSUME NEW v \in Vane, NEW t \in Tick, ~v.duct => v.wake = None
  PROVE  /\ Sound(SetUnixWake(v, t), v, t)
         /\ v.duct => Wakeful(SetUnixWake(v, t).vane, t)
         /\ SetUnixWake(v, t).vane.timers = v.timers
<1>1. v.timers \in SUBSET Tick /\ v.wake \in Date /\ None \in Date /\ Tick \subseteq Date
  BY DEF Vane, Date
<1>2. /\ MaxNow \in Nat /\ None = MaxNow + 1 /\ None \notin Tick
      /\ Tick \subseteq Nat /\ Date \subseteq Nat
  BY BehnLimits DEF Tick, Date
<1>3. ASSUME IdleVane(v) PROVE Sound(Quiet(v), v, t)
  BY <1>3 DEF Sound, Quiet
<1>4. CASE v.timers = {}
  <2>1. CASE v.wake = None
    BY <1>3, <1>4, <2>1 DEF SetUnixWake, IdleVane, Wakeful, Quiet
  <2>2. CASE v.wake # None
    BY <1>1, <1>4, <2>2, EmitFacts DEF SetUnixWake, Wakeful
  <2> QED
    BY <2>1, <2>2
<1>5. CASE v.timers # {}
  <2>1. Min(v.timers) \in v.timers /\ \A d \in v.timers : Min(v.timers) <= d
    BY <1>1, <1>5, MinFacts
  <2>2. CASE v.wake # None /\ Min(v.timers) >= v.wake /\ t <= v.wake
    <3>1. SetUnixWake(v, t) = Quiet(v)
      BY <1>5, <2>2 DEF SetUnixWake
    <3>2. Wakeful(v, t)
      <4>1. ASSUME NEW d \in v.timers PROVE v.wake <= d
        <5>1. d \in Nat /\ v.wake \in Nat /\ Min(v.timers) \in Nat
          BY <1>1, <1>2, <2>1
        <5>2. v.wake <= Min(v.timers) /\ Min(v.timers) <= d
          BY <2>1, <2>2, <5>1
        <5> QED
          BY ONLY <5>1, <5>2
      <4> QED
        BY <2>2, <4>1 DEF Wakeful
    <3>3. IdleVane(v)
      BY <1>5, <2>2 DEF IdleVane
    <3> QED
      BY <1>3, <3>1, <3>2, <3>3 DEF Quiet
  <2>3. CASE ~(v.wake # None /\ Min(v.timers) >= v.wake /\ t <= v.wake)
    <3> DEFINE m == Min(v.timers)
    <3>1. SetUnixWake(v, t) = EmitDoze(v, t, m)
      BY <1>5, <2>3 DEF SetUnixWake
    <3>2. m \in Date /\ m # None
      BY <1>1, <1>2, <2>1
    <3> HIDE DEF m
    <3>3. /\ Sound(EmitDoze(v, t, m), v, t)
          /\ v.duct => /\ EmitDoze(v, t, m).vane.wake # None
                       /\ EmitDoze(v, t, m).vane.wake \in {t, m}
          /\ EmitDoze(v, t, m).vane.timers = v.timers
      BY <1>5, <3>2, EmitFacts
    <3>4. v.duct => Wakeful(EmitDoze(v, t, m).vane, t)
      BY <1>1, <1>2, <2>1, <3>3 DEF Wakeful, m
    <3> QED
      BY <3>1, <3>3, <3>4
  <2> QED
    BY <2>2, <2>3
<1> QED
  BY <1>4, <1>5

\* +born, of a state that some event may meet.
LEMMA BornFacts ==
  ASSUME NEW v \in Vane, NEW t \in Tick, IdleVane(v)
  PROVE  /\ Sound(Born(v, t), v, t)
         /\ Born(v, t).vane.duct /\ Wakeful(Born(v, t).vane, t)
         /\ Born(v, t).dozes = <<>> => Born(v, t).vane.wake = None
<1> DEFINE u == [v EXCEPT !.wake = None, !.duct = TRUE]
<1>1. u \in Vane /\ u.wake = None /\ u.duct /\ u.timers = v.timers
  BY DEF Vane, Date
<1>2. Born(v, t) = SetUnixWake(u, t)
  BY DEF Born
<1> HIDE DEF u
<1>3. /\ Sound(Born(v, t), u, t) /\ Wakeful(Born(v, t).vane, t)
      /\ Born(v, t).vane.timers = v.timers
  BY <1>1, <1>2, SetWakeFacts
<1>4. Born(v, t).dozes = <<>> => Born(v, t).vane.wake = None /\ v.wake = None
  <2> SUFFICES ASSUME Born(v, t).dozes = <<>>
               PROVE  Born(v, t).vane.wake = None /\ v.wake = None
    OBVIOUS
  <2>1. Born(v, t).vane.wake = None
    BY <1>1, <1>3 DEF Sound
  <2>2. v.timers = {}
    BY <1>3, <2>1 DEF Wakeful
  <2> QED
    BY <2>1, <2>2 DEF IdleVane
<1> QED
  BY <1>1, <1>3, <1>4 DEF Sound

\* +wait and +rest.
LEMMA CallFacts ==
  ASSUME NEW v \in Vane, NEW t \in Tick, NEW d \in Tick, IdleVane(v),
         NEW r, r = Wait(v, t, d) \/ r = Rest(v, t, d)
  PROVE  Sound(r, v, t) /\ (v.duct => Wakeful(r.vane, t))
<1>1. PICK T \in SUBSET Tick : r = SetUnixWake([v EXCEPT !.timers = T], t)
  <2>1. v.timers \cup {d} \in SUBSET Tick /\ v.timers \ {d} \in SUBSET Tick
    BY DEF Vane
  <2> QED
    BY <2>1 DEF Wait, Rest
<1> DEFINE u == [v EXCEPT !.timers = T]
<1>2. u \in Vane /\ u.wake = v.wake /\ u.duct = v.duct
  BY DEF Vane
<1>3. r = SetUnixWake(u, t)
  BY <1>1
<1> HIDE DEF u
<1>4. Sound(r, u, t) /\ (u.duct => Wakeful(r.vane, t))
  BY <1>2, <1>3, SetWakeFacts DEF IdleVane
<1> QED
  BY <1>2, <1>4 DEF Sound

\* +crud.
LEMMA CrudFacts ==
  ASSUME NEW v \in Vane, NEW t \in Tick, IdleVane(v)
  PROVE  Sound(CrudWake(v, t), v, t) /\ (v.duct => Wakeful(CrudWake(v, t).vane, t))
<1> DEFINE u == Popped(v)
<1>1. u \in Vane /\ u.wake = v.wake /\ u.duct = v.duct
  BY DEF Vane, Popped
<1>2. CrudWake(v, t) = SetUnixWake(u, t)
  BY DEF CrudWake
<1> HIDE DEF u
<1>3. Sound(CrudWake(v, t), u, t) /\ (u.duct => Wakeful(CrudWake(v, t).vane, t))
  BY <1>1, <1>2, SetWakeFacts DEF IdleVane
<1> QED
  BY <1>1, <1>3 DEF Sound

\* +wake.
LEMMA WakeFacts ==
  ASSUME NEW v \in Vane, NEW t \in Tick, IdleVane(v)
  PROVE  Sound(Wake(v, t), v, t) /\ (v.duct => Wakeful(Wake(v, t).vane, t))
<1>1. CASE v.timers = {}
  <2>1. Wake(v, t) = [vane |-> v, dozes |-> <<>>]
    BY <1>1 DEF Wake, Quiet
  <2> QED
    BY <1>1, <2>1 DEF Sound, Wakeful
<1>2. CASE v.timers # {} /\ Min(v.timers) > t
  <2> DEFINE u == [v EXCEPT !.wake = None]
  <2>1. u \in Vane /\ u.wake = None /\ u.duct = v.duct /\ u.timers = v.timers
    BY DEF Vane, Date
  <2>2. Wake(v, t) = SetUnixWake(u, t)
    BY <1>2 DEF Wake
  <2> HIDE DEF u
  <2>3. /\ Sound(Wake(v, t), u, t) /\ (u.duct => Wakeful(Wake(v, t).vane, t))
        /\ Wake(v, t).vane.timers = v.timers
    BY <2>1, <2>2, SetWakeFacts
  <2>4. Wake(v, t).dozes = <<>> => Wake(v, t).vane.wake = v.wake
    <3> SUFFICES ASSUME Wake(v, t).dozes = <<>> PROVE Wake(v, t).vane.wake = v.wake
      OBVIOUS
    <3>1. Wake(v, t).vane.wake = None
      BY <2>1, <2>3 DEF Sound
    <3>2. ~v.duct
      BY <1>2, <2>1, <2>3, <3>1 DEF Wakeful
    <3> QED
      BY <3>1, <3>2 DEF IdleVane
  <2> QED
    BY <2>1, <2>3, <2>4 DEF Sound
<1>3. CASE v.timers # {} /\ ~(Min(v.timers) > t)
  <2>1. Wake(v, t) = CrudWake(v, t)
    BY <1>3 DEF Wake, CrudWake
  <2> QED
    BY <2>1, CrudFacts
<1> QED
  BY <1>1, <1>2, <1>3

-----------------------------------------------------------------------------
(* The steps.                                                              *)

\* An event that is done: the vane after it, and what it asks for.
Given == [vane : Vane, dozes : Seq(Date)]

\* The ova in the driver's queue may be turned into others of the same kinds.
LEMMA OvaFacts ==
  ASSUME BehnInv, ova # <<>>
  PROVE  /\ ova \in Seq(WakeOvum) /\ Len(ova) \in Nat /\ Len(ova) > 0
         /\ Head(ova) = ova[1] /\ Head(ova) \in WakeOvum
         /\ Tail(ova) \in Seq(WakeOvum) /\ Len(Tail(ova)) = Len(ova) - 1
         /\ \A i \in DOMAIN Tail(ova) : Tail(ova)[i].kind # "born"
         /\ Unsettled <=> Head(ova).kind = "born"
<1>1. /\ ova \in Seq(WakeOvum) /\ Len(ova) \in Nat /\ Len(ova) > 0
      /\ \A i \in DOMAIN ova : ova[i].kind = "born" => i = 1
  BY DEF BehnInv, BehnTypeOK
<1>2. /\ Head(ova) = ova[1] /\ 1 \in DOMAIN ova /\ Head(ova) \in WakeOvum
      /\ Tail(ova) \in Seq(WakeOvum) /\ Len(Tail(ova)) = Len(ova) - 1
      /\ DOMAIN ova = 1 .. Len(ova) /\ DOMAIN Tail(ova) = 1 .. Len(ova) - 1
      /\ \A i \in 1 .. Len(ova) - 1 : Tail(ova)[i] = ova[i + 1]
  BY <1>1
<1>3. ASSUME NEW i \in DOMAIN Tail(ova) PROVE Tail(ova)[i].kind # "born"
  <2>1. i + 1 \in DOMAIN ova /\ i + 1 # 1 /\ Tail(ova)[i] = ova[i + 1]
    BY <1>1, <1>2
  <2> QED
    BY <1>1, <2>1
<1>4. Unsettled <=> Head(ova).kind = "born"
  BY <1>1, <1>2 DEF Unsettled
<1> QED
  BY <1>1, <1>2, <1>3, <1>4

\* An event is done, and waits for the log with what it asks for.
LEMMA WorkFacts ==
  ASSUME BehnInv, NEW r, Sound(r, vane, now), Work(r), UNCHANGED <<alarm, now>>
  PROVE  /\ vane' = r.vane /\ vane' \in Vane /\ IdleVane(vane')
         /\ gifts' \in Seq(Given) /\ Len(gifts') <= MaxGifts
         /\ \A i \in DOMAIN gifts' : IdleVane(gifts'[i].vane) /\ Len(gifts'[i].dozes) <= 1
         /\ Armed => Armed'
         /\ Silent(0) /\ alarm = None =>
              Armed' \/ (r.dozes = <<>> /\ Silent(0)' /\ alarm' = None)
         /\ Silent(0) /\ alarm = None /\ r.vane.wake = None => Armed'
<1>1. /\ Len(gifts) < MaxGifts /\ vane' = r.vane /\ gifts' = Append(gifts, r)
      /\ alarm' = alarm /\ now' = now
  BY DEF Work
<1>2. gifts \in Seq(Given) /\ Len(gifts) \in Nat
  BY DEF BehnInv, BehnTypeOK, Given
<1>3. r \in Given /\ IdleVane(r.vane) /\ Len(r.dozes) <= 1 /\ r.vane \in Vane
  BY DEF Sound, Given
<1>4. /\ gifts' \in Seq(Given) /\ Len(gifts') = Len(gifts) + 1
      /\ DOMAIN gifts = 1 .. Len(gifts) /\ DOMAIN gifts' = 1 .. Len(gifts) + 1
      /\ \A i \in 1 .. Len(gifts) : gifts'[i] = gifts[i]
      /\ gifts'[Len(gifts) + 1] = r
  BY <1>1, <1>2, <1>3
<1>5. Len(gifts') <= MaxGifts
  BY <1>1, <1>2, <1>4, BehnLimits
<1>6. ASSUME NEW i \in DOMAIN gifts'
      PROVE  IdleVane(gifts'[i].vane) /\ Len(gifts'[i].dozes) <= 1
  <2>1. CASE i = Len(gifts) + 1
    BY <1>3, <1>4, <2>1
  <2>2. CASE i \in 1 .. Len(gifts)
    BY <1>4, <2>2 DEF BehnInv
  <2> QED
    BY <1>2, <1>4, <2>1, <2>2
<1>7. CASE r.dozes = <<>>
  <2>1. vane'.wake = vane.wake
    BY <1>1, <1>7 DEF Sound
  <2>2. ASSUME NEW n \in Nat, Silent(n) PROVE Silent(n)'
    <3> SUFFICES ASSUME NEW j \in DOMAIN gifts', j > n PROVE gifts'[j].dozes = <<>>
      BY DEF Silent
    <3>1. CASE j = Len(gifts) + 1
      BY <1>4, <1>7, <3>1
    <3>2. CASE j \in 1 .. Len(gifts)
      BY <1>4, <2>2, <3>2 DEF Silent
    <3> QED
      BY <1>2, <1>4, <3>1, <3>2
  <2>3. Silent(0) => Silent(0)'
    BY <2>2
  <2>4. Armed => Armed'
    <3>1. ASSUME NEW i \in DOMAIN gifts, gifts[i].dozes = <<vane.wake>>, Silent(i)
          PROVE  Armed'
      <4>1. i \in DOMAIN gifts' /\ i \in Nat /\ gifts'[i] = gifts[i]
        BY <1>2, <1>4
      <4>2. Silent(i)'
        BY <2>2, <3>1, <4>1
      <4> QED
        BY <2>1, <3>1, <4>1, <4>2 DEF Armed
    <3>2. ASSUME Silent(0), alarm = vane.wake PROVE Armed'
      BY <1>1, <2>1, <2>3, <3>2 DEF Armed
    <3>3. ASSUME Silent(0), alarm = Backstop, vane.wake # None, vane.wake <= now + 1
          PROVE  Armed'
      BY <1>1, <2>1, <2>3, <3>3 DEF Armed
    <3> QED
      BY <3>1, <3>2, <3>3 DEF Armed
  <2>5. Silent(0) /\ alarm = None /\ r.vane.wake = None => Armed'
    BY <1>1, <2>3 DEF Armed
  <2> QED
    BY <1>1, <1>3, <1>4, <1>5, <1>6, <1>7, <2>3, <2>4, <2>5
<1>8. CASE r.dozes # <<>>
  <2> PICK n \in Nat : n = Len(gifts) + 1
    BY <1>2
  <2>1. gifts'[n].dozes = <<vane'.wake>>
    BY <1>1, <1>4, <1>8 DEF Sound
  <2>2. n \in DOMAIN gifts'
    BY <1>2, <1>4
  <2>3. Silent(n)'
    BY <1>2, <1>4 DEF Silent
  <2>4. Armed'
    BY <2>1, <2>2, <2>3 DEF Armed
  <2> QED
    BY <1>1, <1>3, <1>4, <1>5, <1>6, <2>4
<1> QED
  BY <1>7, <1>8

\* The types that every step keeps.
LEMMA BehnTypes ==
  ASSUME BehnInv
  PROVE  /\ vane \in Vane /\ dur \in Vane /\ now \in Tick /\ IdleVane(vane) /\ IdleVane(dur)
         /\ now \in Nat
BY BehnLimits DEF BehnInv, BehnTypeOK, Tick

\* An ovum is done, or its %crud is.
LEMMA EndedInv ==
  ASSUME BehnInv, NEW r, Sound(r, vane, now), Work(r), ~bailed, ova # <<>>,
         ova' = Tail(ova), liv' \in BOOLEAN, unborn' \in BOOLEAN,
         UNCHANGED <<now, alarm, dur, calls, crashes, bailed>>,
         Head(ova).kind = "wake" =>
           unborn' = unborn /\ (vane.duct => Wakeful(r.vane, now)),
         Head(ova).kind = "born" =>
           unborn' \/ (/\ unborn' = unborn
                       /\ r.vane.duct /\ Wakeful(r.vane, now)
                       /\ r.dozes = <<>> => r.vane.wake = None)
  PROVE  BehnInv'
<1>1. /\ vane' = r.vane /\ vane' \in Vane /\ IdleVane(vane')
      /\ gifts' \in Seq(Given) /\ Len(gifts') <= MaxGifts
      /\ \A i \in DOMAIN gifts' : IdleVane(gifts'[i].vane) /\ Len(gifts'[i].dozes) <= 1
      /\ Armed => Armed'
      /\ Silent(0) /\ alarm = None =>
           Armed' \/ (r.dozes = <<>> /\ Silent(0)' /\ alarm' = None)
      /\ Silent(0) /\ alarm = None /\ r.vane.wake = None => Armed'
  BY WorkFacts
<1>2. /\ ova' \in Seq(WakeOvum) /\ Len(ova') = Len(ova) - 1 /\ Len(ova) \in Nat
      /\ \A i \in DOMAIN ova' : ova'[i].kind # "born"
      /\ Unsettled <=> Head(ova).kind = "born"
      /\ Head(ova) \in WakeOvum
  BY OvaFacts
<1>3. BehnTypeOK'
  <2>1. Len(ova') <= MaxWakes + 1
    BY <1>2, BehnLimits DEF BehnInv, BehnTypeOK
  <2> QED
    BY <1>1, <1>2, <2>1 DEF BehnInv, BehnTypeOK, Given
<1>4. ~Unsettled'
  BY <1>2 DEF Unsettled
<1>5. ASSUME ~unborn' PROVE Armed' /\ vane'.duct /\ Wakeful(vane', now')
  <2>1. CASE Head(ova).kind = "born"
    <3>1. ~unborn
      BY <1>5, <2>1
    <3>2. Armed'
      BY <1>1, <1>5, <2>1, <3>1 DEF BehnInv
    <3> QED
      BY <1>1, <1>5, <2>1, <3>2
  <2>2. CASE Head(ova).kind = "wake"
    <3>1. ~unborn /\ ~Unsettled
      BY <1>2, <1>5, <2>2
    <3>2. Armed /\ vane.duct
      BY <3>1 DEF BehnInv
    <3> QED
      BY <1>1, <2>2, <3>2 DEF Sound
  <2> QED
    BY <1>2, <2>1, <2>2 DEF WakeOvum
<1> QED
  BY <1>1, <1>2, <1>3, <1>4, <1>5 DEF BehnInv

\* %born or %wake is done.
LEMMA DoneInv == BehnInv /\ OvumDone => BehnInv'
<1> SUFFICES ASSUME BehnInv, OvumDone PROVE BehnInv'
  OBVIOUS
<1>1. /\ ~bailed /\ ova # <<>> /\ ova' = Tail(ova)
      /\ liv' = (liv \/ Head(ova).kind = "born")
      /\ UNCHANGED <<now, alarm, dur, calls, crashes, bailed, unborn>>
  BY DEF OvumDone
<1>2. liv' \in BOOLEAN /\ unborn' \in BOOLEAN
  BY <1>1 DEF BehnInv, BehnTypeOK
<1>3. CASE Head(ova).kind = "born"
  <2>1. Work(Born(vane, now))
    BY <1>3 DEF OvumDone
  <2>2. /\ Sound(Born(vane, now), vane, now)
        /\ Born(vane, now).vane.duct /\ Wakeful(Born(vane, now).vane, now)
        /\ Born(vane, now).dozes = <<>> => Born(vane, now).vane.wake = None
    BY BehnTypes, BornFacts
  <2> QED
    BY <1>1, <1>2, <1>3, <2>1, <2>2, EndedInv
<1>4. CASE Head(ova).kind # "born"
  <2>1. Work(Wake(vane, now))
    BY <1>4 DEF OvumDone
  <2>2. Sound(Wake(vane, now), vane, now) /\ (vane.duct => Wakeful(Wake(vane, now).vane, now))
    BY BehnTypes, WakeFacts
  <2> QED
    BY <1>1, <1>2, <1>4, <2>1, <2>2, EndedInv
<1> QED
  BY <1>3, <1>4

\* Its %crud is.
LEMMA SwapInv == BehnInv /\ OvumSwap => BehnInv'
<1> SUFFICES ASSUME BehnInv, OvumSwap PROVE BehnInv'
  OBVIOUS
<1>1. /\ ~bailed /\ ova # <<>> /\ ova' = Tail(ova)
      /\ liv' = (liv \/ Head(ova).kind = "born")
      /\ unborn' = (unborn \/ Head(ova).kind = "born")
      /\ UNCHANGED <<now, alarm, dur, calls, crashes, bailed>>
  BY DEF OvumSwap
<1>2. liv' \in BOOLEAN /\ unborn' \in BOOLEAN
  BY <1>1 DEF BehnInv, BehnTypeOK
<1>3. CASE Head(ova).kind = "born"
  <2>1. Work([vane |-> vane, dozes |-> <<>>])
    BY <1>3 DEF OvumSwap, Quiet
  <2>2. Sound([vane |-> vane, dozes |-> <<>>], vane, now)
    BY BehnTypes DEF Sound
  <2> QED
    BY <1>1, <1>2, <1>3, <2>1, <2>2, EndedInv
<1>4. CASE Head(ova).kind # "born"
  <2>1. Work(CrudWake(vane, now))
    BY <1>4 DEF OvumSwap
  <2>2. Sound(CrudWake(vane, now), vane, now)
        /\ (vane.duct => Wakeful(CrudWake(vane, now).vane, now))
    BY BehnTypes, CrudFacts
  <2>3. unborn' = unborn
    BY <1>1, <1>4 DEF BehnInv, BehnTypeOK
  <2> QED
    BY <1>1, <1>2, <1>4, <2>1, <2>2, <2>3, EndedInv
<1> QED
  BY <1>3, <1>4

\* It is tried again, or the pier bails.
LEMMA BailInv == BehnInv /\ OvumBail => BehnInv'
<1> SUFFICES ASSUME BehnInv, OvumBail PROVE BehnInv'
  OBVIOUS
<1>1. /\ ~bailed /\ ova # <<>>
      /\ UNCHANGED <<now, alarm, liv, vane, gifts, dur, calls, crashes, unborn>>
      /\ \/ /\ Head(ova).try < Retries /\ bailed' = FALSE
            /\ ova' = <<[Head(ova) EXCEPT !.try = @ + 1]>> \o Tail(ova)
         \/ ova' = <<>> /\ bailed' = TRUE
  BY DEF OvumBail
<1>2. CASE ova' = <<>> /\ bailed' = TRUE
  BY <1>1, <1>2, BehnLimits DEF BehnInv, BehnTypeOK, IdleVane
<1>3. CASE /\ Head(ova).try < Retries /\ bailed' = FALSE
           /\ ova' = <<[Head(ova) EXCEPT !.try = @ + 1]>> \o Tail(ova)
  <2> DEFINE e == [Head(ova) EXCEPT !.try = @ + 1]
  <2>1. /\ ova \in Seq(WakeOvum) /\ Len(ova) \in Nat /\ Len(ova) > 0
        /\ Head(ova) = ova[1] /\ Head(ova) \in WakeOvum
    BY <1>1, OvaFacts
  <2>2. e \in WakeOvum /\ e.kind = ova[1].kind
    <3>1. Head(ova).try + 1 \in 0 .. Retries
      BY <1>3, <2>1, BehnLimits DEF WakeOvum
    <3> QED
      BY <2>1, <3>1 DEF WakeOvum
  <2>3. ova' = <<e>> \o Tail(ova)
    BY <1>3
  <2> HIDE DEF e
  <2>4. /\ ova' \in Seq(WakeOvum) /\ Len(ova') = Len(ova) /\ DOMAIN ova' = DOMAIN ova
        /\ \A i \in DOMAIN ova : ova'[i].kind = ova[i].kind
    <3>1. /\ <<e>> \in Seq(WakeOvum) /\ Tail(ova) \in Seq(WakeOvum)
          /\ Len(<<e>>) = 1 /\ Len(Tail(ova)) = Len(ova) - 1
          /\ \A i \in 1 .. Len(ova) - 1 : Tail(ova)[i] = ova[i + 1]
      BY <2>1, <2>2
    <3>2. ova' \in Seq(WakeOvum) /\ Len(ova') = Len(ova)
      BY <2>1, <2>3, <3>1
    <3>3. ASSUME NEW i \in DOMAIN ova PROVE ova'[i].kind = ova[i].kind
      <4>1. CASE i = 1
        BY <2>2, <2>3, <3>1, <4>1
      <4>2. CASE i # 1
        <5>1. PICK k \in 1 .. Len(ova) - 1 : i = k + 1
          <6>1. i - 1 \in 1 .. Len(ova) - 1 /\ i = (i - 1) + 1
            BY <2>1, <4>2
          <6> QED
            BY <6>1
        <5>2. ova'[k + 1] = Tail(ova)[k]
          BY <2>3, <3>1
        <5> QED
          BY <3>1, <5>1, <5>2
      <4> QED
        BY <4>1, <4>2
    <3> QED
      BY <2>1, <3>2, <3>3
  <2>5. Unsettled' = Unsettled
    BY <2>4 DEF Unsettled
  <2>6. \A i \in DOMAIN ova' : ova'[i].kind = "born" => i = 1
    BY <2>4 DEF BehnInv
  <2>7. BehnTypeOK'
    BY <1>1, <1>3, <2>4 DEF BehnInv, BehnTypeOK
  <2>8. Armed' = Armed /\ Silent(0)' = Silent(0)
    BY <1>1 DEF Armed, Silent
  <2> QED
    BY <1>1, <1>3, <2>5, <2>6, <2>7, <2>8 DEF BehnInv
<1> QED
  BY <1>1, <1>2, <1>3

\* Another driver's event sets or cancels a timer.
LEMMA CallInv == BehnInv /\ Call => BehnInv'
<1> SUFFICES ASSUME BehnInv, Call PROVE BehnInv'
  OBVIOUS
<1>1. /\ ~bailed /\ calls < MaxCalls /\ calls' = calls + 1
      /\ UNCHANGED <<now, alarm, liv, ova, dur, crashes, bailed, unborn>>
  BY DEF Call
<1>2. PICK d \in Tick : Work(Wait(vane, now, d)) \/ Work(Rest(vane, now, d))
  BY DEF Call
<1>3. PICK r : /\ Work(r) /\ (r = Wait(vane, now, d) \/ r = Rest(vane, now, d))
  BY <1>2
<1>4. Sound(r, vane, now) /\ (vane.duct => Wakeful(r.vane, now))
  BY <1>3, BehnTypes, CallFacts
<1>5. /\ vane' = r.vane /\ vane' \in Vane /\ IdleVane(vane')
      /\ gifts' \in Seq(Given) /\ Len(gifts') <= MaxGifts
      /\ \A i \in DOMAIN gifts' : IdleVane(gifts'[i].vane) /\ Len(gifts'[i].dozes) <= 1
      /\ Armed => Armed'
      /\ Silent(0) /\ alarm = None =>
           Armed' \/ (r.dozes = <<>> /\ Silent(0)' /\ alarm' = None)
  BY <1>1, <1>3, <1>4, WorkFacts
<1>6. BehnTypeOK'
  <2>1. calls' \in 0 .. MaxCalls
    BY <1>1, BehnLimits DEF BehnInv, BehnTypeOK
  <2> QED
    BY <1>1, <1>5, <2>1 DEF BehnInv, BehnTypeOK, Given
<1>7. Unsettled' = Unsettled
  BY <1>1 DEF Unsettled
<1>8. ASSUME ~bailed, ~unborn
      PROVE  /\ Armed' \/ (Unsettled' /\ Silent(0)' /\ alarm' = None)
             /\ ~Unsettled' => vane'.duct /\ Wakeful(vane', now')
  <2>1. /\ Armed \/ (Unsettled /\ Silent(0) /\ alarm = None)
        /\ ~Unsettled => vane.duct
    BY <1>8 DEF BehnInv
  <2>2. Armed' \/ (Unsettled' /\ Silent(0)' /\ alarm' = None)
    BY <1>5, <1>7, <2>1
  <2>3. ~Unsettled => r.vane.duct /\ Wakeful(r.vane, now)
    BY <1>4, <2>1 DEF Sound
  <2> QED
    BY <1>1, <1>5, <1>7, <2>2, <2>3
<1> QED
  BY <1>1, <1>5, <1>6, <1>8 DEF BehnInv

\* The log has an event, and libuv hears what it asked for.
LEMMA KickInv == BehnInv /\ Kick => BehnInv'
<1> SUFFICES ASSUME BehnInv, Kick PROVE BehnInv'
  OBVIOUS
<1>1. /\ ~bailed /\ gifts # <<>>
      /\ alarm' = EfDoze(alarm, Head(gifts).dozes)
      /\ liv' = (liv \/ Head(gifts).dozes # <<>>)
      /\ dur' = Head(gifts).vane /\ gifts' = Tail(gifts)
      /\ UNCHANGED <<now, ova, vane, calls, crashes, bailed, unborn>>
  BY DEF Kick
<1>2. gifts \in Seq(Given) /\ Len(gifts) \in Nat /\ Len(gifts) > 0 /\ Len(gifts) <= MaxGifts
  BY <1>1 DEF BehnInv, BehnTypeOK, Given
<1>3. /\ gifts' \in Seq(Given) /\ Len(gifts') = Len(gifts) - 1
      /\ DOMAIN gifts = 1 .. Len(gifts) /\ DOMAIN gifts' = 1 .. Len(gifts) - 1
      /\ \A i \in 1 .. Len(gifts) - 1 : gifts'[i] = gifts[i + 1]
      /\ Head(gifts) = gifts[1] /\ 1 \in DOMAIN gifts /\ gifts[1] \in Given
  BY <1>1, <1>2
<1>4. gifts[1].dozes \in Seq(Date) /\ Len(gifts[1].dozes) <= 1 /\ IdleVane(gifts[1].vane)
      /\ gifts[1].vane \in Vane
  BY <1>3 DEF BehnInv, Given
<1>5. ASSUME NEW n \in Nat, Silent(n + 1) PROVE Silent(n)'
  <2> SUFFICES ASSUME NEW j \in DOMAIN gifts', j > n PROVE gifts'[j].dozes = <<>>
    BY DEF Silent
  <2>1. j + 1 \in DOMAIN gifts /\ j + 1 > n + 1 /\ gifts'[j] = gifts[j + 1]
    BY <1>2, <1>3
  <2> QED
    BY <1>5, <2>1 DEF Silent
<1>6. Silent(0) => gifts[1].dozes = <<>> /\ Silent(0)' /\ alarm' = alarm
  <2> SUFFICES ASSUME Silent(0) PROVE gifts[1].dozes = <<>> /\ Silent(0)' /\ alarm' = alarm
    OBVIOUS
  <2>1. gifts[1].dozes = <<>>
    BY <1>3 DEF Silent
  <2>2. Silent(0 + 1)
    BY <1>3 DEF Silent
  <2>3. Silent(0)'
    BY <1>5, <2>2
  <2> QED
    BY <1>1, <1>3, <2>1, <2>3 DEF EfDoze
<1>7. Armed => Armed'
  <2>1. ASSUME NEW i \in DOMAIN gifts, gifts[i].dozes = <<vane.wake>>, Silent(i) PROVE Armed'
    <3>1. CASE i = 1
      <4>1. alarm' = vane.wake
        <5>1. alarm' = EfDoze(alarm, <<vane.wake>>)
          BY <1>1, <1>3, <2>1, <3>1
        <5> QED
          BY <5>1 DEF EfDoze, Last
      <4>2. Silent(0)'
        BY <1>5, <2>1, <3>1
      <4> QED
        BY <1>1, <4>1, <4>2 DEF Armed
    <3>2. CASE i # 1
      <4>1. PICK k \in 1 .. Len(gifts) - 1 : i = k + 1
        <5>1. i - 1 \in 1 .. Len(gifts) - 1 /\ i = (i - 1) + 1
          BY <1>2, <1>3, <3>2
        <5> QED
          BY <5>1
      <4>2. k \in DOMAIN gifts' /\ k \in Nat /\ gifts'[k].dozes = <<vane'.wake>>
        BY <1>1, <1>2, <1>3, <2>1, <4>1
      <4>3. Silent(k)'
        BY <1>5, <2>1, <4>1, <4>2
      <4> QED
        BY <4>2, <4>3 DEF Armed
    <3> QED
      BY <3>1, <3>2
  <2>2. ASSUME Silent(0), alarm = vane.wake PROVE Armed'
    BY <1>1, <1>6, <2>2 DEF Armed
  <2>3. ASSUME Silent(0), alarm = Backstop, vane.wake # None, vane.wake <= now + 1
        PROVE  Armed'
    BY <1>1, <1>6, <2>3 DEF Armed
  <2> QED
    BY <2>1, <2>2, <2>3 DEF Armed
<1>8. alarm' \in Date \cup {Backstop}
  <2>1. CASE gifts[1].dozes = <<>>
    BY <1>1, <1>3, <2>1 DEF EfDoze, BehnInv, BehnTypeOK
  <2>2. CASE gifts[1].dozes # <<>>
    <3>1. Len(gifts[1].dozes) \in Nat /\ Len(gifts[1].dozes) > 0
      BY <1>4, <2>2
    <3>2. Last(gifts[1].dozes) \in Date
      BY <1>4, <3>1 DEF Last
    <3> QED
      BY <1>1, <1>3, <2>2, <3>2 DEF EfDoze
  <2> QED
    BY <2>1, <2>2
<1>9. BehnTypeOK'
  <2>1. liv' \in BOOLEAN
    BY <1>1 DEF BehnInv, BehnTypeOK
  <2>2. Len(gifts') <= MaxGifts
    BY <1>2, <1>3, BehnLimits
  <2> QED
    BY <1>1, <1>3, <1>4, <1>8, <2>1, <2>2 DEF BehnInv, BehnTypeOK, Given
<1>10. \A i \in DOMAIN gifts' : IdleVane(gifts'[i].vane) /\ Len(gifts'[i].dozes) <= 1
  <2> TAKE i \in DOMAIN gifts'
  <2>1. i + 1 \in DOMAIN gifts /\ gifts'[i] = gifts[i + 1]
    BY <1>2, <1>3
  <2> QED
    BY <2>1 DEF BehnInv
<1>11. Unsettled' = Unsettled
  BY <1>1 DEF Unsettled
<1> QED
  BY <1>1, <1>3, <1>4, <1>6, <1>7, <1>9, <1>10, <1>11 DEF BehnInv

\* An alarm goes off.
LEMMA TimeInv == BehnInv /\ TimeCb => BehnInv'
<1> SUFFICES ASSUME BehnInv, TimeCb PROVE BehnInv'
  OBVIOUS
<1>1. /\ ~bailed /\ Due /\ Wakes < MaxWakes
      /\ alarm' = Backstop /\ ova' = Append(ova, NewEgg("wake"))
      /\ UNCHANGED <<now, liv, vane, gifts, dur, calls, crashes, bailed, unborn>>
  BY DEF TimeCb
<1>2. NewEgg("wake") \in WakeOvum /\ NewEgg("wake").kind = "wake"
  BY BehnLimits DEF NewEgg, WakeOvum
<1>3. /\ ova \in Seq(WakeOvum) /\ Len(ova) \in Nat /\ DOMAIN ova = 1 .. Len(ova)
      /\ \A i \in DOMAIN ova : ova[i].kind = "born" => i = 1
  BY DEF BehnInv, BehnTypeOK
<1>4. /\ ova' \in Seq(WakeOvum) /\ Len(ova') = Len(ova) + 1
      /\ DOMAIN ova' = 1 .. Len(ova) + 1
      /\ \A i \in 1 .. Len(ova) : ova'[i] = ova[i]
      /\ ova'[Len(ova) + 1].kind = "wake"
  BY <1>1, <1>2, <1>3
<1>5. Len(ova) <= MaxWakes
  <2>1. /\ IsFiniteSet(1 .. Len(ova)) /\ IsFiniteSet(2 .. Len(ova))
        /\ Len(ova) > 0 => Cardinality(2 .. Len(ova)) = Len(ova) - 1
    BY <1>3, FS_Interval
  <2> DEFINE W == {i \in DOMAIN ova : ova[i].kind = "wake"}
  <2>2. 2 .. Len(ova) \subseteq W
    <3> SUFFICES ASSUME NEW i \in 2 .. Len(ova) PROVE i \in DOMAIN ova /\ ova[i].kind = "wake"
      OBVIOUS
    <3>1. i \in DOMAIN ova /\ i # 1 /\ ova[i] \in WakeOvum
      BY <1>3
    <3> QED
      BY <1>3, <3>1 DEF WakeOvum
  <2>3. W \in SUBSET (1 .. Len(ova)) /\ Wakes = Cardinality(W)
    BY <1>3 DEF Wakes
  <2> HIDE DEF W
  <2>4. IsFiniteSet(W)
    BY <2>1, <2>3, FS_Subset
  <2>5. Cardinality(2 .. Len(ova)) <= Cardinality(W) /\ Cardinality(W) \in Nat
    BY <2>2, <2>4, FS_Subset, FS_CardinalityType
  <2>6. Wakes \in Nat /\ MaxWakes \in Nat /\ Wakes < MaxWakes
    BY <1>1, <2>3, <2>5, BehnLimits
  <2>7. Len(ova) > 0 => Len(ova) - 1 <= Wakes
    BY <2>1, <2>3, <2>5
  <2> QED
    BY ONLY <1>3, <2>6, <2>7
<1>6. BehnTypeOK'
  BY <1>1, <1>3, <1>4, <1>5, BehnLimits DEF BehnInv, BehnTypeOK
<1>7. \A i \in DOMAIN ova' : ova'[i].kind = "born" => i = 1
  BY <1>3, <1>4
<1>8. Unsettled' = Unsettled
  <2>1. Unsettled => Unsettled'
    BY <1>3, <1>4 DEF Unsettled
  <2>2. Unsettled' => Unsettled
    <3> SUFFICES ASSUME NEW i \in DOMAIN ova', ova'[i].kind = "born" PROVE Unsettled
      BY DEF Unsettled
    <3>1. i \in 1 .. Len(ova)
      BY <1>3, <1>4
    <3> QED
      BY <1>3, <1>4, <3>1 DEF Unsettled
  <2> QED
    BY <2>1, <2>2 DEF Unsettled
<1>9. \A n \in Nat : Silent(n)' = Silent(n)
  BY <1>1 DEF Silent
<1>10. ~(Silent(0) /\ alarm = None)  \/ ~Due
  BY BehnLimits DEF Due
<1>11. Armed => Armed'
  <2>1. ASSUME NEW i \in DOMAIN gifts, gifts[i].dozes = <<vane.wake>>, Silent(i) PROVE Armed'
    BY <1>1, <2>1 DEF Armed, Silent
  <2>2. ASSUME Silent(0), alarm = vane.wake PROVE Armed'
    <3>1. vane.wake \in Date /\ Backstop \notin Date
      BY BehnTypes, BehnLimits DEF Vane, Date, Tick
    <3>2. vane.wake # None /\ vane.wake <= now + 1
      BY <1>1, <2>2, <3>1 DEF Due
    <3> QED
      BY <1>1, <1>9, <2>2, <3>2 DEF Armed
  <2>3. ASSUME Silent(0), alarm = Backstop, vane.wake # None, vane.wake <= now + 1
        PROVE  Armed'
    BY <1>1, <1>9, <2>3 DEF Armed
  <2> QED
    BY <2>1, <2>2, <2>3 DEF Armed
<1> QED
  BY <1>1, <1>6, <1>7, <1>8, <1>10, <1>11 DEF BehnInv

\* The process starts again.
LEMMA CrashInv == BehnInv /\ Crash => BehnInv'
<1> SUFFICES ASSUME BehnInv, Crash PROVE BehnInv'
  OBVIOUS
<1>1. /\ crashes < MaxCrash /\ crashes' = crashes + 1
      /\ gifts' = <<>> /\ alarm' = None /\ liv' = FALSE /\ ova' = <<NewEgg("born")>>
      /\ bailed' = FALSE /\ unborn' = FALSE /\ UNCHANGED <<now, calls>>
  BY DEF Crash
<1>2. vane' \in Vane /\ IdleVane(vane') /\ dur' = vane'
  <2>1. PICK k \in 0 .. Len(gifts) : vane' = (IF k = 0 THEN dur ELSE gifts[k].vane) /\ dur' = vane'
    BY DEF Crash
  <2>2. CASE k = 0
    BY <2>1, <2>2, BehnTypes
  <2>3. CASE k # 0
    <3>1. gifts \in Seq(Given) /\ k \in DOMAIN gifts
      BY <2>3 DEF BehnInv, BehnTypeOK, Given
    <3>2. gifts[k] \in Given /\ IdleVane(gifts[k].vane)
      BY <3>1 DEF BehnInv
    <3> QED
      BY <2>1, <2>3, <3>2 DEF Given
  <2> QED
    BY <2>2, <2>3
<1>3. NewEgg("born") \in WakeOvum /\ NewEgg("born").kind = "born"
  BY BehnLimits DEF NewEgg, WakeOvum
<1>4. ova' \in Seq(WakeOvum) /\ Len(ova') = 1 /\ DOMAIN ova' = {1} /\ Unsettled'
  BY <1>1, <1>3 DEF Unsettled
<1>5. Silent(0)' /\ DOMAIN gifts' = {} /\ gifts' \in Seq(Given) /\ Len(gifts') = 0
  BY <1>1 DEF Silent
<1>6. BehnTypeOK'
  <2>1. crashes' \in 0 .. MaxCrash /\ None \in Date
    BY <1>1, BehnLimits DEF BehnInv, BehnTypeOK, Date
  <2>2. liv' \in BOOLEAN /\ bailed' \in BOOLEAN /\ unborn' \in BOOLEAN
    BY <1>1
  <2> QED
    BY <1>1, <1>2, <1>4, <1>5, <2>1, <2>2, BehnLimits DEF BehnInv, BehnTypeOK, Given
<1> QED
  BY <1>1, <1>2, <1>4, <1>5, <1>6 DEF BehnInv

\* Time passes.
LEMMA ClockInv == BehnInv /\ Clock => BehnInv'
<1> SUFFICES ASSUME BehnInv, Clock PROVE BehnInv'
  OBVIOUS
<1>1. /\ now < MaxNow /\ now' = now + 1
      /\ UNCHANGED <<alarm, liv, ova, vane, gifts, dur, calls, crashes, bailed, unborn>>
  BY DEF Clock
<1>2. now \in Nat /\ now' \in Tick /\ vane.wake \in Nat /\ vane.timers \subseteq Nat
  BY <1>1, BehnTypes, BehnLimits DEF Tick, Vane, Date
<1>3. BehnTypeOK'
  BY <1>1, <1>2 DEF BehnInv, BehnTypeOK
<1>4. Unsettled' = Unsettled /\ \A n \in Nat : Silent(n)' = Silent(n)
  BY <1>1 DEF Unsettled, Silent
<1>5. Armed => Armed'
  <2>1. ASSUME NEW i \in DOMAIN gifts, gifts[i].dozes = <<vane.wake>>, Silent(i) PROVE Armed'
    BY <1>1, <2>1 DEF Armed, Silent
  <2>2. ASSUME Silent(0), alarm = vane.wake PROVE Armed'
    BY <1>1, <1>4, <2>2 DEF Armed
  <2>3. ASSUME Silent(0), alarm = Backstop, vane.wake # None, vane.wake <= now + 1
        PROVE  Armed'
    <3>1. vane.wake <= now' + 1
      BY <1>1, <1>2, <2>3
    <3> QED
      BY <1>1, <1>4, <2>3, <3>1 DEF Armed
  <2> QED
    BY <2>1, <2>2, <2>3 DEF Armed
<1>6. Wakeful(vane, now) => Wakeful(vane', now')
  BY <1>1, <1>2 DEF Wakeful
<1> QED
  BY <1>1, <1>3, <1>4, <1>5, <1>6 DEF BehnInv

\* A first start.
LEMMA BehnInitInv == BehnInit => BehnInv
<1> SUFFICES ASSUME BehnInit PROVE BehnInv
  OBVIOUS
<1>1. NewEgg("born") \in WakeOvum /\ NewEgg("born").kind = "born"
  BY BehnLimits DEF NewEgg, WakeOvum
<1>2. ova \in Seq(WakeOvum) /\ Len(ova) = 1 /\ DOMAIN ova = {1} /\ Unsettled
  BY <1>1 DEF BehnInit, Unsettled
<1>3. Silent(0) /\ DOMAIN gifts = {} /\ gifts \in Seq(Given) /\ Len(gifts) = 0
  BY DEF BehnInit, Silent
<1>4. vane \in Vane /\ dur = vane /\ IdleVane(vane)
  BY DEF BehnInit, Vane, Date, IdleVane
<1>5. now \in Tick /\ alarm \in Date /\ calls \in 0 .. MaxCalls /\ crashes \in 0 .. MaxCrash
  BY BehnLimits DEF BehnInit, Tick, Date
<1>6. liv \in BOOLEAN /\ bailed \in BOOLEAN /\ unborn \in BOOLEAN
  BY DEF BehnInit
<1>7. BehnTypeOK
  BY <1>2, <1>3, <1>4, <1>5, <1>6, BehnLimits DEF BehnTypeOK, Given
<1> QED
  BY <1>2, <1>3, <1>4, <1>7 DEF BehnInit, BehnInv

\* Every step, by its actions.
LEMMA BehnStepInv == BehnInv /\ [BehnNext]_behnVars => BehnInv'
<1> SUFFICES ASSUME BehnInv, [BehnNext]_behnVars PROVE BehnInv'
  OBVIOUS
<1>1. CASE UNCHANGED behnVars
  BY <1>1 DEF behnVars, BehnInv, BehnTypeOK, IdleVane, Armed, Silent, Unsettled, Wakeful
<1> QED
  BY <1>1, TimeInv, DoneInv, SwapInv, BailInv, CallInv, KickInv, CrashInv, ClockInv
     DEF BehnNext, OvumEnds

\* Whenever the driver has nothing to send and nothing to hear and a timer is set,
\* libuv holds an alarm that is early enough, or the backstop of one that has just
\* gone off: after any number of calls, late %dozes, retries and crashes
\* (_behn_time_cb, _behn_ef_doze).
THEOREM BehnTimerIsHeld == BehnSpec => []TimerIsHeld
<1>1. BehnInv => TimerIsHeld
  <2> SUFFICES ASSUME BehnInv, AtRest, ~unborn
               PROVE  \/ alarm <= Max({now, Min(vane.timers)})
                      \/ alarm = Backstop /\ vane.wake <= now + 1
    BY DEF TimerIsHeld, BehnInv
  <2>1. ~bailed /\ ova = <<>> /\ gifts = <<>> /\ vane.timers # {} /\ ~Unsettled
    BY DEF AtRest, Unsettled
  <2>2. Armed /\ Wakeful(vane, now)
    BY <2>1 DEF BehnInv
  <2>3. alarm = vane.wake \/ (alarm = Backstop /\ vane.wake <= now + 1)
    BY <2>1, <2>2 DEF Armed
  <2>4. /\ vane.timers \in SUBSET Tick /\ now \in Nat /\ Tick \subseteq Nat
        /\ vane.wake \in Nat
    BY BehnTypes, BehnLimits DEF Vane, Date, Tick
  <2>5. Min(vane.timers) \in vane.timers
    BY <2>1, <2>4, MinFacts
  <2>6. vane.wake <= now \/ vane.wake <= Min(vane.timers)
    BY <2>1, <2>2, <2>5 DEF Wakeful
  <2> PICK m \in Nat : m = Min(vane.timers)
    BY <2>4, <2>5
  <2>7. Max({now, m}) \in Nat /\ Max({now, m}) >= now /\ Max({now, m}) >= m
    BY <2>4, MaxFacts
  <2> QED
    BY <2>3, <2>4, <2>6, <2>7
<1> QED
  BY BehnInitInv, BehnStepInv, <1>1, PTL DEF BehnSpec

-----------------------------------------------------------------------------
(* The drivers' queues (module Auto): recursion along the links.           *)

\* One list after another.
LEMMA ConcatFacts ==
  ASSUME NEW S, NEW a \in Seq(S), NEW b \in Seq(S)
  PROVE  /\ a \o b \in Seq(S) /\ Len(a \o b) = Len(a) + Len(b)
         /\ \A i \in 1 .. Len(a) + Len(b) :
              (a \o b)[i] = IF i <= Len(a) THEN a[i] ELSE b[i - Len(a)]
OBVIOUS

\* A list without one of its elements.
LEMMA RemoveAtFacts ==
  ASSUME NEW S, NEW s \in Seq(S), NEW k \in 1 .. Len(s)
  PROVE  /\ RemoveAt(s, k) \in Seq(S) /\ DOMAIN RemoveAt(s, k) = 1 .. Len(s) - 1
         /\ \A i \in 1 .. Len(s) - 1 : RemoveAt(s, k)[i] = s[IF i < k THEN i ELSE i + 1]
<1> DEFINE a == SubSeq(s, 1, k - 1)
           b == SubSeq(s, k + 1, Len(s))
           t == a \o b
<1>1. a \in Seq(S) /\ Len(a) = k - 1 /\ \A i \in 1 .. k - 1 : a[i] = s[i]
  OBVIOUS
<1>2. b \in Seq(S) /\ Len(b) = Len(s) - k /\ \A i \in 1 .. Len(s) - k : b[i] = s[i + k]
  OBVIOUS
<1>3. Len(s) \in Nat /\ k \in Nat /\ k >= 1 /\ k <= Len(s)
  OBVIOUS
<1> HIDE DEF a, b
<1>4. t \in Seq(S) /\ Len(t) = Len(a) + Len(b)
      /\ \A i \in 1 .. Len(a) + Len(b) : t[i] = IF i <= Len(a) THEN a[i] ELSE b[i - Len(a)]
  BY ONLY <1>1, <1>2, ConcatFacts
<1> HIDE DEF t
<1>5. Len(t) = Len(s) - 1 /\ DOMAIN t = 1 .. Len(s) - 1
  BY ONLY <1>1, <1>2, <1>3, <1>4
<1>6. ASSUME NEW i \in 1 .. Len(s) - 1 PROVE t[i] = s[IF i < k THEN i ELSE i + 1]
  <2>1. CASE i < k
    <3>1. i <= Len(a) /\ i \in 1 .. k - 1 /\ i \in 1 .. Len(a) + Len(b)
      BY ONLY <1>1, <1>2, <1>3, <1>6, <2>1
    <3> QED
      BY <1>1, <1>4, <2>1, <3>1
  <2>2. CASE ~(i < k)
    <3>1. t[i] = b[i - (k - 1)]
      BY ONLY <1>1, <1>2, <1>3, <1>4, <1>6, <2>2
    <3>2. PICK j \in 1 .. Len(s) - k : j = i - (k - 1)
      BY ONLY <1>3, <1>6, <2>2
    <3>3. b[j] = s[j + k] /\ j + k = i + 1
      BY <1>2, <1>3, <3>2
    <3> QED
      BY <2>2, <3>1, <3>2, <3>3
  <2> QED
    BY <2>1, <2>2
<1> QED
  BY <1>4, <1>5, <1>6 DEF RemoveAt, t, a, b

\* Induction up to a bound.
LEMMA InductionUpto ==
  ASSUME NEW N \in Nat, NEW G, 0 \in G, \A n \in 1 .. N : n - 1 \in G => n \in G
  PROVE  \A n \in 0 .. N : n \in G
<1> DEFINE Bad == {n \in 0 .. N : n \notin G}
<1>1. SUFFICES ASSUME Bad # {} PROVE FALSE
  OBVIOUS
<1>2. Bad \in SUBSET Nat
  OBVIOUS
<1> HIDE DEF Bad
<1>3. PICK m \in Bad : \A n \in Bad : ~ (<<n, m>> \in OpToRel(<, Nat))
  BY <1>1, <1>2, NatLessThanWellFounded, WFMin
<1>4. \A n \in Bad : ~ (n < m)
  BY <1>2, <1>3 DEF OpToRel
<1>5. m \in 0 .. N /\ m \notin G /\ \A n \in 0 .. N : n < m => n \in G
  BY <1>4 DEF Bad
<1>6. m \in 1 .. N /\ m - 1 \in 0 .. N /\ m - 1 < m
  BY <1>5
<1> QED
  BY <1>5, <1>6

\* The function g on 0 .. N with the first value b and the step F.
Iterates(g, N, S, b, F) ==
  g \in [0 .. N -> S] /\ g[0] = b /\ \A n \in 1 .. N : g[n] = F[g[n - 1]]

\* Iterating a step up to a bound gives a function.
LEMMA RecursionExists ==
  ASSUME NEW N \in Nat, NEW S, NEW b \in S, NEW F \in [S -> S]
  PROVE  \E g : Iterates(g, N, S, b, F)
<1> DEFINE Upto(k) == \E g : Iterates(g, k, S, b, F)
           G == {k \in 0 .. N : Upto(k)}
<1>1. Upto(0)
  <2> DEFINE g == [i \in 0 .. 0 |-> b]
  <2>1. Iterates(g, 0, S, b, F)
    BY DEF Iterates
  <2> QED
    BY <2>1
<1>2. ASSUME NEW m \in 1 .. N, Upto(m - 1) PROVE Upto(m)
  <2>1. PICK g : Iterates(g, m - 1, S, b, F)
    BY <1>2
  <2> DEFINE x == [i \in 0 .. m |-> IF i = m THEN F[g[m - 1]] ELSE g[i]]
  <2>2. x \in [0 .. m -> S] /\ x[0] = b /\ \A n \in 1 .. m : x[n] = F[x[n - 1]]
    BY <2>1 DEF Iterates
  <2>3. Iterates(x, m, S, b, F)
    BY <2>2 DEF Iterates
  <2> QED
    BY <2>3
<1> HIDE DEF Upto
<1>3. 0 \in G /\ \A n \in 1 .. N : n - 1 \in G => n \in G
  BY <1>1, <1>2
<1> HIDE DEF G
<1>4. N \in G
  BY <1>3, InductionUpto
<1> QED
  BY <1>4 DEF G, Upto

Egg0   == Egg \cup {0}
LinkOf == [Egg -> Egg0]

\* The walk along the links, for each number of steps.
WalkIs(l, f) ==
  f = [n \in 0 .. NEggs |->
         [p \in Egg \cup {0} |-> IF n = 0 \/ p = 0 THEN <<>> ELSE <<p>> \o f[n - 1][l[p]]]]

\* There is a walk along any links.
LEMMA WalkExists ==
  ASSUME NEW l \in LinkOf
  PROVE  \E f : WalkIs(l, f)
<1> DEFINE S == [Egg0 -> Seq(Egg)]
           b == [p \in Egg0 |-> <<>>]
           Step(w) == [p \in Egg0 |-> IF p = 0 THEN <<>> ELSE <<p>> \o w[l[p]]]
           F == [w \in S |-> Step(w)]
<1>1. NEggs \in Nat /\ b \in S
  BY AutoAssumption
<1>2. ASSUME NEW w \in S PROVE Step(w) \in S
  <2>1. ASSUME NEW p \in Egg0, p # 0 PROVE <<p>> \o w[l[p]] \in Seq(Egg)
    <3>1. p \in Egg /\ l[p] \in Egg0 /\ w[l[p]] \in Seq(Egg)
      BY <2>1 DEF Egg0, LinkOf
    <3>2. <<p>> \in Seq(Egg)
      BY <3>1
    <3> QED
      BY <3>1, <3>2
  <2> QED
    BY <2>1
<1>3. F \in [S -> S]
  <2> HIDE DEF S, Step
  <2> QED
    BY <1>2
<1> HIDE DEF S, b, F
<1>4. PICK g : Iterates(g, NEggs, S, b, F)
  BY <1>1, <1>3, RecursionExists
<1> USE DEF Iterates
<1>5. ASSUME NEW n \in 0 .. NEggs
      PROVE  g[n] = [p \in Egg0 |-> IF n = 0 \/ p = 0 THEN <<>> ELSE <<p>> \o g[n - 1][l[p]]]
  <2>1. CASE n = 0
    BY <1>4, <2>1 DEF b
  <2>2. CASE n # 0
    <3>1. n \in 1 .. NEggs /\ n - 1 \in 0 .. NEggs
      BY <1>1, <2>2
    <3>2. g[n] = F[g[n - 1]] /\ g[n - 1] \in S
      BY <1>4, <3>1
    <3>3. g[n] = Step(g[n - 1])
      BY <3>2 DEF F
    <3> QED
      BY <2>2, <3>3
  <2> QED
    BY <2>1, <2>2
<1>6. WalkIs(l, g)
  <2>1. g = [n \in 0 .. NEggs |-> g[n]]
    BY <1>4
  <2> QED
    BY <1>5, <2>1 DEF WalkIs, Egg0
<1> QED
  BY <1>6

\* What Along is, by a walk.
Walks(l, f) ==
  /\ \A e : Along(l, e) = f[NEggs][e]
  /\ \A n \in 0 .. NEggs, p \in Egg0 :
       f[n][p] = IF n = 0 \/ p = 0 THEN <<>> ELSE <<p>> \o f[n - 1][l[p]]

\* Following links is taking that walk.
LEMMA AlongWalks ==
  ASSUME NEW l \in LinkOf
  PROVE  \E f : Walks(l, f)
<1>1. PICK f : f = CHOOSE g : WalkIs(l, g)
  OBVIOUS
<1>2. WalkIs(l, f)
  BY <1>1, WalkExists
<1>3. \A e : Along(l, e) = f[NEggs][e]
  BY <1>1, Zenon DEF Along, WalkIs
<1>4. \A n \in 0 .. NEggs, p \in Egg0 :
        f[n][p] = IF n = 0 \/ p = 0 THEN <<>> ELSE <<p>> \o f[n - 1][l[p]]
  <2> TAKE n \in 0 .. NEggs, p \in Egg0
  <2>1. f[n] = [r \in Egg \cup {0} |-> IF n = 0 \/ r = 0 THEN <<>> ELSE <<r>> \o f[n - 1][l[r]]]
    BY <1>2 DEF WalkIs
  <2> QED
    BY <2>1 DEF Egg0
<1>5. Walks(l, f)
  BY <1>3, <1>4 DEF Walks
<1> QED
  BY <1>5

\* The i-th of a list, or null beyond it.
At(q, i) == IF i \in 1 .. Len(q) THEN q[i] ELSE 0

\* No ovum is twice in the list q.
Once(q) == \A i, j \in 1 .. Len(q) : q[i] = q[j] => i = j

\* A list without repetitions is not longer than the heap.
LEMMA OnceIsShort ==
  ASSUME NEW q \in Seq(Egg), Once(q)
  PROVE  Len(q) \in 0 .. NEggs
<1>1. NEggs \in Nat /\ Len(q) \in Nat
  BY AutoAssumption
<1>2. \A n \in Nat : IsFiniteSet(1 .. n) /\ Cardinality(1 .. n) = n
  <2> TAKE n \in Nat
  <2>1. 1 \in Int /\ n \in Int
    OBVIOUS
  <2>2. IsFiniteSet(1 .. n) /\ Cardinality(1 .. n) = IF 1 > n THEN 0 ELSE n - 1 + 1
    BY <2>1, FS_Interval, Zenon
  <2> QED
    BY <2>2
<1>3. SUFFICES ASSUME NEggs < Len(q) PROVE FALSE
  BY <1>1
<1>4. q \in [1 .. Len(q) -> Egg]
  OBVIOUS
<1>5. \E x, y \in 1 .. Len(q) : x # y /\ q[x] = q[y]
  BY <1>1, <1>2, <1>3, <1>4, FS_PigeonHole DEF Egg
<1> QED
  BY <1>5 DEF Once

\* Following links that lead from each of a list to the next gives the list.
LEMMA AlongIs ==
  ASSUME NEW l \in LinkOf, NEW q \in Seq(Egg), Len(q) \in 0 .. NEggs,
         \A i \in 1 .. Len(q) : l[q[i]] = At(q, i + 1)
  PROVE  Along(l, At(q, 1)) = q
<1>1. PICK f : Walks(l, f)
  BY AlongWalks
<1>2. NEggs \in Nat /\ Len(q) \in Nat /\ 0 \notin Egg
  BY AutoAssumption DEF Egg
<1> DEFINE Onward(k) == SubSeq(q, k, Len(q))
           Good(n) == \A k \in 1 .. Len(q) + 1 : Len(q) + 1 - k <= n => f[n][At(q, k)] = Onward(k)
           G == {n \in 0 .. NEggs : Good(n)}
<1>3. \A k \in 1 .. Len(q) : Onward(k) = <<q[k]>> \o Onward(k + 1) /\ At(q, k) = q[k] /\ q[k] \in Egg
  BY <1>2 DEF At
<1>4. Onward(Len(q) + 1) = <<>> /\ At(q, Len(q) + 1) = 0
  BY <1>2 DEF At
<1>5. \A n \in 0 .. NEggs : f[n][0] = <<>>
  BY <1>1 DEF Walks, Egg0
<1>6. ASSUME NEW n \in 0 .. NEggs, n = 0 \/ Good(n - 1) PROVE Good(n)
  <2> SUFFICES ASSUME NEW k \in 1 .. Len(q) + 1, Len(q) + 1 - k <= n
               PROVE  f[n][At(q, k)] = Onward(k)
    OBVIOUS
  <2>1. CASE k = Len(q) + 1
    BY <1>4, <1>5, <2>1
  <2>2. CASE k # Len(q) + 1
    <3>1. k \in 1 .. Len(q) /\ k + 1 \in 1 .. Len(q) + 1 /\ n # 0 /\ n - 1 \in 0 .. NEggs
          /\ Len(q) + 1 - (k + 1) <= n - 1
      BY <1>2, <2>2
    <3>2. f[n - 1][At(q, k + 1)] = Onward(k + 1)
      <4> HIDE DEF Onward
      <4> QED
        BY <1>6, <3>1
    <3>3. q[k] \in Egg0 /\ q[k] # 0 /\ At(q, k) = q[k] /\ l[q[k]] = At(q, k + 1)
      BY <1>2, <1>3, <3>1 DEF Egg0
    <3>4. f[n][q[k]] = <<q[k]>> \o f[n - 1][l[q[k]]]
      BY <1>1, <3>1, <3>3 DEF Walks
    <3> HIDE DEF Onward
    <3> QED
      BY <1>3, <3>1, <3>2, <3>3, <3>4
  <2> QED
    BY <2>1, <2>2
<1>7. 0 \in G /\ \A n \in 1 .. NEggs : n - 1 \in G => n \in G
  <2> HIDE DEF Good
  <2> QED
    BY <1>2, <1>6
<1>8. Good(NEggs)
  <2>1. NEggs \in G
    <3> HIDE DEF G
    <3>1. \A n \in 0 .. NEggs : n \in G
      BY <1>2, <1>7, InductionUpto
    <3> QED
      BY <1>2, <3>1
  <2> QED
    BY <2>1
<1>9. f[NEggs][At(q, 1)] = Onward(1)
  <2> HIDE DEF Onward
  <2> QED
    BY <1>2, <1>8
<1>10. Onward(1) = q
  OBVIOUS
<1> QED
  BY <1>1, <1>9, <1>10 DEF Walks

-----------------------------------------------------------------------------
(* The lists in the heap.                                                  *)

HeapOK == [Egg -> Ovum]
CarOK  == [ext : Egg0, ent : Egg0, dep : Nat]

\* The list q is what the record c and the links of the heap h make, both ways.
Chained(h, c, q) ==
  /\ q \in Seq(Egg) /\ Once(q)
  /\ c.ext = At(q, 1) /\ c.ent = At(q, Len(q)) /\ c.dep = Len(q)
  /\ \A i \in 1 .. Len(q) : h[q[i]].nex = At(q, i + 1) /\ h[q[i]].pre = At(q, i - 1)

\* The queues qs are the drivers' lists, of their own planned ova.
Lists(h, cs, qs) ==
  /\ h \in HeapOK /\ cs \in [Driver -> CarOK] /\ qs \in [Driver -> Seq(Egg)]
  /\ \A d \in Driver : Chained(h, cs[d], qs[d])
  /\ \A d \in Driver : \A e \in Range(qs[d]) : h[e].sat = "plan" /\ h[e].car = d
  /\ \A e \in Egg : h[e].sat = "plan" => h[e].car \in Driver /\ e \in Range(qs[h[e].car])

\* The inductive invariant.
AutoInv ==
  /\ AutoTypeOK
  /\ \E qs : Lists(egg, car, qs)
  /\ \A e \in Egg : egg[e].sat = "work" <=> e \in Range(sent)
  /\ Once(sent)
  /\ Len(sent) <= Batch
  /\ cur # 0 => Len(sent) + len = Batch /\ ~gone

\* The cells g and h are the same ovum but for its links.
SameLook(g, h) == g.sat = h.sat /\ g.car = h.car /\ g.kind = h.kind /\ g.try = h.try

\* What a list has.
LEMMA RangeOf ==
  ASSUME NEW q \in Seq(Egg)
  PROVE  /\ Len(q) \in Nat /\ \A i \in 1 .. Len(q) : q[i] \in Egg /\ q[i] \in Range(q)
         /\ \A e \in Range(q) : e \in Egg /\ \E i \in 1 .. Len(q) : e = q[i]
BY DEF Range

\* The places of a list, and those next to its ends.
LEMMA AtIs ==
  ASSUME NEW q \in Seq(Egg), NEW n, n = Len(q)
  PROVE  n \in Nat /\ At(q, 0) = 0 /\ At(q, n + 1) = 0 /\ \A i \in 1 .. n : At(q, i) = q[i]
BY DEF At

\* One pointer set.
LEMMA SetPreIs ==
  ASSUME NEW h \in HeapOK, NEW p \in Egg0, NEW r \in Egg0
  PROVE  /\ SetPre(h, p, r) \in HeapOK
         /\ \A e \in Egg : /\ SetPre(h, p, r)[e].pre = (IF e = p THEN r ELSE h[e].pre)
                           /\ SetPre(h, p, r)[e].nex = h[e].nex
                           /\ SameLook(SetPre(h, p, r)[e], h[e])
<1>1. 0 \notin Egg
  BY AutoAssumption DEF Egg
<1> QED
  BY <1>1 DEF SetPre, HeapOK, Ovum, Egg0, SameLook

\* The same for a cell's next link.
LEMMA SetNexIs ==
  ASSUME NEW h \in HeapOK, NEW p \in Egg0, NEW r \in Egg0
  PROVE  /\ SetNex(h, p, r) \in HeapOK
         /\ \A e \in Egg : /\ SetNex(h, p, r)[e].nex = (IF e = p THEN r ELSE h[e].nex)
                           /\ SetNex(h, p, r)[e].pre = h[e].pre
                           /\ SameLook(SetNex(h, p, r)[e], h[e])
<1>1. 0 \notin Egg
  BY AutoAssumption DEF Egg
<1> QED
  BY <1>1 DEF SetNex, HeapOK, Ovum, Egg0, SameLook

\* A list whose ova keep their links is still the list.
LEMMA ChainedFrame ==
  ASSUME NEW h, NEW g, NEW c, NEW q, Chained(h, c, q),
         \A e \in Range(q) : g[e].pre = h[e].pre /\ g[e].nex = h[e].nex
  PROVE  Chained(g, c, q)
<1>1. q \in Seq(Egg)
  BY DEF Chained
<1>2. \A i \in 1 .. Len(q) : q[i] \in Range(q)
  BY <1>1, RangeOf
<1> QED
  BY <1>2 DEF Chained

\* Between the heaps h and g only the ovum e moved: it is in no other driver's
\* list, the cells that are not in d's list keep their links, all but e keep
\* their state and driver, the list qs[d] becomes q, which has e when e is planned.
NotElsewhere(qs, d, e) == \A b \in Driver \ {d} : e \notin Range(qs[b])

LinksKept(h, g, qs, d, e) ==
  \A f \in Egg \ ({e} \cup Range(qs[d])) : g[f].pre = h[f].pre /\ g[f].nex = h[f].nex

LooksKept(h, g, qs, d, e, q) ==
  \A f \in Egg \ {e} : /\ g[f].sat = h[f].sat /\ g[f].car = h[f].car
                       /\ f \in Range(q) <=> f \in Range(qs[d])

Placed(g, d, e, q) ==
  /\ g[e].sat = "plan" <=> e \in Range(q)
  /\ e \in Range(q) => g[e].car = d

OnlyMoves(h, g, qs, d, e, q) ==
  /\ NotElsewhere(qs, d, e) /\ LinksKept(h, g, qs, d, e)
  /\ LooksKept(h, g, qs, d, e, q) /\ Placed(g, d, e, q)

\* A step on one driver's list, which moves the ovum e and no other.
LEMMA ListMoves ==
  ASSUME NEW h, NEW cs, NEW qs, Lists(h, cs, qs),
         NEW d \in Driver, NEW e \in Egg, NEW g \in HeapOK, NEW c \in CarOK, NEW q,
         Chained(g, c, q), OnlyMoves(h, g, qs, d, e, q)
  PROVE  Lists(g, [cs EXCEPT ![d] = c], [qs EXCEPT ![d] = q])
<1> DEFINE cs2 == [cs EXCEPT ![d] = c]
           qs2 == [qs EXCEPT ![d] = q]
<1>1. /\ h \in HeapOK /\ cs \in [Driver -> CarOK] /\ qs \in [Driver -> Seq(Egg)]
      /\ \A b \in Driver : Chained(h, cs[b], qs[b])
      /\ \A b \in Driver : \A f \in Range(qs[b]) : h[f].sat = "plan" /\ h[f].car = b
      /\ \A f \in Egg : h[f].sat = "plan" => h[f].car \in Driver /\ f \in Range(qs[h[f].car])
  BY DEF Lists
<1>2. q \in Seq(Egg)
  BY DEF Chained
<1> USE DEF OnlyMoves, NotElsewhere, LinksKept, LooksKept, Placed
<1>3. cs2 \in [Driver -> CarOK] /\ qs2 \in [Driver -> Seq(Egg)]
      /\ cs2[d] = c /\ qs2[d] = q
      /\ \A b \in Driver \ {d} : cs2[b] = cs[b] /\ qs2[b] = qs[b]
  BY <1>1, <1>2
<1>4. ASSUME NEW b \in Driver \ {d}, NEW f \in Range(qs[b])
      PROVE  f \in Egg /\ f # e /\ f \notin Range(qs[d])
  <2>1. qs[b] \in Seq(Egg) /\ f # e
    BY <1>1, <1>4
  <2>2. f \in Egg
    BY <2>1, RangeOf
  <2>3. h[f].car = b
    BY <1>1
  <2>4. f \notin Range(qs[d])
    BY <1>1, <2>3
  <2> QED
    BY <2>1, <2>2, <2>4
<1> HIDE DEF cs2, qs2
<1>5. ASSUME NEW b \in Driver PROVE Chained(g, cs2[b], qs2[b])
  <2>1. CASE b = d
    BY <1>3, <2>1
  <2>2. CASE b # d
    <3>1. \A f \in Range(qs[b]) : g[f].pre = h[f].pre /\ g[f].nex = h[f].nex
      BY <1>4, <2>2
    <3>2. Chained(h, cs[b], qs[b])
      BY <1>1
    <3>3. Chained(g, cs[b], qs[b])
      BY <3>1, <3>2, ChainedFrame
    <3> QED
      BY <1>3, <2>2, <3>3
  <2> QED
    BY <2>1, <2>2
<1>6. ASSUME NEW b \in Driver, NEW f \in Range(qs2[b]) PROVE g[f].sat = "plan" /\ g[f].car = b
  <2>1. CASE b = d
    <3>1. f \in Range(q) /\ f \in Egg
      BY <1>2, <1>3, <2>1, RangeOf
    <3>2. CASE f = e
      BY <2>1, <3>1, <3>2
    <3>3. CASE f # e
      <4>1. f \in Range(qs[d]) /\ g[f].sat = h[f].sat /\ g[f].car = h[f].car
        BY <3>1, <3>3
      <4> QED
        BY <1>1, <2>1, <4>1
    <3> QED
      BY <3>2, <3>3
  <2>2. CASE b # d
    <3>1. b \in Driver \ {d} /\ qs2[b] = qs[b] /\ f \in Range(qs[b])
      BY <1>3, <2>2
    <3>2. h[f].sat = "plan" /\ h[f].car = b
      BY <1>1, <3>1
    <3>3. f \in Egg \ {e}
      BY <1>4, <3>1
    <3>4. g[f].sat = h[f].sat /\ g[f].car = h[f].car
      BY <3>3
    <3> QED
      BY <3>2, <3>4
  <2> QED
    BY <2>1, <2>2
<1>7. ASSUME NEW f \in Egg, g[f].sat = "plan"
      PROVE  g[f].car \in Driver /\ f \in Range(qs2[g[f].car])
  <2>1. CASE f = e
    BY <1>3, <1>7, <2>1
  <2>2. CASE f # e
    <3>1. h[f].sat = "plan" /\ g[f].car = h[f].car
      BY <1>7, <2>2
    <3>2. g[f].car \in Driver /\ f \in Range(qs[g[f].car])
      BY <1>1, <3>1
    <3> QED
      BY <1>3, <2>2, <3>2
  <2> QED
    BY <2>1, <2>2
<1> QED
  BY <1>3, <1>5, <1>6, <1>7 DEF Lists, cs2, qs2

-----------------------------------------------------------------------------
(* What the operations make of one list.                                   *)

\* What a list and its driver's record say of each other.
ChainIs(h, c, q, n) ==
  /\ q \in Seq(Egg) /\ Once(q) /\ n \in Nat /\ 0 \notin Egg /\ 0 \in Egg0
  /\ c.ext = At(q, 1) /\ c.ent = At(q, n) /\ c.dep = n /\ c.ext \in Egg0 /\ c.ent \in Egg0
  /\ \A i \in 1 .. n : h[q[i]].nex = At(q, i + 1) /\ h[q[i]].pre = At(q, i - 1)

\* A chain's parts, with the types of its ends.
LEMMA ChainOf ==
  ASSUME NEW h, NEW c \in CarOK, NEW q, Chained(h, c, q), NEW n, n = Len(q)
  PROVE  ChainIs(h, c, q, n)
<1>1. c.ext \in Egg0 /\ c.ent \in Egg0
  BY DEF CarOK
<1>2. q \in Seq(Egg) /\ n \in Nat
  BY DEF Chained
<1>3. 0 \notin Egg /\ 0 \in Egg0
  BY AutoAssumption DEF Egg, Egg0
<1>4. /\ Once(q) /\ c.ext = At(q, 1) /\ c.ent = At(q, n) /\ c.dep = n
      /\ \A i \in 1 .. n : h[q[i]].nex = At(q, i + 1) /\ h[q[i]].pre = At(q, i - 1)
  BY DEF Chained
<1> QED
  BY <1>1, <1>2, <1>3, <1>4 DEF ChainIs

\* u3_auto_plan of a new ovum.
LEMMA PlanLinks ==
  ASSUME NEW h \in HeapOK, NEW c \in CarOK, NEW q, Chained(h, c, q), NEW e \in Egg, e \notin Range(q)
  PROVE  /\ PlanHeap(h, c, e) \in HeapOK /\ PlanCar(c, e) \in CarOK
         /\ Chained(PlanHeap(h, c, e), PlanCar(c, e), Append(q, e))
         /\ Range(Append(q, e)) = Range(q) \cup {e}
         /\ \A f \in Egg : SameLook(PlanHeap(h, c, e)[f], h[f])
         /\ \A f \in Egg \ ({e} \cup Range(q)) : /\ PlanHeap(h, c, e)[f].pre = h[f].pre
                                                 /\ PlanHeap(h, c, e)[f].nex = h[f].nex
<1>0. PICK n : n = Len(q)
  OBVIOUS
<1> DEFINE g1 == [h EXCEPT ![e].nex = 0]
           g2 == SetNex(g1, c.ent, e)
           g  == SetPre(g2, e, c.ent)
           q2 == Append(q, e)
<1>1. /\ q \in Seq(Egg) /\ Once(q) /\ n \in Nat /\ 0 \notin Egg /\ 0 \in Egg0 /\ e \in Egg0
      /\ c.ext = At(q, 1) /\ c.ent = At(q, n) /\ c.dep = n /\ c.ent \in Egg0
      /\ \A i \in 1 .. n : h[q[i]].nex = At(q, i + 1) /\ h[q[i]].pre = At(q, i - 1)
  <2>1. e \in Egg0
    BY DEF Egg0
  <2>2. /\ q \in Seq(Egg) /\ Once(q) /\ n \in Nat /\ 0 \notin Egg /\ 0 \in Egg0
        /\ c.ext = At(q, 1) /\ c.ent = At(q, n) /\ c.dep = n /\ c.ext \in Egg0 /\ c.ent \in Egg0
        /\ \A i \in 1 .. n : h[q[i]].nex = At(q, i + 1) /\ h[q[i]].pre = At(q, i - 1)
    <3>1. n = Len(q)
      BY <1>0
    <3>2. ChainIs(h, c, q, n)
      BY <3>1, ChainOf
    <3> QED
      BY <3>2 DEF ChainIs
  <2> QED
    BY <2>1, <2>2
<1>2. /\ g1 \in HeapOK
      /\ \A f \in Egg : /\ g1[f].nex = (IF f = e THEN 0 ELSE h[f].nex) /\ g1[f].pre = h[f].pre
                        /\ SameLook(g1[f], h[f])
  BY <1>1 DEF HeapOK, Ovum, Egg0, SameLook
<1> HIDE DEF g1
<1>3. /\ g2 \in HeapOK
      /\ \A f \in Egg : /\ g2[f].nex = (IF f = c.ent THEN e ELSE g1[f].nex)
                        /\ g2[f].pre = g1[f].pre /\ SameLook(g2[f], g1[f])
  BY <1>1, <1>2, SetNexIs
<1> HIDE DEF g2
<1>4. /\ g \in HeapOK
      /\ \A f \in Egg : /\ g[f].pre = (IF f = e THEN c.ent ELSE g2[f].pre)
                        /\ g[f].nex = g2[f].nex /\ SameLook(g[f], g2[f])
  BY <1>1, <1>3, SetPreIs
<1>5. g = PlanHeap(h, c, e)
  BY DEF PlanHeap, g1, g2
<1> HIDE DEF g
<1>6. /\ \A i \in 1 .. n : q[i] \in Egg /\ q[i] \in Range(q) /\ q[i] # e
      /\ \A f \in Range(q) : \E i \in 1 .. n : f = q[i]
  BY <1>0, <1>1, RangeOf
<1>7. c.ent # e /\ (n > 0 => c.ent = q[n]) /\ (n = 0 => c.ent = 0)
      /\ \A i \in 1 .. n : q[i] = c.ent => i = n
  BY <1>0, <1>1, <1>6, AtIs DEF Once
<1>8. \A f \in Egg : /\ SameLook(g[f], h[f])
                     /\ g[f].nex = (IF f = c.ent THEN e ELSE IF f = e THEN 0 ELSE h[f].nex)
                     /\ g[f].pre = (IF f = e THEN c.ent ELSE h[f].pre)
  BY <1>2, <1>3, <1>4 DEF SameLook
<1>9. /\ q2 \in Seq(Egg) /\ Len(q2) = n + 1 /\ q2[n + 1] = e
      /\ \A i \in 1 .. n : q2[i] = q[i]
  BY <1>0, <1>1
<1> HIDE DEF q2
<1>a. /\ At(q, 0) = 0 /\ At(q, n + 1) = 0 /\ \A i \in 1 .. n : At(q, i) = q[i]
      /\ At(q2, 0) = 0 /\ At(q2, n + 1) = e /\ At(q2, n + 2) = 0
      /\ \A i \in 1 .. n : At(q2, i) = q[i]
  <2>1. n + 1 \in 1 .. n + 1 /\ n + 1 + 1 = n + 2 /\ \A i \in 1 .. n : i \in 1 .. n + 1
    BY <1>1
  <2>2. /\ At(q2, 0) = 0 /\ At(q2, n + 1 + 1) = 0
        /\ \A i \in 1 .. n + 1 : At(q2, i) = q2[i]
    BY <1>9, AtIs
  <2> QED
    BY <1>0, <1>1, <1>9, <2>1, <2>2, AtIs
<1>10. Range(q2) = Range(q) \cup {e}
  <2>1. \A i \in 1 .. n + 1 : i \in 1 .. n \/ i = n + 1
    BY <1>1
  <2>2. DOMAIN q2 = 1 .. n + 1 /\ DOMAIN q = 1 .. n
    BY <1>0, <1>1, <1>9
  <2>3. n + 1 \in 1 .. n + 1 /\ \A i \in 1 .. n : i \in 1 .. n + 1
    BY <1>1
  <2> QED
    BY <1>9, <2>1, <2>2, <2>3 DEF Range
<1>11. Once(q2)
  <2>1. \A i \in 1 .. n + 1 : (i \in 1 .. n /\ q2[i] = q[i] /\ q[i] # e) \/ (i = n + 1 /\ q2[i] = e)
    BY <1>1, <1>6, <1>9
  <2>2. \A i, j \in 1 .. n : q[i] = q[j] => i = j
    BY <1>0, <1>1 DEF Once
  <2>3. \A i, j \in 1 .. n + 1 : q2[i] = q2[j] => i = j
    BY <2>1, <2>2
  <2> QED
    BY <1>9, <2>3 DEF Once
<1>12. \A i \in 1 .. n + 1 : g[q2[i]].nex = At(q2, i + 1) /\ g[q2[i]].pre = At(q2, i - 1)
  <2> TAKE i \in 1 .. n + 1
  <2>1. CASE i = n + 1
    <3>1. q2[i] = e /\ At(q2, i + 1) = 0 /\ At(q2, i - 1) = c.ent
      <4>1. n = 0 \/ n \in 1 .. n
        BY <1>1
      <4>2. i - 1 = n /\ i + 1 = n + 2
        BY <1>1, <2>1
      <4> QED
        BY <1>7, <1>9, <1>a, <2>1, <4>1, <4>2
    <3> QED
      BY <1>7, <1>8, <3>1
  <2>2. CASE i # n + 1
    <3>1. i \in 1 .. n /\ q2[i] = q[i] /\ q[i] \in Egg /\ q[i] # e
      BY <1>1, <1>6, <1>9, <2>2
    <3>2. At(q2, i - 1) = At(q, i - 1)
      <4>1. i - 1 = 0 \/ i - 1 \in 1 .. n
        BY <1>1, <3>1
      <4> QED
        BY <1>a, <4>1
    <3>3. At(q2, i + 1) = IF i = n THEN e ELSE At(q, i + 1)
      <4>1. i = n \/ i + 1 \in 1 .. n
        BY <1>1, <3>1
      <4> QED
        BY <1>a, <4>1
    <3>4. q[i] = c.ent <=> i = n
      BY <1>1, <1>7, <3>1
    <3> QED
      BY <1>1, <1>8, <3>1, <3>2, <3>3, <3>4
  <2> QED
    BY <2>1, <2>2
<1>13. /\ PlanCar(c, e) \in CarOK
       /\ PlanCar(c, e).ext = At(q2, 1) /\ PlanCar(c, e).ent = At(q2, n + 1)
       /\ PlanCar(c, e).dep = n + 1
  <2>1. CASE n = 0
    <3>1. PlanCar(c, e) = [ext |-> e, ent |-> e, dep |-> 1]
      BY <1>7, <2>1 DEF PlanCar
    <3> QED
      BY <1>1, <1>a, <2>1, <3>1 DEF CarOK
  <2>2. CASE n # 0
    <3>1. c.ent # 0 /\ c.ext = q2[1]
      <4>1. n > 0 /\ 1 \in 1 .. n /\ n \in 1 .. n
        BY <1>1, <2>2
      <4> QED
        <5>1. c.ent = q[n] /\ q[n] \in Egg
          BY <1>6, <1>7, <4>1
        <5>2. c.ext = At(q, 1) /\ At(q, 1) = q[1] /\ q2[1] = q[1]
          BY <1>1, <1>9, <1>a, <4>1
        <5> QED
          BY <1>1, <5>1, <5>2
    <3>2. PlanCar(c, e) = [c EXCEPT !.ent = e, !.dep = @ + 1]
      BY <3>1 DEF PlanCar
    <3> QED
      <4>1. At(q2, 1) = q2[1]
        BY <1>1, <1>9, <1>a, <2>2
      <4>2. c \in CarOK /\ c.ext \in Egg0 /\ n + 1 \in Nat
        BY <1>1 DEF CarOK
      <4> QED
        BY <1>1, <1>a, <3>1, <3>2, <4>1, <4>2 DEF CarOK
  <2> QED
    BY <2>1, <2>2
<1>14. \A f \in Egg \ ({e} \cup Range(q)) : f # c.ent /\ f # e
  BY <1>1, <1>6, <1>7
<1>15. \A f \in Egg \ ({e} \cup Range(q)) : g[f].pre = h[f].pre /\ g[f].nex = h[f].nex
  BY <1>8, <1>14
<1>16. Chained(g, PlanCar(c, e), q2)
  BY <1>1, <1>9, <1>11, <1>12, <1>13 DEF Chained
<1> QED
  BY <1>4, <1>5, <1>8, <1>10, <1>13, <1>15, <1>16 DEF q2

\* u3_auto_redo.
LEMMA RedoLinks ==
  ASSUME NEW h \in HeapOK, NEW c \in CarOK, NEW q, Chained(h, c, q), NEW e \in Egg, e \notin Range(q),
         h[e].try < MaxTry
  PROVE  /\ RedoHeap(h, c, e) \in HeapOK /\ RedoCar(c, e) \in CarOK
         /\ Chained(RedoHeap(h, c, e), RedoCar(c, e), <<e>> \o q)
         /\ Range(<<e>> \o q) = Range(q) \cup {e}
         /\ \A f \in Egg : /\ RedoHeap(h, c, e)[f].sat = h[f].sat
                           /\ RedoHeap(h, c, e)[f].car = h[f].car
                           /\ RedoHeap(h, c, e)[f].kind = h[f].kind
                           /\ RedoHeap(h, c, e)[f].try = IF f = e THEN h[f].try + 1 ELSE h[f].try
         /\ \A f \in Egg \ ({e} \cup Range(q)) : /\ RedoHeap(h, c, e)[f].pre = h[f].pre
                                                 /\ RedoHeap(h, c, e)[f].nex = h[f].nex
<1>0. PICK n : n = Len(q)
  OBVIOUS
<1> DEFINE g1 == [h EXCEPT ![e].pre = 0, ![e].try = @ + 1]
           g2 == SetPre(g1, c.ext, e)
           g  == SetNex(g2, e, c.ext)
           q2 == <<e>> \o q
<1>1. /\ q \in Seq(Egg) /\ Once(q) /\ n \in Nat /\ 0 \notin Egg /\ 0 \in Egg0 /\ e \in Egg0
      /\ c.ext = At(q, 1) /\ c.ent = At(q, n) /\ c.dep = n /\ c.ext \in Egg0 /\ c.ent \in Egg0
      /\ \A i \in 1 .. n : h[q[i]].nex = At(q, i + 1) /\ h[q[i]].pre = At(q, i - 1)
  <2>1. e \in Egg0
    BY DEF Egg0
  <2>2. /\ q \in Seq(Egg) /\ Once(q) /\ n \in Nat /\ 0 \notin Egg /\ 0 \in Egg0
        /\ c.ext = At(q, 1) /\ c.ent = At(q, n) /\ c.dep = n /\ c.ext \in Egg0 /\ c.ent \in Egg0
        /\ \A i \in 1 .. n : h[q[i]].nex = At(q, i + 1) /\ h[q[i]].pre = At(q, i - 1)
    <3>1. n = Len(q)
      BY <1>0
    <3>2. ChainIs(h, c, q, n)
      BY <3>1, ChainOf
    <3> QED
      BY <3>2 DEF ChainIs
  <2> QED
    BY <2>1, <2>2
<1>2. /\ g1 \in HeapOK
      /\ \A f \in Egg : /\ g1[f].pre = (IF f = e THEN 0 ELSE h[f].pre) /\ g1[f].nex = h[f].nex
                        /\ g1[f].sat = h[f].sat /\ g1[f].car = h[f].car /\ g1[f].kind = h[f].kind
                        /\ g1[f].try = (IF f = e THEN h[f].try + 1 ELSE h[f].try)
  <2> DEFINE r == [h[e] EXCEPT !.pre = 0, !.try = @ + 1]
  <2>1. h[e] \in Ovum /\ h[e].try \in 0 .. MaxTry /\ MaxTry \in Nat /\ h[e].try + 1 \in 0 .. MaxTry
    BY AutoAssumption DEF HeapOK, Ovum
  <2>2. /\ r \in Ovum /\ r.pre = 0 /\ r.try = h[e].try + 1 /\ r.nex = h[e].nex
        /\ r.sat = h[e].sat /\ r.car = h[e].car /\ r.kind = h[e].kind
    BY <2>1 DEF Ovum
  <2>3. g1 = [h EXCEPT ![e] = r]
    BY <2>1 DEF HeapOK, Ovum
  <2> HIDE DEF r, g1
  <2>4. \A f \in Egg : g1[f] = IF f = e THEN r ELSE h[f]
    BY <2>3 DEF HeapOK
  <2>5. g1 \in HeapOK
    BY <2>2, <2>3 DEF HeapOK
  <2> QED
    BY <2>2, <2>4, <2>5
<1> HIDE DEF g1
<1>3. /\ g2 \in HeapOK
      /\ \A f \in Egg : /\ g2[f].pre = (IF f = c.ext THEN e ELSE g1[f].pre)
                        /\ g2[f].nex = g1[f].nex /\ SameLook(g2[f], g1[f])
  BY <1>1, <1>2, SetPreIs
<1> HIDE DEF g2
<1>4. /\ g \in HeapOK
      /\ \A f \in Egg : /\ g[f].nex = (IF f = e THEN c.ext ELSE g2[f].nex)
                        /\ g[f].pre = g2[f].pre /\ SameLook(g[f], g2[f])
  BY <1>1, <1>3, SetNexIs
<1>5. g = RedoHeap(h, c, e)
  BY DEF RedoHeap, g1, g2
<1> HIDE DEF g
<1>6. /\ \A i \in 1 .. n : q[i] \in Egg /\ q[i] \in Range(q) /\ q[i] # e
      /\ \A f \in Range(q) : \E i \in 1 .. n : f = q[i]
  BY <1>0, <1>1, RangeOf
<1>7. c.ext # e /\ (n > 0 => c.ext = q[1] /\ c.ent = q[n]) /\ (n = 0 => c.ext = 0 /\ c.ent = 0)
      /\ \A i \in 1 .. n : q[i] = c.ext => i = 1
  BY <1>0, <1>1, <1>6, AtIs DEF Once
<1>8. \A f \in Egg : /\ g[f].sat = h[f].sat /\ g[f].car = h[f].car /\ g[f].kind = h[f].kind
                     /\ g[f].try = (IF f = e THEN h[f].try + 1 ELSE h[f].try)
                     /\ g[f].pre = (IF f = c.ext THEN e ELSE IF f = e THEN 0 ELSE h[f].pre)
                     /\ g[f].nex = (IF f = e THEN c.ext ELSE h[f].nex)
  BY <1>2, <1>3, <1>4 DEF SameLook
<1>9. /\ q2 \in Seq(Egg) /\ Len(q2) = n + 1 /\ q2[1] = e
      /\ \A i \in 1 .. n : q2[i + 1] = q[i]
  <2>1. <<e>> \in Seq(Egg) /\ Len(<<e>>) = 1 /\ <<e>>[1] = e
    OBVIOUS
  <2> QED
    BY <1>0, <1>1, <2>1
<1> HIDE DEF q2
<1>10. /\ At(q, 0) = 0 /\ At(q, n + 1) = 0 /\ \A i \in 1 .. n : At(q, i) = q[i]
       /\ At(q2, 0) = 0 /\ At(q2, 1) = e /\ At(q2, n + 2) = 0
       /\ \A i \in 1 .. n : At(q2, i + 1) = q[i]
  <2>1. 1 \in 1 .. n + 1 /\ n + 1 + 1 = n + 2 /\ \A i \in 1 .. n : i + 1 \in 1 .. n + 1
    BY <1>1
  <2>2. /\ At(q2, 0) = 0 /\ At(q2, n + 1 + 1) = 0
        /\ \A i \in 1 .. n + 1 : At(q2, i) = q2[i]
    BY <1>9, AtIs
  <2> QED
    BY <1>0, <1>1, <1>9, <2>1, <2>2, AtIs
<1>11. \A i \in 1 .. n + 1 : (i = 1 /\ q2[i] = e)
                              \/ (i - 1 \in 1 .. n /\ q2[i] = q[i - 1] /\ q[i - 1] # e)
  <2> TAKE i \in 1 .. n + 1
  <2>1. i = 1 \/ (i - 1 \in 1 .. n /\ i - 1 + 1 = i)
    BY <1>1
  <2>2. CASE i = 1
    BY <1>9, <2>2
  <2>3. CASE i - 1 \in 1 .. n /\ i - 1 + 1 = i
    <3>1. q2[i - 1 + 1] = q[i - 1] /\ q[i - 1] # e
      BY <1>6, <1>9, <2>3
    <3> QED
      BY <2>3, <3>1
  <2> QED
    BY <2>1, <2>2, <2>3
<1>12. Range(q2) = Range(q) \cup {e}
  <2>1. DOMAIN q2 = 1 .. n + 1 /\ DOMAIN q = 1 .. n
    BY <1>0, <1>1, <1>9
  <2>2. 1 \in 1 .. n + 1 /\ \A i \in 1 .. n : i + 1 \in 1 .. n + 1
    BY <1>1
  <2> QED
    <3>1. ASSUME NEW f \in Range(q2) PROVE f \in Range(q) \cup {e}
      <4>1. PICK i \in 1 .. n + 1 : f = q2[i]
        BY <2>1 DEF Range
      <4> QED
        BY <1>6, <1>11, <4>1
    <3>2. ASSUME NEW f \in Range(q) PROVE f \in Range(q2)
      <4>1. PICK i \in 1 .. n : f = q[i]
        BY <1>6
      <4>2. f = q2[i + 1] /\ i + 1 \in DOMAIN q2
        BY <1>9, <2>1, <2>2, <4>1
      <4> QED
        BY <4>2 DEF Range
    <3>3. e \in Range(q2)
      BY <1>9, <2>1, <2>2 DEF Range
    <3> QED
      BY <3>1, <3>2, <3>3
<1>13. Once(q2)
  <2>1. \A i, j \in 1 .. n : q[i] = q[j] => i = j
    BY <1>0, <1>1 DEF Once
  <2>2. \A i, j \in 1 .. n + 1 : q2[i] = q2[j] => i = j
    <3> TAKE i, j \in 1 .. n + 1
    <3>1. (i - 1 \in 1 .. n /\ j - 1 \in 1 .. n /\ q[i - 1] = q[j - 1]) => i - 1 = j - 1
      BY <2>1
    <3> QED
      BY <1>11, <3>1
  <2> QED
    BY <1>9, <2>2 DEF Once
<1>14. \A i \in 1 .. n + 1 : g[q2[i]].nex = At(q2, i + 1) /\ g[q2[i]].pre = At(q2, i - 1)
  <2> TAKE i \in 1 .. n + 1
  <2>1. CASE i = 1
    <3>1. At(q2, i + 1) = c.ext
      <4>1. (n = 0 /\ i + 1 = n + 2) \/ (n > 0 /\ 1 \in 1 .. n /\ i + 1 = 1 + 1)
        BY <1>1, <2>1
      <4> QED
        BY <1>7, <1>10, <4>1
    <3>2. q2[i] = e /\ At(q2, i - 1) = 0
      BY <1>9, <1>10, <2>1
    <3> QED
      BY <1>7, <1>8, <3>1, <3>2
  <2>2. CASE i # 1
    <3>1. i - 1 \in 1 .. n /\ q2[i] = q[i - 1] /\ q[i - 1] \in Egg /\ q[i - 1] # e
      BY <1>6, <1>11, <2>2
    <3>2. At(q2, i + 1) = At(q, i)
      <4>1. (i = n + 1 /\ i + 1 = n + 2) \/ i \in 1 .. n
        BY <1>1, <3>1
      <4> QED
        BY <1>10, <4>1
    <3>3. At(q2, i - 1) = IF i - 1 = 1 THEN e ELSE At(q, i - 2)
      <4>1. i - 1 = 1 \/ (i - 2 \in 1 .. n /\ i - 2 + 1 = i - 1)
        BY <1>1, <3>1
      <4>2. i - 2 \in 1 .. n => At(q2, i - 2 + 1) = q[i - 2] /\ At(q, i - 2) = q[i - 2]
        BY <1>10
      <4>3. i - 1 = 1 \/ i - 1 # 1
        OBVIOUS
      <4> QED
        BY <1>1, <1>10, <4>1, <4>2
    <3>4. (q[i - 1] = c.ext) <=> (i - 1 = 1)
      <4>1. n > 0
        BY <1>1, <3>1
      <4> QED
        BY <1>7, <3>1, <4>1
    <3>5. h[q[i - 1]].nex = At(q, i) /\ h[q[i - 1]].pre = At(q, i - 2)
      <4>1. i - 1 + 1 = i /\ i - 1 - 1 = i - 2
        BY <1>1
      <4> QED
        BY <1>1, <3>1, <4>1
    <3> QED
      BY <1>8, <3>1, <3>2, <3>3, <3>4, <3>5
  <2> QED
    BY <2>1, <2>2
<1>15. /\ RedoCar(c, e) \in CarOK
       /\ RedoCar(c, e).ext = At(q2, 1) /\ RedoCar(c, e).ent = At(q2, n + 1)
       /\ RedoCar(c, e).dep = n + 1
  <2>1. CASE n = 0
    <3>1. RedoCar(c, e) = [ext |-> e, ent |-> e, dep |-> 1]
      BY <1>7, <2>1 DEF RedoCar
    <3> QED
      BY <1>1, <1>10, <2>1, <3>1 DEF CarOK
  <2>2. CASE n # 0
    <3>1. n > 0 /\ n \in 1 .. n
      BY <1>1, <2>2
    <3>2. c.ent # 0 /\ c.ent = At(q2, n + 1)
      BY <1>1, <1>6, <1>7, <1>10, <3>1
    <3>3. RedoCar(c, e) = [c EXCEPT !.ext = e, !.dep = @ + 1]
      BY <3>2 DEF RedoCar
    <3>4. c \in CarOK /\ c.ent \in Egg0 /\ n + 1 \in Nat
      BY <1>1 DEF CarOK
    <3> QED
      BY <1>1, <1>10, <3>2, <3>3, <3>4 DEF CarOK
  <2> QED
    BY <2>1, <2>2
<1>16. \A f \in Egg \ ({e} \cup Range(q)) : f # c.ext /\ f # e
  <2> TAKE f \in Egg \ ({e} \cup Range(q))
  <2>1. n = 0 \/ (n > 0 /\ 1 \in 1 .. n)
    BY <1>1
  <2> QED
    BY <1>1, <1>6, <1>7, <2>1
<1>17. \A f \in Egg \ ({e} \cup Range(q)) : g[f].pre = h[f].pre /\ g[f].nex = h[f].nex
  BY <1>8, <1>16
<1>18. Chained(g, RedoCar(c, e), q2)
  BY <1>1, <1>9, <1>13, <1>14, <1>15 DEF Chained
<1> QED
  BY <1>4, <1>5, <1>8, <1>12, <1>15, <1>17, <1>18 DEF q2

\* u3_auto_drop of the k-th of a list.
LEMMA DropLinks ==
  ASSUME NEW h \in HeapOK, NEW c \in CarOK, NEW q, Chained(h, c, q), NEW k \in 1 .. Len(q)
  PROVE  /\ q[k] \in Egg
         /\ DropHeap(h, q[k]) \in HeapOK /\ DropCar(h, c, q[k]) \in CarOK
         /\ Chained(DropHeap(h, q[k]), DropCar(h, c, q[k]), RemoveAt(q, k))
         /\ Range(RemoveAt(q, k)) = Range(q) \ {q[k]}
         /\ DropHeap(h, q[k])[q[k]] = Free
         /\ \A f \in Egg \ {q[k]} : SameLook(DropHeap(h, q[k])[f], h[f])
         /\ \A f \in Egg \ Range(q) : /\ DropHeap(h, q[k])[f].pre = h[f].pre
                                      /\ DropHeap(h, q[k])[f].nex = h[f].nex
<1>0. PICK n, e, p, x : n = Len(q) /\ e = q[k] /\ p = h[e].pre /\ x = h[e].nex
  OBVIOUS
<1> DEFINE g1 == SetNex(h, p, x)
           g2 == SetPre(g1, x, p)
           g  == [g2 EXCEPT ![e] = Free]
           q2 == RemoveAt(q, k)
<1>1. /\ q \in Seq(Egg) /\ Once(q) /\ n \in Nat /\ 0 \notin Egg /\ 0 \in Egg0
      /\ c.ext = At(q, 1) /\ c.ent = At(q, n) /\ c.dep = n /\ c.ext \in Egg0 /\ c.ent \in Egg0
      /\ \A i \in 1 .. n : h[q[i]].nex = At(q, i + 1) /\ h[q[i]].pre = At(q, i - 1)
      /\ k \in 1 .. n /\ n - 1 \in Nat
  <2>1. k \in 1 .. n /\ n \in Nat
    BY <1>0, ChainOf DEF ChainIs
  <2>2. n - 1 \in Nat
    BY <2>1
  <2>3. /\ q \in Seq(Egg) /\ Once(q) /\ n \in Nat /\ 0 \notin Egg /\ 0 \in Egg0
        /\ c.ext = At(q, 1) /\ c.ent = At(q, n) /\ c.dep = n /\ c.ext \in Egg0 /\ c.ent \in Egg0
        /\ \A i \in 1 .. n : h[q[i]].nex = At(q, i + 1) /\ h[q[i]].pre = At(q, i - 1)
    <3>1. n = Len(q)
      BY <1>0
    <3>2. ChainIs(h, c, q, n)
      BY <3>1, ChainOf
    <3> QED
      BY <3>2 DEF ChainIs
  <2> QED
    BY <2>1, <2>2, <2>3
<1>2. /\ \A i \in 1 .. n : q[i] \in Egg /\ q[i] \in Range(q) /\ At(q, i) = q[i] /\ At(q, i) # 0
      /\ \A f \in Range(q) : f \in Egg /\ \E i \in 1 .. n : f = q[i]
      /\ At(q, 0) = 0 /\ At(q, n + 1) = 0
      /\ \A i, j \in 1 .. n : q[i] = q[j] => i = j
  BY <1>0, <1>1, RangeOf, AtIs DEF Once
<1>3. e \in Egg /\ p = At(q, k - 1) /\ x = At(q, k + 1) /\ p \in Egg0 /\ x \in Egg0
  BY <1>0, <1>1, <1>2 DEF HeapOK, Ovum, Egg0
<1>4. /\ p = 0 <=> k = 1
      /\ x = 0 <=> k = n
      /\ p # 0 => p = q[k - 1] /\ k - 1 \in 1 .. n
      /\ x # 0 => x = q[k + 1] /\ k + 1 \in 1 .. n
  <2>1. (k = 1 /\ k - 1 = 0) \/ (k # 1 /\ k - 1 \in 1 .. n)
    BY <1>1
  <2>2. (k = n /\ k + 1 = n + 1) \/ (k # n /\ k + 1 \in 1 .. n)
    BY <1>1
  <2> QED
    BY <1>2, <1>3, <2>1, <2>2
<1>5. p # e /\ x # e
  <2>1. k - 1 # k /\ k + 1 # k /\ k \in 1 .. n
    BY <1>1
  <2> QED
    BY <1>0, <1>1, <1>2, <1>3, <1>4, <2>1
<1>6. /\ g1 \in HeapOK
      /\ \A f \in Egg : /\ g1[f].nex = (IF f = p THEN x ELSE h[f].nex) /\ g1[f].pre = h[f].pre
                        /\ SameLook(g1[f], h[f])
  <2>1. p \in Egg0 /\ x \in Egg0
    BY <1>3
  <2>2. g1 \in HeapOK
    BY <2>1, SetNexIs
  <2>3. \A f \in Egg : g1[f].nex = (IF f = p THEN x ELSE h[f].nex)
    BY <2>1, SetNexIs
  <2>4. \A f \in Egg : g1[f].pre = h[f].pre
    BY <2>1, SetNexIs
  <2>5. \A f \in Egg : SameLook(g1[f], h[f])
    BY <2>1, SetNexIs
  <2> HIDE DEF g1
  <2> QED
    BY <2>2, <2>3, <2>4, <2>5
<1> HIDE DEF g1
<1>7. /\ g2 \in HeapOK
      /\ \A f \in Egg : /\ g2[f].pre = (IF f = x THEN p ELSE g1[f].pre) /\ g2[f].nex = g1[f].nex
                        /\ SameLook(g2[f], g1[f])
  <2>1. p \in Egg0 /\ x \in Egg0 /\ g1 \in HeapOK
    BY <1>3, <1>6
  <2>2. g2 \in HeapOK
    BY <2>1, SetPreIs
  <2>3. \A f \in Egg : g2[f].pre = (IF f = x THEN p ELSE g1[f].pre)
    BY <2>1, SetPreIs
  <2>4. \A f \in Egg : g2[f].nex = g1[f].nex
    BY <2>1, SetPreIs
  <2>5. \A f \in Egg : SameLook(g2[f], g1[f])
    BY <2>1, SetPreIs
  <2> HIDE DEF g2
  <2> QED
    BY <2>2, <2>3, <2>4, <2>5
<1> HIDE DEF g2
<1>8. g \in HeapOK /\ g[e] = Free /\ \A f \in Egg \ {e} : g[f] = g2[f]
  <2>1. Free \in Ovum
    BY AutoAssumption DEF Free, Ovum
  <2> QED
    BY <1>3, <1>7, <2>1 DEF HeapOK
<1>9. g = DropHeap(h, e)
  BY <1>0 DEF DropHeap, g1, g2
<1> HIDE DEF g
<1>10. \A f \in Egg \ {e} : /\ SameLook(g[f], h[f])
                            /\ g[f].nex = (IF f = p THEN x ELSE h[f].nex)
                            /\ g[f].pre = (IF f = x THEN p ELSE h[f].pre)
  BY <1>6, <1>7, <1>8 DEF SameLook
<1>11. /\ q2 \in Seq(Egg) /\ Len(q2) = n - 1
       /\ \A i \in 1 .. n - 1 : q2[i] = q[IF i < k THEN i ELSE i + 1]
  <2>1. q2 \in Seq(Egg) /\ DOMAIN q2 = 1 .. n - 1
    BY <1>0, <1>1, RemoveAtFacts
  <2>2. \A i \in 1 .. n - 1 : q2[i] = q[IF i < k THEN i ELSE i + 1]
    BY <1>0, <1>1, RemoveAtFacts
  <2> HIDE DEF q2
  <2>3. Len(q2) = n - 1
    <3>1. DOMAIN q2 = 1 .. Len(q2) /\ Len(q2) \in Nat
      BY <2>1
    <3> QED
      BY <1>1, <2>1, <3>1
  <2> QED
    BY <2>1, <2>2, <2>3
<1> HIDE DEF q2
<1>12. \A i \in 0 .. n : At(q2, i) = At(q, IF i < k THEN i ELSE i + 1)
  <2>1. At(q2, 0) = 0 /\ At(q2, n) = 0 /\ \A i \in 1 .. n - 1 : At(q2, i) = q2[i]
    <3>1. n - 1 + 1 = n
      BY <1>1
    <3> QED
      BY <1>11, <3>1, AtIs
  <2> TAKE i \in 0 .. n
  <2>2. CASE i = 0
    <3>1. i < k
      BY <1>1, <2>2
    <3> QED
      BY <1>2, <2>1, <2>2, <3>1
  <2>3. CASE i = n
    <3>1. ~(i < k)
      BY <1>1, <2>3
    <3> QED
      BY <1>2, <2>1, <2>3, <3>1
  <2>4. CASE i # 0 /\ i # n
    <3>1. i \in 1 .. n - 1 /\ i \in 1 .. n /\ i + 1 \in 1 .. n
      BY <1>1, <2>4
    <3> QED
      BY <1>2, <1>11, <2>1, <3>1
  <2> QED
    BY <2>2, <2>3, <2>4
<1>13. \A i \in 1 .. n - 1 : \E j \in 1 .. n : /\ j = (IF i < k THEN i ELSE i + 1)
                                              /\ j # k /\ q2[i] = q[j] /\ q[j] \in Egg /\ q[j] # e
  <2> TAKE i \in 1 .. n - 1
  <2>1. PICK j : j = IF i < k THEN i ELSE i + 1
    OBVIOUS
  <2>2. j \in 1 .. n /\ j # k
    BY <1>1, <2>1
  <2>3. q2[i] = q[j] /\ q[j] \in Egg /\ q[j] # e
    BY <1>0, <1>1, <1>2, <1>11, <2>1, <2>2
  <2> QED
    BY <2>1, <2>2, <2>3
<1>14. Range(q2) = Range(q) \ {e}
  <2>1. DOMAIN q2 = 1 .. n - 1
    BY <1>11
  <2>2. ASSUME NEW f \in Range(q2) PROVE f \in Range(q) \ {e}
    <3>1. PICK i \in 1 .. n - 1 : f = q2[i]
      BY <2>1 DEF Range
    <3> QED
      BY <1>2, <1>13, <3>1
  <2>3. ASSUME NEW f \in Range(q), f # e PROVE f \in Range(q2)
    <3>1. PICK j \in 1 .. n : f = q[j]
      BY <1>2
    <3>2. j # k
      BY <1>0, <2>3, <3>1
    <3>3. PICK i : i = IF j < k THEN j ELSE j - 1
      OBVIOUS
    <3>4. i \in 1 .. n - 1 /\ j = (IF i < k THEN i ELSE i + 1)
      BY <1>1, <3>2, <3>3
    <3>5. f = q2[i]
      BY <1>11, <3>1, <3>4
    <3> QED
      BY <2>1, <3>4, <3>5 DEF Range
  <2> QED
    BY <2>2, <2>3
<1>15. Once(q2)
  <2>1. \A i, j \in 1 .. n - 1 : q2[i] = q2[j] => i = j
    <3> TAKE i, j \in 1 .. n - 1
    <3>1. PICK a \in 1 .. n : a = (IF i < k THEN i ELSE i + 1) /\ q2[i] = q[a] /\ a # k
      BY <1>13
    <3>2. PICK b \in 1 .. n : b = (IF j < k THEN j ELSE j + 1) /\ q2[j] = q[b] /\ b # k
      BY <1>13
    <3>3. a = b => i = j
      <4>1. i \in Nat /\ j \in Nat /\ k \in Nat
        BY <1>1
      <4>2. \A u, v, m \in Nat :
              (IF u < m THEN u ELSE u + 1) = (IF v < m THEN v ELSE v + 1) => u = v
        OBVIOUS
      <4> QED
        BY <3>1, <3>2, <4>1, <4>2
    <3> QED
      BY <1>2, <3>1, <3>2, <3>3
  <2> QED
    BY <1>11, <2>1 DEF Once
<1>16. \A i \in 1 .. n - 1 : g[q2[i]].nex = At(q2, i + 1) /\ g[q2[i]].pre = At(q2, i - 1)
  <2> TAKE i \in 1 .. n - 1
  <2>1. PICK j \in 1 .. n : /\ j = (IF i < k THEN i ELSE i + 1)
                            /\ j # k /\ q2[i] = q[j] /\ q[j] \in Egg /\ q[j] # e
    BY <1>13
  <2>2. i + 1 \in 0 .. n /\ i - 1 \in 0 .. n
    BY <1>1
  <2>3. h[q[j]].nex = At(q, j + 1) /\ h[q[j]].pre = At(q, j - 1)
    BY <1>1
  <2>4. (q[j] = p) <=> (j = k - 1)
    BY <1>2, <1>3, <1>4, <2>1
  <2>5. (q[j] = x) <=> (j = k + 1)
    BY <1>2, <1>3, <1>4, <2>1
  <2>6. g[q[j]].nex = At(q2, i + 1)
    <3>1. CASE j = k - 1
      <4>1. i = k - 1 /\ ~(i + 1 < k) /\ i + 1 + 1 = k + 1
        BY <1>1, <2>1, <3>1
      <4>2. At(q2, i + 1) = x
        BY <1>3, <1>12, <2>2, <4>1
      <4> QED
        BY <1>10, <2>1, <2>4, <3>1, <4>2
    <3>2. CASE j # k - 1
      <4>1. j + 1 = IF i + 1 < k THEN i + 1 ELSE i + 1 + 1
        BY <1>1, <2>1, <3>2
      <4>2. At(q2, i + 1) = At(q, j + 1)
        BY <1>12, <2>2, <4>1
      <4> QED
        BY <1>10, <2>1, <2>3, <2>4, <3>2, <4>2
    <3> QED
      BY <3>1, <3>2
  <2>7. g[q[j]].pre = At(q2, i - 1)
    <3>1. CASE j = k + 1
      <4>1. i = k /\ i - 1 < k /\ i - 1 = k - 1
        BY <1>1, <2>1, <3>1
      <4>2. At(q2, i - 1) = p
        BY <1>3, <1>12, <2>2, <4>1
      <4> QED
        BY <1>10, <2>1, <2>5, <3>1, <4>2
    <3>2. CASE j # k + 1
      <4>1. j - 1 = IF i - 1 < k THEN i - 1 ELSE i - 1 + 1
        BY <1>1, <2>1, <3>2
      <4>2. At(q2, i - 1) = At(q, j - 1)
        BY <1>12, <2>2, <4>1
      <4> QED
        BY <1>10, <2>1, <2>3, <2>5, <3>2, <4>2
    <3> QED
      BY <3>1, <3>2
  <2> QED
    BY <2>1, <2>6, <2>7
<1>17. /\ DropCar(h, c, e) \in CarOK
       /\ DropCar(h, c, e).ext = At(q2, 1) /\ DropCar(h, c, e).ent = At(q2, n - 1)
       /\ DropCar(h, c, e).dep = n - 1
  <2>1. DropCar(h, c, e) = [ext |-> IF p = 0 THEN x ELSE c.ext,
                            ent |-> IF x = 0 THEN p ELSE c.ent, dep |-> n - 1]
    BY <1>0, <1>1 DEF DropCar
  <2>2. At(q2, 1) = IF p = 0 THEN x ELSE c.ext
    <3>1. (k = 1 /\ ~(1 < k) /\ k + 1 = 1 + 1) \/ (k # 1 /\ 1 < k)
      BY <1>1
    <3>2. 1 \in 0 .. n
      BY <1>1
    <3>3. At(q2, 1) = At(q, IF 1 < k THEN 1 ELSE 1 + 1)
      BY <1>12, <3>2
    <3> QED
      BY <1>1, <1>3, <1>4, <3>1, <3>3
  <2>3. At(q2, n - 1) = IF x = 0 THEN p ELSE c.ent
    <3>1. (k = n /\ n - 1 < k /\ k - 1 = n - 1) \/ (k # n /\ ~(n - 1 < k) /\ n - 1 + 1 = n)
      BY <1>1
    <3>2. n - 1 \in 0 .. n
      BY <1>1
    <3>3. At(q2, n - 1) = At(q, IF n - 1 < k THEN n - 1 ELSE n - 1 + 1)
      BY <1>12, <3>2
    <3> QED
      BY <1>1, <1>3, <1>4, <3>1, <3>3
  <2> QED
    BY <1>1, <1>3, <2>1, <2>2, <2>3 DEF CarOK
<1>18. \A f \in Egg \ Range(q) : g[f].pre = h[f].pre /\ g[f].nex = h[f].nex
  <2> TAKE f \in Egg \ Range(q)
  <2>1. f # e /\ f # p /\ f # x
    BY <1>0, <1>1, <1>2, <1>4
  <2> QED
    BY <1>10, <2>1
<1>19. Chained(g, DropCar(h, c, e), q2)
  BY <1>11, <1>15, <1>16, <1>17 DEF Chained
<1> QED
  BY <1>0, <1>3, <1>8, <1>9, <1>10, <1>14, <1>17, <1>18, <1>19 DEF q2

\* u3_auto_next at the exit of a list.
LEMMA NextLinks ==
  ASSUME NEW h \in HeapOK, NEW c \in CarOK, NEW q, Chained(h, c, q), c.ext # 0
  PROVE  /\ q # <<>> /\ c.ext \in Egg /\ c.ext = q[1] /\ c.ext \in Range(q)
         /\ NextHeap(h, c.ext) \in HeapOK /\ NextCar(h, c, c.ext) \in CarOK
         /\ Chained(NextHeap(h, c.ext), NextCar(h, c, c.ext), Tail(q))
         /\ Range(Tail(q)) = Range(q) \ {c.ext}
         /\ NextHeap(h, c.ext)[c.ext].sat = "work"
         /\ \A f \in Egg : /\ f # c.ext => NextHeap(h, c.ext)[f].sat = h[f].sat
                           /\ NextHeap(h, c.ext)[f].car = h[f].car
                           /\ NextHeap(h, c.ext)[f].kind = h[f].kind
                           /\ NextHeap(h, c.ext)[f].try = h[f].try
         /\ \A f \in Egg \ Range(q) : /\ NextHeap(h, c.ext)[f].pre = h[f].pre
                                      /\ NextHeap(h, c.ext)[f].nex = h[f].nex
<1>0. PICK n, e, x : n = Len(q) /\ e = c.ext /\ x = h[e].nex
  OBVIOUS
<1> DEFINE g1 == SetPre(h, x, 0)
           g  == [g1 EXCEPT ![e].nex = 0, ![e].sat = "work"]
           q2 == Tail(q)
<1>1. /\ q \in Seq(Egg) /\ Once(q) /\ n \in Nat /\ 0 \notin Egg /\ 0 \in Egg0
      /\ c.ext = At(q, 1) /\ c.ent = At(q, n) /\ c.dep = n /\ c.ext \in Egg0 /\ c.ent \in Egg0
      /\ \A i \in 1 .. n : h[q[i]].nex = At(q, i + 1) /\ h[q[i]].pre = At(q, i - 1)
  <2>1. /\ q \in Seq(Egg) /\ Once(q) /\ n \in Nat /\ 0 \notin Egg /\ 0 \in Egg0
        /\ c.ext = At(q, 1) /\ c.ent = At(q, n) /\ c.dep = n /\ c.ext \in Egg0 /\ c.ent \in Egg0
        /\ \A i \in 1 .. n : h[q[i]].nex = At(q, i + 1) /\ h[q[i]].pre = At(q, i - 1)
    <3>1. n = Len(q)
      BY <1>0
    <3>2. ChainIs(h, c, q, n)
      BY <3>1, ChainOf
    <3> QED
      BY <3>2 DEF ChainIs
  <2> QED
    BY <2>1
<1>2. /\ \A i \in 1 .. n : q[i] \in Egg /\ q[i] \in Range(q) /\ At(q, i) = q[i] /\ At(q, i) # 0
      /\ \A f \in Range(q) : f \in Egg /\ \E i \in 1 .. n : f = q[i]
      /\ At(q, 0) = 0 /\ At(q, n + 1) = 0
      /\ \A i, j \in 1 .. n : q[i] = q[j] => i = j
  BY <1>0, <1>1, RangeOf, AtIs DEF Once
<1>3. 1 \in 1 .. n /\ n - 1 \in Nat /\ q # <<>>
  <2>1. n # 0
    BY <1>1, <1>2
  <2> QED
    BY <1>0, <1>1, <2>1
<1>4. e \in Egg /\ e = q[1] /\ e \in Range(q) /\ x = At(q, 2) /\ x \in Egg0
  <2>1. e = q[1]
    BY <1>0, <1>1, <1>2, <1>3
  <2> QED
    BY <1>0, <1>1, <1>2, <1>3, <2>1 DEF HeapOK, Ovum, Egg0
<1>5. /\ (x = 0 /\ n = 1) \/ (x # 0 /\ n # 1)
      /\ x # 0 => x = q[2] /\ 2 \in 1 .. n
      /\ x # e
  <2>1. (n = 1 /\ 2 = n + 1) \/ (n # 1 /\ 2 \in 1 .. n /\ 2 # 1)
    BY <1>1, <1>3
  <2> QED
    BY <1>1, <1>2, <1>3, <1>4, <2>1
<1>6. /\ g1 \in HeapOK
      /\ \A f \in Egg : g1[f].pre = (IF f = x THEN 0 ELSE h[f].pre)
      /\ \A f \in Egg : g1[f].nex = h[f].nex
      /\ \A f \in Egg : SameLook(g1[f], h[f])
  <2>1. x \in Egg0 /\ 0 \in Egg0
    BY <1>1, <1>4
  <2>2. g1 \in HeapOK
    BY <2>1, SetPreIs
  <2>3. \A f \in Egg : g1[f].pre = (IF f = x THEN 0 ELSE h[f].pre)
    BY <2>1, SetPreIs
  <2>4. \A f \in Egg : g1[f].nex = h[f].nex
    BY <2>1, SetPreIs
  <2>5. \A f \in Egg : SameLook(g1[f], h[f])
    BY <2>1, SetPreIs
  <2> HIDE DEF g1
  <2> QED
    BY <2>2, <2>3, <2>4, <2>5
<1> HIDE DEF g1
<1>7. /\ g \in HeapOK /\ \A f \in Egg \ {e} : g[f] = g1[f]
      /\ g[e].nex = 0 /\ g[e].sat = "work" /\ g[e].pre = g1[e].pre
      /\ g[e].car = g1[e].car /\ g[e].kind = g1[e].kind /\ g[e].try = g1[e].try
  <2> DEFINE r == [g1[e] EXCEPT !.nex = 0, !.sat = "work"]
  <2>1. g1[e] \in Ovum
    BY <1>4, <1>6 DEF HeapOK
  <2>2. /\ r \in Ovum /\ r.nex = 0 /\ r.sat = "work" /\ r.pre = g1[e].pre
        /\ r.car = g1[e].car /\ r.kind = g1[e].kind /\ r.try = g1[e].try
    BY <2>1 DEF Ovum
  <2>3. g = [g1 EXCEPT ![e] = r]
    BY <1>4, <1>6, <2>1 DEF HeapOK, Ovum
  <2> HIDE DEF r, g
  <2>4. \A f \in Egg : g[f] = IF f = e THEN r ELSE g1[f]
    BY <1>6, <2>3 DEF HeapOK
  <2>5. g \in HeapOK
    BY <1>6, <2>2, <2>3 DEF HeapOK
  <2> QED
    BY <1>4, <2>2, <2>4, <2>5
<1>8. g = NextHeap(h, e)
  BY <1>0 DEF NextHeap, g1
<1> HIDE DEF g
<1>9. \A f \in Egg : /\ g[f].nex = (IF f = e THEN 0 ELSE h[f].nex)
                     /\ g[f].pre = (IF f = x THEN 0 ELSE h[f].pre)
                     /\ f # e => g[f].sat = h[f].sat
                     /\ g[f].car = h[f].car /\ g[f].kind = h[f].kind /\ g[f].try = h[f].try
  <2> TAKE f \in Egg
  <2>1. CASE f = e
    BY <1>4, <1>6, <1>7, <2>1 DEF SameLook
  <2>2. CASE f # e
    BY <1>6, <1>7, <2>2 DEF SameLook
  <2> QED
    BY <2>1, <2>2
<1>10. q2 \in Seq(Egg) /\ Len(q2) = n - 1 /\ \A i \in 1 .. n - 1 : q2[i] = q[i + 1]
  BY <1>0, <1>1, <1>3
<1> HIDE DEF q2
<1>11. \A i \in 1 .. n - 1 : i + 1 \in 1 .. n /\ i + 1 # 1 /\ q2[i] = q[i + 1] /\ q2[i] # e
  <2> TAKE i \in 1 .. n - 1
  <2>1. i + 1 \in 1 .. n /\ i + 1 # 1
    BY <1>1
  <2> QED
    BY <1>2, <1>3, <1>4, <1>10, <2>1
<1>12. At(q2, 0) = 0 /\ \A i \in 1 .. n : At(q2, i) = At(q, i + 1)
  <2>1. At(q2, 0) = 0 /\ At(q2, n) = 0 /\ \A i \in 1 .. n - 1 : At(q2, i) = q2[i]
    <3>1. n - 1 + 1 = n
      BY <1>1
    <3> QED
      BY <1>10, <3>1, AtIs
  <2>2. ASSUME NEW i \in 1 .. n PROVE At(q2, i) = At(q, i + 1)
    <3>1. i = n \/ i \in 1 .. n - 1
      BY <1>1
    <3> QED
      BY <1>2, <1>11, <2>1, <3>1
  <2> QED
    BY <2>1, <2>2
<1>13. Range(q2) = Range(q) \ {e}
  <2>1. DOMAIN q2 = 1 .. n - 1
    BY <1>10
  <2>2. ASSUME NEW f \in Range(q2) PROVE f \in Range(q) \ {e}
    <3>1. PICK i \in 1 .. n - 1 : f = q2[i]
      BY <2>1 DEF Range
    <3> QED
      BY <1>2, <1>11, <3>1
  <2>3. ASSUME NEW f \in Range(q), f # e PROVE f \in Range(q2)
    <3>1. PICK j \in 1 .. n : f = q[j]
      BY <1>2
    <3>2. j # 1
      BY <1>4, <2>3, <3>1
    <3>3. j - 1 \in 1 .. n - 1 /\ j - 1 + 1 = j
      BY <1>1, <3>2
    <3>4. f = q2[j - 1]
      BY <1>10, <3>1, <3>3
    <3> QED
      BY <2>1, <3>3, <3>4 DEF Range
  <2> QED
    BY <2>2, <2>3
<1>14. Once(q2)
  <2>1. \A i, j \in 1 .. n - 1 : q2[i] = q2[j] => i = j
    <3> TAKE i, j \in 1 .. n - 1
    <3>1. i + 1 = j + 1 => i = j
      OBVIOUS
    <3> QED
      BY <1>2, <1>11, <3>1
  <2> QED
    BY <1>10, <2>1 DEF Once
<1>15. \A i \in 1 .. n - 1 : g[q2[i]].nex = At(q2, i + 1) /\ g[q2[i]].pre = At(q2, i - 1)
  <2> TAKE i \in 1 .. n - 1
  <2>1. i + 1 \in 1 .. n /\ q2[i] = q[i + 1] /\ q[i + 1] \in Egg /\ q[i + 1] # e
    BY <1>2, <1>11
  <2>2. h[q[i + 1]].nex = At(q, i + 1 + 1) /\ h[q[i + 1]].pre = At(q, i + 1 - 1)
    <3>1. PICK j \in 1 .. n : j = i + 1
      BY <2>1
    <3>2. h[q[j]].nex = At(q, j + 1) /\ h[q[j]].pre = At(q, j - 1)
      BY <1>1
    <3> QED
      BY <3>1, <3>2
  <2>3. At(q2, i + 1) = At(q, i + 1 + 1)
    BY <1>12, <2>1
  <2>4. CASE i = 1
    <3>1. q[i + 1] = x /\ i - 1 = 0
      <4>1. n # 1
        BY <1>1, <2>4
      <4> QED
        BY <1>5, <2>4, <4>1
    <3> QED
      BY <1>9, <1>12, <2>1, <2>2, <2>3, <3>1
  <2>5. CASE i # 1
    <3>1. i - 1 \in 1 .. n /\ i - 1 + 1 = i + 1 - 1 /\ i + 1 # 2
      BY <1>1, <2>5
    <3>2. At(q2, i - 1) = At(q, i + 1 - 1)
      BY <1>12, <3>1
    <3>3. q[i + 1] # x
      BY <1>1, <1>2, <1>5, <2>1, <3>1
    <3> QED
      BY <1>9, <2>1, <2>2, <2>3, <3>2, <3>3
  <2> QED
    BY <2>4, <2>5
<1>16. /\ NextCar(h, c, e) \in CarOK
       /\ NextCar(h, c, e).ext = At(q2, 1) /\ NextCar(h, c, e).ent = At(q2, n - 1)
       /\ NextCar(h, c, e).dep = n - 1
  <2>1. At(q2, 1) = x
    <3>1. At(q2, 1) = At(q, 1 + 1)
      BY <1>3, <1>12
    <3> QED
      BY <1>4, <3>1
  <2>2. CASE x = 0
    <3>1. NextCar(h, c, e) = [ext |-> 0, ent |-> 0, dep |-> 0]
      BY <1>0, <2>2 DEF NextCar
    <3>2. n - 1 = 0
      BY <1>5, <2>2
    <3> QED
      BY <1>1, <1>12, <2>1, <2>2, <3>1, <3>2 DEF CarOK
  <2>3. CASE x # 0
    <3>1. NextCar(h, c, e) = [c EXCEPT !.ext = x, !.dep = @ - 1]
      BY <1>0, <2>3 DEF NextCar
    <3>2. n - 1 \in 1 .. n /\ n - 1 + 1 = n
      BY <1>1, <1>3, <1>5, <2>3
    <3>3. At(q2, n - 1) = c.ent
      BY <1>1, <1>12, <3>2
    <3>4. c \in CarOK
      OBVIOUS
    <3> QED
      BY <1>1, <1>3, <1>4, <2>1, <3>1, <3>3, <3>4 DEF CarOK
  <2> QED
    BY <2>2, <2>3
<1>17. \A f \in Egg \ Range(q) : g[f].pre = h[f].pre /\ g[f].nex = h[f].nex
  <2> TAKE f \in Egg \ Range(q)
  <2>1. f # e /\ f # x
    BY <1>1, <1>2, <1>4, <1>5
  <2> QED
    BY <1>9, <2>1
<1>18. Chained(g, NextCar(h, c, e), q2)
  BY <1>10, <1>14, <1>15, <1>16 DEF Chained
<1> QED
  BY <1>0, <1>3, <1>4, <1>7, <1>8, <1>9, <1>13, <1>16, <1>17, <1>18 DEF q2

-----------------------------------------------------------------------------
(* The steps.                                                              *)

\* What is not planned is in no list.
LEMMA UnplannedIsOut ==
  ASSUME NEW h, NEW cs, NEW qs, Lists(h, cs, qs), NEW e, h[e].sat # "plan"
  PROVE  \A d \in Driver : e \notin Range(qs[d])
BY DEF Lists

\* A step on an ovum that is in no list, before or after.
LEMMA OtherMoves ==
  ASSUME NEW h, NEW cs, NEW qs, Lists(h, cs, qs),
         NEW e \in Egg, NEW g \in HeapOK, h[e].sat # "plan", g[e].sat # "plan",
         \A f \in Egg \ {e} : g[f] = h[f]
  PROVE  Lists(g, cs, qs)
<1>1. /\ cs \in [Driver -> CarOK] /\ qs \in [Driver -> Seq(Egg)]
      /\ \A b \in Driver : Chained(h, cs[b], qs[b])
      /\ \A b \in Driver : \A f \in Range(qs[b]) : h[f].sat = "plan" /\ h[f].car = b
      /\ \A f \in Egg : h[f].sat = "plan" => h[f].car \in Driver /\ f \in Range(qs[h[f].car])
  BY DEF Lists
<1>2. \A b \in Driver : \A f \in Range(qs[b]) : f \in Egg /\ f # e /\ g[f] = h[f]
  <2> TAKE b \in Driver
  <2>1. qs[b] \in Seq(Egg)
    BY <1>1
  <2>2. \A f \in Range(qs[b]) : f \in Egg
    BY <2>1, RangeOf
  <2> QED
    BY <1>1, <2>2
<1>3. \A b \in Driver : Chained(g, cs[b], qs[b])
  BY <1>1, <1>2, ChainedFrame
<1>4. \A f \in Egg : g[f].sat = "plan" => g[f].car \in Driver /\ f \in Range(qs[g[f].car])
  <2> SUFFICES ASSUME NEW f \in Egg, g[f].sat = "plan"
               PROVE  g[f].car \in Driver /\ f \in Range(qs[g[f].car])
    OBVIOUS
  <2>1. g[f] = h[f]
    OBVIOUS
  <2> QED
    BY <1>1, <2>1
<1> QED
  BY <1>1, <1>2, <1>3, <1>4 DEF Lists

\* A new ovum joins the list of the driver d.
LEMMA PlanLists ==
  ASSUME NEW h, NEW cs, NEW qs, Lists(h, cs, qs), NEW d \in Driver, NEW e \in Egg,
         h[e].sat = "free", NEW k \in {"hear", "ovum"}
  PROVE  LET g == PlanHeap([h EXCEPT ![e] = NewOvum(d, k)], cs[d], e) IN
         /\ Lists(g, [cs EXCEPT ![d] = PlanCar(cs[d], e)], [qs EXCEPT ![d] = Append(qs[d], e)])
         /\ g[e].sat = "plan" /\ \A f \in Egg \ {e} : SameLook(g[f], h[f])
         /\ SameLook(g[e], NewOvum(d, k))
<1> DEFINE h1 == [h EXCEPT ![e] = NewOvum(d, k)]
           g == PlanHeap(h1, cs[d], e)
           q == qs[d]
<1>1. /\ h \in HeapOK /\ cs \in [Driver -> CarOK] /\ qs \in [Driver -> Seq(Egg)]
      /\ Chained(h, cs[d], q) /\ cs[d] \in CarOK /\ q \in Seq(Egg)
  BY DEF Lists
<1>2. \A b \in Driver : e \notin Range(qs[b])
  BY UnplannedIsOut
<1>3. /\ NewOvum(d, k) \in Ovum /\ NewOvum(d, k).sat = "plan" /\ NewOvum(d, k).car = d
  <2>1. Free \in Ovum
    BY AutoAssumption DEF Free, Ovum
  <2>2. d \in Driver \cup {0}
    OBVIOUS
  <2> HIDE DEF Free
  <2> QED
    BY <2>1, <2>2 DEF NewOvum, Ovum
<1>4. h1 \in HeapOK /\ h1[e] = NewOvum(d, k) /\ \A f \in Egg \ {e} : h1[f] = h[f]
  BY <1>1, <1>3 DEF HeapOK
<1> HIDE DEF h1
<1>5. \A f \in Range(q) : f \in Egg /\ h1[f].pre = h[f].pre /\ h1[f].nex = h[f].nex
  <2>1. \A f \in Range(q) : f \in Egg /\ f # e
    BY <1>1, <1>2, RangeOf
  <2> QED
    BY <1>4, <2>1
<1>6. Chained(h1, cs[d], q)
  BY <1>1, <1>5, ChainedFrame
<1>7. e \notin Range(q)
  BY <1>2
<1> HIDE DEF q
<1>8. /\ g \in HeapOK /\ PlanCar(cs[d], e) \in CarOK
      /\ Chained(g, PlanCar(cs[d], e), Append(q, e))
      /\ Range(Append(q, e)) = Range(q) \cup {e}
      /\ \A f \in Egg : SameLook(g[f], h1[f])
      /\ \A f \in Egg \ ({e} \cup Range(q)) : g[f].pre = h1[f].pre /\ g[f].nex = h1[f].nex
  BY <1>1, <1>4, <1>6, <1>7, PlanLinks
<1> HIDE DEF g
<1>9. /\ g[e].sat = "plan" /\ g[e].car = d /\ e \in Range(Append(q, e))
      /\ \A f \in Egg \ {e} : SameLook(g[f], h[f])
      /\ SameLook(g[e], NewOvum(d, k))
  BY <1>3, <1>4, <1>8 DEF SameLook
<1>10. \A f \in Egg \ ({e} \cup Range(q)) : g[f].pre = h[f].pre /\ g[f].nex = h[f].nex
  BY <1>4, <1>8
<1>11. \A f \in Egg \ {e} : /\ g[f].sat = h[f].sat /\ g[f].car = h[f].car
                            /\ f \in Range(Append(q, e)) <=> f \in Range(q)
  BY <1>8, <1>9 DEF SameLook
<1> DEFINE c == PlanCar(cs[d], e)
           q2 == Append(q, e)
<1>12. Lists(g, [cs EXCEPT ![d] = c], [qs EXCEPT ![d] = q2])
  <2>1. c \in CarOK /\ Chained(g, c, q2) /\ e \in Range(q2)
    BY <1>8, <1>9
  <2>2. \A f \in Egg \ {e} : /\ g[f].sat = h[f].sat /\ g[f].car = h[f].car
                             /\ f \in Range(q2) <=> f \in Range(q)
    BY <1>11
  <2>3. \A b \in Driver \ {d} : e \notin Range(qs[b])
    BY <1>2
  <2>4. g \in HeapOK /\ g[e].sat = "plan" /\ e \in Range(q2) /\ g[e].car = d
    BY <1>8, <1>9
  <2>5. \A f \in Egg \ ({e} \cup Range(qs[d])) : g[f].pre = h[f].pre /\ g[f].nex = h[f].nex
    BY <1>10 DEF q
  <2>6. \A f \in Egg \ {e} : /\ g[f].sat = h[f].sat /\ g[f].car = h[f].car
                             /\ f \in Range(q2) <=> f \in Range(qs[d])
    BY <2>2 DEF q
  <2> HIDE DEF c, q2, q
  <2>7. OnlyMoves(h, g, qs, d, e, q2)
    <3>1. NotElsewhere(qs, d, e)
      BY <2>3 DEF NotElsewhere
    <3>2. LinksKept(h, g, qs, d, e)
      BY <2>5 DEF LinksKept
    <3>3. LooksKept(h, g, qs, d, e, q2)
      BY <2>6 DEF LooksKept
    <3>4. Placed(g, d, e, q2)
      BY <2>4 DEF Placed
    <3> QED
      BY <3>1, <3>2, <3>3, <3>4 DEF OnlyMoves
  <2> QED
    BY <2>1, <2>4, <2>7, ListMoves
<1> QED
  BY <1>9, <1>12 DEF q, g, h1

\* An ovum is dropped from the list of the driver d.
DropDoes(h, cs, qs, d, k, e) ==
  /\ e \in Egg /\ h[e].sat = "plan"
  /\ Lists(DropHeap(h, e), [cs EXCEPT ![d] = DropCar(h, cs[d], e)],
           [qs EXCEPT ![d] = RemoveAt(qs[d], k)])
  /\ Range(RemoveAt(qs[d], k)) = Range(qs[d]) \ {e}
  /\ DropHeap(h, e)[e] = Free /\ \A f \in Egg \ {e} : SameLook(DropHeap(h, e)[f], h[f])

\* A drop takes one ovum out of its own driver's list.
LEMMA DropLists ==
  ASSUME NEW h, NEW cs, NEW qs, Lists(h, cs, qs), NEW d \in Driver, NEW k \in 1 .. Len(qs[d]),
         NEW e, e = qs[d][k]
  PROVE  DropDoes(h, cs, qs, d, k, e)
<1> DEFINE q == qs[d]
           g == DropHeap(h, e)
           c == DropCar(h, cs[d], e)
<1>1. /\ h \in HeapOK /\ cs \in [Driver -> CarOK] /\ qs \in [Driver -> Seq(Egg)]
      /\ Chained(h, cs[d], q) /\ cs[d] \in CarOK /\ q \in Seq(Egg)
      /\ \A b \in Driver : \A f \in Range(qs[b]) : h[f].sat = "plan" /\ h[f].car = b
  BY DEF Lists
<1>2. e \in Range(q) /\ h[e].sat = "plan" /\ h[e].car = d
  BY <1>1, RangeOf
<1> HIDE DEF q
<1>3. /\ e \in Egg /\ g \in HeapOK /\ c \in CarOK
      /\ Chained(g, c, RemoveAt(q, k))
      /\ Range(RemoveAt(q, k)) = Range(q) \ {e}
      /\ g[e] = Free
      /\ \A f \in Egg \ {e} : SameLook(g[f], h[f])
      /\ \A f \in Egg \ Range(q) : g[f].pre = h[f].pre /\ g[f].nex = h[f].nex
  <2>1. k \in 1 .. Len(q) /\ e = q[k]
    BY DEF q
  <2> QED
    BY <1>1, <2>1, DropLinks
<1> HIDE DEF g, c
<1>4. \A b \in Driver \ {d} : e \notin Range(qs[b])
  BY <1>1, <1>2
<1>5. /\ \A f \in Egg \ {e} : /\ g[f].sat = h[f].sat /\ g[f].car = h[f].car
                              /\ f \in Range(RemoveAt(q, k)) <=> f \in Range(q)
      /\ \A f \in Egg \ ({e} \cup Range(q)) : g[f].pre = h[f].pre /\ g[f].nex = h[f].nex
      /\ g[e].sat # "plan" /\ e \notin Range(RemoveAt(q, k))
  BY <1>3 DEF SameLook, Free
<1>6. Lists(g, [cs EXCEPT ![d] = c], [qs EXCEPT ![d] = RemoveAt(q, k)])
  <2>1. OnlyMoves(h, g, qs, d, e, RemoveAt(q, k))
    <3>1. NotElsewhere(qs, d, e)
      BY <1>4 DEF NotElsewhere
    <3>2. LinksKept(h, g, qs, d, e)
      BY <1>5 DEF LinksKept, q
    <3>3. LooksKept(h, g, qs, d, e, RemoveAt(q, k))
      BY <1>5 DEF LooksKept, q
    <3>4. Placed(g, d, e, RemoveAt(q, k))
      BY <1>5 DEF Placed
    <3> QED
      BY <3>1, <3>2, <3>3, <3>4 DEF OnlyMoves
  <2> QED
    BY <1>3, <2>1, ListMoves
<1> QED
  BY <1>2, <1>3, <1>6 DEF q, g, c, DropDoes

\* An ovum at an exit leaves for the lord.
NextDoes(h, cs, qs, d, e) ==
  /\ e \in Egg /\ h[e].sat = "plan"
  /\ Lists(NextHeap(h, e), [cs EXCEPT ![d] = NextCar(h, cs[d], e)], [qs EXCEPT ![d] = Tail(qs[d])])
  /\ NextHeap(h, e)[e].sat = "work" /\ qs[d] # <<>> /\ e = Head(qs[d])
  /\ \A f \in Egg : /\ f # e => NextHeap(h, e)[f].sat = h[f].sat
                    /\ NextHeap(h, e)[f].car = h[f].car
                    /\ NextHeap(h, e)[f].kind = h[f].kind
                    /\ NextHeap(h, e)[f].try = h[f].try

\* So does taking the oldest for the lord, which then has it.
LEMMA NextLists ==
  ASSUME NEW h, NEW cs, NEW qs, Lists(h, cs, qs), NEW d \in Driver, NEW e, e = cs[d].ext, e # 0
  PROVE  NextDoes(h, cs, qs, d, e)
<1> DEFINE q == qs[d]
           g == NextHeap(h, e)
           c == NextCar(h, cs[d], e)
<1>1. /\ h \in HeapOK /\ cs \in [Driver -> CarOK] /\ qs \in [Driver -> Seq(Egg)]
      /\ Chained(h, cs[d], q) /\ cs[d] \in CarOK
      /\ \A b \in Driver : \A f \in Range(qs[b]) : h[f].sat = "plan" /\ h[f].car = b
  BY DEF Lists
<1>2. /\ q # <<>> /\ e \in Egg /\ e = q[1] /\ e \in Range(q)
      /\ g \in HeapOK /\ c \in CarOK
      /\ Chained(g, c, Tail(q))
      /\ Range(Tail(q)) = Range(q) \ {e}
      /\ g[e].sat = "work"
      /\ \A f \in Egg : /\ f # e => g[f].sat = h[f].sat
                        /\ g[f].car = h[f].car /\ g[f].kind = h[f].kind /\ g[f].try = h[f].try
      /\ \A f \in Egg \ Range(q) : g[f].pre = h[f].pre /\ g[f].nex = h[f].nex
  <2> HIDE DEF q
  <2> QED
    BY <1>1, NextLinks
<1> HIDE DEF g, c
<1>3. h[e].sat = "plan" /\ \A b \in Driver \ {d} : e \notin Range(qs[b])
  BY <1>1, <1>2
<1> HIDE DEF q
<1>4. /\ \A f \in Egg \ {e} : /\ g[f].sat = h[f].sat /\ g[f].car = h[f].car
                              /\ f \in Range(Tail(q)) <=> f \in Range(q)
      /\ \A f \in Egg \ ({e} \cup Range(q)) : g[f].pre = h[f].pre /\ g[f].nex = h[f].nex
      /\ g[e].sat # "plan" /\ e \notin Range(Tail(q))
  BY <1>2
<1> DEFINE q2 == Tail(q)
<1>5. Lists(g, [cs EXCEPT ![d] = c], [qs EXCEPT ![d] = q2])
  <2>1. c \in CarOK /\ g \in HeapOK /\ Chained(g, c, q2) /\ e \notin Range(q2) /\ e \in Egg
    BY <1>2, <1>4
  <2>2. \A f \in Egg \ {e} : /\ g[f].sat = h[f].sat /\ g[f].car = h[f].car
                             /\ f \in Range(q2) <=> f \in Range(q)
    BY <1>4
  <2>3. (g[e].sat = "plan" <=> e \in Range(q2)) /\ (e \in Range(q2) => g[e].car = d)
    BY <1>4
  <2> HIDE DEF c, q2, q
  <2> QED
    <3>1. OnlyMoves(h, g, qs, d, e, q2)
      <4>1. NotElsewhere(qs, d, e)
        BY <1>3 DEF NotElsewhere
      <4>2. LinksKept(h, g, qs, d, e)
        BY <1>4 DEF LinksKept, q
      <4>3. LooksKept(h, g, qs, d, e, q2)
        BY <2>2 DEF LooksKept, q
      <4>4. Placed(g, d, e, q2)
        BY <2>3 DEF Placed
      <4> QED
        BY <4>1, <4>2, <4>3, <4>4 DEF OnlyMoves
    <3> QED
      BY <2>1, <3>1, ListMoves
<1> QED
  BY <1>2, <1>3, <1>5 DEF q, g, c, q2, NextDoes

\* An ovum that the lord had is retried.
RedoDoes(h, cs, qs, d, e, g) ==
  /\ Lists(g, [cs EXCEPT ![d] = RedoCar(cs[d], e)], [qs EXCEPT ![d] = <<e>> \o qs[d]])
  /\ g[e].sat = "plan" /\ g[e].car = d /\ g[e].kind = h[e].kind /\ g[e].try = h[e].try + 1
  /\ \A f \in Egg \ {e} : SameLook(g[f], h[f])

\* A retry puts an ovum that was with the lord in front of its list.
LEMMA RedoLists ==
  ASSUME NEW h, NEW cs, NEW qs, Lists(h, cs, qs), NEW d \in Driver, NEW e \in Egg,
         h[e].sat = "work", h[e].car = d, h[e].try < MaxTry
  PROVE  RedoDoes(h, cs, qs, d, e, RedoHeap([h EXCEPT ![e].sat = "plan"], cs[d], e))
<1> DEFINE h1 == [h EXCEPT ![e].sat = "plan"]
           g == RedoHeap(h1, cs[d], e)
           q == qs[d]
<1>1. /\ h \in HeapOK /\ cs \in [Driver -> CarOK] /\ qs \in [Driver -> Seq(Egg)]
      /\ Chained(h, cs[d], q) /\ cs[d] \in CarOK /\ q \in Seq(Egg)
  BY DEF Lists
<1>2. \A b \in Driver : e \notin Range(qs[b])
  BY UnplannedIsOut
<1>3. /\ h1 \in HeapOK /\ \A f \in Egg \ {e} : h1[f] = h[f]
      /\ h1[e].sat = "plan" /\ h1[e].car = d /\ h1[e].kind = h[e].kind /\ h1[e].try = h[e].try
  <2> DEFINE r == [h[e] EXCEPT !.sat = "plan"]
  <2>1. h[e] \in Ovum
    BY <1>1 DEF HeapOK
  <2>2. r \in Ovum /\ r.sat = "plan" /\ r.car = d /\ r.kind = h[e].kind /\ r.try = h[e].try
    BY <2>1 DEF Ovum
  <2>3. h1 = [h EXCEPT ![e] = r]
    BY <1>1 DEF HeapOK
  <2> HIDE DEF r, h1
  <2> QED
    BY <1>1, <2>2, <2>3 DEF HeapOK
<1> HIDE DEF h1
<1>5. \A f \in Range(q) : f \in Egg /\ h1[f].pre = h[f].pre /\ h1[f].nex = h[f].nex
  <2>1. \A f \in Range(q) : f \in Egg /\ f # e
    BY <1>1, <1>2, RangeOf
  <2> QED
    BY <1>3, <2>1
<1>6. Chained(h1, cs[d], q)
  BY <1>1, <1>5, ChainedFrame
<1>7. e \notin Range(q) /\ h1[e].try < MaxTry
  BY <1>2, <1>3
<1> HIDE DEF q
<1>8. /\ g \in HeapOK /\ RedoCar(cs[d], e) \in CarOK
      /\ Chained(g, RedoCar(cs[d], e), <<e>> \o q)
      /\ Range(<<e>> \o q) = Range(q) \cup {e}
      /\ \A f \in Egg : /\ g[f].sat = h1[f].sat /\ g[f].car = h1[f].car /\ g[f].kind = h1[f].kind
                        /\ g[f].try = IF f = e THEN h1[f].try + 1 ELSE h1[f].try
      /\ \A f \in Egg \ ({e} \cup Range(q)) : g[f].pre = h1[f].pre /\ g[f].nex = h1[f].nex
  BY <1>1, <1>3, <1>6, <1>7, RedoLinks
<1> HIDE DEF g
<1>9. /\ g[e].sat = "plan" /\ g[e].car = d /\ g[e].kind = h[e].kind /\ g[e].try = h[e].try + 1
      /\ e \in Range(<<e>> \o q)
      /\ \A f \in Egg \ {e} : SameLook(g[f], h[f])
  BY <1>3, <1>8 DEF SameLook
<1>10. \A f \in Egg \ ({e} \cup Range(q)) : g[f].pre = h[f].pre /\ g[f].nex = h[f].nex
  BY <1>3, <1>8
<1>11. \A f \in Egg \ {e} : /\ g[f].sat = h[f].sat /\ g[f].car = h[f].car
                            /\ f \in Range(<<e>> \o q) <=> f \in Range(q)
  BY <1>8, <1>9 DEF SameLook
<1> DEFINE c == RedoCar(cs[d], e)
           q2 == <<e>> \o q
<1>12. Lists(g, [cs EXCEPT ![d] = c], [qs EXCEPT ![d] = q2])
  <2>1. c \in CarOK /\ Chained(g, c, q2) /\ e \in Range(q2)
    BY <1>8, <1>9
  <2>2. \A f \in Egg \ {e} : /\ g[f].sat = h[f].sat /\ g[f].car = h[f].car
                             /\ f \in Range(q2) <=> f \in Range(q)
    BY <1>11
  <2>3. \A b \in Driver \ {d} : e \notin Range(qs[b])
    BY <1>2
  <2>4. g \in HeapOK /\ g[e].sat = "plan" /\ e \in Range(q2) /\ g[e].car = d
    BY <1>8, <1>9
  <2>5. \A f \in Egg \ ({e} \cup Range(qs[d])) : g[f].pre = h[f].pre /\ g[f].nex = h[f].nex
    BY <1>10 DEF q
  <2>6. \A f \in Egg \ {e} : /\ g[f].sat = h[f].sat /\ g[f].car = h[f].car
                             /\ f \in Range(q2) <=> f \in Range(qs[d])
    BY <2>2 DEF q
  <2> HIDE DEF c, q2, q
  <2>7. OnlyMoves(h, g, qs, d, e, q2)
    <3>1. NotElsewhere(qs, d, e)
      BY <2>3 DEF NotElsewhere
    <3>2. LinksKept(h, g, qs, d, e)
      BY <2>5 DEF LinksKept
    <3>3. LooksKept(h, g, qs, d, e, q2)
      BY <2>6 DEF LooksKept
    <3>4. Placed(g, d, e, q2)
      BY <2>4 DEF Placed
    <3> QED
      BY <3>1, <3>2, <3>3, <3>4 DEF OnlyMoves
  <2> QED
    BY <2>1, <2>4, <2>7, ListMoves
<1> QED
  BY <1>9, <1>12 DEF q, g, h1, c, q2, RedoDoes

\* The states of _ames_cap_queue's loop.
CapState == [heap : HeapOK, car : CarOK, at : Egg0]

\* What has gone from the queue q, which is now r, were packets.
CapLost(h, w, q, r) == \A e \in Range(q) \ Range(r) : h[e].kind = "hear" /\ SameLook(w[e], Free)

\* The rest of the heap h is, in w, as it was.
CapKept(h, w, q, r) == \A f \in Egg \ (Range(q) \ Range(r)) : SameLook(w[f], h[f])

\* The loop is at the k-th of r: there is no packet in front of it, and all that has
\* gone was.
CapAt(h, q, r, at, k) ==
  /\ k \in 1 .. Len(r) + 1 /\ at = At(r, k)
  /\ \A i \in 1 .. k - 1 : h[r[i]].kind # "hear"
  /\ \A e \in Range(q) \ Range(r) : \A i \in k .. Len(r) : Queues!Precedes(q, e, r[i])

\* After some turns over the lists qs0 of the heap h: the state s, with the lists qs.
CapOK(h, cs, qs0, s, qs, k) ==
  LET q == qs0[AmesCar]
      r == qs[AmesCar]
  IN  /\ Lists(s.heap, [cs EXCEPT ![AmesCar] = s.car], qs)
      /\ \A d \in Driver \ {AmesCar} : qs[d] = qs0[d]
      /\ Queues!PartOf(r, q)
      /\ CapLost(h, s.heap, q, r)
      /\ CapKept(h, s.heap, q, r)
      /\ CapAt(h, q, r, s.at, k)
      /\ Len(r) < Cap => Range(q) \subseteq Range(r)

\* And at most m turns are left.
CapGood(h, cs, qs0, s, m) ==
  /\ s \in CapState
  /\ \E qs, k : /\ CapOK(h, cs, qs0, s, qs, k)
                /\ s.at = 0 \/ s.car.dep <= Cap \/ Len(qs[AmesCar]) + 1 - k <= m

\* One turn makes a state of another.
LEMMA CapStepType ==
  ASSUME NEW s \in CapState
  PROVE  CapStep(s) \in CapState
<1>1. s.heap \in HeapOK /\ s.car \in CarOK /\ s.at \in Egg0 /\ s = [heap |-> s.heap, car |-> s.car, at |-> s.at]
  BY DEF CapState
<1>2. PICK h, c, e : h = s.heap /\ c = s.car /\ e = s.at
  OBVIOUS
<1>3. CASE e = 0 \/ c.dep <= Cap
  BY <1>2, <1>3 DEF CapStep
<1>4. CASE ~(e = 0 \/ c.dep <= Cap)
  <2>1. e \in Egg /\ h \in HeapOK /\ h[e].pre \in Egg0 /\ h[e].nex \in Egg0
    BY <1>1, <1>2, <1>4 DEF Egg0, HeapOK, Ovum
  <2>2. CASE h[e].kind = "hear"
    <3> DEFINE g1 == SetNex(h, h[e].pre, h[e].nex)
               g2 == SetPre(g1, h[e].nex, h[e].pre)
    <3>1. g1 \in HeapOK
      BY <2>1, SetNexIs
    <3> HIDE DEF g1
    <3>2. g2 \in HeapOK
      BY <2>1, <3>1, SetPreIs
    <3>3. Free \in Ovum
      BY AutoAssumption DEF Free, Ovum
    <3>4. [g2 EXCEPT ![e] = Free] \in HeapOK
      <4> HIDE DEF g2
      <4> QED
        BY <3>2, <3>3 DEF HeapOK
    <3>5. DropHeap(h, e) \in HeapOK
      BY <3>4 DEF DropHeap, g1
    <3>6. c \in [ext : Egg0, ent : Egg0, dep : Nat]
      BY <1>1, <1>2 DEF CarOK
    <3>7. DropCar(h, c, e) \in CarOK
      BY <2>1, <3>6 DEF DropCar, CarOK
    <3>8. CapStep(s) = [heap |-> DropHeap(h, e), car |-> DropCar(h, c, e), at |-> h[e].nex]
      BY <1>2, <1>4, <2>2 DEF CapStep
    <3> QED
      BY <2>1, <3>5, <3>7, <3>8 DEF CapState
  <2>3. CASE h[e].kind # "hear"
    <3>1. CapStep(s) = [heap |-> h, car |-> c, at |-> h[e].nex]
      BY <1>1, <1>2, <1>4, <2>3 DEF CapStep
    <3> QED
      BY <1>1, <1>2, <2>1, <3>1 DEF CapState
  <2> QED
    BY <2>2, <2>3
<1> QED
  BY <1>3, <1>4

\* The loop's states, turn by turn.
CapIs(h, c, f) ==
  f = [n \in 0 .. NEggs |-> IF n = 0 THEN [heap |-> h, car |-> c, at |-> c.ext] ELSE CapStep(f[n - 1])]

CapRuns(h, c, f) ==
  /\ f[0] = [heap |-> h, car |-> c, at |-> c.ext]
  /\ \A n \in 1 .. NEggs : f[n] = CapStep(f[n - 1])
  /\ Capped(h, c) = f[NEggs]

\* _ames_cap_queue's loop is its turns, one after the other.
LEMMA CapRunExists ==
  ASSUME NEW h \in HeapOK, NEW c \in CarOK
  PROVE  \E f : CapRuns(h, c, f)
<1> DEFINE b == [heap |-> h, car |-> c, at |-> c.ext]
           F == [s \in CapState |-> CapStep(s)]
<1>1. NEggs \in Nat /\ b \in CapState
  BY AutoAssumption DEF CapState, CarOK
<1>2. F \in [CapState -> CapState]
  BY CapStepType
<1> HIDE DEF F, b
<1>3. PICK g : Iterates(g, NEggs, CapState, b, F)
  BY <1>1, <1>2, RecursionExists
<1>4. ASSUME NEW n \in 0 .. NEggs
      PROVE  g[n] = IF n = 0 THEN b ELSE CapStep(g[n - 1])
  <2>1. CASE n = 0
    BY <1>3, <2>1 DEF Iterates
  <2>2. CASE n # 0
    <3>1. n \in 1 .. NEggs /\ n - 1 \in 0 .. NEggs
      BY <1>1, <2>2
    <3>2. g[n] = F[g[n - 1]] /\ g[n - 1] \in CapState
      BY <1>3, <3>1 DEF Iterates
    <3> QED
      BY <2>2, <3>2 DEF F
  <2> QED
    BY <2>1, <2>2
<1>5. CapIs(h, c, g)
  <2>1. g = [n \in 0 .. NEggs |-> g[n]]
    BY <1>3 DEF Iterates
  <2> QED
    BY <1>4, <2>1 DEF CapIs, b
<1>6. PICK f : f = CHOOSE x : CapIs(h, c, x)
  OBVIOUS
<1>7. CapIs(h, c, f)
  BY <1>5, <1>6
<1>8. Capped(h, c) = f[NEggs]
  BY <1>6, Zenon DEF Capped, CapIs
<1>9. /\ f[0] = b /\ \A n \in 1 .. NEggs : f[n] = CapStep(f[n - 1])
  <2>1. \A n \in 0 .. NEggs : f[n] = IF n = 0 THEN b ELSE CapStep(f[n - 1])
    BY <1>7 DEF CapIs, b
  <2> QED
    BY <1>1, <2>1
<1> QED
  BY <1>8, <1>9 DEF CapRuns, b

\* What a list has, as module Ova says it.
LEMMA SameRange == \A q : Queues!Range(q) = Range(q)
BY DEF Queues!Range, Range

\* A list without its k-th is part of what the list was part of.
LEMMA PartOfPart ==
  ASSUME NEW q \in Seq(Egg), NEW r \in Seq(Egg), Queues!PartOf(r, q), NEW k \in 1 .. Len(r)
  PROVE  /\ RemoveAt(r, k) \in Seq(Egg) /\ Len(RemoveAt(r, k)) = Len(r) - 1
         /\ \A i \in 1 .. Len(r) - 1 : RemoveAt(r, k)[i] = r[IF i < k THEN i ELSE i + 1]
         /\ Queues!PartOf(RemoveAt(r, k), q)
<1>1. PICK n, t : n = Len(r) /\ t = RemoveAt(r, k)
  OBVIOUS
<1>2. /\ n \in Nat /\ n >= 1 /\ t \in Seq(Egg) /\ DOMAIN t = 1 .. n - 1
      /\ \A i \in 1 .. n - 1 : t[i] = r[IF i < k THEN i ELSE i + 1]
  BY <1>1, RemoveAtFacts
<1>3. Len(t) = n - 1
  <2>1. Len(t) \in Nat /\ DOMAIN t = 1 .. Len(t)
    BY <1>2
  <2>2. n - 1 \in Nat /\ 1 .. Len(t) = 1 .. n - 1
    BY <1>2, <2>1
  <2> QED
    BY <2>1, <2>2
<1>4. Range(t) \subseteq Range(r)
  <2> SUFFICES ASSUME NEW f \in Range(t) PROVE f \in Range(r)
    OBVIOUS
  <2>1. PICK i \in 1 .. n - 1 : f = t[i]
    BY <1>2, <1>3, RangeOf
  <2>2. PICK j \in 1 .. n : f = r[j]
    <3>1. i \in 1 .. n /\ i + 1 \in 1 .. n
      BY <1>2
    <3> QED
      BY <1>2, <2>1, <3>1
  <2> QED
    BY <1>1, <2>2, RangeOf
<1>5. ASSUME NEW i \in 1 .. n - 1, NEW j \in 1 .. n - 1, i < j
      PROVE  Queues!Precedes(q, t[i], t[j])
  <2>1. PICK x \in 1 .. n, y \in 1 .. n : x < y /\ t[i] = r[x] /\ t[j] = r[y]
    <3> DEFINE x == IF i < k THEN i ELSE i + 1
               y == IF j < k THEN j ELSE j + 1
    <3>1. x \in 1 .. n /\ y \in 1 .. n /\ x < y
      BY <1>1, <1>2, <1>5
    <3>2. t[i] = r[x] /\ t[j] = r[y]
      BY <1>2
    <3> HIDE DEF x, y
    <3> QED
      BY <3>1, <3>2
  <2> QED
    BY <1>1, <2>1 DEF Queues!PartOf
<1>6. Queues!PartOf(t, q)
  BY <1>3, <1>4, <1>5, SameRange DEF Queues!PartOf
<1> QED
  BY <1>1, <1>2, <1>3, <1>6

\* One turn keeps the lists.
LEMMA CapStepGood ==
  ASSUME NEW h, NEW cs \in [Driver -> CarOK], NEW qs0 \in [Driver -> Seq(Egg)], NEW s,
         NEW m \in Nat, CapGood(h, cs, qs0, s, m + 1)
  PROVE  CapGood(h, cs, qs0, CapStep(s), m)
<1>1. s \in CapState /\ CapStep(s) \in CapState
  BY CapStepType DEF CapGood
<1>2. PICK qs, k : /\ CapOK(h, cs, qs0, s, qs, k)
                   /\ s.at = 0 \/ s.car.dep <= Cap \/ Len(qs[AmesCar]) + 1 - k <= m + 1
  BY DEF CapGood
<1>3. PICK w, c, e, r, q : w = s.heap /\ c = s.car /\ e = s.at /\ r = qs[AmesCar] /\ q = qs0[AmesCar]
  OBVIOUS
<1>4. s = [heap |-> w, car |-> c, at |-> e] /\ w \in HeapOK /\ c \in CarOK /\ e \in Egg0
  BY <1>1, <1>3 DEF CapState
<1>5. CASE e = 0 \/ c.dep <= Cap
  <2>1. CapStep(s) = s
    BY <1>3, <1>5 DEF CapStep
  <2> QED
    BY <1>1, <1>2, <1>3, <1>5, <2>1 DEF CapGood
<1>6. CASE ~(e = 0 \/ c.dep <= Cap)
  <2> DEFINE cs1 == [cs EXCEPT ![AmesCar] = c]
  <2>1. AmesCar \in Driver /\ cs1[AmesCar] = c /\ q \in Seq(Egg)
    BY <1>3, AutoAssumption
  <2>2. Lists(w, cs1, qs) /\ \A d \in Driver \ {AmesCar} : qs[d] = qs0[d]
    BY <1>2, <1>3 DEF CapOK
  <2>3. Queues!PartOf(r, q) /\ CapLost(h, w, q, r) /\ CapKept(h, w, q, r) /\ CapAt(h, q, r, e, k)
    BY <1>2, <1>3 DEF CapOK
  <2> HIDE DEF cs1
  <2>4. qs \in [Driver -> Seq(Egg)] /\ Chained(w, c, r) /\ r \in Seq(Egg)
    BY <1>3, <2>1, <2>2 DEF Lists
  <2>5. Len(r) \in Nat /\ k \in 1 .. Len(r) /\ e = r[k] /\ e \in Range(r) /\ Len(r) + 1 - k <= m + 1
    <3>1. Len(r) \in Nat /\ k \in 1 .. Len(r) + 1 /\ e = At(r, k)
      BY <2>3, <2>4 DEF CapAt
    <3>2. k \in 1 .. Len(r) /\ e = r[k]
      BY <1>6, <3>1 DEF At
    <3> QED
      BY <1>2, <1>3, <1>6, <2>4, <3>1, <3>2, RangeOf
  <2>6. Len(r) = c.dep /\ c.dep \in Nat /\ Cap \in Nat /\ Len(r) > Cap
    BY <1>4, <1>6, <2>4, AutoAssumption DEF Chained, CarOK
  <2>7. w[e].nex = At(r, k + 1)
    BY <2>4, <2>5 DEF Chained
  <2>8. e \in Egg /\ SameLook(w[e], h[e]) /\ e \in Range(q)
    <3>1. e \in Egg /\ e \in Range(q)
      BY <2>3, <2>4, <2>5, RangeOf, SameRange DEF Queues!PartOf
    <3> QED
      BY <2>3, <2>5, <3>1 DEF CapKept
  <2>9. CASE w[e].kind = "hear"
    <3> DEFINE g == DropHeap(w, e)
               c2 == DropCar(w, c, e)
               r2 == RemoveAt(r, k)
               qs2 == [qs EXCEPT ![AmesCar] = r2]
    <3>1. /\ Lists(g, [cs1 EXCEPT ![AmesCar] = c2], qs2)
          /\ Range(r2) = Range(r) \ {e}
          /\ g[e] = Free /\ \A f \in Egg \ {e} : SameLook(g[f], w[f])
      <4>1. k \in 1 .. Len(qs[AmesCar]) /\ e = qs[AmesCar][k]
        BY <1>3, <2>5
      <4>2. DropDoes(w, cs1, qs, AmesCar, k, e)
        <5>1. AmesCar \in Driver /\ Lists(w, cs1, qs)
          BY <2>1, <2>2
        <5> QED
          BY <4>1, <5>1, DropLists
      <4> QED
        BY <1>3, <2>1, <4>2 DEF DropDoes
    <3>2. [cs1 EXCEPT ![AmesCar] = c2] = [cs EXCEPT ![AmesCar] = c2]
      BY DEF cs1
    <3>3. qs2[AmesCar] = r2 /\ \A d \in Driver \ {AmesCar} : qs2[d] = qs0[d]
      BY <2>1, <2>2, <2>4
    <3>4. CapStep(s) = [heap |-> g, car |-> c2, at |-> w[e].nex]
      BY <1>3, <1>6, <2>9 DEF CapStep
    <3>5. /\ r2 \in Seq(Egg) /\ Len(r2) = Len(r) - 1
          /\ \A i \in 1 .. Len(r) - 1 : r2[i] = r[IF i < k THEN i ELSE i + 1]
          /\ Queues!PartOf(r2, q)
      BY <2>1, <2>3, <2>4, <2>5, PartOfPart
    <3> HIDE DEF g, c2, r2, qs2
    <3>6. \A f : f \in Range(q) \ Range(r2) <=> f = e \/ f \in Range(q) \ Range(r)
      BY <2>8, <3>1
    <3>7. CapLost(h, g, q, r2)
      <4> SUFFICES ASSUME NEW f \in Range(q) \ Range(r2)
                   PROVE  h[f].kind = "hear" /\ SameLook(g[f], Free)
        BY DEF CapLost
      <4>1. CASE f = e
        BY <2>8, <2>9, <3>1, <4>1 DEF SameLook
      <4>2. CASE f # e
        <5>1. h[f].kind = "hear" /\ SameLook(w[f], Free) /\ f \in Egg
          BY <2>1, <2>3, <3>6, <4>2, RangeOf DEF CapLost
        <5>2. SameLook(g[f], w[f])
          BY <3>1, <4>2, <5>1
        <5> QED
          BY <5>1, <5>2 DEF SameLook
      <4> QED
        BY <4>1, <4>2
    <3>8. CapKept(h, g, q, r2)
      <4> SUFFICES ASSUME NEW f \in Egg \ (Range(q) \ Range(r2)) PROVE SameLook(g[f], h[f])
        BY DEF CapKept
      <4>1. f # e /\ f \in Egg \ (Range(q) \ Range(r))
        BY <3>6
      <4>2. SameLook(w[f], h[f]) /\ SameLook(g[f], w[f])
        BY <2>3, <3>1, <4>1 DEF CapKept
      <4> QED
        BY <4>2 DEF SameLook
    <3>9. CapAt(h, q, r2, w[e].nex, k)
      <4>1. PICK n : n = Len(r)
        OBVIOUS
      <4>2. n \in Nat /\ k \in 1 .. n /\ k \in 1 .. (n - 1) + 1 /\ Len(r2) = n - 1 /\ n - 1 \in Nat
        BY <2>5, <3>5, <4>1
      <4>3. w[e].nex = At(r2, k)
        <5>1. CASE k = n
          <6>1. k + 1 \notin 1 .. n /\ k \notin 1 .. n - 1
            BY <4>2, <5>1
          <6> QED
            BY <2>7, <4>1, <4>2, <6>1 DEF At
        <5>2. CASE k # n
          <6>1. k + 1 \in 1 .. n /\ k \in 1 .. n - 1 /\ ~(k < k)
            BY <4>2, <5>2
          <6>2. r2[k] = r[k + 1]
            BY <3>5, <4>1, <6>1
          <6> QED
            BY <2>7, <4>1, <4>2, <6>1, <6>2 DEF At
        <5> QED
          BY <5>1, <5>2
      <4>4. \A i \in 1 .. k - 1 : h[r2[i]].kind # "hear"
        <5> TAKE i \in 1 .. k - 1
        <5>1. i \in 1 .. n - 1 /\ i < k
          BY <4>2
        <5>2. r2[i] = r[i]
          BY <3>5, <4>1, <5>1
        <5> QED
          BY <2>3, <5>2 DEF CapAt
      <4>5. \A f \in Range(q) \ Range(r2) : \A i \in k .. Len(r2) : Queues!Precedes(q, f, r2[i])
        <5> TAKE f \in Range(q) \ Range(r2)
        <5> TAKE i \in k .. Len(r2)
        <5>1. i \in 1 .. n - 1 /\ ~(i < k) /\ i + 1 \in 1 .. n /\ i + 1 \in k .. n /\ k < i + 1
          BY <4>2
        <5>2. r2[i] = r[i + 1]
          BY <3>5, <4>1, <5>1
        <5>3. CASE f = e
          <6>1. Queues!Precedes(q, r[k], r[i + 1])
            BY <2>3, <4>1, <4>2, <5>1 DEF Queues!PartOf
          <6> QED
            BY <2>5, <5>2, <5>3, <6>1
        <5>4. CASE f # e
          <6>1. f \in Range(q) \ Range(r)
            BY <3>6, <5>4
          <6> QED
            BY <2>3, <4>1, <5>1, <5>2, <6>1 DEF CapAt
        <5> QED
          BY <5>3, <5>4
      <4> QED
        BY <4>2, <4>3, <4>4, <4>5 DEF CapAt
    <3>10. Len(r2) >= Cap /\ Len(r2) + 1 - k <= m /\ ~(Len(r2) < Cap)
      BY <2>5, <2>6, <3>5
    <3>11. CapOK(h, cs, qs0, CapStep(s), qs2, k)
      <4>1. Lists(g, [cs EXCEPT ![AmesCar] = c2], qs2)
        BY <3>1, <3>2
      <4>2. CapStep(s).heap = g /\ CapStep(s).car = c2 /\ CapStep(s).at = w[e].nex
        BY <3>4
      <4> QED
        BY <1>3, <3>3, <3>5, <3>7, <3>8, <3>9, <3>10, <4>1, <4>2 DEF CapOK
    <3> QED
      BY <1>1, <3>3, <3>10, <3>11 DEF CapGood
  <2>10. CASE w[e].kind # "hear"
    <3>1. CapStep(s) = [heap |-> w, car |-> c, at |-> w[e].nex]
      BY <1>3, <1>4, <1>6, <2>10 DEF CapStep
    <3>2. CapAt(h, q, r, w[e].nex, k + 1)
      <4>1. k + 1 \in 1 .. Len(r) + 1 /\ k \in Nat
        BY <2>5
      <4>2. \A i \in 1 .. (k + 1) - 1 : h[r[i]].kind # "hear"
        <5> TAKE i \in 1 .. (k + 1) - 1
        <5>1. i = k \/ i \in 1 .. k - 1
          BY <4>1
        <5> QED
          BY <2>3, <2>5, <2>8, <2>10, <5>1 DEF CapAt, SameLook
      <4>3. \A i \in k + 1 .. Len(r) : i \in k .. Len(r)
        BY <4>1
      <4> QED
        BY <2>3, <2>7, <4>1, <4>2, <4>3 DEF CapAt
    <3>3. Len(r) + 1 - (k + 1) <= m /\ ~(Len(r) < Cap)
      BY <2>5, <2>6
    <3>4. CapOK(h, cs, qs0, CapStep(s), qs, k + 1)
      <4>1. Lists(w, [cs EXCEPT ![AmesCar] = c], qs)
        BY <2>2 DEF cs1
      <4>2. CapStep(s).heap = w /\ CapStep(s).car = c /\ CapStep(s).at = w[e].nex
        BY <3>1
      <4> QED
        BY <1>3, <2>2, <2>3, <3>2, <3>3, <4>1, <4>2 DEF CapOK
    <3> QED
      BY <1>1, <1>3, <3>3, <3>4 DEF CapGood
  <2> QED
    BY <2>9, <2>10
<1> QED
  BY <1>5, <1>6

\* What capping ames' queue makes of the heap h and the lists qs.
CapDoes(h, cs, qs, s, qs2) ==
  LET q == qs[AmesCar]
      r == qs2[AmesCar]
  IN  /\ Lists(s.heap, [cs EXCEPT ![AmesCar] = s.car], qs2)
      /\ \A d \in Driver \ {AmesCar} : qs2[d] = qs[d]
      /\ Queues!PartOf(r, q)
      /\ CapLost(h, s.heap, q, r) /\ CapKept(h, s.heap, q, r)
      /\ \A e \in Range(q) \ Range(r), f \in Range(r) :
           h[f].kind = "hear" => Queues!Precedes(q, e, f)
      /\ Len(r) < Cap => Range(q) \subseteq Range(r)
      /\ Len(r) > Cap => \A f \in Range(r) : h[f].kind # "hear"

\* The loop's end.
LEMMA CapEnds ==
  ASSUME NEW h, NEW cs \in [Driver -> CarOK], NEW qs0, NEW s, CapGood(h, cs, qs0, s, 0)
  PROVE  \E qs : CapDoes(h, cs, qs0, s, qs)
<1>1. PICK qs, k : /\ CapOK(h, cs, qs0, s, qs, k)
                   /\ s.at = 0 \/ s.car.dep <= Cap \/ Len(qs[AmesCar]) + 1 - k <= 0
  BY DEF CapGood
<1>2. PICK r, q, n : r = qs[AmesCar] /\ q = qs0[AmesCar] /\ n = Len(r)
  OBVIOUS
<1>3. /\ Lists(s.heap, [cs EXCEPT ![AmesCar] = s.car], qs)
      /\ \A d \in Driver \ {AmesCar} : qs[d] = qs0[d]
      /\ Queues!PartOf(r, q)
      /\ CapLost(h, s.heap, q, r) /\ CapKept(h, s.heap, q, r)
      /\ CapAt(h, q, r, s.at, k)
      /\ n < Cap => Range(q) \subseteq Range(r)
  BY <1>1, <1>2 DEF CapOK
<1>4. r \in Seq(Egg) /\ n \in Nat /\ s.car.dep = n /\ 0 \notin Egg /\ Cap \in Nat
  <2>1. AmesCar \in Driver /\ Cap \in Nat /\ 0 \notin Egg
    BY AutoAssumption DEF Egg
  <2>2. Chained(s.heap, s.car, r)
    BY <1>2, <1>3, <2>1 DEF Lists
  <2> QED
    BY <1>2, <2>1, <2>2 DEF Chained
<1>5. /\ k \in 1 .. n + 1 /\ s.at = At(r, k)
      /\ \A i \in 1 .. k - 1 : h[r[i]].kind # "hear"
      /\ \A e \in Range(q) \ Range(r) : \A i \in k .. n : Queues!Precedes(q, e, r[i])
  BY <1>2, <1>3 DEF CapAt
<1>6. \A e \in Range(q) \ Range(r), f \in Range(r) :
        h[f].kind = "hear" => Queues!Precedes(q, e, f)
  <2> SUFFICES ASSUME NEW e \in Range(q) \ Range(r), NEW f \in Range(r), h[f].kind = "hear"
               PROVE  Queues!Precedes(q, e, f)
    OBVIOUS
  <2>1. PICK i \in 1 .. n : f = r[i]
    BY <1>2, <1>4, RangeOf
  <2>2. i \in k .. n
    <3>1. i \notin 1 .. k - 1
      BY <1>5, <2>1
    <3> QED
      BY <1>4, <1>5, <3>1
  <2> QED
    BY <1>5, <2>1, <2>2
<1>7. ASSUME n > Cap, NEW f \in Range(r) PROVE h[f].kind # "hear"
  <2>1. PICK i \in 1 .. n : f = r[i]
    BY <1>2, <1>4, RangeOf
  <2>2. k = n + 1
    <3>1. CASE k \in 1 .. n
      <4>1. s.at = r[k] /\ r[k] \in Egg
        BY <1>2, <1>4, <1>5, <3>1 DEF At
      <4>2. n + 1 - k <= 0
        BY <1>1, <1>2, <1>4, <1>7, <4>1
      <4> QED
        BY <1>4, <3>1, <4>2
    <3> QED
      BY <1>4, <1>5, <3>1
  <2>3. i \in 1 .. k - 1
    BY <1>4, <2>2
  <2> QED
    BY <1>5, <2>1, <2>3
<1>8. CapDoes(h, cs, qs0, s, qs)
  BY <1>2, <1>3, <1>6, <1>7 DEF CapDoes
<1> QED
  BY <1>8

\* Capping ames' queue.
LEMMA CapLists ==
  ASSUME NEW h, NEW cs, NEW qs, Lists(h, cs, qs)
  PROVE  \E qs2 : CapDoes(h, cs, qs, Capped(h, cs[AmesCar]), qs2)
<1> DEFINE c == cs[AmesCar]
           q == qs[AmesCar]
<1>1. /\ AmesCar \in Driver /\ NEggs \in Nat
      /\ h \in HeapOK /\ cs \in [Driver -> CarOK] /\ qs \in [Driver -> Seq(Egg)]
      /\ c \in CarOK /\ Chained(h, c, q) /\ q \in Seq(Egg)
  BY AutoAssumption DEF Lists
<1>2. cs = [cs EXCEPT ![AmesCar] = c]
  BY <1>1
<1>3. Len(q) \in 0 .. NEggs /\ Len(q) \in Nat /\ c.ext = At(q, 1)
  BY <1>1, OnceIsShort DEF Chained
<1> HIDE DEF c, q
<1>4. PICK f : CapRuns(h, c, f)
  BY <1>1, CapRunExists
<1>5. CapGood(h, cs, qs, f[0], NEggs - 0)
  <2>1. f[0] = [heap |-> h, car |-> c, at |-> c.ext]
    BY <1>4 DEF CapRuns
  <2>2. f[0] \in CapState
    BY <1>1, <2>1 DEF CapState, CarOK
  <2>3. CapAt(h, q, q, c.ext, 1)
    BY <1>3 DEF CapAt
  <2>4. Queues!PartOf(q, q)
    <3>1. ASSUME NEW i \in 1 .. Len(q), NEW j \in 1 .. Len(q), i < j
          PROVE  Queues!Precedes(q, q[i], q[j])
      BY <3>1 DEF Queues!Precedes
    <3> QED
      BY <3>1, SameRange DEF Queues!PartOf
  <2>5. CapLost(h, h, q, q) /\ CapKept(h, h, q, q)
    BY DEF CapLost, CapKept, SameLook
  <2>6. CapOK(h, cs, qs, f[0], qs, 1)
    <3>1. f[0].heap = h /\ f[0].car = c /\ f[0].at = c.ext
      BY <2>1
    <3> QED
      BY <1>2, <2>3, <2>4, <2>5, <3>1 DEF CapOK, q
  <2>7. Len(qs[AmesCar]) + 1 - 1 <= NEggs - 0
    BY <1>1, <1>3 DEF q
  <2> QED
    BY <2>2, <2>6, <2>7 DEF CapGood
<1> DEFINE Good(n) == CapGood(h, cs, qs, f[n], NEggs - n)
           G == {n \in 0 .. NEggs : Good(n)}
<1>6. 0 \in G /\ \A n \in 1 .. NEggs : n - 1 \in G => n \in G
  <2>1. 0 \in G
    BY <1>1, <1>5
  <2>2. ASSUME NEW n \in 1 .. NEggs, Good(n - 1) PROVE Good(n)
    <3>1. PICK m \in Nat : m = NEggs - n /\ NEggs - (n - 1) = m + 1
      <4>1. NEggs - n \in Nat /\ NEggs - (n - 1) = (NEggs - n) + 1
        BY <1>1
      <4> QED
        BY <4>1
    <3>2. CapGood(h, cs, qs, f[n - 1], m + 1)
      BY <2>2, <3>1
    <3>3. CapGood(h, cs, qs, CapStep(f[n - 1]), m)
      BY <1>1, <3>2, CapStepGood
    <3>4. f[n] = CapStep(f[n - 1])
      BY <1>4 DEF CapRuns
    <3> QED
      BY <3>1, <3>3, <3>4
  <2> HIDE DEF Good
  <2> QED
    BY <1>1, <2>1, <2>2
<1>7. Good(NEggs)
  <2>1. NEggs \in G
    <3> HIDE DEF G
    <3>1. \A n \in 0 .. NEggs : n \in G
      BY <1>1, <1>6, InductionUpto
    <3> QED
      BY <1>1, <3>1
  <2> QED
    BY <2>1
<1>8. CapGood(h, cs, qs, f[NEggs], 0)
  <2>1. NEggs - NEggs = 0
    BY <1>1
  <2> QED
    BY <1>7, <2>1
<1>9. \E qs2 : CapDoes(h, cs, qs, f[NEggs], qs2)
  BY <1>1, <1>8, CapEnds
<1> QED
  BY <1>4, <1>9 DEF CapRuns, c

-----------------------------------------------------------------------------
(* The invariant.                                                          *)

\* The first of what the lord has leaves, or another joins.
LEMMA TailOnce ==
  ASSUME NEW q \in Seq(Egg), q # <<>>, Once(q)
  PROVE  /\ Head(q) \in Egg /\ Head(q) \in Range(q)
         /\ Tail(q) \in Seq(Egg) /\ Once(Tail(q)) /\ Range(Tail(q)) = Range(q) \ {Head(q)}
<1>1. PICK n : n = Len(q)
  OBVIOUS
<1>2. n \in Nat /\ n >= 1 /\ Tail(q) \in Seq(Egg) /\ Len(Tail(q)) = n - 1 /\ Head(q) = q[1]
      /\ \A i \in 1 .. n - 1 : Tail(q)[i] = q[i + 1]
  BY <1>1
<1>3. \A i, j \in 1 .. n : q[i] = q[j] => i = j
  BY <1>1 DEF Once
<1>4. Once(Tail(q))
  <2> SUFFICES ASSUME NEW i \in 1 .. n - 1, NEW j \in 1 .. n - 1, Tail(q)[i] = Tail(q)[j]
               PROVE  i = j
    BY <1>2 DEF Once
  <2>1. i + 1 \in 1 .. n /\ j + 1 \in 1 .. n /\ q[i + 1] = q[j + 1]
    BY <1>2
  <2>2. i + 1 = j + 1
    BY <1>3, <2>1
  <2> QED
    BY <1>2, <2>2
<1>5. \A f : f \in Range(q) <=> \E i \in 1 .. n : f = q[i]
  <2>1. DOMAIN q = 1 .. n
    BY <1>1
  <2> QED
    BY <2>1 DEF Range
<1>6. \A f : f \in Range(Tail(q)) <=> \E i \in 1 .. n - 1 : f = q[i + 1]
  <2>1. PICK t : t = Tail(q)
    OBVIOUS
  <2>2. DOMAIN t = 1 .. n - 1
    BY <1>2, <2>1
  <2>3. \A f : f \in Range(t) <=> \E i \in 1 .. n - 1 : f = t[i]
    BY <2>2 DEF Range
  <2> QED
    BY <1>2, <2>1, <2>3
<1>7. \A f : f \in Range(Tail(q)) <=> f \in Range(q) /\ f # q[1]
  <2> TAKE f
  <2>1. ASSUME NEW i \in 1 .. n - 1, f = q[i + 1] PROVE f \in Range(q) /\ f # q[1]
    <3>1. i + 1 \in 1 .. n /\ 1 \in 1 .. n /\ i + 1 # 1
      BY <1>2
    <3>2. q[i + 1] # q[1]
      BY <1>3, <3>1
    <3> QED
      BY <1>5, <2>1, <3>1, <3>2
  <2>2. ASSUME NEW i \in 1 .. n, f = q[i], f # q[1] PROVE f \in Range(Tail(q))
    <3>1. i # 1
      BY <2>2
    <3>2. PICK j \in 1 .. n - 1 : j + 1 = i
      <4>1. i - 1 \in 1 .. n - 1 /\ (i - 1) + 1 = i
        BY <1>2, <3>1
      <4> QED
        BY <4>1
    <3> QED
      BY <1>6, <2>2, <3>2
  <2> QED
    BY <1>5, <1>6, <2>1, <2>2
<1>8. Head(q) \in Egg /\ Head(q) \in Range(q)
  BY <1>1, <1>2, RangeOf
<1> QED
  BY <1>2, <1>4, <1>7, <1>8

\* Another joins what the lord has.
LEMMA AppendOnce ==
  ASSUME NEW q \in Seq(Egg), Once(q), NEW e \in Egg, e \notin Range(q)
  PROVE  Append(q, e) \in Seq(Egg) /\ Once(Append(q, e)) /\ Range(Append(q, e)) = Range(q) \cup {e}
<1>1. PICK n : n = Len(q)
  OBVIOUS
<1>2. n \in Nat /\ Append(q, e) \in Seq(Egg) /\ Len(Append(q, e)) = n + 1
      /\ \A i \in 1 .. n + 1 : Append(q, e)[i] = IF i = n + 1 THEN e ELSE q[i]
  BY <1>1
<1>3. (\A i, j \in 1 .. n : q[i] = q[j] => i = j) /\ \A i \in 1 .. n : q[i] # e
  BY <1>1, RangeOf DEF Once
<1>4. Once(Append(q, e))
  <2> SUFFICES ASSUME NEW i \in 1 .. n + 1, NEW j \in 1 .. n + 1, Append(q, e)[i] = Append(q, e)[j]
               PROVE  i = j
    BY <1>2 DEF Once
  <2>1. PICK t : t = Append(q, e)
    OBVIOUS
  <2>2. \A k \in 1 .. n + 1 : t[k] = IF k = n + 1 THEN e ELSE q[k]
    BY <1>2, <2>1
  <2>3. \A k \in 1 .. n + 1 : k # n + 1 => k \in 1 .. n
    BY <1>2
  <2>4. CASE i = n + 1
    BY <1>3, <2>1, <2>2, <2>3, <2>4
  <2>5. CASE i # n + 1
    <3>1. i \in 1 .. n /\ t[i] = q[i]
      BY <2>2, <2>3, <2>5
    <3>2. j # n + 1
      BY <1>3, <2>1, <2>2, <3>1
    <3>3. j \in 1 .. n /\ t[j] = q[j]
      BY <2>2, <2>3, <3>2
    <3> QED
      BY <1>3, <2>1, <3>1, <3>3
  <2> QED
    BY <2>4, <2>5
<1>5. \A f : f \in Range(q) <=> \E i \in 1 .. n : f = q[i]
  <2>1. DOMAIN q = 1 .. n
    BY <1>1
  <2> QED
    BY <2>1 DEF Range
<1>6. \A f : f \in Range(Append(q, e)) <=> \E i \in 1 .. n + 1 : f = Append(q, e)[i]
  <2>1. PICK t : t = Append(q, e)
    OBVIOUS
  <2>2. DOMAIN t = 1 .. n + 1
    BY <1>2, <2>1
  <2>3. \A f : f \in Range(t) <=> \E i \in 1 .. n + 1 : f = t[i]
    BY <2>2 DEF Range
  <2> QED
    BY <2>1, <2>3
<1>7. \A f : f \in Range(Append(q, e)) <=> f \in Range(q) \/ f = e
  <2> TAKE f
  <2>1. ASSUME NEW i \in 1 .. n PROVE i \in 1 .. n + 1 /\ Append(q, e)[i] = q[i]
    BY <1>2
  <2>2. n + 1 \in 1 .. n + 1 /\ Append(q, e)[n + 1] = e
    BY <1>2
  <2>3. ASSUME NEW i \in 1 .. n + 1 PROVE Append(q, e)[i] = e \/ (i \in 1 .. n /\ Append(q, e)[i] = q[i])
    BY <1>2
  <2>4. ASSUME f \in Range(q) PROVE f \in Range(Append(q, e))
    BY <1>5, <1>6, <2>1, <2>4
  <2>5. ASSUME f = e PROVE f \in Range(Append(q, e))
    BY <1>6, <2>2, <2>5
  <2>6. ASSUME f \in Range(Append(q, e)) PROVE f \in Range(q) \/ f = e
    BY <1>5, <1>6, <2>3, <2>6
  <2> QED
    BY <2>4, <2>5, <2>6
<1> QED
  BY <1>2, <1>4, <1>7

\* What lists make of the types.
LEMMA ListsType ==
  ASSUME NEW h, NEW cs, NEW qs, Lists(h, cs, qs)
  PROVE  /\ h \in [Egg -> Ovum]
         /\ cs \in [Driver -> [ext : Egg \cup {0}, ent : Egg \cup {0}, dep : 0 .. NEggs]]
<1>1. h \in HeapOK /\ cs \in [Driver -> CarOK] /\ \A d \in Driver : Chained(h, cs[d], qs[d])
  BY DEF Lists
<1>2. ASSUME NEW d \in Driver PROVE cs[d] \in [ext : Egg0, ent : Egg0, dep : 0 .. NEggs]
  <2>1. cs[d].dep \in 0 .. NEggs
    BY <1>1, <1>2, OnceIsShort DEF Chained
  <2>2. cs[d] \in [ext : Egg0, ent : Egg0, dep : Nat]
    BY <1>1, <1>2 DEF CarOK
  <2> QED
    BY <2>1, <2>2
<1>3. cs = [d \in Driver |-> cs[d]]
  BY <1>1
<1> QED
  BY <1>1, <1>2, <1>3 DEF HeapOK, Egg0

\* Without any list.
LEMMA NoLists ==
  ASSUME NEW h, NEW cs, h = [e \in Egg |-> Free],
         cs = [d \in Driver |-> [ext |-> 0, ent |-> 0, dep |-> 0]]
  PROVE  Lists(h, cs, [d \in Driver |-> <<>>])
<1> DEFINE qs == [d \in Driver |-> <<>>]
<1>1. Free \in Ovum
  BY AutoAssumption DEF Free, Ovum
<1>2. h \in HeapOK /\ \A e \in Egg : h[e].sat # "plan"
  BY <1>1 DEF HeapOK, Free
<1>3. cs \in [Driver -> CarOK] /\ qs \in [Driver -> Seq(Egg)]
  BY DEF CarOK, Egg0
<1>4. <<>> \in Seq(Egg) /\ Once(<<>>) /\ Range(<<>>) = {} /\ At(<<>>, 1) = 0 /\ At(<<>>, Len(<<>>)) = 0
  BY DEF Once, Range, At
<1>5. \A d \in Driver : Chained(h, cs[d], qs[d])
  BY <1>4 DEF Chained
<1>6. \A d \in Driver : Range(qs[d]) = {}
  BY <1>4
<1> HIDE DEF qs
<1>7. Lists(h, cs, qs)
  BY <1>2, <1>3, <1>5, <1>6 DEF Lists
<1> QED
  BY <1>7 DEF qs

\* A list is what Along follows, one way and the other.
LEMMA ListIs ==
  ASSUME NEW h \in HeapOK, NEW c \in CarOK, NEW q, Chained(h, c, q)
  PROVE  Ahead(h, c.ext) = q /\ Behind(h, c.ent) = Reverse(q) /\ c.dep = Len(q)
<1>1. PICK n : n = Len(q)
  OBVIOUS
<1>2. /\ q \in Seq(Egg) /\ n \in 0 .. NEggs /\ n \in Nat
      /\ c.ext = At(q, 1) /\ c.ent = At(q, n) /\ c.dep = n
      /\ \A i \in 1 .. n : h[q[i]].nex = At(q, i + 1) /\ h[q[i]].pre = At(q, i - 1) /\ q[i] \in Egg
  BY <1>1, OnceIsShort DEF Chained
<1> DEFINE x == [p \in Egg |-> h[p].nex]
           y == [p \in Egg |-> h[p].pre]
           r == Reverse(q)
<1>3. x \in LinkOf /\ y \in LinkOf
  BY DEF LinkOf, HeapOK, Ovum, Egg0
<1>4. Along(x, At(q, 1)) = q
  <2>1. \A i \in 1 .. n : x[q[i]] = At(q, i + 1)
    BY <1>2
  <2> HIDE DEF x
  <2> QED
    BY <1>1, <1>2, <1>3, <2>1, AlongIs
<1>5. r \in Seq(Egg) /\ Len(r) = n /\ \A i \in 1 .. n : r[i] = q[n - i + 1]
  BY <1>1, <1>2 DEF Reverse
<1> HIDE DEF r
<1>6. \A i \in 1 .. n : y[r[i]] = At(r, i + 1)
  <2> TAKE i \in 1 .. n
  <2>1. PICK j \in 1 .. n : j = n - i + 1
    <3>1. n - i + 1 \in 1 .. n
      BY <1>2
    <3> QED
      BY <3>1
  <2>2. y[r[i]] = At(q, j - 1)
    BY <1>2, <1>5, <2>1
  <2>3. At(q, j - 1) = At(r, i + 1)
    <3>1. CASE i = n
      <4>1. j - 1 \notin 1 .. n /\ i + 1 \notin 1 .. n
        BY <1>2, <2>1, <3>1
      <4> QED
        BY <1>1, <1>5, <4>1 DEF At
    <3>2. CASE i # n
      <4>1. j - 1 \in 1 .. n /\ i + 1 \in 1 .. n /\ n - (i + 1) + 1 = j - 1
        BY <1>2, <2>1, <3>2
      <4> QED
        BY <1>1, <1>5, <4>1 DEF At
    <3> QED
      BY <3>1, <3>2
  <2> QED
    BY <2>2, <2>3
<1>7. At(r, 1) = At(q, n)
  <2>1. CASE n = 0
    BY <1>1, <1>5, <2>1 DEF At
  <2>2. CASE n # 0
    <3>1. 1 \in 1 .. n /\ n \in 1 .. n /\ n - 1 + 1 = n
      BY <1>2, <2>2
    <3> QED
      BY <1>1, <1>5, <3>1 DEF At
  <2> QED
    BY <2>1, <2>2
<1>8. Along(y, At(r, 1)) = r
  <2> HIDE DEF y
  <2> QED
    BY <1>2, <1>3, <1>5, <1>6, AlongIs
<1> QED
  BY <1>1, <1>2, <1>4, <1>7, <1>8 DEF Ahead, Behind, r

\* What the lists of a heap are for module Ova, before and after a step.
LEMMA QueuesAre ==
  ASSUME NEW qs, Lists(egg, car, qs)
  PROVE  QueueMap = qs
<1>1. \A d \in Driver : Queue(d) = qs[d]
  BY ListIs DEF Lists, Queue
<1> QED
  BY <1>1 DEF QueueMap, Lists

\* The same after a step.
LEMMA QueuesNext ==
  ASSUME NEW qs, Lists(egg', car', qs)
  PROVE  QueueMap' = qs
<1>1. \A d \in Driver : Queue(d)' = qs[d]
  BY ListIs DEF Lists, Queue
<1> QED
  BY <1>1 DEF QueueMap, Lists

\* What module Ova sees of a cell.
Look(g) == [car |-> g.car, kind |-> g.kind, try |-> g.try]

\* What an ovum is to module Ova.
LEMMA WhatIs ==
  /\ WhatMap \in [Egg -> {Look(egg[e]) : e \in Egg}] /\ \A e \in Egg : WhatMap[e] = Look(egg[e])
  /\ WhatMap' \in [Egg -> {Look(egg'[e]) : e \in Egg}] /\ \A e \in Egg : WhatMap'[e] = Look(egg'[e])
BY DEF WhatMap, Look

\* Of one cell a step changed more than the links.
LEMMA WhatNext ==
  ASSUME NEW e \in Egg, \A f \in Egg \ {e} : SameLook(egg'[f], egg[f])
  PROVE  WhatMap' = [WhatMap EXCEPT ![e] = Look(egg'[e])]
<1>1. \A f \in Egg \ {e} : Look(egg'[f]) = Look(egg[f])
  BY DEF SameLook, Look
<1> DEFINE a == WhatMap
           b == WhatMap'
           x == Look(egg'[e])
<1>2. /\ a = [f \in Egg |-> a[f]] /\ b = [f \in Egg |-> b[f]]
      /\ b[e] = x /\ \A f \in Egg \ {e} : b[f] = a[f]
  BY <1>1, WhatIs
<1> HIDE DEF a, b, x
<1>3. b = [a EXCEPT ![e] = x]
  BY <1>2
<1> QED
  BY <1>3 DEF a, b, x

\* A free cell is in no use.
LEMMA FreeIsUnused ==
  ASSUME AutoInv, NEW e \in Egg, egg[e].sat = "free"
  PROVE  ~Queues!InUse(e)
<1>1. PICK qs : Lists(egg, car, qs)
  BY DEF AutoInv
<1>2. \A d \in Driver : e \notin Range(qs[d])
  BY <1>1, UnplannedIsOut
<1>3. e \notin Range(sent)
  BY DEF AutoInv
<1>4. QueueMap = qs
  BY <1>1, QueuesAre
<1> QED
  BY <1>2, <1>3, <1>4, SameRange DEF Queues!InUse

\* The invariant's parts but for the types of the cells, which the lists have.
LEMMA InvOf ==
  ASSUME NEW qs, Lists(egg', car', qs),
         sent' \in Seq(Egg), cur' \in 0 .. NDrivers, len' \in 0 .. Batch, gone' \in BOOLEAN,
         \A e \in Egg : (egg'[e].sat = "work" <=> e \in Range(sent')),
         Once(sent'),
         Len(sent') <= Batch,
         cur' # 0 => Len(sent') + len' = Batch /\ ~gone'
  PROVE  AutoInv'
<1>1. AutoTypeOK'
  BY ListsType DEF AutoTypeOK
<1> QED
  BY <1>1 DEF AutoInv

\* At first every list is empty.
LEMMA AutoInitInv == AutoInit => AutoInv
<1> SUFFICES ASSUME AutoInit PROVE AutoInv
  OBVIOUS
<1>1. Lists(egg, car, [d \in Driver |-> <<>>])
  BY NoLists DEF AutoInit
<1>2. AutoTypeOK
  <2>1. /\ egg \in [Egg -> Ovum]
        /\ car \in [Driver -> [ext : Egg \cup {0}, ent : Egg \cup {0}, dep : 0 .. NEggs]]
    BY <1>1, ListsType
  <2>2. sent \in Seq(Egg) /\ cur \in 0 .. NDrivers /\ len \in 0 .. Batch /\ gone \in BOOLEAN
    <3>1. sent = <<>> /\ cur = 0 /\ len = 0 /\ gone = FALSE
      BY DEF AutoInit
    <3>2. 0 \in 0 .. NDrivers /\ 0 \in 0 .. Batch
      BY AutoAssumption
    <3>3. <<>> \in Seq(Egg)
      OBVIOUS
    <3> QED
      BY <3>1, <3>2, <3>3
  <2> QED
    BY <2>1, <2>2 DEF AutoTypeOK
<1>3. \A e \in Egg : (egg[e].sat = "work" <=> e \in Range(sent))
  BY DEF AutoInit, Free, Range
<1>4. Once(sent) /\ Len(sent) <= Batch /\ cur = 0
  BY AutoAssumption DEF AutoInit, Once
<1> QED
  BY <1>1, <1>2, <1>3, <1>4 DEF AutoInv

\* An ovum is planned.
LEMMA PlanInv == AutoInv /\ Plan => AutoInv' /\ Queues!OvaPlan
<1> SUFFICES ASSUME AutoInv, Plan PROVE AutoInv' /\ Queues!OvaPlan
  OBVIOUS
<1>1. PICK qs : Lists(egg, car, qs)
  BY DEF AutoInv
<1>2. PICK d \in Driver, e \in Egg :
        /\ egg[e].sat = "free"
        /\ egg' = PlanHeap([egg EXCEPT ![e] = NewOvum(d, "ovum")], car[d], e)
        /\ car' = [car EXCEPT ![d] = PlanCar(car[d], e)]
  BY DEF Plan, Fresh
<1>3. PICK qs2 : qs2 = [qs EXCEPT ![d] = Append(qs[d], e)]
  OBVIOUS
<1>4. /\ Lists(egg', car', qs2)
      /\ egg'[e].sat = "plan" /\ \A f \in Egg \ {e} : SameLook(egg'[f], egg[f])
      /\ SameLook(egg'[e], NewOvum(d, "ovum"))
  <2>1. "ovum" \in {"hear", "ovum"}
    OBVIOUS
  <2> QED
    BY <1>1, <1>2, <1>3, <2>1, PlanLists
<1>5. \A f \in Egg : (egg'[f].sat = "work" <=> f \in Range(sent'))
  BY <1>2, <1>4 DEF Plan, AutoInv, SameLook
<1>6. AutoInv'
  BY <1>4, <1>5, InvOf DEF Plan, Idle, AutoInv, AutoTypeOK
<1>7. QueueMap' = [QueueMap EXCEPT ![d] = Append(QueueMap[d], e)]
  BY <1>1, <1>3, <1>4, QueuesAre, QueuesNext
<1>8. WhatMap' = [WhatMap EXCEPT ![e] = [Queues!Unused EXCEPT !.car = d]]
  <2>1. Look(egg'[e]) = [car |-> d, kind |-> "ovum", try |-> 0]
    BY <1>4 DEF SameLook, Look, NewOvum, Free
  <2>2. [Queues!Unused EXCEPT !.car = d] = [car |-> d, kind |-> "ovum", try |-> 0]
    BY DEF Queues!Unused
  <2> QED
    BY <1>4, <2>1, <2>2, WhatNext
<1>9. ~gone /\ UNCHANGED <<sent, gone>> /\ ~Queues!InUse(e)
  BY <1>2, FreeIsUnused DEF Plan, Idle
<1> QED
  BY <1>6, <1>7, <1>8, <1>9 DEF Queues!OvaPlan

\* A packet is planned, and ames' queue is capped.
LEMMA PutPacketInv == AutoInv /\ PutPacket => AutoInv' /\ Queues!OvaHear
<1> SUFFICES ASSUME AutoInv, PutPacket PROVE AutoInv' /\ Queues!OvaHear
  OBVIOUS
<1>1. PICK qs : Lists(egg, car, qs)
  BY DEF AutoInv
<1>2. PICK e \in Egg :
        LET h == PlanHeap([egg EXCEPT ![e] = NewOvum(AmesCar, "hear")], car[AmesCar], e)
            s == Capped(h, PlanCar(car[AmesCar], e))
        IN  /\ egg[e].sat = "free"
            /\ egg' = s.heap
            /\ car' = [car EXCEPT ![AmesCar] = s.car]
  BY DEF PutPacket, Fresh
<1> DEFINE h == PlanHeap([egg EXCEPT ![e] = NewOvum(AmesCar, "hear")], car[AmesCar], e)
           c == PlanCar(car[AmesCar], e)
           s == Capped(h, c)
           cs == [car EXCEPT ![AmesCar] = c]
           q == Append(qs[AmesCar], e)
           qs1 == [qs EXCEPT ![AmesCar] = q]
<1>3. egg[e].sat = "free" /\ egg' = s.heap /\ car' = [car EXCEPT ![AmesCar] = s.car]
  BY <1>2
<1>4. /\ Lists(h, cs, qs1) /\ h[e].sat = "plan" /\ \A f \in Egg \ {e} : SameLook(h[f], egg[f])
      /\ SameLook(h[e], NewOvum(AmesCar, "hear"))
  <2>1. "hear" \in {"hear", "ovum"} /\ AmesCar \in Driver
    BY AutoAssumption
  <2> QED
    BY <1>1, <1>3, <2>1, PlanLists
<1>5. cs[AmesCar] = c /\ car' = [cs EXCEPT ![AmesCar] = s.car] /\ qs1[AmesCar] = q
  BY <1>1, <1>3, AutoAssumption DEF Lists
<1> HIDE DEF h, c, cs, qs1, s, q
<1>6. PICK qs2 : CapDoes(h, cs, qs1, s, qs2)
  <2>1. \E qs2 : CapDoes(h, cs, qs1, Capped(h, cs[AmesCar]), qs2)
    BY <1>4, CapLists
  <2> QED
    BY <1>5, <2>1 DEF s
<1>7. PICK r, lost : r = qs2[AmesCar] /\ lost = Range(q) \ Range(r)
  OBVIOUS
<1>8. /\ Lists(egg', car', qs2)
      /\ \A d \in Driver \ {AmesCar} : qs2[d] = qs1[d]
      /\ Queues!PartOf(r, q)
      /\ \A f \in lost : h[f].kind = "hear" /\ SameLook(egg'[f], Free)
      /\ \A f \in Egg \ lost : SameLook(egg'[f], h[f])
      /\ \A x \in lost, f \in Range(r) : h[f].kind = "hear" => Queues!Precedes(q, x, f)
      /\ Len(r) < Cap => lost = {}
      /\ Len(r) > Cap => \A f \in Range(r) : h[f].kind # "hear"
  BY <1>3, <1>5, <1>6, <1>7 DEF CapDoes, CapLost, CapKept
<1>9. /\ AmesCar \in Driver /\ qs \in [Driver -> Seq(Egg)] /\ qs1 \in [Driver -> Seq(Egg)]
      /\ qs2 \in [Driver -> Seq(Egg)] /\ q \in Seq(Egg) /\ r \in Seq(Egg)
      /\ \A f \in Range(q) : f \in Egg /\ h[f].sat = "plan"
  <2>1. AmesCar \in Driver
    BY AutoAssumption
  <2>2. qs \in [Driver -> Seq(Egg)] /\ qs1 \in [Driver -> Seq(Egg)] /\ qs2 \in [Driver -> Seq(Egg)]
    BY <1>1, <1>4, <1>8 DEF Lists
  <2>3. q \in Seq(Egg) /\ r \in Seq(Egg)
    BY <1>5, <1>7, <2>1, <2>2
  <2>4. \A f \in Range(q) : h[f].sat = "plan"
    BY <1>4, <1>5, <2>1 DEF Lists
  <2> QED
    BY <2>1, <2>2, <2>3, <2>4, RangeOf
<1>10. \A f \in Egg : (egg'[f].sat = "work" <=> f \in Range(sent'))
  <2> TAKE f \in Egg
  <2>1. egg[f].sat = "work" <=> f \in Range(sent')
    BY DEF AutoInv, PutPacket
  <2>2. h[f].sat = "work" <=> egg[f].sat = "work"
    BY <1>3, <1>4 DEF SameLook
  <2>3. CASE f \in lost
    BY <1>7, <1>8, <1>9, <2>1, <2>2, <2>3 DEF SameLook, Free
  <2>4. CASE f \notin lost
    BY <1>8, <2>1, <2>2, <2>4 DEF SameLook
  <2> QED
    BY <2>3, <2>4
<1>11. AutoInv'
  BY <1>8, <1>10, InvOf DEF PutPacket, Idle, AutoInv, AutoTypeOK
<1>12. QueueMap = qs /\ QueueMap' = qs2
  BY <1>1, <1>8, QueuesAre, QueuesNext
<1>13. QueueMap' = [QueueMap EXCEPT ![AmesCar] = QueueMap'[AmesCar]]
  <2>1. \A d \in Driver \ {AmesCar} : qs2[d] = qs[d]
    BY <1>8, <1>9 DEF qs1
  <2>2. qs2 = [qs EXCEPT ![AmesCar] = qs2[AmesCar]]
    BY <1>9, <2>1
  <2> QED
    BY <1>12, <2>2
<1> DEFINE w == [WhatMap EXCEPT ![e] = [Queues!Unused EXCEPT !.car = AmesCar, !.kind = "hear"]]
<1>14. \A f \in Egg : w[f] = Look(h[f])
  <2>1. [Queues!Unused EXCEPT !.car = AmesCar, !.kind = "hear"]
          = [car |-> AmesCar, kind |-> "hear", try |-> 0]
    <3>1. PICK d, u : d = AmesCar /\ u = Queues!Unused
      OBVIOUS
    <3>2. u \in [car : {0, d}, kind : {"ovum", "hear"}, try : {0}]
      BY <3>1 DEF Queues!Unused
    <3>3. [u EXCEPT !.car = d, !.kind = "hear"] = [car |-> d, kind |-> "hear", try |-> 0]
      <4> DEFINE v == [u EXCEPT !.car = d, !.kind = "hear"]
      <4>1. /\ v \in [car : {0, d}, kind : {"ovum", "hear"}, try : {0}]
            /\ v.car = d /\ v.kind = "hear" /\ v.try = 0
        BY <3>2
      <4> HIDE DEF v
      <4>2. v = [car |-> d, kind |-> "hear", try |-> 0]
        BY <4>1
      <4> QED
        BY <4>2 DEF v
    <3> QED
      BY <3>1, <3>3
  <2>2. Look(h[e]) = [car |-> AmesCar, kind |-> "hear", try |-> 0]
    BY <1>4 DEF SameLook, Look, NewOvum, Free
  <2>3. \A f \in Egg \ {e} : Look(h[f]) = Look(egg[f])
    BY <1>4 DEF SameLook, Look
  <2> QED
    BY <2>1, <2>2, <2>3, WhatIs
<1> HIDE DEF w
<1>15. \A f \in Egg : w[f].kind = h[f].kind
  <2> TAKE f \in Egg
  <2>1. Look(h[f]).kind = h[f].kind
    BY DEF Look
  <2> QED
    BY <1>14, <2>1
<1>16. Queues!OnlyOldest(lost, q, r, w)
  <2>1. \A f \in lost : f \in Egg
    BY <1>7, <1>9
  <2>2. \A f \in Range(r) : f \in Egg
    BY <1>9, RangeOf
  <2> QED
    BY <1>8, <1>15, <2>1, <2>2, SameRange DEF Queues!OnlyOldest
<1>17. WhatMap' = [f \in Egg |-> IF f \in lost THEN Queues!Unused ELSE w[f]]
  <2>1. ASSUME NEW f \in Egg PROVE Look(egg'[f]) = IF f \in lost THEN Queues!Unused ELSE w[f]
    <3>1. CASE f \in lost
      BY <1>8, <3>1 DEF SameLook, Look, Free, Queues!Unused
    <3>2. CASE f \notin lost
      BY <1>8, <1>14, <3>2 DEF SameLook, Look
    <3> QED
      BY <3>1, <3>2
  <2> QED
    BY <2>1 DEF WhatMap, Look
<1>18. ~gone /\ UNCHANGED <<sent, gone>> /\ ~Queues!InUse(e)
  BY <1>3, FreeIsUnused DEF PutPacket, Idle
<1>19. Append(QueueMap[AmesCar], e) = q /\ QueueMap'[AmesCar] = r /\ lost = Queues!Range(q) \ Queues!Range(r)
  BY <1>7, <1>12, SameRange DEF q
<1>20. Queues!OvaHear
  <2> DEFINE x == Append(QueueMap[AmesCar], e)
             y == QueueMap'[AmesCar]
             z == Queues!Range(x) \ Queues!Range(y)
  <2>1. x = q /\ y = r /\ z = lost
    BY <1>19
  <2> HIDE DEF x, y, z
  <2>2. Queues!PartOf(y, x) /\ Queues!OnlyOldest(z, x, y, w)
    BY <1>8, <1>16, <2>1
  <2>3. WhatMap' = [f \in Egg |-> IF f \in z THEN Queues!Unused ELSE w[f]]
    BY <1>17, <2>1
  <2>4. QueueMap' = [QueueMap EXCEPT ![AmesCar] = y]
    BY <1>13 DEF y
  <2> QED
    BY <1>18, <2>2, <2>3, <2>4, Zenon DEF Queues!OvaHear, w, x, y, z
<1> QED
  BY <1>11, <1>20

\* An ovum goes to the lord.
LEMMA SendOneInv == AutoInv /\ SendOne => AutoInv' /\ Queues!OvaSend
<1> SUFFICES ASSUME AutoInv, SendOne PROVE AutoInv' /\ Queues!OvaSend
  OBVIOUS
<1>1. PICK qs : Lists(egg, car, qs)
  BY DEF AutoInv
<1>2. PICK d \in cur .. NDrivers :
        LET e == car[d].ext IN
        /\ e # 0
        /\ egg' = NextHeap(egg, e)
        /\ car' = [car EXCEPT ![d] = NextCar(egg, car[d], e)]
        /\ sent' = Append(sent, e)
        /\ cur' = d /\ len' = len - 1
  BY DEF SendOne
<1>3. /\ d \in Driver /\ cur' \in 0 .. NDrivers /\ len' \in 0 .. Batch /\ gone' = gone /\ ~gone
      /\ Len(sent) + len = Batch /\ len \in Nat /\ len > 0 /\ len' = len - 1 /\ Batch \in Nat
      /\ cur' # 0
  BY <1>2, AutoAssumption DEF SendOne, AutoInv, AutoTypeOK, Driver
<1>4. PICK e, qs2 : e = car[d].ext /\ qs2 = [qs EXCEPT ![d] = Tail(qs[d])]
  OBVIOUS
<1>5. /\ e \in Egg /\ egg[e].sat = "plan" /\ Lists(egg', car', qs2)
      /\ egg'[e].sat = "work" /\ qs[d] # <<>> /\ e = Head(qs[d])
      /\ \A f \in Egg : /\ f # e => egg'[f].sat = egg[f].sat
                        /\ egg'[f].car = egg[f].car /\ egg'[f].kind = egg[f].kind
                        /\ egg'[f].try = egg[f].try
  <2>1. /\ egg' = NextHeap(egg, e) /\ car' = [car EXCEPT ![d] = NextCar(egg, car[d], e)] /\ e # 0
    BY <1>2, <1>4
  <2>2. NextDoes(egg, car, qs, d, e)
    BY <1>1, <1>3, <1>4, <2>1, NextLists
  <2> QED
    BY <1>4, <2>1, <2>2 DEF NextDoes
<1>6. /\ sent \in Seq(Egg) /\ Once(sent) /\ e \notin Range(sent) /\ sent' = Append(sent, e)
      /\ \A f \in Egg : (egg[f].sat = "work" <=> f \in Range(sent))
  BY <1>2, <1>4, <1>5 DEF AutoInv, AutoTypeOK
<1>7. sent' \in Seq(Egg) /\ Once(sent') /\ Range(sent') = Range(sent) \cup {e}
  BY <1>5, <1>6, AppendOnce
<1>8. \A f \in Egg : (egg'[f].sat = "work" <=> f \in Range(sent'))
  BY <1>5, <1>6, <1>7
<1>9. Len(sent) \in Nat /\ Len(sent') = Len(sent) + 1
  BY <1>5, <1>6
<1>10. Len(sent) < Batch /\ Len(sent') <= Batch /\ Len(sent') + len' = Batch
  BY <1>3, <1>9
<1>11. AutoInv'
  <2>1. gone' \in BOOLEAN
    BY <1>3 DEF AutoInv, AutoTypeOK
  <2> QED
    BY <1>3, <1>5, <1>7, <1>8, <1>10, <2>1, InvOf
<1>12. QueueMap = qs /\ QueueMap' = [QueueMap EXCEPT ![d] = Tail(QueueMap[d])]
  BY <1>1, <1>4, <1>5, QueuesAre, QueuesNext
<1>13. WhatMap' = WhatMap
  BY <1>5 DEF WhatMap
<1> QED
  BY <1>3, <1>5, <1>6, <1>10, <1>11, <1>12, <1>13 DEF Queues!OvaSend

\* What no cell's step changes.
LEMMA SameMaps ==
  ASSUME egg' = egg, car' = car
  PROVE  QueueMap' = QueueMap /\ WhatMap' = WhatMap
BY DEF QueueMap, WhatMap, Queue

\* A batch begins, or ends.
LEMMA SendInv == AutoInv /\ (SendStart \/ SendEnd) => AutoInv' /\ UNCHANGED <<QueueMap, WhatMap, sent, gone>>
<1> SUFFICES ASSUME AutoInv, SendStart \/ SendEnd
             PROVE  AutoInv' /\ UNCHANGED <<QueueMap, WhatMap, sent, gone>>
  OBVIOUS
<1>1. /\ egg' = egg /\ car' = car /\ sent' = sent /\ gone' = gone
      /\ cur' \in 0 .. NDrivers /\ len' \in 0 .. Batch
      /\ cur' # 0 => Len(sent) + len' = Batch /\ ~gone
  <2>1. CASE SendStart
    <3>1. Len(sent) \in Nat /\ Batch \in Nat /\ 1 \in 0 .. NDrivers
      BY AutoAssumption DEF AutoInv, AutoTypeOK, Driver
    <3> QED
      BY <2>1, <3>1 DEF SendStart, Idle
  <2>2. CASE SendEnd
    BY <2>2, AutoAssumption DEF SendEnd
  <2> QED
    BY <2>1, <2>2
<1>2. AutoInv'
  BY <1>1 DEF AutoInv, AutoTypeOK
<1> QED
  BY <1>1, <1>2, SameMaps

\* What the oldest ovum that the lord has is.
LEMMA OldestIs ==
  ASSUME AutoInv, sent # <<>>
  PROVE  /\ Head(sent) \in Egg /\ egg[Head(sent)].sat = "work"
         /\ Tail(sent) \in Seq(Egg) /\ Once(Tail(sent))
         /\ \A f \in Egg : (f \in Range(Tail(sent)) <=> egg[f].sat = "work" /\ f # Head(sent))
         /\ Len(Tail(sent)) <= Batch
<1>1. /\ sent \in Seq(Egg) /\ Once(sent)
      /\ \A f \in Egg : (egg[f].sat = "work" <=> f \in Range(sent))
  BY DEF AutoInv, AutoTypeOK
<1>2. /\ Head(sent) \in Egg /\ Head(sent) \in Range(sent)
      /\ Tail(sent) \in Seq(Egg) /\ Once(Tail(sent)) /\ Range(Tail(sent)) = Range(sent) \ {Head(sent)}
  BY <1>1, TailOnce
<1>3. Len(Tail(sent)) <= Batch
  <2>1. Len(sent) \in Nat /\ Batch \in Nat /\ Len(Tail(sent)) = Len(sent) - 1 /\ Len(sent) <= Batch
    BY <1>1, AutoAssumption DEF AutoInv
  <2> QED
    BY <2>1
<1> QED
  BY <1>1, <1>2, <1>3

\* The oldest ovum is freed.
LEMMA FreedInv ==
  ASSUME AutoInv, Idle, sent # <<>>, egg' = [egg EXCEPT ![Head(sent)] = Free], car' = car,
         sent' = Tail(sent), UNCHANGED <<cur, len, gone>>
  PROVE  AutoInv' /\ Queues!OvaEnd
<1>1. PICK qs : Lists(egg, car, qs)
  BY DEF AutoInv
<1>2. PICK e : e = Head(sent)
  OBVIOUS
<1>3. /\ e \in Egg /\ egg[e].sat = "work" /\ sent' \in Seq(Egg) /\ Once(sent')
      /\ \A f \in Egg : (f \in Range(sent') <=> egg[f].sat = "work" /\ f # e)
  BY <1>2, OldestIs
<1>4. Free \in Ovum
  BY AutoAssumption DEF Free, Ovum
<1>5. egg' \in HeapOK /\ egg'[e] = Free /\ \A f \in Egg \ {e} : egg'[f] = egg[f]
  BY <1>1, <1>2, <1>3, <1>4 DEF Lists, HeapOK
<1>6. egg'[e].sat = "free"
  BY <1>5 DEF Free
<1>7. Lists(egg', car', qs)
  BY <1>1, <1>3, <1>5, <1>6, OtherMoves
<1>8. \A f \in Egg : (egg'[f].sat = "work" <=> f \in Range(sent'))
  BY <1>3, <1>5, <1>6
<1>9. Len(sent') <= Batch
  BY OldestIs
<1>10. AutoInv'
  BY <1>3, <1>7, <1>8, <1>9, InvOf DEF Idle, AutoInv, AutoTypeOK
<1>11. QueueMap' = QueueMap
  BY <1>1, <1>7, QueuesAre, QueuesNext
<1>12. WhatMap' = [WhatMap EXCEPT ![e] = Queues!Unused]
  <2>1. Look(egg'[e]) = Queues!Unused
    BY <1>5 DEF Look, Free, Queues!Unused
  <2>2. \A f \in Egg \ {e} : SameLook(egg'[f], egg[f])
    BY <1>5 DEF SameLook
  <2> QED
    BY <1>3, <2>1, <2>2, WhatNext
<1> QED
  BY <1>2, <1>10, <1>11, <1>12 DEF Idle, Queues!OvaEnd

\* An ovum that is done is freed; one that failed may be retried.
LEMMA OvumDoneInv == AutoInv /\ Done => AutoInv' /\ Queues!OvaEnd
BY FreedInv DEF Done

\* It bails, and is freed or tried again.
LEMMA OvumBailInv == AutoInv /\ Bail => AutoInv' /\ (Queues!OvaEnd \/ Queues!OvaRetry)
<1> SUFFICES ASSUME AutoInv, Bail PROVE AutoInv' /\ (Queues!OvaEnd \/ Queues!OvaRetry)
  OBVIOUS
<1>1. CASE egg[Head(sent)].car # BehnCar
  BY <1>1, FreedInv DEF Bail
<1>2. CASE egg[Head(sent)].car = BehnCar
  <2>1. PICK qs : Lists(egg, car, qs)
    BY DEF AutoInv
  <2>2. PICK e : e = Head(sent)
    OBVIOUS
  <2>3. /\ e \in Egg /\ egg[e].sat = "work" /\ sent' \in Seq(Egg) /\ Once(sent')
        /\ \A f \in Egg : (f \in Range(sent') <=> egg[f].sat = "work" /\ f # e)
    BY <2>2, OldestIs DEF Bail
  <2>4. /\ egg[e].car = BehnCar /\ egg[e].try < MaxTry
        /\ egg' = RedoHeap([egg EXCEPT ![e].sat = "plan"], car[BehnCar], e)
        /\ car' = [car EXCEPT ![BehnCar] = RedoCar(car[BehnCar], e)]
    BY <1>2, <2>2 DEF Bail
  <2>5. PICK qs2 : qs2 = [qs EXCEPT ![BehnCar] = <<e>> \o qs[BehnCar]]
    OBVIOUS
  <2>6. /\ Lists(egg', car', qs2) /\ egg'[e].sat = "plan"
        /\ egg'[e].car = BehnCar /\ egg'[e].kind = egg[e].kind /\ egg'[e].try = egg[e].try + 1
        /\ \A f \in Egg \ {e} : SameLook(egg'[f], egg[f])
    <3>1. BehnCar \in Driver
      BY AutoAssumption
    <3> QED
      <4> DEFINE g == RedoHeap([egg EXCEPT ![e].sat = "plan"], car[BehnCar], e)
      <4>1. /\ Lists(g, [car EXCEPT ![BehnCar] = RedoCar(car[BehnCar], e)],
                     [qs EXCEPT ![BehnCar] = <<e>> \o qs[BehnCar]])
            /\ g[e].sat = "plan" /\ g[e].car = BehnCar /\ g[e].kind = egg[e].kind /\ g[e].try = egg[e].try + 1
            /\ \A f \in Egg \ {e} : SameLook(g[f], egg[f])
        <5>1. RedoDoes(egg, car, qs, BehnCar, e, g)
          BY <2>1, <2>3, <2>4, <3>1, RedoLists
        <5> QED
          BY <5>1 DEF RedoDoes
      <4> QED
        BY <2>4, <2>5, <4>1
  <2>7. \A f \in Egg : (egg'[f].sat = "work" <=> f \in Range(sent'))
    BY <2>3, <2>6 DEF SameLook
  <2>8. Len(sent') <= Batch
    BY OldestIs DEF Bail
  <2>9. AutoInv'
    BY <2>3, <2>6, <2>7, <2>8, InvOf DEF Bail, Idle, AutoInv, AutoTypeOK
  <2>10. QueueMap' = [QueueMap EXCEPT ![BehnCar] = <<e>> \o QueueMap[BehnCar]]
    BY <2>1, <2>5, <2>6, QueuesAre, QueuesNext
  <2>11. WhatMap[e] = Look(egg[e]) /\ WhatMap' = [WhatMap EXCEPT ![e] = Look(egg'[e])]
    BY <2>3, <2>6, WhatIs, WhatNext
  <2>12. Look(egg'[e]) = [Look(egg[e]) EXCEPT !.try = @ + 1]
    BY <2>4, <2>6 DEF Look
  <2>13. WhatMap' = [WhatMap EXCEPT ![e].try = @ + 1]
    BY <2>11, <2>12
  <2>14. WhatMap[e].car = BehnCar /\ WhatMap[e].try < MaxTry
    BY <2>4, <2>11 DEF Look
  <2>15. Queues!OvaRetry
    BY <2>2, <2>10, <2>13, <2>14 DEF Bail, Idle, Queues!OvaRetry
  <2> QED
    BY <2>9, <2>15
<1> QED
  BY <1>1, <1>2

\* The pier bails, and nothing is left.
LEMMA BailLastInv == AutoInv /\ BailLast => AutoInv' /\ Queues!OvaGone
<1> SUFFICES ASSUME AutoInv, BailLast PROVE AutoInv' /\ Queues!OvaGone
  OBVIOUS
<1>1. Lists(egg', car', [d \in Driver |-> <<>>])
  BY NoLists DEF BailLast
<1>2. sent' \in Seq(Egg) /\ Once(sent') /\ Range(sent') = {} /\ Len(sent') <= Batch /\ sent' = <<>>
  BY AutoAssumption DEF BailLast, Once, Range
<1>3. \A f \in Egg : (egg'[f].sat = "work" <=> f \in Range(sent'))
  BY <1>2 DEF BailLast, Free
<1>4. cur' = 0 /\ cur' \in 0 .. NDrivers /\ len' \in 0 .. Batch /\ gone' = TRUE /\ gone' \in BOOLEAN /\ ~gone
  BY DEF BailLast, Idle, AutoInv, AutoTypeOK
<1>5. AutoInv'
  BY <1>1, <1>2, <1>3, <1>4, InvOf
<1>6. QueueMap' = [d \in Driver |-> <<>>]
  BY <1>1, QueuesNext
<1>7. WhatMap' = [e \in Egg |-> Queues!Unused]
  <2>1. Look(Free) = Queues!Unused
    BY DEF Look, Free, Queues!Unused
  <2>2. \A e \in Egg : egg'[e] = Free
    BY DEF BailLast
  <2> QED
    BY <2>1, <2>2 DEF WhatMap, Look
<1> QED
  BY <1>2, <1>4, <1>5, <1>6, <1>7 DEF Queues!OvaGone

\* A step of the drivers is a step of module Ova, or none.
LEMMA AutoNextInv == AutoInv /\ [AutoNext]_autoVars => AutoInv' /\ [Queues!OvaNext]_(Queues!ovaVars)
<1> SUFFICES ASSUME AutoInv, [AutoNext]_autoVars PROVE AutoInv' /\ [Queues!OvaNext]_(Queues!ovaVars)
  OBVIOUS
<1>1. CASE UNCHANGED autoVars
  <2>1. AutoInv'
    BY <1>1 DEF autoVars, AutoInv, AutoTypeOK
  <2>2. UNCHANGED <<QueueMap, WhatMap, sent, gone>>
    BY <1>1, SameMaps DEF autoVars
  <2> QED
    BY <2>1, <2>2 DEF Queues!ovaVars
<1>2. CASE AutoNext
  <2>1. CASE Plan
    BY <2>1, PlanInv DEF Queues!OvaNext
  <2>2. CASE PutPacket
    BY <2>2, PutPacketInv DEF Queues!OvaNext
  <2>3. CASE SendOne
    BY <2>3, SendOneInv DEF Queues!OvaNext
  <2>4. CASE SendStart \/ SendEnd
    BY <2>4, SendInv DEF Queues!ovaVars
  <2>5. CASE Done
    BY <2>5, OvumDoneInv DEF Queues!OvaNext
  <2>6. CASE Bail
    BY <2>6, OvumBailInv DEF Queues!OvaNext
  <2>7. CASE BailLast
    BY <2>7, BailLastInv DEF Queues!OvaNext
  <2> QED
    BY <1>2, <2>1, <2>2, <2>3, <2>4, <2>5, <2>6, <2>7 DEF AutoNext, Send
<1> QED
  BY <1>1, <1>2

\* The first state is one of module Ova's.
LEMMA AutoInitOva == AutoInit => Queues!OvaInit
<1> SUFFICES ASSUME AutoInit PROVE Queues!OvaInit
  OBVIOUS
<1>1. Lists(egg, car, [d \in Driver |-> <<>>])
  BY NoLists DEF AutoInit
<1>2. QueueMap = [d \in Driver |-> <<>>]
  BY <1>1, QueuesAre
<1>3. WhatMap = [e \in Egg |-> Queues!Unused]
  <2>1. Look(Free) = Queues!Unused
    BY DEF Look, Free, Queues!Unused
  <2>2. \A e \in Egg : egg[e] = Free
    BY DEF AutoInit
  <2> QED
    BY <2>1, <2>2 DEF WhatMap, Look
<1> QED
  BY <1>2, <1>3 DEF AutoInit, Queues!OvaInit

\* What the inductive invariant says of the links read both ways.
LEMMA AutoInvImplies == AutoInv => LinksAgree
<1> SUFFICES ASSUME AutoInv PROVE LinksAgree
  OBVIOUS
<1>1. PICK qs : Lists(egg, car, qs)
  BY DEF AutoInv
<1>2. \A d \in Driver : /\ Queue(d) = qs[d] /\ Behind(egg, car[d].ent) = Reverse(qs[d])
                         /\ car[d].dep = Len(qs[d])
  BY <1>1, ListIs DEF Lists, Queue
<1>3. \A e \in Egg : (egg[e].sat = "plan" <=> \E d \in Driver : e \in Range(Queue(d)))
  BY <1>1, <1>2 DEF Lists
<1> QED
  BY <1>2, <1>3 DEF LinksAgree, AutoInv

\* However plans, retries, drops from the middle and departures mix, there is a
\* list for each driver that the links make in both directions (vere/auto.c).
THEOREM AutoInvariant == AutoSpec => []AutoInv
<1>1. AutoInit => AutoInv
  BY AutoInitInv
<1>2. AutoInv /\ [AutoNext]_autoVars => AutoInv'
  BY AutoNextInv
<1> QED
  BY <1>1, <1>2, PTL DEF AutoSpec

\* The two directions of every list agree, its count is its length, and every
\* planned ovum is in its own driver's list: none is lost, none is reachable freed.
THEOREM AutoLinksAgree == AutoSpec => []LinksAgree
<1>1. AutoInv => LinksAgree
  BY AutoInvImplies
<1> QED
  BY <1>1, AutoInvariant, PTL

\* The drivers' lists are the queues that module Ova promises: an ovum leaves in the
\* order it came, a retry goes in front, and of ames' only the oldest packets go.
THEOREM AutoKeepsQueues == AutoSpec => QueuesSpec
<1>1. AutoInit => AutoInv /\ Queues!OvaInit
  BY AutoInitInv, AutoInitOva
<1>2. AutoInv /\ [AutoNext]_autoVars => AutoInv' /\ [Queues!OvaNext]_(Queues!ovaVars)
  BY AutoNextInv
<1> QED
  BY <1>1, <1>2, PTL DEF AutoSpec, QueuesSpec, Queues!OvaSpec
=============================================================================
