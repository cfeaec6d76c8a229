-------------------------------- MODULE Cttp --------------------------------
(***************************************************************************)
(* The HTTP client driver (vere/io/cttp.c): %iris asks for a request by    *)
(* number, and may cancel it; the driver looks the host up, connects,      *)
(* sends and gathers the response, each in a callback that holds a pointer *)
(* to the request, and puts one answer into its queue, to free the request.*)
(*                                                                         *)
(* %iris, libuv's lookups and h2o's client are external.  Requests are     *)
(* known by their number here, which %iris never uses again, so that a     *)
(* callback whose request is not in the list has a pointer to freed memory.*)
(***************************************************************************)
EXTENDS Naturals, Sequences, SequencesExt, FiniteSets

CONSTANTS MaxRequests,   \* bound: requests that %iris makes
          MaxParts       \* bound: pieces in which a response's body arrives

ASSUME CttpAssumption == {MaxRequests, MaxParts} \subseteq Nat

VARIABLES iris,          \* by number: "asked", "answered" or "cancelled"
          effs,         \* the effects that are on their way to the driver
          ceq,           \* ctp_u->ceq_u: the requests, the newest first
          adr,           \* lookups under way, by their requests' numbers
          cli,           \* h2o's clients: number -> what is called next
          came,          \* by number, the pieces of a body that came
          plan,          \* the driver's queue of answers (module Auto)
          strange        \* requests that the driver could not read

cttpVars == <<iris, effs, ceq, adr, cli, came, plan, strange>>

\* The numbers of the requests in the list.
Held == {ceq[i].num : i \in DOMAIN ceq}

\* _cttp_creq_find
Find(n) == ceq[CHOOSE i \in DOMAIN ceq : ceq[i].num = n]

-----------------------------------------------------------------------------
(* A request's life, as changes of the list.                               *)

\* _cttp_creq_new, _cttp_creq_link
Linked(n) == <<[num |-> n, sat |-> "init", res |-> << >>]>> \o ceq

\* ceq_u with the request n changed, or without it (_cttp_creq_unlink).
Set(list, n, s) == [i \in DOMAIN list |-> IF list[i].num = n THEN [list[i] EXCEPT !.sat = s] ELSE list[i]]
Unlinked(list, n) == RemoveFirstMatch(list, LAMBDA r : r.num = n)

\* _cttp_cres_fire_body: a piece of the body, as a response or at its end.
FireBody(r, piece) == [r EXCEPT !.res = @ \o piece]

\* _cttp_http_client_receive
Receive(n, sas, bod) == plan' = Append(plan, [num |-> n, sas |-> sas, bod |-> bod])

\* _cttp_creq_fail
Fail(list, n) == Receive(n, 504, << >>) /\ ceq' = Unlinked(list, n)

\* _cttp_creq_respond, of the request r
Respond(r) == Receive(r.num, 200, r.res) /\ ceq' = Unlinked(ceq, r.num)

\* _cttp_creq_connect: h2o fails at once, in a callback that leaves the request to
\* its caller (u3_csat_quit), or calls later.
Connect(list, n) ==
  \/ Fail(list, n) /\ UNCHANGED cli
  \/ /\ ceq' = Set(list, n, "ripe") /\ UNCHANGED plan
     /\ cli' = [m \in DOMAIN cli \cup {n} |-> IF m = n THEN "connect" ELSE cli[m]]

\* _cttp_creq_resolve: as may uv_getaddrinfo.
Resolve(list, n) ==
  \/ Fail(list, n) /\ UNCHANGED adr
  \/ ceq' = Set(list, n, "addr") /\ adr' = adr \cup {n} /\ UNCHANGED plan

-----------------------------------------------------------------------------
(* Effects.                                                                *)

\* _cttp_ef_http_client, of a request: its URL cannot be parsed, names an address
\* (_cttp_creq_start connects) or a host.
EfRequest ==
  /\ effs # << >> /\ Head(effs).tag = "request" /\ effs' = Tail(effs)
  /\ LET n == Head(effs).num IN
       \/ strange' = strange \cup {n} /\ UNCHANGED <<ceq, adr, cli, plan>>
       \/ Connect(Linked(n), n) /\ UNCHANGED <<adr, strange>>
       \/ Resolve(Linked(n), n) /\ UNCHANGED <<cli, strange>>
  /\ UNCHANGED <<iris, came>>

\* Faulty: a request is freed while its lookup goes on.
QuitNow(n) ==
  /\ ceq' = Unlinked(ceq, n)
  /\ cli' = Restrict(cli, DOMAIN cli \ {n})

\* _cttp_creq_quit, of a request in the list: a lookup cannot be called back.
Quit(n) ==
  IF Find(n).sat = "addr" THEN ceq' = Set(ceq, n, "quit") /\ UNCHANGED cli
  ELSE /\ ceq' = Unlinked(ceq, n)
       /\ cli' = Restrict(cli, DOMAIN cli \ {n})

\* ... of a cancellation, accepted whether or not there is such a request.
EfCancel ==
  /\ effs # << >> /\ Head(effs).tag = "cancel" /\ effs' = Tail(effs)
  /\ LET n == Head(effs).num IN IF n \in Held THEN Quit(n) ELSE UNCHANGED <<ceq, cli>>
  /\ UNCHANGED <<iris, adr, came, plan, strange>>

-----------------------------------------------------------------------------
(* Callbacks.  h2o drops its client after an error, and at the end.        *)

\* _cttp_creq_resolve_cb
ResolveCb == \E n \in adr \cap Held :
  /\ adr' = adr \ {n}
  /\ \/ Find(n).sat = "quit" /\ Quit(n) /\ UNCHANGED plan
     \/ Find(n).sat # "quit" /\ Fail(ceq, n) /\ UNCHANGED cli
     \/ Find(n).sat # "quit" /\ Connect(ceq, n)
  /\ UNCHANGED <<iris, effs, came, strange>>

Dropped(n) == Restrict(cli, DOMAIN cli \ {n})

\* A callback with an error: whichever comes next.
OnError == \E n \in DOMAIN cli \cap Held :
  /\ Fail(ceq, n) /\ cli' = Dropped(n)
  /\ UNCHANGED <<iris, effs, adr, came, strange>>

\* _cttp_creq_on_connect, which sends the request (_cttp_creq_fire)
OnConnect == \E n \in DOMAIN cli \cap Held :
  /\ cli[n] = "connect" /\ cli' = [cli EXCEPT ![n] = "head"]
  /\ UNCHANGED <<iris, effs, ceq, adr, came, plan, strange>>

\* _cttp_creq_on_head: the response has no body, or one to come.
OnHead == \E n \in DOMAIN cli \cap Held :
  /\ cli[n] = "head"
  /\ \/ Respond(Find(n)) /\ cli' = Dropped(n)
     \/ cli' = [cli EXCEPT ![n] = "body"] /\ UNCHANGED <<ceq, plan>>
  /\ UNCHANGED <<iris, effs, adr, came, strange>>

\* _cttp_creq_on_body: a piece, perhaps none, and perhaps the last.
OnBody == \E n \in DOMAIN cli \cap Held : \E k \in {0, 1}, eos \in BOOLEAN :
  LET piece == [i \in 1 .. k |-> came[n] + i]
      r == FireBody(Find(n), piece)
  IN /\ cli[n] = "body" /\ came[n] + k <= MaxParts /\ (k = 1 \/ eos)
     /\ came' = [came EXCEPT ![n] = @ + k]
     /\ IF eos THEN Respond(r) /\ cli' = Dropped(n)
        ELSE /\ ceq' = [i \in DOMAIN ceq |-> IF ceq[i].num = n THEN r ELSE ceq[i]]
             /\ UNCHANGED <<cli, plan>>
     /\ UNCHANGED <<iris, effs, adr, strange>>

-----------------------------------------------------------------------------
(* %iris: request:client, cancel:client and receive:client.                *)

IrisRequest ==
  LET n == Len(iris) + 1 IN
  /\ n <= MaxRequests
  /\ iris' = Append(iris, "asked") /\ came' = Append(came, 0)
  /\ effs' = Append(effs, [tag |-> "request", num |-> n])
  /\ UNCHANGED <<ceq, adr, cli, plan, strange>>

IrisCancel == \E n \in DOMAIN iris :
  /\ iris[n] = "asked" /\ iris' = [iris EXCEPT ![n] = "cancelled"]
  /\ effs' = Append(effs, [tag |-> "cancel", num |-> n])
  /\ UNCHANGED <<ceq, adr, cli, came, plan, strange>>

IrisReceive ==
  /\ plan # << >> /\ plan' = Tail(plan)
  /\ iris' = [iris EXCEPT ![Head(plan).num] = IF @ = "asked" THEN "answered" ELSE @]
  /\ UNCHANGED <<effs, ceq, adr, cli, came, strange>>

CttpInit ==
  /\ iris = << >> /\ effs = << >> /\ ceq = << >> /\ adr = {} /\ cli = << >>
  /\ came = << >> /\ plan = << >> /\ strange = {}

CttpNext == \/ EfRequest \/ EfCancel \/ ResolveCb \/ OnError \/ OnConnect \/ OnHead \/ OnBody
            \/ IrisRequest \/ IrisCancel \/ IrisReceive

CttpSpec == CttpInit /\ [][CttpNext]_cttpVars

-----------------------------------------------------------------------------
\* However lookups, connections, errors and cancellations fall together: every
\* callback to come finds its request, and only that callback; what %iris waits for
\* is in one place only, on its way to the driver, held by it, or answered, so that
\* it is answered once; an answer has the whole body in order; and a request whose
\* cancellation was seen is answered no more (vere/io/cttp.c).
IrisIsAnswered ==
  LET Among(n, seq) == Cardinality({i \in DOMAIN seq : seq[i].num = n})
      asked(n) == Cardinality({i \in DOMAIN effs : effs[i] = [tag |-> "request", num |-> n]})
      cancels(n) == Cardinality({i \in DOMAIN effs : effs[i] = [tag |-> "cancel", num |-> n]})
  IN /\ adr = {n \in Held : Find(n).sat \in {"addr", "quit"}}
     /\ DOMAIN cli = {n \in Held : Find(n).sat = "ripe"}
     /\ Held = adr \cup DOMAIN cli
     /\ \A n \in DOMAIN iris :
          /\ asked(n) + Among(n, ceq) + Among(n, plan) <= 1
          /\ iris[n] = "asked" =>
               asked(n) + Among(n, ceq) + Among(n, plan) = (IF n \in strange THEN 0 ELSE 1)
          /\ iris[n] = "answered" => asked(n) + Among(n, ceq) + Among(n, plan) = 0
          /\ iris[n] = "cancelled" /\ cancels(n) = 0 /\ n \in Held => Find(n).sat = "quit"
     /\ \A i \in DOMAIN plan :
          plan[i].bod = (IF plan[i].sas = 504 THEN << >> ELSE [k \in 1 .. came[plan[i].num] |-> k])
=============================================================================
