-------------------------------- MODULE Http --------------------------------
(***************************************************************************)
(* The HTTP server driver (vere/io/http.c): servers, their connections,    *)
(* and the requests on them, between h2o, which owns sockets and requests  *)
(* and lets the driver know when they end, and %eyre, which hears of a     *)
(* request in an event and answers in effects that may come late.          *)
(*                                                                         *)
(* h2o and %eyre are external.  A client may leave at any time.            *)
(***************************************************************************)
EXTENDS Naturals, Sequences, SequencesExt, FiniteSetsExt

CONSTANT Bounds        \* a set of bounds, each of which a behaviour may be given: the
                       \* servers that a configuration starts (2, or 3 with TLS), whether one
                       \* may find no port, and how many configurations, connections, requests
                       \* and parts of an answer there are

ASSUME HttpAssumption ==
  Bounds \subseteq [servers : Nat, fails : BOOLEAN, forms : Nat, conns : Nat, reqs : Nat, says : Nat]

VARIABLES htp,         \* htd_u->htp_u: the servers' numbers, the newest first
          serv,        \* number -> server
          hreq,        \* duct -> request
          peeks,       \* requests whose cookie is being looked up
          form,        \* for_u: does a configuration wait for servers?
          closing,     \* handles that are being closed, the last first
          running,     \* those whose callbacks the loop is making
          eyre,        \* duct -> what %eyre was told, and how far it is
          exited,
          fault,       \* what went wrong with memory or an assertion, which ends a behaviour
          forms,       \* counter
          bound

httpVars == <<bound, htp, serv, hreq, peeks, form, closing, running, eyre, exited, fault, forms>>

\* Callbacks run one by one, and those of closed handles run at the end of a turn.
Turn == running = << >> /\ fault = "none"

ServNew == [lst |-> "open", liv |-> TRUE, shut |-> FALSE, con |-> << >>, nex |-> 1, st |-> "up"]
Closed(h) == h \in Range(closing) \cup Range(running)
Open(s, c) == s \in DOMAIN serv /\ c \in DOMAIN serv[s].con /\ ~Closed(<<s, c>>)

\* A walk over the servers meets one that was freed.
Dangles == \E s \in Range(htp) : serv[s].st = "freed"

-----------------------------------------------------------------------------
(* Requests: sat_e, tim_u by its effect, gen_u (ans, red, dun, bod_u), and *)
(* what h2o was given and %eyre has said.                                  *)

ReqNew(slog, sat) == [slog |-> slog, sat |-> sat, ans |-> FALSE, red |-> FALSE, dun |-> FALSE,
                      bod |-> << >>, fin |-> FALSE, sent |-> << >>, said |-> << >>]

\* _http_hgen_send
HgenSend(r) == [r EXCEPT !.red = FALSE, !.bod = << >>, !.sent = @ \o r.bod, !.fin = r.dun]

\* _http_start_respond, of a request that was not answered
StartRespond(r, data, complete) ==
  HgenSend([r EXCEPT !.sat = "ripe", !.ans = TRUE, !.red = TRUE, !.dun = complete,
                     !.bod = data, !.said = data])

\* Faulty: what waits is replaced, not added to.
ContinueOver(r, data, complete) ==
  LET s == [r EXCEPT !.dun = complete, !.bod = data, !.said = @ \o data]
  IN IF s.red THEN HgenSend(s) ELSE s

\* _http_continue_respond, of one that was
ContinueRespond(r, data, complete) ==
  LET s == [r EXCEPT !.dun = complete, !.bod = @ \o data, !.said = @ \o data]
  IN IF s.red THEN HgenSend(s) ELSE s

\* The next part of a body, if there is one.
Says(k) == {<< >>} \cup (IF Len(hreq[k].said) < bound.says THEN {<<Len(hreq[k].said) + 1>>} ELSE {})

\* _http_req_kill
Kill(k) == eyre' = [eyre EXCEPT ![k].cancels = @ + 1]

\* A function that has v at k, which it had not.
Added(f, k, v) == [j \in DOMAIN f \cup {k} |-> IF j = k THEN v ELSE f[j]]

\* _http_req_link, _http_seq_link: the request's duct.
Duct(s, c) == <<s, c, serv[s].con[c]>>
Heard(asked) == [asked |-> asked, cancels |-> 0, all |-> FALSE, tells |-> "nothing"]
Link(s, c, r, asked) ==
  /\ Cardinality(DOMAIN eyre) < bound.reqs
  /\ hreq' = Added(hreq, Duct(s, c), r) /\ eyre' = Added(eyre, Duct(s, c), Heard(asked))
  /\ serv' = [serv EXCEPT ![s].con[c] = @ + 1]

\* _http_rec_accept, _http_req_dispatch
RecAccept == \E s \in DOMAIN serv : \E c \in DOMAIN serv[s].con :
  /\ Turn /\ Open(s, c) /\ Link(s, c, ReqNew(FALSE, "plan"), TRUE)
  /\ UNCHANGED <<htp, peeks, form, closing, running, exited, fault, forms>>

\* _http_seq_accept: without a cookie, no; with one, we shall see.
SeqRefuse == \E s \in DOMAIN serv : \E c \in DOMAIN serv[s].con :
  /\ Turn /\ Open(s, c) /\ Link(s, c, StartRespond(ReqNew(FALSE, "plan"), << >>, TRUE), FALSE)
  /\ UNCHANGED <<htp, peeks, form, closing, running, exited, fault, forms>>
SeqPeek == \E s \in DOMAIN serv : \E c \in DOMAIN serv[s].con :
  /\ Turn /\ Open(s, c) /\ ~exited /\ peeks = {}
  /\ peeks' = {[srv |-> s, con |-> c, gone |-> FALSE]}
  /\ UNCHANGED <<htp, serv, hreq, form, closing, running, eyre, exited, fault, forms>>

\* _http_seq_continue: the answer is for h2o's request, there or not.
SeqContinue == \E p \in peeks, aut \in BOOLEAN :
  /\ Turn /\ peeks' = peeks \ {p}
  /\ IF p.gone THEN fault' = "request is gone" /\ UNCHANGED <<serv, hreq, eyre>>
     ELSE UNCHANGED fault /\ Link(p.srv, p.con, StartRespond(ReqNew(aut, "plan"), << >>, ~aut), FALSE)
  /\ UNCHANGED <<htp, form, closing, running, exited, forms>>
PeekGone == \E p \in peeks :
  /\ Turn /\ ~p.gone /\ peeks' = {[p EXCEPT !.gone = TRUE]}
  /\ UNCHANGED <<htp, serv, hreq, form, closing, running, eyre, exited, fault, forms>>

\* _http_hgen_proceed: h2o has sent what it was given.
Proceed == \E k \in DOMAIN hreq :
  LET r == [hreq[k] EXCEPT !.red = TRUE] IN
  /\ Turn /\ hreq[k].ans /\ ~hreq[k].red /\ ~hreq[k].fin
  /\ hreq' = [hreq EXCEPT ![k] = IF r.bod # << >> \/ r.dun THEN HgenSend(r) ELSE r]
  /\ UNCHANGED <<htp, serv, peeks, form, closing, running, eyre, exited, fault, forms>>

\* _http_req_timer_cb: the answer is h2o's own 504.
ReqTimer == \E k \in DOMAIN hreq :
  /\ Turn /\ hreq[k].sat = "plan"
  /\ Kill(k) /\ hreq' = [hreq EXCEPT ![k].sat = "ripe"]
  /\ UNCHANGED <<htp, serv, peeks, form, closing, running, exited, fault, forms>>

\* _http_hgen_stop, then _http_req_done or _http_seq_done: h2o ends a request.
ReqDone == \E k \in DOMAIN hreq :
  LET r == hreq[k] IN
  /\ Turn /\ hreq' = Restrict(hreq, DOMAIN hreq \ {k})
  /\ IF r.sat = "plan" \/ (r.ans /\ ~r.fin /\ ~r.dun) THEN Kill(k) ELSE UNCHANGED eyre
  /\ UNCHANGED <<htp, serv, peeks, form, closing, running, exited, fault, forms>>

-----------------------------------------------------------------------------
(* What %eyre says, in any order with the rest: it answers what it was     *)
(* asked, in parts, until it has said all or heard that it need not.       *)

Told(k, how, complete) == [eyre EXCEPT ![k].tells = IF complete THEN "all" ELSE how, ![k].all = @ \/ complete]
Spoke(k, how, complete) == [eyre EXCEPT ![k].tells = IF complete THEN "all" ELSE how]

EfStart == \E k \in DOMAIN eyre, complete \in BOOLEAN :
  /\ Turn /\ ~exited /\ eyre[k].asked /\ eyre[k].tells = "nothing"
  /\ IF Dangles THEN fault' = "server is gone" /\ UNCHANGED <<hreq, eyre>>
     ELSE /\ UNCHANGED fault
          /\ IF k \in DOMAIN hreq /\ hreq[k].sat = "plan"
             THEN \E data \in Says(k) : /\ hreq' = [hreq EXCEPT ![k] = StartRespond(@, data, complete)]
                                        /\ eyre' = Told(k, "start", complete)
             ELSE UNCHANGED hreq /\ eyre' = Spoke(k, "start", complete)
  /\ UNCHANGED <<htp, serv, peeks, form, closing, running, exited, forms>>

EfContinue == \E k \in DOMAIN eyre, complete \in BOOLEAN :
  /\ Turn /\ ~exited /\ eyre[k].asked /\ eyre[k].tells = "start"
  /\ IF Dangles THEN fault' = "server is gone" /\ UNCHANGED <<hreq, eyre>>
     ELSE IF k \in DOMAIN hreq /\ hreq[k].sat = "ripe"
     THEN IF ~hreq[k].ans THEN fault' = "nothing to continue" /\ UNCHANGED <<hreq, eyre>>
          ELSE \E data \in Says(k) : /\ hreq' = [hreq EXCEPT ![k] = ContinueRespond(@, data, complete)]
                                     /\ eyre' = Told(k, "start", complete) /\ UNCHANGED fault
     ELSE eyre' = Spoke(k, "start", complete) /\ UNCHANGED <<hreq, fault>>
  /\ UNCHANGED <<htp, serv, peeks, form, closing, running, exited, forms>>

HearsCancel == \E k \in DOMAIN eyre :
  /\ Turn /\ eyre[k].cancels > 0 /\ eyre[k].tells \in {"nothing", "start"}
  /\ eyre' = [eyre EXCEPT ![k].tells = "all"]
  /\ UNCHANGED <<htp, serv, hreq, peeks, form, closing, running, exited, fault, forms>>

\* _http_stream_slog, _http_seq_heartbeat_cb; _http_io_exit
SlogAll(complete) ==
  hreq' = [k \in DOMAIN hreq |->
             IF hreq[k].slog THEN ContinueRespond(hreq[k], <<Len(hreq[k].said) + 1>>, complete) ELSE hreq[k]]
Slog ==
  /\ Turn /\ \E k \in DOMAIN hreq : hreq[k].slog
  /\ \A k \in DOMAIN hreq : hreq[k].slog => Len(hreq[k].said) < bound.says
  /\ SlogAll(FALSE)
  /\ UNCHANGED <<htp, serv, peeks, form, closing, running, eyre, exited, fault, forms>>
HttpExit ==
  /\ Turn /\ ~exited /\ exited' = TRUE /\ form' = FALSE /\ SlogAll(TRUE)
  /\ UNCHANGED <<htp, serv, peeks, closing, running, eyre, fault, forms>>

-----------------------------------------------------------------------------
(* Servers and connections.                                                *)

\* _http_serv_free, of a server that no connection holds
ServFree(v) == [v EXCEPT !.st = "freeing"]

\* _http_serv_start_all, given the servers' states: a server that cannot listen is
\* let go, and stays live for the list.
StartAll(sv) ==
  LET old == IF htp = << >> THEN 0 ELSE Head(htp)
      new == old + 1 .. old + bound.servers
  IN \E fails \in IF bound.fails THEN SUBSET new ELSE {{}} :
       /\ htp' = [i \in 1 .. bound.servers |-> old + bound.servers + 1 - i] \o htp
       /\ serv' = [s \in DOMAIN sv \cup new |->
                     IF s \in DOMAIN sv THEN sv[s]
                     ELSE IF s \in fails THEN ServFree([ServNew EXCEPT !.lst = "closed"]) ELSE ServNew]
       /\ form' = FALSE

\* The i-th of a set of servers, the oldest being the first.
Nth(S, i) == CHOOSE s \in S : Cardinality({t \in S : t < s}) = i - 1

\* u3_http_ef_form, _http_serv_restart, _http_serv_close: the newest is closed first.
EfForm ==
  LET live == {s \in Range(htp) : serv[s].liv} IN
  /\ Turn /\ ~exited /\ forms < bound.forms /\ forms' = forms + 1
  /\ IF htp = << >> THEN StartAll(serv) /\ UNCHANGED <<closing, fault>>
     ELSE /\ form' = TRUE /\ UNCHANGED htp
          /\ closing' = [i \in 1 .. Cardinality(live) |-> <<Nth(live, i)>>] \o closing
          /\ serv' = [s \in DOMAIN serv |-> IF s \in live THEN [serv[s] EXCEPT !.shut = TRUE] ELSE serv[s]]
          /\ fault' = IF Dangles THEN "server is gone"
                      ELSE IF \E s \in live : Closed(<<s>>) THEN "closed twice" ELSE fault
  /\ UNCHANGED <<hreq, peeks, running, eyre, exited>>

\* _http_serv_accept
Accept == \E s \in DOMAIN serv :
  /\ Turn /\ serv[s].lst = "open" /\ ~Closed(<<s>>)
  /\ MapThenSumSet(LAMBDA t : serv[t].nex - 1, DOMAIN serv) < bound.conns
  /\ serv' = [serv EXCEPT ![s].con = Added(@, serv[s].nex, 1), ![s].nex = @ + 1]
  /\ UNCHANGED <<htp, hreq, peeks, form, closing, running, eyre, exited, fault, forms>>

\* h2o closes a connection when it has ended its requests.
ConnClose == \E s \in DOMAIN serv : \E c \in DOMAIN serv[s].con :
  /\ Turn /\ Open(s, c)
  /\ \A k \in DOMAIN hreq : <<k[1], k[2]>> # <<s, c>>
  /\ \A p \in peeks : <<p.srv, p.con>> = <<s, c>> => p.gone
  /\ closing' = <<<<s, c>>>> \o closing
  /\ UNCHANGED <<htp, serv, hreq, peeks, form, running, eyre, exited, fault, forms>>

\* The loop ends its turn.
TurnEnds ==
  /\ Turn /\ closing # << >> /\ running' = closing /\ closing' = << >>
  /\ UNCHANGED <<htp, serv, hreq, peeks, form, eyre, exited, fault, forms>>

\* _http_conn_free
ConnFreed(s, c) ==
  LET v == [serv[s] EXCEPT !.con = Restrict(@, DOMAIN @ \ {c})]
      last == v.con = << >> /\ v.shut
  IN /\ serv' = [serv EXCEPT ![s] = IF last THEN ServFree(v) ELSE v]
     /\ fault' = IF last /\ v.st # "up" THEN "freed twice" ELSE fault
     /\ UNCHANGED <<htp, form>>

\* _http_serv_close_cb
ServClosed(s) ==
  LET u == [serv[s] EXCEPT !.liv = FALSE, !.lst = "closed"]
      last == u.con = << >>
      sv == [serv EXCEPT ![s] = IF last THEN ServFree(u) ELSE u]
  IN /\ fault' = IF last /\ u.st # "up" THEN "freed twice" ELSE fault
     /\ IF form /\ \A t \in Range(htp) : ~sv[t].liv THEN StartAll(sv)
        ELSE serv' = sv /\ UNCHANGED <<htp, form>>

CloseCallback ==
  LET h == Head(running) IN
  /\ fault = "none" /\ running # << >> /\ running' = Tail(running)
  /\ IF Len(h) = 1 THEN ServClosed(h[1]) ELSE ConnFreed(h[1], h[2])
  /\ UNCHANGED <<hreq, peeks, closing, eyre, exited, forms>>

\* http_serv_free_cb: the newest server is not taken off the list.
ServFreeCb == \E s \in DOMAIN serv :
  /\ Turn /\ serv[s].st = "freeing"
  /\ serv' = [serv EXCEPT ![s].st = "freed"]
  /\ htp' = IF Head(htp) = s THEN htp ELSE RemoveFirst(htp, s)
  /\ UNCHANGED <<hreq, peeks, form, closing, running, eyre, exited, fault, forms>>

-----------------------------------------------------------------------------
HttpInit ==
  /\ bound \in Bounds /\ htp = << >> /\ serv = << >> /\ hreq = << >> /\ peeks = {} /\ form = FALSE
  /\ closing = << >> /\ running = << >> /\ eyre = << >> /\ exited = FALSE /\ fault = "none" /\ forms = 0

HttpNext ==
  /\ UNCHANGED bound
  /\ \/ RecAccept \/ SeqRefuse \/ SeqPeek \/ SeqContinue \/ PeekGone
     \/ Proceed \/ ReqTimer \/ ReqDone
     \/ EfStart \/ EfContinue \/ HearsCancel \/ Slog \/ HttpExit
     \/ EfForm \/ Accept \/ ConnClose \/ TurnEnds \/ CloseCallback \/ ServFreeCb

HttpSpec == HttpInit /\ [][HttpNext]_httpVars

-----------------------------------------------------------------------------
\* What is sent on a request is what %eyre said of it, in order and at once when h2o
\* is ready; and %eyre hears of the end of a request, once, unless it has said all
\* (vere/io/http.c, with answers late, clients gone and servers restarted).
EyreIsHeard ==
  /\ \A k \in DOMAIN hreq :
       /\ hreq[k].sent \o hreq[k].bod = hreq[k].said
       /\ hreq[k].red => hreq[k].bod = << >> /\ ~hreq[k].dun
  /\ \A k \in {j \in DOMAIN eyre : eyre[j].asked} :
       /\ eyre[k].cancels <= 1 /\ ~(eyre[k].all /\ eyre[k].cancels = 1)
       /\ k \notin DOMAIN hreq => eyre[k].all \/ eyre[k].cancels = 1
=============================================================================
