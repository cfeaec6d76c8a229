-------------------------------- MODULE Conn --------------------------------
(***************************************************************************)
(* The control socket (vere/io/conn.c): clients on the same machine open   *)
(* channels and make requests: scries (%peek), injected events (%ovum),    *)
(* threads (%fyrd), and what the king answers by itself (%peel, %urth).    *)
(* Answers come in callbacks that may outlive the channel.                 *)
(*                                                                         *)
(* A scry and an injected event hold a u3_cran, which points to its        *)
(* channel and is in its list; a thread's event and its result name the    *)
(* channel by number.  The clients, libuv's pipes, the lord and %khan are  *)
(* external, and answer in any order.                                      *)
(***************************************************************************)
EXTENDS Naturals, Sequences, SequencesExt, FiniteSets

CONSTANTS MaxChans, MaxAsks   \* bounds: channels, requests

ASSUME ConnAssumption == {MaxChans, MaxAsks} \subseteq Nat

VARIABLES san,           \* san_u->can_u: the channels, the newest first
          chan,          \* by number, the channels: open, closing or freed; ran_u; what was sent
          req,           \* the requests: kind, whose it is, can_u, and whether it is held
          dones,         \* the channels whose end %khan will hear of
          kan,           \* kan_o
          born,          \* %born is on its way
          wild           \* something was sent on a channel that is not open

connVars == <<san, chan, req, dones, kan, born, wild>>

\* can_u of a request whose channel was closed
NoChan == 0

-----------------------------------------------------------------------------
\* _conn_send_noun: msg, on the channel c
SendNoun(chs, c, msg) == [chs EXCEPT ![c].sent = Append(@, msg)]

\* Faulty: requests keep their pointers to a channel that closes.
UnsetNone(c) == req

\* _conn_close_chan: the requests in its list lose theirs.
Unset(c) == [r \in DOMAIN req |-> IF r \in Range(chan[c].ran) THEN [req[r] EXCEPT !.can = NoChan] ELSE req[r]]

CloseChan(c, chs) ==
  /\ req' = Unset(c)
  /\ san' = RemoveFirst(san, c)
  /\ dones' = IF kan THEN Append(dones, c) ELSE dones
  /\ chan' = [chs EXCEPT ![c].is = "closing"]

\* _conn_moor_bail, of an error: a %bail for request 0
MoorBail(c) == CloseChan(c, SendNoun(chan, c, 0))

\* _conn_make_cran, or the event of a %fyrd
Asks(c, kind) ==
  LET r == Len(req) + 1 IN
  /\ r <= MaxAsks
  /\ req' = Append(req, [kind |-> kind, of |-> c, can |-> c, held |-> TRUE])
  /\ chan' = IF kind = "fyrd" THEN chan ELSE [chan EXCEPT ![c].ran = <<r>> \o @]

\* _conn_peek_cb, _conn_ovum_news, _conn_ovum_bail: the answer, unless the channel
\* was closed, and _conn_drop_cran
Answer(r) ==
  LET c == req[r].can IN
  /\ req' = [req EXCEPT ![r].held = FALSE]
  /\ IF c = NoChan THEN UNCHANGED <<chan, wild>>
     ELSE /\ wild' = (wild \/ chan[c].is # "open")
          /\ chan' = [SendNoun(chan, c, r) EXCEPT ![c].ran = RemoveFirst(@, r)]

\* _conn_ef_handle of an %avow, _conn_poke_bail: the channel, if it is found
AnswerFyrd(r) ==
  LET c == req[r].of IN
  /\ req' = [req EXCEPT ![r].held = FALSE]
  /\ IF c \notin Range(san) THEN UNCHANGED <<chan, wild>>
     ELSE chan' = SendNoun(chan, c, r) /\ wild' = (wild \/ chan[c].is # "open")

-----------------------------------------------------------------------------
\* _conn_sock_cb
SockCb ==
  LET c == Len(chan) + 1 IN
  /\ c <= MaxChans /\ san' = <<c>> \o san
  /\ chan' = Append(chan, [is |-> "open", ran |-> << >>, sent |-> << >>])
  /\ UNCHANGED <<req, dones, kan, born, wild>>

\* _conn_moor_poke: a request that waits for its answer,
PokeLater == \E c \in Range(san), kind \in {"peek", "ovum", "fyrd"} :
  /\ kind = "fyrd" => kan
  /\ Asks(c, kind)
  /\ UNCHANGED <<san, dones, kan, born, wild>>

\* one that is answered at once,
PokeNow == \E c \in Range(san) :
  LET r == Len(req) + 1 IN
  /\ r <= MaxAsks
  /\ req' = Append(req, [kind |-> "peel", of |-> c, can |-> NoChan, held |-> FALSE])
  /\ chan' = SendNoun(chan, c, r)
  /\ UNCHANGED <<san, dones, kan, born, wild>>

\* or one that is wrong, or of %khan when it is not there; a write may fail, too.
PokeBad == \E c \in Range(san) : MoorBail(c) /\ UNCHANGED <<kan, born, wild>>

\* The client leaves.
MoorEnd == \E c \in Range(san) : CloseChan(c, chan) /\ UNCHANGED <<kan, born, wild>>

\* _moat_stop_cb, _conn_moat_free
MoatFree == \E c \in DOMAIN chan :
  /\ chan[c].is = "closing" /\ chan' = [chan EXCEPT ![c].is = "freed"]
  /\ UNCHANGED <<san, req, dones, kan, born, wild>>

Callback == \E r \in DOMAIN req :
  /\ req[r].held
  /\ IF req[r].kind = "fyrd" THEN AnswerFyrd(r) ELSE Answer(r)
  /\ UNCHANGED <<san, dones, kan, born>>

\* _conn_born_news, _conn_born_bail
BornEnds ==
  /\ born /\ born' = FALSE /\ kan' \in BOOLEAN
  /\ UNCHANGED <<san, chan, req, dones, wild>>

\* _conn_io_talk
ConnInit ==
  /\ san = << >> /\ chan = << >> /\ req = << >> /\ dones = << >>
  /\ kan = FALSE /\ born = TRUE /\ wild = FALSE

ConnNext == \/ SockCb \/ PokeLater \/ PokeNow \/ PokeBad \/ MoorEnd \/ MoatFree
            \/ Callback \/ BornEnds

ConnSpec == ConnInit /\ [][ConnNext]_connVars

-----------------------------------------------------------------------------
\* How often x is in s.
Count(s, x) == Cardinality({i \in DOMAIN s : s[i] = x})

\* Whatever comes late, nothing is sent on a channel that was closed, and a channel
\* that is open has, of every request made on it, an answer or the request that will
\* answer it, once, and of no other channel's; %khan hears of each end once.
ClientsAreAnswered ==
  /\ ~wild
  /\ Range(san) = {c \in DOMAIN chan : chan[c].is = "open"}
  /\ \A i, j \in DOMAIN san : i < j => san[i] > san[j]
  /\ \A i, j \in DOMAIN dones : dones[i] \notin Range(san) /\ (dones[i] = dones[j] => i = j)
  /\ \A r \in DOMAIN req : \A c \in DOMAIN chan :
       LET answers == Count(chan[c].sent, r) IN
       /\ c # req[r].of => answers = 0
       /\ c = req[r].of /\ chan[c].is = "open" => answers = (IF req[r].held THEN 0 ELSE 1)
  /\ \A r \in DOMAIN req : req[r].held /\ req[r].kind # "fyrd" =>
       req[r].can = (IF req[r].of \in Range(san) THEN req[r].of ELSE NoChan)
=============================================================================
