----------------------------- MODULE MCDrivers -----------------------------
(* The drivers, one at a time: the queues of two, ames, which caps its own, and
   behn, which retries; the HTTP server, and the client; the control socket. *)
EXTENDS Auto, Http, Cttp, Conn

VARIABLE part  \* what a behaviour is about

driversVars == <<part, autoVars, httpVars, cttpVars, connVars>>

\* Of the server: servers that find no port, and close while others' connections
\* last; three configurations, of which the last two overlap; requests and their
\* parts, on a server that stays; and on one that is replaced.
Shape(servers, fails, nforms, conns, reqs, says) ==
  [servers |-> servers, fails |-> fails, forms |-> nforms, conns |-> conns, reqs |-> reqs, says |-> says]

Shapes == {Shape(2, TRUE, 2, 1, 0, 0), Shape(2, FALSE, 3, 2, 0, 0),
           Shape(1, FALSE, 1, 1, 2, 2), Shape(1, FALSE, 2, 2, 1, 0)}

DriversInit ==
  /\ AutoInit /\ HttpInit /\ CttpInit /\ ConnInit
  /\ \/ part = "server"
     \/ part \in {"queues", "client", "control"} /\ bound = Shape(1, FALSE, 2, 2, 1, 0)

DriversNext ==
  \/ part = "queues" /\ AutoNext /\ UNCHANGED <<part, httpVars, cttpVars, connVars>>
  \/ part = "server" /\ HttpNext /\ UNCHANGED <<part, autoVars, cttpVars, connVars>>
  \/ part = "client" /\ CttpNext /\ UNCHANGED <<part, autoVars, httpVars, connVars>>
  \/ part = "control" /\ ConnNext /\ UNCHANGED <<part, autoVars, httpVars, cttpVars>>

DriversSpec == DriversInit /\ [][DriversNext]_driversVars
=============================================================================
