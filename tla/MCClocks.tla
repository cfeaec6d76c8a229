------------------------------ MODULE MCClocks ------------------------------
(* The drivers in which time passes, one at a time.  The timer: a few calls to
   the vane, one crash, one retry and four ticks, so that a timer may be set
   before, at and after the present, fire early or late, fail, and be lost with
   its %doze.  The network: one more packet than the lanes that may be scried at
   a time would need, lookups that overlap, and outages and changes of the lane
   in the middle of both. *)
EXTENDS Behn, Ames

VARIABLE part  \* what a behaviour is about

clocksVars == <<part, behnVars, amesVars>>

\* The other driver has stopped for good, so that fairness asks nothing of it: the
\* king has bailed, and the clock is at its end.
BehnStill ==
  /\ now = MaxNow /\ alarm = None /\ liv = FALSE /\ bailed = TRUE /\ unborn = FALSE
  /\ ova = << >> /\ vane = [timers |-> {}, wake |-> None, duct |-> FALSE] /\ dur = vane
  /\ gifts = << >> /\ calls = MaxCalls /\ crashes = MaxCrash

AmesStill ==
  /\ imp = [w |-> "none", age |-> AddrTTL] /\ dns = FALSE /\ asks = 0
  /\ panc = {} /\ foq = 0 /\ peeks = << >> /\ lax = Unknown /\ see = TRUE /\ saw = 0
  /\ lane = {} /\ up = TRUE /\ moves = 0 /\ down = TRUE

ClocksInit == \/ part = "timer" /\ BehnInit /\ AmesStill
              \/ part = "network" /\ BehnStill /\ AmesInit

ClocksNext == \/ part = "timer" /\ BehnNext /\ UNCHANGED <<part, amesVars>>
              \/ part = "network" /\ AmesNext /\ UNCHANGED <<part, behnVars>>

ClocksSpec == ClocksInit /\ [][ClocksNext]_clocksVars /\ BehnFair /\ AmesFair
=============================================================================
