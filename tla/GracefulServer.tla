--------------------------- MODULE GracefulServer ---------------------------
(***************************************************************************)
(* What stopping the server promises ("Stop new traffic, drain, close      *)
(* resources"): new connections are refused first, what was accepted is    *)
(* finished, and the stores are closed last, unless the server had to give *)
(* up draining.  Nobody is accepted before the stores are open, and none   *)
(* is opened again.                                                        *)
(***************************************************************************)
CONSTANTS Requests, Stores

VARIABLES phase,       \* "starting", "serving", "draining" or "forced"
          open,        \* the stores that may be used
          active       \* requests accepted, and neither finished nor cut off

vars == <<phase, open, active>>

Init == phase = "starting" /\ open = {} /\ active = {}

Open(s) ==
    /\ phase = "starting"
    /\ open' = open \cup {s}
    /\ UNCHANGED <<phase, active>>

Serve == phase = "starting" /\ phase' = "serving" /\ UNCHANGED <<open, active>>

Accept(r) ==
    /\ phase = "serving"
    /\ active' = active \cup {r}
    /\ UNCHANGED <<phase, open>>

Finish(r) ==
    /\ active' = active \ {r}
    /\ UNCHANGED <<phase, open>>

StopAccepting ==
    /\ phase = "serving"
    /\ phase' = "draining"
    /\ UNCHANGED <<open, active>>

(* The listener broke, or draining took too long and connections are cut.  *)
GiveUp ==
    /\ phase # "starting"
    /\ phase' = "forced"
    /\ active' \in SUBSET active
    /\ UNCHANGED open

(* A server that never came up closes what it had opened.                  *)
Close(s) ==
    /\ \/ phase = "starting"
       \/ phase = "draining" /\ active = {}
       \/ phase = "forced"
    /\ open' = open \ {s}
    /\ UNCHANGED <<phase, active>>

Next ==
    \/ Serve \/ StopAccepting \/ GiveUp
    \/ \E s \in Stores : Open(s) \/ Close(s)
    \/ \E r \in Requests : Accept(r) \/ Finish(r)

Spec == Init /\ [][Next]_vars
=============================================================================
