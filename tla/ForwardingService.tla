--------------------------- MODULE ForwardingService ---------------------------
(***************************************************************************)
(* What the operator of testpmd is promised of "start" and "stop", with    *)
(* nothing of how: forwarding begins, cores take part, each polling        *)
(* receive queues that are its own and that no command changes under it,   *)
(* and a stop is over only when no core polls any more, which does happen. *)
(***************************************************************************)
CONSTANTS Cores, Queues

VARIABLES
  phase,    \* "idle", "starting", "forwarding", "stopping" or "ended"
  active,   \* the cores that are polling
  polls     \* [Cores -> SUBSET Queues]

vars == <<phase, active, polls>>

Init ==
  /\ phase = "idle"
  /\ active = {}
  /\ polls = [c \in Cores |-> {}]

Move(from, to) == phase = from /\ phase' = to /\ UNCHANGED <<active, polls>>

Begin  == active = {} /\ Move("idle", "starting")
Refuse == active = {} /\ Move("starting", "idle")
Open   == active = {} /\ Move("starting", "forwarding")
Halt   == Move("forwarding", "stopping")
Finish == active = {} /\ Move("stopping", "idle")

(* The program may give up, for good, when it is asked to start: also when *)
(* it forwards already.                                                    *)
End ==
  \/ active = {} /\ (Move("idle", "ended") \/ Move("starting", "ended"))
  \/ Move("forwarding", "ended")

(* A core takes part with queues that no other core polls.                 *)
Join(c, qs) ==
  /\ phase \in {"starting", "forwarding", "stopping"}
  /\ c \notin active
  /\ \A d \in active : polls[d] \cap qs = {}
  /\ active' = active \cup {c}
  /\ polls' = [polls EXCEPT ![c] = qs]
  /\ UNCHANGED phase

(* A core leaves after its part of the first burst, or because of a stop.  *)
Leave(c) ==
  /\ phase \in {"starting", "stopping"}
  /\ c \in active
  /\ active' = active \ {c}
  /\ polls' = [polls EXCEPT ![c] = {}]
  /\ UNCHANGED phase

Next ==
  \/ Begin \/ Refuse \/ Open \/ Halt \/ Finish \/ End
  \/ \E c \in Cores : Leave(c) \/ \E qs \in SUBSET Queues : Join(c, qs)

(* What has begun comes to its end.                                        *)
Settles ==
  /\ phase = "starting" ~> phase # "starting"
  /\ phase = "stopping" ~> phase # "stopping"

Spec == Init /\ [][Next]_vars /\ Settles
=============================================================================
