---- MODULE PortLifecycle ----
(***************************************************************************)
(* What the control of the ports promises, whatever the threads that work  *)
(* on them: a device is started and stopped only while its port is in      *)
(* somebody's hands, a port in nobody's hands has the status of its        *)
(* device, and no port goes away while its device runs.                    *)
(***************************************************************************)
CONSTANT Ports
VARIABLES phase,       \* what the control knows of every port
          up           \* the ports whose device runs
vars == <<phase, up>>

Phases == {"absent", "stopped", "handled", "started"}

Init ==
  /\ up = {}
  /\ phase \in [Ports -> {"absent", "stopped"}]

Attach(S) ==
  /\ S # {} /\ \A p \in S : phase[p] = "absent"
  /\ phase' = [p \in Ports |-> IF p \in S THEN "stopped" ELSE phase[p]]
  /\ UNCHANGED up

Take(p) ==
  /\ phase[p] \in {"stopped", "started"}
  /\ phase' = [phase EXCEPT ![p] = "handled"]
  /\ UNCHANGED up

Release(p) ==
  /\ phase[p] = "handled"
  /\ \/ up' = up \cup {p} /\ phase' = [phase EXCEPT ![p] = "started"]
     \/ up' = up \ {p}    /\ phase' = [phase EXCEPT ![p] = "stopped"]

Remove(S) ==
  /\ S \cap up = {}
  /\ phase' = [p \in Ports |-> IF p \in S THEN "absent" ELSE phase[p]]
  /\ UNCHANGED up

Next ==
  \/ \E S \in SUBSET Ports : Attach(S) \/ Remove(S)
  \/ \E p \in Ports : Take(p) \/ Release(p)

Spec == Init /\ [][Next]_vars
====
