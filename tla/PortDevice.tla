----------------------------- MODULE PortDevice -----------------------------
(***************************************************************************)
(* What the tables of one port share: whether its device is open, which    *)
(* failing paths of testpmd have been taken, and whether a command has     *)
(* done what C leaves undefined, after which the model stops.              *)
(***************************************************************************)
EXTENDS Integers, SequencesExt, FiniteSetsExt

VARIABLES
  open,      \* the device of the port is there: rte_eth_dev_is_valid_port
  faults,    \* the failing paths taken that leave the tables wrong
  dead       \* "no", or the access that ended the program

NULL == 0    \* no pointer
GONE == -1   \* a handle of a device that is no more

deviceVars == <<open, faults, dead>>

Faults == {"flush", "prepare", "conv", "actions_kept", "mc_nomem",
           "mc_kept", "flex_zero", "flex_refused", "flex_kept", "pattern"}

DeviceTypeOK ==
  /\ open \in BOOLEAN
  /\ faults \subseteq Faults
  /\ dead \in {"no", "context", "handle", "memmove", "flex_conf"}

DeviceInit == open = TRUE /\ faults = {} /\ dead = "no"

(* The interactive commands run one after another, while nothing undefined *)
(* has happened.                                                           *)
Running == dead = "no"

(* The failing paths taken so far and those of this command.               *)
Fault(new) == faults' = faults \cup new

(* A call is handed a pointer that nothing stands behind any more.         *)
Dies(cause) ==
  /\ dead' = cause
  /\ UNCHANGED <<open, faults>>

(* What the driver or the allocator hands out: the lowest that is free.    *)
Fresh(S, used) == Min(S \ used)
=============================================================================
