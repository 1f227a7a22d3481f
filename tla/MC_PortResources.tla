-------------------------- MODULE MC_PortResources --------------------------
(***************************************************************************)
(* The instance of PortResources that TLC checks.                          *)
(***************************************************************************)
EXTENDS PortResources

RuleAttributes ==
  {[group |-> 0, priority |-> 0], [group |-> 0, priority |-> 1],
   [group |-> 1, priority |-> 0]}
=============================================================================
