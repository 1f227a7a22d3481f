------------------------ MODULE MC_ForwardingControl ------------------------
(* Values of ForwardingControl's constants that a .cfg cannot express.     *)
EXTENDS ForwardingControl

(* Every device has two queues in each direction.                          *)
MCMaxQueues == [p \in 0 .. NbEthPorts - 1 |-> 2]

(* Three, so that two cores share the streams unevenly.                    *)
MCMaxQueuesThree == [p \in 0 .. NbEthPorts - 1 |-> 3]
=============================================================================
