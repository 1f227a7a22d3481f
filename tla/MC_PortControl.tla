---- MODULE MC_PortControl ----
EXTENDS PortControl
OneDevice == [p \in 0 .. 1 |-> "a"]
TwoDevices == [p \in 0 .. 1 |-> IF p = 0 THEN "a" ELSE "b"]
ThreePorts == [p \in 0 .. 2 |-> IF p < 2 THEN "a" ELSE "b"]
Few == {cmd_config_rx_tx}
====
