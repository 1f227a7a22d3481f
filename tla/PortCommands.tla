---- MODULE PortCommands ----
(***************************************************************************)
(* The configuration commands of the ports (cmdline.c): which ports a      *)
(* command is about, what it demands of them, which part of the recorded   *)
(* configuration it changes, and which part it marks for the next start.   *)
(*                                                                         *)
(* The configuration of a port is what struct rte_port records: "device"   *)
(* stands for dev_conf, which rte_eth_dev_configure applies, and "queues"  *)
(* for rx_conf, tx_conf and the ring sizes, which the queue set-up         *)
(* applies.  The values themselves are left out.  A command is a record:   *)
(*   scope    the ports it writes, "all" or "one"                          *)
(*   needs    the state it demands: "all stopped", "stopped",              *)
(*            "not started", "pending" (need_reconfig) or "nothing"        *)
(*   writes   the parts of the record it changes                           *)
(*   own      the parts of "writes" that init_port_config overwrites with  *)
(*            the settings common to all ports                             *)
(*   marks    the ports it marks, "all" or "one", by                       *)
(*            cmd_reconfig_device_queue                                    *)
(*   flags    the flags it sets there: need_reconfig is "device",          *)
(*            need_reconfig_queues is "queues"                             *)
(*   refresh  whether it calls init_port_config                            *)
(*   cut      whether it may return half way: at the port whose value is   *)
(*            the new one ("same value"), or when the device does not tell *)
(*            its capabilities ("dev_info"); otherwise "never"             *)
(***************************************************************************)

Items == {"device", "queues"}

OnAll(writes, refresh) ==
  [scope |-> "all", needs |-> "all stopped", writes |-> writes, own |-> {},
   marks |-> "all", flags |-> Items, refresh |-> refresh, cut |-> "never"]

OnOne(writes) ==
  [scope |-> "one", needs |-> "stopped", writes |-> writes, own |-> {},
   marks |-> "one", flags |-> Items, refresh |-> FALSE, cut |-> "never"]

\* The link, for all ports or for one; the latter marks all of them.
cmd_config_speed_all         == OnAll({"device"}, FALSE)
cmd_config_speed_specific    == [OnOne({"device"}) EXCEPT !.marks = "all"]
cmd_config_loopback_all      == OnAll({"device"}, FALSE)
cmd_config_loopback_specific == OnOne({"device"})

\* The number of queues and descriptors, the packet sizes, the thresholds.
\* "max-pkt-len" sets the MTU of the devices at once, "burst" no device.
cmd_config_rx_tx             == OnAll(Items, TRUE)
cmd_config_max_pkt_len       == OnAll({}, TRUE)
cmd_config_max_lro_pkt_size  ==
  [OnAll({"device"}, TRUE) EXCEPT !.cut = "same value"]
cmd_config_rx_mode_flag      == OnAll({"queues"}, TRUE)
cmd_config_burst             == OnAll({}, TRUE)
cmd_config_thresh            == OnAll({"queues"}, TRUE)
cmd_config_threshold         == OnAll({"queues"}, TRUE)

\* The MTU goes to the device at once, unless need_reconfig is set: then it
\* goes to the record, and with the record to the device.
cmd_config_mtu ==
  [OnOne({"device"}) EXCEPT !.needs = "pending", !.flags = {}]

\* Settings of a port of its own, which init_port_config overwrites.
cmd_config_rxtx_ring_size ==
  [OnOne({"queues"}) EXCEPT !.needs = "nothing", !.own = {"queues"},
                            !.flags = {"queues"}]
cmd_config_deferred_start_rxtx_queue ==
  [OnOne({"queues"}) EXCEPT !.needs = "not started", !.own = {"queues"},
                            !.flags = {"queues"}]
cmd_flow_director_mask        == [OnOne({"device"}) EXCEPT !.own = {"device"}]
cmd_flow_director_flexpayload == [OnOne({"device"}) EXCEPT !.own = {"device"}]

\* The split of received packets: no port has to be stopped.
cmd_set_rxoffs ==
  [OnAll({"queues"}, FALSE) EXCEPT !.needs = "nothing", !.flags = {"queues"}]
cmd_set_rxpkts ==
  [OnAll({"queues"}, FALSE) EXCEPT !.needs = "nothing", !.flags = {"queues"}]

\* The offloads.  "tso set" asks for the capabilities a second time between
\* the change of the record and the marking of the port.
cmd_tx_vlan_set                 == OnOne({"device"})
cmd_tx_vlan_set_qinq            == OnOne({"device"})
cmd_tx_vlan_reset               == OnOne({"device"})
cmd_csum                        == OnOne(Items)
cmd_tso_set                     == [OnOne(Items) EXCEPT !.cut = "dev_info"]
cmd_tunnel_tso_set              == OnOne(Items)
cmd_set_macsec_offload_on       == OnOne({"device"})
cmd_set_macsec_offload_off      == OnOne({"device"})
cmd_config_per_port_rx_offload  == OnOne(Items)
cmd_config_per_queue_rx_offload == OnOne({"queues"})
cmd_config_per_port_tx_offload  == OnOne(Items)
cmd_config_per_queue_tx_offload == OnOne({"queues"})

\* The commands after which every change of a record is marked, whatever
\* follows, and the others: they return half way, or their setting is
\* overwritten by the next init_port_config.
WholeCommands ==
  {cmd_config_speed_all, cmd_config_speed_specific, cmd_config_loopback_all,
   cmd_config_loopback_specific, cmd_config_rx_tx, cmd_config_max_pkt_len,
   cmd_config_mtu, cmd_config_rx_mode_flag, cmd_config_burst,
   cmd_config_thresh, cmd_config_threshold, cmd_set_rxoffs, cmd_set_rxpkts, cmd_tx_vlan_set,
   cmd_tx_vlan_set_qinq, cmd_tx_vlan_reset, cmd_csum, cmd_tso_set,
   cmd_tunnel_tso_set, cmd_set_macsec_offload_on, cmd_set_macsec_offload_off,
   cmd_config_per_port_rx_offload, cmd_config_per_queue_rx_offload,
   cmd_config_per_port_tx_offload, cmd_config_per_queue_tx_offload}
AllCommands ==
  WholeCommands \cup
  {cmd_config_max_lro_pkt_size, cmd_config_rxtx_ring_size,
   cmd_config_deferred_start_rxtx_queue, cmd_flow_director_mask,
   cmd_flow_director_flexpayload}
====
