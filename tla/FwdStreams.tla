----------------------------- MODULE FwdStreams -----------------------------
(***************************************************************************)
(* The forwarding configuration that config.c derives from the operator's  *)
(* settings: how many streams and logical cores take part, which streams   *)
(* each core owns, and which receive and transmit queue each stream joins. *)
(* Everything is a function of its arguments, so that the modules of the   *)
(* running system can recompute a configuration in one step; FwdSetup      *)
(* models the loops of the code and checks that they compute these values. *)
(***************************************************************************)
EXTENDS Integers, Sequences

Least(a, b) == IF a <= b THEN a ELSE b
Greatest(a, b) == IF a >= b THEN a ELSE b

Topologies == {"paired", "chained", "loop"}
Kinds == {"simple", "rss", "icmp"}

-----------------------------------------------------------------------------
(* setup_fwd_config_of_each_lcore: nb_fs streams on nb_fc logical cores.   *)

PerLcore(nb_fs, nb_fc) == IF nb_fs <= nb_fc THEN 1 ELSE nb_fs \div nb_fc
NbExtraDropped(nb_fs, nb_fc) == 0  \* mutant: the remainder is forgotten
NbExtra(nb_fs, nb_fc)  == IF nb_fs <= nb_fc THEN 0 ELSE nb_fs % nb_fc
NbPlain(nb_fs, nb_fc)  == nb_fc - NbExtra(nb_fs, nb_fc)

(* The first cores own PerLcore streams each, the last NbExtra ones own    *)
(* one more.                                                               *)
EachLcore(nb_fs, nb_fc) ==
  LET per   == PerLcore(nb_fs, nb_fc)
      plain == NbPlain(nb_fs, nb_fc)
  IN  [lc \in 0 .. nb_fc - 1 |->
        IF lc < plain
        THEN [stream_idx |-> lc * per, stream_nb |-> per]
        ELSE [stream_idx |-> plain * per + (lc - plain) * (per + 1),
              stream_nb  |-> per + 1]]

(* The streams a core runs, given its entry of fwd_lcores.                 *)
Owned(fc) == fc.stream_idx .. (fc.stream_idx + fc.stream_nb - 1)

-----------------------------------------------------------------------------
(* Mutant: the paired topology tests the wrong parity.                     *)
TxPortIndexParity(topology, rxp, n) ==
  CASE topology = "loop"    -> rxp
    [] topology = "chained" -> (rxp + 1) % n
    [] topology = "paired"  -> IF rxp % 2 = 0 THEN rxp - 1
                               ELSE IF rxp + 1 < n THEN rxp + 1 ELSE rxp

(* fwd_topology_tx_port_get: index of the transmit port of index rxp among *)
(* n forwarding ports.                                                     *)
TxPortIndex(topology, rxp, n) ==
  CASE topology = "loop"    -> rxp
    [] topology = "chained" -> (rxp + 1) % n
    [] topology = "paired"  -> IF rxp % 2 = 1 THEN rxp - 1
                               ELSE IF rxp + 1 < n THEN rxp + 1 ELSE rxp

(* The queues of the rss configuration, and the slice of them that process *)
(* proc_id of num_procs walks: it starts at RssStart and wraps at RssEnd.  *)
RssQueues(nb_rxq, nb_txq) == Least(nb_rxq, nb_txq)
RssStartUnscaled(nb_q, num_procs, proc_id) == proc_id  \* mutant
RssStart(nb_q, num_procs, proc_id) == (proc_id * nb_q) \div num_procs
RssEndShort(nb_q, num_procs, proc_id) ==  \* mutant: wraps one queue early
  RssStart(nb_q, num_procs, proc_id) + nb_q \div num_procs - 1
RssEnd(nb_q, num_procs, proc_id) ==
  RssStart(nb_q, num_procs, proc_id) + nb_q \div num_procs

-----------------------------------------------------------------------------
(* Which of the set-up functions fwd_config_setup calls (no DCB).          *)
SetupKind(eng, nb_rxq, nb_txq) ==
  IF eng = "icmpecho" THEN "icmp"
  ELSE IF nb_rxq > 1 /\ nb_txq > 1 THEN "rss" ELSE "simple"

(* cur_fwd_config.nb_fwd_streams                                           *)
NbStreams(kind, nb_fwd_ports, nb_rxq, nb_txq) ==
  CASE kind = "simple" -> nb_fwd_ports
    [] kind = "rss"    -> RssQueues(nb_rxq, nb_txq) * nb_fwd_ports
    [] kind = "icmp"   -> nb_rxq * nb_fwd_ports

(* cur_fwd_config.nb_fwd_lcores: the requested number of cores, cut down   *)
(* to what the streams can occupy.                                         *)
NbLcoresUsed(kind, nb_fwd_lcores, nb_fwd_ports, nb_rxq, nb_txq) ==
  LET nb_fs == NbStreams(kind, nb_fwd_ports, nb_rxq, nb_txq)
  IN  IF kind = "icmp"
      THEN Least(Least(nb_fwd_lcores, nb_txq * nb_fwd_ports), nb_fs)
      ELSE Least(nb_fwd_lcores, nb_fs)

(* A stream before any set-up function wrote it: rte_zmalloc'ed.           *)
ZeroStream == [rx_port |-> 0, rx_queue |-> 0, tx_port |-> 0, tx_queue |-> 0]

Stream(rxp, rxq, txp, txq) ==
  [rx_port |-> rxp, rx_queue |-> rxq, tx_port |-> txp, tx_queue |-> txq]

(* Stream s of each configuration; ports are indices in fwd_ports_ids.     *)
SimpleStreamAt(s, topology, n) ==
  Stream(s, 0, TxPortIndex(topology, s, n), 0)

RssStreamAtStuck(s, topology, n, nb_q, num_procs, proc_id) ==  \* mutant
  LET rxq == RssStart(nb_q, num_procs, proc_id)
  IN  Stream(s % n, rxq, TxPortIndex(topology, s % n, n), rxq)

RssStreamAt(s, topology, n, nb_q, num_procs, proc_id) ==
  LET width == nb_q \div num_procs
      rxq   == RssStart(nb_q, num_procs, proc_id)
               + (IF width <= 1 THEN 0 ELSE (s \div n) % width)
  IN  Stream(s % n, rxq, TxPortIndex(topology, s % n, n), rxq)

IcmpStreamAt(s, nb_rxq) ==
  Stream(s \div nb_rxq, s % nb_rxq, s \div nb_rxq, s % nb_rxq)

StreamAt(kind, s, topology, n, nb_rxq, nb_txq, num_procs, proc_id) ==
  CASE kind = "simple" -> SimpleStreamAt(s, topology, n)
    [] kind = "rss"    -> RssStreamAt(s, topology, n,
                                      RssQueues(nb_rxq, nb_txq),
                                      num_procs, proc_id)
    [] kind = "icmp"   -> IcmpStreamAt(s, nb_rxq)

-----------------------------------------------------------------------------
(* Mutant: the smaller number of queues.                                   *)
NbAllocatedLeast(nb_ports, nb_rxq, nb_txq) == nb_ports * Least(nb_rxq, nb_txq)

(* init_fwd_streams: the number of streams it allocates.                   *)
NbAllocated(nb_ports, nb_rxq, nb_txq) == nb_ports * Greatest(nb_rxq, nb_txq)
=============================================================================
