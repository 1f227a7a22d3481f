------------------------------ MODULE FwdSetup ------------------------------
(***************************************************************************)
(* One call of fwd_config_setup (test-pmd/config.c), loop by loop: the     *)
(* limits on streams and cores, the two loops that hand the streams to the *)
(* cores, and the loop that joins each stream to its queues.  A step is    *)
(* one iteration.  The settings the call reads are chosen in Init from the *)
(* bounds and never change; ports are indices in fwd_ports_ids, which      *)
(* holds no port twice.                                                    *)
(***************************************************************************)
EXTENDS FwdStreams

CONSTANTS
  MaxPorts,      \* bound on nb_fwd_ports
  MaxLcores,     \* nb_lcores, the size of fwd_lcores
  MaxQueues,     \* bound on nb_rxq and nb_txq
  MaxProcs       \* bound on num_procs

ASSUME BoundsAssumption ==
  /\ MaxPorts \in Nat
  /\ MaxLcores \in Nat \ {0}
  /\ MaxQueues \in Nat \ {0}
  /\ MaxProcs \in Nat \ {0}

VARIABLES
  kind, topology,                 \* which set-up function, port_topology
  nb_fwd_ports, nb_fwd_lcores,    \* the operator's settings
  nb_rxq, nb_txq,
  num_procs, proc_id,
  cfg_streams, cfg_lcores,        \* cur_fwd_config.nb_fwd_streams, _lcores
  fwd_lcores, fwd_streams,        \* the arrays the call fills in
  pc, lc_id, sm_id,               \* where the call is, its loop counters
  rxp, rxq

settings == <<kind, topology, nb_fwd_ports, nb_fwd_lcores, nb_rxq, nb_txq,
              num_procs, proc_id>>
limits == <<cfg_streams, cfg_lcores>>
vars == <<settings, limits, fwd_lcores, fwd_streams, pc, lc_id, sm_id,
          rxp, rxq>>

Lcores == 0 .. MaxLcores - 1

TypeOK ==
  /\ kind \in Kinds /\ topology \in Topologies
  /\ nb_fwd_ports \in Nat /\ nb_fwd_lcores \in 1 .. MaxLcores
  /\ nb_rxq \in Nat \ {0} /\ nb_txq \in Nat \ {0}
  /\ num_procs \in Nat \ {0} /\ proc_id \in 0 .. num_procs - 1
  /\ cfg_streams \in Nat /\ cfg_lcores \in 0 .. MaxLcores
  /\ fwd_lcores \in [Lcores -> [stream_idx : Nat, stream_nb : Nat]]
  /\ fwd_streams \in [0 .. cfg_streams - 1 ->
                        [rx_port : Nat, rx_queue : Nat,
                         tx_port : Nat, tx_queue : Nat]]
  /\ pc \in {"limits", "plain", "extra", "streams", "done"}
  /\ lc_id \in Nat /\ sm_id \in Nat /\ rxp \in Nat /\ rxq \in Nat

Init ==
  /\ kind \in Kinds /\ topology \in Topologies
  /\ nb_fwd_ports \in 0 .. MaxPorts
  /\ nb_fwd_lcores \in 1 .. MaxLcores
  /\ nb_rxq \in 1 .. MaxQueues /\ nb_txq \in 1 .. MaxQueues
  /\ num_procs \in 1 .. MaxProcs /\ proc_id \in 0 .. num_procs - 1
  /\ kind = "rss" => nb_rxq > 1 /\ nb_txq > 1
  /\ kind = "simple" => nb_rxq = 1 \/ nb_txq = 1
  /\ cfg_streams = 0 /\ cfg_lcores = 0
  /\ fwd_lcores = [lc \in Lcores |-> [stream_idx |-> 0, stream_nb |-> 0]]
  /\ fwd_streams = [s \in 0 .. -1 |-> ZeroStream]
  /\ pc = "limits" /\ lc_id = 0 /\ sm_id = 0 /\ rxp = 0 /\ rxq = 0

-----------------------------------------------------------------------------
(* The first statements of every set-up function, and init_fwd_streams.    *)
Limits ==
  /\ pc = "limits"
  /\ cfg_streams' = NbStreams(kind, nb_fwd_ports, nb_rxq, nb_txq)
  /\ cfg_lcores' =
       NbLcoresUsed(kind, nb_fwd_lcores, nb_fwd_ports, nb_rxq, nb_txq)
  /\ fwd_streams' = [s \in 0 .. cfg_streams' - 1 |-> ZeroStream]
  /\ pc' = "plain"
  /\ UNCHANGED <<settings, fwd_lcores, lc_id, sm_id, rxp, rxq>>

per   == PerLcore(cfg_streams, cfg_lcores)
plain == NbPlain(cfg_streams, cfg_lcores)

Assign(lc, nb) ==
  /\ fwd_lcores' = [fwd_lcores EXCEPT
                      ![lc] = [stream_idx |-> sm_id, stream_nb |-> nb]]
  /\ sm_id' = sm_id + nb
  /\ lc_id' = lc_id + 1
  /\ UNCHANGED <<settings, limits, fwd_streams, pc, rxp, rxq>>

(* An iteration of the first loop over the cores.                          *)
PlainLcore ==
  /\ pc = "plain" /\ lc_id < plain
  /\ Assign(lc_id, per)

(* Mutant: the stream counter starts again with the second loop.           *)
PlainDoneReset ==
  /\ pc = "plain" /\ ~(lc_id < plain)
  /\ pc' = "extra" /\ sm_id' = 0
  /\ UNCHANGED <<settings, limits, fwd_lcores, fwd_streams, lc_id, rxp, rxq>>

PlainDone ==
  /\ pc = "plain" /\ ~(lc_id < plain)
  /\ pc' = "extra"
  /\ UNCHANGED <<settings, limits, fwd_lcores, fwd_streams, lc_id, sm_id,
                 rxp, rxq>>

(* An iteration of "Assign extra remaining streams, if any."; lc_id is the *)
(* code's nb_lc + lc_id.                                                   *)
ExtraLcore ==
  /\ pc = "extra" /\ lc_id < cfg_lcores
  /\ Assign(lc_id, per + 1)

(* The second loop is over; the queue of the first stream is chosen.       *)
ExtraDone ==
  /\ pc = "extra" /\ ~(lc_id < cfg_lcores)
  /\ pc' = "streams" /\ lc_id' = 0 /\ sm_id' = 0 /\ rxp' = 0
  /\ rxq' = IF kind = "rss"
            THEN RssStart(RssQueues(nb_rxq, nb_txq), num_procs, proc_id)
            ELSE 0
  /\ UNCHANGED <<settings, limits, fwd_lcores, fwd_streams>>

-----------------------------------------------------------------------------
(* An iteration of the loop of simple_fwd_config_setup.                    *)
SimpleStream ==
  /\ pc = "streams" /\ kind = "simple" /\ sm_id < cfg_streams
  /\ fwd_streams' = [fwd_streams EXCEPT ![sm_id] =
       Stream(sm_id, 0, TxPortIndex(topology, sm_id, nb_fwd_ports), 0)]
  /\ sm_id' = sm_id + 1
  /\ UNCHANGED <<settings, limits, fwd_lcores, pc, lc_id, rxp, rxq>>

(* An iteration of the loop of rss_fwd_config_setup: all the ports on one  *)
(* queue, then the next queue of this process.                             *)
RssStream ==
  LET nb_q == RssQueues(nb_rxq, nb_txq)
  IN  /\ pc = "streams" /\ kind = "rss" /\ sm_id < cfg_streams
      /\ fwd_streams' = [fwd_streams EXCEPT ![sm_id] =
           Stream(rxp, rxq, TxPortIndex(topology, rxp, nb_fwd_ports), rxq)]
      /\ sm_id' = sm_id + 1
      /\ IF rxp + 1 < nb_fwd_ports
         THEN rxp' = rxp + 1 /\ rxq' = rxq
         ELSE /\ rxp' = 0
              /\ rxq' = IF rxq + 1 >= RssEnd(nb_q, num_procs, proc_id)
                        THEN RssStart(nb_q, num_procs, proc_id)
                        ELSE rxq + 1
      /\ UNCHANGED <<settings, limits, fwd_lcores, pc, lc_id>>

(* An iteration of the inner loop of icmp_echo_config_setup: stream sm_id  *)
(* of core lc_id, and all the queues of a port before the next port.       *)
IcmpStream ==
  /\ pc = "streams" /\ kind = "icmp" /\ lc_id < cfg_lcores
  /\ sm_id < fwd_lcores[lc_id].stream_nb
  /\ fwd_streams' = [fwd_streams EXCEPT
       ![fwd_lcores[lc_id].stream_idx + sm_id] = Stream(rxp, rxq, rxp, rxq)]
  /\ sm_id' = sm_id + 1
  /\ IF rxq + 1 = nb_rxq THEN rxq' = 0 /\ rxp' = rxp + 1
                         ELSE rxq' = rxq + 1 /\ rxp' = rxp
  /\ UNCHANGED <<settings, limits, fwd_lcores, pc, lc_id>>

IcmpNextLcore ==
  /\ pc = "streams" /\ kind = "icmp" /\ lc_id < cfg_lcores
  /\ ~(sm_id < fwd_lcores[lc_id].stream_nb)
  /\ lc_id' = lc_id + 1 /\ sm_id' = 0
  /\ UNCHANGED <<settings, limits, fwd_lcores, fwd_streams, pc, rxp, rxq>>

StreamsDone ==
  /\ pc = "streams"
  /\ IF kind = "icmp" THEN lc_id = cfg_lcores ELSE sm_id = cfg_streams
  /\ pc' = "done"
  /\ UNCHANGED <<settings, limits, fwd_lcores, fwd_streams, lc_id, sm_id,
                 rxp, rxq>>

Next ==
  \/ Limits
  \/ PlainLcore \/ PlainDone \/ ExtraLcore \/ ExtraDone
  \/ SimpleStream \/ RssStream \/ IcmpStream \/ IcmpNextLcore
  \/ StreamsDone

Spec == Init /\ [][Next]_vars

-----------------------------------------------------------------------------
Used == 0 .. cfg_lcores - 1
Streams == 0 .. cfg_streams - 1

(* No two cores differ by more than one stream.                            *)
LcoresBalanced ==
  pc \in {"streams", "done"} =>
    \A lc1, lc2 \in Used :
      fwd_lcores[lc1].stream_nb <= fwd_lcores[lc2].stream_nb + 1

(* Every stream is run by exactly one of the cores in use, which share     *)
(* them evenly, none left without: the arithmetic of                       *)
(* setup_fwd_config_of_each_lcore loses no stream and hands none to two    *)
(* cores, whatever the remainder.                                          *)
StreamsPartitioned ==
  pc \in {"streams", "done"} =>
    /\ \A s \in Streams : \E lc \in Used : s \in Owned(fwd_lcores[lc])
    /\ \A lc1, lc2 \in Used : lc1 # lc2 =>
         Owned(fwd_lcores[lc1]) \cap Owned(fwd_lcores[lc2]) = {}
    /\ \A lc \in Used : /\ fwd_lcores[lc].stream_nb > 0
                        /\ Owned(fwd_lcores[lc]) \subseteq Streams
    /\ LcoresBalanced

(* In a single process no receive queue is polled by two streams and no    *)
(* transmit queue is written by two streams: the bursts of ethdev are not  *)
(* thread-safe and the streams run on different cores without a lock.      *)
QueuesExclusive ==
  pc = "done" /\ num_procs = 1 =>
    \A s, t \in Streams : s # t =>
      LET a == fwd_streams[s]  b == fwd_streams[t]
      IN  /\ <<a.rx_port, a.rx_queue>> # <<b.rx_port, b.rx_queue>>
          /\ <<a.tx_port, a.tx_queue>> # <<b.tx_port, b.tx_queue>>

(* The receive side of QueuesExclusive alone.                              *)
RxQueuesExclusive ==
  pc = "done" =>
    \A s, t \in Streams : s # t =>
      \/ fwd_streams[s].rx_port # fwd_streams[t].rx_port
      \/ fwd_streams[s].rx_queue # fwd_streams[t].rx_queue

(* The queues a configuration can reach: RSS spreads packets over all the  *)
(* receive queues, so a queue nobody polls fills up and stays full.        *)
QueuesServed ==
  CASE kind = "simple" -> {0}
    [] kind = "rss"    -> 0 .. RssQueues(nb_rxq, nb_txq) - 1
    [] kind = "icmp"   -> 0 .. nb_rxq - 1

(* In a single process, every queue of every forwarding port is polled.    *)
EveryQueuePolled ==
  pc = "done" /\ num_procs = 1 =>
    {<<fwd_streams[s].rx_port, fwd_streams[s].rx_queue>> : s \in Streams}
      = (0 .. nb_fwd_ports - 1) \X QueuesServed

(* In a single process every queue belongs to one stream, and to no other. *)
QueuesPolledOnce == QueuesExclusive /\ EveryQueuePolled

(* "All queues are allocated to different processes": when num_procs       *)
(* divides the number of queues, a process polls the queues of no other.   *)
ProcessesDisjoint ==
  LET nb_q == RssQueues(nb_rxq, nb_txq)
  IN  pc = "done" /\ kind = "rss" /\ nb_q % num_procs = 0 =>
        \A other \in (0 .. num_procs - 1) \ {proc_id}, s \in Streams :
          fwd_streams[s].rx_queue \notin
            RssStart(nb_q, num_procs, other)
              .. RssEnd(nb_q, num_procs, other) - 1

(* The stream arrays the loops fill in are the ones of FwdStreams, which   *)
(* the other modules use in place of the loops.                            *)
LoopsMatchClosedForm ==
  pc = "done" =>
    /\ \A lc \in Used :
         fwd_lcores[lc] = EachLcore(cfg_streams, cfg_lcores)[lc]
    /\ \A s \in Streams :
         fwd_streams[s] = StreamAt(kind, s, topology, nb_fwd_ports, nb_rxq,
                                   nb_txq, num_procs, proc_id)
=============================================================================
