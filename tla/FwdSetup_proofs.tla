--------------------------- MODULE FwdSetup_proofs ---------------------------
(***************************************************************************)
(* Theorems about the loops of fwd_config_setup, for every number of       *)
(* ports, cores, queues and processes.                                     *)
(***************************************************************************)
EXTENDS FwdSetup, Operators_proofs

(* The limits computed by the set-up functions fit the previous lemma.     *)
LEMMA LimitsFit ==
  ASSUME TypeOK
  PROVE  LET nb_fs == NbStreams(kind, nb_fwd_ports, nb_rxq, nb_txq)
             nb_fc == NbLcoresUsed(kind, nb_fwd_lcores, nb_fwd_ports,
                                   nb_rxq, nb_txq)
         IN  /\ nb_fs \in Nat /\ nb_fc \in 0 .. MaxLcores
             /\ nb_fc <= nb_fs
             /\ nb_fc = 0 => nb_fs = 0
<1> DEFINE nb_fs == NbStreams(kind, nb_fwd_ports, nb_rxq, nb_txq)
<1> DEFINE nb_fc == NbLcoresUsed(kind, nb_fwd_lcores, nb_fwd_ports,
                                 nb_rxq, nb_txq)
<1>1. /\ kind \in {"simple", "rss", "icmp"} /\ nb_fwd_ports \in Nat
      /\ nb_fwd_lcores \in 1 .. MaxLcores /\ MaxLcores \in Nat
      /\ nb_rxq \in Nat \ {0} /\ nb_txq \in Nat \ {0}
  BY BoundsAssumption DEF TypeOK, Kinds
<1>2. /\ nb_rxq * nb_fwd_ports \in Nat
      /\ nb_txq * nb_fwd_ports \in Nat
      /\ RssQueues(nb_rxq, nb_txq) \in Nat \ {0}
      /\ RssQueues(nb_rxq, nb_txq) * nb_fwd_ports \in Nat
      /\ nb_txq * nb_fwd_ports = 0 => nb_fwd_ports = 0
      /\ nb_fwd_ports = 0 => nb_rxq * nb_fwd_ports = 0
  BY <1>1 DEF RssQueues, Least
<1>3. nb_fs \in Nat
  BY <1>1, <1>2 DEF NbStreams
<1>4. CASE kind = "icmp"
  <2>1. nb_fs = nb_rxq * nb_fwd_ports
    BY <1>4 DEF NbStreams
  <2>2. nb_fc = Least(Least(nb_fwd_lcores, nb_txq * nb_fwd_ports), nb_fs)
    BY <1>4 DEF NbLcoresUsed
  <2> QED
    BY <1>1, <1>2, <1>3, <2>1, <2>2 DEF Least
<1>5. CASE kind # "icmp"
  <2>1. nb_fc = Least(nb_fwd_lcores, nb_fs)
    BY <1>5 DEF NbLcoresUsed
  <2> QED
    BY <1>1, <1>3, <2>1 DEF Least
<1> QED
  BY <1>4, <1>5

-----------------------------------------------------------------------------
(* Type correctness.                                                       *)

LEMMA RssSliceType ==
  ASSUME TypeOK
  PROVE  /\ RssStart(RssQueues(nb_rxq, nb_txq), num_procs, proc_id) \in Nat
         /\ RssEnd(RssQueues(nb_rxq, nb_txq), num_procs, proc_id) \in Nat
<1> DEFINE nb_q == RssQueues(nb_rxq, nb_txq)
<1>1. nb_q \in Nat /\ num_procs \in Nat \ {0} /\ proc_id \in Nat
  BY DEF TypeOK, RssQueues, Least
<1>2. proc_id * nb_q \in Nat
  BY <1>1
<1>3. (proc_id * nb_q) \div num_procs \in Nat /\ nb_q \div num_procs \in Nat
  BY <1>1, <1>2
<1> HIDE DEF nb_q
<1>4. RssStart(nb_q, num_procs, proc_id) \in Nat
  BY <1>3 DEF RssStart
<1>5. RssEnd(nb_q, num_procs, proc_id) \in Nat
  BY <1>3, <1>4 DEF RssEnd
<1> QED
  BY <1>4, <1>5 DEF nb_q

(* What the loops need to know about the limits once they are computed.    *)
LimitsInv ==
  pc # "limits" =>
    /\ cfg_streams = NbStreams(kind, nb_fwd_ports, nb_rxq, nb_txq)
    /\ cfg_lcores <= cfg_streams
    /\ cfg_lcores = 0 => cfg_streams = 0

LEMMA SplitOfConfig ==
  ASSUME TypeOK, LimitsInv, pc # "limits"
  PROVE  /\ per \in Nat \ {0}
         /\ plain \in 0 .. cfg_lcores
         /\ cfg_lcores * per + (cfg_lcores - plain) = cfg_streams
<1>1. /\ cfg_streams \in Nat /\ cfg_lcores \in Nat
      /\ cfg_lcores <= cfg_streams
      /\ cfg_lcores = 0 => cfg_streams = 0
  BY BoundsAssumption DEF TypeOK, LimitsInv
<1> QED
  BY <1>1, SplitExact DEF per, plain

LEMMA PortsRemain ==
  ASSUME TypeOK, LimitsInv, pc # "limits", cfg_streams > 0
  PROVE  nb_fwd_ports > 0
<1>1. /\ kind \in {"simple", "rss", "icmp"} /\ nb_fwd_ports \in Nat
      /\ nb_rxq \in Nat \ {0} /\ nb_txq \in Nat \ {0}
  BY DEF TypeOK, Kinds
<1>2. RssQueues(nb_rxq, nb_txq) \in Nat
  BY <1>1 DEF RssQueues, Least
<1>3. nb_fwd_ports = 0 => NbStreams(kind, nb_fwd_ports, nb_rxq, nb_txq) = 0
  <2> SUFFICES ASSUME nb_fwd_ports = 0
               PROVE  NbStreams(kind, nb_fwd_ports, nb_rxq, nb_txq) = 0
    OBVIOUS
  <2>1. CASE kind = "simple"
    BY <2>1 DEF NbStreams
  <2>2. CASE kind = "rss"
    BY <2>2, <1>2 DEF NbStreams
  <2>3. CASE kind = "icmp"
    BY <2>3, <1>1 DEF NbStreams
  <2> QED
    BY <1>1, <2>1, <2>2, <2>3
<1> QED
  BY <1>1, <1>3 DEF LimitsInv

LEMMA InitType == Init => TypeOK /\ LimitsInv
<1> SUFFICES ASSUME Init
             PROVE  TypeOK /\ LimitsInv
  OBVIOUS
<1>1. /\ nb_fwd_ports \in Nat
      /\ nb_rxq \in Nat \ {0} /\ nb_txq \in Nat \ {0}
      /\ num_procs \in Nat \ {0}
  BY BoundsAssumption DEF Init
<1>2. fwd_lcores \in [Lcores -> [stream_idx : Nat, stream_nb : Nat]]
  BY DEF Init
<1>3. fwd_streams \in [0 .. cfg_streams - 1 ->
                        [rx_port : Nat, rx_queue : Nat,
                         tx_port : Nat, tx_queue : Nat]]
  BY DEF Init, ZeroStream
<1> QED
  BY <1>1, <1>2, <1>3, BoundsAssumption DEF Init, TypeOK, LimitsInv

LEMMA NextType ==
  ASSUME TypeOK, LimitsInv, [Next]_vars
  PROVE  TypeOK' /\ LimitsInv'
<1> USE BoundsAssumption
<1>1. CASE Limits
  <2>1. /\ cfg_streams' \in Nat /\ cfg_lcores' \in 0 .. MaxLcores
        /\ cfg_lcores' <= cfg_streams'
        /\ cfg_lcores' = 0 => cfg_streams' = 0
    BY <1>1, LimitsFit DEF Limits
  <2>2. fwd_streams' \in [0 .. cfg_streams' - 1 ->
                          [rx_port : Nat, rx_queue : Nat,
                           tx_port : Nat, tx_queue : Nat]]
    BY <1>1, <2>1 DEF Limits, ZeroStream
  <2>3. UNCHANGED <<kind, nb_fwd_ports, nb_rxq, nb_txq>>
    BY <1>1 DEF Limits, settings
  <2>4. LimitsInv'
    <3>1. cfg_streams' = NbStreams(kind, nb_fwd_ports, nb_rxq, nb_txq)'
      BY <1>1, <2>3 DEF Limits
    <3> QED
      BY <2>1, <3>1 DEF LimitsInv
  <2> QED
    BY <1>1, <2>1, <2>2, <2>4 DEF Limits, TypeOK, settings
<1>2. ASSUME NEW lc \in Nat, NEW nb \in Nat, Assign(lc, nb),
             pc # "limits"
      PROVE  TypeOK' /\ LimitsInv'
  <2>1. fwd_lcores' \in [Lcores -> [stream_idx : Nat, stream_nb : Nat]]
    BY <1>2 DEF Assign, TypeOK
  <2>2. LimitsInv'
    BY <1>2 DEF Assign, LimitsInv, settings, limits
  <2> QED
    BY <1>2, <2>1, <2>2 DEF Assign, TypeOK, settings, limits
<1>3. CASE PlainLcore
  <2>1. per \in Nat /\ lc_id \in Nat /\ pc # "limits"
    BY <1>3, SplitOfConfig DEF PlainLcore, TypeOK
  <2> QED
    BY <1>2, <1>3, <2>1 DEF PlainLcore
<1>4. CASE PlainDone
  BY <1>4 DEF PlainDone, TypeOK, LimitsInv, settings, limits
<1>5. CASE ExtraLcore
  <2>1. per + 1 \in Nat /\ lc_id \in Nat /\ pc # "limits"
    BY <1>5, SplitOfConfig DEF ExtraLcore, TypeOK
  <2> QED
    BY <1>2, <1>5, <2>1 DEF ExtraLcore
<1>6. CASE ExtraDone
  <2>1. rxq' \in Nat
    BY <1>6, RssSliceType DEF ExtraDone
  <2> QED
    BY <1>6, <2>1 DEF ExtraDone, TypeOK, LimitsInv, settings, limits
<1>7. ASSUME NEW i, NEW a \in Nat, NEW b \in Nat, NEW c \in Nat,
             NEW d \in Nat,
             fwd_streams' = [fwd_streams EXCEPT ![i] = Stream(a, b, c, d)],
             UNCHANGED limits
      PROVE  fwd_streams' \in [0 .. cfg_streams' - 1 ->
                                 [rx_port : Nat, rx_queue : Nat,
                                  tx_port : Nat, tx_queue : Nat]]
  BY <1>7, StreamType DEF TypeOK, limits
<1>8. CASE SimpleStream
  <2>1. nb_fwd_ports > 0
    BY <1>8, PortsRemain DEF SimpleStream, TypeOK
  <2>2. TxPortIndex(topology, sm_id, nb_fwd_ports) \in Nat
    BY <2>1, TxPortIndexNat DEF TypeOK
  <2>3. fwd_streams' \in [0 .. cfg_streams' - 1 ->
                            [rx_port : Nat, rx_queue : Nat,
                             tx_port : Nat, tx_queue : Nat]]
    BY <1>7, <1>8, <2>2 DEF SimpleStream, TypeOK
  <2> QED
    BY <1>8, <2>3, SMTT(30) DEF SimpleStream, TypeOK, LimitsInv, settings, limits
<1>9. CASE RssStream
  <2>1. nb_fwd_ports > 0
    BY <1>9, PortsRemain, SMTT(30) DEF RssStream, TypeOK
  <2>2. TxPortIndex(topology, rxp, nb_fwd_ports) \in Nat
    BY <2>1, TxPortIndexNat DEF TypeOK
  <2>3. fwd_streams' \in [0 .. cfg_streams' - 1 ->
                            [rx_port : Nat, rx_queue : Nat,
                             tx_port : Nat, tx_queue : Nat]]
    BY <1>7, <1>9, <2>2 DEF RssStream, TypeOK
  <2>4. rxp \in Nat /\ rxq \in Nat /\ sm_id \in Nat
    BY DEF TypeOK
  <2>5. rxp' \in Nat /\ rxq' \in Nat
    <3>1. CASE rxp + 1 < nb_fwd_ports
      BY <1>9, <2>4, <3>1 DEF RssStream
    <3>2. CASE ~(rxp + 1 < nb_fwd_ports)
      BY <1>9, <2>4, <3>2, RssSliceType DEF RssStream
    <3> QED
      BY <3>1, <3>2
  <2>6. sm_id' \in Nat /\ UNCHANGED <<settings, limits, fwd_lcores, pc, lc_id>>
    BY <1>9, <2>4 DEF RssStream
  <2> QED
    BY <2>3, <2>5, <2>6 DEF TypeOK, LimitsInv, settings, limits
<1>10. CASE IcmpStream
  <2>1. fwd_streams' \in [0 .. cfg_streams' - 1 ->
                            [rx_port : Nat, rx_queue : Nat,
                             tx_port : Nat, tx_queue : Nat]]
    BY <1>7, <1>10 DEF IcmpStream, TypeOK
  <2>2. rxp' \in Nat /\ rxq' \in Nat /\ sm_id' \in Nat
    BY <1>10 DEF IcmpStream, TypeOK
  <2>3. UNCHANGED <<settings, limits, fwd_lcores, pc, lc_id>>
    BY <1>10 DEF IcmpStream
  <2> QED
    BY <2>1, <2>2, <2>3 DEF TypeOK, LimitsInv, settings, limits
<1>11. CASE IcmpNextLcore
  BY <1>11 DEF IcmpNextLcore, TypeOK, LimitsInv, settings, limits
<1>12. CASE StreamsDone
  BY <1>12 DEF StreamsDone, TypeOK, LimitsInv, settings, limits
<1>13. CASE UNCHANGED vars
  BY <1>13 DEF vars, TypeOK, LimitsInv, settings, limits
<1> QED
  BY <1>1, <1>3, <1>4, <1>5, <1>6, <1>8, <1>9, <1>10, <1>11, <1>12, <1>13
     DEF Next

(* Every value the call of fwd_config_setup computes has its type: no      *)
(* counter goes negative, whatever the settings.                           *)
THEOREM TypeCorrect == Spec => [](TypeOK /\ LimitsInv)
<1>1. Init => TypeOK /\ LimitsInv
  BY InitType
<1>2. (TypeOK /\ LimitsInv) /\ [Next]_vars => (TypeOK /\ LimitsInv)'
  BY NextType
<1> QED
  BY <1>1, <1>2, PTL DEF Spec

-----------------------------------------------------------------------------
(* The partition of the streams over the cores.  The loops keep it at each *)
(* iteration: the cores assigned so far own exactly the streams counted so *)
(* far, and sm_id is where the next core starts.                           *)

Covered(l, n) ==
  /\ \A s \in 0 .. n - 1 : \E lc \in 0 .. l - 1 : s \in Owned(fwd_lcores[lc])
  /\ \A lc \in 0 .. l - 1 : /\ fwd_lcores[lc].stream_nb \in {per, per + 1}
                             /\ fwd_lcores[lc].stream_idx
                                  + fwd_lcores[lc].stream_nb <= n
  /\ \A lc1, lc2 \in 0 .. l - 1 :
       lc1 # lc2 => Owned(fwd_lcores[lc1]) \cap Owned(fwd_lcores[lc2]) = {}

PartitionInv ==
  /\ pc = "limits" => lc_id = 0 /\ sm_id = 0
  /\ pc = "plain" => /\ lc_id <= plain
                     /\ sm_id = lc_id * per
                     /\ Covered(lc_id, sm_id)
  /\ pc = "extra" => /\ lc_id \in plain .. cfg_lcores
                     /\ sm_id = lc_id * per + (lc_id - plain)
                     /\ Covered(lc_id, sm_id)
  /\ pc \in {"streams", "done"} => Covered(cfg_lcores, cfg_streams)

(* One iteration of either loop extends the partition by one core.         *)
LEMMA CoveredStep ==
  ASSUME TypeOK, lc_id < MaxLcores, Covered(lc_id, sm_id),
         NEW nb \in {per, per + 1}, per \in Nat \ {0}, Assign(lc_id, nb)
  PROVE  Covered(lc_id, sm_id)'
<1> USE DEF Owned
<1>1. /\ lc_id \in Nat /\ sm_id \in Nat /\ nb \in Nat
      /\ lc_id' = lc_id + 1 /\ sm_id' = sm_id + nb
      /\ lc_id \in Lcores
      /\ per' = per
  BY BoundsAssumption, SMTT(30) DEF TypeOK, Lcores, Assign, limits, per
<1>2. /\ fwd_lcores \in [Lcores -> [stream_idx : Nat, stream_nb : Nat]]
      /\ fwd_lcores' = [fwd_lcores EXCEPT
           ![lc_id] = [stream_idx |-> sm_id, stream_nb |-> nb]]
  BY DEF TypeOK, Assign
<1>3. /\ fwd_lcores'[lc_id].stream_idx = sm_id
      /\ fwd_lcores'[lc_id].stream_nb = nb
  BY <1>1, <1>2
<1>4. \A lc \in 0 .. lc_id - 1 :
        /\ lc \in Lcores
        /\ fwd_lcores'[lc] = fwd_lcores[lc]
        /\ fwd_lcores[lc].stream_idx \in Nat
        /\ fwd_lcores[lc].stream_nb \in Nat
  BY <1>1, <1>2, BoundsAssumption DEF Lcores
<1>5. \A s \in 0 .. sm_id' - 1 :
        \E lc \in 0 .. lc_id' - 1 : s \in Owned(fwd_lcores'[lc])
  <2> TAKE s \in 0 .. sm_id' - 1
  <2>1. CASE s < sm_id
    <3>1. s \in 0 .. sm_id - 1
      BY <2>1, <1>1
    <3>2. PICK lc \in 0 .. lc_id - 1 : s \in Owned(fwd_lcores[lc])
      BY <3>1 DEF Covered
    <3>3. s \in Owned(fwd_lcores'[lc]) /\ lc \in 0 .. lc_id' - 1
      BY <3>2, <1>1, <1>4
    <3> QED
      BY <3>3
  <2>2. CASE ~(s < sm_id)
    <3>1. s \in Owned(fwd_lcores'[lc_id]) /\ lc_id \in 0 .. lc_id' - 1
      BY <2>2, <1>1, <1>3
    <3> QED
      BY <3>1
  <2> QED
    BY <2>1, <2>2
<1>6. \A lc \in 0 .. lc_id' - 1 :
        /\ fwd_lcores'[lc].stream_nb \in {per', per' + 1}
        /\ fwd_lcores'[lc].stream_idx + fwd_lcores'[lc].stream_nb <= sm_id'
  <2> TAKE lc \in 0 .. lc_id' - 1
  <2>1. CASE lc = lc_id
    BY <2>1, <1>1, <1>3
  <2>2. CASE lc # lc_id
    <3>1. lc \in 0 .. lc_id - 1
      BY <2>2, <1>1
    <3> QED
      BY <3>1, <1>1, <1>4 DEF Covered
  <2> QED
    BY <2>1, <2>2
<1>7. \A lc1, lc2 \in 0 .. lc_id' - 1 : lc1 # lc2 =>
        Owned(fwd_lcores'[lc1]) \cap Owned(fwd_lcores'[lc2]) = {}
  <2>1. \A lc \in 0 .. lc_id - 1 :
          Owned(fwd_lcores'[lc]) \cap Owned(fwd_lcores'[lc_id]) = {}
    BY <1>1, <1>3, <1>4 DEF Covered
  <2> TAKE lc1, lc2 \in 0 .. lc_id' - 1
  <2> HAVE lc1 # lc2
  <2>2. CASE lc1 = lc_id
    <3>1. lc2 \in 0 .. lc_id - 1
      BY <2>2, <1>1
    <3> QED
      BY <2>1, <2>2, <3>1
  <2>3. CASE lc2 = lc_id
    <3>1. lc1 \in 0 .. lc_id - 1
      BY <2>3, <1>1
    <3> QED
      BY <2>1, <2>3, <3>1
  <2>4. CASE lc1 # lc_id /\ lc2 # lc_id
    <3>1. lc1 \in 0 .. lc_id - 1 /\ lc2 \in 0 .. lc_id - 1
      BY <2>4, <1>1
    <3>2. Owned(fwd_lcores[lc1]) \cap Owned(fwd_lcores[lc2]) = {}
      BY <3>1 DEF Covered
    <3> QED
      BY <3>1, <3>2, <1>4
  <2> QED
    BY <2>2, <2>3, <2>4
<1> QED
  BY <1>5, <1>6, <1>7 DEF Covered

LEMMA InitPartition == Init => PartitionInv
  BY DEF Init, PartitionInv

LEMMA NextPartition ==
  ASSUME TypeOK, LimitsInv, PartitionInv, [Next]_vars
  PROVE  PartitionInv'
<1>1. CASE Limits
  <2>1. /\ pc' = "plain" /\ lc_id' = 0 /\ sm_id' = 0
    BY <1>1 DEF Limits, PartitionInv
  <2>2. /\ TypeOK' /\ LimitsInv'
    BY NextType
  <2>3. per' \in Nat \ {0} /\ plain' \in Nat
    <3>1. /\ cfg_streams' \in Nat /\ cfg_lcores' \in Nat
          /\ cfg_lcores' <= cfg_streams'
          /\ cfg_lcores' = 0 => cfg_streams' = 0
      BY <2>1, <2>2, BoundsAssumption DEF TypeOK, LimitsInv
    <3>2. /\ PerLcore(cfg_streams', cfg_lcores') \in Nat \ {0}
          /\ NbPlain(cfg_streams', cfg_lcores') \in 0 .. cfg_lcores'
      BY <3>1, SplitExact
    <3> QED
      BY <3>1, <3>2 DEF per, plain
  <2>4. sm_id' = lc_id' * per' /\ lc_id' <= plain'
    <3>1. \A x \in Nat : 0 = 0 * x /\ 0 <= x
      OBVIOUS
    <3>2. 0 = 0 * per' /\ 0 <= plain'
      BY <2>3, <3>1
    <3> QED
      BY <2>1, <3>2
  <2>5. Covered(lc_id, sm_id)'
    BY <2>1 DEF Covered
  <2> QED
    BY <2>1, <2>4, <2>5 DEF PartitionInv
<1>2. CASE PlainLcore
  <2>1. /\ per \in Nat \ {0} /\ plain \in 0 .. cfg_lcores
        /\ lc_id \in Nat /\ lc_id < plain /\ cfg_lcores \in 0 .. MaxLcores
        /\ sm_id = lc_id * per /\ Covered(lc_id, sm_id) /\ sm_id \in Nat
    BY <1>2, SplitOfConfig DEF PlainLcore, PartitionInv, TypeOK
  <2>2. Covered(lc_id, sm_id)'
    BY <1>2, <2>1, CoveredStep, BoundsAssumption DEF PlainLcore
  <2>3. /\ lc_id' = lc_id + 1 /\ sm_id' = sm_id + per /\ pc' = "plain"
        /\ per' = per /\ plain' = plain
    BY <1>2 DEF PlainLcore, Assign, limits, per, plain
  <2>4. sm_id' = lc_id' * per'
    BY <2>1, <2>3, Distribute
  <2> QED
    BY <2>1, <2>2, <2>3, <2>4 DEF PartitionInv
<1>3. CASE PlainDone
  <2>1. /\ per \in Nat \ {0} /\ plain \in 0 .. cfg_lcores
        /\ lc_id \in Nat /\ lc_id = plain /\ cfg_lcores \in Nat
        /\ sm_id = lc_id * per /\ Covered(lc_id, sm_id)
    BY <1>3, SplitOfConfig DEF PlainDone, PartitionInv, TypeOK
  <2>2. /\ lc_id' = lc_id /\ sm_id' = sm_id /\ pc' = "extra"
        /\ cfg_lcores' = cfg_lcores /\ fwd_lcores' = fwd_lcores
        /\ per' = per /\ plain' = plain
    BY <1>3 DEF PlainDone, limits, per, plain
  <2>3. Covered(lc_id, sm_id)'
    BY <2>1, <2>2 DEF Covered
  <2>4. sm_id' = lc_id' * per' + (lc_id' - plain')
    <3>1. lc_id * per \in Nat
      BY <2>1, Distribute
    <3> QED
      BY <2>1, <2>2, <3>1
  <2> QED
    BY <2>1, <2>2, <2>3, <2>4 DEF PartitionInv
<1>4. CASE ExtraLcore
  <2>1. /\ per \in Nat \ {0} /\ plain \in 0 .. cfg_lcores
        /\ lc_id \in plain .. cfg_lcores /\ lc_id < cfg_lcores
        /\ lc_id \in Nat /\ cfg_lcores \in 0 .. MaxLcores
        /\ sm_id = lc_id * per + (lc_id - plain) /\ Covered(lc_id, sm_id)
    BY <1>4, SplitOfConfig DEF ExtraLcore, PartitionInv, TypeOK
  <2>2. Covered(lc_id, sm_id)'
    BY <1>4, <2>1, CoveredStep, BoundsAssumption DEF ExtraLcore
  <2>3. /\ lc_id' = lc_id + 1 /\ sm_id' = sm_id + (per + 1)
        /\ pc' = "extra" /\ cfg_lcores' = cfg_lcores
        /\ per' = per /\ plain' = plain
    BY <1>4 DEF ExtraLcore, Assign, limits, per, plain
  <2>4. (lc_id + 1) * per = lc_id * per + per /\ lc_id * per \in Nat
    BY <2>1, Distribute
  <2>5. sm_id' = lc_id' * per' + (lc_id' - plain')
    BY <2>1, <2>3, <2>4
  <2> QED
    BY <2>1, <2>2, <2>3, <2>5 DEF PartitionInv
<1>5. CASE ExtraDone
  <2>1. /\ plain \in 0 .. cfg_lcores
        /\ cfg_lcores * per + (cfg_lcores - plain) = cfg_streams
        /\ lc_id \in plain .. cfg_lcores /\ ~(lc_id < cfg_lcores)
        /\ cfg_lcores \in Nat
        /\ sm_id = lc_id * per + (lc_id - plain) /\ Covered(lc_id, sm_id)
    BY <1>5, SplitOfConfig DEF ExtraDone, PartitionInv, TypeOK
  <2>2. lc_id = cfg_lcores
    BY <2>1
  <2>3. sm_id = cfg_streams
    BY <2>1, <2>2
  <2>4. /\ Covered(cfg_lcores, cfg_streams)
        /\ UNCHANGED <<fwd_lcores, limits>> /\ pc' = "streams"
    BY <1>5, <2>1, <2>2, <2>3 DEF ExtraDone
  <2> QED
    BY <2>4 DEF PartitionInv, Covered, per, limits
<1>6. ASSUME pc = "streams", pc' \in {"streams", "done"},
             UNCHANGED <<fwd_lcores, limits>>
      PROVE  PartitionInv'
  BY <1>6 DEF PartitionInv, Covered, per, limits
<1>7. CASE SimpleStream
  BY <1>6, <1>7 DEF SimpleStream
<1>8. CASE RssStream
  BY <1>6, <1>8 DEF RssStream
<1>9. CASE IcmpStream
  BY <1>6, <1>9 DEF IcmpStream
<1>10. CASE IcmpNextLcore
  BY <1>6, <1>10 DEF IcmpNextLcore
<1>11. CASE StreamsDone
  BY <1>6, <1>11 DEF StreamsDone
<1>12. CASE UNCHANGED vars
  BY <1>12 DEF vars, PartitionInv, Covered, per, plain, limits
<1> QED
  BY <1>1, <1>2, <1>3, <1>4, <1>5, <1>7, <1>8, <1>9, <1>10, <1>11, <1>12
     DEF Next

(* The invariant of the loops says more than the property.                 *)
LEMMA PartitionSuffices ==
  ASSUME TypeOK, LimitsInv, PartitionInv
  PROVE  StreamsPartitioned
<1> SUFFICES ASSUME pc \in {"streams", "done"}
             PROVE  StreamsPartitioned
  BY DEF StreamsPartitioned
<1>1. /\ Covered(cfg_lcores, cfg_streams)
      /\ per \in Nat \ {0}
      /\ cfg_streams \in Nat /\ cfg_lcores \in 0 .. MaxLcores
      /\ fwd_lcores \in [Lcores -> [stream_idx : Nat, stream_nb : Nat]]
  BY SplitOfConfig DEF PartitionInv, TypeOK
<1>2. \A lc \in Used : /\ lc \in Lcores
                       /\ fwd_lcores[lc].stream_idx \in Nat
                       /\ fwd_lcores[lc].stream_nb \in Nat
  BY <1>1, BoundsAssumption DEF Used, Lcores
<1>3. LcoresBalanced
  BY <1>1, <1>2 DEF Covered, Used, LcoresBalanced
<1>4. StreamsPartitioned
  <2>1. \A s \in Streams : \E lc \in Used : s \in Owned(fwd_lcores[lc])
    BY <1>1 DEF Covered, Streams, Used
  <2>2. \A lc1, lc2 \in Used : lc1 # lc2 =>
          Owned(fwd_lcores[lc1]) \cap Owned(fwd_lcores[lc2]) = {}
    BY <1>1 DEF Covered, Used
  <2>3. \A lc \in Used : /\ fwd_lcores[lc].stream_nb > 0
                         /\ Owned(fwd_lcores[lc]) \subseteq Streams
    BY <1>1, <1>2 DEF Covered, Used, Owned, Streams
  <2> QED
    BY <1>3, <2>1, <2>2, <2>3 DEF StreamsPartitioned
<1> QED
  BY <1>4

(* No stream is lost and none is run by two cores, and the cores differ by *)
(* at most one stream, for every number of ports, queues and cores.        *)
THEOREM PartitionCorrect == Spec => []StreamsPartitioned
<1> DEFINE Inv == TypeOK /\ LimitsInv /\ PartitionInv
<1>1. Init => Inv
  BY InitType, InitPartition
<1>2. Inv /\ [Next]_vars => Inv'
  BY NextType, NextPartition
<1>3. Inv => StreamsPartitioned
  BY PartitionSuffices
<1> QED
  BY <1>1, <1>2, <1>3, PTL DEF Spec

-----------------------------------------------------------------------------
(***************************************************************************)
(* The queues of the streams, for every number of ports, cores, queues and *)
(* processes: the loops of fwd_config_setup compute the closed form of     *)
(* FwdStreams, and the closed form gives every queue to one stream.        *)
(***************************************************************************)

(* Division.                                                               *)

LEMMA DivModUnique ==
  ASSUME NEW b \in Nat \ {0}, NEW q \in Nat, NEW r \in 0 .. b - 1
  PROVE  (b * q + r) \div b = q /\ (b * q + r) % b = r
<1> DEFINE a == b * q + r
<1>1. a \in Nat
  OBVIOUS
<1> HIDE DEF a
<1>2. /\ a \div b \in Nat /\ a % b \in 0 .. b - 1
      /\ a = b * (a \div b) + (a % b)
  BY <1>1
<1>3. b * q + r = b * (a \div b) + (a % b)
  BY <1>2 DEF a
<1>4. ASSUME NEW x \in Nat, NEW y \in Nat, NEW s \in 0 .. b - 1,
             NEW t \in 0 .. b - 1, b * x + s = b * y + t, x < y
      PROVE  FALSE
  <2>1. (x + 1) * b <= y * b
    BY <1>4, MulMonotone
  <2> QED
    BY <1>4, <2>1
<1> DEFINE x == a \div b
           y == a % b
<1>5. x \in Nat /\ y \in 0 .. b - 1 /\ b * q + r = b * x + y
  BY <1>2, <1>3
<1> HIDE DEF x, y
<1>6. ~(x < q) /\ ~(q < x)
  BY <1>4, <1>5
<1>7. x = q
  BY <1>5, <1>6
<1>8. y = r
  BY <1>5, <1>7
<1> QED
  BY <1>7, <1>8 DEF a, x, y

LEMMA DivModStep ==
  ASSUME NEW a \in Nat, NEW b \in Nat \ {0}
  PROVE  IF (a % b) + 1 < b
         THEN (a + 1) \div b = a \div b /\ (a + 1) % b = (a % b) + 1
         ELSE (a + 1) \div b = (a \div b) + 1 /\ (a + 1) % b = 0
<1> DEFINE q == a \div b
           r == a % b
<1>1. q \in Nat /\ r \in 0 .. b - 1 /\ a = b * q + r
  OBVIOUS
<1> HIDE DEF q, r
<1>2. CASE r + 1 < b
  <2>1. a + 1 = b * q + (r + 1) /\ r + 1 \in 0 .. b - 1
    BY <1>1, <1>2
  <2>2. (a + 1) \div b = q /\ (a + 1) % b = r + 1
    BY <1>1, <2>1, DivModUnique
  <2> QED
    BY <1>2, <2>2 DEF q, r
<1>3. CASE ~(r + 1 < b)
  <2>1. r + 1 = b
    BY <1>1, <1>3
  <2>2. a + 1 = b * (q + 1) + 0 /\ 0 \in 0 .. b - 1 /\ q + 1 \in Nat
    BY <1>1, <2>1
  <2>3. (a + 1) \div b = q + 1 /\ (a + 1) % b = 0
    <3>1. /\ (b * (q + 1) + 0) \div b = q + 1
          /\ (b * (q + 1) + 0) % b = 0
      BY <2>2, DivModUnique
    <3> QED
      BY <2>2, <3>1
  <2> QED
    BY <1>3, <2>3 DEF q, r
<1> QED
  BY <1>2, <1>3 DEF r

-----------------------------------------------------------------------------
(* The shares of the cores, as the loops hand them out and one after the   *)
(* other.                                                                  *)

LEMMA ShareValue ==
  ASSUME NEW nb_fs \in Nat, NEW nb_fc \in Nat, nb_fc <= nb_fs,
         NEW lc \in 0 .. nb_fc - 1
  PROVE  LET p == PerLcore(nb_fs, nb_fc)
             k == NbPlain(nb_fs, nb_fc)
         IN  EachLcore(nb_fs, nb_fc)[lc] =
               IF lc < k
               THEN [stream_idx |-> lc * p, stream_nb |-> p]
               ELSE [stream_idx |-> lc * p + (lc - k), stream_nb |-> p + 1]
<1> DEFINE p == PerLcore(nb_fs, nb_fc)
           k == NbPlain(nb_fs, nb_fc)
<1>1. p \in Nat \ {0} /\ k \in 0 .. nb_fc
  BY SplitExact
<1>2. EachLcore(nb_fs, nb_fc)[lc] =
        IF lc < k THEN [stream_idx |-> lc * p, stream_nb |-> p]
        ELSE [stream_idx |-> k * p + (lc - k) * (p + 1), stream_nb |-> p + 1]
  BY DEF EachLcore
<1> HIDE DEF p, k
<1>3. ~(lc < k) => k * p + (lc - k) * (p + 1) = lc * p + (lc - k)
  BY <1>1
<1> QED
  BY <1>2, <1>3 DEF p, k

\* A share ends where the next begins, and the last where the streams do.
LEMMA SharesAdjacent ==
  ASSUME NEW nb_fs \in Nat, NEW nb_fc \in Nat, nb_fc <= nb_fs,
         NEW lc \in 0 .. nb_fc - 1
  PROVE  LET share(l) == EachLcore(nb_fs, nb_fc)[l]
         IN  /\ share(0).stream_idx = 0
             /\ share(lc) \in [stream_idx : Nat, stream_nb : Nat]
             /\ share(lc).stream_idx + share(lc).stream_nb =
                  IF lc + 1 < nb_fc THEN share(lc + 1).stream_idx ELSE nb_fs
<1> DEFINE p == PerLcore(nb_fs, nb_fc)
           k == NbPlain(nb_fs, nb_fc)
           share(l) == EachLcore(nb_fs, nb_fc)[l]
<1>1. /\ p \in Nat \ {0} /\ k \in 0 .. nb_fc
      /\ nb_fc * p + (nb_fc - k) = nb_fs
  BY SplitExact
<1>2. \A l \in 0 .. nb_fc - 1 :
        share(l) = IF l < k THEN [stream_idx |-> l * p, stream_nb |-> p]
                   ELSE [stream_idx |-> l * p + (l - k), stream_nb |-> p + 1]
  BY ShareValue
<1> HIDE DEF p, k, share
<1>3. 0 * p = 0 /\ lc * p \in Nat /\ (lc + 1) * p = lc * p + p
  BY <1>1, Distribute
<1>4. share(0).stream_idx = 0
  <2>1. 0 \in 0 .. nb_fc - 1
    OBVIOUS
  <2> QED
    BY <1>1, <1>2, <1>3, <2>1
<1>5. share(lc) \in [stream_idx : Nat, stream_nb : Nat]
  BY <1>1, <1>2, <1>3
<1>6. CASE lc + 1 < nb_fc
  <2>1. lc + 1 \in 0 .. nb_fc - 1
    BY <1>6
  <2>2. share(lc + 1).stream_idx =
          (lc + 1) * p + (IF lc + 1 < k THEN 0 ELSE (lc + 1) - k)
    BY <1>1, <1>2, <1>3, <2>1
  <2>3. share(lc).stream_idx + share(lc).stream_nb =
          lc * p + p + (IF lc < k THEN 0 ELSE (lc - k) + 1)
    BY <1>1, <1>2, <1>3
  <2> QED
    BY <1>1, <1>3, <1>4, <1>5, <1>6, <2>2, <2>3 DEF share
<1>7. CASE ~(lc + 1 < nb_fc)
  <2>1. lc + 1 = nb_fc
    BY <1>7
  <2>2. share(lc).stream_idx + share(lc).stream_nb =
          lc * p + p + (IF lc < k THEN 0 ELSE (lc - k) + 1)
    BY <1>1, <1>2, <1>3
  <2>3. share(lc).stream_idx + share(lc).stream_nb = nb_fs
    BY <1>1, <1>3, <2>1, <2>2
  <2> QED
    BY <1>4, <1>5, <1>7, <2>3 DEF share
<1> QED
  BY <1>6, <1>7

-----------------------------------------------------------------------------
(* What the loops have done after some iterations.                         *)

AtSettings(s) ==
  StreamAt(kind, s, topology, nb_fwd_ports, nb_rxq, nb_txq, num_procs, proc_id)

\* The first l cores have their share; the first n streams their queues.
Given(l) ==
  \A lc \in 0 .. l - 1 : fwd_lcores[lc] = EachLcore(cfg_streams, cfg_lcores)[lc]
Joined(n) == \A s \in 0 .. n - 1 : fwd_streams[s] = AtSettings(s)

RssWidth == RssQueues(nb_rxq, nb_txq) \div num_procs
RssFirst == RssStart(RssQueues(nb_rxq, nb_txq), num_procs, proc_id)
RssCounters ==
  nb_fwd_ports > 0 =>
    /\ rxp = sm_id % nb_fwd_ports
    /\ rxq = RssFirst + (IF RssWidth <= 1 THEN 0
                         ELSE (sm_id \div nb_fwd_ports) % RssWidth)

\* The streams that icmp_echo_config_setup has joined.
IcmpDone ==
  IF lc_id < cfg_lcores THEN fwd_lcores[lc_id].stream_idx + sm_id
  ELSE cfg_streams
IcmpCounters ==
  /\ lc_id \in 0 .. cfg_lcores
  /\ lc_id < cfg_lcores => sm_id <= fwd_lcores[lc_id].stream_nb
  /\ rxp = IcmpDone \div nb_rxq /\ rxq = IcmpDone % nb_rxq

LoopsInv ==
  /\ pc \in {"plain", "extra"} => Given(lc_id)
  /\ pc \in {"streams", "done"} =>
       /\ Given(cfg_lcores)
       /\ kind = "simple" => sm_id <= cfg_streams /\ Joined(sm_id)
       /\ kind = "rss" =>
            sm_id <= cfg_streams /\ Joined(sm_id) /\ RssCounters
       /\ kind = "icmp" => IcmpCounters /\ Joined(IcmpDone)
  /\ pc = "done" =>
       IF kind = "icmp" THEN lc_id = cfg_lcores ELSE sm_id = cfg_streams

LoopsInvs == TypeOK /\ LimitsInv /\ PartitionInv /\ LoopsInv

LEMMA InitLoops == Init => LoopsInv
  BY DEF Init, LoopsInv

\* An iteration of a loop over the cores hands out the share of EachLcore.
LEMMA GivenStep ==
  ASSUME TypeOK, LimitsInv, pc # "limits", Given(lc_id), lc_id < cfg_lcores,
         NEW nb, Assign(lc_id, nb),
         IF lc_id < plain THEN sm_id = lc_id * per /\ nb = per
         ELSE sm_id = lc_id * per + (lc_id - plain) /\ nb = per + 1
  PROVE  Given(lc_id)'
<1>1. /\ cfg_streams \in Nat /\ cfg_lcores \in 0 .. MaxLcores
      /\ cfg_lcores <= cfg_streams /\ lc_id \in 0 .. cfg_lcores - 1
      /\ fwd_lcores \in [Lcores -> [stream_idx : Nat, stream_nb : Nat]]
      /\ MaxLcores \in Nat
  BY BoundsAssumption DEF TypeOK, LimitsInv
<1>2. /\ fwd_lcores' = [fwd_lcores EXCEPT
           ![lc_id] = [stream_idx |-> sm_id, stream_nb |-> nb]]
      /\ lc_id' = lc_id + 1 /\ UNCHANGED limits
  BY DEF Assign
<1>3. EachLcore(cfg_streams, cfg_lcores)[lc_id] =
        IF lc_id < plain THEN [stream_idx |-> lc_id * per, stream_nb |-> per]
        ELSE [stream_idx |-> lc_id * per + (lc_id - plain),
              stream_nb |-> per + 1]
  BY <1>1, ShareValue DEF per, plain
<1>4. fwd_lcores'[lc_id] = EachLcore(cfg_streams, cfg_lcores)[lc_id]
  BY <1>1, <1>2, <1>3 DEF Lcores
<1>5. \A lc \in 0 .. lc_id - 1 :
        fwd_lcores'[lc] = EachLcore(cfg_streams, cfg_lcores)[lc]
  BY <1>1, <1>2 DEF Given, Lcores
<1>6. \A lc \in 0 .. lc_id' - 1 :
        fwd_lcores'[lc] = EachLcore(cfg_streams, cfg_lcores)[lc]
  BY <1>1, <1>2, <1>4, <1>5
<1> QED
  BY <1>2, <1>6 DEF Given, limits

\* The loops over the streams write one stream at a time.
LEMMA JoinedStep ==
  ASSUME TypeOK, NEW n \in Nat, n < cfg_streams, Joined(n),
         fwd_streams' = [fwd_streams EXCEPT ![n] = AtSettings(n)],
         UNCHANGED <<settings, limits>>
  PROVE  \A s \in 0 .. (n + 1) - 1 : fwd_streams'[s] = AtSettings(s)'
<1>1. /\ cfg_streams \in Nat /\ n \in 0 .. cfg_streams - 1
      /\ DOMAIN fwd_streams = 0 .. cfg_streams - 1
  BY DEF TypeOK
<1>2. \A s : AtSettings(s)' = AtSettings(s)
  BY DEF AtSettings, settings
<1> QED
  BY <1>1, <1>2 DEF Joined

LEMMA SimpleStreamLoops ==
  ASSUME LoopsInvs, SimpleStream
  PROVE  LoopsInv'
<1>1. /\ pc = "streams" /\ kind = "simple" /\ sm_id \in Nat
      /\ sm_id < cfg_streams /\ Joined(sm_id) /\ Given(cfg_lcores)
      /\ cfg_streams \in Nat
  BY DEF LoopsInvs, LoopsInv, SimpleStream, TypeOK
<1>2. fwd_streams' = [fwd_streams EXCEPT ![sm_id] = AtSettings(sm_id)]
  BY <1>1 DEF SimpleStream, AtSettings, StreamAt, SimpleStreamAt
<1>3. /\ sm_id' = sm_id + 1 /\ pc' = pc /\ kind' = kind
      /\ UNCHANGED <<settings, limits, fwd_lcores>>
  BY DEF SimpleStream, settings
<1>4. \A s \in 0 .. (sm_id + 1) - 1 : fwd_streams'[s] = AtSettings(s)'
  BY <1>1, <1>2, <1>3, JoinedStep DEF LoopsInvs
<1>5. Joined(sm_id)'
  BY <1>3, <1>4 DEF Joined
<1>6. Given(cfg_lcores)'
  BY <1>1, <1>3 DEF Given, limits
<1> QED
  BY <1>1, <1>3, <1>5, <1>6 DEF LoopsInv, limits

LEMMA RssStreamLoops ==
  ASSUME LoopsInvs, RssStream
  PROVE  LoopsInv'
<1> DEFINE n == nb_fwd_ports
           w == RssWidth
           q == sm_id \div n
<1>1. /\ pc = "streams" /\ kind = "rss" /\ sm_id \in Nat
      /\ sm_id < cfg_streams /\ Joined(sm_id) /\ Given(cfg_lcores)
      /\ cfg_streams \in Nat /\ pc # "limits" /\ cfg_streams > 0
  BY DEF LoopsInvs, LoopsInv, RssStream, TypeOK
<1>2. n \in Nat \ {0}
  BY <1>1, PortsRemain, SMTT(30) DEF LoopsInvs, TypeOK
<1>3. w \in Nat /\ RssFirst \in Nat
  <2>1. /\ RssQueues(nb_rxq, nb_txq) \in Nat /\ num_procs \in Nat \ {0}
    BY DEF LoopsInvs, TypeOK, RssQueues, Least
  <2> QED
    BY <2>1, RssSliceType DEF RssWidth, RssFirst, LoopsInvs
<1>4. /\ q \in Nat /\ rxp = sm_id % n
      /\ rxq = RssFirst + (IF w <= 1 THEN 0 ELSE q % w)
  BY <1>1, <1>2 DEF LoopsInvs, LoopsInv, RssCounters
<1>5. RssEnd(RssQueues(nb_rxq, nb_txq), num_procs, proc_id) = RssFirst + w
  BY DEF RssEnd, RssFirst, RssWidth
<1>6. AtSettings(sm_id) = Stream(rxp, rxq, TxPortIndex(topology, rxp, n), rxq)
  BY <1>1, <1>4 DEF AtSettings, StreamAt, RssStreamAt, RssFirst, RssWidth
<1>7. fwd_streams' = [fwd_streams EXCEPT ![sm_id] = AtSettings(sm_id)]
  BY <1>6 DEF RssStream
<1>8. /\ sm_id' = sm_id + 1 /\ pc' = pc /\ kind' = kind
      /\ UNCHANGED <<settings, limits, fwd_lcores, lc_id>>
      /\ IF rxp + 1 < n THEN rxp' = rxp + 1 /\ rxq' = rxq
         ELSE /\ rxp' = 0
              /\ rxq' = IF rxq + 1 >= RssFirst + w THEN RssFirst ELSE rxq + 1
  BY <1>5 DEF RssStream, settings, RssFirst
<1>9. \A s \in 0 .. (sm_id + 1) - 1 : fwd_streams'[s] = AtSettings(s)'
  BY <1>1, <1>7, <1>8, JoinedStep DEF LoopsInvs
<1>10. Joined(sm_id)' /\ Given(cfg_lcores)'
  BY <1>1, <1>8, <1>9 DEF Joined, Given, limits
<1>11. w' = w /\ RssFirst' = RssFirst /\ n' = n
  BY <1>8 DEF RssWidth, RssFirst, settings
<1>12. IF (sm_id % n) + 1 < n
       THEN (sm_id + 1) \div n = q /\ (sm_id + 1) % n = (sm_id % n) + 1
       ELSE (sm_id + 1) \div n = q + 1 /\ (sm_id + 1) % n = 0
  BY <1>1, <1>2, DivModStep
<1> HIDE DEF q, w, n
<1>13. w > 1 => IF (q % w) + 1 < w THEN (q + 1) % w = (q % w) + 1
                ELSE (q + 1) % w = 0
  <2>1. w > 1 => w \in Nat \ {0}
    BY <1>3
  <2> QED
    BY <1>4, <2>1, DivModStep
<1>14. w > 1 => q % w \in 0 .. w - 1
  BY <1>3, <1>4
<1>15. /\ rxp' = (sm_id + 1) % n
       /\ rxq' = RssFirst + (IF w <= 1 THEN 0 ELSE ((sm_id + 1) \div n) % w)
  <2>1. CASE rxp + 1 < n
    BY <1>4, <1>8, <1>12, <2>1
  <2>2. CASE ~(rxp + 1 < n) /\ w <= 1
    BY <1>3, <1>4, <1>8, <1>12, <2>2
  <2>3. CASE ~(rxp + 1 < n) /\ ~(w <= 1)
    <3>1. rxp' = (sm_id + 1) % n /\ (sm_id + 1) \div n = q + 1
      BY <1>4, <1>8, <1>12, <2>3
    <3>2. rxq = RssFirst + (q % w)
      BY <1>4, <2>3
    <3>3. rxq' = RssFirst + ((q + 1) % w)
      BY <1>3, <1>8, <1>13, <1>14, <2>3, <3>2
    <3> QED
      BY <2>3, <3>1, <3>3
  <2> QED
    BY <2>1, <2>2, <2>3
<1>16. RssCounters'
  BY <1>8, <1>11, <1>15 DEF RssCounters, n, w
<1>17. sm_id' <= cfg_streams'
  BY <1>1, <1>8 DEF limits
<1> QED
  BY <1>1, <1>8, <1>10, <1>16, <1>17 DEF LoopsInv

\* What icmp_echo_config_setup still has to join begins at IcmpDone.
LEMMA IcmpShares ==
  ASSUME LoopsInvs, pc \in {"streams", "done"}, kind = "icmp",
         lc_id < cfg_lcores
  PROVE  /\ fwd_lcores[lc_id] \in [stream_idx : Nat, stream_nb : Nat]
         /\ fwd_lcores[lc_id].stream_idx + fwd_lcores[lc_id].stream_nb
              = IF lc_id + 1 < cfg_lcores THEN fwd_lcores[lc_id + 1].stream_idx
                ELSE cfg_streams
         /\ fwd_lcores[lc_id].stream_idx + fwd_lcores[lc_id].stream_nb
              <= cfg_streams
<1>1. /\ cfg_streams \in Nat /\ cfg_lcores \in Nat
      /\ cfg_lcores <= cfg_streams /\ lc_id \in 0 .. cfg_lcores - 1
      /\ Given(cfg_lcores)
  BY BoundsAssumption DEF LoopsInvs, LoopsInv, TypeOK, LimitsInv, IcmpCounters
<1>2. /\ fwd_lcores[lc_id] = EachLcore(cfg_streams, cfg_lcores)[lc_id]
      /\ lc_id + 1 < cfg_lcores =>
           fwd_lcores[lc_id + 1] = EachLcore(cfg_streams, cfg_lcores)[lc_id + 1]
  BY <1>1 DEF Given
<1> DEFINE share(l) == EachLcore(cfg_streams, cfg_lcores)[l]
<1>3. /\ fwd_lcores[lc_id] \in [stream_idx : Nat, stream_nb : Nat]
      /\ fwd_lcores[lc_id].stream_idx + fwd_lcores[lc_id].stream_nb
           = IF lc_id + 1 < cfg_lcores THEN fwd_lcores[lc_id + 1].stream_idx
             ELSE cfg_streams
  <2>1. /\ share(lc_id) \in [stream_idx : Nat, stream_nb : Nat]
        /\ share(lc_id).stream_idx + share(lc_id).stream_nb
             = IF lc_id + 1 < cfg_lcores THEN share(lc_id + 1).stream_idx
               ELSE cfg_streams
    BY <1>1, SharesAdjacent
  <2> QED
    BY <1>2, <2>1
<1>4. Owned(EachLcore(cfg_streams, cfg_lcores)[lc_id]) \subseteq 0 .. cfg_streams - 1
  BY <1>1, SharesOfLcores
<1>5. fwd_lcores[lc_id].stream_nb > 0
  <2>1. Owned(fwd_lcores[lc_id]) # {}
    BY <1>1, <1>2, ShareNotEmpty
  <2> QED
    BY <1>3, <2>1 DEF Owned
<1>6. fwd_lcores[lc_id].stream_idx + fwd_lcores[lc_id].stream_nb - 1
        \in Owned(fwd_lcores[lc_id])
  BY <1>3, <1>5 DEF Owned
<1>7. fwd_lcores[lc_id].stream_idx + fwd_lcores[lc_id].stream_nb <= cfg_streams
  BY <1>1, <1>2, <1>3, <1>4, <1>6
<1> QED
  BY <1>3, <1>7

LEMMA IcmpStreamLoops ==
  ASSUME LoopsInvs, IcmpStream
  PROVE  LoopsInv'
<1>1. /\ pc = "streams" /\ kind = "icmp" /\ sm_id \in Nat
      /\ lc_id \in 0 .. cfg_lcores /\ lc_id < cfg_lcores
      /\ sm_id < fwd_lcores[lc_id].stream_nb
      /\ Joined(IcmpDone) /\ Given(cfg_lcores) /\ cfg_streams \in Nat
      /\ rxp = IcmpDone \div nb_rxq /\ rxq = IcmpDone % nb_rxq
      /\ nb_rxq \in Nat \ {0}
  BY DEF LoopsInvs, LoopsInv, IcmpCounters, IcmpStream, TypeOK
<1>2. /\ fwd_lcores[lc_id] \in [stream_idx : Nat, stream_nb : Nat]
      /\ fwd_lcores[lc_id].stream_idx + fwd_lcores[lc_id].stream_nb
           <= cfg_streams
  BY <1>1, IcmpShares
<1>3. /\ IcmpDone = fwd_lcores[lc_id].stream_idx + sm_id
      /\ IcmpDone \in Nat /\ IcmpDone < cfg_streams
  BY <1>1, <1>2 DEF IcmpDone
<1>4. fwd_streams' = [fwd_streams EXCEPT ![IcmpDone] = AtSettings(IcmpDone)]
  BY <1>1, <1>3 DEF IcmpStream, AtSettings, StreamAt, IcmpStreamAt
<1>5. /\ sm_id' = sm_id + 1 /\ pc' = pc /\ kind' = kind /\ lc_id' = lc_id
      /\ UNCHANGED <<settings, limits, fwd_lcores>>
      /\ IF rxq + 1 = nb_rxq THEN rxq' = 0 /\ rxp' = rxp + 1
                             ELSE rxq' = rxq + 1 /\ rxp' = rxp
  BY DEF IcmpStream, settings
<1>6. IcmpDone' = IcmpDone + 1
  <2>1. IcmpDone' = fwd_lcores[lc_id].stream_idx + (sm_id + 1)
    BY <1>1, <1>5 DEF IcmpDone, limits
  <2>2. fwd_lcores[lc_id].stream_idx \in Nat
    BY <1>2
  <2> QED
    BY <1>1, <1>3, <2>1, <2>2
<1>7. \A s \in 0 .. (IcmpDone + 1) - 1 : fwd_streams'[s] = AtSettings(s)'
  BY <1>1, <1>3, <1>4, <1>5, JoinedStep DEF LoopsInvs
<1>8. Joined(IcmpDone)' /\ Given(cfg_lcores)'
  BY <1>1, <1>5, <1>6, <1>7 DEF Joined, Given, limits
<1>9. IF (IcmpDone % nb_rxq) + 1 < nb_rxq
      THEN /\ (IcmpDone + 1) \div nb_rxq = IcmpDone \div nb_rxq
           /\ (IcmpDone + 1) % nb_rxq = (IcmpDone % nb_rxq) + 1
      ELSE /\ (IcmpDone + 1) \div nb_rxq = (IcmpDone \div nb_rxq) + 1
           /\ (IcmpDone + 1) % nb_rxq = 0
  BY <1>1, <1>3, DivModStep
<1>10. IcmpDone % nb_rxq \in 0 .. nb_rxq - 1 /\ nb_rxq' = nb_rxq
  BY <1>1, <1>3, <1>5 DEF settings
<1>11. rxp' = IcmpDone' \div nb_rxq' /\ rxq' = IcmpDone' % nb_rxq'
  BY <1>1, <1>5, <1>6, <1>9, <1>10
<1>12. IcmpCounters'
  BY <1>1, <1>2, <1>5, <1>11 DEF IcmpCounters, limits
<1> QED
  BY <1>1, <1>5, <1>8, <1>12 DEF LoopsInv

LEMMA IcmpNextLcoreLoops ==
  ASSUME LoopsInvs, IcmpNextLcore
  PROVE  LoopsInv'
<1>1. /\ pc = "streams" /\ kind = "icmp" /\ sm_id \in Nat
      /\ lc_id \in 0 .. cfg_lcores /\ lc_id < cfg_lcores
      /\ sm_id <= fwd_lcores[lc_id].stream_nb
      /\ ~(sm_id < fwd_lcores[lc_id].stream_nb)
      /\ Joined(IcmpDone) /\ Given(cfg_lcores)
      /\ rxp = IcmpDone \div nb_rxq /\ rxq = IcmpDone % nb_rxq
      /\ cfg_streams \in Nat /\ cfg_lcores \in Nat /\ cfg_lcores <= cfg_streams
  BY BoundsAssumption DEF LoopsInvs, LoopsInv, IcmpCounters, IcmpNextLcore,
     TypeOK, LimitsInv
<1>2. /\ fwd_lcores[lc_id] \in [stream_idx : Nat, stream_nb : Nat]
      /\ fwd_lcores[lc_id].stream_idx + fwd_lcores[lc_id].stream_nb
           = IF lc_id + 1 < cfg_lcores THEN fwd_lcores[lc_id + 1].stream_idx
             ELSE cfg_streams
  BY <1>1, IcmpShares
<1>3. /\ lc_id' = lc_id + 1 /\ sm_id' = 0 /\ pc' = pc /\ kind' = kind
      /\ UNCHANGED <<settings, limits, fwd_lcores, fwd_streams, rxp, rxq>>
  BY DEF IcmpNextLcore, settings
<1>4. \A lc \in 0 .. cfg_lcores - 1 :
        fwd_lcores[lc] \in [stream_idx : Nat, stream_nb : Nat]
  BY <1>1, SharesAdjacent DEF Given
<1>5. IcmpDone' = IcmpDone
  <2>1. sm_id = fwd_lcores[lc_id].stream_nb
    BY <1>1, <1>2
  <2>2. IcmpDone = IF lc_id + 1 < cfg_lcores
                   THEN fwd_lcores[lc_id + 1].stream_idx ELSE cfg_streams
    BY <1>1, <1>2, <2>1 DEF IcmpDone
  <2>3. CASE lc_id + 1 < cfg_lcores
    <3>1. fwd_lcores[lc_id + 1].stream_idx \in Nat
      BY <1>1, <1>4, <2>3
    <3> QED
      BY <1>3, <2>2, <2>3, <3>1 DEF IcmpDone, limits
  <2>4. CASE ~(lc_id + 1 < cfg_lcores)
    BY <1>3, <2>2, <2>4 DEF IcmpDone, limits
  <2> QED
    BY <2>3, <2>4
<1>6. Joined(IcmpDone)' /\ Given(cfg_lcores)'
  BY <1>1, <1>3, <1>5 DEF Joined, Given, AtSettings, settings, limits
<1>7. IcmpCounters'
  <2>1. lc_id' \in 0 .. cfg_lcores'
    BY <1>1, <1>3 DEF limits
  <2>2. lc_id' < cfg_lcores' => sm_id' <= fwd_lcores'[lc_id'].stream_nb
    <3>1. lc_id + 1 < cfg_lcores => fwd_lcores[lc_id + 1].stream_nb \in Nat
      BY <1>1, <1>4
    <3> QED
      BY <1>3, <3>1 DEF limits
  <2> QED
    BY <1>1, <1>3, <1>5, <2>1, <2>2 DEF IcmpCounters, settings
<1> QED
  BY <1>1, <1>3, <1>6, <1>7 DEF LoopsInv

LEMMA NextLoops ==
  ASSUME LoopsInvs, [Next]_vars
  PROVE  LoopsInv'
<1>1. /\ TypeOK /\ LimitsInv /\ PartitionInv /\ LoopsInv
      /\ cfg_streams \in Nat /\ cfg_lcores \in Nat /\ lc_id \in Nat
      /\ kind \in {"simple", "rss", "icmp"}
  BY BoundsAssumption DEF LoopsInvs, TypeOK, Kinds
<1>2. CASE Limits
  <2>1. lc_id' = 0 /\ pc' = "plain"
    BY <1>1, <1>2 DEF Limits, PartitionInv
  <2>2. Given(lc_id)'
    BY <2>1 DEF Given
  <2> QED
    BY <2>1, <2>2 DEF LoopsInv
<1>3. CASE PlainLcore
  <2>1. /\ pc = "plain" /\ lc_id < plain /\ sm_id = lc_id * per
        /\ Assign(lc_id, per) /\ Given(lc_id)
    BY <1>1, <1>3 DEF PlainLcore, PartitionInv, LoopsInv
  <2>2. plain \in 0 .. cfg_lcores
    BY <1>1, <2>1, SplitOfConfig
  <2>3. lc_id < cfg_lcores
    BY <1>1, <2>1, <2>2
  <2>4. Given(lc_id)'
    BY <1>1, <2>1, <2>3, GivenStep
  <2> QED
    BY <2>1, <2>4 DEF LoopsInv, Assign
<1>4. CASE PlainDone
  <2>1. /\ pc = "plain" /\ pc' = "extra" /\ Given(lc_id)
        /\ UNCHANGED <<limits, fwd_lcores, lc_id>>
    BY <1>1, <1>4 DEF PlainDone, LoopsInv
  <2>2. Given(lc_id)'
    BY <2>1 DEF Given, limits
  <2> QED
    BY <2>1, <2>2 DEF LoopsInv
<1>5. CASE ExtraLcore
  <2>1. /\ pc = "extra" /\ lc_id < cfg_lcores /\ lc_id \in plain .. cfg_lcores
        /\ sm_id = lc_id * per + (lc_id - plain)
        /\ Assign(lc_id, per + 1) /\ Given(lc_id)
    BY <1>1, <1>5 DEF ExtraLcore, PartitionInv, LoopsInv
  <2>2. plain \in 0 .. cfg_lcores
    BY <1>1, <2>1, SplitOfConfig
  <2>3. ~(lc_id < plain)
    BY <1>1, <2>1, <2>2
  <2>4. Given(lc_id)'
    BY <1>1, <2>1, <2>3, GivenStep
  <2> QED
    BY <2>1, <2>4 DEF LoopsInv, Assign
<1>6. CASE ExtraDone
  <2>1. /\ pc = "extra" /\ pc' = "streams" /\ lc_id' = 0 /\ sm_id' = 0
        /\ rxp' = 0 /\ rxq' = (IF kind = "rss" THEN RssFirst ELSE 0)
        /\ UNCHANGED <<settings, limits, fwd_lcores, fwd_streams>>
        /\ ~(lc_id < cfg_lcores) /\ lc_id \in plain .. cfg_lcores
        /\ Given(lc_id)
    BY <1>1, <1>6 DEF ExtraDone, PartitionInv, LoopsInv, RssFirst
  <2>2. plain \in 0 .. cfg_lcores /\ lc_id = cfg_lcores
    <3>1. plain \in 0 .. cfg_lcores
      BY <1>1, <2>1, SplitOfConfig
    <3> QED
      BY <1>1, <2>1, <3>1
  <2>3. Given(cfg_lcores)' /\ Joined(0)'
    BY <2>1, <2>2 DEF Given, Joined, limits
  <2>4. kind = "rss" => RssCounters'
    <3> SUFFICES ASSUME kind = "rss", nb_fwd_ports > 0
                 PROVE  RssCounters'
      BY <2>1 DEF RssCounters, settings
    <3>1. nb_fwd_ports \in Nat \ {0} /\ RssWidth \in Nat /\ RssFirst \in Nat
      <4>1. RssQueues(nb_rxq, nb_txq) \in Nat /\ num_procs \in Nat \ {0}
        BY <1>1 DEF TypeOK, RssQueues, Least
      <4>2. RssWidth \in Nat
        BY <4>1 DEF RssWidth
      <4>3. RssFirst \in Nat
        BY <1>1, RssSliceType DEF RssFirst
      <4>4. nb_fwd_ports \in Nat \ {0}
        BY <1>1 DEF TypeOK
      <4> QED
        BY <4>2, <4>3, <4>4
    <3>2. /\ 0 % nb_fwd_ports = 0 /\ 0 \div nb_fwd_ports = 0
          /\ RssWidth > 1 => 0 % RssWidth = 0
      BY <3>1
    <3>3. /\ nb_fwd_ports' = nb_fwd_ports /\ RssWidth' = RssWidth
          /\ RssFirst' = RssFirst
      BY <2>1 DEF settings, RssWidth, RssFirst
    <3>4. rxp' = sm_id' % nb_fwd_ports
      BY <2>1, <3>2
    <3>5. rxq' = RssFirst + (IF RssWidth <= 1 THEN 0
                             ELSE (sm_id' \div nb_fwd_ports) % RssWidth)
      BY <2>1, <3>1, <3>2
    <3> QED
      BY <3>3, <3>4, <3>5 DEF RssCounters
  <2>5. kind = "icmp" => IcmpDone' = 0 /\ IcmpCounters'
    <3> SUFFICES ASSUME kind = "icmp"
                 PROVE  IcmpDone' = 0 /\ IcmpCounters'
      OBVIOUS
    <3>1. /\ cfg_lcores <= cfg_streams /\ (cfg_lcores = 0 => cfg_streams = 0)
          /\ Given(cfg_lcores) /\ nb_rxq \in Nat \ {0}
      BY <1>1, <2>1, <2>2 DEF LimitsInv, TypeOK
    <3>2. 0 < cfg_lcores =>
            /\ fwd_lcores[0].stream_idx = 0
            /\ fwd_lcores[0] \in [stream_idx : Nat, stream_nb : Nat]
      <4> SUFFICES ASSUME 0 < cfg_lcores
                   PROVE  /\ fwd_lcores[0].stream_idx = 0
                          /\ fwd_lcores[0] \in
                               [stream_idx : Nat, stream_nb : Nat]
        OBVIOUS
      <4>1. 0 \in 0 .. cfg_lcores - 1
        BY <1>1
      <4>2. fwd_lcores[0] = EachLcore(cfg_streams, cfg_lcores)[0]
        BY <3>1, <4>1 DEF Given
      <4> QED
        BY <1>1, <3>1, <4>1, <4>2, SharesAdjacent, ZenonT(30)
    <3>3. IcmpDone' = 0
      BY <1>1, <2>1, <3>1, <3>2 DEF IcmpDone, limits
    <3>4. 0 \div nb_rxq = 0 /\ 0 % nb_rxq = 0
      BY <3>1
    <3> QED
      BY <1>1, <2>1, <3>2, <3>3, <3>4 DEF IcmpCounters, settings, limits
  <2>6. /\ kind' = kind /\ sm_id' <= cfg_streams' /\ Joined(sm_id)'
        /\ kind = "icmp" => Joined(IcmpDone)'
    BY <1>1, <2>1, <2>3, <2>5 DEF settings, limits, Joined
  <2> QED
    BY <2>1, <2>3, <2>4, <2>5, <2>6 DEF LoopsInv
<1>7. CASE SimpleStream
  BY <1>7, SimpleStreamLoops
<1>8. CASE RssStream
  BY <1>8, RssStreamLoops
<1>9. CASE IcmpStream
  BY <1>9, IcmpStreamLoops
<1>10. CASE IcmpNextLcore
  BY <1>10, IcmpNextLcoreLoops
<1>11. CASE StreamsDone \/ UNCHANGED vars
  <2>1. /\ UNCHANGED <<settings, limits, fwd_lcores, fwd_streams, lc_id, sm_id,
                       rxp, rxq>>
        /\ \/ pc' = pc
           \/ /\ pc = "streams" /\ pc' = "done"
              /\ IF kind = "icmp" THEN lc_id = cfg_lcores
                 ELSE sm_id = cfg_streams
    BY <1>11 DEF StreamsDone, vars
  <2>2. /\ Given(lc_id)' = Given(lc_id) /\ Given(cfg_lcores)' = Given(cfg_lcores)
        /\ Joined(sm_id)' = Joined(sm_id) /\ RssCounters' = RssCounters
        /\ IcmpCounters' = IcmpCounters /\ Joined(IcmpDone)' = Joined(IcmpDone)
        /\ kind' = kind
    BY <2>1 DEF Given, Joined, AtSettings, RssCounters, RssWidth, RssFirst,
       IcmpCounters, IcmpDone, settings, limits
  <2> QED
    BY <1>1, <2>1, <2>2 DEF LoopsInv, limits
<1> QED
  BY <1>2, <1>3, <1>4, <1>5, <1>6, <1>7, <1>8, <1>9, <1>10, <1>11 DEF Next

\* At the end the loops have handed out and joined everything.
LEMMA LoopsDone ==
  ASSUME LoopsInvs, pc = "done"
  PROVE  Given(cfg_lcores) /\ Joined(cfg_streams)
<1>1. kind \in {"simple", "rss", "icmp"} /\ cfg_lcores \in Nat
  BY BoundsAssumption DEF LoopsInvs, TypeOK, Kinds
<1>2. CASE kind = "icmp"
  <2>1. IcmpDone = cfg_streams
    BY <1>1, <1>2 DEF LoopsInvs, LoopsInv, IcmpDone
  <2> QED
    BY <1>2, <2>1 DEF LoopsInvs, LoopsInv
<1>3. CASE kind # "icmp"
  BY <1>1, <1>3 DEF LoopsInvs, LoopsInv
<1> QED
  BY <1>2, <1>3

LEMMA LoopsInductive == Spec => []LoopsInvs
<1>1. Init => LoopsInvs
  BY InitType, InitPartition, InitLoops DEF LoopsInvs
<1>2. LoopsInvs /\ [Next]_vars => LoopsInvs'
  BY NextType, NextPartition, NextLoops DEF LoopsInvs
<1> QED
  BY <1>1, <1>2, PTL DEF Spec

(* The loops of fwd_config_setup compute the closed form of FwdStreams,    *)
(* which the modules of the running system use in their place.             *)
THEOREM LoopsCorrect == Spec => []LoopsMatchClosedForm
<1>1. LoopsInvs => LoopsMatchClosedForm
  BY LoopsDone DEF LoopsMatchClosedForm, Given, Joined, AtSettings, Used,
     Streams
<1> QED
  BY <1>1, LoopsInductive, PTL

-----------------------------------------------------------------------------
(* The queues of a single process.                                         *)

\* The stream of queue q of port p.
StreamOf(p, q) ==
  CASE kind = "simple" -> p
    [] kind = "rss"    -> nb_fwd_ports * q + p
    [] kind = "icmp"   -> nb_rxq * p + q

AtOne(s) == StreamAt(kind, s, topology, nb_fwd_ports, nb_rxq, nb_txq, 1, 0)
NbOne == NbStreams(kind, nb_fwd_ports, nb_rxq, nb_txq)

\* A queue of the configuration is the receive queue of its stream.
LEMMA StreamOfQueue ==
  ASSUME TypeOK, NEW p \in 0 .. nb_fwd_ports - 1, NEW q \in QueuesServed
  PROVE  /\ StreamOf(p, q) \in 0 .. NbOne - 1
         /\ AtOne(StreamOf(p, q)).rx_port = p
         /\ AtOne(StreamOf(p, q)).rx_queue = q
<1> DEFINE n == nb_fwd_ports
           nb_q == RssQueues(nb_rxq, nb_txq)
<1>1. /\ kind \in {"simple", "rss", "icmp"} /\ topology \in Topologies
      /\ n \in Nat \ {0} /\ nb_rxq \in Nat \ {0}
  BY DEF TypeOK, Kinds
<1>2. nb_q \in Nat
  BY DEF TypeOK, RssQueues, Least
<1>3. ASSUME NEW b \in Nat \ {0}, NEW m \in Nat, NEW x \in 0 .. m - 1,
             NEW r \in 0 .. b - 1
      PROVE  b * x + r \in 0 .. (m * b) - 1
  <2>1. (x + 1) * b <= m * b
    BY <1>3, MulMonotone
  <2> QED
    BY <1>3, <2>1
<1>4. CASE kind = "simple"
  <2>1. q = 0 /\ StreamOf(p, q) = p /\ NbOne = n
    BY <1>4 DEF QueuesServed, StreamOf, NbOne, NbStreams
  <2>2. AtOne(p) = Stream(p, 0, TxPortIndex(topology, p, n), 0)
    BY <1>4 DEF AtOne, StreamAt, SimpleStreamAt
  <2> QED
    BY <2>1, <2>2 DEF Stream
<1>5. CASE kind = "rss"
  <2>1. /\ q \in 0 .. nb_q - 1 /\ StreamOf(p, q) = n * q + p
        /\ NbOne = nb_q * n
    BY <1>5 DEF QueuesServed, StreamOf, NbOne, NbStreams
  <2> HIDE DEF nb_q
  <2>2. StreamOf(p, q) \in 0 .. NbOne - 1
    BY <1>1, <1>2, <1>3, <2>1
  <2>3. StreamOf(p, q) \div n = q /\ StreamOf(p, q) % n = p
    BY <1>1, <2>1, DivModUnique
  <2>4. AtOne(StreamOf(p, q))
          = RssStreamAt(StreamOf(p, q), topology, n, nb_q, 1, 0)
    BY <1>5 DEF AtOne, StreamAt, nb_q
  <2>5. RssStreamAt(StreamOf(p, q), topology, n, nb_q, 1, 0)
          = Stream(p, q, TxPortIndex(topology, p, n), q)
    <3> DEFINE x == StreamOf(p, q)
    <3>1. x \in 0 .. (nb_q * n) - 1 /\ x \div n = q /\ x % n = p
      BY <2>1, <2>2, <2>3
    <3> HIDE DEF x
    <3>2. RssStreamAt(x, topology, n, nb_q, 1, 0)
            = Stream(x % n, x \div n, TxPortIndex(topology, x % n, n), x \div n)
      BY <1>1, <1>2, <3>1, RssStreamAtRange
    <3>3. RssStreamAt(x, topology, n, nb_q, 1, 0)
            = Stream(p, q, TxPortIndex(topology, p, n), q)
      BY <3>1, <3>2
    <3> QED
      BY <3>3 DEF x
  <2> QED
    BY <2>2, <2>4, <2>5 DEF Stream
<1>6. CASE kind = "icmp"
  <2>1. /\ q \in 0 .. nb_rxq - 1 /\ StreamOf(p, q) = nb_rxq * p + q
        /\ NbOne = nb_rxq * n
    BY <1>6 DEF QueuesServed, StreamOf, NbOne, NbStreams
  <2>2. StreamOf(p, q) \in 0 .. NbOne - 1
    <3>1. nb_rxq * p + q \in 0 .. (n * nb_rxq) - 1
      BY <1>1, <1>3, <2>1
    <3>2. n * nb_rxq = nb_rxq * n
      BY <1>1
    <3> QED
      BY <2>1, <3>1, <3>2
  <2>3. StreamOf(p, q) \div nb_rxq = p /\ StreamOf(p, q) % nb_rxq = q
    <3>1. p \in Nat
      BY <1>1
    <3>2. (nb_rxq * p + q) \div nb_rxq = p /\ (nb_rxq * p + q) % nb_rxq = q
      BY <1>1, <2>1, <3>1, DivModUnique
    <3> QED
      BY <2>1, <3>2
  <2>4. AtOne(StreamOf(p, q)) = Stream(p, q, p, q)
    BY <1>6, <2>3 DEF AtOne, StreamAt, IcmpStreamAt
  <2> QED
    BY <2>2, <2>4 DEF Stream
<1> QED
  BY <1>1, <1>4, <1>5, <1>6

\* The receive queue of a stream is a queue of the configuration.
LEMMA QueueOfStream ==
  ASSUME TypeOK, NEW s \in 0 .. NbOne - 1
  PROVE  /\ AtOne(s).rx_port \in 0 .. nb_fwd_ports - 1
         /\ AtOne(s).rx_queue \in QueuesServed
<1> DEFINE n == nb_fwd_ports
           nb_q == RssQueues(nb_rxq, nb_txq)
<1>1. /\ kind \in {"simple", "rss", "icmp"} /\ topology \in Topologies
      /\ n \in Nat /\ nb_rxq \in Nat /\ nb_q \in Nat
  BY DEF TypeOK, Kinds, RssQueues, Least
<1>2. CASE kind = "simple"
  <2>1. s \in 0 .. n - 1
    BY <1>2 DEF NbOne, NbStreams
  <2>2. AtOne(s) = Stream(s, 0, TxPortIndex(topology, s, n), 0)
    BY <1>2 DEF AtOne, StreamAt, SimpleStreamAt
  <2> QED
    BY <1>2, <2>1, <2>2 DEF Stream, QueuesServed
<1>3. CASE kind = "rss"
  <2>1. s \in 0 .. (nb_q * n) - 1
    BY <1>3 DEF NbOne, NbStreams
  <2>2. AtOne(s) = RssStreamAt(s, topology, n, nb_q, 1, 0)
    BY <1>3 DEF AtOne, StreamAt
  <2>3. QueuesServed = 0 .. nb_q - 1
    BY <1>3 DEF QueuesServed
  <2> HIDE DEF nb_q
  <2>4. /\ s % n \in 0 .. n - 1 /\ s \div n \in 0 .. nb_q - 1
        /\ RssStreamAt(s, topology, n, nb_q, 1, 0)
             = Stream(s % n, s \div n, TxPortIndex(topology, s % n, n), s \div n)
    BY <1>1, <2>1, RssStreamAtRange
  <2> QED
    BY <2>2, <2>3, <2>4 DEF Stream
<1>4. CASE kind = "icmp"
  <2>1. s \in 0 .. (nb_rxq * n) - 1
    BY <1>4 DEF NbOne, NbStreams
  <2>2. AtOne(s) = IcmpStreamAt(s, nb_rxq) /\ QueuesServed = 0 .. nb_rxq - 1
    BY <1>4 DEF AtOne, StreamAt, QueuesServed
  <2>3. /\ s % nb_rxq \in 0 .. nb_rxq - 1 /\ s \div nb_rxq \in 0 .. n - 1
        /\ IcmpStreamAt(s, nb_rxq) = Stream(s \div nb_rxq, s % nb_rxq,
                                            s \div nb_rxq, s % nb_rxq)
    BY <1>1, <2>1, IcmpStreamAtRange
  <2> QED
    BY <2>2, <2>3 DEF Stream
<1> QED
  BY <1>1, <1>2, <1>3, <1>4

\* What the loops leave in a single process.
LEMMA SingleProcess ==
  ASSUME LoopsInvs, pc = "done", num_procs = 1
  PROVE  cfg_streams = NbOne /\ \A s \in Streams : fwd_streams[s] = AtOne(s)
<1>1. proc_id = 0
  BY DEF LoopsInvs, TypeOK
<1>2. cfg_streams = NbOne
  BY DEF LoopsInvs, LimitsInv, NbOne
<1>3. \A s \in Streams : fwd_streams[s] = AtOne(s)
  BY <1>1, LoopsDone DEF Joined, AtSettings, AtOne, Streams
<1> QED
  BY <1>2, <1>3

LEMMA SingleExclusive ==
  ASSUME LoopsInvs
  PROVE  QueuesExclusive
<1> SUFFICES ASSUME pc = "done", num_procs = 1,
                    NEW s \in Streams, NEW t \in Streams, s # t
             PROVE  LET a == fwd_streams[s]  b == fwd_streams[t]
                    IN  /\ <<a.rx_port, a.rx_queue>> # <<b.rx_port, b.rx_queue>>
                        /\ <<a.tx_port, a.tx_queue>> # <<b.tx_port, b.tx_queue>>
  BY DEF QueuesExclusive
<1>1. /\ fwd_streams[s] = AtOne(s) /\ fwd_streams[t] = AtOne(t)
      /\ s \in 0 .. NbOne - 1 /\ t \in 0 .. NbOne - 1
  BY SingleProcess DEF Streams
<1>2. /\ kind \in Kinds /\ topology \in Topologies /\ nb_fwd_ports \in Nat
      /\ nb_rxq \in Nat /\ nb_txq \in Nat
  BY DEF LoopsInvs, TypeOK
<1>3. /\ AtOne(s).rx_port # AtOne(t).rx_port \/ AtOne(s).rx_queue # AtOne(t).rx_queue
      /\ AtOne(s).tx_port # AtOne(t).tx_port \/ AtOne(s).tx_queue # AtOne(t).tx_queue
  BY <1>1, <1>2, StreamAtExclusive DEF AtOne, NbOne
<1> QED
  BY <1>1, <1>3

LEMMA SinglePolled ==
  ASSUME LoopsInvs
  PROVE  EveryQueuePolled
<1> SUFFICES ASSUME pc = "done", num_procs = 1
             PROVE  {<<fwd_streams[s].rx_port, fwd_streams[s].rx_queue>> :
                       s \in Streams}
                      = (0 .. nb_fwd_ports - 1) \X QueuesServed
  BY DEF EveryQueuePolled
<1>1. TypeOK /\ Streams = 0 .. NbOne - 1
      /\ \A s \in Streams : fwd_streams[s] = AtOne(s)
  BY SingleProcess DEF Streams, LoopsInvs
<1>2. \A s \in Streams : /\ fwd_streams[s].rx_port \in 0 .. nb_fwd_ports - 1
                         /\ fwd_streams[s].rx_queue \in QueuesServed
  BY <1>1, QueueOfStream
<1>3. ASSUME NEW p \in 0 .. nb_fwd_ports - 1, NEW q \in QueuesServed
      PROVE  \E s \in Streams : /\ fwd_streams[s].rx_port = p
                                /\ fwd_streams[s].rx_queue = q
  BY <1>1, <1>3, StreamOfQueue
<1> QED
  BY <1>2, <1>3

(* In a single process the loops of fwd_config_setup give every queue of   *)
(* every forwarding port to one stream and to no other: no two cores poll  *)
(* or fill a queue together, and no queue is left to overflow.             *)
THEOREM QueuesCorrect == Spec => []QueuesPolledOnce
<1>1. LoopsInvs => QueuesPolledOnce
  BY SingleExclusive, SinglePolled DEF QueuesPolledOnce
<1> QED
  BY <1>1, LoopsInductive, PTL

-----------------------------------------------------------------------------
(* The queues of several processes.                                        *)

\* When the queues divide evenly every process has a slice of its own.
LEMMA Slices ==
  ASSUME NEW nb_q \in Nat \ {0}, NEW procs \in Nat \ {0}, nb_q % procs = 0,
         NEW p \in 0 .. procs - 1
  PROVE  LET w == nb_q \div procs
         IN  /\ w \in Nat \ {0}
             /\ RssStart(nb_q, procs, p) = p * w
             /\ RssEnd(nb_q, procs, p) = (p + 1) * w
<1> DEFINE w == nb_q \div procs
<1>1. w \in Nat /\ nb_q = procs * w
  OBVIOUS
<1> HIDE DEF w
<1>2. w # 0
  BY <1>1
<1>3. p * nb_q = procs * (p * w) + 0 /\ p * w \in Nat /\ 0 \in 0 .. procs - 1
  BY <1>1
<1>4. RssStart(nb_q, procs, p) = p * w
  <2>1. (procs * (p * w) + 0) \div procs = p * w
    BY <1>3, DivModUnique
  <2> QED
    BY <1>3, <2>1 DEF RssStart
<1>5. RssEnd(nb_q, procs, p) = (p + 1) * w
  BY <1>1, <1>4, Distribute DEF RssEnd, w
<1> QED
  BY <1>1, <1>2, <1>4, <1>5 DEF w

LEMMA QueuesDisjoint ==
  ASSUME LoopsInvs
  PROVE  ProcessesDisjoint
<1> DEFINE nb_q == RssQueues(nb_rxq, nb_txq)
           w == nb_q \div num_procs
<1> SUFFICES ASSUME pc = "done", kind = "rss", nb_q % num_procs = 0,
                    NEW other \in (0 .. num_procs - 1) \ {proc_id},
                    NEW s \in Streams
             PROVE  fwd_streams[s].rx_queue \notin
                      RssStart(nb_q, num_procs, other)
                        .. RssEnd(nb_q, num_procs, other) - 1
  BY DEF ProcessesDisjoint
<1>1. /\ nb_q \in Nat \ {0} /\ num_procs \in Nat \ {0}
      /\ proc_id \in 0 .. num_procs - 1
  BY DEF LoopsInvs, TypeOK, RssQueues, Least
<1>2. /\ TypeOK /\ LimitsInv /\ cfg_streams > 0 /\ s \in Nat
      /\ nb_fwd_ports \in Nat
  BY DEF LoopsInvs, TypeOK, Streams
<1>3. nb_fwd_ports \in Nat \ {0}
  BY <1>2, PortsRemain
<1>4. fwd_streams[s] = RssStreamAt(s, topology, nb_fwd_ports, nb_q, num_procs,
                                   proc_id)
  BY LoopsDone DEF Joined, AtSettings, StreamAt, Streams
<1> HIDE DEF nb_q
<1>5. /\ w \in Nat \ {0}
      /\ RssStart(nb_q, num_procs, proc_id) = proc_id * w
      /\ RssStart(nb_q, num_procs, other) = other * w
      /\ RssEnd(nb_q, num_procs, other) = (other + 1) * w
  <2>1. other \in 0 .. num_procs - 1 /\ nb_q % num_procs = 0
    OBVIOUS
  <2>2. /\ w \in Nat \ {0}
        /\ RssStart(nb_q, num_procs, proc_id) = proc_id * w
    BY <1>1, <2>1, Slices
  <2>3. /\ RssStart(nb_q, num_procs, other) = other * w
        /\ RssEnd(nb_q, num_procs, other) = (other + 1) * w
    BY <1>1, <2>1, Slices
  <2> QED
    BY <2>2, <2>3
<1>6. fwd_streams[s].rx_queue
        = proc_id * w + (IF w <= 1 THEN 0 ELSE (s \div nb_fwd_ports) % w)
  BY <1>4, <1>5 DEF RssStreamAt, Stream
<1>7. s \div nb_fwd_ports \in Nat
  BY <1>2, <1>3
<1> HIDE DEF w
<1>8. (IF w <= 1 THEN 0 ELSE (s \div nb_fwd_ports) % w) \in 0 .. w - 1
  BY <1>5, <1>7
<1>9. proc_id * w \in Nat /\ (proc_id + 1) * w = proc_id * w + w
  BY <1>1, <1>5
<1>10. /\ fwd_streams[s].rx_queue >= proc_id * w
       /\ fwd_streams[s].rx_queue < (proc_id + 1) * w
  BY <1>6, <1>8, <1>9, <1>5
<1>11. CASE other < proc_id
  <2>1. (other + 1) * w <= proc_id * w
    BY <1>1, <1>5, <1>11, MulMonotone
  <2> QED
    BY <1>1, <1>5, <1>6, <1>8, <1>9, <1>10, <2>1
<1>12. CASE proc_id < other
  <2>1. (proc_id + 1) * w <= other * w
    BY <1>1, <1>5, <1>12, MulMonotone
  <2> QED
    BY <1>1, <1>5, <1>6, <1>8, <1>9, <1>10, <2>1
<1> QED
  BY <1>1, <1>11, <1>12

(* "All queues are allocated to different processes": when the number of   *)
(* processes divides the number of queues, the streams of one process poll *)
(* no queue of another's slice, whatever the process and the topology.     *)
THEOREM ProcessesCorrect == Spec => []ProcessesDisjoint
  BY LoopsInductive, QueuesDisjoint, PTL
=============================================================================
