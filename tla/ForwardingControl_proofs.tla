----------------------- MODULE ForwardingControl_proofs -----------------------
(***************************************************************************)
(* Theorems about the forwarding control, for every number of ports, cores *)
(* and queues: its types, the lists of ports, and, when the operator does  *)
(* not reconfigure a running test, the safety of the cores and of the      *)
(* engine contexts, and its steps as steps of ForwardingService.           *)
(***************************************************************************)
EXTENDS ForwardingControl, Operators_proofs, FiniteSetTheorems,
        SequenceTheorems

-----------------------------------------------------------------------------
(* The lists of ports.                                                     *)

LEMMA PortsAreNaturals == NbEthPorts \in Nat /\ Ports \subseteq Nat
  BY ControlAssumption DEF Ports

LEMMA WithoutType ==
  ASSUME NEW list \in Seq(Ports), NEW p
  PROVE  Without(list, p) \in Seq(Ports)
<1> DEFINE shorter == [j \in 1 .. Len(list) - 1 |->
                         IF j < IndexOf(list, p) THEN list[j] ELSE list[j + 1]]
<1>1. Len(list) \in Nat
  BY LenProperties
<1>2. CASE \E i \in 1 .. Len(list) : list[i] = p
  <2>1. Without(list, p) = shorter
    BY <1>2 DEF Without
  <2>2. Len(list) - 1 \in Nat
    BY <1>1, <1>2
  <2>3. \A j \in 1 .. Len(list) - 1 : list[j] \in Ports /\ list[j + 1] \in Ports
    BY <1>1, ElementOfSeq
  <2>4. shorter \in [1 .. Len(list) - 1 -> Ports]
    BY <2>3
  <2> QED
    BY <2>1, <2>2, <2>4, SeqDef
<1>3. CASE ~\E i \in 1 .. Len(list) : list[i] = p
  BY <1>3 DEF Without
<1> QED
  BY <1>2, <1>3

(* Compacting a list without repetition removes the port and nothing else. *)
LEMMA WithoutRemoves ==
  ASSUME NEW list \in Seq(Ports), NoRepeat(list), NEW p
  PROVE  /\ NoRepeat(Without(list, p))
         /\ Listed(Without(list, p)) = Listed(list) \ {p}
<1>1. Len(list) \in Nat /\ DOMAIN list = 1 .. Len(list)
  BY LenProperties
<1>2. CASE \E i \in 1 .. Len(list) : list[i] = p
  <2> DEFINE k == IndexOf(list, p)
             shorter == [j \in 1 .. Len(list) - 1 |->
                           IF j < k THEN list[j] ELSE list[j + 1]]
  <2>1. k \in 1 .. Len(list) /\ list[k] = p
    BY <1>2 DEF IndexOf
  <2>2. Without(list, p) = shorter
    BY <1>2 DEF Without
  <2> HIDE DEF k
  <2>3. \A i, j \in 1 .. Len(list) : i # j => list[i] # list[j]
    BY <1>1 DEF NoRepeat
  <2>4. NoRepeat(shorter)
    BY <1>1, <2>1, <2>3 DEF NoRepeat
  <2>5. Listed(shorter) \subseteq Listed(list) \ {p}
    BY <1>1, <2>1, <2>3 DEF Listed
  <2>6. \A i \in 1 .. Len(list) : list[i] # p => list[i] \in Listed(shorter)
    <3> SUFFICES ASSUME NEW i \in 1 .. Len(list), list[i] # p
                 PROVE  \E j \in 1 .. Len(list) - 1 : shorter[j] = list[i]
      BY DEF Listed
    <3>1. CASE i < k
      BY <1>1, <2>1, <3>1
    <3>2. CASE k < i
      <4>1. i - 1 \in 1 .. Len(list) - 1 /\ ~(i - 1 < k) /\ (i - 1) + 1 = i
        BY <1>1, <2>1, <3>2
      <4>2. shorter[i - 1] = list[i]
        BY <4>1
      <4> QED
        BY <4>1, <4>2
    <3> QED
      BY <1>1, <2>1, <3>1, <3>2
  <2>7. Listed(list) \ {p} \subseteq Listed(shorter)
    BY <1>1, <2>6 DEF Listed
  <2> QED
    BY <2>2, <2>4, <2>5, <2>7
<1>3. CASE ~\E i \in 1 .. Len(list) : list[i] = p
  BY <1>1, <1>3 DEF Without, Listed
<1> QED
  BY <1>2, <1>3

LEMMA PrefixType ==
  ASSUME NEW list \in Seq(Ports), NEW n \in 0 .. Len(list)
  PROVE  /\ SubSeq(list, 1, n) \in Seq(Ports)
         /\ Len(SubSeq(list, 1, n)) = n
         /\ \A i \in 1 .. n : SubSeq(list, 1, n)[i] = list[i]
<1>1. Len(list) \in Nat /\ \A i \in 1 .. n : list[i] \in Ports
  BY LenProperties, ElementOfSeq
<1>2. /\ SubSeq(list, 1, n) \in Seq(Ports)
      /\ Len(SubSeq(list, 1, n)) = IF 1 <= n THEN n - 1 + 1 ELSE 0
      /\ \A i \in 1 .. n - 1 + 1 : SubSeq(list, 1, n)[i] = list[1 + i - 1]
  BY <1>1, SubSeqProperties
<1> QED
  BY <1>1, <1>2

LEMMA PrefixListed ==
  ASSUME NEW list \in Seq(Ports), NEW n \in 0 .. Len(list)
  PROVE  /\ Listed(SubSeq(list, 1, n)) = {list[i] : i \in 1 .. n}
         /\ NoRepeat(list) => NoRepeat(SubSeq(list, 1, n))
<1> DEFINE prefix == SubSeq(list, 1, n)
<1>1. /\ prefix \in Seq(Ports)
      /\ Len(prefix) = n
      /\ \A i \in 1 .. n : prefix[i] = list[i]
  BY PrefixType
<1>2. Len(list) \in Nat /\ DOMAIN list = 1 .. Len(list)
  BY LenProperties
<1> HIDE DEF prefix
<1>3. DOMAIN prefix = 1 .. n
  BY <1>1, LenProperties
<1>4. Listed(prefix) = {list[i] : i \in 1 .. n}
  BY <1>1, <1>3 DEF Listed
<1>5. NoRepeat(list) => NoRepeat(prefix)
  BY <1>1, <1>2, <1>3 DEF NoRepeat
<1> QED
  BY <1>4, <1>5 DEF prefix

LEMMA AppendListed ==
  ASSUME NEW list \in Seq(Ports), NEW p \in Ports
  PROVE  /\ Append(list, p) \in Seq(Ports)
         /\ Len(Append(list, p)) = Len(list) + 1
         /\ Listed(Append(list, p)) = Listed(list) \cup {p}
         /\ NoRepeat(list) /\ p \notin Listed(list)
              => NoRepeat(Append(list, p))
<1>1. /\ Append(list, p) \in Seq(Ports)
      /\ Len(Append(list, p)) = Len(list) + 1
      /\ \A i \in 1 .. Len(list) : Append(list, p)[i] = list[i]
      /\ Append(list, p)[Len(list) + 1] = p
      /\ Len(list) \in Nat
  OBVIOUS
<1>2. /\ DOMAIN Append(list, p) = 1 .. Len(list) + 1
      /\ DOMAIN list = 1 .. Len(list)
  BY <1>1, LenProperties
<1> DEFINE longer == Append(list, p)
<1> HIDE DEF longer
<1>3. Listed(longer) = Listed(list) \cup {p}
  BY <1>1, <1>2 DEF Listed, longer
<1>4. ASSUME NoRepeat(list), p \notin Listed(list)
      PROVE  NoRepeat(longer)
  BY <1>1, <1>2, <1>4 DEF Listed, NoRepeat, longer
<1> QED
  BY <1>1, <1>3, <1>4 DEF longer

-----------------------------------------------------------------------------
(* Type correctness: the settings of the operator, what fwd_config_setup   *)
(* computes from them, and the rest.                                       *)

InputsOK ==
  /\ port_status \in [Ports -> {"STOPPED", "STARTED", "HANDLING", "CLOSED"}]
  /\ ports_ids \in Seq(Ports) /\ fwd_ports_ids \in Seq(Ports)
  /\ nb_fwd_ports \in 0 .. Len(fwd_ports_ids)
  /\ nb_cfg_lcores \in 1 .. NbLcores /\ nb_fwd_lcores \in 0 .. nb_cfg_lcores
  /\ nb_rxq \in Nat /\ nb_txq \in Nat
  /\ cur_fwd_eng \in Engines

ConfigOK ==
  /\ cfg_eng \in Engines
  /\ cfg_ports \in Nat /\ cfg_lcores \in 0 .. NbLcores /\ cfg_streams \in Nat
  /\ nb_fwd_streams \in Nat
  /\ fwd_streams \in [0 .. nb_fwd_streams - 1 -> StreamRecord]
  /\ fwd_lcores \in [Lcores -> ShareRecord]

MainPoints == {"command", "begin", "begin_first", "launch", "first",
               "first_wait", "stopping", "exited", "undefined"}

ControlOK ==
  /\ stopped \in [Lcores -> BOOLEAN] /\ test_done \in BOOLEAN
  /\ contexts \subseteq PairedEngines \X Ports
  /\ main \in MainPoints
  /\ wstate \in [Lcores -> {"WAIT", "LAUNCHED", "RUNNING"}]
  /\ captured \in [Lcores -> [stream_idx : Nat, stream_nb : Nat,
                              eng : Engines \cup {"txonly", NoEngine}]]
  /\ dangling \in [Lcores -> BOOLEAN]

LEMMA TypeParts == TypeOK <=> InputsOK /\ ConfigOK /\ ControlOK
  BY DEF TypeOK, InputsOK, ConfigOK, ControlOK, nb_cfg_ports, StreamRecord,
         ShareRecord, MainPoints

LEMMA TypePartsPrimed == TypeOK' <=> InputsOK' /\ ConfigOK' /\ ControlOK'
  BY DEF TypeOK, InputsOK, ConfigOK, ControlOK, nb_cfg_ports, StreamRecord,
         ShareRecord, MainPoints

(* The limits of the configuration a command is about to compute.          *)
LEMMA NewLimits ==
  ASSUME InputsOK'
  PROVE  /\ NewKind \in Kinds
         /\ NewStreams \in Nat
         /\ NewLcores \in 0 .. NbLcores /\ NewLcores <= NewStreams
<1>1. /\ nb_fwd_lcores' \in Nat /\ nb_fwd_lcores' <= NbLcores
      /\ nb_rxq' \in Nat /\ nb_txq' \in Nat
      /\ nb_fwd_ports' \in Nat /\ NbLcores \in Nat
  <2>1. Len(fwd_ports_ids') \in Nat
    BY LenProperties DEF InputsOK
  <2> QED
    BY <2>1, ControlAssumption DEF InputsOK
<1>2. NewKind \in Kinds
  BY DEF NewKind, SetupKind, Kinds
<1>3. NewStreams \in Nat
  BY <1>1, <1>2, NbStreamsType DEF NewStreams
<1>4. /\ NewLcores \in 0 .. nb_fwd_lcores'
      /\ NewLcores <= NewStreams
  BY <1>1, <1>2, NbLcoresUsedType DEF NewLcores, NewStreams
<1> QED
  BY <1>1, <1>2, <1>3, <1>4

LEMMA NewAllocationType ==
  ASSUME InputsOK', nb_fwd_streams \in Nat
  PROVE  NewAllocation \in Nat
<1>1. Len(ports_ids') \in Nat /\ nb_rxq' \in Nat /\ nb_txq' \in Nat
  BY LenProperties DEF InputsOK
<1>2. Greatest(nb_rxq', nb_txq') \in Nat
  BY <1>1 DEF Greatest
<1>3. NbAllocated(nb_ports', nb_rxq', nb_txq') \in Nat
  BY <1>1, <1>2 DEF NbAllocated, nb_ports
<1> QED
  BY <1>3 DEF NewAllocation

(* A stream of the new configuration names ports that forward.             *)
LEMMA PortStreamValue ==
  ASSUME InputsOK', NEW s \in 0 .. NewStreams - 1
  PROVE  LET st == StreamAt(NewKind, s, Topology, nb_fwd_ports', nb_rxq',
                            nb_txq', 1, 0)
         IN  /\ st \in [rx_port : 0 .. nb_fwd_ports' - 1, rx_queue : Nat,
                        tx_port : 0 .. nb_fwd_ports' - 1, tx_queue : Nat]
             /\ PortStream(s) = [rx_port  |-> fwd_ports_ids'[st.rx_port + 1],
                                 rx_queue |-> st.rx_queue,
                                 tx_port  |-> fwd_ports_ids'[st.tx_port + 1],
                                 tx_queue |-> st.tx_queue]
<1> DEFINE st == StreamAt(NewKind, s, Topology, nb_fwd_ports', nb_rxq',
                          nb_txq', 1, 0)
<1>1. /\ nb_rxq' \in Nat /\ nb_txq' \in Nat /\ nb_fwd_ports' \in Nat
      /\ NewKind \in Kinds /\ Topology \in Topologies
  <2>1. Len(fwd_ports_ids') \in Nat
    BY LenProperties DEF InputsOK
  <2> QED
    BY <2>1, NewLimits, ControlAssumption DEF InputsOK
<1>2. s \in 0 .. NbStreams(NewKind, nb_fwd_ports', nb_rxq', nb_txq') - 1
  BY DEF NewStreams
<1>3. st \in [rx_port : 0 .. nb_fwd_ports' - 1, rx_queue : Nat,
              tx_port : 0 .. nb_fwd_ports' - 1, tx_queue : Nat]
  BY <1>1, <1>2, StreamAtRange
<1>4. PortStream(s) = [st EXCEPT !.rx_port = fwd_ports_ids'[st.rx_port + 1],
                                 !.tx_port = fwd_ports_ids'[st.tx_port + 1]]
  BY DEF PortStream
<1> HIDE DEF st
<1>5. PortStream(s) = [rx_port  |-> fwd_ports_ids'[st.rx_port + 1],
                       rx_queue |-> st.rx_queue,
                       tx_port  |-> fwd_ports_ids'[st.tx_port + 1],
                       tx_queue |-> st.tx_queue]
  BY <1>3, <1>4
<1> QED
  BY <1>3, <1>5 DEF st

LEMMA IndexShift ==
  ASSUME NEW len \in Nat, NEW n \in 0 .. len
  PROVE  \A i \in 0 .. n - 1 : i + 1 \in 1 .. len
  OBVIOUS

LEMMA PortStreamType ==
  ASSUME InputsOK', NEW s \in 0 .. NewStreams - 1
  PROVE  PortStream(s) \in StreamRecord
<1> DEFINE st == StreamAt(NewKind, s, Topology, nb_fwd_ports', nb_rxq',
                          nb_txq', 1, 0)
<1>1. /\ st \in [rx_port : 0 .. nb_fwd_ports' - 1, rx_queue : Nat,
                 tx_port : 0 .. nb_fwd_ports' - 1, tx_queue : Nat]
      /\ PortStream(s) = [rx_port  |-> fwd_ports_ids'[st.rx_port + 1],
                          rx_queue |-> st.rx_queue,
                          tx_port  |-> fwd_ports_ids'[st.tx_port + 1],
                          tx_queue |-> st.tx_queue]
  BY PortStreamValue
<1> HIDE DEF st
<1>2. \A i \in 0 .. nb_fwd_ports' - 1 : fwd_ports_ids'[i + 1] \in Nat
  <2>1. /\ fwd_ports_ids' \in Seq(Ports) /\ Len(fwd_ports_ids') \in Nat
        /\ nb_fwd_ports' \in 0 .. Len(fwd_ports_ids')
    BY LenProperties DEF InputsOK
  <2>2. \A i \in 0 .. nb_fwd_ports' - 1 : i + 1 \in 1 .. Len(fwd_ports_ids')
    BY <2>1, IndexShift
  <2> QED
    BY <2>1, <2>2, ElementOfSeq, PortsAreNaturals
<1> QED
  BY <1>1, <1>2 DEF StreamRecord

(* fwd_config_setup keeps the types, whatever the command has set.         *)
LEMMA SetupType ==
  ASSUME TypeOK, InputsOK', NEW next \in MainPoints, SetupForwarding(next),
         UNCHANGED <<stopped, test_done, contexts, workerVars>>
  PROVE  TypeOK'
<1> USE DEF workerVars
<1>1. ConfigOK /\ ControlOK
  BY TypeParts
<1>2. CASE SetupUndefined
  <2>1. main' = "undefined" /\ UNCHANGED <<config, dangling>>
    BY <1>2 DEF SetupForwarding
  <2>2. ConfigOK'
    BY <1>1, <2>1 DEF config, ConfigOK
  <2>3. ControlOK'
    BY <1>1, <2>1 DEF ControlOK, MainPoints
  <2> QED
    BY <2>2, <2>3, TypePartsPrimed
<1>3. CASE ~SetupUndefined
  <2>1. main' = next /\ ConfigComputed
    BY <1>3 DEF SetupForwarding
  <2>2. NewAllocation \in Nat
    BY <1>1, NewAllocationType DEF ConfigOK
  <2>3. fwd_streams' \in [0 .. NewAllocation - 1 -> StreamRecord]
    <3>1. \A s \in 0 .. NewAllocation - 1 :
            (IF s < NewStreams THEN PortStream(s)
             ELSE IF NewAllocation = nb_fwd_streams THEN fwd_streams[s]
             ELSE ZeroStream) \in StreamRecord
      <4> SUFFICES ASSUME NEW s \in 0 .. NewAllocation - 1
                   PROVE  (IF s < NewStreams THEN PortStream(s)
                           ELSE IF NewAllocation = nb_fwd_streams
                                THEN fwd_streams[s] ELSE ZeroStream)
                            \in StreamRecord
        OBVIOUS
      <4>1. s < NewStreams => PortStream(s) \in StreamRecord
        BY <2>2, NewLimits, PortStreamType
      <4>2. NewAllocation = nb_fwd_streams => fwd_streams[s] \in StreamRecord
        BY <1>1 DEF ConfigOK
      <4>3. ZeroStream \in StreamRecord
        BY DEF ZeroStream, StreamRecord
      <4> QED
        BY <4>1, <4>2, <4>3
    <3> QED
      BY <2>1, <3>1 DEF ConfigComputed
  <2>4. fwd_lcores' \in [Lcores -> ShareRecord]
    <3>1. \A lc \in Lcores :
            (IF lc < NewLcores THEN EachLcore(NewStreams, NewLcores)[lc]
             ELSE fwd_lcores[lc]) \in ShareRecord
      <4> SUFFICES ASSUME NEW lc \in Lcores
                   PROVE  /\ lc < NewLcores =>
                               EachLcore(NewStreams, NewLcores)[lc]
                                 \in ShareRecord
                          /\ fwd_lcores[lc] \in ShareRecord
        OBVIOUS
      <4>1. lc < NewLcores => lc \in 0 .. NewLcores - 1
        BY NewLimits, ControlAssumption DEF Lcores
      <4>2. NewLcores \in Nat
        BY NewLimits, ControlAssumption
      <4> QED
        BY <1>1, <4>1, <4>2, NewLimits, SharesOfLcores
           DEF ShareRecord, ConfigOK
    <3> QED
      BY <2>1, <3>1 DEF ConfigComputed
  <2>5. ConfigOK'
    <3>1. /\ cfg_eng' = cur_fwd_eng' /\ cfg_ports' = nb_fwd_ports'
          /\ cfg_lcores' = NewLcores /\ cfg_streams' = NewStreams
          /\ nb_fwd_streams' = NewAllocation
      BY <2>1 DEF ConfigComputed
    <3>2. nb_fwd_ports' \in Nat /\ cur_fwd_eng' \in Engines
      <4>1. Len(fwd_ports_ids') \in Nat
        BY LenProperties DEF InputsOK
      <4> QED
        BY <4>1 DEF InputsOK
    <3> QED
      BY <2>2, <2>3, <2>4, <3>1, <3>2, NewLimits
         DEF ConfigOK, StreamRecord, ShareRecord, Lcores
  <2>6. dangling' \in [Lcores -> BOOLEAN]
    BY <2>1 DEF ConfigComputed
  <2>7. ControlOK'
    BY <1>1, <2>1, <2>6 DEF ControlOK, MainPoints
  <2> QED
    BY <2>5, <2>7, TypePartsPrimed
<1> QED
  BY <1>2, <1>3

LEMMA InitialIdsType ==
  /\ InitialPorts \in Nat
  /\ InitialIds \in Seq(Ports) /\ Len(InitialIds) = InitialPorts
  /\ DOMAIN InitialIds = 1 .. InitialPorts
  /\ \A i \in 1 .. InitialPorts : InitialIds[i] = i - 1
<1>1. /\ InitialPorts \in Nat /\ NbEthPorts \in Nat
      /\ InitialPorts <= NbEthPorts
  BY ControlAssumption
<1>2. InitialIds \in [1 .. InitialPorts -> Ports]
  BY <1>1 DEF InitialIds, Ports
<1>3. InitialIds \in Seq(Ports)
  BY <1>1, <1>2, SeqDef
<1>4. DOMAIN InitialIds = 1 .. InitialPorts
  BY DEF InitialIds
<1>5. Len(InitialIds) = InitialPorts
  BY <1>1, <1>3, <1>4, LenProperties
<1> QED
  BY <1>1, <1>3, <1>4, <1>5 DEF InitialIds

LEMMA InitType == Init => TypeOK
<1> SUFFICES ASSUME Init
             PROVE  TypeOK
  OBVIOUS
<1> USE ControlAssumption
<1>1. InputsOK
  <2>1. NbLcores \in 1 .. NbLcores /\ 1 \in 0 .. NbLcores
    OBVIOUS
  <2>2. port_status \in [Ports -> {"STOPPED", "STARTED", "HANDLING", "CLOSED"}]
    BY DEF Init
  <2> QED
    BY <2>1, <2>2, InitialIdsType DEF Init, InputsOK
<1>2. fwd_streams \in [0 .. nb_fwd_streams - 1 -> StreamRecord]
  <2>1. \A s \in 0 .. InitialPorts - 1 :
          SimpleStreamAt(s, Topology, InitialPorts) \in StreamRecord
    <3> SUFFICES ASSUME NEW s \in 0 .. InitialPorts - 1
                 PROVE  SimpleStreamAt(s, Topology, InitialPorts)
                          \in StreamRecord
      OBVIOUS
    <3>1. TxPortIndex(Topology, s, InitialPorts) \in Nat
      BY TxPortIndexType
    <3> QED
      BY <3>1, StreamType DEF SimpleStreamAt, StreamRecord
  <2> QED
    BY <2>1 DEF Init
<1>3. fwd_lcores \in [Lcores -> ShareRecord]
  BY DEF Init, ShareRecord
<1>4. ConfigOK
  <2>1. Least(1, InitialPorts) \in 0 .. NbLcores
    BY DEF Least
  <2> QED
    BY <1>2, <1>3, <2>1 DEF Init, ConfigOK
<1>5. ControlOK
  BY DEF Init, ControlOK, MainPoints
<1> QED
  BY <1>1, <1>4, <1>5, TypeParts

(* A command on a port touches the ports only.                             *)
LEMMA PortCommandType ==
  ASSUME TypeOK, PortCommand,
         port_status' \in [Ports -> {"STOPPED", "STARTED", "HANDLING",
                                     "CLOSED"}],
         ports_ids' \in Seq(Ports), fwd_ports_ids' \in Seq(Ports),
         nb_fwd_ports' \in 0 .. Len(fwd_ports_ids')
  PROVE  TypeOK'
<1>1. InputsOK /\ ConfigOK /\ ControlOK
  BY TypeParts
<1>2. InputsOK'
  BY <1>1 DEF PortCommand, settings, InputsOK
<1>3. ConfigOK'
  BY <1>1 DEF PortCommand, config, ConfigOK
<1>4. ControlOK'
  BY <1>1 DEF PortCommand, workerVars, ControlOK
<1> QED
  BY <1>2, <1>3, <1>4, TypePartsPrimed

LEMMA RemoveInvalidPortsType ==
  ASSUME TypeOK, NEW p \in Ports, RemoveInvalidPorts(p)
  PROVE  /\ ports_ids' \in Seq(Ports) /\ fwd_ports_ids' \in Seq(Ports)
         /\ nb_fwd_ports' \in 0 .. Len(fwd_ports_ids')
<1>1. /\ ports_ids \in Seq(Ports) /\ fwd_ports_ids \in Seq(Ports)
      /\ nb_fwd_ports \in 0 .. Len(fwd_ports_ids)
  BY TypeParts DEF InputsOK
<1>2. SubSeq(fwd_ports_ids, 1, nb_fwd_ports) \in Seq(Ports)
  BY <1>1, PrefixType
<1>3. ports_ids' \in Seq(Ports) /\ fwd_ports_ids' \in Seq(Ports)
  BY <1>1, <1>2, WithoutType DEF RemoveInvalidPorts
<1>4. nb_fwd_ports' = Len(fwd_ports_ids') /\ Len(fwd_ports_ids') \in Nat
  BY <1>3, LenProperties DEF RemoveInvalidPorts
<1> QED
  BY <1>3, <1>4

LEMMA PortListsType ==
  ASSUME NEW list \in PortLists
  PROVE  /\ list \in Seq(Ports)
         /\ Len(list) \in Nat
         /\ NoRepeat(list) /\ Listed(list) \subseteq Valid
<1>1. PICK n \in 0 .. Cardinality(Valid) : list \in [1 .. n -> Valid]
  BY DEF PortLists
<1>2. Cardinality(Valid) \in Nat
  <2>1. IsFiniteSet(Ports)
    BY ControlAssumption, FS_Interval DEF Ports
  <2>2. Valid \subseteq Ports
    BY DEF Valid
  <2> QED
    BY <2>1, <2>2, FS_Subset, FS_CardinalityType
<1>3. n \in Nat
  BY <1>1, <1>2
<1>4. list \in Seq(Ports)
  <2>1. list \in [1 .. n -> Ports]
    BY <1>1 DEF Valid
  <2> QED
    BY <1>3, <2>1, SeqDef
<1>5. DOMAIN list = 1 .. n
  BY <1>1
<1>6. NoRepeat(list) /\ Listed(list) \subseteq Valid
  BY <1>1, <1>5 DEF PortLists, NoRepeat, Listed
<1> QED
  BY <1>4, <1>6, LenProperties

(* What the actions that configure have in common.                         *)
SetupAction ==
  /\ main = "command"
  /\ \E next \in {"command", "begin", "begin_first"} : SetupForwarding(next)
  /\ UNCHANGED <<stopped, test_done, contexts, workerVars>>

LEMMA SetupActionType ==
  ASSUME TypeOK, SetupAction, InputsOK'
  PROVE  TypeOK'
<1>1. PICK next \in {"command", "begin", "begin_first"} : SetupForwarding(next)
  BY DEF SetupAction
<1> QED
  BY <1>1, SetupType DEF SetupAction, MainPoints

LEMMA ConfigureInputs ==
  ASSUME TypeOK
  PROVE  /\ \A n \in 0 .. NbEthPorts : SetNbPort(n) => SetupAction /\ InputsOK'
         /\ \A n \in NbCoreValues : SetNbCore(n) => SetupAction /\ InputsOK'
         /\ \A n \in 1 .. NbLcores : SetCoreList(n) => SetupAction /\ InputsOK'
         /\ \A list \in PortLists :
              SetPortList(list) => SetupAction /\ InputsOK'
         /\ SetEthPeer => SetupAction /\ InputsOK'
         /\ \A n \in QueueCounts : ConfigQueues(n) => SetupAction /\ InputsOK'
         /\ \A b \in BOOLEAN : Start(b) => SetupAction /\ InputsOK'
<1> USE ControlAssumption
<1>1. InputsOK
  BY TypeParts
<1>2. Len(fwd_ports_ids) \in Nat
  BY <1>1, LenProperties DEF InputsOK
<1>3. ASSUME NEW n \in 0 .. NbEthPorts, SetNbPort(n)
      PROVE  SetupAction /\ InputsOK'
  <2>1. SetupAction
    BY <1>3 DEF SetNbPort, SetupAction
  <2>2. nb_fwd_ports' \in 0 .. Len(fwd_ports_ids)
    BY <1>1, <1>2, <1>3 DEF SetNbPort, InputsOK, nb_cfg_ports
  <2>3. UNCHANGED <<port_status, ports_ids, fwd_ports_ids, settings>>
    BY <1>3 DEF SetNbPort
  <2> QED
    BY <1>1, <2>1, <2>2, <2>3 DEF InputsOK, settings
<1>4. ASSUME NEW n \in NbCoreValues, SetNbCore(n)
      PROVE  SetupAction /\ InputsOK'
  <2>1. SetupAction
    BY <1>4 DEF SetNbCore, SetupAction
  <2>2. nb_fwd_lcores' \in 0 .. nb_cfg_lcores
    BY <1>1, <1>4 DEF SetNbCore, InputsOK
  <2>3. UNCHANGED <<portVars, nb_cfg_lcores, nb_rxq, nb_txq, cur_fwd_eng>>
    BY <1>4 DEF SetNbCore
  <2> QED
    BY <1>1, <2>1, <2>2, <2>3 DEF InputsOK, portVars
<1>5. ASSUME NEW n \in 1 .. NbLcores, SetCoreList(n)
      PROVE  SetupAction /\ InputsOK'
  <2>1. SetupAction
    BY <1>5 DEF SetCoreList, SetupAction
  <2>2. /\ nb_cfg_lcores' = n /\ nb_fwd_lcores' = n
        /\ UNCHANGED <<portVars, nb_rxq, nb_txq, cur_fwd_eng>>
    BY <1>5 DEF SetCoreList
  <2> QED
    BY <1>1, <2>1, <2>2 DEF InputsOK, portVars
<1>6. ASSUME NEW list \in PortLists, SetPortList(list)
      PROVE  SetupAction /\ InputsOK'
  <2>1. SetupAction
    BY <1>6 DEF SetPortList, SetupAction
  <2>2. /\ fwd_ports_ids' = list /\ nb_fwd_ports' = Len(list)
        /\ UNCHANGED <<port_status, ports_ids, settings>>
    BY <1>6 DEF SetPortList
  <2>3. list \in Seq(Ports) /\ Len(list) \in Nat
    BY PortListsType
  <2> QED
    BY <1>1, <2>1, <2>2, <2>3 DEF InputsOK, settings
<1>7. ASSUME SetEthPeer
      PROVE  SetupAction /\ InputsOK'
  <2>1. SetupAction
    BY <1>7 DEF SetEthPeer, SetupAction
  <2>2. UNCHANGED <<portVars, settings>>
    BY <1>7 DEF SetEthPeer
  <2> QED
    BY <1>1, <2>1, <2>2 DEF InputsOK, portVars, settings
<1>8. ASSUME NEW n \in QueueCounts, ConfigQueues(n)
      PROVE  SetupAction /\ InputsOK'
  <2>1. SetupAction
    BY <1>8 DEF ConfigQueues, SetupAction
  <2>2. /\ nb_rxq' \in Nat /\ nb_txq' \in Nat
        /\ UNCHANGED <<portVars, nb_cfg_lcores, nb_fwd_lcores, cur_fwd_eng>>
    BY <1>1, <1>8 DEF ConfigQueues, InputsOK
  <2> QED
    BY <1>1, <2>1, <2>2 DEF InputsOK, portVars
<1>9. ASSUME NEW b \in BOOLEAN, Start(b)
      PROVE  SetupAction /\ InputsOK'
  <2>1. SetupAction
    BY <1>9 DEF Start, SetupAction
  <2>2. UNCHANGED <<portVars, settings>>
    BY <1>9 DEF Start
  <2> QED
    BY <1>1, <2>1, <2>2 DEF InputsOK, portVars, settings
<1> QED
  BY <1>3, <1>4, <1>5, <1>6, <1>7, <1>8, <1>9

LEMMA PortStepType ==
  ASSUME TypeOK, PortStep
  PROVE  TypeOK'
<1>1. PICK p \in Ports : \/ StartPort(p) \/ StopPort(p) \/ ClosePort(p)
                        \/ CloseRefused(p) \/ DetachPort(p) \/ AttachPort(p)
  BY DEF PortStep
<1>2. /\ port_status \in [Ports -> {"STOPPED", "STARTED", "HANDLING", "CLOSED"}]
      /\ ports_ids \in Seq(Ports) /\ fwd_ports_ids \in Seq(Ports)
      /\ nb_fwd_ports \in 0 .. Len(fwd_ports_ids)
  BY TypeParts DEF InputsOK
<1>3. CASE StartPort(p)
  BY <1>2, <1>3, PortCommandType DEF StartPort
<1>4. CASE StopPort(p)
  BY <1>2, <1>4, PortCommandType DEF StopPort
<1>5. CASE ClosePort(p)
  BY <1>2, <1>5, PortCommandType, RemoveInvalidPortsType DEF ClosePort
<1>6. CASE DetachPort(p)
  BY <1>2, <1>6, PortCommandType, RemoveInvalidPortsType DEF DetachPort
<1>7. CASE AttachPort(p)
  <2> DEFINE front == SubSeq(fwd_ports_ids, 1, nb_fwd_ports)
  <2>1. front \in Seq(Ports) /\ Len(front) = nb_fwd_ports
    BY <1>2, PrefixType
  <2>2. /\ ports_ids' = Append(ports_ids, p)
        /\ fwd_ports_ids' = Append(front, p)
        /\ nb_fwd_ports' = nb_fwd_ports + 1
        /\ PortCommand
        /\ port_status' = [port_status EXCEPT ![p] = "STOPPED"]
    BY <1>7 DEF AttachPort
  <2> HIDE DEF front
  <2>3. /\ ports_ids' \in Seq(Ports) /\ fwd_ports_ids' \in Seq(Ports)
        /\ Len(fwd_ports_ids') = nb_fwd_ports + 1
    BY <1>2, <2>1, <2>2, AppendListed
  <2>4. nb_fwd_ports \in Nat
    BY <1>2, LenProperties
  <2>5. nb_fwd_ports' \in 0 .. Len(fwd_ports_ids')
    BY <2>2, <2>3, <2>4
  <2>6. port_status' \in [Ports -> {"STOPPED", "STARTED", "HANDLING", "CLOSED"}]
    BY <1>2, <2>2
  <2> QED
    BY <2>2, <2>3, <2>5, <2>6, PortCommandType
<1>8. CASE CloseRefused(p)
  <2> DEFINE front == SubSeq(fwd_ports_ids, 1, nb_fwd_ports)
  <2>1. front \in Seq(Ports) /\ Len(front) = nb_fwd_ports
    BY <1>2, PrefixType
  <2>2. /\ fwd_ports_ids' = front
        /\ UNCHANGED <<port_status, ports_ids, nb_fwd_ports>>
        /\ PortCommand
    BY <1>8 DEF CloseRefused
  <2> HIDE DEF front
  <2>3. nb_fwd_ports \in Nat
    BY <1>2, LenProperties
  <2>4. nb_fwd_ports' \in 0 .. Len(fwd_ports_ids')
    BY <2>1, <2>2, <2>3
  <2> QED
    BY <1>2, <2>1, <2>2, <2>4, PortCommandType
<1> QED
  BY <1>1, <1>3, <1>4, <1>5, <1>6, <1>7, <1>8

LEMMA NextType ==
  ASSUME TypeOK, [Next]_vars
  PROVE  TypeOK'
<1>1. InputsOK /\ ConfigOK /\ ControlOK
  BY TypeParts
<1>2. ASSUME UNCHANGED <<portVars, settings, config>>, ControlOK'
      PROVE  TypeOK'
  <2>1. InputsOK'
    BY <1>1, <1>2 DEF InputsOK, portVars, settings
  <2>2. ConfigOK'
    BY <1>1, <1>2 DEF ConfigOK, config
  <2> QED
    BY <1>2, <2>1, <2>2, TypePartsPrimed
<1> USE DEF ControlOK, MainPoints, workerVars
<1>3. CASE Configure
  <2>1. CASE \E e \in Engines : SetFwdMode(e)
    <3>1. PICK e \in Engines : SetFwdMode(e)
      BY <2>1
    <3>2. InputsOK'
      BY <1>1, <3>1 DEF SetFwdMode, InputsOK, portVars
    <3>3. ConfigOK'
      BY <1>1, <3>1 DEF SetFwdMode, ConfigOK, config
    <3>4. ControlOK'
      BY <1>1, <3>1 DEF SetFwdMode
    <3> QED
      BY <3>2, <3>3, <3>4, TypePartsPrimed
  <2>2. CASE ~\E e \in Engines : SetFwdMode(e)
    BY <1>3, <2>2, ConfigureInputs, SetupActionType DEF Configure
  <2> QED
    BY <2>1, <2>2
<1>4. CASE PortStep
  BY <1>4, PortStepType
<1>5. CASE StartExits
  BY <1>1, <1>2, <1>5 DEF StartExits
<1>6. CASE \E with_tx_first \in BOOLEAN : Start(with_tx_first)
  BY <1>6, ConfigureInputs, SetupActionType
<1>7. CASE Stop
  BY <1>1, <1>2, <1>7 DEF Stop
<1>8. CASE BeginEngines
  <2>1. CfgContexts \subseteq PairedEngines \X Ports
    <3>1. /\ cfg_ports \in Nat /\ Len(fwd_ports_ids) \in Nat
          /\ \A i \in 1 .. Len(fwd_ports_ids) : fwd_ports_ids[i] \in Ports
      BY <1>1, LenProperties, ElementOfSeq DEF InputsOK, ConfigOK
    <3>2. CfgPorts \subseteq Ports
      BY <3>1 DEF CfgPorts, Least, nb_cfg_ports
    <3> QED
      BY <3>2 DEF CfgContexts
  <2>2. /\ contexts' = contexts \cup CfgContexts
        /\ main' \in {"command", "first", "launch"}
        /\ test_done' \in BOOLEAN
        /\ UNCHANGED <<portVars, settings, config, stopped, workerVars,
                       dangling>>
    BY <1>1, <1>8 DEF BeginEngines
  <2> QED
    BY <1>1, <1>2, <2>1, <2>2
<1>9. CASE BeginExits
  BY <1>1, <1>2, <1>9 DEF BeginExits
<1>10. CASE LaunchBurst \/ Launch
  BY <1>1, <1>2, <1>10 DEF LaunchBurst, Launch, LaunchOn
<1>11. CASE BurstDone
  BY <1>1, <1>2, <1>11 DEF BurstDone
<1>12. CASE StopDone
  BY <1>1, <1>2, <1>12 DEF StopDone
<1>13. ASSUME NEW lc \in Lcores, WorkerBegin(lc)
       PROVE  TypeOK'
  <2>1. fwd_lcores[lc] \in ShareRecord /\ cfg_eng \in Engines
    BY <1>1 DEF ConfigOK
  <2>2. [stream_idx |-> fwd_lcores[lc].stream_idx,
         stream_nb  |-> fwd_lcores[lc].stream_nb,
         eng        |-> IF main = "first_wait" THEN "txonly" ELSE cfg_eng]
          \in [stream_idx : Nat, stream_nb : Nat,
              eng : Engines \cup {"txonly", NoEngine}]
    BY <2>1 DEF ShareRecord
  <2> QED
    BY <1>1, <1>2, <1>13, <2>2 DEF WorkerBegin
<1>14. ASSUME NEW lc \in Lcores, WorkerLeave(lc)
       PROVE  TypeOK'
  BY <1>1, <1>2, <1>14 DEF WorkerLeave
<1>15. CASE UNCHANGED vars
  BY <1>1, <1>2, <1>15 DEF vars
<1> QED
  BY <1>3, <1>4, <1>5, <1>6, <1>7, <1>8, <1>9, <1>10, <1>11, <1>12, <1>13,
     <1>14, <1>15 DEF Next, MainStep

(* The variables of the forwarding control keep their types, whatever the  *)
(* operator does.                                                          *)
THEOREM TypeCorrect == Spec => []TypeOK
  BY InitType, NextType, PTL DEF Spec

-----------------------------------------------------------------------------
(* The lists of ports.                                                     *)

LEMMA InitPortLists == Init => PortListsConsistent
<1> SUFFICES ASSUME Init
             PROVE  PortListsConsistent
  OBVIOUS
<1>1. /\ ports_ids = InitialIds /\ fwd_ports_ids = InitialIds
      /\ \A p \in Ports : port_status[p] # "CLOSED" <=> p < InitialPorts
  BY DEF Init
<1>2. NoRepeat(InitialIds)
  BY InitialIdsType DEF NoRepeat
<1>3. Listed(InitialIds) = Valid
  <2>1. Valid = 0 .. InitialPorts - 1
    BY <1>1, ControlAssumption DEF Valid, Ports
  <2>2. Listed(InitialIds) = {i - 1 : i \in 1 .. InitialPorts}
    BY InitialIdsType DEF Listed
  <2>3. \A q \in 0 .. InitialPorts - 1 :
          q + 1 \in 1 .. InitialPorts /\ q = (q + 1) - 1
    BY InitialIdsType
  <2>4. \A i \in 1 .. InitialPorts : i - 1 \in 0 .. InitialPorts - 1
    BY InitialIdsType
  <2> QED
    BY <2>1, <2>2, <2>3, <2>4
<1> QED
  BY <1>1, <1>2, <1>3 DEF PortListsConsistent

(* Closing or detaching a port takes it out of every list.                 *)
LEMMA RemovePortLists ==
  ASSUME TypeOK, PortListsConsistent, NEW p \in Ports,
         port_status' = [port_status EXCEPT ![p] = "CLOSED"],
         RemoveInvalidPorts(p)
  PROVE  /\ PortListsConsistent'
         /\ FwdPorts' = FwdPorts \ {p}
<1> DEFINE front == SubSeq(fwd_ports_ids, 1, nb_fwd_ports)
<1>1. /\ ports_ids \in Seq(Ports) /\ fwd_ports_ids \in Seq(Ports)
      /\ nb_fwd_ports \in 0 .. Len(fwd_ports_ids)
      /\ port_status \in [Ports -> {"STOPPED", "STARTED", "HANDLING", "CLOSED"}]
  BY TypeParts DEF InputsOK
<1>2. /\ NoRepeat(ports_ids) /\ Listed(ports_ids) = Valid
      /\ NoRepeat(fwd_ports_ids) /\ Listed(fwd_ports_ids) \subseteq Valid
  BY DEF PortListsConsistent
<1>3. Valid' = Valid \ {p}
  BY <1>1 DEF Valid
<1>4. /\ front \in Seq(Ports) /\ NoRepeat(front)
      /\ Listed(front) = FwdPorts /\ FwdPorts \subseteq Listed(fwd_ports_ids)
  <2>1. Len(fwd_ports_ids) \in Nat /\ DOMAIN fwd_ports_ids = 1 .. Len(fwd_ports_ids)
    BY <1>1, LenProperties
  <2>2. FwdPorts \subseteq Listed(fwd_ports_ids)
    BY <1>1, <2>1 DEF FwdPorts, Listed
  <2> QED
    BY <1>1, <1>2, <2>2, PrefixType, PrefixListed DEF FwdPorts
<1>5. /\ ports_ids' = Without(ports_ids, p)
      /\ fwd_ports_ids' = Without(front, p)
      /\ nb_fwd_ports' = Len(fwd_ports_ids')
  BY DEF RemoveInvalidPorts
<1> HIDE DEF front
<1>6. NoRepeat(ports_ids') /\ Listed(ports_ids') = Valid'
  BY <1>1, <1>2, <1>3, <1>5, WithoutRemoves
<1>7. NoRepeat(fwd_ports_ids') /\ Listed(fwd_ports_ids') = FwdPorts \ {p}
  BY <1>4, <1>5, WithoutRemoves
<1>8. FwdPorts' = Listed(fwd_ports_ids')
  <2>1. fwd_ports_ids' \in Seq(Ports)
    BY <1>4, <1>5, WithoutType
  <2>2. DOMAIN fwd_ports_ids' = 1 .. Len(fwd_ports_ids')
    BY <2>1, LenProperties
  <2> QED
    BY <1>5, <2>2 DEF FwdPorts, Listed
<1>9. PortListsConsistent'
  BY <1>2, <1>3, <1>4, <1>6, <1>7 DEF PortListsConsistent
<1> QED
  BY <1>7, <1>8, <1>9

LEMMA AttachPortLists ==
  ASSUME TypeOK, PortListsConsistent, NEW p \in Ports, AttachPort(p)
  PROVE  /\ PortListsConsistent'
         /\ FwdPorts' = FwdPorts \cup {p}
<1> DEFINE front == SubSeq(fwd_ports_ids, 1, nb_fwd_ports)
<1>1. /\ ports_ids \in Seq(Ports) /\ fwd_ports_ids \in Seq(Ports)
      /\ nb_fwd_ports \in 0 .. Len(fwd_ports_ids)
      /\ port_status \in [Ports -> {"STOPPED", "STARTED", "HANDLING", "CLOSED"}]
  BY TypeParts DEF InputsOK
<1>2. /\ NoRepeat(ports_ids) /\ Listed(ports_ids) = Valid
      /\ NoRepeat(fwd_ports_ids) /\ Listed(fwd_ports_ids) \subseteq Valid
  BY DEF PortListsConsistent
<1>3. /\ port_status[p] = "CLOSED"
      /\ port_status' = [port_status EXCEPT ![p] = "STOPPED"]
      /\ ports_ids' = Append(ports_ids, p)
      /\ fwd_ports_ids' = Append(front, p)
      /\ nb_fwd_ports' = nb_fwd_ports + 1
  BY DEF AttachPort
<1>4. /\ front \in Seq(Ports) /\ NoRepeat(front) /\ Len(front) = nb_fwd_ports
      /\ Listed(front) = FwdPorts /\ FwdPorts \subseteq Listed(fwd_ports_ids)
  <2>1. Len(fwd_ports_ids) \in Nat /\ DOMAIN fwd_ports_ids = 1 .. Len(fwd_ports_ids)
    BY <1>1, LenProperties
  <2>2. FwdPorts \subseteq Listed(fwd_ports_ids)
    BY <1>1, <2>1 DEF FwdPorts, Listed
  <2> QED
    BY <1>1, <1>2, <2>2, PrefixType, PrefixListed DEF FwdPorts
<1> HIDE DEF front
<1>5. Valid' = Valid \cup {p} /\ p \notin Valid
  BY <1>1, <1>3 DEF Valid
<1>6. NoRepeat(ports_ids') /\ Listed(ports_ids') = Valid'
  BY <1>1, <1>2, <1>3, <1>5, AppendListed
<1>7. /\ NoRepeat(fwd_ports_ids')
      /\ Listed(fwd_ports_ids') = FwdPorts \cup {p}
      /\ fwd_ports_ids' \in Seq(Ports)
      /\ Len(fwd_ports_ids') = nb_fwd_ports + 1
  BY <1>2, <1>3, <1>4, <1>5, AppendListed
<1>8. FwdPorts' = Listed(fwd_ports_ids')
  <2>1. DOMAIN fwd_ports_ids' = 1 .. Len(fwd_ports_ids')
    BY <1>7, LenProperties
  <2> QED
    BY <1>3, <1>7, <2>1 DEF FwdPorts, Listed
<1>9. PortListsConsistent'
  BY <1>2, <1>4, <1>5, <1>6, <1>7 DEF PortListsConsistent
<1> QED
  BY <1>7, <1>8, <1>9

(* A close that closes nothing keeps the ports that forward.               *)
LEMMA RefusedPortLists ==
  ASSUME TypeOK, PortListsConsistent, NEW p \in Ports, CloseRefused(p)
  PROVE  /\ PortListsConsistent'
         /\ FwdPorts' = FwdPorts
<1> DEFINE front == SubSeq(fwd_ports_ids, 1, nb_fwd_ports)
<1>1. fwd_ports_ids \in Seq(Ports) /\ nb_fwd_ports \in 0 .. Len(fwd_ports_ids)
  BY TypeParts DEF InputsOK
<1>2. /\ NoRepeat(ports_ids) /\ Listed(ports_ids) = Valid
      /\ NoRepeat(fwd_ports_ids) /\ Listed(fwd_ports_ids) \subseteq Valid
  BY DEF PortListsConsistent
<1>3. /\ fwd_ports_ids' = front
      /\ UNCHANGED <<port_status, ports_ids, nb_fwd_ports>>
  BY DEF CloseRefused
<1>4. /\ NoRepeat(front)
      /\ Listed(front) = FwdPorts /\ FwdPorts \subseteq Listed(fwd_ports_ids)
      /\ \A i \in 1 .. nb_fwd_ports : front[i] = fwd_ports_ids[i]
  <2>1. Len(fwd_ports_ids) \in Nat /\ DOMAIN fwd_ports_ids = 1 .. Len(fwd_ports_ids)
    BY <1>1, LenProperties
  <2>2. FwdPorts \subseteq Listed(fwd_ports_ids)
    BY <1>1, <2>1 DEF FwdPorts, Listed
  <2> QED
    BY <1>1, <1>2, <2>2, PrefixType, PrefixListed DEF FwdPorts
<1> HIDE DEF front
<1>5. Valid' = Valid
  BY <1>3 DEF Valid
<1>6. FwdPorts' = FwdPorts
  BY <1>3, <1>4 DEF FwdPorts
<1>7. PortListsConsistent'
  BY <1>2, <1>3, <1>4, <1>5 DEF PortListsConsistent
<1> QED
  BY <1>6, <1>7

LEMMA NextPortLists ==
  ASSUME TypeOK, PortListsConsistent, [Next]_vars
  PROVE  PortListsConsistent'
<1>1. ASSUME UNCHANGED <<ports_ids, fwd_ports_ids>>, Valid' = Valid
      PROVE  PortListsConsistent'
  BY <1>1 DEF PortListsConsistent
<1>2. ASSUME UNCHANGED portVars
      PROVE  PortListsConsistent'
  BY <1>1, <1>2 DEF portVars, Valid
<1>3. CASE Configure
  <2>1. ASSUME NEW list \in PortLists, SetPortList(list)
        PROVE  PortListsConsistent'
    <3>1. /\ fwd_ports_ids' = list
          /\ UNCHANGED <<port_status, ports_ids>>
      BY <2>1 DEF SetPortList
    <3>2. NoRepeat(list) /\ Listed(list) \subseteq Valid
      BY PortListsType
    <3>3. Valid' = Valid
      BY <3>1 DEF Valid
    <3> QED
      BY <3>1, <3>2, <3>3 DEF PortListsConsistent
  <2>2. ASSUME NEW n \in 0 .. NbEthPorts, SetNbPort(n)
        PROVE  PortListsConsistent'
    BY <1>1, <2>2 DEF SetNbPort, Valid
  <2>3. ASSUME NEW n, SetNbCore(n) \/ SetCoreList(n) \/ ConfigQueues(n)
        PROVE  PortListsConsistent'
    <3>1. UNCHANGED portVars
      BY <2>3 DEF SetNbCore, SetCoreList, ConfigQueues
    <3> QED
      BY <1>2, <3>1
  <2>4. CASE SetEthPeer
    BY <1>2, <2>4 DEF SetEthPeer
  <2>5. ASSUME NEW e \in Engines, SetFwdMode(e)
        PROVE  PortListsConsistent'
    BY <1>2, <2>5 DEF SetFwdMode
  <2> QED
    BY <1>3, <2>1, <2>2, <2>3, <2>4, <2>5 DEF Configure
<1>4. CASE PortStep
  <2>1. PICK p \in Ports : \/ StartPort(p) \/ StopPort(p) \/ ClosePort(p)
                          \/ CloseRefused(p) \/ DetachPort(p)
                          \/ AttachPort(p)
    BY <1>4 DEF PortStep
  <2>2. CASE StartPort(p) \/ StopPort(p)
    <3>1. /\ UNCHANGED <<ports_ids, fwd_ports_ids>>
          /\ port_status[p] # "CLOSED"
          /\ \E result \in {"STARTED", "STOPPED", "HANDLING"} :
               port_status' = [port_status EXCEPT ![p] = result]
      BY <2>2 DEF StartPort, StopPort
    <3>2. Valid' = Valid
      <4>1. port_status \in [Ports -> {"STOPPED", "STARTED", "HANDLING",
                                      "CLOSED"}]
        BY TypeParts DEF InputsOK
      <4> QED
        BY <3>1, <4>1 DEF Valid
    <3> QED
      BY <1>1, <3>1, <3>2
  <2>3. CASE ClosePort(p) \/ DetachPort(p)
    BY <2>3, RemovePortLists DEF ClosePort, DetachPort
  <2>4. CASE AttachPort(p)
    BY <2>4, AttachPortLists
  <2>5. CASE CloseRefused(p)
    BY <2>5, RefusedPortLists
  <2> QED
    BY <2>1, <2>2, <2>3, <2>4, <2>5
<1>5. CASE \/ StartExits \/ Stop \/ MainStep
           \/ \E lc \in Lcores : WorkerBegin(lc) \/ WorkerLeave(lc)
  BY <1>2, <1>5 DEF StartExits, Stop, MainStep, BeginEngines, BeginExits,
     LaunchBurst, BurstDone, Launch, LaunchOn, StopDone, WorkerBegin,
     WorkerLeave
<1>6. CASE \E with_tx_first \in BOOLEAN : Start(with_tx_first)
  BY <1>2, <1>6 DEF Start
<1>7. CASE UNCHANGED vars
  BY <1>2, <1>7 DEF vars
<1> QED
  BY <1>3, <1>4, <1>5, <1>6, <1>7 DEF Next

(* Whatever is attached, closed, detached and configured, in any order and *)
(* while forwarding runs too, ports_ids lists the valid ports and          *)
(* fwd_ports_ids some of them, each once.                                  *)
THEOREM PortListsCorrect == Spec => []PortListsConsistent
<1>1. TypeOK /\ PortListsConsistent /\ [Next]_vars
        => TypeOK' /\ PortListsConsistent'
  BY NextType, NextPortLists
<1> QED
  BY <1>1, InitType, InitPortLists, PTL DEF Spec

-----------------------------------------------------------------------------
(***************************************************************************)
(* The safety of the cores that forward, for every number of ports, cores  *)
(* and queues, when the operator gives no "set nbport" and "set nbcore"    *)
(* during a test: the code does not look at test_done there.               *)
(***************************************************************************)

(* The inductive invariant.                                                *)

(* The cores are at rest while the main thread prepares their launch, and  *)
(* whenever forwarding is done.                                            *)
MainInv ==
  /\ main \in {"begin", "begin_first", "launch", "first"} => AllLcoresWait
  /\ main = "command" /\ test_done => AllLcoresWait
  /\ main \in {"begin", "begin_first"} => test_done
  /\ main \in {"launch", "first", "first_wait"} => ~test_done

(* A core that was launched is one of the configuration, and one that runs *)
(* works on the share the configuration gives it.                          *)
CoreInv ==
  \A lc \in Lcores :
    /\ ~dangling[lc]
    /\ wstate[lc] # "WAIT" => lc < cfg_lcores
    /\ wstate[lc] = "RUNNING" =>
         /\ captured[lc].stream_idx = fwd_lcores[lc].stream_idx
         /\ captured[lc].stream_nb = fwd_lcores[lc].stream_nb

CfgStreams == 0 .. cfg_streams - 1

(* The cores partition allocated streams, which share no queue.            *)
SharesInv ==
  /\ cfg_streams <= nb_fwd_streams
  /\ \A lc \in Lcores : lc < cfg_lcores =>
       Owned(fwd_lcores[lc]) # {} /\ Owned(fwd_lcores[lc]) \subseteq CfgStreams
  /\ \A lc1, lc2 \in Lcores : lc1 # lc2 /\ lc1 < cfg_lcores /\ lc2 < cfg_lcores
       => Owned(fwd_lcores[lc1]) \cap Owned(fwd_lcores[lc2]) = {}

StreamsInv ==
  \A s, t \in CfgStreams : s # t => RxOf(s) # RxOf(t) /\ TxOf(s) # TxOf(t)

(* From the start to the last core's return, the ports of the streams are  *)
(* started, and port_is_forwarding is true of them.                        *)
ConfigInUse ==
  \/ main \in {"begin", "begin_first", "launch", "first", "first_wait"}
  \/ ~AllLcoresWait

StreamPorts(s) == {fwd_streams[s].rx_port, fwd_streams[s].tx_port}

PortsInv ==
  ConfigInUse =>
    \A s \in CfgStreams : \A p \in StreamPorts(s) :
      p \in FwdPorts /\ port_status[p] = "STARTED"

CoresInv == MainInv /\ CoreInv /\ SharesInv /\ StreamsInv /\ PortsInv

-----------------------------------------------------------------------------
(* What fwd_config_setup establishes.                                      *)

LEMMA SetupShares ==
  ASSUME InputsOK', nb_fwd_streams \in Nat, ~SetupUndefined, ConfigComputed
  PROVE  SharesInv'
<1>1. /\ NewStreams \in Nat /\ NewLcores \in 0 .. NbLcores
      /\ NewLcores <= NewStreams /\ NbLcores \in Nat
      /\ NewAllocation \in Nat
  BY NewLimits, NewAllocationType, ControlAssumption
<1>2. /\ cfg_streams' = NewStreams /\ cfg_lcores' = NewLcores
      /\ nb_fwd_streams' = NewAllocation
      /\ \A lc \in Lcores : lc < NewLcores =>
           fwd_lcores'[lc] = EachLcore(NewStreams, NewLcores)[lc]
  BY DEF ConfigComputed
<1>3. NewStreams <= NewAllocation
  BY <1>1 DEF SetupUndefined
<1>4. NewLcores \in Nat
      /\ \A lc \in Lcores : lc < NewLcores => lc \in 0 .. NewLcores - 1
  BY <1>1 DEF Lcores
<1>5. \A lc \in Lcores : lc < NewLcores =>
        /\ Owned(fwd_lcores'[lc]) # {}
        /\ Owned(fwd_lcores'[lc]) \subseteq 0 .. NewStreams - 1
  BY <1>1, <1>2, <1>4, ShareNotEmpty, SharesOfLcores
<1>6. \A lc1, lc2 \in Lcores :
        lc1 # lc2 /\ lc1 < NewLcores /\ lc2 < NewLcores =>
          Owned(fwd_lcores'[lc1]) \cap Owned(fwd_lcores'[lc2]) = {}
  BY <1>1, <1>2, <1>4, OwnedDisjoint
<1> QED
  BY <1>2, <1>3, <1>5, <1>6 DEF SharesInv, CfgStreams

(* Two indices of forwarding ports that differ are two ports.              *)
LEMMA ForwardingPortAt ==
  ASSUME InputsOK', NoRepeat(fwd_ports_ids')
  PROVE  /\ \A i \in 0 .. nb_fwd_ports' - 1 : fwd_ports_ids'[i + 1] \in FwdPorts'
         /\ \A i, j \in 0 .. nb_fwd_ports' - 1 :
              i # j => fwd_ports_ids'[i + 1] # fwd_ports_ids'[j + 1]
<1>1. /\ fwd_ports_ids' \in Seq(Ports) /\ Len(fwd_ports_ids') \in Nat
      /\ nb_fwd_ports' \in 0 .. Len(fwd_ports_ids')
      /\ DOMAIN fwd_ports_ids' = 1 .. Len(fwd_ports_ids')
  BY LenProperties DEF InputsOK
<1>2. \A i \in 0 .. nb_fwd_ports' - 1 :
        i + 1 \in 1 .. nb_fwd_ports' /\ i + 1 \in 1 .. Len(fwd_ports_ids')
  <2>1. nb_fwd_ports' \in Nat /\ nb_fwd_ports' \in 0 .. nb_fwd_ports'
    BY <1>1
  <2> QED
    BY <1>1, <2>1, IndexShift
<1>3. \A i, j \in 0 .. nb_fwd_ports' - 1 : i # j => i + 1 # j + 1
  BY <1>1
<1> QED
  BY <1>1, <1>2, <1>3 DEF FwdPorts, NoRepeat

(* A stream of the new configuration, as it is in the array.               *)
LEMMA SetupStream ==
  ASSUME InputsOK', nb_fwd_streams \in Nat, ~SetupUndefined, ConfigComputed,
         NEW s \in 0 .. NewStreams - 1
  PROVE  fwd_streams'[s] = PortStream(s)
<1>1. NewStreams \in Nat /\ NewAllocation \in Nat
  BY NewLimits, NewAllocationType
<1>2. NewStreams <= NewAllocation
  BY <1>1 DEF SetupUndefined
<1>3. s \in 0 .. NewAllocation - 1 /\ s < NewStreams
  BY <1>1, <1>2
<1> QED
  BY <1>3 DEF ConfigComputed

LEMMA SetupStreams ==
  ASSUME InputsOK', nb_fwd_streams \in Nat, NoRepeat(fwd_ports_ids'),
         ~SetupUndefined, ConfigComputed
  PROVE  /\ StreamsInv'
         /\ \A s \in CfgStreams' : StreamPorts(s)' \subseteq FwdPorts'
<1> DEFINE st(s) == StreamAt(NewKind, s, Topology, nb_fwd_ports', nb_rxq',
                             nb_txq', 1, 0)
           port(i) == fwd_ports_ids'[i + 1]
           Indices == 0 .. nb_fwd_ports' - 1
           Streams == 0 .. NewStreams - 1
<1>1. CfgStreams' = Streams
  BY DEF ConfigComputed, CfgStreams
<1>2. \A s \in Streams :
        /\ st(s).rx_port \in Indices /\ st(s).tx_port \in Indices
        /\ fwd_streams'[s].rx_port = port(st(s).rx_port)
        /\ fwd_streams'[s].rx_queue = st(s).rx_queue
        /\ fwd_streams'[s].tx_port = port(st(s).tx_port)
        /\ fwd_streams'[s].tx_queue = st(s).tx_queue
  <2> SUFFICES ASSUME NEW s \in Streams
               PROVE  /\ st(s).rx_port \in Indices
                      /\ st(s).tx_port \in Indices
                      /\ fwd_streams'[s].rx_port = port(st(s).rx_port)
                      /\ fwd_streams'[s].rx_queue = st(s).rx_queue
                      /\ fwd_streams'[s].tx_port = port(st(s).tx_port)
                      /\ fwd_streams'[s].tx_queue = st(s).tx_queue
    OBVIOUS
  <2>1. /\ st(s) \in [rx_port : Indices, rx_queue : Nat,
                      tx_port : Indices, tx_queue : Nat]
        /\ PortStream(s) = [rx_port  |-> port(st(s).rx_port),
                            rx_queue |-> st(s).rx_queue,
                            tx_port  |-> port(st(s).tx_port),
                            tx_queue |-> st(s).tx_queue]
    BY PortStreamValue
  <2>2. fwd_streams'[s] = PortStream(s)
    BY SetupStream
  <2> HIDE DEF st, port, Indices
  <2> QED
    BY <2>1, <2>2
<1>3. \A s, t \in Streams : s # t =>
        /\ st(s).rx_port # st(t).rx_port \/ st(s).rx_queue # st(t).rx_queue
        /\ st(s).tx_port # st(t).tx_port \/ st(s).tx_queue # st(t).tx_queue
  <2>1. /\ nb_rxq' \in Nat /\ nb_txq' \in Nat /\ nb_fwd_ports' \in Nat
        /\ NewKind \in Kinds /\ Topology \in Topologies
    <3>1. Len(fwd_ports_ids') \in Nat
      BY LenProperties DEF InputsOK
    <3> QED
      BY <3>1, NewLimits, ControlAssumption DEF InputsOK
  <2>2. NewStreams = NbStreams(NewKind, nb_fwd_ports', nb_rxq', nb_txq')
    BY DEF NewStreams
  <2> QED
    BY <2>1, <2>2, StreamAtExclusive
<1>4. /\ \A i \in Indices : port(i) \in FwdPorts'
      /\ \A i, j \in Indices : i # j => port(i) # port(j)
  BY ForwardingPortAt
<1> HIDE DEF st, port, Indices, Streams
<1>5. ASSUME NEW s \in CfgStreams', NEW t \in CfgStreams', s # t
      PROVE  RxOf(s)' # RxOf(t)' /\ TxOf(s)' # TxOf(t)'
  <2>1. /\ RxOf(s)' = <<fwd_streams'[s].rx_port, fwd_streams'[s].rx_queue>>
        /\ TxOf(s)' = <<fwd_streams'[s].tx_port, fwd_streams'[s].tx_queue>>
        /\ RxOf(t)' = <<fwd_streams'[t].rx_port, fwd_streams'[t].rx_queue>>
        /\ TxOf(t)' = <<fwd_streams'[t].tx_port, fwd_streams'[t].tx_queue>>
    BY DEF RxOf, TxOf
  <2>2. /\ RxOf(s)' = <<port(st(s).rx_port), st(s).rx_queue>>
        /\ TxOf(s)' = <<port(st(s).tx_port), st(s).tx_queue>>
        /\ RxOf(t)' = <<port(st(t).rx_port), st(t).rx_queue>>
        /\ TxOf(t)' = <<port(st(t).tx_port), st(t).tx_queue>>
    BY <1>1, <1>2, <2>1
  <2>3. /\ port(st(s).rx_port) # port(st(t).rx_port)
           \/ st(s).rx_queue # st(t).rx_queue
        /\ port(st(s).tx_port) # port(st(t).tx_port)
           \/ st(s).tx_queue # st(t).tx_queue
    BY <1>1, <1>2, <1>3, <1>4, <1>5
  <2> QED
    BY <2>2, <2>3
<1>6. StreamsInv'
  BY <1>5 DEF StreamsInv
<1>7. \A s \in CfgStreams' : StreamPorts(s)' \subseteq FwdPorts'
  <2> SUFFICES ASSUME NEW s \in Streams
               PROVE  StreamPorts(s)' \subseteq FwdPorts'
    BY <1>1
  <2>1. StreamPorts(s)' = {fwd_streams'[s].rx_port, fwd_streams'[s].tx_port}
    BY DEF StreamPorts
  <2> QED
    BY <1>2, <1>4, <2>1
<1> QED
  BY <1>6, <1>7

-----------------------------------------------------------------------------
(* The steps.                                                              *)

LEMMA InitCores == Init => CoresInv
<1> SUFFICES ASSUME Init
             PROVE  CoresInv
  OBVIOUS
<1> DEFINE n == InitialPorts
<1>1. n \in Nat /\ NbLcores \in Nat /\ Topology \in Topologies
  BY ControlAssumption
<1>2. AllLcoresWait
  BY DEF Init, AllLcoresWait
<1>3. MainInv /\ CoreInv /\ PortsInv
  BY <1>2 DEF Init, MainInv, CoreInv, PortsInv, ConfigInUse
<1>4. SharesInv
  <2>1. /\ cfg_streams = n /\ nb_fwd_streams = n
        /\ cfg_lcores \in {0, 1} /\ (cfg_lcores = 1 => n >= 1)
    BY <1>1 DEF Init, Least
  <2>2. \A lc \in Lcores : lc < cfg_lcores => lc = 0
    BY <1>1, <2>1 DEF Lcores
  <2>3. 0 \in Lcores => /\ fwd_lcores[0].stream_idx = 0
                        /\ fwd_lcores[0].stream_nb = n
    BY DEF Init
  <2>4. 0 \in Lcores => Owned(fwd_lcores[0]) = 0 .. n - 1
    BY <1>1, <2>3 DEF Owned
  <2>5. n >= 1 => 0 .. n - 1 # {}
    <3>1. n >= 1 => 0 \in 0 .. n - 1
      BY <1>1
    <3> QED
      BY <3>1
  <2>6. CfgStreams = 0 .. n - 1
    BY <2>1 DEF CfgStreams
  <2>7. \A lc \in Lcores : lc < cfg_lcores =>
          Owned(fwd_lcores[lc]) = CfgStreams /\ CfgStreams # {}
    <3> SUFFICES ASSUME NEW lc \in Lcores, lc < cfg_lcores
                 PROVE  Owned(fwd_lcores[lc]) = CfgStreams /\ CfgStreams # {}
      OBVIOUS
    <3>1. lc = 0 /\ cfg_lcores # 0
      BY <2>1, <2>2
    <3>2. n >= 1
      BY <2>1, <3>1
    <3> QED
      BY <2>4, <2>5, <2>6, <3>1, <3>2
  <2>8. cfg_streams <= nb_fwd_streams
    BY <1>1, <2>1
  <2>9. \A lc1, lc2 \in Lcores :
          ~(lc1 # lc2 /\ lc1 < cfg_lcores /\ lc2 < cfg_lcores)
    BY <2>2
  <2> QED
    BY <2>7, <2>8, <2>9 DEF SharesInv
<1>5. StreamsInv
  <2>1. \A s \in 0 .. n - 1 :
          /\ fwd_streams[s].rx_port = s
          /\ fwd_streams[s].tx_port = TxPortIndex(Topology, s, n)
    <3> SUFFICES ASSUME NEW s \in 0 .. n - 1
                 PROVE  /\ fwd_streams[s].rx_port = s
                        /\ fwd_streams[s].tx_port
                             = TxPortIndex(Topology, s, n)
      OBVIOUS
    <3>1. fwd_streams[s] = Stream(s, 0, TxPortIndex(Topology, s, n), 0)
      BY DEF Init, SimpleStreamAt
    <3> QED
      BY <3>1 DEF Stream
  <2>2. \A s, t \in 0 .. n - 1 : s # t =>
          TxPortIndex(Topology, s, n) # TxPortIndex(Topology, t, n)
    BY <1>1, TxPortIndexInjective
  <2>3. CfgStreams = 0 .. n - 1
    BY DEF Init, CfgStreams
  <2> SUFFICES ASSUME NEW s \in 0 .. n - 1, NEW t \in 0 .. n - 1, s # t
               PROVE  RxOf(s) # RxOf(t) /\ TxOf(s) # TxOf(t)
    BY <2>3 DEF StreamsInv
  <2>4. /\ fwd_streams[s].rx_port = s /\ fwd_streams[t].rx_port = t
        /\ fwd_streams[s].tx_port = TxPortIndex(Topology, s, n)
        /\ fwd_streams[t].tx_port = TxPortIndex(Topology, t, n)
    BY <2>1
  <2> QED
    BY <2>2, <2>4 DEF RxOf, TxOf
<1> QED
  BY <1>3, <1>4, <1>5 DEF CoresInv

(* What is left alone keeps its part of the invariant.                     *)
LEMMA ConfigUnchanged ==
  ASSUME SharesInv, StreamsInv, UNCHANGED config
  PROVE  SharesInv' /\ StreamsInv'
<1>1. SharesInv'
  BY DEF config, SharesInv, CfgStreams
<1>2. StreamsInv'
  <2>1. fwd_streams' = fwd_streams /\ CfgStreams' = CfgStreams
    BY DEF config, CfgStreams
  <2> QED
    BY <2>1 DEF StreamsInv, RxOf, TxOf
<1> QED
  BY <1>1, <1>2

LEMMA PortsUnchanged ==
  ASSUME PortsInv, UNCHANGED config, FwdPorts \subseteq FwdPorts',
         \A p \in FwdPorts : port_status[p] = "STARTED"
                               => port_status'[p] = "STARTED",
         ConfigInUse' => ConfigInUse
  PROVE  PortsInv'
<1> SUFFICES ASSUME ConfigInUse', NEW s \in CfgStreams', NEW p \in StreamPorts(s)'
             PROVE  p \in FwdPorts' /\ port_status'[p] = "STARTED"
  BY DEF PortsInv
<1>1. s \in CfgStreams /\ p \in StreamPorts(s)
  BY DEF config, CfgStreams, StreamPorts
<1>2. p \in FwdPorts /\ port_status[p] = "STARTED"
  BY <1>1 DEF PortsInv
<1> QED
  BY <1>2

(* A command that configures finds the cores at rest.                      *)
LEMMA CoresAtRest ==
  ASSUME TypeOK, CoresInv, main = "command",
         test_done \/ \A p \in FwdPorts : port_status[p] # "STARTED"
  PROVE  AllLcoresWait
<1>1. CASE test_done
  BY <1>1 DEF CoresInv, MainInv
<1>2. CASE \A p \in FwdPorts : port_status[p] # "STARTED"
  <2> SUFFICES ASSUME NEW lc \in Lcores, wstate[lc] # "WAIT"
               PROVE  FALSE
    BY DEF AllLcoresWait
  <2>1. ConfigInUse
    BY DEF ConfigInUse, AllLcoresWait
  <2>2. lc < cfg_lcores
    BY DEF CoresInv, CoreInv
  <2>3. PICK s \in CfgStreams : s \in Owned(fwd_lcores[lc])
    BY <2>2 DEF CoresInv, SharesInv
  <2>4. fwd_streams[s].rx_port \in StreamPorts(s)
    BY DEF StreamPorts
  <2> QED
    BY <1>2, <2>1, <2>3, <2>4 DEF CoresInv, PortsInv
<1> QED
  BY <1>1, <1>2

LEMMA SetupCores ==
  ASSUME TypeOK, CoresInv, SetupAction, AllLcoresWait, InputsOK',
         NoRepeat(fwd_ports_ids'),
         main' \in {"begin", "begin_first"} =>
           /\ test_done
           /\ \A p \in FwdPorts' : port_status'[p] = "STARTED"
  PROVE  CoresInv'
<1>1. PICK next \in {"command", "begin", "begin_first"} : SetupForwarding(next)
  BY DEF SetupAction
<1>2. UNCHANGED <<stopped, test_done, contexts, wstate, captured>>
  BY DEF SetupAction, workerVars
<1>3. AllLcoresWait'
  BY <1>2 DEF AllLcoresWait
<1>4. nb_fwd_streams \in Nat
  BY TypeParts DEF ConfigOK
<1>5. main' \in {"command", "begin", "begin_first", "undefined"}
  BY <1>1 DEF SetupForwarding
<1>6. MainInv'
  BY <1>2, <1>3, <1>5 DEF MainInv
<1>7. \A lc \in Lcores : wstate[lc] = "WAIT" /\ ~dangling[lc]
  BY DEF AllLcoresWait, CoresInv, CoreInv
<1>8. CASE SetupUndefined
  <2>1. main' = "undefined" /\ UNCHANGED <<config, dangling>>
    BY <1>1, <1>8 DEF SetupForwarding
  <2>2. SharesInv' /\ StreamsInv'
    BY <2>1, ConfigUnchanged DEF CoresInv
  <2>3. CoreInv'
    BY <1>2, <1>7, <2>1 DEF CoreInv
  <2>4. PortsInv'
    BY <1>3, <2>1 DEF PortsInv, ConfigInUse
  <2> QED
    BY <1>6, <2>2, <2>3, <2>4 DEF CoresInv
<1>9. CASE ~SetupUndefined
  <2>1. main' = next /\ ConfigComputed
    BY <1>1, <1>9 DEF SetupForwarding
  <2>2. SharesInv'
    BY <1>4, <1>9, <2>1, SetupShares
  <2>3. /\ StreamsInv'
        /\ \A s \in CfgStreams' : StreamPorts(s)' \subseteq FwdPorts'
    BY <1>4, <1>9, <2>1, SetupStreams
  <2>4. \A lc \in Lcores : ~dangling'[lc]
    BY <1>7, <2>1 DEF ConfigComputed
  <2>5. CoreInv'
    BY <1>2, <1>7, <2>4 DEF CoreInv
  <2>6. PortsInv'
    <3> SUFFICES ASSUME ConfigInUse', NEW s \in CfgStreams',
                        NEW p \in StreamPorts(s)'
                 PROVE  p \in FwdPorts' /\ port_status'[p] = "STARTED"
      BY DEF PortsInv
    <3>1. main' \in {"begin", "begin_first"}
      BY <1>3, <1>5 DEF ConfigInUse
    <3>2. p \in FwdPorts'
      BY <2>3
    <3> QED
      BY <3>1, <3>2
  <2> QED
    BY <1>6, <2>2, <2>3, <2>5, <2>6 DEF CoresInv
<1> QED
  BY <1>8, <1>9

(* A command on a port takes none that a core polls away from it.          *)
LEMMA PortStepCores ==
  ASSUME TypeOK, PortListsConsistent, CoresInv, PortStep
  PROVE  CoresInv'
<1>1. PICK p \in Ports : \/ StartPort(p) \/ StopPort(p) \/ ClosePort(p)
                        \/ CloseRefused(p) \/ DetachPort(p) \/ AttachPort(p)
  BY DEF PortStep
<1>2. /\ main = "command"
      /\ UNCHANGED <<config, test_done, main, wstate, captured, dangling>>
  BY <1>1 DEF StartPort, StopPort, ClosePort, CloseRefused, DetachPort,
     AttachPort, PortCommand, workerVars
<1>3. port_status \in [Ports -> {"STOPPED", "STARTED", "HANDLING", "CLOSED"}]
  BY TypeParts DEF InputsOK
<1>4. MainInv' /\ CoreInv' /\ SharesInv' /\ StreamsInv'
  <2>1. SharesInv' /\ StreamsInv'
    BY <1>2, ConfigUnchanged DEF CoresInv
  <2>2. MainInv'
    BY <1>2 DEF CoresInv, MainInv, AllLcoresWait
  <2>3. CoreInv'
    BY <1>2 DEF CoresInv, CoreInv, config
  <2> QED
    BY <2>1, <2>2, <2>3
<1>5. ConfigInUse' = ConfigInUse
  BY <1>2 DEF ConfigInUse, AllLcoresWait
<1>6. ConfigInUse => ~test_done
  BY <1>2 DEF ConfigInUse, CoresInv, MainInv
<1>7. ASSUME NEW q \in Ports,
             \A r \in Ports : r # q => port_status'[r] = port_status[r],
             FwdPorts \ {q} \subseteq FwdPorts',
             ConfigInUse => q \notin FwdPorts \/ port_status[q] # "STARTED"
      PROVE  PortsInv'
  <2> SUFFICES ASSUME ConfigInUse', NEW s \in CfgStreams',
                      NEW r \in StreamPorts(s)'
               PROVE  r \in FwdPorts' /\ port_status'[r] = "STARTED"
    BY DEF PortsInv
  <2>1. s \in CfgStreams /\ r \in StreamPorts(s)
    BY <1>2 DEF config, CfgStreams, StreamPorts
  <2>2. r \in FwdPorts /\ port_status[r] = "STARTED"
    BY <1>5, <2>1 DEF CoresInv, PortsInv
  <2>3. r # q
    BY <1>5, <1>7, <2>2
  <2>4. FwdPorts \subseteq Ports
    <3>1. /\ \A i \in 1 .. Len(fwd_ports_ids) : fwd_ports_ids[i] \in Ports
          /\ nb_fwd_ports \in 0 .. Len(fwd_ports_ids)
          /\ Len(fwd_ports_ids) \in Nat
      BY TypeParts, ElementOfSeq, LenProperties DEF InputsOK
    <3> QED
      BY <3>1 DEF FwdPorts
  <2> QED
    BY <1>7, <2>2, <2>3, <2>4
<1>8. CASE StartPort(p)
  <2>1. /\ port_status[p] = "STOPPED"
        /\ \E result \in {"STARTED", "STOPPED", "HANDLING"} :
             port_status' = [port_status EXCEPT ![p] = result]
        /\ UNCHANGED <<fwd_ports_ids, nb_fwd_ports>>
    BY <1>8 DEF StartPort
  <2>2. FwdPorts' = FwdPorts
    BY <2>1 DEF FwdPorts
  <2> QED
    BY <1>3, <1>4, <1>7, <2>1, <2>2 DEF CoresInv
<1>9. CASE StopPort(p)
  <2>1. /\ ~(p \in FwdPorts /\ ~test_done)
        /\ \E result \in {"STARTED", "STOPPED", "HANDLING"} :
             port_status' = [port_status EXCEPT ![p] = result]
        /\ UNCHANGED <<fwd_ports_ids, nb_fwd_ports>>
    BY <1>9 DEF StopPort, IsForwarding
  <2>2. FwdPorts' = FwdPorts
    BY <2>1 DEF FwdPorts
  <2> QED
    BY <1>3, <1>4, <1>6, <1>7, <2>1, <2>2 DEF CoresInv
<1>10. CASE ClosePort(p) \/ DetachPort(p)
  <2>1. /\ port_status[p] # "STOPPED" => ~(p \in FwdPorts /\ ~test_done)
        /\ port_status' = [port_status EXCEPT ![p] = "CLOSED"]
        /\ RemoveInvalidPorts(p)
    BY <1>10 DEF ClosePort, DetachPort, IsForwarding
  <2>2. FwdPorts' = FwdPorts \ {p}
    BY <2>1, RemovePortLists
  <2> QED
    BY <1>3, <1>4, <1>6, <1>7, <2>1, <2>2 DEF CoresInv
<1>11. CASE CloseRefused(p)
  <2>1. UNCHANGED port_status
    BY <1>11 DEF CloseRefused
  <2>2. FwdPorts' = FwdPorts
    BY <1>11, RefusedPortLists
  <2>3. PortsInv'
    BY <1>2, <1>5, <2>1, <2>2, PortsUnchanged DEF CoresInv
  <2> QED
    BY <1>4, <2>3 DEF CoresInv
<1>12. CASE AttachPort(p)
  <2>1. /\ port_status[p] = "CLOSED"
        /\ port_status' = [port_status EXCEPT ![p] = "STOPPED"]
    BY <1>12 DEF AttachPort
  <2>2. FwdPorts' = FwdPorts \cup {p}
    BY <1>12, AttachPortLists
  <2> QED
    BY <1>3, <1>4, <1>7, <2>1, <2>2 DEF CoresInv
<1> QED
  BY <1>1, <1>8, <1>9, <1>10, <1>11, <1>12

(* The commands that configure, and start.                                 *)
LEMMA ConfigureCores ==
  ASSUME TypeOK, PortListsConsistent, PortListsConsistent', CoresInv,
         ~CfgWhileRunning,
         \/ \E n \in 0 .. NbEthPorts : SetNbPort(n)
         \/ \E n \in NbCoreValues : SetNbCore(n)
         \/ \E n \in 1 .. NbLcores : SetCoreList(n)
         \/ \E list \in PortLists : SetPortList(list)
         \/ SetEthPeer
         \/ \E n \in QueueCounts : ConfigQueues(n)
         \/ \E b \in BOOLEAN : Start(b)
  PROVE  CoresInv'
<1>1. SetupAction /\ InputsOK'
  BY ConfigureInputs
<1>2. NoRepeat(fwd_ports_ids')
  BY DEF PortListsConsistent
<1>3. FwdPorts \subseteq Valid
  <2>1. /\ nb_fwd_ports \in 0 .. Len(fwd_ports_ids)
        /\ DOMAIN fwd_ports_ids = 1 .. Len(fwd_ports_ids)
        /\ Len(fwd_ports_ids) \in Nat
    BY TypeParts, LenProperties DEF InputsOK
  <2> QED
    BY <2>1 DEF FwdPorts, PortListsConsistent, Listed
<1>4. CASE \E b \in BOOLEAN : Start(b)
  <2>1. /\ test_done /\ AllPortsStarted
        /\ UNCHANGED <<portVars, settings>> /\ main = "command"
    BY <1>4 DEF Start
  <2>2. AllLcoresWait
    BY <2>1 DEF CoresInv, MainInv
  <2>3. FwdPorts' = FwdPorts /\ port_status' = port_status
    BY <2>1 DEF portVars, FwdPorts
  <2>4. \A p \in FwdPorts' : port_status'[p] = "STARTED"
    BY <1>3, <2>1, <2>3 DEF AllPortsStarted
  <2> QED
    BY <1>1, <1>2, <2>1, <2>2, <2>4, SetupCores
<1>5. CASE ~\E b \in BOOLEAN : Start(b)
  <2>1. main = "command" /\ main' \in {"command", "undefined"}
    BY <1>5 DEF SetNbPort, SetNbCore, SetCoreList, SetPortList, SetEthPeer,
       ConfigQueues, SetupForwarding
  <2>2. test_done \/ AllPortsStopped
    BY <1>5 DEF SetNbPort, SetNbCore, SetCoreList, SetPortList, SetEthPeer,
       ConfigQueues, OperatorMayConfigure
  <2>3. test_done \/ \A p \in FwdPorts : port_status[p] # "STARTED"
    BY <1>3, <2>2 DEF AllPortsStopped
  <2>4. AllLcoresWait
    BY <2>1, <2>3, CoresAtRest
  <2> QED
    BY <1>1, <1>2, <2>1, <2>4, SetupCores
<1> QED
  BY <1>4, <1>5

(* The steps that change neither ports nor configuration.                  *)
LEMMA ControlStepCores ==
  ASSUME TypeOK, CoresInv, UNCHANGED <<portVars, config>>,
         ConfigInUse' => ConfigInUse, MainInv', CoreInv'
  PROVE  CoresInv'
<1>1. SharesInv' /\ StreamsInv'
  BY ConfigUnchanged DEF CoresInv
<1>2. FwdPorts' = FwdPorts /\ port_status' = port_status
  BY DEF portVars, FwdPorts
<1>3. PortsInv'
  BY <1>2, PortsUnchanged DEF CoresInv
<1> QED
  BY <1>1, <1>3 DEF CoresInv

LEMMA NextCores ==
  ASSUME TypeOK, PortListsConsistent, PortListsConsistent', CoresInv,
         ~CfgWhileRunning, [Next]_vars
  PROVE  CoresInv'
<1>1. /\ wstate \in [Lcores -> {"WAIT", "LAUNCHED", "RUNNING"}]
      /\ captured \in [Lcores -> [stream_idx : Nat, stream_nb : Nat,
                                  eng : Engines \cup {"txonly", NoEngine}]]
      /\ dangling \in [Lcores -> BOOLEAN]
  BY TypeParts DEF ControlOK
<1>2. MainInv /\ CoreInv
  BY DEF CoresInv
<1>3. CASE Configure
  <2>1. ASSUME NEW e \in Engines, SetFwdMode(e)
        PROVE  CoresInv'
    <3>1. UNCHANGED <<portVars, config, test_done, main, wstate, captured,
                      dangling>>
      BY <2>1 DEF SetFwdMode, workerVars
    <3>2. MainInv' /\ (ConfigInUse' => ConfigInUse)
      BY <1>2, <3>1 DEF MainInv, ConfigInUse, AllLcoresWait
    <3>3. CoreInv'
      BY <1>2, <3>1 DEF CoreInv, config
    <3> QED
      BY <3>1, <3>2, <3>3, ControlStepCores
  <2> QED
    BY <1>3, <2>1, ConfigureCores DEF Configure
<1>4. CASE \E with_tx_first \in BOOLEAN : Start(with_tx_first)
  BY <1>4, ConfigureCores
<1>5. CASE PortStep
  BY <1>5, PortStepCores
<1>6. CASE StartExits \/ BeginEngines \/ BeginExits \/ BurstDone \/ Stop
           \/ StopDone
  <2>1. UNCHANGED <<portVars, config, wstate, captured, dangling>>
    BY <1>6 DEF StartExits, BeginEngines, BeginExits, BurstDone, Stop,
       StopDone, workerVars
  <2>2. CoreInv'
    BY <1>2, <2>1 DEF CoreInv, config
  <2>3. MainInv'
    BY <1>2, <1>6, <2>1 DEF MainInv, AllLcoresWait, StartExits, BeginEngines,
       BeginExits, BurstDone, Stop, StopDone
  <2>4. ConfigInUse' => ConfigInUse
    BY <1>6, <2>1 DEF ConfigInUse, AllLcoresWait, StartExits, BeginEngines,
       BeginExits, BurstDone, Stop, StopDone
  <2> QED
    BY <2>1, <2>2, <2>3, <2>4, ControlStepCores
<1>7. CASE LaunchBurst \/ Launch
  <2>1. /\ main \in {"first", "launch"} /\ main' \in {"first_wait", "command"}
        /\ UNCHANGED <<portVars, config, test_done, captured, dangling>>
        /\ wstate' = [lc \in Lcores |->
             IF lc < cfg_lcores /\ wstate[lc] = "WAIT" THEN "LAUNCHED"
             ELSE wstate[lc]]
    BY <1>7 DEF LaunchBurst, Launch, LaunchOn
  <2>2. AllLcoresWait /\ ~test_done
    BY <1>2, <2>1 DEF MainInv
  <2>3. MainInv'
    BY <2>1, <2>2 DEF MainInv
  <2>4. CoreInv'
    BY <1>2, <2>1, <2>2 DEF CoreInv, config, AllLcoresWait
  <2>5. ConfigInUse
    BY <2>1 DEF ConfigInUse
  <2> QED
    BY <2>1, <2>3, <2>4, <2>5, ControlStepCores
<1>8. ASSUME NEW lc \in Lcores, WorkerBegin(lc) \/ WorkerLeave(lc)
      PROVE  CoresInv'
  <2>1. /\ UNCHANGED <<portVars, config, test_done, main>>
        /\ wstate[lc] # "WAIT"
        /\ \E w \in {"WAIT", "RUNNING"} : wstate' = [wstate EXCEPT ![lc] = w]
    BY <1>8 DEF WorkerBegin, WorkerLeave
  <2>2. ~AllLcoresWait
    BY <2>1 DEF AllLcoresWait
  <2>3. MainInv'
    BY <1>2, <2>1, <2>2 DEF MainInv
  <2>4. CoreInv'
    <3>1. CASE WorkerBegin(lc)
      <4>1. /\ wstate[lc] = "LAUNCHED"
            /\ wstate' = [wstate EXCEPT ![lc] = "RUNNING"]
            /\ captured' = [captured EXCEPT ![lc] =
                 [stream_idx |-> fwd_lcores[lc].stream_idx,
                  stream_nb  |-> fwd_lcores[lc].stream_nb,
                  eng        |-> IF main = "first_wait" THEN "txonly"
                                 ELSE cfg_eng]]
            /\ dangling' = dangling
        BY <3>1 DEF WorkerBegin
      <4>2. /\ captured'[lc].stream_idx = fwd_lcores[lc].stream_idx
            /\ captured'[lc].stream_nb = fwd_lcores[lc].stream_nb
        BY <1>1, <4>1
      <4>3. \A other \in Lcores : other # lc =>
              /\ captured'[other] = captured[other]
              /\ wstate'[other] = wstate[other]
        BY <1>1, <4>1
      <4>4. fwd_lcores' = fwd_lcores /\ cfg_lcores' = cfg_lcores
        BY <2>1 DEF config
      <4> QED
        BY <1>2, <4>1, <4>2, <4>3, <4>4 DEF CoreInv
    <3>2. CASE WorkerLeave(lc)
      <4>1. /\ wstate' = [wstate EXCEPT ![lc] = "WAIT"]
            /\ dangling' = [dangling EXCEPT ![lc] = FALSE]
            /\ \A other \in Lcores : other # lc =>
                 captured'[other] = captured[other]
        BY <1>1, <3>2 DEF WorkerLeave
      <4>2. fwd_lcores' = fwd_lcores /\ cfg_lcores' = cfg_lcores
        BY <2>1 DEF config
      <4> QED
        BY <1>1, <1>2, <4>1, <4>2 DEF CoreInv
    <3> QED
      BY <1>8, <3>1, <3>2
  <2>5. ConfigInUse
    BY <2>2 DEF ConfigInUse
  <2> QED
    BY <2>1, <2>3, <2>4, <2>5, ControlStepCores
<1>9. CASE UNCHANGED vars
  <2>1. UNCHANGED <<portVars, config, test_done, main, wstate, captured,
                    dangling>>
    BY <1>9 DEF vars, workerVars
  <2>2. MainInv' /\ (ConfigInUse' => ConfigInUse)
    BY <1>2, <2>1 DEF MainInv, ConfigInUse, AllLcoresWait
  <2>3. CoreInv'
    BY <1>2, <2>1 DEF CoreInv, config
  <2> QED
    BY <2>1, <2>2, <2>3, ControlStepCores
<1> QED
  BY <1>3, <1>4, <1>5, <1>6, <1>7, <1>8, <1>9 DEF Next, MainStep

-----------------------------------------------------------------------------
(* What a running core polls belongs to the configuration.                 *)
LEMMA PollingInCfg ==
  ASSUME TypeOK, CoresInv, NEW lc \in Lcores, NEW s \in Polling(lc)
  PROVE  /\ wstate[lc] = "RUNNING" /\ lc < cfg_lcores
         /\ s \in Owned(fwd_lcores[lc]) /\ s \in CfgStreams
<1>1. wstate[lc] = "RUNNING" /\ s \in Owned(captured[lc])
  BY DEF Polling
<1>2. /\ lc < cfg_lcores
      /\ captured[lc].stream_idx = fwd_lcores[lc].stream_idx
      /\ captured[lc].stream_nb = fwd_lcores[lc].stream_nb
  BY <1>1 DEF CoresInv, CoreInv
<1>3. Owned(captured[lc]) = Owned(fwd_lcores[lc])
  BY <1>2 DEF Owned
<1> QED
  BY <1>1, <1>2, <1>3 DEF CoresInv, SharesInv

LEMMA CoresInvSuffices ==
  ASSUME TypeOK, CoresInv
  PROVE  PolledPortsStarted /\ StopReachesAll /\ NoUseAfterFree
         /\ QueuesOwnedOnce
<1>1. PolledPortsStarted
  <2> SUFFICES ASSUME NEW lc \in Lcores, NEW s \in Polling(lc)
               PROVE  /\ port_status[fwd_streams[s].rx_port] = "STARTED"
                      /\ port_status[fwd_streams[s].tx_port] = "STARTED"
    BY DEF PolledPortsStarted
  <2>1. wstate[lc] = "RUNNING" /\ s \in CfgStreams
    BY PollingInCfg
  <2>2. ConfigInUse
    BY <2>1 DEF ConfigInUse, AllLcoresWait
  <2> QED
    BY <2>1, <2>2 DEF CoresInv, PortsInv, StreamPorts
<1>2. StopReachesAll /\ NoUseAfterFree
  BY DEF CoresInv, CoreInv, StopReachesAll, NoUseAfterFree
<1>3. QueuesOwnedOnce
  <2> SUFFICES ASSUME NEW lc1 \in Lcores, NEW lc2 \in Lcores, lc1 # lc2,
                      NEW s \in Polling(lc1), NEW t \in Polling(lc2)
               PROVE  RxOf(s) # RxOf(t) /\ TxOf(s) # TxOf(t)
    BY DEF QueuesOwnedOnce
  <2>1. /\ s \in CfgStreams /\ s \in Owned(fwd_lcores[lc1])
        /\ t \in CfgStreams /\ t \in Owned(fwd_lcores[lc2])
        /\ lc1 < cfg_lcores /\ lc2 < cfg_lcores
    BY PollingInCfg
  <2>2. s # t
    BY <2>1 DEF CoresInv, SharesInv
  <2> QED
    BY <2>1, <2>2 DEF CoresInv, StreamsInv
<1> QED
  BY <1>1, <1>2, <1>3

LEMMA CoresInductive ==
  ASSUME ~CfgWhileRunning
  PROVE  Spec => [](TypeOK /\ PortListsConsistent /\ CoresInv)
<1>1. Init => TypeOK /\ PortListsConsistent /\ CoresInv
  BY InitType, InitPortLists, InitCores
<1>2. TypeOK /\ PortListsConsistent /\ CoresInv /\ [Next]_vars
        => TypeOK' /\ PortListsConsistent' /\ CoresInv'
  BY NextType, NextPortLists, NextCores
<1> QED
  BY <1>1, <1>2, PTL DEF Spec

(* With an operator who does not reconfigure a running test, no core polls *)
(* a port that a command has stopped, closed or detached.                  *)
THEOREM PortsSafe ==
  ASSUME ~CfgWhileRunning
  PROVE  Spec => []PolledPortsStarted
<1>1. TypeOK /\ CoresInv => PolledPortsStarted
  BY CoresInvSuffices
<1> QED
  BY <1>1, CoresInductive, PTL

(* Then stop tells every core that was launched, whatever was attached and *)
(* configured since the start.                                             *)
THEOREM StopSafe ==
  ASSUME ~CfgWhileRunning
  PROVE  Spec => []StopReachesAll
<1>1. TypeOK /\ CoresInv => StopReachesAll
  BY CoresInvSuffices
<1> QED
  BY <1>1, CoresInductive, PTL

(* Then no core polls streams that init_fwd_streams has freed under it.    *)
THEOREM StreamsSafe ==
  ASSUME ~CfgWhileRunning
  PROVE  Spec => []NoUseAfterFree
<1>1. TypeOK /\ CoresInv => NoUseAfterFree
  BY CoresInvSuffices
<1> QED
  BY <1>1, CoresInductive, PTL

(* Then no two running cores poll or fill a queue together, in every       *)
(* configuration, on any number of ports, cores and queues.                *)
THEOREM QueuesSafe ==
  ASSUME ~CfgWhileRunning
  PROVE  Spec => []QueuesOwnedOnce
<1>1. TypeOK /\ CoresInv => QueuesOwnedOnce
  BY CoresInvSuffices
<1> QED
  BY <1>1, CoresInductive, PTL

-----------------------------------------------------------------------------
(***************************************************************************)
(* The steps of the commands and the cores are steps of ForwardingService  *)
(* (what TLC checks as ImplementsService on a small instance, liveness     *)
(* left out), and every engine context begun is ended.                     *)
(***************************************************************************)

\* The queues of ForwardingService are numbered from 0 to 7.
FewQueues == \A p \in Ports : MaxQueues[p] <= 8

(* ImplementsService without the fairness of the main thread and the cores *)
(* and what follows from it.                                               *)
ImplementsSteps == Service!Init /\ [][Service!Next]_(Service!vars)

-----------------------------------------------------------------------------
(* The refinement mapping, by name.                                        *)

Phase ==
  CASE main \in {"exited", "undefined"} -> "ended"
    [] main = "stopping" -> "stopping"
    [] main = "command" -> IF test_done THEN "idle" ELSE "forwarding"
    [] OTHER -> "starting"
Active == {lc \in Lcores : wstate[lc] = "RUNNING"}
Polled == [lc \in Lcores |-> {RxOf(s) : s \in Polling(lc)}]

Serves == [Service!Next]_(Service!vars)

LEMMA ServeStutter ==
  ASSUME Phase' = Phase, Active' = Active, Polled' = Polled
  PROVE  Serves
  BY DEF Serves, Service!vars, Phase, Active, Polled

LEMMA ServeMove ==
  ASSUME Active' = Active, Polled' = Polled,
         \/ Phase = "idle" /\ Phase' \in {"starting", "ended"} /\ Active = {}
         \/ /\ Phase = "starting" /\ Phase' \in {"idle", "forwarding", "ended"}
            /\ Active = {}
         \/ Phase = "forwarding" /\ Phase' \in {"stopping", "ended"}
         \/ Phase = "stopping" /\ Phase' = "idle" /\ Active = {}
  PROVE  Serves
<1>1. ASSUME NEW from, NEW to, Phase = from, Phase' = to
      PROVE  Service!Move(from, to)
  BY <1>1 DEF Service!Move, Phase, Active, Polled
<1>2. Active = {lc \in Lcores : wstate[lc] = "RUNNING"}
  BY DEF Active
<1> QED
  BY <1>1, <1>2 DEF Serves, Service!Next, Service!Begin, Service!Refuse,
     Service!Open, Service!Halt, Service!Finish, Service!End

LEMMA ServeJoin ==
  ASSUME NEW lc \in Lcores, lc \notin Active,
         Phase \in {"starting", "forwarding", "stopping"}, Phase' = Phase,
         Active' = Active \cup {lc},
         NEW qs \in SUBSET (Ports \X (0 .. 7)),
         \A d \in Active : Polled[d] \cap qs = {},
         Polled' = [Polled EXCEPT ![lc] = qs]
  PROVE  Serves
<1>1. Service!Join(lc, qs)
  BY DEF Service!Join, Phase, Active, Polled
<1> QED
  BY <1>1 DEF Serves, Service!Next

LEMMA ServeLeave ==
  ASSUME NEW lc \in Active, Phase \in {"starting", "stopping"}, Phase' = Phase,
         Active' = Active \ {lc}, Polled' = [Polled EXCEPT ![lc] = {}]
  PROVE  Serves
<1>1. Service!Leave(lc)
  BY DEF Service!Leave, Phase, Active, Polled
<1>2. lc \in Lcores
  BY DEF Active
<1> QED
  BY <1>1, <1>2 DEF Serves, Service!Next

LEMMA CoresStay ==
  ASSUME UNCHANGED <<wstate, captured, fwd_streams>>
  PROVE  Active' = Active /\ Polled' = Polled
  BY DEF Active, Polled, Polling, RxOf

\* Cores at rest poll nothing, whatever the streams.
LEMMA CoresRest ==
  ASSUME AllLcoresWait, AllLcoresWait'
  PROVE  Active = {} /\ Active' = Active /\ Polled' = Polled
<1>1. \A lc \in Lcores : Polling(lc) = {} /\ Polling(lc)' = {}
  BY DEF AllLcoresWait, Polling
<1>2. Polled = [lc \in Lcores |-> {}] /\ Polled' = [lc \in Lcores |-> {}]
  BY <1>1 DEF Polled
<1> QED
  BY <1>2 DEF Active, AllLcoresWait

-----------------------------------------------------------------------------
(* What the steps need besides CoresInv.                                   *)

\* A core that is out has not been told to stop before "stop" is given, and
\* the queues of the configuration are those of the service.
ToldInv ==
  main \notin {"stopping", "exited", "undefined"} =>
    \A lc \in Lcores : wstate[lc] # "WAIT" => ~stopped[lc]

NumbersInv ==
  /\ nb_rxq <= 8
  /\ \A s \in CfgStreams : fwd_streams[s].rx_queue \in 0 .. 7

ServiceInv == ToldInv /\ NumbersInv

LEMMA InitService ==
  ASSUME Init
  PROVE  ServiceInv /\ Service!Init
<1>1. \A lc \in Lcores : wstate[lc] = "WAIT"
  BY DEF Init
<1>2. \A lc \in Lcores : Polling(lc) = {}
  BY <1>1 DEF Polling
<1>3. Service!Init
  <2>1. Phase = "idle"
    BY DEF Init, Phase
  <2>2. Active = {}
    BY <1>1 DEF Active
  <2>3. Polled = [lc \in Lcores |-> {}]
    BY <1>2 DEF Polled
  <2> QED
    BY <2>1, <2>2, <2>3 DEF Service!Init, Phase, Active, Polled
<1>4. NumbersInv
  <2>1. InitialPorts \in Nat
    BY ControlAssumption
  <2>2. \A s \in 0 .. InitialPorts - 1 : fwd_streams[s].rx_queue = 0
    BY DEF Init, SimpleStreamAt, Stream
  <2> QED
    BY <2>1, <2>2 DEF Init, NumbersInv, CfgStreams
<1> QED
  BY <1>1, <1>3, <1>4 DEF ServiceInv, ToldInv

\* The receive queues of a configuration are below the configured number.
LEMMA QueueNumbers ==
  ASSUME NEW kind \in Kinds, NEW top \in Topologies, NEW n \in Nat,
         NEW rxqs \in Nat, NEW txqs \in Nat,
         NEW s \in 0 .. NbStreams(kind, n, rxqs, txqs) - 1
  PROVE  LET q == StreamAt(kind, s, top, n, rxqs, txqs, 1, 0).rx_queue
         IN  q = 0 \/ q \in 0 .. rxqs - 1
<1> DEFINE nb_q == RssQueues(rxqs, txqs)
<1>1. kind \in {"simple", "rss", "icmp"}
  BY DEF Kinds
<1>2. nb_q \in Nat /\ nb_q <= rxqs
  BY DEF RssQueues, Least
<1>3. CASE kind = "simple"
  BY <1>3 DEF StreamAt, SimpleStreamAt, Stream
<1>4. CASE kind = "rss"
  <2>1. s \in 0 .. (nb_q * n) - 1
    BY <1>4 DEF NbStreams
  <2>2. StreamAt(kind, s, top, n, rxqs, txqs, 1, 0)
          = RssStreamAt(s, top, n, nb_q, 1, 0)
    BY <1>4 DEF StreamAt
  <2> HIDE DEF nb_q
  <2>3. /\ s \div n \in 0 .. nb_q - 1
        /\ RssStreamAt(s, top, n, nb_q, 1, 0)
             = Stream(s % n, s \div n, TxPortIndex(top, s % n, n), s \div n)
    BY <1>2, <2>1, RssStreamAtRange
  <2> QED
    BY <1>2, <2>2, <2>3 DEF Stream
<1>5. CASE kind = "icmp"
  <2>1. s \in 0 .. (rxqs * n) - 1
    BY <1>5 DEF NbStreams
  <2>2. StreamAt(kind, s, top, n, rxqs, txqs, 1, 0) = IcmpStreamAt(s, rxqs)
    BY <1>5 DEF StreamAt
  <2>3. /\ s % rxqs \in 0 .. rxqs - 1
        /\ IcmpStreamAt(s, rxqs)
             = Stream(s \div rxqs, s % rxqs, s \div rxqs, s % rxqs)
    BY <2>1, IcmpStreamAtRange
  <2> QED
    BY <2>2, <2>3 DEF Stream
<1> QED
  BY <1>1, <1>3, <1>4, <1>5

\* fwd_config_setup, while the cores are at rest.
LEMMA SetupNumbers ==
  ASSUME TypeOK, NumbersInv, SetupAction, InputsOK', nb_rxq' <= 8
  PROVE  NumbersInv'
<1>1. PICK next \in {"command", "begin", "begin_first"} : SetupForwarding(next)
  BY DEF SetupAction
<1>2. CASE SetupUndefined
  <2>1. UNCHANGED config
    BY <1>1, <1>2 DEF SetupForwarding
  <2> QED
    BY <2>1 DEF NumbersInv, CfgStreams, config
<1>3. CASE ~SetupUndefined
  <2>1. ConfigComputed
    BY <1>1, <1>3 DEF SetupForwarding
  <2> SUFFICES ASSUME NEW s \in 0 .. NewStreams - 1
               PROVE  fwd_streams'[s].rx_queue \in 0 .. 7
    BY <2>1 DEF NumbersInv, CfgStreams, ConfigComputed
  <2> DEFINE st == StreamAt(NewKind, s, Topology, nb_fwd_ports', nb_rxq',
                            nb_txq', 1, 0)
  <2>2. nb_fwd_streams \in Nat
    BY TypeParts DEF ConfigOK
  <2>3. fwd_streams'[s] = PortStream(s)
    BY <1>3, <2>1, <2>2, SetupStream
  <2>4. PortStream(s).rx_queue = st.rx_queue
    BY PortStreamValue
  <2>5. /\ NewKind \in Kinds /\ Topology \in Topologies
        /\ nb_fwd_ports' \in Nat /\ nb_rxq' \in Nat /\ nb_txq' \in Nat
        /\ NewStreams = NbStreams(NewKind, nb_fwd_ports', nb_rxq', nb_txq')
    <3>1. Len(fwd_ports_ids') \in Nat
      BY LenProperties DEF InputsOK
    <3> QED
      BY <3>1, NewLimits, ControlAssumption DEF InputsOK, NewStreams
  <2>6. st.rx_queue = 0 \/ st.rx_queue \in 0 .. nb_rxq' - 1
    BY <2>5, QueueNumbers
  <2> HIDE DEF st
  <2> QED
    BY <2>3, <2>4, <2>5, <2>6
<1> QED
  BY <1>2, <1>3

-----------------------------------------------------------------------------
(* The steps.                                                              *)

\* The commands that configure, and start.
LEMMA ConfigureServes ==
  ASSUME TypeOK, PortListsConsistent, CoresInv, ServiceInv, ~CfgWhileRunning,
         FewQueues,
         \/ \E n \in 0 .. NbEthPorts : SetNbPort(n)
         \/ \E n \in NbCoreValues : SetNbCore(n)
         \/ \E n \in 1 .. NbLcores : SetCoreList(n)
         \/ \E list \in PortLists : SetPortList(list)
         \/ SetEthPeer
         \/ \E n \in QueueCounts : ConfigQueues(n)
         \/ \E with_tx_first \in BOOLEAN : Start(with_tx_first)
  PROVE  ServiceInv' /\ Serves
<1>1. SetupAction /\ InputsOK' /\ main = "command"
  BY ConfigureInputs DEF SetupAction
<1>2. FwdPorts \subseteq Valid
  <2>1. /\ fwd_ports_ids \in Seq(Ports)
        /\ nb_fwd_ports \in 0 .. Len(fwd_ports_ids)
    BY TypeParts DEF InputsOK
  <2>2. DOMAIN fwd_ports_ids = 1 .. Len(fwd_ports_ids) /\ Len(fwd_ports_ids) \in Nat
    BY <2>1, LenProperties
  <2>3. FwdPorts \subseteq Listed(fwd_ports_ids)
    BY <2>1, <2>2 DEF FwdPorts, Listed
  <2> QED
    BY <2>3 DEF PortListsConsistent
<1>3. test_done \/ AllPortsStopped
  BY DEF SetNbPort, SetNbCore, SetCoreList, SetPortList, SetEthPeer,
     ConfigQueues, Start, OperatorMayConfigure
<1>4. AllLcoresWait
  <2>1. test_done \/ \A p \in FwdPorts : port_status[p] # "STARTED"
    BY <1>2, <1>3 DEF AllPortsStopped
  <2> QED
    BY <1>1, <2>1, CoresAtRest
<1>5. AllLcoresWait' /\ test_done' = test_done
  BY <1>1, <1>4 DEF SetupAction, workerVars, AllLcoresWait
<1>6. nb_rxq' <= 8
  <2>1. nb_rxq \in Nat /\ nb_rxq <= 8
    BY TypeParts DEF InputsOK, ServiceInv, NumbersInv
  <2>2. CASE \E n \in QueueCounts : ConfigQueues(n)
    <3>1. PICK n \in QueueCounts : ConfigQueues(n)
      BY <2>2
    <3>2. n \in Nat /\ QueueCountAllowed(n) /\ nb_rxq' \in {n, nb_rxq}
      BY <3>1, ControlAssumption DEF ConfigQueues
    <3>3. n <= 8
      <4>1. CASE Valid = {}
        BY <3>2, <4>1 DEF QueueCountAllowed
      <4>2. CASE Valid # {}
        <5>1. PICK p \in Valid : n <= MaxQueues[p]
          BY <3>2, <4>2 DEF QueueCountAllowed
        <5>2. p \in Ports /\ MaxQueues[p] \in Nat /\ MaxQueues[p] <= 8
          BY ControlAssumption DEF FewQueues, Valid
        <5> QED
          BY <3>2, <5>1, <5>2
      <4> QED
        BY <4>1, <4>2
    <3> QED
      BY <2>1, <3>2, <3>3
  <2>3. CASE ~\E n \in QueueCounts : ConfigQueues(n)
    <3>1. nb_rxq' = nb_rxq
      BY <2>3 DEF SetNbPort, SetNbCore, SetCoreList, SetPortList, SetEthPeer,
         Start, settings
    <3> QED
      BY <2>1, <3>1
  <2> QED
    BY <2>2, <2>3
<1>7. ServiceInv'
  <2>1. NumbersInv'
    BY <1>1, <1>6, SetupNumbers DEF ServiceInv
  <2>2. ToldInv'
    BY <1>5 DEF ToldInv, AllLcoresWait
  <2> QED
    BY <2>1, <2>2 DEF ServiceInv
<1>8. Active = {} /\ Active' = Active /\ Polled' = Polled
  BY <1>4, <1>5, CoresRest
<1>9. main' \in {"command", "begin", "begin_first", "undefined"}
  BY <1>1 DEF SetupAction, SetupForwarding
<1>10. main' \in {"begin", "begin_first"} => test_done
  BY DEF SetNbPort, SetNbCore, SetCoreList, SetPortList, SetEthPeer,
     ConfigQueues, Start, SetupForwarding
<1>11. Serves
  <2>1. CASE main' = "command"
    <3>1. Phase' = Phase
      BY <1>1, <1>5, <2>1 DEF Phase
    <3> QED
      BY <1>8, <3>1, ServeStutter
  <2>2. CASE main' = "undefined"
    <3>1. Phase \in {"idle", "forwarding"} /\ Phase' = "ended"
      BY <1>1, <2>2 DEF Phase
    <3> QED
      BY <1>8, <3>1, ServeMove
  <2>3. CASE main' \in {"begin", "begin_first"}
    <3>1. Phase = "idle" /\ Phase' = "starting"
      BY <1>1, <1>10, <2>3 DEF Phase
    <3> QED
      BY <1>8, <3>1, ServeMove
  <2> QED
    BY <1>9, <2>1, <2>2, <2>3
<1> QED
  BY <1>7, <1>11

\* A step of the main thread that leaves the cores and their streams alone.
LEMMA MainServes ==
  ASSUME CoresInv, ServiceInv,
         StartExits \/ BeginEngines \/ BeginExits \/ BurstDone \/ Stop
           \/ StopDone
  PROVE  ServiceInv' /\ Serves
<1>1. UNCHANGED <<config, nb_rxq, wstate, captured>>
  BY DEF StartExits, BeginEngines, BeginExits, BurstDone, Stop, StopDone,
     workerVars, settings
<1>2. Active' = Active /\ Polled' = Polled
  BY <1>1, CoresStay DEF config
<1>3. NumbersInv'
  BY <1>1 DEF ServiceInv, NumbersInv, CfgStreams, config
<1>4. AllLcoresWait => Active = {}
  BY DEF AllLcoresWait, Active
<1>5. CASE StartExits
  <2>1. main = "command" /\ main' = "exited" /\ UNCHANGED test_done
    BY <1>5 DEF StartExits
  <2>2. Phase' = "ended"
    BY <2>1 DEF Phase
  <2>3. IF test_done THEN Phase = "idle" /\ Active = {}
        ELSE Phase = "forwarding"
    BY <1>4, <2>1 DEF Phase, CoresInv, MainInv
  <2>4. ToldInv'
    BY <2>1 DEF ToldInv
  <2> QED
    BY <1>2, <1>3, <2>2, <2>3, <2>4, ServeMove DEF ServiceInv
<1>6. CASE BeginEngines
  <2>1. /\ main \in {"begin", "begin_first"} /\ UNCHANGED stopped
        /\ \/ main' = "command" /\ test_done' = test_done
           \/ main' \in {"first", "launch"}
    BY <1>6 DEF BeginEngines
  <2>2. Phase = "starting" /\ Active = {} /\ test_done
    BY <1>4, <2>1 DEF Phase, CoresInv, MainInv
  <2>3. Phase' \in {"idle", "starting"}
    BY <2>1, <2>2 DEF Phase
  <2>4. ToldInv'
    BY <1>1, <2>1 DEF ServiceInv, ToldInv
  <2>5. Serves
    BY <1>2, <2>2, <2>3, ServeMove, ServeStutter
  <2> QED
    BY <1>3, <2>4, <2>5 DEF ServiceInv
<1>7. CASE BeginExits
  <2>1. main \in {"begin", "begin_first"} /\ main' = "exited"
    BY <1>7 DEF BeginExits
  <2>2. Phase = "starting" /\ Active = {} /\ Phase' = "ended"
    BY <1>4, <2>1 DEF Phase, CoresInv, MainInv
  <2>3. ToldInv'
    BY <2>1 DEF ToldInv
  <2> QED
    BY <1>2, <1>3, <2>2, <2>3, ServeMove DEF ServiceInv
<1>8. CASE BurstDone
  <2>1. main = "first_wait" /\ main' = "launch" /\ UNCHANGED stopped
    BY <1>8 DEF BurstDone
  <2>2. Phase = "starting" /\ Phase' = Phase
    BY <2>1 DEF Phase
  <2>3. ToldInv'
    BY <1>1, <2>1 DEF ServiceInv, ToldInv
  <2> QED
    BY <1>2, <1>3, <2>2, <2>3, ServeStutter DEF ServiceInv
<1>9. CASE Stop
  <2>1. main = "command" /\ ~test_done /\ main' = "stopping"
    BY <1>9 DEF Stop
  <2>2. Phase = "forwarding" /\ Phase' = "stopping"
    BY <2>1 DEF Phase
  <2>3. ToldInv'
    BY <2>1 DEF ToldInv
  <2> QED
    BY <1>2, <1>3, <2>2, <2>3, ServeMove DEF ServiceInv
<1>10. CASE StopDone
  <2>1. /\ main = "stopping" /\ main' = "command" /\ test_done'
        /\ AllLcoresWait
    BY <1>10 DEF StopDone
  <2>2. Phase = "stopping" /\ Phase' = "idle" /\ Active = {}
    BY <1>4, <2>1 DEF Phase
  <2>3. ToldInv'
    BY <1>1, <2>1 DEF ToldInv, AllLcoresWait
  <2> QED
    BY <1>2, <1>3, <2>2, <2>3, ServeMove DEF ServiceInv
<1> QED
  BY <1>5, <1>6, <1>7, <1>8, <1>9, <1>10

\* launch_packet_forwarding: the cores that are launched do not poll yet.
LEMMA LaunchServes ==
  ASSUME TypeOK, CoresInv, CoresInv', ServiceInv, LaunchBurst \/ Launch
  PROVE  ServiceInv' /\ Serves
<1>1. /\ \/ main = "first" /\ main' = "first_wait"
         \/ main = "launch" /\ main' = "command"
      /\ UNCHANGED <<config, nb_rxq, test_done, captured>>
      /\ stopped' = [lc \in Lcores |-> lc >= cfg_lcores /\ stopped[lc]]
      /\ wstate' = [lc \in Lcores |->
           IF lc < cfg_lcores /\ wstate[lc] = "WAIT" THEN "LAUNCHED"
           ELSE wstate[lc]]
  BY DEF LaunchBurst, Launch, LaunchOn, settings
<1>2. AllLcoresWait /\ ~test_done
  BY <1>1 DEF CoresInv, MainInv
<1>3. \A lc \in Lcores : wstate[lc] # "RUNNING" /\ wstate'[lc] # "RUNNING"
  BY <1>1, <1>2 DEF AllLcoresWait
<1>4. Active = {} /\ Active' = {} /\ Polled' = Polled
  <2>1. \A lc \in Lcores : Polling(lc) = {} /\ Polling(lc)' = {}
    BY <1>3 DEF Polling
  <2>2. Polled = [lc \in Lcores |-> {}] /\ Polled' = [lc \in Lcores |-> {}]
    BY <2>1 DEF Polled
  <2> QED
    BY <1>3, <2>2 DEF Active
<1>5. Phase = "starting" /\ Phase' \in {"starting", "forwarding"}
  BY <1>1, <1>2 DEF Phase
<1>6. Serves
  BY <1>4, <1>5, ServeMove, ServeStutter
<1>7. NumbersInv'
  BY <1>1 DEF ServiceInv, NumbersInv, CfgStreams, config
<1>8. ToldInv'
  <2> SUFFICES ASSUME NEW lc \in Lcores, wstate'[lc] # "WAIT"
               PROVE  ~stopped'[lc]
    BY DEF ToldInv
  <2>1. lc < cfg_lcores /\ lc \in Int /\ cfg_lcores \in Int
    <3>1. lc < cfg_lcores
      BY <1>1, <1>2 DEF AllLcoresWait
    <3>2. cfg_lcores \in Int
      BY TypeParts DEF ConfigOK
    <3> QED
      BY <3>1, <3>2 DEF Lcores
  <2>2. ~(lc >= cfg_lcores)
    BY <2>1
  <2>3. stopped'[lc] = (lc >= cfg_lcores /\ stopped[lc])
    BY <1>1, Zenon
  <2> QED
    BY <2>2, <2>3, Zenon
<1> QED
  BY <1>6, <1>7, <1>8 DEF ServiceInv

\* A core takes up its share: queues that no other core polls.
LEMMA WorkerBeginServes ==
  ASSUME TypeOK, TypeOK', CoresInv, CoresInv', ServiceInv,
         NEW lc \in Lcores, WorkerBegin(lc)
  PROVE  ServiceInv' /\ Serves
<1>1. /\ Alive /\ wstate[lc] = "LAUNCHED"
      /\ wstate' = [wstate EXCEPT ![lc] = "RUNNING"]
      /\ UNCHANGED <<config, nb_rxq, stopped, test_done, main>>
      /\ \A other \in Lcores : other # lc => captured'[other] = captured[other]
  <2>1. captured \in [Lcores -> [stream_idx : Nat, stream_nb : Nat,
                                 eng : Engines \cup {"txonly", NoEngine}]]
    BY TypeParts DEF ControlOK
  <2> QED
    BY <2>1 DEF WorkerBegin, settings
<1>2. wstate \in [Lcores -> {"WAIT", "LAUNCHED", "RUNNING"}]
  BY TypeParts DEF ControlOK
<1>3. fwd_streams' = fwd_streams /\ CfgStreams' = CfgStreams
  BY <1>1 DEF config, CfgStreams
<1>4. lc \notin Active /\ Active' = Active \cup {lc}
  BY <1>1, <1>2 DEF Active
<1>5. Phase' = Phase
  BY <1>1 DEF Phase
<1>6. Phase \in {"starting", "forwarding", "stopping"}
  <2>1. ~AllLcoresWait
    BY <1>1 DEF AllLcoresWait
  <2>2. main \in MainPoints
    BY TypeParts DEF ControlOK
  <2> QED
    BY <1>1, <2>1, <2>2 DEF Alive, Phase, CoresInv, MainInv, MainPoints
<1> DEFINE qs == {RxOf(s) : s \in Polling(lc)'}
<1>7. \A s : RxOf(s)' = RxOf(s)
  BY <1>3 DEF RxOf
<1>8. \A d \in Lcores : d # lc => Polling(d)' = Polling(d)
  <2> SUFFICES ASSUME NEW d \in Lcores, d # lc
               PROVE  Polling(d)' = Polling(d)
    OBVIOUS
  <2>1. wstate'[d] = wstate[d] /\ captured'[d] = captured[d]
    BY <1>1, <1>2
  <2>2. Owned(captured'[d]) = Owned(captured[d])
    BY <2>1
  <2> QED
    BY <1>3, <2>1, <2>2 DEF Polling, Owned
<1>9. Polled' = [Polled EXCEPT ![lc] = qs]
  <2>1. \A d \in Lcores :
          Polled'[d] = IF d = lc THEN qs ELSE {RxOf(s) : s \in Polling(d)}
    BY <1>7, <1>8 DEF Polled
  <2> QED
    BY <2>1 DEF Polled
<1>10. \A s \in Polling(lc)' : RxOf(s) \in Ports \X (0 .. 7)
  <2> SUFFICES ASSUME NEW s \in Polling(lc)'
               PROVE  RxOf(s) \in Ports \X (0 .. 7)
    OBVIOUS
  <2>1. s \in CfgStreams
    <3>1. s \in Owned(captured'[lc])
      BY DEF Polling
    <3>2. wstate'[lc] = "RUNNING"
      BY <1>1, <1>2
    <3>3. /\ captured'[lc].stream_idx = fwd_lcores'[lc].stream_idx
          /\ captured'[lc].stream_nb = fwd_lcores'[lc].stream_nb
          /\ lc < cfg_lcores'
      BY <3>2 DEF CoresInv, CoreInv
    <3>4. Owned(captured'[lc]) = Owned(fwd_lcores'[lc])
      BY <3>3 DEF Owned
    <3>5. fwd_lcores' = fwd_lcores /\ cfg_lcores' = cfg_lcores
      BY <1>1 DEF config
    <3> QED
      BY <3>1, <3>3, <3>4, <3>5 DEF CoresInv, SharesInv
  <2>2. fwd_streams[s].rx_port \in FwdPorts
    <3>1. ConfigInUse
      BY <1>1 DEF ConfigInUse, AllLcoresWait
    <3> QED
      BY <2>1, <3>1 DEF CoresInv, PortsInv, StreamPorts
  <2>3. FwdPorts \subseteq Ports
    <3>1. /\ \A i \in 1 .. Len(fwd_ports_ids) : fwd_ports_ids[i] \in Ports
          /\ nb_fwd_ports \in 0 .. Len(fwd_ports_ids)
          /\ Len(fwd_ports_ids) \in Nat
      BY TypeParts, ElementOfSeq, LenProperties DEF InputsOK
    <3> QED
      BY <3>1 DEF FwdPorts
  <2>4. fwd_streams[s].rx_queue \in 0 .. 7
    BY <2>1 DEF ServiceInv, NumbersInv
  <2> QED
    BY <2>2, <2>3, <2>4 DEF RxOf
<1>11. qs \in SUBSET (Ports \X (0 .. 7))
  BY <1>10
<1>12. \A d \in Active : Polled[d] \cap qs = {}
  <2> SUFFICES ASSUME NEW d \in Active PROVE Polled[d] \cap qs = {}
    OBVIOUS
  <2>1. d \in Lcores /\ d # lc /\ Polled[d] = {RxOf(s) : s \in Polling(d)}
    BY <1>4 DEF Active, Polled
  <2>2. QueuesOwnedOnce'
    <3>1. TypeOK' /\ CoresInv' => QueuesOwnedOnce'
      BY CoresInvSuffices, PTL
    <3> QED
      BY <3>1
  <2>3. \A s \in Polling(d)', t \in Polling(lc)' : RxOf(s)' # RxOf(t)'
    BY <2>1, <2>2 DEF QueuesOwnedOnce
  <2>4. \A s \in Polling(d), t \in Polling(lc)' : RxOf(s) # RxOf(t)
    BY <1>7, <1>8, <2>1, <2>3
  <2> QED
    BY <2>1, <2>4
<1> HIDE DEF qs
<1>13. Serves
  BY <1>4, <1>5, <1>6, <1>9, <1>11, <1>12, ServeJoin
<1>14. NumbersInv'
  BY <1>1, <1>3 DEF ServiceInv, NumbersInv
<1>15. ToldInv'
  BY <1>1, <1>2 DEF ServiceInv, ToldInv
<1> QED
  BY <1>13, <1>14, <1>15 DEF ServiceInv

\* A core's part of the first burst is over, or it was told to stop.
LEMMA WorkerLeaveServes ==
  ASSUME TypeOK, CoresInv, ServiceInv, NEW lc \in Lcores, WorkerLeave(lc)
  PROVE  ServiceInv' /\ Serves
<1>1. /\ wstate' = [wstate EXCEPT ![lc] = "WAIT"]
      /\ UNCHANGED <<config, nb_rxq, stopped, test_done, main>>
      /\ \A other \in Lcores : other # lc => captured'[other] = captured[other]
  <2>1. captured \in [Lcores -> [stream_idx : Nat, stream_nb : Nat,
                                 eng : Engines \cup {"txonly", NoEngine}]]
    BY TypeParts DEF ControlOK
  <2> QED
    BY <2>1 DEF WorkerLeave, settings
<1>2. wstate \in [Lcores -> {"WAIT", "LAUNCHED", "RUNNING"}]
  BY TypeParts DEF ControlOK
<1>3. fwd_streams' = fwd_streams /\ CfgStreams' = CfgStreams
  BY <1>1 DEF config, CfgStreams
<1>4. wstate[lc] = "RUNNING" /\ (stopped[lc] \/ main = "first_wait") /\ Alive
  BY DEF WorkerLeave
<1>5. lc \in Active /\ Active' = Active \ {lc}
  BY <1>1, <1>2, <1>4 DEF Active
<1>6. Phase' = Phase
  BY <1>1 DEF Phase
<1>7. Phase \in {"starting", "stopping"}
  <2>1. stopped[lc] => main = "stopping"
    BY <1>4 DEF ServiceInv, ToldInv, Alive
  <2> QED
    BY <1>4, <2>1 DEF Phase
<1>8. \A d \in Lcores :
        Polled'[d] = IF d = lc THEN {} ELSE Polled[d]
  <2> SUFFICES ASSUME NEW d \in Lcores
               PROVE  Polled'[d] = IF d = lc THEN {} ELSE Polled[d]
    OBVIOUS
  <2>1. CASE d = lc
    <3>1. Polling(lc)' = {}
      BY <1>1, <1>2 DEF Polling
    <3> QED
      BY <2>1, <3>1 DEF Polled
  <2>2. CASE d # lc
    <3>1. wstate'[d] = wstate[d] /\ captured'[d] = captured[d]
      BY <1>1, <1>2, <2>2
    <3>2. Polling(d)' = Polling(d)
      BY <1>3, <3>1 DEF Polling, Owned
    <3>3. \A s : RxOf(s)' = RxOf(s)
      BY <1>3 DEF RxOf
    <3> QED
      BY <2>2, <3>2, <3>3 DEF Polled
  <2> QED
    BY <2>1, <2>2
<1>9. Polled' = [Polled EXCEPT ![lc] = {}]
  BY <1>8 DEF Polled
<1>10. Serves
  BY <1>5, <1>6, <1>7, <1>9, ServeLeave
<1>11. NumbersInv'
  BY <1>1, <1>3 DEF ServiceInv, NumbersInv
<1>12. ToldInv'
  BY <1>1, <1>2 DEF ServiceInv, ToldInv
<1> QED
  BY <1>10, <1>11, <1>12 DEF ServiceInv

LEMMA NextServes ==
  ASSUME TypeOK, TypeOK', PortListsConsistent, CoresInv, CoresInv', ServiceInv,
         ~CfgWhileRunning, FewQueues, [Next]_vars
  PROVE  ServiceInv' /\ Serves
<1>1. ASSUME UNCHANGED <<wstate, captured, fwd_streams, cfg_streams, nb_rxq,
                         stopped, test_done, main>>
      PROVE  ServiceInv' /\ Serves
  <2>1. Phase' = Phase
    BY <1>1 DEF Phase
  <2>2. Serves
    BY <1>1, <2>1, CoresStay, ServeStutter
  <2>3. ServiceInv'
    BY <1>1 DEF ServiceInv, ToldInv, NumbersInv, CfgStreams
  <2> QED
    BY <2>2, <2>3
<1>2. CASE Configure
  <2>1. ASSUME NEW e \in Engines, SetFwdMode(e)
        PROVE  ServiceInv' /\ Serves
    BY <1>1, <2>1 DEF SetFwdMode, config, workerVars
  <2> QED
    BY <1>2, <2>1, ConfigureServes DEF Configure
<1>3. CASE \E with_tx_first \in BOOLEAN : Start(with_tx_first)
  BY <1>3, ConfigureServes
<1>4. CASE PortStep
  <2>1. PICK p \in Ports : \/ StartPort(p) \/ StopPort(p) \/ ClosePort(p)
                          \/ CloseRefused(p) \/ DetachPort(p) \/ AttachPort(p)
    BY <1>4 DEF PortStep
  <2>2. PortCommand
    BY <2>1 DEF StartPort, StopPort, ClosePort, CloseRefused, DetachPort,
       AttachPort
  <2> QED
    BY <1>1, <2>2 DEF PortCommand, config, settings, workerVars
<1>5. CASE StartExits \/ BeginEngines \/ BeginExits \/ BurstDone \/ Stop
           \/ StopDone
  BY <1>5, MainServes
<1>6. CASE LaunchBurst \/ Launch
  BY <1>6, LaunchServes
<1>7. ASSUME NEW lc \in Lcores, WorkerBegin(lc) \/ WorkerLeave(lc)
      PROVE  ServiceInv' /\ Serves
  BY <1>7, WorkerBeginServes, WorkerLeaveServes
<1>8. CASE UNCHANGED vars
  BY <1>1, <1>8 DEF vars, config, settings, workerVars
<1> QED
  BY <1>2, <1>3, <1>4, <1>5, <1>6, <1>7, <1>8 DEF Next, MainStep

(* Every behaviour of the commands and the cores is one of the forwarding  *)
(* the operator sees, liveness left out: a core joins only during a start  *)
(* or a test and with queues of its own, leaves only when its burst is     *)
(* over or a stop told it to, and no command changes what a core polls.    *)
THEOREM ServiceImplemented ==
  ASSUME ~CfgWhileRunning, FewQueues
  PROVE  Spec => ImplementsSteps
<1> DEFINE Inv == TypeOK /\ PortListsConsistent /\ CoresInv /\ ServiceInv
<1>1. Init => Inv /\ Service!Init
  BY InitType, InitPortLists, InitCores, InitService
<1>2. Inv /\ [Next]_vars => Inv' /\ [Service!Next]_(Service!vars)
  <2> SUFFICES ASSUME Inv, [Next]_vars
               PROVE  Inv' /\ [Service!Next]_(Service!vars)
    OBVIOUS
  <2>1. TypeOK' /\ PortListsConsistent' /\ CoresInv'
    BY NextType, NextPortLists, NextCores
  <2>2. ServiceInv' /\ Serves
    BY <2>1, NextServes
  <2> QED
    BY <2>1, <2>2 DEF Serves
<1> HIDE DEF Inv
<1> QED
  BY <1>1, <1>2, PTL DEF Spec, ImplementsSteps

-----------------------------------------------------------------------------
(***************************************************************************)
(* The contexts of the engines, when the operator does not reconfigure a   *)
(* running test and no engine refuses to begin; and the settings with      *)
(* which fwd_config_setup stays within its arrays.  For every number of    *)
(* ports, cores and queues, and every engine.                              *)
(***************************************************************************)

(* The inductive invariant of the contexts.                                *)

(* From the start to the last core's return, and while a context is there. *)
InTest ==
  \/ main \in {"begin", "begin_first", "launch", "first", "first_wait"}
  \/ ~AllLcoresWait
  \/ contexts # {}

(* The configured ports are the first of those that forward now, and are   *)
(* started: this is what keeps CfgPorts the same from begin to end.        *)
CtxPorts ==
  InTest => /\ cfg_ports <= nb_fwd_ports
            /\ \A p \in CfgPorts : port_status[p] = "STARTED"

CtxStreams ==
  InTest => \A s \in CfgStreams : fwd_streams[s].rx_port \in CfgPorts

CtxSets ==
  /\ test_done => contexts = {}
  /\ contexts \subseteq CfgContexts
  /\ main \in {"launch", "first", "first_wait"} \/ ~AllLcoresWait
       => contexts = CfgContexts

CtxEngines ==
  \A lc \in Lcores : wstate[lc] = "RUNNING" =>
    captured[lc].eng \in {"txonly", cfg_eng}

CtxInv == CtxPorts /\ CtxStreams /\ CtxSets /\ CtxEngines

-----------------------------------------------------------------------------
(* The steps.                                                              *)

\* A step after which nothing is in a test keeps the invariant.
LEMMA OutOfTest ==
  ASSUME ~InTest'
  PROVE  CtxInv'
  BY DEF InTest, AllLcoresWait, CtxInv, CtxPorts, CtxStreams, CtxSets,
     CtxEngines

LEMMA InitContexts == Init => CtxInv
<1> SUFFICES ASSUME Init
             PROVE  CtxInv
  OBVIOUS
<1>1. AllLcoresWait /\ contexts = {} /\ main = "command"
  BY DEF Init, AllLcoresWait
<1> QED
  BY <1>1 DEF InTest, AllLcoresWait, CtxInv, CtxPorts, CtxStreams, CtxSets,
     CtxEngines

\* What is not in a test has its contexts ended.
LEMMA NotInTest ==
  ASSUME TypeOK, CoresInv, CtxInv, main = "command",
         test_done \/ ~InTest
  PROVE  AllLcoresWait /\ contexts = {}
  BY DEF CoresInv, MainInv, CtxInv, CtxSets, InTest

\* The ports of the configuration are among those that forward.
LEMMA CfgPortsForward ==
  ASSUME TypeOK, cfg_ports <= nb_fwd_ports
  PROVE  /\ CfgPorts = {fwd_ports_ids[i] : i \in 1 .. cfg_ports}
         /\ CfgPorts \subseteq FwdPorts
         /\ CfgPorts \subseteq Ports
<1>1. /\ fwd_ports_ids \in Seq(Ports) /\ nb_fwd_ports \in 0 .. Len(fwd_ports_ids)
      /\ cfg_ports \in Nat
  BY TypeParts DEF InputsOK, ConfigOK
<1>2. /\ Len(fwd_ports_ids) \in Nat
      /\ \A i \in 1 .. Len(fwd_ports_ids) : fwd_ports_ids[i] \in Ports
  BY <1>1, LenProperties, ElementOfSeq
<1>3. Least(cfg_ports, nb_cfg_ports) = cfg_ports
  BY <1>1, <1>2 DEF Least, nb_cfg_ports
<1> QED
  BY <1>1, <1>2, <1>3 DEF CfgPorts, FwdPorts

LEMMA CfgPortsForwardPrimed ==
  ASSUME InputsOK', cfg_ports' \in Nat, cfg_ports' <= nb_fwd_ports'
  PROVE  CfgPorts' = {fwd_ports_ids'[i] : i \in 1 .. cfg_ports'}
<1>1. nb_fwd_ports' \in 0 .. Len(fwd_ports_ids') /\ Len(fwd_ports_ids') \in Nat
  BY LenProperties DEF InputsOK
<1>2. Least(cfg_ports', nb_cfg_ports') = cfg_ports'
  BY <1>1 DEF Least, nb_cfg_ports
<1> QED
  BY <1>2 DEF CfgPorts

\* fwd_config_setup, while the cores are at rest and no context is there.
LEMMA SetupContexts ==
  ASSUME TypeOK, SetupAction, InputsOK', AllLcoresWait, contexts = {},
         main' \in {"begin", "begin_first"} =>
           \A p \in FwdPorts' : port_status'[p] = "STARTED"
  PROVE  CtxInv'
<1>1. PICK next \in {"command", "begin", "begin_first"} : SetupForwarding(next)
  BY DEF SetupAction
<1>2. AllLcoresWait' /\ contexts' = {}
  BY DEF SetupAction, workerVars, AllLcoresWait
<1>3. CASE main' \notin {"begin", "begin_first"}
  <2>1. main' \in {"command", "undefined"}
    BY <1>1, <1>3 DEF SetupForwarding
  <2>2. ~InTest'
    BY <1>2, <2>1 DEF InTest
  <2> QED
    BY <2>2, OutOfTest
<1>4. CASE main' \in {"begin", "begin_first"}
  <2>1. ~SetupUndefined /\ ConfigComputed
    BY <1>1, <1>4 DEF SetupForwarding
  <2>2. /\ cfg_ports' = nb_fwd_ports' /\ cfg_streams' = NewStreams
        /\ nb_fwd_ports' \in 0 .. Len(fwd_ports_ids')
        /\ Len(fwd_ports_ids') \in Nat
    BY <2>1, LenProperties DEF ConfigComputed, InputsOK
  <2>3. CfgPorts' = {fwd_ports_ids'[i] : i \in 1 .. nb_fwd_ports'}
    BY <2>2, CfgPortsForwardPrimed
  <2>4. CfgPorts' = FwdPorts'
    BY <2>3 DEF FwdPorts
  <2>5. CtxPorts'
    BY <1>4, <2>2, <2>4 DEF CtxPorts
  <2>6. CtxStreams'
    <3> SUFFICES ASSUME NEW s \in 0 .. NewStreams - 1
                 PROVE  fwd_streams'[s].rx_port \in CfgPorts'
      BY <2>2 DEF CtxStreams, CfgStreams
    <3> DEFINE st == StreamAt(NewKind, s, Topology, nb_fwd_ports', nb_rxq',
                              nb_txq', 1, 0)
    <3>1. nb_fwd_streams \in Nat
      BY TypeParts DEF ConfigOK
    <3>2. fwd_streams'[s] = PortStream(s)
      BY <2>1, <3>1, SetupStream
    <3>3. /\ st.rx_port \in 0 .. nb_fwd_ports' - 1
          /\ PortStream(s).rx_port = fwd_ports_ids'[st.rx_port + 1]
      BY PortStreamValue
    <3> HIDE DEF st
    <3>4. st.rx_port + 1 \in 1 .. nb_fwd_ports'
      BY <2>2, <3>3
    <3> QED
      BY <2>3, <3>2, <3>3, <3>4
  <2>7. CtxSets'
    BY <1>2, <1>4 DEF CtxSets
  <2>8. CtxEngines'
    BY <1>2 DEF CtxEngines, AllLcoresWait
  <2> QED
    BY <2>5, <2>6, <2>7, <2>8 DEF CtxInv
<1> QED
  BY <1>3, <1>4

LEMMA ConfigureContexts ==
  ASSUME TypeOK, PortListsConsistent, CoresInv, CtxInv, ~CfgWhileRunning,
         \/ \E n \in 0 .. NbEthPorts : SetNbPort(n)
         \/ \E n \in NbCoreValues : SetNbCore(n)
         \/ \E n \in 1 .. NbLcores : SetCoreList(n)
         \/ \E list \in PortLists : SetPortList(list)
         \/ SetEthPeer
         \/ \E n \in QueueCounts : ConfigQueues(n)
         \/ \E with_tx_first \in BOOLEAN : Start(with_tx_first)
  PROVE  CtxInv'
<1>1. SetupAction /\ InputsOK' /\ main = "command"
  BY ConfigureInputs DEF SetupAction
<1>2. ASSUME contexts # {}
      PROVE  \E p \in Valid : port_status[p] = "STARTED"
  <2>1. PICK c \in contexts : c \in CfgContexts
    BY <1>2 DEF CtxInv, CtxSets
  <2>2. PICK p \in CfgPorts : TRUE
    BY <2>1 DEF CfgContexts
  <2>3. InTest
    BY <1>2 DEF InTest
  <2>4. port_status[p] = "STARTED" /\ p \in Ports
    BY <2>2, <2>3, CfgPortsForward DEF CtxInv, CtxPorts
  <2> QED
    BY <2>4 DEF Valid
<1>3. FwdPorts \subseteq Valid
  <2>1. /\ fwd_ports_ids \in Seq(Ports)
        /\ nb_fwd_ports \in 0 .. Len(fwd_ports_ids)
    BY TypeParts DEF InputsOK
  <2>2. DOMAIN fwd_ports_ids = 1 .. Len(fwd_ports_ids) /\ Len(fwd_ports_ids) \in Nat
    BY <2>1, LenProperties
  <2>3. FwdPorts \subseteq Listed(fwd_ports_ids)
    BY <2>1, <2>2 DEF FwdPorts, Listed
  <2> QED
    BY <2>3 DEF PortListsConsistent
<1>4. AllLcoresWait /\ contexts = {}
  <2>1. CASE test_done
    BY <1>1, <2>1, NotInTest
  <2>2. CASE \E n \in QueueCounts : ConfigQueues(n)
    <3>1. \A p \in Valid : port_status[p] = "STOPPED"
      BY <2>2 DEF ConfigQueues, AllPortsStopped
    <3>2. contexts = {}
      BY <1>2, <3>1
    <3>3. \A p \in FwdPorts : port_status[p] # "STARTED"
      BY <1>3, <3>1
    <3> QED
      BY <1>1, <3>2, <3>3, CoresAtRest
  <2> QED
    BY <2>1, <2>2 DEF SetNbPort, SetNbCore, SetCoreList, SetPortList,
       SetEthPeer, Start, OperatorMayConfigure
<1>5. main' \in {"begin", "begin_first"} =>
        \A p \in FwdPorts' : port_status'[p] = "STARTED"
  <2> SUFFICES ASSUME main' \in {"begin", "begin_first"}
               PROVE  \A p \in FwdPorts' : port_status'[p] = "STARTED"
    OBVIOUS
  <2>1. \E with_tx_first \in BOOLEAN : Start(with_tx_first)
    BY DEF SetNbPort, SetNbCore, SetCoreList, SetPortList, SetEthPeer,
       ConfigQueues, SetupForwarding
  <2>2. AllPortsStarted /\ UNCHANGED portVars
    BY <2>1 DEF Start
  <2> QED
    BY <1>3, <2>2 DEF AllPortsStarted, portVars, FwdPorts
<1> QED
  BY <1>1, <1>4, <1>5, SetupContexts

\* A step that leaves the cores and the contexts alone, and the configured
\* ports where they are and started, keeps the invariant.
LEMMA SamePorts ==
  ASSUME TypeOK, TypeOK', CtxInv, InTest,
         UNCHANGED <<config, test_done, contexts, main, wstate, captured>>,
         cfg_ports <= nb_fwd_ports',
         \A i \in 1 .. cfg_ports : fwd_ports_ids'[i] = fwd_ports_ids[i],
         \A p \in CfgPorts : port_status'[p] = port_status[p]
  PROVE  CtxInv'
<1>1. /\ cfg_ports <= nb_fwd_ports
      /\ \A p \in CfgPorts : port_status[p] = "STARTED"
  BY DEF CtxInv, CtxPorts
<1>2. cfg_ports' = cfg_ports /\ cfg_ports \in Nat /\ InputsOK'
  BY TypeParts, TypePartsPrimed DEF config, ConfigOK
<1>3. CfgPorts = {fwd_ports_ids[i] : i \in 1 .. cfg_ports}
  BY <1>1, CfgPortsForward
<1>4. CfgPorts' = {fwd_ports_ids'[i] : i \in 1 .. cfg_ports'}
  BY <1>2, CfgPortsForwardPrimed
<1>5. CfgPorts' = CfgPorts
  BY <1>2, <1>3, <1>4
<1>6. CfgContexts' = CfgContexts /\ AllLcoresWait' = AllLcoresWait
  BY <1>5 DEF CfgContexts, config, AllLcoresWait
<1>7. CtxPorts'
  BY <1>1, <1>2, <1>5 DEF CtxPorts
<1>8. CtxStreams'
  BY <1>5 DEF CtxInv, CtxStreams, CfgStreams, config
<1>9. CtxSets' /\ CtxEngines'
  BY <1>6 DEF CtxInv, CtxSets, CtxEngines, config
<1> QED
  BY <1>7, <1>8, <1>9 DEF CtxInv

\* A port that does not forward in the configuration leaves its part of the
\* list of ports as it is.
LEMMA WithoutKeepsFront ==
  ASSUME NEW list \in Seq(Ports), NEW p \in Ports, NEW n \in 0 .. Len(list),
         \A i \in 1 .. n : list[i] # p
  PROVE  /\ n <= Len(Without(list, p))
         /\ \A i \in 1 .. n : Without(list, p)[i] = list[i]
<1>1. Len(list) \in Nat
  BY LenProperties
<1>2. CASE \E i \in 1 .. Len(list) : list[i] = p
  <2> DEFINE k == IndexOf(list, p)
             shorter == [j \in 1 .. Len(list) - 1 |->
                           IF j < k THEN list[j] ELSE list[j + 1]]
  <2>1. k \in 1 .. Len(list) /\ list[k] = p
    BY <1>2 DEF IndexOf
  <2>2. Without(list, p) = shorter
    BY <1>2 DEF Without
  <2> HIDE DEF k
  <2>3. n < k
    BY <1>1, <2>1
  <2>4. shorter \in Seq(Ports)
    BY <2>2, WithoutType
  <2>5. Len(shorter) = Len(list) - 1
    <3>1. DOMAIN shorter = 1 .. Len(list) - 1 /\ Len(list) - 1 \in Nat
      BY <1>1, <2>1
    <3> HIDE DEF shorter
    <3> QED
      BY <2>4, <3>1, LenProperties
  <2>6. \A i \in 1 .. n : shorter[i] = list[i]
    BY <1>1, <2>1, <2>3
  <2> HIDE DEF shorter
  <2> QED
    BY <1>1, <2>1, <2>2, <2>3, <2>5, <2>6
<1>3. CASE ~ \E i \in 1 .. Len(list) : list[i] = p
  BY <1>1, <1>3 DEF Without
<1> QED
  BY <1>2, <1>3

\* A command on a port leaves those of the configuration where they are.
LEMMA PortStepContexts ==
  ASSUME TypeOK, TypeOK', PortListsConsistent, CoresInv, CtxInv, PortStep
  PROVE  CtxInv'
<1>1. PICK p \in Ports : \/ StartPort(p) \/ StopPort(p) \/ ClosePort(p)
                        \/ CloseRefused(p) \/ DetachPort(p) \/ AttachPort(p)
  BY DEF PortStep
<1>2. /\ main = "command"
      /\ UNCHANGED <<config, test_done, contexts, main, wstate, captured>>
  BY <1>1 DEF StartPort, StopPort, ClosePort, CloseRefused, DetachPort,
     AttachPort, PortCommand, workerVars
<1>3. /\ port_status \in [Ports -> {"STOPPED", "STARTED", "HANDLING", "CLOSED"}]
      /\ fwd_ports_ids \in Seq(Ports) /\ nb_fwd_ports \in 0 .. Len(fwd_ports_ids)
      /\ Len(fwd_ports_ids) \in Nat /\ cfg_ports \in Nat
  BY TypeParts, LenProperties DEF InputsOK, ConfigOK
<1>4. CASE ~InTest
  <2>1. ~InTest'
    BY <1>2, <1>4 DEF InTest, AllLcoresWait
  <2> QED
    BY <2>1, OutOfTest
<1>5. CASE InTest
  <2>1. /\ cfg_ports <= nb_fwd_ports
        /\ \A q \in CfgPorts : port_status[q] = "STARTED"
    BY <1>5 DEF CtxInv, CtxPorts
  <2>2. /\ CfgPorts = {fwd_ports_ids[i] : i \in 1 .. cfg_ports}
        /\ CfgPorts \subseteq FwdPorts /\ CfgPorts \subseteq Ports
    BY <2>1, CfgPortsForward
  <2>3. ~test_done
    BY <1>2, <1>5 DEF InTest, CoresInv, MainInv, CtxInv, CtxSets
  <2> DEFINE front == SubSeq(fwd_ports_ids, 1, nb_fwd_ports)
  <2>4. /\ front \in Seq(Ports) /\ Len(front) = nb_fwd_ports
        /\ \A i \in 1 .. nb_fwd_ports : front[i] = fwd_ports_ids[i]
    BY <1>3, PrefixType
  <2> HIDE DEF front
  <2>5. cfg_ports \in 0 .. Len(front)
    BY <1>3, <2>1, <2>4
  <2>6. CASE StartPort(p) \/ StopPort(p)
    <3>1. /\ UNCHANGED <<fwd_ports_ids, nb_fwd_ports>>
          /\ \A q \in Ports : q # p => port_status'[q] = port_status[q]
          /\ port_status[p] = "STOPPED" \/ p \notin FwdPorts
      BY <1>3, <2>3, <2>6 DEF StartPort, StopPort, IsForwarding
    <3>2. p \notin CfgPorts
      BY <2>1, <2>2, <3>1
    <3> QED
      BY <1>2, <1>5, <2>1, <2>2, <3>1, <3>2, SamePorts
  <2>7. CASE ClosePort(p) \/ DetachPort(p)
    <3>1. /\ port_status[p] = "STOPPED" \/ p \notin FwdPorts
          /\ port_status' = [port_status EXCEPT ![p] = "CLOSED"]
          /\ fwd_ports_ids' = Without(front, p)
          /\ nb_fwd_ports' = Len(fwd_ports_ids')
      BY <2>3, <2>7 DEF ClosePort, DetachPort, RemoveInvalidPorts,
         IsForwarding, front
    <3>2. p \notin CfgPorts
      BY <2>1, <2>2, <3>1
    <3>3. \A i \in 1 .. cfg_ports : front[i] # p
      BY <1>3, <2>1, <2>2, <2>4, <3>2
    <3>4. /\ cfg_ports <= Len(Without(front, p))
          /\ \A i \in 1 .. cfg_ports : Without(front, p)[i] = front[i]
      BY <2>4, <2>5, <3>3, WithoutKeepsFront
    <3>5. /\ cfg_ports <= nb_fwd_ports'
          /\ \A i \in 1 .. cfg_ports : fwd_ports_ids'[i] = fwd_ports_ids[i]
      BY <1>3, <2>1, <2>4, <3>1, <3>4
    <3>6. \A q \in CfgPorts : port_status'[q] = port_status[q]
      BY <1>3, <2>2, <3>1, <3>2
    <3> QED
      BY <1>2, <1>5, <3>5, <3>6, SamePorts
  <2>8. CASE CloseRefused(p)
    <3>1. fwd_ports_ids' = front /\ UNCHANGED <<port_status, nb_fwd_ports>>
      BY <2>8 DEF CloseRefused, front
    <3>2. \A i \in 1 .. cfg_ports : fwd_ports_ids'[i] = fwd_ports_ids[i]
      BY <1>3, <2>1, <2>4, <3>1
    <3> QED
      BY <1>2, <1>5, <2>1, <3>1, <3>2, SamePorts
  <2>9. CASE AttachPort(p)
    <3>1. /\ fwd_ports_ids' = Append(front, p)
          /\ nb_fwd_ports' = nb_fwd_ports + 1
          /\ port_status[p] = "CLOSED"
          /\ port_status' = [port_status EXCEPT ![p] = "STOPPED"]
      BY <2>9 DEF AttachPort, front
    <3>2. \A i \in 1 .. nb_fwd_ports : Append(front, p)[i] = front[i]
      BY <2>4
    <3>3. /\ cfg_ports <= nb_fwd_ports'
          /\ \A i \in 1 .. cfg_ports : fwd_ports_ids'[i] = fwd_ports_ids[i]
      BY <1>3, <2>1, <2>4, <3>1, <3>2
    <3>4. \A q \in CfgPorts : port_status'[q] = port_status[q]
      BY <1>3, <2>1, <2>2, <3>1
    <3> QED
      BY <1>2, <1>5, <3>3, <3>4, SamePorts
  <2> QED
    BY <1>1, <2>6, <2>7, <2>8, <2>9
<1> QED
  BY <1>4, <1>5

LEMMA NextContexts ==
  ASSUME TypeOK, TypeOK', PortListsConsistent, CoresInv, CtxInv,
         ~CfgWhileRunning, ~BeginMayFail, [Next]_vars
  PROVE  CtxInv'
<1>1. /\ wstate \in [Lcores -> {"WAIT", "LAUNCHED", "RUNNING"}]
      /\ captured \in [Lcores -> [stream_idx : Nat, stream_nb : Nat,
                                  eng : Engines \cup {"txonly", NoEngine}]]
  BY TypeParts DEF ControlOK
<1>2. /\ InTest => /\ cfg_ports <= nb_fwd_ports
                   /\ \A p \in CfgPorts : port_status[p] = "STARTED"
                   /\ \A s \in CfgStreams : fwd_streams[s].rx_port \in CfgPorts
      /\ CtxSets /\ CtxEngines
  BY DEF CtxInv, CtxPorts, CtxStreams
\* What the configuration and the settings determine stays.
<1>3. ASSUME UNCHANGED <<portVars, config>>
      PROVE  /\ CfgPorts' = CfgPorts /\ CfgContexts' = CfgContexts
             /\ CfgStreams' = CfgStreams
             /\ (InTest' => InTest) => CtxPorts' /\ CtxStreams'
  <2>1. CfgPorts' = CfgPorts
    BY <1>3 DEF CfgPorts, nb_cfg_ports, portVars, config
  <2>2. CfgContexts' = CfgContexts /\ CfgStreams' = CfgStreams
    BY <1>3, <2>1 DEF CfgContexts, CfgStreams, config
  <2> QED
    BY <1>2, <1>3, <2>1, <2>2 DEF CtxPorts, CtxStreams, portVars, config
<1>4. CASE \E e \in Engines : SetFwdMode(e)
  <2>1. UNCHANGED <<portVars, config, test_done, contexts, main, wstate, captured>>
    BY <1>4 DEF SetFwdMode, workerVars
  <2>2. InTest' = InTest /\ CtxSets' /\ CtxEngines'
    BY <1>2, <1>3, <2>1 DEF InTest, AllLcoresWait, CtxSets, CtxEngines, config
  <2> QED
    BY <1>3, <2>1, <2>2 DEF CtxInv
<1>5. CASE PortStep
  BY <1>5, PortStepContexts
<1>6. CASE StartExits \/ BeginExits \/ BurstDone \/ Stop
  <2>1. UNCHANGED <<portVars, config, test_done, contexts, wstate, captured>>
    BY <1>6 DEF StartExits, BeginExits, BurstDone, Stop, workerVars
  <2>2. /\ main' \in {"exited", "launch", "stopping"}
        /\ main' = "launch" => main = "first_wait"
    BY <1>6 DEF StartExits, BeginExits, BurstDone, Stop
  <2>3. InTest' => InTest
    BY <2>1, <2>2 DEF InTest, AllLcoresWait
  <2>4. CtxSets' /\ CtxEngines'
    BY <1>2, <1>3, <2>1, <2>2 DEF AllLcoresWait, CtxSets, CtxEngines, config
  <2> QED
    BY <1>3, <2>1, <2>3, <2>4 DEF CtxInv
<1>7. CASE BeginEngines
  <2>1. /\ main \in {"begin", "begin_first"} /\ main' \in {"first", "launch"}
        /\ contexts' = contexts \cup CfgContexts /\ ~test_done'
        /\ UNCHANGED <<portVars, config, wstate, captured>>
    BY <1>7 DEF BeginEngines, workerVars
  <2>2. InTest /\ test_done /\ contexts = {}
    BY <1>2, <2>1 DEF InTest, CoresInv, MainInv, CtxSets
  <2>3. CtxSets' /\ CtxEngines'
    BY <1>2, <1>3, <2>1, <2>2 DEF CtxSets, CtxEngines, config
  <2> QED
    BY <1>3, <2>1, <2>2, <2>3 DEF CtxInv
<1>8. CASE LaunchBurst \/ Launch
  <2>1. /\ main \in {"first", "launch"} /\ main' \in {"first_wait", "command"}
        /\ UNCHANGED <<portVars, config, test_done, contexts, captured>>
        /\ wstate' = [lc \in Lcores |->
             IF lc < cfg_lcores /\ wstate[lc] = "WAIT" THEN "LAUNCHED"
             ELSE wstate[lc]]
    BY <1>8 DEF LaunchBurst, Launch, LaunchOn
  <2>2. InTest /\ contexts = CfgContexts
    BY <1>2, <2>1 DEF InTest, CtxSets
  <2>3. CtxSets' /\ CtxEngines'
    BY <1>1, <1>2, <1>3, <2>1, <2>2 DEF CtxSets, CtxEngines, config
  <2> QED
    BY <1>3, <2>1, <2>2, <2>3 DEF CtxInv
<1>9. CASE StopDone
  <2>1. /\ AllLcoresWait /\ main' = "command"
        /\ contexts' = contexts \ CfgContexts /\ wstate' = wstate
    BY <1>9 DEF StopDone, workerVars
  <2>2. contexts' = {}
    BY <1>2, <2>1 DEF CtxSets
  <2>3. ~InTest'
    BY <2>1, <2>2 DEF InTest, AllLcoresWait
  <2> QED
    BY <2>3, OutOfTest
<1>10. CASE \E lc \in Lcores : WorkerBegin(lc) \/ WorkerLeave(lc)
  <2>1. PICK lc \in Lcores : WorkerBegin(lc) \/ WorkerLeave(lc)
    BY <1>10
  <2>2. /\ wstate[lc] # "WAIT"
        /\ UNCHANGED <<portVars, config, test_done, contexts, main>>
    BY <2>1 DEF WorkerBegin, WorkerLeave
  <2>3. InTest /\ contexts = CfgContexts
    BY <1>2, <2>2 DEF InTest, AllLcoresWait, CtxSets
  <2>4. CtxSets'
    BY <1>2, <1>3, <2>2, <2>3 DEF CtxSets
  <2>5. CtxEngines'
    <3>1. CASE WorkerBegin(lc)
      <4>1. /\ wstate' = [wstate EXCEPT ![lc] = "RUNNING"]
            /\ captured' = [captured EXCEPT ![lc] =
                 [stream_idx |-> fwd_lcores[lc].stream_idx,
                  stream_nb  |-> fwd_lcores[lc].stream_nb,
                  eng        |-> IF main = "first_wait" THEN "txonly"
                                 ELSE cfg_eng]]
        BY <3>1 DEF WorkerBegin
      <4>2. captured'[lc].eng \in {"txonly", cfg_eng}
        BY <1>1, <4>1
      <4>3. \A other \in Lcores : other # lc =>
              /\ captured'[other] = captured[other]
              /\ wstate'[other] = wstate[other]
        BY <1>1, <4>1
      <4> QED
        BY <1>2, <2>2, <4>2, <4>3 DEF CtxEngines, config
    <3>2. CASE WorkerLeave(lc)
      <4>1. /\ wstate'[lc] = "WAIT"
            /\ \A other \in Lcores : other # lc =>
                 /\ captured'[other] = captured[other]
                 /\ wstate'[other] = wstate[other]
        BY <1>1, <3>2 DEF WorkerLeave
      <4> QED
        BY <1>2, <2>2, <4>1 DEF CtxEngines, config
    <3> QED
      BY <2>1, <3>1, <3>2
  <2> QED
    BY <1>3, <2>2, <2>3, <2>4, <2>5 DEF CtxInv
<1>11. CASE UNCHANGED vars
  <2>1. UNCHANGED <<portVars, config, test_done, contexts, main, wstate, captured>>
    BY <1>11 DEF vars, workerVars
  <2>2. InTest' = InTest /\ CtxSets' /\ CtxEngines'
    BY <1>2, <1>3, <2>1 DEF InTest, AllLcoresWait, CtxSets, CtxEngines, config
  <2> QED
    BY <1>3, <2>1, <2>2 DEF CtxInv
<1> QED
  BY <1>4, <1>5, <1>6, <1>7, <1>8, <1>9, <1>10, <1>11, ConfigureContexts
     DEF Next, Configure, MainStep

LEMMA ContextsSuffice ==
  ASSUME TypeOK, CoresInv, CtxInv
  PROVE  ContextsMatch
<1>1. ContextsBalanced
  BY DEF ContextsBalanced, CtxInv, CtxSets
<1>2. ContextsReady
  <2> SUFFICES ASSUME NEW lc \in Lcores, wstate[lc] = "RUNNING",
                      captured[lc].eng \in PairedEngines,
                      NEW s \in Polling(lc)
               PROVE  <<captured[lc].eng, fwd_streams[s].rx_port>> \in contexts
    BY DEF ContextsReady
  <2>1. captured[lc].eng = cfg_eng
    BY DEF CtxInv, CtxEngines, PairedEngines
  <2>2. InTest /\ contexts = CfgContexts
    BY DEF InTest, AllLcoresWait, CtxInv, CtxSets
  <2>3. fwd_streams[s].rx_port \in CfgPorts
    BY <2>2, PollingInCfg DEF CtxInv, CtxStreams
  <2> QED
    BY <2>1, <2>2, <2>3 DEF CfgContexts
<1> QED
  BY <1>1, <1>2 DEF ContextsMatch

(* Every context that port_fwd_begin makes is ended before the prompt has  *)
(* forwarding stopped again, whatever engine is chosen meanwhile, and no   *)
(* core runs an engine on a port without one, whatever is attached or      *)
(* detached during the test.                                               *)
THEOREM ContextsCorrect ==
  ASSUME ~CfgWhileRunning, ~BeginMayFail
  PROVE  Spec => []ContextsMatch
<1> DEFINE Inv == TypeOK /\ PortListsConsistent /\ CoresInv /\ CtxInv
<1>1. Init => Inv
  BY InitType, InitPortLists, InitCores, InitContexts
<1>2. Inv /\ [Next]_vars => Inv'
  BY NextType, NextPortLists, NextCores, NextContexts
<1>3. Inv => ContextsMatch
  BY ContextsSuffice
<1> QED
  BY <1>1, <1>2, <1>3, PTL DEF Spec

-----------------------------------------------------------------------------
(* fwd_config_setup within its arrays.                                     *)

\* The operator asks for no core and no queue count of zero, and the
\* devices have equally many queues.
SettingsWork ==
  /\ 0 \notin NbCoreValues /\ 0 \notin QueueCounts
  /\ \A p, q \in Ports : MaxQueues[p] = MaxQueues[q]

SettingsInv ==
  /\ main # "undefined"
  /\ nb_fwd_lcores >= 1 /\ nb_rxq >= 1 /\ nb_txq >= 1
  /\ \A p \in Ports : nb_rxq <= MaxQueues[p] /\ nb_txq <= MaxQueues[p]

\* A list of ports without repetition is no longer than one that lists more.
LEMMA ShorterList ==
  ASSUME NEW a \in Seq(Ports), NEW b \in Seq(Ports), NoRepeat(a),
         Listed(a) \subseteq Listed(b)
  PROVE  Len(a) <= Len(b)
<1>1. /\ Len(a) \in Nat /\ DOMAIN a = 1 .. Len(a)
      /\ Len(b) \in Nat /\ DOMAIN b = 1 .. Len(b)
  BY LenProperties
<1>2. /\ IsFiniteSet(1 .. Len(a)) /\ Cardinality(1 .. Len(a)) = Len(a)
      /\ IsFiniteSet(1 .. Len(b)) /\ Cardinality(1 .. Len(b)) = Len(b)
  <2>1. ASSUME NEW m \in Nat
        PROVE  IsFiniteSet(1 .. m) /\ Cardinality(1 .. m) = m
    <3>1. /\ IsFiniteSet(1 .. m)
          /\ Cardinality(1 .. m) = IF 1 > m THEN 0 ELSE m - 1 + 1
      BY FS_Interval
    <3> QED
      BY <3>1
  <2> QED
    BY <1>1, <2>1
<1>3. \A i \in 1 .. Len(a) : \E j \in 1 .. Len(b) : b[j] = a[i]
  BY <1>1 DEF Listed
<1> DEFINE place == [i \in 1 .. Len(a) |->
                       CHOOSE j \in 1 .. Len(b) : b[j] = a[i]]
<1>4. \A i \in 1 .. Len(a) : place[i] \in 1 .. Len(b) /\ b[place[i]] = a[i]
  BY <1>3
<1>5. place \in [1 .. Len(a) -> 1 .. Len(b)]
  BY <1>4
<1> HIDE DEF place
<1>6. ASSUME Len(b) < Len(a)
      PROVE  FALSE
  <2>1. \E i, j \in 1 .. Len(a) : i # j /\ place[i] = place[j]
    BY <1>2, <1>5, <1>6, FS_PigeonHole
  <2>2. PICK i \in 1 .. Len(a), j \in 1 .. Len(a) : i # j /\ place[i] = place[j]
    BY <2>1
  <2>3. a[i] = a[j]
    BY <1>4, <2>2
  <2> QED
    BY <1>1, <2>2, <2>3 DEF NoRepeat
<1> QED
  BY <1>1, <1>6

\* More ports and more queues make no fewer streams.
LEMMA ProductsGrow ==
  ASSUME NEW a \in Nat, NEW b \in Nat, NEW c \in Nat, NEW d \in Nat,
         a <= b, c <= d
  PROVE  a * c \in Nat /\ a * c <= b * d
<1>1. a * c <= b * c
  BY MulMonotone
<1>2. c * b <= d * b
  BY MulMonotone
<1> QED
  BY <1>1, <1>2

\* The set-up with working settings divides by no zero and finds every
\* stream allocated.
LEMMA SetupDefined ==
  ASSUME InputsOK', PortListsConsistent',
         nb_fwd_lcores' >= 1, nb_rxq' >= 1, nb_txq' >= 1,
         \A p \in Ports : nb_rxq' <= MaxQueues[p] /\ nb_txq' <= MaxQueues[p]
  PROVE  ~SetupUndefined
<1> DEFINE n == nb_fwd_ports'
           rxqs == nb_rxq'
           txqs == nb_txq'
           most == Greatest(rxqs, txqs)
<1>1. /\ rxqs \in Nat \ {0} /\ txqs \in Nat \ {0} /\ nb_fwd_lcores' \in Nat \ {0}
      /\ ports_ids' \in Seq(Ports) /\ fwd_ports_ids' \in Seq(Ports)
      /\ Len(ports_ids') \in Nat /\ Len(fwd_ports_ids') \in Nat
      /\ n \in 0 .. Len(fwd_ports_ids')
  <2>1. nb_cfg_lcores' \in Nat /\ nb_fwd_lcores' \in Nat
    BY ControlAssumption DEF InputsOK
  <2> QED
    BY <2>1, LenProperties DEF InputsOK
<1>2. NewKind \in {"simple", "rss", "icmp"}
  BY NewLimits DEF Kinds
<1>3. Len(fwd_ports_ids') <= Len(ports_ids')
  BY <1>1, ShorterList DEF PortListsConsistent
<1>4. n \in Nat /\ n <= nb_ports'
  BY <1>1, <1>3 DEF nb_ports
<1>5. /\ most \in Nat /\ 1 <= most /\ rxqs <= most
      /\ RssQueues(rxqs, txqs) \in Nat \ {0} /\ RssQueues(rxqs, txqs) <= most
  BY <1>1 DEF Greatest, RssQueues, Least
<1>6. NewAllocation = nb_ports' * most
  <2>1. ~InitFwdStreamsFails
    <3>1. \A p \in Ports : MaxQueues[p] \in Nat
      BY ControlAssumption
    <3>2. Valid' \subseteq Ports
      BY DEF Valid
    <3>3. nb_rxq' \in Nat \ {0} /\ nb_txq' \in Nat \ {0}
      BY <1>1
    <3> QED
      BY <3>1, <3>2, <3>3 DEF InitFwdStreamsFails
  <2> QED
    BY <2>1 DEF NewAllocation, NbAllocated
<1> HIDE DEF most
<1>7. NewStreams =
        CASE NewKind = "simple" -> n
          [] NewKind = "rss"    -> RssQueues(rxqs, txqs) * n
          [] NewKind = "icmp"   -> rxqs * n
  BY DEF NewStreams, NbStreams
<1>8. NewStreams <= NewAllocation
  <2>1. nb_ports' \in Nat
    BY <1>1 DEF nb_ports
  <2>2. /\ 1 * n <= most * nb_ports'
        /\ RssQueues(rxqs, txqs) * n <= most * nb_ports'
        /\ rxqs * n <= most * nb_ports'
    BY <1>1, <1>4, <1>5, <2>1, ProductsGrow
  <2>3. most * nb_ports' = nb_ports' * most /\ 1 * n = n
    <3> HIDE DEF n
    <3>1. \A x, y \in Nat : x * y = y * x /\ 1 * x = x
      OBVIOUS
    <3> QED
      BY <1>4, <1>5, <2>1, <3>1
  <2> QED
    BY <1>2, <1>6, <1>7, <2>2, <2>3
<1>9. NewLcores = 0 => NewStreams = 0
  <2>1. NewStreams \in Nat
    BY NewLimits
  <2>2. NewLcores =
          IF NewKind = "icmp"
          THEN Least(Least(nb_fwd_lcores', txqs * n), NewStreams)
          ELSE Least(nb_fwd_lcores', NewStreams)
    BY DEF NewLcores, NbLcoresUsed, NewStreams
  <2>3. txqs * n \in Nat /\ (txqs * n = 0 => n = 0) /\ (n = 0 => rxqs * n = 0)
    <3> HIDE DEF n, rxqs, txqs
    <3>1. \A x \in Nat \ {0}, y \in Nat :
            x * y \in Nat /\ (x * y = 0 <=> y = 0)
      OBVIOUS
    <3> QED
      BY <1>1, <1>4, <3>1
  <2>4. CASE NewKind = "icmp"
    <3>1. NewStreams = rxqs * n
      BY <1>7, <2>4
    <3> QED
      BY <1>1, <2>1, <2>2, <2>3, <2>4, <3>1 DEF Least
  <2>5. CASE NewKind # "icmp"
    BY <1>1, <2>1, <2>2, <2>5 DEF Least
  <2> QED
    BY <2>4, <2>5
<1>10. NewStreams \in Nat /\ NewAllocation \in Nat
  <2>1. nb_ports' * most \in Nat
    BY <1>1, <1>5 DEF nb_ports
  <2> QED
    BY <1>6, <2>1, NewLimits
<1> QED
  BY <1>8, <1>9, <1>10 DEF SetupUndefined

LEMMA NextSettings ==
  ASSUME TypeOK, PortListsConsistent', SettingsWork, SettingsInv, [Next]_vars
  PROVE  SettingsInv'
<1> USE ControlAssumption
<1>1. /\ main # "undefined"
      /\ nb_fwd_lcores >= 1 /\ nb_rxq >= 1 /\ nb_txq >= 1
      /\ \A p \in Ports : nb_rxq <= MaxQueues[p] /\ nb_txq <= MaxQueues[p]
  BY DEF SettingsInv
<1>2. ASSUME SetupAction, InputsOK',
             nb_fwd_lcores' >= 1, nb_rxq' >= 1, nb_txq' >= 1,
             \A p \in Ports : nb_rxq' <= MaxQueues[p] /\ nb_txq' <= MaxQueues[p]
      PROVE  SettingsInv'
  <2>1. ~SetupUndefined
    BY <1>2, SetupDefined
  <2>2. main' # "undefined"
    BY <1>2, <2>1 DEF SetupAction, SetupForwarding
  <2> QED
    BY <1>2, <2>2 DEF SettingsInv
<1>3. ASSUME UNCHANGED settings, main' # "undefined"
      PROVE  SettingsInv'
  BY <1>1, <1>3 DEF settings, SettingsInv
<1>4. CASE Configure
  <2>1. ASSUME NEW x \in 0 .. NbEthPorts, SetNbPort(x)
        PROVE  SettingsInv'
    <3>1. SetupAction /\ InputsOK' /\ UNCHANGED settings
      BY <2>1, ConfigureInputs DEF SetNbPort
    <3> QED
      BY <1>1, <1>2, <3>1 DEF settings
  <2>2. ASSUME NEW x \in NbCoreValues, SetNbCore(x)
        PROVE  SettingsInv'
    <3>1. SetupAction /\ InputsOK' /\ UNCHANGED <<nb_rxq, nb_txq>>
      BY <2>2, ConfigureInputs DEF SetNbCore
    <3>2. nb_fwd_lcores' >= 1
      <4>1. x \in Nat /\ x # 0
        BY DEF SettingsWork
      <4> QED
        BY <1>1, <2>2, <4>1 DEF SetNbCore
    <3> QED
      BY <1>1, <1>2, <3>1, <3>2
  <2>3. ASSUME NEW x \in 1 .. NbLcores, SetCoreList(x)
        PROVE  SettingsInv'
    <3>1. SetupAction /\ InputsOK' /\ UNCHANGED <<nb_rxq, nb_txq>>
      BY <2>3, ConfigureInputs DEF SetCoreList
    <3>2. nb_fwd_lcores' >= 1
      BY <2>3 DEF SetCoreList
    <3> QED
      BY <1>1, <1>2, <3>1, <3>2
  <2>4. ASSUME NEW list \in PortLists, SetPortList(list)
        PROVE  SettingsInv'
    <3>1. SetupAction /\ InputsOK' /\ UNCHANGED settings
      BY <2>4, ConfigureInputs DEF SetPortList
    <3> QED
      BY <1>1, <1>2, <3>1 DEF settings
  <2>5. CASE SetEthPeer
    <3>1. SetupAction /\ InputsOK' /\ UNCHANGED settings
      BY <2>5, ConfigureInputs DEF SetEthPeer
    <3> QED
      BY <1>1, <1>2, <3>1 DEF settings
  <2>6. ASSUME NEW e \in Engines, SetFwdMode(e)
        PROVE  SettingsInv'
    BY <1>1, <2>6 DEF SetFwdMode, SettingsInv
  <2>7. ASSUME NEW x \in QueueCounts, ConfigQueues(x)
        PROVE  SettingsInv'
    <3>1. SetupAction /\ InputsOK' /\ UNCHANGED nb_fwd_lcores
      BY <2>7, ConfigureInputs DEF ConfigQueues
    <3>2. x \in Nat /\ x >= 1
      <4>1. x \in Nat /\ x # 0
        BY DEF SettingsWork
      <4> QED
        BY <4>1
    <3>3. \A p \in Ports : x <= MaxQueues[p]
      <4>1. PICK q \in Valid : x <= MaxQueues[q]
        BY <2>7, <3>2 DEF ConfigQueues, QueueCountAllowed
      <4>2. q \in Ports
        BY DEF Valid
      <4>3. \A p \in Ports : MaxQueues[p] = MaxQueues[q]
        BY <4>2 DEF SettingsWork
      <4> QED
        BY <4>1, <4>3
    <3>4. \/ nb_rxq' = x /\ nb_txq' = nb_txq
          \/ nb_txq' = x /\ nb_rxq' = nb_rxq
      BY <2>7 DEF ConfigQueues
    <3> QED
      BY <1>1, <1>2, <3>1, <3>2, <3>3, <3>4
  <2> QED
    BY <1>4, <2>1, <2>2, <2>3, <2>4, <2>5, <2>6, <2>7 DEF Configure
<1>5. CASE \E b \in BOOLEAN : Start(b)
  <2>1. SetupAction /\ InputsOK' /\ UNCHANGED settings
    BY <1>5, ConfigureInputs DEF Start
  <2> QED
    BY <1>1, <1>2, <2>1 DEF settings
<1>6. CASE PortStep
  <2>1. UNCHANGED <<settings, main>>
    BY <1>6 DEF PortStep, StartPort, StopPort, ClosePort, CloseRefused,
       DetachPort, AttachPort, PortCommand
  <2> QED
    BY <1>1, <1>3, <2>1
<1>7. CASE \/ StartExits \/ Stop \/ MainStep
           \/ \E lc \in Lcores : WorkerBegin(lc) \/ WorkerLeave(lc)
  <2>1. UNCHANGED settings /\ (main' = main \/ main' # "undefined")
    BY <1>7 DEF StartExits, Stop, MainStep, BeginEngines, BeginExits,
       LaunchBurst, BurstDone, Launch, LaunchOn, StopDone, WorkerBegin,
       WorkerLeave
  <2> QED
    BY <1>1, <1>3, <2>1
<1>8. CASE UNCHANGED vars
  BY <1>1, <1>3, <1>8 DEF vars
<1> QED
  BY <1>4, <1>5, <1>6, <1>7, <1>8 DEF Next

LEMMA InitSettings == Init => SettingsInv
  BY ControlAssumption DEF Init, SettingsInv

(* With settings that work no command makes fwd_config_setup divide by     *)
(* zero or write beyond the streams that init_fwd_streams allocated, a     *)
(* reconfiguration during a test included; with a "set nbcore 0" it does,  *)
(* and with an engine "icmpecho" and no transmit queue.                    *)
THEOREM SetupStaysDefined ==
  ASSUME SettingsWork
  PROVE  Spec => []DefinedBehaviour
<1> DEFINE Inv == TypeOK /\ PortListsConsistent /\ SettingsInv
<1>1. Init => Inv
  BY InitType, InitPortLists, InitSettings
<1>2. Inv /\ [Next]_vars => Inv'
  BY NextType, NextPortLists, NextSettings
<1>3. Inv => DefinedBehaviour
  BY DEF SettingsInv, DefinedBehaviour
<1> QED
  BY <1>1, <1>2, <1>3, PTL DEF Spec
=============================================================================
