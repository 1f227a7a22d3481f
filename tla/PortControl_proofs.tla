--------------------------- MODULE PortControl_proofs ---------------------------
(***************************************************************************)
(* Theorems about the control of the ports, for every number of ports and  *)
(* devices, and for every interleaving of the two threads.                 *)
(***************************************************************************)
EXTENDS PortControl, Operators_proofs

-----------------------------------------------------------------------------
(* What is recorded for a port is applied by the next start.               *)

\* The commands that mark what they write, and no call of start_port that
\* loses the mark while the device refuses.
MarksKept ==
  /\ Commands \subseteq WholeCommands
  /\ Failures \cap {"isolate", "hairpin", "mempool", "dev_info"} = {}

\* A command that covers what it writes by the flags it sets on the same
\* ports, or by a flag it demands.
Covering(c) ==
  \/ /\ c.writes \subseteq c.flags
     /\ c.marks = "all" \/ (c.marks = "one" /\ c.scope = "one")
  \/ c.scope = "one" /\ c.needs = "pending" /\ c.writes \subseteq {"device"}

Sound(c) ==
  /\ c.writes \subseteq Items /\ c.flags \subseteq Items
  /\ c.own = {} /\ c.cut # "same value" /\ Covering(c)

LEMMA WholeCommandsSound == \A c \in WholeCommands : Sound(c)
<1>1. \A w \in SUBSET Items, r \in BOOLEAN : Sound(OnAll(w, r))
  BY DEF Sound, Covering, OnAll, Items
<1>2. \A w \in SUBSET Items : Sound(OnOne(w))
  BY DEF Sound, Covering, OnOne, Items
<1>3. {"device"} \in SUBSET Items /\ {"queues"} \in SUBSET Items
      /\ Items \in SUBSET Items /\ {} \in SUBSET Items
  BY DEF Items
<1>4. Sound(cmd_config_speed_specific)
  BY DEF Sound, Covering, OnOne, Items, cmd_config_speed_specific
<1>5. Sound(cmd_config_mtu)
  BY DEF Sound, Covering, OnOne, Items, cmd_config_mtu
<1>6. Sound(cmd_set_rxoffs)
  BY DEF Sound, Covering, OnAll, Items, cmd_set_rxoffs
<1>7. Sound(cmd_set_rxpkts)
  BY DEF Sound, Covering, OnAll, Items, cmd_set_rxpkts
<1>8. Sound(cmd_tso_set)
  BY DEF Sound, Covering, OnOne, Items, cmd_tso_set
<1>9. /\ Sound(cmd_config_speed_all) /\ Sound(cmd_config_loopback_all)
      /\ Sound(cmd_config_rx_tx) /\ Sound(cmd_config_max_pkt_len)
      /\ Sound(cmd_config_rx_mode_flag) /\ Sound(cmd_config_burst)
      /\ Sound(cmd_config_thresh) /\ Sound(cmd_config_threshold)
  BY <1>1, <1>3 DEF cmd_config_speed_all, cmd_config_loopback_all,
    cmd_config_rx_tx, cmd_config_max_pkt_len, cmd_config_rx_mode_flag,
    cmd_config_burst, cmd_config_thresh, cmd_config_threshold
<1>10. /\ Sound(cmd_config_loopback_specific) /\ Sound(cmd_tx_vlan_set)
       /\ Sound(cmd_tx_vlan_set_qinq) /\ Sound(cmd_tx_vlan_reset)
       /\ Sound(cmd_csum) /\ Sound(cmd_tunnel_tso_set)
       /\ Sound(cmd_set_macsec_offload_on)
       /\ Sound(cmd_set_macsec_offload_off)
       /\ Sound(cmd_config_per_port_rx_offload)
       /\ Sound(cmd_config_per_queue_rx_offload)
       /\ Sound(cmd_config_per_port_tx_offload)
       /\ Sound(cmd_config_per_queue_tx_offload)
  BY <1>2, <1>3 DEF cmd_config_loopback_specific, cmd_tx_vlan_set,
    cmd_tx_vlan_set_qinq, cmd_tx_vlan_reset, cmd_csum, cmd_tunnel_tso_set,
    cmd_set_macsec_offload_on, cmd_set_macsec_offload_off,
    cmd_config_per_port_rx_offload, cmd_config_per_queue_rx_offload,
    cmd_config_per_port_tx_offload, cmd_config_per_queue_tx_offload
<1> QED
  BY <1>4, <1>5, <1>6, <1>7, <1>8, <1>9, <1>10 DEF WholeCommands

RecordsInv ==
  /\ attached \subseteq Ports
  /\ flags \in [Ports -> SUBSET Items]
  /\ unapplied \in [Ports -> SUBSET Items]
  /\ own = [p \in Ports |-> {}]
  /\ \A p \in Ports : unapplied[p] \subseteq flags[p]

LEMMA InitRecords == Init => RecordsInv
  BY DEF Init, RecordsInv, Items

\* A configuration command.
LEMMA ConfigureRecords ==
  ASSUME MarksKept, RecordsInv, NEW c \in Commands,
         NEW pid \in Ports \cup {All},
         Configure(c, pid)
  PROVE  RecordsInv'
<1>1. c \in WholeCommands /\ "dev_info" \notin Failures
  BY DEF MarksKept
<1>2. /\ c.writes \subseteq Items /\ c.flags \subseteq Items
      /\ c.own = {} /\ c.cut # "same value" /\ Covering(c)
  BY <1>1, WholeCommandsSound DEF Sound
<1> DEFINE targets == IF c.scope = "all" THEN attached ELSE {pid}
<1>3. /\ IF c.scope = "all" THEN pid = All ELSE pid \in attached
      /\ Meets(c, pid)
      /\ unapplied' = [q \in Ports |->
           unapplied[q] \cup (IF q \in targets THEN c.writes ELSE {})
             \cup (IF c.refresh /\ q \in attached THEN own[q] ELSE {})]
      /\ own' = [q \in Ports |->
           (IF c.refresh /\ q \in attached THEN {} ELSE own[q])
             \cup (IF q \in targets THEN c.own ELSE {})]
      /\ flags' = Marked(c.marks, pid, c.flags)
  BY <1>1, <1>2 DEF Configure
<1>4. own' = [q \in Ports |-> {}]
  BY <1>2, <1>3 DEF RecordsInv
<1>5. /\ flags' = [q \in Ports |->
           IF q \in attached /\ (c.marks = "all" \/ q = pid)
           THEN flags[q] \cup c.flags ELSE flags[q]]
      /\ unapplied' = [q \in Ports |->
           unapplied[q] \cup (IF q \in targets THEN c.writes ELSE {})]
  BY <1>2, <1>3 DEF Marked, RecordsInv
<1>6. ASSUME NEW q \in Ports PROVE unapplied'[q] \subseteq flags'[q]
  <2>1. CASE q \notin targets
    BY <1>5, <2>1 DEF RecordsInv
  <2>2. CASE q \in targets /\ c.writes \subseteq c.flags
                /\ (c.marks = "all" \/ (c.marks = "one" /\ c.scope = "one"))
    BY <1>3, <1>5, <2>2 DEF RecordsInv
  <2>3. CASE q \in targets /\ c.scope = "one" /\ c.needs = "pending"
                /\ c.writes \subseteq {"device"}
    <3>1. q = pid /\ "device" \in flags[q]
      BY <1>3, <2>3 DEF Meets
    <3> QED
      BY <1>5, <2>3, <3>1 DEF RecordsInv
  <2> QED
    BY <1>2, <2>1, <2>2, <2>3 DEF Covering
<1>7. attached' = attached
  BY DEF Configure, devices
<1> QED
  BY <1>2, <1>4, <1>5, <1>6, <1>7 DEF RecordsInv

LEMMA AttachRecords ==
  ASSUME RecordsInv, NEW d, AttachPort(d)
  PROVE  RecordsInv'
<1>1. PICK S : SetupAttachedPorts(S)
  BY DEF AttachPort
<1>2. \A q \in Ports : Refreshed(q) = {}
  BY DEF Refreshed, RecordsInv
<1>3. /\ flags' = [q \in Ports |-> IF q \in S THEN Items ELSE flags[q]]
      /\ unapplied' = [q \in Ports |->
           IF q \in S THEN Items
           ELSE unapplied[q] \cup (IF S = {} THEN {} ELSE Refreshed(q))]
      /\ own' = [q \in Ports |->
           IF S = {} THEN own[q] ELSE own[q] \ Refreshed(q)]
  BY <1>1 DEF SetupAttachedPorts
<1>4. own' = [q \in Ports |-> {}]
  BY <1>2, <1>3 DEF RecordsInv
<1>5. unapplied' = [q \in Ports |-> IF q \in S THEN Items
                                    ELSE unapplied[q]]
  BY <1>2, <1>3 DEF RecordsInv
<1>6. attached' \subseteq Ports
  BY DEF AttachPort, RecordsInv
<1> QED
  BY <1>3, <1>4, <1>5, <1>6 DEF RecordsInv

\* The steps of start_port, stop_port, close_port and reset_port.
LEMMA PortStepRecords ==
  ASSUME MarksKept, RecordsInv, NEW t, NEW p, PortSteps(t, p)
  PROVE  RecordsInv'
<1>1. CASE StartPort(t, p) \/ StopPort(t, p) \/ StopDevice(t, p)
           \/ ClosePort(t, p) \/ StartDevice(t, p)
  BY <1>1 DEF StartPort, StopPort, StopDevice, ClosePort, StartDevice,
              Destroy, devices, RecordsInv
<1>2. CASE ConfigureDevice(t, p)
  BY <1>2 DEF ConfigureDevice, devices, RecordsInv, MarksKept
<1>3. CASE SetupQueues(t, p)
  BY <1>3 DEF SetupQueues, devices, RecordsInv, MarksKept
<1>4. CASE ResetPort(t, p)
  BY <1>4 DEF ResetPort, devices, RecordsInv
<1> QED
  BY <1>1, <1>2, <1>3, <1>4 DEF PortSteps

LEMMA NextRecords ==
  ASSUME MarksKept, RecordsInv, [Next]_vars
  PROVE  RecordsInv'
<1>1. CASE UNCHANGED vars
  BY <1>1 DEF vars, devices, records, RecordsInv
<1>2. CASE \E p \in Ports : RemovalEvent(p) \/ RmvPortCallback(p)
  BY <1>2 DEF RemovalEvent, RmvPortCallback, devices, records, RecordsInv
<1>3. ASSUME NEW t \in Threads, NEW p \in Ports \cup {All},
             \/ PortSteps(t, p) \/ Prune(t, p) \/ ForwardingSteps(t, p)
             \/ RmvClose(t, p) \/ RmvDetach(t, p)
      PROVE  RecordsInv'
  <2>1. CASE PortSteps(t, p)
    BY <2>1, PortStepRecords
  <2>2. CASE Prune(t, p) \/ ForwardingSteps(t, p) \/ RmvClose(t, p)
             \/ RmvDetach(t, p)
    BY <2>2 DEF Prune, ForwardingSteps, RmvClose, RmvDetach, devices,
                records, DetachDevice, Destroy, RecordsInv
  <2> QED
    BY <1>3, <2>1, <2>2
<1>4. CASE Operator
  <2>1. CASE \E pid \in Ports \cup {All} : OperatePort(pid)
    BY <2>1 DEF OperatePort, devices, records, RecordsInv
  <2>2. CASE OperateForwarding \/ Quit \/ SignalHandler
    BY <2>2 DEF OperateForwarding, Quit, SignalHandler, devices, records,
                RecordsInv
  <2>3. CASE \E d \in Devices : OperateAttach(d)
    BY <2>3, AttachRecords DEF OperateAttach
  <2>4. CASE \E d \in Devices : OperateDetach(d)
    BY <2>4 DEF OperateDetach, DetachDevice, Destroy, devices, RecordsInv
  <2>5. CASE \E mode \in ProbeModes : SetPortSetupOn(mode)
    BY <2>5 DEF SetPortSetupOn, devices, records, RecordsInv
  <2>6. CASE \E S \in SUBSET Ports : SetPortList(S)
    BY <2>6 DEF SetPortList, devices, records, RecordsInv
  <2>7. CASE \E c \in Commands, pid \in Ports \cup {All} : Configure(c, pid)
    BY <2>7, ConfigureRecords
  <2> QED
    BY <1>4, <2>1, <2>2, <2>3, <2>4, <2>5, <2>6, <2>7 DEF Operator
<1> QED
  BY <1>1, <1>2, <1>3, <1>4 DEF Next, ThreadStep

\* No setting of a port is lost: whatever the commands, the threads and the
\* signals do, what a port's device lacks is marked for its next start.
THEOREM RecordsCorrect ==
  ASSUME MarksKept
  PROVE  Spec => []RecordsMarked
<1>1. Init => RecordsInv
  BY InitRecords
<1>2. RecordsInv /\ [Next]_vars => RecordsInv'
  BY NextRecords
<1>3. RecordsInv => RecordsMarked
  BY DEF RecordsInv, RecordsMarked
<1> QED
  BY <1>1, <1>2, <1>3, PTL DEF Spec

-----------------------------------------------------------------------------
(* What the two threads may still have to do.  A thread is inside a port   *)
(* when its first step is an inner one: start_port or stop_port took the   *)
(* port and has not yet given it back.  Only the main thread starts ports. *)

OuterOps(t) ==
  {"stop", "close", "prune", "fwd_start", "fwd_launch", "fwd_stop"}
    \cup IF t = "main" THEN {"start", "reset", "exited"} ELSE {"rmv", "detach"}
StartOps == {"configure", "queues", "device"}
InnerOps(t) == {"halt"} \cup IF t = "main" THEN StartOps ELSE {}

Outer(t) == [op : OuterOps(t), port : Ports \cup {All}]
Inner(t) == [op : InnerOps(t), port : Ports]

JobOK(t, j) ==
  /\ j \in Seq(Outer(t) \cup Inner(t))
  /\ j # <<>> => Tail(j) \in Seq(Outer(t))
JobsOK ==
  /\ job = [t \in Threads |-> job[t]]
  /\ \A t \in Threads : JobOK(t, job[t])

\* Thread t is at a step of ops for port p.
Inside(t, p, ops) ==
  job[t] # <<>> /\ Head(job[t]).op \in ops /\ Head(job[t]).port = p
Within(t, p) == Inside(t, p, {"halt"} \cup StartOps)

LEMMA OuterJob ==
  ASSUME NEW t, NEW j \in Seq(Outer(t))
  PROVE  /\ JobOK(t, j)
         /\ j # <<>> => Head(j).op \notin {"halt"} \cup StartOps
<1>1. Outer(t) \subseteq Outer(t) \cup Inner(t)
  OBVIOUS
<1>2. j \in Seq(Outer(t) \cup Inner(t))
  BY <1>1, SeqMonotonic
<1>3. j # <<>> => Head(j) \in Outer(t) /\ Tail(j) \in Seq(Outer(t))
  BY HeadTailProperties
<1> QED
  BY <1>2, <1>3 DEF JobOK, Outer, OuterOps, StartOps

\* What follows the first step of a job are outer steps, put before others.
LEMMA OuterThen ==
  ASSUME NEW t, NEW j, JobOK(t, j), j # <<>>, NEW steps \in Seq(Outer(t))
  PROVE  steps \o Tail(j) \in Seq(Outer(t))
  BY ConcatProperties DEF JobOK

LEMMA InnerThen ==
  ASSUME NEW t, NEW j, JobOK(t, j), j # <<>>, NEW s \in Inner(t)
  PROVE  /\ JobOK(t, <<s>> \o Tail(j))
         /\ <<s>> \o Tail(j) # <<>>
         /\ Head(<<s>> \o Tail(j)) = s
<1> DEFINE S == Outer(t) \cup Inner(t)
           k == <<s>> \o Tail(j)
<1>1. Tail(j) \in Seq(Outer(t))
  BY DEF JobOK
<1>2. Tail(j) \in Seq(S)
  BY <1>1, SeqMonotonic
<1>3. <<s>> \in Seq(S) /\ Len(<<s>>) = 1 /\ <<s>>[1] = s
  OBVIOUS
<1>4. /\ k \in Seq(S) /\ Len(k) = 1 + Len(Tail(j))
      /\ \A i \in 1 .. Len(k) : k[i] = IF i <= 1 THEN s ELSE Tail(j)[i - 1]
  BY <1>2, <1>3, ConcatProperties
<1>5. Len(Tail(j)) \in Nat
  BY <1>2, LenProperties
<1> HIDE DEF k, S
<1>6. k # <<>> /\ k[1] = s
  BY <1>4, <1>5
<1>7. Head(k) = s
  BY <1>4, <1>6
<1>8. /\ Tail(k) \in Seq(S) /\ Len(Tail(k)) = Len(Tail(j))
      /\ \A i \in 1 .. Len(Tail(k)) : Tail(k)[i] = Tail(j)[i]
  <2>1. /\ Tail(k) \in Seq(S) /\ Len(Tail(k)) = Len(k) - 1
        /\ \A i \in 1 .. Len(Tail(k)) : Tail(k)[i] = k[i + 1]
    BY <1>4, <1>6, HeadTailProperties
  <2> QED
    BY <2>1, <1>4, <1>5
<1>9. Tail(k) = Tail(j)
  BY <1>2, <1>8, SeqEqual
<1> QED
  BY <1>1, <1>4, <1>6, <1>7, <1>9 DEF JobOK, k, S

LEMMA ForEachType ==
  ASSUME NEW t, NEW op \in OuterOps(t), NEW pid \in Ports \cup {All}
  PROVE  ForEach(op, pid) \in Seq(Outer(t))
<1>1. NbEthPorts \in Nat
  BY PortControlAssumption
<1>2. \A i \in 1 .. NbEthPorts : Step(op, i - 1) \in Outer(t)
  BY <1>1 DEF Step, Outer, Ports
<1>3. [i \in 1 .. NbEthPorts |-> Step(op, i - 1)] \in Seq(Outer(t))
  BY <1>1, <1>2, IsASeq
<1>4. <<Step(op, pid)>> \in Seq(Outer(t))
  <2>1. Step(op, pid) \in Outer(t)
    BY DEF Step, Outer
  <2> QED
    BY <2>1
<1> QED
  BY <1>3, <1>4 DEF ForEach

LEMMA OneStep ==
  ASSUME NEW t, NEW op \in OuterOps(t), NEW pid \in Ports \cup {All}
  PROVE  Step(op, pid) \in Outer(t) /\ <<Step(op, pid)>> \in Seq(Outer(t))
<1>1. Step(op, pid) \in Outer(t)
  BY DEF Step, Outer
<1> QED
  BY <1>1

LEMMA ClosePortStepsType ==
  ASSUME NEW t, NEW pid \in Ports \cup {All}
  PROVE  ClosePortSteps(pid) \in Seq(Outer(t))
<1>1. {"close", "prune"} \subseteq OuterOps(t)
  BY DEF OuterOps
<1> QED
  BY <1>1, ForEachType, OneStep, AppendProperties DEF ClosePortSteps

LEMMA ExitStepsType == ExitSteps \in Seq(Outer("main"))
<1>1. {"fwd_stop", "stop", "exited"} \subseteq OuterOps("main")
  BY DEF OuterOps
<1>2. All \in Ports \cup {All}
  OBVIOUS
<1>3. (IF test_done THEN <<>> ELSE <<Step("fwd_stop", All)>>)
        \in Seq(Outer("main"))
  BY <1>1, <1>2, OneStep, EmptySeq
<1>4. ForEach("stop", All) \in Seq(Outer("main"))
  BY <1>1, <1>2, ForEachType
<1>5. ClosePortSteps(All) \in Seq(Outer("main"))
  BY <1>2, ClosePortStepsType
<1>6. <<Step("exited", All)>> \in Seq(Outer("main"))
  BY <1>1, <1>2, OneStep
<1> DEFINE a == IF test_done THEN <<>> ELSE <<Step("fwd_stop", All)>>
<1>7. a \o ForEach("stop", All) \in Seq(Outer("main"))
  BY <1>3, <1>4, ConcatProperties
<1>8. (a \o ForEach("stop", All)) \o ClosePortSteps(All) \in Seq(Outer("main"))
  BY <1>5, <1>7, ConcatProperties
<1> QED
  BY <1>6, <1>8, ConcatProperties DEF ExitSteps

-----------------------------------------------------------------------------
(* What a step does to the jobs: the thread leaves the port it was inside, *)
(* or goes on inside one.                                                  *)

OthersStay(t) == \A u \in Threads \ {t} : job'[u] = job[u]
Leaves(t) ==
  /\ JobsOK' /\ OthersStay(t)
  /\ \A p \in Ports : ~Within(t, p)'
Enters(t, op, p) ==
  /\ JobsOK' /\ OthersStay(t)
  /\ job'[t] # <<>> /\ Head(job'[t]) = Step(op, p)

LEMMA SetLeaves ==
  ASSUME JobsOK, NEW t \in Threads, NEW steps \in Seq(Outer(t)),
         job' = [job EXCEPT ![t] = steps]
  PROVE  Leaves(t)
<1>1. job' = [u \in Threads |-> IF u = t THEN steps ELSE job[u]]
  BY DEF JobsOK
<1>2. /\ JobOK(t, steps)
      /\ steps # <<>> => Head(steps).op \notin {"halt"} \cup StartOps
  BY OuterJob
<1>3. JobsOK'
  BY <1>1, <1>2 DEF JobsOK
<1> QED
  BY <1>1, <1>2, <1>3 DEF Leaves, OthersStay, Within, Inside

LEMMA ThenLeaves ==
  ASSUME JobsOK, NEW t \in Threads, NEW op, NEW p, Doing(t, op, p),
         NEW steps \in Seq(Outer(t)), Then(t, steps)
  PROVE  Leaves(t)
<1>1. JobOK(t, job[t]) /\ job[t] # <<>>
  BY DEF JobsOK, Doing
<1>2. steps \o Tail(job[t]) \in Seq(Outer(t))
  BY <1>1, OuterThen
<1>3. job' = [job EXCEPT ![t] = steps \o Tail(job[t])]
  BY DEF Then
<1> QED
  BY <1>2, <1>3, SetLeaves

LEMMA ReturnLeaves ==
  ASSUME JobsOK, NEW t \in Threads, Returns(t)
  PROVE  Leaves(t)
<1>1. <<>> \in Seq(Outer(t))
  BY EmptySeq
<1> QED
  BY <1>1, SetLeaves DEF Returns

LEMMA ThenEnters ==
  ASSUME JobsOK, NEW t \in Threads, NEW op, NEW p, Doing(t, op, p),
         NEW inner \in InnerOps(t), NEW q \in Ports,
         Then(t, <<Step(inner, q)>>)
  PROVE  Enters(t, inner, q)
<1>1. JobOK(t, job[t]) /\ job[t] # <<>>
  BY DEF JobsOK, Doing
<1> DEFINE j == <<Step(inner, q)>> \o Tail(job[t])
<1>2. Step(inner, q) \in Inner(t)
  BY DEF Step, Inner
<1>3. JobOK(t, j) /\ j # <<>> /\ Head(j) = Step(inner, q)
  BY <1>1, <1>2, InnerThen
<1> HIDE DEF j
<1>4. job' = [u \in Threads |-> IF u = t THEN j ELSE job[u]]
  BY DEF Then, JobsOK, j
<1>5. JobsOK'
  BY <1>3, <1>4 DEF JobsOK
<1> QED
  BY <1>3, <1>4, <1>5 DEF Enters, OthersStay

\* A thread that is at an outer step is inside no port; one at an inner step
\* only inside that port.  The interrupt thread starts no port.
LEMMA DoingStep ==
  ASSUME JobsOK, NEW t \in Threads, NEW op, NEW p, Doing(t, op, p)
  PROVE  /\ Step(op, p) \in Outer(t) \cup Inner(t)
         /\ \A q, ops : Inside(t, q, ops) <=> op \in ops /\ q = p
<1>1. JobOK(t, job[t]) /\ job[t] # <<>> /\ Head(job[t]) = Step(op, p)
  BY DEF JobsOK, Doing
<1>2. Head(job[t]) \in Outer(t) \cup Inner(t)
  BY <1>1, HeadTailProperties DEF JobOK
<1> QED
  BY <1>1, <1>2 DEF Inside, Step

-----------------------------------------------------------------------------
(* The life of the ports.                                                  *)

\* The ports are set up by the events, and no device refuses to stop.
DevicesStop == ProbeModes = {"event"} /\ "stop" \notin Failures

StateOK ==
  /\ attached \subseteq Ports /\ running \subseteq attached
  /\ port_status \in [Ports -> Statuses]
  /\ need_setup = {} /\ setup_on_probe_event
  /\ \A p \in attached : DeviceOf[p] \in probed

\* Outside the threads' hands, port_status tells whether the device runs.
Honest ==
  \A p \in attached :
    /\ port_status[p] = "STARTED" => p \in running
    /\ p \in running => port_status[p] \in {"STARTED", "HANDLING"}

\* A thread that starts a port has it in its hands, unless the port went
\* away; one that stops a port has it in its hands, and alone.
InHands ==
  /\ \A p \in attached : Inside("main", p, StartOps) =>
       port_status[p] = "HANDLING" /\ p \notin running
  /\ \A t \in Threads, p \in Ports : Inside(t, p, {"halt"}) =>
       port_status[p] = "HANDLING" /\ p \in running
  /\ \A p \in Ports :
       ~(Inside("main", p, {"halt"}) /\ Inside("intr", p, {"halt"}))

LifeInv == StateOK /\ JobsOK /\ Honest /\ InHands

Lives == [Lifecycle!Next]_(Lifecycle!vars)

LEMMA InsideAfterLeaving ==
  ASSUME NEW t \in Threads, Leaves(t)
  PROVE  \A u \in Threads, p \in Ports, ops \in SUBSET ({"halt"} \cup StartOps) :
           Inside(u, p, ops)' => u # t /\ Inside(u, p, ops)
  BY DEF Leaves, OthersStay, Within, Inside

LEMMA InsideAfterEntering ==
  ASSUME NEW t \in Threads, NEW op, NEW q, Enters(t, op, q)
  PROVE  \A u \in Threads, p \in Ports, ops \in SUBSET ({"halt"} \cup StartOps) :
           Inside(u, p, ops)' =>
             \/ u = t /\ p = q /\ op \in ops
             \/ u # t /\ Inside(u, p, ops)
  BY DEF Enters, OthersStay, Inside, Step

\* The sets of inner steps that InHands is about.
LEMMA OpsSets ==
  /\ StartOps \in SUBSET ({"halt"} \cup StartOps)
  /\ {"halt"} \in SUBSET ({"halt"} \cup StartOps)
  /\ "main" \in Threads /\ "intr" \in Threads
  BY DEF Threads

PortsStay == UNCHANGED <<attached, probed, running, port_status, need_setup,
                         setup_on_probe_event>>

LEMMA Stutter ==
  ASSUME PortsStay
  PROVE  Lives
<1>1. Phase' = Phase /\ running' = running
  BY DEF PortsStay, Phase
<1> QED
  BY <1>1 DEF Lives, Lifecycle!vars

\* A thread leaves a port, or is inside none, and the ports stay as they are.
LEMMA LeavingPortsAlone ==
  ASSUME LifeInv, NEW t \in Threads, Leaves(t), PortsStay
  PROVE  LifeInv' /\ Lives
<1>1. JobsOK'
  BY DEF Leaves
<1>2. StateOK' /\ Honest'
  BY DEF PortsStay, LifeInv, StateOK, Honest
<1>3. \A u \in Threads, p \in Ports, ops \in {StartOps, {"halt"}} :
        Inside(u, p, ops)' => Inside(u, p, ops)
  BY InsideAfterLeaving, OpsSets
<1>4. InHands'
  BY <1>3, OpsSets DEF PortsStay, LifeInv, StateOK, InHands
<1> QED
  BY <1>1, <1>2, <1>4, Stutter DEF LifeInv

\* A thread that starts a port goes on to its next step for that port.
LEMMA StartGoesOn ==
  ASSUME LifeInv, NEW op \in StartOps, NEW next \in StartOps, NEW p,
         Doing("main", op, p), Enters("main", next, p), PortsStay
  PROVE  LifeInv' /\ Lives
<1>1. JobsOK'
  BY DEF Enters
<1>2. StateOK' /\ Honest'
  BY DEF PortsStay, LifeInv, StateOK, Honest
<1>3. Inside("main", p, StartOps)
  BY DoingStep, OpsSets DEF LifeInv
<1>4. next # "halt"
  BY DEF StartOps
<1>5. \A u \in Threads, q \in Ports, ops \in {StartOps, {"halt"}} :
        Inside(u, q, ops)' => Inside(u, q, ops)
  BY <1>3, <1>4, InsideAfterEntering, OpsSets
<1>6. InHands'
  BY <1>5, OpsSets DEF PortsStay, LifeInv, StateOK, InHands
<1> QED
  BY <1>1, <1>2, <1>6, Stutter DEF LifeInv

-----------------------------------------------------------------------------
(* The steps of start_port, stop_port and close_port.                      *)

LEMMA StartPortLives ==
  ASSUME LifeInv, NEW t \in Threads, NEW p \in Ports \cup {All},
         StartPort(t, p), UNCHANGED setup_on_probe_event
  PROVE  LifeInv' /\ Lives
<1>0. JobsOK
  BY DEF LifeInv
<1>1. Doing(t, "start", p) /\ UNCHANGED <<attached, probed, running, need_setup>>
  BY DEF StartPort, devices
<1>2. t = "main"
  BY <1>0, <1>1, DoingStep DEF Step, Outer, Inner, OuterOps, InnerOps, StartOps,
     Threads
<1>3. CASE ~(p \in attached /\ port_status[p] = "STOPPED")
  <2>1. Then(t, <<>>) /\ UNCHANGED port_status
    BY <1>3 DEF StartPort
  <2>2. Leaves(t)
    BY <1>0, <1>1, <2>1, EmptySeq, ThenLeaves
  <2> QED
    BY <1>1, <2>1, <2>2, LeavingPortsAlone DEF PortsStay
<1>4. CASE p \in attached /\ port_status[p] = "STOPPED"
  <2>1. /\ port_status' = [port_status EXCEPT ![p] = "HANDLING"]
        /\ Then(t, <<Step("configure", p)>>)
    BY <1>4 DEF StartPort
  <2>2. p \in Ports /\ p \notin running
    BY <1>4 DEF LifeInv, StateOK, Honest
  <2>3. Enters(t, "configure", p)
    BY <1>0, <1>1, <1>2, <2>1, <2>2, ThenEnters DEF InnerOps, StartOps
  <2>4. JobsOK' /\ StateOK'
    BY <1>1, <2>1, <2>3 DEF Enters, LifeInv, StateOK, Statuses
  <2>5. Honest'
    BY <1>1, <2>1, <2>2 DEF LifeInv, StateOK, Honest
  <2>6. "configure" # "halt"
    OBVIOUS
  <2>7. \A u \in Threads, q \in Ports :
          /\ Inside(u, q, {"halt"})' => Inside(u, q, {"halt"})
          /\ Inside(u, q, StartOps)' => q = p \/ Inside(u, q, StartOps)
    BY <2>3, <2>6, InsideAfterEntering, OpsSets
  <2>8. InHands'
    BY <1>1, <2>1, <2>2, <2>7, OpsSets DEF LifeInv, StateOK, InHands
  <2>9. Lives
    <3>1. Phase[p] = "stopped" /\ Phase' = [Phase EXCEPT ![p] = "handled"]
      BY <1>1, <1>4, <2>1, <2>2 DEF Phase, LifeInv, StateOK
    <3> QED
      BY <1>1, <2>2, <3>1 DEF Lives, Lifecycle!Next, Lifecycle!Take
  <2> QED
    BY <2>4, <2>5, <2>8, <2>9 DEF LifeInv
<1> QED
  BY <1>3, <1>4

\* Only the main thread starts ports, and it has them in its hands.
LEMMA Starting ==
  ASSUME LifeInv, NEW t \in Threads, NEW op \in StartOps, NEW p,
         Doing(t, op, p)
  PROVE  /\ t = "main" /\ p \in Ports
         /\ p \in attached => port_status[p] = "HANDLING"
         /\ p \notin running
         /\ ~Inside("intr", p, {"halt"})
<1>0. JobsOK
  BY DEF LifeInv
<1>1. t = "main" /\ p \in Ports
  BY <1>0, DoingStep DEF Step, Outer, Inner, OuterOps, InnerOps, StartOps,
     Threads
<1>2. Inside("main", p, StartOps)
  BY <1>0, <1>1, DoingStep
<1> QED
  BY <1>1, <1>2, OpsSets DEF LifeInv, StateOK, InHands

\* start_port fails: the port is given back, and its device does not run.
LEMMA StartFails ==
  ASSUME LifeInv, NEW t \in Threads, NEW op \in StartOps, NEW p,
         Doing(t, op, p), Leaves(t), SetStatus(p, "STOPPED"),
         UNCHANGED <<attached, probed, running, need_setup,
                     setup_on_probe_event>>
  PROVE  LifeInv' /\ Lives
<1>1. /\ t = "main" /\ p \in Ports
      /\ p \in attached => port_status[p] = "HANDLING"
      /\ p \notin running
      /\ ~Inside("intr", p, {"halt"})
  BY Starting
<1>2. port_status' = [port_status EXCEPT ![p] =
                        IF @ = "HANDLING" THEN "STOPPED" ELSE @]
  BY DEF SetStatus
<1>3. JobsOK' /\ StateOK'
  BY <1>2 DEF Leaves, LifeInv, StateOK, Statuses
<1>4. Honest'
  BY <1>1, <1>2 DEF LifeInv, StateOK, Honest
<1>5. \A u \in Threads, q \in Ports, ops \in {StartOps, {"halt"}} :
        Inside(u, q, ops)' => u # t /\ Inside(u, q, ops)
  BY InsideAfterLeaving, OpsSets
<1>6. InHands'
  BY <1>1, <1>2, <1>5, OpsSets DEF LifeInv, StateOK, InHands, Threads
<1>7. Lives
  <2>1. CASE p \notin attached
    <3>1. Phase' = Phase
      BY <1>2, <2>1 DEF Phase, LifeInv, StateOK
    <3> QED
      BY <3>1 DEF Lives, Lifecycle!vars
  <2>2. CASE p \in attached
    <3>1. Phase[p] = "handled" /\ Phase' = [Phase EXCEPT ![p] = "stopped"]
      BY <1>1, <1>2, <2>2 DEF Phase, LifeInv, StateOK
    <3>2. running' = running \ {p}
      BY <1>1
    <3> QED
      BY <1>1, <3>1, <3>2 DEF Lives, Lifecycle!Next, Lifecycle!Release
  <2> QED
    BY <2>1, <2>2
<1> QED
  BY <1>3, <1>4, <1>6, <1>7 DEF LifeInv

LEMMA ConfigureDeviceLives ==
  ASSUME LifeInv, NEW t \in Threads, NEW p, ConfigureDevice(t, p),
         UNCHANGED setup_on_probe_event
  PROVE  LifeInv' /\ Lives
<1>0. JobsOK
  BY DEF LifeInv
<1>1. /\ Doing(t, "configure", p)
      /\ UNCHANGED <<attached, probed, running, need_setup>>
  BY DEF ConfigureDevice, devices
<1>2. {"configure", "queues"} \subseteq StartOps
  BY DEF StartOps
<1>3. t = "main" /\ p \in Ports
  BY <1>1, <1>2, Starting
<1>4. CASE Then(t, <<Step("queues", p)>>) /\ UNCHANGED port_status
  <2>1. Enters(t, "queues", p)
    BY <1>0, <1>1, <1>3, <1>4, ThenEnters DEF InnerOps, StartOps
  <2> QED
    BY <1>1, <1>2, <1>3, <1>4, <2>1, StartGoesOn DEF PortsStay
<1>5. CASE Returns(t) /\ SetStatus(p, "STOPPED")
  BY <1>0, <1>1, <1>2, <1>5, ReturnLeaves, StartFails
<1>6. CASE Returns(t) /\ UNCHANGED port_status
  BY <1>0, <1>1, <1>6, ReturnLeaves, LeavingPortsAlone DEF PortsStay
<1> QED
  BY <1>4, <1>5, <1>6 DEF ConfigureDevice

LEMMA SetupQueuesLives ==
  ASSUME LifeInv, NEW t \in Threads, NEW p, SetupQueues(t, p),
         UNCHANGED setup_on_probe_event
  PROVE  LifeInv' /\ Lives
<1>0. JobsOK
  BY DEF LifeInv
<1>1. /\ Doing(t, "queues", p)
      /\ UNCHANGED <<attached, probed, running, need_setup>>
  BY DEF SetupQueues, devices
<1>2. {"queues", "device"} \subseteq StartOps
  BY DEF StartOps
<1>3. t = "main" /\ p \in Ports
  BY <1>1, <1>2, Starting
<1>4. CASE Then(t, <<Step("device", p)>>) /\ UNCHANGED port_status
  <2>1. Enters(t, "device", p)
    BY <1>0, <1>1, <1>3, <1>4, ThenEnters DEF InnerOps, StartOps
  <2> QED
    BY <1>1, <1>2, <1>3, <1>4, <2>1, StartGoesOn DEF PortsStay
<1>5. CASE Returns(t) /\ SetStatus(p, "STOPPED")
  BY <1>0, <1>1, <1>2, <1>5, ReturnLeaves, StartFails
<1>6. CASE Returns(t) /\ UNCHANGED port_status
  BY <1>0, <1>1, <1>6, ReturnLeaves, LeavingPortsAlone DEF PortsStay
<1> QED
  BY <1>4, <1>5, <1>6 DEF SetupQueues

LEMMA StartDeviceLives ==
  ASSUME LifeInv, NEW t \in Threads, NEW p, StartDevice(t, p),
         UNCHANGED setup_on_probe_event
  PROVE  LifeInv' /\ Lives
<1>0. JobsOK
  BY DEF LifeInv
<1>1. /\ Doing(t, "device", p) /\ Then(t, <<>>)
      /\ UNCHANGED <<attached, probed, need_setup>>
  BY DEF StartDevice
<1>2. "device" \in StartOps
  BY DEF StartOps
<1>3. /\ t = "main" /\ p \in Ports
      /\ p \in attached => port_status[p] = "HANDLING"
      /\ p \notin running
      /\ ~Inside("intr", p, {"halt"})
  BY <1>1, <1>2, Starting
<1>4. Leaves(t)
  BY <1>0, <1>1, EmptySeq, ThenLeaves
<1>5. CASE UNCHANGED running /\ SetStatus(p, "STOPPED")
  BY <1>1, <1>2, <1>4, <1>5, StartFails
<1>6. CASE p \in attached /\ running' = running \cup {p}
             /\ SetStatus(p, "STARTED")
  <2>1. port_status' = [port_status EXCEPT ![p] = "STARTED"]
    BY <1>3, <1>6 DEF SetStatus
  <2>2. JobsOK' /\ StateOK' /\ Honest'
    BY <1>1, <1>3, <1>4, <1>6, <2>1
       DEF Leaves, LifeInv, StateOK, Honest, Statuses
  <2>3. \A u \in Threads, q \in Ports, ops \in {StartOps, {"halt"}} :
          Inside(u, q, ops)' => u # t /\ Inside(u, q, ops)
    BY <1>4, InsideAfterLeaving, OpsSets
  <2>4. InHands'
    BY <1>1, <1>3, <1>6, <2>1, <2>3, OpsSets
       DEF LifeInv, StateOK, InHands, Threads
  <2>5. Phase[p] = "handled" /\ Phase' = [Phase EXCEPT ![p] = "started"]
    BY <1>1, <1>3, <1>6, <2>1 DEF Phase, LifeInv, StateOK
  <2>6. Lives
    BY <1>3, <1>6, <2>5 DEF Lives, Lifecycle!Next, Lifecycle!Release
  <2> QED
    BY <2>2, <2>4, <2>6 DEF LifeInv
<1> QED
  BY <1>5, <1>6 DEF StartDevice

LEMMA StopPortLives ==
  ASSUME LifeInv, NEW t \in Threads, NEW p \in Ports \cup {All},
         StopPort(t, p), UNCHANGED setup_on_probe_event
  PROVE  LifeInv' /\ Lives
<1>0. JobsOK
  BY DEF LifeInv
<1>1. Doing(t, "stop", p) /\ UNCHANGED <<attached, probed, running, need_setup>>
  BY DEF StopPort, devices
<1>2. CASE UNCHANGED port_status /\ Then(t, <<>>)
  BY <1>0, <1>1, <1>2, EmptySeq, ThenLeaves, LeavingPortsAlone DEF PortsStay
<1>3. CASE /\ p \in attached /\ port_status[p] = "STARTED"
           /\ port_status' = [port_status EXCEPT ![p] = "HANDLING"]
           /\ Then(t, <<Step("halt", p)>>) \/ Then(t, <<>>)
  <2>1. p \in Ports /\ p \in running
    BY <1>3 DEF LifeInv, StateOK, Honest
  <2>2. Enters(t, "halt", p) \/ Leaves(t)
    BY <1>0, <1>1, <1>3, <2>1, ThenEnters, ThenLeaves, EmptySeq DEF InnerOps
  <2>3. JobsOK' /\ StateOK' /\ Honest'
    BY <1>1, <1>3, <2>1, <2>2
       DEF Enters, Leaves, LifeInv, StateOK, Honest, Statuses
  <2>4. \A u \in Threads, q \in Ports :
          /\ Inside(u, q, StartOps)' => Inside(u, q, StartOps)
          /\ Inside(u, q, {"halt"})' =>
               (u = t /\ q = p) \/ Inside(u, q, {"halt"})
    BY <2>2, InsideAfterEntering, InsideAfterLeaving, OpsSets DEF StartOps
  <2>5. \A u \in Threads : ~Inside(u, p, {"halt"})
    BY <1>3, <2>1 DEF LifeInv, InHands
  <2>6. InHands'
    BY <1>1, <1>3, <2>1, <2>4, <2>5, OpsSets
       DEF LifeInv, StateOK, InHands, Threads
  <2>7. Phase[p] = "started" /\ Phase' = [Phase EXCEPT ![p] = "handled"]
    BY <1>1, <1>3, <2>1 DEF Phase, LifeInv, StateOK
  <2>8. Lives
    BY <1>1, <2>1, <2>7 DEF Lives, Lifecycle!Next, Lifecycle!Take
  <2> QED
    BY <2>3, <2>6, <2>8 DEF LifeInv
<1> QED
  BY <1>2, <1>3 DEF StopPort

LEMMA StopDeviceLives ==
  ASSUME DevicesStop, LifeInv, NEW t \in Threads, NEW p \in Ports \cup {All},
         StopDevice(t, p), UNCHANGED setup_on_probe_event
  PROVE  LifeInv' /\ Lives
<1>0. JobsOK
  BY DEF LifeInv
<1>1. /\ Doing(t, "halt", p) /\ Then(t, <<>>)
      /\ UNCHANGED <<attached, probed, need_setup>>
      /\ running' = running \ {p}
      /\ SetStatus(p, "STOPPED")
  BY DEF StopDevice, DevicesStop
<1>2. p \in Ports /\ Inside(t, p, {"halt"})
  BY <1>0, <1>1, DoingStep DEF Step, Outer, Inner, OuterOps
<1>3. port_status[p] = "HANDLING" /\ p \in running /\ p \in attached
  BY <1>2 DEF LifeInv, InHands, StateOK
<1>4. port_status' = [port_status EXCEPT ![p] = "STOPPED"]
  BY <1>1, <1>3 DEF SetStatus
<1>5. Leaves(t)
  BY <1>0, <1>1, EmptySeq, ThenLeaves
<1>6. JobsOK' /\ StateOK' /\ Honest'
  BY <1>1, <1>3, <1>4, <1>5 DEF Leaves, LifeInv, StateOK, Honest, Statuses
<1>7. \A u \in Threads, q \in Ports, ops \in {StartOps, {"halt"}} :
        Inside(u, q, ops)' => u # t /\ Inside(u, q, ops)
  BY <1>5, InsideAfterLeaving, OpsSets
<1>8. \A u \in Threads : u # t => ~Inside(u, p, {"halt"})
  BY <1>2 DEF LifeInv, InHands, Threads
<1>9. InHands'
  BY <1>1, <1>2, <1>3, <1>4, <1>7, <1>8, OpsSets
     DEF LifeInv, StateOK, InHands, Threads
<1>10. Phase[p] = "handled" /\ Phase' = [Phase EXCEPT ![p] = "stopped"]
  BY <1>1, <1>2, <1>3, <1>4 DEF Phase, LifeInv, StateOK
<1>11. Lives
  BY <1>1, <1>2, <1>10 DEF Lives, Lifecycle!Next, Lifecycle!Release
<1> QED
  BY <1>6, <1>9, <1>11 DEF LifeInv

\* No thread enters a port.
NoneEnters ==
  /\ JobsOK'
  /\ \A u \in Threads, q \in Ports, ops \in {StartOps, {"halt"}} :
       Inside(u, q, ops)' => Inside(u, q, ops)

LEMMA LeavingEntersNone ==
  ASSUME NEW t \in Threads, Leaves(t)
  PROVE  NoneEnters
<1>1. JobsOK'
  BY DEF Leaves
<1> QED
  BY <1>1, InsideAfterLeaving, OpsSets DEF NoneEnters

LEMMA SameJobs ==
  ASSUME JobsOK, UNCHANGED job
  PROVE  NoneEnters
  BY DEF NoneEnters, JobsOK, JobOK, Inside

\* Ethdev takes away ports whose devices do not run.
LEMMA DestroyLives ==
  ASSUME LifeInv, NoneEnters, NEW S \in SUBSET Ports, S \cap running = {},
         Destroy(S), \A p \in attached \ S : DeviceOf[p] \in probed',
         UNCHANGED <<need_setup, setup_on_probe_event>>
  PROVE  LifeInv' /\ Lives
<1>1. /\ attached' = attached \ S /\ running' = running
      /\ port_status' = [p \in Ports |-> IF p \in S THEN "CLOSED"
                                         ELSE port_status[p]]
  BY DEF Destroy
<1>2. JobsOK' /\ StateOK' /\ Honest'
  BY <1>1 DEF NoneEnters, LifeInv, StateOK, Honest, Statuses
<1>3. InHands'
  BY <1>1, OpsSets DEF NoneEnters, LifeInv, StateOK, InHands
<1>4. Phase' = [p \in Ports |-> IF p \in S THEN "absent" ELSE Phase[p]]
  BY <1>1 DEF Phase, LifeInv, StateOK
<1>5. Lives
  BY <1>1, <1>4 DEF Lives, Lifecycle!Next, Lifecycle!Remove
<1> QED
  BY <1>2, <1>3, <1>5 DEF LifeInv

LEMMA DetachLives ==
  ASSUME LifeInv, NoneEnters, NEW d, DetachDevice(d),
         UNCHANGED <<need_setup, setup_on_probe_event>>
  PROVE  LifeInv' /\ Lives
<1> DEFINE siblings == {p \in attached : DeviceOf[p] = d}
<1>1. CASE /\ \A p \in siblings : port_status[p] = "STOPPED"
           /\ Destroy(siblings) /\ probed' = probed \ {d}
  <2>1. siblings \in SUBSET Ports /\ siblings \cap running = {}
    BY <1>1 DEF LifeInv, StateOK, Honest
  <2>2. \A p \in attached \ siblings : DeviceOf[p] \in probed'
    BY <1>1 DEF LifeInv, StateOK
  <2> HIDE DEF siblings
  <2> QED
    BY <1>1, <2>1, <2>2, DestroyLives
<1>2. CASE UNCHANGED <<devices, port_status>>
  <2>1. PortsStay
    BY <1>2 DEF devices, PortsStay
  <2>2. StateOK' /\ Honest' /\ InHands'
    BY <2>1, OpsSets
       DEF PortsStay, NoneEnters, LifeInv, StateOK, Honest, InHands
  <2> QED
    BY <2>1, <2>2, Stutter DEF NoneEnters, LifeInv
<1> QED
  BY <1>1, <1>2 DEF DetachDevice

LEMMA ClosePortLives ==
  ASSUME LifeInv, NEW t \in Threads, NEW p, ClosePort(t, p),
         UNCHANGED setup_on_probe_event
  PROVE  LifeInv' /\ Lives
<1>0. JobsOK
  BY DEF LifeInv
<1>1. /\ Doing(t, "close", p) /\ Then(t, <<>>)
      /\ UNCHANGED <<probed, need_setup>>
  BY DEF ClosePort
<1>2. Leaves(t)
  BY <1>0, <1>1, EmptySeq, ThenLeaves
<1>3. CASE p \in attached /\ p \notin running /\ Destroy({p})
  <2>1. {p} \in SUBSET Ports /\ {p} \cap running = {}
    BY <1>3 DEF LifeInv, StateOK
  <2>2. \A q \in attached \ {p} : DeviceOf[q] \in probed'
    BY <1>1 DEF LifeInv, StateOK
  <2> QED
    BY <1>1, <1>2, <1>3, <2>1, <2>2, LeavingEntersNone, DestroyLives
<1>4. CASE UNCHANGED <<attached, running, port_status>>
  BY <1>1, <1>2, <1>4, LeavingPortsAlone DEF PortsStay
<1> QED
  BY <1>3, <1>4 DEF ClosePort

LEMMA AttachLives ==
  ASSUME LifeInv, job["main"] = <<>>, NEW d, AttachPort(d),
         UNCHANGED <<job, setup_on_probe_event>>
  PROVE  LifeInv' /\ Lives
<1> DEFINE new == IF d \in probed THEN {} ELSE {p \in Ports : DeviceOf[p] = d}
<1>0. need_setup = {} /\ setup_on_probe_event
  BY DEF LifeInv, StateOK
<1>1. SetupAttachedPorts(new)
  BY <1>0 DEF AttachPort
<1>2. /\ attached' = attached \cup new /\ probed' = probed \cup {d}
      /\ running' = running
  BY DEF AttachPort
<1>3. new \subseteq Ports /\ new \cap attached = {}
      /\ \A p \in new : DeviceOf[p] = d
  BY DEF LifeInv, StateOK
<1> HIDE DEF new
<1>4. /\ port_status' = [q \in Ports |-> IF q \in new THEN "STOPPED"
                                         ELSE port_status[q]]
      /\ need_setup' = {}
  BY <1>0, <1>1, <1>2, <1>3 DEF SetupAttachedPorts
<1>5. NoneEnters
  BY SameJobs DEF LifeInv
<1>6. JobsOK' /\ StateOK' /\ Honest'
  BY <1>2, <1>3, <1>4, <1>5
     DEF NoneEnters, LifeInv, StateOK, Honest, Statuses
<1>7. \A q \in Ports : ~Inside("main", q, StartOps)
  BY DEF Inside
<1>8. InHands'
  BY <1>2, <1>3, <1>4, <1>5, <1>7, OpsSets
     DEF NoneEnters, LifeInv, StateOK, InHands
<1>9. Phase' = [q \in Ports |-> IF q \in new THEN "stopped" ELSE Phase[q]]
  BY <1>2, <1>3, <1>4 DEF Phase, LifeInv, StateOK
<1>10. \A q \in new : Phase[q] = "absent"
  BY <1>3 DEF Phase
<1>11. Lives
  <2>1. CASE new = {}
    <3>1. Phase' = Phase
      BY <1>9, <2>1 DEF Phase
    <3> QED
      BY <1>2, <3>1 DEF Lives, Lifecycle!vars
  <2>2. CASE new # {}
    BY <1>2, <1>3, <1>9, <1>10, <2>2 DEF Lives, Lifecycle!Next, Lifecycle!Attach
  <2> QED
    BY <2>1, <2>2
<1> QED
  BY <1>6, <1>8, <1>11 DEF LifeInv

LEMMA PortStepLives ==
  ASSUME DevicesStop, LifeInv, NEW t \in Threads, NEW p \in Ports \cup {All},
         PortSteps(t, p)
  PROVE  LifeInv' /\ Lives
<1>1. UNCHANGED setup_on_probe_event /\ JobsOK
  BY DEF PortSteps, LifeInv
<1>2. CASE StartPort(t, p)
  BY <1>1, <1>2, StartPortLives
<1>3. CASE ConfigureDevice(t, p)
  BY <1>1, <1>3, ConfigureDeviceLives
<1>4. CASE SetupQueues(t, p)
  BY <1>1, <1>4, SetupQueuesLives
<1>5. CASE StartDevice(t, p)
  BY <1>1, <1>5, StartDeviceLives
<1>6. CASE StopPort(t, p)
  BY <1>1, <1>6, StopPortLives
<1>7. CASE StopDevice(t, p)
  BY <1>1, <1>7, StopDeviceLives
<1>8. CASE ClosePort(t, p)
  BY <1>1, <1>8, ClosePortLives
<1>9. CASE ResetPort(t, p)
  <2>1. Doing(t, "reset", p) /\ Then(t, <<>>)
        /\ UNCHANGED <<devices, port_status, need_setup>>
    BY <1>9 DEF ResetPort
  <2>2. Leaves(t)
    BY <1>1, <2>1, EmptySeq, ThenLeaves
  <2> QED
    BY <1>1, <2>1, <2>2, LeavingPortsAlone DEF PortsStay, devices
<1> QED
  BY <1>2, <1>3, <1>4, <1>5, <1>6, <1>7, <1>8, <1>9 DEF PortSteps

\* The other steps of a thread.
LEMMA OtherStepLives ==
  ASSUME LifeInv, NEW t \in Threads, NEW p \in Ports \cup {All},
         \/ Prune(t, p) \/ ForwardingSteps(t, p)
         \/ RmvClose(t, p) \/ RmvDetach(t, p)
  PROVE  LifeInv' /\ Lives
<1>0. JobsOK /\ t \in {"main", "intr"}
  BY DEF LifeInv, Threads
<1>1. CASE Prune(t, p)
  <2>1. Doing(t, "prune", p) /\ Then(t, <<>>) /\ PortsStay
    BY <1>1 DEF Prune, PortsStay, devices, records
  <2> QED
    BY <1>0, <2>1, EmptySeq, ThenLeaves, LeavingPortsAlone
<1>2. CASE ForwardingSteps(t, p)
  <2>1. PortsStay
    BY <1>2 DEF ForwardingSteps, PortsStay, devices, records
  <2>2. <<Step("fwd_launch", p)>> \in Seq(Outer(t)) /\ <<>> \in Seq(Outer(t))
    BY OneStep, EmptySeq DEF OuterOps
  <2>3. Leaves(t)
    BY <1>0, <1>2, <2>2, ThenLeaves
       DEF ForwardingSteps, StartForwarding, LaunchForwarding, StopForwarding
  <2> QED
    BY <2>1, <2>3, LeavingPortsAlone
<1>3. CASE RmvClose(t, p)
  <2>1. Doing(t, "rmv", p) /\ PortsStay
    BY <1>3 DEF RmvClose, PortsStay, devices, records
  <2>2. t = "intr"
    BY <1>0, <2>1, DoingStep DEF Step, Outer, Inner, OuterOps, InnerOps, StartOps
  <2>3. Append(ClosePortSteps(p), Step("detach", p)) \in Seq(Outer(t))
    <3>1. Step("detach", p) \in Outer(t)
      BY <2>2 DEF Step, Outer, OuterOps
    <3> QED
      BY <3>1, ClosePortStepsType, AppendProperties
  <2>4. \/ Then(t, Append(ClosePortSteps(p), Step("detach", p)))
        \/ Then(t, <<>>)
    BY <1>3 DEF RmvClose
  <2>5. Leaves(t)
    BY <1>0, <2>1, <2>3, <2>4, EmptySeq, ThenLeaves
  <2> QED
    BY <2>1, <2>5, LeavingPortsAlone
<1>4. CASE RmvDetach(t, p)
  <2>1. /\ Doing(t, "detach", p) /\ Then(t, <<>>)
        /\ DetachDevice(DeviceOf[p])
        /\ UNCHANGED <<need_setup, setup_on_probe_event>>
    BY <1>4 DEF RmvDetach
  <2>2. Leaves(t)
    BY <1>0, <2>1, EmptySeq, ThenLeaves
  <2> QED
    BY <2>1, <2>2, LeavingEntersNone, DetachLives
<1> QED
  BY <1>1, <1>2, <1>3, <1>4

\* A command of the operator, or a signal.
LEMMA OperatorLives ==
  ASSUME DevicesStop, LifeInv, Operator
  PROVE  LifeInv' /\ Lives
<1>0. JobsOK /\ "main" \in Threads
  BY DEF LifeInv, Threads
<1>1. ASSUME NEW steps \in Seq(Outer("main")), Runs(steps), PortsStay
      PROVE  LifeInv' /\ Lives
  BY <1>0, <1>1, SetLeaves, LeavingPortsAlone DEF Runs
<1>2. ASSUME NEW pid \in Ports \cup {All}, OperatePort(pid)
      PROVE  LifeInv' /\ Lives
  <2>1. PortsStay
    BY <1>2 DEF OperatePort, PortsStay, devices, records
  <2>2. /\ ForEach("start", pid) \in Seq(Outer("main"))
        /\ ForEach("stop", pid) \in Seq(Outer("main"))
        /\ ForEach("reset", pid) \in Seq(Outer("main"))
        /\ ClosePortSteps(pid) \in Seq(Outer("main"))
    <3>1. {"start", "stop", "reset"} \subseteq OuterOps("main")
      BY DEF OuterOps
    <3> QED
      BY <3>1, ForEachType, ClosePortStepsType
  <2> QED
    BY <1>1, <1>2, <2>1, <2>2 DEF OperatePort
<1>3. CASE OperateForwarding
  <2>1. PortsStay
    BY <1>3 DEF OperateForwarding, PortsStay, devices, records
  <2>2. /\ <<Step("fwd_start", All)>> \in Seq(Outer("main"))
        /\ <<Step("fwd_stop", All)>> \in Seq(Outer("main"))
    <3>1. {"fwd_start", "fwd_stop"} \subseteq OuterOps("main")
      BY DEF OuterOps
    <3> QED
      BY <3>1, OneStep
  <2> QED
    BY <1>1, <1>3, <2>1, <2>2 DEF OperateForwarding
<1>4. CASE Quit \/ SignalHandler
  <2>1. PortsStay /\ Runs(ExitSteps)
    BY <1>4 DEF Quit, SignalHandler, PortsStay, devices, records
  <2> QED
    BY <1>1, <2>1, ExitStepsType
<1>5. ASSUME NEW d, OperateAttach(d)
      PROVE  LifeInv' /\ Lives
  BY <1>5, AttachLives DEF OperateAttach, Command
<1>6. ASSUME NEW d, OperateDetach(d)
      PROVE  LifeInv' /\ Lives
  BY <1>0, <1>6, SameJobs, DetachLives DEF OperateDetach
<1>7. ASSUME PortsStay, UNCHANGED job
      PROVE  LifeInv' /\ Lives
  <2>1. NoneEnters
    BY <1>0, <1>7, SameJobs
  <2>2. StateOK' /\ Honest' /\ InHands'
    BY <1>7, <2>1, OpsSets
       DEF PortsStay, NoneEnters, LifeInv, StateOK, Honest, InHands
  <2> QED
    BY <1>7, <2>1, <2>2, Stutter DEF NoneEnters, LifeInv
<1>8. ASSUME NEW mode \in ProbeModes, SetPortSetupOn(mode)
      PROVE  LifeInv' /\ Lives
  <2>1. setup_on_probe_event' = setup_on_probe_event
    BY <1>8 DEF SetPortSetupOn, DevicesStop, LifeInv, StateOK
  <2> QED
    BY <1>7, <1>8, <2>1 DEF SetPortSetupOn, PortsStay, devices, records
<1>9. ASSUME NEW S, SetPortList(S)
      PROVE  LifeInv' /\ Lives
  BY <1>7, <1>9 DEF SetPortList, PortsStay, devices, records
<1>10. ASSUME NEW c, NEW pid, Configure(c, pid)
       PROVE  LifeInv' /\ Lives
  BY <1>7, <1>10 DEF Configure, PortsStay, devices
<1> QED
  BY <1>2, <1>3, <1>4, <1>5, <1>6, <1>8, <1>9, <1>10 DEF Operator

LEMMA NextLives ==
  ASSUME DevicesStop, LifeInv, [Next]_vars
  PROVE  LifeInv' /\ Lives
<1>0. JobsOK /\ "intr" \in Threads
  BY DEF LifeInv, Threads
<1>1. CASE Operator
  BY <1>1, OperatorLives
<1>2. CASE \E t \in Threads : ThreadStep(t)
  BY <1>2, PortStepLives, OtherStepLives DEF ThreadStep
<1>3. ASSUME PortsStay, UNCHANGED job
      PROVE  LifeInv' /\ Lives
  <2>1. NoneEnters
    BY <1>0, <1>3, SameJobs
  <2>2. StateOK' /\ Honest' /\ InHands'
    BY <1>3, <2>1, OpsSets
       DEF PortsStay, NoneEnters, LifeInv, StateOK, Honest, InHands
  <2> QED
    BY <1>3, <2>1, <2>2, Stutter DEF NoneEnters, LifeInv
<1>4. CASE UNCHANGED vars
  BY <1>3, <1>4 DEF vars, devices, records, PortsStay
<1>5. ASSUME NEW p \in Ports, RemovalEvent(p)
      PROVE  LifeInv' /\ Lives
  BY <1>3, <1>5 DEF RemovalEvent, devices, records, PortsStay
<1>6. ASSUME NEW p \in Ports, RmvPortCallback(p)
      PROVE  LifeInv' /\ Lives
  <2>1. PortsStay
    BY <1>6 DEF RmvPortCallback, devices, records, PortsStay
  <2> DEFINE work == <<Step("stop", p), Step("rmv", p)>>
  <2>2. /\ Step("stop", p) \in Outer("intr") /\ Step("rmv", p) \in Outer("intr")
        /\ <<Step("fwd_stop", p)>> \in Seq(Outer("intr"))
        /\ <<Step("fwd_start", p)>> \in Seq(Outer("intr"))
    <3>1. {"stop", "rmv", "fwd_stop", "fwd_start"} \subseteq OuterOps("intr")
      BY DEF OuterOps
    <3> QED
      BY <3>1, OneStep
  <2>3. work \in Seq(Outer("intr")) /\ <<>> \in Seq(Outer("intr"))
    BY <2>2, EmptySeq
  <2> HIDE DEF work
  <2>4. <<Step("fwd_stop", p)>> \o work \in Seq(Outer("intr"))
    BY <2>2, <2>3, ConcatProperties
  <2>5. (<<Step("fwd_stop", p)>> \o work) \o <<Step("fwd_start", p)>>
           \in Seq(Outer("intr"))
    BY <2>2, <2>4, ConcatProperties
  <2>6. \/ job' = [job EXCEPT !["intr"] = <<>>]
        \/ job' = [job EXCEPT !["intr"] = work]
        \/ job' = [job EXCEPT !["intr"] =
             (<<Step("fwd_stop", p)>> \o work) \o <<Step("fwd_start", p)>>]
    BY <1>6 DEF RmvPortCallback, work
  <2>7. Leaves("intr")
    BY <1>0, <2>3, <2>5, <2>6, SetLeaves
  <2> QED
    BY <1>0, <2>1, <2>7, LeavingPortsAlone
<1> QED
  BY <1>1, <1>2, <1>4, <1>5, <1>6 DEF Next

LEMMA InitLives == ASSUME DevicesStop, Init PROVE LifeInv /\ Lifecycle!Init
<1>1. StateOK /\ Honest
  BY DEF Init, StateOK, Honest, Statuses, DevicesStop
<1>2. \A t \in Threads : job[t] = <<>>
  BY DEF Init
<1>3. JobsOK
  BY <1>2, EmptySeq DEF Init, JobsOK, JobOK
<1>4. InHands
  BY <1>2 DEF InHands, Inside, Threads
<1>5. Lifecycle!Init
  BY DEF Init, Lifecycle!Init, Phase
<1> QED
  BY <1>1, <1>3, <1>4, <1>5 DEF LifeInv

\* The two threads implement the life of the ports, whatever the operator
\* does, the devices report and the signals interrupt: a device is started
\* and stopped only by the thread that has its port in its hands.
THEOREM LifecycleImplemented ==
  ASSUME DevicesStop
  PROVE  Spec => ImplementsLifecycle
<1>1. Init => LifeInv /\ Lifecycle!Init
  BY InitLives
<1>2. LifeInv /\ [Next]_vars => LifeInv' /\ [Lifecycle!Next]_(Lifecycle!vars)
  BY NextLives DEF Lives
<1> QED
  BY <1>1, <1>2, PTL DEF Spec, ImplementsLifecycle, Lifecycle!Spec

-----------------------------------------------------------------------------
(* port_status between commands.                                           *)

\* No call fails that makes start_port or stop_port return with the port in
\* its hands.
HandsGivenBack ==
  Failures \cap {"isolate", "hairpin", "mempool", "peers"} = {}

\* A port in HANDLING is in the hands of a thread.
Held ==
  \A p \in attached :
    port_status[p] = "HANDLING" => \E t \in Threads : Within(t, p)

\* No port gets into HANDLING, and only a thread inside no port moves.
LEMMA HeldKept ==
  ASSUME Held, NEW t \in Threads, OthersStay(t),
         \A q \in attached : ~Within(t, q),
         \A q \in attached' : port_status'[q] = "HANDLING" =>
           q \in attached /\ port_status[q] = "HANDLING"
  PROVE  Held'
  BY DEF Held, OthersStay, Within, Inside

\* The thread moves from port p only.
LEMMA HeldStep ==
  ASSUME LifeInv, Held, NEW t \in Threads, NEW op, NEW p, Doing(t, op, p),
         OthersStay(t),
         \A q \in attached' : q # p /\ port_status'[q] = "HANDLING" =>
           q \in attached /\ port_status[q] = "HANDLING",
         p \in attached' /\ port_status'[p] = "HANDLING" =>
           \/ Within(t, p)'
           \/ p \in attached /\ port_status[p] = "HANDLING" /\ ~Within(t, p)
  PROVE  Held'
<1>1. \A q : Within(t, q) => q = p
  BY DoingStep DEF LifeInv, Within
<1>2. \A u \in Threads \ {t} : \A q : Within(u, q) => Within(u, q)'
  BY DEF OthersStay, Within, Inside
<1> QED
  BY <1>1, <1>2 DEF Held

LEMMA ThenOthers ==
  ASSUME JobsOK, NEW t, NEW steps, Then(t, steps) \/ Returns(t)
  PROVE  OthersStay(t)
  BY DEF JobsOK, Then, Returns, OthersStay

LEMMA PortStepHeld ==
  ASSUME HandsGivenBack, DevicesStop, LifeInv, Held, NEW t \in Threads,
         NEW p \in Ports \cup {All}, PortSteps(t, p)
  PROVE  Held'
<1>0. JobsOK /\ port_status \in [Ports -> Statuses] /\ attached \subseteq Ports
  BY DEF LifeInv, StateOK
<1>1. ASSUME NEW op, NEW next \in {"halt"} \cup StartOps, Doing(t, op, p),
             Then(t, <<Step(next, p)>>), p \in Ports, next \in InnerOps(t)
      PROVE  Within(t, p)' /\ OthersStay(t)
  <2>1. Enters(t, next, p)
    BY <1>0, <1>1, ThenEnters
  <2> QED
    BY <1>1, <2>1 DEF Enters, Within, Inside, Step
<1>2. CASE StartPort(t, p)
  <2>1. Doing(t, "start", p) /\ attached' = attached /\ OthersStay(t)
    BY <1>0, <1>2, ThenOthers DEF StartPort, devices
  <2>2. t = "main"
    BY <1>0, <2>1, DoingStep DEF Step, Outer, Inner, OuterOps, InnerOps,
       StartOps, Threads
  <2>3. ~Within(t, p)
    BY <1>0, <2>1, DoingStep DEF Within, StartOps
  <2>4. CASE p \in attached /\ port_status[p] = "STOPPED"
    <3>1. Within(t, p)'
      BY <1>0, <1>1, <1>2, <2>1, <2>2, <2>4 DEF StartPort, StartOps, InnerOps
    <3> QED
      BY <1>0, <1>2, <2>1, <2>4, <3>1, HeldStep DEF StartPort
  <2>5. CASE ~(p \in attached /\ port_status[p] = "STOPPED")
    <3>1. port_status' = port_status
      BY <1>2, <2>5 DEF StartPort
    <3> QED
      BY <2>1, <2>3, <3>1, HeldStep
  <2> QED
    BY <2>4, <2>5
<1>3. CASE ConfigureDevice(t, p) \/ SetupQueues(t, p)
  <2>1. PICK op \in {"configure", "queues"} :
          /\ Doing(t, op, p) /\ attached' = attached
          /\ \/ /\ \E next \in {"queues", "device"} : Then(t, <<Step(next, p)>>)
                /\ port_status' = port_status
             \/ Returns(t) /\ SetStatus(p, "STOPPED")
    BY <1>3 DEF ConfigureDevice, SetupQueues, devices, HandsGivenBack
  <2>2. t = "main" /\ p \in Ports
    BY <2>1, Starting DEF StartOps
  <2>3. CASE \E next \in {"queues", "device"} : Then(t, <<Step(next, p)>>)
             /\ port_status' = port_status
    <3>1. Within(t, p)' /\ OthersStay(t)
      BY <1>1, <2>1, <2>2, <2>3 DEF StartOps, InnerOps
    <3> QED
      BY <2>1, <2>3, <3>1, HeldStep
  <2>4. CASE Returns(t) /\ SetStatus(p, "STOPPED")
    <3>1. OthersStay(t)
      BY <1>0, <2>4, ThenOthers
    <3>2. port_status' = [port_status EXCEPT ![p] =
                            IF @ = "HANDLING" THEN "STOPPED" ELSE @]
      BY <2>4 DEF SetStatus
    <3> QED
      BY <1>0, <2>1, <2>2, <3>1, <3>2, HeldStep
  <2> QED
    BY <2>1, <2>3, <2>4
<1>4. CASE StartDevice(t, p)
  <2>1. /\ Doing(t, "device", p) /\ attached' = attached /\ OthersStay(t)
        /\ SetStatus(p, "STARTED") \/ SetStatus(p, "STOPPED")
    BY <1>0, <1>4, ThenOthers DEF StartDevice
  <2>2. p \in Ports
    BY <2>1, Starting DEF StartOps
  <2>3. \/ port_status' = [port_status EXCEPT ![p] =
                             IF @ = "HANDLING" THEN "STARTED" ELSE @]
        \/ port_status' = [port_status EXCEPT ![p] =
                             IF @ = "HANDLING" THEN "STOPPED" ELSE @]
    BY <2>1 DEF SetStatus
  <2> QED
    BY <1>0, <2>1, <2>2, <2>3, HeldStep
<1>5. CASE StopPort(t, p)
  <2>1. Doing(t, "stop", p) /\ attached' = attached /\ OthersStay(t)
    BY <1>0, <1>5, ThenOthers DEF StopPort, devices
  <2>2. ~Within(t, p)
    BY <1>0, <2>1, DoingStep DEF Within, StartOps
  <2>3. CASE p \in attached /\ port_status' = [port_status EXCEPT ![p] = "HANDLING"]
             /\ Then(t, <<Step("halt", p)>>)
    <3>1. Within(t, p)'
      BY <1>0, <1>1, <2>1, <2>3 DEF InnerOps
    <3> QED
      BY <1>0, <2>1, <2>3, <3>1, HeldStep
  <2>4. CASE port_status' = port_status
    BY <2>1, <2>2, <2>4, HeldStep
  <2> QED
    BY <1>5, <2>3, <2>4 DEF StopPort, HandsGivenBack
<1>6. CASE StopDevice(t, p)
  <2>1. /\ Doing(t, "halt", p) /\ attached' = attached /\ OthersStay(t)
        /\ SetStatus(p, "STOPPED")
    BY <1>0, <1>6, ThenOthers DEF StopDevice
  <2>2. port_status' = [port_status EXCEPT ![p] =
                          IF @ = "HANDLING" THEN "STOPPED" ELSE @]
    BY <2>1 DEF SetStatus
  <2> QED
    BY <1>0, <2>1, <2>2, HeldStep
<1>7. CASE ClosePort(t, p)
  <2>1. /\ Doing(t, "close", p) /\ OthersStay(t)
        /\ Destroy({p}) \/ UNCHANGED <<attached, port_status>>
    BY <1>0, <1>7, ThenOthers DEF ClosePort
  <2>2. ~Within(t, p)
    BY <1>0, <2>1, DoingStep DEF Within, StartOps
  <2> QED
    BY <1>0, <2>1, <2>2, HeldStep DEF Destroy
<1>8. CASE ResetPort(t, p)
  <2>1. /\ Doing(t, "reset", p) /\ OthersStay(t)
        /\ UNCHANGED <<attached, port_status>>
    BY <1>0, <1>8, ThenOthers DEF ResetPort, devices
  <2>2. ~Within(t, p)
    BY <1>0, <2>1, DoingStep DEF Within, StartOps
  <2> QED
    BY <2>1, <2>2, HeldStep
<1> QED
  BY <1>2, <1>3, <1>4, <1>5, <1>6, <1>7, <1>8 DEF PortSteps

LEMMA DestroyHeld ==
  ASSUME NEW S, Destroy(S), attached \subseteq Ports
  PROVE  \A q \in attached' : port_status'[q] = "HANDLING" =>
           q \in attached /\ port_status[q] = "HANDLING"
  BY DEF Destroy

LEMMA DetachHeld ==
  ASSUME NEW d, DetachDevice(d), attached \subseteq Ports
  PROVE  \A q \in attached' : port_status'[q] = "HANDLING" =>
           q \in attached /\ port_status[q] = "HANDLING"
<1>1. CASE \E S : Destroy(S)
  BY <1>1, DestroyHeld
<1>2. CASE UNCHANGED <<devices, port_status>>
  BY <1>2 DEF devices
<1> QED
  BY <1>1, <1>2 DEF DetachDevice

LEMMA OtherStepHeld ==
  ASSUME LifeInv, Held, NEW t \in Threads, NEW p \in Ports \cup {All},
         \/ Prune(t, p) \/ ForwardingSteps(t, p)
         \/ RmvClose(t, p) \/ RmvDetach(t, p)
  PROVE  Held'
<1>0. JobsOK /\ attached \subseteq Ports
  BY DEF LifeInv, StateOK
<1>1. PICK op \in {"prune", "fwd_start", "fwd_launch", "fwd_stop", "rmv",
                   "detach"} :
        Doing(t, op, p) /\ \E steps : Then(t, steps)
  BY DEF Prune, ForwardingSteps, StartForwarding, LaunchForwarding,
     StopForwarding, RmvClose, RmvDetach
<1>2. OthersStay(t) /\ \A q : ~Within(t, q)
  <2>1. PICK steps : Then(t, steps)
    BY <1>1
  <2> QED
    BY <1>0, <1>1, <2>1, ThenOthers, DoingStep DEF Within, StartOps
<1>3. \A q \in attached' : port_status'[q] = "HANDLING" =>
        q \in attached /\ port_status[q] = "HANDLING"
  <2>1. CASE UNCHANGED <<devices, port_status>>
    BY <2>1 DEF devices
  <2>2. CASE DetachDevice(DeviceOf[p])
    BY <1>0, <2>2, DetachHeld
  <2> QED
    BY <2>1, <2>2 DEF Prune, ForwardingSteps, RmvClose, RmvDetach, records
<1> QED
  BY <1>2, <1>3, HeldKept

LEMMA NextHeld ==
  ASSUME HandsGivenBack, DevicesStop, LifeInv, Held, [Next]_vars,
         ~SignalHandler
  PROVE  Held'
<1>0. /\ JobsOK /\ attached \subseteq Ports /\ need_setup = {}
      /\ setup_on_probe_event /\ Threads = {"main", "intr"}
  BY DEF LifeInv, StateOK, Threads
<1>1. ASSUME UNCHANGED <<attached, port_status, job>>
      PROVE  Held'
  BY <1>1 DEF Held, Within, Inside
<1>2. ASSUME NEW t \in Threads, job[t] = <<>>, OthersStay(t),
             \A q \in attached' : port_status'[q] = "HANDLING" =>
               q \in attached /\ port_status[q] = "HANDLING"
      PROVE  Held'
  <2>1. \A q \in attached : ~Within(t, q)
    BY <1>2 DEF Within, Inside
  <2> QED
    BY <1>2, <2>1, HeldKept
<1>3. CASE UNCHANGED vars
  BY <1>1, <1>3 DEF vars, devices, records
<1>4. CASE \E p \in Ports : RemovalEvent(p)
  BY <1>1, <1>4 DEF RemovalEvent, devices, records
<1>5. CASE \E p \in Ports : RmvPortCallback(p)
  <2>1. job["intr"] = <<>> /\ UNCHANGED <<attached, port_status>>
    BY <1>5 DEF RmvPortCallback, devices, records
  <2>2. OthersStay("intr")
    BY <1>0, <1>5 DEF RmvPortCallback, OthersStay, JobsOK
  <2> QED
    BY <1>0, <1>2, <2>1, <2>2
<1>6. CASE \E t \in Threads : ThreadStep(t)
  BY <1>6, PortStepHeld, OtherStepHeld DEF ThreadStep
<1>7. CASE Operator
  <2>1. ASSUME Command, NEW steps, Runs(steps) \/ UNCHANGED job,
               \A q \in attached' : port_status'[q] = "HANDLING" =>
                 q \in attached /\ port_status[q] = "HANDLING"
        PROVE  Held'
    <3>1. job["main"] = <<>>
      BY <2>1 DEF Command
    <3>2. OthersStay("main")
      BY <1>0, <2>1 DEF Runs, OthersStay, JobsOK
    <3> QED
      BY <1>0, <1>2, <2>1, <3>1, <3>2
  <2>2. CASE \/ \E pid \in Ports \cup {All} : OperatePort(pid)
             \/ OperateForwarding \/ Quit
    BY <2>1, <2>2 DEF OperatePort, OperateForwarding, Quit, devices, records
  <2>3. CASE SignalHandler
    BY <2>3
  <2>4. ASSUME NEW d, OperateAttach(d)
        PROVE  Held'
    <3> DEFINE new == IF d \in probed THEN {}
                      ELSE {p \in Ports : DeviceOf[p] = d}
    <3>1. /\ Command /\ UNCHANGED job
          /\ attached' = attached \cup new /\ SetupAttachedPorts(new)
      BY <1>0, <2>4 DEF OperateAttach, AttachPort
    <3>2. new \subseteq Ports
      OBVIOUS
    <3> HIDE DEF new
    <3>3. port_status' = [q \in Ports |-> IF q \in new THEN "STOPPED"
                                          ELSE port_status[q]]
      BY <3>1, <3>2 DEF SetupAttachedPorts
    <3>4. \A q \in attached' : port_status'[q] = "HANDLING" =>
            q \in attached /\ port_status[q] = "HANDLING"
      BY <1>0, <3>1, <3>2, <3>3
    <3> QED
      BY <2>1, <3>1, <3>4
  <2>5. ASSUME NEW d, OperateDetach(d)
        PROVE  Held'
    BY <1>0, <2>1, <2>5, DetachHeld DEF OperateDetach
  <2>6. ASSUME NEW mode, SetPortSetupOn(mode)
        PROVE  Held'
    BY <1>1, <2>6 DEF SetPortSetupOn, devices, records
  <2>7. ASSUME NEW S, SetPortList(S)
        PROVE  Held'
    BY <1>1, <2>7 DEF SetPortList, devices, records
  <2>8. ASSUME NEW c, NEW pid, Configure(c, pid)
        PROVE  Held'
    BY <1>1, <2>8 DEF Configure, devices
  <2> QED
    BY <1>7, <2>2, <2>3, <2>4, <2>5, <2>6, <2>7, <2>8 DEF Operator
<1> QED
  BY <1>3, <1>4, <1>5, <1>6, <1>7 DEF Next

-----------------------------------------------------------------------------
(* A signal takes the main thread away from the port it has in its hands:  *)
(* what remains is to exit, and no command follows.                        *)

ExitOps == {"fwd_stop", "stop", "halt", "close", "prune", "exited"}
ExitStep == [op : ExitOps, port : Ports \cup {All}]
Leaving ==
  /\ job["main"] \in Seq(ExitStep) /\ job["main"] # <<>>
  /\ job["main"][Len(job["main"])].op = "exited"

LEMMA ExitLast ==
  ASSUME NEW a \in Seq(ExitStep)
  PROVE  LET j == a \o <<Step("exited", All)>>
         IN  j \in Seq(ExitStep) /\ j # <<>> /\ j[Len(j)].op = "exited"
<1> DEFINE e == <<Step("exited", All)>>
           j == a \o e
<1>1. /\ e \in Seq(ExitStep) /\ Len(e) = 1 /\ e[1].op = "exited"
      /\ Len(a) \in Nat
  <2>1. Step("exited", All) \in ExitStep
    BY DEF Step, ExitStep, ExitOps
  <2> QED
    BY <2>1, LenProperties DEF Step
<1> HIDE DEF e
<1>2. /\ j \in Seq(ExitStep) /\ Len(j) = Len(a) + 1
      /\ \A i \in 1 .. Len(j) : j[i] = IF i <= Len(a) THEN a[i]
                                       ELSE e[i - Len(a)]
  BY <1>1, ConcatProperties
<1> HIDE DEF j
<1>3. j[Len(j)] = e[1] /\ j # <<>>
  BY <1>1, <1>2
<1> QED
  BY <1>1, <1>2, <1>3 DEF j, e

LEMMA ExitStepsLeave ==
  ASSUME job' = [job EXCEPT !["main"] = ExitSteps], JobsOK
  PROVE  Leaving'
<1>1. NbEthPorts \in Nat
  BY PortControlAssumption
<1>2. \A op \in ExitOps : \A p \in Ports \cup {All} : Step(op, p) \in ExitStep
  BY DEF Step, ExitStep
<1>3. \A op \in ExitOps : ForEach(op, All) \in Seq(ExitStep)
  <2> SUFFICES ASSUME NEW op \in ExitOps
               PROVE  [i \in 1 .. NbEthPorts |-> Step(op, i - 1)]
                        \in Seq(ExitStep)
    BY DEF ForEach
  <2>1. \A i \in 1 .. NbEthPorts : Step(op, i - 1) \in ExitStep
    BY <1>1, <1>2 DEF Ports
  <2> QED
    BY <1>1, <2>1, IsASeq
<1> DEFINE a == IF test_done THEN <<>> ELSE <<Step("fwd_stop", All)>>
           b == a \o ForEach("stop", All)
           c == ClosePortSteps(All)
<1>4. a \in Seq(ExitStep)
  <2>1. Step("fwd_stop", All) \in ExitStep
    BY <1>2 DEF ExitOps
  <2> QED
    BY <2>1, EmptySeq
<1>5. b \in Seq(ExitStep)
  BY <1>3, <1>4, ConcatProperties DEF ExitOps
<1>6. c \in Seq(ExitStep)
  <2>1. ForEach("close", All) \in Seq(ExitStep) /\ Step("prune", All) \in ExitStep
    BY <1>2, <1>3 DEF ExitOps
  <2> QED
    BY <2>1, AppendProperties DEF ClosePortSteps
<1>7. b \o c \in Seq(ExitStep)
  BY <1>5, <1>6, ConcatProperties
<1>8. job'["main"] = (b \o c) \o <<Step("exited", All)>>
  <2>1. ExitSteps = (b \o c) \o <<Step("exited", All)>>
    BY DEF ExitSteps
  <2> HIDE DEF b, c
  <2> QED
    BY <2>1 DEF JobsOK, Threads
<1> HIDE DEF b, c
<1> QED
  BY <1>7, <1>8, ExitLast DEF Leaving

\* The main thread goes on to its exit, whatever its next step puts before.
LEMMA LeavingThen ==
  ASSUME JobsOK, Leaving, NEW op, NEW p, Doing("main", op, p), op # "exited",
         NEW steps \in Seq(ExitStep), Then("main", steps)
  PROVE  Leaving'
<1> DEFINE j == job["main"]
           rest == Tail(j)
           k == steps \o rest
<1>1. /\ j \in Seq(ExitStep) /\ j # <<>> /\ j[Len(j)].op = "exited"
      /\ Head(j) = Step(op, p)
  BY DEF Leaving, Doing
<1>2. job'["main"] = k
  BY DEF Then, JobsOK, Threads
<1> HIDE DEF j
<1>3. /\ Len(j) \in Nat /\ Len(j) # 0 /\ j[1].op = op
  BY <1>1 DEF Step
<1>4. Len(j) >= 2
  BY <1>1, <1>3
<1>5. /\ rest \in Seq(ExitStep) /\ Len(rest) = Len(j) - 1
      /\ \A i \in 1 .. Len(rest) : rest[i] = j[i + 1]
  BY <1>1, HeadTailProperties
<1> HIDE DEF rest
<1>6. rest[Len(rest)] = j[Len(j)] /\ Len(rest) >= 1 /\ Len(rest) \in Nat
  BY <1>3, <1>4, <1>5
<1>7. /\ k \in Seq(ExitStep) /\ Len(k) = Len(steps) + Len(rest)
      /\ \A i \in 1 .. Len(k) :
           k[i] = IF i <= Len(steps) THEN steps[i] ELSE rest[i - Len(steps)]
  <2>1. rest \in Seq(ExitStep) /\ steps \in Seq(ExitStep)
    BY <1>5
  <2> QED
    BY <2>1, ConcatProperties, Zenon
<1>8. Len(steps) \in Nat
  BY LenProperties
<1> HIDE DEF k
<1>9. k[Len(k)] = rest[Len(rest)] /\ k # <<>>
  BY <1>6, <1>7, <1>8
<1> QED
  BY <1>1, <1>2, <1>6, <1>7, <1>9 DEF Leaving

LEMMA NextLeaving ==
  ASSUME LifeInv, Leaving, [Next]_vars
  PROVE  Leaving'
<1>1. JobsOK /\ Threads = {"main", "intr"}
  BY DEF LifeInv, Threads
<1>2. ASSUME job'["main"] = job["main"]
      PROVE  Leaving'
  BY <1>2 DEF Leaving
<1>3. ~Command
  BY DEF Leaving, Command
<1>4. CASE UNCHANGED vars \/ \E p \in Ports : RemovalEvent(p)
  BY <1>2, <1>4 DEF vars, RemovalEvent
<1>5. CASE \E p \in Ports : RmvPortCallback(p)
  BY <1>1, <1>2, <1>5 DEF RmvPortCallback, JobsOK
<1>6. CASE Operator
  <2>1. SignalHandler => Leaving'
    <3>1. Exiting
      BY DEF Leaving, Exiting, Last
    <3> QED
      BY <3>1 DEF SignalHandler
  <2> QED
    BY <1>2, <1>3, <1>6, <2>1 DEF Operator, OperatePort, OperateForwarding,
       Quit, OperateAttach, OperateDetach, SetPortSetupOn, SetPortList,
       Configure
<1>7. ASSUME NEW t \in Threads, ThreadStep(t)
      PROVE  Leaving'
  <2>1. PICK p \in Ports \cup {All} :
          \/ PortSteps(t, p) \/ Prune(t, p) \/ ForwardingSteps(t, p)
          \/ RmvClose(t, p) \/ RmvDetach(t, p)
    BY <1>7 DEF ThreadStep
  <2>2. PICK op : Doing(t, op, p)
    BY <2>1 DEF PortSteps, Prune, ForwardingSteps, StartPort, ConfigureDevice,
       SetupQueues, StartDevice, StopPort, StopDevice, ClosePort, ResetPort,
       StartForwarding, LaunchForwarding, StopForwarding, RmvClose, RmvDetach
  <2>3. CASE t = "intr"
    <3>1. OthersStay("intr")
      BY <1>1, <2>1, <2>3, ThenOthers DEF PortSteps, Prune, ForwardingSteps,
         StartPort, ConfigureDevice, SetupQueues, StartDevice, StopPort,
         StopDevice, ClosePort, ResetPort, StartForwarding, LaunchForwarding,
         StopForwarding, RmvClose, RmvDetach
    <3> QED
      BY <1>1, <1>2, <3>1 DEF OthersStay
  <2>4. CASE t = "main"
    <3>1. Head(job["main"]) \in ExitStep
      BY HeadTailProperties DEF Leaving
    <3>2. op \in ExitOps
      BY <2>2, <2>4, <3>1 DEF Doing, Step, ExitStep
    <3>3. CASE op \in {"fwd_stop", "close", "prune", "halt"}
      <4>1. Then("main", <<>>)
        BY <2>1, <2>2, <2>4, <3>3 DEF PortSteps, Prune, ForwardingSteps,
           StartPort, ConfigureDevice, SetupQueues, StartDevice, StopPort,
           StopDevice, ClosePort, ResetPort, StartForwarding,
           LaunchForwarding, StopForwarding, RmvClose, RmvDetach, Doing, Step
      <4> QED
        BY <1>1, <2>2, <2>4, <3>3, <4>1, EmptySeq, LeavingThen
    <3>4. CASE op = "stop"
      <4>1. Then("main", <<>>) \/ Then("main", <<Step("halt", p)>>)
        BY <2>1, <2>2, <2>4, <3>4 DEF PortSteps, Prune, ForwardingSteps,
           StartPort, ConfigureDevice, SetupQueues, StartDevice, StopPort,
           StopDevice, ClosePort, ResetPort, StartForwarding,
           LaunchForwarding, StopForwarding, RmvClose, RmvDetach, Doing, Step
      <4>2. Step("halt", p) \in ExitStep
        BY DEF Step, ExitStep, ExitOps
      <4>3. <<Step("halt", p)>> \in Seq(ExitStep)
        BY <4>2
      <4> QED
        BY <1>1, <2>2, <2>4, <3>4, <4>1, <4>3, EmptySeq, LeavingThen
    <3>5. CASE op = "exited"
      BY <2>1, <2>2, <2>4, <3>5 DEF PortSteps, Prune, ForwardingSteps,
         StartPort, ConfigureDevice, SetupQueues, StartDevice, StopPort,
         StopDevice, ClosePort, ResetPort, StartForwarding,
         LaunchForwarding, StopForwarding, RmvClose, RmvDetach, Doing, Step
    <3> QED
      BY <3>2, <3>3, <3>4, <3>5 DEF ExitOps
  <2> QED
    BY <1>1, <2>3, <2>4
<1> QED
  BY <1>4, <1>5, <1>6, <1>7 DEF Next

\* Between commands no port is stuck in HANDLING, and port_status tells
\* which devices run, in whatever order the two threads took their steps and
\* wherever a signal met the main thread.
THEOREM StatusCorrect ==
  ASSUME HandsGivenBack, DevicesStop
  PROVE  Spec => []StatusTruthful
<1>1. Init => LifeInv /\ (Held \/ Leaving)
  BY InitLives DEF Init, Held
<1>2. LifeInv /\ (Held \/ Leaving) /\ [Next]_vars
        => LifeInv' /\ (Held' \/ Leaving')
  <2>1. LifeInv /\ SignalHandler => Leaving'
    BY ExitStepsLeave DEF LifeInv, SignalHandler, Runs
  <2> QED
    BY <2>1, NextLives, NextHeld, NextLeaving
<1>3. LifeInv /\ (Held \/ Leaving) => StatusTruthful
  <2> SUFFICES ASSUME LifeInv, Held \/ Leaving, Idle
               PROVE  \A p \in attached :
                        /\ port_status[p] # "HANDLING"
                        /\ port_status[p] = "STARTED" <=> p \in running
    BY DEF StatusTruthful, NoPortStuck
  <2>1. Held
    BY DEF Idle, Leaving, Threads
  <2>2. \A t \in Threads, p \in attached : ~Within(t, p)
    BY DEF Idle, Within, Inside
  <2>3. \A p \in attached : port_status[p] # "HANDLING"
    BY <2>1, <2>2 DEF Held
  <2> QED
    BY <2>3 DEF LifeInv, Honest
<1> QED
  BY <1>1, <1>2, <1>3, PTL DEF Spec

-----------------------------------------------------------------------------
(***************************************************************************)
(* The lists of ports, the ports that are polled and the exit of the       *)
(* program: theorems about PortControl for every number of ports and       *)
(* devices.                                                                *)
(***************************************************************************)

(* Types.                                                                  *)

\* What a command writes and marks are parts of a record.
Typed(c) == c.writes \subseteq Items /\ c.own \subseteq Items
            /\ c.flags \subseteq Items

LEMMA CommandsTyped == \A c \in Commands : Typed(c)
<1>1. \A c \in WholeCommands : Typed(c)
  BY WholeCommandsSound DEF Typed, Sound
<1>2. /\ Typed(cmd_config_max_lro_pkt_size) /\ Typed(cmd_config_rxtx_ring_size)
      /\ Typed(cmd_config_deferred_start_rxtx_queue)
      /\ Typed(cmd_flow_director_mask) /\ Typed(cmd_flow_director_flexpayload)
  BY DEF Typed, OnAll, OnOne, Items, cmd_config_max_lro_pkt_size,
    cmd_config_rxtx_ring_size, cmd_config_deferred_start_rxtx_queue,
    cmd_flow_director_mask, cmd_flow_director_flexpayload
<1> QED
  BY <1>1, <1>2, PortControlAssumption DEF AllCommands

LEMMA PortsFinite == NbEthPorts \in Nat /\ Ports \subseteq Nat /\ All \notin Ports
  BY PortControlAssumption DEF Ports, All

\* The ports of S, each once.
LEMMA AscendingPorts ==
  ASSUME NEW S \in SUBSET Ports
  PROVE  /\ Ascending(S) \in Seq(Ports) /\ Range(Ascending(S)) = S
         /\ IsInjective(Ascending(S))
<1> DEFINE ids == [i \in 1 .. NbEthPorts |-> i - 1]
<1>1. NbEthPorts \in Nat /\ \A i \in 1 .. NbEthPorts : i - 1 \in Ports
  BY PortsFinite DEF Ports
<1>2. ids \in Seq(Ports)
  BY <1>1, IsASeq
<1>3. IsInjective(ids)
  BY <1>1 DEF IsInjective
<1>4. \A p \in Ports : p + 1 \in 1 .. NbEthPorts /\ ids[p + 1] = p
  BY <1>1 DEF Ports
<1>5. DOMAIN ids = 1 .. NbEthPorts
  OBVIOUS
<1> HIDE DEF ids
<1>6. Range(ids) \cap S = S
  BY <1>4, <1>5 DEF Range
<1>7. Ascending(S) = Kept(ids, S)
  BY DEF Ascending, ids
<1>8. Kept(ids, S) \in Seq(Ports)
  BY <1>2, KeptEmbeds, Zenon
<1>9. Range(Kept(ids, S)) = Range(ids) \cap S
  BY <1>2, KeptRange, Zenon
<1>10. IsInjective(Kept(ids, S))
  BY <1>2, <1>3, KeptInjective, Zenon
<1> QED
  BY <1>6, <1>7, <1>8, <1>9, <1>10

\* Lists of ports put one after the other.
LEMMA ListConcat ==
  ASSUME NEW a \in Seq(Ports), NEW b \in Seq(Ports)
  PROVE  /\ a \o b \in Seq(Ports) /\ Range(a \o b) = Range(a) \cup Range(b)
         /\ IsInjective(a) /\ IsInjective(b) /\ Range(a) \cap Range(b) = {}
              => IsInjective(a \o b)
<1> DEFINE s == a \o b
<1>1. /\ s \in Seq(Ports) /\ Len(s) = Len(a) + Len(b)
      /\ \A i \in 1 .. Len(s) : s[i] = IF i <= Len(a) THEN a[i]
                                       ELSE b[i - Len(a)]
  BY ConcatProperties
<1>2. Len(a) \in Nat /\ Len(b) \in Nat /\ DOMAIN a = 1 .. Len(a)
      /\ DOMAIN b = 1 .. Len(b)
  BY LenProperties
<1> HIDE DEF s
<1>3. DOMAIN s = 1 .. Len(s)
  BY <1>1, LenProperties
<1>4. \A i \in 1 .. Len(a) : i \in 1 .. Len(s) /\ s[i] = a[i]
  BY <1>1, <1>2
<1>5. \A i \in 1 .. Len(b) : i + Len(a) \in 1 .. Len(s) /\ s[i + Len(a)] = b[i]
  BY <1>1, <1>2
<1>6. \A i \in 1 .. Len(s) :
        \/ i \in 1 .. Len(a) /\ s[i] = a[i]
        \/ i - Len(a) \in 1 .. Len(b) /\ s[i] = b[i - Len(a)] /\ i > Len(a)
  BY <1>1, <1>2
<1>7. Range(s) = Range(a) \cup Range(b)
  <2>1. /\ Range(s) = {s[i] : i \in 1 .. Len(s)}
        /\ Range(a) = {a[i] : i \in 1 .. Len(a)}
        /\ Range(b) = {b[i] : i \in 1 .. Len(b)}
    BY <1>2, <1>3 DEF Range
  <2>2. Range(s) \subseteq Range(a) \cup Range(b)
    BY <1>6, <2>1
  <2>3. Range(a) \cup Range(b) \subseteq Range(s)
    BY <1>4, <1>5, <2>1
  <2> QED
    BY <2>2, <2>3
<1>8. ASSUME IsInjective(a), IsInjective(b), Range(a) \cap Range(b) = {}
      PROVE  IsInjective(s)
  <2>1. ASSUME NEW i \in 1 .. Len(s), NEW j \in 1 .. Len(s), s[i] = s[j]
        PROVE  i = j
    <3>1. CASE i \in 1 .. Len(a) /\ j \in 1 .. Len(a)
      BY <1>2, <1>4, <1>8, <2>1, <3>1 DEF IsInjective
    <3>2. CASE /\ i - Len(a) \in 1 .. Len(b) /\ s[i] = b[i - Len(a)]
               /\ j - Len(a) \in 1 .. Len(b) /\ s[j] = b[j - Len(a)]
      <4>1. i - Len(a) = j - Len(a)
        BY <1>2, <1>8, <2>1, <3>2 DEF IsInjective
      <4> QED
        BY <1>2, <4>1
    <3>3. \A k, l \in 1 .. Len(s) :
            ~(/\ k \in 1 .. Len(a)
              /\ l - Len(a) \in 1 .. Len(b) /\ s[l] = b[l - Len(a)]
              /\ s[k] = s[l])
      BY <1>2, <1>4, <1>8 DEF Range
    <3> QED
      BY <1>6, <2>1, <3>1, <3>2, <3>3
  <2> QED
    BY <1>3, <2>1 DEF IsInjective
<1> QED
  BY <1>1, <1>7, <1>8 DEF s

-----------------------------------------------------------------------------
(* The types, whatever fails and whatever the threads do.                  *)

LEMMA InitTypes == Init => TypeOK
<1> SUFFICES ASSUME Init PROVE TypeOK
  OBVIOUS
<1>1. attached \subseteq Ports
  BY DEF Init
<1>2. ports_ids \in Seq(Ports) /\ fwd_ports_ids \in Seq(Ports)
  BY <1>1, AscendingPorts DEF Init
<1>3. probed \subseteq Devices
  BY <1>1 DEF Init, Devices
<1>4. /\ flags \in [Ports -> SUBSET Items]
      /\ unapplied \in [Ports -> SUBSET Items]
      /\ own \in [Ports -> SUBSET Items]
      /\ port_status \in [Ports -> Statuses]
  BY DEF Init, Statuses
<1> QED
  BY <1>1, <1>2, <1>3, <1>4 DEF Init, TypeOK

\* What the steps for one port leave of the types.
LEMMA PortStepTypes ==
  ASSUME TypeOK, NEW t, NEW p, PortSteps(t, p)
  PROVE  TypeOK'
<1>1. UNCHANGED <<lists, setup_on_probe_event, forwarding, removals>>
  BY DEF PortSteps
<1>2. CASE StartPort(t, p) \/ StopPort(t, p)
  BY <1>1, <1>2 DEF StartPort, StopPort, devices, lists, forwarding, TypeOK,
     Statuses
<1>3. CASE ConfigureDevice(t, p)
  BY <1>1, <1>3 DEF ConfigureDevice, SetStatus, devices, lists, forwarding,
     TypeOK, Statuses
<1>4. CASE SetupQueues(t, p)
  BY <1>1, <1>4 DEF SetupQueues, SetStatus, devices, lists, forwarding,
     TypeOK, Statuses
<1>5. CASE StartDevice(t, p) \/ StopDevice(t, p)
  BY <1>1, <1>5 DEF StartDevice, StopDevice, SetStatus, lists, forwarding,
     TypeOK, Statuses
<1>6. CASE ClosePort(t, p)
  BY <1>1, <1>6 DEF ClosePort, Destroy, lists, forwarding, TypeOK, Statuses
<1>7. CASE ResetPort(t, p)
  BY <1>1, <1>7 DEF ResetPort, devices, lists, forwarding, TypeOK
<1> QED
  BY <1>2, <1>3, <1>4, <1>5, <1>6, <1>7 DEF PortSteps

LEMMA PruneTypes ==
  ASSUME TypeOK, RemoveInvalidPorts
  PROVE  ports_ids' \in Seq(Ports) /\ fwd_ports_ids' \in Seq(Ports)
<1>1. ports_ids \in Seq(Ports) /\ fwd_ports_ids \in Seq(Ports)
  BY DEF TypeOK
<1>2. /\ Kept(ports_ids, attached') \in Seq(Ports)
      /\ Kept(fwd_ports_ids, attached') \in Seq(Ports)
  BY <1>1, KeptEmbeds
<1> QED
  BY <1>2 DEF RemoveInvalidPorts, OnlyAttached

LEMMA DetachTypes ==
  ASSUME TypeOK, NEW d, DetachDevice(d),
         UNCHANGED <<need_setup, flags, unapplied, own, setup_on_probe_event,
                     forwarding, removals>>
  PROVE  TypeOK'
<1>1. CASE RemoveInvalidPorts /\ (\E S : Destroy(S)) /\ probed' = probed \ {d}
  BY <1>1, PruneTypes DEF Destroy, forwarding, TypeOK, Statuses
<1>2. CASE UNCHANGED <<devices, port_status, lists>>
  BY <1>2 DEF devices, lists, forwarding, TypeOK
<1> QED
  BY <1>1, <1>2 DEF DetachDevice

LEMMA AttachTypes ==
  ASSUME TypeOK, NEW d \in Devices, AttachPort(d),
         UNCHANGED <<setup_on_probe_event, forwarding, removals>>
  PROVE  TypeOK'
<1>1. /\ attached' \subseteq Ports /\ attached \subseteq attached'
      /\ probed' \subseteq Devices /\ running' = running
  BY DEF AttachPort, TypeOK
<1>2. PICK S \in SUBSET Ports : SetupAttachedPorts(S)
  <2> DEFINE new == IF d \in probed THEN {}
                    ELSE {p \in Ports : DeviceOf[p] = d}
             todo == IF setup_on_probe_event THEN need_setup \cup new
                     ELSE {p \in attached \cup new :
                             DeviceOf[p] = d /\ ~IsForwarding(p)}
  <2>1. SetupAttachedPorts(todo)
    BY DEF AttachPort
  <2>2. todo \in SUBSET Ports
    BY DEF TypeOK
  <2> HIDE DEF todo
  <2> QED
    BY <2>1, <2>2
<1>3. /\ flags' = [q \in Ports |-> IF q \in S THEN Items ELSE flags[q]]
      /\ unapplied' = [q \in Ports |->
           IF q \in S THEN Items
           ELSE unapplied[q] \cup (IF S = {} THEN {} ELSE Refreshed(q))]
      /\ own' = [q \in Ports |->
           IF S = {} THEN own[q] ELSE own[q] \ Refreshed(q)]
      /\ ports_ids' = ports_ids \o Ascending(S)
      /\ fwd_ports_ids' = fwd_ports_ids \o Ascending(S)
      /\ port_status' = [q \in Ports |->
           IF q \in S THEN "STOPPED"
           ELSE IF q \in attached' \ attached THEN "HANDLING"
           ELSE port_status[q]]
      /\ need_setup' = (need_setup \cup (attached' \ attached)) \ S
  BY <1>2 DEF SetupAttachedPorts
<1>4. \A q \in Ports : Refreshed(q) \subseteq Items
  BY DEF Refreshed, TypeOK
<1>5. /\ flags' \in [Ports -> SUBSET Items]
      /\ unapplied' \in [Ports -> SUBSET Items]
      /\ own' \in [Ports -> SUBSET Items]
  BY <1>3, <1>4 DEF TypeOK
<1>6. ports_ids' \in Seq(Ports) /\ fwd_ports_ids' \in Seq(Ports)
  BY <1>3, AscendingPorts, ListConcat DEF TypeOK
<1>7. port_status' \in [Ports -> Statuses] /\ need_setup' \subseteq Ports
  BY <1>1, <1>3 DEF TypeOK, Statuses
<1> QED
  BY <1>1, <1>5, <1>6, <1>7 DEF TypeOK, forwarding

LEMMA ConfigureTypes ==
  ASSUME TypeOK, NEW c \in Commands, NEW pid \in Ports \cup {All},
         Configure(c, pid)
  PROVE  TypeOK'
<1>1. c.writes \subseteq Items /\ c.own \subseteq Items /\ c.flags \subseteq Items
  BY CommandsTyped DEF Typed
<1> DEFINE Wrote(S, fresh) ==
             /\ unapplied' = [q \in Ports |->
                  unapplied[q] \cup (IF q \in S THEN c.writes ELSE {})
                    \cup (IF fresh /\ q \in attached THEN own[q] ELSE {})]
             /\ own' = [q \in Ports |->
                  (IF fresh /\ q \in attached THEN {} ELSE own[q])
                    \cup (IF q \in S THEN c.own ELSE {})]
<1>2. \/ Wrote(IF c.scope = "all" THEN attached ELSE {pid}, c.refresh)
      \/ \E S : Wrote(S, FALSE)
  BY DEF Configure
<1> HIDE DEF Wrote
<1>3. PICK S, fresh : Wrote(S, fresh)
  BY <1>2
<1>4. /\ unapplied' = [q \in Ports |->
           unapplied[q] \cup (IF q \in S THEN c.writes ELSE {})
             \cup (IF fresh /\ q \in attached THEN own[q] ELSE {})]
      /\ own' = [q \in Ports |->
           (IF fresh /\ q \in attached THEN {} ELSE own[q])
             \cup (IF q \in S THEN c.own ELSE {})]
  BY <1>3 DEF Wrote
<1>5. \A q \in Ports :
        /\ unapplied[q] \cup (IF q \in S THEN c.writes ELSE {})
             \cup (IF fresh /\ q \in attached THEN own[q] ELSE {})
               \in SUBSET Items
        /\ (IF fresh /\ q \in attached THEN {} ELSE own[q])
             \cup (IF q \in S THEN c.own ELSE {}) \in SUBSET Items
  <2> SUFFICES ASSUME NEW q \in Ports
               PROVE  /\ unapplied[q] \subseteq Items /\ own[q] \subseteq Items
    BY <1>1
  <2> QED
    BY DEF TypeOK
<1>6. unapplied' \in [Ports -> SUBSET Items] /\ own' \in [Ports -> SUBSET Items]
  BY <1>4, <1>5
<1>7. flags' \in [Ports -> SUBSET Items]
  BY <1>1, ZenonT(30) DEF Configure, Marked, TypeOK
<1> QED
  BY <1>6, <1>7 DEF Configure, devices, lists, forwarding, TypeOK

LEMMA NextTypes == TypeOK /\ [Next]_vars => TypeOK'
<1> SUFFICES ASSUME TypeOK, [Next]_vars PROVE TypeOK'
  OBVIOUS
<1>1. CASE UNCHANGED vars
  BY <1>1 DEF vars, devices, records, lists, forwarding, TypeOK
<1>2. CASE \E p \in Ports : RemovalEvent(p) \/ RmvPortCallback(p)
  BY <1>2 DEF RemovalEvent, RmvPortCallback, devices, records, lists,
     forwarding, TypeOK
<1>3. ASSUME NEW t \in Threads, NEW p \in Ports \cup {All},
             \/ PortSteps(t, p) \/ Prune(t, p) \/ ForwardingSteps(t, p)
             \/ RmvClose(t, p) \/ RmvDetach(t, p)
      PROVE  TypeOK'
  <2>1. CASE PortSteps(t, p)
    BY <2>1, PortStepTypes
  <2>2. CASE Prune(t, p)
    BY <2>2, PruneTypes DEF Prune, devices, records, forwarding, TypeOK
  <2>3. CASE ForwardingSteps(t, p)
    <3>1. Range(fwd_ports_ids) \subseteq Ports
      BY ElementOfSeq, LenProperties DEF TypeOK, Range
    <3> QED
      BY <2>3, <3>1 DEF ForwardingSteps, StartForwarding, LaunchForwarding,
         StopForwarding, devices, records, lists, forwarding, TypeOK
  <2>4. CASE RmvClose(t, p)
    BY <2>4 DEF RmvClose, devices, records, lists, forwarding, TypeOK
  <2>5. CASE RmvDetach(t, p)
    BY <2>5, DetachTypes DEF RmvDetach
  <2> QED
    BY <1>3, <2>1, <2>2, <2>3, <2>4, <2>5
<1>4. CASE Operator
  <2>1. CASE \/ \E pid \in Ports \cup {All} : OperatePort(pid)
             \/ OperateForwarding \/ Quit \/ SignalHandler
    BY <2>1 DEF OperatePort, OperateForwarding, Quit, SignalHandler, devices,
       records, lists, forwarding, TypeOK
  <2>2. CASE \E d \in Devices : OperateAttach(d) \/ OperateDetach(d)
    BY <2>2, AttachTypes, DetachTypes DEF OperateAttach, OperateDetach
  <2>3. CASE \E mode \in ProbeModes : SetPortSetupOn(mode)
    BY <2>3 DEF SetPortSetupOn, devices, records, lists, forwarding, TypeOK
  <2>4. CASE \E S \in SUBSET Ports : SetPortList(S)
    <3>1. fwd_ports_ids' \in Seq(Ports)
      BY <2>4, AscendingPorts DEF SetPortList
    <3> QED
      BY <2>4, <3>1 DEF SetPortList, devices, records, forwarding, TypeOK
  <2>5. CASE \E c \in Commands, pid \in Ports \cup {All} : Configure(c, pid)
    BY <2>5, ConfigureTypes
  <2> QED
    BY <1>4, <2>1, <2>2, <2>3, <2>4, <2>5 DEF Operator
<1> QED
  BY <1>1, <1>2, <1>3, <1>4 DEF Next, ThreadStep

\* The records and the lists of the ports keep their types, and only ports
\* that are there run, for every failure and every interleaving.
THEOREM PortTypes == Spec => []TypeOK
  BY InitTypes, NextTypes, PTL DEF Spec

-----------------------------------------------------------------------------
(* The lists of ports.  A port that is listed belongs to a device that was *)
(* probed and not removed since: attaching its device again lists it anew  *)
(* only when it has been taken off the lists.                              *)

ListsInv ==
  /\ TypeOK
  /\ need_setup = {}
  /\ \A p \in attached \cup Range(ports_ids) \cup Range(fwd_ports_ids) :
       DeviceOf[p] \in probed
  /\ attached \subseteq Range(ports_ids)
  /\ IsInjective(fwd_ports_ids)

\* With the events alone, a port is set up once.
EventsOnly == ProbeModes = {"event"}
EventsInv == setup_on_probe_event /\ IsInjective(ports_ids)


\* A port that is closed stays listed for a while.
LEMMA ListsStay ==
  ASSUME ListsInv, TypeOK', attached' \subseteq attached,
         UNCHANGED <<probed, need_setup, lists>>
  PROVE  ListsInv'
  BY DEF ListsInv, lists

LEMMA InitLists ==
  ASSUME Init
  PROVE  ListsInv /\ (EventsOnly => EventsInv)
<1>1. TypeOK
  BY InitTypes
<1>2. /\ Range(ports_ids) = attached /\ IsInjective(ports_ids)
      /\ fwd_ports_ids = ports_ids
  BY <1>1, AscendingPorts DEF Init, TypeOK
<1>3. \A p \in attached : DeviceOf[p] \in probed
  BY DEF Init
<1>4. need_setup = {} /\ (EventsOnly => setup_on_probe_event)
  BY DEF Init, EventsOnly
<1> QED
  BY <1>1, <1>2, <1>3, <1>4 DEF ListsInv, EventsInv

\* remove_invalid_ports leaves the ports there are.
LEMMA PruneLists ==
  ASSUME TypeOK, RemoveInvalidPorts
  PROVE  /\ Range(ports_ids') = Range(ports_ids) \cap attached'
         /\ Range(fwd_ports_ids') = Range(fwd_ports_ids) \cap attached'
         /\ IsInjective(ports_ids) => IsInjective(ports_ids')
         /\ IsInjective(fwd_ports_ids) => IsInjective(fwd_ports_ids')
<1>1. ports_ids \in Seq(Ports) /\ fwd_ports_ids \in Seq(Ports)
  BY DEF TypeOK
<1>2. /\ ports_ids' = Kept(ports_ids, attached')
      /\ fwd_ports_ids' = Kept(fwd_ports_ids, attached')
  BY DEF RemoveInvalidPorts, OnlyAttached
<1>3. /\ Range(ports_ids') = Range(ports_ids) \cap attached'
      /\ IsInjective(ports_ids) => IsInjective(ports_ids')
  BY <1>1, <1>2, KeptRange, KeptInjective, Zenon
<1>4. /\ Range(fwd_ports_ids') = Range(fwd_ports_ids) \cap attached'
      /\ IsInjective(fwd_ports_ids) => IsInjective(fwd_ports_ids')
  BY <1>1, <1>2, KeptRange, KeptInjective, Zenon
<1> QED
  BY <1>3, <1>4

\* The ports that attach_port sets up: those of a device that was not there
\* and, without the events, those of the device that do not forward.
LEMMA AttachLists ==
  ASSUME ListsInv, NEW d, AttachPort(d)
  PROVE  \E S \in SUBSET Ports :
           /\ S \cap Range(fwd_ports_ids) = {}
           /\ setup_on_probe_event => S \cap Range(ports_ids) = {}
           /\ \A p \in S : DeviceOf[p] = d
           /\ attached \subseteq attached' /\ attached' \ attached \subseteq S
           /\ probed' = probed \cup {d} /\ need_setup' = {}
           /\ ports_ids' = ports_ids \o Ascending(S)
           /\ fwd_ports_ids' = fwd_ports_ids \o Ascending(S)
           /\ running' = running
           /\ port_status' = [q \in Ports |-> IF q \in S THEN "STOPPED"
                                              ELSE port_status[q]]
           /\ S \subseteq attached'
<1> DEFINE new == IF d \in probed THEN {} ELSE {p \in Ports : DeviceOf[p] = d}
           todo == IF setup_on_probe_event THEN need_setup \cup new
                   ELSE {p \in attached \cup new :
                           DeviceOf[p] = d /\ ~IsForwarding(p)}
<1>1. /\ attached' = attached \cup new /\ probed' = probed \cup {d}
      /\ SetupAttachedPorts(todo) /\ running' = running
  BY DEF AttachPort
<1>2. /\ new \subseteq Ports /\ \A p \in new : DeviceOf[p] = d
      /\ new \cap Range(fwd_ports_ids) = {} /\ new \cap Range(ports_ids) = {}
      /\ new \cap attached = {}
  BY DEF ListsInv
<1> HIDE DEF new
<1>3. /\ todo \in SUBSET Ports /\ new \subseteq todo
      /\ todo \cap Range(fwd_ports_ids) = {}
      /\ setup_on_probe_event => todo = new
      /\ \A p \in todo : DeviceOf[p] = d
      /\ todo \subseteq attached \cup new
  BY <1>2 DEF ListsInv, TypeOK, IsForwarding
<1> HIDE DEF todo
<1>4. /\ ports_ids' = ports_ids \o Ascending(todo)
      /\ fwd_ports_ids' = fwd_ports_ids \o Ascending(todo)
      /\ need_setup' = {}
  BY <1>1, <1>2, <1>3 DEF SetupAttachedPorts, ListsInv
<1>5. port_status' = [q \in Ports |->
           IF q \in todo THEN "STOPPED"
           ELSE IF q \in attached' \ attached THEN "HANDLING"
           ELSE port_status[q]]
  BY <1>1 DEF SetupAttachedPorts
<1>6. port_status' = [q \in Ports |-> IF q \in todo THEN "STOPPED"
                                      ELSE port_status[q]]
  BY <1>1, <1>2, <1>3, <1>5
<1> QED
  BY <1>1, <1>2, <1>3, <1>4, <1>6

LEMMA DetachLists ==
  ASSUME ListsInv, TypeOK', NEW d, DetachDevice(d), UNCHANGED need_setup
  PROVE  ListsInv' /\ (IsInjective(ports_ids) => IsInjective(ports_ids'))
<1> DEFINE siblings == {p \in attached : DeviceOf[p] = d}
<1>1. CASE UNCHANGED <<devices, port_status, lists>>
  <2>1. ListsInv'
    BY <1>1, ListsStay DEF devices
  <2> QED
    BY <1>1, <2>1 DEF lists
<1>2. CASE Destroy(siblings) /\ probed' = probed \ {d} /\ RemoveInvalidPorts
  <2>1. /\ attached' = attached \ siblings
        /\ \A p \in attached' : DeviceOf[p] # d
    BY <1>2 DEF Destroy
  <2>2. /\ Range(ports_ids') = Range(ports_ids) \cap attached'
        /\ Range(fwd_ports_ids') = Range(fwd_ports_ids) \cap attached'
        /\ IsInjective(ports_ids) => IsInjective(ports_ids')
        /\ IsInjective(fwd_ports_ids')
    BY <1>2, PruneLists DEF ListsInv
  <2>3. attached' \subseteq Range(ports_ids')
    BY <2>1, <2>2 DEF ListsInv
  <2>4. \A p \in attached' \cup Range(ports_ids') \cup Range(fwd_ports_ids') :
          p \in attached' /\ p \in attached
    BY <2>1, <2>2
  <2>5. \A p \in attached' \cup Range(ports_ids') \cup Range(fwd_ports_ids') :
          DeviceOf[p] \in probed'
    BY <1>2, <2>1, <2>4 DEF ListsInv
  <2> QED
    BY <2>2, <2>3, <2>5 DEF ListsInv
<1> QED
  BY <1>1, <1>2 DEF DetachDevice

LEMMA AttachKeepsLists ==
  ASSUME ListsInv, TypeOK', NEW d, AttachPort(d)
  PROVE  /\ ListsInv'
         /\ setup_on_probe_event /\ IsInjective(ports_ids)
              => IsInjective(ports_ids')
<1>1. PICK S \in SUBSET Ports :
        /\ S \cap Range(fwd_ports_ids) = {}
        /\ setup_on_probe_event => S \cap Range(ports_ids) = {}
        /\ \A p \in S : DeviceOf[p] = d
        /\ attached \subseteq attached' /\ attached' \ attached \subseteq S
        /\ probed' = probed \cup {d} /\ need_setup' = {}
        /\ ports_ids' = ports_ids \o Ascending(S)
        /\ fwd_ports_ids' = fwd_ports_ids \o Ascending(S)
  BY AttachLists
<1>2. /\ Ascending(S) \in Seq(Ports) /\ Range(Ascending(S)) = S
      /\ IsInjective(Ascending(S))
  BY AscendingPorts
<1>3. ports_ids \in Seq(Ports) /\ fwd_ports_ids \in Seq(Ports)
  BY DEF ListsInv, TypeOK
<1>4. /\ Range(ports_ids') = Range(ports_ids) \cup S
      /\ IsInjective(ports_ids) /\ Range(ports_ids) \cap S = {}
           => IsInjective(ports_ids')
  BY <1>1, <1>2, <1>3, ListConcat
<1>5. /\ Range(fwd_ports_ids') = Range(fwd_ports_ids) \cup S
      /\ IsInjective(fwd_ports_ids')
  BY <1>1, <1>2, <1>3, ListConcat DEF ListsInv
<1>6. attached' \subseteq Range(ports_ids')
  BY <1>1, <1>4 DEF ListsInv
<1>7. \A p \in attached' \cup Range(ports_ids') \cup Range(fwd_ports_ids') :
        DeviceOf[p] \in probed'
  BY <1>1, <1>4, <1>5 DEF ListsInv
<1> QED
  BY <1>1, <1>4, <1>5, <1>6, <1>7 DEF ListsInv

LEMMA NextLists ==
  ASSUME ListsInv, EventsOnly => EventsInv, [Next]_vars
  PROVE  ListsInv' /\ (EventsOnly => EventsInv')
<1>1. TypeOK'
  BY NextTypes DEF ListsInv
<1>2. CASE /\ attached' \subseteq attached
           /\ UNCHANGED <<probed, need_setup, lists, setup_on_probe_event>>
  <2>1. ListsInv'
    BY <1>1, <1>2, ListsStay
  <2> QED
    BY <1>2, <2>1 DEF EventsInv, lists
<1>3. CASE \E p \in Ports : RemovalEvent(p) \/ RmvPortCallback(p)
  BY <1>2, <1>3 DEF RemovalEvent, RmvPortCallback, devices, records
<1>4. ASSUME NEW t \in Threads, NEW p \in Ports \cup {All},
             \/ PortSteps(t, p) \/ Prune(t, p) \/ ForwardingSteps(t, p)
             \/ RmvClose(t, p) \/ RmvDetach(t, p)
      PROVE  ListsInv' /\ (EventsOnly => EventsInv')
  <2>1. CASE PortSteps(t, p)
    <3>1. attached' \subseteq attached /\ UNCHANGED <<probed, need_setup>>
      BY <2>1 DEF PortSteps, StartPort, ConfigureDevice, SetupQueues,
         StartDevice, StopPort, StopDevice, ClosePort, ResetPort, Destroy,
         devices
    <3> QED
      BY <1>2, <2>1, <3>1 DEF PortSteps
  <2>2. CASE Prune(t, p)
    <3>1. /\ UNCHANGED <<attached, probed, need_setup, setup_on_probe_event>>
          /\ RemoveInvalidPorts
      BY <2>2 DEF Prune, devices, records
    <3>2. /\ Range(ports_ids') = Range(ports_ids) \cap attached'
          /\ Range(fwd_ports_ids') = Range(fwd_ports_ids) \cap attached'
          /\ IsInjective(ports_ids) => IsInjective(ports_ids')
          /\ IsInjective(fwd_ports_ids')
      BY <3>1, PruneLists DEF ListsInv
    <3>3. ListsInv'
      BY <1>1, <3>1, <3>2 DEF ListsInv
    <3> QED
      BY <3>1, <3>2, <3>3 DEF EventsInv
  <2>3. CASE ForwardingSteps(t, p)
    BY <1>2, <2>3 DEF ForwardingSteps, devices, records
  <2>4. CASE RmvClose(t, p)
    BY <1>2, <2>4 DEF RmvClose, devices, records
  <2>5. CASE RmvDetach(t, p)
    BY <1>1, <2>5, DetachLists DEF RmvDetach, EventsInv
  <2> QED
    BY <1>4, <2>1, <2>2, <2>3, <2>4, <2>5
<1>5. CASE Operator
  <2>1. CASE \/ \E pid \in Ports \cup {All} : OperatePort(pid)
             \/ OperateForwarding \/ Quit \/ SignalHandler
    BY <1>2, <2>1 DEF OperatePort, OperateForwarding, Quit, SignalHandler,
       devices, records
  <2>2. CASE \E d \in Devices : OperateAttach(d)
    BY <1>1, <2>2, AttachKeepsLists DEF OperateAttach, EventsInv
  <2>3. CASE \E d \in Devices : OperateDetach(d)
    BY <1>1, <2>3, DetachLists DEF OperateDetach, EventsInv
  <2>4. CASE \E mode \in ProbeModes : SetPortSetupOn(mode)
    <3>1. UNCHANGED <<attached, probed, need_setup, lists>>
      BY <2>4 DEF SetPortSetupOn, devices, records
    <3>2. ListsInv'
      BY <1>1, <3>1, ListsStay
    <3>3. EventsOnly => setup_on_probe_event'
      BY <2>4 DEF SetPortSetupOn, EventsOnly
    <3> QED
      BY <3>1, <3>2, <3>3 DEF EventsInv, lists
  <2>5. CASE \E S \in SUBSET Ports : SetPortList(S)
    <3>1. PICK S \in SUBSET Ports : SetPortList(S)
      BY <2>5
    <3>2. /\ UNCHANGED <<attached, probed, need_setup, ports_ids,
                         setup_on_probe_event>>
          /\ S \subseteq attached /\ fwd_ports_ids' = Ascending(S)
      BY <3>1 DEF SetPortList, devices, records
    <3>3. Range(fwd_ports_ids') = S /\ IsInjective(fwd_ports_ids')
      BY <3>2, AscendingPorts
    <3>4. ListsInv'
      BY <1>1, <3>2, <3>3 DEF ListsInv
    <3> QED
      BY <3>2, <3>4 DEF EventsInv
  <2>6. CASE \E c \in Commands, pid \in Ports \cup {All} : Configure(c, pid)
    BY <1>2, <2>6 DEF Configure, devices
  <2> QED
    BY <1>5, <2>1, <2>2, <2>3, <2>4, <2>5, <2>6 DEF Operator
<1>6. CASE UNCHANGED vars
  BY <1>2, <1>6 DEF vars, devices, records
<1> QED
  BY <1>3, <1>4, <1>5, <1>6 DEF Next, ThreadStep

\* Whatever is attached, removed and detached, and however the two threads
\* interleave, no port is twice in the list of the forwarding ports: none has
\* its queues polled by two streams.
THEOREM ForwardingListCorrect == Spec => []FwdListDistinct
<1>1. Init => ListsInv /\ (EventsOnly => EventsInv)
  BY InitLists
<1>2. ListsInv /\ (EventsOnly => EventsInv) /\ [Next]_vars
        => ListsInv' /\ (EventsOnly => EventsInv')
  BY NextLists
<1>3. ListsInv => FwdListDistinct
  BY DEF ListsInv, FwdListDistinct
<1> DEFINE I == ListsInv /\ (EventsOnly => EventsInv)
<1>4. I /\ [Next]_vars => I'
  BY <1>2 DEF EventsOnly
<1>5. Init => I
  BY <1>1
<1>6. I => FwdListDistinct
  BY <1>3
<1> HIDE DEF I
<1> QED
  BY <1>4, <1>5, <1>6, PTL DEF Spec

\* Nor, with "set port setup on event", in the list of all ports; with the
\* iterator it may be.
THEOREM PortsListCorrect ==
  ASSUME EventsOnly
  PROVE  Spec => []PortsListDistinct
<1> DEFINE I == ListsInv /\ EventsInv
<1>1. Init => I
  BY InitLists
<1>2. I /\ [Next]_vars => I'
  BY NextLists
<1>3. I => PortsListDistinct
  BY DEF EventsInv, PortsListDistinct
<1> HIDE DEF I
<1> QED
  BY <1>1, <1>2, <1>3, PTL DEF Spec

-----------------------------------------------------------------------------
(* Jobs, of either thread.  What makes the lists right again between       *)
(* commands: a step "close" has a step "prune" after it in its job, and    *)
(* the steps of start_port, which may give their job up, share it with no  *)
(* others.                                                                 *)

RetOps == {"start", "configure", "queues", "device"}
JobOps == RetOps \cup
  {"stop", "halt", "close", "prune", "reset", "rmv", "detach", "fwd_start",
   "fwd_launch", "fwd_stop", "exited"}
AnyStep == [op : JobOps, port : Ports \cup {All}]

PruneIn(j) == \E i \in 1 .. Len(j) : j[i].op = "prune"
Guarded(j) ==
  \A i \in 1 .. Len(j) : j[i].op = "close" =>
    \E k \in 1 .. Len(j) : k > i /\ j[k].op = "prune"
Starts(j) == \A i \in 1 .. Len(j) : j[i].op \in RetOps
NoStart(j) == \A i \in 1 .. Len(j) : j[i].op \notin RetOps
\* The forwarding is started by the last step of a job, and then launched.
FwdLast(j) ==
  \A i \in 1 .. Len(j) : j[i].op \in {"fwd_start", "fwd_launch"} => i = Len(j)

\* A port is stopped, and the forwarding launched, by the first step only.
Middle(j) == \A i \in 1 .. Len(j) : j[i].op \notin {"halt", "fwd_launch"}
FirstOnly(j) ==
  \A i \in 1 .. Len(j) : j[i].op \in {"halt", "fwd_launch"} => i = 1

ShapeOK(j) ==
  /\ j \in Seq(AnyStep)
  /\ Guarded(j) /\ (Starts(j) \/ NoStart(j)) /\ FwdLast(j) /\ FirstOnly(j)
JobShape == job \in [Threads -> Seq(AnyStep)] /\ \A t \in Threads : ShapeOK(job[t])

LEMMA EmptyShape == ShapeOK(<<>>) /\ ~PruneIn(<<>>) /\ Middle(<<>>)
<1>1. Len(<<>>) = 0 /\ <<>> \in Seq(AnyStep)
  OBVIOUS
<1>2. \A i \in 1 .. Len(<<>>) : FALSE
  BY <1>1
<1> QED
  BY <1>1, <1>2, Zenon DEF ShapeOK, Guarded, Starts, NoStart, FwdLast, PruneIn,
     FirstOnly, Middle

\* A step, or a step for each port.
LEMMA ForEachShape ==
  ASSUME NEW op \in JobOps, NEW pid \in Ports \cup {All}
  PROVE  /\ ForEach(op, pid) \in Seq(AnyStep)
         /\ \A i \in 1 .. Len(ForEach(op, pid)) : ForEach(op, pid)[i].op = op
<1>1. NbEthPorts \in Nat
  BY PortsFinite
<1>2. CASE pid = All
  <2>1. \A i \in 1 .. NbEthPorts : Step(op, i - 1) \in AnyStep
    BY <1>1 DEF Step, AnyStep, Ports
  <2> DEFINE s == [i \in 1 .. NbEthPorts |-> Step(op, i - 1)]
  <2>2. s \in Seq(AnyStep) /\ Len(s) = NbEthPorts
    BY <1>1, <2>1, IsASeq
  <2>3. \A i \in 1 .. NbEthPorts : s[i].op = op
    BY DEF Step
  <2>4. ForEach(op, pid) = s
    BY <1>2 DEF ForEach
  <2> QED
    BY <2>2, <2>3, <2>4
<1>3. CASE pid # All
  <2>1. ForEach(op, pid) = <<Step(op, pid)>>
    BY <1>3 DEF ForEach
  <2>2. Step(op, pid) \in AnyStep /\ Step(op, pid).op = op
    BY DEF Step, AnyStep
  <2> QED
    BY <2>1, <2>2
<1> QED
  BY <1>2, <1>3

LEMMA OneShape ==
  ASSUME NEW op \in JobOps, NEW p \in Ports \cup {All}
  PROVE  /\ <<Step(op, p)>> \in Seq(AnyStep) /\ Len(<<Step(op, p)>>) = 1
         /\ \A i \in 1 .. Len(<<Step(op, p)>>) :
              <<Step(op, p)>>[i].op = op /\ i = 1
<1>1. Step(op, p) \in AnyStep /\ Step(op, p).op = op
  BY DEF Step, AnyStep
<1> QED
  BY <1>1

\* Steps put before a job; the guard of a "close" among them may be there.
LEMMA ShapeConcat ==
  ASSUME NEW a \in Seq(AnyStep), NEW b \in Seq(AnyStep), Guarded(b),
         \A i \in 1 .. Len(a) : a[i].op = "close" =>
           PruneIn(b) \/ \E k \in 1 .. Len(a) : k > i /\ a[k].op = "prune",
         (Starts(a) /\ Starts(b)) \/ (NoStart(a) /\ NoStart(b)),
         FwdLast(b),
         IF b = <<>> THEN FwdLast(a)
         ELSE \A i \in 1 .. Len(a) : a[i].op \notin {"fwd_start", "fwd_launch"},
         FirstOnly(a), Middle(b)
  PROVE  /\ ShapeOK(a \o b)
         /\ PruneIn(a \o b) <=> PruneIn(a) \/ PruneIn(b)
         /\ Middle(a) => Middle(a \o b)
<1> DEFINE s == a \o b
<1>1. /\ s \in Seq(AnyStep) /\ Len(s) = Len(a) + Len(b)
      /\ \A i \in 1 .. Len(s) : s[i] = IF i <= Len(a) THEN a[i]
                                       ELSE b[i - Len(a)]
  BY ConcatProperties
<1>2. Len(a) \in Nat /\ Len(b) \in Nat
  BY LenProperties
<1> HIDE DEF s
<1>3a. \A i \in 1 .. Len(a) : i \in 1 .. Len(s) /\ s[i] = a[i]
  BY <1>1, <1>2
<1>3b. \A i \in 1 .. Len(b) : i + Len(a) \in 1 .. Len(s) /\ s[i + Len(a)] = b[i]
  <2> TAKE i \in 1 .. Len(b)
  <2>1. /\ i + Len(a) \in 1 .. Len(s) /\ ~(i + Len(a) <= Len(a))
        /\ (i + Len(a)) - Len(a) = i
    BY <1>1, <1>2
  <2>2. s[i + Len(a)] = IF i + Len(a) <= Len(a) THEN a[i + Len(a)]
                        ELSE b[(i + Len(a)) - Len(a)]
    BY <1>1, <2>1, Zenon
  <2> QED
    BY <2>1, <2>2
<1>3. /\ \A i \in 1 .. Len(a) : i \in 1 .. Len(s) /\ s[i] = a[i]
      /\ \A i \in 1 .. Len(b) : /\ i + Len(a) \in 1 .. Len(s)
                                /\ s[i + Len(a)] = b[i]
  BY <1>3a, <1>3b
<1>4. \A i \in 1 .. Len(s) :
        \/ i \in 1 .. Len(a) /\ s[i] = a[i]
        \/ i - Len(a) \in 1 .. Len(b) /\ s[i] = b[i - Len(a)] /\ i > Len(a)
  BY <1>1, <1>2
<1>5. PruneIn(s) <=> PruneIn(a) \/ PruneIn(b)
  BY <1>3, <1>4 DEF PruneIn
<1>6. Guarded(s)
  <2> SUFFICES ASSUME NEW i \in 1 .. Len(s), s[i].op = "close"
               PROVE  \E k \in 1 .. Len(s) : k > i /\ s[k].op = "prune"
    BY DEF Guarded
  <2>1. CASE i \in 1 .. Len(a) /\ s[i] = a[i]
    <3>1. CASE PruneIn(b)
      <4>1. PICK k \in 1 .. Len(b) : b[k].op = "prune"
        BY <3>1 DEF PruneIn
      <4>2. k + Len(a) > i
        BY <1>2, <2>1
      <4> QED
        BY <1>3, <4>1, <4>2
    <3>2. CASE \E k \in 1 .. Len(a) : k > i /\ a[k].op = "prune"
      BY <1>3, <3>2
    <3> QED
      BY <2>1, <3>1, <3>2
  <2>2. CASE i - Len(a) \in 1 .. Len(b) /\ s[i] = b[i - Len(a)]
    <3>1. PICK k \in 1 .. Len(b) : k > i - Len(a) /\ b[k].op = "prune"
      BY <2>2 DEF Guarded
    <3>2. k + Len(a) > i
      BY <1>2, <3>1
    <3> QED
      BY <1>3, <3>1, <3>2
  <2> QED
    BY <1>4, <2>1, <2>2
<1>7. Starts(s) \/ NoStart(s)
  BY <1>4 DEF Starts, NoStart
<1>8. FwdLast(s)
  <2> SUFFICES ASSUME NEW i \in 1 .. Len(s),
                      s[i].op \in {"fwd_start", "fwd_launch"}
               PROVE  i = Len(s)
    BY DEF FwdLast
  <2>1. CASE i \in 1 .. Len(a) /\ s[i] = a[i]
    <3>1. b = <<>>
      BY <2>1
    <3>2. i = Len(a) /\ Len(b) = 0
      BY <2>1, <3>1 DEF FwdLast
    <3> QED
      BY <1>1, <1>2, <3>2
  <2>2. CASE i - Len(a) \in 1 .. Len(b) /\ s[i] = b[i - Len(a)]
    <3>1. i - Len(a) = Len(b)
      BY <2>2 DEF FwdLast
    <3> QED
      BY <1>1, <1>2, <3>1
  <2> QED
    BY <1>4, <2>1, <2>2
<1>9. FirstOnly(s) /\ (Middle(a) => Middle(s))
  BY <1>4 DEF FirstOnly, Middle
<1>10. ShapeOK(s)
  BY <1>1, <1>6, <1>7, <1>8, <1>9 DEF ShapeOK
<1> QED
  BY <1>5, <1>9, <1>10 DEF s

\* What is left of a job after its first step.
LEMMA ShapeTail ==
  ASSUME NEW j, ShapeOK(j), j # <<>>
  PROVE  /\ Head(j) \in AnyStep /\ ShapeOK(Tail(j))
         /\ PruneIn(j) /\ Head(j).op # "prune" => PruneIn(Tail(j))
         /\ Head(j).op = "close" => PruneIn(Tail(j))
         /\ IF Head(j).op \in RetOps THEN Starts(Tail(j)) /\ ~PruneIn(j)
            ELSE NoStart(Tail(j))
         /\ Head(j).op \in {"fwd_start", "fwd_launch"} => Tail(j) = <<>>
         /\ Middle(Tail(j))
<1> DEFINE s == Tail(j)
<1>1. /\ j \in Seq(AnyStep) /\ Guarded(j) /\ (Starts(j) \/ NoStart(j))
      /\ FwdLast(j) /\ FirstOnly(j)
  BY DEF ShapeOK
<1>2. /\ Head(j) = j[1] /\ j[1] \in AnyStep /\ 1 \in 1 .. Len(j)
      /\ s \in Seq(AnyStep) /\ Len(s) = Len(j) - 1 /\ Len(j) \in Nat
      /\ \A i \in 1 .. Len(s) : s[i] = j[i + 1]
  BY <1>1, HeadTailProperties, LenProperties, EmptySeq, ElementOfSeq
<1>3. Len(s) = 0 => s = <<>>
  BY <1>2, EmptySeq
<1> HIDE DEF s
<1>4. \A i \in 1 .. Len(j) : i = 1 \/ (i - 1 \in 1 .. Len(s) /\ s[i - 1] = j[i])
  <2> TAKE i \in 1 .. Len(j)
  <2>1. i # 1 => i - 1 \in 1 .. Len(s) /\ (i - 1) + 1 = i
    BY <1>2
  <2> QED
    BY <1>2, <2>1
<1>5. \A i \in 1 .. Len(s) : i + 1 \in 1 .. Len(j) /\ j[i + 1] = s[i]
  BY <1>2
<1>6. PruneIn(j) /\ j[1].op # "prune" => PruneIn(s)
  BY <1>4 DEF PruneIn
<1>7. j[1].op = "close" => PruneIn(s)
  BY <1>1, <1>2, <1>4 DEF PruneIn, Guarded
<1>8. Guarded(s)
  <2> SUFFICES ASSUME NEW i \in 1 .. Len(s), s[i].op = "close"
               PROVE  \E k \in 1 .. Len(s) : k > i /\ s[k].op = "prune"
    BY DEF Guarded
  <2>1. PICK k \in 1 .. Len(j) : k > i + 1 /\ j[k].op = "prune"
    BY <1>1, <1>5 DEF Guarded
  <2>2. k # 1 /\ k - 1 > i
    BY <2>1
  <2> QED
    BY <1>4, <2>1, <2>2
<1>9. FwdLast(s)
  BY <1>1, <1>2, <1>5 DEF FwdLast
<1>10. IF j[1].op \in RetOps THEN Starts(s) /\ Starts(j) ELSE NoStart(s)
  BY <1>1, <1>2, <1>5 DEF Starts, NoStart
<1>11. Starts(j) => ~PruneIn(j)
  BY DEF Starts, PruneIn, RetOps
<1>12. j[1].op \in {"fwd_start", "fwd_launch"} => s = <<>>
  <2> SUFFICES ASSUME j[1].op \in {"fwd_start", "fwd_launch"} PROVE s = <<>>
    OBVIOUS
  <2>1. Len(j) = 1
    BY <1>1, <1>2 DEF FwdLast
  <2> QED
    BY <1>2, <1>3, <2>1
<1>13. Middle(s) /\ FirstOnly(s)
  <2>1. \A i \in 1 .. Len(s) : i + 1 # 1
    BY <1>2
  <2>2. Middle(s)
    BY <1>1, <1>5, <2>1 DEF FirstOnly, Middle
  <2> QED
    BY <2>2 DEF FirstOnly, Middle
<1>14. ShapeOK(s)
  BY <1>2, <1>8, <1>9, <1>10, <1>13 DEF ShapeOK
<1> QED
  BY <1>2, <1>6, <1>7, <1>10, <1>11, <1>12, <1>13, <1>14 DEF s

\* What a thread does with the first step of its job.
Body(t, p) ==
  \/ PortSteps(t, p) \/ Prune(t, p) \/ ForwardingSteps(t, p)
  \/ RmvClose(t, p) \/ RmvDetach(t, p)

Nexts == {<<"start", "configure">>, <<"configure", "queues">>,
          <<"queues", "device">>, <<"stop", "halt">>,
          <<"fwd_start", "fwd_launch">>}
Follow(op, p, steps) ==
  \/ steps = <<>>
  \/ \E next \in JobOps : <<op, next>> \in Nexts /\ steps = <<Step(next, p)>>
  \/ op = "rmv" /\ steps = Append(ClosePortSteps(p), Step("detach", p))

Continues(t, op, p) ==
  \/ op \in {"configure", "queues"} /\ Returns(t)
  \/ \E steps : Then(t, steps) /\ Follow(op, p, steps)
Lists(op, p) ==
  CASE op = "close"  -> attached' \subseteq attached /\ UNCHANGED lists
    [] op = "prune"  -> UNCHANGED attached /\ RemoveInvalidPorts
    [] op = "detach" -> DetachDevice(DeviceOf[p])
    [] OTHER         -> UNCHANGED <<attached, lists>>

LEMMA StepShape ==
  ASSUME NEW t \in Threads, NEW p \in Ports \cup {All}, Body(t, p)
  PROVE  \E op \in JobOps : Doing(t, op, p) /\ Continues(t, op, p) /\ Lists(op, p)
<1>1. /\ "start" \in JobOps /\ "configure" \in JobOps /\ "queues" \in JobOps
      /\ "device" \in JobOps /\ "stop" \in JobOps /\ "halt" \in JobOps
      /\ "close" \in JobOps /\ "prune" \in JobOps /\ "reset" \in JobOps
      /\ "rmv" \in JobOps /\ "detach" \in JobOps /\ "fwd_start" \in JobOps
      /\ "fwd_launch" \in JobOps /\ "fwd_stop" \in JobOps
  BY DEF JobOps, RetOps
<1>2. ASSUME NEW op, Then(t, <<>>) PROVE Continues(t, op, p)
  BY <1>2 DEF Continues, Follow
<1>3. ASSUME NEW op, NEW next \in JobOps, <<op, next>> \in Nexts,
             Then(t, <<Step(next, p)>>)
      PROVE  Continues(t, op, p)
  BY <1>3 DEF Continues, Follow
<1>4. CASE PortSteps(t, p)
  <2>0. UNCHANGED lists
    BY <1>4 DEF PortSteps
  <2>1. CASE StartPort(t, p)
    <3>1. <<"start", "configure">> \in Nexts
      BY DEF Nexts
    <3>2. Doing(t, "start", p) /\ UNCHANGED attached
          /\ (Then(t, <<>>) \/ Then(t, <<Step("configure", p)>>))
      BY <2>1 DEF StartPort, devices
    <3>3. Continues(t, "start", p)
      BY <1>1, <1>2, <1>3, <3>1, <3>2
    <3> QED
      BY <1>1, <2>0, <3>2, <3>3 DEF Lists
  <2>2. CASE ConfigureDevice(t, p)
    <3>1. <<"configure", "queues">> \in Nexts
      BY DEF Nexts
    <3>2. Doing(t, "configure", p) /\ UNCHANGED attached
          /\ (Returns(t) \/ Then(t, <<Step("queues", p)>>))
      BY <2>2 DEF ConfigureDevice, devices
    <3>3. Continues(t, "configure", p)
      BY <1>1, <1>3, <3>1, <3>2 DEF Continues
    <3> QED
      BY <1>1, <2>0, <3>2, <3>3 DEF Lists
  <2>3. CASE SetupQueues(t, p)
    <3>1. <<"queues", "device">> \in Nexts
      BY DEF Nexts
    <3>2. Doing(t, "queues", p) /\ UNCHANGED attached
          /\ (Returns(t) \/ Then(t, <<Step("device", p)>>))
      BY <2>3 DEF SetupQueues, devices
    <3>3. Continues(t, "queues", p)
      BY <1>1, <1>3, <3>1, <3>2 DEF Continues
    <3> QED
      BY <1>1, <2>0, <3>2, <3>3 DEF Lists
  <2>4. CASE StopPort(t, p)
    <3>1. <<"stop", "halt">> \in Nexts
      BY DEF Nexts
    <3>2. Doing(t, "stop", p) /\ UNCHANGED attached
          /\ (Then(t, <<>>) \/ Then(t, <<Step("halt", p)>>))
      BY <2>4 DEF StopPort, devices
    <3>3. Continues(t, "stop", p)
      BY <1>1, <1>2, <1>3, <3>1, <3>2
    <3> QED
      BY <1>1, <2>0, <3>2, <3>3 DEF Lists
  <2>5. CASE StartDevice(t, p)
    BY <1>1, <1>2, <2>0, <2>5 DEF StartDevice, Lists
  <2>6. CASE StopDevice(t, p)
    BY <1>1, <1>2, <2>0, <2>6 DEF StopDevice, Lists
  <2>7. CASE ClosePort(t, p)
    <3>1. Doing(t, "close", p) /\ attached' \subseteq attached /\ Then(t, <<>>)
      BY <2>7 DEF ClosePort, Destroy
    <3> QED
      BY <1>1, <1>2, <2>0, <3>1 DEF Lists
  <2>8. CASE ResetPort(t, p)
    BY <1>1, <1>2, <2>0, <2>8 DEF ResetPort, devices, Lists
  <2> QED
    BY <1>4, <2>1, <2>2, <2>3, <2>4, <2>5, <2>6, <2>7, <2>8 DEF PortSteps
<1>5. CASE Prune(t, p)
  BY <1>1, <1>2, <1>5 DEF Prune, devices, Lists
<1>6. CASE ForwardingSteps(t, p)
  <2>1. <<"fwd_start", "fwd_launch">> \in Nexts
    BY DEF Nexts
  <2>2. UNCHANGED <<attached, lists>>
    BY <1>6 DEF ForwardingSteps, devices
  <2>3. \E op \in {"fwd_start", "fwd_launch", "fwd_stop"} :
          Doing(t, op, p)
          /\ (Then(t, <<>>)
              \/ (op = "fwd_start" /\ Then(t, <<Step("fwd_launch", p)>>)))
    BY <1>6 DEF ForwardingSteps, StartForwarding, LaunchForwarding,
       StopForwarding
  <2>4. PICK op \in {"fwd_start", "fwd_launch", "fwd_stop"} :
          Doing(t, op, p)
          /\ (Then(t, <<>>)
              \/ (op = "fwd_start" /\ Then(t, <<Step("fwd_launch", p)>>)))
    BY <2>3
  <2>5. Continues(t, op, p)
    BY <1>1, <1>2, <1>3, <2>1, <2>4
  <2>6. Lists(op, p)
    BY <2>2, <2>4 DEF Lists
  <2> QED
    BY <1>1, <2>4, <2>5, <2>6
<1>7. CASE RmvClose(t, p)
  <2>1. Doing(t, "rmv", p) /\ UNCHANGED <<attached, lists>>
    BY <1>7 DEF RmvClose, devices
  <2>2. \/ Then(t, <<>>)
        \/ Then(t, Append(ClosePortSteps(p), Step("detach", p)))
    BY <1>7 DEF RmvClose
  <2>3. Continues(t, "rmv", p)
    BY <2>2, <1>2 DEF Continues, Follow
  <2> QED
    BY <1>1, <2>1, <2>3 DEF Lists
<1>8. CASE RmvDetach(t, p)
  BY <1>1, <1>2, <1>8 DEF RmvDetach, Lists
<1> QED
  BY <1>4, <1>5, <1>6, <1>7, <1>8 DEF Body

NoFwd(j) == \A i \in 1 .. Len(j) : j[i].op \notin {"fwd_start", "fwd_launch"}


\* What a command, or the removal, puts into a job.
Part(j) == ShapeOK(j) /\ NoStart(j) /\ Middle(j)
PlainOps ==
  JobOps \ (RetOps \cup {"close", "halt", "fwd_start", "fwd_launch"})

\* A single step of another kind, and a step for each port.
LEMMA PlainShape ==
  ASSUME NEW op \in PlainOps, NEW p \in Ports \cup {All}
  PROVE  /\ Part(<<Step(op, p)>>) /\ NoFwd(<<Step(op, p)>>)
         /\ PruneIn(<<Step(op, p)>>) <=> op = "prune"
         /\ Part(ForEach(op, p)) /\ NoFwd(ForEach(op, p))
<1>0. op \in JobOps /\ op \notin RetOps
      /\ op \notin {"close", "halt", "fwd_start", "fwd_launch"}
  BY DEF PlainOps
<1>1. /\ <<Step(op, p)>> \in Seq(AnyStep) /\ Len(<<Step(op, p)>>) = 1
      /\ \A i \in 1 .. Len(<<Step(op, p)>>) : <<Step(op, p)>>[i].op = op
  BY <1>0, OneShape
<1>2. 1 \in 1 .. Len(<<Step(op, p)>>)
  BY <1>1
<1>3. /\ ForEach(op, p) \in Seq(AnyStep)
      /\ \A i \in 1 .. Len(ForEach(op, p)) : ForEach(op, p)[i].op = op
  BY <1>0, ForEachShape
<1>4. ASSUME NEW s \in Seq(AnyStep), \A i \in 1 .. Len(s) : s[i].op = op
      PROVE  Part(s) /\ NoFwd(s)
  BY <1>0, <1>4 DEF Part, ShapeOK, NoStart, NoFwd, Guarded, FwdLast,
     FirstOnly, Middle
<1>5. PruneIn(<<Step(op, p)>>) <=> op = "prune"
  BY <1>1, <1>2, Zenon DEF PruneIn
<1>6. Part(<<Step(op, p)>>) /\ NoFwd(<<Step(op, p)>>)
  BY <1>1, <1>4, Zenon
<1>7. Part(ForEach(op, p)) /\ NoFwd(ForEach(op, p))
  BY <1>3, <1>4, Zenon
<1> QED
  BY <1>5, <1>6, <1>7

\* Whole shapes one after the other.
LEMMA PartsConcat ==
  ASSUME NEW a, NEW b, Part(a), Part(b), NoFwd(a)
  PROVE  /\ Part(a \o b)
         /\ PruneIn(a \o b) <=> PruneIn(a) \/ PruneIn(b)
         /\ NoFwd(b) => NoFwd(a \o b)
<1>1. /\ a \in Seq(AnyStep) /\ b \in Seq(AnyStep)
      /\ FwdLast(a) /\ FwdLast(b) /\ Guarded(a) /\ Guarded(b)
      /\ FirstOnly(a) /\ Middle(a) /\ Middle(b) /\ NoStart(a) /\ NoStart(b)
  BY DEF Part, ShapeOK
<1>2. /\ \A i \in 1 .. Len(a) : a[i].op = "close" =>
           PruneIn(b) \/ \E k \in 1 .. Len(a) : k > i /\ a[k].op = "prune"
      /\ IF b = <<>> THEN FwdLast(a)
         ELSE \A i \in 1 .. Len(a) : a[i].op \notin {"fwd_start", "fwd_launch"}
  BY <1>1 DEF Guarded, NoFwd
<1>3. /\ ShapeOK(a \o b) /\ Middle(a \o b)
      /\ PruneIn(a \o b) <=> PruneIn(a) \/ PruneIn(b)
  BY <1>1, <1>2, ShapeConcat
<1>4. \A i \in 1 .. Len(a \o b) :
        \/ i \in 1 .. Len(a) /\ (a \o b)[i] = a[i]
        \/ i - Len(a) \in 1 .. Len(b) /\ (a \o b)[i] = b[i - Len(a)]
  BY <1>1, ConcatProperties, LenProperties
<1> DEFINE s == a \o b
<1> HIDE DEF s
<1>5. \A i \in 1 .. Len(s) : \/ i \in 1 .. Len(a) /\ s[i] = a[i]
                             \/ i - Len(a) \in 1 .. Len(b) /\ s[i] = b[i - Len(a)]
  BY <1>4 DEF s
<1>6. NoStart(s) /\ (NoFwd(b) => NoFwd(s))
  BY <1>1, <1>5 DEF NoStart, NoFwd
<1> QED
  BY <1>3, <1>6 DEF s, Part

LEMMA CloseShape ==
  ASSUME NEW pid \in Ports \cup {All}
  PROVE  /\ Part(ClosePortSteps(pid))
         /\ NoFwd(ClosePortSteps(pid)) /\ PruneIn(ClosePortSteps(pid))
<1> DEFINE a == ForEach("close", pid)
           b == <<Step("prune", pid)>>
<1>1. {"close", "prune"} \subseteq JobOps /\ "prune" \in PlainOps
  BY DEF PlainOps, JobOps, RetOps
<1>2. a \in Seq(AnyStep) /\ \A i \in 1 .. Len(a) : a[i].op = "close"
  BY <1>1, ForEachShape
<1>3. Part(b) /\ NoFwd(b) /\ PruneIn(b)
  BY <1>1, PlainShape
<1>4. Step("prune", pid) \in AnyStep
  BY <1>1 DEF Step, AnyStep
<1>5. ClosePortSteps(pid) = a \o b
  BY <1>2, <1>4, AppendIsConcat DEF ClosePortSteps
<1>6. NoStart(a) /\ NoFwd(a) /\ FwdLast(a) /\ FirstOnly(a) /\ Middle(a)
  BY <1>2 DEF NoStart, NoFwd, FwdLast, RetOps, FirstOnly, Middle
<1>7. b \in Seq(AnyStep) /\ Guarded(b) /\ FwdLast(b) /\ Middle(b) /\ NoStart(b)
  BY <1>3 DEF Part, ShapeOK
<1> HIDE DEF a, b
<1>8. ShapeOK(a \o b) /\ PruneIn(a \o b) /\ Middle(a \o b)
  BY <1>2, <1>3, <1>6, <1>7, ShapeConcat DEF NoFwd
<1>9. \A i \in 1 .. Len(a \o b) : \/ i \in 1 .. Len(a) /\ (a \o b)[i] = a[i]
                                  \/ i - Len(a) \in 1 .. Len(b)
                                       /\ (a \o b)[i] = b[i - Len(a)]
  BY <1>2, <1>7, ConcatProperties, LenProperties
<1> DEFINE s == a \o b
<1> HIDE DEF s
<1>10. \A i \in 1 .. Len(s) : \/ i \in 1 .. Len(a) /\ s[i] = a[i]
                              \/ i - Len(a) \in 1 .. Len(b)
                                   /\ s[i] = b[i - Len(a)]
  BY <1>9 DEF s
<1>11. NoStart(s) /\ NoFwd(s)
  BY <1>3, <1>6, <1>7, <1>10 DEF NoStart, NoFwd
<1> QED
  BY <1>5, <1>8, <1>11 DEF s, Part

LEMMA RemovalShape ==
  ASSUME NEW p \in Ports \cup {All}
  PROVE  LET steps == Append(ClosePortSteps(p), Step("detach", p)) IN
         Part(steps) /\ NoFwd(steps)
<1>1. "detach" \in PlainOps
  BY DEF PlainOps, JobOps, RetOps
<1>2. Part(<<Step("detach", p)>>) /\ NoFwd(<<Step("detach", p)>>)
  BY <1>1, PlainShape
<1>3. /\ Part(ClosePortSteps(p)) /\ NoFwd(ClosePortSteps(p))
      /\ ClosePortSteps(p) \in Seq(AnyStep)
  BY CloseShape DEF Part, ShapeOK
<1>4. Step("detach", p) \in AnyStep
  BY <1>1 DEF PlainOps, Step, AnyStep
<1>5. Append(ClosePortSteps(p), Step("detach", p))
        = ClosePortSteps(p) \o <<Step("detach", p)>>
  BY <1>3, <1>4, AppendIsConcat
<1> QED
  BY <1>2, <1>3, <1>5, PartsConcat

LEMMA ExitShape == Part(ExitSteps) /\ PruneIn(ExitSteps)
<1> DEFINE a == IF test_done THEN <<>> ELSE <<Step("fwd_stop", All)>>
           b == ForEach("stop", All)
           c == ClosePortSteps(All)
           d == <<Step("exited", All)>>
<1>1. {"fwd_stop", "stop", "exited"} \subseteq PlainOps
  BY DEF PlainOps, JobOps, RetOps
<1>2. Part(<<>>) /\ NoFwd(<<>>)
  <2>1. \A i \in 1 .. Len(<<>>) : FALSE
    OBVIOUS
  <2> QED
    BY <2>1, EmptyShape, Zenon DEF Part, NoStart, NoFwd
<1>3. Part(a) /\ NoFwd(a)
  BY <1>1, <1>2, PlainShape
<1>4. Part(b) /\ NoFwd(b)
  BY <1>1, PlainShape
<1>5. Part(c) /\ NoFwd(c) /\ PruneIn(c)
  BY CloseShape
<1>6. Part(d)
  BY <1>1, PlainShape
<1>7. ExitSteps = ((a \o b) \o c) \o d
  BY DEF ExitSteps
<1> HIDE DEF a, b, c, d
<1>8. Part(a \o b) /\ NoFwd(a \o b)
  BY <1>3, <1>4, PartsConcat
<1>9. /\ Part((a \o b) \o c)
      /\ NoFwd((a \o b) \o c) /\ PruneIn((a \o b) \o c)
  BY <1>5, <1>8, PartsConcat
<1> QED
  BY <1>6, <1>7, <1>9, PartsConcat

\* The jobs of "start": steps of start_port alone.
LEMMA StartShape ==
  ASSUME NEW pid \in Ports \cup {All}
  PROVE  ShapeOK(ForEach("start", pid)) /\ Middle(ForEach("start", pid))
<1>1. "start" \in JobOps
  BY DEF JobOps, RetOps
<1>2. /\ ForEach("start", pid) \in Seq(AnyStep)
      /\ \A i \in 1 .. Len(ForEach("start", pid)) :
           ForEach("start", pid)[i].op = "start"
  BY <1>1, ForEachShape
<1> QED
  BY <1>2 DEF ShapeOK, Guarded, Starts, FwdLast, FirstOnly, Middle, RetOps

\* The thread goes on with its job; the other keeps its own.
LEMMA ContinueShape ==
  ASSUME JobShape, NEW t \in Threads, NEW p \in Ports \cup {All},
         NEW op \in JobOps, Doing(t, op, p), Continues(t, op, p)
  PROVE  /\ JobShape'
         /\ \A u \in Threads \ {t} : job'[u] = job[u]
         /\ op # "prune" /\ PruneIn(job[t]) => PruneIn(job'[t])
         /\ op = "close" => PruneIn(job'[t])
         /\ \/ Middle(job'[t])
            \/ \E next \in JobOps : /\ <<op, next>> \in Nexts
                                    /\ Then(t, <<Step(next, p)>>)
                                    /\ job'[t] # <<>>
                                    /\ Head(job'[t]) = Step(next, p)
<1> DEFINE j == job[t]
           r == Tail(job[t])
<1>1. ShapeOK(j) /\ j # <<>> /\ Head(j).op = op
  BY DEF JobShape, Doing, Step
<1>2. /\ ShapeOK(r)
      /\ PruneIn(j) /\ op # "prune" => PruneIn(r)
      /\ op = "close" => PruneIn(r)
      /\ IF op \in RetOps THEN Starts(r) /\ ~PruneIn(j) ELSE NoStart(r)
      /\ op \in {"fwd_start", "fwd_launch"} => r = <<>>
      /\ Middle(r)
  BY <1>1, ShapeTail
<1>3. ASSUME NEW k, ShapeOK(k), job' = [job EXCEPT ![t] = k]
      PROVE  JobShape' /\ job'[t] = k /\ \A u \in Threads \ {t} : job'[u] = job[u]
  <2>1. job' = [u \in Threads |-> IF u = t THEN k ELSE job[u]]
    BY <1>3 DEF JobShape
  <2>2. k \in Seq(AnyStep)
    BY <1>3 DEF ShapeOK
  <2> QED
    BY <1>3, <2>1, <2>2 DEF JobShape
<1>4. CASE op \in {"configure", "queues"} /\ Returns(t)
  <2>1. JobShape' /\ \A u \in Threads \ {t} : job'[u] = job[u]
    BY <1>3, <1>4, EmptyShape DEF Returns
  <2>2. op \in RetOps
    BY <1>4 DEF RetOps
  <2>3. job'[t] = <<>>
    BY <1>3, <1>4, EmptyShape DEF Returns
  <2> QED
    BY <1>2, <1>4, <2>1, <2>2, <2>3, EmptyShape
<1>5. CASE \E steps : Then(t, steps) /\ Follow(op, p, steps)
  <2>1. PICK steps : Then(t, steps) /\ Follow(op, p, steps)
    BY <1>5
  <2>2. job' = [job EXCEPT ![t] = steps \o r]
    BY <2>1 DEF Then
  <2>3. SUFFICES /\ ShapeOK(steps \o r)
                 /\ op # "prune" /\ PruneIn(j) => PruneIn(steps \o r)
                 /\ op = "close" => PruneIn(steps \o r)
                 /\ \/ Middle(steps \o r)
                    \/ \E next \in JobOps :
                         /\ <<op, next>> \in Nexts /\ steps = <<Step(next, p)>>
                         /\ steps \o r # <<>>
                         /\ Head(steps \o r) = Step(next, p)
    BY <1>3, <2>1, <2>2
  <2>4. r \in Seq(AnyStep) /\ Guarded(r) /\ FwdLast(r)
    BY <1>2 DEF ShapeOK
  <2>5. CASE steps = <<>>
    <3>1. steps \o r = r
      BY <2>4, <2>5, ConcatEmptySeq
    <3> QED
      BY <1>2, <3>1
  <2>6. CASE \E next \in JobOps : <<op, next>> \in Nexts
                                  /\ steps = <<Step(next, p)>>
    <3>1. PICK next \in JobOps : <<op, next>> \in Nexts
                                 /\ steps = <<Step(next, p)>>
      BY <2>6
    <3>2. /\ op \in RetOps <=> next \in RetOps
          /\ next # "close" /\ next # "fwd_start"
          /\ next = "fwd_launch" => op = "fwd_start"
      BY <3>1 DEF Nexts, RetOps
    <3>3. /\ steps \in Seq(AnyStep) /\ Len(steps) = 1
          /\ \A i \in 1 .. Len(steps) : steps[i].op = next /\ i = 1
      BY <3>1, OneShape
    <3>4. (Starts(steps) /\ Starts(r)) \/ (NoStart(steps) /\ NoStart(r))
      BY <1>2, <3>2, <3>3 DEF Starts, NoStart
    <3>5. \A i \in 1 .. Len(steps) : steps[i].op = "close" =>
            PruneIn(r) \/ \E k \in 1 .. Len(steps) : k > i /\ steps[k].op = "prune"
      BY <3>2, <3>3
    <3>6. IF r = <<>> THEN FwdLast(steps)
          ELSE \A i \in 1 .. Len(steps) :
                 steps[i].op \notin {"fwd_start", "fwd_launch"}
      BY <1>2, <3>2, <3>3 DEF FwdLast
    <3>7. FirstOnly(steps)
      BY <3>3 DEF FirstOnly
    <3>8. ShapeOK(steps \o r) /\ (PruneIn(r) => PruneIn(steps \o r))
      BY <1>2, <2>4, <3>3, <3>4, <3>5, <3>6, <3>7, ShapeConcat
    <3>9. steps \o r # <<>> /\ Head(steps \o r) = Step(next, p)
      <4> DEFINE s == steps \o r
      <4>0. steps \in Seq(AnyStep) /\ r \in Seq(AnyStep)
        BY <2>4, <3>3
      <4>1. /\ s \in Seq(AnyStep) /\ Len(s) = Len(steps) + Len(r)
            /\ \A i \in 1 .. Len(s) :
                 s[i] = IF i <= Len(steps) THEN steps[i] ELSE r[i - Len(steps)]
        BY <4>0, ConcatProperties, Zenon
      <4>2. Len(r) \in Nat
        BY <4>0, LenProperties
      <4> HIDE DEF s
      <4>3. s[1] = steps[1] /\ s # <<>>
        BY <3>3, <4>1, <4>2
      <4>4. s[1] = Step(next, p)
        BY <3>1, <4>3
      <4> QED
        BY <4>1, <4>3, <4>4 DEF s
    <3> QED
      BY <1>2, <3>1, <3>8, <3>9
  <2>7. CASE op = "rmv" /\ steps = Append(ClosePortSteps(p), Step("detach", p))
    <3>1. Part(steps) /\ NoFwd(steps)
      BY <2>7, RemovalShape
    <3>2. Part(r)
      BY <1>2, <2>7 DEF RetOps, Part
    <3>3. Part(steps \o r) /\ (PruneIn(r) => PruneIn(steps \o r))
      BY <3>1, <3>2, PartsConcat
    <3> QED
      BY <1>2, <2>7, <3>3 DEF Part
  <2> QED
    BY <2>1, <2>5, <2>6, <2>7 DEF Follow
<1> QED
  BY <1>4, <1>5 DEF Continues

LEMMA SetShape ==
  ASSUME JobShape, NEW t \in Threads, NEW j, ShapeOK(j),
         job' = [job EXCEPT ![t] = j]
  PROVE  JobShape' /\ job'[t] = j /\ \A u \in Threads \ {t} : job'[u] = job[u]
<1>1. job' = [u \in Threads |-> IF u = t THEN j ELSE job[u]]
  BY DEF JobShape
<1>2. j \in Seq(AnyStep)
  BY DEF ShapeOK
<1> QED
  BY <1>1, <1>2 DEF JobShape

\* The jobs that a command or a signal gives to the main thread.
LEMMA OperatorJob ==
  ASSUME \/ \E pid \in Ports \cup {All} : OperatePort(pid)
         \/ OperateForwarding \/ Quit \/ SignalHandler
  PROVE  /\ UNCHANGED <<devices, records, lists, setup_on_probe_event,
                        forwarding, removals>>
         /\ \E j : /\ ShapeOK(j) /\ Middle(j)
                   /\ job' = [job EXCEPT !["main"] = j]
                   /\ job["main"] = <<>> \/ PruneIn(j)
<1>1. CASE \E pid \in Ports \cup {All} : OperatePort(pid)
  <2>1. PICK pid \in Ports \cup {All} : OperatePort(pid)
    BY <1>1
  <2>2. /\ UNCHANGED <<devices, records, lists, setup_on_probe_event,
                       forwarding, removals>>
        /\ job["main"] = <<>>
        /\ \/ Runs(ForEach("start", pid)) \/ Runs(ForEach("stop", pid))
           \/ Runs(ClosePortSteps(pid)) \/ Runs(ForEach("reset", pid))
    BY <2>1 DEF OperatePort, Command
  <2>3. {"stop", "reset"} \subseteq PlainOps
    BY DEF PlainOps, JobOps, RetOps
  <2>4. /\ ShapeOK(ForEach("start", pid)) /\ Middle(ForEach("start", pid))
        /\ ShapeOK(ForEach("stop", pid)) /\ Middle(ForEach("stop", pid))
        /\ ShapeOK(ClosePortSteps(pid)) /\ Middle(ClosePortSteps(pid))
        /\ ShapeOK(ForEach("reset", pid)) /\ Middle(ForEach("reset", pid))
    BY <2>3, StartShape, PlainShape, CloseShape DEF Part
  <2> QED
    BY <2>2, <2>4 DEF Runs
<1>2. CASE OperateForwarding
  <2>1. /\ UNCHANGED <<devices, records, lists, setup_on_probe_event,
                       forwarding, removals>>
        /\ job["main"] = <<>>
        /\ Runs(<<Step("fwd_start", All)>>) \/ Runs(<<Step("fwd_stop", All)>>)
    BY <1>2 DEF OperateForwarding, Command
  <2>2. ASSUME NEW op \in {"fwd_start", "fwd_stop"}
        PROVE  ShapeOK(<<Step(op, All)>>) /\ Middle(<<Step(op, All)>>)
    <3>1. op \in JobOps /\ op \notin RetOps
      BY DEF JobOps, RetOps
    <3>2. /\ <<Step(op, All)>> \in Seq(AnyStep) /\ Len(<<Step(op, All)>>) = 1
          /\ \A i \in 1 .. Len(<<Step(op, All)>>) :
               <<Step(op, All)>>[i].op = op /\ i = 1
      BY <3>1, OneShape
    <3> DEFINE s == <<Step(op, All)>>
    <3> HIDE DEF s
    <3>3. /\ s \in Seq(AnyStep) /\ Len(s) = 1
          /\ \A i \in 1 .. Len(s) : s[i].op = op /\ i = 1
      BY <3>2 DEF s
    <3>4. ShapeOK(s) /\ Middle(s)
      BY <3>1, <3>3 DEF ShapeOK, Guarded, NoStart, FwdLast, FirstOnly, Middle
    <3> QED
      BY <3>4 DEF s
  <2> QED
    BY <2>1, <2>2 DEF Runs
<1>3. CASE Quit \/ SignalHandler
  BY <1>3, ExitShape DEF Quit, SignalHandler, Runs, Part
<1> QED
  BY <1>1, <1>2, <1>3

\* The job of rmv_port_callback.
LEMMA CallbackShape ==
  ASSUME JobShape, NEW p \in Ports, RmvPortCallback(p)
  PROVE  \E j : /\ ShapeOK(j) /\ Middle(j)
                /\ job' = [job EXCEPT !["intr"] = j]
                /\ job["intr"] = <<>>
<1> DEFINE work == <<Step("stop", p), Step("rmv", p)>>
           full == <<Step("fwd_stop", p)>> \o work \o <<Step("fwd_start", p)>>
<1>1. \E j \in {<<>>, work, full} : job' = [job EXCEPT !["intr"] = j]
  BY DEF RmvPortCallback
<1>2. {"stop", "rmv", "fwd_stop"} \subseteq PlainOps
  BY DEF PlainOps, JobOps, RetOps
<1>3. ASSUME NEW op \in {"stop", "rmv", "fwd_stop"}
      PROVE  Part(<<Step(op, p)>>) /\ NoFwd(<<Step(op, p)>>)
  BY <1>2, PlainShape
<1>4. work = <<Step("stop", p)>> \o <<Step("rmv", p)>>
  OBVIOUS
<1>5. Part(work) /\ NoFwd(work)
  BY <1>3, <1>4, PartsConcat
<1>6. Part(<<Step("fwd_start", p)>>)
  <2>1. "fwd_start" \in JobOps /\ "fwd_start" \notin RetOps
    BY DEF JobOps, RetOps
  <2> DEFINE s == <<Step("fwd_start", p)>>
  <2>2. /\ s \in Seq(AnyStep) /\ Len(s) = 1
        /\ \A i \in 1 .. Len(s) : s[i].op = "fwd_start" /\ i = 1
    BY <2>1, OneShape
  <2> HIDE DEF s
  <2>3. Part(s)
    BY <2>1, <2>2 DEF Part, ShapeOK, Guarded, NoStart, FwdLast, FirstOnly, Middle
  <2> QED
    BY <2>3 DEF s
<1> HIDE DEF work
<1>7. Part(full)
  BY <1>3, <1>5, <1>6, PartsConcat
<1>8. job["intr"] = <<>>
  BY DEF RmvPortCallback
<1> HIDE DEF full
<1> QED
  BY <1>1, <1>5, <1>7, <1>8, EmptyShape DEF Part
\* A port that was closed and is still listed is taken off the lists by a
\* step that is pending.
Covered == Range(ports_ids) \cup Range(fwd_ports_ids) \subseteq attached
DueInv == Covered \/ \E t \in Threads : PruneIn(job[t])

LEMMA DetachCovers ==
  ASSUME TypeOK, NEW d, DetachDevice(d)
  PROVE  Covered' \/ UNCHANGED <<attached, lists>>
<1>1. CASE RemoveInvalidPorts
  BY <1>1, PruneLists DEF Covered
<1> QED
  BY <1>1 DEF DetachDevice, devices

LEMMA NextDue ==
  ASSUME ListsInv, JobShape, DueInv, [Next]_vars
  PROVE  JobShape' /\ DueInv'
<1>0. TypeOK
  BY DEF ListsInv
<1>1. CASE UNCHANGED <<attached, lists, job>>
  BY <1>1 DEF JobShape, DueInv, Covered, lists
<1>2. ASSUME NEW t \in Threads, NEW j, ShapeOK(j), job' = [job EXCEPT ![t] = j],
             job[t] = <<>> \/ PruneIn(j), UNCHANGED <<attached, lists>>
      PROVE  JobShape' /\ DueInv'
  <2>1. JobShape' /\ job'[t] = j /\ \A u \in Threads \ {t} : job'[u] = job[u]
    BY <1>2, SetShape
  <2>2. CASE Covered
    BY <1>2, <2>1, <2>2 DEF DueInv, Covered, lists
  <2>3. CASE \E u \in Threads : PruneIn(job[u])
    BY <1>2, <2>1, <2>3, EmptyShape DEF DueInv
  <2> QED
    BY <2>2, <2>3 DEF DueInv
<1>3. CASE \E p \in Ports : RemovalEvent(p)
  BY <1>1, <1>3 DEF RemovalEvent, devices
<1>4. ASSUME NEW p \in Ports, RmvPortCallback(p) PROVE JobShape' /\ DueInv'
  <2>1. UNCHANGED <<attached, lists>> /\ "intr" \in Threads
    BY <1>4 DEF RmvPortCallback, devices, Threads
  <2> QED
    BY <1>2, <1>4, <2>1, CallbackShape
<1>5. ASSUME NEW t \in Threads, NEW p \in Ports \cup {All}, Body(t, p)
      PROVE  JobShape' /\ DueInv'
  <2>1. PICK op \in JobOps :
          Doing(t, op, p) /\ Continues(t, op, p) /\ Lists(op, p)
    BY <1>5, StepShape
  <2>2. /\ JobShape' /\ \A u \in Threads \ {t} : job'[u] = job[u]
        /\ op # "prune" /\ PruneIn(job[t]) => PruneIn(job'[t])
        /\ op = "close" => PruneIn(job'[t])
    BY <2>1, ContinueShape
  <2>3. CASE op = "close"
    BY <2>2, <2>3 DEF DueInv
  <2>4. CASE op = "prune"
    <3>1. RemoveInvalidPorts
      BY <2>1, <2>4 DEF Lists
    <3> QED
      BY <1>0, <2>2, <3>1, PruneLists DEF DueInv, Covered
  <2>5. CASE op \notin {"close", "prune"}
    <3>1. Covered' \/ UNCHANGED <<attached, lists>>
      BY <1>0, <2>1, <2>5, DetachCovers DEF Lists
    <3>2. CASE Covered'
      BY <2>2, <3>2 DEF DueInv
    <3>3. CASE UNCHANGED <<attached, lists>>
      <4>1. CASE Covered
        BY <2>2, <3>3, <4>1 DEF DueInv, Covered, lists
      <4>2. CASE \E u \in Threads : PruneIn(job[u])
        BY <2>2, <2>5, <4>2 DEF DueInv
      <4> QED
        BY <4>1, <4>2 DEF DueInv
    <3> QED
      BY <3>1, <3>2, <3>3
  <2> QED
    BY <2>3, <2>4, <2>5
<1>6. CASE Operator
  <2>1. CASE \/ \E pid \in Ports \cup {All} : OperatePort(pid)
             \/ OperateForwarding \/ Quit \/ SignalHandler
    <3>1. UNCHANGED <<attached, lists>> /\ "main" \in Threads
      BY <2>1, OperatorJob DEF devices, Threads
    <3> QED
      BY <1>2, <2>1, <3>1, OperatorJob
  <2>2. CASE \E d \in Devices : OperateAttach(d)
    <3>1. PICK d \in Devices : AttachPort(d) /\ UNCHANGED job
      BY <2>2 DEF OperateAttach
    <3>2. PICK S \in SUBSET Ports :
            /\ attached \subseteq attached' /\ S \subseteq attached'
            /\ ports_ids' = ports_ids \o Ascending(S)
            /\ fwd_ports_ids' = fwd_ports_ids \o Ascending(S)
      BY <3>1, AttachLists
    <3>3. /\ Ascending(S) \in Seq(Ports) /\ Range(Ascending(S)) = S
          /\ ports_ids \in Seq(Ports) /\ fwd_ports_ids \in Seq(Ports)
      BY <1>0, AscendingPorts DEF TypeOK
    <3>4. /\ Range(ports_ids') = Range(ports_ids) \cup S
          /\ Range(fwd_ports_ids') = Range(fwd_ports_ids) \cup S
      BY <3>2, <3>3, ListConcat
    <3>5. Covered => Covered'
      BY <3>2, <3>4 DEF Covered
    <3> QED
      BY <3>1, <3>5 DEF JobShape, DueInv
  <2>3. CASE \E d \in Devices : OperateDetach(d)
    <3>1. PICK d \in Devices : DetachDevice(d) /\ UNCHANGED job
      BY <2>3 DEF OperateDetach
    <3>2. Covered' \/ UNCHANGED <<attached, lists>>
      BY <1>0, <3>1, DetachCovers
    <3>3. CASE Covered'
      BY <3>1, <3>3 DEF JobShape, DueInv
    <3> QED
      BY <1>1, <3>1, <3>2, <3>3
  <2>4. CASE \E mode \in ProbeModes : SetPortSetupOn(mode)
    BY <1>1, <2>4 DEF SetPortSetupOn, devices
  <2>5. CASE \E S \in SUBSET Ports : SetPortList(S)
    <3>1. PICK S \in SUBSET Ports :
            /\ UNCHANGED <<attached, ports_ids, job>>
            /\ S \subseteq attached /\ fwd_ports_ids' = Ascending(S)
      BY <2>5 DEF SetPortList, devices
    <3>2. Range(fwd_ports_ids') = S
      BY <3>1, AscendingPorts
    <3> QED
      BY <3>1, <3>2 DEF JobShape, DueInv, Covered
  <2>6. CASE \E c \in Commands, pid \in Ports \cup {All} : Configure(c, pid)
    BY <1>1, <2>6 DEF Configure, devices
  <2> QED
    BY <1>6, <2>1, <2>2, <2>3, <2>4, <2>5, <2>6 DEF Operator
<1>7. CASE UNCHANGED vars
  BY <1>1, <1>7 DEF vars, devices
<1> QED
  BY <1>3, <1>4, <1>5, <1>6, <1>7 DEF Next, ThreadStep, Body

LEMMA InitDue == Init => JobShape /\ DueInv
<1> SUFFICES ASSUME Init PROVE JobShape /\ DueInv
  OBVIOUS
<1>1. TypeOK
  BY InitTypes
<1>2. Covered
  BY <1>1, AscendingPorts DEF Init, TypeOK, Covered
<1>3. <<>> \in Seq(AnyStep)
  BY EmptySeq
<1>4. JobShape
  BY <1>3, EmptyShape DEF Init, JobShape
<1> QED
  BY <1>2, <1>4 DEF DueInv

\* Between commands the list of the ports is that of the ports there are, and
\* the list of the forwarding ports names no other: whichever thread closes
\* and detaches a port, whatever fails, and wherever a signal cuts in.
THEOREM ListsCorrect == Spec => []ListsAttached
<1> DEFINE I == /\ ListsInv /\ (EventsOnly => EventsInv)
                /\ JobShape /\ DueInv
<1>1. Init => I
  BY InitLists, InitDue
<1>2. I /\ [Next]_vars => I'
  <2> SUFFICES ASSUME I, [Next]_vars PROVE I'
    OBVIOUS
  <2>1. ListsInv' /\ (EventsOnly => EventsInv')
    BY NextLists
  <2>2. JobShape' /\ DueInv'
    BY NextDue
  <2> QED
    BY <2>1, <2>2 DEF EventsOnly
<1>3. I => ListsAttached
  <2> SUFFICES ASSUME I, Idle PROVE Covered /\ attached \subseteq Range(ports_ids)
    BY DEF ListsAttached, Covered
  <2>1. \A t \in Threads : ~PruneIn(job[t])
    BY EmptyShape DEF Idle
  <2> QED
    BY <2>1 DEF DueInv, ListsInv
<1> HIDE DEF I
<1> QED
  BY <1>1, <1>2, <1>3, PTL DEF Spec

-----------------------------------------------------------------------------
(* The ports that are polled, when the removal callback runs between        *)
(* commands.                                                               *)

Halting(t, p) == job[t] # <<>> /\ Head(job[t]) = Step("halt", p)
Launching == \E t \in Threads : job[t] # <<>> /\ Head(job[t]).op = "fwd_launch"
Alone == job["main"] = <<>> \/ job["intr"] = <<>>

\* What is polled, or about to be, forwards and runs; a port that is being
\* stopped while the forwarding goes on is not polled.
PollInv ==
  /\ Alone
  /\ ~test_done \/ Launching => polled \subseteq Range(fwd_ports_ids) \cap running
  /\ \A t \in Threads, p \in Ports : Halting(t, p) /\ ~test_done => p \notin polled

LEMMA MiddleHead ==
  ASSUME NEW j \in Seq(AnyStep), Middle(j), j # <<>>
  PROVE  Head(j).op \notin {"halt", "fwd_launch"}
<1>1. Head(j) = j[1] /\ 1 \in 1 .. Len(j)
  BY HeadTailProperties, LenProperties, EmptySeq
<1> QED
  BY <1>1 DEF Middle

\* No port is being stopped, and the forwarding not about to be launched.
Calm == ~Launching /\ \A t \in Threads, p \in Ports : ~Halting(t, p)

LEMMA BothThreads ==
  /\ "main" \in Threads /\ "intr" \in Threads
  /\ \A t \in Threads : t = "main" \/ t = "intr"
  BY DEF Threads

LEMMA IdleCalm == Idle => Calm
  BY DEF Idle, Calm, Launching, Halting

\* A new job, of a thread that is alone.
LEMMA NewJobCalm ==
  ASSUME JobShape, NEW t \in Threads, NEW j, ShapeOK(j), Middle(j),
         job' = [job EXCEPT ![t] = j], \A u \in Threads \ {t} : job[u] = <<>>
  PROVE  Alone' /\ Calm'
<1>1. job'[t] = j /\ \A u \in Threads \ {t} : job'[u] = job[u]
  BY SetShape
<1>2. j # <<>> => Head(j).op \notin {"halt", "fwd_launch"}
  BY MiddleHead DEF ShapeOK
<1>3. Calm'
  BY <1>1, <1>2 DEF Calm, Launching, Halting, Step
<1> QED
  BY <1>1, <1>3, BothThreads DEF Alone

\* A thread that is alone comes to stop a port, or to launch the forwarding,
\* from the step before only.
LEMMA StepCalm ==
  ASSUME JobShape, Alone, NEW t \in Threads, NEW p \in Ports \cup {All}, Body(t, p)
  PROVE  /\ Alone'
         /\ \/ Calm'
            \/ /\ Doing(t, "stop", p) /\ Then(t, <<Step("halt", p)>>)
               /\ ~Launching'
               /\ \A u \in Threads, q \in Ports : Halting(u, q)' => q = p
            \/ /\ Doing(t, "fwd_start", p) /\ Then(t, <<Step("fwd_launch", p)>>)
               /\ \A u \in Threads, q \in Ports : ~Halting(u, q)'
<1>1. PICK op \in JobOps : Doing(t, op, p) /\ Continues(t, op, p)
  BY StepShape
<1>2. /\ JobShape' /\ \A u \in Threads \ {t} : job'[u] = job[u]
      /\ \/ Middle(job'[t])
         \/ \E next \in JobOps : /\ <<op, next>> \in Nexts
                                 /\ Then(t, <<Step(next, p)>>)
                                 /\ job'[t] # <<>>
                                 /\ Head(job'[t]) = Step(next, p)
  BY <1>1, ContinueShape
<1>3. \A u \in Threads \ {t} : job[u] = <<>> /\ job'[u] = <<>>
  BY <1>1, <1>2, BothThreads DEF Alone, Doing
<1>4. Alone'
  BY <1>3, BothThreads DEF Alone
<1>5. CASE Middle(job'[t])
  <2>1. job'[t] # <<>> => Head(job'[t]).op \notin {"halt", "fwd_launch"}
    BY <1>2, <1>5, MiddleHead DEF JobShape, ShapeOK
  <2>2. Calm'
    BY <1>3, <2>1 DEF Calm, Launching, Halting, Step
  <2> QED
    BY <1>4, <2>2
<1>6. CASE \E next \in JobOps : /\ <<op, next>> \in Nexts
                                /\ Then(t, <<Step(next, p)>>)
                                /\ job'[t] # <<>>
                                /\ Head(job'[t]) = Step(next, p)
  <2>1. PICK next \in JobOps : /\ <<op, next>> \in Nexts
                               /\ Then(t, <<Step(next, p)>>)
                               /\ job'[t] # <<>>
                               /\ Head(job'[t]) = Step(next, p)
    BY <1>6
  <2>2. CASE next \notin {"halt", "fwd_launch"}
    <3>1. Calm'
      BY <1>3, <2>1, <2>2 DEF Calm, Launching, Halting, Step
    <3> QED
      BY <1>4, <3>1
  <2>3. CASE next = "halt"
    <3>1. op = "stop"
      BY <2>1, <2>3 DEF Nexts
    <3>2. ~Launching'
      BY <1>3, <2>1, <2>3 DEF Launching, Step
    <3>3. \A u \in Threads, q \in Ports : Halting(u, q)' => q = p
      BY <1>3, <2>1, <2>3 DEF Halting, Step
    <3> QED
      BY <1>1, <1>4, <2>1, <2>3, <3>1, <3>2, <3>3
  <2>4. CASE next = "fwd_launch"
    <3>1. op = "fwd_start"
      BY <2>1, <2>4 DEF Nexts
    <3>2. \A u \in Threads, q \in Ports : ~Halting(u, q)'
      BY <1>3, <2>1, <2>4 DEF Halting, Step
    <3> QED
      BY <1>1, <1>4, <2>1, <2>4, <3>1, <3>2
  <2> QED
    BY <2>2, <2>3, <2>4
<1> QED
  BY <1>2, <1>5, <1>6

LEMMA CalmPoll ==
  ASSUME Alone', Calm',
         test_done' \/ polled' \subseteq Range(fwd_ports_ids') \cap running'
  PROVE  PollInv'
  BY DEF PollInv, Calm

\* A device that is removed has no port that runs.
LEMMA DetachPoll ==
  ASSUME LifeInv, ListsInv, NEW d, DetachDevice(d),
         polled \subseteq Range(fwd_ports_ids) \cap running
  PROVE  polled \subseteq Range(fwd_ports_ids') \cap running'
<1> DEFINE siblings == {p \in attached : DeviceOf[p] = d}
<1>1. CASE UNCHANGED <<devices, port_status, lists>>
  BY <1>1 DEF devices, lists
<1>2. CASE /\ Destroy(siblings) /\ RemoveInvalidPorts
           /\ \A p \in siblings : port_status[p] = "STOPPED"
  <2>1. siblings \cap running = {}
    BY <1>2 DEF LifeInv, Honest
  <2>2. running' = running /\ running \subseteq attached'
    BY <1>2, <2>1 DEF Destroy, LifeInv, StateOK
  <2>3. Range(fwd_ports_ids') = Range(fwd_ports_ids) \cap attached'
    BY <1>2, PruneLists DEF ListsInv
  <2> QED
    BY <2>2, <2>3
<1> QED
  BY <1>1, <1>2 DEF DetachDevice

LEMMA PortStepPoll ==
  ASSUME LifeInv, JobShape, PollInv, NEW t \in Threads,
         NEW p \in Ports \cup {All}, PortSteps(t, p)
  PROVE  PollInv'
<1>0. UNCHANGED <<lists, forwarding>>
  BY DEF PortSteps
<1>1. Body(t, p) /\ Alone
  BY DEF Body, PollInv
<1>2. ~test_done => polled \subseteq Range(fwd_ports_ids) \cap running
  BY DEF PollInv
<1>3. \A op : Doing(t, op, p) => Head(job[t]).op = op
  BY DEF Doing, Step
<1>4. ASSUME NEW op, Doing(t, op, p), op \notin {"stop", "fwd_start"},
             ~test_done => polled \subseteq running'
      PROVE  PollInv'
  <2>1. ~Doing(t, "stop", p) /\ ~Doing(t, "fwd_start", p)
    BY <1>3, <1>4
  <2>2. Alone' /\ Calm'
    BY <1>1, <2>1, StepCalm
  <2> QED
    BY <1>0, <1>2, <1>4, <2>2, CalmPoll DEF lists, forwarding
<1>5. CASE StartPort(t, p)
  BY <1>2, <1>4, <1>5 DEF StartPort, devices
<1>6. CASE ConfigureDevice(t, p)
  BY <1>2, <1>4, <1>6 DEF ConfigureDevice, devices
<1>7. CASE SetupQueues(t, p)
  BY <1>2, <1>4, <1>7 DEF SetupQueues, devices
<1>8. CASE StartDevice(t, p)
  <2>1. Doing(t, "device", p) /\ running \subseteq running'
    BY <1>8 DEF StartDevice
  <2> QED
    BY <1>2, <1>4, <2>1
<1>9. CASE ResetPort(t, p)
  BY <1>2, <1>4, <1>9 DEF ResetPort, devices
<1>10. CASE ClosePort(t, p)
  <2>1. Doing(t, "close", p) /\ running' = running
    BY <1>10 DEF ClosePort, Destroy
  <2> QED
    BY <1>2, <1>4, <2>1
<1>11. CASE StopDevice(t, p)
  <2>1. Doing(t, "halt", p) /\ running \ {p} \subseteq running'
    BY <1>11 DEF StopDevice
  <2>2. ~test_done => p \notin polled
    <3>1. CASE p \in Ports
      BY <2>1, <3>1 DEF PollInv, Halting, Doing
    <3>2. CASE p \notin Ports
      BY <1>2, <3>2 DEF LifeInv, StateOK
    <3> QED
      BY <3>1, <3>2
  <2> QED
    BY <1>2, <1>4, <2>1, <2>2
<1>12. CASE StopPort(t, p)
  <2>1. /\ Doing(t, "stop", p) /\ UNCHANGED running
        /\ Then(t, <<Step("halt", p)>>) => ~Refused(p)
    <3>1. Doing(t, "stop", p) /\ UNCHANGED running
      BY <1>12 DEF StopPort, devices
    <3>2. Then(t, <<>>) => ~Then(t, <<Step("halt", p)>>)
      <4> SUFFICES ASSUME Then(t, <<>>), Then(t, <<Step("halt", p)>>)
                   PROVE  FALSE
        OBVIOUS
      <4>1. job[t] \in Seq(AnyStep) /\ job[t] # <<>> /\ job = [u \in Threads |-> job[u]]
        BY <3>1 DEF JobShape, Doing
      <4>2. Tail(job[t]) \in Seq(AnyStep)
        BY <4>1, HeadTailProperties
      <4>3. <<>> \o Tail(job[t]) = <<Step("halt", p)>> \o Tail(job[t])
        BY <4>1 DEF Then
      <4>4. "halt" \in JobOps
        BY DEF JobOps
      <4>5. <<Step("halt", p)>> \in Seq(AnyStep) /\ Len(<<Step("halt", p)>>) = 1
        BY <4>4, OneShape
      <4>6. Len(<<Step("halt", p)>> \o Tail(job[t])) = 1 + Len(Tail(job[t]))
        BY <4>2, <4>5, ConcatProperties, Zenon
      <4>7. <<>> \o Tail(job[t]) = Tail(job[t])
        BY <4>2, ConcatEmptySeq
      <4>8. Len(Tail(job[t])) \in Nat
        BY <4>2, LenProperties
      <4> QED
        BY <4>3, <4>6, <4>7, <4>8
    <3> QED
      BY <1>12, <3>1, <3>2 DEF StopPort
  <2>2. ~Doing(t, "fwd_start", p)
    BY <1>3, <2>1
  <2>3. CASE Calm' /\ Alone'
    BY <1>0, <1>2, <2>1, <2>3, CalmPoll DEF lists, forwarding
  <2>4. CASE /\ Alone' /\ Then(t, <<Step("halt", p)>>) /\ ~Launching'
             /\ \A u \in Threads, q \in Ports : Halting(u, q)' => q = p
    <3>1. ~Refused(p)
      BY <2>1, <2>4
    <3>2. ~test_done => p \notin polled
      BY <1>2, <3>1 DEF Refused, IsForwarding
    <3>3. /\ test_done' = test_done /\ polled' = polled /\ running' = running
          /\ fwd_ports_ids' = fwd_ports_ids
      BY <1>0, <2>1 DEF lists, forwarding
    <3>4. \A u \in Threads, q \in Ports :
            Halting(u, q)' /\ ~test_done' => q \notin polled'
      BY <2>4, <3>2, <3>3
    <3> QED
      BY <1>2, <2>4, <3>3, <3>4 DEF PollInv
  <2> QED
    BY <1>1, <2>2, <2>3, <2>4, StepCalm
<1> QED
  BY <1>5, <1>6, <1>7, <1>8, <1>9, <1>10, <1>11, <1>12 DEF PortSteps

LEMMA ForwardingStepPoll ==
  ASSUME LifeInv, JobShape, DueInv, PollInv, NEW t \in Threads,
         NEW p \in Ports \cup {All}, ForwardingSteps(t, p)
  PROVE  PollInv'
<1>0. UNCHANGED <<running, lists>> /\ Body(t, p) /\ Alone
  BY DEF ForwardingSteps, devices, Body, PollInv
<1>1. \A op : Doing(t, op, p) => Head(job[t]).op = op
  BY DEF Doing, Step
<1>2. ASSUME Doing(t, "fwd_launch", p) \/ Doing(t, "fwd_stop", p)
      PROVE  Alone' /\ Calm'
  <2>1. ~Doing(t, "stop", p) /\ ~Doing(t, "fwd_start", p)
    BY <1>1, <1>2
  <2> QED
    BY <1>0, <2>1, StepCalm
<1>3. CASE StartForwarding(t, p)
  <2>1. /\ Doing(t, "fwd_start", p) /\ ~Doing(t, "stop", p)
        /\ test_done' = test_done
    BY <1>1, <1>3 DEF StartForwarding
  <2>2. Alone' /\ \A u \in Threads, q \in Ports : ~Halting(u, q)'
    BY <1>0, <2>1, StepCalm DEF Calm
  <2>3. CASE AllPortsStarted /\ test_done
    <3>1. polled' = Range(fwd_ports_ids)
      BY <1>3, <2>3 DEF StartForwarding
    <3>2. \A u \in Threads : ~PruneIn(job[u])
      <4>1. ShapeOK(job[t]) /\ job[t] # <<>> /\ Head(job[t]).op = "fwd_start"
        BY <2>1 DEF JobShape, Doing, Step
      <4>2. Tail(job[t]) = <<>> /\ ~PruneIn(<<>>)
        BY <4>1, ShapeTail, EmptyShape
      <4>3. ~PruneIn(job[t])
        BY <4>1, <4>2, ShapeTail
      <4>4. \A u \in Threads \ {t} : job[u] = <<>>
        BY <1>0, <4>1, BothThreads DEF Alone
      <4> QED
        BY <4>3, <4>4, EmptyShape
    <3>3. Range(fwd_ports_ids) \subseteq running
      BY <2>3, <3>2 DEF DueInv, Covered, AllPortsStarted, LifeInv, Honest
    <3> QED
      BY <1>0, <2>1, <2>2, <2>3, <3>1, <3>3 DEF PollInv, lists
  <2>4. CASE ~(AllPortsStarted /\ test_done)
    <3>1. polled' = polled /\ Then(t, <<>>)
      BY <1>3, <2>4 DEF StartForwarding
    <3>2. ~test_done => polled \subseteq Range(fwd_ports_ids) \cap running
      BY DEF PollInv
    <3>3. ~Launching'
      <4>1. ShapeOK(job[t]) /\ job[t] # <<>> /\ Head(job[t]).op = "fwd_start"
        BY <2>1 DEF JobShape, Doing, Step
      <4>2. Tail(job[t]) = <<>>
        BY <4>1, ShapeTail
      <4>3. job'[t] = <<>>
        <5>1. <<>> \o Tail(job[t]) = <<>>
          BY <4>2
        <5> QED
          BY <3>1, <5>1 DEF Then, JobShape
      <4>4. \A u \in Threads \ {t} : job'[u] = <<>>
        BY <1>0, <3>1, <4>1, BothThreads DEF Alone, Then, JobShape
      <4> QED
        BY <4>3, <4>4 DEF Launching
    <3> QED
      BY <1>0, <2>1, <2>2, <3>1, <3>2, <3>3 DEF PollInv, lists
  <2> QED
    BY <2>3, <2>4
<1>4. CASE LaunchForwarding(t, p)
  <2>1. Doing(t, "fwd_launch", p) /\ polled' = polled
    BY <1>4 DEF LaunchForwarding
  <2>2. Launching
    BY <1>1, <2>1 DEF Launching, Doing
  <2>3. polled \subseteq Range(fwd_ports_ids) \cap running
    BY <2>2 DEF PollInv
  <2> QED
    BY <1>0, <1>2, <2>1, <2>3, CalmPoll DEF lists
<1>5. CASE StopForwarding(t, p)
  <2>1. Doing(t, "fwd_stop", p) /\ test_done'
    BY <1>5 DEF StopForwarding
  <2> QED
    BY <1>2, <2>1, CalmPoll
<1> QED
  BY <1>3, <1>4, <1>5 DEF ForwardingSteps

LEMMA OperatorPoll ==
  ASSUME ~Interleaved, LifeInv, ListsInv, JobShape, PollInv, Operator
  PROVE  PollInv'
<1>1. ~test_done => polled \subseteq Range(fwd_ports_ids) \cap running
  BY DEF PollInv
<1>2. CASE \/ \E pid \in Ports \cup {All} : OperatePort(pid)
           \/ OperateForwarding \/ Quit \/ SignalHandler
  <2>1. PICK j : ShapeOK(j) /\ Middle(j) /\ job' = [job EXCEPT !["main"] = j]
    BY <1>2, OperatorJob
  <2>2. UNCHANGED <<running, lists, forwarding>>
    BY <1>2, OperatorJob DEF devices
  <2>3. job["intr"] = <<>>
    BY <1>2 DEF OperatePort, OperateForwarding, Quit, SignalHandler, Command,
       PollInv, Alone
  <2>4. Alone' /\ Calm'
    BY <2>1, <2>3, NewJobCalm, BothThreads
  <2> QED
    BY <1>1, <2>2, <2>4, CalmPoll DEF lists, forwarding
<1>3. ASSUME Command, UNCHANGED <<job, forwarding>>,
             ~test_done => polled \subseteq Range(fwd_ports_ids') \cap running'
      PROVE  PollInv'
  <2>1. Idle
    BY <1>3, BothThreads DEF Command, Idle
  <2>2. Calm' /\ Alone'
    BY <1>3, <2>1, IdleCalm DEF Calm, Launching, Halting, Alone, Idle, Threads
  <2> QED
    BY <1>3, <2>2, CalmPoll DEF forwarding
<1>4. CASE \E d \in Devices : OperateAttach(d)
  <2>1. PICK d \in Devices : /\ Command /\ UNCHANGED <<job, forwarding>>
                             /\ AttachPort(d)
    BY <1>4 DEF OperateAttach
  <2>2. PICK S \in SUBSET Ports :
          fwd_ports_ids' = fwd_ports_ids \o Ascending(S) /\ running' = running
    BY <2>1, AttachLists
  <2>3. Ascending(S) \in Seq(Ports) /\ fwd_ports_ids \in Seq(Ports)
    BY AscendingPorts DEF ListsInv, TypeOK
  <2>4. Range(fwd_ports_ids) \subseteq Range(fwd_ports_ids')
    BY <2>2, <2>3, ListConcat
  <2> QED
    BY <1>1, <1>3, <2>1, <2>2, <2>4
<1>5. CASE \E d \in Devices : OperateDetach(d)
  BY <1>1, <1>3, <1>5, DetachPoll DEF OperateDetach
<1>6. CASE \E mode \in ProbeModes : SetPortSetupOn(mode)
  BY <1>1, <1>3, <1>6 DEF SetPortSetupOn, lists, devices
<1>7. CASE \E S \in SUBSET Ports : SetPortList(S)
  <2>1. Command /\ test_done /\ UNCHANGED <<job, forwarding>>
    BY <1>7 DEF SetPortList
  <2> QED
    BY <1>3, <2>1
<1>8. CASE \E c \in Commands, pid \in Ports \cup {All} : Configure(c, pid)
  BY <1>1, <1>3, <1>8 DEF Configure, lists, devices
<1> QED
  BY <1>2, <1>4, <1>5, <1>6, <1>7, <1>8 DEF Operator

LEMMA NextPoll ==
  ASSUME ~Interleaved, LifeInv, ListsInv, JobShape, DueInv, PollInv, [Next]_vars
  PROVE  PollInv'
<1>1. ~test_done => polled \subseteq Range(fwd_ports_ids) \cap running
  BY DEF PollInv
<1>2. CASE UNCHANGED vars \/ \E p \in Ports : RemovalEvent(p)
  BY <1>2 DEF vars, RemovalEvent, devices, lists, forwarding, PollInv, Alone,
     Launching, Halting
<1>3. ASSUME NEW p \in Ports, RmvPortCallback(p) PROVE PollInv'
  <2>1. PICK j : ShapeOK(j) /\ Middle(j) /\ job' = [job EXCEPT !["intr"] = j]
    BY <1>3, CallbackShape
  <2>2. job["main"] = <<>> /\ UNCHANGED <<running, lists, forwarding>>
    BY <1>3 DEF RmvPortCallback, devices
  <2>3. Alone' /\ Calm'
    BY <2>1, <2>2, NewJobCalm, BothThreads
  <2> QED
    BY <1>1, <2>2, <2>3, CalmPoll DEF lists, forwarding
<1>4. ASSUME NEW t \in Threads, NEW p \in Ports \cup {All}, Body(t, p)
      PROVE  PollInv'
  <2>1. ASSUME NEW op \in {"prune", "rmv", "detach"}, Doing(t, op, p),
               UNCHANGED forwarding,
               ~test_done => polled \subseteq Range(fwd_ports_ids') \cap running'
        PROVE  PollInv'
    <3>1. ~Doing(t, "stop", p) /\ ~Doing(t, "fwd_start", p)
      BY <2>1 DEF Doing, Step
    <3>2. Alone' /\ Calm'
      BY <1>4, <3>1, StepCalm DEF PollInv
    <3> QED
      BY <2>1, <3>2, CalmPoll DEF forwarding
  <2>2. CASE PortSteps(t, p) \/ ForwardingSteps(t, p)
    BY <2>2, PortStepPoll, ForwardingStepPoll
  <2>3. CASE Prune(t, p)
    <3>1. /\ Doing(t, "prune", p) /\ RemoveInvalidPorts
          /\ UNCHANGED <<attached, running, forwarding>>
      BY <2>3 DEF Prune, devices
    <3>2. Range(fwd_ports_ids') = Range(fwd_ports_ids) \cap attached'
      BY <3>1, PruneLists DEF ListsInv
    <3> QED
      BY <1>1, <2>1, <3>1, <3>2 DEF LifeInv, StateOK
  <2>4. CASE RmvClose(t, p)
    BY <1>1, <2>1, <2>4 DEF RmvClose, devices, lists
  <2>5. CASE RmvDetach(t, p)
    BY <1>1, <2>1, <2>5, DetachPoll DEF RmvDetach
  <2> QED
    BY <1>4, <2>2, <2>3, <2>4, <2>5 DEF Body
<1>5. CASE Operator
  BY <1>5, OperatorPoll
<1> QED
  BY <1>2, <1>3, <1>4, <1>5 DEF Next, ThreadStep, Body

\* All that holds of the ports, their lists and the jobs of both threads.
PortsInv ==
  /\ LifeInv /\ ListsInv /\ (EventsOnly => EventsInv) /\ JobShape /\ DueInv

LEMMA InitPorts == ASSUME DevicesStop, Init PROVE PortsInv
  BY InitLives, InitLists, InitDue DEF PortsInv

LEMMA NextPorts ==
  ASSUME DevicesStop, PortsInv, [Next]_vars
  PROVE  PortsInv'
<1>1. LifeInv'
  BY NextLives DEF PortsInv
<1>2. ListsInv' /\ (EventsOnly => EventsInv')
  BY NextLists DEF PortsInv
<1>3. JobShape' /\ DueInv'
  BY NextDue DEF PortsInv
<1> QED
  BY <1>1, <1>2, <1>3 DEF PortsInv, EventsOnly

\* When the removal callback runs between commands, every port that is polled
\* has its device running, for as long as the forwarding goes on: whatever is
\* stopped, closed, detached, removed or listed anew meanwhile.
THEOREM PollingCorrect ==
  ASSUME DevicesStop, ~Interleaved
  PROVE  Spec => []PolledRunning
<1> DEFINE I == PortsInv /\ PollInv
<1>1. Init => I
  <2>1. Init => Alone /\ ~Launching /\ test_done
    BY BothThreads DEF Init, Alone, Launching
  <2>2. Init => \A t \in Threads, p \in Ports : ~Halting(t, p)
    BY DEF Init, Halting
  <2> QED
    BY <2>1, <2>2, InitPorts DEF PollInv
<1>2. I /\ [Next]_vars => I'
  BY NextPorts, NextPoll DEF PortsInv
<1>3. I => PolledRunning
  BY DEF PollInv, PolledRunning
<1> HIDE DEF I
<1> QED
  BY <1>1, <1>2, <1>3, PTL DEF Spec

-----------------------------------------------------------------------------
(* The exit of the program.                                                *)

OpsIn(j, S) == \A i \in 1 .. Len(j) : j[i].op \in S
In(s, j) == \E i \in 1 .. Len(j) : j[i] = s

\* What is put before, and what is left of, a job.
LEMMA OpsConcat ==
  ASSUME NEW a \in Seq(AnyStep), NEW b \in Seq(AnyStep)
  PROVE  /\ a \o b \in Seq(AnyStep)
         /\ \A S : OpsIn(a \o b, S) <=> OpsIn(a, S) /\ OpsIn(b, S)
         /\ \A s : In(s, a \o b) <=> In(s, a) \/ In(s, b)
<1> DEFINE s == a \o b
<1>1. /\ s \in Seq(AnyStep) /\ Len(s) = Len(a) + Len(b)
      /\ \A i \in 1 .. Len(s) : s[i] = IF i <= Len(a) THEN a[i]
                                       ELSE b[i - Len(a)]
  BY ConcatProperties
<1>2. Len(a) \in Nat /\ Len(b) \in Nat
  BY LenProperties
<1> HIDE DEF s
<1>3. \A i \in 1 .. Len(a) : i \in 1 .. Len(s) /\ s[i] = a[i]
  BY <1>1, <1>2
<1>4. \A i \in 1 .. Len(b) : i + Len(a) \in 1 .. Len(s) /\ s[i + Len(a)] = b[i]
  <2> TAKE i \in 1 .. Len(b)
  <2>1. /\ i + Len(a) \in 1 .. Len(s) /\ ~(i + Len(a) <= Len(a))
        /\ (i + Len(a)) - Len(a) = i
    BY <1>1, <1>2
  <2>2. s[i + Len(a)] = IF i + Len(a) <= Len(a) THEN a[i + Len(a)]
                        ELSE b[(i + Len(a)) - Len(a)]
    BY <1>1, <2>1, Zenon
  <2> QED
    BY <2>1, <2>2
<1>5. \A i \in 1 .. Len(s) :
        \/ i \in 1 .. Len(a) /\ s[i] = a[i]
        \/ i - Len(a) \in 1 .. Len(b) /\ s[i] = b[i - Len(a)]
  BY <1>1, <1>2
<1>6. \A S : OpsIn(s, S) <=> OpsIn(a, S) /\ OpsIn(b, S)
  <2> TAKE S
  <2>1. OpsIn(a, S) /\ OpsIn(b, S) => OpsIn(s, S)
    BY <1>5 DEF OpsIn
  <2>2. OpsIn(s, S) => OpsIn(a, S)
    BY <1>3 DEF OpsIn
  <2>3. OpsIn(s, S) => OpsIn(b, S)
    <3> SUFFICES ASSUME OpsIn(s, S), NEW i \in 1 .. Len(b) PROVE b[i].op \in S
      BY DEF OpsIn
    <3>1. i + Len(a) \in 1 .. Len(s) /\ s[i + Len(a)] = b[i]
      BY <1>4
    <3> QED
      BY <3>1 DEF OpsIn
  <2> QED
    BY <2>1, <2>2, <2>3
<1>7. \A e : In(e, s) <=> In(e, a) \/ In(e, b)
  BY <1>3, <1>4, <1>5 DEF In
<1> QED
  BY <1>1, <1>6, <1>7 DEF s

LEMMA OpsTail ==
  ASSUME NEW j \in Seq(AnyStep), j # <<>>
  PROVE  /\ \A S : OpsIn(j, S) => Head(j).op \in S /\ OpsIn(Tail(j), S)
         /\ \A s : In(s, Tail(j)) <=> \E i \in 2 .. Len(j) : j[i] = s
         /\ \A s : In(s, j) <=> s = Head(j) \/ In(s, Tail(j))
<1> DEFINE r == Tail(j)
<1>1. /\ Head(j) = j[1] /\ 1 \in 1 .. Len(j) /\ Len(j) \in Nat
      /\ Len(r) = Len(j) - 1 /\ \A i \in 1 .. Len(r) : r[i] = j[i + 1]
  BY HeadTailProperties, LenProperties, EmptySeq
<1> HIDE DEF r
<1>2. \A i \in 1 .. Len(r) : i + 1 \in 2 .. Len(j) /\ j[i + 1] = r[i]
  BY <1>1
<1>3. \A i \in 2 .. Len(j) : i - 1 \in 1 .. Len(r) /\ r[i - 1] = j[i]
  <2> TAKE i \in 2 .. Len(j)
  <2>1. i - 1 \in 1 .. Len(r) /\ (i - 1) + 1 = i
    BY <1>1
  <2> QED
    BY <1>1, <2>1
<1>4. \A i \in 1 .. Len(j) : i = 1 \/ i \in 2 .. Len(j)
  BY <1>1
<1>4a. \A i \in 2 .. Len(j) : i \in 1 .. Len(j)
  BY <1>1
<1>5. \A s : In(s, r) <=> \E i \in 2 .. Len(j) : j[i] = s
  BY <1>2, <1>3 DEF In
<1>6. \A s : In(s, j) <=> s = j[1] \/ In(s, r)
  BY <1>1, <1>4, <1>4a, <1>5 DEF In
<1>7. \A S : OpsIn(j, S) => j[1].op \in S /\ OpsIn(r, S)
  BY <1>1, <1>2, <1>4a DEF OpsIn
<1> QED
  BY <1>1, <1>5, <1>6, <1>7 DEF r

\* A port is stopped before any is closed; the forwarding is stopped first,
\* and the exit comes last.
ExitPart(j) ==
  /\ j \in Seq(AnyStep) /\ OpsIn(j, ExitOps)
  /\ \A i, k \in 1 .. Len(j) : i < k /\ j[i].op = "close" => j[k].op # "stop"
  /\ \A i \in 1 .. Len(j) : /\ j[i].op = "fwd_stop" => i = 1
                            /\ j[i].op = "exited" => i = Len(j)

LEMMA ExitConcat ==
  ASSUME NEW a, NEW b, ExitPart(a), ExitPart(b),
         OpsIn(a, ExitOps \ {"exited"}), OpsIn(b, ExitOps \ {"fwd_stop"}),
         OpsIn(a, ExitOps \ {"close"}) \/ OpsIn(b, ExitOps \ {"stop"})
  PROVE  ExitPart(a \o b)
<1> DEFINE s == a \o b
<1>0. /\ a \in Seq(AnyStep) /\ b \in Seq(AnyStep)
      /\ OpsIn(a, ExitOps) /\ OpsIn(b, ExitOps)
  BY DEF ExitPart
<1>1. /\ s \in Seq(AnyStep) /\ Len(s) = Len(a) + Len(b)
      /\ \A i \in 1 .. Len(s) : s[i] = IF i <= Len(a) THEN a[i]
                                       ELSE b[i - Len(a)]
      /\ OpsIn(s, ExitOps)
  BY <1>0, ConcatProperties, OpsConcat, ZenonT(30)
<1>2. Len(a) \in Nat /\ Len(b) \in Nat
  BY <1>0, LenProperties
<1> HIDE DEF s
<1>3. \A i \in 1 .. Len(s) :
        \/ i \in 1 .. Len(a) /\ s[i] = a[i]
        \/ i - Len(a) \in 1 .. Len(b) /\ s[i] = b[i - Len(a)] /\ i > Len(a)
  BY <1>1, <1>2
<1>4. ASSUME NEW i \in 1 .. Len(s), NEW k \in 1 .. Len(s), i < k,
             s[i].op = "close"
      PROVE  s[k].op # "stop"
  <2>1. CASE k \in 1 .. Len(a) /\ s[k] = a[k]
    <3>1. i \in 1 .. Len(a) /\ s[i] = a[i]
      BY <1>2, <1>3, <1>4, <2>1
    <3> QED
      BY <1>4, <2>1, <3>1 DEF ExitPart
  <2>2. CASE /\ i \in 1 .. Len(a) /\ s[i] = a[i]
             /\ k - Len(a) \in 1 .. Len(b) /\ s[k] = b[k - Len(a)]
    BY <1>4, <2>2 DEF OpsIn
  <2>3. CASE /\ i - Len(a) \in 1 .. Len(b) /\ s[i] = b[i - Len(a)]
             /\ k - Len(a) \in 1 .. Len(b) /\ s[k] = b[k - Len(a)]
    <3>1. i - Len(a) < k - Len(a)
      BY <1>2, <1>4
    <3> QED
      BY <1>4, <2>3, <3>1 DEF ExitPart
  <2> QED
    BY <1>3, <2>1, <2>2, <2>3
<1>5. ASSUME NEW i \in 1 .. Len(s)
      PROVE  (s[i].op = "fwd_stop" => i = 1) /\ (s[i].op = "exited" => i = Len(s))
  <2>1. CASE i \in 1 .. Len(a) /\ s[i] = a[i]
    BY <2>1 DEF ExitPart, OpsIn
  <2>2. CASE i - Len(a) \in 1 .. Len(b) /\ s[i] = b[i - Len(a)]
    <3>1. s[i].op # "fwd_stop"
      BY <2>2 DEF OpsIn
    <3>2. s[i].op = "exited" => i - Len(a) = Len(b)
      BY <2>2 DEF ExitPart
    <3>3. i - Len(a) = Len(b) => i = Len(s)
      BY <1>1, <1>2
    <3> QED
      BY <3>1, <3>2, <3>3
  <2> QED
    BY <1>3, <2>1, <2>2
<1>6. ExitPart(s)
  BY <1>1, <1>4, <1>5 DEF ExitPart
<1> QED
  BY <1>6 DEF s

LEMMA ExitTail ==
  ASSUME NEW j, ExitPart(j), j # <<>>
  PROVE  /\ ExitPart(Tail(j)) /\ OpsIn(Tail(j), ExitOps \ {"fwd_stop"})
         /\ Head(j).op \in ExitOps
         /\ Head(j).op = "close" => OpsIn(Tail(j), ExitOps \ {"stop"})
<1> DEFINE r == Tail(j)
<1>1. /\ j \in Seq(AnyStep) /\ OpsIn(j, ExitOps)
      /\ \A i, k \in 1 .. Len(j) : i < k /\ j[i].op = "close" => j[k].op # "stop"
      /\ \A i \in 1 .. Len(j) : /\ j[i].op = "fwd_stop" => i = 1
                                /\ j[i].op = "exited" => i = Len(j)
  BY DEF ExitPart
<1>2. /\ Head(j) = j[1] /\ 1 \in 1 .. Len(j) /\ Len(j) \in Nat
      /\ r \in Seq(AnyStep)
      /\ Len(r) = Len(j) - 1 /\ \A i \in 1 .. Len(r) : r[i] = j[i + 1]
  BY <1>1, HeadTailProperties, LenProperties, EmptySeq
<1>3. OpsIn(r, ExitOps) /\ Head(j).op \in ExitOps
  BY <1>1, OpsTail, Zenon
<1> HIDE DEF r
<1>4. \A i \in 1 .. Len(r) : /\ i + 1 \in 1 .. Len(j) /\ j[i + 1] = r[i]
                             /\ i + 1 # 1 /\ 1 < i + 1
                             /\ i + 1 = Len(j) => i = Len(r)
  BY <1>2
<1>5. \A i, k \in 1 .. Len(r) : i < k => i + 1 < k + 1
  BY <1>2
<1>6. \A i, k \in 1 .. Len(r) : i < k /\ r[i].op = "close" => r[k].op # "stop"
  <2> SUFFICES ASSUME NEW i \in 1 .. Len(r), NEW k \in 1 .. Len(r), i < k,
                      r[i].op = "close"
               PROVE  r[k].op # "stop"
    OBVIOUS
  <2>1. /\ i + 1 \in 1 .. Len(j) /\ k + 1 \in 1 .. Len(j) /\ i + 1 < k + 1
        /\ j[i + 1] = r[i] /\ j[k + 1] = r[k]
    BY <1>4, <1>5
  <2> QED
    BY <1>1, <2>1
<1>7. \A i \in 1 .. Len(r) : /\ r[i].op # "fwd_stop"
                             /\ r[i].op = "exited" => i = Len(r)
  <2> TAKE i \in 1 .. Len(r)
  <2>1. /\ i + 1 \in 1 .. Len(j) /\ j[i + 1] = r[i] /\ i + 1 # 1
        /\ i + 1 = Len(j) => i = Len(r)
    BY <1>4
  <2> QED
    BY <1>1, <2>1
<1>8. OpsIn(r, ExitOps \ {"fwd_stop"})
  BY <1>3, <1>7 DEF OpsIn
<1>9. j[1].op = "close" => OpsIn(r, ExitOps \ {"stop"})
  <2> SUFFICES ASSUME j[1].op = "close", NEW i \in 1 .. Len(r)
               PROVE  r[i].op \in ExitOps /\ r[i].op # "stop"
    BY DEF OpsIn
  <2>1. i + 1 \in 1 .. Len(j) /\ j[i + 1] = r[i] /\ 1 < i + 1
    BY <1>4
  <2> QED
    BY <1>1, <1>2, <1>3, <2>1 DEF OpsIn
<1>10. ExitPart(r)
  BY <1>2, <1>3, <1>6, <1>7 DEF ExitPart
<1> QED
  BY <1>2, <1>3, <1>8, <1>9, <1>10 DEF r

\* Steps of one kind, none of them twice told apart.
LEMMA OneKind ==
  ASSUME NEW j \in Seq(AnyStep), NEW op \in ExitOps, OpsIn(j, {op}),
         op \in {"fwd_stop", "exited"} => Len(j) = 1
  PROVE  ExitPart(j) /\ \A S : op \in S => OpsIn(j, S)
<1>1. \A S : op \in S => OpsIn(j, S)
  BY DEF OpsIn
<1>2. Len(j) \in Nat /\ \A i \in 1 .. Len(j) : j[i].op = op
  BY LenProperties DEF OpsIn
<1>3. \A i \in 1 .. Len(j) : Len(j) = 1 => i = 1
  BY <1>2
<1> QED
  BY <1>1, <1>2, <1>3 DEF ExitPart

LEMMA ExitOpsKnown == ExitOps \subseteq JobOps /\ All \in Ports \cup {All}
  BY DEF ExitOps, JobOps

LEMMA ForAllPorts ==
  ASSUME NEW op \in JobOps
  PROVE  /\ ForEach(op, All) \in Seq(AnyStep) /\ OpsIn(ForEach(op, All), {op})
         /\ \A p \in Ports : In(Step(op, p), ForEach(op, All))
<1>1. ForEach(op, All) \in Seq(AnyStep) /\ OpsIn(ForEach(op, All), {op})
  BY ForEachShape, ExitOpsKnown DEF OpsIn
<1>2. ASSUME NEW p \in Ports PROVE In(Step(op, p), ForEach(op, All))
  <2> DEFINE s == [i \in 1 .. NbEthPorts |-> Step(op, i - 1)]
  <2>1. NbEthPorts \in Nat /\ p + 1 \in 1 .. NbEthPorts /\ (p + 1) - 1 = p
    BY PortsFinite DEF Ports
  <2>2. ForEach(op, All) = s
    BY DEF ForEach
  <2>3. \A i \in 1 .. NbEthPorts : Step(op, i - 1) \in {Step(op, i - 1)}
    OBVIOUS
  <2>4. Len(s) = NbEthPorts
    <3>1. \A i \in 1 .. NbEthPorts : Step(op, i - 1) \in AnyStep
      BY <2>1 DEF Step, AnyStep, Ports
    <3> QED
      BY <2>1, <3>1, IsASeq
  <2>5. s[p + 1] = Step(op, p)
    BY <2>1
  <2> HIDE DEF s
  <2> QED
    BY <2>1, <2>2, <2>4, <2>5 DEF In
<1> QED
  BY <1>1, <1>2

LEMMA HeadConcat ==
  ASSUME NEW a \in Seq(AnyStep), NEW b \in Seq(AnyStep), a # <<>>
  PROVE  a \o b # <<>> /\ Head(a \o b) = Head(a)
<1> DEFINE s == a \o b
<1>1. /\ s \in Seq(AnyStep) /\ Len(s) = Len(a) + Len(b)
      /\ \A i \in 1 .. Len(s) : s[i] = IF i <= Len(a) THEN a[i]
                                       ELSE b[i - Len(a)]
  BY ConcatProperties
<1>2. Len(a) \in Nat /\ Len(b) \in Nat /\ Len(a) # 0 /\ Head(a) = a[1]
  BY LenProperties, EmptySeq, HeadTailProperties
<1> HIDE DEF s
<1>3. s # <<>> /\ s[1] = a[1]
  BY <1>1, <1>2
<1>4. Head(s) = s[1]
  BY <1>1, <1>3, HeadTailProperties
<1> QED
  BY <1>2, <1>3, <1>4 DEF s

LEMMA ExitStepsPart ==
  /\ ExitPart(ExitSteps) /\ ExitSteps # <<>> /\ Middle(ExitSteps)
  /\ test_done \/ Head(ExitSteps).op = "fwd_stop"
  /\ \A p \in Ports : In(Step("stop", p), ExitSteps) /\ In(Step("close", p), ExitSteps)
<1> DEFINE a == IF test_done THEN <<>> ELSE <<Step("fwd_stop", All)>>
           b == ForEach("stop", All)
           c == ForEach("close", All)
           d == <<Step("prune", All)>>
           e == <<Step("exited", All)>>
<1>1. /\ {"fwd_stop", "stop", "close", "prune", "exited"} \subseteq ExitOps
      /\ {"fwd_stop", "stop", "close", "prune", "exited"} \subseteq JobOps
  BY DEF ExitOps, JobOps
<1>2. ASSUME NEW op \in {"fwd_stop", "prune", "exited"}
      PROVE  /\ <<Step(op, All)>> \in Seq(AnyStep) /\ Len(<<Step(op, All)>>) = 1
             /\ OpsIn(<<Step(op, All)>>, {op})
  BY <1>1, OneShape, ExitOpsKnown DEF OpsIn
<1>3. /\ <<>> \in Seq(AnyStep) /\ ExitPart(<<>>) /\ \A S : OpsIn(<<>>, S)
  <2>1. <<>> \in Seq(AnyStep) /\ \A i \in 1 .. Len(<<>>) : FALSE
    BY EmptySeq
  <2> QED
    BY <2>1, Zenon DEF ExitPart, OpsIn
<1>4. ExitPart(a) /\ OpsIn(a, {"fwd_stop"}) /\ OpsIn(a, ExitOps \ {"exited"})
      /\ OpsIn(a, ExitOps \ {"close"}) /\ a \in Seq(AnyStep)
  <2>1. CASE test_done
    BY <1>3, <2>1
  <2>2. CASE ~test_done
    <3>1. "fwd_stop" \in ExitOps \ {"exited"} /\ "fwd_stop" \in ExitOps \ {"close"}
      BY DEF ExitOps
    <3> QED
      BY <1>1, <1>2, <2>2, <3>1, OneKind
  <2> QED
    BY <2>1, <2>2
<1>4a. /\ "stop" \in ExitOps \ {"exited"} /\ "stop" \in ExitOps \ {"close"}
       /\ "stop" \in ExitOps \ {"fwd_stop"}
       /\ \A op \in {"close", "prune"} : /\ op \in ExitOps \ {"exited"}
                                         /\ op \in ExitOps \ {"stop"}
                                         /\ op \in ExitOps \ {"fwd_stop"}
       /\ "exited" \in ExitOps \ {"stop"} /\ "exited" \in ExitOps \ {"fwd_stop"}
  BY DEF ExitOps
<1>5. /\ ExitPart(b) /\ OpsIn(b, ExitOps \ {"exited"})
      /\ OpsIn(b, ExitOps \ {"close"}) /\ OpsIn(b, ExitOps \ {"fwd_stop"})
      /\ b \in Seq(AnyStep) /\ \A p \in Ports : In(Step("stop", p), b)
  <2>1. /\ b \in Seq(AnyStep) /\ OpsIn(b, {"stop"})
        /\ \A p \in Ports : In(Step("stop", p), b)
    BY <1>1, ForAllPorts
  <2> HIDE DEF b
  <2> QED
    BY <1>1, <1>4a, <2>1, OneKind
<1>6. /\ ExitPart(c) /\ OpsIn(c, ExitOps \ {"exited"})
      /\ OpsIn(c, ExitOps \ {"stop"}) /\ OpsIn(c, ExitOps \ {"fwd_stop"})
      /\ c \in Seq(AnyStep) /\ \A p \in Ports : In(Step("close", p), c)
  <2>1. /\ c \in Seq(AnyStep) /\ OpsIn(c, {"close"})
        /\ \A p \in Ports : In(Step("close", p), c)
    BY <1>1, ForAllPorts
  <2> HIDE DEF c
  <2> QED
    BY <1>1, <1>4a, <2>1, OneKind
<1>7. /\ ExitPart(d) /\ OpsIn(d, ExitOps \ {"exited"})
      /\ OpsIn(d, ExitOps \ {"stop"}) /\ OpsIn(d, ExitOps \ {"fwd_stop"})
      /\ d \in Seq(AnyStep)
  <2>1. d \in Seq(AnyStep) /\ OpsIn(d, {"prune"})
    BY <1>2
  <2> HIDE DEF d
  <2> QED
    BY <1>1, <1>4a, <2>1, OneKind
<1>8. /\ ExitPart(e) /\ OpsIn(e, ExitOps \ {"stop"})
      /\ OpsIn(e, ExitOps \ {"fwd_stop"}) /\ e \in Seq(AnyStep)
  <2>1. e \in Seq(AnyStep) /\ OpsIn(e, {"exited"}) /\ Len(e) = 1
    BY <1>2
  <2> HIDE DEF e
  <2> QED
    BY <1>1, <1>4a, <2>1, OneKind
<1>9. ExitSteps = ((a \o b) \o (c \o d)) \o e
  <2>1. c \in Seq(AnyStep) /\ Step("prune", All) \in AnyStep
    BY <1>1, <1>6, ExitOpsKnown DEF Step, AnyStep
  <2>2. ClosePortSteps(All) = c \o d
    BY <2>1, AppendIsConcat DEF ClosePortSteps
  <2> HIDE DEF c, d
  <2> QED
    BY <2>2 DEF ExitSteps
<1>10. test_done \/ (a # <<>> /\ Head(a).op = "fwd_stop")
  BY DEF Step
<1>11. e # <<>>
  OBVIOUS
<1> HIDE DEF a, b, c, d, e
<1> DEFINE x == a \o b
           y == c \o d
           z == x \o y
<1>12. /\ ExitPart(x) /\ OpsIn(x, ExitOps \ {"exited"}) /\ x \in Seq(AnyStep)
       /\ OpsIn(x, ExitOps \ {"close"}) /\ \A p \in Ports : In(Step("stop", p), x)
  BY <1>4, <1>5, ExitConcat, OpsConcat
<1>13. /\ ExitPart(y) /\ OpsIn(y, ExitOps \ {"exited"}) /\ y \in Seq(AnyStep)
       /\ OpsIn(y, ExitOps \ {"fwd_stop"})
       /\ \A p \in Ports : In(Step("close", p), y)
  BY <1>6, <1>7, ExitConcat, OpsConcat
<1> HIDE DEF y
<1>14. test_done \/ (x # <<>> /\ Head(x).op = "fwd_stop")
  BY <1>4, <1>5, <1>10, HeadConcat
<1> HIDE DEF x
<1>15. /\ ExitPart(z) /\ OpsIn(z, ExitOps \ {"exited"}) /\ z \in Seq(AnyStep)
       /\ \A p \in Ports : In(Step("stop", p), z) /\ In(Step("close", p), z)
  BY <1>12, <1>13, ExitConcat, OpsConcat
<1>16. test_done \/ (z # <<>> /\ Head(z).op = "fwd_stop")
  BY <1>12, <1>13, <1>14, HeadConcat
<1>17. ExitSteps = z \o e
  BY <1>9 DEF x, y
<1> HIDE DEF z
<1>18. ExitPart(z \o e) /\ \A p \in Ports : /\ In(Step("stop", p), z \o e)
                                            /\ In(Step("close", p), z \o e)
  BY <1>8, <1>15, ExitConcat, OpsConcat
<1>19. z \o e # <<>> /\ (test_done \/ Head(z \o e).op = "fwd_stop")
  BY <1>8, <1>11, <1>15, <1>16, HeadConcat, ConcatEqualIffEmpty
<1> QED
  BY <1>17, <1>18, <1>19, ExitShape DEF Part

\* A port that is there is not closed: it is closed, and goes away, at once.
NotClosed == \A p \in attached : port_status[p] # "CLOSED"

LEMMA NextNotClosed ==
  ASSUME ListsInv, NotClosed, [Next]_vars
  PROVE  NotClosed'
<1>0. port_status \in [Ports -> Statuses] /\ attached \subseteq Ports
  BY DEF ListsInv, TypeOK
<1>1. CASE UNCHANGED devices /\ UNCHANGED records
  BY <1>1 DEF NotClosed, devices, records
<1>2. ASSUME NEW d, DetachDevice(d) PROVE NotClosed'
  <2>1. CASE UNCHANGED <<devices, port_status>>
    BY <2>1 DEF devices, NotClosed
  <2>2. CASE \E S : Destroy(S)
    BY <1>0, <2>2 DEF Destroy, NotClosed
  <2> QED
    BY <1>2, <2>1, <2>2 DEF DetachDevice
<1>3. CASE \E p \in Ports : RemovalEvent(p) \/ RmvPortCallback(p)
  BY <1>1, <1>3 DEF RemovalEvent, RmvPortCallback
<1>4. ASSUME NEW t \in Threads, NEW p \in Ports \cup {All}, Body(t, p)
      PROVE  NotClosed'
  <2>1. CASE PortSteps(t, p)
    <3>1. CASE StartPort(t, p) \/ StopPort(t, p) \/ ResetPort(t, p)
      BY <1>0, <3>1 DEF StartPort, StopPort, ResetPort, devices, NotClosed
    <3>2. CASE ConfigureDevice(t, p) \/ SetupQueues(t, p)
      BY <1>0, <3>2 DEF ConfigureDevice, SetupQueues, SetStatus, devices,
         NotClosed
    <3>3. CASE StartDevice(t, p) \/ StopDevice(t, p)
      BY <1>0, <3>3 DEF StartDevice, StopDevice, SetStatus, devices, NotClosed
    <3>4. CASE ClosePort(t, p)
      BY <1>0, <3>4 DEF ClosePort, Destroy, NotClosed
    <3> QED
      BY <2>1, <3>1, <3>2, <3>3, <3>4 DEF PortSteps
  <2>2. CASE Prune(t, p) \/ ForwardingSteps(t, p) \/ RmvClose(t, p)
    BY <1>1, <2>2 DEF Prune, ForwardingSteps, RmvClose
  <2>3. CASE RmvDetach(t, p)
    BY <1>2, <2>3 DEF RmvDetach
  <2> QED
    BY <1>4, <2>1, <2>2, <2>3 DEF Body
<1>5. CASE Operator
  <2>1. CASE \/ \E pid \in Ports \cup {All} : OperatePort(pid)
             \/ OperateForwarding \/ Quit \/ SignalHandler
    BY <1>1, <2>1, OperatorJob
  <2>2. CASE \E d \in Devices : OperateAttach(d)
    <3>1. PICK d : AttachPort(d)
      BY <2>2 DEF OperateAttach
    <3>2. PICK S \in SUBSET Ports :
            /\ attached' \ attached \subseteq S
            /\ port_status' = [q \in Ports |-> IF q \in S THEN "STOPPED"
                                               ELSE port_status[q]]
      BY <3>1, AttachLists, ZenonT(30)
    <3>3. attached' \subseteq Ports
      BY <1>0, <3>2
    <3> QED
      BY <3>2, <3>3 DEF NotClosed
  <2>3. CASE \E d \in Devices : OperateDetach(d)
    BY <1>2, <2>3 DEF OperateDetach
  <2>4. CASE \/ \E mode \in ProbeModes : SetPortSetupOn(mode)
             \/ \E S \in SUBSET Ports : SetPortList(S)
    BY <1>1, <2>4 DEF SetPortSetupOn, SetPortList
  <2>5. CASE \E c \in Commands, pid \in Ports \cup {All} : Configure(c, pid)
    BY <2>5 DEF Configure, devices, NotClosed
  <2> QED
    BY <1>5, <2>1, <2>2, <2>3, <2>4, <2>5 DEF Operator
<1>6. CASE UNCHANGED vars
  BY <1>1, <1>6 DEF vars, devices, records
<1> QED
  BY <1>3, <1>4, <1>5, <1>6 DEF Next, ThreadStep, Body

-----------------------------------------------------------------------------
(* No command or step but the exit itself makes a thread exit.             *)

NoExit(j) == OpsIn(j, JobOps \ {"exited"})

LEMMA KindNoExit ==
  ASSUME NEW op \in JobOps \ {"exited"}, NEW p \in Ports \cup {All}
  PROVE  NoExit(<<Step(op, p)>>) /\ NoExit(ForEach(op, p))
  BY OneShape, ForEachShape DEF NoExit, OpsIn

LEMMA CloseNoExit ==
  ASSUME NEW p \in Ports \cup {All}
  PROVE  /\ NoExit(ClosePortSteps(p))
         /\ NoExit(Append(ClosePortSteps(p), Step("detach", p)))
<1>1. {"close", "prune", "detach"} \subseteq JobOps \ {"exited"}
  BY DEF JobOps
<1>2. /\ ForEach("close", p) \in Seq(AnyStep) /\ NoExit(ForEach("close", p))
      /\ \A op \in {"prune", "detach"} : /\ <<Step(op, p)>> \in Seq(AnyStep)
                                         /\ NoExit(<<Step(op, p)>>)
                                         /\ Step(op, p) \in AnyStep
  BY <1>1, ForEachShape, OneShape, KindNoExit DEF Step, AnyStep
<1>3. ClosePortSteps(p) = ForEach("close", p) \o <<Step("prune", p)>>
  BY <1>2, AppendIsConcat DEF ClosePortSteps
<1>4. ClosePortSteps(p) \in Seq(AnyStep) /\ NoExit(ClosePortSteps(p))
  BY <1>2, <1>3, OpsConcat DEF NoExit
<1>5. Append(ClosePortSteps(p), Step("detach", p))
        = ClosePortSteps(p) \o <<Step("detach", p)>>
  BY <1>2, <1>4, AppendIsConcat
<1> QED
  BY <1>2, <1>4, <1>5, OpsConcat DEF NoExit

LEMMA ContinueNoExit ==
  ASSUME JobShape, NEW t \in Threads, NEW p \in Ports \cup {All},
         NEW op \in JobOps, Doing(t, op, p), Continues(t, op, p), NoExit(job[t])
  PROVE  NoExit(job'[t])
<1>1. job[t] \in Seq(AnyStep) /\ job[t] # <<>>
  BY DEF JobShape, Doing
<1>2. Tail(job[t]) \in Seq(AnyStep) /\ NoExit(Tail(job[t]))
  BY <1>1, HeadTailProperties, OpsTail DEF NoExit
<1>3. CASE Returns(t)
  <2>1. job'[t] = <<>>
    BY <1>3 DEF Returns, JobShape
  <2>2. \A i \in 1 .. Len(<<>>) : FALSE
    OBVIOUS
  <2> QED
    BY <2>1, <2>2, Zenon DEF NoExit, OpsIn
<1>4. ASSUME NEW steps, Then(t, steps), Follow(op, p, steps)
      PROVE  NoExit(job'[t])
  <2>1. job'[t] = steps \o Tail(job[t])
    BY <1>4 DEF Then, JobShape
  <2>2. CASE steps = <<>>
    BY <1>2, <2>1, <2>2, ConcatEmptySeq
  <2>3. CASE \E next \in JobOps : <<op, next>> \in Nexts
                                  /\ steps = <<Step(next, p)>>
    <3>1. PICK next \in JobOps \ {"exited"} : steps = <<Step(next, p)>>
      BY <2>3 DEF Nexts
    <3>2. steps \in Seq(AnyStep) /\ NoExit(steps)
      BY <3>1, OneShape, KindNoExit
    <3> QED
      BY <1>2, <2>1, <3>2, OpsConcat DEF NoExit
  <2>4. CASE op = "rmv" /\ steps = Append(ClosePortSteps(p), Step("detach", p))
    <3>1. steps \in Seq(AnyStep) /\ NoExit(steps)
      BY <2>4, CloseNoExit, RemovalShape DEF Part, ShapeOK
    <3> QED
      BY <1>2, <2>1, <3>1, OpsConcat DEF NoExit
  <2> QED
    BY <1>4, <2>2, <2>3, <2>4 DEF Follow
<1> QED
  BY <1>3, <1>4 DEF Continues

-----------------------------------------------------------------------------
(* From where the exit starts: every device that runs is stopped or was in *)
(* the hands of the thread that exits; every port is closed or was.        *)

ExitsIn(j) == ~NoExit(j)
ExitState(j) ==
  /\ ExitPart(j)
  /\ test_done \/ Head(j).op = "fwd_stop"
  /\ \A p \in running : port_status[p] = "HANDLING" \/ In(Step("stop", p), j)
  /\ \A p \in attached :
       \/ In(Step("close", p), j)
       \/ p \in running /\ port_status[p] = "HANDLING" /\ ~Halting("main", p)
ExitInv == NotClosed /\ (ExitsIn(job["main"]) => ExitState(job["main"]))

LEMMA StartsExit ==
  ASSUME PortsInv, job' = [job EXCEPT !["main"] = ExitSteps],
         UNCHANGED <<running, attached, port_status, test_done>>
  PROVE  ExitState(job["main"])'
<1>1. job'["main"] = ExitSteps
  BY DEF PortsInv, JobShape, Threads
<1>2. running \subseteq Ports /\ attached \subseteq Ports
  BY DEF PortsInv, LifeInv, StateOK
<1>3. /\ ExitPart(ExitSteps)
      /\ test_done \/ Head(ExitSteps).op = "fwd_stop"
      /\ \A p \in Ports : /\ In(Step("stop", p), ExitSteps)
                          /\ In(Step("close", p), ExitSteps)
  BY ExitStepsPart
<1> DEFINE e == ExitSteps
<1> HIDE DEF e
<1>4. /\ ExitPart(e) /\ (test_done \/ Head(e).op = "fwd_stop")
      /\ \A p \in Ports : In(Step("stop", p), e) /\ In(Step("close", p), e)
      /\ job'["main"] = e
  BY <1>1, <1>3 DEF e
<1> QED
  BY <1>2, <1>4 DEF ExitState

\* The jobs of the other commands.
LEMMA CommandNoExit ==
  ASSUME PortsInv, \/ \E pid \in Ports \cup {All} : OperatePort(pid)
                   \/ OperateForwarding
  PROVE  NoExit(job'["main"])
<1>1. {"start", "stop", "reset", "fwd_start", "fwd_stop"} \subseteq JobOps \ {"exited"}
  BY DEF JobOps, RetOps
<1>2. All \in Ports \cup {All} /\ job = [t \in Threads |-> job[t]] /\ "main" \in Threads
  BY BothThreads DEF PortsInv, JobShape
<1>3. CASE OperateForwarding
  <2>1. \/ job'["main"] = <<Step("fwd_start", All)>>
        \/ job'["main"] = <<Step("fwd_stop", All)>>
    BY <1>2, <1>3 DEF OperateForwarding, Runs
  <2> QED
    BY <1>1, <1>2, <2>1, KindNoExit
<1>4. ASSUME NEW pid \in Ports \cup {All}, OperatePort(pid)
      PROVE  NoExit(job'["main"])
  <2>1. \/ \E op \in {"start", "stop", "reset"} : job'["main"] = ForEach(op, pid)
        \/ job'["main"] = ClosePortSteps(pid)
    BY <1>2, <1>4 DEF OperatePort, Runs
  <2> QED
    BY <1>1, <2>1, KindNoExit, CloseNoExit
<1> QED
  BY <1>3, <1>4

\* The main thread goes on with its exit.
LEMMA ExitGoesOn ==
  ASSUME DevicesStop, PortsInv, NotClosed, ExitState(job["main"]),
         NEW p \in Ports \cup {All}, Body("main", p)
  PROVE  ExitState(job["main"])'
<1> DEFINE j == job["main"]
           r == Tail(job["main"])
<1>1. PICK op \in JobOps : Doing("main", op, p) /\ Continues("main", op, p)
  BY StepShape, BothThreads
<1>2. j \in Seq(AnyStep) /\ j # <<>> /\ Head(j) = Step(op, p) /\ ShapeOK(j)
  BY <1>1, BothThreads DEF Doing, PortsInv, JobShape
<1>3. /\ ExitPart(r) /\ OpsIn(r, ExitOps \ {"fwd_stop"}) /\ op \in ExitOps
      /\ op = "close" => OpsIn(r, ExitOps \ {"stop"})
  <2>1. ExitPart(j) /\ j # <<>>
    BY <1>2 DEF ExitState
  <2>2. Head(j).op = op
    BY <1>2 DEF Step
  <2> HIDE DEF j
  <2>3. /\ ExitPart(Tail(j)) /\ OpsIn(Tail(j), ExitOps \ {"fwd_stop"})
        /\ Head(j).op \in ExitOps
        /\ Head(j).op = "close" => OpsIn(Tail(j), ExitOps \ {"stop"})
    BY <2>1, ExitTail
  <2> QED
    BY <2>2, <2>3 DEF j
<1>4. /\ r \in Seq(AnyStep) /\ Middle(r)
      /\ \A s : In(s, j) <=> s = Step(op, p) \/ In(s, r)
  BY <1>2, ShapeTail, HeadTailProperties, OpsTail
<1>5. test_done \/ op = "fwd_stop"
  BY <1>2 DEF ExitState, Step
<1>6. job = [t \in Threads |-> job[t]] /\ "main" \in Threads
  BY BothThreads DEF PortsInv, JobShape
<1>7. \A other, q : Doing("main", other, q) => other = op
  BY <1>1 DEF Doing, Step
<1>8. ASSUME Then("main", <<>>)
      PROVE  job'["main"] = r /\ \A q : ~Halting("main", q)'
  <2>1. job'["main"] = r
    BY <1>4, <1>6, <1>8, ConcatEmptySeq DEF Then
  <2>2. r # <<>> => Head(r).op # "halt"
    BY <1>4, MiddleHead
  <2> QED
    BY <2>1, <2>2 DEF Halting, Step
<1>9. /\ port_status \in [Ports -> Statuses] /\ attached \subseteq Ports
      /\ running \subseteq attached /\ All \notin Ports
  BY PortsFinite DEF PortsInv, LifeInv, StateOK
<1>10. /\ \A q \in running : port_status[q] = "HANDLING" \/ In(Step("stop", q), j)
       /\ \A q \in attached :
            \/ In(Step("close", q), j)
            \/ q \in running /\ port_status[q] = "HANDLING" /\ ~Halting("main", q)
  BY DEF ExitState
<1>11. \A o1, o2, q1, q2 : Step(o1, q1) = Step(o2, q2) <=> o1 = o2 /\ q1 = q2
  BY DEF Step
<1>12. \A q \in running : port_status[q] \in {"STARTED", "HANDLING"}
  BY <1>9 DEF PortsInv, LifeInv, Honest
<1> HIDE DEF j, r
<1>13. CASE ForwardingSteps("main", p)
  <2>1. Doing("main", "fwd_stop", p) => op = "fwd_stop"
    BY <1>7
  <2>2. StopForwarding("main", p)
    BY <1>3, <1>7, <1>13 DEF ForwardingSteps, StartForwarding,
       LaunchForwarding, ExitOps
  <2>3. /\ op = "fwd_stop" /\ test_done' /\ Then("main", <<>>)
        /\ UNCHANGED <<running, attached, port_status>>
    BY <1>7, <1>13, <2>2 DEF StopForwarding, ForwardingSteps, devices, records
  <2> QED
    BY <1>3, <1>4, <1>8, <1>10, <1>11, <2>3 DEF ExitState
<1>14. CASE Prune("main", p)
  <2>1. /\ op = "prune" /\ Then("main", <<>>)
        /\ UNCHANGED <<running, attached, port_status, test_done>>
    BY <1>7, <1>14 DEF Prune, devices, records, forwarding
  <2> QED
    BY <1>3, <1>4, <1>5, <1>8, <1>10, <1>11, <2>1 DEF ExitState
<1>15. CASE RmvClose("main", p) \/ RmvDetach("main", p)
  BY <1>3, <1>7, <1>15 DEF RmvClose, RmvDetach, ExitOps
<1>16. CASE PortSteps("main", p)
  <2>0. test_done' = test_done
    BY <1>16 DEF PortSteps, forwarding
  <2>1. CASE ClosePort("main", p)
    <3>1. /\ op = "close" /\ Then("main", <<>>) /\ test_done
          /\ IF p \in attached /\ port_status[p] # "CLOSED" /\ p \notin running
             THEN Destroy({p})
             ELSE UNCHANGED <<attached, running, port_status>>
      BY <1>5, <1>7, <2>1 DEF ClosePort, Refused
    <3>2. \A q \in running : port_status[q] = "HANDLING"
      <4>1. OpsIn(r, ExitOps \ {"stop"})
        BY <1>3, <3>1
      <4>2. \A q : ~In(Step("stop", q), r)
        BY <4>1 DEF OpsIn, In, Step
      <4> QED
        BY <1>4, <1>10, <1>11, <3>1, <4>2
    <3>3. CASE p \in attached /\ p \notin running
      <4>1. Destroy({p})
        BY <3>1, <3>3 DEF NotClosed
      <4>2. /\ attached' = attached \ {p} /\ running' = running
            /\ \A q \in attached' : port_status'[q] = port_status[q]
        BY <1>9, <3>3, <4>1 DEF Destroy
      <4> QED
        BY <1>3, <1>4, <1>8, <1>9, <1>10, <1>11, <2>0, <3>1, <3>2, <4>2
           DEF ExitState
    <3>4. CASE ~(p \in attached /\ p \notin running)
      <4>1. UNCHANGED <<attached, running, port_status>>
        BY <3>1, <3>4
      <4>2. \A q \in attached : In(Step("close", q), r) \/ q \in running
        BY <1>4, <1>10, <1>11, <3>1, <3>4
      <4> QED
        BY <1>3, <1>8, <2>0, <3>1, <3>2, <4>1, <4>2 DEF ExitState
    <3> QED
      BY <3>3, <3>4
  <2>2. CASE StopDevice("main", p)
    <3>1. /\ op = "halt" /\ Then("main", <<>>) /\ test_done /\ UNCHANGED attached
          /\ running' = running \ {p}
          /\ \A q \in Ports : q # p => port_status'[q] = port_status[q]
      BY <1>5, <1>7, <1>9, <2>2 DEF StopDevice, SetStatus, DevicesStop
    <3>2. Halting("main", p)
      BY <1>1, <3>1 DEF Halting, Doing
    <3>3. \A q \in running' : port_status'[q] = "HANDLING" \/ In(Step("stop", q), r)
      BY <1>4, <1>9, <1>10, <1>11, <3>1
    <3>4. \A q \in attached :
            \/ In(Step("close", q), r)
            \/ q # p /\ q \in running /\ port_status[q] = "HANDLING"
      BY <1>4, <1>10, <1>11, <3>1, <3>2
    <3> QED
      BY <1>3, <1>8, <1>9, <2>0, <3>1, <3>3, <3>4 DEF ExitState
  <2>3. CASE StopPort("main", p)
    <3>1. /\ op = "stop" /\ test_done /\ UNCHANGED <<running, attached>>
      BY <1>5, <1>7, <2>3 DEF StopPort, devices
    <3>2. CASE ~(p \in attached /\ port_status[p] = "STARTED")
      <4>1. Then("main", <<>>) /\ UNCHANGED port_status
        BY <2>3, <3>2 DEF StopPort
      <4>2. \A q \in running : port_status[q] = "HANDLING" \/ In(Step("stop", q), r)
        BY <1>4, <1>9, <1>10, <1>11, <1>12, <3>1, <3>2
      <4>3. \A q \in attached :
              In(Step("close", q), r) \/ (q \in running /\ port_status[q] = "HANDLING")
        BY <1>4, <1>10, <1>11, <3>1
      <4> QED
        BY <1>3, <1>8, <2>0, <3>1, <4>1, <4>2, <4>3 DEF ExitState
    <3>3. CASE p \in attached /\ port_status[p] = "STARTED"
      <4>1. /\ port_status' = [port_status EXCEPT ![p] = "HANDLING"]
            /\ Then("main", <<Step("halt", p)>>) \/ Then("main", <<>>)
        BY <2>3, <3>1, <3>3 DEF StopPort, Refused
      <4>2. \A q \in running : port_status'[q] = "HANDLING" \/ In(Step("stop", q), r)
        BY <1>4, <1>9, <1>10, <1>11, <3>1, <4>1
      <4>3. \A q \in attached :
              \/ In(Step("close", q), r)
              \/ q # p /\ q \in running /\ port_status'[q] = "HANDLING"
        BY <1>4, <1>9, <1>10, <1>11, <3>1, <3>3, <4>1
      <4>4. CASE Then("main", <<>>)
        BY <1>3, <1>8, <2>0, <3>1, <4>2, <4>3, <4>4 DEF ExitState
      <4>5. CASE Then("main", <<Step("halt", p)>>)
        <5> DEFINE h == <<Step("halt", p)>>
                   k == h \o r
        <5>1. "halt" \in ExitOps /\ "halt" \in JobOps
              /\ "halt" \in ExitOps \ {"exited"} /\ "halt" \in ExitOps \ {"close"}
          BY DEF ExitOps, JobOps
        <5>2. h \in Seq(AnyStep) /\ OpsIn(h, {"halt"})
          BY <5>1, OneShape DEF OpsIn
        <5>3. job'["main"] = k
          BY <1>6, <4>5 DEF Then, r
        <5>4. ~(h = <<>>) /\ Head(h) = Step("halt", p)
          OBVIOUS
        <5> HIDE DEF h
        <5>5. /\ ExitPart(h) /\ OpsIn(h, ExitOps \ {"exited"})
              /\ OpsIn(h, ExitOps \ {"close"})
          BY <5>1, <5>2, OneKind
        <5>6. ExitPart(k)
          BY <1>3, <5>5, ExitConcat
        <5>7. \A s : In(s, r) => In(s, k)
          BY <1>4, <5>2, OpsConcat
        <5>8. Head(k) = Step("halt", p)
          BY <1>4, <5>2, <5>4, HeadConcat
        <5>9. \A q : Halting("main", q)' => q = p
          BY <1>11, <5>3, <5>8 DEF Halting
        <5> HIDE DEF k
        <5> QED
          BY <2>0, <3>1, <4>2, <4>3, <5>3, <5>6, <5>7, <5>9 DEF ExitState
      <4> QED
        BY <4>1, <4>4, <4>5
    <3> QED
      BY <3>2, <3>3
  <2>4. CASE \/ StartPort("main", p) \/ ConfigureDevice("main", p)
             \/ SetupQueues("main", p) \/ StartDevice("main", p)
             \/ ResetPort("main", p)
    BY <1>3, <1>7, <2>4 DEF StartPort, ConfigureDevice, SetupQueues,
       StartDevice, ResetPort, ExitOps
  <2> QED
    BY <1>16, <2>1, <2>2, <2>3, <2>4 DEF PortSteps
<1> QED
  BY <1>13, <1>14, <1>15, <1>16 DEF Body

LEMMA NextExit ==
  ASSUME DevicesStop, ~Interleaved, PortsInv, PollInv, ExitInv, [Next]_vars
  PROVE  ExitInv'
<1>0. NotClosed'
  BY NextNotClosed DEF ExitInv, PortsInv
<1>1. SUFFICES ASSUME ExitsIn(job["main"])' PROVE ExitState(job["main"])'
  BY <1>0 DEF ExitInv
<1>2. NotClosed /\ (ExitsIn(job["main"]) => ExitState(job["main"]))
  BY DEF ExitInv
<1>3. NoExit(<<>>)
  <2>1. \A i \in 1 .. Len(<<>>) : FALSE
    OBVIOUS
  <2> QED
    BY <2>1, Zenon DEF NoExit, OpsIn
<1>4. CASE UNCHANGED vars \/ \E p \in Ports : RemovalEvent(p)
  BY <1>1, <1>2, <1>4 DEF vars, RemovalEvent, devices, records, forwarding,
     ExitState, Halting
<1>5. ASSUME UNCHANGED job, job["main"] = <<>> PROVE FALSE
  BY <1>1, <1>3, <1>5 DEF ExitsIn
<1>6. CASE \E p \in Ports : RmvPortCallback(p)
  <2>1. job["main"] = <<>> /\ job'["main"] = job["main"]
    BY <1>6 DEF RmvPortCallback, PortsInv, JobShape, Threads
  <2> QED
    BY <1>1, <1>3, <2>1 DEF ExitsIn
<1>7. ASSUME NEW t \in Threads, NEW p \in Ports \cup {All}, Body(t, p)
      PROVE  ExitState(job["main"])'
  <2>1. PICK op \in JobOps : Doing(t, op, p) /\ Continues(t, op, p)
    BY <1>7, StepShape
  <2>2. JobShape /\ Alone /\ job[t] # <<>>
    BY <2>1 DEF PortsInv, PollInv, Doing
  <2>3. CASE t = "main"
    <3>1. ExitsIn(job["main"])
      BY <1>1, <2>1, <2>2, <2>3, ContinueNoExit DEF ExitsIn
    <3> QED
      BY <1>2, <1>7, <2>3, <3>1, ExitGoesOn
  <2>4. CASE t # "main"
    <3>1. job["main"] = <<>>
      BY <2>2, <2>4, BothThreads DEF Alone
    <3>2. job'["main"] = job["main"]
      BY <2>1, <2>2, <2>4, ContinueShape, BothThreads
    <3> QED
      BY <1>1, <1>3, <3>1, <3>2 DEF ExitsIn
  <2> QED
    BY <2>3, <2>4
<1>8. CASE Operator
  <2>1. CASE Quit \/ SignalHandler
    <3>1. job' = [job EXCEPT !["main"] = ExitSteps]
      BY <2>1 DEF Quit, SignalHandler, Runs
    <3>2. UNCHANGED <<running, attached, port_status, test_done>>
      BY <2>1 DEF Quit, SignalHandler, devices, records, forwarding
    <3> QED
      BY <3>1, <3>2, StartsExit
  <2>2. CASE (\E pid \in Ports \cup {All} : OperatePort(pid)) \/ OperateForwarding
    BY <1>1, <2>2, CommandNoExit DEF ExitsIn
  <2>3. CASE \/ \E d \in Devices : OperateAttach(d) \/ OperateDetach(d)
             \/ \E mode \in ProbeModes : SetPortSetupOn(mode)
             \/ \E S \in SUBSET Ports : SetPortList(S)
             \/ \E c \in Commands, pid \in Ports \cup {All} : Configure(c, pid)
    BY <1>5, <2>3 DEF OperateAttach, OperateDetach, SetPortSetupOn,
       SetPortList, Configure, Command
  <2> QED
    BY <1>8, <2>1, <2>2, <2>3 DEF Operator
<1> QED
  BY <1>4, <1>6, <1>7, <1>8 DEF Next, ThreadStep, Body

\* "quit" leaves no device running and no port open: when the callback runs
\* between commands, whatever fails but the stop of a device, the exit stops
\* the forwarding, then every port, then closes every port; a signal leaves
\* the ports alone that it took the main thread away from, and no others.
THEOREM ExitCorrect ==
  ASSUME DevicesStop, ~Interleaved
  PROVE  Spec => []ExitClosesAll
<1> DEFINE I == PortsInv /\ PollInv /\ ExitInv
<1>1. Init => I
  <2>1. Init => Alone /\ ~Launching /\ test_done
    BY BothThreads DEF Init, Alone, Launching
  <2>2. Init => \A t \in Threads, p \in Ports : ~Halting(t, p)
    BY DEF Init, Halting
  <2>3. Init => NotClosed /\ NoExit(job["main"])
    <3>1. \A i \in 1 .. Len(<<>>) : FALSE
      OBVIOUS
    <3>2. NoExit(<<>>)
      BY <3>1, Zenon DEF NoExit, OpsIn
    <3> QED
      BY <3>2, BothThreads DEF Init, NotClosed
  <2> QED
    BY <2>1, <2>2, <2>3, InitPorts DEF PollInv, ExitInv, ExitsIn
<1>2. I /\ [Next]_vars => I'
  <2> SUFFICES ASSUME I, [Next]_vars PROVE I'
    OBVIOUS
  <2>1. PortsInv' /\ ExitInv'
    BY NextPorts, NextExit
  <2>2. PollInv'
    BY NextPoll DEF PortsInv
  <2> QED
    BY <2>1, <2>2
<1>3. I => ExitClosesAll
  <2> SUFFICES ASSUME I, Exited, NEW p \in attached
               PROVE  port_status[p] = "HANDLING" /\ p \in running
    BY DEF ExitClosesAll
  <2> DEFINE j == job["main"]
  <2>1. /\ j \in Seq(AnyStep) /\ j # <<>> /\ Head(j).op = "exited"
        /\ NotClosed /\ (ExitsIn(j) => ExitState(j))
    BY BothThreads DEF Exited, PortsInv, JobShape, ExitInv
  <2>2. /\ Head(j) = j[1] /\ 1 \in 1 .. Len(j) /\ Len(j) \in Nat
    BY <2>1, HeadTailProperties, LenProperties, EmptySeq
  <2>3. j[1].op = "exited"
    BY <2>1, <2>2
  <2>4. ExitState(j)
    BY <2>1, <2>2, <2>3 DEF ExitsIn, NoExit, OpsIn
  <2>5. Len(j) = 1
    BY <2>2, <2>3, <2>4 DEF ExitState, ExitPart
  <2>6. ~In(Step("close", p), j)
    <3> HIDE DEF j
    <3>1. \A i \in 1 .. Len(j) : j[i].op = "exited"
      BY <2>3, <2>5
    <3> QED
      BY <3>1 DEF In, Step
  <2> QED
    BY <2>4, <2>6 DEF ExitState
<1> HIDE DEF I
<1> QED
  BY <1>1, <1>2, <1>3, PTL DEF Spec
===============================================================================
