-------------------------- MODULE ForwardingControl --------------------------
(***************************************************************************)
(* The forwarding control of testpmd: the commands of the main thread that *)
(* configure, start and stop packet forwarding, and the worker cores they  *)
(* launch.  A command of the prompt is one action, except for starting and *)
(* stopping, which wait for the workers: their steps interleave with the   *)
(* workers'.  The configuration itself is computed by FwdStreams.          *)
(*                                                                         *)
(* start_port and stop_port are one action each, with every outcome that   *)
(* their failure paths leave behind.  DCB, bonding and shared receive      *)
(* queues are not configured.                                              *)
(***************************************************************************)
EXTENDS FwdStreams, FiniteSets

CONSTANTS
  NbEthPorts,        \* ports of the system, attached or not
  InitialPorts,      \* those probed when testpmd starts
  MaxQueues,         \* [port -> max_rx_queues = max_tx_queues of its device]
  NbLcores,          \* nb_lcores: worker cores
  Engines,           \* forwarding engines the operator chooses from
  Topology,          \* --port-topology
  QueueCounts,       \* values given to "port config all rxq|txq"
  NbCoreValues,      \* values given to "set nbcore"
  CfgWhileRunning,   \* does the operator reconfigure while forwarding runs?
  BeginMayFail       \* can tx_only_begin refuse the transmit settings?

Ports == 0 .. NbEthPorts - 1
Lcores == 0 .. NbLcores - 1
PairedEngines == {"noisy", "ieee1588"}   \* with port_fwd_begin and _end
NoEngine == "none"

ASSUME ControlAssumption ==
  /\ NbEthPorts \in Nat
  /\ InitialPorts \in Nat /\ InitialPorts <= NbEthPorts
  /\ MaxQueues \in [Ports -> Nat]
  /\ \A p \in Ports : MaxQueues[p] >= 1
  /\ NbLcores \in Nat \ {0}
  /\ "io" \in Engines /\ NoEngine \notin Engines
  /\ Topology \in Topologies
  /\ QueueCounts \subseteq Nat
  /\ NbCoreValues \subseteq Nat
  /\ CfgWhileRunning \in BOOLEAN
  /\ BeginMayFail \in BOOLEAN

VARIABLES
  port_status,      \* ports[].port_status; CLOSED: ethdev does not list it
  ports_ids,        \* the known ports; nb_ports is its length
  fwd_ports_ids,    \* the configured ports; nb_cfg_ports is its length
  nb_fwd_ports,
  nb_cfg_lcores, nb_fwd_lcores,
  nb_rxq, nb_txq,
  cur_fwd_eng,
  cfg_eng, cfg_ports, cfg_lcores, cfg_streams,   \* cur_fwd_config
  nb_fwd_streams,   \* streams allocated
  fwd_streams, fwd_lcores,
  stopped,          \* fwd_lcores[]->stopped
  test_done,
  contexts,         \* <<engine, port>> with port_fwd_begin done, _end not
  main,             \* where the main thread is
  wstate,           \* EAL state of the worker cores
  captured,         \* what run_pkt_fwd_on_lcore keeps in its locals
  dangling          \* were the streams it points to freed?

portVars   == <<port_status, ports_ids, fwd_ports_ids, nb_fwd_ports>>
settings   == <<nb_cfg_lcores, nb_fwd_lcores, nb_rxq, nb_txq, cur_fwd_eng>>
config     == <<cfg_eng, cfg_ports, cfg_lcores, cfg_streams,
                nb_fwd_streams, fwd_streams, fwd_lcores>>
workerVars == <<wstate, captured>>
vars == <<portVars, settings, config, stopped, test_done, contexts, main,
          workerVars, dangling>>

nb_ports     == Len(ports_ids)
nb_cfg_ports == Len(fwd_ports_ids)
Valid == {p \in Ports : port_status[p] # "CLOSED"}

StreamRecord == [rx_port : Nat, rx_queue : Nat, tx_port : Nat, tx_queue : Nat]
ShareRecord  == [stream_idx : Nat, stream_nb : Nat]

TypeOK ==
  /\ port_status \in [Ports -> {"STOPPED", "STARTED", "HANDLING", "CLOSED"}]
  /\ ports_ids \in Seq(Ports) /\ fwd_ports_ids \in Seq(Ports)
  /\ nb_fwd_ports \in 0 .. nb_cfg_ports
  /\ nb_cfg_lcores \in 1 .. NbLcores /\ nb_fwd_lcores \in 0 .. nb_cfg_lcores
  /\ nb_rxq \in Nat /\ nb_txq \in Nat
  /\ cur_fwd_eng \in Engines /\ cfg_eng \in Engines
  /\ cfg_ports \in Nat /\ cfg_lcores \in 0 .. NbLcores /\ cfg_streams \in Nat
  /\ nb_fwd_streams \in Nat
  /\ fwd_streams \in [0 .. nb_fwd_streams - 1 -> StreamRecord]
  /\ fwd_lcores \in [Lcores -> ShareRecord]
  /\ stopped \in [Lcores -> BOOLEAN] /\ test_done \in BOOLEAN
  /\ contexts \subseteq PairedEngines \X Ports
  /\ main \in {"command", "begin", "begin_first", "launch", "first",
               "first_wait", "stopping", "exited", "undefined"}
  /\ wstate \in [Lcores -> {"WAIT", "LAUNCHED", "RUNNING"}]
  /\ captured \in [Lcores -> [stream_idx : Nat, stream_nb : Nat,
                              eng : Engines \cup {"txonly", NoEngine}]]
  /\ dangling \in [Lcores -> BOOLEAN]

-----------------------------------------------------------------------------
(* fwd_config_setup, called with the settings a command has just changed   *)
(* (hence the primes).  A stream or a core the loops would reach outside   *)
(* their arrays, and the division by zero cores, are undefined behaviour:  *)
(* nothing is claimed of what follows.                                     *)

NewKind == SetupKind(cur_fwd_eng', nb_rxq', nb_txq')
NewStreams == NbStreams(NewKind, nb_fwd_ports', nb_rxq', nb_txq')
NewLcores  == NbLcoresUsed(NewKind, nb_fwd_lcores', nb_fwd_ports',
                           nb_rxq', nb_txq')

(* init_fwd_streams returns -1, which its callers ignore, when a port has  *)
(* fewer queues than configured, or when no queue is.                      *)
InitFwdStreamsFails ==
  \/ \E p \in Valid' : nb_rxq' > MaxQueues[p] \/ nb_txq' > MaxQueues[p]
  \/ nb_rxq' = 0 /\ nb_txq' = 0

NewAllocation ==
  IF InitFwdStreamsFails THEN nb_fwd_streams
  ELSE NbAllocated(nb_ports', nb_rxq', nb_txq')

SetupUndefined ==
  \/ NewLcores = 0 /\ NewStreams > 0
  \/ NewStreams > NewAllocation

(* StreamAt names ports by their index in fwd_ports_ids.                   *)
PortStream(s) ==
  LET st == StreamAt(NewKind, s, Topology, nb_fwd_ports', nb_rxq', nb_txq',
                     1, 0)
  IN  [st EXCEPT !.rx_port = fwd_ports_ids'[st.rx_port + 1],
                 !.tx_port = fwd_ports_ids'[st.tx_port + 1]]

(* The arrays after the call; a core keeps the addresses of the streams it *)
(* polls, so a reallocation leaves a running core with freed memory.       *)
ConfigComputed ==
  /\ cfg_eng' = cur_fwd_eng'
  /\ cfg_ports' = nb_fwd_ports'
  /\ cfg_lcores' = NewLcores
  /\ cfg_streams' = NewStreams
  /\ nb_fwd_streams' = NewAllocation
  /\ fwd_streams' = [s \in 0 .. NewAllocation - 1 |->
       IF s < NewStreams THEN PortStream(s)
       ELSE IF NewAllocation = nb_fwd_streams THEN fwd_streams[s]
       ELSE ZeroStream]
  /\ fwd_lcores' = [lc \in Lcores |->
       IF lc < NewLcores THEN EachLcore(NewStreams, NewLcores)[lc]
       ELSE fwd_lcores[lc]]
  /\ dangling' = [lc \in Lcores |->
       \/ dangling[lc]
       \/ wstate[lc] = "RUNNING" /\ NewAllocation # nb_fwd_streams]

(* The whole call; the main thread goes on at label next.                  *)
SetupForwarding(next) ==
  IF SetupUndefined
  THEN main' = "undefined" /\ UNCHANGED <<config, dangling>>
  ELSE main' = next /\ ConfigComputed

-----------------------------------------------------------------------------
(* Start-up: main, set_def_fwd_config, init_config; the configuration is   *)
(* set up for the ports probed, one core and one queue.                    *)

InitialIds == [i \in 1 .. InitialPorts |-> i - 1]

Init ==
  /\ port_status = [p \in Ports |->
                      IF p < InitialPorts THEN "STOPPED" ELSE "CLOSED"]
  /\ ports_ids = InitialIds /\ fwd_ports_ids = InitialIds
  /\ nb_fwd_ports = InitialPorts
  /\ nb_cfg_lcores = NbLcores /\ nb_fwd_lcores = 1
  /\ nb_rxq = 1 /\ nb_txq = 1 /\ cur_fwd_eng = "io"
  /\ cfg_eng = "io"
  /\ cfg_ports = InitialPorts /\ cfg_streams = InitialPorts
  /\ cfg_lcores = Least(1, InitialPorts)
  /\ nb_fwd_streams = InitialPorts
  /\ fwd_streams = [s \in 0 .. InitialPorts - 1 |->
                      SimpleStreamAt(s, Topology, InitialPorts)]
  /\ fwd_lcores = [lc \in Lcores |->
       [stream_idx |-> 0, stream_nb |-> IF lc = 0 THEN InitialPorts ELSE 0]]
  /\ stopped = [lc \in Lcores |-> FALSE] /\ test_done = TRUE
  /\ contexts = {} /\ main = "command"
  /\ wstate = [lc \in Lcores |-> "WAIT"]
  /\ captured = [lc \in Lcores |->
       [stream_idx |-> 0, stream_nb |-> 0, eng |-> NoEngine]]
  /\ dangling = [lc \in Lcores |-> FALSE]

-----------------------------------------------------------------------------
(* Commands that only change the forwarding configuration.                 *)

(* What the operator is trusted with: the code of set nbport and of the    *)
(* set-up after set nbcore does not look at test_done.                     *)
OperatorMayConfigure == test_done \/ CfgWhileRunning

(* set nbport n                                                            *)
SetNbPort(n) ==
  /\ main = "command" /\ OperatorMayConfigure
  /\ nb_fwd_ports' = IF n > nb_cfg_ports THEN nb_fwd_ports ELSE n
  /\ UNCHANGED <<port_status, ports_ids, fwd_ports_ids, settings>>
  /\ SetupForwarding("command")
  /\ UNCHANGED <<stopped, test_done, contexts, workerVars>>

(* set nbcore n: set_fwd_lcores_number looks at test_done, the set-up that *)
(* follows it does not.                                                    *)
SetNbCore(n) ==
  /\ main = "command" /\ OperatorMayConfigure
  /\ nb_fwd_lcores' = IF ~test_done \/ n > nb_cfg_lcores
                      THEN nb_fwd_lcores ELSE n
  /\ UNCHANGED <<portVars, nb_cfg_lcores, nb_rxq, nb_txq, cur_fwd_eng>>
  /\ SetupForwarding("command")
  /\ UNCHANGED <<stopped, test_done, contexts, workerVars>>

(* Mutant: the cores may change while forwarding runs.                     *)
SetCoreListUnchecked(n) ==
  /\ main = "command"
  /\ nb_cfg_lcores' = n /\ nb_fwd_lcores' = n
  /\ UNCHANGED <<portVars, nb_rxq, nb_txq, cur_fwd_eng>>
  /\ SetupForwarding("command")
  /\ UNCHANGED <<stopped, test_done, contexts, workerVars>>

(* set corelist, set coremask: n cores.                                    *)
SetCoreList(n) ==
  /\ main = "command" /\ test_done
  /\ nb_cfg_lcores' = n /\ nb_fwd_lcores' = n
  /\ UNCHANGED <<portVars, nb_rxq, nb_txq, cur_fwd_eng>>
  /\ SetupForwarding("command")
  /\ UNCHANGED <<stopped, test_done, contexts, workerVars>>

(* set portlist, set portmask (which may select no port).                  *)
SetPortList(list) ==
  /\ main = "command" /\ test_done
  /\ fwd_ports_ids' = list /\ nb_fwd_ports' = Len(list)
  /\ UNCHANGED <<port_status, ports_ids, settings>>
  /\ SetupForwarding("command")
  /\ UNCHANGED <<stopped, test_done, contexts, workerVars>>

(* Mutant: set eth-peer does not look at test_done.                        *)
SetEthPeerUnchecked ==
  /\ main = "command"
  /\ UNCHANGED <<portVars, settings>>
  /\ SetupForwarding("command")
  /\ UNCHANGED <<stopped, test_done, contexts, workerVars>>

(* set eth-peer, and a list or mask that is refused: the configuration is  *)
(* set up again with the settings as they are.                             *)
SetEthPeer ==
  /\ main = "command" /\ test_done
  /\ UNCHANGED <<portVars, settings>>
  /\ SetupForwarding("command")
  /\ UNCHANGED <<stopped, test_done, contexts, workerVars>>

(* set fwd e, at any time: takes effect at the next fwd_config_setup.      *)
SetFwdMode(e) ==
  /\ main = "command"
  /\ cur_fwd_eng' = e
  /\ UNCHANGED <<portVars, nb_cfg_lcores, nb_fwd_lcores, nb_rxq, nb_txq,
                 config, stopped, test_done, contexts, main, workerVars,
                 dangling>>

(* port config all rxq|txq n                                               *)
AllPortsStopped == \A p \in Valid : port_status[p] = "STOPPED"

(* check_nb_rxq, check_nb_txq: no device has fewer queues.                  *)
QueueCountAllowed(n) ==
  IF Valid = {} THEN n = 0 ELSE \A p \in Valid : n <= MaxQueues[p]

ConfigQueues(n) ==
  /\ main = "command" /\ AllPortsStopped
  /\ QueueCountAllowed(n)
  /\ \/ (n # 0 \/ nb_txq # 0) /\ nb_rxq' = n /\ nb_txq' = nb_txq
     \/ (n # 0 \/ nb_rxq # 0) /\ nb_txq' = n /\ nb_rxq' = nb_rxq
  /\ UNCHANGED <<portVars, nb_cfg_lcores, nb_fwd_lcores, cur_fwd_eng>>
  /\ SetupForwarding("command")
  /\ UNCHANGED <<stopped, test_done, contexts, workerVars>>

-----------------------------------------------------------------------------
(* Commands on one port.                                                   *)

FwdPorts == {fwd_ports_ids[i] : i \in 1 .. nb_fwd_ports}
IsForwarding(p) == p \in FwdPorts

(* What every one of these actions leaves alone.                           *)
PortCommand ==
  /\ main = "command"
  /\ UNCHANGED <<settings, config, stopped, test_done, contexts, main,
                 workerVars, dangling>>

(* port start p: the device refuses more queues than it has, and other     *)
(* failures leave the port stopped or, on some paths, in handling.         *)
StartPort(p) ==
  /\ port_status[p] = "STOPPED"
  /\ \E result \in {"STARTED", "STOPPED", "HANDLING"} :
       /\ result = "STARTED" =>
            nb_rxq <= MaxQueues[p] /\ nb_txq <= MaxQueues[p]
       /\ port_status' = [port_status EXCEPT ![p] = result]
  /\ UNCHANGED <<ports_ids, fwd_ports_ids, nb_fwd_ports>>
  /\ PortCommand

(* Mutant: "port stop" does not ask whether the port forwards.             *)
StopPortUnchecked(p) ==
  /\ port_status[p] = "STARTED"
  /\ \E result \in {"STOPPED", "HANDLING"} :
       port_status' = [port_status EXCEPT ![p] = result]
  /\ UNCHANGED <<ports_ids, fwd_ports_ids, nb_fwd_ports>>
  /\ PortCommand

(* port stop p                                                             *)
StopPort(p) ==
  /\ port_status[p] = "STARTED"
  /\ ~(IsForwarding(p) /\ ~test_done)
  /\ \E result \in {"STOPPED", "HANDLING"} :
       port_status' = [port_status EXCEPT ![p] = result]
  /\ UNCHANGED <<ports_ids, fwd_ports_ids, nb_fwd_ports>>
  /\ PortCommand

(* The index of p in a list, and the list without it: the compaction of    *)
(* remove_invalid_ports_in when p is the port that became invalid.  Ports  *)
(* occur at most once in a list.                                           *)
IndexOf(list, p) == CHOOSE i \in 1 .. Len(list) : list[i] = p
Without(list, p) ==
  IF \E i \in 1 .. Len(list) : list[i] = p
  THEN [j \in 1 .. Len(list) - 1 |->
          IF j < IndexOf(list, p) THEN list[j] ELSE list[j + 1]]
  ELSE list

(* Mutant: the number of forwarding ports is not brought up to date.       *)
RemoveInvalidPortsStale(p) ==
  /\ ports_ids' = Without(ports_ids, p)
  /\ fwd_ports_ids' = Without(fwd_ports_ids, p)
  /\ nb_fwd_ports' = nb_fwd_ports

(* remove_invalid_ports: what lies beyond nb_fwd_ports is forgotten too.   *)
RemoveInvalidPorts(p) ==
  /\ ports_ids' = Without(ports_ids, p)
  /\ fwd_ports_ids' = Without(SubSeq(fwd_ports_ids, 1, nb_fwd_ports), p)
  /\ nb_fwd_ports' = Len(fwd_ports_ids')

(* Mutant: a closed port stays in the lists.                               *)
ClosePortListed(p) ==
  /\ p \in Valid
  /\ ~(IsForwarding(p) /\ ~test_done)
  /\ port_status' = [port_status EXCEPT ![p] = "CLOSED"]
  /\ UNCHANGED <<ports_ids, fwd_ports_ids, nb_fwd_ports>>
  /\ PortCommand

(* port close p: the DESTROY event of rte_eth_dev_close closes the port.   *)
ClosePort(p) ==
  /\ p \in Valid
  /\ ~(IsForwarding(p) /\ ~test_done)
  /\ port_status' = [port_status EXCEPT ![p] = "CLOSED"]
  /\ RemoveInvalidPorts(p)
  /\ PortCommand

(* port close p that closes nothing: the port forwards, or ethdev refuses  *)
(* to close a device that is started.  remove_invalid_ports runs all the   *)
(* same, and forgets what "set nbport" had put aside.                      *)
CloseRefused(p) ==
  /\ p \in Valid
  /\ (IsForwarding(p) /\ ~test_done) \/ port_status[p] # "STOPPED"
  /\ fwd_ports_ids' = SubSeq(fwd_ports_ids, 1, nb_fwd_ports)
  /\ UNCHANGED <<port_status, ports_ids, nb_fwd_ports>>
  /\ PortCommand

(* port detach p: only the status is looked at.                            *)
DetachPort(p) ==
  /\ port_status[p] = "STOPPED"
  /\ port_status' = [port_status EXCEPT ![p] = "CLOSED"]
  /\ RemoveInvalidPorts(p)
  /\ PortCommand

(* port attach p, in the event mode: the port is appended to the ports     *)
(* that forward, over what "set nbport" had put aside.                     *)
AttachPort(p) ==
  /\ port_status[p] = "CLOSED"
  /\ port_status' = [port_status EXCEPT ![p] = "STOPPED"]
  /\ ports_ids' = Append(ports_ids, p)
  /\ fwd_ports_ids' = Append(SubSeq(fwd_ports_ids, 1, nb_fwd_ports), p)
  /\ nb_fwd_ports' = nb_fwd_ports + 1
  /\ PortCommand

-----------------------------------------------------------------------------
(* start, start tx_first                                                   *)

AllPortsStarted == \A p \in Valid : port_status[p] = "STARTED"

QueuesMissing ==
  CASE cur_fwd_eng = "rxonly" -> nb_rxq = 0
    [] cur_fwd_eng = "txonly" -> nb_txq = 0
    [] OTHER -> nb_rxq = 0 \/ nb_txq = 0

(* rte_exit when the engine has no queue to work on; "set fwd" may have    *)
(* chosen it while another one forwards.                                   *)
StartExits ==
  /\ main = "command" /\ QueuesMissing
  /\ main' = "exited"
  /\ UNCHANGED <<portVars, settings, config, stopped, test_done, contexts,
                 workerVars, dangling>>

(* start_packet_forwarding up to the configuration.                        *)
Start(with_tx_first) ==
  /\ main = "command" /\ ~QueuesMissing
  /\ AllPortsStarted /\ test_done
  /\ UNCHANGED <<portVars, settings>>
  /\ SetupForwarding(IF with_tx_first THEN "begin_first" ELSE "begin")
  /\ UNCHANGED <<stopped, test_done, contexts, workerVars>>

CfgPorts == {fwd_ports_ids[i] : i \in 1 .. Least(cfg_ports, nb_cfg_ports)}
CfgContexts ==
  IF cfg_eng \in PairedEngines THEN {<<cfg_eng, p>> : p \in CfgPorts} ELSE {}

(* port_fwd_begin of the engine on every port, then for tx_first that of   *)
(* the txonly engine; "Packet forwarding is not ready" when one fails.     *)
BeginEngines ==
  /\ main \in {"begin", "begin_first"}
  /\ contexts' = contexts \cup CfgContexts
  /\ \/ /\ BeginMayFail /\ CfgPorts # {}
        /\ cfg_eng = "txonly" \/ main = "begin_first"
        /\ main' = "command" /\ test_done' = test_done
     \/ /\ main' = IF main = "begin_first" THEN "first" ELSE "launch"
        /\ test_done' = FALSE
  /\ UNCHANGED <<portVars, settings, config, stopped, workerVars, dangling>>

(* noisy_fwd_begin exits when the ring of the port already exists, which   *)
(* it does when a context was not ended and packets are buffered.          *)
BeginExits ==
  /\ main \in {"begin", "begin_first"}
  /\ cfg_eng = "noisy" /\ CfgContexts \cap contexts # {}
  /\ main' = "exited"
  /\ UNCHANGED <<portVars, settings, config, stopped, test_done, contexts,
                 workerVars, dangling>>

(* launch_packet_forwarding: a core that still runs refuses the launch     *)
(* (EBUSY), which is only reported.                                        *)
LaunchOn(next) ==
  /\ stopped' = [lc \in Lcores |-> lc >= cfg_lcores /\ stopped[lc]]
  /\ wstate' = [lc \in Lcores |->
       IF lc < cfg_lcores /\ wstate[lc] = "WAIT" THEN "LAUNCHED"
       ELSE wstate[lc]]
  /\ main' = next
  /\ UNCHANGED <<portVars, settings, config, test_done, contexts, captured,
                 dangling>>

(* The single burst of tx_first, and the wait for it.                      *)
LaunchBurst == main = "first" /\ LaunchOn("first_wait")

AllLcoresWait == \A lc \in Lcores : wstate[lc] = "WAIT"

BurstDone ==
  /\ main = "first_wait" /\ AllLcoresWait
  /\ main' = "launch"
  /\ UNCHANGED <<portVars, settings, config, stopped, test_done, contexts,
                 workerVars, dangling>>

Launch == main = "launch" /\ LaunchOn("command")

-----------------------------------------------------------------------------
(* The worker cores, until the program exits.                              *)

Alive == main \notin {"exited", "undefined"}

(* The core picks up its share of the streams and the engine; it does so   *)
(* some time after the launch, in its own thread.                          *)
WorkerBegin(lc) ==
  /\ Alive /\ wstate[lc] = "LAUNCHED"
  /\ wstate' = [wstate EXCEPT ![lc] = "RUNNING"]
  /\ captured' = [captured EXCEPT ![lc] =
       [stream_idx |-> fwd_lcores[lc].stream_idx,
        stream_nb  |-> fwd_lcores[lc].stream_nb,
        eng        |-> IF main = "first_wait" THEN "txonly" ELSE cfg_eng]]
  /\ UNCHANGED <<portVars, settings, config, stopped, test_done, contexts,
                 main, dangling>>

(* The loop over the streams ends when stopped is set; that of tx_first    *)
(* runs on a copy of fwd_lcore in which it already is.                     *)
WorkerLeave(lc) ==
  /\ Alive /\ wstate[lc] = "RUNNING"
  /\ stopped[lc] \/ main = "first_wait"
  /\ wstate' = [wstate EXCEPT ![lc] = "WAIT"]
  /\ dangling' = [dangling EXCEPT ![lc] = FALSE]
  /\ captured' = [captured EXCEPT ![lc] =
       [stream_idx |-> 0, stream_nb |-> 0, eng |-> NoEngine]]
  /\ UNCHANGED <<portVars, settings, config, stopped, test_done, contexts,
                 main>>

-----------------------------------------------------------------------------
(* stop                                                                    *)

(* Mutant: the loop that tells the cores to stop ends one core early.      *)
StopAllButLast ==
  /\ main = "command" /\ ~test_done
  /\ stopped' = [lc \in Lcores |-> lc + 1 < cfg_lcores \/ stopped[lc]]
  /\ main' = "stopping"
  /\ UNCHANGED <<portVars, settings, config, test_done, contexts, workerVars,
                 dangling>>

Stop ==
  /\ main = "command" /\ ~test_done
  /\ stopped' = [lc \in Lcores |-> lc < cfg_lcores \/ stopped[lc]]
  /\ main' = "stopping"
  /\ UNCHANGED <<portVars, settings, config, test_done, contexts, workerVars,
                 dangling>>

(* Mutants: port_fwd_end is that of the engine chosen for the next start;  *)
(* forwarding is done without waiting for the cores.                       *)
StopDoneCurrentEngine ==
  /\ main = "stopping" /\ AllLcoresWait
  /\ contexts' = IF cur_fwd_eng \in PairedEngines
                 THEN contexts \ {<<cur_fwd_eng, p>> : p \in CfgPorts}
                 ELSE contexts
  /\ test_done' = TRUE
  /\ main' = "command"
  /\ UNCHANGED <<portVars, settings, config, stopped, workerVars, dangling>>

StopDoneNoWait ==
  /\ main = "stopping"
  /\ contexts' = contexts \ CfgContexts
  /\ test_done' = TRUE
  /\ main' = "command"
  /\ UNCHANGED <<portVars, settings, config, stopped, workerVars, dangling>>

(* rte_eal_mp_wait_lcore returned: port_fwd_end, and forwarding is done.   *)
StopDone ==
  /\ main = "stopping" /\ AllLcoresWait
  /\ contexts' = contexts \ CfgContexts
  /\ test_done' = TRUE
  /\ main' = "command"
  /\ UNCHANGED <<portVars, settings, config, stopped, workerVars, dangling>>

-----------------------------------------------------------------------------
(* A list the operator can give: valid ports, none twice.                  *)
PortLists ==
  {list \in UNION {[1 .. n -> Valid] : n \in 0 .. Cardinality(Valid)} :
     \A i, j \in DOMAIN list : i # j => list[i] # list[j]}

Configure ==
  \/ \E n \in 0 .. NbEthPorts : SetNbPort(n)
  \/ \E n \in NbCoreValues : SetNbCore(n)
  \/ \E n \in 1 .. NbLcores : SetCoreList(n)
  \/ \E list \in PortLists : SetPortList(list)
  \/ SetEthPeer
  \/ \E e \in Engines : SetFwdMode(e)
  \/ \E n \in QueueCounts : ConfigQueues(n)

PortStep ==
  \E p \in Ports : \/ StartPort(p) \/ StopPort(p) \/ ClosePort(p)
                   \/ CloseRefused(p) \/ DetachPort(p) \/ AttachPort(p)

MainStep ==
  BeginEngines \/ BeginExits \/ LaunchBurst \/ BurstDone \/ Launch \/ StopDone

Next ==
  \/ Configure
  \/ PortStep
  \/ StartExits
  \/ \E with_tx_first \in BOOLEAN : Start(with_tx_first)
  \/ Stop
  \/ MainStep
  \/ \E lc \in Lcores : WorkerBegin(lc) \/ WorkerLeave(lc)

(* A command that has begun runs to its end, and the operating system runs *)
(* the worker threads; the operator owes nothing.                          *)
Fairness ==
  /\ WF_vars(MainStep)
  /\ \A lc \in Lcores : WF_vars(WorkerBegin(lc)) /\ WF_vars(WorkerLeave(lc))

Spec == Init /\ [][Next]_vars /\ Fairness

-----------------------------------------------------------------------------
(* What a running core polls.                                              *)

Polling(lc) ==
  IF wstate[lc] = "RUNNING" THEN Owned(captured[lc]) \cap DOMAIN fwd_streams
  ELSE {}

RxOf(s) == <<fwd_streams[s].rx_port, fwd_streams[s].rx_queue>>
TxOf(s) == <<fwd_streams[s].tx_port, fwd_streams[s].tx_queue>>

(* No core polls or sends on a port that "port stop" has stopped: the test *)
(* of port_is_forwarding in stop_port and close_port looks at the settings *)
(* of the operator, the cores at streams they were given earlier.          *)
PolledPortsStarted ==
  \A lc \in Lcores : \A s \in Polling(lc) :
    /\ port_status[fwd_streams[s].rx_port] = "STARTED"
    /\ port_status[fwd_streams[s].tx_port] = "STARTED"

(* A core that is launched or running is one of those that                 *)
(* stop_packet_forwarding will tell to stop.                               *)
StopReachesAll ==
  \A lc \in Lcores : wstate[lc] # "WAIT" => lc < cfg_lcores

(* No core runs on streams that init_fwd_streams has freed.                *)
NoUseAfterFree ==
  \A lc \in Lcores : wstate[lc] = "RUNNING" => ~dangling[lc]

(* Two running cores share no receive queue and no transmit queue.         *)
QueuesOwnedOnce ==
  \A lc1, lc2 \in Lcores : lc1 # lc2 =>
    \A s \in Polling(lc1),
       t \in Polling(lc2) :
      RxOf(s) # RxOf(t) /\ TxOf(s) # TxOf(t)

(* A context made by port_fwd_begin is ended by port_fwd_end before the    *)
(* prompt takes the next command with forwarding stopped: a second begin   *)
(* would leak it, or exit on the name of a ring that exists.               *)
ContextsBalanced ==
  test_done /\ main = "command" => contexts = {}

(* A core that runs a paired engine finds the context of every port it     *)
(* polls: noisy_cfg[port] is dereferenced without a test.                  *)
ContextsReady ==
  \A lc \in Lcores :
    wstate[lc] = "RUNNING" /\ captured[lc].eng \in PairedEngines =>
      \A s \in Polling(lc) :
        <<captured[lc].eng, fwd_streams[s].rx_port>> \in contexts

(* The contexts of the engines: each is there while a core may need it,    *)
(* and none is left behind.                                                *)
ContextsMatch == ContextsBalanced /\ ContextsReady

(* The lists of ports agree after any sequence of attaching, closing and   *)
(* detaching: ports_ids holds the valid ports, fwd_ports_ids some of them, *)
(* none twice ("nb_fwd_ports <= nb_cfg_ports <= nb_ports").                *)
NoRepeat(list) == \A i, j \in DOMAIN list : i # j => list[i] # list[j]
Listed(list) == {list[i] : i \in DOMAIN list}
PortListsConsistent ==
  /\ NoRepeat(ports_ids) /\ Listed(ports_ids) = Valid
  /\ NoRepeat(fwd_ports_ids) /\ Listed(fwd_ports_ids) \subseteq Valid

(* No setting a command accepts makes fwd_config_setup divide by zero or   *)
(* write beyond the streams that init_fwd_streams allocated.               *)
DefinedBehaviour == main # "undefined"

(* "stop" returns to the prompt.                                           *)
StopReturns == main = "stopping" ~> main = "command"

(* Forwarding as the operator sees it.                                     *)
Service == INSTANCE ForwardingService WITH
  Cores  <- Lcores,
  Queues <- Ports \X (0 .. 7),
  phase  <- CASE main \in {"exited", "undefined"} -> "ended"
              [] main = "stopping" -> "stopping"
              [] main = "command" ->
                   IF test_done THEN "idle" ELSE "forwarding"
              [] OTHER -> "starting",
  active <- {lc \in Lcores : wstate[lc] = "RUNNING"},
  polls  <- [lc \in Lcores |-> {RxOf(s) : s \in Polling(lc)}]

(* With an operator who does not reconfigure a running test, the commands  *)
(* and the cores implement ForwardingService, liveness included.           *)
ImplementsService == Service!Spec
=============================================================================
