---- MODULE PortControl ----
(***************************************************************************)
(* The life of the ports of testpmd: start, stop, close, reset, attach and *)
(* detach (testpmd.c), the configuration commands (PortCommands) and the   *)
(* removal of a port whose device reports that it is gone.                 *)
(*                                                                         *)
(* Two threads work on struct rte_port without a lock: "main" executes the *)
(* commands, "intr", the interrupt thread, executes rmv_port_callback.     *)
(* What a thread still has to do is a sequence of steps, cut where the     *)
(* code calls ethdev; a step does what is between two such calls.  The     *)
(* callbacks that ethdev makes from within a call (RTE_ETH_EVENT_NEW and   *)
(* _DESTROY) belong to the step that makes the call.  A primary process is *)
(* modelled; bonded devices are not.                                       *)
(***************************************************************************)
EXTENDS PortCommands, Lists, Integers, FiniteSets, SequencesExt

CONSTANTS
  NbEthPorts,      \* the identifiers of ports are 0 .. NbEthPorts - 1
  DeviceOf,        \* the device each of them belongs to
  Commands,        \* the configuration commands the operator uses
  Failures,        \* the calls that may fail, by name
  ProbeModes,      \* the values of "set port setup on"
  MaxRemovals,     \* bound: the removals that are due at a time
  Interleaved,     \* whether "intr" runs in the middle of commands of "main"
  Signals          \* whether SIGINT or SIGTERM may arrive during a command

Ports == 0 .. NbEthPorts - 1
All == NbEthPorts                             \* RTE_PORT_ALL
Devices == {DeviceOf[p] : p \in Ports}
Threads == {"main", "intr"}

ASSUME PortControlAssumption ==
  /\ NbEthPorts \in Nat \ {0}
  /\ Commands \subseteq AllCommands
  /\ ProbeModes \subseteq {"event", "iterator"} /\ ProbeModes # {}
  /\ Interleaved \in BOOLEAN /\ Signals \in BOOLEAN

VARIABLES
  attached,        \* the ports ethdev knows (RTE_ETH_FOREACH_DEV)
  probed,          \* the devices the bus has probed
  running,         \* the ports whose device is started
  port_status,     \* port_status of every port
  need_setup,      \* the ports whose need_setup is set
  flags,           \* need_reconfig and need_reconfig_queues of every port
  unapplied,       \* what is recorded for a port and not yet in its device
  own,             \* what is recorded for a port alone
  ports_ids, fwd_ports_ids,
  setup_on_probe_event,
  test_done,
  polled,          \* the ports of cur_fwd_config, once forwarding
  job,             \* the steps each thread still has to do
  removals         \* the ports for which rmv_port_callback is due

devices == <<attached, probed, running>>
records == <<port_status, need_setup, flags, unapplied, own>>
lists   == <<ports_ids, fwd_ports_ids>>
forwarding == <<test_done, polled>>
vars == <<devices, records, lists, setup_on_probe_event, forwarding, job,
          removals>>

Statuses == {"STOPPED", "STARTED", "CLOSED", "HANDLING"}

TypeOK ==
  /\ attached \subseteq Ports /\ running \subseteq attached
  /\ probed \subseteq Devices
  /\ port_status \in [Ports -> Statuses]
  /\ need_setup \subseteq Ports
  /\ flags \in [Ports -> SUBSET Items]
  /\ unapplied \in [Ports -> SUBSET Items]
  /\ own \in [Ports -> SUBSET Items]
  /\ ports_ids \in Seq(Ports) /\ fwd_ports_ids \in Seq(Ports)
  /\ setup_on_probe_event \in BOOLEAN /\ test_done \in BOOLEAN
  /\ polled \subseteq Ports /\ removals \subseteq Ports

-----------------------------------------------------------------------------
(* Steps and jobs.                                                         *)

Step(op, p) == [op |-> op, port |-> p]
\* The step for a port, or for every port in the order of the identifiers.
ForEach(op, pid) ==
  IF pid = All THEN [i \in 1 .. NbEthPorts |-> Step(op, i - 1)]
  ELSE <<Step(op, pid)>>

\* Mutant: the lists are not compacted.
ClosePortUnlisted(pid) == ForEach("close", pid)

ClosePortSteps(pid) == Append(ForEach("close", pid), Step("prune", pid))

Doing(t, op, p) == job[t] # <<>> /\ Head(job[t]) = Step(op, p)
Then(t, steps)  == job' = [job EXCEPT ![t] = steps \o Tail(@)]
Returns(t)      == job' = [job EXCEPT ![t] = <<>>]

Idle == \A t \in Threads : job[t] = <<>>
MayStep(t) == t = "intr" \/ Interleaved \/ job["intr"] = <<>>

Valid(pid) == pid = All \/ pid \in attached             \* port_id_is_invalid
IsForwarding(p) == p \in Range(fwd_ports_ids)            \* port_is_forwarding
AllPortsStarted == \A p \in attached : port_status[p] = "STARTED"
AllPortsStopped == \A p \in attached : port_status[p] = "STOPPED"

\* A port in the hands of a thread goes to status s, unless it was closed
\* behind the back of this thread.
SetStatus(p, s) ==
  port_status' = [port_status EXCEPT ![p] = IF @ = "HANDLING" THEN s ELSE @]

\* The ports of a set in the order of the identifiers.
Ascending(S) == Kept([i \in 1 .. NbEthPorts |-> i - 1], S)

\* remove_invalid_ports.
OnlyAttached(list) == Kept(list, attached')
\* Mutant: the list of forwarding ports is not compacted.
RemoveInvalidPortsHalf ==
  ports_ids' = OnlyAttached(ports_ids) /\ UNCHANGED fwd_ports_ids

RemoveInvalidPorts ==
  /\ ports_ids' = OnlyAttached(ports_ids)
  /\ fwd_ports_ids' = OnlyAttached(fwd_ports_ids)

\* Ethdev takes away the ports of S, and reports DESTROY for each.
Destroy(S) ==
  /\ attached' = attached \ S
  /\ running' = running \ S
  /\ port_status' = [p \in Ports |-> IF p \in S THEN "CLOSED"
                                     ELSE port_status[p]]

Init ==
  /\ attached \in {{p \in Ports : DeviceOf[p] \in D} : D \in SUBSET Devices}
  /\ probed = {DeviceOf[p] : p \in attached}
  /\ running = {}
  /\ port_status = [p \in Ports |-> "STOPPED"]
  /\ need_setup = {}
  /\ flags = [p \in Ports |-> IF p \in attached THEN Items ELSE {}]
  /\ unapplied = flags
  /\ own = [p \in Ports |-> {}]
  /\ ports_ids = Ascending(attached)
  /\ fwd_ports_ids = ports_ids
  /\ setup_on_probe_event \in {m = "event" : m \in ProbeModes}
  /\ test_done = TRUE /\ polled = {}
  /\ job = [t \in Threads |-> <<>>]
  /\ removals = {}

-----------------------------------------------------------------------------
(* start_port, one port at a time.                                         *)

StartPort(t, p) ==
  /\ Doing(t, "start", p)
  /\ IF p \in attached /\ port_status[p] = "STOPPED"
     THEN /\ port_status' = [port_status EXCEPT ![p] = "HANDLING"]
          /\ Then(t, <<Step("configure", p)>>)
     ELSE UNCHANGED port_status /\ Then(t, <<>>)
  /\ UNCHANGED <<devices, need_setup, flags, unapplied, own>>

\* need_reconfig: the calls before and after rte_eth_dev_configure that make
\* start_port return with the port still in HANDLING.
ConfigureDevice(t, p) ==
  /\ Doing(t, "configure", p)
  /\ UNCHANGED <<devices, need_setup, own>>
  /\ \/ /\ "device" \notin flags[p]
        /\ Then(t, <<Step("queues", p)>>)
        /\ UNCHANGED <<port_status, flags, unapplied>>
     \/ /\ "device" \in flags[p] /\ p \in attached
        /\ flags' = [flags EXCEPT ![p] = @ \ {"device"}]
        /\ unapplied' = [unapplied EXCEPT ![p] = @ \ {"device"}]
        /\ Then(t, <<Step("queues", p)>>)
        /\ UNCHANGED port_status
     \/ /\ "device" \in flags[p]
        /\ p \notin attached \/ "configure" \in Failures
        /\ SetStatus(p, "STOPPED")
        /\ Returns(t)
        /\ UNCHANGED <<flags, unapplied>>
     \/ /\ "device" \in flags[p]
        /\ {"isolate", "hairpin"} \cap Failures # {}
        /\ flags' = [flags EXCEPT ![p] = @ \ {"device"}]
        /\ Returns(t)
        /\ UNCHANGED <<port_status, unapplied>>

\* Mutant: the queues fail to be set up, and the port is not given back.
SetupQueuesKept(t, p) ==
  /\ Doing(t, "queues", p)
  /\ \/ /\ p \in attached
        /\ flags' = [flags EXCEPT ![p] = @ \ {"queues"}]
        /\ unapplied' = [unapplied EXCEPT ![p] = @ \ {"queues"}]
        /\ Then(t, <<Step("device", p)>>)
     \/ /\ p \notin attached \/ "queues" \in Failures
        /\ Returns(t)
        /\ UNCHANGED <<flags, unapplied>>
  /\ UNCHANGED <<devices, need_setup, own, port_status>>

SetupQueues(t, p) ==
  /\ Doing(t, "queues", p)
  /\ UNCHANGED <<devices, need_setup, own>>
  /\ \/ /\ "queues" \notin flags[p]
        /\ Then(t, <<Step("device", p)>>)
        /\ UNCHANGED <<port_status, flags, unapplied>>
     \/ /\ "queues" \in flags[p] /\ p \in attached
        /\ flags' = [flags EXCEPT ![p] = @ \ {"queues"}]
        /\ unapplied' = [unapplied EXCEPT ![p] = @ \ {"queues"}]
        /\ Then(t, <<Step("device", p)>>)
        /\ UNCHANGED port_status
     \/ /\ "queues" \in flags[p]
        /\ p \notin attached \/ "queues" \in Failures
        /\ SetStatus(p, "STOPPED")
        /\ Returns(t)
        /\ UNCHANGED <<flags, unapplied>>
     \/ /\ "queues" \in flags[p] /\ "mempool" \in Failures
        /\ flags' = [flags EXCEPT ![p] = @ \ {"queues"}]
        /\ Returns(t)
        /\ UNCHANGED <<port_status, unapplied>>

\* Mutant: a port that is gone starts.
StartDeviceGone(t, p) ==
  /\ Doing(t, "device", p)
  /\ running' = running \cup {p} /\ SetStatus(p, "STARTED")
  /\ Then(t, <<>>)
  /\ UNCHANGED <<attached, probed, need_setup, flags, unapplied, own>>

StartDevice(t, p) ==
  /\ Doing(t, "device", p)
  /\ \/ /\ p \in attached
        /\ running' = running \cup {p}
        /\ SetStatus(p, "STARTED")
     \/ /\ p \notin attached \/ "start" \in Failures
        /\ SetStatus(p, "STOPPED")
        /\ UNCHANGED running
  /\ Then(t, <<>>)
  /\ UNCHANGED <<attached, probed, need_setup, flags, unapplied, own>>

-----------------------------------------------------------------------------
(* stop_port, close_port and reset_port.                                   *)

\* Mutant: the forwarding is not looked at.
NeverRefused(p) == FALSE

Refused(p) == IsForwarding(p) /\ ~test_done

\* "peers": the hairpin peers cannot be read.
StopPort(t, p) ==
  /\ Doing(t, "stop", p)
  /\ IF p \in attached /\ ~Refused(p) /\ port_status[p] = "STARTED"
     THEN /\ port_status' = [port_status EXCEPT ![p] = "HANDLING"]
          /\ \/ Then(t, <<Step("halt", p)>>)
             \/ "peers" \in Failures /\ Then(t, <<>>)
     ELSE UNCHANGED port_status /\ Then(t, <<>>)
  /\ UNCHANGED <<devices, need_setup, flags, unapplied, own>>

\* A device that fails to stop is only reported.
StopDevice(t, p) ==
  /\ Doing(t, "halt", p)
  /\ \/ running' = running \ {p}
     \/ "stop" \in Failures /\ UNCHANGED running
  /\ SetStatus(p, "STOPPED")
  /\ Then(t, <<>>)
  /\ UNCHANGED <<attached, probed, need_setup, flags, unapplied, own>>

\* Ethdev refuses to close a device that is started.
ClosePort(t, p) ==
  /\ Doing(t, "close", p)
  /\ IF p \in attached /\ ~Refused(p) /\ port_status[p] # "CLOSED"
        /\ p \notin running
     THEN Destroy({p})
     ELSE UNCHANGED <<attached, running, port_status>>
  /\ Then(t, <<>>)
  /\ UNCHANGED <<probed, need_setup, flags, unapplied, own>>

ResetPort(t, p) ==
  /\ Doing(t, "reset", p)
  /\ \/ /\ p \in attached /\ ~Refused(p)
        /\ flags' = [flags EXCEPT ![p] = Items]
        /\ unapplied' = [unapplied EXCEPT ![p] = Items]
     \/ /\ p \notin attached \/ Refused(p) \/ "reset" \in Failures
        /\ UNCHANGED <<flags, unapplied>>
  /\ Then(t, <<>>)
  /\ UNCHANGED <<devices, port_status, need_setup, own>>

PortSteps(t, p) ==
  /\ \/ StartPort(t, p) \/ ConfigureDevice(t, p) \/ SetupQueues(t, p)
     \/ StartDevice(t, p) \/ StopPort(t, p) \/ StopDevice(t, p)
     \/ ClosePort(t, p) \/ ResetPort(t, p)
  /\ UNCHANGED <<lists, setup_on_probe_event, forwarding, removals>>

\* remove_invalid_ports at the end of close_port.
Prune(t, pid) ==
  /\ Doing(t, "prune", pid)
  /\ UNCHANGED devices /\ RemoveInvalidPorts
  /\ Then(t, <<>>)
  /\ UNCHANGED <<records, setup_on_probe_event, forwarding, removals>>

-----------------------------------------------------------------------------
(* attach_port and detach_device.                                          *)

\* init_port_config on every port: what was recorded for one port alone
\* gives way to the settings common to all.
Refreshed(q) == IF q \in attached' THEN own[q] ELSE {}

\* setup_attached_port on the ports of S.
SetupAttachedPorts(S) ==
  /\ flags' = [q \in Ports |-> IF q \in S THEN Items ELSE flags[q]]
  /\ unapplied' = [q \in Ports |->
       IF q \in S THEN Items
       ELSE unapplied[q] \cup (IF S = {} THEN {} ELSE Refreshed(q))]
  /\ own' = [q \in Ports |->
       IF S = {} THEN own[q] ELSE own[q] \ Refreshed(q)]
  /\ ports_ids' = ports_ids \o Ascending(S)
  /\ fwd_ports_ids' = fwd_ports_ids \o Ascending(S)
  /\ port_status' = [q \in Ports |->
       IF q \in S THEN "STOPPED"
       ELSE IF q \in attached' \ attached THEN "HANDLING"
       ELSE port_status[q]]
  /\ need_setup' = (need_setup \cup (attached' \ attached)) \ S

\* The device may have been probed before: probing it again adds no port.
\* In the event mode the ports that a NEW event announced are set up, in the
\* iterator mode those of the device that do not forward.
AttachPort(d) ==
  LET new == IF d \in probed THEN {} ELSE {p \in Ports : DeviceOf[p] = d}
      todo == IF setup_on_probe_event THEN need_setup \cup new
              ELSE {p \in attached \cup new :
                      DeviceOf[p] = d /\ ~IsForwarding(p)}
  IN
  /\ attached' = attached \cup new
  /\ probed' = probed \cup {d}
  /\ SetupAttachedPorts(todo)
  /\ UNCHANGED running

\* Mutant: one stopped port of the device is enough.
DetachDeviceAny(d) ==
  LET siblings == {p \in attached : DeviceOf[p] = d} IN
  IF siblings = {} \/ \E p \in siblings : port_status[p] = "STOPPED"
  THEN Destroy(siblings) /\ probed' = probed \ {d} /\ RemoveInvalidPorts
  ELSE UNCHANGED <<devices, port_status, lists>>

\* All the ports of the device must be stopped; they go with it.
DetachDevice(d) ==
  LET siblings == {p \in attached : DeviceOf[p] = d} IN
  IF \A p \in siblings : port_status[p] = "STOPPED"
  THEN \/ /\ Destroy(siblings)
          /\ probed' = probed \ {d}
          /\ RemoveInvalidPorts
       \/ "remove" \in Failures /\ UNCHANGED <<devices, port_status, lists>>
  ELSE UNCHANGED <<devices, port_status, lists>>

-----------------------------------------------------------------------------
(* start_packet_forwarding and stop_packet_forwarding, as far as the ports *)
(* are concerned: ForwardingControl has the rest.                          *)

StartForwarding(t, p) ==
  /\ Doing(t, "fwd_start", p)
  /\ IF AllPortsStarted /\ test_done
     THEN /\ polled' = Range(fwd_ports_ids)
          /\ Then(t, <<Step("fwd_launch", p)>>)
     ELSE UNCHANGED polled /\ Then(t, <<>>)
  /\ UNCHANGED test_done

LaunchForwarding(t, p) ==
  /\ Doing(t, "fwd_launch", p)
  /\ test_done' = FALSE
  /\ Then(t, <<>>)
  /\ UNCHANGED polled

StopForwarding(t, p) ==
  /\ Doing(t, "fwd_stop", p)
  /\ test_done' = TRUE
  /\ polled' = IF test_done THEN polled ELSE {}
  /\ Then(t, <<>>)

ForwardingSteps(t, p) ==
  /\ StartForwarding(t, p) \/ LaunchForwarding(t, p) \/ StopForwarding(t, p)
  /\ UNCHANGED <<devices, records, lists, setup_on_probe_event, removals>>

-----------------------------------------------------------------------------
(* Removal: the device of a port reports that it is gone, and an alarm     *)
(* runs rmv_port_callback in the interrupt thread.                         *)

RemovalEvent(p) ==
  /\ p \in attached /\ Cardinality(removals) < MaxRemovals
  /\ removals' = removals \cup {p}
  /\ UNCHANGED <<devices, records, lists, setup_on_probe_event, forwarding,
                 job>>

\* Mutant: the forwarding is not stopped first.
RmvPortForwarding(p) ==
  /\ job["intr"] = <<>> /\ p \in removals
  /\ Interleaved \/ job["main"] = <<>>
  /\ removals' = removals \ {p}
  /\ job' = [job EXCEPT !["intr"] =
        IF p \in attached THEN <<Step("stop", p), Step("rmv", p)>> ELSE <<>>]
  /\ UNCHANGED <<devices, records, lists, setup_on_probe_event, forwarding>>

RmvPortCallback(p) ==
  /\ job["intr"] = <<>> /\ p \in removals
  /\ Interleaved \/ job["main"] = <<>>
  /\ removals' = removals \ {p}
  /\ LET restart == ~test_done /\ IsForwarding(p)
         work == <<Step("stop", p), Step("rmv", p)>>
     IN job' = [job EXCEPT !["intr"] =
          IF p \notin attached THEN <<>>
          ELSE IF restart
          THEN <<Step("fwd_stop", p)>> \o work \o <<Step("fwd_start", p)>>
          ELSE work]
  /\ UNCHANGED <<devices, records, lists, setup_on_probe_event, forwarding>>

\* The device of the port is asked for before the port is closed.
RmvClose(t, p) ==
  /\ Doing(t, "rmv", p)
  /\ \/ /\ p \in attached
        /\ Then(t, Append(ClosePortSteps(p), Step("detach", p)))
     \/ /\ p \notin attached \/ "dev_info" \in Failures
        /\ Then(t, <<>>)
  /\ UNCHANGED <<devices, records, lists, setup_on_probe_event, forwarding,
                 removals>>

RmvDetach(t, p) ==
  /\ Doing(t, "detach", p)
  /\ DetachDevice(DeviceOf[p])
  /\ Then(t, <<>>)
  /\ UNCHANGED <<need_setup, flags, unapplied, own, setup_on_probe_event,
                 forwarding, removals>>

-----------------------------------------------------------------------------
(* The commands of the operator.                                           *)

Command == job["main"] = <<>> /\ (Interleaved \/ job["intr"] = <<>>)
Runs(steps) == job' = [job EXCEPT !["main"] = steps]

\* port start|stop|close|reset <port_id>|all; start; stop.
OperatePort(pid) ==
  /\ Command /\ Valid(pid)
  /\ \/ Runs(ForEach("start", pid))
     \/ Runs(ForEach("stop", pid))
     \/ Runs(ClosePortSteps(pid))
     \/ /\ IF pid = All THEN AllPortsStopped ELSE port_status[pid] = "STOPPED"
        /\ Runs(ForEach("reset", pid))
  /\ UNCHANGED <<devices, records, lists, setup_on_probe_event, forwarding,
                 removals>>

OperateForwarding ==
  /\ Command
  /\ Runs(<<Step("fwd_start", All)>>) \/ Runs(<<Step("fwd_stop", All)>>)
  /\ UNCHANGED <<devices, records, lists, setup_on_probe_event, forwarding,
                 removals>>

\* Mutant: the forwarding goes on.
ExitForwarding ==
  ForEach("stop", All) \o ClosePortSteps(All) \o <<Step("exited", All)>>

\* pmd_test_exit: forwarding is stopped, then every port stopped and closed.
ExitSteps ==
  (IF test_done THEN <<>> ELSE <<Step("fwd_stop", All)>>)
  \o ForEach("stop", All) \o ClosePortSteps(All) \o <<Step("exited", All)>>

Quit ==
  /\ Command
  /\ Runs(ExitSteps)
  /\ UNCHANGED <<devices, records, lists, setup_on_probe_event, forwarding,
                 removals>>

\* A signal: the main thread leaves what it is doing where it is, and exits.
Exiting == job["main"] # <<>> /\ Last(job["main"]).op = "exited"
SignalHandler ==
  /\ Signals /\ ~Exiting /\ job["main"] # <<>>
  /\ Runs(ExitSteps)
  /\ UNCHANGED <<devices, records, lists, setup_on_probe_event, forwarding,
                 removals>>

OperateAttach(d) ==
  /\ Command
  /\ AttachPort(d)
  /\ UNCHANGED <<setup_on_probe_event, forwarding, job, removals>>

\* port detach <port_id>; device detach <identifier>, which also removes a
\* device whose ports were all closed.
OperateDetach(d) ==
  /\ Command
  /\ d \in probed
  /\ DetachDevice(d)
  /\ UNCHANGED <<need_setup, flags, unapplied, own, setup_on_probe_event,
                 forwarding, job, removals>>

SetPortSetupOn(mode) ==
  /\ Command /\ mode \in ProbeModes
  /\ setup_on_probe_event' = (mode = "event")
  /\ UNCHANGED <<devices, records, lists, forwarding, job, removals>>

\* set portlist: valid ports, each once (their order is left out).
SetPortList(S) ==
  /\ Command /\ test_done
  /\ S # {} /\ S \subseteq attached
  /\ fwd_ports_ids' = Ascending(S)
  /\ UNCHANGED <<devices, records, ports_ids, setup_on_probe_event,
                 forwarding, job, removals>>

Meets(c, pid) ==
  CASE c.needs = "all stopped" -> AllPortsStopped
    [] c.needs = "stopped"     -> port_status[pid] = "STOPPED"
    [] c.needs = "not started" -> port_status[pid] # "STARTED"
    [] c.needs = "pending"     -> "device" \in flags[pid]
    [] OTHER                   -> TRUE

\* Mutant: the flags are assigned, also those that the command leaves at 0.
MarkedOver(marks, pid, set) ==
  [q \in Ports |-> IF q \in attached /\ (marks = "all" \/ q = pid) THEN set
                   ELSE flags[q]]

\* cmd_reconfig_device_queue.
Marked(marks, pid, set) ==
  [q \in Ports |->
     IF q \in attached /\ (marks = "all" \/ q = pid) THEN flags[q] \cup set
     ELSE flags[q]]

\* A configuration command writes the records of the ports it is about and
\* marks them; one that returns half way has written the first of them only,
\* and marks none.
Configure(c, pid) ==
  LET targets == IF c.scope = "all" THEN attached ELSE {pid}
      wrote(S, fresh, q) ==
        unapplied[q] \cup (IF q \in S THEN c.writes ELSE {})
                     \cup (IF fresh /\ q \in attached THEN own[q] ELSE {})
      kept(S, fresh, q) ==
        (IF fresh /\ q \in attached THEN {} ELSE own[q])
        \cup (IF q \in S THEN c.own ELSE {})
      Cut(S) ==
        \/ c.cut = "same value" /\ \E q \in targets :
             S = {r \in targets : r < q}
        \/ c.cut = "dev_info" /\ "dev_info" \in Failures /\ S = targets
  IN
  /\ Command
  /\ IF c.scope = "all" THEN pid = All ELSE pid \in attached
  /\ Meets(c, pid)
  /\ \/ /\ unapplied' = [q \in Ports |-> wrote(targets, c.refresh, q)]
        /\ own' = [q \in Ports |-> kept(targets, c.refresh, q)]
        /\ flags' = Marked(c.marks, pid, c.flags)
     \/ \E S \in SUBSET targets :
          /\ Cut(S)
          /\ unapplied' = [q \in Ports |-> wrote(S, FALSE, q)]
          /\ own' = [q \in Ports |-> kept(S, FALSE, q)]
          /\ UNCHANGED flags
  /\ UNCHANGED <<devices, port_status, need_setup, lists,
                 setup_on_probe_event, forwarding, job, removals>>

-----------------------------------------------------------------------------
Operator ==
  \/ \E pid \in Ports \cup {All} : OperatePort(pid)
  \/ OperateForwarding
  \/ Quit \/ SignalHandler
  \/ \E d \in Devices : OperateAttach(d) \/ OperateDetach(d)
  \/ \E mode \in ProbeModes : SetPortSetupOn(mode)
  \/ \E S \in SUBSET Ports : SetPortList(S)
  \/ \E c \in Commands, pid \in Ports \cup {All} : Configure(c, pid)

ThreadStep(t) ==
  /\ MayStep(t)
  /\ \E p \in Ports \cup {All} :
       \/ PortSteps(t, p) \/ Prune(t, p) \/ ForwardingSteps(t, p)
       \/ RmvClose(t, p) \/ RmvDetach(t, p)

Next ==
  \/ Operator
  \/ \E t \in Threads : ThreadStep(t)
  \/ \E p \in Ports : RemovalEvent(p) \/ RmvPortCallback(p)

Fairness ==
  /\ \A t \in Threads : WF_vars(ThreadStep(t))
  /\ \A p \in Ports : SF_vars(RmvPortCallback(p))

Spec == Init /\ [][Next]_vars /\ Fairness
-----------------------------------------------------------------------------
(* Safety.                                                                 *)

\* Between commands no port is left in HANDLING, from which neither "port
\* start" nor "port stop" moves it.
NoPortStuck ==
  Idle => \A p \in attached \ need_setup : port_status[p] # "HANDLING"

\* Between commands no port is stuck, and port_status tells which devices
\* run.
StatusTruthful ==
  /\ NoPortStuck
  /\ Idle => \A p \in attached : port_status[p] = "STARTED" <=> p \in running

\* What was recorded for a port and is not in its device yet is marked for
\* the next "port start", and so not lost.
RecordsMarked ==
  Idle => \A p \in attached : unapplied[p] \subseteq flags[p]

\* The lists of ports: the ports there are, each once, between commands; the
\* forwarding ports, each once, at any time.
ListsAttached ==
  Idle => Range(ports_ids) = attached /\ Range(fwd_ports_ids) \subseteq attached
PortsListDistinct == IsInjective(ports_ids)
FwdListDistinct == IsInjective(fwd_ports_ids)

\* Once forwarding has started, and until it stops, the device of every port
\* that is polled runs.
PolledRunning == ~test_done => polled \subseteq running

\* "quit" leaves no port behind; a signal, only one that a command was about
\* to stop.
Exited == job["main"] # <<>> /\ Head(job["main"]).op = "exited"
ExitClosesAll ==
  Exited => \A p \in attached : port_status[p] = "HANDLING" /\ p \in running

\* The steps of both threads implement the life of the ports that
\* PortLifecycle states.
Phase ==
  [p \in Ports |->
     IF p \notin attached THEN "absent"
     ELSE CASE port_status[p] = "STARTED"  -> "started"
            [] port_status[p] = "HANDLING" -> "handled"
            [] OTHER                       -> "stopped"]
Lifecycle == INSTANCE PortLifecycle WITH phase <- Phase, up <- running
ImplementsLifecycle == Lifecycle!Spec

-----------------------------------------------------------------------------
(* Liveness.                                                               *)

\* A port whose removal was reported goes away, unless the program ends
\* first: the callback finds it stopped or stops it, whatever the operator
\* has done meanwhile.
RemovalCompletes ==
  \A p \in Ports : p \in removals ~> (p \notin attached \/ Exiting)
====
