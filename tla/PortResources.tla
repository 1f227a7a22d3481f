--------------------------- MODULE PortResources ----------------------------
(***************************************************************************)
(* The tables of one port over the life of its device: it is closed or     *)
(* detached with whatever the tables hold, by a command or by the callback *)
(* of a removal, and another device may take its number.                   *)
(***************************************************************************)
EXTENDS PortFlows, PortPools

CONSTANT MaxAttached   \* bound: devices that get the number of the port

ASSUME ResourcesAssumption == MaxAttached \in Nat \ {0}

VARIABLES
  area,        \* the tables that the commands of this session are about
  attached     \* devices that have had the number of the port

vars == <<area, attached, deviceVars, flowVars, poolVars>>

(* The areas share nothing but the life of the device and the flow rules,  *)
(* so a session of the model uses the commands of one: rules by their      *)
(* attributes, rules that age and indirect actions, rules and tunnels,     *)
(* multicast addresses, flex items, or patterns of flex items.             *)
Areas == {"list", "action", "tunnel", "mcast", "flex", "pattern"}

Init ==
  /\ DeviceInit
  /\ area \in Areas /\ attached = 1
  /\ flow_list = <<>> /\ actions_list = <<>> /\ flow_tunnel_list = <<>>
  /\ dev_flows = {} /\ dev_actions = {}
  /\ mc_addr_pool = <<>> /\ mc_pool_size = 0 /\ dev_mc = {}
  /\ flex_items = [i \in FlexIds |-> NULL] /\ flex_heap = {} /\ dev_flex = {}
  /\ flex_patterns =
       [p \in FlexPatterns |-> [spec |-> 0, mask |-> 0, set |-> FALSE]]

Session(names) ==
  Running /\ area \in names /\ UNCHANGED <<area, attached>>
Rules == {"list", "action", "tunnel"}

(* The rules that a session asks for.                                      *)
RuleKinds ==
  CASE area = "list"   -> Attributes \X {FALSE} \X {NoTunnel}
    [] area = "action" -> {CHOOSE attr \in Attributes : TRUE} \X {TRUE}
                            \X {NoTunnel}
    [] OTHER           -> {CHOOSE attr \in Attributes : TRUE} \X {FALSE}
                            \X TunnelOps

FlowCreate ==
  /\ Session(Rules) /\ UNCHANGED poolVars
  /\ \E kind \in RuleKinds :
       \E answer \in PrepAnswers(kind[3]) \cup {"conv", "refused"} :
         port_flow_create(kind[1], kind[2], kind[3], answer)

FlowValidate ==
  /\ Session({"tunnel"}) /\ UNCHANGED poolVars
  /\ \E ops \in TunnelOps : \E answer \in PrepAnswers(ops) :
       port_flow_validate(ops, answer)

FlowDestroy ==
  /\ Session(Rules) /\ UNCHANGED poolVars
  /\ \E rule \in SUBSET Ids(flow_list) : port_flow_destroy(rule)

FlowFlush ==
  /\ Session(Rules) /\ UNCHANGED poolVars
  /\ \E left \in SUBSET dev_flows : port_flow_flush(left)

FlowUse ==
  /\ Session(Rules) /\ UNCHANGED poolVars
  /\ \E rule \in 0 .. MaxId :
       \/ port_flow_dump(rule)
       \/ \E type \in {"count", "rss", "age", "queue"} :
            port_flow_query(rule, type)

FlowAges == Session(Rules) /\ UNCHANGED poolVars /\ Age

FlowAged ==
  /\ Session(Rules) /\ UNCHANGED poolVars
  /\ \E destroyed \in SUBSET Contexts : port_flow_aged(destroyed)

TunnelCreate ==
  /\ Session({"tunnel"}) /\ UNCHANGED poolVars /\ UNCHANGED deviceVars
  /\ \E type \in Offloads : port_flow_tunnel_create(type)

TunnelDestroy ==
  /\ Session({"tunnel"}) /\ UNCHANGED poolVars /\ UNCHANGED deviceVars
  /\ \E id \in Ids(flow_tunnel_list) : port_flow_tunnel_destroy(id)

ActionCreate ==
  /\ Session({"action"}) /\ UNCHANGED poolVars
  /\ \E id \in 0 .. MaxId, type \in {"age", "conntrack"}, created \in BOOLEAN :
       port_action_handle_create(id, type, created)

ActionDestroy ==
  /\ Session({"action"}) /\ UNCHANGED poolVars
  /\ \E actions \in SUBSET Ids(actions_list) :
       port_action_handle_destroy(actions)

ActionUse ==
  /\ Session({"action"}) /\ UNCHANGED poolVars
  /\ \E id \in 0 .. MaxId :
       port_action_handle_update(id) \/ port_action_handle_query(id)

McastAdd ==
  /\ Session({"mcast"}) /\ UNCHANGED flowVars
  /\ \E mc_addr \in MacAddrs, memory, accepted \in BOOLEAN :
       mcast_addr_add(mc_addr, memory, accepted)

McastRemove ==
  /\ Session({"mcast"}) /\ UNCHANGED flowVars
  /\ \E mc_addr \in MacAddrs, memory, accepted \in BOOLEAN :
       mcast_addr_remove(mc_addr, memory, accepted)

FlexCreate ==
  /\ Session({"flex"}) /\ UNCHANGED flowVars
  /\ \E flex_id \in 0 .. NbFlexItems, conf \in FlexConfs, created \in BOOLEAN :
       flex_item_create(flex_id, conf, created)

FlexDestroy ==
  /\ Session({"flex"}) /\ UNCHANGED flowVars
  /\ \E flex_id \in 0 .. NbFlexItems : flex_item_destroy(flex_id)

FlexPattern ==
  /\ Session({"pattern"}) /\ UNCHANGED flowVars
  /\ \E id \in FlexPatterns, spec_data, mask_data \in 0 .. PatternLength,
        full_spec \in BOOLEAN :
       flex_pattern_parsed_fn(id, spec_data, full_spec, mask_data)

(* close_port: the rules and the flex items are flushed, then the device   *)
(* is closed.  What a device forgets, it no longer has to be asked for.    *)
ClosePort ==
  /\ Running /\ open
  /\ open' = FALSE
  /\ FlowsOfClosedPort
  /\ \E refused \in SUBSET FlexIds :
       LET used  == {i \in FlexIds : flex_items[i] # NULL}
           freed == {i \in used : Freed(i, refused)}
       IN /\ flex_items' = port_flex_item_flush
          /\ flex_heap' = flex_heap \ freed
          /\ faults' = (faults \ {"flush"}) \cup ActionsKept \cup McastKept
                         \cup FlexLost(used \ freed)
  /\ dev_mc' = {} /\ dev_flex' = {}
  /\ UNCHANGED <<area, attached, dead, mc_addr_pool, mc_pool_size,
                 flex_patterns>>

(* detach_device of a port that is stopped: only the rules are flushed     *)
(* before the device is removed.                                           *)
DetachPort ==
  /\ Running /\ open
  /\ open' = FALSE
  /\ FlowsOfClosedPort
  /\ flex_items' = [i \in FlexIds |->
                      IF flex_items[i] = NULL THEN NULL ELSE GONE]
  /\ faults' = (faults \ {"flush"}) \cup ActionsKept \cup McastKept
                 \cup FlexKept
  /\ dev_mc' = {} /\ dev_flex' = {}
  /\ UNCHANGED <<area, attached, dead, mc_addr_pool, mc_pool_size,
                 flex_heap, flex_patterns>>

(* Another device gets the number: the tables are those of the last one.   *)
AttachPort ==
  /\ Running /\ ~open /\ attached < MaxAttached
  /\ open' = TRUE /\ attached' = attached + 1
  /\ UNCHANGED <<area, faults, dead, flowVars, poolVars>>

(* The session is over: nothing is defined any more, or no device is left. *)
Ended ==
  /\ ~Running \/ (~open /\ attached = MaxAttached)
  /\ UNCHANGED vars

Next ==
  \/ FlowCreate \/ FlowValidate \/ FlowDestroy \/ FlowFlush \/ FlowUse
  \/ FlowAges \/ FlowAged \/ TunnelCreate \/ TunnelDestroy
  \/ ActionCreate \/ ActionDestroy \/ ActionUse
  \/ McastAdd \/ McastRemove
  \/ FlexCreate \/ FlexDestroy \/ FlexPattern
  \/ ClosePort \/ DetachPort \/ AttachPort \/ Ended

Spec == Init /\ [][Next]_vars
-----------------------------------------------------------------------------
(* Every table holds what its type says, and no more objects than memory.  *)
TypeOK ==
  /\ DeviceTypeOK
  /\ area \in Areas /\ attached \in 1 .. MaxAttached
  /\ flow_list \in Seq([id : 0 .. MaxId, obj : Objects, flow : Objects,
                        attr : Attributes, given : BOOLEAN])
  /\ actions_list \in Seq([id : 0 .. MaxId - 1, obj : Objects,
                           type : {"age", "conntrack"},
                           handle : Objects \cup {GONE}])
  /\ flow_tunnel_list \in
       Seq([id : 1 .. MaxTunnelId, type : Offloads,
            actions : BOOLEAN, items : BOOLEAN, held : 0 .. MaxHeld])
  /\ dev_flows \subseteq [flow : Objects, ctx : Objects \cup {NULL},
                          aged : BOOLEAN]
  /\ dev_actions \subseteq [handle : Objects, ctx : Objects \cup {NULL},
                            aged : BOOLEAN]
  /\ mc_addr_pool \in Seq(MacAddrs) /\ mc_pool_size \in Nat
  /\ dev_mc \subseteq MacAddrs
  /\ flex_items \in [FlexIds -> FlexHandles \cup {NULL, GONE}]
  /\ flex_heap \subseteq FlexIds /\ dev_flex \subseteq FlexHandles
  /\ flex_patterns \in
       [FlexPatterns -> [spec : 0 .. PatternLength - 1,
                         mask : 0 .. PatternLength - 1, set : BOOLEAN]]

(* An identifier names one rule, one indirect action, one tunnel: the      *)
(* lists descend, which is what the new identifier is computed from        *)
(* (port_flow_create, action_alloc, port_flow_tunnel_create); and no type  *)
(* has two tunnels.                                                        *)
Descends(list) ==
  \A i \in 1 .. Len(list) - 1 : list[i].id > list[i + 1].id
IdsDescend ==
  /\ Descends(flow_list) /\ Descends(actions_list)
  /\ Descends(flow_tunnel_list)
  /\ \A i, j \in DOMAIN flow_tunnel_list :
       flow_tunnel_list[i].type = flow_tunnel_list[j].type => i = j

(* port_flow_aged reads the object behind every context that the device    *)
(* hands back: it is that of the rule, or of the indirect action, that the *)
(* device has aged, unless a flush has been refused.                       *)
ContextsAlive ==
  "flush" \notin faults =>
    /\ \A f \in dev_flows : f.ctx # NULL =>
         \E r \in Elements(flow_list) : r.obj = f.ctx /\ r.flow = f.flow
    /\ \A h \in dev_actions : h.ctx # NULL =>
         \E a \in Elements(actions_list) :
           a.obj = h.ctx /\ a.handle = h.handle

(* The rules listed are those of the device, after destructions and        *)
(* flushes of which some are refused; so a rule's flow can always be       *)
(* handed back to the device (port_flow_destroy, _query, _dump).           *)
RulesMatchDevice ==
  /\ {r.flow : r \in Elements(flow_list)} \subseteq Flows
  /\ "flush" \notin faults =>
       {r.flow : r \in Elements(flow_list)} = Flows
  /\ \A i, j \in DOMAIN flow_list : flow_list[i].flow = flow_list[j].flow => i = j

(* So are the indirect actions, as long as no device has been closed with  *)
(* some of them: nothing takes those off the list.                         *)
HandlesLive ==
  "actions_kept" \notin faults =>
    {a.handle : a \in Elements(actions_list)} = Handles

(* After a command a tunnel holds nothing and the device has everything    *)
(* back, so that the next rule is made of its own actions and pattern;     *)
(* port_flow_create and the preparation miss that where a copy or the      *)
(* items fail.                                                             *)
TunnelReleased ==
  faults \cap {"prepare", "conv"} = {} =>
    /\ \A t \in Elements(flow_tunnel_list) :
         ~t.actions /\ ~t.items /\ t.held = 0
    /\ \A r \in Elements(flow_list) : r.given

(* "flow list" prints the rules of the groups asked for, each once, by     *)
(* group, priority and identifier (port_flow_list).                        *)
ListingSorted ==
  \A group \in SUBSET {attr.group : attr \in Attributes} :
    LET list == port_flow_list(group) IN
    /\ Elements(list) = {r \in Elements(flow_list) :
                           group = {} \/ r.attr.group \in group}
    /\ \A i \in 1 .. Len(list) - 1 : Follows(list[i + 1], list[i])

(* The pool of multicast addresses is what the device filters, no address  *)
(* twice and none past the memory of the pool, whatever the device has     *)
(* refused; two ways lose that: no memory to put an address back, and a    *)
(* device that is closed under the pool.                                   *)
McastMatches ==
  /\ Len(mc_addr_pool) <= mc_pool_size /\ IsInjective(mc_addr_pool)
  /\ faults \cap {"mc_nomem", "mc_kept"} = {} => ToSet(mc_addr_pool) = dev_mc

(* The slots of flex items are the handles of the device, and no item is   *)
(* lost, save the item 0 and those that the device does not give back when *)
(* the port is closed, and all of them when it is detached.                *)
FlexSlots ==
  LET used == {i \in FlexIds : flex_items[i] # NULL} IN
  /\ "flex_kept" \notin faults => {flex_items[i] : i \in used} = dev_flex
  /\ used \subseteq flex_heap
  /\ "flex_refused" \notin faults => flex_heap \ used \subseteq {0}
  /\ "flex_zero" \notin faults /\ "flex_refused" \notin faults =>
       flex_heap = used

(* A pattern that can be used has a mask as long as its specification,     *)
(* until a command that sets it is refused: the pattern is then half of    *)
(* each (flex_pattern_parsed_fn).                                          *)
PatternWhole ==
  "pattern" \notin faults =>
    \A p \in FlexPatterns :
      flex_patterns[p].spec = flex_patterns[p].mask

(* What the tables of the port list is what its device holds: rules,       *)
(* indirect actions, multicast addresses and flex items.                   *)
TablesMatchDevice ==
  /\ RulesMatchDevice /\ HandlesLive
  /\ McastMatches /\ FlexSlots /\ PatternWhole

(* The lists are in the order that new identifiers and the listing of the  *)
(* rules rely on.                                                          *)
ListsOrdered == IdsDescend /\ ListingSorted
=============================================================================
